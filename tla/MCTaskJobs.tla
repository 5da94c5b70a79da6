----------------------------- MODULE MCTaskJobs -----------------------------
(* Small instances of TaskJobs for TLC. *)
EXTENDS TaskJobs, TLC

CONSTANTS p1, p2, t1, t2, k1, j1, j2, j3, o1, o2

TaskOfP1 == t1 :> p1
KeyOfP1 == k1 :> p1
Keyless == [k \in {} |-> p1]

\* Job and operation ids are fresh and interchangeable.
IdSymmetry == Permutations(Job) \cup Permutations(Op)

=============================================================================
