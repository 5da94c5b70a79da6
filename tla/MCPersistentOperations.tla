----------------------- MODULE MCPersistentOperations -----------------------
(* Small instances of PersistentOperations for TLC. *)
EXTENDS PersistentOperations, TLC

CONSTANTS p1, p2, k1, k2, k3, t1, t2

\* Two keys contend for p1, a third works on p2.
TwoProjects == (k1 :> p1) @@ (k2 :> p1) @@ (k3 :> p2)
OneProject  == (k1 :> p1) @@ (k2 :> p1)

\* Operation ids are fresh and interchangeable.
OpSymmetry == Permutations(Op)

=============================================================================
