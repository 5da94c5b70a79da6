--------------------------- MODULE ExclusiveWork ---------------------------
(***************************************************************************)
(* What the project leases promise, without leases: a project is worked on *)
(* by one piece of work at a time.  docs/architecture.md states it as      *)
(* "project-scoped mutation leases used to prevent overlapping mutating    *)
(* work".                                                                  *)
(***************************************************************************)
CONSTANTS Project, Work

VARIABLE working        \* working[p]: the work in progress on project p

Init == working = [p \in Project |-> {}]

Begin(p, w) ==
    /\ working[p] = {}
    /\ working' = [working EXCEPT ![p] = {w}]

End(p, w) ==
    /\ w \in working[p]
    /\ working' = [working EXCEPT ![p] = @ \ {w}]

\* The process dies and takes all its work along.
Halt == working' = [p \in Project |-> {}]

Next ==
    \/ \E p \in Project, w \in Work : Begin(p, w) \/ End(p, w)
    \/ Halt

Spec == Init /\ [][Next]_working

=============================================================================
