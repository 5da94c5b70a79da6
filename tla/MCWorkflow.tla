----------------------------- MODULE MCWorkflow -----------------------------
(* Small instances of Workflow for TLC. *)
EXTENDS Workflow, TLC

\* Ids are fresh and interchangeable, and so are commits.
IdSymmetry ==
    Permutations(Plan) \cup Permutations(Deployment) \cup Permutations(Commit)

=============================================================================
