\* A rollback that is executed; no crash, no storage error.
CONSTANTS
    Task = {t1}
    NoTask = NoTask
    Deployment = {d1}
    NoDeployment = NoDeployment
    Plan = {r1}
    NoPlan = NoPlan
    Commit = {c1, c2}
    NoCommit = NoCommit
    MaxAttempts = 1
    MaxFaults = 0
    MaxCrashes = 0
SPECIFICATION Spec
PROPERTIES
    FailedRollbackWaits
