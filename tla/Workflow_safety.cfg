\* One task with a deployment and two plans; one crash, one storage error.
CONSTANTS
    Task = {t1}
    NoTask = NoTask
    Deployment = {d1}
    NoDeployment = NoDeployment
    Plan = {r1, r2}
    NoPlan = NoPlan
    Commit = {c1, c2}
    NoCommit = NoCommit
    MaxAttempts = 1
    MaxFaults = 1
    MaxCrashes = 1
SPECIFICATION Spec
SYMMETRY IdSymmetry
INVARIANTS
    TypeOK
    TerminalIsBacked
    NoOrphanStatus
    WorkedTaskIsHeld
PROPERTIES
    RollbackStartsAsPlanned
    RollbackReachesTarget
