\* A job that outlives its lease.
CONSTANTS
    p1 = p1  p2 = p2  t1 = t1  t2 = t2  k1 = k1
    j1 = j1  j2 = j2  j3 = j3  o1 = o1  o2 = o2
    Project = {p1}
    Task = {t1}
    TaskProject <- TaskOfP1
    NoTask = NoTask
    Job = {j1, j2}
    NoJob = NoJob
    Op = {o1}
    NoWork = NoWork
    Key = {k1}
    ProjectOf <- KeyOfP1
    NoKey = NoKey
    JobLimit = 2
    MaxAssess = 1
    Overrun = TRUE
    MaxFaults = 0
    MaxCrashes = 0
SPECIFICATION Spec
INVARIANTS
    OneWorkerPerProject
