\* Two operations under fairness, the commands of one of which may never close;
\* one crash, one storage error.
CONSTANTS
    p1 = p1  p2 = p2  k1 = k1  k2 = k2  k3 = k3  t1 = t1  t2 = t2
    Project = {p1}
    Key = {k1, k2}
    ProjectOf <- OneProject
    Task = {t1}
    NoTask = NoTask
    Op = {o1, o2}
    NoOp = NoOp
    NoKey = NoKey
    LeaseTtl = 3
    RenewEvery = 1
    MaxLate = 0
    Lingering = {o2}
    MaxFaults = 1
    MaxCrashes = 1
    Retention = 1
    MaxTime = 4
SPECIFICATION FairSpec
PROPERTIES
    BegunWorkEnds
    LeaseComesFree
    ImplementsExclusiveWork
