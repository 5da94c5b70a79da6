\* Three concurrent calls of each workload, one crash; a descendant holds the pipes
\* of the third.
CONSTANTS
    c1 = c1  c2 = c2  c3 = c3
    Call = {c1, c2, c3}
    NoCall = NoCall
    site = site
    Project = {site}
    k = k  i = i
    Key = {k, i}
    NoKey = NoKey
    a = a  b = b
    Fingerprint = {a, b}
    f = f  alias = alias
    Path = {f, alias}
    RealPath <- MCRealPath
    Original = Original
    Absent = Absent
    MaxCrashes = 1
    MaxTime = 3
    DatabaseTimeout = 1
    DatabaseLease = 2
    CommandTimeout = 1
    HelperTimeout = 2
    RestartLease = 3
    Retention = 0
    Workload <- MCWorkload
    Lingering = {c3}
SPECIFICATION FairSpec
INVARIANTS
    TypeOK
    KeyedWorkIsDoneOnce
    OverlapOnlyWhenGivenUp
PROPERTIES
    NoLostEdit
    CallsSettle
\* Every call may be answered and the clock at its bound: the calls are all there is.
CHECK_DEADLOCK FALSE
