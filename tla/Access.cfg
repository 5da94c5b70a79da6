SPECIFICATION Spec
CONSTANTS
    Principal = {owner}
    Definition = {d1, d2}
    NoDefinition = none
    Credential = {b, c1, c2}
    Owner = owner
    OwnerDefinition = d1
    BootstrapId = b
    BootstrapExpiry = 2
    Admins = 2
    MaxTime = 3
    Window = 2
    MaxKeys = 1
    Source = {s1, s2}
    AttemptLimit = 2
    RequestLimit = 1
SYMMETRY Alike
INVARIANTS
    LimitsHold
    OneLiveSuccessor
PROPERTIES
    AgentRevivesNothing
