SPECIFICATION Spec
CONSTANTS
    Principal = {owner}
    Definition = {d1}
    NoDefinition = none
    Credential = {b, t1, t2}
    Owner = owner
    OwnerDefinition = d1
    BootstrapId = b
    BootstrapExpiry = 1
    Admins = 0
    MaxTime = 3
    Client = {c1}
    Code = {k1, k2}
    Refresh = {r1, r2}
    AnyClient = c1
    AnyCode = k1
    OAuthPrincipal = owner
    OAuthDefinition = d1
    CodeTtl = 1
    AccessTtl = 1
    OrphanAge = 1
    RefreshTtl = 2
SYMMETRY Alike
INVARIANTS
    TypeOK
    OneLiveTokenPerGrant
    TokensKeepTheirClient
