SPECIFICATION FairSpec_W
CONSTANTS
    Worker <- Workers
    CustomRole <- Custom
    MaxOpen = 2
    MaxReads = 2
    IntMax = 7
    DefaultPageSize = 1
    MaxPageSize = 2
    Conn <- Conns
    Lister <- Listers
    Tenant <- Tenants
    Asked <- MCAsked
    MaxRows = 3
    None = None
    c1 = c1
    l1 = l1
    l2 = l2
    k1 = k1
    k2 = k2
    t1 = t1
    t2 = t2
INVARIANTS
    ConnectionsAccountedFor
    NotStuck
    SettingEndsWithTransaction
PROPERTIES
    PageIsRight
    RequestsFinish
