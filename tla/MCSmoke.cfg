SPECIFICATION Spec
CONSTANTS
    Worker <- Workers
    Email <- Emails
    AdminEmail = "admin"
    Name <- Names
    Tenants = Tenants
    TenantTries = 2
    RoleTries = 1
    TenantWidth = 2
    RoleWidth = 1
    Nil = Nil
    Client = c
    Visitor <- Visitors
    Boot <- Boots
    VisitorEmail <- VisitorEmails
    VisitorName <- VisitorNames
    MaxVisits = 3
    c = c
    v1 = v1
    b1 = b1
CHECK_DEADLOCK FALSE
INVARIANTS
    RefusalsJustified
    NumbersInOrder
    SeedOutcome
    RunLeavesConsistent
PROPERTIES
    FailsOnlyIf
    SmokeEnds
