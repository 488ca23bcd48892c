\* Two tenants, one paid tier, three tokens known at a time, one revocation, one
\* restart.
SPECIFICATION Spec
CONSTANTS
    Paid = {"student"}
    Jtis = {j1, j2, j3}
    NoJti = NoJti
    Tenants = {house, guest}
    NoTenant = NoTenant
    DefaultTenant = house
    MaxRevoked = 1
    MaxRestarts = 1
    Loads <- MCLoads
INVARIANTS
    TierMatches
PROPERTIES
    RevokedDropped
    DowngradeReaches
CHECK_DEADLOCK FALSE
