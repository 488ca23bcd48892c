\* A create and a resource call of two tenants on a new installation.
SPECIFICATION Spec
CONSTANTS
    Threads = {t1, t2}
    Ids = {i1, i2, i3}
    i1 = i1
    Tenants = {d, b}
    Resources = {r1}
    Default = d
    NoSpace = NoSpace
    NoTenant = NoTenant
    MaxSpaces = 1
    TenantMax = 9
    Loads <- MCIsolation
    Faults = FALSE
    Crashes = FALSE
SYMMETRY Symmetry
CHECK_DEADLOCK FALSE
INVARIANTS
    TenantIsolation
