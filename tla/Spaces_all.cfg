\* Two requests at a time against the kernel cap of one space, two tenants.
SPECIFICATION Spec
CONSTANTS
    Threads = {t1, t2}
    Ids = {i1, i2, i3}
    i1 = i1
    Tenants = {d, b}
    Resources = {r1}
    Default = d
    NoSpace = NoSpace
    NoTenant = NoTenant
    MaxSpaces = 1
    TenantMax = 9
    Loads <- MCLoads
    Faults = TRUE
    Crashes = TRUE
SYMMETRY Symmetry
CHECK_DEADLOCK FALSE
INVARIANTS
    OvershootBounded
    
    
    NoThirdTenant
