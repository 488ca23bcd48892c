\* Two buckets of which the tier allows one, two keys, two requests under way.
SPECIFICATION Spec
CONSTANTS
    Buckets = {b1, b2}
    b1 = b1
    b2 = b2
    u1 = u1
    NoBucket = NoBucket
    Keys = {1, 2}
    Uploads = {u1}
    Parts = {1}
    Requests = {r1, r2}
    Pages = {1}
    Sizes = {1}
    Loads <- MCLoads
    Cap = 2
    Quota = 1
    MaxStamps = 3
SYMMETRY Symmetry
INVARIANTS
    VersionsKept
    CurrentIsNewest
    WithinCap
    CompletedOnce
    NamedAnnounced
PROPERTIES
    StartsEmpty
    ListingComplete
CHECK_DEADLOCK FALSE
