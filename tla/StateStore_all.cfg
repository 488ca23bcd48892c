\* Two request threads, three items, crashes, failing saves, a damaged file.
SPECIFICATION FairSpec
CONSTANTS
    Threads = {t1, t2}
    Main = Main
    NoOne = NoOne
    Items = {x1, x2, x3}
    Listed = {x1, x2}
    NoItem = NoItem
    Keys = {k1, k2}
    NoKey = NoKey
    Unsigned = Unsigned
    Broken = Broken
    Absent = Absent
    Faults = {"persist", "damage"}
INVARIANTS
    Durable
    Verifiable
    Settled
    Served
PROPERTY LockReturns
