\* Two topics, one subscription, two messages of one key or none.
SPECIFICATION PSFairSpec
CONSTANTS
    Topics = {t1, t2}
    Subs = {s1}
    Keys = {k1}
    NoKey = NoKey
    NoTopic = NoTopic
    MaxMessages = 2
    Batches = {1, 2}
INVARIANTS
    Accounted
    InOrder
PROPERTIES
    Drained
CHECK_DEADLOCK FALSE
