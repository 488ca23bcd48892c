\* A FIFO and a standard queue, each the other's dead-letter queue, three
\* messages.
SPECIFICATION Spec
CONSTANTS
    fifo = fifo
    plain = plain
    Queues = {fifo, plain}
    Fifo = {fifo}
    NoQueue = NoQueue
    Groups = {g1}
    NoGroup = NoGroup
    Dedups = {d1}
    NoDedup = NoDedup
    Configs <- MCConfigs
    Waits = {1}
    Visibility = 1
    Retention = 1
    Window = 1
    MaxStamps = 3
    MaxTime = 2
    MaxCount = 2
    MaxBatch = 2
INVARIANTS
    Accounted
    OneAtATime
    NoDuplicate
    NotOverDelivered
PROPERTY KeepsContract
