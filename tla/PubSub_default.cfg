\* A topic and its default subscription, which has the topic's id.
SPECIFICATION PSSpec
CONSTANTS
    Topics = {t1}
    Subs = {t1}
    Keys = {}
    NoKey = NoKey
    NoTopic = NoTopic
    MaxMessages = 1
    Batches = {2}
PROPERTY AckedRemoved
CHECK_DEADLOCK FALSE
