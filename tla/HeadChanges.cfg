CONSTANTS
    Subscriber = {s1, s2}
    ChannelCap = 1
    SINK_CAP = 2
    MaxHead = 3
    Closers = {s1}
SPECIFICATION FairSpec
CHECK_DEADLOCK FALSE
INVARIANTS
    ForwardingIsSound
PROPERTIES
    ToldOfLastHead
