CONSTANTS
    w1 = w1
    Windows = {w1}
    MaxFences = 4
    NoFence = NoFence
    Followed = 3
    MayTimeOut = TRUE
    MaxNotified = 1
SPECIFICATION FairSpec
CONSTRAINT QueueBound
INVARIANTS NextFenceFree NoPrematureWait NotResetWhileWaited
PROPERTIES DamageFetched FrameEnds
