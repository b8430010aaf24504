CONSTANTS
    c1 = c1
    c2 = c2
    g1 = g1
    g2 = g2
    Counters = {c1}
    NoCounter = NoCounter
    BadCounter = BadCounter
    Geometries = {g1, g2}
    NoAlarm = NoAlarm
    MaxValue = 2
    MaxPings = 2
    MaxPublished = 1
SPECIFICATION FairSpec
CHECK_DEADLOCK FALSE
PROPERTY PromptAtSecondTimeout
