CONSTANTS
    f1 = f1
    f2 = f2
    f3 = f3
    FrameIds = {f1, f2, f3}
    MaxPendingFrameCount = 2
    PresentationModes = {"VSync", "AdaptiveSync", "Async"}
    MaxInhibit = 2
SPECIFICATION FairSpec
CONSTRAINT CountBound
INVARIANTS FrameCountExact RequestNotLost CapacityRespected
PROPERTIES RequestServed
