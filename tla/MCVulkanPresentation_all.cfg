SPECIFICATION FairSpec
CONSTANTS
    f1 = f1
    f2 = f2
    f3 = f3
    FrameIds <- Frames3
    MaxPendingFrameCount = 1
    NoFrame = NoFrame
    PresentTimings = {TRUE, FALSE}
    AcquireResults = {"ok", "suboptimal", "outOfDate", "error"}
    PresentResults = {"ok", "stale", "error"}
    RecreateResults = {"ok", "none", "incomplete"}
    WaitResults = {"presented", "timeout", "stale"}
    VsyncMayFail = TRUE
    GpuMayReset = TRUE
INVARIANT FeedbackMatchesFrame
INVARIANT HeldFrameUnresolved
PROPERTY LoopSpec
INVARIANT FrameOwedFeedback
INVARIANT HelperOnLiveHandle
PROPERTY FramesResolved
PROPERTY DamagePainted
