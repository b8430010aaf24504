SPECIFICATION FairSpec
CONSTANTS
    f1 = f1
    f2 = f2
    f3 = f3
    FrameIds <- Frames3
    MaxPendingFrameCount = 1
    NoFrame = NoFrame
    PresentTimings = {TRUE}
    AcquireResults = {"ok", "suboptimal"}
    PresentResults = {"ok", "stale", "error"}
    RecreateResults = {"ok", "incomplete"}
    WaitResults = {"presented"}
    VsyncMayFail = FALSE
    GpuMayReset = FALSE
PROPERTY DamageRetried
