SPECIFICATION Spec
CONSTANTS
    f1 = f1
    f2 = f2
    f3 = f3
    FrameIds <- Frames3
    MaxPendingFrameCount = 1
    NoFrame = NoFrame
    PresentTimings = {TRUE}
    AcquireResults = {"ok"}
    PresentResults = {"ok"}
    RecreateResults = {"ok"}
    WaitResults = {"presented", "stale"}
    VsyncMayFail = FALSE
    GpuMayReset = FALSE
INVARIANT NotStranded
