SPECIFICATION FramesFairSpec
CONSTANTS
    b1 = b1
    b2 = b2
    b3 = b3
    t1 = t1
    t2 = t2
    t3 = t3
    MaxFramesInFlight = 2
    CommandBuffers <- Buffers3
    Textures <- Textures3
    FirstTexture = t1
    NoBuffer = NoBuffer
    Pool = Pool
    AcquireMayFail = TRUE
    MaxFailedFrames = 2
    MayHaveNoDamage = TRUE
CHECK_DEADLOCK FALSE
INVARIANT ReleasedUnused
INVARIANT AcquireSemaphoreFree
PROPERTY FramesEnd
