SPECIFICATION FramesSpec
CONSTANTS
    b1 = b1
    b2 = b2
    b3 = b3
    t1 = t1
    t2 = t2
    t3 = t3
    MaxFramesInFlight = 2
    CommandBuffers <- Buffers3
    Textures <- Textures3
    FirstTexture = t1
    NoBuffer = NoBuffer
    Pool = Pool
    AcquireMayFail = FALSE
    MaxFailedFrames = 0
    MayHaveNoDamage = TRUE
INVARIANT PresentsRendered
