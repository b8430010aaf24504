SPECIFICATION Spec
CONSTANTS
    i1 = i1
    i2 = i2
    i3 = i3
    t1 = t1
    t2 = t2
    t3 = t3
    Images <- Images3
    NoImage = NoImage
    Tiles <- Tiles3
    Capacity = 3
    PartialRepaint = TRUE
    MaxFrames = 4
    AcquireMaySkip = TRUE
    LoadPassMayFail = FALSE
    RenderMayFail = FALSE
    PresentResults = {"ok"}
SYMMETRY ImageSymmetry
INVARIANT PresentedIsComplete
