CONSTANTS
    a = a
    b = b
    c = c
    d1 = d1
    d2 = d2
    All = All
    None = None
    NullFocus = NullFocus
    PointerRoot = PointerRoot
    Windows = {a, b, c}
    Accepts = {a, b}
    Asks = {c}
    Place <- Everywhere
    Desktops = {d1}
    HiddenPreviews = {"Never"}
    MaxSteps = 4
SPECIFICATION FairSpec
CHECK_DEADLOCK FALSE
INVARIANT ActiveHasFocus
