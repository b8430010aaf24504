CONSTANTS
    a = a
    b = b
    c = c
    d1 = d1
    d2 = d2
    All = All
    None = None
    NullFocus = NullFocus
    PointerRoot = PointerRoot
    Windows = {a, b, c}
    Accepts = {a, b, c}
    Asks = {}
    Place <- Places
    Desktops = {d1, d2}
    HiddenPreviews = {"Shown"}
    MaxSteps = 3
SPECIFICATION FairSpec
CHECK_DEADLOCK FALSE
INVARIANT HiddenLosesFocus
