CONSTANTS
    w1 = w1
    w2 = w2
    w3 = w3
    d1 = d1
    d2 = d2
    d3 = d3
    Windows = {w1, w2, w3}
    DesktopIds = {d1, d2}
    MaxDesktops = 2
    App <- TwoApps
    All = All
    None = None
    Recent = Recent
SPECIFICATION Spec
SYMMETRY MCSymmetry
CHECK_DEADLOCK FALSE

PROPERTY ActivatedIsFirst
