SPECIFICATION ControllerSpec
CONSTANTS
    RefreshRates <- Rates
    InitialRate = "r4"
    VblankInterval <- Interval
    MarginStep <- Step
    WindowFrames <- Window
    MinWindow = 4
    TargetLow = 1
    TargetHigh = 3
    Scale = 8
    HistoryLength = 7
INVARIANT MissCountExact
INVARIANT RingIsWindow
PROPERTY QuietBeforeDouble
