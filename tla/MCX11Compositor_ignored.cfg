SPECIFICATION Spec
CONSTANTS
    w1 = w1
    w2 = w2
    w3 = w3
    Windows <- Windows2
    StartResults = {"ok"}
    MayInterfere = FALSE
    MaxQueued = 3
INVARIANT BlockedWhileAnyExists
