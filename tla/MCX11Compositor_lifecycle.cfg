SPECIFICATION FairSpec
CONSTANTS
    w1 = w1
    w2 = w2
    w3 = w3
    Windows <- Windows3
    StartResults = {"ok", "impossible", "noBackend"}
    MayInterfere = TRUE
    MaxQueued = 4
INVARIANT InhibitionTakesEffect
PROPERTY SelectionReleased
