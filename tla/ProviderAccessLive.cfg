SPECIFICATION FairSpec
CONSTANTS
    Models = {x, y}
    Free = {x}
    Marked = {y}
    Kept = {x, y}
    t = t
    Procs = {t, a}
    Ticker = t
    PerSweep = 1
    MaxKey = 1
    Starts = 1
PROPERTIES
    RecoveryIsNoticed
