SPECIFICATION Spec
CONSTANTS
    Models = {x}
    Free = {x}
    Marked = {}
    Kept = {}
    t = t
    Procs = {t, a, b}
    Ticker = t
    PerSweep = 1
    MaxKey = 2
    Starts = 3
SYMMETRY MCSymmetry
INVARIANTS
    TypeOK
    NothingDrifts
    ConfirmedHasAnswered
    
PROPERTIES
    OutageKeepsModels
