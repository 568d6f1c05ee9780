SPECIFICATION Spec
CONSTANTS
    Handlers = {h1, h2}
    Lists = {model_blacklist}
    Entries = {x, y}
    Default = TRUE
SYMMETRY MCSymmetry
INVARIANTS
    TypeOK
    AgreeWhenCalm
    NeverAMixture
    ConfirmedSurvives
