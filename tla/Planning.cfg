SPECIFICATION Spec
CONSTANTS
    Providers = {"a", "b"}
    Models <- MCModels
    Lower <- MCLower
    Tasks = {"code", "chat"}
    Curated <- MCCurated
    Offers <- MCOffers
    Asks <- MCAsks
    Score <- MCScore
    Fitness <- MCFitness
    NameOrder <- MCNameOrder
    Special = {"tts"}
    Native <- MCNative
    Fallbacks <- MCFallbacks
    DefaultModel = "mini"
    Configs <- MCConfigs
    Edits = 3
INVARIANTS
    PlansAreCallable
    FreeOnlyNeverPays
    NamedMeansNamed
    ProvidersTakeTurns
    AutoIsRoutable
    ConfirmedFirst
    MarksNeverMix
