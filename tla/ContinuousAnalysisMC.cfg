CONSTANTS
    Worker = worker
    Assistants = {helper}
    Closers = {closer, second}
    Callers = {worker, helper, closer, second}
    Fens = {f, g}
    Configs = {k, m}
    NoFen = NoFen
    NoCaller = NoCaller
    None = None
    OwnsEngine = TRUE
    HasListener = TRUE
    MaxGeneration = 3
    MaxRevision = 2
SPECIFICATION FairSessionSpec
INVARIANTS OnlyTheActiveRequest RequestNotForgotten ProviderSafe
PROPERTIES LatestOnly NewestPositionAnalysed ShutdownCompletes
CHECK_DEADLOCK FALSE
