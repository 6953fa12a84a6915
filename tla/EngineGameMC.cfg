CONSTANTS
    Callers = {u}
    Moves = {d, e}
    Mate = mate
    None = None
    Serialized = TRUE
    EngineOutcomes = {"move", "none", "error"}
    HookOutcomes = {TRUE, FALSE}
    RestoreOutcomes = {TRUE, FALSE}
    Reviews = {"active"}
    MaxPlies = 4
    MaxBoards = 2
SPECIFICATION FairSpec
INVARIANTS HistoryAligned ShownGameIsTrue
PROPERTIES AcceptedMovesKept OutcomeStands AnsweredUnlessPaused
CHECK_DEADLOCK FALSE
