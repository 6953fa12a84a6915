CONSTANTS
    Callers = {u}
    Moves = {d}
    Mate = mate
    None = None
    Serialized = TRUE
    EngineOutcomes = {"move"}
    HookOutcomes = {FALSE}
    RestoreOutcomes = {TRUE, FALSE}
    Reviews = {}
    MaxPlies = 4
    MaxBoards = 2
SPECIFICATION FairSpec
PROPERTIES HumanMoveAnswered
CHECK_DEADLOCK FALSE
