CONSTANTS
    Callers = {u, v}
    Moves = {d, e}
    Mate = mate
    None = None
    Serialized = FALSE
    EngineOutcomes = {"move", "none", "error"}
    HookOutcomes = {TRUE, FALSE}
    RestoreOutcomes = {TRUE, FALSE}
    Reviews = {}
    MaxPlies = 3
    MaxBoards = 2
SPECIFICATION Spec
PROPERTIES ReplyInItsGame
CHECK_DEADLOCK FALSE
