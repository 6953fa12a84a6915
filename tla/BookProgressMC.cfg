CONSTANTS
    Apps = {a, b}
    Books = {x, y}
    None = None
    Damaged = {bad}
    Future = future
    MaxMark = 3
    MaxGeneration = 2
    MaxRequests = 2
    MaxFaults = 2
SPECIFICATION Spec
INVARIANTS FilesOfOneHistory
PROPERTIES NothingReadableLost WritesWhatWasAsked
SYMMETRY Symmetry
CHECK_DEADLOCK FALSE
