CONSTANTS
    Coordinators = {c, d}
    Writers = {c, d}
    Students = {s, t}
    None = None
    MaxOps = 2
    MaxCrashes = 1
    MaxFailures = 1
SPECIFICATION FairSpec
INVARIANTS DeletionInOrder
PROPERTIES NothingElseLost StoresAreRegisters PendingDeletionEnds
CHECK_DEADLOCK FALSE
