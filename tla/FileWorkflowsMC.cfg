CONSTANTS
    None = None
    Texts = {0, 1}
    MaxGenerations = 2
    MaxEdits = 2
    MaxFailures = 1
    MaxCloses = 1
SPECIFICATION FairSpec
INVARIANTS SlotAccountedFor EndedTruly SavedMeansOnDisk
PROPERTIES OpenedAsTold EveryOperationEnds
CHECK_DEADLOCK FALSE
