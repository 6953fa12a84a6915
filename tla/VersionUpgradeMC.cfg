\* Both files, in either schema, and everything else the user keeps.
CONSTANTS
    None = None
    MaxWrites = 2
    MaxFaults = 2
SPECIFICATION FairSpec
INVARIANTS Recoverable LatestWriteSurvives AllOrNothing
PROPERTIES UpgradeEnds
