CONSTANTS
    MaxEvents = 4
    MaxPuts = 5
    Workers = {w}
    Timers = {t1}
    NoTimer = NoTimer
    MaxFailures = 1
    MaxCloses = 1
SPECIFICATION FairPumpSpec
INVARIANTS EventsOnTheirWay RetriesLeaveNothing QueueFaithful
PROPERTIES EventsDelivered
CHECK_DEADLOCK FALSE
