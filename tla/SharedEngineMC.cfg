CONSTANTS
    Players = {p}
    Analyst = a
    Clients = {p, a}
    NoClient = NoClient
    QueueLimit = 2
    PipeLimit = 1
    MaxRequests = 2
SPECIFICATION FairSpec
INVARIANTS NothingLeftRunning NobodyIsStuck
PROPERTIES AnswersItsRequest CallsEnd
CHECK_DEADLOCK FALSE
