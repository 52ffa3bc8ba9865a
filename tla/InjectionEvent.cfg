SPECIFICATION FairSpec
CONSTANTS
    c1 = c1
    c2 = c2
    Clients = {c1, c2}
    Packets <- Mixed
    HeadLen = 2
    Extensible = {"DBI_DATA"}
    Strangers = TRUE
    MaxPackets = 2
    MaxRounds = 1
INVARIANTS
    FramingExact
    AnswersInOrder
PROPERTIES
    EveryRequestAnswered
    StopReturnsUnlessStuck
\* The server is not started again after the last round.
CHECK_DEADLOCK FALSE
