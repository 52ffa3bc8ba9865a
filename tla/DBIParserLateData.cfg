SPECIFICATION FairSpec
CONSTANTS
    c1 = c1
    c2 = c2
    Workers = {w1, w2}
    Clients = {c1}
    Reports <- OneClient
    CounterMod = 8
    NoPath = NoPath
    NoEntry = NoEntry
    NoMsg = NoMsg
PROPERTIES
    LateDataDiscarded
\* The session ends when WaitParseTask has returned.
CHECK_DEADLOCK FALSE
