SPECIFICATION FairSpec
CONSTANTS
    c1 = c1
    c2 = c2
    Workers = {w1, w2}
    Clients = {c1, c2}
    Reports <- TwoClients
    CounterMod = 8
    NoPath = NoPath
    NoEntry = NoEntry
    NoMsg = NoMsg
INVARIANTS
    EntryOutlivesHandlers
    OnePlace
PROPERTIES
    WrittenOnce
    WaitParseTaskReturns
\* The session ends when WaitParseTask has returned.
CHECK_DEADLOCK FALSE
