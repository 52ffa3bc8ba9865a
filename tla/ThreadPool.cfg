SPECIFICATION FairSpec
CONSTANTS
    NoTask = NoTask
    Workers = {w1, w2, w3}
    Tasks = {t1, t2, t3, t4}
INVARIANTS
    NoMissedWakeup
    StoppedIsDone
PROPERTIES
    CallsReturn
    ImplementsExecutor
\* A WaitAllTasks on a pool that is not running and has tasks blocks its owner.
CHECK_DEADLOCK FALSE
