SPECIFICATION FairSpec
CONSTANTS
    Configs <- AllConfigs
    MaxPresses = 3
INVARIANTS
    OneStartAfterExit
    InterruptedIsNoFailure
PROPERTIES
    TimeoutEndsRun
\* The run ends.
CHECK_DEADLOCK FALSE
