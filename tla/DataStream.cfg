SPECIFICATION FairSpec
CONSTANT MaxItems = 6
INVARIANTS
    InOrder
    NeverAsleepOverAnItem
PROPERTIES
    EveryItemProcessed
\* The stream is used up once its sub-parser has stopped.
CHECK_DEADLOCK FALSE
