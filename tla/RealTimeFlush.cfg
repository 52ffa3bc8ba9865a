\* One kernel and the two instruction plugins, as the comment speaks of it.
CONSTANTS
    Parsers = {"instr"}
    SourceMapped = TRUE
    AbnormalExits = FALSE
    MaxKernels = 1
    MaxItems = 2
SPECIFICATION Spec
INVARIANT
    FinishFlushes
CHECK_DEADLOCK FALSE
