\* Two kernels, the instruction plugins and the icache plugin, one item each.
CONSTANTS
    Parsers = {"instr", "icache"}
    SourceMapped = TRUE
    AbnormalExits = TRUE
    MaxKernels = 2
    MaxItems = 2
SPECIFICATION FairSpec
INVARIANTS
    OutputOfOneKernel
    TablesQuietWhileRead
    AbortsOnlyAfterLostFinish
PROPERTY
    AfterExitEnds
\* The parser may be destroyed, aborted or, after a lost PROF_FINISH, stuck.
CHECK_DEADLOCK FALSE
