CONSTANTS
    Policy = "LRU"
    Ways = 2
    Sets = 2
    LineSize = 2
    Lines = 6
    WriteBack = TRUE
    WriteAllocate = TRUE
    Pcs = {"p", "q"}
    Records <- MCRecords
    MaxAccesses = 1
    Names = {a, b}
    NA = NA
    MaxLines = 1
    PCs <- MCPCs
    MaxGap = 2
    Histories <- MCHistories
    ScalarPCs <- MCScalarPCs
    ScalarTicks = {1, 2, 3, 4}
    NoTick = 9
    ICacheLogs <- MCICacheLogs
    CcuLogs <- MCScalarLogs
    StartLogs <- MCScalarLogs
    RegisterLimit = 32
    Programs <- MCProgramsLd4
    RunTicks = {0, 1, 2, 3, 4}
    MaxInstrs = 1
    Channels = {"c1", "c2"}
    StatePipes <- MCStatePipes
    EndMarkSequence <- MCEndMarks
    BiuRecords <- MCBiuRecords
    MaxBiuRecords = 1
    IntraSplit = 2
    CoreTables <- MCCoreTables
    TickLimit = 3
    SepTables = {}
    HotKernels = {}
    DeviceKernels = {}
    TlvFiles = {}
    PmuCases = {}
    UnitBase = 256
    IndexBase = 16
    BodyLen = 2
    Packets <- MCCutPackets
    MaxBlock = 6
    MaxThreads = 3
    WarpThreads = 2
    LineWords = 4
    OperandTypes <- MCOperandTypes
    FloatMax = 2
    LogLen = 4
    Kernels = {}
    CubeMoves <- MCCubeMoves
    VecMoves <- MCVecMoves
    Mads <- MCMads
SYMMETRY Symmetric
SPECIFICATION MCSpec
INVARIANT ReleasedBeforeWrite
CHECK_DEADLOCK FALSE
