CONSTANTS
    Policy = "LRU"
    Ways = 2
    Sets = 2
    LineSize = 2
    Lines = 6
    WriteBack = TRUE
    WriteAllocate = TRUE
    Pcs = {"p", "q"}
    Records <- MCRecords
    MaxAccesses = 5
    Names = {a, b}
    NA = NA
    MaxLines = 5
    PCs <- MCPCs
    MaxGap = 2
    Histories <- MCHistories
    ScalarPCs <- MCScalarPCs
    ScalarTicks = {1, 2, 3, 4}
    NoTick = 9
    ICacheLogs <- MCICacheLogs
    CcuLogs <- MCScalarLogs
    StartLogs <- MCScalarLogs
    RegisterLimit = 32
    Programs <- MCPrograms
    RunTicks = {0, 1, 2, 3, 4}
    MaxInstrs = 3
    Channels = {"c1", "c2"}
    StatePipes <- MCStatePipes
    EndMarkSequence <- MCEndMarks
    BiuRecords <- MCBiuRecords
    MaxBiuRecords = 5
    IntraSplit = 2
    CoreTables <- MCCoreTables
    TickLimit = 3
    SepTables <- MCSepTables
    HotKernels <- MCHotKernels
    DeviceKernels <- MCDeviceKernels
    TlvFiles <- MCTlvFiles
    PmuCases <- MCSortable
    UnitBase = 256
    IndexBase = 16
    BodyLen = 2
    Packets <- MCPackets
    MaxBlock = 6
    MaxThreads = 3
    WarpThreads = 2
    LineWords = 4
    OperandTypes <- MCOperandTypes
    FloatMax = 2
    LogLen = 4
    Kernels <- MCKernels
    CubeMoves <- MCCubeMoves
    VecMoves <- MCVecMoves
    Mads <- MCMads
SYMMETRY Symmetric
SPECIFICATION MCSpec
INVARIANTS
    DirtyIsUnsaved
    EachHoldsTheMostRecent
    StatsAddUp
    MarksAsLogged
    RowsRecovered
    MeasuresAddUp
    LiveCountsExact
    RunningTimeIsUnion
    TimelinesAsRecorded
    DrawnOnceAndApart
    ArrowsOfBothJoinPartners
    RecordsAccounted
    TrafficAsInstructed
    RecordsOfItsCore
    TrafficAttributed
CHECK_DEADLOCK FALSE
