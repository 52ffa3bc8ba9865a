------------------------------ MODULE MCOffline ------------------------------
(* The computations on collected data that share nothing: the L2 cache     *)
(* model, the user marks, the table of instructions, what is calculated    *)
(* from it, the timelines, the records of instrumented kernels and the way *)
(* of the records of a core.  part says which one a behaviour is about; the *)
(* variables of the others keep their initial or an empty value.            *)
EXTENDS L2Cache, UserMark, InstrParser, ScalarCalculator, LiveRegisters, RunningTime,
        BiuTimeline, SubcoreTimeline, MemoryRecords, CoreRecords, Hotspot, TlvParser, DeviceTimeline, PmuEvents

CONSTANT MaxAccesses    \* bound: line accesses of a behaviour of the cache

VARIABLES part, through

-----------------------------------------------------------------------------
(* The cache: besides the one the cfg gives (that of GetDefaultL2Cache) one *)
(* with the other policy whose stores do not allocate.  through says which  *)
(* of the two a behaviour is about.                                         *)
Through == INSTANCE L2Cache WITH Policy <- "FIFO", WriteAllocate <- FALSE

Load(addr, length, pc) ==
    [src |-> "GM", dst |-> "other", srcAddr |-> addr, srcMemSize |-> length,
     dstAddr |-> 0, dstMemSize |-> length, pc |-> pc]
Store(addr, length, pc) ==
    [src |-> "other", dst |-> "GM", srcAddr |-> 0, srcMemSize |-> length,
     dstAddr |-> addr, dstMemSize |-> length, pc |-> pc]

(* Lines of 2 bytes, 6 lines, 2 sets: single lines of both sets, ranges    *)
(* that cross lines, an empty range that touches a line and one that       *)
(* touches none, a range that wraps, a copy that does not involve the GM.  *)
MCRecords ==
    {Load(0, 0, "p"), Load(2, 0, "p"), Load(4, 2, "p"), Load(11, 3, "p"),
     Load(3, 5, "p"), Load(8, 2, "q"),
     Store(0, 2, "q"), Store(7, 3, "q"), Store(4, 1, "p"),
     [Load(0, 1, "q") EXCEPT !.src = "other"]}

CacheNext == (IF through THEN Through!Next ELSE Next) /\ clock' <= MaxAccesses

(* Each of the two caches keeps the lines used last (L2Cache).             *)
EachHoldsTheMostRecent ==
    IF through THEN Through!HoldsTheMostRecent ELSE HoldsTheMostRecent
-----------------------------------------------------------------------------
(* Logs of the table of instructions, MaxGap 2: at most two executions with *)
(* one or two issues and up to two completions each, overlapping or not,    *)
(* the last of them possibly incomplete, beside a second program counter.   *)
Increasing(T, n) == {SetToSortSeq(S, <) : S \in {U \in SUBSET T : Cardinality(U) <= n}}

MCExecutions ==
    {e \in [pops : {<<t>> : t \in 1..5} \union {<<t, t + 1>> : t \in 1..4}, done : Increasing(3..9, 2)] :
        e.done # <<>> => Last(e.pops) <= e.done[1]}

MCPCs == {1, 2}
MCHistories ==
    {[pc \in MCPCs |-> IF pc = 1 THEN h ELSE <<[pops |-> <<4>>, done |-> <<5, 7>>]>>] :
        h \in {g \in BoundedSeq(MCExecutions, 2) :
                 \A k \in 1..(Len(g) - 1) :
                     /\ Last(g[k].pops) <= g[k + 1].pops[1]
                     /\ g[k + 1].done # <<>> => g[k].done # <<>> /\ Last(g[k].done) <= g[k + 1].done[1]}}

(* Fetches of two overlapping cache lines, up to three decodes and rows of  *)
(* one instruction and one of another that only one of the lines holds.     *)
MCScalarPCs == {1, 5}
MCICacheLogs == {S \in SUBSET [tick : {1, 3}, pc : {0, 2}] : Cardinality(S) <= 2}
MCScalarLogs == {[pc \in MCScalarPCs |-> IF pc = 1 THEN a ELSE b] :
                     a \in Increasing(1..4, 3), b \in Increasing(1..4, 1)}

(* Tables of four rows over three registers: rows that read none to two of  *)
(* them, write the first, the second or the first two, one register in both *)
(* roles.                                                                   *)
Row(dstLoc, regs) == [ld4 |-> FALSE, dstLoc |-> dstLoc, regs |-> regs]
MCRows ==
    {Row({}, regs) : regs \in {<<>>, <<5>>, <<5, 6>>}}
      \union {Row({1}, regs) : regs \in {<<5>>, <<6>>, <<5, 6>>, <<6, 5>>, <<5, 5>>}}
      \union {Row({2}, <<5, 6>>), Row({1, 2}, <<5, 6, 7>>), Row({1, 2}, <<5, 7>>)}
MCPrograms == [1..4 -> MCRows]
(* With LD4 in the tables.                                                 *)
MCProgramsLd4 == [1..4 -> {Row({}, <<>>), Row({}, <<5>>), [Row({1}, <<5, 9>>) EXCEPT !.ld4 = TRUE]}]

(* Two pipes, three end marks, the first of which ends the region the mark *)
(* 1416 starts; records in one cycle, of an unknown type and of pipes that *)
(* share an id.  The second channel only disturbs.                         *)
Busy(pipes, cycles) == [ctrl |-> "state", busy |-> pipes, cycles |-> cycles]
BiuMark(pipe, id, cycles) == [ctrl |-> "mark", pipe |-> pipe, id |-> id, cycles |-> cycles]
MCStatePipes == <<"SCALAR", "VECTOR">>
MCEndMarks == <<3464, 3481, 3498>>
MCEndRecords == {BiuMark("SCALAR", MCEndMarks[k], 1) : k \in DOMAIN MCEndMarks}
MCBiuRecords ==
    [pipe |->
        [c1 |-> MCEndRecords
                  \union {Busy({}, 1), Busy({1}, 0), Busy({1, 2}, 1),
                          BiuMark("VECTOR", 1025, 1), BiuMark("VECTOR", 3073, 1), BiuMark("SCALAR", 1416, 1),
                          [ctrl |-> "other", cycles |-> 1]},
         c2 |-> {BiuMark("SCALAR", 3464, 1)}],
     instr |->
        [c1 |-> MCEndRecords
                  \union {BiuMark("VECTOR", 1543, 1), BiuMark("VECTOR", 1543, 0), BiuMark("VECTOR", 1544, 1),
                          BiuMark("CUBE", 1543, 1), BiuMark("SCALAR", 1543, 1), Busy({1}, 1)},
         c2 |-> {BiuMark("VECTOR", 1543, 1)}]]

(* Flags between the cores, the cube core with three instructions, the      *)
(* vector cores with two and one; or flags in one core with up to four      *)
(* instructions.  Flag 1 of the cube core is flag 1 of the first vector    *)
(* core, flag 2 is flag 0 of the second one.                               *)
Flag(name, flag) == [name |-> name, flag |-> flag, pipe |-> "P", pc |-> 0]
Tables(kinds, n) ==
    {{[name |-> f[t].name, flag |-> f[t].flag, pipe |-> f[t].pipe, pc |-> f[t].pc,
       startTick |-> IF t > 2 THEN t - 2 ELSE 0, endTick |-> t] : t \in DOMAIN f} :
        f \in UNION {[T -> kinds] : T \in SUBSET (1..n)}}
MCCubeTables ==
    Tables({Flag("SET_INTRA_BLOCK", 1), Flag("SET_INTRA_BLOCK", 2),
            Flag("WAIT_INTRA_BLOCK", 1), Flag("WAIT_INTRA_BLOCK", 2)}, 3)
MCVec0Tables ==
    Tables({Flag("SET_INTRA_BLOCK", 1), Flag("WAIT_INTRA_BLOCK", 1), Flag("WAIT_INTRA_BLOCKI", 1)}, 2)
MCVec1Tables == Tables({Flag("SET_INTRA_BLOCK", 0), Flag("WAIT_INTRA_BLOCK", 0)}, 1)
MCOneCoreTables ==
    Tables({Flag("SET_FLAG", 0), Flag("SET_FLAG", 1), Flag("WAIT_FLAG", 0), Flag("WAIT_FLAG", 1),
            Flag("SET_INTRA_BLOCK", -1)}, 4)
MCCoreTables ==
    {[cubecore0 |-> cube, veccore0 |-> vec0, veccore1 |-> vec1] :
        cube \in MCCubeTables, vec0 \in MCVec0Tables, vec1 \in MCVec1Tables}
      \union {[cubecore0 |-> one, veccore0 |-> {}, veccore1 |-> {}] : one \in MCOneCoreTables}

(* The timeline of one core: up to five instructions of one pipe, with all *)
(* ways two of them can lie, a barrier, sets and waits, and one that ends   *)
(* after the last tick of a lane; instructions of pipes that share a        *)
(* process, of a scalar with two, of warps, one with the id of a pipe, with *)
(* a miss of the cache or without; sets and waits of two flags.             *)
Code == [MOV |-> 0, SET_FLAG |-> 1, WAIT_FLAG |-> 2, BAR |-> 3, LD |-> 4, ADD |-> 5,
         SCALAR |-> 0, VECTOR |-> 1, MTE2 |-> 2, PUSHQ |-> 3, RVECEX |-> 4, SIMT |-> 5, CACHEMISS |-> 6]
SepInstr(name, pipe, warp, xd, flag, start, end) ==
    [name |-> name, pipe |-> pipe, warp |-> warp, xd |-> xd, flag |-> flag, startTick |-> start, endTick |-> end,
     pc |-> start + 10 * flag + 100 * Code[name] + 1000 * Code[pipe] + 10000 * (warp + 1)]
Mov(pipe, start, end) == SepInstr("MOV", pipe, NoWarp, FALSE, 0, start, end)
SepSet(flag, start, end) == SepInstr("SET_FLAG", "MTE2", NoWarp, FALSE, flag, start, end)
SepWait(flag, start, end) == SepInstr("WAIT_FLAG", "VECTOR", NoWarp, FALSE, flag, start, end)
MCLaneInstrs ==
    {Mov("VECTOR", at[1], at[2]) : at \in {p \in (0..3) \X (1..3) : p[1] <= p[2]} \union {<<2, 4>>}}
      \union {SepInstr("BAR", "VECTOR", NoWarp, FALSE, 0, 0, 2), SepWait(1, 0, 3),
              [SepSet(1, 2, 2) EXCEPT !.pipe = "VECTOR"], [SepSet(1, 3, 3) EXCEPT !.pipe = "VECTOR"]}
MCGroupInstrs ==
    {Mov(pipe, 0, 2) : pipe \in {"SCALAR", "PUSHQ", "RVECEX"}} \union {Mov("PUSHQ", 1, 2), Mov("RVECEX", 1, 3)}
      \union {SepInstr("LD", "SCALAR", NoWarp, TRUE, 0, 1, 2)}
      \union {SepInstr(name, "SIMT", warp, FALSE, 1, 0, 2) : name \in {"ADD", "BAR", "SET_FLAG"}, warp \in {0, 10}}
MCFlagInstrs ==
    {SepSet(flag, t - 1, t) : flag \in {1, 2}, t \in 1..2}
      \union {SepWait(flag, t - 1, t) : flag \in {1, 2}, t \in 2..3} \union {Mov("VECTOR", 1, 1)}
UpTo(n, S) == UNION {kSubset(k, S) : k \in 0..n}
MCSepTables ==
    [instrs : UpTo(5, MCLaneInstrs) \union UpTo(5, MCFlagInstrs), caches : {{}}]
      \union [instrs : UpTo(4, MCGroupInstrs), 
       caches : {{}, {Mov("CACHEMISS", 0, 2), Mov("CACHEMISS", 1, 2)}}]

(* The arrows of both timelines join what belongs together (CoreTimeline,  *)
(* SubcoreTimeline).                                                        *)
ArrowsOfBothJoinPartners == ArrowsJoinPartners /\ SepArrowsJoinPartners

(* The timeline of all cores has every instruction once, that of one core   *)
(* has no two events over each other in a lane (CoreTimeline,               *)
(* SubcoreTimeline).                                                        *)
DrawnOnceAndApart == EveryInstrDrawnOnce /\ SepDrawnOnceAndApart

(* Packets of up to three records that are accepted, refused, damaged or   *)
(* unknown, cut off anywhere; and packets of one record, of every type with *)
(* the operands its parser tells apart.                                    *)
Intact(body) == [magic |-> TRUE, body |-> body]
NoMatrix == [type |-> "MOV_FP", enabled |-> {}, mSize |-> 0, nSize |-> 16]
Simt(size) == [type |-> "SIMT_ATOM_RED", simtType |-> "ATOM", size |-> size]
MCCutPackets ==
    {[count |-> Len(records), records |-> records, length |-> length] :
        records \in BoundedSeq({Intact(Simt(4)), Intact(NoMatrix), [Intact(Simt(4)) EXCEPT !.magic = FALSE],
                                Intact([type |-> "UNKNOWN"])}, 3),
        length \in 1..(3 * (1 + BodyLen))}

At0 == [src : {0}, dst : {0}]    \* accesses are compared on one side only
With(base, operands) == {b @@ o : b \in base, o \in operands}
MCMoves ==
    With(At0, {o \in [type : {"DMA_MOV", "MOV_V2_A5", "MOV_A5"}, nBurst : 1..3, lenBurst : {1, 2, 33},
                      srcStride : {0, 1}, dstStride : {0, 1}, padMode : {0, 1, 5, 6, 8, 9},
                      byteMode : BOOLEAN] :
                 /\ o.padMode # 0 => o.lenBurst = 1 /\ o.type # "MOV_A5"
                 /\ o.byteMode => o.type = "DMA_MOV"})
MCAligned ==
    With(At0, {o \in [type : {"MOV_ALIGN"}, nBurst : 0..2, lenBurst : {1, 32, 40}, srcStride : {0, 1},
                      dstStride : {0, 1}, leftPaddingNum : {0, 1}, rightPaddingNum : {1}, bits : {8, 16},
                      srcMemType : {"GM", "UB"}, dstMemType : {"GM", "UB"}] :
                 o.srcMemType # o.dstMemType})
      \union
    With(At0, [type : {"MOV_ALIGN_V2"}, nBurst : 1..2, lenBurst : {16, 40}, srcStride : {40, 64},
               dstStride : {40, 64}, leftPaddingNum : {0, 1}, rightPaddingNum : {1},
               loop1Size : 0..2, loop2Size : {0, 2}, loop1SrcStride : {128}, loop1DstStride : {256},
               loop2SrcStride : {256}, loop2DstStride : {512}, dstMemType : {"GM", "UB", "L1"}])
MCLoads ==
    With([src : {4096}, dst : {0}],
         [type : {"LOAD_2D", "LOAD_L1_TO_L0B_2D_TRANSPOSE"}, inc : BOOLEAN, baseIdx : {0, 1},
          srcStride : {1, 2}, dstStride : {1, 2}, repeat : 0..3])
      \union
    With(At0, [type : {"LOAD_2DV2", "LOAD_2DV2_DEC"}, mStep : {1, 2}, kStep : {1, 2}, mStartPos : {0, 1},
               kStartPos : {0, 1}, srcStride : {1, 2^16 - 1}, dstStride : {2, 3}, decompMode : 0..4])
      \union
    With(At0, [type : {"LOAD_MX2DV2"}, xStep : {1, 2}, yStep : {1, 2}, xStartPos : {0, 1},
               yStartPos : {0, 1}, srcStride : {1, 2}])
      \union
    With(At0, [type : {"SET_2D"}, blockNum : {1, 2}, repeatGap : {0, 1}, repeat : 0..2])
MCFractals ==
    With(At0, [type : {"DMA_MOV_ND2NZ"}, ndNum : 0..2, nValue : {1, 2}, dValue : {2}, bits : {4, 8, 16},
               srcDValue : {2, 4}, srcNdMatrixStride : {8}])
      \union
    With(At0, [type : {"DMA_MOV_ND2NZ_DAV", "DMA_MOV_DN2NZ_D"}, ndNum : 0..2, nValue : {1, 2},
               dValue : {2, 3}, bits : {8, 16}, loop1SrcStride : {8}, loop4SrcStride : {32},
               smallC0 : BOOLEAN, loop2DstStride : {1, 2}, loop4DstStride : {8}])
(* Strides that keep the columns and rows of up to 64 x 2 elements apart.  *)
Bits(enabled) ==
    IF "enNZ2ND" \in enabled THEN {4, 8, 16}
    ELSE IF "channelSplit" \in enabled THEN {32}
    ELSE IF "int4ChannelMerge" \in enabled THEN {4}
    ELSE IF "int8ChannelMerge" \in enabled THEN {8} ELSE {16}
MCMatrices ==
    {o \in With(At0, [type : {"MOV_FP", "FIX_L0C_TO_OUT"}, nSize : {0, 8, 16, 48, 64}, mSize : 0..2,
                      srcStride : {8, 16}, dstStride : {64}, ndNum : 0..2, srcNdStride : {128},
                      dstNdStride : {128}, quantPreBits : {4, 8, 16, 32},
                      enabled : {S \in SUBSET (Merging \union {"enNZ2ND"}) : Cardinality(S) <= 2}]) :
        /\ o.quantPreBits \in Bits(o.enabled)
        /\ "enNZ2ND" \notin o.enabled => o.ndNum = 1}
MCSimt ==
    [type : {"SIMT_LOAD_STORE"}, simtType : {"LD", "ST", "LDG", "STG", "LDS", "STS", "LDK", "STK"},
     addr : {64}, reg : {1}, size : {1, 8}]
      \union [type : {"SIMT_ATOM_RED"}, simtType : {"ATOM", "RED"}, size : {1, 8}]
MCPackets ==
    MCCutPackets
      \union {[count |-> 1, records |-> <<Intact(body)>>, length |-> 1 + BodyLen] :
                 body \in MCMoves \union MCAligned \union MCLoads \union MCFractals
                            \union MCMatrices \union MCSimt}

(* Kernels of all kinds with every probe.  Two stubs let cores, or threads  *)
(* of one, meet in the buffer; four let a warp start and end within         *)
(* another.  The sixth index is the last with a block: the fifth vector     *)
(* block and the third cube block have none.  Logs of four units overflow.  *)
MCOperandTypes == <<"F16", "E4M3", "S32", "S8">>
Kernel(opType, blockDim, probe, stubs) ==
    [opType |-> opType, blockDim |-> blockDim, probe |-> probe, stubs |-> stubs]
MCKernels ==
    {Kernel("MIX", 2, "operands", 2), Kernel("CUBE", 3, "operands", 2), Kernel("VECTOR", 5, "operands", 2),
     Kernel("VECTOR", 5, "warps", 2), Kernel("VECTOR", 2, "warps", 4),
     Kernel("MIX", 1, "memory", 3), Kernel("MIX", 2, "memory", 2),
     Kernel("CUBE", 2, "memory", 3), Kernel("CUBE", 1, "memory", 4)}
Move(src, dst, bytes, len) ==
    [src |-> src, dst |-> dst, sub |-> 0, bytes |-> bytes, len |-> len, nz |-> FALSE]
MCCubeMoves ==
    {Move("L1", "UB", 1, 1), [Move("L1", "UB", 2, 1) EXCEPT !.sub = 1],
     [Move("GM", "L1", 4, 2) EXCEPT !.nz = TRUE]}
MCVecMoves == {Move("GM", "REG", 8, 1), Move("REG", "GM", 16, 1), Move("UB", "L1", 32, 2), Move("GM", "UB", 64, 1)}
Mad(type, m, k, n, bit61, mx) == [type |-> type, m |-> m, k |-> k, n |-> n, bit61 |-> bit61, mx |-> mx]
MCMads ==
    {Mad(1, 1, 17, 16, 0, FALSE), Mad(1, 17, 17, 1, 1, FALSE), Mad(2, 16, 33, 17, 1, TRUE),
     Mad(4, 1, 33, 16, 0, FALSE), Mad(4, 1, 33, 16, 1, FALSE)}

(* Kernels of two functions, with a gap in the second, or of the first one; *)
(* all lines an address can have, inlined ones, one named twice, one of the *)
(* toolkit, one in a file that cannot be read and one of the gap, or some   *)
(* of them; samples and records of known and unknown addresses.             *)
Block(begin, end, runs) == [begin |-> begin, end |-> end, runs |-> runs]
Aic(runs) == [name |-> "aic", start |-> 0, blocks |-> <<Block(0, 4, runs), Block(8, 8, <<5>>)>>]
Aiv(runs) == [name |-> "aiv", start |-> 16, blocks |-> <<Block(0, 4, <<7>>), Block(12, 12, runs)>>]
Symbol(addr, file, line) == [addr |-> addr, file |-> file, line |-> line]
MCSymbols ==
    <<Symbol(0, "f", 1), Symbol(4, "f", 1), Symbol(4, "f", 2), Symbol(4, "f", 1), Symbol(8, "ascend-toolkit", 1),
      Symbol(8, "f", 2), Symbol(16, "f", 1), Symbol(20, "g", 1), Symbol(24, "f", 3), Symbol(28, "f", 1)>>
MCSymbolLists ==
    {SelectSeq(MCSymbols, LAMBDA symbol : symbol \notin left) : left \in SUBSET {MCSymbols[i] : i \in {1, 2, 3, 6, 7, 10}}}
Moved(src, dst, pc, bytes) == [src |-> src, dst |-> dst, pc |-> pc, srcMemSize |-> bytes, dstMemSize |-> bytes + 1]
Measured910B ==
    [chip : {"910B"}, kernelName : {{"aic"}, {"aic", "aiv"}}, source : {TRUE}, sampling : {FALSE},
     memdetail : BOOLEAN, samples : {<<>>}]
Measured950 ==
    [chip : {"950"}, kernelName : {{}}, source : BOOLEAN, sampling : {TRUE}, memdetail : {TRUE},
     samples : {<<>>, <<[pc8 |-> 2, count |-> 1], [pc8 |-> 3, count |-> 2], [pc8 |-> 4, count |-> 4],
                        [pc8 |-> 3, count |-> 8], [pc8 |-> 9, count |-> 16]>>}]
MCHotKernels ==
    With(Measured910B \union Measured950,
         [functions : {<<Aic(<<1, 2>>), Aiv(<<3>>)>>, <<Aic(<<0>>), Aiv(<<>>)>>, <<Aic(<<2>>)>>},
          header : BOOLEAN, symbols : MCSymbolLists, mapReadable : {TRUE}, tuned : {TRUE},
          instrs : {{0, 4, 8, 16, 20, 24, 28}}, fileSize : {100}, readable : {{"f"}},
          startPc : {8}, pcOffset : {0}, misses : {4 :> 3 @@ 28 :> 4},
          memoryRecords : {<<Moved("GM", "UB", 4, 1), Moved("L1", "GM", 4, 2), Moved("GM", "GM", 0, 4),
                             Moved("UB", "L1", 0, 8), Moved("UB", "GM", 28, 16), Moved("GM", "UB", 32, 32)>>}]
           \union
         [functions : {<<Aic(<<1, 2>>), Aiv(<<3>>)>>}, header : BOOLEAN, symbols : {MCSymbols},
          mapReadable : BOOLEAN, tuned : BOOLEAN, instrs : {{}, {0, 8, 16}, {0, 4, 8, 16, 20, 24, 28}},
          fileSize : {3, 100}, readable : {{}, {"f", "g"}}, startPc : {0}, pcOffset : {0, 8},
          misses : {<<>>}, memoryRecords : {<<>>}])

(* What was measured adds up in what is shown: the counters of the kernels  *)
(* and the counts of the hot spots (PmuEvents, Hotspot).                    *)
MeasuresAddUp == CountersMerged /\ HotspotAddsUp

(* Files of registers: one type with two registers over one to four         *)
(* instructions, two types with one each, no type, no instruction, two      *)
(* functions; of one of them all beginnings, all with one unit more or one  *)
(* unit changed by one, and its sections in other orders or twice.          *)
Uses(regs) == {[i \in DOMAIN s |-> s[i] + IndexBase * i] : s \in {SetToSortSeq(r, <) : r \in SUBSET regs}}
Insts(n, regs) ==
    {[i \in 1..n |-> [address |-> 4 * i, regRecord |-> uses[i]]] : uses \in [1..n -> Uses(regs)]}
Liveness(types, names, groups) ==
    [regType |-> types, regNumber |-> [i \in DOMAIN types |-> 30 + i],
     instNum |-> IF groups = <<>> THEN 0 ELSE Len(groups[1]),
     functionNameNum |-> Len(names), functionNameList |-> names,
     functionPositionStartIdx |-> [i \in DOMAIN names |-> i - 1], instRecordList |-> groups]
MCLivenesses ==
    {Liveness(<<0>>, <<77>>, <<g>>) : g \in UNION {Insts(n, {1, 2}) : n \in 0..4}}
      \union {Liveness(<<3, 2>>, <<77, 78>>, <<g, h>>) : g \in Insts(3, {1}), h \in Insts(3, {1})}
      \union {Liveness(<<9>>, <<>>, <<g>>) : g \in Insts(2, {1})}
TlvFile(data, live, damage, known) == [data |-> data, live |-> live, damage |-> damage, known |-> known]
MCDamaged ==
    Liveness(<<0, 1>>, <<77>>, <<<<[address |-> 4, regRecord |-> <<1>>]>>, <<[address |-> 4, regRecord |-> <<2, 5>>]>>>>)
MCTlvFiles ==
    LET data == Lrm(MCDamaged)
        parts == Sections(MCDamaged)
    IN  {TlvFile(Lrm(live), live, "none", known) : live \in MCLivenesses, known \in {{4, 12, 16, 20}, {8}}}
          \union {TlvFile(SubSeq(data, 1, n), MCDamaged, "length", {}) : n \in 0..(Len(data) - 1)}
          \union {TlvFile(Append(data, u), MCDamaged, "length", {}) : u \in 0..1}
          \union {TlvFile([data EXCEPT ![i] = @ + d], MCDamaged, "unit", {4}) : i \in DOMAIN data, d \in {1, 2}}
          \union {TlvFile([data EXCEPT ![i] = @ - 1], MCDamaged, "unit", {4}) : i \in {k \in DOMAIN data : data[k] > 0}}
          \union {TlvFile(Entry(RegLivenessTag, parts[i] \o parts[j] \o parts[k]), MCDamaged, "unit", {4}) :
                      i \in DOMAIN parts, j \in DOMAIN parts, k \in DOMAIN parts}

(* Kernels of two blocks or one, their dots in order of time, up to four of *)
(* one part or two with two operations, three of four parts with one; dots  *)
(* before the kernel, after their part, and of no operation; one of an old  *)
(* runtime, and of a new one that ran on core 0 only.  Then tasks of a      *)
(* device: up to four records of two tasks in three encodings, with what    *)
(* the library reports of them, and turns of the CPU.                       *)
DotSeqs(parts, descs, cycs, n) ==
    {[i \in 1..n |-> [block |-> who[i][1][1], sub |-> who[i][1][2], desc |-> who[i][2], cyc |-> t[i]]] :
        t \in {s \in [1..n -> cycs] : \A i \in 1..(n - 1) : s[i] <= s[i + 1]}, who \in [1..n -> parts \X descs]}
DevKernel(parser, op, blocks, dots) ==
    [parser |-> parser, opType |-> op, soc |-> "A2", newVersion |-> TRUE, blocks |-> blocks, dots |-> dots,
     physical |-> [b \in DOMAIN blocks |-> [p \in DOMAIN blocks[b] |->
                      (IF op = "vector" \/ (op = "mix" /\ p > 1) THEN 25 ELSE 0) + 3 * (b - 1) + p - 1]],
     enableBlockTime |-> TRUE, acsq |-> <<[id |-> <<7, 1>>, mode |-> "plain", type |-> 0, time |-> "start", cyc |-> 4]>>,
     reports |-> <<>>, turns |-> <<>>]
MCMixBlocks == <<<<<<4, 9>>, <<4, 8>>, <<5, 10>>>>, <<<<6, 9>>, <<4, 10>>, <<4, 9>>>>>>
MCDescs == [aicore |-> {65535, 65536}, mc2 |-> {4096, 4097}, lccl |-> {0, 1}]
MCDotKernels ==
    UNION {
        {DevKernel(parser, "mix", MCMixBlocks, dots) :
            dots \in {<<>>}
                       \union DotSeqs({<<1, 2>>}, MCDescs[parser], {5, 8}, 4)
                       \union DotSeqs({<<1, 2>>}, MCDescs[parser] \union {5}, {3, 5, 8}, 3)
                       \union DotSeqs({<<0, 0>>, <<0, 1>>}, MCDescs[parser], {5, 8}, 3)
                       \union DotSeqs({<<0, 1>>, <<1, 0>>, <<1, 1>>, <<1, 2>>}, {Min(MCDescs[parser])}, {5, 8}, 2)}
          \union {DevKernel(parser, op, <<<<<<4, 9>>>>, <<<<5, 10>>>>>>, dots) :
                    op \in {"cube", "vector"}, dots \in DotSeqs({<<0, 0>>, <<1, 0>>}, MCDescs[parser], {4, 8}, 2)}
          \union {DevKernel(parser, "cube", <<<<<<4, 9>>>>>>, dots) : dots \in DotSeqs({<<0, 0>>}, MCDescs[parser], {4, 8}, 2)} :
        parser \in {"aicore", "mc2", "lccl"}}
Task1(mode, type, time) == [id |-> <<7, 1>>, mode |-> mode, type |-> type, time |-> time]
Task2(type, time) == [id |-> <<57345, 2>>, mode |-> "high", type |-> type, time |-> time]
MCTaskRecords ==
    {Task1(mode, 0, time) : mode \in {"plain", "low"}, time \in {"start", "end"}}
      \union {Task1("high", 11, "start"), Task1("high", 11, "end"), Task2(1, "start"), Task2(1, "end"),
              Task2(21, "start"), Task2(1, "other")}
MCReports ==
    {<<>>, <<<<[id |-> <<7, 1>>, mode |-> "low", groupName |-> 1, plane |-> 0],
               [id |-> <<57345, 2>>, mode |-> "low", groupName |-> 1, plane |-> 1]>>,
             <<[id |-> <<0, 0>>, mode |-> "plain", groupName |-> 0, plane |-> 2],
               [id |-> <<7, 1>>, mode |-> "plain", groupName |-> 1, plane |-> 2]>>>>}
MCDeviceKernels ==
    {k \in MCDotKernels : k.parser # "lccl"}
      \union {[k EXCEPT !.newVersion = FALSE, !.enableBlockTime = FALSE] :
                 k \in {m \in MCDotKernels : m.parser = "lccl" \/ Len(m.dots) < 4}}
      \union {[k EXCEPT !.soc = "A5", !.physical = [b \in DOMAIN @ |-> [p \in DOMAIN @[b] |->
                  IF @[b][p] >= 25 THEN 50 + @[b][p] ELSE 54 + @[b][p]]]] :
                 k \in {m \in MCDotKernels : m.parser = "aicore" /\ Len(m.dots) = 2}}
      \union {[DevKernel("mc2", "vector", <<<<<<4, 9>>>>>>, <<>>) EXCEPT
                  !.acsq = [i \in DOMAIN records |-> records[i] @@ [cyc |-> i + late]],
                  !.reports = reports, !.turns = <<<<1, 5, 5, 6, 8, 8, 9>>, <<9, 9, 10, 0, 11, 12, 13>>>>] :
                 records \in UNION {[1..n -> MCTaskRecords] : n \in 0..2}, late \in {0, 4}, reports \in MCReports}
      \union {[DevKernel("mc2", "vector", <<<<<<4, 9>>>>>>, <<>>) EXCEPT
                  !.acsq = [i \in 1..4 |-> records[i] @@ [cyc |-> i + 4]], !.reports = <<>>] :
                 records \in [1..4 -> {Task1("low", 11, "start"), Task1("plain", 11, "end"), Task2(1, "start"), Task2(1, "end")}]}

(* What a timeline shows is what was recorded, for channels of performance  *)
(* and for kernels on the device (BiuTimeline, DeviceTimeline).             *)
TimelinesAsRecorded == TimelineAsRecorded /\ DotsInTheirBlocks /\ TasksAsRecorded

(* Selections of one to three metrics, packed for the starts of an          *)
(* application, besides the abilities that bring counters with them or none; *)
(* the same with kernels replayed; one bin or the records of one part lost.  *)
(* Without the conflicts on the 950: event 13 of its vector cores is in no  *)
(* round, so that what std::sort makes of them is undefined.                *)
MCSelections == UNION {{SetToSeq(S) : S \in kSubset(k, ToSet(ProfMetrics) \ {"roofline"})} : k \in 1..3}
MCAbilities ==
    {<<>>, <<"default">>, <<"roofline">>, <<"kernelscale">>, <<"basicinfo">>, <<"source">>, <<"memorydetail">>,
     <<"pcsampling">>, <<"kernelscale", "l2cache">>, <<"basicinfo", "memory">>, <<"occupancy", "source">>,
     <<"instrtimeline", "pipeutilization">>}
MCLost(bins, parts) == [lostBins : {{}} \union {{n} : n \in bins}, lostParts : {{}}]
                         \union [lostBins : {{}}, lostParts : {{<<n, p>>} : n \in bins, p \in parts}]
MCPmuCases ==
    With([chip : {"A2", "A5"}, mode : {"application"}, opType : {"mix"}],
         With({[metrics |-> selection] : selection \in MCSelections}, MCLost({2}, {})))
      \union
    With([chip : {"A2", "A5"}, mode : {"application", "kernel"}, opType : {"mix"}, metrics : MCAbilities],
         MCLost({1, 10}, {<<1, 0>>, <<0, 2>>}))
      \union
    With([chip : {"A2", "A5"}, mode : {"application", "range"}, opType : {"cube", "vector"},
          metrics : {<<>>, <<"basicinfo">>, <<"occupancy", "source">>}], MCLost({1}, {}))
      \union
    With([chip : {"310P"}, mode : {"application", "kernel"}, opType : {"aicore"},
          metrics : MCAbilities \union {<<"memory">>, <<"memoryub", "memoryl0">>}], MCLost({1, 7}, {<<0, 0>>}))
MCSortable == {c \in MCPmuCases : c.chip = "A5" /\ c.mode = "application" => "resourceconflictratio" \notin ToSet(c.metrics)}

(* The tables of instructions have the rows the logs tell of, the hot spots *)
(* of the scalar view the right heads, and the file of a register tool      *)
(* gives the uses it was written from (InstrParser, ScalarCalculator,       *)
(* TlvParser).                                                              *)
RowsRecovered == ExecutionsRecovered /\ HeadsInOrder /\ LivenessRecovered

Symmetric == Permutations(Names)
-----------------------------------------------------------------------------
MCInit ==
    /\ part \in {"cache", "marks", "merge", "scalar", "live", "time", "biu", "core", "sep", "dbi", "records", "hot",
                "tlv", "device", "pmu"}
    /\ Init
    /\ through \in IF part = "cache" THEN BOOLEAN ELSE {FALSE}
    /\ MarkInit
    /\ IF part = "merge" THEN MergeInit
       ELSE histories = <<>> /\ mergeList = <<>> /\ merged = FALSE
    /\ IF part = "scalar" THEN ScalarInit
       ELSE /\ icacheLog = {} /\ ccuLog = <<>> /\ icacheDetailTable = <<>>
            /\ scalarDetailTable = <<>> /\ mergeInfo = <<>> /\ scalarPc = "none"
    /\ IF part = "live" THEN LiveInit
       ELSE instrs = <<>> /\ index = 0 /\ registerWithIndex = <<>> /\ gprCount = <<>>
    /\ IF part = "time" THEN RunInit
       ELSE instrList = <<>> /\ runningTime = 0 /\ calculated = FALSE
    /\ BiuInit
    /\ part # "biu" => biuKind = "pipe"
    /\ IF part = "core" THEN CoreInit
       ELSE /\ coreInstrs = <<>> /\ parsedCores = {} /\ coreEvents = <<>>
            /\ recordIntraSetFlag = <<>> /\ recordIntraWaitFlag = <<>> /\ coreDrawn = FALSE
    /\ IF part = "sep" THEN SepInit
       ELSE sepTable = <<>> /\ sepEvents = <<>> /\ sepArrows = <<>> /\ sepDrawn = FALSE
    /\ IF part = "dbi" THEN DbiInit
       ELSE /\ packet = <<>> /\ msgIndex = 0 /\ processedCount = 0 /\ processed = <<>>
            /\ failed = <<>> /\ errors = <<>> /\ memoryRecords = <<>> /\ tallied = [done |-> FALSE]
    /\ IF part = "records" THEN CoreRecordInit
       ELSE /\ kernel = <<>> /\ gm = <<>> /\ dataCaches = <<>> /\ logs = <<>>
            /\ executed = <<>> /\ fileSize = -1
    /\ IF part = "hot" THEN HotInit
       ELSE /\ hot = <<>> /\ hotStep = "none" /\ sourceEnable = FALSE /\ pcSamplingEnable = FALSE
            /\ bbCalls = <<>> /\ kernelStartAddr = <<>> /\ kernelRange = <<>> /\ encodings = <<>>
            /\ fileLineCalls = <<>> /\ line2Encodings = <<>> /\ topStallReason = 0 /\ codeLines = <<>>
    /\ IF part = "tlv" THEN TlvInit
       ELSE /\ tlvFile = [damage |-> "", live |-> <<>>] /\ tlvStep = "parse" /\ parsedRegLiveness = <<>>
            /\ pcNumCount = <<>> /\ gprStatus = <<>> /\ gprCount950 = <<>> /\ gprColumn = FALSE
    /\ IF part = "device" THEN TlInit
       ELSE /\ tlKernel = <<>> /\ tlStep = "" /\ tlStamps = <<>> /\ tlDrawn = <<>> /\ tlOrder = <<>>
            /\ acsqTimeMap = <<>> /\ tlTasks = {}
    /\ IF part = "pmu" THEN PmuInit
       ELSE /\ pmuCase = <<>> /\ pmuStep = "" /\ abilities = <<>> /\ plan = <<>> /\ replays = <<>>
            /\ nextBin = 0 /\ totalPmuData = <<>> /\ lostMetrics = {} /\ memMapDetail = <<>>

MCNext ==
    /\ IF part = "cache" THEN CacheNext ELSE UNCHANGED vars
    /\ IF part = "marks" THEN MarkNext ELSE UNCHANGED markVars
    /\ IF part = "merge" THEN MergeNext ELSE UNCHANGED mergeVars
    /\ IF part = "scalar" THEN ScalarNext ELSE UNCHANGED scalarVars
    /\ IF part = "live" THEN LiveNext ELSE UNCHANGED liveVars
    /\ IF part = "time" THEN RunNext ELSE UNCHANGED runVars
    /\ IF part = "biu" THEN BiuNext ELSE UNCHANGED biuVars
    /\ IF part = "core" THEN CoreNext ELSE UNCHANGED coreVars
    /\ IF part = "sep" THEN SepNext ELSE UNCHANGED sepVars
    /\ IF part = "dbi" THEN DbiNext ELSE UNCHANGED dbiVars
    /\ IF part = "records" THEN CoreRecordNext ELSE UNCHANGED coreRecordVars
    /\ IF part = "hot" THEN HotNext ELSE UNCHANGED hotVars
    /\ IF part = "tlv" THEN TlvNext ELSE UNCHANGED tlvVars
    /\ IF part = "device" THEN TlNext ELSE UNCHANGED tlVars
    /\ IF part = "pmu" THEN PmuNext ELSE UNCHANGED pmuVars
    /\ UNCHANGED <<part, through>>

MCSpec ==
    MCInit /\ [][MCNext]_<<vars, markVars, mergeVars, scalarVars, liveVars, runVars, biuVars, coreVars, sepVars,
                     dbiVars, coreRecordVars, hotVars, tlvVars, tlVars, pmuVars, part, through>>
=============================================================================
