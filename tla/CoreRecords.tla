----------------------------- MODULE CoreRecords -----------------------------
(***************************************************************************)
(* From the probes of an instrumented kernel to the figures of its cores,  *)
(* on chips of the A5 kind.  A kernel is built with one of three probes:   *)
(* "operands" counts what the instructions compute, "warps" takes the time *)
(* of every warp, "memory" logs the memory instructions.  The cores write  *)
(* their block of a buffer in global memory (GM) through data caches that  *)
(* are not coherent; the host reads the buffer when the kernel has ended   *)
(* and attributes the blocks to the cores of the operator.                 *)
(*                                                                         *)
(* A core is known to the runtime by block and sub-block; its place in the *)
(* buffer is its index.  Memory is counted in words, of which a record has *)
(* two (the type of the instruction is left out); widths, wording and the  *)
(* performance counters beside the records are left out.                   *)
(***************************************************************************)
EXTENDS Integers, Sequences, FiniteSets, FiniteSetsExt, SequencesExt

CONSTANTS MaxBlock,       \* indices that have a block in the buffer
          MaxThreads,     \* threads that have a place in a block
          WarpThreads,    \* threads of a warp
          LineWords,      \* words of a line of the data cache
          OperandTypes,   \* the types of operands, in the order of the enumeration
          FloatMax,       \* the last floating point type among them
          LogLen,         \* units of the log of a core
          Kernels,        \* kernels: [opType, blockDim, probe, stubs], stubs bounding
                          \* the stubs executed
          CubeMoves,      \* memory instructions of cube cores and of vector cores: [src,
          VecMoves,       \* dst, sub, bytes, len (units of the record), nz]
          Mads            \* matrix multiplications: [type, m, k, n, bit61, mx]

ASSUME CoreRecordsAssumption ==
    /\ {MaxBlock, MaxThreads, WarpThreads, LineWords, LogLen} \subseteq Nat \ {0}
    /\ OperandTypes \in Seq(STRING) /\ FloatMax \in DOMAIN OperandTypes

ASSUME KernelsAssumption ==
    Kernels \subseteq [opType : {"MIX", "CUBE", "VECTOR"}, blockDim : Nat,
                       probe : {"operands", "warps", "memory"}, stubs : Nat]

ASSUME MovesAssumption ==
    \A move \in CubeMoves \union VecMoves :
        move.sub \in {0, 1} /\ move.bytes \in Nat /\ move.len \in Nat \ {0} /\ move.nz \in BOOLEAN

ASSUME MadsAssumption ==
    Mads \subseteq [type : DOMAIN OperandTypes, m : Nat, k : Nat, n : Nat, bit61 : {0, 1}, mx : BOOLEAN]

VARIABLES kernel,      \* the kernel that runs
          gm,          \* words of the buffer that differ from its initial zeros
          dataCaches,  \* what the data cache of a core holds of it, by index
          logs,        \* the logs of the memory probe, by index
          executed,    \* history: the stubs executed
          fileSize     \* words (blocks for logs) of the file the host read; -1: not read

coreRecordVars == <<kernel, gm, dataCaches, logs, executed, fileSize>>

SubBlockDim == 3    \* MIX_SUB_BLOCKDIM: two vector cores and a cube core
VecBlockDim == SubBlockDim - 1
CubeIndex == 2
Fractal == 16
Types == DOMAIN OperandTypes
-----------------------------------------------------------------------------
(* Which block a core writes *)

KernelCores(k) ==
    [block : 0..(k.blockDim - 1),
     sub : CASE k.opType = "MIX" -> {"cube0", "vector0", "vector1"}
             [] k.opType = "CUBE" -> {"cube0"}
             [] k.opType = "VECTOR" -> {"vector0"}]
Cores == KernelCores(kernel)

IsVec(core) == core.sub # "cube0"
VecIndex(sub) == IF sub = "vector1" THEN 1 ELSE 0

(* The runtime's number of a core: sub-blocks are numbered through.         *)
GetBlockIdx(core) ==
    IF IsVec(core)
    THEN core.block * (IF kernel.opType = "MIX" THEN VecBlockDim ELSE 1) + VecIndex(core.sub)
    ELSE core.block

BlockIndex(core) ==
    LET block == GetBlockIdx(core)
    IN IF IsVec(core) THEN block + block \div VecBlockDim
       ELSE block + (block + 1) * VecBlockDim
(* The indices that have a block or are the index of a core.              *)
Indices == 0..(MaxBlock - 1) \union {BlockIndex(core) : core \in Cores}
TryGetBlockIdx(core) == BlockIndex(core) < MaxBlock
TryGetThreadId(thread) == thread < MaxThreads
-----------------------------------------------------------------------------
(* The buffers.  Records of operands: a header of one word, then per block *)
(* one table of all types for the core itself and one for each thread.     *)
(* Records of warps: per block a header of three words, then two per warp. *)

(* Variant with a bug: no space between the tables of different writers.   *)
NoGap == 0
Gap == LineWords
OperandHeader == 1
TableLen == 2 * Len(OperandTypes) + Gap
OperandBlockLen == (MaxThreads + 1) * TableLen + Gap
OperandOffset(index, table, t) ==
    OperandHeader + index * OperandBlockLen + table * TableLen + 2 * (t - 1)

WarpsPerBlock == (MaxThreads + WarpThreads - 1) \div WarpThreads
WarpHeader == 3
WarpBlockLen == WarpHeader + 2 * WarpsPerBlock + Gap
WarpOffset(index, warp) == index * WarpBlockLen + WarpHeader + 2 * warp

Word(memory, a) == IF a \in DOMAIN memory THEN memory[a] ELSE 0

(* The words of f, and those of g that f does not have.                     *)
Over(f, g) == [a \in DOMAIN f \union DOMAIN g |-> IF a \in DOMAIN f THEN f[a] ELSE g[a]]

(* The data cache of a core takes whole lines from the GM and writes whole *)
(* lines back.                                                             *)
CacheLines(words) ==
    UNION {(LineWords * (a \div LineWords))..(LineWords * (a \div LineWords) + LineWords - 1) : a \in words}
Cached(index, words) == Over(dataCaches[index], [a \in CacheLines(words) |-> Word(gm, a)])
StoreWords(index, values) ==
    dataCaches' = [dataCaches EXCEPT ![index] = Over(values, Cached(index, DOMAIN values))]
-----------------------------------------------------------------------------
(* The probe "operands" *)

DataBits(type) ==
    CASE type \in {"B4", "E1M2", "E2M1"} -> 4
      [] type \in {"B8", "S8", "U8", "E4M3", "E5M2"} -> 8
      [] type \in {"B16", "S16", "U16", "F16", "F16X2", "HALF", "BF16", "HIF8X2", "F8E4M3X2", "F8E5M2X2"} -> 16
      [] type \in {"B32", "S32", "U32", "F32", "SX32", "ZX32", "BF16X2", "V2BF16", "V2F16"} -> 32
      [] type \in {"B64", "S64", "U64", "F32X2"} -> 64
      [] OTHER -> 128

CeilToFractal(size, fractal) == (size + fractal - 1) \div fractal

(* Operations of a multiplication of an m by k with a k by n matrix, padded *)
(* to fractals; a vector is treated as a matrix of 16 rows.                *)
MmadOperands(mad) ==
    LET gemv == mad.bit61 = 0 /\ mad.m = 1
        c0 == 256 \div DataBits(OperandTypes[mad.type])
        mCnt == IF gemv THEN 1 ELSE CeilToFractal(mad.m, Fractal)
        nCnt == CeilToFractal(mad.n, Fractal)
        kCnt == IF gemv THEN 16 ELSE CeilToFractal(mad.k, c0)
        k0 == IF gemv THEN CeilToFractal(mad.k, Fractal) ELSE c0
    IN 2 * mCnt * Fractal * nCnt * Fractal * kCnt * k0
         + (IF mad.mx THEN kCnt * k0 * Fractal * (mCnt + nCnt) ELSE 0)

AccumulateData(index, offset, operands) ==
    LET held == Cached(index, {offset, offset + 1})
    IN StoreWords(index, [a \in {offset, offset + 1} |-> held[a] + (IF a = offset THEN 1 ELSE operands)])

(* What the stubs of the cube instructions count: type and scaled or not;  *)
(* the types the stubs of the SIMT instructions count.                     *)
CubeStubs ==
    ({"S8", "F16", "BF16", "F32", "E4M3", "E5M2"} \X {FALSE})
      \union ({"E1M2", "E2M1", "E4M3", "E5M2"} \X {TRUE})
SimtStubs ==
    {"F16", "F16X2", "BF16", "BF16X2", "F32", "F32X2", "F8E4M3X2", "F8E5M2X2", "HIF8X2", "V2F16", "V2BF16",
     "FMIX", "B32", "SX32", "ZX32", "S32", "S64", "U32", "U64"}
SimtTypes == {t \in Types : OperandTypes[t] \in SimtStubs}

MayExecute(core) == fileSize = -1 /\ core \in Cores /\ Len(executed) < kernel.stubs
Executes(event) == executed' = Append(executed, event)

RecordMmadA5(core, mad) ==
    /\ kernel.probe = "operands" /\ MayExecute(core) /\ ~IsVec(core)
    /\ <<OperandTypes[mad.type], mad.mx>> \in CubeStubs
    /\ TryGetBlockIdx(core) => DOMAIN dataCaches[BlockIndex(core)] = {}
    /\ Executes([core |-> core, mad |-> mad])
    /\ IF TryGetBlockIdx(core)
       THEN AccumulateData(BlockIndex(core), OperandOffset(BlockIndex(core), 0, mad.type), MmadOperands(mad))
       ELSE UNCHANGED dataCaches
    /\ UNCHANGED <<kernel, gm, logs, fileSize>>

(* SIMT instructions run on vector cores, once per thread.  In an operator *)
(* of both kinds their block number depends on a register the code does    *)
(* not describe, so they are looked at in VECTOR operators only.           *)
RecordOperandOperation(core, thread, type) ==
    /\ kernel.probe = "operands" /\ MayExecute(core) /\ kernel.opType = "VECTOR"
    /\ Executes([core |-> core, thread |-> thread, type |-> type])
    /\ IF TryGetBlockIdx(core) /\ TryGetThreadId(thread)
       THEN AccumulateData(BlockIndex(core), OperandOffset(BlockIndex(core), thread + 1, type), 1)
       ELSE UNCHANGED dataCaches
    /\ UNCHANGED <<kernel, gm, logs, fileSize>>
-----------------------------------------------------------------------------
(* The probe "warps": the first lane of a warp notes when it starts and    *)
(* when it ends.  The clock counts the stubs executed.                     *)

GetLaneId(thread) == thread % WarpThreads
Clock == Len(executed) + 1

GetWarpBasicInfo(core, thread) ==
    /\ TryGetBlockIdx(core) /\ TryGetThreadId(thread)
    /\ thread \div WarpThreads < WarpsPerBlock

DumpWarpTimestamp(core, thread, isStart) ==
    LET index == BlockIndex(core)
        header == index * WarpBlockLen
        record == WarpOffset(index, thread \div WarpThreads) + (IF isStart THEN 0 ELSE 1)
        stamp == [core |-> core, thread |-> thread, isStart |-> isStart]
    IN /\ kernel.probe = "warps" /\ MayExecute(core) /\ IsVec(core)
       /\ \A i \in DOMAIN executed : executed[i] # stamp
       /\ ~isStart => \E i \in DOMAIN executed : executed[i] = [stamp EXCEPT !.isStart = TRUE]
       /\ Executes(stamp)
       /\ IF GetLaneId(thread) = 0 /\ GetWarpBasicInfo(core, thread)
          THEN StoreWords(index, [a \in {header, header + 1, header + 2, record} |->
                                     CASE a = header -> 1
                                       [] a = header + 1 -> index \div SubBlockDim
                                       [] a = header + 2 -> index % SubBlockDim
                                       [] OTHER -> Clock])
          ELSE UNCHANGED dataCaches
       /\ UNCHANGED <<kernel, gm, logs, fileSize>>

(* Each of these stubs ends with this: the data cache of its core goes to   *)
(* the GM.  Other cores, and other threads of this one, may come between.   *)
Flush(index) ==
    /\ DOMAIN dataCaches[index] # {}
    /\ gm' = Over(dataCaches[index], gm)
    /\ dataCaches' = [dataCaches EXCEPT ![index] = <<>>]
    /\ UNCHANGED <<kernel, logs, executed, fileSize>>
-----------------------------------------------------------------------------
(* The probe "memory": each core has a log of its own, far from the others. *)
(* Its header has the length, which after an overflow counts records, and   *)
(* the parameters that instructions of their own have set.                 *)

NewLog == [length |-> 0, overflow |-> FALSE, count |-> 0, para |-> 0, records |-> <<>>]

(* What a stub finds before it writes len units: room, or what it leaves.  *)
HasRoom(log, len) == ~log.overflow /\ log.length <= LogLen - len

(* Variant with a bug: the length always goes up by one.                   *)
DroppedKeepingLength(log) == [log EXCEPT !.length = @ + 1, !.overflow = TRUE]
Dropped(log) ==
    [log EXCEPT !.length = IF log.overflow THEN @ + 1 ELSE log.count + 1, !.overflow = TRUE]

LogOf(core) == logs[BlockIndex(core)]
Logging(core, event, len, log) ==
    /\ kernel.probe = "memory" /\ MayExecute(core)
    /\ Executes(event)
    /\ IF TryGetBlockIdx(core)
       THEN logs' = [logs EXCEPT ![BlockIndex(core)] = IF HasRoom(@, len) THEN log ELSE Dropped(@)]
       ELSE UNCHANGED logs
    /\ UNCHANGED <<kernel, gm, dataCaches, fileSize>>

ParaLen == 2    \* units of the record a parameter is for
SetMte2NzPara(core, config) ==
    Logging(core, [core |-> core, para |-> config], ParaLen, [LogOf(core) EXCEPT !.para = config])

DumpRecord(log, move) ==
    [log EXCEPT !.length = @ + move.len, !.count = @ + 1,
                !.records = Append(@, [move |-> move, para |-> IF move.nz THEN log.para ELSE 0])]
RecordEvent(core, move) ==
    Logging(core, [core |-> core, move |-> move], move.len, DumpRecord(LogOf(core), move))
-----------------------------------------------------------------------------
CoreRecordInit ==
    /\ kernel \in Kernels
    /\ gm = <<>>
    /\ dataCaches = [i \in Indices |-> <<>>]
    /\ logs = [i \in Indices |-> NewLog]
    /\ executed = <<>>
    /\ fileSize = -1

BufferSize == OperandHeader + MaxBlock * OperandBlockLen

(* The kernel has ended.  The file of operands may have been cut off.      *)
ReadFile(size) ==
    /\ fileSize = -1
    /\ \A index \in DOMAIN dataCaches : DOMAIN dataCaches[index] = {}
    /\ kernel.probe # "operands" => size = BufferSize
    /\ fileSize' = size
    /\ UNCHANGED <<kernel, gm, dataCaches, logs, executed>>

CoreRecordNext ==
    \/ \E core \in Cores :
         \/ \E mad \in Mads : RecordMmadA5(core, mad)
         \/ \E thread \in 0..MaxThreads, type \in SimtTypes : RecordOperandOperation(core, thread, type)
         \/ \E thread \in 0..MaxThreads, isStart \in BOOLEAN : DumpWarpTimestamp(core, thread, isStart)
         \/ \E config \in {1, 2} : SetMte2NzPara(core, config)
         \/ \E move \in IF IsVec(core) THEN VecMoves ELSE CubeMoves : RecordEvent(core, move)
    \/ \E index \in DOMAIN dataCaches : Flush(index)
    \/ \E size \in {BufferSize, BufferSize - 1, BufferSize - OperandBlockLen} : ReadFile(size)

CoreRecordSpec == CoreRecordInit /\ [][CoreRecordNext]_coreRecordVars
-----------------------------------------------------------------------------
(* What the host makes of the operands *)

OperandBlocks ==
    IF fileSize < OperandHeader \/ (fileSize - OperandHeader) % OperandBlockLen # 0 THEN 0
    ELSE (fileSize - OperandHeader) \div OperandBlockLen

Nothing == [instructions |-> 0, operands |-> 0]
Statistical(index, tables) ==
    [t \in Types |->
        [instructions |-> SumFunction([table \in tables |-> Word(gm, OperandOffset(index, table, t))]),
         operands |-> SumFunction([table \in tables |-> Word(gm, OperandOffset(index, table, t) + 1)])]]
ParseOperandRecords(index) ==
    [simdMap |-> Statistical(index, {0}), simtMap |-> Statistical(index, 1..MaxThreads)]

(* Which block of the file the host takes for a core.                      *)
HostIndex(core) ==
    IF kernel.opType = "VECTOR"
    THEN (core.block \div VecBlockDim) * SubBlockDim + (core.block % VecBlockDim)
    ELSE core.block * SubBlockDim + (IF IsVec(core) THEN VecIndex(core.sub) ELSE CubeIndex)
GetOperandRecordMap(core) ==
    IF HostIndex(core) < OperandBlocks THEN ParseOperandRecords(HostIndex(core))
    ELSE [simdMap |-> [t \in Types |-> Nothing], simtMap |-> [t \in Types |-> Nothing]]

(* The roofline: operations of all cube cores by precision, of all vector  *)
(* cores by kind.                                                          *)
Precisions == {"Integer", "Single", "Half", "Quarter", "Eighth"}
Precision(type) ==
    CASE type = "S8" -> "Integer" [] type = "F32" -> "Single" [] type \in {"F16", "BF16"} -> "Half"
      [] type \in {"E4M3", "E5M2"} -> "Quarter" [] type \in {"E1M2", "E2M1"} -> "Eighth"
      [] OTHER -> "none"
CubeFops(precision) ==
    LET of == {t \in Types : Precision(OperandTypes[t]) = precision}
    IN SumFunction([x \in {core \in Cores : ~IsVec(core)} \X of |->
                       GetOperandRecordMap(x[1]).simdMap[x[2]].operands])
VecFops(isFloat) ==
    LET of == {t \in Types : (t <= FloatMax) = isFloat}
    IN SumFunction([x \in {core \in Cores : IsVec(core)} \X of |->
                       GetOperandRecordMap(x[1]).simtMap[x[2]].operands])
-----------------------------------------------------------------------------
(* What the host draws of the warps: [core, subCore, warp, ts, dur] *)

StartTime(index, warp) == Word(gm, WarpOffset(index, warp))
EndTime(index, warp) == Word(gm, WarpOffset(index, warp) + 1)
AppendBlockEvents(index) ==
    {[core |-> Word(gm, index * WarpBlockLen + 1), subCore |-> Word(gm, index * WarpBlockLen + 2),
      warp |-> warp, ts |-> StartTime(index, warp), dur |-> EndTime(index, warp) - StartTime(index, warp)] :
        warp \in {w \in 0..(WarpsPerBlock - 1) :
                     /\ Word(gm, index * WarpBlockLen) = 1
                     /\ StartTime(index, w) # 0 /\ EndTime(index, w) > StartTime(index, w)}}

SamePid(a, b) == a.core = b.core /\ a.subCore = b.subCore
(* All sub-cores are moved to start at the same time.                      *)
NormalizeTraceEventStart(events) ==
    {[e EXCEPT !.ts = @ - Min({o.ts : o \in {x \in events : SamePid(x, e)}})] : e \in events}
TraceEvents == NormalizeTraceEventStart(UNION {AppendBlockEvents(index) : index \in 0..(MaxBlock - 1)})
-----------------------------------------------------------------------------
(* What the host makes of the logs: the bytes over each part of the way     *)

(* source, destination and a part of the way between them                  *)
MemTransferRules ==
    {<<"GM", "REG", <<"GM", "DCACHE">>>>, <<"GM", "REG", <<"DCACHE", "VEC">>>>,
     <<"GM", "UB", <<"GM", "UB">>>>,
     <<"UB", "L1", <<"UB", "L1">>>>,
     <<"UB", "GM", <<"UB", "GM">>>>,
     <<"UB", "REG", <<"UB", "VEC">>>>,
     <<"L1", "UB", <<"L1", "UB">>>>,
     <<"REG", "GM", <<"VEC", "DCACHE">>>>, <<"REG", "GM", <<"DCACHE", "GM">>>>,
     <<"REG", "UB", <<"VEC", "UB">>>>,
     <<"REG", "PRIVATE", <<"VEC", "DCACHE">>>>,
     <<"PRIVATE", "REG", <<"DCACHE", "VEC">>>>}
Hops == {rule[3] : rule \in MemTransferRules}
Rule(move) == {hop \in Hops : <<move.src, move.dst, hop>> \in MemTransferRules}

(* Bytes of the records numbered x = <<index, position>>                    *)
Volume(places) == SumFunction([x \in places |-> logs[x[1]].records[x[2]].move.bytes])
RecordPlaces(hop) ==
    {x \in (0..(MaxBlock - 1)) \X (1..LogLen) :
        x[2] <= logs[x[1]].count /\ hop \in Rule(logs[x[1]].records[x[2]].move)}

(* What a cube core moves from L1 to UB also counts for the vector core     *)
(* whose UB it is.                                                         *)
NeedExtraUbIdMapping(x) ==
    /\ logs[x[1]].records[x[2]].move.src = "L1" /\ logs[x[1]].records[x[2]].move.dst = "UB"
    /\ x[1] % SubBlockDim = CubeIndex
UbId(x) == x[1] - CubeIndex + logs[x[1]].records[x[2]].move.sub

SubblockStats(index, hop) ==
    Volume({x \in RecordPlaces(hop) : x[1] = index})
      + Volume({x \in RecordPlaces(hop) : NeedExtraUbIdMapping(x) /\ UbId(x) = index})
AicoreStats(aicore, hop) == Volume({x \in RecordPlaces(hop) : x[1] \div SubBlockDim = aicore})

Statics(core, hop) ==
    IF kernel.opType = "MIX" THEN SubblockStats(HostIndex(core), hop) ELSE AicoreStats(core.block, hop)
-----------------------------------------------------------------------------
FileRead == fileSize # -1
HasBlock(core) == BlockIndex(core) < (IF fileSize = BufferSize THEN MaxBlock ELSE MaxBlock - 1)
Stubs(core, field) == {i \in DOMAIN executed : executed[i].core = core /\ field \in DOMAIN executed[i]}

(* The multiplication of the padded matrices: two operations per product,   *)
(* and one per scale with scaled operands.                                 *)
Padded(n, size) == Min({p \in n..(n + size - 1) : p % size = 0})
Flops(mad) ==
    LET depth == IF mad.m = 1 /\ mad.bit61 = 0 THEN 16 ELSE 256 \div DataBits(OperandTypes[mad.type])
        m == Padded(mad.m, 16)
        n == Padded(mad.n, 16)
        k == Padded(mad.k, depth)
    IN 2 * m * n * k + (IF mad.mx THEN k * (m + n) ELSE 0)

MadsOf(core, t) == {i \in Stubs(core, "mad") : executed[i].mad.type = t /\ HasBlock(core)}
ThreadOpsOf(core, t) ==
    {i \in Stubs(core, "type") : executed[i].type = t /\ executed[i].thread < MaxThreads /\ HasBlock(core)}
MadsIn(types) == UNION {MadsOf(core, t) : core \in Cores, t \in types}
ThreadOpsIn(types) == UNION {ThreadOpsOf(core, t) : core \in Cores, t \in types}
FlopsIn(stubs) == SumFunction([i \in stubs |-> Flops(executed[i].mad)])

OperandsAttributed ==
    /\ \A core \in Cores, t \in Types :
         LET map == GetOperandRecordMap(core)
             whole == fileSize # BufferSize - 1
             mads == IF whole THEN MadsOf(core, t) ELSE {}
             ops == IF whole THEN ThreadOpsOf(core, t) ELSE {}
         IN /\ map.simdMap[t] = [instructions |-> Cardinality(mads), operands |-> FlopsIn(mads)]
            /\ map.simtMap[t] = [instructions |-> Cardinality(ops), operands |-> Cardinality(ops)]
    /\ fileSize # BufferSize - 1 =>
         /\ \A precision \in Precisions :
              CubeFops(precision) = FlopsIn(MadsIn({t \in Types : Precision(OperandTypes[t]) = precision}))
         /\ \A isFloat \in BOOLEAN :
              VecFops(isFloat) = Cardinality(ThreadOpsIn({t \in Types : (t <= FloatMax) = isFloat}))

(* A warp that ran: when its first lane started and ended.                  *)
Stamp(core, warp, isStart) ==
    {i \in Stubs(core, "isStart") :
        executed[i].thread = warp * WarpThreads /\ executed[i].isStart = isStart}
WarpsOf(core) ==
    {w \in 0..(WarpsPerBlock - 1) : HasBlock(core) /\ Stamp(core, w, FALSE) # {}}
FirstTick(core, warp) == Min(Stamp(core, warp, TRUE))
PlaceOf(core) ==
    IF kernel.opType = "MIX" THEN <<core.block, VecIndex(core.sub)>>
    ELSE <<core.block \div 2, core.block % 2>>

WarpsDrawn ==
    TraceEvents =
        UNION {{[core |-> PlaceOf(core)[1], subCore |-> PlaceOf(core)[2], warp |-> w,
                 ts |-> FirstTick(core, w) - Min({FirstTick(core, v) : v \in WarpsOf(core)}),
                 dur |-> Min(Stamp(core, w, FALSE)) - FirstTick(core, w)] : w \in WarpsOf(core)} :
               core \in Cores}

(* Whatever cores, threads and the write backs of their caches do between   *)
(* each other, what the host has for a core is what this core did: the      *)
(* operations of its instructions by type, and the roofline their sums; the *)
(* warps that ran to their end.  Cores and threads beyond the limits, and a *)
(* file that was cut off, take nothing from others, and nothing is written   *)
(* behind the buffer (AccumulateData, DumpWarpTimestamp,                    *)
(* GetOperandRecordMap, AppendBlockEvents).                                 *)
RecordsOfItsCore ==
    FileRead =>
        /\ \A a \in DOMAIN gm :
             gm[a] # 0 => a < (IF kernel.probe = "warps" THEN MaxBlock * WarpBlockLen ELSE BufferSize)
        /\ kernel.probe = "operands" => OperandsAttributed
        /\ kernel.probe = "warps" => WarpsDrawn
-----------------------------------------------------------------------------
(* A log holds the first memory instructions of its core, up to one that    *)
(* found no room, each with the parameter set last before it; all after it  *)
(* are counted.  last is a stub before the one that found no room.          *)
Para(core, i) ==
    LET set == {j \in Stubs(core, "para") : j < i}
    IN IF set = {} THEN 0 ELSE executed[Max(set)].para
LengthOf(stub) == IF "para" \in DOMAIN stub THEN ParaLen ELSE stub.move.len

LogExact(core) ==
    LET log == LogOf(core)
        used == SumFunction([n \in DOMAIN log.records |-> log.records[n].move.len])
    IN \E last \in 0..Len(executed) :
        LET moves == {i \in Stubs(core, "move") : i <= last}
            dropped == {i \in Stubs(core, "para") \union Stubs(core, "move") : i > last}
        IN /\ log.count = Len(log.records) /\ log.count = Cardinality(moves)
           /\ \A i \in moves :
                LET record == log.records[Cardinality({j \in moves : j <= i})]
                IN record.move = executed[i].move /\ (record.move.nz => record.para = Para(core, i))
           /\ used <= LogLen
           /\ log.overflow = (dropped # {})
           /\ log.overflow => /\ log.length = log.count + Cardinality(dropped)
                              /\ used + LengthOf(executed[Min(dropped)]) > LogLen
           /\ ~log.overflow => log.length = used

(* What enters and leaves the memories of a core in the memory chart is what *)
(* the logged instructions of this core moved in and out of them, and of a   *)
(* UB also what the cube core beside it moved there.                         *)
TrafficOf(core) ==
    \A unit \in {"GM", "UB", "L1"} :
        LET Places(memory) == {BlockIndex(memory)} \X (1..LogOf(memory).count)
            Moved(x) == logs[x[1]].records[x[2]].move
            known == {x \in Places(core) : Rule(Moved(x)) # {}}
            cube == [core EXCEPT !.sub = "cube0"]
            fromCube ==
                IF core = cube \/ cube \notin Cores \/ ~TryGetBlockIdx(cube) THEN {}
                ELSE {x \in Places(cube) : /\ Moved(x).src = "L1" /\ Moved(x).dst = "UB"
                                           /\ Moved(x).sub = VecIndex(core.sub)}
        IN /\ SumFunction([hop \in {h \in Hops : h[1] = unit} |-> Statics(core, hop)]) =
                Volume({x \in known : Moved(x).src = unit})
                  + (IF unit = "L1" THEN Volume(fromCube) ELSE 0)
           /\ SumFunction([hop \in {h \in Hops : h[2] = unit} |-> Statics(core, hop)]) =
                Volume({x \in known : Moved(x).dst = unit})
                  + (IF unit = "UB" THEN Volume(fromCube) ELSE 0)

(* The log of a core is exact up to its overflow, which is counted, and its  *)
(* traffic is attributed to it (RecordPreCheck, DumpRecord and the setters;  *)
(* Statics and CollectStats).  In operators of vector cores only, which core *)
(* the traffic belongs to is open: see the README.                           *)
TrafficAttributed ==
    FileRead /\ kernel.probe = "memory" =>
        \A core \in Cores :
            TryGetBlockIdx(core) => LogExact(core) /\ (kernel.opType # "VECTOR" => TrafficOf(core))
=============================================================================
