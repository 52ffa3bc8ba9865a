---------------------------- MODULE DeviceTimeline ----------------------------
(***************************************************************************)
(* The timeline of a kernel on a device (TimelineParser and its three      *)
(* children): the time each block took, the dots the kernel made in it,    *)
(* and, for a kernel with communication, the tasks around it.              *)
(*   A dot says who made it by a number: the index of the block among      *)
(* those of its kind, or, from older runtimes, this index with             *)
(* CUBE_BLOCK_START_INDEX added for a cube block.  Newer runtimes add the  *)
(* physical core in the upper half.  The parser finds out which it is.     *)
(*   Blocks, their parts and cores are numbered from 0, as in the code.    *)
(***************************************************************************)
EXTENDS Integers, Sequences, FiniteSets, SequencesExt, FiniteSetsExt, TLC

CONSTANT DeviceKernels      \* the kernels enumerated, with all that was recorded of them

CUBE_BLOCK_START_INDEX == 50
TIME_STAMP_START == 65535
LOG_ID_MAP == 0..2
AICORE_DOT_MAP ==
    4096..4097 \union 4112..4113 \union 4128..4129 \union 4144..4145 \union 4160..4161 \union
    4176..4177 \union 4192..4201 \union 4352..4353 \union 4368..4369 \union 4384..4385 \union
    4400..4401 \union 4416..4417
ACSQ_TASK_TYPE_MAP == 0..20
Half == 65536

VARIABLES
    tlKernel,
    tlStep,
    tlStamps,           \* aicoreTimeStamps: number of the block, type, what, when
    tlDrawn,            \* timelineJson_, the blocks and dots
    tlOrder,            \* timelineJson_, the order of the lanes
    acsqTimeMap,        \* per task and stream its type, start and end
    tlTasks             \* timelineJson_, what is drawn of communication

tlVars == <<tlKernel, tlStep, tlStamps, tlDrawn, tlOrder, acsqTimeMap, tlTasks>>

TlInit ==
    /\ tlKernel \in DeviceKernels
    /\ tlStep = "duration"
    /\ tlStamps = <<>> /\ tlDrawn = <<>> /\ tlOrder = <<>>
    /\ acsqTimeMap = <<>> /\ tlTasks = {}

-----------------------------------------------------------------------------
(* The tasks of the device.                                                *)

Bit(n, i) == (n \div 2^i) % 2 = 1

\* What the hardware reports for a task and a stream: streams of 11 bits as they
\* are, or with bits of the task moved into the number of the stream.
HardwareIds(r) ==
    LET task == r.id[1] stream == r.id[2]
    IN  CASE r.mode = "plain" -> <<task, stream>>
          [] r.mode = "high" -> <<task % 2^13, stream + 2^12 + (task \div 2^13) * 2^13>>
          [] r.mode = "low" -> <<(task \div 2^12) * 2^12 + stream, 2^13 + (task % 2^12)>>

\* Variant with a bug: the lower bits are not exchanged.
IdsNotExchanged(task, stream) ==
    IF Bit(stream, 12) THEN <<(task % 2^13) + (stream \div 2^13) * 2^13, stream % 2^11>> ELSE <<task, stream % 2^11>>

\* Task and stream as the program knows them.
GetStreamIdAndTaskId(task, stream) ==
    IF Bit(stream, 12) THEN <<(task % 2^13) + (stream \div 2^13) * 2^13, stream % 2^11>>
    ELSE IF Bit(stream, 13) THEN <<((task % Half) \div 2^12) * 2^12 + (stream % 2^12), task % 2^12>>
    ELSE <<task, stream % 2^11>>

\* The key of acsqTimeMap_ has 16 bits for each.
AcsqKey(r) ==
    LET reported == HardwareIds(r)
        ids == GetStreamIdAndTaskId(reported[1], reported[2])
    IN  <<ids[1] % Half, ids[2]>>

AcsqRecord(map, r) ==
    LET key == AcsqKey(r)
        known == key \in DOMAIN map
    IN  IF r.time = "start"
        THEN (key :> [type |-> r.type, start |-> r.cyc, end |-> IF known THEN map[key].end ELSE 0]) @@ map
        ELSE IF r.time = "end"
        THEN (key :> IF known THEN [map[key] EXCEPT !.end = r.cyc] ELSE [type |-> 0, start |-> 0, end |-> r.cyc]) @@ map
        ELSE map

\* The last start of a task of a type, `without` if there is none.
LastStart(records, type, without) ==
    LET starts == SelectSeq(records, LAMBDA r : r.type = type /\ r.time = "start")
    IN  IF starts = <<>> THEN without ELSE starts[Len(starts)].cyc

\* minTimeCyc_ or minMc2TimeCyc_.  No task of the CPU is later than any.
MinTimeCyc(kernel) ==
    LET start == LastStart(kernel.acsq, 0, 0)
    IN  IF kernel.parser = "mc2" THEN Min({LastStart(kernel.acsq, 1, start), start}) ELSE start

ParseDurationBin ==
    /\ tlStep = "duration"
    /\ acsqTimeMap' = IF tlKernel.parser = "mc2" THEN FoldLeft(AcsqRecord, <<>>, tlKernel.acsq) ELSE <<>>
    /\ tlStep' = "stamps"
    /\ UNCHANGED <<tlKernel, tlStamps, tlDrawn, tlOrder, tlTasks>>

-----------------------------------------------------------------------------
(* Blocks.  A block has one part, or in a mix a cube part and the vector   *)
(* parts behind it.                                                        *)

MinSysCyc(kernel) ==
    Min({MinTimeCyc(kernel)} \union {part[1] : part \in UNION {Range(b) : b \in Range(kernel.blocks)}})

RecordType(kernel, sub) ==
    IF kernel.opType = "cube" \/ (kernel.opType = "mix" /\ sub = 0) THEN "AIC" ELSE "AIV"

GetAicoreBlockIndexByType(kernel, block, sub) ==
    IF kernel.opType # "mix" \/ sub = 0 THEN block
    ELSE block * (Len(kernel.blocks[block + 1]) - 1) + sub - 1

Parts(kernel) ==
    FlattenSeq([b \in DOMAIN kernel.blocks |-> [s \in DOMAIN kernel.blocks[b] |-> <<b - 1, s - 1>>]])

\* blockDuration_: a part that has the number of one before takes its place,
\* and a number nobody has has no time at all.
blockDuration(kernel, type, number) ==
    LET parts == SelectSeq(Parts(kernel), LAMBDA p :
                     RecordType(kernel, p[2]) = type /\ GetAicoreBlockIndexByType(kernel, p[1], p[2]) = number)
    IN  IF parts = <<>> THEN <<0, 0>> ELSE LET p == parts[Len(parts)] IN kernel.blocks[p[1] + 1][p[2] + 1]

\* subCoreVecNum_, by the last block.
SubCoreVecNum(kernel) ==
    LET parts == Len(kernel.blocks[Len(kernel.blocks)])
    IN  CASE kernel.opType = "mix" -> parts - 1
          [] kernel.opType = "vector" -> parts
          [] OTHER -> 0
SubCoreCubeNum(kernel) == IF kernel.opType = "vector" THEN 0 ELSE 1

Lane(core, kind, sub) == [core |-> core, kind |-> kind, sub |-> sub]

GetGroupName(kernel, type, number) ==
    IF kernel.opType = "cube" \/ (kernel.opType = "mix" /\ type = "AIC") THEN Lane(number, "cube", 0)
    ELSE IF SubCoreVecNum(kernel) = 0 THEN Lane(0, "NA", 0)
    ELSE Lane(number \div SubCoreVecNum(kernel), "vector", number % SubCoreVecNum(kernel))

\* What is drawn: an operation, or a block, its start or its end.
WholeBlock == -1
BlockStart == -2
BlockEnd == -3
DotEvent(what, lane, from, to) == [what |-> what, lane |-> lane, from |-> from, to |-> to]

\* enableTimeDetail: the parsers of communication and of the lccl library
\* leave it at its default, the one of plain kernels asks the configuration.
DrawnWhole(kernel) == kernel.parser # "aicore" \/ kernel.enableBlockTime

\* One event for a part, or one for its start and one for its end.
BlockEvents(kernel, part) ==
    LET time == kernel.blocks[part[1] + 1][part[2] + 1]
        lane == GetGroupName(kernel, RecordType(kernel, part[2]), GetAicoreBlockIndexByType(kernel, part[1], part[2]))
    IN  IF DrawnWhole(kernel) THEN <<DotEvent(WholeBlock, lane, time[1], time[2])>>
        ELSE <<DotEvent(BlockStart, lane, time[1], time[1]), DotEvent(BlockEnd, lane, time[2], time[2])>>

SortTimelineByIds(kernel) ==
    FlattenSeq([c \in DOMAIN kernel.blocks |->
        [i \in 1..SubCoreCubeNum(kernel) |-> Lane(c - 1, "cube", 0)]
            \o [v \in 1..SubCoreVecNum(kernel) |-> Lane(c - 1, "vector", v - 1)]])

ProcessAicoreBlockDur ==
    /\ tlStep = "blocks"
    /\ tlDrawn' = FlattenSeq([i \in DOMAIN Parts(tlKernel) |-> BlockEvents(tlKernel, Parts(tlKernel)[i])])
    /\ tlOrder' = SortTimelineByIds(tlKernel)
    /\ tlStep' = "dots"
    /\ UNCHANGED <<tlKernel, tlStamps, acsqTimeMap, tlTasks>>

-----------------------------------------------------------------------------
(* Reading the dots.                                                       *)

\* The index among the blocks of its kind, as the runtime counts.
NumberOf(kernel, dot) == GetAicoreBlockIndexByType(kernel, dot.block, dot.sub)

\* What the runtime writes for the block of a dot.
WrittenBlockId(kernel, dot) ==
    IF kernel.newVersion THEN kernel.physical[dot.block + 1][dot.sub + 1] * Half + NumberOf(kernel, dot)
    ELSE NumberOf(kernel, dot)
         + IF RecordType(kernel, dot.sub) = "AIC" THEN CUBE_BLOCK_START_INDEX ELSE 0

GetTimeStamp(kernel) ==
    SelectSeq([i \in DOMAIN kernel.dots |->
                  [blockId |-> WrittenBlockId(kernel, kernel.dots[i]), desc |-> kernel.dots[i].desc,
                   cyc |-> kernel.dots[i].cyc]],
              LAMBDA info : info.cyc >= MinSysCyc(kernel))

GetAicoreTimeLinePid(blockId) == IF blockId >= CUBE_BLOCK_START_INDEX THEN "AIC" ELSE "AIV"

OneCube(kernel) == kernel.opType = "cube" /\ Len(kernel.blocks) = 1

IsOldVersion(kernel, infos) ==
    /\ \A i \in DOMAIN infos : infos[i].blockId \div Half = 0
    /\ OneCube(kernel) => \A i \in DOMAIN infos : infos[i].blockId > CUBE_BLOCK_START_INDEX

TypeOfCore(soc, core) ==
    IF soc = "A5" THEN IF core < 18 \/ core \in 54..71 THEN "AIC" ELSE "AIV"
    ELSE IF core < 25 THEN "AIC" ELSE "AIV"

GetTimeStampType(kernel, infos) ==
    [i \in DOMAIN infos |->
        LET id == infos[i].blockId
            stamp(type, number) == [blockId |-> number, type |-> type, desc |-> infos[i].desc, cyc |-> infos[i].cyc]
        IN  IF IsOldVersion(kernel, infos)
            THEN stamp(GetAicoreTimeLinePid(id), IF id >= CUBE_BLOCK_START_INDEX THEN id - CUBE_BLOCK_START_INDEX ELSE id)
            ELSE stamp(TypeOfCore(kernel.soc, id \div Half), id % Half)]

\* Without a dot only a kernel with communication has a timeline.
GetAicoreTimeStamps ==
    /\ tlStep = "stamps"
    /\ LET infos == GetTimeStamp(tlKernel)
       IN  /\ tlStamps' =
                IF tlKernel.parser = "lccl"
                THEN [i \in DOMAIN infos |->
                         [blockId |-> infos[i].blockId, type |-> GetAicoreTimeLinePid(infos[i].blockId),
                          desc |-> infos[i].desc, cyc |-> infos[i].cyc]]
                ELSE GetTimeStampType(tlKernel, infos)
           /\ tlStep' = IF infos = <<>> /\ tlKernel.parser # "mc2" THEN "none" ELSE "blocks"
    /\ UNCHANGED <<tlKernel, tlDrawn, tlOrder, acsqTimeMap, tlTasks>>

-----------------------------------------------------------------------------
(* Drawing the dots.                                                       *)

WithinBlock(kernel, type, number, from, to) ==
    LET time == blockDuration(kernel, type, number) IN time[1] <= from /\ to <= time[2]

\* Dots of a user: of the same block with the same number the first is a
\* start, the second its end, and so on.
ProcessAicoreData(kernel, stamps) ==
    LET own == SelectSeq(stamps, LAMBDA s : s.desc >= TIME_STAMP_START)
        before(i) == {k \in 1..(i - 1) : own[k].blockId = own[i].blockId /\ own[k].type = own[i].type
                                         /\ own[k].desc = own[i].desc}
        endOf(i) == own[Max(before(i))].cyc
        drawn(i) == /\ Cardinality(before(i)) % 2 = 1
                    /\ endOf(i) < own[i].cyc
                    /\ WithinBlock(kernel, own[i].type, own[i].blockId, endOf(i), own[i].cyc)
    IN  FlattenSeq([i \in DOMAIN own |->
            IF drawn(i)
            THEN <<DotEvent(own[i].desc, GetGroupName(kernel, own[i].type, own[i].blockId), endOf(i), own[i].cyc)>>
            ELSE <<>>])

NoOperation == [startFound |-> FALSE, endFound |-> FALSE, start |-> 0, end |-> 0]

\* Variant with a bug: the operations of all blocks are one.
OperationOfAll(s) == <<s.desc \div 2, "any", 0>>

\* Start and end of an operation are an even number and the next one.
OperationType(s) == <<s.desc \div 2, s.type, s.blockId>>

ProcessOperationStart(op, s) ==
    IF s.desc % 2 = 0 /\ ~op.startFound THEN [op EXCEPT !.start = s.cyc, !.startFound = TRUE] ELSE op
ProcessOperationEnd(op, s) ==
    IF s.desc % 2 = 1 /\ op.startFound THEN [op EXCEPT !.end = s.cyc, !.endFound = TRUE] ELSE op

\* An operation that is outside of its block stays, with its start.
Mc2Dot(kernel, acc, s) ==
    LET key == OperationType(s)
        before == IF key \in DOMAIN acc.ops THEN acc.ops[key] ELSE NoOperation
        op == ProcessOperationEnd(ProcessOperationStart(before, s), s)
        ends == op.startFound /\ op.endFound /\ WithinBlock(kernel, s.type, s.blockId, op.start, op.end)
    IN  IF s.desc \notin AICORE_DOT_MAP THEN acc
        ELSE [ops |-> (key :> IF ends THEN NoOperation ELSE op) @@ acc.ops,
              drawn |-> IF ends THEN Append(acc.drawn, DotEvent(s.desc - 1, GetGroupName(kernel, s.type, s.blockId),
                                                             op.start, op.end))
                        ELSE acc.drawn]

ProcessMC2AicoreData(kernel, stamps) ==
    FoldLeft(LAMBDA acc, s : Mc2Dot(kernel, acc, s), [ops |-> <<>>, drawn |-> <<>>], stamps).drawn
        \o ProcessAicoreData(kernel, stamps)

\* The end of an operation is not compared with its block: it is still 0
\* when that is done.
LcclDot(kernel, acc, s) ==
    LET key == <<s.desc, s.blockId>>
        open == key \in DOMAIN acc.ops
        ends == open /\ acc.ops[key] <= s.cyc /\ WithinBlock(kernel, s.type, s.blockId, acc.ops[key], 0)
    IN  IF s.desc \notin LOG_ID_MAP THEN acc
        ELSE IF ~open THEN [acc EXCEPT !.ops = (key :> s.cyc) @@ @]
        ELSE IF ~ends THEN acc
        ELSE [ops |-> [k \in DOMAIN acc.ops \ {key} |-> acc.ops[k]],
              drawn |-> Append(acc.drawn, DotEvent(s.desc, GetGroupName(kernel, s.type, s.blockId), acc.ops[key], s.cyc))]

LcclDots(kernel, stamps) ==
    FoldLeft(LAMBDA acc, s : LcclDot(kernel, acc, s), [ops |-> <<>>, drawn |-> <<>>], stamps).drawn

DrawDots ==
    /\ tlStep = "dots"
    /\ tlDrawn' = tlDrawn \o
           CASE tlKernel.parser = "mc2" -> ProcessMC2AicoreData(tlKernel, tlStamps)
             [] tlKernel.parser = "lccl" -> LcclDots(tlKernel, tlStamps)
             [] OTHER -> ProcessAicoreData(tlKernel, tlStamps)
    /\ tlStep' = IF tlKernel.parser = "mc2" THEN "tasks" ELSE "done"
    /\ UNCHANGED <<tlKernel, tlStamps, tlOrder, acsqTimeMap, tlTasks>>

-----------------------------------------------------------------------------
(* Drawing communication.                                                  *)

TaskComplete(kernel, info) == info.start # 0 /\ info.end # 0 /\ info.start <= info.end /\ MinSysCyc(kernel) <= info.start

ProcessHcclData(kernel, map) ==
    {[what |-> "task", id |-> key, from |-> map[key].start, to |-> map[key].end,
      lane |-> IF map[key].type \in {0, 1} THEN <<"type", map[key].type>> ELSE <<"stream", key[2]>>] :
         key \in {k \in DOMAIN map : TaskComplete(kernel, map[k]) /\ map[k].type \in ACSQ_TASK_TYPE_MAP}}

\* A report holds two tasks; if the first one is empty, the second one is not
\* looked at.
GetAicpuDatas(kernel) ==
    UNION {LET info(j) == kernel.reports[i][j]
           IN  {info(j) : j \in {k \in 1..2 : info(1).groupName # 0 /\ info(k).groupName # 0}} :
               i \in DOMAIN kernel.reports}

ProcessHcclTaskData(kernel, map) ==
    {[what |-> "plane", id |-> AcsqKey(info), lane |-> <<"plane", info.plane>>,
      from |-> map[AcsqKey(info)].start, to |-> map[AcsqKey(info)].end] :
         info \in {t \in GetAicpuDatas(kernel) :
                      /\ AcsqKey(t) \in DOMAIN map
                      /\ TaskComplete(kernel, map[AcsqKey(t)])}}

\* A turn of the CPU: from each of its times to the next.
ProcessAicpuTurnData(kernel) ==
    UNION {{[what |-> "turn", id |-> <<t, i>>, lane |-> <<"turn", t>>,
             from |-> kernel.turns[t][i], to |-> kernel.turns[t][i + 1]] :
                i \in {k \in 1..6 : MinSysCyc(kernel) <= kernel.turns[t][k]
                                    /\ kernel.turns[t][k] < kernel.turns[t][k + 1]}} :
           t \in DOMAIN kernel.turns}

DrawTasks ==
    /\ tlStep = "tasks"
    /\ tlTasks' = ProcessAicpuTurnData(tlKernel) \union ProcessHcclTaskData(tlKernel, acsqTimeMap)
                      \union ProcessHcclData(tlKernel, acsqTimeMap)
    /\ tlStep' = "done"
    /\ UNCHANGED <<tlKernel, tlStamps, tlDrawn, tlOrder, acsqTimeMap>>

TlNext == ParseDurationBin \/ GetAicoreTimeStamps \/ ProcessAicoreBlockDur \/ DrawDots \/ DrawTasks

TlSpec == TlInit /\ [][TlNext]_tlVars
-----------------------------------------------------------------------------
PartLane(kernel, part) ==
    IF RecordType(kernel, part[2]) = "AIC" THEN Lane(part[1], "cube", 0)
    ELSE Lane(part[1], "vector", IF kernel.opType = "mix" THEN part[2] - 1 ELSE 0)

DrawnAt(what, lane) ==
    LET events == SelectSeq(tlDrawn, LAMBDA e : e.what = what /\ e.lane = lane)
    IN  [i \in DOMAIN events |-> <<events[i].from, events[i].to>>]

NoOp == -9
\* The operation a number in a dot stands for, NoOp if it has none.
OperationOf(parser, desc) ==
    CASE parser = "lccl" /\ desc \in LOG_ID_MAP -> desc
      [] parser = "mc2" /\ desc \in AICORE_DOT_MAP -> desc - (desc % 2)
      [] parser # "lccl" /\ desc >= TIME_STAMP_START -> desc
      [] OTHER -> NoOp

\* The dots of one operation by one part, in the time that is looked at.
DotsOf(kernel, part, what) ==
    SelectSeq(kernel.dots, LAMBDA d : <<d.block, d.sub>> = part /\ OperationOf(kernel.parser, d.desc) = what
                                      /\ d.cyc >= MinSysCyc(kernel))
DotPairs(dots) == [k \in 1..(Len(dots) \div 2) |-> <<dots[2 * k - 1].cyc, dots[2 * k].cyc>>]
InPart(kernel, part, pair) ==
    LET time == kernel.blocks[part[1] + 1][part[2] + 1] IN time[1] <= pair[1] /\ pair[2] <= time[2]

\* Which runtime wrote the dots can be seen from them: an older one has not
\* run a single cube block, and a newer one ran not on core 0 alone.
VersionVisible(kernel) ==
    IF ~kernel.newVersion THEN ~OneCube(kernel)
    ELSE OneCube(kernel) \/ \E i \in DOMAIN kernel.dots :
             /\ kernel.physical[kernel.dots[i].block + 1][kernel.dots[i].sub + 1] # 0
             /\ kernel.dots[i].cyc >= MinSysCyc(kernel)

\* Every start has its end, within the part.
InOrderAndInPart(kernel, part, dots) ==
    /\ \A i \in DOMAIN DotPairs(dots) : InPart(kernel, part, DotPairs(dots)[i])
    /\ kernel.parser = "mc2" => \A i \in DOMAIN dots : dots[i].desc % 2 = (i + 1) % 2

(* What a part of a block did is drawn in the lane of the part: its time,  *)
(* and of its dots those pairs of a start and an end that lie in this      *)
(* time, no pair of dots of two parts or of two operations.  Each lane has *)
(* its place in the order, those of a block next to each other.            *)
(*   A kernel with communication or of the lccl library loses the rest of  *)
(* an operation behind a pair outside of the block; what is drawn          *)
(* nevertheless is made of dots of that part and does not overlap.  Cube   *)
(* blocks of the lccl library are left out: their lane is that of block 50 *)
(* and on.                                                                 *)
DotsInTheirBlocks ==
    tlStep \in {"tasks", "done"} =>
        /\ \A i, k \in DOMAIN tlOrder : tlOrder[i] = tlOrder[k] => i = k
        /\ \A i, k \in DOMAIN tlOrder : i < k => tlOrder[i].core <= tlOrder[k].core
        /\ \A part \in Range(Parts(tlKernel)) :
               LET lane == PartLane(tlKernel, part)
                   time == tlKernel.blocks[part[1] + 1][part[2] + 1]
               IN  /\ lane \in Range(tlOrder)
                   /\ IF tlKernel.parser # "aicore" \/ tlKernel.enableBlockTime THEN DrawnAt(WholeBlock, lane) = <<time>>
                      ELSE DrawnAt(BlockStart, lane) \o DrawnAt(BlockEnd, lane) = <<<<time[1], time[1]>>, <<time[2], time[2]>>>>
                   /\ VersionVisible(tlKernel) /\ ~(tlKernel.parser = "lccl" /\ RecordType(tlKernel, part[2]) = "AIC") =>
                      \A what \in {OperationOf(tlKernel.parser, d.desc) : d \in Range(tlKernel.dots)} \ {NoOp} :
                          LET dots == DotsOf(tlKernel, part, what)
                              drawn == DrawnAt(what, lane)
                          IN  IF what >= TIME_STAMP_START
                              THEN drawn = SelectSeq(DotPairs(dots), LAMBDA p : p[1] < p[2] /\ InPart(tlKernel, part, p))
                              ELSE /\ InOrderAndInPart(tlKernel, part, dots) => drawn = DotPairs(dots)
                                   /\ \A i \in DOMAIN drawn :
                                          /\ \E k, m \in DOMAIN dots : k < m /\ drawn[i] = <<dots[k].cyc, dots[m].cyc>>
                                          /\ i > 1 => drawn[i - 1][2] <= drawn[i][1]
                                          /\ tlKernel.parser = "mc2" => InPart(tlKernel, part, drawn[i])
        /\ \A i \in DOMAIN tlDrawn :
               \/ tlKernel.parser = "lccl"
               \/ VersionVisible(tlKernel) => tlDrawn[i].lane \in Range(tlOrder)

-----------------------------------------------------------------------------
RecordsOf(kernel, id, time) == SelectSeq(kernel.acsq, LAMBDA r : r.id = id /\ r.time = time)

\* A task that has started as often as it has ended, each time in its time.
TaskDone(kernel, id) ==
    LET records == SelectSeq(kernel.acsq, LAMBDA r : r.id = id)
    IN  /\ records # <<>> /\ Len(records) % 2 = 0
        /\ \A i \in DOMAIN records :
               /\ records[i].time = IF i % 2 = 1 THEN "start" ELSE "end"
               /\ records[i].type \in ACSQ_TASK_TYPE_MAP
        /\ MinSysCyc(kernel) <= records[Len(records) - 1].cyc

TurnInOrder(turn) == \A i \in 1..6 : turn[i] <= turn[i + 1]

(* A task of the device is drawn once, from its last start to its last     *)
(* end, in the lane of its stream or of its type, however the hardware     *)
(* spread task and stream over its two numbers; what the communication     *)
(* library reports of a task is drawn at the same time; the steps of a     *)
(* turn of the CPU follow each other if its times are in order.            *)
TasksAsRecorded ==
    tlStep = "done" /\ tlKernel.parser = "mc2" =>
        LET tasks == {e \in tlTasks : e.what = "task"}
            ids == {r.id : r \in Range(tlKernel.acsq)}
        IN  /\ \A e \in tasks : e.id \in ids /\ \A f \in tasks : f.id = e.id => f = e
            /\ \A e \in {f \in tlTasks : f.what # "turn"} :
                   /\ \E r \in Range(RecordsOf(tlKernel, e.id, "start")) : r.cyc = e.from
                   /\ \E r \in Range(RecordsOf(tlKernel, e.id, "end")) : r.cyc = e.to
                   /\ e.from <= e.to
            /\ \A id \in ids : TaskDone(tlKernel, id) =>
                   LET starts == RecordsOf(tlKernel, id, "start")
                       ends == RecordsOf(tlKernel, id, "end")
                   IN  /\ \E e \in tasks :
                              /\ e.id = id /\ e.from = Last(starts).cyc /\ e.to = Last(ends).cyc
                              /\ e.lane = IF Last(starts).type \in {0, 1} THEN <<"type", Last(starts).type>>
                                          ELSE <<"stream", id[2]>>
                       /\ \A report \in Range(tlKernel.reports) : \A j \in 1..2 :
                              report[1].groupName # 0 /\ report[j].groupName # 0 /\ report[j].id = id =>
                                  \E e \in tlTasks : e.what = "plane" /\ e.id = id /\ e.lane = <<"plane", report[j].plane>>
                                                     /\ e.from = Last(starts).cyc /\ e.to = Last(ends).cyc
            /\ \A e, f \in {g \in tlTasks : g.what = "turn"} :
                   e.id[1] = f.id[1] /\ e.id[2] < f.id[2] /\ TurnInOrder(tlKernel.turns[e.id[1]]) => e.to <= f.from
=============================================================================
