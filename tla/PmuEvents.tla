------------------------------ MODULE PmuEvents ------------------------------
(***************************************************************************)
(* Which events the performance counters of a core count in which round,   *)
(* and what becomes of the counts (PmuEventsId, GetReplayTimes,            *)
(* GetProfBinInfo, DataHandler).                                           *)
(*   A core has 8 or 10 counters, and the metrics asked for need more      *)
(* events than that: the kernel is launched, or the application started,   *)
(* several times, and the counts of the rounds are put together.  Events   *)
(* that are related share a round in the tables; a selection of metrics    *)
(* packs the rounds anew.  Event 0 fills a round; on the 950 it is also an *)
(* event of its own.                                                       *)
(***************************************************************************)
EXTENDS Integers, Sequences, FiniteSets, FiniteSetsExt, SequencesExt, TLC

CONSTANT PmuCases       \* chip, replay mode, type of the operator, options of --aic-metrics, what of the bins is lost

-----------------------------------------------------------------------------
(* The events of each metric, and all events in their rounds.              *)

AIC_EVENTS_FOR_910B == [
    pipeutilization |-> <<9, 10, 12, 13, 84, 85, 87, 770, 771, 1792, 1793, 1794, 1795,
                          1796, 1797, 1798, 1799, 1780, 1781, 1782, 1783, 1784, 1785,
                          1786, 1787, 107, 108, 109, 110, 112, 113, 114>>,
    arithmeticutilization |-> <<3, 10, 73, 74, 1032, 1033>>,
    l2cache |-> <<1280, 1282, 1283, 1284, 1286, 1287, 1288, 1290, 1291>>,
    memory |-> <<4, 5, 6, 12, 13, 19, 49, 50, 518, 524, 526, 770, 1292, 1293, 1294>>,
    resourceconflictratio |-> <<88, 90, 91, 92>>,
    memoryl0 |-> <<27, 28, 33, 34, 40, 42>>,
    memoryub |-> <<>>,
    occupancy |-> <<1280, 1282, 1283, 1284, 1286, 1287, 1288, 1290, 1291, 1292, 1293,
                    1294>>,
    roofline |-> <<19, 28, 33, 34, 49, 50, 73, 74, 518, 524, 1280, 1282, 1284, 1286,
                   1288, 1290, 1292, 1293, 1294>>]

AIV_EVENTS_FOR_910B == [
    pipeutilization |-> <<8, 9, 12, 13, 84, 85, 87, 770, 771, 1792, 1793, 1794, 1795,
                          1796, 1797, 1798, 1799, 1780, 1781, 1782, 1783, 1784, 1785,
                          1786, 1787, 106, 108, 109, 111, 112, 113, 114>>,
    arithmeticutilization |-> <<1, 8, 75, 76, 77, 78, 79, 174, 184, 185, 186>>,
    l2cache |-> <<1280, 1282, 1283, 1284, 1286, 1287, 1288, 1290, 1291>>,
    memory |-> <<4, 5, 6, 12, 13, 61, 62, 526, 1292, 1293, 1294>>,
    resourceconflictratio |-> <<89, 90, 91, 92, 100, 101, 102, 103>>,
    memoryl0 |-> <<>>,
    memoryub |-> <<55, 56, 67, 68>>,
    occupancy |-> <<1280, 1282, 1283, 1284, 1286, 1287, 1288, 1290, 1291, 1292, 1293,
                    1294>>,
    roofline |-> <<61, 62, 67, 68, 75, 76, 77, 78, 79, 174, 186, 1280, 1282, 1284,
                   1286, 1288, 1290, 1292, 1293, 1294>>]

AIC_EVENTS_FOR_310P == [
    pipeutilization |-> <<1, 8, 9, 10, 11, 12, 13, 84, 85, 87>>,
    arithmeticutilization |-> <<3, 8, 10, 73, 74, 75, 76, 77, 78, 79, 174, 184, 185, 186>>,
    l2cache |-> <<>>,
    memory |-> <<4, 5, 6, 11, 12, 13, 18, 19, 44, 49, 50, 61, 62>>,
    resourceconflictratio |-> <<88, 89, 90, 91, 92, 100, 101, 102, 103>>,
    memoryl0 |-> <<27, 28, 33, 34, 39, 40, 41, 42>>,
    memoryub |-> <<55, 56, 61, 62, 67, 68>>,
    occupancy |-> <<>>,
    roofline |-> <<28, 33, 34, 44, 49, 50, 61, 62, 67, 68, 73, 74, 75, 76, 77, 78, 79,
                   174, 186>>]

AIC_EVENTS_FOR_A5 == [
    pipeutilization |-> <<0, 1, 10, 36, 52, 53, 514, 515, 810, 1794, 1812, 1813>>,
    arithmeticutilization |-> <<768, 789, 790, 808, 809, 810>>,
    l2cache |-> <<1060, 1061, 1062, 1063, 1064, 1065, 1066, 1067, 1068, 1069, 1070, 1071>>,
    memory |-> <<512, 513, 514, 515, 1058, 1059, 1792, 1794, 1799, 1801, 1804, 1806,
                 1815>>,
    resourceconflictratio |-> <<11, 13, 14, 15>>,
    memoryl0 |-> <<772, 774, 776, 778, 1795, 1797>>,
    memoryub |-> <<>>,
    occupancy |-> <<1058, 1059, 1060, 1061, 1062, 1063, 1064, 1065, 1066, 1067, 1068,
                    1069, 1070, 1071>>,
    roofline |-> <<1058, 1059, 1795, 1797, 1799, 1801, 1804, 1806, 1815, 1060, 1061,
                   1062, 1063, 1064, 1065, 1066, 1067, 1068, 1069, 1070, 1071>>]

AIV_EVENTS_FOR_A5 == [
    pipeutilization |-> <<0, 1, 10, 52, 53, 514, 515, 1281>>,
    arithmeticutilization |-> <<1281, 1282, 1283, 1284>>,
    l2cache |-> <<1060, 1061, 1062, 1063, 1064, 1065, 1066, 1067, 1068, 1069, 1070, 1071>>,
    memory |-> <<512, 513, 514, 515, 516, 518, 1058, 1059, 1391, 1395, 1396, 1397,
                 1398, 1400, 1404, 1407, 1408>>,
    resourceconflictratio |-> <<12, 13, 14, 15, 1344, 1366, 1376, 1377, 1378, 1379>>,
    memoryl0 |-> <<>>,
    memoryub |-> <<1058, 1059, 1393, 1394, 1397, 1398, 1407, 1408>>,
    occupancy |-> <<1058, 1059, 1060, 1061, 1062, 1063, 1064, 1065, 1066, 1067, 1068,
                    1069, 1070, 1071, 1466, 1467, 1468>>,
    roofline |-> <<1058, 1059, 1397, 1398, 1407, 1408, 1060, 1061, 1062, 1063, 1064,
                   1065, 1066, 1067, 1068, 1069, 1070, 1071>>]

REPLAY_AIC_EVENTS_FOR_910B == <<
    <<1032, 1033, 1280, 1282, 1283, 1292, 0, 0>>,
    <<1284, 1286, 1287, 1288, 1290, 1291, 1293, 1294>>,
    <<19, 49, 50, 518, 524, 0, 0, 0>>,
    <<3, 4, 5, 6, 526, 0, 0, 0>>,
    <<27, 28, 33, 34, 40, 42, 84, 85>>,
    <<1792, 1793, 1794, 1795, 1796, 1797, 1798, 1799>>,
    <<1780, 1781, 1782, 1783, 1784, 1785, 1786, 1787>>,
    <<106, 107, 108, 109, 110, 111, 112, 113>>,
    <<13, 73, 74, 87, 92, 114, 0, 0>>,
    <<9, 10, 12, 88, 90, 91, 770, 771>>>>

REPLAY_AIV_EVENTS_FOR_910B == <<
    <<55, 56, 1280, 1282, 1283, 1292, 0, 0>>,
    <<1284, 1286, 1287, 1288, 1290, 1291, 1293, 1294>>,
    <<61, 62, 67, 68, 0, 0, 0, 0>>,
    <<1, 75, 76, 77, 78, 79, 174, 186>>,
    <<5, 6, 100, 101, 102, 103, 184, 185>>,
    <<1792, 1793, 1794, 1795, 1796, 1797, 1798, 1799>>,
    <<1780, 1781, 1782, 1783, 1784, 1785, 1786, 1787>>,
    <<106, 107, 108, 109, 110, 111, 112, 113>>,
    <<4, 84, 85, 526, 13, 87, 92, 114>>,
    <<8, 9, 12, 770, 771, 89, 90, 91>>>>

REPLAY_AIC_EVENTS_FOR_310P == <<
    <<3, 73, 74, 75, 76, 77, 78, 79>>,
    <<174, 184, 185, 186, 4, 5, 6, 18>>,
    <<19, 44, 49, 50, 61, 62, 27, 28>>,
    <<33, 34, 39, 40, 41, 42, 55, 56>>,
    <<67, 68, 1, 84, 85, 87, 100, 101>>,
    <<102, 103, 9, 13, 92, 0, 0, 0>>,
    <<8, 10, 11, 12, 88, 89, 90, 91>>>>

REPLAY_AIC_EVENTS_FOR_A5 == <<
    <<1060, 1061, 1062, 1063, 1064, 1065, 1066, 1067, 1068, 1069>>,
    <<1070, 1071, 512, 513, 768, 789, 790, 1792, 1813, 0>>,
    <<52, 53, 772, 774, 776, 778, 1058, 1059, 0, 0>>,
    <<1795, 1797, 1799, 1801, 1804, 1806, 1815, 0, 0, 0>>,
    <<10, 11, 13, 14, 15, 36, 0, 0, 0, 0>>,
    <<1, 514, 515, 808, 809, 810, 1794, 1812, 0, 0>>>>

REPLAY_AIV_EVENTS_FOR_A5 == <<
    <<1060, 1061, 1062, 1063, 1064, 1065, 1066, 1067, 1068, 1069>>,
    <<1070, 1071, 512, 513, 1344, 1366, 1376, 1377, 1378, 1379>>,
    <<52, 53, 516, 518, 1058, 1059, 1391, 1393, 1394, 0>>,
    <<1395, 1396, 1397, 1398, 1400, 1404, 1407, 1408, 0, 0>>,
    <<10, 12, 14, 15, 0, 0, 0, 0, 0, 0>>,
    <<1, 514, 515, 1281, 1282, 1283, 1284, 1466, 1467, 1468>>>>

Chips == {"A2", "310P", "A5"}
ProfMetrics ==
    <<"pipeutilization", "arithmeticutilization", "l2cache", "memory", "resourceconflictratio",
      "memoryl0", "memoryub", "occupancy", "roofline">>
NoEvents == [m \in ToSet(ProfMetrics) |-> <<>>]

PMU_EVENT_MAX_NUM(chip) == IF chip = "A5" THEN 10 ELSE 8
EVENT_MAX_NUM(chip) == IF chip = "A5" THEN 60 ELSE 80

MetricEvents(chip, core) ==
    CASE chip = "310P" -> IF core = "cube" THEN AIC_EVENTS_FOR_310P ELSE NoEvents
      [] chip = "A2" -> IF core = "cube" THEN AIC_EVENTS_FOR_910B ELSE AIV_EVENTS_FOR_910B
      [] chip = "A5" -> IF core = "cube" THEN AIC_EVENTS_FOR_A5 ELSE AIV_EVENTS_FOR_A5

RoundsOf(chip, core) ==
    CASE chip = "310P" -> IF core = "cube" THEN REPLAY_AIC_EVENTS_FOR_310P ELSE <<>>
      [] chip = "A2" -> IF core = "cube" THEN REPLAY_AIC_EVENTS_FOR_910B ELSE REPLAY_AIV_EVENTS_FOR_910B
      [] chip = "A5" -> IF core = "cube" THEN REPLAY_AIC_EVENTS_FOR_A5 ELSE REPLAY_AIV_EVENTS_FOR_A5

GetEventsByType(chip, core) == FlattenSeq(RoundsOf(chip, core))
EventsInRounds == [chip \in Chips, core \in {"cube", "vector"} |-> ToSet(GetEventsByType(chip, core))]

VARIABLES
    pmuCase,
    pmuStep,
    abilities,          \* argAicMetrics: what is enabled, other abilities
    plan,               \* aicPmu, aivPmu: the events in the order of the counters, round after round
    replays,            \* how often the program is started, and how many of these count events
    nextBin,            \* the next of the bins in the order of their names
    totalPmuData,       \* per block and part of it the counts, the cycles and the times
    lostMetrics,        \* the metrics the user is warned of
    memMapDetail        \* what the views take from each block

pmuVars == <<pmuCase, pmuStep, abilities, plan, replays, nextBin, totalPmuData, lostMetrics, memMapDetail>>

PmuInit ==
    /\ pmuCase \in PmuCases
    /\ pmuStep = "options"
    /\ abilities = [on |-> {}, flags |-> {}]
    /\ plan = [cube |-> <<>>, vector |-> <<>>]
    /\ replays = [starts |-> 0, counting |-> 0]
    /\ nextBin = 1 /\ totalPmuData = <<>> /\ lostMetrics = {} /\ memMapDetail = <<>>

-----------------------------------------------------------------------------
(* The option --aic-metrics.                                               *)

BoolMetrics ==
    {"occupancy", "roofline", "timelinedetail", "source", "pmsampling", "memorydetail",
     "pcsampling", "pipetimeline", "instrtimeline", "overhead"}

\* Abilities that are no table of their own; some need counters.
ParseMetricBool(value, metric) ==
    [on |-> IF metric \in {"roofline", "memorydetail"} THEN ToSet(ProfMetrics)
            ELSE value.on \union ({metric} \intersect {"occupancy"}),
     flags |-> value.flags \union {metric} \union (IF metric = "pcsampling" THEN {"source"} ELSE {})]

ParseMetric(value, metric, alone) ==
    CASE metric = "default" -> [value EXCEPT !.on = ToSet(ProfMetrics)]
      [] metric = "basicinfo" -> [value EXCEPT !.flags = @ \union {metric}]
      [] metric = "kernelscale" -> [on |-> IF alone THEN ToSet(ProfMetrics) ELSE value.on,
                                    flags |-> value.flags \union {metric}]
      [] metric \in BoolMetrics -> ParseMetricBool(value, metric)
      [] OTHER -> [value EXCEPT !.on = @ \union {metric}]

ParseValue(metrics) ==
    IF metrics = <<>> THEN [on |-> ToSet(ProfMetrics), flags |-> {}]
    ELSE FoldLeft(LAMBDA value, metric : ParseMetric(value, metric, Len(metrics) = 1),
                  [on |-> {}, flags |-> {}], metrics)

ParseOptions ==
    /\ pmuStep = "options"
    /\ abilities' = ParseValue(pmuCase.metrics)
    /\ pmuStep' = "plan"
    /\ UNCHANGED <<pmuCase, plan, replays, nextBin, totalPmuData, lostMetrics, memMapDetail>>

-----------------------------------------------------------------------------
(* The events of a selection, packed into rounds.                          *)

Zeros(n) == [i \in 1..n |-> 0]
Up(n, size) == ((n + size - 1) \div size) * size        \* GetUpNumCanDivisibleByX
FilledUp(events, size) == events \o Zeros(Up(Len(events), size) - Len(events))

GetEventsByMetrics(on, events) == UNION {ToSet(events[m]) : m \in on}

\* Variant with a bug: a group may begin in one round and end in the next.
PackAnywhere(packed, group, size) == packed \o group

\* Variant with a bug: the last free counter is not used for the last of a group.
PackEarly(packed, group, size) ==
    IF Up(Len(packed), size) - Len(packed) <= Len(group) /\ group # <<>> THEN FilledUp(packed, size) \o SubSeq(group, 1, Len(group) - 1)
    ELSE packed \o group

\* The events of one round of the table, in the round begun or in a new one.
PackGroup(packed, group, size) ==
    IF Up(Len(packed), size) - Len(packed) < Len(group) THEN FilledUp(packed, size) \o group
    ELSE packed \o group

\* Event 0 is counted wherever a counter is free; if none is, before the last
\* event of the last round, which moves into a round of its own.
AddZero(packed, chip) ==
    LET size == PMU_EVENT_MAX_NUM(chip)
        front == SubSeq(packed, 1, Len(packed) - 1)
    IN  IF 0 \in ToSet(packed) \/ packed = <<>> \/ Len(packed) + size > EVENT_MAX_NUM(chip) THEN packed
        ELSE FilledUp(front \o <<0, Last(packed)>>, size)

GetSortedEventsByMetrics(on, chip, core) ==
    LET events == GetEventsByMetrics(on, MetricEvents(chip, core))
        size == PMU_EVENT_MAX_NUM(chip)
        packed == FilledUp(FoldLeft(LAMBDA acc, round :
                                      PackGroup(acc, SelectSeq(round, LAMBDA e : e # 0 /\ e \in events), size),
                                  <<>>, RoundsOf(chip, core)), size)
    IN  IF chip = "A5" /\ 0 \in events THEN AddZero(packed, chip) ELSE packed

PmuOf(core) ==
    IF abilities.on = {} /\ "basicinfo" \in abilities.flags THEN <<>>
    ELSE IF pmuCase.chip = "310P" \/ pmuCase.mode \in {"kernel", "range"} \/ abilities.on = ToSet(ProfMetrics)
    THEN GetEventsByType(pmuCase.chip, core)
    ELSE GetSortedEventsByMetrics(abilities.on, pmuCase.chip, core)

\* Stubs that are added to a start of their own.
BuildEnabledDbiTypes ==
    ({"memorydetail", "pcsampling", "pipetimeline", "instrtimeline", "source"} \intersect abilities.flags)
      \union (IF pmuCase.chip # "A5" THEN {} ELSE {"warp"} \union (IF abilities.on # {} THEN {"operand"} ELSE {}))

RoundsNeeded(length, chip) == Up(length, PMU_EVENT_MAX_NUM(chip)) \div PMU_EVENT_MAX_NUM(chip)

\* Variant with a bug: only the cube cores are looked at.
CubeReplayTimes(p) ==
    LET n == Max({RoundsNeeded(Len(p.cube), pmuCase.chip), 1})
    IN  [starts |-> n + Cardinality(BuildEnabledDbiTypes), counting |-> n]

\* With kernels replayed one start is enough: the driver counts all rounds in it.
GetReplayTimes(p) ==
    LET n == Max({RoundsNeeded(Len(p.cube), pmuCase.chip), RoundsNeeded(Len(p.vector), pmuCase.chip), 1})
    IN  IF pmuCase.mode # "application" THEN [starts |-> 1, counting |-> n]
        ELSE [starts |-> n + Cardinality(BuildEnabledDbiTypes), counting |-> n]

LoadPmuVec ==
    /\ pmuStep = "plan"
    /\ plan' = [cube |-> PmuOf("cube"), vector |-> PmuOf("vector")]
    /\ replays' = GetReplayTimes(plan')
    /\ pmuStep' = "bins"
    /\ UNCHANGED <<pmuCase, abilities, nextBin, totalPmuData, lostMetrics, memMapDetail>>

-----------------------------------------------------------------------------
(* The bins.  A count is named by its round and its counter; the core      *)
(* counts there what the plan says (Programmed).                           *)

Programmed(core, bin, i) ==
    LET k == (bin - 1) * PMU_EVENT_MAX_NUM(pmuCase.chip) + i
    IN  IF k <= Len(plan[core]) THEN plan[core][k] ELSE 0

\* A block of a mixed operator has a cube part and two vector parts.
CoreOf(part) == IF part = 0 THEN "cube" ELSE "vector"
BlockParts ==
    CASE pmuCase.opType = "cube" -> <<<<0, 0>>, <<1, 0>>>>
      [] pmuCase.opType = "vector" -> <<<<0, 1>>, <<1, 1>>>>
      [] pmuCase.opType = "mix" -> <<<<0, 0>>, <<0, 1>>, <<0, 2>>, <<1, 0>>, <<1, 1>>, <<1, 2>>>>
      [] pmuCase.opType = "aicore" -> <<<<0, 0>>>>
AllBlockParts == <<<<0, 0>>, <<0, 1>>, <<0, 2>>, <<1, 0>>, <<1, 1>>, <<1, 2>>>>

ProfBinNum ==
    IF abilities.on = {} THEN 1
    ELSE RoundsNeeded(Max({Len(plan.cube), Len(plan.vector)}), pmuCase.chip)

\* Variant with a bug: the bins by their name.
NameCompare(m, n) == IF m = 10 /\ n # 1 THEN TRUE ELSE IF n = 10 /\ m # 1 THEN FALSE ELSE m < n
\* The bins by their number, not by their name.
FileNameCompare(m, n) == m < n
BinOrder == SortSeq([n \in 1..ProfBinNum |-> n], LAMBDA m, n : FileNameCompare(m, n))

\* Variant with a bug: a round is read with the events of eight counters.
CountersOfEight(core, bin) == [i \in 1..PMU_EVENT_MAX_NUM(pmuCase.chip) |->
    LET k == (bin - 1) * 8 + i IN IF abilities.on # {} /\ k <= Len(plan[core]) THEN plan[core][k] ELSE 0]
\* aicEvents, aivEvents of GetProfBinInfo: the events the counters of a bin stand for.
CountersOf(core, bin) ==
    [i \in 1..PMU_EVENT_MAX_NUM(pmuCase.chip) |->
        LET k == (bin - 1) * PMU_EVENT_MAX_NUM(pmuCase.chip) + i
        IN  IF abilities.on # {} /\ k <= Len(plan[core]) THEN plan[core][k] ELSE 0]

RelatedMetrics(bin) ==
    {m \in abilities.on : \E core \in {"cube", "vector"} :
        ToSet(MetricEvents(pmuCase.chip, core)[m]) \intersect ToSet(CountersOf(core, bin)) # {}}

\* GetBlockData: of counters with one event, the last.
CountsOf(core, bin) ==
    LET events == CountersOf(core, bin)
    IN  [e \in ToSet(events) |-> <<bin, CHOOSE i \in DOMAIN events :
            events[i] = e /\ \A j \in (i + 1)..Len(events) : events[j] # e>>]

\* Variant with a bug: the cycles and the times are those of the first round.
MergeAll(total, part, bin) ==
    LET old == IF part \in DOMAIN total THEN total[part]
               ELSE [counts |-> <<>>, cycles |-> bin, time |-> bin]
    IN  (part :> [old EXCEPT !.counts = @ @@ CountsOf(CoreOf(part[2]), bin)]) @@ total
\* An event keeps its first count; the cycles and the times are those of the last round.
MergeTotalPmuData(total, part, bin) ==
    LET counts == IF part \in DOMAIN total THEN total[part].counts ELSE <<>>
    IN  (part :> [counts |-> counts @@ CountsOf(CoreOf(part[2]), bin), cycles |-> bin, time |-> bin]) @@ total

\* HandlePmuData, one bin: missing, empty or unreadable bins are warned of.  A bin
\* may lack the records of a part.
ReadProfBin ==
    LET bin == BinOrder[nextBin]
    IN  /\ pmuStep = "bins"
        /\ IF bin \in pmuCase.lostBins
           THEN lostMetrics' = lostMetrics \union RelatedMetrics(bin) /\ UNCHANGED totalPmuData
           ELSE /\ totalPmuData' =
                       FoldLeft(LAMBDA total, part : MergeTotalPmuData(total, part, bin), totalPmuData,
                                SelectSeq(BlockParts, LAMBDA part : <<bin, part>> \notin pmuCase.lostParts))
                /\ UNCHANGED lostMetrics
        /\ nextBin' = nextBin + 1
        /\ pmuStep' = IF nextBin < ProfBinNum THEN "bins"
                      ELSE IF abilities.on = {} THEN "done" ELSE "views"
        /\ UNCHANGED <<pmuCase, abilities, plan, replays, memMapDetail>>

-----------------------------------------------------------------------------
(* What the views get.                                                     *)

GetOpType(parts) ==
    IF pmuCase.chip = "310P" THEN "aicore"
    ELSE IF \A part \in parts : part[2] # 0 THEN "vector"
    ELSE IF \A part \in parts : part[2] = 0 THEN "cube" ELSE "mix"

\* GetVisualizeEventMap: every event of the chip, whether it was counted or not.
EventMap(part) ==
    [e \in EventsInRounds[pmuCase.chip, CoreOf(part[2])] |->
        IF e \in DOMAIN totalPmuData[part].counts THEN totalPmuData[part].counts[e] ELSE <<0, 0>>]

\* Variant with a bug: every vector part is the first one.
AddFirst(detail, part) ==
    IF GetOpType(DOMAIN totalPmuData) # "mix" \/ part[2] = 0
    THEN Append(detail, [block |-> part[1], parts |-> {part}, events |-> (part[2] :> EventMap(part))])
    ELSE IF detail = <<>> THEN detail
    ELSE [detail EXCEPT ![Len(detail)] =
             [@ EXCEPT !.parts = @ \union {part}, !.events = @ @@ (1 :> EventMap(part))]]

\* Vector parts of a mixed operator join the entry made last.
AddMemMapDetailToVisualize(detail, part) ==
    IF GetOpType(DOMAIN totalPmuData) # "mix" \/ part[2] = 0
    THEN Append(detail, [block |-> part[1], parts |-> {part}, events |-> (part[2] :> EventMap(part))])
    ELSE IF detail = <<>> THEN detail
    ELSE [detail EXCEPT ![Len(detail)] =
             [@ EXCEPT !.parts = @ \union {part}, !.events = (part[2] :> EventMap(part)) @@ @]]

SetOpVisualizeData ==
    /\ pmuStep = "views"
    /\ memMapDetail' = FoldLeft(AddMemMapDetailToVisualize, <<>>,
                                SelectSeq(AllBlockParts, LAMBDA part : part \in DOMAIN totalPmuData))
    /\ pmuStep' = "done"
    /\ UNCHANGED <<pmuCase, abilities, plan, replays, nextBin, totalPmuData, lostMetrics>>

PmuNext == ParseOptions \/ LoadPmuVec \/ ReadProfBin \/ SetOpVisualizeData

-----------------------------------------------------------------------------
(* Properties.                                                             *)

\* The one event no round of the 950 has: 13, of the conflicts of vector cores.
InARound(core, e) == e \in EventsInRounds[pmuCase.chip, core]

\* The bins of which a part has records.
BinsOf(part) == {bin \in 1..ProfBinNum : bin \notin pmuCase.lostBins /\ <<bin, part>> \notin pmuCase.lostParts}

\* A count is filed under the event its counter counted, in the first round that
\* has this event and was read (GetProfBinInfo against the plan of the device).
CountedAsProgrammed ==
    pmuStep \in {"views", "done"} /\ abilities.on # {} =>
        \A part \in DOMAIN totalPmuData : \A e \in DOMAIN totalPmuData[part].counts :
            LET count == totalPmuData[part].counts[e] core == CoreOf(part[2])
                holds(bin) == \E i \in 1..PMU_EVENT_MAX_NUM(pmuCase.chip) : Programmed(core, bin, i) = e
            IN  /\ Programmed(core, count[1], count[2]) = e
                /\ \A bin \in BinsOf(part) : holds(bin) => count[1] <= bin

\* Every event of every metric asked for is counted for every part of the
\* operator, unless a bin was lost, of which the user is told, or records are missing.
EveryEventCounted ==
    pmuStep \in {"views", "done"} =>
        \A part \in DOMAIN totalPmuData, m \in abilities.on :
            LET core == CoreOf(part[2])
                missing == {e \in ToSet(MetricEvents(pmuCase.chip, core)[m]) :
                                InARound(core, e) /\ e \notin DOMAIN totalPmuData[part].counts}
            IN  \/ missing = {}
                \/ m \in lostMetrics
                \/ \E lost \in pmuCase.lostParts : lost[2] = part

\* Events that share a round in the tables are counted in one round, so that they
\* are of one launch, all but the event that makes room for event 0.
CountedTogether ==
    pmuStep \in {"views", "done"} /\ abilities.on # {} =>
        \A part \in DOMAIN totalPmuData :
            LET counts == totalPmuData[part].counts
                groups == {(ToSet(round) \intersect DOMAIN counts) \ {0} : round \in ToSet(RoundsOf(pmuCase.chip, CoreOf(part[2])))}
                apart == UNION {{e \in group : \E f \in group : counts[f][1] < counts[e][1]} : group \in groups}
            IN  Cardinality(apart)
                    <= IF pmuCase.chip = "A5" /\ pmuCase.mode = "application" /\ "pipeutilization" \in abilities.on THEN 1 ELSE 0

\* The program is started for every bin there is to read, and the cycles and the
\* times of a part are those of the last round it has.
RoundsAreRun ==
    /\ pmuStep \in {"views", "done"} => ProfBinNum <= replays.counting
    /\ pmuStep \in {"views", "done"} =>
           \A part \in DOMAIN totalPmuData :
               totalPmuData[part].cycles = Max(BinsOf(part)) /\ totalPmuData[part].time = Max(BinsOf(part))

\* The views have one entry for each block with the counts of its own parts, if
\* records of every cube part were read.
BlocksKeepTheirParts ==
    pmuStep = "done" /\ abilities.on # {} /\ (\A part \in ToSet(BlockParts) : part[2] = 0 => BinsOf(part) # {}) =>
        /\ UNION {entry.parts : entry \in ToSet(memMapDetail)} = DOMAIN totalPmuData
        /\ \A entry \in ToSet(memMapDetail) : \A part \in entry.parts :
               /\ part[1] = entry.block /\ part[2] \in DOMAIN entry.events
               /\ \A e \in DOMAIN totalPmuData[part].counts :
                      InARound(CoreOf(part[2]), e) => entry.events[part[2]][e] = totalPmuData[part].counts[e]

\* What the counters counted reaches the metrics (all of the above).
CountersMerged ==
    CountedAsProgrammed /\ EveryEventCounted /\ CountedTogether /\ RoundsAreRun /\ BlocksKeepTheirParts
=============================================================================
