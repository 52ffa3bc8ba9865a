----------------------------- MODULE CoreTimeline ----------------------------
(***************************************************************************)
(* The timeline of the simulated cores (CoreTimeLineVisualizer).  A task   *)
(* of a thread pool draws the instructions of one core; the instructions   *)
(* that set a flag and those that wait for one are kept aside, paired and  *)
(* drawn with the same id, which joins them by an arrow.  Flags between    *)
(* pipes of one core are paired in its task; those between the cube core   *)
(* of a block and its two vector cores when the tasks of all cores have    *)
(* ended.  The cube core has twice as many flags: the lower half goes to   *)
(* the first vector core and the upper half to the second.                 *)
(*   The head events, colours, source lines and the order of the lanes are *)
(* left out, and so are the events of the cache, which hold no flags.  A   *)
(* task is one action: what it appends to the records of the flags and to  *)
(* the list of events carries the name of its core.                        *)
(***************************************************************************)
EXTENDS Integers, Sequences, FiniteSets, SequencesExt, Functions

CONSTANTS IntraSplit,    \* flags of a vector core, INTRA_BLOCK_ID_SPLIT
          CoreTables     \* the tables of instructions enumerated, of all cores

Cube == "cubecore0"
Vec0 == "veccore0"
Vec1 == "veccore1"
SubCores == {Cube, Vec0, Vec1}

NoFlow == <<"none">>

VARIABLES
    coreInstrs,             \* per core the set of its instructions
    parsedCores,            \* cores whose task has ended
    coreEvents,             \* per core the events drawn: [instr, start, id]
    recordIntraSetFlag,     \* per core the setting instructions of other cores' flags
    recordIntraWaitFlag,    \* per core the waiting ones
    coreDrawn               \* the flags between cores are paired

coreVars == <<coreInstrs, parsedCores, coreEvents, recordIntraSetFlag, recordIntraWaitFlag, coreDrawn>>

CoreInit ==
    /\ coreInstrs \in CoreTables
    /\ parsedCores = {}
    /\ coreEvents = [core \in SubCores |-> <<>>]
    /\ recordIntraSetFlag = [core \in SubCores |-> <<>>]
    /\ recordIntraWaitFlag = [core \in SubCores |-> <<>>]
    /\ coreDrawn = FALSE

SetNames == {"SET_INTRA_BLOCK", "SET_INTRA_BLOCKI"}
WaitNames == {"WAIT_INTRA_BLOCK", "WAIT_INTRA_BLOCKI"}
WaitNameOf(name) == IF name = "SET_INTRA_BLOCK" THEN "WAIT_INTRA_BLOCK" ELSE "WAIT_INTRA_BLOCKI"

Event(instr, start, id) == [instr |-> instr, start |-> start, id |-> id]

\* A set is drawn as the last tick of its instruction.
SetStart(instr) == instr.endTick - 1

-----------------------------------------------------------------------------
(* One core.                                                               *)

\* The table sorted by the end of the instructions, then by their address.
SortedByEnd(instrs) ==
    SetToSortSeq(instrs, LAMBDA a, b : \/ a.endTick < b.endTick
                                       \/ a.endTick = b.endTick /\ a.pc < b.pc)

NothingCollected == [pipeEndTime |-> <<>>, events |-> <<>>, sets |-> <<>>, waits |-> <<>>,
                     intraSets |-> <<>>, intraWaits |-> <<>>]

\* A wait that starts while an earlier instruction of its pipe runs is drawn
\* from the end of that on.
WaitStart(instr, pipeEndTime) ==
    IF /\ instr.pipe \in DOMAIN pipeEndTime
       /\ instr.startTick < pipeEndTime[instr.pipe] /\ pipeEndTime[instr.pipe] < instr.endTick
      THEN pipeEndTime[instr.pipe] ELSE instr.startTick

LaterEnd(pipeEndTime, instr) ==
    IF instr.pipe \notin DOMAIN pipeEndTime \/ instr.endTick > pipeEndTime[instr.pipe]
      THEN [p \in DOMAIN pipeEndTime \union {instr.pipe} |->
               IF p = instr.pipe THEN instr.endTick ELSE pipeEndTime[p]]
      ELSE pipeEndTime

\* One turn of the loop of CollectInstrEvents.  A flag of another core whose
\* number cannot be read is drawn like any instruction.
CollectInstr(c, instr) ==
    CASE instr.name = "SET_FLAG" -> [c EXCEPT !.sets = Append(@, instr)]
      [] instr.name = "WAIT_FLAG" ->
             [c EXCEPT !.waits = Append(@, [instr EXCEPT !.startTick = WaitStart(instr, c.pipeEndTime)])]
      [] instr.name \in SetNames /\ instr.flag # -1 -> [c EXCEPT !.intraSets = Append(@, instr)]
      [] instr.name \in WaitNames /\ instr.flag # -1 -> [c EXCEPT !.intraWaits = Append(@, instr)]
      [] OTHER -> [c EXCEPT !.pipeEndTime = LaterEnd(@, instr),
                            !.events = Append(@, Event(instr, instr.startTick, NoFlow))]

OfFlag(s, flag) == SelectSeq(s, LAMBDA instr : instr.flag = flag)
FlagsOf(s) == {s[i].flag : i \in DOMAIN s}

\* Flag by flag the waits in their order, each with the first set left; then
\* the sets that are left.  Each pair and each one without a partner has an id
\* of its own.
CollectFlowEvents(sets, waits) ==
    LET AddWaits(acc, flag) ==
            LET w == OfFlag(waits, flag)
                s == OfFlag(sets, flag)
                n == IF Len(s) < Len(w) THEN Len(s) ELSE Len(w)
            IN  [flagMatchId |-> acc.flagMatchId + Len(w),
                 events |-> acc.events \o FlattenSeq([k \in 1..Len(w) |->
                     IF k <= n
                       THEN <<Event(s[k], SetStart(s[k]), <<"flow", acc.flagMatchId + k>>),
                              Event(w[k], w[k].startTick, <<"flow", acc.flagMatchId + k>>)>>
                       ELSE <<Event(w[k], w[k].startTick, <<"flow", acc.flagMatchId + k>>)>>])]
        AddSets(acc, flag) ==
            LET s == OfFlag(sets, flag)
                n == Len(OfFlag(waits, flag))
                rest == SubSeq(s, n + 1, Len(s))
            IN  [flagMatchId |-> acc.flagMatchId + Len(rest),
                 events |-> acc.events \o [k \in 1..Len(rest) |->
                     Event(rest[k], SetStart(rest[k]), <<"flow", acc.flagMatchId + k>>)]]
        afterWaits == FoldLeft(AddWaits, [flagMatchId |-> 0, events |-> <<>>],
                               SetToSortSeq(FlagsOf(waits), <))
    IN  FoldLeft(AddSets, afterWaits, SetToSortSeq(FlagsOf(sets), <)).events

ParseByCore(core) ==
    /\ core \notin parsedCores
    /\ parsedCores' = parsedCores \union {core}
    /\ LET c == FoldLeft(CollectInstr, NothingCollected, SortedByEnd(coreInstrs[core]))
       IN  /\ coreEvents' = [coreEvents EXCEPT ![core] = @ \o c.events \o CollectFlowEvents(c.sets, c.waits)]
           /\ recordIntraSetFlag' = [recordIntraSetFlag EXCEPT ![core] = @ \o c.intraSets]
           /\ recordIntraWaitFlag' = [recordIntraWaitFlag EXCEPT ![core] = @ \o c.intraWaits]
    /\ UNCHANGED <<coreInstrs, coreDrawn>>

-----------------------------------------------------------------------------
(* The flags between the cores of a block.                                 *)

\* Variant with a bug: the second vector core uses the lower half.
PartnerLowerHalf(core, syncId) ==
    IF core = Cube THEN [core |-> IF syncId >= IntraSplit THEN Vec1 ELSE Vec0, syncId |-> syncId % IntraSplit]
    ELSE [core |-> Cube, syncId |-> syncId]

\* The core and the number a flag has there.
Partner(core, syncId) ==
    IF core = Cube THEN [core |-> IF syncId >= IntraSplit THEN Vec1 ELSE Vec0, syncId |-> syncId % IntraSplit]
    ELSE [core |-> Cube, syncId |-> (IF core = Vec1 THEN IntraSplit ELSE 0) + syncId]

OfKey(s, name, flag) == SelectSeq(s, LAMBDA instr : instr.name = name /\ instr.flag = flag)

\* The waits that go with the sets of a core with one name and number.
WaitsFor(core, name, flag) ==
    LET partner == Partner(core, flag)
    IN  OfKey(recordIntraWaitFlag[partner.core], WaitNameOf(name), partner.syncId)

\* The pairs, key by key: the k-th set with the k-th wait as long as there is
\* one.
SetKeys ==
    UNION {{[core |-> core, name |-> recordIntraSetFlag[core][i].name, flag |-> recordIntraSetFlag[core][i].flag] :
               i \in DOMAIN recordIntraSetFlag[core]} : core \in SubCores}
PairsOf(key) ==
    LET s == OfKey(recordIntraSetFlag[key.core], key.name, key.flag)
        w == WaitsFor(key.core, key.name, key.flag)
    IN  [k \in 1..(IF Len(s) < Len(w) THEN Len(s) ELSE Len(w)) |->
            [setCore |-> key.core, set |-> s[k], waitCore |-> Partner(key.core, key.flag).core, wait |-> w[k]]]
IntraPairs == FoldLeft(LAMBDA pairs, key : pairs \o PairsOf(key), <<>>, SetToSeq(SetKeys))

\* The flags of a core that are in none of the pairs.
LeftFlags(core, pairs) ==
    SelectSeq(recordIntraSetFlag[core],
              LAMBDA instr : \A k \in DOMAIN pairs : ~(pairs[k].setCore = core /\ pairs[k].set = instr))
    \o SelectSeq(recordIntraWaitFlag[core],
                 LAMBDA instr : \A k \in DOMAIN pairs : ~(pairs[k].waitCore = core /\ pairs[k].wait = instr))

\* The events of a core for the pairs it takes part in.
PairEvents(core, pairs) ==
    FlattenSeq([k \in DOMAIN pairs |->
        (IF pairs[k].setCore = core THEN <<Event(pairs[k].set, pairs[k].set.startTick, <<"intra", k>>)>> ELSE <<>>)
        \o (IF pairs[k].waitCore = core THEN <<Event(pairs[k].wait, pairs[k].wait.startTick, <<"intra", k>>)>> ELSE <<>>)])

\* The pairs are drawn with ids in a row, then every set and every wait that
\* is in none of them with an id of its own.
CollectIntraBlockFlowEvents ==
    /\ parsedCores = SubCores
    /\ ~coreDrawn
    /\ coreDrawn' = TRUE
    /\ LET pairs == IntraPairs
           lefts == <<LeftFlags(Cube, pairs), LeftFlags(Vec0, pairs), LeftFlags(Vec1, pairs)>>
           LeftEvents(i, offset) ==
               [k \in DOMAIN lefts[i] |-> Event(lefts[i][k], lefts[i][k].startTick, <<"intra", offset + k>>)]
           n == Len(pairs)
       IN  coreEvents' = [core \in SubCores |->
               coreEvents[core] \o PairEvents(core, pairs)
                   \o CASE core = Cube -> LeftEvents(1, n)
                        [] core = Vec0 -> LeftEvents(2, n + Len(lefts[1]))
                        [] core = Vec1 -> LeftEvents(3, n + Len(lefts[1]) + Len(lefts[2]))]
    /\ UNCHANGED <<coreInstrs, parsedCores, recordIntraSetFlag, recordIntraWaitFlag>>

CoreNext == (\E core \in SubCores : ParseByCore(core)) \/ CollectIntraBlockFlowEvents

CoreSpec == CoreInit /\ [][CoreNext]_coreVars

-----------------------------------------------------------------------------
\* An instruction as it is in the table: a wait may be drawn shorter.
SameInstr(event, instr) == [event.instr EXCEPT !.startTick = instr.startTick] = instr

\* Every instruction of every core is drawn exactly once, and nothing else.
EveryInstrDrawnOnce ==
    coreDrawn =>
        \A core \in SubCores :
            /\ Len(coreEvents[core]) = Cardinality(coreInstrs[core])
            /\ \A instr \in coreInstrs[core] :
                   \E i \in DOMAIN coreEvents[core] : SameInstr(coreEvents[core][i], instr)

\* The flags by the order of their ends: how many instructions of a core with
\* this name and flag end up to this one.
Rank(core, instr) ==
    Cardinality({other \in coreInstrs[core] : /\ other.name = instr.name /\ other.flag = instr.flag
                                              /\ other.endTick <= instr.endTick})
Drawn == UNION {{[core |-> core, event |-> coreEvents[core][i]] : i \in DOMAIN coreEvents[core]} : core \in SubCores}

\* The number a flag has in the cube core.
CubeFlag(core, flag) == IF core = Vec1 THEN IntraSplit + flag ELSE flag

Belong(a, b) ==
    LET x == a.event.instr
        y == b.event.instr
    IN  /\ Rank(a.core, x) = Rank(b.core, y)
        /\ \/ /\ x.name = "SET_FLAG" /\ y.name = "WAIT_FLAG"
              /\ a.core = b.core /\ x.flag = y.flag
           \/ /\ x.name \in SetNames /\ y.name = WaitNameOf(x.name)
              /\ x.flag # -1 /\ y.flag # -1
              /\ (a.core = Cube) # (b.core = Cube)
              /\ CubeFlag(a.core, x.flag) = CubeFlag(b.core, y.flag)

\* An arrow joins exactly the sets and waits that belong together: the k-th
\* set and the k-th wait of a flag, in one core or in two cores of the block
\* where the numbers of the second vector core are those of the upper half.
ArrowsJoinPartners ==
    coreDrawn =>
        \A a, b \in {d \in Drawn : d.event.id # NoFlow} :
            Belong(a, b) <=>
                /\ a # b
                /\ a.event.id = b.event.id
                /\ a.event.id[1] = "flow" => a.core = b.core
                /\ a.event.instr.name \in SetNames \union {"SET_FLAG"}
=============================================================================
