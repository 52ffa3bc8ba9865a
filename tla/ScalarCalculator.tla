-------------------------- MODULE ScalarCalculator --------------------------
(***************************************************************************)
(* The scalar head of an instruction: the time from the fetch of its cache *)
(* line (instruction cache log) over its decode (CCU log) to its start.    *)
(* ICacheParser spreads a fetch over the four instructions of a line,      *)
(* CcuParser collects the decodes of each program counter, and             *)
(* ScalarCalculator gives each decode the fetch before it and each row of  *)
(* the table of instructions the next decode of its program counter.       *)
(* Program counters are counted in instructions (gap_ bytes in the code);  *)
(* one log file per core.                                                  *)
(***************************************************************************)
EXTENDS Naturals, Sequences, FiniteSets, SequencesExt

CONSTANTS ScalarPCs,    \* program counters
          ScalarTicks,  \* ticks
          NoTick,       \* UINT64_MAX, larger than every tick
          ICacheLogs,   \* sets of fetches [tick, pc]
          CcuLogs,      \* per pc, the ticks of its decodes in order
          StartLogs     \* per pc, the start ticks of its rows in order

VARIABLES
    icacheLog, ccuLog,
    icacheDetailTable,  \* per pc, the ticks of its fetches
    scalarDetailTable,  \* per pc, its decodes [icacheTick, ccuTick]
    mergeInfo,          \* rows [pc, startTick, icacheTick, ccuTick], by pc and start
    scalarPc            \* "parse", "merge", "assign", "done"

scalarVars == <<icacheLog, ccuLog, icacheDetailTable, scalarDetailTable, mergeInfo, scalarPc>>

InstrsOfCacheLine == 4

Table(starts) ==
    FlattenSeq([i \in 1..Cardinality(ScalarPCs) |->
        LET pc == SetToSortSeq(ScalarPCs, <)[i]
        IN  [k \in DOMAIN starts[pc] |->
                [pc |-> pc, startTick |-> starts[pc][k], icacheTick |-> NoTick, ccuTick |-> NoTick]]])

ScalarInit ==
    /\ icacheLog \in ICacheLogs
    /\ ccuLog \in CcuLogs
    /\ \E starts \in StartLogs : mergeInfo = Table(starts)
    /\ icacheDetailTable = [pc \in ScalarPCs |-> {}]
    /\ scalarDetailTable = [pc \in ScalarPCs |-> <<>>]
    /\ scalarPc = "parse"

\* A fetch is filed under each instruction of its line, a decode under its own.
FetchesOf(pc) == {fetch.tick : fetch \in {f \in icacheLog : pc \in f.pc .. (f.pc + InstrsOfCacheLine - 1)}}
DecodesOf(pc) == [k \in DOMAIN ccuLog[pc] |-> [icacheTick |-> NoTick, ccuTick |-> ccuLog[pc][k]]]

\* A table that stays empty is not registered, and without one of the three
\* the calculator leaves the rows alone.
ParseScalar ==
    /\ scalarPc = "parse"
    /\ icacheDetailTable' = [pc \in ScalarPCs |-> FetchesOf(pc)]
    /\ scalarDetailTable' = [pc \in ScalarPCs |-> DecodesOf(pc)]
    /\ scalarPc' = IF icacheLog = {} \/ (\A pc \in ScalarPCs : ccuLog[pc] = <<>>) \/ mergeInfo = <<>>
                     THEN "done" ELSE "merge"
    /\ UNCHANGED <<icacheLog, ccuLog, mergeInfo>>

FetchesBefore(pc, tick) == {t \in icacheDetailTable[pc] : t < tick}

\* The decodes of a pc get the fetch before them, up to the first decode
\* that has none: the rest of the pc is given up.
MergeScalar ==
    /\ scalarPc = "merge"
    /\ scalarDetailTable' =
           [pc \in ScalarPCs |->
               [k \in DOMAIN scalarDetailTable[pc] |->
                   LET entry == scalarDetailTable[pc][k]
                   IN  IF \A j \in 1..k : FetchesBefore(pc, scalarDetailTable[pc][j].ccuTick) # {}
                         THEN [entry EXCEPT !.icacheTick =
                                   CHOOSE t \in FetchesBefore(pc, entry.ccuTick) :
                                       \A u \in FetchesBefore(pc, entry.ccuTick) : u <= t]
                         ELSE entry]]
    /\ scalarPc' = "assign"
    /\ UNCHANGED <<icacheLog, ccuLog, icacheDetailTable, mergeInfo>>

\* The number of row i among the rows of its pc.
Occurrence(i) == Cardinality({j \in 1..i : mergeInfo[j].pc = mergeInfo[i].pc})

\* Variant with a bug: the start of the row is not looked at.
MatchesAny(i) == Occurrence(i) <= Len(scalarDetailTable[mergeInfo[i].pc])

\* Row i has a decode of its own that is not later than its start.
Matches(i) ==
    LET entries == scalarDetailTable[mergeInfo[i].pc]
    IN  Occurrence(i) <= Len(entries) /\ entries[Occurrence(i)].ccuTick <= mergeInfo[i].startTick

\* Rows are matched with decodes in order; the first row without a match
\* ends the matching of its pc.
AssignScalar ==
    /\ scalarPc = "assign"
    /\ mergeInfo' =
           [i \in DOMAIN mergeInfo |->
               LET entries == scalarDetailTable[mergeInfo[i].pc]
               IN  IF \A j \in 1..i : mergeInfo[j].pc = mergeInfo[i].pc => Matches(j)
                     THEN [mergeInfo[i] EXCEPT !.icacheTick = entries[Occurrence(i)].icacheTick,
                                               !.ccuTick = entries[Occurrence(i)].ccuTick]
                     ELSE mergeInfo[i]]
    /\ scalarPc' = "done"
    /\ UNCHANGED <<icacheLog, ccuLog, icacheDetailTable, scalarDetailTable>>

ScalarNext == ParseScalar \/ MergeScalar \/ AssignScalar

ScalarSpec == ScalarInit /\ [][ScalarNext]_scalarVars

-----------------------------------------------------------------------------
RowsOf(pc) == SelectSeq(mergeInfo, LAMBDA row : row.pc = pc)
LineFetches(pc) == {f.tick : f \in {g \in icacheLog : g.pc <= pc /\ pc < g.pc + InstrsOfCacheLine}}

\* The timeline subtracts the three ticks of a row as unsigned numbers: a
\* fetch is before the decode, a decode not after the start, no fetch without
\* a decode, and the fetch is the last one of the line before the decode.
\* When each row of a pc has a decode in time, all rows get theirs, and their
\* fetch too if one was logged before the first decode.
HeadsInOrder ==
    scalarPc = "done" =>
        /\ \A i \in DOMAIN mergeInfo :
               LET row == mergeInfo[i]
               IN  /\ row.icacheTick # NoTick =>
                          /\ row.icacheTick < row.ccuTick /\ row.ccuTick # NoTick
                          /\ ~\E t \in LineFetches(row.pc) : row.icacheTick < t /\ t < row.ccuTick
                   /\ row.ccuTick # NoTick => row.ccuTick <= row.startTick
        /\ icacheLog # {} =>
             \A pc \in ScalarPCs :
               LET rows == RowsOf(pc)
               IN  Len(rows) <= Len(ccuLog[pc]) /\ (\A k \in DOMAIN rows : ccuLog[pc][k] <= rows[k].startTick)
                     => \A k \in DOMAIN rows :
                            /\ rows[k].ccuTick = ccuLog[pc][k]
                            /\ (\E t \in LineFetches(pc) : t < ccuLog[pc][1]) => rows[k].icacheTick # NoTick
=============================================================================
