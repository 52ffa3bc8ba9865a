----------------------------- MODULE RunningTime -----------------------------
(***************************************************************************)
(* CalculateRunningTime of the simulator views: the time in which at least *)
(* one of some instructions runs.  The instructions are sorted by their    *)
(* start, overlapping ones are merged and the lengths of what remains are  *)
(* added.  An interval that ends before it starts is skipped.  The result  *)
(* is in ticks: its conversion to microseconds is left out.                *)
(***************************************************************************)
EXTENDS Naturals, Sequences, FiniteSets, SequencesExt

CONSTANTS RunTicks,   \* ticks
          MaxInstrs   \* bound on the number of instructions

ASSUME RunTicksAssumption ==
    /\ RunTicks \subseteq Nat
    /\ \A from, to \in RunTicks : from..to \subseteq RunTicks
ASSUME MaxInstrsAssumption == MaxInstrs \in Nat

VARIABLES instrList, runningTime, calculated

runVars == <<instrList, runningTime, calculated>>

RunInit ==
    /\ instrList \in BoundedSeq([startTick : RunTicks, endTick : RunTicks], MaxInstrs)
    /\ runningTime = 0
    /\ calculated = FALSE

\* The sort is not stable: any order in which starts do not decrease.
SortedByStart ==
    {s \in {[i \in DOMAIN instrList |-> instrList[p[i]]] :
                p \in {q \in [DOMAIN instrList -> DOMAIN instrList] : IsInjective(q)}} :
        \A i, j \in DOMAIN instrList : i < j => s[i].startTick <= s[j].startTick}

\* Variant with a bug: the merged interval ends where the later one does.
MergeOverlappingLastEnd(s) ==
    FoldLeft(LAMBDA merge, instr :
                 IF merge # <<>> /\ Last(merge).endTick >= instr.startTick
                   THEN Append(Front(merge), [Last(merge) EXCEPT !.endTick = instr.endTick])
                   ELSE Append(merge, instr),
             <<>>, s)

\* An instruction that starts before the last interval ends prolongs it.
MergeOverlapping(s) ==
    FoldLeft(LAMBDA merge, instr :
                 IF merge # <<>> /\ Last(merge).endTick >= instr.startTick
                   THEN Append(Front(merge),
                               [Last(merge) EXCEPT !.endTick = IF instr.endTick > @ THEN instr.endTick ELSE @])
                   ELSE Append(merge, instr),
             <<>>, s)

SumOfLengths(merge) ==
    FoldLeft(LAMBDA sum, info :
                 IF info.startTick >= info.endTick THEN sum ELSE sum + (info.endTick - info.startTick),
             0, merge)

CalculateRunningTime ==
    /\ ~calculated
    /\ \E sorted \in SortedByStart :
           /\ instrList' = sorted
           /\ runningTime' = SumOfLengths(MergeOverlapping(sorted))
    /\ calculated' = TRUE

RunNext == CalculateRunningTime

RunSpec == RunInit /\ [][RunNext]_runVars

-----------------------------------------------------------------------------
\* The running time counts each tick in which some instruction runs once,
\* whatever the order of equal starts, nested, touching, empty and inverted
\* intervals.
RunningTimeIsUnion ==
    calculated =>
        runningTime = Cardinality({t \in RunTicks : \E i \in DOMAIN instrList :
                                       instrList[i].startTick <= t /\ t < instrList[i].endTick})
=============================================================================
