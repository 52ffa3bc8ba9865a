--------------------------- MODULE SubcoreTimeline ---------------------------
(***************************************************************************)
(* The timeline of one core (SubcoreTimelineVisualizer): a process for     *)
(* every pipe and every warp, and in it as many threads, lanes, as it has  *)
(* instructions at a time.  Each instruction gets the first lane that is   *)
(* free over its ticks; the lanes of a process are vectors of as many      *)
(* ticks as its last instruction ends at.  Arrows join the sets and waits  *)
(* of the flags.                                                           *)
(*   A task of the pool draws one core and touches nothing of another one, *)
(* except pidMap_, so one core is modelled.  Head events, which share the  *)
(* lane of their instruction, colours, source lines, names of processes    *)
(* and lanes and the user marks (UserMark) are left out.  Sorting and the  *)
(* start of a wait are as in CoreTimeline.                                 *)
(***************************************************************************)
EXTENDS CoreTimeline, FiniteSetsExt, TLC

CONSTANTS TickLimit,     \* last tick for which a lane is kept, INT32_MAX
          SepTables      \* the tables of a core enumerated: [instrs, caches]

VARIABLES sepTable,      \* the table of instructions and that of the cache
          sepEvents,     \* the events drawn: [instr, warp, pid, tid, ts, dur]
          sepArrows,     \* the arrows drawn: [set, wait], events
          sepDrawn       \* ParseByCore has ended

sepVars == <<sepTable, sepEvents, sepArrows, sepDrawn>>

NoWarp == -1

SepInit ==
    /\ sepTable \in SepTables
    /\ sepEvents = <<>>
    /\ sepArrows = <<>>
    /\ sepDrawn = FALSE

-----------------------------------------------------------------------------
(* The instructions of a process.                                          *)

pidMap == [SCALAR |-> 10, SCALARLDST |-> 20, VECTOR |-> 30, CUBE |-> 40, MTE1 |-> 50, MTE2 |-> 60,
           MTE3 |-> 70, FIXP |-> 80, FLOWCTRL |-> 90, ALL |-> 100, CACHEMISS |-> 110]

\* Pipes the map does not know share the process 0.
Pid(pipe) == IF pipe \in DOMAIN pidMap THEN pidMap[pipe] ELSE 0

ListOf(lists, pid) == IF pid \in DOMAIN lists THEN lists[pid] ELSE <<>>

NothingGrouped(pipeSet) ==
    [pipeEndTime |-> <<>>, pipeSet |-> pipeSet, previous |-> <<>>, instrsByPipe |-> <<>>, simtInstrByWarp |-> <<>>]

\* An instruction that ends with the previous one of its process and starts
\* later goes before the last one.
PutInOrder(list, instr, previous) ==
    IF list # <<>> /\ instr.endTick = previous.endTick /\ instr.startTick > previous.startTick
      THEN InsertAt(list, Len(list), instr) ELSE Append(list, instr)

GroupWarp(g, instr) ==
    [g EXCEPT !.simtInstrByWarp = (instr.warp :> Append(ListOf(@, instr.warp), instr)) @@ @]

\* A pipe that is met for the first time forgets the previous instruction of
\* its process.
GroupPipe(g, row) ==
    LET piped == [row EXCEPT !.pipe = IF row.pipe = "SCALAR" /\ row.xd THEN "SCALARLDST" ELSE @]
        instr == IF piped.name = "WAIT_FLAG" THEN [piped EXCEPT !.startTick = WaitStart(piped, g.pipeEndTime)]
                 ELSE piped
        pid == Pid(instr.pipe)
        previous == IF instr.pipe \in g.pipeSet THEN g.previous[pid] ELSE [startTick |-> 0, endTick |-> 0]
    IN  [g EXCEPT !.pipeEndTime = LaterEnd(@, instr),
                  !.pipeSet = @ \union {instr.pipe},
                  !.previous = (pid :> [startTick |-> instr.startTick, endTick |-> instr.endTick]) @@ @,
                  !.instrsByPipe = (pid :> PutInOrder(ListOf(@, pid), instr, previous)) @@ @]

Group(g, instr) == IF instr.warp # NoWarp THEN GroupWarp(g, instr) ELSE GroupPipe(g, instr)

-----------------------------------------------------------------------------
(* Lanes.                                                                  *)

\* The ticks of a lane an instruction takes: those before the last of all.
TicksOf(instr, maxCycle) == {t \in instr.startTick..instr.endTick : t < maxCycle}

\* The lanes that are free over an instruction.
AvailableThreads(threads, instr, maxCycle) ==
    {j \in DOMAIN threads : instr.startTick <= instr.endTick /\ TicksOf(instr, maxCycle) \cap threads[j] = {}}

\* Variant with a bug: a lane that is used again keeps its free ticks.
SeatNotTaken(threads, instr, maxCycle) ==
    LET free == AvailableThreads(threads, instr, maxCycle)
    IN  IF free # {} THEN [tid |-> Min(free), threads |-> threads]
        ELSE [tid |-> Len(threads) + 1,
              threads |-> IF maxCycle > TickLimit THEN threads ELSE Append(threads, TicksOf(instr, maxCycle))]

\* GetTid: the first free lane, or a new one, which is not kept when the
\* process lasts longer than a lane can be.
Seat(threads, instr, maxCycle) ==
    LET free == AvailableThreads(threads, instr, maxCycle)
        tid == IF free # {} THEN Min(free) ELSE Len(threads) + 1
    IN  [tid |-> tid,
         threads |-> IF free # {} THEN [threads EXCEPT ![tid] = @ \union TicksOf(instr, maxCycle)]
                     ELSE IF maxCycle > TickLimit THEN threads
                     ELSE Append(threads, TicksOf(instr, maxCycle))]

\* An instruction as it is seated: a barrier in its last tick.
AsSeated(instr) == IF instr.name = "BAR" /\ instr.warp = NoWarp
                     THEN [instr EXCEPT !.startTick = instr.endTick - 1] ELSE instr

\* A set is drawn as the last tick of its instruction.
XEvent(instr, pid, tid) ==
    LET set == instr.name = "SET_FLAG" /\ instr.warp = NoWarp
    IN  [instr |-> instr, pid |-> pid, tid |-> tid,
         ts |-> IF set THEN SetStart(instr) ELSE instr.startTick,
         dur |-> IF set THEN 1 ELSE instr.endTick - instr.startTick]

\* The events of a process (a turn of CollectEvents or of CollectSIMTEvents).
ProcessEvents(pid, instrs) ==
    LET maxCycle == Last(instrs).endTick
        Draw(acc, row) ==
            LET instr == AsSeated(row)
                seat == Seat(acc.threads, instr, maxCycle)
            IN  [threads |-> seat.threads, events |-> Append(acc.events, XEvent(instr, pid, seat.tid))]
    IN  FoldLeft(Draw, [threads |-> <<>>, events |-> <<>>], instrs).events

\* Process by process.
EventsOf(lists) ==
    FoldLeft(LAMBDA events, pid : events \o ProcessEvents(pid, lists[pid]),
             <<>>, SetToSortSeq(DOMAIN lists, <))

-----------------------------------------------------------------------------
(* Arrows.                                                                 *)

OfNameAndFlag(events, name, flag) ==
    SelectSeq(events, LAMBDA event : event.instr.name = name /\ event.instr.flag = flag)

\* Flag by flag the k-th set and the k-th wait.  The first wait without a set
\* ends it for the flags that follow, too.
CollectFlagAndFlowEventsForSep(events) ==
    LET Join(acc, flag) ==
            LET s == OfNameAndFlag(events, "SET_FLAG", flag)
                w == OfNameAndFlag(events, "WAIT_FLAG", flag)
            IN  IF acc.returned THEN acc
                ELSE [returned |-> Len(s) < Len(w),
                      arrows |-> acc.arrows \o [k \in 1..Min({Len(s), Len(w)}) |-> [set |-> s[k], wait |-> w[k]]]]
        flags == {events[i].instr.flag : i \in {k \in DOMAIN events : events[k].instr.name = "WAIT_FLAG"}}
    IN  FoldLeft(Join, [returned |-> FALSE, arrows |-> <<>>], SetToSortSeq(flags, <)).arrows

-----------------------------------------------------------------------------
(* ParseByCore: the instructions, then those of the cache, which share the *)
(* set of pipes met and nothing else.                                      *)
DrawSepTrace ==
    /\ ~sepDrawn
    /\ sepDrawn' = TRUE
    /\ LET instrs == FoldLeft(Group, NothingGrouped({}), SortedByEnd(sepTable.instrs))
           caches == FoldLeft(Group, NothingGrouped(instrs.pipeSet), SortedByEnd(sepTable.caches))
           piped == EventsOf(instrs.instrsByPipe)
           cached == EventsOf(caches.instrsByPipe)
       IN  /\ sepEvents' = piped \o EventsOf(instrs.simtInstrByWarp)
                             \o cached \o EventsOf(caches.simtInstrByWarp)
           /\ sepArrows' = CollectFlagAndFlowEventsForSep(piped) \o CollectFlagAndFlowEventsForSep(cached)
    /\ UNCHANGED sepTable

SepNext == DrawSepTrace

SepSpec == SepInit /\ [][SepNext]_sepVars

-----------------------------------------------------------------------------
\* The processes by their names: the ids of warps are also those of pipes.
SameProcess(a, b) == a.pid = b.pid /\ (a.instr.warp = NoWarp) = (b.instr.warp = NoWarp)

LastTick(event) ==
    Max({sepEvents[i].instr.endTick : i \in {k \in DOMAIN sepEvents : SameProcess(sepEvents[k], event)}})

\* A set that takes no time when its process ends is drawn one tick earlier,
\* in ticks it does not take.
SetAtTheEnd(event) ==
    event.instr.name = "SET_FLAG" /\ event.instr.startTick = event.instr.endTick
      /\ event.instr.endTick = LastTick(event)

\* No two events of a lane lie over each other, unless the process lasts too
\* long for lanes to be kept (GetTid, FindAvailableThread); a lane is opened
\* only for an instruction that runs while one of the lane below does.
LanesApart ==
    \A i, j \in DOMAIN sepEvents :
        LET a == sepEvents[i]
            b == sepEvents[j]
        IN  /\ i # j /\ SameProcess(a, b) /\ a.tid = b.tid /\ LastTick(a) <= TickLimit
                 /\ ~SetAtTheEnd(a) /\ ~SetAtTheEnd(b)
               => a.ts + a.dur <= b.ts \/ b.ts + b.dur <= a.ts
            /\ a.tid > 1 =>
                   \E k \in DOMAIN sepEvents :
                       /\ SameProcess(sepEvents[k], a) /\ sepEvents[k].tid = a.tid - 1
                       /\ sepEvents[k].instr.startTick <= a.instr.endTick
                       /\ a.instr.startTick <= sepEvents[k].instr.endTick

\* Every row of the two tables has one event, which ends when it ends.
SepDrawnOnceAndApart ==
    /\ LanesApart
    /\ sepDrawn =>
           /\ Len(sepEvents) = Cardinality(sepTable.instrs) + Cardinality(sepTable.caches)
           /\ \A row \in sepTable.instrs \union sepTable.caches :
                  \E i \in DOMAIN sepEvents :
                      sepEvents[i].instr.pc = row.pc /\ sepEvents[i].ts + sepEvents[i].dur = row.endTick

SepFlags(name, flag) ==
    {instr \in sepTable.instrs : instr.name = name /\ instr.flag = flag}
SepRank(instr) ==
    Cardinality({other \in SepFlags(instr.name, instr.flag) : other.endTick <= instr.endTick})
HasAllSets(flag) == Cardinality(SepFlags("WAIT_FLAG", flag)) <= Cardinality(SepFlags("SET_FLAG", flag))

\* The wait has an arrow from the set of its flag and rank if there is one
\* and no lower flag lacks one.
SepArrowsJoinPartners ==
    sepDrawn =>
        \A s \in {instr \in sepTable.instrs : instr.name = "SET_FLAG"},
           w \in {instr \in sepTable.instrs : instr.name = "WAIT_FLAG"} :
            (\E k \in DOMAIN sepArrows : sepArrows[k].set.instr.pc = s.pc /\ sepArrows[k].wait.instr.pc = w.pc)
              <=> /\ s.flag = w.flag /\ SepRank(s) = SepRank(w)
                  /\ \A v \in sepTable.instrs : v.name = "WAIT_FLAG" /\ v.flag < w.flag => HasAllSets(v.flag)
=============================================================================
