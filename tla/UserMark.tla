------------------------------ MODULE UserMark ------------------------------
(***************************************************************************)
(* The user marks of one core: InstrLogParser reads the completion log of  *)
(* the simulator line by line and keeps the intervals between the          *)
(* TRACE_START and TRACE_STOP marks of a kernel, which the timeline draws. *)
(*                                                                         *)
(* A mark is an instruction with a constant in its detail.  The legacy     *)
(* encoding (adjustWithNop) is followed by NOPs: the first NOP after a     *)
(* start and the last NOP after a stop replace the tick of the mark; the   *)
(* DFX_REGION encoding is not adjusted.  Several marks of one name make    *)
(* several intervals, which are later found again by counting the start    *)
(* marks.  The tick of a line is its number; program counters, details and *)
(* lines that go to the table of instructions are left out.                *)
(***************************************************************************)
EXTENDS Naturals, Sequences, FiniteSets, SequencesExt

CONSTANTS Names,     \* the names of the marks
          NA,        \* userMarkName_ when no mark waits for a NOP
          MaxLines   \* bound on the length of the log

ASSUME NAAssumption == NA \notin Names
ASSUME MaxLinesAssumption == MaxLines \in Nat

VARIABLES
    log,               \* the lines read so far
    userMarkMap,       \* per name, the intervals in the order of their starts
    invalidMarkName,   \* names that are not drawn
    userMarkName,      \* the name whose last mark NOPs adjust, or NA
    userMarkStatus,    \* per name, whether that last mark was a start
    userMarkParseInfo, \* the lines that are marks
    userMarkInstr,     \* the instructions made of the intervals
    disposed           \* DisposeUserMark has run

markVars == <<log, userMarkMap, invalidMarkName, userMarkName, userMarkStatus,
              userMarkParseInfo, userMarkInstr, disposed>>

Tick == Len(log) + 1
Open == MaxLines + 1    \* UINT64_MAX, the end of an interval that has none

Nop == [type |-> "NOP"]
Other == [type |-> "OTHER"]
Mark(type, name, adjustWithNop) ==
    [type |-> type, name |-> name, adjustWithNop |-> adjustWithNop]

MarkInit ==
    /\ log = <<>>
    /\ userMarkMap = [m \in Names |-> <<>>]
    /\ invalidMarkName = {}
    /\ userMarkName = NA
    /\ userMarkStatus = [m \in Names |-> FALSE]
    /\ userMarkParseInfo = <<>>
    /\ userMarkInstr = <<>>
    /\ disposed = FALSE

Back(m) == userMarkMap[m][Len(userMarkMap[m])]
SetBack(m, info) == [userMarkMap EXCEPT ![m] = Append(Front(@), info)]

Read(line) ==
    /\ ~disposed
    /\ Len(log) < MaxLines
    /\ log' = Append(log, line)
    /\ UNCHANGED <<userMarkInstr, disposed>>

\* A NOP moves the start of the mark before it, once, or its end, each time.
ReadNop ==
    /\ Read(Nop)
    /\ IF userMarkName # NA /\ userMarkMap[userMarkName] # <<>>
         THEN IF userMarkStatus[userMarkName]
                THEN /\ userMarkMap' = SetBack(userMarkName, [Back(userMarkName) EXCEPT !.startTick = Tick])
                     /\ userMarkName' = NA
                ELSE /\ userMarkMap' = SetBack(userMarkName, [Back(userMarkName) EXCEPT !.endTick = Tick])
                     /\ UNCHANGED userMarkName
         ELSE /\ userMarkName' = NA
              /\ UNCHANGED userMarkMap
    /\ UNCHANGED <<invalidMarkName, userMarkStatus, userMarkParseInfo>>

ReadOther ==
    /\ Read(Other)
    /\ userMarkName' = NA
    /\ UNCHANGED <<userMarkMap, invalidMarkName, userMarkStatus, userMarkParseInfo>>

\* A mark that was accepted is the one the following NOPs adjust.
Adjust(m, adjustWithNop, isStart) ==
    IF adjustWithNop
      THEN userMarkName' = m /\ userMarkStatus' = [userMarkStatus EXCEPT ![m] = isStart]
      ELSE userMarkName' = NA /\ UNCHANGED userMarkStatus

\* A start inside an open interval of its name makes the name invalid.
ReadStart(m, adjustWithNop) ==
    /\ Read(Mark("START", m, adjustWithNop))
    /\ userMarkParseInfo' = Append(userMarkParseInfo, Mark("START", m, adjustWithNop))
    /\ IF userMarkMap[m] # <<>> /\ Back(m).endTick = Open
         THEN /\ invalidMarkName' = invalidMarkName \union {m}
              /\ userMarkName' = NA
              /\ UNCHANGED <<userMarkMap, userMarkStatus>>
         ELSE /\ userMarkMap' = [userMarkMap EXCEPT ![m] = Append(@, [startTick |-> Tick, endTick |-> Open])]
              /\ Adjust(m, adjustWithNop, TRUE)
              /\ UNCHANGED invalidMarkName

\* A stop without any start makes the name invalid; a second stop extends
\* the interval.
ReadStop(m, adjustWithNop) ==
    /\ Read(Mark("STOP", m, adjustWithNop))
    /\ userMarkParseInfo' = Append(userMarkParseInfo, Mark("STOP", m, adjustWithNop))
    /\ IF userMarkMap[m] = <<>>
         THEN /\ invalidMarkName' = invalidMarkName \union {m}
              /\ userMarkName' = NA
              /\ UNCHANGED <<userMarkMap, userMarkStatus>>
         ELSE /\ userMarkMap' = SetBack(m, [Back(m) EXCEPT !.endTick = Tick])
              /\ Adjust(m, adjustWithNop, FALSE)
              /\ UNCHANGED invalidMarkName

\* remove_if: the intervals that have an end, in their order.
WithEnd(infos) ==
    FoldLeft(LAMBDA kept, info : IF info.endTick = Open THEN kept ELSE Append(kept, info),
             <<>>, infos)

\* Variant with a bug: intervals of invalid names stay.
DeleteUserMarkKeepsInvalid == [m \in Names |-> WithEnd(userMarkMap[m])]

\* Intervals of invalid names and intervals without an end are dropped.
DeleteUserMarkWithoutEnd ==
    [m \in Names |-> IF m \in invalidMarkName THEN <<>> ELSE WithEnd(userMarkMap[m])]

\* A start mark gets the next of the intervals that remain of its name, if
\* there is one, and counts it.
GetUserMark(infos, merged, line) ==
    LET markId == merged.markCnt[line.name] + 1
    IN  IF line.type = "START" /\ markId <= Len(infos[line.name])
          THEN [markCnt |-> [merged.markCnt EXCEPT ![line.name] = markId],
                instrs |-> Append(merged.instrs,
                                  [name |-> line.name,
                                   startTick |-> infos[line.name][markId].startTick,
                                   endTick |-> infos[line.name][markId].endTick])]
          ELSE merged

NothingMerged == [markCnt |-> [m \in Names |-> 0], instrs |-> <<>>]
MergeUserMark(infos) ==
    FoldLeft(LAMBDA merged, line : GetUserMark(infos, merged, line), NothingMerged, userMarkParseInfo)

DisposeUserMark ==
    /\ ~disposed
    /\ userMarkMap' = DeleteUserMarkWithoutEnd
    /\ userMarkInstr' = MergeUserMark(userMarkMap').instrs
    /\ disposed' = TRUE
    /\ UNCHANGED <<log, invalidMarkName, userMarkName, userMarkStatus, userMarkParseInfo>>

MarkNext ==
    \/ ReadNop
    \/ ReadOther
    \/ \E m \in Names, adjustWithNop \in BOOLEAN :
           ReadStart(m, adjustWithNop) \/ ReadStop(m, adjustWithNop)
    \/ DisposeUserMark

MarkSpec == MarkInit /\ [][MarkNext]_markVars

-----------------------------------------------------------------------------
LinesOf(type, m) == {t \in DOMAIN log : log[t].type = type /\ log[t].name = m}
Starts == {t \in DOMAIN log : log[t].type = "START"}

\* A name is drawn when no stop comes before the first start and there is a
\* stop between any two starts.
WellNested(m) ==
    /\ \A e \in LinesOf("STOP", m) : \E s \in LinesOf("START", m) : s < e
    /\ \A s1, s2 \in LinesOf("START", m) :
           s1 < s2 => \E e \in LinesOf("STOP", m) : s1 < e /\ e < s2

\* The stops that belong to the start in line s.
StopsOf(s) ==
    {e \in LinesOf("STOP", log[s].name) :
        s < e /\ ~\E s2 \in LinesOf("START", log[s].name) : s < s2 /\ s2 < e}

Largest(S) == CHOOSE x \in S : \A y \in S : y <= x
\* The number of NOPs that directly follow line t.
NopsAfter(t) ==
    Largest({n \in 0..(Len(log) - t) : \A i \in 1..n : log[t + i] = Nop})

Interval(s) ==
    LET e == Largest(StopsOf(s))
    IN  [name |-> log[s].name,
         startTick |-> IF log[s].adjustWithNop /\ NopsAfter(s) > 0 THEN s + 1 ELSE s,
         endTick |-> IF log[e].adjustWithNop THEN e + NopsAfter(e) ELSE e]

\* The intervals drawn are exactly the ones the log describes, in the order
\* of their starts: the parser works line by line with one pending name and
\* finds the intervals again by counting, while nested, unfinished and
\* orphaned marks of the same and of other names come in between.
MarksAsLogged ==
    disposed =>
        LET drawn == {s \in Starts : WellNested(log[s].name) /\ StopsOf(s) # {}}
        IN  /\ Len(userMarkInstr) = Cardinality(drawn)
            /\ \A s \in drawn : userMarkInstr[Cardinality({r \in drawn : r <= s})] = Interval(s)
=============================================================================
