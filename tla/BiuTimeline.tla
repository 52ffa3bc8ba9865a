----------------------------- MODULE BiuTimeline -----------------------------
(***************************************************************************)
(* The timelines built from the performance records of the cores           *)
(* (BiuTimeline, PipeBiuTimeline, InstrBiuTimeline).  A channel, one per   *)
(* core, yields records of a number of cycles since the record before it   *)
(* and either the pipes that are busy from now on or a mark of 12 bits set *)
(* on a pipe.  The pipe timeline shows the time in which pipes are busy,   *)
(* marks, and regions between two marks of the user; the instruction       *)
(* timeline the time between two equal marks.  The program instrumented    *)
(* ends with a fixed sequence of marks: what follows its first mark is cut *)
(* off once the files of all channels are read.                            *)
(*   Records that are longer than their file, channels out of range, names *)
(* of cores, instructions and colours, and the log of unpaired marks are   *)
(* left out.                                                               *)
(***************************************************************************)
EXTENDS Naturals, Sequences, FiniteSets, SequencesExt, Functions

CONSTANTS Channels,          \* channels
          StatePipes,        \* the pipes in the order of their bits
          EndMarkSequence,   \* the marks set when the program ends
          BiuRecords,        \* the records enumerated, of a timeline and a channel
          MaxBiuRecords      \* bound on the number of records of all channels

\* The scalar pipe has no instruction timeline.
SuPipe == "SCALAR"

NoEndMark == [startIndex |-> 0, nextExpectedIdx |-> 0]

VARIABLES
    biuKind,            \* which of the two classes the object is of
    biuLog,             \* the records read so far, per channel (history)
    channelCycle,       \* channelCycleMap_
    channelEndMark,     \* channelEndMarkMap_, NoEndMark if there is none
    timelineVec,        \* timelineVec_: what is shown
    pipeStateVec,       \* pipeStateVec_: start of the busy time, 0 if not busy
    traceStartCache,    \* traceStartCache_: open regions
    startCache,         \* startCache_: instructions that have started
    biuParsed           \* all files are read

biuVars == <<biuKind, biuLog, channelCycle, channelEndMark, timelineVec, pipeStateVec,
             traceStartCache, startCache, biuParsed>>

\* The bits of a mark.
IsTraceMark(id) == (id \div 1024) % 2 = 1
IsTraceEnd(id) == (id \div 2048) % 2 = 1
RegionId(id) == id % 1024
IsInstrMark(id) == (id \div 512) % 4 = 3

BiuInfo(pipe, line, start, duration) ==
    [pipe |-> pipe, line |-> line, start |-> start, duration |-> duration]

PutEntry(cache, key, value) == [k \in DOMAIN cache \union {key} |-> IF k = key THEN value ELSE cache[k]]
DropEntry(cache, key) == Restrict(cache, DOMAIN cache \ {key})

BiuInit ==
    /\ biuKind \in {"pipe", "instr"}
    /\ biuLog = [c \in Channels |-> <<>>]
    /\ channelCycle = [c \in Channels |-> 0]
    /\ channelEndMark = [c \in Channels |-> NoEndMark]
    /\ timelineVec = [c \in Channels |-> <<>>]
    /\ pipeStateVec = [c \in Channels |-> [p \in DOMAIN StatePipes |-> 0]]
    /\ traceStartCache = [c \in Channels |-> <<>>]
    /\ startCache = [c \in Channels |-> <<>>]
    /\ biuParsed = FALSE

-----------------------------------------------------------------------------
(* The sequence of marks at the end.                                       *)

\* Variant with a bug: a mark of the user leaves the sequence as it is.
UpdateEndMarksKeepsStale(state, id, size) ==
    LET at == SelectInSeq(EndMarkSequence, LAMBDA m : m = id)
    IN  IF at = 1 THEN [startIndex |-> size, nextExpectedIdx |-> 1]
        ELSE IF at = 0 \/ state.nextExpectedIdx \in {0, Len(EndMarkSequence)} THEN state
        ELSE IF state.nextExpectedIdx # at - 1 THEN NoEndMark
        ELSE [state EXCEPT !.nextExpectedIdx = @ + 1]

\* The first mark of the sequence notes where the timeline ends; a mark out
\* of the sequence forgets it, but once the sequence is complete only a mark
\* of the user does, or a new first one.
UpdateEndMarks(state, id, size) ==
    LET at == SelectInSeq(EndMarkSequence, LAMBDA m : m = id)
    IN  IF at = 0 THEN NoEndMark
        ELSE IF at = 1 THEN [startIndex |-> size, nextExpectedIdx |-> 1]
        ELSE IF state.nextExpectedIdx \in {0, Len(EndMarkSequence)} THEN state
        ELSE IF state.nextExpectedIdx # at - 1 THEN NoEndMark
        ELSE [state EXCEPT !.nextExpectedIdx = @ + 1]

-----------------------------------------------------------------------------
(* What a record adds; now is the cycle of the channel it is read in.      *)

\* ParsePipeState: the pipes that are not busy any more are shown, those
\* that have become busy remembered.  A start of 0 stands for not busy.
ParsePipeState(c, busy, now) ==
    LET Ended == {p \in DOMAIN StatePipes : p \notin busy /\ pipeStateVec[c][p] # 0}
    IN  /\ timelineVec' = [timelineVec EXCEPT ![c] = @ \o
               [k \in 1..Cardinality(Ended) |->
                    LET p == SetToSortSeq(Ended, <)[k]
                    IN  BiuInfo(StatePipes[p], <<"busy">>, pipeStateVec[c][p], now - pipeStateVec[c][p])]]
        /\ pipeStateVec' = [pipeStateVec EXCEPT ![c] =
               [p \in DOMAIN StatePipes |->
                    IF p \notin busy THEN 0 ELSE IF @[p] = 0 THEN now ELSE @[p]]]
        /\ UNCHANGED <<traceStartCache, startCache>>

\* PipeBiuTimeline: every mark is shown; a mark that ends a region shows the
\* region if it has started.  A second start replaces the first one.
ParsePipeRegion(c, pipe, id, now) ==
    LET key   == <<pipe, RegionId(id)>>
        stamp == BiuInfo(pipe, <<"stamp", id>>, now, 1)
        Ends  == IsTraceMark(id) /\ IsTraceEnd(id) /\ key \in DOMAIN traceStartCache[c]
    IN  /\ timelineVec' = [timelineVec EXCEPT ![c] = @ \o <<stamp>> \o
               IF Ends THEN <<BiuInfo(pipe, <<"region", RegionId(id)>>, traceStartCache[c][key],
                                      now - traceStartCache[c][key])>>
                       ELSE <<>>]
        /\ traceStartCache' = [traceStartCache EXCEPT ![c] =
               IF Ends THEN DropEntry(@, key)
               ELSE IF IsTraceMark(id) /\ ~IsTraceEnd(id) THEN PutEntry(@, key, now)
               ELSE @]
        /\ UNCHANGED <<pipeStateVec, startCache>>

\* InstrBiuTimeline: a mark starts an instruction, the next one equal to it
\* ends it unless no cycle has passed.
ParseInstrRegion(c, pipe, id, now) ==
    LET key == <<pipe, id>>
        Shown == pipe # SuPipe /\ IsInstrMark(id)
        Starts == Shown /\ key \notin DOMAIN startCache[c]
        Ends == Shown /\ ~Starts /\ startCache[c][key] < now
    IN  /\ timelineVec' = [timelineVec EXCEPT ![c] =
               IF Ends THEN Append(@, BiuInfo(pipe, <<"instr", id>>, startCache[c][key],
                                              now - startCache[c][key]))
               ELSE @]
        /\ startCache' = [startCache EXCEPT ![c] =
               IF Starts THEN PutEntry(@, key, now) ELSE IF Ends THEN DropEntry(@, key) ELSE @]
        /\ UNCHANGED <<pipeStateVec, traceStartCache>>

-----------------------------------------------------------------------------
\* A record of a type that is neither a state nor a mark adds no cycles.
SkipRecord(c) ==
    UNCHANGED <<channelCycle, channelEndMark, timelineVec, pipeStateVec, traceStartCache, startCache>>

StateRecord(c, rec) ==
    LET now == channelCycle[c] + rec.cycles
    IN  /\ channelCycle' = [channelCycle EXCEPT ![c] = now]
        /\ UNCHANGED channelEndMark
        /\ IF biuKind = "pipe" THEN ParsePipeState(c, rec.busy, now)
           ELSE UNCHANGED <<timelineVec, pipeStateVec, traceStartCache, startCache>>

MarkRecord(c, rec) ==
    LET now == channelCycle[c] + rec.cycles
    IN  /\ channelCycle' = [channelCycle EXCEPT ![c] = now]
        /\ channelEndMark' = [channelEndMark EXCEPT ![c] =
               UpdateEndMarks(@, rec.id, Len(timelineVec[c]))]
        /\ IF biuKind = "pipe" THEN ParsePipeRegion(c, rec.pipe, rec.id, now)
           ELSE ParseInstrRegion(c, rec.pipe, rec.id, now)

\* One turn of the loop over the records of a file.  The records of one
\* channel are in order, those of different channels come in any order.
ParseSingleBiuTimeStamps(c, rec) ==
    /\ ~biuParsed
    /\ FoldFunction(LAMBDA log, n : Len(log) + n, 0, biuLog) < MaxBiuRecords
    /\ biuLog' = [biuLog EXCEPT ![c] = Append(@, rec)]
    /\ \/ rec.ctrl = "state" /\ StateRecord(c, rec)
       \/ rec.ctrl = "mark" /\ MarkRecord(c, rec)
       \/ rec.ctrl = "other" /\ SkipRecord(c)
    /\ UNCHANGED <<biuKind, biuParsed>>

\* After the last file what was added since the end marks began is cut off.
ParseBiuTimeStamps ==
    /\ ~biuParsed
    /\ biuParsed' = TRUE
    /\ timelineVec' = [c \in Channels |->
           IF channelEndMark[c] # NoEndMark /\ channelEndMark[c].startIndex < Len(timelineVec[c])
             THEN SubSeq(timelineVec[c], 1, channelEndMark[c].startIndex)
             ELSE timelineVec[c]]
    /\ UNCHANGED <<biuKind, biuLog, channelCycle, channelEndMark, pipeStateVec,
                   traceStartCache, startCache>>

BiuNext ==
    \/ \E c \in Channels : \E rec \in BiuRecords[biuKind][c] : ParseSingleBiuTimeStamps(c, rec)
    \/ ParseBiuTimeStamps

BiuSpec == BiuInit /\ [][BiuNext]_biuVars

-----------------------------------------------------------------------------
(* What the records of a channel say, without the state of the parser.     *)

\* The cycle in which record i was written.
CycleOf(c, i) ==
    FoldLeft(LAMBDA sum, rec : IF rec.ctrl = "other" THEN sum ELSE sum + rec.cycles,
             0, SubSeq(biuLog[c], 1, i))

MarksOf(c, i, j) == SelectSeq(SubSeq(biuLog[c], i, j), LAMBDA rec : rec.ctrl = "mark")

\* The latest record before j that satisfies P, 0 if there is none.
LastBefore(c, j, P(_)) ==
    LET S == {i \in 1..(j - 1) : P(biuLog[c][i])}
    IN  IF S = {} THEN 0 ELSE CHOOSE i \in S : \A k \in S : k <= i

\* The busy times that end with record j: pipe p was busy in the state
\* before it.  It is busy since the first of the states in a row that say so
\* and were not written in cycle 0, which the parser takes for not busy.
BusyEnding(c, j) ==
    LET log == biuLog[c]
        Begin(p) ==
            {i \in 1..(j - 1) :
                /\ log[i].ctrl = "state" /\ CycleOf(c, i) > 0
                /\ \A k \in i..(j - 1) : log[k].ctrl = "state" => p \in log[k].busy}
        Ending == {p \in DOMAIN StatePipes : p \notin log[j].busy /\ Begin(p) # {}}
        From(p) == CycleOf(c, CHOOSE i \in Begin(p) : \A k \in Begin(p) : i <= k)
    IN  [k \in 1..Cardinality(Ending) |->
            LET p == SetToSortSeq(Ending, <)[k]
            IN  BiuInfo(StatePipes[p], <<"busy">>, From(p), CycleOf(c, j) - From(p))]

\* The region that ends with record j: the mark before it of this region on
\* this pipe starts it.
RegionEnding(c, j) ==
    LET rec == biuLog[c][j]
        i == LastBefore(c, j, LAMBDA r : /\ r.ctrl = "mark" /\ r.pipe = rec.pipe /\ IsTraceMark(r.id)
                                         /\ RegionId(r.id) = RegionId(rec.id))
    IN  IF IsTraceMark(rec.id) /\ IsTraceEnd(rec.id) /\ i # 0 /\ ~IsTraceEnd(biuLog[c][i].id)
          THEN <<BiuInfo(rec.pipe, <<"region", RegionId(rec.id)>>, CycleOf(c, i),
                         CycleOf(c, j) - CycleOf(c, i))>>
          ELSE <<>>

\* The instruction that ends with record j: its marks alternate.
SameMarks(c, j) ==
    {i \in 1..j : /\ biuLog[c][i].ctrl = "mark" /\ biuLog[c][i].id = biuLog[c][j].id
                  /\ biuLog[c][i].pipe = biuLog[c][j].pipe}
InstrEnding(c, j) ==
    LET rec == biuLog[c][j]
        i == LastBefore(c, j, LAMBDA r : r.ctrl = "mark" /\ r.id = rec.id /\ r.pipe = rec.pipe)
    IN  IF rec.pipe # SuPipe /\ IsInstrMark(rec.id) /\ Cardinality(SameMarks(c, j)) % 2 = 0
          THEN <<BiuInfo(rec.pipe, <<"instr", rec.id>>, CycleOf(c, i), CycleOf(c, j) - CycleOf(c, i))>>
          ELSE <<>>

EventsAt(c, j) ==
    LET rec == biuLog[c][j]
    IN  CASE rec.ctrl = "state" /\ biuKind = "pipe" -> BusyEnding(c, j)
          [] rec.ctrl = "mark" /\ biuKind = "pipe" ->
                 <<BiuInfo(rec.pipe, <<"stamp", rec.id>>, CycleOf(c, j), 1)>> \o RegionEnding(c, j)
          [] rec.ctrl = "mark" /\ biuKind = "instr" -> InstrEnding(c, j)
          [] OTHER -> <<>>

\* The record with which the end marks of a channel begin: from there on the
\* marks are those of the sequence in its order, as far as it goes.  A channel
\* without has all of its records shown.
EndsAt(c) ==
    LET n == Len(biuLog[c])
        Begins(i) ==
            /\ biuLog[c][i].ctrl = "mark"
            /\ LET marks == MarksOf(c, i, n)
                   m == Len(EndMarkSequence)
               IN  /\ \A k \in DOMAIN marks : k <= m => marks[k].id = EndMarkSequence[k]
                   /\ \A k \in DOMAIN marks : k > m => marks[k].id \in Range(Tail(EndMarkSequence))
    IN  IF \E i \in 1..n : Begins(i) THEN CHOOSE i \in 1..n : Begins(i) ELSE n + 1

Shown(c) == FlattenSeq([j \in 1..(EndsAt(c) - 1) |-> EventsAt(c, j)])

\* The two marks of an instruction are never in one cycle.
InstrsTakeTime(c) ==
    \A j \in DOMAIN biuLog[c] :
        biuLog[c][j].ctrl = "mark" =>
            \A i \in SameMarks(c, j) \ {j} : CycleOf(c, i) < CycleOf(c, j)

\* The timeline of a channel is what its records up to the end marks say, in
\* the order of the records that complete it: the marks, the regions between
\* a start and the next mark of the region if that is an end, and the time a
\* pipe was busy without a pause; or the instructions between two equal marks,
\* if none of them starts and ends in one cycle.  It makes no difference where
\* the end marks begin anew, whether the user sets marks among them, and what
\* the other channels hold.
TimelineAsRecorded ==
    biuParsed =>
        \A c \in Channels : (biuKind = "pipe" \/ InstrsTakeTime(c)) => timelineVec[c] = Shown(c)
=============================================================================
