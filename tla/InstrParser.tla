----------------------------- MODULE InstrParser -----------------------------
(***************************************************************************)
(* MergeInstrByPc: the simulator logs when an instruction is issued        *)
(* (popped) and when it completes, in two files without a common key but   *)
(* the program counter.  The parser pairs the k-th issue of a program      *)
(* counter with its k-th completion.  An instruction may be split into     *)
(* micro instructions, which log several issues or completions of one      *)
(* execution close to each other: when the two lists differ in length,     *)
(* GetPruneSize keeps the last of each such burst.  Completions of an      *)
(* execution are at most MaxGap ticks apart, its issues exactly one; the   *)
(* log may also end before the last executions complete.                   *)
(*                                                                         *)
(* The parser sees two lists of ticks; histories is what the core really   *)
(* executed, known to the properties only.  Names, details and the other   *)
(* columns of a row are left out.                                          *)
(***************************************************************************)
EXTENDS Naturals, Sequences, FiniteSets, SequencesExt

CONSTANTS PCs,       \* program counters
          MaxGap,    \* maxGapBetweenMicroInstrs, 8 in the code
          Histories  \* histories: per pc, a sequence of executions, each with
                     \* its issue ticks (pops) and completion ticks (done)

VARIABLES histories, mergeList, merged

mergeVars == <<histories, mergeList, merged>>

Pops(pc) == FlattenSeq([k \in DOMAIN histories[pc] |-> histories[pc][k].pops])
Completions(pc) == FlattenSeq([k \in DOMAIN histories[pc] |-> histories[pc][k].done])

\* Variant with a bug: a gap of MaxGap separates two executions.
PruneCloserCompletions(ticks) ==
    FoldLeft(LAMBDA kept, tick :
                 IF kept # <<>> /\ tick - Last(kept) < MaxGap
                   THEN Append(Front(kept), tick) ELSE Append(kept, tick),
             <<>>, ticks)

\* A line at most MaxGap ticks after the one kept last replaces it.
PruneCompletions(ticks) ==
    FoldLeft(LAMBDA kept, tick :
                 IF kept # <<>> /\ tick - Last(kept) <= MaxGap
                   THEN Append(Front(kept), tick) ELSE Append(kept, tick),
             <<>>, ticks)

\* A line exactly one tick after the one kept last replaces it.
PrunePops(ticks) ==
    FoldLeft(LAMBDA kept, tick :
                 IF kept # <<>> /\ tick - Last(kept) = 1
                   THEN Append(Front(kept), tick) ELSE Append(kept, tick),
             <<>>, ticks)

\* Lists of equal length are left alone.  Issues are pruned only if there
\* are still, or from the start, more of them than completions.  The longer
\* list is then cut.
GetPruneSize(pops, done) ==
    LET done1 == IF Len(done) > Len(pops) THEN PruneCompletions(done) ELSE done
        pops1 == IF Len(done1) < Len(pops) THEN PrunePops(pops) ELSE pops
        size == IF Len(done1) < Len(pops1) THEN Len(done1) ELSE Len(pops1)
    IN  IF Len(pops) = Len(done) THEN [pops |-> pops, done |-> done]
        ELSE IF pops = <<>> \/ done = <<>> THEN [pops |-> <<>>, done |-> <<>>]
        ELSE [pops |-> SubSeq(pops1, 1, size), done |-> SubSeq(done1, 1, size)]

\* The rows of one program counter; a pair that ends before it starts is
\* discarded.
Rows(pc) ==
    LET kept == GetPruneSize(Pops(pc), Completions(pc))
    IN  SelectSeq([k \in DOMAIN kept.pops |->
                      [pc |-> pc, startTick |-> kept.pops[k], endTick |-> kept.done[k]]],
                  LAMBDA row : row.startTick <= row.endTick)

SameKey(l, r) == l.pc = r.pc /\ l.startTick = r.startTick

Ties(rows) ==
    {k \in DOMAIN rows : \E m \in DOMAIN rows \ {k} : SameKey(rows[k], rows[m])}

\* What the sort may leave of rows in order: those that agree in both keys
\* come in any order (it is not stable).
Sorted(rows) ==
    {[k \in DOMAIN rows |-> rows[IF k \in Ties(rows) THEN order[k] ELSE k]] :
        order \in {p \in Permutations(Ties(rows)) :
                     \A k \in Ties(rows) : SameKey(rows[k], rows[p[k]])}}

\* The table is sorted by program counter and start.
MergeInstrByPc ==
    /\ ~merged
    /\ LET pcs == SetToSeq(PCs)
       IN  mergeList' \in Sorted(SortSeq(FlattenSeq([k \in DOMAIN pcs |-> Rows(pcs[k])]),
                                         LAMBDA l, r : IF l.pc # r.pc THEN l.pc < r.pc
                                                       ELSE l.startTick < r.startTick))
    /\ merged' = TRUE
    /\ UNCHANGED histories

MergeInit ==
    /\ histories \in Histories
    /\ mergeList = <<>>
    /\ merged = FALSE

MergeNext == MergeInstrByPc

MergeSpec == MergeInit /\ [][MergeNext]_mergeVars

-----------------------------------------------------------------------------
Final(pc) == SelectSeq(mergeList, LAMBDA row : row.pc = pc)
Complete(h) == SelectSeq(h, LAMBDA e : e.done # <<>>)

\* Lines of one execution belong together, lines of two do not.
Separated(h) ==
    /\ \A k \in DOMAIN h : \A i \in 1..(Len(h[k].pops) - 1) : h[k].pops[i + 1] = h[k].pops[i] + 1
    /\ \A k \in DOMAIN h : \A i \in 1..(Len(h[k].done) - 1) : h[k].done[i + 1] <= h[k].done[i] + MaxGap
    /\ \A k \in 1..(Len(h) - 1) :
           /\ h[k + 1].pops[1] > Last(h[k].pops) + 1
           /\ h[k + 1].done # <<>> => h[k + 1].done[1] > Last(h[k].done) + MaxGap

\* The lengths tell the parser what to prune: nothing is repeated, or only
\* completions, or only issues, or both and completions more often.
Recognisable(h) ==
    LET pops == Len(FlattenSeq([k \in DOMAIN h |-> h[k].pops]))
        done == Len(FlattenSeq([k \in DOMAIN h |-> h[k].done]))
        single == \A k \in DOMAIN h : Len(h[k].done) <= 1
    IN  \/ pops = Len(h) /\ (single \/ done > pops)
        \/ pops > Len(h) /\ ((single /\ done < pops) \/ done > pops)

\* Each complete execution becomes one row, from its last issue to its last
\* completion, although the parser only sees two lists of ticks in which
\* executions overlap, micro instructions repeat lines and the end may be
\* missing, as long as bursts are apart and the lengths differ when they
\* have to.  For any log, no row ends before it starts and the rows of a
\* program counter are in order, except that of rows that start in the same
\* tick any may come first.
ExecutionsRecovered ==
    merged =>
        \A pc \in PCs :
            LET rows == Final(pc)
                h == histories[pc]
            IN  /\ \A k \in DOMAIN rows : rows[k].startTick <= rows[k].endTick
                /\ \A k \in 1..(Len(rows) - 1) :
                       /\ rows[k].startTick <= rows[k + 1].startTick
                       /\ rows[k].startTick < rows[k + 1].startTick =>
                              rows[k].endTick <= rows[k + 1].endTick
                /\ Separated(h) /\ Recognisable(h) =>
                       rows = [k \in DOMAIN Complete(h) |->
                                  [pc |-> pc, startTick |-> Last(h[k].pops),
                                   endTick |-> Last(h[k].done)]]
=============================================================================
