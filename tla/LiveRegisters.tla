---------------------------- MODULE LiveRegisters ----------------------------
(***************************************************************************)
(* GPRLiveRegisterCalculator: how many general purpose registers are       *)
(* occupied at each row of the table of instructions.  A row adds its      *)
(* registers to registerWithIndex, which keeps the row that used each      *)
(* register last, and its count is the size of the map; when a register    *)
(* turns out to be overwritten, or never used again, the counts of the     *)
(* rows after its last use are taken back.                                 *)
(*                                                                         *)
(* The detail of a row lists its registers; the tables of destination      *)
(* locations by name (and the role letters of the newest chips) say which  *)
(* of them are written.  LD4 writes four registers from the one listed: it *)
(* is the one instruction whose destinations are computed.  A register is  *)
(* a number; the map is keyed by its text, which is the number without its *)
(* X as the detail is matched, and "X" and a number as LD4 builds it.      *)
(***************************************************************************)
EXTENDS Naturals, Sequences, FiniteSets, SequencesExt

CONSTANTS RegisterLimit,  \* registers of a core, 32 in the code
          Programs        \* tables: sequences of rows [ld4, dstLoc, regs], with dstLoc
                          \* the set of positions in regs that are written

VARIABLES instrs, index, registerWithIndex, gprCount

liveVars == <<instrs, index, registerWithIndex, gprCount>>

Registers == 0..(RegisterLimit - 1)

ASSUME LimitAssumption == RegisterLimit \in Nat
ASSUME ProgramsAssumption ==
    Programs \subseteq Seq([ld4 : BOOLEAN, dstLoc : SUBSET Nat, regs : Seq(Registers)])

Text(n) == [prefix |-> "", number |-> n]
TextOfLd4(n) == [prefix |-> "X", number |-> n]

Listed(instr, positions) == {Text(instr.regs[p]) : p \in positions \intersect DOMAIN instr.regs}

GetNormalDstAndSrcRegister(instr) ==
    [dst |-> Listed(instr, instr.dstLoc), src |-> Listed(instr, DOMAIN instr.regs \ instr.dstLoc)]

\* The first register is taken without its first character, which was an X
\* once and is a digit now: nothing is left of a register below ten, and the
\* last digit of the others.
GetSpecialDstAndSrcRegister(instr) ==
    [dst |-> IF instr.regs = <<>> \/ instr.regs[1] < 10 THEN {}
             ELSE {TextOfLd4(((instr.regs[1] % 10) + i) % RegisterLimit) : i \in 0..3},
     src |-> Listed(instr, DOMAIN instr.regs \ {1})]

GetDstAndSrcRegister(instr) ==
    IF instr.ld4 THEN GetSpecialDstAndSrcRegister(instr) ELSE GetNormalDstAndSrcRegister(instr)

LiveInit ==
    /\ instrs \in Programs
    /\ index = 1
    /\ registerWithIndex = <<>>     \* the empty map
    /\ gprCount = <<>>

\* The map after the rows of src and dst were entered for row i.
Used(map, registers, i) == [r \in DOMAIN map \union registers |-> IF r \in registers THEN i ELSE map[r]]

\* Variant with a bug: the row of the last use is taken back too.
ReleasedFromLastUse(counts, map, dst, i) ==
    [j \in DOMAIN counts |->
        LET n == Cardinality({r \in dst \intersect DOMAIN map : map[r] <= j /\ j < i})
        IN  IF n > counts[j] THEN 0 ELSE counts[j] - n]

\* Each register written in row i was free after its last use and before i;
\* a count does not fall below zero.
Released(counts, map, dst, i) ==
    [j \in DOMAIN counts |->
        LET n == Cardinality({r \in dst \intersect DOMAIN map : map[r] < j /\ j < i})
        IN  IF n > counts[j] THEN 0 ELSE counts[j] - n]

CountRow ==
    /\ index <= Len(instrs)
    /\ LET roles == GetDstAndSrcRegister(instrs[index])
           read == Used(registerWithIndex, roles.src, index)
       IN  /\ registerWithIndex' = Used(read, roles.dst, index)
           /\ gprCount' = Append(Released(gprCount, read, roles.dst, index),
                                 Cardinality(DOMAIN registerWithIndex'))
    /\ index' = index + 1
    /\ UNCHANGED instrs

\* After the last row every register counts as overwritten.
ReleaseLast ==
    /\ index = Len(instrs) + 1
    /\ gprCount' = Released(gprCount, registerWithIndex, DOMAIN registerWithIndex, index)
    /\ registerWithIndex' = Used(registerWithIndex, DOMAIN registerWithIndex, index)
    /\ index' = index + 1
    /\ UNCHANGED instrs

LiveNext == CountRow \/ ReleaseLast

LiveSpec == LiveInit /\ [][LiveNext]_liveVars

-----------------------------------------------------------------------------
\* What the rows read and write: LD4 writes four consecutive registers.
Writes(i) ==
    IF instrs[i].ld4
      THEN IF instrs[i].regs = <<>> THEN {} ELSE {(instrs[i].regs[1] + k) % RegisterLimit : k \in 0..3}
      ELSE {instrs[i].regs[p] : p \in instrs[i].dstLoc \intersect DOMAIN instrs[i].regs}
Reads(i) ==
    {instrs[i].regs[p] : p \in DOMAIN instrs[i].regs \ (IF instrs[i].ld4 THEN {1} ELSE instrs[i].dstLoc)}

\* Register r holds a value at row i that is used there, or was before and
\* is read again before it is written.
Occupied(r, i) ==
    \/ r \in Reads(i) \union Writes(i)
    \/ /\ \E h \in 1..(i - 1) : r \in Reads(h) \union Writes(h)
       /\ \E k \in (i + 1)..Len(instrs) :
              /\ r \in Reads(k)
              /\ \A j \in (i + 1)..(k - 1) : r \notin Writes(j)

CountsExact ==
    index > Len(instrs) + 1 =>
        \A i \in DOMAIN instrs : gprCount[i] = Cardinality({r \in Registers : Occupied(r, i)})

\* The count of a row is the number of registers occupied there, although
\* the calculator goes through the table once and only corrects earlier
\* counts when a register is written again.  Tables without LD4.
LiveCountsExact == (\A i \in DOMAIN instrs : ~instrs[i].ld4) => CountsExact

\* Row x writes r without reading it, and r is not used from row i on to x.
Free(r, i) ==
    \E x \in (i + 1)..Len(instrs) :
        /\ r \in Writes(x) \ Reads(x)
        /\ \A j \in i..(x - 1) : r \notin Reads(j) \union Writes(j)

\* architecture.md of the repository: a register that row x only writes and
\* row y used before counts as released for the rows from y+1 to x-1, so no
\* count exceeds the registers used so far that are not released.  The rows
\* may include LD4.
ReleasedBeforeWrite ==
    index > Len(instrs) + 1 =>
        \A i \in DOMAIN instrs :
            gprCount[i] <= Cardinality({r \in Registers :
                               ~Free(r, i) /\ \E h \in 1..i : r \in Reads(h) \union Writes(h)})
=============================================================================
