------------------------------- MODULE Hotspot -------------------------------
(***************************************************************************)
(* The hot spots of a kernel on the device (HotSpotFunctionGenerator): how *)
(* often each instruction and each line of source ran, what it moved and   *)
(* where it waited.  The counts are those of basic blocks: an instrumented *)
(* copy of the kernel counts them, a tool joins them with the map of       *)
(* blocks, a symbolizer names the lines of an address, innermost first.    *)
(* Tool, symbolizer and disassembler are outside this repository: bbbmap,  *)
(* fdata and Symbols say what they give for a kernel.                      *)
(*   A kernel: functions with a start and blocks, from the address of      *)
(* their first to that of their last instruction and with the counts of    *)
(* several runs of it.  JSON, GPR counts and percentages are left out.     *)
(***************************************************************************)
EXTENDS Integers, Sequences, FiniteSets, FiniteSetsExt, SequencesExt, Functions, TLC

CONSTANT HotKernels      \* the kernels enumerated, with what was measured of them

INSTR_SIZE == 4
PC_ADDR_ESS_GAP == 4
NoLine == [file |-> "none", line |-> 0]
GM == "GM"

VARIABLES
    hot,               \* the kernel and its measurements
    hotStep,           \* the next step of Process, or how it ended
    sourceEnable, pcSamplingEnable,
    bbCalls,           \* per first address of a block [end, calls]
    kernelStartAddr,   \* per function its start
    kernelRange,       \* per function of interest [begin, end] of its blocks
    encodings,         \* per address of an instruction what is known of it
    fileLineCalls,     \* per line of source its executions
    line2Encodings,    \* per line of source the addresses of its instructions
    topStallReason,    \* the samples of all instructions
    codeLines          \* per line that is shown its sums

hotVars == <<hot, hotStep, sourceEnable, pcSamplingEnable, bbCalls, kernelStartAddr, kernelRange,
             encodings, fileLineCalls, line2Encodings, topStallReason, codeLines>>

HotInit ==
    /\ hot \in HotKernels
    /\ hotStep = "extract"
    /\ sourceEnable = hot.source
    /\ pcSamplingEnable = hot.sampling
    /\ bbCalls = <<>> /\ kernelStartAddr = <<>> /\ kernelRange = <<>>
    /\ encodings = <<>> /\ fileLineCalls = <<>> /\ line2Encodings = <<>>
    /\ topStallReason = 0
    /\ codeLines = <<>>

At(f, x, default) == IF x \in DOMAIN f THEN f[x] ELSE default
IsObjKernel(name) == hot.kernelName = {} \/ name \in hot.kernelName

-----------------------------------------------------------------------------
(* What the tools give.                                                    *)

\* The map of blocks: per function its name, start and blocks; a line of
\* another kind before each function, or before the first one only.
bbbmap ==
    FlattenSeq([i \in DOMAIN hot.functions |->
        LET f == hot.functions[i]
        IN  (IF i = 1 \/ hot.header THEN <<[row |-> "other"]>> ELSE <<>>)
            \o <<[row |-> "function", name |-> f.name], [row |-> "start", addr |-> f.start]>>
            \o [k \in DOMAIN f.blocks |->
                   [row |-> "block", begin |-> f.blocks[k].begin, end |-> f.blocks[k].end]]])

\* The counts: a row for every block and every run of the kernel.
fdata ==
    FlattenSeq([i \in DOMAIN hot.functions |->
        FlattenSeq([k \in DOMAIN hot.functions[i].blocks |->
            [r \in DOMAIN hot.functions[i].blocks[k].runs |->
                [name |-> hot.functions[i].name, begin |-> hot.functions[i].blocks[k].begin,
                 calls |-> hot.functions[i].blocks[k].runs[r]]]])])

\* The lines of the addresses asked for, an address with several lines where
\* a function is inlined.
Symbols(addrs) == SelectSeq(hot.symbols, LAMBDA symbol : symbol.addr \in addrs)

-----------------------------------------------------------------------------
(* ExtractData.                                                            *)

\* The blocks of a function at their addresses, not counted yet.
MatchBbbId(calls, start, blocks) ==
    FoldLeft(LAMBDA c, b : (start + b.begin :> [end |-> start + b.end, calls |-> 0]) @@ c, calls, blocks)

\* Where the blocks that follow a start end.
BlocksFrom(rows, i) ==
    LET others == {k \in i..Len(rows) : rows[k].row # "block"}
    IN  SubSeq(rows, i, IF others = {} THEN Len(rows) ELSE Min(others) - 1)

\* A turn of the loop of UpdateBBBMap.  Behind the blocks of a function one
\* line is passed over whatever it is.
MapRow(rows, acc, i) ==
    IF \/ i < acc.next \/ rows[i].row # "function"
       \/ i + 2 > Len(rows) \/ rows[i + 1].row # "start" THEN acc
    ELSE
    LET name == rows[i].name
        start == rows[i + 1].addr
        blocks == BlocksFrom(rows, i + 2)
        began == [acc EXCEPT !.starts = (name :> start) @@ @]
    IN  IF blocks = <<>> THEN began
        ELSE IF ~IsObjKernel(name) THEN [began EXCEPT !.next = i + 2 + Len(blocks) + 1]
        ELSE [began EXCEPT
                !.next = i + 2 + Len(blocks) + 1,
                !.calls = MatchBbbId(@, start, blocks),
                !.ranges = (name :> [begin |-> start + Min({blocks[k].begin : k \in DOMAIN blocks}),
                                     end |-> start + Max({blocks[k].end : k \in DOMAIN blocks})]) @@ @]

UpdateBBBMap ==
    LET rows == bbbmap
    IN  FoldLeft(LAMBDA acc, i : MapRow(rows, acc, i),
                 [next |-> 1, starts |-> <<>>, ranges |-> <<>>, calls |-> <<>>], [i \in DOMAIN rows |-> i])

\* The counts of all rows of a block are added up.  A function the map did not
\* show is taken to start at 0.
GenBBCalls(starts, calls) ==
    FoldLeft(LAMBDA c, row :
                LET begin == At(starts, row.name, 0) + row.begin
                    block == At(c, begin, [end |-> 0, calls |-> 0])
                IN  IF IsObjKernel(row.name) THEN (begin :> [block EXCEPT !.calls = @ + row.calls]) @@ c ELSE c,
             calls, fdata)

\* Without the map or the counts there is no source, and nothing at all
\* unless samples were taken.
ExtractData ==
    /\ hotStep = "extract"
    /\ LET map == UpdateBBBMap
           mapped == sourceEnable /\ hot.mapReadable
           counted == mapped /\ hot.tuned
       IN  /\ kernelStartAddr' = IF mapped THEN map.starts ELSE <<>>
           /\ kernelRange' = IF mapped THEN map.ranges ELSE <<>>
           /\ bbCalls' = IF counted THEN GenBBCalls(map.starts, map.calls)
                         ELSE IF mapped THEN map.calls ELSE <<>>
           /\ sourceEnable' = counted
           /\ hotStep' = IF sourceEnable /\ ~counted /\ ~pcSamplingEnable THEN "failed" ELSE "calculate"
    /\ UNCHANGED <<hot, pcSamplingEnable, encodings, fileLineCalls, line2Encodings, topStallReason, codeLines>>

-----------------------------------------------------------------------------
(* CalculateData.                                                          *)

IsObjKernelPcAddr(pc) ==
    \/ hot.kernelName = {}
    \/ \E name \in hot.kernelName \intersect DOMAIN kernelRange :
           kernelRange[name].begin <= pc /\ pc <= kernelRange[name].end

\* The instructions of the functions of interest, with their accesses to the
\* cache; then the samples of those that are known, and the bytes between
\* them and the GM, the source first.  A sample holds an address from bit 3 on
\* (startPc without the bits a sample does not have).  One count stands for
\* those of all reasons.
PcOfSample(sample) == sample.pc8 * 8 - hot.startPc - hot.pcOffset
BytesOf(record) ==
    IF record.src = GM THEN record.srcMemSize ELSE IF record.dst = GM THEN record.dstMemSize ELSE 0
SumOver(s, Of(_)) == FoldLeft(LAMBDA n, x : n + Of(x), 0, s)

ProcessEncoding ==
    LET samplesOf(pc) == SelectSeq(hot.samples, LAMBDA s : PcOfSample(s) = pc)
        recordsOf(pc) == SelectSeq(hot.memoryRecords, LAMBDA r : r.pc = pc)
    IN  [pc \in {p \in hot.instrs : IsObjKernelPcAddr(p)} |->
            [cceCode |-> NoLine, calls |-> 0,
             miss |-> IF hot.chip = "950" THEN 0 ELSE At(hot.misses, pc, 0),
             pcSampling |-> IF pcSamplingEnable THEN SumOver(samplesOf(pc), LAMBDA s : s.count) ELSE 0,
             processBytes |-> IF hot.memdetail THEN SumOver(recordsOf(pc), BytesOf) ELSE 0]]

ProcessEncodings ==
    /\ hotStep = "calculate"
    /\ encodings' = ProcessEncoding
    /\ topStallReason' = MapThenSumSet(LAMBDA pc : encodings'[pc].pcSampling, DOMAIN encodings')
    /\ pcSamplingEnable' = (pcSamplingEnable /\ hot.samples # <<>>)
    /\ hotStep' = "lines"
    /\ UNCHANGED <<hot, sourceEnable, bbCalls, kernelStartAddr, kernelRange, fileLineCalls, line2Encodings, codeLines>>

\* The addresses whose lines are asked for: those of the blocks in steps of
\* an instruction, unless a block is larger than the file; or all known ones.
addrVec ==
    IF hot.chip = "950" THEN DOMAIN encodings
    ELSE UNION {{begin + INSTR_SIZE * k : k \in 0..((bbCalls[begin].end - begin) \div INSTR_SIZE)} :
                   begin \in {b \in DOMAIN bbCalls : b <= bbCalls[b].end /\ bbCalls[b].end - b <= hot.fileSize}}

\* The count of the last block that begins at an address or before, none
\* behind the last block of all.
CallsAt(addr) ==
    LET before == {begin \in DOMAIN bbCalls : begin <= addr}
    IN  IF before = {} \/ addr > bbCalls[Max(DOMAIN bbCalls)].end + INSTR_SIZE THEN 0
        ELSE bbCalls[Max(before)].calls

\* Variant with a bug: an address with one line twice counts twice.
AddLineAgain(acc, symbol) ==
    LET line == [file |-> symbol.file, line |-> symbol.line]
        pcs == At(acc.pcs, line, {})
        call == IF sourceEnable THEN CallsAt(symbol.addr) ELSE 0
    IN  IF acc.failed \/ symbol.file = "ascend-toolkit" THEN acc
        ELSE IF symbol.addr \notin DOMAIN encodings THEN [acc EXCEPT !.failed = TRUE]
        ELSE [acc EXCEPT
                !.pcs = (line :> pcs \union {symbol.addr}) @@ @,
                !.calls = (line :> At(@, line, 0) + call) @@ @,
                !.encodings[symbol.addr].calls = call,
                !.encodings[symbol.addr].cceCode = IF @ = NoLine THEN line ELSE @]

\* A turn of the loop of GenAddr2Lines.  An address nobody knows ends it.
AddLine(acc, symbol) ==
    LET line == [file |-> symbol.file, line |-> symbol.line]
        pcs == At(acc.pcs, line, {})
        call == IF sourceEnable THEN CallsAt(symbol.addr) ELSE 0
    IN  IF acc.failed \/ symbol.file = "ascend-toolkit" THEN acc
        ELSE IF symbol.addr \notin DOMAIN encodings THEN [acc EXCEPT !.failed = TRUE]
        ELSE IF symbol.addr \in pcs THEN acc
        ELSE [acc EXCEPT
                !.pcs = (line :> pcs \union {symbol.addr}) @@ @,
                !.calls = (line :> At(@, line, 0) + call) @@ @,
                !.encodings[symbol.addr].calls = call,
                !.encodings[symbol.addr].cceCode = IF @ = NoLine THEN line ELSE @]

GenLine2Encodings ==
    /\ hotStep = "lines"
    /\ LET lines == FoldLeft(AddLine, [failed |-> FALSE, pcs |-> <<>>, calls |-> <<>>, encodings |-> encodings],
                             Symbols(addrVec))
       IN  /\ hotStep' = IF lines.failed THEN "failed"
                         ELSE IF sourceEnable \/ pcSamplingEnable THEN "visualize" ELSE "nothing"
           /\ line2Encodings' = IF lines.failed THEN <<>> ELSE lines.pcs
           /\ fileLineCalls' = lines.calls
           /\ encodings' = lines.encodings
    /\ UNCHANGED <<hot, sourceEnable, pcSamplingEnable, bbCalls, kernelStartAddr, kernelRange, topStallReason, codeLines>>

-----------------------------------------------------------------------------
(* VisualizeData.                                                          *)

Ascending[addrs \in SUBSET Nat] ==
    IF addrs = {} THEN <<>> ELSE <<Min(addrs)>> \o Ascending[addrs \ {Min(addrs)}]

\* Addresses that follow each other make a range.
MergeAddrRange(addrs) ==
    FoldLeft(LAMBDA ranges, pc :
                IF ranges # <<>> /\ pc - Last(ranges)[2] <= PC_ADDR_ESS_GAP
                  THEN Front(ranges) \o <<<<Last(ranges)[1], pc>>>>
                  ELSE Append(ranges, <<pc, pc>>),
             <<>>, Ascending[addrs])

\* The sums of the instructions of a line.
GenCodeLine(line) ==
    LET pcs == line2Encodings[line]
        total(Of(_)) == MapThenSumSet(Of, pcs)
    IN  [callCount |-> fileLineCalls[line],
         miss |-> total(LAMBDA pc : encodings[pc].miss),
         processBytes |-> total(LAMBDA pc : encodings[pc].processBytes),
         pcSampling |-> total(LAMBDA pc : encodings[pc].pcSampling),
         addrRange |-> MergeAddrRange(pcs)]

\* Lines of files that cannot be read are not shown; without instructions
\* nothing is.
VisualizeData ==
    /\ hotStep = "visualize"
    /\ codeLines' = [line \in {l \in DOMAIN line2Encodings : l.file \in hot.readable} |-> GenCodeLine(line)]
    /\ hotStep' = IF encodings = <<>> THEN "failed" ELSE "shown"
    /\ UNCHANGED <<hot, sourceEnable, pcSamplingEnable, bbCalls, kernelStartAddr, kernelRange, encodings,
                   fileLineCalls, line2Encodings, topStallReason>>

HotNext == ExtractData \/ ProcessEncodings \/ GenLine2Encodings \/ VisualizeData

HotSpec == HotInit /\ [][HotNext]_hotVars

-----------------------------------------------------------------------------
\* Every function is in the map of blocks that is read: one whose name follows
\* the blocks of another one at once is passed over.  No block is larger than
\* the file that holds it.
AllMapped ==
    /\ hot.header \/ Len(hot.functions) = 1
    /\ \A i \in DOMAIN hot.functions : \A k \in DOMAIN hot.functions[i].blocks :
           hot.functions[i].blocks[k].end - hot.functions[i].blocks[k].begin <= hot.fileSize

\* The blocks of the functions of interest an address lies in, and how often
\* they ran in all runs.
BlocksAt(addr) ==
    UNION {{<<i, k>> : k \in {b \in DOMAIN hot.functions[i].blocks :
                  /\ hot.functions[i].start + hot.functions[i].blocks[b].begin <= addr
                  /\ addr <= hot.functions[i].start + hot.functions[i].blocks[b].end}} :
              i \in {f \in DOMAIN hot.functions : IsObjKernel(hot.functions[f].name)}}
RunsAt(addr) ==
    LET at == CHOOSE x \in BlocksAt(addr) : TRUE
    IN  SumOver(hot.functions[at[1]].blocks[at[2]].runs, LAMBDA n : n)

\* The instructions of a line, by the symbols alone.
PcsOf(line) ==
    {hot.symbols[i].addr : i \in {k \in DOMAIN hot.symbols :
        hot.symbols[k].file = line.file /\ hot.symbols[k].line = line.line}} \intersect DOMAIN encodings

(* What is shown adds up: an instruction with a line ran as often as its   *)
(* block in all runs, a line as often as its instructions together, each   *)
(* once however often it is named; the samples and the bytes of a line are *)
(* those measured at its instructions, its ranges hold these and no others *)
(* and lie apart; the figure of stalls holds the samples of all            *)
(* instructions shown, and these are of the functions of interest only.    *)
HotspotAddsUp ==
    hotStep = "shown" /\ AllMapped =>
        /\ \A pc \in DOMAIN encodings :
               /\ sourceEnable /\ encodings[pc].cceCode # NoLine /\ BlocksAt(pc) # {}
                      => encodings[pc].calls = RunsAt(pc)
               /\ hot.kernelName # {} =>
                      \E i \in DOMAIN hot.functions :
                          /\ hot.functions[i].name \in hot.kernelName
                          /\ \E a, b \in DOMAIN hot.functions[i].blocks :
                                 /\ hot.functions[i].start + hot.functions[i].blocks[a].begin <= pc
                                 /\ pc <= hot.functions[i].start + hot.functions[i].blocks[b].end
        /\ \A line \in DOMAIN codeLines :
               LET pcs == IF hot.chip = "950" THEN PcsOf(line)
                          ELSE {pc \in PcsOf(line) : BlocksAt(pc) # {}}
                   shown == codeLines[line]
               IN  /\ sourceEnable /\ (\A pc \in pcs : BlocksAt(pc) # {})
                          => shown.callCount = MapThenSumSet(RunsAt, pcs)
                   /\ hot.memdetail =>
                          shown.processBytes =
                              SumOver(SelectSeq(hot.memoryRecords, LAMBDA r : r.pc \in pcs), BytesOf)
                   /\ hot.sampling =>
                          shown.pcSampling =
                              SumOver(SelectSeq(hot.samples, LAMBDA s : PcOfSample(s) \in pcs), LAMBDA s : s.count)
                   /\ pcs = {pc \in DOMAIN encodings :
                                \E i \in DOMAIN shown.addrRange :
                                    shown.addrRange[i][1] <= pc /\ pc <= shown.addrRange[i][2]}
                   /\ \A i \in 1..(Len(shown.addrRange) - 1) :
                          shown.addrRange[i][2] + PC_ADDR_ESS_GAP < shown.addrRange[i + 1][1]
        /\ hot.sampling =>
               topStallReason =
                   SumOver(SelectSeq(hot.samples, LAMBDA s : PcOfSample(s) \in DOMAIN encodings), LAMBDA s : s.count)
=============================================================================
