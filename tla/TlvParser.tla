------------------------------ MODULE TlvParser ------------------------------
(***************************************************************************)
(* The registers a kernel uses (TlvParser, GenTlvdata): a tool writes for  *)
(* every type of register the instructions with the registers each of them *)
(* uses, as nested entries of a tag, a length and a value; the parser      *)
(* checks the nesting and the counts, adds up the registers of an          *)
(* instruction and finds out over how many instructions on end a register  *)
(* is in use.                                                              *)
(*   A unit is four bytes: a tag, a type, or a register with what is done  *)
(* to it; numbers and lengths are two of them.  Lengths count units.  A    *)
(* function name is one unit.                                              *)
(***************************************************************************)
EXTENDS Integers, Sequences, FiniteSets, SequencesExt, TLC

CONSTANT
    TlvFiles,      \* the files enumerated, with the instructions known otherwise
    UnitBase,      \* 2^32
    IndexBase      \* 2^16: a unit holds the index of a register and what is done to it

HeadUnits == 3
NumberUnits == 2

RegLivenessTag == 0
RegTypeTag == 1
RegNumberTag == 2
InstNumTag == 3
FunctionNameNumTag == 4
FunctionNameListTag == 5
FunctionNameTag == 6
FunctionPositionStartIdxTag == 7
InstRecordListTag == 8
InstRecordListByRegTypeTag == 9
InstRecordTag == 10
AddressTag == 11
InstRecordRegTag == 12
NoTag == -1

VARIABLES
    tlvFile,              \* [data, whole, known]
    tlvStep,
    parsedRegLiveness,
    pcNumCount,           \* per address the registers in use
    gprStatus,            \* per address its registers, as recorded
    gprCount950,          \* per known address what is shown of it
    gprColumn             \* the column is shown

tlvVars == <<tlvFile, tlvStep, parsedRegLiveness, pcNumCount, gprStatus, gprCount950, gprColumn>>

\* RegLiveness{}, which is ok until something is wrong.
NothingParsed ==
    [ok |-> TRUE, regType |-> <<>>, regNumber |-> <<>>, instNum |-> 0, functionNameNum |-> 0,
     functionNameList |-> <<>>, functionPositionStartIdx |-> <<>>, instRecordList |-> <<>>]

TlvInit ==
    /\ tlvFile \in TlvFiles
    /\ tlvStep = "parse"
    /\ parsedRegLiveness = NothingParsed
    /\ pcNumCount = <<>> /\ gprStatus = <<>>
    /\ gprCount950 = <<>> /\ gprColumn = TRUE

-----------------------------------------------------------------------------
(* What the tool writes for a liveness.                                    *)
Entry(tag, value) == <<tag, Len(value) % UnitBase, Len(value) \div UnitBase>> \o value
Written(number) == <<number % UnitBase, number \div UnitBase>>
WrittenAll(numbers) == FlattenSeq([i \in DOMAIN numbers |-> Written(numbers[i])])

RecordOf(inst) ==
    Entry(InstRecordTag, Entry(AddressTag, Written(inst.address)) \o Entry(InstRecordRegTag, inst.regRecord))
GroupOf(insts) ==
    Entry(InstRecordListByRegTypeTag, FlattenSeq([i \in DOMAIN insts |-> RecordOf(insts[i])]))

Sections(live) ==
    <<Entry(RegTypeTag, live.regType),
      Entry(RegNumberTag, WrittenAll(live.regNumber)),
      Entry(InstNumTag, Written(live.instNum)),
      Entry(FunctionNameNumTag, Written(live.functionNameNum)),
      Entry(FunctionNameListTag,
            FlattenSeq([i \in DOMAIN live.functionNameList |-> Entry(FunctionNameTag, <<live.functionNameList[i]>>)])),
      Entry(FunctionPositionStartIdxTag, WrittenAll(live.functionPositionStartIdx)),
      Entry(InstRecordListTag,
            FlattenSeq([i \in DOMAIN live.instRecordList |-> GroupOf(live.instRecordList[i])]))>>
Lrm(live) == Entry(RegLivenessTag, FlattenSeq(Sections(live)))

-----------------------------------------------------------------------------
(* ParseStream.                                                            *)

NumberAt(data, offset) == data[offset + 1] + UnitBase * data[offset + 2]

\* The entries between two places (ReadTlvHeader in a loop); the last one has
\* no tag if its head or value does not fit.  Lengths so large that offset +
\* outLength wraps in 64 bits are left out.
Entries(data, from, end) ==
    LET from_[offset \in 0..end] ==
            IF offset = end THEN <<>>
            ELSE IF \/ offset + HeadUnits > end
                    \/ offset + HeadUnits + NumberAt(data, offset + 1) > end
              THEN <<[tag |-> NoTag, begin |-> offset, end |-> end]>>
            ELSE LET value == offset + HeadUnits
                     next == value + NumberAt(data, offset + 1)
                 IN  <<[tag |-> data[offset + 1], begin |-> value, end |-> next]>> \o from_[next]
    IN  from_[from]

\* The values of an entry that is a list of units or of numbers.
Units(data, e) == SubSeq(data, e.begin + 1, e.end)
WholeNumbers(e) == (e.end - e.begin) % NumberUnits = 0
Numbers(data, e) ==
    [i \in 1..((e.end - e.begin) \div NumberUnits) |-> NumberAt(data, e.begin + NumberUnits * (i - 1))]
IsNumber(e) == e.end - e.begin = NumberUnits

\* One instruction; its parts may come in any order, be missing, or be there
\* twice.
InstRecord(data, e) ==
    FoldLeft(LAMBDA inst, part :
                IF part.tag = AddressTag /\ IsNumber(part) THEN [inst EXCEPT !.address = NumberAt(data, part.begin)]
                ELSE IF part.tag = InstRecordRegTag THEN [inst EXCEPT !.regRecord = Units(data, part)]
                ELSE [inst EXCEPT !.ok = FALSE],
             [ok |-> TRUE, address |-> 0, regRecord |-> <<>>],
             Entries(data, e.begin, e.end))

InstRecordsByType(data, e) ==
    LET insts == Entries(data, e.begin, e.end)
    IN  [i \in DOMAIN insts |->
            IF insts[i].tag = InstRecordTag THEN InstRecord(data, insts[i])
            ELSE [ok |-> FALSE, address |-> 0, regRecord |-> <<>>]]

\* All groups name the same addresses.  instNum may be more than a group has
\* only if there is no group.
ValidatePcAddressConsistency(groups, instNum) ==
    /\ groups # <<>>
    /\ \A pc \in 1..instNum : \A type \in DOMAIN groups : groups[type][pc].address = groups[1][pc].address

ParseInstRecordListTag(live, data, e) ==
    LET types == Entries(data, e.begin, e.end)
        groups == [i \in DOMAIN types |-> InstRecordsByType(data, types[i])]
        ok == /\ \A i \in DOMAIN types :
                     /\ types[i].tag = InstRecordListByRegTypeTag
                     /\ \A k \in DOMAIN groups[i] : groups[i][k].ok
                     /\ Len(groups[i]) = live.instNum
              /\ Len(groups) = Len(live.regType)
              /\ ValidatePcAddressConsistency(groups, live.instNum)
    IN  IF ok THEN [live EXCEPT !.instRecordList = groups] ELSE [live EXCEPT !.ok = FALSE]

\* An empty name, and a list whose length is not the number told before, are
\* refused.
ParseFunctionNameListTag(live, data, e) ==
    LET names == Entries(data, e.begin, e.end)
        ok == /\ \A i \in DOMAIN names : names[i].tag = FunctionNameTag /\ names[i].begin < names[i].end
              /\ Len(names) = live.functionNameNum
    IN  IF ok THEN [live EXCEPT !.functionNameList = [i \in DOMAIN names |-> Units(data, names[i])]]
        ELSE [live EXCEPT !.ok = FALSE]

\* One entry of the file.  The counts are compared with what was read before.
ParseRegLivenessTag(live, data, e) ==
    CASE ~live.ok -> live
      [] e.tag = RegTypeTag -> [live EXCEPT !.regType = Units(data, e)]
      [] e.tag = RegNumberTag /\ WholeNumbers(e) /\ Len(Numbers(data, e)) = Len(live.regType) ->
             [live EXCEPT !.regNumber = Numbers(data, e)]
      [] e.tag = InstNumTag /\ IsNumber(e) -> [live EXCEPT !.instNum = NumberAt(data, e.begin)]
      [] e.tag = FunctionNameNumTag /\ IsNumber(e) -> [live EXCEPT !.functionNameNum = NumberAt(data, e.begin)]
      [] e.tag = FunctionNameListTag -> ParseFunctionNameListTag(live, data, e)
      [] e.tag = FunctionPositionStartIdxTag /\ WholeNumbers(e) /\ Len(Numbers(data, e)) = live.functionNameNum ->
             [live EXCEPT !.functionPositionStartIdx = Numbers(data, e)]
      [] e.tag = InstRecordListTag -> ParseInstRecordListTag(live, data, e)
      [] OTHER -> [live EXCEPT !.ok = FALSE]

\* The file is one entry, from its first to its last unit.
Parsed(data) ==
    LET top == Entries(data, 0, Len(data))
    IN  IF Len(top) # 1 \/ top[1].tag # RegLivenessTag THEN [NothingParsed EXCEPT !.ok = FALSE]
        ELSE FoldLeft(LAMBDA live, e : ParseRegLivenessTag(live, data, e), NothingParsed,
                      Entries(data, top[1].begin, top[1].end))

ParseStream ==
    /\ tlvStep = "parse"
    /\ parsedRegLiveness' = Parsed(tlvFile.data)
    /\ tlvStep' = IF parsedRegLiveness'.ok THEN "count" ELSE "failed"
    /\ UNCHANGED <<tlvFile, pcNumCount, gprStatus, gprCount950, gprColumn>>

-----------------------------------------------------------------------------
(* CountPCNum.                                                             *)

RegName(type, record) == <<IF type \in 0..3 THEN type ELSE 4, record % IndexBase>>

\* The records of a register at an address are told how long it is in use.
UpdateRegStatus(status, addr, reg, survivalTime) ==
    [status EXCEPT ![addr] = [i \in DOMAIN @ |->
        IF @[i].reg = reg THEN [@[i] EXCEPT !.survivalTime = survivalTime] ELSE @[i]]]

\* Variant with a bug: a register that comes back makes its earlier use be
\* forgotten.
UseForgotten(acc, type, record, addr, index) ==
    LET reg == RegName(type, record)
        status == (addr :> Append(IF addr \in DOMAIN acc.status THEN acc.status[addr] ELSE <<>>,
                                  [reg |-> reg, operation |-> record \div IndexBase, survivalTime |-> 0]))
                      @@ acc.status
        again == reg \in DOMAIN acc.uses /\ acc.uses[reg].last + 1 = index
        use == IF again THEN [acc.uses[reg] EXCEPT !.last = index, !.survivalTime = @ + 1]
               ELSE [begin |-> addr, last |-> index, survivalTime |-> 1]
    IN  [acc EXCEPT !.uses = (reg :> use) @@ @, !.status = status]

\* A register is in use from an instruction on to the last of those that
\* follow it without a gap.
ProcessRegisterRecord(acc, type, record, addr, index) ==
    LET reg == RegName(type, record)
        status == (addr :> Append(IF addr \in DOMAIN acc.status THEN acc.status[addr] ELSE <<>>,
                                  [reg |-> reg, operation |-> record \div IndexBase, survivalTime |-> 0]))
                      @@ acc.status
        known == reg \in DOMAIN acc.uses
        again == known /\ acc.uses[reg].last + 1 = index
        use == IF again THEN [acc.uses[reg] EXCEPT !.last = index, !.survivalTime = @ + 1]
               ELSE [begin |-> addr, last |-> index, survivalTime |-> 1]
    IN  [acc EXCEPT
           !.uses = (reg :> use) @@ @,
           !.status = IF known /\ ~again
                      THEN UpdateRegStatus(status, acc.uses[reg].begin, reg, acc.uses[reg].survivalTime)
                      ELSE status]

ProcessPcGroup(acc, type, insts) ==
    LET ofInst(a, index) ==
            FoldLeft(LAMBDA x, record : ProcessRegisterRecord(x, type, record, insts[index].address, index),
                     [a EXCEPT !.count = (insts[index].address :>
                         Len(insts[index].regRecord)
                         + IF insts[index].address \in DOMAIN @ THEN @[insts[index].address] ELSE 0) @@ @],
                     insts[index].regRecord)
        all == FoldLeft(ofInst, [acc EXCEPT !.uses = <<>>], [index \in DOMAIN insts |-> index])
    IN  [all EXCEPT !.status =
            FoldLeft(LAMBDA status, reg :
                         UpdateRegStatus(status, all.uses[reg].begin, reg, all.uses[reg].survivalTime),
                     @, SetToSeq(DOMAIN all.uses))]

\* Without an instruction nothing is counted.
CountPCNum ==
    /\ tlvStep = "count"
    /\ LET groups == parsedRegLiveness.instRecordList
           counted == FoldLeft(LAMBDA acc, i : ProcessPcGroup(acc, parsedRegLiveness.regType[i], groups[i]),
                               [count |-> <<>>, status |-> <<>>, uses |-> <<>>], [i \in DOMAIN groups |-> i])
       IN  /\ pcNumCount' = counted.count
           /\ gprStatus' = counted.status
           /\ tlvStep' = IF counted.count = <<>> THEN "failed" ELSE "attach"
    /\ UNCHANGED <<tlvFile, parsedRegLiveness, gprCount950, gprColumn>>

\* What is counted goes to the instructions known otherwise; if none of these
\* has a register the column is left out.
GenTlvdata ==
    /\ tlvStep = "attach"
    /\ gprCount950' = [pc \in tlvFile.known \intersect DOMAIN pcNumCount |-> pcNumCount[pc]]
    /\ gprColumn' = \E pc \in DOMAIN gprCount950' : gprCount950'[pc] > 0
    /\ tlvStep' = "done"
    /\ UNCHANGED <<tlvFile, parsedRegLiveness, pcNumCount, gprStatus>>

TlvNext == ParseStream \/ CountPCNum \/ GenTlvdata

TlvSpec == TlvInit /\ [][TlvNext]_tlvVars

-----------------------------------------------------------------------------
\* The registers an instruction uses, per type, by the liveness itself.
UsedAt(live, type, index) ==
    {RegName(live.regType[type], record) : record \in Range(live.instRecordList[type][index].regRecord)}

\* Over how many instructions on end a register is in use from an index on, 0
\* if the instruction before uses it too.
InUseFrom(live, type, reg, index) ==
    IF index > 1 /\ reg \in UsedAt(live, type, index - 1) THEN 0
    ELSE CHOOSE n \in 1..(live.instNum - index + 1) :
             /\ \A k \in index..(index + n - 1) : reg \in UsedAt(live, type, k)
             /\ index + n <= live.instNum => reg \notin UsedAt(live, type, index + n)

(* A file that was written completely is read back, one that was cut off   *)
(* or goes on behind its entry is refused, and groups that are accepted     *)
(* agree with the rest: as many as types, as many instructions in each as   *)
(* told.                                                                   *)
(* Then an instruction has the registers of all types, and a register that  *)
(* comes into use is said to be for as many instructions as use it on end,  *)
(* once for every time it comes.  Types and addresses are told apart.       *)
LivenessRecovered ==
    LET live == tlvFile.live IN
    /\ tlvStep # "parse" /\ tlvFile.damage = "none" =>
           /\ parsedRegLiveness.ok
           /\ \A field \in {"regType", "regNumber", "instNum", "functionNameNum", "functionPositionStartIdx"} :
                  parsedRegLiveness[field] = live[field]
           /\ [g \in DOMAIN live.instRecordList |->
                  [i \in DOMAIN live.instRecordList[g] |->
                      [ok |-> TRUE, address |-> live.instRecordList[g][i].address,
                       regRecord |-> live.instRecordList[g][i].regRecord]]] = parsedRegLiveness.instRecordList
    /\ tlvStep # "parse" /\ tlvFile.damage = "length" => ~parsedRegLiveness.ok
    /\ tlvStep # "parse" /\ tlvFile.damage = "unit" /\ parsedRegLiveness.instRecordList # <<>> =>
           /\ Len(parsedRegLiveness.instRecordList) = Len(parsedRegLiveness.regType)
           /\ \A g \in DOMAIN parsedRegLiveness.instRecordList :
                  Len(parsedRegLiveness.instRecordList[g]) = parsedRegLiveness.instNum
    /\ tlvStep = "done" /\ tlvFile.damage = "none" =>
           \A index \in 1..live.instNum :
               LET pc == live.instRecordList[1][index].address
                   of == IF pc \in DOMAIN gprStatus THEN gprStatus[pc] ELSE <<>>
               IN  /\ Len(of) = pcNumCount[pc]
                   /\ pc \in tlvFile.known => gprCount950[pc] = Len(of)
                   /\ {of[i].reg : i \in DOMAIN of} = UNION {UsedAt(live, g, index) : g \in DOMAIN live.regType}
                   /\ \A g \in DOMAIN live.regType : \A i \in DOMAIN of :
                          of[i].reg \in UsedAt(live, g, index) =>
                              of[i].survivalTime = InUseFrom(live, g, of[i].reg, index)
=============================================================================
