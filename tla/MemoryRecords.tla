---------------------------- MODULE MemoryRecords ----------------------------
(***************************************************************************)
(* ParseMemoryChart of DBIParser: one packet of an instrumented kernel     *)
(* becomes a list of memory accesses.  A packet announces a number of      *)
(* records; each has a header with a magic word and a type, and a body     *)
(* whose parser turns the operands of one instruction into the accesses    *)
(* the instruction made.  Module DBIParser has the locks around this.      *)
(*                                                                         *)
(* Lengths in the packet are units: a header is one, a body BodyLen.       *)
(* Addresses and sizes are bytes and stay below 2^64, where the code       *)
(* saturates.  Names of memories other than GM and UB, program counters    *)
(* and block numbers and the N dimensional DMA are left out.               *)
(***************************************************************************)
EXTENDS Integers, Sequences, FiniteSets, SequencesExt

CONSTANTS BodyLen,   \* units of the body of a record
          Packets    \* packets enumerated: [count, records, length], length being
                     \* the units of the message behind the packet's header

ASSUME BodyLenAssumption == BodyLen \in Nat \ {0}

VARIABLES packet, msgIndex, processedCount, processed, failed, errors, memoryRecords,
          tallied

dbiVars == <<packet, msgIndex, processedCount, processed, failed, errors, memoryRecords,
             tallied>>

MovLocalBlockSize == 32
Load2dMovSize == 512
BitsEachByte == 8

Errors == {"invalidDataCount", "memoryCorruption", "invalidRecordType", "outOfBoundsRead",
           "invalidParam"}

AlignToCeil(value, align) == ((value + align - 1) \div align) * align
AlignUp(value, align) == (value + align - 1) \div align
(* abs of 16 bits read as a signed number *)
Absolute(stride) == IF stride >= 2^15 THEN 2^16 - stride ELSE stride

MemRecord(srcAddr, srcMemSize, dstAddr, dstMemSize) ==
    [srcAddr |-> srcAddr, srcMemSize |-> srcMemSize, dstAddr |-> dstAddr, dstMemSize |-> dstMemSize]
-----------------------------------------------------------------------------
(* Bursts of equal lengths with gaps between them *)

Bursts(r, srcLen, srcGap, dstLen, dstGap) ==
    [n \in 1..r.nBurst |-> MemRecord(r.src + (n - 1) * (srcLen + srcGap), srcLen,
                                     r.dst + (n - 1) * (dstLen + dstGap), dstLen)]

BlockBursts(r) ==
    LET len == r.lenBurst * MovLocalBlockSize
    IN Bursts(r, len, r.srcStride * MovLocalBlockSize, len, r.dstStride * MovLocalBlockSize)

ByteBursts(r) ==
    Bursts(r, AlignToCeil(r.lenBurst, MovLocalBlockSize), r.srcStride * MovLocalBlockSize,
           r.lenBurst, r.dstStride * MovLocalBlockSize)

(* Padded bursts leave one access: of the spread side only the last burst. *)
CalcPadModeSize(r) ==
    LET scale == CASE r.padMode = 1 -> 32 [] r.padMode = 2 -> 16 [] r.padMode \in {3, 6} -> 8
                   [] r.padMode \in {4, 7} -> 4 [] r.padMode \in {5, 8} -> 2
    IN r.nBurst * (MovLocalBlockSize \div scale)

PaddedBursts(r) ==
    LET lastBlock(stride) == (r.nBurst - 1) * (1 + stride) * MovLocalBlockSize
    IN IF r.padMode <= 5
       THEN <<MemRecord(r.src, CalcPadModeSize(r), r.dst + lastBlock(r.dstStride), MovLocalBlockSize)>>
       ELSE <<MemRecord(r.src + lastBlock(r.srcStride), MovLocalBlockSize, r.dst, CalcPadModeSize(r))>>

DmaMov(r) ==
    IF r.byteMode THEN ByteBursts(r)
    ELSE IF r.padMode # 0 THEN PaddedBursts(r) ELSE BlockBursts(r)

MovV2(r) == IF r.padMode # 0 THEN PaddedBursts(r) ELSE BlockBursts(r)

(* The GM side counts bytes, the other side blocks. *)
MovAlign(r) ==
    LET padding == ((r.leftPaddingNum + r.rightPaddingNum) * r.bits) \div BitsEachByte
    IN Bursts(r,
           IF r.srcMemType = "GM" THEN r.lenBurst ELSE AlignToCeil(r.lenBurst, MovLocalBlockSize),
           IF r.srcMemType = "GM" THEN r.srcStride ELSE r.srcStride * MovLocalBlockSize,
           IF r.dstMemType = "GM" THEN r.lenBurst
                                  ELSE AlignToCeil(r.lenBurst + padding, MovLocalBlockSize),
           IF r.dstMemType = "GM" THEN r.dstStride ELSE r.dstStride * MovLocalBlockSize)

(* Bursts that follow each other without a gap in UB are one. *)
Compact(r) ==
    \/ r.dstMemType = "UB" /\ r.dstStride = r.lenBurst
    \/ r.dstMemType = "GM" /\ r.srcStride = r.lenBurst

(* variant with a bug: the bursts that became one are still repeated *)
CompactRepeats(r) ==
    [size |-> IF Compact(r) THEN r.lenBurst * r.nBurst ELSE r.lenBurst, nBurst |-> r.nBurst]

MovAlignV2Burst(r) ==
    IF Compact(r) THEN [size |-> r.lenBurst * r.nBurst, nBurst |-> 1]
                  ELSE [size |-> r.lenBurst, nBurst |-> r.nBurst]

(* One side counts the bytes of a burst, UB whole blocks; between other    *)
(* memories the sizes stay 0.                                              *)
MovAlignV2(r) ==
    LET loops == r.loop1Size >= 1 /\ r.loop2Size >= 1
        padding == IF loops THEN 0 ELSE r.leftPaddingNum + r.rightPaddingNum
        burst == MovAlignV2Burst(r)
        blocks == AlignToCeil(burst.size + padding, MovLocalBlockSize)
        inner == IF loops THEN r.loop1Size ELSE 1
        outer == IF loops THEN r.loop2Size ELSE 1
        offset(stride2, stride1, stride, n) ==
            (n % burst.nBurst) * stride
              + (IF loops THEN ((n \div burst.nBurst) % inner) * stride1
                                 + (n \div (burst.nBurst * inner)) * stride2
                          ELSE 0)
        srcSize == CASE r.dstMemType = "UB" -> burst.size
                     [] r.dstMemType = "GM" -> blocks
                     [] OTHER -> 0
        dstSize == CASE r.dstMemType = "UB" -> blocks
                     [] r.dstMemType = "GM" -> burst.size
                     [] OTHER -> 0
    IN [m \in 1..(outer * inner * burst.nBurst) |->
           MemRecord(r.src + offset(r.loop2SrcStride, r.loop1SrcStride, r.srcStride, m - 1), srcSize,
                     r.dst + offset(r.loop2DstStride, r.loop1DstStride, r.dstStride, m - 1), dstSize)]
-----------------------------------------------------------------------------
(* Fractals *)

Load2d(r) ==
    [n \in 1..r.repeat |->
        LET step == r.srcStride * (n - 1)
        IN MemRecord(r.src + (IF r.inc THEN r.baseIdx + step ELSE r.baseIdx - step) * Load2dMovSize,
                     Load2dMovSize, r.dst + r.dstStride * (n - 1) * Load2dMovSize, Load2dMovSize)]

Load2dTranspose(r) ==
    [n \in 1..r.repeat |->
        MemRecord(r.src + (r.baseIdx + r.srcStride * (n - 1)) * Load2dMovSize,
                  Load2dMovSize * r.srcStride,
                  r.dst + r.dstStride * (n - 1) * Load2dMovSize, Load2dMovSize * r.dstStride)]

Load2dV2(r) ==
    LET size == r.mStep * r.kStep * Load2dMovSize
    IN <<MemRecord(r.src + (Absolute(r.srcStride) * r.kStartPos + r.mStartPos) * Load2dMovSize, size,
                   r.dst, size)>>

LoadMX2dV2(r) ==
    LET size == r.xStep * r.yStep * MovLocalBlockSize
    IN <<MemRecord(r.src + (r.srcStride * r.xStartPos + r.yStartPos) * MovLocalBlockSize, size,
                   r.dst, size)>>

SrcFracSize(decompMode) ==
    CASE decompMode \in {1, 4} -> 128 [] decompMode = 2 -> 192 [] decompMode = 3 -> 256
      [] OTHER -> 512

(* The start takes the stride as signed, the steps as unsigned. *)
Load2dV2Dec(r) ==
    LET frac == SrcFracSize(r.decompMode)
        start == r.kStartPos * Absolute(r.srcStride) + r.mStartPos
        k(n) == (n - 1) \div r.mStep
        m(n) == (n - 1) % r.mStep
    IN [n \in 1..(r.kStep * r.mStep) |->
           MemRecord(r.src + (start + k(n) * r.srcStride + m(n)) * frac, frac,
                     r.dst + (k(n) * r.dstStride + m(n)) * Load2dMovSize, Load2dMovSize)]

Set2d(r) ==
    LET size == (r.blockNum + r.repeatGap) * MovLocalBlockSize
    IN [n \in 1..r.repeat |-> MemRecord(r.src, 0, r.dst + size * (n - 1), size)]

(* The rows of ndNum matrices, to fractals of 32 bytes. *)
Nd2nz(r) ==
    LET bytes(n) == (n * r.bits) \div BitsEachByte
    IN [n \in 1..(r.ndNum * r.nValue) |->
           MemRecord(r.src + bytes(r.srcNdMatrixStride * ((n - 1) \div r.nValue))
                        + bytes(r.srcDValue) * ((n - 1) % r.nValue), bytes(r.dValue), 0, 32)]

(* The same for the newer cores, from rows (ND) or from columns (DN). *)
NdOrDn2nzDav(r) ==
    LET isSrcNd == r.type = "DMA_MOV_ND2NZ_DAV"
        rows == IF isSrcNd THEN r.nValue ELSE r.dValue
        columns == IF isSrcNd THEN r.dValue ELSE r.nValue
        bytes == IF r.bits < BitsEachByte THEN 1 ELSE r.bits \div BitsEachByte
        dstSize == IF r.smallC0 THEN 4 * bytes ELSE AlignToCeil(rows * bytes, 32)
        dstStep == IF r.smallC0 THEN 4 * bytes ELSE r.loop2DstStride * 32
        h(n) == (n - 1) \div rows
        j(n) == (n - 1) % rows
    IN [n \in 1..(r.ndNum * rows) |->
           MemRecord(r.src + h(n) * r.loop4SrcStride + j(n) * r.loop1SrcStride, columns * bytes,
                     r.dst + h(n) * r.loop4DstStride * 32 + j(n) * dstStep, dstSize)]

(* A register and a memory; an atomic operation reads and writes. *)
IsLoadOperation(r) == r.simtType \in {"LD", "LDG", "LDS", "LDK"}

LoadStore(r) ==
    IF IsLoadOperation(r) THEN <<MemRecord(r.addr, r.size, r.reg, r.size)>>
                          ELSE <<MemRecord(r.reg, r.size, r.addr, r.size)>>

AtomRed(r) ==
    LET access == MemRecord(0, r.size, 0, r.size)
    IN IF r.simtType = "ATOM" THEN <<access, access>> ELSE <<access>>
-----------------------------------------------------------------------------
(* The fix pipe: a matrix of mSize rows and nSize columns leaves L0C.      *)
(* enabled are the modes of the record that are on; MOV_FP takes any.      *)
Merging == {"channelSplit", "int4ChannelMerge", "int8ChannelMerge"}

GetSplitColumn(r, nColumn) ==
    CASE "channelSplit" \in r.enabled -> AlignUp(r.nSize, 8)
      [] "channelSplit" \notin r.enabled /\ "int4ChannelMerge" \in r.enabled -> nColumn \div 4
      [] r.enabled \cap Merging = {"int8ChannelMerge"} -> nColumn \div 2
      [] r.enabled = {"enNZ2ND"} -> 0
      [] r.enabled = {} -> nColumn

FixPipeNZ2ND(r) ==
    LET half == r.quantPreBits = 4    \* two elements in a byte
        blockSize == IF half THEN 1 ELSE r.quantPreBits \div BitsEachByte
        size == blockSize * (IF half THEN r.nSize \div 2 ELSE r.nSize)
        repeatStride == IF half THEN r.dstStride \div 2 ELSE r.dstStride
        offset(ndStride, n) ==
            ndStride * ((n - 1) \div r.mSize) * (r.quantPreBits \div BitsEachByte)
              + ((n - 1) % r.mSize) * blockSize * repeatStride
    IN [n \in 1..(r.ndNum * r.mSize) |->
           MemRecord(r.src + offset(r.srcNdStride, n), size, r.dst + offset(r.dstNdStride, n), size)]

Columns(r, size, first, last) ==
    [n \in 1..(last - first + 1) |->
        MemRecord(r.src + r.srcStride * (first + n - 1) * MovLocalBlockSize, size,
                  r.dst + r.dstStride * (first + n - 1) * MovLocalBlockSize, size)]

ColumnSize(r) ==
    IF r.enabled \cap Merging = {} THEN ((r.mSize * r.quantPreBits) \div BitsEachByte) \div 2
                                   ELSE r.mSize * MovLocalBlockSize

FixPipeNormal(r, nColumn, splitColumn) ==
    LET odd == "int8ChannelMerge" \in r.enabled /\ nColumn % 2 # 0
    IN Columns(r, ColumnSize(r), 0, splitColumn - 1)
         \o (IF odd THEN Columns(r, ColumnSize(r) \div 2, splitColumn, splitColumn) ELSE <<>>)

FixPipe(r) ==
    LET nColumn == AlignUp(r.nSize, 16)
    IN IF "enNZ2ND" \in r.enabled THEN FixPipeNZ2ND(r)
       ELSE FixPipeNormal(r, nColumn, GetSplitColumn(r, nColumn))

(* A matrix without elements is not moved. *)
EmptyMatrix(r) == r.mSize = 0 \/ r.nSize = 0 \/ ("enNZ2ND" \in r.enabled /\ r.ndNum = 0)

ValidateFixL0CGM(r) ==
    /\ ~EmptyMatrix(r)
    /\ Cardinality(r.enabled) <= 1
    /\ r.srcStride % 16 = 0
    /\ r.enabled \subseteq {"int8ChannelMerge"} => r.nSize % 16 = 0
    /\ "int4ChannelMerge" \in r.enabled => r.nSize % 64 = 0
    /\ "channelSplit" \in r.enabled => r.nSize % 8 = 0
-----------------------------------------------------------------------------
(* recordParserFunc_ *)

RecordTypes ==
    {"LOAD_2D", "LOAD_L1_TO_L0B_2D_TRANSPOSE", "LOAD_2DV2", "LOAD_2DV2_DEC", "LOAD_MX2DV2",
     "SET_2D", "DMA_MOV", "MOV_A5", "MOV_V2_A5", "MOV_ALIGN", "MOV_ALIGN_V2", "DMA_MOV_ND2NZ",
     "DMA_MOV_ND2NZ_DAV", "DMA_MOV_DN2NZ_D", "MOV_FP", "FIX_L0C_TO_OUT", "SIMT_LOAD_STORE",
     "SIMT_ATOM_RED"}

AccessesOf(r) ==
    CASE r.type = "LOAD_2D" -> Load2d(r)
      [] r.type = "LOAD_L1_TO_L0B_2D_TRANSPOSE" -> Load2dTranspose(r)
      [] r.type = "LOAD_2DV2" -> Load2dV2(r)
      [] r.type = "LOAD_2DV2_DEC" -> Load2dV2Dec(r)
      [] r.type = "LOAD_MX2DV2" -> LoadMX2dV2(r)
      [] r.type = "SET_2D" -> Set2d(r)
      [] r.type = "DMA_MOV" -> DmaMov(r)
      [] r.type = "MOV_A5" -> BlockBursts(r)
      [] r.type = "MOV_V2_A5" -> MovV2(r)
      [] r.type = "MOV_ALIGN" -> MovAlign(r)
      [] r.type = "MOV_ALIGN_V2" -> MovAlignV2(r)
      [] r.type = "DMA_MOV_ND2NZ" -> Nd2nz(r)
      [] r.type \in {"DMA_MOV_ND2NZ_DAV", "DMA_MOV_DN2NZ_D"} -> NdOrDn2nzDav(r)
      [] r.type \in {"MOV_FP", "FIX_L0C_TO_OUT"} -> FixPipe(r)
      [] r.type = "SIMT_LOAD_STORE" -> LoadStore(r)
      [] r.type = "SIMT_ATOM_RED" -> AtomRed(r)

(* A pad mode that no mode needs is refused, like matrices that cannot be  *)
(* moved; invalidParam counts only some of the refusals.                   *)
PadModeInvalid(r) == r.padMode > 8 /\ (r.type = "DMA_MOV" => ~r.byteMode)

Rejected(r) ==
    \/ r.type = "MOV_FP" /\ EmptyMatrix(r)
    \/ r.type = "FIX_L0C_TO_OUT" /\ ~ValidateFixL0CGM(r)
    \/ r.type \in {"DMA_MOV", "MOV_V2_A5"} /\ PadModeInvalid(r)

CountsInvalidParam(r) == r.type = "FIX_L0C_TO_OUT" => EmptyMatrix(r)

Known(record) == record.magic /\ record.body.type \in RecordTypes

Accesses == [srcAddr : Int, srcMemSize : Int, dstAddr : Int, dstMemSize : Int]

(* The operands the parsers take from bodies: unsigned numbers, and modes.  *)
OperandsOf(type) ==
    LET strides == {"src", "dst", "srcStride", "dstStride"}
        bursts == strides \union {"nBurst", "lenBurst"}
        padding == {"leftPaddingNum", "rightPaddingNum"}
    IN CASE type \in {"LOAD_2D", "LOAD_L1_TO_L0B_2D_TRANSPOSE"} -> strides \union {"baseIdx", "repeat"}
         [] type \in {"LOAD_2DV2", "LOAD_2DV2_DEC"} ->
                strides \union {"mStep", "kStep", "mStartPos", "kStartPos"}
         [] type = "LOAD_MX2DV2" ->
                {"src", "dst", "srcStride", "xStep", "yStep", "xStartPos", "yStartPos"}
         [] type = "SET_2D" -> {"src", "dst", "blockNum", "repeatGap", "repeat"}
         [] type = "MOV_A5" -> bursts
         [] type \in {"DMA_MOV", "MOV_V2_A5"} -> bursts \union {"padMode"}
         [] type = "MOV_ALIGN" -> bursts \union padding \union {"bits"}
         [] type = "MOV_ALIGN_V2" ->
                bursts \union padding
                  \union {"loop1Size", "loop1SrcStride", "loop1DstStride",
                          "loop2Size", "loop2SrcStride", "loop2DstStride"}
         [] type = "DMA_MOV_ND2NZ" ->
                {"src", "ndNum", "nValue", "dValue", "bits", "srcDValue", "srcNdMatrixStride"}
         [] type \in {"DMA_MOV_ND2NZ_DAV", "DMA_MOV_DN2NZ_D"} ->
                {"src", "dst", "ndNum", "nValue", "dValue", "bits", "loop1SrcStride", "loop4SrcStride",
                 "loop2DstStride", "loop4DstStride"}
         [] type \in {"MOV_FP", "FIX_L0C_TO_OUT"} ->
                strides \union {"nSize", "mSize", "ndNum", "srcNdStride", "dstNdStride", "quantPreBits"}
         [] type = "SIMT_LOAD_STORE" -> {"addr", "reg", "size"}
         [] type = "SIMT_ATOM_RED" -> {"size"}

Operands(r) ==
    /\ \A operand \in OperandsOf(r.type) : r[operand] \in Nat
    /\ r.type \in {"MOV_FP", "FIX_L0C_TO_OUT"} => r.enabled \subseteq Merging \union {"enNZ2ND"}

ASSUME PacketsAssumption ==
    \A p \in Packets :
        /\ p.length \in Nat /\ p.count \in Nat /\ DOMAIN p.records = 1..p.count
        /\ \A i \in 1..p.count :
               Known(p.records[i]) /\ ~Rejected(p.records[i].body) => Operands(p.records[i].body)
-----------------------------------------------------------------------------
(* ParseMemoryChart *)

NoCounts == [t \in RecordTypes |-> 0]
Garbage == [magic |-> FALSE, body |-> [type |-> "UNKNOWN"]]

DbiInit ==
    /\ packet \in Packets
    /\ msgIndex = 0 /\ processedCount = 0
    /\ processed = NoCounts /\ failed = NoCounts
    /\ errors = [e \in Errors |-> 0]
    /\ memoryRecords = <<>>
    /\ tallied = [processedRecord |-> 0, droppedRecord |-> 0, done |-> FALSE]

(* What lies at a position of the message. *)
RecordAt(index) ==
    IF index % (1 + BodyLen) = 0 THEN packet.records[index \div (1 + BodyLen) + 1] ELSE Garbage

MoreRecords == processedCount < packet.count /\ msgIndex < packet.length
HeaderCut == msgIndex + 1 >= packet.length
Count(error) == errors' = [errors EXCEPT ![error] = @ + 1]

(* A header that cannot be used ends the packet. *)
BreakAtHeader ==
    /\ ~tallied.done /\ MoreRecords
    /\ HeaderCut \/ ~Known(RecordAt(msgIndex))
    /\ Count(IF HeaderCut THEN "invalidDataCount"
             ELSE IF ~RecordAt(msgIndex).magic THEN "memoryCorruption" ELSE "invalidRecordType")
    /\ tallied' = [processedRecord |-> processedCount,
                   droppedRecord |-> packet.count - processedCount, done |-> TRUE]
    /\ UNCHANGED <<packet, msgIndex, processedCount, processed, failed, memoryRecords>>

(* variant with a bug: a refused record is not skipped *)
ParseWithoutSkip ==
    /\ ~tallied.done /\ MoreRecords /\ ~HeaderCut
    /\ LET record == RecordAt(msgIndex)
           type == record.body.type
           inBounds == msgIndex + 1 + BodyLen <= packet.length
           fails == ~inBounds \/ Rejected(record.body)
       IN /\ Known(record)
          /\ msgIndex' = msgIndex + 1 + (IF fails THEN 0 ELSE BodyLen)
          /\ processed' = [processed EXCEPT ![type] = @ + 1]
          /\ failed' = [failed EXCEPT ![type] = IF fails THEN @ + 1 ELSE @]
          /\ memoryRecords' = memoryRecords \o (IF fails THEN <<>> ELSE AccessesOf(record.body))
          /\ UNCHANGED errors
    /\ processedCount' = processedCount + 1
    /\ UNCHANGED <<packet, tallied>>

ParseRecord ==
    /\ ~tallied.done /\ MoreRecords /\ ~HeaderCut
    /\ msgIndex' = msgIndex + 1 + BodyLen
    /\ LET record == RecordAt(msgIndex)
           type == record.body.type
           inBounds == msgIndex' <= packet.length
           fails == ~inBounds \/ Rejected(record.body)
       IN /\ Known(record)
          /\ processed' = [processed EXCEPT ![type] = @ + 1]
          /\ failed' = [failed EXCEPT ![type] = IF fails THEN @ + 1 ELSE @]
          /\ IF ~inBounds THEN Count("outOfBoundsRead")
             ELSE IF fails /\ CountsInvalidParam(record.body) THEN Count("invalidParam")
             ELSE UNCHANGED errors
          /\ memoryRecords' = memoryRecords \o (IF fails THEN <<>> ELSE AccessesOf(record.body))
    /\ processedCount' = processedCount + 1
    /\ UNCHANGED <<packet, tallied>>

TallyPacket ==
    /\ ~tallied.done /\ ~MoreRecords
    /\ tallied' = [processedRecord |-> processedCount,
                   droppedRecord |-> packet.count - processedCount, done |-> TRUE]
    /\ UNCHANGED <<packet, msgIndex, processedCount, processed, failed, errors, memoryRecords>>

DbiNext == BreakAtHeader \/ ParseRecord \/ TallyPacket

DbiSpec == DbiInit /\ [][DbiNext]_dbiVars
-----------------------------------------------------------------------------
(* The records before the first one that cannot be read. *)
Whole(n) ==
    /\ n * (1 + BodyLen) <= packet.length
    /\ \A i \in 1..n : Known(packet.records[i])
Readable == CHOOSE n \in 0..packet.count : Whole(n) /\ (n = packet.count \/ ~Whole(n + 1))
Body(i) == packet.records[i].body
Accepted == {i \in 1..Readable : ~Rejected(Body(i))}
OfType(S, t) == {i \in S : Body(i).type = t}

(* However a packet is cut off or damaged, the accesses of all records in  *)
(* front of the damage are kept, in order, those of refused ones are not,  *)
(* a refused record does not cost the ones behind it, and every record     *)
(* announced is counted once, as one of its type that was accepted or      *)
(* failed, or as dropped.                                                  *)
RecordsAccounted ==
    tallied.done =>
        /\ memoryRecords =
               FlattenSeq([i \in 1..Readable |-> IF i \in Accepted THEN AccessesOf(Body(i)) ELSE <<>>])
        /\ tallied.processedRecord + tallied.droppedRecord = packet.count
        /\ \A i \in 1..tallied.processedRecord : Known(packet.records[i])
        /\ \A t \in RecordTypes :
               /\ processed[t] = Cardinality(OfType(1..tallied.processedRecord, t))
               /\ processed[t] - failed[t] = Cardinality(OfType(Accepted, t))

(* What the instruction of a record transports, in bytes, and the side on  *)
(* which an access is exactly what is transported.                         *)
Transport(r) ==
    CASE r.type = "LOAD_2D" -> [bytes |-> r.repeat * 512, side |-> "src"]
      [] r.type = "LOAD_L1_TO_L0B_2D_TRANSPOSE" ->
             [bytes |-> r.repeat * r.srcStride * 512, side |-> "src"]
      [] r.type \in {"LOAD_2DV2", "LOAD_2DV2_DEC"} ->
             [bytes |-> r.mStep * r.kStep * 512, side |-> "dst"]
      [] r.type = "LOAD_MX2DV2" -> [bytes |-> r.xStep * r.yStep * 32, side |-> "src"]
      [] r.type \in {"DMA_MOV", "MOV_A5", "MOV_V2_A5"} ->
             IF r.type = "DMA_MOV" /\ r.byteMode
             THEN [bytes |-> r.nBurst * r.lenBurst, side |-> "dst"]
             ELSE [bytes |-> r.nBurst * r.lenBurst * 32, side |-> "src"]
      [] r.type = "MOV_ALIGN" ->
             [bytes |-> r.nBurst * r.lenBurst, side |-> IF r.srcMemType = "GM" THEN "src" ELSE "dst"]
      [] r.type = "MOV_ALIGN_V2" ->
             [bytes |-> r.nBurst * r.lenBurst * (IF r.loop1Size * r.loop2Size = 0 THEN 1
                                                 ELSE r.loop1Size * r.loop2Size),
              side |-> IF r.dstMemType = "UB" THEN "src" ELSE "dst"]
      [] r.type \in {"DMA_MOV_ND2NZ", "DMA_MOV_ND2NZ_DAV", "DMA_MOV_DN2NZ_D"} ->
             [bytes |-> (r.ndNum * r.nValue * r.dValue * r.bits) \div 8, side |-> "src"]
      [] r.type \in {"MOV_FP", "FIX_L0C_TO_OUT"} ->
             [bytes |-> ((IF "enNZ2ND" \in r.enabled THEN r.ndNum ELSE 1)
                           * r.mSize * r.nSize * r.quantPreBits) \div 8, side |-> "dst"]
      [] r.type = "SIMT_LOAD_STORE" -> [bytes |-> r.size, side |-> "src"]
      [] r.type = "SIMT_ATOM_RED" -> [bytes |-> IF r.simtType = "ATOM" THEN 2 * r.size ELSE r.size,
                                      side |-> "src"]

(* Padded bursts are shortened to one access, a fill counts its gaps,      *)
(* MOV_ALIGN counts the bytes of the GM only and MOV_ALIGN_V2 knows the     *)
(* sizes of transports to UB and GM only, the plain mode of the fix pipe    *)
(* counts in blocks of 32 bytes, and nothing bounds what a MOV_FP that      *)
(* FIX_L0C_TO_OUT would refuse amounts to.  Rows fill whole bytes, and the  *)
(* merging modes of the fix pipe are those of elements of one size.         *)
Measured(r) ==
    CASE r.type \in {"DMA_MOV", "MOV_V2_A5"} -> r.padMode = 0 \/ (r.type = "DMA_MOV" /\ r.byteMode)
      [] r.type = "SET_2D" -> FALSE
      [] r.type = "MOV_ALIGN" -> "GM" \in {r.srcMemType, r.dstMemType}
      [] r.type = "MOV_ALIGN_V2" -> r.dstMemType \in {"UB", "GM"}
      [] r.type = "DMA_MOV_ND2NZ" -> (r.dValue * r.bits) % 8 = 0
      [] r.type \in {"DMA_MOV_ND2NZ_DAV", "DMA_MOV_DN2NZ_D"} -> r.bits # 0 /\ r.bits % 8 = 0
      [] r.type \in {"MOV_FP", "FIX_L0C_TO_OUT"} ->
             /\ r.enabled # {} /\ ValidateFixL0CGM(r)
             /\ "channelSplit" \in r.enabled => r.quantPreBits = 32
             /\ "int4ChannelMerge" \in r.enabled => r.quantPreBits = 4
             /\ "int8ChannelMerge" \in r.enabled => r.quantPreBits = 8
             /\ "enNZ2ND" \in r.enabled => r.quantPreBits % 8 = 0 \/ (r.quantPreBits = 4 /\ r.nSize % 2 = 0)
      [] OTHER -> TRUE

(* Strides that are not smaller than what they stride over.  Addresses of   *)
(* atomic operations are not recorded, and matrices of elements of 4 bits   *)
(* are laid over each other.                                                *)
Located(r) ==
    CASE r.type = "LOAD_2D" -> r.srcStride # 0
      [] r.type = "LOAD_2DV2_DEC" -> r.mStep <= r.dstStride
      [] r.type = "MOV_ALIGN_V2" ->
             LET toUB == r.dstMemType = "UB"
                 stride == IF toUB THEN r.srcStride ELSE r.dstStride
                 loop1Stride == IF toUB THEN r.loop1SrcStride ELSE r.loop1DstStride
                 loop2Stride == IF toUB THEN r.loop2SrcStride ELSE r.loop2DstStride
             IN  /\ r.lenBurst <= stride
                 /\ r.loop1Size * r.loop2Size # 0 =>
                        r.nBurst * stride <= loop1Stride /\ r.loop1Size * loop1Stride <= loop2Stride
      [] r.type = "DMA_MOV_ND2NZ" ->
             r.dValue <= r.srcDValue /\ r.nValue * r.srcDValue <= r.srcNdMatrixStride
      [] r.type = "DMA_MOV_ND2NZ_DAV" ->
             r.dValue * (r.bits \div 8) <= r.loop1SrcStride /\ r.nValue * r.loop1SrcStride <= r.loop4SrcStride
      [] r.type = "DMA_MOV_DN2NZ_D" ->
             r.nValue * (r.bits \div 8) <= r.loop1SrcStride /\ r.dValue * r.loop1SrcStride <= r.loop4SrcStride
      [] r.type \in {"MOV_FP", "FIX_L0C_TO_OUT"} ->
             IF "enNZ2ND" \notin r.enabled THEN r.mSize <= r.dstStride
             ELSE /\ r.nSize <= r.dstStride
                  /\ r.ndNum < 2 \/ (r.quantPreBits # 4 /\ r.mSize * r.dstStride <= r.dstNdStride)
      [] r.type = "SIMT_ATOM_RED" -> FALSE
      [] OTHER -> TRUE

AddrOn(side, access) == IF side = "src" THEN access.srcAddr ELSE access.dstAddr
SizeOn(side, access) == IF side = "src" THEN access.srcMemSize ELSE access.dstMemSize
Bytes(side, accesses) == SumFunction([n \in DOMAIN accesses |-> SizeOn(side, accesses[n])])
Before(side, a, b) == AddrOn(side, a) + SizeOn(side, a) <= AddrOn(side, b)
Apart(side, accesses) ==
    \A m, n \in DOMAIN accesses :
        m # n => Before(side, accesses[m], accesses[n]) \/ Before(side, accesses[n], accesses[m])

(* The accesses made of a record are those of its instruction: as many     *)
(* bytes as its operands say, in all modes, with merged bursts, odd        *)
(* columns and nested loops, and no byte twice where strides span what      *)
(* they stride over.                                                        *)
TrafficAsInstructed ==
    tallied.done =>
        \A i \in Accepted :
            LET r == Body(i)
            IN Measured(r) =>
                  /\ Bytes(Transport(r).side, AccessesOf(r)) = Transport(r).bytes
                  /\ Located(r) => Apart(Transport(r).side, AccessesOf(r))
=============================================================================
