------------------------------ MODULE L2Cache ------------------------------
(***************************************************************************)
(* L2Cache (profiling/device/data_parse/l2cache): the functional model of  *)
(* the L2 cache that turns the memory records of an instrumented kernel    *)
(* into hits, misses, allocations and evictions, per instruction and per   *)
(* cache set.  Modeling takes the records one by one; Load and Store walk  *)
(* the cache lines of a record, one line a step here.                      *)
(*                                                                         *)
(* The GM behind the cache only counts what it is asked for, so of it the  *)
(* model keeps which lines hold a store that has not reached it.           *)
(***************************************************************************)
EXTENDS Integers, Sequences, FiniteSets, Functions

CONSTANTS
    Policy,         \* CachePolicy::Policy
    Ways,           \* entries of a set
    Sets,           \* number of sets
    LineSize,       \* bytes of a line, 2^bits
    Lines,          \* number of lines of the address space, 2^(64 - bits)
    WriteBack,
    WriteAllocate,
    Pcs,            \* the instructions that access memory
    Records         \* the memory records Modeling may be given

ASSUME PolicyAssumption == Policy \in {"LRU", "FIFO"}
ASSUME SizeAssumption ==
    /\ Ways \in Nat \ {0}
    /\ Sets \in Nat \ {0}
    /\ LineSize \in Nat \ {0}
    /\ Lines \in Nat \ {0}
ASSUME WriteAssumption == WriteBack \in BOOLEAN /\ WriteAllocate \in BOOLEAN

CLIDs == 0..(Lines - 1)
SetIds == 0..(Sets - 1)
Addresses == 0..(Lines * LineSize - 1)

MemRecords ==
    [src : {"GM", "other"}, dst : {"GM", "other"},
     srcAddr : Addresses, srcMemSize : Nat,
     dstAddr : Addresses, dstMemSize : Nat, pc : Pcs]

ASSUME PcsAssumption == IsFiniteSet(Pcs)
ASSUME RecordsAssumption == Records \subseteq MemRecords

VARIABLES
    placement,  \* placement_: the entries of each set
    bySet,      \* clidBasedCacheData_
    byPc,       \* pcBasedCacheData_, no entry for an instruction is NoStat
    call,       \* the Load or Store in progress
    clock,      \* history: line accesses so far
    used,       \* history: the last access of a line, 0 for none
    unsaved     \* history: lines whose last store is not in the GM

vars == <<placement, bySet, byPc, call, clock, used, unsaved>>

CacheOpStat ==
    [isValid : BOOLEAN, hit : Nat, miss : Nat, allocate : Nat,
     evictAndWrite : Nat, evictWithoutWrite : Nat]
ZeroStat ==
    [isValid |-> TRUE, hit |-> 0, miss |-> 0, allocate |-> 0,
     evictAndWrite |-> 0, evictWithoutWrite |-> 0]
NoStat == [ZeroStat EXCEPT !.isValid = FALSE]

(* An instruction without an entry and one with an invalid empty entry are *)
(* told apart by seen.                                                     *)
NoEntry == [seen |-> FALSE, stat |-> NoStat]

CLEntries == [id : CLIDs, isDirty : BOOLEAN]
CacheMetrics ==
    [hit : Nat, miss : Nat, hitPc : SUBSET Pcs, missPc : SUBSET Pcs]

NoCall == [op |-> "none"]

Init ==
    /\ placement = [s \in SetIds |-> <<>>]
    /\ bySet = [s \in SetIds |->
                   [hit |-> 0, miss |-> 0, hitPc |-> {}, missPc |-> {}]]
    /\ byPc = [pc \in Pcs |-> NoEntry]
    /\ call = NoCall
    /\ clock = 0
    /\ used = [id \in CLIDs |-> 0]
    /\ unsaved = {}
-----------------------------------------------------------------------------
(* Addresses and lines                                                     *)

GetCLID(addr) == addr \div LineSize
GetSetId(id) == id % Sets

(* addr + length wraps around; a sum of 0 has no byte before it.           *)
LastByte(addr, length) ==
    LET sum == (addr + length) % (Lines * LineSize)
    IN  IF sum = 0 THEN 0 ELSE sum - 1

IsAt(data, i, id) == i \in 1..Len(data) /\ data[i].id = id

IsIn(data, id) == \E i \in 1..Len(data) : data[i].id = id
-----------------------------------------------------------------------------
(* CachePolicy: LRU keeps the newest entry in front, FIFO at the back; a   *)
(* hit moves the entry to the newest place under both.                     *)

(* variants with a bug: a line that a store brings in is not marked; the   *)
(* new entry goes to the place of the oldest                               *)
InsertedClean(data, entry) ==
    IF Policy = "LRU" THEN <<[entry EXCEPT !.isDirty = FALSE]>> \o data
    ELSE Append(data, [entry EXCEPT !.isDirty = FALSE])
InsertedAsOldest(data, entry) ==
    IF Policy = "LRU" THEN Append(data, entry) ELSE <<entry>> \o data

Inserted(data, entry) ==
    IF Policy = "LRU" THEN <<entry>> \o data ELSE Append(data, entry)

Oldest(data) == IF Policy = "LRU" THEN data[Len(data)] ELSE data[1]

WithoutOldest(data) ==
    IF Policy = "LRU" THEN SubSeq(data, 1, Len(data) - 1) ELSE Tail(data)

HitRefresh(data, location) ==
    IF Policy = "LRU"
    THEN [i \in 1..Len(data) |->
             IF i = 1 THEN data[location]
             ELSE IF i <= location THEN data[i - 1] ELSE data[i]]
    ELSE [i \in 1..Len(data) |->
             IF i = Len(data) THEN data[location]
             ELSE IF i < location THEN data[i] ELSE data[i + 1]]
-----------------------------------------------------------------------------
(* CacheMetrics::Hit and Miss, added to the metrics of the set             *)

Hit(metrics, pc) ==
    [metrics EXCEPT !.hit = @ + 1, !.hitPc = @ \cup {pc}]
Miss(metrics, pc) ==
    [metrics EXCEPT !.miss = @ + 1, !.missPc = @ \cup {pc}]

(* CacheOpStat::operator +=                                                *)
Plus(a, b) ==
    [isValid |-> TRUE, hit |-> a.hit + b.hit, miss |-> a.miss + b.miss,
     allocate |-> a.allocate + b.allocate,
     evictAndWrite |-> a.evictAndWrite + b.evictAndWrite,
     evictWithoutWrite |-> a.evictWithoutWrite + b.evictWithoutWrite]

(* What Modeling makes of the entry of an instruction.                     *)
Invalid(entry) == [seen |-> TRUE, stat |-> [entry.stat EXCEPT !.isValid = FALSE]]

(* variant with a bug: only the first record of an instruction counts      *)
MergedOnce(entry, stat) ==
    IF entry.seen THEN entry ELSE [seen |-> TRUE, stat |-> stat]

Merged(entry, stat) ==
    IF ~entry.seen THEN [seen |-> TRUE, stat |-> stat]
    ELSE IF entry.stat.isValid
    THEN [seen |-> TRUE, stat |-> Plus(entry.stat, stat)]
    ELSE entry
-----------------------------------------------------------------------------
(* Modeling, one record                                                    *)

(* A record that reads the GM is a load, one that writes it a store; one   *)
(* that does neither makes the statistics of its instruction invalid.      *)
BeginRecord(r) ==
    /\ call.op = "none"
    /\ LET op == IF r.src = "GM" THEN "load"
                 ELSE IF r.dst = "GM" THEN "store" ELSE "neither"
           addr == IF op = "load" THEN r.srcAddr ELSE r.dstAddr
           length == IF op = "load" THEN r.srcMemSize ELSE r.dstMemSize
       IN  IF op = "neither"
           THEN /\ byPc' = [byPc EXCEPT ![r.pc] = Invalid(@)]
                /\ UNCHANGED call
           ELSE /\ call' = [op |-> op, pc |-> r.pc, next |-> GetCLID(addr),
                            last |-> GetCLID(LastByte(addr, length)),
                            stat |-> ZeroStat]
                /\ UNCHANGED byPc
    /\ UNCHANGED <<placement, bySet, clock, used, unsaved>>

(* What every access of line id does besides its effect on the cache.      *)
Access(id) ==
    /\ call.op # "none"
    /\ id = call.next
    /\ id <= call.last
    /\ clock' = clock + 1
    /\ used' = [used EXCEPT ![id] = clock + 1]
    /\ UNCHANGED byPc

(* Load and Store, a line that is in the cache.                            *)
AccessHit(id) ==
    LET s == GetSetId(id)
        data == placement[s]
    IN  \E location \in 1..Len(data) :
            /\ Access(id)
            /\ IsAt(data, location, id)
            /\ bySet' = [bySet EXCEPT ![s] = Hit(@, call.pc)]
            /\ call' = [call EXCEPT !.next = id + 1, !.stat.hit = @ + 1]
            /\ LET dirty == \/ data[location].isDirty
                            \/ (call.op = "store" /\ WriteBack)
                   marked == [data EXCEPT ![location].isDirty = dirty]
               IN  placement' =
                       [placement EXCEPT ![s] = HitRefresh(marked, location)]
            /\ unsaved' = IF call.op = "store" /\ WriteBack
                          THEN unsaved \cup {id} ELSE unsaved

CountMiss(stat, replaced, written) ==
    [stat EXCEPT !.miss = @ + 1,
                 !.allocate = @ + 1,
                 !.evictAndWrite = IF replaced /\ written THEN @ + 1 ELSE @,
                 !.evictWithoutWrite = IF replaced /\ ~written THEN @ + 1 ELSE @]

(* LoadMissEntry: a load, or a store that allocates, brings the line in;   *)
(* a full set gives up its oldest entry, to the GM if it must be saved.    *)
MissAndAllocate(id) ==
    LET s == GetSetId(id)
        data == placement[s]
        entry == [id |-> id, isDirty |-> call.op = "store"]
        inserted == Inserted(data, entry)
        replaced == Len(inserted) > Ways
        written == WriteBack /\ Oldest(inserted).isDirty
    IN  /\ Access(id)
        /\ ~IsIn(data, id)
        /\ call.op = "store" => WriteBack /\ WriteAllocate
        /\ bySet' = [bySet EXCEPT ![s] = Miss(@, call.pc)]
        /\ placement' =
               [placement EXCEPT ![s] = IF replaced THEN WithoutOldest(inserted)
                                        ELSE inserted]
        /\ call' = [call EXCEPT !.next = id + 1,
                                !.stat = CountMiss(@, replaced, written)]
        /\ unsaved' = (IF call.op = "store" THEN unsaved \cup {id} ELSE unsaved)
                      \ (IF replaced /\ written THEN {Oldest(inserted).id} ELSE {})

(* A store that does not allocate goes straight to the GM.                 *)
MissAndStoreThrough(id) ==
    LET s == GetSetId(id)
    IN  /\ Access(id)
        /\ ~IsIn(placement[s], id)
        /\ call.op = "store" /\ ~(WriteBack /\ WriteAllocate)
        /\ bySet' = [bySet EXCEPT ![s] = Miss(@, call.pc)]
        /\ call' = [call EXCEPT !.next = id + 1, !.stat.miss = @ + 1]
        /\ unsaved' = unsaved \ {id}
        /\ UNCHANGED placement

(* Load or Store returned: its statistics go to the instruction, unless    *)
(* those are invalid already.                                              *)
EndRecord ==
    /\ call.op # "none"
    /\ call.next > call.last
    /\ byPc' = [byPc EXCEPT ![call.pc] = Merged(@, call.stat)]
    /\ call' = NoCall
    /\ UNCHANGED <<placement, bySet, clock, used, unsaved>>

Walk == \E id \in CLIDs :
            AccessHit(id) \/ MissAndAllocate(id) \/ MissAndStoreThrough(id)

Next == (\E r \in Records : BeginRecord(r)) \/ Walk \/ EndRecord

Spec == Init /\ [][Next]_vars
-----------------------------------------------------------------------------
TypeOK ==
    /\ placement \in [SetIds -> Seq(CLEntries)]
    /\ bySet \in [SetIds -> CacheMetrics]
    /\ byPc \in [Pcs -> [seen : BOOLEAN, stat : CacheOpStat]]
    /\ \/ call = NoCall
       \/ call \in [op : {"load", "store"}, pc : Pcs, next : 0..Lines,
                    last : CLIDs, stat : CacheOpStat]
    /\ clock \in Nat
    /\ used \in [CLIDs -> Nat]
    /\ unsaved \subseteq CLIDs

(* A set holds at most Ways lines, all of them its own and none of them    *)
(* twice, or a line could hit twice and be evicted with half its state.    *)
SetSound(data, s) ==
    /\ Len(data) <= Ways
    /\ \A i \in 1..Len(data) : GetSetId(data[i].id) = s
    /\ \A i, j \in 1..Len(data) : data[i].id = data[j].id => i = j

PlacementSound == \A s \in SetIds : SetSound(placement[s], s)

(* Write-back loses no store and saves none twice: a line is dirty in the  *)
(* cache exactly as long as its last store is missing in the GM.           *)
DirtyIsUnsaved ==
    /\ \A s \in SetIds : \A i \in 1..Len(placement[s]) :
           placement[s][i].isDirty <=> placement[s][i].id \in unsaved
    /\ \A id \in unsaved : IsIn(placement[GetSetId(id)], id)

(* Entry i of a set is newer than entry j.                                 *)
Newer(i, j) == IF Policy = "LRU" THEN i < j ELSE i > j

(* Entries are in the order of their last use.                             *)
SetOrdered(data, use) ==
    \A i, j \in 1..Len(data) :
        Newer(i, j) => use[data[i].id] > use[data[j].id]

(* A line that was used and is absent was evicted from a full set and is   *)
(* older than all that stayed.                                             *)
AbsentIsOlder(data, s, use) ==
    \A id \in CLIDs :
        GetSetId(id) = s /\ use[id] > 0 /\ ~IsIn(data, id)
        => /\ Len(data) = Ways
           /\ \A i \in 1..Len(data) : use[id] < use[data[i].id]

(* A set holds the lines used last, under both policies: FIFO refreshes an *)
(* entry that hits, so it evicts what LRU would.  A store that does not    *)
(* allocate uses its line without bringing it in.                          *)
HoldsTheMostRecent ==
    \A s \in SetIds :
        /\ SetOrdered(placement[s], used)
        /\ WriteBack /\ WriteAllocate => AbsentIsOlder(placement[s], s, used)

(* What an instruction has done, the record in progress included.           *)
Stat(pc) ==
    IF call.op # "none" /\ call.pc = pc
    THEN Plus(byPc[pc].stat, call.stat) ELSE byPc[pc].stat

InvalidPcs == {pc \in Pcs : byPc[pc].seen /\ ~byPc[pc].stat.isValid}

(* The two tables that are shown tell the same story: an instruction with  *)
(* valid statistics hit (missed) exactly when some set names it among its  *)
(* hits (misses), and while no instruction is invalid the counts of the    *)
(* instructions add up to those of the sets, and allocations less          *)
(* evictions to the lines in the cache.  The hits of an instruction that   *)
(* became invalid stay in the sets.                                        *)
StatsAddUp ==
    /\ \A pc \in Pcs \ InvalidPcs :
           /\ Stat(pc).hit > 0 <=> \E s \in SetIds : pc \in bySet[s].hitPc
           /\ Stat(pc).miss > 0 <=> \E s \in SetIds : pc \in bySet[s].missPc
    /\ InvalidPcs = {} =>
           /\ SumFunction([pc \in Pcs |-> Stat(pc).hit])
                  = SumFunction([s \in SetIds |-> bySet[s].hit])
           /\ SumFunction([pc \in Pcs |-> Stat(pc).miss])
                  = SumFunction([s \in SetIds |-> bySet[s].miss])
           /\ SumFunction([pc \in Pcs |-> Stat(pc).allocate])
                  = SumFunction([pc \in Pcs |-> Stat(pc).evictAndWrite
                                                    + Stat(pc).evictWithoutWrite])
                    + SumFunction([s \in SetIds |-> Len(placement[s])])
=============================================================================
