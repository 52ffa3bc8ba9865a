---------------------------- MODULE OfflineProofs ----------------------------
(***************************************************************************)
(* Proofs about four of the sequential parts: L2Cache, LiveRegisters,      *)
(* RunningTime and UserMark.                                               *)
(*                                                                         *)
(* L2Cache: for every policy, geometry, write mode and set of records.     *)
(*                                                                         *)
(* IInv is the conjunction of the safety properties with HistoryInv: no    *)
(* line was used later than now, and a cache that does not write back has  *)
(* nothing unsaved.  The four properties need each other: that the newest  *)
(* entry is older than the clock gives the order after an access, and that *)
(* a set holds a line once gives that the evicted line is gone from it.    *)
(*                                                                         *)
(* What an access does to a set is stated once, as a relation (Renewed):   *)
(* the set after it is the accessed line in the newest place, followed by  *)
(* the entries before it in their order, less at most one that is gone.    *)
(* The lemmas show that a hit and an allocation are such a renewal under   *)
(* LRU and under FIFO; the invariant is then preserved by any renewal.     *)
(*                                                                         *)
(* That the tables add up (StatsAddUp) is a matter of sums over functions: *)
(* SumFunction is shown to have a value that does not depend on the order, *)
(* and to grow by what is added at one place (SumStep).  CountInv adds to  *)
(* IInv that an instruction without an entry has counted nothing; every    *)
(* access then adds the same to one instruction and to one set.            *)
(*                                                                         *)
(* LiveRegisters: for every table without LD4 and number of registers.     *)
(* LiveInv says what the map and the counts are after n rows: the map has  *)
(* the last use of every register used so far, and the count of row j is   *)
(* the number of registers Held there, those used up to j which no row     *)
(* seen so far overwrites unread.  A row releases exactly what is not held *)
(* any more; what is still held when all rows were seen, and not used      *)
(* again, is released at the end, which leaves the occupied registers.     *)
(*                                                                         *)
(* RunningTime: for every list of instructions.  Its two loops are left    *)
(* folds; that a left fold has a value, which is reached one member at a   *)
(* time, is proved once (FoldExists, LoopSteps).  MergedSoFar says what    *)
(* the merged intervals are after k instructions: apart, and covering the  *)
(* same ticks; the sum of their lengths is the number of these ticks.      *)
(*                                                                         *)
(* UserMark: for every set of names and length of the log.  NameInv says   *)
(* what the parser knows of a name that is not invalid: its k-th interval  *)
(* has the ticks the log gives to its k-th start mark (StartsAt, EndsAt),  *)
(* only the last one may be open, the marks are well nested, and the name  *)
(* is pending exactly when the next NOP moves one of its ticks.  MergedAs  *)
(* says what counting the start marks finds in any table of intervals.     *)
(***************************************************************************)
EXTENDS L2Cache, LiveRegisters, RunningTime, UserMark, FiniteSetTheorems, WellFoundedInduction, TLAPS

LEMMA SetIdInRange == \A id \in CLIDs : GetSetId(id) \in SetIds
  BY SizeAssumption DEF CLIDs, SetIds, GetSetId

LEMMA ProductOrder ==
    ASSUME NEW q \in Nat, NEW n \in Nat, NEW l \in Nat, q >= n
    PROVE  q * l >= n * l
  <1>1. PICK d \in Nat : q = n + d
    <2>1. q - n \in Nat /\ q = n + (q - n)
      OBVIOUS
    <2> QED
      BY <2>1
  <1>2. q * l = n * l + d * l
    BY <1>1
  <1>3. d * l >= 0
    OBVIOUS
  <1> QED
    BY <1>2, <1>3

LEMMA CLIDInRange == \A addr \in Addresses : GetCLID(addr) \in CLIDs
  <1> SUFFICES ASSUME NEW addr \in Addresses PROVE GetCLID(addr) \in CLIDs
    OBVIOUS
  <1> DEFINE q == addr \div LineSize
  <1>1. q \in Nat /\ q * LineSize <= addr
    BY SizeAssumption DEF Addresses
  <1>2. addr < Lines * LineSize
    BY SizeAssumption DEF Addresses
  <1>3. q < Lines
    BY <1>1, <1>2, SizeAssumption, ProductOrder DEF Addresses
  <1> QED
    BY <1>1, <1>3, SizeAssumption DEF GetCLID, CLIDs

LEMMA LastByteInRange ==
    \A addr, length \in Nat : LastByte(addr, length) \in Addresses
  BY SizeAssumption DEF LastByte, Addresses

(* new is the set data after an access to the line of entry: entry is the  *)
(* newest, position gone of data is left out (none if gone is 0), and the  *)
(* rest keeps its order.                                                   *)
RenewedBy(data, new, entry, gone, k, f) ==
    /\ new[k] = entry
    /\ \A i \in (1..Len(new)) \ {k} :
           /\ Newer(k, i)
           /\ f[i] \in (1..Len(data)) \ {gone}
           /\ new[i] = data[f[i]]
    /\ \A i, j \in (1..Len(new)) \ {k} : Newer(i, j) => Newer(f[i], f[j])
    /\ \A m \in (1..Len(data)) \ {gone} :
           \E i \in (1..Len(new)) \ {k} : f[i] = m

Renewed(data, new, entry, gone) ==
    /\ new \in Seq(CLEntries)
    /\ \E k \in 1..Len(new), f \in [1..Len(new) -> Int] :
           RenewedBy(data, new, entry, gone, k, f)

LEMMA RefreshRenews ==
    ASSUME NEW data \in Seq(CLEntries), NEW location \in 1..Len(data)
    PROVE  /\ Renewed(data, HitRefresh(data, location), data[location], location)
           /\ Len(HitRefresh(data, location)) = Len(data)
  <1> DEFINE new == HitRefresh(data, location)
  <1>0. Len(data) \in Nat /\ \A i \in 1..Len(data) : data[i] \in CLEntries
    OBVIOUS
  <1>1. CASE Policy = "LRU"
    <2> DEFINE f == [i \in 1..Len(data) |-> IF i <= location THEN i - 1 ELSE i]
    <2>1. new = [i \in 1..Len(data) |->
                   IF i = 1 THEN data[location]
                   ELSE IF i <= location THEN data[i - 1] ELSE data[i]]
      BY <1>1 DEF HitRefresh
    <2>2. new \in Seq(CLEntries) /\ Len(new) = Len(data)
      BY <1>0, <2>1
    <2>3. f \in [1..Len(new) -> Int]
      BY <2>2
    <2>4. \A i \in (1..Len(new)) \ {1} :
              /\ Newer(1, i)
              /\ f[i] \in (1..Len(data)) \ {location}
              /\ new[i] = data[f[i]]
      BY <1>0, <1>1, <2>1, <2>2 DEF Newer
    <2>5. \A i, j \in (1..Len(new)) \ {1} : Newer(i, j) => Newer(f[i], f[j])
      BY <1>0, <1>1, <2>2 DEF Newer
    <2>6. ASSUME NEW m \in (1..Len(data)) \ {location}
          PROVE  \E i \in (1..Len(new)) \ {1} : f[i] = m
      <3>1. CASE m < location
        BY <1>0, <2>2, <3>1
      <3>2. CASE m > location
        BY <1>0, <2>2, <3>2
      <3> QED
        BY <1>0, <3>1, <3>2
    <2>7. new[1] = data[location] /\ 1 \in 1..Len(new)
      BY <1>0, <2>1, <2>2
    <2>8. Renewed(data, new, data[location], location)
      <3> HIDE DEF f, new
      <3>1. RenewedBy(data, new, data[location], location, 1, f)
        BY <2>4, <2>5, <2>6, <2>7 DEF RenewedBy
      <3> QED
        BY <2>2, <2>3, <2>7, <3>1 DEF Renewed
    <2> QED
      BY <2>2, <2>8
  <1>2. CASE Policy = "FIFO"
    <2> DEFINE f == [i \in 1..Len(data) |-> IF i < location THEN i ELSE i + 1]
               k == Len(data)
    <2>1. new = [i \in 1..Len(data) |->
                   IF i = Len(data) THEN data[location]
                   ELSE IF i < location THEN data[i] ELSE data[i + 1]]
      BY <1>2 DEF HitRefresh
    <2>2. new \in Seq(CLEntries) /\ Len(new) = Len(data)
      BY <1>0, <2>1
    <2>3. f \in [1..Len(new) -> Int]
      BY <2>2
    <2>4. ASSUME NEW i \in (1..Len(new)) \ {k}
          PROVE  /\ Newer(k, i)
                 /\ f[i] \in (1..Len(data)) \ {location}
                 /\ new[i] = data[f[i]]
      <3>1. i \in 1..(Len(data) - 1) /\ Newer(k, i)
        BY <1>0, <1>2, <2>2 DEF Newer
      <3>2. f[i] = IF i < location THEN i ELSE i + 1
        BY <1>0, <3>1
      <3>3. new[i] = IF i < location THEN data[i] ELSE data[i + 1]
        BY <1>0, <2>1, <3>1
      <3> QED
        BY <1>0, <3>1, <3>2, <3>3
    <2>5. \A i, j \in (1..Len(new)) \ {k} : Newer(i, j) => Newer(f[i], f[j])
      BY <1>0, <1>2, <2>2 DEF Newer
    <2>6. ASSUME NEW m \in (1..Len(data)) \ {location}
          PROVE  \E i \in (1..Len(new)) \ {k} : f[i] = m
      <3>1. CASE m < location
        <4>1. m \in (1..Len(new)) \ {k} /\ f[m] = m
          BY <1>0, <2>2, <3>1
        <4> QED
          BY <4>1
      <3>2. CASE m > location
        <4>1. m - 1 \in 1..Len(data) /\ m - 1 # k /\ ~(m - 1 < location)
          BY <1>0, <3>2
        <4>2. m - 1 \in (1..Len(new)) \ {k} /\ f[m - 1] = m
          BY <1>0, <2>2, <4>1
        <4> HIDE DEF f, k, new
        <4> QED
          BY <4>2
      <3>3. m < location \/ m > location
        BY <1>0
      <3> QED
        BY <3>1, <3>2, <3>3
    <2>7. new[k] = data[location] /\ k \in 1..Len(new)
      <3>1. k \in 1..Len(data)
        BY <1>0
      <3> QED
        BY <2>1, <2>2, <3>1
    <2>8. Renewed(data, new, data[location], location)
      <3> HIDE DEF f, new
      <3>1. RenewedBy(data, new, data[location], location, k, f)
        BY <2>4, <2>5, <2>6, <2>7 DEF RenewedBy
      <3> QED
        BY <2>2, <2>3, <2>7, <3>1 DEF Renewed
    <2> QED
      BY <2>2, <2>8
  <1> QED
    BY <1>1, <1>2, PolicyAssumption

(* What LoadMissEntry leaves in the set. *)
Allocated(data, entry) ==
    IF Len(Inserted(data, entry)) > Ways
    THEN WithoutOldest(Inserted(data, entry)) ELSE Inserted(data, entry)

LEMMA AllocateRenews ==
    ASSUME NEW data \in Seq(CLEntries), NEW entry \in CLEntries,
           Len(data) <= Ways
    PROVE  /\ Len(data) < Ways =>
                  /\ ~(Len(Inserted(data, entry)) > Ways)
                  /\ Renewed(data, Allocated(data, entry), entry, 0)
                  /\ Len(Allocated(data, entry)) = Len(data) + 1
           /\ Len(data) = Ways =>
                  /\ Len(Inserted(data, entry)) > Ways
                  /\ Len(Allocated(data, entry)) = Ways
                  /\ LET oldest == IF Policy = "LRU" THEN Ways ELSE 1
                     IN  /\ Oldest(Inserted(data, entry)) = data[oldest]
                         /\ Renewed(data, Allocated(data, entry), entry, oldest)
                         /\ \A i \in 1..Ways : i # oldest => Newer(i, oldest)
  <1> DEFINE inserted == Inserted(data, entry)
             new == Allocated(data, entry)
  <1>0. Len(data) \in Nat /\ (\A i \in 1..Len(data) : data[i] \in CLEntries)
        /\ Ways \in Nat /\ Ways > 0
    BY SizeAssumption
  <1>1. CASE Policy = "LRU"
    <2> DEFINE f == [i \in 1..Len(new) |-> i - 1]
    <2>1. /\ inserted \in Seq(CLEntries) /\ Len(inserted) = Len(data) + 1
          /\ inserted[1] = entry
          /\ \A i \in 2..(Len(data) + 1) : inserted[i] = data[i - 1]
      BY <1>0, <1>1 DEF Inserted
    <2>2. /\ new \in Seq(CLEntries)
          /\ Len(new) = IF Len(data) = Ways THEN Ways ELSE Len(data) + 1
          /\ \A i \in 1..Len(new) : new[i] = inserted[i]
      BY <1>0, <1>1, <2>1 DEF Allocated, WithoutOldest
    <2>3. f \in [1..Len(new) -> Int]
      BY <2>2
    <2>4. ASSUME NEW gone \in {0, Ways}, gone = Ways <=> Len(data) = Ways
          PROVE  Renewed(data, new, entry, gone)
      <3>1. \A i \in (1..Len(new)) \ {1} :
                /\ Newer(1, i)
                /\ f[i] \in (1..Len(data)) \ {gone}
                /\ new[i] = data[f[i]]
        BY <1>0, <1>1, <2>1, <2>2, <2>4 DEF Newer
      <3>2. \A i, j \in (1..Len(new)) \ {1} : Newer(i, j) => Newer(f[i], f[j])
        BY <1>0, <1>1, <2>2 DEF Newer
      <3>3. ASSUME NEW m \in (1..Len(data)) \ {gone}
            PROVE  \E i \in (1..Len(new)) \ {1} : f[i] = m
        <4>1. m + 1 \in (1..Len(new)) \ {1} /\ f[m + 1] = m
          BY <1>0, <2>2, <2>4
        <4> QED
          BY <4>1
      <3>4. new[1] = entry /\ 1 \in 1..Len(new)
        BY <1>0, <2>1, <2>2
      <3> HIDE DEF f, new
      <3>5. RenewedBy(data, new, entry, gone, 1, f)
        BY <3>1, <3>2, <3>3, <3>4 DEF RenewedBy
      <3> QED
        BY <2>2, <2>3, <3>4, <3>5 DEF Renewed
    <2>5. Len(data) = Ways => Oldest(inserted) = data[Ways]
      BY <1>0, <1>1, <2>1 DEF Oldest
    <2>6. \A i \in 1..Ways : i # Ways => Newer(i, Ways)
      BY <1>0, <1>1 DEF Newer
    <2>7. ASSUME Len(data) < Ways PROVE Renewed(data, new, entry, 0)
      <3>1. 0 \in {0, Ways} /\ (0 = Ways <=> Len(data) = Ways)
        BY <1>0, <2>7
      <3> QED
        BY <2>4, <3>1, Zenon
    <2>8. ASSUME Len(data) = Ways PROVE Renewed(data, new, entry, Ways)
      BY <2>4, <2>8, Zenon
    <2>9. (IF Policy = "LRU" THEN Ways ELSE 1) = Ways
      BY <1>1
    <2>10. /\ Len(data) < Ways => ~(Len(inserted) > Ways) /\ Len(new) = Len(data) + 1
           /\ Len(data) = Ways => Len(inserted) > Ways /\ Len(new) = Ways
      BY <1>0, <2>1, <2>2
    <2> HIDE DEF inserted, new
    <2>11. /\ Len(data) < Ways =>
                  /\ ~(Len(inserted) > Ways)
                  /\ Renewed(data, new, entry, 0)
                  /\ Len(new) = Len(data) + 1
           /\ Len(data) = Ways =>
                  /\ Len(inserted) > Ways
                  /\ Len(new) = Ways
                  /\ Oldest(inserted) = data[Ways]
                  /\ Renewed(data, new, entry, Ways)
                  /\ \A i \in 1..Ways : i # Ways => Newer(i, Ways)
      BY <2>5, <2>6, <2>7, <2>8, <2>10, Zenon
    <2> QED
      BY <2>9, <2>11, Zenon DEF inserted, new
  <1>2. CASE Policy = "FIFO"
    <2> DEFINE f == [i \in 1..Len(new) |-> IF Len(data) = Ways THEN i + 1 ELSE i]
               k == Len(new)
    <2>1. /\ inserted \in Seq(CLEntries) /\ Len(inserted) = Len(data) + 1
          /\ inserted[Len(data) + 1] = entry
          /\ \A i \in 1..Len(data) : inserted[i] = data[i]
      BY <1>0, <1>2 DEF Inserted
    <2>2. /\ new \in Seq(CLEntries)
          /\ Len(new) = IF Len(data) = Ways THEN Ways ELSE Len(data) + 1
          /\ \A i \in 1..Len(new) :
                 new[i] = inserted[IF Len(data) = Ways THEN i + 1 ELSE i]
      BY <1>0, <1>2, <2>1 DEF Allocated, WithoutOldest
    <2>3. f \in [1..Len(new) -> Int]
      BY <2>2
    <2>4. ASSUME NEW gone \in {0, 1}, gone = 1 <=> Len(data) = Ways
          PROVE  Renewed(data, new, entry, gone)
      <3>1. \A i \in (1..Len(new)) \ {k} :
                /\ Newer(k, i)
                /\ f[i] \in (1..Len(data)) \ {gone}
                /\ new[i] = data[f[i]]
        BY SMTT(20), <1>0, <1>2, <2>1, <2>2, <2>4 DEF Newer
      <3>2. \A i, j \in (1..Len(new)) \ {k} : Newer(i, j) => Newer(f[i], f[j])
        BY <1>0, <1>2, <2>2 DEF Newer
      <3>3. ASSUME NEW m \in (1..Len(data)) \ {gone}
            PROVE  \E i \in (1..Len(new)) \ {k} : f[i] = m
        <4> DEFINE i == IF Len(data) = Ways THEN m - 1 ELSE m
        <4>1. i \in (1..Len(new)) \ {k} /\ f[i] = m
          BY <1>0, <2>2, <2>4
        <4> QED
          BY <4>1
      <3>4. new[k] = entry /\ k \in 1..Len(new)
        BY <1>0, <2>1, <2>2
      <3> HIDE DEF f, new
      <3>5. RenewedBy(data, new, entry, gone, k, f)
        BY <3>1, <3>2, <3>3, <3>4 DEF RenewedBy
      <3> QED
        BY <2>2, <2>3, <3>4, <3>5 DEF Renewed
    <2>5. Len(data) = Ways => Oldest(inserted) = data[1]
      BY <1>0, <1>2, <2>1 DEF Oldest
    <2>6. \A i \in 1..Ways : i # 1 => Newer(i, 1)
      BY <1>0, <1>2 DEF Newer
    <2>7. ASSUME Len(data) < Ways PROVE Renewed(data, new, entry, 0)
      <3>1. 0 \in {0, 1} /\ (0 = 1 <=> Len(data) = Ways)
        BY <1>0, <2>7
      <3> QED
        BY <2>4, <3>1, Zenon
    <2>8. ASSUME Len(data) = Ways PROVE Renewed(data, new, entry, 1)
      BY <2>4, <2>8, Zenon
    <2>9. (IF Policy = "LRU" THEN Ways ELSE 1) = 1
      BY <1>2
    <2>10. /\ Len(data) < Ways => ~(Len(inserted) > Ways) /\ Len(new) = Len(data) + 1
           /\ Len(data) = Ways => Len(inserted) > Ways /\ Len(new) = Ways
      BY <1>0, <2>1, <2>2
    <2> HIDE DEF inserted, new
    <2>11. /\ Len(data) < Ways =>
                  /\ ~(Len(inserted) > Ways)
                  /\ Renewed(data, new, entry, 0)
                  /\ Len(new) = Len(data) + 1
           /\ Len(data) = Ways =>
                  /\ Len(inserted) > Ways
                  /\ Len(new) = Ways
                  /\ Oldest(inserted) = data[1]
                  /\ Renewed(data, new, entry, 1)
                  /\ \A i \in 1..Ways : i # 1 => Newer(i, 1)
      BY <2>5, <2>6, <2>7, <2>8, <2>10, Zenon
    <2> QED
      BY <2>9, <2>11, Zenon DEF inserted, new
  <1> QED
    BY <1>1, <1>2, PolicyAssumption

(* What is in a renewed set.                                               *)
LEMMA RenewedMembers ==
    ASSUME NEW data \in Seq(CLEntries), NEW new, NEW entry, NEW gone,
           Renewed(data, new, entry, gone)
    PROVE  /\ new \in Seq(CLEntries)
           /\ IsIn(new, entry.id)
           /\ \A i \in 1..Len(new) :
                  \/ new[i] = entry
                  \/ \E m \in (1..Len(data)) \ {gone} : new[i] = data[m]
           /\ \A m \in (1..Len(data)) \ {gone} : IsIn(new, data[m].id)
  <1>1. PICK k \in 1..Len(new), f \in [1..Len(new) -> Int] :
            RenewedBy(data, new, entry, gone, k, f)
    BY DEF Renewed
  <1>2. IsIn(new, entry.id)
    BY <1>1 DEF RenewedBy, IsIn
  <1>3. \A m \in (1..Len(data)) \ {gone} : IsIn(new, data[m].id)
    BY <1>1 DEF RenewedBy, IsIn
  <1>4. ASSUME NEW i \in 1..Len(new), new[i] # entry
        PROVE  \E m \in (1..Len(data)) \ {gone} : new[i] = data[m]
    <2>1. i # k
      BY <1>1, <1>4 DEF RenewedBy
    <2> QED
      BY <1>1, <2>1 DEF RenewedBy
  <1> QED
    BY <1>2, <1>3, <1>4 DEF Renewed

LEMMA RenewedSound ==
    ASSUME NEW data \in Seq(CLEntries), NEW s \in SetIds, SetSound(data, s),
           NEW new, NEW entry \in CLEntries, NEW gone,
           Renewed(data, new, entry, gone),
           Len(new) <= Ways,
           GetSetId(entry.id) = s,
           \A m \in 1..Len(data) : data[m].id = entry.id => m = gone
    PROVE  SetSound(new, s)
  <1>0. PICK k \in 1..Len(new), f \in [1..Len(new) -> Int] :
            RenewedBy(data, new, entry, gone, k, f)
    BY DEF Renewed
  <1>1. new \in Seq(CLEntries) /\ Len(new) \in Nat
    BY DEF Renewed
  <1>2. \A i \in 1..Len(new) : GetSetId(new[i].id) = s
    <2>1. ASSUME NEW i \in 1..Len(new), i # k PROVE GetSetId(new[i].id) = s
      <3>1. f[i] \in 1..Len(data) /\ new[i] = data[f[i]]
        BY <1>0, <2>1 DEF RenewedBy
      <3> QED
        BY <3>1 DEF SetSound
    <2>2. GetSetId(new[k].id) = s
      BY <1>0 DEF RenewedBy
    <2> QED
      BY <2>1, <2>2
  <1>3. ASSUME NEW i \in (1..Len(new)) \ {k} PROVE new[i].id # entry.id
    BY <1>0 DEF RenewedBy
  <1>4. ASSUME NEW i \in (1..Len(new)) \ {k}, NEW j \in (1..Len(new)) \ {k},
               i # j
        PROVE  new[i].id # new[j].id
    <2>1. Newer(i, j) \/ Newer(j, i)
      BY <1>4 DEF Newer
    <2>2. Newer(f[i], f[j]) \/ Newer(f[j], f[i])
      BY <1>0, <2>1 DEF RenewedBy
    <2>3. f[i] \in 1..Len(data) /\ f[j] \in 1..Len(data) /\ f[i] # f[j]
      BY <1>0, <2>2 DEF RenewedBy, Newer
    <2>4. data[f[i]].id # data[f[j]].id
      BY <2>3 DEF SetSound
    <2> QED
      BY <1>0, <2>4 DEF RenewedBy
  <1>5. new[k].id = entry.id
    BY <1>0 DEF RenewedBy
  <1> QED
    BY <1>2, <1>3, <1>4, <1>5 DEF SetSound

LEMMA RenewedOrdered ==
    ASSUME NEW data \in Seq(CLEntries), NEW new, NEW entry \in CLEntries, NEW gone,
           Renewed(data, new, entry, gone),
           NEW use \in [CLIDs -> Nat], NEW now \in Nat,
           SetOrdered(data, use), \A id \in CLIDs : use[id] <= now,
           \A m \in 1..Len(data) : data[m].id = entry.id => m = gone
    PROVE  SetOrdered(new, [use EXCEPT ![entry.id] = now + 1])
  <1> DEFINE use2 == [use EXCEPT ![entry.id] = now + 1]
  <1>0. PICK k \in 1..Len(new), f \in [1..Len(new) -> Int] :
            RenewedBy(data, new, entry, gone, k, f)
    BY DEF Renewed
  <1>1. new \in Seq(CLEntries) /\ Len(new) \in Nat /\ Len(data) \in Nat
    BY DEF Renewed
  <1>2. entry.id \in CLIDs /\ new[k].id = entry.id /\ use2[entry.id] = now + 1
    BY <1>0 DEF RenewedBy, CLEntries
  <1>3. ASSUME NEW i \in (1..Len(new)) \ {k}
        PROVE  /\ f[i] \in 1..Len(data)
               /\ new[i].id = data[f[i]].id
               /\ data[f[i]].id \in CLIDs
               /\ use2[new[i].id] = use[data[f[i]].id]
               /\ use2[new[i].id] < now + 1
               /\ Newer(k, i)
    <2>1. f[i] \in (1..Len(data)) \ {gone} /\ new[i] = data[f[i]] /\ Newer(k, i)
      BY <1>0 DEF RenewedBy
    <2>2. data[f[i]].id # entry.id
      BY <2>1
    <2>3. data[f[i]] \in CLEntries
      BY <2>1
    <2>4. data[f[i]].id \in CLIDs
      BY <2>3 DEF CLEntries
    <2> QED
      BY <2>1, <2>2, <2>4
  <1>4. ASSUME NEW i \in 1..Len(new), NEW j \in 1..Len(new), Newer(i, j)
        PROVE  use2[new[i].id] > use2[new[j].id]
    <2>1. CASE i = k
      <3>1. j # k
        BY <1>1, <1>4, <2>1 DEF Newer
      <3> QED
        BY <1>2, <1>3, <2>1, <3>1
    <2>2. CASE j = k
      <3>1. i # k
        BY <1>1, <1>4, <2>2 DEF Newer
      <3>2. Newer(k, i)
        BY <1>3, <3>1
      <3> QED
        BY <1>1, <1>4, <2>2, <3>2 DEF Newer
    <2>3. CASE i # k /\ j # k
      <3>1. Newer(f[i], f[j])
        BY <1>0, <1>4, <2>3 DEF RenewedBy
      <3>2. use[data[f[i]].id] > use[data[f[j]].id]
        BY <1>3, <2>3, <3>1 DEF SetOrdered
      <3> QED
        BY <1>3, <2>3, <3>2
    <2> QED
      BY <2>1, <2>2, <2>3
  <1> HIDE DEF use2
  <1>5. SetOrdered(new, use2)
    BY <1>4 DEF SetOrdered
  <1> QED
    BY <1>5 DEF use2
-----------------------------------------------------------------------------
(* The invariant: the time of a use is past, and without write-back no     *)
(* store waits in the cache.                                               *)
HistoryInv ==
    /\ \A id \in CLIDs : used[id] <= clock
    /\ ~WriteBack => unsaved = {}

IInv ==
    /\ TypeOK
    /\ PlacementSound
    /\ DirtyIsUnsaved
    /\ HoldsTheMostRecent
    /\ HistoryInv

LEMMA InitIInv == Init => IInv
  <1> SUFFICES ASSUME Init PROVE IInv
    OBVIOUS
  <1> USE DEF Init
  <1>1. TypeOK
    <2>1. bySet \in [SetIds -> CacheMetrics]
      BY DEF CacheMetrics
    <2>2. byPc \in [Pcs -> [seen : BOOLEAN, stat : CacheOpStat]]
      BY DEF NoEntry, NoStat, ZeroStat, CacheOpStat
    <2> QED
      BY <2>1, <2>2 DEF TypeOK
  <1>2. PlacementSound /\ DirtyIsUnsaved /\ HoldsTheMostRecent
    BY SizeAssumption DEF PlacementSound, SetSound, DirtyIsUnsaved,
       HoldsTheMostRecent, SetOrdered, AbsentIsOlder
  <1>3. HistoryInv
    BY DEF HistoryInv
  <1> QED
    BY <1>1, <1>2, <1>3 DEF IInv

LEMMA BeginRecordIInv ==
    ASSUME IInv, NEW r \in Records, BeginRecord(r) PROVE IInv'
  <1>1. r \in MemRecords
    BY RecordsAssumption
  <1>2. UNCHANGED <<placement, bySet, clock, used, unsaved>>
    BY DEF BeginRecord
  <1>3. TypeOK'
    <2>1. /\ r.pc \in Pcs /\ r.srcAddr \in Addresses /\ r.dstAddr \in Addresses
          /\ r.srcMemSize \in Nat /\ r.dstMemSize \in Nat
      BY <1>1 DEF MemRecords
    <2>2. Addresses \subseteq Nat
      BY SizeAssumption DEF Addresses
    <2>3. byPc' \in [Pcs -> [seen : BOOLEAN, stat : CacheOpStat]]
      <3>1. byPc \in [Pcs -> [seen : BOOLEAN, stat : CacheOpStat]]
        BY DEF IInv, TypeOK
      <3>2. Invalid(byPc[r.pc]) \in [seen : BOOLEAN, stat : CacheOpStat]
        BY <2>1, <3>1 DEF CacheOpStat, Invalid
      <3>3. byPc' = byPc \/ byPc' = [byPc EXCEPT ![r.pc] = Invalid(byPc[r.pc])]
        BY <2>1, <3>1 DEF BeginRecord
      <3> QED
        BY <2>1, <3>1, <3>2, <3>3
    <2>4. \/ call' = NoCall
          \/ call' \in [op : {"load", "store"}, pc : Pcs, next : 0..Lines,
                        last : CLIDs, stat : CacheOpStat]
      <3>1. CASE call' = call
        BY <3>1 DEF IInv, TypeOK
      <3>2. CASE r.src = "GM" /\ call' # call
        <4>1. /\ GetCLID(r.srcAddr) \in CLIDs
              /\ GetCLID(LastByte(r.srcAddr, r.srcMemSize)) \in CLIDs
          BY <2>1, <2>2, CLIDInRange, LastByteInRange
        <4>2. call' = [op |-> "load", pc |-> r.pc, next |-> GetCLID(r.srcAddr),
                       last |-> GetCLID(LastByte(r.srcAddr, r.srcMemSize)),
                       stat |-> ZeroStat]
          BY <3>2 DEF BeginRecord
        <4>3. CLIDs \subseteq 0..Lines /\ ZeroStat \in CacheOpStat
          BY SizeAssumption DEF CLIDs, ZeroStat, CacheOpStat
        <4> QED
          BY <2>1, <4>1, <4>2, <4>3
      <3>3. CASE r.src # "GM" /\ call' # call
        <4>1. /\ GetCLID(r.dstAddr) \in CLIDs
              /\ GetCLID(LastByte(r.dstAddr, r.dstMemSize)) \in CLIDs
          BY <2>1, <2>2, CLIDInRange, LastByteInRange
        <4>2. call' = [op |-> "store", pc |-> r.pc, next |-> GetCLID(r.dstAddr),
                       last |-> GetCLID(LastByte(r.dstAddr, r.dstMemSize)),
                       stat |-> ZeroStat]
          BY <3>3 DEF BeginRecord
        <4>3. CLIDs \subseteq 0..Lines /\ ZeroStat \in CacheOpStat
          BY SizeAssumption DEF CLIDs, ZeroStat, CacheOpStat
        <4> QED
          BY <2>1, <4>1, <4>2, <4>3
      <3> QED
        BY <3>1, <3>2, <3>3
    <2> QED
      BY <1>2, <2>3, <2>4 DEF IInv, TypeOK
  <1> QED
    BY <1>2, <1>3 DEF IInv, PlacementSound, DirtyIsUnsaved, HoldsTheMostRecent,
       HistoryInv, SetSound, SetOrdered, AbsentIsOlder, IsIn

LEMMA EndRecordIInv ==
    ASSUME IInv, EndRecord PROVE IInv'
  <1>1. UNCHANGED <<placement, bySet, clock, used, unsaved>> /\ call' = NoCall
    BY DEF EndRecord
  <1>2. byPc' \in [Pcs -> [seen : BOOLEAN, stat : CacheOpStat]]
    <2>1. call.pc \in Pcs /\ call.stat \in CacheOpStat
      BY DEF EndRecord, IInv, TypeOK, NoCall
    <2>2. ASSUME NEW a \in CacheOpStat, NEW b \in CacheOpStat
          PROVE  Plus(a, b) \in CacheOpStat
      BY DEF Plus, CacheOpStat
    <2>3. byPc \in [Pcs -> [seen : BOOLEAN, stat : CacheOpStat]]
      BY DEF IInv, TypeOK
    <2>4. Merged(byPc[call.pc], call.stat) \in [seen : BOOLEAN, stat : CacheOpStat]
      BY <2>1, <2>2, <2>3 DEF Merged
    <2> QED
      BY <2>1, <2>3, <2>4 DEF EndRecord
  <1>3. TypeOK'
    BY <1>1, <1>2 DEF IInv, TypeOK
  <1>4. (PlacementSound /\ DirtyIsUnsaved /\ HistoryInv)'
    BY <1>1 DEF IInv, PlacementSound, DirtyIsUnsaved, HistoryInv, SetSound, IsIn
  <1>5. HoldsTheMostRecent'
    BY <1>1 DEF IInv, HoldsTheMostRecent, SetOrdered, AbsentIsOlder, IsIn
  <1> QED
    BY <1>3, <1>4, <1>5 DEF IInv
-----------------------------------------------------------------------------
(* What every access to a line does.                                       *)
LEMMA AccessFacts ==
    ASSUME IInv, NEW id \in CLIDs, Access(id)
    PROVE  /\ call \in [op : {"load", "store"}, pc : Pcs, next : 0..Lines,
                        last : CLIDs, stat : CacheOpStat]
           /\ id + 1 \in 0..Lines
           /\ GetSetId(id) \in SetIds
           /\ placement \in [SetIds -> Seq(CLEntries)]
           /\ bySet \in [SetIds -> CacheMetrics]
           /\ used \in [CLIDs -> Nat] /\ clock \in Nat /\ unsaved \subseteq CLIDs
           /\ clock' = clock + 1
           /\ used' = [used EXCEPT ![id] = clock + 1]
           /\ byPc' = byPc
           /\ \A x \in CLIDs : used'[x] <= clock'
  <1>1. call \in [op : {"load", "store"}, pc : Pcs, next : 0..Lines,
                 last : CLIDs, stat : CacheOpStat]
    BY DEF IInv, TypeOK, Access, NoCall
  <1>2. id + 1 \in 0..Lines /\ GetSetId(id) \in SetIds
    BY SizeAssumption, SetIdInRange DEF CLIDs
  <1>3. \A x \in CLIDs : used'[x] <= clock'
    BY DEF Access, IInv, TypeOK, HistoryInv
  <1> QED
    BY <1>1, <1>2, <1>3 DEF IInv, TypeOK, Access

LEMMA StatTypes ==
    ASSUME NEW pc \in Pcs, NEW metrics \in CacheMetrics
    PROVE  Hit(metrics, pc) \in CacheMetrics /\ Miss(metrics, pc) \in CacheMetrics
  <1>1. metrics.hit \in Nat /\ metrics.miss \in Nat
        /\ metrics.hitPc \cup {pc} \in SUBSET Pcs
        /\ metrics.missPc \cup {pc} \in SUBSET Pcs
    BY DEF CacheMetrics
  <1>2. ASSUME NEW n \in Nat, NEW S \in SUBSET Pcs
        PROVE  /\ [metrics EXCEPT !.hit = n, !.hitPc = S] \in CacheMetrics
               /\ [metrics EXCEPT !.miss = n, !.missPc = S] \in CacheMetrics
    BY DEF CacheMetrics
  <1>3. /\ Hit(metrics, pc) = [metrics EXCEPT !.hit = metrics.hit + 1,
                                             !.hitPc = metrics.hitPc \cup {pc}]
        /\ Miss(metrics, pc) = [metrics EXCEPT !.miss = metrics.miss + 1,
                                              !.missPc = metrics.missPc \cup {pc}]
    BY DEF Hit, Miss
  <1>4. metrics.hit + 1 \in Nat /\ metrics.miss + 1 \in Nat
    BY <1>1
  <1> QED
    BY <1>1, <1>2, <1>3, <1>4

(* The line of id was renewed in its set and in no other: what has to be   *)
(* known of the access for the invariants about sets to hold again.        *)
LEMMA RenewedSets ==
    ASSUME IInv, NEW id \in CLIDs, Access(id),
           NEW data \in Seq(CLEntries),
           \* data is the old content of the set up to the dirty marks
           Len(data) = Len(placement[GetSetId(id)]),
           \A m \in 1..Len(data) : data[m].id = placement[GetSetId(id)][m].id,
           NEW new, NEW entry \in CLEntries, entry.id = id,
           NEW gone \in 0..Len(data),
           Renewed(data, new, entry, gone), Len(new) <= Ways,
           \A m \in 1..Len(data) : data[m].id = id => m = gone,
           \* what is left out is the line itself, nothing, or the oldest
           \/ gone # 0 /\ data[gone].id = id /\ Len(new) = Len(data)
           \/ gone = 0 /\ Len(new) = Len(data) + 1
           \/ /\ gone # 0 /\ Len(data) = Ways /\ Len(new) = Ways
              /\ \A i \in 1..Ways : i # gone => Newer(i, gone),
           placement' = [placement EXCEPT ![GetSetId(id)] = new]
    PROVE  PlacementSound' /\ HoldsTheMostRecent'
  <1> DEFINE s == GetSetId(id)
             old == placement[s]
  <1>0. /\ s \in SetIds /\ placement \in [SetIds -> Seq(CLEntries)]
        /\ used \in [CLIDs -> Nat] /\ clock \in Nat
        /\ clock' = clock + 1 /\ used' = [used EXCEPT ![id] = clock + 1]
        /\ \A x \in CLIDs : used[x] <= clock
        /\ new \in Seq(CLEntries)
    BY AccessFacts DEF IInv, HistoryInv, Renewed
  <1>1. placement'[s] = new /\ \A t \in SetIds : t # s => placement'[t] = placement[t]
    BY <1>0
  <1>2. SetSound(data, s) /\ SetOrdered(data, used)
    <2>1. SetSound(old, s) /\ SetOrdered(old, used)
      BY <1>0 DEF IInv, PlacementSound, HoldsTheMostRecent
    <2>2. Len(data) = Len(old) /\ \A m \in 1..Len(data) : data[m].id = old[m].id
      OBVIOUS
    <2> HIDE DEF old, s
    <2>3. SetSound(data, s)
      BY <2>1, <2>2 DEF SetSound
    <2>4. SetOrdered(data, used)
      BY <2>1, <2>2 DEF SetOrdered
    <2> QED
      BY <2>3, <2>4
  <1>3. SetSound(new, s)
    BY <1>0, <1>2, RenewedSound
  <1>4. SetOrdered(new, used')
    BY <1>0, <1>2, RenewedOrdered
  <1>5. ASSUME WriteBack /\ WriteAllocate
        PROVE  AbsentIsOlder(new, s, used')
    <2>0. AbsentIsOlder(data, s, used)
      <3>1. AbsentIsOlder(old, s, used)
        BY <1>0, <1>5 DEF IInv, HoldsTheMostRecent
      <3> QED
        BY <3>1 DEF AbsentIsOlder, IsIn
    <2>1. SUFFICES ASSUME NEW x \in CLIDs, GetSetId(x) = s, used'[x] > 0,
                          ~IsIn(new, x)
                   PROVE  /\ Len(new) = Ways
                          /\ \A i \in 1..Len(new) : used'[x] < used'[new[i].id]
      BY DEF AbsentIsOlder
    <2>2. /\ IsIn(new, id)
          /\ \A i \in 1..Len(new) :
                 \/ new[i] = entry
                 \/ \E m \in (1..Len(data)) \ {gone} : new[i] = data[m]
          /\ \A m \in (1..Len(data)) \ {gone} : IsIn(new, data[m].id)
      BY RenewedMembers
    <2>3. x # id /\ used'[x] = used[x] /\ used[x] > 0
      BY <1>0, <2>1, <2>2
    <2>4. \A m \in (1..Len(data)) \ {gone} : data[m].id # x
      BY <2>1, <2>2
    <2>5. Len(new) \in Nat /\ Len(data) \in Nat /\ Ways \in Nat
          /\ \A m \in 1..Len(data) : data[m].id \in CLIDs
      <3>1. \A m \in 1..Len(data) : data[m] \in CLEntries
        OBVIOUS
      <3> QED
        BY SMTT(20), <1>0, <3>1, SizeAssumption DEF CLEntries
    <2>6. CASE IsIn(data, x)
      <3>1. gone \in 1..Len(data) /\ data[gone].id = x
        BY <2>4, <2>6 DEF IsIn
      <3>2. /\ Len(data) = Ways /\ Len(new) = Ways
            /\ \A m \in 1..Ways : m # gone => Newer(m, gone)
        BY <2>3, <3>1
      <3>3. \A m \in (1..Len(data)) \ {gone} : used[x] < used[data[m].id]
        BY <1>2, <2>5, <3>1, <3>2 DEF SetOrdered
      <3>4. ASSUME NEW i \in 1..Len(new)
            PROVE  used'[x] < used'[new[i].id]
        <4>1. CASE new[i] = entry
          BY <1>0, <2>3, <4>1
        <4>2. CASE new[i] # entry
          <5>1. PICK m \in (1..Len(data)) \ {gone} : new[i] = data[m]
            BY <2>2, <4>2
          <5>2. data[m].id # id
            BY <2>3, <3>1
          <5> QED
            BY <1>0, <2>3, <2>5, <3>3, <5>1, <5>2
        <4> QED
          BY <4>1, <4>2
      <3> QED
        BY <3>2, <3>4
    <2>7. CASE ~IsIn(data, x)
      <3>1. /\ Len(data) = Ways
            /\ \A m \in 1..Len(data) : used[x] < used[data[m].id]
        BY <2>0, <2>1, <2>3, <2>7 DEF AbsentIsOlder
      <3>2. Len(new) = Ways
        BY <2>5, <3>1
      <3>4. ASSUME NEW i \in 1..Len(new)
            PROVE  used'[x] < used'[new[i].id]
        <4>1. CASE new[i] = entry
          BY <1>0, <2>3, <4>1
        <4>2. CASE new[i] # entry
          <5>1. PICK m \in (1..Len(data)) \ {gone} : new[i] = data[m]
            BY <2>2, <4>2
          <5> QED
            BY <1>0, <2>3, <2>5, <3>1, <5>1
        <4> QED
          BY <4>1, <4>2
      <3> QED
        BY <3>2, <3>4
    <2> QED
      BY <2>6, <2>7
  <1>6. ASSUME NEW t \in SetIds, t # s
        PROVE  /\ SetSound(placement'[t], t)
               /\ SetOrdered(placement'[t], used')
               /\ WriteBack /\ WriteAllocate
                  => AbsentIsOlder(placement'[t], t, used')
    <2>1. placement'[t] = placement[t] /\ placement[t] \in Seq(CLEntries)
      BY <1>0, <1>1, <1>6
    <2>2. SetSound(placement[t], t)
      BY DEF IInv, PlacementSound
    <2>3. \A i \in 1..Len(placement[t]) :
              /\ placement[t][i].id \in CLIDs
              /\ placement[t][i].id # id
      <3>1. \A i \in 1..Len(placement[t]) : placement[t][i] \in CLEntries
        BY <2>1
      <3>2. \A i \in 1..Len(placement[t]) : GetSetId(placement[t][i].id) = t
        BY <2>2 DEF SetSound
      <3> QED
        BY <1>6, <3>1, <3>2 DEF CLEntries
    <2>4. SetOrdered(placement[t], used)
      BY DEF IInv, HoldsTheMostRecent
    <2>5. SetOrdered(placement[t], used')
      BY <1>0, <2>3, <2>4 DEF SetOrdered
    <2>6. ASSUME WriteBack /\ WriteAllocate
          PROVE  AbsentIsOlder(placement[t], t, used')
      <3>1. AbsentIsOlder(placement[t], t, used)
        BY <2>6 DEF IInv, HoldsTheMostRecent
      <3> QED
        BY <1>0, <1>6, <2>3, <3>1 DEF AbsentIsOlder
    <2> QED
      BY <2>1, <2>2, <2>5, <2>6
  <1>7. \A t \in SetIds :
            /\ SetSound(placement'[t], t)
            /\ SetOrdered(placement'[t], used')
            /\ WriteBack /\ WriteAllocate
               => AbsentIsOlder(placement'[t], t, used')
    BY <1>1, <1>3, <1>4, <1>5, <1>6
  <1> QED
    BY <1>7 DEF PlacementSound, HoldsTheMostRecent

(* What RenewedSets leaves of the types and of the stores.                 *)
LEMMA RenewedTypes ==
    ASSUME IInv, NEW id \in CLIDs, Access(id),
           NEW new \in Seq(CLEntries),
           placement' = [placement EXCEPT ![GetSetId(id)] = new],
           \/ bySet' = [bySet EXCEPT ![GetSetId(id)] = Hit(@, call.pc)]
           \/ bySet' = [bySet EXCEPT ![GetSetId(id)] = Miss(@, call.pc)],
           call' \in [op : {"load", "store"}, pc : Pcs, next : 0..Lines,
                      last : CLIDs, stat : CacheOpStat],
           unsaved' \subseteq CLIDs,
           ~WriteBack => unsaved' = {}
    PROVE  TypeOK' /\ HistoryInv'
  <1>0. /\ call.pc \in Pcs /\ GetSetId(id) \in SetIds
        /\ placement \in [SetIds -> Seq(CLEntries)]
        /\ bySet \in [SetIds -> CacheMetrics]
        /\ used \in [CLIDs -> Nat] /\ clock \in Nat
        /\ clock' = clock + 1 /\ used' = [used EXCEPT ![id] = clock + 1]
        /\ byPc' = byPc
        /\ \A x \in CLIDs : used'[x] <= clock'
    BY AccessFacts
  <1>1. bySet' \in [SetIds -> CacheMetrics]
    <2> DEFINE m == bySet[GetSetId(id)]
    <2>1. Hit(m, call.pc) \in CacheMetrics /\ Miss(m, call.pc) \in CacheMetrics
      BY <1>0, StatTypes
    <2>2. \/ bySet' = [bySet EXCEPT ![GetSetId(id)] = Hit(m, call.pc)]
          \/ bySet' = [bySet EXCEPT ![GetSetId(id)] = Miss(m, call.pc)]
      BY <1>0
    <2> QED
      BY <1>0, <2>1, <2>2
  <1>2. clock' \in Nat /\ used' \in [CLIDs -> Nat]
    BY <1>0
  <1>3. byPc' \in [Pcs -> [seen : BOOLEAN, stat : CacheOpStat]]
    BY <1>0 DEF IInv, TypeOK
  <1>4. placement' \in [SetIds -> Seq(CLEntries)]
    BY <1>0
  <1> QED
    BY <1>0, <1>1, <1>2, <1>3, <1>4 DEF TypeOK, HistoryInv

(* Counting a hit or a miss.                                               *)
LEMMA CountedStat ==
    ASSUME NEW stat \in CacheOpStat
    PROVE  /\ [stat EXCEPT !.hit = stat.hit + 1] \in CacheOpStat
           /\ [stat EXCEPT !.miss = stat.miss + 1] \in CacheOpStat
  <1>1. [stat EXCEPT !.hit = stat.hit + 1] \in CacheOpStat
    BY DEF CacheOpStat
  <1>2. [stat EXCEPT !.miss = stat.miss + 1] \in CacheOpStat
    BY DEF CacheOpStat
  <1> QED
    BY <1>1, <1>2

LEMMA AccessHitIInv ==
    ASSUME IInv, NEW id \in CLIDs, AccessHit(id) PROVE IInv'
  <1> DEFINE s == GetSetId(id)
             old == placement[s]
  <1>1. PICK location \in 1..Len(old) :
            /\ Access(id)
            /\ IsAt(old, location, id)
            /\ bySet' = [bySet EXCEPT ![s] = Hit(@, call.pc)]
            /\ call' = [call EXCEPT !.next = id + 1, !.stat.hit = @ + 1]
            /\ placement' = [placement EXCEPT ![s] =
                   HitRefresh([old EXCEPT ![location].isDirty =
                                  \/ old[location].isDirty
                                  \/ (call.op = "store" /\ WriteBack)],
                              location)]
            /\ unsaved' = IF call.op = "store" /\ WriteBack
                          THEN unsaved \cup {id} ELSE unsaved
    BY DEF AccessHit
  <1> DEFINE dirty == old[location].isDirty \/ (call.op = "store" /\ WriteBack)
             data == [old EXCEPT ![location].isDirty = dirty]
             new == HitRefresh(data, location)
             entry == data[location]
  <1>2. /\ s \in SetIds /\ old \in Seq(CLEntries) /\ unsaved \subseteq CLIDs
        /\ placement \in [SetIds -> Seq(CLEntries)]
        /\ call \in [op : {"load", "store"}, pc : Pcs, next : 0..Lines,
                     last : CLIDs, stat : CacheOpStat]
        /\ id + 1 \in 0..Lines
    BY <1>1, AccessFacts
  <1>3. /\ old[location] \in CLEntries /\ old[location].id = id
        /\ SetSound(old, s)
        /\ dirty \in BOOLEAN
    <2>1. old[location] \in CLEntries /\ old[location].id = id
      BY <1>1, <1>2 DEF IsAt
    <2>2. SetSound(old, s)
      BY <1>2 DEF IInv, PlacementSound
    <2> QED
      BY <2>1, <2>2
  <1>4. /\ data \in Seq(CLEntries) /\ Len(data) = Len(old)
        /\ entry = [id |-> id, isDirty |-> dirty] /\ entry \in CLEntries
        /\ \A m \in 1..Len(old) : m # location => data[m] = old[m]
    <2>1. [old[location] EXCEPT !.isDirty = dirty] = [id |-> id, isDirty |-> dirty]
      BY <1>3 DEF CLEntries
    <2>2. data = [old EXCEPT ![location] = [id |-> id, isDirty |-> dirty]]
      BY <2>1
    <2>3. [id |-> id, isDirty |-> dirty] \in CLEntries
      BY <1>3 DEF CLEntries
    <2> QED
      BY <1>2, <2>2, <2>3
  <1> HIDE DEF data
  <1>5. Renewed(data, new, entry, location) /\ Len(new) = Len(data)
        /\ new \in Seq(CLEntries)
    BY <1>4, RefreshRenews DEF Renewed
  <1> HIDE DEF new
  <1>6. /\ \A m \in 1..Len(data) : data[m].id = old[m].id
        /\ \A m \in 1..Len(data) : data[m].id = id => m = location
        /\ Len(new) <= Ways
    BY <1>3, <1>4, <1>5 DEF SetSound
  <1>7. placement' = [placement EXCEPT ![s] = new]
    BY <1>1 DEF new, data
  <1>8. PlacementSound' /\ HoldsTheMostRecent'
    <2>1. entry.id = id /\ location \in 0..Len(data) /\ location # 0
          /\ data[location].id = id
      BY <1>2, <1>4
    <2> QED
      BY <1>1, <1>4, <1>5, <1>6, <1>7, <2>1, RenewedSets
  <1>9. TypeOK' /\ HistoryInv'
    <2>1. call' \in [op : {"load", "store"}, pc : Pcs, next : 0..Lines,
                     last : CLIDs, stat : CacheOpStat]
      <3>1. [call.stat EXCEPT !.hit = call.stat.hit + 1] \in CacheOpStat
        <4>1. call.stat \in CacheOpStat
          BY <1>2
        <4> QED
          BY <4>1, CountedStat, Zenon
      <3>2. call' = [call EXCEPT !.next = id + 1,
                                 !.stat = [call.stat EXCEPT !.hit = call.stat.hit + 1]]
        BY <1>1
      <3> QED
        BY <1>2, <3>1, <3>2
    <2>2. unsaved' \subseteq CLIDs /\ (~WriteBack => unsaved' = {})
      BY <1>1, <1>2 DEF IInv, HistoryInv
    <2> QED
      BY <1>1, <1>5, <1>7, <2>1, <2>2, RenewedTypes
  <1>10. DirtyIsUnsaved'
    <2>0. /\ IsIn(new, id)
          /\ \A i \in 1..Len(new) :
                 \/ new[i] = entry
                 \/ \E m \in (1..Len(data)) \ {location} : new[i] = data[m]
          /\ \A m \in (1..Len(data)) \ {location} : IsIn(new, data[m].id)
      <3> PICK e : e = entry
        OBVIOUS
      <3>1. e.id = id
        BY <1>4
      <3>2. data \in Seq(CLEntries) /\ Renewed(data, new, e, location)
        BY <1>4, <1>5
      <3>3. /\ IsIn(new, e.id)
            /\ \A i \in 1..Len(new) :
                   \/ new[i] = e
                   \/ \E m \in (1..Len(data)) \ {location} : new[i] = data[m]
            /\ \A m \in (1..Len(data)) \ {location} : IsIn(new, data[m].id)
        BY <3>2, RenewedMembers
      <3> QED
        BY <3>1, <3>3, Zenon
    <2>1. /\ placement'[s] = new
          /\ \A t \in SetIds : t # s => placement'[t] = placement[t]
      BY <1>2, <1>7
    <2>2. \A x \in CLIDs : x # id => (x \in unsaved' <=> x \in unsaved)
      BY <1>1
    <2>3. id \in unsaved' <=> dirty
      BY <1>1, <1>2, <1>3 DEF IInv, DirtyIsUnsaved
    <2>4. ASSUME NEW i \in 1..Len(new)
          PROVE  new[i].isDirty <=> new[i].id \in unsaved'
      <3>1. CASE new[i] = entry
        <4>1. new[i].id = id /\ new[i].isDirty = dirty
          BY <1>4, <3>1
        <4> HIDE DEF dirty
        <4> QED
          BY <2>3, <4>1
      <3>2. CASE new[i] # entry
        <4>1. PICK m \in (1..Len(data)) \ {location} : new[i] = data[m]
          BY <2>0, <3>2
        <4>2. new[i] = old[m] /\ old[m].id # id /\ old[m] \in CLEntries
          BY <1>2, <1>4, <1>6, <4>1
        <4>3. old[m].isDirty <=> old[m].id \in unsaved
          BY <1>2, <1>4, <4>1 DEF IInv, DirtyIsUnsaved
        <4> QED
          BY <2>2, <4>2, <4>3 DEF CLEntries
      <3> QED
        BY <3>1, <3>2
    <2>5. ASSUME NEW t \in SetIds, t # s, NEW i \in 1..Len(placement[t])
          PROVE  placement[t][i].isDirty <=> placement[t][i].id \in unsaved'
      <3>1. placement[t][i] \in CLEntries
        BY <1>2
      <3>2. placement[t][i].id # id
        BY <2>5 DEF IInv, PlacementSound, SetSound
      <3>3. placement[t][i].isDirty <=> placement[t][i].id \in unsaved
        BY DEF IInv, DirtyIsUnsaved
      <3> QED
        BY <2>2, <3>1, <3>2, <3>3 DEF CLEntries
    <2>6. ASSUME NEW x \in unsaved'
          PROVE  IsIn(placement'[GetSetId(x)], x)
      <3>1. x \in CLIDs /\ GetSetId(x) \in SetIds
        BY <1>1, <1>2, SetIdInRange
      <3>2. CASE x = id
        BY <2>0, <2>1, <3>2
      <3>3. CASE x # id
        <4>1. IsIn(placement[GetSetId(x)], x)
          BY <2>2, <3>1, <3>3 DEF IInv, DirtyIsUnsaved
        <4>2. CASE GetSetId(x) # s
          BY <2>1, <3>1, <4>1, <4>2
        <4>3. CASE GetSetId(x) = s
          <5>1. PICK m \in 1..Len(old) : old[m].id = x
            BY <4>1, <4>3 DEF IsIn
          <5>2. m # location /\ data[m].id = x
            BY <1>3, <1>4, <3>3, <5>1
          <5> QED
            BY <1>4, <2>0, <2>1, <4>3, <5>2
        <4> QED
          BY <4>2, <4>3
      <3> QED
        BY <3>2, <3>3
    <2> QED
      BY <2>1, <2>4, <2>5, <2>6 DEF DirtyIsUnsaved
  <1> QED
    BY <1>8, <1>9, <1>10 DEF IInv

LEMMA MissAndStoreThroughIInv ==
    ASSUME IInv, NEW id \in CLIDs, MissAndStoreThrough(id) PROVE IInv'
  <1>1. /\ Access(id) /\ ~IsIn(placement[GetSetId(id)], id)
        /\ ~(WriteBack /\ WriteAllocate)
        /\ bySet' = [bySet EXCEPT ![GetSetId(id)] = Miss(@, call.pc)]
        /\ call' = [call EXCEPT !.next = id + 1, !.stat.miss = @ + 1]
        /\ unsaved' = unsaved \ {id} /\ placement' = placement
    BY DEF MissAndStoreThrough
  <1>2. /\ GetSetId(id) \in SetIds /\ unsaved \subseteq CLIDs
        /\ placement \in [SetIds -> Seq(CLEntries)]
        /\ call \in [op : {"load", "store"}, pc : Pcs, next : 0..Lines,
                     last : CLIDs, stat : CacheOpStat]
        /\ id + 1 \in 0..Lines
        /\ used \in [CLIDs -> Nat] /\ clock \in Nat
        /\ used' = [used EXCEPT ![id] = clock + 1]
    BY <1>1, AccessFacts
  <1>3. id \notin unsaved
    BY <1>1 DEF IInv, DirtyIsUnsaved
  <1>4. unsaved' = unsaved
    BY <1>1, <1>3
  <1>5. TypeOK' /\ HistoryInv'
    <2>1. call' \in [op : {"load", "store"}, pc : Pcs, next : 0..Lines,
                     last : CLIDs, stat : CacheOpStat]
      <3>0. call.stat \in CacheOpStat
        BY <1>2
      <3>1. [call.stat EXCEPT !.miss = call.stat.miss + 1] \in CacheOpStat
        BY <3>0, CountedStat, Zenon
      <3>2. call' = [call EXCEPT !.next = id + 1,
                                 !.stat = [call.stat EXCEPT !.miss = call.stat.miss + 1]]
        BY <1>1
      <3> QED
        BY <1>2, <3>1, <3>2
    <2>2. ~WriteBack => unsaved' = {}
      BY <1>4 DEF IInv, HistoryInv
    <2>3. placement' = [placement EXCEPT ![GetSetId(id)] = placement[GetSetId(id)]]
          /\ placement[GetSetId(id)] \in Seq(CLEntries)
      BY <1>1, <1>2
    <2> QED
      BY <1>1, <1>2, <1>4, <2>1, <2>2, <2>3, RenewedTypes
  <1>6. PlacementSound' /\ DirtyIsUnsaved'
    BY <1>1, <1>4 DEF IInv, PlacementSound, DirtyIsUnsaved, SetSound, IsIn
  <1>7. HoldsTheMostRecent'
    <2>1. ASSUME NEW s \in SetIds PROVE SetOrdered(placement[s], used')
      <3>1. SetOrdered(placement[s], used)
        BY DEF IInv, HoldsTheMostRecent
      <3>2. \A i \in 1..Len(placement[s]) : placement[s][i] \in CLEntries
        BY <1>2
      <3>3. \A i \in 1..Len(placement[s]) : placement[s][i].id # id
        BY <1>1 DEF IInv, PlacementSound, SetSound, IsIn
      <3> QED
        BY <1>2, <3>1, <3>2, <3>3 DEF SetOrdered, CLEntries
    <2> QED
      BY <1>1, <2>1 DEF HoldsTheMostRecent
  <1> QED
    BY <1>5, <1>6, <1>7 DEF IInv

LEMMA CountMissType ==
    ASSUME NEW stat \in CacheOpStat, NEW replaced, NEW written
    PROVE  CountMiss(stat, replaced, written) \in CacheOpStat
  <1> DEFINE w == IF replaced /\ written THEN stat.evictAndWrite + 1
                  ELSE stat.evictAndWrite
             n == IF replaced /\ ~written THEN stat.evictWithoutWrite + 1
                  ELSE stat.evictWithoutWrite
  <1>1. /\ stat.miss + 1 \in Nat /\ stat.allocate + 1 \in Nat
        /\ w \in Nat /\ n \in Nat
    BY DEF CacheOpStat
  <1>2. CountMiss(stat, replaced, written) =
            [stat EXCEPT !.miss = stat.miss + 1, !.allocate = stat.allocate + 1,
                         !.evictAndWrite = w, !.evictWithoutWrite = n]
    BY DEF CountMiss
  <1> HIDE DEF w, n
  <1>3. ASSUME NEW a \in Nat, NEW b \in Nat
        PROVE  [stat EXCEPT !.miss = a, !.allocate = b,
                            !.evictAndWrite = w, !.evictWithoutWrite = n]
               \in CacheOpStat
    BY <1>1 DEF CacheOpStat
  <1> QED
    BY <1>1, <1>2, <1>3

LEMMA MissAndAllocateIInv ==
    ASSUME IInv, NEW id \in CLIDs, MissAndAllocate(id) PROVE IInv'
  <1> DEFINE s == GetSetId(id)
             old == placement[s]
             entry == [id |-> id, isDirty |-> call.op = "store"]
             inserted == Inserted(old, entry)
             new == Allocated(old, entry)
             replaced == Len(inserted) > Ways
             written == WriteBack /\ Oldest(inserted).isDirty
  <1>1. /\ Access(id) /\ ~IsIn(old, id)
        /\ call.op = "store" => WriteBack /\ WriteAllocate
        /\ bySet' = [bySet EXCEPT ![s] = Miss(@, call.pc)]
        /\ placement' = [placement EXCEPT ![s] = new]
        /\ call' = [call EXCEPT !.next = id + 1,
                                !.stat = CountMiss(@, replaced, written)]
        /\ unsaved' = (IF call.op = "store" THEN unsaved \cup {id} ELSE unsaved)
                      \ (IF replaced /\ written THEN {Oldest(inserted).id} ELSE {})
    BY DEF MissAndAllocate, Allocated
  <1>2. /\ s \in SetIds /\ old \in Seq(CLEntries) /\ unsaved \subseteq CLIDs
        /\ placement \in [SetIds -> Seq(CLEntries)]
        /\ call \in [op : {"load", "store"}, pc : Pcs, next : 0..Lines,
                     last : CLIDs, stat : CacheOpStat]
        /\ id + 1 \in 0..Lines
    BY <1>1, AccessFacts
  <1>3. entry \in CLEntries /\ entry.id = id
    BY DEF CLEntries
  <1>4. SetSound(old, s) /\ Len(old) <= Ways /\ Len(old) \in Nat
        /\ Ways \in Nat /\ Ways > 0
    BY <1>2, SizeAssumption DEF IInv, PlacementSound, SetSound
  <1>5. PICK gone \in 0..Len(old) :
            /\ Renewed(old, new, entry, gone)
            /\ Len(new) <= Ways
            /\ replaced <=> gone # 0
            /\ gone = 0 => Len(new) = Len(old) + 1
            /\ gone # 0 => /\ Len(old) = Ways /\ Len(new) = Ways
                           /\ Oldest(inserted) = old[gone]
                           /\ \A i \in 1..Ways : i # gone => Newer(i, gone)
    <2> HIDE DEF entry
    <2>1. CASE Len(old) < Ways
      <3>1. /\ ~(Len(inserted) > Ways)
            /\ Renewed(old, new, entry, 0) /\ Len(new) = Len(old) + 1
        BY <1>2, <1>3, <1>4, <2>1, AllocateRenews
      <3> HIDE DEF new, inserted
      <3> QED
        BY <1>4, <2>1, <3>1
    <2>2. CASE Len(old) = Ways
      <3> DEFINE oldest == IF Policy = "LRU" THEN Ways ELSE 1
      <3>1. /\ Len(inserted) > Ways /\ Len(new) = Ways
            /\ Oldest(inserted) = old[oldest]
            /\ Renewed(old, new, entry, oldest)
            /\ \A i \in 1..Ways : i # oldest => Newer(i, oldest)
        BY <1>2, <1>3, <1>4, <2>2, AllocateRenews
      <3>2. oldest \in 1..Len(old)
        BY <1>4, <2>2
      <3> HIDE DEF new, inserted, oldest
      <3> QED
        BY <1>4, <2>2, <3>1, <3>2
    <2> QED
      BY <1>4, <2>1, <2>2
  <1> HIDE DEF new, inserted
  <1>6. \A m \in 1..Len(old) : old[m].id # id
    BY <1>1 DEF IsIn
  <1>7. PlacementSound' /\ HoldsTheMostRecent'
    BY <1>1, <1>2, <1>3, <1>5, <1>6, RenewedSets
  <1>8. new \in Seq(CLEntries)
    BY <1>5 DEF Renewed
  <1>9. TypeOK' /\ HistoryInv'
    <2>1. call' \in [op : {"load", "store"}, pc : Pcs, next : 0..Lines,
                     last : CLIDs, stat : CacheOpStat]
      <3>1. call.stat \in CacheOpStat
        BY <1>2
      <3>2. call' = [call EXCEPT !.next = id + 1,
                                 !.stat = CountMiss(call.stat, replaced, written)]
        BY <1>1
      <3> HIDE DEF written, replaced
      <3>3. CountMiss(call.stat, replaced, written) \in CacheOpStat
        BY <3>1, CountMissType
      <3> QED
        BY <1>2, <3>2, <3>3
    <2>2. unsaved' \subseteq CLIDs /\ (~WriteBack => unsaved' = {})
      BY <1>1, <1>2 DEF IInv, HistoryInv
    <2> QED
      BY <1>1, <1>2, <1>8, <2>1, <2>2, RenewedTypes
  <1>10. DirtyIsUnsaved'
    <2>0. /\ IsIn(new, id)
          /\ \A i \in 1..Len(new) :
                 \/ new[i] = entry
                 \/ \E m \in (1..Len(old)) \ {gone} : new[i] = old[m]
          /\ \A m \in (1..Len(old)) \ {gone} : IsIn(new, old[m].id)
      BY <1>2, <1>3, <1>5, RenewedMembers
    <2>1. /\ placement'[s] = new
          /\ \A t \in SetIds : t # s => placement'[t] = placement[t]
      BY <1>2, <1>1
    <2>2. id \notin unsaved
      BY <1>1 DEF IInv, DirtyIsUnsaved
    <2>3. /\ \A m \in 1..Len(old) : old[m] \in CLEntries /\ old[m].id \in CLIDs
          /\ \A m \in 1..Len(old) : old[m].isDirty <=> old[m].id \in unsaved
      <3>1. \A m \in 1..Len(old) : old[m] \in CLEntries
        BY <1>2
      <3> QED
        BY <1>2, <3>1 DEF IInv, DirtyIsUnsaved, CLEntries
    <2>4. gone # 0 => (written <=> old[gone].id \in unsaved)
      <3>1. gone # 0 => Oldest(inserted) = old[gone] /\ gone \in 1..Len(old)
        BY <1>4, <1>5
      <3> QED
        BY <2>3, <3>1 DEF IInv, HistoryInv
    <2>5. /\ id \in unsaved' <=> call.op = "store"
          /\ \A x \in CLIDs : x # id =>
                 (x \in unsaved' <=> x \in unsaved /\ (gone # 0 => x # old[gone].id))
      <3>1. CASE gone = 0
        BY <1>1, <1>5, <2>2, <3>1
      <3>2. CASE gone # 0
        <4>1. gone \in 1..Len(old) /\ Oldest(inserted) = old[gone] /\ replaced
          BY <1>4, <1>5, <3>2
        <4>2. old[gone].id # id
          BY <1>6, <4>1
        <4> HIDE DEF replaced
        <4>3. CASE written
          BY <1>1, <2>2, <4>1, <4>2, <4>3
        <4>4. CASE ~written
          BY <1>1, <2>2, <2>4, <3>2, <4>1, <4>2, <4>4
        <4> QED
          BY <4>3, <4>4
      <3> QED
        BY <3>1, <3>2
    <2> HIDE DEF replaced, written
    <2>6. ASSUME NEW i \in 1..Len(new)
          PROVE  new[i].isDirty <=> new[i].id \in unsaved'
      <3>1. CASE new[i] = entry
        <4>1. new[i].id = id /\ new[i].isDirty = (call.op = "store")
          BY <3>1
        <4> QED
          BY <2>5, <4>1
      <3>2. CASE new[i] # entry
        <4>1. PICK m \in (1..Len(old)) \ {gone} : new[i] = old[m]
          BY <2>0, <3>2
        <4>2. old[m].id # id
          BY <1>6, <4>1
        <4>3. gone # 0 => old[m].id # old[gone].id
          BY <1>4, <1>5, <4>1 DEF SetSound
        <4> QED
          BY <2>3, <2>5, <4>1, <4>2, <4>3
      <3> QED
        BY <3>1, <3>2
    <2>7. ASSUME NEW t \in SetIds, t # s, NEW i \in 1..Len(placement[t])
          PROVE  placement[t][i].isDirty <=> placement[t][i].id \in unsaved'
      <3>1. placement[t][i] \in CLEntries /\ placement[t][i].id \in CLIDs
        <4>1. placement[t][i] \in CLEntries
          BY <1>2
        <4> QED
          BY <4>1 DEF CLEntries
      <3>2. GetSetId(placement[t][i].id) = t
        BY DEF IInv, PlacementSound, SetSound
      <3>3. placement[t][i].id # id
        BY <2>7, <3>2
      <3>4. gone # 0 => placement[t][i].id # old[gone].id
        BY <1>4, <1>5, <2>7, <3>2 DEF SetSound
      <3>5. placement[t][i].isDirty <=> placement[t][i].id \in unsaved
        BY DEF IInv, DirtyIsUnsaved
      <3> QED
        BY <2>5, <3>1, <3>3, <3>4, <3>5
    <2>8. ASSUME NEW x \in unsaved'
          PROVE  IsIn(placement'[GetSetId(x)], x)
      <3>1. x \in CLIDs /\ GetSetId(x) \in SetIds
        BY <1>1, <1>2, SetIdInRange
      <3>2. CASE x = id
        BY <2>0, <2>1, <3>2
      <3>3. CASE x # id
        <4>0. x \in unsaved /\ (gone # 0 => x # old[gone].id)
          BY <2>5, <3>1, <3>3
        <4>1. IsIn(placement[GetSetId(x)], x)
          BY <4>0 DEF IInv, DirtyIsUnsaved
        <4>2. CASE GetSetId(x) # s
          BY <2>1, <3>1, <4>1, <4>2
        <4>3. CASE GetSetId(x) = s
          <5>1. PICK m \in 1..Len(old) : old[m].id = x
            BY <4>1, <4>3 DEF IsIn
          <5>2. m # gone
            BY <1>4, <4>0, <5>1
          <5> QED
            BY <2>0, <2>1, <4>3, <5>1, <5>2
        <4> QED
          BY <4>2, <4>3
      <3> QED
        BY <3>2, <3>3
    <2> QED
      BY <2>1, <2>6, <2>7, <2>8 DEF DirtyIsUnsaved
  <1> QED
    BY <1>7, <1>9, <1>10 DEF IInv
-----------------------------------------------------------------------------
LEMMA NextIInv == IInv /\ [Next]_vars => IInv'
  <1> SUFFICES ASSUME IInv, [Next]_vars PROVE IInv'
    OBVIOUS
  <1>1. CASE \E r \in Records : BeginRecord(r)
    BY <1>1, BeginRecordIInv
  <1>2. CASE EndRecord
    BY <1>2, EndRecordIInv
  <1>3. CASE Walk
    <2>1. PICK id \in CLIDs :
              AccessHit(id) \/ MissAndAllocate(id) \/ MissAndStoreThrough(id)
      BY <1>3 DEF Walk
    <2> QED
      BY <2>1, AccessHitIInv, MissAndAllocateIInv, MissAndStoreThroughIInv
  <1>4. CASE UNCHANGED vars
    BY <1>4 DEF vars, IInv, TypeOK, PlacementSound, DirtyIsUnsaved,
       HoldsTheMostRecent, HistoryInv, SetSound, SetOrdered, AbsentIsOlder, IsIn
  <1> QED
    BY <1>1, <1>2, <1>3, <1>4 DEF Next

THEOREM Invariance == Spec => []IInv
  BY InitIInv, NextIInv, PTL DEF Spec

(* Every variable has its type, whatever the cache, the records and their  *)
(* number.                                                                 *)
THEOREM TypeCorrect == Spec => []TypeOK
  BY Invariance, PTL DEF IInv

(* No set overflows, holds a foreign line, or holds a line twice.          *)
THEOREM PlacementCorrect == Spec => []PlacementSound
  BY Invariance, PTL DEF IInv

(* A line is dirty exactly while its last store is missing in the GM.      *)
THEOREM DirtyCorrect == Spec => []DirtyIsUnsaved
  BY Invariance, PTL DEF IInv

(* A set holds the lines used last, under LRU and under FIFO.              *)
THEOREM MostRecentCorrect == Spec => []HoldsTheMostRecent
  BY Invariance, PTL DEF IInv
-----------------------------------------------------------------------------
(* Sums.  SumFunction adds the values of a function in the order in which  *)
(* CHOOSE takes the members of its domain; over a finite domain the order  *)
(* makes no difference.                                                    *)

(* A set of subsets of S that holds the empty one, and each that it would  *)
(* hold without one of its members.                                        *)
LEMMA SubsetInduction ==
    ASSUME NEW S, IsFiniteSet(S), NEW T, {} \in T,
           \A s \in SUBSET S : (s # {} /\ \A x \in s : s \ {x} \in T) => s \in T
    PROVE  \A s \in SUBSET S : s \in T
  <1> SUFFICES ASSUME NEW m \in SUBSET S, m \notin T PROVE FALSE
    OBVIOUS
  <1> DEFINE F == {s \in SUBSET S : s \notin T}
  <1>1. FiniteSubsetsOf(S) = SUBSET S
    BY FS_FiniteSubsetsOfFinite
  <1>2. PICK s \in F : \A t \in F : ~(<<t, s>> \in StrictSubsetOrdering(S))
    <2>1. IsWellFoundedOn(StrictSubsetOrdering(S), SUBSET S)
      <3>1. IsWellFoundedOn(StrictSubsetOrdering(S), FiniteSubsetsOf(S))
        BY FS_StrictSubsetOrderingWellFounded
      <3> QED
        BY <1>1, <3>1, Zenon
    <2>2. F \subseteq SUBSET S /\ F # {}
      OBVIOUS
    <2> HIDE DEF F
    <2> QED
      BY <2>1, <2>2, WFMin
  <1>3. s # {} /\ s \in SUBSET S /\ s \notin T
    OBVIOUS
  <1>4. ASSUME NEW x \in s PROVE s \ {x} \in T
    <2>1. <<s \ {x}, s>> \in StrictSubsetOrdering(S)
      BY <1>3 DEF StrictSubsetOrdering
    <2>2. s \ {x} \in SUBSET S
      BY <1>3
    <2> QED
      BY <1>2, <2>1, <2>2
  <1> QED
    BY <1>3, <1>4

(* g gives the sum of f over each subset of S, whatever the order.         *)
Sums(f, S, g) ==
    /\ g \in [SUBSET S -> Int]
    /\ g[{}] = 0
    /\ \A s \in SUBSET S : \A x \in s : g[s] = f[x] + g[s \ {x}]

LEMMA SumsExist ==
    ASSUME NEW S, IsFiniteSet(S), NEW f \in [S -> Int]
    PROVE  \E g : Sums(f, S, g)
  <1> DEFINE T == {s \in SUBSET S : \E g : Sums(f, s, g)}
  <1>1. {} \in T
    <2>1. Sums(f, {}, [s \in SUBSET {} |-> 0])
      BY DEF Sums
    <2> QED
      BY <2>1
  <1>2. ASSUME NEW s \in SUBSET S, s # {}, \A x \in s : s \ {x} \in T
        PROVE  s \in T
    <2>1. PICK x \in s : TRUE
      BY <1>2
    <2>2. PICK g : Sums(f, s \ {x}, g)
      BY <1>2
    <2> DEFINE h == [t \in SUBSET s |-> IF x \in t THEN f[x] + g[t \ {x}] ELSE g[t]]
    <2>3. /\ f[x] \in Int
          /\ \A t \in SUBSET s : t \ {x} \in SUBSET (s \ {x})
          /\ \A t \in SUBSET s : x \notin t => t \in SUBSET (s \ {x})
      OBVIOUS
    <2>4. h \in [SUBSET s -> Int] /\ h[{}] = 0
      BY <2>2, <2>3 DEF Sums
    <2>5. ASSUME NEW t \in SUBSET s, NEW y \in t
          PROVE  h[t] = f[y] + h[t \ {y}]
      <3>1. t \ {y} \in SUBSET s
        OBVIOUS
      <3>2. CASE y = x
        <4>1. h[t] = f[x] + g[t \ {x}] /\ h[t \ {x}] = g[t \ {x}]
          BY <3>1, <3>2
        <4> HIDE DEF h
        <4> QED
          BY <3>2, <4>1
      <3>3. CASE y # x /\ x \notin t
        <4>1. h[t] = g[t] /\ h[t \ {y}] = g[t \ {y}]
          BY <3>1, <3>3, Zenon
        <4>2. g[t] = f[y] + g[t \ {y}]
          BY <2>2, <2>3, <3>3 DEF Sums
        <4> HIDE DEF h
        <4> QED
          BY <4>1, <4>2
      <3>4. CASE y # x /\ x \in t
        <4>1. h[t] = f[x] + g[t \ {x}] /\ h[t \ {y}] = f[x] + g[(t \ {y}) \ {x}]
          BY <3>1, <3>4
        <4>2. /\ t \ {x} \in SUBSET (s \ {x}) /\ y \in t \ {x}
              /\ (t \ {y}) \ {x} = (t \ {x}) \ {y}
          BY <2>3, <3>4
        <4>3. g[t \ {x}] = f[y] + g[(t \ {x}) \ {y}]
          BY <2>2, <4>2 DEF Sums
        <4>4. f[y] \in Int /\ g[(t \ {x}) \ {y}] \in Int
          BY <2>2, <4>2 DEF Sums
        <4> HIDE DEF h
        <4> QED
          BY <2>3, <4>1, <4>2, <4>3, <4>4
      <3> QED
        BY <3>2, <3>3, <3>4
    <2>6. Sums(f, s, h)
      <3> HIDE DEF h
      <3> QED
        BY <2>4, <2>5 DEF Sums
    <2> HIDE DEF h
    <2> QED
      BY <2>6
  <1>3. \A s \in SUBSET S : s \in T
    <2> HIDE DEF T
    <2> QED
      BY <1>1, <1>2, SubsetInduction
  <1> QED
    BY <1>3

(* What SumFunction CHOOSEs.                                               *)
Pick(s) == CHOOSE x \in s : TRUE
Fold(f, S, g) ==
    g = [s \in SUBSET S |-> IF s = {} THEN 0 ELSE f[Pick(s)] + g[s \ {Pick(s)}]]

LEMMA FoldIsSums ==
    ASSUME NEW S, IsFiniteSet(S), NEW f, NEW g, Sums(f, S, g), NEW h, Fold(f, S, h)
    PROVE  h[S] = g[S]
  <1> DEFINE T == {s \in SUBSET S : h[s] = g[s]}
  <1>1. {} \in T
    BY DEF Sums, Fold
  <1>2. ASSUME NEW s \in SUBSET S, s # {}, \A x \in s : s \ {x} \in T
        PROVE  s \in T
    <2>1. Pick(s) \in s
      BY <1>2 DEF Pick
    <2>2. h[s] = f[Pick(s)] + h[s \ {Pick(s)}]
      BY <1>2 DEF Fold
    <2>3. g[s] = f[Pick(s)] + g[s \ {Pick(s)}]
      BY <2>1 DEF Sums
    <2> QED
      BY <1>2, <2>1, <2>2, <2>3
  <1>3. \A s \in SUBSET S : s \in T
    <2> HIDE DEF T
    <2> QED
      BY <1>1, <1>2, SubsetInduction
  <1> QED
    BY <1>3

LEMMA SumIs ==
    ASSUME NEW S, IsFiniteSet(S), NEW f \in [S -> Int], NEW g, Sums(f, S, g)
    PROVE  SumFunction(f) = g[S]
  <1>1. SumFunction(f) = (CHOOSE h : Fold(f, S, h))[S]
    BY DEF SumFunction, SumFunctionOnSet, FoldFunctionOnSet, MapThenFoldSet, Fold, Pick
  <1>2. Fold(f, S, g)
    <2>1. ASSUME NEW s \in SUBSET S
          PROVE  g[s] = IF s = {} THEN 0 ELSE f[Pick(s)] + g[s \ {Pick(s)}]
      <3>1. s # {} => Pick(s) \in s
        BY DEF Pick
      <3> QED
        BY <3>1 DEF Sums
    <2>2. g = [s \in SUBSET S |-> g[s]]
      BY DEF Sums
    <2> QED
      BY <2>1, <2>2 DEF Fold
  <1> DEFINE h == CHOOSE h : Fold(f, S, h)
  <1>3. Fold(f, S, h)
    BY <1>2
  <1> HIDE DEF h
  <1>4. h[S] = g[S]
    BY <1>3, FoldIsSums
  <1> QED
    BY <1>1, <1>4 DEF h

(* k is f with d added at x: its sum is that of f with d added.            *)
Adds(f, k, x, d) == k = [f EXCEPT ![x] = f[x] + d]

LEMMA SumStep ==
    ASSUME NEW S, IsFiniteSet(S), NEW f \in [S -> Int], NEW x \in S, NEW d \in Int,
           NEW k, Adds(f, k, x, d)
    PROVE  SumFunction(k) = SumFunction(f) + d /\ SumFunction(f) \in Int
  <1>1. k \in [S -> Int] /\ k[x] = f[x] + d /\ \A y \in S : y # x => k[y] = f[y]
    BY DEF Adds
  <1>2. PICK g : Sums(f, S, g)
    BY SumsExist
  <1>3. PICK h : Sums(k, S, h)
    BY <1>1, SumsExist
  <1> DEFINE T == {s \in SUBSET S : x \notin s => h[s] = g[s]}
  <1>4. {} \in T
    BY <1>2, <1>3 DEF Sums
  <1>5. ASSUME NEW s \in SUBSET S, s # {}, \A y \in s : s \ {y} \in T
        PROVE  s \in T
    <2> SUFFICES ASSUME x \notin s PROVE h[s] = g[s]
      OBVIOUS
    <2>1. PICK y \in s : TRUE
      BY <1>5
    <2>2. h[s] = k[y] + h[s \ {y}] /\ g[s] = f[y] + g[s \ {y}]
      BY <1>2, <1>3 DEF Sums
    <2>3. k[y] = f[y]
      BY <1>1
    <2> QED
      BY <1>5, <2>2, <2>3
  <1>6. \A s \in SUBSET S : s \in T
    <2> HIDE DEF T
    <2> QED
      BY <1>4, <1>5, SubsetInduction
  <1>7. h[S \ {x}] = g[S \ {x}]
    BY <1>6
  <1>8. h[S] = k[x] + h[S \ {x}] /\ g[S] = f[x] + g[S \ {x}]
    BY <1>2, <1>3 DEF Sums
  <1>9. g[S] \in Int /\ g[S \ {x}] \in Int /\ f[x] \in Int
    BY <1>2 DEF Sums
  <1>10. SumFunction(k) = h[S] /\ SumFunction(f) = g[S]
    BY <1>1, <1>2, <1>3, SumIs
  <1> QED
    BY <1>1, <1>7, <1>8, <1>9, <1>10

LEMMA SumOfZeros ==
    ASSUME NEW S, IsFiniteSet(S)
    PROVE  SumFunction([x \in S |-> 0]) = 0
  <1>1. [x \in S |-> 0] \in [S -> Int]
    OBVIOUS
  <1>2. Sums([x \in S |-> 0], S, [s \in SUBSET S |-> 0])
    <2>1. ASSUME NEW s \in SUBSET S, NEW x \in s
          PROVE  [t \in SUBSET S |-> 0][s] = [y \in S |-> 0][x] + [t \in SUBSET S |-> 0][s \ {x}]
      BY s \ {x} \in SUBSET S
    <2> QED
      BY <2>1 DEF Sums
  <1>3. SumFunction([x \in S |-> 0]) = [s \in SUBSET S |-> 0][S]
    BY <1>1, <1>2, SumIs
  <1> QED
    BY <1>3
-----------------------------------------------------------------------------
(* The two tables: StatsAddUp in terms of what is counted.                 *)

Hits == [pc \in Pcs |-> Stat(pc).hit]
Misses == [pc \in Pcs |-> Stat(pc).miss]
Allocates == [pc \in Pcs |-> Stat(pc).allocate]
Evicts == [pc \in Pcs |-> Stat(pc).evictAndWrite + Stat(pc).evictWithoutWrite]
SetHits == [s \in SetIds |-> bySet[s].hit]
SetMisses == [s \in SetIds |-> bySet[s].miss]
Fills == [s \in SetIds |-> Len(placement[s])]

Named ==
    \A pc \in Pcs \ InvalidPcs :
        /\ Hits[pc] > 0 <=> \E s \in SetIds : pc \in bySet[s].hitPc
        /\ Misses[pc] > 0 <=> \E s \in SetIds : pc \in bySet[s].missPc

SumsAgree ==
    /\ SumFunction(Hits) = SumFunction(SetHits)
    /\ SumFunction(Misses) = SumFunction(SetMisses)
    /\ SumFunction(Allocates) = SumFunction(Evicts) + SumFunction(Fills)

LEMMA StatsSplit == StatsAddUp <=> Named /\ (InvalidPcs = {} => SumsAgree)
  <1>1. Named <=>
          \A pc \in Pcs \ InvalidPcs :
              /\ Stat(pc).hit > 0 <=> \E s \in SetIds : pc \in bySet[s].hitPc
              /\ Stat(pc).miss > 0 <=> \E s \in SetIds : pc \in bySet[s].missPc
    BY DEF Named, Hits, Misses
  <1> QED
    BY <1>1 DEF StatsAddUp, SumsAgree, Hits, Misses, Allocates, Evicts, SetHits,
       SetMisses, Fills

LEMMA StatsSplitNext == (StatsAddUp <=> Named /\ (InvalidPcs = {} => SumsAgree))'
  BY StatsSplit, PTL

(* An instruction without an entry has counted nothing.                    *)
EntryInv == \A pc \in Pcs : ~byPc[pc].seen => byPc[pc] = NoEntry

CountInv == IInv /\ EntryInv /\ StatsAddUp

LEMMA SetIdsFinite == IsFiniteSet(SetIds)
  <1>1. 0 \in Int /\ Sets - 1 \in Int
    BY SizeAssumption
  <1> QED
    BY <1>1, FS_Interval DEF SetIds

LEMMA PlusType ==
    ASSUME NEW a \in CacheOpStat, NEW b \in CacheOpStat
    PROVE  Plus(a, b) \in CacheOpStat
  BY DEF Plus, CacheOpStat

LEMMA CountTypes ==
    ASSUME TypeOK
    PROVE  /\ \A pc \in Pcs : Stat(pc) \in CacheOpStat
           /\ Hits \in [Pcs -> Nat] /\ Misses \in [Pcs -> Nat]
           /\ Allocates \in [Pcs -> Nat] /\ Evicts \in [Pcs -> Nat]
           /\ SetHits \in [SetIds -> Nat] /\ SetMisses \in [SetIds -> Nat]
           /\ Fills \in [SetIds -> Nat]
  <1>1. ASSUME NEW pc \in Pcs PROVE Stat(pc) \in CacheOpStat
    <2>1. byPc[pc].stat \in CacheOpStat
      BY DEF TypeOK
    <2>2. call.op # "none" => call.stat \in CacheOpStat
      BY DEF TypeOK, NoCall
    <2> QED
      BY <2>1, <2>2, PlusType DEF Stat
  <1>2. ASSUME NEW pc \in Pcs
        PROVE  /\ Stat(pc).hit \in Nat /\ Stat(pc).miss \in Nat /\ Stat(pc).allocate \in Nat
               /\ Stat(pc).evictAndWrite + Stat(pc).evictWithoutWrite \in Nat
    BY <1>1 DEF CacheOpStat
  <1>3. ASSUME NEW s \in SetIds
        PROVE  bySet[s].hit \in Nat /\ bySet[s].miss \in Nat /\ Len(placement[s]) \in Nat
    <2>1. bySet[s] \in CacheMetrics /\ placement[s] \in Seq(CLEntries)
      BY DEF TypeOK
    <2> QED
      BY <2>1 DEF CacheMetrics
  <1> QED
    BY <1>1, <1>2, <1>3 DEF Hits, Misses, Allocates, Evicts, SetHits, SetMisses, Fills

LEMMA InitCountInv == Init => CountInv
  <1> SUFFICES ASSUME Init PROVE CountInv
    OBVIOUS
  <1>1. IInv
    BY InitIInv
  <1>2. EntryInv
    BY DEF Init, EntryInv
  <1>3. ASSUME NEW pc \in Pcs PROVE Stat(pc) = NoStat
    BY DEF Init, Stat, NoCall, NoEntry
  <1>4. /\ Hits = [pc \in Pcs |-> 0] /\ Misses = [pc \in Pcs |-> 0]
        /\ Allocates = [pc \in Pcs |-> 0] /\ Evicts = [pc \in Pcs |-> 0]
    BY <1>3 DEF Hits, Misses, Allocates, Evicts, NoStat, ZeroStat
  <1>5. /\ SetHits = [s \in SetIds |-> 0] /\ SetMisses = [s \in SetIds |-> 0]
        /\ Fills = [s \in SetIds |-> 0]
    BY DEF Init, SetHits, SetMisses, Fills
  <1>6. SumsAgree
    BY <1>4, <1>5, SumOfZeros, PcsAssumption, SetIdsFinite DEF SumsAgree
  <1>7. Named
    BY <1>4 DEF Named, Init
  <1> QED
    BY <1>1, <1>2, <1>6, <1>7, StatsSplit DEF CountInv

(* Nothing counted and no instruction valid again: the tables still agree. *)
LEMMA SameCounts ==
    ASSUME StatsAddUp, UNCHANGED <<bySet, placement>>, InvalidPcs \subseteq InvalidPcs',
           \A pc \in Pcs \ InvalidPcs' :
               /\ Hits'[pc] = Hits[pc] /\ Misses'[pc] = Misses[pc]
               /\ Allocates'[pc] = Allocates[pc] /\ Evicts'[pc] = Evicts[pc]
    PROVE  StatsAddUp'
  <1>1. SetHits' = SetHits /\ SetMisses' = SetMisses /\ Fills' = Fills
    BY DEF SetHits, SetMisses, Fills
  <1>2. Named'
    BY StatsSplit DEF Named
  <1>3. InvalidPcs' = {} => SumsAgree'
    <2> SUFFICES ASSUME InvalidPcs' = {} PROVE SumsAgree'
      OBVIOUS
    <2>1. SumsAgree
      BY StatsSplit
    <2>2. Hits' = Hits /\ Misses' = Misses /\ Allocates' = Allocates /\ Evicts' = Evicts
      BY DEF Hits, Misses, Allocates, Evicts
    <2> QED
      BY <1>1, <2>1, <2>2 DEF SumsAgree
  <1> QED
    BY <1>2, <1>3, StatsSplitNext

LEMMA BeginRecordCountInv ==
    ASSUME CountInv, NEW r \in Records, BeginRecord(r)
    PROVE  EntryInv' /\ StatsAddUp'
  <1>1. r.pc \in Pcs /\ call.op = "none" /\ UNCHANGED <<bySet, placement>>
    BY RecordsAssumption DEF BeginRecord, MemRecords
  <1>2. TypeOK
    BY DEF CountInv, IInv
  <1>3. byPc \in [Pcs -> [seen : BOOLEAN, stat : CacheOpStat]]
    BY <1>2 DEF TypeOK
  <1>4. \A pc \in Pcs : Stat(pc) = byPc[pc].stat
    BY <1>1 DEF Stat
  <1>5. CASE byPc' = [byPc EXCEPT ![r.pc] = Invalid(byPc[r.pc])] /\ call' = call
    <2>1. /\ byPc'[r.pc].seen /\ ~byPc'[r.pc].stat.isValid
          /\ \A pc \in Pcs : pc # r.pc => byPc'[pc] = byPc[pc]
      <3>1. byPc'[r.pc] = Invalid(byPc[r.pc])
        BY <1>1, <1>3, <1>5
      <3>2. byPc[r.pc].stat \in CacheOpStat
        BY <1>1, <1>3
      <3>3. Invalid(byPc[r.pc]).seen /\ ~Invalid(byPc[r.pc]).stat.isValid
        BY <3>2 DEF Invalid, CacheOpStat
      <3> QED
        BY <1>1, <1>3, <1>5, <3>1, <3>3
    <2>2. EntryInv'
      BY <2>1 DEF EntryInv, CountInv
    <2>3. InvalidPcs \subseteq InvalidPcs' /\ r.pc \in InvalidPcs'
      BY <1>1, <2>1 DEF InvalidPcs
    <2>4. \A pc \in Pcs \ InvalidPcs' : Stat(pc)' = Stat(pc)
      BY <1>1, <1>4, <1>5, <2>1, <2>3 DEF Stat
    <2> QED
      BY <1>1, <2>2, <2>3, <2>4, SameCounts DEF CountInv, Hits, Misses, Allocates, Evicts
  <1>6. CASE byPc' = byPc /\ call'.op # "none" /\ call'.stat = ZeroStat
    <2>1. EntryInv' /\ InvalidPcs' = InvalidPcs
      BY <1>6 DEF EntryInv, CountInv, InvalidPcs
    <2>2. ASSUME NEW pc \in Pcs
          PROVE  /\ Stat(pc)'.hit = Stat(pc).hit /\ Stat(pc)'.miss = Stat(pc).miss
                 /\ Stat(pc)'.allocate = Stat(pc).allocate
                 /\ Stat(pc)'.evictAndWrite = Stat(pc).evictAndWrite
                 /\ Stat(pc)'.evictWithoutWrite = Stat(pc).evictWithoutWrite
      <3>1. byPc[pc].stat \in CacheOpStat
        BY <1>3
      <3>2. Stat(pc)' = byPc[pc].stat \/ Stat(pc)' = Plus(byPc[pc].stat, ZeroStat)
        BY <1>6 DEF Stat
      <3> QED
        BY <1>4, <3>1, <3>2 DEF Plus, ZeroStat, CacheOpStat
    <2> QED
      BY <1>1, <2>1, <2>2, SameCounts DEF CountInv, Hits, Misses, Allocates, Evicts
  <1> QED
    BY <1>1, <1>3, <1>5, <1>6 DEF BeginRecord

LEMMA EndRecordCountInv ==
    ASSUME CountInv, EndRecord PROVE EntryInv' /\ StatsAddUp'
  <1> DEFINE p == call.pc
             entry == byPc[p]
  <1>1. /\ p \in Pcs /\ call.stat \in CacheOpStat /\ call.op # "none"
        /\ byPc \in [Pcs -> [seen : BOOLEAN, stat : CacheOpStat]]
    BY DEF EndRecord, CountInv, IInv, TypeOK, NoCall
  <1>2. /\ byPc'[p] = Merged(entry, call.stat)
        /\ \A pc \in Pcs : pc # p => byPc'[pc] = byPc[pc]
        /\ call'.op = "none" /\ UNCHANGED <<bySet, placement>>
    BY <1>1 DEF EndRecord, NoCall
  <1>3. byPc'[p].seen
    BY <1>2 DEF Merged
  <1>4. EntryInv'
    BY <1>2, <1>3 DEF EntryInv, CountInv
  <1>5. InvalidPcs \subseteq InvalidPcs'
    BY <1>1, <1>2 DEF InvalidPcs, Merged
  <1>6. ASSUME NEW pc \in Pcs \ InvalidPcs'
        PROVE  /\ Stat(pc)'.hit = Stat(pc).hit /\ Stat(pc)'.miss = Stat(pc).miss
               /\ Stat(pc)'.allocate = Stat(pc).allocate
               /\ Stat(pc)'.evictAndWrite = Stat(pc).evictAndWrite
               /\ Stat(pc)'.evictWithoutWrite = Stat(pc).evictWithoutWrite
    <2>1. Stat(pc)' = byPc'[pc].stat
      BY <1>2 DEF Stat
    <2>2. CASE pc # p
      BY <1>2, <2>1, <2>2 DEF Stat
    <2>3. CASE pc = p
      <3>1. Stat(p) = Plus(entry.stat, call.stat)
        BY <1>1 DEF Stat
      <3>2. CASE ~entry.seen
        <4>1. entry.stat = NoStat /\ byPc'[p].stat = call.stat
          BY <1>1, <1>2, <3>2 DEF EntryInv, CountInv, NoEntry, Merged
        <4> QED
          BY <1>1, <2>1, <2>3, <3>1, <4>1 DEF Plus, NoStat, ZeroStat, CacheOpStat
      <3>3. CASE entry.seen
        <4>1. entry.stat.isValid
          BY <1>1, <1>5, <2>3, <3>3 DEF InvalidPcs
        <4>2. byPc'[p].stat = Plus(entry.stat, call.stat)
          BY <1>2, <3>3, <4>1 DEF Merged
        <4> QED
          BY <2>1, <2>3, <3>1, <4>2
      <3> QED
        BY <3>2, <3>3
    <2> QED
      BY <2>2, <2>3
  <1> QED
    BY <1>2, <1>4, <1>5, <1>6, SameCounts DEF CountInv, Hits, Misses, Allocates, Evicts

(* One instruction and one set count the same.                             *)
LEMMA CountStep ==
    ASSUME TypeOK, SumsAgree, NEW p \in Pcs, NEW s \in SetIds,
           NEW h \in Int, NEW m \in Int, NEW e \in Int, NEW l \in Int,
           Adds(Hits, Hits', p, h),
           Adds(SetHits, SetHits', s, h),
           Adds(Misses, Misses', p, m),
           Adds(SetMisses, SetMisses', s, m),
           Adds(Allocates, Allocates', p, e + l),
           Adds(Evicts, Evicts', p, e),
           Adds(Fills, Fills', s, l)
    PROVE  SumsAgree'
  <1>1. /\ Hits \in [Pcs -> Int] /\ Misses \in [Pcs -> Int] /\ Allocates \in [Pcs -> Int]
        /\ Evicts \in [Pcs -> Int] /\ SetHits \in [SetIds -> Int]
        /\ SetMisses \in [SetIds -> Int] /\ Fills \in [SetIds -> Int]
    BY CountTypes
  <1>2. SumFunction(Hits') = SumFunction(Hits) + h
    BY <1>1, PcsAssumption, SumStep
  <1>3. SumFunction(SetHits') = SumFunction(SetHits) + h
    BY <1>1, SetIdsFinite, SumStep
  <1>4. SumFunction(Misses') = SumFunction(Misses) + m
    BY <1>1, PcsAssumption, SumStep
  <1>5. SumFunction(SetMisses') = SumFunction(SetMisses) + m
    BY <1>1, SetIdsFinite, SumStep
  <1>6. SumFunction(Allocates') = SumFunction(Allocates) + (e + l)
    BY <1>1, e + l \in Int, PcsAssumption, SumStep
  <1>7. SumFunction(Evicts') = SumFunction(Evicts) + e /\ SumFunction(Evicts) \in Int
    BY <1>1, PcsAssumption, SumStep
  <1>8. SumFunction(Fills') = SumFunction(Fills) + l /\ SumFunction(Fills) \in Int
    BY <1>1, SetIdsFinite, SumStep
  <1> HIDE DEF Hits, Misses, Allocates, Evicts, SetHits, SetMisses, Fills
  <1>9. /\ SumFunction(Hits') = SumFunction(SetHits')
        /\ SumFunction(Misses') = SumFunction(SetMisses')
    BY <1>2, <1>3, <1>4, <1>5 DEF SumsAgree
  <1>10. SumFunction(Allocates') = SumFunction(Evicts') + SumFunction(Fills')
    BY <1>6, <1>7, <1>8 DEF SumsAgree
  <1> QED
    BY <1>9, <1>10 DEF SumsAgree

LEMMA HitFields ==
    ASSUME NEW metrics \in CacheMetrics, NEW p
    PROVE  /\ Hit(metrics, p).hit = metrics.hit + 1 /\ Hit(metrics, p).miss = metrics.miss
           /\ Hit(metrics, p).hitPc = metrics.hitPc \cup {p}
           /\ Hit(metrics, p).missPc = metrics.missPc
  <1> PICK m : m = metrics.hit + 1
    OBVIOUS
  <1> PICK S : S = metrics.hitPc \cup {p}
    OBVIOUS
  <1>1. Hit(metrics, p) = [metrics EXCEPT !.hit = m, !.hitPc = S]
    BY DEF Hit
  <1> QED
    BY <1>1 DEF CacheMetrics

LEMMA MissFields ==
    ASSUME NEW metrics \in CacheMetrics, NEW p
    PROVE  /\ Miss(metrics, p).hit = metrics.hit /\ Miss(metrics, p).miss = metrics.miss + 1
           /\ Miss(metrics, p).hitPc = metrics.hitPc
           /\ Miss(metrics, p).missPc = metrics.missPc \cup {p}
  <1> PICK m : m = metrics.miss + 1
    OBVIOUS
  <1> PICK S : S = metrics.missPc \cup {p}
    OBVIOUS
  <1>1. Miss(metrics, p) = [metrics EXCEPT !.miss = m, !.missPc = S]
    BY DEF Miss
  <1> QED
    BY <1>1 DEF CacheMetrics

(* An access changes what its instruction has counted and nothing else.    *)
LEMMA AccessCounts ==
    ASSUME CountInv, NEW id \in CLIDs, Access(id), NEW stat \in CacheOpStat,
           call'.op = call.op, call'.pc = call.pc, call'.stat = stat,
           NEW h \in Int, stat.hit = call.stat.hit + h,
           NEW m \in Int, stat.miss = call.stat.miss + m,
           NEW a \in Int, stat.allocate = call.stat.allocate + a,
           NEW e \in Int, stat.evictAndWrite + stat.evictWithoutWrite =
                          call.stat.evictAndWrite + call.stat.evictWithoutWrite + e
    PROVE  /\ Adds(Hits, Hits', call.pc, h) /\ Adds(Misses, Misses', call.pc, m)
           /\ Adds(Allocates, Allocates', call.pc, a) /\ Adds(Evicts, Evicts', call.pc, e)
           /\ InvalidPcs' = InvalidPcs /\ EntryInv'
  <1>0. call.pc \in Pcs /\ call.stat \in CacheOpStat
    <2>1. call \in [op : {"load", "store"}, pc : Pcs, next : 0..Lines,
                    last : CLIDs, stat : CacheOpStat]
      BY AccessFacts DEF CountInv
    <2> QED
      BY <2>1
  <1> PICK p \in Pcs : p = call.pc
    BY <1>0
  <1> PICK before : before = byPc[p].stat
    OBVIOUS
  <1>1. /\ call.stat \in CacheOpStat /\ call.op # "none"
        /\ call'.pc = p /\ call'.op # "none" /\ call'.stat = stat
        /\ byPc' = byPc
    BY <1>0 DEF Access
  <1>2. TypeOK
    BY DEF CountInv, IInv
  <1>3. before \in CacheOpStat
    BY <1>1, <1>2 DEF TypeOK
  <1>4. \A pc \in Pcs : pc # p => Stat(pc)' = Stat(pc)
    BY <1>1 DEF Stat
  <1>5. Stat(p) = Plus(before, call.stat) /\ Stat(p)' = Plus(before, stat)
    BY <1>1 DEF Stat
  <1>6. /\ Stat(p)'.hit = Stat(p).hit + h /\ Stat(p)'.miss = Stat(p).miss + m
        /\ Stat(p)'.allocate = Stat(p).allocate + a
        /\ Stat(p)'.evictAndWrite + Stat(p)'.evictWithoutWrite
               = Stat(p).evictAndWrite + Stat(p).evictWithoutWrite + e
    <2>1. /\ before.hit \in Int /\ before.miss \in Int /\ before.allocate \in Int
          /\ before.evictAndWrite \in Int /\ before.evictWithoutWrite \in Int
          /\ call.stat.hit \in Int /\ call.stat.miss \in Int /\ call.stat.allocate \in Int
          /\ call.stat.evictAndWrite \in Int /\ call.stat.evictWithoutWrite \in Int
          /\ stat.evictAndWrite \in Int /\ stat.evictWithoutWrite \in Int
      BY <1>1, <1>3 DEF CacheOpStat
    <2> QED
      BY <1>5, <2>1 DEF Plus
  <1>7. Adds(Hits, Hits', p, h)
    BY <1>1, <1>4, <1>6 DEF Adds, Hits
  <1>8. Adds(Misses, Misses', p, m)
    BY <1>1, <1>4, <1>6 DEF Adds, Misses
  <1>9. Adds(Allocates, Allocates', p, a)
    BY <1>1, <1>4, <1>6 DEF Adds, Allocates
  <1>10. Adds(Evicts, Evicts', p, e)
    BY <1>1, <1>4, <1>6 DEF Adds, Evicts
  <1>11. InvalidPcs' = InvalidPcs /\ EntryInv'
    BY <1>1 DEF InvalidPcs, EntryInv, CountInv
  <1> QED
    BY <1>7, <1>8, <1>9, <1>10, <1>11

LEMMA AccessHitCountInv ==
    ASSUME CountInv, NEW id \in CLIDs, AccessHit(id)
    PROVE  EntryInv' /\ StatsAddUp'
  <1> PICK s : s = GetSetId(id)
    OBVIOUS
  <1> PICK p : p = call.pc
    OBVIOUS
  <1> DEFINE stat == [call.stat EXCEPT !.hit = call.stat.hit + 1]
  <1>1. PICK location \in 1..Len(placement[s]) :
            /\ Access(id)
            /\ bySet' = [bySet EXCEPT ![s] = Hit(@, p)]
            /\ call' = [call EXCEPT !.next = id + 1, !.stat.hit = @ + 1]
            /\ \E marked \in Seq(CLEntries) :
                   /\ Len(marked) = Len(placement[s])
                   /\ placement' = [placement EXCEPT ![s] = HitRefresh(marked, location)]
    <2>1. PICK location \in 1..Len(placement[s]) :
              /\ Access(id)
              /\ bySet' = [bySet EXCEPT ![s] = Hit(@, p)]
              /\ call' = [call EXCEPT !.next = id + 1, !.stat.hit = @ + 1]
              /\ placement' = [placement EXCEPT ![s] =
                     HitRefresh([placement[s] EXCEPT ![location].isDirty =
                                    \/ placement[s][location].isDirty
                                    \/ (call.op = "store" /\ WriteBack)],
                                location)]
      BY DEF AccessHit
    <2> DEFINE dirty == \/ placement[s][location].isDirty
                        \/ (call.op = "store" /\ WriteBack)
               marked == [placement[s] EXCEPT ![location].isDirty = dirty]
    <2>2. placement[s] \in Seq(CLEntries)
      BY <2>1, AccessFacts DEF CountInv
    <2>3. placement[s][location] \in CLEntries
      BY <2>2
    <2>4. marked \in Seq(CLEntries) /\ Len(marked) = Len(placement[s])
      <3>1. dirty \in BOOLEAN
        BY <2>3, WriteAssumption DEF CLEntries
      <3>2. [placement[s][location] EXCEPT !.isDirty = dirty] \in CLEntries
        BY <2>3, <3>1 DEF CLEntries
      <3> HIDE DEF dirty
      <3> QED
        BY <2>2, <3>2
    <2> HIDE DEF marked
    <2> QED
      BY <2>1, <2>4 DEF marked
  <1>2. /\ s \in SetIds /\ p \in Pcs /\ call.stat \in CacheOpStat
        /\ bySet \in [SetIds -> CacheMetrics]
        /\ placement \in [SetIds -> Seq(CLEntries)]
        /\ call \in [op : {"load", "store"}, pc : Pcs, next : 0..Lines,
                     last : CLIDs, stat : CacheOpStat]
    BY <1>1, AccessFacts DEF CountInv
  <1>3. TypeOK /\ s \in SetIds
    BY <1>2 DEF CountInv, IInv
  <1>4. /\ stat \in CacheOpStat /\ stat.hit = call.stat.hit + 1
        /\ stat.miss = call.stat.miss + 0 /\ stat.allocate = call.stat.allocate + 0
        /\ stat.evictAndWrite + stat.evictWithoutWrite
               = call.stat.evictAndWrite + call.stat.evictWithoutWrite + 0
    <2>1. /\ call.stat \in CacheOpStat /\ call.stat.miss \in Int /\ call.stat.allocate \in Int
          /\ call.stat.evictAndWrite \in Int /\ call.stat.evictWithoutWrite \in Int
          /\ call.stat.hit \in Nat
      BY <1>2 DEF CacheOpStat
    <2>2. stat \in CacheOpStat
      BY <2>1 DEF CacheOpStat
    <2>3. /\ stat.hit = call.stat.hit + 1
          /\ stat.miss = call.stat.miss /\ stat.allocate = call.stat.allocate
          /\ stat.evictAndWrite = call.stat.evictAndWrite
          /\ stat.evictWithoutWrite = call.stat.evictWithoutWrite
      BY <2>1 DEF CacheOpStat
    <2> HIDE DEF stat
    <2> QED
      BY <2>1, <2>2, <2>3
  <1>5. call'.op = call.op /\ call'.pc = call.pc /\ call'.stat = stat
    BY <1>1, <1>2
  <1> HIDE DEF stat
  <1>6. /\ Adds(Hits, Hits', p, 1) /\ Adds(Misses, Misses', p, 0)
        /\ Adds(Allocates, Allocates', p, 0) /\ Adds(Evicts, Evicts', p, 0)
        /\ InvalidPcs' = InvalidPcs /\ EntryInv'
    BY <1>1, <1>4, <1>5, AccessCounts
  <1>7. /\ bySet'[s] = Hit(bySet[s], p) /\ \A t \in SetIds : t # s => bySet'[t] = bySet[t]
        /\ bySet[s] \in CacheMetrics
    BY <1>1, <1>2
  <1>8. /\ bySet'[s].hit = bySet[s].hit + 1 /\ bySet'[s].miss = bySet[s].miss
        /\ bySet'[s].hitPc = bySet[s].hitPc \cup {p} /\ bySet'[s].missPc = bySet[s].missPc
    BY <1>7, HitFields
  <1>9. Adds(SetHits, SetHits', s, 1) /\ Adds(SetMisses, SetMisses', s, 0)
    <2>1. bySet[s].miss \in Int
      BY <1>7 DEF CacheMetrics
    <2>2. \A t \in SetIds : t # s => bySet'[t].hit = bySet[t].hit /\ bySet'[t].miss = bySet[t].miss
      BY <1>7
    <2>3. bySet'[s].hit = bySet[s].hit + 1 /\ bySet'[s].miss = bySet[s].miss + 0
      BY <1>8, <2>1
    <2>4. Adds(SetHits, SetHits', s, 1)
      BY <1>3, <2>2, <2>3 DEF Adds, SetHits
    <2>5. Adds(SetMisses, SetMisses', s, 0)
      BY <1>3, <2>2, <2>3 DEF Adds, SetMisses
    <2> QED
      BY <2>4, <2>5
  <1>10. Adds(Fills, Fills', s, 0)
    <2>1. PICK marked \in Seq(CLEntries) :
              /\ Len(marked) = Len(placement[s])
              /\ placement' = [placement EXCEPT ![s] = HitRefresh(marked, location)]
      BY <1>1
    <2>2. Len(HitRefresh(marked, location)) = Len(placement[s])
      BY <2>1 DEF HitRefresh
    <2>3. /\ Len(placement'[s]) = Len(placement[s]) /\ Len(placement[s]) \in Int
          /\ \A t \in SetIds : t # s => placement'[t] = placement[t]
      BY <1>2, <2>1, <2>2
    <2> QED
      BY <1>3, <2>3 DEF Adds, Fills
  <1>11. InvalidPcs = {} => SumsAgree'
    <2> SUFFICES ASSUME InvalidPcs = {} PROVE SumsAgree'
      OBVIOUS
    <2>1. SumsAgree
      BY StatsSplit DEF CountInv
    <2>2. Adds(Allocates, Allocates', p, 0 + 0)
      BY <1>6
    <2> QED
      BY <1>2, <1>3, <1>6, <1>9, <1>10, <2>1, <2>2, CountStep
  <1>12. Named'
    <2>1. Named
      BY StatsSplit DEF CountInv
    <2>2. /\ Hits \in [Pcs -> Nat] /\ Misses \in [Pcs -> Nat]
      BY <1>3, CountTypes
    <2>3. /\ Hits'[p] = Hits[p] + 1
          /\ \A pc \in Pcs : pc # p => Hits'[pc] = Hits[pc]
          /\ \A pc \in Pcs : Misses'[pc] = Misses[pc]
      BY <1>2, <1>6, <2>2 DEF Adds
    <2>4. \A t \in SetIds : /\ bySet'[t].missPc = bySet[t].missPc
                            /\ \A pc \in Pcs : pc # p =>
                                   (pc \in bySet'[t].hitPc <=> pc \in bySet[t].hitPc)
      BY <1>7, <1>8
    <2>5. Hits'[p] > 0 /\ p \in bySet'[s].hitPc
      BY <1>2, <1>8, <2>2, <2>3
    <2>6. ASSUME NEW pc \in Pcs \ InvalidPcs
          PROVE  /\ Hits'[pc] > 0 <=> \E t \in SetIds : pc \in bySet'[t].hitPc
                 /\ Misses'[pc] > 0 <=> \E t \in SetIds : pc \in bySet'[t].missPc
      <3>1. /\ Hits[pc] > 0 <=> \E t \in SetIds : pc \in bySet[t].hitPc
            /\ Misses[pc] > 0 <=> \E t \in SetIds : pc \in bySet[t].missPc
        BY <2>1 DEF Named
      <3> QED
        BY <1>2, <2>3, <2>4, <2>5, <3>1
    <2> QED
      BY <1>6, <2>6 DEF Named
  <1> QED
    BY <1>6, <1>11, <1>12, StatsSplitNext

(* A miss counted e evictions and left l lines more in the set.            *)
LEMMA MissCountInv ==
    ASSUME CountInv, NEW id \in CLIDs, Access(id),
           bySet' = [bySet EXCEPT ![GetSetId(id)] = Miss(@, call.pc)],
           NEW stat \in CacheOpStat,
           call'.op = call.op, call'.pc = call.pc, call'.stat = stat,
           NEW e \in Int, NEW l \in Int,
           stat.hit = call.stat.hit, stat.miss = call.stat.miss + 1,
           stat.allocate = call.stat.allocate + (e + l),
           stat.evictAndWrite + stat.evictWithoutWrite =
               call.stat.evictAndWrite + call.stat.evictWithoutWrite + e,
           Adds(Fills, Fills', GetSetId(id), l)
    PROVE  EntryInv' /\ StatsAddUp'
  <1> PICK s : s = GetSetId(id)
    OBVIOUS
  <1> PICK p : p = call.pc
    OBVIOUS
  <1>1. /\ s \in SetIds /\ p \in Pcs /\ call.stat \in CacheOpStat
        /\ bySet \in [SetIds -> CacheMetrics]
    <2>1. /\ GetSetId(id) \in SetIds /\ bySet \in [SetIds -> CacheMetrics]
          /\ call \in [op : {"load", "store"}, pc : Pcs, next : 0..Lines,
                       last : CLIDs, stat : CacheOpStat]
      BY AccessFacts DEF CountInv
    <2> QED
      BY <2>1
  <1>2. TypeOK /\ s \in SetIds /\ p \in Pcs
    BY <1>1 DEF CountInv, IInv
  <1>3. /\ Adds(Hits, Hits', p, 0) /\ Adds(Misses, Misses', p, 1)
        /\ Adds(Allocates, Allocates', p, e + l) /\ Adds(Evicts, Evicts', p, e)
        /\ InvalidPcs' = InvalidPcs /\ EntryInv'
    <2>1. stat.hit = call.stat.hit + 0
      BY <1>1 DEF CacheOpStat
    <2>2. e + l \in Int
      OBVIOUS
    <2> QED
      BY <2>1, <2>2, AccessCounts
  <1>4. /\ bySet'[s] = Miss(bySet[s], p) /\ \A t \in SetIds : t # s => bySet'[t] = bySet[t]
        /\ bySet[s] \in CacheMetrics
    BY <1>1
  <1>5. /\ bySet'[s].hit = bySet[s].hit /\ bySet'[s].miss = bySet[s].miss + 1
        /\ bySet'[s].hitPc = bySet[s].hitPc /\ bySet'[s].missPc = bySet[s].missPc \cup {p}
    BY <1>4, MissFields
  <1>6. Adds(SetHits, SetHits', s, 0) /\ Adds(SetMisses, SetMisses', s, 1)
    <2>1. bySet[s].hit \in Int
      BY <1>4 DEF CacheMetrics
    <2>2. \A t \in SetIds : t # s => bySet'[t].hit = bySet[t].hit /\ bySet'[t].miss = bySet[t].miss
      BY <1>4
    <2>3. bySet'[s].hit = bySet[s].hit + 0 /\ bySet'[s].miss = bySet[s].miss + 1
      BY <1>5, <2>1
    <2>4. Adds(SetHits, SetHits', s, 0)
      BY <1>2, <2>2, <2>3 DEF Adds, SetHits
    <2>5. Adds(SetMisses, SetMisses', s, 1)
      BY <1>2, <2>2, <2>3 DEF Adds, SetMisses
    <2> QED
      BY <2>4, <2>5
  <1>7. InvalidPcs = {} => SumsAgree'
    <2> SUFFICES ASSUME InvalidPcs = {} PROVE SumsAgree'
      OBVIOUS
    <2>1. SumsAgree
      BY StatsSplit DEF CountInv
    <2>2. Adds(Fills, Fills', s, l)
      OBVIOUS
    <2> QED
      BY <1>2, <1>3, <1>6, <2>1, <2>2, CountStep
  <1>8. Named'
    <2>1. Named
      BY StatsSplit DEF CountInv
    <2>2. Hits \in [Pcs -> Nat] /\ Misses \in [Pcs -> Nat]
      BY <1>2, CountTypes
    <2>3. /\ Misses'[p] = Misses[p] + 1
          /\ \A pc \in Pcs : pc # p => Misses'[pc] = Misses[pc]
          /\ \A pc \in Pcs : Hits'[pc] = Hits[pc]
      BY <1>2, <1>3, <2>2 DEF Adds
    <2>4. \A t \in SetIds : /\ bySet'[t].hitPc = bySet[t].hitPc
                            /\ \A pc \in Pcs : pc # p =>
                                   (pc \in bySet'[t].missPc <=> pc \in bySet[t].missPc)
      BY <1>4, <1>5
    <2>5. Misses'[p] > 0 /\ p \in bySet'[s].missPc
      BY <1>2, <1>5, <2>2, <2>3
    <2>6. ASSUME NEW pc \in Pcs \ InvalidPcs
          PROVE  /\ Hits'[pc] > 0 <=> \E t \in SetIds : pc \in bySet'[t].hitPc
                 /\ Misses'[pc] > 0 <=> \E t \in SetIds : pc \in bySet'[t].missPc
      <3>1. /\ Hits[pc] > 0 <=> \E t \in SetIds : pc \in bySet[t].hitPc
            /\ Misses[pc] > 0 <=> \E t \in SetIds : pc \in bySet[t].missPc
        BY <2>1 DEF Named
      <3> QED
        BY <1>2, <2>3, <2>4, <2>5, <3>1
    <2> QED
      BY <1>3, <2>6 DEF Named
  <1> QED
    BY <1>3, <1>7, <1>8, StatsSplitNext

LEMMA MissAndStoreThroughCountInv ==
    ASSUME CountInv, NEW id \in CLIDs, MissAndStoreThrough(id)
    PROVE  EntryInv' /\ StatsAddUp'
  <1> DEFINE stat == [call.stat EXCEPT !.miss = call.stat.miss + 1]
  <1> PICK e \in Int : e = 0
    OBVIOUS
  <1> PICK l \in Int : l = 0
    OBVIOUS
  <1>1. /\ Access(id)
        /\ bySet' = [bySet EXCEPT ![GetSetId(id)] = Miss(@, call.pc)]
        /\ call' = [call EXCEPT !.next = id + 1, !.stat.miss = @ + 1]
        /\ placement' = placement
    BY DEF MissAndStoreThrough
  <1>2. /\ GetSetId(id) \in SetIds
        /\ call \in [op : {"load", "store"}, pc : Pcs, next : 0..Lines,
                     last : CLIDs, stat : CacheOpStat]
    BY <1>1, AccessFacts DEF CountInv
  <1>3. call'.op = call.op /\ call'.pc = call.pc /\ call'.stat = stat
    BY <1>1, <1>2
  <1>4. /\ stat \in CacheOpStat /\ stat.hit = call.stat.hit
        /\ stat.miss = call.stat.miss + 1 /\ stat.allocate = call.stat.allocate + (e + l)
        /\ stat.evictAndWrite + stat.evictWithoutWrite
               = call.stat.evictAndWrite + call.stat.evictWithoutWrite + e
    <2>1. /\ call.stat \in CacheOpStat /\ call.stat.miss \in Nat /\ call.stat.allocate \in Int
          /\ call.stat.evictAndWrite \in Int /\ call.stat.evictWithoutWrite \in Int
      BY <1>2 DEF CacheOpStat
    <2>2. stat \in CacheOpStat
      BY <2>1 DEF CacheOpStat
    <2>3. /\ stat.hit = call.stat.hit
          /\ stat.miss = call.stat.miss + 1 /\ stat.allocate = call.stat.allocate
          /\ stat.evictAndWrite = call.stat.evictAndWrite
          /\ stat.evictWithoutWrite = call.stat.evictWithoutWrite
      BY <2>1 DEF CacheOpStat
    <2> HIDE DEF stat
    <2> QED
      BY <2>1, <2>2, <2>3
  <1> HIDE DEF stat
  <1>5. Adds(Fills, Fills', GetSetId(id), l)
    <2>1. Fills' = Fills
      BY <1>1 DEF Fills
    <2>2. Fills \in [SetIds -> Nat]
      BY CountTypes DEF CountInv, IInv
    <2> QED
      BY <1>2, <2>1, <2>2 DEF Adds
  <1> QED
    BY <1>1, <1>3, <1>4, <1>5, MissCountInv

LEMMA AllocatedLength ==
    ASSUME NEW data \in Seq(CLEntries), NEW entry \in CLEntries, Len(data) <= Ways
    PROVE  /\ Len(data) < Ways => /\ ~(Len(Inserted(data, entry)) > Ways)
                                  /\ Len(Allocated(data, entry)) = Len(data) + 1
           /\ Len(data) = Ways => /\ Len(Inserted(data, entry)) > Ways
                                  /\ Len(Allocated(data, entry)) = Ways
  BY AllocateRenews

LEMMA MissAndAllocateCountInv ==
    ASSUME CountInv, NEW id \in CLIDs, MissAndAllocate(id)
    PROVE  EntryInv' /\ StatsAddUp'
  <1> PICK s : s = GetSetId(id)
    OBVIOUS
  <1> PICK old : old = placement[s]
    OBVIOUS
  <1> PICK entry : entry = [id |-> id, isDirty |-> call.op = "store"]
    OBVIOUS
  <1> PICK replaced : replaced = (Len(Inserted(old, entry)) > Ways)
    OBVIOUS
  <1> PICK written \in BOOLEAN :
          written = (WriteBack /\ Oldest(Inserted(old, entry)).isDirty)
    OBVIOUS
  <1> PICK new : new = Allocated(old, entry)
    OBVIOUS
  <1>1. /\ Access(id)
        /\ bySet' = [bySet EXCEPT ![GetSetId(id)] = Miss(@, call.pc)]
        /\ placement' = [placement EXCEPT ![s] = new]
        /\ call' = [call EXCEPT !.next = id + 1,
                                !.stat = CountMiss(@, replaced, written)]
    BY DEF MissAndAllocate, Allocated
  <1>2. /\ s \in SetIds /\ old \in Seq(CLEntries)
        /\ placement \in [SetIds -> Seq(CLEntries)]
        /\ call \in [op : {"load", "store"}, pc : Pcs, next : 0..Lines,
                     last : CLIDs, stat : CacheOpStat]
    BY <1>1, AccessFacts DEF CountInv
  <1>3. entry \in CLEntries
    BY DEF CLEntries
  <1> PICK e : e = IF replaced THEN 1 ELSE 0
    OBVIOUS
  <1>4. /\ e \in {0, 1} /\ (replaced <=> e = 1)
        /\ Len(new) = Len(old) + (1 - e)
    <2>1. Len(old) \in Nat /\ Len(old) <= Ways /\ Ways \in Nat
      BY <1>2, SizeAssumption DEF CountInv, IInv, PlacementSound, SetSound
    <2>2. CASE Len(old) < Ways
      <3>1. ~(Len(Inserted(old, entry)) > Ways) /\ Len(new) = Len(old) + 1
        BY <1>2, <1>3, <2>1, <2>2, AllocatedLength
      <3>2. ~replaced
        BY <3>1
      <3>3. e = 0
        BY <3>2
      <3> QED
        BY <2>1, <3>1, <3>2, <3>3
    <2>3. CASE Len(old) = Ways
      <3>1. Len(Inserted(old, entry)) > Ways /\ Len(new) = Ways
        BY <1>2, <1>3, <2>1, <2>3, AllocatedLength
      <3>2. replaced
        BY <3>1
      <3>3. e = 1
        BY <3>2
      <3> QED
        BY <2>1, <2>3, <3>1, <3>2, <3>3
    <2> QED
      BY <2>1, <2>2, <2>3
  <1> PICK stat : stat = CountMiss(call.stat, replaced, written)
    OBVIOUS
  <1>5. call'.op = call.op /\ call'.pc = call.pc /\ call'.stat = stat
    BY <1>1, <1>2
  <1>6. /\ stat \in CacheOpStat /\ stat.hit = call.stat.hit
        /\ stat.miss = call.stat.miss + 1
        /\ stat.allocate = call.stat.allocate + (e + (1 - e))
        /\ stat.evictAndWrite + stat.evictWithoutWrite
               = call.stat.evictAndWrite + call.stat.evictWithoutWrite + e
    <2>1. /\ call.stat \in CacheOpStat /\ call.stat.allocate \in Int
          /\ call.stat.evictAndWrite \in Int /\ call.stat.evictWithoutWrite \in Int
      BY <1>2 DEF CacheOpStat
    <2>2. stat \in CacheOpStat
      BY <2>1, CountMissType
    <2>3. /\ stat.hit = call.stat.hit
          /\ stat.miss = call.stat.miss + 1 /\ stat.allocate = call.stat.allocate + 1
          /\ stat.evictAndWrite = IF replaced /\ written THEN call.stat.evictAndWrite + 1
                                  ELSE call.stat.evictAndWrite
          /\ stat.evictWithoutWrite = IF replaced /\ ~written
                                      THEN call.stat.evictWithoutWrite + 1
                                      ELSE call.stat.evictWithoutWrite
      BY <2>1 DEF CacheOpStat, CountMiss
    <2>4. stat.evictAndWrite + stat.evictWithoutWrite
               = call.stat.evictAndWrite + call.stat.evictWithoutWrite + e
      <3>1. CASE replaced
        <4>1. e = 1
          BY <1>4, <3>1
        <4>2. CASE written
          BY <2>1, <2>3, <3>1, <4>1, <4>2
        <4>3. CASE ~written
          BY <2>1, <2>3, <3>1, <4>1, <4>3
        <4> QED
          BY <4>2, <4>3
      <3>2. CASE ~replaced
        <4>1. e = 0
          BY <1>4, <3>2
        <4> QED
          BY <2>1, <2>3, <3>2, <4>1
      <3> QED
        BY <3>1, <3>2
    <2> QED
      BY <1>4, <2>1, <2>2, <2>3, <2>4
  <1>7. Adds(Fills, Fills', GetSetId(id), 1 - e)
    <2>1. /\ placement'[s] = new /\ \A t \in SetIds : t # s => placement'[t] = placement[t]
      BY <1>1, <1>2
    <2>2. /\ Len(placement'[s]) = Len(placement[s]) + (1 - e)
          /\ \A t \in SetIds : t # s => Len(placement'[t]) = Len(placement[t])
      BY <1>4, <2>1
    <2>3. s \in SetIds
      BY <1>2
    <2>4. Adds(Fills, Fills', s, 1 - e)
      BY <2>2, <2>3 DEF Adds, Fills
    <2> QED
      BY <2>4
  <1>8. e \in Int /\ 1 - e \in Int
    BY <1>4
  <1> QED
    BY <1>1, <1>5, <1>6, <1>7, <1>8, MissCountInv

LEMMA NextCountInv == CountInv /\ [Next]_vars => CountInv'
  <1> SUFFICES ASSUME CountInv, [Next]_vars PROVE EntryInv' /\ StatsAddUp'
    BY NextIInv DEF CountInv
  <1>1. CASE \E r \in Records : BeginRecord(r)
    BY <1>1, BeginRecordCountInv
  <1>2. CASE EndRecord
    BY <1>2, EndRecordCountInv
  <1>3. CASE Walk
    <2>1. PICK id \in CLIDs :
              AccessHit(id) \/ MissAndAllocate(id) \/ MissAndStoreThrough(id)
      BY <1>3 DEF Walk
    <2> QED
      BY <2>1, AccessHitCountInv, MissAndAllocateCountInv, MissAndStoreThroughCountInv
  <1>4. CASE UNCHANGED vars
    <2>1. UNCHANGED <<bySet, placement, byPc, call>>
      BY <1>4 DEF vars
    <2>2. EntryInv' /\ InvalidPcs' = InvalidPcs
      BY <2>1 DEF EntryInv, CountInv, InvalidPcs
    <2>3. \A pc \in Pcs : Stat(pc)' = Stat(pc)
      BY <2>1 DEF Stat
    <2> QED
      BY <2>1, <2>2, <2>3, SameCounts DEF CountInv, Hits, Misses, Allocates, Evicts
  <1> QED
    BY <1>1, <1>2, <1>3, <1>4 DEF Next

(* The tables of the instructions and of the sets add up, and to the lines *)
(* in the cache, whatever the cache, the records and their number.         *)
THEOREM StatsCorrect == Spec => []StatsAddUp
  <1>1. CountInv => StatsAddUp
    BY DEF CountInv
  <1> QED
    BY <1>1, InitCountInv, NextCountInv, PTL DEF Spec

-----------------------------------------------------------------------------
(* LiveRegisters                                                           *)

NoLd4 == \A i \in DOMAIN instrs : ~instrs[i].ld4

(* Row i reads or writes register r; the registers of the first n rows.    *)
UsedIn(r, i) == r \in Reads(i) \union Writes(i)
UsedBy(n) == {r \in Registers : \E h \in 1..n : UsedIn(r, h)}

(* Row x only writes r, which was not used from row j on.                  *)
Frees(x, r, j) == r \in Writes(x) \ Reads(x) /\ \A k \in j..(x - 1) : ~UsedIn(r, k)

(* The registers row j is charged with when n rows have been seen.         *)
Held(j, n) == {r \in UsedBy(j) : \A x \in (j + 1)..n : ~Frees(x, r, j)}

Texts(S) == {Text(r) : r \in S}

(* The map gives the row of the last use of each register used so far.     *)
LastUses(map, n) ==
    /\ DOMAIN map = Texts(UsedBy(n))
    /\ \A r \in UsedBy(n) :
           /\ map[Text(r)] \in 1..n
           /\ UsedIn(r, map[Text(r)])
           /\ \A k \in (map[Text(r)] + 1)..n : ~UsedIn(r, k)

HeldCounts(counts, n) ==
    /\ DOMAIN counts = 1..n
    /\ \A j \in 1..n : counts[j] = Cardinality(Held(j, n))

LiveInv ==
    /\ instrs \in Programs
    /\ index \in 1..(Len(instrs) + 2)
    /\ NoLd4 =>
           /\ index <= Len(instrs) + 1 =>
                  /\ LastUses(registerWithIndex, index - 1)
                  /\ HeldCounts(gprCount, index - 1)
           /\ CountsExact

LEMMA MemberOf ==
    ASSUME NEW U, NEW s \in Seq(U) PROVE \A i \in 1..Len(s) : s[i] \in U
  OBVIOUS

LEMMA RowTypes ==
    ASSUME instrs \in Programs, NEW i \in 1..Len(instrs)
    PROVE  /\ DOMAIN instrs = 1..Len(instrs) /\ Len(instrs) \in Nat
           /\ instrs[i].ld4 \in BOOLEAN /\ instrs[i].dstLoc \in SUBSET Nat
           /\ instrs[i].regs \in Seq(Registers)
           /\ \A p \in DOMAIN instrs[i].regs : instrs[i].regs[p] \in Registers
  <1>1. instrs \in Seq([ld4 : BOOLEAN, dstLoc : SUBSET Nat, regs : Seq(Registers)])
    BY ProgramsAssumption
  <1>2. instrs[i] \in [ld4 : BOOLEAN, dstLoc : SUBSET Nat, regs : Seq(Registers)]
    BY <1>1, MemberOf, Zenon
  <1>3. instrs[i].regs \in Seq(Registers)
    BY <1>2
  <1>4. \A p \in DOMAIN instrs[i].regs : instrs[i].regs[p] \in Registers
    BY <1>3
  <1>5. DOMAIN instrs = 1..Len(instrs) /\ Len(instrs) \in Nat
    BY <1>1
  <1>6. instrs[i].ld4 \in BOOLEAN /\ instrs[i].dstLoc \in SUBSET Nat
    BY <1>2
  <1> QED
    BY <1>3, <1>4, <1>5, <1>6

LEMMA RolesAre ==
    ASSUME instrs \in Programs, NoLd4, NEW i \in 1..Len(instrs)
    PROVE  /\ GetDstAndSrcRegister(instrs[i]).dst = Texts(Writes(i))
           /\ GetDstAndSrcRegister(instrs[i]).src = Texts(Reads(i))
           /\ Writes(i) \subseteq Registers /\ Reads(i) \subseteq Registers
  <1>1. ~instrs[i].ld4
    BY RowTypes DEF NoLd4
  <1>2. /\ Writes(i) = {instrs[i].regs[p] : p \in instrs[i].dstLoc \intersect DOMAIN instrs[i].regs}
        /\ Reads(i) = {instrs[i].regs[p] : p \in DOMAIN instrs[i].regs \ instrs[i].dstLoc}
    BY <1>1 DEF Writes, Reads
  <1>3. Writes(i) \subseteq Registers /\ Reads(i) \subseteq Registers
    BY <1>2, RowTypes
  <1>4. /\ GetDstAndSrcRegister(instrs[i]).dst = Listed(instrs[i], instrs[i].dstLoc)
        /\ GetDstAndSrcRegister(instrs[i]).src
               = Listed(instrs[i], DOMAIN instrs[i].regs \ instrs[i].dstLoc)
    BY <1>1 DEF GetDstAndSrcRegister, GetNormalDstAndSrcRegister
  <1>5. Listed(instrs[i], instrs[i].dstLoc) = Texts(Writes(i))
    BY <1>2 DEF Listed, Texts
  <1>6. Listed(instrs[i], DOMAIN instrs[i].regs \ instrs[i].dstLoc) = Texts(Reads(i))
    BY <1>2 DEF Listed, Texts
  <1> QED
    BY <1>3, <1>4, <1>5, <1>6

LEMMA RegistersFinite ==
    ASSUME NEW S \in SUBSET Registers PROVE IsFiniteSet(S) /\ Cardinality(S) \in Nat
  <1>1. IsFiniteSet(Registers)
    <2>1. 0 \in Int /\ RegisterLimit - 1 \in Int
      BY LimitAssumption
    <2> QED
      BY <2>1, FS_Interval DEF Registers
  <1> QED
    BY <1>1, FS_Subset, FS_CardinalityType

(* A register has one text.                                                *)
LEMMA TextsCount ==
    ASSUME NEW S \in SUBSET Registers PROVE Cardinality(Texts(S)) = Cardinality(S)
  <1> DEFINE f == [r \in S |-> Text(r)]
  <1>1. f \in Bijection(S, Texts(S))
    BY DEF Bijection, Injection, Surjection, Texts, Text, IsInjective
  <1>2. ExistsBijection(S, Texts(S))
    BY <1>1 DEF ExistsBijection
  <1> QED
    BY <1>2, RegistersFinite, FS_Bijection

LEMMA TextsSplit ==
    ASSUME NEW S, NEW T
    PROVE  /\ Texts(S \union T) = Texts(S) \union Texts(T)
           /\ \A r : Text(r) \in Texts(S) <=> r \in S
  BY DEF Texts, Text

(* What is left of a count when the registers of F are taken back.         *)
LEMMA TakenBack ==
    ASSUME NEW S \in SUBSET Registers, NEW F \in SUBSET S, NEW T, T = Texts(F)
    PROVE  Cardinality(S \ F) = IF Cardinality(T) > Cardinality(S) THEN 0
                                ELSE Cardinality(S) - Cardinality(T)
  <1>1. Cardinality(S \ F) = Cardinality(S) - Cardinality(S \cap F)
    BY RegistersFinite, FS_Difference
  <1>2. S \cap F = F
    OBVIOUS
  <1>3. Cardinality(T) = Cardinality(F)
    BY TextsCount
  <1>4. Cardinality(F) <= Cardinality(S)
    BY RegistersFinite, FS_Subset
  <1>5. Cardinality(F) \in Nat /\ Cardinality(S) \in Nat
    <2>1. F \in SUBSET Registers
      OBVIOUS
    <2> QED
      BY <2>1, RegistersFinite
  <1>6. Cardinality(S \ F) = Cardinality(S) - Cardinality(F)
    BY <1>1, <1>2
  <1>7. ~(Cardinality(T) > Cardinality(S))
    BY <1>3, <1>4, <1>5
  <1> QED
    BY <1>3, <1>6, <1>7

(* A register whose last use is before row j has been held there.          *)
LEMMA OldIsHeld ==
    ASSUME NEW n \in Nat, NEW j \in 1..n, NEW map, LastUses(map, n),
           NEW r \in UsedBy(n), map[Text(r)] < j
    PROVE  r \in Held(j, n)
  <1> DEFINE m == map[Text(r)]
  <1>1. m \in 1..n /\ UsedIn(r, m) /\ \A k \in (m + 1)..n : ~UsedIn(r, k)
    BY DEF LastUses
  <1> HIDE DEF m
  <1>2. m < j
    BY DEF m
  <1>3. m \in 1..j
    BY <1>1, <1>2
  <1>4. r \in UsedBy(j)
    BY <1>1, <1>3 DEF UsedBy
  <1>5. ASSUME NEW x \in (j + 1)..n PROVE ~Frees(x, r, j)
    <2>1. x \in (m + 1)..n
      BY <1>1, <1>2
    <2>2. ~UsedIn(r, x)
      BY <1>1, <2>1
    <2> QED
      BY <2>2 DEF UsedIn, Frees
  <1> QED
    BY <1>4, <1>5 DEF Held

(* Row x takes back the registers it only writes, from the rows after      *)
(* their last use.                                                         *)
LEMMA RowReleases ==
    ASSUME NEW x \in Nat \ {0}, NEW j \in 1..(x - 1), NEW map, LastUses(map, x - 1)
    PROVE  Held(j, x) = Held(j, x - 1)
               \ {r \in UsedBy(x - 1) : r \in Writes(x) \ Reads(x) /\ map[Text(r)] < j}
  <1>1. (j + 1)..x = ((j + 1)..(x - 1)) \union {x}
    OBVIOUS
  <1>2. Held(j, x) = {r \in Held(j, x - 1) : ~Frees(x, r, j)}
    BY <1>1 DEF Held
  <1>3. UsedBy(j) \subseteq UsedBy(x - 1)
    BY DEF UsedBy
  <1>4. ASSUME NEW r \in Held(j, x - 1)
        PROVE  Frees(x, r, j) <=> r \in Writes(x) \ Reads(x) /\ map[Text(r)] < j
    <2>1. r \in UsedBy(x - 1)
      BY <1>3 DEF Held
    <2>2. PICK m : m = map[Text(r)]
      OBVIOUS
    <2>3. m \in 1..(x - 1) /\ UsedIn(r, m) /\ \A k \in (m + 1)..(x - 1) : ~UsedIn(r, k)
      BY <2>1, <2>2 DEF LastUses
    <2>4. (\A k \in j..(x - 1) : ~UsedIn(r, k)) => m < j
      BY <2>3
    <2>5. ASSUME m < j, NEW k \in j..(x - 1) PROVE ~UsedIn(r, k)
      <3>1. k \in (m + 1)..(x - 1)
        BY <2>3, <2>5
      <3> QED
        BY <2>3, <3>1
    <2> QED
      BY <2>2, <2>4, <2>5 DEF Frees
  <1>5. Held(j, x - 1) \subseteq UsedBy(x - 1)
    BY <1>3 DEF Held
  <1> QED
    BY <1>2, <1>4, <1>5

(* The map after the rows of the registers of S were entered.              *)
IsEntered(new, map, n, S, x) ==
    /\ DOMAIN new = Texts(UsedBy(n) \union S)
    /\ \A r \in S : new[Text(r)] = x
    /\ \A r \in UsedBy(n) \ S : new[Text(r)] = map[Text(r)]

LEMMA UsedEnters ==
    ASSUME NEW n \in Nat, NEW map, LastUses(map, n), NEW S, NEW x
    PROVE  IsEntered(Used(map, Texts(S), x), map, n, S, x)
  <1> DEFINE new == Used(map, Texts(S), x)
  <1>1. DOMAIN new = Texts(UsedBy(n) \union S)
    BY TextsSplit DEF Used, LastUses
  <1>2. ASSUME NEW r \in UsedBy(n) \union S
        PROVE  new[Text(r)] = IF r \in S THEN x ELSE map[Text(r)]
    <2>1. Text(r) \in DOMAIN map \union Texts(S)
      BY TextsSplit DEF LastUses
    <2>2. Text(r) \in Texts(S) <=> r \in S
      BY TextsSplit
    <2> QED
      BY <2>1, <2>2 DEF Used
  <1> HIDE DEF new
  <1> QED
    BY <1>1, <1>2 DEF IsEntered, new

LEMMA ReleaseRow ==
    ASSUME NEW x \in Nat \ {0}, Reads(x) \subseteq Registers,
           NEW map, LastUses(map, x - 1), NEW counts, HeldCounts(counts, x - 1),
           NEW read, read = Used(map, Texts(Reads(x)), x), NEW j \in 1..(x - 1)
    PROVE  Released(counts, read, Texts(Writes(x)), x)[j] = Cardinality(Held(j, x))
  <1> DEFINE F == {r \in UsedBy(x - 1) : r \in Writes(x) \ Reads(x) /\ map[Text(r)] < j}
             T == {t \in Texts(Writes(x)) \intersect DOMAIN read : read[t] < j /\ j < x}
  <1>0. x - 1 \in Nat /\ j \in Nat /\ x \in Nat /\ j < x
    OBVIOUS
  <1>1. /\ DOMAIN read = Texts(UsedBy(x - 1) \union Reads(x))
        /\ \A r \in Reads(x) : read[Text(r)] = x
        /\ \A r \in UsedBy(x - 1) \ Reads(x) : read[Text(r)] = map[Text(r)]
    <2>1. IsEntered(Used(map, Texts(Reads(x)), x), map, x - 1, Reads(x), x)
      BY <1>0, UsedEnters
    <2> QED
      BY <2>1 DEF IsEntered
  <1>2. T = Texts(F)
    <2>1. ASSUME NEW t \in T PROVE t \in Texts(F)
      <3>1. PICK r \in Writes(x) : t = Text(r)
        BY DEF Texts
      <3>2. r \in UsedBy(x - 1) \union Reads(x)
        BY <1>1, <3>1, TextsSplit
      <3>3. r \notin Reads(x)
        BY <1>0, <1>1, <3>1
      <3>4. r \in F
        BY <1>1, <3>1, <3>2, <3>3
      <3> QED
        BY <3>1, <3>4 DEF Texts
    <2>2. ASSUME NEW r \in F PROVE Text(r) \in T
      <3>1. Text(r) \in Texts(Writes(x)) /\ Text(r) \in DOMAIN read
        BY <1>1, TextsSplit
      <3>2. read[Text(r)] = map[Text(r)]
        BY <1>1
      <3> QED
        BY <1>0, <3>1, <3>2
    <2> HIDE DEF T, F
    <2> QED
      BY <2>1, <2>2 DEF Texts
  <1>3. F \subseteq Held(j, x - 1)
    BY <1>0, OldIsHeld
  <1>4. Held(j, x) = Held(j, x - 1) \ F
    BY RowReleases
  <1>5. Held(j, x - 1) \subseteq Registers
    BY DEF Held, UsedBy
  <1>6. j \in DOMAIN counts /\ counts[j] = Cardinality(Held(j, x - 1))
    BY DEF HeldCounts
  <1>7. Released(counts, read, Texts(Writes(x)), x)[j] =
            IF Cardinality(T) > counts[j] THEN 0 ELSE counts[j] - Cardinality(T)
    BY <1>6 DEF Released
  <1> HIDE DEF F, T
  <1> QED
    BY <1>2, <1>3, <1>4, <1>5, <1>6, <1>7, TakenBack

LEMMA NewMap ==
    ASSUME NEW x \in Nat \ {0}, Reads(x) \subseteq Registers, Writes(x) \subseteq Registers,
           NEW map, LastUses(map, x - 1),
           NEW read, read = Used(map, Texts(Reads(x)), x),
           NEW new, new = Used(read, Texts(Writes(x)), x)
    PROVE  LastUses(new, x)
  <1>0. x - 1 \in Nat /\ x \in 1..x
    OBVIOUS
  <1>1. /\ DOMAIN read = Texts(UsedBy(x - 1) \union Reads(x))
        /\ \A r \in Reads(x) : read[Text(r)] = x
        /\ \A r \in UsedBy(x - 1) \ Reads(x) : read[Text(r)] = map[Text(r)]
    <2>1. IsEntered(Used(map, Texts(Reads(x)), x), map, x - 1, Reads(x), x)
      BY <1>0, UsedEnters
    <2> QED
      BY <2>1 DEF IsEntered
  <1>2. UsedBy(x) = UsedBy(x - 1) \union Reads(x) \union Writes(x)
    <2>1. 1..x = 1..(x - 1) \union {x}
      OBVIOUS
    <2> QED
      BY <2>1 DEF UsedBy, UsedIn
  <1>3. DOMAIN new = Texts(UsedBy(x))
    BY <1>1, <1>2, TextsSplit DEF Used
  <1>4. ASSUME NEW r \in UsedBy(x)
        PROVE  new[Text(r)] = IF r \in Reads(x) \union Writes(x) THEN x ELSE map[Text(r)]
    <2>1. Text(r) \in DOMAIN read \union Texts(Writes(x))
      BY <1>1, <1>2, TextsSplit
    <2>2. Text(r) \in Texts(Writes(x)) <=> r \in Writes(x)
      BY TextsSplit
    <2>3. new[Text(r)] = IF r \in Writes(x) THEN x ELSE read[Text(r)]
      BY <2>1, <2>2 DEF Used
    <2> QED
      BY <1>1, <1>2, <2>3
  <1>5. ASSUME NEW r \in UsedBy(x)
        PROVE  /\ new[Text(r)] \in 1..x
               /\ UsedIn(r, new[Text(r)])
               /\ \A k \in (new[Text(r)] + 1)..x : ~UsedIn(r, k)
    <2>1. CASE UsedIn(r, x)
      <3>1. new[Text(r)] = x
        BY <1>4, <2>1 DEF UsedIn
      <3> QED
        BY <1>0, <2>1, <3>1
    <2>2. CASE ~UsedIn(r, x)
      <3>1. r \in UsedBy(x - 1)
        BY <1>2, <2>2 DEF UsedIn
      <3>2. PICK m : m = new[Text(r)]
        OBVIOUS
      <3>3. m = map[Text(r)]
        BY <1>4, <2>2, <3>2 DEF UsedIn
      <3>4. m \in 1..(x - 1) /\ UsedIn(r, m) /\ \A k \in (m + 1)..(x - 1) : ~UsedIn(r, k)
        BY <3>1, <3>3 DEF LastUses
      <3>5. \A k \in (m + 1)..x : k \in (m + 1)..(x - 1) \/ k = x
        BY <3>4
      <3>6. m \in 1..x
        BY <3>4
      <3> QED
        BY <2>2, <3>2, <3>4, <3>5, <3>6
    <2> QED
      BY <2>1, <2>2
  <1> QED
    BY <1>3, <1>5 DEF LastUses

LEMMA LeastOf ==
    ASSUME NEW S \in SUBSET Nat, S # {} PROVE \E k \in S : \A m \in S : k <= m
  <1>1. PICK k \in S : \A m \in S : ~(<<m, k>> \in OpToRel(<, Nat))
    BY WFMin, NatLessThanWellFounded
  <1>2. ASSUME NEW m \in S PROVE k <= m
    <2>1. m \in Nat /\ k \in Nat /\ ~(<<m, k>> \in OpToRel(<, Nat))
      BY <1>1
    <2> QED
      BY <2>1 DEF OpToRel
  <1> QED
    BY <1>2

(* A register held at row j is occupied there unless its last use is over. *)
LEMMA HeldIsOccupied ==
    ASSUME NEW n \in Nat, n = Len(instrs), NEW j \in 1..n, NEW map, LastUses(map, n),
           NEW r \in Held(j, n), ~(map[Text(r)] < j)
    PROVE  Occupied(r, j)
  <1>1. PICK m : m = map[Text(r)]
    OBVIOUS
  <1>2. r \in Registers /\ r \in UsedBy(n) /\ \E h \in 1..j : UsedIn(r, h)
    BY DEF Held, UsedBy
  <1>3. m \in 1..n /\ UsedIn(r, m)
    BY <1>1, <1>2 DEF LastUses
  <1>4. j <= m
    BY <1>1, <1>3
  <1>5. CASE UsedIn(r, j)
    BY <1>5 DEF Occupied, UsedIn
  <1>6. CASE ~UsedIn(r, j)
    <2>1. \E h \in 1..(j - 1) : UsedIn(r, h)
      BY <1>2, <1>6
    <2>2. PICK k \in (j + 1)..n : UsedIn(r, k) /\ \A i \in (j + 1)..(k - 1) : ~UsedIn(r, i)
      <3> DEFINE S == {k \in (j + 1)..n : UsedIn(r, k)}
      <3>1. m \in S
        BY <1>3, <1>4, <1>6
      <3>2. S \in SUBSET Nat
        OBVIOUS
      <3> HIDE DEF S
      <3>3. PICK k \in S : \A i \in S : k <= i
        BY <3>1, <3>2, LeastOf
      <3>4. k \in (j + 1)..n /\ UsedIn(r, k)
        BY DEF S
      <3>5. ASSUME NEW i \in (j + 1)..(k - 1) PROVE ~UsedIn(r, i)
        <4>1. i \in (j + 1)..n /\ ~(k <= i)
          BY <3>4
        <4> QED
          BY <3>3, <4>1 DEF S
      <3> QED
        BY <3>4, <3>5
    <2>3. \A i \in j..(k - 1) : ~UsedIn(r, i)
      BY <1>6, <2>2
    <2>4. ~Frees(k, r, j)
      BY <2>2 DEF Held
    <2>5. r \in Reads(k)
      BY <2>2, <2>3, <2>4 DEF Frees, UsedIn
    <2>6. \A i \in (j + 1)..(k - 1) : r \notin Writes(i)
      BY <2>2 DEF UsedIn
    <2> QED
      BY <2>1, <2>2, <2>5, <2>6 DEF Occupied, UsedIn
  <1> QED
    BY <1>5, <1>6

LEMMA OccupiedIsHeld ==
    ASSUME NEW n \in Nat, n = Len(instrs), NEW j \in 1..n, NEW map, LastUses(map, n),
           NEW r \in Registers, Occupied(r, j)
    PROVE  r \in Held(j, n) /\ ~(map[Text(r)] < j)
  <1>1. PICK k \in j..n :
            /\ UsedIn(r, k)
            /\ \A x \in (j + 1)..n : ~Frees(x, r, j)
    <2>1. CASE UsedIn(r, j)
      <3>1. ASSUME NEW x \in (j + 1)..n PROVE ~Frees(x, r, j)
        <4>1. j \in j..(x - 1)
          OBVIOUS
        <4> QED
          BY <2>1, <4>1 DEF Frees
      <3> QED
        BY <2>1, <3>1
    <2>2. CASE ~UsedIn(r, j)
      <3>1. PICK k \in (j + 1)..n : r \in Reads(k) /\ \A i \in (j + 1)..(k - 1) : r \notin Writes(i)
        BY <2>2 DEF Occupied, UsedIn
      <3>2. ASSUME NEW x \in (j + 1)..n PROVE ~Frees(x, r, j)
        <4>1. CASE x < k
          BY <3>1, <4>1 DEF Frees
        <4>2. CASE x = k
          BY <3>1, <4>2 DEF Frees
        <4>3. CASE x > k
          <5>1. k \in j..(x - 1)
            BY <4>3
          <5> QED
            BY <3>1, <5>1 DEF Frees, UsedIn
        <4> QED
          BY <4>1, <4>2, <4>3
      <3>3. k \in j..n /\ UsedIn(r, k)
        BY <3>1 DEF UsedIn
      <3> QED
        BY <3>2, <3>3
    <2> QED
      BY <2>1, <2>2
  <1>2. \E h \in 1..j : UsedIn(r, h)
    BY DEF Occupied, UsedIn
  <1>3. r \in UsedBy(j) /\ r \in UsedBy(n)
    BY <1>2 DEF UsedBy
  <1>4. PICK m : m = map[Text(r)]
    OBVIOUS
  <1>5. m \in 1..n /\ \A i \in (m + 1)..n : ~UsedIn(r, i)
    BY <1>3, <1>4 DEF LastUses
  <1>6. ~(m < j)
    BY <1>1, <1>5
  <1> QED
    BY <1>1, <1>3, <1>4, <1>6 DEF Held

LEMMA ReleaseAll ==
    ASSUME NEW n \in Nat, n = Len(instrs), NEW map, LastUses(map, n),
           NEW counts, HeldCounts(counts, n), NEW j \in 1..n
    PROVE  Released(counts, map, DOMAIN map, n + 1)[j] = Cardinality({r \in Registers : Occupied(r, j)})
  <1> DEFINE F == {r \in UsedBy(n) : map[Text(r)] < j}
             T == {t \in DOMAIN map \intersect DOMAIN map : map[t] < j /\ j < n + 1}
             O == {r \in Registers : Occupied(r, j)}
  <1>1. T = Texts(F)
    <2>1. DOMAIN map = Texts(UsedBy(n)) /\ j < n + 1
      BY DEF LastUses
    <2> QED
      BY <2>1 DEF Texts
  <1>2. F \subseteq Held(j, n)
    BY OldIsHeld
  <1>3. O = Held(j, n) \ F
    <2>1. Held(j, n) \subseteq Registers /\ Held(j, n) \subseteq UsedBy(n)
      BY DEF Held, UsedBy
    <2>2. \A r \in Registers : Occupied(r, j) => r \in Held(j, n) /\ ~(map[Text(r)] < j)
      BY OccupiedIsHeld
    <2>3. \A r \in Held(j, n) : ~(map[Text(r)] < j) => Occupied(r, j)
      BY HeldIsOccupied
    <2> QED
      BY <2>1, <2>2, <2>3
  <1>4. Held(j, n) \subseteq Registers
    BY DEF Held, UsedBy
  <1>5. j \in DOMAIN counts /\ counts[j] = Cardinality(Held(j, n))
    BY DEF HeldCounts
  <1>6. Released(counts, map, DOMAIN map, n + 1)[j] =
            IF Cardinality(T) > counts[j] THEN 0 ELSE counts[j] - Cardinality(T)
    BY <1>5 DEF Released
  <1> HIDE DEF F, T, O
  <1>7. Cardinality(O) = IF Cardinality(T) > Cardinality(Held(j, n)) THEN 0
                         ELSE Cardinality(Held(j, n)) - Cardinality(T)
    BY <1>1, <1>2, <1>3, <1>4, TakenBack
  <1> QED
    BY <1>5, <1>6, <1>7 DEF O

(* Row n is charged with all registers used so far.                        *)
LEMMA HeldByLast ==
    ASSUME NEW n \in Nat, NEW map, LastUses(map, n)
    PROVE  Cardinality(DOMAIN map) = Cardinality(Held(n, n))
  <1>1. Held(n, n) = UsedBy(n)
    BY DEF Held
  <1>2. UsedBy(n) \in SUBSET Registers /\ DOMAIN map = Texts(UsedBy(n))
    BY DEF UsedBy, LastUses
  <1> QED
    BY <1>1, <1>2, TextsCount
-----------------------------------------------------------------------------
LEMMA InitLiveInv == LiveInit => LiveInv
  <1> SUFFICES ASSUME LiveInit PROVE LiveInv
    OBVIOUS
  <1>1. instrs \in Programs /\ index = 1 /\ registerWithIndex = <<>> /\ gprCount = <<>>
    BY DEF LiveInit
  <1>2. Len(instrs) \in Nat
    BY <1>1, ProgramsAssumption
  <1>3. UsedBy(0) = {}
    BY DEF UsedBy
  <1>4. LastUses(registerWithIndex, index - 1)
    BY <1>1, <1>3 DEF LastUses, Texts
  <1>5. HeldCounts(gprCount, index - 1)
    BY <1>1 DEF HeldCounts
  <1> QED
    BY <1>1, <1>2, <1>4, <1>5 DEF LiveInv, CountsExact

(* The rows stay: what is said of them holds of them after a step.         *)
LEMMA SameRows ==
    ASSUME instrs' = instrs
    PROVE  /\ NoLd4' <=> NoLd4
           /\ \A i : Reads(i)' = Reads(i) /\ Writes(i)' = Writes(i)
           /\ \A n : UsedBy(n)' = UsedBy(n)
           /\ \A r, i : UsedIn(r, i)' <=> UsedIn(r, i)
           /\ \A j, n : Held(j, n)' = Held(j, n)
           /\ \A r, i : Occupied(r, i)' <=> Occupied(r, i)
  <1>1. NoLd4' <=> NoLd4
    BY DEF NoLd4
  <1>2. \A i : Reads(i)' = Reads(i) /\ Writes(i)' = Writes(i)
    BY DEF Reads, Writes
  <1>3. \A r, i : UsedIn(r, i)' <=> UsedIn(r, i)
    BY <1>2 DEF UsedIn
  <1>4. \A n : UsedBy(n)' = UsedBy(n)
    BY <1>3 DEF UsedBy
  <1>5. \A x, r, j : Frees(x, r, j)' <=> Frees(x, r, j)
    BY <1>2, <1>3 DEF Frees
  <1>6. \A j, n : Held(j, n)' = Held(j, n)
    BY <1>4, <1>5 DEF Held
  <1>7. \A r, i : Occupied(r, i)' <=> Occupied(r, i)
    BY <1>2 DEF Occupied
  <1> QED
    BY <1>1, <1>2, <1>3, <1>4, <1>6, <1>7

LEMMA CountRowLiveInv ==
    ASSUME LiveInv, CountRow PROVE LiveInv'
  <1>1. /\ instrs \in Programs /\ instrs' = instrs /\ index' = index + 1
        /\ index \in 1..Len(instrs) /\ Len(instrs) \in Nat
    <2>1. Len(instrs) \in Nat
      BY ProgramsAssumption DEF LiveInv
    <2> QED
      BY <2>1 DEF LiveInv, CountRow
  <1>2. index' \in 1..(Len(instrs') + 2) /\ index' <= Len(instrs') + 1
    BY <1>1
  <1>3. CountsExact'
    BY <1>2 DEF CountsExact
  <1> SUFFICES ASSUME NoLd4
               PROVE  /\ LastUses(registerWithIndex, index - 1)'
                      /\ HeldCounts(gprCount, index - 1)'
    BY <1>1, <1>2, <1>3, SameRows DEF LiveInv
  <1> PICK x \in Nat \ {0} : x = index
    BY <1>1
  <1> PICK map : map = registerWithIndex
    OBVIOUS
  <1> PICK counts : counts = gprCount
    OBVIOUS
  <1> PICK read : read = Used(map, Texts(Reads(x)), x)
    OBVIOUS
  <1> PICK new : new = Used(read, Texts(Writes(x)), x)
    OBVIOUS
  <1> PICK old : old = Released(counts, read, Texts(Writes(x)), x)
    OBVIOUS
  <1>4. LastUses(map, x - 1) /\ HeldCounts(counts, x - 1)
    BY <1>1 DEF LiveInv
  <1>5. /\ GetDstAndSrcRegister(instrs[x]).dst = Texts(Writes(x))
        /\ GetDstAndSrcRegister(instrs[x]).src = Texts(Reads(x))
        /\ Writes(x) \subseteq Registers /\ Reads(x) \subseteq Registers
    BY <1>1, RolesAre
  <1>6. /\ registerWithIndex' = new
        /\ gprCount' = Append(old, Cardinality(DOMAIN new))
    BY <1>5 DEF CountRow
  <1>7. LastUses(new, x)
    BY <1>4, <1>5, NewMap
  <1>8. HeldCounts(gprCount', x)
    <2>1. DOMAIN old = 1..(x - 1)
      BY <1>4 DEF Released, HeldCounts
    <2>2. \A j \in 1..(x - 1) : old[j] = Cardinality(Held(j, x))
      BY <1>4, <1>5, ReleaseRow
    <2>3. Cardinality(DOMAIN new) = Cardinality(Held(x, x))
      BY <1>7, HeldByLast
    <2>4. /\ DOMAIN gprCount' = 1..x /\ gprCount'[x] = Cardinality(DOMAIN new)
          /\ \A j \in 1..(x - 1) : gprCount'[j] = old[j]
      <3> PICK c : c = Cardinality(DOMAIN new)
        OBVIOUS
      <3>1. old = [j \in 1..(x - 1) |-> old[j]]
        BY <2>1 DEF Released, HeldCounts
      <3>2. Len(old) = x - 1
        BY <3>1
      <3>3. gprCount' = Append(old, c)
        BY <1>6
      <3> QED
        BY <2>1, <3>2, <3>3
    <2> QED
      BY <2>2, <2>3, <2>4 DEF HeldCounts
  <1>9. index' - 1 = x
    BY <1>1
  <1>10. LastUses(registerWithIndex, index - 1)'
    BY <1>1, <1>6, <1>7, <1>9, SameRows DEF LastUses
  <1>11. HeldCounts(gprCount, index - 1)'
    BY <1>1, <1>8, <1>9, SameRows DEF HeldCounts
  <1> QED
    BY <1>10, <1>11

LEMMA ReleaseLastLiveInv ==
    ASSUME LiveInv, ReleaseLast PROVE LiveInv'
  <1>1. /\ instrs \in Programs /\ instrs' = instrs /\ index' = Len(instrs) + 2
        /\ index = Len(instrs) + 1 /\ Len(instrs) \in Nat
    <2>1. Len(instrs) \in Nat
      BY ProgramsAssumption DEF LiveInv
    <2> QED
      BY <2>1 DEF LiveInv, ReleaseLast
  <1> SUFFICES ASSUME NoLd4 PROVE CountsExact'
    BY <1>1, SameRows DEF LiveInv
  <1>2. LastUses(registerWithIndex, index - 1) /\ HeldCounts(gprCount, index - 1)
    BY <1>1 DEF LiveInv
  <1> PICK n \in Nat : n = Len(instrs)
    BY <1>1
  <1>3. index - 1 = n /\ index = n + 1
    BY <1>1
  <1>4. LastUses(registerWithIndex, n) /\ HeldCounts(gprCount, n)
    BY <1>2, <1>3
  <1>5. gprCount' = Released(gprCount, registerWithIndex, DOMAIN registerWithIndex, n + 1)
    BY <1>3 DEF ReleaseLast
  <1>6. ASSUME NEW j \in 1..n
        PROVE  gprCount'[j] = Cardinality({r \in Registers : Occupied(r, j)})
    <2> PICK map : map = registerWithIndex
      OBVIOUS
    <2> PICK counts : counts = gprCount
      OBVIOUS
    <2>1. LastUses(map, n) /\ HeldCounts(counts, n)
      BY <1>4
    <2>2. Released(counts, map, DOMAIN map, n + 1)[j] = Cardinality({r \in Registers : Occupied(r, j)})
      BY <2>1, ReleaseAll
    <2> QED
      BY <1>5, <2>2
  <1>7. DOMAIN instrs' = 1..n
    BY <1>1, ProgramsAssumption
  <1> QED
    BY <1>1, <1>6, <1>7, SameRows DEF CountsExact

LEMMA NextLiveInv == LiveInv /\ [LiveNext]_liveVars => LiveInv'
  <1> SUFFICES ASSUME LiveInv, [LiveNext]_liveVars PROVE LiveInv'
    OBVIOUS
  <1>1. CASE CountRow
    BY <1>1, CountRowLiveInv
  <1>2. CASE ReleaseLast
    BY <1>2, ReleaseLastLiveInv
  <1>3. CASE UNCHANGED liveVars
    BY <1>3, SameRows DEF liveVars, LiveInv, LastUses, HeldCounts, CountsExact
  <1> QED
    BY <1>1, <1>2, <1>3 DEF LiveNext

(* In tables without LD4 each row has the count of the registers occupied  *)
(* there, whatever the rows and the number of registers.                   *)
THEOREM LiveCountsCorrect == LiveSpec => []LiveCountsExact
  <1>1. LiveInv => LiveCountsExact
    BY DEF LiveInv, LiveCountsExact, NoLd4
  <1> QED
    BY <1>1, InitLiveInv, NextLiveInv, PTL DEF LiveSpec

-----------------------------------------------------------------------------
(* RunningTime                                                             *)

(* A set that holds 0 and with a number the next one holds all of them.    *)
LEMMA SetInduction ==
    ASSUME NEW T, 0 \in T, \A n \in Nat : n \in T => n + 1 \in T
    PROVE  \A n \in Nat : n \in T
  <1>1. SUFFICES ASSUME NEW m \in Nat, m \notin T PROVE FALSE
    OBVIOUS
  <1> DEFINE F == {n \in Nat : n \notin T}
  <1>2. PICK x \in F : \A y \in F : ~(<<y, x>> \in OpToRel(<, Nat))
    <2>1. F \subseteq Nat /\ F # {}
      BY <1>1
    <2> QED
      BY <2>1, WFMin, NatLessThanWellFounded
  <1>3. x # 0 /\ x \in Nat
    OBVIOUS
  <1>4. x - 1 \in Nat /\ x - 1 \in F
    BY <1>3
  <1>5. <<x - 1, x>> \in OpToRel(<, Nat)
    BY <1>3, <1>4 DEF OpToRel
  <1> QED
    BY <1>2, <1>4, <1>5

(* Left folds over sequences.                                              *)

(* What FoldLeft CHOOSEs, for an operator given as a function on X and E.  *)
FoldsLeft(step, base, s, n, h) ==
    h = [S \in SUBSET (1..n) |->
            IF S = {} THEN base ELSE step[<<h[S \ {Max(S)}], s[Max(S)]>>]]

LEMMA MaxOfPrefix ==
    ASSUME NEW n \in Nat, NEW S \in SUBSET (1..(n + 1)), n + 1 \in S
    PROVE  Max(S) = n + 1
  <1>1. \A y \in S : n + 1 >= y
    OBVIOUS
  <1>2. \A x \in S : (\A y \in S : x >= y) => x = n + 1
    BY <1>1
  <1>3. Max(S) \in S /\ \A y \in S : Max(S) >= y
    BY <1>1 DEF Max
  <1> QED
    BY <1>2, <1>3

HasFold(X, step, base, s, n) == \E h \in [SUBSET (1..n) -> X] : FoldsLeft(step, base, s, n, h)

LEMMA FoldExists ==
    ASSUME NEW X, NEW E, NEW base \in X, NEW step \in [X \X E -> X],
           NEW n \in Nat, NEW s \in [1..n -> E]
    PROVE  HasFold(X, step, base, s, n)
  <1> DEFINE T == {k \in Nat : k <= n => HasFold(X, step, base, s, k)}
  <1>1. 0 \in T
    <2> DEFINE h == [S \in SUBSET (1..0) |-> base]
    <2>1. \A S \in SUBSET (1..0) : S = {}
      OBVIOUS
    <2>2. h \in [SUBSET (1..0) -> X] /\ FoldsLeft(step, base, s, 0, h)
      BY <2>1 DEF FoldsLeft
    <2> HIDE DEF h
    <2>3. HasFold(X, step, base, s, 0)
      BY <2>2 DEF HasFold
    <2> QED
      BY <2>3
  <1>2. ASSUME NEW k \in Nat, k \in T PROVE k + 1 \in T
    <2> SUFFICES ASSUME k + 1 <= n
                 PROVE  HasFold(X, step, base, s, k + 1)
      OBVIOUS
    <2>0. HasFold(X, step, base, s, k)
      BY <1>2
    <2>1. PICK g \in [SUBSET (1..k) -> X] : FoldsLeft(step, base, s, k, g)
      BY <2>0 DEF HasFold
    <2> DEFINE h == [S \in SUBSET (1..(k + 1)) |->
                        IF k + 1 \in S THEN step[<<g[S \ {k + 1}], s[k + 1]>>] ELSE g[S]]
    <2>2. \A S \in SUBSET (1..(k + 1)) :
              /\ S \ {k + 1} \in SUBSET (1..k)
              /\ k + 1 \notin S => S \in SUBSET (1..k)
      OBVIOUS
    <2>3. s[k + 1] \in E
      OBVIOUS
    <2>4. h \in [SUBSET (1..(k + 1)) -> X]
      <3>1. ASSUME NEW S \in SUBSET (1..(k + 1)), k + 1 \in S
            PROVE  step[<<g[S \ {k + 1}], s[k + 1]>>] \in X
        BY <2>2, <2>3
      <3>2. ASSUME NEW S \in SUBSET (1..(k + 1)), k + 1 \notin S
            PROVE  g[S] \in X
        BY <2>2, <3>2
      <3> QED
        BY <3>1, <3>2
    <2>5. ASSUME NEW S \in SUBSET (1..(k + 1))
          PROVE  h[S] = IF S = {} THEN base ELSE step[<<h[S \ {Max(S)}], s[Max(S)]>>]
      <3>1. CASE k + 1 \in S
        <4>1. Max(S) = k + 1
          BY <3>1, MaxOfPrefix
        <4>2. S \ {k + 1} \in SUBSET (1..(k + 1)) /\ k + 1 \notin S \ {k + 1}
          OBVIOUS
        <4>3. h[S \ {k + 1}] = g[S \ {k + 1}]
          BY <4>2, Zenon
        <4>4. h[S] = step[<<g[S \ {k + 1}], s[k + 1]>>]
          BY <3>1, Zenon
        <4> QED
          BY <3>1, <4>1, <4>3, <4>4, Zenon
      <3>2. CASE k + 1 \notin S
        <4>1. S \in SUBSET (1..k)
          BY <2>2, <3>2
        <4>2. g[S] = IF S = {} THEN base ELSE step[<<g[S \ {Max(S)}], s[Max(S)]>>]
          BY <2>1, <4>1, Zenon DEF FoldsLeft
        <4>3. S \ {Max(S)} \in SUBSET (1..(k + 1)) /\ k + 1 \notin S \ {Max(S)}
          BY <3>2
        <4>4. h[S \ {Max(S)}] = g[S \ {Max(S)}]
          BY <4>3, Zenon
        <4>5. h[S] = g[S]
          BY <3>2, Zenon
        <4> QED
          BY <4>2, <4>4, <4>5, Zenon
      <3> QED
        BY <3>1, <3>2
    <2>6. h = [S \in SUBSET (1..(k + 1)) |-> h[S]]
      OBVIOUS
    <2> HIDE DEF h
    <2>7. FoldsLeft(step, base, s, k + 1, h)
      BY <2>5, <2>6, Zenon DEF FoldsLeft
    <2> QED
      BY <2>4, <2>7 DEF HasFold
  <1>3. \A k \in Nat : k \in T
    <2> HIDE DEF T
    <2> QED
      BY <1>1, <1>2, SetInduction
  <1> QED
    BY <1>3

LEMMA MaxIsMember ==
    ASSUME NEW n \in Nat
    PROVE  \A S \in SUBSET (1..n) : S # {} => Max(S) \in S
  <1> DEFINE T == {k \in Nat : \A S \in SUBSET (1..k) : S # {} => Max(S) \in S}
  <1>1. 0 \in T
    <2>1. \A S \in SUBSET (1..0) : S = {}
      OBVIOUS
    <2> QED
      BY <2>1
  <1>2. ASSUME NEW k \in Nat, k \in T PROVE k + 1 \in T
    <2>1. ASSUME NEW S \in SUBSET (1..(k + 1)), S # {} PROVE Max(S) \in S
      <3>1. CASE k + 1 \in S
        BY <3>1, MaxOfPrefix
      <3>2. CASE k + 1 \notin S
        <4>1. S \in SUBSET (1..k)
          BY <3>2
        <4> QED
          BY <1>2, <2>1, <4>1
      <3> QED
        BY <3>1, <3>2
    <2> QED
      BY <2>1
  <1>3. \A k \in Nat : k \in T
    <2> HIDE DEF T
    <2> QED
      BY <1>1, <1>2, SetInduction
  <1> QED
    BY <1>3

(* What a fold makes of the first k + 1 members.                           *)
LEMMA PrefixFacts ==
    ASSUME NEW n \in Nat, NEW k \in 0..(n - 1)
    PROVE  /\ 1..(k + 1) \in SUBSET (1..n) /\ 1..(k + 1) # {}
           /\ Max(1..(k + 1)) = k + 1
           /\ (1..(k + 1)) \ {k + 1} = 1..k
  <1>1. /\ 1..(k + 1) \in SUBSET (1..n) /\ k + 1 \in 1..(k + 1)
        /\ (1..(k + 1)) \ {k + 1} = 1..k
    OBVIOUS
  <1> QED
    BY <1>1, MaxOfPrefix
-----------------------------------------------------------------------------
(* The two loops of CalculateRunningTime                                   *)

Intervals == [startTick : RunTicks, endTick : RunTicks]

MergedOne(merge, instr) ==
    IF merge # <<>> /\ Last(merge).endTick >= instr.startTick
      THEN Append(Front(merge),
                  [Last(merge) EXCEPT !.endTick = IF instr.endTick > @ THEN instr.endTick ELSE @])
      ELSE Append(merge, instr)
SummedOne(sum, info) ==
    IF info.startTick >= info.endTick THEN sum ELSE sum + (info.endTick - info.startTick)

Merges(s, h) ==
    h = [S \in SUBSET DOMAIN s |->
            IF S = {} THEN <<>> ELSE MergedOne(h[S \ {Max(S)}], s[Max(S)])]
AddsUp(s, h) ==
    h = [S \in SUBSET DOMAIN s |->
            IF S = {} THEN 0 ELSE SummedOne(h[S \ {Max(S)}], s[Max(S)])]

LEMMA LoopsAre ==
    ASSUME NEW s
    PROVE  /\ MergeOverlapping(s) = (CHOOSE h : Merges(s, h))[DOMAIN s]
           /\ SumOfLengths(s) = (CHOOSE h : AddsUp(s, h))[DOMAIN s]
  <1>1. MergeOverlapping(s) = (CHOOSE h : Merges(s, h))[DOMAIN s]
    BY DEF MergeOverlapping, FoldLeft, MapThenFoldSet, Merges, MergedOne
  <1>2. SumOfLengths(s) = (CHOOSE h : AddsUp(s, h))[DOMAIN s]
    BY DEF SumOfLengths, FoldLeft, MapThenFoldSet, AddsUp, SummedOne
  <1> QED
    BY <1>1, <1>2

LEMMA MergedOneType ==
    ASSUME NEW m \in Seq(Intervals), NEW i \in Intervals
    PROVE  MergedOne(m, i) \in Seq(Intervals)
  <1>1. CASE m # <<>> /\ Last(m).endTick >= i.startTick
    <2>1. Last(m) \in Intervals /\ Front(m) \in Seq(Intervals)
      BY <1>1 DEF Last, Front
    <2> PICK e : e = IF i.endTick > Last(m).endTick THEN i.endTick ELSE Last(m).endTick
      OBVIOUS
    <2>2. e \in RunTicks
      BY <2>1 DEF Intervals
    <2>3. [Last(m) EXCEPT !.endTick = e] \in Intervals
      BY <2>1, <2>2 DEF Intervals
    <2>4. MergedOne(m, i) = Append(Front(m), [Last(m) EXCEPT !.endTick = e])
      BY <1>1 DEF MergedOne
    <2> QED
      BY <2>1, <2>3, <2>4
  <1>2. CASE ~(m # <<>> /\ Last(m).endTick >= i.startTick)
    BY <1>2 DEF MergedOne
  <1> QED
    BY <1>1, <1>2

LEMMA IntervalFields ==
    ASSUME NEW i \in Intervals
    PROVE  /\ i.startTick \in RunTicks /\ i.endTick \in RunTicks
           /\ i.startTick \in Nat /\ i.endTick \in Nat
  <1>1. i.startTick \in RunTicks /\ i.endTick \in RunTicks
    BY DEF Intervals
  <1> QED
    BY <1>1, RunTicksAssumption

LEMMA SummedOneType ==
    ASSUME NEW n \in Int, NEW i \in Intervals
    PROVE  SummedOne(n, i) \in Int
  <1>1. i.startTick \in Nat /\ i.endTick \in Nat
    BY IntervalFields
  <1>2. n + (i.endTick - i.startTick) \in Int
    BY <1>1
  <1> QED
    BY <1>2 DEF SummedOne

(* The loops have a result, and it is reached one member at a time.        *)
LEMMA MergesExist ==
    ASSUME NEW n \in Nat, NEW s \in [1..n -> Intervals]
    PROVE  \E h : Merges(s, h)
  <1> DEFINE step == [p \in Seq(Intervals) \X Intervals |-> MergedOne(p[1], p[2])]
  <1>1. step \in [Seq(Intervals) \X Intervals -> Seq(Intervals)]
    BY MergedOneType
  <1>2. <<>> \in Seq(Intervals)
    OBVIOUS
  <1>3. \A m \in Seq(Intervals), i \in Intervals : step[<<m, i>>] = MergedOne(m, i)
    OBVIOUS
  <1> HIDE DEF step
  <1>4. HasFold(Seq(Intervals), step, <<>>, s, n)
    BY <1>1, <1>2, FoldExists
  <1>5. PICK h \in [SUBSET (1..n) -> Seq(Intervals)] : FoldsLeft(step, <<>>, s, n, h)
    BY <1>4 DEF HasFold
  <1>6. ASSUME NEW S \in SUBSET (1..n)
        PROVE  h[S] = IF S = {} THEN <<>> ELSE MergedOne(h[S \ {Max(S)}], s[Max(S)])
    <2>1. h[S] = IF S = {} THEN <<>> ELSE step[<<h[S \ {Max(S)}], s[Max(S)]>>]
      BY <1>5, Zenon DEF FoldsLeft
    <2>2. S # {} => h[S \ {Max(S)}] \in Seq(Intervals) /\ s[Max(S)] \in Intervals
      BY MaxIsMember
    <2> QED
      BY <1>3, <2>1, <2>2, Zenon
  <1>7. DOMAIN s = 1..n /\ h = [S \in SUBSET (1..n) |-> h[S]]
    OBVIOUS
  <1>8. Merges(s, h)
    BY <1>6, <1>7, Zenon DEF Merges
  <1> QED
    BY <1>8

LEMMA SumsUpExist ==
    ASSUME NEW n \in Nat, NEW s \in [1..n -> Intervals]
    PROVE  \E h : AddsUp(s, h)
  <1> DEFINE step == [p \in Int \X Intervals |-> SummedOne(p[1], p[2])]
  <1>1. step \in [Int \X Intervals -> Int]
    BY SummedOneType
  <1>2. 0 \in Int
    OBVIOUS
  <1>3. \A m \in Int, i \in Intervals : step[<<m, i>>] = SummedOne(m, i)
    OBVIOUS
  <1> HIDE DEF step
  <1>4. HasFold(Int, step, 0, s, n)
    BY <1>1, <1>2, FoldExists
  <1>5. PICK h \in [SUBSET (1..n) -> Int] : FoldsLeft(step, 0, s, n, h)
    BY <1>4 DEF HasFold
  <1>6. ASSUME NEW S \in SUBSET (1..n)
        PROVE  h[S] = IF S = {} THEN 0 ELSE SummedOne(h[S \ {Max(S)}], s[Max(S)])
    <2>1. h[S] = IF S = {} THEN 0 ELSE step[<<h[S \ {Max(S)}], s[Max(S)]>>]
      BY <1>5, Zenon DEF FoldsLeft
    <2>2. S # {} => h[S \ {Max(S)}] \in Int /\ s[Max(S)] \in Intervals
      BY MaxIsMember
    <2> QED
      BY <1>3, <2>1, <2>2, Zenon
  <1>7. DOMAIN s = 1..n /\ h = [S \in SUBSET (1..n) |-> h[S]]
    OBVIOUS
  <1>8. AddsUp(s, h)
    BY <1>6, <1>7, Zenon DEF AddsUp
  <1> QED
    BY <1>8

LEMMA LoopSteps ==
    ASSUME NEW n \in Nat, NEW s \in [1..n -> Intervals]
    PROVE  /\ \E h : /\ MergeOverlapping(s) = h[1..n]
                     /\ h[1..0] = <<>>
                     /\ \A k \in 0..(n - 1) : h[1..(k + 1)] = MergedOne(h[1..k], s[k + 1])
           /\ \E h : /\ SumOfLengths(s) = h[1..n]
                     /\ h[1..0] = 0
                     /\ \A k \in 0..(n - 1) : h[1..(k + 1)] = SummedOne(h[1..k], s[k + 1])
  <1>0. DOMAIN s = 1..n /\ 1..0 = {}
    OBVIOUS
  <1>1. \E h : /\ MergeOverlapping(s) = h[1..n]
               /\ h[1..0] = <<>>
               /\ \A k \in 0..(n - 1) : h[1..(k + 1)] = MergedOne(h[1..k], s[k + 1])
    <2> PICK h : h = CHOOSE g : Merges(s, g)
      OBVIOUS
    <2>1. Merges(s, h)
      BY MergesExist, Zenon
    <2>2. MergeOverlapping(s) = h[1..n]
      BY <1>0, LoopsAre, Zenon
    <2>3. \A S \in SUBSET (1..n) :
              h[S] = IF S = {} THEN <<>> ELSE MergedOne(h[S \ {Max(S)}], s[Max(S)])
      BY <1>0, <2>1, Zenon DEF Merges
    <2>4. h[1..0] = <<>>
      BY <1>0, <2>3
    <2>5. ASSUME NEW k \in 0..(n - 1)
          PROVE  h[1..(k + 1)] = MergedOne(h[1..k], s[k + 1])
      <3> PICK S : S = 1..(k + 1)
        OBVIOUS
      <3>1. /\ S \in SUBSET (1..n) /\ S # {}
            /\ Max(S) = k + 1 /\ S \ {k + 1} = 1..k
        BY PrefixFacts
      <3>2. h[S] = MergedOne(h[S \ {Max(S)}], s[Max(S)])
        BY <2>3, <3>1, Zenon
      <3> QED
        BY <3>1, <3>2, Zenon
    <2> QED
      BY <2>2, <2>4, <2>5
  <1>2. \E h : /\ SumOfLengths(s) = h[1..n]
               /\ h[1..0] = 0
               /\ \A k \in 0..(n - 1) : h[1..(k + 1)] = SummedOne(h[1..k], s[k + 1])
    <2> PICK h : h = CHOOSE g : AddsUp(s, g)
      OBVIOUS
    <2>1. AddsUp(s, h)
      BY SumsUpExist, Zenon
    <2>2. SumOfLengths(s) = h[1..n]
      BY <1>0, LoopsAre, Zenon
    <2>3. \A S \in SUBSET (1..n) :
              h[S] = IF S = {} THEN 0 ELSE SummedOne(h[S \ {Max(S)}], s[Max(S)])
      BY <1>0, <2>1, Zenon DEF AddsUp
    <2>4. h[1..0] = 0
      BY <1>0, <2>3
    <2>5. ASSUME NEW k \in 0..(n - 1)
          PROVE  h[1..(k + 1)] = SummedOne(h[1..k], s[k + 1])
      <3> PICK S : S = 1..(k + 1)
        OBVIOUS
      <3>1. /\ S \in SUBSET (1..n) /\ S # {}
            /\ Max(S) = k + 1 /\ S \ {k + 1} = 1..k
        BY PrefixFacts
      <3>2. h[S] = SummedOne(h[S \ {Max(S)}], s[Max(S)])
        BY <2>3, <3>1, Zenon
      <3> QED
        BY <3>1, <3>2, Zenon
    <2> QED
      BY <2>2, <2>4, <2>5
  <1> QED
    BY <1>1, <1>2
-----------------------------------------------------------------------------
(* What is merged covers the same ticks and its parts are apart            *)

Covered(s, k) ==
    {t \in RunTicks : \E i \in 1..k : s[i].startTick <= t /\ t < s[i].endTick}

(* Each part ends before the next ones start, and no two touch.            *)
Apart(m) == \A i, j \in 1..Len(m) : i < j => m[i].endTick < m[j].startTick

MergedSoFar(s, k, m) ==
    /\ m \in Seq(Intervals)
    /\ Apart(m)
    /\ Covered(m, Len(m)) = Covered(s, k)
    /\ IF k = 0 THEN m = <<>> ELSE m # <<>> /\ Last(m).startTick <= s[k].startTick

LEMMA MergeKeeps ==
    ASSUME NEW n \in Nat, NEW s \in [1..n -> Intervals], NEW k \in 0..(n - 1),
           \A i, j \in 1..n : i < j => s[i].startTick <= s[j].startTick,
           NEW m, MergedSoFar(s, k, m)
    PROVE  MergedSoFar(s, k + 1, MergedOne(m, s[k + 1]))
  <1> PICK x : x = s[k + 1]
    OBVIOUS
  <1> PICK new : new = MergedOne(m, x)
    OBVIOUS
  <1> PICK l : l = Len(m)
    OBVIOUS
  <1>1. /\ x \in Intervals /\ x.startTick \in Nat /\ x.endTick \in Nat
        /\ m \in Seq(Intervals) /\ l \in Nat
        /\ \A i \in 1..l : m[i] \in Intervals /\ m[i].startTick \in Nat /\ m[i].endTick \in Nat
    <2>1. x \in Intervals
      OBVIOUS
    <2>2. m \in Seq(Intervals) /\ l \in Nat
      BY DEF MergedSoFar
    <2>3. \A i \in 1..l : m[i] \in Intervals
      BY <2>2
    <2> QED
      BY <2>1, <2>2, <2>3, IntervalFields
  <1>2. new \in Seq(Intervals)
    BY <1>1, MergedOneType
  <1>3. k > 0 => l > 0 /\ m[l].startTick <= x.startTick
    <2>1. ASSUME k > 0 PROVE l > 0 /\ m[l].startTick <= x.startTick
      <3>1. m # <<>> /\ m[l].startTick <= s[k].startTick
        BY <2>1 DEF MergedSoFar, Last
      <3>2. s[k].startTick <= x.startTick /\ s[k].startTick \in Nat
        <4>1. k \in 1..n /\ k + 1 \in 1..n /\ k < k + 1
          BY <2>1
        <4>2. s[k].startTick <= x.startTick
          BY <4>1
        <4>3. s[k] \in Intervals
          BY <4>1
        <4> QED
          BY <4>2, <4>3, IntervalFields
      <3> QED
        BY <1>1, <3>1, <3>2
    <2> QED
      BY <2>1
  <1>4. k = 0 => l = 0
    BY DEF MergedSoFar
  <1>5. Covered(s, k + 1) = Covered(s, k) \union {t \in RunTicks : x.startTick <= t /\ t < x.endTick}
    <2>1. 1..(k + 1) = 1..k \union {k + 1}
      OBVIOUS
    <2> QED
      BY <2>1 DEF Covered
  <1>6. Covered(m, l) = Covered(s, k)
    BY DEF MergedSoFar
  <1>7. CASE l > 0 /\ m[l].endTick >= x.startTick
    <2> PICK e : e = IF x.endTick > m[l].endTick THEN x.endTick ELSE m[l].endTick
      OBVIOUS
    <2>0. /\ e \in Nat /\ e >= m[l].endTick /\ e >= x.endTick
          /\ (e = x.endTick \/ e = m[l].endTick)
      BY <1>1, <1>7
    <2>1. new = Append(Front(m), [m[l] EXCEPT !.endTick = e])
      BY <1>1, <1>7 DEF MergedOne, Last
    <2>2. [m[l] EXCEPT !.endTick = e] = [startTick |-> m[l].startTick, endTick |-> e]
      BY <1>1, <1>7 DEF Intervals
    <2>3. /\ Len(new) = l
          /\ \A i \in 1..(l - 1) : new[i] = m[i]
          /\ new[l].startTick = m[l].startTick /\ new[l].endTick = e
      <3>1. Front(m) \in Seq(Intervals) /\ Len(Front(m)) = l - 1
            /\ \A i \in 1..(l - 1) : Front(m)[i] = m[i]
        BY <1>1, <1>7 DEF Front
      <3> PICK y : y = [startTick |-> m[l].startTick, endTick |-> e]
        OBVIOUS
      <3>2. y.startTick = m[l].startTick /\ y.endTick = e
        OBVIOUS
      <3> PICK front : front = Front(m)
        OBVIOUS
      <3>3. new = Append(front, y) /\ l >= 1
        BY <1>1, <1>7, <2>1, <2>2
      <3>4. /\ Len(new) = l /\ new[l] = y
            /\ \A i \in 1..(l - 1) : new[i] = front[i]
        BY <1>1, <3>1, <3>3
      <3> QED
        BY <3>1, <3>2, <3>4
    <2>4. m[l].startTick <= x.startTick
      BY <1>3, <1>4, <1>7
    <2>5. Apart(new)
      <3>1. \A i, j \in 1..l : i < j => m[i].endTick < m[j].startTick
        BY DEF MergedSoFar, Apart
      <3>2. ASSUME NEW i \in 1..l, NEW j \in 1..l, i < j
            PROVE  new[i].endTick < new[j].startTick
        <4>0. i \in 1..(l - 1)
          BY <1>1, <3>2
        <4>1. i \in 1..(l - 1) /\ new[i] = m[i]
          BY <2>3, <4>0, Zenon
        <4>2. new[j].startTick = m[j].startTick
          <5>1. CASE j = l
            BY <2>3, <5>1
          <5>2. CASE j # l
            <6>1. j \in 1..(l - 1)
              BY <1>1, <5>2
            <6>2. new[j] = m[j]
              BY <2>3, <6>1, Zenon
            <6> QED
              BY <6>2
          <5> QED
            BY <5>1, <5>2
        <4> QED
          BY <3>1, <3>2, <4>1, <4>2
      <3> QED
        BY <2>3, <3>2 DEF Apart
    <2>6. Covered(new, l) = Covered(m, l) \union {t \in RunTicks : x.startTick <= t /\ t < x.endTick}
      <3>1. ASSUME NEW t \in RunTicks
            PROVE  (\E i \in 1..l : new[i].startTick <= t /\ t < new[i].endTick)
                       <=> \/ \E i \in 1..l : m[i].startTick <= t /\ t < m[i].endTick
                           \/ x.startTick <= t /\ t < x.endTick
        <4>0. t \in Nat
          BY RunTicksAssumption
        <4>1. l \in 1..l /\ 1..l = 1..(l - 1) \union {l}
          BY <1>1, <1>7
        <4>2. m[l].startTick <= t /\ t < e
                  <=> \/ m[l].startTick <= t /\ t < m[l].endTick
                      \/ x.startTick <= t /\ t < x.endTick
          BY <1>1, <1>7, <2>0, <2>4, <4>0
        <4>3. (\E i \in 1..l : new[i].startTick <= t /\ t < new[i].endTick)
                  <=> \/ \E i \in 1..(l - 1) : m[i].startTick <= t /\ t < m[i].endTick
                      \/ m[l].startTick <= t /\ t < e
          BY <2>3, <4>1
        <4>4. (\E i \in 1..l : m[i].startTick <= t /\ t < m[i].endTick)
                  <=> \/ \E i \in 1..(l - 1) : m[i].startTick <= t /\ t < m[i].endTick
                      \/ m[l].startTick <= t /\ t < m[l].endTick
          BY <4>1
        <4> QED
          BY <4>2, <4>3, <4>4
      <3> QED
        BY <3>1 DEF Covered
    <2>7. new # <<>> /\ Last(new).startTick <= x.startTick
      BY <1>7, <2>3, <2>4 DEF Last
    <2> QED
      BY <1>2, <1>5, <1>6, <2>3, <2>5, <2>6, <2>7 DEF MergedSoFar
  <1>8. CASE ~(l > 0 /\ m[l].endTick >= x.startTick)
    <2>1. new = Append(m, x)
      BY <1>1, <1>8 DEF MergedOne, Last
    <2>2. /\ Len(new) = l + 1
          /\ \A i \in 1..l : new[i] = m[i]
          /\ new[l + 1] = x
      BY <1>1, <2>1
    <2>3. Apart(new)
      <3>1. \A i, j \in 1..l : i < j => m[i].endTick < m[j].startTick
        BY DEF MergedSoFar, Apart
      <3>2. \A i \in 1..l : m[i].endTick < x.startTick
        <4>1. ASSUME NEW i \in 1..l PROVE m[i].endTick < x.startTick
          <5>1. l > 0 /\ l \in 1..l /\ m[l].endTick < x.startTick
            BY <1>1, <1>8
          <5>2. m[l].startTick <= x.startTick
            BY <1>3, <1>4, <5>1
          <5>3. CASE i = l
            BY <5>1, <5>3
          <5>4. CASE i # l
            <6>1. m[i].endTick < m[l].startTick
              BY <1>1, <3>1, <5>1, <5>4
            <6> QED
              BY <1>1, <5>1, <5>2, <6>1
          <5> QED
            BY <5>3, <5>4
        <4> QED
          BY <4>1
      <3>3. ASSUME NEW i \in 1..(l + 1), NEW j \in 1..(l + 1), i < j
            PROVE  new[i].endTick < new[j].startTick
        <4>1. i \in 1..l /\ new[i] = m[i]
          BY <1>1, <2>2, <3>3
        <4>2. CASE j = l + 1
          BY <2>2, <3>2, <4>1, <4>2
        <4>3. CASE j # l + 1
          <5>1. j \in 1..l
            BY <1>1, <4>3
          <5> QED
            BY <2>2, <3>1, <3>3, <4>1, <5>1
        <4> QED
          BY <4>2, <4>3
      <3> QED
        BY <2>2, <3>3 DEF Apart
    <2>4. Covered(new, l + 1)
              = Covered(m, l) \union {t \in RunTicks : x.startTick <= t /\ t < x.endTick}
      <3>1. 1..(l + 1) = 1..l \union {l + 1}
        BY <1>1
      <3> QED
        BY <2>2, <3>1 DEF Covered
    <2>5. new # <<>> /\ Last(new).startTick <= x.startTick
      BY <1>1, <2>2 DEF Last
    <2>6. k + 1 # 0 /\ Len(new) = l + 1
      BY <2>2
    <2>7. Covered(new, Len(new)) = Covered(s, k + 1)
      BY <1>5, <1>6, <2>4, <2>6
    <2> QED
      BY <1>2, <2>3, <2>5, <2>6, <2>7, Zenon DEF MergedSoFar
  <1> QED
    BY <1>7, <1>8

(* The parts that are added.                                               *)
LEMMA Lengths ==
    ASSUME NEW i \in Intervals
    PROVE  LET ticks == {t \in RunTicks : i.startTick <= t /\ t < i.endTick}
           IN  /\ IsFiniteSet(ticks)
               /\ Cardinality(ticks) = SummedOne(0, i)
  <1> DEFINE ticks == {t \in RunTicks : i.startTick <= t /\ t < i.endTick}
  <1>1. /\ i.startTick \in RunTicks /\ i.endTick \in RunTicks
        /\ i.startTick \in Nat /\ i.endTick \in Nat
    BY IntervalFields
  <1>2. \A t \in RunTicks : t \in Nat
    BY RunTicksAssumption
  <1>3. (i.startTick)..(i.endTick) \subseteq RunTicks
    BY <1>1, RunTicksAssumption
  <1>4. ticks = (i.startTick)..(i.endTick - 1)
    BY <1>1, <1>2, <1>3
  <1> HIDE DEF ticks
  <1>5. i.startTick \in Int /\ i.endTick - 1 \in Int
    BY <1>1
  <1>6. /\ IsFiniteSet(ticks)
        /\ Cardinality(ticks) = IF i.startTick > i.endTick - 1 THEN 0
                                ELSE (i.endTick - 1) - i.startTick + 1
    BY <1>4, <1>5, FS_Interval
  <1>7. Cardinality(ticks) = SummedOne(0, i)
    BY <1>1, <1>6 DEF SummedOne
  <1> QED
    BY <1>6, <1>7 DEF ticks

LEMMA SumIsCovered ==
    ASSUME NEW m \in Seq(Intervals), Apart(m)
    PROVE  SumOfLengths(m) = Cardinality(Covered(m, Len(m)))
  <1> PICK n : n = Len(m)
    OBVIOUS
  <1>1. n \in Nat /\ m \in [1..n -> Intervals]
    OBVIOUS
  <1>2. PICK h : /\ SumOfLengths(m) = h[1..n]
                 /\ h[1..0] = 0
                 /\ \A k \in 0..(n - 1) : h[1..(k + 1)] = SummedOne(h[1..k], m[k + 1])
    BY <1>1, LoopSteps
  <1> DEFINE T == {k \in Nat : k <= n =>
                      IsFiniteSet(Covered(m, k)) /\ h[1..k] = Cardinality(Covered(m, k))}
  <1>3. 0 \in T
    <2>1. Covered(m, 0) = {}
      BY DEF Covered
    <2> QED
      BY <1>2, <2>1, FS_EmptySet
  <1>4. ASSUME NEW k \in Nat, k \in T PROVE k + 1 \in T
    <2> SUFFICES ASSUME k + 1 <= n
                 PROVE  /\ IsFiniteSet(Covered(m, k + 1))
                        /\ h[1..(k + 1)] = Cardinality(Covered(m, k + 1))
      OBVIOUS
    <2> PICK x : x = m[k + 1]
      OBVIOUS
    <2> PICK ticks : ticks = {t \in RunTicks : x.startTick <= t /\ t < x.endTick}
      OBVIOUS
    <2>1. x \in Intervals /\ x.startTick \in Nat /\ x.endTick \in Nat
      BY <1>1, IntervalFields
    <2>2. IsFiniteSet(ticks) /\ Cardinality(ticks) = SummedOne(0, x)
      BY <2>1, Lengths
    <2>3. IsFiniteSet(Covered(m, k)) /\ h[1..k] = Cardinality(Covered(m, k))
      BY <1>4
    <2>4. Covered(m, k + 1) = Covered(m, k) \union ticks
      <3>1. 1..(k + 1) = 1..k \union {k + 1}
        OBVIOUS
      <3> QED
        BY <3>1 DEF Covered
    <2>5. Covered(m, k) \cap ticks = {}
      <3> SUFFICES ASSUME NEW t \in Covered(m, k), t \in ticks PROVE FALSE
        OBVIOUS
      <3>1. PICK i \in 1..k : t < m[i].endTick
        BY DEF Covered
      <3>2. x.startTick <= t /\ t \in RunTicks
        OBVIOUS
      <3>3. m[i].endTick < x.startTick /\ m[i] \in Intervals
        BY <1>1 DEF Apart
      <3>4. t \in Nat /\ m[i].endTick \in Nat
        BY <3>2, <3>3, IntervalFields, RunTicksAssumption
      <3> QED
        BY <2>1, <3>1, <3>2, <3>3, <3>4
    <2> PICK before : before = Covered(m, k)
      OBVIOUS
    <2> PICK after : after = before \union ticks
      OBVIOUS
    <2>6. /\ IsFiniteSet(after)
          /\ Cardinality(after)
                 = Cardinality(before) + Cardinality(ticks) - Cardinality(before \cap ticks)
      BY <2>2, <2>3, FS_Union, Zenon
    <2>7. Cardinality(after) = Cardinality(before) + Cardinality(ticks)
      <3>1. Cardinality(before \cap ticks) = 0
        BY <2>5, FS_EmptySet
      <3>2. Cardinality(before) \in Nat /\ Cardinality(ticks) \in Nat
        BY <2>2, <2>3, FS_CardinalityType
      <3> QED
        BY <2>6, <3>1, <3>2
    <2>8. h[1..(k + 1)] = SummedOne(h[1..k], x)
      BY <1>2
    <2>9. Cardinality(Covered(m, k)) \in Nat
      BY <2>3, FS_CardinalityType
    <2>10. \A c \in Nat : SummedOne(c, x) = c + SummedOne(0, x)
      BY <2>1 DEF SummedOne
    <2>11. after = Covered(m, k + 1)
      BY <2>4
    <2> QED
      BY <2>2, <2>3, <2>6, <2>7, <2>8, <2>9, <2>10, <2>11
  <1>5. \A k \in Nat : k \in T
    <2> HIDE DEF T
    <2> QED
      BY <1>3, <1>4, SetInduction
  <1> QED
    BY <1>1, <1>2, <1>5

LEMMA TimeIsCovered ==
    ASSUME NEW n \in Nat, NEW s \in [1..n -> Intervals],
           \A i, j \in 1..n : i < j => s[i].startTick <= s[j].startTick
    PROVE  SumOfLengths(MergeOverlapping(s)) = Cardinality(Covered(s, n))
  <1>1. PICK h : /\ MergeOverlapping(s) = h[1..n]
                 /\ h[1..0] = <<>>
                 /\ \A k \in 0..(n - 1) : h[1..(k + 1)] = MergedOne(h[1..k], s[k + 1])
    BY LoopSteps
  <1> DEFINE T == {k \in Nat : k <= n => MergedSoFar(s, k, h[1..k])}
  <1>2. 0 \in T
    <2>1. Covered(<<>>, 0) = Covered(s, 0) /\ Len(<<>>) = 0 /\ <<>> \in Seq(Intervals)
      BY DEF Covered
    <2>2. Apart(<<>>)
      BY <2>1 DEF Apart
    <2>3. MergedSoFar(s, 0, <<>>)
      BY <2>1, <2>2 DEF MergedSoFar
    <2> QED
      BY <1>1, <2>3
  <1>3. ASSUME NEW k \in Nat, k \in T PROVE k + 1 \in T
    <2> SUFFICES ASSUME k + 1 <= n PROVE MergedSoFar(s, k + 1, h[1..(k + 1)])
      OBVIOUS
    <2>1. k \in 0..(n - 1) /\ MergedSoFar(s, k, h[1..k])
      BY <1>3
    <2>2. MergedSoFar(s, k + 1, MergedOne(h[1..k], s[k + 1]))
      BY <2>1, MergeKeeps
    <2> QED
      BY <1>1, <2>1, <2>2
  <1>4. \A k \in Nat : k \in T
    <2> HIDE DEF T
    <2> QED
      BY <1>2, <1>3, SetInduction
  <1>5. MergedSoFar(s, n, MergeOverlapping(s))
    BY <1>1, <1>4
  <1> QED
    BY <1>5, SumIsCovered DEF MergedSoFar
-----------------------------------------------------------------------------
RunInv ==
    /\ \E n \in Nat : instrList \in [1..n -> Intervals]
    /\ RunningTimeIsUnion

LEMMA InitRunInv == RunInit => RunInv
  <1> SUFFICES ASSUME RunInit PROVE RunInv
    OBVIOUS
  <1>1. instrList \in UNION {[1..m -> Intervals] : m \in 0..MaxInstrs}
    BY DEF RunInit, BoundedSeq, SeqOf, Intervals
  <1>2. \E n \in Nat : instrList \in [1..n -> Intervals]
    BY <1>1
  <1> QED
    BY <1>2 DEF RunInit, RunInv, RunningTimeIsUnion

LEMMA NextRunInv == RunInv /\ [RunNext]_runVars => RunInv'
  <1> SUFFICES ASSUME RunInv, [RunNext]_runVars PROVE RunInv'
    OBVIOUS
  <1>1. CASE RunNext
    <2>1. PICK sorted \in SortedByStart :
              /\ instrList' = sorted
              /\ runningTime' = SumOfLengths(MergeOverlapping(sorted))
      BY <1>1 DEF RunNext, CalculateRunningTime
    <2>2. PICK n \in Nat : instrList \in [1..n -> Intervals]
      BY DEF RunInv
    <2>3. /\ sorted \in [1..n -> Intervals]
          /\ \A i, j \in 1..n : i < j => sorted[i].startTick <= sorted[j].startTick
      <3>1. DOMAIN instrList = 1..n
        BY <2>2
      <3>2. PICK p \in [1..n -> 1..n] : sorted = [i \in 1..n |-> instrList[p[i]]]
        BY <2>1, <3>1 DEF SortedByStart
      <3>3. sorted \in [1..n -> Intervals]
        BY <2>2, <3>2
      <3>4. \A i, j \in 1..n : i < j => sorted[i].startTick <= sorted[j].startTick
        BY <2>1, <3>1 DEF SortedByStart
      <3> QED
        BY <3>3, <3>4
    <2>4. runningTime' = Cardinality(Covered(sorted, n))
      BY <2>1, <2>3, TimeIsCovered
    <2>5. Covered(sorted, n)
              = {t \in RunTicks : \E i \in DOMAIN instrList' :
                     instrList'[i].startTick <= t /\ t < instrList'[i].endTick}
      BY <2>1, <2>3 DEF Covered
    <2> QED
      BY <2>1, <2>3, <2>4, <2>5 DEF RunInv, RunningTimeIsUnion
  <1>2. CASE UNCHANGED runVars
    BY <1>2 DEF runVars, RunInv, RunningTimeIsUnion
  <1> QED
    BY <1>1, <1>2

(* The running time of any instructions is the number of ticks in which at *)
(* least one of them runs, whatever their number and their intervals.      *)
THEOREM RunningTimeCorrect == RunSpec => []RunningTimeIsUnion
  <1>1. RunInv => RunningTimeIsUnion
    BY DEF RunInv
  <1> QED
    BY <1>1, InitRunInv, NextRunInv, PTL DEF RunSpec

-----------------------------------------------------------------------------
(* UserMark                                                                *)

(* The lines of a log l that are marks of name m, and the stops that       *)
(* belong to the start in line s, as of UserMark, for any log.             *)
MarksIn(l, type, m) == {t \in 1..Len(l) : l[t].type = type /\ l[t].name = m}
StopsIn(l, m, s) ==
    {e \in MarksIn(l, "STOP", m) :
        s < e /\ ~\E s2 \in MarksIn(l, "START", m) : s < s2 /\ s2 < e}
NestedIn(l, m) ==
    /\ \A e \in MarksIn(l, "STOP", m) : \E s \in MarksIn(l, "START", m) : s < e
    /\ \A s1, s2 \in MarksIn(l, "START", m) :
           s1 < s2 => \E e \in MarksIn(l, "STOP", m) : s1 < e /\ e < s2

Rank(S, s) == Cardinality({r \in S : r <= s})

(* v is the tick of the start in line s, and of the end of its interval.   *)
StartsAt(l, s, v) ==
    v = IF l[s].adjustWithNop /\ s < Len(l) /\ l[s + 1] = Nop THEN s + 1 ELSE s
LastNop(l, e, v) ==
    /\ v \in e..Len(l)
    /\ \A i \in (e + 1)..v : l[i] = Nop
    /\ v < Len(l) => l[v + 1] # Nop
StopsAt(l, e, v) == IF l[e].adjustWithNop THEN LastNop(l, e, v) ELSE v = e
EndsAt(l, m, s, v) ==
    IF StopsIn(l, m, s) = {} THEN v = Open
    ELSE \E e \in StopsIn(l, m, s) :
             (\A f \in StopsIn(l, m, s) : f <= e) /\ StopsAt(l, e, v)

(* The next NOP moves the start in line t, or the end by that stop.        *)
StartPends(l, m, t) == t = Len(l) /\ t \in MarksIn(l, "START", m) /\ l[t].adjustWithNop
StopPends(l, m, t) ==
    t \in MarksIn(l, "STOP", m) /\ l[t].adjustWithNop /\ \A i \in (t + 1)..Len(l) : l[i] = Nop

Infos == [startTick : Nat, endTick : Nat]

NameInv(l, m, infos, pending) ==
    LET starts == MarksIn(l, "START", m)
    IN  /\ infos \in Seq(Infos)
        /\ Len(infos) = Cardinality(starts)
        /\ \A k \in 1..Len(infos) : infos[k].endTick = Open => k = Len(infos)
        /\ \A s \in starts :
               /\ StartsAt(l, s, infos[Rank(starts, s)].startTick)
               /\ EndsAt(l, m, s, infos[Rank(starts, s)].endTick)
        /\ NestedIn(l, m)
        /\ pending = "start" <=> \E t \in 1..Len(l) : StartPends(l, m, t)
        /\ pending = "stop" <=> \E t \in 1..Len(l) : StopPends(l, m, t)

Taken(l, infos) ==
    {s \in 1..Len(l) : l[s].type = "START" /\ Rank(MarksIn(l, "START", l[s].name), s) <= Len(infos[l[s].name])}
InstrOf(l, infos, s) ==
    LET info == infos[l[s].name][Rank(MarksIn(l, "START", l[s].name), s)]
    IN  [name |-> l[s].name, startTick |-> info.startTick, endTick |-> info.endTick]
MergedAs(l, infos, merged) ==
    /\ \A m \in Names :
           LET n == Cardinality(MarksIn(l, "START", m))
           IN  merged.markCnt[m] = IF n <= Len(infos[m]) THEN n ELSE Len(infos[m])
    /\ Len(merged.instrs) = Cardinality(Taken(l, infos))
    /\ \A s \in Taken(l, infos) : merged.instrs[Rank(Taken(l, infos), s)] = InstrOf(l, infos, s)
-----------------------------------------------------------------------------
(* Ranks                                                                   *)

LEMMA LinesFinite ==
    ASSUME NEW n \in Nat, NEW S \in SUBSET (1..n)
    PROVE  IsFiniteSet(S) /\ Cardinality(S) \in Nat
  <1>1. IsFiniteSet(1..n)
    BY FS_Interval
  <1>2. IsFiniteSet(S)
    BY <1>1, FS_Subset
  <1> QED
    BY <1>2, FS_CardinalityType

LEMMA HasLargest ==
    ASSUME NEW n \in Nat
    PROVE  \A S \in SUBSET (1..n) : S # {} => \E x \in S : \A y \in S : y <= x
  <1> DEFINE T == {k \in Nat : \A S \in SUBSET (1..k) : S # {} => \E x \in S : \A y \in S : y <= x}
  <1>1. 0 \in T
    <2>1. \A S \in SUBSET (1..0) : S = {}
      OBVIOUS
    <2> QED
      BY <2>1
  <1>2. ASSUME NEW k \in Nat, k \in T PROVE k + 1 \in T
    <2>1. ASSUME NEW S \in SUBSET (1..(k + 1)), S # {}
          PROVE  \E x \in S : \A y \in S : y <= x
      <3>1. CASE k + 1 \in S
        <4>1. \A y \in S : y <= k + 1
          OBVIOUS
        <4> QED
          BY <3>1, <4>1
      <3>2. CASE k + 1 \notin S
        <4>1. S \in SUBSET (1..k)
          BY <3>2
        <4> QED
          BY <1>2, <2>1, <4>1
      <3> QED
        BY <3>1, <3>2
    <2> QED
      BY <2>1
  <1>3. \A k \in Nat : k \in T
    <2> HIDE DEF T
    <2> QED
      BY <1>1, <1>2, SetInduction
  <1> QED
    BY <1>3

LEMMA RankFacts ==
    ASSUME NEW n \in Nat, NEW S \in SUBSET (1..n)
    PROVE  /\ \A s \in 1..n : Rank(S, s) \in 0..Cardinality(S)
           /\ \A s \in S : Rank(S, s) \in 1..Cardinality(S)
           /\ \A s, t \in S : s < t => Rank(S, s) < Rank(S, t)
           /\ \A s \in S : (\A t \in S : t <= s) => Rank(S, s) = Cardinality(S)
  <1> DEFINE Upto(s) == {r \in S : r <= s}
  <1>0. IsFiniteSet(S) /\ Cardinality(S) \in Nat
    BY LinesFinite
  <1>1. ASSUME NEW s \in 1..n
        PROVE  /\ IsFiniteSet(Upto(s)) /\ Cardinality(Upto(s)) \in Nat
               /\ Cardinality(Upto(s)) <= Cardinality(S)
    <2>1. Upto(s) \in SUBSET (1..n) /\ Upto(s) \subseteq S
      OBVIOUS
    <2> HIDE DEF Upto
    <2>2. IsFiniteSet(Upto(s)) /\ Cardinality(Upto(s)) \in Nat
      BY <2>1, LinesFinite
    <2>3. Cardinality(Upto(s)) <= Cardinality(S)
      BY <1>0, <2>1, FS_Subset
    <2> QED
      BY <2>2, <2>3
  <1>2. \A s \in 1..n : Rank(S, s) = Cardinality(Upto(s))
    BY DEF Rank
  <1>3. ASSUME NEW s \in S, NEW t \in S, s < t PROVE Cardinality(Upto(s)) < Cardinality(Upto(t))
    <2>0. s \in 1..n /\ t \in 1..n
      OBVIOUS
    <2>a. \A r \in S : r \in Nat /\ (r <= s => r <= t)
      BY <1>3, <2>0
    <2>b. ~(t <= s) /\ t <= t
      BY <1>3, <2>0
    <2>c. Upto(s) \subseteq Upto(t)
      BY <2>a
    <2>1. Upto(s) \subseteq Upto(t) /\ t \in Upto(t) /\ t \notin Upto(s)
      BY <2>b, <2>c
    <2>2. IsFiniteSet(Upto(t)) /\ Cardinality(Upto(s)) \in Nat /\ Cardinality(Upto(t)) \in Nat
      BY <1>1, <2>0
    <2> HIDE DEF Upto
    <2>3. Cardinality(Upto(s)) <= Cardinality(Upto(t)) /\
          (Cardinality(Upto(s)) = Cardinality(Upto(t)) => Upto(s) = Upto(t))
      BY <2>1, <2>2, FS_Subset
    <2> QED
      BY <2>1, <2>2, <2>3
  <1>4. ASSUME NEW s \in S PROVE Cardinality(Upto(s)) >= 1
    <2>1. s \in 1..n /\ s \in Upto(s)
      OBVIOUS
    <2>2. IsFiniteSet(Upto(s)) /\ Cardinality(Upto(s)) \in Nat
      BY <1>1, <2>1
    <2> HIDE DEF Upto
    <2>3. Cardinality(Upto(s)) # 0
      BY <2>1, <2>2, FS_EmptySet
    <2> QED
      BY <2>2, <2>3
  <1>5. ASSUME NEW s \in S, \A t \in S : t <= s PROVE Upto(s) = S
    BY <1>5
  <1>6. \A s \in S : s \in 1..n
    OBVIOUS
  <1> HIDE DEF Upto
  <1>7. \A s \in 1..n : Rank(S, s) \in 0..Cardinality(S)
    BY <1>0, <1>1, <1>2
  <1>8. \A s \in S : Rank(S, s) \in 1..Cardinality(S)
    BY <1>0, <1>2, <1>4, <1>6, <1>7
  <1>9. \A s, t \in S : s < t => Rank(S, s) < Rank(S, t)
    BY <1>2, <1>3, <1>6
  <1>10. \A s \in S : (\A t \in S : t <= s) => Rank(S, s) = Cardinality(S)
    BY <1>2, <1>5, <1>6
  <1> QED
    BY <1>7, <1>8, <1>9, <1>10

(* A new line at the end.                                                  *)
LEMMA RankGrows ==
    ASSUME NEW n \in Nat, NEW S \in SUBSET (1..n)
    PROVE  /\ \A s \in 1..n : Rank(S \union {n + 1}, s) = Rank(S, s)
           /\ Rank(S \union {n + 1}, n + 1) = Cardinality(S) + 1
           /\ Cardinality(S \union {n + 1}) = Cardinality(S) + 1
  <1>0. n + 1 \notin S /\ \A r \in S : r \in Nat /\ r <= n + 1
    OBVIOUS
  <1>1. IsFiniteSet(S) /\ n + 1 \notin S
    BY <1>0, LinesFinite, Zenon
  <1>2. Cardinality(S \union {n + 1}) = Cardinality(S) + 1
    BY <1>1, FS_AddElement
  <1>3. \A s \in 1..n : {r \in S \union {n + 1} : r <= s} = {r \in S : r <= s}
    OBVIOUS
  <1>4. {r \in S \union {n + 1} : r <= n + 1} = S \union {n + 1}
    <2>1. \A r \in S \union {n + 1} : r <= n + 1
      BY <1>0
    <2> QED
      BY <2>1, Zenon
  <1> QED
    BY <1>2, <1>3, <1>4 DEF Rank
-----------------------------------------------------------------------------
(* One more line in the log                                                *)

Extended(l, l2, line) ==
    /\ Len(l) \in Nat
    /\ Len(l2) = Len(l) + 1
    /\ \A t \in 1..Len(l) : l2[t] = l[t]
    /\ l2[Len(l) + 1] = line

IsMark(line, type, m) == line.type = type /\ line.name = m

LEMMA MarksGrow ==
    ASSUME NEW l, NEW l2, NEW line, Extended(l, l2, line), NEW type, NEW m
    PROVE  /\ MarksIn(l, type, m) \in SUBSET (1..Len(l))
           /\ MarksIn(l2, type, m)
                = IF IsMark(line, type, m) THEN MarksIn(l, type, m) \union {Len(l) + 1}
                  ELSE MarksIn(l, type, m)
  <1> PICK n : n = Len(l)
    OBVIOUS
  <1>1. n \in Nat /\ Len(l2) = n + 1 /\ 1..(n + 1) = (1..n) \union {n + 1} /\ n + 1 \notin 1..n
    BY DEF Extended
  <1>2. \A t \in 1..n : l2[t] = l[t]
    BY DEF Extended
  <1>3. l2[n + 1] = line
    BY DEF Extended
  <1> QED
    BY <1>1, <1>2, <1>3, Zenon DEF MarksIn, IsMark

LEMMA StopsGrow ==
    ASSUME NEW l, NEW l2, NEW line, Extended(l, l2, line), NEW m
    PROVE  /\ \A s \in MarksIn(l, "START", m) :
                  StopsIn(l2, m, s)
                    = IF IsMark(line, "STOP", m) /\ (\A s2 \in MarksIn(l, "START", m) : s2 <= s)
                      THEN StopsIn(l, m, s) \union {Len(l) + 1} ELSE StopsIn(l, m, s)
           /\ IsMark(line, "START", m) => StopsIn(l2, m, Len(l) + 1) = {}
  <1> PICK n : n = Len(l)
    OBVIOUS
  <1> PICK S : S = MarksIn(l, "START", m)
    OBVIOUS
  <1> PICK E : E = MarksIn(l, "STOP", m)
    OBVIOUS
  <1> PICK S2 : S2 = MarksIn(l2, "START", m)
    OBVIOUS
  <1> PICK E2 : E2 = MarksIn(l2, "STOP", m)
    OBVIOUS
  <1>0. n \in Nat
    BY DEF Extended
  <1>1. /\ S \in SUBSET (1..n) /\ E \in SUBSET (1..n)
        /\ S2 = IF IsMark(line, "START", m) THEN S \union {n + 1} ELSE S
        /\ E2 = IF IsMark(line, "STOP", m) THEN E \union {n + 1} ELSE E
    BY MarksGrow
  <1>2. ~(IsMark(line, "START", m) /\ IsMark(line, "STOP", m))
    BY DEF IsMark
  <1>3. \A s : /\ StopsIn(l2, m, s) = {e \in E2 : s < e /\ ~\E s2 \in S2 : s < s2 /\ s2 < e}
               /\ StopsIn(l, m, s) = {e \in E : s < e /\ ~\E s2 \in S : s < s2 /\ s2 < e}
    BY DEF StopsIn
  <1>4. ASSUME NEW s \in S
        PROVE  StopsIn(l2, m, s)
                 = IF IsMark(line, "STOP", m) /\ (\A s2 \in S : s2 <= s)
                   THEN StopsIn(l, m, s) \union {n + 1} ELSE StopsIn(l, m, s)
    <2>0. s \in 1..n /\ ~(n + 1 < n + 1) /\ s < n + 1
      BY <1>0, <1>1
    <2>b. \A e : e \in StopsIn(l2, m, s) <=> e \in E2 /\ s < e /\ ~\E s2 \in S2 : s < s2 /\ s2 < e
      BY DEF StopsIn
    <2>c. \A e : e \in StopsIn(l, m, s) <=> e \in E /\ s < e /\ ~\E s2 \in S : s < s2 /\ s2 < e
      BY DEF StopsIn
    <2>1. \A e \in E : ~(n + 1 < e)
      BY <1>0, <1>1
    <2>2. \A s2 \in S : s2 < n + 1 /\ (s2 <= s <=> ~(s < s2))
      BY <1>0, <1>1, <2>0
    <2>3. CASE IsMark(line, "STOP", m)
      <3>1. S2 = S /\ E2 = E \union {n + 1}
        BY <1>1, <1>2, <2>3
      <3>2. (\A s2 \in S : s2 <= s) <=> ~\E s2 \in S : s < s2 /\ s2 < n + 1
        BY <2>2
      <3>3. CASE \A s2 \in S : s2 <= s
        <4>1. StopsIn(l2, m, s) = StopsIn(l, m, s) \union {n + 1}
          <5>1. \A e : e \in StopsIn(l2, m, s) <=> e \in StopsIn(l, m, s) \/ e = n + 1
            BY <2>b, <2>c, <2>0, <3>1, <3>2, <3>3, Zenon
          <5> QED
            BY <5>1, Zenon
        <4> QED
          BY <2>3, <3>3, <4>1, Zenon
      <3>4. CASE ~\A s2 \in S : s2 <= s
        <4>1. StopsIn(l2, m, s) = StopsIn(l, m, s)
          <5>1. \A e : e \in StopsIn(l2, m, s) <=> e \in StopsIn(l, m, s)
            BY <2>b, <2>c, <3>1, <3>2, <3>4, Zenon
          <5> QED
            BY <5>1, Zenon
        <4> QED
          BY <3>4, <4>1, Zenon
      <3> QED
        BY <3>3, <3>4, Zenon
    <2>4. CASE ~IsMark(line, "STOP", m)
      <3>1. E2 = E
        BY <1>1, <2>4
      <3>2. \A e \in E : (\E s2 \in S2 : s < s2 /\ s2 < e) <=> (\E s2 \in S : s < s2 /\ s2 < e)
        BY <1>1, <2>1, Zenon
      <3>3. StopsIn(l2, m, s) = StopsIn(l, m, s)
        <4>1. \A e : e \in StopsIn(l2, m, s) <=> e \in StopsIn(l, m, s)
          BY <2>b, <2>c, <3>1, <3>2, Zenon
        <4> QED
          BY <4>1, Zenon
      <3> QED
        BY <2>4, <3>3, Zenon
    <2> QED
      BY <2>3, <2>4
  <1>5. ASSUME IsMark(line, "START", m) PROVE StopsIn(l2, m, n + 1) = {}
    <2>1. E2 = E
      BY <1>1, <1>2, <1>5
    <2>2. \A e \in E : ~(n + 1 < e)
      BY <1>0, <1>1
    <2> QED
      BY <1>3, <2>1, <2>2, Zenon
  <1> QED
    BY <1>4, <1>5, Zenon

LEMMA StopsAreLines ==
    ASSUME NEW l, NEW m, NEW s
    PROVE  /\ StopsIn(l, m, s) \in SUBSET (1..Len(l))
           /\ \A e \in StopsIn(l, m, s) : l[e].type = "STOP" /\ e \in MarksIn(l, "STOP", m)
  BY DEF StopsIn, MarksIn

(* What the new line does not touch.                                       *)
LEMMA StartKept ==
    ASSUME NEW l, NEW l2, NEW line, Extended(l, l2, line), NEW s \in 1..Len(l), NEW v,
           StartsAt(l, s, v), ~(line = Nop /\ s = Len(l) /\ l[s].adjustWithNop)
    PROVE  StartsAt(l2, s, v)
  <1>1. l2[s] = l[s] /\ Len(l2) = Len(l) + 1 /\ Len(l) \in Nat /\ s < Len(l2)
    BY DEF Extended
  <1>2. CASE s < Len(l)
    <2>1. s + 1 \in 1..Len(l)
      BY <1>1, <1>2
    <2>2. l2[s + 1] = l[s + 1]
      BY <2>1 DEF Extended
    <2> QED
      BY <1>1, <1>2, <2>2 DEF StartsAt
  <1>3. CASE s = Len(l)
    <2>1. l2[s + 1] = line /\ ~(s < Len(l))
      BY <1>1, <1>3 DEF Extended
    <2> QED
      BY <1>1, <1>3, <2>1 DEF StartsAt
  <1> QED
    BY <1>1, <1>2, <1>3

LEMMA LastNopKept ==
    ASSUME NEW l, NEW l2, NEW line, Extended(l, l2, line), NEW e \in 1..Len(l), NEW v,
           LastNop(l, e, v), line # Nop \/ ~(\A i \in (e + 1)..Len(l) : l[i] = Nop)
    PROVE  LastNop(l2, e, v)
  <1> PICK n : n = Len(l)
    OBVIOUS
  <1>1. /\ n \in Nat /\ Len(l2) = n + 1 /\ v \in e..n /\ l2[n + 1] = line
        /\ \A t \in 1..n : l2[t] = l[t]
    BY DEF Extended, LastNop
  <1>2. v \in e..(n + 1)
    BY <1>1
  <1>3. ASSUME NEW i \in (e + 1)..v PROVE l2[i] = Nop
    <2>1. i \in 1..n
      BY <1>1
    <2> QED
      BY <1>1, <2>1 DEF LastNop
  <1>4. l2[v + 1] # Nop
    <2>1. CASE v < n
      <3>1. v + 1 \in 1..n
        BY <1>1, <2>1
      <3> QED
        BY <1>1, <2>1, <3>1 DEF LastNop
    <2>2. CASE v = n
      <3>1. \A i \in (e + 1)..n : l[i] = Nop
        BY <2>2 DEF LastNop
      <3> QED
        BY <1>1, <2>2, <3>1
    <2> QED
      BY <1>1, <2>1, <2>2
  <1> QED
    BY <1>1, <1>2, <1>3, <1>4 DEF LastNop

LEMMA StopKept ==
    ASSUME NEW l, NEW l2, NEW line, Extended(l, l2, line), NEW e \in 1..Len(l), NEW v,
           StopsAt(l, e, v),
           line # Nop \/ ~(l[e].adjustWithNop /\ \A i \in (e + 1)..Len(l) : l[i] = Nop)
    PROVE  StopsAt(l2, e, v)
  <1>1. l2[e] = l[e]
    BY DEF Extended
  <1>2. CASE l[e].adjustWithNop
    <2>1. LastNop(l, e, v)
      BY <1>2 DEF StopsAt
    <2>2. LastNop(l2, e, v)
      BY <1>2, <2>1, LastNopKept
    <2> QED
      BY <1>1, <1>2, <2>2 DEF StopsAt
  <1>3. CASE ~l[e].adjustWithNop
    BY <1>1, <1>3 DEF StopsAt
  <1> QED
    BY <1>2, <1>3

LEMMA EndKept ==
    ASSUME NEW l, NEW l2, NEW line, Extended(l, l2, line), NEW m, NEW s, NEW v,
           EndsAt(l, m, s, v), StopsIn(l2, m, s) = StopsIn(l, m, s),
           line # Nop \/ ~\E t \in StopsIn(l, m, s) : StopPends(l, m, t)
    PROVE  EndsAt(l2, m, s, v)
  <1> PICK T : T = StopsIn(l, m, s)
    OBVIOUS
  <1>0. T \in SUBSET (1..Len(l)) /\ \A t \in T : t \in MarksIn(l, "STOP", m)
    BY StopsAreLines
  <1>1. CASE T = {}
    BY <1>1 DEF EndsAt
  <1>2. CASE T # {}
    <2>1. PICK e \in T : (\A f \in T : f <= e) /\ StopsAt(l, e, v)
      BY <1>2 DEF EndsAt
    <2>2. line # Nop \/ ~StopPends(l, m, e)
      BY <2>1
    <2>3. line # Nop \/ ~(l[e].adjustWithNop /\ \A i \in (e + 1)..Len(l) : l[i] = Nop)
      BY <1>0, <2>1, <2>2 DEF StopPends
    <2>4. StopsAt(l2, e, v)
      BY <1>0, <2>1, <2>3, StopKept
    <2> QED
      BY <1>2, <2>1, <2>4 DEF EndsAt
  <1> QED
    BY <1>1, <1>2

(* Which NOPs would adjust what after the new line.                        *)
LEMMA PendingAfterNop ==
    ASSUME NEW l, NEW l2, Extended(l, l2, Nop), NEW m
    PROVE  /\ ~\E t \in 1..Len(l2) : StartPends(l2, m, t)
           /\ (\E t \in 1..Len(l2) : StopPends(l2, m, t)) <=> (\E t \in 1..Len(l) : StopPends(l, m, t))
  <1> PICK n : n = Len(l)
    OBVIOUS
  <1>0. n \in Nat /\ Len(l2) = n + 1 /\ 1..(n + 1) = (1..n) \union {n + 1}
    BY DEF Extended
  <1>1. MarksIn(l2, "START", m) = MarksIn(l, "START", m) /\ MarksIn(l2, "STOP", m) = MarksIn(l, "STOP", m)
    BY MarksGrow DEF IsMark, Nop
  <1>2. MarksIn(l, "START", m) \in SUBSET (1..n) /\ MarksIn(l, "STOP", m) \in SUBSET (1..n)
    BY MarksGrow
  <1>3. n + 1 \notin 1..n
    BY <1>0
  <1>4. ~\E t \in 1..Len(l2) : StartPends(l2, m, t)
    BY <1>0, <1>1, <1>2, <1>3, Zenon DEF StartPends
  <1>5. ASSUME NEW t \in 1..n PROVE StopPends(l2, m, t) <=> StopPends(l, m, t)
    <2>1. /\ l2[t] = l[t] /\ (t + 1)..(n + 1) = ((t + 1)..n) \union {n + 1}
          /\ \A i \in (t + 1)..n : i \in 1..n
      BY <1>0 DEF Extended
    <2>2. l2[n + 1] = Nop /\ \A i \in (t + 1)..n : l2[i] = l[i]
      BY <2>1 DEF Extended
    <2> QED
      BY <1>0, <1>1, <2>1, <2>2, Zenon DEF StopPends
  <1>6. ~StopPends(l2, m, n + 1)
    BY <1>1, <1>2, <1>3, Zenon DEF StopPends
  <1> QED
    BY <1>0, <1>4, <1>5, <1>6, Zenon

LEMMA PendingAfterLine ==
    ASSUME NEW l, NEW l2, NEW line, Extended(l, l2, line), line # Nop, NEW m
    PROVE  /\ (\E t \in 1..Len(l2) : StartPends(l2, m, t)) <=> (IsMark(line, "START", m) /\ line.adjustWithNop)
           /\ (\E t \in 1..Len(l2) : StopPends(l2, m, t)) <=> (IsMark(line, "STOP", m) /\ line.adjustWithNop)
  <1> PICK n : n = Len(l)
    OBVIOUS
  <1>0. n \in Nat /\ Len(l2) = n + 1 /\ 1..(n + 1) = (1..n) \union {n + 1} /\ n + 1 \notin 1..n
    BY DEF Extended
  <1>1. /\ n + 1 \in MarksIn(l2, "START", m) <=> IsMark(line, "START", m)
        /\ n + 1 \in MarksIn(l2, "STOP", m) <=> IsMark(line, "STOP", m)
    BY <1>0, MarksGrow
  <1>2. l2[n + 1] = line
    BY DEF Extended
  <1>3. ASSUME NEW t \in 1..n PROVE ~StartPends(l2, m, t) /\ ~StopPends(l2, m, t)
    <2>1. t # n + 1 /\ n + 1 \in (t + 1)..(n + 1)
      BY <1>0
    <2> QED
      BY <1>0, <1>2, <2>1, Zenon DEF StartPends, StopPends
  <1>4. StartPends(l2, m, n + 1) <=> (IsMark(line, "START", m) /\ line.adjustWithNop)
    BY <1>0, <1>1, <1>2, Zenon DEF StartPends
  <1>5. StopPends(l2, m, n + 1) <=> (IsMark(line, "STOP", m) /\ line.adjustWithNop)
    <2>1. \A i \in (n + 1 + 1)..(n + 1) : l2[i] = Nop
      BY <1>0
    <2> QED
      BY <1>0, <1>1, <1>2, <2>1, Zenon DEF StopPends
  <1> QED
    BY <1>0, <1>3, <1>4, <1>5, Zenon
-----------------------------------------------------------------------------
(* Nesting                                                                 *)

LEMMA NestedGrows ==
    ASSUME NEW l, NEW l2, NEW line, Extended(l, l2, line), NEW m
    PROVE  /\ NestedIn(l2, m) => NestedIn(l, m)
           /\ ~IsMark(line, "START", m) /\ ~IsMark(line, "STOP", m) => (NestedIn(l2, m) <=> NestedIn(l, m))
           /\ IsMark(line, "STOP", m) =>
                (NestedIn(l2, m) <=> NestedIn(l, m) /\ MarksIn(l, "START", m) # {})
           /\ IsMark(line, "START", m) =>
                (NestedIn(l2, m) <=>
                    NestedIn(l, m) /\ \A s \in MarksIn(l, "START", m) : \E e \in MarksIn(l, "STOP", m) : s < e)
  <1> PICK n : n = Len(l)
    OBVIOUS
  <1> PICK S : S = MarksIn(l, "START", m)
    OBVIOUS
  <1> PICK E : E = MarksIn(l, "STOP", m)
    OBVIOUS
  <1> PICK S2 : S2 = MarksIn(l2, "START", m)
    OBVIOUS
  <1> PICK E2 : E2 = MarksIn(l2, "STOP", m)
    OBVIOUS
  <1>0. n \in Nat
    BY DEF Extended
  <1>1. /\ S \in SUBSET (1..n) /\ E \in SUBSET (1..n)
        /\ S2 = IF IsMark(line, "START", m) THEN S \union {n + 1} ELSE S
        /\ E2 = IF IsMark(line, "STOP", m) THEN E \union {n + 1} ELSE E
    BY MarksGrow
  <1>2. ~(IsMark(line, "START", m) /\ IsMark(line, "STOP", m))
    BY DEF IsMark
  <1>3. \A x \in S \union E : x < n + 1 /\ ~(n + 1 < x)
    BY <1>0, <1>1
  <1>4. NestedIn(l, m) <=> /\ \A e \in E : \E s \in S : s < e
                           /\ \A s1, s2 \in S : s1 < s2 => \E e \in E : s1 < e /\ e < s2
    BY Zenon DEF NestedIn
  <1>5. NestedIn(l2, m) <=> /\ \A e \in E2 : \E s \in S2 : s < e
                            /\ \A s1, s2 \in S2 : s1 < s2 => \E e \in E2 : s1 < e /\ e < s2
    BY Zenon DEF NestedIn
  <1>6. ~(n + 1 < n + 1)
    BY <1>0
  <1>7. CASE ~IsMark(line, "START", m) /\ ~IsMark(line, "STOP", m)
    BY <1>1, <1>4, <1>5, <1>7, Zenon
  <1>8. CASE IsMark(line, "STOP", m)
    <2>1. S2 = S /\ E2 = E \union {n + 1}
      BY <1>1, <1>2, <1>8
    <2>2. (\A e \in E2 : \E s \in S2 : s < e) <=> (\A e \in E : \E s \in S : s < e) /\ S # {}
      BY <1>3, <2>1, SMT
    <2>3. (\A s1, s2 \in S2 : s1 < s2 => \E e \in E2 : s1 < e /\ e < s2)
            <=> (\A s1, s2 \in S : s1 < s2 => \E e \in E : s1 < e /\ e < s2)
      BY <1>3, <2>1, SMT
    <2> QED
      BY <1>2, <1>4, <1>5, <1>8, <2>2, <2>3, Zenon
  <1>9. CASE IsMark(line, "START", m)
    <2>1. S2 = S \union {n + 1} /\ E2 = E
      BY <1>1, <1>2, <1>9
    <2>2. (\A e \in E2 : \E s \in S2 : s < e) <=> (\A e \in E : \E s \in S : s < e)
      BY <1>3, <2>1, SMT
    <2>3. (\A s1, s2 \in S2 : s1 < s2 => \E e \in E2 : s1 < e /\ e < s2)
            <=> /\ \A s1, s2 \in S : s1 < s2 => \E e \in E : s1 < e /\ e < s2
                /\ \A s1 \in S : \E e \in E : s1 < e
      BY <1>3, <1>6, <2>1, SMT
    <2> QED
      BY <1>2, <1>4, <1>5, <1>9, <2>2, <2>3, Zenon
  <1> QED
    BY <1>7, <1>8, <1>9, Zenon

(* Between the last start and a stop after it there is no other start.     *)
LEMMA LastStart ==
    ASSUME NEW l, Len(l) \in Nat, NEW m, MarksIn(l, "START", m) # {}
    PROVE  \E s0 \in MarksIn(l, "START", m) :
               /\ \A s \in MarksIn(l, "START", m) : s <= s0
               /\ \A e \in MarksIn(l, "STOP", m) : e \in StopsIn(l, m, s0) <=> s0 < e
  <1> PICK S : S = MarksIn(l, "START", m)
    OBVIOUS
  <1>1. S \in SUBSET (1..Len(l)) /\ MarksIn(l, "STOP", m) \in SUBSET (1..Len(l))
    BY DEF MarksIn
  <1>2. PICK s0 \in S : \A s \in S : s <= s0
    BY <1>1, HasLargest
  <1>3. \A s \in S : ~(s0 < s)
    BY <1>1, <1>2
  <1>4. \A e \in MarksIn(l, "STOP", m) : e \in StopsIn(l, m, s0) <=> s0 < e
    BY <1>3 DEF StopsIn
  <1> QED
    BY <1>2, <1>4

(* Every start of a name whose last interval is not open is followed by a  *)
(* stop; the last start of one that is open is not.                        *)
LEMMA ClosedAfter ==
    ASSUME NEW l, Len(l) \in Nat, Len(l) < Open, NEW m, NEW infos, NEW pending,
           NameInv(l, m, infos, pending), infos # <<>>
    PROVE  infos[Len(infos)].endTick # Open
              <=> \A s \in MarksIn(l, "START", m) : \E e \in MarksIn(l, "STOP", m) : s < e
  <1> PICK S : S = MarksIn(l, "START", m)
    OBVIOUS
  <1> PICK E : E = MarksIn(l, "STOP", m)
    OBVIOUS
  <1> PICK n : n = Len(l)
    OBVIOUS
  <1>0. n \in Nat /\ n < Open
    OBVIOUS
  <1>1. /\ S \in SUBSET (1..n) /\ E \in SUBSET (1..n)
        /\ Len(infos) = Cardinality(S) /\ infos \in Seq(Infos)
    BY DEF NameInv, MarksIn
  <1>2. S # {}
    <2>1. Cardinality(S) # 0
      BY <1>1
    <2> QED
      BY <2>1, FS_EmptySet
  <1>3. PICK s0 \in S : (\A s \in S : s <= s0) /\ \A e \in E : e \in StopsIn(l, m, s0) <=> s0 < e
    BY <1>0, <1>2, LastStart
  <1>4. Rank(S, s0) = Len(infos)
    BY <1>0, <1>1, <1>3, RankFacts
  <1>5. EndsAt(l, m, s0, infos[Len(infos)].endTick)
    BY <1>4 DEF NameInv
  <1>6. StopsIn(l, m, s0) \subseteq E
    BY StopsAreLines
  <1>7. CASE StopsIn(l, m, s0) = {}
    <2>1. infos[Len(infos)].endTick = Open
      BY <1>5, <1>7 DEF EndsAt
    <2>2. ~\E e \in E : s0 < e
      BY <1>3, <1>7
    <2> QED
      BY <2>1, <2>2
  <1>8. CASE StopsIn(l, m, s0) # {}
    <2>1. PICK e \in StopsIn(l, m, s0) : StopsAt(l, e, infos[Len(infos)].endTick)
      BY <1>5, <1>8 DEF EndsAt
    <2>2. e \in E /\ e \in 1..n /\ s0 < e
      BY <1>1, <1>3, <1>6, <2>1
    <2>3. infos[Len(infos)].endTick \in 1..n
      <3>1. CASE l[e].adjustWithNop
        <4>1. infos[Len(infos)].endTick \in e..n
          BY <2>1, <3>1 DEF StopsAt, LastNop
        <4> QED
          BY <1>0, <2>2, <4>1
      <3>2. CASE ~l[e].adjustWithNop
        BY <2>1, <2>2, <3>2 DEF StopsAt
      <3> QED
        BY <3>1, <3>2
    <2>4. infos[Len(infos)].endTick # Open
      BY <1>0, <2>3
    <2>5. \A s \in S : s < e
      BY <1>0, <1>1, <1>3, <2>2
    <2> QED
      BY <2>2, <2>4, <2>5
  <1> QED
    BY <1>7, <1>8
-----------------------------------------------------------------------------
(* What a line makes of the intervals of a name                            *)

LEMMA NewBack ==
    ASSUME NEW T, NEW infos \in Seq(T), infos # <<>>, NEW x \in T
    PROVE  /\ Append(Front(infos), x) \in Seq(T)
           /\ Len(Append(Front(infos), x)) = Len(infos)
           /\ Len(infos) \in 1..Len(infos)
           /\ Append(Front(infos), x)[Len(infos)] = x
           /\ \A k \in 1..Len(infos) : k # Len(infos) => Append(Front(infos), x)[k] = infos[k]
  <1>1. Len(infos) \in Nat \ {0}
    OBVIOUS
  <1>2. Front(infos) = [i \in 1..(Len(infos) - 1) |-> infos[i]]
    <2>1. Front(infos) = SubSeq(infos, 1, Len(infos) - 1)
      BY DEF Front
    <2> QED
      BY <1>1, <2>1
  <1>3. \A i \in 1..Len(infos) : infos[i] \in T
    OBVIOUS
  <1> PICK f : f = Front(infos)
    OBVIOUS
  <1>4. Len(infos) - 1 \in Nat /\ \A i \in 1..(Len(infos) - 1) : i \in 1..Len(infos)
    BY <1>1
  <1>5. f \in Seq(T) /\ Len(f) = Len(infos) - 1
    BY <1>2, <1>3, <1>4
  <1>6. \A k \in 1..(Len(infos) - 1) : f[k] = infos[k]
    BY <1>2
  <1>7. \A k \in 1..Len(infos) : k # Len(infos) => k \in 1..(Len(infos) - 1)
    BY <1>1
  <1> QED
    BY <1>1, <1>5, <1>6, <1>7

LEMMA NameKept ==
    ASSUME NEW l, NEW l2, NEW line, Extended(l, l2, line), NEW m, NEW infos, NEW pending,
           NameInv(l, m, infos, pending),
           ~IsMark(line, "START", m), ~IsMark(line, "STOP", m),
           line = Nop => pending = "none"
    PROVE  NameInv(l2, m, infos, "none")
  <1> PICK S : S = MarksIn(l, "START", m)
    OBVIOUS
  <1>1. MarksIn(l2, "START", m) = S /\ S \in SUBSET (1..Len(l))
    BY MarksGrow
  <1>2. \A s \in S : StopsIn(l2, m, s) = StopsIn(l, m, s)
    BY StopsGrow
  <1>3. NestedIn(l2, m)
    BY NestedGrows DEF NameInv
  <1>4. line = Nop => ~\E t \in 1..Len(l) : StartPends(l, m, t)
    BY DEF NameInv
  <1>5. line = Nop => ~\E t \in 1..Len(l) : StopPends(l, m, t)
    BY DEF NameInv
  <1>6. ASSUME NEW s \in S
        PROVE  /\ StartsAt(l2, s, infos[Rank(S, s)].startTick)
               /\ EndsAt(l2, m, s, infos[Rank(S, s)].endTick)
    <2>1. /\ StartsAt(l, s, infos[Rank(S, s)].startTick)
          /\ EndsAt(l, m, s, infos[Rank(S, s)].endTick)
      BY DEF NameInv
    <2>2. ~(line = Nop /\ s = Len(l) /\ l[s].adjustWithNop)
      BY <1>1, <1>4 DEF StartPends
    <2>3. line # Nop \/ ~\E t \in StopsIn(l, m, s) : StopPends(l, m, t)
      BY <1>5, StopsAreLines
    <2>4. StartsAt(l2, s, infos[Rank(S, s)].startTick)
      BY <1>1, <2>1, <2>2, StartKept
    <2>5. EndsAt(l2, m, s, infos[Rank(S, s)].endTick)
      BY <1>2, <2>1, <2>3, EndKept
    <2> QED
      BY <2>4, <2>5
  <1>7. /\ ~\E t \in 1..Len(l2) : StartPends(l2, m, t)
        /\ ~\E t \in 1..Len(l2) : StopPends(l2, m, t)
    <2>1. CASE line = Nop
      BY <1>5, <2>1, PendingAfterNop
    <2>2. CASE line # Nop
      BY <2>2, PendingAfterLine
    <2> QED
      BY <2>1, <2>2
  <1> QED
    BY <1>1, <1>3, <1>6, <1>7 DEF NameInv

LEMMA NopAfterStart ==
    ASSUME NEW l, NEW l2, Extended(l, l2, Nop), NEW m, NEW infos,
           NameInv(l, m, infos, "start")
    PROVE  /\ infos # <<>>
           /\ NameInv(l2, m, Append(Front(infos), [infos[Len(infos)] EXCEPT !.startTick = Len(l) + 1]), "none")
  <1> PICK S : S = MarksIn(l, "START", m)
    OBVIOUS
  <1> PICK n : n = Len(l)
    OBVIOUS
  <1> PICK c : c = Len(infos)
    OBVIOUS
  <1>0. n \in Nat
    BY DEF Extended
  <1>1. MarksIn(l2, "START", m) = S /\ S \in SUBSET (1..n)
    BY MarksGrow DEF IsMark, Nop
  <1>2. infos \in Seq(Infos) /\ c = Cardinality(S)
    BY DEF NameInv
  <1>3. n \in S /\ l[n].adjustWithNop /\ l[n].type = "START"
    BY DEF NameInv, StartPends, MarksIn
  <1>4. \A s \in S : s <= n
    BY <1>0, <1>1
  <1>5. Rank(S, n) = c /\ c \in 1..c /\ \A s \in S : Rank(S, s) \in 1..c /\ (s # n => Rank(S, s) # c)
    <2>1. \A s \in S : s # n => s < n
      BY <1>0, <1>1, <1>4
    <2>2. /\ \A s \in S : Rank(S, s) \in 1..c
          /\ \A s \in S : s < n => Rank(S, s) < Rank(S, n)
          /\ Rank(S, n) = c
      BY <1>0, <1>1, <1>2, <1>3, <1>4, RankFacts
    <2> QED
      BY <1>3, <2>1, <2>2
  <1>6. infos # <<>> /\ infos[c] \in Infos
    <2>1. c \in 1..Len(infos)
      BY <1>5
    <2>2. infos # <<>>
      BY <2>1
    <2>3. \A k \in 1..Len(infos) : infos[k] \in Infos
      BY <1>2, MemberOf, Zenon
    <2> QED
      BY <2>1, <2>2, <2>3
  <1> PICK x : x = [infos[c] EXCEPT !.startTick = n + 1]
    OBVIOUS
  <1>7. x \in Infos /\ x.startTick = n + 1 /\ x.endTick = infos[c].endTick
    <2> QED
      BY <1>0, <1>6 DEF Infos
  <1> PICK new : new = Append(Front(infos), x)
    OBVIOUS
  <1>8. /\ new \in Seq(Infos) /\ Len(new) = c /\ new[c] = x
        /\ \A k \in 1..c : k # c => new[k] = infos[k]
    <2>1. infos \in Seq(Infos) /\ x \in Infos
      BY <1>2, <1>7
    <2> QED
      BY <1>6, <2>1, NewBack
  <1>9. \A k \in 1..c : new[k].endTick = infos[k].endTick
    BY <1>7, <1>8
  <1>10. \A s \in S : StopsIn(l2, m, s) = StopsIn(l, m, s)
    BY StopsGrow DEF IsMark, Nop
  <1>11. ~\E t \in 1..n : StopPends(l, m, t)
    BY DEF NameInv
  <1>12. ASSUME NEW s \in S
         PROVE  /\ StartsAt(l2, s, new[Rank(S, s)].startTick)
                /\ EndsAt(l2, m, s, new[Rank(S, s)].endTick)
    <2>1. /\ StartsAt(l, s, infos[Rank(S, s)].startTick)
          /\ EndsAt(l, m, s, infos[Rank(S, s)].endTick)
      BY DEF NameInv
    <2>2. ~\E t \in StopsIn(l, m, s) : StopPends(l, m, t)
      BY <1>11, StopsAreLines
    <2>3. EndsAt(l2, m, s, infos[Rank(S, s)].endTick)
      BY <1>10, <2>1, <2>2, EndKept
    <2>4. EndsAt(l2, m, s, new[Rank(S, s)].endTick)
      BY <1>5, <1>9, <2>3
    <2>5. CASE s # n
      <3>1. StartsAt(l2, s, infos[Rank(S, s)].startTick)
        BY <1>1, <2>1, <2>5, StartKept
      <3>2. new[Rank(S, s)] = infos[Rank(S, s)]
        BY <1>5, <1>8, <2>5
      <3> QED
        BY <2>4, <3>1, <3>2
    <2>6. CASE s = n
      <3>1. l2[n] = l[n] /\ l2[n + 1] = Nop /\ n < Len(l2)
        BY <1>0, <1>1, <1>3 DEF Extended
      <3>2. StartsAt(l2, n, n + 1)
        BY <1>3, <3>1 DEF StartsAt
      <3>3. new[Rank(S, s)].startTick = n + 1
        BY <1>5, <1>7, <1>8, <2>6
      <3> QED
        BY <2>4, <2>6, <3>2, <3>3
    <2> QED
      BY <2>5, <2>6
  <1>13. NestedIn(l2, m)
    BY NestedGrows DEF NameInv, IsMark, Nop
  <1>14. /\ ~\E t \in 1..Len(l2) : StartPends(l2, m, t)
         /\ ~\E t \in 1..Len(l2) : StopPends(l2, m, t)
    BY <1>11, PendingAfterNop
  <1>15. \A k \in 1..c : new[k].endTick = Open => k = c
    BY <1>9 DEF NameInv
  <1>16. NameInv(l2, m, new, "none")
    BY <1>1, <1>2, <1>8, <1>12, <1>13, <1>14, <1>15 DEF NameInv
  <1> QED
    BY <1>6, <1>16

(* What is common to a stop and to a NOP after one: the end of the last    *)
(* interval is the new line.                                               *)
LEMMA NewEnd ==
    ASSUME NEW l, NEW l2, NEW line, Extended(l, l2, line), Len(l) + 1 < Open, NEW m, NEW infos, NEW pending,
           NameInv(l, m, infos, pending), MarksIn(l, "START", m) # {},
           ~IsMark(line, "START", m),
           line = Nop => ~\E t \in 1..Len(l) : StartPends(l, m, t),
           \A s \in MarksIn(l, "START", m) :
               IF \A r \in MarksIn(l, "START", m) : r <= s
               THEN EndsAt(l2, m, s, Len(l) + 1)
               ELSE \A v : EndsAt(l, m, s, v) => EndsAt(l2, m, s, v),
           NestedIn(l2, m),
           NEW pending2,
           pending2 = "start" <=> \E t \in 1..Len(l2) : StartPends(l2, m, t),
           pending2 = "stop" <=> \E t \in 1..Len(l2) : StopPends(l2, m, t)
    PROVE  /\ infos # <<>>
           /\ NameInv(l2, m, Append(Front(infos), [infos[Len(infos)] EXCEPT !.endTick = Len(l) + 1]), pending2)
  <1> PICK S : S = MarksIn(l, "START", m)
    OBVIOUS
  <1> PICK n : n = Len(l)
    OBVIOUS
  <1> PICK c : c = Len(infos)
    OBVIOUS
  <1>0. n \in Nat /\ n + 1 < Open
    BY DEF Extended
  <1>1. MarksIn(l2, "START", m) = S /\ S \in SUBSET (1..n) /\ S # {}
    BY MarksGrow
  <1>2. infos \in Seq(Infos) /\ c = Cardinality(S)
    BY DEF NameInv
  <1>3. PICK s0 \in S : \A r \in S : r <= s0
    BY <1>0, <1>1, HasLargest
  <1>4. \A s \in S : (\A r \in S : r <= s) <=> s = s0
    BY <1>0, <1>1, <1>3
  <1>5. Rank(S, s0) = c /\ c \in 1..c /\ \A s \in S : Rank(S, s) \in 1..c /\ (s # s0 => Rank(S, s) # c)
    <2>1. \A s \in S : s # s0 => s < s0
      BY <1>0, <1>1, <1>3
    <2>2. /\ \A s \in S : Rank(S, s) \in 1..c
          /\ \A s \in S : s < s0 => Rank(S, s) < Rank(S, s0)
          /\ Rank(S, s0) = c
      BY <1>0, <1>1, <1>2, <1>3, RankFacts
    <2> QED
      BY <2>1, <2>2
  <1>6. infos # <<>> /\ infos[c] \in Infos
    <2>1. c \in 1..Len(infos)
      BY <1>5
    <2>2. infos # <<>>
      BY <2>1
    <2>3. \A k \in 1..Len(infos) : infos[k] \in Infos
      BY <1>2, MemberOf, Zenon
    <2> QED
      BY <2>1, <2>2, <2>3
  <1> PICK x : x = [infos[c] EXCEPT !.endTick = n + 1]
    OBVIOUS
  <1>7. x \in Infos /\ x.endTick = n + 1 /\ x.startTick = infos[c].startTick
    BY <1>0, <1>6 DEF Infos
  <1> PICK new : new = Append(Front(infos), x)
    OBVIOUS
  <1>8. /\ new \in Seq(Infos) /\ Len(new) = c /\ new[c] = x
        /\ \A k \in 1..c : k # c => new[k] = infos[k]
    <2>1. infos \in Seq(Infos) /\ x \in Infos
      BY <1>2, <1>7
    <2> QED
      BY <1>6, <2>1, NewBack
  <1>9. \A k \in 1..c : new[k].startTick = infos[k].startTick
    BY <1>7, <1>8
  <1>10. ASSUME NEW s \in S
         PROVE  /\ StartsAt(l2, s, new[Rank(S, s)].startTick)
                /\ EndsAt(l2, m, s, new[Rank(S, s)].endTick)
    <2>1. /\ StartsAt(l, s, infos[Rank(S, s)].startTick)
          /\ EndsAt(l, m, s, infos[Rank(S, s)].endTick)
      BY DEF NameInv
    <2>2. ~(line = Nop /\ s = Len(l) /\ l[s].adjustWithNop)
      BY <1>1 DEF StartPends
    <2>3. StartsAt(l2, s, infos[Rank(S, s)].startTick)
      BY <1>1, <2>1, <2>2, StartKept
    <2>4. StartsAt(l2, s, new[Rank(S, s)].startTick)
      BY <1>5, <1>9, <2>3
    <2>5. CASE s = s0
      <3>1. EndsAt(l2, m, s, n + 1)
        BY <1>3, <2>5
      <3>2. new[Rank(S, s)].endTick = n + 1
        BY <1>5, <1>7, <1>8, <2>5
      <3> QED
        BY <2>4, <3>1, <3>2
    <2>6. CASE s # s0
      <3>1. EndsAt(l2, m, s, infos[Rank(S, s)].endTick)
        BY <1>4, <2>1, <2>6
      <3>2. new[Rank(S, s)] = infos[Rank(S, s)]
        BY <1>5, <1>8, <2>6
      <3> QED
        BY <2>4, <3>1, <3>2
    <2> QED
      BY <2>5, <2>6
  <1>11. \A k \in 1..c : new[k].endTick = Open => k = c
    BY <1>8 DEF NameInv
  <1>12. NameInv(l2, m, new, pending2)
    BY <1>1, <1>2, <1>8, <1>10, <1>11 DEF NameInv
  <1> QED
    BY <1>6, <1>12

LEMMA NopAfterStop ==
    ASSUME NEW l, NEW l2, Extended(l, l2, Nop), Len(l) + 1 < Open, NEW m, NEW infos,
           NameInv(l, m, infos, "stop")
    PROVE  /\ infos # <<>>
           /\ NameInv(l2, m, Append(Front(infos), [infos[Len(infos)] EXCEPT !.endTick = Len(l) + 1]), "stop")
  <1> PICK S : S = MarksIn(l, "START", m)
    OBVIOUS
  <1> PICK E : E = MarksIn(l, "STOP", m)
    OBVIOUS
  <1> PICK n : n = Len(l)
    OBVIOUS
  <1>0. n \in Nat /\ Len(l2) = n + 1 /\ l2[n + 1] = Nop /\ \A t \in 1..n : l2[t] = l[t]
    BY DEF Extended
  <1>1. MarksIn(l2, "START", m) = S /\ S \in SUBSET (1..n) /\ E \in SUBSET (1..n)
    BY MarksGrow DEF IsMark, Nop
  <1>2. PICK t \in 1..n : StopPends(l, m, t)
    BY DEF NameInv
  <1>3. t \in E /\ l[t].adjustWithNop /\ \A i \in (t + 1)..n : l[i] = Nop
    BY <1>2 DEF StopPends
  <1>4. PICK s1 \in S : s1 < t
    BY <1>3 DEF NameInv, NestedIn
  <1>5. ASSUME NEW x \in S \union E PROVE x <= t
    <2>1. x \in 1..n /\ l[x] # Nop
      BY <1>1 DEF MarksIn, Nop
    <2>2. ~(x \in (t + 1)..n)
      BY <1>3, <2>1
    <2> QED
      BY <1>0, <2>1, <2>2
  <1>6. ASSUME NEW x \in S PROVE x < t
    <2>1. x # t
      BY <1>3 DEF MarksIn
    <2>2. x <= t /\ x \in Nat
      BY <1>1, <1>5
    <2> QED
      BY <2>1, <2>2
  <1>7. \A s \in S : StopsIn(l2, m, s) = StopsIn(l, m, s)
    BY StopsGrow DEF IsMark, Nop
  <1>8. ASSUME NEW s \in S, \A r \in S : r <= s
        PROVE  EndsAt(l2, m, s, n + 1)
    <2>1. ~\E r \in S : s < r
      BY <1>1, <1>8
    <2>2. t \in StopsIn(l, m, s)
      BY <1>3, <1>6, <2>1 DEF StopsIn
    <2>3. \A f \in StopsIn(l, m, s) : f <= t
      BY <1>5 DEF StopsIn
    <2>4. LastNop(l2, t, n + 1)
      <3>1. n + 1 \in t..Len(l2) /\ ~(n + 1 < Len(l2))
        BY <1>0
      <3>2. ASSUME NEW i \in (t + 1)..(n + 1) PROVE l2[i] = Nop
        <4>1. i = n + 1 \/ (i \in (t + 1)..n /\ i \in 1..n)
          BY <1>0
        <4> QED
          BY <1>0, <1>3, <4>1
      <3> QED
        BY <3>1, <3>2 DEF LastNop
    <2>5. StopsAt(l2, t, n + 1)
      BY <1>0, <1>3, <2>4 DEF StopsAt
    <2> QED
      BY <1>7, <2>2, <2>3, <2>5 DEF EndsAt
  <1>9. ASSUME NEW s \in S, ~\A r \in S : r <= s, NEW v, EndsAt(l, m, s, v)
        PROVE  EndsAt(l2, m, s, v)
    <2>1. PICK r \in S : ~(r <= s)
      BY <1>9
    <2>2. s < r
      BY <1>1, <2>1
    <2>3. t \notin StopsIn(l, m, s)
      BY <1>6, <2>2 DEF StopsIn
    <2>4. ASSUME NEW u \in StopsIn(l, m, s), StopPends(l, m, u) PROVE FALSE
      <3>1. u \in E /\ u # t
        BY <2>3, StopsAreLines
      <3>2. u < t
        BY <1>1, <1>5, <3>1
      <3>3. t \in (u + 1)..n
        BY <1>1, <3>1, <3>2
      <3>4. l[t] = Nop
        BY <2>4, <3>3 DEF StopPends
      <3> QED
        BY <1>3, <3>4 DEF MarksIn, Nop
    <2>5. StopsIn(l2, m, s) = StopsIn(l, m, s)
      BY <1>7
    <2> QED
      BY <1>9, <2>4, <2>5, EndKept
  <1>10. ~\E u \in 1..Len(l) : StartPends(l, m, u)
    BY DEF NameInv
  <1>11. NestedIn(l2, m)
    BY NestedGrows DEF NameInv, IsMark, Nop
  <1>12. /\ ~\E u \in 1..Len(l2) : StartPends(l2, m, u)
         /\ \E u \in 1..Len(l2) : StopPends(l2, m, u)
    BY <1>2, PendingAfterNop
  <1>13. ~IsMark(Nop, "START", m) /\ S # {}
    BY <1>4 DEF IsMark, Nop
  <1> QED
    BY <1>8, <1>9, <1>10, <1>11, <1>12, <1>13, NewEnd

LEMMA StopRead ==
    ASSUME NEW l, NEW l2, NEW line, Extended(l, l2, line), Len(l) + 1 < Open, NEW m, NEW infos, NEW pending,
           NameInv(l, m, infos, pending), IsMark(line, "STOP", m), infos # <<>>,
           NEW pending2, pending2 = IF line.adjustWithNop THEN "stop" ELSE "none"
    PROVE  NameInv(l2, m, Append(Front(infos), [infos[Len(infos)] EXCEPT !.endTick = Len(l) + 1]), pending2)
  <1> PICK S : S = MarksIn(l, "START", m)
    OBVIOUS
  <1> PICK n : n = Len(l)
    OBVIOUS
  <1>0. n \in Nat /\ Len(l2) = n + 1 /\ l2[n + 1] = line
    BY DEF Extended
  <1>1. S \in SUBSET (1..n)
    BY MarksGrow
  <1>2. line # Nop /\ ~IsMark(line, "START", m)
    BY DEF IsMark, Nop
  <1>3. S # {}
    <2>1. Len(infos) = Cardinality(S) /\ infos \in Seq(Infos)
      BY DEF NameInv
    <2>2. Cardinality(S) # 0
      BY <2>1
    <2> QED
      BY <2>2, FS_EmptySet
  <1>4. ASSUME NEW s \in S, \A r \in S : r <= s
        PROVE  EndsAt(l2, m, s, n + 1)
    <2>1. StopsIn(l2, m, s) = StopsIn(l, m, s) \union {n + 1}
      BY <1>4, StopsGrow
    <2>2. \A f \in StopsIn(l, m, s) : f <= n + 1
      BY <1>0, StopsAreLines
    <2>3. LastNop(l2, n + 1, n + 1)
      BY <1>0 DEF LastNop
    <2>4. StopsAt(l2, n + 1, n + 1)
      BY <2>3 DEF StopsAt
    <2>5. n + 1 <= n + 1
      BY <1>0
    <2> QED
      BY <2>1, <2>2, <2>4, <2>5 DEF EndsAt
  <1>5. ASSUME NEW s \in S, ~\A r \in S : r <= s, NEW v, EndsAt(l, m, s, v)
        PROVE  EndsAt(l2, m, s, v)
    <2>1. StopsIn(l2, m, s) = StopsIn(l, m, s)
      BY <1>5, StopsGrow
    <2> QED
      BY <1>2, <1>5, <2>1, EndKept
  <1>6. NestedIn(l2, m)
    BY <1>3, NestedGrows DEF NameInv
  <1>7. /\ ~\E u \in 1..Len(l2) : StartPends(l2, m, u)
        /\ (\E u \in 1..Len(l2) : StopPends(l2, m, u)) <=> line.adjustWithNop
    BY <1>2, PendingAfterLine
  <1> QED
    BY <1>2, <1>3, <1>4, <1>5, <1>6, <1>7, NewEnd

LEMMA StartRead ==
    ASSUME NEW l, NEW l2, NEW line, Extended(l, l2, line), Len(l) + 1 < Open, NEW m, NEW infos, NEW pending,
           NameInv(l, m, infos, pending), IsMark(line, "START", m),
           infos = <<>> \/ infos[Len(infos)].endTick # Open,
           NEW pending2, pending2 = IF line.adjustWithNop THEN "start" ELSE "none"
    PROVE  NameInv(l2, m, Append(infos, [startTick |-> Len(l) + 1, endTick |-> Open]), pending2)
  <1> PICK S : S = MarksIn(l, "START", m)
    OBVIOUS
  <1> PICK n : n = Len(l)
    OBVIOUS
  <1> PICK c : c = Len(infos)
    OBVIOUS
  <1> PICK x : x = [startTick |-> n + 1, endTick |-> Open]
    OBVIOUS
  <1> PICK new : new = Append(infos, x)
    OBVIOUS
  <1>0. n \in Nat /\ Len(l2) = n + 1 /\ l2[n + 1] = line
    BY DEF Extended
  <1>1. S \in SUBSET (1..n) /\ MarksIn(l2, "START", m) = S \union {n + 1}
    BY MarksGrow
  <1>2. line # Nop /\ ~IsMark(line, "STOP", m)
    BY DEF IsMark, Nop
  <1>3. infos \in Seq(Infos) /\ c = Cardinality(S) /\ c \in Nat
    <2>1. infos \in Seq(Infos) /\ c = Cardinality(S)
      BY DEF NameInv
    <2>2. Cardinality(S) \in Nat
      BY <1>0, <1>1, LinesFinite
    <2> QED
      BY <2>1, <2>2
  <1>4. x \in Infos /\ x.startTick = n + 1 /\ x.endTick = Open
    BY <1>0, MaxLinesAssumption DEF Infos, Open
  <1>5. new \in Seq(Infos) /\ Len(new) = c + 1 /\ new[c + 1] = x /\ \A k \in 1..c : new[k] = infos[k]
    <2>1. infos \in Seq(Infos) /\ x \in Infos
      BY <1>3, <1>4
    <2> QED
      BY <2>1
  <1>6. /\ \A s \in 1..n : Rank(S \union {n + 1}, s) = Rank(S, s)
        /\ Rank(S \union {n + 1}, n + 1) = c + 1
        /\ Cardinality(S \union {n + 1}) = c + 1
    BY <1>0, <1>1, <1>3, RankGrows
  <1>7. ASSUME NEW s \in S
        PROVE  /\ StartsAt(l2, s, new[Rank(S \union {n + 1}, s)].startTick)
               /\ EndsAt(l2, m, s, new[Rank(S \union {n + 1}, s)].endTick)
    <2>1. /\ StartsAt(l, s, infos[Rank(S, s)].startTick)
          /\ EndsAt(l, m, s, infos[Rank(S, s)].endTick)
      BY DEF NameInv
    <2>2. Rank(S, s) \in 1..c
      BY <1>0, <1>1, <1>3, RankFacts
    <2>3. new[Rank(S \union {n + 1}, s)] = infos[Rank(S, s)]
      BY <1>1, <1>5, <1>6, <2>2
    <2>4. StartsAt(l2, s, infos[Rank(S, s)].startTick)
      BY <1>1, <1>2, <2>1, StartKept
    <2>5. StopsIn(l2, m, s) = StopsIn(l, m, s)
      BY <1>2, StopsGrow
    <2>6. EndsAt(l2, m, s, infos[Rank(S, s)].endTick)
      BY <1>2, <2>1, <2>5, EndKept
    <2> QED
      BY <2>3, <2>4, <2>6
  <1>8. /\ StartsAt(l2, n + 1, new[Rank(S \union {n + 1}, n + 1)].startTick)
        /\ EndsAt(l2, m, n + 1, new[Rank(S \union {n + 1}, n + 1)].endTick)
    <2>1. StartsAt(l2, n + 1, n + 1)
      BY <1>0 DEF StartsAt
    <2>2. StopsIn(l2, m, n + 1) = {}
      BY StopsGrow
    <2>3. EndsAt(l2, m, n + 1, Open)
      BY <2>2 DEF EndsAt
    <2> QED
      BY <1>4, <1>5, <1>6, <2>1, <2>3
  <1>9. ASSUME NEW k \in 1..(c + 1), new[k].endTick = Open PROVE k = c + 1
    <2>1. SUFFICES ASSUME k \in 1..c PROVE FALSE
      BY <1>3
    <2>2. infos[k].endTick = Open /\ k \in 1..Len(infos)
      BY <1>5, <1>9, <2>1
    <2>3. k = Len(infos)
      BY <2>2 DEF NameInv
    <2>4. infos # <<>>
      BY <2>2
    <2> QED
      BY <2>2, <2>3, <2>4
  <1>10. \A s \in S : \E e \in MarksIn(l, "STOP", m) : s < e
    <2>1. CASE infos = <<>>
      <3>1. c = 0
        BY <2>1
      <3>2. IsFiniteSet(S)
        BY <1>0, <1>1, LinesFinite
      <3>3. S = {}
        BY <1>3, <3>1, <3>2, FS_EmptySet
      <3> QED
        BY <3>3
    <2>2. CASE infos # <<>>
      <3>1. n < Open
        BY <1>0, MaxLinesAssumption DEF Open
      <3> QED
        BY <1>0, <2>2, <3>1, ClosedAfter
    <2> QED
      BY <2>1, <2>2
  <1>11. NestedIn(l2, m)
    BY <1>10, NestedGrows DEF NameInv
  <1>12. /\ (\E u \in 1..Len(l2) : StartPends(l2, m, u)) <=> line.adjustWithNop
         /\ ~\E u \in 1..Len(l2) : StopPends(l2, m, u)
    BY <1>2, PendingAfterLine
  <1>13. \A s \in S \union {n + 1} :
             /\ StartsAt(l2, s, new[Rank(S \union {n + 1}, s)].startTick)
             /\ EndsAt(l2, m, s, new[Rank(S \union {n + 1}, s)].endTick)
    BY <1>7, <1>8
  <1> QED
    BY <1>1, <1>5, <1>6, <1>9, <1>11, <1>12, <1>13 DEF NameInv
-----------------------------------------------------------------------------
(* The two loops of DisposeUserMark                                        *)

KeepsOne(kept, info) == IF info.endTick = Open THEN kept ELSE Append(kept, info)
Keeps(s, h) ==
    h = [S \in SUBSET DOMAIN s |-> IF S = {} THEN <<>> ELSE KeepsOne(h[S \ {Max(S)}], s[Max(S)])]

LEMMA KeepsExist ==
    ASSUME NEW n \in Nat, NEW s \in [1..n -> Infos]
    PROVE  \E h : Keeps(s, h)
  <1> DEFINE step == [p \in Seq(Infos) \X Infos |-> KeepsOne(p[1], p[2])]
  <1>0. \A kept \in Seq(Infos), info \in Infos : KeepsOne(kept, info) \in Seq(Infos)
    BY DEF KeepsOne
  <1>1. step \in [Seq(Infos) \X Infos -> Seq(Infos)]
    BY <1>0
  <1>2. <<>> \in Seq(Infos)
    OBVIOUS
  <1>3. \A m \in Seq(Infos), i \in Infos : step[<<m, i>>] = KeepsOne(m, i)
    OBVIOUS
  <1> HIDE DEF step
  <1>4. HasFold(Seq(Infos), step, <<>>, s, n)
    BY <1>1, <1>2, FoldExists
  <1>5. PICK h \in [SUBSET (1..n) -> Seq(Infos)] : FoldsLeft(step, <<>>, s, n, h)
    BY <1>4 DEF HasFold
  <1>6. ASSUME NEW S \in SUBSET (1..n)
        PROVE  h[S] = IF S = {} THEN <<>> ELSE KeepsOne(h[S \ {Max(S)}], s[Max(S)])
    <2>1. h[S] = IF S = {} THEN <<>> ELSE step[<<h[S \ {Max(S)}], s[Max(S)]>>]
      BY <1>5, Zenon DEF FoldsLeft
    <2>2. S # {} => h[S \ {Max(S)}] \in Seq(Infos) /\ s[Max(S)] \in Infos
      BY MaxIsMember
    <2> QED
      BY <1>3, <2>1, <2>2, Zenon
  <1>7. DOMAIN s = 1..n /\ h = [S \in SUBSET (1..n) |-> h[S]]
    OBVIOUS
  <1>8. Keeps(s, h)
    BY <1>6, <1>7, Zenon DEF Keeps
  <1> QED
    BY <1>8

LEMMA KeepsSteps ==
    ASSUME NEW n \in Nat, NEW s \in [1..n -> Infos]
    PROVE  \E h : /\ WithEnd(s) = h[1..n]
                  /\ h[1..0] = <<>>
                  /\ \A k \in 0..(n - 1) : h[1..(k + 1)] = KeepsOne(h[1..k], s[k + 1])
  <1>0. DOMAIN s = 1..n /\ 1..0 = {}
    OBVIOUS
  <1> PICK h : h = CHOOSE g : Keeps(s, g)
    OBVIOUS
  <1>1. Keeps(s, h)
    BY KeepsExist, Zenon
  <1>2. WithEnd(s) = h[1..n]
    <2>1. WithEnd(s) = (CHOOSE g : Keeps(s, g))[DOMAIN s]
      BY DEF WithEnd, FoldLeft, MapThenFoldSet, Keeps, KeepsOne
    <2> QED
      BY <1>0, <2>1, Zenon
  <1>3. \A S \in SUBSET (1..n) :
            h[S] = IF S = {} THEN <<>> ELSE KeepsOne(h[S \ {Max(S)}], s[Max(S)])
    BY <1>0, <1>1, Zenon DEF Keeps
  <1>4. h[1..0] = <<>>
    BY <1>0, <1>3
  <1>5. ASSUME NEW k \in 0..(n - 1)
        PROVE  h[1..(k + 1)] = KeepsOne(h[1..k], s[k + 1])
    <2> PICK S : S = 1..(k + 1)
      OBVIOUS
    <2>1. /\ S \in SUBSET (1..n) /\ S # {}
          /\ Max(S) = k + 1 /\ S \ {k + 1} = 1..k
      BY PrefixFacts
    <2>2. h[S] = KeepsOne(h[S \ {Max(S)}], s[Max(S)])
      BY <1>3, <2>1, Zenon
    <2> QED
      BY <2>1, <2>2, Zenon
  <1> QED
    BY <1>2, <1>4, <1>5

(* If only the last interval may be open, this one is left out.            *)
LEMMA WithEndIs ==
    ASSUME NEW infos \in Seq(Infos),
           \A k \in 1..Len(infos) : infos[k].endTick = Open => k = Len(infos)
    PROVE  /\ WithEnd(infos) \in Seq(Infos)
           /\ Len(WithEnd(infos)) =
                IF infos # <<>> /\ infos[Len(infos)].endTick = Open THEN Len(infos) - 1 ELSE Len(infos)
           /\ \A k \in 1..Len(WithEnd(infos)) : WithEnd(infos)[k] = infos[k]
  <1> PICK n : n = Len(infos)
    OBVIOUS
  <1>1. n \in Nat /\ infos \in [1..n -> Infos] /\ (infos # <<>> <=> n # 0)
    OBVIOUS
  <1>2. PICK h : /\ WithEnd(infos) = h[1..n]
                 /\ h[1..0] = <<>>
                 /\ \A k \in 0..(n - 1) : h[1..(k + 1)] = KeepsOne(h[1..k], infos[k + 1])
    BY <1>1, KeepsSteps
  <1> DEFINE Prefix(k, kept) == kept \in Seq(Infos) /\ Len(kept) = k /\ \A i \in 1..k : kept[i] = infos[i]
  <1> DEFINE T == {k \in Nat : k <= n /\ (k = n => n = 0 \/ infos[n].endTick # Open) => Prefix(k, h[1..k])}
  <1>3. 0 \in T
    <2>1. <<>> \in Seq(Infos) /\ Len(<<>>) = 0 /\ 1..0 = {}
      OBVIOUS
    <2> QED
      BY <1>2, <2>1
  <1>4. ASSUME NEW k \in Nat, k \in T PROVE k + 1 \in T
    <2> SUFFICES ASSUME k + 1 <= n, k + 1 = n => infos[n].endTick # Open
                 PROVE  Prefix(k + 1, h[1..(k + 1)])
      BY <1>1
    <2>1. k \in 0..(n - 1) /\ k + 1 \in 1..n
      BY <1>1
    <2>2. Prefix(k, h[1..k])
      BY <1>1, <1>4
    <2>3. infos[k + 1].endTick # Open
      BY <1>1, <2>1
    <2>4. h[1..(k + 1)] = Append(h[1..k], infos[k + 1])
      BY <1>2, <2>1, <2>3 DEF KeepsOne
    <2> PICK kept : kept = h[1..k]
      OBVIOUS
    <2> PICK x : x = infos[k + 1]
      OBVIOUS
    <2>5. kept \in Seq(Infos) /\ Len(kept) = k /\ x \in Infos /\ \A i \in 1..k : kept[i] = infos[i]
      BY <1>1, <2>1, <2>2
    <2>6. Append(kept, x) \in Seq(Infos) /\ Len(Append(kept, x)) = k + 1
      BY <2>5
    <2>7. \A i \in 1..(k + 1) : Append(kept, x)[i] = infos[i]
      BY <2>5
    <2> QED
      BY <2>4, <2>6, <2>7
  <1>5. \A k \in Nat : k \in T
    <2> HIDE DEF T
    <2> QED
      BY <1>3, <1>4, SetInduction
  <1>6. CASE n = 0 \/ infos[n].endTick # Open
    <2>1. Prefix(n, WithEnd(infos))
      BY <1>1, <1>2, <1>5, <1>6
    <2> QED
      BY <1>1, <1>6, <2>1
  <1>7. CASE n # 0 /\ infos[n].endTick = Open
    <2>1. n - 1 \in Nat /\ n - 1 + 1 = n /\ n - 1 \in 0..(n - 1) /\ n - 1 # n
      BY <1>1, <1>7
    <2>2. Prefix(n - 1, h[1..(n - 1)])
      BY <1>1, <1>5, <2>1
    <2>3. h[1..n] = h[1..(n - 1)]
      <3>1. h[1..(n - 1 + 1)] = KeepsOne(h[1..(n - 1)], infos[n - 1 + 1])
        BY <1>2, <2>1
      <3> QED
        BY <1>7, <2>1, <3>1 DEF KeepsOne
    <2>4. Prefix(n - 1, WithEnd(infos))
      BY <1>2, <2>2, <2>3
    <2> QED
      BY <1>1, <1>7, <2>4
  <1> QED
    BY <1>6, <1>7

MarkLines == [type : {"START", "STOP"}, name : Names, adjustWithNop : BOOLEAN]
Drawn == [name : Names, startTick : Nat, endTick : Nat]
AllMerged == [markCnt : [Names -> Nat], instrs : Seq(Drawn)]

(* What MergeUserMark makes of the intervals and the marks in p.           *)
MergeOf(infos, p) ==
    FoldLeft(LAMBDA merged, line : GetUserMark(infos, merged, line), NothingMerged, p)
MergesAll(infos, s, h) ==
    h = [S \in SUBSET DOMAIN s |->
            IF S = {} THEN NothingMerged ELSE GetUserMark(infos, h[S \ {Max(S)}], s[Max(S)])]

LEMMA GetUserMarkType ==
    ASSUME NEW infos \in [Names -> Seq(Infos)], NEW merged \in AllMerged, NEW line \in MarkLines
    PROVE  /\ GetUserMark(infos, merged, line) \in AllMerged
           /\ line.name \in Names /\ merged.markCnt[line.name] \in Nat
           /\ merged.instrs \in Seq(Drawn) /\ merged.markCnt \in [Names -> Nat]
  <1>1. line.name \in Names
    BY DEF MarkLines
  <1>2. merged.markCnt \in [Names -> Nat] /\ merged.instrs \in Seq(Drawn)
    BY DEF AllMerged
  <1> PICK id : id = merged.markCnt[line.name] + 1
    OBVIOUS
  <1>3. merged.markCnt[line.name] \in Nat /\ id \in Nat \ {0}
    BY <1>1, <1>2
  <1>4. CASE line.type = "START" /\ id <= Len(infos[line.name])
    <2> PICK own : own = infos[line.name]
      OBVIOUS
    <2>1. own \in Seq(Infos)
      BY <1>1
    <2>2. id \in 1..Len(own)
      BY <1>3, <1>4, <2>1
    <2>3. own[id] \in Infos
      BY <2>1, <2>2, MemberOf, Zenon
    <2> PICK new : new = [name |-> line.name, startTick |-> own[id].startTick, endTick |-> own[id].endTick]
      OBVIOUS
    <2>4. new \in Drawn
      BY <1>1, <2>3 DEF Infos, Drawn
    <2>5. Append(merged.instrs, new) \in Seq(Drawn)
      BY <1>2, <2>4
    <2>6. [merged.markCnt EXCEPT ![line.name] = id] \in [Names -> Nat]
      BY <1>1, <1>2, <1>3
    <2>7. GetUserMark(infos, merged, line)
            = [markCnt |-> [merged.markCnt EXCEPT ![line.name] = id], instrs |-> Append(merged.instrs, new)]
      BY <1>4 DEF GetUserMark
    <2> QED
      BY <1>1, <1>2, <1>3, <2>5, <2>6, <2>7 DEF AllMerged
  <1>5. CASE ~(line.type = "START" /\ id <= Len(infos[line.name]))
    <2>1. GetUserMark(infos, merged, line) = merged
      BY <1>5 DEF GetUserMark
    <2> QED
      BY <1>1, <1>2, <1>3, <2>1
  <1> QED
    BY <1>4, <1>5

LEMMA NothingMergedType == NothingMerged \in AllMerged
  <1>1. [m \in Names |-> 0] \in [Names -> Nat] /\ <<>> \in Seq(Drawn)
    OBVIOUS
  <1> QED
    BY <1>1 DEF NothingMerged, AllMerged

LEMMA MergesAllExist ==
    ASSUME NEW infos \in [Names -> Seq(Infos)], NEW n \in Nat, NEW s \in [1..n -> MarkLines]
    PROVE  \E h \in [SUBSET (1..n) -> AllMerged] : MergesAll(infos, s, h)
  <1> DEFINE step == [p \in AllMerged \X MarkLines |-> GetUserMark(infos, p[1], p[2])]
  <1>1. step \in [AllMerged \X MarkLines -> AllMerged]
    BY GetUserMarkType
  <1>3. \A m \in AllMerged, i \in MarkLines : step[<<m, i>>] = GetUserMark(infos, m, i)
    OBVIOUS
  <1> HIDE DEF step
  <1>4. HasFold(AllMerged, step, NothingMerged, s, n)
    BY <1>1, NothingMergedType, FoldExists
  <1>5. PICK h \in [SUBSET (1..n) -> AllMerged] : FoldsLeft(step, NothingMerged, s, n, h)
    BY <1>4 DEF HasFold
  <1>6. ASSUME NEW S \in SUBSET (1..n)
        PROVE  h[S] = IF S = {} THEN NothingMerged ELSE GetUserMark(infos, h[S \ {Max(S)}], s[Max(S)])
    <2>1. h[S] = IF S = {} THEN NothingMerged ELSE step[<<h[S \ {Max(S)}], s[Max(S)]>>]
      BY <1>5, Zenon DEF FoldsLeft
    <2>2. S # {} => h[S \ {Max(S)}] \in AllMerged /\ s[Max(S)] \in MarkLines
      BY MaxIsMember
    <2> QED
      BY <1>3, <2>1, <2>2, Zenon
  <1>7. DOMAIN s = 1..n /\ h = [S \in SUBSET (1..n) |-> h[S]]
    OBVIOUS
  <1>8. MergesAll(infos, s, h)
    BY <1>6, <1>7, Zenon DEF MergesAll
  <1> QED
    BY <1>8

MergesIn(infos, s, n, h) ==
    /\ MergeOf(infos, s) = h[1..n]
    /\ h[1..0] = NothingMerged
    /\ \A k \in 0..(n - 1) : h[1..(k + 1)] = GetUserMark(infos, h[1..k], s[k + 1])

LEMMA MergesAllSteps ==
    ASSUME NEW infos \in [Names -> Seq(Infos)], NEW n \in Nat, NEW s \in [1..n -> MarkLines]
    PROVE  \E h : MergesIn(infos, s, n, h)
  <1>0. DOMAIN s = 1..n /\ 1..0 = {}
    OBVIOUS
  <1> PICK h : h = CHOOSE g : MergesAll(infos, s, g)
    OBVIOUS
  <1>1. MergesAll(infos, s, h)
    BY MergesAllExist, Zenon
  <1>2. MergeOf(infos, s) = h[1..n]
    <2>1. MergeOf(infos, s) = (CHOOSE g : MergesAll(infos, s, g))[DOMAIN s]
      BY DEF MergeOf, FoldLeft, MapThenFoldSet, MergesAll
    <2> QED
      BY <1>0, <2>1, Zenon
  <1>3. \A S \in SUBSET (1..n) :
            h[S] = IF S = {} THEN NothingMerged ELSE GetUserMark(infos, h[S \ {Max(S)}], s[Max(S)])
    BY <1>0, <1>1, Zenon DEF MergesAll
  <1>4. h[1..0] = NothingMerged
    BY <1>0, <1>3
  <1>5. ASSUME NEW k \in 0..(n - 1)
        PROVE  h[1..(k + 1)] = GetUserMark(infos, h[1..k], s[k + 1])
    <2> PICK S : S = 1..(k + 1)
      OBVIOUS
    <2>1. /\ S \in SUBSET (1..n) /\ S # {}
          /\ Max(S) = k + 1 /\ S \ {k + 1} = 1..k
      BY PrefixFacts
    <2>2. h[S] = GetUserMark(infos, h[S \ {Max(S)}], s[Max(S)])
      BY <1>3, <2>1, Zenon
    <2> QED
      BY <2>1, <2>2, Zenon
  <1> QED
    BY <1>2, <1>4, <1>5 DEF MergesIn

LEMMA SeqIsFunction ==
    ASSUME NEW U, NEW s \in Seq(U) PROVE s \in [1..Len(s) -> U] /\ Len(s) \in Nat
  OBVIOUS

(* The loop takes one more mark after those before.                        *)
LEMMA MergeOfAppend ==
    ASSUME NEW infos \in [Names -> Seq(Infos)], NEW p \in Seq(MarkLines), NEW line \in MarkLines
    PROVE  MergeOf(infos, Append(p, line)) = GetUserMark(infos, MergeOf(infos, p), line)
  <1> PICK n : n = Len(p)
    OBVIOUS
  <1> PICK q : q = Append(p, line)
    OBVIOUS
  <1>1. n \in Nat /\ p \in [1..n -> MarkLines]
    OBVIOUS
  <1> PICK n2 : n2 = n + 1
    OBVIOUS
  <1>a. Append(p, line) \in Seq(MarkLines) /\ Len(Append(p, line)) = Len(p) + 1
    OBVIOUS
  <1>b. Append(p, line)[Len(p) + 1] = line /\ \A k \in 1..Len(p) : Append(p, line)[k] = p[k]
    OBVIOUS
  <1>c. q \in Seq(MarkLines) /\ Len(q) = n2
    BY <1>a
  <1>e. q \in [1..n2 -> MarkLines]
    BY <1>c, SeqIsFunction, Zenon
  <1>f. q[n + 1] = line /\ \A k \in 1..n : q[k] = p[k]
    BY <1>b, Zenon
  <1>2. /\ q \in [1..n2 -> MarkLines]
        /\ q[n + 1] = line /\ \A k \in 1..n : q[k] = p[k]
    BY <1>e, <1>f
  <1>g. PICK h : MergesIn(infos, p, n, h)
    BY <1>1, MergesAllSteps, Zenon
  <1>3. /\ MergeOf(infos, p) = h[1..n]
        /\ h[1..0] = NothingMerged
        /\ \A k \in 0..(n - 1) : h[1..(k + 1)] = GetUserMark(infos, h[1..k], p[k + 1])
    BY <1>g, Zenon DEF MergesIn
  <1>4. n2 \in Nat /\ n2 - 1 = n
    BY <1>1
  <1>h. PICK g : MergesIn(infos, q, n2, g)
    BY <1>2, <1>4, MergesAllSteps, Zenon
  <1>d. /\ MergeOf(infos, q) = g[1..n2]
        /\ g[1..0] = NothingMerged
        /\ \A k \in 0..(n2 - 1) : g[1..(k + 1)] = GetUserMark(infos, g[1..k], q[k + 1])
    BY <1>h, Zenon DEF MergesIn
  <1>5. /\ MergeOf(infos, q) = g[1..(n + 1)]
        /\ g[1..0] = NothingMerged
        /\ \A k \in 0..n : g[1..(k + 1)] = GetUserMark(infos, g[1..k], q[k + 1])
    BY <1>d, <1>4
  <1> DEFINE T == {k \in Nat : k <= n => g[1..k] = h[1..k]}
  <1>6. 0 \in T
    BY <1>3, <1>5
  <1>7. ASSUME NEW k \in Nat, k \in T PROVE k + 1 \in T
    <2> SUFFICES ASSUME k + 1 <= n PROVE g[1..(k + 1)] = h[1..(k + 1)]
      OBVIOUS
    <2>1. k <= n /\ k \in 0..n /\ k \in 0..(n - 1) /\ k + 1 \in 1..n
      BY <1>1
    <2>2. g[1..k] = h[1..k]
      BY <1>7, <2>1
    <2>3. q[k + 1] = p[k + 1]
      BY <1>2, <2>1
    <2>4. g[1..(k + 1)] = GetUserMark(infos, g[1..k], q[k + 1])
      BY <1>5, <2>1, Zenon
    <2>5. h[1..(k + 1)] = GetUserMark(infos, h[1..k], p[k + 1])
      BY <1>3, <2>1, Zenon
    <2> QED
      BY <2>2, <2>3, <2>4, <2>5, Zenon
  <1>8. \A k \in Nat : k \in T
    <2> HIDE DEF T
    <2> QED
      BY <1>6, <1>7, SetInduction
  <1>9. g[1..n] = h[1..n] /\ n \in 0..n
    BY <1>1, <1>8
  <1>10. g[1..(n + 1)] = GetUserMark(infos, g[1..n], q[n + 1])
    BY <1>5, <1>9, Zenon
  <1> QED
    BY <1>2, <1>3, <1>5, <1>9, <1>10, Zenon

LEMMA MergeOfNone ==
    ASSUME NEW infos \in [Names -> Seq(Infos)] PROVE MergeOf(infos, <<>>) = NothingMerged
  <1>1. <<>> \in [1..0 -> MarkLines] /\ 0 \in Nat
    OBVIOUS
  <1>3. PICK h : MergesIn(infos, <<>>, 0, h)
    BY <1>1, MergesAllSteps, Zenon
  <1>2. MergeOf(infos, <<>>) = h[1..0] /\ h[1..0] = NothingMerged
    BY <1>3, Zenon DEF MergesIn
  <1> QED
    BY <1>2

LEMMA MergeOfType ==
    ASSUME NEW infos \in [Names -> Seq(Infos)], NEW p \in Seq(MarkLines)
    PROVE  MergeOf(infos, p) \in AllMerged
  <1> PICK n : n = Len(p)
    OBVIOUS
  <1>1. n \in Nat /\ p \in [1..n -> MarkLines]
    OBVIOUS
  <1>6. PICK h : MergesIn(infos, p, n, h)
    BY <1>1, MergesAllSteps, Zenon
  <1>2. /\ MergeOf(infos, p) = h[1..n]
        /\ h[1..0] = NothingMerged
        /\ \A k \in 0..(n - 1) : h[1..(k + 1)] = GetUserMark(infos, h[1..k], p[k + 1])
    BY <1>6, Zenon DEF MergesIn
  <1> DEFINE T == {k \in Nat : k <= n => h[1..k] \in AllMerged}
  <1>3. 0 \in T
    BY <1>2, NothingMergedType
  <1>4. ASSUME NEW k \in Nat, k \in T PROVE k + 1 \in T
    <2> SUFFICES ASSUME k + 1 <= n PROVE h[1..(k + 1)] \in AllMerged
      OBVIOUS
    <2>1. k <= n /\ k \in 0..(n - 1) /\ p[k + 1] \in MarkLines
      BY <1>1
    <2>2. h[1..k] \in AllMerged
      BY <1>4, <2>1
    <2>3. h[1..(k + 1)] = GetUserMark(infos, h[1..k], p[k + 1])
      BY <1>2, <2>1, Zenon
    <2> QED
      BY <2>1, <2>2, <2>3, GetUserMarkType
  <1>5. \A k \in Nat : k \in T
    <2> HIDE DEF T
    <2> QED
      BY <1>3, <1>4, SetInduction
  <1> QED
    BY <1>1, <1>2, <1>5
-----------------------------------------------------------------------------
(* MergedAs while the log grows                                            *)

LEMMA TakenGrows ==
    ASSUME NEW l, NEW l2, NEW line, Extended(l, l2, line), NEW infos
    PROVE  /\ Taken(l, infos) \in SUBSET (1..Len(l))
           /\ \A s \in 1..Len(l) : l[s].type = "START" =>
                  Rank(MarksIn(l2, "START", l2[s].name), s) = Rank(MarksIn(l, "START", l[s].name), s)
           /\ Taken(l2, infos) =
                IF line.type = "START"
                   /\ Cardinality(MarksIn(l, "START", line.name)) + 1 <= Len(infos[line.name])
                THEN Taken(l, infos) \union {Len(l) + 1} ELSE Taken(l, infos)
  <1> PICK n : n = Len(l)
    OBVIOUS
  <1>0. n \in Nat /\ Len(l2) = n + 1 /\ l2[n + 1] = line /\ \A t \in 1..n : l2[t] = l[t]
    BY DEF Extended
  <1>1. 1..(n + 1) = (1..n) \union {n + 1} /\ n + 1 \notin 1..n
    BY <1>0
  <1>2. \A m : /\ MarksIn(l, "START", m) \in SUBSET (1..n)
               /\ MarksIn(l2, "START", m) = IF IsMark(line, "START", m) THEN MarksIn(l, "START", m) \union {n + 1}
                                            ELSE MarksIn(l, "START", m)
    BY MarksGrow
  <1>3. ASSUME NEW m, NEW s \in 1..n
        PROVE  Rank(MarksIn(l2, "START", m), s) = Rank(MarksIn(l, "START", m), s)
    <2> PICK S : S = MarksIn(l, "START", m)
      OBVIOUS
    <2>1. S \in SUBSET (1..n)
      BY <1>2
    <2>2. Rank(S \union {n + 1}, s) = Rank(S, s)
      BY <1>0, <2>1, RankGrows
    <2> QED
      BY <1>2, <2>2
  <1>4. \A s \in 1..n : Rank(MarksIn(l2, "START", l2[s].name), s) = Rank(MarksIn(l, "START", l[s].name), s)
    BY <1>0, <1>3
  <1>5. \A s \in 1..n : s \in Taken(l2, infos) <=> s \in Taken(l, infos)
    BY <1>0, <1>1, <1>4, Zenon DEF Taken
  <1>6. n + 1 \in Taken(l2, infos) <=>
            /\ line.type = "START"
            /\ Cardinality(MarksIn(l, "START", line.name)) + 1 <= Len(infos[line.name])
    <2>1. n + 1 \in Taken(l2, infos) <=>
              /\ line.type = "START"
              /\ Rank(MarksIn(l2, "START", line.name), n + 1) <= Len(infos[line.name])
      BY <1>0, <1>1, Zenon DEF Taken
    <2>2. ASSUME line.type = "START"
          PROVE  Rank(MarksIn(l2, "START", line.name), n + 1) = Cardinality(MarksIn(l, "START", line.name)) + 1
      <3> PICK S : S = MarksIn(l, "START", line.name)
        OBVIOUS
      <3>1. S \in SUBSET (1..n) /\ MarksIn(l2, "START", line.name) = S \union {n + 1}
        BY <1>2, <2>2 DEF IsMark
      <3>2. Rank(S \union {n + 1}, n + 1) = Cardinality(S) + 1
        BY <1>0, <3>1, RankGrows
      <3> QED
        BY <3>1, <3>2
    <2> QED
      BY <2>1, <2>2
  <1>7. Taken(l, infos) \in SUBSET (1..n) /\ Taken(l2, infos) \in SUBSET (1..(n + 1))
    BY <1>0 DEF Taken
  <1>8. Taken(l2, infos) =
            IF n + 1 \in Taken(l2, infos) THEN Taken(l, infos) \union {n + 1} ELSE Taken(l, infos)
    <2>1. \A s \in Taken(l2, infos) : s \in 1..n \/ s = n + 1
      BY <1>1, <1>7
    <2>2. \A s \in Taken(l, infos) : s \in 1..n
      BY <1>7
    <2>3. CASE n + 1 \in Taken(l2, infos)
      <3>1. \A s : s \in Taken(l2, infos) <=> s \in Taken(l, infos) \union {n + 1}
        BY <1>5, <2>1, <2>2, <2>3, Zenon
      <3> QED
        BY <2>3, <3>1, Zenon
    <2>4. CASE n + 1 \notin Taken(l2, infos)
      <3>1. \A s : s \in Taken(l2, infos) <=> s \in Taken(l, infos)
        BY <1>5, <2>1, <2>2, <2>4, Zenon
      <3> QED
        BY <2>4, <3>1, Zenon
    <2> QED
      BY <2>3, <2>4
  <1> QED
    BY <1>4, <1>6, <1>7, <1>8

LEMMA InstrsKept ==
    ASSUME NEW l, NEW l2, NEW line, Extended(l, l2, line), NEW infos, NEW merged, MergedAs(l, infos, merged),
           NEW s \in Taken(l, infos)
    PROVE  merged.instrs[Rank(Taken(l, infos), s)] = InstrOf(l2, infos, s)
  <1>1. s \in 1..Len(l) /\ l[s].type = "START"
    BY DEF Taken
  <1>2. l2[s] = l[s] /\ Rank(MarksIn(l2, "START", l2[s].name), s) = Rank(MarksIn(l, "START", l[s].name), s)
    BY <1>1, TakenGrows DEF Extended
  <1>3. InstrOf(l2, infos, s) = InstrOf(l, infos, s)
    BY <1>2, Zenon DEF InstrOf
  <1> QED
    BY <1>3 DEF MergedAs

LEMMA MergedOther ==
    ASSUME NEW l, NEW l2, NEW line, Extended(l, l2, line), line.type # "START",
           NEW infos, NEW merged, MergedAs(l, infos, merged)
    PROVE  MergedAs(l2, infos, merged)
  <1>1. Taken(l2, infos) = Taken(l, infos)
    BY TakenGrows
  <1>2. \A m : MarksIn(l2, "START", m) = MarksIn(l, "START", m)
    BY MarksGrow DEF IsMark
  <1>3. Len(merged.instrs) = Cardinality(Taken(l2, infos))
    BY <1>1 DEF MergedAs
  <1>4. \A m \in Names :
           LET n == Cardinality(MarksIn(l2, "START", m))
           IN  merged.markCnt[m] = IF n <= Len(infos[m]) THEN n ELSE Len(infos[m])
    BY <1>2 DEF MergedAs
  <1>5. \A s \in Taken(l2, infos) : merged.instrs[Rank(Taken(l2, infos), s)] = InstrOf(l2, infos, s)
    BY <1>1, InstrsKept
  <1> QED
    BY <1>3, <1>4, <1>5 DEF MergedAs

LEMMA MergedStart ==
    ASSUME NEW l, NEW l2, NEW line \in MarkLines, Extended(l, l2, line), line.type = "START",
           NEW infos \in [Names -> Seq(Infos)], NEW merged \in AllMerged, MergedAs(l, infos, merged)
    PROVE  MergedAs(l2, infos, GetUserMark(infos, merged, line))
  <1> PICK n : n = Len(l)
    OBVIOUS
  <1> PICK m0 : m0 = line.name
    OBVIOUS
  <1> PICK c : c = Cardinality(MarksIn(l, "START", m0))
    OBVIOUS
  <1> PICK old : old = Taken(l, infos)
    OBVIOUS
  <1> PICK id : id = merged.markCnt[m0] + 1
    OBVIOUS
  <1>0. n \in Nat /\ l2[n + 1] = line
    BY DEF Extended
  <1>1. /\ m0 \in Names /\ merged.markCnt[m0] \in Nat /\ merged.instrs \in Seq(Drawn)
        /\ merged.markCnt \in [Names -> Nat]
    BY GetUserMarkType
  <1>2. old \in SUBSET (1..n) /\ Taken(l2, infos) = IF c + 1 <= Len(infos[m0]) THEN old \union {n + 1} ELSE old
    BY TakenGrows
  <1>3. c \in Nat /\ Len(infos[m0]) \in Nat
    <2>1. MarksIn(l, "START", m0) \in SUBSET (1..n)
      BY MarksGrow
    <2>2. infos[m0] \in Seq(Infos)
      BY <1>1
    <2>3. Len(infos[m0]) \in Nat
      BY <2>2, SeqIsFunction, Zenon
    <2> QED
      BY <1>0, <2>1, <2>3, LinesFinite
  <1>4. merged.markCnt[m0] = IF c <= Len(infos[m0]) THEN c ELSE Len(infos[m0])
    BY <1>1 DEF MergedAs
  <1>5. id <= Len(infos[m0]) <=> c + 1 <= Len(infos[m0])
    BY <1>3, <1>4
  <1>6. \A m : Cardinality(MarksIn(l2, "START", m)) = IF m = m0 THEN c + 1 ELSE Cardinality(MarksIn(l, "START", m))
    <2>1. ASSUME NEW m PROVE MarksIn(l2, "START", m) = IF m = m0 THEN MarksIn(l, "START", m) \union {n + 1}
                                                        ELSE MarksIn(l, "START", m)
      BY MarksGrow DEF IsMark
    <2>2. MarksIn(l, "START", m0) \in SUBSET (1..n)
      BY MarksGrow
    <2>3. Cardinality(MarksIn(l, "START", m0) \union {n + 1}) = c + 1
      BY <1>0, <2>2, RankGrows
    <2> QED
      BY <2>1, <2>3
  <1>7. CASE id <= Len(infos[m0])
    <2> PICK info : info = infos[m0][id]
      OBVIOUS
    <2> PICK new : new = [name |-> m0, startTick |-> info.startTick, endTick |-> info.endTick]
      OBVIOUS
    <2> PICK filled : filled = Append(merged.instrs, new)
      OBVIOUS
    <2> PICK cnt : cnt = [merged.markCnt EXCEPT ![m0] = id]
      OBVIOUS
    <2> PICK result : result = [markCnt |-> cnt, instrs |-> filled]
      OBVIOUS
    <2>1. GetUserMark(infos, merged, line) = result
      BY <1>7 DEF GetUserMark
    <2>a. result.markCnt = cnt /\ result.instrs = filled
      OBVIOUS
    <2>2. /\ Len(filled) = Len(merged.instrs) + 1 /\ filled[Len(merged.instrs) + 1] = new
          /\ \A k \in 1..Len(merged.instrs) : filled[k] = merged.instrs[k]
      <3> PICK past : past = merged.instrs
        OBVIOUS
      <3>1. past \in Seq(Drawn)
        BY <1>1
      <3>2. filled = Append(past, new)
        BY Zenon
      <3>3. Len(filled) = Len(past) + 1
        BY <3>1, <3>2
      <3>4. filled[Len(past) + 1] = new
        BY <3>1, <3>2
      <3>5. \A k \in 1..Len(past) : filled[k] = past[k]
        BY <3>1, <3>2
      <3> QED
        BY <3>3, <3>4, <3>5, Zenon
    <2>3. Taken(l2, infos) = old \union {n + 1}
      BY <1>2, <1>5, <1>7
    <2>4. /\ \A s \in 1..n : Rank(old \union {n + 1}, s) = Rank(old, s)
          /\ Rank(old \union {n + 1}, n + 1) = Cardinality(old) + 1
          /\ Cardinality(old \union {n + 1}) = Cardinality(old) + 1
      BY <1>0, <1>2, RankGrows
    <2>5. Len(merged.instrs) = Cardinality(old)
      BY DEF MergedAs
    <2>6. Len(result.instrs) = Cardinality(Taken(l2, infos))
      BY <2>a, <2>2, <2>3, <2>4, <2>5
    <2>7. ASSUME NEW m \in Names
          PROVE  result.markCnt[m] = LET k == Cardinality(MarksIn(l2, "START", m))
                                     IN  IF k <= Len(infos[m]) THEN k ELSE Len(infos[m])
      <3>1. CASE m = m0
        <4>1. cnt[m0] = id
          BY <1>1
        <4>2. id = c + 1
          BY <1>3, <1>4, <1>5, <1>7
        <4> QED
          BY <1>6, <1>7, <2>a, <3>1, <4>1, <4>2
      <3>2. CASE m # m0
        <4>1. cnt[m] = merged.markCnt[m]
          BY <1>1, <3>2
        <4> QED
          BY <1>6, <2>a, <3>2, <4>1 DEF MergedAs
      <3> QED
        BY <3>1, <3>2
    <2>8. ASSUME NEW s \in Taken(l2, infos)
          PROVE  result.instrs[Rank(Taken(l2, infos), s)] = InstrOf(l2, infos, s)
      <3>1. CASE s \in old
        <4>1. Rank(old, s) \in 1..Cardinality(old) /\ s \in 1..n
          BY <1>0, <1>2, <3>1, RankFacts
        <4>2. Rank(old \union {n + 1}, s) = Rank(old, s)
          BY <2>4, <4>1
        <4>3. filled[Rank(old, s)] = merged.instrs[Rank(old, s)]
          BY <2>2, <2>5, <4>1
        <4>4. merged.instrs[Rank(old, s)] = InstrOf(l2, infos, s)
          BY <3>1, InstrsKept
        <4> QED
          BY <2>a, <2>3, <4>2, <4>3, <4>4
      <3>2. CASE s = n + 1
        <4>1. filled[Rank(old \union {n + 1}, n + 1)] = new
          <5>1. Rank(old \union {n + 1}, n + 1) = Len(merged.instrs) + 1
            BY <2>4, <2>5, Zenon
          <5> QED
            BY <2>2, <5>1, Zenon
        <4>2. Rank(MarksIn(l2, "START", m0), n + 1) = c + 1
          <5> PICK S : S = MarksIn(l, "START", m0)
            OBVIOUS
          <5>1. S \in SUBSET (1..n) /\ MarksIn(l2, "START", m0) = S \union {n + 1} /\ n \in Nat
            BY <1>0, MarksGrow DEF IsMark
          <5>2. Rank(S \union {n + 1}, n + 1) = Cardinality(S) + 1
            BY <5>1, RankGrows
          <5> QED
            BY <5>1, <5>2
        <4>3. id = c + 1
          BY <1>3, <1>4, <1>5, <1>7
        <4>4. l2[s] = line
          BY <1>0, <3>2
        <4>5. l2[s].name = m0
          BY <4>4
        <4>6. infos[l2[s].name][Rank(MarksIn(l2, "START", l2[s].name), s)] = info
          BY <3>2, <4>2, <4>3, <4>5, Zenon
        <4>7. InstrOf(l2, infos, s) = new
          BY <4>5, <4>6, Zenon DEF InstrOf
        <4> QED
          BY <2>a, <2>3, <3>2, <4>1, <4>7, Zenon
      <3> QED
        BY <2>3, <3>1, <3>2
    <2>9. MergedAs(l2, infos, result)
      BY <2>6, <2>7, <2>8 DEF MergedAs
    <2> QED
      BY <2>1, <2>9
  <1>8. CASE ~(id <= Len(infos[m0]))
    <2>1. GetUserMark(infos, merged, line) = merged
      BY <1>8 DEF GetUserMark
    <2>2. Taken(l2, infos) = old
      BY <1>2, <1>5, <1>8
    <2>3. Len(merged.instrs) = Cardinality(Taken(l2, infos))
      BY <2>2 DEF MergedAs
    <2>4. ASSUME NEW m \in Names
          PROVE  merged.markCnt[m] = LET k == Cardinality(MarksIn(l2, "START", m))
                                     IN  IF k <= Len(infos[m]) THEN k ELSE Len(infos[m])
      <3>1. CASE m = m0
        BY <1>3, <1>4, <1>5, <1>6, <1>8, <3>1
      <3>2. CASE m # m0
        BY <1>6, <3>2 DEF MergedAs
      <3> QED
        BY <3>1, <3>2
    <2>5. \A s \in Taken(l2, infos) : merged.instrs[Rank(Taken(l2, infos), s)] = InstrOf(l2, infos, s)
      BY <2>2, InstrsKept
    <2>6. MergedAs(l2, infos, merged)
      BY <2>3, <2>4, <2>5 DEF MergedAs
    <2> QED
      BY <2>1, <2>6
  <1> QED
    BY <1>7, <1>8
-----------------------------------------------------------------------------
(* The ticks as the property states them                                   *)

LEMMA LargestIs ==
    ASSUME NEW S, NEW x \in S, S \subseteq Int, \A y \in S : y <= x
    PROVE  Largest(S) = x
  <1>1. \A z \in S : (\A y \in S : y <= z) => z = x
    OBVIOUS
  <1>2. Largest(S) \in S /\ \A y \in S : y <= Largest(S)
    BY DEF Largest
  <1> QED
    BY <1>1, <1>2

LEMMA LastNopExists ==
    ASSUME NEW l, Len(l) \in Nat, NEW t \in 1..Len(l)
    PROVE  \E v : LastNop(l, t, v)
  <1> PICK n : n = Len(l)
    OBVIOUS
  <1> DEFINE V == {v \in t..n : \A i \in (t + 1)..v : l[i] = Nop}
  <1>1. t \in V
    OBVIOUS
  <1>2. V \in SUBSET (1..n)
    OBVIOUS
  <1>3. PICK v \in V : \A w \in V : w <= v
    <2> HIDE DEF V
    <2> QED
      BY <1>1, <1>2, HasLargest
  <1>4. v \in t..n /\ v \in Nat /\ \A i \in (t + 1)..v : l[i] = Nop
    BY <1>3
  <1>5. ASSUME v < n, l[v + 1] = Nop PROVE FALSE
    <2>1. v + 1 \in t..n
      BY <1>4, <1>5
    <2>2. \A i \in (t + 1)..(v + 1) : i \in (t + 1)..v \/ i = v + 1
      BY <1>4
    <2>3. v + 1 \in V
      BY <1>4, <1>5, <2>1, <2>2
    <2> QED
      BY <1>3, <1>4, <2>3
  <1> QED
    BY <1>4, <1>5 DEF LastNop

LEMMA NopsAfterIs ==
    ASSUME Len(log) \in Nat, NEW t \in 1..Len(log), NEW v, LastNop(log, t, v)
    PROVE  NopsAfter(t) = v - t
  <1> PICK n : n = Len(log)
    OBVIOUS
  <1> DEFINE V == {k \in 0..(n - t) : \A i \in 1..k : log[t + i] = Nop}
  <1>1. n \in Nat /\ v \in t..n /\ (\A i \in (t + 1)..v : log[i] = Nop) /\ (v < n => log[v + 1] # Nop)
    BY DEF LastNop
  <1>2. v - t \in 0..(n - t) /\ t + (v - t) = v
    BY <1>1
  <1>3. \A i \in 1..(v - t) : t + i \in (t + 1)..v
    BY <1>1
  <1>4. v - t \in V
    BY <1>1, <1>2, <1>3
  <1>5. ASSUME NEW k \in V PROVE k <= v - t
    <2>1. k \in 0..(n - t) /\ \A i \in 1..k : log[t + i] = Nop
      OBVIOUS
    <2>2. SUFFICES ASSUME k > v - t PROVE FALSE
      BY <1>2, <2>1
    <2>3. v - t + 1 \in 1..k /\ v < n /\ t + (v - t + 1) = v + 1
      BY <1>1, <2>1, <2>2
    <2>4. log[t + (v - t + 1)] = Nop
      BY <2>1, <2>3
    <2> QED
      BY <1>1, <2>3, <2>4
  <1>6. V \subseteq Int
    OBVIOUS
  <1>7. NopsAfter(t) = Largest(V)
    BY Zenon DEF NopsAfter
  <1> HIDE DEF V
  <1>8. Largest(V) = v - t
    BY <1>4, <1>5, <1>6, LargestIs
  <1> QED
    BY <1>7, <1>8

LEMMA EndIsTick ==
    ASSUME NEW l, Len(l) \in Nat, NEW m, NEW s, NEW v, EndsAt(l, m, s, v), StopsIn(l, m, s) # {}
    PROVE  v \in 1..Len(l)
  <1>1. PICK e \in StopsIn(l, m, s) : StopsAt(l, e, v)
    BY DEF EndsAt
  <1>2. e \in 1..Len(l)
    BY StopsAreLines
  <1>3. CASE l[e].adjustWithNop
    <2>1. v \in e..Len(l)
      BY <1>1, <1>3 DEF StopsAt, LastNop
    <2> QED
      BY <1>2, <2>1
  <1>4. CASE ~l[e].adjustWithNop
    BY <1>1, <1>2, <1>4 DEF StopsAt
  <1> QED
    BY <1>3, <1>4

(* The operators of UserMark are those of any log, for this log.           *)
LEMMA LogOperators ==
    ASSUME DOMAIN log = 1..Len(log)
    PROVE  /\ \A m : WellNested(m) <=> NestedIn(log, m)
           /\ \A s : StopsOf(s) = StopsIn(log, log[s].name, s)
           /\ Starts = {s \in 1..Len(log) : log[s].type = "START"}
  <1>1. \A type, m : LinesOf(type, m) = MarksIn(log, type, m)
    BY DEF LinesOf, MarksIn
  <1>2. \A m : WellNested(m) <=> NestedIn(log, m)
    BY <1>1, Zenon DEF WellNested, NestedIn
  <1>3. ASSUME NEW s PROVE StopsOf(s) = StopsIn(log, log[s].name, s)
    BY <1>1, Zenon DEF StopsOf, StopsIn
  <1>4. Starts = {s \in 1..Len(log) : log[s].type = "START"}
    BY Zenon DEF Starts
  <1> QED
    BY <1>2, <1>3, <1>4

LEMMA IntervalIs ==
    ASSUME DOMAIN log = 1..Len(log), Len(log) \in Nat,
           NEW s \in 1..Len(log), NEW from, NEW to, StopsIn(log, log[s].name, s) # {},
           StartsAt(log, s, from), EndsAt(log, log[s].name, s, to)
    PROVE  Interval(s) = [name |-> log[s].name, startTick |-> from, endTick |-> to]
  <1> PICK m : m = log[s].name
    OBVIOUS
  <1> PICK T : T = StopsIn(log, m, s)
    OBVIOUS
  <1>0. T \in SUBSET (1..Len(log))
    BY StopsAreLines
  <1>1. PICK e \in T : (\A f \in T : f <= e) /\ StopsAt(log, e, to)
    BY DEF EndsAt
  <1>2. e \in 1..Len(log) /\ T \subseteq Int
    BY <1>0
  <1>3. Largest(T) = e
    BY <1>1, <1>2, LargestIs
  <1>4. StopsOf(s) = T
    BY LogOperators
  <1>5. Largest(StopsOf(s)) = e
    BY <1>3, <1>4
  <1>6. to = IF log[e].adjustWithNop THEN e + NopsAfter(e) ELSE e
    <2>1. CASE log[e].adjustWithNop
      <3>1. LastNop(log, e, to)
        BY <1>1, <2>1 DEF StopsAt
      <3>2. NopsAfter(e) = to - e
        BY <1>2, <3>1, NopsAfterIs
      <3>3. to \in e..Len(log)
        BY <3>1 DEF LastNop
      <3> QED
        BY <1>2, <2>1, <3>2, <3>3
    <2>2. CASE ~log[e].adjustWithNop
      BY <1>1, <2>2 DEF StopsAt
    <2> QED
      BY <2>1, <2>2
  <1>7. NopsAfter(s) > 0 <=> s < Len(log) /\ log[s + 1] = Nop
    <2>1. PICK v : LastNop(log, s, v)
      BY LastNopExists
    <2>2. NopsAfter(s) = v - s
      BY <2>1, NopsAfterIs
    <2>3. v \in s..Len(log) /\ (\A i \in (s + 1)..v : log[i] = Nop) /\ (v < Len(log) => log[v + 1] # Nop)
      BY <2>1 DEF LastNop
    <2>4. CASE v = s
      BY <2>2, <2>3, <2>4
    <2>5. CASE v # s
      <3>1. s + 1 \in (s + 1)..v /\ v - s > 0 /\ s < Len(log)
        BY <2>3, <2>5
      <3> QED
        BY <2>2, <2>3, <3>1
    <2> QED
      BY <2>4, <2>5
  <1>8. from = IF log[s].adjustWithNop /\ NopsAfter(s) > 0 THEN s + 1 ELSE s
    BY <1>7 DEF StartsAt
  <1> QED
    BY <1>5, <1>6, <1>8, Zenon DEF Interval
-----------------------------------------------------------------------------
(* The invariant                                                           *)

LogLines == {Nop, Other} \union MarkLines

(* The types of the variables; a line of the log that is not a mark has no *)
(* other fields.                                                           *)
MarkTypeOK ==
    /\ log \in Seq(LogLines) /\ Len(log) <= MaxLines
    /\ userMarkMap \in [Names -> Seq(Infos)]
    /\ userMarkName \in Names \union {NA}
    /\ userMarkStatus \in [Names -> BOOLEAN]
    /\ userMarkParseInfo \in Seq(MarkLines)
    /\ disposed \in BOOLEAN

PendingOf(name, status, m) ==
    IF name # m THEN "none" ELSE IF status[m] THEN "start" ELSE "stop"

NamesInv ==
    \A m \in Names :
        IF m \in invalidMarkName THEN ~NestedIn(log, m)
        ELSE NameInv(log, m, userMarkMap[m], PendingOf(userMarkName, userMarkStatus, m))
MergeInv ==
    \A infos \in [Names -> Seq(Infos)] : MergedAs(log, infos, MergeOf(infos, userMarkParseInfo))

MarkInv == ~disposed => NamesInv /\ MergeInv
MarkIInv == MarkTypeOK /\ MarkInv /\ MarksAsLogged

LEMMA LogFacts ==
    ASSUME MarkTypeOK
    PROVE  /\ DOMAIN log = 1..Len(log) /\ Len(log) \in Nat /\ Len(log) < Open
           /\ \A t \in 1..Len(log) : log[t] \in LogLines
           /\ \A t \in 1..Len(log) : log[t].type \in {"START", "STOP"} => log[t].name \in Names
  <1>1. log \in Seq(LogLines) /\ Len(log) <= MaxLines
    BY DEF MarkTypeOK
  <1>2. DOMAIN log = 1..Len(log) /\ Len(log) \in Nat
    BY <1>1
  <1>3. \A t \in 1..Len(log) : log[t] \in LogLines
    BY <1>1, MemberOf, Zenon
  <1>4. \A x \in LogLines : x.type \in {"START", "STOP"} => x.name \in Names
    BY DEF LogLines, Nop, Other, MarkLines
  <1>5. Len(log) < Open
    BY <1>1, <1>2, MaxLinesAssumption DEF Open
  <1> QED
    BY <1>2, <1>3, <1>4, <1>5
LEMMA MarkInitOK == MarkInit => MarkIInv
  <1> SUFFICES ASSUME MarkInit PROVE MarkIInv
    OBVIOUS
  <1>1. /\ log = <<>> /\ userMarkMap = [m \in Names |-> <<>>] /\ invalidMarkName = {}
        /\ userMarkName = NA /\ userMarkStatus = [m \in Names |-> FALSE]
        /\ userMarkParseInfo = <<>> /\ disposed = FALSE
    BY DEF MarkInit
  <1>2. /\ <<>> \in Seq(LogLines) /\ Len(<<>>) = 0 /\ <<>> \in Seq(Infos) /\ <<>> \in Seq(MarkLines)
        /\ 1..0 = {} /\ 0 <= MaxLines
    BY MaxLinesAssumption
  <1>3. Cardinality({}) = 0
    BY FS_EmptySet
  <1>4. MarkTypeOK
    BY <1>1, <1>2 DEF MarkTypeOK
  <1>5. \A type, m : MarksIn(log, type, m) = {}
    BY <1>1, <1>2 DEF MarksIn
  <1>6. ASSUME NEW m \in Names PROVE NameInv(log, m, userMarkMap[m], "none")
    <2>1. userMarkMap[m] = <<>> /\ Len(log) = 0
      BY <1>1, <1>2
    <2>2. NestedIn(log, m)
      BY <1>5 DEF NestedIn
    <2> QED
      BY <1>2, <1>3, <1>5, <2>1, <2>2 DEF NameInv
  <1>7. NamesInv
    BY <1>1, <1>6, NAAssumption DEF NamesInv, PendingOf
  <1>8. ASSUME NEW infos \in [Names -> Seq(Infos)]
        PROVE  MergedAs(log, infos, MergeOf(infos, userMarkParseInfo))
    <2>1. MergeOf(infos, userMarkParseInfo) = NothingMerged
      BY <1>1, MergeOfNone
    <2>2. Taken(log, infos) = {}
      BY <1>1, <1>2 DEF Taken
    <2>3. NothingMerged.instrs = <<>> /\ \A m \in Names : NothingMerged.markCnt[m] = 0
      BY DEF NothingMerged
    <2>4. \A m \in Names : 0 <= Len(infos[m])
      <3>1. \A m \in Names : infos[m] \in Seq(Infos)
        OBVIOUS
      <3>2. \A s \in Seq(Infos) : Len(s) \in Nat
        OBVIOUS
      <3>3. \A m \in Names : Len(infos[m]) \in Nat
        BY <3>1, <3>2, Zenon
      <3> QED
        BY <3>3
    <2>5. MergedAs(log, infos, NothingMerged)
      BY <1>2, <1>3, <1>5, <2>2, <2>3, <2>4 DEF MergedAs
    <2> QED
      BY <2>1, <2>5
  <1>9. MergeInv
    BY <1>8 DEF MergeInv
  <1>10. MarksAsLogged
    BY <1>1 DEF MarksAsLogged
  <1> QED
    BY <1>4, <1>7, <1>9, <1>10 DEF MarkIInv, MarkInv

LEMMA ReadFacts ==
    ASSUME MarkTypeOK, NEW line \in LogLines, Read(line)
    PROVE  /\ Extended(log, log', line) /\ Len(log) + 1 < Open
           /\ log' \in Seq(LogLines) /\ Len(log') <= MaxLines
           /\ ~disposed /\ ~disposed' /\ disposed' \in BOOLEAN
  <1>1. log \in Seq(LogLines) /\ disposed \in BOOLEAN /\ MaxLines \in Nat
    BY MaxLinesAssumption DEF MarkTypeOK
  <1>2. ~disposed /\ disposed' = disposed /\ Len(log) < MaxLines /\ log' = Append(log, line)
    BY DEF Read
  <1>3. Len(log) \in Nat /\ Len(log') = Len(log) + 1 /\ log' \in Seq(LogLines)
    BY <1>1, <1>2
  <1>4. log'[Len(log) + 1] = line /\ \A t \in 1..Len(log) : log'[t] = log[t]
    BY <1>1, <1>2
  <1>5. Extended(log, log', line)
    BY <1>3, <1>4 DEF Extended
  <1> QED
    BY <1>1, <1>2, <1>3, <1>5 DEF Open

(* The new back of a name.                                                 *)
BackIsSet(m, info) ==
    /\ SetBack(m, info)[m] = Append(Front(userMarkMap[m]), info)
    /\ \A m2 \in Names : m2 # m => SetBack(m, info)[m2] = userMarkMap[m2]
    /\ userMarkMap[m] # <<>> /\ info \in Infos => SetBack(m, info) \in [Names -> Seq(Infos)]

LEMMA SetBackIs ==
    ASSUME MarkTypeOK, NEW m \in Names, NEW info
    PROVE  BackIsSet(m, info)
  <1>1. userMarkMap \in [Names -> Seq(Infos)]
    BY DEF MarkTypeOK
  <1> PICK own : own = Append(Front(userMarkMap[m]), info)
    OBVIOUS
  <1>2. SetBack(m, info) = [userMarkMap EXCEPT ![m] = own]
    BY DEF SetBack
  <1>3. userMarkMap[m] # <<>> /\ info \in Infos => own \in Seq(Infos)
    <2> PICK old : old = userMarkMap[m]
      OBVIOUS
    <2>1. old \in Seq(Infos)
      BY <1>1
    <2>2. old # <<>> /\ info \in Infos => Append(Front(old), info) \in Seq(Infos)
      BY <2>1, NewBack
    <2> QED
      BY <2>2
  <1> QED
    BY <1>1, <1>2, <1>3 DEF BackIsSet

(* The back of a name whose list is not empty is an interval.              *)
LEMMA BackIs ==
    ASSUME MarkTypeOK, NEW m \in Names, userMarkMap[m] # <<>>
    PROVE  Back(m) \in Infos
  <1> PICK old : old = userMarkMap[m]
    OBVIOUS
  <1>1. old \in Seq(Infos) /\ old # <<>>
    BY DEF MarkTypeOK
  <1>2. Len(old) \in 1..Len(old)
    BY <1>1
  <1>3. old[Len(old)] \in Infos
    BY <1>1, <1>2, MemberOf, Zenon
  <1> QED
    BY <1>3 DEF Back
-----------------------------------------------------------------------------
(* The steps                                                               *)

LEMMA MergeKept ==
    ASSUME MarkTypeOK, MergeInv, NEW line, Extended(log, log', line),
           \/ line \in {Nop, Other} /\ userMarkParseInfo' = userMarkParseInfo
           \/ line \in MarkLines /\ userMarkParseInfo' = Append(userMarkParseInfo, line)
    PROVE  MergeInv' /\ userMarkParseInfo' \in Seq(MarkLines)
  <1>1. userMarkParseInfo \in Seq(MarkLines)
    BY DEF MarkTypeOK
  <1>2. CASE line \in {Nop, Other} /\ userMarkParseInfo' = userMarkParseInfo
    <2>1. line.type # "START"
      BY <1>2 DEF Nop, Other
    <2>2. ASSUME NEW infos \in [Names -> Seq(Infos)]
          PROVE  MergedAs(log', infos, MergeOf(infos, userMarkParseInfo))
      <3>1. MergedAs(log, infos, MergeOf(infos, userMarkParseInfo))
        BY DEF MergeInv
      <3> QED
        BY <2>1, <3>1, MergedOther
    <2>3. MergeInv'
      BY <1>2, <2>2 DEF MergeInv
    <2> QED
      BY <1>1, <1>2, <2>3
  <1>3. CASE line \in MarkLines /\ userMarkParseInfo' = Append(userMarkParseInfo, line)
    <2>1. ASSUME NEW infos \in [Names -> Seq(Infos)]
          PROVE  MergedAs(log', infos, MergeOf(infos, Append(userMarkParseInfo, line)))
      <3> PICK merged : merged = MergeOf(infos, userMarkParseInfo)
        OBVIOUS
      <3>1. MergedAs(log, infos, merged) /\ merged \in AllMerged
        BY <1>1, MergeOfType DEF MergeInv
      <3>2. MergeOf(infos, Append(userMarkParseInfo, line)) = GetUserMark(infos, merged, line)
        BY <1>1, <1>3, MergeOfAppend
      <3>3. CASE line.type = "START"
        <4>1. MergedAs(log', infos, GetUserMark(infos, merged, line))
          BY <1>3, <3>1, <3>3, MergedStart
        <4> QED
          BY <3>2, <4>1
      <3>4. CASE line.type # "START"
        <4>1. GetUserMark(infos, merged, line) = merged
          BY <3>4 DEF GetUserMark
        <4>2. MergedAs(log', infos, merged)
          BY <3>1, <3>4, MergedOther
        <4> QED
          BY <3>2, <4>1, <4>2
      <3> QED
        BY <3>3, <3>4
    <2>2. MergeInv'
      BY <1>3, <2>1 DEF MergeInv
    <2>3. userMarkParseInfo' \in Seq(MarkLines)
      BY <1>1, <1>3
    <2> QED
      BY <2>2, <2>3
  <1> QED
    BY <1>2, <1>3

LEMMA OtherStep ==
    ASSUME MarkIInv, ReadOther
    PROVE  MarkIInv'
  <1>1. MarkTypeOK /\ Other \in LogLines /\ Read(Other)
    BY DEF MarkIInv, ReadOther, LogLines
  <1>2. /\ Extended(log, log', Other) /\ Len(log) + 1 < Open
        /\ log' \in Seq(LogLines) /\ Len(log') <= MaxLines
        /\ ~disposed /\ ~disposed' /\ disposed' \in BOOLEAN
    BY <1>1, ReadFacts
  <1>3. NamesInv /\ MergeInv
    BY <1>2 DEF MarkIInv, MarkInv
  <1>4. /\ userMarkName' = NA /\ userMarkMap' = userMarkMap /\ invalidMarkName' = invalidMarkName
        /\ userMarkStatus' = userMarkStatus /\ userMarkParseInfo' = userMarkParseInfo
    BY DEF ReadOther
  <1>5. MergeInv' /\ userMarkParseInfo' \in Seq(MarkLines)
    BY <1>1, <1>2, <1>3, <1>4, MergeKept
  <1>6. ASSUME NEW m \in Names
        PROVE  IF m \in invalidMarkName' THEN ~NestedIn(log', m)
               ELSE NameInv(log', m, userMarkMap'[m], PendingOf(userMarkName', userMarkStatus', m))
    <2>1. ~IsMark(Other, "START", m) /\ ~IsMark(Other, "STOP", m) /\ Other # Nop
      BY DEF IsMark, Other, Nop
    <2>2. CASE m \in invalidMarkName
      <3>1. ~NestedIn(log, m)
        BY <1>3, <2>2 DEF NamesInv
      <3> QED
        BY <1>2, <1>4, <2>2, <3>1, NestedGrows
    <2>3. CASE m \notin invalidMarkName
      <3>1. NameInv(log, m, userMarkMap[m], PendingOf(userMarkName, userMarkStatus, m))
        BY <1>3, <2>3 DEF NamesInv
      <3>2. NameInv(log', m, userMarkMap[m], "none")
        BY <1>2, <2>1, <3>1, NameKept
      <3>3. PendingOf(userMarkName', userMarkStatus', m) = "none"
        BY <1>4, NAAssumption DEF PendingOf
      <3> QED
        BY <1>4, <2>3, <3>2, <3>3
    <2> QED
      BY <2>2, <2>3
  <1>7. NamesInv'
    BY <1>6 DEF NamesInv
  <1>8. MarkTypeOK'
    BY <1>1, <1>2, <1>4, <1>5 DEF MarkTypeOK
  <1>9. MarksAsLogged'
    BY <1>2 DEF MarksAsLogged
  <1> QED
    BY <1>5, <1>7, <1>8, <1>9 DEF MarkIInv, MarkInv

LEMMA NopStep ==
    ASSUME MarkIInv, ReadNop
    PROVE  MarkIInv'
  <1>1. MarkTypeOK /\ Nop \in LogLines /\ Read(Nop)
    BY DEF MarkIInv, ReadNop, LogLines
  <1>2. /\ Extended(log, log', Nop) /\ Len(log) + 1 < Open
        /\ log' \in Seq(LogLines) /\ Len(log') <= MaxLines
        /\ ~disposed /\ ~disposed' /\ disposed' \in BOOLEAN
    BY <1>1, ReadFacts
  <1>3. NamesInv /\ MergeInv
    BY <1>2 DEF MarkIInv, MarkInv
  <1>4. /\ invalidMarkName' = invalidMarkName
        /\ userMarkStatus' = userMarkStatus /\ userMarkParseInfo' = userMarkParseInfo
    BY DEF ReadNop
  <1>5. MergeInv' /\ userMarkParseInfo' \in Seq(MarkLines)
    BY <1>1, <1>2, <1>3, <1>4, MergeKept
  <1>6. Tick = Len(log) + 1 /\ Tick \in Nat /\ userMarkName \in Names \union {NA}
    BY <1>1, LogFacts DEF Tick, MarkTypeOK
  <1> DEFINE Moves == userMarkName # NA /\ userMarkMap[userMarkName] # <<>>
  <1>7. /\ Moves /\ userMarkStatus[userMarkName] =>
              /\ userMarkMap' = SetBack(userMarkName, [Back(userMarkName) EXCEPT !.startTick = Tick])
              /\ userMarkName' = NA
        /\ Moves /\ ~userMarkStatus[userMarkName] =>
              /\ userMarkMap' = SetBack(userMarkName, [Back(userMarkName) EXCEPT !.endTick = Tick])
              /\ userMarkName' = userMarkName
        /\ ~Moves => userMarkName' = NA /\ userMarkMap' = userMarkMap
    BY DEF ReadNop
  <1>8. Moves => /\ userMarkName \in Names
                 /\ [Back(userMarkName) EXCEPT !.startTick = Tick] \in Infos
                 /\ [Back(userMarkName) EXCEPT !.endTick = Tick] \in Infos
    <2> SUFFICES ASSUME Moves PROVE userMarkName \in Names /\ [Back(userMarkName) EXCEPT !.startTick = Tick] \in Infos
                                    /\ [Back(userMarkName) EXCEPT !.endTick = Tick] \in Infos
      OBVIOUS
    <2>1. userMarkName \in Names
      BY <1>6
    <2>2. Back(userMarkName) \in Infos
      BY <1>1, <2>1, BackIs
    <2> QED
      BY <1>6, <2>1, <2>2 DEF Infos
  <1>9. userMarkMap' \in [Names -> Seq(Infos)] /\ userMarkName' \in Names \union {NA}
    <2>1. CASE Moves /\ userMarkStatus[userMarkName]
      BY <1>1, <1>7, <1>8, <2>1, SetBackIs DEF BackIsSet
    <2>2. CASE Moves /\ ~userMarkStatus[userMarkName]
      BY <1>1, <1>7, <1>8, <2>2, SetBackIs DEF BackIsSet
    <2>3. CASE ~Moves
      BY <1>1, <1>7, <2>3 DEF MarkTypeOK
    <2> QED
      BY <2>1, <2>2, <2>3
  <1>10. ASSUME NEW m \in Names
        PROVE  IF m \in invalidMarkName' THEN ~NestedIn(log', m)
               ELSE NameInv(log', m, userMarkMap'[m], PendingOf(userMarkName', userMarkStatus', m))
    <2>1. ~IsMark(Nop, "START", m) /\ ~IsMark(Nop, "STOP", m)
      BY DEF IsMark, Nop
    <2>2. CASE m \in invalidMarkName
      <3>1. ~NestedIn(log, m)
        BY <1>3, <2>2 DEF NamesInv
      <3> QED
        BY <1>2, <1>4, <2>2, <3>1, NestedGrows
    <2>3. CASE m \notin invalidMarkName
      <3> PICK own : own = userMarkMap[m]
        OBVIOUS
      <3>1. NameInv(log, m, own, PendingOf(userMarkName, userMarkStatus, m))
        BY <1>3, <2>3 DEF NamesInv
      <3>2. CASE userMarkName # m
        <4>1. PendingOf(userMarkName, userMarkStatus, m) = "none"
          BY <3>2 DEF PendingOf
        <4>2. NameInv(log', m, own, "none")
          BY <1>2, <2>1, <3>1, <4>1, NameKept
        <4>3. userMarkMap'[m] = own
          BY <1>1, <1>7, <1>8, <3>2, SetBackIs DEF BackIsSet
        <4>4. PendingOf(userMarkName', userMarkStatus', m) = "none"
          BY <1>7, <3>2, NAAssumption DEF PendingOf
        <4> QED
          BY <1>4, <2>3, <4>2, <4>3, <4>4
      <3>3. CASE userMarkName = m /\ userMarkStatus[m]
        <4>1. PendingOf(userMarkName, userMarkStatus, m) = "start"
          BY <3>3 DEF PendingOf
        <4>2. /\ own # <<>>
              /\ NameInv(log', m, Append(Front(own), [own[Len(own)] EXCEPT !.startTick = Len(log) + 1]), "none")
          BY <1>2, <3>1, <4>1, NopAfterStart
        <4>3. Moves
          BY <3>3, <4>2, NAAssumption
        <4>4. userMarkMap' = SetBack(m, [own[Len(own)] EXCEPT !.startTick = Len(log) + 1]) /\ userMarkName' = NA
          BY <1>6, <1>7, <3>3, <4>3 DEF Back
        <4>5. userMarkMap'[m] = Append(Front(own), [own[Len(own)] EXCEPT !.startTick = Len(log) + 1])
          BY <1>1, <4>4, SetBackIs DEF BackIsSet
        <4>6. PendingOf(userMarkName', userMarkStatus', m) = "none"
          BY <4>4, NAAssumption DEF PendingOf
        <4> QED
          BY <1>4, <2>3, <4>2, <4>5, <4>6
      <3>4. CASE userMarkName = m /\ ~userMarkStatus[m]
        <4>1. PendingOf(userMarkName, userMarkStatus, m) = "stop"
          BY <3>4 DEF PendingOf
        <4>2. /\ own # <<>>
              /\ NameInv(log', m, Append(Front(own), [own[Len(own)] EXCEPT !.endTick = Len(log) + 1]), "stop")
          BY <1>2, <3>1, <4>1, NopAfterStop
        <4>3. Moves
          BY <3>4, <4>2, NAAssumption
        <4>4. userMarkMap' = SetBack(m, [own[Len(own)] EXCEPT !.endTick = Len(log) + 1]) /\ userMarkName' = m
          BY <1>6, <1>7, <3>4, <4>3 DEF Back
        <4>5. userMarkMap'[m] = Append(Front(own), [own[Len(own)] EXCEPT !.endTick = Len(log) + 1])
          BY <1>1, <4>4, SetBackIs DEF BackIsSet
        <4>6. PendingOf(userMarkName', userMarkStatus', m) = "stop"
          BY <1>4, <3>4, <4>4 DEF PendingOf
        <4> QED
          BY <1>4, <2>3, <4>2, <4>5, <4>6
      <3> QED
        BY <3>2, <3>3, <3>4
    <2> QED
      BY <2>2, <2>3
  <1>11. NamesInv'
    BY <1>10 DEF NamesInv
  <1>12. MarkTypeOK'
    <2>1. userMarkStatus' \in [Names -> BOOLEAN]
      BY <1>1, <1>4 DEF MarkTypeOK
    <2> QED
      BY <1>2, <1>5, <1>9, <2>1 DEF MarkTypeOK
  <1>13. MarksAsLogged'
    BY <1>2 DEF MarksAsLogged
  <1> QED
    BY <1>5, <1>11, <1>12, <1>13 DEF MarkIInv, MarkInv
(* What is common to the two kinds of mark of a name m.                    *)
LEMMA MarkRead ==
    ASSUME MarkTypeOK, NamesInv, NEW m \in Names, NEW type \in {"START", "STOP"}, NEW adjust \in BOOLEAN,
           Extended(log, log', Mark(type, m, adjust)),
           userMarkName' \in {m, NA},
           \A m2 \in Names \ {m} : /\ userMarkMap'[m2] = userMarkMap[m2]
                                   /\ m2 \in invalidMarkName' <=> m2 \in invalidMarkName,
           invalidMarkName \subseteq invalidMarkName',
           \/ m \in invalidMarkName' /\ ~NestedIn(log', m)
           \/ m \in invalidMarkName
           \/ NameInv(log', m, userMarkMap'[m], PendingOf(userMarkName', userMarkStatus', m))
              /\ m \notin invalidMarkName'
    PROVE  NamesInv'
  <1> PICK line : line = Mark(type, m, adjust)
    OBVIOUS
  <1>1. line.type = type /\ line.name = m /\ line # Nop
    BY DEF Mark, Nop
  <1>2. \A m2 \in Names : ~NestedIn(log, m2) => ~NestedIn(log', m2)
    BY NestedGrows
  <1>3. ASSUME NEW m2 \in Names
        PROVE  IF m2 \in invalidMarkName' THEN ~NestedIn(log', m2)
               ELSE NameInv(log', m2, userMarkMap'[m2], PendingOf(userMarkName', userMarkStatus', m2))
    <2>1. CASE m2 \in invalidMarkName
      <3>1. ~NestedIn(log, m2)
        BY <2>1 DEF NamesInv
      <3> QED
        BY <1>2, <2>1, <3>1
    <2>2. CASE m2 \notin invalidMarkName /\ m2 = m
      BY <2>2
    <2>3. CASE m2 \notin invalidMarkName /\ m2 # m
      <3>1. NameInv(log, m2, userMarkMap[m2], PendingOf(userMarkName, userMarkStatus, m2))
        BY <2>3 DEF NamesInv
      <3>2. ~IsMark(line, "START", m2) /\ ~IsMark(line, "STOP", m2)
        BY <1>1, <2>3 DEF IsMark
      <3>3. NameInv(log', m2, userMarkMap[m2], "none")
        BY <1>1, <3>1, <3>2, NameKept
      <3>4. PendingOf(userMarkName', userMarkStatus', m2) = "none"
        BY <2>3, NAAssumption DEF PendingOf
      <3> QED
        BY <2>3, <3>3, <3>4
    <2> QED
      BY <2>1, <2>2, <2>3
  <1> QED
    BY <1>3 DEF NamesInv

LEMMA MarkIsLine ==
    ASSUME NEW type \in {"START", "STOP"}, NEW m \in Names, NEW adjust \in BOOLEAN
    PROVE  /\ Mark(type, m, adjust) \in MarkLines /\ Mark(type, m, adjust) \in LogLines
           /\ IsMark(Mark(type, m, adjust), type, m)
           /\ Mark(type, m, adjust).adjustWithNop = adjust
  BY DEF Mark, MarkLines, LogLines, IsMark

LEMMA AdjustIs ==
    ASSUME MarkTypeOK, NEW m \in Names, NEW adjust \in BOOLEAN, NEW isStart \in BOOLEAN,
           Adjust(m, adjust, isStart)
    PROVE  /\ userMarkName' \in {m, NA} /\ userMarkStatus' \in [Names -> BOOLEAN]
           /\ PendingOf(userMarkName', userMarkStatus', m)
                = IF adjust THEN IF isStart THEN "start" ELSE "stop" ELSE "none"
  <1>1. userMarkStatus \in [Names -> BOOLEAN]
    BY DEF MarkTypeOK
  <1>2. CASE adjust
    <2>1. userMarkName' = m /\ userMarkStatus' = [userMarkStatus EXCEPT ![m] = isStart]
      BY <1>2 DEF Adjust
    <2>2. userMarkStatus' \in [Names -> BOOLEAN] /\ userMarkStatus'[m] = isStart
      BY <1>1, <2>1
    <2> QED
      BY <1>2, <2>1, <2>2 DEF PendingOf
  <1>3. CASE ~adjust
    <2>1. userMarkName' = NA /\ userMarkStatus' = userMarkStatus
      BY <1>3 DEF Adjust
    <2> QED
      BY <1>1, <1>3, <2>1, NAAssumption DEF PendingOf
  <1> QED
    BY <1>2, <1>3

LEMMA StartStep ==
    ASSUME MarkIInv, NEW m \in Names, NEW adjust \in BOOLEAN, ReadStart(m, adjust)
    PROVE  MarkIInv'
  <1> PICK line : line = Mark("START", m, adjust)
    OBVIOUS
  <1>a. line \in MarkLines /\ line \in LogLines /\ IsMark(line, "START", m) /\ line.adjustWithNop = adjust
    BY MarkIsLine
  <1>1. MarkTypeOK /\ Read(line)
    BY DEF MarkIInv, ReadStart
  <1>2. /\ Extended(log, log', line) /\ Len(log) + 1 < Open
        /\ log' \in Seq(LogLines) /\ Len(log') <= MaxLines
        /\ ~disposed /\ ~disposed' /\ disposed' \in BOOLEAN
    BY <1>1, <1>a, ReadFacts
  <1>3. NamesInv /\ MergeInv
    BY <1>2 DEF MarkIInv, MarkInv
  <1>4. userMarkParseInfo' = Append(userMarkParseInfo, line)
    BY DEF ReadStart
  <1>5. MergeInv' /\ userMarkParseInfo' \in Seq(MarkLines)
    BY <1>a, <1>1, <1>2, <1>3, <1>4, MergeKept
  <1> PICK own : own = userMarkMap[m]
    OBVIOUS
  <1> PICK new : new = [startTick |-> Len(log) + 1, endTick |-> Open]
    OBVIOUS
  <1>6. /\ own \in Seq(Infos) /\ new \in Infos /\ Len(log) \in Nat /\ Len(log) < Open
        /\ userMarkMap \in [Names -> Seq(Infos)]
    <2>1. Open \in Nat
      BY MaxLinesAssumption DEF Open
    <2>2. new \in Infos
      BY <1>1, <2>1, LogFacts DEF Infos
    <2> QED
      BY <1>1, <2>2, LogFacts DEF MarkTypeOK
  <1> DEFINE Bad == own # <<>> /\ own[Len(own)].endTick = Open
  <1>7. /\ Bad => /\ invalidMarkName' = invalidMarkName \union {m} /\ userMarkName' = NA
                  /\ userMarkMap' = userMarkMap /\ userMarkStatus' = userMarkStatus
        /\ ~Bad => /\ userMarkMap' = [userMarkMap EXCEPT ![m] = Append(@, new)]
                   /\ Adjust(m, adjust, TRUE) /\ invalidMarkName' = invalidMarkName
    BY DEF ReadStart, Back, Tick
  <1>8. CASE Bad
    <2>1. m \in invalidMarkName \/ ~NestedIn(log', m)
      <3> SUFFICES ASSUME m \notin invalidMarkName PROVE ~NestedIn(log', m)
        OBVIOUS
      <3>1. NameInv(log, m, own, PendingOf(userMarkName, userMarkStatus, m))
        BY <1>3 DEF NamesInv
      <3>2. ~\A s \in MarksIn(log, "START", m) : \E e \in MarksIn(log, "STOP", m) : s < e
        BY <1>6, <1>8, <3>1, ClosedAfter
      <3> QED
        BY <1>a, <1>2, <3>2, NestedGrows
    <2>2. NamesInv'
      <3>1. /\ userMarkName' \in {m, NA} /\ m \in invalidMarkName' /\ invalidMarkName \subseteq invalidMarkName'
            /\ \A m2 \in Names \ {m} : /\ userMarkMap'[m2] = userMarkMap[m2]
                                       /\ m2 \in invalidMarkName' <=> m2 \in invalidMarkName
        BY <1>7, <1>8
      <3> QED
        BY <1>1, <1>2, <1>3, <2>1, <3>1, MarkRead
    <2>3. MarkTypeOK'
      BY <1>1, <1>2, <1>5, <1>7, <1>8 DEF MarkTypeOK
    <2>4. MarksAsLogged'
      BY <1>2 DEF MarksAsLogged
    <2> QED
      BY <1>5, <2>2, <2>3, <2>4 DEF MarkIInv, MarkInv
  <1>9. CASE ~Bad
    <2>1. userMarkMap' = [userMarkMap EXCEPT ![m] = Append(own, new)] /\ invalidMarkName' = invalidMarkName
          /\ Adjust(m, adjust, TRUE)
      BY <1>6, <1>7, <1>9
    <2>2. Append(own, new) \in Seq(Infos)
      BY <1>6
    <2> PICK longer : longer = Append(own, new)
      OBVIOUS
    <2>3. /\ userMarkMap' \in [Names -> Seq(Infos)] /\ userMarkMap'[m] = longer
          /\ \A m2 \in Names \ {m} : userMarkMap'[m2] = userMarkMap[m2]
      BY <1>6, <2>1, <2>2
    <2>4. /\ userMarkName' \in {m, NA} /\ userMarkStatus' \in [Names -> BOOLEAN]
          /\ PendingOf(userMarkName', userMarkStatus', m) = IF adjust THEN "start" ELSE "none"
      BY <1>1, <2>1, AdjustIs
    <2>5. m \in invalidMarkName \/ NameInv(log', m, userMarkMap'[m], PendingOf(userMarkName', userMarkStatus', m))
      <3> SUFFICES ASSUME m \notin invalidMarkName
                   PROVE  NameInv(log', m, longer, PendingOf(userMarkName', userMarkStatus', m))
        BY <2>3
      <3>1. NameInv(log, m, own, PendingOf(userMarkName, userMarkStatus, m))
        BY <1>3 DEF NamesInv
      <3> QED
        BY <1>a, <1>2, <1>9, <2>4, <3>1, StartRead
    <2>6. NamesInv'
      BY <1>1, <1>2, <1>3, <2>1, <2>3, <2>4, <2>5, MarkRead
    <2>7. MarkTypeOK'
      <3>1. userMarkName' \in Names \union {NA}
        BY <2>4
      <3> QED
        BY <1>2, <1>5, <2>3, <2>4, <3>1 DEF MarkTypeOK
    <2>8. MarksAsLogged'
      BY <1>2 DEF MarksAsLogged
    <2> QED
      BY <1>5, <2>6, <2>7, <2>8 DEF MarkIInv, MarkInv
  <1> QED
    BY <1>8, <1>9

LEMMA StopStep ==
    ASSUME MarkIInv, NEW m \in Names, NEW adjust \in BOOLEAN, ReadStop(m, adjust)
    PROVE  MarkIInv'
  <1> PICK line : line = Mark("STOP", m, adjust)
    OBVIOUS
  <1>a. line \in MarkLines /\ line \in LogLines /\ IsMark(line, "STOP", m) /\ line.adjustWithNop = adjust
    BY MarkIsLine
  <1>1. MarkTypeOK /\ Read(line)
    BY DEF MarkIInv, ReadStop
  <1>2. /\ Extended(log, log', line) /\ Len(log) + 1 < Open
        /\ log' \in Seq(LogLines) /\ Len(log') <= MaxLines
        /\ ~disposed /\ ~disposed' /\ disposed' \in BOOLEAN
    BY <1>1, <1>a, ReadFacts
  <1>3. NamesInv /\ MergeInv
    BY <1>2 DEF MarkIInv, MarkInv
  <1>4. userMarkParseInfo' = Append(userMarkParseInfo, line)
    BY DEF ReadStop
  <1>5. MergeInv' /\ userMarkParseInfo' \in Seq(MarkLines)
    BY <1>a, <1>1, <1>2, <1>3, <1>4, MergeKept
  <1> PICK own : own = userMarkMap[m]
    OBVIOUS
  <1>6. own \in Seq(Infos) /\ Len(log) \in Nat /\ userMarkMap \in [Names -> Seq(Infos)]
    BY <1>1, LogFacts DEF MarkTypeOK
  <1>7. /\ own = <<>> => /\ invalidMarkName' = invalidMarkName \union {m} /\ userMarkName' = NA
                         /\ userMarkMap' = userMarkMap /\ userMarkStatus' = userMarkStatus
        /\ own # <<>> => /\ userMarkMap' = SetBack(m, [Back(m) EXCEPT !.endTick = Len(log) + 1])
                         /\ Adjust(m, adjust, FALSE) /\ invalidMarkName' = invalidMarkName
    BY DEF ReadStop, Tick
  <1>8. CASE own = <<>>
    <2>1. m \in invalidMarkName \/ ~NestedIn(log', m)
      <3> SUFFICES ASSUME m \notin invalidMarkName PROVE ~NestedIn(log', m)
        OBVIOUS
      <3>1. NameInv(log, m, own, PendingOf(userMarkName, userMarkStatus, m))
        BY <1>3 DEF NamesInv
      <3>2. Cardinality(MarksIn(log, "START", m)) = 0
        BY <1>8, <3>1 DEF NameInv
      <3>3. IsFiniteSet(MarksIn(log, "START", m))
        <4>1. MarksIn(log, "START", m) \in SUBSET (1..Len(log))
          BY <1>2, MarksGrow
        <4> QED
          BY <1>6, <4>1, LinesFinite
      <3>4. MarksIn(log, "START", m) = {}
        BY <3>2, <3>3, FS_EmptySet
      <3> QED
        BY <1>a, <1>2, <3>4, NestedGrows
    <2>2. NamesInv'
      <3>1. /\ userMarkName' \in {m, NA} /\ m \in invalidMarkName' /\ invalidMarkName \subseteq invalidMarkName'
            /\ \A m2 \in Names \ {m} : /\ userMarkMap'[m2] = userMarkMap[m2]
                                       /\ m2 \in invalidMarkName' <=> m2 \in invalidMarkName
        BY <1>7, <1>8
      <3> QED
        BY <1>1, <1>2, <1>3, <2>1, <3>1, MarkRead
    <2>3. MarkTypeOK'
      BY <1>1, <1>2, <1>5, <1>7, <1>8 DEF MarkTypeOK
    <2>4. MarksAsLogged'
      BY <1>2 DEF MarksAsLogged
    <2> QED
      BY <1>5, <2>2, <2>3, <2>4 DEF MarkIInv, MarkInv
  <1>9. CASE own # <<>>
    <2> PICK new : new = [Back(m) EXCEPT !.endTick = Len(log) + 1]
      OBVIOUS
    <2>1. userMarkMap' = SetBack(m, new) /\ invalidMarkName' = invalidMarkName /\ Adjust(m, adjust, FALSE)
      BY <1>7, <1>9
    <2>2. new \in Infos
      <3>1. Back(m) \in Infos
        BY <1>1, <1>9, BackIs
      <3> QED
        BY <1>6, <3>1 DEF Infos
    <2>3. /\ userMarkMap' \in [Names -> Seq(Infos)] /\ userMarkMap'[m] = Append(Front(own), new)
          /\ \A m2 \in Names \ {m} : userMarkMap'[m2] = userMarkMap[m2]
      <3> PICK map : map = SetBack(m, new)
        OBVIOUS
      <3>1. BackIsSet(m, new)
        BY <1>1, SetBackIs, Zenon
      <3>2. /\ map[m] = Append(Front(own), new)
            /\ \A m2 \in Names : m2 # m => map[m2] = userMarkMap[m2]
            /\ own # <<>> => map \in [Names -> Seq(Infos)]
        BY <2>2, <3>1, Zenon DEF BackIsSet
      <3> QED
        BY <1>9, <2>1, <3>2, Zenon
    <2>4. /\ userMarkName' \in {m, NA} /\ userMarkStatus' \in [Names -> BOOLEAN]
          /\ PendingOf(userMarkName', userMarkStatus', m) = IF adjust THEN "stop" ELSE "none"
      BY <1>1, <2>1, AdjustIs
    <2>5. m \in invalidMarkName \/ NameInv(log', m, userMarkMap'[m], PendingOf(userMarkName', userMarkStatus', m))
      <3> SUFFICES ASSUME m \notin invalidMarkName
                   PROVE  NameInv(log', m, Append(Front(own), new), PendingOf(userMarkName', userMarkStatus', m))
        BY <2>3
      <3>1. NameInv(log, m, own, PendingOf(userMarkName, userMarkStatus, m))
        BY <1>3 DEF NamesInv
      <3>2. new = [own[Len(own)] EXCEPT !.endTick = Len(log) + 1]
        BY DEF Back
      <3>3. NameInv(log', m, Append(Front(own), [own[Len(own)] EXCEPT !.endTick = Len(log) + 1]),
                    PendingOf(userMarkName', userMarkStatus', m))
        BY <1>a, <1>2, <1>9, <2>4, <3>1, StopRead
      <3> QED
        BY <3>2, <3>3
    <2>6. NamesInv'
      BY <1>1, <1>2, <1>3, <2>1, <2>3, <2>4, <2>5, MarkRead
    <2>7. MarkTypeOK'
      <3>1. userMarkName' \in Names \union {NA}
        BY <2>4
      <3> QED
        BY <1>2, <1>5, <2>3, <2>4, <3>1 DEF MarkTypeOK
    <2>8. MarksAsLogged'
      BY <1>2 DEF MarksAsLogged
    <2> QED
      BY <1>5, <2>6, <2>7, <2>8 DEF MarkIInv, MarkInv
  <1> QED
    BY <1>8, <1>9
(* The start marks that get one of the intervals that remain are the ones  *)
(* of well nested names that have a stop.                                  *)
LEMMA TakenIsDrawn ==
    ASSUME MarkTypeOK, NamesInv
    PROVE  /\ DeleteUserMarkWithoutEnd \in [Names -> Seq(Infos)]
           /\ Taken(log, DeleteUserMarkWithoutEnd)
                = {s \in Starts : WellNested(log[s].name) /\ StopsOf(s) # {}}
           /\ \A s \in Taken(log, DeleteUserMarkWithoutEnd) :
                  InstrOf(log, DeleteUserMarkWithoutEnd, s) = Interval(s)
  <1> PICK n : n = Len(log)
    OBVIOUS
  <1> PICK kept : kept = DeleteUserMarkWithoutEnd
    OBVIOUS
  <1>1. /\ DOMAIN log = 1..n /\ n \in Nat /\ n < Open
        /\ \A t \in 1..n : log[t].type \in {"START", "STOP"} => log[t].name \in Names
    BY LogFacts
  <1>2. kept = [m \in Names |-> IF m \in invalidMarkName THEN <<>> ELSE WithEnd(userMarkMap[m])]
    BY DEF DeleteUserMarkWithoutEnd
  <1>3. ASSUME NEW m \in Names, m \notin invalidMarkName
        PROVE  /\ NameInv(log, m, userMarkMap[m], PendingOf(userMarkName, userMarkStatus, m))
               /\ userMarkMap[m] \in Seq(Infos) /\ kept[m] \in Seq(Infos)
               /\ Len(kept[m]) = IF userMarkMap[m] # <<>> /\ userMarkMap[m][Len(userMarkMap[m])].endTick = Open
                                 THEN Len(userMarkMap[m]) - 1 ELSE Len(userMarkMap[m])
               /\ \A k \in 1..Len(kept[m]) : kept[m][k] = userMarkMap[m][k]
    <2> PICK own : own = userMarkMap[m]
      OBVIOUS
    <2>1. NameInv(log, m, own, PendingOf(userMarkName, userMarkStatus, m))
      BY <1>3 DEF NamesInv
    <2>2. own \in Seq(Infos) /\ \A k \in 1..Len(own) : own[k].endTick = Open => k = Len(own)
      BY <2>1 DEF NameInv
    <2>3. kept[m] = WithEnd(own)
      BY <1>2, <1>3
    <2>4. /\ WithEnd(own) \in Seq(Infos)
          /\ Len(WithEnd(own)) = IF own # <<>> /\ own[Len(own)].endTick = Open THEN Len(own) - 1 ELSE Len(own)
          /\ \A k \in 1..Len(WithEnd(own)) : WithEnd(own)[k] = own[k]
      BY <2>2, WithEndIs
    <2> QED
      BY <2>1, <2>2, <2>3, <2>4, Zenon
  <1>4. \A m \in Names : m \in invalidMarkName => kept[m] = <<>>
    BY <1>2
  <1>5. kept \in [Names -> Seq(Infos)]
    <2>1. ASSUME NEW m \in Names PROVE kept[m] \in Seq(Infos)
      <3>1. <<>> \in Seq(Infos)
        OBVIOUS
      <3> QED
        BY <1>3, <1>4, <3>1, Zenon
    <2>2. kept = [m \in Names |-> kept[m]]
      BY <1>2
    <2> QED
      BY <2>1, <2>2, Zenon
  <1>6. ASSUME NEW s \in 1..n, log[s].type = "START"
        PROVE  /\ s \in Taken(log, kept) <=> NestedIn(log, log[s].name) /\ StopsIn(log, log[s].name, s) # {}
               /\ s \in Taken(log, kept) => InstrOf(log, kept, s) = Interval(s)
    <2> PICK m : m = log[s].name
      OBVIOUS
    <2> PICK S : S = MarksIn(log, "START", m)
      OBVIOUS
    <2> PICK own : own = userMarkMap[m]
      OBVIOUS
    <2> PICK r : r = Rank(S, s)
      OBVIOUS
    <2>0. m \in Names
      BY <1>1, <1>6
    <2>1. S \in SUBSET (1..n) /\ s \in S
      BY <1>6 DEF MarksIn
    <2>2. r \in 1..Cardinality(S) /\ Cardinality(S) \in Nat
      BY <1>1, <2>1, RankFacts, LinesFinite
    <2>3. s \in Taken(log, kept) <=> r <= Len(kept[m])
      BY <1>6 DEF Taken
    <2>4. CASE m \in invalidMarkName
      <3>1. ~NestedIn(log, m)
        BY <2>0, <2>4 DEF NamesInv
      <3>2. Len(kept[m]) = 0
        BY <1>4, <2>0, <2>4
      <3>3. ~(r <= Len(kept[m]))
        BY <2>2, <3>2
      <3> QED
        BY <2>3, <3>1, <3>3
    <2>5. CASE m \notin invalidMarkName
      <3>1. /\ NameInv(log, m, own, PendingOf(userMarkName, userMarkStatus, m))
            /\ own \in Seq(Infos)
            /\ Len(kept[m]) = IF own # <<>> /\ own[Len(own)].endTick = Open THEN Len(own) - 1 ELSE Len(own)
            /\ \A k \in 1..Len(kept[m]) : kept[m][k] = own[k]
        BY <1>3, <2>0, <2>5
      <3>2. /\ NestedIn(log, m) /\ Len(own) = Cardinality(S)
            /\ \A k \in 1..Len(own) : own[k].endTick = Open => k = Len(own)
            /\ StartsAt(log, s, own[r].startTick) /\ EndsAt(log, m, s, own[r].endTick)
        BY <2>1, <3>1 DEF NameInv
      <3>3. StopsIn(log, m, s) # {} <=> own[r].endTick # Open
        <4>1. ASSUME StopsIn(log, m, s) # {} PROVE own[r].endTick # Open
          <5>1. own[r].endTick \in 1..n
            BY <1>1, <3>2, <4>1, EndIsTick
          <5> QED
            BY <1>1, <5>1
        <4>2. ASSUME StopsIn(log, m, s) = {} PROVE own[r].endTick = Open
          BY <3>2, <4>2 DEF EndsAt
        <4> QED
          BY <4>1, <4>2
      <3>4. r <= Len(kept[m]) <=> own[r].endTick # Open
        <4>1. own # <<>> /\ Len(own) \in Nat /\ r \in 1..Len(own)
          BY <2>2, <3>2
        <4>2. CASE own[Len(own)].endTick = Open
          <5>1. Len(kept[m]) = Len(own) - 1
            BY <3>1, <4>1, <4>2
          <5>2. r <= Len(own) - 1 <=> r # Len(own)
            BY <4>1
          <5> QED
            BY <3>2, <4>1, <4>2, <5>1, <5>2
        <4>3. CASE own[Len(own)].endTick # Open
          <5>1. Len(kept[m]) = Len(own)
            BY <3>1, <4>1, <4>3
          <5> QED
            BY <3>2, <4>1, <4>3, <5>1
        <4> QED
          BY <4>2, <4>3
      <3>5. ASSUME r <= Len(kept[m]) PROVE InstrOf(log, kept, s) = Interval(s)
        <4>1. kept[m][r] = own[r]
          <5>1. r \in 1..Len(kept[m])
            <6>1. Len(kept[m]) \in Nat
              BY <1>3, <2>0, <2>5, SeqIsFunction, Zenon
            <6> QED
              BY <2>2, <3>5, <6>1
          <5> QED
            BY <3>1, <5>1
        <4>2. Interval(s) = [name |-> m, startTick |-> own[r].startTick, endTick |-> own[r].endTick]
          <5> PICK from : from = own[r].startTick
            OBVIOUS
          <5> PICK to : to = own[r].endTick
            OBVIOUS
          <5>1. /\ s \in 1..Len(log) /\ StopsIn(log, log[s].name, s) # {}
                /\ StartsAt(log, s, from) /\ EndsAt(log, log[s].name, s, to)
            BY <3>2, <3>3, <3>4, <3>5
          <5>2. DOMAIN log = 1..Len(log) /\ Len(log) \in Nat
            BY <1>1
          <5>3. Interval(s) = [name |-> log[s].name, startTick |-> from, endTick |-> to]
            <6>1. \A s1 \in 1..Len(log) : \A from1, to1 :
                      StopsIn(log, log[s1].name, s1) # {} /\ StartsAt(log, s1, from1)
                        /\ EndsAt(log, log[s1].name, s1, to1)
                      => Interval(s1) = [name |-> log[s1].name, startTick |-> from1, endTick |-> to1]
              BY <5>2, IntervalIs, Zenon
            <6>2. StopsIn(log, log[s].name, s) # {}
              BY <5>1
            <6>3. StartsAt(log, s, from) /\ EndsAt(log, log[s].name, s, to) /\ s \in 1..Len(log)
              BY <5>1
            <6>4. \A from1, to1 : StartsAt(log, s, from1) /\ EndsAt(log, log[s].name, s, to1)
                      => Interval(s) = [name |-> log[s].name, startTick |-> from1, endTick |-> to1]
              BY <6>1, <6>2, <6>3, Zenon
            <6> QED
              BY <6>3, <6>4, Zenon
          <5> QED
            BY <5>3
        <4>3. kept[log[s].name][Rank(MarksIn(log, "START", log[s].name), s)] = own[r]
          BY <4>1
        <4>4. InstrOf(log, kept, s) = [name |-> m, startTick |-> own[r].startTick, endTick |-> own[r].endTick]
          BY <4>3, Zenon DEF InstrOf
        <4> QED
          BY <4>2, <4>4
      <3> QED
        BY <2>3, <3>2, <3>3, <3>4, <3>5
    <2> QED
      BY <2>4, <2>5
  <1>7. \A s : s \in Taken(log, kept) => s \in 1..n /\ log[s].type = "START"
    BY DEF Taken
  <1>8. /\ \A m : WellNested(m) <=> NestedIn(log, m)
        /\ \A s : StopsOf(s) = StopsIn(log, log[s].name, s)
        /\ \A s : s \in Starts <=> s \in 1..n /\ log[s].type = "START"
    <2>1. Starts = {s \in 1..n : log[s].type = "START"}
      BY <1>1, LogOperators
    <2> QED
      BY <1>1, <2>1, LogOperators
  <1>9. \A s : s \in Taken(log, kept) <=> s \in {x \in Starts : WellNested(log[x].name) /\ StopsOf(x) # {}}
    BY <1>6, <1>7, <1>8, Zenon
  <1>10. Taken(log, kept) = {x \in Starts : WellNested(log[x].name) /\ StopsOf(x) # {}}
    BY <1>9, Zenon
  <1> QED
    BY <1>5, <1>6, <1>7, <1>10, Zenon

LEMMA DisposeStep ==
    ASSUME MarkIInv, DisposeUserMark
    PROVE  MarkIInv'
  <1> PICK kept : kept = DeleteUserMarkWithoutEnd
    OBVIOUS
  <1>1. /\ ~disposed /\ disposed' = TRUE /\ userMarkMap' = kept /\ log' = log
        /\ invalidMarkName' = invalidMarkName /\ userMarkName' = userMarkName
        /\ userMarkStatus' = userMarkStatus /\ userMarkParseInfo' = userMarkParseInfo
    BY DEF DisposeUserMark
  <1>2. userMarkInstr' = MergeOf(kept, userMarkParseInfo).instrs
    <2>1. userMarkInstr' = MergeUserMark(kept).instrs
      BY DEF DisposeUserMark
    <2>2. MergeUserMark(kept) = MergeOf(kept, userMarkParseInfo)
      BY Zenon DEF MergeUserMark, MergeOf
    <2> QED
      BY <2>1, <2>2
  <1>3. MarkTypeOK /\ NamesInv /\ MergeInv
    BY <1>1 DEF MarkIInv, MarkInv
  <1>4. /\ kept \in [Names -> Seq(Infos)]
        /\ Taken(log, kept) = {s \in Starts : WellNested(log[s].name) /\ StopsOf(s) # {}}
        /\ \A s \in Taken(log, kept) : InstrOf(log, kept, s) = Interval(s)
    BY <1>3, TakenIsDrawn
  <1>5. MergedAs(log, kept, MergeOf(kept, userMarkParseInfo))
    BY <1>3, <1>4 DEF MergeInv
  <1>6. /\ Len(userMarkInstr') = Cardinality(Taken(log, kept))
        /\ \A s \in Taken(log, kept) : userMarkInstr'[Rank(Taken(log, kept), s)] = InstrOf(log, kept, s)
    BY <1>2, <1>5 DEF MergedAs
  <1> PICK drawn : drawn = {s \in Starts : WellNested(log[s].name) /\ StopsOf(s) # {}}
    OBVIOUS
  <1>7. /\ Len(userMarkInstr') = Cardinality(drawn)
        /\ \A s \in drawn : userMarkInstr'[Cardinality({r \in drawn : r <= s})] = Interval(s)
    BY <1>4, <1>6 DEF Rank
  <1>8. MarksAsLogged'
    <2>1. {s \in Starts : WellNested(log[s].name) /\ StopsOf(s) # {}}' = drawn
      BY <1>1 DEF Starts, WellNested, StopsOf, LinesOf
    <2>2. \A s : Interval(s)' = Interval(s)
      BY <1>1 DEF Interval, StopsOf, LinesOf, NopsAfter
    <2> QED
      BY <1>7, <2>1, <2>2 DEF MarksAsLogged
  <1>9. MarkTypeOK'
    BY <1>1, <1>3, <1>4 DEF MarkTypeOK
  <1> QED
    BY <1>1, <1>8, <1>9 DEF MarkIInv, MarkInv

LEMMA MarksStutter ==
    ASSUME MarkIInv, UNCHANGED markVars
    PROVE  MarkIInv'
  <1>1. /\ log' = log /\ userMarkMap' = userMarkMap /\ invalidMarkName' = invalidMarkName
        /\ userMarkName' = userMarkName /\ userMarkStatus' = userMarkStatus
        /\ userMarkParseInfo' = userMarkParseInfo /\ userMarkInstr' = userMarkInstr /\ disposed' = disposed
    BY DEF markVars
  <1>2. MarkTypeOK'
    BY <1>1 DEF MarkIInv, MarkTypeOK
  <1>3. MarkInv'
    BY <1>1 DEF MarkIInv, MarkInv, NamesInv, MergeInv
  <1>4. MarksAsLogged'
    <2>1. Starts' = Starts /\ \A m : WellNested(m)' <=> WellNested(m)
      BY <1>1 DEF Starts, WellNested, LinesOf
    <2>2. \A s : StopsOf(s)' = StopsOf(s) /\ Interval(s)' = Interval(s)
      BY <1>1 DEF StopsOf, LinesOf, Interval, NopsAfter
    <2> QED
      BY <1>1, <2>1, <2>2 DEF MarkIInv, MarksAsLogged
  <1> QED
    BY <1>2, <1>3, <1>4 DEF MarkIInv

(* The variables of the mark parser have their types.                      *)
THEOREM MarkTypeCorrect == MarkSpec => []MarkTypeOK
  <1>1. MarkIInv /\ [MarkNext]_markVars => MarkIInv'
    <2> SUFFICES ASSUME MarkIInv, [MarkNext]_markVars PROVE MarkIInv'
      OBVIOUS
    <2> QED
      BY OtherStep, NopStep, StartStep, StopStep, DisposeStep, MarksStutter DEF MarkNext
  <1>2. MarkIInv => MarkTypeOK
    BY DEF MarkIInv
  <1> QED
    BY <1>1, <1>2, MarkInitOK, PTL DEF MarkSpec

(* The intervals that are drawn are the ones the log describes, in the     *)
(* order of their starts, for every log of every length and every set of   *)
(* names: whatever lines come between, the pending name, the open interval *)
(* and the count of starts lead back to the right mark.                    *)
THEOREM MarksCorrect == MarkSpec => []MarksAsLogged
  <1>1. MarkIInv /\ [MarkNext]_markVars => MarkIInv'
    <2> SUFFICES ASSUME MarkIInv, [MarkNext]_markVars PROVE MarkIInv'
      OBVIOUS
    <2> QED
      BY OtherStep, NopStep, StartStep, StopStep, DisposeStep, MarksStutter DEF MarkNext
  <1>2. MarkIInv => MarksAsLogged
    BY DEF MarkIInv
  <1> QED
    BY <1>1, <1>2, MarkInitOK, PTL DEF MarkSpec
=============================================================================
