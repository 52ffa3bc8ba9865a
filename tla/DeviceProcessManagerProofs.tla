---------------------- MODULE DeviceProcessManagerProofs ----------------------
(***************************************************************************)
(* Proved for every number of clients, devices, kernel names, launches and *)
(* rounds: the kernels profiled are those the options select, a process    *)
(* that was told to terminate is complete, and no directory is handed out  *)
(* twice in a round, as long as the running number of a device is wide     *)
(* enough for what its clients may profile together (NumbersAssumption).   *)
(*                                                                         *)
(* The running number is local to a device and a name, what bounds it is   *)
(* counted by client: the argument counts, for a device d and a name n,    *)
(* the pairs <<client, position>> of the grants for n (Holders).  There    *)
(* are at most Cardinality(Clients) * ProfMaxTimes of them, and the        *)
(* numbers handed out are below their count.                               *)
(***************************************************************************)
EXTENDS DeviceProcessManager, SequenceTheorems, FiniteSetTheorems, TLAPS

Slots == Clients \X (1..ProfMaxTimes)

IsGrantFor(d, n, s) ==
    /\ s[2] \in DOMAIN grants[s[1]][d]
    /\ grants[s[1]][d][s[2]].name = n

Holders(d, n) == {s \in Slots : IsGrantFor(d, n, s)}

(* Every directory a client got counts against its quota. *)
GrantsCounted ==
    \A c \in Clients, d \in Devices : Len(grants[c][d]) = profed[c][d]

(* The running number counts the holders, modulo the width of uint16_t. *)
RunningCounts ==
    \A d \in Devices, n \in Names :
        running[d][n] = Cardinality(Holders(d, n)) % CounterMod

(* Numbers already handed out are below the number of holders. *)
NumbersBelow ==
    \A d \in Devices, n \in Names : \A s \in Holders(d, n) :
        grants[s[1]][d][s[2]].num < Cardinality(Holders(d, n))

(* Two holders have different numbers: PathsUnique, told of slots. *)
NumbersDiffer ==
    \A d \in Devices, n \in Names : \A s, t \in Holders(d, n) :
        grants[s[1]][d][s[2]].num = grants[t[1]][d][t[2]].num => s = t

(* A client that was told to terminate has used up its quota. *)
ToldHasNoQuota == \A p \in told : profed[p[1]][p[2]] = ProfMaxTimes

IInv ==
    /\ TypeOK
    /\ GrantsCounted
    /\ RunningCounts
    /\ NumbersBelow
    /\ NumbersDiffer
    /\ ToldHasNoQuota

-----------------------------------------------------------------------------
(* There are no more slots than running numbers. *)
LEMMA SlotsFit ==
    /\ IsFiniteSet(Slots)
    /\ Cardinality(Slots) \in Nat
    /\ Cardinality(Slots) <= CounterMod
<1>1. IsFiniteSet(1..ProfMaxTimes) /\ Cardinality(1..ProfMaxTimes) = ProfMaxTimes
  BY FS_Interval, ConfigAssumption
<1>2. IsFiniteSet(Slots) /\ Cardinality(Slots) = Cardinality(Clients) * ProfMaxTimes
  BY <1>1, FS_Product, ConfigAssumption DEF Slots
<1> QED
  BY <1>2, NumbersAssumption, FS_CardinalityType

(* The holders of a name are slots, so they are finitely many. *)
LEMMA HoldersFinite ==
    ASSUME NEW d, NEW n
    PROVE  IsFiniteSet(Holders(d, n)) /\ Cardinality(Holders(d, n)) \in Nat
BY SlotsFit, FS_Subset, FS_CardinalityType DEF Holders

(* With a slot to spare the running number is the count of the holders:    *)
(* GetOutputPath has not wrapped.                                          *)
LEMMA NotWrapped ==
    ASSUME NEW d, NEW n, NEW s \in Slots, s \notin Holders(d, n)
    PROVE  /\ Cardinality(Holders(d, n)) < CounterMod
           /\ Cardinality(Holders(d, n) \cup {s}) = Cardinality(Holders(d, n)) + 1
<1>1. Cardinality(Holders(d, n) \cup {s}) = Cardinality(Holders(d, n)) + 1
  BY HoldersFinite, FS_AddElement
<1>2. Cardinality(Holders(d, n) \cup {s}) <= Cardinality(Slots)
  <2>1. Holders(d, n) \cup {s} \in SUBSET Slots
    BY DEF Holders
  <2> QED
    BY <2>1, SlotsFit, FS_Subset
<1> QED
  BY <1>1, <1>2, SlotsFit, HoldersFinite, ConfigAssumption

(* What Append does to a sequence of directories or names. *)
LEMMA Appended ==
    ASSUME NEW S, NEW q \in Seq(S), NEW e \in S
    PROVE  /\ Append(q, e) \in Seq(S)
           /\ Len(q) \in Nat
           /\ Len(Append(q, e)) = Len(q) + 1
           /\ DOMAIN q = 1..Len(q)
           /\ DOMAIN Append(q, e) = 1..(Len(q) + 1)
           /\ \A i \in 1..Len(q) : Append(q, e)[i] = q[i]
           /\ Append(q, e)[Len(q) + 1] = e
BY AppendProperties, LenProperties

(* A number that fits is not wrapped. *)
LEMMA SmallModulo ==
    ASSUME NEW m \in Nat \ {0}, NEW k \in Nat, k < m
    PROVE  k % m = k
OBVIOUS

-----------------------------------------------------------------------------
(* A fresh start has no holder. *)
LEMMA FreshHolders ==
    ASSUME grants = PerClient(<<>>)
    PROVE  \A d \in Devices, n \in Names : Holders(d, n) = {}
BY DEF PerClient, Holders, IsGrantFor, Slots

LEMMA Fresh ==
    ASSUME skiped = PerClient(0), profed = PerClient(0), running = Unnumbered,
           launches = PerClient(<<>>), grants = PerClient(<<>>), told = {},
           round \in 0..MaxRounds
    PROVE  IInv
<1>1. TypeOK
  <2>1. <<>> \in Seq(Names) /\ <<>> \in Seq(Path)
    BY EmptySeq
  <2> QED
    BY <2>1, ConfigAssumption DEF TypeOK, PerClient, Unnumbered
<1>2. GrantsCounted
  BY EmptySeq DEF GrantsCounted, PerClient
<1>3. RunningCounts
  <2>1. Cardinality({}) = 0
    BY FS_EmptySet
  <2>2. 0 % CounterMod = 0
    BY ConfigAssumption
  <2> QED
    BY <2>1, <2>2, FreshHolders DEF RunningCounts, Unnumbered
<1>4. NumbersBelow /\ NumbersDiffer
  BY FreshHolders DEF NumbersBelow, NumbersDiffer
<1>5. ToldHasNoQuota
  BY DEF ToldHasNoQuota
<1> QED
  BY <1>1, <1>2, <1>3, <1>4, <1>5 DEF IInv

LEMMA InitIInv == Init => IInv
BY Fresh, ConfigAssumption DEF Init

-----------------------------------------------------------------------------
(* A kernel that gets no directory leaves the numbering alone. *)
LEMMA UnnumberedStep ==
    ASSUME IInv, TypeOK', UNCHANGED <<profed, running, grants>>, ToldHasNoQuota'
    PROVE  IInv'
<1>1. \A d, n : Holders(d, n)' = Holders(d, n)
  BY DEF Holders, IsGrantFor
<1> QED
  BY <1>1 DEF IInv, GrantsCounted, RunningCounts, NumbersBelow, NumbersDiffer

(* A kernel that gets a directory. *)
LEMMA GrantStep ==
    ASSUME IInv, NEW c \in Clients, NEW d \in Devices, NEW n \in Names,
           GrantPath(c, d, n)
    PROVE  IInv'
<1> USE DEF IInv
<1> DEFINE q == grants[c][d]
           e == [name |-> n, num |-> running[d][n]]
           slot == <<c, profed[c][d] + 1>>
           count(b, m) == Cardinality(Holders(b, m))
<1>1. /\ q \in Seq(Path)
      /\ e \in Path
      /\ profed[c][d] \in Nat
      /\ profed[c][d] + 1 <= ProfMaxTimes
      /\ Len(q) = profed[c][d]
      /\ ProfMaxTimes \in Nat
      /\ CounterMod \in Nat \ {0}
      /\ running[d][n] \in 0..(CounterMod - 1)
  <2>1. /\ q \in Seq(Path)
        /\ profed[c][d] \in 0..ProfMaxTimes
        /\ running[d][n] \in 0..(CounterMod - 1)
    BY DEF TypeOK
  <2>2. profed[c][d] < ProfMaxTimes
    BY DEF GrantPath, QuotaLeft
  <2>3. e \in Path
    BY <2>1 DEF Path
  <2>4. Len(q) = profed[c][d]
    BY DEF GrantsCounted
  <2> QED
    BY <2>1, <2>2, <2>3, <2>4, ConfigAssumption
<1>2. /\ \A b \in Clients, a \in Devices :
            grants'[b][a] = IF b = c /\ a = d THEN Append(q, e) ELSE grants[b][a]
      /\ \A a \in Devices, m \in Names :
            running'[a][m] = IF a = d /\ m = n THEN (running[d][n] + 1) % CounterMod
                             ELSE running[a][m]
      /\ \A b \in Clients, a \in Devices :
            profed'[b][a] = IF b = c /\ a = d THEN profed[c][d] + 1 ELSE profed[b][a]
  BY DEF GrantPath, TypeOK
<1>3. /\ Append(q, e) \in Seq(Path)
      /\ Len(Append(q, e)) = profed[c][d] + 1
      /\ DOMAIN q = 1..profed[c][d]
      /\ DOMAIN Append(q, e) = 1..(profed[c][d] + 1)
      /\ \A i \in DOMAIN q : Append(q, e)[i] = q[i]
      /\ Append(q, e)[profed[c][d] + 1] = e
  <2> HIDE DEF q, e
  <2>1. /\ Append(q, e) \in Seq(Path)
        /\ Len(Append(q, e)) = Len(q) + 1
        /\ DOMAIN q = 1..Len(q)
        /\ DOMAIN Append(q, e) = 1..(Len(q) + 1)
        /\ \A i \in 1..Len(q) : Append(q, e)[i] = q[i]
        /\ Append(q, e)[Len(q) + 1] = e
    BY <1>1, Appended
  <2> QED
    BY <1>1, <2>1
<1>4. slot \in Slots /\ \A m : slot \notin Holders(d, m)
  BY <1>1, <1>3 DEF Slots, Holders, IsGrantFor
<1>5. \A a \in Devices, m \in Names :
         Holders(a, m)' = IF a = d /\ m = n THEN Holders(d, n) \cup {slot}
                          ELSE Holders(a, m)
  <2> SUFFICES ASSUME NEW a \in Devices, NEW m \in Names, NEW s \in Slots
               PROVE  IsGrantFor(a, m, s)' <=> \/ IsGrantFor(a, m, s)
                                               \/ a = d /\ m = n /\ s = slot
    BY <1>4 DEF Holders, Slots
  <2>0. PICK b \in Clients, i \in 1..ProfMaxTimes : s = <<b, i>>
    BY DEF Slots
  <2>1. CASE a = d /\ b = c
    <3>1. IsGrantFor(a, m, s) <=> i \in DOMAIN q /\ q[i].name = m
      BY <2>0, <2>1 DEF IsGrantFor
    <3>2. IsGrantFor(a, m, s)' <=> i \in DOMAIN Append(q, e) /\ Append(q, e)[i].name = m
      BY <1>2, <2>0, <2>1 DEF IsGrantFor
    <3>3. i \in DOMAIN Append(q, e) <=> i \in DOMAIN q \/ i = profed[c][d] + 1
      <4> HIDE DEF q, e
      <4> QED
        BY <1>1, <1>3
    <3>4. profed[c][d] + 1 \notin DOMAIN q
      BY <1>1, <1>3
    <3>5. e.name = n
      OBVIOUS
    <3>6. s = slot <=> i = profed[c][d] + 1
      BY <2>0, <2>1
    <3> HIDE DEF q, e, slot
    <3> QED
      BY <1>3, <2>1, <3>1, <3>2, <3>3, <3>4, <3>5, <3>6
  <2>2. CASE ~(a = d /\ b = c)
    <3>1. grants'[b][a] = grants[b][a]
      BY <1>2, <2>2
    <3>2. ~(a = d /\ s = slot)
      BY <2>0, <2>2
    <3> QED
      BY <2>0, <3>1, <3>2 DEF IsGrantFor
  <2> QED
    BY <2>1, <2>2
<1>6. /\ count(d, n) \in Nat
      /\ count(d, n) < CounterMod
      /\ Cardinality(Holders(d, n)') = count(d, n) + 1
      /\ running[d][n] = count(d, n)
  <2>1. count(d, n) \in Nat /\ count(d, n) < CounterMod
    BY <1>4, NotWrapped, HoldersFinite
  <2>2. Cardinality(Holders(d, n)') = count(d, n) + 1
    BY <1>4, <1>5, NotWrapped
  <2>3. count(d, n) % CounterMod = count(d, n)
    <3> HIDE DEF count
    <3> QED
      BY <2>1, <1>1, SmallModulo
  <2> QED
    BY <2>1, <2>2, <2>3 DEF RunningCounts
<1>7. \A a \in Devices, m \in Names : \A s \in Holders(a, m) :
         grants'[s[1]][a][s[2]] = grants[s[1]][a][s[2]]
  <2> SUFFICES ASSUME NEW a \in Devices, NEW m \in Names, NEW s \in Holders(a, m)
               PROVE  grants'[s[1]][a][s[2]] = grants[s[1]][a][s[2]]
    OBVIOUS
  <2>1. s[1] \in Clients /\ s[2] \in DOMAIN grants[s[1]][a]
    BY DEF Holders, IsGrantFor, Slots
  <2>2. CASE a = d /\ s[1] = c
    <3>1. grants'[s[1]][a] = Append(q, e) /\ s[2] \in DOMAIN q
      BY <1>2, <2>1, <2>2
    <3> QED
      BY <1>3, <2>2, <3>1
  <2>3. CASE ~(a = d /\ s[1] = c)
    BY <1>2, <2>1, <2>3
  <2> QED
    BY <2>2, <2>3
<1>8. grants'[slot[1]][d][slot[2]].num = count(d, n)
  <2>1. grants'[c][d][profed[c][d] + 1] = e
    BY <1>2, <1>3
  <2>2. e.num = running[d][n]
    OBVIOUS
  <2> QED
    BY <1>6, <2>1, <2>2
<1>n. \A a \in Devices, m \in Names : \A s \in Holders(a, m) :
         grants[s[1]][a][s[2]].num \in Nat
  <2> SUFFICES ASSUME NEW a \in Devices, NEW m \in Names, NEW s \in Holders(a, m)
               PROVE  grants[s[1]][a][s[2]].num \in Nat
    OBVIOUS
  <2>1. s[1] \in Clients /\ s[2] \in DOMAIN grants[s[1]][a]
    BY DEF Holders, IsGrantFor, Slots
  <2>2. grants[s[1]][a] \in Seq(Path)
    BY <2>1 DEF TypeOK
  <2>3. grants[s[1]][a][s[2]] \in Path
    BY <2>1, <2>2, LenProperties, ElementOfSeq
  <2> QED
    BY <1>1, <2>3 DEF Path
<1>9. TypeOK'
  <2>1. launches' \in [Clients -> [Devices -> Seq(Names)]]
    <3>1. Append(launches[c][d], n) \in Seq(Names)
      BY Appended DEF TypeOK
    <3> QED
      BY <3>1 DEF GrantPath, Announce, TypeOK
  <2>2. grants' \in [Clients -> [Devices -> Seq(Path)]]
    BY <1>3 DEF GrantPath, TypeOK
  <2>3. running' \in [Devices -> [Names -> 0..(CounterMod - 1)]]
    <3>1. (running[d][n] + 1) % CounterMod \in 0..(CounterMod - 1)
      BY <1>1 DEF TypeOK
    <3> QED
      BY <3>1 DEF GrantPath, TypeOK
  <2>4. profed' \in [Clients -> [Devices -> 0..ProfMaxTimes]]
    BY <1>1 DEF GrantPath, TypeOK
  <2> QED
    BY <2>1, <2>2, <2>3, <2>4 DEF GrantPath, TypeOK
<1>10. GrantsCounted'
  <2> SUFFICES ASSUME NEW b \in Clients, NEW a \in Devices
               PROVE  Len(grants'[b][a]) = profed'[b][a]
    BY DEF GrantsCounted
  <2>1. CASE b = c /\ a = d
    <3>1. grants'[b][a] = Append(q, e) /\ profed'[b][a] = profed[c][d] + 1
      BY <1>2, <2>1
    <3> QED
      BY <1>3, <3>1
  <2>2. CASE ~(b = c /\ a = d)
    BY <1>2, <2>2 DEF GrantsCounted
  <2> QED
    BY <2>1, <2>2
<1>11. RunningCounts'
  <2>1. (running[d][n] + 1) % CounterMod = Cardinality(Holders(d, n)') % CounterMod
    BY <1>6
  <2> QED
    BY <1>2, <1>5, <2>1 DEF RunningCounts
<1>12. NumbersBelow'
  <2> SUFFICES ASSUME NEW a \in Devices, NEW m \in Names, NEW s \in Holders(a, m)'
               PROVE  grants'[s[1]][a][s[2]].num < Cardinality(Holders(a, m)')
    BY DEF NumbersBelow
  <2>1. CASE ~(a = d /\ m = n)
    BY <1>5, <1>7, <2>1 DEF NumbersBelow
  <2>2. CASE a = d /\ m = n /\ s = slot
    BY <1>6, <1>8, <2>2
  <2>3. CASE a = d /\ m = n /\ s # slot
    <3>1. s \in Holders(d, n)
      BY <1>5, <2>3
    <3>2. grants[s[1]][d][s[2]].num < count(d, n)
      BY <3>1 DEF NumbersBelow
    <3>3. grants[s[1]][d][s[2]].num \in Nat
      BY <1>n, <3>1
    <3> QED
      BY <1>6, <1>7, <2>3, <3>1, <3>2, <3>3
  <2> QED
    BY <2>1, <2>2, <2>3
<1>13. NumbersDiffer'
  <2> SUFFICES ASSUME NEW a \in Devices, NEW m \in Names,
                      NEW s \in Holders(a, m)', NEW t \in Holders(a, m)',
                      grants'[s[1]][a][s[2]].num = grants'[t[1]][a][t[2]].num
               PROVE  s = t
    BY DEF NumbersDiffer
  <2>1. CASE ~(a = d /\ m = n)
    <3>1. s \in Holders(a, m) /\ t \in Holders(a, m)
      BY <1>5, <2>1
    <3> HIDE DEF slot, count
    <3> QED
      BY <1>7, <3>1 DEF NumbersDiffer
  <2>2. ASSUME a = d, m = n, NEW u \in Holders(d, n)
        PROVE  grants'[u[1]][d][u[2]].num # count(d, n)
    <3>1. grants[u[1]][d][u[2]].num < count(d, n)
      BY <2>2 DEF NumbersBelow
    <3>2. grants[u[1]][d][u[2]].num \in Nat
      BY <1>n, <2>2
    <3> QED
      BY <1>6, <1>7, <2>2, <3>1, <3>2
  <2>3. CASE a = d /\ m = n /\ s \in Holders(d, n) /\ t \in Holders(d, n)
    <3>1. /\ grants'[s[1]][d][s[2]] = grants[s[1]][d][s[2]]
          /\ grants'[t[1]][d][t[2]] = grants[t[1]][d][t[2]]
      BY <1>7, <2>3
    <3>2. grants[s[1]][d][s[2]].num = grants[t[1]][d][t[2]].num
      BY <2>3, <3>1
    <3> QED
      BY <2>3, <3>2 DEF NumbersDiffer
  <2>4. CASE a = d /\ m = n /\ s = slot
    <3>1. t \notin Holders(d, n)
      BY <1>8, <2>2, <2>4
    <3> QED
      BY <1>5, <2>4, <3>1
  <2>5. CASE a = d /\ m = n /\ t = slot
    <3>1. s \notin Holders(d, n)
      BY <1>8, <2>2, <2>5
    <3> QED
      BY <1>5, <2>5, <3>1
  <2> QED
    BY <1>5, <2>1, <2>3, <2>4, <2>5
<1>14. ToldHasNoQuota'
  <2>1. <<c, d>> \notin told
    BY <1>1 DEF ToldHasNoQuota
  <2> SUFFICES ASSUME NEW p \in told PROVE profed'[p[1]][p[2]] = ProfMaxTimes
    BY DEF GrantPath, ToldHasNoQuota
  <2>2. PICK b \in Clients, a \in Devices : p = <<b, a>>
    BY DEF TypeOK
  <2>3. profed[b][a] = ProfMaxTimes /\ ~(b = c /\ a = d)
    BY <2>1, <2>2 DEF ToldHasNoQuota
  <2> QED
    BY <1>2, <2>2, <2>3
<1> QED
  BY <1>9, <1>10, <1>11, <1>12, <1>13, <1>14

(* Every step of the manager keeps the invariant. *)
LEMMA NextIInv == IInv /\ [Next]_vars => IInv'
<1> SUFFICES ASSUME IInv, [Next]_vars PROVE IInv'
  OBVIOUS
<1>1. ASSUME NEW c \in Clients, NEW d \in Devices, NEW n \in Names, Announce(c, d, n)
      PROVE  launches' \in [Clients -> [Devices -> Seq(Names)]]
  <2>1. Append(launches[c][d], n) \in Seq(Names)
    BY Appended DEF IInv, TypeOK
  <2> QED
    BY <1>1, <2>1 DEF Announce, IInv, TypeOK
<1>2. CASE SetProfConfig
  <2>1. round' \in 0..MaxRounds
    BY <1>2, ConfigAssumption DEF SetProfConfig, IInv, TypeOK
  <2>2. \A d \in Devices, n \in Names : Holders(d, n)' = {}
    BY <1>2 DEF SetProfConfig, PerClient, Holders, IsGrantFor, Slots
  <2>3. TypeOK'
    <3>1. <<>> \in Seq(Names) /\ <<>> \in Seq(Path)
      BY EmptySeq
    <3> QED
      BY <1>2, <2>1, <3>1, ConfigAssumption
      DEF SetProfConfig, TypeOK, PerClient, Unnumbered
  <2>4. GrantsCounted'
    BY <1>2, EmptySeq DEF SetProfConfig, GrantsCounted, PerClient
  <2>5. RunningCounts'
    <3>1. Cardinality({}) % CounterMod = 0
      BY FS_EmptySet, ConfigAssumption
    <3> QED
      BY <1>2, <2>2, <3>1 DEF SetProfConfig, RunningCounts, Unnumbered
  <2>6. NumbersBelow' /\ NumbersDiffer'
    BY <2>2 DEF NumbersBelow, NumbersDiffer
  <2>7. ToldHasNoQuota'
    BY <1>2 DEF SetProfConfig, ToldHasNoQuota
  <2> QED
    BY <2>3, <2>4, <2>5, <2>6, <2>7 DEF IInv
<1>3. CASE \E c \in Clients, d \in Devices, n \in Names : SkipKernel(c, d, n)
  <2> PICK c \in Clients, d \in Devices, n \in Names : SkipKernel(c, d, n)
    BY <1>3
  <2>1. TypeOK'
    BY SMTT(20), <1>1, ConfigAssumption DEF SkipKernel, MustSkip, IInv, TypeOK
  <2> QED
    BY <2>1, UnnumberedStep DEF SkipKernel, IInv, ToldHasNoQuota
<1>4. CASE \E c \in Clients, d \in Devices, n \in Names : RefuseKernel(c, d, n)
  <2> PICK c \in Clients, d \in Devices, n \in Names : RefuseKernel(c, d, n)
    BY <1>4
  <2>1. TypeOK'
    BY <1>1 DEF RefuseKernel, IInv, TypeOK
  <2> QED
    BY <2>1, UnnumberedStep DEF RefuseKernel, IInv, ToldHasNoQuota
<1>5. CASE \E c \in Clients, d \in Devices, n \in Names : GrantPath(c, d, n)
  BY <1>5, GrantStep
<1>6. CASE \E c \in Clients, d \in Devices, done \in BOOLEAN : ProcessCtrl(c, d, done)
  <2> PICK c \in Clients, d \in Devices, done \in BOOLEAN : ProcessCtrl(c, d, done)
    BY <1>6
  <2>1. TypeOK'
    <3>1. told' \subseteq told \cup {<<c, d>>}
      BY DEF ProcessCtrl
    <3>2. told' \subseteq Clients \X Devices
      BY <3>1 DEF IInv, TypeOK
    <3> QED
      BY <3>2 DEF ProcessCtrl, IInv, TypeOK
  <2>2. ToldHasNoQuota'
    BY ConfigAssumption DEF ProcessCtrl, QuotaLeft, IInv, TypeOK, ToldHasNoQuota
  <2> QED
    BY <2>1, <2>2, UnnumberedStep DEF ProcessCtrl
<1>7. CASE UNCHANGED vars
  <2>1. TypeOK' /\ ToldHasNoQuota'
    BY <1>7 DEF vars, IInv, TypeOK, ToldHasNoQuota
  <2> QED
    BY <1>7, <2>1, UnnumberedStep DEF vars
<1> QED
  BY <1>2, <1>3, <1>4, <1>5, <1>6, <1>7 DEF Next

(* The inductive invariant holds for all clients, devices and names. *)
THEOREM Invariant == Spec => []IInv
BY InitIInv, NextIInv, PTL DEF Spec

(* The counters keep their ranges and no client exceeds --launch-count on  *)
(* a device (ProcessKernelEvent).                                          *)
THEOREM TypeCorrect == Spec => []TypeOK
<1>1. IInv => TypeOK
  BY DEF IInv
<1> QED
  BY <1>1, Invariant, PTL

(* No directory is handed out twice in a round, whatever the order of the  *)
(* clients' kernels, although the quota is per client and the number per   *)
(* device (ProcessKernelEvent, GetOutputPath).                             *)
THEOREM PathsUniqueCorrect == Spec => []PathsUnique
<1>1. IInv => PathsUnique
  <2> SUFFICES ASSUME IInv, NEW d \in Devices, NEW b \in Clients, NEW c \in Clients,
                      NEW i \in DOMAIN grants[b][d], NEW j \in DOMAIN grants[c][d],
                      grants[b][d][i] = grants[c][d][j]
               PROVE  b = c /\ i = j
    BY DEF PathsUnique
  <2> DEFINE n == grants[b][d][i].name
  <2>1. /\ i \in 1..ProfMaxTimes
        /\ j \in 1..ProfMaxTimes
        /\ grants[b][d][i] \in Path
    <3>1. \A a \in Clients : /\ DOMAIN grants[a][d] = 1..profed[a][d]
                             /\ profed[a][d] \in 0..ProfMaxTimes
                             /\ grants[a][d] \in Seq(Path)
      BY LenProperties DEF IInv, TypeOK, GrantsCounted
    <3> QED
      BY SMTT(20), <3>1, ElementOfSeq, ConfigAssumption
  <2>2. n \in Names
    BY <2>1 DEF Path
  <2>3. <<b, i>> \in Holders(d, n) /\ <<c, j>> \in Holders(d, n)
    BY <2>1 DEF Holders, IsGrantFor, Slots
  <2> QED
    BY <2>2, <2>3 DEF IInv, NumbersDiffer
<1> QED
  BY <1>1, Invariant, PTL

(* A process told to terminate gets no directory any more in the round: no *)
(* kernel is profiled into a directory its process will not fill           *)
(* (ProcessCtrl).                                                          *)
THEOREM CompleteWhenToldCorrect == Spec => CompleteWhenTold
<1>1. IInv /\ [Next]_vars =>
        [\A c \in Clients, d \in Devices :
            <<c, d>> \in told /\ round' = round => grants'[c][d] = grants[c][d]]_vars
  <2> SUFFICES ASSUME IInv, Next,
                      NEW c \in Clients, NEW d \in Devices,
                      <<c, d>> \in told, round' = round
               PROVE  grants'[c][d] = grants[c][d]
    BY DEF vars
  <2>1. ~QuotaLeft(c, d)
    BY ConfigAssumption DEF IInv, ToldHasNoQuota, QuotaLeft
  <2>2. CASE SetProfConfig
    BY <2>2 DEF SetProfConfig, IInv, TypeOK
  <2>3. CASE UNCHANGED grants
    BY <2>3
  <2>4. CASE \E b \in Clients, a \in Devices, n \in Names : GrantPath(b, a, n)
    <3> PICK b \in Clients, a \in Devices, n \in Names : GrantPath(b, a, n)
      BY <2>4
    <3>1. b # c \/ a # d
      BY <2>1 DEF GrantPath
    <3> QED
      BY <3>1 DEF GrantPath, IInv, TypeOK
  <2> QED
    BY <2>2, <2>3, <2>4 DEF Next, SkipKernel, RefuseKernel, ProcessCtrl
<1> QED
  BY <1>1, Invariant, PTL DEF Spec, CompleteWhenTold

-----------------------------------------------------------------------------
(***************************************************************************)
(* The selection.  The skipped kernels are the first ones (SkippedFirst),  *)
(* and a launch that is considered and selected takes the next place: the  *)
(* places of the launches before it stay.                                  *)
(***************************************************************************)
SkippedFirst ==
    \A c \in Clients, d \in Devices :
        LET number == Len(launches[c][d])
        IN skiped[c][d] = IF number < ProfSkipTimes THEN number ELSE ProfSkipTimes

Chosen(announced, given) ==
    LET number == Cardinality(Selected(announced))
    IN /\ Len(given) = IF number < ProfMaxTimes THEN number ELSE ProfMaxTimes
       /\ \A i \in Selected(announced) :
            LET place == Place(announced, i)
            IN place <= ProfMaxTimes => given[place].name = announced[i]

(* The selected launches are finitely many and have places among them.     *)
LEMMA SelectedFacts ==
    ASSUME NEW a \in Seq(Names)
    PROVE  /\ IsFiniteSet(Selected(a)) /\ Selected(a) \subseteq 1..Len(a)
           /\ Cardinality(Selected(a)) \in Nat
           /\ \A i \in Selected(a) : Place(a, i) \in 1..Cardinality(Selected(a))
<1>1. Len(a) \in Nat /\ DOMAIN a = 1..Len(a)
  BY LenProperties
<1>2. Selected(a) \subseteq 1..Len(a)
  BY <1>1 DEF Selected
<1>3. IsFiniteSet(1..Len(a))
  BY <1>1, FS_Interval
<1>4. IsFiniteSet(Selected(a)) /\ Cardinality(Selected(a)) \in Nat
  BY <1>2, <1>3, FS_Subset, FS_CardinalityType
<1>5. ASSUME NEW i \in Selected(a) PROVE Place(a, i) \in 1..Cardinality(Selected(a))
  <2> DEFINE S == {j \in Selected(a) : j <= i}
  <2>1. S \in SUBSET Selected(a)
    OBVIOUS
  <2>2. i \in S
    BY <1>1, <1>2
  <2> HIDE DEF S
  <2>3. IsFiniteSet(S) /\ Cardinality(S) <= Cardinality(Selected(a))
    BY <1>4, <2>1, FS_Subset
  <2>4. Cardinality(S) \in Nat /\ Cardinality(S) # 0
    BY <2>2, <2>3, FS_CardinalityType, FS_EmptySet
  <2>5. Place(a, i) = Cardinality(S)
    BY DEF Place, S
  <2> QED
    BY <1>4, <2>3, <2>4, <2>5
<1> QED
  BY <1>2, <1>4, <1>5

Announced(a, n, b, last) == b = Append(a, n) /\ last = Len(a) + 1

(* A kernel is announced: ProcessKernelEvent looks at it alone. *)
LEMMA SelectedNext ==
    ASSUME NEW a \in Seq(Names), NEW n \in Names, NEW b, NEW last, Announced(a, n, b, last)
    PROVE  /\ \A i \in Selected(a) : b[i] = a[i] /\ Place(b, i) = Place(a, i)
           /\ b[last] = n
           /\ last > ProfSkipTimes /\ CheckKernel(n) =>
                /\ Selected(b) = Selected(a) \cup {last}
                /\ Cardinality(Selected(b)) = Cardinality(Selected(a)) + 1
                /\ Place(b, last) = Cardinality(Selected(a)) + 1
           /\ ~(last > ProfSkipTimes /\ CheckKernel(n)) => Selected(b) = Selected(a)
<1>1. /\ b \in Seq(Names) /\ Len(a) \in Nat
      /\ DOMAIN a = 1..Len(a) /\ DOMAIN b = 1..last
      /\ \A i \in 1..Len(a) : b[i] = a[i]
      /\ b[last] = n /\ last = Len(a) + 1
  BY Appended DEF Announced
<1>2. IsFiniteSet(Selected(a)) /\ Selected(a) \subseteq 1..Len(a) /\ last \notin Selected(a)
  BY <1>1, SelectedFacts
<1>3. \A i \in 1..Len(a) : i \in Selected(b) <=> i \in Selected(a)
  BY <1>1 DEF Selected
<1>4. last \in Selected(b) <=> last > ProfSkipTimes /\ CheckKernel(n)
  BY <1>1 DEF Selected
<1>5. Selected(b) \subseteq 1..last
  BY <1>1 DEF Selected
<1>6. Selected(b) = IF last > ProfSkipTimes /\ CheckKernel(n)
                    THEN Selected(a) \cup {last} ELSE Selected(a)
  <2>1. \A i \in 1..last : i \in 1..Len(a) \/ i = last
    BY <1>1
  <2>2. \A i : i \in Selected(b) <=> i \in Selected(a) \/ (i = last /\ last \in Selected(b))
    BY <1>2, <1>3, <1>5, <2>1
  <2> QED
    BY <1>4, <2>2
<1>7. ASSUME NEW i \in Selected(a) PROVE b[i] = a[i] /\ Place(b, i) = Place(a, i)
  <2>1. {j \in Selected(b) : j <= i} = {j \in Selected(a) : j <= i}
    BY <1>1, <1>2, <1>6
  <2> QED
    BY <1>1, <1>2, <2>1 DEF Place
<1>8. Cardinality(Selected(a) \cup {last}) = Cardinality(Selected(a)) + 1
  BY <1>2, FS_AddElement
<1>9. ASSUME last > ProfSkipTimes, CheckKernel(n) PROVE Place(b, last) = Cardinality(Selected(a)) + 1
  <2>1. {j \in Selected(b) : j <= last} = Selected(a) \cup {last}
    BY <1>1, <1>2, <1>6, <1>9
  <2> QED
    BY <1>8, <2>1 DEF Place
<1> QED
  BY <1>1, <1>6, <1>7, <1>8, <1>9

(* A launch that is not considered, not selected or over the quota leaves  *)
(* what was chosen right.                                                  *)
LEMMA NotChosen ==
    ASSUME NEW a \in Seq(Names), NEW n \in Names, NEW given, Chosen(a, given),
           \/ ~(Len(a) + 1 > ProfSkipTimes /\ CheckKernel(n))
           \/ Len(given) = ProfMaxTimes
    PROVE  Chosen(Append(a, n), given)
<1> DEFINE b == Append(a, n)
           last == Len(a) + 1
           number == Cardinality(Selected(a))
<1>1. /\ \A i \in Selected(a) : b[i] = a[i] /\ Place(b, i) = Place(a, i)
      /\ last > ProfSkipTimes /\ CheckKernel(n) =>
           /\ Selected(b) = Selected(a) \cup {last}
           /\ Cardinality(Selected(b)) = number + 1
           /\ Place(b, last) = number + 1
      /\ ~(last > ProfSkipTimes /\ CheckKernel(n)) => Selected(b) = Selected(a)
  <2>1. Announced(a, n, b, last)
    BY DEF Announced
  <2> HIDE DEF b, last
  <2> QED
    BY <2>1, SelectedNext
<1>2. number \in Nat /\ ProfMaxTimes \in Nat
  BY SelectedFacts, ConfigAssumption
<1> HIDE DEF b, last
<1>3. CASE ~(last > ProfSkipTimes /\ CheckKernel(n))
  BY <1>1, <1>3 DEF Chosen, b
<1>4. CASE last > ProfSkipTimes /\ CheckKernel(n) /\ Len(given) = ProfMaxTimes
  <2>1. number >= ProfMaxTimes
    BY <1>2, <1>4 DEF Chosen
  <2>2. Cardinality(Selected(b)) >= ProfMaxTimes /\ ~(Place(b, last) <= ProfMaxTimes)
    BY <1>1, <1>2, <1>4, <2>1
  <2>3. Cardinality(Selected(b)) \in Nat
    BY <1>1, <1>2, <1>4
  <2>4. \A i \in Selected(b) : Place(b, i) <= ProfMaxTimes => given[Place(b, i)].name = b[i]
    BY <1>1, <1>4, <2>2 DEF Chosen
  <2>5. Len(given) = IF Cardinality(Selected(b)) < ProfMaxTimes
                     THEN Cardinality(Selected(b)) ELSE ProfMaxTimes
    BY <1>2, <1>4, <2>2, <2>3
  <2>6. Chosen(b, given)
    BY <2>4, <2>5 DEF Chosen
  <2> QED
    BY <2>6 DEF b
<1> QED
  BY <1>3, <1>4 DEF last

(* A selected launch within the quota takes the next place. *)
LEMMA NextChosen ==
    ASSUME NEW a \in Seq(Names), NEW n \in Names, NEW given \in Seq(Path), Chosen(a, given),
           Len(a) + 1 > ProfSkipTimes, CheckKernel(n), Len(given) < ProfMaxTimes,
           NEW e \in Path, e.name = n
    PROVE  Chosen(Append(a, n), Append(given, e))
<1> DEFINE b == Append(a, n)
           more == Append(given, e)
           last == Len(a) + 1
           number == Cardinality(Selected(a))
<1>1. /\ \A i \in Selected(a) : b[i] = a[i] /\ Place(b, i) = Place(a, i)
      /\ b[last] = n
      /\ Selected(b) = Selected(a) \cup {last}
      /\ Cardinality(Selected(b)) = number + 1
      /\ Place(b, last) = number + 1
  <2>1. Announced(a, n, b, last) /\ last > ProfSkipTimes
    BY DEF Announced
  <2> HIDE DEF b, last
  <2> QED
    BY <2>1, SelectedNext
<1>2. /\ number \in Nat /\ ProfMaxTimes \in Nat /\ Len(given) \in Nat
      /\ \A i \in Selected(a) : Place(a, i) \in 1..number
  BY SelectedFacts, ConfigAssumption, LenProperties
<1>3. Len(given) = number /\ number < ProfMaxTimes
  BY <1>2 DEF Chosen
<1>4. /\ Len(more) = number + 1
      /\ \A i \in 1..number : more[i] = given[i]
      /\ more[number + 1] = e
  BY <1>3, Appended
<1> HIDE DEF b, more, last, number
<1>5. ASSUME NEW i \in Selected(b) PROVE more[Place(b, i)].name = b[i]
  <2>1. CASE i = last
    BY <1>1, <1>4, <2>1
  <2>2. CASE i \in Selected(a)
    <3>1. Place(a, i) \in 1..number /\ Place(a, i) <= ProfMaxTimes
      BY <1>2, <1>3, <2>2
    <3>2. given[Place(a, i)].name = a[i]
      BY <2>2, <3>1 DEF Chosen
    <3> QED
      BY <1>1, <1>4, <2>2, <3>1, <3>2
  <2> QED
    BY <1>1, <2>1, <2>2
<1>6. Chosen(b, more)
  BY <1>1, <1>2, <1>3, <1>4, <1>5 DEF Chosen
<1> QED
  BY <1>6 DEF b, more

SInv == SkippedFirst /\ \A c \in Clients, d \in Devices : Chosen(launches[c][d], grants[c][d])

(* Of no launch nothing is chosen. *)
LEMMA NothingChosen == Chosen(<<>>, <<>>)
<1> DEFINE none == <<>>
           number == Cardinality(Selected(none))
<1>1. Len(none) = 0
  BY EmptySeq
<1>2. Selected(none) = {}
  BY DEF Selected
<1>3. number = 0
  BY <1>2, FS_EmptySet
<1> HIDE DEF none, number
<1>4. Len(none) = IF number < ProfMaxTimes THEN number ELSE ProfMaxTimes
  BY <1>1, <1>3, ConfigAssumption
<1>5. \A i \in Selected(none) : Place(none, i) <= ProfMaxTimes =>
                                  none[Place(none, i)].name = none[i]
  BY <1>2
<1>6. Chosen(none, none)
  BY <1>4, <1>5 DEF Chosen, number
<1> QED
  BY <1>6 DEF none

(* Before the first launch of a round nothing is chosen. *)
LEMMA FreshSelection ==
    ASSUME skiped = PerClient(0), launches = PerClient(<<>>), grants = PerClient(<<>>)
    PROVE  SInv
<1>1. Len(<<>>) = 0 /\ <<>> \in Seq(Names)
  BY EmptySeq
<1>2. Chosen(<<>>, <<>>)
  BY NothingChosen
<1> QED
  BY <1>1, <1>2, ConfigAssumption DEF SInv, SkippedFirst, PerClient

(* Every step of the manager keeps the selection right. *)
LEMMA SelectionStep == IInv /\ SInv /\ [Next]_vars => SInv'
<1> SUFFICES ASSUME IInv, SInv, [Next]_vars PROVE SInv'
  OBVIOUS
<1>1. CASE SetProfConfig
  <2>1. Len(<<>>) = 0 /\ <<>> \in Seq(Names)
    BY EmptySeq
  <2>2. Chosen(<<>>, <<>>)
    BY NothingChosen
  <2> QED
    BY <1>1, <2>1, <2>2, ConfigAssumption DEF SInv, SkippedFirst, PerClient, SetProfConfig
<1>2. CASE UNCHANGED <<skiped, launches, grants>>
  BY <1>2 DEF SInv, SkippedFirst
<1>3. ASSUME NEW c \in Clients, NEW d \in Devices, NEW n \in Names,
             SkipKernel(c, d, n) \/ RefuseKernel(c, d, n) \/ GrantPath(c, d, n)
      PROVE  SInv'
  <2> DEFINE a == launches[c][d]
             given == grants[c][d]
  <2>1. /\ a \in Seq(Names) /\ given \in Seq(Path) /\ Len(a) \in Nat
        /\ Len(given) = profed[c][d] /\ profed[c][d] \in 0..ProfMaxTimes
        /\ skiped[c][d] \in 0..ProfSkipTimes
        /\ ProfMaxTimes \in Nat /\ ProfSkipTimes \in Nat
    BY LenProperties, ConfigAssumption DEF IInv, TypeOK, GrantsCounted
  <2>2. /\ skiped[c][d] = IF Len(a) < ProfSkipTimes THEN Len(a) ELSE ProfSkipTimes
        /\ Chosen(a, given)
    BY DEF SInv, SkippedFirst
  <2>3. /\ launches'[c][d] = Append(a, n) /\ Len(Append(a, n)) = Len(a) + 1
        /\ \A b \in Clients, e \in Devices : ~(b = c /\ e = d) => launches'[b][e] = launches[b][e]
    <3>1. launches' = [launches EXCEPT ![c][d] = Append(@, n)]
      BY <1>3 DEF SkipKernel, RefuseKernel, GrantPath, Announce
    <3>2. Len(Append(a, n)) = Len(a) + 1
      BY <2>1, AppendProperties
    <3> QED
      BY <3>1, <3>2 DEF IInv, TypeOK
  <2>4. /\ skiped'[c][d] = IF MustSkip(c, d) THEN skiped[c][d] + 1 ELSE skiped[c][d]
        /\ \A b \in Clients, e \in Devices : ~(b = c /\ e = d) => skiped'[b][e] = skiped[b][e]
    <3>1. skiped' = IF MustSkip(c, d) THEN [skiped EXCEPT ![c][d] = @ + 1] ELSE skiped
      BY <1>3 DEF SkipKernel, RefuseKernel, GrantPath
    <3> QED
      BY <3>1 DEF IInv, TypeOK
  <2>5. \A b \in Clients, e \in Devices : ~(b = c /\ e = d) => grants'[b][e] = grants[b][e]
    <3> DEFINE v == Append(grants[c][d], [name |-> n, num |-> running[d][n]])
    <3>1. grants' = grants \/ grants' = [grants EXCEPT ![c][d] = v]
      BY <1>3 DEF SkipKernel, RefuseKernel, GrantPath
    <3>2. grants \in [Clients -> [Devices -> Seq(Path)]]
      BY DEF IInv, TypeOK
    <3> HIDE DEF v
    <3> QED
      BY <3>1, <3>2
  <2> HIDE DEF a, given
  <2>6. skiped'[c][d] = IF Len(a) + 1 < ProfSkipTimes THEN Len(a) + 1 ELSE ProfSkipTimes
    BY <2>1, <2>2, <2>4 DEF MustSkip
  <2>7. Chosen(launches'[c][d], grants'[c][d])
    <3>1. CASE SkipKernel(c, d, n)
      <4>1. ~(Len(a) + 1 > ProfSkipTimes) /\ grants'[c][d] = given
        BY <2>1, <2>2, <3>1 DEF SkipKernel, MustSkip, given
      <4> QED
        BY <2>1, <2>2, <2>3, <4>1, NotChosen
    <3>2. CASE RefuseKernel(c, d, n)
      <4>1. (Len(given) = ProfMaxTimes \/ ~CheckKernel(n)) /\ grants'[c][d] = given
        BY <2>1, <3>2 DEF RefuseKernel, QuotaLeft, given
      <4> QED
        BY <2>1, <2>2, <2>3, <4>1, NotChosen
    <3>3. CASE GrantPath(c, d, n)
      <4> DEFINE e == [name |-> n, num |-> running[d][n]]
      <4>1. /\ Len(a) + 1 > ProfSkipTimes /\ CheckKernel(n) /\ Len(given) < ProfMaxTimes
            /\ e \in Path /\ e.name = n /\ grants'[c][d] = Append(given, e)
        BY <2>1, <2>2, <3>3 DEF GrantPath, MustSkip, QuotaLeft, IInv, TypeOK, Path, given
      <4> HIDE DEF e
      <4> QED
        BY <2>1, <2>2, <2>3, <4>1, NextChosen
    <3> QED
      BY <1>3, <3>1, <3>2, <3>3
  <2> SUFFICES ASSUME NEW b \in Clients, NEW e \in Devices
               PROVE  LET number == Len(launches'[b][e])
                      IN /\ skiped'[b][e] = IF number < ProfSkipTimes THEN number ELSE ProfSkipTimes
                         /\ Chosen(launches'[b][e], grants'[b][e])
    BY DEF SInv, SkippedFirst
  <2>8. CASE b = c /\ e = d
    BY <2>3, <2>6, <2>7, <2>8
  <2>9. CASE ~(b = c /\ e = d)
    BY <2>3, <2>4, <2>5, <2>9 DEF SInv, SkippedFirst
  <2> QED
    BY <2>8, <2>9
<1> QED
  BY <1>1, <1>2, <1>3 DEF Next, vars, ProcessCtrl

(* --launch-skip-before-match, --kernel-name and --launch-count choose the *)
(* same kernels of a process on a device, whatever the other processes     *)
(* launch in between (ProcessKernelEvent).                                 *)
THEOREM SelectionExactCorrect == Spec => []SelectionExact
<1>1. Init => SInv
  BY FreshSelection DEF Init
<1>2. SInv => SelectionExact
  BY DEF SInv, SelectionExact, Chosen
<1> QED
  BY <1>1, <1>2, Invariant, SelectionStep, PTL DEF Spec
=============================================================================
