----------------------------- MODULE RecordProofs ----------------------------
(***************************************************************************)
(* Proofs about what becomes of records: those a listener hands to the     *)
(* plugins of the simulator (DataStream), for any number of them; the      *)
(* memory records in a packet of an instrumented kernel (MemoryRecords:    *)
(* the step ParseMemoryChart of DBIParser), for any packet; and those the  *)
(* probes of a kernel leave in logs and buffers (CoreRecords), for any     *)
(* kernel, length of the logs and number of places in the buffer.          *)
(*                                                                         *)
(* DataStream.  InOrder is inductive with the types: each step moves one   *)
(* item from one part of the concatenation to the next.                    *)
(* NeverAsleepOverAnItem needs Guarded: a consumer that found the queue    *)
(* empty holds mtx_ until it sleeps, so that Push comes before its test or *)
(* after it has gone to sleep.  Phases says why the consumer processes an  *)
(* item: Pop comes back without one only from a stream that is inactive    *)
(* for good.                                                               *)
(*                                                                         *)
(* MemoryRecords.  DbiInv says what a packet parsed so far amounts to;     *)
(* that its end is the one RecordsAccounted names follows from how the two *)
(* can differ: by one record, whose header is whole and whose body is cut  *)
(* off.                                                                    *)
(*                                                                         *)
(* CoreRecords.  LogInv says what each log is worth after the stubs        *)
(* executed so far; the traffic the host derives from the logs is then a   *)
(* matter of sums.  BufferInv says what a core finds at the words of its   *)
(* block, and that no cache of another core holds a line of it; what the   *)
(* host makes of the buffer follows once the caches have been written back.*)
(***************************************************************************)
EXTENDS DataStream, MemoryRecords, CoreRecords, SequenceTheorems, FiniteSetTheorems,
        WellFoundedInduction, TLAPS

Guarded == consumer \in {"blocking", "asleep"} => queue = <<>>

Phases ==
    /\ feeder = "pushing" => pushed < MaxItems
    /\ consumer = "test" /\ item = 0 => ~active

IInv == TypeOK /\ InOrder /\ Guarded /\ Phases

LEMMA InitIInv == Init => IInv
  <1> SUFFICES ASSUME Init PROVE IInv
    OBVIOUS
  <1>1. TypeOK /\ Guarded /\ Phases
    BY MaxItemsAssumption DEF Init, TypeOK, ConsumerPc, FeederPc, Guarded, Phases
  <1>2. InOrder
    BY DEF Init, InOrder, InHand
  <1> QED
    BY <1>1, <1>2 DEF IInv

LEMMA TypeStep == TypeOK /\ Guarded /\ Phases /\ [Next]_vars => (TypeOK /\ Guarded /\ Phases)'
  <1> SUFFICES ASSUME TypeOK, Guarded, Phases, [Next]_vars
               PROVE  TypeOK' /\ Guarded' /\ Phases'
    OBVIOUS
  <1> USE MaxItemsAssumption DEF TypeOK, ConsumerPc, FeederPc, Guarded, Phases
  <1>1. CASE BeginPush
    BY <1>1 DEF BeginPush
  <1>2. CASE Push
    <2>1. pushed + 1 \in 1..MaxItems
      BY <1>2 DEF Push
    <2>2. queue' \in Seq(1..MaxItems) /\ pushed' \in 0..MaxItems
      BY <1>2, <2>1 DEF Push
    <2>3. consumer' \notin {"blocking", "asleep"}
      BY <1>2 DEF Push, MutexFree
    <2> QED
      BY <1>2, <2>2, <2>3 DEF Push
  <1>3. CASE Deactivate
    BY <1>3 DEF Deactivate
  <1>4. CASE NotifyAll
    BY <1>4 DEF NotifyAll
  <1>5. CASE WaitForStop
    BY <1>5 DEF WaitForStop
  <1>6. CASE PopItem
    <2>1. Head(queue) \in 1..MaxItems /\ Tail(queue) \in Seq(1..MaxItems)
      BY <1>6 DEF PopItem
    <2> QED
      BY <1>6, <2>1 DEF PopItem
  <1>7. CASE PopNothing
    BY <1>7 DEF PopNothing
  <1>8. CASE PopBlock
    BY <1>8 DEF PopBlock
  <1>9. CASE GoToSleep
    BY <1>9 DEF GoToSleep
  <1>10. CASE TestStop
    BY <1>10 DEF TestStop
  <1>11. CASE Process
    <2>1. item \in 1..MaxItems
      BY <1>11 DEF Process
    <2> QED
      BY <1>11, <2>1 DEF Process
  <1>12. CASE UNCHANGED vars
    BY <1>12 DEF vars
  <1> QED
    BY <1>1, <1>2, <1>3, <1>4, <1>5, <1>6, <1>7, <1>8, <1>9, <1>10, <1>11, <1>12
       DEF Next, Listener, Plugin

LEMMA OrderStep == TypeOK /\ InOrder /\ [Next]_vars => InOrder'
  <1> SUFFICES ASSUME TypeOK, InOrder, [Next]_vars PROVE InOrder'
    OBVIOUS
  <1>0. /\ queue \in Seq(Nat) /\ handled \in Seq(Nat) /\ item \in Nat /\ pushed \in Nat
        /\ consumer = "process" => item # 0
        /\ consumer = "pop" => item = 0
    BY MaxItemsAssumption DEF TypeOK
  <1>1. CASE Push
    <2>1. InHand \in Seq(Nat) /\ InHand' = InHand
      BY <1>0, <1>1 DEF InHand, Push
    <2>2. queue' = Append(queue, pushed + 1) /\ pushed' = pushed + 1 /\ handled' = handled
      BY <1>1 DEF Push
    <2>3. handled \o InHand \o Append(queue, pushed + 1)
            = Append(handled \o InHand \o queue, pushed + 1)
      BY SMTT(20), <1>0, <2>1
    <2>4. Append([i \in 1..pushed |-> i], pushed + 1) = [i \in 1..(pushed + 1) |-> i]
      BY <1>0
    <2> QED
      BY <2>1, <2>2, <2>3, <2>4 DEF InOrder
  <1>2. CASE PopItem
    <2>1. item = 0 /\ InHand = <<>> /\ queue # <<>> /\ Head(queue) \in Nat
      BY <1>0, <1>2 DEF PopItem, InHand
    <2>2. item' = Head(queue) /\ queue' = Tail(queue) /\ UNCHANGED <<handled, pushed>>
      BY <1>2 DEF PopItem
    <2>3. Head(queue) # 0
      <3>1. queue \in Seq(1..MaxItems)
        BY DEF TypeOK
      <3> DEFINE Item == 1..MaxItems
      <3>2. Head(queue) \in Item
        <4>1. queue \in Seq(Item)
          BY <3>1
        <4> HIDE DEF Item
        <4> QED
          BY <2>1, <4>1
      <3> QED
        BY <3>2
    <2>4. InHand' = <<Head(queue)>>
      BY <2>2, <2>3 DEF InHand
    <2>5. handled \o <<Head(queue)>> \o Tail(queue) = handled \o <<>> \o queue
      BY SMTT(20), <1>0, <2>1
    <2> QED
      BY <2>1, <2>2, <2>4, <2>5 DEF InOrder
  <1>3. CASE Process
    <2>1. item # 0 /\ InHand = <<item>> /\ InHand' = <<>>
      BY <1>0, <1>3 DEF Process, InHand
    <2>2. handled' = Append(handled, item) /\ UNCHANGED <<queue, pushed>>
      BY <1>3 DEF Process
    <2>3. Append(handled, item) \o <<>> \o queue = handled \o <<item>> \o queue
      <3>1. Append(handled, item) \o <<>> = handled \o <<item>>
        BY <1>0
      <3> QED
        BY <3>1
    <2> QED
      BY <2>1, <2>2, <2>3 DEF InOrder
  <1>4. CASE PopNothing
    <2>1. item' = item /\ UNCHANGED <<queue, handled, pushed>>
      BY <1>0, <1>4 DEF PopNothing
    <2> QED
      BY <2>1 DEF InOrder, InHand
  <1>5. CASE UNCHANGED <<queue, handled, pushed, item>>
    BY <1>5 DEF InOrder, InHand
  <1> QED
    BY <1>1, <1>2, <1>3, <1>4, <1>5 DEF Next, Listener, Plugin, BeginPush, Deactivate,
       NotifyAll, WaitForStop, PopBlock, GoToSleep, TestStop, vars

THEOREM Invariance == Spec => []IInv
  <1>1. IInv /\ [Next]_vars => IInv'
    BY TypeStep, OrderStep DEF IInv
  <1> QED
    BY <1>1, InitIInv, PTL DEF Spec

(* Types, and that the plugin never processes what Pop did not give it.    *)
THEOREM TypeCorrect == Spec => []TypeOK
  BY Invariance, PTL DEF IInv

(* The items come out in the order they were pushed, each once, and none   *)
(* is lost between Push and the plugin.                                    *)
THEOREM InOrderCorrect == Spec => []InOrder
  BY Invariance, PTL DEF IInv

(* The consumer does not sleep while an item waits for it.                 *)
THEOREM NeverAsleepOverAnItemCorrect == Spec => []NeverAsleepOverAnItem
  <1>1. IInv => NeverAsleepOverAnItem
    BY DEF IInv, Guarded, NeverAsleepOverAnItem
  <1> QED
    BY <1>1, Invariance, PTL
-----------------------------------------------------------------------------
(* MemoryRecords: the sequences its accesses are kept in                   *)

(* A set of numbers that holds 0 and the successors of its members.        *)
LEMMA SetInduction ==
  ASSUME NEW T, 0 \in T, \A n \in Nat : n \in T => n + 1 \in T
  PROVE  \A n \in Nat : n \in T
<1>1. SUFFICES ASSUME NEW m \in Nat, m \notin T PROVE FALSE
  OBVIOUS
<1> DEFINE F == {n \in Nat : n \notin T}
<1>2. PICK x \in F : \A y \in F : ~ (<<y, x>> \in OpToRel(<, Nat))
  <2>1. F \subseteq Nat /\ F # {}
    BY <1>1
  <2>2. QED
    BY <2>1, WFMin, NatLessThanWellFounded
<1>3. x # 0 /\ x \in Nat
  OBVIOUS
<1>4. x - 1 \in Nat /\ x - 1 \in F
  BY <1>3
<1>5. <<x - 1, x>> \in OpToRel(<, Nat)
  BY <1>3, <1>4 DEF OpToRel
<1> QED
  BY <1>2, <1>4, <1>5

(* f is what the recursive function in FlattenSeq is on 1..n.              *)
Steps(s, f, n) == \A i \in 1..n : f[i] = IF i = 1 THEN s[i] ELSE f[i - 1] \o s[i]

(* Such a function exists, whatever the length.                            *)
LEMMA StepsExist ==
  ASSUME NEW U, NEW s \in Seq(Seq(U)), NEW n \in 0..Len(s)
  PROVE  \E f \in [1..n -> Seq(U)] : Steps(s, f, n)
<1> DEFINE T == {k \in Nat : k <= Len(s) => \E f \in [1..k -> Seq(U)] : Steps(s, f, k)}
<1>1. 0 \in T
  <2>1. [i \in 1..0 |-> <<>>] \in [1..0 -> Seq(U)]
    OBVIOUS
  <2>2. Steps(s, [i \in 1..0 |-> <<>>], 0)
    BY DEF Steps
  <2>3. \E f \in [1..0 -> Seq(U)] : Steps(s, f, 0)
    BY <2>1, <2>2
  <2> QED
    BY <2>3
<1>2. ASSUME NEW k \in Nat, k \in T PROVE k + 1 \in T
  <2> SUFFICES ASSUME k + 1 <= Len(s) PROVE \E f \in [1..(k + 1) -> Seq(U)] : Steps(s, f, k + 1)
    OBVIOUS
  <2>1. PICK f \in [1..k -> Seq(U)] : Steps(s, f, k)
    BY <1>2
  <2>2. s[k + 1] \in Seq(U) /\ s[1] \in Seq(U)
    BY ElementOfSeq
  <2> DEFINE g == [i \in 1..(k + 1) |->
                      IF i <= k THEN f[i] ELSE IF k = 0 THEN s[1] ELSE f[k] \o s[k + 1]]
  <2>3. g \in [1..(k + 1) -> Seq(U)]
    <3>1. k # 0 => f[k] \o s[k + 1] \in Seq(U)
      BY <2>2, ConcatProperties
    <3> QED BY <3>1, <2>2
  <2>4. \A i \in 1..k : g[i] = f[i]
    OBVIOUS
  <2>5. g[k + 1] = IF k = 0 THEN s[1] ELSE f[k] \o s[k + 1]
    OBVIOUS
  <2> HIDE DEF g
  <2>6. ASSUME NEW i \in 1..(k + 1) PROVE g[i] = IF i = 1 THEN s[i] ELSE g[i - 1] \o s[i]
    <3>1. CASE i <= k
      <4>1. g[i] = f[i] /\ (i # 1 => g[i - 1] = f[i - 1])
        BY <3>1, <2>4
      <4>2. i \in 1..k
        BY <3>1
      <4>3. f[i] = IF i = 1 THEN s[i] ELSE f[i - 1] \o s[i]
        BY <4>2, <2>1 DEF Steps
      <4> QED BY <4>1, <4>3
    <3>2. CASE i = k + 1
      BY <3>2, <2>4, <2>5
    <3> QED BY <3>1, <3>2
  <2> QED BY <2>3, <2>6 DEF Steps
<1>3. \A k \in Nat : k \in T
  <2> HIDE DEF T
  <2> QED BY <1>1, <1>2, SetInduction
<1> QED BY <1>3

(* There is only one, and it does not depend on the length.                *)
LEMMA StepsUnique ==
  ASSUME NEW s, NEW f, NEW g, NEW n \in Nat, NEW m \in Nat, n <= m, Steps(s, f, n), Steps(s, g, m)
  PROVE  \A i \in 1..n : f[i] = g[i]
<1> DEFINE T == {k \in Nat : k \in 1..n => f[k] = g[k]}
<1>1. 0 \in T
  OBVIOUS
<1>2. ASSUME NEW k \in Nat, k \in T PROVE k + 1 \in T
  BY <1>2 DEF Steps
<1>3. \A k \in Nat : k \in T
  <2> HIDE DEF T
  <2> QED BY <1>1, <1>2, SetInduction
<1> QED BY <1>3

(* FlattenSeq CHOOSEs such a function: it exists and its values are unique. *)
LEMMA FlattenIs ==
  ASSUME NEW U, NEW s \in Seq(Seq(U)), s # <<>>
  PROVE  \E f : /\ \A i \in 1..Len(s) : f[i] \in Seq(U)
                /\ Steps(s, f, Len(s)) /\ FlattenSeq(s) = f[Len(s)]
<1>1. Len(s) \in Nat /\ Len(s) # 0
  BY EmptySeq, LenProperties
<1> DEFINE R(f) == [i \in 1..Len(s) |-> IF i = 1 THEN s[i] ELSE f[i - 1] \o s[i]]
           h == CHOOSE f : f = R(f)
<1>2. PICK f \in [1..Len(s) -> Seq(U)] : Steps(s, f, Len(s))
  <2>1. Len(s) \in 0..Len(s)
    BY <1>1
  <2> QED BY <2>1, StepsExist
<1>3. f = R(f)
  BY <1>2 DEF Steps
<1>4. h = R(h)
  BY <1>3
<1>5. FlattenSeq(s) = h[Len(s)]
  BY <1>1 DEF FlattenSeq
<1>6. Steps(s, h, Len(s))
  <2> HIDE DEF h
  <2> QED BY <1>4 DEF Steps
<1>7. h[Len(s)] = f[Len(s)]
  <2> HIDE DEF h
  <2> QED BY <1>1, <1>2, <1>6, StepsUnique
<1>8. \A i \in 1..Len(s) : f[i] \in Seq(U)
  BY <1>2
<1>9. Steps(s, f, Len(s)) /\ FlattenSeq(s) = f[Len(s)]
  BY <1>2, <1>5, <1>7
<1> QED BY ONLY <1>8, <1>9

LEMMA FlattenEmpty == FlattenSeq(<< >>) = << >>
BY DEF FlattenSeq


LEMMA FlattenType ==
  ASSUME NEW U, NEW s \in Seq(Seq(U)) PROVE FlattenSeq(s) \in Seq(U)
<1>1. CASE s = <<>>
  BY <1>1, FlattenEmpty, EmptySeq
<1>2. CASE s # <<>>
  <2>1. Len(s) \in 1..Len(s)
    BY <1>2, EmptySeq, LenProperties
  <2>2. PICK f : FlattenSeq(s) = f[Len(s)] /\ \A i \in 1..Len(s) : f[i] \in Seq(U)
    BY <1>2, FlattenIs
  <2> QED BY <2>1, <2>2
<1> QED BY <1>1, <1>2

(* What FlattenSeq does with a longer sequence, at either end.             *)
LEMMA FlattenAppend ==
  ASSUME NEW U, NEW s \in Seq(Seq(U)), NEW x \in Seq(U)
  PROVE  FlattenSeq(Append(s, x)) = FlattenSeq(s) \o x
<1> DEFINE t == Append(s, x)
           n == Len(s)
<1>1. /\ t \in Seq(Seq(U)) /\ Len(t) = n + 1 /\ n \in Nat
      /\ \A i \in 1..n : t[i] = s[i]
      /\ t[n + 1] = x
      /\ t # <<>>
  BY AppendProperties, LenProperties
<1> HIDE DEF t
<1>2. PICK f : Steps(t, f, n + 1) /\ FlattenSeq(t) = f[n + 1]
  BY <1>1, FlattenIs
<1>3. CASE s = <<>>
  <2>1. n = 0
    BY <1>3, EmptySeq
  <2>2. f[1] = x
    BY <1>1, <1>2, <2>1 DEF Steps
  <2>3. <<>> \o x = x
    BY ConcatEmptySeq
  <2> QED BY <1>2, <2>1, <2>2, <2>3, <1>3, FlattenEmpty DEF t
<1>4. CASE s # <<>>
  <2>1. n # 0
    BY <1>4, EmptySeq
  <2>2. PICK g : Steps(s, g, n) /\ FlattenSeq(s) = g[n]
    BY <1>4, FlattenIs
  <2>3. Steps(s, f, n)
    <3> SUFFICES ASSUME NEW i \in 1..n PROVE f[i] = IF i = 1 THEN s[i] ELSE f[i - 1] \o s[i]
      BY DEF Steps
    <3>1. i \in 1..(n + 1) /\ t[i] = s[i]
      BY <1>1
    <3>2. f[i] = IF i = 1 THEN t[i] ELSE f[i - 1] \o t[i]
      BY <1>2, <3>1 DEF Steps
    <3> QED BY <3>1, <3>2
  <2>4. f[n] = g[n]
    <3>1. n \in Nat /\ n <= n /\ n \in 1..n
      BY <2>1, <1>1
    <3>2. \A i \in 1..n : f[i] = g[i]
      BY <3>1, <2>2, <2>3, StepsUnique
    <3> QED BY <3>1, <3>2
  <2>5. f[n + 1] = f[n] \o x
    <3>1. n + 1 \in 1..(n + 1) /\ n + 1 # 1 /\ (n + 1) - 1 = n
      BY <2>1, <1>1
    <3>2. f[n + 1] = IF n + 1 = 1 THEN t[n + 1] ELSE f[(n + 1) - 1] \o t[n + 1]
      BY <1>2, <3>1 DEF Steps
    <3> QED BY <3>1, <3>2, <1>1
  <2> QED BY <1>2, <2>2, <2>4, <2>5 DEF t
<1> QED BY <1>3, <1>4
-----------------------------------------------------------------------------
(* MemoryRecords: the accesses each parser makes of operands, one by one.   *)

FixPipes == {"MOV_FP", "FIX_L0C_TO_OUT"}

(* A list of k accesses.                                                   *)
Listed(a, k) == k \in Nat /\ a \in [1..k -> Accesses]

LEMMA ListedIsSeq == \A a, k : Listed(a, k) => a \in Seq(Accesses)
BY DEF Listed

LEMMA OneListed == \A a \in Accesses : Listed(<<a>>, 1)
BY DEF Listed

LEMMA MemRecordType ==
    \A a, b, c, d \in Int :
        LET access == MemRecord(a, b, c, d)
        IN  /\ access \in Accesses
            /\ access.srcAddr = a /\ access.srcMemSize = b /\ access.dstAddr = c /\ access.dstMemSize = d
BY DEF MemRecord, Accesses

(* Whole blocks that hold a number of bytes.                               *)
LEMMA AlignType ==
    \A v, a \in Nat : a # 0 => AlignToCeil(v, a) \in Nat /\ AlignUp(v, a) \in Nat
<1> SUFFICES ASSUME NEW v \in Nat, NEW a \in Nat, a # 0
             PROVE  AlignToCeil(v, a) \in Nat /\ AlignUp(v, a) \in Nat
  OBVIOUS
<1>1. PICK q \in Nat : q = (v + a - 1) \div a
  OBVIOUS
<1>2. q * a \in Nat
  OBVIOUS
<1> QED
  BY <1>1, <1>2 DEF AlignToCeil, AlignUp

(* A list whose accesses are given by their four parts.                    *)
Parts(a, k, src, srcSize, dst, dstSize) ==
    /\ Listed(a, k)
    /\ \A n \in 1..k : /\ a[n].srcAddr = src[n] /\ a[n].srcMemSize = srcSize[n]
                       /\ a[n].dstAddr = dst[n] /\ a[n].dstMemSize = dstSize[n]

LEMMA PartsOf ==
  ASSUME NEW k \in Nat, NEW src \in [1..k -> Int], NEW srcSize \in [1..k -> Int],
         NEW dst \in [1..k -> Int], NEW dstSize \in [1..k -> Int],
         NEW a, a = [n \in 1..k |-> MemRecord(src[n], srcSize[n], dst[n], dstSize[n])]
  PROVE  Parts(a, k, src, srcSize, dst, dstSize)
<1>1. ASSUME NEW n \in 1..k
      PROVE  /\ a[n] \in Accesses
             /\ a[n].srcAddr = src[n] /\ a[n].srcMemSize = srcSize[n]
             /\ a[n].dstAddr = dst[n] /\ a[n].dstMemSize = dstSize[n]
  <2>1. a[n] = MemRecord(src[n], srcSize[n], dst[n], dstSize[n])
    OBVIOUS
  <2>2. PICK s \in Int, ss \in Int, d \in Int, ds \in Int :
            s = src[n] /\ ss = srcSize[n] /\ d = dst[n] /\ ds = dstSize[n]
    OBVIOUS
  <2>3. a[n] = MemRecord(s, ss, d, ds)
    BY <2>1, <2>2
  <2> QED
    BY <2>2, <2>3, MemRecordType
<1>2. Listed(a, k)
  BY <1>1 DEF Listed
<1> QED
  BY <1>1, <1>2 DEF Parts

(* Bursts of equal lengths with equal gaps.                                *)
Evenly(a, r, srcLen, srcGap, dstLen, dstGap) ==
    /\ Listed(a, r.nBurst)
    /\ \A n \in 1..r.nBurst :
           /\ a[n].srcAddr = r.src + (n - 1) * (srcLen + srcGap) /\ a[n].srcMemSize = srcLen
           /\ a[n].dstAddr = r.dst + (n - 1) * (dstLen + dstGap) /\ a[n].dstMemSize = dstLen

LEMMA BurstsAre ==
  ASSUME NEW r, r.nBurst \in Nat, r.src \in Nat, r.dst \in Nat,
         NEW srcLen \in Nat, NEW srcGap \in Nat, NEW dstLen \in Nat, NEW dstGap \in Nat
  PROVE  Evenly(Bursts(r, srcLen, srcGap, dstLen, dstGap), r, srcLen, srcGap, dstLen, dstGap)
<1> DEFINE src == [n \in 1..r.nBurst |-> r.src + (n - 1) * (srcLen + srcGap)]
           dst == [n \in 1..r.nBurst |-> r.dst + (n - 1) * (dstLen + dstGap)]
           srcSize == [n \in 1..r.nBurst |-> srcLen]
           dstSize == [n \in 1..r.nBurst |-> dstLen]
           a == Bursts(r, srcLen, srcGap, dstLen, dstGap)
<1>1. a = [n \in 1..r.nBurst |-> MemRecord(src[n], srcSize[n], dst[n], dstSize[n])]
  BY DEF Bursts
<1>2. /\ src \in [1..r.nBurst -> Int] /\ srcSize \in [1..r.nBurst -> Int]
      /\ dst \in [1..r.nBurst -> Int] /\ dstSize \in [1..r.nBurst -> Int]
  OBVIOUS
<1>3. Parts(a, r.nBurst, src, srcSize, dst, dstSize)
  <2> HIDE DEF a, src, dst, srcSize, dstSize
  <2> QED
    BY <1>1, <1>2, PartsOf
<1>4. /\ Listed(a, r.nBurst)
      /\ \A n \in 1..r.nBurst : /\ a[n].srcAddr = src[n] /\ a[n].srcMemSize = srcSize[n]
                                  /\ a[n].dstAddr = dst[n] /\ a[n].dstMemSize = dstSize[n]
  <2> HIDE DEF a, src, dst, srcSize, dstSize
  <2> QED
    BY <1>3 DEF Parts
<1> QED
  BY <1>4 DEF Evenly

LEMMA AbsoluteType == \A stride \in Nat : Absolute(stride) \in Int
BY DEF Absolute

LEMMA SrcFracSizeType == \A mode : SrcFracSize(mode) \in Nat
BY DEF SrcFracSize

LEMMA Load2dAre ==
  ASSUME NEW r, Operands(r), r.type = "LOAD_2D"
  PROVE  /\ Listed(Load2d(r), r.repeat)
         /\ \A n \in 1..(r.repeat) :
                /\ Load2d(r)[n].srcAddr = r.src + (IF r.inc THEN r.baseIdx + r.srcStride * (n - 1)
                                             ELSE r.baseIdx - r.srcStride * (n - 1)) * 512
                /\ Load2d(r)[n].srcMemSize = 512
<1> DEFINE k == r.repeat
           src == [n \in 1..k |-> r.src + (IF r.inc THEN r.baseIdx + r.srcStride * (n - 1)
                                   ELSE r.baseIdx - r.srcStride * (n - 1)) * 512]
           srcSize == [n \in 1..k |-> 512]
           dst == [n \in 1..k |-> r.dst + r.dstStride * (n - 1) * 512]
           dstSize == [n \in 1..k |-> 512]
           a == Load2d(r)
<1>1. r.src \in Nat /\ r.dst \in Nat /\ r.srcStride \in Nat /\ r.dstStride \in Nat
          /\ r.baseIdx \in Nat /\ r.repeat \in Nat
  BY DEF Operands, OperandsOf
<1>2. k \in Nat
  BY <1>1
<1>3. a = [n \in 1..k |-> MemRecord(src[n], srcSize[n], dst[n], dstSize[n])]
  BY DEF Load2d, Load2dMovSize
<1>4. src \in [1..k -> Int]
  BY <1>1
<1>5. srcSize \in [1..k -> Int]
  BY <1>1
<1>6. dst \in [1..k -> Int]
  BY <1>1
<1>7. dstSize \in [1..k -> Int]
  BY <1>1
<1>8. Parts(a, k, src, srcSize, dst, dstSize)
  <2> HIDE DEF a, k, src, dst, srcSize, dstSize
  <2> QED
    BY <1>2, <1>3, <1>4, <1>5, <1>6, <1>7, PartsOf
<1>9. Listed(a, k) /\ \A n \in 1..k : a[n].srcAddr = src[n] /\ a[n].srcMemSize = srcSize[n]
  <2> HIDE DEF a, k, src, dst, srcSize, dstSize
  <2> QED
    BY <1>8 DEF Parts
<1>10. ASSUME NEW n \in 1..k
       PROVE  /\ a[n].srcAddr = r.src + (IF r.inc THEN r.baseIdx + r.srcStride * (n - 1)
                                           ELSE r.baseIdx - r.srcStride * (n - 1)) * 512
              /\ a[n].srcMemSize = 512
  <2>1. src[n] = r.src + (IF r.inc THEN r.baseIdx + r.srcStride * (n - 1)
                                           ELSE r.baseIdx - r.srcStride * (n - 1)) * 512
    OBVIOUS
  <2>2. srcSize[n] = 512
    OBVIOUS
  <2> HIDE DEF src, srcSize, a, k
  <2> QED
    BY <1>9, <2>1, <2>2
<1> HIDE DEF src, srcSize
<1> QED
  BY <1>9, <1>10

LEMMA Load2dTransposeAre ==
  ASSUME NEW r, Operands(r), r.type = "LOAD_L1_TO_L0B_2D_TRANSPOSE"
  PROVE  /\ Listed(Load2dTranspose(r), r.repeat)
         /\ \A n \in 1..(r.repeat) :
                /\ Load2dTranspose(r)[n].srcAddr = r.src + (r.baseIdx + r.srcStride * (n - 1)) * 512
                /\ Load2dTranspose(r)[n].srcMemSize = 512 * r.srcStride
<1> DEFINE k == r.repeat
           src == [n \in 1..k |-> r.src + (r.baseIdx + r.srcStride * (n - 1)) * 512]
           srcSize == [n \in 1..k |-> 512 * r.srcStride]
           dst == [n \in 1..k |-> r.dst + r.dstStride * (n - 1) * 512]
           dstSize == [n \in 1..k |-> 512 * r.dstStride]
           a == Load2dTranspose(r)
<1>1. r.src \in Nat /\ r.dst \in Nat /\ r.srcStride \in Nat /\ r.dstStride \in Nat
          /\ r.baseIdx \in Nat /\ r.repeat \in Nat
  BY DEF Operands, OperandsOf
<1>2. k \in Nat
  BY <1>1
<1>3. a = [n \in 1..k |-> MemRecord(src[n], srcSize[n], dst[n], dstSize[n])]
  BY DEF Load2dTranspose, Load2dMovSize
<1>4. src \in [1..k -> Int]
  BY <1>1
<1>5. srcSize \in [1..k -> Int]
  BY <1>1
<1>6. dst \in [1..k -> Int]
  BY <1>1
<1>7. dstSize \in [1..k -> Int]
  BY <1>1
<1>8. Parts(a, k, src, srcSize, dst, dstSize)
  <2> HIDE DEF a, k, src, dst, srcSize, dstSize
  <2> QED
    BY <1>2, <1>3, <1>4, <1>5, <1>6, <1>7, PartsOf
<1>9. Listed(a, k) /\ \A n \in 1..k : a[n].srcAddr = src[n] /\ a[n].srcMemSize = srcSize[n]
  <2> HIDE DEF a, k, src, dst, srcSize, dstSize
  <2> QED
    BY <1>8 DEF Parts
<1>10. ASSUME NEW n \in 1..k
       PROVE  /\ a[n].srcAddr = r.src + (r.baseIdx + r.srcStride * (n - 1)) * 512
              /\ a[n].srcMemSize = 512 * r.srcStride
  <2>1. src[n] = r.src + (r.baseIdx + r.srcStride * (n - 1)) * 512
    OBVIOUS
  <2>2. srcSize[n] = 512 * r.srcStride
    OBVIOUS
  <2> HIDE DEF src, srcSize, a, k
  <2> QED
    BY <1>9, <2>1, <2>2
<1> HIDE DEF src, srcSize
<1> QED
  BY <1>9, <1>10

LEMMA Set2dAre ==
  ASSUME NEW r, Operands(r), r.type = "SET_2D"
  PROVE  /\ Listed(Set2d(r), r.repeat)
         /\ \A n \in 1..(r.repeat) :
                /\ Set2d(r)[n].dstMemSize = (r.blockNum + r.repeatGap) * 32
<1> DEFINE k == r.repeat
           src == [n \in 1..k |-> r.src]
           srcSize == [n \in 1..k |-> 0]
           dst == [n \in 1..k |-> r.dst + (r.blockNum + r.repeatGap) * 32 * (n - 1)]
           dstSize == [n \in 1..k |-> (r.blockNum + r.repeatGap) * 32]
           a == Set2d(r)
<1>1. r.src \in Nat /\ r.dst \in Nat /\ r.blockNum \in Nat /\ r.repeatGap \in Nat /\ r.repeat \in Nat
  BY DEF Operands, OperandsOf
<1>2. k \in Nat
  BY <1>1
<1>3. a = [n \in 1..k |-> MemRecord(src[n], srcSize[n], dst[n], dstSize[n])]
  BY DEF Set2d, MovLocalBlockSize
<1>4. src \in [1..k -> Int]
  BY <1>1
<1>5. srcSize \in [1..k -> Int]
  BY <1>1
<1>6. dst \in [1..k -> Int]
  BY <1>1
<1>7. dstSize \in [1..k -> Int]
  BY <1>1
<1>8. Parts(a, k, src, srcSize, dst, dstSize)
  <2> HIDE DEF a, k, src, dst, srcSize, dstSize
  <2> QED
    BY <1>2, <1>3, <1>4, <1>5, <1>6, <1>7, PartsOf
<1>9. Listed(a, k) /\ \A n \in 1..k : a[n].dstMemSize = dstSize[n]
  <2> HIDE DEF a, k, src, dst, srcSize, dstSize
  <2> QED
    BY <1>8 DEF Parts
<1> QED
  BY <1>9

LEMMA Load2dV2DecAre ==
  ASSUME NEW r, Operands(r), r.type = "LOAD_2DV2_DEC"
  PROVE  /\ Listed(Load2dV2Dec(r), r.kStep * r.mStep)
         /\ \A n \in 1..(r.kStep * r.mStep) :
                /\ Load2dV2Dec(r)[n].dstAddr = r.dst + (((n - 1) \div r.mStep) * r.dstStride
                     + ((n - 1) % r.mStep)) * 512
                /\ Load2dV2Dec(r)[n].dstMemSize = 512
<1> DEFINE k == r.kStep * r.mStep
           frac == SrcFracSize(r.decompMode)
           start == r.kStartPos * Absolute(r.srcStride) + r.mStartPos
           src == [n \in 1..k |-> r.src + (start + ((n - 1) \div r.mStep) * r.srcStride
               + ((n - 1) % r.mStep)) * frac]
           srcSize == [n \in 1..k |-> frac]
           dst == [n \in 1..k |-> r.dst + (((n - 1) \div r.mStep) * r.dstStride
               + ((n - 1) % r.mStep)) * 512]
           dstSize == [n \in 1..k |-> 512]
           a == Load2dV2Dec(r)
<1>1. r.src \in Nat /\ r.dst \in Nat /\ r.srcStride \in Nat /\ r.dstStride \in Nat
          /\ r.mStep \in Nat /\ r.kStep \in Nat /\ r.mStartPos \in Nat /\ r.kStartPos \in Nat
  BY DEF Operands, OperandsOf
<1>2. k \in Nat
  BY <1>1
<1>3. a = [n \in 1..k |-> MemRecord(src[n], srcSize[n], dst[n], dstSize[n])]
  BY DEF Load2dV2Dec, Load2dMovSize
<1>4. src \in [1..k -> Int]
  BY <1>1, AbsoluteType, SrcFracSizeType
<1>5. srcSize \in [1..k -> Int]
  BY <1>1, AbsoluteType, SrcFracSizeType
<1>6. dst \in [1..k -> Int]
  BY <1>1, AbsoluteType, SrcFracSizeType
<1>7. dstSize \in [1..k -> Int]
  BY <1>1, AbsoluteType, SrcFracSizeType
<1>8. Parts(a, k, src, srcSize, dst, dstSize)
  <2> HIDE DEF a, k, src, dst, srcSize, dstSize
  <2> QED
    BY <1>2, <1>3, <1>4, <1>5, <1>6, <1>7, PartsOf
<1>9. Listed(a, k) /\ \A n \in 1..k : a[n].dstAddr = dst[n] /\ a[n].dstMemSize = dstSize[n]
  <2> HIDE DEF a, k, src, dst, srcSize, dstSize
  <2> QED
    BY <1>8 DEF Parts
<1> QED
  BY <1>9

LEMMA Nd2nzAre ==
  ASSUME NEW r, Operands(r), r.type = "DMA_MOV_ND2NZ"
  PROVE  /\ Listed(Nd2nz(r), r.ndNum * r.nValue)
         /\ \A n \in 1..(r.ndNum * r.nValue) :
                /\ Nd2nz(r)[n].srcAddr = r.src
                     + ((r.srcNdMatrixStride * ((n - 1) \div r.nValue) * r.bits) \div 8)
                                      + ((r.srcDValue * r.bits) \div 8) * ((n - 1) % r.nValue)
                /\ Nd2nz(r)[n].srcMemSize = (r.dValue * r.bits) \div 8
<1> DEFINE k == r.ndNum * r.nValue
           src == [n \in 1..k |-> r.src + ((r.srcNdMatrixStride * ((n - 1) \div r.nValue) * r.bits) \div 8)
                                   + ((r.srcDValue * r.bits) \div 8) * ((n - 1) % r.nValue)]
           srcSize == [n \in 1..k |-> (r.dValue * r.bits) \div 8]
           dst == [n \in 1..k |-> 0]
           dstSize == [n \in 1..k |-> 32]
           a == Nd2nz(r)
<1>1. r.src \in Nat /\ r.ndNum \in Nat /\ r.nValue \in Nat /\ r.dValue \in Nat /\ r.bits \in Nat
          /\ r.srcDValue \in Nat /\ r.srcNdMatrixStride \in Nat
  BY DEF Operands, OperandsOf
<1>2. k \in Nat
  BY <1>1
<1>3. a = [n \in 1..k |-> MemRecord(src[n], srcSize[n], dst[n], dstSize[n])]
  BY DEF Nd2nz, BitsEachByte
<1>4. src \in [1..k -> Int]
  BY <1>1
<1>5. srcSize \in [1..k -> Int]
  BY <1>1
<1>6. dst \in [1..k -> Int]
  BY <1>1
<1>7. dstSize \in [1..k -> Int]
  BY <1>1
<1>8. Parts(a, k, src, srcSize, dst, dstSize)
  <2> HIDE DEF a, k, src, dst, srcSize, dstSize
  <2> QED
    BY <1>2, <1>3, <1>4, <1>5, <1>6, <1>7, PartsOf
<1>9. Listed(a, k) /\ \A n \in 1..k : a[n].srcAddr = src[n] /\ a[n].srcMemSize = srcSize[n]
  <2> HIDE DEF a, k, src, dst, srcSize, dstSize
  <2> QED
    BY <1>8 DEF Parts
<1> QED
  BY <1>9

(* The parameters of the transports by rows, and of the fix pipe to rows.   *)
RowsOf(r) == IF r.type = "DMA_MOV_ND2NZ_DAV" THEN r.nValue ELSE r.dValue
ElementsOf(r) == IF r.type = "DMA_MOV_ND2NZ_DAV" THEN r.dValue ELSE r.nValue
ElementBytes(r) == IF r.bits < 8 THEN 1 ELSE r.bits \div 8
PixelBytes(r) == IF r.quantPreBits = 4 THEN 1 ELSE r.quantPreBits \div 8
PixelsOf(r, number) == IF r.quantPreBits = 4 THEN number \div 2 ELSE number

LEMMA NdOrDn2nzDavAre ==
  ASSUME NEW r, Operands(r), r.type \in {"DMA_MOV_ND2NZ_DAV", "DMA_MOV_DN2NZ_D"}
  PROVE  /\ Listed(NdOrDn2nzDav(r), r.ndNum * RowsOf(r))
         /\ \A n \in 1..(r.ndNum * RowsOf(r)) :
                /\ NdOrDn2nzDav(r)[n].srcAddr = r.src + ((n - 1) \div RowsOf(r)) * r.loop4SrcStride
                                              + ((n - 1) % RowsOf(r)) * r.loop1SrcStride
                /\ NdOrDn2nzDav(r)[n].srcMemSize = ElementsOf(r) * ElementBytes(r)
<1> DEFINE k == r.ndNum * RowsOf(r)
           step == IF r.smallC0 THEN 4 * ElementBytes(r) ELSE r.loop2DstStride * 32
           dstLen == IF r.smallC0 THEN 4 * ElementBytes(r) ELSE AlignToCeil(RowsOf(r) * ElementBytes(r), 32)
           src == [n \in 1..k |-> r.src + ((n - 1) \div RowsOf(r)) * r.loop4SrcStride
               + ((n - 1) % RowsOf(r)) * r.loop1SrcStride]
           srcSize == [n \in 1..k |-> ElementsOf(r) * ElementBytes(r)]
           dst == [n \in 1..k |-> r.dst + ((n - 1) \div RowsOf(r)) * r.loop4DstStride * 32
               + ((n - 1) % RowsOf(r)) * step]
           dstSize == [n \in 1..k |-> dstLen]
           a == NdOrDn2nzDav(r)
<1>1. r.src \in Nat /\ r.dst \in Nat /\ r.ndNum \in Nat /\ r.nValue \in Nat /\ r.dValue \in Nat
          /\ r.bits \in Nat /\ r.loop1SrcStride \in Nat /\ r.loop4SrcStride \in Nat
               /\ r.loop2DstStride \in Nat /\ r.loop4DstStride \in Nat
  BY DEF Operands, OperandsOf
<1>a. /\ RowsOf(r) \in Nat /\ ElementsOf(r) \in Nat /\ ElementBytes(r) \in Nat
      /\ step \in Nat /\ dstLen \in Nat
  <2>1. RowsOf(r) \in Nat /\ ElementsOf(r) \in Nat /\ ElementBytes(r) \in Nat
    BY <1>1 DEF RowsOf, ElementsOf, ElementBytes
  <2>2. RowsOf(r) * ElementBytes(r) \in Nat
    BY <2>1
  <2>3. AlignToCeil(RowsOf(r) * ElementBytes(r), 32) \in Nat
    BY <2>2, AlignType
  <2> QED
    BY <1>1, <2>1, <2>3
<1> HIDE DEF step, dstLen
<1>2. k \in Nat
  BY <1>1, <1>a
<1>3. a = [n \in 1..k |-> MemRecord(src[n], srcSize[n], dst[n], dstSize[n])]
  BY DEF step, dstLen, NdOrDn2nzDav, RowsOf, ElementsOf, ElementBytes, BitsEachByte
<1>4. src \in [1..k -> Int]
  BY <1>1, <1>a
<1>5. srcSize \in [1..k -> Int]
  BY <1>1, <1>a
<1>6. dst \in [1..k -> Int]
  BY <1>1, <1>a
<1>7. dstSize \in [1..k -> Int]
  BY <1>1, <1>a
<1>8. Parts(a, k, src, srcSize, dst, dstSize)
  <2> HIDE DEF a, k, src, dst, srcSize, dstSize
  <2> QED
    BY <1>2, <1>3, <1>4, <1>5, <1>6, <1>7, PartsOf
<1>9. Listed(a, k) /\ \A n \in 1..k : a[n].srcAddr = src[n] /\ a[n].srcMemSize = srcSize[n]
  <2> HIDE DEF a, k, src, dst, srcSize, dstSize
  <2> QED
    BY <1>8 DEF Parts
<1> QED
  BY <1>9

LEMMA FixPipeNZ2NDAre ==
  ASSUME NEW r, Operands(r), r.type \in {"MOV_FP", "FIX_L0C_TO_OUT"}
  PROVE  /\ Listed(FixPipeNZ2ND(r), r.ndNum * r.mSize)
         /\ \A n \in 1..(r.ndNum * r.mSize) :
                /\ FixPipeNZ2ND(r)[n].dstAddr = r.dst
                     + (r.dstNdStride * ((n - 1) \div r.mSize) * (r.quantPreBits \div 8)
                          + ((n - 1) % r.mSize) * PixelBytes(r) * PixelsOf(r, r.dstStride))
                /\ FixPipeNZ2ND(r)[n].dstMemSize = PixelBytes(r) * PixelsOf(r, r.nSize)
<1> DEFINE k == r.ndNum * r.mSize
           src == [n \in 1..k |-> r.src + (r.srcNdStride * ((n - 1) \div r.mSize) * (r.quantPreBits \div 8)
                                   + ((n - 1) % r.mSize) * PixelBytes(r) * PixelsOf(r, r.dstStride))]
           srcSize == [n \in 1..k |-> PixelBytes(r) * PixelsOf(r, r.nSize)]
           dst == [n \in 1..k |-> r.dst + (r.dstNdStride * ((n - 1) \div r.mSize) * (r.quantPreBits \div 8)
                                   + ((n - 1) % r.mSize) * PixelBytes(r) * PixelsOf(r, r.dstStride))]
           dstSize == [n \in 1..k |-> PixelBytes(r) * PixelsOf(r, r.nSize)]
           a == FixPipeNZ2ND(r)
<1>1. r.src \in Nat /\ r.dst \in Nat /\ r.nSize \in Nat /\ r.mSize \in Nat /\ r.dstStride \in Nat
          /\ r.ndNum \in Nat /\ r.srcNdStride \in Nat /\ r.dstNdStride \in Nat /\ r.quantPreBits \in Nat
  BY DEF Operands, OperandsOf
<1>a. PixelBytes(r) \in Nat /\ PixelsOf(r, r.nSize) \in Nat /\ PixelsOf(r, r.dstStride) \in Nat
      /\ r.quantPreBits \div 8 \in Nat
  BY <1>1 DEF PixelBytes, PixelsOf
<1>2. k \in Nat
  BY <1>1, <1>a
<1>b. a = [n \in 1..k |-> MemRecord(
  r.src + (r.srcNdStride * ((n - 1) \div r.mSize) * (r.quantPreBits \div 8)
      + ((n - 1) % r.mSize) * PixelBytes(r) * PixelsOf(r, r.dstStride)),
  PixelBytes(r) * PixelsOf(r, r.nSize),
  r.dst + (r.dstNdStride * ((n - 1) \div r.mSize) * (r.quantPreBits \div 8)
      + ((n - 1) % r.mSize) * PixelBytes(r) * PixelsOf(r, r.dstStride)),
  PixelBytes(r) * PixelsOf(r, r.nSize))]
  BY Zenon DEF FixPipeNZ2ND, PixelBytes, PixelsOf, BitsEachByte
<1>3. a = [n \in 1..k |-> MemRecord(src[n], srcSize[n], dst[n], dstSize[n])]
  <2> HIDE DEF a
  <2> QED
    BY <1>b
<1>4. src \in [1..k -> Int]
  BY <1>1, <1>a
<1>5. srcSize \in [1..k -> Int]
  BY <1>1, <1>a
<1>6. dst \in [1..k -> Int]
  BY <1>1, <1>a
<1>7. dstSize \in [1..k -> Int]
  BY <1>1, <1>a
<1>8. Parts(a, k, src, srcSize, dst, dstSize)
  <2> HIDE DEF a, k, src, dst, srcSize, dstSize
  <2> QED
    BY <1>2, <1>3, <1>4, <1>5, <1>6, <1>7, PartsOf
<1>9. Listed(a, k) /\ \A n \in 1..k : a[n].dstAddr = dst[n] /\ a[n].dstMemSize = dstSize[n]
  <2> HIDE DEF a, k, src, dst, srcSize, dstSize
  <2> QED
    BY <1>8 DEF Parts
<1> QED
  BY <1>9

(* The loops around the bursts, and what they make of a position.           *)
Loops(r) == r.loop1Size >= 1 /\ r.loop2Size >= 1
InnerOf(r) == IF Loops(r) THEN r.loop1Size ELSE 1
OuterOf(r) == IF Loops(r) THEN r.loop2Size ELSE 1
BurstOf(r) == MovAlignV2Burst(r)
OffsetOf(r, stride2, stride1, stride, n) ==
    (n % BurstOf(r).nBurst) * stride
      + (IF Loops(r) THEN ((n \div BurstOf(r).nBurst) % InnerOf(r)) * stride1
                            + (n \div (BurstOf(r).nBurst * InnerOf(r))) * stride2
                     ELSE 0)
BlocksOf(r) ==
    AlignToCeil(BurstOf(r).size + (IF Loops(r) THEN 0 ELSE r.leftPaddingNum + r.rightPaddingNum), 32)

LEMMA MovAlignV2Facts ==
  ASSUME NEW r, Operands(r), r.type = "MOV_ALIGN_V2"
  PROVE  /\ InnerOf(r) \in Nat \ {0} /\ OuterOf(r) \in Nat \ {0}
         /\ BurstOf(r).nBurst \in Nat /\ BurstOf(r).size \in Nat /\ BlocksOf(r) \in Nat
         /\ BurstOf(r).nBurst # 0 =>
                \A stride2, stride1, stride, n \in Nat : OffsetOf(r, stride2, stride1, stride, n) \in Nat
<1>1. /\ r.nBurst \in Nat /\ r.lenBurst \in Nat /\ r.loop1Size \in Nat /\ r.loop2Size \in Nat
      /\ r.leftPaddingNum \in Nat /\ r.rightPaddingNum \in Nat
  BY DEF Operands, OperandsOf
<1>2. InnerOf(r) \in Nat \ {0} /\ OuterOf(r) \in Nat \ {0}
  BY <1>1 DEF InnerOf, OuterOf, Loops
<1>3. BurstOf(r).nBurst \in Nat /\ BurstOf(r).size \in Nat
  <2>1. CASE Compact(r)
    BY <1>1, <2>1 DEF BurstOf, MovAlignV2Burst
  <2>2. CASE ~Compact(r)
    BY <1>1, <2>2 DEF BurstOf, MovAlignV2Burst
  <2> QED
    BY <2>1, <2>2
<1>4. BlocksOf(r) \in Nat
  <2> DEFINE v == BurstOf(r).size + (IF Loops(r) THEN 0 ELSE r.leftPaddingNum + r.rightPaddingNum)
  <2>1. v \in Nat
    BY <1>1, <1>3
  <2> HIDE DEF v
  <2>2. AlignToCeil(v, 32) \in Nat
    BY <2>1, AlignType
  <2> QED
    BY <2>2 DEF v, BlocksOf
<1>5. ASSUME BurstOf(r).nBurst # 0, NEW stride2 \in Nat, NEW stride1 \in Nat, NEW stride \in Nat,
                 NEW n \in Nat
      PROVE  OffsetOf(r, stride2, stride1, stride, n) \in Nat
  <2>1. PICK b \in Nat \ {0} : b = BurstOf(r).nBurst
    BY <1>3, <1>5
  <2>2. PICK c \in Nat \ {0} : c = InnerOf(r)
    BY <1>2
  <2>3. /\ n % b \in Nat /\ n \div b \in Nat /\ (n \div b) % c \in Nat /\ b * c \in Nat \ {0}
        /\ n \div (b * c) \in Nat
    OBVIOUS
  <2> QED
    BY <2>1, <2>2, <2>3 DEF OffsetOf
<1> QED
  BY <1>2, <1>3, <1>4, <1>5

LEMMA MovAlignV2Are ==
  ASSUME NEW r, Operands(r), r.type = "MOV_ALIGN_V2"
  PROVE  /\ Listed(MovAlignV2(r), OuterOf(r) * InnerOf(r) * BurstOf(r).nBurst)
         /\ \A n \in 1..(OuterOf(r) * InnerOf(r) * BurstOf(r).nBurst) :
                /\ MovAlignV2(r)[n].srcAddr = r.src
                     + OffsetOf(r, r.loop2SrcStride, r.loop1SrcStride, r.srcStride, n - 1)
                /\ MovAlignV2(r)[n].dstAddr = r.dst
                     + OffsetOf(r, r.loop2DstStride, r.loop1DstStride, r.dstStride, n - 1)
                /\ MovAlignV2(r)[n].srcMemSize = (CASE r.dstMemType = "UB" -> BurstOf(r).size
                     [] r.dstMemType = "GM" -> BlocksOf(r) [] OTHER -> 0)
                /\ MovAlignV2(r)[n].dstMemSize = (CASE r.dstMemType = "UB" -> BlocksOf(r)
                     [] r.dstMemType = "GM" -> BurstOf(r).size [] OTHER -> 0)
<1> DEFINE k == OuterOf(r) * InnerOf(r) * BurstOf(r).nBurst
           src == [n \in 1..k |->
                      r.src + OffsetOf(r, r.loop2SrcStride, r.loop1SrcStride, r.srcStride, n - 1)]
           srcSize == [n \in 1..k |-> CASE r.dstMemType = "UB" -> BurstOf(r).size
               [] r.dstMemType = "GM" -> BlocksOf(r) [] OTHER -> 0]
           dst == [n \in 1..k |->
                      r.dst + OffsetOf(r, r.loop2DstStride, r.loop1DstStride, r.dstStride, n - 1)]
           dstSize == [n \in 1..k |-> CASE r.dstMemType = "UB" -> BlocksOf(r)
               [] r.dstMemType = "GM" -> BurstOf(r).size [] OTHER -> 0]
           a == MovAlignV2(r)
<1>1. r.src \in Nat /\ r.dst \in Nat /\ r.srcStride \in Nat /\ r.dstStride \in Nat
          /\ r.loop1Size \in Nat /\ r.loop2Size \in Nat /\ r.loop1SrcStride \in Nat
               /\ r.loop1DstStride \in Nat /\ r.loop2SrcStride \in Nat /\ r.loop2DstStride \in Nat
  BY DEF Operands, OperandsOf
<1>a. k \in Nat /\ BurstOf(r).size \in Nat /\ BlocksOf(r) \in Nat
  <2>1. PICK o \in Nat, i \in Nat, b \in Nat : o = OuterOf(r) /\ i = InnerOf(r) /\ b = BurstOf(r).nBurst
    BY MovAlignV2Facts
  <2>2. o * i * b \in Nat
    OBVIOUS
  <2> QED
    BY <2>1, <2>2, MovAlignV2Facts
<1>c. ASSUME NEW n \in 1..k
      PROVE  /\ OffsetOf(r, r.loop2SrcStride, r.loop1SrcStride, r.srcStride, n - 1) \in Nat
             /\ OffsetOf(r, r.loop2DstStride, r.loop1DstStride, r.dstStride, n - 1) \in Nat
  <2>1. PICK o \in Nat, i \in Nat, b \in Nat : o = OuterOf(r) /\ i = InnerOf(r) /\ b = BurstOf(r).nBurst
    BY MovAlignV2Facts
  <2>2. b = 0 => o * i * b = 0
    OBVIOUS
  <2>3. BurstOf(r).nBurst # 0
    BY <1>a, <2>1, <2>2
  <2>4. PICK m \in Nat : m = n - 1
    BY <1>a
  <2> QED
    BY <1>1, <2>3, <2>4, MovAlignV2Facts
<1>2. k \in Nat
  BY <1>1, <1>a, <1>c
<1>b. a = [n \in 1..k |-> MemRecord(
  r.src + OffsetOf(r, r.loop2SrcStride, r.loop1SrcStride, r.srcStride, n - 1),
  CASE r.dstMemType = "UB" -> BurstOf(r).size [] r.dstMemType = "GM" -> BlocksOf(r) [] OTHER -> 0,
  r.dst + OffsetOf(r, r.loop2DstStride, r.loop1DstStride, r.dstStride, n - 1),
  CASE r.dstMemType = "UB" -> BlocksOf(r) [] r.dstMemType = "GM" -> BurstOf(r).size [] OTHER -> 0)]
  BY Zenon DEF MovAlignV2, Loops, InnerOf, OuterOf, BurstOf, OffsetOf, BlocksOf, MovLocalBlockSize
<1>3. a = [n \in 1..k |-> MemRecord(src[n], srcSize[n], dst[n], dstSize[n])]
  <2> HIDE DEF a
  <2> QED
    BY <1>b
<1>4. src \in [1..k -> Int]
  BY <1>1, <1>a, <1>c
<1>5. srcSize \in [1..k -> Int]
  BY <1>1, <1>a, <1>c
<1>6. dst \in [1..k -> Int]
  BY <1>1, <1>a, <1>c
<1>7. dstSize \in [1..k -> Int]
  BY <1>1, <1>a, <1>c
<1>8. Parts(a, k, src, srcSize, dst, dstSize)
  <2> HIDE DEF a, k, src, dst, srcSize, dstSize
  <2> QED
    BY <1>2, <1>3, <1>4, <1>5, <1>6, <1>7, PartsOf
<1>9. Listed(a, k) /\ \A n \in 1..k : a[n].srcAddr = src[n] /\ a[n].dstAddr = dst[n]
          /\ a[n].srcMemSize = srcSize[n] /\ a[n].dstMemSize = dstSize[n]
  <2> HIDE DEF a, k, src, dst, srcSize, dstSize
  <2> QED
    BY <1>8 DEF Parts
<1> QED
  BY <1>9

(* Some of the columns of a matrix.                                        *)
ColumnsFrom(a, r, size, first, k) ==
    /\ Listed(a, k)
    /\ \A n \in 1..k :
           /\ a[n].dstAddr = r.dst + r.dstStride * (first + n - 1) * 32
           /\ a[n].dstMemSize = size

LEMMA ColumnsAre ==
  ASSUME NEW r, Operands(r), r.type \in {"MOV_FP", "FIX_L0C_TO_OUT"},
         NEW size \in Nat, NEW first \in Nat, NEW k \in Nat, NEW last, last = first + k - 1
  PROVE  ColumnsFrom(Columns(r, size, first, last), r, size, first, k)
<1> DEFINE src == [n \in 1..k |-> r.src + r.srcStride * (first + n - 1) * 32]
           dst == [n \in 1..k |-> r.dst + r.dstStride * (first + n - 1) * 32]
           sizes == [n \in 1..k |-> size]
           a == Columns(r, size, first, last)
<1>1. r.src \in Nat /\ r.dst \in Nat /\ r.srcStride \in Nat /\ r.dstStride \in Nat
  BY DEF Operands, OperandsOf
<1>2. last - first + 1 = k
  OBVIOUS
<1>3. a = [n \in 1..k |-> MemRecord(src[n], sizes[n], dst[n], sizes[n])]
  BY <1>2 DEF Columns, MovLocalBlockSize
<1>4. src \in [1..k -> Int] /\ dst \in [1..k -> Int] /\ sizes \in [1..k -> Int]
  BY <1>1
<1>5. Parts(a, k, src, sizes, dst, sizes)
  <2> HIDE DEF a, src, dst, sizes
  <2> QED
    BY <1>3, <1>4, PartsOf
<1>6. Listed(a, k) /\ \A n \in 1..k : a[n].dstAddr = dst[n] /\ a[n].dstMemSize = sizes[n]
  <2> HIDE DEF a, src, dst, sizes
  <2> QED
    BY <1>5 DEF Parts
<1>7. ColumnsFrom(a, r, size, first, k)
  <2> HIDE DEF a
  <2> QED
    BY <1>6 DEF ColumnsFrom
<1> QED
  BY <1>7

(* The columns a matrix is split to, and whether half a column follows.     *)
SplitOf(r) == GetSplitColumn(r, AlignUp(r.nSize, 16))
Odd(r) == "int8ChannelMerge" \in r.enabled /\ AlignUp(r.nSize, 16) % 2 # 0
ColumnsOf(r) == Columns(r, ColumnSize(r), 0, SplitOf(r) - 1)
HalfColumn(r) == Columns(r, ColumnSize(r) \div 2, SplitOf(r), SplitOf(r))

LEMMA FixPipeIs ==
  ASSUME NEW r, "enNZ2ND" \notin r.enabled
  PROVE  FixPipe(r) = ColumnsOf(r) \o (IF Odd(r) THEN HalfColumn(r) ELSE <<>>)
BY Zenon DEF FixPipe, FixPipeNormal, SplitOf, Odd, ColumnsOf, HalfColumn

LEMMA FixPipeFacts ==
  ASSUME NEW r, Operands(r), r.type \in {"MOV_FP", "FIX_L0C_TO_OUT"}, "enNZ2ND" \notin r.enabled
  PROVE  SplitOf(r) \in Nat /\ ColumnSize(r) \in Nat /\ ColumnSize(r) \div 2 \in Nat
<1>1. r.nSize \in Nat /\ r.mSize \in Nat /\ r.quantPreBits \in Nat /\ r.enabled \subseteq Merging
  BY DEF Operands, OperandsOf
<1>2. ColumnSize(r) \in Nat
  <2>1. r.mSize * r.quantPreBits \in Nat
    BY <1>1
  <2>2. ((r.mSize * r.quantPreBits) \div 8) \div 2 \in Nat
    BY <2>1
  <2> QED
    BY <1>1, <2>2 DEF ColumnSize, BitsEachByte, MovLocalBlockSize
<1>3. PICK c \in Nat : c = AlignUp(r.nSize, 16)
  BY <1>1, AlignType
<1>4. GetSplitColumn(r, c) \in Nat
  <2>1. AlignUp(r.nSize, 8) \in Nat
    BY <1>1, AlignType
  <2>2. CASE "channelSplit" \in r.enabled
    <3>1. r.enabled # {"enNZ2ND"} /\ r.enabled # {} /\ r.enabled \cap Merging # {"int8ChannelMerge"}
      BY <2>2 DEF Merging
    <3> QED
      BY <2>1, <2>2, <3>1 DEF GetSplitColumn
  <2>3. CASE "channelSplit" \notin r.enabled /\ "int4ChannelMerge" \in r.enabled
    <3>1. r.enabled # {"enNZ2ND"} /\ r.enabled # {} /\ r.enabled \cap Merging # {"int8ChannelMerge"}
      BY <2>3 DEF Merging
    <3> QED
      BY <2>3, <3>1 DEF GetSplitColumn
  <2>4. CASE "channelSplit" \notin r.enabled /\ "int4ChannelMerge" \notin r.enabled /\ r.enabled # {}
    <3>1. r.enabled \cap Merging = {"int8ChannelMerge"} /\ r.enabled # {"enNZ2ND"}
      BY <1>1, <2>4 DEF Merging
    <3> QED
      BY <2>4, <3>1 DEF GetSplitColumn
  <2>5. CASE r.enabled = {}
    <3>1. r.enabled \cap Merging # {"int8ChannelMerge"} /\ r.enabled # {"enNZ2ND"}
      BY <2>5
    <3> QED
      BY <2>5, <3>1 DEF GetSplitColumn
  <2> QED
    BY <2>2, <2>3, <2>4, <2>5
<1> QED
  BY <1>2, <1>3, <1>4 DEF SplitOf

LEMMA FixPipeListed ==
  ASSUME NEW r, Operands(r), r.type \in {"MOV_FP", "FIX_L0C_TO_OUT"}
  PROVE  FixPipe(r) \in Seq(Accesses)
<1>1. CASE "enNZ2ND" \in r.enabled
  <2>1. FixPipe(r) = FixPipeNZ2ND(r)
    BY <1>1 DEF FixPipe
  <2> QED
    BY <2>1, FixPipeNZ2NDAre, ListedIsSeq
<1>2. CASE "enNZ2ND" \notin r.enabled
  <2>1. PICK k \in Nat, size \in Nat, half \in Nat :
            k = SplitOf(r) /\ size = ColumnSize(r) /\ half = ColumnSize(r) \div 2
    BY <1>2, FixPipeFacts
  <2>2. ColumnsOf(r) \in Seq(Accesses)
    <3>1. Listed(Columns(r, size, 0, k - 1), k)
      <4>1. k - 1 = 0 + k - 1
        OBVIOUS
      <4> QED
        BY <4>1, ColumnsAre DEF ColumnsFrom
    <3> QED
      BY <2>1, <3>1, ListedIsSeq DEF ColumnsOf
  <2>3. HalfColumn(r) \in Seq(Accesses)
    <3>1. Listed(Columns(r, half, k, k), 1)
      <4>1. k = k + 1 - 1
        OBVIOUS
      <4> QED
        BY <4>1, ColumnsAre DEF ColumnsFrom
    <3> QED
      BY <2>1, <3>1, ListedIsSeq DEF HalfColumn
  <2>4. <<>> \in Seq(Accesses)
    BY EmptySeq
  <2> DEFINE c == ColumnsOf(r)
             h == IF Odd(r) THEN HalfColumn(r) ELSE <<>>
  <2>5. c \in Seq(Accesses) /\ h \in Seq(Accesses)
    BY <2>2, <2>3, <2>4
  <2>6. FixPipe(r) = c \o h
    BY <1>2, FixPipeIs
  <2> HIDE DEF c, h
  <2> QED
    BY <2>5, <2>6, ConcatProperties
<1> QED
  BY <1>1, <1>2

LEMMA PaddedListed ==
  ASSUME NEW r, Operands(r), r.type \in {"DMA_MOV", "MOV_V2_A5"}, r.padMode \in 1..8
  PROVE  PaddedBursts(r) \in Seq(Accesses)
<1> DEFINE lastBlock(stride) == (r.nBurst - 1) * (1 + stride) * 32
<1>1. /\ r.nBurst \in Nat /\ r.src \in Nat /\ r.dst \in Nat /\ r.srcStride \in Nat /\ r.dstStride \in Nat
  BY DEF Operands, OperandsOf
<1>2. \A stride \in Nat : lastBlock(stride) \in Int
  BY <1>1
<1>3. CalcPadModeSize(r) \in Int
  <2> DEFINE scale == CASE r.padMode = 1 -> 32 [] r.padMode = 2 -> 16 [] r.padMode \in {3, 6} -> 8
                        [] r.padMode \in {4, 7} -> 4 [] r.padMode \in {5, 8} -> 2
  <2>1. scale \in {32, 16, 8, 4, 2}
    OBVIOUS
  <2>2. CalcPadModeSize(r) = r.nBurst * (32 \div scale)
    BY DEF CalcPadModeSize, MovLocalBlockSize
  <2> HIDE DEF scale
  <2>3. 32 \div scale \in Int
    BY <2>1
  <2> QED
    BY <1>1, <2>2, <2>3
<1>4. CASE r.padMode <= 5
  <2>1. PaddedBursts(r) = <<MemRecord(r.src, CalcPadModeSize(r), r.dst + lastBlock(r.dstStride), 32)>>
    BY <1>4 DEF PaddedBursts, MovLocalBlockSize
  <2> HIDE DEF lastBlock
  <2>2. PICK s \in Int, ss \in Int, d \in Int :
            s = r.src /\ ss = CalcPadModeSize(r) /\ d = r.dst + lastBlock(r.dstStride)
    BY <1>1, <1>2, <1>3
  <2>3. PICK access \in Accesses : access = MemRecord(s, ss, d, 32)
    BY <2>2, MemRecordType
  <2>4. PaddedBursts(r) = <<access>>
    BY <2>1, <2>2, <2>3
  <2> QED
    BY <2>4, OneListed, ListedIsSeq
<1>5. CASE r.padMode > 5
  <2>1. PaddedBursts(r) = <<MemRecord(r.src + lastBlock(r.srcStride), 32, r.dst, CalcPadModeSize(r))>>
    BY <1>5 DEF PaddedBursts, MovLocalBlockSize
  <2> HIDE DEF lastBlock
  <2>2. PICK s \in Int, d \in Int, ds \in Int :
            s = r.src + lastBlock(r.srcStride) /\ d = r.dst /\ ds = CalcPadModeSize(r)
    BY <1>1, <1>2, <1>3
  <2>3. PICK access \in Accesses : access = MemRecord(s, 32, d, ds)
    BY <2>2, MemRecordType
  <2>4. PaddedBursts(r) = <<access>>
    BY <2>1, <2>2, <2>3
  <2> QED
    BY <2>4, OneListed, ListedIsSeq
<1> QED
  BY <1>4, <1>5

(* Single accesses                                                         *)
LEMMA SinglesAre ==
  ASSUME NEW r, Operands(r)
  PROVE  /\ r.type = "LOAD_2DV2" =>
                /\ Listed(Load2dV2(r), 1) /\ Load2dV2(r)[1].dstMemSize = r.mStep * r.kStep * 512
         /\ r.type = "LOAD_MX2DV2" =>
                /\ Listed(LoadMX2dV2(r), 1) /\ LoadMX2dV2(r)[1].srcMemSize = r.xStep * r.yStep * 32
         /\ r.type = "SIMT_LOAD_STORE" =>
                Listed(LoadStore(r), 1) /\ LoadStore(r)[1].srcMemSize = r.size
<1>1. ASSUME r.type = "LOAD_2DV2"
      PROVE  Listed(Load2dV2(r), 1) /\ Load2dV2(r)[1].dstMemSize = r.mStep * r.kStep * 512
  <2>1. /\ r.src \in Nat /\ r.dst \in Nat /\ r.mStep \in Nat /\ r.kStep \in Nat
        /\ r.srcStride \in Nat /\ r.kStartPos \in Nat /\ r.mStartPos \in Nat
    BY <1>1 DEF Operands, OperandsOf
  <2>2. PICK stride \in Int : stride = Absolute(r.srcStride)
    BY <2>1, AbsoluteType
  <2>3. PICK s \in Int, size \in Int, d \in Int :
            /\ s = r.src + (stride * r.kStartPos + r.mStartPos) * 512
            /\ size = r.mStep * r.kStep * 512 /\ d = r.dst
    <3>1. stride * r.kStartPos \in Int /\ r.mStep * r.kStep \in Nat
      BY <2>1
    <3> QED
      BY <2>1, <3>1
  <2>4. PICK access \in Accesses : access = MemRecord(s, size, d, size) /\ access.dstMemSize = size
    BY MemRecordType
  <2>5. Load2dV2(r) = <<access>>
    BY <2>2, <2>3, <2>4 DEF Load2dV2, Load2dMovSize
  <2> QED
    BY <2>3, <2>4, <2>5, OneListed
<1>2. ASSUME r.type = "LOAD_MX2DV2"
      PROVE  Listed(LoadMX2dV2(r), 1) /\ LoadMX2dV2(r)[1].srcMemSize = r.xStep * r.yStep * 32
  <2>1. /\ r.src \in Nat /\ r.dst \in Nat /\ r.xStep \in Nat /\ r.yStep \in Nat
        /\ r.srcStride \in Nat /\ r.xStartPos \in Nat /\ r.yStartPos \in Nat
    BY <1>2 DEF Operands, OperandsOf
  <2>2. PICK s \in Int, size \in Int, d \in Int :
            /\ s = r.src + (r.srcStride * r.xStartPos + r.yStartPos) * 32
            /\ size = r.xStep * r.yStep * 32 /\ d = r.dst
    <3>1. r.srcStride * r.xStartPos \in Nat /\ r.xStep * r.yStep \in Nat
      BY <2>1
    <3> QED
      BY <2>1, <3>1
  <2>3. PICK access \in Accesses : access = MemRecord(s, size, d, size) /\ access.srcMemSize = size
    BY MemRecordType
  <2>4. LoadMX2dV2(r) = <<access>>
    BY <2>2, <2>3 DEF LoadMX2dV2, MovLocalBlockSize
  <2> QED
    BY <2>2, <2>3, <2>4, OneListed
<1>3. ASSUME r.type = "SIMT_LOAD_STORE"
      PROVE  Listed(LoadStore(r), 1) /\ LoadStore(r)[1].srcMemSize = r.size
  <2>1. PICK addr \in Int, reg \in Int, size \in Int : addr = r.addr /\ reg = r.reg /\ size = r.size
    BY <1>3 DEF Operands, OperandsOf
  <2>2. PICK load \in Accesses, store \in Accesses :
            /\ load = MemRecord(addr, size, reg, size) /\ load.srcMemSize = size
            /\ store = MemRecord(reg, size, addr, size) /\ store.srcMemSize = size
    BY MemRecordType
  <2>3. LoadStore(r) = <<load>> \/ LoadStore(r) = <<store>>
    BY <2>1, <2>2 DEF LoadStore
  <2> QED
    BY <2>1, <2>2, <2>3, OneListed
<1> QED
  BY <1>1, <1>2, <1>3

LEMMA AtomRedAre ==
  ASSUME NEW r, Operands(r), r.type = "SIMT_ATOM_RED"
  PROVE  \E k \in {1, 2} :
            /\ Listed(AtomRed(r), k) /\ k = (IF r.simtType = "ATOM" THEN 2 ELSE 1)
            /\ \A n \in 1..k : AtomRed(r)[n].srcMemSize = r.size
<1>1. PICK size \in Int : size = r.size
  BY DEF Operands, OperandsOf
<1>2. PICK access \in Accesses : access = MemRecord(0, size, 0, size) /\ access.srcMemSize = size
  BY MemRecordType
<1>3. CASE r.simtType = "ATOM"
  <2>1. AtomRed(r) = <<access, access>>
    BY <1>1, <1>2, <1>3 DEF AtomRed
  <2>2. Listed(<<access, access>>, 2)
    BY DEF Listed
  <2> QED
    BY <1>1, <1>2, <1>3, <2>1, <2>2
<1>4. CASE r.simtType # "ATOM"
  <2>1. AtomRed(r) = <<access>>
    BY <1>1, <1>2, <1>4 DEF AtomRed
  <2> QED
    BY <1>1, <1>2, <1>4, <2>1, OneListed
<1> QED
  BY <1>3, <1>4

(* Bursts, as the types of records use them.                                *)
LEMMA BlockBurstsAre ==
  ASSUME NEW r, Operands(r), r.type \in {"DMA_MOV", "MOV_A5", "MOV_V2_A5"}
  PROVE  /\ Listed(BlockBursts(r), r.nBurst)
         /\ \A n \in 1..r.nBurst :
                /\ BlockBursts(r)[n].srcAddr = r.src + (n - 1) * (r.lenBurst * 32 + r.srcStride * 32)
                /\ BlockBursts(r)[n].srcMemSize = r.lenBurst * 32
<1>1. /\ r.nBurst \in Nat /\ r.src \in Nat /\ r.dst \in Nat
      /\ r.lenBurst \in Nat /\ r.srcStride \in Nat /\ r.dstStride \in Nat
  BY DEF Operands, OperandsOf
<1>2. PICK len \in Nat, srcGap \in Nat, dstGap \in Nat :
          len = r.lenBurst * 32 /\ srcGap = r.srcStride * 32 /\ dstGap = r.dstStride * 32
  BY <1>1
<1>3. BlockBursts(r) = Bursts(r, len, srcGap, len, dstGap)
  BY <1>2 DEF BlockBursts, MovLocalBlockSize
<1>4. Evenly(Bursts(r, len, srcGap, len, dstGap), r, len, srcGap, len, dstGap)
  BY <1>1, BurstsAre, Zenon
<1>5. Evenly(BlockBursts(r), r, len, srcGap, len, dstGap)
  BY <1>3, <1>4, Zenon
<1> QED
  BY <1>2, <1>5 DEF Evenly

LEMMA ByteBurstsAre ==
  ASSUME NEW r, Operands(r), r.type = "DMA_MOV"
  PROVE  /\ Listed(ByteBursts(r), r.nBurst)
         /\ \A n \in 1..r.nBurst :
                /\ ByteBursts(r)[n].dstAddr = r.dst + (n - 1) * (r.lenBurst + r.dstStride * 32)
                /\ ByteBursts(r)[n].dstMemSize = r.lenBurst
<1>1. /\ r.nBurst \in Nat /\ r.src \in Nat /\ r.dst \in Nat
      /\ r.lenBurst \in Nat /\ r.srcStride \in Nat /\ r.dstStride \in Nat
  BY DEF Operands, OperandsOf
<1>2. PICK blocks \in Nat, len \in Nat, srcGap \in Nat, dstGap \in Nat :
          /\ blocks = AlignToCeil(r.lenBurst, 32) /\ len = r.lenBurst
          /\ srcGap = r.srcStride * 32 /\ dstGap = r.dstStride * 32
  <2>1. AlignToCeil(r.lenBurst, 32) \in Nat
    BY <1>1, AlignType
  <2> QED
    BY <1>1, <2>1
<1>3. ByteBursts(r) = Bursts(r, blocks, srcGap, len, dstGap)
  BY <1>2 DEF ByteBursts, MovLocalBlockSize
<1>4. Evenly(Bursts(r, blocks, srcGap, len, dstGap), r, blocks, srcGap, len, dstGap)
  BY <1>1, BurstsAre, Zenon
<1>5. Evenly(ByteBursts(r), r, blocks, srcGap, len, dstGap)
  BY <1>3, <1>4, Zenon
<1> QED
  BY <1>2, <1>5 DEF Evenly

LEMMA MovAlignAre ==
  ASSUME NEW r, Operands(r), r.type = "MOV_ALIGN"
  PROVE  /\ Listed(MovAlign(r), r.nBurst)
         /\ r.srcMemType = "GM" =>
                \A n \in 1..r.nBurst : /\ MovAlign(r)[n].srcAddr = r.src + (n - 1) * 
                                                (r.lenBurst + r.srcStride)
                                        /\ MovAlign(r)[n].srcMemSize = r.lenBurst
         /\ r.dstMemType = "GM" =>
                \A n \in 1..r.nBurst : /\ MovAlign(r)[n].dstAddr = r.dst + (n - 1) * 
                                                (r.lenBurst + r.dstStride)
                                        /\ MovAlign(r)[n].dstMemSize = r.lenBurst
<1> DEFINE padding == ((r.leftPaddingNum + r.rightPaddingNum) * r.bits) \div 8
           srcLen == IF r.srcMemType = "GM" THEN r.lenBurst ELSE AlignToCeil(r.lenBurst, 32)
           srcGap == IF r.srcMemType = "GM" THEN r.srcStride ELSE r.srcStride * 32
           dstLen == IF r.dstMemType = "GM" THEN r.lenBurst ELSE AlignToCeil(r.lenBurst + padding, 32)
           dstGap == IF r.dstMemType = "GM" THEN r.dstStride ELSE r.dstStride * 32
<1>1. /\ r.nBurst \in Nat /\ r.src \in Nat /\ r.dst \in Nat /\ r.bits \in Nat
      /\ r.lenBurst \in Nat /\ r.srcStride \in Nat /\ r.dstStride \in Nat
      /\ r.leftPaddingNum \in Nat /\ r.rightPaddingNum \in Nat
  BY DEF Operands, OperandsOf
<1>2. padding \in Nat
  <2>1. (r.leftPaddingNum + r.rightPaddingNum) * r.bits \in Nat
    BY <1>1
  <2> QED
    BY <2>1
<1>3. srcLen \in Nat /\ srcGap \in Nat /\ dstLen \in Nat /\ dstGap \in Nat
  <2> HIDE DEF padding
  <2>1. r.lenBurst + padding \in Nat
    BY <1>1, <1>2
  <2>2. AlignToCeil(r.lenBurst, 32) \in Nat /\ AlignToCeil(r.lenBurst + padding, 32) \in Nat
    BY <1>1, <2>1, AlignType
  <2> QED
    BY <1>1, <2>2
<1>4. MovAlign(r) = Bursts(r, srcLen, srcGap, dstLen, dstGap)
  BY Zenon DEF MovAlign, MovLocalBlockSize, BitsEachByte
<1>5. /\ r.srcMemType = "GM" => srcLen = r.lenBurst /\ srcGap = r.srcStride
      /\ r.dstMemType = "GM" => dstLen = r.lenBurst /\ dstGap = r.dstStride
  OBVIOUS
<1>6. PICK sl \in Nat, sg \in Nat, dl \in Nat, dg \in Nat :
          sl = srcLen /\ sg = srcGap /\ dl = dstLen /\ dg = dstGap
  BY <1>3
<1> HIDE DEF padding, srcLen, srcGap, dstLen, dstGap
<1>7. Evenly(MovAlign(r), r, sl, sg, dl, dg)
  <2>1. Evenly(Bursts(r, sl, sg, dl, dg), r, sl, sg, dl, dg)
    BY <1>1, BurstsAre, Zenon
  <2> QED
    BY <1>4, <1>6, <2>1
<1> QED
  BY <1>5, <1>6, <1>7 DEF Evenly

(* The parser of each type.                                                *)
LEMMA ParserOf ==
  ASSUME NEW r
  PROVE  /\ r.type = "LOAD_2D" => AccessesOf(r) = Load2d(r)
         /\ r.type = "LOAD_L1_TO_L0B_2D_TRANSPOSE" => AccessesOf(r) = Load2dTranspose(r)
         /\ r.type = "LOAD_2DV2" => AccessesOf(r) = Load2dV2(r)
         /\ r.type = "LOAD_2DV2_DEC" => AccessesOf(r) = Load2dV2Dec(r)
         /\ r.type = "LOAD_MX2DV2" => AccessesOf(r) = LoadMX2dV2(r)
         /\ r.type = "SET_2D" => AccessesOf(r) = Set2d(r)
         /\ r.type = "DMA_MOV" => AccessesOf(r) = DmaMov(r)
         /\ r.type = "MOV_A5" => AccessesOf(r) = BlockBursts(r)
         /\ r.type = "MOV_V2_A5" => AccessesOf(r) = MovV2(r)
         /\ r.type = "MOV_ALIGN" => AccessesOf(r) = MovAlign(r)
         /\ r.type = "MOV_ALIGN_V2" => AccessesOf(r) = MovAlignV2(r)
         /\ r.type = "DMA_MOV_ND2NZ" => AccessesOf(r) = Nd2nz(r)
         /\ r.type \in {"DMA_MOV_ND2NZ_DAV", "DMA_MOV_DN2NZ_D"} => AccessesOf(r) = NdOrDn2nzDav(r)
         /\ r.type \in {"MOV_FP", "FIX_L0C_TO_OUT"} => AccessesOf(r) = FixPipe(r)
         /\ r.type = "SIMT_LOAD_STORE" => AccessesOf(r) = LoadStore(r)
         /\ r.type = "SIMT_ATOM_RED" => AccessesOf(r) = AtomRed(r)
BY DEF AccessesOf

(* What a parser makes of operands is a list of accesses.                  *)
LEMMA AccessesType ==
  ASSUME NEW r, r.type \in RecordTypes, Operands(r), ~Rejected(r)
  PROVE  AccessesOf(r) \in Seq(Accesses)
<1>1. CASE r.type = "LOAD_2D"
  BY <1>1, ParserOf, Load2dAre, ListedIsSeq
<1>2. CASE r.type = "LOAD_L1_TO_L0B_2D_TRANSPOSE"
  BY <1>2, ParserOf, Load2dTransposeAre, ListedIsSeq
<1>3. CASE r.type = "LOAD_2DV2"
  BY <1>3, ParserOf, SinglesAre, ListedIsSeq
<1>4. CASE r.type = "LOAD_2DV2_DEC"
  BY <1>4, ParserOf, Load2dV2DecAre, ListedIsSeq
<1>5. CASE r.type = "LOAD_MX2DV2"
  BY <1>5, ParserOf, SinglesAre, ListedIsSeq
<1>6. CASE r.type = "SET_2D"
  BY <1>6, ParserOf, Set2dAre, ListedIsSeq
<1>7. CASE r.type \in {"DMA_MOV", "MOV_V2_A5"}
  <2>1. BlockBursts(r) \in Seq(Accesses)
    BY <1>7, BlockBurstsAre, ListedIsSeq
  <2>2. CASE r.type = "DMA_MOV" /\ r.byteMode
    <3>1. AccessesOf(r) = ByteBursts(r)
      BY <2>2, ParserOf DEF DmaMov
    <3> QED
      BY <2>2, <3>1, ByteBurstsAre, ListedIsSeq
  <2>3. CASE ~(r.type = "DMA_MOV" /\ r.byteMode) /\ r.padMode = 0
    <3>1. AccessesOf(r) = BlockBursts(r)
      BY <1>7, <2>3, ParserOf DEF DmaMov, MovV2
    <3> QED
      BY <2>1, <3>1
  <2>4. CASE ~(r.type = "DMA_MOV" /\ r.byteMode) /\ r.padMode # 0
    <3>1. AccessesOf(r) = PaddedBursts(r)
      BY <1>7, <2>4, ParserOf DEF DmaMov, MovV2
    <3>2. r.padMode \in Nat /\ ~(r.padMode > 8)
      BY <1>7, <2>4 DEF Operands, OperandsOf, Rejected, PadModeInvalid
    <3> QED
      BY <1>7, <2>4, <3>1, <3>2, PaddedListed
  <2> QED
    BY <2>2, <2>3, <2>4
<1>8. CASE r.type = "MOV_A5"
  BY <1>8, ParserOf, BlockBurstsAre, ListedIsSeq
<1>9. CASE r.type = "MOV_ALIGN"
  BY <1>9, ParserOf, MovAlignAre, ListedIsSeq
<1>10. CASE r.type = "MOV_ALIGN_V2"
  BY <1>10, ParserOf, MovAlignV2Are, ListedIsSeq
<1>11. CASE r.type = "DMA_MOV_ND2NZ"
  BY <1>11, ParserOf, Nd2nzAre, ListedIsSeq
<1>12. CASE r.type \in {"DMA_MOV_ND2NZ_DAV", "DMA_MOV_DN2NZ_D"}
  BY <1>12, ParserOf, NdOrDn2nzDavAre, ListedIsSeq
<1>13. CASE r.type \in {"MOV_FP", "FIX_L0C_TO_OUT"}
  BY <1>13, ParserOf, FixPipeListed
<1>14. CASE r.type = "SIMT_LOAD_STORE"
  BY <1>14, ParserOf, SinglesAre, ListedIsSeq
<1>15. CASE r.type = "SIMT_ATOM_RED"
  BY <1>15, ParserOf, AtomRedAre, ListedIsSeq
<1> QED
  BY <1>1, <1>2, <1>3, <1>4, <1>5, <1>6, <1>7, <1>8, <1>9, <1>10, <1>11, <1>12, <1>13, <1>14, <1>15
     DEF RecordTypes
-----------------------------------------------------------------------------
(* The records of a packet                                                 *)

Unit == 1 + BodyLen

(* Record i of packet p has no body in the message, or is refused.         *)
Fails(p, i) == i * Unit > p.length \/ Rejected(p.records[i].body)
AccessesAt(p, i) == IF Fails(p, i) THEN <<>> ELSE AccessesOf(p.records[i].body)
Kept(p, n) == FlattenSeq([i \in 1..n |-> AccessesAt(p, i)])
Typed(p, S, t) == {i \in S : p.records[i].body.type = t}
Number(p, S, t) == Cardinality(Typed(p, S, t))
FailedOf(p, n) == {i \in 1..n : Fails(p, i)}

(* The headers of the first n records lie in the message and can be used.  *)
Read(p, n) == \A i \in 1..n : Known(p.records[i]) /\ (i - 1) * Unit + 1 < p.length

(* The packet ends behind record n: it has no more, no whole header         *)
(* follows, or one that cannot be used.                                     *)
EndsAt(p, n) == n < p.count => n * Unit + 1 >= p.length \/ ~Known(p.records[n + 1])

Numbers(number, refused, p, n) ==
    /\ number \in [RecordTypes -> Nat] /\ refused \in [RecordTypes -> Nat]
    /\ \A t \in RecordTypes : /\ number[t] = Number(p, 1..n, t)
                              /\ refused[t] = Number(p, FailedOf(p, n), t)

DbiInv ==
    /\ packet \in Packets
    /\ processedCount \in 0..packet.count
    /\ msgIndex = processedCount * Unit
    /\ Read(packet, processedCount)
    /\ memoryRecords = Kept(packet, processedCount)
    /\ Numbers(processed, failed, packet, processedCount)
    /\ tallied.done =>
          /\ tallied.processedRecord = processedCount
          /\ tallied.droppedRecord = packet.count - processedCount
          /\ EndsAt(packet, processedCount)

LEMMA UnitFacts ==
    /\ Unit \in Nat /\ Unit > 1
    /\ \A n \in Nat : n * Unit \in Nat /\ (n + 1) * Unit = n * Unit + Unit
BY BodyLenAssumption DEF Unit

LEMMA UnitDivides == \A n \in Nat : (n * Unit) % Unit = 0 /\ (n * Unit) \div Unit = n
BY UnitFacts

LEMMA UnitMonotonic == \A m, n \in Nat : m <= n => m * Unit <= n * Unit
BY UnitFacts

LEMMA PacketFacts ==
    ASSUME NEW p \in Packets
    PROVE  /\ p.length \in Nat /\ p.count \in Nat
           /\ \A i \in 1..p.count :
                 Known(p.records[i]) => AccessesAt(p, i) \in Seq(Accesses)
<1>1. p.length \in Nat /\ p.count \in Nat
  BY PacketsAssumption
<1>3. ASSUME NEW i \in 1..p.count, Known(p.records[i]), ~Rejected(p.records[i].body)
      PROVE  AccessesOf(p.records[i].body) \in Seq(Accesses)
  <2>1. p.records[i].body.type \in RecordTypes /\ Operands(p.records[i].body)
    BY <1>3, PacketsAssumption DEF Known
  <2> QED
    BY <1>3, <2>1, AccessesType
<1>2. <<>> \in Seq(Accesses)
  BY EmptySeq
<1> QED
  BY <1>1, <1>2, <1>3 DEF AccessesAt, Fails

(* One record more.                                                        *)
LEMMA KeptNext ==
    ASSUME NEW p \in Packets, NEW n \in Nat, n + 1 <= p.count,
           \A i \in 1..(n + 1) : Known(p.records[i])
    PROVE  Kept(p, n + 1) = Kept(p, n) \o AccessesAt(p, n + 1)
<1> DEFINE s == [i \in 1..n |-> AccessesAt(p, i)]
           t == [i \in 1..(n + 1) |-> AccessesAt(p, i)]
           x == AccessesAt(p, n + 1)
<1>1. \A i \in 1..(n + 1) : AccessesAt(p, i) \in Seq(Accesses)
  BY PacketFacts
<1>2. x \in Seq(Accesses)
  BY <1>1
<1>3. s \in Seq(Seq(Accesses)) /\ Len(s) = n
  BY <1>1
<1>4. \A i \in 1..n : s[i] = AccessesAt(p, i)
  OBVIOUS
<1>5. Append(s, x) = t
  <2>1. /\ Append(s, x) \in Seq(Seq(Accesses)) /\ Len(Append(s, x)) = n + 1
        /\ \A i \in 1..n : Append(s, x)[i] = s[i]
        /\ Append(s, x)[n + 1] = x
    <3> HIDE DEF s, x
    <3> QED BY <1>2, <1>3, AppendProperties
  <2>2. t \in Seq(Seq(Accesses)) /\ Len(t) = n + 1
    BY <1>1
  <2>3. \A i \in 1..(n + 1) : t[i] = AccessesAt(p, i)
    OBVIOUS
  <2> DEFINE u == Append(s, x)
  <2>4. \A i \in 1..(n + 1) : u[i] = t[i]
    <3> SUFFICES ASSUME NEW i \in 1..(n + 1) PROVE u[i] = t[i]
      OBVIOUS
    <3>1. CASE i = n + 1
      BY <3>1, <2>1, <2>3
    <3>2. CASE i \in 1..n
      BY <3>2, <2>1, <2>3, <1>4
    <3> QED
      BY <3>1, <3>2
  <2> HIDE DEF u, t
  <2> QED
    BY <2>1, <2>2, <2>4, SeqEqual DEF u
<1> HIDE DEF s, t, x
<1>6. FlattenSeq(Append(s, x)) = FlattenSeq(s) \o x
  BY <1>2, <1>3, FlattenAppend
<1> QED
  BY <1>5, <1>6 DEF Kept, s, t, x

(* Counting the records of a type: one record more.                        *)
Among(S, n) == S \subseteq 1..n

LEMMA TypedNext ==
    ASSUME NEW p, NEW n \in Nat, NEW t, NEW S, Among(S, n)
    PROVE  /\ p.records[n + 1].body.type = t =>
                  Number(p, S \cup {n + 1}, t) = Number(p, S, t) + 1
           /\ p.records[n + 1].body.type # t =>
                  Number(p, S \cup {n + 1}, t) = Number(p, S, t)
<1> DEFINE last == n + 1
<1>1. IsFiniteSet(Typed(p, S, t))
  <2>1. IsFiniteSet(1..n)
    BY FS_Interval
  <2>2. Typed(p, S, t) \subseteq 1..n
    BY DEF Typed, Among
  <2> QED
    BY <2>1, <2>2, FS_Subset
<1>2. last \notin Typed(p, S, t)
  BY DEF Typed, Among
<1> HIDE DEF last
<1>3. CASE p.records[last].body.type = t
  <2>1. Typed(p, S \cup {last}, t) = Typed(p, S, t) \cup {last}
    BY <1>3 DEF Typed
  <2> QED
    BY <1>1, <1>2, <1>3, <2>1, FS_AddElement, FS_CardinalityType DEF last, Number
<1>4. CASE p.records[last].body.type # t
  <2>1. Typed(p, S \cup {last}, t) = Typed(p, S, t)
    BY <1>4 DEF Typed
  <2> QED
    BY <1>1, <1>4, <2>1, FS_CardinalityType DEF last, Number
<1> QED
  BY <1>3, <1>4

(* What ParseRecord finds: the record behind those already parsed.         *)
LEMMA AtHeader ==
    ASSUME DbiInv
    PROVE  /\ packet \in Packets /\ processedCount \in Nat
           /\ packet.length \in Nat /\ packet.count \in Nat /\ processedCount <= packet.count
           /\ msgIndex \in Nat /\ msgIndex = processedCount * Unit
           /\ (processedCount + 1) * Unit = msgIndex + 1 + BodyLen
           /\ RecordAt(msgIndex) = packet.records[processedCount + 1]
<1>1. /\ packet \in Packets /\ packet.length \in Nat /\ packet.count \in Nat
      /\ processedCount \in 0..packet.count /\ msgIndex = processedCount * Unit
  BY PacketFacts DEF DbiInv
<1>2. processedCount \in Nat /\ processedCount <= packet.count
  BY <1>1
<1>3. msgIndex \in Nat /\ (processedCount + 1) * Unit = msgIndex + Unit
  BY <1>1, <1>2, UnitFacts
<1>4. msgIndex % Unit = 0 /\ msgIndex \div Unit = processedCount
  BY <1>1, <1>2, UnitDivides
<1>5. RecordAt(msgIndex) = packet.records[processedCount + 1]
  BY <1>4 DEF RecordAt, Unit
<1>6. msgIndex + Unit = msgIndex + 1 + BodyLen
  BY <1>3, BodyLenAssumption DEF Unit
<1> QED
  BY <1>1, <1>2, <1>3, <1>5, <1>6

LEMMA DbiInitInv == DbiInit => DbiInv
<1> SUFFICES ASSUME DbiInit PROVE DbiInv
  OBVIOUS
<1>1. packet \in Packets /\ packet.count \in Nat /\ processedCount = 0 /\ msgIndex = 0
  BY PacketFacts DEF DbiInit
<1>2. msgIndex = processedCount * Unit
  BY <1>1, UnitFacts
<1>3. Read(packet, 0)
  BY DEF Read
<1>4. Kept(packet, 0) = <<>>
  <2>1. [i \in 1..0 |-> AccessesAt(packet, i)] = <<>>
    OBVIOUS
  <2> QED
    BY <2>1, FlattenEmpty DEF Kept
<1>5. Numbers(processed, failed, packet, 0)
  <2>1. \A t : Typed(packet, 1..0, t) = {} /\ Typed(packet, FailedOf(packet, 0), t) = {}
    BY DEF Typed, FailedOf
  <2>2. \A t \in RecordTypes : processed[t] = 0 /\ failed[t] = 0
    BY DEF DbiInit, NoCounts
  <2>3. processed \in [RecordTypes -> Nat] /\ failed \in [RecordTypes -> Nat]
    BY DEF DbiInit, NoCounts
  <2> QED
    BY <2>1, <2>2, <2>3, FS_EmptySet DEF Numbers, Number
<1>6. memoryRecords = <<>> /\ ~tallied.done
  BY DEF DbiInit
<1> QED
  BY <1>1, <1>2, <1>3, <1>4, <1>5, <1>6 DEF DbiInv

LEMMA BreakAtHeaderInv == DbiInv /\ BreakAtHeader => DbiInv'
<1> SUFFICES ASSUME DbiInv, BreakAtHeader PROVE DbiInv'
  OBVIOUS
<1>1. /\ tallied' = [processedRecord |-> processedCount,
                     droppedRecord |-> packet.count - processedCount, done |-> TRUE]
      /\ UNCHANGED <<packet, msgIndex, processedCount, processed, failed, memoryRecords>>
      /\ HeaderCut \/ ~Known(RecordAt(msgIndex))
  BY DEF BreakAtHeader
<1>2. EndsAt(packet, processedCount)
  BY <1>1, AtHeader DEF EndsAt, HeaderCut
<1>3. /\ tallied'.processedRecord = processedCount
      /\ tallied'.droppedRecord = packet.count - processedCount
  BY <1>1
<1> QED
  BY <1>1, <1>2, <1>3 DEF DbiInv

LEMMA TallyPacketInv == DbiInv /\ TallyPacket => DbiInv'
<1> SUFFICES ASSUME DbiInv, TallyPacket PROVE DbiInv'
  OBVIOUS
<1>1. /\ tallied' = [processedRecord |-> processedCount,
                     droppedRecord |-> packet.count - processedCount, done |-> TRUE]
      /\ UNCHANGED <<packet, msgIndex, processedCount, processed, failed, memoryRecords>>
      /\ ~MoreRecords
  BY DEF TallyPacket
<1>2. EndsAt(packet, processedCount)
  BY <1>1, AtHeader DEF EndsAt, MoreRecords
<1>3. /\ tallied'.processedRecord = processedCount
      /\ tallied'.droppedRecord = packet.count - processedCount
  BY <1>1
<1> QED
  BY <1>1, <1>2, <1>3 DEF DbiInv

LEMMA ParseRecordInv == DbiInv /\ ParseRecord => DbiInv'
<1> SUFFICES ASSUME DbiInv, ParseRecord PROVE DbiInv'
  OBVIOUS
<1> DEFINE n == processedCount
           record == packet.records[n + 1]
           type == record.body.type
           fails == Fails(packet, n + 1)
<1>1. /\ packet \in Packets /\ n \in Nat /\ n < packet.count /\ packet.length \in Nat
      /\ packet.count \in Nat
      /\ msgIndex = n * Unit /\ msgIndex + 1 < packet.length
      /\ msgIndex' = (n + 1) * Unit
      /\ RecordAt(msgIndex) = record
  BY AtHeader DEF ParseRecord, MoreRecords, HeaderCut
<1>2. /\ Known(record) /\ type \in RecordTypes
      /\ UNCHANGED <<packet, tallied>> /\ processedCount' = n + 1 /\ ~tallied.done
      /\ processed' = [processed EXCEPT ![type] = @ + 1]
  BY <1>1 DEF ParseRecord, Known
<1>3. fails <=> ~(msgIndex' <= packet.length) \/ Rejected(record.body)
  <2>1. msgIndex' \in Nat
    BY <1>1, UnitFacts
  <2> QED
    BY <1>1, <2>1 DEF Fails
<1>4. /\ failed' = [failed EXCEPT ![type] = IF fails THEN @ + 1 ELSE @]
      /\ memoryRecords' = memoryRecords \o AccessesAt(packet, n + 1)
  BY <1>1, <1>3 DEF ParseRecord, AccessesAt
<1>5. Read(packet, n + 1)
  <2> SUFFICES ASSUME NEW i \in 1..(n + 1)
               PROVE  Known(packet.records[i]) /\ (i - 1) * Unit + 1 < packet.length
    BY DEF Read
  <2>1. CASE i \in 1..n
    BY <2>1 DEF DbiInv, Read
  <2>2. CASE i = n + 1
    <3>1. i - 1 = n
      BY <1>1, <2>2
    <3> QED
      BY <1>1, <1>2, <2>2, <3>1
  <2> QED
    BY <1>1, <2>1, <2>2
<1>6. memoryRecords' = Kept(packet, n + 1)
  <2>1. \A i \in 1..(n + 1) : Known(packet.records[i])
    BY <1>5 DEF Read
  <2>2. n + 1 <= packet.count
    BY <1>1
  <2> QED
    BY <1>1, <1>4, <2>1, <2>2, KeptNext DEF DbiInv
<1>7. Numbers(processed', failed', packet, n + 1)
  <2>1. /\ processed \in [RecordTypes -> Nat] /\ failed \in [RecordTypes -> Nat]
        /\ \A t \in RecordTypes :
              /\ processed[t] = Number(packet, 1..n, t)
              /\ failed[t] = Number(packet, FailedOf(packet, n), t)
    BY DEF DbiInv, Numbers
  <2>2. /\ processed' \in [RecordTypes -> Nat] /\ failed' \in [RecordTypes -> Nat]
        /\ \A t \in RecordTypes :
              /\ type = t => processed'[t] = processed[t] + 1
              /\ type # t => processed'[t] = processed[t]
              /\ fails /\ type = t => failed'[t] = failed[t] + 1
              /\ ~(fails /\ type = t) => failed'[t] = failed[t]
    <3> HIDE DEF fails, type
    <3> QED
      BY <1>2, <1>4, <2>1
  <2>3. ASSUME NEW t \in RecordTypes
        PROVE  processed'[t] = Number(packet, 1..(n + 1), t)
    <3>1. PICK S : S = 1..n
      OBVIOUS
    <3>2. 1..(n + 1) = S \cup {n + 1} /\ Among(S, n)
      BY <1>1, <3>1 DEF Among
    <3>3. /\ type = t => Number(packet, S \cup {n + 1}, t) = Number(packet, S, t) + 1
          /\ type # t => Number(packet, S \cup {n + 1}, t) = Number(packet, S, t)
      BY <1>1, <3>2, TypedNext
    <3> HIDE DEF n, type
    <3> QED
      BY <2>1, <2>2, <3>1, <3>2, <3>3
  <2>4. ASSUME NEW t \in RecordTypes
        PROVE  failed'[t] = Number(packet, FailedOf(packet, n + 1), t)
    <3>1. FailedOf(packet, n) \subseteq 1..n
      BY DEF FailedOf
    <3>2. FailedOf(packet, n + 1) = FailedOf(packet, n) \cup (IF fails THEN {n + 1} ELSE {})
      BY <1>1 DEF FailedOf
    <3>3. CASE fails
      <4>1. PICK S : S = FailedOf(packet, n)
        OBVIOUS
      <4>2. FailedOf(packet, n + 1) = S \cup {n + 1} /\ Among(S, n)
        BY <3>1, <3>2, <3>3, <4>1 DEF Among
      <4>3. /\ type = t => Number(packet, S \cup {n + 1}, t) = Number(packet, S, t) + 1
            /\ type # t => Number(packet, S \cup {n + 1}, t) = Number(packet, S, t)
        BY <1>1, <4>2, TypedNext
      <4> HIDE DEF n, type, fails
      <4> QED
        BY <2>1, <2>2, <3>3, <4>1, <4>2, <4>3
    <3>4. CASE ~fails
      <4>1. FailedOf(packet, n + 1) = FailedOf(packet, n)
        BY <3>2, <3>4
      <4> QED
        BY <2>1, <2>2, <3>4, <4>1
    <3> QED
      BY <3>3, <3>4
  <2> QED
    BY <1>2, <2>2, <2>3, <2>4 DEF Numbers
<1> QED
  BY <1>1, <1>2, <1>5, <1>6, <1>7 DEF DbiInv

LEMMA DbiInvariance == DbiSpec => []DbiInv
<1>1. DbiInv /\ UNCHANGED dbiVars => DbiInv'
  BY DEF DbiInv, dbiVars
<1>2. DbiInv /\ [DbiNext]_dbiVars => DbiInv'
  BY <1>1, BreakAtHeaderInv, ParseRecordInv, TallyPacketInv DEF DbiNext
<1> QED
  BY DbiInitInv, <1>2, PTL DEF DbiSpec
-----------------------------------------------------------------------------
(* Of a packet that ended behind record n, all records in front of the      *)
(* damage were read, and at most one behind them, whose body is cut off.    *)
LEMMA WholeDown ==
    ASSUME NEW m \in Nat, Whole(m), NEW k \in Nat, k <= m, packet.length \in Nat
    PROVE  Whole(k)
<1>1. k * Unit <= m * Unit /\ m * Unit <= packet.length
  BY UnitMonotonic DEF Whole, Unit
<1>2. k * Unit \in Nat /\ m * Unit \in Nat
  BY UnitFacts
<1>3. k * Unit <= packet.length
  BY <1>1, <1>2
<1>4. \A i \in 1..k : Known(packet.records[i])
  BY DEF Whole
<1> QED
  BY <1>3, <1>4 DEF Whole, Unit

LEMMA ReadableIs ==
    ASSUME DbiInv, tallied.done
    PROVE  Readable = IF processedCount * Unit <= packet.length THEN processedCount
                                                              ELSE processedCount - 1
<1> DEFINE n == processedCount
           m == IF n * Unit <= packet.length THEN n ELSE n - 1
<1>1. /\ n \in Nat /\ packet.count \in Nat /\ n <= packet.count /\ packet.length \in Nat
      /\ n * Unit \in Nat /\ (n + 1) * Unit = n * Unit + Unit /\ Unit \in Nat /\ Unit > 1
  BY AtHeader, UnitFacts
<1>2. Read(packet, n) /\ EndsAt(packet, n)
  BY DEF DbiInv
<1>3. m \in 0..packet.count
  BY <1>1, UnitFacts
<1>4. Whole(m)
  <2>1. \A i \in 1..m : Known(packet.records[i])
    BY <1>1, <1>2 DEF Read
  <2>2. m * Unit <= packet.length
    <3>1. CASE n * Unit <= packet.length
      BY <3>1
    <3>2. CASE ~(n * Unit <= packet.length)
      <4>1. n # 0
        BY <1>1, <3>2, UnitFacts
      <4>2. (n - 1) * Unit + 1 < packet.length /\ n - 1 \in Nat
        BY <1>1, <1>2, <4>1 DEF Read
      <4>3. (n - 1) * Unit \in Nat
        BY <4>2, UnitFacts
      <4> QED
        BY <1>1, <3>2, <4>2, <4>3
    <3> QED
      BY <3>1, <3>2
  <2> QED
    BY <2>1, <2>2 DEF Whole, Unit
<1>5. m = packet.count \/ ~Whole(m + 1)
  <2>1. CASE n * Unit <= packet.length
    <3>1. CASE n * Unit + 1 >= packet.length
      <4>1. ~((n + 1) * Unit <= packet.length)
        BY <1>1, <3>1
      <4> QED
        BY <2>1, <4>1 DEF Whole, Unit
    <3>2. CASE ~Known(packet.records[n + 1])
      BY <1>1, <2>1, <3>2 DEF Whole
    <3> QED
      BY <1>1, <1>2, <2>1, <3>1, <3>2 DEF EndsAt
  <2>2. CASE ~(n * Unit <= packet.length)
    <3>1. m + 1 = n
      BY <1>1, <2>2
    <3> QED
      BY <2>2, <3>1 DEF Whole, Unit
  <2> QED
    BY <2>1, <2>2
<1> HIDE DEF m
<1>6. ASSUME NEW k \in 0..packet.count, Whole(k), k = packet.count \/ ~Whole(k + 1)
      PROVE  k = m
  <2>1. CASE k < m
    <3>1. Whole(k + 1)
      BY <1>1, <1>3, <1>4, <2>1, WholeDown
    <3> QED
      BY <1>1, <1>3, <1>6, <2>1, <3>1
  <2>2. CASE m < k
    <3>1. Whole(m + 1)
      BY <1>1, <1>3, <1>6, <2>2, WholeDown
    <3> QED
      BY <1>1, <1>3, <1>5, <2>2, <3>1
  <2> QED
    BY <1>1, <1>3, <2>1, <2>2
<1>7. Readable = m
  BY <1>3, <1>4, <1>5, <1>6 DEF Readable
<1> QED
  BY <1>7 DEF m

(* However a packet is cut off or damaged, exactly the accesses of the      *)
(* accepted records in front of the damage are kept, in order, and every    *)
(* record announced is counted once (ParseMemoryChart), for any packet.     *)
THEOREM RecordsAccountedCorrect == DbiSpec => []RecordsAccounted
<1>1. ASSUME DbiInv, tallied.done PROVE RecordsAccounted
  <2> DEFINE n == processedCount
             m == Readable
  <2>1. /\ n \in Nat /\ packet \in Packets /\ packet.count \in Nat /\ n <= packet.count
        /\ packet.length \in Nat /\ n * Unit \in Nat /\ Read(packet, n)
        /\ memoryRecords = Kept(packet, n)
        /\ tallied.processedRecord = n /\ tallied.droppedRecord = packet.count - n
        /\ m = IF n * Unit <= packet.length THEN n ELSE n - 1
        /\ Numbers(processed, failed, packet, n)
    BY <1>1, AtHeader, UnitFacts, ReadableIs DEF DbiInv
  <2>2. m # n => n # 0 /\ m = n - 1 /\ Fails(packet, n)
    <3> HIDE DEF m
    <3>1. CASE n * Unit <= packet.length
      BY <2>1, <3>1
    <3>2. CASE ~(n * Unit <= packet.length)
      <4>1. PICK u \in Nat : u = n * Unit
        BY <2>1
      <4>2. u > packet.length
        BY <2>1, <3>2, <4>1
      <4>3. n = 0 => u = 0
        BY <4>1, UnitFacts
      <4>4. n # 0 /\ m = n - 1
        BY <2>1, <3>2, <4>2, <4>3
      <4>5. Fails(packet, n)
        BY <4>1, <4>2, Zenon DEF Fails
      <4> QED
        BY <4>4, <4>5
    <3> QED
      BY <3>1, <3>2
  <2>3. m \in 0..n
    BY <2>1, <2>2
  <2>4. ASSUME NEW i \in 1..m PROVE Fails(packet, i) <=> Rejected(Body(i))
    <3>1. i * Unit <= packet.length
      <4>1. i \in Nat /\ m \in Nat /\ i <= m
        BY <2>3
      <4>2. i * Unit <= m * Unit /\ i * Unit \in Nat /\ m * Unit \in Nat
        BY <4>1, UnitMonotonic, UnitFacts
      <4>3. m * Unit <= packet.length
        <5>1. CASE m = n
          BY <2>1, <5>1
        <5>2. CASE m # n
          <6>1. (n - 1) * Unit + 1 < packet.length /\ m = n - 1
            BY <2>1, <2>2, <5>2 DEF Read
          <6> QED
            BY <2>1, <4>2, <6>1
        <5> QED
          BY <5>1, <5>2
      <4> HIDE DEF m
      <4> QED
        BY <2>1, <4>2, <4>3
    <3>2. i * Unit \in Nat
      BY <2>3, UnitFacts
    <3> QED
      BY <2>1, <3>1, <3>2 DEF Fails, Body
  <2>5. Accepted = (1..n) \ FailedOf(packet, n)
    <3>1. \A i : i \in 1..n /\ i \notin 1..m => i = n /\ Fails(packet, i)
      BY <2>1, <2>2, <2>3
    <3>2. \A i : i \in Accepted <=> i \in 1..m /\ ~Fails(packet, i)
      BY <2>4 DEF Accepted
    <3>3. \A i : i \in 1..m => i \in 1..n
      BY <2>1, <2>3
    <3> HIDE DEF n, m
    <3> QED
      BY <3>1, <3>2, <3>3 DEF FailedOf
  <2>6. memoryRecords =
            FlattenSeq([i \in 1..m |-> IF i \in Accepted THEN AccessesOf(Body(i)) ELSE <<>>])
    <3>1. Kept(packet, n) = Kept(packet, m)
      <4>1. CASE m = n
        BY <4>1
      <4>2. CASE m # n
        <5>1. m \in Nat /\ m + 1 = n /\ AccessesAt(packet, n) = <<>>
          BY <2>1, <2>2, <4>2 DEF AccessesAt
        <5>2. \A i \in 1..n : Known(packet.records[i])
          BY <2>1 DEF Read
        <5>3. Kept(packet, m + 1) = Kept(packet, m) \o AccessesAt(packet, m + 1)
          BY <2>1, <5>1, <5>2, KeptNext
        <5>4. Kept(packet, m) \in Seq(Accesses)
          <6>1. \A i \in 1..m : AccessesAt(packet, i) \in Seq(Accesses)
            BY <2>1, <2>3, <5>2, PacketFacts
          <6>2. [i \in 1..m |-> AccessesAt(packet, i)] \in Seq(Seq(Accesses))
            BY <5>1, <6>1
          <6> QED
            BY <6>2, FlattenType DEF Kept
        <5>5. Kept(packet, m) \o <<>> = Kept(packet, m)
          BY <5>4, ConcatEmptySeq
        <5> QED
          BY <5>1, <5>3, <5>5
      <4> QED
        BY <4>1, <4>2
    <3>2. [i \in 1..m |-> AccessesAt(packet, i)] =
              [i \in 1..m |-> IF i \in Accepted THEN AccessesOf(Body(i)) ELSE <<>>]
      BY <2>4 DEF Accepted, AccessesAt, Body
    <3> QED
      BY <2>1, <3>1, <3>2 DEF Kept
  <2>7. \A i \in 1..n : Known(packet.records[i])
    BY <2>1 DEF Read
  <2>8. ASSUME NEW t \in RecordTypes
        PROVE  /\ processed[t] = Cardinality(OfType(1..n, t))
               /\ processed[t] - failed[t] = Cardinality(OfType(Accepted, t))
    <3> DEFINE all == Typed(packet, 1..n, t)
               bad == Typed(packet, FailedOf(packet, n), t)
    <3>1. processed[t] = Cardinality(all) /\ failed[t] = Cardinality(bad)
      BY <2>1 DEF Numbers, Number
    <3>2. OfType(1..n, t) = all
      BY DEF OfType, Typed, Body
    <3>3. OfType(Accepted, t) = all \ bad /\ all \cap bad = bad
      BY <2>5 DEF OfType, Typed, Body, FailedOf
    <3>4. IsFiniteSet(all)
      <4>1. IsFiniteSet(1..n)
        BY <2>1, FS_Interval
      <4>2. all \subseteq 1..n
        BY DEF Typed
      <4> QED
        BY <4>1, <4>2, FS_Subset
    <3> HIDE DEF all, bad
    <3>5. Cardinality(all \ bad) = Cardinality(all) - Cardinality(all \cap bad)
      BY <3>4, FS_Difference
    <3> QED
      BY <3>1, <3>2, <3>3, <3>5
  <2>9. tallied.processedRecord + tallied.droppedRecord = packet.count
    BY <2>1
  <2> QED
    BY <2>1, <2>6, <2>7, <2>8, <2>9 DEF RecordsAccounted
<1>2. DbiInv => RecordsAccounted
  BY <1>1 DEF RecordsAccounted
<1> QED
  BY <1>2, DbiInvariance, PTL
-----------------------------------------------------------------------------
(* Sums.  SumFunction adds the values of a function in the order in which   *)
(* CHOOSE takes the members of its domain; over a finite domain the order   *)
(* makes no difference.                                                     *)

(* A set of subsets of S that holds the empty one, and each that it would  *)
(* hold without one of its members.                                        *)
LEMMA SubsetInduction ==
    ASSUME NEW S, IsFiniteSet(S), NEW T, {} \in T,
           \A s \in SUBSET S : (s # {} /\ \A x \in s : s \ {x} \in T) => s \in T
    PROVE  \A s \in SUBSET S : s \in T
  <1> SUFFICES ASSUME NEW m \in SUBSET S, m \notin T PROVE FALSE
    OBVIOUS
  <1> DEFINE F == {s \in SUBSET S : s \notin T}
  <1>1. FiniteSubsetsOf(S) = SUBSET S
    BY FS_FiniteSubsetsOfFinite
  <1>2. PICK s \in F : \A t \in F : ~(<<t, s>> \in StrictSubsetOrdering(S))
    <2>1. IsWellFoundedOn(StrictSubsetOrdering(S), SUBSET S)
      <3>1. IsWellFoundedOn(StrictSubsetOrdering(S), FiniteSubsetsOf(S))
        BY FS_StrictSubsetOrderingWellFounded
      <3> QED
        BY <1>1, <3>1, Zenon
    <2>2. F \subseteq SUBSET S /\ F # {}
      OBVIOUS
    <2> HIDE DEF F
    <2> QED
      BY <2>1, <2>2, WFMin
  <1>3. s # {} /\ s \in SUBSET S /\ s \notin T
    OBVIOUS
  <1>4. ASSUME NEW x \in s PROVE s \ {x} \in T
    <2>1. <<s \ {x}, s>> \in StrictSubsetOrdering(S)
      BY <1>3 DEF StrictSubsetOrdering
    <2>2. s \ {x} \in SUBSET S
      BY <1>3
    <2> QED
      BY <1>2, <2>1, <2>2
  <1> QED
    BY <1>3, <1>4

(* g gives the sum of f over each subset of S, whatever the order.         *)
Sums(f, S, g) ==
    /\ g \in [SUBSET S -> Int]
    /\ g[{}] = 0
    /\ \A s \in SUBSET S : \A x \in s : g[s] = f[x] + g[s \ {x}]

LEMMA SumsExist ==
    ASSUME NEW S, IsFiniteSet(S), NEW f \in [S -> Int]
    PROVE  \E g : Sums(f, S, g)
  <1> DEFINE T == {s \in SUBSET S : \E g : Sums(f, s, g)}
  <1>1. {} \in T
    <2>1. Sums(f, {}, [s \in SUBSET {} |-> 0])
      BY DEF Sums
    <2> QED
      BY <2>1
  <1>2. ASSUME NEW s \in SUBSET S, s # {}, \A x \in s : s \ {x} \in T
        PROVE  s \in T
    <2>1. PICK x \in s : TRUE
      BY <1>2
    <2>2. PICK g : Sums(f, s \ {x}, g)
      BY <1>2
    <2> DEFINE h == [t \in SUBSET s |-> IF x \in t THEN f[x] + g[t \ {x}] ELSE g[t]]
    <2>3. /\ f[x] \in Int
          /\ \A t \in SUBSET s : t \ {x} \in SUBSET (s \ {x})
          /\ \A t \in SUBSET s : x \notin t => t \in SUBSET (s \ {x})
      OBVIOUS
    <2>4. h \in [SUBSET s -> Int] /\ h[{}] = 0
      BY <2>2, <2>3 DEF Sums
    <2>5. ASSUME NEW t \in SUBSET s, NEW y \in t
          PROVE  h[t] = f[y] + h[t \ {y}]
      <3>1. t \ {y} \in SUBSET s
        OBVIOUS
      <3>2. CASE y = x
        <4>1. h[t] = f[x] + g[t \ {x}] /\ h[t \ {x}] = g[t \ {x}]
          BY <3>1, <3>2
        <4> HIDE DEF h
        <4> QED
          BY <3>2, <4>1
      <3>3. CASE y # x /\ x \notin t
        <4>1. h[t] = g[t] /\ h[t \ {y}] = g[t \ {y}]
          BY <3>1, <3>3, Zenon
        <4>2. g[t] = f[y] + g[t \ {y}]
          BY <2>2, <2>3, <3>3 DEF Sums
        <4> HIDE DEF h
        <4> QED
          BY <4>1, <4>2
      <3>4. CASE y # x /\ x \in t
        <4>1. h[t] = f[x] + g[t \ {x}] /\ h[t \ {y}] = f[x] + g[(t \ {y}) \ {x}]
          BY <3>1, <3>4
        <4>2. /\ t \ {x} \in SUBSET (s \ {x}) /\ y \in t \ {x}
              /\ (t \ {y}) \ {x} = (t \ {x}) \ {y}
          BY <2>3, <3>4
        <4>3. g[t \ {x}] = f[y] + g[(t \ {x}) \ {y}]
          BY <2>2, <4>2 DEF Sums
        <4>4. f[y] \in Int /\ g[(t \ {x}) \ {y}] \in Int
          BY <2>2, <4>2 DEF Sums
        <4> HIDE DEF h
        <4> QED
          BY <2>3, <4>1, <4>2, <4>3, <4>4
      <3> QED
        BY <3>2, <3>3, <3>4
    <2>6. Sums(f, s, h)
      <3> HIDE DEF h
      <3> QED
        BY <2>4, <2>5 DEF Sums
    <2> HIDE DEF h
    <2> QED
      BY <2>6
  <1>3. \A s \in SUBSET S : s \in T
    <2> HIDE DEF T
    <2> QED
      BY <1>1, <1>2, SubsetInduction
  <1> QED
    BY <1>3

(* What SumFunction CHOOSEs.                                               *)
Pick(s) == CHOOSE x \in s : TRUE
Fold(f, S, g) ==
    g = [s \in SUBSET S |-> IF s = {} THEN 0 ELSE f[Pick(s)] + g[s \ {Pick(s)}]]

LEMMA FoldIsSums ==
    ASSUME NEW S, IsFiniteSet(S), NEW f, NEW g, Sums(f, S, g), NEW h, Fold(f, S, h)
    PROVE  h[S] = g[S]
  <1> DEFINE T == {s \in SUBSET S : h[s] = g[s]}
  <1>1. {} \in T
    BY DEF Sums, Fold
  <1>2. ASSUME NEW s \in SUBSET S, s # {}, \A x \in s : s \ {x} \in T
        PROVE  s \in T
    <2>1. Pick(s) \in s
      BY <1>2 DEF Pick
    <2>2. h[s] = f[Pick(s)] + h[s \ {Pick(s)}]
      BY <1>2 DEF Fold
    <2>3. g[s] = f[Pick(s)] + g[s \ {Pick(s)}]
      BY <2>1 DEF Sums
    <2> QED
      BY <1>2, <2>1, <2>2, <2>3
  <1>3. \A s \in SUBSET S : s \in T
    <2> HIDE DEF T
    <2> QED
      BY <1>1, <1>2, SubsetInduction
  <1> QED
    BY <1>3

LEMMA SumIs ==
    ASSUME NEW S, IsFiniteSet(S), NEW f \in [S -> Int], NEW g, Sums(f, S, g)
    PROVE  SumFunction(f) = g[S]
  <1>1. SumFunction(f) = (CHOOSE h : Fold(f, S, h))[S]
    BY DEF SumFunction, SumFunctionOnSet, FoldFunctionOnSet, MapThenFoldSet, Fold, Pick
  <1>2. Fold(f, S, g)
    <2>1. ASSUME NEW s \in SUBSET S
          PROVE  g[s] = IF s = {} THEN 0 ELSE f[Pick(s)] + g[s \ {Pick(s)}]
      <3>1. s # {} => Pick(s) \in s
        BY DEF Pick
      <3> QED
        BY <3>1 DEF Sums
    <2>2. g = [s \in SUBSET S |-> g[s]]
      BY DEF Sums
    <2> QED
      BY <2>1, <2>2 DEF Fold
  <1> DEFINE h == CHOOSE h : Fold(f, S, h)
  <1>3. Fold(f, S, h)
    BY <1>2
  <1> HIDE DEF h
  <1>4. h[S] = g[S]
    BY <1>3, FoldIsSums
  <1> QED
    BY <1>1, <1>4 DEF h

(* The sum of f over a subset of its domain.                               *)
SumOver(f, s) == SumFunction([x \in s |-> f[x]])

LEMMA SumOverIs ==
  ASSUME NEW S, IsFiniteSet(S), NEW f \in [S -> Int], NEW g, Sums(f, S, g), NEW s \in SUBSET S
  PROVE  SumOver(f, s) = g[s]
<1> DEFINE fs == [x \in s |-> f[x]]
           gs == [t \in SUBSET s |-> g[t]]
<1>1. IsFiniteSet(s) /\ fs \in [s -> Int]
  BY FS_Subset
<1>2. SUBSET s \subseteq SUBSET S
  OBVIOUS
<1>3. gs \in [SUBSET s -> Int] /\ gs[{}] = 0 /\ gs[s] = g[s]
  BY <1>2 DEF Sums
<1>4. ASSUME NEW t \in SUBSET s, NEW x \in t
      PROVE  gs[t] = fs[x] + gs[t \ {x}]
  <2>1. t \in SUBSET S /\ t \ {x} \in SUBSET s /\ x \in s
    OBVIOUS
  <2>2. g[t] = f[x] + g[t \ {x}]
    BY <2>1 DEF Sums
  <2> QED
    BY <2>1, <2>2
<1>5. Sums(fs, s, gs)
  <2> HIDE DEF fs, gs
  <2> QED
    BY <1>3, <1>4 DEF Sums
<1>6. SumFunction(fs) = gs[s]
  <2> HIDE DEF fs, gs
  <2> QED
    BY <1>1, <1>5, SumIs
<1> QED
  BY <1>3, <1>6 DEF SumOver

LEMMA SumOverAll ==
  ASSUME NEW S, NEW f \in [S -> Int]
  PROVE  SumFunction(f) = SumOver(f, S)
<1>1. f = [x \in S |-> f[x]]
  OBVIOUS
<1> QED
  BY <1>1, Zenon DEF SumOver

LEMMA SumOverType ==
  ASSUME NEW S, IsFiniteSet(S), NEW f \in [S -> Int], NEW s \in SUBSET S
  PROVE  SumOver(f, s) \in Int
<1>1. PICK g : Sums(f, S, g)
  BY SumsExist
<1>2. g[s] \in Int
  BY <1>1 DEF Sums
<1> QED
  BY <1>1, <1>2, SumOverIs

LEMMA SumOverEmpty ==
  ASSUME NEW S, IsFiniteSet(S), NEW f \in [S -> Int]
  PROVE  SumOver(f, {}) = 0
<1>1. PICK g : Sums(f, S, g)
  BY SumsExist
<1>2. g[{}] = 0
  BY <1>1 DEF Sums
<1>3. {} \in SUBSET S
  OBVIOUS
<1>4. SumOver(f, {}) = g[{}]
  BY <1>1, <1>3, SumOverIs
<1> QED
  BY <1>2, <1>4

LEMMA SumOverMember ==
  ASSUME NEW S, IsFiniteSet(S), NEW f \in [S -> Int], NEW s \in SUBSET S, NEW x \in s
  PROVE  SumOver(f, s) = f[x] + SumOver(f, s \ {x})
<1>1. PICK g : Sums(f, S, g)
  BY SumsExist
<1>2. g[s] = f[x] + g[s \ {x}]
  BY <1>1 DEF Sums
<1>3. s \ {x} \in SUBSET S
  OBVIOUS
<1>4. SumOver(f, s) = g[s]
  BY <1>1, SumOverIs
<1>5. SumOver(f, s \ {x}) = g[s \ {x}]
  BY <1>1, <1>3, SumOverIs
<1> QED
  BY <1>2, <1>4, <1>5

(* What a sum gains by a member.                                           *)
LEMMA SumOverMore ==
  ASSUME NEW S, IsFiniteSet(S), NEW f \in [S -> Int], NEW s \in SUBSET S, NEW x \in S, x \notin s
  PROVE  SumOver(f, s \union {x}) = f[x] + SumOver(f, s)
<1> DEFINE t == s \union {x}
<1>1. t \in SUBSET S /\ x \in t /\ t \ {x} = s
  OBVIOUS
<1> HIDE DEF t
<1>2. SumOver(f, t) = f[x] + SumOver(f, t \ {x})
  BY <1>1, SumOverMember
<1>3. SumOver(f, t) = f[x] + SumOver(f, s)
  BY <1>1, <1>2
<1> QED
  BY <1>3 DEF t

LEMMA SumOverBoth ==
  ASSUME NEW S, IsFiniteSet(S), NEW f \in [S -> Int], NEW a \in SUBSET S, NEW b \in SUBSET S,
         a \cap b = {}
  PROVE  SumOver(f, a \union b) = SumOver(f, a) + SumOver(f, b)
<1> DEFINE T == {s \in SUBSET b : SumOver(f, a \union s) = SumOver(f, a) + SumOver(f, s)}
<1>1. IsFiniteSet(b)
  BY FS_Subset
<1>2. SumOver(f, a) \in Int
  BY SumOverType
<1>3. {} \in T
  <2>1. SumOver(f, {}) = 0 /\ a \union {} = a
    BY SumOverEmpty
  <2> QED
    BY <1>2, <2>1
<1>4. ASSUME NEW s \in SUBSET b, s # {}, \A x \in s : s \ {x} \in T
      PROVE  s \in T
  <2>1. PICK x \in s : TRUE
    BY <1>4
  <2>2. SumOver(f, a \union (s \ {x})) = SumOver(f, a) + SumOver(f, s \ {x})
    BY <1>4, <2>1
  <2>3. PICK t : t = a \union (s \ {x})
    OBVIOUS
  <2>4. t \in SUBSET S /\ x \in S /\ x \notin t /\ t \union {x} = a \union s
    BY <2>3
  <2>5. SumOver(f, t \union {x}) = f[x] + SumOver(f, t)
    BY <2>4, SumOverMore
  <2>6. s \in SUBSET S /\ s \ {x} \in SUBSET S
    OBVIOUS
  <2>7. SumOver(f, s) = f[x] + SumOver(f, s \ {x})
    BY <2>6, SumOverMember
  <2>8. f[x] \in Int /\ SumOver(f, s \ {x}) \in Int
    BY <2>4, <2>6, SumOverType
  <2>9. SumOver(f, a \union s) = f[x] + SumOver(f, a \union (s \ {x}))
    BY <2>3, <2>4, <2>5
  <2> QED
    BY <1>2, <2>2, <2>7, <2>8, <2>9
<1>5. \A s \in SUBSET b : s \in T
  <2> HIDE DEF T
  <2> QED
    BY <1>1, <1>3, <1>4, SubsetInduction
<1> QED
  BY <1>5

LEMMA SumOfSums ==
  ASSUME NEW S, IsFiniteSet(S), NEW f \in [S -> Int], NEW H, IsFiniteSet(H), NEW A \in [H -> SUBSET S],
         \A g, h \in H : g # h => A[g] \cap A[h] = {}
  PROVE  SumFunction([h \in H |-> SumOver(f, A[h])]) = SumOver(f, UNION {A[h] : h \in H})
<1> DEFINE F == [h \in H |-> SumOver(f, A[h])]
           U(s) == UNION {A[h] : h \in s}
           T == {s \in SUBSET H : SumOver(F, s) = SumOver(f, U(s))}
<1>1. \A h \in H : SumOver(f, A[h]) \in Int
  <2>1. ASSUME NEW h \in H PROVE SumOver(f, A[h]) \in Int
    <3>1. PICK s \in SUBSET S : s = A[h]
      OBVIOUS
    <3>2. SumOver(f, s) \in Int
      BY SumOverType
    <3> QED
      BY <3>1, <3>2
  <2> QED
    BY <2>1
<1>2. F \in [H -> Int]
  BY <1>1
<1>3. \A s \in SUBSET H : U(s) \in SUBSET S
  OBVIOUS
<1>4. \A h \in H : F[h] = SumOver(f, A[h])
  OBVIOUS
<1> HIDE DEF F
<1>5. {} \in T
  <2>1. SumOver(F, {}) = 0
    BY <1>2, SumOverEmpty
  <2>2. SumOver(f, {}) = 0
    BY SumOverEmpty
  <2>3. U({}) = {}
    OBVIOUS
  <2> QED
    BY <2>1, <2>2, <2>3
<1>6. ASSUME NEW s \in SUBSET H, s # {}, \A x \in s : s \ {x} \in T
      PROVE  s \in T
  <2>1. PICK x \in s : TRUE
    BY <1>6
  <2>2. PICK t : t = s \ {x}
    OBVIOUS
  <2>3. SumOver(F, t) = SumOver(f, U(t)) /\ t \in SUBSET H /\ x \in H
    BY <1>6, <2>1, <2>2
  <2>4. SumOver(F, s) = F[x] + SumOver(F, t)
    BY <1>2, <2>1, <2>2, SumOverMember
  <2>5. PICK a \in SUBSET S : a = A[x]
    BY <2>3
  <2>6. PICK u \in SUBSET S : u = U(t)
    BY <1>3, <2>3
  <2>7. a \union u = U(s)
    <3>1. \A e : e \in a \union u <=> e \in U(s)
      BY <2>1, <2>2, <2>5, <2>6
    <3> HIDE DEF U
    <3> QED
      BY <3>1
  <2>8. a \cap u = {}
    BY <2>2, <2>3, <2>5, <2>6
  <2>9. SumOver(f, a \union u) = SumOver(f, a) + SumOver(f, u)
    BY <2>8, SumOverBoth
  <2>10. F[x] = SumOver(f, a)
    BY <1>4, <2>3, <2>5
  <2>11. SumOver(F, s) = SumOver(f, U(s))
    <3> HIDE DEF U
    <3>1. SumOver(f, U(s)) = SumOver(f, a) + SumOver(f, u)
      BY <2>7, <2>9
    <3>2. SumOver(F, t) = SumOver(f, u)
      BY <2>3, <2>6
    <3> QED
      BY <2>4, <2>10, <3>1, <3>2
  <2> HIDE DEF U
  <2> QED
    BY <2>11
<1>7. \A s \in SUBSET H : s \in T
  <2> HIDE DEF T
  <2> QED
    BY <1>5, <1>6, SubsetInduction
<1>8. SumOver(F, H) = SumOver(f, U(H))
  <2> HIDE DEF U
  <2> QED
    BY <1>7
<1>9. SumFunction(F) = SumOver(F, H)
  BY <1>2, SumOverAll
<1> QED
  BY <1>8, <1>9 DEF F

LEMMA SumOfPairs ==
  ASSUME NEW H, IsFiniteSet(H), NEW F \in [H -> Int], NEW G \in [H -> Int]
  PROVE  SumFunction([h \in H |-> F[h] + G[h]]) = SumFunction(F) + SumFunction(G)
<1> DEFINE P == [h \in H |-> F[h] + G[h]]
           T == {s \in SUBSET H : SumOver(P, s) = SumOver(F, s) + SumOver(G, s)}
<1>1. P \in [H -> Int] /\ \A h \in H : P[h] = F[h] + G[h]
  OBVIOUS
<1> HIDE DEF P
<1>2. {} \in T
  <2>1. SumOver(P, {}) = 0
    BY <1>1, SumOverEmpty
  <2>2. SumOver(F, {}) = 0 /\ SumOver(G, {}) = 0
    BY SumOverEmpty
  <2> QED
    BY <2>1, <2>2
<1>3. ASSUME NEW s \in SUBSET H, s # {}, \A x \in s : s \ {x} \in T
      PROVE  s \in T
  <2>1. PICK x \in s : TRUE
    BY <1>3
  <2>2. PICK t \in SUBSET H : t = s \ {x}
    OBVIOUS
  <2>3. SumOver(P, t) = SumOver(F, t) + SumOver(G, t)
    BY <1>3, <2>2
  <2>4. SumOver(P, s) = P[x] + SumOver(P, t)
    BY <1>1, <2>2, SumOverMember
  <2>5. SumOver(F, s) = F[x] + SumOver(F, t) /\ SumOver(G, s) = G[x] + SumOver(G, t)
    BY <2>2, SumOverMember
  <2>6. SumOver(F, t) \in Int /\ SumOver(G, t) \in Int
    BY SumOverType
  <2>7. x \in H
    OBVIOUS
  <2>8. P[x] = F[x] + G[x] /\ F[x] \in Int /\ G[x] \in Int
    BY <1>1, <2>7
  <2> QED
    BY <2>3, <2>4, <2>5, <2>6, <2>8
<1>4. \A s \in SUBSET H : s \in T
  <2> HIDE DEF T
  <2> QED
    BY <1>2, <1>3, SubsetInduction
<1>5. SumOver(P, H) = SumOver(F, H) + SumOver(G, H)
  BY <1>4
<1>6. SumFunction(P) = SumOver(P, H)
  BY <1>1, SumOverAll
<1>7. SumFunction(F) = SumOver(F, H) /\ SumFunction(G) = SumOver(G, H)
  BY SumOverAll
<1> QED
  BY <1>5, <1>6, <1>7 DEF P

(* A set of numbers that are bounded has a first and a last one.            *)
LEMMA LastOf ==
  ASSUME NEW k \in Nat, NEW S, S \subseteq 1..k, S # {}
  PROVE  \E m \in S : \A j \in S : m >= j
<1> DEFINE T == {n \in Nat : \A s \in SUBSET (1..n) : s # {} => \E m \in s : \A j \in s : m >= j}
<1>1. 0 \in T
  <2>1. \A s \in SUBSET (1..0) : s = {}
    OBVIOUS
  <2> QED
    BY <2>1
<1>2. ASSUME NEW n \in Nat, n \in T PROVE n + 1 \in T
  <2>1. ASSUME NEW s \in SUBSET (1..(n + 1)), s # {} PROVE \E m \in s : \A j \in s : m >= j
    <3>1. CASE n + 1 \in s
      BY <3>1
    <3>2. CASE n + 1 \notin s
      <4>1. s \in SUBSET (1..n)
        BY <3>2
      <4> QED
        BY <1>2, <2>1, <4>1
    <3> QED
      BY <3>1, <3>2
  <2> QED
    BY <2>1
<1>3. \A n \in Nat : n \in T
  <2> HIDE DEF T
  <2> QED
    BY <1>1, <1>2, SetInduction
<1> QED
  BY <1>3

LEMMA MinIs ==
  ASSUME NEW S, S \subseteq Nat, NEW m \in S, \A j \in S : m <= j
  PROVE  Min(S) = m
<1>1. ASSUME NEW x \in S, \A j \in S : x <= j PROVE x = m
  BY <1>1
<1>2. Min(S) \in S /\ \A j \in S : Min(S) <= j
  BY DEF Min
<1> QED
  BY <1>1, <1>2

LEMMA FirstOf ==
  ASSUME NEW S, S \subseteq Nat, S # {}
  PROVE  \E m \in S : \A j \in S : m <= j
<1>1. PICK m \in S : \A j \in S : ~(<<j, m>> \in OpToRel(<, Nat))
  BY WFMin, NatLessThanWellFounded
<1>2. ASSUME NEW j \in S PROVE m <= j
  <2>1. j \in Nat /\ m \in Nat
    OBVIOUS
  <2>2. j < m => <<j, m>> \in OpToRel(<, Nat)
    BY <2>1 DEF OpToRel
  <2>3. ~(j < m)
    BY <1>1, <2>2, Zenon
  <2> QED
    BY <2>1, <2>3
<1> QED
  BY <1>2
-----------------------------------------------------------------------------
(* MemoryRecords: the bytes of the accesses of a record, and where they     *)
(* lie.  Accesses of one size, at addresses in steps or in nested loops of  *)
(* steps, add up to a product and do not overlap.                           *)

(* Lists of accesses of one size                                           *)
Sized(side, a, k, size) == Listed(a, k) /\ \A n \in 1..k : SizeOn(side, a[n]) = size

LEMMA BytesOfEqual ==
  ASSUME NEW side, NEW a, NEW k \in Nat, NEW size \in Int, Sized(side, a, k, size)
  PROVE  Bytes(side, a) = k * size
<1> DEFINE f == [n \in 1..k |-> size]
           T == {j \in Nat : j <= k => SumOver(f, 1..j) = j * size}
<1>1. f \in [1..k -> Int] /\ IsFiniteSet(1..k)
  BY FS_Interval
<1>2. 0 \in T
  <2>1. 1..0 = {}
    OBVIOUS
  <2>2. SumOver(f, {}) = 0
    BY <1>1, SumOverEmpty
  <2> QED
    BY <2>1, <2>2
<1>3. ASSUME NEW j \in Nat, j \in T PROVE j + 1 \in T
  <2>1. SUFFICES ASSUME j + 1 <= k PROVE SumOver(f, 1..(j + 1)) = (j + 1) * size
    OBVIOUS
  <2>2. PICK m \in 1..k : m = j + 1
    BY <2>1
  <2>3. PICK s : s = 1..j
    OBVIOUS
  <2>4. s \in SUBSET (1..k) /\ m \notin s /\ 1..(j + 1) = s \union {m}
    BY <2>1, <2>2, <2>3
  <2>5. SumOver(f, s) = j * size
    BY <1>3, <2>1, <2>3
  <2>6. f[m] = size
    OBVIOUS
  <2> HIDE DEF f
  <2>7. SumOver(f, s \union {m}) = f[m] + SumOver(f, s)
    BY <1>1, <2>4, SumOverMore
  <2>8. (j + 1) * size = size + j * size
    OBVIOUS
  <2> QED
    BY <2>4, <2>5, <2>6, <2>7, <2>8
<1>4. k \in T
  <2> HIDE DEF T
  <2> QED
    BY <1>2, <1>3, SetInduction
<1>5. SumOver(f, 1..k) = k * size
  BY <1>4
<1>6. SumFunction(f) = SumOver(f, 1..k)
  <2> HIDE DEF f
  <2> QED
    BY <1>1, SumOverAll
<1>7. [n \in DOMAIN a |-> SizeOn(side, a[n])] = f
  BY DEF Sized, Listed
<1> QED
  BY <1>5, <1>6, <1>7 DEF Bytes

InSteps(side, a, k, base, step) ==
    \A n \in 1..k : AddrOn(side, a[n]) = base + (n - 1) * step
InLoops(side, a, k, base, d, leap, step) ==
    \A n \in 1..k : AddrOn(side, a[n]) = base + (((n - 1) \div d) * leap + ((n - 1) % d) * step)

(* Addresses in steps that are not smaller than the accesses.              *)
LEMMA StepsApart ==
  ASSUME NEW side, NEW a, NEW k \in Nat, NEW size \in Nat, Sized(side, a, k, size),
         NEW base \in Int, NEW step \in Nat, size <= step, InSteps(side, a, k, base, step)
  PROVE  Apart(side, a)
<1>1. ASSUME NEW m \in 1..k, NEW n \in 1..k, m < n PROVE Before(side, a[m], a[n])
  <2>1. (m - 1 + 1) * step <= (n - 1) * step
    BY <1>1
  <2>2. (m - 1 + 1) * step = (m - 1) * step + step
    OBVIOUS
  <2>3. (m - 1) * step \in Int /\ (n - 1) * step \in Int
    OBVIOUS
  <2> QED
    BY <2>1, <2>2, <2>3 DEF Before, Sized, InSteps
<1>2. DOMAIN a = 1..k
  BY DEF Sized, Listed
<1>3. \A m, n \in 1..k : m # n => m < n \/ n < m
  OBVIOUS
<1> QED
  BY <1>1, <1>2, <1>3 DEF Apart

(* The same in two nested loops.                                           *)
LEMMA NestedSteps ==
  ASSUME NEW d \in Nat \ {0}, NEW step \in Nat, NEW leap \in Nat, d * step <= leap,
         NEW x \in Nat, NEW y \in Nat, x < y
  PROVE  (x \div d) * leap + (x % d) * step + step <= (y \div d) * leap + (y % d) * step
<1>1. PICK h \in Nat, i \in 0..(d - 1) : h = x \div d /\ i = x % d
  OBVIOUS
<1>2. PICK g \in Nat, j \in 0..(d - 1) : g = y \div d /\ j = y % d
  OBVIOUS
<1>3. h < g \/ (h = g /\ i < j)
  BY <1>1, <1>2
<1>4. (i + 1) * step <= d * step
  OBVIOUS
<1>5. h < g => (h + 1) * leap <= g * leap
  OBVIOUS
<1>6. i < j => (i + 1) * step <= j * step
  OBVIOUS
<1>7. (i + 1) * step = i * step + step /\ (h + 1) * leap = h * leap + leap
  OBVIOUS
<1>8. i * step \in Nat /\ j * step \in Nat /\ d * step \in Nat /\ h * leap \in Nat /\ g * leap \in Nat
  OBVIOUS
<1>9. h * leap + i * step + step <= g * leap + j * step
  BY <1>3, <1>4, <1>5, <1>6, <1>7, <1>8
<1> QED
  BY <1>1, <1>2, <1>9

LEMMA NestedApart ==
  ASSUME NEW side, NEW a, NEW k \in Nat, NEW size \in Nat, Sized(side, a, k, size),
         NEW base \in Int, NEW d \in Nat \ {0}, NEW step \in Nat, NEW leap \in Nat,
         size <= step, d * step <= leap, InLoops(side, a, k, base, d, leap, step)
  PROVE  Apart(side, a)
<1>1. ASSUME NEW m \in 1..k, NEW n \in 1..k, m < n PROVE Before(side, a[m], a[n])
  <2>1. PICK x \in Nat, y \in Nat : x = m - 1 /\ y = n - 1 /\ x < y
    BY <1>1
  <2>2. (x \div d) * leap + (x % d) * step + step <= (y \div d) * leap + (y % d) * step
    BY <2>1, NestedSteps
  <2>3. PICK p \in Int, q \in Int :
            p = (x \div d) * leap + (x % d) * step /\ q = (y \div d) * leap + (y % d) * step
    <3>1. /\ x \div d \in Nat /\ x % d \in Nat /\ y \div d \in Nat /\ y % d \in Nat
          /\ \A h, i \in Nat : h * leap + i * step \in Int
      OBVIOUS
    <3> QED
      BY <3>1
  <2>4. AddrOn(side, a[m]) = base + p /\ AddrOn(side, a[n]) = base + q
    BY <2>1, <2>3 DEF InLoops
  <2> QED
    BY <2>2, <2>3, <2>4 DEF Before, Sized
<1>2. DOMAIN a = 1..k
  BY DEF Sized, Listed
<1>3. \A m, n \in 1..k : m # n => m < n \/ n < m
  OBVIOUS
<1> QED
  BY <1>1, <1>2, <1>3 DEF Apart

(* Three nested loops: the division of a position by their lengths.        *)
LEMMA DivTwice ==
  ASSUME NEW b \in Nat \ {0}, NEW c \in Nat \ {0}, NEW n \in Nat
  PROVE  n \div (b * c) = (n \div b) \div c
<1>1. PICK q \in Nat, i \in 0..(b - 1) : q = n \div b /\ n = q * b + i
  OBVIOUS
<1>2. PICK h \in Nat, j \in 0..(c - 1) : h = q \div c /\ q = h * c + j
  OBVIOUS
<1>3. PICK p \in Nat \ {0} : p = b * c
  OBVIOUS
<1>4. n = h * p + (j * b + i)
  <2>1. q * b = h * c * b + j * b
    BY <1>2
  <2>2. h * c * b = h * p
    BY <1>3
  <2> QED
    BY <1>1, <2>1, <2>2
<1>5. j * b + i \in 0..(p - 1)
  <2>1. (j + 1) * b <= c * b
    OBVIOUS
  <2>2. (j + 1) * b = j * b + b /\ c * b = p /\ j * b \in Nat
    BY <1>3
  <2> QED
    BY <2>1, <2>2
<1>6. PICK r \in 0..(p - 1) : r = j * b + i
  BY <1>5
<1>7. n \div p = h
  BY <1>4, <1>6
<1> QED
  BY <1>1, <1>2, <1>3, <1>7

(* Every position of a list of rows lies in one.                           *)
LEMMA RowsExist ==
  ASSUME NEW count \in Nat, NEW rows \in Nat, NEW n \in 1..(count * rows)
  PROVE  rows \in Nat \ {0} /\ count \in Nat \ {0}
<1>1. rows = 0 => count * rows = 0
  OBVIOUS
<1>2. count = 0 => count * rows = 0
  OBVIOUS
<1> QED
  BY <1>1, <1>2

LEMMA NoneApart == ASSUME NEW side, NEW a, Listed(a, 0) PROVE Apart(side, a)
BY DEF Apart, Listed

(* The accesses made of a record are those of its instruction.             *)
Exact(r) ==
    /\ Bytes(Transport(r).side, AccessesOf(r)) = Transport(r).bytes
    /\ Located(r) => Apart(Transport(r).side, AccessesOf(r))

LEMMA ExactFrom ==
  ASSUME NEW r, NEW side, NEW a, NEW bytes, Transport(r) = [bytes |-> bytes, side |-> side],
      AccessesOf(r) = a,
         Bytes(side, a) = bytes, Located(r) => Apart(side, a)
  PROVE  Exact(r)
BY DEF Exact

LEMMA Load2dExact ==
  ASSUME NEW r, Operands(r), r.type = "LOAD_2D" PROVE Exact(r)
<1> DEFINE a == Load2d(r)
<1>1. AccessesOf(r) = a /\ Transport(r) = [bytes |-> r.repeat * 512, side |-> "src"]
  BY ParserOf DEF Transport
<1>2. r.repeat \in Nat /\ r.srcStride \in Nat /\ r.src \in Nat /\ r.baseIdx \in Nat
  BY DEF Operands, OperandsOf
<1>3. Sized("src", a, r.repeat, 512)
  BY Load2dAre DEF Sized, SizeOn
<1>4. Bytes("src", a) = r.repeat * 512
  BY <1>2, <1>3, BytesOfEqual
<1>5. ASSUME Located(r) PROVE Apart("src", a)
  <2>1. PICK stride \in Nat : stride = r.srcStride /\ stride > 0
    BY <1>2, <1>5 DEF Located
  <2>2. ASSUME NEW m \in 1..r.repeat, NEW n \in 1..r.repeat, m < n
        PROVE  Before("src", a[m], a[n]) \/ Before("src", a[n], a[m])
    <3>1. PICK p \in Nat, q \in Nat : p = stride * (m - 1) /\ q = stride * (n - 1)
      OBVIOUS
    <3>2. p < q
      <4>1. stride * (n - 1) = stride * (m - 1) + stride * (n - m)
        OBVIOUS
      <4>2. stride * (n - m) >= 1
        BY <2>1, <2>2
      <4> QED
        BY <3>1, <4>1, <4>2
    <3>3. a[m].srcMemSize = 512 /\ a[n].srcMemSize = 512
      BY Load2dAre
    <3>4. CASE r.inc
      <4>1. /\ a[m].srcAddr = r.src + (r.baseIdx + p) * 512
            /\ a[n].srcAddr = r.src + (r.baseIdx + q) * 512
        BY <2>1, <3>1, <3>4, Load2dAre
      <4> QED
        BY <1>2, <3>2, <3>3, <4>1 DEF Before, AddrOn, SizeOn
    <3>5. CASE ~r.inc
      <4>1. /\ a[m].srcAddr = r.src + (r.baseIdx - p) * 512
            /\ a[n].srcAddr = r.src + (r.baseIdx - q) * 512
        BY <2>1, <3>1, <3>5, Load2dAre
      <4> QED
        BY <1>2, <3>2, <3>3, <4>1 DEF Before, AddrOn, SizeOn
    <3> QED
      BY <3>4, <3>5
  <2>3. DOMAIN a = 1..r.repeat
    BY <1>3 DEF Sized, Listed
  <2>4. \A m, n \in 1..r.repeat : m # n => m < n \/ n < m
    BY <1>2
  <2> HIDE DEF a
  <2> QED
    BY <2>2, <2>3, <2>4 DEF Apart
<1> QED
  BY <1>1, <1>4, <1>5, ExactFrom

LEMMA Load2dTransposeExact ==
  ASSUME NEW r, Operands(r), r.type = "LOAD_L1_TO_L0B_2D_TRANSPOSE" PROVE Exact(r)
<1> DEFINE a == Load2dTranspose(r)
<1>1. AccessesOf(r) = a /\ Transport(r) = [bytes |-> r.repeat * r.srcStride * 512, side |-> "src"]
  BY ParserOf DEF Transport
<1>2. r.repeat \in Nat /\ r.srcStride \in Nat /\ r.src \in Nat /\ r.baseIdx \in Nat
  BY DEF Operands, OperandsOf
<1>3. PICK size \in Nat, base \in Nat : size = 512 * r.srcStride /\ base = r.src + r.baseIdx * 512
  BY <1>2
<1>4. Sized("src", a, r.repeat, size)
  BY <1>3, Load2dTransposeAre DEF Sized, SizeOn
<1>5. Bytes("src", a) = r.repeat * r.srcStride * 512
  <2>1. Bytes("src", a) = r.repeat * size
    BY <1>2, <1>4, BytesOfEqual
  <2>2. r.repeat * size = r.repeat * r.srcStride * 512
    BY <1>2, <1>3
  <2> QED
    BY <2>1, <2>2
<1>6. Apart("src", a)
  <2>1. ASSUME NEW n \in 1..r.repeat PROVE AddrOn("src", a[n]) = base + (n - 1) * size
    <3>1. a[n].srcAddr = r.src + (r.baseIdx + r.srcStride * (n - 1)) * 512
      BY Load2dTransposeAre
    <3>2. r.srcStride * (n - 1) * 512 = (n - 1) * size
      BY <1>2, <1>3
    <3> QED
      BY <1>2, <1>3, <3>1, <3>2 DEF AddrOn
  <2>2. PICK k \in Nat, b \in Int : k = r.repeat /\ b = base
    BY <1>2
  <2>3. Sized("src", a, k, size) /\ size <= size /\ InSteps("src", a, k, b, size)
    BY <1>4, <2>1, <2>2 DEF InSteps
  <2> HIDE DEF a
  <2> QED
    BY <2>3, StepsApart
<1> QED
  BY <1>1, <1>5, <1>6, ExactFrom

LEMMA SinglesExact ==
  ASSUME NEW r, Operands(r), r.type \in {"LOAD_2DV2", "LOAD_MX2DV2", "SIMT_LOAD_STORE"} PROVE Exact(r)
<1>1. ASSUME NEW side, NEW a, NEW size \in Int, Sized(side, a, 1, size) PROVE Bytes(side, a) = size
                 /\ Apart(side, a)
  <2>1. Bytes(side, a) = 1 * size
    BY <1>1, BytesOfEqual
  <2>2. Apart(side, a)
    BY <1>1 DEF Apart, Sized, Listed
  <2> QED
    BY <2>1, <2>2
<1>2. CASE r.type = "LOAD_2DV2"
  <2>1. PICK size \in Int : size = r.mStep * r.kStep * 512
    BY <1>2 DEF Operands, OperandsOf
  <2>2. AccessesOf(r) = Load2dV2(r) /\ Transport(r) = [bytes |-> size, side |-> "dst"]
    BY <1>2, <2>1, ParserOf DEF Transport
  <2>3. Sized("dst", Load2dV2(r), 1, size)
    BY <1>2, <2>1, SinglesAre DEF Sized, SizeOn
  <2> QED
    BY <1>1, <2>2, <2>3, ExactFrom
<1>3. CASE r.type = "LOAD_MX2DV2"
  <2>1. PICK size \in Int : size = r.xStep * r.yStep * 32
    BY <1>3 DEF Operands, OperandsOf
  <2>2. AccessesOf(r) = LoadMX2dV2(r) /\ Transport(r) = [bytes |-> size, side |-> "src"]
    BY <1>3, <2>1, ParserOf DEF Transport
  <2>3. Sized("src", LoadMX2dV2(r), 1, size)
    BY <1>3, <2>1, SinglesAre DEF Sized, SizeOn
  <2> QED
    BY <1>1, <2>2, <2>3, ExactFrom
<1>4. CASE r.type = "SIMT_LOAD_STORE"
  <2>1. PICK size \in Int : size = r.size
    BY <1>4 DEF Operands, OperandsOf
  <2>2. AccessesOf(r) = LoadStore(r) /\ Transport(r) = [bytes |-> size, side |-> "src"]
    BY <1>4, <2>1, ParserOf DEF Transport
  <2>3. Sized("src", LoadStore(r), 1, size)
    BY <1>4, <2>1, SinglesAre DEF Sized, SizeOn
  <2> QED
    BY <1>1, <2>2, <2>3, ExactFrom
<1> QED
  BY <1>2, <1>3, <1>4

LEMMA AtomRedExact ==
  ASSUME NEW r, Operands(r), r.type = "SIMT_ATOM_RED" PROVE Exact(r)
<1>1. PICK size \in Int : size = r.size
  BY DEF Operands, OperandsOf
<1>2. PICK k \in {1, 2} :
          /\ Listed(AtomRed(r), k) /\ k = (IF r.simtType = "ATOM" THEN 2 ELSE 1)
          /\ \A n \in 1..k : AtomRed(r)[n].srcMemSize = size
  BY <1>1, AtomRedAre
<1>3. AccessesOf(r) = AtomRed(r) /\ Transport(r) = [bytes |-> k * size, side |-> "src"]
  BY <1>1, <1>2, ParserOf DEF Transport
<1>4. Sized("src", AtomRed(r), k, size)
  BY <1>2 DEF Sized, SizeOn
<1>5. Bytes("src", AtomRed(r)) = k * size
  BY <1>4, BytesOfEqual
<1>6. ~Located(r)
  BY DEF Located
<1> QED
  BY <1>3, <1>5, <1>6, ExactFrom

LEMMA Load2dV2DecExact ==
  ASSUME NEW r, Operands(r), r.type = "LOAD_2DV2_DEC" PROVE Exact(r)
<1> DEFINE a == Load2dV2Dec(r)
           k == r.kStep * r.mStep
<1>1. AccessesOf(r) = a /\ Transport(r) = [bytes |-> r.mStep * r.kStep * 512, side |-> "dst"]
  BY ParserOf DEF Transport
<1>2. r.mStep \in Nat /\ r.kStep \in Nat /\ r.dst \in Nat /\ r.dstStride \in Nat /\ k \in Nat
  BY DEF Operands, OperandsOf
<1>3. Sized("dst", a, k, 512)
  BY Load2dV2DecAre DEF Sized, SizeOn
<1>4. Bytes("dst", a) = r.mStep * r.kStep * 512
  <2>1. Bytes("dst", a) = k * 512
    <3> HIDE DEF a, k
    <3> QED
      BY <1>2, <1>3, BytesOfEqual
  <2> QED
    BY <1>2, <2>1
<1>5. ASSUME Located(r) PROVE Apart("dst", a)
  <2>1. PICK d \in Nat, stride \in Nat : d = r.mStep /\ stride = r.dstStride /\ d <= stride
    BY <1>2, <1>5 DEF Located
  <2>2. CASE d = 0
    <3>1. k = 0
      BY <1>2, <2>1, <2>2
    <3> QED
      BY <1>3, <3>1, NoneApart DEF Sized
  <2>3. CASE d # 0
    <3>1. PICK leap \in Nat : leap = stride * 512
      OBVIOUS
    <3>2. ASSUME NEW n \in 1..k
          PROVE  AddrOn("dst", a[n]) = r.dst + (((n - 1) \div d) * leap + ((n - 1) % d) * 512)
      <4>1. a[n].dstAddr = r.dst + (((n - 1) \div d) * stride + ((n - 1) % d)) * 512
        BY <2>1, Load2dV2DecAre
      <4>2. PICK h \in Int, j \in Int : h = (n - 1) \div d /\ j = (n - 1) % d
        <5>1. n - 1 \in Nat /\ d \in Nat /\ d > 0
          BY <1>2, <2>3
        <5>2. (n - 1) \div d \in Int /\ (n - 1) % d \in Int
          BY <5>1
        <5> QED
          BY <5>2
      <4>3. (h * stride + j) * 512 = h * leap + j * 512
        BY <3>1
      <4> QED
        BY <4>1, <4>2, <4>3 DEF AddrOn
    <3>3. d * 512 <= leap /\ d \in Nat \ {0} /\ 512 \in Nat
      BY <2>1, <2>3, <3>1
    <3>4. PICK b \in Int : b = r.dst
      BY <1>2
    <3>5. InLoops("dst", a, k, b, d, leap, 512)
      BY <3>2, <3>4 DEF InLoops
    <3> HIDE DEF a, k
    <3> QED
      BY <1>2, <1>3, <3>3, <3>5, NestedApart
  <2> QED
    BY <2>2, <2>3
<1> QED
  BY <1>1, <1>4, <1>5, ExactFrom

LEMMA StepsExact ==
  ASSUME NEW r, NEW side, NEW a, NEW k \in Nat, NEW size \in Nat, NEW base \in Int,
      NEW step \in Nat, NEW bytes,
         AccessesOf(r) = a, Transport(r) = [bytes |-> bytes, side |-> side], bytes = k * size,
         Sized(side, a, k, size), InSteps(side, a, k, base, step), size <= step
  PROVE  Exact(r)
<1>1. Bytes(side, a) = bytes
  BY BytesOfEqual
<1>2. Apart(side, a)
  BY StepsApart
<1> QED
  BY <1>1, <1>2, ExactFrom

LEMMA LoopsExact ==
  ASSUME NEW r, NEW side, NEW a, NEW count \in Nat, NEW d \in Nat, NEW size \in Nat,
         NEW base \in Int, NEW step \in Nat, NEW leap \in Nat, NEW bytes,
         AccessesOf(r) = a, Transport(r) = [bytes |-> bytes, side |-> side], bytes = count * d * size,
         Sized(side, a, count * d, size), InLoops(side, a, count * d, base, d, leap, step),
         Located(r) => size <= step /\ d * step <= leap
  PROVE  Exact(r)
<1>1. PICK k \in Nat : k = count * d
  OBVIOUS
<1>2. Sized(side, a, k, size) /\ InLoops(side, a, k, base, d, leap, step) /\ bytes = k * size
  BY <1>1
<1>3. Bytes(side, a) = bytes
  BY <1>2, BytesOfEqual
<1>4. ASSUME Located(r) PROVE Apart(side, a)
  <2>1. CASE d = 0
    <3>1. k = 0
      BY <1>1, <2>1
    <3> QED
      BY <1>2, <3>1, NoneApart DEF Sized
  <2>2. CASE d # 0
    BY <1>2, <1>4, <2>2, NestedApart
  <2> QED
    BY <2>1, <2>2
<1> QED
  BY <1>3, <1>4, ExactFrom

LEMMA BlockBurstsExact ==
  ASSUME NEW r, Operands(r), r.type \in {"DMA_MOV", "MOV_A5", "MOV_V2_A5"},
         AccessesOf(r) = BlockBursts(r), Transport(r) = 
             [bytes |-> r.nBurst * r.lenBurst * 32, side |-> "src"]
  PROVE  Exact(r)
<1>1. PICK k \in Nat, size \in Nat, base \in Int, step \in Nat :
          /\ k = r.nBurst /\ size = r.lenBurst * 32 /\ base = r.src
          /\ step = r.lenBurst * 32 + r.srcStride * 32 /\ size <= step
  BY DEF Operands, OperandsOf
<1>2. Sized("src", BlockBursts(r), k, size)
  BY <1>1, BlockBurstsAre DEF Sized, SizeOn
<1>3. InSteps("src", BlockBursts(r), k, base, step)
  BY <1>1, BlockBurstsAre DEF InSteps, AddrOn
<1>4. PICK bytes : bytes = r.nBurst * r.lenBurst * 32
  OBVIOUS
<1>5. bytes = k * size
  <2>1. r.nBurst \in Nat /\ r.lenBurst \in Nat
    BY DEF Operands, OperandsOf
  <2> QED
    BY <1>1, <1>4, <2>1
<1> QED
  BY <1>1, <1>2, <1>3, <1>4, <1>5, StepsExact

LEMMA MovesExact ==
  ASSUME NEW r, Operands(r), Measured(r), r.type \in {"DMA_MOV", "MOV_A5", "MOV_V2_A5"} PROVE Exact(r)
<1>1. CASE r.type = "DMA_MOV" /\ r.byteMode
  <2>1. PICK k \in Nat, size \in Nat, base \in Int, step \in Nat, bytes \in Int :
            /\ k = r.nBurst /\ size = r.lenBurst /\ base = r.dst
            /\ step = r.lenBurst + r.dstStride * 32 /\ size <= step /\ bytes = r.nBurst * r.lenBurst
    BY <1>1 DEF Operands, OperandsOf
  <2>2. AccessesOf(r) = ByteBursts(r) /\ Transport(r) = [bytes |-> bytes, side |-> "dst"]
    BY <1>1, <2>1, ParserOf DEF DmaMov, Transport
  <2>3. Sized("dst", ByteBursts(r), k, size)
    BY <1>1, <2>1, ByteBurstsAre DEF Sized, SizeOn
  <2>4. InSteps("dst", ByteBursts(r), k, base, step)
    BY <1>1, <2>1, ByteBurstsAre DEF InSteps, AddrOn
  <2> QED
    BY <2>1, <2>2, <2>3, <2>4, StepsExact
<1>2. CASE ~(r.type = "DMA_MOV" /\ r.byteMode)
  <2>1. AccessesOf(r) = BlockBursts(r)
    BY <1>2, ParserOf DEF DmaMov, MovV2, Measured
  <2>2. Transport(r) = [bytes |-> r.nBurst * r.lenBurst * 32, side |-> "src"]
    BY <1>2 DEF Transport
  <2> QED
    BY <2>1, <2>2, BlockBurstsExact
<1> QED
  BY <1>1, <1>2

LEMMA MovAlignExact ==
  ASSUME NEW r, Operands(r), Measured(r), r.type = "MOV_ALIGN" PROVE Exact(r)
<1> DEFINE side == IF r.srcMemType = "GM" THEN "src" ELSE "dst"
           base == IF r.srcMemType = "GM" THEN r.src ELSE r.dst
           gap == IF r.srcMemType = "GM" THEN r.srcStride ELSE r.dstStride
<1>1. r.srcMemType = "GM" \/ r.dstMemType = "GM"
  BY DEF Measured
<1>2. PICK k \in Nat, size \in Nat, b \in Int, step \in Nat, bytes \in Int :
          /\ k = r.nBurst /\ size = r.lenBurst /\ b = base
          /\ step = r.lenBurst + gap /\ size <= step /\ bytes = r.nBurst * r.lenBurst
  BY DEF Operands, OperandsOf
<1>3. AccessesOf(r) = MovAlign(r) /\ Transport(r) = [bytes |-> bytes, side |-> side]
  BY <1>2, ParserOf DEF Transport
<1>4. Sized(side, MovAlign(r), k, size)
  BY <1>1, <1>2, MovAlignAre DEF Sized, SizeOn
<1>5. InSteps(side, MovAlign(r), k, b, step)
  BY <1>1, <1>2, MovAlignAre DEF InSteps, AddrOn
<1> HIDE DEF side
<1> QED
  BY <1>2, <1>3, <1>4, <1>5, StepsExact

LEMMA NdOrDn2nzDavExact ==
  ASSUME NEW r, Operands(r), Measured(r), r.type \in {"DMA_MOV_ND2NZ_DAV", "DMA_MOV_DN2NZ_D"}
  PROVE Exact(r)
<1> DEFINE a == NdOrDn2nzDav(r)
<1>1. /\ r.src \in Nat /\ r.ndNum \in Nat /\ r.nValue \in Nat /\ r.dValue \in Nat /\ r.bits \in Nat
      /\ r.loop1SrcStride \in Nat /\ r.loop4SrcStride \in Nat
  BY DEF Operands, OperandsOf
<1>2. PICK w \in Nat : r.bits = 8 * w /\ w > 0 /\ ElementBytes(r) = w /\ r.bits \div 8 = w
  <2>1. r.bits # 0 /\ r.bits % 8 = 0
    BY DEF Measured
  <2>2. r.bits \div 8 \in Nat /\ r.bits = 8 * (r.bits \div 8)
    BY <1>1, <2>1
  <2> QED
    BY <1>1, <2>1, <2>2 DEF ElementBytes
<1> DEFINE bytes == (r.ndNum * r.nValue * r.dValue * r.bits) \div 8
<1>a. PICK rows \in Nat, elements \in Nat : rows = RowsOf(r) /\ elements = ElementsOf(r)
  BY <1>1 DEF RowsOf, ElementsOf
<1>b. PICK size \in Nat : size = elements * w
  OBVIOUS
<1>c. PICK count \in Nat, base \in Int, step \in Nat, leap \in Nat :
          count = r.ndNum /\ base = r.src /\ step = r.loop1SrcStride /\ leap = r.loop4SrcStride
  BY <1>1
<1>3. /\ count = r.ndNum /\ rows = RowsOf(r) /\ elements = ElementsOf(r) /\ size = elements * w
      /\ base = r.src /\ step = r.loop1SrcStride /\ leap = r.loop4SrcStride
  BY <1>a, <1>b, <1>c
<1>4. AccessesOf(r) = a /\ Transport(r) = [bytes |-> bytes, side |-> "src"]
  BY <1>3, ParserOf DEF Transport
<1>5. bytes = count * rows * size
  <2>1. rows * elements = r.nValue * r.dValue
    BY <1>1, <1>3 DEF RowsOf, ElementsOf
  <2>2. r.ndNum * r.nValue * r.dValue * r.bits = 8 * (r.ndNum * (r.nValue * r.dValue) * w)
    BY <1>1, <1>2
  <2>3. r.ndNum * (r.nValue * r.dValue) * w = count * rows * size
    BY <1>3, <2>1
  <2>4. PICK x \in Nat : x = count * rows * size
    BY <1>3
  <2>5. bytes = (8 * x) \div 8
    BY <2>2, <2>3, <2>4
  <2> HIDE DEF bytes
  <2> QED
    BY <2>4, <2>5
<1>6. Sized("src", a, count * rows, size)
  BY <1>2, <1>3, NdOrDn2nzDavAre DEF Sized, SizeOn
<1>7. InLoops("src", a, count * rows, base, rows, leap, step)
  <2>1. ASSUME NEW n \in 1..(count * rows)
        PROVE  AddrOn("src", a[n]) = base + (((n - 1) \div rows) * leap + ((n - 1) % rows) * step)
    <3>1. a[n].srcAddr = base + ((n - 1) \div rows) * leap + ((n - 1) % rows) * step
      BY <1>3, NdOrDn2nzDavAre
    <3>2. rows # 0
      BY RowsExist
    <3>3. PICK h \in Int, j \in Int : h = (n - 1) \div rows /\ j = (n - 1) % rows
      BY <1>3, <3>2
    <3> QED
      BY <3>1, <3>3 DEF AddrOn
  <2> QED
    BY <2>1 DEF InLoops
<1>8. Located(r) => size <= step /\ rows * step <= leap
  BY <1>1, <1>2, <1>3 DEF Located, RowsOf, ElementsOf
<1> HIDE DEF a, bytes
<1> QED
  BY <1>4, <1>5, <1>6, <1>7, <1>8, LoopsExact

(* Lists in which every access lies before the later ones.                 *)
LEMMA InOrderApart ==
  ASSUME NEW side, NEW a, NEW k \in Nat, Listed(a, k),
         \A m, n \in 1..k : m < n => Before(side, a[m], a[n])
  PROVE  Apart(side, a)
<1>1. DOMAIN a = 1..k
  BY DEF Listed
<1>2. \A m, n \in 1..k : m # n => m < n \/ n < m
  OBVIOUS
<1> QED
  BY <1>1, <1>2 DEF Apart

(* Rows of matrices whose distance in elements need not be whole bytes.     *)
LEMMA MatricesApart ==
  ASSUME NEW bits \in Nat, NEW rows \in Nat, NEW row \in Nat, NEW matrix \in Nat, rows * row <= matrix,
         NEW h \in Nat, NEW g \in Nat, h < g
  PROVE  ((matrix * h * bits) \div 8) + rows * ((row * bits) \div 8) <= (matrix * g * bits) \div 8
<1>1. PICK x \in Nat, y \in Nat, z \in Nat :
          x = matrix * h * bits /\ y = matrix * g * bits /\ z = (row * bits) \div 8
  OBVIOUS
<1>2. 8 * z <= row * bits
  BY <1>1
<1>3. rows * (8 * z) <= rows * (row * bits)
  BY <1>2
<1>4. rows * row * bits <= matrix * bits
  <2>1. PICK p \in Nat : p = rows * row
    OBVIOUS
  <2>2. p * bits <= matrix * bits
    BY <2>1
  <2> QED
    BY <2>1, <2>2
<1>5. x + matrix * bits <= y
  <2>1. PICK m \in Nat : m = matrix * bits
    OBVIOUS
  <2>2. (h + 1) * m <= g * m
    OBVIOUS
  <2>3. (h + 1) * m = h * m + m /\ h * m = x /\ g * m = y
    BY <1>1, <2>1
  <2> QED
    BY <2>1, <2>2, <2>3
<1>6. PICK w \in Nat : w = rows * z
  OBVIOUS
<1>7. 8 * w <= matrix * bits
  <2>1. rows * (8 * z) = 8 * w /\ rows * (row * bits) = rows * row * bits
    BY <1>6
  <2> QED
    BY <1>3, <1>4, <2>1
<1>8. x + 8 * w <= y
  BY <1>5, <1>7
<1>9. (x \div 8) + w <= y \div 8
  BY <1>8
<1> QED
  BY <1>1, <1>6, <1>9

LEMMA Nd2nzExact ==
  ASSUME NEW r, Operands(r), Measured(r), r.type = "DMA_MOV_ND2NZ" PROVE Exact(r)
<1> DEFINE a == Nd2nz(r)
           bytes == (r.ndNum * r.nValue * r.dValue * r.bits) \div 8
<1>1. /\ r.src \in Nat /\ r.ndNum \in Nat /\ r.nValue \in Nat /\ r.dValue \in Nat /\ r.bits \in Nat
      /\ r.srcDValue \in Nat /\ r.srcNdMatrixStride \in Nat
  BY DEF Operands, OperandsOf
<1>2. AccessesOf(r) = a /\ Transport(r) = [bytes |-> bytes, side |-> "src"]
  BY ParserOf DEF Transport
<1>3. PICK count \in Nat, rows \in Nat, bits \in Nat, row \in Nat, matrix \in Nat :
          count = r.ndNum /\ rows = r.nValue /\ bits = r.bits /\ row = r.srcDValue
              /\ matrix = r.srcNdMatrixStride
  BY <1>1
<1>4. PICK size \in Nat : size = (r.dValue * r.bits) \div 8 /\ r.dValue * r.bits = 8 * size
  <2>1. PICK v \in Nat : v = r.dValue * r.bits
    BY <1>1
  <2>2. v % 8 = 0
    BY <2>1 DEF Measured
  <2> QED
    BY <2>1, <2>2
<1>5. PICK k \in Nat : k = count * rows
  OBVIOUS
<1>6. Sized("src", a, k, size)
  BY <1>3, <1>4, <1>5, Nd2nzAre DEF Sized, SizeOn
<1>7. Bytes("src", a) = bytes
  <2>1. PICK x \in Nat : x = k * size
    OBVIOUS
  <2>2. r.ndNum * r.nValue * r.dValue * r.bits = k * (r.dValue * r.bits)
    BY <1>1, <1>3, <1>5
  <2>3. k * (8 * size) = 8 * x
    BY <2>1
  <2>4. bytes = (8 * x) \div 8
    BY <1>4, <2>2, <2>3
  <2>5. Bytes("src", a) = x
    <3> HIDE DEF a
    <3> QED
      BY <1>6, <2>1, BytesOfEqual
  <2> QED
    BY <2>4, <2>5
<1>8. ASSUME Located(r) PROVE Apart("src", a)
  <2>1. r.dValue <= row /\ rows * row <= matrix
    BY <1>3, <1>8 DEF Located
  <2>2. PICK step \in Nat : step = (row * bits) \div 8
    OBVIOUS
  <2>3. size <= step
    <3>1. r.dValue * bits <= row * bits
      BY <1>1, <2>1
    <3>2. r.dValue * bits = 8 * size
      BY <1>3, <1>4
    <3>3. PICK v \in Nat : v = row * bits
      OBVIOUS
    <3> QED
      BY <2>2, <3>1, <3>2, <3>3
  <2>4. ASSUME NEW m \in 1..k, NEW n \in 1..k, m < n PROVE Before("src", a[m], a[n])
    <3>1. rows \in Nat \ {0}
      BY <1>5, RowsExist
    <3>a. PICK x \in Nat, y \in Nat : x = m - 1 /\ y = n - 1 /\ x < y
      BY <2>4
    <3>2. PICK h \in Nat, i \in 0..(rows - 1) : h = x \div rows /\ i = x % rows
      BY <3>1
    <3>3. PICK g \in Nat, j \in 0..(rows - 1) : g = y \div rows /\ j = y % rows
      BY <3>1
    <3>4. h < g \/ (h = g /\ i < j)
      BY <3>1, <3>a, <3>2, <3>3
    <3>5. PICK p \in Nat, q \in Nat : p = (matrix * h * bits) \div 8 /\ q = (matrix * g * bits) \div 8
      OBVIOUS
    <3>6. h < g => p + rows * step <= q
      BY <2>1, <2>2, <3>5, MatricesApart
    <3>7. h = g => p = q
      BY <3>5
    <3>8. (i + 1) * step <= rows * step /\ (i < j => (i + 1) * step <= j * step)
      OBVIOUS
    <3>9. (i + 1) * step = step * i + step /\ step * i \in Nat /\ step * j \in Nat /\ j * step = step * j
          /\ rows * step \in Nat
      OBVIOUS
    <3>10. a[m].srcAddr = r.src + p + step * i /\ a[n].srcAddr = r.src + q + step * j
               /\ a[m].srcMemSize = size
      BY <1>3, <1>4, <1>5, <2>2, <3>a, <3>2, <3>3, <3>5, Nd2nzAre
    <3>11. p + step * i + size <= q + step * j
      BY <2>3, <3>4, <3>6, <3>7, <3>8, <3>9
    <3> HIDE DEF a
    <3> QED
      BY <1>1, <3>9, <3>10, <3>11 DEF Before, AddrOn, SizeOn
  <2> HIDE DEF a
  <2> QED
    BY <1>6, <2>4, InOrderApart DEF Sized
<1> HIDE DEF a, bytes
<1> QED
  BY <1>2, <1>7, <1>8, ExactFrom

(* Three nested loops                                                      *)
LEMMA LoopsInOrder ==
  ASSUME NEW b \in Nat \ {0}, NEW c \in Nat \ {0},
         NEW size \in Nat, NEW stride \in Nat, NEW stride1 \in Nat, NEW stride2 \in Nat,
         size <= stride \/ b = 1, size <= stride1, b * stride <= stride1 \/ b = 1,
             c * stride1 <= stride2,
         NEW x \in Nat, NEW y \in Nat, x < y
  PROVE  (x % b) * stride + (((x \div b) % c) * stride1 + (x \div (b * c)) * stride2) + size
           <= (y % b) * stride + (((y \div b) % c) * stride1 + (y \div (b * c)) * stride2)
<1>1. PICK p \in Nat, i \in 0..(b - 1) : p = x \div b /\ i = x % b
  OBVIOUS
<1>2. PICK q \in Nat, j \in 0..(b - 1) : q = y \div b /\ j = y % b
  OBVIOUS
<1>3. p < q \/ (p = q /\ i < j)
  BY <1>1, <1>2
<1>4. x \div (b * c) = p \div c /\ y \div (b * c) = q \div c
  BY <1>1, <1>2, DivTwice
<1> DEFINE F(n) == (n % c) * stride1 + (n \div c) * stride2
<1>5. \A n \in Nat : F(n) \in Nat
  <2>1. \A n \in Nat : n % c \in Nat /\ n \div c \in Nat
    OBVIOUS
  <2>2. \A u, v \in Nat : u * stride1 + v * stride2 \in Nat
    OBVIOUS
  <2> QED
    BY <2>1, <2>2
<1>6. p < q => F(p) + stride1 <= F(q)
  <2>1. p < q => (p \div c) * stride2 + (p % c) * stride1 + stride1 <= (q \div c) * stride2
            + (q % c) * stride1
    BY NestedSteps
  <2>2. \A n \in Nat : n % c \in Nat /\ n \div c \in Nat
    OBVIOUS
  <2>3. \A u, v \in Nat : u * stride1 + v * stride2 = v * stride2 + u * stride1
    OBVIOUS
  <2> QED
    BY <2>1, <2>2, <2>3
<1>7. i * stride + size <= stride1
  <2>1. CASE b = 1
    BY <2>1
  <2>2. CASE b # 1
    <3>1. (i + 1) * stride <= b * stride /\ (i + 1) * stride = i * stride + stride
      OBVIOUS
    <3>2. i * stride \in Nat /\ b * stride \in Nat
      OBVIOUS
    <3> QED
      BY <2>2, <3>1, <3>2
  <2> QED
    BY <2>1, <2>2
<1>8. i < j => i * stride + size <= j * stride
  <2>1. i < j => (i + 1) * stride <= j * stride /\ (i + 1) * stride = i * stride + stride
    OBVIOUS
  <2>2. i < j => b # 1
    OBVIOUS
  <2>3. i * stride \in Nat /\ j * stride \in Nat
    OBVIOUS
  <2> QED
    BY <2>1, <2>2, <2>3
<1> HIDE DEF F
<1>9. PICK u \in Nat, v \in Nat : u = F(p) /\ v = F(q)
  BY <1>5
<1>10. i * stride \in Nat /\ j * stride \in Nat
  OBVIOUS
<1>11. i * stride + u + size <= j * stride + v
  BY <1>3, <1>6, <1>7, <1>8, <1>9, <1>10
<1> QED
  BY <1>1, <1>2, <1>4, <1>9, <1>11 DEF F

(* A transport with loops, seen from the side its bursts are exact on.     *)
LEMMA LoopedBurstsExact ==
  ASSUME NEW r, Operands(r), r.type = "MOV_ALIGN_V2",
         NEW side, NEW a, Listed(a, OuterOf(r) * InnerOf(r) * BurstOf(r).nBurst),
         NEW base \in Int, NEW stride \in Nat, NEW stride1 \in Nat, NEW stride2 \in Nat,
         \A n \in 1..(OuterOf(r) * InnerOf(r) * BurstOf(r).nBurst) :
             /\ AddrOn(side, a[n]) = base + OffsetOf(r, stride2, stride1, stride, n - 1)
             /\ SizeOn(side, a[n]) = BurstOf(r).size
  PROVE  /\ Bytes(side, a) = r.nBurst * r.lenBurst * (IF r.loop1Size * r.loop2Size = 0 THEN 1
                                                      ELSE r.loop1Size * r.loop2Size)
         /\ r.lenBurst <= stride
              /\ (r.loop1Size * r.loop2Size # 0 =>
                     r.nBurst * stride <= stride1 /\ r.loop1Size * stride1 <= stride2)
              => Apart(side, a)
<1>1. PICK nBurst \in Nat, lenBurst \in Nat, loop1 \in Nat, loop2 \in Nat :
          nBurst = r.nBurst /\ lenBurst = r.lenBurst /\ loop1 = r.loop1Size /\ loop2 = r.loop2Size
  BY DEF Operands, OperandsOf
<1>2. PICK o \in Nat \ {0}, c \in Nat \ {0}, b \in Nat, size \in Nat :
          o = OuterOf(r) /\ c = InnerOf(r) /\ b = BurstOf(r).nBurst /\ size = BurstOf(r).size
  BY MovAlignV2Facts
<1>3. Loops(r) <=> loop1 * loop2 # 0
  BY <1>1 DEF Loops
<1>4. (Loops(r) => o = loop2 /\ c = loop1) /\ (~Loops(r) => o = 1 /\ c = 1)
  BY <1>1, <1>2 DEF OuterOf, InnerOf
<1>5. /\ (Compact(r) => b = 1 /\ size = lenBurst * nBurst)
      /\ (~Compact(r) => b = nBurst /\ size = lenBurst)
  BY <1>1, <1>2 DEF BurstOf, MovAlignV2Burst
<1>6. PICK k \in Nat : k = o * c * b
  OBVIOUS
<1>7. Sized(side, a, k, size)
  BY <1>2, <1>6 DEF Sized
<1>8. Bytes(side, a) = r.nBurst * r.lenBurst * (IF r.loop1Size * r.loop2Size = 0 THEN 1
                                                ELSE r.loop1Size * r.loop2Size)
  <2>1. Bytes(side, a) = k * size
    BY <1>7, BytesOfEqual
  <2>2. b * size = nBurst * lenBurst
    BY <1>5
  <2>3. k * size = o * c * (b * size)
    BY <1>6
  <2>4. o * c = IF loop1 * loop2 = 0 THEN 1 ELSE loop1 * loop2
    BY <1>3, <1>4
  <2>5. \A u, v \in Nat : u * v = v * u
    OBVIOUS
  <2>6. o * c \in Nat /\ nBurst * lenBurst \in Nat
    OBVIOUS
  <2>7. o * c * (nBurst * lenBurst) = nBurst * lenBurst * (o * c)
    BY <2>5, <2>6
  <2> QED
    BY <1>1, <2>1, <2>2, <2>3, <2>4, <2>7
<1>9. ASSUME r.lenBurst <= stride,
             r.loop1Size * r.loop2Size # 0 => r.nBurst * stride <= stride1
                 /\ r.loop1Size * stride1 <= stride2,
             NEW m \in 1..k, NEW n \in 1..k, m < n
      PROVE  Before(side, a[m], a[n])
  <2>1. PICK x \in Nat, y \in Nat : x = m - 1 /\ y = n - 1 /\ x < y /\ y < k
    BY <1>9
  <2>2. b # 0
    <3>1. b = 0 => o * c * b = 0
      OBVIOUS
    <3> QED
      BY <1>6, <3>1
  <2>3. /\ AddrOn(side, a[m]) = base + OffsetOf(r, stride2, stride1, stride, x)
        /\ AddrOn(side, a[n]) = base + OffsetOf(r, stride2, stride1, stride, y)
        /\ SizeOn(side, a[m]) = size
    BY <1>2, <1>6, <2>1
  <2>4. CASE Loops(r)
    <3>1. nBurst * stride <= stride1 /\ c * stride1 <= stride2 /\ lenBurst <= stride
      BY <1>1, <1>3, <1>4, <1>9, <2>4
    <3>2. lenBurst * nBurst <= stride1
      <4>1. lenBurst * nBurst <= stride * nBurst
        BY <3>1
      <4>2. stride * nBurst = nBurst * stride /\ stride * nBurst \in Nat /\ lenBurst * nBurst \in Nat
        OBVIOUS
      <4> QED
        BY <3>1, <4>1, <4>2
    <3>3. (size <= stride \/ b = 1) /\ (b * stride <= stride1 \/ b = 1)
      BY <1>5, <3>1
    <3>4. size <= stride1
      <4>1. CASE Compact(r)
        BY <1>5, <3>2, <4>1
      <4>2. CASE ~Compact(r)
        <5>1. lenBurst <= lenBurst * nBurst
          BY <1>5, <2>2, <4>2
        <5>2. lenBurst * nBurst \in Nat
          OBVIOUS
        <5> QED
          BY <1>5, <3>2, <4>2, <5>1, <5>2
      <4> QED
        BY <4>1, <4>2
    <3>5. PICK bb \in Nat \ {0} : bb = b
      BY <2>2
    <3>6. /\ OffsetOf(r, stride2, stride1, stride, x)
               = (x % bb) * stride + (((x \div bb) % c) * stride1 + (x \div (bb * c)) * stride2)
          /\ OffsetOf(r, stride2, stride1, stride, y)
               = (y % bb) * stride + (((y \div bb) % c) * stride1 + (y \div (bb * c)) * stride2)
      BY <1>2, <2>4, <3>5, Zenon DEF OffsetOf
    <3>7. (x % bb) * stride + (((x \div bb) % c) * stride1 + (x \div (bb * c)) * stride2) + size
            <= (y % bb) * stride + (((y \div bb) % c) * stride1 + (y \div (bb * c)) * stride2)
      BY <2>1, <3>1, <3>3, <3>4, <3>5, LoopsInOrder
    <3>8. PICK u \in Nat, v \in Nat :
              u = OffsetOf(r, stride2, stride1, stride, x)
                  /\ v = OffsetOf(r, stride2, stride1, stride, y)
      BY <1>2, <2>2, MovAlignV2Facts
    <3> QED
      BY <2>3, <3>6, <3>7, <3>8 DEF Before
  <2>5. CASE ~Loops(r)
    <3>1. k = b
      BY <1>4, <1>6, <2>5
    <3>2. ~Compact(r)
      BY <1>5, <2>1, <3>1
    <3>3. x % b = x /\ y % b = y
      BY <2>1, <3>1
    <3>4. /\ OffsetOf(r, stride2, stride1, stride, x) = x * stride
          /\ OffsetOf(r, stride2, stride1, stride, y) = y * stride
      <4>1. x * stride + 0 = x * stride /\ y * stride + 0 = y * stride
        OBVIOUS
      <4>2. /\ OffsetOf(r, stride2, stride1, stride, x) = (x % b) * stride + 0
            /\ OffsetOf(r, stride2, stride1, stride, y) = (y % b) * stride + 0
        BY <1>2, <2>5, Zenon DEF OffsetOf
      <4> QED
        BY <3>3, <4>1, <4>2
    <3>5. x * stride + stride <= y * stride
      <4>1. (x + 1) * stride <= y * stride /\ (x + 1) * stride = x * stride + stride
        BY <2>1
      <4> QED
        BY <4>1
    <3>6. size <= stride
      BY <1>1, <1>5, <1>9, <3>2
    <3>7. x * stride \in Nat /\ y * stride \in Nat
      OBVIOUS
    <3> QED
      BY <2>3, <3>4, <3>5, <3>6, <3>7 DEF Before
  <2> QED
    BY <2>4, <2>5
<1>10. Listed(a, k)
  BY <1>7 DEF Sized
<1> QED
  BY <1>8, <1>9, <1>10, InOrderApart

LEMMA MovAlignV2Exact ==
  ASSUME NEW r, Operands(r), Measured(r), r.type = "MOV_ALIGN_V2" PROVE Exact(r)
<1> DEFINE a == MovAlignV2(r)
           bytes == r.nBurst * r.lenBurst * (IF r.loop1Size * r.loop2Size = 0 THEN 1
                                             ELSE r.loop1Size * r.loop2Size)
<1>1. r.dstMemType \in {"UB", "GM"}
  BY DEF Measured
<1>2. /\ r.src \in Nat /\ r.srcStride \in Nat /\ r.loop1SrcStride \in Nat /\ r.loop2SrcStride \in Nat
      /\ r.dst \in Nat /\ r.dstStride \in Nat /\ r.loop1DstStride \in Nat /\ r.loop2DstStride \in Nat
  BY DEF Operands, OperandsOf
<1>3. AccessesOf(r) = a
  BY ParserOf
<1>4. CASE r.dstMemType = "UB"
  <2>1. PICK base \in Int, stride \in Nat, stride1 \in Nat, stride2 \in Nat :
            base = r.src /\ stride = r.srcStride /\ stride1 = r.loop1SrcStride
                /\ stride2 = r.loop2SrcStride
    BY <1>2
  <2>2. Transport(r) = [bytes |-> bytes, side |-> "src"]
    BY <1>4 DEF Transport
  <2>3. /\ Listed(a, OuterOf(r) * InnerOf(r) * BurstOf(r).nBurst)
        /\ \A n \in 1..(OuterOf(r) * InnerOf(r) * BurstOf(r).nBurst) :
               /\ AddrOn("src", a[n]) = base + OffsetOf(r, stride2, stride1, stride, n - 1)
               /\ SizeOn("src", a[n]) = BurstOf(r).size
    BY <1>4, <2>1, MovAlignV2Are DEF AddrOn, SizeOn
  <2>4. /\ Bytes("src", a) = bytes
        /\ r.lenBurst <= stride
             /\ (r.loop1Size * r.loop2Size # 0 =>
                    r.nBurst * stride <= stride1 /\ r.loop1Size * stride1 <= stride2)
             => Apart("src", a)
    <3> HIDE DEF a
    <3> QED
      BY <2>3, LoopedBurstsExact
  <2>5. Located(r) => /\ r.lenBurst <= stride
                      /\ r.loop1Size * r.loop2Size # 0 =>
                             r.nBurst * stride <= stride1 /\ r.loop1Size * stride1 <= stride2
    BY <1>4, <2>1 DEF Located
  <2> HIDE DEF a, bytes
  <2> QED
    BY <1>3, <2>2, <2>4, <2>5, ExactFrom
<1>5. CASE r.dstMemType = "GM"
  <2>1. PICK base \in Int, stride \in Nat, stride1 \in Nat, stride2 \in Nat :
            base = r.dst /\ stride = r.dstStride /\ stride1 = r.loop1DstStride
                /\ stride2 = r.loop2DstStride
    BY <1>2
  <2>2. Transport(r) = [bytes |-> bytes, side |-> "dst"]
    BY <1>5 DEF Transport
  <2>3. /\ Listed(a, OuterOf(r) * InnerOf(r) * BurstOf(r).nBurst)
        /\ \A n \in 1..(OuterOf(r) * InnerOf(r) * BurstOf(r).nBurst) :
               /\ AddrOn("dst", a[n]) = base + OffsetOf(r, stride2, stride1, stride, n - 1)
               /\ SizeOn("dst", a[n]) = BurstOf(r).size
    BY <1>5, <2>1, MovAlignV2Are DEF AddrOn, SizeOn
  <2>4. /\ Bytes("dst", a) = bytes
        /\ r.lenBurst <= stride
             /\ (r.loop1Size * r.loop2Size # 0 =>
                    r.nBurst * stride <= stride1 /\ r.loop1Size * stride1 <= stride2)
             => Apart("dst", a)
    <3> HIDE DEF a
    <3> QED
      BY <2>3, LoopedBurstsExact
  <2>5. Located(r) => /\ r.lenBurst <= stride
                      /\ r.loop1Size * r.loop2Size # 0 =>
                             r.nBurst * stride <= stride1 /\ r.loop1Size * stride1 <= stride2
    BY <1>5, <2>1 DEF Located
  <2> HIDE DEF a, bytes
  <2> QED
    BY <1>3, <2>2, <2>4, <2>5, ExactFrom
<1> QED
  BY <1>1, <1>4, <1>5

(* A matrix that is laid out in rows.                                      *)
LEMMA FixPipeRowsExact ==
  ASSUME NEW r, Operands(r), Measured(r), r.type \in FixPipes, "enNZ2ND" \in r.enabled PROVE Exact(r)
<1> DEFINE a == FixPipeNZ2ND(r)
           bytes == (r.ndNum * r.mSize * r.nSize * r.quantPreBits) \div 8
<1>1. AccessesOf(r) = a
  BY ParserOf DEF FixPipe, FixPipes
<1>2. Transport(r) = [bytes |-> bytes, side |-> "dst"]
  BY DEF Transport, FixPipes
<1>3. PICK count \in Nat, rows \in Nat, n \in Nat, bits \in Nat, stride \in Nat, ndStride \in Nat,
               base \in Int :
          /\ count = r.ndNum /\ rows = r.mSize /\ n = r.nSize /\ bits = r.quantPreBits
          /\ stride = r.dstStride /\ ndStride = r.dstNdStride /\ base = r.dst
  BY DEF Operands, OperandsOf, FixPipes
<1>4. bits % 8 = 0 \/ (bits = 4 /\ n % 2 = 0)
  BY <1>3 DEF Measured, FixPipes
<1>5. PICK w \in Nat : w = bits \div 8
  OBVIOUS
<1>6. PICK size \in Nat, step \in Nat : size = PixelBytes(r) * PixelsOf(r, n)
               /\ step = PixelBytes(r) * PixelsOf(r, stride)
  <2>1. PixelBytes(r) \in Nat /\ PixelsOf(r, n) \in Nat /\ PixelsOf(r, stride) \in Nat
    BY <1>3 DEF PixelBytes, PixelsOf
  <2> QED
    BY <2>1
<1>7. PICK k \in Nat : k = count * rows
  OBVIOUS
<1>8. Sized("dst", a, k, size)
  BY <1>3, <1>6, <1>7, FixPipeNZ2NDAre DEF Sized, SizeOn, FixPipes
<1>9. \A i \in 1..k :
          AddrOn("dst", a[i]) = base + (ndStride * ((i - 1) \div rows) * w
                                          + ((i - 1) % rows) * PixelBytes(r) * PixelsOf(r, stride))
  BY <1>3, <1>5, <1>7, FixPipeNZ2NDAre DEF AddrOn, FixPipes
<1>10. (bits = 4 => w = 0) /\ (bits # 4 => bits = 8 * w)
  BY <1>4, <1>5
<1>11. /\ PixelBytes(r) \in Nat /\ PixelsOf(r, stride) \in Nat
       /\ bits = 4 => PixelBytes(r) = 1 /\ size = n \div 2 /\ step = stride \div 2
       /\ bits # 4 => PixelBytes(r) = w /\ size = w * n /\ step = w * stride
  BY <1>3, <1>5, <1>6 DEF PixelBytes, PixelsOf
<1>12. ASSUME NEW i \in 1..k
       PROVE  /\ (i - 1) \div rows \in Nat /\ (i - 1) % rows \in 0..(rows - 1)
              /\ AddrOn("dst", a[i]) = base + (((i - 1) \div rows) * (ndStride * w)
                   + ((i - 1) % rows) * step)
  <2>1. rows \in Nat \ {0}
    BY <1>7, RowsExist
  <2>2. PICK x \in Nat : x = i - 1
    OBVIOUS
  <2>3. PICK h \in Nat, j \in 0..(rows - 1) : h = x \div rows /\ j = x % rows
    BY <2>1
  <2>4. ndStride * h * w = h * (ndStride * w)
    OBVIOUS
  <2>5. j * PixelBytes(r) * PixelsOf(r, stride) = j * step
    BY <1>6, <1>11
  <2> HIDE DEF a
  <2> QED
    BY <1>9, <2>2, <2>3, <2>4, <2>5
<1>13. Bytes("dst", a) = bytes
  <2>1. Bytes("dst", a) = k * size
    <3> HIDE DEF a
    <3> QED
      BY <1>8, BytesOfEqual
  <2>2. r.ndNum * r.mSize * r.nSize * r.quantPreBits = k * (n * bits)
    BY <1>3, <1>7
  <2>3. n * bits = 8 * size
    <3>1. CASE bits = 4
      BY <1>4, <1>11, <3>1
    <3>2. CASE bits # 4
      BY <1>10, <1>11, <3>2
    <3> QED
      BY <3>1, <3>2
  <2>4. PICK x \in Nat : x = k * size
    OBVIOUS
  <2>5. k * (8 * size) = 8 * x
    BY <2>4
  <2>6. bytes = (8 * x) \div 8
    BY <2>2, <2>3, <2>5
  <2> HIDE DEF bytes, a
  <2> QED
    BY <2>1, <2>4, <2>6
<1>14. ASSUME Located(r) PROVE Apart("dst", a)
  <2>1. n <= stride /\ (count < 2 \/ (bits # 4 /\ rows * stride <= ndStride))
    BY <1>3, <1>14 DEF Located, FixPipes
  <2>2. size <= step
    <3>1. CASE bits = 4
      BY <1>11, <2>1, <3>1
    <3>2. CASE bits # 4
      <4>1. n * w <= stride * w /\ n * w = w * n /\ stride * w = w * stride
        BY <2>1
      <4> QED
        BY <1>11, <3>2, <4>1
    <3> QED
      BY <3>1, <3>2
  <2>3. CASE count < 2
    <3>1. ASSUME NEW i \in 1..k PROVE AddrOn("dst", a[i]) = base + (i - 1) * step
      <4>1. count = 1 /\ k = rows
        <5>1. count # 0
          BY <1>7, RowsExist
        <5> QED
          BY <1>7, <2>3, <5>1
      <4>2. (i - 1) \div rows = 0 /\ (i - 1) % rows = i - 1
        BY <4>1
      <4>3. 0 * (ndStride * w) = 0
        OBVIOUS
      <4> HIDE DEF a
      <4> QED
        BY <1>12, <4>2, <4>3
    <3>2. InSteps("dst", a, k, base, step)
      BY <3>1 DEF InSteps
    <3> HIDE DEF a
    <3> QED
      BY <1>8, <2>2, <3>2, StepsApart
  <2>4. CASE ~(count < 2)
    <3>1. PICK leap \in Nat : leap = ndStride * w
      OBVIOUS
    <3>2. rows * step <= leap
      <4>1. rows * stride <= ndStride /\ step = w * stride
        BY <1>11, <2>1, <2>4
      <4>2. PICK p \in Nat : p = rows * stride
        OBVIOUS
      <4>3. p * w <= ndStride * w
        BY <4>1, <4>2
      <4>4. rows * (w * stride) = p * w
        BY <4>2
      <4> QED
        BY <3>1, <4>1, <4>3, <4>4
    <3>3. InLoops("dst", a, k, base, rows, leap, step)
      BY <1>12, <3>1 DEF InLoops
    <3>4. CASE rows = 0
      <4>1. k = 0
        BY <1>7, <3>4
      <4> QED
        BY <1>8, <4>1, NoneApart DEF Sized
    <3>5. CASE rows # 0
      <4> HIDE DEF a
      <4> QED
        BY <1>8, <2>2, <3>2, <3>3, <3>5, NestedApart
    <3> QED
      BY <3>4, <3>5
  <2> QED
    BY <2>3, <2>4
<1> HIDE DEF a, bytes
<1> QED
  BY <1>1, <1>2, <1>13, <1>14, ExactFrom

(* A list with one more access.                                            *)
CatIs(a, b, c) ==
    /\ c \in Seq(Accesses)
    /\ Len(c) = Len(a) + Len(b)
    /\ \A i \in 1..Len(a) + Len(b) : c[i] = IF i <= Len(a) THEN a[i] ELSE b[i - Len(a)]

LEMMA CatLists == \A a, b \in Seq(Accesses) : CatIs(a, b, a \o b)
<1>1. ASSUME NEW a \in Seq(Accesses), NEW b \in Seq(Accesses) PROVE CatIs(a, b, a \o b)
  BY ConcatProperties, Zenon DEF CatIs
<1> QED
  BY <1>1, Zenon

MoreBy(side, a, b, k, c) ==
    /\ Listed(c, k + 1)
    /\ \A n \in 1..k : c[n] = a[n]
    /\ c[k + 1] = b[1]
    /\ Bytes(side, c) = Bytes(side, a) + SizeOn(side, b[1])

LEMMA ListedMore ==
  ASSUME NEW side, NEW a, NEW b, NEW c, NEW k \in Nat, Listed(a, k), Listed(b, 1), CatIs(a, b, c)
  PROVE  MoreBy(side, a, b, k, c)
<1> DEFINE l == k + 1
<1>1. Len(a) = k /\ Len(b) = 1
  BY DEF Listed
<1>3. /\ c \in Seq(Accesses) /\ Len(c) = l
      /\ \A n \in 1..l : c[n] = IF n <= k THEN a[n] ELSE b[n - k]
  BY <1>1 DEF CatIs
<1>4. Listed(c, l)
  BY <1>3 DEF Listed
<1>5. (\A n \in 1..k : c[n] = a[n]) /\ c[l] = b[1]
  BY <1>3
<1> DEFINE f == [n \in 1..l |-> SizeOn(side, c[n])]
           s == 1..k
<1>6. f \in [1..l -> Int] /\ IsFiniteSet(1..l)
  <2>1. \A n \in 1..l : c[n] \in Accesses
    BY <1>4 DEF Listed
  <2> QED
    BY <2>1, FS_Interval DEF SizeOn, Accesses
<1>7. s \in SUBSET (1..l) /\ l \notin s /\ 1..l = s \union {l} /\ l \in 1..l
  OBVIOUS
<1>8. Bytes(side, c) = SumOver(f, 1..l)
  <2>1. DOMAIN c = 1..l
    BY <1>4 DEF Listed
  <2>2. Bytes(side, c) = SumFunction(f)
    BY <2>1 DEF Bytes
  <2> HIDE DEF f
  <2> QED
    BY <1>6, <2>2, SumOverAll
<1>9. Bytes(side, a) = SumOver(f, s)
  <2>1. DOMAIN a = s
    BY DEF Listed
  <2>2. [n \in DOMAIN a |-> SizeOn(side, a[n])] = [n \in s |-> f[n]]
    BY <1>5, <2>1
  <2> QED
    BY <2>2 DEF Bytes, SumOver
<1>10. f[l] = SizeOn(side, b[1])
  BY <1>5, <1>7
<1> HIDE DEF f, s
<1>11. SumOver(f, s \union {l}) = f[l] + SumOver(f, s)
  BY <1>6, <1>7, SumOverMore
<1>12. SumOver(f, s) \in Int /\ f[l] \in Int
  BY <1>6, <1>7, SumOverType
<1>13. Bytes(side, c) = Bytes(side, a) + SizeOn(side, b[1])
  <2>1. PICK x \in Int, y \in Int : x = SumOver(f, s) /\ y = f[l]
    BY <1>12
  <2>2. y + x = x + y
    OBVIOUS
  <2>3. Bytes(side, c) = y + x
    BY <1>7, <1>8, <1>11, <2>1, Zenon
  <2> QED
    BY <1>9, <1>10, <2>1, <2>2, <2>3, Zenon
<1> QED
  BY <1>4, <1>5, <1>13 DEF MoreBy

LEMMA OneMode ==
  ASSUME NEW r, Operands(r), Measured(r), r.type \in FixPipes, "enNZ2ND" \notin r.enabled
  PROVE  \E mode \in Merging : r.enabled = {mode}
<1>1. r.enabled \subseteq Merging /\ r.enabled # {} /\ Cardinality(r.enabled) <= 1
  BY DEF Operands, Measured, ValidateFixL0CGM, FixPipes
<1>2. IsFiniteSet(Merging)
  <2> DEFINE x == "channelSplit"
             y == "int4ChannelMerge"
             z == "int8ChannelMerge"
  <2>1. Merging = {x} \cup {y} \cup {z}
    BY DEF Merging
  <2> HIDE DEF x, y, z
  <2>2. IsFiniteSet({x}) /\ IsFiniteSet({y}) /\ IsFiniteSet({z})
    BY FS_Singleton, Zenon
  <2>3. IsFiniteSet({x} \cup {y})
    BY <2>2, FS_Union, Zenon
  <2>4. IsFiniteSet({x} \cup {y} \cup {z})
    BY <2>2, <2>3, FS_Union, Zenon
  <2> QED
    BY <2>1, <2>4, Zenon
<1>3. IsFiniteSet(r.enabled)
  BY <1>1, <1>2, FS_Subset
<1>4. Cardinality(r.enabled) = 1
  BY <1>1, <1>3, FS_EmptySet, FS_CardinalityType
<1>5. PICK mode : r.enabled = {mode}
  BY <1>3, <1>4, FS_Singleton
<1> QED
  BY <1>1, <1>5

(* The columns of a merging mode.                                          *)
LEMMA MergedColumns ==
  ASSUME NEW r, Operands(r), Measured(r), r.type \in FixPipes, "enNZ2ND" \notin r.enabled
  PROVE  /\ ColumnSize(r) = r.mSize * 32
         /\ ~Odd(r) => r.nSize * r.quantPreBits = 256 * SplitOf(r)
         /\ Odd(r) => r.nSize * r.quantPreBits = 256 * SplitOf(r) + 128
<1>1. PICK mode \in Merging : r.enabled = {mode}
  BY OneMode
<1>2. PICK n \in Nat : n = r.nSize
  BY DEF Operands, OperandsOf, FixPipes
<1>3. ColumnSize(r) = r.mSize * 32
  BY <1>1 DEF ColumnSize, Merging, MovLocalBlockSize
<1>4. CASE mode = "channelSplit"
  <2>1. n % 8 = 0 /\ r.quantPreBits = 32
    BY <1>1, <1>2, <1>4 DEF Measured, ValidateFixL0CGM, FixPipes
  <2>2. SplitOf(r) = AlignUp(n, 8) /\ ~Odd(r)
    <3>1. "channelSplit" \in r.enabled /\ "int8ChannelMerge" \notin r.enabled
      BY <1>1, <1>4
    <3>2. r.enabled \cap Merging # {"int8ChannelMerge"} /\ r.enabled # {"enNZ2ND"} /\ r.enabled # {}
      BY <1>1, <1>4 DEF Merging
    <3> QED
      BY <1>2, <3>1, <3>2 DEF SplitOf, GetSplitColumn, Odd
  <2>3. AlignUp(n, 8) * 8 = n
    BY <2>1 DEF AlignUp
  <2>4. AlignUp(n, 8) \in Nat
    BY AlignType
  <2> QED
    BY <1>2, <1>3, <2>1, <2>2, <2>3, <2>4
<1>5. CASE mode = "int4ChannelMerge"
  <2>1. n % 64 = 0 /\ r.quantPreBits = 4
    BY <1>1, <1>2, <1>5 DEF Measured, ValidateFixL0CGM, FixPipes
  <2>2. SplitOf(r) = AlignUp(n, 16) \div 4 /\ ~Odd(r)
    <3>1. "channelSplit" \notin r.enabled /\ "int8ChannelMerge" \notin r.enabled
              /\ "int4ChannelMerge" \in r.enabled
      BY <1>1, <1>5
    <3>2. r.enabled \cap Merging # {"int8ChannelMerge"} /\ r.enabled # {"enNZ2ND"} /\ r.enabled # {}
      BY <1>1, <1>5 DEF Merging
    <3> QED
      BY <1>2, <3>1, <3>2 DEF SplitOf, GetSplitColumn, Odd
  <2>3. (AlignUp(n, 16) \div 4) * 64 = n /\ AlignUp(n, 16) \div 4 \in Nat
    BY <2>1 DEF AlignUp
  <2> QED
    BY <1>2, <1>3, <2>1, <2>2, <2>3
<1>6. CASE mode = "int8ChannelMerge"
  <2>1. n % 16 = 0 /\ r.quantPreBits = 8
    BY <1>1, <1>2, <1>6 DEF Measured, ValidateFixL0CGM, FixPipes
  <2>2. SplitOf(r) = AlignUp(n, 16) \div 2 /\ (Odd(r) <=> AlignUp(n, 16) % 2 # 0)
    <3>1. "channelSplit" \notin r.enabled /\ "int8ChannelMerge" \in r.enabled
              /\ "int4ChannelMerge" \notin r.enabled
      BY <1>1, <1>6
    <3>2. r.enabled \cap Merging = {"int8ChannelMerge"} /\ r.enabled # {"enNZ2ND"} /\ r.enabled # {}
      BY <1>1, <1>6 DEF Merging
    <3> QED
      BY <1>2, <3>1, <3>2 DEF SplitOf, GetSplitColumn, Odd
  <2>3. AlignUp(n, 16) * 16 = n /\ AlignUp(n, 16) \in Nat
    BY <2>1 DEF AlignUp
  <2>4. PICK c \in Nat : c = AlignUp(n, 16) /\ c * 16 = n
    BY <2>3
  <2> QED
    BY <1>2, <1>3, <2>1, <2>2, <2>4
<1> QED
  BY <1>1, <1>4, <1>5, <1>6 DEF Merging

(* A matrix that is split into columns.                                    *)
LEMMA FixPipeColumnsExact ==
  ASSUME NEW r, Operands(r), Measured(r), r.type \in FixPipes, "enNZ2ND" \notin r.enabled PROVE Exact(r)
<1> DEFINE c == ColumnsOf(r)
           a == FixPipe(r)
           bytes == (1 * r.mSize * r.nSize * r.quantPreBits) \div 8
<1>1. AccessesOf(r) = a
  BY ParserOf DEF FixPipes
<1>2. Transport(r) = [bytes |-> bytes, side |-> "dst"]
  BY DEF Transport, FixPipes
<1>3. PICK k \in Nat, rows \in Nat, stride \in Nat, base \in Int, n \in Nat, bits \in Nat :
          /\ k = SplitOf(r) /\ rows = r.mSize /\ stride = r.dstStride /\ base = r.dst
          /\ n = r.nSize /\ bits = r.quantPreBits
  <2>1. /\ r.mSize \in Nat /\ r.dstStride \in Nat /\ r.dst \in Nat /\ r.nSize \in Nat
            /\ r.quantPreBits \in Nat
        /\ SplitOf(r) \in Nat
    BY FixPipeFacts DEF Operands, OperandsOf, FixPipes
  <2>2. r.dst \in Int
    BY <2>1
  <2> HIDE DEF a, bytes, c
  <2> QED
    BY <2>1, <2>2, Zenon
<1>4. PICK size \in Nat, half \in Nat, step \in Nat : size = rows * 32 /\ half = rows * 16
               /\ step = stride * 32
  OBVIOUS
<1>5. /\ ColumnSize(r) = size /\ ColumnSize(r) \div 2 = half
      /\ ~Odd(r) => n * bits = 256 * k
      /\ Odd(r) => n * bits = 256 * k + 128
  BY <1>3, <1>4, MergedColumns
<1>6. /\ Listed(c, k)
      /\ \A i \in 1..k : c[i].dstAddr = base + (i - 1) * step /\ c[i].dstMemSize = size
  <2>1. c = Columns(r, size, 0, k - 1) /\ k - 1 = 0 + k - 1
    BY <1>3, <1>5 DEF ColumnsOf
  <2>2. ColumnsFrom(c, r, size, 0, k)
    <3> HIDE DEF c
    <3> QED
      BY <2>1, ColumnsAre DEF FixPipes
  <2>3. ASSUME NEW i \in 1..k PROVE stride * (0 + i - 1) * 32 = (i - 1) * step
    BY <1>4
  <2> HIDE DEF c
  <2> QED
    BY <1>3, <2>2, <2>3 DEF ColumnsFrom
<1>7. Sized("dst", c, k, size) /\ InSteps("dst", c, k, base, step)
  <2> HIDE DEF c
  <2> QED
    BY <1>6 DEF Sized, InSteps, SizeOn, AddrOn
<1>8. Bytes("dst", c) = k * size
  <2> HIDE DEF c
  <2> QED
    BY <1>7, BytesOfEqual
<1>9. Located(r) => size <= step
  BY <1>3, <1>4 DEF Located, FixPipes
<1>10. bytes = (rows * (n * bits)) \div 8
  BY <1>3
<1>11. k * size = k * rows * 32
  BY <1>4
<1>12. CASE ~Odd(r)
  <2>1. a = c
    <3>1. a = c \o <<>>
      BY <1>12, FixPipeIs
    <3>2. c \in Seq(Accesses)
      BY <1>6, ListedIsSeq
    <3> HIDE DEF a, c
    <3> QED
      BY <3>1, <3>2, ConcatEmptySeq
  <2>2. bytes = k * size
    <3>1. PICK x \in Nat : x = k * size
      OBVIOUS
    <3>2. rows * (256 * k) = 8 * x
      BY <1>11, <3>1
    <3>3. bytes = (8 * x) \div 8
      BY <1>5, <1>10, <1>12, <3>2
    <3> HIDE DEF bytes
    <3> QED
      BY <3>1, <3>3
  <2> HIDE DEF a, c, bytes
  <2>3. Bytes("dst", a) = bytes
    BY <1>8, <2>1, <2>2
  <2>4. Located(r) => Apart("dst", a)
    BY <1>7, <1>9, <2>1, StepsApart
  <2> QED
    BY <1>1, <1>2, <2>3, <2>4, ExactFrom
<1>13. CASE Odd(r)
  <2> DEFINE h == HalfColumn(r)
  <2>1. a = c \o h
    BY <1>13, FixPipeIs
  <2>2. Listed(h, 1) /\ h[1].dstAddr = base + k * step /\ h[1].dstMemSize = half
    <3>1. h = Columns(r, half, k, k)
      BY <1>3, <1>5, Zenon DEF HalfColumn
    <3>2. ColumnsFrom(h, r, half, k, 1)
      <4>1. PICK one \in Nat : one = 1 /\ k = k + one - 1
        OBVIOUS
      <4> HIDE DEF h
      <4>2. ColumnsFrom(h, r, half, k, one)
        BY <3>1, <4>1, ColumnsAre DEF FixPipes
      <4> QED
        BY <4>1, <4>2
    <3>3. stride * (k + 1 - 1) * 32 = k * step
      BY <1>4
    <3> HIDE DEF h
    <3> QED
      BY <1>3, <3>2, <3>3 DEF ColumnsFrom
  <2>3. PICK l \in Nat : l = k + 1
    OBVIOUS
  <2> HIDE DEF a, c, h
  <2>4. /\ Listed(a, l)
        /\ \A i \in 1..k : a[i] = c[i]
        /\ a[l] = h[1]
        /\ Bytes("dst", a) = Bytes("dst", c) + SizeOn("dst", h[1])
    <3>1. CatIs(c, h, a)
      <4>1. c \in Seq(Accesses) /\ h \in Seq(Accesses)
        BY <1>6, <2>2, ListedIsSeq
      <4> QED
        BY <2>1, <4>1, CatLists, Zenon
    <3>2. MoreBy("dst", c, h, k, a)
      BY <1>6, <2>2, <3>1, ListedMore
    <3> QED
      BY <2>3, <3>2 DEF MoreBy
  <2>5. Bytes("dst", a) = bytes
    <3>1. PICK x \in Nat : x = k * size + half
      OBVIOUS
    <3>2. rows * (256 * k + 128) = 8 * x
      BY <1>4, <1>11, <3>1
    <3>3. bytes = (8 * x) \div 8
      BY <1>5, <1>10, <1>13, <3>2
    <3>4. Bytes("dst", a) = x
      BY <1>8, <2>2, <2>4, <3>1 DEF SizeOn
    <3> HIDE DEF bytes
    <3> QED
      BY <3>3, <3>4
  <2>6. ASSUME Located(r) PROVE Apart("dst", a)
    <3>1. ASSUME NEW m \in 1..l, NEW i \in 1..l, m < i PROVE Before("dst", a[m], a[i])
      <4>1. m \in 1..k /\ a[m].dstAddr = base + (m - 1) * step /\ a[m].dstMemSize = size
        BY <1>6, <2>3, <2>4, <3>1
      <4>2. a[i].dstAddr = base + (i - 1) * step
        <5>1. CASE i = l
          BY <2>2, <2>3, <2>4, <5>1
        <5>2. CASE i # l
          BY <1>6, <2>3, <2>4, <5>2
        <5> QED
          BY <5>1, <5>2
      <4>3. (m - 1 + 1) * step <= (i - 1) * step /\ (m - 1 + 1) * step = (m - 1) * step + step
        BY <3>1
      <4>4. (m - 1) * step \in Int /\ (i - 1) * step \in Int
        OBVIOUS
      <4> QED
        BY <1>9, <2>6, <4>1, <4>2, <4>3, <4>4 DEF Before, AddrOn, SizeOn
    <3> QED
      BY <2>3, <2>4, <3>1, InOrderApart
  <2> HIDE DEF bytes
  <2> QED
    BY <1>1, <1>2, <2>5, <2>6, ExactFrom
<1> QED
  BY <1>12, <1>13

LEMMA MeasuredExact ==
  ASSUME NEW r, r.type \in RecordTypes, Operands(r), Measured(r) PROVE Exact(r)
<1>1. CASE r.type \in {"LOAD_2D", "LOAD_L1_TO_L0B_2D_TRANSPOSE"}
  BY <1>1, Load2dExact, Load2dTransposeExact
<1>2. CASE r.type \in {"LOAD_2DV2", "LOAD_MX2DV2", "SIMT_LOAD_STORE"}
  BY <1>2, SinglesExact
<1>3. CASE r.type \in {"LOAD_2DV2_DEC", "SIMT_ATOM_RED"}
  BY <1>3, Load2dV2DecExact, AtomRedExact
<1>4. CASE r.type = "SET_2D"
  BY <1>4 DEF Measured
<1>5. CASE r.type \in {"DMA_MOV", "MOV_A5", "MOV_V2_A5"}
  BY <1>5, MovesExact
<1>6. CASE r.type \in {"MOV_ALIGN", "MOV_ALIGN_V2"}
  BY <1>6, MovAlignExact, MovAlignV2Exact
<1>7. CASE r.type \in {"DMA_MOV_ND2NZ", "DMA_MOV_ND2NZ_DAV", "DMA_MOV_DN2NZ_D"}
  BY <1>7, Nd2nzExact, NdOrDn2nzDavExact
<1>8. CASE r.type \in FixPipes
  BY <1>8, FixPipeRowsExact, FixPipeColumnsExact
<1> QED
  BY <1>1, <1>2, <1>3, <1>4, <1>5, <1>6, <1>7, <1>8 DEF RecordTypes, FixPipes

(* The bytes of every accepted record, and where they lie: the accesses     *)
(* the parsers of MemoryRecord make are those its operands instruct.        *)
THEOREM TrafficAsInstructedCorrect == DbiSpec => []TrafficAsInstructed
<1>1. ASSUME DbiInv, tallied.done, NEW i \in Accepted PROVE Measured(Body(i)) => Exact(Body(i))
  <2>1. /\ packet \in Packets /\ packet.count \in Nat /\ processedCount \in Nat
            /\ processedCount <= packet.count
        /\ Read(packet, processedCount)
    BY <1>1, AtHeader DEF DbiInv
  <2>2. Readable = processedCount \/ Readable = processedCount - 1
    BY <1>1, ReadableIs
  <2>3. i \in 1..processedCount /\ ~Rejected(Body(i))
    BY <2>1, <2>2 DEF Accepted
  <2>4. i \in 1..packet.count /\ Known(packet.records[i])
    BY <2>1, <2>3 DEF Read
  <2>5. Operands(Body(i)) /\ Body(i).type \in RecordTypes
    BY <2>1, <2>3, <2>4, PacketsAssumption DEF Known, Body
  <2> QED
    BY <2>5, MeasuredExact
<1>2. DbiInv => TrafficAsInstructed
  BY <1>1 DEF TrafficAsInstructed, Exact
<1> QED
  BY <1>2, DbiInvariance, PTL
-----------------------------------------------------------------------------
(* CoreRecords: what a log is worth, as a relation between the stubs ex     *)
(* executed so far and the log, with the stub last before the first one     *)
(* that found no room.                                                      *)

LoggedMoves == CubeMoves \union VecMoves
ParaStubs == [core : Cores, para : {1, 2}]
MoveStubs == [core : Cores, move : LoggedMoves]
MemoryStubs == ParaStubs \union MoveStubs
MoveRecords == [move : LoggedMoves, para : 0..2]

StubsIn(ex, core, field) == {i \in DOMAIN ex : ex[i].core = core /\ field \in DOMAIN ex[i]}
MovesIn(ex, core, last) == {i \in StubsIn(ex, core, "move") : i <= last}
DroppedIn(ex, core, last) == {i \in StubsIn(ex, core, "para") \union StubsIn(ex, core, "move") : i > last}
SetBefore(ex, core, i) == {j \in StubsIn(ex, core, "para") : j < i}
ParaAt(ex, core, i) ==
  IF SetBefore(ex, core, i) = {} THEN 0 ELSE ex[Max(SetBefore(ex, core, i))].para
Place(moves, i) == Cardinality({j \in moves : j <= i})
UsedBy(records) == SumFunction([n \in DOMAIN records |-> records[n].move.len])

Fits(ex, core, records, moves) ==
  \A i \in moves :
    LET record == records[Place(moves, i)]
    IN record.move = ex[i].move /\ (record.move.nz => record.para = ParaAt(ex, core, i))

LogKept(ex, core, log, last) ==
  /\ last \in 0..Len(ex)
  /\ log.count = Len(log.records) /\ log.count = Cardinality(MovesIn(ex, core, last))
  /\ Fits(ex, core, log.records, MovesIn(ex, core, last))
  /\ log.count <= UsedBy(log.records) /\ UsedBy(log.records) <= LogLen
  /\ ~log.overflow => /\ last = Len(ex)
                      /\ log.length = UsedBy(log.records)
                      /\ log.para = ParaAt(ex, core, Len(ex) + 1)
  /\ log.overflow => LET dropped == DroppedIn(ex, core, last)
                     IN /\ dropped # {}
                        /\ log.length = log.count + Cardinality(dropped)
                        /\ UsedBy(log.records) + LengthOf(ex[Min(dropped)]) > LogLen

(* ex2 is ex and one more stub e, the n-th.                                 *)
OneMore(ex, ex2, e, n) ==
  /\ ex \in Seq(MemoryStubs) /\ e \in MemoryStubs /\ n = Len(ex) + 1
  /\ DOMAIN ex = 1..Len(ex) /\ DOMAIN ex2 = 1..n /\ Len(ex2) = n
  /\ ex2[n] = e /\ \A i \in 1..Len(ex) : ex2[i] = ex[i]

LEMMA AppendedIsOneMore ==
  ASSUME NEW ex \in Seq(MemoryStubs), NEW e \in MemoryStubs
  PROVE  OneMore(ex, Append(ex, e), e, Len(ex) + 1)
<1> DEFINE E == MemoryStubs
<1>1. ex \in Seq(E) /\ e \in E
  OBVIOUS
<1> HIDE DEF E
<1>2. Len(Append(ex, e)) = Len(ex) + 1 /\ DOMAIN ex = 1..Len(ex) /\ DOMAIN Append(ex, e) = 1..(Len(ex) + 1)
  BY <1>1
<1>3. Append(ex, e)[Len(ex) + 1] = e /\ \A i \in 1..Len(ex) : Append(ex, e)[i] = ex[i]
  BY <1>1
<1> QED
  BY <1>2, <1>3 DEF OneMore

LEMMA ParaStub ==
  ASSUME NEW e \in ParaStubs
  PROVE  /\ "para" \in DOMAIN e /\ "move" \notin DOMAIN e
         /\ e.core \in Cores /\ e.para \in {1, 2} /\ LengthOf(e) = ParaLen
  BY DEF ParaStubs, LengthOf

LEMMA MoveStub ==
  ASSUME NEW e \in MoveStubs
  PROVE  /\ "move" \in DOMAIN e /\ "para" \notin DOMAIN e
         /\ e.core \in Cores /\ e.move \in LoggedMoves /\ LengthOf(e) = e.move.len
  BY DEF MoveStubs, LengthOf

(* The stubs of a core after one more stub.                                 *)
LEMMA MoreStubs ==
  ASSUME NEW ex, NEW ex2, NEW e, NEW n, OneMore(ex, ex2, e, n), NEW core, NEW field
  PROVE  /\ StubsIn(ex, core, field) \subseteq 1..Len(ex)
         /\ \A i : i \in StubsIn(ex2, core, field) <=>
                     \/ i \in StubsIn(ex, core, field)
                     \/ i = n /\ e.core = core /\ field \in DOMAIN e
<1>1. Len(ex) \in Nat /\ n = Len(ex) + 1 /\ DOMAIN ex = 1..Len(ex) /\ DOMAIN ex2 = 1..n
  BY DEF OneMore
<1>2. ex2[n] = e /\ \A i \in 1..Len(ex) : ex2[i] = ex[i]
  BY DEF OneMore
<1>3. \A i : i \in DOMAIN ex2 <=> i \in DOMAIN ex \/ i = n
  BY <1>1
<1>4. n \notin DOMAIN ex
  BY <1>1
<1>5. StubsIn(ex, core, field) \subseteq 1..Len(ex)
  BY <1>1 DEF StubsIn
<1>6. \A i : i \in StubsIn(ex2, core, field) <=>
               \/ i \in StubsIn(ex, core, field)
               \/ i = n /\ e.core = core /\ field \in DOMAIN e
  BY <1>1, <1>2, <1>3, <1>4, Zenon DEF StubsIn
<1> QED
  BY <1>5, <1>6

(* What does not change: all about the first stubs.                         *)
LEMMA FirstStubs ==
  ASSUME NEW ex, NEW ex2, NEW e, NEW n, OneMore(ex, ex2, e, n), NEW core
  PROVE  /\ \A last \in 0..Len(ex) : MovesIn(ex2, core, last) = MovesIn(ex, core, last)
         /\ \A i \in 1..n : ParaAt(ex2, core, i) = ParaAt(ex, core, i)
<1>1. Len(ex) \in Nat /\ n = Len(ex) + 1 /\ \A i \in 1..Len(ex) : ex2[i] = ex[i]
  BY DEF OneMore
<1>2. ASSUME NEW last \in 0..Len(ex) PROVE MovesIn(ex2, core, last) = MovesIn(ex, core, last)
  <2>1. \A i : i \in MovesIn(ex2, core, last) <=> i \in MovesIn(ex, core, last)
    BY <1>1, MoreStubs DEF MovesIn
  <2> QED
    BY <2>1, Zenon DEF MovesIn
<1>3. ASSUME NEW i \in 1..n PROVE ParaAt(ex2, core, i) = ParaAt(ex, core, i)
  <2>1. \A j : j \in SetBefore(ex2, core, i) <=> j \in SetBefore(ex, core, i)
    BY <1>1, MoreStubs DEF SetBefore
  <2>2. SetBefore(ex2, core, i) = SetBefore(ex, core, i)
    BY <2>1, Zenon DEF SetBefore
  <2>3. SetBefore(ex, core, i) \subseteq 1..Len(ex)
    BY MoreStubs DEF SetBefore
  <2>4. ASSUME SetBefore(ex, core, i) # {}
        PROVE  Max(SetBefore(ex, core, i)) \in SetBefore(ex, core, i)
    <3>1. PICK m \in SetBefore(ex, core, i) : \A j \in SetBefore(ex, core, i) : m >= j
      BY <1>1, <2>3, <2>4, LastOf
    <3> QED
      BY <3>1 DEF Max
  <2> QED
    BY <1>1, <2>2, <2>3, <2>4 DEF ParaAt
<1> QED
  BY <1>2, <1>3

(* All stubs of a core up to the last of all.                               *)
LEMMA AllStubs ==
  ASSUME NEW ex, NEW ex2, NEW e, NEW n, OneMore(ex, ex2, e, n), NEW core
  PROVE  /\ MovesIn(ex2, core, n) = IF e.core = core /\ "move" \in DOMAIN e
                                    THEN MovesIn(ex, core, Len(ex)) \union {n}
                                    ELSE MovesIn(ex, core, Len(ex))
         /\ \A last \in 0..Len(ex) :
              DroppedIn(ex2, core, last) =
                IF e.core = core /\ ("para" \in DOMAIN e \/ "move" \in DOMAIN e)
                THEN DroppedIn(ex, core, last) \union {n} ELSE DroppedIn(ex, core, last)
<1>1. Len(ex) \in Nat /\ n = Len(ex) + 1
  BY DEF OneMore
<1>2. \A i : i \in StubsIn(ex2, core, "move") <=>
               i \in StubsIn(ex, core, "move") \/ (i = n /\ e.core = core /\ "move" \in DOMAIN e)
  BY MoreStubs
<1>3. \A i : i \in StubsIn(ex2, core, "para") <=>
               i \in StubsIn(ex, core, "para") \/ (i = n /\ e.core = core /\ "para" \in DOMAIN e)
  BY MoreStubs
<1>4. StubsIn(ex, core, "move") \subseteq 1..Len(ex) /\ StubsIn(ex, core, "para") \subseteq 1..Len(ex)
  BY MoreStubs
<1>5. \A i : i \in MovesIn(ex2, core, n) <=>
               i \in MovesIn(ex, core, Len(ex)) \/ (i = n /\ e.core = core /\ "move" \in DOMAIN e)
  BY <1>1, <1>2, <1>4 DEF MovesIn
<1>6. MovesIn(ex2, core, n) = IF e.core = core /\ "move" \in DOMAIN e
                              THEN MovesIn(ex, core, Len(ex)) \union {n}
                              ELSE MovesIn(ex, core, Len(ex))
  BY <1>5
<1>7. ASSUME NEW last \in 0..Len(ex)
      PROVE  DroppedIn(ex2, core, last) =
               IF e.core = core /\ ("para" \in DOMAIN e \/ "move" \in DOMAIN e)
               THEN DroppedIn(ex, core, last) \union {n} ELSE DroppedIn(ex, core, last)
  <2>1. \A i : i \in DroppedIn(ex2, core, last) <=>
                 \/ i \in DroppedIn(ex, core, last)
                 \/ i = n /\ e.core = core /\ ("para" \in DOMAIN e \/ "move" \in DOMAIN e)
    BY <1>1, <1>2, <1>3, <1>4 DEF DroppedIn
  <2> QED
    BY <2>1
<1> QED
  BY <1>6, <1>7

LEMMA ParaLater ==
  ASSUME NEW ex, NEW ex2, NEW e, NEW n, OneMore(ex, ex2, e, n), NEW core
  PROVE  ParaAt(ex2, core, n + 1) =
           IF e.core = core /\ "para" \in DOMAIN e THEN e.para ELSE ParaAt(ex, core, n)
<1>1. Len(ex) \in Nat /\ n = Len(ex) + 1 /\ ex2[n] = e /\ \A i \in 1..Len(ex) : ex2[i] = ex[i]
  BY DEF OneMore
<1>2. \A i : i \in StubsIn(ex2, core, "para") <=>
               i \in StubsIn(ex, core, "para") \/ (i = n /\ e.core = core /\ "para" \in DOMAIN e)
  BY MoreStubs
<1>3. StubsIn(ex, core, "para") \subseteq 1..Len(ex)
  BY MoreStubs
<1>4. \A i : i \in SetBefore(ex2, core, n + 1) <=>
               i \in SetBefore(ex, core, n) \/ (i = n /\ e.core = core /\ "para" \in DOMAIN e)
  BY <1>1, <1>2, <1>3 DEF SetBefore
<1>5. SetBefore(ex, core, n) \subseteq 1..Len(ex)
  BY <1>3 DEF SetBefore
<1>6. CASE e.core = core /\ "para" \in DOMAIN e
  <2>1. n \in SetBefore(ex2, core, n + 1) /\ \A i \in SetBefore(ex2, core, n + 1) : n >= i /\ i \in Nat
    BY <1>1, <1>4, <1>5, <1>6
  <2>2. Max(SetBefore(ex2, core, n + 1)) = n
    BY <1>1, <2>1 DEF Max
  <2>3. SetBefore(ex2, core, n + 1) # {}
    BY <2>1
  <2> QED
    BY <1>1, <1>6, <2>2, <2>3 DEF ParaAt
<1>7. CASE ~(e.core = core /\ "para" \in DOMAIN e)
  <2>1. SetBefore(ex2, core, n + 1) = SetBefore(ex, core, n)
    BY <1>4, <1>7
  <2>2. ASSUME SetBefore(ex, core, n) # {}
        PROVE  Max(SetBefore(ex, core, n)) \in SetBefore(ex, core, n)
    <3>1. PICK m \in SetBefore(ex, core, n) : \A j \in SetBefore(ex, core, n) : m >= j
      BY <1>1, <1>5, <2>2, LastOf
    <3> QED
      BY <3>1 DEF Max
  <2>3. SetBefore(ex, core, n) # {} =>
          ex2[Max(SetBefore(ex, core, n))] = ex[Max(SetBefore(ex, core, n))]
    BY <1>1, <1>5, <2>2
  <2>4. ParaAt(ex2, core, n + 1) = ParaAt(ex, core, n)
    BY <2>1, <2>3, Zenon DEF ParaAt
  <2> QED
    BY <1>7, <2>4
<1> QED
  BY <1>6, <1>7

LEMMA StillFits ==
  ASSUME NEW ex, NEW ex2, NEW e, NEW n, OneMore(ex, ex2, e, n), NEW core, NEW records,
         NEW last \in 0..Len(ex), Fits(ex, core, records, MovesIn(ex, core, last))
  PROVE  Fits(ex2, core, records, MovesIn(ex, core, last))
<1>1. Len(ex) \in Nat /\ n = Len(ex) + 1 /\ \A i \in 1..Len(ex) : ex2[i] = ex[i]
  BY DEF OneMore
<1>2. MovesIn(ex, core, last) \subseteq 1..Len(ex)
  BY MoreStubs DEF MovesIn
<1>3. \A i \in 1..Len(ex) : ParaAt(ex2, core, i) = ParaAt(ex, core, i)
  BY <1>1, FirstStubs
<1>4. \A i \in MovesIn(ex, core, last) : ex2[i] = ex[i] /\ ParaAt(ex2, core, i) = ParaAt(ex, core, i)
  BY <1>1, <1>2, <1>3
<1> QED
  BY <1>4, Zenon DEF Fits

(* What another core does leaves a log as exact as it was.                  *)
LEMMA OtherStubKeeps ==
  ASSUME NEW ex, NEW ex2, NEW e, NEW n, OneMore(ex, ex2, e, n), NEW core, e.core # core,
         NEW log, NEW last, LogKept(ex, core, log, last)
  PROVE  \E last2 : LogKept(ex2, core, log, last2)
<1>1. Len(ex) \in Nat /\ n = Len(ex) + 1 /\ Len(ex2) = n /\ \A i \in 1..Len(ex) : ex2[i] = ex[i]
  BY DEF OneMore
<1>2. /\ last \in 0..Len(ex)
      /\ log.count = Len(log.records) /\ log.count = Cardinality(MovesIn(ex, core, last))
      /\ Fits(ex, core, log.records, MovesIn(ex, core, last))
      /\ log.count <= UsedBy(log.records) /\ UsedBy(log.records) <= LogLen
  BY DEF LogKept
<1>3. Fits(ex2, core, log.records, MovesIn(ex, core, last))
  BY <1>2, StillFits
<1>4. CASE log.overflow
  <2>1. MovesIn(ex2, core, last) = MovesIn(ex, core, last)
    BY <1>2, FirstStubs
  <2>2. DroppedIn(ex2, core, last) = DroppedIn(ex, core, last)
    BY <1>2, AllStubs
  <2>3. /\ DroppedIn(ex, core, last) # {}
        /\ log.length = log.count + Cardinality(DroppedIn(ex, core, last))
        /\ UsedBy(log.records) + LengthOf(ex[Min(DroppedIn(ex, core, last))]) > LogLen
    BY <1>4 DEF LogKept
  <2>4. DroppedIn(ex, core, last) \subseteq 1..Len(ex)
    BY MoreStubs DEF DroppedIn
  <2>5. Min(DroppedIn(ex, core, last)) \in DroppedIn(ex, core, last)
    <3>1. PICK m \in DroppedIn(ex, core, last) : \A j \in DroppedIn(ex, core, last) : m <= j
      BY <2>3, <2>4, FirstOf
    <3> QED
      BY <3>1 DEF Min
  <2>6. ex2[Min(DroppedIn(ex, core, last))] = ex[Min(DroppedIn(ex, core, last))]
    BY <1>1, <2>4, <2>5
  <2>7. last \in 0..Len(ex2)
    BY <1>1, <1>2
  <2>8. LogKept(ex2, core, log, last)
    BY <1>2, <1>3, <1>4, <2>1, <2>2, <2>3, <2>6, <2>7, Zenon DEF LogKept
  <2> QED
    BY <2>8
<1>5. CASE ~log.overflow
  <2>1. last = Len(ex) /\ log.length = UsedBy(log.records) /\ log.para = ParaAt(ex, core, n)
    BY <1>1, <1>5 DEF LogKept
  <2>2. MovesIn(ex2, core, n) = MovesIn(ex, core, last)
    BY <2>1, AllStubs
  <2>3. ParaAt(ex2, core, Len(ex2) + 1) = log.para
    BY <1>1, <2>1, ParaLater
  <2>4. n \in 0..Len(ex2) /\ n = Len(ex2)
    BY <1>1
  <2>5. LogKept(ex2, core, log, n)
    BY <1>2, <1>3, <1>5, <2>1, <2>2, <2>3, <2>4, Zenon DEF LogKept
  <2> QED
    BY <2>5
<1> QED
  BY <1>4, <1>5

CoreLogs ==
  [length : Nat, overflow : BOOLEAN, count : Nat, para : 0..2, records : Seq(MoveRecords)]

(* What a stub that finds no room leaves.                                   *)
LEMMA DroppedKeeps ==
  ASSUME NEW ex, NEW ex2, NEW e, NEW n, OneMore(ex, ex2, e, n), NEW core, e.core = core,
         NEW log \in CoreLogs, NEW last, LogKept(ex, core, log, last), ~HasRoom(log, LengthOf(e)),
         LengthOf(e) \in Nat, UsedBy(log.records) \in Int,
         NEW log2 \in CoreLogs, log2.records = log.records, log2.count = log.count, log2.overflow,
         log2.length = IF log.overflow THEN log.length + 1 ELSE log.count + 1
  PROVE  LogKept(ex2, core, log2, last)
<1>1. Len(ex) \in Nat /\ n = Len(ex) + 1 /\ Len(ex2) = n /\ ex2[n] = e /\ \A i \in 1..Len(ex) : ex2[i] = ex[i]
  BY DEF OneMore
<1>2. /\ last \in 0..Len(ex)
      /\ log.count = Len(log.records) /\ log.count = Cardinality(MovesIn(ex, core, last))
      /\ Fits(ex, core, log.records, MovesIn(ex, core, last))
      /\ log.count <= UsedBy(log.records) /\ UsedBy(log.records) <= LogLen
  BY DEF LogKept
<1>3. Fits(ex2, core, log.records, MovesIn(ex, core, last))
  BY <1>2, StillFits
<1>4. MovesIn(ex2, core, last) = MovesIn(ex, core, last)
  BY <1>2, FirstStubs
<1>5. "para" \in DOMAIN e \/ "move" \in DOMAIN e
  <2>1. e \in ParaStubs \/ e \in MoveStubs
    BY DEF OneMore, MemoryStubs
  <2> QED
    BY <2>1, ParaStub, MoveStub
<1>6. DroppedIn(ex2, core, last) = DroppedIn(ex, core, last) \union {n}
  BY <1>2, <1>5, AllStubs
<1>7. DroppedIn(ex, core, last) \subseteq 1..Len(ex)
  BY MoreStubs DEF DroppedIn
<1>8. IsFiniteSet(DroppedIn(ex, core, last)) /\ Cardinality(DroppedIn(ex, core, last)) \in Nat
  <2>1. IsFiniteSet(1..Len(ex))
    BY <1>1, FS_Interval
  <2>2. IsFiniteSet(DroppedIn(ex, core, last))
    BY <1>7, <2>1, FS_Subset, Zenon
  <2> QED
    BY <2>2, FS_CardinalityType, Zenon
<1>9. Cardinality(DroppedIn(ex2, core, last)) = Cardinality(DroppedIn(ex, core, last)) + 1
  <2>1. n \notin DroppedIn(ex, core, last)
    BY <1>1, <1>7
  <2>2. PICK D : D = DroppedIn(ex, core, last)
    OBVIOUS
  <2>3. IsFiniteSet(D) /\ n \notin D
    BY <1>8, <2>1, <2>2
  <2>4. Cardinality(D \union {n}) = Cardinality(D) + 1
    BY <2>3, FS_AddElement
  <2> QED
    BY <1>6, <2>2, <2>4
<1>10. last \in 0..Len(ex2)
  BY <1>1, <1>2
<1>11. DroppedIn(ex2, core, last) # {}
  BY <1>6
<1>12. log.count \in Nat /\ log.length \in Nat
  BY DEF CoreLogs
<1>13. CASE log.overflow
  <2>1. /\ DroppedIn(ex, core, last) # {}
        /\ log.length = log.count + Cardinality(DroppedIn(ex, core, last))
        /\ UsedBy(log.records) + LengthOf(ex[Min(DroppedIn(ex, core, last))]) > LogLen
    BY <1>13 DEF LogKept
  <2>2. PICK m \in DroppedIn(ex, core, last) : \A j \in DroppedIn(ex, core, last) : m <= j
    BY <1>7, <2>1, FirstOf
  <2>3. DroppedIn(ex, core, last) \subseteq Nat /\ DroppedIn(ex2, core, last) \subseteq Nat
    BY <1>1, <1>6, <1>7
  <2>4. Min(DroppedIn(ex, core, last)) = m
    BY <2>2, <2>3, MinIs, Zenon
  <2>5. m \in DroppedIn(ex2, core, last) /\ \A j \in DroppedIn(ex2, core, last) : m <= j
    BY <1>1, <1>6, <1>7, <2>2
  <2>6. Min(DroppedIn(ex2, core, last)) = m
    BY <2>3, <2>5, MinIs, Zenon
  <2>7. ex2[m] = ex[m]
    BY <1>1, <1>7, <2>2
  <2>8. log2.length = log2.count + Cardinality(DroppedIn(ex2, core, last))
    BY <1>8, <1>9, <1>12, <1>13, <2>1
  <2>9. UsedBy(log2.records) + LengthOf(ex2[Min(DroppedIn(ex2, core, last))]) > LogLen
    BY <2>1, <2>4, <2>6, <2>7
  <2> QED
    BY <1>2, <1>3, <1>4, <1>10, <1>11, <2>8, <2>9, Zenon DEF LogKept
<1>14. CASE ~log.overflow
  <2>1. last = Len(ex) /\ log.length = UsedBy(log.records)
    BY <1>14 DEF LogKept
  <2>2. DroppedIn(ex, core, last) = {}
    BY <1>1, <1>7, <2>1 DEF DroppedIn
  <2>3. DroppedIn(ex2, core, last) = {n}
    BY <1>6, <2>2
  <2>4. Min(DroppedIn(ex2, core, last)) = n
    BY <1>1, <2>3 DEF Min
  <2>5. ~(log.length <= LogLen - LengthOf(e))
    BY <1>14 DEF HasRoom
  <2>6. UsedBy(log2.records) + LengthOf(ex2[Min(DroppedIn(ex2, core, last))]) > LogLen
    <3>1. LogLen \in Nat
      BY CoreRecordsAssumption
    <3>2. log.length + LengthOf(e) > LogLen
      BY <1>12, <2>5, <3>1
    <3> QED
      BY <1>1, <2>1, <2>4, <3>2
  <2>7. Cardinality(DroppedIn(ex, core, last)) = 0
    BY <2>2, FS_EmptySet
  <2>8. log2.length = log2.count + Cardinality(DroppedIn(ex2, core, last))
    BY <1>9, <1>12, <1>14, <2>7
  <2> QED
    BY <1>2, <1>3, <1>4, <1>10, <1>11, <2>6, <2>8, Zenon DEF LogKept
<1> QED
  BY <1>13, <1>14

(* A parameter that finds room.                                             *)
LEMMA ParaKeeps ==
  ASSUME NEW ex, NEW ex2, NEW e \in ParaStubs, NEW n, OneMore(ex, ex2, e, n), NEW core, e.core = core,
         NEW log \in CoreLogs, NEW last, LogKept(ex, core, log, last), ~log.overflow,
         NEW log2 \in CoreLogs, log2.records = log.records, log2.count = log.count, ~log2.overflow,
         log2.length = log.length, log2.para = e.para
  PROVE  LogKept(ex2, core, log2, n)
<1>1. Len(ex) \in Nat /\ n = Len(ex) + 1 /\ Len(ex2) = n
  BY DEF OneMore
<1>2. /\ last \in 0..Len(ex)
      /\ log.count = Len(log.records) /\ log.count = Cardinality(MovesIn(ex, core, last))
      /\ Fits(ex, core, log.records, MovesIn(ex, core, last))
      /\ log.count <= UsedBy(log.records) /\ UsedBy(log.records) <= LogLen
      /\ last = Len(ex) /\ log.length = UsedBy(log.records)
  BY DEF LogKept
<1>3. Fits(ex2, core, log.records, MovesIn(ex, core, last))
  BY <1>2, StillFits
<1>4. "para" \in DOMAIN e /\ "move" \notin DOMAIN e
  BY ParaStub
<1>5. MovesIn(ex2, core, n) = MovesIn(ex, core, last)
  BY <1>2, <1>4, AllStubs
<1>6. ParaAt(ex2, core, Len(ex2) + 1) = e.para
  <2>1. ParaAt(ex2, core, n + 1) = e.para
    BY <1>4, ParaLater
  <2> QED
    BY <1>1, <2>1
<1>7. n \in 0..Len(ex2)
  BY <1>1
<1> QED
  BY <1>1, <1>2, <1>3, <1>5, <1>6, <1>7, Zenon DEF LogKept

(* A record more: what it adds to the length.                               *)
LEMMA MovesHaveLengths ==
  ASSUME NEW move \in LoggedMoves
  PROVE  /\ move.len \in Nat /\ move.len > 0 /\ move.bytes \in Nat
         /\ move.sub \in {0, 1} /\ move.nz \in BOOLEAN
  BY MovesAssumption DEF LoggedMoves

LEMMA UsedIs ==
  ASSUME NEW records \in Seq(MoveRecords)
  PROVE  /\ [m \in DOMAIN records |-> records[m].move.len] \in [1..Len(records) -> Int]
         /\ UsedBy(records) \in Int
<1>1. DOMAIN records = 1..Len(records) /\ Len(records) \in Nat
  OBVIOUS
<1>2. \A m \in DOMAIN records : records[m].move.len \in Int
  <2>1. ASSUME NEW m \in DOMAIN records PROVE records[m].move.len \in Int
    <3>1. records[m] \in MoveRecords
      BY <1>1
    <3>2. records[m].move \in LoggedMoves
      BY <3>1 DEF MoveRecords
    <3> QED
      BY <3>2, MovesHaveLengths
  <2> QED
    BY <2>1
<1>3. PICK f : f = [m \in DOMAIN records |-> records[m].move.len]
  OBVIOUS
<1>4. f \in [1..Len(records) -> Int]
  BY <1>1, <1>2, <1>3
<1>5. SumOver(f, 1..Len(records)) \in Int
  <2>1. PICK S : S = 1..Len(records)
    OBVIOUS
  <2>2. IsFiniteSet(S) /\ S \in SUBSET S /\ f \in [S -> Int]
    BY <1>1, <1>4, <2>1, FS_Interval
  <2>3. SumOver(f, S) \in Int
    BY <2>2, SumOverType, Zenon
  <2> QED
    BY <2>1, <2>3
<1>6. SumFunction(f) \in Int
  BY <1>4, <1>5, SumOverAll
<1> QED
  BY <1>3, <1>4, <1>6 DEF UsedBy

LEMMA UsedMore ==
  ASSUME NEW records \in Seq(MoveRecords), NEW record \in MoveRecords, NEW records2,
         records2 = Append(records, record)
  PROVE  UsedBy(records2) = UsedBy(records) + record.move.len /\ record.move.len \in Int
<1>1. records2 \in Seq(MoveRecords) /\ Len(records2) = Len(records) + 1 /\ Len(records) \in Nat
  <2> DEFINE R == MoveRecords
  <2>1. records \in Seq(R) /\ record \in R
    OBVIOUS
  <2> HIDE DEF R
  <2>2. Append(records, record) \in Seq(R) /\ Len(Append(records, record)) = Len(records) + 1
    BY <2>1
  <2> QED
    BY <2>1, <2>2 DEF R
<1>2. PICK f : f = [m \in DOMAIN records |-> records[m].move.len]
  OBVIOUS
<1>3. PICK f2 : f2 = [m \in DOMAIN records2 |-> records2[m].move.len]
  OBVIOUS
<1>4. PICK k : k = Len(records2)
  OBVIOUS
<1>5. k \in Nat /\ k = Len(records) + 1
  BY <1>1, <1>4
<1>6. f2 \in [1..k -> Int] /\ f \in [1..Len(records) -> Int]
  BY <1>1, <1>2, <1>3, <1>4, UsedIs
<1>7. /\ DOMAIN records = 1..Len(records) /\ DOMAIN records2 = 1..k
      /\ records2[k] = record /\ \A m \in 1..Len(records) : records2[m] = records[m]
  <2> DEFINE R == MoveRecords
  <2>1. records \in Seq(R) /\ record \in R
    OBVIOUS
  <2> HIDE DEF R
  <2> QED
    BY <1>1, <1>4, <2>1
<1>8. f2[k] = record.move.len /\ f2[k] \in Int
  <2>1. k \in 1..k
    BY <1>5
  <2>2. f2[k] = records2[k].move.len
    BY <1>3, <1>7, <2>1
  <2> QED
    BY <1>6, <1>7, <2>1, <2>2
<1>9. \A m \in 1..Len(records) : f2[m] = f[m]
  BY <1>2, <1>3, <1>5, <1>7
<1>10. f = [m \in 1..Len(records) |-> f2[m]]
  BY <1>6, <1>9
<1>11. SumFunction(f) = SumOver(f2, 1..Len(records))
  BY <1>10, Zenon DEF SumOver
<1>12. IsFiniteSet(1..k)
  BY <1>5, FS_Interval
<1>13. PICK s : s = 1..Len(records)
  OBVIOUS
<1>14. s \in SUBSET (1..k) /\ k \in 1..k /\ k \notin s /\ s \union {k} = 1..k
  BY <1>5, <1>13
<1>15. SumOver(f2, s \union {k}) = f2[k] + SumOver(f2, s)
  <2>1. PICK S : S = 1..k
    OBVIOUS
  <2>2. IsFiniteSet(S) /\ f2 \in [S -> Int] /\ s \in SUBSET S /\ k \in S
    BY <1>6, <1>12, <1>14, <2>1
  <2>4. k \notin s
    BY <1>14
  <2>3. SumOver(f2, s \union {k}) = f2[k] + SumOver(f2, s)
    BY <2>2, <2>4, SumOverMore
  <2> QED
    BY <2>3
<1>16. SumFunction(f2) = SumOver(f2, 1..k)
  BY <1>6, SumOverAll
<1>17. SumOver(f2, s) \in Int
  BY <1>6, <1>12, <1>14, SumOverType
<1>18. UsedBy(records2) = SumFunction(f2) /\ UsedBy(records) = SumFunction(f)
  BY <1>2, <1>3, Zenon DEF UsedBy
<1>19. SumFunction(f2) = SumOver(f2, s \union {k}) /\ SumFunction(f) = SumOver(f2, s)
  BY <1>11, <1>13, <1>14, <1>16, Zenon
<1>20. SumFunction(f2) = record.move.len + SumFunction(f)
  BY <1>8, <1>15, <1>19
<1>21. SumFunction(f) \in Int
  BY <1>17, <1>19
<1> QED
  BY <1>8, <1>18, <1>20, <1>21

(* A memory instruction that finds room.                                    *)
LEMMA MoveKeeps ==
  ASSUME NEW ex, NEW ex2, NEW e \in MoveStubs, NEW n, OneMore(ex, ex2, e, n), NEW core, e.core = core,
         NEW log \in CoreLogs, NEW last, LogKept(ex, core, log, last), HasRoom(log, e.move.len),
         NEW record \in MoveRecords, record.move = e.move, e.move.nz => record.para = log.para,
         NEW log2 \in CoreLogs, log2.records = Append(log.records, record), log2.count = log.count + 1,
         ~log2.overflow, log2.length = log.length + e.move.len, log2.para = log.para
  PROVE  LogKept(ex2, core, log2, n)
<1>1. Len(ex) \in Nat /\ n = Len(ex) + 1 /\ Len(ex2) = n /\ ex2[n] = e
  BY DEF OneMore
<1>2. ~log.overflow /\ log.length <= LogLen - e.move.len
  BY DEF HasRoom
<1>3. /\ last = Len(ex) /\ last \in 0..Len(ex)
      /\ log.count = Len(log.records) /\ log.count = Cardinality(MovesIn(ex, core, last))
      /\ Fits(ex, core, log.records, MovesIn(ex, core, last))
      /\ log.count <= UsedBy(log.records) /\ UsedBy(log.records) <= LogLen
      /\ log.length = UsedBy(log.records) /\ log.para = ParaAt(ex, core, n)
  BY <1>1, <1>2 DEF LogKept
<1>4. PICK moves : moves = MovesIn(ex, core, last)
  OBVIOUS
<1>5. moves \subseteq 1..Len(ex)
  BY <1>4, MoreStubs DEF MovesIn
<1>6. PICK moves2 : moves2 = MovesIn(ex2, core, n)
  OBVIOUS
<1>7. moves2 = moves \union {n} /\ n \notin moves
  <2>1. "move" \in DOMAIN e
    BY MoveStub
  <2>2. MovesIn(ex2, core, n) = MovesIn(ex, core, last) \union {n}
    BY <1>3, <2>1, AllStubs
  <2> QED
    BY <1>1, <1>4, <1>5, <1>6, <2>2
<1>8. IsFiniteSet(moves)
  <2>1. IsFiniteSet(1..Len(ex))
    <3>1. PICK k \in Nat : k = Len(ex)
      BY <1>1
    <3>2. IsFiniteSet(1..k)
      BY FS_Interval
    <3> QED
      BY <3>1, <3>2
  <2> QED
    BY <1>5, <2>1, FS_Subset, Zenon
<1>9. Cardinality(moves2) = log.count + 1 /\ log.count = Cardinality(moves)
  <2>1. log.count = Cardinality(moves)
    BY <1>3, <1>4, Zenon
  <2>2. Cardinality(moves \union {n}) = Cardinality(moves) + 1
    BY <1>7, <1>8, FS_AddElement
  <2> QED
    BY <1>7, <2>1, <2>2, Zenon
<1>10. log.count \in Nat /\ log.length \in Nat
  BY DEF CoreLogs
<1>11. Fits(ex2, core, log.records, moves)
  BY <1>3, <1>4, StillFits
<1>12. log.records \in Seq(MoveRecords)
  BY DEF CoreLogs
<1>13. PICK records2 : records2 = Append(log.records, record)
  OBVIOUS
<1>14. /\ Len(records2) = log.count + 1 /\ records2[log.count + 1] = record
       /\ \A m \in 1..log.count : records2[m] = log.records[m]
  <2> DEFINE R == MoveRecords
  <2>1. log.records \in Seq(R) /\ record \in R
    BY <1>12
  <2> HIDE DEF R
  <2>2. PICK records : records = log.records
    OBVIOUS
  <2>3. records \in Seq(R) /\ log.count = Len(records) /\ records2 = Append(records, record)
    BY <1>3, <1>13, <2>1, <2>2
  <2>4. /\ Len(records2) = Len(records) + 1 /\ records2[Len(records) + 1] = record
        /\ \A m \in 1..Len(records) : records2[m] = records[m]
    BY <2>1, <2>3
  <2> QED
    BY <2>2, <2>3, <2>4
<1>15. Fits(ex2, core, records2, moves2)
  <2>1. ASSUME NEW i \in moves
        PROVE  Place(moves2, i) = Place(moves, i) /\ Place(moves, i) \in 1..log.count
    <3>1. \A j : j \in {k \in moves2 : k <= i} <=> j \in {k \in moves : k <= i}
      BY <1>1, <1>5, <1>7
    <3>2. {k \in moves2 : k <= i} = {k \in moves : k <= i}
      BY <3>1, Zenon
    <3>3. PICK before : before = {k \in moves : k <= i}
      OBVIOUS
    <3>4. before \subseteq moves /\ i \in before
      BY <1>5, <3>3
    <3>5. IsFiniteSet(before) /\ Cardinality(before) <= Cardinality(moves)
      BY <1>8, <3>4, FS_Subset
    <3>6. Cardinality(before) \in Nat /\ Cardinality(before) # 0
      BY <3>4, <3>5, FS_CardinalityType, FS_EmptySet
    <3>7. Cardinality(before) \in 1..log.count
      BY <1>9, <1>10, <3>5, <3>6
    <3>8. Place(moves, i) = Cardinality(before) /\ Place(moves2, i) = Cardinality(before)
      BY <3>2, <3>3, Zenon DEF Place
    <3> QED
      BY <3>7, <3>8, Zenon
  <2>2. Place(moves2, n) = log.count + 1
    <3>0. \A j \in moves2 : j <= n
      BY <1>1, <1>5, <1>7
    <3>1. \A j : j \in {k \in moves2 : k <= n} <=> j \in moves2
      BY <3>0, Zenon
    <3>2. {k \in moves2 : k <= n} = moves2
      BY <3>1, Zenon
    <3> QED
      BY <1>9, <3>2, Zenon DEF Place
  <2>3. ParaAt(ex2, core, n) = ParaAt(ex, core, n)
    <3>1. n \in 1..n
      BY <1>1
    <3> QED
      BY <3>1, FirstStubs
  <2>4. ASSUME NEW i \in moves2
        PROVE  /\ records2[Place(moves2, i)].move = ex2[i].move
               /\ records2[Place(moves2, i)].move.nz =>
                    records2[Place(moves2, i)].para = ParaAt(ex2, core, i)
    <3>1. CASE i = n
      <4>1. records2[Place(moves2, i)] = record /\ ex2[i].move = e.move
        BY <1>1, <1>14, <2>2, <3>1, Zenon
      <4>2. e.move.nz => record.para = ParaAt(ex2, core, i)
        BY <1>3, <2>3, <3>1, Zenon
      <4> QED
        BY <4>1, <4>2, Zenon
    <3>2. CASE i # n
      <4>1. i \in moves
        BY <1>7, <3>2
      <4>2. records2[Place(moves2, i)] = log.records[Place(moves, i)]
        BY <1>14, <2>1, <4>1, Zenon
      <4>3. /\ log.records[Place(moves, i)].move = ex2[i].move
            /\ log.records[Place(moves, i)].move.nz =>
                 log.records[Place(moves, i)].para = ParaAt(ex2, core, i)
        BY <1>11, <4>1, Zenon DEF Fits
      <4> QED
        BY <4>2, <4>3, Zenon
    <3> QED
      BY <3>1, <3>2
  <2> QED
    BY <2>4, Zenon DEF Fits
<1>16. UsedBy(records2) = UsedBy(log.records) + e.move.len /\ UsedBy(log.records) \in Int
  <2>1. UsedBy(records2) = UsedBy(log.records) + record.move.len
    BY <1>12, <1>13, UsedMore
  <2> QED
    BY <1>12, <2>1, UsedIs
<1>17. e.move.len \in Nat /\ e.move.len > 0 /\ LogLen \in Nat
  <2>1. e.move \in LoggedMoves
    BY MoveStub
  <2> QED
    BY <2>1, MovesHaveLengths, CoreRecordsAssumption
<1>18. log.count + 1 <= UsedBy(records2) /\ UsedBy(records2) <= LogLen
  BY <1>2, <1>3, <1>10, <1>16, <1>17
<1>19. log2.length = UsedBy(records2)
  BY <1>3, <1>16
<1>20. ParaAt(ex2, core, Len(ex2) + 1) = log2.para
  <2>1. "para" \notin DOMAIN e
    BY MoveStub
  <2> QED
    BY <1>1, <1>3, <2>1, ParaLater
<1>21. n \in 0..Len(ex2) /\ n = Len(ex2)
  BY <1>1
<1>22. log2.records = records2
  BY <1>13, Zenon
<1> QED
  BY <1>6, <1>9, <1>14, <1>15, <1>18, <1>19, <1>20, <1>21, <1>22, Zenon DEF LogKept
-----------------------------------------------------------------------------
(* CoreRecords: every core that has a log has its own                       *)

LEMMA CoreFacts ==
  ASSUME kernel \in Kernels, NEW core \in Cores
  PROVE  /\ kernel.opType \in {"MIX", "CUBE", "VECTOR"}
         /\ core.block \in Nat /\ core = [block |-> core.block, sub |-> core.sub]
         /\ kernel.opType = "MIX" => core.sub \in {"cube0", "vector0", "vector1"}
         /\ kernel.opType = "CUBE" => core.sub = "cube0"
         /\ kernel.opType = "VECTOR" => core.sub = "vector0"
<1>1. kernel.opType \in {"MIX", "CUBE", "VECTOR"} /\ kernel.blockDim \in Nat
  BY KernelsAssumption
<1>2. core \in KernelCores(kernel)
  BY DEF Cores
<1>3. core.block \in Nat /\ core = [block |-> core.block, sub |-> core.sub]
  BY <1>1, <1>2 DEF KernelCores
<1>4. kernel.opType = "MIX" => core.sub \in {"cube0", "vector0", "vector1"}
  BY <1>2 DEF KernelCores
<1>5. kernel.opType = "CUBE" => core.sub = "cube0"
  BY <1>2 DEF KernelCores
<1>6. kernel.opType = "VECTOR" => core.sub = "vector0"
  BY <1>2 DEF KernelCores
<1> QED
  BY <1>1, <1>3, <1>4, <1>5, <1>6

LEMMA IndexIs ==
  ASSUME kernel \in Kernels, NEW core \in Cores
  PROVE  /\ kernel.opType = "MIX" =>
              BlockIndex(core) = 3 * core.block + (IF core.sub = "cube0" THEN 2
                                                   ELSE IF core.sub = "vector1" THEN 1 ELSE 0)
         /\ kernel.opType = "CUBE" => BlockIndex(core) = 3 * core.block + 2
         /\ kernel.opType = "VECTOR" => BlockIndex(core) = core.block + core.block \div 2
<1>1. core.block \in Nat
  BY CoreFacts
<1>2. ASSUME kernel.opType = "MIX"
      PROVE  BlockIndex(core) = 3 * core.block + (IF core.sub = "cube0" THEN 2
                                                  ELSE IF core.sub = "vector1" THEN 1 ELSE 0)
  <2>1. core.sub \in {"cube0", "vector0", "vector1"}
    BY <1>2, CoreFacts
  <2>2. CASE core.sub = "cube0"
    BY <1>1, <2>2 DEF BlockIndex, GetBlockIdx, IsVec, VecBlockDim, SubBlockDim
  <2>3. CASE core.sub = "vector0"
    BY <1>1, <1>2, <2>3 DEF BlockIndex, GetBlockIdx, IsVec, VecIndex, VecBlockDim, SubBlockDim
  <2>4. CASE core.sub = "vector1"
    BY <1>1, <1>2, <2>4 DEF BlockIndex, GetBlockIdx, IsVec, VecIndex, VecBlockDim, SubBlockDim
  <2> QED
    BY <2>1, <2>2, <2>3, <2>4
<1>3. ASSUME kernel.opType = "CUBE" PROVE BlockIndex(core) = 3 * core.block + 2
  <2>1. core.sub = "cube0"
    BY <1>3, CoreFacts
  <2> QED
    BY <1>1, <2>1 DEF BlockIndex, GetBlockIdx, IsVec, VecBlockDim, SubBlockDim
<1>4. ASSUME kernel.opType = "VECTOR" PROVE BlockIndex(core) = core.block + core.block \div 2
  <2>1. core.sub = "vector0"
    BY <1>4, CoreFacts
  <2> QED
    BY <1>1, <1>4, <2>1 DEF BlockIndex, GetBlockIdx, IsVec, VecIndex, VecBlockDim, SubBlockDim
<1> QED
  BY <1>2, <1>3, <1>4

(* No two cores have the same block of the buffer.                          *)
LEMMA OwnIndex ==
  ASSUME kernel \in Kernels, NEW a \in Cores, NEW b \in Cores, BlockIndex(a) = BlockIndex(b)
  PROVE  a = b
<1>1. a.block \in Nat /\ b.block \in Nat
  BY CoreFacts
<1> DEFINE x == a.block
           y == b.block
<1>3. x \in Nat /\ y \in Nat
  BY <1>1
<1>4. PICK i, j : i = BlockIndex(a) /\ j = BlockIndex(b) /\ i = j
  OBVIOUS
<1>2. a.block = b.block /\ a.sub = b.sub
  <2>1. CASE kernel.opType = "MIX"
    <3>1. a.sub \in {"cube0", "vector0", "vector1"} /\ b.sub \in {"cube0", "vector0", "vector1"}
      BY <2>1, CoreFacts
    <3>2. PICK s \in 0..2 : s = IF a.sub = "cube0" THEN 2 ELSE IF a.sub = "vector1" THEN 1 ELSE 0
      OBVIOUS
    <3>3. PICK t \in 0..2 : t = IF b.sub = "cube0" THEN 2 ELSE IF b.sub = "vector1" THEN 1 ELSE 0
      OBVIOUS
    <3>4. BlockIndex(a) = 3 * a.block + s /\ BlockIndex(b) = 3 * b.block + t
      BY <2>1, <3>2, <3>3, IndexIs
    <3>5. a.block = b.block /\ s = t
      <4>1. i = 3 * x + s /\ j = 3 * y + t
        BY <1>4, <3>4
      <4> HIDE DEF x, y
      <4>2. x = y /\ s = t
        BY <1>3, <1>4, <4>1
      <4> QED
        BY <4>2 DEF x, y
    <3> QED
      BY <3>1, <3>2, <3>3, <3>5
  <2>2. CASE kernel.opType = "CUBE"
    <3>1. a.sub = b.sub
      BY <2>2, CoreFacts
    <3>2. BlockIndex(a) = 3 * a.block + 2 /\ BlockIndex(b) = 3 * b.block + 2
      BY <2>2, IndexIs
    <3>3. i = 3 * x + 2 /\ j = 3 * y + 2
      BY <1>4, <3>2
    <3>4. x = y
      <4> HIDE DEF x, y
      <4> QED
        BY <1>3, <1>4, <3>3
    <3> QED
      BY <3>1, <3>4
  <2>3. CASE kernel.opType = "VECTOR"
    <3>1. a.sub = b.sub
      BY <2>3, CoreFacts
    <3>2. BlockIndex(a) = a.block + a.block \div 2 /\ BlockIndex(b) = b.block + b.block \div 2
      BY <2>3, IndexIs
    <3>3. i = x + x \div 2 /\ j = y + y \div 2
      BY <1>4, <3>2
    <3>4. x = y
      <4> HIDE DEF x, y
      <4> QED
        BY <1>3, <1>4, <3>3
    <3> QED
      BY <3>1, <3>4
  <2> QED
    BY <2>1, <2>2, <2>3, CoreFacts
<1> QED
  BY <1>2, CoreFacts, Zenon

LogInv ==
  /\ kernel \in Kernels
  /\ kernel.probe = "memory" =>
       /\ executed \in Seq(MemoryStubs)
       /\ logs \in [Indices -> CoreLogs]
       /\ \A core \in Cores :
            TryGetBlockIdx(core) => \E last : LogKept(executed, core, LogOf(core), last)
       /\ \A index \in Indices :
            (\A core \in Cores : BlockIndex(core) # index) => logs[index] = NewLog

LEMMA NewLogFacts ==
  /\ NewLog \in CoreLogs
  /\ \A core : LogKept(<< >>, core, NewLog, 0)
<1>1. NewLog \in CoreLogs
  <2>1. << >> \in Seq(MoveRecords)
    OBVIOUS
  <2> QED
    BY <2>1 DEF NewLog, CoreLogs
<1>2. ASSUME NEW core PROVE LogKept(<< >>, core, NewLog, 0)
  <2>1. DOMAIN << >> = {} /\ Len(<< >>) = 0
    OBVIOUS
  <2>2. MovesIn(<< >>, core, 0) = {}
    BY DEF MovesIn, StubsIn
  <2>3. SetBefore(<< >>, core, 1) = {}
    BY DEF SetBefore, StubsIn
  <2>4. ParaAt(<< >>, core, 1) = 0
    BY <2>3 DEF ParaAt
  <2>5. UsedBy(<< >>) = 0
    <3>1. PICK f : f = [m \in DOMAIN << >> |-> << >>[m].move.len]
      OBVIOUS
    <3>2. f \in [{} -> Int]
      BY <3>1
    <3>3. SumFunction(f) = SumOver(f, {}) /\ SumOver(f, {}) = 0
      BY <3>2, SumOverAll, SumOverEmpty, FS_EmptySet
    <3> QED
      BY <3>1, <3>3 DEF UsedBy
  <2>6. Cardinality({}) = 0
    BY FS_EmptySet
  <2>7. /\ NewLog.count = 0 /\ NewLog.records = << >> /\ NewLog.overflow = FALSE
        /\ NewLog.length = 0 /\ NewLog.para = 0
    BY DEF NewLog
  <2>8. Fits(<< >>, core, << >>, {})
    BY DEF Fits
  <2>9. LogLen \in Nat
    BY CoreRecordsAssumption
  <2>10. 0 \in 0..Len(<< >>) /\ 0 <= UsedBy(<< >>) /\ UsedBy(<< >>) <= LogLen
    BY <2>1, <2>5, <2>9
  <2>11. ParaAt(<< >>, core, Len(<< >>) + 1) = 0
    BY <2>1, <2>4
  <2> QED
    BY <2>1, <2>2, <2>5, <2>6, <2>7, <2>8, <2>10, <2>11, Zenon DEF LogKept
<1> QED
  BY <1>1, <1>2

LEMMA LogInitInv == CoreRecordInit => LogInv
<1> SUFFICES ASSUME CoreRecordInit PROVE LogInv
  OBVIOUS
<1>1. kernel \in Kernels /\ executed = << >> /\ logs = [i \in Indices |-> NewLog]
  BY DEF CoreRecordInit
<1>2. executed \in Seq(MemoryStubs)
  BY <1>1
<1>3. logs \in [Indices -> CoreLogs] /\ \A index \in Indices : logs[index] = NewLog
  BY <1>1, NewLogFacts
<1>4. ASSUME NEW core \in Cores, TryGetBlockIdx(core)
      PROVE  \E last : LogKept(executed, core, LogOf(core), last)
  <2>1. BlockIndex(core) \in Indices
    BY DEF Indices
  <2>2. LogOf(core) = NewLog
    BY <1>3, <2>1 DEF LogOf
  <2>3. LogKept(<< >>, core, NewLog, 0)
    BY NewLogFacts
  <2> QED
    BY <1>1, <2>2, <2>3, Zenon
<1> QED
  BY <1>1, <1>2, <1>3, <1>4 DEF LogInv

(* A stub of a core, with what it leaves in the log when it finds room.     *)
LEMMA LoggingKeeps ==
  ASSUME LogInv, kernel.probe = "memory", NEW core \in Cores, NEW e \in MemoryStubs, e.core = core,
         LengthOf(e) \in Nat, NEW log, Logging(core, e, LengthOf(e), log),
         TryGetBlockIdx(core) /\ HasRoom(LogOf(core), LengthOf(e)) =>
           /\ log \in CoreLogs
           /\ \A ex, ex2, n, last :
                OneMore(ex, ex2, e, n) /\ LogKept(ex, core, LogOf(core), last) => LogKept(ex2, core, log, n)
  PROVE  LogInv'
<1>1. kernel' = kernel /\ executed' = Append(executed, e) /\ kernel \in Kernels
  BY DEF Logging, Executes, LogInv
<1>2. executed \in Seq(MemoryStubs) /\ logs \in [Indices -> CoreLogs]
  BY DEF LogInv
<1>3. /\ Cores' = Cores /\ Indices' = Indices /\ MemoryStubs' = MemoryStubs
      /\ \A c : BlockIndex(c)' = BlockIndex(c) /\ TryGetBlockIdx(c)' = TryGetBlockIdx(c)
  BY <1>1 DEF Cores, KernelCores, Indices, MemoryStubs, ParaStubs, MoveStubs, BlockIndex, GetBlockIdx, TryGetBlockIdx
<1>4. PICK ex2 : ex2 = executed'
  OBVIOUS
<1>5. PICK n : n = Len(executed) + 1
  OBVIOUS
<1>6. OneMore(executed, ex2, e, n)
  <2>1. OneMore(executed, Append(executed, e), e, Len(executed) + 1)
    BY <1>2, AppendedIsOneMore
  <2> QED
    BY <1>1, <1>4, <1>5, <2>1, Zenon
<1>7. executed' \in Seq(MemoryStubs)
  <2> DEFINE E == MemoryStubs
  <2>1. executed \in Seq(E) /\ e \in E
    BY <1>2
  <2> HIDE DEF E
  <2>2. Append(executed, e) \in Seq(E)
    BY <2>1
  <2> QED
    BY <1>1, <2>2 DEF E
<1>8. BlockIndex(core) \in Indices
  BY DEF Indices
<1>9. LogOf(core) \in CoreLogs /\ LogOf(core) = logs[BlockIndex(core)]
  BY <1>2, <1>8 DEF LogOf
<1>10. PICK log2 : log2 = IF HasRoom(LogOf(core), LengthOf(e)) THEN log ELSE Dropped(LogOf(core))
  OBVIOUS
<1>11. logs' = IF TryGetBlockIdx(core) THEN [logs EXCEPT ![BlockIndex(core)] = log2] ELSE logs
  BY <1>9, <1>10 DEF Logging
<1>12. /\ Dropped(LogOf(core)) \in CoreLogs
       /\ Dropped(LogOf(core)).records = LogOf(core).records /\ Dropped(LogOf(core)).count = LogOf(core).count
       /\ Dropped(LogOf(core)).overflow
       /\ Dropped(LogOf(core)).length =
            IF LogOf(core).overflow THEN LogOf(core).length + 1 ELSE LogOf(core).count + 1
  <2>1. PICK old \in CoreLogs : old = LogOf(core)
    BY <1>9
  <2>2. old.length \in Nat /\ old.count \in Nat
    BY DEF CoreLogs
  <2>3. PICK length \in Nat : length = IF old.overflow THEN old.length + 1 ELSE old.count + 1
    BY <2>2
  <2>4. Dropped(old) = [old EXCEPT !.length = length, !.overflow = TRUE]
    BY <2>3 DEF Dropped
  <2>5. PICK new : new = [old EXCEPT !.length = length, !.overflow = TRUE]
    OBVIOUS
  <2>6. /\ new \in CoreLogs /\ new.records = old.records /\ new.count = old.count
        /\ new.overflow /\ new.length = length
    BY <2>5 DEF CoreLogs
  <2> QED
    BY <2>1, <2>3, <2>4, <2>5, <2>6, Zenon
<1>13. TryGetBlockIdx(core) => log2 \in CoreLogs
  BY <1>10, <1>12
<1>14. logs' \in [Indices -> CoreLogs]
  BY <1>2, <1>8, <1>11, <1>13
<1>15. ASSUME NEW c \in Cores, TryGetBlockIdx(c)
       PROVE  \E last : LogKept(ex2, c, logs'[BlockIndex(c)], last)
  <2>1. PICK last : LogKept(executed, c, LogOf(c), last)
    BY <1>15 DEF LogInv
  <2>2. BlockIndex(c) \in Indices
    BY DEF Indices
  <2>3. CASE c = core
    <3>1. logs'[BlockIndex(c)] = log2
      BY <1>2, <1>8, <1>11, <1>15, <2>3
    <3>2. CASE HasRoom(LogOf(core), LengthOf(e))
      <4>1. LogKept(ex2, core, log, n)
        BY <1>6, <1>15, <2>1, <2>3, <3>2, Zenon
      <4> QED
        BY <1>10, <2>3, <3>1, <3>2, <4>1, Zenon
    <3>3. CASE ~HasRoom(LogOf(core), LengthOf(e))
      <4>1. PICK old \in CoreLogs : old = LogOf(core)
        BY <1>9
      <4>2. PICK new \in CoreLogs : new = Dropped(LogOf(core))
        BY <1>12
      <4>3. UsedBy(old.records) \in Int
        BY UsedIs DEF CoreLogs
      <4>4. /\ new.records = old.records /\ new.count = old.count /\ new.overflow
            /\ new.length = IF old.overflow THEN old.length + 1 ELSE old.count + 1
        BY <1>12, <4>1, <4>2, Zenon
      <4>5. LogKept(executed, core, old, last) /\ ~HasRoom(old, LengthOf(e))
        BY <2>1, <2>3, <3>3, <4>1, Zenon
      <4>6. LogKept(ex2, core, new, last)
        BY <1>6, <4>3, <4>4, <4>5, DroppedKeeps
      <4> QED
        BY <1>10, <2>3, <3>1, <3>3, <4>2, <4>6, Zenon
    <3> QED
      BY <3>2, <3>3
  <2>4. CASE c # core
    <3>1. BlockIndex(c) # BlockIndex(core)
      BY <1>1, <2>4, OwnIndex
    <3>2. logs'[BlockIndex(c)] = LogOf(c)
      BY <1>2, <1>8, <1>11, <2>2, <3>1 DEF LogOf
    <3>3. \E last2 : LogKept(ex2, c, LogOf(c), last2)
      BY <1>6, <2>1, <2>4, OtherStubKeeps
    <3> QED
      BY <3>2, <3>3, Zenon
  <2> QED
    BY <2>3, <2>4
<1>16. ASSUME NEW index \in Indices, \A c \in Cores : BlockIndex(c) # index
       PROVE  logs'[index] = NewLog
  <2>1. logs[index] = NewLog
    BY <1>16 DEF LogInv
  <2>2. index # BlockIndex(core)
    BY <1>16
  <2> QED
    BY <1>2, <1>8, <1>11, <2>1, <2>2
<1>17. \A c : LogOf(c)' = logs'[BlockIndex(c)]
  BY <1>3 DEF LogOf
<1> QED
  BY <1>1, <1>3, <1>4, <1>7, <1>14, <1>15, <1>16, <1>17, Zenon DEF LogInv

LEMMA SetMte2NzParaInv ==
  ASSUME LogInv, NEW core \in Cores, NEW config \in {1, 2}, SetMte2NzPara(core, config)
  PROVE  LogInv'
<1>1. PICK e : e = [core |-> core, para |-> config]
  OBVIOUS
<1>2. e \in ParaStubs /\ e.core = core /\ e.para = config
  BY <1>1 DEF ParaStubs
<1>3. LengthOf(e) = ParaLen /\ ParaLen \in Nat
  BY <1>2, ParaStub DEF ParaLen
<1>4. PICK log : log = [LogOf(core) EXCEPT !.para = config]
  OBVIOUS
<1>5. Logging(core, e, LengthOf(e), log)
  BY <1>1, <1>3, <1>4, Zenon DEF SetMte2NzPara
<1>6. kernel.probe = "memory"
  BY <1>5 DEF Logging
<1>7. LogOf(core) \in CoreLogs
  BY <1>6 DEF LogInv, LogOf, Indices
<1>8. PICK old \in CoreLogs : old = LogOf(core)
  BY <1>7
<1>9. /\ log \in CoreLogs /\ log.records = old.records /\ log.count = old.count
      /\ log.overflow = old.overflow /\ log.length = old.length /\ log.para = config
  BY <1>4, <1>8 DEF CoreLogs
<1>10. ASSUME HasRoom(LogOf(core), LengthOf(e)), NEW ex, NEW ex2, NEW n, NEW last,
              OneMore(ex, ex2, e, n), LogKept(ex, core, LogOf(core), last)
       PROVE  LogKept(ex2, core, log, n)
  <2>1. ~old.overflow
    BY <1>8, <1>10 DEF HasRoom
  <2>2. LogKept(ex, core, old, last)
    BY <1>8, <1>10
  <2> QED
    BY <1>2, <1>9, <1>10, <2>1, <2>2, ParaKeeps
<1>11. e \in MemoryStubs
  BY <1>2 DEF MemoryStubs
<1>12. TryGetBlockIdx(core) /\ HasRoom(LogOf(core), LengthOf(e)) =>
         /\ log \in CoreLogs
         /\ \A ex, ex2, n, last :
              OneMore(ex, ex2, e, n) /\ LogKept(ex, core, LogOf(core), last) => LogKept(ex2, core, log, n)
  BY <1>9, <1>10, Zenon
<1>13. LengthOf(e) \in Nat
  BY <1>3
<1> QED
  BY <1>2, <1>5, <1>6, <1>11, <1>12, <1>13, LoggingKeeps

LEMMA RecordEventInv ==
  ASSUME LogInv, NEW core \in Cores, NEW move \in LoggedMoves, RecordEvent(core, move)
  PROVE  LogInv'
<1>1. PICK e : e = [core |-> core, move |-> move]
  OBVIOUS
<1>2. e \in MoveStubs /\ e.core = core /\ e.move = move
  BY <1>1 DEF MoveStubs
<1>3. LengthOf(e) = move.len /\ move.len \in Nat /\ move.nz \in BOOLEAN
  BY <1>2, MoveStub, MovesHaveLengths
<1>4. PICK log : log = DumpRecord(LogOf(core), move)
  OBVIOUS
<1>5. Logging(core, e, LengthOf(e), log)
  BY <1>1, <1>3, <1>4, Zenon DEF RecordEvent
<1>6. kernel.probe = "memory"
  BY <1>5 DEF Logging
<1>7. LogOf(core) \in CoreLogs
  BY <1>6 DEF LogInv, LogOf, Indices
<1>8. PICK old \in CoreLogs : old = LogOf(core)
  BY <1>7
<1>9. PICK record : record = [move |-> move, para |-> IF move.nz THEN old.para ELSE 0]
  OBVIOUS
<1>10. record \in MoveRecords /\ record.move = e.move /\ (e.move.nz => record.para = old.para)
  BY <1>2, <1>9 DEF MoveRecords, CoreLogs
<1>11. old.records \in Seq(MoveRecords) /\ old.length \in Nat /\ old.count \in Nat /\ old.overflow \in BOOLEAN
  BY DEF CoreLogs
<1>12. PICK records : records = Append(old.records, record)
  OBVIOUS
<1>13. records \in Seq(MoveRecords)
  <2> DEFINE R == MoveRecords
  <2>1. old.records \in Seq(R) /\ record \in R
    BY <1>10, <1>11
  <2> HIDE DEF R
  <2>2. Append(old.records, record) \in Seq(R)
    BY <2>1
  <2> QED
    BY <1>12, <2>2 DEF R
<1>14. PICK length, count : length = old.length + move.len /\ count = old.count + 1
  OBVIOUS
<1>15. log = [old EXCEPT !.length = length, !.count = count, !.records = records]
  BY <1>4, <1>8, <1>9, <1>12, <1>14 DEF DumpRecord
<1>16. /\ log \in CoreLogs /\ log.records = records /\ log.count = count
       /\ log.overflow = old.overflow /\ log.length = length /\ log.para = old.para
  <2>1. length \in Nat /\ count \in Nat
    BY <1>3, <1>11, <1>14
  <2> QED
    BY <1>13, <1>15, <2>1 DEF CoreLogs
<1>17. ASSUME HasRoom(LogOf(core), LengthOf(e)), NEW ex, NEW ex2, NEW n, NEW last,
              OneMore(ex, ex2, e, n), LogKept(ex, core, LogOf(core), last)
       PROVE  LogKept(ex2, core, log, n)
  <2>1. HasRoom(old, e.move.len)
    BY <1>2, <1>3, <1>8, <1>17, Zenon
  <2>2. LogKept(ex, core, old, last)
    BY <1>8, <1>17
  <2>3. ~old.overflow
    BY <2>1 DEF HasRoom
  <2>4. /\ log.records = Append(old.records, record) /\ log.count = old.count + 1 /\ ~log.overflow
        /\ log.length = old.length + e.move.len /\ log.para = old.para
    BY <1>2, <1>12, <1>14, <1>16, <2>3, Zenon
  <2> QED
    BY <1>2, <1>10, <1>16, <1>17, <2>1, <2>2, <2>4, MoveKeeps
<1>18. e \in MemoryStubs
  BY <1>2 DEF MemoryStubs
<1>19. TryGetBlockIdx(core) /\ HasRoom(LogOf(core), LengthOf(e)) =>
         /\ log \in CoreLogs
         /\ \A ex, ex2, n, last :
              OneMore(ex, ex2, e, n) /\ LogKept(ex, core, LogOf(core), last) => LogKept(ex2, core, log, n)
  BY <1>16, <1>17, Zenon
<1>20. LengthOf(e) \in Nat
  BY <1>3
<1> QED
  BY <1>2, <1>5, <1>6, <1>18, <1>19, <1>20, LoggingKeeps

LEMMA StillLogInv ==
  ASSUME LogInv, kernel' = kernel, kernel.probe = "memory" => executed' = executed /\ logs' = logs
  PROVE  LogInv'
<1>1. /\ Cores' = Cores /\ Indices' = Indices /\ MemoryStubs' = MemoryStubs
      /\ \A c : BlockIndex(c)' = BlockIndex(c) /\ TryGetBlockIdx(c)' = TryGetBlockIdx(c)
  BY DEF Cores, KernelCores, Indices, MemoryStubs, ParaStubs, MoveStubs, BlockIndex, GetBlockIdx, TryGetBlockIdx
<1>2. kernel.probe = "memory" => \A c : LogOf(c)' = LogOf(c)
  BY <1>1 DEF LogOf
<1> QED
  BY <1>1, <1>2, Zenon DEF LogInv

LEMMA LogNextInv == LogInv /\ [CoreRecordNext]_coreRecordVars => LogInv'
<1> SUFFICES ASSUME LogInv, [CoreRecordNext]_coreRecordVars PROVE LogInv'
  OBVIOUS
<1>1. ASSUME NEW core \in Cores, NEW mad \in Mads, RecordMmadA5(core, mad) PROVE LogInv'
  BY <1>1, StillLogInv DEF RecordMmadA5
<1>2. ASSUME NEW core \in Cores, NEW thread \in 0..MaxThreads, NEW type \in SimtTypes,
             RecordOperandOperation(core, thread, type)
      PROVE  LogInv'
  BY <1>2, StillLogInv DEF RecordOperandOperation
<1>3. ASSUME NEW core \in Cores, NEW thread \in 0..MaxThreads, NEW isStart \in BOOLEAN,
             DumpWarpTimestamp(core, thread, isStart)
      PROVE  LogInv'
  BY <1>3, StillLogInv DEF DumpWarpTimestamp
<1>4. ASSUME NEW core \in Cores, NEW config \in {1, 2}, SetMte2NzPara(core, config) PROVE LogInv'
  BY <1>4, SetMte2NzParaInv
<1>5. ASSUME NEW core \in Cores, NEW move \in IF IsVec(core) THEN VecMoves ELSE CubeMoves,
             RecordEvent(core, move)
      PROVE  LogInv'
  <2>1. move \in LoggedMoves
    BY DEF LoggedMoves
  <2> QED
    BY <1>5, <2>1, RecordEventInv
<1>6. ASSUME NEW index \in DOMAIN dataCaches, Flush(index) PROVE LogInv'
  BY <1>6, StillLogInv DEF Flush
<1>7. ASSUME NEW size \in {BufferSize, BufferSize - 1, BufferSize - OperandBlockLen}, ReadFile(size)
      PROVE  LogInv'
  BY <1>7, StillLogInv DEF ReadFile
<1>8. CASE UNCHANGED coreRecordVars
  BY <1>8, StillLogInv DEF coreRecordVars
<1> QED
  BY <1>1, <1>2, <1>3, <1>4, <1>5, <1>6, <1>7, <1>8 DEF CoreRecordNext

(* What the invariant says of a log.                                        *)
LEMMA LogIsExact ==
  ASSUME LogInv, kernel.probe = "memory", NEW core \in Cores, TryGetBlockIdx(core)
  PROVE  LogExact(core)
<1> DEFINE log == LogOf(core)
<1>1. PICK last : LogKept(executed, core, log, last)
  BY DEF LogInv
<1>2. executed \in Seq(MemoryStubs) /\ log.overflow \in BOOLEAN
  BY DEF LogInv, LogOf, Indices, CoreLogs
<1>3. DOMAIN executed = 1..Len(executed) /\ Len(executed) \in Nat
  <2> DEFINE E == MemoryStubs
  <2>1. executed \in Seq(E)
    BY <1>2
  <2> HIDE DEF E
  <2> QED
    BY <2>1
<1>4. \A field : Stubs(core, field) = StubsIn(executed, core, field)
  BY DEF Stubs, StubsIn
<1>5. {i \in Stubs(core, "move") : i <= last} = MovesIn(executed, core, last)
  BY <1>4, Zenon DEF MovesIn
<1>6. {i \in Stubs(core, "para") \union Stubs(core, "move") : i > last} = DroppedIn(executed, core, last)
  BY <1>4 DEF DroppedIn
<1>7. \A i : Para(core, i) = ParaAt(executed, core, i)
  <2>1. \A i : {j \in Stubs(core, "para") : j < i} = SetBefore(executed, core, i)
    BY <1>4, Zenon DEF SetBefore
  <2> QED
    BY <2>1 DEF Para, ParaAt
<1>8. SumFunction([n \in DOMAIN log.records |-> log.records[n].move.len]) = UsedBy(log.records)
  BY Zenon DEF UsedBy
<1> HIDE DEF log
<1>9. /\ last \in 0..Len(executed)
      /\ log.count = Len(log.records) /\ log.count = Cardinality(MovesIn(executed, core, last))
      /\ Fits(executed, core, log.records, MovesIn(executed, core, last))
      /\ UsedBy(log.records) <= LogLen
  BY <1>1 DEF LogKept
<1>10. log.overflow = (DroppedIn(executed, core, last) # {})
  <2>1. CASE log.overflow
    BY <1>1, <2>1 DEF LogKept
  <2>2. CASE ~log.overflow
    <3>1. last = Len(executed)
      BY <1>1, <2>2 DEF LogKept
    <3>2. DroppedIn(executed, core, last) = {}
      BY <1>3, <3>1 DEF DroppedIn, StubsIn
    <3> QED
      BY <1>2, <2>2, <3>2
  <2> QED
    BY <2>1, <2>2
<1>11. log.overflow => /\ log.length = log.count + Cardinality(DroppedIn(executed, core, last))
                       /\ UsedBy(log.records) + LengthOf(executed[Min(DroppedIn(executed, core, last))]) > LogLen
  BY <1>1 DEF LogKept
<1>12. ~log.overflow => log.length = UsedBy(log.records)
  BY <1>1 DEF LogKept
<1>13. \A i \in MovesIn(executed, core, last) :
         LET record == log.records[Cardinality({j \in MovesIn(executed, core, last) : j <= i})]
         IN record.move = executed[i].move /\ (record.move.nz => record.para = Para(core, i))
  BY <1>7, <1>9, Zenon DEF Fits, Place
<1> QED
  BY <1>5, <1>6, <1>8, <1>9, <1>10, <1>11, <1>12, <1>13, Zenon DEF LogExact, log
-----------------------------------------------------------------------------
(* CoreRecords: the parts of the way of a move                              *)

(* Every way out of one of the three memories has one part that leaves it,  *)
(* and every way into one has one part that enters it.                      *)
LEMMA WayOut ==
  ASSUME NEW move, NEW unit \in {"GM", "UB", "L1"}
  PROVE  /\ \A g, h \in Rule(move) : g[1] = unit /\ h[1] = unit => g = h
         /\ move.src = unit /\ Rule(move) # {} => \E h \in Rule(move) : h[1] = unit
         /\ \A h \in Rule(move) : h[1] = unit => move.src = unit
  BY DEF Rule, Hops, MemTransferRules

LEMMA WayIn ==
  ASSUME NEW move, NEW unit \in {"GM", "UB", "L1"}
  PROVE  /\ \A g, h \in Rule(move) : g[2] = unit /\ h[2] = unit => g = h
         /\ move.dst = unit /\ Rule(move) # {} => \E h \in Rule(move) : h[2] = unit
         /\ \A h \in Rule(move) : h[2] = unit => move.dst = unit
  BY DEF Rule, Hops, MemTransferRules

LEMMA FromL1ToUB ==
  ASSUME NEW move, move.src = "L1", move.dst = "UB"
  PROVE  Rule(move) = {<<"L1", "UB">>}
<1>1. \A hop : hop \in Rule(move) <=> hop = <<"L1", "UB">>
  BY DEF Rule, Hops, MemTransferRules
<1> QED
  BY <1>1

LEMMA HopsFinite == IsFiniteSet(Hops)
<1> DEFINE S == (((({"GM"} \union {"UB"}) \union {"L1"}) \union {"VEC"}) \union {"DCACHE"})
<1>1. \A x : IsFiniteSet({x})
  BY FS_Singleton
<1>2. IsFiniteSet(S)
  BY <1>1, FS_Union, Zenon
<1>3. S = {"GM", "UB", "L1", "VEC", "DCACHE"}
  OBVIOUS
<1>4. Hops \subseteq S \X S
  <2> HIDE DEF S
  <2> QED
    BY <1>3 DEF Hops, MemTransferRules
<1> QED
  BY <1>2, <1>4, FS_Product, FS_Subset, Zenon
-----------------------------------------------------------------------------
(* CoreRecords: the bytes over the parts of the way                         *)

MovedAt(x) == logs[x[1]].records[x[2]].move
AllPlaces == {x \in (0..(MaxBlock - 1)) \X (1..LogLen) : x[2] <= logs[x[1]].count}
OwnPlaces(core) == {BlockIndex(core)} \X (1..LogOf(core).count)
BytesAt == [x \in AllPlaces |-> MovedAt(x).bytes]
(* What counts for a core beside its own records.                           *)
ExtraPlaces(core) ==
  {x \in AllPlaces : kernel.opType = "MIX" /\ NeedExtraUbIdMapping(x) /\ UbId(x) = BlockIndex(core)}
Way(H) == {x \in AllPlaces : \E h \in H : h \in Rule(MovedAt(x))}

LEMMA LogsOfIndices ==
  ASSUME LogInv, kernel.probe = "memory", NEW index \in 0..(MaxBlock - 1)
  PROVE  /\ logs[index] \in CoreLogs /\ logs[index].count = Len(logs[index].records)
         /\ logs[index].count <= LogLen
         /\ (\A core \in Cores : BlockIndex(core) # index) => logs[index].count = 0
<1>1. index \in Indices
  BY DEF Indices
<1>2. logs[index] \in CoreLogs
  BY <1>1 DEF LogInv
<1>3. MaxBlock \in Nat /\ LogLen \in Nat
  BY CoreRecordsAssumption
<1>4. CASE \E core \in Cores : BlockIndex(core) = index
  <2>1. PICK core \in Cores : BlockIndex(core) = index
    BY <1>4
  <2>2. TryGetBlockIdx(core)
    BY <1>3, <2>1 DEF TryGetBlockIdx
  <2>3. PICK last : LogKept(executed, core, LogOf(core), last)
    BY <2>2 DEF LogInv
  <2>4. PICK log \in CoreLogs : log = logs[index]
    BY <1>2
  <2>5. LogKept(executed, core, log, last)
    BY <2>1, <2>3, <2>4 DEF LogOf
  <2>6. log.count = Len(log.records) /\ log.count <= UsedBy(log.records) /\ UsedBy(log.records) <= LogLen
    BY <2>5 DEF LogKept
  <2>7. log.count \in Nat /\ UsedBy(log.records) \in Int
    BY UsedIs DEF CoreLogs
  <2>8. log.count <= LogLen
    BY <1>3, <2>6, <2>7
  <2> QED
    BY <1>4, <2>4, <2>6, <2>8, Zenon
<1>5. CASE \A core \in Cores : BlockIndex(core) # index
  <2>1. logs[index] = NewLog
    BY <1>1, <1>5 DEF LogInv
  <2>2. NewLog.count = 0 /\ Len(NewLog.records) = 0
    BY DEF NewLog
  <2> QED
    BY <1>2, <1>3, <2>1, <2>2
<1> QED
  BY <1>4, <1>5

LEMMA PlacesFinite == IsFiniteSet(AllPlaces)
<1>1. MaxBlock - 1 \in Int /\ LogLen \in Int
  BY CoreRecordsAssumption
<1>2. PICK A : A = 0..(MaxBlock - 1)
  OBVIOUS
<1>3. PICK B : B = 1..LogLen
  OBVIOUS
<1>4. IsFiniteSet(A) /\ IsFiniteSet(B)
  BY <1>1, <1>2, <1>3, FS_Interval
<1>5. IsFiniteSet(A \X B)
  BY <1>4, FS_Product
<1>6. AllPlaces \subseteq A \X B
  BY <1>2, <1>3 DEF AllPlaces
<1> QED
  BY <1>5, <1>6, FS_Subset, Zenon

LEMMA PlacesMove ==
  ASSUME LogInv, kernel.probe = "memory", NEW x \in AllPlaces
  PROVE  MovedAt(x) \in LoggedMoves /\ x[1] \in 0..(MaxBlock - 1) /\ x[2] \in Nat /\ x = <<x[1], x[2]>>
<1>1. x[1] \in 0..(MaxBlock - 1) /\ x[2] \in 1..LogLen /\ x[2] <= logs[x[1]].count /\ x = <<x[1], x[2]>>
  BY DEF AllPlaces
<1>2. PICK index \in 0..(MaxBlock - 1) : index = x[1]
  BY <1>1
<1>3. logs[index] \in CoreLogs /\ logs[index].count = Len(logs[index].records)
  BY LogsOfIndices
<1>4. PICK records \in Seq(MoveRecords) : records = logs[index].records
  BY <1>3 DEF CoreLogs
<1>5. x[2] \in 1..Len(records)
  BY <1>1, <1>2, <1>3, <1>4, CoreRecordsAssumption
<1>6. records[x[2]] \in MoveRecords
  BY <1>5
<1>7. records[x[2]].move \in LoggedMoves
  BY <1>6 DEF MoveRecords
<1> QED
  BY <1>1, <1>2, <1>4, <1>7 DEF MovedAt

LEMMA BytesType ==
  ASSUME LogInv, kernel.probe = "memory"
  PROVE  BytesAt \in [AllPlaces -> Int]
<1>1. \A x \in AllPlaces : MovedAt(x).bytes \in Int
  BY PlacesMove, MovesHaveLengths
<1> QED
  BY <1>1 DEF BytesAt

LEMMA VolumeIs ==
  ASSUME NEW s \in SUBSET AllPlaces
  PROVE  Volume(s) = SumOver(BytesAt, s)
<1>1. \A x \in s : BytesAt[x] = logs[x[1]].records[x[2]].move.bytes
  BY DEF BytesAt, MovedAt
<1>2. [x \in s |-> logs[x[1]].records[x[2]].move.bytes] = [x \in s |-> BytesAt[x]]
  BY <1>1
<1> QED
  BY <1>2, Zenon DEF Volume, SumOver

LEMMA OwnIs ==
  ASSUME LogInv, kernel.probe = "memory", NEW core \in Cores, TryGetBlockIdx(core)
  PROVE  /\ BlockIndex(core) \in 0..(MaxBlock - 1)
         /\ OwnPlaces(core) = {x \in AllPlaces : x[1] = BlockIndex(core)}
<1>1. MaxBlock \in Nat /\ LogLen \in Nat
  BY CoreRecordsAssumption
<1>2. BlockIndex(core) \in 0..(MaxBlock - 1)
  <2>1. BlockIndex(core) \in Nat
    <3>1. core.block \in Nat
      BY CoreFacts DEF LogInv
    <3>2. kernel.opType \in {"MIX", "CUBE", "VECTOR"}
      BY CoreFacts DEF LogInv
    <3>3. PICK b \in Nat : b = core.block
      BY <3>1
    <3>4. b \div 2 \in Nat
      BY Z3
    <3> QED
      BY <3>2, <3>3, <3>4, IndexIs DEF LogInv
  <2> QED
    BY <1>1, <2>1 DEF TryGetBlockIdx
<1>3. PICK index \in 0..(MaxBlock - 1) : index = BlockIndex(core)
  BY <1>2
<1>4. PICK count \in Nat : count = logs[index].count
  BY LogsOfIndices DEF CoreLogs
<1>5. count <= LogLen
  BY <1>4, LogsOfIndices
<1>6. OwnPlaces(core) = {index} \X (1..count)
  BY <1>3, <1>4 DEF OwnPlaces, LogOf
<1>7. \A x : x \in {index} \X (1..count) <=> x \in AllPlaces /\ x[1] = index
  BY <1>1, <1>4, <1>5 DEF AllPlaces
<1>8. OwnPlaces(core) = {x \in AllPlaces : x[1] = index}
  BY <1>6, <1>7
<1> QED
  BY <1>2, <1>3, <1>8

LEMMA StaticsIs ==
  ASSUME LogInv, kernel.probe = "memory", kernel.opType # "VECTOR",
         NEW core \in Cores, TryGetBlockIdx(core), NEW hop
  PROVE  Statics(core, hop) = SumOver(BytesAt, Way({hop}) \cap OwnPlaces(core))
                                + SumOver(BytesAt, Way({hop}) \cap ExtraPlaces(core))
<1>1. kernel \in Kernels /\ kernel.opType \in {"MIX", "CUBE"} /\ core.block \in Nat
  BY CoreFacts DEF LogInv
<1>2. PICK index : index = BlockIndex(core)
  OBVIOUS
<1>3. index \in 0..(MaxBlock - 1) /\ OwnPlaces(core) = {x \in AllPlaces : x[1] = index}
  BY <1>2, OwnIs
<1>4. RecordPlaces(hop) = Way({hop})
  BY DEF RecordPlaces, Way, AllPlaces, MovedAt
<1>5. Way({hop}) \subseteq AllPlaces
  BY DEF Way
<1>6. PICK own : own = Way({hop}) \cap OwnPlaces(core)
  OBVIOUS
<1>7. PICK extra : extra = Way({hop}) \cap ExtraPlaces(core)
  OBVIOUS
<1>8. own \in SUBSET AllPlaces /\ extra \in SUBSET AllPlaces
  BY <1>5, <1>6, <1>7
<1>9. Volume(own) = SumOver(BytesAt, own) /\ Volume(extra) = SumOver(BytesAt, extra)
  BY <1>8, VolumeIs
<1>10. SumOver(BytesAt, own) \in Int
  BY <1>8, PlacesFinite, BytesType, SumOverType
<1>11. CASE kernel.opType = "MIX"
  <2>1. HostIndex(core) = index
    <3>1. core.sub \in {"cube0", "vector0", "vector1"}
      BY <1>1, <1>11, CoreFacts
    <3>2. index = 3 * core.block + (IF core.sub = "cube0" THEN 2
                                    ELSE IF core.sub = "vector1" THEN 1 ELSE 0)
      BY <1>1, <1>2, <1>11, IndexIs
    <3>3. HostIndex(core) = core.block * 3 + (IF core.sub = "cube0" THEN 2
                                              ELSE IF core.sub = "vector1" THEN 1 ELSE 0)
      BY <1>11, <3>1 DEF HostIndex, SubBlockDim, IsVec, VecIndex, CubeIndex
    <3>4. PICK b \in Nat : b = core.block
      BY <1>1
    <3> QED
      BY <3>2, <3>3, <3>4
  <2>2. \A x : x \in {y \in RecordPlaces(hop) : y[1] = index} <=> x \in own
    BY <1>3, <1>4, <1>5, <1>6
  <2>3. {x \in RecordPlaces(hop) : x[1] = index} = own
    BY <2>2, Zenon
  <2>4. \A x : x \in {y \in RecordPlaces(hop) : NeedExtraUbIdMapping(y) /\ UbId(y) = index} <=> x \in extra
    BY <1>2, <1>4, <1>5, <1>7, <1>11, Zenon DEF ExtraPlaces
  <2>5. {x \in RecordPlaces(hop) : NeedExtraUbIdMapping(x) /\ UbId(x) = index} = extra
    BY <2>4, Zenon
  <2>6. Statics(core, hop) = SubblockStats(index, hop)
    BY <1>11, <2>1 DEF Statics
  <2>7. Statics(core, hop) = Volume(own) + Volume(extra)
    BY <2>3, <2>5, <2>6, Zenon DEF SubblockStats
  <2> QED
    BY <1>6, <1>7, <1>9, <2>7, Zenon
<1>12. CASE kernel.opType = "CUBE"
  <2>1. PICK b \in Nat : b = core.block
    BY <1>1
  <2>2. index = 3 * b + 2
    BY <1>1, <1>2, <1>12, <2>1, IndexIs
  <2>3. ASSUME NEW x \in AllPlaces, x[1] \div 3 = b PROVE x[1] = index
    <3>1. x[1] \in 0..(MaxBlock - 1) /\ x[2] \in 1..LogLen /\ x[2] <= logs[x[1]].count
      BY DEF AllPlaces
    <3>2. PICK i \in 0..(MaxBlock - 1) : i = x[1]
      BY <3>1
    <3>3. logs[i].count # 0
      BY <3>1, <3>2, CoreRecordsAssumption
    <3>4. PICK c \in Cores : BlockIndex(c) = i
      BY <3>3, LogsOfIndices
    <3>5. PICK d \in Nat : d = c.block
      BY <1>1, CoreFacts
    <3>6. i = 3 * d + 2
      BY <1>1, <1>12, <3>4, <3>5, IndexIs
    <3>7. i \div 3 = b /\ i \in Int
      BY <2>3, <3>2, CoreRecordsAssumption
    <3>8. d = b
      BY <3>6, <3>7
    <3> QED
      BY <2>2, <3>2, <3>6, <3>8
  <2>4. index \div 3 = b
    BY <2>2
  <2>5. \A x : x \in {y \in RecordPlaces(hop) : y[1] \div SubBlockDim = core.block} <=> x \in own
    BY <1>3, <1>4, <1>5, <1>6, <2>1, <2>3, <2>4 DEF SubBlockDim
  <2>6. {x \in RecordPlaces(hop) : x[1] \div SubBlockDim = core.block} = own
    BY <2>5, Zenon
  <2>7. Statics(core, hop) = Volume(own)
    BY <1>12, <2>6 DEF Statics, AicoreStats
  <2>8. extra = {}
    BY <1>7, <1>12 DEF ExtraPlaces
  <2>9. SumOver(BytesAt, {}) = 0
    BY PlacesFinite, BytesType, SumOverEmpty
  <2>10. SumOver(BytesAt, extra) = 0
    BY <2>8, <2>9
  <2> QED
    BY <1>6, <1>7, <1>9, <1>10, <2>7, <2>10
<1> QED
  BY <1>1, <1>11, <1>12

(* The sum over some parts of which no way has two.                         *)
LEMMA StaticsOver ==
  ASSUME LogInv, kernel.probe = "memory", kernel.opType # "VECTOR",
         NEW core \in Cores, TryGetBlockIdx(core), NEW H \in SUBSET Hops,
         \A x \in AllPlaces : \A g, h \in H : g \in Rule(MovedAt(x)) /\ h \in Rule(MovedAt(x)) => g = h
  PROVE  SumFunction([hop \in H |-> Statics(core, hop)]) =
           Volume(Way(H) \cap OwnPlaces(core)) + Volume(Way(H) \cap ExtraPlaces(core))
<1>1. IsFiniteSet(H)
  BY HopsFinite, FS_Subset, Zenon
<1>2. IsFiniteSet(AllPlaces) /\ BytesAt \in [AllPlaces -> Int]
  BY PlacesFinite, BytesType
<1>3. ASSUME NEW Z
      PROVE  /\ SumFunction([hop \in H |-> SumOver(BytesAt, Way({hop}) \cap Z)]) = Volume(Way(H) \cap Z)
             /\ [hop \in H |-> SumOver(BytesAt, Way({hop}) \cap Z)] \in [H -> Int]
  <2>1. PICK A : A = [hop \in H |-> Way({hop}) \cap Z]
    OBVIOUS
  <2>2. A \in [H -> SUBSET AllPlaces] /\ \A hop \in H : A[hop] = Way({hop}) \cap Z
    BY <2>1 DEF Way
  <2>3. \A g, h \in H : g # h => A[g] \cap A[h] = {}
    <3>1. ASSUME NEW g \in H, NEW h \in H, NEW x, x \in A[g], x \in A[h] PROVE g = h
      <4>1. x \in AllPlaces /\ g \in Rule(MovedAt(x)) /\ h \in Rule(MovedAt(x))
        BY <2>2, <3>1 DEF Way
      <4> QED
        BY <4>1
    <3> QED
      BY <3>1
  <2>4. PICK U : U = UNION {A[h] : h \in H}
    OBVIOUS
  <2>5. \A x : x \in U <=> x \in Way(H) \cap Z
    BY <2>2, <2>4 DEF Way
  <2>6. U = Way(H) \cap Z
    BY <2>5, Zenon
  <2>7. SumFunction([h \in H |-> SumOver(BytesAt, A[h])]) = SumOver(BytesAt, U)
    BY <1>1, <1>2, <2>2, <2>3, <2>4, SumOfSums
  <2>8. U \in SUBSET AllPlaces
    BY <2>6 DEF Way
  <2>9. SumOver(BytesAt, U) = Volume(U)
    BY <2>8, VolumeIs
  <2>10. \A hop \in H : SumOver(BytesAt, A[hop]) = SumOver(BytesAt, Way({hop}) \cap Z)
    BY <2>2, Zenon
  <2>11. [h \in H |-> SumOver(BytesAt, A[h])] = [hop \in H |-> SumOver(BytesAt, Way({hop}) \cap Z)]
    BY <2>10
  <2>12. \A hop \in H : SumOver(BytesAt, Way({hop}) \cap Z) \in Int
    <3>1. ASSUME NEW hop \in H PROVE SumOver(BytesAt, Way({hop}) \cap Z) \in Int
      <4>1. PICK s : s = Way({hop}) \cap Z
        OBVIOUS
      <4>2. s \in SUBSET AllPlaces
        BY <4>1 DEF Way
      <4>3. SumOver(BytesAt, s) \in Int
        BY <1>2, <4>2, SumOverType
      <4> QED
        BY <4>1, <4>3
    <3> QED
      BY <3>1
  <2>13. SumFunction([hop \in H |-> SumOver(BytesAt, Way({hop}) \cap Z)]) = Volume(Way(H) \cap Z)
    BY <2>6, <2>7, <2>9, <2>11, Zenon
  <2> QED
    BY <2>12, <2>13
<1>4. PICK F : F = [hop \in H |-> SumOver(BytesAt, Way({hop}) \cap OwnPlaces(core))]
  OBVIOUS
<1>5. PICK G : G = [hop \in H |-> SumOver(BytesAt, Way({hop}) \cap ExtraPlaces(core))]
  OBVIOUS
<1>6. F \in [H -> Int] /\ SumFunction(F) = Volume(Way(H) \cap OwnPlaces(core))
  BY <1>3, <1>4, Zenon
<1>7. G \in [H -> Int] /\ SumFunction(G) = Volume(Way(H) \cap ExtraPlaces(core))
  BY <1>3, <1>5, Zenon
<1>8. \A hop \in H : Statics(core, hop) = F[hop] + G[hop]
  BY <1>4, <1>5, StaticsIs
<1>9. [hop \in H |-> Statics(core, hop)] = [hop \in H |-> F[hop] + G[hop]]
  BY <1>8
<1>10. SumFunction([hop \in H |-> F[hop] + G[hop]]) = SumFunction(F) + SumFunction(G)
  BY <1>1, <1>6, <1>7, SumOfPairs
<1> QED
  BY <1>6, <1>7, <1>9, <1>10, Zenon

(* What the cube core beside a vector core moved to the UB of that one.     *)
CubeBeside(core) == [core EXCEPT !.sub = "cube0"]
FromCube(core) ==
  IF core = CubeBeside(core) \/ CubeBeside(core) \notin Cores \/ ~TryGetBlockIdx(CubeBeside(core)) THEN {}
  ELSE {x \in OwnPlaces(CubeBeside(core)) :
          MovedAt(x).src = "L1" /\ MovedAt(x).dst = "UB" /\ MovedAt(x).sub = VecIndex(core.sub)}

LEMMA ExtraIs ==
  ASSUME LogInv, kernel.probe = "memory", kernel.opType # "VECTOR", NEW core \in Cores
  PROVE  ExtraPlaces(core) = FromCube(core)
<1>1. /\ kernel \in Kernels /\ kernel.opType \in {"MIX", "CUBE"} /\ core.block \in Nat
      /\ core = [block |-> core.block, sub |-> core.sub]
  BY CoreFacts DEF LogInv
<1>2. PICK cube : cube = CubeBeside(core)
  OBVIOUS
<1>3. cube = [block |-> core.block, sub |-> "cube0"]
  BY <1>1, <1>2 DEF CubeBeside
<1>4. CASE kernel.opType = "CUBE"
  <2>1. core = cube
    BY <1>1, <1>3, <1>4, CoreFacts
  <2>2. FromCube(core) = {}
    BY <1>2, <2>1 DEF FromCube
  <2>3. ExtraPlaces(core) = {}
    BY <1>4 DEF ExtraPlaces
  <2> QED
    BY <2>2, <2>3
<1>5. CASE kernel.opType = "MIX"
  <2>1. PICK b \in Nat : b = core.block
    BY <1>1
  <2>2. core.sub \in {"cube0", "vector0", "vector1"}
    BY <1>1, <1>5, CoreFacts
  <2>3. ASSUME NEW x \in AllPlaces
        PROVE  /\ x[1] \in Nat /\ MovedAt(x).sub \in {0, 1}
               /\ x \in ExtraPlaces(core) <=>
                    /\ MovedAt(x).src = "L1" /\ MovedAt(x).dst = "UB"
                    /\ x[1] % 3 = 2 /\ x[1] - 2 + MovedAt(x).sub = BlockIndex(core)
    <3>1. x[1] \in 0..(MaxBlock - 1) /\ MovedAt(x) \in LoggedMoves
      BY PlacesMove
    <3>2. x[1] \in Nat
      BY <3>1, CoreRecordsAssumption
    <3>3. MovedAt(x).sub \in {0, 1}
      BY <3>1, MovesHaveLengths
    <3>4. x \in ExtraPlaces(core) <=>
            /\ MovedAt(x).src = "L1" /\ MovedAt(x).dst = "UB"
            /\ x[1] % 3 = 2 /\ x[1] - 2 + MovedAt(x).sub = BlockIndex(core)
      BY <1>5, Zenon DEF ExtraPlaces, NeedExtraUbIdMapping, UbId, MovedAt, SubBlockDim, CubeIndex
    <3> QED
      BY <3>2, <3>3, <3>4
  <2>4. CASE core.sub = "cube0"
    <3>1. core = cube
      BY <1>1, <1>3, <2>4
    <3>2. FromCube(core) = {}
      BY <1>2, <3>1 DEF FromCube
    <3>3. BlockIndex(core) = 3 * b + 2
      BY <1>1, <1>5, <2>1, <2>4, IndexIs
    <3>4. ASSUME NEW x \in AllPlaces, x \in ExtraPlaces(core) PROVE FALSE
      <4>1. PICK i \in Nat : i = x[1]
        BY <2>3
      <4>2. PICK s \in {0, 1} : s = MovedAt(x).sub
        BY <2>3
      <4>3. i % 3 = 2 /\ i - 2 + s = 3 * b + 2
        BY <2>3, <3>3, <3>4, <4>1, <4>2
      <4> QED
        BY <4>3
    <3>5. ExtraPlaces(core) = {}
      BY <3>4 DEF ExtraPlaces
    <3> QED
      BY <3>2, <3>5
  <2>5. CASE core.sub # "cube0"
    <3>1. core # cube
      BY <1>3, <2>5
    <3>2. cube \in Cores
      <4>1. core \in KernelCores(kernel)
        BY DEF Cores
      <4>2. cube \in KernelCores(kernel)
        BY <1>1, <1>3, <1>5, <4>1 DEF KernelCores
      <4> QED
        BY <4>2 DEF Cores
    <3>3. cube.block = core.block /\ cube.sub = "cube0"
      BY <1>3
    <3>4. BlockIndex(cube) = 3 * b + 2
      BY <1>1, <1>5, <2>1, <3>2, <3>3, IndexIs
    <3>5. PICK v \in {0, 1} : v = VecIndex(core.sub)
      BY DEF VecIndex
    <3>6. BlockIndex(core) = 3 * b + v
      BY <1>1, <1>5, <2>1, <2>2, <2>5, <3>5, IndexIs DEF VecIndex
    <3>7. ASSUME NEW x \in AllPlaces
          PROVE  x \in ExtraPlaces(core) <=>
                   /\ x[1] = BlockIndex(cube)
                   /\ MovedAt(x).src = "L1" /\ MovedAt(x).dst = "UB" /\ MovedAt(x).sub = v
      <4>1. PICK i \in Nat : i = x[1]
        BY <2>3
      <4>2. PICK s \in {0, 1} : s = MovedAt(x).sub
        BY <2>3
      <4>3. i % 3 = 2 /\ i - 2 + s = 3 * b + v <=> i = 3 * b + 2 /\ s = v
        OBVIOUS
      <4> QED
        BY <2>3, <3>4, <3>6, <4>1, <4>2, <4>3
    <3>8. CASE TryGetBlockIdx(cube)
      <4>1. FromCube(core) = {x \in OwnPlaces(cube) :
                                MovedAt(x).src = "L1" /\ MovedAt(x).dst = "UB" /\ MovedAt(x).sub = v}
        BY <1>2, <3>1, <3>2, <3>5, <3>8, Zenon DEF FromCube
      <4>2. OwnPlaces(cube) = {x \in AllPlaces : x[1] = BlockIndex(cube)}
        BY <3>2, <3>8, OwnIs
      <4>3. ExtraPlaces(core) \subseteq AllPlaces
        BY DEF ExtraPlaces
      <4>4. \A x : x \in ExtraPlaces(core) <=> x \in FromCube(core)
        BY <3>7, <4>1, <4>2, <4>3
      <4> QED
        BY <4>4
    <3>9. CASE ~TryGetBlockIdx(cube)
      <4>1. FromCube(core) = {}
        BY <1>2, <3>9 DEF FromCube
      <4>2. \A x \in AllPlaces : x[1] # BlockIndex(cube)
        BY <3>9, CoreRecordsAssumption DEF AllPlaces, TryGetBlockIdx
      <4>3. ExtraPlaces(core) = {}
        BY <3>7, <4>2 DEF ExtraPlaces
      <4> QED
        BY <4>1, <4>3
    <3> QED
      BY <3>8, <3>9
  <2> QED
    BY <2>4, <2>5
<1> QED
  BY <1>1, <1>4, <1>5

(* The parts that leave a memory, the parts that enter it, and the moves    *)
(* they are of.                                                             *)
Leaving(unit) == {h \in Hops : h[1] = unit}

LEMMA WaysOut ==
  ASSUME NEW unit \in {"GM", "UB", "L1"}
  PROVE  /\ \A x \in AllPlaces : \A g, h \in Leaving(unit) : g \in Rule(MovedAt(x)) /\ h \in Rule(MovedAt(x)) => g = h
         /\ \A x \in AllPlaces : x \in Way(Leaving(unit)) <=> Rule(MovedAt(x)) # {} /\ MovedAt(x).src = unit
<1>1. \A move : Rule(move) \subseteq Hops
  BY DEF Rule
<1> QED
  BY <1>1, WayOut DEF Way, Leaving

Entering(unit) == {h \in Hops : h[2] = unit}

LEMMA WaysIn ==
  ASSUME NEW unit \in {"GM", "UB", "L1"}
  PROVE  /\ \A x \in AllPlaces : \A g, h \in Entering(unit) : g \in Rule(MovedAt(x)) /\ h \in Rule(MovedAt(x)) => g = h
         /\ \A x \in AllPlaces : x \in Way(Entering(unit)) <=> Rule(MovedAt(x)) # {} /\ MovedAt(x).dst = unit
<1>1. \A move : Rule(move) \subseteq Hops
  BY DEF Rule
<1> QED
  BY <1>1, WayIn DEF Way, Entering

LEMMA NoVolume == ASSUME LogInv, kernel.probe = "memory" PROVE Volume({}) = 0
<1>1. {} \in SUBSET AllPlaces
  OBVIOUS
<1>2. Volume({}) = SumOver(BytesAt, {})
  BY <1>1, VolumeIs
<1> QED
  BY <1>2, PlacesFinite, BytesType, SumOverEmpty

LEMMA ExtraMoves ==
  ASSUME NEW core, NEW x \in ExtraPlaces(core)
  PROVE  x \in AllPlaces /\ MovedAt(x).src = "L1" /\ MovedAt(x).dst = "UB" /\ Rule(MovedAt(x)) # {}
<1>1. x \in AllPlaces /\ MovedAt(x).src = "L1" /\ MovedAt(x).dst = "UB"
  BY DEF ExtraPlaces, NeedExtraUbIdMapping, MovedAt
<1> QED
  BY <1>1, FromL1ToUB

LEMMA TrafficIsExact ==
  ASSUME LogInv, kernel.probe = "memory", kernel.opType # "VECTOR", NEW core \in Cores, TryGetBlockIdx(core)
  PROVE  TrafficOf(core)
<1>1. OwnPlaces(core) \subseteq AllPlaces
  BY OwnIs
<1>2. Volume({}) = 0
  BY NoVolume
<1>3. ExtraPlaces(core) = FromCube(core)
  BY ExtraIs
<1> DEFINE known == {x \in OwnPlaces(core) : Rule(MovedAt(x)) # {}}
<1>5. ASSUME NEW unit \in {"GM", "UB", "L1"}
      PROVE  SumFunction([hop \in Leaving(unit) |-> Statics(core, hop)]) =
               Volume({x \in known : MovedAt(x).src = unit}) + (IF unit = "L1" THEN Volume(FromCube(core)) ELSE 0)
  <2>1. PICK H : H = Leaving(unit)
    OBVIOUS
  <2>2. H \in SUBSET Hops
    BY <2>1 DEF Leaving
  <2>3. /\ \A x \in AllPlaces : \A g, h \in H : g \in Rule(MovedAt(x)) /\ h \in Rule(MovedAt(x)) => g = h
        /\ \A x \in AllPlaces : x \in Way(H) <=> Rule(MovedAt(x)) # {} /\ MovedAt(x).src = unit
    BY <2>1, WaysOut
  <2>4. SumFunction([hop \in H |-> Statics(core, hop)]) =
          Volume(Way(H) \cap OwnPlaces(core)) + Volume(Way(H) \cap ExtraPlaces(core))
    BY <2>2, <2>3, StaticsOver
  <2>5. \A x : x \in Way(H) \cap OwnPlaces(core) <=> x \in {y \in known : MovedAt(y).src = unit}
    BY <1>1, <2>3
  <2>6. Way(H) \cap OwnPlaces(core) = {x \in known : MovedAt(x).src = unit}
    BY <2>5, Zenon
  <2>7. \A x : x \in Way(H) \cap ExtraPlaces(core) <=> x \in ExtraPlaces(core) /\ unit = "L1"
    BY <2>3, ExtraMoves
  <2>8. Volume(Way(H) \cap ExtraPlaces(core)) = IF unit = "L1" THEN Volume(FromCube(core)) ELSE 0
    <3>1. CASE unit = "L1"
      <4>1. Way(H) \cap ExtraPlaces(core) = FromCube(core)
        BY <1>3, <2>7, <3>1
      <4> QED
        BY <3>1, <4>1
    <3>2. CASE unit # "L1"
      <4>1. Way(H) \cap ExtraPlaces(core) = {}
        BY <2>7, <3>2
      <4> QED
        BY <1>2, <3>2, <4>1
    <3> QED
      BY <3>1, <3>2
  <2> HIDE DEF known
  <2> QED
    BY <2>1, <2>4, <2>6, <2>8, Zenon
<1>6. ASSUME NEW unit \in {"GM", "UB", "L1"}
      PROVE  SumFunction([hop \in Entering(unit) |-> Statics(core, hop)]) =
               Volume({x \in known : MovedAt(x).dst = unit}) + (IF unit = "UB" THEN Volume(FromCube(core)) ELSE 0)
  <2>1. PICK H : H = Entering(unit)
    OBVIOUS
  <2>2. H \in SUBSET Hops
    BY <2>1 DEF Entering
  <2>3. /\ \A x \in AllPlaces : \A g, h \in H : g \in Rule(MovedAt(x)) /\ h \in Rule(MovedAt(x)) => g = h
        /\ \A x \in AllPlaces : x \in Way(H) <=> Rule(MovedAt(x)) # {} /\ MovedAt(x).dst = unit
    BY <2>1, WaysIn
  <2>4. SumFunction([hop \in H |-> Statics(core, hop)]) =
          Volume(Way(H) \cap OwnPlaces(core)) + Volume(Way(H) \cap ExtraPlaces(core))
    BY <2>2, <2>3, StaticsOver
  <2>5. \A x : x \in Way(H) \cap OwnPlaces(core) <=> x \in {y \in known : MovedAt(y).dst = unit}
    BY <1>1, <2>3
  <2>6. Way(H) \cap OwnPlaces(core) = {x \in known : MovedAt(x).dst = unit}
    BY <2>5, Zenon
  <2>7. \A x : x \in Way(H) \cap ExtraPlaces(core) <=> x \in ExtraPlaces(core) /\ unit = "UB"
    BY <2>3, ExtraMoves
  <2>8. Volume(Way(H) \cap ExtraPlaces(core)) = IF unit = "UB" THEN Volume(FromCube(core)) ELSE 0
    <3>1. CASE unit = "UB"
      <4>1. Way(H) \cap ExtraPlaces(core) = FromCube(core)
        BY <1>3, <2>7, <3>1
      <4> QED
        BY <3>1, <4>1
    <3>2. CASE unit # "UB"
      <4>1. Way(H) \cap ExtraPlaces(core) = {}
        BY <2>7, <3>2
      <4> QED
        BY <1>2, <3>2, <4>1
    <3> QED
      BY <3>1, <3>2
  <2> HIDE DEF known
  <2> QED
    BY <2>1, <2>4, <2>6, <2>8, Zenon
<1> QED
  BY <1>5, <1>6, Zenon DEF TrafficOf, Leaving, Entering, FromCube, CubeBeside, OwnPlaces, MovedAt, known

(* The log of a core is exact up to the first stub that found no room, and  *)
(* its traffic, with what the cube core moved to its UB, is attributed to it *)
(* by the host (RecordPreCheck, DumpRecord, Statics, CollectStats).         *)
THEOREM TrafficCorrect == CoreRecordSpec => []TrafficAttributed
<1>1. LogInv => TrafficAttributed
  BY LogIsExact, TrafficIsExact DEF TrafficAttributed
<1> QED
  BY <1>1, LogInitInv, LogNextInv, PTL DEF CoreRecordSpec
-----------------------------------------------------------------------------
(* CoreRecords: the buffer of a probe.  All is said of a kernel k and of    *)
(* the stubs ex executed so far.                                            *)

Blocks == 0..(MaxBlock - 1)

IndexOf(k, core) ==
  LET block == IF core.sub # "cube0"
               THEN core.block * (IF k.opType = "MIX" THEN VecBlockDim ELSE 1) + VecIndex(core.sub)
               ELSE core.block
  IN IF core.sub # "cube0" THEN block + block \div VecBlockDim
     ELSE block + (block + 1) * VecBlockDim

(* The words of a block but for the space behind them, and those on a line  *)
(* of the cache with one of them.                                           *)
BlockStart(k, i) ==
  IF k.probe = "warps" THEN i * WarpBlockLen ELSE OperandHeader + i * OperandBlockLen
BlockWords(k, i) == BlockStart(k, i)..(BlockStart(k, i + 1) - Gap - 1)
Near(k, i, a) == a \in Nat /\ \E w \in BlockWords(k, i) : a \div LineWords = w \div LineWords

LEMMA LenFacts ==
  /\ MaxBlock \in Nat \ {0} /\ MaxThreads \in Nat \ {0} /\ WarpThreads \in Nat \ {0}
  /\ LineWords \in Nat \ {0} /\ Gap = LineWords
  /\ Len(OperandTypes) \in Nat \ {0} /\ Types = 1..Len(OperandTypes)
  /\ TableLen = 2 * Len(OperandTypes) + LineWords /\ TableLen \in Nat \ {0}
  /\ OperandBlockLen = MaxThreads * TableLen + TableLen + LineWords /\ OperandBlockLen \in Nat \ {0}
  /\ MaxThreads * TableLen \in Nat
  /\ WarpsPerBlock \in Nat
  /\ WarpBlockLen = 3 + 2 * WarpsPerBlock + LineWords /\ WarpBlockLen \in Nat \ {0}
<1>1. /\ MaxBlock \in Nat \ {0} /\ MaxThreads \in Nat \ {0} /\ WarpThreads \in Nat \ {0}
      /\ LineWords \in Nat \ {0}
  BY CoreRecordsAssumption
<1>2. Gap = LineWords
  BY DEF Gap
<1>3. Len(OperandTypes) \in Nat /\ Types = 1..Len(OperandTypes)
  BY CoreRecordsAssumption DEF Types
<1>4. Len(OperandTypes) # 0
  BY <1>3, CoreRecordsAssumption DEF Types
<1>5. TableLen = 2 * Len(OperandTypes) + LineWords /\ TableLen \in Nat \ {0}
  BY <1>1, <1>2, <1>3 DEF TableLen
<1>6. PICK n, t : n = MaxThreads /\ t = TableLen /\ n \in Nat /\ t \in Nat
  BY <1>1, <1>5
<1>7. n * t \in Nat /\ (n + 1) * t = n * t + t
  BY <1>6
<1>8. OperandBlockLen = n * t + t + LineWords
  BY <1>2, <1>6, <1>7 DEF OperandBlockLen
<1>9. OperandBlockLen \in Nat \ {0}
  BY <1>1, <1>6, <1>7, <1>8
<1>10. WarpsPerBlock \in Nat
  <2>1. PICK s, w : s = MaxThreads + WarpThreads - 1 /\ w = WarpThreads /\ s \in Nat /\ w \in Nat \ {0}
    BY <1>1
  <2>2. s \div w \in Nat
    BY <2>1, Z3
  <2> QED
    BY <2>1, <2>2 DEF WarpsPerBlock
<1>11. WarpBlockLen = 3 + 2 * WarpsPerBlock + LineWords /\ WarpBlockLen \in Nat \ {0}
  BY <1>1, <1>2, <1>10 DEF WarpBlockLen, WarpHeader
<1> QED
  BY <1>1, <1>2, <1>3, <1>4, <1>5, <1>6, <1>7, <1>8, <1>9, <1>10, <1>11

LEMMA Multiples ==
  ASSUME NEW n \in Nat, NEW i \in Nat
  PROVE  i * n \in Nat /\ (i + 1) * n = i * n + n
  OBVIOUS

LEMMA MultiplesGrow ==
  ASSUME NEW n \in Nat, NEW i \in Nat, NEW j \in Nat, i < j
  PROVE  i * n + n <= j * n
<1>1. PICK d \in Nat : j = i + 1 + d
  <2>1. j - i - 1 \in Nat /\ j = i + 1 + (j - i - 1)
    OBVIOUS
  <2> QED
    BY <2>1
<1>2. d * n \in Nat /\ i * n \in Nat /\ j * n = i * n + n + d * n
  BY <1>1
<1> QED
  BY <1>2

LEMMA BlockFacts ==
  ASSUME NEW k, NEW i \in Nat
  PROVE  \E len \in Nat \ {0}, first \in Nat :
           /\ BlockStart(k, i) = first /\ BlockStart(k, i + 1) = first + len
           /\ len > LineWords
           /\ \A j \in Nat : i < j => BlockStart(k, j) \in Nat /\ first + len <= BlockStart(k, j)
<1>1. CASE k.probe = "warps"
  <2>1. PICK len : len = WarpBlockLen /\ len \in Nat \ {0} /\ len > LineWords
    BY LenFacts
  <2>2. i * len \in Nat /\ (i + 1) * len = i * len + len
    BY <2>1, Multiples
  <2>3. \A j \in Nat : i < j => j * len \in Nat /\ i * len + len <= j * len
    BY <2>1, Multiples, MultiplesGrow
  <2>4. \A j : BlockStart(k, j) = j * len
    BY <1>1, <2>1 DEF BlockStart
  <2>5. PICK first \in Nat : first = i * len
    BY <2>2
  <2>6. BlockStart(k, i) = first /\ BlockStart(k, i + 1) = first + len
    <3>1. BlockStart(k, i) = i * len /\ BlockStart(k, i + 1) = (i + 1) * len
      BY <2>4
    <3> QED
      BY <2>2, <2>5, <3>1
  <2>7. ASSUME NEW j \in Nat, i < j PROVE BlockStart(k, j) \in Nat /\ first + len <= BlockStart(k, j)
    <3>1. BlockStart(k, j) = j * len
      BY <2>4
    <3>2. j * len \in Nat /\ i * len + len <= j * len
      BY <2>3, <2>7
    <3> QED
      BY <2>2, <2>5, <3>1, <3>2
  <2> QED
    BY <2>1, <2>6, <2>7
<1>2. CASE k.probe # "warps"
  <2>1. PICK len : len = OperandBlockLen /\ len \in Nat \ {0} /\ len > LineWords
    BY LenFacts
  <2>2. PICK p \in Nat, q \in Nat : p = i * len /\ q = (i + 1) * len /\ q = p + len
    BY <2>1, Multiples
  <2>3. \A j \in Nat : i < j => j * len \in Nat /\ p + len <= j * len
    BY <2>1, <2>2, Multiples, MultiplesGrow
  <2>4. \A j : BlockStart(k, j) = 1 + j * len
    BY <1>2, <2>1 DEF BlockStart, OperandHeader
  <2>5. BlockStart(k, i) = 1 + p /\ BlockStart(k, i + 1) = 1 + q
    BY <2>2, <2>4, Zenon
  <2>6. ASSUME NEW j \in Nat, i < j PROVE BlockStart(k, j) \in Nat /\ 1 + p + len <= BlockStart(k, j)
    <3>1. PICK r \in Nat : r = j * len /\ p + len <= r
      BY <2>3, <2>6
    <3>2. BlockStart(k, j) = 1 + r
      BY <2>4, <3>1, Zenon
    <3> QED
      BY <2>1, <3>1, <3>2
  <2>7. PICK first \in Nat : first = 1 + p
    BY <2>2
  <2>8. BlockStart(k, i) = first /\ BlockStart(k, i + 1) = first + len
    BY <2>1, <2>2, <2>5, <2>7
  <2> QED
    BY <2>1, <2>6, <2>7, <2>8
<1> QED
  BY <1>1, <1>2

LEMMA BlockEnds ==
  ASSUME NEW k, NEW i \in Nat
  PROVE  BlockStart(k, i) \in Nat /\ BlockStart(k, i + 1) \in Nat
<1>1. PICK len \in Nat \ {0}, first \in Nat :
           /\ BlockStart(k, i) = first /\ BlockStart(k, i + 1) = first + len
           /\ len > LineWords
           /\ \A j \in Nat : i < j => BlockStart(k, j) \in Nat /\ first + len <= BlockStart(k, j)
  BY BlockFacts, Zenon
<1> QED
  BY <1>1

LEMMA LinesApart ==
  ASSUME NEW v \in Nat, NEW w \in Nat, v + LineWords <= w
  PROVE  v \div LineWords # w \div LineWords
<1>1. PICK n \in Nat \ {0} : n = LineWords
  BY LenFacts
<1>2. v + n <= w
  BY <1>1
<1>3. v \div n # w \div n
  <2>1. SUFFICES ASSUME v \div n = w \div n PROVE FALSE
    OBVIOUS
  <2>2. /\ v = n * (v \div n) + (v % n) /\ w = n * (w \div n) + (w % n)
        /\ v % n \in 0..(n - 1) /\ w % n \in 0..(n - 1) /\ v \div n \in Int /\ w \div n \in Int
    BY Z3
  <2>3. PICK q \in Int : q = v \div n
    BY <2>2
  <2>4. n * q \in Int
    OBVIOUS
  <2> QED
    BY <1>2, <2>1, <2>2, <2>3, <2>4
<1> QED
  BY <1>1, <1>3

(* No line of the cache has words of two blocks.                            *)
LEMMA Separate ==
  ASSUME NEW k, NEW i \in Nat, NEW j \in Nat, NEW a, Near(k, i, a), Near(k, j, a)
  PROVE  i = j
<1>1. ASSUME NEW x \in Nat, NEW y \in Nat, Near(k, x, a), Near(k, y, a), x < y PROVE FALSE
  <2>1. PICK v \in BlockWords(k, x) : a \div LineWords = v \div LineWords
    BY <1>1 DEF Near
  <2>2. PICK w \in BlockWords(k, y) : a \div LineWords = w \div LineWords
    BY <1>1 DEF Near
  <2>3. PICK len \in Nat \ {0}, first \in Nat :
           /\ BlockStart(k, x) = first /\ BlockStart(k, x + 1) = first + len
           /\ BlockStart(k, y) \in Nat /\ first + len <= BlockStart(k, y)
    BY <1>1, BlockFacts
  <2>4. BlockStart(k, y + 1) \in Nat
    <3>1. PICK len2 \in Nat \ {0}, first2 \in Nat :
             /\ BlockStart(k, y) = first2 /\ BlockStart(k, y + 1) = first2 + len2
             /\ len2 > LineWords
             /\ \A j2 \in Nat : y < j2 => BlockStart(k, j2) \in Nat /\ first2 + len2 <= BlockStart(k, j2)
      BY BlockFacts, Zenon
    <3> QED
      BY <3>1
  <2>5. Gap = LineWords /\ LineWords \in Nat \ {0}
    BY LenFacts
  <2>6. v \in Nat /\ w \in Nat /\ v + LineWords <= w
    BY <2>1, <2>2, <2>3, <2>4, <2>5 DEF BlockWords
  <2> QED
    BY <2>1, <2>2, <2>6, LinesApart
<1> QED
  BY <1>1

(* What a core finds at a word: what its cache holds, else the GM.          *)
Held(cache, mem, a) == IF a \in DOMAIN cache THEN cache[a] ELSE Word(mem, a)

(* What a cache holds once a core has stored values through it.             *)
AfterStore(values, cache, mem) ==
  Over(values, Over(cache, [a \in CacheLines(DOMAIN values) |-> Word(mem, a)]))

(* What the stubs of a kernel with the probe "operands" are worth.          *)
IsMad(e) == "mad" \in DOMAIN e
TableOf(e) == IF IsMad(e) THEN 0 ELSE e.thread + 1
TypeIn(e) == IF IsMad(e) THEN e.mad.type ELSE e.type
Worth(e) == IF IsMad(e) THEN MmadOperands(e.mad) ELSE 1

Entries(k, ex, i, a) ==
  {n \in DOMAIN ex : /\ IndexOf(k, ex[n].core) = i /\ TableOf(ex[n]) <= MaxThreads
                     /\ OperandOffset(i, TableOf(ex[n]), TypeIn(ex[n])) = a}
WorthOf(ex, stubs) == SumFunction([n \in stubs |-> Worth(ex[n])])

(* What those of a kernel with the probe "warps" leave behind: a stub that  *)
(* notes the time writes three words of the block and one of its warp.      *)
Notes(e) ==
  /\ GetLaneId(e.thread) = 0 /\ TryGetThreadId(e.thread)
  /\ e.thread \div WarpThreads < WarpsPerBlock
StampWord(i, e) == WarpOffset(i, e.thread \div WarpThreads) + (IF e.isStart THEN 0 ELSE 1)
StampWords(i, e) ==
  {i * WarpBlockLen, i * WarpBlockLen + 1, i * WarpBlockLen + 2, StampWord(i, e)}
Stampings(k, ex, i, a) ==
  {n \in DOMAIN ex : IndexOf(k, ex[n].core) = i /\ Notes(ex[n]) /\ a \in StampWords(i, ex[n])}
Stamped(i, a, n) ==
  CASE a = i * WarpBlockLen -> 1
    [] a = i * WarpBlockLen + 1 -> i \div SubBlockDim
    [] a = i * WarpBlockLen + 2 -> i % SubBlockDim
    [] OTHER -> n

(* What is due at a word of block i.                                        *)
Due(k, ex, i, a) ==
  CASE k.probe = "operands" -> Cardinality(Entries(k, ex, i, a)) + WorthOf(ex, Entries(k, ex, i, a - 1))
    [] k.probe = "warps" ->
         IF Stampings(k, ex, i, a) = {} THEN 0 ELSE Stamped(i, a, Max(Stampings(k, ex, i, a)))
    [] OTHER -> 0

(* A core finds what is due in its block, the others hold nothing of it.    *)
Coherent(k, ex, caches, mem) ==
  /\ \A i \in DOMAIN caches : \A a \in DOMAIN caches[i] : i \in Blocks /\ Near(k, i, a)
  /\ \A a \in DOMAIN mem : mem[a] # 0 => \E i \in Blocks : Near(k, i, a)
  /\ \A i \in Blocks : \A a : Near(k, i, a) => Held(caches[i], mem, a) = Due(k, ex, i, a)

LEMMA LineIs ==
  ASSUME NEW k, NEW i, NEW words, NEW a \in CacheLines(words), \A w \in words : Near(k, i, w)
  PROVE  Near(k, i, a)
<1>1. PICK w \in words : a \in (LineWords * (w \div LineWords))..(LineWords * (w \div LineWords) + LineWords - 1)
  BY DEF CacheLines
<1>0. w \in Nat
  BY DEF Near
<1>2. PICK n \in Nat \ {0} : n = LineWords
  BY LenFacts
<1>3. PICK q : q = w \div n
  OBVIOUS
<1>4. q \in Nat
  BY <1>0, <1>2, <1>3, Z3
<1>5. PICK p \in Nat : p = n * q
  BY <1>4
<1>6. a \in p..(p + n - 1)
  BY <1>1, <1>2, <1>3, <1>5
<1>7. PICK r \in 0..(n - 1) : a = p + r
  <2>1. a - p \in 0..(n - 1) /\ a = p + (a - p)
    BY <1>6
  <2> QED
    BY <2>1
<1>8. a \div n = q
  BY <1>4, <1>5, <1>7, Z3
<1>9. PICK v \in BlockWords(k, i) : w \div LineWords = v \div LineWords
  BY DEF Near
<1>10. a \in Nat
  BY <1>5, <1>7
<1> QED
  BY <1>2, <1>3, <1>8, <1>9, <1>10 DEF Near

(* What a cache then holds.                                                 *)
Holds(stored, cache, mem, values) ==
  /\ DOMAIN stored = DOMAIN values \union DOMAIN cache \union CacheLines(DOMAIN values)
  /\ \A a \in DOMAIN values : Held(stored, mem, a) = values[a]
  /\ \A a : a \notin DOMAIN values => Held(stored, mem, a) = Held(cache, mem, a)

LEMMA StoreHeld ==
  ASSUME NEW cache, NEW mem, NEW values, NEW stored, stored = AfterStore(values, cache, mem)
  PROVE  Holds(stored, cache, mem, values)
<1>1. PICK lines : lines = [a \in CacheLines(DOMAIN values) |-> Word(mem, a)]
  OBVIOUS
<1>2. PICK old : old = Over(cache, lines)
  OBVIOUS
<1>3. DOMAIN lines = CacheLines(DOMAIN values) /\ \A a \in DOMAIN lines : lines[a] = Word(mem, a)
  BY <1>1
<1>4. /\ DOMAIN old = DOMAIN cache \union DOMAIN lines
      /\ \A a \in DOMAIN old : old[a] = IF a \in DOMAIN cache THEN cache[a] ELSE lines[a]
  BY <1>2 DEF Over
<1>5. stored = Over(values, old)
  BY <1>1, <1>2 DEF AfterStore
<1>6. /\ DOMAIN stored = DOMAIN values \union DOMAIN old
      /\ \A a \in DOMAIN stored : stored[a] = IF a \in DOMAIN values THEN values[a] ELSE old[a]
  BY <1>5 DEF Over
<1>7. DOMAIN stored = DOMAIN values \union DOMAIN cache \union CacheLines(DOMAIN values)
  BY <1>3, <1>4, <1>6
<1>8. ASSUME NEW a PROVE Held(stored, mem, a) = IF a \in DOMAIN values THEN values[a] ELSE Held(cache, mem, a)
  <2>1. a \in DOMAIN values => Held(stored, mem, a) = values[a]
    BY <1>6 DEF Held
  <2>2. a \notin DOMAIN values /\ a \in DOMAIN cache => Held(stored, mem, a) = cache[a]
    BY <1>4, <1>6 DEF Held
  <2>3. a \notin DOMAIN values /\ a \notin DOMAIN cache => Held(stored, mem, a) = Word(mem, a)
    BY <1>3, <1>4, <1>6 DEF Held
  <2> QED
    BY <2>1, <2>2, <2>3 DEF Held
<1> QED
  BY <1>7, <1>8 DEF Holds

(* The core of block i stores values through its cache.                     *)
Stores(caches, caches2, i, values, mem) ==
  /\ Blocks \subseteq DOMAIN caches
  /\ caches2 = [caches EXCEPT ![i] = AfterStore(values, caches[i], mem)]

(* From ex to ex2 the values have become due in block i.                    *)
FallsDue(k, ex, ex2, i, values) ==
  /\ \A a \in DOMAIN values : Near(k, i, a)
  /\ \A a \in DOMAIN values : Due(k, ex2, i, a) = values[a]
  /\ \A a : Near(k, i, a) /\ a \notin DOMAIN values => Due(k, ex2, i, a) = Due(k, ex, i, a)
  /\ \A j \in Blocks : j # i => \A a \in Nat : Due(k, ex2, j, a) = Due(k, ex, j, a)

(* A stub that writes what is due to words of its own block.                *)
LEMMA StoreCoherent ==
  ASSUME NEW k, NEW ex, NEW ex2, NEW caches, NEW caches2, NEW mem, NEW i \in Blocks, NEW values,
         Coherent(k, ex, caches, mem), Stores(caches, caches2, i, values, mem), FallsDue(k, ex, ex2, i, values)
  PROVE  Coherent(k, ex2, caches2, mem)
<1>10. /\ \A a \in DOMAIN values : Near(k, i, a)
       /\ \A a \in DOMAIN values : Due(k, ex2, i, a) = values[a]
       /\ \A a : Near(k, i, a) /\ a \notin DOMAIN values => Due(k, ex2, i, a) = Due(k, ex, i, a)
       /\ \A j \in Blocks : j # i => \A a \in Nat : Due(k, ex2, j, a) = Due(k, ex, j, a)
  BY Zenon DEF FallsDue
<1>0. PICK c : c = caches[i]
  OBVIOUS
<1>1. PICK stored : stored = AfterStore(values, c, mem)
  OBVIOUS
<1>2. caches2 = [caches EXCEPT ![i] = stored]
  BY <1>0, <1>1 DEF Stores
<1>3. /\ DOMAIN stored = DOMAIN values \union DOMAIN c \union CacheLines(DOMAIN values)
      /\ \A a \in DOMAIN values : Held(stored, mem, a) = values[a]
      /\ \A a : a \notin DOMAIN values => Held(stored, mem, a) = Held(c, mem, a)
  <2>1. Holds(stored, c, mem, values)
    BY <1>1, StoreHeld
  <2> QED
    BY <2>1, Zenon DEF Holds
<1>4. i \in DOMAIN caches /\ DOMAIN caches2 = DOMAIN caches /\ caches2[i] = stored
  BY <1>2 DEF Stores
<1>5. \A j \in DOMAIN caches : j # i => caches2[j] = caches[j]
  BY <1>2
<1>6. ASSUME NEW a \in DOMAIN stored PROVE Near(k, i, a)
  <2>1. a \in DOMAIN c => Near(k, i, a)
    BY <1>0, <1>4 DEF Coherent
  <2>2. a \in CacheLines(DOMAIN values) => Near(k, i, a)
    BY <1>10, LineIs
  <2> QED
    BY <1>3, <1>10, <2>1, <2>2
<1>7. ASSUME NEW j \in DOMAIN caches2, NEW a \in DOMAIN caches2[j] PROVE j \in Blocks /\ Near(k, j, a)
  <2>1. CASE j = i
    BY <1>4, <1>6, <2>1
  <2>2. CASE j # i
    BY <1>4, <1>5, <2>2 DEF Coherent
  <2> QED
    BY <2>1, <2>2
<1>8. ASSUME NEW j \in Blocks, NEW a, Near(k, j, a) PROVE Held(caches2[j], mem, a) = Due(k, ex2, j, a)
  <2>1. Held(caches[j], mem, a) = Due(k, ex, j, a)
    BY <1>8 DEF Coherent
  <2>2. CASE j = i
    <3>1. a \in DOMAIN values => Held(caches2[j], mem, a) = values[a] /\ Due(k, ex2, j, a) = values[a]
      BY <1>3, <1>4, <1>8, <1>10, <2>2, Zenon
    <3>2. a \notin DOMAIN values =>
            Held(caches2[j], mem, a) = Held(caches[j], mem, a) /\ Due(k, ex2, j, a) = Due(k, ex, j, a)
      BY <1>0, <1>3, <1>4, <1>8, <1>10, <2>2, Zenon
    <3> QED
      BY <2>1, <3>1, <3>2, Zenon
  <2>3. CASE j # i
    <3>1. caches2[j] = caches[j] /\ Due(k, ex2, j, a) = Due(k, ex, j, a)
      <4>1. j \in DOMAIN caches /\ a \in Nat
        BY <1>8 DEF Stores, Near
      <4> QED
        BY <1>5, <1>10, <2>3, <4>1
    <3> QED
      BY <2>1, <3>1, Zenon
  <2> QED
    BY <2>2, <2>3
<1>9. \A a \in DOMAIN mem : mem[a] # 0 => \E j \in Blocks : Near(k, j, a)
  BY DEF Coherent
<1> QED
  BY <1>7, <1>8, <1>9, Zenon DEF Coherent

(* A cache that is written back holds lines of its own block only.          *)
LEMMA FlushCoherent ==
  ASSUME NEW k, NEW ex, NEW caches, NEW caches2, NEW mem, NEW i \in DOMAIN caches, NEW mem2,
         Coherent(k, ex, caches, mem), Blocks \subseteq DOMAIN caches, 
         mem2 = Over(caches[i], mem), caches2 = [caches EXCEPT ![i] = << >>]
  PROVE  Coherent(k, ex, caches2, mem2)
<1>1. PICK c : c = caches[i]
  OBVIOUS
<1>2. /\ DOMAIN mem2 = DOMAIN c \union DOMAIN mem
      /\ \A a \in DOMAIN mem2 : mem2[a] = IF a \in DOMAIN c THEN c[a] ELSE mem[a]
  BY <1>1 DEF Over
<1>3. DOMAIN caches2 = DOMAIN caches /\ caches2[i] = << >> /\ \A j \in DOMAIN caches : j # i => caches2[j] = caches[j]
  OBVIOUS
<1>4. \A a \in DOMAIN c : i \in Blocks /\ Near(k, i, a)
  BY <1>1 DEF Coherent
<1>5. ASSUME NEW j \in DOMAIN caches2, NEW a \in DOMAIN caches2[j] PROVE j \in Blocks /\ Near(k, j, a)
  <2>1. j # i
    BY <1>3
  <2> QED
    BY <1>3, <2>1 DEF Coherent
<1>6. ASSUME NEW a \in DOMAIN mem2, mem2[a] # 0 PROVE \E j \in Blocks : Near(k, j, a)
  <2>1. CASE a \in DOMAIN c
    BY <1>4, <2>1
  <2>2. CASE a \notin DOMAIN c
    <3>1. a \in DOMAIN mem /\ mem[a] # 0
      BY <1>2, <1>6, <2>2
    <3> QED
      BY <3>1, Zenon DEF Coherent
  <2> QED
    BY <2>1, <2>2
<1>7. \A a : Word(mem2, a) = IF a \in DOMAIN c THEN c[a] ELSE Word(mem, a)
  BY <1>2 DEF Word
<1>8. ASSUME NEW j \in Blocks, NEW a, Near(k, j, a) PROVE Held(caches2[j], mem2, a) = Due(k, ex, j, a)
  <2>1. Held(caches[j], mem, a) = Due(k, ex, j, a)
    BY <1>8 DEF Coherent
  <2>2. CASE j = i
    <3>1. DOMAIN caches2[j] = {}
      BY <1>3, <2>2
    <3>2. Held(caches2[j], mem2, a) = Held(caches[j], mem, a)
      BY <1>1, <1>7, <2>2, <3>1 DEF Held
    <3> QED
      BY <2>1, <3>2
  <2>3. CASE j # i
    <3>1. a \notin DOMAIN c
      <4>1. SUFFICES ASSUME a \in DOMAIN c PROVE FALSE
        OBVIOUS
      <4>2. i \in Blocks /\ Near(k, i, a)
        BY <1>4, <4>1
      <4>3. i \in Nat /\ j \in Nat
        BY <4>2 DEF Blocks
      <4> QED
        BY <1>8, <2>3, <4>2, <4>3, Separate
    <3>2. caches2[j] = caches[j]
      BY <1>3, <2>3
    <3>3. Held(caches2[j], mem2, a) = Held(caches[j], mem, a)
      BY <1>7, <3>1, <3>2 DEF Held
    <3> QED
      BY <2>1, <3>3
  <2> QED
    BY <2>2, <2>3
<1> QED
  BY <1>5, <1>6, <1>8, Zenon DEF Coherent

(* A stub that writes nothing, and is not due anything.                     *)
LEMMA SameCoherent ==
  ASSUME NEW k, NEW ex, NEW ex2, NEW caches, NEW mem, Coherent(k, ex, caches, mem),
         \A i \in Blocks : \A a : Near(k, i, a) => Due(k, ex2, i, a) = Due(k, ex, i, a)
  PROVE  Coherent(k, ex2, caches, mem)
  BY Zenon DEF Coherent

LEMMA CeilIs ==
  ASSUME NEW n \in Nat, NEW s \in Nat \ {0}
  PROVE  CeilToFractal(n, s) \in Nat /\ Padded(n, s) = s * CeilToFractal(n, s)
<1>1. PICK q : q = CeilToFractal(n, s)
  OBVIOUS
<1>2. q = (n + s - 1) \div s
  BY <1>1 DEF CeilToFractal
<1>3. q \in Nat
  BY <1>2, Z3
<1>4. PICK p \in Nat : p = s * q
  BY <1>3
<1>5. p \in n..(n + s - 1)
  <2>1. n + s - 1 = s * q + ((n + s - 1) % s) /\ (n + s - 1) % s \in 0..(s - 1)
    BY <1>2, Z3
  <2>2. PICK r \in 0..(s - 1) : r = (n + s - 1) % s
    BY <2>1
  <2> QED
    BY <1>4, <2>1, <2>2
<1>6. p % s = 0
  BY <1>3, <1>4, Z3
<1>7. ASSUME NEW x \in n..(n + s - 1), x % s = 0 PROVE x = p
  <2>1. PICK y \in Int : x = s * y
    <3>1. x = s * (x \div s) + (x % s) /\ x \div s \in Int
      BY Z3
    <3>2. PICK z \in Int : z = x \div s
      BY <3>1
    <3>3. s * z \in Int
      OBVIOUS
    <3>4. x = s * z
      BY <1>7, <3>1, <3>2, <3>3
    <3> QED
      BY <3>4
  <2>2. ASSUME y < q PROVE FALSE
    <3>1. s * y + s <= s * q
      <4>1. PICK d \in Nat : q = y + 1 + d
        <5>1. q - y - 1 \in Nat /\ q = y + 1 + (q - y - 1)
          BY <1>3, <2>2
        <5> QED
          BY <5>1
      <4>2. s * q = s * y + s + s * d /\ s * d \in Nat /\ s * y \in Int
        BY <4>1
      <4> QED
        BY <4>2
    <3> QED
      BY <1>4, <1>5, <2>1, <3>1
  <2>3. ASSUME q < y PROVE FALSE
    <3>1. s * q + s <= s * y
      <4>1. PICK d \in Nat : y = q + 1 + d
        <5>1. y - q - 1 \in Nat /\ y = q + 1 + (y - q - 1)
          BY <1>3, <2>3
        <5> QED
          BY <5>1
      <4>2. s * y = s * q + s + s * d /\ s * d \in Nat /\ s * q \in Int
        BY <1>3, <4>1
      <4> QED
        BY <4>2
    <3> QED
      BY <1>4, <1>5, <2>1, <3>1
  <2>4. y = q
    BY <1>3, <2>2, <2>3
  <2> QED
    BY <1>4, <2>1, <2>4
<1>8. Padded(n, s) = p
  <2>1. PICK S : S = {x \in n..(n + s - 1) : x % s = 0}
    OBVIOUS
  <2>2. S \subseteq Nat /\ p \in S
    BY <1>5, <1>6, <2>1
  <2>4. \A x \in S : p <= x
    BY <1>7, <2>1
  <2>3. Min(S) = p
    BY <2>2, <2>4, MinIs
  <2> QED
    BY <2>1, <2>3 DEF Padded
<1> QED
  BY <1>1, <1>3, <1>4, <1>8

(* What the code counts is what the multiplication takes.                   *)
LEMMA FlopsAre ==
  ASSUME NEW mad \in Mads
  PROVE  MmadOperands(mad) = Flops(mad) /\ Flops(mad) \in Int
<1>1. /\ mad.m \in Nat /\ mad.k \in Nat /\ mad.n \in Nat /\ mad.mx \in BOOLEAN
  BY MadsAssumption
<1>2. PICK c0 \in Nat \ {0} : c0 = 256 \div DataBits(OperandTypes[mad.type])
  <2>1. PICK b : b = DataBits(OperandTypes[mad.type])
    OBVIOUS
  <2>2. b \in {4, 8, 16, 32, 64, 128}
    BY <2>1 DEF DataBits
  <2>3. 256 \div b \in Nat \ {0}
    BY <2>2
  <2> QED
    BY <2>1, <2>3
<1>3. PICK nc \in Nat : nc = CeilToFractal(mad.n, 16) /\ Padded(mad.n, 16) = 16 * nc
  BY <1>1, CeilIs
<1>4. PICK gemv \in BOOLEAN : gemv = (mad.bit61 = 0 /\ mad.m = 1)
  OBVIOUS
<1>5. PICK mc \in Nat : /\ mc = IF gemv THEN 1 ELSE CeilToFractal(mad.m, 16)
                        /\ Padded(mad.m, 16) = 16 * mc
  <2>1. CeilToFractal(mad.m, 16) \in Nat /\ Padded(mad.m, 16) = 16 * CeilToFractal(mad.m, 16)
    BY <1>1, CeilIs
  <2>2. gemv => CeilToFractal(mad.m, 16) = 1
    <3>1. (1 + 16 - 1) \div 16 = 1
      OBVIOUS
    <3> QED
      BY <1>4, <3>1 DEF CeilToFractal
  <2> QED
    BY <2>1, <2>2
<1>6. PICK kc \in Nat, k0 \in Nat :
        /\ kc = IF gemv THEN 16 ELSE CeilToFractal(mad.k, c0)
        /\ k0 = IF gemv THEN CeilToFractal(mad.k, 16) ELSE c0
        /\ Padded(mad.k, IF gemv THEN 16 ELSE c0) = kc * k0
  <2>1. CeilToFractal(mad.k, 16) \in Nat /\ Padded(mad.k, 16) = 16 * CeilToFractal(mad.k, 16)
    BY <1>1, CeilIs
  <2>2. CeilToFractal(mad.k, c0) \in Nat /\ Padded(mad.k, c0) = c0 * CeilToFractal(mad.k, c0)
    BY <1>1, CeilIs
  <2>3. CASE gemv
    BY <2>1, <2>3
  <2>4. CASE ~gemv
    <3>1. PICK x \in Nat : x = CeilToFractal(mad.k, c0)
      BY <2>2
    <3>2. c0 * x = x * c0
      OBVIOUS
    <3>3. Padded(mad.k, IF gemv THEN 16 ELSE c0) = x * c0
      BY <2>2, <2>4, <3>1, <3>2
    <3> QED
      BY <2>4, <3>1, <3>3
  <2> QED
    BY <2>3, <2>4
<1>7. MmadOperands(mad) = 2 * mc * 16 * nc * 16 * kc * k0 + (IF mad.mx THEN kc * k0 * 16 * (mc + nc) ELSE 0)
  <2>1. CASE gemv
    <3>1. mad.bit61 = 0 /\ mad.m = 1 /\ mc = 1 /\ kc = 16 /\ k0 = CeilToFractal(mad.k, 16)
      BY <1>4, <1>5, <1>6, <2>1
    <3> QED
      BY <1>3, <3>1, Zenon DEF MmadOperands, Fractal
  <2>2. CASE ~gemv
    <3>1. ~(mad.bit61 = 0 /\ mad.m = 1) /\ mc = CeilToFractal(mad.m, 16) /\ kc = CeilToFractal(mad.k, c0) /\ k0 = c0
      BY <1>4, <1>5, <1>6, <2>2
    <3>2. CeilToFractal(mad.m, 16) = mc /\ CeilToFractal(mad.k, c0) = kc /\ c0 = k0
      BY <3>1
    <3> QED
      BY <1>2, <1>3, <3>1, <3>2 DEF MmadOperands, Fractal
  <2> QED
    BY <2>1, <2>2
<1>8. PICK p \in Nat, q \in Nat, r \in Nat : p = 16 * mc /\ q = 16 * nc /\ r = kc * k0
  OBVIOUS
<1>9. Flops(mad) = 2 * p * q * r + (IF mad.mx THEN r * (p + q) ELSE 0)
  <2>1. (IF mad.m = 1 /\ mad.bit61 = 0 THEN 16 ELSE 256 \div DataBits(OperandTypes[mad.type]))
          = IF gemv THEN 16 ELSE c0
    BY <1>2, <1>4
  <2>2. Padded(mad.k, IF mad.m = 1 /\ mad.bit61 = 0 THEN 16 ELSE 256 \div DataBits(OperandTypes[mad.type])) = r
    BY <1>6, <1>8, <2>1, Zenon
  <2>3. Padded(mad.m, 16) = p /\ Padded(mad.n, 16) = q
    BY <1>3, <1>5, <1>8, Zenon
  <2> QED
    BY <2>2, <2>3, ZenonT(30) DEF Flops
<1>10. 2 * mc * 16 * nc * 16 * kc * k0 = 2 * p * q * r
  BY <1>8
<1>11. kc * k0 * 16 * (mc + nc) = r * (p + q)
  BY <1>8
<1>12. 2 * p * q * r \in Int /\ r * (p + q) \in Int
  OBVIOUS
<1>13. MmadOperands(mad) = Flops(mad)
  BY <1>7, <1>9, <1>10, <1>11, Zenon
<1>14. Flops(mad) \in Int
  <2>1. PICK x, y : x = 2 * p * q * r /\ y = r * (p + q)
    OBVIOUS
  <2> QED
    BY <1>1, <1>9, <1>12, <2>1
<1> QED
  BY <1>13, <1>14

(* One stub more.                                                           *)
OneStubMore(ex, ex2, e, n) ==
  /\ n \in Nat \ {0} /\ DOMAIN ex = 1..(n - 1) /\ DOMAIN ex2 = 1..n /\ Len(ex2) = n
  /\ ex2[n] = e /\ \A j \in 1..(n - 1) : ex2[j] = ex[j]

LEMMA AppendedIs ==
  ASSUME NEW S, NEW ex \in Seq(S), NEW e
  PROVE  OneStubMore(ex, Append(ex, e), e, Len(ex) + 1)
<1>1. PICK m : m = Len(ex)
  OBVIOUS
<1>2. m \in Nat /\ DOMAIN ex = 1..m
  BY <1>1
<1>3. PICK ex2 : ex2 = Append(ex, e)
  OBVIOUS
<1>4. /\ DOMAIN ex2 = 1..(m + 1) /\ Len(ex2) = m + 1 /\ ex2[m + 1] = e
      /\ \A j \in 1..m : ex2[j] = ex[j]
  BY <1>1, <1>3
<1>5. PICK n : n = m + 1
  OBVIOUS
<1>6. OneStubMore(ex, ex2, e, n)
  BY <1>2, <1>4, <1>5 DEF OneStubMore
<1> QED
  BY <1>1, <1>3, <1>5, <1>6, Zenon

(* The stub e is worth something at the entry that starts at word a.        *)
Enters(k, e, i, a) ==
  /\ IndexOf(k, e.core) = i /\ TableOf(e) <= MaxThreads
  /\ OperandOffset(i, TableOf(e), TypeIn(e)) = a

Gains(s, s2, ex, n, hit) ==
  s \subseteq DOMAIN ex /\ n \notin s /\ (hit => s2 = s \union {n}) /\ (~hit => s2 = s)

LEMMA EntriesMore ==
  ASSUME NEW k, NEW ex, NEW ex2, NEW e, NEW n, OneStubMore(ex, ex2, e, n), NEW i, NEW a
  PROVE  Gains(Entries(k, ex, i, a), Entries(k, ex2, i, a), ex, n, Enters(k, e, i, a))
<1>1. PICK E : E = Entries(k, ex, i, a)
  OBVIOUS
<1>2. PICK E2 : E2 = Entries(k, ex2, i, a)
  OBVIOUS
<1>3. \A j : j \in E <=> j \in DOMAIN ex /\ Enters(k, ex[j], i, a)
  BY <1>1 DEF Entries, Enters
<1>4. \A j : j \in E2 <=> j \in DOMAIN ex2 /\ Enters(k, ex2[j], i, a)
  BY <1>2 DEF Entries, Enters
<1>5. \A j \in 1..(n - 1) : j \in DOMAIN ex /\ j \in DOMAIN ex2 /\ ex2[j] = ex[j]
  BY DEF OneStubMore
<1>6. n \in DOMAIN ex2 /\ ex2[n] = e /\ n \notin DOMAIN ex
  BY DEF OneStubMore
<1>7. \A j \in DOMAIN ex2 : j = n \/ j \in 1..(n - 1)
  BY DEF OneStubMore
<1>8. \A j : j \in E2 <=> j \in E \/ (j = n /\ Enters(k, e, i, a))
  <2>1. DOMAIN ex = 1..(n - 1)
    BY DEF OneStubMore
  <2> QED
    BY <1>3, <1>4, <1>5, <1>6, <1>7, <2>1
<1>9. E \subseteq DOMAIN ex /\ n \notin E
  BY <1>3, <1>6
<1>10. Enters(k, e, i, a) => E2 = E \union {n}
  BY <1>8
<1>11. ~Enters(k, e, i, a) => E2 = E
  BY <1>8
<1>12. Gains(E, E2, ex, n, Enters(k, e, i, a))
  BY <1>9, <1>10, <1>11 DEF Gains
<1> QED
  BY <1>1, <1>2, <1>12, Zenon

(* The worths of stubs are numbers.                                         *)
Worths(ex) == \A j \in DOMAIN ex : Worth(ex[j]) \in Int

LEMMA WorthIs ==
  ASSUME NEW ex, NEW s \in SUBSET DOMAIN ex
  PROVE  WorthOf(ex, s) = SumOver([j \in DOMAIN ex |-> Worth(ex[j])], s)
<1>1. PICK f : f = [j \in DOMAIN ex |-> Worth(ex[j])]
  OBVIOUS
<1>2. \A j \in s : f[j] = Worth(ex[j])
  BY <1>1
<1>3. [j \in s |-> Worth(ex[j])] = [j \in s |-> f[j]]
  BY <1>2
<1> QED
  BY <1>1, <1>3, Zenon DEF WorthOf, SumOver

WorthGains(ex, ex2, e, n, s) ==
  /\ WorthOf(ex2, s) = WorthOf(ex, s) /\ WorthOf(ex, s) \in Int
  /\ WorthOf(ex2, s \union {n}) = Worth(e) + WorthOf(ex, s)

LEMMA WorthMore ==
  ASSUME NEW ex, NEW ex2, NEW e, NEW n, OneStubMore(ex, ex2, e, n), Worths(ex2),
         NEW s \in SUBSET DOMAIN ex
  PROVE  WorthGains(ex, ex2, e, n, s)
<1>1. PICK f : f = [j \in DOMAIN ex2 |-> Worth(ex2[j])]
  OBVIOUS
<1>2. DOMAIN ex2 = 1..n /\ DOMAIN ex = 1..(n - 1) /\ n \in Nat /\ ex2[n] = e
  BY DEF OneStubMore
<1>3. IsFiniteSet(DOMAIN ex2) /\ f \in [DOMAIN ex2 -> Int]
  <2>1. IsFiniteSet(1..n)
    BY <1>2, FS_Interval
  <2>2. IsFiniteSet(DOMAIN ex2)
    BY <1>2, <2>1, Zenon
  <2>3. \A j \in DOMAIN ex2 : Worth(ex2[j]) \in Int
    BY DEF Worths
  <2> QED
    BY <1>1, <2>2, <2>3
<1>4. s \in SUBSET DOMAIN ex2 /\ n \in DOMAIN ex2 /\ n \notin s /\ f[n] = Worth(e)
  <2>1. n \in DOMAIN ex2 /\ n \in Nat \ {0}
    BY <1>2 DEF OneStubMore
  <2>2. f[n] = Worth(ex2[n])
    BY <1>1, <2>1
  <2>3. s \in SUBSET DOMAIN ex2 /\ n \notin s
    BY <1>2, <2>1
  <2> QED
    BY <1>2, <2>1, <2>2, <2>3, Zenon
<1>5. WorthOf(ex2, s) = SumOver(f, s)
  BY <1>1, <1>4, WorthIs
<1>6. SumOver(f, s) \in Int /\ SumOver(f, s \union {n}) = f[n] + SumOver(f, s)
  BY <1>3, <1>4, SumOverType, SumOverMore
<1>7. PICK t \in SUBSET DOMAIN ex2 : t = s \union {n}
  BY <1>4
<1>8. WorthOf(ex2, t) = SumOver(f, t)
  BY <1>1, WorthIs
<1>9. WorthOf(ex2, s) = WorthOf(ex, s)
  <2>1. \A j \in s : ex2[j] = ex[j]
    BY DEF OneStubMore
  <2>2. [j \in s |-> Worth(ex2[j])] = [j \in s |-> Worth(ex[j])]
    BY <2>1
  <2> QED
    BY <2>2, Zenon DEF WorthOf
<1> QED
  BY <1>4, <1>5, <1>6, <1>7, <1>8, <1>9 DEF WorthGains

(* The place of an entry among the words of its block.                      *)
LEMMA OffsetIs ==
  ASSUME NEW k, k.probe # "warps", NEW i \in Nat, NEW table \in 0..MaxThreads, NEW t \in Types
  PROVE  \E first \in Nat, p \in Nat :
           /\ BlockStart(k, i) = first /\ p = table * TableLen
           /\ OperandOffset(i, table, t) = first + p + 2 * (t - 1)
           /\ first + p + 2 * (t - 1) + 1 < BlockStart(k, i + 1) - Gap
<1>1. PICK len : len = OperandBlockLen /\ len \in Nat
  BY LenFacts
<1>2. PICK s : s = TableLen /\ s \in Nat /\ s = 2 * Len(OperandTypes) + LineWords
  BY LenFacts
<1>3. MaxThreads \in Nat /\ Len(OperandTypes) \in Nat /\ LineWords \in Nat \ {0} /\ Gap = LineWords
  BY LenFacts
<1>4. PICK m \in Nat : m = MaxThreads * s /\ len = m + s + LineWords
  BY <1>1, <1>2, LenFacts
<1>5. PICK q \in Nat, r \in Nat : q = i * len /\ r = (i + 1) * len /\ r = q + len
  BY <1>1, Multiples
<1>6. PICK p \in Nat : p = table * s
  <2>1. table \in Nat
    BY <1>3
  <2> QED
    BY <1>2, <2>1, Multiples
<1>7. p <= m
  <2>1. CASE table = MaxThreads
    BY <1>4, <1>6, <2>1
  <2>2. CASE table < MaxThreads
    <3>1. table * s + s <= MaxThreads * s
      BY <1>2, <1>3, <2>2, MultiplesGrow
    <3> QED
      BY <1>2, <1>4, <1>6, <3>1
  <2> QED
    BY <1>3, <2>1, <2>2
<1>8. t \in 1..Len(OperandTypes)
  BY LenFacts
<1>9. BlockStart(k, i) = 1 + q /\ BlockStart(k, i + 1) = 1 + r
  BY <1>1, <1>5, Zenon DEF BlockStart, OperandHeader
<1>10. OperandOffset(i, table, t) = 1 + q + p + 2 * (t - 1)
  BY <1>1, <1>2, <1>5, <1>6, Zenon DEF OperandOffset, OperandHeader
<1>11. PICK first \in Nat : first = 1 + q
  BY <1>5
<1>12. first + p + 2 * (t - 1) + 1 < BlockStart(k, i + 1) - Gap
  <2>1. r = q + len /\ len = m + s + LineWords
    BY <1>4, <1>5
  <2> QED
    BY <1>2, <1>3, <1>7, <1>8, <1>9, <1>11, <2>1
<1>13. BlockStart(k, i) = first /\ OperandOffset(i, table, t) = first + p + 2 * (t - 1)
  BY <1>9, <1>10, <1>11
<1> QED
  BY <1>2, <1>6, <1>12, <1>13

LEMMA OffsetNear ==
  ASSUME NEW k, k.probe # "warps", NEW i \in Nat, NEW table \in 0..MaxThreads, NEW t \in Types,
         NEW a \in {OperandOffset(i, table, t), OperandOffset(i, table, t) + 1}
  PROVE  a \in Nat /\ Near(k, i, a)
<1>1. PICK first \in Nat, p \in Nat :
           /\ BlockStart(k, i) = first
           /\ OperandOffset(i, table, t) = first + p + 2 * (t - 1)
           /\ first + p + 2 * (t - 1) + 1 < BlockStart(k, i + 1) - Gap
  BY OffsetIs
<1>2. t \in Nat \ {0}
  BY LenFacts
<1>3. BlockStart(k, i + 1) \in Nat /\ Gap \in Nat
  BY BlockEnds, LenFacts
<1>4. a \in Nat /\ a \in BlockWords(k, i)
  BY <1>1, <1>2, <1>3 DEF BlockWords
<1> QED
  BY <1>4 DEF Near

(* No two entries of a block share a word.                                  *)
LEMMA EntriesApart ==
  ASSUME NEW i \in Nat, NEW x \in 0..MaxThreads, NEW y \in 0..MaxThreads, NEW t \in Types, NEW u \in Types
  PROVE  /\ OperandOffset(i, x, t) = OperandOffset(i, y, u) => x = y /\ t = u
         /\ OperandOffset(i, x, t) + 1 # OperandOffset(i, y, u)
<1>1. PICK s : s = TableLen /\ s \in Nat /\ s = 2 * Len(OperandTypes) + LineWords
  BY LenFacts
<1>2. PICK q \in Int : q = OperandHeader + i * OperandBlockLen
  <2>1. OperandBlockLen \in Nat
    BY LenFacts
  <2>2. i * OperandBlockLen \in Nat
    BY <2>1, Multiples
  <2> QED
    BY <2>2 DEF OperandHeader
<1>3. x \in Nat /\ y \in Nat /\ t \in 1..Len(OperandTypes) /\ u \in 1..Len(OperandTypes)
      /\ LineWords \in Nat \ {0} /\ Len(OperandTypes) \in Nat
  BY LenFacts
<1>4. PICK a \in Nat, b \in Nat : a = x * s /\ b = y * s
  BY <1>1, <1>3, Multiples
<1>5. OperandOffset(i, x, t) = q + a + 2 * (t - 1) /\ OperandOffset(i, y, u) = q + b + 2 * (u - 1)
  BY <1>1, <1>2, <1>4, Zenon DEF OperandOffset
<1>6. x < y => a + s <= b
  BY <1>1, <1>3, <1>4, MultiplesGrow
<1>7. y < x => b + s <= a
  BY <1>1, <1>3, <1>4, MultiplesGrow
<1>8. x = y => a = b
  BY <1>4
<1>9. x = y \/ x < y \/ y < x
  BY <1>3
<1> QED
  BY <1>1, <1>3, <1>5, <1>6, <1>7, <1>8, <1>9

(* What a stub adds to what is due.                                         *)
LEMMA DueMore ==
  ASSUME NEW k, k.probe = "operands", NEW ex, NEW ex2, NEW e, NEW n, OneStubMore(ex, ex2, e, n),
         Worths(ex2), NEW i, NEW a
  PROVE  /\ Due(k, ex, i, a) \in Int
         /\ ~Enters(k, e, i, a) /\ ~Enters(k, e, i, a - 1) => Due(k, ex2, i, a) = Due(k, ex, i, a)
         /\ Enters(k, e, i, a) /\ ~Enters(k, e, i, a - 1) => Due(k, ex2, i, a) = Due(k, ex, i, a) + 1
         /\ ~Enters(k, e, i, a) /\ Enters(k, e, i, a - 1) =>
              Due(k, ex2, i, a) = Due(k, ex, i, a) + Worth(e)
<1>1. PICK E, F, E2, F2 : /\ E = Entries(k, ex, i, a) /\ F = Entries(k, ex, i, a - 1)
                          /\ E2 = Entries(k, ex2, i, a) /\ F2 = Entries(k, ex2, i, a - 1)
  OBVIOUS
<1>2. /\ E \subseteq DOMAIN ex /\ n \notin E
      /\ Enters(k, e, i, a) => E2 = E \union {n}
      /\ ~Enters(k, e, i, a) => E2 = E
  <2>1. Gains(E, E2, ex, n, Enters(k, e, i, a))
    BY <1>1, EntriesMore, Zenon
  <2> QED
    BY <2>1, Zenon DEF Gains
<1>4. /\ F \subseteq DOMAIN ex
      /\ Enters(k, e, i, a - 1) => F2 = F \union {n}
      /\ ~Enters(k, e, i, a - 1) => F2 = F
  <2>1. Gains(F, F2, ex, n, Enters(k, e, i, a - 1))
    BY <1>1, EntriesMore, Zenon
  <2> QED
    BY <2>1, Zenon DEF Gains
<1>5. IsFiniteSet(E)
  <2>1. n \in Nat /\ DOMAIN ex = 1..(n - 1)
    BY DEF OneStubMore
  <2> QED
    <3>1. IsFiniteSet(1..(n - 1)) /\ E \subseteq 1..(n - 1)
      BY <1>2, <2>1, FS_Interval
    <3> QED
      BY <3>1, FS_Subset, Zenon
<1>6. Cardinality(E) \in Nat /\ Cardinality(E \union {n}) = Cardinality(E) + 1
  BY <1>2, <1>5, FS_CardinalityType, FS_AddElement
<1>7. /\ WorthOf(ex2, F) = WorthOf(ex, F) /\ WorthOf(ex, F) \in Int
      /\ WorthOf(ex2, F \union {n}) = Worth(e) + WorthOf(ex, F)
  <2>1. F \in SUBSET DOMAIN ex
    BY <1>4
  <2> QED
    BY <2>1, WorthMore DEF WorthGains
<1>8. Due(k, ex, i, a) = Cardinality(E) + WorthOf(ex, F) /\ Due(k, ex2, i, a) = Cardinality(E2) + WorthOf(ex2, F2)
  BY <1>1, Zenon DEF Due
<1>9. Worth(e) \in Int
  BY DEF Worths, OneStubMore
<1> QED
  <2>1. PICK c \in Nat : c = Cardinality(E) /\ Cardinality(E \union {n}) = c + 1
    BY <1>6
  <2>2. PICK w \in Int, d \in Int : /\ w = WorthOf(ex, F) /\ WorthOf(ex2, F) = w /\ d = Worth(e)
                                  /\ WorthOf(ex2, F \union {n}) = d + w
    BY <1>7, <1>9
  <2>3. Due(k, ex, i, a) = c + w
    BY <1>8, <2>1, <2>2
  <2>4. ~Enters(k, e, i, a) => Cardinality(E2) = c
    BY <1>2, <2>1
  <2>5. Enters(k, e, i, a) => Cardinality(E2) = c + 1
    BY <1>2, <2>1
  <2>6. ~Enters(k, e, i, a - 1) => WorthOf(ex2, F2) = w
    BY <1>4, <2>2, Zenon
  <2>7. Enters(k, e, i, a - 1) => WorthOf(ex2, F2) = d + w
    BY <1>4, <2>2, Zenon
  <2> QED
    BY <1>8, <2>2, <2>3, <2>4, <2>5, <2>6, <2>7

CoresWith(k, isVec) == {core \in KernelCores(k) : (core.sub # "cube0") = isVec}
MadStubs(k) == [core : CoresWith(k, FALSE), mad : Mads]
ThreadStubs(k) == [core : CoresWith(k, TRUE), thread : 0..MaxThreads, type : SimtTypes]
OperandStubs(k) == MadStubs(k) \union ThreadStubs(k)

LEMMA MadStub ==
  ASSUME NEW k, NEW e \in MadStubs(k)
  PROVE  /\ DOMAIN e = {"core", "mad"} /\ e.core \in CoresWith(k, FALSE) /\ e.mad \in Mads
         /\ IsMad(e) /\ TableOf(e) = 0 /\ TypeIn(e) = e.mad.type /\ e.mad.type \in Types
         /\ Worth(e) = MmadOperands(e.mad) /\ Worth(e) \in Int
<1>1. DOMAIN e = {"core", "mad"} /\ e.core \in CoresWith(k, FALSE) /\ e.mad \in Mads
  BY DEF MadStubs
<1>2. IsMad(e)
  BY <1>1 DEF IsMad
<1>3. e.mad.type \in Types
  BY <1>1, MadsAssumption DEF Types
<1>4. MmadOperands(e.mad) \in Int
  BY <1>1, FlopsAre
<1> QED
  BY <1>1, <1>2, <1>3, <1>4 DEF TableOf, TypeIn, Worth

LEMMA ThreadStub ==
  ASSUME NEW k, NEW e \in ThreadStubs(k)
  PROVE  /\ DOMAIN e = {"core", "thread", "type"} /\ e.core \in CoresWith(k, TRUE)
         /\ e.thread \in Nat /\ e.type \in Types
         /\ ~IsMad(e) /\ TableOf(e) = e.thread + 1 /\ TypeIn(e) = e.type /\ Worth(e) = 1
<1>1. /\ DOMAIN e = {"core", "thread", "type"} /\ e.core \in CoresWith(k, TRUE)
      /\ e.thread \in 0..MaxThreads /\ e.type \in SimtTypes
  BY DEF ThreadStubs
<1>2. ~IsMad(e)
  BY <1>1 DEF IsMad
<1>3. e.type \in Types /\ e.thread \in Nat
  BY <1>1, LenFacts DEF SimtTypes
<1> QED
  BY <1>1, <1>2, <1>3 DEF TableOf, TypeIn, Worth

LEMMA OperandStub ==
  ASSUME NEW k, NEW e \in OperandStubs(k)
  PROVE  TableOf(e) \in Nat /\ TypeIn(e) \in Types /\ Worth(e) \in Int
<1>1. CASE e \in MadStubs(k)
  <2>1. TableOf(e) = 0 /\ TypeIn(e) = e.mad.type /\ e.mad.type \in Types /\ Worth(e) \in Int
    BY <1>1, MadStub, Zenon
  <2> QED
    BY <2>1
<1>2. CASE e \in ThreadStubs(k)
  <2>1. /\ e.thread \in Nat /\ TableOf(e) = e.thread + 1
        /\ TypeIn(e) = e.type /\ e.type \in Types /\ Worth(e) = 1
    BY <1>2, ThreadStub, Zenon
  <2> QED
    BY <2>1
<1> QED
  BY <1>1, <1>2 DEF OperandStubs

(* What AccumulateData stores.                                              *)
Added(cache, mem, offset, worth) ==
  [a \in {offset, offset + 1} |-> Held(cache, mem, a) + (IF a = offset THEN 1 ELSE worth)]

LEMMA OwnLine ==
  ASSUME NEW words, NEW a \in words, a \in Nat
  PROVE  a \in CacheLines(words)
<1>1. PICK n \in Nat \ {0} : n = LineWords
  BY LenFacts
<1>2. a = n * (a \div n) + (a % n) /\ a % n \in 0..(n - 1) /\ a \div n \in Nat
  BY <1>1, Z3
<1>3. PICK p \in Nat : p = n * (a \div n)
  BY <1>2
<1>4. a \in p..(p + n - 1)
  BY <1>2, <1>3
<1> QED
  BY <1>1, <1>3, <1>4 DEF CacheLines

LEMMA AccumulateIs ==
  ASSUME NEW i, NEW offset \in Nat, NEW worth, AccumulateData(i, offset, worth)
  PROVE  dataCaches' = [dataCaches EXCEPT ![i] =
                          AfterStore(Added(dataCaches[i], gm, offset, worth), dataCaches[i], gm)]
<1>1. PICK words : words = {offset, offset + 1}
  OBVIOUS
<1>2. PICK held : held = Cached(i, words)
  OBVIOUS
<1>3. PICK values : values = [a \in words |-> held[a] + (IF a = offset THEN 1 ELSE worth)]
  OBVIOUS
<1>4. dataCaches' = [dataCaches EXCEPT ![i] = Over(values, Cached(i, DOMAIN values))]
  BY <1>1, <1>2, <1>3, Zenon DEF AccumulateData, StoreWords
<1>5. ASSUME NEW a \in words PROVE held[a] = Held(dataCaches[i], gm, a)
  <2>1. a \in CacheLines(words)
    BY <1>1, OwnLine
  <2>2. PICK lines : lines = [w \in CacheLines(words) |-> Word(gm, w)]
    OBVIOUS
  <2>3. held = Over(dataCaches[i], lines)
    BY <1>2, <2>2 DEF Cached
  <2>4. lines[a] = Word(gm, a) /\ a \in DOMAIN lines
    BY <2>1, <2>2
  <2> QED
    BY <2>3, <2>4 DEF Over, Held
<1>6. values = [a \in words |-> Held(dataCaches[i], gm, a) + (IF a = offset THEN 1 ELSE worth)]
  BY <1>3, <1>5
<1>7. values = Added(dataCaches[i], gm, offset, worth)
  BY <1>1, <1>6 DEF Added
<1>8. Over(values, Cached(i, DOMAIN values)) = AfterStore(values, dataCaches[i], gm)
  BY DEF AfterStore, Cached
<1> QED
  BY <1>4, <1>7, <1>8, Zenon

(* A stub of the probe "operands", with or without a place in the buffer.   *)
LEMMA AccumulateCoherent ==
  ASSUME NEW k, k.probe = "operands", NEW ex, NEW ex2, NEW e, NEW n, OneStubMore(ex, ex2, e, n), Worths(ex2),
         NEW caches, NEW caches2, NEW mem, Blocks \subseteq DOMAIN caches, Coherent(k, ex, caches, mem),
         TableOf(e) \in Nat, TypeIn(e) \in Types, NEW i, i = IndexOf(k, e.core), i \in Nat,
         IF i \in Blocks /\ TableOf(e) <= MaxThreads
         THEN caches2 = [caches EXCEPT ![i] =
                           AfterStore(Added(caches[i], mem, OperandOffset(i, TableOf(e), TypeIn(e)), Worth(e)),
                                  caches[i], mem)]
         ELSE caches2 = caches
  PROVE  Coherent(k, ex2, caches2, mem)
<1>1. \A j, a : j # i => ~Enters(k, e, j, a)
  BY DEF Enters
<1>2. \A j : j # i => \A a \in Nat : Due(k, ex2, j, a) = Due(k, ex, j, a)
  BY <1>1, DueMore
<1>3. CASE i \in Blocks /\ TableOf(e) <= MaxThreads
  <2>1. PICK offset : offset = OperandOffset(i, TableOf(e), TypeIn(e))
    OBVIOUS
  <2>2. PICK values : values = Added(caches[i], mem, offset, Worth(e))
    OBVIOUS
  <2>3. caches2 = [caches EXCEPT ![i] = AfterStore(values, caches[i], mem)]
    BY <1>3, <2>1, <2>2
  <2>4. TableOf(e) \in 0..MaxThreads /\ i \in Nat
    BY <1>3, LenFacts
  <2>5. offset \in Nat /\ Near(k, i, offset) /\ Near(k, i, offset + 1)
    BY <2>1, <2>4, OffsetNear
  <2>6. DOMAIN values = {offset, offset + 1}
    BY <2>2 DEF Added
  <2>7. \A a : Enters(k, e, i, a) <=> a = offset
    BY <1>3, <2>1 DEF Enters
  <2>8. /\ Held(caches[i], mem, offset) = Due(k, ex, i, offset)
        /\ Held(caches[i], mem, offset + 1) = Due(k, ex, i, offset + 1)
    BY <1>3, <2>5 DEF Coherent
  <2>9. values[offset] = Due(k, ex2, i, offset)
    <3>1. values[offset] = Held(caches[i], mem, offset) + 1
      BY <2>2 DEF Added
    <3>2. Enters(k, e, i, offset) /\ ~Enters(k, e, i, offset - 1)
      BY <2>5, <2>7
    <3>3. Due(k, ex2, i, offset) = Due(k, ex, i, offset) + 1
      BY <3>2, DueMore
    <3> QED
      BY <2>8, <3>1, <3>3
  <2>10. values[offset + 1] = Due(k, ex2, i, offset + 1)
    <3>1. values[offset + 1] = Held(caches[i], mem, offset + 1) + Worth(e)
      BY <2>2, <2>5 DEF Added
    <3>2. PICK b : b = offset + 1
      OBVIOUS
    <3>3. b - 1 = offset /\ b # offset
      BY <2>5, <3>2
    <3>4. ~Enters(k, e, i, b) /\ Enters(k, e, i, b - 1)
      BY <2>7, <3>3
    <3>5. Due(k, ex2, i, b) = Due(k, ex, i, b) + Worth(e)
      BY <3>4, DueMore
    <3> QED
      BY <2>8, <3>1, <3>2, <3>5
  <2>11. ASSUME NEW a, Near(k, i, a), a \notin DOMAIN values PROVE Due(k, ex2, i, a) = Due(k, ex, i, a)
    <3>1. a \in Nat
      BY <2>11 DEF Near
    <3>2. a # offset /\ a - 1 # offset
      BY <2>5, <2>6, <2>11, <3>1
    <3>3. ~Enters(k, e, i, a) /\ ~Enters(k, e, i, a - 1)
      BY <2>7, <3>2
    <3> QED
      BY <3>3, DueMore
  <2>12. \A a \in DOMAIN values : Due(k, ex2, i, a) = values[a]
    BY <2>6, <2>9, <2>10
  <2>14. \A a \in DOMAIN values : Near(k, i, a)
    BY <2>5, <2>6
  <2>15. \A a : Near(k, i, a) /\ a \notin DOMAIN values => Due(k, ex2, i, a) = Due(k, ex, i, a)
    BY <2>11
  <2>13. \A j \in Blocks : j # i => \A a \in Nat : Due(k, ex2, j, a) = Due(k, ex, j, a)
    BY <1>2
  <2> QED
    <3>1. FallsDue(k, ex, ex2, i, values)
      BY <2>12, <2>13, <2>14, <2>15 DEF FallsDue
    <3>2. Stores(caches, caches2, i, values, mem)
      BY <2>3 DEF Stores
    <3> QED
      BY <1>3, <3>1, <3>2, StoreCoherent, Zenon
<1>4. CASE ~(i \in Blocks /\ TableOf(e) <= MaxThreads)
  <2>1. caches2 = caches
    BY <1>4
  <2>2. ASSUME NEW j \in Blocks, NEW a, Near(k, j, a) PROVE Due(k, ex2, j, a) = Due(k, ex, j, a)
    <3>1. ~Enters(k, e, j, a) /\ ~Enters(k, e, j, a - 1)
      BY <1>1, <1>4 DEF Enters
    <3> QED
      BY <3>1, DueMore
  <2>3. Coherent(k, ex2, caches, mem)
    BY <2>2, SameCoherent
  <2> QED
    BY <2>1, <2>3
<1> QED
  BY <1>3, <1>4

WarpStubs(k) == [core : CoresWith(k, TRUE), thread : 0..MaxThreads, isStart : BOOLEAN]

LEMMA MaxIs ==
  ASSUME NEW S, NEW m \in S, S \subseteq Nat, \A j \in S : j <= m
  PROVE  Max(S) = m
<1>1. ASSUME NEW x \in S, \A j \in S : x >= j PROVE x = m
  BY <1>1
<1>2. \E x \in S : \A j \in S : x >= j
  OBVIOUS
<1>3. Max(S) \in S /\ \A j \in S : Max(S) >= j
  BY <1>2 DEF Max
<1> QED
  BY <1>1, <1>3

(* The words a stub of a warp writes are words of its block.                *)
StampAt(k, i, e) ==
  \E h \in Nat, w \in Nat, d \in {0, 1} :
     /\ h = i * WarpBlockLen /\ w = e.thread \div WarpThreads /\ d = IF e.isStart THEN 0 ELSE 1
     /\ StampWord(i, e) = h + 3 + 2 * w + d
     /\ BlockStart(k, i) = h /\ BlockStart(k, i + 1) = h + WarpBlockLen
     /\ w < WarpsPerBlock

LEMMA StampWordsAre ==
  ASSUME NEW k, k.probe = "warps", NEW i \in Nat, NEW e, e.thread \in Nat, Notes(e)
  PROVE  StampAt(k, i, e)
<1>1. PICK len : len = WarpBlockLen /\ len \in Nat
  BY LenFacts
<1>2. PICK h \in Nat, g \in Nat : h = i * len /\ g = (i + 1) * len /\ g = h + len
  BY <1>1, Multiples
<1>3. PICK w : w = e.thread \div WarpThreads
  OBVIOUS
<1>4. w \in Nat /\ w < WarpsPerBlock
  <2>1. PICK t \in Nat, n \in Nat \ {0} : t = e.thread /\ n = WarpThreads
    BY LenFacts
  <2>2. t \div n \in Nat
    BY Z3
  <2> QED
    BY <1>3, <2>1, <2>2 DEF Notes
<1>5. PICK d \in {0, 1} : d = IF e.isStart THEN 0 ELSE 1
  OBVIOUS
<1>6. StampWord(i, e) = h + 3 + 2 * w + d
  BY <1>1, <1>2, <1>3, <1>5, Zenon DEF StampWord, WarpOffset, WarpHeader
<1>7. BlockStart(k, i) = h /\ BlockStart(k, i + 1) = g
  BY <1>1, <1>2, Zenon DEF BlockStart
<1>8. g = h + len
  BY <1>2
<1> QED
  BY <1>1, <1>2, <1>3, <1>4, <1>5, <1>6, <1>7, <1>8, Zenon DEF StampAt

LEMMA StampNear ==
  ASSUME NEW k, k.probe = "warps", NEW i \in Nat, NEW e, e.thread \in Nat, Notes(e), NEW a \in StampWords(i, e)
  PROVE  Near(k, i, a)
<1>1. PICK h \in Nat, w \in Nat, d \in {0, 1} :
           /\ h = i * WarpBlockLen /\ w = e.thread \div WarpThreads /\ d = IF e.isStart THEN 0 ELSE 1
           /\ StampWord(i, e) = h + 3 + 2 * w + d
           /\ BlockStart(k, i) = h /\ BlockStart(k, i + 1) = h + WarpBlockLen
           /\ w < WarpsPerBlock
  <2>1. StampAt(k, i, e)
    BY StampWordsAre
  <2> QED
    BY <2>1, Zenon DEF StampAt
<1>2. PICK p \in Nat : WarpsPerBlock = p /\ WarpBlockLen = 3 + 2 * p + Gap /\ Gap \in Nat \ {0}
  BY LenFacts
<1>3. a \in {h, h + 1, h + 2, h + 3 + 2 * w + d}
  BY <1>1, Zenon DEF StampWords
<1>4. BlockStart(k, i + 1) - Gap - 1 = h + 2 + 2 * p
  BY <1>1, <1>2
<1>5. a \in Nat /\ h <= a /\ a <= h + 2 + 2 * p
  BY <1>1, <1>2, <1>3
<1>6. a \in BlockWords(k, i)
  BY <1>1, <1>4, <1>5 DEF BlockWords
<1> QED
  BY <1>5, <1>6 DEF Near

Stamps(k, e, i, a) == IndexOf(k, e.core) = i /\ Notes(e) /\ a \in StampWords(i, e)

LEMMA StampingsMore ==
  ASSUME NEW k, NEW ex, NEW ex2, NEW e, NEW n, OneStubMore(ex, ex2, e, n), NEW i, NEW a
  PROVE  Gains(Stampings(k, ex, i, a), Stampings(k, ex2, i, a), ex, n, Stamps(k, e, i, a))
<1>1. PICK E : E = Stampings(k, ex, i, a)
  OBVIOUS
<1>2. PICK E2 : E2 = Stampings(k, ex2, i, a)
  OBVIOUS
<1>3. \A j : j \in E <=> j \in DOMAIN ex /\ Stamps(k, ex[j], i, a)
  BY <1>1 DEF Stampings, Stamps
<1>4. \A j : j \in E2 <=> j \in DOMAIN ex2 /\ Stamps(k, ex2[j], i, a)
  BY <1>2 DEF Stampings, Stamps
<1>5. \A j \in 1..(n - 1) : j \in DOMAIN ex /\ j \in DOMAIN ex2 /\ ex2[j] = ex[j]
  BY DEF OneStubMore
<1>6. n \in DOMAIN ex2 /\ ex2[n] = e /\ n \notin DOMAIN ex
  BY DEF OneStubMore
<1>7. \A j \in DOMAIN ex2 : j = n \/ j \in 1..(n - 1)
  BY DEF OneStubMore
<1>8. \A j : j \in E2 <=> j \in E \/ (j = n /\ Stamps(k, e, i, a))
  <2>1. DOMAIN ex = 1..(n - 1)
    BY DEF OneStubMore
  <2> QED
    BY <1>3, <1>4, <1>5, <1>6, <1>7, <2>1
<1>9. E \subseteq DOMAIN ex /\ n \notin E
  BY <1>3, <1>6
<1>10. Stamps(k, e, i, a) => E2 = E \union {n}
  BY <1>8
<1>11. ~Stamps(k, e, i, a) => E2 = E
  BY <1>8
<1>12. Gains(E, E2, ex, n, Stamps(k, e, i, a))
  BY <1>9, <1>10, <1>11 DEF Gains
<1> QED
  BY <1>1, <1>2, <1>12, Zenon

LEMMA StampDue ==
  ASSUME NEW k, k.probe = "warps", NEW ex, NEW ex2, NEW e, NEW n, OneStubMore(ex, ex2, e, n), NEW i, NEW a
  PROVE  /\ Stamps(k, e, i, a) => Due(k, ex2, i, a) = Stamped(i, a, n)
         /\ ~Stamps(k, e, i, a) => Due(k, ex2, i, a) = Due(k, ex, i, a)
<1>1. PICK E, E2 : E = Stampings(k, ex, i, a) /\ E2 = Stampings(k, ex2, i, a)
  OBVIOUS
<1>2. /\ E \subseteq DOMAIN ex
      /\ Stamps(k, e, i, a) => E2 = E \union {n}
      /\ ~Stamps(k, e, i, a) => E2 = E
  <2>1. Gains(E, E2, ex, n, Stamps(k, e, i, a))
    BY <1>1, StampingsMore, Zenon
  <2> QED
    BY <2>1, Zenon DEF Gains
<1>3. /\ Due(k, ex, i, a) = IF E = {} THEN 0 ELSE Stamped(i, a, Max(E))
      /\ Due(k, ex2, i, a) = IF E2 = {} THEN 0 ELSE Stamped(i, a, Max(E2))
  BY <1>1, Zenon DEF Due
<1>4. ASSUME Stamps(k, e, i, a) PROVE Due(k, ex2, i, a) = Stamped(i, a, n)
  <2>1. DOMAIN ex = 1..(n - 1) /\ n \in Nat \ {0}
    BY DEF OneStubMore
  <2>2. n \in E2 /\ E2 \subseteq Nat /\ \A j \in E2 : j <= n
    BY <1>2, <1>4, <2>1
  <2>3. Max(E2) = n
    BY <2>2, MaxIs
  <2> QED
    BY <1>3, <2>2, <2>3
<1> QED
  BY <1>2, <1>3, <1>4, Zenon

(* A stub of the probe "warps", whether it notes the time or not.           *)
LEMMA StampCoherent ==
  ASSUME NEW k, k.probe = "warps", NEW ex, NEW ex2, NEW e, NEW n, OneStubMore(ex, ex2, e, n),
         NEW caches, NEW caches2, NEW mem, Blocks \subseteq DOMAIN caches, Coherent(k, ex, caches, mem),
         e.thread \in Nat, NEW i, i = IndexOf(k, e.core), i \in Nat,
         IF i \in Blocks /\ Notes(e)
         THEN Stores(caches, caches2, i, [a \in StampWords(i, e) |-> Stamped(i, a, n)], mem)
         ELSE caches2 = caches
  PROVE  Coherent(k, ex2, caches2, mem)
<1>1. \A j, a : j # i => ~Stamps(k, e, j, a)
  BY DEF Stamps
<1>2. \A j, a : j # i => Due(k, ex2, j, a) = Due(k, ex, j, a)
  BY <1>1, StampDue
<1>3. CASE i \in Blocks /\ Notes(e)
  <2>1. PICK values : values = [a \in StampWords(i, e) |-> Stamped(i, a, n)]
    OBVIOUS
  <2>2. DOMAIN values = StampWords(i, e) /\ \A a \in DOMAIN values : values[a] = Stamped(i, a, n)
    BY <2>1
  <2>3. \A a : Stamps(k, e, i, a) <=> a \in DOMAIN values
    BY <1>3, <2>2 DEF Stamps
  <2>4. \A a \in DOMAIN values : Near(k, i, a)
    BY <1>3, <2>2, StampNear
  <2>5. \A a \in DOMAIN values : Due(k, ex2, i, a) = values[a]
    BY <2>2, <2>3, StampDue
  <2>6. \A a : a \notin DOMAIN values => Due(k, ex2, i, a) = Due(k, ex, i, a)
    BY <2>3, StampDue
  <2>7. FallsDue(k, ex, ex2, i, values)
    BY <1>2, <2>4, <2>5, <2>6 DEF FallsDue
  <2>8. Stores(caches, caches2, i, values, mem)
    BY <1>3, <2>1
  <2> QED
    BY <1>3, <2>7, <2>8, StoreCoherent, Zenon
<1>4. CASE ~(i \in Blocks /\ Notes(e))
  <2>1. caches2 = caches
    BY <1>4
  <2>2. ASSUME NEW j \in Blocks, NEW a, Near(k, j, a) PROVE Due(k, ex2, j, a) = Due(k, ex, j, a)
    <3>1. ~Stamps(k, e, j, a)
      BY <1>1, <1>4 DEF Stamps
    <3> QED
      BY <3>1, StampDue
  <2>3. Coherent(k, ex2, caches, mem)
    BY <2>2, SameCoherent
  <2> QED
    BY <2>1, <2>3
<1> QED
  BY <1>3, <1>4

LEMMA IndexFacts ==
  ASSUME kernel \in Kernels, NEW core \in Cores
  PROVE  IndexOf(kernel, core) = BlockIndex(core) /\ BlockIndex(core) \in Nat
<1>1. IndexOf(kernel, core) = BlockIndex(core)
  BY DEF IndexOf, BlockIndex, GetBlockIdx, IsVec
<1>2. PICK b \in Nat : b = core.block
  BY CoreFacts
<1>3. b \div 2 \in Nat
  BY Z3
<1>4. kernel.opType \in {"MIX", "CUBE", "VECTOR"}
  BY CoreFacts
<1> QED
  BY <1>1, <1>2, <1>3, <1>4, IndexIs

(* A warp starts and ends once at most, and does not end before it starts.  *)
InTurn(ex) ==
  /\ \A m, n \in DOMAIN ex : ex[m] = ex[n] => m = n
  /\ \A n \in DOMAIN ex :
       ~ex[n].isStart => \E m \in DOMAIN ex : m < n /\ ex[m] = [ex[n] EXCEPT !.isStart = TRUE]

StubsTyped(k, ex) ==
  /\ k.probe = "operands" => ex \in Seq(OperandStubs(k))
  /\ k.probe = "warps" => ex \in Seq(WarpStubs(k)) /\ InTurn(ex)
FileSizes == {BufferSize, BufferSize - 1, BufferSize - OperandBlockLen}

BufferInv ==
  /\ kernel \in Kernels /\ Blocks \subseteq DOMAIN dataCaches
  /\ StubsTyped(kernel, executed)
  /\ Coherent(kernel, executed, dataCaches, gm)
  /\ fileSize \in FileSizes \union {-1}
  /\ FileRead => /\ \A i \in DOMAIN dataCaches : DOMAIN dataCaches[i] = {}
                 /\ kernel.probe # "operands" => fileSize = BufferSize

LEMMA NothingDue ==
  ASSUME NEW k, NEW i, NEW a
  PROVE  Due(k, << >>, i, a) = 0
<1>1. Entries(k, << >>, i, a) = {} /\ Entries(k, << >>, i, a - 1) = {} /\ Stampings(k, << >>, i, a) = {}
  BY DEF Entries, Stampings
<1>2. WorthOf(<< >>, {}) = 0
  <2>1. WorthOf(<< >>, {}) = SumOver([j \in {} |-> Worth(<< >>[j])], {})
    BY Zenon DEF WorthOf, SumOver
  <2>2. PICK f : f = [j \in {} |-> Worth(<< >>[j])]
    OBVIOUS
  <2>3. f \in [{} -> Int] /\ IsFiniteSet({})
    BY <2>2, FS_EmptySet
  <2>4. SumOver(f, {}) = 0
    BY <2>3, SumOverEmpty
  <2> QED
    BY <2>1, <2>2, <2>4, Zenon
<1>3. Cardinality({}) = 0
  BY FS_EmptySet
<1>4. PICK x, y : x = Cardinality(Entries(k, << >>, i, a)) /\ y = WorthOf(<< >>, Entries(k, << >>, i, a - 1))
  OBVIOUS
<1>5. x = 0 /\ y = 0
  BY <1>1, <1>2, <1>3, <1>4
<1>6. x + y = 0
  BY <1>5
<1> QED
  BY <1>1, <1>4, <1>6, Zenon DEF Due

LEMMA BufferInit == CoreRecordInit => BufferInv
<1> SUFFICES ASSUME CoreRecordInit PROVE BufferInv
  OBVIOUS
<1>1. /\ kernel \in Kernels /\ gm = << >> /\ dataCaches = [i \in Indices |-> << >>]
      /\ executed = << >> /\ fileSize = -1
  BY DEF CoreRecordInit
<1>2. Blocks \subseteq DOMAIN dataCaches
  BY <1>1 DEF Blocks, Indices
<1>3. StubsTyped(kernel, executed)
  <2>1. DOMAIN executed = {}
    BY <1>1
  <2>2. InTurn(executed)
    BY <2>1 DEF InTurn
  <2>3. executed \in Seq(OperandStubs(kernel)) /\ executed \in Seq(WarpStubs(kernel))
    BY <1>1
  <2> QED
    BY <2>2, <2>3 DEF StubsTyped
<1>4. Coherent(kernel, executed, dataCaches, gm)
  <2>1. \A i \in DOMAIN dataCaches : DOMAIN dataCaches[i] = {}
    BY <1>1
  <2>2. DOMAIN gm = {}
    BY <1>1
  <2>3. ASSUME NEW i \in Blocks, NEW a PROVE Held(dataCaches[i], gm, a) = Due(kernel, executed, i, a)
    <3>1. DOMAIN dataCaches[i] = {}
      BY <1>2, <2>1
    <3>2. Held(dataCaches[i], gm, a) = 0
      BY <2>2, <3>1 DEF Held, Word
    <3> QED
      BY <1>1, <3>2, NothingDue, Zenon
  <2> QED
    BY <2>1, <2>2, <2>3 DEF Coherent
<1> QED
  BY <1>1, <1>2, <1>3, <1>4 DEF BufferInv, FileRead

(* A stub that keeps the memory coherent keeps all of it.                   *)
LEMMA ExecutesKeeps ==
  ASSUME BufferInv, NEW core, MayExecute(core), UNCHANGED <<kernel, gm, fileSize>>,
         Blocks \subseteq DOMAIN dataCaches',
         StubsTyped(kernel, executed'), Coherent(kernel, executed', dataCaches', gm)
  PROVE  BufferInv'
<1>1. fileSize' = -1
  BY DEF MayExecute
<1>2. ~FileRead'
  BY <1>1 DEF FileRead
<1>3. kernel' = kernel /\ gm' = gm /\ kernel \in Kernels
  BY DEF BufferInv
<1>4. StubsTyped(kernel', executed') /\ Coherent(kernel', executed', dataCaches', gm')
  BY <1>3, Zenon
<1>5. fileSize' \in FileSizes \union {-1}
  BY <1>1
<1> QED
  BY <1>2, <1>3, <1>4, <1>5, Zenon DEF BufferInv, FileSizes

LEMMA MoreStubsTyped ==
  ASSUME NEW S, NEW ex \in Seq(S), NEW e \in S
  PROVE  Append(ex, e) \in Seq(S)
  OBVIOUS

LEMMA WorthsOf ==
  ASSUME NEW k, NEW ex \in Seq(OperandStubs(k))
  PROVE  Worths(ex)
<1>1. ASSUME NEW j \in DOMAIN ex PROVE Worth(ex[j]) \in Int
  <2>1. ex[j] \in OperandStubs(k)
    OBVIOUS
  <2> QED
    BY <2>1, OperandStub
<1> QED
  BY <1>1 DEF Worths

LEMMA OperandKeeps ==
  ASSUME BufferInv, NEW core, MayExecute(core), UNCHANGED <<kernel, gm, fileSize>>,
         kernel.probe = "operands", NEW e \in OperandStubs(kernel), e.core = core, Executes(e),
         IF TryGetBlockIdx(core) /\ TableOf(e) <= MaxThreads
         THEN AccumulateData(BlockIndex(core), OperandOffset(BlockIndex(core), TableOf(e), TypeIn(e)), Worth(e))
         ELSE UNCHANGED dataCaches
  PROVE  BufferInv'
<1>1. kernel \in Kernels /\ core \in Cores
  BY DEF BufferInv, MayExecute
<1>2. PICK i \in Nat : i = BlockIndex(core) /\ i = IndexOf(kernel, e.core)
  BY <1>1, IndexFacts
<1>3. TableOf(e) \in Nat /\ TypeIn(e) \in Types
  BY OperandStub
<1>4. TryGetBlockIdx(core) <=> i \in Blocks
  BY <1>2, LenFacts DEF TryGetBlockIdx, Blocks
<1>5. executed \in Seq(OperandStubs(kernel)) /\ Blocks \subseteq DOMAIN dataCaches
      /\ Coherent(kernel, executed, dataCaches, gm)
  BY DEF BufferInv, StubsTyped
<1>6. executed' = Append(executed, e)
  BY DEF Executes
<1>7. executed' \in Seq(OperandStubs(kernel))
  BY <1>5, <1>6, MoreStubsTyped, Zenon
<1>8. Worths(executed')
  BY <1>7, WorthsOf
<1>9. PICK n : n = Len(executed) + 1
  OBVIOUS
<1>10. OneStubMore(executed, executed', e, n)
  BY <1>5, <1>6, <1>9, AppendedIs, Zenon
<1>11. PICK offset : offset = OperandOffset(i, TableOf(e), TypeIn(e))
  OBVIOUS
<1>12. ASSUME i \in Blocks, TableOf(e) <= MaxThreads
       PROVE  dataCaches' = [dataCaches EXCEPT ![i] =
                               AfterStore(Added(dataCaches[i], gm, offset, Worth(e)), dataCaches[i], gm)]
  <2>1. AccumulateData(i, offset, Worth(e))
    BY <1>2, <1>4, <1>11, <1>12
  <2>2. offset \in Nat
    <3>1. TableOf(e) \in 0..MaxThreads
      BY <1>3, <1>12, LenFacts
    <3>2. kernel.probe # "warps"
      OBVIOUS
    <3> QED
      BY <1>3, <1>11, <3>1, <3>2, OffsetNear
  <2> QED
    BY <2>1, <2>2, AccumulateIs
<1>13. ~(i \in Blocks /\ TableOf(e) <= MaxThreads) => dataCaches' = dataCaches
  BY <1>4
<1>14. IF i \in Blocks /\ TableOf(e) <= MaxThreads
       THEN dataCaches' = [dataCaches EXCEPT ![i] =
                             AfterStore(Added(dataCaches[i], gm, offset, Worth(e)), dataCaches[i], gm)]
       ELSE dataCaches' = dataCaches
  BY <1>12, <1>13, Zenon
<1>15. Coherent(kernel, executed', dataCaches', gm)
  BY <1>2, <1>3, <1>5, <1>8, <1>10, <1>11, <1>14, AccumulateCoherent, Zenon
<1>16. Blocks \subseteq DOMAIN dataCaches'
  <2>1. DOMAIN dataCaches' = DOMAIN dataCaches
    BY <1>14
  <2> QED
    BY <1>5, <2>1, Zenon
<1>17. StubsTyped(kernel, executed')
  BY <1>7 DEF StubsTyped
<1> QED
  BY <1>15, <1>16, <1>17, ExecutesKeeps

LEMMA MmadKeeps ==
  ASSUME BufferInv, NEW core \in Cores, NEW mad \in Mads, RecordMmadA5(core, mad)
  PROVE  BufferInv'
<1>1. PICK e : e = [core |-> core, mad |-> mad]
  OBVIOUS
<1>2. /\ kernel.probe = "operands" /\ MayExecute(core) /\ core.sub = "cube0"
      /\ UNCHANGED <<kernel, gm, fileSize>> /\ Executes(e)
  BY <1>1 DEF RecordMmadA5, IsVec
<1>3. e \in MadStubs(kernel) /\ e.core = core /\ e.mad = mad
  BY <1>1, <1>2 DEF MadStubs, CoresWith, Cores
<1>4. TableOf(e) = 0 /\ TypeIn(e) = mad.type /\ Worth(e) = MmadOperands(mad)
  BY <1>3, MadStub
<1>5. 0 <= MaxThreads
  BY LenFacts
<1>6. IF TryGetBlockIdx(core) /\ TableOf(e) <= MaxThreads
      THEN AccumulateData(BlockIndex(core), OperandOffset(BlockIndex(core), TableOf(e), TypeIn(e)), Worth(e))
      ELSE UNCHANGED dataCaches
  BY <1>4, <1>5 DEF RecordMmadA5
<1> QED
  BY <1>2, <1>3, <1>6, OperandKeeps DEF OperandStubs

LEMMA OperationKeeps ==
  ASSUME BufferInv, NEW core \in Cores, NEW thread \in 0..MaxThreads, NEW type \in SimtTypes,
         RecordOperandOperation(core, thread, type)
  PROVE  BufferInv'
<1>1. PICK e : e = [core |-> core, thread |-> thread, type |-> type]
  OBVIOUS
<1>2. /\ kernel.probe = "operands" /\ MayExecute(core) /\ kernel.opType = "VECTOR"
      /\ UNCHANGED <<kernel, gm, fileSize>> /\ Executes(e)
  BY <1>1 DEF RecordOperandOperation
<1>3. core.sub = "vector0"
  BY <1>2, CoreFacts DEF BufferInv
<1>4. e \in ThreadStubs(kernel) /\ e.core = core /\ e.thread = thread /\ e.type = type
  BY <1>1, <1>3 DEF ThreadStubs, CoresWith, Cores
<1>5. TableOf(e) = thread + 1 /\ TypeIn(e) = type /\ Worth(e) = 1
  BY <1>4, ThreadStub
<1>6. TryGetThreadId(thread) <=> TableOf(e) <= MaxThreads
  BY <1>5, LenFacts DEF TryGetThreadId
<1>7. IF TryGetBlockIdx(core) /\ TableOf(e) <= MaxThreads
      THEN AccumulateData(BlockIndex(core), OperandOffset(BlockIndex(core), TableOf(e), TypeIn(e)), Worth(e))
      ELSE UNCHANGED dataCaches
  BY <1>5, <1>6 DEF RecordOperandOperation
<1> QED
  BY <1>2, <1>4, <1>7, OperandKeeps DEF OperandStubs

LEMMA TurnsKept ==
  ASSUME NEW ex, NEW ex2, NEW e, NEW n, OneStubMore(ex, ex2, e, n), InTurn(ex),
         \A j \in DOMAIN ex : ex[j] # e,
         ~e.isStart => \E j \in DOMAIN ex : ex[j] = [e EXCEPT !.isStart = TRUE]
  PROVE  InTurn(ex2)
<1>1. /\ n \in Nat \ {0} /\ DOMAIN ex = 1..(n - 1) /\ DOMAIN ex2 = 1..n
      /\ ex2[n] = e /\ \A j \in 1..(n - 1) : ex2[j] = ex[j]
  BY DEF OneStubMore
<1>2. \A j \in DOMAIN ex2 : j = n \/ (j \in DOMAIN ex /\ j < n /\ ex2[j] = ex[j])
  BY <1>1
<1>3. \A j \in DOMAIN ex : j \in DOMAIN ex2 /\ j < n /\ ex2[j] = ex[j]
  BY <1>1
<1>4. ASSUME NEW x \in DOMAIN ex2, NEW y \in DOMAIN ex2, ex2[x] = ex2[y] PROVE x = y
  <2>1. CASE x = n /\ y = n
    BY <2>1
  <2>2. CASE x \in DOMAIN ex /\ y \in DOMAIN ex
    BY <1>3, <1>4, <2>2 DEF InTurn
  <2>3. CASE x = n /\ y \in DOMAIN ex
    BY <1>1, <1>3, <1>4, <2>3
  <2>4. CASE y = n /\ x \in DOMAIN ex
    BY <1>1, <1>3, <1>4, <2>4
  <2> QED
    BY <1>2, <2>1, <2>2, <2>3, <2>4
<1>5. ASSUME NEW x \in DOMAIN ex2, ~ex2[x].isStart
      PROVE  \E m \in DOMAIN ex2 : m < x /\ ex2[m] = [ex2[x] EXCEPT !.isStart = TRUE]
  <2>1. CASE x = n
    <3>1. PICK j \in DOMAIN ex : ex[j] = [e EXCEPT !.isStart = TRUE]
      BY <1>1, <1>5, <2>1
    <3> QED
      BY <1>1, <1>3, <2>1, <3>1
  <2>2. CASE x \in DOMAIN ex
    <3>1. ex2[x] = ex[x] /\ ~ex[x].isStart
      BY <1>3, <1>5, <2>2
    <3>2. PICK m \in DOMAIN ex : m < x /\ ex[m] = [ex[x] EXCEPT !.isStart = TRUE]
      BY <2>2, <3>1, Zenon DEF InTurn
    <3> QED
      BY <1>3, <3>1, <3>2, Zenon
  <2> QED
    BY <1>2, <2>1, <2>2
<1> QED
  BY <1>4, <1>5, Zenon DEF InTurn

StampValues(i, e, n) == [a \in StampWords(i, e) |-> Stamped(i, a, n)]

LEMMA WarpStores ==
  ASSUME NEW e, DumpWarpTimestamp(e.core, e.thread, e.isStart),
         GetLaneId(e.thread) = 0, GetWarpBasicInfo(e.core, e.thread)
  PROVE  StoreWords(BlockIndex(e.core), StampValues(BlockIndex(e.core), e, Clock))
  BY Zenon DEF DumpWarpTimestamp, StampValues, Stamped, StampWords, StampWord

LEMMA WarpKeeps ==
  ASSUME BufferInv, NEW core \in Cores, NEW thread \in 0..MaxThreads, NEW isStart \in BOOLEAN,
         DumpWarpTimestamp(core, thread, isStart)
  PROVE  BufferInv'
<1>1. PICK e : e = [core |-> core, thread |-> thread, isStart |-> isStart]
  OBVIOUS
<1>2. /\ kernel.probe = "warps" /\ MayExecute(core) /\ core.sub # "cube0"
      /\ \A j \in DOMAIN executed : executed[j] # e
      /\ UNCHANGED <<kernel, gm, fileSize>> /\ Executes(e)
  BY <1>1 DEF DumpWarpTimestamp, IsVec
<1>3. ~isStart => \E j \in DOMAIN executed : executed[j] = [e EXCEPT !.isStart = TRUE]
  BY <1>1, Zenon DEF DumpWarpTimestamp
<1>4. e \in WarpStubs(kernel) /\ e.core = core /\ e.thread = thread /\ e.isStart = isStart
  BY <1>1, <1>2 DEF WarpStubs, CoresWith, Cores
<1>5. thread \in Nat
  BY LenFacts
<1>6. kernel \in Kernels
  BY DEF BufferInv
<1>7. PICK i \in Nat : i = BlockIndex(core) /\ i = IndexOf(kernel, e.core)
  BY <1>4, <1>6, IndexFacts
<1>8. TryGetBlockIdx(core) <=> i \in Blocks
  BY <1>7, LenFacts DEF TryGetBlockIdx, Blocks
<1>9. /\ executed \in Seq(WarpStubs(kernel)) /\ InTurn(executed) /\ Blocks \subseteq DOMAIN dataCaches
      /\ Coherent(kernel, executed, dataCaches, gm)
  BY <1>2 DEF BufferInv, StubsTyped
<1>10. executed' = Append(executed, e)
  BY <1>2 DEF Executes
<1>11. executed' \in Seq(WarpStubs(kernel))
  BY <1>4, <1>9, <1>10, MoreStubsTyped, Zenon
<1>12. PICK n : n = Len(executed) + 1
  OBVIOUS
<1>13. OneStubMore(executed, executed', e, n)
  BY <1>9, <1>10, <1>12, AppendedIs, Zenon
<1>14. InTurn(executed')
  BY <1>2, <1>3, <1>4, <1>9, <1>13, TurnsKept, Zenon
<1>15. (GetLaneId(thread) = 0 /\ GetWarpBasicInfo(core, thread)) <=> (i \in Blocks /\ Notes(e))
  BY <1>4, <1>8 DEF GetWarpBasicInfo, Notes
<1>16. ASSUME i \in Blocks, Notes(e)
       PROVE  Stores(dataCaches, dataCaches', i, [a \in StampWords(i, e) |-> Stamped(i, a, n)], gm)
  <2>1. BlockIndex(core) = i /\ core = e.core /\ thread = e.thread /\ isStart = e.isStart /\ Clock = n
    BY <1>4, <1>7, <1>12 DEF Clock
  <2>2. PICK values : values = StampValues(i, e, n)
    OBVIOUS
  <2>3. GetLaneId(thread) = 0 /\ GetWarpBasicInfo(core, thread)
    BY <1>15, <1>16
  <2>4. DumpWarpTimestamp(e.core, e.thread, e.isStart) /\ GetLaneId(e.thread) = 0 /\ GetWarpBasicInfo(e.core, e.thread)
    BY <2>1, <2>3, Zenon
  <2>5. StoreWords(i, values)
    BY <2>1, <2>2, <2>4, WarpStores, Zenon
  <2>6. dataCaches' = [dataCaches EXCEPT ![i] = Over(values, Cached(i, DOMAIN values))]
    BY <2>5, Zenon DEF StoreWords
  <2>7. Over(values, Cached(i, DOMAIN values)) = AfterStore(values, dataCaches[i], gm)
    BY DEF AfterStore, Cached
  <2> QED
    BY <1>9, <2>2, <2>6, <2>7, Zenon DEF Stores, StampValues
<1>17. ~(i \in Blocks /\ Notes(e)) => dataCaches' = dataCaches
  BY <1>15 DEF DumpWarpTimestamp
<1>18. IF i \in Blocks /\ Notes(e)
       THEN Stores(dataCaches, dataCaches', i, [a \in StampWords(i, e) |-> Stamped(i, a, n)], gm)
       ELSE dataCaches' = dataCaches
  BY <1>16, <1>17, Zenon
<1>19. Coherent(kernel, executed', dataCaches', gm)
  BY <1>2, <1>4, <1>5, <1>7, <1>9, <1>13, <1>18, StampCoherent, Zenon
<1>20. Blocks \subseteq DOMAIN dataCaches'
  <2>1. DOMAIN dataCaches' = DOMAIN dataCaches
    BY <1>18 DEF Stores
  <2> QED
    BY <1>9, <2>1, Zenon
<1>21. StubsTyped(kernel, executed')
  BY <1>2, <1>11, <1>14 DEF StubsTyped
<1> QED
  BY <1>2, <1>19, <1>20, <1>21, ExecutesKeeps

LEMMA MemoryKeeps ==
  ASSUME BufferInv, NEW core, NEW event, NEW len, NEW log, Logging(core, event, len, log)
  PROVE  BufferInv'
<1>1. /\ kernel.probe = "memory" /\ MayExecute(core)
      /\ UNCHANGED <<kernel, gm, fileSize>> /\ dataCaches' = dataCaches
  BY DEF Logging
<1>2. \A i, a : Due(kernel, executed', i, a) = 0 /\ Due(kernel, executed, i, a) = 0
  BY <1>1 DEF Due
<1>3. \A i \in Blocks : \A a : Near(kernel, i, a) => Due(kernel, executed', i, a) = Due(kernel, executed, i, a)
  BY <1>2
<1>4. Coherent(kernel, executed, dataCaches, gm) /\ Blocks \subseteq DOMAIN dataCaches
  BY DEF BufferInv
<1>5. Coherent(kernel, executed', dataCaches, gm)
  BY <1>3, <1>4, SameCoherent
<1>6. Coherent(kernel, executed', dataCaches', gm) /\ Blocks \subseteq DOMAIN dataCaches'
  BY <1>1, <1>4, <1>5, Zenon
<1>7. StubsTyped(kernel, executed')
  BY <1>1 DEF StubsTyped
<1> QED
  BY <1>1, <1>6, <1>7, ExecutesKeeps

LEMMA FlushKeeps ==
  ASSUME BufferInv, NEW i \in DOMAIN dataCaches, Flush(i)
  PROVE  BufferInv'
<1>1. /\ kernel' = kernel /\ executed' = executed /\ fileSize' = fileSize /\ DOMAIN dataCaches[i] # {}
      /\ gm' = Over(dataCaches[i], gm) /\ dataCaches' = [dataCaches EXCEPT ![i] = << >>]
  BY DEF Flush
<1>2. ~FileRead
  BY <1>1 DEF BufferInv
<1>3. /\ kernel \in Kernels /\ Blocks \subseteq DOMAIN dataCaches /\ StubsTyped(kernel, executed)
      /\ Coherent(kernel, executed, dataCaches, gm) /\ fileSize \in FileSizes \union {-1}
  BY DEF BufferInv
<1>4. Coherent(kernel, executed, dataCaches', gm')
  BY <1>1, <1>3, FlushCoherent
<1>5. DOMAIN dataCaches' = DOMAIN dataCaches
  BY <1>1
<1>6. ~FileRead'
  BY <1>1, <1>2 DEF FileRead
<1>7. /\ kernel' \in Kernels /\ Blocks \subseteq DOMAIN dataCaches' /\ StubsTyped(kernel', executed')
      /\ Coherent(kernel', executed', dataCaches', gm') /\ fileSize' \in FileSizes \union {-1}
  BY <1>1, <1>3, <1>4, <1>5, Zenon
<1> QED
  BY <1>6, <1>7, Zenon DEF BufferInv, FileSizes

LEMMA ReadKeeps ==
  ASSUME BufferInv, NEW size \in FileSizes, ReadFile(size)
  PROVE  BufferInv'
<1>1. /\ kernel' = kernel /\ executed' = executed /\ dataCaches' = dataCaches /\ gm' = gm /\ fileSize' = size
      /\ \A i \in DOMAIN dataCaches : DOMAIN dataCaches[i] = {}
      /\ kernel.probe # "operands" => size = BufferSize
  BY DEF ReadFile
<1>2. /\ kernel \in Kernels /\ Blocks \subseteq DOMAIN dataCaches /\ StubsTyped(kernel, executed)
      /\ Coherent(kernel, executed, dataCaches, gm)
  BY DEF BufferInv
<1>3. /\ kernel' \in Kernels /\ Blocks \subseteq DOMAIN dataCaches' /\ StubsTyped(kernel', executed')
      /\ Coherent(kernel', executed', dataCaches', gm')
  BY <1>1, <1>2, Zenon
<1>4. fileSize' \in FileSizes \union {-1}
  BY <1>1
<1>5. /\ \A i \in DOMAIN dataCaches' : DOMAIN dataCaches'[i] = {}
      /\ kernel'.probe # "operands" => fileSize' = BufferSize
  BY <1>1
<1> QED
  BY <1>3, <1>4, <1>5, Zenon DEF BufferInv, FileSizes

LEMMA BufferNext == BufferInv /\ [CoreRecordNext]_coreRecordVars => BufferInv'
<1> SUFFICES ASSUME BufferInv, [CoreRecordNext]_coreRecordVars PROVE BufferInv'
  OBVIOUS
<1>1. ASSUME NEW core \in Cores, NEW mad \in Mads, RecordMmadA5(core, mad) PROVE BufferInv'
  BY <1>1, MmadKeeps
<1>2. ASSUME NEW core \in Cores, NEW thread \in 0..MaxThreads, NEW type \in SimtTypes,
             RecordOperandOperation(core, thread, type)
      PROVE  BufferInv'
  BY <1>2, OperationKeeps
<1>3. ASSUME NEW core \in Cores, NEW thread \in 0..MaxThreads, NEW isStart \in BOOLEAN,
             DumpWarpTimestamp(core, thread, isStart)
      PROVE  BufferInv'
  BY <1>3, WarpKeeps
<1>4. ASSUME NEW core \in Cores, NEW config \in {1, 2}, SetMte2NzPara(core, config) PROVE BufferInv'
  BY <1>4, MemoryKeeps DEF SetMte2NzPara
<1>5. ASSUME NEW core \in Cores, NEW move \in IF IsVec(core) THEN VecMoves ELSE CubeMoves, RecordEvent(core, move)
      PROVE  BufferInv'
  BY <1>5, MemoryKeeps DEF RecordEvent
<1>6. ASSUME NEW index \in DOMAIN dataCaches, Flush(index) PROVE BufferInv'
  BY <1>6, FlushKeeps
<1>7. ASSUME NEW size \in {BufferSize, BufferSize - 1, BufferSize - OperandBlockLen}, ReadFile(size)
      PROVE  BufferInv'
  BY <1>7, ReadKeeps DEF FileSizes
<1>8. CASE UNCHANGED coreRecordVars
  <2>1. /\ kernel' = kernel /\ executed' = executed /\ dataCaches' = dataCaches /\ gm' = gm
        /\ fileSize' = fileSize
    BY <1>8 DEF coreRecordVars
  <2> QED
    BY <2>1, Zenon DEF BufferInv, FileRead, FileSizes
<1> QED
  BY <1>1, <1>2, <1>3, <1>4, <1>5, <1>6, <1>7, <1>8 DEF CoreRecordNext

LEMMA BufferAlways == CoreRecordSpec => []BufferInv
<1>1. BufferInv /\ [CoreRecordNext]_coreRecordVars => BufferInv'
  BY BufferNext
<1> QED
  BY BufferInit, <1>1, PTL DEF CoreRecordSpec

(* When the file has been read the GM holds what is due.                    *)
LEMMA AllDue ==
  ASSUME BufferInv, FileRead, NEW i \in Blocks, NEW a, Near(kernel, i, a)
  PROVE  Word(gm, a) = Due(kernel, executed, i, a)
<1>1. Held(dataCaches[i], gm, a) = Due(kernel, executed, i, a)
  BY DEF BufferInv, Coherent
<1>2. DOMAIN dataCaches[i] = {}
  BY DEF BufferInv
<1>3. Held(dataCaches[i], gm, a) = Word(gm, a)
  BY <1>2 DEF Held
<1> QED
  BY <1>1, <1>3

LEMMA NearEnds ==
  ASSUME NEW k, NEW i \in Nat, NEW a, Near(k, i, a)
  PROVE  a < BlockStart(k, i + 1)
<1>1. PICK w \in BlockWords(k, i) : a \div LineWords = w \div LineWords
  BY DEF Near
<1>2. a \in Nat /\ BlockStart(k, i) \in Nat /\ BlockStart(k, i + 1) \in Nat
  BY BlockEnds DEF Near
<1>3. PICK n \in Nat : n = LineWords /\ n = Gap
  BY LenFacts
<1>4. w \in Nat /\ w <= BlockStart(k, i + 1) - n - 1
  BY <1>2, <1>3 DEF BlockWords
<1>5. ~(w + n <= a)
  BY <1>1, <1>2, <1>3, <1>4, LinesApart
<1> QED
  BY <1>2, <1>3, <1>4, <1>5

(* Nothing is written behind the buffer.                                    *)
LEMMA WithinBuffer ==
  ASSUME BufferInv, NEW a \in DOMAIN gm, gm[a] # 0
  PROVE  a < BlockStart(kernel, MaxBlock)
<1>1. PICK i \in Blocks : Near(kernel, i, a)
  BY DEF BufferInv, Coherent
<1>2. i \in Nat /\ i < MaxBlock /\ MaxBlock \in Nat /\ a \in Nat
  BY <1>1, LenFacts DEF Blocks, Near
<1>3. a < BlockStart(kernel, i + 1) /\ BlockStart(kernel, i + 1) \in Nat
  BY <1>1, <1>2, NearEnds, BlockEnds
<1>4. BlockStart(kernel, MaxBlock) \in Nat /\ BlockStart(kernel, i + 1) <= BlockStart(kernel, MaxBlock)
  <2>1. PICK len \in Nat \ {0}, first \in Nat :
           /\ BlockStart(kernel, i) = first /\ BlockStart(kernel, i + 1) = first + len
           /\ len > LineWords
           /\ \A j \in Nat : i < j => BlockStart(kernel, j) \in Nat /\ first + len <= BlockStart(kernel, j)
    BY <1>2, BlockFacts, Zenon
  <2> QED
    BY <1>2, <2>1
<1> QED
  BY <1>2, <1>3, <1>4

LEMMA BufferEnds ==
  BlockStart(kernel, MaxBlock) = IF kernel.probe = "warps" THEN MaxBlock * WarpBlockLen ELSE BufferSize
  BY Zenon DEF BlockStart, BufferSize

LEMMA SumOfOne ==
  ASSUME NEW x, NEW f \in [{x} -> Int]
  PROVE  SumFunction(f) = f[x]
<1>1. IsFiniteSet({x})
  BY FS_Singleton
<1>2. SumFunction(f) = SumOver(f, {x})
  BY SumOverAll
<1>3. PICK s : s = {}
  OBVIOUS
<1>4. s \in SUBSET {x} /\ x \notin s /\ s \union {x} = {x}
  BY <1>3
<1>5. SumOver(f, s \union {x}) = f[x] + SumOver(f, s)
  BY <1>1, <1>4, SumOverMore
<1>6. SumOver(f, s) = 0
  BY <1>1, <1>3, SumOverEmpty
<1>7. SumFunction(f) = f[x] + SumOver(f, s)
  BY <1>2, <1>4, <1>5, Zenon
<1> QED
  BY <1>6, <1>7

(* Ones sum up to a number of members.                                      *)
LEMMA SumOfOnes ==
  ASSUME NEW S, IsFiniteSet(S), NEW f, f = [x \in S |-> 1], NEW s \in SUBSET S
  PROVE  SumOver(f, s) = Cardinality(s)
<1>1. f \in [S -> Int] /\ \A x \in S : f[x] = 1
  OBVIOUS
<1> DEFINE T == {t \in SUBSET S : SumOver(f, t) = Cardinality(t)}
<1>2. {} \in T
  <2>1. SumOver(f, {}) = 0 /\ Cardinality({}) = 0
    BY <1>1, SumOverEmpty, FS_EmptySet
  <2> QED
    BY <2>1
<1>3. ASSUME NEW t \in SUBSET S, t # {}, \A x \in t : t \ {x} \in T PROVE t \in T
  <2>1. PICK x \in t : TRUE
    BY <1>3
  <2>2. PICK u : u = t \ {x}
    OBVIOUS
  <2>3. SumOver(f, u) = Cardinality(u) /\ x \in S
    BY <1>3, <2>2
  <2>4. IsFiniteSet(t)
    BY FS_Subset
  <2>5. Cardinality(t) \in Nat /\ Cardinality(u) = Cardinality(t) - 1
    BY <2>2, <2>4, FS_CardinalityType, FS_RemoveElement
  <2>6. SumOver(f, t) = f[x] + SumOver(f, u)
    BY <1>1, <2>2, SumOverMember
  <2> QED
    BY <1>1, <2>3, <2>5, <2>6
<1>4. \A t \in SUBSET S : t \in T
  <2> HIDE DEF T
  <2> QED
    BY <1>2, <1>3, SubsetInduction
<1> QED
  BY <1>4

(* What is counted at the entry of a table and a type.                      *)
WrittenBy(i, table, t) ==
  {n \in DOMAIN executed : /\ IndexOf(kernel, executed[n].core) = i
                           /\ TableOf(executed[n]) = table /\ TypeIn(executed[n]) = t}

LEMMA EntryIs ==
  ASSUME BufferInv, FileRead, kernel.probe = "operands",
         NEW i \in Blocks, NEW table \in 0..MaxThreads, NEW t \in Types
  PROVE  /\ Word(gm, OperandOffset(i, table, t)) = Cardinality(WrittenBy(i, table, t))
         /\ Word(gm, OperandOffset(i, table, t) + 1) = WorthOf(executed, WrittenBy(i, table, t))
         /\ Cardinality(WrittenBy(i, table, t)) \in Nat
         /\ WorthOf(executed, WrittenBy(i, table, t)) \in Int
<1>0. kernel.probe # "warps" /\ i \in Nat
  BY DEF Blocks
<1>1. PICK a \in Nat : a = OperandOffset(i, table, t) /\ Near(kernel, i, a) /\ Near(kernel, i, a + 1)
  BY <1>0, OffsetNear
<1>2. executed \in Seq(OperandStubs(kernel))
  BY DEF BufferInv, StubsTyped
<1>3. \A n \in DOMAIN executed : TableOf(executed[n]) \in Nat /\ TypeIn(executed[n]) \in Types
  <2>1. ASSUME NEW n \in DOMAIN executed PROVE TableOf(executed[n]) \in Nat /\ TypeIn(executed[n]) \in Types
    <3>1. executed[n] \in OperandStubs(kernel)
      BY <1>2
    <3> QED
      BY <3>1, OperandStub
  <2> QED
    BY <2>1
<1>4. MaxThreads \in Nat
  BY LenFacts
<1>5. Entries(kernel, executed, i, a) = WrittenBy(i, table, t)
  <2>1. ASSUME NEW n \in DOMAIN executed, TableOf(executed[n]) <= MaxThreads,
               OperandOffset(i, TableOf(executed[n]), TypeIn(executed[n])) = a
        PROVE  TableOf(executed[n]) = table /\ TypeIn(executed[n]) = t
    <3>1. TableOf(executed[n]) \in 0..MaxThreads
      BY <1>3, <1>4, <2>1
    <3> QED
      BY <1>0, <1>1, <1>3, <2>1, <3>1, EntriesApart
  <2>2. table <= MaxThreads
    BY <1>4
  <2>3. \A n : n \in Entries(kernel, executed, i, a) <=> n \in WrittenBy(i, table, t)
    BY <1>1, <2>1, <2>2 DEF Entries, WrittenBy
  <2> QED
    BY <2>3
<1>6. ASSUME NEW n \in DOMAIN executed, TableOf(executed[n]) <= MaxThreads
      PROVE  /\ OperandOffset(i, TableOf(executed[n]), TypeIn(executed[n])) # a - 1
             /\ OperandOffset(i, TableOf(executed[n]), TypeIn(executed[n])) # a + 1
  <2>1. TableOf(executed[n]) \in 0..MaxThreads /\ TypeIn(executed[n]) \in Types
    BY <1>3, <1>4, <1>6
  <2>2. PICK b : b = OperandOffset(i, TableOf(executed[n]), TypeIn(executed[n]))
    OBVIOUS
  <2>3. b \in Nat
    BY <1>0, <2>1, <2>2, OffsetNear
  <2>4. b + 1 # a
    BY <1>0, <1>1, <2>1, <2>2, EntriesApart
  <2>5. a + 1 # b
    BY <1>0, <1>1, <2>1, <2>2, EntriesApart
  <2> QED
    BY <2>2, <2>3, <2>4, <2>5
<1>7. Entries(kernel, executed, i, a - 1) = {} /\ Entries(kernel, executed, i, a + 1) = {}
  BY <1>6 DEF Entries
<1>8. Worths(executed)
  BY <1>2, WorthsOf
<1>9. IsFiniteSet(DOMAIN executed)
  BY <1>2, FS_Interval
<1>10. PICK f : f = [j \in DOMAIN executed |-> Worth(executed[j])]
  OBVIOUS
<1>11. f \in [DOMAIN executed -> Int]
  BY <1>8, <1>10 DEF Worths
<1>12. PICK s \in SUBSET DOMAIN executed : s = WrittenBy(i, table, t)
  BY DEF WrittenBy
<1>13. WorthOf(executed, s) \in Int
  BY <1>9, <1>10, <1>11, WorthIs, SumOverType
<1>14. WorthOf(executed, {}) = 0
  <2>1. PICK z \in SUBSET DOMAIN executed : z = {}
    OBVIOUS
  <2>2. WorthOf(executed, z) = SumOver(f, z)
    BY <1>10, WorthIs
  <2>3. SumOver(f, {}) = 0
    BY <1>9, <1>11, SumOverEmpty
  <2> QED
    BY <2>1, <2>2, <2>3
<1>15. Cardinality(s) \in Nat /\ Cardinality({}) = 0
  BY <1>9, FS_Subset, FS_CardinalityType, FS_EmptySet
<1>16. Word(gm, a) = Due(kernel, executed, i, a)
  BY <1>1, AllDue
<1>17. Word(gm, a + 1) = Due(kernel, executed, i, a + 1)
  BY <1>1, AllDue
<1>18. Due(kernel, executed, i, a) = Cardinality(s) + WorthOf(executed, {})
  BY <1>5, <1>7, <1>12, Zenon DEF Due
<1>19. Due(kernel, executed, i, a + 1) = Cardinality({}) + WorthOf(executed, s)
  <2>1. PICK b : b = a + 1
    OBVIOUS
  <2>2. b - 1 = a
    BY <2>1
  <2>3. Entries(kernel, executed, i, b) = {} /\ Entries(kernel, executed, i, b - 1) = s
    BY <1>5, <1>7, <1>12, <2>1, <2>2, Zenon
  <2> QED
    BY <2>1, <2>3, Zenon DEF Due
<1>20. Cardinality(s) + 0 = Cardinality(s) /\ 0 + WorthOf(executed, s) = WorthOf(executed, s)
  BY <1>13, <1>15
<1> QED
  BY <1>1, <1>12, <1>13, <1>14, <1>15, <1>16, <1>17, <1>18, <1>19, <1>20, Zenon

LEMMA HostIndexIs ==
  ASSUME kernel \in Kernels, NEW core \in Cores
  PROVE  HostIndex(core) = BlockIndex(core)
<1>1. PICK b \in Nat : b = core.block
  BY CoreFacts
<1>2. CASE kernel.opType = "MIX"
  <2>1. core.sub \in {"cube0", "vector0", "vector1"}
    BY <1>2, CoreFacts
  <2>2. BlockIndex(core) = 3 * b + (IF core.sub = "cube0" THEN 2 ELSE IF core.sub = "vector1" THEN 1 ELSE 0)
    BY <1>1, <1>2, IndexIs
  <2>3. HostIndex(core) = b * 3 + (IF IsVec(core) THEN VecIndex(core.sub) ELSE CubeIndex)
    BY <1>1, <1>2 DEF HostIndex, SubBlockDim
  <2> QED
    BY <2>1, <2>2, <2>3 DEF IsVec, VecIndex, CubeIndex
<1>3. CASE kernel.opType = "CUBE"
  <2>1. core.sub = "cube0" /\ BlockIndex(core) = 3 * b + 2
    BY <1>1, <1>3, CoreFacts, IndexIs
  <2> QED
    BY <1>1, <1>3, <2>1 DEF HostIndex, SubBlockDim, IsVec, CubeIndex
<1>4. CASE kernel.opType = "VECTOR"
  <2>1. BlockIndex(core) = b + b \div 2
    BY <1>1, <1>4, IndexIs
  <2>2. HostIndex(core) = (b \div 2) * 3 + (b % 2)
    BY <1>1, <1>4 DEF HostIndex, SubBlockDim, VecBlockDim
  <2>3. (b \div 2) * 3 + (b % 2) = b + b \div 2
    BY Z3
  <2> QED
    BY <2>1, <2>2, <2>3
<1> QED
  BY <1>2, <1>3, <1>4, CoreFacts

LEMMA BlocksOfFile ==
  ASSUME NEW len \in Nat \ {0}, NEW n \in Nat, NEW x, x = n * len
  PROVE  x \in Nat /\ x % len = 0 /\ x \div len = n
<1>1. x \in Nat
  OBVIOUS
<1>2. x % len = 0
  BY Z3
<1>3. x \div len = n
  BY Z3
<1> QED
  BY <1>1, <1>2, <1>3

(* The blocks the host finds in a file of each size.                        *)
LEMMA OperandBlocksAre ==
  /\ fileSize = BufferSize => OperandBlocks = MaxBlock
  /\ fileSize = BufferSize - OperandBlockLen => OperandBlocks = MaxBlock - 1
  /\ BufferSize # BufferSize - OperandBlockLen /\ BufferSize # BufferSize - 1
  /\ BufferSize - OperandBlockLen # BufferSize - 1
  /\ fileSize = BufferSize - 1 => OperandBlocks = 0
<1>1. PICK len \in Nat : len = OperandBlockLen /\ len > 1
  BY LenFacts
<1>2. PICK n \in Nat : n = MaxBlock - 1 /\ MaxBlock = n + 1
  BY LenFacts
<1>3. PICK x, y : x = MaxBlock * len /\ y = n * len /\ x \in Nat /\ y \in Nat /\ x = y + len
  BY <1>2, Multiples
<1>4. x % len = 0 /\ x \div len = n + 1 /\ y % len = 0 /\ y \div len = n
  <2>1. PICK m \in Nat : m = n + 1
    BY <1>2
  <2>2. x = m * len /\ y = n * len /\ len \in Nat \ {0}
    BY <1>1, <1>2, <1>3, <2>1
  <2>3. x % len = 0 /\ x \div len = m
    BY <2>2, BlocksOfFile, Zenon
  <2>4. y % len = 0 /\ y \div len = n
    BY <2>2, BlocksOfFile, Zenon
  <2> QED
    BY <2>1, <2>3, <2>4
<1>5. BufferSize = 1 + x
  BY <1>1, <1>3, Zenon DEF BufferSize, OperandHeader
<1>6. ASSUME fileSize = BufferSize PROVE OperandBlocks = MaxBlock
  <2>1. fileSize - 1 = x /\ ~(fileSize < 1)
    BY <1>3, <1>5, <1>6
  <2> QED
    BY <1>1, <1>2, <1>4, <2>1 DEF OperandBlocks, OperandHeader
<1>7. ASSUME fileSize = BufferSize - OperandBlockLen PROVE OperandBlocks = MaxBlock - 1
  <2>1. fileSize - 1 = y /\ ~(fileSize < 1)
    BY <1>1, <1>3, <1>5, <1>7
  <2> QED
    BY <1>1, <1>2, <1>4, <2>1 DEF OperandBlocks, OperandHeader
<1>8. ASSUME fileSize = BufferSize - 1 PROVE OperandBlocks = 0
  <2>1. fileSize - 1 = x - 1
    BY <1>3, <1>5, <1>8
  <2>2. (x - 1) % len = len - 1
    <3>1. x - 1 = (len - 1) + len * n
      BY <1>1, <1>3
    <3>2. ((len - 1) + len * n) % len = len - 1
      BY <1>1, Z3
    <3> QED
      BY <3>1, <3>2
  <2> QED
    BY <1>1, <2>1, <2>2 DEF OperandBlocks, OperandHeader
<1> QED
  BY <1>1, <1>3, <1>5, <1>6, <1>7, <1>8

(* A stub is of one kind or the other.                                      *)
LEMMA StubKinds ==
  ASSUME BufferInv, kernel.probe = "operands", NEW n \in DOMAIN executed
  PROVE  LET e == executed[n]
         IN /\ e.core \in Cores /\ TableOf(e) \in Nat /\ TypeIn(e) \in Types
            /\ "mad" \in DOMAIN e <=> TableOf(e) = 0
            /\ "type" \in DOMAIN e <=> TableOf(e) # 0
            /\ "mad" \in DOMAIN e => TypeIn(e) = e.mad.type /\ Worth(e) = Flops(e.mad) /\ ~IsVec(e.core)
            /\ "type" \in DOMAIN e => /\ TypeIn(e) = e.type /\ TableOf(e) = e.thread + 1 /\ Worth(e) = 1
                                      /\ e.thread \in Nat /\ IsVec(e.core)
<1>1. PICK e : e = executed[n]
  OBVIOUS
<1>2. e \in OperandStubs(kernel)
  BY <1>1 DEF BufferInv, StubsTyped
<1>3. CASE e \in MadStubs(kernel)
  <2>1. /\ DOMAIN e = {"core", "mad"} /\ e.core \in CoresWith(kernel, FALSE) /\ e.mad \in Mads
        /\ TableOf(e) = 0 /\ TypeIn(e) = e.mad.type /\ e.mad.type \in Types
        /\ Worth(e) = MmadOperands(e.mad)
    BY <1>3, MadStub
  <2>2. Worth(e) = Flops(e.mad)
    BY <2>1, FlopsAre
  <2>3. e.core \in Cores /\ ~IsVec(e.core)
    BY <2>1 DEF CoresWith, Cores, IsVec
  <2> QED
    BY <1>1, <2>1, <2>2, <2>3
<1>4. CASE e \in ThreadStubs(kernel)
  <2>1. /\ DOMAIN e = {"core", "thread", "type"} /\ e.core \in CoresWith(kernel, TRUE)
        /\ e.thread \in Nat /\ e.type \in Types
        /\ TableOf(e) = e.thread + 1 /\ TypeIn(e) = e.type /\ Worth(e) = 1
    BY <1>4, ThreadStub
  <2>2. e.core \in Cores /\ IsVec(e.core)
    BY <2>1 DEF CoresWith, Cores, IsVec
  <2> QED
    BY <1>1, <2>1, <2>2
<1> QED
  BY <1>2, <1>3, <1>4 DEF OperandStubs

(* What the code wrote to the tables of a core, whatever became of its file. *)
MadsBy(core, t) == {n \in Stubs(core, "mad") : executed[n].mad.type = t}
ThreadOpsBy(core, t) ==
  {n \in Stubs(core, "type") : executed[n].type = t /\ executed[n].thread < MaxThreads}

LEMMA OwnCore ==
  ASSUME BufferInv, kernel.probe = "operands", NEW core \in Cores, NEW n \in DOMAIN executed
  PROVE  IndexOf(kernel, executed[n].core) = BlockIndex(core) <=> executed[n].core = core
<1>1. PICK c \in Cores : c = executed[n].core
  BY StubKinds
<1>2. kernel \in Kernels
  BY DEF BufferInv
<1>3. IndexOf(kernel, c) = BlockIndex(c)
  BY <1>2, IndexFacts
<1> QED
  BY <1>1, <1>2, <1>3, OwnIndex

LEMMA MadsWritten ==
  ASSUME BufferInv, kernel.probe = "operands", NEW core \in Cores, NEW t \in Types
  PROVE  WrittenBy(BlockIndex(core), 0, t) = MadsBy(core, t)
<1>1. ASSUME NEW n \in DOMAIN executed
      PROVE  (TableOf(executed[n]) = 0 /\ TypeIn(executed[n]) = t)
               <=> ("mad" \in DOMAIN executed[n] /\ executed[n].mad.type = t)
  BY StubKinds
<1>2. \A n : n \in WrittenBy(BlockIndex(core), 0, t) <=> n \in MadsBy(core, t)
  BY <1>1, OwnCore DEF WrittenBy, MadsBy, Stubs
<1> QED
  BY <1>2

LEMMA ThreadOpsWritten ==
  ASSUME BufferInv, kernel.probe = "operands", NEW core \in Cores, NEW t \in Types
  PROVE  UNION {WrittenBy(BlockIndex(core), table, t) : table \in 1..MaxThreads} = ThreadOpsBy(core, t)
<1>1. MaxThreads \in Nat
  BY LenFacts
<1>2. ASSUME NEW n \in DOMAIN executed
      PROVE  (TableOf(executed[n]) \in 1..MaxThreads /\ TypeIn(executed[n]) = t)
               <=> ("type" \in DOMAIN executed[n] /\ executed[n].type = t /\ executed[n].thread < MaxThreads)
  <2>1. PICK e : e = executed[n]
    OBVIOUS
  <2>2. /\ TableOf(e) \in Nat /\ ("type" \in DOMAIN e <=> TableOf(e) # 0)
        /\ "type" \in DOMAIN e => TypeIn(e) = e.type /\ TableOf(e) = e.thread + 1 /\ e.thread \in Nat
    BY <2>1, StubKinds
  <2>3. CASE "type" \in DOMAIN e
    BY <1>1, <2>1, <2>2, <2>3
  <2>4. CASE "type" \notin DOMAIN e
    BY <2>1, <2>2, <2>4
  <2> QED
    BY <2>3, <2>4
<1>3. \A n : n \in UNION {WrittenBy(BlockIndex(core), table, t) : table \in 1..MaxThreads}
               <=> n \in DOMAIN executed /\ IndexOf(kernel, executed[n].core) = BlockIndex(core)
                     /\ TableOf(executed[n]) \in 1..MaxThreads /\ TypeIn(executed[n]) = t
  BY DEF WrittenBy
<1>4. \A n : n \in ThreadOpsBy(core, t)
               <=> /\ n \in DOMAIN executed /\ executed[n].core = core
                   /\ "type" \in DOMAIN executed[n] /\ executed[n].type = t /\ executed[n].thread < MaxThreads
  BY DEF ThreadOpsBy, Stubs
<1>5. \A n : n \in UNION {WrittenBy(BlockIndex(core), table, t) : table \in 1..MaxThreads} <=> n \in ThreadOpsBy(core, t)
  BY <1>2, <1>3, <1>4, OwnCore
<1> QED
  BY <1>5

(* The sum over tables whose stubs are worth one each, and over stubs.      *)
LEMMA WorthOfMads ==
  ASSUME BufferInv, kernel.probe = "operands",
         NEW s \in SUBSET {n \in DOMAIN executed : "mad" \in DOMAIN executed[n]}
  PROVE  FlopsIn(s) = WorthOf(executed, s)
<1>1. \A n \in s : Flops(executed[n].mad) = Worth(executed[n])
  BY StubKinds
<1>2. [n \in s |-> Flops(executed[n].mad)] = [n \in s |-> Worth(executed[n])]
  BY <1>1
<1> QED
  BY <1>2, Zenon DEF FlopsIn, WorthOf

LEMMA WorthOfThreads ==
  ASSUME BufferInv, kernel.probe = "operands",
         NEW s \in SUBSET {n \in DOMAIN executed : "type" \in DOMAIN executed[n]}
  PROVE  WorthOf(executed, s) = Cardinality(s)
<1>1. \A n \in s : Worth(executed[n]) = 1
  BY StubKinds
<1>2. [n \in s |-> Worth(executed[n])] = [n \in s |-> 1]
  BY <1>1
<1>3. PICK ones : ones = [n \in DOMAIN executed |-> 1]
  OBVIOUS
<1>4. [n \in s |-> 1] = [n \in s |-> ones[n]]
  BY <1>3
<1>5. WorthOf(executed, s) = SumOver(ones, s)
  BY <1>2, <1>4, Zenon DEF WorthOf, SumOver
<1>6. executed \in Seq(OperandStubs(kernel))
  BY DEF BufferInv, StubsTyped
<1>7. IsFiniteSet(DOMAIN executed)
  BY <1>6, FS_Interval
<1>8. s \in SUBSET DOMAIN executed
  OBVIOUS
<1>9. SumOver(ones, s) = Cardinality(s)
  BY <1>3, <1>7, <1>8, SumOfOnes
<1> QED
  BY <1>5, <1>9

(* What the host finds for a core whose block is in the file.               *)
LEMMA SimdIs ==
  ASSUME BufferInv, FileRead, kernel.probe = "operands",
         NEW core \in Cores, BlockIndex(core) \in Blocks, NEW t \in Types
  PROVE  Statistical(BlockIndex(core), {0})[t]
           = [instructions |-> Cardinality(MadsBy(core, t)), operands |-> FlopsIn(MadsBy(core, t))]
<1>1. PICK i \in Blocks : i = BlockIndex(core)
  OBVIOUS
<1>2. 0 \in 0..MaxThreads
  BY LenFacts
<1>3. PICK w : w = WrittenBy(i, 0, t) /\ w = MadsBy(core, t)
  BY <1>1, MadsWritten
<1>4. /\ Word(gm, OperandOffset(i, 0, t)) = Cardinality(w) /\ Cardinality(w) \in Nat
      /\ Word(gm, OperandOffset(i, 0, t) + 1) = WorthOf(executed, w) /\ WorthOf(executed, w) \in Int
  BY <1>2, <1>3, EntryIs
<1>5. WorthOf(executed, w) = FlopsIn(w)
  <2>1. w \in SUBSET {n \in DOMAIN executed : "mad" \in DOMAIN executed[n]}
    BY <1>3 DEF MadsBy, Stubs
  <2> QED
    BY <2>1, WorthOfMads
<1>6. PICK f : f = [table \in {0} |-> Word(gm, OperandOffset(i, table, t))]
  OBVIOUS
<1>7. PICK g : g = [table \in {0} |-> Word(gm, OperandOffset(i, table, t) + 1)]
  OBVIOUS
<1>8. f \in [{0} -> Int] /\ f[0] = Cardinality(w)
  BY <1>4, <1>6
<1>9. g \in [{0} -> Int] /\ g[0] = WorthOf(executed, w)
  BY <1>4, <1>7
<1>10. SumFunction(f) = Cardinality(w)
  BY <1>8, SumOfOne
<1>11. SumFunction(g) = FlopsIn(w)
  BY <1>5, <1>9, SumOfOne
<1>12. Statistical(i, {0})[t] = [instructions |-> SumFunction(f), operands |-> SumFunction(g)]
  BY <1>6, <1>7, Zenon DEF Statistical
<1> QED
  BY <1>1, <1>3, <1>10, <1>11, <1>12, Zenon

LEMMA SimtIs ==
  ASSUME BufferInv, FileRead, kernel.probe = "operands",
         NEW core \in Cores, BlockIndex(core) \in Blocks, NEW t \in Types
  PROVE  Statistical(BlockIndex(core), 1..MaxThreads)[t]
           = [instructions |-> Cardinality(ThreadOpsBy(core, t)), operands |-> Cardinality(ThreadOpsBy(core, t))]
<1>1. PICK i \in Blocks : i = BlockIndex(core)
  OBVIOUS
<1>2. PICK tables : tables = 1..MaxThreads
  OBVIOUS
<1>3. IsFiniteSet(tables) /\ tables \subseteq 0..MaxThreads /\ tables \subseteq Nat \ {0}
  <2>1. PICK m \in Nat : m = MaxThreads
    BY LenFacts
  <2>2. IsFiniteSet(1..m)
    BY <2>1, FS_Interval
  <2>3. 1..m \subseteq 0..m /\ 1..m \subseteq Nat \ {0}
    OBVIOUS
  <2> QED
    BY <1>2, <2>1, <2>2, <2>3, Zenon
<1>4. PICK S : S = DOMAIN executed
  OBVIOUS
<1>5. executed \in Seq(OperandStubs(kernel))
  BY DEF BufferInv, StubsTyped
<1>6. IsFiniteSet(S)
  BY <1>4, <1>5, FS_Interval
<1>7. PICK ones : ones = [n \in S |-> 1]
  OBVIOUS
<1>8. ones \in [S -> Int]
  BY <1>7
<1>9. PICK A : A = [table \in tables |-> WrittenBy(i, table, t)]
  OBVIOUS
<1>10. A \in [tables -> SUBSET S]
  <2>1. \A table \in tables : WrittenBy(i, table, t) \in SUBSET S
    BY <1>4 DEF WrittenBy
  <2> QED
    BY <1>9, <2>1
<1>11. \A table \in tables : A[table] = WrittenBy(i, table, t)
  BY <1>9
<1>12. \A g, h \in tables : g # h => A[g] \cap A[h] = {}
  BY <1>11 DEF WrittenBy
<1>13. ASSUME NEW table \in tables
       PROVE  /\ Word(gm, OperandOffset(i, table, t)) = SumOver(ones, A[table])
              /\ Word(gm, OperandOffset(i, table, t) + 1) = SumOver(ones, A[table])
  <2>1. PICK w : w = WrittenBy(i, table, t) /\ w = A[table]
    BY <1>11
  <2>2. /\ Word(gm, OperandOffset(i, table, t)) = Cardinality(w)
        /\ Word(gm, OperandOffset(i, table, t) + 1) = WorthOf(executed, w)
    BY <1>3, <2>1, EntryIs
  <2>3. w \in SUBSET {n \in DOMAIN executed : "type" \in DOMAIN executed[n]}
    <3>1. \A n \in w : n \in DOMAIN executed /\ TableOf(executed[n]) # 0
      BY <1>3, <2>1 DEF WrittenBy
    <3> QED
      BY <3>1, StubKinds
  <2>4. WorthOf(executed, w) = Cardinality(w)
    BY <2>3, WorthOfThreads
  <2>5. w \in SUBSET S
    BY <1>4, <2>3
  <2>6. SumOver(ones, w) = Cardinality(w)
    BY <1>6, <1>7, <2>5, SumOfOnes
  <2> QED
    BY <2>1, <2>2, <2>4, <2>6
<1>14. PICK u : u = UNION {A[table] : table \in tables}
  OBVIOUS
<1>15. SumFunction([table \in tables |-> SumOver(ones, A[table])]) = SumOver(ones, u)
  BY <1>3, <1>6, <1>8, <1>10, <1>12, <1>14, SumOfSums
<1>16. u = ThreadOpsBy(core, t)
  <2>1. {A[table] : table \in tables} = {WrittenBy(i, table, t) : table \in tables}
    BY <1>11
  <2>2. u = UNION {WrittenBy(i, table, t) : table \in tables}
    BY <1>14, <2>1, Zenon
  <2>3. UNION {WrittenBy(BlockIndex(core), table, t) : table \in 1..MaxThreads} = ThreadOpsBy(core, t)
    BY ThreadOpsWritten, Zenon
  <2> QED
    BY <1>1, <1>2, <2>2, <2>3, ZenonT(30)
<1>17. u \in SUBSET S
  BY <1>10, <1>14
<1>18. SumOver(ones, u) = Cardinality(u)
  BY <1>6, <1>7, <1>17, SumOfOnes
<1>19. PICK f : f = [table \in tables |-> Word(gm, OperandOffset(i, table, t))]
  OBVIOUS
<1>20. PICK g : g = [table \in tables |-> Word(gm, OperandOffset(i, table, t) + 1)]
  OBVIOUS
<1>21. f = [table \in tables |-> SumOver(ones, A[table])]
  BY <1>13, <1>19
<1>22. g = [table \in tables |-> SumOver(ones, A[table])]
  BY <1>13, <1>20
<1>23. SumFunction(f) = Cardinality(u) /\ SumFunction(g) = Cardinality(u)
  BY <1>15, <1>18, <1>21, <1>22, Zenon
<1>24. Statistical(i, tables)[t] = [instructions |-> SumFunction(f), operands |-> SumFunction(g)]
  BY <1>19, <1>20, Zenon DEF Statistical
<1> QED
  BY <1>1, <1>2, <1>16, <1>23, <1>24, Zenon

FileWhole == fileSize # BufferSize - 1

(* What the host makes of a core.                                           *)
LEMMA MapOfCore ==
  ASSUME BufferInv, FileRead, kernel.probe = "operands", NEW core \in Cores, NEW t \in Types,
         NEW mads, mads = (IF FileWhole THEN MadsOf(core, t) ELSE {}),
         NEW ops, ops = (IF FileWhole THEN ThreadOpsOf(core, t) ELSE {})
  PROVE  /\ GetOperandRecordMap(core).simdMap[t] = [instructions |-> Cardinality(mads), operands |-> FlopsIn(mads)]
         /\ GetOperandRecordMap(core).simtMap[t] = [instructions |-> Cardinality(ops), operands |-> Cardinality(ops)]
<1>1. kernel \in Kernels /\ fileSize \in FileSizes
  BY DEF BufferInv, FileRead
<1>2. PICK i \in Nat : i = BlockIndex(core) /\ i = HostIndex(core)
  BY <1>1, HostIndexIs, IndexFacts
<1>3. MaxBlock \in Nat
  BY LenFacts
<1>4. HostIndex(core) < OperandBlocks <=> FileWhole /\ HasBlock(core)
  <2>1. fileSize \in {BufferSize, BufferSize - 1, BufferSize - OperandBlockLen}
    BY <1>1 DEF FileSizes
  <2>2. CASE fileSize = BufferSize
    BY <1>2, <1>3, <2>2, OperandBlocksAre DEF FileWhole, HasBlock
  <2>3. CASE fileSize = BufferSize - OperandBlockLen
    BY <1>2, <1>3, <2>3, OperandBlocksAre DEF FileWhole, HasBlock
  <2>4. CASE fileSize = BufferSize - 1
    BY <1>2, <2>4, OperandBlocksAre DEF FileWhole
  <2> QED
    BY <2>1, <2>2, <2>3, <2>4
<1>5. CASE FileWhole /\ HasBlock(core)
  <2>1. i \in Blocks
    BY <1>2, <1>3, <1>5 DEF HasBlock, Blocks
  <2>2. mads = MadsBy(core, t) /\ ops = ThreadOpsBy(core, t)
    BY <1>5 DEF MadsOf, MadsBy, ThreadOpsOf, ThreadOpsBy
  <2>3. GetOperandRecordMap(core) = [simdMap |-> Statistical(i, {0}), simtMap |-> Statistical(i, 1..MaxThreads)]
    BY <1>2, <1>4, <1>5, Zenon DEF GetOperandRecordMap, ParseOperandRecords
  <2>4. Statistical(i, {0})[t] = [instructions |-> Cardinality(mads), operands |-> FlopsIn(mads)]
    BY <1>2, <2>1, <2>2, SimdIs
  <2>5. Statistical(i, 1..MaxThreads)[t] = [instructions |-> Cardinality(ops), operands |-> Cardinality(ops)]
    BY <1>2, <2>1, <2>2, SimtIs
  <2>6. /\ GetOperandRecordMap(core).simdMap = Statistical(i, {0})
        /\ GetOperandRecordMap(core).simtMap = Statistical(i, 1..MaxThreads)
    BY <2>3
  <2> QED
    BY <2>4, <2>5, <2>6, Zenon
<1>6. CASE ~(FileWhole /\ HasBlock(core))
  <2>1. mads = {} /\ ops = {}
    BY <1>6 DEF MadsOf, ThreadOpsOf
  <2>2. /\ GetOperandRecordMap(core).simdMap = [u \in Types |-> Nothing]
        /\ GetOperandRecordMap(core).simtMap = [u \in Types |-> Nothing]
    BY <1>4, <1>6 DEF GetOperandRecordMap
  <2>3. GetOperandRecordMap(core).simdMap[t] = Nothing /\ GetOperandRecordMap(core).simtMap[t] = Nothing
    BY <2>2
  <2>4. Cardinality({}) = 0
    BY FS_EmptySet
  <2>5. FlopsIn({}) = 0
    <3>1. PICK s : s = {}
      OBVIOUS
    <3>2. s \in SUBSET {n \in DOMAIN executed : "mad" \in DOMAIN executed[n]}
          /\ s \in SUBSET {n \in DOMAIN executed : "type" \in DOMAIN executed[n]}
      BY <3>1
    <3>3. FlopsIn(s) = WorthOf(executed, s) /\ WorthOf(executed, s) = Cardinality(s)
      BY <3>2, WorthOfMads, WorthOfThreads
    <3> QED
      BY <2>4, <3>1, <3>3
  <2> QED
    BY <2>1, <2>3, <2>4, <2>5, Zenon DEF Nothing
<1> QED
  BY <1>5, <1>6

LEMMA PairsFinite ==
  ASSUME NEW A, NEW B, IsFiniteSet(A), IsFiniteSet(B)
  PROVE  IsFiniteSet(A \X B)
  BY FS_Product

LEMMA CoresFinite ==
  ASSUME kernel \in Kernels
  PROVE  IsFiniteSet(Cores)
<1>1. kernel.blockDim \in Nat
  BY KernelsAssumption
<1>2. PICK A : A = 0..(kernel.blockDim - 1)
  OBVIOUS
<1>3. IsFiniteSet(A)
  BY <1>1, <1>2, FS_Interval
<1>4. PICK B : B = {"cube0", "vector0", "vector1"}
  OBVIOUS
<1>5. IsFiniteSet(B)
  <2>1. IsFiniteSet({"cube0"})
    BY FS_Singleton
  <2>2. IsFiniteSet({"cube0"} \union {"vector0"})
    BY <2>1, FS_AddElement
  <2>3. IsFiniteSet(({"cube0"} \union {"vector0"}) \union {"vector1"})
    BY <2>2, FS_AddElement
  <2>4. ({"cube0"} \union {"vector0"}) \union {"vector1"} = {"cube0", "vector0", "vector1"}
    OBVIOUS
  <2> QED
    BY <1>4, <2>3, <2>4, Zenon
<1>6. IsFiniteSet(A \X B)
  BY <1>3, <1>5, PairsFinite
<1> DEFINE f == [core \in Cores |-> <<core.block, core.sub>>]
<1>7. f \in Injection(Cores, A \X B)
  <2>1. ASSUME NEW core \in Cores
        PROVE  /\ core.block \in A /\ core.sub \in B
               /\ core = [block |-> core.block, sub |-> core.sub]
    <3>1. core.block \in A
      BY <1>2 DEF Cores, KernelCores
    <3>2. core.sub \in B
      BY <1>4, CoreFacts
    <3>3. core = [block |-> core.block, sub |-> core.sub]
      BY CoreFacts
    <3> QED
      BY <3>1, <3>2, <3>3
  <2>2. f \in [Cores -> A \X B]
    BY <2>1
  <2>3. ASSUME NEW c \in Cores, NEW d \in Cores, f[c] = f[d] PROVE c = d
    <3>1. c.block = d.block /\ c.sub = d.sub
      BY <2>3
    <3> QED
      BY <2>1, <3>1, Zenon
  <2> HIDE DEF f
  <2> QED
    BY <2>2, <2>3 DEF Injection, IsInjective
<1> HIDE DEF f
<1> QED
  BY <1>6, <1>7, FS_Injection

(* A sum over cores and types of what the host makes of them.               *)
KeyedBy(A, H) == \A x \in H : \A n \in A[x] : executed[n].core = x[1] /\ TypeIn(executed[n]) = x[2]

LEMMA SumOfCores ==
  ASSUME BufferInv, kernel.probe = "operands", NEW S, S = DOMAIN executed, NEW f \in [S -> Int],
         NEW H, H \subseteq Cores \X Types, NEW A \in [H -> SUBSET S], KeyedBy(A, H)
  PROVE  SumFunction([x \in H |-> SumOver(f, A[x])]) = SumOver(f, UNION {A[x] : x \in H})
<1>1. kernel \in Kernels
  BY DEF BufferInv
<1>2. IsFiniteSet(Types)
  BY LenFacts, FS_Interval
<1>3. IsFiniteSet(Cores \X Types)
  BY <1>1, <1>2, CoresFinite, PairsFinite
<1>4. IsFiniteSet(H)
  BY <1>3, FS_Subset
<1>5. executed \in Seq(OperandStubs(kernel))
  BY DEF BufferInv, StubsTyped
<1>6. IsFiniteSet(S)
  BY <1>5, FS_Interval
<1>7. ASSUME NEW x \in H, NEW y \in H, x # y PROVE A[x] \cap A[y] = {}
  <2>1. SUFFICES ASSUME NEW n, n \in A[x], n \in A[y] PROVE FALSE
    OBVIOUS
  <2>2. x[1] = y[1] /\ x[2] = y[2]
    BY <2>1 DEF KeyedBy
  <2>3. x = <<x[1], x[2]>> /\ y = <<y[1], y[2]>>
    <3>1. \A z \in Cores \X Types : z = <<z[1], z[2]>>
      OBVIOUS
    <3> QED
      BY <3>1
  <2> QED
    BY <1>7, <2>2, <2>3, Zenon
<1> QED
  BY <1>4, <1>6, <1>7, SumOfSums

LEMMA CubeSum ==
  ASSUME BufferInv, FileRead, kernel.probe = "operands", FileWhole, NEW of, of \subseteq Types
  PROVE  SumFunction([x \in {core \in Cores : ~IsVec(core)} \X of |->
                        GetOperandRecordMap(x[1]).simdMap[x[2]].operands])
           = FlopsIn(MadsIn(of))
<1>1. PICK H : H = {core \in Cores : ~IsVec(core)} \X of
  OBVIOUS
<1>2. H \subseteq Cores \X Types /\ \A x \in H : x[1] \in Cores /\ x[2] \in of
  BY <1>1
<1>3. PICK S : S = DOMAIN executed
  OBVIOUS
<1>4. PICK A : A = [x \in H |-> MadsOf(x[1], x[2])]
  OBVIOUS
<1>5. \A core, t : MadsOf(core, t) \subseteq {n \in DOMAIN executed : "mad" \in DOMAIN executed[n]}
  BY DEF MadsOf, Stubs
<1>6. A \in [H -> SUBSET S] /\ \A x \in H : A[x] = MadsOf(x[1], x[2])
  BY <1>3, <1>4, <1>5
<1>7. \A core, t : \A n \in MadsOf(core, t) : executed[n].core = core /\ TypeIn(executed[n]) = t
  <2>1. ASSUME NEW core, NEW t, NEW n \in MadsOf(core, t)
        PROVE  executed[n].core = core /\ TypeIn(executed[n]) = t
    <3>1. /\ n \in DOMAIN executed /\ executed[n].core = core /\ "mad" \in DOMAIN executed[n]
          /\ executed[n].mad.type = t
      BY DEF MadsOf, Stubs
    <3> QED
      BY <3>1, StubKinds
  <2> QED
    BY <2>1
<1>8. KeyedBy(A, H)
  BY <1>6, <1>7 DEF KeyedBy
<1>9. PICK f : f = [n \in S |-> Worth(executed[n])]
  OBVIOUS
<1>10. f \in [S -> Int]
  <2>1. Worths(executed)
    BY WorthsOf DEF BufferInv, StubsTyped
  <2> QED
    BY <1>3, <1>9, <2>1 DEF Worths
<1>11. PICK u : u = UNION {A[x] : x \in H}
  OBVIOUS
<1>12. SumFunction([x \in H |-> SumOver(f, A[x])]) = SumOver(f, u)
  <2>1. H \subseteq Cores \X Types /\ A \in [H -> SUBSET S]
    BY <1>2, <1>6
  <2>2. SumFunction([x \in H |-> SumOver(f, A[x])]) = SumOver(f, UNION {A[x] : x \in H})
    BY <1>3, <1>8, <1>10, <2>1, SumOfCores
  <2> QED
    BY <1>11, <2>2, Zenon
<1>13. ASSUME NEW x \in H PROVE GetOperandRecordMap(x[1]).simdMap[x[2]].operands = SumOver(f, A[x])
  <2>1. PICK core \in Cores, t \in Types : core = x[1] /\ t = x[2]
    BY <1>2
  <2>2. PICK mads : mads = MadsOf(core, t)
    OBVIOUS
  <2>3. mads = IF FileWhole THEN MadsOf(core, t) ELSE {}
    BY <2>2
  <2>4. GetOperandRecordMap(core).simdMap[t] = [instructions |-> Cardinality(mads), operands |-> FlopsIn(mads)]
    BY <2>3, MapOfCore
  <2>5. FlopsIn(mads) = WorthOf(executed, mads) /\ mads \in SUBSET S
    BY <1>3, <1>5, <2>2, WorthOfMads
  <2>6. WorthOf(executed, mads) = SumOver(f, mads)
    BY <1>3, <1>9, <2>5, WorthIs
  <2>7. A[x] = mads
    BY <1>6, <2>1, <2>2
  <2>8. GetOperandRecordMap(core).simdMap[t].operands = FlopsIn(mads)
    BY <2>4
  <2> QED
    BY <2>1, <2>5, <2>6, <2>7, <2>8, Zenon
<1>14. [x \in H |-> GetOperandRecordMap(x[1]).simdMap[x[2]].operands] = [x \in H |-> SumOver(f, A[x])]
  BY <1>13
<1>15. u = MadsIn(of)
  <2>1. ASSUME NEW core \in Cores, NEW t \in of, NEW n \in MadsOf(core, t) PROVE n \in u
    <3>1. n \in DOMAIN executed /\ "mad" \in DOMAIN executed[n] /\ executed[n].core = core
      BY DEF MadsOf, Stubs
    <3>2. ~IsVec(core)
      BY <3>1, StubKinds
    <3>3. <<core, t>> \in H
      BY <1>1, <3>2
    <3>4. A[<<core, t>>] = MadsOf(core, t)
      BY <1>6, <3>3
    <3> QED
      BY <1>11, <3>3, <3>4
  <2>2. ASSUME NEW n \in u PROVE n \in MadsIn(of)
    <3>1. PICK x \in H : n \in A[x]
      BY <1>11
    <3>2. n \in MadsOf(x[1], x[2]) /\ x[1] \in Cores /\ x[2] \in of
      BY <1>2, <1>6, <3>1
    <3> QED
      BY <3>2 DEF MadsIn
  <2>3. \A n : n \in u <=> n \in MadsIn(of)
    BY <2>1, <2>2 DEF MadsIn
  <2> QED
    BY <2>3
<1>16. FlopsIn(u) = SumOver(f, u)
  <2>1. u \in SUBSET {n \in DOMAIN executed : "mad" \in DOMAIN executed[n]}
    BY <1>5, <1>6, <1>11
  <2>2. u \in SUBSET S
    BY <1>3, <2>1
  <2> QED
    BY <1>3, <1>9, <2>1, <2>2, WorthOfMads, WorthIs
<1> QED
  BY <1>1, <1>12, <1>14, <1>15, <1>16, Zenon

LEMMA VecSum ==
  ASSUME BufferInv, FileRead, kernel.probe = "operands", FileWhole, NEW of, of \subseteq Types
  PROVE  SumFunction([x \in {core \in Cores : IsVec(core)} \X of |->
                        GetOperandRecordMap(x[1]).simtMap[x[2]].operands])
           = Cardinality(ThreadOpsIn(of))
<1>1. PICK H : H = {core \in Cores : IsVec(core)} \X of
  OBVIOUS
<1>2. H \subseteq Cores \X Types /\ \A x \in H : x[1] \in Cores /\ x[2] \in of
  BY <1>1
<1>3. PICK S : S = DOMAIN executed
  OBVIOUS
<1>4. PICK A : A = [x \in H |-> ThreadOpsOf(x[1], x[2])]
  OBVIOUS
<1>5. \A core, t : ThreadOpsOf(core, t) \subseteq {n \in DOMAIN executed : "type" \in DOMAIN executed[n]}
  BY DEF ThreadOpsOf, Stubs
<1>6. A \in [H -> SUBSET S] /\ \A x \in H : A[x] = ThreadOpsOf(x[1], x[2])
  BY <1>3, <1>4, <1>5
<1>7. \A core, t : \A n \in ThreadOpsOf(core, t) : executed[n].core = core /\ TypeIn(executed[n]) = t
  <2>1. ASSUME NEW core, NEW t, NEW n \in ThreadOpsOf(core, t)
        PROVE  executed[n].core = core /\ TypeIn(executed[n]) = t
    <3>1. /\ n \in DOMAIN executed /\ executed[n].core = core /\ "type" \in DOMAIN executed[n]
          /\ executed[n].type = t
      BY DEF ThreadOpsOf, Stubs
    <3> QED
      BY <3>1, StubKinds
  <2> QED
    BY <2>1
<1>8. KeyedBy(A, H)
  BY <1>6, <1>7 DEF KeyedBy
<1>9. PICK f : f = [n \in S |-> 1]
  OBVIOUS
<1>10. f \in [S -> Int]
  BY <1>9
<1>0. IsFiniteSet(S)
  <2>1. executed \in Seq(OperandStubs(kernel))
    BY DEF BufferInv, StubsTyped
  <2> QED
    BY <1>3, <2>1, FS_Interval
<1>11. PICK u : u = UNION {A[x] : x \in H}
  OBVIOUS
<1>12. SumFunction([x \in H |-> SumOver(f, A[x])]) = SumOver(f, u)
  <2>1. H \subseteq Cores \X Types /\ A \in [H -> SUBSET S]
    BY <1>2, <1>6
  <2>2. SumFunction([x \in H |-> SumOver(f, A[x])]) = SumOver(f, UNION {A[x] : x \in H})
    BY <1>3, <1>8, <1>10, <2>1, SumOfCores
  <2> QED
    BY <1>11, <2>2, Zenon
<1>13. ASSUME NEW x \in H PROVE GetOperandRecordMap(x[1]).simtMap[x[2]].operands = SumOver(f, A[x])
  <2>1. PICK core \in Cores, t \in Types : core = x[1] /\ t = x[2]
    BY <1>2
  <2>2. PICK ops : ops = ThreadOpsOf(core, t)
    OBVIOUS
  <2>3. ops = IF FileWhole THEN ThreadOpsOf(core, t) ELSE {}
    BY <2>2
  <2>4. GetOperandRecordMap(core).simtMap[t] = [instructions |-> Cardinality(ops), operands |-> Cardinality(ops)]
    BY <2>3, MapOfCore
  <2>5. ops \in SUBSET S
    BY <1>3, <1>5, <2>2
  <2>6. SumOver(f, ops) = Cardinality(ops)
    BY <1>0, <1>9, <2>5, SumOfOnes
  <2>7. A[x] = ops
    BY <1>6, <2>1, <2>2
  <2>8. GetOperandRecordMap(core).simtMap[t].operands = Cardinality(ops)
    BY <2>4
  <2> QED
    BY <2>1, <2>6, <2>7, <2>8, Zenon
<1>14. [x \in H |-> GetOperandRecordMap(x[1]).simtMap[x[2]].operands] = [x \in H |-> SumOver(f, A[x])]
  BY <1>13
<1>15. u = ThreadOpsIn(of)
  <2>1. ASSUME NEW core \in Cores, NEW t \in of, NEW n \in ThreadOpsOf(core, t) PROVE n \in u
    <3>1. n \in DOMAIN executed /\ "type" \in DOMAIN executed[n] /\ executed[n].core = core
      BY DEF ThreadOpsOf, Stubs
    <3>2. IsVec(core)
      BY <3>1, StubKinds
    <3>3. <<core, t>> \in H
      BY <1>1, <3>2
    <3>4. A[<<core, t>>] = ThreadOpsOf(core, t)
      BY <1>6, <3>3
    <3> QED
      BY <1>11, <3>3, <3>4
  <2>2. ASSUME NEW n \in u PROVE n \in ThreadOpsIn(of)
    <3>1. PICK x \in H : n \in A[x]
      BY <1>11
    <3>2. n \in ThreadOpsOf(x[1], x[2]) /\ x[1] \in Cores /\ x[2] \in of
      BY <1>2, <1>6, <3>1
    <3> QED
      BY <3>2 DEF ThreadOpsIn
  <2>3. \A n : n \in u <=> n \in ThreadOpsIn(of)
    BY <2>1, <2>2 DEF ThreadOpsIn
  <2> QED
    BY <2>3
<1>16. Cardinality(u) = SumOver(f, u)
  <2>1. u \in SUBSET S
    BY <1>3, <1>6, <1>11
  <2> QED
    BY <1>0, <1>9, <2>1, SumOfOnes
<1> QED
  BY <1>1, <1>12, <1>14, <1>15, <1>16, Zenon

LEMMA OperandsRight ==
  ASSUME BufferInv, FileRead, kernel.probe = "operands"
  PROVE  OperandsAttributed
<1>1. ASSUME NEW core \in Cores, NEW t \in Types
      PROVE  LET map == GetOperandRecordMap(core)
                 whole == fileSize # BufferSize - 1
                 mads == IF whole THEN MadsOf(core, t) ELSE {}
                 ops == IF whole THEN ThreadOpsOf(core, t) ELSE {}
             IN /\ map.simdMap[t] = [instructions |-> Cardinality(mads), operands |-> FlopsIn(mads)]
                /\ map.simtMap[t] = [instructions |-> Cardinality(ops), operands |-> Cardinality(ops)]
  <2>1. PICK mads, ops : /\ mads = (IF FileWhole THEN MadsOf(core, t) ELSE {})
                         /\ ops = (IF FileWhole THEN ThreadOpsOf(core, t) ELSE {})
    OBVIOUS
  <2>2. /\ GetOperandRecordMap(core).simdMap[t] = [instructions |-> Cardinality(mads), operands |-> FlopsIn(mads)]
        /\ GetOperandRecordMap(core).simtMap[t] = [instructions |-> Cardinality(ops), operands |-> Cardinality(ops)]
    BY <2>1, MapOfCore
  <2> QED
    BY <2>1, <2>2, Zenon DEF FileWhole
<1>2. ASSUME FileWhole, NEW precision \in Precisions
      PROVE  CubeFops(precision) =
               FlopsIn(MadsIn({t \in Types : Precision(OperandTypes[t]) = precision}))
  <2>1. PICK of : of = {t \in Types : Precision(OperandTypes[t]) = precision}
    OBVIOUS
  <2>2. of \subseteq Types
    BY <2>1
  <2> QED
    BY <1>2, <2>1, <2>2, CubeSum, Zenon DEF CubeFops
<1>3. ASSUME FileWhole, NEW isFloat \in BOOLEAN
      PROVE  VecFops(isFloat) =
               Cardinality(ThreadOpsIn({t \in Types : (t <= FloatMax) = isFloat}))
  <2>1. PICK of : of = {t \in Types : (t <= FloatMax) = isFloat}
    OBVIOUS
  <2>2. of \subseteq Types
    BY <2>1
  <2> QED
    BY <1>3, <2>1, <2>2, VecSum, Zenon DEF VecFops
<1> QED
  BY <1>1, <1>2, <1>3, Zenon DEF OperandsAttributed, FileWhole

LEMMA WarpStub ==
  ASSUME BufferInv, kernel.probe = "warps", NEW n \in DOMAIN executed
  PROVE  LET e == executed[n]
         IN /\ DOMAIN e = {"core", "thread", "isStart"} /\ e.core \in Cores /\ IsVec(e.core)
            /\ e.thread \in Nat /\ e.isStart \in BOOLEAN
            /\ e = [core |-> e.core, thread |-> e.thread, isStart |-> e.isStart]
<1>1. PICK e : e = executed[n]
  OBVIOUS
<1>2. e \in WarpStubs(kernel)
  BY <1>1 DEF BufferInv, StubsTyped
<1>3. MaxThreads \in Nat
  BY LenFacts
<1>4. e.core \in CoresWith(kernel, TRUE) /\ e.thread \in 0..MaxThreads /\ e.isStart \in BOOLEAN
  BY <1>2 DEF WarpStubs
<1>5. DOMAIN e = {"core", "thread", "isStart"} /\ e = [core |-> e.core, thread |-> e.thread, isStart |-> e.isStart]
  BY <1>2 DEF WarpStubs
<1>6. e.core \in Cores /\ IsVec(e.core)
  BY <1>4 DEF CoresWith, Cores, IsVec
<1>7. e.thread \in Nat
  BY <1>3, <1>4
<1> QED
  BY <1>1, <1>4, <1>5, <1>6, <1>7, Zenon

(* The first lanes of the warps of a block.                                 *)
LEMMA FirstLanes ==
  ASSUME NEW w \in 0..(WarpsPerBlock - 1)
  PROVE  /\ w * WarpThreads \in Nat /\ w * WarpThreads < MaxThreads
         /\ (w * WarpThreads) % WarpThreads = 0 /\ (w * WarpThreads) \div WarpThreads = w
<1>1. PICK len \in Nat \ {0} : len = WarpThreads
  BY LenFacts
<1>2. PICK m \in Nat : m = MaxThreads
  BY LenFacts
<1>3. PICK p \in Nat : p = WarpsPerBlock /\ p = (m + len - 1) \div len
  BY <1>1, <1>2, LenFacts DEF WarpsPerBlock
<1>4. w \in Nat /\ w + 1 <= p
  BY <1>3
<1>5. PICK x : x = w * len
  OBVIOUS
<1>6. x \in Nat /\ x % len = 0 /\ x \div len = w
  BY <1>1, <1>4, <1>5, BlocksOfFile
<1>7. x < m
  <2>1. PICK s : s = m + len - 1
    OBVIOUS
  <2>2. s \in Nat /\ p = s \div len
    BY <1>1, <1>2, <1>3, <2>1
  <2>3. PICK r \in Nat : s = len * p + r
    <3>1. s = len * (s \div len) + (s % len) /\ s % len \in Nat
      BY <1>1, <2>2, Z3
    <3>2. s = len * p + (s % len)
      BY <2>2, <3>1, Zenon
    <3> QED
      BY <3>1, <3>2
  <2>4. PICK d \in Nat : p = w + 1 + d
    <3>1. p - w - 1 \in Nat /\ p = w + 1 + (p - w - 1)
      BY <1>4
    <3> QED
      BY <3>1
  <2>5. PICK y \in Nat : y = len * d
    BY <1>1
  <2>6. len * p = x + len + y
    BY <1>1, <1>4, <1>5, <2>4, <2>5
  <2>7. PICK z : z = len * p
    OBVIOUS
  <2>8. z = x + len + y /\ s = z + r
    BY <2>3, <2>6, <2>7
  <2> QED
    BY <1>1, <1>2, <1>6, <2>1, <2>5, <2>3, <2>8
<1> QED
  BY <1>1, <1>2, <1>5, <1>6, <1>7

LEMMA LaneOf ==
  ASSUME NEW e, e.thread \in Nat, Notes(e)
  PROVE  /\ e.thread \div WarpThreads \in 0..(WarpsPerBlock - 1)
         /\ e.thread = (e.thread \div WarpThreads) * WarpThreads
<1>1. PICK len \in Nat \ {0}, t \in Nat, p \in Nat : len = WarpThreads /\ t = e.thread /\ p = WarpsPerBlock
  BY LenFacts
<1>2. t % len = 0 /\ t \div len < p
  BY <1>1 DEF Notes, GetLaneId
<1>3. t = len * (t \div len) + (t % len) /\ t \div len \in Nat
  BY Z3
<1>4. PICK q \in Nat : q = t \div len
  BY <1>3
<1>5. t = q * len
  <2>1. PICK x : x = len * q /\ x = q * len /\ x \in Nat
    BY <1>1, <1>4
  <2> QED
    BY <1>2, <1>3, <1>4, <2>1
<1>6. q \in 0..(p - 1)
  BY <1>1, <1>2, <1>4
<1> QED
  BY <1>1, <1>4, <1>5, <1>6

(* Where the time of a warp is, and which stubs write it.                   *)
LEMMA WarpWord ==
  ASSUME kernel.probe = "warps", NEW i \in Nat, NEW w \in 0..(WarpsPerBlock - 1), NEW d \in {0, 1},
         NEW a, a = WarpOffset(i, w) + d
  PROVE  /\ Near(kernel, i, a) /\ \A n : Stamped(i, a, n) = n
         /\ \A e : e.thread \in Nat /\ e.isStart \in BOOLEAN /\ Notes(e) =>
              (a \in StampWords(i, e) <=> e.thread = w * WarpThreads /\ e.isStart = (d = 0))
<1>1. PICK len \in Nat : len = WarpBlockLen
  BY LenFacts
<1>2. PICK h \in Nat, g \in Nat : h = i * len /\ g = (i + 1) * len /\ g = h + len
  BY <1>1, Multiples
<1>3. PICK p \in Nat : p = WarpsPerBlock /\ len = 3 + 2 * p + Gap /\ Gap \in Nat \ {0}
  BY <1>1, LenFacts
<1>4. w \in Nat /\ w < p
  BY <1>3
<1>5. a = h + 3 + 2 * w + d
  BY <1>1, <1>2, Zenon DEF WarpOffset, WarpHeader
<1>6. a \in Nat /\ a > h + 2
  BY <1>2, <1>4, <1>5
<1>7. Near(kernel, i, a)
  <2>1. BlockStart(kernel, i) = h /\ BlockStart(kernel, i + 1) = g
    BY <1>1, <1>2, Zenon DEF BlockStart
  <2>2. a \in h..(g - Gap - 1)
    BY <1>2, <1>3, <1>4, <1>5
  <2>3. a \in BlockWords(kernel, i)
    BY <2>1, <2>2, Zenon DEF BlockWords
  <2> QED
    BY <1>6, <2>3 DEF Near
<1>8. \A n : Stamped(i, a, n) = n
  BY <1>1, <1>2, <1>6 DEF Stamped
<1>9. ASSUME NEW e, e.thread \in Nat, e.isStart \in BOOLEAN, Notes(e)
      PROVE  a \in StampWords(i, e) <=> e.thread = w * WarpThreads /\ e.isStart = (d = 0)
  <2>1. PICK x \in Nat, v \in Nat, b \in {0, 1} :
           /\ x = i * WarpBlockLen /\ v = e.thread \div WarpThreads /\ b = IF e.isStart THEN 0 ELSE 1
           /\ StampWord(i, e) = x + 3 + 2 * v + b
           /\ BlockStart(kernel, i) = x /\ BlockStart(kernel, i + 1) = x + WarpBlockLen
           /\ v < WarpsPerBlock
    <3>1. e.thread \in Nat /\ Notes(e)
      BY <1>9
    <3>2. StampAt(kernel, i, e)
      BY <3>1, StampWordsAre, Zenon
    <3> QED
      BY <3>2, Zenon DEF StampAt
  <2>2. x = h
    BY <1>1, <1>2, <2>1
  <2>3. a \in StampWords(i, e) <=> a = h + 3 + 2 * v + b
    <3>1. StampWords(i, e) = {h, h + 1, h + 2, h + 3 + 2 * v + b}
      BY <2>1, <2>2, Zenon DEF StampWords
    <3> QED
      BY <1>6, <3>1
  <2>4. a = h + 3 + 2 * v + b <=> w = v /\ d = b
    BY <1>2, <1>4, <1>5
  <2>5. w = v <=> e.thread = w * WarpThreads
    <3>1. e.thread = v * WarpThreads
      BY <1>9, <2>1, LaneOf
    <3>2. (w * WarpThreads) \div WarpThreads = w
      BY FirstLanes
    <3>3. w = v => e.thread = w * WarpThreads
      BY <3>1
    <3>4. e.thread = w * WarpThreads => w = v
      BY <2>1, <3>2, Zenon
    <3> QED
      BY <3>3, <3>4
  <2>6. d = b <=> e.isStart = (d = 0)
    BY <1>9, <2>1
  <2> QED
    BY <2>3, <2>4, <2>5, <2>6
<1> QED
  BY <1>7, <1>8, <1>9

LEMMA HeaderWord ==
  ASSUME kernel.probe = "warps", NEW i \in Nat, NEW j \in 0..2, NEW h, h = i * WarpBlockLen
  PROVE  /\ Near(kernel, i, h + j) /\ \A e : h + j \in StampWords(i, e)
         /\ \A n : /\ Stamped(i, h, n) = 1
                   /\ Stamped(i, h + 1, n) = i \div SubBlockDim /\ Stamped(i, h + 2, n) = i % SubBlockDim
<1>1. PICK len \in Nat : len = WarpBlockLen
  BY LenFacts
<1>2. PICK g \in Nat : h \in Nat /\ g = (i + 1) * len /\ g = h + len
  BY <1>1, Multiples
<1>3. PICK p \in Nat : len = 3 + 2 * p + Gap /\ Gap \in Nat \ {0}
  BY <1>1, LenFacts
<1>4. Near(kernel, i, h + j)
  <2>1. BlockStart(kernel, i) = h /\ BlockStart(kernel, i + 1) = g
    <3>1. BlockStart(kernel, i) = i * WarpBlockLen /\ BlockStart(kernel, i + 1) = (i + 1) * WarpBlockLen
      BY Zenon DEF BlockStart
    <3> QED
      BY <1>1, <1>2, <3>1, Zenon
  <2>2. h + j \in h..(g - Gap - 1)
    BY <1>2, <1>3
  <2>3. h + j \in BlockWords(kernel, i)
    BY <2>1, <2>2, Zenon DEF BlockWords
  <2>4. h + j \in Nat
    BY <1>2
  <2> QED
    BY <2>3, <2>4 DEF Near
<1>5. \A e : h + j \in StampWords(i, e)
  <2>1. ASSUME NEW e PROVE h + j \in StampWords(i, e)
    <3>1. PICK s : s = StampWord(i, e)
      OBVIOUS
    <3>2. StampWords(i, e) = {h, h + 1, h + 2, s}
      BY <3>1, Zenon DEF StampWords
    <3>3. h + j \in {h, h + 1, h + 2}
      BY <1>2
    <3> QED
      BY <3>2, <3>3
  <2> QED
    BY <2>1
<1>6. ASSUME NEW n
      PROVE  /\ Stamped(i, h, n) = 1
             /\ Stamped(i, h + 1, n) = i \div SubBlockDim /\ Stamped(i, h + 2, n) = i % SubBlockDim
  <2>1. PICK x, y : x = i \div SubBlockDim /\ y = i % SubBlockDim
    OBVIOUS
  <2>2. \A a : Stamped(i, a, n) = CASE a = h -> 1 [] a = h + 1 -> x [] a = h + 2 -> y [] OTHER -> n
    BY <2>1, Zenon DEF Stamped
  <2>3. h + 1 # h /\ h + 2 # h /\ h + 2 # h + 1
    BY <1>2
  <2>4. Stamped(i, h, n) = 1 /\ Stamped(i, h + 1, n) = x /\ Stamped(i, h + 2, n) = y
    BY <1>2, <2>2
  <2> QED
    BY <2>1, <2>4
<1> QED
  BY <1>4, <1>5, <1>6, Zenon

(* The stubs that note the time of a warp.                                  *)
LEMMA StampsOfWarp ==
  ASSUME BufferInv, kernel.probe = "warps", NEW i \in Nat, NEW w \in 0..(WarpsPerBlock - 1), NEW d \in {0, 1},
         NEW a, a = WarpOffset(i, w) + d
  PROVE  /\ \A core \in Cores : BlockIndex(core) = i => Stampings(kernel, executed, i, a) = Stamp(core, w, d = 0)
         /\ (\A core \in Cores : BlockIndex(core) # i) => Stampings(kernel, executed, i, a) = {}
<1>1. kernel \in Kernels
  BY DEF BufferInv
<1>2. \A n \in DOMAIN executed : /\ executed[n].core \in Cores /\ executed[n].thread \in Nat
                                 /\ executed[n].isStart \in BOOLEAN /\ "isStart" \in DOMAIN executed[n]
  BY WarpStub
<1>3. \A core \in Cores : IndexOf(kernel, core) = BlockIndex(core)
  BY <1>1, IndexFacts
<1>4. \A e : e.thread \in Nat /\ e.isStart \in BOOLEAN /\ Notes(e) =>
              (a \in StampWords(i, e) <=> e.thread = w * WarpThreads /\ e.isStart = (d = 0))
  BY WarpWord
<1>5. \A e : e.thread = w * WarpThreads => Notes(e)
  <2>1. PICK x : x = w * WarpThreads
    OBVIOUS
  <2>2. x < MaxThreads /\ x % WarpThreads = 0 /\ x \div WarpThreads = w
    BY <2>1, FirstLanes
  <2>3. w < WarpsPerBlock
    BY LenFacts
  <2> QED
    BY <2>1, <2>2, <2>3 DEF Notes, GetLaneId, TryGetThreadId
<1>6. ASSUME NEW core \in Cores, BlockIndex(core) = i
      PROVE  Stampings(kernel, executed, i, a) = Stamp(core, w, d = 0)
  <2>1. ASSUME NEW n \in DOMAIN executed
        PROVE  IndexOf(kernel, executed[n].core) = i <=> executed[n].core = core
    <3>1. executed[n].core \in Cores
      BY <1>2
    <3> QED
      BY <1>1, <1>3, <1>6, <3>1, OwnIndex
  <2>2. ASSUME NEW n PROVE n \in Stampings(kernel, executed, i, a) <=> n \in Stamp(core, w, d = 0)
    <3>1. n \in Stampings(kernel, executed, i, a)
            <=> /\ n \in DOMAIN executed /\ IndexOf(kernel, executed[n].core) = i
                /\ Notes(executed[n]) /\ a \in StampWords(i, executed[n])
      BY DEF Stampings
    <3>2. n \in Stamp(core, w, d = 0)
            <=> /\ n \in DOMAIN executed /\ executed[n].core = core /\ "isStart" \in DOMAIN executed[n]
                /\ executed[n].thread = w * WarpThreads /\ executed[n].isStart = (d = 0)
      BY DEF Stamp, Stubs
    <3> QED
      BY <1>2, <1>4, <1>5, <2>1, <3>1, <3>2
  <2> QED
    BY <2>2
<1>7. ASSUME \A core \in Cores : BlockIndex(core) # i PROVE Stampings(kernel, executed, i, a) = {}
  BY <1>2, <1>3, <1>7 DEF Stampings
<1> QED
  BY <1>6, <1>7

(* A warp starts once and ends once.                                        *)
LEMMA StampOnce ==
  ASSUME BufferInv, kernel.probe = "warps", NEW core, NEW w, NEW isStart \in BOOLEAN,
         NEW n \in Stamp(core, w, isStart)
  PROVE  /\ Stamp(core, w, isStart) = {n} /\ n \in Nat \ {0}
         /\ Min(Stamp(core, w, isStart)) = n /\ Max(Stamp(core, w, isStart)) = n
<1>1. executed \in Seq(WarpStubs(kernel)) /\ InTurn(executed)
  BY DEF BufferInv, StubsTyped
<1>2. \A m \in Stamp(core, w, isStart) :
        /\ m \in DOMAIN executed /\ executed[m].core = core
        /\ executed[m].thread = w * WarpThreads /\ executed[m].isStart = isStart
  BY DEF Stamp, Stubs
<1>3. \A m \in Stamp(core, w, isStart) :
        executed[m] = [core |-> core, thread |-> w * WarpThreads, isStart |-> isStart]
  BY <1>2, WarpStub
<1>4. \A m \in Stamp(core, w, isStart) : m = n
  BY <1>1, <1>2, <1>3 DEF InTurn
<1>5. PICK s : s = Stamp(core, w, isStart)
  OBVIOUS
<1>6. s = {n}
  BY <1>4, <1>5
<1>7. n \in DOMAIN executed
  BY <1>2
<1>8. n \in Nat \ {0}
  BY <1>1, <1>7
<1>9. Min(s) = n
  BY <1>6, <1>8, MinIs
<1>10. Max(s) = n
  BY <1>6, <1>8, MaxIs
<1> QED
  BY <1>5, <1>6, <1>8, <1>9, <1>10

(* A warp that ended has started before.                                    *)
LEMMA StartedBefore ==
  ASSUME BufferInv, kernel.probe = "warps", NEW core, NEW w, NEW n \in Stamp(core, w, FALSE)
  PROVE  \E m \in Stamp(core, w, TRUE) : m < n
<1>1. InTurn(executed)
  BY DEF BufferInv, StubsTyped
<1>2. n \in DOMAIN executed /\ executed[n].core = core /\ executed[n].thread = w * WarpThreads /\ ~executed[n].isStart
  BY DEF Stamp, Stubs
<1>3. PICK m \in DOMAIN executed : m < n /\ executed[m] = [executed[n] EXCEPT !.isStart = TRUE]
  BY <1>1, <1>2, Zenon DEF InTurn
<1>4. PICK e : e = executed[n]
  OBVIOUS
<1>5. DOMAIN e = {"core", "thread", "isStart"}
  BY <1>2, <1>4, WarpStub
<1>6. executed[m] = [e EXCEPT !.isStart = TRUE]
  BY <1>3, <1>4
<1>7. /\ executed[m].core = core /\ executed[m].thread = w * WarpThreads /\ executed[m].isStart = TRUE
      /\ "isStart" \in DOMAIN executed[m]
  BY <1>2, <1>4, <1>5, <1>6
<1>8. m \in Stamp(core, w, TRUE)
  BY <1>7 DEF Stamp, Stubs
<1> QED
  BY <1>3, <1>8

(* The times the host reads.                                                *)
LEMMA TickIs ==
  ASSUME BufferInv, FileRead, kernel.probe = "warps", NEW core \in Cores, NEW i \in Blocks, i = BlockIndex(core),
         NEW w \in 0..(WarpsPerBlock - 1), NEW d \in {0, 1}, NEW a, a = WarpOffset(i, w) + d
  PROVE  /\ Stamp(core, w, d = 0) = {} => Word(gm, a) = 0
         /\ Stamp(core, w, d = 0) # {} => Word(gm, a) = Min(Stamp(core, w, d = 0))
<1>1. i \in Nat
  BY DEF Blocks
<1>2. PICK s : s = Stamp(core, w, d = 0)
  OBVIOUS
<1>3. Stampings(kernel, executed, i, a) = s
  BY <1>1, <1>2, StampsOfWarp
<1>4. Near(kernel, i, a) /\ \A n : Stamped(i, a, n) = n
  BY <1>1, WarpWord
<1>5. Word(gm, a) = Due(kernel, executed, i, a)
  BY <1>4, AllDue
<1>6. Due(kernel, executed, i, a) = IF s = {} THEN 0 ELSE Stamped(i, a, Max(s))
  BY <1>3, Zenon DEF Due
<1>7. ASSUME s # {} PROVE Min(s) = Max(s)
  <2>1. PICK n : n \in s
    BY <1>7
  <2>2. Min(s) = n /\ Max(s) = n
    <3>1. (d = 0) \in BOOLEAN
      OBVIOUS
    <3>2. PICK isStart \in BOOLEAN : isStart = (d = 0)
      BY <3>1
    <3>3. s = Stamp(core, w, isStart)
      BY <1>2, <3>2
    <3> QED
      BY <2>1, <3>3, StampOnce
  <2> QED
    BY <2>2
<1> QED
  BY <1>2, <1>4, <1>5, <1>6, <1>7

LEMMA NoTick ==
  ASSUME BufferInv, FileRead, kernel.probe = "warps", NEW i \in Blocks,
         \A core \in Cores : BlockIndex(core) # i, NEW w \in 0..(WarpsPerBlock - 1)
  PROVE  StartTime(i, w) = 0
<1>1. i \in Nat /\ WarpsPerBlock \in Nat
  BY LenFacts DEF Blocks
<1>2. PICK a : a = WarpOffset(i, w)
  OBVIOUS
<1>3. a = WarpOffset(i, w) + 0
  <2>1. i * WarpBlockLen \in Nat
    BY <1>1, LenFacts, Multiples
  <2> QED
    BY <1>1, <1>2, <2>1 DEF WarpOffset, WarpHeader
<1>4. Near(kernel, i, a) /\ Stampings(kernel, executed, i, a) = {}
  BY <1>1, <1>3, WarpWord, StampsOfWarp
<1>5. Word(gm, a) = Due(kernel, executed, i, a)
  BY <1>4, AllDue
<1>6. Due(kernel, executed, i, a) = 0
  BY <1>4, Zenon DEF Due
<1> QED
  BY <1>2, <1>5, <1>6 DEF StartTime

(* The event of a warp, before the times are normalized.                    *)
Drawn(core, w) ==
  [core |-> BlockIndex(core) \div SubBlockDim, subCore |-> BlockIndex(core) % SubBlockDim,
   warp |-> w, ts |-> FirstTick(core, w), dur |-> Min(Stamp(core, w, FALSE)) - FirstTick(core, w)]

LEMMA HeaderIs ==
  ASSUME BufferInv, FileRead, kernel.probe = "warps", NEW core \in Cores, NEW i \in Blocks, i = BlockIndex(core),
         NEW w \in 0..(WarpsPerBlock - 1), NEW n \in Stamp(core, w, TRUE)
  PROVE  /\ Word(gm, i * WarpBlockLen) = 1
         /\ Word(gm, i * WarpBlockLen + 1) = i \div SubBlockDim
         /\ Word(gm, i * WarpBlockLen + 2) = i % SubBlockDim
<1>1. i \in Nat /\ kernel \in Kernels
  BY DEF Blocks, BufferInv
<1>2. PICK h : h = i * WarpBlockLen
  OBVIOUS
<1>3. h \in Nat
  BY <1>1, <1>2, LenFacts, Multiples
<1>4. n \in DOMAIN executed /\ executed[n].core = core /\ executed[n].thread = w * WarpThreads
  BY DEF Stamp, Stubs
<1>5. Notes(executed[n])
  <2>1. PICK x : x = w * WarpThreads
    OBVIOUS
  <2>2. x < MaxThreads /\ x % WarpThreads = 0 /\ x \div WarpThreads = w
    BY <2>1, FirstLanes
  <2>3. w < WarpsPerBlock
    BY LenFacts
  <2> QED
    BY <1>4, <2>1, <2>2, <2>3 DEF Notes, GetLaneId, TryGetThreadId
<1>6. IndexOf(kernel, core) = i
  BY <1>1, IndexFacts
<1>7. ASSUME NEW j \in 0..2 PROVE \E m : Word(gm, h + j) = Stamped(i, h + j, m)
  <2>1. Near(kernel, i, h + j) /\ h + j \in StampWords(i, executed[n])
    BY <1>1, <1>2, HeaderWord
  <2>2. n \in Stampings(kernel, executed, i, h + j)
    BY <1>4, <1>5, <1>6, <2>1 DEF Stampings
  <2>3. PICK b : b = h + j
    OBVIOUS
  <2>4. Word(gm, b) = Due(kernel, executed, i, b)
    BY <2>1, <2>3, AllDue
  <2>5. Stampings(kernel, executed, i, b) # {}
    BY <2>2, <2>3
  <2>6. Due(kernel, executed, i, b) = Stamped(i, b, Max(Stampings(kernel, executed, i, b)))
    BY <2>5, Zenon DEF Due
  <2> QED
    BY <2>3, <2>4, <2>6, Zenon
<1>8. \A m : /\ Stamped(i, h, m) = 1
             /\ Stamped(i, h + 1, m) = i \div SubBlockDim /\ Stamped(i, h + 2, m) = i % SubBlockDim
  BY <1>1, <1>2, HeaderWord
<1>9. h + 0 = h
  BY <1>3
<1>10. Word(gm, h) = 1
  <2>1. PICK m : Word(gm, h + 0) = Stamped(i, h + 0, m)
    BY <1>7
  <2> QED
    BY <1>8, <1>9, <2>1, Zenon
<1>11. Word(gm, h + 1) = i \div SubBlockDim
  <2>1. PICK m : Word(gm, h + 1) = Stamped(i, h + 1, m)
    BY <1>7
  <2> QED
    BY <1>8, <2>1, Zenon
<1>12. Word(gm, h + 2) = i % SubBlockDim
  <2>1. PICK m : Word(gm, h + 2) = Stamped(i, h + 2, m)
    BY <1>7
  <2> QED
    BY <1>8, <2>1, Zenon
<1> QED
  BY <1>2, <1>10, <1>11, <1>12, Zenon

LEMMA WarpDrawn ==
  ASSUME BufferInv, FileRead, kernel.probe = "warps", NEW core \in Cores, NEW i \in Blocks, i = BlockIndex(core),
         NEW w \in 0..(WarpsPerBlock - 1)
  PROVE  /\ w \in WarpsOf(core) <=> /\ Word(gm, i * WarpBlockLen) = 1
                                    /\ StartTime(i, w) # 0 /\ EndTime(i, w) > StartTime(i, w)
         /\ w \in WarpsOf(core) => /\ StartTime(i, w) = FirstTick(core, w)
                                   /\ EndTime(i, w) = Min(Stamp(core, w, FALSE))
                                   /\ Word(gm, i * WarpBlockLen + 1) = i \div SubBlockDim
                                   /\ Word(gm, i * WarpBlockLen + 2) = i % SubBlockDim
                                   /\ FirstTick(core, w) \in Nat
<1>1. i \in Nat /\ WarpsPerBlock \in Nat /\ MaxBlock \in Nat /\ i < MaxBlock
  BY LenFacts DEF Blocks
<1>2. fileSize = BufferSize
  BY DEF BufferInv
<1>3. w \in WarpsOf(core) <=> Stamp(core, w, FALSE) # {}
  BY <1>1, <1>2 DEF WarpsOf, HasBlock
<1>4. PICK s, t : s = Stamp(core, w, TRUE) /\ t = Stamp(core, w, FALSE)
  OBVIOUS
<1>5. PICK a : a = WarpOffset(i, w)
  OBVIOUS
<1>6. a \in Nat
  <2>1. i * WarpBlockLen \in Nat
    BY <1>1, LenFacts, Multiples
  <2> QED
    BY <1>1, <1>5, <2>1 DEF WarpOffset, WarpHeader
<1>7. /\ s = {} => StartTime(i, w) = 0
      /\ s # {} => StartTime(i, w) = Min(s)
  <2>1. PICK d \in {0, 1} : d = 0
    OBVIOUS
  <2>2. a = WarpOffset(i, w) + d /\ s = Stamp(core, w, d = 0)
    <3>1. (d = 0) = TRUE
      BY <2>1
    <3>2. s = Stamp(core, w, d = 0)
      BY <1>4, <3>1
    <3> QED
      BY <1>5, <1>6, <2>1, <3>2
  <2>3. /\ s = {} => Word(gm, a) = 0
        /\ s # {} => Word(gm, a) = Min(s)
    BY <2>2, TickIs
  <2> QED
    BY <1>5, <2>3, Zenon DEF StartTime
<1>8. /\ t = {} => EndTime(i, w) = 0
      /\ t # {} => EndTime(i, w) = Min(t)
  <2>1. PICK d \in {0, 1} : d = 1
    OBVIOUS
  <2>2. PICK b : b = WarpOffset(i, w) + d
    OBVIOUS
  <2>3. t = Stamp(core, w, d = 0)
    <3>1. (d = 0) = FALSE
      BY <2>1
    <3> QED
      BY <1>4, <3>1
  <2>4. /\ t = {} => Word(gm, b) = 0
        /\ t # {} => Word(gm, b) = Min(t)
    BY <2>2, <2>3, TickIs
  <2> QED
    BY <2>1, <2>2, <2>4, Zenon DEF EndTime
<1>9. ASSUME t # {}
      PROVE  /\ Word(gm, i * WarpBlockLen) = 1
             /\ StartTime(i, w) # 0 /\ EndTime(i, w) > StartTime(i, w)
             /\ StartTime(i, w) = FirstTick(core, w) /\ FirstTick(core, w) \in Nat
             /\ EndTime(i, w) = Min(t)
             /\ Word(gm, i * WarpBlockLen + 1) = i \div SubBlockDim
             /\ Word(gm, i * WarpBlockLen + 2) = i % SubBlockDim
  <2>1. PICK n : n \in t
    BY <1>9
  <2>2. PICK m : m \in s /\ m < n
    BY <1>4, <2>1, StartedBefore
  <2>3. Min(t) = n /\ n \in Nat \ {0}
    BY <1>4, <2>1, StampOnce
  <2>4. Min(s) = m /\ m \in Nat \ {0}
    BY <1>4, <2>2, StampOnce
  <2>5. /\ Word(gm, i * WarpBlockLen) = 1
        /\ Word(gm, i * WarpBlockLen + 1) = i \div SubBlockDim
        /\ Word(gm, i * WarpBlockLen + 2) = i % SubBlockDim
    BY <1>4, <2>2, HeaderIs
  <2>6. FirstTick(core, w) = m
    BY <1>4, <2>4 DEF FirstTick
  <2>7. StartTime(i, w) = m /\ EndTime(i, w) = n
    BY <1>7, <1>8, <1>9, <2>2, <2>3, <2>4
  <2> QED
    BY <2>2, <2>3, <2>4, <2>5, <2>6, <2>7
<1>10. ASSUME t = {}, StartTime(i, w) # 0 PROVE ~(EndTime(i, w) > StartTime(i, w))
  <2>1. s # {} /\ EndTime(i, w) = 0
    BY <1>7, <1>8, <1>10
  <2>2. PICK m : m \in s
    BY <2>1
  <2>3. Min(s) \in Nat
    BY <1>4, <2>2, StampOnce
  <2> QED
    BY <1>7, <2>1, <2>3
<1> QED
  BY <1>3, <1>4, <1>9, <1>10

LEMMA BlockEvents ==
  ASSUME BufferInv, FileRead, kernel.probe = "warps", NEW core \in Cores, BlockIndex(core) \in Blocks
  PROVE  AppendBlockEvents(BlockIndex(core)) = {Drawn(core, w) : w \in WarpsOf(core)}
<1>1. PICK i \in Blocks : i = BlockIndex(core)
  OBVIOUS
<1> DEFINE E(w) == [core |-> Word(gm, i * WarpBlockLen + 1), subCore |-> Word(gm, i * WarpBlockLen + 2),
                    warp |-> w, ts |-> StartTime(i, w), dur |-> EndTime(i, w) - StartTime(i, w)]
           R(w) == /\ Word(gm, i * WarpBlockLen) = 1
                   /\ StartTime(i, w) # 0 /\ EndTime(i, w) > StartTime(i, w)
<1>2. AppendBlockEvents(i) = {E(w) : w \in {v \in 0..(WarpsPerBlock - 1) : R(v)}}
  BY Zenon DEF AppendBlockEvents
<1>3. \A w \in WarpsOf(core) : w \in 0..(WarpsPerBlock - 1)
  BY DEF WarpsOf
<1>4. \A w \in 0..(WarpsPerBlock - 1) : w \in WarpsOf(core) <=> R(w)
  BY <1>1, WarpDrawn
<1>5. ASSUME NEW w \in WarpsOf(core) PROVE E(w) = Drawn(core, w)
  <2>1. w \in 0..(WarpsPerBlock - 1)
    BY <1>3
  <2>2. /\ StartTime(i, w) = FirstTick(core, w)
        /\ EndTime(i, w) = Min(Stamp(core, w, FALSE))
        /\ Word(gm, i * WarpBlockLen + 1) = i \div SubBlockDim
        /\ Word(gm, i * WarpBlockLen + 2) = i % SubBlockDim
    BY <1>1, <1>5, <2>1, WarpDrawn
  <2> QED
    BY <1>1, <2>2, Zenon DEF Drawn
<1> HIDE DEF E, R
<1>6. {v \in 0..(WarpsPerBlock - 1) : R(v)} = WarpsOf(core)
  BY <1>3, <1>4
<1>7. {E(w) : w \in WarpsOf(core)} = {Drawn(core, w) : w \in WarpsOf(core)}
  BY <1>5
<1> QED
  BY <1>1, <1>2, <1>6, <1>7, Zenon

LEMMA NoBlockEvents ==
  ASSUME BufferInv, FileRead, kernel.probe = "warps", NEW i \in Blocks, \A core \in Cores : BlockIndex(core) # i
  PROVE  AppendBlockEvents(i) = {}
<1>1. \A w \in 0..(WarpsPerBlock - 1) : StartTime(i, w) = 0
  BY NoTick
<1> QED
  BY <1>1 DEF AppendBlockEvents

Drawing(core) == {Drawn(core, w) : w \in WarpsOf(core)}

LEMMA AllEvents ==
  ASSUME BufferInv, FileRead, kernel.probe = "warps"
  PROVE  UNION {AppendBlockEvents(i) : i \in Blocks} = UNION {Drawing(core) : core \in Cores}
<1>1. ASSUME NEW i \in Blocks, NEW e \in AppendBlockEvents(i) PROVE e \in UNION {Drawing(core) : core \in Cores}
  <2>1. PICK core \in Cores : BlockIndex(core) = i
    BY <1>1, NoBlockEvents
  <2>2. AppendBlockEvents(BlockIndex(core)) = {Drawn(core, w) : w \in WarpsOf(core)}
    BY <2>1, BlockEvents
  <2>3. e \in Drawing(core)
    BY <1>1, <2>1, <2>2, Zenon DEF Drawing
  <2> QED
    BY <2>3
<1>2. ASSUME NEW core \in Cores, NEW e \in Drawing(core) PROVE e \in UNION {AppendBlockEvents(i) : i \in Blocks}
  <2>1. PICK w \in WarpsOf(core) : e = Drawn(core, w)
    BY <1>2 DEF Drawing
  <2>2. HasBlock(core) /\ fileSize = BufferSize
    BY <2>1 DEF WarpsOf, BufferInv
  <2>3. BlockIndex(core) \in Nat
    BY IndexFacts DEF BufferInv
  <2>4. BlockIndex(core) \in Blocks
    BY <2>2, <2>3, LenFacts DEF HasBlock, Blocks
  <2>5. AppendBlockEvents(BlockIndex(core)) = Drawing(core)
    BY <2>4, BlockEvents, Zenon DEF Drawing
  <2> QED
    BY <1>2, <2>4, <2>5
<1>3. \A e : e \in UNION {AppendBlockEvents(i) : i \in Blocks} <=> e \in UNION {Drawing(core) : core \in Cores}
  BY <1>1, <1>2
<1> QED
  BY <1>3

(* The place the host shows a core at.                                      *)
LEMMA PlaceIs ==
  ASSUME kernel \in Kernels, NEW core \in Cores, IsVec(core)
  PROVE  /\ PlaceOf(core)[1] = BlockIndex(core) \div SubBlockDim
         /\ PlaceOf(core)[2] = BlockIndex(core) % SubBlockDim
<1>1. PICK b \in Nat : b = core.block
  BY CoreFacts
<1>2. CASE kernel.opType = "MIX"
  <2>1. core.sub \in {"vector0", "vector1"}
    BY <1>2, CoreFacts DEF IsVec
  <2>2. PICK s \in {0, 1} : s = VecIndex(core.sub) /\ s = IF core.sub = "vector1" THEN 1 ELSE 0
    BY DEF VecIndex
  <2>3. BlockIndex(core) = 3 * b + s
    BY <1>1, <1>2, <2>1, <2>2, IndexIs
  <2>4. (3 * b + s) \div 3 = b /\ (3 * b + s) % 3 = s
    OBVIOUS
  <2>5. PlaceOf(core)[1] = b /\ PlaceOf(core)[2] = s
    BY <1>1, <1>2, <2>2 DEF PlaceOf
  <2> QED
    BY <2>3, <2>4, <2>5 DEF SubBlockDim
<1>3. CASE kernel.opType = "VECTOR"
  <2>1. BlockIndex(core) = b + b \div 2
    BY <1>1, <1>3, IndexIs
  <2>2. (b + b \div 2) \div 3 = b \div 2 /\ (b + b \div 2) % 3 = b % 2
    OBVIOUS
  <2>3. PlaceOf(core)[1] = b \div 2 /\ PlaceOf(core)[2] = b % 2
    BY <1>1, <1>3 DEF PlaceOf
  <2> QED
    BY <2>1, <2>2, <2>3 DEF SubBlockDim
<1>4. kernel.opType # "CUBE"
  BY CoreFacts DEF IsVec
<1> QED
  BY <1>2, <1>3, <1>4, CoreFacts

LEMMA WarpsOnVec ==
  ASSUME BufferInv, kernel.probe = "warps", NEW core, NEW w \in WarpsOf(core)
  PROVE  core \in Cores /\ IsVec(core) /\ w \in 0..(WarpsPerBlock - 1) /\ FirstTick(core, w) \in Nat
<1>1. PICK n : n \in Stamp(core, w, FALSE)
  BY DEF WarpsOf
<1>2. n \in DOMAIN executed /\ executed[n].core = core
  BY <1>1 DEF Stamp, Stubs
<1>3. PICK m : m \in Stamp(core, w, TRUE)
  BY <1>1, StartedBefore
<1>4. FirstTick(core, w) \in Nat
  BY <1>3, StampOnce DEF FirstTick
<1> QED
  BY <1>2, <1>4, WarpStub DEF WarpsOf

(* Events of one place are events of one core.                              *)
LEMMA PlacesApart ==
  ASSUME BufferInv, kernel.probe = "warps", NEW c, NEW d, NEW v \in WarpsOf(c), NEW w \in WarpsOf(d)
  PROVE  SamePid(Drawn(c, v), Drawn(d, w)) <=> c = d
<1>1. c \in Cores /\ d \in Cores /\ kernel \in Kernels
  BY WarpsOnVec DEF BufferInv
<1>2. PICK i \in Nat, j \in Nat : i = BlockIndex(c) /\ j = BlockIndex(d)
  BY <1>1, IndexFacts
<1>3. /\ Drawn(c, v).core = i \div 3 /\ Drawn(c, v).subCore = i % 3
      /\ Drawn(d, w).core = j \div 3 /\ Drawn(d, w).subCore = j % 3
  BY <1>2 DEF Drawn, SubBlockDim
<1>4. i \div 3 = j \div 3 /\ i % 3 = j % 3 <=> i = j
  OBVIOUS
<1>5. i = j <=> c = d
  BY <1>1, <1>2, OwnIndex
<1> QED
  BY <1>3, <1>4, <1>5 DEF SamePid

(* An event as the host draws it: at the place of its core, counted from    *)
(* the first warp of this core.                                             *)
Shown(c, w) ==
  [core |-> PlaceOf(c)[1], subCore |-> PlaceOf(c)[2], warp |-> w,
   ts |-> FirstTick(c, w) - Min({FirstTick(c, v) : v \in WarpsOf(c)}),
   dur |-> Min(Stamp(c, w, FALSE)) - FirstTick(c, w)]
FromFirst(events, e) == [e EXCEPT !.ts = @ - Min({o.ts : o \in {x \in events : SamePid(x, e)}})]
Showing(c) == {Shown(c, w) : w \in WarpsOf(c)}

LEMMA Normalized ==
  ASSUME BufferInv, kernel.probe = "warps", NEW events, events = UNION {Drawing(core) : core \in Cores},
         NEW c \in Cores, NEW v \in WarpsOf(c), NEW e, e = Drawn(c, v)
  PROVE  FromFirst(events, e) = Shown(c, v)
<1>1. PICK X : X = {o.ts : o \in {x \in events : SamePid(x, e)}}
  OBVIOUS
<1>2. PICK Y : Y = {FirstTick(c, w) : w \in WarpsOf(c)}
  OBVIOUS
<1>3. ASSUME NEW x PROVE x \in X <=> x \in Y
  <2>1. ASSUME x \in X PROVE x \in Y
    <3>1. PICK o \in events : SamePid(o, e) /\ x = o.ts
      BY <1>1, <2>1
    <3>2. PICK d \in Cores : o \in Drawing(d)
      BY <3>1
    <3>3. PICK w \in WarpsOf(d) : o = Drawn(d, w)
      BY <3>2 DEF Drawing
    <3>4. SamePid(Drawn(d, w), Drawn(c, v))
      BY <3>1, <3>3, Zenon
    <3>5. d = c
      BY <3>3, <3>4, PlacesApart
    <3>6. x = FirstTick(c, w)
      BY <3>1, <3>3, <3>5 DEF Drawn
    <3> QED
      BY <1>2, <3>3, <3>5, <3>6
  <2>2. ASSUME x \in Y PROVE x \in X
    <3>1. PICK w \in WarpsOf(c) : x = FirstTick(c, w)
      BY <1>2, <2>2
    <3>2. PICK o : o = Drawn(c, w)
      OBVIOUS
    <3>3. o \in Drawing(c) /\ SamePid(o, e)
      BY <3>2, PlacesApart DEF Drawing
    <3>4. o.ts = x
      BY <3>1, <3>2 DEF Drawn
    <3>5. o \in events
      BY <3>3
    <3> QED
      BY <1>1, <3>3, <3>4, <3>5
  <2> QED
    BY <2>1, <2>2
<1>4. X = Y
  BY <1>3
<1>5. PICK m : m = Min(X) /\ m = Min(Y)
  BY <1>4
<1>6. PlaceOf(c)[1] = BlockIndex(c) \div SubBlockDim /\ PlaceOf(c)[2] = BlockIndex(c) % SubBlockDim
  BY WarpsOnVec, PlaceIs DEF BufferInv
<1>7. PICK p, q, t, u : /\ p = PlaceOf(c)[1] /\ q = PlaceOf(c)[2] /\ t = FirstTick(c, v)
                        /\ u = Min(Stamp(c, v, FALSE)) - FirstTick(c, v)
  OBVIOUS
<1>8. e = [core |-> p, subCore |-> q, warp |-> v, ts |-> t, dur |-> u]
  BY <1>6, <1>7, Zenon DEF Drawn
<1>9. [e EXCEPT !.ts = @ - m] = [core |-> p, subCore |-> q, warp |-> v, ts |-> t - m, dur |-> u]
  BY <1>8
<1>10. FromFirst(events, e) = [e EXCEPT !.ts = @ - m]
  BY <1>1, <1>5, Zenon DEF FromFirst
<1>11. Shown(c, v) = [core |-> p, subCore |-> q, warp |-> v, ts |-> t - m, dur |-> u]
  BY <1>2, <1>5, <1>7, Zenon DEF Shown
<1> QED
  BY <1>9, <1>10, <1>11, Zenon

LEMMA WarpsRight ==
  ASSUME BufferInv, FileRead, kernel.probe = "warps"
  PROVE  WarpsDrawn
<1>1. PICK events : events = UNION {Drawing(core) : core \in Cores}
  OBVIOUS
<1>2. UNION {AppendBlockEvents(i) : i \in 0..(MaxBlock - 1)} = events
  BY <1>1, AllEvents, Zenon DEF Blocks
<1>3. TraceEvents = {FromFirst(events, e) : e \in events}
  BY <1>2, Zenon DEF TraceEvents, NormalizeTraceEventStart, FromFirst
<1>4. ASSUME NEW c \in Cores, NEW v \in WarpsOf(c)
      PROVE  FromFirst(events, Drawn(c, v)) = Shown(c, v)
  BY <1>1, <1>4, Normalized
<1>5. ASSUME NEW x PROVE x \in TraceEvents <=> x \in UNION {Showing(c) : c \in Cores}
  <2>1. ASSUME x \in TraceEvents PROVE x \in UNION {Showing(c) : c \in Cores}
    <3>1. PICK e \in events : x = FromFirst(events, e)
      BY <1>3, <2>1, Zenon
    <3>2. PICK c \in Cores : e \in Drawing(c)
      BY <1>1, <3>1, Zenon
    <3>3. PICK v \in WarpsOf(c) : e = Drawn(c, v)
      BY <3>2, Zenon DEF Drawing
    <3>4. x = Shown(c, v)
      BY <1>4, <3>1, <3>3, Zenon
    <3>5. x \in Showing(c)
      BY <3>4, Zenon DEF Showing
    <3> QED
      BY <3>5, Zenon
  <2>2. ASSUME x \in UNION {Showing(c) : c \in Cores} PROVE x \in TraceEvents
    <3>1. PICK c \in Cores : x \in Showing(c)
      BY <2>2, Zenon
    <3>2. PICK v \in WarpsOf(c) : x = Shown(c, v)
      BY <3>1, Zenon DEF Showing
    <3>3. Drawn(c, v) \in Drawing(c)
      BY Zenon DEF Drawing
    <3>4. Drawn(c, v) \in events
      BY <1>1, <3>3, Zenon
    <3>5. x = FromFirst(events, Drawn(c, v))
      BY <1>4, <3>2, Zenon
    <3> QED
      BY <1>3, <3>4, <3>5, Zenon
  <2> QED
    BY <2>1, <2>2
<1>6. TraceEvents = UNION {Showing(c) : c \in Cores}
  BY <1>5
<1> QED
  BY <1>6, Zenon DEF WarpsDrawn, Showing, Shown

LEMMA RecordsRight == BufferInv => RecordsOfItsCore
<1> SUFFICES ASSUME BufferInv, FileRead PROVE RecordsOfItsCore!2
  BY DEF RecordsOfItsCore
<1>1. ASSUME NEW a \in DOMAIN gm, gm[a] # 0
      PROVE  a < (IF kernel.probe = "warps" THEN MaxBlock * WarpBlockLen ELSE BufferSize)
  BY <1>1, WithinBuffer, BufferEnds, Zenon
<1>2. kernel.probe = "operands" => OperandsAttributed
  BY OperandsRight
<1>3. kernel.probe = "warps" => WarpsDrawn
  BY WarpsRight
<1> QED
  BY <1>1, <1>2, <1>3

(* What the host makes of the buffer of a probe is what each core did:      *)
(* counts and operations by type, the sums of the roofline, the warps that  *)
(* ended; and nothing is written behind the buffer.                         *)
THEOREM RecordsCorrect == CoreRecordSpec => []RecordsOfItsCore
<1> QED
  BY BufferAlways, RecordsRight, PTL
==============================================================================
