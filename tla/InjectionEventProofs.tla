------------------------ MODULE InjectionEventProofs ------------------------
(***************************************************************************)
(* Proofs about InjectionEvent, for any clients, packets, head length and  *)
(* number of rounds.                                                       *)
(*                                                                         *)
(* FramingExact is about whole streams, so the invariant (Intact) says     *)
(* what is where: the head that is read, the payload so far, the message   *)
(* of the listener, the queue, the socket and what a dead program did not  *)
(* get out are, one behind the other, the stream of the client from packet *)
(* m on.  An action moves units from one place to the next, which regroups *)
(* a concatenation; when a packet is complete, m moves on by one.          *)
(*                                                                         *)
(* The streams are FlattenSeq of sequences of any length.  FlattenSeq is a *)
(* recursive function; what it does with a longer sequence is proved here  *)
(* by induction over a set of numbers (SetInduction).                      *)
(*                                                                         *)
(* Inv holds in every round.  The rest (Frames) holds up to the end of the *)
(* first one: packetMap_ outlives the server, and what was left unfinished *)
(* in it is put in front of what the clients of the next round send.       *)
(***************************************************************************)
EXTENDS InjectionEvent, SequenceTheorems, WellFoundedInduction, TLAPS

-----------------------------------------------------------------------------
(* Sequences: concatenation and FlattenSeq.                                *)

(* A set of numbers that holds 0 and the successors of its members.        *)
LEMMA SetInduction ==
  ASSUME NEW T, 0 \in T, \A n \in Nat : n \in T => n + 1 \in T
  PROVE  \A n \in Nat : n \in T
<1>1. SUFFICES ASSUME NEW m \in Nat, m \notin T PROVE FALSE
  OBVIOUS
<1> DEFINE F == {n \in Nat : n \notin T}
<1>2. PICK x \in F : \A y \in F : ~ (<<y, x>> \in OpToRel(<, Nat))
  <2>1. F \subseteq Nat /\ F # {}
    BY <1>1
  <2>2. QED
    BY <2>1, WFMin, NatLessThanWellFounded
<1>3. x # 0 /\ x \in Nat
  OBVIOUS
<1>4. x - 1 \in Nat /\ x - 1 \in F
  BY <1>3
<1>5. <<x - 1, x>> \in OpToRel(<, Nat)
  BY <1>3, <1>4 DEF OpToRel
<1> QED
  BY <1>2, <1>4, <1>5

(* Concatenation, kept folded where a step only regroups. *)
Cat(s, t) == s \o t

(* The facts of SequenceTheorems about concatenation, folded.              *)
LEMMA CatAssoc ==
  ASSUME NEW U, NEW x \in Seq(U), NEW y \in Seq(U), NEW z \in Seq(U)
  PROVE  Cat(Cat(x, y), z) = Cat(x, Cat(y, z))
BY ConcatAssociative DEF Cat

LEMMA CatType ==
  ASSUME NEW U, NEW x \in Seq(U), NEW y \in Seq(U)
  PROVE  Cat(x, y) \in Seq(U) /\ Len(Cat(x, y)) = Len(x) + Len(y)
BY ConcatProperties DEF Cat

LEMMA CatEmpty ==
  ASSUME NEW U, NEW x \in Seq(U)
  PROVE  Cat(x, << >>) = x /\ Cat(<< >>, x) = x
BY ConcatEmptySeq DEF Cat

(* f is what the recursive function in FlattenSeq is on 1..n.              *)
Steps(s, f, n) == \A i \in 1..n : f[i] = IF i = 1 THEN s[i] ELSE f[i - 1] \o s[i]

(* Such a function exists, whatever the length.                            *)
LEMMA StepsExist ==
  ASSUME NEW U, NEW s \in Seq(Seq(U)), NEW n \in 0..Len(s)
  PROVE  \E f \in [1..n -> Seq(U)] : Steps(s, f, n)
<1> DEFINE T == {k \in Nat : k <= Len(s) => \E f \in [1..k -> Seq(U)] : Steps(s, f, k)}
<1>1. 0 \in T
  <2>1. [i \in 1..0 |-> <<>>] \in [1..0 -> Seq(U)]
    OBVIOUS
  <2>2. Steps(s, [i \in 1..0 |-> <<>>], 0)
    BY DEF Steps
  <2>3. \E f \in [1..0 -> Seq(U)] : Steps(s, f, 0)
    BY <2>1, <2>2
  <2> QED
    BY <2>3
<1>2. ASSUME NEW k \in Nat, k \in T PROVE k + 1 \in T
  <2> SUFFICES ASSUME k + 1 <= Len(s) PROVE \E f \in [1..(k + 1) -> Seq(U)] : Steps(s, f, k + 1)
    OBVIOUS
  <2>1. PICK f \in [1..k -> Seq(U)] : Steps(s, f, k)
    BY <1>2
  <2>2. s[k + 1] \in Seq(U) /\ s[1] \in Seq(U)
    BY ElementOfSeq
  <2> DEFINE g == [i \in 1..(k + 1) |-> IF i <= k THEN f[i] ELSE IF k = 0 THEN s[1] ELSE f[k] \o s[k + 1]]
  <2>3. g \in [1..(k + 1) -> Seq(U)]
    <3>1. k # 0 => f[k] \o s[k + 1] \in Seq(U)
      BY <2>2, ConcatProperties
    <3> QED BY <3>1, <2>2
  <2>4. \A i \in 1..k : g[i] = f[i]
    OBVIOUS
  <2>5. g[k + 1] = IF k = 0 THEN s[1] ELSE f[k] \o s[k + 1]
    OBVIOUS
  <2> HIDE DEF g
  <2>6. ASSUME NEW i \in 1..(k + 1) PROVE g[i] = IF i = 1 THEN s[i] ELSE g[i - 1] \o s[i]
    <3>1. CASE i <= k
      <4>1. g[i] = f[i] /\ (i # 1 => g[i - 1] = f[i - 1])
        BY <3>1, <2>4
      <4>2. i \in 1..k
        BY <3>1
      <4>3. f[i] = IF i = 1 THEN s[i] ELSE f[i - 1] \o s[i]
        BY <4>2, <2>1 DEF Steps
      <4> QED BY <4>1, <4>3
    <3>2. CASE i = k + 1
      BY <3>2, <2>4, <2>5
    <3> QED BY <3>1, <3>2
  <2> QED BY <2>3, <2>6 DEF Steps
<1>3. \A k \in Nat : k \in T
  <2> HIDE DEF T
  <2> QED BY <1>1, <1>2, SetInduction
<1> QED BY <1>3

(* There is only one, and it does not depend on the length.                *)
LEMMA StepsUnique ==
  ASSUME NEW s, NEW f, NEW g, NEW n \in Nat, NEW m \in Nat, n <= m, Steps(s, f, n), Steps(s, g, m)
  PROVE  \A i \in 1..n : f[i] = g[i]
<1> DEFINE T == {k \in Nat : k \in 1..n => f[k] = g[k]}
<1>1. 0 \in T
  OBVIOUS
<1>2. ASSUME NEW k \in Nat, k \in T PROVE k + 1 \in T
  BY <1>2 DEF Steps
<1>3. \A k \in Nat : k \in T
  <2> HIDE DEF T
  <2> QED BY <1>1, <1>2, SetInduction
<1> QED BY <1>3

(* FlattenSeq CHOOSEs such a function: it exists and its values are unique. *)
LEMMA FlattenIs ==
  ASSUME NEW U, NEW s \in Seq(Seq(U)), s # <<>>
  PROVE  \E f : /\ \A i \in 1..Len(s) : f[i] \in Seq(U)
                /\ Steps(s, f, Len(s)) /\ FlattenSeq(s) = f[Len(s)]
<1>1. Len(s) \in Nat /\ Len(s) # 0
  BY EmptySeq, LenProperties
<1> DEFINE R(f) == [i \in 1..Len(s) |-> IF i = 1 THEN s[i] ELSE f[i - 1] \o s[i]]
           h == CHOOSE f : f = R(f)
<1>2. PICK f \in [1..Len(s) -> Seq(U)] : Steps(s, f, Len(s))
  <2>1. Len(s) \in 0..Len(s)
    BY <1>1
  <2> QED BY <2>1, StepsExist
<1>3. f = R(f)
  BY <1>2 DEF Steps
<1>4. h = R(h)
  BY <1>3
<1>5. FlattenSeq(s) = h[Len(s)]
  BY <1>1 DEF FlattenSeq
<1>6. Steps(s, h, Len(s))
  <2> HIDE DEF h
  <2> QED BY <1>4 DEF Steps
<1>7. h[Len(s)] = f[Len(s)]
  <2> HIDE DEF h
  <2> QED BY <1>1, <1>2, <1>6, StepsUnique
<1>8. \A i \in 1..Len(s) : f[i] \in Seq(U)
  BY <1>2
<1>9. Steps(s, f, Len(s)) /\ FlattenSeq(s) = f[Len(s)]
  BY <1>2, <1>5, <1>7
<1> QED BY ONLY <1>8, <1>9

LEMMA FlattenEmpty == FlattenSeq(<< >>) = << >>
BY DEF FlattenSeq

LEMMA FlattenType ==
  ASSUME NEW U, NEW s \in Seq(Seq(U)) PROVE FlattenSeq(s) \in Seq(U)
<1>1. CASE s = <<>>
  BY <1>1, FlattenEmpty, EmptySeq
<1>2. CASE s # <<>>
  <2>1. Len(s) \in 1..Len(s)
    BY <1>2, EmptySeq, LenProperties
  <2>2. PICK f : FlattenSeq(s) = f[Len(s)] /\ \A i \in 1..Len(s) : f[i] \in Seq(U)
    BY <1>2, FlattenIs
  <2> QED BY <2>1, <2>2
<1> QED BY <1>1, <1>2

(* What FlattenSeq does with a longer sequence, at either end.             *)
LEMMA FlattenAppend ==
  ASSUME NEW U, NEW s \in Seq(Seq(U)), NEW x \in Seq(U)
  PROVE  FlattenSeq(Append(s, x)) = Cat(FlattenSeq(s), x)
<1> DEFINE t == Append(s, x)
           n == Len(s)
<1>1. /\ t \in Seq(Seq(U)) /\ Len(t) = n + 1 /\ n \in Nat
      /\ \A i \in 1..n : t[i] = s[i]
      /\ t[n + 1] = x
      /\ t # <<>>
  BY AppendProperties, LenProperties
<1> HIDE DEF t
<1>2. PICK f : Steps(t, f, n + 1) /\ FlattenSeq(t) = f[n + 1]
  BY <1>1, FlattenIs
<1>3. CASE s = <<>>
  <2>1. n = 0
    BY <1>3, EmptySeq
  <2>2. f[1] = x
    BY <1>1, <1>2, <2>1 DEF Steps
  <2>3. Cat(<< >>, x) = x
    BY CatEmpty
  <2> QED BY <1>2, <2>1, <2>2, <2>3, <1>3, FlattenEmpty DEF t
<1>4. CASE s # <<>>
  <2>1. n # 0
    BY <1>4, EmptySeq
  <2>2. PICK g : Steps(s, g, n) /\ FlattenSeq(s) = g[n]
    BY <1>4, FlattenIs
  <2>3. Steps(s, f, n)
    <3> SUFFICES ASSUME NEW i \in 1..n PROVE f[i] = IF i = 1 THEN s[i] ELSE f[i - 1] \o s[i]
      BY DEF Steps
    <3>1. i \in 1..(n + 1) /\ t[i] = s[i]
      BY <1>1
    <3>2. f[i] = IF i = 1 THEN t[i] ELSE f[i - 1] \o t[i]
      BY <1>2, <3>1 DEF Steps
    <3> QED BY <3>1, <3>2
  <2>4. f[n] = g[n]
    <3>1. n \in Nat /\ n <= n /\ n \in 1..n
      BY <2>1, <1>1
    <3>2. \A i \in 1..n : f[i] = g[i]
      BY <3>1, <2>2, <2>3, StepsUnique
    <3> QED BY <3>1, <3>2
  <2>5. f[n + 1] = f[n] \o x
    <3>1. n + 1 \in 1..(n + 1) /\ n + 1 # 1 /\ (n + 1) - 1 = n
      BY <2>1, <1>1
    <3>2. f[n + 1] = IF n + 1 = 1 THEN t[n + 1] ELSE f[(n + 1) - 1] \o t[n + 1]
      BY <1>2, <3>1 DEF Steps
    <3> QED BY <3>1, <3>2, <1>1
  <2> QED BY <1>2, <2>2, <2>4, <2>5 DEF t, Cat
<1> QED BY <1>3, <1>4

Shifted(s, t, f, g, n) ==
    /\ n \in Nat \ {0} /\ Steps(s, f, n + 1) /\ Steps(t, g, n)
    /\ \A i \in 1..n : t[i] = s[i + 1]
    /\ \A i, j \in 1..n : Cat(Cat(s[1], g[i]), t[j]) = Cat(s[1], Cat(g[i], t[j]))

(* A sequence without its first element leaves the same, less that one.    *)
LEMMA StepsShift ==
  ASSUME NEW s, NEW t, NEW f, NEW g, NEW n, Shifted(s, t, f, g, n)
  PROVE  f[n + 1] = Cat(s[1], g[n])
<1> USE DEF Shifted
<1> DEFINE T == {k \in Nat : k \in 1..n => f[k + 1] = Cat(s[1], g[k])}
<1>1. 0 \in T
  OBVIOUS
<1>2. ASSUME NEW k \in Nat, k \in T PROVE k + 1 \in T
  <2>1. ASSUME k + 1 \in 1..n PROVE f[(k + 1) + 1] = Cat(s[1], g[k + 1])
    <3>1. /\ (k + 1) + 1 \in 1..(n + 1) /\ (k + 1) + 1 # 1 /\ ((k + 1) + 1) - 1 = k + 1
          /\ (k + 1) - 1 = k /\ k + 1 \in 1..n
      BY <2>1
    <3>2. f[(k + 1) + 1] = Cat(f[k + 1], s[(k + 1) + 1])
      BY <3>1 DEF Steps, Cat
    <3>3. g[k + 1] = IF k + 1 = 1 THEN t[k + 1] ELSE Cat(g[(k + 1) - 1], t[k + 1])
      BY <3>1 DEF Steps, Cat
    <3>4. t[k + 1] = s[(k + 1) + 1]
      BY <3>1
    <3>5. CASE k = 0
      <4>1. 1 \in 1..(n + 1) /\ k + 1 = 1
        BY <3>5
      <4>2. f[1] = s[1]
        BY <4>1 DEF Steps
      <4> QED BY <4>1, <4>2, <3>2, <3>3, <3>4
    <3>6. CASE k # 0
      <4>1. k \in 1..n /\ k + 1 # 1
        BY <3>6, <2>1
      <4>2. f[k + 1] = Cat(s[1], g[k])
        BY <4>1, <1>2
      <4>3. Cat(Cat(s[1], g[k]), t[k + 1]) = Cat(s[1], Cat(g[k], t[k + 1]))
        BY <4>1, <3>1, Zenon
      <4> QED BY <4>1, <4>2, <4>3, <3>1, <3>2, <3>3, <3>4
    <3> QED BY <3>5, <3>6
  <2>2. k + 1 \in Nat
    OBVIOUS
  <2>3. k + 1 \in 1..n => f[(k + 1) + 1] = Cat(s[1], g[k + 1])
    BY <2>1
  <2> QED BY <2>2, <2>3, Zenon
<1>3. \A k \in Nat : k \in T
  <2> HIDE DEF T
  <2> QED BY <1>1, <1>2, SetInduction
<1>4. n \in T
  <2> HIDE DEF T
  <2> QED BY <1>3
<1>5. n \in 1..n
  OBVIOUS
<1>6. f[n + 1] = Cat(s[1], g[n])
  BY <1>4, <1>5, Zenon
<1> QED BY <1>6

(* FlattenSeq of a sequence is its first element and that of its tail.     *)
LEMMA FlattenTail ==
  ASSUME NEW U, NEW s \in Seq(Seq(U)), s # <<>>
  PROVE  FlattenSeq(s) = Cat(s[1], FlattenSeq(Tail(s)))
<1> DEFINE n == Len(s)
<1>0. PICK t : t = Tail(s)
  OBVIOUS
<1>1. /\ n \in Nat /\ n # 0 /\ t \in Seq(Seq(U)) /\ Len(t) = n - 1
      /\ \A i \in 1..(n - 1) : t[i] = s[i + 1]
      /\ \A i \in 1..n : s[i] \in Seq(U)
  BY <1>0, HeadTailProperties, EmptySeq, LenProperties, ElementOfSeq
<1>2. PICK f : Steps(s, f, n) /\ FlattenSeq(s) = f[n]
  BY FlattenIs
<1>3. f[1] = s[1]
  <2>1. 1 \in 1..n
    BY <1>1
  <2> QED BY <2>1, <1>2 DEF Steps
<1>4. CASE t = <<>>
  <2>1. n = 1
    BY <1>1, <1>4, EmptySeq
  <2>2. FlattenSeq(t) = <<>>
    BY <1>4, FlattenEmpty
  <2>3. Cat(s[1], <<>>) = s[1]
    <3>1. s[1] \in Seq(U)
      BY <1>1
    <3> QED BY <3>1, CatEmpty
  <2> QED BY <1>2, <1>3, <2>1, <2>2, <2>3, <1>0
<1>5. CASE t # <<>>
  <2>1. n - 1 \in Nat /\ n - 1 # 0
    BY <1>1, <1>5, EmptySeq
  <2>2. PICK g : /\ Steps(t, g, n - 1) /\ FlattenSeq(t) = g[n - 1]
               /\ \A i \in 1..(n - 1) : g[i] \in Seq(U)
    <3>1. \E g : /\ \A i \in 1..Len(t) : g[i] \in Seq(U)
                 /\ Steps(t, g, Len(t)) /\ FlattenSeq(t) = g[Len(t)]
      BY <1>1, <1>5, FlattenIs
    <3> QED BY <3>1, <1>1
  <2>3. s[1] \in Seq(U)
    <3>1. 1 \in 1..n
      BY <1>1
    <3> QED BY <3>1, <1>1
  <2>4. \A i \in 1..(n - 1) : t[i] = s[i + 1] /\ t[i] \in Seq(U)
    BY <1>1
  <2>5. PICK m \in Nat \ {0} : n = m + 1 /\ m = n - 1
    BY <1>1, <2>1
  <2>6. /\ Steps(s, f, n) /\ Steps(t, g, m)
        /\ \A i \in 1..m : t[i] = s[i + 1] /\ t[i] \in Seq(U) /\ g[i] \in Seq(U)
    BY <1>2, <2>1, <2>2, <2>4, <2>5
  <2>7. ASSUME NEW i \in 1..m, NEW j \in 1..m
        PROVE  Cat(Cat(s[1], g[i]), t[j]) = Cat(s[1], Cat(g[i], t[j]))
    <3>1. s[1] \in Seq(U) /\ g[i] \in Seq(U) /\ t[j] \in Seq(U)
      BY <2>3, <2>6
    <3> QED BY <3>1, CatAssoc
  <2>8. f[n] = Cat(s[1], g[m])
    <3>1. \A i \in 1..m : t[i] = s[i + 1]
      BY <2>6
    <3>2. \A i, j \in 1..m : Cat(Cat(s[1], g[i]), t[j]) = Cat(s[1], Cat(g[i], t[j]))
      BY <2>7
    <3>3. n = m + 1 /\ Steps(s, f, m + 1) /\ Steps(t, g, m)
      BY <2>5, <2>6
    <3> HIDE DEF n
    <3>4. Shifted(s, t, f, g, m)
      BY <3>1, <3>2, <3>3 DEF Shifted
    <3>5. f[m + 1] = Cat(s[1], g[m])
      BY <3>4, StepsShift
    <3> QED BY <3>3, <3>5
  <2> QED BY <1>2, <2>2, <2>5, <2>8, <1>0
<1> QED BY <1>4, <1>5

(* Two concatenations are equal part by part when the first parts are as long. *)
LEMMA Cancel ==
  ASSUME NEW U, NEW x \in Seq(U), NEW y \in Seq(U), NEW s \in Seq(U), NEW t \in Seq(U),
         Len(x) = Len(y), Cat(x, s) = Cat(y, t)
  PROVE  x = y /\ s = t
<1> USE DEF Cat
<1>1. /\ Len(x) \in Nat /\ Len(s) \in Nat /\ Len(y) \in Nat /\ Len(t) \in Nat
  BY LenProperties
<1>2. /\ Len(x \o s) = Len(x) + Len(s) /\ Len(y \o t) = Len(y) + Len(t)
      /\ \A i \in 1..(Len(x) + Len(s)) :
            (x \o s)[i] = IF i <= Len(x) THEN x[i] ELSE s[i - Len(x)]
      /\ \A i \in 1..(Len(y) + Len(t)) :
            (y \o t)[i] = IF i <= Len(y) THEN y[i] ELSE t[i - Len(y)]
  BY ConcatProperties
<1>3. \A i \in 1..Len(x) : x[i] = y[i]
  <2> TAKE i \in 1..Len(x)
  <2>1. i \in 1..(Len(x) + Len(s)) /\ i \in 1..(Len(y) + Len(t)) /\ i <= Len(x) /\ i <= Len(y)
    BY <1>1
  <2> QED BY <2>1, <1>2
<1>4. x = y
  BY <1>3, SeqEqual
<1> QED BY <1>4, ConcatSimplifications

(* A sequence is a prefix of every extension.                              *)
LEMMA PrefixOfConcat ==
  ASSUME NEW U, NEW s \in Seq(U), NEW t \in Seq(U)
  PROVE  IsPrefix(s, Cat(s, t))
<1> USE DEF Cat
<1>1. /\ Len(s) \in Nat /\ Len(t) \in Nat /\ s \o t \in Seq(U)
      /\ Len(s \o t) = Len(s) + Len(t)
  BY LenProperties, ConcatProperties
<1>2. CASE Len(s) = 0
  <2>1. SubSeq(s, 1, Len(s)) = <<>> /\ SubSeq(s \o t, 1, Len(s)) = <<>>
    BY <1>2, SubSeqEmpty
  <2> QED BY <2>1, <1>1 DEF IsPrefix
<1>3. CASE Len(s) # 0
  <2>1. 1 \in 1..Len(s) /\ Len(s) \in 1..Len(s)
    BY <1>1, <1>3
  <2>2. SubSeq(s \o t, 1, Len(s)) = SubSeq(s, 1, Len(s))
    BY <2>1, SubSeqOfConcat1
  <2> QED BY <2>2, <1>1 DEF IsPrefix
<1> QED BY <1>2, <1>3

(* SubSeq cuts a sequence in two that make it up again.                    *)
LEMMA Cut ==
  ASSUME NEW U, NEW s \in Seq(U), NEW k \in 0..Len(s)
  PROVE  /\ SubSeq(s, 1, k) \in Seq(U) /\ Len(SubSeq(s, 1, k)) = k
         /\ SubSeq(s, k + 1, Len(s)) \in Seq(U) /\ Len(SubSeq(s, k + 1, Len(s))) = Len(s) - k
         /\ Cat(SubSeq(s, 1, k), SubSeq(s, k + 1, Len(s))) = s
<1> USE DEF Cat
<1>1. Len(s) \in Nat /\ \A i \in 1..Len(s) : s[i] \in U
  BY LenProperties, ElementOfSeq
<1>2. 1 \in 1..(Len(s) + 1) /\ k \in (1 - 1)..Len(s) /\ Len(s) \in k..Len(s)
  BY <1>1
<1>3. SubSeq(s, 1, k) \o SubSeq(s, k + 1, Len(s)) = SubSeq(s, 1, Len(s))
  BY <1>2, ConcatAdjacentSubSeq
<1>4. SubSeq(s, 1, Len(s)) = s
  BY SubSeqFull
<1>5. /\ SubSeq(s, 1, k) \in Seq(U)
      /\ Len(SubSeq(s, 1, k)) = IF 1 <= k THEN k - 1 + 1 ELSE 0
  <2>1. \A i \in 1..k : s[i] \in U
    BY <1>1
  <2> QED BY <2>1, SubSeqProperties
<1>6. /\ SubSeq(s, k + 1, Len(s)) \in Seq(U)
      /\ Len(SubSeq(s, k + 1, Len(s))) = IF k + 1 <= Len(s) THEN Len(s) - (k + 1) + 1 ELSE 0
  <2>1. \A i \in (k + 1)..Len(s) : s[i] \in U
    BY <1>1
  <2>2. k + 1 \in Int /\ Len(s) \in Int
    BY <1>1
  <2> QED BY <2>1, <2>2, SubSeqProperties
<1>7. Len(SubSeq(s, 1, k)) = k /\ Len(SubSeq(s, k + 1, Len(s))) = Len(s) - k
  BY <1>1, <1>5, <1>6
<1> QED BY <1>3, <1>4, <1>5, <1>6, <1>7

-----------------------------------------------------------------------------
(* The queues and histories of the channel, piece by piece. *)

LEMMA MapSeq ==
  ASSUME NEW S, NEW n \in Nat, NEW f, f = [i \in 1..n |-> f[i]], \A i \in 1..n : f[i] \in S
  PROVE  f \in Seq(S) /\ Len(f) = n
<1>1. f \in [1..n -> S]
  OBVIOUS
<1>2. f \in Seq(S)
  BY <1>1, SeqDef
<1> QED BY <1>1, <1>2, LenProperties

Chunk == [from : Clients, rest : Seq(Unit)]

OfClient(m, c) == IF m.from = c THEN m.rest ELSE <<>>

(* The chunks of client c in the queue.                                    *)
LEMMA ChunksFacts ==
  ASSUME NEW q \in Seq(Chunk), NEW c
  PROVE  /\ Chunks(q, c) \in Seq(Seq(Unit)) /\ Len(Chunks(q, c)) = Len(q)
         /\ \A i \in 1..Len(q) : Chunks(q, c)[i] = OfClient(q[i], c)
<1>1. Len(q) \in Nat /\ DOMAIN q = 1..Len(q) /\ \A i \in 1..Len(q) : q[i] \in Chunk
  BY LenProperties, ElementOfSeq
<1>2. \A i \in 1..Len(q) : OfClient(q[i], c) \in Seq(Unit)
  BY <1>1, EmptySeq DEF OfClient, Chunk
<1> DEFINE f == [i \in 1..Len(q) |-> OfClient(q[i], c)]
<1>3. Chunks(q, c) = f
  BY <1>1 DEF Chunks, OfClient
<1>4. \A i \in 1..Len(q) : f[i] = OfClient(q[i], c) /\ f[i] \in Seq(Unit)
  BY <1>2
<1>5. f = [i \in 1..Len(q) |-> f[i]]
  OBVIOUS
<1> HIDE DEF f
<1>6. f \in Seq(Seq(Unit)) /\ Len(f) = Len(q)
  BY <1>1, <1>4, <1>5, MapSeq
<1> QED BY <1>3, <1>4, <1>6

(* FlattenAppend and FlattenTail for sequences given by their elements.    *)
LEMMA FlattenLonger ==
  ASSUME NEW U, NEW s \in Seq(Seq(U)), NEW t \in Seq(Seq(U)), NEW x \in Seq(U),
         Len(t) = Len(s) + 1, \A i \in 1..Len(s) : t[i] = s[i], t[Len(s) + 1] = x
  PROVE  FlattenSeq(t) = Cat(FlattenSeq(s), x)
<1>1. Len(s) \in Nat
  BY LenProperties
<1>2. /\ Append(s, x) \in Seq(Seq(U)) /\ Len(Append(s, x)) = Len(s) + 1
      /\ \A i \in 1..Len(s) : Append(s, x)[i] = s[i]
      /\ Append(s, x)[Len(s) + 1] = x
  BY AppendProperties
<1>3. ASSUME NEW i \in 1..(Len(s) + 1) PROVE t[i] = Append(s, x)[i]
  <2>1. i \in 1..Len(s) \/ i = Len(s) + 1
    BY <1>1
  <2> QED BY <2>1, <1>2
<1>4. t = Append(s, x)
  BY <1>2, <1>3, SeqEqual
<1> QED BY <1>4, FlattenAppend

LEMMA FlattenShorter ==
  ASSUME NEW U, NEW s \in Seq(Seq(U)), NEW t \in Seq(Seq(U)),
         Len(s) = Len(t) + 1, \A i \in 1..Len(t) : t[i] = s[i + 1]
  PROVE  FlattenSeq(s) = Cat(s[1], FlattenSeq(t))
<1>1. Len(s) \in Nat /\ Len(t) \in Nat
  BY LenProperties
<1>2. s # <<>>
  BY <1>1, EmptySeq
<1>3. /\ Tail(s) \in Seq(Seq(U)) /\ Len(Tail(s)) = Len(s) - 1
      /\ \A i \in 1..Len(Tail(s)) : Tail(s)[i] = s[i + 1]
  BY <1>2, HeadTailProperties
<1>4. Len(Tail(s)) = Len(t)
  BY <1>1, <1>3
<1>5. t = Tail(s)
  BY <1>3, <1>4, SeqEqual
<1> QED BY <1>2, <1>5, FlattenTail

(* MsgHandle: a chunk behind the queue is behind the stream of its client. *)
LEMMA ChunksAppend ==
  ASSUME NEW q \in Seq(Chunk), NEW m \in Chunk, NEW c
  PROVE  /\ Append(q, m) \in Seq(Chunk)
         /\ FlattenSeq(Chunks(Append(q, m), c)) = Cat(FlattenSeq(Chunks(q, c)), OfClient(m, c))
<1> DEFINE a == Append(q, m)
<1>1. /\ a \in Seq(Chunk) /\ Len(q) \in Nat /\ Len(a) = Len(q) + 1
      /\ \A i \in 1..Len(q) : a[i] = q[i]
      /\ a[Len(q) + 1] = m
  BY AppendProperties, LenProperties
<1>2. OfClient(m, c) \in Seq(Unit)
  BY EmptySeq DEF OfClient, Chunk
<1>3. /\ Chunks(q, c) \in Seq(Seq(Unit)) /\ Len(Chunks(q, c)) = Len(q)
      /\ \A i \in 1..Len(q) : Chunks(q, c)[i] = OfClient(q[i], c)
  BY ChunksFacts
<1> HIDE DEF a
<1>4. /\ Chunks(a, c) \in Seq(Seq(Unit)) /\ Len(Chunks(a, c)) = Len(q) + 1
      /\ \A i \in 1..(Len(q) + 1) : Chunks(a, c)[i] = OfClient(a[i], c)
  BY <1>1, ChunksFacts
<1>5. /\ \A i \in 1..Len(Chunks(q, c)) : Chunks(a, c)[i] = Chunks(q, c)[i]
      /\ Chunks(a, c)[Len(Chunks(q, c)) + 1] = OfClient(m, c)
  BY <1>1, <1>3, <1>4
<1>6. FlattenSeq(Chunks(a, c)) = Cat(FlattenSeq(Chunks(q, c)), OfClient(m, c))
  BY <1>2, <1>3, <1>4, <1>5, FlattenLonger
<1> QED BY <1>1, <1>6 DEF a

(* ReceiveMsg: the front of the queue is the front of its stream.          *)
LEMMA ChunksTail ==
  ASSUME NEW q \in Seq(Chunk), q # <<>>, NEW c
  PROVE  /\ Head(q) \in Chunk /\ Tail(q) \in Seq(Chunk)
         /\ FlattenSeq(Chunks(q, c)) = Cat(OfClient(Head(q), c), FlattenSeq(Chunks(Tail(q), c)))
<1> DEFINE a == Tail(q)
<1>1. /\ Head(q) \in Chunk /\ a \in Seq(Chunk) /\ Len(q) \in Nat \ {0} /\ Len(a) = Len(q) - 1
      /\ \A i \in 1..(Len(q) - 1) : a[i] = q[i + 1]
      /\ Head(q) = q[1]
  <2>1. Head(q) = q[1]
    OBVIOUS
  <2> QED BY <2>1, HeadTailProperties, EmptySeq
<1>2. /\ Chunks(q, c) \in Seq(Seq(Unit)) /\ Len(Chunks(q, c)) = Len(q)
      /\ \A i \in 1..Len(q) : Chunks(q, c)[i] = OfClient(q[i], c)
  BY ChunksFacts
<1> HIDE DEF a
<1>3. /\ Chunks(a, c) \in Seq(Seq(Unit)) /\ Len(Chunks(a, c)) = Len(q) - 1
      /\ \A i \in 1..(Len(q) - 1) : Chunks(a, c)[i] = OfClient(a[i], c)
  BY <1>1, ChunksFacts
<1>4. ASSUME NEW i \in 1..Len(Chunks(a, c)) PROVE Chunks(a, c)[i] = Chunks(q, c)[i + 1]
  <2>1. i + 1 \in 1..Len(q) /\ i \in 1..(Len(q) - 1)
    BY <1>1, <1>3
  <2> QED BY <2>1, <1>1, <1>2, <1>3
<1>5. Len(Chunks(q, c)) = Len(Chunks(a, c)) + 1 /\ Chunks(q, c)[1] = OfClient(Head(q), c)
  BY <1>1, <1>2, <1>3
<1>6. FlattenSeq(Chunks(q, c)) = Cat(Chunks(q, c)[1], FlattenSeq(Chunks(a, c)))
  BY <1>2, <1>3, <1>4, <1>5, FlattenShorter
<1> QED BY <1>1, <1>5, <1>6 DEF a

LEMMA ChunksEmpty == ASSUME NEW c PROVE FlattenSeq(Chunks(<< >>, c)) = << >>
<1>1. << >> \in Seq(Chunk) /\ Len(<< >>) = 0
  BY EmptySeq
<1>2. Chunks(<< >>, c) \in Seq(Seq(Unit)) /\ Len(Chunks(<< >>, c)) = 0
  BY <1>1, ChunksFacts
<1>3. Chunks(<< >>, c) = << >>
  BY <1>2, EmptySeq
<1> QED BY <1>3, FlattenEmpty

Reply == [to : Clients, re : Nat]

ToClient(a, c) == IF a.to = c THEN <<a.re>> ELSE <<>>

(* A sequence of one element.                                              *)
LEMMA One == ASSUME NEW S, NEW x \in S PROVE <<x>> \in Seq(S) /\ << >> \in Seq(S)
OBVIOUS

(* The answers to client c in the queue of the sender.                     *)
LEMMA RepliesFacts ==
  ASSUME NEW q \in Seq(Reply), NEW c
  PROVE  /\ Replies(q, c) \in Seq(Seq(Nat)) /\ Len(Replies(q, c)) = Len(q)
         /\ \A i \in 1..Len(q) : Replies(q, c)[i] = ToClient(q[i], c)
<1>1. Len(q) \in Nat /\ DOMAIN q = 1..Len(q) /\ \A i \in 1..Len(q) : q[i] \in Reply
  BY LenProperties, ElementOfSeq
<1>2. \A i \in 1..Len(q) : ToClient(q[i], c) \in Seq(Nat)
  BY <1>1, One DEF ToClient, Reply
<1> DEFINE f == [i \in 1..Len(q) |-> ToClient(q[i], c)]
<1>3. Replies(q, c) = f
  BY <1>1 DEF Replies, ToClient
<1>4. \A i \in 1..Len(q) : f[i] = ToClient(q[i], c) /\ f[i] \in Seq(Nat)
  BY <1>2
<1>5. f = [i \in 1..Len(q) |-> f[i]]
  OBVIOUS
<1> HIDE DEF f
<1>6. f \in Seq(Seq(Nat)) /\ Len(f) = Len(q)
  BY <1>1, <1>4, <1>5, MapSeq
<1> QED BY <1>3, <1>4, <1>6

(* SendMsgAsyn: an answer is behind those that wait.                       *)
LEMMA RepliesAppend ==
  ASSUME NEW q \in Seq(Reply), NEW m \in Reply, NEW c
  PROVE  /\ Append(q, m) \in Seq(Reply)
         /\ FlattenSeq(Replies(Append(q, m), c)) = Cat(FlattenSeq(Replies(q, c)), ToClient(m, c))
<1> DEFINE a == Append(q, m)
<1>1. /\ a \in Seq(Reply) /\ Len(q) \in Nat /\ Len(a) = Len(q) + 1
      /\ \A i \in 1..Len(q) : a[i] = q[i]
      /\ a[Len(q) + 1] = m
  BY AppendProperties, LenProperties
<1>2. ToClient(m, c) \in Seq(Nat)
  BY One DEF ToClient, Reply
<1>3. /\ Replies(q, c) \in Seq(Seq(Nat)) /\ Len(Replies(q, c)) = Len(q)
      /\ \A i \in 1..Len(q) : Replies(q, c)[i] = ToClient(q[i], c)
  BY RepliesFacts
<1> HIDE DEF a
<1>4. /\ Replies(a, c) \in Seq(Seq(Nat)) /\ Len(Replies(a, c)) = Len(q) + 1
      /\ \A i \in 1..(Len(q) + 1) : Replies(a, c)[i] = ToClient(a[i], c)
  BY <1>1, RepliesFacts
<1>5. /\ \A i \in 1..Len(Replies(q, c)) : Replies(a, c)[i] = Replies(q, c)[i]
      /\ Replies(a, c)[Len(Replies(q, c)) + 1] = ToClient(m, c)
  BY <1>1, <1>3, <1>4
<1>6. FlattenSeq(Replies(a, c)) = Cat(FlattenSeq(Replies(q, c)), ToClient(m, c))
  BY <1>2, <1>3, <1>4, <1>5, FlattenLonger
<1> QED BY <1>1, <1>6 DEF a

(* MsgSend: the front of the queue is the next answer.                     *)
LEMMA RepliesTail ==
  ASSUME NEW q \in Seq(Reply), q # <<>>, NEW c
  PROVE  /\ Head(q) \in Reply /\ Tail(q) \in Seq(Reply)
         /\ FlattenSeq(Replies(q, c)) = Cat(ToClient(Head(q), c), FlattenSeq(Replies(Tail(q), c)))
<1> DEFINE a == Tail(q)
<1>1. /\ Head(q) \in Reply /\ a \in Seq(Reply) /\ Len(q) \in Nat \ {0} /\ Len(a) = Len(q) - 1
      /\ \A i \in 1..(Len(q) - 1) : a[i] = q[i + 1]
      /\ Head(q) = q[1]
  <2>1. Head(q) = q[1]
    OBVIOUS
  <2> QED BY <2>1, HeadTailProperties, EmptySeq
<1>2. /\ Replies(q, c) \in Seq(Seq(Nat)) /\ Len(Replies(q, c)) = Len(q)
      /\ \A i \in 1..Len(q) : Replies(q, c)[i] = ToClient(q[i], c)
  BY RepliesFacts
<1> HIDE DEF a
<1>3. /\ Replies(a, c) \in Seq(Seq(Nat)) /\ Len(Replies(a, c)) = Len(q) - 1
      /\ \A i \in 1..(Len(q) - 1) : Replies(a, c)[i] = ToClient(a[i], c)
  BY <1>1, RepliesFacts
<1>4. ASSUME NEW i \in 1..Len(Replies(a, c)) PROVE Replies(a, c)[i] = Replies(q, c)[i + 1]
  <2>1. i + 1 \in 1..Len(q) /\ i \in 1..(Len(q) - 1)
    BY <1>1, <1>3
  <2> QED BY <2>1, <1>1, <1>2, <1>3
<1>5. Len(Replies(q, c)) = Len(Replies(a, c)) + 1 /\ Replies(q, c)[1] = ToClient(Head(q), c)
  BY <1>1, <1>2, <1>3
<1>6. FlattenSeq(Replies(q, c)) = Cat(Replies(q, c)[1], FlattenSeq(Replies(a, c)))
  BY <1>2, <1>3, <1>4, <1>5, FlattenShorter
<1> QED BY <1>1, <1>5, <1>6 DEF a

LEMMA RepliesEmpty == ASSUME NEW c PROVE FlattenSeq(Replies(<< >>, c)) = << >>
<1>1. << >> \in Seq(Reply) /\ Len(<< >>) = 0
  BY EmptySeq
<1>2. Replies(<< >>, c) \in Seq(Seq(Nat)) /\ Len(Replies(<< >>, c)) = 0
  BY <1>1, RepliesFacts
<1>3. Replies(<< >>, c) = << >>
  BY <1>2, EmptySeq
<1> QED BY <1>3, FlattenEmpty

(* Request n of a client, if its packet gets an answer. *)
Request(n, packets) == IF packets[n].type \in Answered THEN <<n>> ELSE <<>>

(* What a client asked for, of the packets with these numbers.             *)
LEMMA RequestsFacts ==
  ASSUME NEW numbers \in Seq(Nat), NEW packets
  PROVE  /\ Requests(numbers, packets) \in Seq(Seq(Nat))
         /\ Len(Requests(numbers, packets)) = Len(numbers)
         /\ \A i \in 1..Len(numbers) :
               Requests(numbers, packets)[i] = Request(numbers[i], packets)
<1>1. /\ Len(numbers) \in Nat /\ DOMAIN numbers = 1..Len(numbers)
      /\ \A i \in 1..Len(numbers) : numbers[i] \in Nat
  BY LenProperties, ElementOfSeq
<1>2. \A i \in 1..Len(numbers) : Request(numbers[i], packets) \in Seq(Nat)
  BY <1>1, One DEF Request
<1> DEFINE f == [i \in 1..Len(numbers) |-> Request(numbers[i], packets)]
<1>3. Requests(numbers, packets) = f
  BY <1>1 DEF Requests, Request
<1>4. \A i \in 1..Len(numbers) : f[i] = Request(numbers[i], packets) /\ f[i] \in Seq(Nat)
  BY <1>2
<1>5. f = [i \in 1..Len(numbers) |-> f[i]]
  OBVIOUS
<1> HIDE DEF f
<1>6. f \in Seq(Seq(Nat)) /\ Len(f) = Len(numbers)
  BY <1>1, <1>4, <1>5, MapSeq
<1> QED BY <1>3, <1>4, <1>6

(* A callback gets one packet more.                                        *)
LEMMA RequestsAppend ==
  ASSUME NEW numbers \in Seq(Nat), NEW packets, NEW n \in Nat
  PROVE  /\ Append(numbers, n) \in Seq(Nat)
         /\ FlattenSeq(Requests(Append(numbers, n), packets))
               = Cat(FlattenSeq(Requests(numbers, packets)), Request(n, packets))
<1> DEFINE a == Append(numbers, n)
<1>1. /\ a \in Seq(Nat) /\ Len(numbers) \in Nat /\ Len(a) = Len(numbers) + 1
      /\ \A i \in 1..Len(numbers) : a[i] = numbers[i]
      /\ a[Len(numbers) + 1] = n
  BY AppendProperties, LenProperties
<1>2. Request(n, packets) \in Seq(Nat)
  BY One DEF Request
<1> DEFINE s == Requests(numbers, packets)
<1>3. /\ s \in Seq(Seq(Nat)) /\ Len(s) = Len(numbers)
      /\ \A i \in 1..Len(numbers) : s[i] = Request(numbers[i], packets)
  BY RequestsFacts
<1> HIDE DEF a
<1> DEFINE t == Requests(a, packets)
<1>4. /\ t \in Seq(Seq(Nat)) /\ Len(t) = Len(numbers) + 1
      /\ \A i \in 1..(Len(numbers) + 1) : t[i] = Request(a[i], packets)
  BY <1>1, RequestsFacts
<1>5. (\A i \in 1..Len(s) : t[i] = s[i]) /\ t[Len(s) + 1] = Request(n, packets)
  <2> HIDE DEF s, t
  <2> QED BY <1>1, <1>3, <1>4
<1> HIDE DEF s, t
<1>6. FlattenSeq(t) = Cat(FlattenSeq(s), Request(n, packets))
  BY <1>2, <1>3, <1>4, <1>5, FlattenLonger
<1> QED BY <1>1, <1>6 DEF a, s, t

(* A packet more that was sent does not change what was asked for.         *)
LEMMA RequestsKept ==
  ASSUME NEW packets \in Seq(Packets), NEW p \in Packets, NEW numbers \in Seq(DOMAIN packets)
  PROVE  Requests(numbers, Append(packets, p)) = Requests(numbers, packets)
<1> DEFINE a == Append(packets, p)
<1>1. /\ Len(packets) \in Nat /\ DOMAIN packets = 1..Len(packets)
      /\ \A i \in 1..Len(packets) : a[i] = packets[i]
  BY AppendProperties, LenProperties
<1>2. Len(numbers) \in Nat /\ \A i \in 1..Len(numbers) : numbers[i] \in 1..Len(packets)
  BY <1>1, LenProperties, ElementOfSeq
<1>3. numbers \in Seq(Nat)
  BY <1>1, SeqMonotonic
<1> HIDE DEF a
<1>4. \A i \in 1..Len(numbers) : Request(numbers[i], a) = Request(numbers[i], packets)
  BY <1>1, <1>2 DEF Request
<1>5. /\ Requests(numbers, a) \in Seq(Seq(Nat)) /\ Len(Requests(numbers, a)) = Len(numbers)
      /\ \A i \in 1..Len(numbers) : Requests(numbers, a)[i] = Request(numbers[i], a)
  BY <1>3, RequestsFacts
<1>6. /\ Requests(numbers, packets) \in Seq(Seq(Nat))
      /\ Len(Requests(numbers, packets)) = Len(numbers)
      /\ \A i \in 1..Len(numbers) : Requests(numbers, packets)[i] = Request(numbers[i], packets)
  BY <1>3, RequestsFacts
<1>7. Requests(numbers, a) = Requests(numbers, packets)
  BY <1>4, <1>5, <1>6, SeqEqual
<1> QED BY <1>7 DEF a

SoundOne(packets, i) == IF packets[i].sound THEN <<i>> ELSE <<>>

(* The numbers of the sound packets before number m.                       *)
LEMMA SoundFacts ==
  ASSUME NEW packets, NEW m \in Nat \ {0}
  PROVE  /\ SoundOnes(packets, m) \in Seq(Seq(Nat)) /\ Len(SoundOnes(packets, m)) = m - 1
         /\ \A i \in 1..(m - 1) : SoundOnes(packets, m)[i] = SoundOne(packets, i)
<1> DEFINE f == [i \in 1..(m - 1) |-> SoundOne(packets, i)]
<1>1. SoundOnes(packets, m) = f
  BY DEF SoundOnes, SoundOne
<1>2. \A i \in 1..(m - 1) : f[i] = SoundOne(packets, i) /\ f[i] \in Seq(Nat)
  BY One DEF SoundOne
<1>3. f = [i \in 1..(m - 1) |-> f[i]] /\ m - 1 \in Nat
  OBVIOUS
<1> HIDE DEF f
<1>4. f \in Seq(Seq(Nat)) /\ Len(f) = m - 1
  BY <1>2, <1>3, MapSeq
<1> QED BY <1>1, <1>2, <1>4

(* Packet m is read.                                                       *)
LEMMA SoundNext ==
  ASSUME NEW packets, NEW m \in Nat \ {0}
  PROVE  FlattenSeq(SoundOnes(packets, m + 1))
            = Cat(FlattenSeq(SoundOnes(packets, m)), SoundOne(packets, m))
<1> DEFINE s == SoundOnes(packets, m)
           t == SoundOnes(packets, m + 1)
<1>1. /\ s \in Seq(Seq(Nat)) /\ Len(s) = m - 1
      /\ \A i \in 1..(m - 1) : s[i] = SoundOne(packets, i)
  BY SoundFacts
<1>2. m + 1 \in Nat \ {0} /\ (m + 1) - 1 = m
  OBVIOUS
<1>3. /\ t \in Seq(Seq(Nat)) /\ Len(t) = m
      /\ \A i \in 1..m : t[i] = SoundOne(packets, i)
  <2>1. /\ t \in Seq(Seq(Nat)) /\ Len(t) = (m + 1) - 1
        /\ \A i \in 1..((m + 1) - 1) : t[i] = SoundOne(packets, i)
    BY <1>2, SoundFacts
  <2> QED BY <2>1, <1>2
<1> HIDE DEF s, t
<1>4. SoundOne(packets, m) \in Seq(Nat)
  BY One DEF SoundOne
<1>5. /\ Len(t) = Len(s) + 1 /\ \A i \in 1..Len(s) : t[i] = s[i]
      /\ t[Len(s) + 1] = SoundOne(packets, m)
  BY <1>1, <1>3
<1>6. FlattenSeq(t) = Cat(FlattenSeq(s), SoundOne(packets, m))
  BY <1>1, <1>3, <1>4, <1>5, FlattenLonger
<1> QED BY <1>6 DEF s, t

(* A packet more that was sent is not among those before m.                *)
LEMMA SoundKept ==
  ASSUME NEW packets \in Seq(Packets), NEW p \in Packets, NEW m \in 1..(Len(packets) + 1)
  PROVE  SoundOnes(Append(packets, p), m) = SoundOnes(packets, m)
<1> DEFINE a == Append(packets, p)
<1>1. Len(packets) \in Nat /\ \A i \in 1..Len(packets) : a[i] = packets[i]
  BY AppendProperties, LenProperties
<1> HIDE DEF a
<1>2. m \in Nat \ {0} /\ \A i \in 1..(m - 1) : i \in 1..Len(packets)
  BY <1>1
<1>3. /\ SoundOnes(packets, m) \in Seq(Seq(Nat)) /\ Len(SoundOnes(packets, m)) = m - 1
      /\ \A i \in 1..(m - 1) : SoundOnes(packets, m)[i] = SoundOne(packets, i)
  BY <1>2, SoundFacts
<1>4. /\ SoundOnes(a, m) \in Seq(Seq(Nat)) /\ Len(SoundOnes(a, m)) = m - 1
      /\ \A i \in 1..(m - 1) : SoundOnes(a, m)[i] = SoundOne(a, i)
  BY <1>2, SoundFacts
<1>5. \A i \in 1..(m - 1) : SoundOne(a, i) = SoundOne(packets, i)
  BY <1>1, <1>2 DEF SoundOne
<1>6. SoundOnes(a, m) = SoundOnes(packets, m)
  BY <1>3, <1>4, <1>5, SeqEqual
<1> QED BY <1>6 DEF a

(* A head is HeadLen units and shows its number in the first.              *)
LEMMA HeadFacts ==
  ASSUME NEW n \in Nat
  PROVE  /\ HeadUnits(n) \in Seq(Unit) /\ Len(HeadUnits(n)) = HeadLen
         /\ HeadUnits(n)[1] = <<n, 1>> /\ HeadUnits(n)[1][1] = n
<1>1. HeadLen \in Nat \ {0}
  BY PacketsAssumption
<1> DEFINE f == HeadUnits(n)
<1>2. \A k \in 1..HeadLen : f[k] = <<n, k>> /\ f[k] \in Unit
  BY <1>1 DEF HeadUnits, Unit
<1>3. f = [k \in 1..HeadLen |-> f[k]]
  BY DEF HeadUnits
<1> HIDE DEF f
<1>4. f \in Seq(Unit) /\ Len(f) = HeadLen
  BY <1>1, <1>2, <1>3, MapSeq
<1>5. f[1] = <<n, 1>>
  BY <1>1, <1>2
<1> QED BY <1>4, <1>5 DEF f

(* A payload is as long as its packet says.                                *)
LEMMA PayloadFacts ==
  ASSUME NEW n \in Nat, NEW p \in Packets
  PROVE  PayloadUnits(n, p) \in Seq(Unit) /\ Len(PayloadUnits(n, p)) = p.len /\ p.len \in Nat
<1>1. HeadLen \in Nat \ {0} /\ p.len \in Nat
  BY PacketsAssumption
<1> DEFINE f == PayloadUnits(n, p)
<1>2. \A k \in 1..p.len : f[k] = <<n, HeadLen + k>> /\ f[k] \in Unit
  BY <1>1 DEF PayloadUnits, Unit
<1>3. f = [k \in 1..p.len |-> f[k]]
  BY DEF PayloadUnits
<1> HIDE DEF f
<1>4. f \in Seq(Unit) /\ Len(f) = p.len
  BY <1>1, <1>2, <1>3, MapSeq
<1> QED BY <1>1, <1>4 DEF f

LEMMA UnitsFacts ==
  ASSUME NEW n \in Nat, NEW p \in Packets
  PROVE  Units(n, p) \in Seq(Unit) /\ Units(n, p) = Cat(HeadUnits(n), PayloadUnits(n, p))
<1>1. HeadUnits(n) \in Seq(Unit) /\ PayloadUnits(n, p) \in Seq(Unit)
  BY HeadFacts, PayloadFacts
<1>2. Units(n, p) = Cat(HeadUnits(n), PayloadUnits(n, p))
  BY DEF Units, Cat
<1> QED BY <1>1, <1>2, CatType

(* The stream of a client, packet by packet.                               *)
LEMMA PacketUnitsFacts ==
  ASSUME NEW packets \in Seq(Packets), NEW m \in 1..(Len(packets) + 1)
  PROVE  /\ PacketUnits(packets, m) \in Seq(Seq(Unit))
         /\ Len(PacketUnits(packets, m)) = Len(packets) + 1 - m
         /\ \A i \in 1..(Len(packets) + 1 - m) :
              PacketUnits(packets, m)[i] = Units(m - 1 + i, packets[m - 1 + i])
<1>1. Len(packets) \in Nat /\ Len(packets) + 1 - m \in Nat
  BY LenProperties
<1> DEFINE last == Len(packets) + 1 - m
           f == [i \in 1..last |-> Units(m - 1 + i, packets[m - 1 + i])]
<1>2. PacketUnits(packets, m) = f
  BY DEF PacketUnits
<1>3. ASSUME NEW i \in 1..last
      PROVE  f[i] = Units(m - 1 + i, packets[m - 1 + i]) /\ f[i] \in Seq(Unit)
  <2>1. m - 1 + i \in 1..Len(packets) /\ m - 1 + i \in Nat
    BY <1>1
  <2>2. packets[m - 1 + i] \in Packets
    BY <2>1, ElementOfSeq
  <2>3. Units(m - 1 + i, packets[m - 1 + i]) \in Seq(Unit)
    BY <2>1, <2>2, UnitsFacts
  <2> QED BY <2>3
<1>4. f = [i \in 1..last |-> f[i]] /\ last \in Nat
  BY <1>1
<1> HIDE DEF f, last
<1>5. f \in Seq(Seq(Unit)) /\ Len(f) = last
  BY <1>3, <1>4, MapSeq
<1>6. \A i \in 1..last : f[i] = Units(m - 1 + i, packets[m - 1 + i])
  BY <1>3
<1> QED BY <1>2, <1>5, <1>6 DEF last

(* The stream from number m on is packet m and the rest.                   *)
LEMMA StreamNext ==
  ASSUME NEW packets \in Seq(Packets), NEW m \in 1..Len(packets)
  PROVE  FlattenSeq(PacketUnits(packets, m))
            = Cat(Units(m, packets[m]), FlattenSeq(PacketUnits(packets, m + 1)))
<1>1. Len(packets) \in Nat /\ m \in 1..(Len(packets) + 1) /\ m + 1 \in 1..(Len(packets) + 1)
  BY LenProperties
<1> DEFINE s == PacketUnits(packets, m)
           t == PacketUnits(packets, m + 1)
           n == Len(packets)
<1>2. /\ s \in Seq(Seq(Unit)) /\ Len(s) = n + 1 - m
      /\ \A i \in 1..(n + 1 - m) : s[i] = Units(m - 1 + i, packets[m - 1 + i])
  BY <1>1, PacketUnitsFacts
<1>3. /\ t \in Seq(Seq(Unit)) /\ Len(t) = n + 1 - (m + 1)
      /\ \A i \in 1..(n + 1 - (m + 1)) : t[i] = Units((m + 1) - 1 + i, packets[(m + 1) - 1 + i])
  BY <1>1, PacketUnitsFacts
<1> HIDE DEF s, t
<1>4. ASSUME NEW i \in 1..Len(t) PROVE t[i] = s[i + 1]
  <2>1. (m + 1) - 1 + i = m - 1 + (i + 1) /\ i + 1 \in 1..(n + 1 - m) /\ i \in 1..(n + 1 - (m + 1))
    BY <1>1, <1>3
  <2> QED BY <2>1, <1>2, <1>3
<1>5. Len(s) = Len(t) + 1 /\ 1 \in 1..(n + 1 - m) /\ m - 1 + 1 = m
  BY <1>1, <1>2, <1>3
<1>6. s[1] = Units(m, packets[m])
  BY <1>2, <1>5
<1>7. FlattenSeq(s) = Cat(s[1], FlattenSeq(t))
  BY <1>2, <1>3, <1>4, <1>5, FlattenShorter
<1> QED BY <1>6, <1>7 DEF s, t

(* Behind the last packet there is nothing.                                *)
LEMMA StreamEnd ==
  ASSUME NEW packets \in Seq(Packets)
  PROVE  FlattenSeq(PacketUnits(packets, Len(packets) + 1)) = << >>
<1>1. Len(packets) \in Nat /\ Len(packets) + 1 \in 1..(Len(packets) + 1)
  BY LenProperties
<1> DEFINE s == PacketUnits(packets, Len(packets) + 1)
<1>2. s \in Seq(Seq(Unit)) /\ Len(s) = Len(packets) + 1 - (Len(packets) + 1)
  BY <1>1, PacketUnitsFacts
<1>3. s = << >>
  <2> HIDE DEF s
  <2> QED BY <1>1, <1>2, EmptySeq
<1> QED BY <1>3, FlattenEmpty

LEMMA StreamType ==
  ASSUME NEW packets \in Seq(Packets), NEW m \in 1..(Len(packets) + 1)
  PROVE  FlattenSeq(PacketUnits(packets, m)) \in Seq(Unit)
BY PacketUnitsFacts, FlattenType

(* ClientSend: a packet is behind the stream.                              *)
LEMMA StreamGrows ==
  ASSUME NEW packets \in Seq(Packets), NEW p \in Packets, NEW m \in 1..(Len(packets) + 1)
  PROVE  FlattenSeq(PacketUnits(Append(packets, p), m))
            = Cat(FlattenSeq(PacketUnits(packets, m)), Units(Len(packets) + 1, p))
<1> DEFINE n == Len(packets)
           a == Append(packets, p)
<1>1. /\ n \in Nat /\ a \in Seq(Packets) /\ Len(a) = n + 1
      /\ \A i \in 1..n : a[i] = packets[i]
      /\ a[n + 1] = p
  BY LenProperties, AppendProperties
<1> HIDE DEF a
<1>2. m \in 1..(n + 1) /\ m \in 1..(Len(a) + 1)
  BY <1>1
<1> DEFINE s == PacketUnits(packets, m)
           t == PacketUnits(a, m)
<1>3. /\ s \in Seq(Seq(Unit)) /\ Len(s) = n + 1 - m
      /\ \A i \in 1..(n + 1 - m) : s[i] = Units(m - 1 + i, packets[m - 1 + i])
  BY <1>2, PacketUnitsFacts
<1>4. /\ t \in Seq(Seq(Unit)) /\ Len(t) = n + 1 + 1 - m
      /\ \A i \in 1..(n + 1 + 1 - m) : t[i] = Units(m - 1 + i, a[m - 1 + i])
  <2>1. /\ t \in Seq(Seq(Unit)) /\ Len(t) = Len(a) + 1 - m
        /\ \A i \in 1..(Len(a) + 1 - m) : t[i] = Units(m - 1 + i, a[m - 1 + i])
    BY <1>1, <1>2, PacketUnitsFacts
  <2> QED BY <2>1, <1>1
<1> HIDE DEF s, t
<1>5. ASSUME NEW i \in 1..Len(s) PROVE t[i] = s[i]
  <2>1. i \in 1..(n + 1 - m) /\ i \in 1..(n + 1 + 1 - m) /\ m - 1 + i \in 1..n
    BY <1>1, <1>2, <1>3
  <2> QED BY <2>1, <1>1, <1>3, <1>4
<1>6. Len(t) = Len(s) + 1 /\ Len(s) + 1 \in 1..(n + 1 + 1 - m) /\ m - 1 + (Len(s) + 1) = n + 1
  BY <1>1, <1>2, <1>3, <1>4
<1>7. t[Len(s) + 1] = Units(n + 1, p)
  BY <1>1, <1>4, <1>6
<1>8. Units(n + 1, p) \in Seq(Unit)
  <2>1. n + 1 \in Nat
    BY <1>1
  <2> QED BY <2>1, UnitsFacts
<1>9. FlattenSeq(t) = Cat(FlattenSeq(s), Units(n + 1, p))
  BY <1>3, <1>4, <1>5, <1>6, <1>7, <1>8, FlattenLonger
<1> QED BY <1>9 DEF s, t, a

-----------------------------------------------------------------------------
(***************************************************************************)
(* The inductive invariant.                                                *)
(***************************************************************************)

(* A unit, a head that is read and the number in a callback's log belong   *)
(* to a packet that was sent; a chunk is not empty.                        *)
UnitOf(c) == (1..Len(sent[c])) \X Nat

FromSent ==
    /\ \A c \in Clients : packetMap[c].ask \in Seq(UnitOf(c)) /\ wire[c] \in Seq(UnitOf(c))
    /\ \A i \in DOMAIN recvQ : recvQ[i].rest \in Seq(UnitOf(recvQ[i].from))
    /\ msg.from \in Clients => msg.rest \in Seq(UnitOf(msg.from))

(* A packet that is read lacks a part of its head or has it all.           *)
Partial ==
    \A c \in Clients :
        LET reading == packetMap[c]
        IN IF reading.head = NoHead THEN Len(reading.ask) < HeadLen
           ELSE Len(reading.ask) <= reading.head.p.len

(* Where the threads are, and what is there while the server is down.      *)
Threads ==
    /\ listener # "distribute" => msg = Nothing
    /\ listener = "distribute" => msg.from \in Clients
    /\ owner \in {"idle", "closing"} => listener = "off"
    /\ owner = "idle" => sender = "off" /\ recvQ = <<>> /\ sendQ = <<>>
    /\ owner = "idle" => wire = [c \in Clients |-> <<>>]

NotStarted ==
    round = 0 =>
        /\ owner = "idle"
        /\ ~badHead
        /\ \A c \in Clients :
             /\ packetMap[c] = FreshPacket
             /\ sent[c] = <<>> /\ handled[c] = <<>> /\ inbox[c] = <<>>

(* The first round: every packet with a head of its own is genuine.        *)
Serving == owner \in {"running", "returned", "joining"}

HandledSent == \A c \in Clients : handled[c] \in Seq(DOMAIN sent[c])

ReadingGenuine(c) ==
    LET head == packetMap[c].head
    IN head # NoHead => head.n \in DOMAIN sent[c] /\ head.p = sent[c][head.n]

(* lost is what a program that died did not get into the socket.           *)
Later(c, lost) == Cat(InQueue(c), Cat(wire[c], lost))

Intact(c, m, lost) ==
    /\ handled[c] = Sound(c, m)
    /\ Cat(HeadRead(c), Cat(packetMap[c].ask, Cat(InMsg(c), Later(c, lost)))) = Stream(c, m)
    /\ owner = "running" => lost = <<>>

Framed ==
    /\ ~badHead
    /\ Serving => \A c \in Clients :
         /\ ReadingGenuine(c)
         /\ \E m \in 1..(Len(sent[c]) + 1) : \E lost \in Seq(Unit) : Intact(c, m, lost)

Inv == TypeOK /\ FromSent /\ Partial /\ Threads /\ NotStarted

Frames == HandledSent /\ Framed /\ AnswersInOrder
FirstRound == round <= 1 => Frames

(* The invariant holds when the program starts.                            *)
LEMMA InitInv == Init => Inv
<1> SUFFICES ASSUME Init PROVE Inv
  OBVIOUS
<1> USE DEF Init
<1>1. \A S : << >> \in Seq(S)
  BY EmptySeq
<1>2. TypeOK
  <2>1. FreshPacket \in [head : Heading, ask : Seq(Unit)]
    BY <1>1 DEF FreshPacket, NoHead, Heading
  <2>2. Nothing \in [from : Clients \cup {"nobody"}, rest : Seq(Unit)]
    BY <1>1 DEF Nothing
  <2>3. /\ recvQ \in Seq([from : Clients, rest : Seq(Unit)]) /\ sendQ \in Seq([to : Clients, re : Nat])
        /\ wire \in [Clients -> Seq(Unit)] /\ sent \in [Clients -> Seq(Packets)]
        /\ handled \in [Clients -> Seq(Nat)] /\ inbox \in [Clients -> Seq(Nat)]
    BY <1>1
  <2>4. listener \in ListenerPc /\ sender \in SenderPc /\ owner \in OwnerPc
    BY DEF ListenerPc, SenderPc, OwnerPc
  <2>5. round \in 0..MaxRounds
    BY PacketsAssumption
  <2> QED BY <2>1, <2>2, <2>3, <2>4, <2>5 DEF TypeOK
<1>3. FromSent
  <2>1. \A c \in Clients : packetMap[c].ask \in Seq(UnitOf(c)) /\ wire[c] \in Seq(UnitOf(c))
    BY <1>1 DEF FreshPacket
  <2>2. msg.rest = << >> /\ DOMAIN recvQ = {}
    BY DEF Nothing
  <2> QED BY <1>1, <2>1, <2>2 DEF FromSent
<1>4. Threads
  BY DEF Threads
<1>5. NotStarted
  BY DEF NotStarted
<1>6. Partial
  BY PacketsAssumption, EmptySeq DEF Partial, FreshPacket
<1> QED BY <1>2, <1>3, <1>4, <1>5, <1>6 DEF Inv

-----------------------------------------------------------------------------
(* The loop of Distribute. *)

LEMMA UnitOfUnit == ASSUME NEW c, NEW s \in Seq(UnitOf(c)), TypeOK, c \in Clients
                    PROVE  s \in Seq(Unit)
<1>1. Len(sent[c]) \in Nat
  BY LenProperties DEF TypeOK
<1>2. UnitOf(c) \subseteq Unit
  BY <1>1 DEF UnitOf, Unit
<1> QED BY <1>2, SeqMonotonic

(* What is known while Distribute loops.                                   *)
LEMMA ReadingFacts ==
  ASSUME Inv, listener = "distribute"
  PROVE  /\ Client \in Clients /\ Len(sent[Client]) \in Nat
         /\ Reading = packetMap[Client] /\ Reading \in [head : Heading, ask : Seq(Unit)]
         /\ Reading.ask \in Seq(UnitOf(Client)) /\ msg.rest \in Seq(UnitOf(Client))
         /\ Len(Reading.ask) \in Nat /\ Len(msg.rest) \in Nat
         /\ Reading.head = NoHead => Len(Reading.ask) < HeadLen
         /\ Reading.head # NoHead => Len(Reading.ask) <= Reading.head.p.len
         /\ round # 0
<1>1. Client \in Clients
  BY DEF Inv, Threads, Client
<1>2. Len(sent[Client]) \in Nat
  BY <1>1, LenProperties DEF Inv, TypeOK
<1>3. Reading = packetMap[Client] /\ Reading \in [head : Heading, ask : Seq(Unit)]
  BY <1>1 DEF Inv, TypeOK, Reading
<1>4. Reading.ask \in Seq(UnitOf(Client)) /\ msg.rest \in Seq(UnitOf(Client))
  BY <1>1, <1>3 DEF Inv, FromSent, Client
<1>5. /\ Reading.head = NoHead => Len(Reading.ask) < HeadLen
      /\ Reading.head # NoHead => Len(Reading.ask) <= Reading.head.p.len
  BY <1>1, <1>3 DEF Inv, Partial
<1>6. round # 0
  BY DEF Inv, NotStarted, Threads
<1> QED BY <1>1, <1>2, <1>3, <1>4, <1>5, <1>6, LenProperties

LEMMA HeadingLen == ASSUME NEW h \in Heading PROVE h.p.len \in Nat
BY PacketsAssumption DEF Heading, NoHead

(* Whatever Deserialize makes of units that were sent is a heading.        *)
LEMMA HeadsFacts ==
  ASSUME TypeOK, NEW c \in Clients, NEW units \in Seq(UnitOf(c)), Len(units) = HeadLen,
         NEW h \in Heads(c, units)
  PROVE  h \in Heading
<1>1. HeadLen \in Nat \ {0} /\ sent[c] \in Seq(Packets)
  BY PacketsAssumption DEF TypeOK
<1> DEFINE n == units[1][1]
<1>2. n \in 1..Len(sent[c])
  <2>1. units[1] \in UnitOf(c)
    BY <1>1, ElementOfSeq
  <2> QED BY <2>1 DEF UnitOf
<1>3. n \in Nat /\ sent[c][n] \in Packets
  BY <1>1, <1>2, ElementOfSeq, LenProperties
<1> HIDE DEF n
<1>4. Heads(c, units) = IF units = HeadUnits(n) THEN {[n |-> n, p |-> sent[c][n]]}
                        ELSE {NoHead} \cup {[n |-> 0, p |-> p] : p \in Packets}
  BY DEF Heads, n
<1>5. NoHead \in Heading
  BY DEF NoHead, Heading
<1> QED BY <1>3, <1>4, <1>5 DEF Heading

(* The head of o was read; ask and rest hold what is behind it. *)
LEMMA OpenedFacts ==
  ASSUME Inv, listener = "distribute", HeadComplete, NEW o \in Opened
  PROVE  /\ o.head \in Heading
         /\ o.ask \in Seq(UnitOf(Client)) /\ o.rest \in Seq(UnitOf(Client))
         /\ o.head # NoHead => Len(o.ask) <= o.head.p.len
<1>1. HeadLen \in Nat \ {0}
  BY PacketsAssumption
<1>2. CASE Reading.head # NoHead
  <2>1. o = [head |-> Reading.head, ask |-> Reading.ask, rest |-> msg.rest]
    BY <1>2 DEF Opened
  <2> QED BY <2>1, <1>2, ReadingFacts
<1>3. CASE Reading.head = NoHead
  <2> DEFINE missing == HeadLen - Len(Reading.ask)
             first == SubSeq(msg.rest, 1, missing)
             last == SubSeq(msg.rest, missing + 1, Len(msg.rest))
  <2>1. missing \in 1..Len(msg.rest)
    BY <1>1, <1>3, ReadingFacts DEF HeadComplete
  <2>2. PICK h \in Heads(Client, Reading.ask \o first) :
            o = [head |-> h, ask |-> <<>>, rest |-> last]
    BY <1>3 DEF Opened, Take, Drop
  <2>3. first \in Seq(UnitOf(Client)) /\ Len(first) = missing /\ last \in Seq(UnitOf(Client))
    <3> HIDE DEF missing
    <3>1. missing \in 0..Len(msg.rest)
      BY <2>1
    <3> QED BY <3>1, ReadingFacts, Cut
  <2> HIDE DEF first, last
  <2>4. Reading.ask \o first \in Seq(UnitOf(Client)) /\ Len(Reading.ask \o first) = HeadLen
    <3>1. /\ Reading.ask \o first \in Seq(UnitOf(Client))
          /\ Len(Reading.ask \o first) = Len(Reading.ask) + Len(first)
      BY <2>3, ReadingFacts, ConcatProperties
    <3> QED BY <3>1, <2>3, <1>1, ReadingFacts
  <2>5. h \in Heading
    <3> DEFINE u == Reading.ask \o first
    <3>1. u \in Seq(UnitOf(Client)) /\ Len(u) = HeadLen /\ h \in Heads(Client, u)
      BY <2>4
    <3> HIDE DEF u
    <3> QED BY <3>1, HeadsFacts, ReadingFacts DEF Inv
  <2>6. <<>> \in Seq(UnitOf(Client)) /\ Len(<<>>) = 0
    BY EmptySeq
  <2> QED BY <2>2, <2>3, <2>5, <2>6, HeadingLen
<1> QED BY <1>2, <1>3

(* ask is the whole payload and rest what the message holds behind it. *)
Completes(o, ask, rest) ==
    LET left == o.head.p.len - Len(o.ask)
    IN /\ HeadComplete
       /\ o \in Opened
       /\ o.head # NoHead
       /\ o.head.p.len <= Len(o.ask) + Len(o.rest)
       /\ ask = o.ask \o Take(o.rest, left)
       /\ rest = Drop(o.rest, left)

(* A complete payload is as long as its head says and takes nothing else.  *)
LEMMA CompleteFacts ==
  ASSUME Inv, listener = "distribute", NEW o, NEW ask, NEW rest, Completes(o, ask, rest)
  PROVE  /\ o \in Opened /\ HeadComplete /\ o.head # NoHead
         /\ o.head \in Heading /\ o.head.p.len \in Nat
         /\ ask \in Seq(UnitOf(Client)) /\ Len(ask) = o.head.p.len
         /\ rest \in Seq(UnitOf(Client))
         /\ Cat(ask, rest) = Cat(o.ask, o.rest)
<1>1. /\ o \in Opened /\ HeadComplete /\ o.head # NoHead
      /\ o.head.p.len <= Len(o.ask) + Len(o.rest)
  BY DEF Completes
<1>2. /\ o.head \in Heading /\ o.head.p.len \in Nat
      /\ o.ask \in Seq(UnitOf(Client)) /\ o.rest \in Seq(UnitOf(Client))
      /\ Len(o.ask) <= o.head.p.len /\ Len(o.ask) \in Nat /\ Len(o.rest) \in Nat
  BY <1>1, OpenedFacts, HeadingLen, LenProperties
<1> DEFINE left == o.head.p.len - Len(o.ask)
           first == SubSeq(o.rest, 1, left)
<1>3. ask = Cat(o.ask, first) /\ rest = SubSeq(o.rest, left + 1, Len(o.rest))
  BY DEF Completes, Take, Drop, Cat
<1>4. left \in 0..Len(o.rest) /\ Len(o.ask) + left = o.head.p.len
  <2>1. ASSUME NEW p \in Nat, NEW a \in Nat, NEW r \in Nat, a <= p, p <= a + r
        PROVE  p - a \in 0..r /\ a + (p - a) = p
    BY ONLY <2>1, p \in Nat, a \in Nat, r \in Nat
  <2> QED BY <1>1, <1>2, <2>1
<1>5. /\ first \in Seq(UnitOf(Client)) /\ Len(first) = left
      /\ rest \in Seq(UnitOf(Client)) /\ Cat(first, rest) = o.rest
  <2> HIDE DEF left
  <2> QED BY <1>2, <1>3, <1>4, Cut
<1> HIDE DEF first, left
<1>6. ask \in Seq(UnitOf(Client)) /\ Len(ask) = Len(o.ask) + left
  BY <1>2, <1>3, <1>5, CatType
<1>7. Cat(ask, rest) = Cat(o.ask, Cat(first, rest))
  <2>1. Cat(Cat(o.ask, first), rest) = Cat(o.ask, Cat(first, rest))
    BY <1>2, <1>5, CatAssoc
  <2> QED BY <1>3, <2>1
<1> QED BY <1>1, <1>2, <1>4, <1>5, <1>6, <1>7

(* The three things that ProcessMsg and Distribute do with it.             *)
LEMMA CompleteDrop ==
  CompletePacket(DropPacket) =>
    \E o, ask, rest, success : /\ Completes(o, ask, rest) /\ success \in Parses(o.head, ask)
                              /\ DropPacket(success, o.head, ask, rest)
BY Zenon DEF CompletePacket, Completes

LEMMA CompleteHandle ==
  CompletePacket(HandlePacket) =>
    \E o, ask, rest, success : /\ Completes(o, ask, rest) /\ success \in Parses(o.head, ask)
                              /\ HandlePacket(success, o.head, ask, rest)
BY Zenon DEF CompletePacket, Completes

LEMMA CompleteNoCallback ==
  CompletePacket(NoCallback) =>
    \E o, ask, rest, success : /\ Completes(o, ask, rest) /\ success \in Parses(o.head, ask)
                              /\ NoCallback(success, o.head, ask, rest)
BY Zenon DEF CompletePacket, Completes

(* Distribute writes one packet, and what it has not read of the message.  *)
LEMMA StoreKeeps ==
  ASSUME Inv, listener = "distribute", NEW head \in Heading,
         NEW ask \in Seq(UnitOf(Client)), NEW rest \in Seq(UnitOf(Client)),
         head = NoHead => Len(ask) < HeadLen, head # NoHead => Len(ask) <= head.p.len,
         Store([head |-> head, ask |-> ask], rest),
         sendQ' \in Seq([to : Clients, re : Nat]), handled' \in [Clients -> Seq(Nat)],
         badHead' \in BOOLEAN,
         UNCHANGED <<handlers, recvQ, listener, sender, owner, round, clientVars>>
  PROVE  Inv'
<1> USE DEF Inv, clientVars
<1>1. Client \in Clients /\ msg.from = Client /\ round # 0
  BY ReadingFacts DEF Client
<1>2. /\ packetMap' = [packetMap EXCEPT ![Client] = [head |-> head, ask |-> ask]]
      /\ msg' = [msg EXCEPT !.rest = rest]
  BY DEF Store
<1>3. ask \in Seq(Unit) /\ rest \in Seq(Unit)
  BY <1>1, UnitOfUnit
<1>4. TypeOK'
  <2>1. packetMap' \in [Clients -> [head : Heading, ask : Seq(Unit)]]
    BY <1>1, <1>2, <1>3 DEF TypeOK
  <2>2. msg' \in [from : Clients \cup {"nobody"}, rest : Seq(Unit)]
    BY <1>2, <1>3 DEF TypeOK
  <2> QED BY <2>1, <2>2 DEF TypeOK
<1>5. \A c : UnitOf(c)' = UnitOf(c)
  BY DEF UnitOf
<1>6. /\ msg'.from = Client /\ msg'.rest = rest
      /\ packetMap'[Client] = [head |-> head, ask |-> ask]
      /\ \A c \in Clients : c # Client => packetMap'[c] = packetMap[c]
  BY <1>1, <1>2 DEF TypeOK
<1>7. FromSent'
  <2>1. \A c \in Clients : packetMap'[c].ask \in Seq(UnitOf(c)) /\ wire'[c] \in Seq(UnitOf(c))
    <3> SUFFICES ASSUME NEW c \in Clients PROVE packetMap'[c].ask \in Seq(UnitOf(c))
      BY DEF FromSent
    <3>1. CASE c = Client
      BY <3>1, <1>6
    <3>2. CASE c # Client
      BY <3>2, <1>6 DEF FromSent
    <3> QED BY <3>1, <3>2
  <2>2. \A i \in DOMAIN recvQ' : recvQ'[i].rest \in Seq(UnitOf(recvQ'[i].from))
    BY DEF FromSent
  <2> QED BY <1>5, <1>6, <2>1, <2>2 DEF FromSent
<1>8. Partial'
  <2> SUFFICES ASSUME NEW c \in Clients
               PROVE  IF packetMap'[c].head = NoHead THEN Len(packetMap'[c].ask) < HeadLen
                      ELSE Len(packetMap'[c].ask) <= packetMap'[c].head.p.len
    BY DEF Partial
  <2>1. CASE c = Client
    BY <2>1, <1>6
  <2>2. CASE c # Client
    BY <2>2, <1>6 DEF Partial
  <2> QED BY <2>1, <2>2
<1>9. Threads'
  BY <1>1, <1>6 DEF Threads
<1>10. NotStarted'
  BY <1>1 DEF NotStarted
<1> QED BY <1>4, <1>7, <1>8, <1>9, <1>10

(* Every result of ProcessMsg keeps the invariant.                         *)
LEMMA DistributeInv == Inv /\ Distribute => Inv'
<1> SUFFICES ASSUME Inv, Distribute PROVE Inv'
  OBVIOUS
<1>1. /\ listener = "distribute"
      /\ UNCHANGED <<handlers, recvQ, listener, sender, owner, round, clientVars>>
  BY DEF Distribute
<1>2. /\ sendQ \in Seq([to : Clients, re : Nat]) /\ handled \in [Clients -> Seq(Nat)]
      /\ badHead \in BOOLEAN
  BY DEF Inv, TypeOK
<1>3. NoHead \in Heading /\ << >> \in Seq(UnitOf(Client)) /\ Len(<< >>) < HeadLen
  BY EmptySeq, PacketsAssumption DEF NoHead, Heading
<1>4. CASE KeepPartialHead
  <2> DEFINE ask == Reading.ask \o msg.rest
  <2>1. ask \in Seq(UnitOf(Client)) /\ Len(ask) = Len(Reading.ask) + Len(msg.rest)
    BY <1>1, ReadingFacts, ConcatProperties
  <2>2. Reading.head = NoHead /\ Len(ask) < HeadLen
    BY <1>1, <1>4, <2>1, ReadingFacts, PacketsAssumption DEF KeepPartialHead, HeadComplete
  <2>3. Reading = [head |-> Reading.head, ask |-> Reading.ask]
    BY <1>1, ReadingFacts
  <2>4. Store([head |-> NoHead, ask |-> ask], << >>)
    <3>1. [Reading EXCEPT !.ask = ask] = [head |-> NoHead, ask |-> ask]
      <4> HIDE DEF ask
      <4> QED BY <2>2, <2>3
    <3> QED BY <1>4, <3>1 DEF KeepPartialHead
  <2>5. UNCHANGED <<handled, sendQ, badHead>>
    BY <1>4 DEF KeepPartialHead
  <2> HIDE DEF ask
  <2> QED BY <1>1, <1>2, <1>3, <2>1, <2>2, <2>4, <2>5, StoreKeeps
<1>5. CASE RejectHead
  <2>1. Store([head |-> NoHead, ask |-> << >>], << >>)
    BY <1>5 DEF RejectHead, FreshPacket
  <2>2. badHead' \in BOOLEAN /\ UNCHANGED <<handled, sendQ>>
    BY <1>5 DEF RejectHead
  <2> QED BY <1>1, <1>2, <1>3, <2>1, <2>2, StoreKeeps
<1>6. CASE KeepPartialPayload
  <2>1. PICK o \in Opened : /\ o.head # NoHead
                            /\ o.head.p.len > Len(o.ask) + Len(o.rest)
                            /\ Store([head |-> o.head, ask |-> o.ask \o o.rest], <<>>)
    BY <1>6 DEF KeepPartialPayload
  <2>2. HeadComplete /\ UNCHANGED <<handled, sendQ, badHead>>
    BY <1>6 DEF KeepPartialPayload
  <2>3. /\ o.head \in Heading /\ o.head.p.len \in Nat
        /\ o.ask \in Seq(UnitOf(Client)) /\ o.rest \in Seq(UnitOf(Client))
    BY <1>1, <2>2, OpenedFacts, HeadingLen
  <2> DEFINE ask == o.ask \o o.rest
             head == o.head
  <2>4. ask \in Seq(UnitOf(Client)) /\ Len(ask) = Len(o.ask) + Len(o.rest)
    BY <2>3, ConcatProperties
  <2>5. Len(o.ask) \in Nat /\ Len(o.rest) \in Nat
    BY <2>3, LenProperties
  <2>6. head \in Heading /\ head # NoHead /\ Len(ask) <= head.p.len
    <3> HIDE DEF ask
    <3>1. Len(ask) < o.head.p.len
      <4>1. /\ Len(ask) = Len(o.ask) + Len(o.rest) /\ o.head.p.len > Len(o.ask) + Len(o.rest)
            /\ o.head.p.len \in Nat /\ Len(o.ask) \in Nat /\ Len(o.rest) \in Nat
        BY <2>1, <2>3, <2>4, <2>5
      <4> QED BY ONLY <4>1
    <3>2. Len(ask) \in Nat
      BY <2>4, LenProperties
    <3> QED BY <2>1, <2>3, <3>1, <3>2
  <2>7. Store([head |-> head, ask |-> ask], <<>>)
    BY <2>1
  <2> HIDE DEF ask, head
  <2> QED BY <1>1, <1>2, <1>3, <2>2, <2>4, <2>6, <2>7, StoreKeeps
<1>7. ASSUME NEW o, NEW ask, NEW rest, NEW success, Completes(o, ask, rest),
             \/ DropPacket(success, o.head, ask, rest)
             \/ HandlePacket(success, o.head, ask, rest)
             \/ NoCallback(success, o.head, ask, rest)
      PROVE  Inv'
  <2> DEFINE head == o.head
  <2>1. /\ head \in Heading /\ head # NoHead /\ head.p.len \in Nat
        /\ ask \in Seq(UnitOf(Client)) /\ Len(ask) = head.p.len
        /\ rest \in Seq(UnitOf(Client))
    BY <1>1, <1>7, CompleteFacts
  <2>3. Client \in Clients
    BY <1>1, ReadingFacts
  <2>4. CASE DropPacket(success, head, ask, rest)
    <3>1. Store([head |-> NoHead, ask |-> << >>], rest) /\ UNCHANGED <<handled, sendQ, badHead>>
      BY <2>4 DEF DropPacket, FreshPacket
    <3> HIDE DEF head
    <3> QED BY <1>1, <1>2, <1>3, <2>1, <3>1, StoreKeeps
  <2>5. CASE HandlePacket(success, head, ask, rest)
    <3> DEFINE n == IF Genuine(head, ask) THEN head.n ELSE 0
    <3>1. n \in Nat
      BY <2>1 DEF Heading
    <3>2. /\ Store([head |-> NoHead, ask |-> << >>], rest) /\ UNCHANGED badHead
          /\ handled' = [handled EXCEPT ![Client] = Append(@, n)]
          /\ sendQ' = IF head.p.type \in Answered
                      THEN Append(sendQ, [to |-> Client, re |-> n]) ELSE sendQ
      BY <2>5 DEF HandlePacket, FreshPacket
    <3> HIDE DEF n, head
    <3>3. handled' \in [Clients -> Seq(Nat)]
      <4>1. Append(handled[Client], n) \in Seq(Nat)
        BY <1>2, <2>3, <3>1, AppendProperties
      <4> QED BY <1>2, <3>2, <4>1
    <3>4. sendQ' \in Seq([to : Clients, re : Nat])
      <4>1. [to |-> Client, re |-> n] \in [to : Clients, re : Nat]
        BY <2>3, <3>1
      <4> QED BY <1>2, <3>2, <4>1, AppendProperties
    <3> QED BY <1>1, <1>2, <1>3, <2>1, <3>2, <3>3, <3>4, StoreKeeps
  <2>6. CASE NoCallback(success, head, ask, rest)
    <3>1. Store([head |-> head, ask |-> ask], rest) /\ UNCHANGED <<handled, sendQ, badHead>>
      BY <2>6 DEF NoCallback
    <3> HIDE DEF head
    <3>2. Len(ask) <= head.p.len
      BY <2>1
    <3> QED BY <1>1, <1>2, <2>1, <3>1, <3>2, StoreKeeps
  <2> QED BY <1>7, <2>4, <2>5, <2>6
<1>8. CASE CompletePacket(DropPacket)
  BY <1>7, <1>8, CompleteDrop
<1>9. CASE CompletePacket(HandlePacket)
  BY <1>7, <1>9, CompleteHandle
<1>10. CASE CompletePacket(NoCallback)
  BY <1>7, <1>10, CompleteNoCallback
<1> QED BY <1>4, <1>5, <1>6, <1>8, <1>9, <1>10 DEF Distribute

-----------------------------------------------------------------------------
(* The other actions. *)

LEMMA ListenerInv == Inv /\ (ListenerTest \/ ReceiveMsg \/ ReceiveTimeout \/ EndDistribute) => Inv'
<1> SUFFICES ASSUME Inv, ListenerTest \/ ReceiveMsg \/ ReceiveTimeout \/ EndDistribute PROVE Inv'
  OBVIOUS
<1> USE DEF Inv, clientVars
<1>1. UNCHANGED <<handlers, packetMap, sendQ, sender, owner, round, clientVars, handled, badHead>>
  BY DEF ListenerTest, ReceiveMsg, ReceiveTimeout, EndDistribute
<1>2. Partial' /\ \A c : UnitOf(c)' = UnitOf(c)
  BY <1>1 DEF Partial, UnitOf
<1>3. /\ msg' \in [from : Clients \cup {"nobody"}, rest : Seq(Unit)]
      /\ recvQ' \in Seq([from : Clients, rest : Seq(Unit)])
      /\ \A i \in DOMAIN recvQ' : recvQ'[i].rest \in Seq(UnitOf(recvQ'[i].from))
      /\ msg'.from \in Clients => msg'.rest \in Seq(UnitOf(msg'.from))
  <2>1. CASE ReceiveMsg
    <3>1. /\ msg' = recvQ[1] /\ recvQ' = Tail(recvQ) /\ recvQ # <<>>
          /\ recvQ \in Seq([from : Clients, rest : Seq(Unit)])
      BY <2>1 DEF ReceiveMsg, TypeOK
    <3>2. /\ recvQ' \in Seq([from : Clients, rest : Seq(Unit)]) /\ Len(recvQ) \in Nat \ {0}
          /\ Len(recvQ') = Len(recvQ) - 1
          /\ \A i \in 1..Len(recvQ') : recvQ'[i] = recvQ[i + 1]
      BY <3>1, HeadTailProperties, EmptySeq
    <3>3. DOMAIN recvQ = 1..Len(recvQ) /\ DOMAIN recvQ' = 1..Len(recvQ')
      BY <3>1, <3>2, LenProperties
    <3>4. /\ msg' \in [from : Clients, rest : Seq(Unit)]
          /\ msg'.rest \in Seq(UnitOf(msg'.from))
      <4>1. 1 \in 1..Len(recvQ) /\ 1 \in DOMAIN recvQ
        BY <3>2, <3>3
      <4>2. recvQ[1] \in [from : Clients, rest : Seq(Unit)]
        BY <3>1, <4>1, ElementOfSeq
      <4>3. recvQ[1].rest \in Seq(UnitOf(recvQ[1].from))
        BY <4>1 DEF FromSent
      <4> QED BY <3>1, <4>2, <4>3
    <3>5. ASSUME NEW i \in DOMAIN recvQ' PROVE recvQ'[i].rest \in Seq(UnitOf(recvQ'[i].from))
      <4>1. i + 1 \in DOMAIN recvQ /\ recvQ'[i] = recvQ[i + 1]
        BY <3>2, <3>3
      <4> QED BY <4>1 DEF FromSent
    <3> QED BY <3>2, <3>4, <3>5
  <2>2. CASE EndDistribute
    <3>1. msg' = Nothing /\ recvQ' = recvQ
      BY <2>2 DEF EndDistribute
    <3>2. <<>> \in Seq(Unit) /\ \A c : <<>> \in Seq(UnitOf(c))
      BY EmptySeq
    <3> QED BY <3>1, <3>2 DEF TypeOK, FromSent, Nothing
  <2>3. CASE ListenerTest \/ ReceiveTimeout
    <3>1. msg' = msg /\ recvQ' = recvQ
      BY <2>3 DEF ListenerTest, ReceiveTimeout
    <3> QED BY <3>1 DEF TypeOK, FromSent
  <2> QED BY <2>1, <2>2, <2>3
<1>4. listener' \in ListenerPc
  BY DEF ListenerTest, ReceiveMsg, ReceiveTimeout, EndDistribute, ListenerPc
<1>5. TypeOK'
  BY <1>1, <1>3, <1>4 DEF TypeOK
<1>6. FromSent'
  BY <1>1, <1>2, <1>3 DEF FromSent
<1>7. Threads'
  <2>1. CASE ReceiveMsg
    <3>1. msg'.from \in Clients /\ recvQ # <<>>
      <4>1. msg' = recvQ[1] /\ recvQ # <<>> /\ recvQ \in Seq([from : Clients, rest : Seq(Unit)])
        BY <2>1 DEF ReceiveMsg, TypeOK
      <4>2. 1 \in 1..Len(recvQ)
        BY <4>1, EmptySeq
      <4>3. recvQ[1] \in [from : Clients, rest : Seq(Unit)]
        BY <4>1, <4>2, ElementOfSeq
      <4> QED BY <4>1, <4>3
    <3> QED BY <2>1, <3>1, <1>1 DEF Threads, ReceiveMsg
  <2>2. CASE ListenerTest \/ ReceiveTimeout \/ EndDistribute
    BY <2>2, <1>1 DEF Threads, ListenerTest, ReceiveTimeout, EndDistribute
  <2> QED BY <2>1, <2>2
<1>8. NotStarted'
  BY <1>1 DEF NotStarted
<1> QED BY <1>2, <1>5, <1>6, <1>7, <1>8

LEMMA SenderInv == Inv /\ Sender => Inv'
<1> SUFFICES ASSUME Inv, Sender PROVE Inv'
  OBVIOUS
<1> USE DEF Inv, clientVars
<1>1. /\ UNCHANGED <<handlers, packetMap, msg, recvQ, listener, owner, round, wire, sent, handled, badHead>>
      /\ sender # "off"
  BY DEF Sender, SenderTest, SendMsg, SendTimeout
<1>2. sender' \in SenderPc
  BY DEF Sender, SenderTest, SendMsg, SendTimeout, SenderPc
<1>3. sendQ' \in Seq([to : Clients, re : Nat]) /\ inbox' \in [Clients -> Seq(Nat)]
  <2>1. sendQ \in Seq([to : Clients, re : Nat]) /\ inbox \in [Clients -> Seq(Nat)]
    BY DEF TypeOK
  <2>2. CASE SendMsg
    <3>1. /\ Head(sendQ) \in [to : Clients, re : Nat] /\ sendQ' \in Seq([to : Clients, re : Nat])
          /\ inbox' = [inbox EXCEPT ![Head(sendQ).to] = Append(@, Head(sendQ).re)]
      BY <2>1, <2>2, HeadTailProperties DEF SendMsg
    <3>2. Append(inbox[Head(sendQ).to], Head(sendQ).re) \in Seq(Nat)
      BY <2>1, <3>1, AppendProperties
    <3> QED BY <2>1, <3>1, <3>2
  <2>3. CASE SenderTest \/ SendTimeout
    BY <2>1, <2>3 DEF SenderTest, SendTimeout
  <2> QED BY <2>2, <2>3 DEF Sender
<1>4. TypeOK'
  BY <1>1, <1>2, <1>3 DEF TypeOK
<1>5. \A c : UnitOf(c)' = UnitOf(c)
  BY <1>1 DEF UnitOf
<1>6. FromSent' /\ Partial'
  BY <1>1, <1>5 DEF FromSent, Partial
<1>7. owner # "idle"
  BY <1>1 DEF Threads
<1>8. Threads'
  BY <1>1, <1>7 DEF Threads
<1>9. NotStarted'
  BY <1>1, <1>7 DEF NotStarted
<1> QED BY <1>4, <1>6, <1>8, <1>9

(* Taking from and dropping of a sequence.                                 *)
LEMMA PrefixKept ==
  ASSUME NEW S, NEW s \in Seq(S), NEW k \in 0..Len(s)
  PROVE  Take(s, k) \in Seq(S) /\ Drop(s, k) \in Seq(S)
BY Cut DEF Take, Drop

LEMMA TaskInv == Inv /\ Task => Inv'
<1> SUFFICES ASSUME Inv, Task PROVE Inv'
  OBVIOUS
<1> USE DEF Inv, serverVars, clientVars
<1>1. CASE \E t \in Extensible : RegisterPacketHandler(t) \/ UnregisterPacketHandler(t)
  <2>1. /\ UNCHANGED <<serverVars, owner, round, clientVars, handled, badHead>>
        /\ BuiltIn \subseteq handlers' /\ handlers' \subseteq BuiltIn \cup Extensible
    BY <1>1, ExtensibleAssumption DEF RegisterPacketHandler, UnregisterPacketHandler, TypeOK
  <2> QED BY <2>1 DEF TypeOK, FromSent, UnitOf, Partial, Threads, NotStarted
<1>2. CASE StartDisposeClientAsk
  <2> USE <1>2 DEF StartDisposeClientAsk
  <2>1. TypeOK'
    BY PacketsAssumption DEF TypeOK, ListenerPc, SenderPc, OwnerPc
  <2>2. FromSent' /\ Partial'
    BY DEF FromSent, UnitOf, Partial
  <2>3. Threads'
    BY DEF Threads
  <2>4. NotStarted'
    BY DEF NotStarted, TypeOK
  <2> QED BY <2>1, <2>2, <2>3, <2>4
<1>3. CASE ProgramExits
  <2>1. PICK kept \in [Clients -> UNION {0..Len(wire[c]) : c \in Clients}] :
          /\ \A c \in Clients : kept[c] <= Len(wire[c])
          /\ wire' = [c \in Clients |-> Take(wire[c], kept[c])]
    BY <1>3 DEF ProgramExits
  <2>2. /\ owner = "running" /\ owner' = "returned"
        /\ UNCHANGED <<handlers, serverVars, round, sent, inbox, handled, badHead>>
    BY <1>3 DEF ProgramExits
  <2>3. \A c \in Clients : kept[c] \in 0..Len(wire[c])
    <3> TAKE c \in Clients
    <3>1. kept[c] \in UNION {0..Len(wire[d]) : d \in Clients}
      BY <2>1
    <3>2. PICK d \in Clients : kept[c] \in 0..Len(wire[d])
      BY <3>1
    <3>3. Len(wire[c]) \in Nat
      BY LenProperties DEF TypeOK
    <3> QED BY <2>1, <3>2, <3>3
  <2>4. \A c \in Clients : wire'[c] = Take(wire[c], kept[c])
    BY <2>1
  <2>5. \A c \in Clients : wire'[c] \in Seq(Unit) /\ wire'[c] \in Seq(UnitOf(c))
    <3> TAKE c \in Clients
    <3>1. wire[c] \in Seq(Unit) /\ wire[c] \in Seq(UnitOf(c))
      BY DEF TypeOK, FromSent
    <3> QED BY <2>3, <2>4, <3>1, PrefixKept
  <2>6. wire' = [c \in Clients |-> wire'[c]]
    BY <2>1
  <2>7. wire' \in [Clients -> Seq(Unit)]
    BY <2>5, <2>6
  <2>8. TypeOK'
    BY <2>2, <2>7 DEF TypeOK, OwnerPc
  <2>9. FromSent' /\ Partial'
    BY <2>2, <2>5 DEF FromSent, UnitOf, Partial
  <2>10. Threads' /\ NotStarted'
    BY <2>2 DEF Threads, NotStarted
  <2> QED BY <2>8, <2>9, <2>10
<1>4. CASE BeginStop
  BY <1>4 DEF BeginStop, TypeOK, FromSent, UnitOf, Partial, Threads, NotStarted, OwnerPc
<1>5. CASE JoinListener
  BY <1>5 DEF JoinListener, TypeOK, FromSent, UnitOf, Partial, Threads, NotStarted, OwnerPc, ListenerPc
<1>6. CASE EndStop
  <2> USE <1>6 DEF EndStop
  <2>1. \A S : << >> \in Seq(S) /\ DOMAIN << >> = {}
    BY EmptySeq
  <2>2. TypeOK'
    BY <2>1 DEF TypeOK, OwnerPc, SenderPc
  <2>3. FromSent'
    BY <2>1 DEF FromSent, UnitOf
  <2>4. Partial' /\ Threads' /\ NotStarted'
    BY DEF Partial, Threads, NotStarted
  <2> QED BY <2>2, <2>3, <2>4
<1> QED BY <1>1, <1>2, <1>3, <1>4, <1>5, <1>6 DEF Task

(* A packet is made of units with its own number.                          *)
LEMMA UnitsOfSender ==
  ASSUME NEW n \in Nat \ {0}, NEW p \in Packets
  PROVE  Units(n, p) \in Seq((1..n) \X Nat)
<1>1. /\ HeadUnits(n) \in [1..HeadLen -> (1..n) \X Nat] /\ HeadLen \in Nat
      /\ PayloadUnits(n, p) \in [1..p.len -> (1..n) \X Nat] /\ p.len \in Nat
  BY PacketsAssumption DEF HeadUnits, PayloadUnits
<1>2. HeadUnits(n) \in Seq((1..n) \X Nat) /\ PayloadUnits(n, p) \in Seq((1..n) \X Nat)
  BY <1>1, SeqDef
<1> QED BY <1>2, ConcatProperties DEF Units

LEMMA ClientSendInv == ASSUME Inv, NEW c \in Clients, NEW p \in Packets, ClientSend(c, p) PROVE Inv'
<1> USE DEF Inv, serverVars
<1>1. /\ owner = "running" /\ UNCHANGED <<handlers, serverVars, owner, round, inbox, handled, badHead>>
      /\ sent' = [sent EXCEPT ![c] = Append(@, p)]
      /\ wire' = [wire EXCEPT ![c] = @ \o Units(Len(sent[c]) + 1, p)]
  BY DEF ClientSend
<1>2. /\ sent[c] \in Seq(Packets) /\ Len(sent[c]) \in Nat /\ wire[c] \in Seq(Unit)
      /\ wire[c] \in Seq(UnitOf(c))
  BY LenProperties DEF TypeOK, FromSent
<1>3. /\ Append(sent[c], p) \in Seq(Packets) /\ Len(Append(sent[c], p)) = Len(sent[c]) + 1
  BY <1>2, AppendProperties
<1>4. sent' \in [Clients -> Seq(Packets)]
  BY <1>1, <1>3 DEF TypeOK
<1> DEFINE N(d) == (1..Len(sent'[d])) \X Nat
<1>5. \A d \in Clients : UnitOf(d) \subseteq N(d)
  <2> TAKE d \in Clients
  <2>1. CASE d = c
    BY <2>1, <1>1, <1>2, <1>3 DEF UnitOf, TypeOK
  <2>2. CASE d # c
    BY <2>2, <1>1 DEF UnitOf, TypeOK
  <2> QED BY <2>1, <2>2
<1>6. \A d \in Clients : \A s \in Seq(UnitOf(d)) : s \in Seq(N(d))
  BY <1>5, SeqMonotonic
<1> DEFINE w == wire[c] \o Units(Len(sent[c]) + 1, p)
<1>7. w \in Seq(N(c)) /\ w \in Seq(Unit)
  <2>1. Len(sent[c]) + 1 \in Nat \ {0}
    BY <1>2
  <2>2. Units(Len(sent[c]) + 1, p) \in Seq((1..(Len(sent[c]) + 1)) \X Nat)
    BY <2>1, UnitsOfSender
  <2>3. N(c) = (1..(Len(sent[c]) + 1)) \X Nat
    BY <1>1, <1>3 DEF UnitOf, TypeOK
  <2>4. wire[c] \in Seq(N(c)) /\ Units(Len(sent[c]) + 1, p) \in Seq(N(c))
    BY <1>2, <1>6, <2>2, <2>3
  <2>5. w \in Seq(N(c))
    BY <2>4, ConcatProperties
  <2>6. N(c) \subseteq Unit
    BY <2>1, <2>3 DEF Unit
  <2> QED BY <2>5, <2>6, SeqMonotonic
<1> HIDE DEF w
<1>8. /\ wire' \in [Clients -> Seq(Unit)] /\ wire'[c] = w
      /\ \A d \in Clients : d # c => wire'[d] = wire[d]
  BY <1>1, <1>7 DEF TypeOK, w
<1>9. TypeOK'
  BY <1>1, <1>4, <1>8 DEF TypeOK
<1>10. FromSent'
  <2>1. \A d \in Clients : packetMap'[d].ask \in Seq(N(d)) /\ wire'[d] \in Seq(N(d))
    BY <1>1, <1>6, <1>7, <1>8 DEF FromSent
  <2>2. ASSUME NEW i \in DOMAIN recvQ' PROVE recvQ'[i].rest \in Seq(N(recvQ'[i].from))
    <3>1. recvQ'[i] = recvQ[i] /\ recvQ[i].from \in Clients
      <4>1. i \in 1..Len(recvQ)
        BY <1>1, LenProperties DEF TypeOK
      <4>2. recvQ[i] \in [from : Clients, rest : Seq(Unit)]
        BY <4>1, ElementOfSeq DEF TypeOK
      <4> QED BY <1>1, <4>2
    <3>2. recvQ[i].rest \in Seq(UnitOf(recvQ[i].from))
      BY <1>1 DEF FromSent
    <3>3. recvQ[i].rest \in Seq(N(recvQ[i].from))
      <4> HIDE DEF N
      <4> QED BY <1>6, <3>1, <3>2
    <3> QED BY <3>1, <3>3
  <2>3. msg'.from \in Clients => msg'.rest \in Seq(N(msg'.from))
    <3>1. msg' = msg
      BY <1>1
    <3>2. msg.from \in Clients => msg.rest \in Seq(UnitOf(msg.from))
      BY DEF FromSent
    <3>3. msg.from \in Clients => msg.rest \in Seq(N(msg.from))
      <4> HIDE DEF N
      <4> QED BY <1>6, <3>2
    <3> QED BY <3>1, <3>3
  <2> QED BY <2>1, <2>2, <2>3 DEF FromSent, UnitOf
<1>11. Partial' /\ Threads' /\ NotStarted'
  BY <1>1 DEF Partial, Threads, NotStarted
<1> QED BY <1>9, <1>10, <1>11

LEMMA MsgHandleInv == ASSUME Inv, NEW c \in Clients, MsgHandle(c) PROVE Inv'
<1> USE DEF Inv
<1>1. PICK k \in 1..Len(wire[c]) :
         /\ recvQ' = Append(recvQ, [from |-> c, rest |-> Take(wire[c], k)])
         /\ wire' = [wire EXCEPT ![c] = Drop(@, k)]
  BY DEF MsgHandle
<1>2. /\ owner # "idle"
      /\ UNCHANGED <<handlers, packetMap, msg, sendQ, listener, sender, owner, round,
                     sent, inbox, handled, badHead>>
  BY DEF MsgHandle
<1>3. wire[c] \in Seq(Unit) /\ wire[c] \in Seq(UnitOf(c)) /\ Len(wire[c]) \in Nat
  BY LenProperties DEF TypeOK, FromSent
<1>4. k \in 0..Len(wire[c])
  BY <1>3
<1> DEFINE x == Take(wire[c], k)
           y == Drop(wire[c], k)
<1>5. x \in Seq(Unit) /\ x \in Seq(UnitOf(c)) /\ y \in Seq(Unit) /\ y \in Seq(UnitOf(c))
  BY <1>3, <1>4, PrefixKept
<1>6. /\ wire' = [wire EXCEPT ![c] = y] /\ recvQ' = Append(recvQ, [from |-> c, rest |-> x])
  BY <1>1
<1> HIDE DEF x, y
<1>7. /\ wire' \in [Clients -> Seq(Unit)]
      /\ \A d \in Clients : wire'[d] = IF d = c THEN y ELSE wire[d]
  BY <1>5, <1>6 DEF TypeOK
<1> DEFINE m == [from |-> c, rest |-> x]
<1>8. m \in [from : Clients, rest : Seq(Unit)]
  BY <1>5
<1>9. /\ recvQ' \in Seq([from : Clients, rest : Seq(Unit)]) /\ Len(recvQ') = Len(recvQ) + 1
      /\ \A i \in 1..Len(recvQ) : recvQ'[i] = recvQ[i]
      /\ recvQ'[Len(recvQ) + 1] = m
  <2> HIDE DEF m
  <2>1. recvQ' = Append(recvQ, m) /\ recvQ \in Seq([from : Clients, rest : Seq(Unit)])
    BY <1>6 DEF TypeOK, m
  <2> QED BY <2>1, <1>8, AppendProperties
<1>10. TypeOK'
  BY <1>2, <1>7, <1>9 DEF TypeOK
<1>11. \A d : UnitOf(d)' = UnitOf(d)
  BY <1>2 DEF UnitOf
<1>12. FromSent'
  <2>1. \A d \in Clients : packetMap'[d].ask \in Seq(UnitOf(d)) /\ wire'[d] \in Seq(UnitOf(d))
    BY <1>2, <1>5, <1>7 DEF FromSent
  <2>2. ASSUME NEW i \in DOMAIN recvQ' PROVE recvQ'[i].rest \in Seq(UnitOf(recvQ'[i].from))
    <3>1. DOMAIN recvQ = 1..Len(recvQ) /\ DOMAIN recvQ' = 1..Len(recvQ') /\ Len(recvQ) \in Nat
      BY <1>9, LenProperties DEF TypeOK
    <3>2. CASE i = Len(recvQ) + 1
      BY <3>2, <1>5, <1>9
    <3>3. CASE i \in 1..Len(recvQ)
      BY <3>1, <3>3, <1>9 DEF FromSent
    <3> QED BY <3>1, <3>2, <3>3, <1>9
  <2> QED BY <1>2, <1>11, <2>1, <2>2 DEF FromSent
<1>13. Partial' /\ Threads' /\ NotStarted'
  BY <1>2 DEF Partial, Threads, NotStarted
<1> QED BY <1>10, <1>12, <1>13

(* The invariant is inductive.                                             *)
LEMMA InvNext == Inv /\ [Next]_vars => Inv'
<1> SUFFICES ASSUME Inv, [Next]_vars PROVE Inv'
  OBVIOUS
<1>1. CASE Listener
  BY <1>1, DistributeInv, ListenerInv DEF Listener
<1>2. CASE Sender
  BY <1>2, SenderInv
<1>3. CASE Task
  BY <1>3, TaskInv
<1>4. CASE \E c \in Clients : MsgHandle(c) \/ \E p \in Packets : ClientSend(c, p)
  BY <1>4, MsgHandleInv, ClientSendInv
<1>5. CASE UNCHANGED vars
  BY <1>5 DEF vars, serverVars, clientVars, Inv, TypeOK, FromSent, UnitOf, Partial, Threads, NotStarted
<1> QED BY <1>1, <1>2, <1>3, <1>4, <1>5 DEF Next

(* Whatever the clients send and in whatever chunks, in every round.       *)
THEOREM TypeCorrect == Spec => []TypeOK
<1>1. Inv => TypeOK
  BY DEF Inv
<1> QED BY <1>1, InitInv, InvNext, PTL DEF Spec

-----------------------------------------------------------------------------
(* Reassembly: what is read is the next packet of the stream. *)

LEMMA StreamHead ==
  ASSUME TypeOK, NEW c \in Clients, NEW m \in 1..(Len(sent[c]) + 1),
         NEW x \in Seq(Unit), Len(x) = HeadLen, NEW y \in Seq(Unit), Cat(x, y) = Stream(c, m)
  PROVE  /\ m \in 1..Len(sent[c])
         /\ x = HeadUnits(m)
         /\ y = Cat(PayloadUnits(m, sent[c][m]), Stream(c, m + 1))
<1>1. /\ sent[c] \in Seq(Packets) /\ Len(sent[c]) \in Nat /\ HeadLen \in Nat \ {0} /\ m \in Nat
  BY LenProperties, PacketsAssumption DEF TypeOK
<1>2. Len(Cat(x, y)) # 0
  <2>1. Len(Cat(x, y)) = Len(x) + Len(y) /\ Len(y) \in Nat
    BY CatType, LenProperties
  <2> QED BY <1>1, <2>1
<1>3. m \in 1..Len(sent[c])
  <2>1. m # Len(sent[c]) + 1
    <3> SUFFICES ASSUME m = Len(sent[c]) + 1 PROVE FALSE
      OBVIOUS
    <3>1. Stream(c, m) = <<>>
      BY <1>1, StreamEnd DEF Stream
    <3> QED BY <1>2, <3>1, EmptySeq
  <2> QED BY <1>1, <2>1
<1>4. sent[c][m] \in Packets /\ m + 1 \in 1..(Len(sent[c]) + 1)
  BY <1>1, <1>3, ElementOfSeq
<1> DEFINE h == HeadUnits(m)
           p == PayloadUnits(m, sent[c][m])
           z == Stream(c, m + 1)
<1>5. /\ h \in Seq(Unit) /\ Len(h) = HeadLen /\ p \in Seq(Unit) /\ z \in Seq(Unit)
  BY <1>1, <1>4, HeadFacts, PayloadFacts, StreamType DEF Stream
<1>6. Stream(c, m) = Cat(Units(m, sent[c][m]), z)
  BY <1>1, <1>3, StreamNext DEF Stream
<1>7. Units(m, sent[c][m]) = Cat(h, p)
  BY <1>1, <1>4, UnitsFacts
<1> HIDE DEF h, p, z
<1>8. Cat(Cat(h, p), z) = Cat(h, Cat(p, z)) /\ Cat(p, z) \in Seq(Unit)
  BY <1>5, CatAssoc, CatType
<1>9. Cat(x, y) = Cat(h, Cat(p, z))
  BY <1>6, <1>7, <1>8
<1>10. x = h /\ y = Cat(p, z)
  BY <1>5, <1>8, <1>9, Cancel
<1> QED BY <1>3, <1>10 DEF h, p, z

(* The head that is read is that of packet m, and its payload is next.     *)
LEMMA OpenedNext ==
  ASSUME Inv, listener = "distribute", HeadComplete, NEW o \in Opened,
         NEW m \in 1..(Len(sent[Client]) + 1), NEW z \in Seq(Unit),
         ReadingGenuine(Client),
         Cat(HeadRead(Client), Cat(Reading.ask, Cat(msg.rest, z))) = Stream(Client, m)
  PROVE  /\ m \in 1..Len(sent[Client])
         /\ o.head = [n |-> m, p |-> sent[Client][m]]
         /\ Cat(o.ask, Cat(o.rest, z))
              = Cat(PayloadUnits(m, sent[Client][m]), Stream(Client, m + 1))
<1> DEFINE c == Client
           a == Reading.ask
           r == msg.rest
<1>1. HeadLen \in Nat \ {0} /\ c \in Clients /\ TypeOK
  BY PacketsAssumption, ReadingFacts DEF Inv
<1>2. a \in Seq(Unit) /\ r \in Seq(Unit)
  BY <1>1, ReadingFacts, UnitOfUnit
<1>3. Cat(r, z) \in Seq(Unit) /\ Cat(a, Cat(r, z)) \in Seq(Unit)
  BY <1>2, CatType
<1>4. HeadRead(c) = IF Reading.head = NoHead THEN <<>> ELSE HeadUnits(Reading.head.n)
  BY ReadingFacts DEF HeadRead
<1>5. CASE Reading.head # NoHead
  <2> DEFINE n == Reading.head.n
  <2>1. n \in DOMAIN sent[c] /\ Reading.head.p = sent[c][n]
    BY <1>1, <1>5, ReadingFacts DEF ReadingGenuine
  <2>2. n \in Nat
    <3>1. sent[c] \in Seq(Packets)
      BY <1>1 DEF TypeOK
    <3>2. DOMAIN sent[c] = 1..Len(sent[c]) /\ Len(sent[c]) \in Nat
      BY <3>1, LenProperties
    <3> HIDE DEF n, c
    <3> QED BY <2>1, <3>2
  <2>3. /\ HeadUnits(n) \in Seq(Unit) /\ Len(HeadUnits(n)) = HeadLen
        /\ HeadUnits(n)[1][1] = n
    BY <2>2, HeadFacts
  <2>4. Cat(HeadUnits(n), Cat(a, Cat(r, z))) = Stream(c, m)
    BY <1>4, <1>5
  <2>5. /\ m \in 1..Len(sent[c])
        /\ HeadUnits(n) = HeadUnits(m)
        /\ Cat(a, Cat(r, z)) = Cat(PayloadUnits(m, sent[c][m]), Stream(c, m + 1))
    <3> HIDE DEF n, a, r, c
    <3> QED BY <1>1, <1>3, <2>3, <2>4, StreamHead DEF c
  <2>6. n = m
    <3>1. m \in Nat
      BY <2>5
    <3>2. HeadUnits(m)[1][1] = m
      BY <3>1, HeadFacts
    <3> QED BY <2>3, <2>5, <3>2
  <2>7. Reading.head = [n |-> m, p |-> sent[c][m]]
    BY <2>1, <2>6, ReadingFacts DEF Heading
  <2>8. o = [head |-> Reading.head, ask |-> Reading.ask, rest |-> msg.rest]
    BY <1>5 DEF Opened
  <2> QED BY <2>5, <2>7, <2>8
<1>6. CASE Reading.head = NoHead
  <2> DEFINE missing == HeadLen - Len(Reading.ask)
             first == SubSeq(msg.rest, 1, missing)
             last == SubSeq(msg.rest, missing + 1, Len(msg.rest))
  <2>1. missing \in 1..Len(msg.rest) /\ Len(a) \in Nat /\ Len(a) + missing = HeadLen
    BY <1>1, <1>6, ReadingFacts DEF HeadComplete
  <2>2. /\ first \in Seq(Unit) /\ Len(first) = missing /\ last \in Seq(Unit)
        /\ Cat(first, last) = r
    <3>1. missing \in 0..Len(r)
      BY <2>1
    <3> HIDE DEF missing
    <3> QED BY <1>2, <3>1, Cut
  <2>3. PICK h \in Heads(c, Cat(a, first)) : o = [head |-> h, ask |-> <<>>, rest |-> last]
    BY <1>6 DEF Opened, Take, Drop, Cat
  <2> HIDE DEF missing, first, last, a, r, c
  <2> DEFINE u == Cat(a, first)
  <2>4. u \in Seq(Unit) /\ Len(u) = HeadLen
    BY <1>2, <2>1, <2>2, CatType
  <2>5. Cat(last, z) \in Seq(Unit)
    BY <2>2, CatType
  <2>6. Cat(u, Cat(last, z)) = Stream(c, m)
    <3>1. Cat(r, z) = Cat(first, Cat(last, z))
      BY <2>2, CatAssoc
    <3>2. Cat(a, Cat(first, Cat(last, z))) = Cat(u, Cat(last, z))
      BY <1>2, <2>2, <2>5, CatAssoc
    <3>3. Cat(<<>>, Cat(a, Cat(r, z))) = Cat(a, Cat(r, z))
      BY <1>3, CatEmpty
    <3>4. Cat(<<>>, Cat(a, Cat(r, z))) = Stream(c, m)
      BY <1>4, <1>6 DEF a, r, c
    <3> QED BY <3>1, <3>2, <3>3, <3>4
  <2> HIDE DEF u
  <2>7. /\ m \in 1..Len(sent[c])
        /\ u = HeadUnits(m)
        /\ Cat(last, z) = Cat(PayloadUnits(m, sent[c][m]), Stream(c, m + 1))
    BY <1>1, <2>4, <2>5, <2>6, StreamHead DEF c
  <2>8. u[1][1] = m
    <3>1. m \in Nat
      BY <2>7
    <3> QED BY <2>7, <3>1, HeadFacts
  <2>9. h = [n |-> m, p |-> sent[c][m]]
    <3>1. Heads(c, u) = {[n |-> m, p |-> sent[c][m]]}
      BY <2>7, <2>8 DEF Heads
    <3> QED BY <2>3, <3>1 DEF u
  <2>10. Cat(<<>>, Cat(last, z)) = Cat(last, z)
    BY <2>5, CatEmpty
  <2> QED BY <2>3, <2>7, <2>9, <2>10 DEF c
<1> QED BY <1>5, <1>6

(* Packet m in the stream: head, payload and the rest.                     *)
LEMMA StreamSplit ==
  ASSUME TypeOK, NEW c \in Clients, NEW m \in 1..Len(sent[c])
  PROVE  /\ sent[c][m] \in Packets /\ m \in Nat \ {0} /\ m + 1 \in 1..(Len(sent[c]) + 1)
         /\ HeadUnits(m) \in Seq(Unit) /\ PayloadUnits(m, sent[c][m]) \in Seq(Unit)
         /\ Len(PayloadUnits(m, sent[c][m])) = sent[c][m].len
         /\ Stream(c, m + 1) \in Seq(Unit)
         /\ Stream(c, m) = Cat(HeadUnits(m), Cat(PayloadUnits(m, sent[c][m]), Stream(c, m + 1)))
<1>1. sent[c] \in Seq(Packets) /\ Len(sent[c]) \in Nat
  BY LenProperties DEF TypeOK
<1>2. sent[c][m] \in Packets /\ m \in Nat \ {0} /\ m + 1 \in 1..(Len(sent[c]) + 1)
  BY <1>1, ElementOfSeq
<1> DEFINE h == HeadUnits(m)
           p == PayloadUnits(m, sent[c][m])
           z == Stream(c, m + 1)
<1>3. /\ h \in Seq(Unit) /\ p \in Seq(Unit) /\ Len(p) = sent[c][m].len /\ z \in Seq(Unit)
  BY <1>1, <1>2, HeadFacts, PayloadFacts, StreamType DEF Stream
<1>4. Stream(c, m) = Cat(Cat(h, p), z)
  BY <1>1, <1>2, StreamNext, UnitsFacts DEF Stream
<1> HIDE DEF h, p, z
<1>5. Cat(Cat(h, p), z) = Cat(h, Cat(p, z))
  BY <1>3, CatAssoc
<1> QED BY <1>2, <1>3, <1>4, <1>5 DEF h, p, z

(* What ask and rest hold is regrouped, z is behind the message. *)
LEMMA RegroupRead ==
  ASSUME NEW a \in Seq(Unit), NEW r \in Seq(Unit), NEW z \in Seq(Unit)
  PROVE  Cat(Cat(a, r), Cat(<<>>, z)) = Cat(a, Cat(r, z))
<1>1. Cat(<<>>, z) = z
  BY CatEmpty
<1> QED BY <1>1, CatAssoc

LEMMA Regroup ==
  ASSUME NEW a \in Seq(Unit), NEW r \in Seq(Unit), NEW z \in Seq(Unit),
         NEW x \in Seq(Unit), NEW y \in Seq(Unit), Cat(x, y) = Cat(a, r)
  PROVE  Cat(x, Cat(y, z)) = Cat(a, Cat(r, z))
<1>1. Cat(Cat(a, r), z) = Cat(a, Cat(r, z))
  BY CatAssoc
<1>2. Cat(Cat(x, y), z) = Cat(x, Cat(y, z))
  BY CatAssoc
<1> QED BY <1>1, <1>2

(* The packet of one client changes, and what of its message is not read. *)
LEMMA StoreFrames ==
  ASSUME Inv, Framed, Serving, listener = "distribute",
         NEW head \in Heading, NEW ask, NEW rest,
         Store([head |-> head, ask |-> ask], rest),
         UNCHANGED <<recvQ, owner, wire, sent, badHead>>,
         handled' \in [Clients -> Seq(Nat)],
         \A d \in Clients : d # Client => handled'[d] = handled[d],
         head # NoHead => head.n \in DOMAIN sent[Client] /\ head.p = sent[Client][head.n],
         NEW m \in 1..(Len(sent[Client]) + 1), NEW lost \in Seq(Unit),
         owner = "running" => lost = <<>>,
         handled'[Client] = Sound(Client, m),
         Cat(IF head = NoHead THEN <<>> ELSE HeadUnits(head.n),
             Cat(ask, Cat(rest, Later(Client, lost)))) = Stream(Client, m)
  PROVE  Framed'
<1>1. /\ Client \in Clients /\ msg.from = Client
      /\ packetMap \in [Clients -> [head : Heading, ask : Seq(Unit)]]
      /\ msg \in [from : Clients \cup {"nobody"}, rest : Seq(Unit)]
  BY ReadingFacts DEF Client, Inv, TypeOK
<1>2. /\ msg'.from = msg.from /\ msg'.rest = rest
      /\ packetMap'[Client] = [head |-> head, ask |-> ask]
      /\ \A c \in Clients : c # Client => packetMap'[c] = packetMap[c]
  BY <1>1 DEF Store
<1>3. ~badHead'
  BY DEF Framed
<1>4. ASSUME NEW d \in Clients
      PROVE  /\ ReadingGenuine(d)'
             /\ \E n \in 1..(Len(sent'[d]) + 1) : \E left \in Seq(Unit) : Intact(d, n, left)'
  <2>1. /\ \A n : Sound(d, n)' = Sound(d, n) /\ Stream(d, n)' = Stream(d, n)
        /\ \A left : Later(d, left)' = Later(d, left)
    BY DEF Sound, Stream, Later, InQueue
  <2>2. CASE d = Client
    <3>1. ReadingGenuine(d)'
      BY <2>2, <1>2 DEF ReadingGenuine
    <3>2. /\ HeadRead(d)' = IF head = NoHead THEN <<>> ELSE HeadUnits(head.n)
          /\ packetMap'[d].ask = ask
          /\ InMsg(d)' = rest
      BY <2>2, <1>1, <1>2 DEF HeadRead, InMsg
    <3>3. Intact(d, m, lost)'
      BY <2>1, <2>2, <3>2 DEF Intact
    <3> QED BY <2>2, <3>1, <3>3
  <2>3. CASE d # Client
    <3>1. ReadingGenuine(d)' /\ HeadRead(d)' = HeadRead(d) /\ packetMap'[d] = packetMap[d]
      BY <2>3, <1>2 DEF ReadingGenuine, HeadRead, Framed
    <3>2. InMsg(d)' = InMsg(d)
      BY <2>3, <1>1, <1>2 DEF InMsg
    <3>3. PICK n \in 1..(Len(sent[d]) + 1) : \E left \in Seq(Unit) : Intact(d, n, left)
      BY DEF Framed
    <3>4. PICK left \in Seq(Unit) : Intact(d, n, left)
      BY <3>3
    <3>5. Intact(d, n, left)'
      BY <2>1, <2>3, <3>1, <3>2, <3>4 DEF Intact
    <3> QED BY <3>1, <3>5
  <2> QED BY <2>2, <2>3
<1> QED BY <1>3, <1>4 DEF Framed

(* What has not reached the listener yet is units.                         *)
LEMMA LaterType ==
  ASSUME TypeOK, NEW c \in Clients
  PROVE  InQueue(c) \in Seq(Unit) /\ \A lost \in Seq(Unit) : Later(c, lost) \in Seq(Unit)
<1>1. recvQ \in Seq(Chunk) /\ wire[c] \in Seq(Unit)
  BY DEF TypeOK, Chunk
<1>2. Chunks(recvQ, c) \in Seq(Seq(Unit))
  BY <1>1, ChunksFacts
<1>3. InQueue(c) \in Seq(Unit)
  BY <1>2, FlattenType DEF InQueue
<1>4. \A lost \in Seq(Unit) : Cat(wire[c], lost) \in Seq(Unit)
  BY <1>1, CatType
<1> QED BY <1>3, <1>4, CatType DEF Later

(* While Distribute loops, the units of the client are the stream from m on. *)
LEMMA DistributeFacts ==
  ASSUME Inv, Framed, listener = "distribute"
  PROVE  /\ Serving /\ owner # "idle" /\ Client \in Clients /\ ~badHead
         /\ Reading.ask \in Seq(Unit) /\ msg.rest \in Seq(Unit)
         /\ ReadingGenuine(Client)
         /\ \E m \in 1..(Len(sent[Client]) + 1) : \E lost \in Seq(Unit) :
              /\ Later(Client, lost) \in Seq(Unit)
              /\ handled[Client] = Sound(Client, m)
              /\ owner = "running" => lost = <<>>
              /\ Cat(HeadRead(Client), Cat(Reading.ask, Cat(msg.rest, Later(Client, lost))))
                   = Stream(Client, m)
<1>1. /\ Client \in Clients /\ Reading = packetMap[Client]
      /\ Reading.ask \in Seq(Unit) /\ msg.rest \in Seq(Unit)
  BY ReadingFacts, UnitOfUnit DEF Inv
<1>2. Serving /\ owner # "idle"
  BY DEF Serving, Inv, Threads, TypeOK, OwnerPc
<1>3. /\ ReadingGenuine(Client)
      /\ \E m \in 1..(Len(sent[Client]) + 1) : \E lost \in Seq(Unit) : Intact(Client, m, lost)
  BY <1>1, <1>2 DEF Framed
<1>4. InMsg(Client) = msg.rest
  BY DEF InMsg, Client
<1>5. \A lost \in Seq(Unit) : Later(Client, lost) \in Seq(Unit)
  <2> TAKE lost \in Seq(Unit)
  <2>1. TypeOK
    BY DEF Inv
  <2> QED BY <1>1, <2>1, LaterType
<1> QED BY <1>1, <1>2, <1>3, <1>4, <1>5 DEF Intact, Framed

(* A message that ends inside a head or a payload. *)
LEMMA KeepFrames ==
  ASSUME Inv, Framed, listener = "distribute", KeepPartialHead \/ KeepPartialPayload,
         UNCHANGED <<recvQ, owner, wire, sent>>
  PROVE  Framed'
<1> DEFINE c == Client
<1>1. PICK m \in 1..(Len(sent[c]) + 1) : \E lost \in Seq(Unit) :
              /\ Later(c, lost) \in Seq(Unit)
              /\ handled[c] = Sound(c, m)
              /\ owner = "running" => lost = <<>>
              /\ Cat(HeadRead(c), Cat(Reading.ask, Cat(msg.rest, Later(c, lost)))) = Stream(c, m)
  BY DistributeFacts
<1>2. PICK lost \in Seq(Unit) :
              /\ Later(c, lost) \in Seq(Unit)
              /\ handled[c] = Sound(c, m)
              /\ owner = "running" => lost = <<>>
              /\ Cat(HeadRead(c), Cat(Reading.ask, Cat(msg.rest, Later(c, lost)))) = Stream(c, m)
  BY <1>1
<1> DEFINE z == Later(c, lost)
           a == Reading.ask
           r == msg.rest
<1>3. /\ Serving /\ c \in Clients /\ a \in Seq(Unit) /\ r \in Seq(Unit) /\ z \in Seq(Unit)
      /\ ReadingGenuine(c) /\ TypeOK
  BY <1>2, DistributeFacts DEF Inv
<1>4. /\ handled' = handled /\ badHead' = badHead /\ handled \in [Clients -> Seq(Nat)]
  BY DEF KeepPartialHead, KeepPartialPayload, Inv, TypeOK
<1>5. CASE KeepPartialHead
  <2>1. Reading.head = NoHead /\ Reading = [head |-> Reading.head, ask |-> Reading.ask]
    BY <1>5, ReadingFacts DEF KeepPartialHead, HeadComplete
  <2>2. Store([head |-> NoHead, ask |-> Cat(a, r)], <<>>)
    <3>1. [Reading EXCEPT !.ask = Cat(a, r)] = [head |-> NoHead, ask |-> Cat(a, r)]
      BY <2>1
    <3> QED BY <1>5, <3>1 DEF KeepPartialHead, Cat
  <2>3. HeadRead(c) = <<>>
    BY <2>1, ReadingFacts DEF HeadRead
  <2>4. Cat(<<>>, Cat(Cat(a, r), Cat(<<>>, z))) = Stream(c, m)
    <3> HIDE DEF a, r, z
    <3>1. Cat(Cat(a, r), Cat(<<>>, z)) = Cat(a, Cat(r, z))
      BY <1>3, RegroupRead
    <3> QED BY <1>2, <2>3, <3>1 DEF a, r, z
  <2>5. NoHead \in Heading
    BY DEF NoHead, Heading
  <2> QED BY <1>2, <1>3, <1>4, <2>2, <2>4, <2>5, StoreFrames
<1>6. CASE KeepPartialPayload
  <2>1. PICK o \in Opened : /\ o.head # NoHead
                            /\ Store([head |-> o.head, ask |-> Cat(o.ask, o.rest)], <<>>)
    BY <1>6 DEF KeepPartialPayload, Cat
  <2>2. HeadComplete
    BY <1>6 DEF KeepPartialPayload
  <2>3. /\ m \in 1..Len(sent[c])
        /\ o.head = [n |-> m, p |-> sent[c][m]]
        /\ Cat(o.ask, Cat(o.rest, z)) = Cat(PayloadUnits(m, sent[c][m]), Stream(c, m + 1))
    BY <1>2, <1>3, <2>2, OpenedNext
  <2>4. o.head \in Heading /\ o.ask \in Seq(Unit) /\ o.rest \in Seq(Unit)
    BY <1>3, <2>2, OpenedFacts, UnitOfUnit
  <2>5. Cat(Cat(o.ask, o.rest), Cat(<<>>, z)) = Cat(o.ask, Cat(o.rest, z))
    <3> HIDE DEF z
    <3> QED BY <1>3, <2>4, RegroupRead
  <2>6. Cat(HeadUnits(m), Cat(Cat(o.ask, o.rest), Cat(<<>>, z))) = Stream(c, m)
    BY <1>3, <2>3, <2>5, StreamSplit
  <2>7. o.head.n \in DOMAIN sent[c] /\ o.head.p = sent[c][o.head.n] /\ o.head.n = m
    <3>1. sent[c] \in Seq(Packets)
      BY <1>3 DEF TypeOK
    <3>2. DOMAIN sent[c] = 1..Len(sent[c])
      BY <3>1, LenProperties
    <3> QED BY <2>3, <3>2
  <2> DEFINE head == o.head
             ask == Cat(o.ask, o.rest)
  <2>8. /\ head \in Heading /\ head # NoHead /\ Store([head |-> head, ask |-> ask], <<>>)
        /\ head.n \in DOMAIN sent[c] /\ head.p = sent[c][head.n]
        /\ Cat(HeadUnits(head.n), Cat(ask, Cat(<<>>, z))) = Stream(c, m)
    BY <2>1, <2>4, <2>6, <2>7
  <2> HIDE DEF head, ask
  <2> QED BY <1>2, <1>3, <1>4, <2>8, StoreFrames
<1> QED BY <1>5, <1>6

(* packet.cpp:128: no head is invalid.                                     *)
LEMMA RejectNever ==
  ASSUME Inv, Framed, listener = "distribute" PROVE ~RejectHead
<1> SUFFICES ASSUME RejectHead PROVE FALSE
  OBVIOUS
<1>1. HeadComplete /\ \E o \in Opened : o.head = NoHead
  BY DEF RejectHead
<1>2. PICK o \in Opened : o.head = NoHead
  BY <1>1
<1>3. PICK m \in 1..(Len(sent[Client]) + 1), lost \in Seq(Unit) :
              /\ Later(Client, lost) \in Seq(Unit)
              /\ Cat(HeadRead(Client), Cat(Reading.ask, Cat(msg.rest, Later(Client, lost))))
                   = Stream(Client, m)
  BY DistributeFacts
<1>4. m \in 1..Len(sent[Client]) /\ o.head = [n |-> m, p |-> sent[Client][m]]
  BY <1>1, <1>3, OpenedNext, DistributeFacts
<1>5. o.head.n = m /\ m # 0
  BY <1>4
<1> QED BY <1>2, <1>5 DEF NoHead

(* A payload is complete: it is that of packet m, whatever comes of it.    *)
LEMMA CompleteIs ==
  ASSUME Inv, listener = "distribute", NEW o, NEW ask, NEW rest, Completes(o, ask, rest),
         NEW m \in 1..(Len(sent[Client]) + 1), NEW z \in Seq(Unit),
         ReadingGenuine(Client),
         Cat(HeadRead(Client), Cat(Reading.ask, Cat(msg.rest, z))) = Stream(Client, m)
  PROVE  /\ m \in 1..Len(sent[Client]) /\ m \in DOMAIN sent[Client]
         /\ o.head = [n |-> m, p |-> sent[Client][m]] /\ o.head \in Heading
         /\ Genuine(o.head, ask)
         /\ Cat(HeadUnits(m), Cat(ask, Cat(rest, z))) = Stream(Client, m)
         /\ Cat(rest, z) = Stream(Client, m + 1)
         /\ m + 1 \in 1..(Len(sent[Client]) + 1)
<1> DEFINE c == Client
           p == sent[c][m]
           payload == PayloadUnits(m, p)
           y == Stream(c, m + 1)
<1>1. /\ o \in Opened /\ HeadComplete /\ o.head # NoHead /\ o.head \in Heading
      /\ Len(ask) = o.head.p.len
      /\ Cat(ask, rest) = Cat(o.ask, o.rest)
  BY CompleteFacts
<1>2. TypeOK /\ c \in Clients /\ sent[c] \in Seq(Packets)
  BY ReadingFacts DEF Inv, TypeOK
<1>3. /\ ask \in Seq(Unit) /\ rest \in Seq(Unit) /\ o.ask \in Seq(Unit) /\ o.rest \in Seq(Unit)
  BY <1>1, <1>2, CompleteFacts, OpenedFacts, UnitOfUnit
<1>4. /\ m \in 1..Len(sent[c])
      /\ o.head = [n |-> m, p |-> p]
      /\ Cat(o.ask, Cat(o.rest, z)) = Cat(payload, y)
  BY <1>1, OpenedNext
<1>5. /\ HeadUnits(m) \in Seq(Unit) /\ payload \in Seq(Unit) /\ Len(payload) = p.len
      /\ y \in Seq(Unit) /\ Stream(c, m) = Cat(HeadUnits(m), Cat(payload, y))
      /\ m + 1 \in 1..(Len(sent[c]) + 1) /\ m # 0
  BY <1>2, <1>4, StreamSplit
<1>6. m \in DOMAIN sent[c]
  <2>1. DOMAIN sent[c] = 1..Len(sent[c])
    BY <1>2, LenProperties
  <2> QED BY <1>4, <2>1
<1>7. o.head.n = m /\ o.head.p = p /\ Len(ask) = Len(payload)
  BY <1>1, <1>4, <1>5
<1> HIDE DEF payload, y, p, c
<1>8. /\ Cat(ask, Cat(rest, z)) = Cat(o.ask, Cat(o.rest, z))
      /\ Cat(rest, z) \in Seq(Unit)
  <2>1. Cat(ask, Cat(rest, z)) = Cat(o.ask, Cat(o.rest, z))
    BY <1>1, <1>3, Regroup
  <2>2. Cat(rest, z) \in Seq(Unit)
    BY <1>3, CatType
  <2> QED BY <2>1, <2>2
<1>9. ask = payload /\ Cat(rest, z) = y
  BY SMTT(20), <1>3, <1>4, <1>5, <1>7, <1>8, Cancel
<1>10. Genuine(o.head, ask)
  BY <1>5, <1>7, <1>9 DEF Genuine, payload
<1> QED BY <1>1, <1>4, <1>5, <1>6, <1>8, <1>9, <1>10 DEF c, p, y

(* What the callbacks got and what they answer, when packet m is read. *)
Delivered(m) ==
    /\ handled' = [handled EXCEPT ![Client] = Append(@, m)]
    /\ sendQ' = IF sent[Client][m].type \in Answered
                THEN Append(sendQ, [to |-> Client, re |-> m]) ELSE sendQ

(* A callback gets packet m and queues its answer.                         *)
LEMMA DeliveredKeeps ==
  ASSUME TypeOK, HandledSent, AnswersInOrder, owner # "idle", Client \in Clients,
         NEW m \in DOMAIN sent[Client], m \in Nat, Delivered(m),
         UNCHANGED <<inbox, owner, sent>>
  PROVE  HandledSent' /\ AnswersInOrder'
<1> DEFINE c == Client
           r == [to |-> c, re |-> m]
<1>1. /\ handled \in [Clients -> Seq(Nat)] /\ inbox \in [Clients -> Seq(Nat)]
      /\ sendQ \in Seq(Reply) /\ r \in Reply
  BY DEF TypeOK, Reply
<1>2. /\ handled'[c] = Append(handled[c], m)
      /\ \A d \in Clients : d # c => handled'[d] = handled[d]
      /\ sendQ' = IF sent[c][m].type \in Answered THEN Append(sendQ, r) ELSE sendQ
  BY <1>1 DEF Delivered
<1>3. HandledSent'
  <2> SUFFICES ASSUME NEW d \in Clients PROVE handled'[d] \in Seq(DOMAIN sent[d])
    BY DEF HandledSent
  <2>1. CASE d = c
    <3>1. handled[c] \in Seq(DOMAIN sent[c])
      BY DEF HandledSent
    <3>2. Append(handled[c], m) \in Seq(DOMAIN sent[c])
      BY <3>1, AppendProperties
    <3> QED BY <2>1, <3>2, <1>2
  <2>2. CASE d # c
    BY <2>2, <1>2 DEF HandledSent
  <2> QED BY <2>1, <2>2
<1> HIDE DEF r
<1>4. ASSUME NEW d \in Clients PROVE inbox'[d] \o InSendQueue(d)' = Answers(d)'
  <2> DEFINE i == inbox[d]
             q == FlattenSeq(Replies(sendQ, d))
             more == IF d = c THEN Request(m, sent[c]) ELSE <<>>
  <2>1. Cat(i, q) = Answers(d)
    BY DEF AnswersInOrder, InSendQueue, Cat
  <2>2. Answers(d)' = Cat(Answers(d), more)
    <3>1. CASE d = c
      <4>1. handled[c] \in Seq(Nat)
        BY <1>1
      <4>2. FlattenSeq(Requests(Append(handled[c], m), sent[c]))
              = Cat(FlattenSeq(Requests(handled[c], sent[c])), Request(m, sent[c]))
        BY <4>1, RequestsAppend
      <4> QED BY <3>1, <4>2, <1>2 DEF Answers
    <3>2. CASE d # c
      <4>1. handled[d] \in Seq(Nat)
        BY <1>1
      <4>2. Answers(d)' = Answers(d)
        BY <3>2, <1>2 DEF Answers
      <4>3. Requests(handled[d], sent[d]) \in Seq(Seq(Nat))
        BY <4>1, RequestsFacts
      <4>4. Answers(d) \in Seq(Nat)
        BY <4>3, FlattenType DEF Answers
      <4> QED BY <3>2, <4>2, <4>4, CatEmpty
    <3> QED BY <3>1, <3>2
  <2>3. i \in Seq(Nat) /\ q \in Seq(Nat) /\ more \in Seq(Nat)
    <3>1. Replies(sendQ, d) \in Seq(Seq(Nat))
      BY <1>1, RepliesFacts
    <3>2. Request(m, sent[c]) \in Seq(Nat) /\ <<>> \in Seq(Nat)
      BY One DEF Request
    <3> QED BY <1>1, <3>1, <3>2, FlattenType
  <2>4. InSendQueue(d)' = Cat(q, more)
    <3>1. CASE sent[c][m].type \in Answered
      <4>1. ToClient(r, d) = more
        BY <3>1 DEF ToClient, Request, r
      <4>2. FlattenSeq(Replies(Append(sendQ, r), d)) = Cat(q, ToClient(r, d))
        BY <1>1, RepliesAppend
      <4> QED BY <3>1, <4>1, <4>2, <1>2 DEF InSendQueue
    <3>2. CASE sent[c][m].type \notin Answered
      <4>1. more = <<>> /\ InSendQueue(d)' = q
        BY <3>2, <1>2 DEF Request, InSendQueue
      <4> HIDE DEF q, more
      <4> QED BY <4>1, <2>3, CatEmpty
    <3> QED BY <3>1, <3>2
  <2> HIDE DEF i, q, more
  <2>5. Cat(Cat(i, q), more) = Cat(i, Cat(q, more))
    BY <2>3, CatAssoc
  <2>6. Cat(inbox'[d], InSendQueue(d)') = Answers(d)'
    BY <2>1, <2>2, <2>4, <2>5 DEF i
  <2> QED BY <2>6 DEF Cat
<1> QED BY <1>3, <1>4 DEF AnswersInOrder

(* A packet is dropped, handled, or stays for want of a callback.          *)
LEMMA CompleteFrames ==
  ASSUME Inv, HandledSent, Framed, AnswersInOrder, listener = "distribute",
         NEW o, NEW ask, NEW rest, Completes(o, ask, rest),
         NEW success \in Parses(o.head, ask),
         \/ DropPacket(success, o.head, ask, rest)
         \/ HandlePacket(success, o.head, ask, rest)
         \/ NoCallback(success, o.head, ask, rest),
         UNCHANGED <<recvQ, owner, clientVars>>
  PROVE  HandledSent' /\ Framed' /\ AnswersInOrder'
<1> USE DEF clientVars
<1> DEFINE c == Client
<1>1. PICK m \in 1..(Len(sent[c]) + 1) : \E lost \in Seq(Unit) :
              /\ Later(c, lost) \in Seq(Unit)
              /\ handled[c] = Sound(c, m)
              /\ owner = "running" => lost = <<>>
              /\ Cat(HeadRead(c), Cat(Reading.ask, Cat(msg.rest, Later(c, lost)))) = Stream(c, m)
  BY DistributeFacts
<1>2. PICK lost \in Seq(Unit) :
              /\ Later(c, lost) \in Seq(Unit)
              /\ handled[c] = Sound(c, m)
              /\ owner = "running" => lost = <<>>
              /\ Cat(HeadRead(c), Cat(Reading.ask, Cat(msg.rest, Later(c, lost)))) = Stream(c, m)
  BY <1>1
<1> DEFINE z == Later(c, lost)
<1>3. /\ Serving /\ c \in Clients /\ z \in Seq(Unit) /\ ReadingGenuine(c) /\ TypeOK
      /\ owner # "idle" /\ handled \in [Clients -> Seq(Nat)] /\ handled[c] \in Seq(Nat)
  BY <1>2, DistributeFacts DEF Inv, TypeOK
<1>4. /\ m \in 1..Len(sent[c]) /\ m \in DOMAIN sent[c]
      /\ o.head = [n |-> m, p |-> sent[c][m]] /\ o.head \in Heading
      /\ Genuine(o.head, ask)
      /\ Cat(HeadUnits(m), Cat(ask, Cat(rest, z))) = Stream(c, m)
      /\ Cat(rest, z) = Stream(c, m + 1)
      /\ m + 1 \in 1..(Len(sent[c]) + 1)
  BY <1>2, <1>3, CompleteIs
<1>5. o.head.n = m /\ o.head.p = sent[c][m] /\ m \in Nat \ {0} /\ o.head # NoHead
  BY <1>4 DEF NoHead
<1>6. success = sent[c][m].sound
  BY <1>4, <1>5 DEF Parses
<1>7. Sound(c, m + 1) = Cat(handled[c], SoundOne(sent[c], m))
  BY <1>2, <1>5, SoundNext DEF Sound
<1>8. NoHead \in Heading /\ m \in 1..(Len(sent[c]) + 1)
  BY DEF NoHead, Heading
<1>9. ASSUME handled' = handled, sendQ' = sendQ PROVE HandledSent' /\ AnswersInOrder'
  BY <1>9 DEF HandledSent, AnswersInOrder, Answers, InSendQueue
<1>10. rest \in Seq(Unit) /\ Cat(<<>>, Cat(<<>>, Cat(rest, z))) = Cat(rest, z)
  <2>1. rest \in Seq(Unit)
    BY <1>3, CompleteFacts, UnitOfUnit
  <2>2. Cat(rest, z) \in Seq(Unit)
    <3> HIDE DEF z
    <3> QED BY <1>3, <2>1, CatType
  <2> HIDE DEF z
  <2> QED BY <2>1, <2>2, CatEmpty
<1>11. CASE NoCallback(success, o.head, ask, rest)
  <2>1. Store([head |-> o.head, ask |-> ask], rest) /\ UNCHANGED <<handled, sendQ, badHead>>
    BY <1>11 DEF NoCallback
  <2> DEFINE head == o.head
  <2>2. /\ head \in Heading /\ head # NoHead /\ Store([head |-> head, ask |-> ask], rest)
        /\ head.n \in DOMAIN sent[c] /\ head.p = sent[c][head.n]
        /\ Cat(HeadUnits(head.n), Cat(ask, Cat(rest, z))) = Stream(c, m)
    BY <1>4, <1>5, <2>1
  <2> HIDE DEF head
  <2>3. Framed'
    BY <1>2, <1>3, <1>8, <2>1, <2>2, StoreFrames
  <2> QED BY <1>9, <2>1, <2>3
<1>12. CASE DropPacket(success, o.head, ask, rest)
  <2>1. Store([head |-> NoHead, ask |-> <<>>], rest) /\ UNCHANGED <<handled, sendQ, badHead>>
    BY <1>12 DEF DropPacket, FreshPacket
  <2>2. handled[c] = Sound(c, m + 1)
    <3>1. SoundOne(sent[c], m) = <<>>
      BY <1>6, <1>12 DEF DropPacket, SoundOne
    <3> QED BY <1>3, <1>7, <3>1, CatEmpty
  <2>3. Framed'
    BY <1>2, <1>3, <1>4, <1>8, <1>10, <2>1, <2>2, StoreFrames
  <2> QED BY <1>9, <2>1, <2>3
<1>13. CASE HandlePacket(success, o.head, ask, rest)
  <2>1. /\ success /\ Store([head |-> NoHead, ask |-> <<>>], rest) /\ badHead' = badHead
        /\ Delivered(m)
    BY <1>4, <1>5, <1>13 DEF HandlePacket, FreshPacket, Delivered
  <2>2. /\ handled' \in [Clients -> Seq(Nat)]
        /\ handled'[c] = Append(handled[c], m)
        /\ \A d \in Clients : d # c => handled'[d] = handled[d]
    <3>1. Append(handled[c], m) \in Seq(Nat)
      BY <1>3, <1>5, AppendProperties
    <3> QED BY <1>3, <2>1, <3>1 DEF Delivered
  <2>3. handled'[c] = Sound(c, m + 1)
    <3>1. SoundOne(sent[c], m) = <<m>>
      BY <1>6, <2>1 DEF SoundOne
    <3>2. Append(handled[c], m) = Cat(handled[c], <<m>>)
      BY <1>3, <1>5, AppendIsConcat DEF Cat
    <3> QED BY <1>7, <2>2, <3>1, <3>2
  <2>4. Framed'
    BY <1>2, <1>3, <1>4, <1>8, <1>10, <2>1, <2>2, <2>3, StoreFrames
  <2>5. HandledSent' /\ AnswersInOrder'
    BY <1>3, <1>4, <1>5, <2>1, DeliveredKeeps
  <2> QED BY <2>4, <2>5
<1> QED BY <1>11, <1>12, <1>13

(* Every result of ProcessMsg keeps the streams intact.                    *)
LEMMA DistributeFrames == Inv /\ Frames /\ Distribute => Frames'
<1> SUFFICES ASSUME Inv, Frames, Distribute PROVE Frames'
  OBVIOUS
<1> USE DEF Frames
<1>1. listener = "distribute" /\ UNCHANGED <<recvQ, owner, clientVars>>
  BY DEF Distribute
<1>2. CASE KeepPartialHead \/ KeepPartialPayload
  <2>1. UNCHANGED <<recvQ, owner, wire, sent, inbox, handled, sendQ>>
    BY <1>1, <1>2 DEF clientVars, KeepPartialHead, KeepPartialPayload
  <2>2. Framed'
    BY <1>1, <1>2, <2>1, KeepFrames
  <2> QED BY <2>1, <2>2 DEF HandledSent, AnswersInOrder, Answers, InSendQueue
<1>3. CASE RejectHead
  BY <1>1, <1>3, RejectNever
<1>4. CASE CompletePacket(DropPacket)
  BY <1>1, <1>4, CompleteDrop, CompleteFrames
<1>5. CASE CompletePacket(HandlePacket)
  BY <1>1, <1>5, CompleteHandle, CompleteFrames
<1>6. CASE CompletePacket(NoCallback)
  BY <1>1, <1>6, CompleteNoCallback, CompleteFrames
<1> QED BY <1>2, <1>3, <1>4, <1>5, <1>6 DEF Distribute

-----------------------------------------------------------------------------
(* The other actions move what is behind the packet that is read.          *)

Behind(c, lost) == Cat(InMsg(c), Later(c, lost))

(* A step that only moves what is behind the packet that is read.          *)
LEMMA BehindFrames ==
  ASSUME Framed, Serving, UNCHANGED <<packetMap, sent, handled, badHead>>,
         owner' = "running" => owner = "running",
         \A c \in Clients : \A lost \in Seq(Unit) :
            (owner = "running" => lost = <<>>) =>
               \E left \in Seq(Unit) : /\ owner' = "running" => left = <<>>
                                       /\ Behind(c, left)' = Behind(c, lost)
  PROVE  Framed'
<1> SUFFICES ASSUME NEW c \in Clients
             PROVE  /\ ReadingGenuine(c)'
                    /\ \E m \in 1..(Len(sent[c]) + 1) : \E left \in Seq(Unit) : Intact(c, m, left)'
  BY DEF Framed
<1>1. PICK m \in 1..(Len(sent[c]) + 1) : \E lost \in Seq(Unit) : Intact(c, m, lost)
  BY DEF Framed
<1>2. PICK lost \in Seq(Unit) : Intact(c, m, lost)
  BY <1>1
<1>3. PICK left \in Seq(Unit) : /\ owner' = "running" => left = <<>>
                                /\ Behind(c, left)' = Behind(c, lost)
  BY <1>2 DEF Intact
<1>4. HeadRead(c)' = HeadRead(c) /\ Sound(c, m)' = Sound(c, m) /\ Stream(c, m)' = Stream(c, m)
  BY DEF HeadRead, Sound, Stream
<1>5. Intact(c, m, left)'
  BY <1>2, <1>3, <1>4 DEF Intact, Behind
<1>6. ReadingGenuine(c)'
  BY DEF Framed, ReadingGenuine
<1> QED BY <1>5, <1>6

(* Nothing of the two halves of the property moves. *)
LEMMA SameAnswers ==
  ASSUME HandledSent, AnswersInOrder, UNCHANGED <<sent, handled, inbox, sendQ>>,
         owner' = "idle" <=> owner = "idle"
  PROVE  HandledSent' /\ AnswersInOrder'
BY DEF HandledSent, AnswersInOrder, Answers, InSendQueue

(* A step that moves none of it.                                           *)
LEMMA SameStream ==
  ASSUME Framed, UNCHANGED <<packetMap, msg, recvQ, wire, sent, handled, badHead>>,
         owner' = owner \/ (owner = "returned" /\ owner' = "joining")
  PROVE  Framed'
<1>1. \A c \in Clients : \A lost : Behind(c, lost)' = Behind(c, lost)
  BY DEF Behind, InMsg, Later, InQueue
<1>2. CASE Serving
  BY <1>1, <1>2, BehindFrames
<1>3. CASE ~Serving
  BY <1>3 DEF Framed, Serving
<1> QED BY <1>2, <1>3

(* The front of the queue becomes the message.                             *)
LEMMA ReceiveFrames == Inv /\ Frames /\ ReceiveMsg => Frames'
<1> SUFFICES ASSUME Inv, Frames, ReceiveMsg PROVE Frames'
  OBVIOUS
<1> USE DEF Frames
<1>1. /\ UNCHANGED <<packetMap, sendQ, owner, wire, sent, inbox, handled, badHead>>
      /\ listener = "receive" /\ recvQ # <<>> /\ msg' = Head(recvQ) /\ recvQ' = Tail(recvQ)
  BY DEF ReceiveMsg, clientVars
<1>2. TypeOK /\ msg = Nothing /\ Serving /\ recvQ \in Seq(Chunk)
  BY <1>1 DEF Inv, Threads, Serving, TypeOK, OwnerPc, Chunk
<1>3. ASSUME NEW c \in Clients, NEW lost \in Seq(Unit)
      PROVE  Behind(c, lost)' = Behind(c, lost)
  <2> DEFINE h == OfClient(Head(recvQ), c)
             t == FlattenSeq(Chunks(Tail(recvQ), c))
             w == Cat(wire[c], lost)
  <2>1. /\ InMsg(c) = <<>> /\ InMsg(c)' = h /\ InQueue(c)' = t
        /\ Cat(wire'[c], lost) = w
    BY <1>1, <1>2 DEF InMsg, InQueue, OfClient, Nothing
  <2>2. InQueue(c) = Cat(h, t) /\ Head(recvQ) \in Chunk /\ Tail(recvQ) \in Seq(Chunk)
    BY <1>1, <1>2, ChunksTail DEF InQueue
  <2>3. h \in Seq(Unit)
    BY <2>2, EmptySeq DEF OfClient, Chunk
  <2>4. t \in Seq(Unit)
    <3>1. Chunks(Tail(recvQ), c) \in Seq(Seq(Unit))
      BY <2>2, ChunksFacts
    <3> QED BY <3>1, FlattenType
  <2>5. w \in Seq(Unit)
    <3>1. wire[c] \in Seq(Unit)
      BY <1>2 DEF TypeOK
    <3> QED BY <3>1, CatType
  <2> HIDE DEF h, t, w
  <2>6. Cat(<<>>, Cat(Cat(h, t), w)) = Cat(h, Cat(t, w))
    <3>1. Cat(Cat(h, t), w) = Cat(h, Cat(t, w))
      BY <2>3, <2>4, <2>5, CatAssoc
    <3>2. Cat(Cat(h, t), w) \in Seq(Unit)
      BY <2>3, <2>4, <2>5, CatType
    <3> QED BY <3>1, <3>2, CatEmpty
  <2> QED BY <2>1, <2>2, <2>6 DEF Behind, Later, w
<1>4. Framed'
  BY <1>1, <1>2, <1>3, BehindFrames
<1> QED BY <1>1, <1>4, SameAnswers

(* An empty message goes.                                                  *)
LEMMA EndDistributeFrames == Inv /\ Frames /\ EndDistribute => Frames'
<1> SUFFICES ASSUME Inv, Frames, EndDistribute PROVE Frames'
  OBVIOUS
<1> USE DEF Frames
<1>1. /\ UNCHANGED <<packetMap, recvQ, sendQ, owner, wire, sent, inbox, handled, badHead>>
      /\ listener = "distribute" /\ msg.rest = <<>> /\ msg' = Nothing
  BY DEF EndDistribute, clientVars
<1>2. Serving
  BY <1>1 DEF Inv, Threads, Serving, TypeOK, OwnerPc
<1>3. \A c \in Clients : \A lost : Behind(c, lost)' = Behind(c, lost)
  <2> TAKE c \in Clients
  <2>1. InMsg(c) = <<>> /\ InMsg(c)' = <<>>
    BY <1>1 DEF InMsg, Nothing
  <2> QED BY <1>1, <2>1 DEF Behind, Later, InQueue
<1>4. Framed'
  BY <1>1, <1>2, <1>3, BehindFrames
<1> QED BY <1>1, <1>4, SameAnswers

(* A chunk leaves the socket and joins the queue.                          *)
LEMMA MsgHandleFrames ==
  ASSUME Inv, Frames, NEW c \in Clients, MsgHandle(c) PROVE Frames'
<1> USE DEF Frames
<1>1. PICK k \in 1..Len(wire[c]) :
         /\ recvQ' = Append(recvQ, [from |-> c, rest |-> Take(wire[c], k)])
         /\ wire' = [wire EXCEPT ![c] = Drop(@, k)]
  BY DEF MsgHandle
<1>2. /\ UNCHANGED <<packetMap, msg, sendQ, owner, sent, inbox, handled, badHead>>
      /\ Serving
  BY DEF MsgHandle, Serving
<1>3. wire[c] \in Seq(Unit) /\ wire \in [Clients -> Seq(Unit)] /\ Len(wire[c]) \in Nat
  BY LenProperties DEF Inv, TypeOK
<1> DEFINE x == SubSeq(wire[c], 1, k)
           y == SubSeq(wire[c], k + 1, Len(wire[c]))
<1>4. x \in Seq(Unit) /\ y \in Seq(Unit) /\ Cat(x, y) = wire[c]
  <2>1. k \in 0..Len(wire[c])
    BY <1>3
  <2> QED BY <1>3, <2>1, Cut
<1>5. recvQ' = Append(recvQ, [from |-> c, rest |-> x]) /\ wire' = [wire EXCEPT ![c] = y]
  BY <1>1 DEF Take, Drop
<1> HIDE DEF x, y
<1>6. recvQ \in Seq(Chunk) /\ [from |-> c, rest |-> x] \in Chunk
  BY <1>4 DEF Inv, TypeOK, Chunk
<1>7. ASSUME NEW d \in Clients, NEW lost \in Seq(Unit)
      PROVE  Behind(d, lost)' = Behind(d, lost)
  <2> DEFINE q == FlattenSeq(Chunks(recvQ, d))
             m == [from |-> c, rest |-> x]
             add == OfClient(m, d)
  <2>1. InMsg(d)' = InMsg(d) /\ InQueue(d) = q
    BY <1>2 DEF InMsg, InQueue
  <2>2. InQueue(d)' = Cat(q, add)
    <3> HIDE DEF m
    <3>1. recvQ' = Append(recvQ, m) /\ m \in Chunk
      BY <1>5, <1>6 DEF m
    <3> QED BY <1>6, <3>1, ChunksAppend DEF InQueue
  <2>3. q \in Seq(Unit)
    <3>1. Chunks(recvQ, d) \in Seq(Seq(Unit))
      BY <1>6, ChunksFacts
    <3> QED BY <3>1, FlattenType
  <2>4. wire'[d] = IF d = c THEN y ELSE wire[d]
    BY <1>3, <1>5
  <2>5. add = IF d = c THEN x ELSE <<>>
    BY DEF OfClient
  <2> HIDE DEF q, add, m
  <2>6. Cat(Cat(q, add), Cat(wire'[d], lost)) = Cat(q, Cat(wire[d], lost))
    <3>1. CASE d = c
      <4>1. Cat(y, lost) \in Seq(Unit)
        BY <1>4, CatType
      <4>2. Cat(Cat(q, x), Cat(y, lost)) = Cat(q, Cat(x, Cat(y, lost)))
        BY <1>4, <2>3, <4>1, CatAssoc
      <4>3. Cat(x, Cat(y, lost)) = Cat(Cat(x, y), lost)
        BY <1>4, CatAssoc
      <4> QED BY <3>1, <1>4, <2>4, <2>5, <4>2, <4>3
    <3>2. CASE d # c
      <4>1. Cat(q, <<>>) = q
        BY <2>3, CatEmpty
      <4> QED BY <3>2, <2>4, <2>5, <4>1
    <3> QED BY <3>1, <3>2
  <2> QED BY <2>1, <2>2, <2>6 DEF Behind, Later
<1>8. Framed'
  BY <1>2, <1>7, BehindFrames
<1> QED BY <1>2, <1>8, SameAnswers

(* What the program did not get into the socket becomes lost.              *)
LEMMA ProgramExitsFrames == Inv /\ Frames /\ ProgramExits => Frames'
<1> SUFFICES ASSUME Inv, Frames, ProgramExits PROVE Frames'
  OBVIOUS
<1> USE DEF Frames
<1>1. PICK kept \in [Clients -> UNION {0..Len(wire[c]) : c \in Clients}] :
        /\ \A c \in Clients : kept[c] <= Len(wire[c])
        /\ wire' = [c \in Clients |-> Take(wire[c], kept[c])]
  BY DEF ProgramExits
<1>2. /\ owner = "running" /\ owner' = "returned" /\ Serving
      /\ UNCHANGED <<packetMap, msg, recvQ, sendQ, sent, inbox, handled, badHead>>
  BY DEF ProgramExits, serverVars, Serving
<1>3. ASSUME NEW c \in Clients, NEW lost \in Seq(Unit), lost = <<>>
      PROVE  \E left \in Seq(Unit) : Behind(c, left)' = Behind(c, lost)
  <2> DEFINE w == wire[c]
             k == kept[c]
  <2>1. w \in Seq(Unit) /\ Len(w) \in Nat
    BY LenProperties DEF Inv, TypeOK
  <2>2. k \in 0..Len(w)
    <3>1. k \in UNION {0..Len(wire[d]) : d \in Clients} /\ k <= Len(w)
      BY <1>1
    <3>2. PICK d \in Clients : k \in 0..Len(wire[d])
      BY <3>1
    <3> QED BY <2>1, <3>1, <3>2
  <2>3. wire'[c] = SubSeq(w, 1, k)
    BY <1>1 DEF Take
  <2>4. InMsg(c)' = InMsg(c) /\ InQueue(c)' = InQueue(c)
    BY <1>2 DEF InMsg, InQueue
  <2> HIDE DEF w, k
  <2>5. PICK left \in Seq(Unit) : Cat(SubSeq(w, 1, k), left) = w
    BY <2>1, <2>2, Cut
  <2>6. Cat(w, lost) = w
    BY <1>3, <2>1, CatEmpty
  <2>7. Behind(c, left)' = Behind(c, lost)
    <3>1. Cat(wire'[c], left) = Cat(wire[c], lost)
      BY <2>3, <2>5, <2>6 DEF w
    <3> QED BY <2>4, <3>1 DEF Behind, Later
  <2> QED BY <2>5, <2>7
<1>4. Framed'
  BY <1>2, <1>3, BehindFrames
<1> QED BY <1>2, <1>4, SameAnswers

(* A packet more is behind everything, and in the stream.                  *)
LEMMA ClientSendFrames ==
  ASSUME Inv, Frames, NEW c \in Clients, NEW p \in Packets, ClientSend(c, p) PROVE Frames'
<1> USE DEF Frames
<1>1. /\ owner = "running" /\ Serving
      /\ UNCHANGED <<packetMap, msg, recvQ, sendQ, owner, inbox, handled, badHead>>
      /\ sent' = [sent EXCEPT ![c] = Append(@, p)]
      /\ wire' = [wire EXCEPT ![c] = @ \o Units(Len(sent[c]) + 1, p)]
  BY DEF ClientSend, serverVars, Serving
<1> DEFINE n == Len(sent[c]) + 1
           u == Units(n, p)
           more == Append(sent[c], p)
<1>2. /\ sent[c] \in Seq(Packets) /\ Len(sent[c]) \in Nat /\ wire \in [Clients -> Seq(Unit)]
      /\ TypeOK /\ sent \in [Clients -> Seq(Packets)]
  BY LenProperties DEF Inv, TypeOK
<1>3. u \in Seq(Unit)
  <2>1. n \in Nat
    BY <1>2
  <2> QED BY <2>1, UnitsFacts
<1>4. /\ more \in Seq(Packets) /\ Len(more) = n /\ DOMAIN more = 1..n
      /\ \A i \in 1..Len(sent[c]) : more[i] = sent[c][i]
  BY <1>2, AppendProperties, LenProperties
<1>5. /\ \A d \in Clients : sent'[d] = IF d = c THEN more ELSE sent[d]
      /\ \A d \in Clients : wire'[d] = IF d = c THEN Cat(wire[c], u) ELSE wire[d]
  BY <1>1, <1>2 DEF Cat
<1> HIDE DEF u, more
<1>6. DOMAIN sent[c] = 1..Len(sent[c])
  BY <1>2, LenProperties
<1>7. HandledSent'
  <2> SUFFICES ASSUME NEW d \in Clients PROVE handled[d] \in Seq(DOMAIN sent'[d])
    BY <1>1 DEF HandledSent
  <2>1. handled[d] \in Seq(DOMAIN sent[d])
    BY DEF HandledSent
  <2>2. DOMAIN sent[d] \subseteq DOMAIN sent'[d]
    BY SMTT(20), <1>2, <1>4, <1>5, <1>6
  <2> QED BY <2>1, <2>2, SeqMonotonic
<1>8. AnswersInOrder'
  <2>1. \A d \in Clients : Answers(d)' = Answers(d)
    <3> TAKE d \in Clients
    <3>1. CASE d = c
      <4>1. handled[c] \in Seq(DOMAIN sent[c])
        BY DEF HandledSent
      <4>2. Requests(handled[c], more) = Requests(handled[c], sent[c])
        BY <1>2, <4>1, RequestsKept DEF more
      <4> QED BY <3>1, <4>2, <1>1, <1>5 DEF Answers
    <3>2. CASE d # c
      BY <3>2, <1>1, <1>5 DEF Answers
    <3> QED BY <3>1, <3>2
  <2> QED BY <1>1, <2>1 DEF AnswersInOrder, InSendQueue
<1>9. ASSUME NEW d \in Clients
      PROVE  /\ ReadingGenuine(d)'
             /\ \E m \in 1..(Len(sent'[d]) + 1) : \E left \in Seq(Unit) : Intact(d, m, left)'
  <2>1. PICK m \in 1..(Len(sent[d]) + 1) : \E lost \in Seq(Unit) : Intact(d, m, lost)
    BY <1>1 DEF Framed
  <2>2. PICK lost \in Seq(Unit) : Intact(d, m, lost)
    BY <2>1
  <2>3. lost = <<>>
    BY <1>1, <2>2 DEF Intact
  <2>4. HeadRead(d)' = HeadRead(d) /\ InMsg(d)' = InMsg(d) /\ InQueue(d)' = InQueue(d)
    BY <1>1 DEF HeadRead, InMsg, InQueue
  <2>5. CASE d # c
    <3>1. Sound(d, m)' = Sound(d, m) /\ Stream(d, m)' = Stream(d, m)
      BY <2>5, <1>5 DEF Sound, Stream
    <3>2. Intact(d, m, lost)'
      BY <2>2, <2>3, <2>4, <2>5, <3>1, <1>1, <1>5 DEF Intact, Later
    <3>3. ReadingGenuine(d)'
      BY <1>1, <1>5, <2>5 DEF Framed, ReadingGenuine
    <3> QED BY <3>2, <3>3, <2>5, <1>5
  <2>6. CASE d = c
    <3>1. ReadingGenuine(d)'
      <4>1. ReadingGenuine(c)
        BY <1>1 DEF Framed
      <4>2. \A i \in DOMAIN sent[c] : i \in DOMAIN more /\ more[i] = sent[c][i]
        BY <1>2, <1>4, <1>6
      <4> QED BY <2>6, <4>1, <4>2, <1>1, <1>5 DEF ReadingGenuine
    <3>2. m \in 1..(Len(sent[c]) + 1) /\ m \in 1..(Len(sent'[c]) + 1)
      BY <2>6, <1>2, <1>4, <1>5
    <3>3. Sound(c, m)' = Sound(c, m)
      BY <3>2, <1>2, <1>5, SoundKept DEF Sound, more
    <3>4. Stream(c, m)' = Cat(Stream(c, m), u) /\ Stream(c, m) \in Seq(Unit)
      BY <3>2, <1>2, <1>5, StreamGrows, StreamType DEF Stream, u, more
    <3> DEFINE h == HeadRead(c)
               a == packetMap[c].ask
               g == InMsg(c)
               q == InQueue(c)
               w == wire[c]
    <3>5. /\ Cat(h, Cat(a, Cat(g, Cat(q, Cat(w, <<>>))))) = Stream(c, m)
          /\ handled[c] = Sound(c, m)
      BY <2>2, <2>3, <2>6 DEF Intact, Later
    <3>6. h \in Seq(Unit) /\ a \in Seq(Unit) /\ g \in Seq(Unit) /\ q \in Seq(Unit) /\ w \in Seq(Unit)
      <4>1. h \in Seq(Unit)
        <5>1. packetMap[c] \in [head : Heading, ask : Seq(Unit)]
          BY <1>2 DEF TypeOK
        <5>2. packetMap[c].head.n \in Nat
          BY <5>1 DEF Heading
        <5> QED BY <5>2, HeadFacts, EmptySeq DEF HeadRead
      <4>2. a \in Seq(Unit) /\ g \in Seq(Unit) /\ w \in Seq(Unit)
        BY <1>2, EmptySeq DEF TypeOK, InMsg
      <4> QED BY <4>1, <4>2, <1>2, LaterType
    <3> HIDE DEF h, a, g, q, w
    <3>7. Cat(w, <<>>) = w /\ Cat(Cat(w, u), <<>>) = Cat(w, u)
      BY <1>3, <3>6, CatType, CatEmpty
    <3>8. Cat(h, Cat(a, Cat(g, Cat(q, Cat(w, u))))) = Cat(Stream(c, m), u)
      <4>1. Cat(q, w) \in Seq(Unit) /\ Cat(q, Cat(w, u)) = Cat(Cat(q, w), u)
        BY <1>3, <3>6, CatType, CatAssoc
      <4>2. Cat(g, Cat(q, w)) \in Seq(Unit) /\ Cat(g, Cat(Cat(q, w), u)) = Cat(Cat(g, Cat(q, w)), u)
        BY <1>3, <3>6, <4>1, CatType, CatAssoc
      <4>3. /\ Cat(a, Cat(g, Cat(q, w))) \in Seq(Unit)
            /\ Cat(a, Cat(Cat(g, Cat(q, w)), u)) = Cat(Cat(a, Cat(g, Cat(q, w))), u)
        BY <1>3, <3>6, <4>2, CatType, CatAssoc
      <4>4. Cat(h, Cat(Cat(a, Cat(g, Cat(q, w))), u)) = Cat(Cat(h, Cat(a, Cat(g, Cat(q, w)))), u)
        BY <1>3, <3>6, <4>3, CatAssoc
      <4> QED BY <3>5, <3>7, <4>1, <4>2, <4>3, <4>4
    <3>9. Intact(c, m, <<>>)'
      <4>1. handled'[c] = Sound(c, m)'
        BY <1>1, <3>3, <3>5
      <4>2. Cat(HeadRead(c)', Cat(packetMap'[c].ask, Cat(InMsg(c)', Later(c, <<>>)'))) = Stream(c, m)'
        <5>1. Later(c, <<>>)' = Cat(q, Cat(Cat(w, u), <<>>))
          BY <1>5, <2>4, <2>6 DEF Later, q, w
        <5>2. HeadRead(c)' = h /\ packetMap'[c].ask = a /\ InMsg(c)' = g
          BY <1>1, <2>4, <2>6 DEF h, a, g
        <5> QED BY <3>4, <3>7, <3>8, <5>1, <5>2
      <4> QED BY <4>1, <4>2 DEF Intact
    <3>10. <<>> \in Seq(Unit)
      BY EmptySeq
    <3> QED BY <2>6, <3>1, <3>2, <3>9, <3>10
  <2> QED BY <2>5, <2>6
<1>10. Framed'
  BY <1>1, <1>9 DEF Framed
<1> QED BY <1>7, <1>8, <1>10

(* The sender moves an answer from its queue to the client.                *)
LEMMA SendMsgFrames == Inv /\ Frames /\ SendMsg => Frames'
<1> SUFFICES ASSUME Inv, Frames, SendMsg PROVE Frames'
  OBVIOUS
<1> USE DEF Frames
<1>1. /\ UNCHANGED <<packetMap, msg, recvQ, owner, wire, sent, handled, badHead>>
      /\ sender = "wait" /\ sendQ # <<>>
      /\ inbox' = [inbox EXCEPT ![Head(sendQ).to] = Append(@, Head(sendQ).re)]
      /\ sendQ' = Tail(sendQ)
  BY DEF SendMsg
<1>2. sendQ \in Seq(Reply) /\ inbox \in [Clients -> Seq(Nat)] /\ owner # "idle"
  BY <1>1 DEF Inv, TypeOK, Threads, Reply
<1>3. Framed'
  BY <1>1, SameStream
<1>4. HandledSent'
  BY <1>1 DEF HandledSent
<1>5. ASSUME NEW c \in Clients PROVE inbox'[c] \o InSendQueue(c)' = Answers(c)'
  <2> DEFINE r == Head(sendQ)
             x == ToClient(r, c)
             t == FlattenSeq(Replies(Tail(sendQ), c))
  <2>1. /\ r \in Reply /\ Tail(sendQ) \in Seq(Reply)
        /\ InSendQueue(c) = Cat(x, t) /\ InSendQueue(c)' = t
    BY <1>1, <1>2, RepliesTail DEF InSendQueue
  <2>2. x \in Seq(Nat) /\ t \in Seq(Nat) /\ inbox[c] \in Seq(Nat)
    <3>1. Replies(Tail(sendQ), c) \in Seq(Seq(Nat))
      BY <2>1, RepliesFacts
    <3>2. x \in Seq(Nat)
      BY <2>1, One DEF ToClient, Reply
    <3> QED BY <1>2, <3>1, <3>2, FlattenType
  <2>3. inbox'[c] = Cat(inbox[c], x)
    <3> HIDE DEF r, x
    <3>1. inbox' = [inbox EXCEPT ![r.to] = Append(@, r.re)] /\ r.to \in Clients /\ r.re \in Nat
      BY <1>1, <2>1 DEF r, Reply
    <3>2. CASE r.to = c
      <4>1. x = <<r.re>> /\ inbox'[c] = Append(inbox[c], r.re)
        BY <1>2, <3>1, <3>2 DEF x, ToClient
      <4> QED BY <2>2, <3>1, <4>1, AppendIsConcat DEF Cat
    <3>3. CASE r.to # c
      <4>1. x = <<>> /\ inbox'[c] = inbox[c]
        BY <1>2, <3>1, <3>3 DEF x, ToClient
      <4> QED BY <2>2, <4>1, CatEmpty
    <3> QED BY <3>2, <3>3
  <2>4. Cat(inbox[c], InSendQueue(c)) = Answers(c)
    BY <1>2 DEF AnswersInOrder, Cat
  <2>5. Answers(c)' = Answers(c)
    BY <1>1 DEF Answers
  <2> HIDE DEF r, x, t
  <2>6. Cat(Cat(inbox[c], x), t) = Cat(inbox[c], Cat(x, t))
    BY <2>2, CatAssoc
  <2>7. Cat(inbox'[c], InSendQueue(c)') = Answers(c)'
    BY <2>1, <2>3, <2>4, <2>5, <2>6
  <2> QED BY <2>7 DEF Cat
<1>6. AnswersInOrder'
  BY <1>1, <1>2, <1>5 DEF AnswersInOrder
<1> QED BY <1>3, <1>4, <1>6

(* The first server starts with nothing anywhere.                          *)
LEMMA StartFrames == Inv /\ round = 0 /\ StartDisposeClientAsk => Frames'
<1> SUFFICES ASSUME Inv, round = 0, StartDisposeClientAsk PROVE Frames'
  OBVIOUS
<1>1. /\ owner = "idle" /\ owner' = "running"
      /\ UNCHANGED <<packetMap, msg, recvQ, sendQ, wire, sent, inbox, handled, badHead>>
  BY DEF StartDisposeClientAsk, clientVars
<1>2. /\ ~badHead /\ recvQ = <<>> /\ sendQ = <<>> /\ msg = Nothing
      /\ \A c \in Clients :
           /\ packetMap[c] = FreshPacket /\ wire[c] = <<>>
           /\ sent[c] = <<>> /\ handled[c] = <<>> /\ inbox[c] = <<>>
  BY <1>1 DEF Inv, NotStarted, Threads
<1>3. \A S : << >> \in Seq(S)
  BY EmptySeq
<1>4. HandledSent'
  BY <1>1, <1>2, <1>3 DEF HandledSent
<1>5. AnswersInOrder'
  <2> SUFFICES ASSUME NEW c \in Clients PROVE inbox[c] \o InSendQueue(c) = Answers(c)
    BY <1>1 DEF AnswersInOrder, InSendQueue, Answers
  <2>1. InSendQueue(c) = <<>>
    BY <1>2, RepliesEmpty DEF InSendQueue
  <2>2. Answers(c) = <<>>
    <3>1. <<>> \in Seq(Nat) /\ Len(<<>>) = 0
      BY <1>3
    <3>2. Requests(<<>>, <<>>) \in Seq(Seq(Nat)) /\ Len(Requests(<<>>, <<>>)) = 0
      BY <3>1, RequestsFacts
    <3>3. Requests(<<>>, <<>>) = <<>>
      BY <3>2, EmptySeq
    <3> QED BY <1>2, <3>3, FlattenEmpty DEF Answers
  <2>3. Cat(<<>>, <<>>) = <<>>
    BY <1>3, CatEmpty
  <2> QED BY <1>2, <2>1, <2>2, <2>3 DEF Cat
<1>6. ASSUME NEW c \in Clients
      PROVE  ReadingGenuine(c) /\ Len(sent[c]) = 0 /\ handled[c] = Sound(c, 1)
             /\ Cat(HeadRead(c), Cat(packetMap[c].ask, Cat(InMsg(c), Later(c, <<>>)))) = Stream(c, 1)
  <2>1. packetMap[c].head = NoHead /\ packetMap[c].ask = <<>>
    BY <1>2 DEF FreshPacket
  <2>2. ReadingGenuine(c) /\ HeadRead(c) = <<>> /\ InMsg(c) = <<>>
    BY <1>2, <2>1 DEF ReadingGenuine, HeadRead, InMsg, Nothing
  <2>3. InQueue(c) = <<>>
    BY <1>2, ChunksEmpty DEF InQueue
  <2>4. Cat(<<>>, <<>>) = <<>>
    BY <1>3, CatEmpty
  <2>5. Later(c, <<>>) = <<>>
    BY <1>2, <2>3, <2>4 DEF Later
  <2>6. sent[c] \in Seq(Packets) /\ Len(sent[c]) = 0
    <3>1. sent[c] = <<>>
      BY <1>2
    <3>2. Len(<<>>) = 0 /\ <<>> \in Seq(Packets)
      BY <1>3
    <3> QED BY <3>1, <3>2
  <2>7. Stream(c, 1) = <<>>
    <3>1. Len(sent[c]) + 1 = 1
      BY <2>6
    <3> QED BY <2>6, <3>1, StreamEnd DEF Stream
  <2>8. Sound(c, 1) = <<>>
    <3>1. SoundOnes(sent[c], 1) \in Seq(Seq(Nat)) /\ Len(SoundOnes(sent[c], 1)) = 1 - 1
      BY SoundFacts
    <3>2. SoundOnes(sent[c], 1) = <<>>
      BY <3>1, EmptySeq
    <3> QED BY <3>2, FlattenEmpty DEF Sound
  <2> QED BY <1>2, <2>1, <2>2, <2>4, <2>5, <2>6, <2>7, <2>8
<1>7. ASSUME NEW c \in Clients
      PROVE  /\ ReadingGenuine(c)'
             /\ \E m \in 1..(Len(sent'[c]) + 1) : \E lost \in Seq(Unit) : Intact(c, m, lost)'
  <2>1. ReadingGenuine(c)' = ReadingGenuine(c) /\ Sound(c, 1)' = Sound(c, 1)
        /\ Stream(c, 1)' = Stream(c, 1) /\ HeadRead(c)' = HeadRead(c) /\ InMsg(c)' = InMsg(c)
        /\ Later(c, <<>>)' = Later(c, <<>>)
    BY <1>1 DEF ReadingGenuine, Sound, Stream, HeadRead, InMsg, Later, InQueue
  <2>2. Intact(c, 1, <<>>)'
    BY <1>1, <1>6, <2>1 DEF Intact
  <2>3. 1 \in 1..(Len(sent'[c]) + 1) /\ <<>> \in Seq(Unit)
    BY <1>1, <1>3, <1>6
  <2> QED BY <1>6, <2>1, <2>2, <2>3
<1>8. Framed'
  BY <1>1, <1>2, <1>7 DEF Framed
<1> QED BY <1>4, <1>5, <1>8 DEF Frames

(* Stop drops the answers that wait: what came before is a prefix.         *)
LEMMA EndStopFrames == Inv /\ Frames /\ EndStop => Frames'
<1> SUFFICES ASSUME Inv, Frames, EndStop PROVE Frames'
  OBVIOUS
<1> USE DEF Frames
<1>1. /\ owner = "closing" /\ owner' = "idle" /\ sendQ' = <<>>
      /\ UNCHANGED <<sent, inbox, handled, badHead>>
  BY DEF EndStop
<1>2. Framed' /\ HandledSent'
  BY <1>1 DEF Framed, Serving, HandledSent
<1>3. ASSUME NEW c \in Clients PROVE IsPrefix(inbox'[c] \o InSendQueue(c)', Answers(c)')
  <2>1. inbox[c] \in Seq(Nat) /\ sendQ \in Seq(Reply)
    BY DEF Inv, TypeOK, Reply
  <2>2. InSendQueue(c) \in Seq(Nat)
    <3>1. Replies(sendQ, c) \in Seq(Seq(Nat))
      BY <2>1, RepliesFacts
    <3> QED BY <3>1, FlattenType DEF InSendQueue
  <2>3. InSendQueue(c)' = <<>>
    BY <1>1, RepliesEmpty DEF InSendQueue
  <2>4. Answers(c)' = Cat(inbox[c], InSendQueue(c))
    BY <1>1 DEF Answers, AnswersInOrder, Cat
  <2>5. Cat(inbox'[c], InSendQueue(c)') = inbox[c]
    BY <1>1, <2>1, <2>3, CatEmpty
  <2>6. IsPrefix(inbox[c], Cat(inbox[c], InSendQueue(c)))
    BY <2>1, <2>2, PrefixOfConcat
  <2> QED BY <2>4, <2>5, <2>6 DEF Cat
<1> QED BY <1>1, <1>2, <1>3 DEF AnswersInOrder

-----------------------------------------------------------------------------
(* Up to the end of the first round the invariant is inductive.            *)
LEMMA FirstRoundNext == Inv /\ FirstRound /\ [Next]_vars => FirstRound'
<1> SUFFICES ASSUME Inv, FirstRound, [Next]_vars, round' <= 1 PROVE Frames'
  BY DEF FirstRound, Frames
<1>1. round \in Nat
  BY PacketsAssumption DEF Inv, TypeOK
<1>2. CASE StartDisposeClientAsk
  <2>1. round' = round + 1
    BY <1>2 DEF StartDisposeClientAsk
  <2>2. round = 0
    BY <1>1, <2>1
  <2> QED BY <1>2, <2>2, StartFrames
<1>3. ASSUME round' = round PROVE Frames
  BY <1>3 DEF FirstRound, Frames
<1>4. CASE ListenerTest \/ ReceiveTimeout \/ SenderTest \/ SendTimeout
  <2>1. /\ UNCHANGED <<packetMap, msg, recvQ, sendQ, owner, clientVars, handled, badHead>>
        /\ round' = round
    BY <1>4 DEF ListenerTest, ReceiveTimeout, SenderTest, SendTimeout
  <2>2. UNCHANGED <<wire, sent, inbox>>
    BY <2>1 DEF clientVars
  <2>3. Frames
    BY <1>3, <2>1
  <2> QED BY <2>1, <2>2, <2>3, SameStream, SameAnswers DEF Frames
<1>5. CASE ReceiveMsg
  BY <1>3, <1>5, ReceiveFrames DEF ReceiveMsg
<1>6. CASE Distribute
  BY <1>3, <1>6, DistributeFrames DEF Distribute
<1>7. CASE EndDistribute
  BY <1>3, <1>7, EndDistributeFrames DEF EndDistribute
<1>8. CASE SendMsg
  BY <1>3, <1>8, SendMsgFrames DEF SendMsg
<1>9. CASE ProgramExits
  BY <1>3, <1>9, ProgramExitsFrames DEF ProgramExits
<1>10. CASE EndStop
  BY <1>3, <1>10, EndStopFrames DEF EndStop
<1>11. CASE BeginStop
  <2>1. /\ UNCHANGED <<packetMap, msg, recvQ, sendQ, wire, sent, inbox, handled, badHead>>
        /\ round' = round /\ owner = "returned" /\ owner' = "joining"
    BY <1>11 DEF BeginStop, serverVars, clientVars
  <2>2. Frames
    BY <1>3, <2>1
  <2> QED BY <2>1, <2>2, SameStream, SameAnswers DEF Frames
<1>12. CASE JoinListener
  <2>1. /\ UNCHANGED <<sendQ, sent, inbox, handled, badHead>>
        /\ round' = round /\ owner = "joining" /\ owner' = "closing"
    BY <1>12 DEF JoinListener, clientVars
  <2>2. Frames
    BY <1>3, <2>1
  <2>3. Framed'
    BY <2>1, <2>2 DEF Frames, Framed, Serving
  <2> QED BY <2>1, <2>2, <2>3, SameAnswers DEF Frames
<1>13. CASE \E t \in Extensible : RegisterPacketHandler(t) \/ UnregisterPacketHandler(t)
  <2>1. UNCHANGED <<serverVars, owner, round, clientVars, handled, badHead>>
    BY <1>13 DEF RegisterPacketHandler, UnregisterPacketHandler
  <2>2. UNCHANGED <<packetMap, msg, recvQ, sendQ, wire, sent, inbox>>
    BY <2>1 DEF serverVars, clientVars
  <2>3. Frames
    BY <1>3, <2>1
  <2> QED BY <2>1, <2>2, <2>3, SameStream, SameAnswers DEF Frames
<1>14. ASSUME NEW c \in Clients, MsgHandle(c) PROVE Frames'
  <2>1. Frames
    BY <1>3, <1>14 DEF MsgHandle
  <2> QED BY <1>14, <2>1, MsgHandleFrames
<1>15. ASSUME NEW c \in Clients, NEW p \in Packets, ClientSend(c, p) PROVE Frames'
  <2>1. Frames
    BY <1>3, <1>15 DEF ClientSend
  <2> QED BY <1>15, <2>1, ClientSendFrames
<1>16. CASE UNCHANGED vars
  <2>1. /\ UNCHANGED <<packetMap, msg, recvQ, sendQ, owner, wire, sent, inbox, handled, badHead>>
        /\ round' = round
    BY <1>16 DEF vars, serverVars, clientVars
  <2>2. Frames
    BY <1>3, <2>1
  <2> QED BY <2>1, <2>2, SameStream, SameAnswers DEF Frames
<1> QED
  BY <1>2, <1>4, <1>5, <1>6, <1>7, <1>8, <1>9, <1>10, <1>11, <1>12, <1>13, <1>14, <1>15, <1>16
  DEF Next, Listener, Sender, Task

(* And it holds before.                                                    *)
LEMMA FirstRoundInit == Init => FirstRound
<1> SUFFICES ASSUME Init PROVE Frames
  BY DEF FirstRound, Frames
<1>1. HandledSent
  BY EmptySeq DEF Init, HandledSent
<1>2. Framed
  BY DEF Init, Framed, Serving
<1>3. AnswersInOrder
  <2> SUFFICES ASSUME NEW c \in Clients PROVE IsPrefix(inbox[c] \o InSendQueue(c), Answers(c))
    BY DEF Init, AnswersInOrder
  <2>1. InSendQueue(c) = <<>>
    BY RepliesEmpty DEF Init, InSendQueue
  <2>2. inbox[c] = <<>> /\ handled[c] = <<>> /\ <<>> \in Seq(Nat)
    BY EmptySeq DEF Init
  <2>3. Requests(handled[c], sent[c]) \in Seq(Seq(Nat))
    BY <2>2, RequestsFacts
  <2>4. Answers(c) \in Seq(Nat)
    BY <2>3, FlattenType DEF Answers
  <2>5. Cat(<<>>, <<>>) = <<>> /\ Cat(<<>>, Answers(c)) = Answers(c)
    BY <2>2, <2>4, CatEmpty
  <2>6. IsPrefix(<<>>, Answers(c))
    BY <2>2, <2>4, <2>5, PrefixOfConcat
  <2> QED BY <2>1, <2>2, <2>5, <2>6 DEF Cat
<1> QED BY <1>1, <1>2, <1>3 DEF Frames

(* In the first round reassembly is exact. *)
LEMMA IntactFraming == Inv /\ Framed => FramingExact
<1> SUFFICES ASSUME Inv, Framed PROVE FramingExact
  OBVIOUS
<1>1. ASSUME Serving, NEW c \in Clients
      PROVE  \E m \in 1..(Len(sent[c]) + 1) :
               /\ handled[c] = Sound(c, m)
               /\ IsPrefix(Undigested(c), Stream(c, m))
               /\ owner = "running" => Undigested(c) = Stream(c, m)
  <2>1. PICK m \in 1..(Len(sent[c]) + 1) : \E lost \in Seq(Unit) : Intact(c, m, lost)
    BY <1>1 DEF Framed
  <2>2. PICK lost \in Seq(Unit) : Intact(c, m, lost)
    BY <2>1
  <2> DEFINE h == HeadRead(c)
             a == packetMap[c].ask
             g == InMsg(c)
             q == InQueue(c)
             w == wire[c]
             all == Cat(Cat(Cat(Cat(h, a), g), q), w)
  <2>3. Undigested(c) = all
    BY DEF Undigested, Cat
  <2>4. TypeOK /\ packetMap[c] \in [head : Heading, ask : Seq(Unit)]
    BY DEF Inv, TypeOK
  <2>5. h \in Seq(Unit) /\ a \in Seq(Unit) /\ g \in Seq(Unit) /\ q \in Seq(Unit) /\ w \in Seq(Unit)
    <3>1. h \in Seq(Unit)
      <4>1. packetMap[c].head.n \in Nat
        BY <2>4 DEF Heading
      <4> QED BY <4>1, HeadFacts, EmptySeq DEF HeadRead
    <3>2. a \in Seq(Unit) /\ g \in Seq(Unit) /\ w \in Seq(Unit)
      BY <2>4, EmptySeq DEF TypeOK, InMsg
    <3> QED BY <3>1, <3>2, <2>4, LaterType
  <2>6. Cat(h, Cat(a, Cat(g, Cat(q, Cat(w, lost))))) = Stream(c, m)
    BY <2>2 DEF Intact, Later
  <2> HIDE DEF h, a, g, q, w
  <2>7. /\ all \in Seq(Unit)
        /\ Cat(h, Cat(a, Cat(g, Cat(q, Cat(w, lost))))) = Cat(all, lost)
    <3>1. Cat(h, a) \in Seq(Unit) /\ Cat(w, lost) \in Seq(Unit)
      BY <2>5, CatType
    <3>2. Cat(q, Cat(w, lost)) \in Seq(Unit) /\ Cat(Cat(h, a), g) \in Seq(Unit)
      BY <2>5, <3>1, CatType
    <3>3. Cat(g, Cat(q, Cat(w, lost))) \in Seq(Unit) /\ Cat(Cat(Cat(h, a), g), q) \in Seq(Unit)
      BY <2>5, <3>2, CatType
    <3>4. Cat(h, Cat(a, Cat(g, Cat(q, Cat(w, lost))))) = Cat(Cat(h, a), Cat(g, Cat(q, Cat(w, lost))))
      BY <2>5, <3>3, CatAssoc
    <3>5. Cat(Cat(h, a), Cat(g, Cat(q, Cat(w, lost)))) = Cat(Cat(Cat(h, a), g), Cat(q, Cat(w, lost)))
      BY <2>5, <3>1, <3>2, CatAssoc
    <3>6. Cat(Cat(Cat(h, a), g), Cat(q, Cat(w, lost))) = Cat(Cat(Cat(Cat(h, a), g), q), Cat(w, lost))
      BY <2>5, <3>1, <3>2, CatAssoc
    <3>7. Cat(Cat(Cat(Cat(h, a), g), q), Cat(w, lost)) = Cat(all, lost)
      BY <2>5, <3>3, CatAssoc
    <3>8. all \in Seq(Unit)
      BY <2>5, <3>3, CatType
    <3> QED BY <3>4, <3>5, <3>6, <3>7, <3>8
  <2> HIDE DEF all
  <2>8. Cat(all, lost) = Stream(c, m)
    BY <2>6, <2>7
  <2>9. IsPrefix(all, Stream(c, m))
    BY <2>7, <2>8, PrefixOfConcat
  <2>10. owner = "running" => all = Stream(c, m)
    BY <2>2, <2>7, <2>8, CatEmpty DEF Intact
  <2> QED BY <2>2, <2>3, <2>9, <2>10 DEF Intact
<1> QED BY <1>1 DEF Framed, FramingExact, Serving

(* Up to the end of the first round the whole invariant holds.             *)
THEOREM Invariant == Spec => [](Inv /\ FirstRound)
BY InitInv, InvNext, FirstRoundInit, FirstRoundNext, PTL DEF Spec

(* Reassembly is exact: the callbacks get the sound packets of a client, in *)
(* order and each once, up to some point, what follows is intact, and no   *)
(* head is invalid, however Packet::ProcessMsg gets the stream in pieces.  *)
THEOREM FramingExactCorrect == Spec => [](round <= 1 => FramingExact)
<1>1. Inv /\ FirstRound => (round <= 1 => FramingExact)
  BY IntactFraming DEF FirstRound, Frames
<1> QED BY <1>1, Invariant, PTL

(* A client gets the answers to its own requests and in their order; only  *)
(* Stop loses some, and those are the last.                                *)
THEOREM AnswersInOrderCorrect == Spec => [](round <= 1 => AnswersInOrder)
<1>1. FirstRound => (round <= 1 => AnswersInOrder)
  BY DEF FirstRound, Frames
<1> QED BY <1>1, Invariant, PTL
=============================================================================
