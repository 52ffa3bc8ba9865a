-------------------------- MODULE DBIParserProofs ---------------------------
(***************************************************************************)
(* Proofs about DBIParser, for any pool, any clients and any number of     *)
(* packets.                                                                *)
(*                                                                         *)
(* A packet is a token that moves one way: not sent, in the queue, in the  *)
(* hands of a thread, and what it carried (a record, or the path of a      *)
(* kernel) then in an entry, in an entry a thread took out of the map, in  *)
(* a file or among the refused.  TokenInv says that no packet is in two of *)
(* the first three places, RecordInv and PathInv that what it carried is   *)
(* nowhere else as long as it is in one of them.  OnePlace and WrittenOnce *)
(* follow from these without any use of the counters.                      *)
(*                                                                         *)
(* That the entry outlives its handlers needs the counters, and these need *)
(* that none of them wraps: CountersBelowLimit is a hypothesis.            *)
(***************************************************************************)
EXTENDS DBIParser, SequenceTheorems, FiniteSetTheorems, TLAPS

(* The client has sent the packet. *)
SentBefore(m, c) ==
    \/ m.kernel < c[m.client][1]
    \/ /\ m.kernel = c[m.client][1]
       /\ ~m.end
       /\ m.record[3] < c[m.client][2]
Sent(m) == SentBefore(m, cursor)

TokenInv ==
    /\ \A i \in 1..Len(queue) : Sent(queue[i])
    /\ \A i, j \in 1..Len(queue) : queue[i] = queue[j] => i = j
    /\ \A w \in Workers : pc[w] # "idle" => Sent(msg[w])
    /\ \A w \in Workers, i \in 1..Len(queue) : queue[i] # msg[w]
    /\ \A v, w \in Workers : pc[v] # "idle" /\ msg[v] = msg[w] => v = w

(* A thread that has not yet given away what its packet carries *)
Carries(w) == pc[w] \in {"handle", "parse"}

(* What a handler does depends on its packet and on what it took. *)
HandlerInv ==
    \A w \in Workers :
        /\ pc[w] \in {"parse", "tally", "count"} => ~msg[w].end
        /\ pc[w] # "write" => taken[w] = EmptyEntry

Stored(r) ==
    \/ \E c \in Clients : r \in InEntry(c)
    \/ \E w \in Workers : r \in InHand(w)
    \/ \E p \in Paths : r \in files[p]
    \/ r \in lost

RecordInv ==
    /\ \A m \in Messages : ~m.end /\ Stored(m.record) => Sent(m)
    /\ \A i \in 1..Len(queue) : ~queue[i].end => ~Stored(queue[i].record)
    /\ \A w \in Workers : Carries(w) /\ ~msg[w].end => ~Stored(msg[w].record)
    /\ \A c \in Clients : \A r \in InEntry(c) : r[1] = c

PathOf(m) == <<m.client, m.kernel>>

Used(p) ==
    \/ \E c \in Clients : At(c).path = p
    \/ \E w \in Workers : taken[w].path = p
    \/ files[p] # {}

PathInv ==
    /\ \A m \in Messages : m.end /\ Used(PathOf(m)) => Sent(m)
    /\ \A i \in 1..Len(queue) : queue[i].end => ~Used(PathOf(queue[i]))
    /\ \A w \in Workers : Carries(w) /\ msg[w].end => ~Used(PathOf(msg[w]))
    /\ \A c, d \in Clients : At(c).path = At(d).path /\ c # d => At(c).path = NoPath
    /\ \A c \in Clients, w \in Workers :
           At(c).path = taken[w].path => At(c).path = NoPath
    /\ \A v, w \in Workers :
           v # w /\ taken[v].path = taken[w].path => taken[v].path = NoPath
    /\ \A p \in Paths : files[p] # {} =>
           /\ \A c \in Clients : At(c).path # p
           /\ \A w \in Workers : taken[w].path # p

IInv == TypeOK /\ TokenInv /\ HandlerInv /\ RecordInv /\ OnePlace /\ PathInv
-----------------------------------------------------------------------------
(* Packets, records and paths                                              *)

LEMMA CountersAreBounded ==
    /\ 0 \in Counter
    /\ \A n \in Counter : (n + 1) % CounterMod \in Counter
  BY BoundsAssumption DEF Counter

LEMMA EmptyEntryType == EmptyEntry \in Entry
  BY CountersAreBounded DEF EmptyEntry, Entry

LEMMA PathIn ==
    ASSUME NEW c \in Clients, NEW k \in DOMAIN Reports[c]
    PROVE  <<c, k>> \in Paths
  BY DEF Paths

LEMMA PathFacts ==
    ASSUME NEW p \in Paths
    PROVE  p[1] \in Clients /\ p[2] \in DOMAIN Reports[p[1]] /\ p = <<p[1], p[2]>>
  BY DEF Paths

LEMMA RecordIn ==
    ASSUME NEW c \in Clients, NEW k \in DOMAIN Reports[c], NEW n \in 1..Reports[c][k]
    PROVE  <<c, k, n>> \in Records
  <1> DEFINE p == <<c, k>>
  <1>1. p \in Paths /\ p[1] = c /\ p[2] = k
    BY PathIn
  <1>2. <<c, k, n>> \in {<<p[1], p[2], i>> : i \in 1..Reports[p[1]][p[2]]}
    BY <1>1
  <1> QED
    BY <1>1, <1>2 DEF Records

LEMMA RecordFacts ==
    ASSUME NEW r \in Records
    PROVE  /\ r[1] \in Clients
           /\ r[2] \in DOMAIN Reports[r[1]]
           /\ r[3] \in 1..Reports[r[1]][r[2]]
           /\ r = <<r[1], r[2], r[3]>>
  <1>1. PICK p \in Paths : r \in {<<p[1], p[2], n>> : n \in 1..Reports[p[1]][p[2]]}
    BY DEF Records
  <1>2. PICK n \in 1..Reports[p[1]][p[2]] : r = <<p[1], p[2], n>>
    BY <1>1
  <1> QED
    BY <1>2, PathFacts

LEMMA ReportsFacts ==
    ASSUME NEW c \in Clients, NEW k \in DOMAIN Reports[c]
    PROVE  k \in Nat \ {0} /\ Reports[c][k] \in Nat
  BY BoundsAssumption

(* Every packet is a data or an end packet of what its client reports.     *)
LEMMA MessageFacts ==
    ASSUME NEW m \in Messages
    PROVE  /\ m.client \in Clients
           /\ m.kernel \in DOMAIN Reports[m.client]
           /\ m.kernel \in Nat \ {0}
           /\ m.end \in BOOLEAN
           /\ PathOf(m) \in Paths
           /\ m.end => m = EndPacket(m.client, m.kernel)
           /\ ~m.end => /\ m.record \in Records
                        /\ m.record[3] \in Nat \ {0}
                        /\ m.record = <<m.client, m.kernel, m.record[3]>>
                        /\ m = DataPacket(m.client, m.kernel, m.record[3])
  <1>1. CASE \E r \in Records : m = DataPacket(r[1], r[2], r[3])
    <2>1. PICK r \in Records : m = DataPacket(r[1], r[2], r[3])
      BY <1>1
    <2>2. /\ m.client = r[1] /\ m.kernel = r[2] /\ ~m.end
          /\ m.record = r /\ m.end \in BOOLEAN
      BY <2>1, RecordFacts DEF DataPacket
    <2>3. r[2] \in Nat \ {0} /\ r[3] \in Nat \ {0}
      BY RecordFacts, ReportsFacts
    <2>4. PathOf(m) \in Paths
      BY <2>2, RecordFacts, PathIn DEF PathOf
    <2> QED
      BY <2>1, <2>2, <2>3, <2>4, RecordFacts
  <1>2. CASE \E p \in Paths : m = EndPacket(p[1], p[2])
    <2>1. PICK p \in Paths : m = EndPacket(p[1], p[2])
      BY <1>2
    <2>2. m.client = p[1] /\ m.kernel = p[2] /\ m.end /\ m.end \in BOOLEAN
      BY <2>1 DEF EndPacket
    <2>3. p[2] \in Nat \ {0}
      BY PathFacts, ReportsFacts
    <2>4. PathOf(m) \in Paths
      BY <2>2, PathFacts DEF PathOf
    <2> QED
      BY <2>1, <2>2, <2>3, <2>4, PathFacts
  <1> QED
    BY <1>1, <1>2 DEF Messages

LEMMA SameRecord ==
    ASSUME NEW m \in Messages, NEW n \in Messages,
           ~m.end, ~n.end, m.record = n.record
    PROVE  m = n
  <1>1. m.client = n.client /\ m.kernel = n.kernel
    BY MessageFacts
  <1> QED
    BY <1>1, MessageFacts

LEMMA SamePath ==
    ASSUME NEW m \in Messages, NEW n \in Messages,
           m.end, n.end, PathOf(m) = PathOf(n)
    PROVE  m = n
  <1>1. m.client = n.client /\ m.kernel = n.kernel
    BY DEF PathOf
  <1> QED
    BY <1>1, MessageFacts

LEMMA AtType ==
    ASSUME TypeOK, NEW c \in Clients
    PROVE  /\ At(c) \in Entry
           /\ At(c).path \in Paths \cup {NoPath}
           /\ At(c).records \subseteq Records
           /\ At(c).received \in Counter
           /\ At(c).processed \in Counter
  <1>1. At(c) \in Entry
    BY EmptyEntryType DEF TypeOK, At
  <1> QED
    BY <1>1 DEF Entry
-----------------------------------------------------------------------------
(* Types                                                                   *)

LEMMA InitType == Init => TypeOK
  <1> SUFFICES ASSUME Init PROVE TypeOK
    OBVIOUS
  <1>1. taken \in [Workers -> Entry]
    BY EmptyEntryType DEF Init
  <1>2. msg \in [Workers -> Messages \cup {NoMsg}]
    BY DEF Init
  <1>3. metrics \in [Clients -> Entry \cup {NoEntry}]
    BY DEF Init
  <1>4. files \in [Paths -> SUBSET Records]
    BY DEF Init
  <1> QED
    BY <1>1, <1>2, <1>3, <1>4 DEF Init, TypeOK

LEMMA ParsePacketSends ==
    ASSUME TypeOK, NEW c \in Clients, ParsePacket(c)
    PROVE  \E m \in Messages :
               /\ m.client = c
               /\ m.kernel = cursor[c][1]
               /\ ~m.end => m.record[3] = cursor[c][2]
               /\ queue' = Append(queue, m)
               /\ cursor' = [cursor EXCEPT ![c] =
                                IF m.end THEN <<@[1] + 1, 1>> ELSE <<@[1], @[2] + 1>>]
  <1> DEFINE k == cursor[c][1]
             n == cursor[c][2]
  <1>1. k \in DOMAIN Reports[c] /\ n \in Nat \ {0} /\ k \in Nat \ {0}
    BY DEF ParsePacket, TypeOK
  <1>2. CASE /\ n <= Reports[c][k]
             /\ Enqueue(DataPacket(c, k, n))
             /\ cursor' = [cursor EXCEPT ![c] = <<k, n + 1>>]
    <2> DEFINE m == DataPacket(c, k, n)
    <2>1. n \in 1..Reports[c][k]
      BY <1>1, <1>2, ReportsFacts
    <2>2. <<c, k, n>> \in Records
      BY <1>1, <2>1, RecordIn
    <2>3. m \in Messages
      BY <2>2 DEF Messages
    <2>4. m.client = c /\ m.kernel = k /\ ~m.end /\ m.record[3] = n
      BY DEF DataPacket
    <2>5. queue' = Append(queue, m)
      BY <1>2 DEF Enqueue
    <2> QED
      BY <1>2, <2>3, <2>4, <2>5
  <1>3. CASE /\ Enqueue(EndPacket(c, k))
             /\ cursor' = [cursor EXCEPT ![c] = <<k + 1, 1>>]
    <2> DEFINE m == EndPacket(c, k)
    <2>1. <<c, k>> \in Paths
      BY <1>1, PathIn
    <2>2. m \in Messages
      BY <2>1 DEF Messages
    <2>3. m.client = c /\ m.kernel = k /\ m.end
      BY DEF EndPacket
    <2>4. queue' = Append(queue, m)
      BY <1>3 DEF Enqueue
    <2> QED
      BY <1>3, <2>2, <2>3, <2>4
  <1> QED
    BY <1>2, <1>3 DEF ParsePacket

LEMMA ParsePacketType ==
    ASSUME TypeOK, NEW c \in Clients, ParsePacket(c) PROVE TypeOK'
  <1>1. PICK m \in Messages :
            /\ queue' = Append(queue, m)
            /\ cursor' = [cursor EXCEPT ![c] =
                             IF m.end THEN <<@[1] + 1, 1>> ELSE <<@[1], @[2] + 1>>]
    BY ParsePacketSends
  <1>2. queue' \in Seq(Messages)
    BY <1>1 DEF TypeOK
  <1>3. cursor' \in [Clients -> (Nat \ {0}) \X (Nat \ {0})]
    BY <1>1 DEF TypeOK
  <1>4. pool' \in {"closed", "open", "closing"}
        /\ state' \in {"INITED", "RUNNING", "FINISHED"}
    BY DEF ParsePacket, Enqueue, TypeOK
  <1> QED
    BY <1>2, <1>3, <1>4 DEF ParsePacket, handlers, TypeOK

LEMMA TakePacketType ==
    ASSUME TypeOK, NEW w \in Workers, TakePacket(w) PROVE TypeOK'
  <1>1. Head(queue) \in Messages /\ Tail(queue) \in Seq(Messages)
    BY DEF TakePacket, TypeOK
  <1>2. msg' \in [Workers -> Messages \cup {NoMsg}] /\ queue' \in Seq(Messages)
    BY <1>1 DEF TakePacket, TypeOK
  <1>3. \A v \in Workers : (msg'[v] = NoMsg <=> pc'[v] = "idle")
    BY <1>1, NullAssumption DEF TakePacket, TypeOK
  <1> QED
    BY <1>2, <1>3 DEF TakePacket, TypeOK

(* The actions of a thread that is at work on a packet                     *)
AtWork(w) ==
    \/ HandleEndFlag(w)
    \/ CountReceived(w)
    \/ ParseMemoryChart(w)
    \/ TallyRecords(w)
    \/ CountProcessed(w)
    \/ TryDumpMemoryChartMetrics(w)
    \/ VerifyAndDump(w)

LEMMA AtWorkMessage ==
    ASSUME TypeOK, NEW w \in Workers, AtWork(w)
    PROVE  msg[w] \in Messages /\ pc[w] # "idle" /\ msg[w].client \in Clients
  <1>1. pc[w] # "idle"
    BY DEF AtWork, HandleEndFlag, CountReceived, ParseMemoryChart, TallyRecords,
       CountProcessed, TryDumpMemoryChartMetrics, VerifyAndDump
  <1>2. msg[w] \in Messages
    BY <1>1 DEF TypeOK
  <1> QED
    BY <1>1, <1>2, MessageFacts

LEMMA AtWorkEntries ==
    ASSUME TypeOK, HandlerInv, NEW w \in Workers, AtWork(w)
    PROVE  /\ metrics' \in [Clients -> Entry \cup {NoEntry}]
           /\ taken' \in [Workers -> Entry]
           /\ files' \in [Paths -> SUBSET Records]
           /\ lost' \subseteq Records
           /\ procedureErrors' \in Nat
  <1> DEFINE c == msg[w].client
             e == At(c)
  <1>1. c \in Clients /\ e \in Entry /\ e.received \in Counter /\ e.processed \in Counter
    BY AtWorkMessage, AtType
  <1>2. metrics \in [Clients -> Entry \cup {NoEntry}] /\ taken \in [Workers -> Entry]
        /\ files \in [Paths -> SUBSET Records] /\ lost \subseteq Records
        /\ procedureErrors \in Nat /\ taken[w] \in Entry
    BY DEF TypeOK
  <1> HIDE DEF c, e
  <1>3. CASE HandleEndFlag(w)
    <2>1. <<c, msg[w].kernel>> \in Paths
      BY AtWorkMessage, MessageFacts DEF PathOf, c
    <2>2. [e EXCEPT !.endFlag = TRUE, !.path = <<c, msg[w].kernel>>] \in Entry
      BY <1>1, <2>1 DEF Entry
    <2>3. metrics' = [metrics EXCEPT ![c] =
                        [e EXCEPT !.endFlag = TRUE, !.path = <<c, msg[w].kernel>>]]
      BY <1>3 DEF HandleEndFlag, c, e
    <2> QED
      BY <1>1, <1>2, <1>3, <2>2, <2>3 DEF HandleEndFlag
  <1>4. CASE CountReceived(w)
    <2>1. [e EXCEPT !.received = (@ + 1) % CounterMod] \in Entry
      BY <1>1, CountersAreBounded DEF Entry
    <2>2. metrics' = [metrics EXCEPT ![c] =
                        [e EXCEPT !.received = (@ + 1) % CounterMod]]
      BY <1>4 DEF CountReceived, c, e
    <2> QED
      BY <1>1, <1>2, <1>4, <2>1, <2>2 DEF CountReceived
  <1>5. CASE ParseMemoryChart(w)
    <2>1. CASE /\ metrics[c] # NoEntry
               /\ metrics' = [metrics EXCEPT ![c].records = @ \cup {msg[w].record}]
               /\ UNCHANGED procedureErrors
      <3>1. metrics[c] \in Entry
        BY <1>1, <1>2, <2>1
      <3>2. msg[w].record \in Records
        BY <1>5, AtWorkMessage, MessageFacts DEF ParseMemoryChart, HandlerInv
      <3>3. [metrics[c] EXCEPT !.records = @ \cup {msg[w].record}] \in Entry
        BY <3>1, <3>2 DEF Entry
      <3>4. metrics' = [metrics EXCEPT ![c] =
                          [metrics[c] EXCEPT !.records = @ \cup {msg[w].record}]]
        BY <1>1, <1>2, <2>1
      <3> QED
        BY <1>1, <1>2, <1>5, <2>1, <3>3, <3>4 DEF ParseMemoryChart
    <2>2. CASE UNCHANGED metrics /\ procedureErrors' \in Nat
      BY <1>2, <1>5, <2>2 DEF ParseMemoryChart
    <2> QED
      BY <1>2, <1>5, <2>1, <2>2 DEF ParseMemoryChart, c
  <1>6. CASE TallyRecords(w)
    BY <1>1, <1>2, <1>6 DEF TallyRecords, c, e
  <1>7. CASE CountProcessed(w)
    <2>1. [e EXCEPT !.processed = (@ + 1) % CounterMod] \in Entry
      BY <1>1, CountersAreBounded DEF Entry
    <2>2. metrics' = [metrics EXCEPT ![c] =
                        [e EXCEPT !.processed = (@ + 1) % CounterMod]]
      BY <1>7 DEF CountProcessed, c, e
    <2> QED
      BY <1>1, <1>2, <1>7, <2>1, <2>2 DEF CountProcessed
  <1>8. CASE TryDumpMemoryChartMetrics(w)
    <2>1. \/ metrics' = [metrics EXCEPT ![c] = e] /\ taken' = taken
          \/ /\ taken' = [taken EXCEPT ![w] = e]
             /\ metrics' = [metrics EXCEPT ![c] = NoEntry]
      BY <1>8 DEF TryDumpMemoryChartMetrics, c, e
    <2> QED
      BY <1>1, <1>2, <1>8, <2>1 DEF TryDumpMemoryChartMetrics
  <1>9. CASE VerifyAndDump(w)
    <2>1. taken[w].records \subseteq Records /\ taken[w].path \in Paths \cup {NoPath}
      BY <1>2 DEF Entry
    <2>2. files' \in [Paths -> SUBSET Records] /\ lost' \subseteq Records
      BY <1>2, <1>9, <2>1 DEF VerifyAndDump, Written, Refused
    <2>3. taken' \in [Workers -> Entry]
      BY <1>2, <1>9, EmptyEntryType DEF VerifyAndDump
    <2> QED
      BY <1>2, <1>9, <2>2, <2>3 DEF VerifyAndDump
  <1> QED
    BY <1>3, <1>4, <1>5, <1>6, <1>7, <1>8, <1>9 DEF AtWork

(* A thread at work moves to its next critical section or ends.            *)
LEMMA AtWorkPhase ==
    ASSUME TypeOK, NEW w \in Workers, AtWork(w)
    PROVE  /\ \E p \in {"idle", "parse", "tally", "count", "tryDump", "write"} :
                  /\ pc' = [pc EXCEPT ![w] = p]
                  /\ msg' = [msg EXCEPT ![w] = IF p = "idle" THEN NoMsg ELSE @]
           /\ UNCHANGED <<cursor, queue, pool, state, main>>
  <1>1. pc \in [Workers -> {"idle", "handle", "parse", "tally", "count", "tryDump", "write"}]
        /\ msg \in [Workers -> Messages \cup {NoMsg}]
    BY DEF TypeOK
  <1> QED
    BY <1>1 DEF AtWork, HandleEndFlag, CountReceived, ParseMemoryChart, TallyRecords,
       CountProcessed, TryDumpMemoryChartMetrics, VerifyAndDump

LEMMA AtWorkType ==
    ASSUME TypeOK, HandlerInv, NEW w \in Workers, AtWork(w) PROVE TypeOK'
  <1>1. PICK p \in {"idle", "parse", "tally", "count", "tryDump", "write"} :
            /\ pc' = [pc EXCEPT ![w] = p]
            /\ msg' = [msg EXCEPT ![w] = IF p = "idle" THEN NoMsg ELSE @]
    BY AtWorkPhase
  <1>2. pc' \in [Workers -> {"idle", "handle", "parse", "tally", "count", "tryDump", "write"}]
        /\ msg' \in [Workers -> Messages \cup {NoMsg}]
    BY <1>1 DEF TypeOK
  <1>3. \A v \in Workers : (msg'[v] = NoMsg <=> pc'[v] = "idle")
    <2> TAKE v \in Workers
    <2>1. msg[w] # NoMsg
      BY AtWorkMessage, NullAssumption
    <2>2. CASE v = w
      BY <1>1, <2>1, <2>2 DEF TypeOK
    <2>3. CASE v # w
      BY <1>1, <2>3 DEF TypeOK
    <2> QED
      BY <2>2, <2>3
  <1> QED
    BY <1>2, <1>3, AtWorkPhase, AtWorkEntries DEF TypeOK

LEMMA MainType ==
    ASSUME TypeOK, Main PROVE TypeOK'
  <1>1. CASE BeginWaitParseTask
    BY <1>1 DEF BeginWaitParseTask, handlers, TypeOK
  <1>2. CASE StopPool
    BY <1>2 DEF StopPool, handlers, TypeOK
  <1>3. CASE DumpLeftovers
    <2>1. files' \in [Paths -> SUBSET Records]
      BY <1>3, AtType, PathFacts DEF DumpLeftovers, TypeOK
    <2>2. lost' \subseteq Records
      BY <1>3, AtType DEF DumpLeftovers, TypeOK, Refused
    <2>3. metrics' \in [Clients -> Entry \cup {NoEntry}]
      BY <1>3 DEF DumpLeftovers
    <2> QED
      BY <1>3, <2>1, <2>2, <2>3 DEF DumpLeftovers, handlers, TypeOK
  <1> QED
    BY <1>1, <1>2, <1>3 DEF Main
-----------------------------------------------------------------------------
(* Steps that move no token: the entries keep their path and records, no   *)
(* packet is sent, taken or written, and a thread only goes on or ends.    *)

ThreadsGoOn ==
    \A w \in Workers :
        \/ pc'[w] = pc[w] /\ msg'[w] = msg[w]
        \/ /\ pc[w] # "idle" /\ pc'[w] \notin {"idle", "handle"}
           /\ msg'[w] = msg[w]
           /\ pc'[w] = "parse" => pc[w] = "handle"
        \/ pc[w] # "idle" /\ pc'[w] = "idle" /\ msg'[w] = NoMsg

Still ==
    /\ UNCHANGED <<cursor, queue, taken, files, lost>>
    /\ \A c \in Clients : At(c)'.path = At(c).path /\ At(c)'.records = At(c).records
    /\ ThreadsGoOn

LEMMA QueueMember ==
    ASSUME TypeOK, NEW i \in 1..Len(queue)
    PROVE  queue[i] \in Messages /\ queue[i] # NoMsg
  <1>1. queue[i] \in Messages
    BY DEF TypeOK
  <1> QED
    BY <1>1, NullAssumption

LEMMA TokensStay ==
    ASSUME TypeOK, TokenInv, UNCHANGED <<cursor, queue>>, ThreadsGoOn PROVE TokenInv'
  <1>1. UNCHANGED <<cursor, queue>>
    OBVIOUS
  <1>2. \A m : Sent(m)' <=> Sent(m)
    BY <1>1 DEF Sent
  <1>3. \A w \in Workers : pc'[w] # "idle" => pc[w] # "idle" /\ msg'[w] = msg[w]
    BY DEF ThreadsGoOn
  <1>4. \A w \in Workers : msg'[w] = msg[w] \/ msg'[w] = NoMsg
    BY DEF ThreadsGoOn
  <1>5. \A w \in Workers : pc[w] # "idle" => msg[w] \in Messages
    BY DEF TypeOK
  <1>6. (\A i \in 1..Len(queue) : Sent(queue[i]))'
    BY <1>1 DEF TokenInv, Sent
  <1>7. (\A i, j \in 1..Len(queue) : queue[i] = queue[j] => i = j)'
    BY <1>1 DEF TokenInv
  <1>8. (\A w \in Workers : pc[w] # "idle" => Sent(msg[w]))'
    BY <1>1, <1>3 DEF TokenInv, Sent
  <1>9. (\A w \in Workers, i \in 1..Len(queue) : queue[i] # msg[w])'
    BY <1>1, <1>4, QueueMember DEF TokenInv
  <1>10. (\A v, w \in Workers : pc[v] # "idle" /\ msg[v] = msg[w] => v = w)'
    <2> SUFFICES ASSUME NEW v \in Workers, NEW w \in Workers,
                        pc'[v] # "idle", msg'[v] = msg'[w]
                 PROVE  v = w
      OBVIOUS
    <2>1. pc[v] # "idle" /\ msg'[v] = msg[v] /\ msg[v] # NoMsg
      BY <1>3, <1>5, NullAssumption
    <2>2. msg'[w] = msg[w]
      BY <1>4, <2>1
    <2> QED
      BY <2>1, <2>2 DEF TokenInv
  <1> QED
    BY <1>6, <1>7, <1>8, <1>9, <1>10 DEF TokenInv

LEMMA StillRecords == TypeOK /\ RecordInv /\ OnePlace /\ Still => RecordInv' /\ OnePlace'
  <1> SUFFICES ASSUME TypeOK, RecordInv, OnePlace, Still PROVE RecordInv' /\ OnePlace'
    OBVIOUS
  <1>1. UNCHANGED <<cursor, queue, taken, files, lost>>
    BY DEF Still
  <1>2. \A c \in Clients : InEntry(c)' = InEntry(c)
    BY DEF Still, InEntry
  <1>3. \A w \in Workers : InHand(w)' = InHand(w)
    BY <1>1 DEF InHand
  <1>4. \A r : Stored(r)' <=> Stored(r)
    BY <1>1, <1>2, <1>3 DEF Stored
  <1>5. \A w \in Workers : Carries(w)' => Carries(w) /\ msg'[w] = msg[w]
    BY DEF Still, ThreadsGoOn, Carries
  <1>6. \A m : Sent(m)' <=> Sent(m)
    BY <1>1 DEF Sent
  <1>7. OnePlace'
    BY <1>1, <1>2, <1>3 DEF OnePlace
  <1>8. RecordInv'
    BY <1>1, <1>2, <1>4, <1>5, <1>6 DEF RecordInv
  <1> QED
    BY <1>7, <1>8

LEMMA StillPaths == TypeOK /\ PathInv /\ Still => PathInv'
  <1> SUFFICES ASSUME TypeOK, PathInv, Still PROVE PathInv'
    OBVIOUS
  <1>1. UNCHANGED <<cursor, queue, taken, files>>
    BY DEF Still
  <1>2. \A c \in Clients : At(c)'.path = At(c).path
    BY DEF Still
  <1>3. \A p : Used(p)' <=> Used(p)
    BY <1>1, <1>2 DEF Used
  <1>4. \A w \in Workers : Carries(w)' => Carries(w) /\ msg'[w] = msg[w]
    BY DEF Still, ThreadsGoOn, Carries
  <1>5. \A m : Sent(m)' <=> Sent(m)
    BY <1>1 DEF Sent
  <1> QED
    BY <1>1, <1>2, <1>3, <1>4, <1>5 DEF PathInv, PathOf

LEMMA AtWorkThreads ==
    ASSUME TypeOK, NEW w \in Workers, AtWork(w) PROVE ThreadsGoOn
  <1>1. pc \in [Workers -> {"idle", "handle", "parse", "tally", "count", "tryDump", "write"}]
        /\ msg \in [Workers -> Messages \cup {NoMsg}]
    BY DEF TypeOK
  <1>2. \A v \in Workers \ {w} : pc'[v] = pc[v] /\ msg'[v] = msg[v]
    BY AtWorkPhase, <1>1
  <1>3. /\ pc[w] # "idle"
        /\ \/ /\ pc'[w] \notin {"idle", "handle"} /\ msg'[w] = msg[w]
              /\ pc'[w] = "parse" => pc[w] = "handle"
           \/ pc'[w] = "idle" /\ msg'[w] = NoMsg
    BY <1>1 DEF AtWork, HandleEndFlag, CountReceived, ParseMemoryChart, TallyRecords,
       CountProcessed, TryDumpMemoryChartMetrics, VerifyAndDump
  <1> QED
    BY <1>2, <1>3 DEF ThreadsGoOn

(* The actions that are still                                              *)

LEMMA EntryUpdate ==
    ASSUME TypeOK, NEW c \in Clients, NEW e \in Entry,
           metrics' = [metrics EXCEPT ![c] = e]
    PROVE  At(c)' = e /\ \A d \in Clients : d # c => At(d)' = At(d)
  BY NullAssumption DEF At, TypeOK

LEMMA CountingIsStill ==
    ASSUME TypeOK, HandlerInv, NEW w \in Workers,
           \/ CountReceived(w) \/ TallyRecords(w) \/ CountProcessed(w)
           \/ TryDumpMemoryChartMetrics(w) /\ taken' = taken /\ pc'[w] = "idle"
    PROVE  Still
  <1> DEFINE c == msg[w].client
             e == At(c)
  <1>0. AtWork(w)
    BY DEF AtWork
  <1>1. c \in Clients /\ e \in Entry /\ e.received \in Counter /\ e.processed \in Counter
    BY <1>0, AtWorkMessage, AtType
  <1>2. \E f \in Entry : /\ metrics' = [metrics EXCEPT ![c] = f]
                         /\ f.path = e.path /\ f.records = e.records
    <2> HIDE DEF c, e
    <2>1. CASE CountReceived(w)
      <3> DEFINE f == [e EXCEPT !.received = (@ + 1) % CounterMod]
      <3>1. f \in Entry /\ f.path = e.path /\ f.records = e.records
        BY <1>1, CountersAreBounded DEF Entry
      <3>2. metrics' = [metrics EXCEPT ![c] = f]
        BY <2>1 DEF CountReceived, c, e
      <3> QED
        BY <3>1, <3>2
    <2>2. CASE CountProcessed(w)
      <3> DEFINE f == [e EXCEPT !.processed = (@ + 1) % CounterMod]
      <3>1. f \in Entry /\ f.path = e.path /\ f.records = e.records
        BY <1>1, CountersAreBounded DEF Entry
      <3>2. metrics' = [metrics EXCEPT ![c] = f]
        BY <2>2 DEF CountProcessed, c, e
      <3> QED
        BY <3>1, <3>2
    <2>3. CASE TallyRecords(w)
      BY <1>1, <2>3 DEF TallyRecords, c, e
    <2>4. CASE TryDumpMemoryChartMetrics(w) /\ taken' = taken /\ pc'[w] = "idle"
      BY <1>1, <2>4 DEF TryDumpMemoryChartMetrics, TypeOK, c, e
    <2> QED
      BY <2>1, <2>2, <2>3, <2>4
  <1>3. \A d \in Clients : At(d)'.path = At(d).path /\ At(d)'.records = At(d).records
    BY <1>1, <1>2, EntryUpdate
  <1>4. ThreadsGoOn
    BY <1>0, AtWorkThreads
  <1>6. UNCHANGED <<cursor, queue, taken, files, lost>>
    BY DEF CountReceived, TallyRecords, CountProcessed, TryDumpMemoryChartMetrics
  <1> QED
    BY <1>3, <1>4, <1>6 DEF Still

LEMMA WaitingIsStill ==
    ASSUME BeginWaitParseTask \/ StopPool \/ UNCHANGED vars PROVE Still
  BY DEF BeginWaitParseTask, StopPool, vars, handlers, Still, ThreadsGoOn, At
-----------------------------------------------------------------------------
(* The steps that move a token                                             *)

LEMMA HandlerInvStep ==
    ASSUME TypeOK, HandlerInv, Next PROVE HandlerInv'
  <1>1. CASE \E c \in Clients : ParsePacket(c)
    BY <1>1 DEF ParsePacket, handlers, HandlerInv
  <1>2. CASE \E w \in Workers : Handler(w)
    <2>1. PICK w \in Workers : Handler(w)
      BY <1>2
    <2>2. pc \in [Workers -> {"idle", "handle", "parse", "tally", "count", "tryDump", "write"}]
          /\ msg \in [Workers -> Messages \cup {NoMsg}] /\ taken \in [Workers -> Entry]
      BY DEF TypeOK
    <2>3. TakePacket(w) => HandlerInv'
      BY <2>2 DEF TakePacket, HandlerInv
    <2>4. HandleEndFlag(w) => HandlerInv'
      BY <2>2 DEF HandleEndFlag, HandlerInv
    <2>5. CountReceived(w) => HandlerInv'
      BY <2>2 DEF CountReceived, HandlerInv
    <2>6. ParseMemoryChart(w) => HandlerInv'
      BY <2>2 DEF ParseMemoryChart, HandlerInv
    <2>7. TallyRecords(w) => HandlerInv'
      BY <2>2 DEF TallyRecords, HandlerInv
    <2>8. CountProcessed(w) => HandlerInv'
      BY <2>2 DEF CountProcessed, HandlerInv
    <2>9. TryDumpMemoryChartMetrics(w) => HandlerInv'
      BY <2>2 DEF TryDumpMemoryChartMetrics, HandlerInv
    <2>10. VerifyAndDump(w) => HandlerInv'
      BY <2>2 DEF VerifyAndDump, HandlerInv
    <2> QED
      BY <2>1, <2>3, <2>4, <2>5, <2>6, <2>7, <2>8, <2>9, <2>10 DEF Handler
  <1>3. CASE Main
    BY <1>3 DEF Main, BeginWaitParseTask, StopPool, DumpLeftovers, handlers, HandlerInv
  <1> QED
    BY <1>1, <1>2, <1>3 DEF Next

(* A packet is sent once: it is new, and nothing of it is anywhere.        *)
LEMMA ParsePacketInv ==
    ASSUME IInv, NEW c \in Clients, ParsePacket(c)
    PROVE  TokenInv' /\ RecordInv' /\ OnePlace' /\ PathInv'
  <1>0. TypeOK /\ TokenInv /\ HandlerInv /\ RecordInv /\ OnePlace /\ PathInv
    BY DEF IInv
  <1>1. PICK m \in Messages :
            /\ m.client = c
            /\ m.kernel = cursor[c][1]
            /\ ~m.end => m.record[3] = cursor[c][2]
            /\ queue' = Append(queue, m)
            /\ cursor' = [cursor EXCEPT ![c] =
                             IF m.end THEN <<@[1] + 1, 1>> ELSE <<@[1], @[2] + 1>>]
    BY <1>0, ParsePacketSends
  <1>2. UNCHANGED <<pc, msg, taken, metrics, files, lost>>
    BY DEF ParsePacket, handlers
  <1>3. cursor \in [Clients -> (Nat \ {0}) \X (Nat \ {0})] /\ queue \in Seq(Messages)
    BY <1>0 DEF TypeOK
  <1>4. ~Sent(m)
    BY <1>1, <1>3 DEF Sent, SentBefore
  <1>5. SentBefore(m, cursor')
    BY <1>1, <1>3 DEF SentBefore
  <1>6. \A n \in Messages : Sent(n) => SentBefore(n, cursor')
    <2> SUFFICES ASSUME NEW n \in Messages, Sent(n) PROVE SentBefore(n, cursor')
      OBVIOUS
    <2>1. n.client \in Clients /\ n.kernel \in Nat /\ (~n.end => n.record[3] \in Nat)
      BY MessageFacts
    <2>2. cursor[c] = <<cursor[c][1], cursor[c][2]>> /\ cursor[c][1] \in Nat
          /\ cursor[c][2] \in Nat
      BY <1>3
    <2>3. CASE n.client # c
      BY <1>1, <1>3, <2>1, <2>3 DEF Sent, SentBefore
    <2>4. CASE n.client = c
      <3>1. cursor'[c] = IF m.end THEN <<cursor[c][1] + 1, 1>>
                         ELSE <<cursor[c][1], cursor[c][2] + 1>>
        BY <1>1, <1>3
      <3> QED
        BY <2>1, <2>2, <2>4, <3>1 DEF Sent, SentBefore
    <2> QED
      BY <2>3, <2>4
  <1>7. /\ Len(queue') = Len(queue) + 1 /\ Len(queue) \in Nat
        /\ \A i \in 1..Len(queue) : queue'[i] = queue[i] /\ queue[i] \in Messages
        /\ queue'[Len(queue) + 1] = m
    BY <1>1, <1>3
  <1>8. \A w \in Workers : pc[w] # "idle" => msg[w] \in Messages
    BY <1>0 DEF TypeOK
  <1>9. TokenInv'
    <2>1. \A i \in 1..Len(queue) : queue[i] # m
      BY <1>0, <1>4 DEF TokenInv
    <2>2. \A w \in Workers : msg[w] # m
      <3> SUFFICES ASSUME NEW w \in Workers PROVE msg[w] # m
        OBVIOUS
      <3>1. CASE pc[w] = "idle"
        BY <1>0, <3>1, NullAssumption DEF TypeOK
      <3>2. CASE pc[w] # "idle"
        BY <1>0, <1>4, <3>2 DEF TokenInv
      <3> QED
        BY <3>1, <3>2
    <2>3. (\A i \in 1..Len(queue) : Sent(queue[i]))'
      <3> SUFFICES ASSUME NEW i \in 1..Len(queue') PROVE SentBefore(queue'[i], cursor')
        BY DEF Sent
      <3>1. CASE i \in 1..Len(queue)
        <4>1. queue'[i] = queue[i] /\ queue[i] \in Messages /\ Sent(queue[i])
          BY <1>0, <1>7, <3>1 DEF TokenInv
        <4> QED
          BY <1>6, <4>1
      <3>2. CASE i = Len(queue) + 1
        <4>1. queue'[i] = m
          BY <1>7, <3>2
        <4> QED
          BY <1>5, <4>1
      <3> QED
        BY <1>7, <3>1, <3>2
    <2>4. (\A i, j \in 1..Len(queue) : queue[i] = queue[j] => i = j)'
      BY <1>0, <1>7, <2>1 DEF TokenInv
    <2>5. (\A w \in Workers : pc[w] # "idle" => Sent(msg[w]))'
      <3> SUFFICES ASSUME NEW w \in Workers, pc[w] # "idle" PROVE SentBefore(msg[w], cursor')
        BY <1>2 DEF Sent
      <3> QED
        BY <1>0, <1>6, <1>8 DEF TokenInv
    <2>6. (\A w \in Workers, i \in 1..Len(queue) : queue[i] # msg[w])'
      BY <1>0, <1>2, <1>7, <2>2 DEF TokenInv
    <2>7. (\A v, w \in Workers : pc[v] # "idle" /\ msg[v] = msg[w] => v = w)'
      BY <1>0, <1>2 DEF TokenInv
    <2> QED
      BY <2>3, <2>4, <2>5, <2>6, <2>7 DEF TokenInv
  <1>10. OnePlace'
    BY <1>0, <1>2 DEF OnePlace, InEntry, InHand, At
  <1>11. \A r : Stored(r)' <=> Stored(r)
    BY <1>2 DEF Stored, InEntry, InHand, At
  <1>12. \A p : Used(p)' <=> Used(p)
    BY <1>2 DEF Used, At
  <1>13. RecordInv'
    <2>1. ~m.end => ~Stored(m.record)
      BY <1>0, <1>4 DEF RecordInv
    <2>2. (\A n \in Messages : ~n.end /\ Stored(n.record) => Sent(n))'
      BY <1>0, <1>6, <1>11 DEF RecordInv, Sent
    <2>3. (\A i \in 1..Len(queue) : ~queue[i].end => ~Stored(queue[i].record))'
      BY <1>0, <1>7, <1>11, <2>1 DEF RecordInv
    <2>4. (\A w \in Workers : Carries(w) /\ ~msg[w].end => ~Stored(msg[w].record))'
      BY <1>0, <1>2, <1>11 DEF RecordInv, Carries
    <2>5. (\A d \in Clients : \A r \in InEntry(d) : r[1] = d)'
      BY <1>0, <1>2 DEF RecordInv, InEntry, At
    <2> QED
      BY <2>2, <2>3, <2>4, <2>5 DEF RecordInv
  <1>14. PathInv'
    <2>1. m.end => ~Used(PathOf(m))
      BY <1>0, <1>4 DEF PathInv
    <2>2. (\A n \in Messages : n.end /\ Used(PathOf(n)) => Sent(n))'
      BY <1>0, <1>6, <1>12 DEF PathInv, PathOf, Sent
    <2>3. (\A i \in 1..Len(queue) : queue[i].end => ~Used(PathOf(queue[i])))'
      BY <1>0, <1>7, <1>12, <2>1 DEF PathInv, PathOf
    <2>4. (\A w \in Workers : Carries(w) /\ msg[w].end => ~Used(PathOf(msg[w])))'
      BY <1>0, <1>2, <1>12 DEF PathInv, Carries, PathOf
    <2> QED
      BY <1>0, <1>2, <2>2, <2>3, <2>4 DEF PathInv, At
  <1> QED
    BY <1>9, <1>10, <1>13, <1>14

LEMMA TakePacketInv ==
    ASSUME IInv, NEW w \in Workers, TakePacket(w)
    PROVE  TokenInv' /\ RecordInv' /\ OnePlace' /\ PathInv'
  <1>0. TypeOK /\ TokenInv /\ HandlerInv /\ RecordInv /\ OnePlace /\ PathInv
    BY DEF IInv
  <1>1. UNCHANGED <<cursor, taken, metrics, files, lost>>
    BY DEF TakePacket
  <1>2. queue \in Seq(Messages) /\ queue # <<>>
    BY <1>0 DEF TakePacket, TypeOK
  <1>3. /\ Len(queue') = Len(queue) - 1 /\ Len(queue) \in Nat
        /\ \A i \in 1..Len(queue') : queue'[i] = queue[i + 1] /\ i + 1 \in 1..Len(queue)
    BY <1>2 DEF TakePacket
  <1>4. msg'[w] = queue[1] /\ pc'[w] = "handle" /\ 1 \in 1..Len(queue)
    BY <1>0, <1>2 DEF TakePacket, TypeOK
  <1>5. \A v \in Workers \ {w} : msg'[v] = msg[v] /\ pc'[v] = pc[v]
    BY DEF TakePacket
  <1>6. \A m : Sent(m)' <=> Sent(m)
    BY <1>1 DEF Sent
  <1>7. TokenInv'
    <2>1. (\A i \in 1..Len(queue) : Sent(queue[i]))'
      BY <1>0, <1>1, <1>3 DEF TokenInv, Sent
    <2>2. (\A i, j \in 1..Len(queue) : queue[i] = queue[j] => i = j)'
      BY <1>0, <1>3 DEF TokenInv
    <2>3. (\A v \in Workers : pc[v] # "idle" => Sent(msg[v]))'
      <3> SUFFICES ASSUME NEW v \in Workers, pc'[v] # "idle" PROVE Sent(msg'[v])
        BY <1>1 DEF Sent
      <3>1. CASE v = w
        BY <1>0, <1>4, <3>1 DEF TokenInv
      <3>2. CASE v # w
        BY <1>0, <1>5, <3>2 DEF TokenInv
      <3> QED
        BY <3>1, <3>2
    <2>4. (\A v \in Workers, i \in 1..Len(queue) : queue[i] # msg[v])'
      <3> SUFFICES ASSUME NEW v \in Workers, NEW i \in 1..Len(queue')
                   PROVE  queue'[i] # msg'[v]
        OBVIOUS
      <3>1. queue'[i] = queue[i + 1] /\ i + 1 \in 1..Len(queue) /\ i + 1 # 1
        BY <1>3
      <3>2. CASE v = w
        BY <1>0, <1>4, <3>1, <3>2 DEF TokenInv
      <3>3. CASE v # w
        BY <1>0, <1>5, <3>1, <3>3 DEF TokenInv
      <3> QED
        BY <3>2, <3>3
    <2>5. (\A u, v \in Workers : pc[u] # "idle" /\ msg[u] = msg[v] => u = v)'
      BY <1>0, <1>4, <1>5 DEF TokenInv
    <2> QED
      BY <2>1, <2>2, <2>3, <2>4, <2>5 DEF TokenInv
  <1>8. OnePlace'
    BY <1>0, <1>1 DEF OnePlace, InEntry, InHand, At
  <1>9. \A r : Stored(r)' <=> Stored(r)
    BY <1>1 DEF Stored, InEntry, InHand, At
  <1>10. \A p : Used(p)' <=> Used(p)
    BY <1>1 DEF Used, At
  <1>11. RecordInv'
    <2>1. (\A m \in Messages : ~m.end /\ Stored(m.record) => Sent(m))'
      BY <1>0, <1>6, <1>9 DEF RecordInv
    <2>2. (\A i \in 1..Len(queue) : ~queue[i].end => ~Stored(queue[i].record))'
      BY <1>0, <1>3, <1>9 DEF RecordInv
    <2>3. (\A v \in Workers : Carries(v) /\ ~msg[v].end => ~Stored(msg[v].record))'
      BY <1>0, <1>4, <1>5, <1>9 DEF RecordInv, Carries
    <2> QED
      BY <1>0, <1>1, <2>1, <2>2, <2>3 DEF RecordInv, InEntry, At
  <1>12. PathInv'
    <2>1. (\A m \in Messages : m.end /\ Used(PathOf(m)) => Sent(m))'
      BY <1>0, <1>6, <1>10 DEF PathInv, PathOf
    <2>2. (\A i \in 1..Len(queue) : queue[i].end => ~Used(PathOf(queue[i])))'
      BY <1>0, <1>3, <1>10 DEF PathInv, PathOf
    <2>3. (\A v \in Workers : Carries(v) /\ msg[v].end => ~Used(PathOf(msg[v])))'
      BY <1>0, <1>4, <1>5, <1>10 DEF PathInv, Carries, PathOf
    <2> QED
      BY <1>0, <1>1, <2>1, <2>2, <2>3 DEF PathInv, At
  <1> QED
    BY <1>7, <1>8, <1>11, <1>12

(* The path of an end packet goes to the entry, in place of the one of a   *)
(* kernel before.                                                          *)
LEMMA HandleEndFlagInv ==
    ASSUME IInv, NEW w \in Workers, HandleEndFlag(w)
    PROVE  TokenInv' /\ RecordInv' /\ OnePlace' /\ PathInv'
  <1>0. TypeOK /\ TokenInv /\ HandlerInv /\ RecordInv /\ OnePlace /\ PathInv
    BY DEF IInv
  <1>1. AtWork(w)
    BY DEF AtWork
  <1>2. msg[w] \in Messages /\ msg[w].client \in Clients /\ PathOf(msg[w]) \in Paths
        /\ msg[w].end
    BY <1>0, <1>1, AtWorkMessage, MessageFacts DEF HandleEndFlag
  <1>c. PICK c \in Clients : c = msg[w].client
    BY <1>2
  <1>p. PICK p \in Paths : p = PathOf(msg[w])
    BY <1>2
  <1>3. PICK e \in Entry : e.path = p /\ e.records = At(c).records
                            /\ metrics' = [metrics EXCEPT ![c] = e]
    <2> DEFINE f == [At(c) EXCEPT !.endFlag = TRUE, !.path = p]
    <2>1. f \in Entry /\ f.path = p /\ f.records = At(c).records
      BY <1>0, AtType DEF Entry
    <2>2. metrics' = [metrics EXCEPT ![c] = f]
      BY <1>c, <1>p DEF HandleEndFlag, PathOf
    <2> QED
      BY <2>1, <2>2
  <1>5. UNCHANGED <<cursor, queue, taken, files, lost, msg>> /\ ThreadsGoOn
    BY <1>0, <1>1, AtWorkThreads DEF HandleEndFlag
  <1>6. Carries(w) /\ ~Carries(w)' /\ \A v \in Workers : Carries(v)' => Carries(v)
    BY <1>0 DEF HandleEndFlag, Carries, TypeOK
  <1>7. At(c)' = e /\ \A d \in Clients : d # c => At(d)' = At(d)
    BY <1>0, <1>3, EntryUpdate
  <1>8. \A d \in Clients : InEntry(d)' = InEntry(d)
    BY <1>3, <1>7 DEF InEntry
  <1>9. \A v \in Workers : InHand(v)' = InHand(v)
    BY <1>5 DEF InHand
  <1>10. TokenInv'
    BY <1>0, <1>5, TokensStay
  <1>11. OnePlace'
    BY <1>0, <1>5, <1>8, <1>9 DEF OnePlace
  <1>12. \A r : Stored(r)' <=> Stored(r)
    BY <1>5, <1>8, <1>9 DEF Stored
  <1>13. \A m : Sent(m)' <=> Sent(m)
    BY <1>5 DEF Sent
  <1>14. RecordInv'
    BY <1>0, <1>5, <1>6, <1>8, <1>12, <1>13 DEF RecordInv
  <1>15. \A q : Used(q)' => Used(q) \/ q = p
    BY <1>3, <1>5, <1>7 DEF Used
  <1>16. ~Used(p) /\ Sent(msg[w]) /\ p # NoPath
    BY <1>0, <1>2, <1>p, <1>6, NullAssumption DEF PathInv, TokenInv, HandleEndFlag
  <1>17. (\A m \in Messages : m.end /\ Used(PathOf(m)) => Sent(m))'
    <2> SUFFICES ASSUME NEW m \in Messages, m.end, Used(PathOf(m))' PROVE Sent(m)
      BY <1>13
    <2>1. CASE Used(PathOf(m))
      BY <1>0, <2>1 DEF PathInv
    <2>2. CASE PathOf(m) = p
      <3>1. m = msg[w]
        BY <1>2, <2>2, <1>p, SamePath
      <3> QED
        BY <1>16, <3>1
    <2> QED
      BY <1>15, <2>1, <2>2 DEF PathOf
  <1>18. (\A i \in 1..Len(queue) : queue[i].end => ~Used(PathOf(queue[i])))'
    <2> SUFFICES ASSUME NEW i \in 1..Len(queue), queue[i].end PROVE ~Used(PathOf(queue[i]))'
      BY <1>5 DEF PathOf
    <2>1. ~Used(PathOf(queue[i])) /\ queue[i] # msg[w] /\ queue[i] \in Messages
      BY <1>0, QueueMember DEF PathInv, TokenInv
    <2>2. PathOf(queue[i]) # p
      BY <1>2, <2>1, <1>p, SamePath
    <2> QED
      BY <1>5, <1>15, <2>1, <2>2 DEF PathOf
  <1>19. (\A v \in Workers : Carries(v) /\ msg[v].end => ~Used(PathOf(msg[v])))'
    <2> SUFFICES ASSUME NEW v \in Workers, Carries(v)', msg[v].end
                 PROVE  ~Used(PathOf(msg[v]))'
      BY <1>5
    <2>1. Carries(v) /\ v # w
      BY <1>6
    <2>2. pc[v] # "idle" /\ msg[v] \in Messages
      BY <1>0, <2>1 DEF Carries, TypeOK
    <2>3. msg[v] # msg[w] /\ ~Used(PathOf(msg[v]))
      BY <1>0, <2>1, <2>2 DEF TokenInv, PathInv
    <2>4. PathOf(msg[v]) # p
      BY <1>2, <2>2, <2>3, <1>p, SamePath
    <2> QED
      BY <1>5, <1>15, <2>3, <2>4 DEF PathOf
  <1>20. \A d \in Clients : At(d).path # p
    BY <1>16 DEF Used
  <1>21. \A v \in Workers : taken[v].path # p
    BY <1>16 DEF Used
  <1>22. files[p] = {}
    BY <1>16 DEF Used
  <1>23. (\A d, f \in Clients : At(d).path = At(f).path /\ d # f => At(d).path = NoPath)'
    BY <1>0, <1>3, <1>7, <1>20 DEF PathInv
  <1>24. (\A d \in Clients, v \in Workers :
            At(d).path = taken[v].path => At(d).path = NoPath)'
    BY <1>0, <1>3, <1>5, <1>7, <1>21 DEF PathInv
  <1>25. (\A q \in Paths : files[q] # {} =>
            /\ \A d \in Clients : At(d).path # q
            /\ \A v \in Workers : taken[v].path # q)'
    BY <1>0, <1>3, <1>5, <1>7, <1>22 DEF PathInv
  <1>26. PathInv'
    BY <1>0, <1>5, <1>17, <1>18, <1>19, <1>23, <1>24, <1>25 DEF PathInv
  <1> QED
    BY <1>10, <1>11, <1>14, <1>26

(* The record of a data packet goes to the entry of its client.            *)
LEMMA ParseMemoryChartInv ==
    ASSUME IInv, NEW w \in Workers, ParseMemoryChart(w)
    PROVE  TokenInv' /\ RecordInv' /\ OnePlace' /\ PathInv'
  <1>0. TypeOK /\ TokenInv /\ HandlerInv /\ RecordInv /\ OnePlace /\ PathInv
    BY DEF IInv
  <1>1. AtWork(w)
    BY DEF AtWork
  <1>2. /\ msg[w] \in Messages /\ msg[w].client \in Clients /\ ~msg[w].end
        /\ msg[w].record \in Records /\ msg[w].record[1] = msg[w].client
    <2>1. msg[w] \in Messages /\ ~msg[w].end
      BY <1>0, <1>1, AtWorkMessage DEF HandlerInv, ParseMemoryChart
    <2> QED
      BY <2>1, MessageFacts
  <1>c. PICK c \in Clients : c = msg[w].client
    BY <1>2
  <1>r. PICK r \in Records : r = msg[w].record
    BY <1>2
  <1>5. UNCHANGED <<cursor, queue, taken, files, lost, msg>> /\ ThreadsGoOn
    BY <1>0, <1>1, AtWorkThreads DEF ParseMemoryChart
  <1>6. Carries(w) /\ ~Carries(w)' /\ \A v \in Workers : Carries(v)' => Carries(v)
    BY <1>0 DEF ParseMemoryChart, Carries, TypeOK
  <1>7. CASE UNCHANGED metrics
    <2>1. Still
      BY <1>5, <1>7 DEF Still, At
    <2> QED
      BY <1>0, <1>5, <2>1, TokensStay, StillRecords, StillPaths
  <1>8. CASE /\ metrics[c] # NoEntry
             /\ metrics' = [metrics EXCEPT ![c].records = @ \cup {r}]
    <2>1. PICK e \in Entry : /\ e.path = At(c).path
                             /\ e.records = At(c).records \cup {r}
                             /\ metrics' = [metrics EXCEPT ![c] = e]
      <3> DEFINE f == [metrics[c] EXCEPT !.records = @ \cup {r}]
      <3>1. metrics[c] \in Entry /\ At(c) = metrics[c]
        BY <1>0, <1>8 DEF TypeOK, At
      <3>2. f \in Entry /\ f.path = At(c).path /\ f.records = At(c).records \cup {r}
        BY <3>1 DEF Entry
      <3>3. metrics' = [metrics EXCEPT ![c] = f]
        BY <1>0, <1>8 DEF TypeOK
      <3> QED
        BY <3>2, <3>3
    <2>2. At(c)' = e /\ \A d \in Clients : d # c => At(d)' = At(d)
      BY <1>0, <2>1, EntryUpdate
    <2>3. \A d \in Clients : InEntry(d)' = IF d = c THEN InEntry(d) \cup {r} ELSE InEntry(d)
      BY <2>1, <2>2 DEF InEntry
    <2>4. \A v \in Workers : InHand(v)' = InHand(v)
      BY <1>5 DEF InHand
    <2>5. \A d \in Clients : At(d)'.path = At(d).path
      BY <2>1, <2>2
    <2>6. ~Stored(r) /\ Sent(msg[w])
      BY <1>0, <1>2, <1>r, <1>6 DEF RecordInv, TokenInv, ParseMemoryChart
    <2>7. \A x : Stored(x)' => Stored(x) \/ x = r
      BY <1>5, <2>3, <2>4 DEF Stored
    <2>8. \A m : Sent(m)' <=> Sent(m)
      BY <1>5 DEF Sent
    <2>9. TokenInv'
      BY <1>0, <1>5, TokensStay
    <2>10. OnePlace'
      <3>1. /\ \A v \in Workers : r \notin InHand(v)
            /\ \A p \in Paths : r \notin files[p]
            /\ r \notin lost
        BY <2>6 DEF Stored
      <3>2. (\A d \in Clients, v \in Workers : InEntry(d) \cap InHand(v) = {})'
        BY <1>0, <2>3, <2>4, <3>1 DEF OnePlace
      <3>3. (\A u, v \in Workers : u # v => InHand(u) \cap InHand(v) = {})'
        BY <1>0, <2>4 DEF OnePlace
      <3>4. (\A p \in Paths :
                /\ \A d \in Clients : InEntry(d) \cap files[p] = {}
                /\ \A v \in Workers : InHand(v) \cap files[p] = {}
                /\ \A q \in Paths : p # q => files[p] \cap files[q] = {}
                /\ files[p] \cap lost = {})'
        BY <1>0, <1>5, <2>3, <2>4, <3>1 DEF OnePlace
      <3>5. (\A d \in Clients : InEntry(d) \cap lost = {})'
        BY <1>0, <1>5, <2>3, <3>1 DEF OnePlace
      <3>6. (\A v \in Workers : InHand(v) \cap lost = {})'
        BY <1>0, <1>5, <2>4 DEF OnePlace
      <3> QED
        BY <3>2, <3>3, <3>4, <3>5, <3>6 DEF OnePlace
    <2>11. RecordInv'
      <3>1. (\A m \in Messages : ~m.end /\ Stored(m.record) => Sent(m))'
        <4> SUFFICES ASSUME NEW m \in Messages, ~m.end, Stored(m.record)' PROVE Sent(m)
          BY <2>8
        <4>1. CASE Stored(m.record)
          BY <1>0, <4>1 DEF RecordInv
        <4>2. CASE m.record = r
          <5>1. m = msg[w]
            BY <1>2, <1>r, <4>2, SameRecord
          <5> QED
            BY <2>6, <5>1
        <4> QED
          BY <2>7, <4>1, <4>2
      <3>2. (\A i \in 1..Len(queue) : ~queue[i].end => ~Stored(queue[i].record))'
        <4> SUFFICES ASSUME NEW i \in 1..Len(queue), ~queue[i].end
                     PROVE  ~Stored(queue[i].record)'
          BY <1>5
        <4>1. ~Stored(queue[i].record) /\ queue[i] # msg[w] /\ queue[i] \in Messages
          BY <1>0, QueueMember DEF RecordInv, TokenInv
        <4>2. queue[i].record # r
          BY <1>2, <1>r, <4>1, SameRecord
        <4> QED
          BY <1>5, <2>7, <4>1, <4>2
      <3>3. (\A v \in Workers : Carries(v) /\ ~msg[v].end => ~Stored(msg[v].record))'
        <4> SUFFICES ASSUME NEW v \in Workers, Carries(v)', ~msg[v].end
                     PROVE  ~Stored(msg[v].record)'
          BY <1>5
        <4>1. Carries(v) /\ v # w
          BY <1>6
        <4>2. pc[v] # "idle" /\ msg[v] \in Messages
          BY <1>0, <4>1 DEF Carries, TypeOK
        <4>3. msg[v] # msg[w] /\ ~Stored(msg[v].record)
          BY <1>0, <4>1, <4>2 DEF TokenInv, RecordInv
        <4>4. msg[v].record # r
          BY <1>2, <1>r, <4>2, <4>3, SameRecord
        <4> QED
          BY <1>5, <2>7, <4>3, <4>4
      <3>4. (\A d \in Clients : \A x \in InEntry(d) : x[1] = d)'
        BY <1>0, <1>2, <1>c, <1>r, <2>3 DEF RecordInv
      <3> QED
        BY <3>1, <3>2, <3>3, <3>4 DEF RecordInv
    <2>12. PathInv'
      <3>1. \A p : Used(p)' <=> Used(p)
        BY <1>5, <2>5 DEF Used
      <3>2. (\A m \in Messages : m.end /\ Used(PathOf(m)) => Sent(m))'
        BY <1>0, <2>8, <3>1 DEF PathInv, PathOf
      <3>3. (\A i \in 1..Len(queue) : queue[i].end => ~Used(PathOf(queue[i])))'
        BY <1>0, <1>5, <3>1 DEF PathInv, PathOf
      <3>4. (\A v \in Workers : Carries(v) /\ msg[v].end => ~Used(PathOf(msg[v])))'
        BY <1>0, <1>5, <1>6, <3>1 DEF PathInv, PathOf
      <3> QED
        BY <1>0, <1>5, <2>5, <3>2, <3>3, <3>4 DEF PathInv
    <2> QED
      BY <2>9, <2>10, <2>11, <2>12
  <1> QED
    BY <1>7, <1>8, <1>c, <1>r DEF ParseMemoryChart

(* What a thread that takes an entry, one that writes it and WaitParseTask *)
(* have in common: records and paths only leave places.                    *)
Moves ==
    /\ UNCHANGED <<cursor, queue>>
    /\ ThreadsGoOn
    /\ \A r : Stored(r)' => Stored(r)
    /\ \A p \in Paths : Used(p)' => Used(p)
    /\ \A c \in Clients : At(c)' = At(c) \/ At(c)' = EmptyEntry

LEMMA MovesKeep ==
    ASSUME IInv, Moves
    PROVE  /\ TokenInv' /\ RecordInv'
           /\ (\A m \in Messages : m.end /\ Used(PathOf(m)) => Sent(m))'
           /\ (\A i \in 1..Len(queue) : queue[i].end => ~Used(PathOf(queue[i])))'
           /\ (\A w \in Workers : Carries(w) /\ msg[w].end => ~Used(PathOf(msg[w])))'
  <1>0. TypeOK /\ TokenInv /\ RecordInv /\ PathInv
    BY DEF IInv
  <1>1. TokenInv'
    BY <1>0, TokensStay DEF Moves
  <1>2. \A w \in Workers : Carries(w)' => Carries(w) /\ msg'[w] = msg[w]
    BY DEF Moves, ThreadsGoOn, Carries
  <1>3. \A m : Sent(m)' <=> Sent(m)
    BY DEF Moves, Sent
  <1>4. \A w \in Workers : Carries(w) => msg[w] \in Messages
    BY <1>0 DEF TypeOK, Carries
  <1>5. RecordInv'
    <2>1. (\A m \in Messages : ~m.end /\ Stored(m.record) => Sent(m))'
      BY <1>0, <1>3 DEF RecordInv, Moves
    <2>2. (\A i \in 1..Len(queue) : ~queue[i].end => ~Stored(queue[i].record))'
      BY <1>0 DEF RecordInv, Moves
    <2>3. (\A w \in Workers : Carries(w) /\ ~msg[w].end => ~Stored(msg[w].record))'
      BY <1>0, <1>2 DEF RecordInv, Moves
    <2>4. (\A c \in Clients : \A r \in InEntry(c) : r[1] = c)'
      BY <1>0 DEF RecordInv, Moves, InEntry, EmptyEntry
    <2> QED
      BY <2>1, <2>2, <2>3, <2>4 DEF RecordInv
  <1>6. (\A m \in Messages : m.end /\ Used(PathOf(m)) => Sent(m))'
    BY <1>0, <1>3, MessageFacts DEF PathInv, Moves, PathOf
  <1>7. (\A i \in 1..Len(queue) : queue[i].end => ~Used(PathOf(queue[i])))'
    <2> SUFFICES ASSUME NEW i \in 1..Len(queue), queue[i].end PROVE ~Used(PathOf(queue[i]))'
      BY DEF Moves, PathOf
    <2>1. ~Used(PathOf(queue[i])) /\ PathOf(queue[i]) \in Paths
      BY <1>0, QueueMember, MessageFacts DEF PathInv
    <2> QED
      BY <2>1 DEF Moves, PathOf
  <1>8. (\A w \in Workers : Carries(w) /\ msg[w].end => ~Used(PathOf(msg[w])))'
    <2> SUFFICES ASSUME NEW w \in Workers, Carries(w)', msg'[w].end
                 PROVE  ~Used(PathOf(msg[w]))'
      OBVIOUS
    <2>1. Carries(w) /\ msg'[w] = msg[w] /\ msg[w] \in Messages
      BY <1>2, <1>4
    <2>2. ~Used(PathOf(msg[w])) /\ PathOf(msg[w]) \in Paths
      BY <1>0, <2>1, MessageFacts DEF PathInv
    <2> QED
      BY <2>1, <2>2 DEF Moves, PathOf
  <1> QED
    BY <1>1, <1>5, <1>6, <1>7, <1>8

(* An entry is moved out of the map, into the hands of the thread.         *)
LEMMA TakeEntryInv ==
    ASSUME IInv, NEW w \in Workers, TryDumpMemoryChartMetrics(w)
    PROVE  TokenInv' /\ RecordInv' /\ OnePlace' /\ PathInv'
  <1>0. TypeOK /\ TokenInv /\ HandlerInv /\ RecordInv /\ OnePlace /\ PathInv
    BY DEF IInv
  <1>1. AtWork(w)
    BY DEF AtWork
  <1>2. msg[w].client \in Clients
    BY <1>0, <1>1, AtWorkMessage
  <1>c. PICK c \in Clients : c = msg[w].client
    BY <1>2
  <1>3. CASE taken' = taken /\ pc'[w] = "idle"
    <2>1. Still
      BY <1>0, <1>3, CountingIsStill
    <2>2. UNCHANGED <<cursor, queue>> /\ ThreadsGoOn
      BY <2>1 DEF Still
    <2> QED
      BY <1>0, <2>1, <2>2, TokensStay, StillRecords, StillPaths
  <1>4. CASE /\ taken' = [taken EXCEPT ![w] = At(c)]
             /\ metrics' = [metrics EXCEPT ![c] = NoEntry]
    <2>1. UNCHANGED <<cursor, queue, files, lost>> /\ ThreadsGoOn
      BY <1>0, <1>1, AtWorkThreads DEF TryDumpMemoryChartMetrics
    <2>2. At(c)' = EmptyEntry /\ \A d \in Clients : d # c => At(d)' = At(d)
      BY <1>0, <1>4 DEF TypeOK, At
    <2>3. taken[w] = EmptyEntry /\ taken'[w] = At(c)
          /\ \A v \in Workers : v # w => taken'[v] = taken[v]
      BY <1>0, <1>4 DEF TypeOK, HandlerInv, TryDumpMemoryChartMetrics
    <2>4. /\ InEntry(c)' = {} /\ InHand(w)' = InEntry(c)
          /\ \A d \in Clients : d # c => InEntry(d)' = InEntry(d)
          /\ \A v \in Workers : v # w => InHand(v)' = InHand(v)
      BY <2>2, <2>3 DEF InEntry, InHand, EmptyEntry
    <2>5. \A d \in Clients : d # c => InEntry(d) \cap InEntry(c) = {}
      BY <1>0 DEF RecordInv
    <2>6. OnePlace'
      <3>1. (\A d \in Clients, v \in Workers : InEntry(d) \cap InHand(v) = {})'
        BY <1>0, <2>4, <2>5 DEF OnePlace
      <3>2. (\A u, v \in Workers : u # v => InHand(u) \cap InHand(v) = {})'
        BY <1>0, <2>4 DEF OnePlace
      <3>3. (\A p \in Paths :
                /\ \A d \in Clients : InEntry(d) \cap files[p] = {}
                /\ \A v \in Workers : InHand(v) \cap files[p] = {}
                /\ \A q \in Paths : p # q => files[p] \cap files[q] = {}
                /\ files[p] \cap lost = {})'
        BY <1>0, <2>1, <2>4 DEF OnePlace
      <3>4. (\A d \in Clients : InEntry(d) \cap lost = {})'
        BY <1>0, <2>1, <2>4 DEF OnePlace
      <3>5. (\A v \in Workers : InHand(v) \cap lost = {})'
        BY <1>0, <2>1, <2>4 DEF OnePlace
      <3> QED
        BY <3>1, <3>2, <3>3, <3>4, <3>5 DEF OnePlace
    <2>7. Moves
      <3>1. \A r : Stored(r)' => Stored(r)
        BY <2>1, <2>4 DEF Stored
      <3>2. \A p \in Paths : Used(p)' => Used(p)
        BY <2>1, <2>2, <2>3, NullAssumption DEF Used, EmptyEntry
      <3> QED
        BY <2>1, <2>2, <3>1, <3>2 DEF Moves
    <2>8. (\A d, e \in Clients : At(d).path = At(e).path /\ d # e => At(d).path = NoPath)'
      BY <1>0, <2>2 DEF PathInv, EmptyEntry
    <2>9. (\A d \in Clients, v \in Workers :
             At(d).path = taken[v].path => At(d).path = NoPath)'
      <3> SUFFICES ASSUME NEW d \in Clients, NEW v \in Workers,
                          At(d)'.path = taken'[v].path
                   PROVE  At(d)'.path = NoPath
        OBVIOUS
      <3>1. CASE d = c
        BY <2>2, <3>1 DEF EmptyEntry
      <3>2. CASE d # c /\ v = w
        BY <1>0, <2>2, <2>3, <3>2 DEF PathInv
      <3>3. CASE d # c /\ v # w
        BY <1>0, <2>2, <2>3, <3>3 DEF PathInv
      <3> QED
        BY <3>1, <3>2, <3>3
    <2>10. (\A u, v \in Workers :
              u # v /\ taken[u].path = taken[v].path => taken[u].path = NoPath)'
      BY <1>0, <2>3 DEF PathInv
    <2>11. (\A p \in Paths : files[p] # {} =>
              /\ \A d \in Clients : At(d).path # p
              /\ \A v \in Workers : taken[v].path # p)'
      BY <1>0, <2>1, <2>2, <2>3, NullAssumption DEF PathInv, EmptyEntry
    <2>12. PathInv'
      BY <2>7, <2>8, <2>9, <2>10, <2>11, MovesKeep DEF PathInv
    <2> QED
      BY <2>6, <2>7, <2>12, MovesKeep
  <1>5. pc \in [Workers -> {"idle", "handle", "parse", "tally", "count", "tryDump", "write"}]
    BY <1>0 DEF TypeOK
  <1> QED
    BY <1>3, <1>4, <1>5, <1>c DEF TryDumpMemoryChartMetrics

(* A thread writes or refuses what it holds.                               *)
LEMMA VerifyAndDumpInv ==
    ASSUME IInv, NEW w \in Workers, VerifyAndDump(w)
    PROVE  TokenInv' /\ RecordInv' /\ OnePlace' /\ PathInv'
  <1>0. TypeOK /\ TokenInv /\ HandlerInv /\ RecordInv /\ OnePlace /\ PathInv
    BY DEF IInv
  <1>1. UNCHANGED <<cursor, queue, metrics>> /\ ThreadsGoOn
    BY <1>0, AtWorkThreads DEF VerifyAndDump, AtWork
  <1>2. taken'[w] = EmptyEntry /\ \A v \in Workers : v # w => taken'[v] = taken[v]
    BY <1>0 DEF VerifyAndDump, TypeOK
  <1>3. \A c \in Clients : At(c)' = At(c)
    BY <1>1 DEF At
  <1>4. /\ \A c \in Clients : InEntry(c)' = InEntry(c)
        /\ InHand(w)' = {}
        /\ \A v \in Workers : v # w => InHand(v)' = InHand(v)
    BY <1>2, <1>3 DEF InEntry, InHand, EmptyEntry
  <1>5. \/ files' = files /\ lost' = lost
        \/ files' = files /\ lost' = lost \cup InHand(w) /\ taken[w].path = NoPath
        \/ /\ lost' = lost /\ taken[w].path \in Paths /\ InHand(w) # {}
           /\ files' = [files EXCEPT ![taken[w].path] = InHand(w)]
    BY <1>0 DEF VerifyAndDump, Written, Refused, InHand, TypeOK, Entry
  <1>6. files \in [Paths -> SUBSET Records]
    BY <1>0 DEF TypeOK
  <1>7. \A p \in Paths : \/ files'[p] = files[p]
                         \/ p = taken[w].path /\ files'[p] = InHand(w) /\ lost' = lost
                            /\ InHand(w) # {}
    BY <1>5, <1>6
  <1>8. \/ lost' = lost
        \/ files' = files /\ lost' = lost \cup InHand(w)
    BY <1>5
  <1>9. OnePlace'
    <2>1. (\A d \in Clients, v \in Workers : InEntry(d) \cap InHand(v) = {})'
      BY <1>0, <1>4 DEF OnePlace
    <2>2. (\A u, v \in Workers : u # v => InHand(u) \cap InHand(v) = {})'
      BY <1>0, <1>4 DEF OnePlace
    <2>3. ASSUME NEW p \in Paths
          PROVE  /\ \A d \in Clients : InEntry(d)' \cap files'[p] = {}
                 /\ \A v \in Workers : InHand(v)' \cap files'[p] = {}
                 /\ files'[p] \cap lost' = {}
      <3>1. CASE files'[p] = files[p]
        BY <1>0, <1>4, <1>8, <3>1 DEF OnePlace
      <3>2. CASE files'[p] = InHand(w) /\ lost' = lost
        BY <1>0, <1>4, <3>2 DEF OnePlace
      <3> QED
        BY <1>7, <3>1, <3>2
    <2>4. ASSUME NEW p \in Paths, NEW q \in Paths, p # q
          PROVE  files'[p] \cap files'[q] = {}
      BY <1>0, <1>7, <2>4 DEF OnePlace
    <2>5. (\A d \in Clients : InEntry(d) \cap lost = {})'
      BY <1>0, <1>4, <1>8 DEF OnePlace
    <2>6. (\A v \in Workers : InHand(v) \cap lost = {})'
      BY <1>0, <1>4, <1>8 DEF OnePlace
    <2> QED
      BY <2>1, <2>2, <2>3, <2>4, <2>5, <2>6 DEF OnePlace
  <1>10. Moves
    <2>1. \A r : Stored(r)' => Stored(r)
      BY <1>4, <1>7, <1>8 DEF Stored
    <2>2. \A p \in Paths : Used(p)' => Used(p)
      BY <1>2, <1>3, <1>7, NullAssumption DEF Used, EmptyEntry
    <2> QED
      BY <1>1, <1>3, <2>1, <2>2 DEF Moves
  <1>11. (\A c, d \in Clients : At(c).path = At(d).path /\ c # d => At(c).path = NoPath)'
    BY <1>0, <1>3 DEF PathInv
  <1>12. (\A c \in Clients, v \in Workers :
            At(c).path = taken[v].path => At(c).path = NoPath)'
    <2> SUFFICES ASSUME NEW c \in Clients, NEW v \in Workers, At(c)'.path = taken'[v].path
                 PROVE  At(c)'.path = NoPath
      OBVIOUS
    <2>1. CASE v = w
      BY <1>2, <2>1 DEF EmptyEntry
    <2>2. CASE v # w
      BY <1>0, <1>2, <1>3, <2>2 DEF PathInv
    <2> QED
      BY <2>1, <2>2
  <1>13. (\A u, v \in Workers :
            u # v /\ taken[u].path = taken[v].path => taken[u].path = NoPath)'
    BY <1>0, <1>2 DEF PathInv, EmptyEntry
  <1>14. (\A p \in Paths : files[p] # {} =>
            /\ \A c \in Clients : At(c).path # p
            /\ \A v \in Workers : taken[v].path # p)'
    <2> SUFFICES ASSUME NEW p \in Paths, files'[p] # {}
                 PROVE  /\ \A c \in Clients : At(c)'.path # p
                        /\ \A v \in Workers : taken'[v].path # p
      OBVIOUS
    <2>1. taken'[w].path # p
      BY <1>2, NullAssumption DEF EmptyEntry
    <2>2. CASE files'[p] = files[p]
      BY <1>0, <1>2, <1>3, <2>1, <2>2 DEF PathInv
    <2>3. CASE p = taken[w].path
      <3>1. p # NoPath
        BY NullAssumption
      <3>2. \A c \in Clients : At(c).path # p
        BY <1>0, <2>3, <3>1 DEF PathInv
      <3>3. \A v \in Workers : v # w => taken[v].path # p
        BY <1>0, <2>3, <3>1 DEF PathInv
      <3> QED
        BY <1>2, <1>3, <2>1, <3>2, <3>3
    <2> QED
      BY <1>7, <2>2, <2>3
  <1>15. PathInv'
    BY <1>10, <1>11, <1>12, <1>13, <1>14, MovesKeep DEF PathInv
  <1> QED
    BY <1>9, <1>10, <1>15, MovesKeep

(* WaitParseTask writes or refuses the entries that are left.              *)
LEMMA DumpLeftoversInv ==
    ASSUME IInv, DumpLeftovers
    PROVE  TokenInv' /\ RecordInv' /\ OnePlace' /\ PathInv'
  <1>0. TypeOK /\ TokenInv /\ HandlerInv /\ RecordInv /\ OnePlace /\ PathInv
    BY DEF IInv
  <1>1. UNCHANGED <<cursor, queue, pc, msg, taken>> /\ ThreadsGoOn
    BY DEF DumpLeftovers, handlers, ThreadsGoOn
  <1>2. \A w \in Workers : taken[w] = EmptyEntry
    BY <1>0 DEF DumpLeftovers, HandlerInv
  <1>3. \A c \in Clients : At(c)' = EmptyEntry
    BY DEF DumpLeftovers, At
  <1>4. /\ \A c \in Clients : InEntry(c)' = {}
        /\ \A w \in Workers : InHand(w)' = {}
    BY <1>1, <1>2, <1>3 DEF InEntry, InHand, EmptyEntry
  <1>5. \A p \in Paths :
            \/ files'[p] = files[p]
            \/ /\ files'[p] = InEntry(p[1]) /\ At(p[1]).path = p
               /\ p[1] \in Clients /\ InEntry(p[1]) # {}
    BY PathFacts DEF DumpLeftovers, InEntry
  <1>6. \A r \in lost' : r \in lost \/ \E c \in Clients : r \in InEntry(c) /\ At(c).path = NoPath
    BY DEF DumpLeftovers, Refused, InEntry
  <1>7. \A c, d \in Clients : c # d => InEntry(c) \cap InEntry(d) = {}
    BY <1>0 DEF RecordInv
  <1>8. OnePlace'
    <2>1. ASSUME NEW p \in Paths PROVE files'[p] \cap lost' = {}
      <3>1. CASE files'[p] = files[p]
        BY <1>0, <1>6, <3>1 DEF OnePlace
      <3>2. CASE /\ files'[p] = InEntry(p[1]) /\ At(p[1]).path = p /\ p[1] \in Clients
        BY <1>0, <1>6, <1>7, <3>2, NullAssumption DEF OnePlace
      <3> QED
        BY <1>5, <3>1, <3>2
    <2>2. ASSUME NEW p \in Paths, NEW q \in Paths, p # q
          PROVE  files'[p] \cap files'[q] = {}
      <3>1. CASE files'[p] = files[p] /\ files'[q] = files[q]
        BY <1>0, <2>2, <3>1 DEF OnePlace
      <3>2. CASE files'[p] = files[p] /\ files'[q] = InEntry(q[1]) /\ q[1] \in Clients
        BY <1>0, <3>2 DEF OnePlace
      <3>3. CASE files'[q] = files[q] /\ files'[p] = InEntry(p[1]) /\ p[1] \in Clients
        BY <1>0, <3>3 DEF OnePlace
      <3>4. CASE /\ files'[p] = InEntry(p[1]) /\ At(p[1]).path = p /\ p[1] \in Clients
                 /\ files'[q] = InEntry(q[1]) /\ At(q[1]).path = q /\ q[1] \in Clients
        <4>1. p[1] # q[1]
          BY <2>2, <3>4
        <4> QED
          BY <1>7, <3>4, <4>1
      <3> QED
        BY <1>5, <3>1, <3>2, <3>3, <3>4
    <2> QED
      BY <1>4, <2>1, <2>2 DEF OnePlace
  <1>9. Moves
    <2>1. \A r : Stored(r)' => Stored(r)
      <3> SUFFICES ASSUME NEW r, Stored(r)' PROVE Stored(r)
        OBVIOUS
      <3>1. CASE \E p \in Paths : r \in files'[p]
        BY <1>5, <3>1 DEF Stored
      <3>2. CASE r \in lost'
        BY <1>6, <3>2 DEF Stored
      <3> QED
        BY <1>4, <3>1, <3>2 DEF Stored
    <2>2. \A p \in Paths : Used(p)' => Used(p)
      BY <1>1, <1>3, <1>5, NullAssumption DEF Used, EmptyEntry
    <2> QED
      BY <1>1, <1>3, <2>1, <2>2 DEF Moves
  <1>10. \A c \in Clients, w \in Workers : At(c)'.path = NoPath /\ taken'[w].path = NoPath
    BY <1>1, <1>2, <1>3 DEF EmptyEntry
  <1>11. \A c \in Clients : At(c)'.path = NoPath
    BY <1>3 DEF EmptyEntry
  <1>12. \A w \in Workers : taken'[w].path = NoPath
    BY <1>1, <1>2 DEF EmptyEntry
  <1>13. PathInv'
    BY <1>9, <1>11, <1>12, MovesKeep, NullAssumption DEF PathInv
  <1> QED
    BY <1>8, <1>9, <1>13, MovesKeep
-----------------------------------------------------------------------------
LEMMA InitIInv == Init => IInv
  <1> SUFFICES ASSUME Init PROVE IInv
    OBVIOUS
  <1>1. TypeOK
    BY InitType
  <1>2. /\ Len(queue) = 0
        /\ \A w \in Workers : pc[w] = "idle" /\ msg[w] = NoMsg /\ taken[w] = EmptyEntry
        /\ \A c \in Clients : At(c) = EmptyEntry
        /\ \A p \in Paths : files[p] = {}
        /\ lost = {}
    BY DEF Init, At
  <1>3. TokenInv
    BY <1>2 DEF TokenInv
  <1>4. HandlerInv
    BY <1>2 DEF HandlerInv
  <1>5. \A c \in Clients : InEntry(c) = {}
    BY <1>2 DEF InEntry, EmptyEntry
  <1>6. \A w \in Workers : InHand(w) = {}
    BY <1>2 DEF InHand, EmptyEntry
  <1>7. \A r : ~Stored(r)
    BY <1>2, <1>5, <1>6 DEF Stored
  <1>8. RecordInv
    BY <1>2, <1>5, <1>7 DEF RecordInv
  <1>9. OnePlace
    BY <1>2, <1>5, <1>6 DEF OnePlace
  <1>10. \A c \in Clients : At(c).path = NoPath
    BY <1>2 DEF EmptyEntry
  <1>11. \A w \in Workers : taken[w].path = NoPath
    BY <1>2 DEF EmptyEntry
  <1>12. \A p \in Paths : ~Used(p)
    BY <1>2, <1>10, <1>11, NullAssumption DEF Used
  <1>13. PathInv
    <2>1. \A m \in Messages : ~Used(PathOf(m))
      BY <1>12, MessageFacts
    <2>2. 1..Len(queue) = {}
      BY <1>2
    <2>3. \A w \in Workers : ~Carries(w)
      BY <1>2 DEF Carries
    <2> QED
      BY <1>2, <1>10, <1>11, <2>1, <2>2, <2>3 DEF PathInv
  <1> QED
    BY <1>1, <1>3, <1>4, <1>8, <1>9, <1>13 DEF IInv

LEMMA NextIInv == IInv /\ [Next]_vars => IInv'
  <1> SUFFICES ASSUME IInv, [Next]_vars PROVE IInv'
    OBVIOUS
  <1>0. TypeOK /\ HandlerInv /\ TokenInv /\ RecordInv /\ OnePlace /\ PathInv
    BY DEF IInv
  <1>1. ASSUME Still PROVE TokenInv' /\ RecordInv' /\ OnePlace' /\ PathInv'
    BY <1>0, <1>1, TokensStay, StillRecords, StillPaths DEF Still
  <1>2. CASE UNCHANGED vars
    <2>1. TypeOK' /\ HandlerInv'
      BY <1>0, <1>2 DEF TypeOK, HandlerInv, vars, handlers
    <2> QED
      BY <1>1, <1>2, <2>1, WaitingIsStill DEF IInv
  <1>3. CASE Next
    <2>1. HandlerInv'
      BY <1>0, <1>3, HandlerInvStep
    <2>2. CASE \E c \in Clients : ParsePacket(c)
      BY <1>0, <2>1, <2>2, ParsePacketType, ParsePacketInv DEF IInv
    <2>3. CASE \E w \in Workers : Handler(w)
      <3>1. PICK w \in Workers : Handler(w)
        BY <2>3
      <3>2. CASE TakePacket(w)
        BY <1>0, <2>1, <3>2, TakePacketType, TakePacketInv DEF IInv
      <3>3. CASE AtWork(w)
        <4>1. TypeOK'
          BY <1>0, <3>3, AtWorkType
        <4>2. CASE CountReceived(w) \/ TallyRecords(w) \/ CountProcessed(w)
          BY <1>0, <1>1, <2>1, <4>1, <4>2, CountingIsStill DEF IInv
        <4>3. CASE ~(CountReceived(w) \/ TallyRecords(w) \/ CountProcessed(w))
          BY <2>1, <3>3, <4>1, <4>3, HandleEndFlagInv, ParseMemoryChartInv,
             TakeEntryInv, VerifyAndDumpInv DEF IInv, AtWork
        <4> QED
          BY <4>2, <4>3
      <3> QED
        BY <3>1, <3>2, <3>3 DEF Handler, AtWork
    <2>4. CASE Main
      <3>1. TypeOK'
        BY <1>0, <2>4, MainType
      <3>2. CASE BeginWaitParseTask \/ StopPool
        BY <1>1, <2>1, <3>1, <3>2, WaitingIsStill DEF IInv
      <3>3. CASE DumpLeftovers
        BY <2>1, <3>1, <3>3, DumpLeftoversInv DEF IInv
      <3> QED
        BY <2>4, <3>2, <3>3 DEF Main
    <2> QED
      BY <1>3, <2>2, <2>3, <2>4 DEF Next
  <1> QED
    BY <1>2, <1>3

THEOREM Invariance == Spec => []IInv
  BY InitIInv, NextIInv, PTL DEF Spec

(* Every variable has the type of what it models, and a thread holds a     *)
(* packet exactly while it is at work.                                     *)
THEOREM TypeCorrect == Spec => []TypeOK
  BY Invariance, PTL DEF IInv

(* However the handlers of a client's packets interleave, a record that    *)
(* was parsed is in one place: it is written once or refused, never both.  *)
THEOREM OnePlaceCorrect == Spec => []OnePlace
  BY Invariance, PTL DEF IInv

(* A file of a kernel is written once: the end packet that names it is     *)
(* sent once, and the path is gone with the entry that was dumped.         *)
THEOREM WrittenOnceCorrect == Spec => WrittenOnce
  <1>1. IInv /\ [Next]_vars
        => [\A p \in Paths : files[p] # {} => files'[p] = files[p]]_files
    <2> SUFFICES ASSUME IInv, [Next]_vars, NEW p \in Paths, files[p] # {}
                 PROVE  files'[p] = files[p]
      OBVIOUS
    <2>0. TypeOK /\ PathInv
      BY DEF IInv
    <2>1. CASE \E w \in Workers : VerifyAndDump(w)
      <3>1. PICK w \in Workers : VerifyAndDump(w)
        BY <2>1
      <3>2. taken[w].path # p
        BY <2>0 DEF PathInv
      <3> QED
        BY <2>0, <3>1, <3>2 DEF VerifyAndDump, Written, TypeOK
    <2>2. CASE DumpLeftovers
      <3>1. At(p[1]).path # p
        BY <2>0, PathFacts DEF PathInv
      <3> QED
        BY <2>2, <3>1 DEF DumpLeftovers
    <2>3. CASE UNCHANGED files
      BY <2>3
    <2> QED
      BY <2>1, <2>2, <2>3 DEF Next, Handler, Main, ParsePacket, TakePacket,
         HandleEndFlag, CountReceived, ParseMemoryChart, TallyRecords, CountProcessed,
         TryDumpMemoryChartMetrics, BeginWaitParseTask, StopPool, vars
  <1> QED
    BY <1>1, Invariance, PTL DEF Spec, WrittenOnce
-----------------------------------------------------------------------------
(* The counters                                                            *)

CountersBelowLimit == \A c \in Clients : At(c).received < CounterMod - 1

Balanced(c) == At(c).received = At(c).processed + Cardinality(InProgress(c))

LEMMA InProgressFinite ==
    ASSUME NEW c \in Clients
    PROVE  IsFiniteSet(InProgress(c)) /\ Cardinality(InProgress(c)) \in Nat
  <1>1. InProgress(c) \subseteq Workers
    BY DEF InProgress
  <1>2. IsFiniteSet(InProgress(c))
    BY <1>1, BoundsAssumption, FS_Subset
  <1> QED
    BY <1>2, FS_CardinalityType

(* Steps that leave the counters and who is at work as they are.           *)
LEMMA BalanceStays ==
    ASSUME NEW c \in Clients, Balanced(c),
           InProgress(c)' = InProgress(c),
           At(c)'.received = At(c).received, At(c)'.processed = At(c).processed
    PROVE  Balanced(c)'
  BY DEF Balanced

LEMMA BalanceKept ==
    ASSUME TypeOK, procedureErrors = 0, \A c \in Clients : Balanced(c),
           procedureErrors' = procedureErrors,
           \A c \in Clients : /\ InProgress(c)' = InProgress(c)
                              /\ At(c)'.received = At(c).received
                              /\ At(c)'.processed = At(c).processed
    PROVE  procedureErrors' = 0 /\ \A c \in Clients : Balanced(c)'
  BY BalanceStays

LEMMA AtWorkBalance ==
    ASSUME TypeOK, HandlerInv, EntryOutlivesHandlers, CountersBelowLimit,
           NEW w \in Workers, AtWork(w)
    PROVE  procedureErrors' = 0 /\ \A c \in Clients : Balanced(c)'
  <1>0. procedureErrors = 0 /\ \A c \in Clients : Balanced(c)
    BY DEF EntryOutlivesHandlers, Balanced
  <1>1. msg[w].client \in Clients
    BY AtWorkMessage
  <1>c. PICK c \in Clients : c = msg[w].client
    BY <1>1
  <1>2. /\ pc \in [Workers -> {"idle", "handle", "parse", "tally", "count", "tryDump", "write"}]
        /\ msg \in [Workers -> Messages \cup {NoMsg}]
        /\ metrics \in [Clients -> Entry \cup {NoEntry}]
    BY DEF TypeOK
  <1>3. /\ At(c) \in Entry
        /\ At(c).received \in Nat /\ At(c).received < CounterMod - 1 /\ CounterMod \in Nat
        /\ At(c).processed \in Nat /\ At(c).processed < CounterMod
    BY AtType, BoundsAssumption DEF Counter, CountersBelowLimit
  <1>4. CASE HandleEndFlag(w)
    <2>1. PICK e \in Entry : /\ metrics' = [metrics EXCEPT ![c] = e]
                             /\ e.received = At(c).received /\ e.processed = At(c).processed
      <3> DEFINE f == [At(c) EXCEPT !.endFlag = TRUE, !.path = <<c, msg[w].kernel>>]
      <3>1. <<c, msg[w].kernel>> \in Paths
        BY <1>c, AtWorkMessage, MessageFacts DEF PathOf
      <3>2. f \in Entry /\ f.received = At(c).received /\ f.processed = At(c).processed
        BY <1>3, <3>1 DEF Entry
      <3>3. metrics' = [metrics EXCEPT ![c] = f]
        BY <1>4, <1>c DEF HandleEndFlag
      <3> QED
        BY <3>2, <3>3
    <2>2. \A d \in Clients : /\ At(d)'.received = At(d).received
                             /\ At(d)'.processed = At(d).processed
      BY <2>1, EntryUpdate
    <2>3. \A d \in Clients : InProgress(d)' = InProgress(d)
      BY <1>2, <1>4 DEF HandleEndFlag, InProgress
    <2>4. procedureErrors' = procedureErrors
      BY <1>4 DEF HandleEndFlag
    <2> QED
      BY <1>0, <2>2, <2>3, <2>4, BalanceKept
  <1>5. CASE CountReceived(w)
    <2>1. PICK e \in Entry : /\ metrics' = [metrics EXCEPT ![c] = e]
                             /\ e.received = At(c).received + 1
                             /\ e.processed = At(c).processed
      <3> DEFINE f == [At(c) EXCEPT !.received = (@ + 1) % CounterMod]
      <3>1. (At(c).received + 1) % CounterMod = At(c).received + 1
        BY <1>3
      <3>2. f \in Entry
        BY <1>3, CountersAreBounded DEF Entry, Counter
      <3>3. f.received = At(c).received + 1 /\ f.processed = At(c).processed
        BY <1>3, <3>1 DEF Entry
      <3>4. metrics' = [metrics EXCEPT ![c] = f]
        BY <1>5, <1>c DEF CountReceived
      <3> QED
        BY <3>2, <3>3, <3>4
    <2>2. At(c)' = e /\ \A d \in Clients : d # c => At(d)' = At(d)
      BY <2>1, EntryUpdate
    <2>3. w \notin InProgress(c) /\ InProgress(c)' = InProgress(c) \cup {w}
          /\ \A d \in Clients : d # c => InProgress(d)' = InProgress(d)
      BY <1>2, <1>5, <1>c DEF CountReceived, InProgress
    <2>4. Cardinality(InProgress(c)') = Cardinality(InProgress(c)) + 1
      BY <2>3, InProgressFinite, FS_AddElement
    <2>5. Balanced(c)'
      BY <1>0, <1>3, <2>1, <2>2, <2>4, InProgressFinite DEF Balanced
    <2>6. \A d \in Clients : d # c => Balanced(d)'
      BY <1>0, <2>2, <2>3, BalanceStays
    <2> QED
      BY <1>0, <1>5, <2>5, <2>6 DEF CountReceived
  <1>6. CASE ParseMemoryChart(w)
    <2>1. w \in InProgress(c)
      BY <1>6, <1>c DEF ParseMemoryChart, InProgress
    <2>2. metrics[c] # NoEntry
      BY <2>1 DEF EntryOutlivesHandlers
    <2>3. procedureErrors' = procedureErrors
      BY <1>6, <1>c, <2>2 DEF ParseMemoryChart
    <2>4. \A d \in Clients : InProgress(d)' = InProgress(d)
      BY <1>2, <1>6 DEF ParseMemoryChart, InProgress
    <2>5. \A d \in Clients : /\ At(d)'.received = At(d).received
                             /\ At(d)'.processed = At(d).processed
      <3>1. CASE UNCHANGED metrics
        BY <3>1 DEF At
      <3>2. CASE metrics' = [metrics EXCEPT ![c].records = @ \cup {msg[w].record}]
        <4>1. metrics[c] \in Entry
          BY <1>2, <2>2
        <4> DEFINE f == [metrics[c] EXCEPT !.records = @ \cup {msg[w].record}]
        <4>2. metrics' = [metrics EXCEPT ![c] = f]
          BY <1>2, <3>2
        <4>3. f.received = metrics[c].received /\ f.processed = metrics[c].processed
          BY <4>1 DEF Entry
        <4>4. f \in Entry
          BY <1>6, <4>1, AtWorkMessage, MessageFacts DEF Entry, HandlerInv, ParseMemoryChart
        <4>5. At(c)' = f /\ \A d \in Clients : d # c => At(d)' = At(d)
          BY <4>2, <4>4, EntryUpdate
        <4> QED
          BY <2>2, <4>3, <4>5 DEF At
      <3> QED
        BY <1>6, <1>c, <3>1, <3>2 DEF ParseMemoryChart
    <2> QED
      BY <1>0, <2>3, <2>4, <2>5, BalanceKept
  <1>7. CASE TallyRecords(w)
    <2>1. metrics' = [metrics EXCEPT ![c] = At(c)]
      BY <1>7, <1>c DEF TallyRecords
    <2>2. \A d \in Clients : At(d)' = At(d)
      BY <1>3, <2>1, EntryUpdate
    <2>3. \A d \in Clients : InProgress(d)' = InProgress(d)
      BY <1>2, <1>7 DEF TallyRecords, InProgress
    <2>4. procedureErrors' = procedureErrors
      BY <1>7 DEF TallyRecords
    <2> QED
      BY <1>0, <2>2, <2>3, <2>4, BalanceKept
  <1>8. CASE CountProcessed(w)
    <2>1. w \in InProgress(c) /\ InProgress(c)' = InProgress(c) \ {w}
          /\ \A d \in Clients : d # c => InProgress(d)' = InProgress(d)
      BY <1>2, <1>8, <1>c DEF CountProcessed, InProgress
    <2>2. Cardinality(InProgress(c)') = Cardinality(InProgress(c)) - 1
      BY <2>1, InProgressFinite, FS_RemoveElement
    <2>3. Cardinality(InProgress(c)) # 0
      BY <2>1, InProgressFinite, FS_EmptySet
    <2>4. At(c).processed < At(c).received
      BY <1>0, <1>3, <2>3, InProgressFinite DEF Balanced
    <2>5. PICK e \in Entry : /\ metrics' = [metrics EXCEPT ![c] = e]
                             /\ e.received = At(c).received
                             /\ e.processed = At(c).processed + 1
      <3> DEFINE f == [At(c) EXCEPT !.processed = (@ + 1) % CounterMod]
      <3>1. (At(c).processed + 1) % CounterMod = At(c).processed + 1
        BY <1>3, <2>4
      <3>2. f \in Entry
        BY <1>3, CountersAreBounded DEF Entry, Counter
      <3>3. f.received = At(c).received /\ f.processed = At(c).processed + 1
        BY <1>3, <3>1 DEF Entry
      <3>4. metrics' = [metrics EXCEPT ![c] = f]
        BY <1>8, <1>c DEF CountProcessed
      <3> QED
        BY <3>2, <3>3, <3>4
    <2>6. At(c)' = e /\ \A d \in Clients : d # c => At(d)' = At(d)
      BY <2>5, EntryUpdate
    <2>7. Balanced(c)'
      BY <1>0, <1>3, <2>2, <2>5, <2>6, InProgressFinite DEF Balanced
    <2>8. \A d \in Clients : d # c => Balanced(d)'
      BY <1>0, <2>1, <2>6, BalanceStays
    <2> QED
      BY <1>0, <1>8, <2>7, <2>8 DEF CountProcessed
  <1>9. CASE TryDumpMemoryChartMetrics(w)
    <2>1. \A d \in Clients : InProgress(d)' = InProgress(d)
      BY <1>2, <1>9 DEF TryDumpMemoryChartMetrics, InProgress
    <2>2. procedureErrors' = procedureErrors
      BY <1>9 DEF TryDumpMemoryChartMetrics
    <2>3. CASE metrics' = [metrics EXCEPT ![c] = At(c)]
      <3>1. \A d \in Clients : At(d)' = At(d)
        BY <1>3, <2>3, EntryUpdate
      <3> QED
        BY <1>0, <2>1, <2>2, <3>1, BalanceKept
    <2>4. CASE Dumpable(At(c)) /\ metrics' = [metrics EXCEPT ![c] = NoEntry]
      <3>1. At(c)' = EmptyEntry /\ \A d \in Clients : d # c => At(d)' = At(d)
        BY <1>2, <2>4 DEF At
      <3>2. Cardinality(InProgress(c)) = 0
        BY <1>0, <1>3, <2>4, InProgressFinite DEF Balanced, Dumpable
      <3>3. Balanced(c)'
        BY <2>1, <3>1, <3>2 DEF Balanced, EmptyEntry
      <3>4. \A d \in Clients : d # c => Balanced(d)'
        BY <1>0, <2>1, <3>1, BalanceStays
      <3> QED
        BY <1>0, <2>2, <3>3, <3>4
    <2> QED
      BY <1>9, <1>c, <2>3, <2>4 DEF TryDumpMemoryChartMetrics
  <1>10. CASE VerifyAndDump(w)
    <2>1. \A d \in Clients : InProgress(d)' = InProgress(d) /\ At(d)' = At(d)
      BY <1>2, <1>10 DEF VerifyAndDump, InProgress, At
    <2>2. procedureErrors' = procedureErrors
      BY <1>10 DEF VerifyAndDump
    <2> QED
      BY <1>0, <2>1, <2>2, BalanceKept
  <1> QED
    BY <1>4, <1>5, <1>6, <1>7, <1>8, <1>9, <1>10 DEF AtWork

LEMMA NextBalance ==
    ASSUME IInv, EntryOutlivesHandlers, CountersBelowLimit, [Next]_vars
    PROVE  EntryOutlivesHandlers'
  <1>0. TypeOK /\ HandlerInv /\ TypeOK'
    BY NextIInv DEF IInv
  <1>1. procedureErrors = 0 /\ \A c \in Clients : Balanced(c)
    BY DEF EntryOutlivesHandlers, Balanced
  <1>2. CASE UNCHANGED vars
    BY <1>2 DEF vars, handlers, EntryOutlivesHandlers, InProgress, At
  <1>3. CASE Next
    <2>1. procedureErrors' = 0 /\ \A c \in Clients : Balanced(c)'
      <3>1. CASE \E c \in Clients : ParsePacket(c)
        BY <1>1, <3>1 DEF ParsePacket, handlers, Balanced, InProgress, At
      <3>2. CASE \E w \in Workers : Handler(w)
        <4>1. PICK w \in Workers : Handler(w)
          BY <3>2
        <4>2. CASE TakePacket(w)
          <5>1. \A c \in Clients : InProgress(c)' = InProgress(c) /\ At(c)' = At(c)
            BY <1>0, <4>2 DEF TakePacket, TypeOK, InProgress, At
          <5> QED
            BY <1>1, <4>2, <5>1 DEF TakePacket, Balanced
        <4>3. CASE AtWork(w)
          BY <1>0, <4>3, AtWorkBalance
        <4> QED
          BY <4>1, <4>2, <4>3 DEF Handler, AtWork
      <3>3. CASE BeginWaitParseTask \/ StopPool
        BY <1>1, <3>3 DEF BeginWaitParseTask, StopPool, handlers, Balanced, InProgress, At
      <3>4. CASE DumpLeftovers
        <4>1. \A c \in Clients : At(c)' = EmptyEntry
          BY <3>4 DEF DumpLeftovers, At
        <4>2. \A c \in Clients : InProgress(c)' = {}
          BY <3>4 DEF DumpLeftovers, handlers, InProgress
        <4>3. \A c \in Clients : Cardinality(InProgress(c)') = 0
          BY <4>2, FS_EmptySet
        <4>4. \A c \in Clients : At(c)'.received = 0 /\ At(c)'.processed = 0
          BY <4>1 DEF EmptyEntry
        <4>5. \A c \in Clients : Balanced(c)'
          BY <4>3, <4>4 DEF Balanced
        <4> QED
          BY <1>1, <3>4, <4>5 DEF DumpLeftovers
      <3> QED
        BY <1>3, <3>1, <3>2, <3>3, <3>4 DEF Next, Main
    <2>2. \A c \in Clients : metrics'[c] = NoEntry => InProgress(c)' = {}
      <3> SUFFICES ASSUME NEW c \in Clients, metrics'[c] = NoEntry
                   PROVE  InProgress(c)' = {}
        OBVIOUS
      <3>1. At(c)'.received = 0 /\ At(c)'.processed = 0
        BY DEF At, EmptyEntry
      <3>2. InProgress(c)' \subseteq Workers
        BY DEF InProgress
      <3>3. IsFiniteSet(InProgress(c)')
        BY <3>2, BoundsAssumption, FS_Subset
      <3>4. Cardinality(InProgress(c)') = 0
        BY <2>1, <3>1, <3>3, FS_CardinalityType DEF Balanced
      <3> QED
        BY <3>3, <3>4, FS_EmptySet
    <2> QED
      BY <2>1, <2>2 DEF EntryOutlivesHandlers, Balanced
  <1> QED
    BY <1>2, <1>3

(* As long as no receivedPacket comes to the limit of its type, it is      *)
(* ahead of processedPacket by the number of handlers at work, so that no  *)
(* handler finds its entry dumped by another.                              *)
THEOREM EntryOutlivesHandlersCorrect ==
    Spec /\ []CountersBelowLimit => []EntryOutlivesHandlers
  <1>1. Init => EntryOutlivesHandlers
    <2> SUFFICES ASSUME Init PROVE EntryOutlivesHandlers
      OBVIOUS
    <2>1. \A c \in Clients : InProgress(c) = {} /\ At(c) = EmptyEntry
      BY DEF Init, InProgress, At
    <2>2. \A c \in Clients : Cardinality(InProgress(c)) = 0
      BY <2>1, FS_EmptySet
    <2>3. \A c \in Clients : At(c).received = 0 /\ At(c).processed = 0
      BY <2>1 DEF EmptyEntry
    <2>4. procedureErrors = 0
      BY DEF Init
    <2> QED
      BY <2>1, <2>2, <2>3, <2>4 DEF EntryOutlivesHandlers
  <1>2. IInv /\ EntryOutlivesHandlers /\ CountersBelowLimit /\ [Next]_vars
        => EntryOutlivesHandlers'
    BY NextBalance
  <1> QED
    BY <1>1, <1>2, Invariance, PTL DEF Spec
=============================================================================
