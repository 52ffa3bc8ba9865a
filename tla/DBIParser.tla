----------------------------- MODULE DBIParser ------------------------------
(***************************************************************************)
(* DBIParser (profiling/device/data_parse/dbi_parser.{h,cpp}): collects    *)
(* the memory records that instrumented kernels report and writes one file *)
(* per kernel.  The listener thread hands each packet to ParsePacket, the  *)
(* threads of pool_ run PacketHandler, and the main thread calls           *)
(* WaitParseTask once the listener has stopped.                            *)
(*                                                                         *)
(* parseMutex_ is taken once for each thing PacketHandler does to          *)
(* memoryChartMetrics_, so a handler is a chain of actions, one for each   *)
(* critical section, and the handlers of several packets interleave        *)
(* between them.  The pool is the TaskExecutor of TaskExecutor.tla, which  *)
(* ThreadPool.tla implements: packets are taken in the order they came.    *)
(*                                                                         *)
(* A packet carries at most one record here: the records of one packet go  *)
(* to the same entry, between the same two critical sections.              *)
(***************************************************************************)
EXTENDS Sequences, FiniteSets, Integers

CONSTANTS
    Workers,    \* the threads of pool_
    Clients,    \* client identifiers, one for each reporting thread
    Reports,    \* Reports[c][k]: bound on the data packets of client c's
                \* k-th kernel; a client reports its kernels one by one
    CounterMod, \* receivedPacket and processedPacket are uint16_t: 2^16
    NoPath,     \* the outputPath of an entry no end packet was seen for
    NoEntry,    \* memoryChartMetrics_ has no entry for the client
    NoMsg       \* what an idle thread holds

ASSUME BoundsAssumption ==
    /\ Reports \in [Clients -> Seq(Nat)]
    /\ CounterMod \in Nat \ {0}
    /\ IsFiniteSet(Workers)

VARIABLES
    cursor,     \* for each client, the kernel and the packet it reports next
    queue,      \* packets handed to pool_ and not taken
    pool,       \* phase of pool_: "closed", "open", "closing"
    state,      \* started_
    pc, msg,    \* where each thread of the pool is, and its packet
    taken,      \* the entry a thread moved out of the map and will write
    metrics,    \* memoryChartMetrics_
    files,      \* the records in the file of each kernel
    lost,       \* records VerifyAndDump refused to write
    procedureErrors,    \* procedureErrorCount_
    main        \* where WaitParseTask is

handlers == <<pc, msg, taken>>
vars == <<cursor, queue, pool, state, handlers, metrics, files, lost,
          procedureErrors, main>>

Paths == UNION { {c} \X DOMAIN Reports[c] : c \in Clients }
Records == UNION { {<<p[1], p[2], n>> : n \in 1..Reports[p[1]][p[2]]} : p \in Paths }

DataPacket(c, k, n) == [client |-> c, kernel |-> k, end |-> FALSE, record |-> <<c, k, n>>]
EndPacket(c, k) == [client |-> c, kernel |-> k, end |-> TRUE, record |-> <<>>]

Messages ==
    { DataPacket(r[1], r[2], r[3]) : r \in Records }
        \cup { EndPacket(p[1], p[2]) : p \in Paths }

Counter == 0..(CounterMod - 1)
Entry == [path : Paths \cup {NoPath}, records : SUBSET Records,
          received : Counter, processed : Counter, endFlag : BOOLEAN]

ASSUME NullAssumption ==
    /\ NoPath \notin Paths
    /\ NoEntry \notin Entry
    /\ NoMsg \notin Messages

EmptyEntry == [path |-> NoPath, records |-> {}, received |-> 0, processed |-> 0,
               endFlag |-> FALSE]

(* memoryChartMetrics_[c]: operator[] makes the entry when there is none. *)
At(c) == IF metrics[c] = NoEntry THEN EmptyEntry ELSE metrics[c]

Init ==
    /\ cursor = [c \in Clients |-> <<1, 1>>]
    /\ queue = <<>>
    /\ pool = "closed"
    /\ state = "INITED"
    /\ pc = [w \in Workers |-> "idle"]
    /\ msg = [w \in Workers |-> NoMsg]
    /\ taken = [w \in Workers |-> EmptyEntry]
    /\ metrics = [c \in Clients |-> NoEntry]
    /\ files = [p \in Paths |-> {}]
    /\ lost = {}
    /\ procedureErrors = 0
    /\ main = "listening"

-----------------------------------------------------------------------------
(* Variants of the operators and actions below, each with a bug such code  *)
(* is prone to.  They are part of no specification.                        *)

(* the first packet does not start the pool *)
EnqueueNoStart(m) ==
    /\ queue' = Append(queue, m)
    /\ state' = IF state = "INITED" THEN "RUNNING" ELSE state
    /\ UNCHANGED pool

(* the end packet alone makes an entry dumpable *)
DumpableAtEnd(m) == m.endFlag

(* the entry is copied, not moved out and erased *)
TryDumpNoErase(w) ==
    /\ pc[w] = "tryDump"
    /\ LET m == At(msg[w].client)
       IN  /\ metrics' = [metrics EXCEPT ![msg[w].client] = m]
           /\ IF m.endFlag /\ m.received <= m.processed
              THEN /\ taken' = [taken EXCEPT ![w] = m]
                   /\ pc' = [pc EXCEPT ![w] = "write"]
                   /\ UNCHANGED msg
              ELSE /\ pc' = [pc EXCEPT ![w] = "idle"]
                   /\ msg' = [msg EXCEPT ![w] = NoMsg]
                   /\ UNCHANGED taken
    /\ UNCHANGED <<cursor, queue, pool, state, files, lost, procedureErrors, main>>

-----------------------------------------------------------------------------
(* The listener thread *)

(* AddTask, then the first packet starts the pool. *)
Enqueue(m) ==
    /\ queue' = Append(queue, m)
    /\ state' = IF state = "INITED" THEN "RUNNING" ELSE state
    /\ pool' = IF state = "INITED" THEN "open" ELSE pool

(* A client reports the records of its kernel and then the end of it. *)
ParsePacket(c) ==
    /\ main = "listening"
    /\ cursor[c][1] \in DOMAIN Reports[c]
    /\ LET k == cursor[c][1]
           n == cursor[c][2]
       IN  \/ /\ n <= Reports[c][k]
              /\ Enqueue(DataPacket(c, k, n))
              /\ cursor' = [cursor EXCEPT ![c] = <<k, n + 1>>]
           \/ /\ Enqueue(EndPacket(c, k))
              /\ cursor' = [cursor EXCEPT ![c] = <<k + 1, 1>>]
    /\ UNCHANGED <<handlers, metrics, files, lost, procedureErrors, main>>

-----------------------------------------------------------------------------
(* The threads of the pool: PacketHandler, one action per critical section *)

TakePacket(w) ==
    /\ pool = "open"
    /\ pc[w] = "idle"
    /\ queue # <<>>
    /\ msg' = [msg EXCEPT ![w] = Head(queue)]
    /\ queue' = Tail(queue)
    /\ pc' = [pc EXCEPT ![w] = "handle"]
    /\ UNCHANGED <<cursor, pool, state, taken, metrics, files, lost, procedureErrors, main>>

HandleEndFlag(w) ==
    /\ pc[w] = "handle"
    /\ msg[w].end
    /\ LET c == msg[w].client
       IN  metrics' = [metrics EXCEPT ![c] =
                         [At(c) EXCEPT !.endFlag = TRUE, !.path = <<c, msg[w].kernel>>]]
    /\ pc' = [pc EXCEPT ![w] = "tryDump"]
    /\ UNCHANGED <<cursor, queue, pool, state, msg, taken, files, lost, procedureErrors, main>>

CountReceived(w) ==
    /\ pc[w] = "handle"
    /\ ~msg[w].end
    /\ LET c == msg[w].client
       IN  metrics' = [metrics EXCEPT ![c] =
                         [At(c) EXCEPT !.received = (@ + 1) % CounterMod]]
    /\ pc' = [pc EXCEPT ![w] = "parse"]
    /\ UNCHANGED <<cursor, queue, pool, state, msg, taken, files, lost, procedureErrors, main>>

(* A record that parses goes to the entry, if the entry is still there;    *)
(* a packet that is empty or corrupt leaves nothing.                       *)
ParseMemoryChart(w) ==
    /\ pc[w] = "parse"
    /\ LET c == msg[w].client
       IN  \/ /\ metrics[c] # NoEntry
              /\ metrics' = [metrics EXCEPT ![c].records = @ \cup {msg[w].record}]
              /\ UNCHANGED procedureErrors
           \/ /\ metrics[c] = NoEntry
              /\ procedureErrors' = procedureErrors + 1
              /\ UNCHANGED metrics
           \/ UNCHANGED <<metrics, procedureErrors>>
    /\ pc' = [pc EXCEPT ![w] = "tally"]
    /\ UNCHANGED <<cursor, queue, pool, state, msg, taken, files, lost, main>>

(* processedRecord, droppedRecord and the per-type counters, which only    *)
(* feed the debug log: what matters is that operator[] may make an entry.  *)
TallyRecords(w) ==
    /\ pc[w] = "tally"
    /\ metrics' = [metrics EXCEPT ![msg[w].client] = At(msg[w].client)]
    /\ pc' = [pc EXCEPT ![w] = "count"]
    /\ UNCHANGED <<cursor, queue, pool, state, msg, taken, files, lost, procedureErrors, main>>

CountProcessed(w) ==
    /\ pc[w] = "count"
    /\ LET c == msg[w].client
       IN  metrics' = [metrics EXCEPT ![c] =
                         [At(c) EXCEPT !.processed = (@ + 1) % CounterMod]]
    /\ pc' = [pc EXCEPT ![w] = "tryDump"]
    /\ UNCHANGED <<cursor, queue, pool, state, msg, taken, files, lost, procedureErrors, main>>

Dumpable(m) == m.endFlag /\ m.received <= m.processed

(* Either the entry stays (and is made if it was not there), or it is      *)
(* moved out of the map to be written after the unlock.                    *)
TryDumpMemoryChartMetrics(w) ==
    /\ pc[w] = "tryDump"
    /\ LET c == msg[w].client
       IN  \/ /\ ~Dumpable(At(c))
              /\ metrics' = [metrics EXCEPT ![c] = At(c)]
              /\ pc' = [pc EXCEPT ![w] = "idle"]
              /\ msg' = [msg EXCEPT ![w] = NoMsg]
              /\ UNCHANGED taken
           \/ /\ Dumpable(At(c))
              /\ taken' = [taken EXCEPT ![w] = At(c)]
              /\ metrics' = [metrics EXCEPT ![c] = NoEntry]
              /\ pc' = [pc EXCEPT ![w] = "write"]
              /\ UNCHANGED msg
    /\ UNCHANGED <<cursor, queue, pool, state, files, lost, procedureErrors, main>>

(* VerifyAndDump and Dump: a file that exists is removed first, an entry   *)
(* without records writes nothing, one without a path is refused.          *)
Written(f, m) ==
    IF m.path = NoPath \/ m.records = {} THEN f ELSE [f EXCEPT ![m.path] = m.records]
Refused(m) == IF m.path = NoPath THEN m.records ELSE {}

VerifyAndDump(w) ==
    /\ pc[w] = "write"
    /\ files' = Written(files, taken[w])
    /\ lost' = lost \cup Refused(taken[w])
    /\ taken' = [taken EXCEPT ![w] = EmptyEntry]
    /\ pc' = [pc EXCEPT ![w] = "idle"]
    /\ msg' = [msg EXCEPT ![w] = NoMsg]
    /\ UNCHANGED <<cursor, queue, pool, state, metrics, procedureErrors, main>>

-----------------------------------------------------------------------------
(* The main thread: WaitParseTask, after the listener has been joined *)

BeginWaitParseTask ==
    /\ main = "listening"
    /\ IF state = "RUNNING"
       THEN /\ state' = "FINISHED"
            /\ main' = "draining"
       ELSE /\ main' = "done"
            /\ UNCHANGED state
    /\ UNCHANGED <<cursor, queue, pool, handlers, metrics, files, lost, procedureErrors>>

(* pool_.WaitAllTasks returned; pool_.Stop refuses new packets. *)
StopPool ==
    /\ main = "draining"
    /\ queue = <<>>
    /\ pool' = "closing"
    /\ main' = "joining"
    /\ UNCHANGED <<cursor, queue, state, handlers, metrics, files, lost, procedureErrors>>

(* pool_.Stop returned: the entries left are dumped without parseMutex_. *)
DumpLeftovers ==
    /\ main = "joining"
    /\ \A w \in Workers : pc[w] = "idle"
    /\ pool' = "closed"
    /\ files' = [p \in Paths |->
                   IF At(p[1]).path = p /\ At(p[1]).records # {}
                   THEN At(p[1]).records ELSE files[p]]
    /\ lost' = lost \cup UNION { Refused(At(c)) : c \in Clients }
    /\ metrics' = [c \in Clients |-> NoEntry]
    /\ main' = "done"
    /\ UNCHANGED <<cursor, queue, state, handlers, procedureErrors>>

-----------------------------------------------------------------------------
Handler(w) ==
    \/ TakePacket(w)
    \/ HandleEndFlag(w)
    \/ CountReceived(w)
    \/ ParseMemoryChart(w)
    \/ TallyRecords(w)
    \/ CountProcessed(w)
    \/ TryDumpMemoryChartMetrics(w)
    \/ VerifyAndDump(w)

Main == BeginWaitParseTask \/ StopPool \/ DumpLeftovers

Next ==
    \/ \E c \in Clients : ParsePacket(c)
    \/ \E w \in Workers : Handler(w)
    \/ Main

Spec == Init /\ [][Next]_vars

(* The pool's threads are scheduled, and WaitParseTask runs on once called *)
FairSpec ==
    /\ Spec
    /\ \A w \in Workers : WF_vars(Handler(w))
    /\ WF_vars(StopPool \/ DumpLeftovers)

-----------------------------------------------------------------------------
TypeOK ==
    /\ cursor \in [Clients -> (Nat \ {0}) \X (Nat \ {0})]
    /\ queue \in Seq(Messages)
    /\ pool \in {"closed", "open", "closing"}
    /\ state \in {"INITED", "RUNNING", "FINISHED"}
    /\ pc \in [Workers -> {"idle", "handle", "parse", "tally", "count", "tryDump", "write"}]
    /\ msg \in [Workers -> Messages \cup {NoMsg}]
    /\ \A w \in Workers : msg[w] = NoMsg <=> pc[w] = "idle"
    /\ taken \in [Workers -> Entry]
    /\ metrics \in [Clients -> Entry \cup {NoEntry}]
    /\ files \in [Paths -> SUBSET Records]
    /\ lost \subseteq Records
    /\ procedureErrors \in Nat
    /\ main \in {"listening", "draining", "joining", "done"}

(* The handlers that have counted their packet of client c as received and *)
(* not yet as processed.                                                   *)
InProgress(c) ==
    { w \in Workers : pc[w] \in {"parse", "tally", "count"} /\ msg[w].client = c }

(* receivedPacket - processedPacket is the number of handlers at work on   *)
(* the client, and no other handler erases the entry under them: the case  *)
(* Emplace counts in procedureErrorCount_ does not arise.                  *)
EntryOutlivesHandlers ==
    /\ \A c \in Clients :
          /\ InProgress(c) # {} => metrics[c] # NoEntry
          /\ At(c).received = At(c).processed + Cardinality(InProgress(c))
    /\ procedureErrors = 0

(* Where a parsed record may be *)
InEntry(c) == At(c).records
InHand(w) == taken[w].records

(* Each record that was parsed is in one place only: the entry of its      *)
(* client, the hands of the thread that writes it, one file, or the        *)
(* refused ones.                                                           *)
OnePlace ==
    /\ \A c \in Clients, w \in Workers : InEntry(c) \cap InHand(w) = {}
    /\ \A v, w \in Workers : v # w => InHand(v) \cap InHand(w) = {}
    /\ \A p \in Paths :
          /\ \A c \in Clients : InEntry(c) \cap files[p] = {}
          /\ \A w \in Workers : InHand(w) \cap files[p] = {}
          /\ \A q \in Paths : p # q => files[p] \cap files[q] = {}
          /\ files[p] \cap lost = {}
    /\ \A c \in Clients : InEntry(c) \cap lost = {}
    /\ \A w \in Workers : InHand(w) \cap lost = {}

(* The file of a kernel is written once: Dump never removes a file it      *)
(* wrote before.                                                           *)
WrittenOnce == [][\A p \in Paths : files[p] # {} => files'[p] = files[p]]_files

(* WaitParseTask returns. *)
WaitParseTaskReturns == main \in {"draining", "joining"} ~> main = "done"

(* dbi_parser.h:73, of endFlag: true means that the data of the kernel has *)
(* all been sent, and data of the kernel that is received later is         *)
(* discarded.  So the record of a packet that is received, in the sense of *)
(* the code, after the end packet of its kernel was dealt with never       *)
(* reaches the file of a later kernel of its client.                       *)
EndHandled(p) ==
    /\ cursor[p[1]][1] > p[2]
    /\ \A i \in DOMAIN queue : queue[i] # EndPacket(p[1], p[2])
    /\ \A w \in Workers : msg[w] # EndPacket(p[1], p[2])

Late(r) ==
    /\ EndHandled(<<r[1], r[2]>>)
    /\ \E w \in Workers : pc[w] = "handle" /\ msg[w] = DataPacket(r[1], r[2], r[3])

InLaterFile(r) == \E p \in Paths : p[1] = r[1] /\ p[2] > r[2] /\ r \in files[p]

LateDataDiscarded == \A r \in Records : [](Late(r) => []~InLaterFile(r))
=============================================================================
