--------------------------- MODULE InjectionEvent ---------------------------
(***************************************************************************)
(* The server side of the injection channel: profiled processes (clients)  *)
(* stream packets to msopprof and get answers.                             *)
(*                                                                         *)
(*   RemoteProcess (external)  hands chunks of a client's byte stream to   *)
(*                             Communication::MsgHandle, on its own thread *)
(*   Communication             receiveMsgQueue_, sendMsgQueue_ and the     *)
(*                             thread that runs MsgSend                    *)
(*   InjectionEvent            the listener thread (DisposeAsk, Distribute)*)
(*   Packet                    one per client: reassembles head and        *)
(*                             payload from chunks (ProcessMsg)            *)
(*   Task                      registers callbacks, starts the server,     *)
(*                             runs the program, stops the server          *)
(*                                                                         *)
(* Bytes are abstracted to units: a packet is a head of HeadLen units and  *)
(* a payload of len units, and a unit remembers which packet it belongs to *)
(* (its number n in what the client sent) and its position in it.  A head  *)
(* or a payload put together from units of several packets is garbage and  *)
(* means anything.                                                         *)
(***************************************************************************)
EXTENDS Naturals, Sequences, SequencesExt

CONSTANTS
    Clients,        \* client ids; RemoteProcess numbers those of a round anew
    Packets,        \* what clients send: [type, len, sound]
    HeadLen,        \* sizeof(ProfPacketHead), in units
    Extensible,     \* types for which a task may register a callback
    Strangers,      \* TRUE: clients also send types that have no callback
    MaxPackets,     \* bound: r * MaxPackets packets are sent by round r
    MaxRounds       \* bound on the replay rounds

ASSUME PacketsAssumption ==
    /\ \A p \in Packets : p.len \in Nat /\ p.sound \in BOOLEAN
    /\ HeadLen \in Nat \ {0}
    /\ Strangers \in BOOLEAN
    /\ MaxPackets \in Nat /\ MaxRounds \in Nat

VARIABLES
    handlers,   \* the types that have an entry in msgProcessFunc_
    packetMap,  \* packetMap_: the packet of each client that is being read
    msg,        \* what Distribute has not read yet of the current message
    recvQ,      \* receiveMsgQueue_
    sendQ,      \* sendMsgQueue_
    listener,   \* where listenThread_ is
    sender,     \* where sendThread_ is
    owner,      \* where the task is; isRunning_ and runFlag_ follow from it
    round,      \* how often StartDisposeClientAsk was called
    wire,       \* external: units of each client that MsgHandle did not get yet
    sent,       \* history: the packets each client sent, over all rounds
    handled,    \* history: the numbers of the packets a callback got, 0: garbage
    inbox,      \* history: the answers each client got
    badHead     \* history: IsPacketHeadValid has failed

serverVars == <<packetMap, msg, recvQ, sendQ, listener, sender>>
clientVars == <<wire, sent, inbox>>
vars == <<handlers, serverVars, owner, round, clientVars, handled, badHead>>

(* What the constructor registers, and the types whose callback answers.   *)
(* No task registers or unregisters a type of the constructor.             *)
BuiltIn == {"CONFIG", "DATA_PATH", "PROCESS_CTRL"}
ASSUME ExtensibleAssumption == Extensible \cap BuiltIn = {}
Answered == BuiltIn \cup {"COLLECT_START", "PROF_FINISH"}

Nothing == [from |-> "nobody", rest |-> <<>>]
NoHead == [n |-> 0, p |-> [type |-> "INVALID", len |-> 0, sound |-> FALSE]]
FreshPacket == [head |-> NoHead, ask |-> <<>>]

(* "off": not started or joined; "test": about to read isRunning_;         *)
(* "receive": in ReceiveMsg; "distribute": in the loop of Distribute.      *)
ListenerPc == {"off", "test", "receive", "distribute", "exited"}
SenderPc == {"off", "test", "wait", "exited"}

(* "idle"; "running": RunOpBinary; "returned": the program has exited;     *)
(* "joining": isRunning_ is false, joins the listener; "closing": runFlag_ *)
(* is false, joins the sender.                                             *)
OwnerPc == {"idle", "running", "returned", "joining", "closing"}

IsRunning == owner \in {"running", "returned"}
RunFlag == owner \in {"running", "returned", "joining"}

Init ==
    /\ handlers = BuiltIn
    /\ packetMap = [c \in Clients |-> FreshPacket]
    /\ msg = Nothing
    /\ recvQ = <<>>
    /\ sendQ = <<>>
    /\ listener = "off"
    /\ sender = "off"
    /\ owner = "idle"
    /\ round = 0
    /\ wire = [c \in Clients |-> <<>>]
    /\ sent = [c \in Clients |-> <<>>]
    /\ handled = [c \in Clients |-> <<>>]
    /\ inbox = [c \in Clients |-> <<>>]
    /\ badHead = FALSE

-----------------------------------------------------------------------------
(* Units *)

HeadUnits(n) == [k \in 1..HeadLen |-> <<n, k>>]
PayloadUnits(n, p) == [k \in 1..p.len |-> <<n, HeadLen + k>>]
Units(n, p) == HeadUnits(n) \o PayloadUnits(n, p)

Take(s, k) == SubSeq(s, 1, k)
Drop(s, k) == SubSeq(s, k + 1, Len(s))

(* Deserialize: the heads that HeadLen units may stand for; n = 0 marks    *)
(* garbage, and the type of NoHead stands for every invalid one.           *)
Heads(c, units) ==
    LET n == units[1][1]
    IN IF units = HeadUnits(n)
       THEN {[n |-> n, p |-> sent[c][n]]}
       ELSE {NoHead} \cup {[n |-> 0, p |-> p] : p \in Packets}

Genuine(head, ask) == head.n # 0 /\ ask = PayloadUnits(head.n, head.p)

(* msgParseFunc_ of the type: does the payload pass? *)
Parses(head, ask) == IF Genuine(head, ask) THEN {head.p.sound} ELSE BOOLEAN

-----------------------------------------------------------------------------
(* One iteration of the loop of Distribute, by the result of ProcessMsg.   *)

Client == msg.from
Reading == packetMap[Client]

(* The units ask and rest hold a head: it is read first. *)
HeadComplete == Reading.head # NoHead
                \/ Len(Reading.ask) + Len(msg.rest) >= HeadLen

(* Every way to start on the payload: [head, ask, rest]. *)
Opened ==
    IF Reading.head # NoHead
    THEN {[head |-> Reading.head, ask |-> Reading.ask, rest |-> msg.rest]}
    ELSE LET missing == HeadLen - Len(Reading.ask)
         IN {[head |-> h, ask |-> <<>>, rest |-> Drop(msg.rest, missing)] :
                h \in Heads(Client, Reading.ask \o Take(msg.rest, missing))}

Store(packet, rest) ==
    /\ packetMap' = [packetMap EXCEPT ![Client] = packet]
    /\ msg' = [msg EXCEPT !.rest = rest]

-----------------------------------------------------------------------------
(* Variants with a bug, part of no specification. *)

(* answers are queued in front *)
HandlePacketFront(success, head, ask, rest) ==
    LET n == IF Genuine(head, ask) THEN head.n ELSE 0
    IN /\ success
       /\ head.p.type \in handlers
       /\ Store(FreshPacket, rest)
       /\ handled' = [handled EXCEPT ![Client] = Append(@, n)]
       /\ sendQ' = IF head.p.type \in Answered
                   THEN <<[to |-> Client, re |-> n]>> \o sendQ ELSE sendQ
       /\ UNCHANGED badHead

(* a packet that fails its check stays in packetMap_ *)
DropPacketKept(success, head, ask, rest) ==
    /\ ~success
    /\ Store([head |-> head, ask |-> ask], rest)
    /\ UNCHANGED <<handled, sendQ, badHead>>

(* the rest of the message is lost with a packet that fails its check *)
DropPacketAndRest(success, head, ask, rest) ==
    /\ ~success
    /\ Store(FreshPacket, <<>>)
    /\ UNCHANGED <<handled, sendQ, badHead>>

(* the listener does not look at isRunning_ *)
ListenerTestNot ==
    /\ listener = "test"
    /\ listener' = "receive"
    /\ UNCHANGED <<handlers, packetMap, msg, recvQ, sendQ, sender, owner, round,
                   clientVars, handled, badHead>>

-----------------------------------------------------------------------------
(* The results of ProcessMsg *)

(* PARSING: the message ends inside the head. *)
KeepPartialHead ==
    /\ ~HeadComplete
    /\ Store([Reading EXCEPT !.ask = @ \o msg.rest], <<>>)
    /\ UNCHANGED <<handled, sendQ, badHead>>

(* FAILED: the head is invalid, the rest of the message is dropped. *)
RejectHead ==
    /\ HeadComplete
    /\ \E o \in Opened : o.head = NoHead
    /\ Store(FreshPacket, <<>>)
    /\ badHead' = TRUE
    /\ UNCHANGED <<handled, sendQ>>

(* PARSING: the message ends inside the payload. *)
KeepPartialPayload ==
    /\ HeadComplete
    /\ \E o \in Opened :
         /\ o.head # NoHead
         /\ o.head.p.len > Len(o.ask) + Len(o.rest)
         /\ Store([head |-> o.head, ask |-> o.ask \o o.rest], <<>>)
    /\ UNCHANGED <<handled, sendQ, badHead>>

(* The message holds the rest of the payload. *)
CompletePacket(Deal(_, _, _, _)) ==
    /\ HeadComplete
    /\ \E o \in Opened :
         LET left == o.head.p.len - Len(o.ask)
             ask == o.ask \o Take(o.rest, left)
         IN /\ o.head # NoHead
            /\ o.head.p.len <= Len(o.ask) + Len(o.rest)
            /\ \E success \in Parses(o.head, ask) :
                 Deal(success, o.head, ask, Drop(o.rest, left))

(* FAILED: the packet is dropped, reading goes on behind it. *)
DropPacket(success, head, ask, rest) ==
    /\ ~success
    /\ Store(FreshPacket, rest)
    /\ UNCHANGED <<handled, sendQ, badHead>>

(* SUCCESS: the callback is called; SendMsgAsyn queues its answer. *)
HandlePacket(success, head, ask, rest) ==
    LET n == IF Genuine(head, ask) THEN head.n ELSE 0
    IN /\ success
       /\ head.p.type \in handlers
       /\ Store(FreshPacket, rest)
       /\ handled' = [handled EXCEPT ![Client] = Append(@, n)]
       /\ sendQ' = IF head.p.type \in Answered
                   THEN Append(sendQ, [to |-> Client, re |-> n]) ELSE sendQ
       /\ UNCHANGED badHead

(* SUCCESS without a callback: continue, and the packet stays in           *)
(* packetMap_.  What follows of the message is never read: ProcessMsg      *)
(* finds the same complete packet again.                                   *)
NoCallback(success, head, ask, rest) ==
    /\ success
    /\ head.p.type \notin handlers
    /\ Store([head |-> head, ask |-> ask], rest)
    /\ UNCHANGED <<handled, sendQ, badHead>>

-----------------------------------------------------------------------------
(* The listener thread: DisposeAsk *)

ListenerTest ==
    /\ listener = "test"
    /\ listener' = IF IsRunning THEN "receive" ELSE "exited"
    /\ UNCHANGED <<handlers, packetMap, msg, recvQ, sendQ, sender, owner, round,
                   clientVars, handled, badHead>>

(* ReceiveMsg takes the front. *)
ReceiveMsg ==
    /\ listener = "receive"
    /\ recvQ # <<>>
    /\ msg' = Head(recvQ)
    /\ recvQ' = Tail(recvQ)
    /\ listener' = "distribute"
    /\ UNCHANGED <<handlers, packetMap, sendQ, sender, owner, round,
                   clientVars, handled, badHead>>

(* ReceiveMsg returns 0 after a second without a message. *)
ReceiveTimeout ==
    /\ listener = "receive"
    /\ recvQ = <<>>
    /\ listener' = "test"
    /\ UNCHANGED <<handlers, packetMap, msg, recvQ, sendQ, sender, owner, round,
                   clientVars, handled, badHead>>

Distribute ==
    /\ listener = "distribute"
    /\ msg.rest # <<>>
    /\ \/ KeepPartialHead
       \/ RejectHead
       \/ KeepPartialPayload
       \/ CompletePacket(DropPacket)
       \/ CompletePacket(HandlePacket)
       \/ CompletePacket(NoCallback)
    /\ UNCHANGED <<handlers, recvQ, listener, sender, owner, round, clientVars>>

EndDistribute ==
    /\ listener = "distribute"
    /\ msg.rest = <<>>
    /\ msg' = Nothing
    /\ listener' = "test"
    /\ UNCHANGED <<handlers, packetMap, recvQ, sendQ, sender, owner, round,
                   clientVars, handled, badHead>>

Listener == ListenerTest \/ ReceiveMsg \/ ReceiveTimeout \/ Distribute \/ EndDistribute

(* The sender thread: MsgSend *)

SenderTest ==
    /\ sender = "test"
    /\ sender' = IF RunFlag THEN "wait" ELSE "exited"
    /\ UNCHANGED <<handlers, packetMap, msg, recvQ, sendQ, listener, owner, round,
                   clientVars, handled, badHead>>

SendMsg ==
    /\ sender = "wait"
    /\ sendQ # <<>>
    /\ inbox' = [inbox EXCEPT ![Head(sendQ).to] = Append(@, Head(sendQ).re)]
    /\ sendQ' = Tail(sendQ)
    /\ sender' = "test"
    /\ UNCHANGED <<handlers, packetMap, msg, recvQ, listener, owner, round,
                   wire, sent, handled, badHead>>

(* After a second without a message; Stop notifies in vain, the predicate  *)
(* does not look at runFlag_.                                              *)
SendTimeout ==
    /\ sender = "wait"
    /\ sendQ = <<>>
    /\ sender' = "test"
    /\ UNCHANGED <<handlers, packetMap, msg, recvQ, sendQ, listener, owner, round,
                   clientVars, handled, badHead>>

Sender == SenderTest \/ SendMsg \/ SendTimeout

-----------------------------------------------------------------------------
(* The task.  Callbacks change only while no listener runs. *)

RegisterPacketHandler(t) ==
    /\ owner = "idle"
    /\ handlers' = handlers \cup {t}
    /\ UNCHANGED <<serverVars, owner, round, clientVars, handled, badHead>>

UnregisterPacketHandler(t) ==
    /\ owner = "idle"
    /\ handlers' = handlers \ {t}
    /\ UNCHANGED <<serverVars, owner, round, clientVars, handled, badHead>>

(* A new Communication with empty queues; packetMap_ stays as it is. *)
StartDisposeClientAsk ==
    /\ owner = "idle"
    /\ round < MaxRounds
    /\ round' = round + 1
    /\ owner' = "running"
    /\ listener' = "test"
    /\ sender' = "test"
    /\ UNCHANGED <<handlers, packetMap, msg, recvQ, sendQ, clientVars, handled, badHead>>

(* RunOpBinary returns: the program has ended or crashed, and what it did  *)
(* not get into the socket is gone.                                        *)
ProgramExits ==
    /\ owner = "running"
    /\ owner' = "returned"
    /\ \E kept \in [Clients -> UNION {0..Len(wire[c]) : c \in Clients}] :
         /\ \A c \in Clients : kept[c] <= Len(wire[c])
         /\ wire' = [c \in Clients |-> Take(wire[c], kept[c])]
    /\ UNCHANGED <<handlers, serverVars, round, sent, inbox, handled, badHead>>

BeginStop ==
    /\ owner = "returned"
    /\ owner' = "joining"
    /\ UNCHANGED <<handlers, serverVars, round, clientVars, handled, badHead>>

JoinListener ==
    /\ owner = "joining"
    /\ listener = "exited"
    /\ owner' = "closing"
    /\ listener' = "off"
    /\ UNCHANGED <<handlers, packetMap, msg, recvQ, sendQ, sender, round,
                   clientVars, handled, badHead>>

(* communication_.reset(): the sender is joined, queues and sockets go. *)
EndStop ==
    /\ owner = "closing"
    /\ sender = "exited"
    /\ owner' = "idle"
    /\ sender' = "off"
    /\ recvQ' = <<>>
    /\ sendQ' = <<>>
    /\ wire' = [c \in Clients |-> <<>>]
    /\ UNCHANGED <<handlers, packetMap, msg, listener, round, sent, inbox, handled, badHead>>

Task ==
    \/ StartDisposeClientAsk \/ ProgramExits \/ BeginStop \/ JoinListener \/ EndStop
    \/ \E t \in Extensible : RegisterPacketHandler(t) \/ UnregisterPacketHandler(t)

(* External: a client sends a packet.  Sockets keep the order of a client. *)
PacketsSent == FoldFunction(LAMBDA s, n : Len(s) + n, 0, sent)

ClientSend(c, p) ==
    /\ owner = "running"
    /\ PacketsSent < MaxPackets * round
    /\ Strangers \/ p.type \in handlers
    /\ sent' = [sent EXCEPT ![c] = Append(@, p)]
    /\ wire' = [wire EXCEPT ![c] = @ \o Units(Len(sent[c]) + 1, p)]
    /\ UNCHANGED <<handlers, serverVars, owner, round, inbox, handled, badHead>>

(* A chunk of any size reaches the hook that Start has set. *)
MsgHandle(c) ==
    /\ owner \in {"running", "returned", "joining"}
    /\ \E k \in 1..Len(wire[c]) :
         /\ recvQ' = Append(recvQ, [from |-> c, rest |-> Take(wire[c], k)])
         /\ wire' = [wire EXCEPT ![c] = Drop(@, k)]
    /\ UNCHANGED <<handlers, packetMap, msg, sendQ, listener, sender, owner, round,
                   sent, inbox, handled, badHead>>

Next ==
    \/ Listener
    \/ Sender
    \/ Task
    \/ \E c \in Clients : MsgHandle(c) \/ \E p \in Packets : ClientSend(c, p)

Spec == Init /\ [][Next]_vars

(* Both threads of the server and the sockets make progress, waits end     *)
(* after a second, and Stop, once called, is pursued.                      *)
FairSpec ==
    /\ Spec
    /\ WF_vars(Listener)
    /\ WF_vars(Sender)
    /\ WF_vars(JoinListener)
    /\ WF_vars(EndStop)
    /\ \A c \in Clients : WF_vars(MsgHandle(c))

-----------------------------------------------------------------------------
Heading == [n : Nat, p : Packets \cup {NoHead.p}]

Unit == Nat \X Nat

TypeOK ==
    /\ BuiltIn \subseteq handlers /\ handlers \subseteq BuiltIn \cup Extensible
    /\ packetMap \in [Clients -> [head : Heading, ask : Seq(Unit)]]
    /\ msg \in [from : Clients \cup {"nobody"}, rest : Seq(Unit)]
    /\ recvQ \in Seq([from : Clients, rest : Seq(Unit)])
    /\ sendQ \in Seq([to : Clients, re : Nat])
    /\ listener \in ListenerPc
    /\ sender \in SenderPc
    /\ owner \in OwnerPc
    /\ round \in 0..MaxRounds
    /\ wire \in [Clients -> Seq(Unit)]
    /\ sent \in [Clients -> Seq(Packets)]
    /\ handled \in [Clients -> Seq(Nat)]
    /\ inbox \in [Clients -> Seq(Nat)]
    /\ badHead \in BOOLEAN

(* The units of the head that is read, and what client c has in the queue. *)
HeadRead(c) ==
    IF packetMap[c].head = NoHead THEN <<>> ELSE HeadUnits(packetMap[c].head.n)

InMsg(c) == IF msg.from = c THEN msg.rest ELSE <<>>

Chunks(queue, c) ==
    [i \in DOMAIN queue |-> IF queue[i].from = c THEN queue[i].rest ELSE <<>>]

InQueue(c) == FlattenSeq(Chunks(recvQ, c))

(* Everything of client c that was sent and not yet turned into a packet,  *)
(* wherever it is, in the order of reading.                                *)
Undigested(c) == HeadRead(c) \o packetMap[c].ask \o InMsg(c) \o InQueue(c) \o wire[c]

(* The stream of a client that sent these packets, from number first on.   *)
PacketUnits(packets, first) ==
    [i \in 1..(Len(packets) + 1 - first) |->
        Units(first - 1 + i, packets[first - 1 + i])]

Stream(c, first) == FlattenSeq(PacketUnits(sent[c], first))

(* The packets of client c before number m that callbacks should have got. *)
SoundOnes(packets, m) ==
    [i \in 1..(m - 1) |-> IF packets[i].sound THEN <<i>> ELSE <<>>]

Sound(c, m) == FlattenSeq(SoundOnes(sent[c], m))

(* Reassembly is exact: however the stream of a client is cut into chunks  *)
(* and mixed with those of others, the callbacks got its sound packets up  *)
(* to some point m, in order, each once, and what follows m is intact; no  *)
(* head is invalid, which packet.cpp:128 says should not occur.            *)
FramingExact ==
    /\ ~badHead
    /\ owner \in {"running", "returned", "joining"} =>
         \A c \in Clients : \E m \in 1..(Len(sent[c]) + 1) :
             /\ handled[c] = Sound(c, m)
             /\ IsPrefix(Undigested(c), Stream(c, m))
             /\ owner = "running" => Undigested(c) = Stream(c, m)

(* What client c asked for, of the packets its callbacks got, and the      *)
(* answers to it that the sender has not sent yet.                         *)
Requests(numbers, packets) ==
    [i \in DOMAIN numbers |->
        IF packets[numbers[i]].type \in Answered THEN <<numbers[i]>> ELSE <<>>]

Answers(c) == FlattenSeq(Requests(handled[c], sent[c]))

Replies(queue, c) ==
    [i \in DOMAIN queue |-> IF queue[i].to = c THEN <<queue[i].re>> ELSE <<>>]

InSendQueue(c) == FlattenSeq(Replies(sendQ, c))

(* A client gets the answers to its own requests, in their order; what is  *)
(* missing is in the queue of the sender, or was there when Stop came.     *)
AnswersInOrder ==
    \A c \in Clients :
        LET all == inbox[c] \o InSendQueue(c)
        IN IF owner = "idle" THEN IsPrefix(all, Answers(c)) ELSE all = Answers(c)

(* The listener finds a complete packet without callback over and over.    *)
Stuck ==
    /\ listener = "distribute"
    /\ msg.rest # <<>>
    /\ Reading.head # NoHead
    /\ Len(Reading.ask) = Reading.head.p.len
    /\ Reading.head.p.type \notin handlers

(* While the program runs, every packet is read, handled and answered,     *)
(* unless one without callback is in front of it or holds the listener.    *)
Served(c, n) ==
    LET p == sent[c][n]
    IN p.sound => /\ n \in Range(handled[c])
                  /\ p.type \in Answered => n \in Range(inbox[c])

KnownTo(c, n) == \A m \in 1..n : sent[c][m].sound => sent[c][m].type \in BuiltIn

EveryRequestAnswered ==
    []<>(\/ owner # "running" \/ Stuck
         \/ \A c \in Clients : \A n \in DOMAIN sent[c] : KnownTo(c, n) => Served(c, n))

(* The only thing that can keep Stop from returning is a packet without    *)
(* callback in front of further data.                                      *)
StopReturnsUnlessStuck == owner = "joining" ~> (owner = "idle" \/ Stuck)
=============================================================================
