------------------------ MODULE RealTimeParserProofs ------------------------
(***************************************************************************)
(* Proofs about RealTimeParser, for any sub-parsers and any number of      *)
(* kernels and items.                                                      *)
(*                                                                         *)
(* TablesQuietWhileRead is an argument over the loop of Stop: a sub-parser *)
(* is still to be stopped or its plugins are done, and nothing but a Start *)
(* makes them undone (Stopping).  Start is past the join of the thread     *)
(* that reads when it adds tasks (Order).  AbortsOnlyAfterLostFinish needs *)
(* to know who is going to join the mapping thread (Joiner).               *)
(*                                                                         *)
(* OutputOfOneKernel follows the items of a kernel from the stream to the  *)
(* table and on to the output (second part, CInv): what is taken out of a  *)
(* stream is in the table of the plugin that holds it, and a plugin with   *)
(* no task left holds the stream of the last Start.                        *)
(***************************************************************************)
EXTENDS RealTimeParser, TLAPS

Names == {"instr", "icache", "ccu", "mte"}
StopOps == {"shutdown", "wait", "spawn"}
AllDone == \A parser \in Parsers : Done(parser)
Occurs(x, s) == \E i \in DOMAIN s : s[i] = x

Types ==
    /\ kernel \in Nat
    /\ isStop \in BOOLEAN /\ restarted \in BOOLEAN /\ aborted \in BOOLEAN
    /\ call \in [op : Operations, todo : Seq(Names)]
    /\ tasks \in [Plugins -> Nat] /\ plugin \in [Plugins -> Threads]
    /\ after \in {"none", "merge", "insert", "map", "write", "done"}
    /\ call.op = "join" => kernel # 0

Stopping ==
    /\ call.op \in {"shutdown", "wait"} =>
          call.todo # <<>> /\ \A parser \in Parsers : Occurs(parser, call.todo) \/ Done(parser)
    /\ call.op = "spawn" => AllDone

Order ==
    /\ call.op \in StopOps => isStop /\ after = "none"
    /\ call.op \in {"open", "poll"} => ~isStop
    /\ ~isStop => after = "none"

Joiner ==
    ~restarted =>
        /\ ~aborted
        /\ call.op = "join" => isStop
        /\ mapper # "none" =>
              /\ pc2Code # 0
              /\ ~isStop \/ call.op \in StopOps \/ after \in {"merge", "insert", "map"}

IInv == Types /\ Stopping /\ Order /\ TablesQuietWhileRead /\ Joiner

-----------------------------------------------------------------------------
LEMMA InConcat ==
    ASSUME NEW s \in Seq(Names), NEW t \in Seq(Names), NEW x,
           Occurs(x, s) \/ Occurs(x, t)
    PROVE  Occurs(x, s \o t)
  <1>1. CASE Occurs(x, s)
    <2>1. PICK i \in DOMAIN s : s[i] = x
      BY <1>1 DEF Occurs
    <2>2. i \in DOMAIN (s \o t) /\ (s \o t)[i] = x
      BY <2>1
    <2> QED
      BY <2>2 DEF Occurs
  <1>2. CASE Occurs(x, t)
    <2>1. PICK i \in DOMAIN t : t[i] = x
      BY <1>2 DEF Occurs
    <2>2. Len(s) + i \in DOMAIN (s \o t) /\ (s \o t)[Len(s) + i] = x
      BY <2>1
    <2> QED
      BY <2>2 DEF Occurs
  <1> QED
    BY <1>1, <1>2

LEMMA Enabled ==
    ASSUME NEW parser \in Names
    PROVE  /\ IfEnabled(parser) \in Seq(Names)
           /\ parser \in Parsers => Occurs(parser, IfEnabled(parser))
  <1>1. CASE parser \in Parsers
    <2>1. IfEnabled(parser) = <<parser>>
      BY <1>1 DEF IfEnabled
    <2>2. 1 \in DOMAIN <<parser>> /\ <<parser>>[1] = parser
      OBVIOUS
    <2> QED
      BY <2>1, <2>2 DEF Occurs
  <1>2. CASE parser \notin Parsers
    BY <1>2 DEF IfEnabled
  <1> QED
    BY <1>1, <1>2

(* Stop has every sub-parser on its list. *)
LEMMA StopOrderComplete ==
    /\ StopOrder \in Seq(Names) /\ StopOrder # <<>>
    /\ \A parser \in Parsers : Occurs(parser, StopOrder)
  <1> DEFINE a == IfEnabled("icache")
             b == IfEnabled("ccu")
             c == IfEnabled("mte")
             d == <<"instr">>
  <1>1. a \in Seq(Names) /\ b \in Seq(Names) /\ c \in Seq(Names) /\ d \in Seq(Names)
    BY Enabled DEF Names
  <1>2. StopOrder = a \o b \o c \o d
    BY DEF StopOrder
  <1> HIDE DEF a, b, c
  <1>3. a \o b \in Seq(Names) /\ a \o b \o c \in Seq(Names)
    BY <1>1
  <1>4. Occurs("instr", d)
    <2>1. 1 \in DOMAIN d /\ d[1] = "instr"
      OBVIOUS
    <2> QED
      BY <2>1 DEF Occurs
  <1> HIDE DEF d
  <1>5. ASSUME NEW parser \in Parsers
        PROVE  Occurs(parser, a) \/ Occurs(parser, b) \/ Occurs(parser, c) \/ Occurs(parser, d)
    <2>1. parser \in Names
      BY ParsersAssumption DEF Names
    <2>2. CASE parser = "icache"
      BY <2>2, Enabled DEF Names, a
    <2>3. CASE parser = "ccu"
      BY <2>3, Enabled DEF Names, b
    <2>4. CASE parser = "mte"
      BY <2>4, Enabled DEF Names, c
    <2>5. CASE parser = "instr"
      BY <2>5, <1>4
    <2> QED
      BY <2>1, <2>2, <2>3, <2>4, <2>5 DEF Names
  <1>6. ASSUME NEW parser \in Parsers PROVE Occurs(parser, StopOrder)
    <2>1. Occurs(parser, a) \/ Occurs(parser, b) => Occurs(parser, a \o b)
      BY <1>1, InConcat
    <2>2. Occurs(parser, a \o b) \/ Occurs(parser, c) => Occurs(parser, a \o b \o c)
      BY <1>1, <1>3, InConcat
    <2>3. Occurs(parser, a \o b \o c) \/ Occurs(parser, d) => Occurs(parser, a \o b \o c \o d)
      BY <1>1, <1>3, InConcat
    <2> QED
      BY <1>2, <1>5, <2>1, <2>2, <2>3
  <1>7. StopOrder # <<>>
    <2>1. Occurs("instr", StopOrder)
      BY <1>6, ParsersAssumption
    <2> QED
      BY <2>1 DEF Occurs
  <1> QED
    BY <1>1, <1>2, <1>3, <1>6, <1>7

LEMMA StartOrderTyped == StartOrder \in Seq(Names)
  <1>1. /\ IfEnabled("icache") \in Seq(Names) /\ IfEnabled("ccu") \in Seq(Names)
        /\ IfEnabled("mte") \in Seq(Names) /\ <<"instr">> \in Seq(Names)
    BY Enabled DEF Names
  <1> QED
    BY <1>1 DEF StartOrder

-----------------------------------------------------------------------------
LEMMA InitIInv == Init => IInv
  <1> SUFFICES ASSUME Init PROVE IInv
    OBVIOUS
  <1>1. call \in [op : Operations, todo : Seq(Names)] /\ call.op = "none"
    BY DEF Init, NoCall, Operations
  <1> QED
    BY <1>1 DEF Init, IInv, Types, Stopping, Order, TablesQuietWhileRead, Joiner,
                StopOps, Threads

(* What keeps the plugins as they are keeps what is known of them. *)
LEMMA SameDone ==
    UNCHANGED <<tasks, plugin>> => \A parser \in Parsers : Done(parser)' = Done(parser)
  BY DEF Done

(* One part of IInv is about the plugins; the rest follows from the call.  *)
LEMMA CallTyped ==
    ASSUME call \in [op : Operations, todo : Seq(Names)], call.todo # <<>>, NEW op \in Operations
    PROVE  /\ [op |-> op, todo |-> Tail(call.todo)] \in [op : Operations, todo : Seq(Names)]
           /\ [call EXCEPT !.op = op] = [op |-> op, todo |-> call.todo]
           /\ NoCall \in [op : Operations, todo : Seq(Names)]
           /\ Current \in Names
  BY DEF NoCall, Operations, Current

(* Start *)
LEMMA StartKeeps == ASSUME IInv, ~aborted, Start PROVE IInv'
  <1> USE DEF IInv, Types, Order, StopOps
  <1>1. CASE StartBegin
    <2>1. call' \in [op : Operations, todo : Seq(Names)] /\ call'.op = "join"
      BY <1>1, StartOrderTyped DEF StartBegin, Operations
    <2>2. Types' /\ Order' /\ Stopping' /\ TablesQuietWhileRead'
      BY <1>1, <2>1, SameDone
         DEF StartBegin, Stopping, TablesQuietWhileRead, streams, plugins, output
    <2>3. Joiner'
      BY <1>1, <2>1, NoCall.op = "none" DEF StartBegin, Joiner, mapping, output, NoCall
    <2> QED
      BY <2>2, <2>3
  <1>2. CASE StartJoin
    <2>1. call' = [op |-> "open", todo |-> call.todo]
      BY <1>2 DEF StartJoin
    <2>2. /\ aborted' \in BOOLEAN
          /\ ~restarted => mapper = "none"
      BY <1>2 DEF StartJoin, GetPc2Code, Joiner
    <2>3. Types'
      BY <1>2, <2>1, <2>2 DEF StartJoin, Operations, streams, plugins
    <2>4. Order' /\ Stopping' /\ TablesQuietWhileRead'
      BY <1>2, <2>1 DEF StartJoin, Stopping, TablesQuietWhileRead
    <2>5. Joiner'
      BY <1>2, <2>1, <2>2 DEF StartJoin, GetPc2Code, Joiner
    <2> QED
      BY <2>3, <2>4, <2>5
  <1>3. CASE StartParser
    <2>1. call' = [op |-> "poll", todo |-> call.todo] /\ call.op = "open"
      BY <1>3 DEF StartParser
    <2>2. tasks' \in [Plugins -> Nat]
      BY <1>3 DEF StartParser
    <2>3. Types'
      BY <1>3, <2>1, <2>2 DEF StartParser, Operations, plugins, output
    <2>4. Order' /\ Stopping' /\ TablesQuietWhileRead'
      BY <1>3, <2>1 DEF StartParser, Stopping, TablesQuietWhileRead, output
    <2>5. Joiner'
      BY <1>3, <2>1 DEF StartParser, Joiner, mapping, output
    <2> QED
      BY <2>3, <2>4, <2>5
  <1>4. CASE StartPolled
    <2>1. call' \in [op : Operations, todo : Seq(Names)] /\ call'.op \in {"none", "open"}
      BY <1>4 DEF StartPolled, NextParser, NoCall, Operations
    <2>2. Types' /\ Order' /\ Stopping' /\ TablesQuietWhileRead'
      BY <1>4, <2>1, SameDone
         DEF StartPolled, Stopping, TablesQuietWhileRead, streams, plugins, output
    <2>3. Joiner'
      BY <1>4, <2>1 DEF StartPolled, Joiner, mapping, output
    <2> QED
      BY <2>2, <2>3
  <1> QED
    BY <1>1, <1>2, <1>3, <1>4 DEF Start

(* Stop *)
LEMMA StopKeeps == ASSUME IInv, ~aborted, Stop PROVE IInv'
  <1> USE DEF IInv, Types, Order, StopOps
  <1>1. CASE StopBegin
    <2>1. /\ call' = [op |-> "shutdown", todo |-> StopOrder]
          /\ call' \in [op : Operations, todo : Seq(Names)]
      BY <1>1, StopOrderComplete DEF StopBegin, Operations
    <2>2. Types' /\ Order'
      BY <1>1, <2>1 DEF StopBegin, streams, plugins, output
    <2>3. Stopping'
      BY <2>1, StopOrderComplete DEF Stopping
    <2>4. TablesQuietWhileRead' /\ Joiner'
      BY <1>1, <2>1 DEF StopBegin, TablesQuietWhileRead, Joiner, mapping, output
    <2> QED
      BY <2>2, <2>3, <2>4
  <1>2. CASE Shutdown
    <2>1. call' = [op |-> "wait", todo |-> call.todo] /\ call.op = "shutdown"
      BY <1>2 DEF Shutdown
    <2>2. Types' /\ Order'
      BY <1>2, <2>1 DEF Shutdown, Operations, plugins, output
    <2>3. Stopping' /\ TablesQuietWhileRead'
      BY <1>2, <2>1, SameDone DEF Shutdown, Stopping, TablesQuietWhileRead, plugins, output
    <2>4. Joiner'
      BY <1>2, <2>1 DEF Shutdown, Joiner, mapping, output
    <2> QED
      BY <2>2, <2>3, <2>4
  <1>3. CASE WaitForStop
    <2>1. /\ call.op = "wait" /\ call.todo # <<>>
          /\ Done(Current)
          /\ \A parser \in Parsers : Occurs(parser, call.todo) \/ Done(parser)
          /\ \A parser \in Parsers : Done(parser)' = Done(parser)
      BY <1>3, SameDone DEF WaitForStop, Stopping, streams, plugins
    <2>2. CASE Len(call.todo) > 1
      <3>1. /\ call' = [op |-> "shutdown", todo |-> Tail(call.todo)]
            /\ call' \in [op : Operations, todo : Seq(Names)]
            /\ call'.todo # <<>>
        <4>1. call' = [op |-> "shutdown", todo |-> Tail(call.todo)]
          BY <1>3, <2>2 DEF WaitForStop, StopGoesOn
        <4>2. Tail(call.todo) \in Seq(Names) /\ Len(Tail(call.todo)) > 0
          BY <2>1, <2>2
        <4>3. Tail(call.todo) # <<>>
          <5> DEFINE rest == Tail(call.todo)
          <5>1. rest \in Seq(Names) /\ Len(rest) > 0
            BY <4>2
          <5> HIDE DEF rest, IInv, Types, Order, StopOps
          <5>2. rest # <<>>
            BY <5>1
          <5> QED
            BY <5>2 DEF rest
        <4>4. "shutdown" \in Operations
          BY DEF Operations
        <4> HIDE DEF IInv, Types, Order, StopOps
        <4> QED
          BY <4>1, <4>2, <4>3, <4>4
      <3>2. ASSUME NEW parser \in Parsers, Occurs(parser, call.todo), ~Done(parser)
            PROVE  Occurs(parser, Tail(call.todo))
        <4>1. PICK i \in DOMAIN call.todo : call.todo[i] = parser
          BY <3>2 DEF Occurs
        <4>2. i # 1
          BY <2>1, <3>2, <4>1 DEF Current
        <4>3. i - 1 \in DOMAIN Tail(call.todo) /\ Tail(call.todo)[i - 1] = parser
          BY <2>1, <4>1, <4>2
        <4> QED
          BY <4>3 DEF Occurs
      <3>3. Stopping'
        BY <2>1, <3>1, <3>2 DEF Stopping
      <3>4. Types' /\ Order' /\ TablesQuietWhileRead' /\ Joiner'
        BY <1>3, <2>1, <3>1
           DEF WaitForStop, TablesQuietWhileRead, Joiner, streams, plugins, mapping, output
      <3> QED
        BY <3>3, <3>4
    <2>3. CASE ~(Len(call.todo) > 1)
      <3>1. call' = [op |-> "spawn", todo |-> <<>>]
        BY <1>3, <2>3 DEF WaitForStop, StopGoesOn
      <3>2. ASSUME NEW parser \in Parsers PROVE Done(parser)
        <4>1. CASE Occurs(parser, call.todo)
          <5>1. PICK i \in DOMAIN call.todo : call.todo[i] = parser
            BY <4>1 DEF Occurs
          <5>2. i = 1
            BY <2>3, <5>1
          <5> QED
            BY <2>1, <5>1, <5>2 DEF Current
        <4> QED
          BY <2>1, <4>1
      <3>3. Stopping'
        BY <2>1, <3>1, <3>2 DEF Stopping, AllDone
      <3>4. Types' /\ Order' /\ TablesQuietWhileRead' /\ Joiner'
        BY <1>3, <2>1, <3>1
           DEF WaitForStop, TablesQuietWhileRead, Joiner, Operations,
               streams, plugins, mapping, output
      <3> QED
        BY <3>3, <3>4
    <2> QED
      BY <2>2, <2>3
  <1>4. CASE SpawnAfter
    <2>1. /\ call' = NoCall /\ NoCall.op = "none" /\ after = "none" /\ isStop
          /\ call' \in [op : Operations, todo : Seq(Names)]
      BY <1>4 DEF SpawnAfter, NoCall, Operations
    <2>2. \A parser \in Parsers : Done(parser)'
      BY <1>4, SameDone DEF SpawnAfter, Stopping, AllDone, streams, plugins
    <2>3. Types' /\ Order' /\ Stopping' /\ TablesQuietWhileRead'
      BY <1>4, <2>1, <2>2 DEF SpawnAfter, Stopping, TablesQuietWhileRead, streams, plugins
    <2>4. Joiner'
      BY <1>4, <2>1 DEF SpawnAfter, Joiner, mapping
    <2> QED
      BY <2>3, <2>4
  <1> QED
    BY <1>1, <1>2, <1>3, <1>4 DEF Stop

(* A plugin's thread never makes undone what is done. *)
LEMMA PluginKeeps ==
    ASSUME IInv, NEW p \in Plugins, Plugin(p) \/ SetLog(p)
    PROVE  IInv'
  <1> USE DEF IInv, Types
  <1>1. /\ tasks' \in [Plugins -> Nat] /\ plugin' \in [Plugins -> Threads]
        /\ \A q \in Plugins : tasks[q] = 0 /\ plugin[q] = "idle" =>
                                  tasks'[q] = 0 /\ plugin'[q] = "idle"
    <2>1. CASE Take(p)
      BY <2>1 DEF Take, Threads
    <2>2. CASE Entry(p)
      BY <2>2 DEF Entry, Threads, streams
    <2>3. CASE ParseItem(p)
      BY <2>3 DEF ParseItem
    <2>4. CASE Leave(p)
      BY <2>4 DEF Leave, Threads, streams
    <2>5. CASE SetLog(p)
      BY <2>5 DEF SetLog, plugins
    <2> QED
      BY <2>1, <2>2, <2>3, <2>4, <2>5 DEF Plugin
  <1>2. \A parser \in Parsers : PluginsOf(parser) \subseteq Plugins
    BY DEF Plugins
  <1>3. \A parser \in Parsers : Done(parser) => Done(parser)'
    BY <1>1, <1>2 DEF Done
  <1>4. UNCHANGED <<kernel, isStop, call, mapping, output, restarted, aborted>>
    BY DEF Plugin, Take, Entry, ParseItem, Leave, SetLog
  <1>5. Types'
    BY <1>1, <1>4 DEF output
  <1>6. Stopping' /\ TablesQuietWhileRead'
    BY <1>3, <1>4 DEF Stopping, AllDone, TablesQuietWhileRead, output
  <1>7. Order' /\ Joiner'
    BY <1>4 DEF Order, Joiner, mapping, output
  <1> QED
    BY <1>5, <1>6, <1>7

(* The threads that Start and Stop leave behind, and the end. *)
LEMMA ThreadsKeep ==
    ASSUME IInv, ProcessAfterKernelExit \/ MapperEnds \/ ProgramEnds \/ Destroy
    PROVE  IInv'
  <1> USE DEF IInv, Types
  <1>1. /\ UNCHANGED <<kernel, isStop, call, streams, plugins, restarted, aborted>>
        /\ after' \in {"none", "merge", "insert", "map", "write", "done"}
        /\ after = "none" => after' = "none"
        /\ after' \in {"merge", "insert", "map", "write"} =>
               after \in {"merge", "insert", "map", "write"}
    BY DEF ProcessAfterKernelExit, Merge, InsertCache, MapSource, Visualize, MapperEnds,
           ProgramEnds, Destroy, output
  <1>2. Types'
    BY <1>1 DEF streams, plugins
  <1>3. Stopping' /\ TablesQuietWhileRead'
    BY <1>1, SameDone DEF Stopping, AllDone, TablesQuietWhileRead, streams, plugins
  <1>4. Order'
    BY <1>1 DEF Order
  <1>5. Joiner'
    <2>1. CASE Merge \/ InsertCache
      BY <1>1, <2>1 DEF Merge, InsertCache, Joiner, Order, StopOps, mapping
    <2>2. CASE MapSource
      BY <1>1, <2>2 DEF MapSource, Joiner, Order, StopOps
    <2>3. CASE Visualize
      BY <1>1, <2>3 DEF Visualize, Joiner, Order, StopOps, mapping
    <2>4. CASE MapperEnds \/ Destroy \/ ProgramEnds
      BY <1>1, <2>4 DEF MapperEnds, Destroy, ProgramEnds, Joiner, Order, StopOps,
                        mapping, output
    <2> QED
      BY <2>1, <2>2, <2>3, <2>4 DEF ProcessAfterKernelExit
  <1> QED
    BY <1>2, <1>3, <1>4, <1>5

LEMMA StutterKeeps == ASSUME IInv, UNCHANGED vars PROVE IInv'
  BY SameDone DEF vars, IInv, Types, Stopping, AllDone, Order, TablesQuietWhileRead, Joiner

-----------------------------------------------------------------------------
(* The invariant of the threads of the real-time parser: who is stopped,   *)
(* who reads, who joins (Start, Stop, ProcessAfterKernelExit).             *)
THEOREM Invariant == Spec => []IInv
  <1>1. IInv /\ [Next]_vars => IInv'
    BY StartKeeps, StopKeeps, PluginKeeps, ThreadsKeep, StutterKeeps DEF Next
  <1> QED
    BY InitIInv, <1>1, PTL DEF Spec

(* ProcessAfterKernelExit reads the tables without a lock, and no plugin   *)
(* is in Entry, or queued for it, while it does.                           *)
THEOREM TablesQuietCorrect == Spec => []TablesQuietWhileRead
  <1>1. IInv => TablesQuietWhileRead
    BY DEF IInv
  <1> QED
    BY <1>1, Invariant, PTL

(* No std::thread of the parser is assigned while it is joinable, as long  *)
(* as every COLLECT_START follows the PROF_FINISH of the kernel before.    *)
THEOREM AbortsOnlyAfterLostFinishCorrect == Spec => []AbortsOnlyAfterLostFinish
  <1>1. IInv => AbortsOnlyAfterLostFinish
    BY DEF IInv, Joiner, AbortsOnlyAfterLostFinish
  <1> QED
    BY <1>1, Invariant, PTL

-----------------------------------------------------------------------------
(* What the streams and the tables hold *)

Entries == Nat \X Nat
Reading == after \in {"merge", "insert", "map", "write"}
Opened(parser) == \A p \in PluginsOf(parser) : center[p] = path

(* Items of a stream that its plugin has taken out of it. *)
Taken(p, k) == pushed[p][k] - Len(stream[p][k].queue)

(* A table with items of kernel k up to the nth, in order; all of them if  *)
(* the plugin keeps none elsewhere.                                        *)
Within(p, s, k, n) ==
    \A i \in DOMAIN s :
        /\ s[i][1] = k /\ s[i][2] \in 1..n
        /\ ~Keeps(p) => s[i][2] = i
        /\ \A j \in DOMAIN s : i < j => s[i][2] < s[j][2]

Contents ==
    /\ kernel \in 0..MaxKernels /\ path \in Nat /\ pc2Code \in Nat
    /\ center \in [Plugins -> 0..MaxKernels] /\ held \in [Plugins -> 0..MaxKernels]
    /\ stream \in [Plugins -> [Kernels -> [active : BOOLEAN, queue : Seq(Entries)]]]
    /\ pushed \in [Plugins -> [Kernels -> Nat]]
    /\ table \in [Plugins -> Seq(Entries)] /\ view \in [Plugins -> Seq(Entries)]
    /\ written \in Seq([path : Kernels, source : Nat, view : [Plugins -> Seq(Entries)]])

(* Start opens every sub-parser, and nothing is accepted before it has.    *)
Opening ==
    /\ path = IF call.op = "join" THEN kernel - 1 ELSE kernel
    /\ call.op \in {"join", "open", "poll"} => call.todo # <<>>
    /\ call.op = "join" => \A parser \in Parsers : Occurs(parser, call.todo)
    /\ call.op = "open" =>
          \A parser \in Parsers : Occurs(parser, call.todo) \/ Opened(parser)
    /\ call.op = "poll" =>
          \A parser \in Parsers : Occurs(parser, Tail(call.todo)) \/ Opened(parser)
    /\ call.op \notin {"open", "poll"} => \A parser \in Parsers : Opened(parser)
    /\ \A p \in Plugins, k \in Kernels :
          k > path \/ (k = path /\ call.op \in {"open", "poll"}) => pushed[p][k] = 0
    /\ ~isStop \/ call.op \in StopOps \/ Reading => path # 0

(* A stream holds what was accepted and not taken; an active one is taken  *)
(* from by the loop that holds it and by no other.                         *)
QueueOf(p, k) ==
    /\ Taken(p, k) \in Nat
    /\ \A i \in DOMAIN stream[p][k].queue : stream[p][k].queue[i] = <<k, Taken(p, k) + i>>
    /\ stream[p][k].active /\ ~(plugin[p] = "looping" /\ held[p] = k) => Taken(p, k) = 0

(* A table is of the stream the plugin holds; a plugin without a task      *)
(* holds the stream of the last Start, however late it entered.            *)
TableOf(p) ==
    /\ held[p] = 0 \/ ~Clears(p) => table[p] = <<>>
    /\ held[p] # 0 => Within(p, table[p], held[p], Taken(p, held[p]))
    /\ plugin[p] = "looping" =>
          /\ held[p] # 0
          /\ stream[p][held[p]].active /\ ~Keeps(p) => Len(table[p]) = Taken(p, held[p])
    /\ held[p] = center[p] \/ tasks[p] # 0 \/ plugin[p] = "entering"
    /\ tasks[p] # 0 \/ plugin[p] # "idle" => center[p] # 0

Queues == \A p \in Plugins : \A k \in Kernels : QueueOf(p, k)
Tables == \A p \in Plugins : TableOf(p)

Views ==
    /\ pc2Code \in {0, path}
    /\ after = "write" => pc2Code = path
    /\ Reading => \A p \in Plugins : Within(p, view[p], path, pushed[p][path])

OutputOf(w) ==
    /\ w.source = w.path
    /\ \A p \in Plugins : Within(p, w.view[p], w.path, pushed[p][w.path])
Outputs == \A i \in DOMAIN written : OutputOf(written[i])

CInv == IInv /\ Contents /\ Opening /\ Queues /\ Tables /\ Views /\ Outputs

-----------------------------------------------------------------------------
LEMMA FourInConcat ==
    ASSUME NEW a \in Seq(Names), NEW b \in Seq(Names),
           NEW c \in Seq(Names), NEW d \in Seq(Names),
           NEW x, Occurs(x, a) \/ Occurs(x, b) \/ Occurs(x, c) \/ Occurs(x, d)
    PROVE  Occurs(x, a \o b \o c \o d)
  <1>1. a \o b \in Seq(Names) /\ a \o b \o c \in Seq(Names)
    OBVIOUS
  <1>2. Occurs(x, a) \/ Occurs(x, b) => Occurs(x, a \o b)
    BY InConcat
  <1>3. Occurs(x, a \o b) \/ Occurs(x, c) => Occurs(x, a \o b \o c)
    BY <1>1, InConcat
  <1>4. Occurs(x, a \o b \o c) \/ Occurs(x, d) => Occurs(x, a \o b \o c \o d)
    BY <1>1, InConcat
  <1> QED
    BY <1>2, <1>3, <1>4

LEMMA StartOrderComplete ==
    StartOrder # <<>> /\ \A parser \in Parsers : Occurs(parser, StartOrder)
  <1>1. ASSUME NEW parser \in Parsers PROVE Occurs(parser, StartOrder)
    <2> DEFINE a == <<"instr">>
               b == IfEnabled("icache")
               c == IfEnabled("ccu")
               d == IfEnabled("mte")
    <2>1. a \in Seq(Names) /\ b \in Seq(Names) /\ c \in Seq(Names) /\ d \in Seq(Names)
      BY Enabled DEF Names
    <2>2. Occurs("instr", a)
      <3>1. 1 \in DOMAIN a /\ a[1] = "instr"
        OBVIOUS
      <3> QED
        BY <3>1 DEF Occurs
    <2>3. StartOrder = a \o b \o c \o d
      BY DEF StartOrder
    <2> HIDE DEF a
    <2>4. parser \in Names
      BY ParsersAssumption DEF Names
    <2>5. Occurs(parser, a) \/ Occurs(parser, b) \/ Occurs(parser, c) \/ Occurs(parser, d)
      BY <2>2, <2>4, Enabled DEF Names
    <2> HIDE DEF b, c, d
    <2> QED
      BY <2>1, <2>3, <2>5, FourInConcat
  <1>2. Occurs("instr", StartOrder)
    BY <1>1, ParsersAssumption
  <1> QED
    BY <1>1, <1>2 DEF Occurs

LEMMA WithinGrows ==
    ASSUME NEW p, NEW s, NEW k, NEW n \in Nat, NEW m \in Nat, n <= m, Within(p, s, k, n)
    PROVE  Within(p, s, k, m)
  BY DEF Within

LEMMA WithinAppend ==
    ASSUME NEW p, NEW s \in Seq(Entries), NEW k \in Nat, NEW n \in Nat, Within(p, s, k, n),
           ~Keeps(p) => Len(s) = n
    PROVE  Within(p, Append(s, <<k, n + 1>>), k, n + 1)
  <1> DEFINE e == <<k, n + 1>>
             t == Append(s, e)
  <1>1. e \in Entries /\ e[1] = k /\ e[2] = n + 1
    BY DEF Entries
  <1> HIDE DEF e
  <1>2. /\ DOMAIN s = 1..Len(s) /\ Len(s) \in Nat /\ DOMAIN t = 1..(Len(s) + 1)
        /\ \A i \in 1..Len(s) : t[i] = s[i]
        /\ t[Len(s) + 1] = e
    BY <1>1
  <1> HIDE DEF t
  <1>3. \A i \in DOMAIN t : i = Len(s) + 1 \/ i \in 1..Len(s)
    <2> DEFINE m == Len(s)
    <2>1. DOMAIN t = 1..(m + 1) /\ m \in Nat
      BY <1>2
    <2> HIDE DEF m
    <2>2. \A i \in DOMAIN t : i = m + 1 \/ i \in 1..m
      BY ONLY <2>1
    <2> QED
      BY <2>2 DEF m
  <1>4. ASSUME NEW i \in 1..Len(s)
        PROVE  /\ t[i][1] = k /\ t[i][2] \in 1..n
               /\ ~Keeps(p) => t[i][2] = i
               /\ \A j \in 1..Len(s) : i < j => t[i][2] < t[j][2]
    BY <1>2, <1>4 DEF Within
  <1>5. ASSUME NEW i \in DOMAIN t
        PROVE  /\ t[i][1] = k /\ t[i][2] \in 1..(n + 1)
               /\ ~Keeps(p) => t[i][2] = i
               /\ \A j \in DOMAIN t : i < j => t[i][2] < t[j][2]
    <2>1. CASE i = Len(s) + 1
      <3>1. t[i] = e
        BY <1>2, <2>1
      <3>2. t[i][1] = k /\ t[i][2] = n + 1
        BY <1>1, <3>1
      <3>3. ~Keeps(p) => n + 1 = i
        BY <2>1
      <3>4. n + 1 \in 1..(n + 1)
        OBVIOUS
      <3>5. ASSUME NEW j \in DOMAIN t, i < j PROVE FALSE
        <4> DEFINE m == Len(s)
        <4>1. m \in Nat /\ i = m + 1 /\ (j = m + 1 \/ j \in 1..m)
          BY <1>2, <1>3, <2>1
        <4> HIDE DEF m
        <4> QED
          BY ONLY <3>5, <4>1
      <3> QED
        BY <3>2, <3>3, <3>4, <3>5
    <2>2. CASE i \in 1..Len(s)
      <3>1. t[i][1] = k /\ t[i][2] \in 1..n /\ (~Keeps(p) => t[i][2] = i)
        BY <1>4, <2>2
      <3>2. ASSUME NEW j \in DOMAIN t, i < j PROVE t[i][2] < t[j][2]
        <4>1. CASE j = Len(s) + 1
          <5>1. t[j][2] = n + 1
            BY <1>1, <1>2, <4>1
          <5>2. t[i][2] \in 1..n
            BY <3>1
          <5> QED
            BY ONLY <5>1, <5>2, n \in Nat
        <4>2. CASE j \in 1..Len(s)
          BY <1>4, <2>2, <3>2, <4>2
        <4> QED
          BY <1>3, <4>1, <4>2
      <3> QED
        BY <3>1, <3>2
    <2> QED
      BY <1>3, <2>1, <2>2
  <1>6. Within(p, t, k, n + 1)
    BY <1>5 DEF Within
  <1> QED
    BY <1>6 DEF t, e

LEMMA PluginsOfParsers ==
    /\ \A parser \in Parsers : PluginsOf(parser) \subseteq Plugins
    /\ \A p \in Plugins : \E parser \in Parsers : p \in PluginsOf(parser)
  BY DEF Plugins

LEMMA OpenedAll ==
    ASSUME \A parser \in Parsers : Opened(parser)
    PROVE  \A p \in Plugins : center[p] = path
  BY PluginsOfParsers DEF Opened

LEMMA InitCInv == Init => CInv
  <1> SUFFICES ASSUME Init PROVE CInv
    OBVIOUS
  <1>1. <<>> \in Seq(Entries) /\ Len(<<>>) = 0 /\ DOMAIN <<>> = {}
    OBVIOUS
  <1>2. call.op = "none" /\ ~Reading
    BY DEF Init, NoCall, Reading
  <1>3. Contents
    BY BoundsAssumption DEF Init, Contents, NoView, Dropped, Entries
  <1>4. Opening
    BY <1>2, PluginsOfParsers DEF Init, Opening, Opened, StopOps, Kernels
  <1>5. Queues
    BY <1>1 DEF Init, Queues, QueueOf, Taken, Dropped
  <1>6. Tables
    BY <1>1 DEF Init, Tables, TableOf, NoView
  <1>7. Views /\ Outputs
    BY <1>2 DEF Init, Views, Outputs
  <1> QED
    BY InitIInv, <1>3, <1>4, <1>5, <1>6, <1>7 DEF CInv

(* What an action leaves alone. *)
LEMMA QuietKeeps ==
    ASSUME Queues, Tables, UNCHANGED <<streams, plugins>>
    PROVE  Queues' /\ Tables'
  BY DEF Queues, Tables, QueueOf, TableOf, Taken, Within, streams, plugins

LEMMA ContentsKeep ==
    ASSUME Contents, UNCHANGED <<kernel, path, streams, plugins, pc2Code, view, written>>
    PROVE  Contents'
  BY DEF Contents, streams, plugins

LEMMA OutputsKeep ==
    ASSUME Outputs, UNCHANGED <<pushed, written>>
    PROVE  Outputs'
  BY DEF Outputs, OutputOf, Within

LEMMA ViewsKeep ==
    ASSUME Views, UNCHANGED <<path, pushed, view, pc2Code>>,
           after' = after \/ after' \in {"none", "done"}
    PROVE  Views'
  BY DEF Views, Within, Reading

LEMMA CurrentKernel ==
    ASSUME IInv, Contents, Opening, path # 0
    PROVE  path \in Kernels
  BY BoundsAssumption DEF IInv, Types, Contents, Opening, Kernels

LEMMA StartBeginContents == ASSUME CInv, ~aborted, StartBegin PROVE CInv'
  <1> USE DEF CInv
  <1>1. IInv'
    BY StartKeeps DEF Start
  <1>2. /\ UNCHANGED <<streams, plugins, output, path, isStop, pc2Code, aborted>>
        /\ call = NoCall /\ call.op = "none"
        /\ call' = [op |-> "join", todo |-> StartOrder]
        /\ kernel' = kernel + 1 /\ kernel < MaxKernels
    BY DEF StartBegin, NoCall, mapping
  <1>3. Contents'
    BY <1>2, BoundsAssumption DEF Contents, streams, plugins, output
  <1>4. Opening'
    <2>1. path = kernel /\ path' = kernel' - 1
      BY <1>2 DEF Opening, Contents
    <2>2. \A parser \in Parsers : Opened(parser) /\ Opened(parser)'
      BY <1>2 DEF Opening, Opened, streams
    <2>3. call'.op = "join" /\ call'.todo = StartOrder
      BY <1>2
    <2>4. Reading' = Reading
      BY <1>2 DEF Reading, output
    <2> QED
      BY <1>2, <2>1, <2>2, <2>3, <2>4, StartOrderComplete DEF Opening, StopOps, streams
  <1>5. Queues' /\ Tables' /\ Views' /\ Outputs'
    BY <1>2, QuietKeeps, ViewsKeep, OutputsKeep DEF output, streams
  <1> QED
    BY <1>1, <1>3, <1>4, <1>5

LEMMA StartJoinContents == ASSUME CInv, ~aborted, StartJoin PROVE CInv'
  <1> USE DEF CInv
  <1>1. IInv'
    BY StartKeeps DEF Start
  <1>2. /\ UNCHANGED <<kernel, streams, plugins, view, written>>
        /\ call.op = "join"
        /\ call' = [op |-> "open", todo |-> call.todo]
        /\ path' = kernel /\ after' = "none" /\ ~isStop'
        /\ pc2Code' \in {0, kernel}
    BY DEF StartJoin, GetPc2Code, IInv, Types
  <1>3. Contents'
    BY <1>2 DEF Contents, streams, plugins
  <1>4. kernel # 0 /\ path = kernel - 1 /\ kernel \in Nat
    BY <1>2 DEF Opening, IInv, Types
  <1>5. Opening'
    <2>1. \A p \in Plugins, k \in Kernels : k > path => pushed[p][k] = 0
      BY <1>2 DEF Opening
    <2>2. \A p \in Plugins, k \in Kernels : k > path' \/ k = path' => pushed'[p][k] = 0
      BY <1>2, <1>4, <2>1 DEF streams, Kernels
    <2>3. /\ call'.op = "open" /\ call'.todo = call.todo /\ call.todo # <<>>
          /\ \A parser \in Parsers : Occurs(parser, call.todo)
      BY <1>2 DEF Opening
    <2>4. ~Reading' /\ path' # 0
      BY <1>2, <1>4 DEF Reading
    <2> QED
      BY <1>2, <2>2, <2>3, <2>4 DEF Opening, StopOps
  <1>6. Queues' /\ Tables' /\ Outputs'
    BY <1>2, QuietKeeps, OutputsKeep DEF streams
  <1>7. Views'
    BY <1>2 DEF Views, Reading
  <1> QED
    BY <1>1, <1>3, <1>5, <1>6, <1>7

LEMMA StartPolledContents == ASSUME CInv, ~aborted, StartPolled PROVE CInv'
  <1> USE DEF CInv
  <1>1. IInv'
    BY StartKeeps DEF Start
  <1>2. /\ UNCHANGED <<kernel, path, isStop, streams, plugins, pc2Code, output>>
        /\ call.op = "poll" /\ call.todo \in Seq(Names) /\ call.todo # <<>>
        /\ \A parser \in Parsers : Occurs(parser, Tail(call.todo)) \/ Opened(parser)
        /\ \A parser \in Parsers : Opened(parser)' = Opened(parser)
    BY DEF StartPolled, mapping, IInv, Types, Opening, Opened, streams
  <1>3. Contents' /\ Queues' /\ Tables' /\ Views' /\ Outputs'
    BY <1>2, ContentsKeep, QuietKeeps, ViewsKeep, OutputsKeep DEF output, streams
  <1>4. Reading' = Reading
    BY <1>2 DEF Reading, output
  <1>5. CASE Len(call.todo) > 1
    <2>1. call'.op = "open" /\ call'.todo = Tail(call.todo)
      BY <1>5 DEF StartPolled, NextParser
    <2>2. Tail(call.todo) # <<>>
      <3> DEFINE rest == Tail(call.todo)
      <3>1. rest \in Seq(Names) /\ Len(rest) > 0
        BY <1>2, <1>5
      <3> HIDE DEF rest
      <3>2. rest # <<>>
        BY <3>1
      <3> QED
        BY <3>2 DEF rest
    <2>3. Opening'
      BY <1>2, <1>4, <2>1, <2>2 DEF Opening, StopOps, streams
    <2> QED
      BY <1>1, <1>3, <2>3
  <1>6. CASE ~(Len(call.todo) > 1)
    <2>1. call'.op = "none"
      BY <1>6 DEF StartPolled, NextParser, NoCall
    <2>2. \A parser \in Parsers : Opened(parser)
      BY <1>2, <1>6 DEF Occurs
    <2>3. Opening'
      BY <1>2, <1>4, <2>1, <2>2 DEF Opening, StopOps, streams
    <2> QED
      BY <1>1, <1>3, <2>3
  <1> QED
    BY <1>5, <1>6

LEMMA StartParserContents == ASSUME CInv, ~aborted, StartParser PROVE CInv'
  <1> USE DEF CInv
  <1> DEFINE ps == PluginsOf(Current)
  <1>1. IInv'
    BY StartKeeps DEF Start
  <1>2. /\ UNCHANGED <<kernel, path, isStop, pushed, plugins, pc2Code, output>>
        /\ call.op = "open" /\ call.todo \in Seq(Names) /\ call.todo # <<>>
        /\ call' = [op |-> "poll", todo |-> call.todo]
        /\ path = kernel
    BY DEF StartParser, mapping, IInv, Types, Opening
  <1>3. path # 0 /\ path \in Kernels /\ kernel \in Kernels /\ kernel \in 0..MaxKernels
    BY <1>2, CurrentKernel DEF IInv, Order, Opening, Contents
  <1>4. \A p \in Plugins : pushed[p][kernel] = 0
    BY <1>2, <1>3 DEF Opening
  <1>5. ASSUME NEW p \in Plugins
        PROVE  /\ p \in ps => /\ center'[p] = kernel
                              /\ tasks'[p] = tasks[p] + 1
                              /\ stream'[p] = [stream[p] EXCEPT ![kernel] = Open]
               /\ p \notin ps => /\ center'[p] = center[p]
                                 /\ tasks'[p] = tasks[p]
                                 /\ stream'[p] = stream[p]
    BY DEF StartParser
  <1>6. Open \in [active : BOOLEAN, queue : Seq(Entries)]
    BY DEF Open
  <1>7. Contents'
    <2>1. center' \in [Plugins -> 0..MaxKernels]
      BY <1>3, <1>5 DEF Contents, StartParser
    <2>2. stream' \in [Plugins -> [Kernels -> [active : BOOLEAN, queue : Seq(Entries)]]]
      BY <1>6 DEF Contents, StartParser
    <2> QED
      BY <1>2, <2>1, <2>2 DEF Contents, plugins, output
  <1> HIDE DEF ps
  <1>8. Opening'
    <2>1. ASSUME NEW parser \in Parsers
          PROVE  Occurs(parser, Tail(call.todo)) \/ Opened(parser)'
      <3>1. CASE Opened(parser)
        BY <1>2, <1>5, <3>1, PluginsOfParsers DEF Opened
      <3>2. CASE Occurs(parser, call.todo)
        <4>1. PICK i \in DOMAIN call.todo : call.todo[i] = parser
          BY <3>2 DEF Occurs
        <4>2. CASE i = 1
          <5>1. PluginsOf(parser) = ps
            BY <1>2, <4>1, <4>2 DEF Current, ps
          <5> QED
            BY <1>2, <1>5, <5>1, PluginsOfParsers DEF Opened
        <4>3. CASE i # 1
          <5>1. i - 1 \in DOMAIN Tail(call.todo) /\ Tail(call.todo)[i - 1] = parser
            BY <1>2, <4>1, <4>3
          <5> QED
            BY <5>1 DEF Occurs
        <4> QED
          BY <4>2, <4>3
      <3> QED
        BY <1>2, <3>1, <3>2 DEF Opening
    <2>2. call'.op = "poll" /\ call'.todo = call.todo /\ Reading' = Reading
      BY <1>2 DEF Reading, output
    <2> QED
      BY <1>2, <2>1, <2>2 DEF Opening, StopOps
  <1>9. ASSUME NEW p \in Plugins, p \in ps
        PROVE  TableOf(p)' /\ \A k \in Kernels : QueueOf(p, k)'
    <2>1. /\ UNCHANGED <<held, table, plugin>>
          /\ stream'[p][kernel] = Open
          /\ \A k \in Kernels : k # kernel => stream'[p][k] = stream[p][k]
      <3>1. stream[p] \in [Kernels -> [active : BOOLEAN, queue : Seq(Entries)]]
        BY DEF Contents
      <3>2. stream'[p] = [stream[p] EXCEPT ![kernel] = Open]
        BY <1>5, <1>9
      <3> QED
        BY <1>2, <1>3, <3>1, <3>2 DEF plugins
    <2>2. Taken(p, kernel)' = 0 /\ Taken(p, kernel) \in Nat /\ Taken(p, kernel) = 0
      <3>1. Taken(p, kernel) \in Nat
        BY <1>3 DEF Queues, QueueOf
      <3>2. Taken(p, kernel)' = 0
        BY <1>2, <1>4, <2>1 DEF Taken, Open
      <3>3. Taken(p, kernel) = 0 - Len(stream[p][kernel].queue)
        BY <1>4 DEF Taken
      <3>4. Len(stream[p][kernel].queue) \in Nat
        BY <1>3 DEF Contents
      <3> QED
        BY <3>1, <3>2, <3>3, <3>4
    <2>3. \A k \in Kernels : Taken(p, k)' = Taken(p, k)
      <3>1. ASSUME NEW k \in Kernels, k # kernel PROVE Taken(p, k)' = Taken(p, k)
        BY <1>2, <2>1, <3>1 DEF Taken
      <3>2. ASSUME NEW k \in Kernels, k = kernel PROVE Taken(p, k)' = Taken(p, k)
        BY <1>2, <2>2, <3>2 DEF Taken
      <3> QED
        BY <3>1, <3>2
    <2>4. ASSUME NEW k \in Kernels PROVE QueueOf(p, k)'
      <3>1. QueueOf(p, k)
        BY DEF Queues
      <3>2. CASE k = kernel
        <4>1. stream'[p][k] = Open /\ Taken(p, k)' = 0
          BY <1>2, <2>1, <2>2, <3>2 DEF Taken
        <4> QED
          BY <4>1 DEF QueueOf, Open
      <3>3. CASE k # kernel
        BY <2>1, <2>3, <3>1, <3>3 DEF QueueOf
      <3> QED
        BY <3>2, <3>3
    <2>5. TableOf(p)'
      <3>1. TableOf(p) /\ table[p] \in Seq(Entries) /\ held[p] \in 0..MaxKernels
        BY DEF Tables, Contents
      <3>2. held[p] # 0 => held[p] \in Kernels
        BY <3>1, BoundsAssumption DEF Kernels
      <3>3. held[p] # 0 => Within(p, table[p], held[p], Taken(p, held[p]))'
        <4>1. held[p] # 0 => Taken(p, held[p])' = Taken(p, held[p])
          BY <2>1, <2>3, <3>2
        <4> QED
          BY <2>1, <3>1, <4>1 DEF TableOf, Within
      <3>4. held[p] = kernel => Len(table[p]) = 0
        <4>1. SUFFICES ASSUME held[p] = kernel, Len(table[p]) # 0 PROVE FALSE
          BY <3>1
        <4>2. 1 \in DOMAIN table[p]
          BY <3>1, <4>1
        <4>3. Within(p, table[p], kernel, 0)
          BY <1>2, <1>3, <2>2, <3>1, <4>1 DEF TableOf
        <4> QED
          BY <4>2, <4>3 DEF Within
      <3>5. tasks'[p] # 0 /\ center'[p] # 0
        <4>1. tasks[p] \in Nat
          BY DEF IInv, Types
        <4>2. tasks'[p] = tasks[p] + 1 /\ center'[p] = kernel
          BY <1>5, <1>9
        <4>3. kernel # 0
          BY <1>2, <1>3
        <4> QED
          BY ONLY <4>1, <4>2, <4>3
      <3>6. plugin[p] = "looping" => 
           /\ held[p] # 0
           /\ stream'[p][held[p]].active /\ ~Keeps(p) => Len(table[p]) = Taken(p, held[p])'
        <4>1. CASE held[p] = kernel
          BY <1>2, <1>3, <2>1, <2>2, <3>4, <4>1
        <4>2. CASE held[p] # kernel
          BY <2>1, <2>3, <3>1, <3>2, <4>2 DEF TableOf
        <4> QED
          BY <4>1, <4>2
      <3> QED
        BY <2>1, <3>1, <3>3, <3>5, <3>6 DEF TableOf
    <2> QED
      BY <2>4, <2>5
  <1>10. ASSUME NEW p \in Plugins, p \notin ps
         PROVE  TableOf(p)' /\ \A k \in Kernels : QueueOf(p, k)'
    <2>1. /\ UNCHANGED <<held, table, plugin, pushed>>
          /\ stream'[p] = stream[p] /\ center'[p] = center[p] /\ tasks'[p] = tasks[p]
      BY <1>2, <1>5, <1>10 DEF plugins
    <2>2. TableOf(p) /\ \A k \in Kernels : QueueOf(p, k)
      BY DEF Tables, Queues
    <2> QED
      BY <2>1, <2>2 DEF TableOf, QueueOf, Taken, Within
  <1>11. Views' /\ Outputs'
    BY <1>2, ViewsKeep, OutputsKeep DEF output
  <1> QED
    BY <1>1, <1>7, <1>8, <1>9, <1>10, <1>11 DEF Tables, Queues

LEMMA WrittenTyped ==
    ASSUME Contents, NEW i \in DOMAIN written
    PROVE  written[i] \in [path : Kernels, source : Nat, view : [Plugins -> Seq(Entries)]]
  <1> DEFINE R == [path : Kernels, source : Nat, view : [Plugins -> Seq(Entries)]]
  <1>1. written \in Seq(R)
    BY DEF Contents
  <1> HIDE DEF R
  <1>2. written[i] \in R
    BY <1>1
  <1> QED
    BY <1>2 DEF R

LEMMA SetLogContents == ASSUME CInv, NEW p \in Plugins, SetLog(p) PROVE CInv'
  <1> USE DEF CInv
  <1>1. IInv'
    BY PluginKeeps
  <1>2. /\ UNCHANGED <<kernel, path, isStop, call, center, tasks, plugins, pc2Code, output>>
        /\ call = NoCall /\ call.op = "none"
        /\ path = kernel
        /\ \A parser \in Parsers : Opened(parser)
    BY DEF SetLog, mapping, NoCall, Opening
  <1>3. center[p] = kernel /\ kernel # 0
    BY <1>2, OpenedAll DEF SetLog, Active
  <1>4. kernel \in Kernels
    BY <1>2, <1>3, CurrentKernel
  <1> DEFINE n == pushed[p][kernel]
             e == <<kernel, n + 1>>
             q == stream[p][kernel].queue
  <1>5. n \in Nat /\ q \in Seq(Entries) /\ e \in Entries /\ e = <<kernel, n + 1>>
    BY SMTT(20), <1>4, BoundsAssumption DEF Contents, Entries, Kernels
  <1>6. /\ pushed' = [pushed EXCEPT ![p][kernel] = n + 1]
        /\ stream' = [stream EXCEPT ![p][kernel].queue = Append(q, e)]
    BY <1>3 DEF SetLog
  <1>7. Append(q, e) \in Seq(Entries)
    BY <1>5
  <1>8. Contents'
    <2>1. pushed' \in [Plugins -> [Kernels -> Nat]]
      BY <1>4, <1>5, <1>6 DEF Contents
    <2>2. stream' \in [Plugins -> [Kernels -> [active : BOOLEAN, queue : Seq(Entries)]]]
      <3> DEFINE x == Append(q, e)
                 rec == [active : BOOLEAN, queue : Seq(Entries)]
                 y == [stream[p][kernel] EXCEPT !.queue = x]
      <3>1. stream' = [stream EXCEPT ![p][kernel] = y]
        BY <1>6
      <3>2. x \in Seq(Entries) /\ stream \in [Plugins -> [Kernels -> rec]]
        BY <1>7 DEF Contents
      <3> HIDE DEF x
      <3>3. y \in rec
        <4>1. stream[p][kernel] \in rec
          BY <1>4, <3>2
        <4> QED
          BY <3>2, <4>1
      <3> HIDE DEF y, rec
      <3>4. [stream[p] EXCEPT ![kernel] = y] \in [Kernels -> rec]
        BY <3>2, <3>3
      <3>5. stream' = [stream EXCEPT ![p] = [stream[p] EXCEPT ![kernel] = y]]
        BY <3>1
      <3>6. stream' \in [Plugins -> [Kernels -> rec]]
        BY <3>2, <3>4, <3>5
      <3> QED
        BY <3>6 DEF rec
    <2> QED
      BY <1>2, <2>1, <2>2 DEF Contents, plugins, output
  <1>9. ASSUME NEW r \in Plugins, NEW k \in Kernels, r # p \/ k # kernel
        PROVE  pushed'[r][k] = pushed[r][k] /\ stream'[r][k] = stream[r][k]
    BY <1>4, <1>6, <1>9 DEF Contents
  <1>10. /\ pushed'[p][kernel] = n + 1
         /\ stream'[p][kernel].queue = Append(q, e)
         /\ stream'[p][kernel].active = stream[p][kernel].active
    BY SMTT(20), <1>4, <1>6 DEF Contents
  <1>11. /\ Len(Append(q, e)) = Len(q) + 1
         /\ \A i \in DOMAIN Append(q, e) :
               IF i = Len(q) + 1 THEN Append(q, e)[i] = e
               ELSE i \in DOMAIN q /\ Append(q, e)[i] = q[i]
    BY <1>5
  <1>12. \A r \in Plugins, k \in Kernels :
            /\ Taken(r, k)' = Taken(r, k)
            /\ stream'[r][k].active = stream[r][k].active
            /\ pushed[r][k] \in Nat /\ pushed'[r][k] \in Nat /\ pushed[r][k] <= pushed'[r][k]
    <2> SUFFICES ASSUME NEW r \in Plugins, NEW k \in Kernels
                 PROVE  /\ Taken(r, k)' = Taken(r, k)
                        /\ stream'[r][k].active = stream[r][k].active
                        /\ pushed[r][k] \in Nat /\ pushed'[r][k] \in Nat
                        /\ pushed[r][k] <= pushed'[r][k]
      OBVIOUS
    <2>1. pushed[r][k] \in Nat
      BY DEF Contents
    <2>2. CASE r # p \/ k # kernel
      BY <1>9, <2>1, <2>2 DEF Taken
    <2>3. CASE r = p /\ k = kernel
      <3>1. Len(q) \in Nat
        BY <1>5
      <3>2. Taken(r, k)' = (n + 1) - (Len(q) + 1) /\ Taken(r, k) = n - Len(q)
        BY <1>10, <1>11, <2>3 DEF Taken
      <3>3. Taken(r, k)' = Taken(r, k)
        <4> HIDE DEF n
        <4> QED
          BY <1>5, <3>1, <3>2
      <3>4. pushed[r][k] = n /\ pushed'[r][k] = n + 1
        BY <1>10, <2>3
      <3> HIDE DEF n, q, e
      <3> QED
        BY <1>5, <1>10, <2>3, <3>3, <3>4
    <2> QED
      BY <2>2, <2>3
  <1> HIDE DEF n, e, q
  <1>13. Opening'
    <2>1. \A r \in Plugins, k \in Kernels : k > path => pushed'[r][k] = 0
      <3> SUFFICES ASSUME NEW r \in Plugins, NEW k \in Kernels, k > path
                   PROVE  pushed'[r][k] = 0
        OBVIOUS
      <3>1. k # kernel
        BY <1>2 DEF Kernels, Contents
      <3> QED
        BY <1>9, <3>1 DEF Opening
    <2>2. \A parser \in Parsers : Opened(parser)'
      BY <1>2 DEF Opened
    <2>3. Reading' = Reading
      BY <1>2 DEF Reading, output
    <2> QED
      BY <1>2, <2>1, <2>2, <2>3 DEF Opening, StopOps
  <1>14. Queues'
    <2> SUFFICES ASSUME NEW r \in Plugins, NEW k \in Kernels PROVE QueueOf(r, k)'
      BY DEF Queues
    <2>1. QueueOf(r, k) /\ UNCHANGED <<held, plugin>>
      BY <1>2 DEF Queues, plugins
    <2>2. \A i \in DOMAIN stream'[r][k].queue :
             stream'[r][k].queue[i] = <<k, Taken(r, k) + i>>
      <3>1. CASE r # p \/ k # kernel
        BY <1>9, <2>1, <3>1 DEF QueueOf
      <3>2. CASE r = p /\ k = kernel
        <4> SUFFICES ASSUME NEW i \in DOMAIN Append(q, e)
                     PROVE  Append(q, e)[i] = <<k, Taken(r, k) + i>>
          BY <1>10, <3>2
        <4>1. CASE i = Len(q) + 1
          <5>1. Taken(r, k) + i = n + 1
            <6>1. Len(q) \in Nat
              BY <1>5
            <6>2. Taken(r, k) = n - Len(q)
              BY <3>2 DEF Taken, n, q
            <6> QED
              BY <1>5, <4>1, <6>1, <6>2
          <5> QED
            BY <1>5, <1>11, <3>2, <4>1, <5>1
        <4>2. CASE i # Len(q) + 1
          BY <1>11, <2>1, <3>2, <4>2 DEF QueueOf, q
        <4> QED
          BY <4>1, <4>2
      <3> QED
        BY <3>1, <3>2
    <2> QED
      BY <1>12, <2>1, <2>2 DEF QueueOf
  <1>15. Tables'
    <2> SUFFICES ASSUME NEW r \in Plugins PROVE TableOf(r)'
      BY DEF Tables
    <2>1. /\ TableOf(r) /\ UNCHANGED <<held, plugin, table, tasks, center>>
          /\ held[r] # 0 => held[r] \in Kernels
      BY SMTT(20), <1>2, BoundsAssumption DEF Tables, plugins, Contents, Kernels
    <2>2. held[r] # 0 => /\ Taken(r, held[r])' = Taken(r, held[r])
                         /\ stream'[r][held[r]].active = stream[r][held[r]].active
      BY <1>12, <2>1
    <2> QED
      BY <2>1, <2>2 DEF TableOf, Within
  <1>16. Views' /\ Outputs'
    <2>1. path \in Kernels /\ UNCHANGED <<path, view, written>> /\ Reading' = Reading
      BY <1>2, <1>4 DEF output, Reading
    <2>2. ASSUME NEW r \in Plugins, NEW s, NEW k \in Kernels, Within(r, s, k, pushed[r][k])
          PROVE  Within(r, s, k, pushed'[r][k])
      BY <1>12, <2>2, WithinGrows
    <2>3. Views'
      <3>1. Reading => \A r \in Plugins : Within(r, view[r], path, pushed'[r][path])
        BY <2>1, <2>2 DEF Views
      <3>2. Reading' => \A r \in Plugins : Within(r, view[r], path, pushed[r][path])'
        BY <2>1, <3>1 DEF Within
      <3> QED
        BY <1>2, <2>1, <3>2 DEF Views, output
    <2>4. ASSUME NEW i \in DOMAIN written PROVE OutputOf(written[i])'
      <3>1. OutputOf(written[i]) /\ written[i].path \in Kernels
        <4>1. written[i] \in [path : Kernels, source : Nat, view : [Plugins -> Seq(Entries)]]
          BY WrittenTyped
        <4> QED
          BY <4>1 DEF Outputs
      <3>2. \A r \in Plugins :
               Within(r, written[i].view[r], written[i].path, pushed'[r][written[i].path])
        BY <2>2, <3>1 DEF OutputOf
      <3> QED
        BY <2>1, <3>1, <3>2 DEF OutputOf, Within
    <2> QED
      BY <2>1, <2>3, <2>4 DEF Outputs
  <1> QED
    BY <1>1, <1>8, <1>13, <1>14, <1>15, <1>16

LEMMA OpeningKeeps ==
    ASSUME Opening, UNCHANGED <<kernel, path, center, pushed>>,
           \/ UNCHANGED call
           \/ /\ call.op \notin {"join", "open", "poll"}
              /\ call'.op \notin {"join", "open", "poll"},
           ~isStop' \/ call'.op \in StopOps \/ Reading' =>
               ~isStop \/ call.op \in StopOps \/ Reading
    PROVE  Opening'
  <1>1. \A parser \in Parsers : Opened(parser)' = Opened(parser)
    BY DEF Opened
  <1> QED
    BY <1>1 DEF Opening

LEMMA StopContents == ASSUME CInv, ~aborted, Stop PROVE CInv'
  <1> USE DEF CInv
  <1>1. IInv'
    BY StopKeeps
  <1>2. CASE StopBegin
    <2>1. /\ UNCHANGED <<kernel, path, streams, plugins, pc2Code, output>>
          /\ call.op = "none" /\ call'.op = "shutdown" /\ ~isStop
      BY <1>2 DEF StopBegin, mapping, NoCall
    <2>2. Contents' /\ Queues' /\ Tables' /\ Views' /\ Outputs'
      BY <2>1, ContentsKeep, QuietKeeps, ViewsKeep, OutputsKeep DEF output, streams
    <2>3. Opening'
      BY <2>1, OpeningKeeps DEF streams
    <2> QED
      BY <1>1, <2>2, <2>3
  <1>3. CASE WaitForStop
    <2>1. /\ UNCHANGED <<kernel, path, isStop, streams, plugins, pc2Code, output>>
          /\ call.op = "wait" /\ call'.op \in {"shutdown", "spawn"}
      BY <1>3 DEF WaitForStop, StopGoesOn, mapping
    <2>2. Contents' /\ Queues' /\ Tables' /\ Views' /\ Outputs'
      BY <2>1, ContentsKeep, QuietKeeps, ViewsKeep, OutputsKeep DEF output, streams
    <2>3. Opening'
      BY <2>1, OpeningKeeps DEF streams, StopOps
    <2> QED
      BY <1>1, <2>2, <2>3
  <1>4. CASE SpawnAfter
    <2>1. /\ UNCHANGED <<kernel, path, isStop, streams, plugins, pc2Code, written>>
          /\ call.op = "spawn" /\ call'.op = "none" /\ view' = NoView /\ after' = "merge"
      BY <1>4 DEF SpawnAfter, NoCall, mapping
    <2>2. NoView \in [Plugins -> Seq(Entries)]
      BY DEF NoView
    <2>3. Contents'
      BY <2>1, <2>2 DEF Contents, streams, plugins
    <2>4. Opening'
      BY <2>1, OpeningKeeps DEF streams, StopOps
    <2>5. Queues' /\ Tables' /\ Outputs'
      BY <2>1, QuietKeeps, OutputsKeep DEF streams
    <2>6. Views'
      <3>1. \A p \in Plugins : Within(p, view'[p], path', pushed'[p][path'])
        BY <2>1 DEF NoView, Within
      <3>2. \A p \in Plugins : Within(p, view[p], path, pushed[p][path])'
        BY <3>1 DEF Within
      <3> QED
        BY <2>1, <3>2 DEF Views
    <2> QED
      BY <1>1, <2>3, <2>4, <2>5, <2>6
  <1>5. CASE Shutdown
    <2>1. /\ UNCHANGED <<kernel, path, isStop, center, tasks, pushed, plugins>>
          /\ UNCHANGED <<pc2Code, output>>
          /\ call.op = "shutdown" /\ call'.op = "wait"
      BY <1>5 DEF Shutdown, mapping
    <2> DEFINE rec == [active : BOOLEAN, queue : Seq(Entries)]
    <2>2. stream \in [Plugins -> [Kernels -> rec]]
      BY DEF Contents
    <2>3. ASSUME NEW p \in Plugins
          PROVE  \/ stream'[p] = stream[p]
                 \/ /\ center[p] \in Kernels
                    /\ stream'[p] = [stream[p] EXCEPT ![center[p]] =
                                        [stream[p][center[p]] EXCEPT !.active = FALSE]]
      <3>1. center[p] # 0 => center[p] \in Kernels
        BY BoundsAssumption DEF Contents, Kernels
      <3> QED
        BY <1>5, <3>1 DEF Shutdown
    <2>4. ASSUME NEW p \in Plugins
          PROVE  /\ stream'[p] \in [Kernels -> rec]
                 /\ \A k \in Kernels : /\ stream'[p][k].queue = stream[p][k].queue
                                       /\ stream'[p][k].active => stream[p][k].active
      <3>1. CASE stream'[p] = stream[p]
        BY <2>2, <3>1
      <3>2. CASE stream'[p] # stream[p]
        <4> DEFINE c == center[p]
                   y == [stream[p][c] EXCEPT !.active = FALSE]
        <4>1. c \in Kernels /\ stream'[p] = [stream[p] EXCEPT ![c] = y]
          BY <2>3, <3>2
        <4>2. stream[p][c] \in rec /\ stream[p] \in [Kernels -> rec]
          BY <2>2, <4>1
        <4>3. y \in rec /\ y.queue = stream[p][c].queue /\ y.active = FALSE
          BY <4>2
        <4> HIDE DEF y, rec, c
        <4> QED
          BY <4>1, <4>2, <4>3
      <3> QED
        BY <3>1, <3>2
    <2>5. stream' \in [Plugins -> [Kernels -> rec]]
      <3>1. stream' = [p \in Plugins |-> stream'[p]]
        BY <1>5 DEF Shutdown
      <3> HIDE DEF rec
      <3> QED
        BY <2>4, <3>1
    <2>6. Contents'
      BY <2>1, <2>5 DEF Contents, plugins, output
    <2>7. Opening'
      BY <2>1, OpeningKeeps DEF StopOps, Reading, output
    <2>8. \A p \in Plugins, k \in Kernels : Taken(p, k)' = Taken(p, k)
      BY <2>1, <2>4 DEF Taken
    <2>9. Queues'
      <3> SUFFICES ASSUME NEW p \in Plugins, NEW k \in Kernels PROVE QueueOf(p, k)'
        BY DEF Queues
      <3> QED
        BY <2>1, <2>4, <2>8 DEF Queues, QueueOf, plugins
    <2>10. Tables'
      <3> SUFFICES ASSUME NEW p \in Plugins PROVE TableOf(p)'
        BY DEF Tables
      <3>1. /\ TableOf(p) /\ UNCHANGED <<held, plugin, table, tasks, center>>
            /\ held[p] # 0 => held[p] \in Kernels
        BY <2>1, BoundsAssumption DEF Tables, plugins, Contents, Kernels
      <3>2. held[p] # 0 => /\ Taken(p, held[p])' = Taken(p, held[p])
                           /\ stream'[p][held[p]].active => stream[p][held[p]].active
        BY <2>4, <2>8, <3>1
      <3> QED
        BY <3>1, <3>2 DEF TableOf, Within
    <2>11. Views' /\ Outputs'
      BY <2>1, ViewsKeep, OutputsKeep DEF output
    <2> QED
      BY <1>1, <2>6, <2>7, <2>9, <2>10, <2>11
  <1> QED
    BY <1>2, <1>3, <1>4, <1>5 DEF Stop

(* The thread of a plugin touches its own plugin. *)
LEMMA PluginContents == ASSUME CInv, NEW p \in Plugins, Plugin(p) PROVE CInv'
  <1> USE DEF CInv
  <1>1. IInv'
    BY PluginKeeps
  <1>2. UNCHANGED <<kernel, path, isStop, call, center, pushed, pc2Code, output>>
    BY DEF Plugin, Take, Entry, ParseItem, Leave, mapping, streams
  <1>3. Opening' /\ Views' /\ Outputs'
    BY <1>2, OpeningKeeps, ViewsKeep, OutputsKeep DEF output, Reading
  <1>4. /\ TableOf(p) /\ center[p] \in 0..MaxKernels /\ held[p] \in 0..MaxKernels
        /\ table[p] \in Seq(Entries)
        /\ center[p] # 0 => center[p] \in Kernels
        /\ held[p] # 0 => held[p] \in Kernels
    BY BoundsAssumption DEF Tables, Contents, Kernels
  <1>5. CASE Take(p)
    <2>1. /\ UNCHANGED <<stream, held, table>>
          /\ plugin[p] = "idle" /\ plugin'[p] = "entering" /\ tasks[p] # 0
          /\ \A q \in Plugins : q # p => plugin'[q] = plugin[q] /\ tasks'[q] = tasks[q]
      BY <1>5 DEF Take, IInv, Types
    <2>2. Contents'
      BY <1>2, <2>1 DEF Contents, output
    <2>3. Queues'
      <3> SUFFICES ASSUME NEW q \in Plugins, NEW k \in Kernels PROVE QueueOf(q, k)'
        BY DEF Queues
      <3>1. QueueOf(q, k)
        BY DEF Queues
      <3> QED
        BY <1>2, <2>1, <3>1 DEF QueueOf, Taken
    <2>4. Tables'
      <3> SUFFICES ASSUME NEW q \in Plugins PROVE TableOf(q)'
        BY DEF Tables
      <3>1. TableOf(q)
        BY DEF Tables
      <3> QED
        BY <1>2, <2>1, <3>1 DEF TableOf, Within, Taken
    <2> QED
      BY <1>1, <1>3, <2>2, <2>3, <2>4
  <1>6. CASE Leave(p)
    <2>1. /\ UNCHANGED <<streams, held, table>>
          /\ plugin[p] = "looping" /\ plugin'[p] = "idle"
          /\ ~stream[p][held[p]].active
          /\ \A q \in Plugins : q # p => plugin'[q] = plugin[q]
      BY <1>6 DEF Leave, IInv, Types
    <2>2. Contents'
      BY <1>2, <2>1 DEF Contents, output, streams
    <2>3. Queues'
      <3> SUFFICES ASSUME NEW q \in Plugins, NEW k \in Kernels PROVE QueueOf(q, k)'
        BY DEF Queues
      <3>1. QueueOf(q, k)
        BY DEF Queues
      <3> QED
        BY <1>2, <2>1, <3>1 DEF QueueOf, Taken, streams
    <2>4. Tables'
      <3> SUFFICES ASSUME NEW q \in Plugins PROVE TableOf(q)'
        BY DEF Tables
      <3>1. TableOf(q)
        BY DEF Tables
      <3> QED
        BY <1>2, <2>1, <3>1 DEF TableOf, Within, Taken, streams
    <2> QED
      BY <1>1, <1>3, <2>2, <2>3, <2>4
  <1>7. CASE Entry(p)
    <2>1. /\ UNCHANGED streams
          /\ plugin[p] = "entering" /\ plugin'[p] = "looping"
          /\ held'[p] = center[p] /\ center[p] # 0
          /\ table'[p] = <<>>
          /\ \A q \in Plugins : q # p => /\ plugin'[q] = plugin[q]
                                         /\ held'[q] = held[q]
                                         /\ table'[q] = table[q]
          /\ held' \in [Plugins -> 0..MaxKernels]
          /\ table' \in [Plugins -> Seq(Entries)]
      BY <1>4, <1>7 DEF Entry, IInv, Types, Contents, TableOf
    <2>2. Contents'
      BY <1>2, <2>1 DEF Contents, output, streams
    <2>3. Queues'
      <3> SUFFICES ASSUME NEW q \in Plugins, NEW k \in Kernels PROVE QueueOf(q, k)'
        BY DEF Queues
      <3>1. QueueOf(q, k)
        BY DEF Queues
      <3> QED
        BY <1>2, <2>1, <3>1 DEF QueueOf, Taken, streams
    <2>4. ASSUME NEW q \in Plugins, q # p PROVE TableOf(q)'
      <3>1. TableOf(q)
        BY DEF Tables
      <3> QED
        BY <1>2, <2>1, <2>4, <3>1 DEF TableOf, Within, Taken, streams
    <2>5. TableOf(p)'
      <3>1. stream[p][center[p]].active => Taken(p, center[p]) = 0
        BY <1>4, <2>1 DEF Queues, QueueOf
      <3>2. Taken(p, held[p])' = Taken(p, center[p])
        BY <1>2, <2>1 DEF Taken, streams
      <3>3. Within(p, table[p], held[p], Taken(p, held[p]))'
        BY <2>1 DEF Within
      <3> QED
        BY <1>2, <2>1, <3>1, <3>2, <3>3 DEF TableOf, streams
    <2> QED
      BY <1>1, <1>3, <2>2, <2>3, <2>4, <2>5 DEF Tables
  <1>8. CASE ParseItem(p)
    <2> DEFINE k == held[p]
               q == stream[p][k].queue
               n == Taken(p, k)
               rec == [active : BOOLEAN, queue : Seq(Entries)]
    <2>1. /\ UNCHANGED <<tasks, plugin, held>>
          /\ plugin[p] = "looping"
          /\ stream[p][k].active /\ q # <<>>
          /\ \/ Clears(p) /\ table' = [table EXCEPT ![p] = Append(@, Head(q))]
             \/ Keeps(p) /\ UNCHANGED table
      BY <1>8 DEF ParseItem
    <2>2. k \in Kernels /\ k \in Nat
      BY <1>4, <2>1 DEF TableOf, Kernels
    <2>3. stream \in [Plugins -> [Kernels -> rec]] /\ stream[p][k] \in rec /\ q \in Seq(Entries)
      BY <2>2 DEF Contents
    <2>4. /\ n \in Nat /\ \A i \in DOMAIN q : q[i] = <<k, n + i>>
          /\ QueueOf(p, k)
      BY <2>2 DEF Queues, QueueOf
    <2>5. stream' = [stream EXCEPT ![p][k].queue = Tail(q)]
      BY <1>8 DEF ParseItem
    <2>6. /\ Head(q) = q[1] /\ Tail(q) \in Seq(Entries) /\ Len(q) \in Nat
          /\ Len(Tail(q)) = Len(q) - 1 /\ 1 \in DOMAIN q
          /\ \A i \in DOMAIN Tail(q) : i + 1 \in DOMAIN q /\ Tail(q)[i] = q[i + 1] /\ i \in Nat
      BY <2>1, <2>3
    <2>7. Head(q) = <<k, n + 1>> /\ Head(q) \in Entries
      BY <2>2, <2>4, <2>6 DEF Entries
    <2>8. /\ stream' \in [Plugins -> [Kernels -> rec]]
          /\ \A r \in Plugins, l \in Kernels : r # p \/ l # k => stream'[r][l] = stream[r][l]
          /\ stream'[p][k].queue = Tail(q) /\ stream'[p][k].active = stream[p][k].active
      <3> DEFINE y == [stream[p][k] EXCEPT !.queue = Tail(q)]
      <3>1. y \in rec /\ y.queue = Tail(q) /\ y.active = stream[p][k].active
        BY <2>3, <2>6
      <3>2. stream' = [stream EXCEPT ![p] = [stream[p] EXCEPT ![k] = y]]
        BY <2>5
      <3>3. stream[p] \in [Kernels -> rec]
        BY <2>3
      <3> HIDE DEF y, rec, q, k
      <3>4. [stream[p] EXCEPT ![k] = y] \in [Kernels -> rec]
        BY <3>1, <3>3
      <3> QED
        BY <2>2, <2>3, <3>1, <3>2, <3>3, <3>4
    <2> HIDE DEF rec
    <2>9. Taken(p, k)' = n + 1
      <3>1. pushed[p][k] \in Nat
        BY <2>2 DEF Contents
      <3>2. pushed'[p][k] = pushed[p][k] /\ n = pushed[p][k] - Len(q)
        BY <1>2 DEF Taken
      <3>3. Taken(p, k)' = pushed'[p][k'] - Len(stream'[p][k'].queue) /\ k' = k
        BY <2>1 DEF Taken
      <3>4. Taken(p, k)' = pushed[p][k] - Len(Tail(q))
        BY <2>8, <3>2, <3>3
      <3> HIDE DEF n, q
      <3> QED
        BY <2>6, <3>1, <3>2, <3>4
    <2>10. \A r \in Plugins, l \in Kernels : r # p \/ l # k => Taken(r, l)' = Taken(r, l)
      BY <1>2, <2>8 DEF Taken
    <2>11. /\ table' \in [Plugins -> Seq(Entries)]
           /\ \A r \in Plugins : r # p => table'[r] = table[r]
           /\ \/ Clears(p) /\ table'[p] = Append(table[p], <<k, n + 1>>)
              \/ Keeps(p) /\ table'[p] = table[p]
      <3> HIDE DEF q, n, k
      <3>1. CASE Clears(p) /\ table' = [table EXCEPT ![p] = Append(@, Head(q))]
        <4>1. Append(table[p], Head(q)) \in Seq(Entries)
          BY <1>4, <2>7
        <4>2. table \in [Plugins -> Seq(Entries)]
          BY DEF Contents
        <4> DEFINE z == Append(table[p], Head(q))
        <4>3. z = Append(table[p], <<k, n + 1>>)
          BY <2>7
        <4>4. table' = [table EXCEPT ![p] = z]
          BY <3>1
        <4> HIDE DEF z
        <4>5. /\ table' \in [Plugins -> Seq(Entries)] /\ table'[p] = z
              /\ \A r \in Plugins : r # p => table'[r] = table[r]
          BY <4>1, <4>2, <4>4 DEF z
        <4> QED
          BY <3>1, <4>3, <4>5
      <3>2. CASE Keeps(p) /\ UNCHANGED table
        BY <3>2 DEF Contents
      <3> QED
        BY <2>1, <3>1, <3>2
    <2>12. Contents'
      BY <1>2, <2>1, <2>8, <2>11 DEF Contents, output, rec
    <2>13. Queues'
      <3> SUFFICES ASSUME NEW r \in Plugins, NEW l \in Kernels PROVE QueueOf(r, l)'
        BY DEF Queues
      <3>1. QueueOf(r, l)
        BY DEF Queues
      <3>2. CASE r # p \/ l # k
        BY <2>1, <2>8, <2>10, <3>1, <3>2 DEF QueueOf
      <3>3. CASE r = p /\ l = k
        <4>1. Taken(r, l)' = n + 1
          BY <2>1, <2>9, <3>3 DEF Taken
        <4>2. ASSUME NEW i \in DOMAIN Tail(q)
              PROVE  Tail(q)[i] = <<l, (n + 1) + i>>
          <5> HIDE DEF n, q
          <5>1. Tail(q)[i] = <<k, n + (i + 1)>> /\ i \in Nat
            BY <2>4, <2>6
          <5>2. n + (i + 1) = (n + 1) + i
            BY <2>4, <5>1
          <5> QED
            BY <3>3, <5>1, <5>2
        <4>3. Taken(r, l)' \in Nat
          BY <2>4, <4>1
        <4>4. stream'[r][l].queue = Tail(q)
          BY <2>8, <3>3
        <4>5. \A i \in DOMAIN stream'[r][l].queue :
                 stream'[r][l].queue[i] = <<l, Taken(r, l)' + i>>
          BY <4>1, <4>2, <4>4
        <4>6. plugin'[r] = "looping" /\ held'[r] = l
          BY <2>1, <3>3
        <4> HIDE DEF q, n, k
        <4> QED
          BY <4>3, <4>5, <4>6 DEF QueueOf
      <3> QED
        BY <3>2, <3>3
    <2>14. ASSUME NEW r \in Plugins, r # p PROVE TableOf(r)'
      <3>1. /\ TableOf(r) /\ table'[r] = table[r] /\ UNCHANGED <<held, plugin, tasks, center>>
            /\ held[r] # 0 => held[r] \in Kernels
        <4>1. held[r] \in 0..MaxKernels
          BY DEF Contents
        <4>2. held[r] # 0 => held[r] \in Kernels
          BY <4>1, BoundsAssumption DEF Kernels
        <4>3. TableOf(r) /\ table'[r] = table[r]
          BY <2>11, <2>14 DEF Tables
        <4> QED
          BY <1>2, <2>1, <4>2, <4>3
      <3>2. held[r] # 0 => /\ Taken(r, held[r])' = Taken(r, held[r])
                           /\ stream'[r][held[r]] = stream[r][held[r]]
        BY <2>8, <2>10, <2>14, <3>1
      <3> QED
        BY <3>1, <3>2 DEF TableOf, Within
    <2>15. TableOf(p)'
      <3>1. /\ Within(p, table[p], k, n)
            /\ ~Keeps(p) => Len(table[p]) = n
            /\ ~Clears(p) => table[p] = <<>>
        BY <1>4, <2>1, <2>2 DEF TableOf, Kernels
      <3> HIDE DEF n, q
      <3>2. Within(p, table'[p], k, n + 1)
        <4>1. CASE table'[p] = table[p]
          BY <2>4, <3>1, <4>1, WithinGrows
        <4>2. CASE table'[p] = Append(table[p], <<k, n + 1>>)
          BY <1>4, <2>2, <2>4, <3>1, <4>2, WithinAppend
        <4> QED
          BY <2>11, <4>1, <4>2
      <3>3. ~Keeps(p) => Len(table'[p]) = n + 1
        BY <1>4, <2>11, <3>1
      <3>4. ~Clears(p) => table'[p] = <<>>
        BY <2>11, <3>1
      <3>5. held'[p] = k /\ k # 0 /\ Taken(p, held[p])' = n + 1
        BY <2>1, <2>2, <2>9 DEF Kernels
      <3>6. Within(p, table[p], held[p], Taken(p, held[p]))'
        BY <3>2, <3>5 DEF Within
      <3> QED
        BY <1>2, <1>4, <2>1, <3>3, <3>4, <3>5, <3>6 DEF TableOf
    <2> QED
      BY <1>1, <1>3, <2>12, <2>13, <2>14, <2>15 DEF Tables
  <1> QED
    BY <1>5, <1>6, <1>7, <1>8 DEF Plugin

(* While the tables are read no plugin works: each holds its last stream,  *)
(* that of the kernel whose output is written.                             *)
LEMMA TablesOfThePath ==
    ASSUME CInv, Reading
    PROVE  /\ path \in Kernels
           /\ \A p \in Plugins : Within(p, table[p], path, pushed[p][path])
  <1> USE DEF CInv
  <1>1. path # 0 /\ path \in Kernels
    BY CurrentKernel DEF Opening
  <1>2. call.op \notin {"open", "poll"}
    BY DEF IInv, Order, Reading
  <1>3. \A p \in Plugins : center[p] = path
    BY <1>2, OpenedAll DEF Opening
  <1>4. \A p \in Plugins : tasks[p] = 0 /\ plugin[p] = "idle"
    BY PluginsOfParsers DEF IInv, TablesQuietWhileRead, Reading, Done
  <1>5. ASSUME NEW p \in Plugins
        PROVE  Within(p, table[p], path, pushed[p][path])
    <2>1. held[p] = path /\ Within(p, table[p], path, Taken(p, path))
      BY <1>1, <1>3, <1>4 DEF Tables, TableOf
    <2>2. Taken(p, path) \in Nat /\ pushed[p][path] \in Nat
      BY <1>1 DEF Queues, QueueOf, Contents
    <2>3. Taken(p, path) <= pushed[p][path]
      <3>1. Len(stream[p][path].queue) \in Nat
        <4>1. stream[p][path].queue \in Seq(Entries)
          BY <1>1 DEF Contents
        <4> QED
          BY <4>1
      <3> QED
        BY <2>2, <3>1 DEF Taken
    <2> QED
      BY <2>1, <2>2, <2>3, WithinGrows
  <1> QED
    BY <1>1, <1>5

LEMMA ReadContents ==
    ASSUME CInv, Reading, NEW ps \in SUBSET Plugins, Read(ps),
           UNCHANGED <<kernel, path, isStop, call, streams, plugins, pc2Code, written>>,
           Reading', after' # "write"
    PROVE  Contents' /\ Opening' /\ Queues' /\ Tables' /\ Views' /\ Outputs'
  <1> USE DEF CInv
  <1>1. \A p \in Plugins : view'[p] = IF p \in ps THEN table[p] ELSE view[p]
    BY DEF Read
  <1>2. view' \in [Plugins -> Seq(Entries)]
    BY DEF Read, Contents
  <1>3. Contents'
    BY <1>2 DEF Contents, streams, plugins
  <1>4. Opening'
    BY OpeningKeeps DEF streams
  <1>5. Queues' /\ Tables' /\ Outputs'
    BY QuietKeeps, OutputsKeep DEF streams
  <1>6. \A p \in Plugins : Within(p, view'[p], path, pushed[p][path])
    BY <1>1, TablesOfThePath DEF Views
  <1>7. \A p \in Plugins : Within(p, view[p], path, pushed[p][path])'
    BY <1>6 DEF Within, streams
  <1>8. Views'
    BY <1>7 DEF Views
  <1> QED
    BY <1>3, <1>4, <1>5, <1>8

LEMMA AfterContents == ASSUME CInv, ProcessAfterKernelExit PROVE CInv'
  <1> USE DEF CInv
  <1>1. IInv'
    BY ThreadsKeep
  <1>2. CASE Merge
    <2>1. /\ UNCHANGED <<kernel, path, isStop, call, streams, plugins, pc2Code, written>>
          /\ Reading /\ Reading' /\ after' # "write" /\ Read(PluginsOf("instr"))
      BY <1>2 DEF Merge, mapping, Reading
    <2>2. PluginsOf("instr") \in SUBSET Plugins
      BY PluginsOfParsers, ParsersAssumption
    <2> QED
      BY <1>1, <2>1, <2>2, ReadContents
  <1>3. CASE InsertCache
    <2>1. /\ UNCHANGED <<kernel, path, isStop, call, streams, plugins, pc2Code, written>>
          /\ Reading /\ Reading' /\ after' # "write" /\ Read(Plugins \ PluginsOf("instr"))
      BY <1>3 DEF InsertCache, mapping, Reading
    <2> QED
      BY <1>1, <2>1, ReadContents
  <1>4. CASE MapSource
    <2>1. /\ UNCHANGED <<kernel, path, isStop, call, streams, plugins, view, written>>
          /\ Reading /\ Reading' /\ after' = "write"
      BY <1>4 DEF MapSource, Reading
    <2>2. pc2Code' = path
      BY <1>4 DEF MapSource, Views
    <2>3. Contents'
      BY <2>1, <2>2 DEF Contents, streams, plugins
    <2>4. Opening'
      BY <2>1, OpeningKeeps DEF streams
    <2>5. Queues' /\ Tables' /\ Outputs'
      BY <2>1, QuietKeeps, OutputsKeep DEF streams
    <2>6. \A p \in Plugins : Within(p, view[p], path, pushed[p][path])'
      BY <2>1 DEF Views, Within, streams
    <2>7. Views'
      BY <2>1, <2>2, <2>6 DEF Views
    <2> QED
      BY <1>1, <2>3, <2>4, <2>5, <2>7
  <1>5. CASE Visualize
    <2> DEFINE w == [path |-> path, source |-> pc2Code, view |-> view]
               R == [path : Kernels, source : Nat, view : [Plugins -> Seq(Entries)]]
    <2>1. /\ UNCHANGED <<kernel, path, isStop, call, streams, plugins, pc2Code, view>>
          /\ after = "write" /\ Reading /\ after' = "done" /\ ~Reading'
          /\ written' = Append(written, w)
      BY <1>5 DEF Visualize, mapping, Reading
    <2>2. w \in R /\ written \in Seq(R)
      BY <2>1, TablesOfThePath DEF Contents
    <2>3. w.path = path /\ w.source = pc2Code /\ w.view = view
      OBVIOUS
    <2>4. OutputOf(w)
      BY <2>1, <2>3 DEF OutputOf, Views
    <2> HIDE DEF w, R
    <2>5. /\ written' \in Seq(R)
          /\ \A i \in DOMAIN written' :
                \/ written'[i] = w
                \/ i \in DOMAIN written /\ written'[i] = written[i]
      BY <2>1, <2>2
    <2>6. Contents'
      BY <2>1, <2>5 DEF Contents, streams, plugins, R
    <2>7. Opening'
      BY <2>1, OpeningKeeps DEF streams
    <2>8. Queues' /\ Tables' /\ Views'
      BY <2>1, QuietKeeps, ViewsKeep DEF streams
    <2>9. Outputs'
      <3> SUFFICES ASSUME NEW i \in DOMAIN written' PROVE OutputOf(written[i])'
        BY DEF Outputs
      <3>1. OutputOf(written'[i])
        BY <2>4, <2>5 DEF Outputs
      <3> QED
        BY <2>1, <3>1 DEF OutputOf, Within, streams
    <2> QED
      BY <1>1, <2>6, <2>7, <2>8, <2>9
  <1> QED
    BY <1>2, <1>3, <1>4, <1>5 DEF ProcessAfterKernelExit

LEMMA OtherContents == ASSUME CInv, MapperEnds \/ ProgramEnds \/ Destroy PROVE CInv'
  <1> USE DEF CInv
  <1>1. IInv'
    BY ThreadsKeep
  <1>2. /\ UNCHANGED <<kernel, path, isStop, call, streams, plugins, pc2Code, view, written>>
        /\ after' = after \/ after' = "none"
    BY DEF MapperEnds, ProgramEnds, Destroy, output, mapping
  <1>3. Reading' => Reading
    BY <1>2 DEF Reading
  <1>4. Contents' /\ Queues' /\ Tables' /\ Views' /\ Outputs'
    BY <1>2, ContentsKeep, QuietKeeps, ViewsKeep, OutputsKeep DEF streams
  <1>5. Opening'
    BY <1>2, <1>3, OpeningKeeps DEF streams
  <1> QED
    BY <1>1, <1>4, <1>5

LEMMA StutterContents == ASSUME CInv, UNCHANGED vars PROVE CInv'
  <1> USE DEF CInv
  <1>1. IInv'
    BY StutterKeeps
  <1>2. UNCHANGED <<kernel, path, isStop, call, streams, plugins, pc2Code, view, written, after>>
    BY DEF vars, streams, plugins
  <1>3. Contents' /\ Queues' /\ Tables' /\ Views' /\ Outputs'
    BY <1>2, ContentsKeep, QuietKeeps, ViewsKeep, OutputsKeep DEF streams
  <1>4. Opening'
    BY <1>2, OpeningKeeps DEF streams, Reading
  <1> QED
    BY <1>1, <1>3, <1>4

(* What a plugin has taken from its stream is in its table, or was kept    *)
(* elsewhere, and the rest is in the queue (Opening, Queues, Tables); so   *)
(* the tables that are read are of the kernel that was stopped (Views).    *)
THEOREM ContentsInvariant == Spec => []CInv
  <1>1. ASSUME CInv, Next PROVE CInv'
    BY <1>1, StartBeginContents, StartJoinContents, StartParserContents, StartPolledContents,
       SetLogContents, StopContents, PluginContents, AfterContents, OtherContents
       DEF Next, Start
  <1>2. CInv /\ [Next]_vars => CInv'
    BY <1>1, StutterContents
  <1> QED
    BY InitCInv, <1>2, PTL DEF Spec

LEMMA PrefixOfFirst ==
    ASSUME NEW p, NEW s \in Seq(Entries), NEW k \in Nat, NEW n \in Nat,
           Within(p, s, k, n), ~Keeps(p)
    PROVE  IsPrefix(s, FirstItems(k, n))
  <1> DEFINE all == FirstItems(k, n)
             m == Len(s)
  <1>1. m \in Nat /\ DOMAIN s = 1..m
    OBVIOUS
  <1>2. m <= n
    <2>1. CASE m = 0
      BY <2>1
    <2>2. CASE m # 0
      <3>1. m \in DOMAIN s
        BY <1>1, <2>2
      <3>2. s[m][2] = m /\ s[m][2] \in 1..n
        BY <3>1 DEF Within
      <3> HIDE DEF m
      <3> QED
        BY <3>2
    <2> QED
      BY <2>1, <2>2
  <1>3. all \in Seq(Entries) /\ Len(all) = n /\ \A i \in 1..n : all[i] = <<k, i>>
    BY DEF FirstItems, Entries
  <1>4. \A i \in 1..m : s[i] = <<k, i>>
    <2> SUFFICES ASSUME NEW i \in 1..m PROVE s[i] = <<k, i>>
      OBVIOUS
    <2>1. s[i] \in Entries /\ s[i][1] = k /\ s[i][2] = i
      BY DEF Within
    <2> QED
      BY <2>1 DEF Entries
  <1> HIDE DEF all, m
  <1>5. SubSeq(s, 1, m) = SubSeq(all, 1, m)
    <2>1. SubSeq(s, 1, m) = [i \in 1..m |-> s[i]]
      BY <1>1
    <2>2. SubSeq(all, 1, m) = [i \in 1..m |-> all[i]]
      BY <1>1, <1>2, <1>3
    <2>3. \A i \in 1..m : i \in 1..n
      <3>1. m \in Nat /\ n \in Nat
        BY <1>1
      <3> QED
        BY ONLY <1>2, <3>1
    <2>4. \A i \in 1..m : s[i] = all[i]
      BY <1>3, <1>4, <2>3
    <2> QED
      BY <2>1, <2>2, <2>4
  <1> QED
    BY <1>2, <1>3, <1>5 DEF IsPrefix, m, all

LEMMA SomeOfFirst ==
    ASSUME NEW p, NEW s \in Seq(Entries), NEW k \in Nat, NEW n \in Nat, Within(p, s, k, n)
    PROVE  SomeOf(FirstItems(k, n), s)
  <1>1. ASSUME NEW i \in DOMAIN s PROVE s[i] \in Range(FirstItems(k, n))
    <2>1. s[i] \in Entries /\ s[i][1] = k /\ s[i][2] \in 1..n
      BY DEF Within
    <2>2. s[i] = <<k, s[i][2]>>
      BY <2>1 DEF Entries
    <2>3. DOMAIN FirstItems(k, n) = 1..n /\ \A j \in 1..n : FirstItems(k, n)[j] = <<k, j>>
      BY DEF FirstItems
    <2> QED
      BY <2>1, <2>2, <2>3 DEF Range
  <1>2. \A i, j \in DOMAIN s : i < j => s[i][2] < s[j][2]
    BY DEF Within
  <1> QED
    BY <1>1, <1>2 DEF SomeOf, Range

(* An output holds the first items of its own kernel, in order and none    *)
(* twice, and the source lines of that kernel, whatever the threads left   *)
(* over from other kernels do (Start, Stop, ProcessAfterKernelExit).       *)
THEOREM OutputOfOneKernelCorrect == Spec => []OutputOfOneKernel
  <1>1. ASSUME CInv PROVE OutputOfOneKernel
    <2> SUFFICES ASSUME NEW i \in DOMAIN written
                 PROVE  /\ written[i].source = written[i].path
                        /\ \A p \in Plugins :
                              LET w == written[i]
                                  all == FirstItems(w.path, pushed[p][w.path])
                              IN IF Keeps(p) THEN SomeOf(all, w.view[p])
                                 ELSE IsPrefix(w.view[p], all)
      BY DEF OutputOfOneKernel
    <2>1. written[i] \in [path : Kernels, source : Nat, view : [Plugins -> Seq(Entries)]]
      BY <1>1, WrittenTyped DEF CInv
    <2>2. OutputOf(written[i])
      BY <1>1 DEF CInv, Outputs
    <2>3. ASSUME NEW p \in Plugins
          PROVE  LET w == written[i]
                     all == FirstItems(w.path, pushed[p][w.path])
                 IN IF Keeps(p) THEN SomeOf(all, w.view[p]) ELSE IsPrefix(w.view[p], all)
      <3>1. /\ written[i].path \in Nat /\ written[i].view[p] \in Seq(Entries)
            /\ pushed[p][written[i].path] \in Nat
        <4>1. pushed \in [Plugins -> [Kernels -> Nat]]
          BY <1>1 DEF CInv, Contents
        <4>2. written[i].path \in Kernels /\ written[i].view \in [Plugins -> Seq(Entries)]
          BY <2>1
        <4>3. pushed[p][written[i].path] \in Nat
          <5>1. pushed[p] \in [Kernels -> Nat]
            BY <4>1
          <5> QED
            BY <4>2, <5>1
        <4> QED
          BY <4>2, <4>3 DEF Kernels
      <3>2. Within(p, written[i].view[p], written[i].path, pushed[p][written[i].path])
        BY <2>2 DEF OutputOf
      <3> QED
        BY <3>1, <3>2, PrefixOfFirst, SomeOfFirst
    <2> QED
      BY <2>2, <2>3 DEF OutputOf
  <1> QED
    BY <1>1, ContentsInvariant, PTL
=============================================================================
