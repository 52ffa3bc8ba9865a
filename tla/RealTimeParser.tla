--------------------------- MODULE RealTimeParser ---------------------------
(***************************************************************************)
(* RealTimeDataParser (parse/data_parser/real_time_data_parser.{h,cpp}):   *)
(* the life of its threads over the kernels of a simulated program.        *)
(*                                                                         *)
(* The listener of the injection channel calls Start for COLLECT_START,    *)
(* Set*Log for every log item and Stop for PROF_FINISH; when the program   *)
(* is gone and the server is stopped, the main thread calls Stop once more *)
(* and then the destructor.  Every sub-parser owns a data center with one  *)
(* stream per plugin and a thread pool in which the plugin's Entry runs.   *)
(* Stop leaves a thread behind, ProcessAfterKernelExit, that reads the     *)
(* tables of the plugins without a lock; Start leaves one behind that maps *)
(* program counters to source lines.                                       *)
(*                                                                         *)
(* An item is <<kernel, number>>.  Pop, the test of IsStop and the         *)
(* handling of an item are one step here; module DataStream has the steps  *)
(* in between and the wakeup that can be lost in Shutdown.                 *)
(***************************************************************************)
EXTENDS Integers, SequencesExt

CONSTANTS
    Parsers,        \* the sub-parsers the chip and the options switch on
    SourceMapped,   \* Start looks for the source lines (not on Ascend 950)
    AbnormalExits,  \* a program may die between COLLECT_START and PROF_FINISH
    MaxKernels,     \* bound on COLLECT_START messages
    MaxItems        \* bound on the items of one kernel, over all plugins

ASSUME ParsersAssumption ==
    /\ Parsers \subseteq {"instr", "icache", "ccu", "mte"}
    /\ "instr" \in Parsers
ASSUME OptionsAssumption == SourceMapped \in BOOLEAN /\ AbnormalExits \in BOOLEAN
ASSUME BoundsAssumption == MaxKernels \in Nat \ {0} /\ MaxItems \in Nat

VARIABLES
    kernel,     \* number of the last COLLECT_START; it names its kernel
    path,       \* outputPath_, as the kernel it belongs to
    isStop,     \* isStop_
    ended,      \* the server is stopped, the main thread is the caller
    call,       \* the call of Start or Stop in progress
    center,     \* per plugin: the stream its data center holds, 0 for none
    stream,     \* per plugin and kernel: the stream registered by that Start
    tasks,      \* per plugin: Entry tasks in the queue of its pool
    plugin,     \* per plugin: where its thread is
    held,       \* per plugin: the stream its loop took from the data center
    table,      \* per plugin: the table Entry clears
    kept,       \* per plugin: the table Entry never clears
    after,      \* afterExitProcessThr_
    view,       \* what that thread has read
    mapper,     \* pc2CodeThr_
    pc2Code,    \* pc2Code_, as the kernel it was made for, 0 for null
    written,    \* history: the outputs written
    pushed,     \* history: items accepted per plugin and kernel
    restarted,  \* history: a COLLECT_START came while the parser was running
    aborted     \* std::terminate: a thread was assigned to a joinable one

vars == <<kernel, path, isStop, ended, call, center, stream, tasks, plugin,
          held, table, kept, after, view, mapper, pc2Code, written, pushed,
          restarted, aborted>>

PluginsOf(parser) == IF parser = "instr" THEN {"pop", "instr"} ELSE {parser}
Plugins == UNION {PluginsOf(parser) : parser \in Parsers}

(* mteLogInstrVec_ is never cleared; of the icache plugin scalarMap_ is not. *)
Clears(p) == p # "mte"
Keeps(p) == p \in {"icache", "mte"}

IfEnabled(parser) == IF parser \in Parsers THEN <<parser>> ELSE <<>>
StartOrder == <<"instr">> \o IfEnabled("icache") \o IfEnabled("ccu") \o IfEnabled("mte")
StopOrder == IfEnabled("icache") \o IfEnabled("ccu") \o IfEnabled("mte") \o <<"instr">>

NoCall == [op |-> "none", todo |-> <<>>]
Open == [active |-> TRUE, queue |-> <<>>]
Dropped == [active |-> FALSE, queue |-> <<>>]
NoView == [p \in Plugins |-> <<>>]

Kernels == 1..MaxKernels
Items == Kernels \X (1..MaxItems)

Init ==
    /\ kernel = 0 /\ path = 0
    /\ isStop = TRUE /\ ended = FALSE /\ call = NoCall
    /\ center = [p \in Plugins |-> 0]
    /\ stream = [p \in Plugins |-> [k \in Kernels |-> Dropped]]
    /\ tasks = [p \in Plugins |-> 0]
    /\ plugin = [p \in Plugins |-> "idle"]
    /\ held = [p \in Plugins |-> 0]
    /\ table = NoView /\ kept = NoView
    /\ after = "none" /\ view = NoView
    /\ mapper = "none" /\ pc2Code = 0
    /\ written = <<>>
    /\ pushed = [p \in Plugins |-> [k \in Kernels |-> 0]]
    /\ restarted = FALSE /\ aborted = FALSE

streams == <<center, stream, tasks, pushed>>
plugins == <<plugin, held, table, kept>>
mapping == <<mapper, pc2Code>>
output == <<after, view, written>>

Current == Head(call.todo)
Active(p) == center[p] # 0 /\ stream[p][center[p]].active
Done(parser) ==
    \A p \in PluginsOf(parser) : tasks[p] = 0 /\ plugin[p] = "idle"

NextParser(op) ==
    call' = IF Len(call.todo) > 1 THEN [op |-> op, todo |-> Tail(call.todo)]
                                  ELSE NoCall
-----------------------------------------------------------------------------
(* COLLECT_START *)

StartBegin ==
    /\ call = NoCall /\ ~ended /\ kernel < MaxKernels
    /\ isStop \/ AbnormalExits
    /\ kernel' = kernel + 1
    /\ restarted' = (restarted \/ ~isStop)
    /\ call' = [op |-> "join", todo |-> StartOrder]
    /\ UNCHANGED <<path, isStop, ended, streams, plugins, mapping, output, aborted>>

(* GetPc2Code: pc2Code_ is null when the kernel's symbol is not found. *)
GetPc2Code(found) ==
    /\ pc2Code' = IF found THEN kernel ELSE 0
    /\ mapper' = IF found THEN "running" ELSE mapper
    /\ aborted' = (found /\ mapper # "none")

(* Joins the thread of the kernel before, then sets the paths. *)
StartJoin ==
    /\ call.op = "join"
    /\ after \in {"none", "done"}
    /\ after' = "none"
    /\ isStop' = FALSE
    /\ path' = kernel
    /\ \E found \in IF SourceMapped THEN BOOLEAN ELSE {FALSE} : GetPc2Code(found)
    /\ call' = [call EXCEPT !.op = "open"]
    /\ UNCHANGED <<kernel, ended, streams, plugins, view, written, restarted>>

(* Start of one sub-parser: the data center is cleared, new streams are    *)
(* registered, Entry is added to the pool.                                 *)
StartParser ==
    /\ call.op = "open"
    /\ center' = [p \in Plugins |-> IF p \in PluginsOf(Current) THEN kernel ELSE center[p]]
    /\ stream' = [p \in Plugins |-> IF p \in PluginsOf(Current)
                      THEN [stream[p] EXCEPT ![kernel] = Open] ELSE stream[p]]
    /\ tasks' = [p \in Plugins |-> IF p \in PluginsOf(Current) THEN tasks[p] + 1 ELSE tasks[p]]
    /\ call' = [call EXCEPT !.op = "poll"]
    /\ UNCHANGED <<kernel, path, isStop, ended, pushed, plugins, mapping, output,
                   restarted, aborted>>

(* RunAllPluginsNoBlock polls isEntry_ and gives up after five seconds, so *)
(* it may return whether the plugins have entered or not.                  *)
StartPolled ==
    /\ call.op = "poll"
    /\ NextParser("open")
    /\ UNCHANGED <<kernel, path, isStop, ended, streams, plugins, mapping, output,
                   restarted, aborted>>

-----------------------------------------------------------------------------
(* A log item; without a stream, or into one that is shut down, it is lost. *)
SetLog(p) ==
    /\ call = NoCall /\ ~ended
    /\ Active(p)
    /\ SumFunction([q \in Plugins |-> pushed[q][kernel]]) < MaxItems
    /\ pushed' = [pushed EXCEPT ![p][kernel] = @ + 1]
    /\ stream' = [stream EXCEPT ![p][center[p]].queue =
                      Append(@, <<kernel, pushed[p][kernel] + 1>>)]
    /\ UNCHANGED <<kernel, path, isStop, ended, call, center, tasks, plugins, mapping,
                   output, restarted, aborted>>

-----------------------------------------------------------------------------
(* PROF_FINISH, and the Stop of Run() when the program has ended *)

StopBegin ==
    /\ call = NoCall /\ ~isStop
    /\ isStop' = TRUE
    /\ call' = [op |-> "shutdown", todo |-> StopOrder]
    /\ UNCHANGED <<kernel, path, ended, streams, plugins, mapping, output, restarted,
                   aborted>>

Shutdown ==
    /\ call.op = "shutdown"
    /\ stream' = [p \in Plugins |-> IF p \in PluginsOf(Current) /\ center[p] # 0
                      THEN [stream[p] EXCEPT ![center[p]].active = FALSE] ELSE stream[p]]
    /\ call' = [call EXCEPT !.op = "wait"]
    /\ UNCHANGED <<kernel, path, isStop, ended, center, tasks, pushed, plugins, mapping,
                   output, restarted, aborted>>

StopGoesOn ==
    call' = IF Len(call.todo) > 1 THEN [op |-> "shutdown", todo |-> Tail(call.todo)]
                                  ELSE [op |-> "spawn", todo |-> <<>>]

(* variant with a bug: the thread of the plugin is not joined *)
WaitForTasksOnly ==
    /\ call.op = "wait"
    /\ \A p \in PluginsOf(Current) : tasks[p] = 0
    /\ StopGoesOn
    /\ UNCHANGED <<kernel, path, isStop, ended, streams, plugins, mapping, output,
                   restarted, aborted>>

(* WaitAllTasks and Stop of the pool: module ThreadPool. *)
WaitForStop ==
    /\ call.op = "wait"
    /\ Done(Current)
    /\ StopGoesOn
    /\ UNCHANGED <<kernel, path, isStop, ended, streams, plugins, mapping, output,
                   restarted, aborted>>

SpawnAfter ==
    /\ call.op = "spawn"
    /\ after' = "merge"
    /\ view' = NoView
    /\ aborted' = (after # "none")
    /\ call' = NoCall
    /\ UNCHANGED <<kernel, path, isStop, ended, streams, plugins, mapping, written, restarted>>

-----------------------------------------------------------------------------
(* The thread of a plugin *)

Take(p) ==
    /\ plugin[p] = "idle" /\ tasks[p] > 0
    /\ tasks' = [tasks EXCEPT ![p] = @ - 1]
    /\ plugin' = [plugin EXCEPT ![p] = "entering"]
    /\ UNCHANGED <<kernel, path, isStop, ended, call, center, stream, pushed, held, table,
                   kept, mapping, output, restarted, aborted>>

(* variant with a bug: the table of the kernel before is not cleared *)
EntryKeepsTable(p) ==
    /\ plugin[p] = "entering"
    /\ held' = [held EXCEPT ![p] = center[p]]
    /\ plugin' = [plugin EXCEPT ![p] = "looping"]
    /\ UNCHANGED <<kernel, path, isStop, ended, call, streams, table, kept, mapping,
                   output, restarted, aborted>>

Entry(p) ==
    /\ plugin[p] = "entering"
    /\ table' = [table EXCEPT ![p] = IF Clears(p) THEN <<>> ELSE @]
    /\ held' = [held EXCEPT ![p] = center[p]]
    /\ plugin' = [plugin EXCEPT ![p] = "looping"]
    /\ UNCHANGED <<kernel, path, isStop, ended, call, streams, kept, mapping, output,
                   restarted, aborted>>

(* An item of the icache plugin is a miss or a scalar; mte has one table.  *)
ParseItem(p) ==
    /\ plugin[p] = "looping"
    /\ stream[p][held[p]].active /\ stream[p][held[p]].queue # <<>>
    /\ LET item == Head(stream[p][held[p]].queue)
       IN \/ /\ Clears(p)
             /\ table' = [table EXCEPT ![p] = Append(@, item)]
             /\ UNCHANGED kept
          \/ /\ Keeps(p)
             /\ kept' = [kept EXCEPT ![p] = Append(@, item)]
             /\ UNCHANGED table
    /\ stream' = [stream EXCEPT ![p][held[p]].queue = Tail(@)]
    /\ UNCHANGED <<kernel, path, isStop, ended, call, center, tasks, pushed, plugin, held,
                   mapping, output, restarted, aborted>>

Leave(p) ==
    /\ plugin[p] = "looping"
    /\ ~stream[p][held[p]].active
    /\ plugin' = [plugin EXCEPT ![p] = "idle"]
    /\ UNCHANGED <<kernel, path, isStop, ended, call, streams, held, table, kept, mapping,
                   output, restarted, aborted>>

-----------------------------------------------------------------------------
(* ProcessAfterKernelExit: the logs are merged from the tables of the two  *)
(* instruction plugins, then come the other tables, then the source lines. *)

Read(ps) == view' = [p \in Plugins |-> IF p \in ps THEN table[p] ELSE view[p]]

Merge ==
    /\ after = "merge"
    /\ Read(PluginsOf("instr"))
    /\ after' = "insert"
    /\ UNCHANGED <<kernel, path, isStop, ended, call, streams, plugins, mapping, written,
                   restarted, aborted>>

InsertCache ==
    /\ after = "insert"
    /\ Read(Plugins \ PluginsOf("instr"))
    /\ after' = "map"
    /\ UNCHANGED <<kernel, path, isStop, ended, call, streams, plugins, mapping, written,
                   restarted, aborted>>

(* variants with a bug: the mapping thread is used but not joined; joined  *)
(* although it may not exist *)
MapUnjoined ==
    /\ after = "map"
    /\ mapper # "running"
    /\ pc2Code' = IF pc2Code = 0 THEN path ELSE pc2Code
    /\ after' = "write"
    /\ UNCHANGED <<kernel, path, isStop, ended, call, streams, plugins, mapper, view,
                   written, restarted, aborted>>

MapJoinsAlways ==
    /\ after = "map"
    /\ mapper = "done"
    /\ mapper' = "none"
    /\ after' = "write"
    /\ UNCHANGED <<kernel, path, isStop, ended, call, streams, plugins, pc2Code, view,
                   written, restarted, aborted>>

MapSource ==
    /\ after = "map"
    /\ IF pc2Code # 0 /\ mapper # "none"
       THEN mapper = "done" /\ mapper' = "none" /\ UNCHANGED pc2Code
       ELSE pc2Code' = path /\ UNCHANGED mapper
    /\ after' = "write"
    /\ UNCHANGED <<kernel, path, isStop, ended, call, streams, plugins, view, written,
                   restarted, aborted>>

Visualize ==
    /\ after = "write"
    /\ written' = Append(written, [path |-> path, source |-> pc2Code, view |-> view])
    /\ after' = "done"
    /\ UNCHANGED <<kernel, path, isStop, ended, call, streams, plugins, mapping, view,
                   restarted, aborted>>

MapperEnds ==
    /\ mapper = "running"
    /\ mapper' = "done"
    /\ UNCHANGED <<kernel, path, isStop, ended, call, streams, plugins, pc2Code, output,
                   restarted, aborted>>

(* The program is gone and the listener is joined: the caller is Run().    *)
ProgramEnds ==
    /\ ~ended /\ call = NoCall
    /\ isStop \/ AbnormalExits
    /\ ended' = TRUE
    /\ UNCHANGED <<kernel, path, isStop, call, streams, plugins, mapping, output,
                   restarted, aborted>>

(* ~RealTimeDataParser *)
Destroy ==
    /\ ended /\ isStop /\ call = NoCall
    /\ after = "done" /\ mapper # "running"
    /\ after' = "none" /\ mapper' = "none"
    /\ UNCHANGED <<kernel, path, isStop, ended, call, streams, plugins, pc2Code, view,
                   written, restarted, aborted>>

-----------------------------------------------------------------------------
Start == StartBegin \/ StartJoin \/ StartParser \/ StartPolled
Stop == StopBegin \/ Shutdown \/ WaitForStop \/ SpawnAfter
Plugin(p) == Take(p) \/ Entry(p) \/ ParseItem(p) \/ Leave(p)
ProcessAfterKernelExit == Merge \/ InsertCache \/ MapSource \/ Visualize

Next ==
    /\ ~aborted
    /\ \/ Start \/ Stop \/ ProcessAfterKernelExit \/ MapperEnds
       \/ ProgramEnds \/ Destroy
       \/ \E p \in Plugins : SetLog(p) \/ Plugin(p)

Spec == Init /\ [][Next]_vars

(* The threads are scheduled; what the listener receives is up to clients. *)
FairSpec ==
    /\ Spec
    /\ WF_vars(~aborted /\ ProcessAfterKernelExit)
    /\ WF_vars(~aborted /\ MapperEnds)

-----------------------------------------------------------------------------
Threads == {"idle", "entering", "looping"}
Operations == {"none", "join", "open", "poll", "shutdown", "wait", "spawn"}

TypeOK ==
    /\ kernel \in 0..MaxKernels /\ path \in 0..kernel
    /\ {isStop, ended, restarted, aborted} \subseteq BOOLEAN
    /\ call.op \in Operations
    /\ \A p \in Plugins :
          /\ center[p] \in 0..kernel /\ held[p] \in 0..kernel
          /\ tasks[p] \in 0..MaxKernels /\ plugin[p] \in Threads
          /\ table[p] \in Seq(Items) /\ kept[p] \in Seq(Items) /\ view[p] \in Seq(Items)
          /\ \A k \in Kernels : /\ stream[p][k].active \in BOOLEAN
                                /\ stream[p][k].queue \in Seq(Items)
                                /\ pushed[p][k] \in 0..MaxItems
    /\ after \in {"none", "merge", "insert", "map", "write", "done"}
    /\ mapper \in {"none", "running", "done"} /\ pc2Code \in 0..kernel
    /\ \A i \in DOMAIN written : written[i].path \in Kernels

FirstItems(k, n) == [i \in 1..n |-> <<k, i>>]
SomeOf(all, part) ==
    /\ Range(part) \subseteq Range(all)
    /\ \A i, j \in DOMAIN part : i < j => part[i][2] < part[j][2]

(* An output directory gets the first items of its own kernel, in order    *)
(* and none twice, and the source lines of that kernel: whatever the       *)
(* threads left over from other kernels do, with late plugins and with     *)
(* programs that die.  (The icache plugin keeps some items elsewhere; the  *)
(* tables that are never cleared are not in it.)                           *)
OutputOfOneKernel ==
    \A i \in DOMAIN written :
        LET w == written[i]
        IN /\ w.source = w.path
           /\ \A p \in Plugins : LET all == FirstItems(w.path, pushed[p][w.path]) IN
                 IF Keeps(p) THEN SomeOf(all, w.view[p]) ELSE IsPrefix(w.view[p], all)

(* The tables are read without a lock: while ProcessAfterKernelExit works  *)
(* no plugin is in Entry or about to be.                                   *)
TablesQuietWhileRead ==
    after \in {"merge", "insert", "map", "write"} =>
        \A parser \in Parsers : Done(parser)

(* Assigning to a joinable std::thread ends the profiler.  Every thread is *)
(* joined before its successor starts unless a COLLECT_START came without  *)
(* the PROF_FINISH of the kernel before.                                   *)
AbortsOnlyAfterLostFinish == aborted => restarted

(* ProcessAfterKernelExit ends: the Start of the next kernel and the       *)
(* destructor, which join it, are not stuck.                               *)
AfterExitEnds == after = "merge" ~> (after \in {"done", "none"} \/ aborted)

(* op_prof_task.cpp:411: the finish event flushes the remaining data of    *)
(* the callbacks.  So an output holds all the items of its kernel.         *)
FinishFlushes ==
    \A i \in DOMAIN written : LET w == written[i] IN
        \A p \in {"pop", "instr"} : Len(w.view[p]) = pushed[p][w.path]
=============================================================================
