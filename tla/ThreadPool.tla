----------------------------- MODULE ThreadPool -----------------------------
(***************************************************************************)
(* Utility::ThreadPool (utils/cpputils/thread_pool.{h,cpp}): a fixed       *)
(* number of threads that share a queue under one mutex                    *)
(* (poolRunningStatusMutex_) and two condition variables.  hasTaskToDo_    *)
(* is where idle threads sleep, waitTaskDone_ where the owner of the pool  *)
(* sleeps in WaitAllTasks.  A critical section of the mutex is one action: *)
(* every notify of the pool is issued with the mutex held, so a thread     *)
(* cannot miss one between testing its predicate and going to sleep.       *)
(*                                                                         *)
(* The owner of a pool calls Start, WaitAllTasks and Stop one after the    *)
(* other, in any order, as every user in src/csrc does; AddTask may come   *)
(* from any thread at any time, before Start and after Stop included.      *)
(* Calls the code refuses (Start of a running pool or of a pool without    *)
(* threads, Stop of a stopped pool) and a WaitAllTasks that finds the      *)
(* queue empty change nothing and are stuttering steps.                    *)
(***************************************************************************)
EXTENDS Sequences, FiniteSets, Integers

CONSTANTS
    Workers,    \* the threads Start creates: threadsNum_ of them
    Tasks,      \* the tasks that may be added, each once
    NoTask      \* what a thread outside a task holds

ASSUME NoTaskAssumption == NoTask \notin Tasks
ASSUME WorkersAssumption == IsFiniteSet(Workers)

VARIABLES
    running,    \* running_
    queue,      \* taskQueue_
    pc,         \* where each thread is
    task,       \* the task each thread executes
    owner,      \* where the owner of the pool is
    added,      \* history: the tasks that were added
    done        \* history: the tasks that were executed to their end

vars == <<running, queue, pc, task, owner, added, done>>

(* "none": not created, or joined and released; "loop": about to read      *)
(* running_ in Loop; "fetch": about to take the mutex in FetchTask;        *)
(* "asleep": in hasTaskToDo_.wait; "task": executing; "exited": returned   *)
(* from Loop.                                                              *)
WorkerPc == {"none", "loop", "fetch", "asleep", "task", "exited"}

(* "asleep": in waitTaskDone_.wait; "woken": notified there; "joining":    *)
(* in Stop, after the critical section.                                    *)
OwnerPc == {"idle", "asleep", "woken", "joining"}

QueueSet == { queue[i] : i \in DOMAIN queue }
Executing == { task[w] : w \in {v \in Workers : pc[v] = "task"} }

Asleep == { w \in Workers : pc[w] = "asleep" }
Awake == { w \in Workers : pc[w] \in {"loop", "fetch"} }

Init ==
    /\ running = FALSE
    /\ queue = <<>>
    /\ pc = [w \in Workers |-> "none"]
    /\ task = [w \in Workers |-> NoTask]
    /\ owner = "idle"
    /\ added = {}
    /\ done = {}

-----------------------------------------------------------------------------
(* Variants of the actions below, each with a bug such code is prone to.   *)
(* They are part of no specification; PROJECT.json names the property that *)
(* notices each.                                                           *)

(* Stop without notify_all *)
BeginStopSilent ==
    /\ owner = "idle"
    /\ running
    /\ running' = FALSE
    /\ owner' = "joining"
    /\ UNCHANGED <<queue, pc, task, added, done>>

(* Stop without the joins *)
EndStopNoJoin ==
    /\ owner = "joining"
    /\ owner' = "idle"
    /\ UNCHANGED <<running, queue, pc, task, added, done>>

(* AddTask without notify_one *)
AddTaskSilent(t) ==
    /\ t \notin added
    /\ added' = added \cup {t}
    /\ queue' = Append(queue, t)
    /\ UNCHANGED <<running, pc, task, owner, done>>

(* FetchTask from the wrong end of the queue *)
TakeTaskLast(w) ==
    /\ pc[w] = "fetch" /\ running /\ queue # <<>>
    /\ task' = [task EXCEPT ![w] = queue[Len(queue)]]
    /\ queue' = SubSeq(queue, 1, Len(queue) - 1)
    /\ owner' = IF owner = "asleep" THEN "woken" ELSE owner
    /\ pc' = [pc EXCEPT ![w] = "task"]
    /\ UNCHANGED <<running, added, done>>

-----------------------------------------------------------------------------
(* The owner's calls *)

Start ==
    /\ owner = "idle"
    /\ ~running
    /\ Workers # {}
    /\ running' = TRUE
    /\ pc' = [w \in Workers |-> "loop"]
    /\ UNCHANGED <<queue, task, owner, added, done>>

(* Stop up to the end of its critical section: running_ falls and          *)
(* notify_all wakes every sleeping thread.                                 *)
BeginStop ==
    /\ owner = "idle"
    /\ running
    /\ running' = FALSE
    /\ pc' = [w \in Workers |-> IF pc[w] = "asleep" THEN "fetch" ELSE pc[w]]
    /\ owner' = "joining"
    /\ UNCHANGED <<queue, task, added, done>>

(* The joins of Stop and threads_.clear(). *)
EndStop ==
    /\ owner = "joining"
    /\ \A w \in Workers : pc[w] = "exited"
    /\ pc' = [w \in Workers |-> "none"]
    /\ owner' = "idle"
    /\ UNCHANGED <<running, queue, task, added, done>>

WaitAllTasks ==
    /\ owner = "idle"
    /\ queue # <<>>
    /\ owner' = "asleep"
    /\ UNCHANGED <<running, queue, pc, task, added, done>>

(* The owner re-evaluates its predicate after a notify. *)
RecheckWait ==
    /\ owner = "woken"
    /\ owner' = IF queue = <<>> THEN "idle" ELSE "asleep"
    /\ UNCHANGED <<running, queue, pc, task, added, done>>

-----------------------------------------------------------------------------
(* Any thread *)

(* push, then hasTaskToDo_.notify_one: one sleeping thread, if there is    *)
(* one, wakes.                                                             *)
AddTask(t) ==
    /\ t \notin added
    /\ added' = added \cup {t}
    /\ queue' = Append(queue, t)
    /\ \/ /\ Asleep = {}
          /\ UNCHANGED pc
       \/ \E w \in Asleep : pc' = [pc EXCEPT ![w] = "fetch"]
    /\ UNCHANGED <<running, task, owner, done>>

-----------------------------------------------------------------------------
(* The threads of the pool *)

(* while (running_): an atomic read outside the mutex. *)
LoopTest(w) ==
    /\ pc[w] = "loop"
    /\ pc' = [pc EXCEPT ![w] = IF running THEN "fetch" ELSE "exited"]
    /\ UNCHANGED <<running, queue, task, owner, added, done>>

(* FetchTask takes a task and notifies the owner in WaitAllTasks. *)
TakeTask(w) ==
    /\ pc[w] = "fetch"
    /\ running
    /\ queue # <<>>
    /\ task' = [task EXCEPT ![w] = Head(queue)]
    /\ queue' = Tail(queue)
    /\ owner' = IF owner = "asleep" THEN "woken" ELSE owner
    /\ pc' = [pc EXCEPT ![w] = "task"]
    /\ UNCHANGED <<running, added, done>>

(* FetchTask finds nothing to take: it sleeps while the pool runs and      *)
(* returns false once it was stopped, whatever the queue still holds.      *)
FetchNothing(w) ==
    /\ pc[w] = "fetch"
    /\ running => queue = <<>>
    /\ pc' = [pc EXCEPT ![w] = IF running THEN "asleep" ELSE "loop"]
    /\ UNCHANGED <<running, queue, task, owner, added, done>>

(* task() returns or throws: the wrapper made in AddTask catches           *)
(* everything, so that the thread goes on either way.                      *)
RunTask(w) ==
    /\ pc[w] = "task"
    /\ done' = done \cup {task[w]}
    /\ task' = [task EXCEPT ![w] = NoTask]
    /\ pc' = [pc EXCEPT ![w] = "loop"]
    /\ UNCHANGED <<running, queue, owner, added>>

(* A condition variable may wake a thread without a notify. *)
SpuriousWakeup ==
    \/ \E w \in Asleep :
          /\ pc' = [pc EXCEPT ![w] = "fetch"]
          /\ UNCHANGED <<running, queue, task, owner, added, done>>
    \/ /\ owner = "asleep"
       /\ owner' = "woken"
       /\ UNCHANGED <<running, queue, pc, task, added, done>>

-----------------------------------------------------------------------------
WorkerStep(w) == LoopTest(w) \/ TakeTask(w) \/ FetchNothing(w) \/ RunTask(w)

Next ==
    \/ Start
    \/ BeginStop
    \/ EndStop
    \/ WaitAllTasks
    \/ RecheckWait
    \/ SpuriousWakeup
    \/ \E t \in Tasks : AddTask(t)
    \/ \E w \in Workers : WorkerStep(w)

Spec == Init /\ [][Next]_vars

(* Threads are scheduled and tasks end.  No fairness for the calls of the  *)
(* owner and of the producers, nor for spurious wakeups.                   *)
Fairness ==
    /\ \A w \in Workers : WF_vars(WorkerStep(w))
    /\ WF_vars(RecheckWait)
    /\ WF_vars(EndStop)

FairSpec == Spec /\ Fairness

-----------------------------------------------------------------------------
(* The variables range over the states thread_pool.cpp gives them; only a  *)
(* thread inside a task holds one.                                         *)
TypeOK ==
    /\ running \in BOOLEAN
    /\ queue \in Seq(Tasks)
    /\ pc \in [Workers -> WorkerPc]
    /\ task \in [Workers -> Tasks \cup {NoTask}]
    /\ \A w \in Workers : pc[w] = "task" <=> task[w] # NoTask
    /\ owner \in OwnerPc
    /\ added \subseteq Tasks
    /\ done \subseteq Tasks

(* No task is lost or duplicated between AddTask, FetchTask and the        *)
(* threads: a task is at one position of the queue, or in the hands of one *)
(* thread, or done.                                                        *)
OneHolder ==
    /\ \A i, j \in DOMAIN queue : queue[i] = queue[j] => i = j
    /\ \A v, w \in Workers :
          pc[v] = "task" /\ pc[w] = "task" /\ task[v] = task[w] => v = w
    /\ QueueSet \cap Executing = {}
    /\ done \cap (QueueSet \cup Executing) = {}
    /\ added = QueueSet \cup Executing \cup done

(* notify_one for each push is enough: as long as a thread sleeps, every   *)
(* queued task has a thread of its own on its way to FetchTask.            *)
NoIdleThreadWhileTasksQueue ==
    running /\ Asleep # {} => Len(queue) <= Cardinality(Awake)

(* The owner never sleeps on in WaitAllTasks when the queue has drained:   *)
(* the notify of the last FetchTask reached it.                            *)
WaitNotMissed == owner = "asleep" => queue # <<>>

(* No wakeup is missed: neither by a thread while tasks queue nor by the   *)
(* owner once they are fetched.                                            *)
NoMissedWakeup == NoIdleThreadWhileTasksQueue /\ WaitNotMissed

(* While a pool is not running and its owner is out of Stop, no thread of  *)
(* it exists: a restart cannot meet a thread of the previous run, and what *)
(* the tasks wrote can be read without a lock.                             *)
QuietOnceStopped ==
    ~running /\ owner # "joining" => \A w \in Workers : pc[w] = "none"

(* The idiom of every user, WaitAllTasks then Stop, executes all of the    *)
(* tasks to their end although "this function does not ensure that the     *)
(* task is complete": when Stop returned with nothing queued, nothing is   *)
(* left in the hands of a thread.                                          *)
AllDoneOnceDrainedAndStopped ==
    ~running /\ owner = "idle" /\ queue = <<>> => added = done

(* What the owner may rely on after Stop: no thread is left, and nothing   *)
(* that was added is unfinished if the queue was drained before.           *)
StoppedIsDone == QuietOnceStopped /\ AllDoneOnceDrainedAndStopped

(* Stop returns: every thread reaches the end of Loop and is joined. *)
StopReturns == owner = "joining" ~> owner = "idle"

(* WaitAllTasks returns on a running pool. *)
WaitReturns == owner = "asleep" /\ running ~> owner = "idle"

(* The two calls that block the owner end. *)
CallsReturn == StopReturns /\ WaitReturns

-----------------------------------------------------------------------------
(* Refinement: the pool is a TaskExecutor. *)
Phase ==
    IF running THEN "open"
    ELSE IF owner = "joining" THEN "closing" ELSE "closed"

Executor == INSTANCE TaskExecutor
    WITH phase <- Phase, pending <- queue, executing <- Executing, finished <- done

ImplementsExecutor == Executor!Spec
=============================================================================
