-------------------------- MODULE ThreadPoolProofs --------------------------
(***************************************************************************)
(* What TLC checks of ThreadPool for a few threads and tasks, proved for   *)
(* every finite set of threads and every set of tasks.  The inductive      *)
(* invariant is TypeOK, OneHolder and PhaseInv: PhaseInv ties the places   *)
(* of the threads to running_ and to the owner being inside Stop.          *)
(***************************************************************************)
EXTENDS ThreadPool, SequenceTheorems, FiniteSetTheorems, TLAPS

(* A stopped pool has no threads, a running pool has no thread that left,  *)
(* and during Stop no thread sleeps: notify_all came with running_ = false.*)
PhaseInv ==
    /\ running => owner # "joining"
    /\ running => \A w \in Workers : pc[w] \notin {"none", "exited"}
    /\ owner = "joining" => \A w \in Workers : pc[w] \notin {"none", "asleep"}
    /\ QuietOnceStopped

-----------------------------------------------------------------------------
(* What taskQueue_.emplace_back does to the tasks of the queue. *)
LEMMA AppendElements ==
    ASSUME NEW S, NEW s \in Seq(S), NEW e \in S
    PROVE  /\ Append(s, e) \in Seq(S)
           /\ {Append(s, e)[i] : i \in DOMAIN Append(s, e)}
                 = {s[i] : i \in DOMAIN s} \cup {e}
           /\ (\A i, j \in DOMAIN s : s[i] = s[j] => i = j)
                 /\ e \notin {s[i] : i \in DOMAIN s}
              => \A i, j \in DOMAIN Append(s, e) :
                    Append(s, e)[i] = Append(s, e)[j] => i = j
<1>1. /\ Append(s, e) \in Seq(S)
      /\ Len(Append(s, e)) = Len(s) + 1
      /\ \A i \in 1..Len(s) : Append(s, e)[i] = s[i]
      /\ Append(s, e)[Len(s) + 1] = e
  BY AppendProperties
<1>2. /\ DOMAIN s = 1..Len(s)
      /\ Len(s) \in Nat
      /\ DOMAIN Append(s, e) = 1..(Len(s) + 1)
  BY <1>1, LenProperties
<1> QED
  BY <1>1, <1>2

(* What front followed by pop_front does to the tasks of the queue. *)
LEMMA TailElements ==
    ASSUME NEW S, NEW s \in Seq(S), s # <<>>
    PROVE  /\ Head(s) \in S
           /\ Tail(s) \in Seq(S)
           /\ {s[i] : i \in DOMAIN s}
                 = {Tail(s)[i] : i \in DOMAIN Tail(s)} \cup {Head(s)}
           /\ (\A i, j \in DOMAIN s : s[i] = s[j] => i = j)
              => /\ \A i, j \in DOMAIN Tail(s) : Tail(s)[i] = Tail(s)[j] => i = j
                 /\ Head(s) \notin {Tail(s)[i] : i \in DOMAIN Tail(s)}
<1>1. /\ Head(s) \in S
      /\ Tail(s) \in Seq(S)
      /\ Len(Tail(s)) = Len(s) - 1
      /\ \A i \in 1..Len(Tail(s)) : Tail(s)[i] = s[i + 1]
  BY HeadTailProperties
<1>2. /\ DOMAIN s = 1..Len(s)
      /\ Len(s) \in Nat \ {0}
      /\ DOMAIN Tail(s) = 1..(Len(s) - 1)
      /\ Head(s) = s[1]
  BY <1>1, LenProperties, EmptySeq
<1>3. \A i \in DOMAIN s : i = 1 \/ (i - 1 \in DOMAIN Tail(s) /\ Tail(s)[i - 1] = s[i])
  BY <1>1, <1>2
<1>4. \A i \in DOMAIN Tail(s) : i + 1 \in DOMAIN s /\ Tail(s)[i] = s[i + 1] /\ i + 1 # 1
  BY <1>1, <1>2
<1>5. {s[i] : i \in DOMAIN s} = {Tail(s)[i] : i \in DOMAIN Tail(s)} \cup {Head(s)}
  <2>1. {s[i] : i \in DOMAIN s} \subseteq {Tail(s)[i] : i \in DOMAIN Tail(s)} \cup {Head(s)}
    <3> SUFFICES ASSUME NEW i \in DOMAIN s
                 PROVE  s[i] \in {Tail(s)[j] : j \in DOMAIN Tail(s)} \cup {s[1]}
      BY <1>2
    <3> QED
      BY <1>3
  <2>2. {Tail(s)[i] : i \in DOMAIN Tail(s)} \subseteq {s[i] : i \in DOMAIN s}
    BY <1>4
  <2>3. Head(s) \in {s[i] : i \in DOMAIN s}
    BY <1>2
  <2> QED
    BY <2>1, <2>2, <2>3
<1>6. ASSUME \A i, j \in DOMAIN s : s[i] = s[j] => i = j
      PROVE  /\ \A i, j \in DOMAIN Tail(s) : Tail(s)[i] = Tail(s)[j] => i = j
             /\ Head(s) \notin {Tail(s)[i] : i \in DOMAIN Tail(s)}
  <2>1. 1 \in DOMAIN s
    BY <1>2
  <2>2. ASSUME NEW i \in DOMAIN Tail(s), NEW j \in DOMAIN Tail(s), Tail(s)[i] = Tail(s)[j]
        PROVE  i = j
    BY <1>2, <1>4, <1>6, <2>2
  <2> QED
    BY <1>2, <1>4, <1>6, <2>1, <2>2
<1> QED
  BY <1>1, <1>5, <1>6

-----------------------------------------------------------------------------
LEMMA TypeStep == TypeOK /\ PhaseInv /\ [Next]_vars => TypeOK'
<1> SUFFICES ASSUME TypeOK, PhaseInv, [Next]_vars
             PROVE  TypeOK'
  OBVIOUS
<1> USE DEF TypeOK
<1>1. CASE Start
  BY <1>1, NoTaskAssumption DEF Start, WorkerPc, PhaseInv, QuietOnceStopped
<1>2. CASE BeginStop
  BY <1>2, NoTaskAssumption DEF BeginStop, WorkerPc, OwnerPc
<1>3. CASE EndStop
  BY <1>3, NoTaskAssumption DEF EndStop, WorkerPc, OwnerPc
<1>4. CASE WaitAllTasks
  BY <1>4 DEF WaitAllTasks, OwnerPc
<1>5. CASE RecheckWait
  BY <1>5 DEF RecheckWait, OwnerPc
<1>6. CASE SpuriousWakeup
  BY <1>6 DEF SpuriousWakeup, Asleep, WorkerPc, OwnerPc
<1>7. ASSUME NEW t \in Tasks, AddTask(t)
      PROVE  TypeOK'
  <2>1. queue' \in Seq(Tasks)
    BY <1>7, AppendElements DEF AddTask
  <2>2. /\ pc' \in [Workers -> WorkerPc]
        /\ \A w \in Workers : pc'[w] = "task" <=> task'[w] # NoTask
    BY <1>7 DEF AddTask, Asleep, WorkerPc
  <2> QED
    BY <1>7, <2>1, <2>2 DEF AddTask
<1>8. ASSUME NEW w \in Workers, WorkerStep(w)
      PROVE  TypeOK'
  <2>1. CASE LoopTest(w)
    BY <2>1 DEF LoopTest, WorkerPc
  <2>2. CASE TakeTask(w)
    <3>1. Head(queue) \in Tasks /\ Tail(queue) \in Seq(Tasks)
      BY <2>2, TailElements DEF TakeTask
    <3> QED
      BY <2>2, <3>1, NoTaskAssumption DEF TakeTask, WorkerPc, OwnerPc
  <2>3. CASE FetchNothing(w)
    BY <2>3 DEF FetchNothing, WorkerPc
  <2>4. CASE RunTask(w)
    BY <2>4 DEF RunTask, WorkerPc
  <2> QED
    BY <1>8, <2>1, <2>2, <2>3, <2>4 DEF WorkerStep
<1>9. CASE UNCHANGED vars
  BY <1>9 DEF vars
<1> QED
  BY <1>1, <1>2, <1>3, <1>4, <1>5, <1>6, <1>7, <1>8, <1>9 DEF Next

LEMMA PhaseStep == TypeOK /\ PhaseInv /\ [Next]_vars => PhaseInv'
<1> SUFFICES ASSUME TypeOK, PhaseInv, [Next]_vars
             PROVE  PhaseInv'
  OBVIOUS
<1> USE DEF TypeOK, PhaseInv, QuietOnceStopped, WorkerPc, OwnerPc
<1>1. CASE Start
  BY <1>1 DEF Start
<1>2. CASE BeginStop
  BY <1>2 DEF BeginStop
<1>3. CASE EndStop
  BY <1>3 DEF EndStop
<1>4. CASE WaitAllTasks
  BY <1>4 DEF WaitAllTasks
<1>5. CASE RecheckWait
  BY <1>5 DEF RecheckWait
<1>6. CASE SpuriousWakeup
  BY <1>6 DEF SpuriousWakeup, Asleep
<1>7. ASSUME NEW t \in Tasks, AddTask(t)
      PROVE  PhaseInv'
  BY <1>7 DEF AddTask, Asleep
<1>8. ASSUME NEW w \in Workers, WorkerStep(w)
      PROVE  PhaseInv'
  <2>1. CASE LoopTest(w)
    BY <2>1 DEF LoopTest
  <2>2. CASE TakeTask(w)
    BY <2>2 DEF TakeTask
  <2>3. CASE FetchNothing(w)
    BY <2>3 DEF FetchNothing
  <2>4. CASE RunTask(w)
    BY <2>4 DEF RunTask
  <2> QED
    BY <1>8, <2>1, <2>2, <2>3, <2>4 DEF WorkerStep
<1>9. CASE UNCHANGED vars
  BY <1>9 DEF vars
<1> QED
  BY <1>1, <1>2, <1>3, <1>4, <1>5, <1>6, <1>7, <1>8, <1>9 DEF Next

(* A step that moves no thread into or out of a task and leaves the queue  *)
(* and the histories alone keeps the holders.                              *)
LEMMA HolderFrame ==
    ASSUME OneHolder,
           UNCHANGED <<queue, task, added, done>>,
           \A w \in Workers : pc'[w] = "task" <=> pc[w] = "task"
    PROVE  OneHolder'
<1>1. QueueSet' = QueueSet
  BY DEF QueueSet
<1>2. Executing' = Executing
  BY DEF Executing
<1> QED
  BY <1>1, <1>2 DEF OneHolder

LEMMA HolderStep == TypeOK /\ PhaseInv /\ OneHolder /\ [Next]_vars => OneHolder'
<1> SUFFICES ASSUME TypeOK, PhaseInv, OneHolder, [Next]_vars
             PROVE  OneHolder'
  OBVIOUS
<1> USE DEF TypeOK
<1>1. CASE Start
  BY <1>1, HolderFrame DEF Start, PhaseInv, QuietOnceStopped
<1>2. CASE BeginStop
  BY <1>2, HolderFrame DEF BeginStop
<1>3. CASE EndStop
  BY <1>3, HolderFrame DEF EndStop
<1>4. CASE WaitAllTasks
  BY <1>4, HolderFrame DEF WaitAllTasks
<1>5. CASE RecheckWait
  BY <1>5, HolderFrame DEF RecheckWait
<1>6. CASE SpuriousWakeup
  BY <1>6, HolderFrame DEF SpuriousWakeup, Asleep
<1>7. ASSUME NEW t \in Tasks, AddTask(t)
      PROVE  OneHolder'
  <2>1. QueueSet' = QueueSet \cup {t}
    BY <1>7, AppendElements DEF AddTask, QueueSet
  <2>2. \A w \in Workers : pc'[w] = "task" <=> pc[w] = "task"
    BY <1>7 DEF AddTask, Asleep
  <2>3. Executing' = Executing
    BY <1>7, <2>2 DEF AddTask, Executing
  <2>4. t \notin QueueSet /\ t \notin Executing /\ t \notin done
    BY <1>7 DEF AddTask, OneHolder
  <2>5. \A i, j \in DOMAIN queue' : queue'[i] = queue'[j] => i = j
    BY <1>7, <2>4, AppendElements DEF AddTask, QueueSet, OneHolder
  <2> QED
    BY <1>7, <2>1, <2>2, <2>3, <2>4, <2>5 DEF AddTask, OneHolder
<1>8. ASSUME NEW w \in Workers, WorkerStep(w)
      PROVE  OneHolder'
  <2>1. CASE LoopTest(w)
    BY <2>1, HolderFrame DEF LoopTest
  <2>2. CASE TakeTask(w)
    <3>1. /\ QueueSet = QueueSet' \cup {Head(queue)}
          /\ Head(queue) \notin QueueSet'
          /\ \A i, j \in DOMAIN queue' : queue'[i] = queue'[j] => i = j
      <4>1. queue \in Seq(Tasks) /\ queue # <<>> /\ queue' = Tail(queue)
        BY <2>2 DEF TakeTask
      <4>2. \A i, j \in DOMAIN queue : queue[i] = queue[j] => i = j
        BY DEF OneHolder
      <4> HIDE DEF TypeOK
      <4>3. /\ \A i, j \in DOMAIN Tail(queue) : Tail(queue)[i] = Tail(queue)[j] => i = j
            /\ Head(queue) \notin {Tail(queue)[i] : i \in DOMAIN Tail(queue)}
            /\ {queue[i] : i \in DOMAIN queue}
                  = {Tail(queue)[i] : i \in DOMAIN Tail(queue)} \cup {Head(queue)}
        BY <4>1, <4>2, TailElements
      <4> QED
        BY <4>1, <4>3, Zenon DEF QueueSet
    <3>2. Executing' = Executing \cup {Head(queue)}
      BY <2>2 DEF TakeTask, Executing
    <3>3. \A u, v \in Workers :
             pc'[u] = "task" /\ pc'[v] = "task" /\ task'[u] = task'[v] => u = v
      <4>1. \A v \in Workers : pc[v] = "task" => task[v] # Head(queue)
        BY <3>1 DEF OneHolder, Executing
      <4> QED
        BY <2>2, <4>1 DEF TakeTask, OneHolder
    <3> QED
      BY <2>2, <3>1, <3>2, <3>3 DEF TakeTask, OneHolder
  <2>3. CASE FetchNothing(w)
    BY <2>3, HolderFrame DEF FetchNothing
  <2>4. CASE RunTask(w)
    <3>1. Executing' = Executing \ {task[w]}
      BY <2>4 DEF RunTask, Executing, OneHolder
    <3>2. QueueSet' = QueueSet
      BY <2>4 DEF RunTask, QueueSet
    <3>3. task[w] \in Executing
      BY <2>4 DEF RunTask, Executing
    <3>4. \A u, v \in Workers :
             pc'[u] = "task" /\ pc'[v] = "task" /\ task'[u] = task'[v] => u = v
      BY <2>4 DEF RunTask, OneHolder
    <3> QED
      BY <2>4, <3>1, <3>2, <3>3, <3>4 DEF RunTask, OneHolder
  <2> QED
    BY <1>8, <2>1, <2>2, <2>3, <2>4 DEF WorkerStep
<1>9. CASE UNCHANGED vars
  BY <1>9, HolderFrame DEF vars
<1> QED
  BY <1>1, <1>2, <1>3, <1>4, <1>5, <1>6, <1>7, <1>8, <1>9 DEF Next

-----------------------------------------------------------------------------
IInv == TypeOK /\ PhaseInv /\ OneHolder

LEMMA InitIInv == Init => IInv
<1> SUFFICES ASSUME Init
             PROVE  IInv
  OBVIOUS
<1>1. TypeOK
  BY NoTaskAssumption, EmptySeq DEF Init, TypeOK, WorkerPc, OwnerPc
<1>2. PhaseInv
  BY DEF Init, PhaseInv, QuietOnceStopped
<1>3. QueueSet = {} /\ Executing = {} /\ DOMAIN queue = {}
  BY EmptySeq, LenProperties DEF Init, QueueSet, Executing
<1>4. OneHolder
  BY <1>3 DEF Init, OneHolder
<1> QED
  BY <1>1, <1>2, <1>4 DEF IInv

THEOREM Invariant == Spec => []IInv
<1>1. IInv /\ [Next]_vars => IInv'
  BY TypeStep, PhaseStep, HolderStep DEF IInv
<1> QED
  BY InitIInv, <1>1, PTL DEF Spec

(* The variables keep their types: running_, taskQueue_ and the places of  *)
(* the threads stay in their ranges, and a thread holds a task exactly     *)
(* while it executes it.                                                   *)
THEOREM TypeCorrect == Spec => []TypeOK
BY Invariant, PTL DEF IInv

(* AddTask, FetchTask and the threads neither lose a task nor duplicate    *)
(* one.                                                                    *)
THEOREM OneHolderCorrect == Spec => []OneHolder
BY Invariant, PTL DEF IInv

(* Outside Stop, a pool that is not running has no thread. *)
THEOREM QuietCorrect == Spec => []QuietOnceStopped
BY Invariant, PTL DEF IInv, PhaseInv

(* Once Stop returned with an empty queue every added task has run to its  *)
(* end: the drain-then-stop idiom of the users of the pool is right.       *)
THEOREM DrainedCorrect == Spec => []AllDoneOnceDrainedAndStopped
<1>1. IInv => AllDoneOnceDrainedAndStopped
  <2> SUFFICES ASSUME IInv, ~running, owner = "idle", queue = <<>>
               PROVE  added = done
    BY DEF AllDoneOnceDrainedAndStopped
  <2>1. Executing = {}
    BY DEF IInv, PhaseInv, QuietOnceStopped, Executing
  <2>2. QueueSet = {}
    BY EmptySeq, LenProperties DEF QueueSet
  <2> QED
    BY <2>1, <2>2 DEF IInv, OneHolder
<1> QED
  BY Invariant, <1>1, PTL

-----------------------------------------------------------------------------
LEMMA WaitStep == TypeOK /\ WaitNotMissed /\ [Next]_vars => WaitNotMissed'
<1> SUFFICES ASSUME TypeOK, WaitNotMissed, [Next]_vars
             PROVE  WaitNotMissed'
  OBVIOUS
<1> USE DEF TypeOK, WaitNotMissed
<1>1. ASSUME NEW t \in Tasks, AddTask(t)
      PROVE  WaitNotMissed'
  <2>1. Append(queue, t) # <<>>
    BY AppendProperties, EmptySeq
  <2> QED
    BY <1>1, <2>1 DEF AddTask
<1>2. ASSUME NEW w \in Workers, WorkerStep(w)
      PROVE  WaitNotMissed'
  BY <1>2 DEF WorkerStep, LoopTest, TakeTask, FetchNothing, RunTask
<1>3. CASE Start \/ BeginStop \/ EndStop \/ WaitAllTasks \/ RecheckWait
  BY <1>3 DEF Start, BeginStop, EndStop, WaitAllTasks, RecheckWait
<1>4. CASE SpuriousWakeup
  BY <1>4 DEF SpuriousWakeup
<1>5. CASE UNCHANGED vars
  BY <1>5 DEF vars
<1> QED
  BY <1>1, <1>2, <1>3, <1>4, <1>5 DEF Next

(* The notify_one of the last FetchTask always reaches the owner: it does  *)
(* not sleep in WaitAllTasks over an empty queue.                          *)
THEOREM WaitCorrect == Spec => []WaitNotMissed
<1>1. Init => WaitNotMissed
  BY DEF Init, WaitNotMissed
<1> QED
  BY <1>1, WaitStep, TypeCorrect, PTL DEF Spec

-----------------------------------------------------------------------------
LEMMA AwakeFinite ==
    /\ IsFiniteSet(Awake)
    /\ Cardinality(Awake) \in Nat
BY WorkersAssumption, FS_Subset, FS_CardinalityType DEF Awake

(* A step that changes neither the queue nor running_ and wakes threads or *)
(* ends tasks but puts no thread to sleep.                                 *)
LEMMA NoIdleFrame ==
    ASSUME TypeOK,
           NoIdleThreadWhileTasksQueue,
           UNCHANGED <<queue, running>>,
           Asleep' \subseteq Asleep,
           Awake \subseteq Awake',
           Awake' \subseteq Workers
    PROVE  NoIdleThreadWhileTasksQueue'
<1>1. IsFiniteSet(Awake') /\ Cardinality(Awake) <= Cardinality(Awake')
  BY WorkersAssumption, FS_Subset
<1>2. Cardinality(Awake') \in Nat /\ Cardinality(Awake) \in Nat
  BY <1>1, AwakeFinite, FS_CardinalityType
<1>3. Len(queue) \in Nat
  BY LenProperties DEF TypeOK
<1> QED
  BY <1>1, <1>2, <1>3 DEF NoIdleThreadWhileTasksQueue

LEMMA NoIdleStep ==
    IInv /\ NoIdleThreadWhileTasksQueue /\ [Next]_vars => NoIdleThreadWhileTasksQueue'
<1> SUFFICES ASSUME IInv, NoIdleThreadWhileTasksQueue, [Next]_vars
             PROVE  NoIdleThreadWhileTasksQueue'
  OBVIOUS
<1>t. TypeOK
  BY DEF IInv
<1>n. Len(queue) \in Nat
  BY <1>t, LenProperties DEF TypeOK
<1>1. CASE Start
  <2>1. Asleep' = {}
    BY <1>1 DEF Start, Asleep
  <2> QED
    BY <2>1 DEF NoIdleThreadWhileTasksQueue
<1>2. CASE BeginStop
  BY <1>2 DEF BeginStop, NoIdleThreadWhileTasksQueue
<1>3. CASE EndStop
  <2>1. ~running'
    BY <1>3 DEF EndStop, IInv, PhaseInv
  <2> QED
    BY <2>1 DEF NoIdleThreadWhileTasksQueue
<1>4. CASE WaitAllTasks \/ RecheckWait \/ UNCHANGED vars
  <2>1. UNCHANGED <<queue, running, pc>>
    BY <1>4 DEF WaitAllTasks, RecheckWait, vars
  <2> QED
    BY <2>1 DEF NoIdleThreadWhileTasksQueue, Asleep, Awake
<1>5. CASE SpuriousWakeup
  <2>1. UNCHANGED <<queue, running>>
    BY <1>5 DEF SpuriousWakeup
  <2>2. /\ Asleep' \subseteq Asleep
        /\ Awake \subseteq Awake'
        /\ Awake' \subseteq Workers
    BY <1>5, <1>t DEF SpuriousWakeup, Asleep, Awake, TypeOK
  <2> QED
    BY <1>t, <2>1, <2>2, NoIdleFrame
<1>6. ASSUME NEW t \in Tasks, AddTask(t)
      PROVE  NoIdleThreadWhileTasksQueue'
  <2>1. Len(queue') = Len(queue) + 1
    BY <1>6, <1>t, AppendProperties DEF AddTask, TypeOK
  <2>2. CASE Asleep = {} /\ UNCHANGED pc
    <3>1. Asleep' = {}
      BY <2>2 DEF Asleep
    <3> QED
      BY <3>1 DEF NoIdleThreadWhileTasksQueue
  <2>3. ASSUME NEW w \in Asleep, pc' = [pc EXCEPT ![w] = "fetch"]
        PROVE  NoIdleThreadWhileTasksQueue'
    <3>1. w \notin Awake /\ Awake' = Awake \cup {w}
      BY <1>t, <2>3 DEF Asleep, Awake, TypeOK
    <3>2. Cardinality(Awake') = Cardinality(Awake) + 1
      BY <3>1, AwakeFinite, FS_AddElement
    <3>3. running = running'
      BY <1>6 DEF AddTask
    <3> QED
      BY <1>n, <2>1, <2>3, <3>2, <3>3, AwakeFinite DEF NoIdleThreadWhileTasksQueue
  <2> QED
    BY <1>6, <2>2, <2>3 DEF AddTask
<1>7. ASSUME NEW w \in Workers, WorkerStep(w)
      PROVE  NoIdleThreadWhileTasksQueue'
  <2>1. CASE LoopTest(w)
    <3>1. CASE running
      <4>1. Asleep' = Asleep /\ Awake' = Awake
        BY <1>t, <2>1, <3>1 DEF LoopTest, Asleep, Awake, TypeOK
      <4> QED
        BY <2>1, <4>1 DEF LoopTest, NoIdleThreadWhileTasksQueue
    <3>2. CASE ~running
      BY <2>1, <3>2 DEF LoopTest, NoIdleThreadWhileTasksQueue
    <3> QED
      BY <3>1, <3>2
  <2>2. CASE TakeTask(w)
    <3>1. Len(queue') = Len(queue) - 1
      BY <1>t, <2>2, HeadTailProperties DEF TakeTask, TypeOK
    <3>2. w \in Awake /\ Awake' = Awake \ {w} /\ Asleep' = Asleep
      BY <1>t, <2>2 DEF TakeTask, Asleep, Awake, TypeOK
    <3>3. Cardinality(Awake') = Cardinality(Awake) - 1
      BY <3>2, AwakeFinite, FS_RemoveElement
    <3> QED
      BY <1>n, <2>2, <3>1, <3>2, <3>3, AwakeFinite DEF TakeTask, NoIdleThreadWhileTasksQueue
  <2>3. CASE FetchNothing(w)
    <3>1. CASE running
      <4>1. queue' = <<>> /\ Len(queue') = 0
        BY <2>3, <3>1, EmptySeq DEF FetchNothing
      <4>2. Awake' \subseteq Workers
        BY DEF Awake
      <4>3. Cardinality(Awake') \in Nat
        BY <4>2, WorkersAssumption, FS_Subset, FS_CardinalityType
      <4> QED
        BY <4>1, <4>3 DEF NoIdleThreadWhileTasksQueue
    <3>2. CASE ~running
      BY <2>3, <3>2 DEF FetchNothing, NoIdleThreadWhileTasksQueue
    <3> QED
      BY <3>1, <3>2
  <2>4. CASE RunTask(w)
    <3>1. /\ Asleep' \subseteq Asleep
          /\ Awake \subseteq Awake'
          /\ Awake' \subseteq Workers
      BY <1>t, <2>4 DEF RunTask, Asleep, Awake, TypeOK
    <3>2. UNCHANGED <<queue, running>>
      BY <2>4 DEF RunTask
    <3> QED
      BY <1>t, <3>1, <3>2, NoIdleFrame
  <2> QED
    BY <1>7, <2>1, <2>2, <2>3, <2>4 DEF WorkerStep
<1> QED
  BY <1>1, <1>2, <1>3, <1>4, <1>5, <1>6, <1>7 DEF Next

(* One notify_one for each push keeps the pool busy: no thread sleeps      *)
(* while there is a task no other thread is coming for.                    *)
THEOREM NoIdleCorrect == Spec => []NoIdleThreadWhileTasksQueue
<1>1. Init => NoIdleThreadWhileTasksQueue
  BY DEF Init, NoIdleThreadWhileTasksQueue
<1> QED
  BY <1>1, NoIdleStep, Invariant, PTL DEF Spec

(* No wakeup is missed, on either condition variable. *)
THEOREM NoMissedWakeupCorrect == Spec => []NoMissedWakeup
BY WaitCorrect, NoIdleCorrect, PTL DEF NoMissedWakeup

(* After Stop no thread is left, and after a drained Stop no task. *)
THEOREM StoppedIsDoneCorrect == Spec => []StoppedIsDone
BY QuietCorrect, DrainedCorrect, PTL DEF StoppedIsDone

-----------------------------------------------------------------------------
LEMMA ExecutorInit == Init => Executor!Init
BY InitIInv DEF Init, Executor!Init, Phase, Executing

(* Every step of the pool is a step of the executor or leaves it alone. *)
LEMMA ExecutorStep == IInv /\ [Next]_vars => [Executor!Next]_Executor!vars
<1> SUFFICES ASSUME IInv, [Next]_vars
             PROVE  [Executor!Next]_Executor!vars
  OBVIOUS
<1> USE DEF Executor!vars
<1>t. TypeOK /\ PhaseInv /\ OneHolder
  BY DEF IInv
<1>1. CASE Start
  <2>1. Executing = {} /\ Executing' = {}
    BY <1>1, <1>t DEF Start, Executing, PhaseInv, QuietOnceStopped
  <2> QED
    BY <1>1, <2>1 DEF Start, Phase, Executor!Open, Executor!Next
<1>2. CASE BeginStop
  <2>1. Executing' = Executing
    BY <1>2, <1>t DEF BeginStop, Executing, TypeOK
  <2> QED
    BY <1>2, <2>1 DEF BeginStop, Phase, Executor!BeginClose, Executor!Next
<1>3. CASE EndStop
  <2>1. Executing = {} /\ Executing' = {}
    BY <1>3, <1>t DEF EndStop, Executing, TypeOK
  <2>2. ~running
    BY <1>3, <1>t DEF EndStop, PhaseInv
  <2> QED
    BY <1>3, <2>1, <2>2 DEF EndStop, Phase, Executor!EndClose, Executor!Next
<1>4. CASE WaitAllTasks \/ RecheckWait \/ SpuriousWakeup \/ UNCHANGED vars
  <2>1. UNCHANGED <<queue, running, done>>
    BY <1>4 DEF WaitAllTasks, RecheckWait, SpuriousWakeup, vars
  <2>2. UNCHANGED Phase
    BY <1>4 DEF WaitAllTasks, RecheckWait, SpuriousWakeup, Phase, vars
  <2>3. UNCHANGED Executing
    BY <1>4, <1>t DEF WaitAllTasks, RecheckWait, SpuriousWakeup, Asleep, Executing, TypeOK, vars
  <2> QED
    BY <2>1, <2>2, <2>3
<1>5. ASSUME NEW t \in Tasks, AddTask(t)
      PROVE  Executor!Submit(t)
  <2>1. UNCHANGED Executing
    BY <1>5, <1>t DEF AddTask, Asleep, Executing, TypeOK
  <2>2. t \notin QueueSet \cup Executing \cup done
    BY <1>5, <1>t DEF AddTask, OneHolder
  <2>3. Executor!PendingSet = QueueSet
    BY DEF Executor!PendingSet, QueueSet
  <2> QED
    BY <1>5, <2>1, <2>2, <2>3 DEF AddTask, Phase, Executor!Submit
<1>6. ASSUME NEW w \in Workers, TakeTask(w)
      PROVE  Executor!Begin
  <2>1. Executing' = Executing \cup {Head(queue)}
    BY <1>6, <1>t DEF TakeTask, Executing, TypeOK
  <2> QED
    BY <1>6, <1>t, <2>1 DEF TakeTask, Phase, PhaseInv, Executor!Begin
<1>7. ASSUME NEW w \in Workers, LoopTest(w) \/ FetchNothing(w)
      PROVE  UNCHANGED Executor!vars
  <2>1. UNCHANGED Executing
    BY <1>7, <1>t DEF LoopTest, FetchNothing, Executing, TypeOK
  <2> QED
    BY <1>7, <2>1 DEF LoopTest, FetchNothing, Phase
<1>8. ASSUME NEW w \in Workers, RunTask(w)
      PROVE  \E t \in Tasks : Executor!Finish(t)
  <2>1. task[w] \in Tasks /\ task[w] \in Executing
    BY <1>8, <1>t DEF RunTask, Executing, TypeOK
  <2>2. Executing' = Executing \ {task[w]}
    BY <1>8, <1>t DEF RunTask, Executing, OneHolder, TypeOK
  <2> QED
    BY <1>8, <2>1, <2>2 DEF RunTask, Phase, Executor!Finish
<1> QED
  BY <1>1, <1>2, <1>3, <1>4, <1>5, <1>6, <1>7, <1>8 DEF Next, WorkerStep, Executor!Next

(* The pool with its threads, mutex and condition variables does what the  *)
(* TaskExecutor promises: tasks start in the order of AddTask, only        *)
(* between Start and Stop, and Stop returns when the started ones ended.   *)
THEOREM Refinement == Spec => ImplementsExecutor
BY ExecutorInit, ExecutorStep, Invariant, PTL DEF Spec, ImplementsExecutor, Executor!Spec
=============================================================================
