---------------------------- MODULE TaskExecutor ----------------------------
(***************************************************************************)
(* What a user of Utility::ThreadPool (utils/cpputils/thread_pool.h) may   *)
(* rely on: a queue of tasks that is served first come first served while  *)
(* the executor is open.  Closing it only stops new tasks from being       *)
(* started: the ones being executed run to their end, the ones still       *)
(* pending stay pending.  Threads, locks and condition variables do not    *)
(* appear here; ThreadPool.tla implements this specification and           *)
(* DBIParser.tla and the other users are written against it.               *)
(***************************************************************************)
EXTENDS Sequences, FiniteSets

CONSTANT Tasks

VARIABLES
    phase,      \* "closed", "open", or "closing" until the last task ends
    pending,    \* submitted tasks no thread has taken, oldest first
    executing,  \* tasks taken by a thread and not finished
    finished    \* tasks that ran to their end

vars == <<phase, pending, executing, finished>>

PendingSet == { pending[i] : i \in DOMAIN pending }

Init ==
    /\ phase = "closed"
    /\ pending = <<>>
    /\ executing = {}
    /\ finished = {}

Open ==
    /\ phase = "closed"
    /\ phase' = "open"
    /\ UNCHANGED <<pending, executing, finished>>

BeginClose ==
    /\ phase = "open"
    /\ phase' = "closing"
    /\ UNCHANGED <<pending, executing, finished>>

EndClose ==
    /\ phase = "closing"
    /\ executing = {}
    /\ phase' = "closed"
    /\ UNCHANGED <<pending, executing, finished>>

(* A task is an object of its own: it is submitted once. *)
Submit(t) ==
    /\ t \notin PendingSet \cup executing \cup finished
    /\ pending' = Append(pending, t)
    /\ UNCHANGED <<phase, executing, finished>>

Begin ==
    /\ phase = "open"
    /\ pending # <<>>
    /\ executing' = executing \cup {Head(pending)}
    /\ pending' = Tail(pending)
    /\ UNCHANGED <<phase, finished>>

Finish(t) ==
    /\ t \in executing
    /\ executing' = executing \ {t}
    /\ finished' = finished \cup {t}
    /\ UNCHANGED <<phase, pending>>

Next ==
    \/ Open
    \/ BeginClose
    \/ EndClose
    \/ Begin
    \/ \E t \in Tasks : Submit(t) \/ Finish(t)

Spec == Init /\ [][Next]_vars
=============================================================================
