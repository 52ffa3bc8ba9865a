----------------------------- MODULE DataStream -----------------------------
(***************************************************************************)
(* DataStreamImpl (parse/data_center/data_stream.h) between its two users: *)
(* the listener thread, which pushes the log items of a kernel and then    *)
(* stops the sub-parser that owns the stream (Shutdown, WaitForStop), and  *)
(* the thread of the sub-parser's plugin, which runs the loop of Entry     *)
(*                                                                         *)
(*     while (true) { item = Pop(); if (IsStop()) break; process(item); }  *)
(*                                                                         *)
(* mtx_ protects the queue.  isActive_ is an atomic that Shutdown writes   *)
(* without the mutex, so it can change while the consumer is inside a      *)
(* critical section, also between its test of the predicate of cv_.wait    *)
(* and the moment it sleeps: the action GoToSleep.                         *)
(***************************************************************************)
EXTENDS Sequences, Integers

CONSTANT MaxItems       \* bound on the items the listener pushes: 1..MaxItems

ASSUME MaxItemsAssumption == MaxItems \in Nat

VARIABLES
    active,     \* isActive_
    queue,      \* dataQueue_
    pushed,     \* history: how many items Push accepted
    handled,    \* history: the items the plugin handled
    item,       \* the item the consumer got from Pop, 0 when it has none
    consumer,   \* where the plugin's thread is
    feeder      \* where the listener is

vars == <<active, queue, pushed, handled, item, consumer, feeder>>

(* "pop": about to lock mtx_ in Pop; "blocking": holding mtx_, the wait    *)
(* predicate was false; "asleep": in cv_.wait, mtx_ released; "test": back *)
(* from Pop, about to read IsStop; "process": handles the item; "exited":  *)
(* left the loop.                                                          *)
ConsumerPc == {"pop", "blocking", "asleep", "test", "process", "exited"}

(* "feeding"; "pushing": Push has read isActive_; "shutdown": isActive_    *)
(* written, notify_all to come; "joining": in WaitForStop; "stopped".      *)
FeederPc == {"feeding", "pushing", "shutdown", "joining", "stopped"}

Init ==
    /\ active = TRUE
    /\ queue = <<>>
    /\ pushed = 0
    /\ handled = <<>>
    /\ item = 0
    /\ consumer = "pop"
    /\ feeder = "feeding"

MutexFree == consumer # "blocking"

-----------------------------------------------------------------------------
(* Variants with a bug, part of no specification. *)

(* notify_one forgotten *)
PushSilent ==
    /\ feeder = "pushing" /\ MutexFree
    /\ queue' = Append(queue, pushed + 1)
    /\ pushed' = pushed + 1
    /\ feeder' = "feeding"
    /\ UNCHANGED <<active, handled, item, consumer>>

(* front without pop *)
PopItemNoPop ==
    /\ consumer = "pop" /\ queue # <<>> /\ active
    /\ item' = Head(queue)
    /\ consumer' = "test"
    /\ UNCHANGED <<active, queue, pushed, handled, feeder>>

-----------------------------------------------------------------------------
(* The listener *)

BeginPush ==
    /\ feeder = "feeding"
    /\ pushed < MaxItems
    /\ active
    /\ feeder' = "pushing"
    /\ UNCHANGED <<active, queue, pushed, handled, item, consumer>>

(* The critical section of Push, notify_one included. *)
Push ==
    /\ feeder = "pushing"
    /\ MutexFree
    /\ queue' = Append(queue, pushed + 1)
    /\ pushed' = pushed + 1
    /\ consumer' = IF consumer = "asleep" THEN "pop" ELSE consumer
    /\ feeder' = "feeding"
    /\ UNCHANGED <<active, handled, item>>

Deactivate ==
    /\ feeder = "feeding"
    /\ active' = FALSE
    /\ feeder' = "shutdown"
    /\ UNCHANGED <<queue, pushed, handled, item, consumer>>

NotifyAll ==
    /\ feeder = "shutdown"
    /\ consumer' = IF consumer = "asleep" THEN "pop" ELSE consumer
    /\ feeder' = "joining"
    /\ UNCHANGED <<active, queue, pushed, handled, item>>

(* WaitForStop: the pool joins the thread of the plugin. *)
WaitForStop ==
    /\ feeder = "joining"
    /\ consumer = "exited"
    /\ feeder' = "stopped"
    /\ UNCHANGED <<active, queue, pushed, handled, item, consumer>>

-----------------------------------------------------------------------------
(* The plugin *)

(* Pop finds an item: the stream is active and the front is taken. *)
PopItem ==
    /\ consumer = "pop"
    /\ queue # <<>>
    /\ active
    /\ item' = Head(queue)
    /\ queue' = Tail(queue)
    /\ consumer' = "test"
    /\ UNCHANGED <<active, pushed, handled, feeder>>

(* Pop returns T(): the stream is inactive, whatever the queue holds. *)
PopNothing ==
    /\ consumer = "pop"
    /\ ~active
    /\ item' = 0
    /\ consumer' = "test"
    /\ UNCHANGED <<active, queue, pushed, handled, feeder>>

PopBlock ==
    /\ consumer = "pop"
    /\ queue = <<>>
    /\ active
    /\ consumer' = "blocking"
    /\ UNCHANGED <<active, queue, pushed, handled, item, feeder>>

GoToSleep ==
    /\ consumer = "blocking"
    /\ consumer' = "asleep"
    /\ UNCHANGED <<active, queue, pushed, handled, item, feeder>>

(* if (ptr->IsStop()) break; an item popped just before is given up. *)
TestStop ==
    /\ consumer = "test"
    /\ consumer' = IF active THEN "process" ELSE "exited"
    /\ UNCHANGED <<active, queue, pushed, handled, item, feeder>>

Process ==
    /\ consumer = "process"
    /\ handled' = Append(handled, item)
    /\ item' = 0
    /\ consumer' = "pop"
    /\ UNCHANGED <<active, queue, pushed, feeder>>

-----------------------------------------------------------------------------
Listener == BeginPush \/ Push \/ Deactivate \/ NotifyAll \/ WaitForStop
Plugin == PopItem \/ PopNothing \/ PopBlock \/ GoToSleep \/ TestStop \/ Process

Next == Listener \/ Plugin

Spec == Init /\ [][Next]_vars

(* The plugin's thread is scheduled; the listener finishes the call it is  *)
(* in.  When to push and when to stop is up to the client.                 *)
FairSpec ==
    /\ Spec
    /\ WF_vars(Plugin)
    /\ WF_vars(Push)
    /\ WF_vars(NotifyAll)
    /\ WF_vars(WaitForStop)

-----------------------------------------------------------------------------
TypeOK ==
    /\ active \in BOOLEAN
    /\ queue \in Seq(1..MaxItems)
    /\ pushed \in 0..MaxItems
    /\ handled \in Seq(1..MaxItems)
    /\ item \in 0..MaxItems
    /\ consumer \in ConsumerPc
    /\ feeder \in FeederPc
    /\ consumer \in {"pop", "blocking", "asleep"} => item = 0
    /\ consumer = "process" => item # 0

InHand == IF item = 0 THEN <<>> ELSE <<item>>

(* Items reach the plugin in the order of Push, once each, and whatever    *)
(* was pushed is handled, in its hands or in the queue.                    *)
InOrder == handled \o InHand \o queue = [i \in 1..pushed |-> i]

(* notify_one under mtx_ is enough for Push: the plugin never sleeps over  *)
(* an item.                                                                *)
NeverAsleepOverAnItem == consumer = "asleep" => queue = <<>>

(* What is pushed is handled as long as the stream is not shut down. *)
EveryItemProcessed ==
    \A n \in 1..MaxItems : pushed >= n ~> (Len(handled) >= n \/ ~active)

(* data_stream.h:41 calls Shutdown graceful: the plugin that waits in Pop  *)
(* is released and Stop returns.                                           *)
StopReturns == feeder = "shutdown" ~> feeder = "stopped"
=============================================================================
