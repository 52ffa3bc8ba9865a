------------------------- MODULE ProfilingRunProofs -------------------------
(***************************************************************************)
(* Proved for every set of command lines and every number of Ctrl+C:    *)
(* the invariants of ProfilingRun.  Where the main thread is decides most  *)
(* of what the other variables may be (Places); that only a program which  *)
(* is alive is signalled, and never without exit mode, is SignalsInv.      *)
(***************************************************************************)
EXTENDS ProfilingRun, TLAPS

(* The main thread is between the start of a program and its end. *)
InRun == {"spawn", "wait", "stopTimer", "interrupt", "judge", "joinTimer", "close", "unmark"}

(* It has timer and program behind it, or not yet before it. *)
OutOfTimer == {"preprocess", "check", "serve", "mark", "spawn",
               "close", "unmark", "return", "parse", "done", "killed"}

Places ==
    /\ main \in InRun => execStatus = "RUNNING"
    /\ ~Device /\ main = "serve" => execStatus = "RUNNING"
    /\ main = "check" => Device
    /\ ~Device => round = 0
    /\ round > 0 /\ main \in (InRun \ {"unmark"}) \cup {"mark"} => server = "up"
    /\ main \in OutOfTimer => timer = "off"

LateInv ==
    /\ lateStarts \in {0, 1}
    /\ lateStarts = 1 => exitMode /\ main \notin {"preprocess", "serve", "mark", "spawn"}

SignalsInv ==
    /\ status = "signalled" => exitMode \/ main = "killed"
    /\ timer \in {"sigint", "grace"} => exitMode

IInv ==
    /\ TypeOK
    /\ RunningWhileAlive
    /\ ReplayHasServer
    /\ TimerEndsWithRun
    /\ InterruptedIsNoFailure
    /\ Places
    /\ LateInv
    /\ SignalsInv

(* What the options of a run may be. *)
LEMMA ConfigFacts ==
    ASSUME NEW c \in Configs
    PROVE  /\ c.mode \in {"device", "deviceToSimulator", "simulator"}
           /\ c.replayCount \in Nat \ {0}
           /\ c.timeout => c.mode = "simulator"
           /\ c.l2Round => c.mode # "simulator"
BY ConfigsAssumption DEF Config

LEMMA InitIInv == Init => IInv
<1> SUFFICES ASSUME Init PROVE IInv
    OBVIOUS
<1> USE ConfigFacts, ConfigsAssumption DEF Init
<1>1. TypeOK
  <2>1. {exitMode, firstSignal, isStop, expired} \subseteq BOOLEAN
      OBVIOUS
  <2>2. round \in 0..config.replayCount /\ presses \in 0..MaxPresses
        /\ lateStarts \in 0..(config.replayCount + 1)
      OBVIOUS
  <2>3. main = "wait" <=> program \in {"alive", "zombie"} /\ main # "killed"
      OBVIOUS
  <2> QED
      BY <2>1, <2>2, <2>3 DEF TypeOK, MainPc, TimerPc
<1>2. RunningWhileAlive /\ ReplayHasServer /\ TimerEndsWithRun /\ InterruptedIsNoFailure
    BY DEF RunningWhileAlive, ReplayHasServer, TimerEndsWithRun, InterruptedIsNoFailure
<1>3. Places
    BY DEF Places, InRun, OutOfTimer
<1>4. LateInv /\ SignalsInv
    BY DEF LateInv, SignalsInv
<1> QED
    BY <1>1, <1>2, <1>3, <1>4 DEF IInv

(* Every step keeps the invariant, one step of the proof per action. *)
LEMMA NextIInv == IInv /\ [Next]_vars => IInv'
<1> SUFFICES ASSUME IInv, [Next]_vars PROVE IInv'
    OBVIOUS
<1>0. /\ config.mode \in {"device", "deviceToSimulator", "simulator"}
      /\ config.replayCount \in Nat \ {0}
      /\ config.timeout => config.mode = "simulator"
      /\ config.l2Round => config.mode # "simulator"
      /\ MaxPresses \in Nat
    BY ConfigFacts, ConfigsAssumption DEF IInv, TypeOK
<1> USE <1>0
    DEF IInv, TypeOK, RunningWhileAlive, ReplayHasServer, TimerEndsWithRun,
        InterruptedIsNoFailure, Places, LateInv, SignalsInv, MainPc, TimerPc, InRun,
        OutOfTimer, Device, Goto, NextRound, Interrupted, TimerOnly, signals, child, timing, history
<1>1. CASE PreProcess
    BY <1>1 DEF PreProcess
<1>2. CASE CheckExitMode
    BY <1>2 DEF CheckExitMode
<1>3. CASE OpenServer
    BY <1>3 DEF OpenServer
<1>4. CASE OpenServerFails
    BY <1>4 DEF OpenServerFails
<1>5. CASE MarkRunning
    BY <1>5 DEF MarkRunning
<1>6. CASE Spawn
    BY <1>6 DEF Spawn
<1>7. CASE SpawnFails
    BY <1>7 DEF SpawnFails
<1>8. CASE Reap
    BY <1>8 DEF Reap
<1>9. CASE StopTimer
    BY <1>9 DEF StopTimer
<1>10. CASE InterruptTimer
    BY <1>10 DEF InterruptTimer
<1>11. CASE JudgeStatus
    BY <1>11 DEF JudgeStatus
<1>12. CASE JoinTimer
    BY <1>12 DEF JoinTimer
<1>13. CASE CloseServer
    BY <1>13 DEF CloseServer
<1>14. CASE MarkStopped
    BY <1>14 DEF MarkStopped
<1>15. CASE ReturnTask
    BY <1>15 DEF ReturnTask
<1>16. CASE RunDataParse
    BY <1>16 DEF RunDataParse
<1>17. CASE TestStop
    BY <1>17 DEF TestStop
<1>18. CASE ReadClock
    BY <1>18 DEF ReadClock
<1>19. CASE Sleep
    BY <1>19 DEF Sleep
<1>20. CASE Wake
    BY <1>20 DEF Wake
<1>21. CASE FireTimeout
    BY <1>21 DEF FireTimeout
<1>22. CASE SendInterrupt
    BY <1>22 DEF SendInterrupt
<1>23. CASE SendKill
    BY <1>23 DEF SendKill
<1>24. CASE TimePasses
    BY <1>24 DEF TimePasses
<1>25. CASE SpuriousWakeup
    BY <1>25 DEF SpuriousWakeup
<1>26. CASE PressCtrlC
  <2>1. /\ UNCHANGED <<config, round, server, execStatus, taskRes, isStop, expired, lateStarts>>
        /\ presses' \in 0..MaxPresses
        /\ main \notin {"done", "killed"}
      BY <1>26 DEF PressCtrlC
  <2>2. Interrupted
      BY <1>26 DEF PressCtrlC
  <2>3. CASE Goto("killed") /\ timer' = "off" /\ UNCHANGED signals
      BY <2>1, <2>2, <2>3
  <2>4. CASE /\ exitMode' = TRUE /\ firstSignal' = FALSE
             /\ UNCHANGED <<main, timer, disposition>>
    <3>1. TypeOK'
      <4>1. {exitMode, firstSignal, isStop, expired}' \subseteq BOOLEAN
          BY <2>1, <2>4
      <4>2. program' \in {"none", "alive", "zombie", "reaped"} /\ status' \in {"ok", "bad", "signalled"}
          BY <2>2
      <4>3. program' \in {"alive", "zombie"} <=> program \in {"alive", "zombie"}
          BY <2>2
      <4> QED
          BY <2>1, <2>4, <4>1, <4>2, <4>3
    <3>2. (RunningWhileAlive /\ ReplayHasServer /\ TimerEndsWithRun /\ InterruptedIsNoFailure)'
        BY <2>1, <2>2, <2>4
    <3>3. (Places /\ LateInv /\ SignalsInv)'
        BY <2>1, <2>2, <2>4
    <3> QED
        BY <3>1, <3>2, <3>3
  <2>5. CASE /\ execStatus # "RUNNING" /\ disposition' = "default"
             /\ UNCHANGED <<main, timer, exitMode, firstSignal>>
    <3>1. UNCHANGED child
        BY <2>1, <2>2, <2>5
    <3> QED
        BY <2>1, <2>5, <3>1
  <2> QED
      BY <1>26, <2>3, <2>4, <2>5 DEF PressCtrlC
<1>27. CASE ProgramEnds
    BY <1>27 DEF ProgramEnds
<1>28. CASE UNCHANGED vars
    BY <1>28 DEF vars
<1> HIDE DEF IInv, TypeOK, RunningWhileAlive, ReplayHasServer, TimerEndsWithRun,
             InterruptedIsNoFailure, Places, LateInv, SignalsInv, MainPc, TimerPc, InRun,
             OutOfTimer, Device, Goto, NextRound, Interrupted, TimerOnly, signals, child, timing, history
<1>29. CASE Main
    BY <1>29, <1>1, <1>2, <1>3, <1>4, <1>5, <1>6, <1>7, <1>8, <1>9, <1>10, <1>11, <1>12, <1>13,
       <1>14, <1>15, <1>16 DEF Main
<1>30. CASE TimerThread
    BY <1>30, <1>17, <1>18, <1>19, <1>20, <1>21, <1>22, <1>23 DEF TimerThread
<1> QED
    BY <1>24, <1>25, <1>26, <1>27, <1>28, <1>29, <1>30 DEF Next

(* The invariant holds in every reachable state. *)
THEOREM Invariant == Spec => []IInv
<1>1. Init => IInv
    BY InitIInv
<1>2. IInv /\ [Next]_vars => IInv'
    BY NextIInv
<1> QED
    BY <1>1, <1>2, PTL DEF Spec

(* The variables are well typed, and the main thread waits exactly while    *)
(* there is a program to wait for.                                         *)
THEOREM TypeCorrect == Spec => []TypeOK
<1>1. IInv => TypeOK
    BY DEF IInv
<1> QED
    BY <1>1, Invariant, PTL

(* While a program is alive Ctrl+C finds execStatus RUNNING. *)
THEOREM RunningWhileAliveCorrect == Spec => []RunningWhileAlive
<1>1. IInv => RunningWhileAlive
    BY DEF IInv
<1> QED
    BY <1>1, Invariant, PTL

(* A program of a replay round always has its server. *)
THEOREM ReplayHasServerCorrect == Spec => []ReplayHasServer
<1>1. IInv => ReplayHasServer
    BY DEF IInv
<1> QED
    BY <1>1, Invariant, PTL

(* Whenever Ctrl+C or the timeout comes, one more program is started at    *)
(* most, however many replays are left.                                    *)
THEOREM OneStartCorrect == Spec => []OneStartAfterExit
<1>1. IInv => OneStartAfterExit
    BY DEF IInv, LateInv, OneStartAfterExit
<1> QED
    BY <1>1, Invariant, PTL

(* The callback of the timer never outlives the runner it uses. *)
THEOREM TimerEndsCorrect == Spec => []TimerEndsWithRun
<1>1. IInv => TimerEndsWithRun
    BY DEF IInv
<1> QED
    BY <1>1, Invariant, PTL

(* A program that the user or the timeout ended is never reported failed. *)
THEOREM InterruptedCorrect == Spec => []InterruptedIsNoFailure
<1>1. IInv => InterruptedIsNoFailure
    BY DEF IInv
<1> QED
    BY <1>1, Invariant, PTL
=============================================================================
