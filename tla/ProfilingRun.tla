---------------------------- MODULE ProfilingRun ----------------------------
(***************************************************************************)
(* One run of msopprof, from the installation of the SIGINT handler to the *)
(* data it generates:                                                      *)
(*                                                                         *)
(*   main thread    ProfilingRun, OpProf::Run, DeviceTask::Run or          *)
(*                  SimulatorTask::Run, ExecBinaryRunner::Run              *)
(*   timer thread   Timer::Wait and KillBinaryProcess (--timeout)          *)
(*   SIGINT         SignalHandler; Ctrl+C goes to the program as well      *)
(*   program        the profiled process (external): it ends when it       *)
(*                  likes, and may survive SIGINT if it is Stubborn        *)
(*                                                                         *)
(* The server that collects the data (InjectionEvent.tla) is seen only as  *)
(* up or down here, the parsing of the data as one step.  SIGINT restarts  *)
(* the waitpid it interrupts: the handler is installed with signal().      *)
(***************************************************************************)
EXTENDS Naturals

CONSTANTS
    Configs,        \* the command lines, as far as a run depends on them
    MaxPresses      \* bound on the user's Ctrl+C

(* replayCount: replayCount_ of a device task; l2Round: a round for the L2 *)
(* cache comes first; timeout: --timeout was given; killAdvance: --kill=on;*)
(* stubborn: the program may survive SIGINT.                               *)
Config ==
    [mode : {"device", "deviceToSimulator", "simulator"}, replayCount : Nat \ {0},
     l2Round : BOOLEAN, timeout : BOOLEAN, killAdvance : BOOLEAN, stubborn : BOOLEAN]

ASSUME ConfigsAssumption ==
    /\ Configs \subseteq Config
    /\ \A c \in Configs : /\ c.timeout => c.mode = "simulator"
                          /\ c.l2Round => c.mode # "simulator"
    /\ MaxPresses \in Nat

VARIABLES
    config,         \* the options of this run
    main,           \* where the main thread is
    round,          \* i + 1 of the replay loop; 0: before it, or the simulator
    server,         \* "up", "down"
    execStatus,     \* Task::execStatus
    exitMode,       \* Task::inExitMode, DataParse::inExitMode
    firstSignal,    \* g_isFirstReceiveSignal
    disposition,    \* of SIGINT: "handler", "default"
    program,        \* "none", "alive", "zombie" (not waited for), "reaped"
    status,         \* how it ended: "ok", "bad", "signalled" by user or timer
    taskRes,        \* the local variable of Run: "unset", "good", "bad"
    timer,          \* where the timer thread is
    isStop,         \* Timer::isStop_
    expired,        \* the time of the timer is over
    presses,        \* history: how often Ctrl+C was pressed
    lateStarts      \* history: programs started in exit mode

signals == <<exitMode, firstSignal, disposition>>
child == <<program, status>>
timing == <<timer, isStop, expired>>
history == <<presses, lateStarts>>
vars == <<config, main, round, server, execStatus, signals, child, taskRes, timing, history>>

Device == config.mode # "simulator"

MainPc == {"preprocess", "check", "serve", "mark", "spawn", "wait", "stopTimer",
           "interrupt", "judge", "joinTimer", "close", "unmark", "return",
           "parse", "done", "killed"}

(* "test": about to read isStop_; "clock": about to read the clock; then   *)
(* "toSleep" and "asleep", or KillBinaryProcess: "fire", "sigint", "grace" *)
TimerPc == {"off", "test", "clock", "toSleep", "asleep", "fire", "sigint", "grace", "ended"}

Init ==
    /\ config \in Configs
    /\ main = "preprocess"
    /\ round = 0
    /\ server = "down"
    /\ execStatus = "NOT_RUNNING"
    /\ exitMode = FALSE
    /\ firstSignal = TRUE
    /\ disposition = "handler"
    /\ program = "none"
    /\ status = "ok"
    /\ taskRes = "unset"
    /\ timer = "off"
    /\ isStop = FALSE
    /\ expired = FALSE
    /\ presses = 0
    /\ lateStarts = 0

Goto(l) == main' = l

-----------------------------------------------------------------------------
(* Variants with a bug, part of no specification. *)

(* the loop does not look at inExitMode *)
CheckExitModeNot ==
    /\ main = "check"
    /\ Goto("serve")
    /\ UNCHANGED <<config, round, server, execStatus, signals, child, taskRes, timing, history>>

(* the program is signalled, but no exit mode is set *)
FireTimeoutQuietly ==
    /\ timer = "fire"
    /\ timer' = "sigint"
    /\ UNCHANGED <<config, main, round, server, execStatus, signals, child, taskRes,
                   isStop, expired, history>>

(* no SIGKILL after SIGINT *)
SendKillNot ==
    /\ timer = "grace"
    /\ timer' = "ended"
    /\ UNCHANGED <<config, main, round, server, execStatus, signals, child, taskRes,
                   isStop, expired, history>>

-----------------------------------------------------------------------------
(* The main thread: before the rounds *)

(* What follows PreProcess, or a round: the next one, or Run returns. *)
NextRound ==
    IF Device /\ round < config.replayCount
    THEN Goto("check") /\ round' = round + 1
    ELSE Goto("return") /\ UNCHANGED round

PreProcess ==
    /\ main = "preprocess"
    /\ \/ /\ taskRes' = "bad"
          /\ Goto("return")
          /\ UNCHANGED round
       \/ /\ IF config.l2Round THEN Goto("serve") /\ UNCHANGED round
             ELSE IF Device THEN NextRound
             ELSE Goto("mark") /\ UNCHANGED round
          /\ UNCHANGED taskRes
    /\ UNCHANGED <<config, server, execStatus, signals, child, timing, history>>

CheckExitMode ==
    /\ main = "check"
    /\ Goto(IF exitMode THEN "return" ELSE "serve")
    /\ UNCHANGED <<config, round, server, execStatus, signals, child, taskRes, timing, history>>

-----------------------------------------------------------------------------
(* A round.  A simulator task sets the status before it starts the server, *)
(* a device task the other way round.                                      *)

OpenServer ==
    /\ main = "serve"
    /\ server' = "up"
    /\ Goto(IF Device THEN "mark" ELSE "spawn")
    /\ UNCHANGED <<config, round, execStatus, signals, child, taskRes, timing, history>>

(* continue in a replay round; the round for the L2 cache and the          *)
(* simulator do not look at the result.                                    *)
OpenServerFails ==
    /\ main = "serve"
    /\ IF round > 0 THEN NextRound
       ELSE Goto(IF Device THEN "mark" ELSE "spawn") /\ UNCHANGED round
    /\ UNCHANGED <<config, server, execStatus, signals, child, taskRes, timing, history>>

MarkRunning ==
    /\ main = "mark"
    /\ execStatus' = "RUNNING"
    /\ Goto(IF Device THEN "spawn" ELSE "serve")
    /\ UNCHANGED <<config, round, server, signals, child, taskRes, timing, history>>

(* posix_spawnp, and the timer if there is a timeout *)
Spawn ==
    /\ main = "spawn"
    /\ program' = "alive"
    /\ lateStarts' = IF exitMode THEN lateStarts + 1 ELSE lateStarts
    /\ timer' = IF config.timeout THEN "test" ELSE "off"
    /\ Goto("wait")
    /\ UNCHANGED <<config, round, server, execStatus, signals, status, taskRes, isStop, expired, presses>>

SpawnFails ==
    /\ main = "spawn"
    /\ taskRes' = "bad"
    /\ Goto("close")
    /\ UNCHANGED <<config, round, server, execStatus, signals, child, timing, history>>

Reap ==
    /\ main = "wait"
    /\ program = "zombie"
    /\ program' = "reaped"
    /\ Goto(IF config.timeout THEN "stopTimer" ELSE "judge")
    /\ UNCHANGED <<config, round, server, execStatus, signals, status, taskRes, timing, history>>

(* Timer::Stop reads isStop_ without the mutex, *)
StopTimer ==
    /\ main = "stopTimer"
    /\ Goto(IF isStop THEN "judge" ELSE "interrupt")
    /\ UNCHANGED <<config, round, server, execStatus, signals, child, taskRes, timing, history>>

(* and sets it and notifies with it. *)
InterruptTimer ==
    /\ main = "interrupt"
    /\ isStop' = TRUE
    /\ timer' = IF timer = "asleep" THEN "test" ELSE timer
    /\ Goto("judge")
    /\ UNCHANGED <<config, round, server, execStatus, signals, child, taskRes, expired, history>>

(* The result of ExecBinaryRunner::Run: an end by the user is no failure. *)
JudgeStatus ==
    /\ main = "judge"
    /\ taskRes' = IF status = "ok" \/ exitMode \/ config.killAdvance THEN "good" ELSE "bad"
    /\ Goto("joinTimer")
    /\ UNCHANGED <<config, round, server, execStatus, signals, child, timing, history>>

(* The destructor of the timer *)
JoinTimer ==
    /\ main = "joinTimer"
    /\ timer \in {"off", "ended"}
    /\ timer' = "off"
    /\ Goto("close")
    /\ UNCHANGED <<config, round, server, execStatus, signals, child, taskRes, isStop, expired, history>>

CloseServer ==
    /\ main = "close"
    /\ server' = "down"
    /\ Goto("unmark")
    /\ UNCHANGED <<config, round, execStatus, signals, child, taskRes, timing, history>>

MarkStopped ==
    /\ main = "unmark"
    /\ execStatus' = "STOPPED"
    /\ program' = "none"
    /\ NextRound
    /\ UNCHANGED <<config, server, signals, status, taskRes, timing, history>>

-----------------------------------------------------------------------------
(* After the rounds *)

(* Run returns taskRes, any value if it was never set.  The data are       *)
(* parsed also if the task failed, except when the data of the device are  *)
(* to be combined with those of the simulator.                             *)
ReturnTask ==
    /\ main = "return"
    /\ \E result \in IF taskRes = "unset" THEN {"good", "bad"} ELSE {taskRes} :
         Goto(IF result = "bad" /\ config.mode = "deviceToSimulator" THEN "done" ELSE "parse")
    /\ UNCHANGED <<config, round, server, execStatus, signals, child, taskRes, timing, history>>

RunDataParse ==
    /\ main = "parse"
    /\ Goto("done")
    /\ UNCHANGED <<config, round, server, execStatus, signals, child, taskRes, timing, history>>

Main ==
    \/ PreProcess \/ CheckExitMode
    \/ OpenServer \/ OpenServerFails \/ MarkRunning \/ Spawn \/ SpawnFails
    \/ Reap \/ StopTimer \/ InterruptTimer \/ JudgeStatus \/ JoinTimer
    \/ CloseServer \/ MarkStopped
    \/ ReturnTask \/ RunDataParse

-----------------------------------------------------------------------------
(* A signal to the program: it dies unless it is stubborn.  Nobody is hit  *)
(* when the program is a zombie.                                           *)
Interrupted ==
    \/ /\ program = "alive"
       /\ program' = "zombie"
       /\ status' = "signalled"
    \/ /\ program # "alive" \/ config.stubborn
       /\ UNCHANGED child

(* Ctrl+C: the terminal sends SIGINT to msopprof and to the program. *)
PressCtrlC ==
    /\ main \notin {"done", "killed"}
    /\ presses < MaxPresses
    /\ presses' = presses + 1
    /\ Interrupted
    /\ \/ /\ disposition = "default"
          /\ Goto("killed")
          /\ timer' = "off"
          /\ UNCHANGED signals
       \/ /\ disposition = "handler"
          /\ IF firstSignal \/ execStatus = "RUNNING"
             THEN /\ firstSignal' = FALSE
                  /\ exitMode' = TRUE
                  /\ UNCHANGED disposition
             ELSE /\ disposition' = "default"
                  /\ UNCHANGED <<firstSignal, exitMode>>
          /\ UNCHANGED <<main, timer>>
    /\ UNCHANGED <<config, round, server, execStatus, taskRes, isStop, expired, lateStarts>>

(* External: the program ends by itself. *)
ProgramEnds ==
    /\ program = "alive"
    /\ program' = "zombie"
    /\ status' \in {"ok", "bad"}
    /\ UNCHANGED <<config, main, round, server, execStatus, signals, taskRes, timing, history>>

-----------------------------------------------------------------------------
(* The timer thread *)

TimerOnly == UNCHANGED <<config, main, round, server, execStatus, child, taskRes, history>>

TimePasses ==
    /\ timer # "off"
    /\ expired' = TRUE
    /\ TimerOnly /\ UNCHANGED <<timer, isStop, signals>>

TestStop ==
    /\ timer = "test"
    /\ timer' = IF isStop THEN "ended" ELSE "clock"
    /\ TimerOnly /\ UNCHANGED <<isStop, expired, signals>>

ReadClock ==
    /\ timer = "clock"
    /\ timer' = IF expired THEN "fire" ELSE "toSleep"
    /\ isStop' = (isStop \/ expired)
    /\ TimerOnly /\ UNCHANGED <<expired, signals>>

Sleep ==
    /\ timer = "toSleep"
    /\ timer' = "asleep"
    /\ TimerOnly /\ UNCHANGED <<isStop, expired, signals>>

Wake ==
    /\ timer = "asleep"
    /\ expired
    /\ timer' = "test"
    /\ TimerOnly /\ UNCHANGED <<isStop, expired, signals>>

SpuriousWakeup ==
    /\ timer = "asleep"
    /\ timer' = "test"
    /\ TimerOnly /\ UNCHANGED <<isStop, expired, signals>>

FireTimeout ==
    /\ timer = "fire"
    /\ exitMode' = TRUE
    /\ timer' = "sigint"
    /\ TimerOnly /\ UNCHANGED <<isStop, expired, firstSignal, disposition>>

SendInterrupt ==
    /\ timer = "sigint"
    /\ Interrupted
    /\ timer' = "grace"
    /\ UNCHANGED <<config, main, round, server, execStatus, signals, taskRes, isStop, expired, history>>

(* Three seconds later SIGKILL is sent, whatever became of the program. *)
SendKill ==
    /\ timer = "grace"
    /\ program' = IF program = "alive" THEN "zombie" ELSE program
    /\ status' = IF program = "alive" THEN "signalled" ELSE status
    /\ timer' = "ended"
    /\ UNCHANGED <<config, main, round, server, execStatus, signals, taskRes, isStop, expired, history>>

TimerThread ==
    TestStop \/ ReadClock \/ Sleep \/ Wake \/ FireTimeout \/ SendInterrupt \/ SendKill

Next ==
    \/ Main
    \/ TimerThread \/ TimePasses \/ SpuriousWakeup
    \/ PressCtrlC
    \/ ProgramEnds

Spec == Init /\ [][Next]_vars

(* Both threads are scheduled and time passes; the program need not end. *)
FairSpec ==
    /\ Spec
    /\ WF_vars(Main)
    /\ WF_vars(TimerThread)
    /\ WF_vars(TimePasses)

-----------------------------------------------------------------------------
TypeOK ==
    /\ config \in Configs
    /\ main \in MainPc
    /\ round \in 0..config.replayCount
    /\ server \in {"up", "down"}
    /\ execStatus \in {"NOT_RUNNING", "RUNNING", "STOPPED"}
    /\ {exitMode, firstSignal, isStop, expired} \subseteq BOOLEAN
    /\ disposition \in {"handler", "default"}
    /\ program \in {"none", "alive", "zombie", "reaped"}
    /\ status \in {"ok", "bad", "signalled"}
    /\ taskRes \in {"unset", "good", "bad"}
    /\ timer \in TimerPc
    /\ presses \in 0..MaxPresses
    /\ lateStarts \in 0..(config.replayCount + 1)
    /\ main = "wait" <=> program \in {"alive", "zombie"} /\ main # "killed"

(* A Ctrl+C that finds the program alive always asks for exit mode and     *)
(* never withdraws the handler, in whichever round (SignalHandler).        *)
RunningWhileAlive == program = "alive" /\ main # "killed" => execStatus = "RUNNING"

(* A program of a replay round always has its server. *)
ReplayHasServer == program = "alive" /\ round > 0 => server = "up"

(* Whenever Ctrl+C comes, at most one more program is started. *)
OneStartAfterExit == lateStarts <= 1

(* Nothing of the timer is left when Run of the runner has returned: its   *)
(* callback uses the runner.                                               *)
TimerEndsWithRun == main \in {"close", "unmark", "return", "parse", "done"} => timer = "off"

(* A program that the user or the timeout ended is no failure.             *)
InterruptedIsNoFailure ==
    main = "joinTimer" /\ status = "signalled" => taskRes = "good"

(* --timeout ends the run, whatever the program does with SIGINT and       *)
(* however the threads meet; a wakeup of the timer that Stop loses costs   *)
(* no more than the rest of the timeout.                                   *)
TimeoutEndsRun ==
    config.timeout /\ main = "wait" ~> main \in {"done", "killed"}
=============================================================================
