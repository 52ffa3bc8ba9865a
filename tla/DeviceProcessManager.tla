------------------------ MODULE DeviceProcessManager ------------------------
(***************************************************************************)
(* DeviceProcessManager (prof_injection/device_process_manager): decides,  *)
(* for every kernel a profiled process is about to launch, whether it is   *)
(* profiled and into which directory its data goes, and tells a process    *)
(* that asks whether it may be killed (--kill=on).                         *)
(*                                                                         *)
(* Two numberings meet here.  What to skip and how many to profile is      *)
(* counted per client and device; the directory                            *)
(* device<d>/<kernel>/<number>/dump is numbered per device and kernel      *)
(* name, over all clients, in a uint16_t.  All calls come from the         *)
(* listener thread of InjectionEvent, in the order in which it handles the *)
(* packets of the clients.                                                 *)
(***************************************************************************)
EXTENDS Naturals, Sequences, FiniteSets, Functions

CONSTANTS
    Clients,        \* connected processes
    Devices,
    Names,          \* kernel names
    KernelNameSet,  \* the names --kernel-name matches; {} when it is not set
    ProfSkipTimes,  \* --launch-skip-before-match
    ProfMaxTimes,   \* --launch-count
    CounterMod,     \* 2^16 in the code, the range of the running number
    MaxLaunches,    \* bound on the launches of a client in a round
    MaxRounds       \* bound on the replay rounds

ASSUME ConfigAssumption ==
    /\ IsFiniteSet(Clients)
    /\ KernelNameSet \subseteq Names
    /\ ProfSkipTimes \in Nat
    /\ ProfMaxTimes \in Nat
    /\ CounterMod \in Nat \ {0}
    /\ MaxLaunches \in Nat
    /\ MaxRounds \in Nat

(* The running numbers of a device are enough for all its clients: with    *)
(* --launch-count at most 5000, at most 13 processes use a device.         *)
ASSUME NumbersAssumption == Cardinality(Clients) * ProfMaxTimes <= CounterMod

VARIABLES
    skiped,     \* skipedKernels_
    profed,     \* profedKernels_
    running,    \* kernelToRunningTimes of every DeviceProcess in processMap_
    launches,   \* history: the kernels each client announced on each device
    grants,     \* history: the directories each client got for each device
    told,       \* history: the <<client, device>> told to terminate
    round       \* how often SetProfConfig was called

vars == <<skiped, profed, running, launches, grants, told, round>>

Path == [name : Names, num : 0..(CounterMod - 1)]

(* Fresh maps: an entry that a map of the code lacks counts as 0. *)
PerClient(zero) == [c \in Clients |-> [d \in Devices |-> zero]]
Unnumbered == [d \in Devices |-> [n \in Names |-> 0]]

Init ==
    /\ skiped = PerClient(0)
    /\ profed = PerClient(0)
    /\ running = Unnumbered
    /\ launches = PerClient(<<>>)
    /\ grants = PerClient(<<>>)
    /\ told = {}
    /\ round = 0

CheckKernel(n) == KernelNameSet = {} \/ n \in KernelNameSet

MustSkip(c, d) == skiped[c][d] < ProfSkipTimes

QuotaLeft(c, d) == profed[c][d] < ProfMaxTimes

Announce(c, d, n) ==
    /\ round > 0
    /\ FoldFunction(LAMBDA s, sum : Len(s) + sum, 0, launches[c]) < MaxLaunches
    /\ launches' = [launches EXCEPT ![c][d] = Append(@, n)]

-----------------------------------------------------------------------------
(* Variants with a bug, part of no specification. *)

(* the directory is numbered by the client's own counter *)
GrantPathOwnNumber(c, d, n) ==
    /\ Announce(c, d, n)
    /\ ~MustSkip(c, d) /\ QuotaLeft(c, d) /\ CheckKernel(n)
    /\ grants' = [grants EXCEPT ![c][d] =
                    Append(@, [name |-> n, num |-> profed[c][d] % CounterMod])]
    /\ running' = [running EXCEPT ![d][n] = (@ + 1) % CounterMod]
    /\ profed' = [profed EXCEPT ![c][d] = @ + 1]
    /\ UNCHANGED <<skiped, told, round>>

(* only kernels the user selected count as skipped *)
SkipKernelSelected(c, d, n) ==
    /\ Announce(c, d, n)
    /\ MustSkip(c, d)
    /\ skiped' = IF CheckKernel(n) THEN [skiped EXCEPT ![c][d] = @ + 1] ELSE skiped
    /\ UNCHANGED <<profed, running, grants, told, round>>

(* the process is killed as soon as one kernel is done *)
ProcessCtrlEager(c, d, done) ==
    /\ round > 0
    /\ told' = IF done THEN told \cup {<<c, d>>} ELSE told
    /\ UNCHANGED <<skiped, profed, running, launches, grants, round>>

-----------------------------------------------------------------------------
(* ProcessKernelEvent, by what it answers. *)

(* "\n": the first kernels are skipped, selected or not. *)
SkipKernel(c, d, n) ==
    /\ Announce(c, d, n)
    /\ MustSkip(c, d)
    /\ skiped' = [skiped EXCEPT ![c][d] = @ + 1]
    /\ UNCHANGED <<profed, running, grants, told, round>>

(* "\n": enough kernels were profiled, or this one is not selected. *)
RefuseKernel(c, d, n) ==
    /\ Announce(c, d, n)
    /\ ~MustSkip(c, d)
    /\ ~QuotaLeft(c, d) \/ ~CheckKernel(n)
    /\ UNCHANGED <<skiped, profed, running, grants, told, round>>

(* A directory, from the DeviceProcess of the device (GetOutputPath). *)
GrantPath(c, d, n) ==
    /\ Announce(c, d, n)
    /\ ~MustSkip(c, d)
    /\ QuotaLeft(c, d)
    /\ CheckKernel(n)
    /\ grants' = [grants EXCEPT ![c][d] =
                    Append(@, [name |-> n, num |-> running[d][n]])]
    /\ running' = [running EXCEPT ![d][n] = (@ + 1) % CounterMod]
    /\ profed' = [profed EXCEPT ![c][d] = @ + 1]
    /\ UNCHANGED <<skiped, told, round>>

(* The answer to a process that reports done kernels: terminate it or not. *)
ProcessCtrl(c, d, done) ==
    /\ round > 0
    /\ told' = IF done /\ ~QuotaLeft(c, d) THEN told \cup {<<c, d>>} ELSE told
    /\ UNCHANGED <<skiped, profed, running, launches, grants, round>>

(* A replay round starts: StartDisposeClientAsk passes the configuration. *)
SetProfConfig ==
    /\ round < MaxRounds
    /\ round' = round + 1
    /\ skiped' = PerClient(0)
    /\ profed' = PerClient(0)
    /\ running' = Unnumbered
    /\ launches' = PerClient(<<>>)
    /\ grants' = PerClient(<<>>)
    /\ told' = {}

Next ==
    \/ SetProfConfig
    \/ \E c \in Clients, d \in Devices :
         \/ \E n \in Names :
              SkipKernel(c, d, n) \/ RefuseKernel(c, d, n) \/ GrantPath(c, d, n)
         \/ \E done \in BOOLEAN : ProcessCtrl(c, d, done)

Spec == Init /\ [][Next]_vars

-----------------------------------------------------------------------------
TypeOK ==
    /\ skiped \in [Clients -> [Devices -> 0..ProfSkipTimes]]
    /\ profed \in [Clients -> [Devices -> 0..ProfMaxTimes]]
    /\ running \in [Devices -> [Names -> 0..(CounterMod - 1)]]
    /\ launches \in [Clients -> [Devices -> Seq(Names)]]
    /\ grants \in [Clients -> [Devices -> Seq(Path)]]
    /\ told \subseteq Clients \X Devices
    /\ round \in 0..MaxRounds

(* No directory is handed out twice in a round: neither to two clients of  *)
(* a device nor to a kernel that is launched again, so that no kernel's    *)
(* data overwrites another's (ProcessKernelEvent, GetOutputPath).          *)
PathsUnique ==
    \A d \in Devices, c1, c2 \in Clients :
        \A i \in DOMAIN grants[c1][d], j \in DOMAIN grants[c2][d] :
            grants[c1][d][i] = grants[c2][d][j] => c1 = c2 /\ i = j

(* Of the kernels a client announces on a device, those profiled are the   *)
(* first ProfMaxTimes selected ones among those after the first            *)
(* ProfSkipTimes, in the order of their launches, whatever other clients   *)
(* and devices do in between.                                              *)
Selected(announced) ==
    {i \in DOMAIN announced : i > ProfSkipTimes /\ CheckKernel(announced[i])}

Place(announced, i) == Cardinality({j \in Selected(announced) : j <= i})

SelectionExact ==
    \A c \in Clients, d \in Devices :
        LET announced == launches[c][d]
            number == Cardinality(Selected(announced))
        IN /\ Len(grants[c][d]) = IF number < ProfMaxTimes THEN number ELSE ProfMaxTimes
           /\ \A i \in Selected(announced) :
                LET place == Place(announced, i)
                IN place <= ProfMaxTimes => grants[c][d][place].name = announced[i]

(* A process that was told to terminate gets no directory any more in the  *)
(* round: its data is complete when it is killed (ProcessCtrl).            *)
CompleteWhenTold ==
    [][\A c \in Clients, d \in Devices :
          <<c, d>> \in told /\ round' = round => grants'[c][d] = grants[c][d]]_vars
=============================================================================
