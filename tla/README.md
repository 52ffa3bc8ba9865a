# A TLA+ model of msopprof

msopprof (MindStudio Ops Profiler) runs an operator program on an Ascend device
or on a simulator, several times if need be, collects what the program and the
driver report, and turns it into tables and views. This directory holds TLA+
modules for the parts of it where threads, processes and rounds meet, the TLC
configurations that check them, and proofs of their main invariants for every
value of the constants.

Paths below are relative to `src/csrc/`; `op_profiling/` is left out where it is
clear.

## 1. The system

```
 main thread   ProfilingRun -> OpProf::Run -> DeviceTask/SimulatorTask::Run
                 |  per round: start server, posix_spawn, waitpid, stop server
                 |                                    \
                 v                                     v
 InjectionEvent (listener) <- Communication <- sockets <- profiled process(es)
   |  callbacks by packet type      ^ (sender)               (external)
   |-- CONFIG, DATA_PATH, PROCESS_CTRL -> DeviceProcessManager
   |-- DBI_DATA  -> DBIParser -> ThreadPool -> one file per kernel
   `-- COLLECT_START, logs, PROF_FINISH -> RealTimeDataParser
                                              -> DataStream -> plugin threads
 timer thread  Timer -> KillBinaryProcess         SIGINT -> SignalHandler
 afterwards    DataParse: dumps -> tables, JSON, CSV, timelines
```

| part | state it keeps | operations | what is hard about it | correct means |
|---|---|---|---|---|
| Thread pool (`utils/cpputils/thread_pool`) | `running_`, `taskQueue_`, threads | Start, AddTask, WaitAllTasks, Stop; Loop, FetchTask | one mutex, two condition variables, `notify_one` only | no task lost or run twice, no sleeping thread beside a queued task, no thread after Stop, "wait then stop" executes everything |
| DBIParser (`profiling/device/data_parse/dbi_parser`) | `memoryChartMetrics_` by client, pool, `started_` | ParsePacket, PacketHandler, WaitParseTask | a handler takes `parseMutex_` five times; handlers of one client interleave, end packets overtake | an entry is not erased under a handler, each record ends in one place, each file is written once |
| Data stream (`parse/data_center/data_stream.h`) | `isActive_`, `dataQueue_` | Push, Pop, Shutdown, IsStop | the flag of the predicate changes outside the mutex | items in order, once each; the plugin is gone when Stop has returned |
| Real-time parsers (`parse/data_parser/*`) | tables per core, plugins, streams | Start, Set*, Stop per kernel | tables survive a kernel, wait with a limit of 5 s, joinable worker threads | data of one kernel never in another's |
| DeviceProcessManager (`prof_injection/device_process_manager`) | skip and quota counters per client and device, running numbers per device and name | SetProfConfig, ProcessKernelEvent, ProcessCtrl | two numberings over different keys, 16-bit number, several processes on one device | exactly the requested kernels, no directory twice, nothing granted after "terminate" |
| Injection channel (`prof_injection/injection_event`, `packet`, `communication/`) | `packetMap_`, `msgProcessFunc_`, two queues, two threads | Start, Stop, Register, Distribute, ProcessMsg, MsgSend | chunks of any size from several clients, crash of a client, restart of the server every round | reassembly is exact, answers arrive in order, Stop returns |
| Profiling run (`interface/ms_op_prof`, `profiling/op_prof*`, `device/run`, `simulator/run`, `op_runner`, `timer`) | `execStatus`, `inExitMode`, disposition of SIGINT, child process, timer | rounds, Ctrl+C, `--timeout`, `--kill` | signal handler, timer thread and main thread race; failing servers and programs | the handler stays while a program runs, few starts after Ctrl+C, interrupted is not failed, a timeout ends the run |
| Command line (`argparser/`, `common/prof_args`) | the options | check, normalise | none: sequential | options mean what they say |
| Instrumentation stubs (`plugin/`) | per core a block of a buffer in the memory of the device, through a data cache | count operands, note when warps start and end, log memory instructions | cores and threads write one buffer without atomics, a log that overflows, places computed by device and host separately | what a core did reaches its own block, and nothing else |
| Device data parsing (`profiling/op_prof_data_parse`, `device/data_parse/`) | tables read from dumps | Parse, Calculate | formats, chunk limits, PMU events split over replays, which block belongs to which core, counts joined with lines by address | numbers agree with the dumps and go to their core |
| L2 cache model (`device/data_parse/l2cache/`) | lines per set, dirty marks, ticks, two tables of statistics | Modeling, Load, Store, Inject, Evict | a line dirty in the cache or saved in memory, order of use under two policies, ranges that wrap | a set holds the lines used last, every store reaches the GM once, the tables add up |
| Device data views (`device/data_visualize/`) | per channel: pending marks, busy pipes | read records, write JSON, CSV | pairing of begin and end, what belongs to the end of the program | every interval is shown once, nothing behind the end |
| Simulator dump parsing (`simulator/data_parse/`, `parse/data_parser/instr_parser/`) | marks, pop and completion lists, instruction tables | one line of a log, merge | two logs joined by position | each instruction once, with its own completion |
| Calculators (`parse/data_calculator/`) | registers, tables of fetches and decodes | live registers, scalar heads, conflicts, loads | computations that correct earlier results | agree with a direct definition |
| Simulator data views (`parse/data_visualizer/`) | recorded flags, drawn events | one task per core, then the flags between cores | tasks in any order, flags joined by number and position | every instruction drawn once, arrows join partners |
| Encodings, utilities, `main.cpp` | none | tables, wrappers | none | - |

How they interact: callbacks run on the listener thread of InjectionEvent, so
everything called by it is sequential: DeviceProcessManager needs no lock
because of that, and DBIParser::ParsePacket has one caller. The tasks register
callbacks while no server runs. The main thread reads what the handlers wrote
only after it has joined their threads (WaitAllTasks and Stop of the pool, Stop
of the server, WaitForStop of a stream), which is why so many of the properties
say that nobody is left.

## 2. The modules

Each action is a critical section, a read or write of an atomic, a call that
blocks, or, in the sequential parts, one line, record or row the code handles.
Every `MC*.tla` extends its module with the values that configurations need, and
a symmetry set where no liveness is checked. A comment "variant with a bug"
marks a changed operator that no specification uses: `PROJECT.json` names, for
each property, the variant that violates it.

| module | models | composed with |
|---|---|---|
| `TaskExecutor` | what a user of ThreadPool may rely on: a queue, first come first served while open; closing starts nothing new | implemented by `ThreadPool`, assumed by `DBIParser` |
| `ThreadPool` | `thread_pool.{h,cpp}` | refines `TaskExecutor` |
| `DBIParser` | `dbi_parser.{h,cpp}`: ParsePacket, PacketHandler, WaitParseTask | uses the promise of `TaskExecutor` |
| `DataStream` | `data_stream.h` with its producer and the loop of a plugin's Entry | - |
| `RealTimeParser` | `real_time_data_parser` and its four sub-parsers over the kernels of a program | takes the pool and the streams as steps of `ThreadPool`, `DataStream` |
| `DeviceProcessManager` | `device_process_manager.{h,cpp}` | called by callbacks of `InjectionEvent` |
| `InjectionEvent` | `injection_event`, `packet`, `communication` | its server is the `server` of `ProfilingRun` |
| `ProfilingRun` | tasks, rounds, runner, timer, SIGINT | abstracts `InjectionEvent` to up or down |
| `L2Cache` | `l2cache.cpp`, `cache_policy.cpp` | the sequential parts are |
| `UserMark` | the marks of `instr_log_parser.cpp` | composed by |
| `InstrParser` | MergeInstrByPc of `instr_parser.cpp` | `MCOffline` |
| `ScalarCalculator` | `scalar_calculate.cpp` with the tables of `icache_parser.cpp`, `ccu_log_parser.cpp` | |
| `LiveRegisters` | `gpr_live_register_calculator.cpp` | |
| `RunningTime` | CalculateRunningTime of `data_visualizer/utility.cpp` | |
| `BiuTimeline` | `biu_timeline.cpp` | |
| `CoreTimeline` | `core_timeline_visualizer.cpp` | |
| `SubcoreTimeline` | `subcore_timeline_visualizer.cpp` | extends `CoreTimeline` for what both sort and shift alike |
| `MemoryRecords` | ParseMemoryChart and the record parsers of `dbi_parser.{h,cpp}` | one packet, without the locks `DBIParser` has |
| `CoreRecords` | the probes in `plugin/` (operands, warps, memory) and their readers in `metric_data_handler.cpp`, `roofline.cpp`, `warp_timeline_visualize.cpp`, for chips of the A5 kind | one of the parts of `MCOffline` |
| `Hotspot` | `hotspot_function_generator.cpp`, `pc_process.cpp` | one of the parts of `MCOffline` |
| `TlvParser` | `tlv_parse.cpp`, GenTlvdata of `hotspot_function_generator.cpp` | one of the parts of `MCOffline` |
| `DeviceTimeline` | `timeline_parser/*.cpp`, ParseDurationBin of `metric_data_handler.cpp` | one of the parts of `MCOffline` |
| `PmuEvents` | the events and rounds of `defs.h` and `prof_args.cpp`, the merge of the counts in `metric_data_handler.cpp` | one of the parts of `MCOffline` |
| `*Proofs` | theorems of `ThreadPool`, `DBIParser`, `RealTimeParser`, `DeviceProcessManager`, `InjectionEvent`, `ProfilingRun`; `RecordProofs` of `DataStream`, `MemoryRecords` and `CoreRecords`; `OfflineProofs` of `L2Cache`, `LiveRegisters`, `RunningTime` and `UserMark` | extend the module and TLAPS |

### ThreadPool and TaskExecutor

`running`, `queue` are `running_`, `taskQueue_`; `pc[w]` and `task[w]` say where
a thread is in Loop, FetchTask and the task; `owner` where the thread is that
calls Start, WaitAllTasks and Stop. The mutex is implicit: its critical sections
are the actions `Start`, `BeginStop`, `WaitAllTasks`, `AddTask`, `TakeTask`,
`FetchNothing`. `LoopTest` is the read of `running_` outside of it. All notifies
come with the mutex held, so going to sleep is part of the test that leads to it.
`SpuriousWakeup` wakes either kind of waiter. A second Start or Stop and a
WaitAllTasks on an empty queue change nothing.

### DBIParser

A data packet goes through `CountReceived`, `ParseMemoryChart`, `TallyRecords`,
`CountProcessed`, `TryDumpMemoryChartMetrics` (the five critical sections of
`parseMutex_`) and, if it took the entry, `VerifyAndDump` without the lock; an
end packet through `HandleEndFlag` and `TryDumpMemoryChartMetrics`. `metrics` is
`memoryChartMetrics_` by client, with operator[] making an entry where the code
does (`At`). A record is a triple of client, kernel and packet number, so that
it is known where it belongs. The parsers of the record types are one choice:
the record enters the entry, or is rejected. What they make of a packet is
module `MemoryRecords`: `ParseRecord` reads a header and a body, `BreakAtHeader`
ends a packet that is cut off or damaged, `TallyPacket` counts at the end, and
`AccessesOf` is `recordParserFunc_` with one operator for each parser. A record
has the operands of its instruction as fields; program counters, block numbers
and most names of memories are left out. The N dimensional DMA is not modelled.

### DataStream

Push, Pop, Shutdown and the plugin's loop. `blocking` is the state the finding
below lives in: the plugin holds the mutex, has found the predicate of
`cv_.wait` false, and does not sleep yet; Push must wait for the mutex, Shutdown
need not.

### RealTimeParser

`call` is the Start or Stop in progress on the listener thread, with the list of
sub-parsers it has still to visit; each plugin has a thread (`plugin`), a queue
of Entry tasks (`tasks`), the stream its data center holds (`center`) and the
stream its loop took (`held`), which differ when a Start comes late. `after` is
the thread Stop leaves behind, `mapper` the one Start leaves behind. `table` and
`kept` are the tables Entry clears and those it does not: `scalarMap_` and
`mteLogInstrVec_` grow from one kernel to the next. Pop, the test of IsStop and
the handling of an item are one step here, so the wakeup that `data_stream_hang`
shows lost is not lost in this module, and liveness is claimed only for what
does not wait for a plugin. `aborted` is `std::terminate`: a thread is assigned to a
joinable one.

### DeviceProcessManager

`skiped`, `profed` (`skipedKernels_`, `profedKernels_`) count by client and
device, `running` (`kernelToRunningTimes`) numbers by device and name, modulo
`CounterMod`. `SkipKernel`, `RefuseKernel` and `GrantPath` are the three answers
of ProcessKernelEvent. The wildcards of `--kernel-name` are the set of names
they match.

### InjectionEvent

Bytes are units that know their packet and position; the head of a packet is
`HeadLen` units. `Distribute` is one iteration of the code's loop: a partial head
or payload is kept, an invalid head drops the rest of the message, a complete
packet is dropped, handled, or, without a callback, kept. A head put together
from units of two packets is garbage: it is invalid or means any packet.
`ProgramExits` cuts the stream of each client anywhere. `runFlag_` and
`isRunning_` follow from `owner`. `MsgHandle` and `ClientSend` are external: what
the sockets and the profiled process do. Sockets keep the order of a client and
each round numbers clients from the start again.

### ProfilingRun

`main` walks through PreProcess, the test of `inExitMode`, the start of the
server, `execStatus = RUNNING`, `posix_spawnp`, `waitpid`, Timer::Stop, the
judgement of the status, the join of the timer thread, the stop of the server,
`execStatus = STOPPED`, and around again for a device task. A simulator task sets
the status before it starts the server. `timer` walks through Timer::Wait with
its unlocked test of `isStop_`, its clock and its sleep, and then through
KillBinaryProcess: exit mode, SIGINT, three seconds, SIGKILL. `PressCtrlC`
runs SignalHandler and sends SIGINT to the program as the terminal does. The
profiled program is external.

### L2Cache

`placement[set]` lists the entries of a set in their order under the policy; a
record of `Records` begins a `call` that walks its lines (`Access`), a line is a hit, an allocation with
or without eviction, or a store that passes by. Of the GM behind the cache only
`unsaved` is kept: the lines with a store that has not reached it. `clock` and
`used` are the history the properties compare with. FIFO refreshes an entry
on a hit as LRU does, so both evict the line used longest ago
(`HoldsTheMostRecent` is proved for both). The configuration of
GetDefaultL2Cache is LRU, write-back, write-allocate; the second instance in the
run, FIFO without allocation on stores, is what the constructor also accepts.

### UserMark, InstrParser, ScalarCalculator, LiveRegisters, RunningTime

*UserMark*: one action per kind of line in the completion log; `userMarkMap_`,
`userMarkName_`, the flag of the NOP, and the two loops of DisposeUserMark:
DeleteUserMarkWithoutEnd and MergeUserMark are left folds. `log` is the history.
The tick of a line is its number.

*InstrParser*: `histories` is what the core executed, the two lists of ticks are
derived from it; the action is MergeInstrByPc with GetPruneSize.
`ExecutionsRecovered` assumes what the pruning needs and says so (`Separated`):
the bursts of micro instructions are further apart than `MaxGap`, and the two
lengths differ when there is something to prune. Rows that start in the same tick
come in any order, as `std::sort` is not stable. `MergeInstrById` is not
modelled: it depends on an unstable sort.

*ScalarCalculator*: one action per parser and one for the join. MergeScalar
leaves its loop at the first fetch later than the decode, so that the order of
fetches matters.

*LiveRegisters*: `CountRow` is one row of the table; the counts of the rows between
the last use and the next write are taken back (`gprCount`). Rows are in the order
of the table, which is sorted by program counter, not by time: "live" is
meant along the program text. The tables of destination locations are the field
`dstLoc` of a row.

*RunningTime*: `CalculateRunningTime` sorts and merges intervals;
the reference definition counts the ticks that lie in some interval.

### BiuTimeline, CoreTimeline and SubcoreTimeline

*BiuTimeline*: one action per record of a channel, with the tables of the code
(pending marks by id, busy pipes, the progress in the sequence of end marks) and
one for the cut at the end. The property `TimelineAsRecorded` is stated from the
list of records alone. Peculiarities of the code that it respects: a start of 0
is the sentinel "not busy"; the region 392 of the user ends with 0xd88, the first
end mark; marks of an instruction within one cycle are excluded (hazard list).

*CoreTimeline*: a task of the thread pool draws one core (`ParseCore`, any order
of cores), then the flags between the cores are joined. Flag numbers of the cube
core are split at `INTRA_BLOCK_ID_SPLIT`; the module assumes of the tables
what the hardware guarantees: the vector cores use numbers below the split.
Ticks are below 2^31 (the code narrows them to `int`).

*SubcoreTimeline*: one action, ParseByCore, since a task draws one core and shares
only `pidMap_` with the others. A lane is the set of its taken ticks
(`pipeOccupy`). `LanesApart` says that no two events of a lane lie over each other
and that a lane is opened only for an instruction that meets one of the lane
below; `SepArrowsJoinPartners` that an arrow joins the k-th set and the k-th wait
of a flag. Where the code does otherwise the property says so by name: a process
that ends after `TickLimit` (`INT32_MAX`), a set without duration at its end
(`SetAtTheEnd`), flags behind one that lacks a set. Processes are told apart by
name (`SameProcess`), since ids collide (see the list below).

### CoreRecords

A kernel has one probe. `gm` is the buffer in the memory of the device, word by
word; `dataCaches[i]` what the data cache of the core with index `i` holds of it.
A stub of the probes of operands and warps stores (`AccumulateData`,
`DumpWarpTimestamp`) and then flushes; the two are actions of their own, so that
other cores come between them. A cache loads and writes back whole lines: what
the gaps of 64 bytes in `dbi_defs.h` and the `dcci` of `Flush` are for. That is
the assumption the module makes of the hardware; with no gap two writers of a
line lose each other's counts (the variant `NoGap`). The probe of memory has one
log for each core, far from the others (`BLOCK_MEM_SIZE`), and is one step:
`HasRoom` and `Dropped` are RecordPreCheck, `DumpRecord` appends. `move` stands
for every kind of memory record and `para` for every parameter a setter leaves
in the header; sizes are units. `BlockIndex` is the index the device computes,
`HostIndex` the one the host does, from different numbers of a core. `executed`
is the history. The host's side, from `OperandBlocks` on, is functions of the
buffer: the counts of a core by type, the sums of the roofline, the events of
the warps, the traffic between memories.

### Hotspot

`ExtractData`, `ProcessEncodings`, `GenLine2Encodings` and `VisualizeData` are the
steps of Process, each with the ways it fails; `hotStep` is where it is. A kernel
`hot` holds what the tools give: `bbbmap`, the lines of the map of blocks, `fdata`, a
count for each block and run, `Symbols`, the lines of addresses, innermost first.
`bbCalls`, `kernelRange` (`beginAddr_`, `endAddr_`), `encodings`, `fileLineCalls`
and `line2Encodings` are the tables of the generator by the same names; one count
stands for the samples of all stall reasons. Percentages, register counts
(GenTlvdata) and JSON are left out.

### DeviceTimeline

`ParseDurationBin`, `GetAicoreTimeStamps`, `ProcessAicoreBlockDur`, `DrawDots` and
`DrawTasks` are the steps of a timeline; `tlKernel.parser` says which of the three
parsers draws it. A kernel holds what was done: its blocks with the time of each
part, dots with the part that made them, records of tasks. `WrittenBlockId` and
`HardwareIds` say how runtime and hardware encode part, task and stream; the
operators of the code read them back, and `DotsInTheirBlocks` and
`TasksAsRecorded` compare what is drawn with what was done. Only the timeline of plain
kernels asks the configuration whether blocks are drawn whole (`DrawnWhole`). A name of a lane
is `Lane`; `acsqTimeMap` is the table of the code. Colours, lines of code,
display names and the conversion of cycles to time are left out. `VersionVisible`
and `InOrderAndInPart` name the kernels for which the code does otherwise (see the
list below).

### PmuEvents

A core has fewer counters than the metrics need events, so the kernel is launched
(or the application started) once per round. The tables of events and rounds are
those of `defs.h`; `abilities` is what the options switch on, `plan` the rounds made
of it (PmuEventsId, GetReplayTimes), `replays` the rounds that were run. Each record
of a part of a block becomes a bin; `totalPmuData` is what DataHandler puts together
from the bins of all rounds, `memMapDetail` what the views get. A case
(`PmuCases`) is a chip, a mode of replay, a type of operator, a selection of
metrics and what is lost on the way. A count is the name of its event and round, so
that `CountersMerged` can say that each count reaches the metric it was programmed
for.

## 3. The runs

Passing runs:

| run | instance | shows |
|---|---|---|
| `thread_pool` | 3 threads, 4 tasks, fairness | no missed wakeup, no thread after Stop, drain-then-stop executes everything; Stop and WaitAllTasks return; refinement of TaskExecutor, hence no task lost or run twice |
| `dbi_parser` | 2 threads; a client with two kernels of up to 2 packets and 1, a client with an empty kernel; fairness | no entry is erased under a handler; a record is in one place; files are written once; WaitParseTask returns |
| `data_stream` | 6 items, fairness | order, no sleep over an item, everything processed unless shut down |
| `real_time_parser` | instruction and icache parser, 2 kernels, 2 items, programs that die, fairness of the threads left behind | an output holds items and source lines of its own kernel; no plugin works while the tables are read; no thread is replaced unjoined unless a PROF_FINISH was lost; the thread that Stop leaves behind ends |
| `device_process_manager` | 2 clients with 5 launches each on 2 devices, 2 names, 1 selected, skip 1, at most 2, 2 rounds | the selection is exactly the requested one; directories are unique in a round; no grant after "terminate" |
| `injection_event` | 2 clients, 2 packets of 3 kinds (an answered one without payload; one with a sound or a refused payload of 1 unit, whose callback may be missing), all ways to cut and mix, fairness | framing is exact and no head is misread, answers come in order; every request is answered while the program runs; Stop returns unless the listener spins on a complete packet without callback (`Stuck`, which is reachable) |
| `profiling_run` | all options, L2 cache round, 3 replays, 3 Ctrl+C, failing servers and programs, fairness | at most one start after exit mode; with `--timeout` the run ends, an interrupted program is no failure |
| `offline_computations` | the sequential modules side by side, each over all its bounded inputs | see below |

`offline_computations` composes what shares no state: the variable `part` says
which computation a behaviour is about. Its properties:
`DirtyIsUnsaved`, `EachHoldsTheMostRecent` of the cache and `StatsAddUp` of its
tables; `MarksAsLogged`; `RowsRecovered`, of the table of instructions
(`ExecutionsRecovered`), of the scalar view (`HeadsInOrder`) and of the file of a
register tool (`LivenessRecovered`); `MeasuresAddUp`, that each event asked for is
counted in some round, related ones in the same, and reaches the part and block it
was counted for (`CountersMerged`), and that the hot spots of a kernel add up
(`HotspotAddsUp`); `LiveCountsExact` of the live registers of a simulated program;
`RunningTimeIsUnion`; `TimelinesAsRecorded`, of the channels of performance
(`TimelineAsRecorded`) and of kernels on a device (`DotsInTheirBlocks`,
`TasksAsRecorded`); `DrawnOnceAndApart` and
`ArrowsOfBothJoinPartners`, of both timelines of the simulated cores; `RecordsAccounted`, that a refused record does not cost the
ones behind it, a damaged packet keeps what came before and each record is counted
once, with its type, and
`TrafficAsInstructed`, that the accesses of a record carry the bytes its operands
say, none twice; `RecordsOfItsCore` and `TrafficAttributed`, that what the host has for
a core is what this core executed. `TrafficAsInstructed` excludes by name where the code does otherwise
(`Measured`, `Located`; see the list below).

Runs that end in a violation, each against a sentence of the repository:

| run | what the code does |
|---|---|
| `data_stream_hang` | Shutdown writes `isActive_` and notifies without the mutex; a plugin between its test and its sleep misses both and Stop never returns (`data_stream.h:41`: graceful) |
| `dbi_parser_late_data` | a packet is counted as received only when a thread starts on it; an end packet overtakes it, the entry is dumped and erased, and the record reaches the file of the client's next kernel (`dbi_parser.h:73`: data received later is discarded) |
| `real_time_flush` | Shutdown makes Pop return nothing although items are queued: Stop discards log items (`op_prof_task.cpp:411`: the end event flushes) |
| `gpr_ld4` | the X of a register is dropped twice for LD4; a register that is only overwritten stays counted before the write (`architecture.md:728`: considered released) |

Read off the models while they were written, and not runs of their own:

- an end packet can be overtaken, or overtake, in other ways than `LateDataDiscarded`
  speaks of: when the end packet of the next kernel is handled before the one
  of this kernel, the records of this kernel go to the file of the next; and a
  record of the next kernel handled before the end packet of this one goes to the
  file of this one. No sentence of the repository speaks of these;
- without `--kernel-name` as many kernels are profiled as `--launch-count` allows
  (`device_process_manager.cpp:37`), while line 83 of the user guide says the
  first only;
- a program can be started after the first Ctrl+C (user guide line 61: execution
  stops); `OneStartAfterExit` says that it is one at most;
- a second Ctrl+C does not keep the data from being generated
  (`ms_op_prof.cpp:60`), as line 61 of the user guide has it: it restores the
  default disposition of SIGINT, for a third one;
- with two rounds, and clients numbered from the start again, the rest of a
  packet cut off in one round swallows the head of the next round's client
  (`packetMap_` survives the server);
- `taskRes` is returned uninitialised when every round was skipped
  (`device_task.cpp:47`; `ReturnTask` chooses);
- SIGKILL follows SIGINT after three seconds also if the process was reaped
  (`exec_binary_runner.cpp:96`; `SendKill` has no guard);
- a DMA record with padding becomes one access: the side that is spread keeps its
  last block only (`dbi_parser.h:168-175`), although one block becomes up to 32
  (`dbi_defs.h:123-130`); a fill (SET_2D) counts its gaps; the plain mode of
  the fix pipe counts in blocks of 32 bytes and its other modes in bytes
  (`dbi_parser.cpp:567`); with elements of 4 bits all matrices of NZ2ND have the
  same address (`ndOffset`); MOV_ALIGN_V2 has size 0 unless it goes to UB or GM;
- LOAD_2DV2_DEC takes a negative stride by its absolute value for the start and
  as an unsigned number for the steps (`dbi_parser.cpp:679-688`);
- the offsets of an NdDMA record accumulate over its loops
  (`dbi_parser.cpp:839-864`);
- ParseFixfpQuantBits (`record_mov_fp.h:112-115`) sets `int8ChannelMerge` twice and
  `quantPreBits` never for the modes that convert to 8 bits, as
  ParseMovfpQuantBits does at line 96; with NZ2ND the host then counts 0 bytes
  (`dbi_parser.cpp:517`);
- for operators of vector cores only, Statics sums the traffic by index / 3, hence
  for two blocks, and looks it up by the number of one block
  (`metric_data_handler.cpp:952-962`, 999), while GetOperandRecordMap converts the
  number (932): block 0 gets what blocks 0 and 1 moved and the upper half of the
  blocks nothing. `TrafficAttributed` leaves the traffic of these operators open;
- the stubs of SIMT memory instructions change length and count of the log of a
  core from all threads at once (`record_simt.h`, `recoder.h:89-90`), while
  DumpWarpTimestamp lets the first lane only write (`warp_timeline/recorder.h:33`);
- a parameter setter is counted as a dropped record and can set the overflow bit
  (`record_dma_mov.h:82`);
- in SIMT mode GetBlockIdx leaves the number of the sub-block out (`utils.h:81`), so
  that SIMT instructions are looked at in operators of vector cores only;
- the process id of a warp is its number (`pidMap_["WARP"]` is 0), so that warp 10
  shares the process of SCALAR and warp 20 that of SCALARLDST
  (`subcore_timeline_visualizer.cpp:154`), and pipes the map does not know share
  process 0 with warp 0; the tasks of all cores insert these keys into one map
  without a lock;
- the first wait without a set ends the drawing of arrows for all flags behind it
  (`subcore_timeline_visualizer.cpp:483`); beyond `INT32_MAX` ticks all instructions
  of a process are drawn in lane 1, over each other (line 381);
- behind the blocks of a function UpdateBBBMap passes over one line whatever it is
  (`hotspot_function_generator.cpp:527`, 485-511): a function named there is lost,
  and its counts are added at address 0 on (line 674). `HotspotAddsUp` is claimed for
  maps with a line between functions (`AllMapped`); an address in a gap between two
  blocks gets the count of the block before the gap (line 888);
- GenBBCalls goes on without the next row when a number does not fit 64 bits (line
  689), hence never ends; MergeAddrRange with a start other than 0
  (`cacheline_heat_map.cpp:43`) adds the start to the end of a range a second time
  (`pc_process.cpp:42-48`), so that neighbours there do not merge;
- the length of an entry of a file of registers is compared after an addition that
  can wrap (`tlv_parse.cpp:66`): one next to 2^64 passes, and where a name is read
  with it std::string throws (line 112). `Entries` does not wrap, so that such an
  entry is refused; lengths that large are not among the inputs;
- a file of registers without a list of instructions, or with its sections in
  another order, is accepted as long as the counts agree with what was read before
  (`tlv_parse.cpp:163-207`); `regNumber` and `functionPositionStartIdx` are checked
  and read by nobody;
- the dots of one cube block, written by an old runtime, carry 50, which is taken
  for the number of a new one (`aicore_timeline_parser.cpp:66`, `<=`), so that none is
  drawn; a new runtime whose dots all come from physical core 0 is taken for an
  old one (line 56), unless it ran one cube block;
- a pair of communication dots outside of its block keeps its start and hides
  the later ones of its operation (`mc2_timeline_parser.cpp:402`); the second task of a
  report is not read when the first is empty, as the index does not advance
  (286-298); a task whose id is used again and has not ended the second time is
  not drawn, as its old end is before its new start (`metric_data_handler.cpp:650`, 656);
- the timeline of the lccl library compares an end that is still 0 with the block
  (`lccl_timeline_parser.cpp:104`), so that the end of a pair is never checked; a cube
  block is looked up under its number and 50, whose time is unknown and hence 0, so
  that its dots are drawn whatever their time, in the lane of a core 50 and on;
- event 13 of the conflict metric of vector cores on the 950 (`defs.h:290`) is in no
  round of the table of replays (314): with replay of the kernel it is never
  counted, and with replay of the application the comparator of GetEventIndexMap
  (`prof_args.cpp:209`) is inconsistent, so that what std::sort makes of it is
  undefined; the run leaves that selection out (`MCSortable`);
- the event 0 that fills a round is inserted before the last event
  (`prof_args.cpp:260`); with no counter free that moves the last event of a group
  into another round, although the table puts events that belong together into one
  (`defs.h:227`). `CountedTogether` allows the one event that
  moves in the pipe metric of the 950;
- with the source view alone and replay of the kernel all rounds are run and only the
  first is parsed; KernelScale beside another option switches no counter on;
- a mixed block whose cube part has no records gives its vector parts to the block
  before it;
- `markId > size` lets an index equal the size (`core_timeline_visualizer.cpp:527`);
  the marks drawn and counted are the same, so that it is not reached.

### Bounds

- Threads: two handlers are needed for any overtaking and for any race between
  a thread and the last one to leave; three in the pool so that one notify has a
  choice while a third thread works.
- Tasks 4, items 6: more than threads, so that the queue grows beyond them.
- `CounterMod = 8` in DBIParser stands for 2^16 and exceeds the packets of a
  client; `EntryOutlivesHandlers` is claimed for fewer than 2^16 packets of one
  client between two dumps only. In DeviceProcessManager `CounterMod = 4` is
  exactly what two clients with a quota of two need, so the limit is reached.
- Five launches of a client pass the skipped one, the quota of two and a refusal,
  on one device or split over both.
- `HeadLen` 2 lets a head be cut; payloads of 0 and 1 units cover the empty
  one and one cut off from its head. Two packets may be of one client, so that the second follows
  a cut first, or of two, so that their chunks mix. Two kernels let the state of
  one meet the next; three replays have a first, a middle and a last one.
- Ctrl+C: three, since the documentation speaks of two.
- Cache: 2 sets of 2 ways over 6 lines of 2 bytes and 5 accesses fill a set,
  evict from it and bring an evicted line back; ranges cross lines, touch none,
  and wrap at the end of the address space.
- Logs: 5 lines hold a start with its NOP, a stop with its NOP and one mark in
  between. Executions: two of one program counter, the last possibly cut off;
  `MaxGap` 2 stands for 8. Tables of 4 rows have a first use, a last use, a row
  between them and a write. Records of the timeline: 5 over both channels, with
  an end sequence of 3 instead of 8 marks, so that it can be begun, broken off
  and completed. Cores: the cube core with 3 instructions, the vector cores with
  2 and 1, or one core with 4; `IntraSplit` 2 stands for 16. Lanes: all sets of up
  to five out of 14 instructions of one pipe within three ticks, which lie in every
  way to each other and need up to five lanes; `TickLimit` 3 is passed by one.
- Packets: up to three records, accepted, refused, damaged or unknown, cut off at
  every unit; then one record of every type, with up to three repetitions in each
  loop, strides with and without gaps, lengths below and above a block, pad modes
  at the ends of their ranges, and all pairs of modes of the fix pipe.
- Instrumented kernels: two stubs are enough for two cores, or two threads of one,
  to meet in a line of the buffer; four let a warp run inside another one. Six
  indices have a block: the fifth vector block and the third cube block have
  none. Three threads have a place, a fourth has none; two make a warp. A log
  has four units, records one or two. The file of operands is whole, cut off by
  a block, or cut off within one. Matrices of one row, of a fractal and of one
  more than a fractal.
- Hot spots: kernels of one or two functions of two blocks with a gap, counted in up
  to two runs, with and without a line between functions in the map; ten lines of
  seven addresses, or fewer, with an inlined one, a repeated one, one of the toolkit,
  one of an unreadable file and one in a gap; blocks larger than the file; samples
  and accesses of known and unknown addresses.
- Files of registers: two types, three instructions, gaps and repetitions in the use
  of a register; a file cut off at every unit, with a unit more, with every unit one
  more, two more or one less, and every choice of three of its sections in any order.
- Kernels on a device: mixed ones with two blocks of three parts, others of one or two
  blocks; four dots of one part, three of two or two of four, of two operations or
  none, before the kernel, in order within the part and behind its end; two
  runtimes and two chips. Up to two records of two tasks in three encodings, or four
  of one, with other types and times; a report with an empty first task.
- Counters: selections of one to three metrics, packed for the starts of an
  application, and twelve combinations of views and metrics for both modes, on three
  chips; one bin, or the records of one part, lost.
- Deadlock is not checked where the program ends (a run, a stream, a session)
  or where a bound ends every behaviour; each configuration says which.

### Fairness

Threads of the program are scheduled (weak fairness of their steps); condition
variable waits with a time limit return (`ReceiveTimeout`, `SendTimeout`); sockets
deliver (`MsgHandle`); time passes (`TimePasses`). None is assumed for what users,
clients, profiled programs or owners choose to do, for spurious wakeups, for
failures or for Ctrl+C. A mutex is held for a bounded time in all of this code, so weak
fairness of a critical section is what the scheduler gives. In `ThreadPool`
fairness is per thread, since a task runs to its end whatever other threads do.
In DataStream the fair plugin holds the mutex only in `blocking`. The sequential
modules have no liveness property: they end because their input does.

## 4. The proofs

| module | main theorems | for all | from |
|---|---|---|---|
| `ThreadPoolProofs` | `TypeCorrect`, `OneHolderCorrect`, `StoppedIsDoneCorrect`, `NoMissedWakeupCorrect`, `Refinement` | finite sets of threads, sets of tasks | `WorkersAssumption`, `NoTaskAssumption` |
| `DBIParserProofs` | `OnePlaceCorrect`, `WrittenOnceCorrect`, `EntryOutlivesHandlersCorrect` | finite pools, clients, reports | the assumptions of `DBIParser`; the last one also `[]CountersBelowLimit` |
| `RecordProofs` | `RecordsAccountedCorrect` | packets of any number of records, cut off or damaged anywhere | `BodyLenAssumption`, `PacketsAssumption` of `MemoryRecords` |
| | `TrafficAsInstructedCorrect` | the same packets, all values of the operands | the same |
| | `TrafficCorrect` | kernels with any number of blocks and stubs, instructions, lengths of the logs | the assumptions of `CoreRecords` |
| | `RecordsCorrect` | the same kernels, and any number of places in the buffer, threads, types of operands, multiplications, words of a cache line | the same |
| | `InOrderCorrect`, `NeverAsleepOverAnItemCorrect` | any number of items | `MaxItemsAssumption` |
| `RealTimeParserProofs` | `TablesQuietCorrect`, `AbortsOnlyAfterLostFinishCorrect`, `OutputOfOneKernelCorrect` | sets of sub-parsers, kernels, items | `ParsersAssumption`, `BoundsAssumption` |
| `InjectionEventProofs` | `TypeCorrect`, `FramingExactCorrect`, `AnswersInOrderCorrect` | clients, packets, lengths of the head, rounds (the last two: up to the end of the first round) | the assumptions of `InjectionEvent` |
| `DeviceProcessManagerProofs` | `TypeCorrect`, `PathsUniqueCorrect`, `CompleteWhenToldCorrect`, `SelectionExactCorrect` | clients, devices, names, launches, rounds | `ConfigAssumption`, `NumbersAssumption` |
| `ProfilingRunProofs` | `TypeCorrect`, `RunningWhileAliveCorrect`, `ReplayHasServerCorrect`, `OneStartCorrect`, `TimerEndsCorrect`, `InterruptedCorrect` | sets of command lines, numbers of replays and of Ctrl+C | `ConfigsAssumption` |
| `OfflineProofs` | `PlacementCorrect`, `DirtyCorrect`, `MostRecentCorrect`, `StatsCorrect` | policies, geometries, write modes, records, finite sets of instructions | the assumptions of `L2Cache` |
| | `LiveCountsCorrect` | tables of any length without LD4, numbers of registers | `LimitAssumption`, `ProgramsAssumption` of `LiveRegisters` |
| | `RunningTimeCorrect` | numbers of instructions, intervals within a range of ticks | `RunTicksAssumption`, `MaxInstrsAssumption` of `RunningTime` |
| | `MarkTypeCorrect`, `MarksCorrect` | logs of any length, sets of names | `NAAssumption`, `MaxLinesAssumption` of `UserMark` |

*ThreadPool.* The properties are not inductive without knowing where threads can
be: `PhaseInv` says that a running pool has no thread that left and that no
thread sleeps during Stop. `NoMissedWakeup` counts: each notify
moves a sleeping thread to the awake ones, each fetch takes one task with one
thread. The refinement maps `running` and `owner` to the phase of the executor.

*DBIParser.* A packet is a token that moves one way: not sent, queued, in the
hands of a thread, and then what it carried is in an entry, with a dumping
thread, in a file or refused. `TokenInv`, `RecordInv` and `PathInv` say that
these places exclude each other, for packets and for what they carried; `OnePlace` and
`WrittenOnce` follow without the counters. `EntryOutlivesHandlers` needs that
`receivedPacket` is ahead of `processedPacket` by exactly the handlers at work,
which the 16-bit arithmetic keeps only below its limit: hence the hypothesis
`[]CountersBelowLimit`.

*MemoryRecords.* `DbiInv` gives what a packet parsed so far amounts to: where in the
message the next header lies, that every header before it could be used, the accesses
of the records that did not fail, in order, and the two counts of each type. The
property speaks of the records that can be read instead. The two differ by at most
one record, the last one, when its header is whole and its body is cut off
(`ReadableIs`). All that is assumed of a record is that its operands are unsigned
numbers (`Operands`); that each parser then returns a list of accesses is proved
(`AccessesType`), from what each access of it holds (`Load2dAre` to `MovAlignV2Are`).
`TrafficAsInstructed` needs nothing else of the packet, and no induction over the
operands: the accesses of nearly all parsers have one size (`Sized`), so that they add up
to a product (`BytesOfEqual`), and lie in steps (`InSteps`), in loops of steps
(`InLoops`) or in the two nested loops of MOV_ALIGN_V2 (`LoopsInOrder`). That they are
apart is then a matter of quotients and remainders: of two numbers the smaller has the
smaller quotient, or the same and a smaller remainder (`NestedSteps`). The merging modes
of the fix pipe need how many columns their elements fill (`MergedColumns`), and the odd
half column is one access more (`ListedMore`). MOV_ALIGN_V2 is measured by the operands of
the instruction while its parser counts the bursts it merged; `LoopedBurstsExact` is for
both. Where rows do not fill whole bytes, or an element has another size than its mode
is for, the quotients the code takes lose a rest: `Measured` says so.

*CoreRecords.* `LogInv` says of each log with a place in the buffer that some stub
`last` divides the history: what its core did up to there is in the log, each memory
instruction at its rank and with the parameter set last before it, and what it did
after it was refused (`LogKept`). While there is room `last` is the last stub of all,
whoever executed it, and the header holds the parameter the next instruction needs;
with the overflow it stays. That a stub leaves the logs of the other cores alone is
`OwnIndex`: the index the device computes is different for different cores. A log that
belongs to no core is empty. `TrafficOf` compares sums: the bytes the host adds up
over the parts of the ways are those of the moves, since a way has one part at most
that leaves a memory and one that enters it (`WayOut`, `WayIn`), so that the sets it
adds up are disjoint (`SumOfSums`), and since the index of the host is that of the
device (`StaticsIs`). What counts twice, from L1 to the UB of a vector core, is what
the cube core of the same block logged for this one (`ExtraIs`).

`RecordsOfItsCore` rests on `BufferInv`: a core finds at each word of its block, in its
cache or else in the GM, what the stubs executed so far leave there (`Due`), and the
caches of other cores hold no word on a line of this block (`Coherent`). `Due` is
stated of the history alone, counts and operations for the probe of operands, the
last time noted for the probe of warps. The invariant says it of all words that are on
a line with a word of the block (`Near`), since that is what a cache takes and writes
back; that these sets are apart for different blocks is `LinesApart`, the one place
where the gap between blocks is used. A stub that stores is `StoreCoherent`, a write
back `FlushCoherent`; what the stub stores is what has become due (`DueMore`,
`StampDue`), for which no two tables of a block may share a word (`EntriesApart`). When
the file is read the caches are empty, and the GM holds what is due (`AllDue`). The
figures of the host follow: the padding of the code is the padding of the multiplication
(`FlopsAre`), a table is written by one core and one thread (`EntryIs`), and its sums over
tables, cores and types are sums over the stubs (`CubeSum`, `VecSum`). A warp is in
the timeline exactly if its first lane has ended, which it does once and after it has
started (`InTurn`, `WarpDrawn`); the events the host normalizes together, by the
place it reads from the block, are those of one core (`PlacesApart`). `BufferInv`
speaks of all words and is not evaluated by TLC.

*DataStream.* `InOrder` is inductive with the types. `NeverAsleepOverAnItem`
needs that the plugin holds the mutex from its test to its sleep (`Guarded`):
Push comes before the test or after the plugin has gone to sleep.

*RealTimeParser.* An argument over the loop of Stop: every sub-parser is still
on its list or its plugins are done (`Stopping`), and only a Start, which has
joined the reading thread before (`Order`), makes them undone. For the threads
that are assigned, `Joiner` says who is going to join the mapping thread.
`OutputOfOneKernel` follows the items (`CInv`): a stream holds what was accepted and
not yet taken; an active stream is taken from by one loop only, and what that loop
took is its table (`QueueOf`, `TableOf`). The step that is easy to get wrong is the
late plugin, whose Entry takes the stream of a newer Start than the one that queued
it: a plugin holds the stream of the last Start or has still a task to run, hence
when all are done, which Stop waits for, each table is of the kernel that was
stopped. Start opens all sub-parsers (`Opening`) by the same argument as Stop stops
them.

*InjectionEvent.* The properties are about whole streams, so the invariant
(`Intact`) is a concatenation: the head being read, the payload so far, the message of
the listener, the queue, the socket and what a dead program did not get out are, one
behind the other, the stream of that client from packet m on. Every action moves
units across one of the borders, and only a complete packet moves m. Answers are
those of the packets handled, less what is still queued. The streams are `FlattenSeq`
of sequences of any length: its equations are proved in the module, from the
definition of the recursive function and by induction over a set of numbers.
`FramingExact` and `AnswersInOrder` are proved up to the end of the first
round, `TypeOK` for every round: `packetMap_` outlives the server, so in a later
round the rest of a cut packet meets the first bytes of the next client of that
number (see the list above), and neither is claimed there.

*DeviceProcessManager.* What bounds the running numbers (the quota) is counted
per client, the numbers themselves per device and name. The argument counts the
pairs of client and position that hold a directory of a name (`Holders`): there
are at most clients times quota of them, the next number is their count, and
those handed out are below it and different. `NumbersAssumption` (clients times
quota at most 2^16) is what the 16-bit number needs: with `--launch-count` at
most 5000, thirteen processes on a device. `SelectionExact`
gives each selected launch its place, the number of selected launches up to it: the
skipped ones are the first (`SkippedFirst`), a launch that is granted takes the next
place, and the places before it stay.

*ProfilingRun.* Most of the state follows from where the main thread is
(`Places`). `LateInv` says that after a start in exit mode the main thread never
again reaches a place from which a program starts: the round ends at the test of
`inExitMode`. `SignalsInv` says that a program signalled by user or timer means exit
mode, which `InterruptedIsNoFailure` needs at the judgement of the status.

*L2Cache.* What an access does to a set is one relation (`Renewed`): the accessed
line in the newest place behind the others in their order, less at most one. The
lemmas show that hits and allocations of both policies are such renewals;
`HistoryInv` ties the order of a set to the ticks of last use. That the tables by
set and by instruction have the same sums (`StatsAddUp`) needs `SumFunction` as a
function with a value: that the sum over a finite set exists and does not depend on
the order (`SumIs`) is proved by induction over its subsets, and that it grows by
what one place grows by (`SumStep`) from it. `CountInv` adds that an instruction
without an entry has counted nothing; then each access adds the same to one set and
to one instruction, the one of the call in progress.

*LiveRegisters.* The calculator corrects the counts of rows it has left, so the
invariant (`LiveInv`) says what they are after n rows: the map has the last use of
each register used so far (`LastUses`), and the count of row j is the number of
registers `Held` there, used up to j and not overwritten unread since. A row that
writes a register takes back the rows between its last use and itself: these are the
rows where it is held no more and was held before, so that nothing is taken back
twice and no count falls below zero. After the last row what is held and not used
again is released, and `Occupied` is left. Tables with LD4 are excluded: the
property fails there (run `gpr_ld4`).

*RunningTime.* The two loops are left folds of the library. `FoldExists` proves by
induction over the length that such a fold has a value, once for every function that
makes one step, and `LoopSteps` that both loops reach theirs one member at a time.
`MergedSoFar` then says of the merged intervals after k instructions that each ends
before the next ones start, that they cover the ticks of the k instructions and that
the last one starts no later than the instruction before. An inverted interval covers
nothing and is never prolonged: what started before its end would start before its
start, and the list is sorted. The sum over intervals that are apart is the
number of ticks they cover (`SumIsCovered`).

*UserMark.* The parser knows the intervals of a name by position, the log gives them
by line. `NameInv` ties the two for a name that is not invalid: the interval at the
rank of a start mark has the ticks the log gives to that mark so far, only the last
one may be open, the marks are well nested, and the name is pending exactly when one
more NOP would move a tick of it. A line of the log is one of five things for a name,
and each has a lemma (`NameKept`, `NopAfterStart`, `NopAfterStop`, `StopRead`,
`StartRead`); that a start meets an open interval exactly when the nesting breaks is
`ClosedAfter`. The other half is the search by counting: `MergedAs` says what
MergeUserMark finds in any table of intervals, not only in the one it gets, and is
kept line by line (`MergedStart`), so that deleting the open intervals at the end,
the last of their names, leaves the ranks as they are (`TakenIsDrawn`). That a name
once invalid stays invalid although its list goes on growing is what makes the two
halves meet: its intervals are not those of its marks any more.

Only model-checked: liveness and everything that rests on fairness
(`CallsReturn`, `WaitParseTaskReturns`, `EveryItemProcessed`, `AfterExitEnds`,
`EveryRequestAnswered`, `StopReturnsUnlessStuck`, `TimeoutEndsRun`), which the
provers cannot reach; and the sequential modules but for the cache, the live
registers, the running time, the user marks, the memory records and the records of the
cores. Their operators
are folds and filters over whole tables, and their properties compare the result
with a definition over all of the input: what is proved of them would be facts of
those library operators first. For left folds `FoldExists` is such a fact; `SelectSeq`
has no definition the prover can expand.
`EachHoldsTheMostRecent` combines two caches of the run; for each of them it is
`MostRecentCorrect`.

## 5. Not modelled, and why

- The contents of dumps, and of packets but for those of memory records: a
  payload is sound or not. What the batch
  parsers and views compute is mostly arithmetic on fields, formats and tables:
  a model of it would repeat the source line by line. That is the larger half
  of the repository and the reason why the share of its lines behind a
  definition stays small.
- RemoteProcess (sockets) and the profiled programs are external, modelled as
  far as the code relies on them.
- Whether the message hook may still be called while Communication is destroyed
  depends on RemoteProcess and is not decided here.
- Of the instrumentation stubs: the fields of a memory record, SIMT instructions in
  operators of both kinds of cores, the layout of the 910B, the stubs around a
  measured range, the tables that bind stubs to instructions. Encodings are
  tables. Utilities wrap files and formats.
- The Ctrl+C race inside the signal handler with C++ statics (`std::atomic` or
  not) is seen as one action, as the handler runs on a thread that is stopped
  meanwhile.
- Split log files of one core are read in the order of their names; the
  modules of the logs have one file per core.
