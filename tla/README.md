# HetSim-gem5: models and proofs

HetSim estimates the performance of a heterogeneous system by replaying traces.
An application runs natively on the emulation library while instrumentation
writes one trace per processing element (PE); gem5 is then built with one *trace
replay engine* (TRE) per PE in the place of a detailed core, and the TREs replay
the traces against the simulated memory system, waiting for each other at the
same mutexes, barriers, queues and sleeps as the application did.

This directory holds TLA+ models of that system, the TLC configurations that
check them on small instances, and TLAPS proofs for every instance.

## The parts of the system

| Part | Source | Here |
|---|---|---|
| Trace replay engines | `gem5/src/cpu/tre/` | `TRE`, `Vectors`; MC modules `MCTRE*`; inductive invariants `TREInd`; proofs `TREProofs`, `TREPlaced`, `TRETraffic`, `TRESafety` |
| Construction and destruction of the TREs | `tre.cc` 61-80, 109-212 | `Init` of `TRE`; the rest is not modelled |
| Work queue device | `gem5/src/mem/work_queue.*` | `WorkQueue`, its abstract specification `WorkFIFO`, `MCWorkQueue`, `WorkQueueProofs` |
| Emulation library | `emu/` | `EmuLib`, its abstract specification `EmuPrims`, `EmuProofs` |
| Tracer runtime and its generator | `scripts/generate_model.py` | `Tracer`; `Emulation` composes it with `EmuLib`; `MCEmulation`, `TracerProofs` (lemmas on entries and counts at the end of `EmuProofs`) |
| m5threads | `m5threads/pthread.c` | `M5` (the threads), `M5Locks`, `M5Barrier`, `M5Cond`, `M5Life`, `MCM5`, `M5Proofs` |
| Queue configuration | `scripts/populate_init_queues.py`, `spec/spec.json` | its result is the constants `Queues` and `QueuePairs` |
| Example application and target | `example/` | the traces of `workq_mutex` are part of the run `sync`; the gem5 configuration is not modelled |
| gem5 itself | `gem5/` | upstream; only the assertions of `schedule`/`reschedule` and what ports observe |
| Scripts, demos | `scripts/*.sh`, `demos/` | not modelled: they start tools |

How they interact: the emulation library and the tracer runtime produce
`pe_<id>.trace`; `populate_init_queues.py` writes the body of `initQueues()`
from `spec.json`; gem5's event queue runs the events of the TREs one at a time;
a TRE sends packets through its port, which takes or refuses them, and receives
responses and retries; TREs meet in the static maps `mutexMap`, `barrierMap` and
`queues`, and start each other by scheduling each other's `tickEvent`,
`pushEvent` or `popEvent`. In the detailed target (before replay) the PEs run
m5threads code and use the work queue device in place of the TRE queues.

## Module TRE: the replay engines

**State.** For each TRE: the position in the trace (`pos`), `lastTokEntryPos`
(`last`), the registers `paddr` and `data` that carry operands from `tick()` to
an event, `outstandingAddrs` (`outs`), `blocked` and `blockedPkt` (`bpkt`),
`retryPkt`, and whether `noResponseEvent` is scheduled (`noResp`). `sched` is
the set of scheduled tick and primitive events. Shared: `mutexes`, `owner`,
`waiting`; `count`, `arrived`; `qlen`, `toPush`, `toPop`; `numIdle`. External:
`mem`, the requests the memory has taken and not answered. `sim` says whether
the simulator runs, has ended with "all TREs are done", or was ended, and by
what: an assertion, `fatal`, `panic`, `exit` or a crash.

**Actions.** One event handler or one call of the port, run to its end, as gem5
does. `tick()` is nine actions, one per way through it: `TickInRetry`
(`assert(!retryPkt)`), `TickStillBlocked`, `TickUnblocked`, `TickAccess`,
`TickStall`, `TickPerform` (a primitive without latency runs inside the tick),
`TickDefer` (with latency it becomes an event), `halt`, `TickInvalid`. The
handlers of the primitives are `initMutex` ... `pop`, `stats`, and take the event
they run in as a parameter, because operands and the position in the trace
differ. The port: `completeRequest`, `accessFailed`, `recvRetry`, and
`loseRequest` for a memory that never answers. The watchdogs: `noRequest`,
`noResponse`.

**Abstractions.**
- Time: an event that is scheduled may be the next one to run. Every order of
  events that some latencies produce is there, and more; the only place where
  time matters is the watchdogs, which are `progress_check` (10^9 by default)
  cycles away: they run only when the memory owes nothing and no event is left,
  or, with `WatchdogExpires`, when all that is left is stalls.
- A trace is a sequence of entries, a token with its operands; `LDU`, `LDB`, ...
  are `LD` with flags. Addresses are small numbers, 0 being the null address.
- Data in queues, statistics and debug output are left out.
- The memory answers requests of one TRE for one address in order, everything
  else in any order; the port may refuse any packet.
- `allTREs[n]` past the end of the vector is undefined behaviour, modelled as the
  end of the process, like an uncaught exception of `mutexMap.at`.

## Module WorkQueue: the device

**State** is that of the class: `workQ`, `isBusy`, `isEmpty`, `isFull`, `retry`
(`retryPop`, `retryPush`), `retryResp`, `packetQueue`, the two events and the
drain state; external: `held`, the refused packet each crossbar keeps. **Actions**:
`recvTimingReq` (refused, or taken with `access()` and the queued response),
`recvAtomic`, `release`, `dequeue`, `recvRespRetry`, `drain`, `drainResume`.
`sendRetryReq()` may call back into `recvTimingReq` at once, so `release` takes
the set of ports that do. The latency is left out: an event that is scheduled
may be next. `WorkFIFO` is what the class promises: put, get the oldest, and, in
timing mode, answer every load, and every store that is waited for, in order.

## Modules EmuLib, Tracer, Emulation: how traces are made

`EmuLib` has the globals of `util.cpp`: `core`, `queue`, `sleep_cntr`, and for
each thread the call it is in (`op`) and where it is in it (`at`: wanting the
mutex, in the condition variable, woken). One step is what a thread does between
getting and releasing a mutex. `condition_variable` is external, with `notify_one`
choosing any waiting thread and with spurious returns. `EmuPrims` is the same interface with
every call one atomic step; `Prims` in `EmuLib` is the refinement mapping, in
which the wakes not used up are the sleepers less the counter. `Reset` of
`EmuPrims` empties the queues and keeps those wakes, as `__teardown` does.

`Tracer` has the state of the generated runtime (`open`, `files`, `log`,
`stalls`), the counter the compiler pass keeps along a basic block (`count`) and
the executed program (`prog`) as a history. One step is one instruction with the
calls in front of it, in the order in which the pass creates them. A call of
a function leaves the count of its block pending in `callers` until the function
returns (`CallFunction`, `ReturnToCaller`); `Pending` is all that is not taken yet.

`Emulation` joins the two: a primitive is logged and then called. The application
is the environment: it registers ids, opens its log before its first
primitive, does not tear down while threads are inside, and a PE that sleeps is
one thread. `Apps` is the set of applications: whether one is traced, and which
threads it starts under which ids (distinct ones when it is traced).

## Modules M5*: the pthread library

Each shared word is a variable and each load and store of it, or each section
under a spin lock that nothing reads from outside, is a step; the place of a
thread in a function is its program counter (`lpc`, `bpc`, `cpc`, `tpc`). The
objects share no state, so `MCM5` lets a behaviour use one of them.
`Fits` is the set of threads whose id fits the `int` of the writer field;
`Phased` says how the program uses the condition variable. The two stores of
`pthread_exit` are seen by the joiner in either order, as no barrier is between them.

## Properties

Replay engines:

| Property | Says |
|---|---|
| `TypeOK` | types; in particular no queue holds more than its depth |
| `NeverForgotten` | a TRE without an event waits for something that is going to start it, sleeps or has halted |
| `RunsOnce` | a TRE has at most one event, none while it waits, and waits in one place |
| `EventAssertsHold` | four assertions: no event is scheduled twice, no timeout shifted that is not scheduled (`eventq_impl.hh`), no tick during a retry (`tre.cc:306`), no dependency left over when an access is read (`tre.cc:392`) |
| `Placed` | the inductive invariant behind these and `MutualExclusion` (module `TREInd`) |
| `MutualExclusion` | two TREs are never inside critical sections of one mutex, judged by their positions in the traces |
| `NoLostUnlock` | a mutex somebody waits for is owned |
| `BarrierReleasesAll`, `BarrierNotFull` | a barrier releases exactly one round of participants, all together |
| `QueueWaits` | a TRE waits at its own end of a queue, only while that is full or empty |
| `QueuesReplayed` | the `PUSH`es performed, judged by the positions in the traces, are the `POP`s performed plus what the queue holds (`Conserved`); between traces that match, nobody waits at a queue for a TRE that has halted (`NotStranded`) |
| `BlockedHasCause` | a blocked access waits for a response that will restart it |
| `WatchdogArmed` | the response timeout is scheduled exactly while responses are expected |
| `InFlightAgrees` | `outstandingAddrs` agrees with what the memory and the port hold (`OutstandingIsUnanswered`), and a stall waits for its dependencies (`StallWaits`) |
| `IssueInOrder`, `SentAsTraced` | dependencies and blocking accesses are respected; an access that waited in `blockedPkt` is sent as it was traced |
| `DoneMeansReplayed` | the simulation ends normally only when every trace has been read |
| `WakesSleepersOnly` | `WAKE` starts only a TRE that sleeps |
| `FailuresStop` | as long as the replay goes on, every access read to an address that fails is still outstanding: no error is taken for data |
| `AllHalt`, `HaltsUnlessFailed`, `NeverHangs` | liveness: all traces are replayed, with the fatal error of an early `WAKE` the only other end; a trace with an access that fails ends in that panic; nothing hangs when requests are lost |
| `SafeUnlessWoken`, `SurvivesWakes` | with traces that misuse the primitives: what holds as long as nobody is woken, and what holds even then |

Work queue device:

| Property | Says |
|---|---|
| `ChecksSuffice` | in timing mode the flags looked at by the ports are right: `access()` never pops an empty or pushes a full queue; no event is scheduled twice |
| `RefusedHasReason` | a refused request waits only while there is nothing to pop, or no space, or a release is due |
| `ResponsesMove` | a queued response has exactly one thing that will send it |
| `DrainIsSignalled` | a drain that was not finished at once is signalled later (proved, no run) |
| `IsFIFO` | the device implements `WorkFIFO`: a bounded FIFO that answers every load, in order |
| `RefusedAreServed` | liveness of refused requests, although the consumer is retried first |

Emulation library and tracer:

| Property | Says |
|---|---|
| `NoLostNotify` | with several threads in one condition variable, no `notify_one` is wasted on a thread while another could go on |
| `AsleepIsUnwoken` | a thread that stays in `__sleep` has not been woken |
| `IsPrims`, `CallsReturn` | the library implements `EmuPrims`, atomic queues and counted sleep/wake; and every call that can be performed returns |
| `TraceFaithful` | a trace has the accesses and primitives of the program in its order (`Ordered`: as many, and those of equal rank are equal), and no compute instruction is lost or written twice while the log is open, whatever functions are called in between (`CyclesKept`) |
| `StallsPrecede` | the cycles in front of an access come in front of it in the trace: false (`find_stalls_behind`) |
| `TracesReplayable` | every `POP` that came back has its `PUSH` in some trace, every `SLEEP` its `WAKE`, and no more than `Depth` `PUSH`es are left over |

m5threads:

| Property | Says |
|---|---|
| `LocksExclude`, `FreeWhenUnheld` | exclusion of mutexes and reader-writer locks; a lock nobody is in can be taken |
| `BarrierRounds` | nobody passes a barrier before all have come, over reuse |
| `SignalKept` | a broadcast is not wiped out before those it was meant for have seen it |
| `CountIsExact` | `thread_count` is the number of waiters (proved, no run) |
| `SpinsEnd` | every round of the barrier ends, and so does the wait of a thread that was broadcast to |
| `JoinWaitsForExit` | join returns only after the child has called `pthread_exit`, with its status or the word before it |
| `OnceRunsOnce` | an init routine is started at most once, and has been when a caller of `pthread_once` has returned |

`RunsOnce` is checked as part of `SafeUnlessWoken` and follows from `Placed`;
`QueueWaits` is checked as part of `SurvivesWakes`;
`BarrierNotFull` is proved. The other components have a type invariant each,
which their proofs establish.

## Runs

| Run | Instance | Why it is enough |
|---|---|---|
| `access` | one TRE, all 4096 traces of 4 entries from 8 kinds of access and stall on two addresses, 2 outstanding | a blocking access behind a normal one, an address twice in flight, a full window and a dependent access each need at most 4 entries; TREs meet only through primitives |
| `sync` | three TREs with a mutex and a barrier, four bodies each, with and without latencies; or one source and two sinks, all orders of 4 pushes; or the example application `workq_mutex` with two workers | a holder and two waiters, a barrier that is used twice, primitives before their initialization, a queue that is full and empty in turn; all primitives together |
| `misuse` | three TREs: all pairs of traces of two primitives, wrong ones included; or `WAKE` at any time, of any number | every error exit of every handler; the target of a wake blocked, refused, waiting twice, with an event due, halted |
| `atomic`, `lossy` | one TRE, traces of 3 entries; atomic mode with an address that fails; memory that loses requests | the failure, or the loss, at each position, in front of and behind others |
| `workqueue` | 2 entries, 2 items, 2 outstanding requests per port | empty, full and in between; a refused request at each port at once; a second response behind a refused one |
| `emulation` | three threads, two of which share an id (two poppers or two pushers), a queue of depth 2, 2 items, 2 calls each, 2 `__init`; or two traced threads, the first with 2 instructions or primitives; or one traced thread with 4 | a newcomer against a notified thread needs three; order needs two items; an access, a stall count and an access need three instructions, and a call of a function with its return in between a fourth. That no more than `Depth` `PUSH`es are left over cannot fail with 2 calls; the proof covers it |
| `m5threads` | 4 threads, 3 rounds of the barrier, 2 statuses | a barrier that goes up, down and up; waiters of two broadcasts with a broadcaster; readers and two writers |

The runs of the engines and of the device check deadlock: a simulation that
could go no further without having ended would be reported. `emulation` and
`m5threads` do not: an application may stop, and the bounds on calls stop it.

**Fairness.** Replay engines (`FairSpec` in `TRE`): weak fairness of the events of each TRE (gem5 serves
the event queue in the order of ticks, and every scheduled event has a finite
tick), of responses and of retries (the memory system is expected to answer;
`lossy` does without by `loseRequest`), and of the watchdogs. Device: its two
events, for the same reason; a crossbar sends a packet it holds again, and a
response that was refused is taken in the end. Emulation: a thread that can get its mutex gets it; nothing is assumed of
spurious wake-ups or of the order in which `notify_one` chooses. m5threads: a
thread that can take a step of a barrier wait, or leave the spin on the flag,
does.

## Findings

Each is a run that TLC ends with a counterexample.

- `find_stall_assert`: `LD 1; STB 2; STALL (1)` trips
  `assert(blockedPkt.deps.empty())` at `tre.cc:455`: for a stall the listed
  dependencies are inserted before the assertion.
- `find_wake_waiter`: `wake()` takes a TRE that waits for a mutex for one that
  sleeps, and starts it; it enters the critical section without the mutex.
- `find_stalls_behind`: the pass comments the count it passes in front of a load as
  "number of stalls preceding this load" (`generate_model.py:667`), but
  `emit_load` is called first and writes the load: `compute; load` gives a trace
  with the load and then, before the next entry, its stall.
- `find_signal_lost`: in `pthread_cond_wait` the last waiter to leave tests the
  count and lowers the flag under `count_lock`, which neither a new waiter nor a
  broadcaster takes. A thread that starts to wait and is broadcast to between the two misses
  the broadcast. `m5threads/README` lists "a race condition in rwlocks and condition variables" as fixed. Programs that
  broadcast with the mutex held, and start no new wait before the
  waiters of the last broadcast have left, are safe (`Phased`; proved).

Seen while modelling, without a run:

- Replay engines. `WAKE n` starts the n-th TRE that has a trace
  (`allTREs[n]`, `tre.cc:953`), which is not PE n when a PE before it has none,
  while `tre.cc:556` speaks of a PE number. A wake before the sleep is remembered
  by the emulation library (`util.cpp:162`) and fatal in the replay
  (`tre.cc:952`). `wake()` asserts `data`, so PE 0 cannot be woken although
  `spec.json` lets the manager sleep. An access that waited in `blockedPkt` is
  sent without its virtual PC (`pc` is a local of `tick()`). `halt()` comes when
  EOF is read, not when the last response has come (`tre.hh:257` says "after
  finishing all trace entries"). `noRequestEvent` is never descheduled, so a long
  stall or a TRE that has halted early trips it. A TRE without a trace returns
  from its constructor before its events exist (`tre.cc:149`); its destructor
  deletes them all the same and counts it in `TESTER_ALLOCATOR`.
- Device. A read at the push port is let through (the check is commented out at
  `work_queue.cc:191`) and pops, or panics on an empty queue.
- Emulation library. `__teardown` leaves `sleep_cntr`, so wakes nobody used up
  outlive it; threads that share a core id and both sleep would share one
  counter; `get_id()` keeps its mutex when it exits.
- Tracer. Stalls still counted when the log is closed are dropped, and the count
  of a block in which the log is opened is taken with the instructions before the
  opening; opening a log again truncates the trace; `__register_entry`
  throws with `log_mutex` held when a log was opened under another number than
  the core id.
- m5threads. The writer field of a reader-writer lock is an `int`
  (`pthread_defs.h:104`) and a thread id is a pointer: an id that does not
  fit is never recognised at unlock (`Fits`, and the mutant `StoredNarrow`).
  `pthread_once` may return before the init routine has finished. The barrier
  needs as many threads as its count, no more. `pthread_exit` of the main thread
  ends the process. `pthread_exit` relies on stores in order ("TODO mem barrier
  here"): on another machine a joiner may return what the word was before.

## Proofs

All theorems hold for every value of the constants that satisfies the named
`ASSUME`s of the modules, which TLC evaluates in the runs.

**Replay engines**: any number of TREs, any set of traces, any limits, any
memory, lossy or faulty unless stated.

- `TREProofs.TypeCorrect`. `TypeOK` is inductive as it stands, because the sets
  in it are as wide as the handlers can make them: `waiting` and `arrived` are
  sequences, as the vectors of the code, in which a TRE that is woken while it
  waits can be twice. One lemma for the primitives (`PerformType`), one for
  `tick()` (`TickType`), one for the port (`PortType`). The module begins with
  what the proofs need about `Without` (the erase of a vector) and least
  positions.
- Whoever is woken when, `TREProofs`: `UnlockIsNotLost`, `BarrierIsNeverFull`,
  `QueueWaitsHold`, `TimeoutIsArmed`, and the action property
  `BarrierReleasesTogether`. The invariants are inductive together with
  `TypeOK`, which is all the action property needs; `StepKinds` and `PerformFrame` say which
  handlers touch which object.
- Whoever is woken when, `TRETraffic`: `PathIsKept`, and from it `InFlightAgree`
  (if the memory loses no request) and the action property `SendsWhatIsTraced`.
  A stall ends when `blockedPkt.deps` is empty, so `StallWaits` needs to know
  that no dependency still in flight is missing there. `PathKept`
  says so, and what makes it inductive: `blockedPkt` is the last entry read, and
  only the youngest access in flight may be a blocking one, so the one address
  that `blkingAccAddrInFlight()` returns is all there is. With a lossy memory `InFlightAgrees` is false, as
  a lost request stays in `outstandingAddrs`. `WakesAreSurvived` collects these.
- While `WAKE` starts only TREs that sleep (`WakesSleepersOnly`),
  `TRESafety`: `AlwaysPlaced` and from it `EventAssertsNeverFail`, `OneThingRuns`,
  `NobodyIsForgotten` and `MutexesExclude`, which are false without the condition
  (`find_wake_waiter`). None of
  these is inductive: whether a TRE is started twice depends on where it waits,
  and that on what it read last. `Placed` (`TREInd`) says exactly that: the
  last entry a TRE has read tells its place, which is one of: an event due, a vector of a mutex
  or barrier, an end of a queue, a retry, blocked, asleep, halted; and who is
  between a lock and an unlock in its trace owns the mutex. `TREPlaced` proves
  that the primitives, the ticks and the port keep it. Traces without `WAKE`
  meet the condition, which gives `OnlyWakesMayHarm` for all of them, misuse of
  the other primitives included.
- Under the same condition, `TRESafety`: `LimitIsKept`, `NobodyBlocksForNothing`,
  `AccessesGoInOrder`, on the lemmas of `TRETraffic` about the handlers.
  `LimitKept` adds to `Placed` and `PathKept` that a TRE
  blocked at the limit either has a dependency in flight or ticks only after a
  response; otherwise `TickUnblocked`, which does not look at the limit again,
  could exceed it. `DoneIsReplayed` rests on `IdleCounted`: `numIdleTREs` is the
  number of TREs that have read EOF, and they stay halted.
- Under the same condition, `TRESafety`: `QueuesAreReplayed`, on the steps in
  `TRETraffic`. An entry counts as
  performed when the position is past it and the TRE is not `Pending`, that is
  neither waiting at a queue nor started by the other end nor due to run the
  event; a step moves at most one TRE past one `PUSH` or `POP`, exactly
  when it changes the length of that queue (`QueueStep`, `QueuesMove`), and a
  TRE that is rewound only passes locks and barriers again. `Conserved` is
  inductive with `Placed` and `QueueWaits`. A TRE that has halted has performed
  all it lists, one that waits has not performed its last entry: with `Conserved`
  and traces that match, both together are impossible (`NobodyStranded`). That the `PUSH`es and
  `POP`s in the traces of a finished emulation match is `TracesCanBeReplayed`.

**Work queue device** (`WorkQueueProofs`): `ChecksAreEnough`,
`RefusedAreRetried`, `ResponsesAlwaysMove`, `DrainEnds`, for any size and any number of
requests. The invariant `WQInv` adds to them that the flags agree with
the queue and that the device is busy exactly until its release. `ImplementsFIFO`
maps every step to a step of `WorkFIFO` or a stutter.

**Emulation library** (`EmuProofs`): `NotificationsArrive`, `WakesArrive` and the
refinement `ImplementsPrims`, for any number of threads, PEs and queues and any
depth. The invariant `EmuInv` adds that a PE that sleeps has one sleeper.

**Tracer** (`TracerProofs`), for any set `Apps` of applications, a finite
set of PEs, and any number of instructions and calls. `EmulationUsesLibrary` says that the
composition takes only steps of `EmuLib`, so the theorems above hold in it.
- `TracesAreFaithful`. The property compares a trace with a program by counting
  (entries of equal rank, cycles), so that a step changes each count by what it
  appends (`OrderedLog`, `OrderedProg`, `OrderedBoth`, `TicksAppend`, `HeldAppend`)
  and no induction over sequences is needed. `TraceInv` says of each thread whose log
  is open that the cycles written plus `stall_counts` plus what is pending in its block and its
  callers' are the instructions of its program (`Sound`; a call and a return only
  move the count, `PendingMoves`); and that a thread writes to the file of its own PE only
  (`OwnFile`, `AloneInPE`, from the distinct ids).
- `TracesCanBeReplayed`. The traces are written before the calls and say
  nothing of when they return. `ReplayInv` ties them to the state of the
  library: the pushes logged that have returned are the pops that have returned plus
  what is in the queue, and the wakes the sleeps plus the wakes not used up (the
  tokens of `EmuPrims`). The refinement `ImplementsPrims` then does the work:
  every step of the library is an atomic primitive or none, and each moves
  both sides by one (`PerformBalanced`). That an opened log is truncated is harmless, because
  only a thread that has called no primitive opens one; after `__teardown` the
  queues are empty and `ReplayInv` keeps the conclusion itself.

**m5threads** (`M5Proofs`), for any finite set of threads: `LocksCorrect`,
`LocksAreLeftFree` (ids fit), `BarrierCorrect`, `CondCorrect` (`Phased`),
`OnceIsOnce`, `JoinCorrect`. The invariants count: `readers` is
the number of threads reading; the
barrier is always in some round r in which the counter is the number of arrivals,
counted up or down; `thread_count` is the number of waiters not yet out, and
loaded values are current. Exclusion needs no assumption on the ids: an id that does
not fit leaves the lock taken, which `FreeWhenUnheld` excludes. `pthread_once`
writes its word under its mutex: the word is 1 exactly when one thread has run the
routine or is running it.

**Only model-checked.** Liveness under fairness is beyond the prover:
`AllHalt`, `HaltsUnlessFailed`, `NeverHangs`, `RefusedAreServed`, `CallsReturn`,
`SpinsEnd`. `FailuresStop` is checked in the run `lossy` only.
`WakesSleepersOnly` is not true of all
traces: it is the condition of the theorems, checked for the traces of the
run `sync`, the example application among them. Every other property of a run is proved.

## Not modelled

- Construction and destruction of TREs, `initQueues()`: straight-line code before the first and
  after the last event; its result is `Init`.
- Times: latencies decide which of the modelled orders happens; the watchdogs'
  distance is the only one the models use.
- Statistics, debug output, the text of traces and the parsing of addresses.
- m5threads: thread-specific data (`pthread_key_*`) and TLS blocks, which only
  their own thread reads; attributes; profiling hooks. Detached threads, which its README
  lists, end in an assertion.
- Tracer: the dependence analysis and the translation of addresses, which
  depend on LLVM's data structures; the templates that print C++.
- The emulation library's mutexes and barriers: calls of the host's pthreads.
- The rest of gem5, and the scripts: upstream code, and text substitution.
