------------------------------- MODULE EmuLib -------------------------------
(***************************************************************************)
(* The emulation library (emu/src/util.cpp, emu/inc/util.h) an application *)
(* is linked with when it is traced: core ids, work queues between pairs   *)
(* of PEs, and sleep/wake, on std::mutex and std::condition_variable.      *)
(*                                                                         *)
(* Grain.  Everything between taking a mutex and releasing it, be it at    *)
(* the end of the function or in condition_variable::wait, is one step: no *)
(* one else reads or writes what it guards.  notify_one makes one thread   *)
(* of the condition variable want its mutex again; the standard lets wait  *)
(* return by itself too (WakeUp).  Mutexes and barriers of the application *)
(* go straight to pthreads and are not modelled; statistics calls do       *)
(* nothing here.                                                           *)
(***************************************************************************)
EXTENDS Integers, Sequences, FiniteSets

CONSTANTS
    Threads,        \* the application's threads (std::thread::id)
    PEs,            \* core ids 0 .. num_pe - 1
    QueuePairs,     \* the <<source, sink>> pairs of the generated __init code
    Depth,          \* wq_depth
    Data,           \* what is pushed
    MaxOps,         \* bound: calls per thread
    MaxInits,       \* bound: calls of __init
    Idle, NoCore, NoData

ASSUME EmuAssumption ==
    /\ IsFiniteSet(Threads) /\ IsFiniteSet(PEs)
    /\ QueuePairs \subseteq PEs \X PEs
    /\ Depth \in Nat \ {0}
    /\ NoCore \notin PEs /\ NoData \notin Data

VARIABLES
    up,             \* between __init and __teardown
    inits,          \* calls of __init so far
    core,           \* tid_to_core_id_map
    queue,          \* queues: the content of each q_intfc_t
    sleep_cntr,
    op,             \* the call each thread is in, or Idle
    at,             \* "out"; "lock": wants the mutex for the first time;
                    \* "wait": in the condition variable; "relock": woken up
    ret,            \* what the last pop of each thread returned
    ops,            \* calls so far
    failed          \* exit(1), or an exception nobody catches

emuVars == <<up, inits, core, queue, sleep_cntr, op, at, ret, ops, failed>>

\* Sleepers in the loop of __sleep, the counter already raised.
Sleepers(p) == {t \in Threads : /\ op[t] # Idle /\ op[t].name = "sleep" /\ op[t].pe = p
                                /\ at[t] \in {"wait", "relock"}}

\* What the calls show of the library: the wakes not used up are what the
\* counter lacks to the number of sleepers.
Prims == INSTANCE EmuPrims WITH
            ch <- queue, pending <- op,
            tokens <- [p \in PEs |-> Cardinality(Sleepers(p)) - sleep_cntr[p]]

EmuCalls == Prims!Calls

ASSUME IdleAssumption == Idle \notin EmuCalls

NoQueues == [q \in QueuePairs |-> <<>>]

EmuInit ==
    /\ up = FALSE /\ inits = 0 /\ failed = FALSE
    /\ core = [t \in Threads |-> NoCore]
    /\ queue = NoQueues
    /\ sleep_cntr = [p \in PEs |-> 0]
    /\ op = [t \in Threads |-> Idle]
    /\ at = [t \in Threads |-> "out"]
    /\ ret = [t \in Threads |-> NoData]
    /\ ops = [t \in Threads |-> 0]

-----------------------------------------------------------------------------
\* Before the threads start and after they are joined.
NoneInside == \A t \in Threads : at[t] = "out"

\* sleep_cntr grows by num_pe zeros, but at(pe_id) is still the old entry.
__init ==
    /\ ~up /\ ~failed /\ inits < MaxInits
    /\ up' = TRUE /\ inits' = inits + 1
    /\ UNCHANGED <<core, queue, sleep_cntr, op, at, ret, ops, failed>>

__teardown ==
    /\ up /\ ~failed /\ NoneInside
    /\ up' = FALSE
    /\ queue' = NoQueues
    /\ core' = [t \in Threads |-> NoCore]
    /\ UNCHANGED <<inits, sleep_cntr, op, at, ret, ops, failed>>

\* map::insert keeps the id a thread registered first.
__register_core_id(t, c) ==
    /\ up /\ ~failed /\ at[t] = "out" /\ core[t] = NoCore
    /\ core' = [core EXCEPT ![t] = c]
    /\ UNCHANGED <<up, inits, queue, sleep_cntr, op, at, ret, ops, failed>>

-----------------------------------------------------------------------------
\* What a call names: the queue is looked up by the caller's core id and the
\* other end, sleep by the caller's id, wake by its argument.
Named(t, c) ==
    CASE c.name = "push"  -> c.q[1] = core[t]
      [] c.name = "pop"   -> c.q[2] = core[t]
      [] c.name = "sleep" -> c.pe = core[t]
      [] c.name = "wake"  -> TRUE

\* The application (environment): ids are shared by threads that only push
\* and pop; a PE that sleeps is one thread.
MaySleep(t, c) ==
    c.name = "sleep" => \A u \in Threads \ {t} : core[u] # core[t]

Call(t, c) ==
    /\ up /\ ~failed /\ at[t] = "out" /\ ops[t] < MaxOps
    /\ Named(t, c) /\ MaySleep(t, c)
    /\ op' = [op EXCEPT ![t] = c]
    /\ at' = [at EXCEPT ![t] = "lock"]
    /\ ops' = [ops EXCEPT ![t] = @ + 1]
    /\ UNCHANGED <<up, inits, core, queue, sleep_cntr, ret, failed>>

\* get_id() of a thread that did not register, and queues.at() of a pair the
\* generated code does not have, exit(1).
CallFails(t) ==
    /\ up /\ ~failed /\ at[t] = "out" /\ ops[t] < MaxOps
    /\ \/ core[t] = NoCore
       \/ \E p \in PEs : {<<core[t], p>>, <<p, core[t]>>} \ QueuePairs # {}
    /\ failed' = TRUE
    /\ ops' = [ops EXCEPT ![t] = @ + 1]
    /\ UNCHANGED <<up, inits, core, queue, sleep_cntr, op, at, ret>>

-----------------------------------------------------------------------------
Wants(t, n) == op[t] # Idle /\ op[t].name = n /\ at[t] \in {"lock", "relock"} /\ ~failed

\* Threads in the condition variable of calls n on object x.
Waiting(n, x) ==
    {t \in Threads : /\ op[t] # Idle /\ op[t].name = n /\ at[t] = "wait"
                     /\ x = IF n = "sleep" THEN op[t].pe ELSE op[t].q}

Wait(t) ==
    /\ at' = [at EXCEPT ![t] = "wait"]
    /\ UNCHANGED <<queue, ret, op>>

\* The function returns; notify_one picks one thread of W, if there is one.
Return(t, W) ==
    /\ op' = [op EXCEPT ![t] = Idle]
    /\ IF W = {} THEN at' = [at EXCEPT ![t] = "out"]
                 ELSE \E u \in W : at' = [at EXCEPT ![t] = "out", ![u] = "relock"]

__push_mmap(t) ==
    /\ Wants(t, "push")
    /\ LET q == op[t].q IN
       IF Len(queue[q]) = Depth
       THEN Wait(t)
       ELSE /\ queue' = [queue EXCEPT ![q] = Append(@, op[t].data)]
            /\ Return(t, Waiting("pop", q))
            /\ UNCHANGED ret
    /\ UNCHANGED <<up, inits, core, sleep_cntr, ops, failed>>

\* The wait is an if and not a while: what was there may be gone.
PopOnce(t) ==
    /\ Wants(t, "pop")
    /\ LET q == op[t].q IN
       IF queue[q] = <<>> /\ at[t] = "lock"
       THEN Wait(t)
       ELSE /\ ret' = [ret EXCEPT ![t] = IF queue[q] = <<>> THEN NoData ELSE Head(queue[q])]
            /\ queue' = [queue EXCEPT ![q] = IF @ = <<>> THEN @ ELSE Tail(@)]
            /\ Return(t, Waiting("push", q))
    /\ UNCHANGED <<up, inits, core, sleep_cntr, ops, failed>>

\* The other condition variable is notified.
PopNotifiesPoppers(t) ==
    /\ Wants(t, "pop")
    /\ LET q == op[t].q IN
       IF queue[q] = <<>>
       THEN Wait(t)
       ELSE /\ ret' = [ret EXCEPT ![t] = Head(queue[q])]
            /\ queue' = [queue EXCEPT ![q] = Tail(@)]
            /\ Return(t, Waiting("pop", q))
    /\ UNCHANGED <<up, inits, core, sleep_cntr, ops, failed>>

__pop_mmap(t) ==
    /\ Wants(t, "pop")
    /\ LET q == op[t].q IN
       IF queue[q] = <<>>
       THEN Wait(t)
       ELSE /\ ret' = [ret EXCEPT ![t] = Head(queue[q])]
            /\ queue' = [queue EXCEPT ![q] = Tail(@)]
            /\ Return(t, Waiting("push", q))
    /\ UNCHANGED <<up, inits, core, sleep_cntr, ops, failed>>

\* The counter goes up in the loop.
SleepCountsAgain(t) ==
    /\ Wants(t, "sleep")
    /\ LET p == op[t].pe
           n == sleep_cntr[p] + 1 IN
       /\ sleep_cntr' = [sleep_cntr EXCEPT ![p] = n]
       /\ IF n > 0 THEN Wait(t)
                   ELSE Return(t, {}) /\ UNCHANGED <<queue, ret>>
    /\ UNCHANGED <<up, inits, core, ops, failed>>

\* The wait is an if and not a while.
SleepOnce(t) ==
    /\ Wants(t, "sleep")
    /\ LET p == op[t].pe
           n == sleep_cntr[p] + (IF at[t] = "lock" THEN 1 ELSE 0) IN
       /\ sleep_cntr' = [sleep_cntr EXCEPT ![p] = n]
       /\ IF n > 0 /\ at[t] = "lock" THEN Wait(t)
                   ELSE Return(t, {}) /\ UNCHANGED <<queue, ret>>
    /\ UNCHANGED <<up, inits, core, ops, failed>>

\* The counter goes up once, before the loop.
__sleep(t) ==
    /\ Wants(t, "sleep")
    /\ LET p == op[t].pe
           n == sleep_cntr[p] + (IF at[t] = "lock" THEN 1 ELSE 0) IN
       /\ sleep_cntr' = [sleep_cntr EXCEPT ![p] = n]
       /\ IF n > 0 THEN Wait(t)
                   ELSE Return(t, {}) /\ UNCHANGED <<queue, ret>>
    /\ UNCHANGED <<up, inits, core, ops, failed>>

\* Nobody is notified.
WakeSilent(t) ==
    /\ Wants(t, "wake")
    /\ sleep_cntr' = [sleep_cntr EXCEPT ![op[t].pe] = @ - 1]
    /\ Return(t, {})
    /\ UNCHANGED <<up, inits, core, queue, ret, ops, failed>>

__wake(t) ==
    /\ Wants(t, "wake")
    /\ sleep_cntr' = [sleep_cntr EXCEPT ![op[t].pe] = @ - 1]
    /\ Return(t, Waiting("sleep", op[t].pe))
    /\ UNCHANGED <<up, inits, core, queue, ret, ops, failed>>

\* condition_variable::wait may return without a notification.
WakeUp(t) ==
    /\ at[t] = "wait" /\ ~failed
    /\ at' = [at EXCEPT ![t] = "relock"]
    /\ UNCHANGED <<up, inits, core, queue, sleep_cntr, op, ret, ops, failed>>

Enter(t) == __push_mmap(t) \/ __pop_mmap(t) \/ __sleep(t) \/ __wake(t)

Setup == __init \/ __teardown \/ \E t \in Threads, c \in PEs : __register_core_id(t, c)

EmuNext ==
    \/ Setup
    \/ \E t \in Threads : \/ \E c \in EmuCalls : Call(t, c)
                          \/ CallFails(t) \/ Enter(t) \/ WakeUp(t)

EmuSpec == EmuInit /\ [][EmuNext]_emuVars

-----------------------------------------------------------------------------
\* The types of the library's state.
EmuTypeOK ==
    /\ up \in BOOLEAN /\ failed \in BOOLEAN /\ inits \in Nat
    /\ core \in [Threads -> PEs \cup {NoCore}]
    /\ queue \in [QueuePairs -> Seq(Data)]
    /\ \A q \in QueuePairs : Len(queue[q]) <= Depth
    /\ sleep_cntr \in [PEs -> Int]
    /\ op \in [Threads -> EmuCalls \cup {Idle}]
    /\ at \in [Threads -> {"out", "lock", "wait", "relock"}]
    /\ \A t \in Threads : at[t] = "out" <=> op[t] = Idle
    /\ ret \in [Threads -> Data \cup {NoData}]
    /\ ops \in [Threads -> Nat]

\* Threads on their way back to the mutex from a condition variable.
Woken(n, q) == {t \in Threads : op[t] # Idle /\ op[t].name = n /\ at[t] = "relock" /\ op[t].q = q}

\* No notification is lost: as long as a thread waits in __pop_mmap there are
\* as many threads on their way to the queue as it holds items, and as long as
\* one waits in __push_mmap as many as it has free places; a newcomer that
\* takes what another was notified of does not leave the others behind.
NoLostNotify ==
    \A q \in QueuePairs :
        /\ Waiting("pop", q) # {} => Len(queue[q]) <= Cardinality(Woken("pop", q))
        /\ Waiting("push", q) # {} => Depth - Len(queue[q]) <= Cardinality(Woken("push", q))

\* No wake is lost: a thread that stays in __sleep has not been woken, whether
\* the wake came before its sleep, during it, or after a return of wait that
\* nobody asked for.
AsleepIsUnwoken ==
    \A p \in PEs : /\ Waiting("sleep", p) # {} => sleep_cntr[p] > 0
                   /\ sleep_cntr[p] <= Cardinality(Sleepers(p))

\* The queues and the sleep counters behave as those of EmuPrims: in order,
\* bounded, each item popped once, each wake ending one sleep.
IsPrims == Prims!PSpec
=============================================================================
