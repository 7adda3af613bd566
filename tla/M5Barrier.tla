----------------------------- MODULE M5Barrier -----------------------------
(***************************************************************************)
(* The counter barrier of m5threads (pthread.c).  Instead of a generation  *)
(* number it counts up in one round and down in the next.  NumThreads is   *)
(* the count given to pthread_barrier_init; every thread of Threads calls  *)
(* pthread_barrier_wait, MaxRounds times.                                  *)
(***************************************************************************)
EXTENDS M5

CONSTANTS NumThreads, MaxRounds

ASSUME BarrierAssumption == /\ NumThreads = Cardinality(Threads)
                            /\ NumThreads > 0
                            /\ MaxRounds \in Nat

VARIABLES
    counter,            \* PTHREAD_BARRIER_T_COUNTER
    direction,          \* PTHREAD_BARRIER_T_DIRECTION: 0 up, 1 down
    initial_direction,  \* the local of each thread in pthread_barrier_wait
    bpc,                \* "out", "arrive" or "spin"
    calls,              \* history: calls of pthread_barrier_wait per thread
    passes              \* history: returns from it

barrierVars == <<counter, direction, initial_direction, bpc, calls, passes>>

BarrierInit ==
    /\ counter = 0
    /\ direction = 0
    /\ initial_direction = [t \in Threads |-> 0]
    /\ bpc = [t \in Threads |-> "out"]
    /\ calls = [t \in Threads |-> 0]
    /\ passes = [t \in Threads |-> 0]

\* The call, and the read of the direction before the lock is taken.
BarrierCall(t) ==
    /\ bpc[t] = "out" /\ calls[t] < MaxRounds
    /\ initial_direction' = [initial_direction EXCEPT ![t] = direction]
    /\ calls' = [calls EXCEPT ![t] = @ + 1]
    /\ bpc' = [bpc EXCEPT ![t] = "arrive"]
    /\ UNCHANGED <<counter, direction, passes>>

\* Turns when one thread is still missing.
BarrierArriveEarly(t) ==
    /\ bpc[t] = "arrive"
    /\ IF initial_direction[t] = 0
       THEN /\ counter' = counter + 1
            /\ direction' = IF counter' >= NumThreads - 1 THEN 1 ELSE direction
       ELSE /\ counter' = counter - 1
            /\ direction' = IF counter' = 0 THEN 0 ELSE direction
    /\ bpc' = [bpc EXCEPT ![t] = "spin"]
    /\ UNCHANGED <<initial_direction, calls, passes>>

\* The section under the spin lock.
BarrierArrive(t) ==
    /\ bpc[t] = "arrive"
    /\ IF initial_direction[t] = 0
       THEN /\ counter' = counter + 1
            /\ direction' = IF counter' = NumThreads THEN 1 ELSE direction
       ELSE /\ counter' = counter - 1
            /\ direction' = IF counter' = 0 THEN 0 ELSE direction
    /\ bpc' = [bpc EXCEPT ![t] = "spin"]
    /\ UNCHANGED <<initial_direction, calls, passes>>

\* Waits for the direction to be down, whatever it was on entry.
BarrierReturnDown(t) ==
    /\ bpc[t] = "spin" /\ direction = 1
    /\ bpc' = [bpc EXCEPT ![t] = "out"]
    /\ passes' = [passes EXCEPT ![t] = @ + 1]
    /\ UNCHANGED <<counter, direction, initial_direction, calls>>

\* The spin reads a direction other than the one the thread started with.
BarrierReturn(t) ==
    /\ bpc[t] = "spin" /\ direction # initial_direction[t]
    /\ bpc' = [bpc EXCEPT ![t] = "out"]
    /\ passes' = [passes EXCEPT ![t] = @ + 1]
    /\ UNCHANGED <<counter, direction, initial_direction, calls>>

BarrierStep(t) == BarrierCall(t) \/ BarrierArrive(t) \/ BarrierReturn(t)

BarrierNext == \E t \in Threads : BarrierStep(t)

BarrierSpec == BarrierInit /\ [][BarrierNext]_barrierVars

-----------------------------------------------------------------------------
\* The places a thread can be at in pthread_barrier_wait, and the types.
BarrierTypeOK ==
    /\ counter \in Int
    /\ direction \in {0, 1}
    /\ initial_direction \in [Threads -> {0, 1}]
    /\ bpc \in [Threads -> {"out", "arrive", "spin"}]
    /\ calls \in [Threads -> Nat]
    /\ passes \in [Threads -> Nat]

\* No thread returns from its n-th wait before every thread has called its
\* n-th: also when a fast thread starts the next round, counting the other
\* way, while slow ones still spin in this one.
BarrierRounds == \A t, u \in Threads : passes[t] <= calls[u]

\* Every round completes: no thread is left spinning because the direction
\* turned twice before it looked.
BarrierEnds == <>(\A t \in Threads : passes[t] = MaxRounds)
=============================================================================
