----------------------------- MODULE TRESafety -----------------------------
(***************************************************************************)
(* What holds of the replay engines while wake() starts only TREs that     *)
(* sleep: that the steps keep Placed is in TREPlaced, the memory path and  *)
(* the queues are in TRETraffic, the conclusions RunsOnce, NeverForgotten, *)
(* MutualExclusion, EventAssertsHold, BlockedHasCause, IssueInOrder,       *)
(* DoneMeansReplayed and QueuesReplayed here.                              *)
(***************************************************************************)
EXTENDS TRETraffic, TREPlaced

----------------------------------------------------------------------------
(* What Placed says of the TREs. *)

(* A TRE in its place has one thing to run it. *)
LEMMA PlacedRunsOnce == Placed => RunsOnce
<1> USE ZenonT(60)
<1> SUFFICES ASSUME Placed, sim = "run", NEW t \in TREs, PlacedTRE(t)
    PROVE  /\ \A e, f \in Events :
                <<t, e>> \in sched /\ <<t, f>> \in sched => e = f
           /\ Waits(t) => NoEvent(t) /\ t \notin blocked
           /\ \A a, b \in Addr :
                /\ In(t, waiting[a]) /\ In(t, waiting[b]) => a = b
                /\ In(t, arrived[a]) /\ In(t, arrived[b]) => a = b
                /\ ~(In(t, waiting[a]) /\ In(t, arrived[b]))
           /\ (AtMutex(t) \/ AtBarrier(t)) => ~AtQueue(t) /\ retryPkt[t] = NULL
  BY DEF Placed, RunsOnce
<1>1. OneEvent(t) /\ MutexWait(t) /\ BarrierWait(t)
  BY DEF PlacedTRE
<1>2. AtMutex(t) => /\ NoEvent(t) /\ JustRead(t) /\ LastRead(t).op = "MTXLOCK"
  BY <1>1 DEF MutexWait, AtMutex
<1>3. AtBarrier(t) => /\ NoEvent(t) /\ JustRead(t) /\ LastRead(t).op = "BARWAIT"
  BY <1>1 DEF BarrierWait, AtBarrier
<1>4. AtQueue(t) => /\ NoEvent(t) /\ JustRead(t) /\ LastRead(t).op \in {"PUSH", "POP"}
  BY DEF PlacedTRE, QueueWait, AtQueue
<1>5. retryPkt[t] # NULL => NoEvent(t) /\ t \notin blocked
  BY DEF PlacedTRE, RetryWait
<1>6. (AtMutex(t) \/ AtBarrier(t)) => ~AtQueue(t) /\ retryPkt[t] = NULL
  BY <1>2, <1>3, <1>4, Exclusive
<1>7. AtMutex(t) \/ AtBarrier(t) \/ AtQueue(t) => t \notin blocked
  BY <1>2, <1>3, <1>4, Exclusive
<1>8. \A a, b \in Addr :
        /\ In(t, waiting[a]) /\ In(t, waiting[b]) => a = b
        /\ In(t, arrived[a]) /\ In(t, arrived[b]) => a = b
        /\ ~(In(t, waiting[a]) /\ In(t, arrived[b]))
  BY <1>1 DEF MutexWait, BarrierWait
<1>9. QED
  BY <1>1, <1>2, <1>3, <1>4, <1>5, <1>6, <1>7, <1>8 DEF OneEvent, Waits

(* Nor is it forgotten. *)
LEMMA PlacedNotForgotten == TypeOK /\ Placed => NeverForgotten
<1> SUFFICES ASSUME TypeOK, sim = "run", NEW t \in TREs, PlacedTRE(t), NoEvent(t)
    PROVE  \/ Waits(t)
           \/ t \in blocked /\ outs[t] # << >>
           \/ HasRead(t, {"SLEEP", "EOF"})
  BY ZenonT(60) DEF Placed, NeverForgotten
<1>1. JustRead(t) /\ LastRead(t).op \in {"SLEEP", "EOF"} => HasRead(t, {"SLEEP", "EOF"})
  BY DEF JustRead, HasRead, TypeOK, ReplayOK
<1>2. QED
  BY <1>1, ZenonT(60) DEF PlacedTRE, HasCause

(* And it owns the mutexes of its critical sections. *)
LEMMA PlacedExcludes == Placed => MutualExclusion
BY ZenonT(60) DEF Placed, PlacedTRE, CriticalOwns, MutualExclusion

----------------------------------------------------------------------------
(* While wake() starts only TREs that sleep. *)

(* While wake() starts only TREs that sleep, every TRE is at the place in  *)
(* its trace that its event, its wait or its block belongs to, and the     *)
(* four assertions of EventAssertsHold do not fail.                        *)
THEOREM AlwaysPlaced == Spec /\ WakesSleepersOnly => [](Placed /\ EventAssertsHold)
<1>1. TypeOK /\ WatchdogArmed /\ Placed /\ EventAssertsHold /\ [Next]_vars
      /\ [WakesSleeper]_vars => (Placed /\ EventAssertsHold)'
  BY NextPlaced, ZenonT(60)
<1>2. QED
  BY <1>1, InitPlaced, TypeCorrect, TimeoutIsArmed, PTL
     DEF Spec, WakesSleepersOnly

(* Under the same condition schedule() never finds an event scheduled, the *)
(* timeout that completeRequest() shifts is scheduled, no tick comes while *)
(* a packet waits for a retry, and blockedPkt is clean when an access      *)
(* blocks, in any system of TREs, traces and memory.                       *)
THEOREM EventAssertsNeverFail == Spec /\ WakesSleepersOnly => []EventAssertsHold
BY AlwaysPlaced, PTL

(* Under the same condition a TRE has at most one event, none while it     *)
(* waits, and waits in one place.                                          *)
THEOREM OneThingRuns == Spec /\ WakesSleepersOnly => []RunsOnce
BY PlacedRunsOnce, AlwaysPlaced, PTL

(* Under the same condition no path through tick() or a handler forgets to *)
(* schedule what runs the TRE next.                                        *)
THEOREM NobodyIsForgotten == Spec /\ WakesSleepersOnly => []NeverForgotten
BY PlacedNotForgotten, TypeCorrect, AlwaysPlaced, PTL

(* Under the same condition two TREs are never inside critical sections of *)
(* one mutex, through lockMutex(), the hand-over in unlockMutex() to a     *)
(* random waiter, latencies, blocked accesses and refused packets.         *)
THEOREM MutexesExclude == Spec /\ WakesSleepersOnly => []MutualExclusion
BY PlacedExcludes, AlwaysPlaced, PTL
----------------------------------------------------------------------------
(* Traces without WAKE. *)

(* No step changes the traces. *)
LEMMA TraceIsKept == [Next]_vars => trace' = trace
<1> USE Zenon
<1> SUFFICES ASSUME [Next]_vars PROVE trace' = trace
  BY SMT
<1>1. CASE UNCHANGED vars
  BY <1>1 DEF vars
<1>2. ASSUME NEW t \in TREs, TickEvent(t) PROVE trace' = trace
  <2>1. CASE TickPerform(t)
    BY <2>1, PerformMoves DEF TickPerform, Reads, Ticks
  <2>2. CASE TickUnblocked(t) \/ TickAccess(t) \/ TickStall(t)
    BY <2>2 DEF TickUnblocked, TickAccess, TickStall
  <2>3. QED
    BY <1>2, <2>1, <2>2 DEF TickEvent, TickInRetry, TickStillBlocked, TickDefer,
                                   halt, TickInvalid, Abort
<1>3. ASSUME NEW t \in TREs, NEW op \in Prims, PrimEvent(t, op) PROVE trace' = trace
  BY <1>3, PerformMoves DEF PrimEvent
<1>4. ASSUME NEW t \in TREs, Port(t) \/ Watchdog(t) PROVE trace' = trace
  BY <1>4 DEF Port, Respond, Watchdog, completeRequest, accessFailed,
              loseRequest, recvRetry, noRequest, noResponse, Abort
<1>5. QED
  BY <1>1, <1>2, <1>3, <1>4 DEF Next, Run, Stopped

(* A TRE in its place runs a WAKE only if one is in its trace. *)
LEMMA NobodyWakes == NoWakes /\ Placed => WakesSleeper
<1> USE Zenon
<1> SUFFICES ASSUME NoWakes, Placed, NEW t \in TREs, NEW ev \in {"tick", "WAKE"},
                    WakeStep(t, ev)
    PROVE  FALSE
  BY DEF WakesSleeper
<1>1. CASE ev = "tick"
  BY <1>1 DEF WakeStep, Reads, Current, NoWakes
<1>2. CASE ev = "WAKE"
  <2>1. <<t, "WAKE">> \in sched /\ PlacedTRE(t) /\ "WAKE" \in Prims
    BY <1>2 DEF WakeStep, Placed, Prims
  <2>2. JustRead(t) /\ LastRead(t).op = "WAKE"
    BY <2>1 DEF PlacedTRE, EventIsRead
  <2>3. QED
    BY <2>2 DEF JustRead, LastRead, NoWakes
<1>3. QED
  BY <1>1, <1>2

(* If no trace has a WAKE, then no misuse of the other primitives makes    *)
(* the engines lose a TRE, run it twice, fail one of the four assertions   *)
(* of EventAssertsHold, or let two into a critical section.                *)
THEOREM OnlyWakesMayHarm == Spec => []SafeUnlessWoken
<1> USE Zenon
<1> DEFINE W == NoWakes => Placed /\ EventAssertsHold
<1>1. Init /\ TypeOK => W
  BY InitPlaced
<1>2. TypeOK /\ WatchdogArmed /\ W /\ [Next]_vars => W'
  <2> SUFFICES ASSUME TypeOK, WatchdogArmed, W, [Next]_vars, NoWakes'
      PROVE  Placed' /\ EventAssertsHold'
    OBVIOUS
  <2>1. NoWakes
    BY TraceIsKept DEF NoWakes
  <2>2. Placed /\ EventAssertsHold /\ WakesSleeper
    BY <2>1, NobodyWakes
  <2>3. QED
    BY <2>2, NextPlaced
<1>3. TypeOK /\ W => SafeUnlessWoken
  BY PlacedRunsOnce, PlacedNotForgotten, PlacedExcludes DEF SafeUnlessWoken
<1> HIDE DEF W
<1>4. QED
  BY <1>1, <1>2, <1>3, TypeCorrect, TimeoutIsArmed, PTL DEF Spec

----------------------------------------------------------------------------
(* Who is started, while wake() starts only TREs that sleep. *)

(* What a step schedules for a TRE: nothing, or the TRE is not blocked and *)
(* has not halted, or it is blocked and ticks, or gets a response.         *)
Undisturbed(u) ==
  \/ SameEvents(u)
  \/ u \notin blocked /\ (NoEvent(u) => ~HasRead(u, {"EOF"}))
  \/ TickStillBlocked(u) \/ TickUnblocked(u)
  \/ u \in blocked /\ \E k \in DOMAIN mem[u] : completeRequest(u, k)

(* A TRE that waits for a primitive is neither blocked nor halted. *)
LEMMA WaiterIsFree ==
  ASSUME NEW u \in TREs, PlacedTRE(u),
         AtMutex(u) \/ AtBarrier(u) \/ AtQueue(u) \/ Asleep(u)
  PROVE  u \notin blocked /\ ~HasRead(u, {"EOF"})
<1> USE Zenon
<1>1. CASE Asleep(u)
  BY <1>1 DEF Asleep, HasRead
<1>2. CASE AtMutex(u) \/ AtBarrier(u) \/ AtQueue(u)
  <2>1. JustRead(u) /\ LastRead(u).op \in {"MTXLOCK", "BARWAIT", "PUSH", "POP"}
    BY <1>2 DEF PlacedTRE, MutexWait, BarrierWait, QueueWait,
                       AtMutex, AtBarrier, AtQueue
  <2>2. QED
    BY <2>1, Exclusive DEF HasRead
<1>3. QED
  BY <1>1, <1>2

(* The events a handler schedules belong to TREs that wait for it. *)
Wakens(es) ==
  \A u \in TREs, f \in Events : <<u, f>> \in es =>
    AtMutex(u) \/ AtBarrier(u) \/ AtQueue(u) \/ Asleep(u)

LEMMA PerformStarts ==
  ASSUME TypeOK, sim = "run", Placed, NEW t \in TREs, NEW ev, NEW op,
         Performs(t, ev, op), Perform(t, ev, op),
         ev = "tick" => Current(t).cyc = 0, WakesSleeper
  PROVE  \/ sched' = sched \/ Rest(t, ev)
         \/ \E es : Resume(t, ev, es) /\ Wakens(es)
<1> USE Zenon
<1>1. ev = "tick" => pos[t] \in DOMAIN trace[t]
  BY DEF Performs, Reads, Prims, Mutexes, Barriers, Stats
<1>2. Wakens({})
  BY DEF Wakens
<1>3. CASE op = "MTXINIT" \/ op = "BARINIT" \/ op = "SLEEP" \/ op \in Stats
  BY <1>2, <1>3 DEF Perform, Stats, initMutex, initBarrier, sleep, stats, Abort
<1>4. CASE op = "MTXLOCK"
  BY <1>2, <1>4 DEF Perform, Stats, lockMutex, TryAgain, Abort
<1>5. CASE op = "MTXUNLOCK"
  <2> DEFINE a == Operand(t, ev)
  <2>1. a \in Addr
    BY <1>1, Operands DEF TypeOK
  <2>2. ASSUME NEW k \in DOMAIN waiting[a]
        PROVE  Wakens({<<waiting[a][k], "tick">>})
    <3>1. AtMutex(waiting[a][k])
      BY <2>1, <2>2 DEF AtMutex, In
    <3>2. QED
      BY <3>1, SMTT(20) DEF Wakens
  <2>3. unlockMutex(t, ev)
    BY <1>5 DEF Perform, Stats
  <2>4. QED
    BY <1>2, <2>2, <2>3 DEF unlockMutex, Abort
<1>6. CASE op = "BARWAIT"
  <2> DEFINE a == Operand(t, ev)
  <2>1. a \in Addr
    BY <1>1, Operands DEF TypeOK
  <2>2. Wakens(Release(arrived[a]))
    <3>1. ASSUME NEW u \in TREs, NEW f \in Events, <<u, f>> \in Release(arrived[a])
          PROVE  In(u, arrived[a])
      BY <3>1, SMTT(20) DEF Release, Range, In
    <3>2. QED
      BY <2>1, <3>1 DEF Wakens, AtBarrier
  <2>3. waitAtBarrier(t, ev)
    BY <1>6 DEF Perform, Stats
  <2>4. QED
    BY <1>2, <2>2, <2>3 DEF waitAtBarrier, TryAgain, Abort
<1>7. CASE op = "PUSH" \/ op = "POP"
  <2>1. ASSUME NEW q \in Queues, NEW o
        PROVE  Wakens(Start(toPop[q], o)) /\ Wakens(Start(toPush[q], o))
    BY <2>1, SMTT(20) DEF Wakens, Start, AtQueue
  <2>2. push(t, ev) \/ pop(t, ev)
    BY <1>7 DEF Perform, Stats
  <2>3. QED
    BY <2>1, <2>2 DEF push, pop, Abort
<1>8. CASE op = "WAKE"
  <2>1. wake(t, ev) /\ ev \in {"tick", "WAKE"}
    BY <1>8 DEF Perform, Performs, Stats
  <2>2. CASE /\ Number(t, ev) \in 1 .. Len(allTREs) - 1
             /\ <<Target(t, ev), "tick">> \notin sched \ {<<t, ev>>}
             /\ Resume(t, ev, {<<Target(t, ev), "tick">>})
    <3>1. WakeStep(t, ev)
      BY <1>8, <2>1, <2>2 DEF WakeStep, Performs
    <3>2. Asleep(Target(t, ev))
      BY <2>1, <3>1 DEF WakesSleeper
    <3>3. Wakens({<<Target(t, ev), "tick">>})
      BY <3>2, SMTT(20) DEF Wakens
    <3>4. QED
      BY <2>2, <3>3
  <2>3. QED
    BY <2>1, <2>2 DEF wake, Target, Abort
<1>9. QED
  BY <1>3, <1>4, <1>5, <1>6, <1>7, <1>8 DEF Performs, Prims, Mutexes, Barriers

(* A handler starts only TREs that wait. *)
LEMMA PerformUndisturbed ==
  ASSUME TypeOK, sim = "run", Placed, NEW t \in TREs, NEW ev, NEW op,
         Performs(t, ev, op), Perform(t, ev, op),
         ev = "tick" => Current(t).cyc = 0, WakesSleeper, NEW u \in TREs
  PROVE  Undisturbed(u)
<1> USE Zenon
<1>1. PlacedTRE(u) /\ PlacedTRE(t)
  BY DEF Placed
<1>2. CASE u = t
  <2>1. ev \in Events /\ <<t, ev>> \in sched /\ t \notin blocked
    BY <1>1, Performing, SMTT(20)
  <2>2. QED
    BY <1>2, <2>1 DEF Undisturbed, NoEvent
<1>3. CASE u # t /\ (sched' = sched \/ Rest(t, ev))
  BY <1>3 DEF Undisturbed, SameEvents, Rest, Reserve
<1>4. ASSUME NEW es, u # t, Resume(t, ev, es), Wakens(es)
      PROVE  Undisturbed(u)
  <2>1. CASE \A f \in Events : <<u, f>> \notin es
    BY <1>4, <2>1 DEF Undisturbed, SameEvents, Resume
  <2>2. CASE \E f \in Events : <<u, f>> \in es
    BY <1>1, <1>4, <2>2, WaiterIsFree DEF Undisturbed, Wakens
  <2>3. QED
    BY <2>1, <2>2
<1>5. QED
  BY <1>2, <1>3, <1>4, PerformStarts

(* Every step starts only TREs that wait, are blocked or run anyway. *)
LEMMA StepUndisturbed ==
  ASSUME TypeOK, sim = "run", Placed, [Next]_vars, [WakesSleeper]_vars,
         NEW u \in TREs
  PROVE  Undisturbed(u)
<1> USE Zenon
<1>1. PlacedTRE(u)
  BY DEF Placed
<1>2. CASE sched' = sched
  BY <1>2 DEF Undisturbed, SameEvents
<1>3. ASSUME <<u, "tick">> \in sched, u \notin blocked
      PROVE  Undisturbed(u)
  BY <1>3 DEF Undisturbed, NoEvent, Events
<1>4. ASSUME NEW t \in TREs, TickEvent(t), WakesSleeper
      PROVE  Undisturbed(u)
  <2>1. CASE TickInRetry(t) \/ TickInvalid(t)
    BY <1>2, <2>1 DEF TickInRetry, TickInvalid, Abort
  <2>2. CASE TickPerform(t)
    <3>1. PICK op \in Prims : op = Current(t).op
      BY <2>2 DEF TickPerform, Reads
    <3>2. Performs(t, "tick", op) /\ Perform(t, "tick", op) /\ Current(t).cyc = 0
      BY <2>2, <3>1 DEF TickPerform, Reads, Performs
    <3>3. QED
      BY <1>4, <3>2, PerformUndisturbed, SMTT(20)
  <2>3. CASE u = t
    <3>1. CASE TickStillBlocked(t) \/ TickUnblocked(t)
      BY <2>3, <3>1 DEF Undisturbed
    <3>2. CASE TickAccess(t) \/ TickStall(t) \/ TickDefer(t) \/ halt(t)
      BY <1>3, <2>3, <3>2 DEF TickAccess, TickStall, TickDefer, halt,
                                     Reads, Ticks
    <3>3. QED
      BY <1>4, <2>1, <2>2, <3>1, <3>2 DEF TickEvent
  <2>4. CASE u # t
    <3>1. ASSUME Resume(t, "tick", {}) \/ Rest(t, "tick")
          PROVE  Undisturbed(u)
      <4>1. SameEvents(u)
        BY <2>4, <3>1, SMTT(20) DEF SameEvents, Resume, Rest, Reserve
      <4>2. QED
        BY <4>1 DEF Undisturbed
    <3>2. ASSUME sched' = sched \ {<<t, "tick">>}
          PROVE  Undisturbed(u)
      BY <2>4, <3>2 DEF Undisturbed, SameEvents
    <3>3. ASSUME NEW cmd, NEW a, NEW unc, NEW blk, NEW pc,
                 Issue(t, cmd, a, unc, blk, pc)
          PROVE  Undisturbed(u)
      BY <1>2, <3>1, <3>3 DEF Issue
    <3>4. CASE TickStillBlocked(t) \/ TickUnblocked(t)
      BY <3>1, <3>3, <3>4 DEF TickStillBlocked, TickUnblocked
    <3>5. CASE TickAccess(t) \/ TickStall(t) \/ halt(t)
      BY <3>1, <3>2, <3>3, <3>5 DEF TickAccess, TickStall, halt
    <3>6. CASE TickDefer(t)
      BY <2>4, <3>6 DEF TickDefer, Reserve, Undisturbed, SameEvents
    <3>7. QED
      BY <1>4, <2>1, <2>2, <3>4, <3>5, <3>6 DEF TickEvent
  <2>5. QED
    BY <2>3, <2>4
<1>5. ASSUME NEW t \in TREs, NEW op \in Prims, PrimEvent(t, op), WakesSleeper
      PROVE  Undisturbed(u)
  <2>1. Performs(t, op, op) /\ Perform(t, op, op) /\ op # "tick"
    BY <1>5 DEF PrimEvent, Performs, Prims, Mutexes, Barriers, Stats
  <2>2. QED
    BY <1>5, <2>1, PerformUndisturbed, SMTT(20)
<1>6. ASSUME NEW t \in TREs, NEW k \in DOMAIN mem[t], completeRequest(t, k)
      PROVE  Undisturbed(u)
  <2>1. CASE u = t /\ u \in blocked
    BY <1>6, <2>1 DEF Undisturbed
  <2>2. CASE u # t \/ u \notin blocked
    <3>1. sched' = sched \/ Restart(t)
      BY <1>6 DEF completeRequest
    <3>2. SameEvents(u)
      BY <2>2, <3>1, SMTT(20) DEF Restart, SameEvents
    <3>3. QED
      BY <3>2 DEF Undisturbed
  <2>3. QED
    BY <2>1, <2>2
<1>7. ASSUME NEW t \in TREs, recvRetry(t)
      PROVE  Undisturbed(u)
  <2>1. CASE u = t
    <3>1. u \notin blocked /\ LastRead(u).op \in Accesses
      BY <1>1, <1>7, <2>1 DEF recvRetry, PlacedTRE, RetryWait
    <3>2. QED
      BY <3>1 DEF Undisturbed, HasRead, Accesses
  <2>2. CASE u # t
    BY <1>7, <2>2 DEF recvRetry, Reserve, Undisturbed, SameEvents
  <2>3. QED
    BY <2>1, <2>2
<1>8. ASSUME NEW t \in TREs,
             \/ \E k \in DOMAIN mem[t] : accessFailed(t, k) \/ loseRequest(t, k)
             \/ Watchdog(t)
      PROVE  Undisturbed(u)
  BY <1>2, <1>8 DEF accessFailed, loseRequest, Watchdog, noRequest,
                           noResponse, Abort
<1>9. CASE UNCHANGED vars
  BY <1>2, <1>9 DEF vars
<1>10. CASE ~UNCHANGED vars
  <2>1. WakesSleeper /\ \E t \in TREs : Run(t) \/ Port(t) \/ Watchdog(t)
    BY <1>10 DEF Next, Stopped
  <2>2. QED
    BY <1>4, <1>5, <1>6, <1>7, <1>8, <2>1 DEF Run, Port, Respond
<1>11. QED
  BY <1>9, <1>10

----------------------------------------------------------------------------
(* The limit on accesses in flight, from the handlers in TRETraffic. *)

(* Every step keeps a TRE within the limit. *)
LEMMA LimitStep ==
  ASSUME TypeOK, sim = "run", sim' = "run", Placed, [Next]_vars,
         [WakesSleeper]_vars, NEW t \in TREs, LimitInv(t)
  PROVE  LimitInv(t)'
<1> USE Zenon
<1>1. PlacedTRE(t) /\ Undisturbed(t)
  BY StepUndisturbed DEF Placed
<1>2. CASE TickUnblocked(t)
  BY <1>2, UnblockedLimit
<1>3. CASE TickAccess(t)
  BY <1>1, <1>3, AccessLimit
<1>4. CASE TickStall(t)
  BY <1>1, <1>4, StallLimit
<1>5. ASSUME NEW k \in DOMAIN mem[t], completeRequest(t, k)
      PROVE  LimitInv(t)'
  BY <1>5, ResponseLimit
<1>6. CASE /\ ~TickUnblocked(t) /\ ~\E k \in DOMAIN mem[t] : completeRequest(t, k)
           /\ outs'[t] = outs[t] /\ bpkt'[t] = bpkt[t]
           /\ t \in blocked' <=> t \in blocked
  <2>1. CASE t \notin blocked
    BY <1>6, <2>1 DEF LimitInv, WithinLimit, CauseFound
  <2>2. \A a : InFlight(t, a)' <=> InFlight(t, a)
    BY <1>6 DEF InFlight
  <2>3. CASE t \in blocked /\ TickStillBlocked(t)
    <3>1. \E a \in bpkt'[t].deps : InFlight(t, a)'
      BY <1>6, <2>2, <2>3 DEF TickStillBlocked
    <3>2. QED
      BY <1>6, <3>1 DEF LimitInv, WithinLimit, CauseFound
  <2>4. CASE t \in blocked /\ SameEvents(t)
    <3>1. <<t, "tick">> \in sched' <=> <<t, "tick">> \in sched
      BY <2>4 DEF SameEvents, Events
    <3>2. WithinLimit(t)'
      BY <1>6, <2>2, <3>1 DEF LimitInv, WithinLimit
    <3>3. CauseFound(t)'
      BY <1>6, <2>2, <3>1 DEF LimitInv, CauseFound
    <3>4. QED
      BY <3>2, <3>3 DEF LimitInv
  <2>5. QED
    BY <1>1, <1>6, <2>1, <2>3, <2>4 DEF Undisturbed
<1>7. CASE \/ Stays(t) \/ Passes(t) \/ recvRetry(t)
           \/ \E k \in DOMAIN mem[t] : loseRequest(t, k)
  <2>1. outs'[t] = outs[t] /\ bpkt'[t] = bpkt[t] /\ (t \in blocked' <=> t \in blocked)
    BY <1>7 DEF Stays, Passes, PathSame, recvRetry, loseRequest
  <2>2. QED
    BY <1>2, <1>5, <1>6, <2>1
<1>8. QED
  BY <1>2, <1>3, <1>4, <1>5, <1>7, PathSteps

(* While wake() starts only TREs that sleep, a TRE has at most             *)
(* max_outstanding_addrs accesses in flight, and a blocked access or stall *)
(* keeps the cause of its wait, across responses, retries and wake-ups of  *)
(* other TREs.                                                             *)
THEOREM LimitIsKept == Spec /\ WakesSleepersOnly => []LimitKept
<1> USE Zenon
<1> DEFINE L == sim = "run" => \A t \in TREs : LimitInv(t)
<1>1. Init => L
  <2> SUFFICES ASSUME Init, NEW t \in TREs PROVE LimitInv(t)
    OBVIOUS
  <2>1. t \notin blocked /\ outs[t] = << >> /\ MaxOutstanding \in Nat
    BY ConfigAssumption DEF Init
  <2>2. Len(outs[t]) <= MaxOutstanding
    BY <2>1, SMTT(20)
  <2>3. QED
    BY <2>1, <2>2 DEF LimitInv, WithinLimit, CauseFound
<1>2. TypeOK /\ Placed /\ L /\ [Next]_vars /\ [WakesSleeper]_vars => L'
  <2> SUFFICES ASSUME TypeOK, Placed, L, [Next]_vars, [WakesSleeper]_vars,
                      sim' = "run", NEW t \in TREs
      PROVE  LimitInv(t)'
    OBVIOUS
  <2>1. sim = "run" /\ LimitInv(t)
    BY StillRuns
  <2>2. QED
    BY <2>1, LimitStep
<1>3. TypeOK /\ L => LimitKept
  BY DEF LimitKept, LimitInv, CauseFound, BlockedHasCause, TypeOK, MemOK
<1> HIDE DEF L
<1>4. QED
  BY <1>1, <1>2, <1>3, TypeCorrect, AlwaysPlaced, PTL DEF Spec, WakesSleepersOnly

(* Under the same condition a blocked access or stall that no tick is due  *)
(* for has a dependency in flight, or has none and the TRE has as many     *)
(* accesses in flight as it may: a response will restart it.               *)
THEOREM NobodyBlocksForNothing == Spec /\ WakesSleepersOnly => []BlockedHasCause
<1>1. TypeOK /\ LimitKept => BlockedHasCause
  BY Zenon DEF LimitKept, BlockedHasCause
<1>2. QED
  BY <1>1, TypeCorrect, LimitIsKept, PTL

(* Under the same condition tick() issues an access only when nothing it   *)
(* depends on and no blocking access is in flight and the limit is not     *)
(* reached, and what it issues is the last entry read.                     *)
THEOREM AccessesGoInOrder == Spec /\ WakesSleepersOnly => IssueInOrder
<1> USE Zenon
<1>1. TypeOK /\ PathKept /\ LimitKept /\ [Next]_vars =>
        [\A t \in TREs : Sends(t) =>
           LET e == trace[t][last'[t]]
           IN  /\ \A k \in DOMAIN outs[t] :
                    ~outs[t][k].blk /\ outs[t][k].addr \notin e.deps
               /\ Len(outs[t]) < MaxOutstanding
               /\ outs'[t] = Append(outs[t], [addr |-> e.addr, blk |-> e.blk])]_vars
  <2> SUFFICES ASSUME TypeOK, PathKept, LimitKept, [Next]_vars,
                      NEW t \in TREs, Sends(t)
      PROVE  LET e == trace[t][last'[t]]
             IN  /\ \A k \in DOMAIN outs[t] :
                      ~outs[t][k].blk /\ outs[t][k].addr \notin e.deps
                 /\ Len(outs[t]) < MaxOutstanding
                 /\ outs'[t] = Append(outs[t], [addr |-> e.addr, blk |-> e.blk])
    OBVIOUS
  <2> DEFINE e == trace[t][last'[t]]
  <2>1. /\ sim = "run" /\ <<t, "tick">> \in sched
        /\ outs'[t] = Append(outs[t], [addr |-> e.addr, blk |-> e.blk])
        /\ \A k \in DOMAIN outs[t] : ~outs[t][k].blk /\ outs[t][k].addr \notin e.deps
        /\ IF t \in blocked THEN \A a \in bpkt[t].deps : ~InFlight(t, a)
                            ELSE Len(outs[t]) < MaxOutstanding
    BY SendsRead
  <2>2. Len(outs[t]) \in Nat /\ MaxOutstanding \in Nat
    BY SeqShape, ConfigAssumption, SMTT(20) DEF TypeOK, MemOK
  <2>3. WithinLimit(t)
    BY <2>1 DEF LimitKept
  <2>4. t \in blocked => Len(outs[t]) # MaxOutstanding /\ Len(outs[t]) <= MaxOutstanding
    BY <2>1, <2>3 DEF WithinLimit
  <2>5. Len(outs[t]) < MaxOutstanding
    BY <2>1, <2>2, <2>4, SMTT(20)
  <2>6. QED
    BY <2>1, <2>5
<1>2. QED
  BY <1>1, TypeCorrect, PathIsKept, LimitIsKept, PTL DEF Spec, IssueInOrder

----------------------------------------------------------------------------
(* The end of the simulation. *)

(* How a step moves TRE u in its trace: not at all, because u runs and     *)
(* reads another entry than EOF, or because it halts.                      *)
Moved(u) ==
  \/ trace' = trace /\ pos'[u] = pos[u] /\ last'[u] = last[u]
  \/ ~NoEvent(u) /\ ~HasRead(u, {"EOF"})'
  \/ halt(u)

LEMMA ReadMoves ==
  ASSUME TypeOK, NEW t \in TREs, NEW S, Reads(t, S), "EOF" \notin S,
         Read(t), trace' = trace, NEW u \in TREs
  PROVE  Moved(u)
<1> USE Zenon
<1>1. CASE u = t
  <2>1. ~NoEvent(t)
    BY DEF Reads, Ticks, NoEvent, Events
  <2>2. LastRead(t)' = Current(t) /\ Current(t).op # "EOF"
    BY DEF Reads, Read, LastRead, Current, TypeOK, ReplayOK
  <2>3. QED
    BY <1>1, <2>1, <2>2 DEF Moved, HasRead
<1>2. CASE u # t
  BY <1>2 DEF Moved, Read, TypeOK, ReplayOK
<1>3. QED
  BY <1>1, <1>2

LEMMA PerformMoved ==
  ASSUME TypeOK, sim = "run", Placed, NEW t \in TREs, NEW ev, NEW op,
         Performs(t, ev, op), Perform(t, ev, op), sim' = "run", NEW u \in TREs
  PROVE  Moved(u)
<1> USE Zenon
<1>1. PlacedTRE(t) /\ trace' = trace /\ (Advance(t, ev) \/ Rewind(t, ev))
  BY PerformMoves DEF Placed
<1>2. /\ last'[t] = Place(t, ev)
      /\ \A w \in TREs : w # t => pos'[w] = pos[w] /\ last'[w] = last[w]
  BY <1>1, MovesTo, SMTT(20)
<1>3. /\ ev \in Events /\ <<t, ev>> \in sched
      /\ trace[t][Place(t, ev)].op = op
  BY <1>1, Performing, SMTT(20)
<1>4. op # "EOF"
  BY DEF Performs, Prims, Mutexes, Barriers, Stats
<1>5. ~NoEvent(t) /\ ~HasRead(t, {"EOF"})'
  <2>1. LastRead(t)'.op # "EOF"
    BY <1>1, <1>2, <1>3, <1>4 DEF LastRead
  <2>2. QED
    BY <1>3, <2>1 DEF NoEvent, HasRead
<1>6. QED
  BY <1>1, <1>2, <1>5 DEF Moved

(* Only halt() counts a TRE or ends the simulation with success. *)
LEMMA StepMoves ==
  ASSUME TypeOK, sim = "run", Placed, sim' \in {"run", "done"}, [Next]_vars
  PROVE  /\ \A u \in TREs : Moved(u)
         /\ UNCHANGED <<numIdle, sim>> \/ \E t \in TREs : halt(t)
<1> USE Zenon
<1> DEFINE Goal == /\ \A u \in TREs : Moved(u)
                   /\ UNCHANGED <<numIdle, sim>> \/ \E t \in TREs : halt(t)
<1>1. CASE UNCHANGED <<trace, pos, last, numIdle>> /\ sim' # "done"
  BY <1>1 DEF Moved
<1>2. ASSUME NEW t \in TREs, TickEvent(t)
      PROVE  Goal
  <2>1. CASE TickInRetry(t) \/ TickInvalid(t)
    BY <2>1 DEF TickInRetry, TickInvalid, Abort
  <2>2. CASE TickPerform(t)
    <3>1. PICK op \in Prims : op = Current(t).op
      BY <2>2 DEF TickPerform, Reads
    <3>2. Performs(t, "tick", op) /\ Perform(t, "tick", op)
      BY <2>2, <3>1 DEF TickPerform, Reads, Performs
    <3>3. sim' = "run" /\ UNCHANGED <<numIdle, sim>>
      BY <3>2, PerformMoves
    <3>4. QED
      BY <3>2, <3>3, PerformMoved, SMTT(20)
  <2>3. ASSUME Resume(t, "tick", {}) \/ Rest(t, "tick")
        PROVE  sim' = "run"
    BY <2>3 DEF Resume, Rest, Reserve
  <2>4. ASSUME NEW cmd, NEW a, NEW unc, NEW blk, NEW pc,
               Issue(t, cmd, a, unc, blk, pc)
        PROVE  sim' = "run"
    BY <2>3, <2>4 DEF Issue
  <2>5. CASE TickStillBlocked(t) \/ TickUnblocked(t)
    BY <1>1, <2>3, <2>4, <2>5 DEF TickStillBlocked, TickUnblocked
  <2>6. CASE TickAccess(t)
    <3>1. /\ Reads(t, Accesses) /\ Read(t) /\ trace' = trace
          /\ UNCHANGED numIdle /\ "EOF" \notin Accesses
      BY <2>6 DEF TickAccess, Accesses
    <3>2. sim' = "run"
      BY <2>4, <2>6 DEF TickAccess
    <3>3. QED
      BY <3>1, <3>2, ReadMoves, SMTT(20)
  <2>7. CASE TickStall(t)
    <3>1. /\ Reads(t, {"STALL"}) /\ Read(t) /\ trace' = trace
          /\ UNCHANGED numIdle /\ "EOF" \notin {"STALL"}
      BY <2>7 DEF TickStall
    <3>2. sim' = "run"
      BY <2>3, <2>7 DEF TickStall
    <3>3. QED
      BY <3>1, <3>2, ReadMoves, SMTT(20)
  <2>8. CASE TickDefer(t)
    <3>1. /\ Reads(t, Prims) /\ Read(t) /\ trace' = trace
          /\ UNCHANGED numIdle /\ "EOF" \notin Prims
      BY <2>8 DEF TickDefer, Prims, Mutexes, Barriers, Stats
    <3>2. sim' = "run"
      BY <2>8 DEF TickDefer, Reserve
    <3>3. QED
      BY <3>1, <3>2, ReadMoves, SMT
  <2>9. CASE halt(t)
    <3>1. \A u \in TREs : u # t => pos'[u] = pos[u] /\ last'[u] = last[u]
      BY <2>9 DEF halt, Read, TypeOK, ReplayOK
    <3>2. trace' = trace
      BY <2>9 DEF halt
    <3>3. QED
      BY <2>9, <3>1, <3>2 DEF Moved
  <2>10. QED
    BY <1>2, <2>1, <2>2, <2>5, <2>6, <2>7, <2>8, <2>9 DEF TickEvent
<1>3. ASSUME NEW t \in TREs, NEW op \in Prims, PrimEvent(t, op)
      PROVE  Goal
  <2>1. Performs(t, op, op) /\ Perform(t, op, op)
    BY <1>3 DEF PrimEvent, Performs
  <2>2. sim' = "run" /\ UNCHANGED <<numIdle, sim>>
    BY <2>1, PerformMoves
  <2>3. QED
    BY <2>1, <2>2, PerformMoved, SMTT(20)
<1>4. ASSUME NEW t \in TREs, NEW k \in DOMAIN mem[t], completeRequest(t, k)
      PROVE  Goal
  BY <1>1, <1>4 DEF completeRequest, ShiftTimeout
<1>5. ASSUME NEW t \in TREs, recvRetry(t)
      PROVE  Goal
  BY <1>1, <1>5 DEF recvRetry, Reserve
<1>6. ASSUME NEW t \in TREs,
             \/ \E k \in DOMAIN mem[t] : accessFailed(t, k) \/ loseRequest(t, k)
             \/ Watchdog(t)
      PROVE  Goal
  BY <1>1, <1>6 DEF accessFailed, loseRequest, Watchdog, noRequest,
                           noResponse, Abort
<1>7. CASE UNCHANGED vars
  BY <1>1, <1>7 DEF vars
<1>8. QED
  BY <1>2, <1>3, <1>4, <1>5, <1>6, <1>7
     DEF Next, Stopped, Run, Port, Respond

(* The TREs that have halted, step by step. *)
LEMMA HaltedStep ==
  ASSUME TypeOK, sim = "run", Placed, sim' \in {"run", "done"}, [Next]_vars,
         \A t \in Halted : NoEvent(t)
  PROVE  \/ Halted' = Halted /\ UNCHANGED <<numIdle, sim>>
         \/ \E t \in TREs \ Halted : halt(t) /\ Halted' = Halted \cup {t}
<1> USE Zenon
<1>1. ASSUME NEW u \in TREs PROVE u \in Halted => u \in Halted'
  <2> SUFFICES ASSUME u \in Halted PROVE u \in Halted'
    BY SMTT(20)
  <2>1. NoEvent(u) /\ HasRead(u, {"EOF"})
    BY DEF Halted
  <2>2. ~halt(u)
    BY <2>1 DEF halt, Reads, Ticks, NoEvent, Events
  <2>3. trace' = trace /\ pos'[u] = pos[u] /\ last'[u] = last[u]
    BY <2>1, <2>2, StepMoves DEF Moved
  <2>4. QED
    BY <2>1, <2>3 DEF Halted, HasRead, LastRead
<1>2. ASSUME NEW u \in TREs, ~halt(u) PROVE u \in Halted' => u \in Halted
  <2> SUFFICES ASSUME HasRead(u, {"EOF"})' PROVE HasRead(u, {"EOF"})
    BY DEF Halted
  <2>1. trace' = trace /\ pos'[u] = pos[u] /\ last'[u] = last[u]
    BY <1>2, StepMoves DEF Moved
  <2>2. QED
    BY <2>1 DEF HasRead, LastRead
<1>3. Halted \subseteq TREs /\ Halted' \subseteq TREs
  BY DEF Halted
<1>4. ASSUME NEW t \in TREs, halt(t)
      PROVE  t \notin Halted /\ Halted' = Halted \cup {t}
  <2>1. t \notin Halted
    BY <1>4 DEF halt, Reads, Ticks, NoEvent, Events
  <2>2. \A u \in TREs : u # t => ~halt(u)
    <3>1. \A u \in TREs : u # t => pos'[u] = pos[u]
      BY <1>4 DEF halt, Read, TypeOK, ReplayOK
    <3>2. \A u \in TREs : halt(u) => pos'[u] = pos[u] + 1 /\ pos[u] \in Nat
      BY DEF halt, Read, TypeOK, ReplayOK
    <3>3. QED
      BY <3>1, <3>2, SMTT(20)
  <2>3. t \in Halted'
    <3>1. /\ last'[t] = pos[t] /\ pos'[t] = pos[t] + 1 /\ pos[t] \in Nat
          /\ pos[t] \in DOMAIN trace[t] /\ Current(t).op = "EOF" /\ trace' = trace
      BY <1>4 DEF halt, Reads, Read, TypeOK, ReplayOK
    <3>2. last'[t] < pos'[t]
      BY <3>1, SMTT(20)
    <3>3. QED
      BY <3>1, <3>2 DEF Halted, HasRead, LastRead, Current
  <2>4. QED
    BY <1>1, <1>2, <1>3, <2>1, <2>2, <2>3
<1>5. CASE ~\E t \in TREs : halt(t)
  <2>1. Halted' = Halted
    BY <1>1, <1>2, <1>3, <1>5
  <2>2. QED
    BY <1>5, <2>1, StepMoves
<1>6. QED
  BY <1>4, <1>5

(* There are as many TREs as allTREs has elements. *)
LEMMA TREsCounted == IsFiniteSet(TREs) /\ Cardinality(TREs) = Len(allTREs)
<1>1. DOMAIN allTREs = 1 .. Len(allTREs) /\ Len(allTREs) \in Nat
  BY TREsAssumption, SeqShape, Zenon
<1>2. IsFiniteSet(1 .. Len(allTREs)) /\ Cardinality(1 .. Len(allTREs)) = Len(allTREs)
  <2> DEFINE n == Len(allTREs)
  <2> HIDE DEF n
  <2>1. n \in Nat /\ n \in Int /\ 1 \in Int
    BY <1>1, SMTT(20) DEF n
  <2>2. /\ IsFiniteSet(1 .. n)
        /\ Cardinality(1 .. n) = IF 1 > n THEN 0 ELSE n - 1 + 1
    BY <2>1, FS_Interval, Zenon
  <2>3. Cardinality(1 .. n) = n
    BY <2>1, <2>2, SMTT(20)
  <2>4. QED
    BY <2>2, <2>3, Zenon DEF n
<1>3. allTREs \in [1 .. Len(allTREs) -> TREs]
  BY <1>1, TREsAssumption, SMTT(20) DEF TREs, Range
<1>4. allTREs \in Surjection(1 .. Len(allTREs), TREs)
  BY <1>1, <1>3, SMTT(20) DEF Surjection, TREs, Range
<1>5. allTREs \in Injection(1 .. Len(allTREs), TREs)
  BY <1>1, <1>3, TREsAssumption, Zenon DEF Injection, IsInjective
<1>6. QED
  BY <1>2, <1>4, <1>5, FS_Surjection, Zenon

HaltedCount ==
  numIdle = Cardinality(Halted) /\ \A t \in Halted : NoEvent(t)

LEMMA HaltedCountStep ==
  ASSUME TypeOK, sim = "run", Placed, sim' \in {"run", "done"}, [Next]_vars,
         [WakesSleeper]_vars, HaltedCount
  PROVE  HaltedCount' /\ (sim' = "done" => AllIdle(numIdle'))
<1> USE Zenon
<1>1. \/ Halted' = Halted /\ UNCHANGED <<numIdle, sim>>
      \/ \E t \in TREs \ Halted : halt(t) /\ Halted' = Halted \cup {t}
  BY HaltedStep DEF HaltedCount
<1>2. ASSUME NEW u \in Halted PROVE NoEvent(u)'
  <2>1. u \in TREs /\ HasRead(u, {"EOF"}) /\ NoEvent(u) /\ PlacedTRE(u)
    BY DEF Halted, HaltedCount, Placed
  <2>2. u \notin blocked
    BY <2>1 DEF PlacedTRE, BlockedWait, HasRead, Accesses
  <2>3. ~TickStillBlocked(u) /\ ~TickUnblocked(u)
    BY <2>2 DEF TickStillBlocked, TickUnblocked
  <2>4. SameEvents(u)
    BY <2>1, <2>2, <2>3, StepUndisturbed DEF Undisturbed
  <2>5. QED
    BY <2>1, <2>4 DEF SameEvents, NoEvent
<1>3. CASE Halted' = Halted /\ UNCHANGED <<numIdle, sim>>
  BY <1>2, <1>3 DEF HaltedCount
<1>4. ASSUME NEW t \in TREs \ Halted, halt(t), Halted' = Halted \cup {t}
      PROVE  HaltedCount' /\ (sim' = "done" => AllIdle(numIdle'))
  <2>1. NoEvent(t)'
    <3>1. /\ PlacedTRE(t) /\ <<t, "tick">> \in sched /\ "tick" \in Events
          /\ sched' = sched \ {<<t, "tick">>}
      BY <1>4 DEF Placed, halt, Reads, Ticks, Events
    <3>2. QED
      BY <3>1 DEF PlacedTRE, OneEvent, NoEvent
  <2>2. IsFiniteSet(Halted)
    <3>1. Halted \in SUBSET TREs
      BY DEF Halted
    <3>2. QED
      BY <3>1, TREsCounted, FS_Subset
  <2>3. Cardinality(Halted') = Cardinality(Halted) + 1
    BY <1>4, <2>2, FS_AddElement
  <2>4. numIdle' = numIdle + 1
    BY <1>4 DEF halt
  <2>5. HaltedCount'
    BY <1>2, <1>4, <2>1, <2>3, <2>4 DEF HaltedCount
  <2>6. sim' = "done" => AllIdle(numIdle')
    BY <1>4 DEF halt
  <2>7. QED
    BY <2>5, <2>6
<1>5. QED
  BY <1>1, <1>3, <1>4

(* While wake() starts only TREs that sleep, halt() counts every TRE once: *)
(* numIdleTREs is the number of TREs that have read EOF, none of which     *)
(* runs again, and "all TREs are done" is said only when each of them has  *)
(* read its trace to the end.                                              *)
THEOREM DoneIsReplayed ==
  Spec /\ WakesSleepersOnly => [](IdleCounted /\ DoneMeansReplayed)
<1> USE Zenon
<1>1. Init /\ TypeOK => IdleCounted /\ DoneMeansReplayed
  <2> SUFFICES ASSUME Init, TypeOK PROVE IdleCounted /\ DoneMeansReplayed
    BY SMTT(20)
  <2>1. \A t \in TREs : ~(last[t] < pos[t])
    <3>1. \A t \in TREs : last[t] = 1 /\ pos[t] = 1
      BY DEF Init
    <3>2. QED
      BY <3>1, SMTT(20)
  <2>2. Halted = {} /\ numIdle = 0 /\ sim = "run"
    BY <2>1 DEF Init, Halted, HasRead
  <2>3. QED
    BY <2>2, FS_EmptySet DEF IdleCounted, DoneMeansReplayed
<1>2. TypeOK /\ Placed /\ IdleCounted /\ DoneMeansReplayed /\ [Next]_vars
      /\ [WakesSleeper]_vars => IdleCounted' /\ DoneMeansReplayed'
  <2> SUFFICES ASSUME TypeOK, Placed, IdleCounted, DoneMeansReplayed, [Next]_vars,
                      [WakesSleeper]_vars
      PROVE  IdleCounted' /\ DoneMeansReplayed'
    BY SMTT(20)
  <2>1. CASE sim = "run" /\ sim' \in {"run", "done"}
    <3>1. HaltedCount
      BY <2>1 DEF IdleCounted, HaltedCount
    <3>2. HaltedCount' /\ (sim' = "done" => AllIdle(numIdle'))
      BY <2>1, <3>1, HaltedCountStep
    <3>3. ASSUME sim' = "done" PROVE Halted' = TREs
      <4>1. Halted' \in SUBSET TREs
        BY DEF Halted
      <4>2. Cardinality(Halted') = Cardinality(TREs)
        BY <3>2, <3>3, TREsCounted DEF HaltedCount, AllIdle
      <4>3. QED
        BY <4>1, <4>2, TREsCounted, FS_Subset
    <3>4. IdleCounted'
      BY <3>2 DEF IdleCounted, HaltedCount
    <3>5. DoneMeansReplayed'
      BY <3>2, <3>3 DEF DoneMeansReplayed, HaltedCount, Halted
    <3>6. QED
      BY <3>4, <3>5
  <2>2. CASE sim = "run" /\ sim' \notin {"run", "done"}
    BY <2>2 DEF IdleCounted, DoneMeansReplayed
  <2>3. CASE sim # "run"
    <3>1. UNCHANGED vars
      BY <2>3, EndedStays
    <3>2. UNCHANGED <<sim, trace, pos, last, sched>>
      BY <3>1 DEF vars
    <3>3. QED
      BY <2>3, <3>2 DEF IdleCounted, DoneMeansReplayed, HasRead, LastRead,
                               NoEvent
  <2>4. QED
    BY <2>1, <2>2, <2>3
<1>3. QED
  BY <1>1, <1>2, TypeCorrect, AlwaysPlaced, PTL DEF Spec, WakesSleepersOnly

----------------------------------------------------------------------------
(* While wake() starts only TREs that sleep, every PUSH and POP is         *)
(* performed once and in the order of its trace: what push() has put in a  *)
(* queue and pop() has not taken is what the queue holds.  So between      *)
(* traces whose PUSHes and POPs match nobody is left waiting at a queue    *)
(* for a TRE that has halted.                                              *)
THEOREM QueuesAreReplayed == Spec /\ WakesSleepersOnly => []QueuesReplayed
<1> USE Zenon
<1> DEFINE Ends == Queues \cap (TREs \X TREs)
           Balanced == sim \in {"run", "done"} => \A q \in Ends : Conserved(q)
<1>1. Init /\ TypeOK => Balanced
  <2> SUFFICES ASSUME Init, TypeOK, NEW q \in Ends PROVE Conserved(q)
    BY SMTT(20)
  <2>1. q[1] \in TREs /\ q[2] \in TREs /\ q \in Queues
    BY SMTT(20)
  <2>2. ASSUME NEW u \in TREs, NEW op, NEW n PROVE Performed(u, op, n) = {}
    <3>1. ~AtQueue(u)
      BY Ids DEF Init, AtQueue
    <3>2. ~Pending(u)
      BY <3>1 DEF Init, Pending
    <3>3. Frontier(u) = 1
      BY <3>2 DEF Init, Frontier
    <3>4. \A i \in DOMAIN trace[u] : ~(i < 1)
      <4>1. trace[u] \in Seq(Entry)
        BY DEF TypeOK, ReplayOK
      <4>2. QED
        BY <4>1, SeqShape, SMTT(20)
    <3>5. QED
      BY <3>3, <3>4 DEF Performed, Listed
  <2>3. qlen[q] = 0
    BY <2>1 DEF Init
  <2>4. Cardinality({}) = 0
    BY FS_EmptySet
  <2>5. 0 = 0 + 0
    BY SMTT(20)
  <2>6. QED
    BY <2>1, <2>2, <2>3, <2>4, <2>5 DEF Conserved
<1>2. TypeOK /\ Placed /\ QueueWaits /\ Balanced /\ [Next]_vars => Balanced'
  <2> SUFFICES ASSUME TypeOK, Placed, QueueWaits, Balanced, [Next]_vars,
                      sim' \in {"run", "done"}, NEW q \in Ends
      PROVE  Conserved(q)'
    OBVIOUS
  <2>1. CASE sim = "run"
    BY <2>1, QueuesMove, ConservedStep
  <2>2. CASE sim # "run"
    <3>1. UNCHANGED vars
      BY <2>2, EndedStays
    <3>2. UNCHANGED <<sim, trace, pos, sched, qlen, toPush, toPop>>
      BY <3>1 DEF vars, qVars
    <3>3. Conserved(q)
      BY <3>2
    <3>4. QED
      BY <3>2, <3>3 DEF Conserved, Performed, Listed, Frontier, Pending, AtQueue
  <2>3. QED
    BY <2>1, <2>2
<1>3. TypeOK /\ Placed /\ QueueWaits /\ IdleCounted /\ Balanced => QueuesReplayed
  BY NobodyStranded DEF QueuesReplayed
<1> HIDE DEF Balanced
<1>4. QED
  BY <1>1, <1>2, <1>3, TypeCorrect, AlwaysPlaced, QueueWaitsHold, DoneIsReplayed, PTL
     DEF Spec, WakesSleepersOnly
=============================================================================
