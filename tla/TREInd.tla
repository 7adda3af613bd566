------------------------------- MODULE TREInd -------------------------------
(***************************************************************************)
(* The inductive invariants of the replay engines.  Placed, behind         *)
(* RunsOnce, NeverForgotten, EventAssertsHold and MutualExclusion: while   *)
(* wake() starts only TREs that sleep, the last entry a TRE has read tells *)
(* where the TRE is.  PathKept, LimitKept and IdleCounted: the accesses in *)
(* flight, the limit on them, and the TREs that have halted.               *)
(***************************************************************************)
EXTENDS TRE

(* t has read its last entry and has not rewound to it. *)
JustRead(t) == last[t] = pos[t] - 1 /\ last[t] \in DOMAIN trace[t]

(* A TRE has at most one event scheduled. *)
OneEvent(t) ==
  \A e, f \in Events : <<t, e>> \in sched /\ <<t, f>> \in sched => e = f

(* The event of a primitive is that of the last entry, and finds the       *)
(* operands of the entry in the registers.                                 *)
EventIsRead(t) ==
  \A op \in Prims : <<t, op>> \in sched =>
    /\ JustRead(t) /\ LastRead(t).op = op
    /\ op \in Mutexes \cup Barriers => paddr[t] = LastRead(t).addr
    /\ op \in {"BARINIT", "WAKE", "PUSH", "POP"} => data[t] = LastRead(t).val

(* A TRE that waits for a mutex, a barrier, a queue or a retry has no      *)
(* event, and the last entry is the one it waits for.                      *)
MutexWait(t) ==
  \A a \in Addr : In(t, waiting[a]) =>
    /\ NoEvent(t) /\ JustRead(t)
    /\ LastRead(t).op = "MTXLOCK" /\ LastRead(t).addr = a

BarrierWait(t) ==
  \A a \in Addr : In(t, arrived[a]) =>
    /\ NoEvent(t) /\ JustRead(t)
    /\ LastRead(t).op = "BARWAIT" /\ LastRead(t).addr = a

QueueWait(t) ==
  \A q \in Queues :
    /\ toPush[q] = t =>
         /\ NoEvent(t) /\ JustRead(t) /\ LastRead(t).op = "PUSH"
         /\ q = <<t, LastRead(t).val>> /\ data[t] = LastRead(t).val
    /\ toPop[q] = t =>
         /\ NoEvent(t) /\ JustRead(t) /\ LastRead(t).op = "POP"
         /\ q = <<LastRead(t).val, t>> /\ data[t] = LastRead(t).val

RetryWait(t) ==
  retryPkt[t] # NULL =>
    /\ NoEvent(t) /\ JustRead(t)
    /\ LastRead(t).op \in Accesses /\ t \notin blocked

(* A blocked TRE has read the access or stall that is in blockedPkt, which *)
(* has no dependencies otherwise.                                          *)
BlockedWait(t) ==
  IF t \in blocked
  THEN /\ JustRead(t) /\ LastRead(t).op \in Accesses \cup {"STALL"}
       /\ bpkt[t].cmd = LastRead(t).op
  ELSE bpkt[t].deps = {}

(* A TRE without an event waits, is blocked, sleeps or has halted. *)
HasCause(t) ==
  NoEvent(t) =>
    \/ Waits(t)
    \/ t \in blocked /\ outs[t] # << >>
    \/ JustRead(t) /\ LastRead(t).op \in {"SLEEP", "EOF"}

(* Nobody waits twice. *)
WaitsOnce ==
  \A a \in Addr : IsInjective(waiting[a]) /\ IsInjective(arrived[a])

(* A TRE inside a critical section owns the mutex. *)
CriticalOwns(t) == \A a \in Addr : InCritical(t, a) => owner[a] = t

PlacedTRE(t) ==
  /\ OneEvent(t) /\ EventIsRead(t)
  /\ MutexWait(t) /\ BarrierWait(t) /\ QueueWait(t) /\ RetryWait(t)
  /\ BlockedWait(t) /\ HasCause(t) /\ CriticalOwns(t)

(* The place of every TRE in its trace, and what it waits for, agree. *)
Placed == sim = "run" => WaitsOnce /\ \A t \in TREs : PlacedTRE(t)

----------------------------------------------------------------------------
(* The invariants behind InFlightAgrees, IssueInOrder, SentAsTraced and    *)
(* BlockedHasCause, and behind DoneMeansReplayed.                          *)

(* The k-th access in flight is one that entry e has to wait for. *)
Conflicts(t, k, e) == outs[t][k].blk \/ outs[t][k].addr \in e.deps

(* Nothing is issued behind a blocking access in flight. *)
LastBlocks(t) == \A k \in DOMAIN outs[t] : outs[t][k].blk => k = Len(outs[t])

(* blockedPkt is the last entry read, with all that it has to wait for and *)
(* that is still in flight among its dependencies.                         *)
BlockedIsSaved(t) ==
  IF t \in blocked
  THEN LET e == LastRead(t)
           b == bpkt[t]
       IN  /\ last[t] \in DOMAIN trace[t]
           /\ b.cmd = e.op /\ e.op \in Accesses \cup {"STALL"}
           /\ e.op # "STALL" => b.addr = e.addr /\ b.unc = e.unc /\ b.blk = e.blk
           /\ \A k \in DOMAIN outs[t] :
                Conflicts(t, k, e) => outs[t][k].addr \in b.deps
  ELSE bpkt[t].deps = {}

(* A stall that is over has nothing to wait for, also after its tick. *)
StallIsOver(t) ==
  t \notin blocked /\ HasRead(t, {"STALL"}) =>
    \A k \in DOMAIN outs[t] : ~Conflicts(t, k, LastRead(t))

(* What tick() knows of the memory path, whoever is woken when. *)
PathKept ==
  sim = "run" =>
    \A t \in TREs : LastBlocks(t) /\ BlockedIsSaved(t) /\ StallIsOver(t)

(* The limit on accesses in flight is kept.  When a TRE is blocked with as *)
(* many as it may have, either one of them is a dependency, or only a      *)
(* response makes it tick.                                                 *)
WithinLimit(t) ==
  /\ Len(outs[t]) <= MaxOutstanding
  /\ t \in blocked /\ Len(outs[t]) = MaxOutstanding =>
       \/ \E a \in bpkt[t].deps : InFlight(t, a)
       \/ bpkt[t].deps = {} /\ <<t, "tick">> \notin sched
  /\ t \in blocked /\ bpkt[t].deps = {} => bpkt[t].cmd # "STALL"

LimitKept ==
  sim = "run" => BlockedHasCause /\ \A t \in TREs : WithinLimit(t)

(* numIdleTREs counts the TREs that have halted, and they stay halted. *)
Halted == {t \in TREs : HasRead(t, {"EOF"})}
IdleCounted ==
  sim = "run" => /\ numIdle = Cardinality(Halted)
                 /\ \A t \in Halted : NoEvent(t)
=============================================================================
