--------------------------------- MODULE TRE ---------------------------------
(***************************************************************************)
(* The trace replay engines of HetSim (gem5/src/cpu/tre/tre.cc).  Each TRE *)
(* replays the trace of one processing element: memory accesses, stalls,   *)
(* and the explicit primitives (mutexes, barriers, sleep/wake, queues,     *)
(* statistics).  gem5 runs one event at a time, so an action is one event  *)
(* handler or one call made by the memory port, run to its end.            *)
(*                                                                         *)
(* Time is abstracted: an event that is scheduled may be the next one to   *)
(* run, whatever the cycle counts of the trace and the latencies of the    *)
(* memory are.  The two watchdogs are the exception, see the end.          *)
(***************************************************************************)
EXTENDS Integers, FiniteSets, Functions, Vectors

CONSTANTS
  allTREs,         \* ids of the TREs that found a trace, as constructed
  Programs,        \* the sets of trace files a simulation may be given
  Addr,            \* the addresses traces name; 0 is the null address
  Queues,          \* the (source, sink) pairs initQueues creates
  QueueDepth,      \* queue_depth of the first TRE
  MaxOutstanding,  \* max_outstanding_addrs
  Atomic,          \* is the system in atomic memory mode?
  Faulty,          \* the addresses the memory answers with an error
  LossyMemory,     \* may the memory system never answer a request?
  WatchdogExpires, \* may the traces make a TRE wait progress_check cycles?
  NULL             \* no TRE, no packet

TREs == Range(allTREs)

Accesses == {"LD", "ST"}
Mutexes  == {"MTXINIT", "MTXLOCK", "MTXUNLOCK"}
Barriers == {"BARINIT", "BARWAIT"}
Stats    == {"DMP", "RST", "DMPRST"}
Prims    == Mutexes \cup Barriers \cup Stats
              \cup {"SLEEP", "WAKE", "PUSH", "POP"}
Events   == Prims \cup {"tick"}

(* The states of the simulator: running, "all TREs are done", or why it    *)
(* was ended: by a gem5 assertion, fatal() or panic(), exit(1) or a crash. *)
Outcomes ==
  {"run", "done",
   "assert: !retryPkt", "assert: deps.empty()", "assert: STALL deps.empty()",
   "assert: paddr", "assert: wake data",
   "assert: scheduled", "assert: rescheduled",
   "fatal: mutex init", "fatal: mutex lock", "fatal: mutex unlock",
   "fatal: barrier init", "fatal: already awake", "fatal: invalid token",
   "fatal: unsolicited", "panic: access failed", "panic: outstanding",
   "panic: no request", "panic: no response", "exit: no queue",
   "crash: allTREs"}

(***************************************************************************)
(* A trace entry.  The suffixes of LD, ST and STALL are the flags unc (U)  *)
(* and blk (B); val is the stall count, barrier count or PE number, cyc    *)
(* the latency of a primitive, pc the optional @pc of an access.           *)
(***************************************************************************)
NoPC  == -1
Entry == [op   : Accesses \cup Prims \cup {"STALL", "EOF", "BAD"},
          addr : Addr, val : Nat, cyc : Nat, unc : BOOLEAN, blk : BOOLEAN,
          pc   : Nat \cup {NoPC}, deps : SUBSET Addr]

ASSUME TREsAssumption ==
  /\ allTREs \in Seq(Nat)
  /\ allTREs # << >>
  /\ IsInjective(allTREs)

ASSUME TraceAssumption ==
  /\ Addr \subseteq Nat
  /\ 0 \in Addr
  /\ Faulty \subseteq Addr
  /\ Programs \subseteq [TREs -> Seq(Entry)]

ASSUME ConfigAssumption ==
  /\ Queues \subseteq Nat \X Nat
  /\ QueueDepth \in Nat \ {0}
  /\ MaxOutstanding \in Nat \ {0}
  /\ Atomic \in BOOLEAN
  /\ LossyMemory \in BOOLEAN
  /\ WatchdogExpires \in BOOLEAN
  /\ NULL \notin Nat

Packet == [cmd : Accesses, addr : Addr, unc : BOOLEAN, pc : Nat \cup {NoPC}]
ASSUME NullAssumption == NULL \notin Packet

VARIABLES
  trace,      \* trace[t]: the entries of the file pe_<t>.trace
  pos,        \* pos[t]: the entry trace_fh is about to read
  last,       \* last[t]: lastTokEntryPos, the entry read last
  sched,      \* <<t, e>>: event e of TRE t is scheduled, tick or a primitive
  noResp,     \* the TREs whose noResponseEvent is scheduled
  paddr,      \* registers of each TRE that carry operands to a handler
  data,
  outs,       \* outs[t]: outstandingAddrs
  blocked,    \* the TREs whose flag blocked is set
  bpkt,       \* bpkt[t]: blockedPkt
  retryPkt,   \* retryPkt[t]: the packet the port refused
  mem,        \* mem[t]: the requests the memory has accepted, unanswered
  mutexes,    \* keys of mutexMap
  owner,
  waiting,
  count,      \* count[a]: participants of the barrier at a, 0 if not a key
  arrived,
  qlen,       \* qlen[q]: q.size(), the queues hold only zeros
  toPush,     \* waitingToPush
  toPop,      \* waitingToPop
  numIdle,    \* numIdleTREs
  sim         \* the state of the simulator

memVars == <<noResp, outs, blocked, bpkt, retryPkt, mem>>
mtxVars == <<mutexes, owner, waiting>>
barVars == <<count, arrived>>
qVars   == <<qlen, toPush, toPop>>
vars    == <<trace, pos, last, sched, paddr, data, memVars, mtxVars, barVars,
             qVars, numIdle, sim>>

Flight     == [addr : Addr, blk : BOOLEAN]
BlockedPkt == [addr : Addr, cmd : Accesses \cup {"STALL"}, data : Nat,
               unc : BOOLEAN, blk : BOOLEAN, deps : SUBSET Addr]

(***************************************************************************)
(* The constructors have run: each TRE has its tickEvent and noRequestEvent *)
(* scheduled, and noRequestEvent stays so for ever.                        *)
(***************************************************************************)
Init ==
  /\ trace \in Programs
  /\ pos = [t \in TREs |-> 1]
  /\ last = [t \in TREs |-> 1]
  /\ sched = TREs \X {"tick"}
  /\ noResp = {}
  /\ paddr = [t \in TREs |-> 0]
  /\ data = [t \in TREs |-> 0]
  /\ outs = [t \in TREs |-> << >>]
  /\ blocked = {}
  /\ bpkt = [t \in TREs |-> [addr |-> 0, cmd |-> "LD", data |-> 0,
                             unc |-> FALSE, blk |-> FALSE, deps |-> {}]]
  /\ retryPkt = [t \in TREs |-> NULL]
  /\ mem = [t \in TREs |-> << >>]
  /\ mutexes = {}
  /\ owner = [a \in Addr |-> NULL]
  /\ waiting = [a \in Addr |-> << >>]
  /\ count = [a \in Addr |-> 0]
  /\ arrived = [a \in Addr |-> << >>]
  /\ qlen = [q \in Queues |-> 0]
  /\ toPush = [q \in Queues |-> NULL]
  /\ toPop = [q \in Queues |-> NULL]
  /\ numIdle = 0
  /\ sim = "run"

----------------------------------------------------------------------------
(* assert, fatal, panic, exit and an uncaught exception end the process. *)
Abort(why) ==
  /\ sim' = why
  /\ UNCHANGED <<trace, pos, last, sched, paddr, data, memVars, mtxVars, barVars,
                 qVars, numIdle>>

(* schedule() asserts that the event is not scheduled (eventq_impl.hh). *)
Reserve(t, ev, es) ==
  LET left == sched \ {<<t, ev>>}
  IN  /\ sched' = left \cup es
      /\ sim' = IF left \cap es = {} THEN sim ELSE "assert: scheduled"

(* Event ev of t schedules the events es and then the tick of t. *)
Resume(t, ev, es) ==
  LET left == sched \ {<<t, ev>>}
  IN  /\ sched' = left \cup es \cup {<<t, "tick">>}
      /\ sim' = IF left \cap es = {} /\ <<t, "tick">> \notin left \cup es
                THEN sim ELSE "assert: scheduled"

(* Event ev of t is over and schedules nothing. *)
RestKeepsTicking(t, ev) == Resume(t, ev, {})
Rest(t, ev) == Reserve(t, ev, {})

----------------------------------------------------------------------------
(* Memory accesses and stalls. *)

Current(t)  == trace[t][pos[t]]  \* the entry a tick is about to read
LastRead(t) == trace[t][last[t]] \* the entry the TRE has read last

HasRead(t, S) ==
  last[t] < pos[t] /\ last[t] \in DOMAIN trace[t] /\ LastRead(t).op \in S

(* tick() notes the position of the entry and reads it. *)
Read(t) ==
  /\ last' = [last EXCEPT ![t] = pos[t]]
  /\ pos' = [pos EXCEPT ![t] = @ + 1]

InFlight(t, a) == \E k \in DOMAIN outs[t] : outs[t][k].addr = a

(* The address of the first blocking access in flight, if there is one. *)
FrontBlkingAccAddr(t) ==
  {outs[t][k].addr : k \in {i \in DOMAIN outs[t] : i = 1 /\ outs[t][i].blk}}
blkingAccAddrInFlight(t) ==
  {outs[t][k].addr : k \in {i \in DOMAIN outs[t] :
      outs[t][i].blk /\ \A j \in 1 .. i - 1 : ~outs[t][j].blk}}

(* addrInFlight(a, erase = true): drop the first entry for address a. *)
EraseAll(s, a)     == SelectSeq(s, LAMBDA e : e.addr # a)
EraseFirst(s, a) ==
  Without(s, CHOOSE i \in DOMAIN s :
                s[i].addr = a /\ \A j \in 1 .. i - 1 : s[j].addr # a)

(* "Tester %s has more than 100 outstanding requests" *)
SanityLimit == 100

(* The response to an access of a carries an error. *)
NeverError(a) == FALSE
isError(a)    == a \in Faulty

(***************************************************************************)
(* The end of tick() for an access, with sendPkt().  In timing mode the    *)
(* port takes the packet or refuses it; in atomic mode it answers at once. *)
(***************************************************************************)
Issue(t, cmd, a, unc, blk, pc) ==
  LET pkt  == [cmd |-> cmd, addr |-> a, unc |-> unc, pc |-> pc]
      more == Append(outs[t], [addr |-> a, blk |-> blk])
  IN  IF Len(more) > SanityLimit
      THEN /\ sim' = "panic: outstanding"
           /\ UNCHANGED <<sched, noResp, outs, retryPkt, mem>>
      ELSE \/ /\ Atomic /\ isError(a)
              /\ sim' = "panic: access failed"
              /\ UNCHANGED <<sched, noResp, outs, retryPkt, mem>>
           \/ /\ Atomic /\ ~isError(a)
              /\ outs' = [outs EXCEPT ![t] = EraseFirst(more, a)]
              /\ noResp' = IF outs'[t] = << >> THEN noResp \ {t}
                                               ELSE noResp \cup {t}
              /\ Resume(t, "tick", {})
              /\ UNCHANGED <<retryPkt, mem>>
           \/ /\ ~Atomic
              /\ outs' = [outs EXCEPT ![t] = more]
              /\ noResp' = noResp \cup {t}
              /\ \/ /\ mem' = [mem EXCEPT ![t] = Append(@, pkt)]
                    /\ Resume(t, "tick", {})
                    /\ UNCHANGED retryPkt
                 \/ /\ retryPkt' = [retryPkt EXCEPT ![t] = pkt]
                    /\ Rest(t, "tick")
                    /\ UNCHANGED mem

Ticks(t) == sim = "run" /\ <<t, "tick">> \in sched /\ retryPkt[t] = NULL

(* assert(!retryPkt) *)
TickInRetry(t) ==
  /\ sim = "run" /\ <<t, "tick">> \in sched /\ retryPkt[t] # NULL
  /\ Abort("assert: !retryPkt")

(* tick() while blocked and a dependency has not returned. *)
TickStillBlocked(t) ==
  /\ Ticks(t) /\ t \in blocked
  /\ \E a \in bpkt[t].deps : InFlight(t, a)
  /\ Rest(t, "tick")
  /\ UNCHANGED <<trace, pos, last, paddr, data, memVars, mtxVars, barVars, qVars,
                 numIdle>>

(* tick() while blocked and every dependency has returned.  The @pc of the *)
(* access is a local of the tick that read it and is gone.                 *)
TickUnblocked(t) ==
  LET b == bpkt[t]
  IN  /\ Ticks(t) /\ t \in blocked
      /\ \A a \in b.deps : ~InFlight(t, a)
      /\ blocked' = blocked \ {t}
      /\ bpkt' = [bpkt EXCEPT ![t].deps = {}]
      /\ paddr' = [paddr EXCEPT ![t] = b.addr]
      /\ data' = [data EXCEPT ![t] = b.data]
      /\ \/ /\ b.cmd = "STALL"
            /\ Resume(t, "tick", {})
            /\ UNCHANGED <<noResp, outs, retryPkt, mem>>
         \/ /\ b.cmd # "STALL"
            /\ Issue(t, b.cmd, b.addr, b.unc, b.blk, NoPC)
      /\ UNCHANGED <<trace, pos, last, mtxVars, barVars, qVars, numIdle>>

(* tick() reads an entry whose op is in S. *)
Reads(t, S) ==
  /\ Ticks(t) /\ t \notin blocked
  /\ pos[t] \in DOMAIN trace[t]
  /\ Current(t).op \in S

(* The dependencies listed in an entry that are in flight. *)
Unreturned(t, deps) == {a \in deps : InFlight(t, a)}

(* blockedPkt for an access e that has to wait for deps. *)
SavedCacheable(t, e, deps) ==
  [addr |-> e.addr, cmd |-> e.op, data |-> bpkt[t].data,
   unc |-> FALSE, blk |-> e.blk, deps |-> bpkt[t].deps \cup deps]
Saved(t, e, deps) ==
  [addr |-> e.addr, cmd |-> e.op, data |-> bpkt[t].data,
   unc |-> e.unc, blk |-> e.blk, deps |-> bpkt[t].deps \cup deps]

(* tick() reads LD, LDU, LDB, LDUB, ST, STU, STB or STUB. *)
TickAccess(t) ==
  LET e    == Current(t)
      blk  == blkingAccAddrInFlight(t)
      deps == blk \cup Unreturned(t, e.deps)
  IN  /\ Reads(t, Accesses)
      /\ Read(t)
      /\ paddr' = [paddr EXCEPT ![t] = e.addr]
      /\ \/ /\ Len(outs[t]) >= MaxOutstanding \/ deps # {}
            /\ blocked' = blocked \cup {t}
            /\ bpkt' = [bpkt EXCEPT ![t] = Saved(t, e, deps)]
            /\ sched' = sched \ {<<t, "tick">>}
            /\ sim' = IF blk # {} /\ bpkt[t].deps # {}
                      THEN "assert: deps.empty()" ELSE sim
            /\ UNCHANGED <<noResp, outs, retryPkt, mem>>
         \/ /\ Len(outs[t]) < MaxOutstanding /\ deps = {}
            /\ Issue(t, e.op, e.addr, e.unc, e.blk, e.pc)
            /\ UNCHANGED <<blocked, bpkt>>
      /\ UNCHANGED <<trace, data, mtxVars, barVars, qVars, numIdle>>

(* tick() reads STALL or STALLB.  The listed dependencies are inserted     *)
(* before the blocking access is looked for, and assert(deps.empty())      *)
(* comes with the latter.                                                  *)
TickStall(t) ==
  LET e    == Current(t)
      blk  == blkingAccAddrInFlight(t)
      deps == bpkt[t].deps \cup Unreturned(t, e.deps)
  IN  /\ Reads(t, {"STALL"})
      /\ Read(t)
      /\ data' = [data EXCEPT ![t] = e.val]
      /\ \/ /\ blk = {} /\ Unreturned(t, e.deps) = {}
            /\ Resume(t, "tick", {})
            /\ UNCHANGED <<blocked, bpkt>>
         \/ /\ blk # {} \/ Unreturned(t, e.deps) # {}
            /\ blocked' = blocked \cup {t}
            /\ bpkt' = [bpkt EXCEPT ![t] =
                 [addr |-> @.addr, cmd |-> "STALL", data |-> e.val,
                  unc |-> @.unc, blk |-> e.blk, deps |-> deps \cup blk]]
            /\ sched' = sched \ {<<t, "tick">>}
            /\ sim' = IF blk # {} /\ deps # {}
                      THEN "assert: STALL deps.empty()" ELSE sim
      /\ UNCHANGED <<trace, paddr, noResp, outs, retryPkt, mem, mtxVars,
                     barVars, qVars, numIdle>>

AllButOneIdle(n) == n >= Len(allTREs) - 1
AllIdle(n) == n = Len(allTREs)

(* tick() reads EOF. *)
halt(t) ==
  /\ Reads(t, {"EOF"})
  /\ Read(t)
  /\ numIdle' = numIdle + 1
  /\ sched' = sched \ {<<t, "tick">>}
  /\ sim' = IF AllIdle(numIdle') THEN "done" ELSE sim
  /\ UNCHANGED <<trace, paddr, data, memVars, mtxVars, barVars, qVars>>

(* tick() reads something else, or nothing after the end of the file. *)
TickInvalid(t) ==
  /\ Ticks(t) /\ t \notin blocked
  /\ pos[t] \in DOMAIN trace[t] => Current(t).op = "BAD"
  /\ Abort("fatal: invalid token")

----------------------------------------------------------------------------
(* The memory port. *)

(* The memory answers the requests of a TRE for one address in order. *)
Answerable(t) ==
  {k \in DOMAIN mem[t] : \A j \in 1 .. k - 1 : mem[t][j].addr # mem[t][k].addr}

(* A response restarts a blocked TRE, unless a tick is due already. *)
NoRestart(t) == sched' = sched
RestartWhenDrained(t) ==
  sched' = sched \cup (IF t \in blocked /\ outs'[t] = << >>
                       THEN {<<t, "tick">>} ELSE {})
Restart(t) ==
  sched' = sched \cup (IF t \in blocked THEN {<<t, "tick">>} ELSE {})

(* The response timeout is shifted if more responses are expected,         *)
(* descheduled otherwise.                                                  *)
AlwaysDisarm(t) == noResp' = noResp \ {t} /\ sim' = sim
ShiftTimeout(t) ==
  /\ noResp' = IF outs'[t] = << >> THEN noResp \ {t} ELSE noResp
  /\ sim' = IF outs'[t] # << >> /\ t \notin noResp
            THEN "assert: rescheduled" ELSE sim

(* recvTimingResp(): the k-th request of t is answered. *)
completeRequest(t, k) ==
  LET a == mem[t][k].addr
  IN  /\ sim = "run" /\ k \in Answerable(t) /\ ~isError(a)
      /\ mem' = [mem EXCEPT ![t] = Without(@, k)]
      /\ IF InFlight(t, a)
         THEN /\ outs' = [outs EXCEPT ![t] = EraseFirst(@, a)]
              /\ Restart(t)
              /\ ShiftTimeout(t)
         ELSE /\ sim' = "fatal: unsolicited"
              /\ UNCHANGED <<outs, sched, noResp>>
      /\ UNCHANGED <<trace, pos, last, paddr, data, blocked, bpkt, retryPkt, mtxVars,
                     barVars, qVars, numIdle>>

(* recvTimingResp() with an error in the packet. *)
accessFailed(t, k) ==
  /\ sim = "run" /\ k \in Answerable(t) /\ isError(mem[t][k].addr)
  /\ Abort("panic: access failed")

(* The memory system loses a request. *)
loseRequest(t, k) ==
  /\ sim = "run" /\ LossyMemory /\ k \in DOMAIN mem[t]
  /\ mem' = [mem EXCEPT ![t] = Without(@, k)]
  /\ UNCHANGED <<trace, pos, last, sched, noResp, paddr, data, outs, blocked, bpkt,
                 retryPkt, mtxVars, barVars, qVars, numIdle, sim>>

(* recvReqRetry(): the refused packet is sent again and taken (when it is  *)
(* refused again nothing changes).                                         *)
recvRetry(t) ==
  /\ sim = "run" /\ retryPkt[t] # NULL
  /\ mem' = [mem EXCEPT ![t] = Append(@, retryPkt[t])]
  /\ retryPkt' = [retryPkt EXCEPT ![t] = NULL]
  /\ IF t \in blocked THEN UNCHANGED <<sched, sim>>
                      ELSE Reserve(t, "retry", {<<t, "tick">>})
  /\ UNCHANGED <<trace, pos, last, noResp, paddr, data, outs, blocked, bpkt, mtxVars,
                 barVars, qVars, numIdle>>

----------------------------------------------------------------------------
(* The explicit primitives.  A handler runs inside tick(), when the entry  *)
(* has no latency, or as an event of its own: ev is "tick" or the          *)
(* primitive's name, and the operands are in the entry or in the registers.*)

Operand(t, ev) == IF ev = "tick" THEN Current(t).addr ELSE paddr[t]
Number(t, ev)  == IF ev = "tick" THEN Current(t).val ELSE data[t]

(* The position after the entry, and after seekg(lastTokEntryPos). *)
Advance(t, ev) == IF ev = "tick" THEN Read(t) ELSE UNCHANGED <<pos, last>>
Rewind(t, ev) ==
  IF ev = "tick" THEN last' = [last EXCEPT ![t] = pos[t]] /\ UNCHANGED pos
                 ELSE pos' = [pos EXCEPT ![t] = last[t]] /\ UNCHANGED last

ResetPaddr(t) == paddr' = [paddr EXCEPT ![t] = 0]
ResetData(t)  == data' = [data EXCEPT ![t] = 0]

(* The mutex or barrier is not there yet: read the same entry again. *)
TryAgainLater(t, ev) ==
  /\ paddr' = [paddr EXCEPT ![t] = Operand(t, ev)]
  /\ Rewind(t, ev)
  /\ Rest(t, ev)
TryAgain(t, ev) ==
  /\ paddr' = [paddr EXCEPT ![t] = Operand(t, ev)]
  /\ Rewind(t, ev)
  /\ Resume(t, ev, {})

initMutex(t, ev) ==
  LET a == Operand(t, ev)
  IN  \/ /\ a = 0 \/ a \in mutexes
         /\ Abort("fatal: mutex init")
      \/ /\ a # 0 /\ a \notin mutexes
         /\ mutexes' = mutexes \cup {a}
         /\ Advance(t, ev) /\ Resume(t, ev, {}) /\ ResetPaddr(t)
         /\ UNCHANGED <<trace, data, memVars, owner, waiting, barVars, qVars,
                        numIdle>>

FreeIfNobodyWaits(a) == waiting[a] = << >>
MutexFree(a) == owner[a] = NULL

lockMutex(t, ev) ==
  LET a == Operand(t, ev)
  IN  \/ /\ a = 0 \/ (a \in mutexes /\ owner[a] = t)
         /\ Abort("fatal: mutex lock")
      \/ /\ a # 0 /\ a \notin mutexes
         /\ TryAgain(t, ev)
         /\ UNCHANGED <<trace, data, memVars, mtxVars, barVars, qVars, numIdle>>
      \/ /\ a # 0 /\ a \in mutexes /\ MutexFree(a)
         /\ owner' = [owner EXCEPT ![a] = t]
         /\ Advance(t, ev) /\ Resume(t, ev, {}) /\ ResetPaddr(t)
         /\ UNCHANGED <<trace, data, memVars, mutexes, waiting, barVars, qVars,
                        numIdle>>
      \/ /\ a # 0 /\ a \in mutexes /\ ~MutexFree(a) /\ owner[a] # t
         /\ waiting' = [waiting EXCEPT ![a] = Append(@, t)]
         /\ Advance(t, ev) /\ Rest(t, ev) /\ ResetPaddr(t)
         /\ UNCHANGED <<trace, data, memVars, mutexes, owner, barVars, qVars,
                        numIdle>>

(* The k-th waiter is handed the mutex. *)
FreeForAll(a, k) ==
  /\ owner' = [owner EXCEPT ![a] = NULL]
  /\ waiting' = [waiting EXCEPT ![a] = Without(@, k)]
HandOver(a, k) ==
  /\ owner' = [owner EXCEPT ![a] = waiting[a][k]]
  /\ waiting' = [waiting EXCEPT ![a] = Without(@, k)]

(* The waiter to get the mutex is picked at random. *)
unlockMutex(t, ev) ==
  LET a == Operand(t, ev)
  IN  \/ /\ a = 0 \/ a \notin mutexes \/ owner[a] # t
         /\ Abort("fatal: mutex unlock")
      \/ /\ a # 0 /\ a \in mutexes /\ owner[a] = t
         /\ \/ /\ waiting[a] = << >>
               /\ owner' = [owner EXCEPT ![a] = NULL]
               /\ Resume(t, ev, {})
               /\ UNCHANGED waiting
            \/ \E k \in DOMAIN waiting[a] :
                 /\ HandOver(a, k)
                 /\ Resume(t, ev, {<<waiting[a][k], "tick">>})
         /\ Advance(t, ev) /\ ResetPaddr(t)
         /\ UNCHANGED <<trace, data, memVars, mutexes, barVars, qVars, numIdle>>

initBarrier(t, ev) ==
  LET a == Operand(t, ev)
      n == Number(t, ev)
  IN  \/ /\ a = 0 \/ n = 0 \/ count[a] # 0
         /\ Abort("fatal: barrier init")
      \/ /\ a # 0 /\ n # 0 /\ count[a] = 0
         /\ count' = [count EXCEPT ![a] = n]
         /\ Advance(t, ev) /\ Resume(t, ev, {}) /\ ResetPaddr(t) /\ ResetData(t)
         /\ UNCHANGED <<trace, memVars, mtxVars, arrived, qVars, numIdle>>

(* The last of count[a] arrivals releases them all, itself included. *)
Complete(a, all) == Len(all) = count[a]
ReleaseNone(s) == {}
Release(s) == Range(s) \X {"tick"}

(* A TRE that has arrived twice cannot be released. *)
waitAtBarrier(t, ev) ==
  LET a   == Operand(t, ev)
      all == Append(arrived[a], t)
  IN  \/ /\ a = 0
         /\ Abort("assert: paddr")
      \/ /\ a # 0 /\ count[a] = 0
         /\ TryAgain(t, ev)
         /\ UNCHANGED <<trace, data, memVars, mtxVars, barVars, qVars, numIdle>>
      \/ /\ a # 0 /\ count[a] # 0 /\ Complete(a, all) /\ ~IsInjective(all)
         /\ Abort("assert: scheduled")
      \/ /\ a # 0 /\ count[a] # 0 /\ Complete(a, all) /\ IsInjective(all)
         /\ arrived' = [arrived EXCEPT ![a] = << >>]
         /\ Advance(t, ev) /\ Resume(t, ev, Release(arrived[a])) /\ ResetPaddr(t)
         /\ UNCHANGED <<trace, data, memVars, mtxVars, count, qVars, numIdle>>
      \/ /\ a # 0 /\ count[a] # 0 /\ ~Complete(a, all)
         /\ arrived' = [arrived EXCEPT ![a] = all]
         /\ Advance(t, ev) /\ Rest(t, ev) /\ ResetPaddr(t)
         /\ UNCHANGED <<trace, data, memVars, mtxVars, count, qVars, numIdle>>

Doze(t, ev) ==
  /\ Advance(t, ev) /\ Resume(t, ev, {})
  /\ UNCHANGED <<trace, paddr, data, memVars, mtxVars, barVars, qVars, numIdle>>
sleep(t, ev) ==
  /\ Advance(t, ev) /\ Rest(t, ev)
  /\ UNCHANGED <<trace, paddr, data, memVars, mtxVars, barVars, qVars, numIdle>>

(* allTREs is indexed by the PE number, from 0; reading past its end is a  *)
(* crash.  A TRE that wakes itself schedules its tickEvent twice.          *)
wake(t, ev) ==
  LET n == Number(t, ev)
      u == allTREs[n + 1]
  IN  \/ /\ n = 0
         /\ Abort("assert: wake data")
      \/ /\ n >= Len(allTREs)
         /\ Abort("crash: allTREs")
      \/ /\ n \in 1 .. Len(allTREs) - 1 /\ <<u, "tick">> \in sched \ {<<t, ev>>}
         /\ Abort("fatal: already awake")
      \/ /\ n \in 1 .. Len(allTREs) - 1 /\ <<u, "tick">> \notin sched \ {<<t, ev>>}
         /\ Advance(t, ev) /\ Resume(t, ev, {<<u, "tick">>}) /\ ResetData(t)
         /\ UNCHANGED <<trace, paddr, memVars, mtxVars, barVars, qVars, numIdle>>

Overfull(q) == qlen[q] > QueueDepth
Full(q) == qlen[q] = QueueDepth

(* The TRE waiting at the other end of the queue is started and its        *)
(* pointer cleared.                                                        *)
StartTicking(u, op) == IF u = NULL THEN {} ELSE {<<u, "tick">>}
Start(u, op) == IF u = NULL THEN {} ELSE {<<u, op>>}
ClearPusher(q) == toPush' = [toPush EXCEPT ![q] = NULL]

(* A push to a full queue keeps the sink in data: pop() will schedule the  *)
(* pushEvent of the TRE, which starts over.                                *)
push(t, ev) ==
  LET q == <<t, Number(t, ev)>>
  IN  \/ /\ q \notin Queues
         /\ Abort("exit: no queue")
      \/ /\ q \in Queues /\ Full(q)
         /\ toPush' = [toPush EXCEPT ![q] = t]
         /\ data' = [data EXCEPT ![t] = q[2]]
         /\ Advance(t, ev) /\ Rest(t, ev)
         /\ UNCHANGED <<trace, paddr, memVars, mtxVars, barVars, qlen, toPop,
                        numIdle>>
      \/ /\ q \in Queues /\ ~Full(q)
         /\ qlen' = [qlen EXCEPT ![q] = @ + 1]
         /\ toPop' = [toPop EXCEPT ![q] = NULL]
         /\ Advance(t, ev) /\ ResetData(t)
         /\ Resume(t, ev, Start(toPop[q], "POP"))
         /\ UNCHANGED <<trace, paddr, memVars, mtxVars, barVars, toPush, numIdle>>

pop(t, ev) ==
  LET q == <<Number(t, ev), t>>
  IN  \/ /\ q \notin Queues
         /\ Abort("exit: no queue")
      \/ /\ q \in Queues /\ qlen[q] = 0
         /\ toPop' = [toPop EXCEPT ![q] = t]
         /\ data' = [data EXCEPT ![t] = q[1]]
         /\ Advance(t, ev) /\ Rest(t, ev)
         /\ UNCHANGED <<trace, paddr, memVars, mtxVars, barVars, qlen, toPush,
                        numIdle>>
      \/ /\ q \in Queues /\ qlen[q] # 0
         /\ qlen' = [qlen EXCEPT ![q] = @ - 1]
         /\ ClearPusher(q)
         /\ Advance(t, ev) /\ ResetData(t)
         /\ Resume(t, ev, Start(toPush[q], "PUSH"))
         /\ UNCHANGED <<trace, paddr, memVars, mtxVars, barVars, toPop, numIdle>>

(* dumpstats(), resetstats(), dumpresetstats() *)
stats(t, ev) ==
  /\ Advance(t, ev) /\ Resume(t, ev, {})
  /\ UNCHANGED <<trace, paddr, data, memVars, mtxVars, barVars, qVars, numIdle>>

Perform(t, ev, op) ==
  \/ op = "MTXINIT"   /\ initMutex(t, ev)
  \/ op = "MTXLOCK"   /\ lockMutex(t, ev)
  \/ op = "MTXUNLOCK" /\ unlockMutex(t, ev)
  \/ op = "BARINIT"   /\ initBarrier(t, ev)
  \/ op = "BARWAIT"   /\ waitAtBarrier(t, ev)
  \/ op = "SLEEP"     /\ sleep(t, ev)
  \/ op = "WAKE"      /\ wake(t, ev)
  \/ op = "PUSH"      /\ push(t, ev)
  \/ op = "POP"       /\ pop(t, ev)
  \/ op \in Stats     /\ stats(t, ev)

(* tick() reads a primitive that takes no cycles. *)
TickPerform(t) ==
  /\ Reads(t, Prims) /\ Current(t).cyc = 0
  /\ Perform(t, "tick", Current(t).op)

(* tick() reads a primitive and schedules its event. *)
TickDefer(t) ==
  LET e == Current(t)
  IN  /\ Reads(t, Prims) /\ e.cyc # 0
      /\ Read(t)
      /\ paddr' = IF e.op \in Mutexes \cup Barriers
                  THEN [paddr EXCEPT ![t] = e.addr] ELSE paddr
      /\ data' = IF e.op \in {"BARINIT", "WAKE", "PUSH", "POP"}
                 THEN [data EXCEPT ![t] = e.val] ELSE data
      /\ Reserve(t, "tick", {<<t, e.op>>})
      /\ UNCHANGED <<trace, memVars, mtxVars, barVars, qVars, numIdle>>

(* The event of a primitive. *)
PrimEvent(t, op) ==
  /\ sim = "run" /\ <<t, op>> \in sched
  /\ Perform(t, op, op)

----------------------------------------------------------------------------
(***************************************************************************)
(* The watchdogs.  They are progress_check (by default 10^9) cycles away,  *)
(* so nothing else is left to happen when one runs; or, if WatchdogExpires,*)
(* only the ends of stalls and of primitives with latencies of that order. *)
(***************************************************************************)
MemoryQuiet == \A t \in TREs : mem[t] = << >> /\ retryPkt[t] = NULL

LongWaits ==
  \A t \in TREs : <<t, "tick">> \in sched => HasRead(t, {"STALL"})

noRequest(t) ==
  /\ sim = "run" /\ t \in TREs
  /\ MemoryQuiet /\ (sched = {} \/ (WatchdogExpires /\ LongWaits))
  /\ Abort("panic: no request")

noResponse(t) ==
  /\ sim = "run" /\ t \in noResp
  /\ MemoryQuiet /\ sched = {}
  /\ Abort("panic: no response")

----------------------------------------------------------------------------
TickEvent(t) ==
  \/ TickInRetry(t) \/ TickStillBlocked(t) \/ TickUnblocked(t)
  \/ TickAccess(t)  \/ TickStall(t)        \/ TickPerform(t)
  \/ TickDefer(t)   \/ halt(t)             \/ TickInvalid(t)

(* An event of t that is not a watchdog. *)
Run(t) == TickEvent(t) \/ \E op \in Prims : PrimEvent(t, op)

Respond(t) ==
  \E k \in DOMAIN mem[t] : completeRequest(t, k) \/ accessFailed(t, k)

Port(t) ==
  Respond(t) \/ recvRetry(t) \/ \E k \in DOMAIN mem[t] : loseRequest(t, k)

Watchdog(t) == noRequest(t) \/ noResponse(t)

(* The process has ended. *)
Stopped == sim # "run" /\ UNCHANGED vars

Next == Stopped \/ \E t \in TREs : Run(t) \/ Port(t) \/ Watchdog(t)

Spec == Init /\ [][Next]_vars

(***************************************************************************)
(* gem5 serves its events in the order of their ticks, so every scheduled  *)
(* event runs; the memory system answers and retries (unless it is lossy). *)
(***************************************************************************)
FairSpec ==
  Spec /\ \A t \in TREs : /\ WF_vars(Run(t))
                          /\ WF_vars(Respond(t))
                          /\ WF_vars(recvRetry(t))
                          /\ WF_vars(Watchdog(t))

----------------------------------------------------------------------------
ReplayOK ==
  /\ trace \in [TREs -> Seq(Entry)]
  /\ pos \in [TREs -> Nat \ {0}]
  /\ last \in [TREs -> Nat \ {0}]
  /\ sched \subseteq TREs \X Events
  /\ paddr \in [TREs -> Addr]
  /\ data \in [TREs -> Nat]
  /\ numIdle \in Nat
  /\ sim \in Outcomes

MemOK ==
  /\ noResp \subseteq TREs
  /\ outs \in [TREs -> Seq(Flight)]
  /\ blocked \subseteq TREs
  /\ bpkt \in [TREs -> BlockedPkt]
  /\ retryPkt \in [TREs -> Packet \cup {NULL}]
  /\ mem \in [TREs -> Seq(Packet)]

MtxOK ==
  /\ mutexes \subseteq Addr
  /\ owner \in [Addr -> TREs \cup {NULL}]
  /\ waiting \in [Addr -> Seq(TREs)]

BarOK ==
  /\ count \in [Addr -> Nat]
  /\ arrived \in [Addr -> Seq(TREs)]

QueueOK ==
  /\ qlen \in [Queues -> 0 .. QueueDepth]
  /\ toPush \in [Queues -> TREs \cup {NULL}]
  /\ toPop \in [Queues -> TREs \cup {NULL}]

(* The state of the replay engines has its types: among them, no queue     *)
(* holds more than QueueDepth elements or fewer than none.                 *)
TypeOK == ReplayOK /\ MemOK /\ MtxOK /\ BarOK /\ QueueOK

NoEvent(t) == \A e \in Events : <<t, e>> \notin sched

In(t, s)     == \E k \in DOMAIN s : s[k] = t
AtMutex(t)   == \E a \in Addr : In(t, waiting[a])
AtBarrier(t) == \E a \in Addr : In(t, arrived[a])
AtQueue(t)   == \E q \in Queues : t \in {toPush[q], toPop[q]}
Waits(t)     == AtMutex(t) \/ AtBarrier(t) \/ AtQueue(t) \/ retryPkt[t] # NULL

(* A TRE whose events are all over is waiting somewhere, blocked on an     *)
(* access in flight, asleep or at the end of its trace: no path through    *)
(* tick() or a handler forgets to schedule what runs the TRE next.         *)
NeverForgotten ==
  sim = "run" =>
    \A t \in TREs : NoEvent(t) =>
      \/ Waits(t)
      \/ t \in blocked /\ outs[t] # << >>
      \/ HasRead(t, {"SLEEP", "EOF"})

(* A TRE has one thing to run it: at most one event of its own scheduled,  *)
(* none while it waits for a mutex, a barrier, a queue or a retry, and it  *)
(* waits in one place.  A tick that came while another is due would trip   *)
(* the assertion in schedule(); one that came during a wait would replay   *)
(* the trace past a synchronization that has not happened.                 *)
RunsOnce ==
  sim = "run" =>
    \A t \in TREs :
      /\ \A e, f \in Events :
           <<t, e>> \in sched /\ <<t, f>> \in sched => e = f
      /\ Waits(t) => NoEvent(t) /\ t \notin blocked
      /\ \A a, b \in Addr :
           /\ In(t, waiting[a]) /\ In(t, waiting[b]) => a = b
           /\ In(t, arrived[a]) /\ In(t, arrived[b]) => a = b
           /\ ~(In(t, waiting[a]) /\ In(t, arrived[b]))
      /\ (AtMutex(t) \/ AtBarrier(t)) => ~AtQueue(t) /\ retryPkt[t] = NULL

(* Four assertions about the events of a TRE hold: no event is scheduled   *)
(* twice and the timeout that is shifted is scheduled (schedule() and      *)
(* reschedule() in eventq_impl.hh), no tick comes during a retry           *)
(* (tre.cc:306), and blockedPkt is clean when an access blocks             *)
(* (tre.cc:392).  Not the one for stalls (tre.cc:455, StallAssertHolds)    *)
(* nor those on operands, assert(paddr) and assert(data), which a trace    *)
(* that names 0 trips.                                                     *)
EventAssertsHold ==
  sim \notin {"assert: scheduled", "assert: rescheduled", "assert: !retryPkt",
              "assert: deps.empty()"}

(* A blocked access or stall that no tick is due for waits for a response  *)
(* that will restart it: one of its dependencies is in flight, or it has   *)
(* none and the TRE has as many requests in flight as it may.              *)
BlockedHasCause ==
  sim = "run" =>
    \A t \in blocked : <<t, "tick">> \notin sched =>
      IF bpkt[t].deps = {} THEN Len(outs[t]) = MaxOutstanding
                           ELSE \E a \in bpkt[t].deps : InFlight(t, a)

(* noResponseEvent is scheduled exactly while responses are expected, so a *)
(* request that is never answered is noticed, and completeRequest() may    *)
(* reschedule the event.                                                   *)
WatchdogArmed == \A t \in TREs : t \in noResp <=> outs[t] # << >>

(* outstandingAddrs holds an entry for each request that the memory or     *)
(* retryPkt holds and no other, so no response is unsolicited and none is  *)
(* taken for the response to another address.                              *)
OutstandingIsUnanswered ==
  /\ sim # "fatal: unsolicited"
  /\ sim = "run" =>
    \A t \in TREs, a \in Addr :
      Cardinality({k \in DOMAIN outs[t] : outs[t][k].addr = a})
        = Cardinality({k \in DOMAIN mem[t] : mem[t][k].addr = a})
            + (IF retryPkt[t] # NULL /\ retryPkt[t].addr = a THEN 1 ELSE 0)

Sends(t) == Len(outs'[t]) > Len(outs[t])

(* tick() puts an access in flight only when no address it depends on and  *)
(* no blocking access is in flight and the limit is not reached, and what  *)
(* it puts there is the last entry read, also when the access had to wait  *)
(* in blockedPkt first.                                                    *)
IssueInOrder ==
  [][\A t \in TREs : Sends(t) =>
       LET e == trace[t][last'[t]]
       IN  /\ \A k \in DOMAIN outs[t] :
                ~outs[t][k].blk /\ outs[t][k].addr \notin e.deps
           /\ Len(outs[t]) < MaxOutstanding
           /\ outs'[t] = Append(outs[t], [addr |-> e.addr, blk |-> e.blk])]_vars

Sent(t) ==
  IF retryPkt'[t] # NULL THEN retryPkt'[t] ELSE mem'[t][Len(mem'[t])]

(* The packet given to the port is the access of the trace: its direction, *)
(* its address and its cacheability survive a wait in blockedPkt.          *)
SentAsTraced ==
  [][\A t \in TREs : Sends(t) =>
       LET e == trace[t][last'[t]]
       IN  /\ Sent(t).cmd = e.op
           /\ Sent(t).addr = e.addr
           /\ Sent(t).unc = e.unc]_vars

(* A stall is over only when the values it uses and the blocking accesses  *)
(* before it have returned.                                                *)
StallWaits ==
  sim = "run" =>
    \A t \in TREs :
      <<t, "tick">> \in sched /\ t \notin blocked /\ HasRead(t, {"STALL"}) =>
        \A k \in DOMAIN outs[t] :
          ~outs[t][k].blk /\ outs[t][k].addr \notin LastRead(t).deps

(* The engine and the memory agree on what is in flight, and a stall does  *)
(* not end before what it depends on is there, although addresses repeat   *)
(* and responses come in any order.                                        *)
InFlightAgrees == OutstandingIsUnanswered /\ StallWaits

(* TRE t has got the mutex at a and has not come to the matching unlock. *)
InCritical(t, a) ==
  \E i \in DOMAIN trace[t] :
    /\ i < pos[t]
    /\ trace[t][i].op = "MTXLOCK" /\ trace[t][i].addr = a
    /\ i = pos[t] - 1 => ~In(t, waiting[a]) /\ <<t, "MTXLOCK">> \notin sched
    /\ \A j \in DOMAIN trace[t] : i < j /\ j < pos[t] =>
         ~(trace[t][j].op = "MTXUNLOCK" /\ trace[t][j].addr = a)

(* Two TREs never replay a critical section of the same mutex at once: the *)
(* positions in the traces respect the lock, through waits and hand-overs  *)
(* to a random waiter, not only the field owner.                           *)
MutualExclusion ==
  sim = "run" =>
    \A a \in Addr : \A t, u \in TREs :
      InCritical(t, a) /\ InCritical(u, a) => t = u

(* A mutex somebody waits for is owned: unlockMutex() never leaves it free *)
(* past a waiter, which nobody would start then.                           *)
NoLostUnlock ==
  \A a \in Addr : waiting[a] # << >> => owner[a] # NULL

(* A barrier never holds as many TREs as it has participants: the arrival  *)
(* that completes it has released them.                                    *)
BarrierNotFull ==
  \A a \in Addr : arrived[a] # << >> => Len(arrived[a]) < count[a]

(* TREs leave a barrier all together, when the last participant arrives,   *)
(* and each of them is started.                                            *)
BarrierReleasesAll ==
  [][\A a \in Addr :
       arrived'[a] # arrived[a] /\ Len(arrived'[a]) <= Len(arrived[a]) =>
         /\ arrived'[a] = << >>
         /\ Len(arrived[a]) + 1 = count[a]
         /\ \A k \in DOMAIN arrived[a] : <<arrived[a][k], "tick">> \in sched']_vars

(* Only the source of a queue waits to push, and only while it is full;    *)
(* only its sink waits to pop, and only while it is empty: neither sleeps  *)
(* through the operation of the other that it waits for.                   *)
QueueWaits ==
  \A q \in Queues :
    /\ toPush[q] # NULL => toPush[q] = q[1] /\ qlen[q] = QueueDepth
    /\ toPop[q] # NULL => toPop[q] = q[2] /\ qlen[q] = 0

(* The last entry t has read is a PUSH or POP that is yet to be performed, *)
(* by an event of its own or when the other end of the queue lets t go on. *)
Pending(t) == AtQueue(t) \/ <<t, "PUSH">> \in sched \/ <<t, "POP">> \in sched
Frontier(t) == IF Pending(t) THEN pos[t] - 1 ELSE pos[t]

(* The PUSHes or POPs of t that name n, and those it has performed. *)
Listed(t, op, n) ==
  {i \in DOMAIN trace[t] : trace[t][i].op = op /\ trace[t][i].val = n}
Performed(t, op, n) == {i \in Listed(t, op, n) : i < Frontier(t)}

(* The traces at the ends of q have no EOF but at the end, a PUSH for each *)
(* POP, and no more PUSHes than q can keep; TracesReplayable says that the *)
(* counts are so once the calls of the emulation have returned.            *)
EndsOnce(t) ==
  \A i \in DOMAIN trace[t] : trace[t][i].op = "EOF" => i = Len(trace[t])
Matched(q) ==
  LET pushes == Cardinality(Listed(q[1], "PUSH", q[2]))
      pops   == Cardinality(Listed(q[2], "POP", q[1]))
  IN  /\ EndsOnce(q[1]) /\ EndsOnce(q[2])
      /\ pops <= pushes /\ pushes <= pops + QueueDepth

(* What push() has put in a queue and pop() has not taken is in the queue: *)
(* no PUSH or POP is replayed twice or passed over, through full and empty *)
(* queues, latencies and restarts.  So when the traces match, nobody waits *)
(* at a queue for a TRE that has halted.  (Of the queues between two TREs: *)
(* initQueues also makes some for PEs without a trace.)                    *)
Conserved(q) ==
  Cardinality(Performed(q[1], "PUSH", q[2])) =
    Cardinality(Performed(q[2], "POP", q[1])) + qlen[q]
NotStranded(q) ==
  Matched(q) => /\ toPop[q] # NULL => ~HasRead(q[1], {"EOF"})
                /\ toPush[q] # NULL => ~HasRead(q[2], {"EOF"})
QueuesReplayed ==
  \A q \in Queues \cap (TREs \X TREs) :
    /\ sim \in {"run", "done"} => Conserved(q)
    /\ sim = "run" => NotStranded(q)

(* The simulation ends with "all TREs are done" only when each of them has *)
(* read its trace to the end.                                              *)
DoneMeansReplayed ==
  sim = "done" => \A t \in TREs : HasRead(t, {"EOF"}) /\ NoEvent(t)

Asleep(t) == HasRead(t, {"SLEEP"}) /\ NoEvent(t) /\ ~Waits(t) /\ t \notin blocked

(* This step is a WAKE of t, run inside tick() or as its event, that       *)
(* starts its target.                                                      *)
Target(t, ev) == allTREs[Number(t, ev) + 1]
WakeStep(t, ev) ==
  /\ sim = "run"
  /\ IF ev = "tick" THEN Reads(t, {"WAKE"}) /\ Current(t).cyc = 0
                    ELSE <<t, ev>> \in sched
  /\ Number(t, ev) \in 1 .. Len(allTREs) - 1
  /\ <<Target(t, ev), "tick">> \notin sched \ {<<t, ev>>}
  /\ wake(t, ev)

WakesSleeper ==
  \A t \in TREs, ev \in {"tick", "WAKE"} :
    WakeStep(t, ev) => Asleep(Target(t, ev))

(* wake() starts only a TRE that sleeps: that the "Target TRE %u already   *)
(* awake!" is fatal.                                                       *)
WakesSleepersOnly == [][WakesSleeper]_vars

NoWakes ==
  \A t \in TREs : \A i \in DOMAIN trace[t] : trace[t][i].op # "WAKE"

(* Without a WAKE no misuse makes the engines lose a TRE, run it twice,    *)
(* trip an assertion about its events (EventAssertsHold) or give a mutex   *)
(* to two: the handlers keep each TRE in one place whatever its trace asks *)
(* for.                                                                    *)
SafeUnlessWoken ==
  NoWakes => NeverForgotten /\ RunsOnce /\ EventAssertsHold /\ MutualExclusion

(* What holds even when wake() cuts short whatever a TRE waits for: nobody *)
(* waits for a mutex that is free or at the wrong end of a queue, the      *)
(* response timeout is scheduled while responses are due, and the engine   *)
(* still knows what is in flight.                                          *)
SurvivesWakes ==
  NoLostUnlock /\ QueueWaits /\ WatchdogArmed /\ InFlightAgrees

(* The accesses of t to address a that tick() has read and issued: all it  *)
(* has read but the one that is blocked.                                   *)
IssuedTo(t, a) ==
  {i \in DOMAIN trace[t] : /\ trace[t][i].op \in Accesses /\ trace[t][i].addr = a
                           /\ i < pos[t] /\ ~(i = pos[t] - 1 /\ t \in blocked)}

(* No failure is passed over: as long as the simulation goes on, and when  *)
(* it ends with "all TREs are done", every access that the memory is going *)
(* to answer with an error is still outstanding; completeRequest() has     *)
(* taken no such answer for the data.                                      *)
FailuresStop ==
  sim \in {"run", "done"} =>
    \A t \in TREs : \A a \in Faulty :
      Cardinality(IssuedTo(t, a)) =
        Cardinality({k \in DOMAIN outs[t] : outs[t][k].addr = a})

(* Every well-formed set of traces is replayed to the end: no wait for a   *)
(* response, a retry, a mutex or barrier that is yet to be initialized, a  *)
(* lock, a barrier or a queue lasts for ever.  Traces with SLEEP and WAKE  *)
(* may end otherwise in one way: a WAKE comes before its target sleeps,    *)
(* which wake() does not allow.                                            *)
AllHalt ==
  <>(sim = "done" \/ (sim = "fatal: already awake" /\ ~NoWakes))

(* A trace has an access that the memory answers with an error. *)
SomeAccessFails ==
  \E t \in TREs : \E i \in DOMAIN trace[t] :
    trace[t][i].op \in Accesses /\ trace[t][i].addr \in Faulty

(* In atomic mode an access is answered before the next entry is read: a   *)
(* trace with an access that fails ends in the panic of completeRequest(), *)
(* never as done, and any other is replayed to the end.                    *)
HaltsUnlessFailed ==
  <>(sim = IF SomeAccessFails THEN "panic: access failed" ELSE "done")

(* When the memory loses a request the simulation does not hang: it ends,  *)
(* or one of the watchdogs ends it.                                        *)
NeverHangs == <>(sim # "run")

----------------------------------------------------------------------------
(* What comments and assertions of the code say of it, and it does not do. *)

(* assert(blockedPkt.deps.empty()) when a STALL meets a blocking access in *)
(* flight.                                                                 *)
StallAssertHolds == sim # "assert: STALL deps.empty()"
=============================================================================
