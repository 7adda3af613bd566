----------------------------- MODULE TREPlaced -----------------------------
(***************************************************************************)
(* While wake() starts only TREs that sleep, every TRE is where the last   *)
(* entry it has read says (Placed): Init establishes this and every step   *)
(* preserves it.  First the primitives (mutexes, barriers, queues, sleep   *)
(* and wake), then ticks, accesses and the port.  TRESafety draws the      *)
(* conclusions.                                                            *)
(***************************************************************************)
EXTENDS TREProofs

----------------------------------------------------------------------------
(* Vectors of waiting TREs. *)

(* The TREs in a vector after push_back. *)
LEMMA InAppend ==
  ASSUME NEW S, NEW s \in Seq(S), NEW t \in S, NEW u
  PROVE  /\ In(u, Append(s, t)) <=> In(u, s) \/ u = t
         /\ IsInjective(s) /\ ~In(t, s) => IsInjective(Append(s, t))
<1>1. DOMAIN s = 1 .. Len(s) /\ Len(s) \in Nat
  BY SeqShape, ZenonT(60)
<1>2. /\ DOMAIN Append(s, t) = 1 .. Len(s) + 1
      /\ \A k \in 1 .. Len(s) : Append(s, t)[k] = s[k]
      /\ Append(s, t)[Len(s) + 1] = t
  BY AppendShape
<1>3. In(u, Append(s, t)) <=> In(u, s) \/ u = t
  BY <1>1, <1>2 DEF In
<1>4. IsInjective(s) /\ ~In(t, s) => IsInjective(Append(s, t))
  BY <1>1, <1>2 DEF In, IsInjective
<1>5. QED
  BY <1>3, <1>4, ZenonT(60)

(* The TREs in a vector without repetitions after one is erased. *)
LEMMA InWithout ==
  ASSUME NEW S, NEW s \in Seq(S), NEW k \in DOMAIN s, IsInjective(s), NEW u
  PROVE  /\ In(u, Without(s, k)) <=> In(u, s) /\ u # s[k]
         /\ IsInjective(Without(s, k))
<1> DEFINE w == Without(s, k)
<1>1. DOMAIN s = 1 .. Len(s) /\ Len(s) \in Nat /\ k \in 1 .. Len(s)
  BY SeqShape, ZenonT(60)
<1>2. w \in Seq(S) /\ Len(w) = Len(s) - 1
  BY WithoutSeq, ZenonT(60)
<1>3. \A j \in 1 .. Len(s) - 1 : w[j] = IF j < k THEN s[j] ELSE s[j + 1]
  BY WithoutSeq, ZenonT(60)
<1>4. DOMAIN w = 1 .. Len(s) - 1
  BY <1>2, SeqShape, ZenonT(60)
<1> HIDE DEF w
<1>5. IsInjective(w)
  <2> DEFINE g(j) == IF j < k THEN j ELSE j + 1
  <2>1. \A j \in 1 .. Len(s) - 1 : g(j) \in 1 .. Len(s) /\ w[j] = s[g(j)]
    BY <1>1, <1>3
  <2>2. \A i, j \in 1 .. Len(s) - 1 : g(i) = g(j) => i = j
    BY <1>1
  <2> HIDE DEF g
  <2>3. QED
    BY <1>1, <1>4, <2>1, <2>2 DEF IsInjective
<1>6. ASSUME In(u, w) PROVE In(u, s) /\ u # s[k]
  <2>1. PICK j \in 1 .. Len(s) - 1 : w[j] = u
    BY <1>4, <1>6, ZenonT(60) DEF In
  <2>2. PICK i \in 1 .. Len(s) : i # k /\ s[i] = u
    BY <1>1, <1>3, <2>1
  <2>3. QED
    BY <1>1, <2>2, ZenonT(60) DEF In, IsInjective
<1>7. ASSUME In(u, s), u # s[k] PROVE In(u, w)
  <2>1. PICK i \in 1 .. Len(s) : s[i] = u /\ i # k
    BY <1>1, <1>7, ZenonT(60) DEF In
  <2>2. CASE i < k
    <3>1. i \in 1 .. Len(s) - 1 /\ w[i] = u
      BY <1>1, <1>3, <2>1, <2>2
    <3>2. QED
      BY <1>4, <3>1, ZenonT(60) DEF In
  <2>3. CASE i > k
    <3>1. i - 1 \in 1 .. Len(s) - 1 /\ w[i - 1] = s[i - 1 + 1]
      BY <1>1, <1>3, <2>1, <2>3
    <3>2. QED
      BY <1>1, <1>4, <2>1, <3>1 DEF In
  <2>4. QED
    BY <1>1, <2>1, <2>2, <2>3
<1>8. QED
  BY <1>5, <1>6, <1>7, ZenonT(60) DEF w

----------------------------------------------------------------------------
(* TREs that a step leaves alone. *)

SameTRE(u) ==
  /\ trace' = trace /\ pos'[u] = pos[u] /\ last'[u] = last[u]
  /\ paddr'[u] = paddr[u] /\ data'[u] = data[u]
  /\ bpkt'[u] = bpkt[u] /\ retryPkt'[u] = retryPkt[u]
  /\ u \in blocked' <=> u \in blocked
  /\ u \in blocked => outs'[u] = outs[u]

SameWaits(u) ==
  /\ \A a \in Addr : /\ In(u, waiting'[a]) <=> In(u, waiting[a])
                     /\ In(u, arrived'[a]) <=> In(u, arrived[a])
  /\ \A q \in Queues : /\ toPush'[q] = u <=> toPush[q] = u
                       /\ toPop'[q] = u <=> toPop[q] = u

SameEvents(u) == \A e \in Events : <<u, e>> \in sched' <=> <<u, e>> \in sched

KeepsMutexes(u) == \A a \in Addr : owner[a] = u => owner'[a] = u

(* A step that changes nothing about a TRE leaves it in its place. *)
LEMMA Kept ==
  ASSUME NEW u \in TREs, PlacedTRE(u),
         SameTRE(u), SameWaits(u), SameEvents(u), KeepsMutexes(u)
  PROVE  PlacedTRE(u)'
<1> USE ZenonT(60)
<1>1. (JustRead(u) <=> JustRead(u)') /\ LastRead(u)' = LastRead(u)
  BY DEF SameTRE, JustRead, LastRead
<1>2. NoEvent(u)' <=> NoEvent(u)
  BY DEF SameEvents, NoEvent
<1>3. OneEvent(u)'
  BY DEF SameEvents, PlacedTRE, OneEvent
<1>4. EventIsRead(u)'
  <2>1. Prims \subseteq Events
    BY DEF Events
  <2>2. QED
    BY <1>1, <2>1 DEF SameEvents, SameTRE, PlacedTRE, EventIsRead
<1>5. MutexWait(u)' /\ BarrierWait(u)'
  BY <1>1, <1>2 DEF SameWaits, PlacedTRE, MutexWait, BarrierWait
<1>6. QueueWait(u)'
  BY <1>1, <1>2 DEF SameWaits, SameTRE, PlacedTRE, QueueWait
<1>7. RetryWait(u)' /\ BlockedWait(u)'
  BY <1>1, <1>2 DEF SameTRE, PlacedTRE, RetryWait, BlockedWait
<1>8. HasCause(u)'
  <2>1. Waits(u)' <=> Waits(u)
    BY DEF SameWaits, SameTRE, Waits, AtMutex, AtBarrier, AtQueue
  <2>2. QED
    BY <1>1, <1>2, <2>1 DEF SameTRE, PlacedTRE, HasCause
<1>9. CriticalOwns(u)'
  <2>1. "MTXLOCK" \in Events
    BY DEF Events, Prims, Mutexes
  <2>2. ASSUME NEW a \in Addr PROVE InCritical(u, a)' => InCritical(u, a)
    BY <2>1, SMT DEF SameTRE, SameWaits, SameEvents, InCritical
  <2>3. QED
    BY <2>2 DEF PlacedTRE, CriticalOwns, KeepsMutexes
<1>10. QED
  BY <1>3, <1>4, <1>5, <1>6, <1>7, <1>8, <1>9 DEF PlacedTRE

----------------------------------------------------------------------------
(* The TRE whose event runs. *)

(* A TRE that has one event and does not wait is in its place. *)
LEMMA Running ==
  ASSUME NEW u \in TREs, NEW e \in Events,
         \A f \in Events : <<u, f>> \in sched' <=> f = e,
         ~Waits(u)', e # "tick" => EventIsRead(u)',
         BlockedWait(u)', CriticalOwns(u)'
  PROVE  PlacedTRE(u)'
<1> USE ZenonT(60)
<1>1. ~NoEvent(u)' /\ OneEvent(u)'
  BY DEF NoEvent, OneEvent
<1>2. EventIsRead(u)'
  BY DEF EventIsRead, Events, Prims, Mutexes, Barriers, Stats
<1>3. MutexWait(u)' /\ BarrierWait(u)'
  BY DEF Waits, AtMutex, AtBarrier, MutexWait, BarrierWait
<1>4. QueueWait(u)' /\ RetryWait(u)'
  BY DEF Waits, AtQueue, QueueWait, RetryWait
<1>5. QED
  BY <1>1, <1>2, <1>3, <1>4 DEF PlacedTRE, HasCause

(* How the last event of t, ending with a tick of t and the events es of   *)
(* other TREs, changes the event queue.                                    *)
LEMMA Resumed ==
  ASSUME NEW t \in TREs, NEW ev \in Events, NEW es,
         \A f \in Events : <<t, f>> \in sched <=> f = ev,
         es \cap sched = {}, \A f : <<t, f>> \notin es,
         Resume(t, ev, es)
  PROVE  /\ sim' = sim
         /\ \A f \in Events : <<t, f>> \in sched' <=> f = "tick"
         /\ \A u, f : u # t =>
              (<<u, f>> \in sched' <=> <<u, f>> \in sched \/ <<u, f>> \in es)
<1> USE ZenonT(60)
<1> DEFINE left == sched \ {<<t, ev>>}
<1>1. "tick" \in Events
  BY DEF Events
<1>2. \A f \in Events : <<t, f>> \notin left
  OBVIOUS
<1>3. left \cap es = {} /\ <<t, "tick">> \notin left \cup es
  BY <1>1, <1>2
<1>4. sched' = left \cup es \cup {<<t, "tick">>} /\ sim' = sim
  BY <1>3 DEF Resume
<1>5. \A u, f : u # t => (<<u, f>> \in left <=> <<u, f>> \in sched)
  OBVIOUS
<1> HIDE DEF left
<1>6. QED
  BY <1>2, <1>4, <1>5

(* The same for an event that schedules none. *)
LEMMA Rested ==
  ASSUME NEW t \in TREs, NEW ev \in Events,
         \A f \in Events : <<t, f>> \in sched <=> f = ev,
         Rest(t, ev)
  PROVE  /\ sim' = sim /\ NoEvent(t)'
         /\ \A u, f : u # t => (<<u, f>> \in sched' <=> <<u, f>> \in sched)
  BY ZenonT(60) DEF Rest, Reserve, NoEvent

----------------------------------------------------------------------------
(* The critical sections around the entry that a handler performs. *)

Locks(t, i, a)   == trace[t][i].op = "MTXLOCK" /\ trace[t][i].addr = a
Unlocks(t, i, a) == trace[t][i].op = "MTXUNLOCK" /\ trace[t][i].addr = a

(* t is to have the mutex at a when it comes to entry p. *)
LockedAt(t, p, a) ==
  \E i \in DOMAIN trace[t] :
    /\ i < p /\ Locks(t, i, a)
    /\ \A j \in DOMAIN trace[t] : i < j /\ j < p => ~Unlocks(t, j, a)

(* It has the mutex, unless the entry is the one that gives it back. *)
LEMMA HeldAt ==
  ASSUME TypeOK, NEW t \in TREs, PlacedTRE(t), NEW ev, NEW op,
         Performs(t, ev, op), NEW a \in Addr, LockedAt(t, Place(t, ev), a),
         ~Unlocks(t, Place(t, ev), a)
  PROVE  owner[a] = t
<1> USE ZenonT(60)
<1> DEFINE p == Place(t, ev)
<1>1. /\ p \in DOMAIN trace[t] /\ p \in Nat /\ ev \in Events
      /\ <<t, ev>> \in sched
      /\ ev # "tick" => p = pos[t] - 1
  BY Performing
<1>2. ~Waits(t) /\ \A f \in Events : <<t, f>> \in sched <=> f = ev
  BY <1>1, Awake
<1>3. pos[t] \in Nat /\ DOMAIN trace[t] \subseteq Nat
  BY SMT DEF TypeOK, ReplayOK
<1>4. ev = "tick" => p = pos[t]
  BY DEF Place
<1>5. ~In(t, waiting[a])
  BY <1>2 DEF Waits, AtMutex
<1>6. ev = "tick" => <<t, "MTXLOCK">> \notin sched
  BY <1>2, SMTT(60) DEF Events, Prims, Mutexes
<1> HIDE DEF p
<1>7. InCritical(t, a)
  <2>1. PICK i \in DOMAIN trace[t] :
          /\ i < p /\ Locks(t, i, a)
          /\ \A j \in DOMAIN trace[t] : i < j /\ j < p => ~Unlocks(t, j, a)
    BY DEF p, LockedAt
  <2>2. i < pos[t] /\ (i = pos[t] - 1 => <<t, "MTXLOCK">> \notin sched)
    BY <1>1, <1>3, <1>4, <1>6, <2>1, SMTT(60)
  <2>3. \A j \in DOMAIN trace[t] : i < j /\ j < pos[t] => ~Unlocks(t, j, a)
    <3>1. ~Unlocks(t, p, a)
      BY DEF p
    <3>2. \A j \in DOMAIN trace[t] : j < pos[t] => j < p \/ j = p
      BY <1>1, <1>3, <1>4, SMTT(60)
    <3>3. QED
      BY <2>1, <3>1, <3>2
  <2>4. QED
    BY <1>5, <2>1, <2>2, <2>3 DEF Locks, Unlocks, InCritical
<1>8. QED
  BY <1>7 DEF PlacedTRE, CriticalOwns

(* What the critical sections are after the entry, or before it again. *)
LEMMA CriticalAfter ==
  ASSUME TypeOK, NEW t \in TREs, NEW p \in DOMAIN trace[t], p \in Nat,
         trace' = trace, pos'[t] \in {p, p + 1}, NEW a \in Addr,
         InCritical(t, a)'
  PROVE  \/ /\ pos'[t] = p + 1 /\ Locks(t, p, a)
            /\ ~In(t, waiting'[a]) /\ <<t, "MTXLOCK">> \notin sched'
         \/ LockedAt(t, p, a) /\ (pos'[t] = p + 1 => ~Unlocks(t, p, a))
<1>1. DOMAIN trace[t] \subseteq Nat
  BY DEF TypeOK, ReplayOK
<1>2. PICK i \in DOMAIN trace[t] :
        /\ i < pos'[t] /\ Locks(t, i, a)
        /\ i = pos'[t] - 1 => ~In(t, waiting'[a]) /\ <<t, "MTXLOCK">> \notin sched'
        /\ \A j \in DOMAIN trace[t] : i < j /\ j < pos'[t] => ~Unlocks(t, j, a)
  BY ZenonT(60) DEF InCritical, Locks, Unlocks
<1>3. CASE i = p
  BY <1>1, <1>2, <1>3, SMTT(60)
<1>4. CASE i < p
  BY <1>1, <1>2, <1>4, SMTT(60) DEF LockedAt
<1>5. QED
  BY <1>1, <1>2, <1>3, <1>4, SMTT(60)

(* t owns the mutexes of its critical sections after a handler. *)
LEMMA OwnsAfter ==
  ASSUME TypeOK, NEW t \in TREs, PlacedTRE(t), NEW ev, NEW op,
         Performs(t, ev, op), trace' = trace,
         \/ Advance(t, ev)
         \/ Rewind(t, ev) /\ op # "MTXUNLOCK",
         \A a \in Addr :
           owner[a] = t /\ ~Unlocks(t, Place(t, ev), a) => owner'[a] = t,
         Advance(t, ev) /\ op = "MTXLOCK" =>
           LET a == trace[t][Place(t, ev)].addr
           IN  owner'[a] = t \/ In(t, waiting'[a])
  PROVE  CriticalOwns(t)'
<1> USE ZenonT(60)
<1> DEFINE p == Place(t, ev)
<1>1. p \in DOMAIN trace[t] /\ p \in Nat /\ trace[t][p].op = op
  BY Performing
<1>2. /\ Advance(t, ev) => pos'[t] = p + 1
      /\ Rewind(t, ev) => pos'[t] = p
  BY MovesTo
<1>3. ASSUME NEW a \in Addr, InCritical(t, a)' PROVE owner'[a] = t
  <2>1. \/ /\ pos'[t] = p + 1 /\ Locks(t, p, a)
           /\ ~In(t, waiting'[a]) /\ <<t, "MTXLOCK">> \notin sched'
        \/ LockedAt(t, p, a) /\ (pos'[t] = p + 1 => ~Unlocks(t, p, a))
    BY <1>1, <1>2, <1>3, CriticalAfter
  <2>2. CASE pos'[t] = p + 1 /\ Locks(t, p, a) /\ ~In(t, waiting'[a])
    <3>1. Advance(t, ev)
      BY <1>1, <1>2, <2>2, SMTT(60)
    <3>2. QED
      BY <1>1, <2>2, <3>1 DEF Locks
  <2>3. CASE LockedAt(t, p, a) /\ (pos'[t] = p + 1 => ~Unlocks(t, p, a))
    <3>1. ~Unlocks(t, p, a)
      BY <1>1, <1>2, <2>3 DEF Unlocks
    <3>2. owner[a] = t
      BY <2>3, <3>1, HeldAt
    <3>3. QED
      BY <3>1, <3>2
  <2>4. QED
    BY <2>1, <2>2, <2>3
<1>4. QED
  BY <1>3 DEF CriticalOwns

----------------------------------------------------------------------------
(* The ways a handler of t can end. *)

(* A handler changes no other TRE's registers, and nothing of the memory   *)
(* path.                                                                   *)
Frame(t) ==
  /\ trace' = trace /\ UNCHANGED memVars
  /\ \A u \in TREs : u # t => paddr'[u] = paddr[u] /\ data'[u] = data[u]

LEMMA FrameSame ==
  ASSUME TypeOK, NEW t \in TREs, PlacedTRE(t), NEW ev, NEW op,
         Performs(t, ev, op), Frame(t), Advance(t, ev) \/ Rewind(t, ev),
         NEW u \in TREs, u # t
  PROVE  SameTRE(u)
<1>1. pos'[u] = pos[u] /\ last'[u] = last[u]
  BY MovesTo, ZenonT(60)
<1>2. QED
  BY <1>1, ZenonT(60) DEF Frame, SameTRE, memVars

(* t goes on, after it has started the TREs U with their event e. *)
LEMMA Starts ==
  ASSUME TypeOK, sim = "run", Placed, NEW t \in TREs, NEW ev, NEW op,
         Performs(t, ev, op), Frame(t), Advance(t, ev) \/ Rewind(t, ev),
         NEW U \in SUBSET TREs, NEW e \in Events, Resume(t, ev, U \X {e}),
         \A u \in U : /\ NoEvent(u) /\ u \notin blocked /\ ~Waits(u)'
                      /\ e # "tick" => EventIsRead(u)'
                      /\ CriticalOwns(u)',
         \A u \in TREs : u \notin U /\ u # t => SameWaits(u) /\ KeepsMutexes(u),
         ~Waits(t)', CriticalOwns(t)', WaitsOnce'
  PROVE  Placed' /\ sim' = sim
<1> USE ZenonT(60)
<1>1. \A u \in TREs : PlacedTRE(u)
  BY DEF Placed
<1>2. /\ ev \in Events /\ <<t, ev>> \in sched
      /\ t \notin blocked /\ bpkt[t].deps = {}
  BY <1>1, Performing
<1>3. \A f \in Events : <<t, f>> \in sched <=> f = ev
  BY <1>1, <1>2, Awake
<1>4. t \notin U
  BY <1>2 DEF NoEvent
<1> DEFINE es == U \X {e}
<1>5. es \cap sched = {} /\ (\A f : <<t, f>> \notin es) /\ Resume(t, ev, es)
  BY <1>4, SMTT(60) DEF NoEvent
<1>6. /\ sim' = sim
      /\ \A f \in Events : <<t, f>> \in sched' <=> f = "tick"
      /\ \A u, f : u # t =>
           (<<u, f>> \in sched' <=> <<u, f>> \in sched \/ <<u, f>> \in es)
  <2> HIDE DEF es
  <2>1. QED
    BY <1>2, <1>3, <1>5, Resumed
<1>7. PlacedTRE(t)'
  <2>1. BlockedWait(t)'
    BY <1>2 DEF BlockedWait, Frame, memVars
  <2>2. "tick" \in Events
    BY DEF Events
  <2>3. QED
    BY <1>6, <2>1, <2>2, Running
<1>8. ASSUME NEW u \in U PROVE PlacedTRE(u)'
  <2>1. BlockedWait(u)'
    BY <1>1 DEF PlacedTRE, BlockedWait, Frame, memVars
  <2>2. \A f \in Events : <<u, f>> \in sched' <=> f = e
    BY <1>4, <1>6 DEF NoEvent
  <2>3. QED
    BY <2>1, <2>2, Running
<1>9. ASSUME NEW u \in TREs, u \notin U, u # t PROVE PlacedTRE(u)'
  <2>1. SameTRE(u)
    BY <1>1, <1>9, FrameSame
  <2>2. SameEvents(u)
    BY <1>6, <1>9 DEF SameEvents
  <2>3. QED
    BY <1>1, <1>9, <2>1, <2>2, Kept
<1>10. QED
  BY <1>6, <1>7, <1>8, <1>9 DEF Placed

(* The only places where t waits after an entry x of kind op. *)
StopsAt(t, op, x) ==
  /\ op = "MTXLOCK" => In(t, waiting'[x.addr])
  /\ \A a \in Addr :
       /\ In(t, waiting'[a]) => op = "MTXLOCK" /\ x.addr = a
       /\ In(t, arrived'[a]) => op = "BARWAIT" /\ x.addr = a
  /\ \A q \in Queues :
       /\ toPush'[q] = t => op = "PUSH" /\ q = <<t, x.val>> /\ data'[t] = x.val
       /\ toPop'[q] = t => op = "POP" /\ q = <<x.val, t>> /\ data'[t] = x.val
  /\ Waits(t)' \/ op = "SLEEP"

(* t stops at the entry x it has read, to wait or to sleep. *)
LEMMA Stops ==
  ASSUME TypeOK, sim = "run", Placed, NEW t \in TREs, NEW ev, NEW op,
         Performs(t, ev, op), Frame(t), Advance(t, ev), Rest(t, ev),
         owner' = owner, WaitsOnce', NEW x, x = trace[t][Place(t, ev)],
         \A u \in TREs : u # t => SameWaits(u), StopsAt(t, op, x)
  PROVE  Placed' /\ sim' = sim
<1> USE ZenonT(60)
<1>1. \A u \in TREs : PlacedTRE(u)
  BY DEF Placed
<1>2. /\ ev \in Events /\ <<t, ev>> \in sched
      /\ t \notin blocked /\ bpkt[t].deps = {}
      /\ Place(t, ev) \in DOMAIN trace[t] /\ Place(t, ev) \in Nat /\ x.op = op
  BY <1>1, Performing
<1>3. ~Waits(t) /\ \A f \in Events : <<t, f>> \in sched <=> f = ev
  BY <1>1, <1>2, Awake
<1>4. /\ sim' = sim /\ NoEvent(t)'
      /\ \A u, f : u # t => (<<u, f>> \in sched' <=> <<u, f>> \in sched)
  BY <1>2, <1>3, Rested
<1>5. JustRead(t)' /\ LastRead(t)' = x
  <2>1. pos'[t] = Place(t, ev) + 1 /\ last'[t] = Place(t, ev)
    BY <1>1, MovesTo
  <2>2. QED
    BY <1>2, <2>1, SMTT(60) DEF JustRead, LastRead, Frame
<1>6. PlacedTRE(t)'
  <2>1. OneEvent(t)' /\ EventIsRead(t)'
    BY <1>4 DEF NoEvent, OneEvent, EventIsRead, Events
  <2>2. MutexWait(t)' /\ BarrierWait(t)'
    BY <1>2, <1>4, <1>5 DEF MutexWait, BarrierWait, StopsAt
  <2>3. QueueWait(t)'
    <3>1. \A q \in Queues :
            /\ toPush'[q] = t => op = "PUSH" /\ q = <<t, x.val>> /\ data'[t] = x.val
            /\ toPop'[q] = t => op = "POP" /\ q = <<x.val, t>> /\ data'[t] = x.val
      BY DEF StopsAt
    <3>2. PICK r : r = LastRead(t)' /\ r = x
      BY <1>5
    <3>3. \A q \in Queues :
            /\ toPush'[q] = t => r.op = "PUSH" /\ q = <<t, r.val>> /\ data'[t] = r.val
            /\ toPop'[q] = t => r.op = "POP" /\ q = <<r.val, t>> /\ data'[t] = r.val
      BY <1>2, <3>1, <3>2
    <3>4. QED
      BY <1>4, <1>5, <3>2, <3>3 DEF QueueWait
  <2>4. retryPkt'[t] = NULL /\ t \notin blocked' /\ bpkt'[t].deps = {}
    BY <1>2, <1>3 DEF Waits, Frame, memVars
  <2>5. RetryWait(t)' /\ BlockedWait(t)'
    BY <2>4 DEF RetryWait, BlockedWait
  <2>6. HasCause(t)'
    BY <1>2, <1>5 DEF HasCause, StopsAt
  <2>7. CriticalOwns(t)'
    <3>1. op = "MTXLOCK" => In(t, waiting'[x.addr])
      BY DEF StopsAt
    <3>2. QED
      BY <1>1, <1>2, <3>1, OwnsAfter DEF Frame
  <2>8. QED
    BY <2>1, <2>2, <2>3, <2>5, <2>6, <2>7 DEF PlacedTRE
<1>7. ASSUME NEW u \in TREs, u # t PROVE PlacedTRE(u)'
  <2>1. SameTRE(u)
    BY <1>1, <1>7, FrameSame
  <2>2. SameEvents(u) /\ KeepsMutexes(u)
    BY <1>4, <1>7 DEF SameEvents, KeepsMutexes
  <2>3. QED
    BY <1>1, <1>7, <2>1, <2>2, Kept
<1>8. QED
  BY <1>4, <1>6, <1>7 DEF Placed

(* t goes on, and at most takes or gives back the mutex of the entry. *)
(* t takes a free mutex, or gives up the one that its entry unlocks. *)
OwnsByEntry(t, ev) ==
  \A a \in Addr : owner'[a] # owner[a] =>
    \/ owner[a] = NULL /\ owner'[a] = t
    \/ owner[a] = t /\ Unlocks(t, Place(t, ev), a)

LEMMA Continues ==
  ASSUME TypeOK, sim = "run", Placed, NEW t \in TREs, NEW ev, NEW op,
         Performs(t, ev, op), Frame(t), Resume(t, ev, {}),
         \/ Advance(t, ev)
         \/ Rewind(t, ev) /\ op # "MTXUNLOCK",
         UNCHANGED <<waiting, arrived, toPush, toPop>>,
         NEW x, x = trace[t][Place(t, ev)],
         OwnsByEntry(t, ev),
         Advance(t, ev) /\ op = "MTXLOCK" => owner'[x.addr] = t
  PROVE  Placed' /\ sim' = sim
<1> USE ZenonT(60)
<1>1. \A u \in TREs : PlacedTRE(u)
  BY DEF Placed
<1>2. ev \in Events /\ <<t, ev>> \in sched
  BY <1>1, Performing
<1>3. ~Waits(t)
  BY <1>1, <1>2, Awake
<1>4. ~Waits(t)'
  BY <1>3 DEF Waits, AtMutex, AtBarrier, AtQueue, Frame, memVars
<1>5. CriticalOwns(t)'
  <2>1. \A a \in Addr :
          owner[a] = t /\ ~Unlocks(t, Place(t, ev), a) => owner'[a] = t
    BY DEF OwnsByEntry
  <2>2. QED
    BY <1>1, <2>1, OwnsAfter DEF Frame
<1>6. WaitsOnce'
  BY DEF Placed, WaitsOnce
<1>7. \A u \in TREs : u # t => SameWaits(u) /\ KeepsMutexes(u)
  BY Ids DEF SameWaits, KeepsMutexes, OwnsByEntry
<1>8. {} = {} \X {"tick"} /\ "tick" \in Events
  BY DEF Events
<1>9. QED
  BY <1>4, <1>5, <1>6, <1>7, <1>8, Starts, SMTT(60)

(* The end of the process, for another reason. *)
LEMMA Aborts ==
  ASSUME NEW why \in Outcomes, Abort(why), why # "run",
         why \notin {"assert: scheduled", "assert: rescheduled",
                     "assert: !retryPkt", "assert: deps.empty()"}
  PROVE  Placed' /\ EventAssertsHold'
  BY ZenonT(60) DEF Abort, Placed, EventAssertsHold

(* t reads the entry again. *)
LEMMA Retries ==
  ASSUME TypeOK, sim = "run", Placed, NEW t \in TREs, NEW ev, NEW op,
         Performs(t, ev, op), op # "MTXUNLOCK", TryAgain(t, ev),
         UNCHANGED <<trace, data, memVars, mtxVars, barVars, qVars, numIdle>>
  PROVE  Placed' /\ sim' = sim
<1> USE ZenonT(60)
<1>1. PlacedTRE(t) /\ paddr \in [TREs -> Addr]
  BY DEF Placed, TypeOK, ReplayOK
<1>2. Frame(t)
  BY <1>1 DEF Frame, TryAgain
<1>3. Rewind(t, ev) /\ Resume(t, ev, {})
  BY DEF TryAgain
<1>4. /\ Advance(t, ev) => pos'[t] = Place(t, ev) + 1
      /\ pos'[t] = Place(t, ev) /\ Place(t, ev) \in Nat
  BY <1>1, <1>3, MovesTo, Performing
<1>5. ~Advance(t, ev)
  BY <1>4, SMT
<1>6. QED
  <2>1. OwnsByEntry(t, ev) /\ UNCHANGED <<waiting, arrived, toPush, toPop>>
    BY DEF OwnsByEntry, mtxVars, barVars, qVars
  <2>2. QED
    BY <1>2, <1>3, <1>5, <2>1, Continues

(* A TRE waits in one place. *)
LEMMA Exclusive ==
  ASSUME NEW u \in TREs, PlacedTRE(u), NEW op,
         op \in {"MTXLOCK", "BARWAIT", "PUSH", "POP"}, LastRead(u).op = op,
         JustRead(u)
  PROVE  /\ u \notin blocked /\ retryPkt[u] = NULL
         /\ op # "MTXLOCK" => ~AtMutex(u)
         /\ op # "BARWAIT" => ~AtBarrier(u)
         /\ op \notin {"PUSH", "POP"} => ~AtQueue(u)
<1> USE ZenonT(60)
<1>1. op \notin Accesses \cup {"STALL"}
  BY DEF Accesses
<1>2. u \notin blocked /\ retryPkt[u] = NULL
  BY <1>1 DEF PlacedTRE, BlockedWait, RetryWait
<1>3. op # "MTXLOCK" => ~AtMutex(u)
  BY DEF PlacedTRE, MutexWait, AtMutex
<1>4. op # "BARWAIT" => ~AtBarrier(u)
  BY DEF PlacedTRE, BarrierWait, AtBarrier
<1>5. op \notin {"PUSH", "POP"} => ~AtQueue(u)
  BY DEF PlacedTRE, QueueWait, AtQueue
<1>6. QED
  BY <1>2, <1>3, <1>4, <1>5

(* A TRE that is started owns the mutexes of its critical sections, if it  *)
(* has got the one it waited for.                                          *)
LEMMA OwnsStill ==
  ASSUME NEW u \in TREs, PlacedTRE(u), SameTRE(u), KeepsMutexes(u),
         <<u, "MTXLOCK">> \notin sched,
         \A a \in Addr : In(u, waiting[a]) => owner'[a] = u
  PROVE  CriticalOwns(u)'
<1> USE ZenonT(60)
<1>1. ASSUME NEW a \in Addr, InCritical(u, a)' PROVE owner'[a] = u
  <2>1. CASE In(u, waiting[a])
    BY <2>1
  <2>2. CASE ~In(u, waiting[a])
    <3>1. InCritical(u, a)
      BY <1>1, <2>2 DEF InCritical, SameTRE
    <3>2. QED
      BY <3>1 DEF PlacedTRE, CriticalOwns, KeepsMutexes
  <2>3. QED
    BY <2>1, <2>2
<1>2. QED
  BY <1>1 DEF CriticalOwns

----------------------------------------------------------------------------
(* The handlers. *)

LEMMA MutexPlaced ==
  ASSUME TypeOK, sim = "run", Placed, NEW t \in TREs, NEW ev, NEW op,
         Performs(t, ev, op), op \in Mutexes, Perform(t, ev, op)
  PROVE  Placed' /\ EventAssertsHold'
<1> USE ZenonT(60)
<1> DEFINE a == Operand(t, ev)
           x == trace[t][Place(t, ev)]
<1>1. \A u \in TREs : PlacedTRE(u)
  BY DEF Placed
<1>2. /\ x \in Entry /\ x.op = op /\ a = x.addr /\ a \in Addr
      /\ ev \in Events /\ <<t, ev>> \in sched
  BY <1>1, Performing, SMT DEF Entry
<1>3. ~Waits(t)
  BY <1>1, <1>2, Awake
<1>4. paddr \in [TREs -> Addr] /\ data \in [TREs -> Nat] /\ MtxOK
  BY DEF TypeOK, ReplayOK
<1> HIDE DEF a, x
<1>5. Placed' /\ sim' = sim => EventAssertsHold'
  BY DEF EventAssertsHold
<1>x. x = trace[t][Place(t, ev)]
  BY DEF x
<1>6. CASE op = "MTXINIT"
  <2>1. initMutex(t, ev)
    BY <1>6 DEF Perform, Stats
  <2>2. CASE Abort("fatal: mutex init")
    BY <2>2, Aborts DEF Outcomes
  <2>3. CASE /\ mutexes' = mutexes \cup {a}
             /\ Advance(t, ev) /\ Resume(t, ev, {}) /\ ResetPaddr(t)
             /\ UNCHANGED <<trace, data, memVars, owner, waiting, barVars, qVars,
                            numIdle>>
    <3>1. Frame(t)
      BY <1>4, <2>3 DEF Frame, ResetPaddr
    <3>2. QED
      <4>1. OwnsByEntry(t, ev) /\ UNCHANGED <<waiting, arrived, toPush, toPop>>
        BY <2>3 DEF OwnsByEntry, barVars, qVars
      <4>2. Advance(t, ev) /\ Resume(t, ev, {})
        BY <2>3
      <4>3. Advance(t, ev) /\ op = "MTXLOCK" => owner'[x.addr] = t
        BY <1>6
      <4>4. QED
        BY <1>x, <1>5, <3>1, <4>1, <4>2, <4>3, Continues
  <2>4. QED
    BY <2>1, <2>2, <2>3 DEF initMutex, a
<1>7. CASE op = "MTXLOCK"
  <2>1. lockMutex(t, ev)
    BY <1>7 DEF Perform, Stats
  <2>2. CASE Abort("fatal: mutex lock")
    BY <2>2, Aborts DEF Outcomes
  <2>3. CASE /\ TryAgain(t, ev)
             /\ UNCHANGED <<trace, data, memVars, mtxVars, barVars, qVars, numIdle>>
    BY <1>5, <1>7, <2>3, Retries
  <2>4. CASE /\ MutexFree(a) /\ owner' = [owner EXCEPT ![a] = t]
             /\ Advance(t, ev) /\ Resume(t, ev, {}) /\ ResetPaddr(t)
             /\ UNCHANGED <<trace, data, memVars, mutexes, waiting, barVars, qVars,
                            numIdle>>
    <3>1. Frame(t)
      BY <1>4, <2>4 DEF Frame, ResetPaddr
    <3>2. \A b \in Addr : owner'[b] # owner[b] => owner[b] = NULL /\ owner'[b] = t
      BY <1>4, <2>4 DEF MtxOK, MutexFree
    <3>3. owner'[x.addr] = t
      BY <1>2, <1>4, <2>4 DEF MtxOK
    <3>4. QED
      <4>1. OwnsByEntry(t, ev) /\ UNCHANGED <<waiting, arrived, toPush, toPop>>
        BY <2>4, <3>2 DEF OwnsByEntry, barVars, qVars
      <4>2. Advance(t, ev) /\ Resume(t, ev, {})
        BY <2>4
      <4>3. QED
        BY <1>x, <1>5, <3>1, <3>3, <4>1, <4>2, Continues
  <2>5. CASE /\ waiting' = [waiting EXCEPT ![a] = Append(@, t)]
             /\ Advance(t, ev) /\ Rest(t, ev) /\ ResetPaddr(t)
             /\ UNCHANGED <<trace, data, memVars, mutexes, owner, barVars, qVars,
                            numIdle>>
    <3>1. Frame(t)
      BY <1>4, <2>5 DEF Frame, ResetPaddr
    <3>2. waiting[a] \in Seq(TREs) /\ IsInjective(waiting[a]) /\ ~In(t, waiting[a])
      BY <1>2, <1>3, <1>4 DEF MtxOK, Placed, WaitsOnce, Waits, AtMutex
    <3>3. /\ waiting'[a] = Append(waiting[a], t)
          /\ \A b \in Addr : b # a => waiting'[b] = waiting[b]
      BY <1>2, <1>4, <2>5 DEF MtxOK
    <3>4. /\ \A u : In(u, waiting'[a]) <=> In(u, waiting[a]) \/ u = t
          /\ IsInjective(waiting'[a])
      BY <3>2, <3>3, InAppend, SMTT(60)
    <3>5. WaitsOnce'
      BY <2>5, <3>3, <3>4 DEF Placed, WaitsOnce, barVars
    <3>6. \A u \in TREs : u # t => SameWaits(u)
      BY <2>5, <3>3, <3>4 DEF SameWaits, barVars, qVars
    <3>7. \A b \in Addr : /\ In(t, waiting'[b]) <=> b = a
                          /\ ~In(t, arrived'[b])
      BY <1>3, <2>5, <3>3, <3>4 DEF Waits, AtMutex, AtBarrier, barVars
    <3>8. \A q \in Queues : toPush'[q] # t /\ toPop'[q] # t
      BY <1>3, <2>5 DEF Waits, AtQueue, qVars
    <3>9. Waits(t)'
      BY <1>2, <3>7 DEF Waits, AtMutex
    <3>10. /\ In(t, waiting'[x.addr])
           /\ \A b \in Addr :
                /\ In(t, waiting'[b]) => op = "MTXLOCK" /\ x.addr = b
                /\ In(t, arrived'[b]) => op = "BARWAIT" /\ x.addr = b
      BY <1>2, <1>7, <3>7
    <3>11. Placed' /\ sim' = sim
      <4>1. StopsAt(t, op, x)
        BY <3>8, <3>9, <3>10 DEF StopsAt
      <4>2. Advance(t, ev) /\ Rest(t, ev) /\ owner' = owner
        BY <2>5
      <4>3. QED
        BY <1>x, <3>1, <3>5, <3>6, <4>1, <4>2, Stops
    <3>12. QED
      BY <1>5, <3>11
  <2>6. QED
    BY <2>1, <2>2, <2>3, <2>4, <2>5 DEF lockMutex, a
<1>8. CASE op = "MTXUNLOCK"
  <2>1. unlockMutex(t, ev)
    BY <1>8 DEF Perform, Stats
  <2>2. CASE Abort("fatal: mutex unlock")
    BY <2>2, Aborts DEF Outcomes
  <2>3. ASSUME owner[a] = t, Advance(t, ev), ResetPaddr(t),
               UNCHANGED <<trace, data, memVars, mutexes, barVars, qVars, numIdle>>
        PROVE  Frame(t) /\ Unlocks(t, Place(t, ev), a)
    BY <1>2, <1>4, <1>8, <2>3 DEF Frame, ResetPaddr, Unlocks, x
  <2>4. CASE /\ owner[a] = t /\ owner' = [owner EXCEPT ![a] = NULL]
             /\ Resume(t, ev, {}) /\ waiting' = waiting
             /\ Advance(t, ev) /\ ResetPaddr(t)
             /\ UNCHANGED <<trace, data, memVars, mutexes, barVars, qVars, numIdle>>
    <3>1. \A b \in Addr : owner'[b] # owner[b] =>
            owner[b] = t /\ Unlocks(t, Place(t, ev), b)
      BY <1>4, <2>3, <2>4 DEF MtxOK
    <3>2. QED
      <4>1. OwnsByEntry(t, ev) /\ UNCHANGED <<waiting, arrived, toPush, toPop>>
        BY <2>4, <3>1 DEF OwnsByEntry, barVars, qVars
      <4>2. Advance(t, ev) /\ Resume(t, ev, {}) /\ Frame(t)
        BY <2>3, <2>4
      <4>3. Advance(t, ev) /\ op = "MTXLOCK" => owner'[x.addr] = t
        BY <1>8
      <4>4. QED
        BY <1>x, <1>5, <4>1, <4>2, <4>3, Continues
  <2>5. ASSUME NEW k \in DOMAIN waiting[a], HandOver(a, k), owner[a] = t,
               Resume(t, ev, {<<waiting[a][k], "tick">>}),
               Advance(t, ev), ResetPaddr(t),
               UNCHANGED <<trace, data, memVars, mutexes, barVars, qVars, numIdle>>
        PROVE  Placed' /\ EventAssertsHold'
    <3>0. waiting[a] \in Seq(TREs) /\ IsInjective(waiting[a])
      BY <1>2, <1>4 DEF MtxOK, Placed, WaitsOnce
    <3>1. PICK w \in TREs : w = waiting[a][k]
      BY <2>5, <3>0, SMT
    <3>2. In(w, waiting[a])
      BY <2>5, <3>1 DEF In
    <3>3. /\ NoEvent(w) /\ JustRead(w)
          /\ LastRead(w).op = "MTXLOCK" /\ LastRead(w).addr = a
      BY <1>1, <1>2, <3>1, <3>2 DEF PlacedTRE, MutexWait
    <3>4. w \notin blocked /\ retryPkt[w] = NULL /\ ~AtBarrier(w) /\ ~AtQueue(w)
      BY <1>1, <3>1, <3>3, Exclusive
    <3>5. w # t
      BY <1>2, <3>3 DEF NoEvent
    <3>6. /\ waiting'[a] = Without(waiting[a], k) /\ owner'[a] = w
          /\ \A b \in Addr : b # a => waiting'[b] = waiting[b] /\ owner'[b] = owner[b]
      BY <1>2, <1>4, <2>5, <3>1 DEF MtxOK, HandOver
    <3>7. /\ \A u : In(u, waiting'[a]) <=> In(u, waiting[a]) /\ u # w
          /\ IsInjective(waiting'[a])
      <4> DEFINE s == waiting[a]
      <4>1. s \in Seq(TREs) /\ k \in DOMAIN s /\ IsInjective(s)
        BY <2>5, <3>0
      <4> HIDE DEF s
      <4>2. ASSUME NEW u
            PROVE  /\ In(u, Without(s, k)) <=> In(u, s) /\ u # s[k]
                   /\ IsInjective(Without(s, k))
        BY <4>1, InWithout
      <4>3. QED
        BY <3>1, <3>6, <4>2 DEF s
    <3>8. WaitsOnce'
      BY <2>5, <3>6, <3>7 DEF Placed, WaitsOnce, barVars
    <3>9. Frame(t) /\ Unlocks(t, Place(t, ev), a)
      BY <2>3, <2>5
    <3>10. \A b \in Addr : In(w, waiting[b]) => b = a
      BY <1>1, <3>1, <3>3 DEF PlacedTRE, MutexWait
    <3>11. ~Waits(w)'
      <4>1. ~AtMutex(w)'
        BY <3>6, <3>7, <3>10 DEF AtMutex
      <4>2. ~AtBarrier(w)' /\ ~AtQueue(w)' /\ retryPkt'[w] = NULL
        BY <2>5, <3>4 DEF AtBarrier, AtQueue, barVars, qVars, memVars
      <4>3. QED
        BY <4>1, <4>2 DEF Waits
    <3>12. ~Waits(t)'
      BY <1>3, <2>5, <3>6, <3>7
         DEF Waits, AtMutex, AtBarrier, AtQueue, barVars, qVars, memVars
    <3>13. CriticalOwns(t)'
      <4>1. \A b \in Addr :
              owner[b] = t /\ ~Unlocks(t, Place(t, ev), b) => owner'[b] = t
        BY <3>6, <3>9
      <4>2. QED
        BY <1>1, <1>8, <2>5, <4>1, OwnsAfter
    <3>14. CriticalOwns(w)'
      <4>1. SameTRE(w)
        BY <1>1, <2>5, <3>1, <3>5, <3>9, FrameSame
      <4>2. KeepsMutexes(w)
        BY <2>5, <3>5, <3>6 DEF KeepsMutexes
      <4>3. <<w, "MTXLOCK">> \notin sched
        BY <3>3 DEF NoEvent, Events, Prims, Mutexes
      <4>4. \A b \in Addr : In(w, waiting[b]) => owner'[b] = w
        BY <3>6, <3>10
      <4>5. QED
        BY <1>1, <3>1, <3>3, <4>1, <4>2, <4>3, <4>4, OwnsStill
    <3>15. \A u \in TREs : u \notin {w} /\ u # t => SameWaits(u) /\ KeepsMutexes(u)
      BY <2>5, <3>6, <3>7 DEF SameWaits, KeepsMutexes, barVars, qVars
    <3>16. Resume(t, ev, {w} \X {"tick"})
      <4>1. {<<w, "tick">>} = {w} \X {"tick"}
        BY SMT
      <4>2. QED
        BY <2>5, <3>1, <4>1
    <3>17. /\ {w} \in SUBSET TREs /\ "tick" \in Events
           /\ \A u \in {w} : /\ NoEvent(u) /\ u \notin blocked /\ ~Waits(u)'
                             /\ "tick" # "tick" => EventIsRead(u)'
                             /\ CriticalOwns(u)'
      BY <3>3, <3>4, <3>11, <3>14 DEF Events
    <3>18. Placed' /\ sim' = sim
      BY <2>5, <3>8, <3>9, <3>12, <3>13, <3>15, <3>16, <3>17, Starts
    <3>19. QED
      BY <1>5, <3>18
  <2>6. QED
    BY <2>1, <2>2, <2>4, <2>5 DEF unlockMutex, a
<1>9. QED
  BY <1>6, <1>7, <1>8 DEF Mutexes

LEMMA BarrierPlaced ==
  ASSUME TypeOK, sim = "run", Placed, NEW t \in TREs, NEW ev, NEW op,
         Performs(t, ev, op), op \in Barriers, Perform(t, ev, op)
  PROVE  Placed' /\ EventAssertsHold'
<1> USE ZenonT(60)
<1> DEFINE a == Operand(t, ev)
           x == trace[t][Place(t, ev)]
<1>1. \A u \in TREs : PlacedTRE(u)
  BY DEF Placed
<1>2. /\ x \in Entry /\ x.op = op /\ a = x.addr /\ a \in Addr
      /\ ev \in Events /\ <<t, ev>> \in sched
  BY <1>1, Performing, SMTT(60) DEF Entry
<1>3. ~Waits(t)
  BY <1>1, <1>2, Awake
<1>4. paddr \in [TREs -> Addr] /\ data \in [TREs -> Nat] /\ BarOK
  BY DEF TypeOK, ReplayOK
<1> HIDE DEF a, x
<1>5. Placed' /\ sim' = sim => EventAssertsHold'
  BY DEF EventAssertsHold
<1>x. x = trace[t][Place(t, ev)] /\ op # "MTXLOCK" /\ op # "MTXUNLOCK"
  BY DEF x, Barriers
<1>6. CASE op = "BARINIT"
  <2>1. initBarrier(t, ev)
    BY <1>6 DEF Perform, Stats
  <2>2. CASE Abort("fatal: barrier init")
    BY <2>2, Aborts DEF Outcomes
  <2>3. CASE /\ Advance(t, ev) /\ Resume(t, ev, {})
             /\ ResetPaddr(t) /\ ResetData(t)
             /\ UNCHANGED <<trace, memVars, mtxVars, arrived, qVars, numIdle>>
    <3>1. Frame(t)
      BY <1>4, <2>3 DEF Frame, ResetPaddr, ResetData
    <3>2. QED
      BY <1>5, <1>x, <2>3, <3>1, Continues DEF mtxVars, qVars, OwnsByEntry
  <2>4. QED
    BY <2>1, <2>2, <2>3 DEF initBarrier
<1>7. CASE op = "BARWAIT"
  <2> DEFINE all == Append(arrived[a], t)
  <2>1. waitAtBarrier(t, ev)
    BY <1>7 DEF Perform, Stats
  <2>2. /\ arrived[a] \in Seq(TREs) /\ IsInjective(arrived[a])
        /\ ~In(t, arrived[a])
    BY <1>2, <1>3, <1>4 DEF BarOK, Placed, WaitsOnce, Waits, AtBarrier
  <2>3. /\ \A u : In(u, all) <=> In(u, arrived[a]) \/ u = t
        /\ IsInjective(all)
    BY <2>2, InAppend
  <2> HIDE DEF all
  <2>4. CASE Abort("assert: paddr")
    BY <2>4, Aborts DEF Outcomes
  <2>5. CASE /\ TryAgain(t, ev)
             /\ UNCHANGED <<trace, data, memVars, mtxVars, barVars, qVars, numIdle>>
    BY <1>5, <1>x, <2>5, Retries
  <2>6. CASE /\ arrived' = [arrived EXCEPT ![a] = << >>]
             /\ Advance(t, ev) /\ Resume(t, ev, Release(arrived[a]))
             /\ ResetPaddr(t)
             /\ UNCHANGED <<trace, data, memVars, mtxVars, count, qVars, numIdle>>
    <3>1. Frame(t)
      BY <1>4, <2>6 DEF Frame, ResetPaddr
    <3>2. PICK U \in SUBSET TREs :
            \A u : u \in U <=> In(u, arrived[a])
      <4>1. Range(arrived[a]) \subseteq TREs
        BY <2>2, SMT DEF Range
      <4>2. \A u : u \in Range(arrived[a]) <=> In(u, arrived[a])
        BY DEF Range, In
      <4>3. QED
        BY <4>1, <4>2
    <3>3. Resume(t, ev, U \X {"tick"})
      <4>1. U = Range(arrived[a])
        BY <3>2 DEF Range, In
      <4>2. QED
        BY <2>6, <4>1 DEF Release
    <3>4. /\ \A u : ~In(u, arrived'[a])
          /\ \A b \in Addr : b # a => arrived'[b] = arrived[b]
          /\ waiting' = waiting /\ owner' = owner
      BY <1>2, <1>4, <2>6, SMTT(60) DEF BarOK, In, mtxVars
    <3>5. WaitsOnce'
      <4>1. IsInjective(arrived'[a])
        BY <1>2, <1>4, <2>6, SMTT(60) DEF BarOK, IsInjective
      <4>2. QED
        BY <3>4, <4>1 DEF Placed, WaitsOnce
    <3>6. ASSUME NEW u \in U
          PROVE  /\ NoEvent(u) /\ u \notin blocked /\ ~Waits(u)'
                 /\ "tick" # "tick" => EventIsRead(u)'
                 /\ CriticalOwns(u)'
      <4>1. /\ NoEvent(u) /\ JustRead(u)
            /\ LastRead(u).op = "BARWAIT" /\ LastRead(u).addr = a
        BY <1>1, <1>2, <3>2 DEF PlacedTRE, BarrierWait
      <4>2. u \notin blocked /\ retryPkt[u] = NULL /\ ~AtMutex(u) /\ ~AtQueue(u)
        BY <1>1, <4>1, Exclusive
      <4>3. \A b \in Addr : In(u, arrived[b]) => b = a
        BY <1>1, <4>1 DEF PlacedTRE, BarrierWait
      <4>4. ~Waits(u)'
        <5>1. ~AtBarrier(u)'
          BY <3>4, <4>3 DEF AtBarrier
        <5>2. ~AtMutex(u)' /\ ~AtQueue(u)' /\ retryPkt'[u] = NULL
          BY <2>6, <3>4, <4>2 DEF AtMutex, AtQueue, qVars, memVars
        <5>3. QED
          BY <5>1, <5>2 DEF Waits
      <4>5. CriticalOwns(u)'
        <5>1. u # t
          BY <1>2, <4>1 DEF NoEvent
        <5>2. SameTRE(u)
          BY <1>1, <2>6, <3>1, <5>1, FrameSame
        <5>3. KeepsMutexes(u) /\ \A b \in Addr : ~In(u, waiting[b])
          BY <3>4, <4>2 DEF KeepsMutexes, AtMutex
        <5>4. <<u, "MTXLOCK">> \notin sched
          BY <4>1 DEF NoEvent, Events, Prims, Mutexes
        <5>5. QED
          BY <1>1, <5>2, <5>3, <5>4, OwnsStill
      <4>6. QED
        BY <4>1, <4>2, <4>4, <4>5
    <3>7. ~Waits(t)'
      <4>1. ~AtBarrier(t)'
        BY <1>3, <3>4 DEF Waits, AtBarrier
      <4>2. QED
        BY <1>3, <2>6, <3>4, <4>1 DEF Waits, AtMutex, AtQueue, qVars, memVars
    <3>8. CriticalOwns(t)'
      BY <1>1, <1>x, <2>6, <3>4, OwnsAfter
    <3>9. \A u \in TREs : u \notin U /\ u # t => SameWaits(u) /\ KeepsMutexes(u)
      BY <2>6, <3>2, <3>4 DEF SameWaits, KeepsMutexes, qVars
    <3>10. "tick" \in Events
      BY DEF Events
    <3>11. Placed' /\ sim' = sim
      BY <2>6, <3>1, <3>3, <3>5, <3>6, <3>7, <3>8, <3>9, <3>10, Starts
    <3>12. QED
      BY <1>5, <3>11
  <2>7. CASE /\ arrived' = [arrived EXCEPT ![a] = all]
             /\ Advance(t, ev) /\ Rest(t, ev) /\ ResetPaddr(t)
             /\ UNCHANGED <<trace, data, memVars, mtxVars, count, qVars, numIdle>>
    <3>1. Frame(t)
      BY <1>4, <2>7 DEF Frame, ResetPaddr
    <3>2. /\ arrived'[a] = all /\ waiting' = waiting /\ owner' = owner
          /\ \A b \in Addr : b # a => arrived'[b] = arrived[b]
      BY <1>2, <1>4, <2>7 DEF BarOK, mtxVars
    <3>3. WaitsOnce'
      BY <2>3, <3>2 DEF Placed, WaitsOnce
    <3>4. \A u \in TREs : u # t => SameWaits(u)
      BY <2>3, <2>7, <3>2 DEF SameWaits, qVars
    <3>5. \A b \in Addr : /\ In(t, arrived'[b]) <=> b = a
                          /\ ~In(t, waiting'[b])
      BY <1>3, <2>3, <3>2 DEF Waits, AtMutex, AtBarrier
    <3>6. \A q \in Queues : toPush'[q] # t /\ toPop'[q] # t
      BY <1>3, <2>7 DEF Waits, AtQueue, qVars
    <3>7. Waits(t)'
      BY <1>2, <3>5 DEF Waits, AtBarrier
    <3>8. \A b \in Addr :
            /\ In(t, waiting'[b]) => op = "MTXLOCK" /\ x.addr = b
            /\ In(t, arrived'[b]) => op = "BARWAIT" /\ x.addr = b
      BY <1>2, <1>7, <3>5
    <3>9. Placed' /\ sim' = sim
      <4>1. StopsAt(t, op, x)
        BY <1>7, <3>6, <3>7, <3>8 DEF StopsAt
      <4>2. Advance(t, ev) /\ Rest(t, ev)
        BY <2>7
      <4>3. QED
        BY <1>x, <3>1, <3>2, <3>3, <3>4, <4>1, <4>2, Stops
    <3>10. QED
      BY <1>5, <3>9
  <2>8. QED
    BY <2>1, <2>3, <2>4, <2>5, <2>6, <2>7 DEF waitAtBarrier, a, all
<1>8. QED
  BY <1>6, <1>7 DEF Barriers

LEMMA PushPlaced ==
  ASSUME TypeOK, sim = "run", Placed, NEW t \in TREs, NEW ev, NEW op,
         Performs(t, ev, op), op = "PUSH", Perform(t, ev, op)
  PROVE  Placed' /\ EventAssertsHold'
<1> USE ZenonT(60)
<1>1. \A u \in TREs : PlacedTRE(u)
  BY DEF Placed
<1>2. PICK x \in Entry : x = trace[t][Place(t, ev)]
  BY <1>1, Performing
<1>3. PICK q : q = <<t, x.val>>
  OBVIOUS
<1>4. /\ q = <<t, Number(t, ev)>> /\ q[2] = x.val
      /\ ev \in Events /\ <<t, ev>> \in sched
  BY <1>1, <1>2, <1>3, Performing
<1>5. ~Waits(t)
  BY <1>1, <1>4, Awake
<1>6. data \in [TREs -> Nat] /\ QueueOK
  BY DEF TypeOK, ReplayOK
<1>7. Placed' /\ sim' = sim => EventAssertsHold'
  BY DEF EventAssertsHold
<1>8. op # "MTXLOCK" /\ op # "MTXUNLOCK" /\ push(t, ev)
  BY DEF Perform, Stats
<1>9. CASE Abort("exit: no queue")
  BY <1>9, Aborts DEF Outcomes
<1>10. CASE /\ q \in Queues /\ toPush' = [toPush EXCEPT ![q] = t]
            /\ data' = [data EXCEPT ![t] = q[2]]
            /\ Advance(t, ev) /\ Rest(t, ev)
            /\ UNCHANGED <<trace, paddr, memVars, mtxVars, barVars, qlen, toPop,
                           numIdle>>
  <2>1. Frame(t) /\ data'[t] = x.val
    BY <1>4, <1>6, <1>10 DEF Frame
  <2>2. /\ toPush'[q] = t /\ toPop' = toPop /\ waiting' = waiting
        /\ arrived' = arrived /\ owner' = owner
        /\ \A r \in Queues : r # q => toPush'[r] = toPush[r]
    BY <1>6, <1>10 DEF QueueOK, mtxVars, barVars
  <2>3. \A u \in TREs : u # t => toPush[q] # u
    BY <1>1, <1>3, <1>10 DEF PlacedTRE, QueueWait
  <2>4. \A u \in TREs : u # t => SameWaits(u)
    BY <2>2, <2>3 DEF SameWaits
  <2>5. \A r \in Queues : (toPush'[r] = t <=> r = q) /\ toPop'[r] # t
    BY <1>5, <1>10, <2>2 DEF Waits, AtQueue
  <2>6. \A r \in Queues :
          /\ toPush'[r] = t => op = "PUSH" /\ r = <<t, x.val>> /\ data'[t] = x.val
          /\ toPop'[r] = t => op = "POP" /\ r = <<x.val, t>> /\ data'[t] = x.val
    BY <1>3, <2>1, <2>5
  <2>7. /\ Waits(t)' /\ WaitsOnce'
        /\ \A a \in Addr : ~In(t, waiting'[a]) /\ ~In(t, arrived'[a])
    BY <1>5, <1>10, <2>2
       DEF Waits, AtQueue, AtMutex, AtBarrier, Placed, WaitsOnce
  <2>8. Placed' /\ sim' = sim
    <3>1. StopsAt(t, op, x)
      BY <1>8, <2>6, <2>7 DEF StopsAt
    <3>2. Advance(t, ev) /\ Rest(t, ev)
      BY <1>10
    <3>3. QED
      BY <1>2, <2>1, <2>2, <2>4, <2>7, <3>1, <3>2, Stops
  <2>9. QED
    BY <1>7, <2>8
<1>11. CASE /\ q \in Queues /\ toPop' = [toPop EXCEPT ![q] = NULL]
            /\ Advance(t, ev) /\ ResetData(t)
            /\ Resume(t, ev, Start(toPop[q], "POP"))
            /\ UNCHANGED <<trace, paddr, memVars, mtxVars, barVars, toPush, numIdle>>
  <2>1. Frame(t)
    BY <1>6, <1>11 DEF Frame, ResetData
  <2>2. /\ toPop'[q] = NULL /\ toPush' = toPush /\ waiting' = waiting
        /\ arrived' = arrived /\ owner' = owner
        /\ \A r \in Queues : r # q => toPop'[r] = toPop[r]
    BY <1>6, <1>11 DEF QueueOK, mtxVars, barVars
  <2>3. CASE toPop[q] = NULL
    <3>1. toPop' = toPop
      BY <1>6, <1>11, <2>3 DEF QueueOK
    <3>2. Resume(t, ev, {})
      BY <1>11, <2>3 DEF Start
    <3>3. QED
      <4>1. OwnsByEntry(t, ev) /\ UNCHANGED <<waiting, arrived, toPush, toPop>>
        BY <2>2, <3>1 DEF OwnsByEntry
      <4>2. Advance(t, ev)
        BY <1>11
      <4>3. QED
        BY <1>2, <1>7, <1>8, <2>1, <3>2, <4>1, <4>2, Continues
  <2>4. CASE toPop[q] # NULL
    <3>1. PICK w \in TREs : w = toPop[q]
      BY <1>6, <1>11, <2>4 DEF QueueOK
    <3>2. /\ NoEvent(w) /\ JustRead(w) /\ LastRead(w).op = "POP"
          /\ data[w] = LastRead(w).val
          /\ \A r \in Queues : toPop[r] = w => r = q
      <4>1. QueueWait(w)
        BY <1>1 DEF PlacedTRE
      <4>2. q = <<LastRead(w).val, w>> => \A r : r = <<LastRead(w).val, w>> => r = q
        OBVIOUS
      <4>3. QED
        BY <1>11, <3>1, <4>1, <4>2 DEF QueueWait
    <3>3. \A r \in Queues : toPush[r] # w
      BY <1>1, <3>2 DEF PlacedTRE, QueueWait
    <3>4. w \notin blocked /\ retryPkt[w] = NULL /\ ~AtMutex(w) /\ ~AtBarrier(w)
      BY <1>1, <3>2, Exclusive
    <3>5. w # t
      BY <1>4, <3>2 DEF NoEvent
    <3>6. SameTRE(w)
      BY <1>1, <1>11, <2>1, <3>5, FrameSame
    <3>7. ~Waits(w)'
      <4>1. ~AtQueue(w)'
        BY <2>2, <3>2, <3>3, Ids DEF AtQueue
      <4>2. QED
        BY <2>2, <3>4, <3>6, <4>1 DEF Waits, AtMutex, AtBarrier, SameTRE
    <3>8. ~Waits(t)'
      <4>1. ~AtQueue(t)'
        BY <1>5, <2>2, Ids DEF Waits, AtQueue
      <4>2. QED
        BY <1>5, <1>11, <2>2, <4>1 DEF Waits, AtMutex, AtBarrier, memVars
    <3>9. Resume(t, ev, {w} \X {"POP"})
      <4>1. {<<w, "POP">>} = {w} \X {"POP"}
        BY SMT
      <4>2. QED
        BY <1>11, <2>4, <3>1, <4>1 DEF Start
    <3>10. EventIsRead(w)'
      <4>1. \A f \in Prims : <<w, f>> \in sched' => f = "POP"
        BY <3>2, <3>5, <3>9 DEF Resume, NoEvent, Events
      <4>2. JustRead(w)' /\ LastRead(w)' = LastRead(w) /\ data'[w] = data[w]
        BY <3>2, <3>6 DEF SameTRE, JustRead, LastRead
      <4>3. QED
        BY <3>2, <4>1, <4>2 DEF EventIsRead, Mutexes, Barriers
    <3>11. CriticalOwns(w)'
      <4>1. KeepsMutexes(w) /\ \A b \in Addr : ~In(w, waiting[b])
        BY <2>2, <3>4 DEF KeepsMutexes, AtMutex
      <4>2. <<w, "MTXLOCK">> \notin sched
        BY <3>2 DEF NoEvent, Events, Prims, Mutexes
      <4>3. QED
        BY <1>1, <3>6, <4>1, <4>2, OwnsStill
    <3>12. CriticalOwns(t)'
      BY <1>1, <1>8, <1>11, <2>2, OwnsAfter
    <3>13. WaitsOnce'
      BY <2>2 DEF Placed, WaitsOnce
    <3>14. \A u \in TREs : u \notin {w} /\ u # t => SameWaits(u) /\ KeepsMutexes(u)
      BY <2>2, <3>1, Ids DEF SameWaits, KeepsMutexes
    <3>15. /\ {w} \in SUBSET TREs /\ "POP" \in Events
           /\ \A u \in {w} : /\ NoEvent(u) /\ u \notin blocked /\ ~Waits(u)'
                             /\ "POP" # "tick" => EventIsRead(u)'
                             /\ CriticalOwns(u)'
      BY <3>2, <3>4, <3>7, <3>10, <3>11 DEF Events, Prims
    <3>16. Placed' /\ sim' = sim
      BY <1>11, <2>1, <3>8, <3>9, <3>12, <3>13, <3>14, <3>15, Starts
    <3>17. QED
      BY <1>7, <3>16
  <2>5. QED
    BY <2>3, <2>4
<1>12. QED
  BY <1>4, <1>8, <1>9, <1>10, <1>11 DEF push

LEMMA PopPlaced ==
  ASSUME TypeOK, sim = "run", Placed, NEW t \in TREs, NEW ev, NEW op,
         Performs(t, ev, op), op = "POP", Perform(t, ev, op)
  PROVE  Placed' /\ EventAssertsHold'
<1> USE ZenonT(60)
<1>1. \A u \in TREs : PlacedTRE(u)
  BY DEF Placed
<1>2. PICK x \in Entry : x = trace[t][Place(t, ev)]
  BY <1>1, Performing
<1>3. PICK q : q = <<x.val, t>>
  OBVIOUS
<1>4. /\ q = <<Number(t, ev), t>> /\ q[1] = x.val
      /\ ev \in Events /\ <<t, ev>> \in sched
  BY <1>1, <1>2, <1>3, Performing
<1>5. ~Waits(t)
  BY <1>1, <1>4, Awake
<1>6. data \in [TREs -> Nat] /\ QueueOK
  BY DEF TypeOK, ReplayOK
<1>7. Placed' /\ sim' = sim => EventAssertsHold'
  BY DEF EventAssertsHold
<1>8. op # "MTXLOCK" /\ op # "MTXUNLOCK" /\ pop(t, ev)
  BY DEF Perform, Stats
<1>9. CASE Abort("exit: no queue")
  BY <1>9, Aborts DEF Outcomes
<1>10. CASE /\ q \in Queues /\ toPop' = [toPop EXCEPT ![q] = t]
            /\ data' = [data EXCEPT ![t] = q[1]]
            /\ Advance(t, ev) /\ Rest(t, ev)
            /\ UNCHANGED <<trace, paddr, memVars, mtxVars, barVars, qlen, toPush,
                           numIdle>>
  <2>1. Frame(t) /\ data'[t] = x.val
    BY <1>4, <1>6, <1>10 DEF Frame
  <2>2. /\ toPop'[q] = t /\ toPush' = toPush /\ waiting' = waiting
        /\ arrived' = arrived /\ owner' = owner
        /\ \A r \in Queues : r # q => toPop'[r] = toPop[r]
    BY <1>6, <1>10 DEF QueueOK, mtxVars, barVars
  <2>3. \A u \in TREs : u # t => toPop[q] # u
    BY <1>1, <1>3, <1>10 DEF PlacedTRE, QueueWait
  <2>4. \A u \in TREs : u # t => SameWaits(u)
    BY <2>2, <2>3 DEF SameWaits
  <2>5. \A r \in Queues : (toPop'[r] = t <=> r = q) /\ toPush'[r] # t
    BY <1>5, <1>10, <2>2 DEF Waits, AtQueue
  <2>6. \A r \in Queues :
          /\ toPush'[r] = t => op = "PUSH" /\ r = <<t, x.val>> /\ data'[t] = x.val
          /\ toPop'[r] = t => op = "POP" /\ r = <<x.val, t>> /\ data'[t] = x.val
    BY <1>3, <2>1, <2>5
  <2>7. /\ Waits(t)' /\ WaitsOnce'
        /\ \A a \in Addr : ~In(t, waiting'[a]) /\ ~In(t, arrived'[a])
    BY <1>5, <1>10, <2>2
       DEF Waits, AtQueue, AtMutex, AtBarrier, Placed, WaitsOnce
  <2>8. Placed' /\ sim' = sim
    <3>1. StopsAt(t, op, x)
      BY <1>8, <2>6, <2>7 DEF StopsAt
    <3>2. Advance(t, ev) /\ Rest(t, ev)
      BY <1>10
    <3>3. QED
      BY <1>2, <2>1, <2>2, <2>4, <2>7, <3>1, <3>2, Stops
  <2>9. QED
    BY <1>7, <2>8
<1>11. CASE /\ q \in Queues /\ toPush' = [toPush EXCEPT ![q] = NULL]
            /\ Advance(t, ev) /\ ResetData(t)
            /\ Resume(t, ev, Start(toPush[q], "PUSH"))
            /\ UNCHANGED <<trace, paddr, memVars, mtxVars, barVars, toPop, numIdle>>
  <2>1. Frame(t)
    BY <1>6, <1>11 DEF Frame, ResetData
  <2>2. /\ toPush'[q] = NULL /\ toPop' = toPop /\ waiting' = waiting
        /\ arrived' = arrived /\ owner' = owner
        /\ \A r \in Queues : r # q => toPush'[r] = toPush[r]
    BY <1>6, <1>11 DEF QueueOK, mtxVars, barVars
  <2>3. CASE toPush[q] = NULL
    <3>1. toPush' = toPush
      BY <1>6, <1>11, <2>3 DEF QueueOK
    <3>2. Resume(t, ev, {})
      BY <1>11, <2>3 DEF Start
    <3>3. QED
      <4>1. OwnsByEntry(t, ev) /\ UNCHANGED <<waiting, arrived, toPush, toPop>>
        BY <2>2, <3>1 DEF OwnsByEntry
      <4>2. Advance(t, ev)
        BY <1>11
      <4>3. QED
        BY <1>2, <1>7, <1>8, <2>1, <3>2, <4>1, <4>2, Continues
  <2>4. CASE toPush[q] # NULL
    <3>1. PICK w \in TREs : w = toPush[q]
      BY <1>6, <1>11, <2>4 DEF QueueOK
    <3>2. /\ NoEvent(w) /\ JustRead(w) /\ LastRead(w).op = "PUSH"
          /\ data[w] = LastRead(w).val
          /\ \A r \in Queues : toPush[r] = w => r = q
      <4>1. QueueWait(w)
        BY <1>1 DEF PlacedTRE
      <4>2. q = <<w, LastRead(w).val>> => \A r : r = <<w, LastRead(w).val>> => r = q
        OBVIOUS
      <4>3. QED
        BY <1>11, <3>1, <4>1, <4>2 DEF QueueWait
    <3>3. \A r \in Queues : toPop[r] # w
      BY <1>1, <3>2 DEF PlacedTRE, QueueWait
    <3>4. w \notin blocked /\ retryPkt[w] = NULL /\ ~AtMutex(w) /\ ~AtBarrier(w)
      BY <1>1, <3>2, Exclusive
    <3>5. w # t
      BY <1>4, <3>2 DEF NoEvent
    <3>6. SameTRE(w)
      BY <1>1, <1>11, <2>1, <3>5, FrameSame
    <3>7. ~Waits(w)'
      <4>1. ~AtQueue(w)'
        BY <2>2, <3>2, <3>3, Ids DEF AtQueue
      <4>2. QED
        BY <2>2, <3>4, <3>6, <4>1 DEF Waits, AtMutex, AtBarrier, SameTRE
    <3>8. ~Waits(t)'
      <4>1. ~AtQueue(t)'
        BY <1>5, <2>2, Ids DEF Waits, AtQueue
      <4>2. QED
        BY <1>5, <1>11, <2>2, <4>1 DEF Waits, AtMutex, AtBarrier, memVars
    <3>9. Resume(t, ev, {w} \X {"PUSH"})
      <4>1. {<<w, "PUSH">>} = {w} \X {"PUSH"}
        BY SMT
      <4>2. QED
        BY <1>11, <2>4, <3>1, <4>1 DEF Start
    <3>10. EventIsRead(w)'
      <4>1. \A f \in Prims : <<w, f>> \in sched' => f = "PUSH"
        BY <3>2, <3>5, <3>9 DEF Resume, NoEvent, Events
      <4>2. JustRead(w)' /\ LastRead(w)' = LastRead(w) /\ data'[w] = data[w]
        BY <3>2, <3>6 DEF SameTRE, JustRead, LastRead
      <4>3. QED
        BY <3>2, <4>1, <4>2 DEF EventIsRead, Mutexes, Barriers
    <3>11. CriticalOwns(w)'
      <4>1. KeepsMutexes(w) /\ \A b \in Addr : ~In(w, waiting[b])
        BY <2>2, <3>4 DEF KeepsMutexes, AtMutex
      <4>2. <<w, "MTXLOCK">> \notin sched
        BY <3>2 DEF NoEvent, Events, Prims, Mutexes
      <4>3. QED
        BY <1>1, <3>6, <4>1, <4>2, OwnsStill
    <3>12. CriticalOwns(t)'
      BY <1>1, <1>8, <1>11, <2>2, OwnsAfter
    <3>13. WaitsOnce'
      BY <2>2 DEF Placed, WaitsOnce
    <3>14. \A u \in TREs : u \notin {w} /\ u # t => SameWaits(u) /\ KeepsMutexes(u)
      BY <2>2, <3>1, Ids DEF SameWaits, KeepsMutexes
    <3>15. /\ {w} \in SUBSET TREs /\ "PUSH" \in Events
           /\ \A u \in {w} : /\ NoEvent(u) /\ u \notin blocked /\ ~Waits(u)'
                             /\ "PUSH" # "tick" => EventIsRead(u)'
                             /\ CriticalOwns(u)'
      BY <3>2, <3>4, <3>7, <3>10, <3>11 DEF Events, Prims
    <3>16. Placed' /\ sim' = sim
      BY <1>11, <2>1, <3>8, <3>9, <3>12, <3>13, <3>14, <3>15, Starts
    <3>17. QED
      BY <1>7, <3>16
  <2>5. QED
    BY <2>3, <2>4
<1>12. QED
  BY <1>4, <1>8, <1>9, <1>10, <1>11 DEF pop, ClearPusher

LEMMA SleepPlaced ==
  ASSUME TypeOK, sim = "run", Placed, NEW t \in TREs, NEW ev, NEW op,
         Performs(t, ev, op), op \in {"SLEEP"} \cup Stats, Perform(t, ev, op)
  PROVE  Placed' /\ EventAssertsHold'
<1> USE ZenonT(60)
<1>1. PlacedTRE(t)
  BY DEF Placed
<1>2. PICK x : x = trace[t][Place(t, ev)]
  OBVIOUS
<1>3. ev \in Events /\ <<t, ev>> \in sched
  BY <1>1, Performing
<1>4. ~Waits(t)
  BY <1>1, <1>3, Awake
<1>5. (op = "SLEEP" /\ sleep(t, ev)) \/ stats(t, ev)
  BY DEF Perform, Stats
<1>6. op # "MTXLOCK" /\ op # "MTXUNLOCK"
  BY DEF Stats
<1>7. /\ UNCHANGED <<trace, paddr, data, memVars, mtxVars, barVars, qVars>>
      /\ Advance(t, ev)
  BY <1>5 DEF sleep, stats
<1>8. /\ Frame(t) /\ owner' = owner
      /\ UNCHANGED <<waiting, arrived, toPush, toPop>>
  BY <1>7 DEF Frame, mtxVars, barVars, qVars
<1>9. CASE stats(t, ev)
  <2>1. Placed' /\ sim' = sim
    <3>1. OwnsByEntry(t, ev) /\ Resume(t, ev, {})
      BY <1>8, <1>9 DEF OwnsByEntry, stats
    <3>2. QED
      BY <1>2, <1>6, <1>7, <1>8, <3>1, Continues
  <2>2. QED
    BY <2>1 DEF EventAssertsHold
<1>10. CASE op = "SLEEP" /\ sleep(t, ev)
  <2>1. WaitsOnce' /\ \A u \in TREs : SameWaits(u)
    BY <1>8 DEF Placed, WaitsOnce, SameWaits
  <2>2. /\ \A a \in Addr : ~In(t, waiting'[a]) /\ ~In(t, arrived'[a])
        /\ \A q \in Queues : toPush'[q] # t /\ toPop'[q] # t
    BY <1>4, <1>8 DEF Waits, AtMutex, AtBarrier, AtQueue
  <2>3. Rest(t, ev)
    BY <1>10 DEF sleep
  <2>4. Placed' /\ sim' = sim
    <3>1. StopsAt(t, op, x)
      BY <1>6, <1>10, <2>2 DEF StopsAt
    <3>2. QED
      BY <1>2, <1>7, <1>8, <2>1, <2>3, <3>1, Stops
  <2>5. QED
    BY <2>4 DEF EventAssertsHold
<1>11. QED
  BY <1>5, <1>9, <1>10

LEMMA WakePlaced ==
  ASSUME TypeOK, sim = "run", Placed, NEW t \in TREs, NEW ev, NEW op,
         Performs(t, ev, op), op = "WAKE", Perform(t, ev, op),
         ev = "tick" => Current(t).cyc = 0, WakesSleeper
  PROVE  Placed' /\ EventAssertsHold'
<1> USE ZenonT(60)
<1>1. \A u \in TREs : PlacedTRE(u)
  BY DEF Placed
<1>2. /\ ev \in Events /\ <<t, ev>> \in sched /\ ev \in {"tick", "WAKE"}
      /\ Number(t, ev) \in Nat
  BY <1>1, Performing, SMT DEF Entry
<1>3. ~Waits(t)
  BY <1>1, <1>2, Awake
<1>4. wake(t, ev) /\ op # "MTXLOCK" /\ op # "MTXUNLOCK"
  BY DEF Perform, Stats
<1>5. \A why : Abort(why) /\ why \in {"assert: wake data", "crash: allTREs",
                                      "fatal: already awake"} =>
        Placed' /\ EventAssertsHold'
  BY Aborts DEF Outcomes
<1>6. CASE /\ Number(t, ev) \in 1 .. Len(allTREs) - 1
           /\ <<Target(t, ev), "tick">> \notin sched \ {<<t, ev>>}
           /\ Advance(t, ev) /\ Resume(t, ev, {<<Target(t, ev), "tick">>})
           /\ ResetData(t)
           /\ UNCHANGED <<trace, paddr, memVars, mtxVars, barVars, qVars, numIdle>>
  <2>1. PICK w \in TREs : w = Target(t, ev)
    BY <1>6, TREsAssumption, SeqShape, SMTT(60) DEF Target, TREs, Range
  <2>2. Asleep(w)
    <3>1. WakeStep(t, ev)
      BY <1>2, <1>4, <1>6 DEF WakeStep, Performs
    <3>2. QED
      BY <1>2, <2>1, <3>1 DEF WakesSleeper
  <2>3. NoEvent(w) /\ ~Waits(w) /\ w \notin blocked
    BY <2>2 DEF Asleep
  <2>4. w # t
    BY <1>2, <2>3 DEF NoEvent
  <2>5. Frame(t)
    BY <1>6 DEF Frame, ResetData, TypeOK, ReplayOK
  <2>6. /\ owner' = owner /\ UNCHANGED <<waiting, arrived, toPush, toPop, retryPkt>>
    BY <1>6 DEF mtxVars, barVars, qVars, memVars
  <2>7. ~Waits(w)' /\ ~Waits(t)' /\ WaitsOnce'
    BY <1>3, <2>3, <2>6
       DEF Waits, AtMutex, AtBarrier, AtQueue, Placed, WaitsOnce
  <2>8. CriticalOwns(w)'
    <3>1. SameTRE(w)
      BY <1>1, <1>6, <2>4, <2>5, FrameSame
    <3>2. KeepsMutexes(w) /\ \A b \in Addr : ~In(w, waiting[b])
      BY <2>3, <2>6 DEF KeepsMutexes, Waits, AtMutex
    <3>3. <<w, "MTXLOCK">> \notin sched
      BY <2>3 DEF NoEvent, Events, Prims, Mutexes
    <3>4. QED
      BY <1>1, <3>1, <3>2, <3>3, OwnsStill
  <2>9. CriticalOwns(t)'
    BY <1>1, <1>4, <1>6, <2>6, OwnsAfter
  <2>10. \A u \in TREs : SameWaits(u) /\ KeepsMutexes(u)
    BY <2>6 DEF SameWaits, KeepsMutexes
  <2>11. Resume(t, ev, {w} \X {"tick"})
    <3>1. {<<w, "tick">>} = {w} \X {"tick"}
      BY SMT
    <3>2. QED
      BY <1>6, <2>1, <3>1
  <2>12. /\ {w} \in SUBSET TREs /\ "tick" \in Events
         /\ \A u \in {w} : /\ NoEvent(u) /\ u \notin blocked /\ ~Waits(u)'
                           /\ "tick" # "tick" => EventIsRead(u)'
                           /\ CriticalOwns(u)'
    BY <2>3, <2>7, <2>8 DEF Events
  <2>13. Placed' /\ sim' = sim
    BY <1>6, <2>5, <2>7, <2>9, <2>10, <2>11, <2>12, Starts
  <2>14. QED
    BY <2>13 DEF EventAssertsHold
<1>7. QED
  BY <1>4, <1>5, <1>6 DEF wake, Target

(* The handlers of all primitives. *)
LEMMA PerformPlaced ==
  ASSUME TypeOK, sim = "run", Placed, NEW t \in TREs, NEW ev, NEW op,
         Performs(t, ev, op), Perform(t, ev, op),
         ev = "tick" => Current(t).cyc = 0, WakesSleeper
  PROVE  Placed' /\ EventAssertsHold'
<1>1. op \in Mutexes \/ op \in Barriers \/ op = "PUSH" \/ op = "POP"
      \/ op \in {"SLEEP"} \cup Stats \/ op = "WAKE"
  BY ZenonT(60) DEF Performs, Prims
<1>2. QED
  BY <1>1, MutexPlaced, BarrierPlaced, PushPlaced, PopPlaced, SleepPlaced,
     WakePlaced, ZenonT(60)

----------------------------------------------------------------------------
(* Accesses, stalls and the port. *)

(* A step that touches t alone. *)
LEMMA Local ==
  ASSUME sim = "run", Placed, NEW t \in TREs, PlacedTRE(t)',
         UNCHANGED <<mtxVars, barVars, qVars>>,
         \A u \in TREs : u # t => SameTRE(u) /\ SameEvents(u)
  PROVE  Placed'
<1> USE ZenonT(60)
<1>1. \A u \in TREs : SameWaits(u) /\ KeepsMutexes(u)
  BY DEF SameWaits, KeepsMutexes, mtxVars, barVars, qVars
<1>2. \A u \in TREs : PlacedTRE(u)'
  BY <1>1, Kept DEF Placed
<1>3. QED
  BY <1>2 DEF Placed, WaitsOnce, mtxVars, barVars

(* t owns the mutexes of its critical sections while its position stays. *)
LEMMA OwnsSame ==
  ASSUME NEW t \in TREs, PlacedTRE(t), trace' = trace, pos'[t] = pos[t],
         UNCHANGED mtxVars,
         <<t, "MTXLOCK">> \in sched => <<t, "MTXLOCK">> \in sched'
  PROVE  CriticalOwns(t)'
<1>1. ASSUME NEW a \in Addr PROVE InCritical(t, a)' => InCritical(t, a)
  BY ZenonT(60) DEF InCritical, mtxVars
<1>2. QED
  BY <1>1, ZenonT(60) DEF PlacedTRE, CriticalOwns, mtxVars

(* The same when a tick reads an entry and does not perform it. *)
LEMMA OwnsNext ==
  ASSUME TypeOK, NEW t \in TREs, PlacedTRE(t), <<t, "tick">> \in sched,
         trace' = trace, UNCHANGED mtxVars,
         pos[t] \in DOMAIN trace[t], pos'[t] = pos[t] + 1,
         Current(t).op = "MTXLOCK" => <<t, "MTXLOCK">> \in sched'
  PROVE  CriticalOwns(t)'
<1> USE ZenonT(60)
<1>1. "tick" \in Events /\ "MTXLOCK" \in Events /\ pos[t] \in Nat
  BY DEF Events, Prims, Mutexes, TypeOK, ReplayOK
<1>2. ~Waits(t) /\ <<t, "MTXLOCK">> \notin sched
  BY <1>1, Awake
<1>3. ASSUME NEW a \in Addr, InCritical(t, a)' PROVE owner'[a] = t
  <2>1. LockedAt(t, pos[t], a)
    BY <1>1, <1>3, CriticalAfter DEF Locks, Current
  <2>2. InCritical(t, a)
    BY <1>2, <2>1, SMT
       DEF LockedAt, Locks, Unlocks, InCritical, Waits, AtMutex
  <2>3. QED
    BY <2>2 DEF PlacedTRE, CriticalOwns, mtxVars
<1>4. QED
  BY <1>3 DEF CriticalOwns

(* How an access ends: the simulation, or with a tick of t, or with a      *)
(* packet to send again.                                                   *)
LEMMA Issues ==
  ASSUME TypeOK, sim = "run", NEW t \in TREs, retryPkt[t] = NULL,
         \A f \in Events : <<t, f>> \in sched <=> f = "tick",
         NEW cmd \in Accesses, NEW a \in Addr, NEW unc \in BOOLEAN,
         NEW blk \in BOOLEAN, NEW pc \in Nat \cup {NoPC},
         Issue(t, cmd, a, unc, blk, pc)
  PROVE  /\ \A u \in TREs : u # t =>
              /\ outs'[u] = outs[u] /\ retryPkt'[u] = retryPkt[u]
              /\ SameEvents(u)
         /\ \/ sim' \in {"panic: outstanding", "panic: access failed"}
            \/ /\ sim' = "run" /\ retryPkt'[t] = NULL
               /\ \A f \in Events : <<t, f>> \in sched' <=> f = "tick"
            \/ sim' = "run" /\ retryPkt'[t] # NULL /\ NoEvent(t)'
<1> USE ZenonT(60)
<1> DEFINE pkt == [cmd |-> cmd, addr |-> a, unc |-> unc, pc |-> pc]
<1>1. pkt \in Packet /\ pkt # NULL
  BY NullAssumption, SMT DEF Packet
<1> HIDE DEF pkt
<1>2. "tick" \in Events /\ MemOK
  BY DEF Events, TypeOK
<1>3. CASE /\ sim' \in {"panic: outstanding", "panic: access failed"}
           /\ UNCHANGED <<sched, outs, retryPkt>>
  BY <1>3 DEF SameEvents
<1>4. ASSUME NEW s, outs' = [outs EXCEPT ![t] = s], Resume(t, "tick", {}),
             retryPkt' = retryPkt
      PROVE  /\ sim' = "run" /\ retryPkt'[t] = NULL
             /\ \A f \in Events : <<t, f>> \in sched' <=> f = "tick"
             /\ \A u \in TREs : u # t => outs'[u] = outs[u] /\ SameEvents(u)
  <2>1. /\ sim' = sim
        /\ \A f \in Events : <<t, f>> \in sched' <=> f = "tick"
        /\ \A u, f : u # t => (<<u, f>> \in sched' <=> <<u, f>> \in sched)
    BY <1>2, <1>4, Resumed, SMTT(20)
  <2>2. QED
    BY <1>2, <1>4, <2>1 DEF SameEvents, MemOK
<1>5. ASSUME NEW s, outs' = [outs EXCEPT ![t] = s], Rest(t, "tick"),
             retryPkt' = [retryPkt EXCEPT ![t] = pkt]
      PROVE  /\ sim' = "run" /\ retryPkt'[t] # NULL /\ NoEvent(t)'
             /\ \A u \in TREs : u # t =>
                  /\ outs'[u] = outs[u] /\ retryPkt'[u] = retryPkt[u]
                  /\ SameEvents(u)
  <2>1. /\ sim' = sim /\ NoEvent(t)'
        /\ \A u, f : u # t => (<<u, f>> \in sched' <=> <<u, f>> \in sched)
    BY <1>2, <1>5, Rested
  <2>2. QED
    BY <1>1, <1>2, <1>5, <2>1 DEF SameEvents, MemOK
<1>6. \/ /\ sim' \in {"panic: outstanding", "panic: access failed"}
         /\ UNCHANGED <<sched, outs, retryPkt>>
      \/ \E s : /\ outs' = [outs EXCEPT ![t] = s] /\ Resume(t, "tick", {})
                /\ retryPkt' = retryPkt
      \/ \E s : /\ outs' = [outs EXCEPT ![t] = s] /\ Rest(t, "tick")
                /\ retryPkt' = [retryPkt EXCEPT ![t] = pkt]
  BY DEF Issue, pkt
<1>7. QED
  BY <1>3, <1>4, <1>5, <1>6

(* Where t is then. *)
LEMMA Issued ==
  ASSUME NEW t \in TREs, t \notin blocked', bpkt'[t].deps = {},
         JustRead(t)', LastRead(t)'.op \in Accesses,
         ~AtMutex(t)', ~AtBarrier(t)', ~AtQueue(t)', CriticalOwns(t)',
         \/ /\ retryPkt'[t] = NULL
            /\ \A f \in Events : <<t, f>> \in sched' <=> f = "tick"
         \/ retryPkt'[t] # NULL /\ NoEvent(t)'
  PROVE  PlacedTRE(t)'
<1> USE ZenonT(60)
<1>1. BlockedWait(t)' /\ "tick" \in Events
  BY DEF BlockedWait, Events
<1>2. CASE /\ retryPkt'[t] = NULL
           /\ \A f \in Events : <<t, f>> \in sched' <=> f = "tick"
  <2>1. ~Waits(t)'
    BY <1>2 DEF Waits
  <2>2. QED
    BY <1>1, <1>2, <2>1, Running
<1>3. CASE retryPkt'[t] # NULL /\ NoEvent(t)'
  <2>1. OneEvent(t)' /\ EventIsRead(t)'
    BY <1>3 DEF NoEvent, OneEvent, EventIsRead, Events
  <2>2. MutexWait(t)' /\ BarrierWait(t)' /\ QueueWait(t)'
    BY DEF AtMutex, AtBarrier, AtQueue, MutexWait, BarrierWait, QueueWait
  <2>3. RetryWait(t)' /\ HasCause(t)'
    BY <1>3 DEF RetryWait, HasCause, Waits
  <2>4. QED
    BY <1>1, <2>1, <2>2, <2>3 DEF PlacedTRE
<1>4. QED
  BY <1>2, <1>3

(* t is blocked on an access or a stall it has read, or it sleeps for good *)
(* at the end of its trace.                                                *)
LEMMA Blocks ==
  ASSUME NEW t \in TREs, NoEvent(t)', JustRead(t)', BlockedWait(t)',
         ~Waits(t)', CriticalOwns(t)',
         \/ t \in blocked' /\ outs'[t] # << >>
         \/ LastRead(t)'.op = "EOF"
  PROVE  PlacedTRE(t)'
<1>1. OneEvent(t)' /\ EventIsRead(t)'
  BY ZenonT(60) DEF NoEvent, OneEvent, EventIsRead, Events
<1>2. MutexWait(t)' /\ BarrierWait(t)' /\ QueueWait(t)' /\ RetryWait(t)'
  BY DEF Waits, AtMutex, AtBarrier, AtQueue, MutexWait, BarrierWait, QueueWait,
         RetryWait
<1>3. HasCause(t)'
  BY ZenonT(60) DEF HasCause
<1>4. QED
  BY <1>1, <1>2, <1>3, ZenonT(60) DEF PlacedTRE

(* A tick reads the next entry. *)
LEMMA ReadsNext ==
  ASSUME TypeOK, NEW t \in TREs, PlacedTRE(t), NEW S,
         Reads(t, S), Read(t), trace' = trace
  PROVE  /\ JustRead(t)' /\ LastRead(t)' = Current(t)
         /\ Current(t) \in Entry /\ Current(t).op \in S
         /\ pos[t] \in DOMAIN trace[t] /\ pos'[t] = pos[t] + 1
         /\ t \notin blocked /\ bpkt[t].deps = {}
         /\ \A u \in TREs : u # t => pos'[u] = pos[u] /\ last'[u] = last[u]
<1> USE ZenonT(60)
<1>1. /\ pos \in [TREs -> Nat \ {0}] /\ last \in [TREs -> Nat \ {0}]
      /\ trace \in [TREs -> Seq(Entry)]
  BY DEF TypeOK, ReplayOK
<1>2. pos[t] \in DOMAIN trace[t] /\ t \notin blocked /\ Current(t).op \in S
  BY DEF Reads
<1>3. bpkt[t].deps = {} /\ Current(t) \in Entry
  BY <1>1, <1>2, SMTT(20) DEF PlacedTRE, BlockedWait, Current
<1>4. pos'[t] = pos[t] + 1 /\ last'[t] = pos[t]
  BY <1>1 DEF Read
<1>5. \A u \in TREs : u # t => pos'[u] = pos[u] /\ last'[u] = last[u]
  BY <1>1 DEF Read
<1>6. JustRead(t)' /\ LastRead(t)' = Current(t)
  BY <1>1, <1>2, <1>4, SMTT(20) DEF JustRead, LastRead, Current
<1>7. QED
  BY <1>2, <1>3, <1>4, <1>5, <1>6

(* The ticks that send, stall or wait for what is in flight. *)
LEMMA TickMemPlaced ==
  ASSUME TypeOK, sim = "run", Placed, NEW t \in TREs, Ticks(t),
         \/ TickStillBlocked(t) \/ TickUnblocked(t)
         \/ TickAccess(t) \/ TickStall(t)
  PROVE  Placed' /\ EventAssertsHold'
<1> USE ZenonT(60)
<1>1. PlacedTRE(t) /\ <<t, "tick">> \in sched /\ "tick" \in Events
  BY DEF Placed, Ticks, Events
<1>2. \A f \in Events : <<t, f>> \in sched <=> f = "tick"
  BY <1>1, Awake
<1>3. /\ ~AtMutex(t) /\ ~AtBarrier(t) /\ ~AtQueue(t) /\ retryPkt[t] = NULL
      /\ <<t, "MTXLOCK">> \notin sched
  <2>1. ~Waits(t)
    BY <1>1, Awake
  <2>2. QED
    BY <1>2, <2>1, SMTT(20) DEF Waits, Events, Prims, Mutexes
<1>4. /\ pos \in [TREs -> Nat \ {0}] /\ last \in [TREs -> Nat \ {0}]
      /\ trace \in [TREs -> Seq(Entry)] /\ MemOK
      /\ paddr \in [TREs -> Addr] /\ data \in [TREs -> Nat]
  BY DEF TypeOK, ReplayOK
<1>5. ASSUME UNCHANGED <<mtxVars, barVars, qVars>>
      PROVE  ~AtMutex(t)' /\ ~AtBarrier(t)' /\ ~AtQueue(t)'
  BY <1>3, <1>5 DEF AtMutex, AtBarrier, AtQueue, mtxVars, barVars, qVars
<1>6. ASSUME UNCHANGED <<mtxVars, barVars, qVars>>, retryPkt' = retryPkt
      PROVE  ~Waits(t)'
  BY <1>3, <1>5, <1>6 DEF Waits
<1>7. ASSUME NEW a, InFlight(t, a) PROVE outs[t] # << >>
  BY <1>4, <1>7, SMTT(60) DEF InFlight, MemOK
<1>8. ASSUME Reads(t, Accesses \cup {"STALL"}), Read(t), trace' = trace
      PROVE  /\ JustRead(t)' /\ LastRead(t)' = Current(t)
             /\ Current(t) \in Entry /\ pos[t] \in DOMAIN trace[t]
             /\ pos'[t] = pos[t] + 1 /\ Current(t).op # "MTXLOCK"
             /\ t \notin blocked /\ bpkt[t].deps = {}
             /\ \A u \in TREs : u # t => pos'[u] = pos[u] /\ last'[u] = last[u]
  <2>1. Current(t).op # "MTXLOCK"
    BY <1>8 DEF Reads, Accesses
  <2>2. QED
    BY <1>1, <1>8, <2>1, ReadsNext
<1>9. CASE TickStillBlocked(t)
  <2>1. /\ t \in blocked /\ Rest(t, "tick")
        /\ UNCHANGED <<trace, pos, last, paddr, data, memVars, mtxVars, barVars, qVars>>
    BY <1>9 DEF TickStillBlocked
  <2>2. outs[t] # << >>
    BY <1>7, <1>9 DEF TickStillBlocked
  <2>3. /\ sim' = sim /\ NoEvent(t)'
        /\ \A u, f : u # t => (<<u, f>> \in sched' <=> <<u, f>> \in sched)
    BY <1>1, <1>2, <2>1, Rested
  <2>4. JustRead(t)' /\ BlockedWait(t)'
    BY <1>1, <2>1 DEF PlacedTRE, BlockedWait, JustRead, LastRead, memVars
  <2>5. CriticalOwns(t)'
    BY <1>1, <1>3, <2>1, OwnsSame
  <2>6. ~Waits(t)' /\ t \in blocked' /\ outs'[t] # << >>
    BY <1>6, <2>1, <2>2 DEF memVars
  <2>7. PlacedTRE(t)'
    BY <2>3, <2>4, <2>5, <2>6, Blocks
  <2>8. \A u \in TREs : u # t => SameTRE(u) /\ SameEvents(u)
    BY <2>1, <2>3 DEF SameTRE, SameEvents, memVars
  <2>9. Placed'
    BY <2>1, <2>7, <2>8, Local
  <2>10. QED
    BY <2>3, <2>9 DEF EventAssertsHold
<1>10. CASE TickUnblocked(t)
  <2>1. /\ t \in blocked /\ blocked' = blocked \ {t}
        /\ bpkt' = [bpkt EXCEPT ![t].deps = {}]
        /\ paddr' = [paddr EXCEPT ![t] = bpkt[t].addr]
        /\ data' = [data EXCEPT ![t] = bpkt[t].data]
        /\ UNCHANGED <<trace, pos, last, mtxVars, barVars, qVars, numIdle>>
    BY <1>10 DEF TickUnblocked
  <2>2. /\ JustRead(t)' /\ LastRead(t)' = LastRead(t)
        /\ bpkt[t].cmd = LastRead(t).op
    BY <1>1, <2>1 DEF PlacedTRE, BlockedWait, JustRead, LastRead
  <2>3. CriticalOwns(t)'
    BY <1>1, <1>3, <2>1, OwnsSame
  <2>4. /\ t \notin blocked' /\ bpkt'[t].deps = {}
        /\ \A u \in TREs : u # t =>
             /\ u \in blocked' <=> u \in blocked
             /\ bpkt'[u] = bpkt[u]
             /\ paddr'[u] = paddr[u] /\ data'[u] = data[u]
    BY <1>4, <2>1 DEF MemOK, BlockedPkt
  <2>5. CASE Resume(t, "tick", {}) /\ UNCHANGED <<noResp, outs, retryPkt, mem>>
    <3>1. /\ sim' = sim
          /\ \A f \in Events : <<t, f>> \in sched' <=> f = "tick"
          /\ \A u, f : u # t => (<<u, f>> \in sched' <=> <<u, f>> \in sched)
      BY <1>1, <1>2, <2>5, Resumed, SMTT(20)
    <3>2. BlockedWait(t)' /\ ~Waits(t)'
      BY <1>6, <2>1, <2>4, <2>5 DEF BlockedWait
    <3>3. PlacedTRE(t)'
      BY <1>1, <2>3, <3>1, <3>2, Running
    <3>4. \A u \in TREs : u # t => SameTRE(u) /\ SameEvents(u)
      BY <2>1, <2>4, <2>5, <3>1 DEF SameTRE, SameEvents
    <3>5. Placed'
      BY <2>1, <3>3, <3>4, Local
    <3>6. QED
      BY <3>1, <3>5 DEF EventAssertsHold
  <2>6. CASE /\ bpkt[t].cmd # "STALL"
             /\ Issue(t, bpkt[t].cmd, bpkt[t].addr, bpkt[t].unc, bpkt[t].blk, NoPC)
    <3>1. /\ bpkt[t].cmd \in Accesses /\ bpkt[t].addr \in Addr
          /\ bpkt[t].unc \in BOOLEAN /\ bpkt[t].blk \in BOOLEAN
          /\ NoPC \in Nat \cup {NoPC}
      BY <1>4, <2>6 DEF MemOK, BlockedPkt
    <3>2. /\ \A u \in TREs : u # t =>
               /\ outs'[u] = outs[u] /\ retryPkt'[u] = retryPkt[u]
               /\ SameEvents(u)
          /\ \/ sim' \in {"panic: outstanding", "panic: access failed"}
             \/ /\ sim' = "run" /\ retryPkt'[t] = NULL
                /\ \A f \in Events : <<t, f>> \in sched' <=> f = "tick"
             \/ sim' = "run" /\ retryPkt'[t] # NULL /\ NoEvent(t)'
      BY <1>2, <1>3, <2>6, <3>1, Issues
    <3>3. CASE sim' \in {"panic: outstanding", "panic: access failed"}
      BY <3>3 DEF Placed, EventAssertsHold
    <3>4. CASE sim' = "run"
      <4>1. LastRead(t)'.op \in Accesses
        BY <2>2, <3>1
      <4>2. PlacedTRE(t)'
        BY <1>5, <2>1, <2>2, <2>3, <2>4, <3>2, <3>4, <4>1, Issued
      <4>3. \A u \in TREs : u # t => SameTRE(u) /\ SameEvents(u)
        BY <2>1, <2>4, <3>2 DEF SameTRE
      <4>4. Placed'
        BY <2>1, <4>2, <4>3, Local
      <4>5. QED
        BY <3>4, <4>4 DEF EventAssertsHold
    <3>5. QED
      BY <3>2, <3>3, <3>4
  <2>7. QED
    BY <1>10, <2>5, <2>6 DEF TickUnblocked
<1>11. CASE TickAccess(t)
  <2> DEFINE e == Current(t)
             blk == blkingAccAddrInFlight(t)
             deps == blk \cup Unreturned(t, e.deps)
  <2>1. /\ Reads(t, Accesses) /\ Read(t)
        /\ paddr' = [paddr EXCEPT ![t] = e.addr]
        /\ UNCHANGED <<trace, data, mtxVars, barVars, qVars, numIdle>>
    BY <1>11 DEF TickAccess
  <2>2. Reads(t, Accesses \cup {"STALL"}) /\ e.op \in Accesses
    BY <2>1 DEF Reads
  <2>3. /\ JustRead(t)' /\ LastRead(t)' = e
        /\ e \in Entry /\ pos[t] \in DOMAIN trace[t]
        /\ pos'[t] = pos[t] + 1 /\ e.op # "MTXLOCK"
        /\ t \notin blocked /\ bpkt[t].deps = {}
        /\ \A u \in TREs : u # t => pos'[u] = pos[u] /\ last'[u] = last[u]
    BY <1>8, <2>1, <2>2
  <2>4. CriticalOwns(t)'
    BY <1>1, <2>1, <2>3, OwnsNext
  <2>5. \A u \in TREs : u # t => paddr'[u] = paddr[u]
    BY <1>4, <2>1
  <2>6. CASE /\ Len(outs[t]) >= MaxOutstanding \/ deps # {}
             /\ blocked' = blocked \cup {t}
             /\ bpkt' = [bpkt EXCEPT ![t] = Saved(t, e, deps)]
             /\ sched' = sched \ {<<t, "tick">>}
             /\ sim' = IF blk # {} /\ bpkt[t].deps # {}
                       THEN "assert: deps.empty()" ELSE sim
             /\ UNCHANGED <<noResp, outs, retryPkt, mem>>
    <3>1. sim' = sim
      BY <2>3, <2>6
    <3>2. outs[t] # << >>
      <4>1. CASE Len(outs[t]) >= MaxOutstanding
        BY <1>4, <4>1, ConfigAssumption, SMTT(60) DEF MemOK
      <4>2. CASE deps # {}
        BY <1>4, <4>2, SMTT(60) DEF blkingAccAddrInFlight, Unreturned, InFlight, MemOK
      <4>3. QED
        BY <2>6, <4>1, <4>2
    <3>3. NoEvent(t)' /\ \A u \in TREs : u # t => SameEvents(u)
      BY <1>2, <2>6 DEF NoEvent, SameEvents
    <3>4. /\ bpkt'[t].cmd = e.op /\ t \in blocked'
          /\ \A u \in TREs : u # t => bpkt'[u] = bpkt[u]
      BY <1>4, <2>6 DEF MemOK, Saved
    <3>5. BlockedWait(t)'
      BY <2>2, <2>3, <3>4 DEF BlockedWait
    <3>6. PlacedTRE(t)'
      BY <1>6, <2>1, <2>3, <2>4, <2>6, <3>2, <3>3, <3>4, <3>5, Blocks
    <3>7. \A u \in TREs : u # t => SameTRE(u) /\ SameEvents(u)
      BY <2>1, <2>3, <2>5, <2>6, <3>3, <3>4 DEF SameTRE
    <3>8. Placed'
      BY <2>1, <3>6, <3>7, Local
    <3>9. QED
      BY <3>1, <3>8 DEF EventAssertsHold
  <2>7. CASE /\ Issue(t, e.op, e.addr, e.unc, e.blk, e.pc)
             /\ UNCHANGED <<blocked, bpkt>>
    <3> HIDE DEF e
    <3>1. /\ e.op \in Accesses /\ e.addr \in Addr /\ e.unc \in BOOLEAN
          /\ e.blk \in BOOLEAN /\ e.pc \in Nat \cup {NoPC}
      BY <2>2, <2>3 DEF Entry
    <3> PICK cmd \in Accesses, a \in Addr, unc \in BOOLEAN, bl \in BOOLEAN,
             pc \in Nat \cup {NoPC} : Issue(t, cmd, a, unc, bl, pc)
      BY <2>7, <3>1
    <3>2. /\ \A u \in TREs : u # t =>
               /\ outs'[u] = outs[u] /\ retryPkt'[u] = retryPkt[u]
               /\ SameEvents(u)
          /\ \/ sim' \in {"panic: outstanding", "panic: access failed"}
             \/ /\ sim' = "run" /\ retryPkt'[t] = NULL
                /\ \A f \in Events : <<t, f>> \in sched' <=> f = "tick"
             \/ sim' = "run" /\ retryPkt'[t] # NULL /\ NoEvent(t)'
      BY <1>2, <1>3, Issues
    <3>3. CASE sim' \in {"panic: outstanding", "panic: access failed"}
      BY <3>3 DEF Placed, EventAssertsHold
    <3>4. CASE sim' = "run"
      <4>1. PlacedTRE(t)'
        BY <1>5, <2>1, <2>2, <2>3, <2>4, <2>7, <3>2, <3>4, Issued
      <4>2. \A u \in TREs : u # t => SameTRE(u) /\ SameEvents(u)
        BY <2>1, <2>3, <2>5, <2>7, <3>2 DEF SameTRE
      <4>3. Placed'
        BY <2>1, <4>1, <4>2, Local
      <4>4. QED
        BY <3>4, <4>3 DEF EventAssertsHold
    <3>5. QED
      BY <3>2, <3>3, <3>4
  <2>8. QED
    BY <1>11, <2>6, <2>7 DEF TickAccess
<1>12. CASE TickStall(t)
  <2> DEFINE e == Current(t)
             blk == blkingAccAddrInFlight(t)
             deps == bpkt[t].deps \cup Unreturned(t, e.deps)
  <2>1. /\ Reads(t, {"STALL"}) /\ Read(t)
        /\ data' = [data EXCEPT ![t] = e.val]
        /\ UNCHANGED <<trace, paddr, noResp, outs, retryPkt, mem, mtxVars,
                       barVars, qVars, numIdle>>
    BY <1>12 DEF TickStall
  <2>2. Reads(t, Accesses \cup {"STALL"}) /\ e.op = "STALL"
    BY <2>1 DEF Reads
  <2>3. /\ JustRead(t)' /\ LastRead(t)' = e
        /\ e \in Entry /\ pos[t] \in DOMAIN trace[t]
        /\ pos'[t] = pos[t] + 1 /\ e.op # "MTXLOCK"
        /\ t \notin blocked /\ bpkt[t].deps = {}
        /\ \A u \in TREs : u # t => pos'[u] = pos[u] /\ last'[u] = last[u]
    BY <1>8, <2>1, <2>2
  <2>4. CriticalOwns(t)' /\ ~Waits(t)'
    BY <1>1, <1>6, <2>1, <2>3, OwnsNext
  <2>5. \A u \in TREs : u # t => data'[u] = data[u]
    BY <1>4, <2>1
  <2>6. CASE Resume(t, "tick", {}) /\ UNCHANGED <<blocked, bpkt>>
    <3>1. /\ sim' = sim
          /\ \A f \in Events : <<t, f>> \in sched' <=> f = "tick"
          /\ \A u, f : u # t => (<<u, f>> \in sched' <=> <<u, f>> \in sched)
      BY <1>1, <1>2, <2>6, Resumed, SMTT(60)
    <3>2. BlockedWait(t)'
      BY <2>3, <2>6 DEF BlockedWait
    <3>3. PlacedTRE(t)'
      BY <1>1, <2>4, <3>1, <3>2, Running
    <3>4. \A u \in TREs : u # t => SameTRE(u) /\ SameEvents(u)
      BY <2>1, <2>3, <2>5, <2>6, <3>1 DEF SameTRE, SameEvents
    <3>5. Placed'
      BY <2>1, <3>3, <3>4, Local
    <3>6. QED
      BY <3>1, <3>5 DEF EventAssertsHold
  <2>7. CASE /\ blk # {} \/ Unreturned(t, e.deps) # {}
             /\ blocked' = blocked \cup {t}
             /\ bpkt' = [bpkt EXCEPT ![t] =
                  [addr |-> @.addr, cmd |-> "STALL", data |-> e.val,
                   unc |-> @.unc, blk |-> e.blk, deps |-> deps \cup blk]]
             /\ sched' = sched \ {<<t, "tick">>}
             /\ sim' = IF blk # {} /\ deps # {}
                       THEN "assert: STALL deps.empty()" ELSE sim
    <3>1. outs[t] # << >>
      <4>1. CASE blk # {}
        BY <1>4, <4>1, SMTT(60) DEF blkingAccAddrInFlight, MemOK
      <4>2. CASE Unreturned(t, e.deps) # {}
        BY <1>7, <4>2 DEF Unreturned
      <4>3. QED
        BY <2>7, <4>1, <4>2
    <3>2. NoEvent(t)' /\ \A u \in TREs : u # t => SameEvents(u)
      BY <1>2, <2>7 DEF NoEvent, SameEvents
    <3>3. /\ bpkt'[t].cmd = "STALL" /\ t \in blocked'
          /\ \A u \in TREs : u # t => bpkt'[u] = bpkt[u]
      BY <1>4, <2>7 DEF MemOK
    <3>4. BlockedWait(t)'
      BY <2>2, <2>3, <3>3 DEF BlockedWait
    <3>5. PlacedTRE(t)'
      BY <2>1, <2>3, <2>4, <3>1, <3>2, <3>3, <3>4, Blocks
    <3>6. \A u \in TREs : u # t => SameTRE(u) /\ SameEvents(u)
      BY <2>1, <2>3, <2>5, <2>7, <3>2, <3>3 DEF SameTRE
    <3>7. Placed'
      BY <2>1, <3>5, <3>6, Local
    <3>8. QED
      BY <2>7, <3>7 DEF EventAssertsHold
  <2>8. QED
    BY <1>12, <2>6, <2>7 DEF TickStall
<1>13. QED
  BY <1>9, <1>10, <1>11, <1>12
(* Every tick keeps the TREs in their places. *)
LEMMA TickPlaced ==
  ASSUME TypeOK, sim = "run", Placed, NEW t \in TREs, TickEvent(t), WakesSleeper
  PROVE  Placed' /\ EventAssertsHold'
<1> USE ZenonT(60)
<1>1. PlacedTRE(t) /\ "tick" \in Events
  BY DEF Placed, Events
<1>2. ASSUME <<t, "tick">> \in sched
      PROVE  /\ \A f \in Events : <<t, f>> \in sched <=> f = "tick"
             /\ ~Waits(t)
  BY <1>1, <1>2, Awake
<1>3. ASSUME NEW S, Reads(t, S)
      PROVE  <<t, "tick">> \in sched /\ Ticks(t)
  BY <1>3 DEF Reads, Ticks
<1>4. CASE TickInRetry(t)
  BY <1>2, <1>4 DEF TickInRetry, Waits
<1>5. CASE \/ TickStillBlocked(t) \/ TickUnblocked(t)
           \/ TickAccess(t) \/ TickStall(t)
  <2>1. Ticks(t)
    BY <1>5 DEF TickStillBlocked, TickUnblocked, TickAccess, TickStall,
                       Reads
  <2>2. QED
    BY <1>5, <2>1, TickMemPlaced
<1>6. CASE TickPerform(t)
  <2>1. PICK op \in Prims : op = Current(t).op
    BY <1>6 DEF TickPerform, Reads
  <2>2. Performs(t, "tick", op) /\ Perform(t, "tick", op) /\ Current(t).cyc = 0
    BY <1>6, <2>1 DEF TickPerform, Reads, Performs
  <2>3. QED
    BY <2>2, PerformPlaced
<1>7. CASE TickDefer(t)
  <2>1. PICK e : e = Current(t)
    OBVIOUS
  <2>2. /\ Reads(t, Prims) /\ Read(t)
        /\ paddr' = IF e.op \in Mutexes \cup Barriers
                    THEN [paddr EXCEPT ![t] = e.addr] ELSE paddr
        /\ data' = IF e.op \in {"BARINIT", "WAKE", "PUSH", "POP"}
                   THEN [data EXCEPT ![t] = e.val] ELSE data
        /\ Reserve(t, "tick", {<<t, e.op>>})
        /\ UNCHANGED <<trace, memVars, mtxVars, barVars, qVars>>
    BY <1>7, <2>1 DEF TickDefer
  <2>3. /\ JustRead(t)' /\ LastRead(t)' = e
        /\ e \in Entry /\ e.op \in Prims
        /\ pos[t] \in DOMAIN trace[t] /\ pos'[t] = pos[t] + 1
        /\ t \notin blocked /\ bpkt[t].deps = {}
        /\ \A u \in TREs : u # t => pos'[u] = pos[u] /\ last'[u] = last[u]
    BY <1>1, <2>1, <2>2, ReadsNext
  <2>4. <<t, "tick">> \in sched /\ ~Waits(t)
        /\ \A f \in Events : <<t, f>> \in sched <=> f = "tick"
    BY <1>2, <1>3, <2>2
  <2>5. e.op \in Events /\ e.op # "tick"
    BY <2>3 DEF Events, Prims, Mutexes, Barriers, Stats
  <2>6. /\ sim' = sim /\ \A f \in Events : <<t, f>> \in sched' <=> f = e.op
        /\ \A u, f : u # t => (<<u, f>> \in sched' <=> <<u, f>> \in sched)
    BY <2>2, <2>4, <2>5 DEF Reserve
  <2>7. paddr \in [TREs -> Addr] /\ data \in [TREs -> Nat]
    BY DEF TypeOK, ReplayOK
  <2>8. EventIsRead(t)'
    <3>1. /\ e.op \in Mutexes \cup Barriers => paddr'[t] = e.addr
          /\ e.op \in {"BARINIT", "WAKE", "PUSH", "POP"} => data'[t] = e.val
      BY <2>2, <2>7
    <3>2. Prims \subseteq Events
      BY DEF Events
    <3>3. QED
      BY <2>3, <2>6, <3>1, <3>2 DEF EventIsRead
  <2>9. BlockedWait(t)' /\ ~Waits(t)'
    BY <2>2, <2>3, <2>4 DEF BlockedWait, Waits, AtMutex, AtBarrier, AtQueue,
                            memVars, mtxVars, barVars, qVars
  <2>10. CriticalOwns(t)'
    <3>1. e.op = "MTXLOCK" => <<t, "MTXLOCK">> \in sched'
      BY <2>5, <2>6
    <3>2. QED
      BY <1>1, <2>1, <2>2, <2>3, <2>4, <3>1, OwnsNext
  <2>11. PlacedTRE(t)'
    BY <2>5, <2>6, <2>8, <2>9, <2>10, Running
  <2>12. \A u \in TREs : u # t => SameTRE(u) /\ SameEvents(u)
    <3>1. \A u \in TREs : u # t => paddr'[u] = paddr[u] /\ data'[u] = data[u]
      BY <2>2, <2>7
    <3>2. QED
      BY <2>2, <2>3, <2>6, <3>1 DEF SameTRE, SameEvents, memVars
  <2>13. Placed'
    BY <2>2, <2>11, <2>12, Local
  <2>14. QED
    BY <2>6, <2>13 DEF EventAssertsHold
<1>8. CASE halt(t)
  <2>1. /\ Reads(t, {"EOF"}) /\ Read(t)
        /\ sched' = sched \ {<<t, "tick">>}
        /\ sim' \in {sim, "done"}
        /\ UNCHANGED <<trace, paddr, data, memVars, mtxVars, barVars, qVars>>
    BY <1>8 DEF halt
  <2>2. /\ JustRead(t)' /\ LastRead(t)' = Current(t)
        /\ Current(t).op = "EOF"
        /\ pos[t] \in DOMAIN trace[t] /\ pos'[t] = pos[t] + 1
        /\ t \notin blocked /\ bpkt[t].deps = {}
        /\ \A u \in TREs : u # t => pos'[u] = pos[u] /\ last'[u] = last[u]
    <3>1. Reads(t, {"EOF"}) /\ Read(t) /\ trace' = trace
      BY <2>1
    <3>2. /\ JustRead(t)' /\ LastRead(t)' = Current(t)
          /\ Current(t) \in Entry /\ Current(t).op \in {"EOF"}
          /\ pos[t] \in DOMAIN trace[t] /\ pos'[t] = pos[t] + 1
          /\ t \notin blocked /\ bpkt[t].deps = {}
          /\ \A u \in TREs : u # t => pos'[u] = pos[u] /\ last'[u] = last[u]
      BY <1>1, <3>1, ReadsNext
    <3>3. QED
      BY <3>2
  <2>3. <<t, "tick">> \in sched /\ ~Waits(t)
        /\ \A f \in Events : <<t, f>> \in sched <=> f = "tick"
    BY <1>2, <1>3, <2>1
  <2>4. NoEvent(t)' /\ \A u \in TREs : u # t => SameEvents(u)
    BY <2>1, <2>3 DEF NoEvent, SameEvents
  <2>5. BlockedWait(t)' /\ ~Waits(t)'
    BY <2>1, <2>2, <2>3 DEF BlockedWait, Waits, AtMutex, AtBarrier, AtQueue,
                            memVars, mtxVars, barVars, qVars
  <2>6. CriticalOwns(t)'
    BY <1>1, <2>1, <2>2, <2>3, OwnsNext
  <2>7. PlacedTRE(t)'
    BY <2>2, <2>4, <2>5, <2>6, Blocks
  <2>8. \A u \in TREs : u # t => SameTRE(u) /\ SameEvents(u)
    BY <2>1, <2>2, <2>4 DEF SameTRE, memVars
  <2>9. Placed'
    BY <2>1, <2>7, <2>8, Local
  <2>10. QED
    BY <2>1, <2>9 DEF EventAssertsHold
<1>9. CASE TickInvalid(t)
  BY <1>9, Aborts DEF TickInvalid, Outcomes
<1>10. QED
  BY <1>4, <1>5, <1>6, <1>7, <1>8, <1>9 DEF TickEvent
(* A step that changes nothing at all. *)
LEMMA StutterPlaced ==
  ASSUME Placed, EventAssertsHold, UNCHANGED vars
  PROVE  Placed' /\ EventAssertsHold'
<1>1. sim' = sim /\ EventAssertsHold'
  BY Zenon DEF vars, EventAssertsHold
<1>2. \A u \in TREs : SameTRE(u) /\ SameWaits(u) /\ SameEvents(u) /\ KeepsMutexes(u)
  BY DEF vars, memVars, mtxVars, barVars, qVars, SameTRE, SameWaits, SameEvents,
         KeepsMutexes
<1>3. WaitsOnce => WaitsOnce'
  BY ZenonT(60) DEF vars, mtxVars, barVars, WaitsOnce
<1>4. QED
  BY <1>1, <1>2, <1>3, Kept, ZenonT(60) DEF Placed

(* A TRE that is blocked or refused waits nowhere else, and has no event   *)
(* of a primitive.                                                         *)
LEMMA Accessing ==
  ASSUME NEW t \in TREs, PlacedTRE(t), JustRead(t),
         LastRead(t).op \in Accesses \cup {"STALL"}
  PROVE  /\ ~AtMutex(t) /\ ~AtBarrier(t) /\ ~AtQueue(t)
         /\ \A op \in Prims : <<t, op>> \notin sched
<1> USE ZenonT(60)
<1>1. LastRead(t).op \notin Prims
  BY DEF Accesses, Prims, Mutexes, Barriers, Stats
<1>2. \A op \in Prims : <<t, op>> \notin sched
  BY <1>1 DEF PlacedTRE, EventIsRead
<1>3. "MTXLOCK" \in Prims /\ "BARWAIT" \in Prims /\ "PUSH" \in Prims /\ "POP" \in Prims
  BY DEF Prims, Mutexes, Barriers
<1>4. ~AtMutex(t) /\ ~AtBarrier(t)
  BY <1>1, <1>3 DEF PlacedTRE, MutexWait, BarrierWait, AtMutex, AtBarrier
<1>5. ~AtQueue(t)
  BY <1>1, <1>3 DEF PlacedTRE, QueueWait, AtQueue
<1>6. QED
  BY <1>2, <1>4, <1>5

(* Every call of the port keeps the TREs in their places. *)
LEMMA PortPlaced ==
  ASSUME TypeOK, WatchdogArmed, sim = "run", Placed, NEW t \in TREs, Port(t)
  PROVE  Placed' /\ EventAssertsHold'
<1> USE ZenonT(60)
<1>1. PlacedTRE(t) /\ "tick" \in Events /\ MemOK
  BY DEF Placed, Events, TypeOK
<1>2. ASSUME NEW k \in DOMAIN mem[t], completeRequest(t, k)
      PROVE  Placed' /\ EventAssertsHold'
  <2>1. PICK a : a = mem[t][k].addr
    OBVIOUS
  <2>2. UNCHANGED <<trace, pos, last, paddr, data, blocked, bpkt, retryPkt,
                    mtxVars, barVars, qVars>>
    BY <1>2 DEF completeRequest
  <2>3. CASE ~InFlight(t, a)
    <3>1. sim' = "fatal: unsolicited"
      BY <1>2, <2>1, <2>3 DEF completeRequest
    <3>2. QED
      BY <3>1 DEF Placed, EventAssertsHold
  <2>4. CASE InFlight(t, a)
    <3>1. /\ outs' = [outs EXCEPT ![t] = EraseFirst(@, a)]
          /\ Restart(t) /\ ShiftTimeout(t)
      BY <1>2, <2>1, <2>4 DEF completeRequest
    <3>2. outs[t] # << >>
      BY <2>4, SMTT(60) DEF InFlight
    <3>3. sim' = sim
      BY <3>1, <3>2 DEF ShiftTimeout, WatchdogArmed
    <3>4. \A u \in TREs : u # t => SameTRE(u) /\ SameEvents(u)
      BY <1>1, <2>2, <3>1 DEF SameTRE, SameEvents, Restart, MemOK
    <3>5. CASE t \in blocked
      <4>1. JustRead(t) /\ LastRead(t).op \in Accesses \cup {"STALL"}
        BY <1>1, <3>5 DEF PlacedTRE, BlockedWait
      <4>2. /\ ~AtMutex(t) /\ ~AtBarrier(t) /\ ~AtQueue(t)
            /\ \A op \in Prims : <<t, op>> \notin sched
        BY <1>1, <4>1, Accessing
      <4>3. retryPkt[t] = NULL
        BY <1>1, <3>5 DEF PlacedTRE, RetryWait
      <4>4. ~Waits(t)'
        BY <2>2, <4>2, <4>3, SMTT(60) DEF Waits, AtMutex, AtBarrier, AtQueue, mtxVars,
                                barVars, qVars
      <4>5. \A f \in Events : <<t, f>> \in sched' <=> f = "tick"
        BY <3>1, <3>5, <4>2 DEF Restart, Events
      <4>6. BlockedWait(t)'
        BY <1>1, <2>2 DEF PlacedTRE, BlockedWait, JustRead, LastRead
      <4>7. CriticalOwns(t)'
        <5>1. <<t, "MTXLOCK">> \notin sched
          BY <4>2 DEF Prims, Mutexes
        <5>2. QED
          BY <1>1, <2>2, <5>1, OwnsSame
      <4>8. PlacedTRE(t)'
        BY <1>1, <4>4, <4>5, <4>6, <4>7, Running
      <4>9. QED
        BY <2>2, <3>3, <3>4, <4>8, Local DEF EventAssertsHold
    <3>6. CASE t \notin blocked
      <4>1. SameTRE(t) /\ SameEvents(t) /\ SameWaits(t) /\ KeepsMutexes(t)
        BY <2>2, <3>1, <3>6 DEF SameTRE, SameEvents, SameWaits, KeepsMutexes,
                                Restart, mtxVars, barVars, qVars
      <4>2. PlacedTRE(t)'
        BY <1>1, <4>1, Kept
      <4>3. QED
        BY <2>2, <3>3, <3>4, <4>2, Local DEF EventAssertsHold
    <3>7. QED
      BY <3>5, <3>6
  <2>5. QED
    BY <2>3, <2>4
<1>3. ASSUME NEW k \in DOMAIN mem[t], accessFailed(t, k)
      PROVE  Placed' /\ EventAssertsHold'
  BY <1>3, Aborts DEF accessFailed, Outcomes
<1>4. ASSUME NEW k \in DOMAIN mem[t], loseRequest(t, k)
      PROVE  Placed' /\ EventAssertsHold'
  <2>1. /\ UNCHANGED <<trace, pos, last, sched, paddr, data, outs, blocked, bpkt,
                       retryPkt>>
        /\ UNCHANGED <<mtxVars, barVars, qVars>> /\ sim' = sim
    BY <1>4 DEF loseRequest
  <2>2. \A u \in TREs : SameTRE(u) /\ SameEvents(u)
    BY <2>1 DEF SameTRE, SameEvents
  <2>3. SameWaits(t) /\ KeepsMutexes(t)
    BY <2>1 DEF SameWaits, KeepsMutexes, mtxVars, barVars, qVars
  <2>4. PlacedTRE(t)'
    BY <1>1, <2>2, <2>3, Kept
  <2>5. QED
    BY <2>1, <2>2, <2>4, Local DEF EventAssertsHold
<1>5. CASE recvRetry(t)
  <2>1. /\ NoEvent(t) /\ JustRead(t) /\ LastRead(t).op \in Accesses
        /\ t \notin blocked
    BY <1>1, <1>5 DEF recvRetry, PlacedTRE, RetryWait
  <2>2. /\ retryPkt' = [retryPkt EXCEPT ![t] = NULL]
        /\ Reserve(t, "retry", {<<t, "tick">>})
        /\ UNCHANGED <<trace, pos, last, paddr, data, outs, blocked, bpkt,
                       mtxVars, barVars, qVars>>
    BY <1>5, <2>1 DEF recvRetry
  <2>3. /\ retryPkt'[t] = NULL
        /\ \A u \in TREs : u # t => retryPkt'[u] = retryPkt[u]
    BY <1>1, <2>2 DEF MemOK
  <2>4. /\ sim' = sim /\ \A f \in Events : <<t, f>> \in sched' <=> f = "tick"
        /\ \A u \in TREs : u # t => SameEvents(u)
    BY <1>1, <2>1, <2>2 DEF NoEvent, Reserve, SameEvents
  <2>5. ~AtMutex(t) /\ ~AtBarrier(t) /\ ~AtQueue(t)
    BY <1>1, <2>1, Accessing
  <2>6. ~AtMutex(t)' /\ ~AtBarrier(t)' /\ ~AtQueue(t)'
    BY <2>2, <2>5 DEF AtMutex, AtBarrier, AtQueue, mtxVars, barVars, qVars
  <2>7. /\ t \notin blocked' /\ bpkt'[t].deps = {} /\ JustRead(t)'
        /\ LastRead(t)'.op \in Accesses
    BY <1>1, <2>1, <2>2 DEF PlacedTRE, BlockedWait, JustRead, LastRead
  <2>8. CriticalOwns(t)'
    <3>1. <<t, "MTXLOCK">> \notin sched
      BY <2>1 DEF NoEvent, Events, Prims, Mutexes
    <3>2. QED
      BY <1>1, <2>2, <3>1, OwnsSame
  <2>9. PlacedTRE(t)'
    BY <2>3, <2>4, <2>6, <2>7, <2>8, Issued
  <2>10. \A u \in TREs : u # t => SameTRE(u) /\ SameEvents(u)
    BY <2>2, <2>3, <2>4 DEF SameTRE
  <2>11. QED
    BY <2>2, <2>4, <2>9, <2>10, Local DEF EventAssertsHold
<1>6. QED
  BY <1>2, <1>3, <1>4, <1>5 DEF Port, Respond

----------------------------------------------------------------------------
(* Init and Next. *)

LEMMA InitPlaced == Init /\ TypeOK => Placed /\ EventAssertsHold
<1> USE ZenonT(60)
<1> SUFFICES ASSUME Init, TypeOK PROVE Placed /\ EventAssertsHold
  OBVIOUS
<1>1. EventAssertsHold /\ "tick" \in Events /\ "tick" \notin Prims /\ Prims \subseteq Events
  BY DEF Init, EventAssertsHold, Events, Prims, Mutexes, Barriers, Stats
<1>2. WaitsOnce
  BY SMT DEF Init, WaitsOnce, IsInjective
<1>3. ASSUME NEW t \in TREs PROVE PlacedTRE(t)
  <2>1. \A e \in Events : <<t, e>> \in sched <=> e = "tick"
    BY <1>1 DEF Init
  <2>2. OneEvent(t) /\ EventIsRead(t) /\ ~NoEvent(t)
    BY <1>1, <2>1 DEF OneEvent, EventIsRead, NoEvent
  <2>3. MutexWait(t) /\ BarrierWait(t)
    BY SMTT(60) DEF Init, MutexWait, BarrierWait, In
  <2>4. QueueWait(t) /\ RetryWait(t)
    BY Ids DEF Init, QueueWait, RetryWait
  <2>5. BlockedWait(t) /\ HasCause(t)
    BY <2>2 DEF Init, BlockedWait, HasCause
  <2>6. CriticalOwns(t)
    <3>1. pos[t] = 1 /\ trace \in [TREs -> Seq(Entry)]
      BY DEF Init, TypeOK, ReplayOK
    <3>2. \A i \in DOMAIN trace[t] : ~(i < pos[t])
      BY <3>1, SMT
    <3>3. QED
      BY <3>2 DEF CriticalOwns, InCritical
  <2>7. QED
    BY <2>2, <2>3, <2>4, <2>5, <2>6 DEF PlacedTRE
<1>4. QED
  BY <1>1, <1>2, <1>3 DEF Placed

LEMMA NextPlaced ==
  ASSUME TypeOK, WatchdogArmed, Placed, EventAssertsHold,
         [Next]_vars, [WakesSleeper]_vars
  PROVE  Placed' /\ EventAssertsHold'
<1> USE ZenonT(60)
<1>1. CASE UNCHANGED vars
  BY <1>1, StutterPlaced
<1>2. CASE ~UNCHANGED vars
  <2>1. WakesSleeper /\ \E t \in TREs : Run(t) \/ Port(t) \/ Watchdog(t)
    BY <1>2 DEF Next, Stopped
  <2>2. PICK t \in TREs : Run(t) \/ Port(t) \/ Watchdog(t)
    BY <2>1
  <2>3. CASE TickEvent(t)
    <3>1. sim = "run"
      BY <2>3 DEF TickEvent, TickInRetry, TickStillBlocked, TickUnblocked,
           TickAccess, TickStall, TickPerform, TickDefer, halt, TickInvalid,
           Reads, Ticks
    <3>2. QED
      BY <2>1, <2>3, <3>1, TickPlaced
  <2>4. ASSUME NEW op \in Prims, PrimEvent(t, op)
        PROVE  Placed' /\ EventAssertsHold'
    <3>1. sim = "run" /\ Performs(t, op, op) /\ Perform(t, op, op) /\ op # "tick"
      BY <2>4 DEF PrimEvent, Performs, Prims, Mutexes, Barriers, Stats
    <3>2. QED
      BY <2>1, <3>1, PerformPlaced
  <2>5. CASE Port(t)
    <3>1. sim = "run"
      BY <2>5 DEF Port, Respond, completeRequest, accessFailed, recvRetry,
                         loseRequest
    <3>2. QED
      BY <2>5, <3>1, PortPlaced
  <2>6. CASE Watchdog(t)
    BY <2>6, Aborts DEF Watchdog, noRequest, noResponse, Outcomes
  <2>7. QED
    BY <2>2, <2>3, <2>4, <2>5, <2>6 DEF Run
<1>3. QED
  BY <1>1, <1>2
=============================================================================
