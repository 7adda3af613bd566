----------------------------- MODULE TREProofs -----------------------------
(***************************************************************************)
(* Proofs about the trace replay engines, for any number of TREs, any      *)
(* traces, addresses, queues and limits, and any order of their events and *)
(* of the answers of the memory: the types of the state, then, whenever a  *)
(* TRE is woken, the mutexes, barriers, queues and the response timeout;   *)
(* last, which entry a handler performs when the TREs are Placed.          *)
(***************************************************************************)
EXTENDS TREInd, TLAPS, WellFoundedInduction

----------------------------------------------------------------------------
(* Sequences and identities. *)

(* The positions and the elements of a sequence. *)
LEMMA SeqShape ==
  ASSUME NEW S, NEW s \in Seq(S)
  PROVE  /\ Len(s) \in Nat /\ DOMAIN s = 1 .. Len(s)
         /\ \A k \in 1 .. Len(s) : s[k] \in S
OBVIOUS

(* A sequence with one more element. *)
LEMMA AppendShape ==
  ASSUME NEW S, NEW s \in Seq(S), NEW e \in S
  PROVE  /\ Append(s, e) \in Seq(S) /\ Len(Append(s, e)) = Len(s) + 1
         /\ DOMAIN Append(s, e) = 1 .. Len(s) + 1
         /\ \A k \in 1 .. Len(s) : Append(s, e)[k] = s[k]
         /\ Append(s, e)[Len(s) + 1] = e
OBVIOUS

(* What is left of a sequence when its i-th element is removed. *)
LEMMA WithoutSeq ==
  ASSUME NEW S, NEW s \in Seq(S), NEW i \in DOMAIN s
  PROVE  /\ Without(s, i) \in Seq(S)
         /\ Len(Without(s, i)) = Len(s) - 1
         /\ \A j \in 1 .. Len(s) - 1 :
              Without(s, i)[j] = IF j < i THEN s[j] ELSE s[j + 1]
<1> DEFINE p == SubSeq(s, 1, i - 1)
           q == SubSeq(s, i + 1, Len(s))
<1>1. i \in 1 .. Len(s) /\ Len(s) \in Nat
  BY SeqShape
<1>2. p \in Seq(S) /\ Len(p) = i - 1 /\ \A j \in 1 .. i - 1 : p[j] = s[j]
  BY <1>1
<1>3. /\ q \in Seq(S) /\ Len(q) = Len(s) - i
      /\ \A j \in 1 .. Len(s) - i : q[j] = s[j + i]
  BY <1>1
<1>4. Without(s, i) = p \o q
  BY DEF Without
<1> HIDE DEF p, q
<1>5. /\ p \o q \in Seq(S)
      /\ Len(p \o q) = Len(p) + Len(q)
      /\ \A j \in 1 .. Len(p) + Len(q) :
           (p \o q)[j] = IF j <= Len(p) THEN p[j] ELSE q[j - Len(p)]
  <2>1. p \in Seq(S) /\ q \in Seq(S)
    BY <1>2, <1>3, Zenon
  <2>2. p \o q \in Seq(S)
    BY <2>1
  <2>3. Len(p \o q) = Len(p) + Len(q)
    BY <2>1
  <2>4. \A j \in 1 .. Len(p) + Len(q) :
          (p \o q)[j] = IF j <= Len(p) THEN p[j] ELSE q[j - Len(p)]
    BY <2>1
  <2> QED
    BY <2>2, <2>3, <2>4, Zenon
<1>6. Len(p) + Len(q) = Len(s) - 1
  BY <1>1, <1>2, <1>3
<1>7. ASSUME NEW j \in 1 .. Len(s) - 1
      PROVE  (p \o q)[j] = IF j < i THEN s[j] ELSE s[j + 1]
  <2>1. (p \o q)[j] = IF j <= Len(p) THEN p[j] ELSE q[j - Len(p)]
    BY <1>5, <1>6, Zenon
  <2>2. CASE j < i
    BY <2>1, <2>2, <1>1, <1>2
  <2>3. CASE j >= i
    <3>1. j - (i - 1) \in 1 .. Len(s) - i
      BY <2>3, <1>1
    <3>2. q[j - (i - 1)] = s[j - (i - 1) + i]
      BY <3>1, <1>3, Zenon
    <3>3. QED
      BY <3>2, <2>1, <2>3, <1>1, <1>2
  <2>4. j < i \/ j >= i
    BY <1>1
  <2>5. QED
    BY <2>2, <2>3, <2>4, Zenon
<1>8. QED
  BY <1>4, <1>5, <1>6, <1>7, Zenon

(* NULL is neither a TRE nor a packet. *)
LEMMA Ids == TREs \subseteq Nat /\ NULL \notin TREs /\ NULL \notin Packet
<1>1. TREs \subseteq Nat
  BY TREsAssumption, SeqShape DEF TREs, Range
<1>2. QED
  BY <1>1, ConfigAssumption, NullAssumption, Zenon

(* A set of positions has a least element. *)
LEMMA LeastPosition ==
  ASSUME NEW T, T \subseteq Nat, T # {}
  PROVE  \E i \in T : \A j \in T : ~(j < i)
<1> DEFINE R == OpToRel(<, Nat)
<1>1. IsWellFoundedOn(R, Nat)
  BY NatLessThanWellFounded, Zenon
<1>2. R = {ss \in Nat \X Nat : ss[1] < ss[2]}
  BY DEF OpToRel
<1> HIDE DEF R
<1>3. PICK i \in T : \A j \in T : ~(<<j, i>> \in R)
  BY <1>1, WFMin, Zenon
<1>4. \A j \in T : ~(j < i)
  BY <1>2, <1>3, ZenonT(60)
<1>5. QED
  BY <1>4

(* addrInFlight(a, true), when a is in flight, erases an entry of a. *)
LEMMA EraseFirstIs ==
  ASSUME NEW s \in Seq(Flight), NEW a,
         \E k \in DOMAIN s : s[k].addr = a
  PROVE  \E i \in DOMAIN s : s[i].addr = a /\ EraseFirst(s, a) = Without(s, i)
<1> DEFINE T == {k \in DOMAIN s : s[k].addr = a}
           i == CHOOSE n \in DOMAIN s :
                  s[n].addr = a /\ \A j \in 1 .. n - 1 : s[j].addr # a
<1>1. DOMAIN s = 1 .. Len(s) /\ Len(s) \in Nat
  BY SeqShape
<1>2. T \subseteq Nat /\ T # {}
  BY <1>1
<1> HIDE DEF T
<1>3. PICK m \in T : \A j \in T : ~(j < m)
  BY <1>2, LeastPosition, Zenon
<1>4. m \in DOMAIN s /\ s[m].addr = a /\ \A j \in 1 .. m - 1 : s[j].addr # a
  BY <1>1, <1>3 DEF T
<1>5. i \in DOMAIN s /\ s[i].addr = a
  BY <1>4, Zenon
<1>6. QED
  BY <1>5, Zenon DEF EraseFirst

LEMMA EraseFirstSeq ==
  ASSUME NEW s \in Seq(Flight), NEW a,
         \E k \in DOMAIN s : s[k].addr = a
  PROVE  /\ EraseFirst(s, a) \in Seq(Flight)
         /\ Len(EraseFirst(s, a)) = Len(s) - 1
<1> USE Zenon
<1>1. PICK i \in DOMAIN s : EraseFirst(s, a) = Without(s, i)
  BY EraseFirstIs
<1>2. Without(s, i) \in Seq(Flight) /\ Len(Without(s, i)) = Len(s) - 1
  BY WithoutSeq
<1>3. QED
  BY <1>1, <1>2

----------------------------------------------------------------------------
(* Type correctness. *)

(* The operands of a handler are an address and a number. *)
LEMMA Operands ==
  ASSUME ReplayOK, NEW t \in TREs, NEW ev,
         ev = "tick" => pos[t] \in DOMAIN trace[t]
  PROVE  Operand(t, ev) \in Addr /\ Number(t, ev) \in Nat
<1>1. ev = "tick" => Current(t) \in Entry
  BY DEF ReplayOK, Current
<1>2. QED
  BY <1>1 DEF ReplayOK, Operand, Number, Entry

(* Events are scheduled for TREs only. *)
LEMMA Schedules ==
  ASSUME ReplayOK, NEW t \in TREs, NEW ev, NEW es, es \subseteq TREs \X Events,
         Reserve(t, ev, es) \/ Resume(t, ev, es) \/ Rest(t, ev)
  PROVE  sched' \subseteq TREs \X Events /\ sim' \in Outcomes
<1>1. sched \subseteq TREs \X Events /\ <<t, "tick">> \in TREs \X Events
  BY DEF ReplayOK, Events
<1>2. sched' \subseteq sched \cup es \cup {<<t, "tick">>}
  BY Zenon DEF Reserve, Resume, Rest
<1>3. sim' \in {sim, "assert: scheduled"}
  BY Zenon DEF Reserve, Resume, Rest
<1>4. sched' \subseteq TREs \X Events
  BY <1>1, <1>2, Zenon
<1>5. sim' \in Outcomes
  BY <1>3, Zenon DEF ReplayOK, Outcomes
<1>6. QED
  BY <1>4, <1>5

(* The trace is read from a valid position. *)
LEMMA Moves ==
  ASSUME ReplayOK, NEW t \in TREs, NEW ev, Advance(t, ev) \/ Rewind(t, ev)
  PROVE  pos' \in [TREs -> Nat \ {0}] /\ last' \in [TREs -> Nat \ {0}]
<1>1. pos[t] \in Nat \ {0} /\ last[t] \in Nat \ {0} /\ pos[t] + 1 \in Nat \ {0}
  BY DEF ReplayOK
<1>2. CASE Advance(t, ev)
  BY <1>1, <1>2, Zenon DEF ReplayOK, Advance, Read
<1>3. CASE Rewind(t, ev)
  BY <1>1, <1>3, Zenon DEF ReplayOK, Rewind
<1>4. QED
  BY <1>2, <1>3

(* A process that ends leaves its state behind. *)
LEMMA AbortType ==
  ASSUME TypeOK, NEW why \in Outcomes, Abort(why)
  PROVE  TypeOK'
BY SMTT(20) DEF TypeOK, ReplayOK, MemOK, MtxOK, BarOK, QueueOK, Abort,
       memVars, mtxVars, barVars, qVars

(* Every explicit primitive preserves the types. *)
LEMMA PerformType ==
  ASSUME TypeOK, NEW t \in TREs, NEW ev, NEW op,
         ev = "tick" => pos[t] \in DOMAIN trace[t],
         Perform(t, ev, op)
  PROVE  TypeOK'
<1> DEFINE a == Operand(t, ev)
           n == Number(t, ev)
<1>1. a \in Addr /\ n \in Nat /\ 0 \in Addr
  BY Operands, TraceAssumption DEF TypeOK
<1>2. ASSUME NEW why \in Outcomes, Abort(why)
      PROVE  TypeOK'
  BY <1>2, AbortType
<1>3. ASSUME NEW es, es \subseteq TREs \X Events,
             Reserve(t, ev, es) \/ Resume(t, ev, es) \/ Rest(t, ev),
             Advance(t, ev) \/ Rewind(t, ev),
             paddr' \in [TREs -> Addr], data' \in [TREs -> Nat],
             UNCHANGED <<trace, numIdle>>
      PROVE  ReplayOK'
  <2>1. sched' \subseteq TREs \X Events /\ sim' \in Outcomes
    BY <1>3, Schedules, Zenon DEF TypeOK
  <2>2. pos' \in [TREs -> Nat \ {0}] /\ last' \in [TREs -> Nat \ {0}]
    BY <1>3, Moves, Zenon DEF TypeOK
  <2>3. QED
    BY <1>3, <2>1, <2>2, ZenonT(60) DEF TypeOK, ReplayOK
<1>4. paddr \in [TREs -> Addr] /\ data \in [TREs -> Nat]
  BY DEF TypeOK, ReplayOK
<1>5. /\ ResetPaddr(t) => paddr' \in [TREs -> Addr]
      /\ ResetData(t) => data' \in [TREs -> Nat]
  BY <1>1, <1>4 DEF ResetPaddr, ResetData
<1>6. /\ UNCHANGED memVars => MemOK'
      /\ UNCHANGED mtxVars => MtxOK'
      /\ UNCHANGED barVars => BarOK'
      /\ UNCHANGED qVars => QueueOK'
  BY DEF TypeOK, MemOK, MtxOK, BarOK, QueueOK, memVars, mtxVars, barVars, qVars
<1>7. ASSUME TryAgain(t, ev),
             UNCHANGED <<trace, data, memVars, mtxVars, barVars, qVars, numIdle>>
      PROVE  TypeOK'
  <2>1. paddr' \in [TREs -> Addr] /\ data' \in [TREs -> Nat]
    BY <1>1, <1>4, <1>7 DEF TryAgain
  <2>2. Rewind(t, ev) /\ Resume(t, ev, {})
    BY <1>7 DEF TryAgain
  <2>3. ReplayOK'
    BY <1>3, <1>7, <2>1, <2>2
  <2>4. QED
    BY <1>6, <1>7, <2>3 DEF TypeOK
<1>8. CASE initMutex(t, ev)
  <2>1. CASE Abort("fatal: mutex init")
    BY <1>2, <2>1, Zenon DEF Outcomes
  <2>2. CASE /\ mutexes' = mutexes \cup {a}
             /\ Advance(t, ev) /\ Resume(t, ev, {}) /\ ResetPaddr(t)
             /\ UNCHANGED <<trace, data, memVars, owner, waiting, barVars, qVars,
                            numIdle>>
    <3>1. ReplayOK'
      BY <1>3, <1>4, <1>5, <2>2
    <3>2. MtxOK'
      BY <1>1, <2>2, SMTT(20) DEF TypeOK, MtxOK
    <3>3. QED
      BY <1>6, <2>2, <3>1, <3>2 DEF TypeOK
  <2>3. QED
    BY <1>8, <2>1, <2>2, Zenon DEF initMutex
<1>9. CASE lockMutex(t, ev)
  <2>1. CASE Abort("fatal: mutex lock")
    BY <1>2, <2>1, Zenon DEF Outcomes
  <2>2. CASE /\ TryAgain(t, ev)
             /\ UNCHANGED <<trace, data, memVars, mtxVars, barVars, qVars, numIdle>>
    BY <1>7, <2>2
  <2>3. CASE /\ owner' = [owner EXCEPT ![a] = t]
             /\ Advance(t, ev) /\ Resume(t, ev, {}) /\ ResetPaddr(t)
             /\ UNCHANGED <<trace, data, memVars, mutexes, waiting, barVars, qVars,
                            numIdle>>
    <3>1. ReplayOK'
      BY <1>3, <1>4, <1>5, <2>3
    <3>2. MtxOK'
      BY <1>1, <2>3 DEF TypeOK, MtxOK
    <3>3. QED
      BY <1>6, <2>3, <3>1, <3>2, SMTT(20) DEF TypeOK
  <2>4. CASE /\ waiting' = [waiting EXCEPT ![a] = Append(@, t)]
             /\ Advance(t, ev) /\ Rest(t, ev) /\ ResetPaddr(t)
             /\ UNCHANGED <<trace, data, memVars, mutexes, owner, barVars, qVars,
                            numIdle>>
    <3>1. ReplayOK'
      BY <1>3, <1>4, <1>5, <2>4, Zenon
    <3>2. MtxOK'
      BY <1>1, <2>4 DEF TypeOK, MtxOK
    <3>3. QED
      BY <1>6, <2>4, <3>1, <3>2 DEF TypeOK
  <2>5. QED
    BY <1>9, <2>1, <2>2, <2>3, <2>4, Zenon DEF lockMutex
<1>10. CASE unlockMutex(t, ev)
  <2>1. CASE Abort("fatal: mutex unlock")
    BY <1>2, <2>1, Zenon DEF Outcomes
  <2>2. CASE /\ owner' = [owner EXCEPT ![a] = NULL]
             /\ Resume(t, ev, {}) /\ UNCHANGED waiting
             /\ Advance(t, ev) /\ ResetPaddr(t)
             /\ UNCHANGED <<trace, data, memVars, mutexes, barVars, qVars, numIdle>>
    <3>1. ReplayOK'
      BY <1>3, <1>4, <1>5, <2>2
    <3>2. MtxOK'
      BY <1>1, <2>2, SMTT(20) DEF TypeOK, MtxOK
    <3>3. QED
      BY <1>6, <2>2, <3>1, <3>2, SMTT(20) DEF TypeOK
  <2>3. ASSUME NEW k \in DOMAIN waiting[a],
               HandOver(a, k), Resume(t, ev, {<<waiting[a][k], "tick">>}),
               Advance(t, ev), ResetPaddr(t),
               UNCHANGED <<trace, data, memVars, mutexes, barVars, qVars, numIdle>>
        PROVE  TypeOK'
    <3>1. waiting[a] \in Seq(TREs) /\ waiting[a][k] \in TREs
      BY <1>1, <2>3, SeqShape DEF TypeOK, MtxOK
    <3>2. {<<waiting[a][k], "tick">>} \subseteq TREs \X Events
      BY <3>1 DEF Events
    <3>3. ReplayOK'
      BY <1>3, <1>4, <1>5, <2>3, <3>2
    <3>4. Without(waiting[a], k) \in Seq(TREs)
      BY <2>3, <3>1, WithoutSeq, Zenon
    <3>5. MtxOK'
      BY <1>1, <2>3, <3>1, <3>4, SMTT(20) DEF TypeOK, MtxOK, HandOver
    <3>6. QED
      BY <1>6, <2>3, <3>3, <3>5 DEF TypeOK
  <2>4. QED
    BY <1>10, <2>1, <2>2, <2>3, Zenon DEF unlockMutex
<1>11. CASE initBarrier(t, ev)
  <2>1. CASE Abort("fatal: barrier init")
    BY <1>2, <2>1, Zenon DEF Outcomes
  <2>2. CASE /\ count' = [count EXCEPT ![a] = n]
             /\ Advance(t, ev) /\ Resume(t, ev, {}) /\ ResetPaddr(t) /\ ResetData(t)
             /\ UNCHANGED <<trace, memVars, mtxVars, arrived, qVars, numIdle>>
    <3>1. ReplayOK'
      BY <1>3, <1>4, <1>5, <2>2, SMTT(20)
    <3>2. BarOK'
      BY <1>1, <2>2, SMTT(20) DEF TypeOK, BarOK
    <3>3. QED
      BY <1>6, <2>2, <3>1, <3>2, SMTT(20) DEF TypeOK
  <2>3. QED
    BY <1>11, <2>1, <2>2, Zenon DEF initBarrier
<1>12. CASE waitAtBarrier(t, ev)
  <2> DEFINE all == Append(arrived[a], t)
  <2>1. CASE Abort("assert: paddr") \/ Abort("assert: scheduled")
    BY <1>2, <2>1, Zenon DEF Outcomes
  <2>2. CASE /\ TryAgain(t, ev)
             /\ UNCHANGED <<trace, data, memVars, mtxVars, barVars, qVars, numIdle>>
    BY <1>7, <2>2
  <2>3. CASE /\ arrived' = [arrived EXCEPT ![a] = << >>]
             /\ Advance(t, ev) /\ Resume(t, ev, Release(arrived[a])) /\ ResetPaddr(t)
             /\ UNCHANGED <<trace, data, memVars, mtxVars, count, qVars, numIdle>>
    <3>1. Release(arrived[a]) \subseteq TREs \X Events
      BY <1>1, SeqShape
      DEF Release, Range, Events, TypeOK, BarOK
    <3>2. ReplayOK'
      BY <1>3, <1>4, <1>5, <2>3, <3>1, ZenonT(60)
    <3>3. BarOK'
      BY <1>1, <2>3, SMTT(20) DEF TypeOK, BarOK
    <3>4. QED
      BY <1>6, <2>3, <3>2, <3>3, SMTT(20) DEF TypeOK
  <2>4. CASE /\ arrived' = [arrived EXCEPT ![a] = all]
             /\ Advance(t, ev) /\ Rest(t, ev) /\ ResetPaddr(t)
             /\ UNCHANGED <<trace, data, memVars, mtxVars, count, qVars, numIdle>>
    <3>1. ReplayOK'
      BY <1>3, <1>4, <1>5, <2>4, Zenon
    <3>2. BarOK'
      BY <1>1, <2>4 DEF TypeOK, BarOK
    <3>3. QED
      BY <1>6, <2>4, <3>1, <3>2, SMTT(20) DEF TypeOK
  <2>5. QED
    BY <1>12, <2>1, <2>2, <2>3, <2>4, Zenon DEF waitAtBarrier
<1>13. CASE sleep(t, ev) \/ stats(t, ev)
  <2>1. /\ Advance(t, ev) /\ (Rest(t, ev) \/ Resume(t, ev, {}))
        /\ UNCHANGED <<trace, paddr, data, memVars, mtxVars, barVars, qVars, numIdle>>
    BY <1>13 DEF sleep, stats
  <2>2. ReplayOK'
    BY <1>3, <1>4, <2>1, SMTT(20)
  <2>3. QED
    BY <1>6, <2>1, <2>2 DEF TypeOK
<1>14. CASE wake(t, ev)
  <2> DEFINE u == allTREs[n + 1]
  <2>1. CASE \E why \in {"assert: wake data", "crash: allTREs",
                         "fatal: already awake"} : Abort(why)
    BY <1>2, <2>1, Zenon DEF Outcomes
  <2>2. CASE /\ n \in 1 .. Len(allTREs) - 1
             /\ Advance(t, ev) /\ Resume(t, ev, {<<u, "tick">>}) /\ ResetData(t)
             /\ UNCHANGED <<trace, paddr, memVars, mtxVars, barVars, qVars, numIdle>>
    <3>1. u \in TREs
      BY <1>1, <2>2, TREsAssumption, SeqShape DEF TREs, Range
    <3>2. {<<u, "tick">>} \subseteq TREs \X Events
      BY <3>1, SMTT(20) DEF Events
    <3>3. ReplayOK'
      BY <1>3, <1>4, <1>5, <2>2, <3>2, ZenonT(60)
    <3>4. QED
      BY <1>6, <2>2, <3>3 DEF TypeOK
  <2>3. QED
    BY <1>14, <2>1, <2>2, Zenon DEF wake
<1>15. ASSUME NEW u \in TREs \cup {NULL}, NEW e \in Events
       PROVE  Start(u, e) \subseteq TREs \X Events
  BY DEF Start
<1>16. CASE push(t, ev)
  <2> DEFINE q == <<t, n>>
  <2>1. CASE Abort("exit: no queue")
    BY <1>2, <2>1, Zenon DEF Outcomes
  <2>2. CASE /\ q \in Queues
             /\ toPush' = [toPush EXCEPT ![q] = t]
             /\ data' = [data EXCEPT ![t] = q[2]]
             /\ Advance(t, ev) /\ Rest(t, ev)
             /\ UNCHANGED <<trace, paddr, memVars, mtxVars, barVars, qlen, toPop,
                            numIdle>>
    <3>1. data' \in [TREs -> Nat]
      BY <1>1, <1>4, <2>2, SMTT(20)
    <3>2. ReplayOK'
      BY <1>3, <1>4, <2>2, <3>1, Zenon
    <3>3. QueueOK'
      BY <2>2 DEF TypeOK, QueueOK
    <3>4. QED
      BY <1>6, <2>2, <3>2, <3>3 DEF TypeOK
  <2>3. CASE /\ q \in Queues /\ ~Full(q)
             /\ qlen' = [qlen EXCEPT ![q] = @ + 1]
             /\ toPop' = [toPop EXCEPT ![q] = NULL]
             /\ Advance(t, ev) /\ ResetData(t)
             /\ Resume(t, ev, Start(toPop[q], "POP"))
             /\ UNCHANGED <<trace, paddr, memVars, mtxVars, barVars, toPush, numIdle>>
    <3>1. Start(toPop[q], "POP") \subseteq TREs \X Events
      BY <1>15, <2>3, ZenonT(60) DEF TypeOK, QueueOK, Events, Prims
    <3>2. ReplayOK'
      BY <1>3, <1>4, <1>5, <2>3, <3>1, Zenon
    <3>3. qlen[q] + 1 \in 0 .. QueueDepth
      <4>1. qlen[q] \in 0 .. QueueDepth /\ qlen[q] # QueueDepth
        BY <2>3, ZenonT(60) DEF TypeOK, QueueOK, Full
      <4>2. QED
        BY <4>1, ConfigAssumption, SMTT(20)
    <3>4. QueueOK'
      BY <2>3, <3>3, SMTT(20) DEF TypeOK, QueueOK
    <3>5. QED
      BY <1>6, <2>3, <3>2, <3>4 DEF TypeOK
  <2>4. QED
    BY <1>16, <2>1, <2>2, <2>3, Zenon DEF push
<1>17. CASE pop(t, ev)
  <2> DEFINE q == <<n, t>>
  <2>1. CASE Abort("exit: no queue")
    BY <1>2, <2>1, Zenon DEF Outcomes
  <2>2. CASE /\ q \in Queues
             /\ toPop' = [toPop EXCEPT ![q] = t]
             /\ data' = [data EXCEPT ![t] = q[1]]
             /\ Advance(t, ev) /\ Rest(t, ev)
             /\ UNCHANGED <<trace, paddr, memVars, mtxVars, barVars, qlen, toPush,
                            numIdle>>
    <3>1. data' \in [TREs -> Nat]
      BY <1>1, <1>4, <2>2, SMTT(20)
    <3>2. ReplayOK'
      BY <1>3, <1>4, <2>2, <3>1, ZenonT(30)
    <3>3. QueueOK'
      BY <2>2 DEF TypeOK, QueueOK
    <3>4. QED
      BY <1>6, <2>2, <3>2, <3>3 DEF TypeOK
  <2>3. CASE /\ q \in Queues /\ qlen[q] # 0
             /\ qlen' = [qlen EXCEPT ![q] = @ - 1]
             /\ ClearPusher(q)
             /\ Advance(t, ev) /\ ResetData(t)
             /\ Resume(t, ev, Start(toPush[q], "PUSH"))
             /\ UNCHANGED <<trace, paddr, memVars, mtxVars, barVars, toPop, numIdle>>
    <3>1. Start(toPush[q], "PUSH") \subseteq TREs \X Events
      BY <1>15, <2>3, ZenonT(60) DEF TypeOK, QueueOK, Events, Prims
    <3>2. ReplayOK'
      BY <1>3, <1>4, <1>5, <2>3, <3>1, Zenon
    <3>3. qlen[q] - 1 \in 0 .. QueueDepth
      <4>1. qlen[q] \in 0 .. QueueDepth /\ qlen[q] # 0
        BY <2>3, SMTT(20) DEF TypeOK, QueueOK
      <4>2. QED
        BY <4>1, ConfigAssumption, SMTT(20)
    <3>4. QueueOK'
      BY <2>3, <3>3, SMTT(20) DEF TypeOK, QueueOK, ClearPusher
    <3>5. QED
      BY <1>6, <2>3, <3>2, <3>4, ZenonT(60) DEF TypeOK
  <2>4. QED
    BY <1>17, <2>1, <2>2, <2>3, Zenon DEF pop
<1>18. QED
  BY <1>8, <1>9, <1>10, <1>11, <1>12, <1>13, <1>14, <1>16, <1>17 DEF Perform

(* A handler leaves the state of the memory path alone, and only those of  *)
(* mutexes, barriers and queues change them.                               *)
LEMMA PerformFrame ==
  ASSUME NEW t, NEW ev, NEW op, Perform(t, ev, op)
  PROVE  /\ UNCHANGED memVars
         /\ \/ UNCHANGED mtxVars
            \/ initMutex(t, ev) \/ lockMutex(t, ev) \/ unlockMutex(t, ev)
         /\ UNCHANGED barVars \/ initBarrier(t, ev) \/ waitAtBarrier(t, ev)
         /\ UNCHANGED qVars \/ push(t, ev) \/ pop(t, ev)
<1> USE ZenonT(60)
<1>1. CASE initMutex(t, ev) \/ lockMutex(t, ev) \/ unlockMutex(t, ev)
  BY <1>1 DEF initMutex, lockMutex, unlockMutex, Abort
<1>2. CASE initBarrier(t, ev) \/ waitAtBarrier(t, ev)
  BY <1>2 DEF initBarrier, waitAtBarrier, Abort
<1>3. CASE push(t, ev) \/ pop(t, ev)
  BY <1>3 DEF push, pop, Abort
<1>4. CASE sleep(t, ev) \/ wake(t, ev) \/ stats(t, ev)
  BY <1>4 DEF sleep, wake, stats, Abort
<1>5. QED
  BY <1>1, <1>2, <1>3, <1>4 DEF Perform

(* A handler that does not end the simulation reads the entry, reads it    *)
(* again later, or has been read before; it never says that the simulation *)
(* is over.                                                                *)
LEMMA PerformMoves ==
  ASSUME NEW t, NEW ev, NEW op, Perform(t, ev, op), sim = "run"
  PROVE  /\ UNCHANGED <<trace, numIdle>>
         /\ UNCHANGED <<pos, last>> \/ Advance(t, ev) \/ Rewind(t, ev)
         /\ sim' = "run" => Advance(t, ev) \/ Rewind(t, ev)
         /\ sim' # "done" /\ sim' # "fatal: unsolicited"
<1> USE Zenon
<1>1. ASSUME NEW es, Resume(t, ev, es) \/ Rest(t, ev)
      PROVE  sim' # "done" /\ sim' # "fatal: unsolicited"
  BY <1>1 DEF Resume, Rest, Reserve
<1>2. CASE initMutex(t, ev)
  BY <1>1, <1>2 DEF initMutex, Abort
<1>3. CASE lockMutex(t, ev)
  BY <1>1, <1>3 DEF lockMutex, TryAgain, Abort
<1>4. CASE unlockMutex(t, ev)
  BY <1>1, <1>4 DEF unlockMutex, Abort
<1>5. CASE initBarrier(t, ev)
  BY <1>1, <1>5 DEF initBarrier, Abort
<1>6. CASE waitAtBarrier(t, ev)
  BY <1>1, <1>6 DEF waitAtBarrier, TryAgain, Abort
<1>7. CASE push(t, ev) \/ pop(t, ev)
  BY <1>1, <1>7 DEF push, pop, Abort
<1>8. CASE sleep(t, ev) \/ wake(t, ev) \/ stats(t, ev)
  BY <1>1, <1>8 DEF sleep, wake, stats, Abort
<1>9. QED
  BY <1>2, <1>3, <1>4, <1>5, <1>6, <1>7, <1>8 DEF Perform

(* The end of tick() for an access preserves the types. *)
LEMMA IssueType ==
  ASSUME TypeOK, NEW t \in TREs, NEW cmd \in Accesses, NEW a \in Addr,
         NEW unc \in BOOLEAN, NEW blk \in BOOLEAN, NEW pc \in Nat \cup {NoPC},
         Issue(t, cmd, a, unc, blk, pc)
  PROVE  /\ sched' \subseteq TREs \X Events
         /\ sim' \in Outcomes
         /\ noResp' \subseteq TREs
         /\ outs' \in [TREs -> Seq(Flight)]
         /\ retryPkt' \in [TREs -> Packet \cup {NULL}]
         /\ mem' \in [TREs -> Seq(Packet)]
<1> DEFINE pkt  == [cmd |-> cmd, addr |-> a, unc |-> unc, pc |-> pc]
           more == Append(outs[t], [addr |-> a, blk |-> blk])
<1>1. pkt \in Packet
  BY DEF Packet
<1>2. /\ more \in Seq(Flight) /\ Len(more) \in Nat \ {0}
      /\ DOMAIN more = 1 .. Len(more) /\ more[Len(more)].addr = a
  <2> DEFINE f == [addr |-> a, blk |-> blk]
  <2>1. f \in Flight /\ f.addr = a /\ outs[t] \in Seq(Flight)
    BY Zenon DEF TypeOK, MemOK, Flight
  <2> HIDE DEF f
  <2>2. /\ Append(outs[t], f) \in Seq(Flight)
        /\ Len(Append(outs[t], f)) = Len(outs[t]) + 1
        /\ Append(outs[t], f)[Len(outs[t]) + 1] = f
        /\ Len(outs[t]) \in Nat
    BY <2>1, AppendShape
  <2>3. more = Append(outs[t], f)
    BY DEF f
  <2> HIDE DEF more
  <2>4. QED
    BY <2>1, <2>2, <2>3
<1> HIDE DEF pkt, more
<1>3. ASSUME Resume(t, "tick", {}) \/ Rest(t, "tick")
      PROVE  sched' \subseteq TREs \X Events /\ sim' \in Outcomes
  BY <1>3, Schedules DEF TypeOK
<1>4. CASE /\ sim' \in {"panic: outstanding", "panic: access failed"}
           /\ UNCHANGED <<sched, noResp, outs, retryPkt, mem>>
  BY <1>4, Zenon DEF TypeOK, ReplayOK, MemOK, Outcomes
<1>5. CASE /\ outs' = [outs EXCEPT ![t] = EraseFirst(more, a)]
           /\ noResp' = IF outs'[t] = << >> THEN noResp \ {t} ELSE noResp \cup {t}
           /\ Resume(t, "tick", {})
           /\ UNCHANGED <<retryPkt, mem>>
  <2>1. \E k \in DOMAIN more : more[k].addr = a
    BY <1>2
  <2>2. EraseFirst(more, a) \in Seq(Flight)
    BY <1>2, <2>1, EraseFirstSeq, Zenon
  <2>3. QED
    BY <1>3, <1>5, <2>2 DEF TypeOK, MemOK
<1>6. CASE /\ outs' = [outs EXCEPT ![t] = more]
           /\ noResp' = noResp \cup {t}
           /\ mem' = [mem EXCEPT ![t] = Append(@, pkt)]
           /\ Resume(t, "tick", {})
           /\ UNCHANGED retryPkt
  BY <1>1, <1>2, <1>3, <1>6 DEF TypeOK, MemOK
<1>7. CASE /\ outs' = [outs EXCEPT ![t] = more]
           /\ noResp' = noResp \cup {t}
           /\ retryPkt' = [retryPkt EXCEPT ![t] = pkt]
           /\ Rest(t, "tick")
           /\ UNCHANGED mem
  BY <1>1, <1>2, <1>3, <1>7 DEF TypeOK, MemOK
<1>8. QED
  BY <1>4, <1>5, <1>6, <1>7, Zenon DEF Issue, pkt, more

(* The addresses in flight are addresses. *)
LEMMA FlightAddrs ==
  ASSUME TypeOK, NEW t \in TREs
  PROVE  blkingAccAddrInFlight(t) \subseteq Addr
<1>1. ASSUME NEW k \in DOMAIN outs[t]
      PROVE  outs[t][k].addr \in Addr
  <2>1. outs[t][k] \in Flight
    BY DEF TypeOK, MemOK
  <2>2. QED
    BY <2>1 DEF Flight
<1>2. QED
  BY <1>1 DEF blkingAccAddrInFlight

(* Every tick preserves the types. *)
LEMMA TickType ==
  ASSUME TypeOK, NEW t \in TREs, TickEvent(t)
  PROVE  TypeOK'
<1> USE ZenonT(60)
<1> DEFINE e == Current(t)
<1>1. ASSUME NEW S, Reads(t, S)
      PROVE  e \in Entry /\ e.op \in S /\ pos[t] \in DOMAIN trace[t]
  BY <1>1, SMT DEF Reads, Current, TypeOK, ReplayOK
<1>2. ASSUME NEW why \in Outcomes, Abort(why)
      PROVE  TypeOK'
  BY <1>2, AbortType, SMT
<1>3. Read(t) => pos' \in [TREs -> Nat \ {0}] /\ last' \in [TREs -> Nat \ {0}]
  BY Moves, SMT DEF TypeOK, Advance
<1>4. ASSUME NEW es, es \subseteq TREs \X Events,
             Reserve(t, "tick", es) \/ Resume(t, "tick", es) \/ Rest(t, "tick")
      PROVE  sched' \subseteq TREs \X Events /\ sim' \in Outcomes
  BY <1>4, Schedules DEF TypeOK
<1>5. /\ UNCHANGED memVars => MemOK'
      /\ UNCHANGED mtxVars => MtxOK'
      /\ UNCHANGED barVars => BarOK'
      /\ UNCHANGED qVars => QueueOK'
  BY SMTT(20) DEF TypeOK, MemOK, MtxOK, BarOK, QueueOK, memVars, mtxVars, barVars, qVars
<1>6. CASE TickInRetry(t) \/ TickInvalid(t)
  BY <1>2, <1>6 DEF TickInRetry, TickInvalid, Outcomes
<1>7. CASE TickStillBlocked(t)
  <2>1. sched' \subseteq TREs \X Events /\ sim' \in Outcomes
    BY <1>4, <1>7 DEF TickStillBlocked
  <2>2. ReplayOK'
    BY <1>7, <2>1, SMT DEF TickStillBlocked, TypeOK, ReplayOK
  <2>3. QED
    BY <1>5, <1>7, <2>2 DEF TickStillBlocked, TypeOK
<1>8. CASE TickUnblocked(t)
  <2> DEFINE b == bpkt[t]
  <2>1. b \in BlockedPkt
    BY SMT DEF TypeOK, MemOK
  <2>2. /\ blocked' \subseteq TREs
        /\ bpkt' \in [TREs -> BlockedPkt]
    BY <1>8, <2>1 DEF TickUnblocked, TypeOK, MemOK, BlockedPkt
  <2>3. paddr' \in [TREs -> Addr] /\ data' \in [TREs -> Nat]
    BY <1>8, <2>1, SMT DEF TickUnblocked, TypeOK, ReplayOK, BlockedPkt
  <2>4. /\ sched' \subseteq TREs \X Events
        /\ sim' \in Outcomes
        /\ noResp' \subseteq TREs
        /\ outs' \in [TREs -> Seq(Flight)]
        /\ retryPkt' \in [TREs -> Packet \cup {NULL}]
        /\ mem' \in [TREs -> Seq(Packet)]
    <3>1. CASE /\ Resume(t, "tick", {})
               /\ UNCHANGED <<noResp, outs, retryPkt, mem>>
      BY <1>4, <3>1, SMT DEF TypeOK, MemOK
    <3>2. CASE /\ b.cmd # "STALL"
               /\ Issue(t, b.cmd, b.addr, b.unc, b.blk, NoPC)
      <4>1. /\ b.cmd \in Accesses /\ b.addr \in Addr
            /\ b.unc \in BOOLEAN /\ b.blk \in BOOLEAN
        BY <2>1, <3>2, SMT DEF BlockedPkt
      <4>2. QED
        BY <3>2, <4>1, IssueType
    <3>3. QED
      BY <1>8, <3>1, <3>2, SMT DEF TickUnblocked
  <2>5. MemOK'
    BY <2>2, <2>4, SMT DEF MemOK
  <2>6. UNCHANGED <<trace, pos, last, mtxVars, barVars, qVars, numIdle>>
    BY <1>8, SMT DEF TickUnblocked
  <2>7. ReplayOK'
    BY <2>3, <2>4, <2>6, SMT DEF TypeOK, ReplayOK
  <2>8. QED
    BY <1>5, <2>5, <2>6, <2>7, SMT DEF TypeOK
<1>9. CASE TickAccess(t)
  <2> DEFINE deps == blkingAccAddrInFlight(t) \cup Unreturned(t, e.deps)
  <2>1. e \in Entry /\ e.op \in Accesses
    BY <1>1, <1>9 DEF TickAccess
  <2>2. /\ e.addr \in Addr /\ e.unc \in BOOLEAN /\ e.blk \in BOOLEAN
        /\ e.pc \in Nat \cup {NoPC} /\ e.deps \subseteq Addr
    BY <2>1, SMT DEF Entry
  <2>3. deps \subseteq Addr
    BY <2>2, FlightAddrs, SMTT(20) DEF Unreturned
  <2>4. /\ MemOK'
        /\ sched' \subseteq TREs \X Events
        /\ sim' \in Outcomes
    <3>1. CASE /\ blocked' = blocked \cup {t}
               /\ bpkt' = [bpkt EXCEPT ![t] = Saved(t, e, deps)]
               /\ sched' = sched \ {<<t, "tick">>}
               /\ sim' \in {sim, "assert: deps.empty()"}
               /\ UNCHANGED <<noResp, outs, retryPkt, mem>>
      <4>1. Saved(t, e, deps) \in BlockedPkt
        BY <2>1, <2>2, <2>3 DEF Saved, BlockedPkt, TypeOK, MemOK
      <4>2. MemOK'
        BY <3>1, <4>1 DEF TypeOK, MemOK
      <4>3. sim' \in Outcomes
        BY <3>1 DEF TypeOK, ReplayOK, Outcomes
      <4>4. QED
        BY <3>1, <4>2, <4>3 DEF TypeOK, ReplayOK
    <3>2. CASE /\ Issue(t, e.op, e.addr, e.unc, e.blk, e.pc)
               /\ UNCHANGED <<blocked, bpkt>>
      <4>1. /\ sched' \subseteq TREs \X Events
            /\ sim' \in Outcomes
            /\ noResp' \subseteq TREs
            /\ outs' \in [TREs -> Seq(Flight)]
            /\ retryPkt' \in [TREs -> Packet \cup {NULL}]
            /\ mem' \in [TREs -> Seq(Packet)]
        BY <2>1, <2>2, <3>2, IssueType
      <4>2. QED
        BY <3>2, <4>1, SMTT(20) DEF TypeOK, MemOK
    <3>3. QED
      BY <1>9, <3>1, <3>2 DEF TickAccess
  <2>5. paddr' \in [TREs -> Addr]
    BY <1>9, <2>2 DEF TickAccess, TypeOK, ReplayOK
  <2>6. Read(t) /\ UNCHANGED <<trace, data, mtxVars, barVars, qVars, numIdle>>
    BY <1>9 DEF TickAccess
  <2>7. ReplayOK'
    BY <1>3, <2>4, <2>5, <2>6, SMT DEF TypeOK, ReplayOK
  <2>8. QED
    BY <1>5, <2>4, <2>6, <2>7, SMTT(20) DEF TypeOK
<1>10. CASE TickStall(t)
  <2> DEFINE new == bpkt[t].deps \cup Unreturned(t, e.deps)
                      \cup blkingAccAddrInFlight(t)
             b   == [addr |-> bpkt[t].addr, cmd |-> "STALL", data |-> e.val,
                     unc |-> bpkt[t].unc, blk |-> e.blk, deps |-> new]
  <2>1. e.val \in Nat /\ e.blk \in BOOLEAN /\ e.deps \subseteq Addr
    BY <1>1, <1>10 DEF TickStall, Entry
  <2>2. b \in BlockedPkt
    <3>1. new \subseteq Addr
      BY <2>1, FlightAddrs, SMTT(20) DEF Unreturned, TypeOK, MemOK, BlockedPkt
    <3>2. QED
      BY <2>1, <3>1 DEF TypeOK, MemOK, BlockedPkt
  <2>3. /\ UNCHANGED <<noResp, outs, retryPkt, mem>>
        /\ \/ UNCHANGED <<blocked, bpkt>>
           \/ blocked' = blocked \cup {t} /\ bpkt' = [bpkt EXCEPT ![t] = b]
    BY <1>10 DEF TickStall
  <2>4. MemOK'
    BY <2>2, <2>3 DEF TypeOK, MemOK
  <2>5. sched' \subseteq TREs \X Events /\ sim' \in Outcomes
    <3>1. CASE Resume(t, "tick", {})
      BY <1>4, <3>1, SMT
    <3>2. CASE /\ sched' = sched \ {<<t, "tick">>}
               /\ sim' \in {sim, "assert: STALL deps.empty()"}
      <4>1. sim' \in Outcomes
        BY <3>2 DEF TypeOK, ReplayOK, Outcomes
      <4>2. QED
        BY <3>2, <4>1 DEF TypeOK, ReplayOK
    <3>3. QED
      BY <1>10, <3>1, <3>2 DEF TickStall
  <2>6. data' \in [TREs -> Nat]
    BY <1>10, <2>1 DEF TickStall, TypeOK, ReplayOK
  <2>7. Read(t) /\ UNCHANGED <<trace, paddr, mtxVars, barVars, qVars, numIdle>>
    BY <1>10 DEF TickStall
  <2>8. ReplayOK'
    BY <1>3, <2>5, <2>6, <2>7, SMTT(20) DEF TypeOK, ReplayOK
  <2>9. QED
    BY <1>5, <2>4, <2>7, <2>8, SMTT(20) DEF TypeOK
<1>11. CASE TickPerform(t)
  BY <1>1, <1>11, PerformType DEF TickPerform
<1>12. CASE TickDefer(t)
  <2>1. e \in Entry /\ e.op \in Prims
    BY <1>1, <1>12, SMT DEF TickDefer
  <2>2. {<<t, e.op>>} \subseteq TREs \X Events
    BY <2>1, SMT DEF Events
  <2>3. sched' \subseteq TREs \X Events /\ sim' \in Outcomes
    BY <1>4, <1>12, <2>2 DEF TickDefer
  <2>4. paddr' \in [TREs -> Addr] /\ data' \in [TREs -> Nat]
    BY <1>12, <2>1 DEF TickDefer, TypeOK, ReplayOK, Entry
  <2>5. Read(t) /\ UNCHANGED <<trace, memVars, mtxVars, barVars, qVars, numIdle>>
    BY <1>12, SMT DEF TickDefer
  <2>6. ReplayOK'
    BY <1>3, <2>3, <2>4, <2>5 DEF TypeOK, ReplayOK
  <2>7. QED
    BY <1>5, <2>5, <2>6 DEF TypeOK
<1>13. CASE halt(t)
  <2>1. sim' \in Outcomes
    BY <1>13 DEF halt, TypeOK, ReplayOK, Outcomes
  <2>2. ReplayOK'
    <3>1. /\ Read(t) /\ sched' = sched \ {<<t, "tick">>}
          /\ UNCHANGED <<trace, paddr, data>>
      BY <1>13 DEF halt
    <3>2. sched' \subseteq TREs \X Events
      BY <3>1 DEF TypeOK, ReplayOK
    <3>3. numIdle' \in Nat
      BY <1>13, SMTT(20) DEF halt, TypeOK, ReplayOK
    <3>4. QED
      BY <1>3, <2>1, <3>1, <3>2, <3>3 DEF TypeOK, ReplayOK
  <2>3. QED
    BY <1>5, <1>13, <2>2, SMT DEF halt, TypeOK
<1>14. QED
  BY <1>6, <1>7, <1>8, <1>9, <1>10, <1>11, <1>12, <1>13, SMTT(20) DEF TickEvent

(* Every call of the memory port preserves the types. *)
LEMMA PortType ==
  ASSUME TypeOK, NEW t \in TREs, Port(t)
  PROVE  TypeOK'
<1>1. /\ UNCHANGED mtxVars => MtxOK'
      /\ UNCHANGED barVars => BarOK'
      /\ UNCHANGED qVars => QueueOK'
  BY DEF TypeOK, MtxOK, BarOK, QueueOK, mtxVars, barVars, qVars
<1>2. ASSUME NEW k \in DOMAIN mem[t]
      PROVE  Without(mem[t], k) \in Seq(Packet)
  <2>1. mem[t] \in Seq(Packet)
    BY DEF TypeOK, MemOK
  <2>2. QED
    BY <2>1, WithoutSeq
<1>3. ASSUME NEW k \in DOMAIN mem[t], completeRequest(t, k)
      PROVE  TypeOK'
  <2> DEFINE a == mem[t][k].addr
  <2>1. /\ mem' = [mem EXCEPT ![t] = Without(@, k)]
        /\ UNCHANGED <<trace, pos, last, paddr, data, blocked, bpkt, retryPkt,
                       mtxVars, barVars, qVars, numIdle>>
    BY <1>3, Zenon DEF completeRequest
  <2>2. /\ outs' \in [TREs -> Seq(Flight)]
        /\ noResp' \subseteq TREs
        /\ sched' \subseteq TREs \X Events
        /\ sim' \in Outcomes
    <3>1. CASE InFlight(t, a)
      <4>1. /\ outs' = [outs EXCEPT ![t] = EraseFirst(@, a)]
            /\ Restart(t) /\ ShiftTimeout(t)
        BY <1>3, <3>1, ZenonT(60) DEF completeRequest
      <4>2. EraseFirst(outs[t], a) \in Seq(Flight)
        <5>1. outs[t] \in Seq(Flight)
          BY DEF TypeOK, MemOK
        <5>2. QED
          BY <3>1, <5>1, EraseFirstSeq DEF InFlight
      <4>3. outs' \in [TREs -> Seq(Flight)]
        BY <4>1, <4>2 DEF TypeOK, MemOK
      <4>4. noResp' \subseteq TREs
        BY <4>1, Zenon DEF TypeOK, MemOK, ShiftTimeout
      <4>5. sched' \subseteq TREs \X Events
        BY <4>1 DEF TypeOK, ReplayOK, Restart, Events
      <4>6. sim' \in Outcomes
        BY <4>1, Zenon DEF TypeOK, ReplayOK, ShiftTimeout, Outcomes
      <4>7. QED
        BY <4>3, <4>4, <4>5, <4>6, ZenonT(60)
    <3>2. CASE ~InFlight(t, a)
      <4>1. sim' = "fatal: unsolicited" /\ UNCHANGED <<outs, sched, noResp>>
        BY <1>3, <3>2, Zenon DEF completeRequest
      <4>2. QED
        BY <4>1, Zenon DEF TypeOK, ReplayOK, MemOK, Outcomes
    <3>3. QED
      BY <3>1, <3>2
  <2>3. MemOK'
    BY <1>2, <2>1, <2>2, Zenon DEF TypeOK, MemOK
  <2>4. ReplayOK'
    BY <2>1, <2>2 DEF TypeOK, ReplayOK
  <2>5. QED
    BY <1>1, <2>1, <2>3, <2>4, SMTT(20) DEF TypeOK
<1>4. ASSUME NEW k \in DOMAIN mem[t], accessFailed(t, k)
      PROVE  TypeOK'
  BY <1>4, AbortType, Zenon DEF accessFailed, Outcomes
<1>5. ASSUME NEW k \in DOMAIN mem[t], loseRequest(t, k)
      PROVE  TypeOK'
  <2>1. MemOK'
    BY <1>2, <1>5, ZenonT(60) DEF loseRequest, TypeOK, MemOK
  <2>2. ReplayOK'
    BY <1>5 DEF loseRequest, TypeOK, ReplayOK
  <2>3. QED
    BY <1>1, <1>5, <2>1, <2>2 DEF loseRequest, TypeOK
<1>6. CASE recvRetry(t)
  <2>1. retryPkt[t] \in Packet
    BY <1>6 DEF recvRetry, TypeOK, MemOK
  <2>2. MemOK'
    BY <1>6, <2>1, SMTT(20) DEF recvRetry, TypeOK, MemOK
  <2>3. sched' \subseteq TREs \X Events /\ sim' \in Outcomes
    <3>1. {<<t, "tick">>} \subseteq TREs \X Events
      BY DEF Events
    <3>2. CASE Reserve(t, "retry", {<<t, "tick">>})
      BY <3>1, <3>2, Schedules DEF TypeOK
    <3>3. CASE UNCHANGED <<sched, sim>>
      BY <3>3, SMTT(20) DEF TypeOK, ReplayOK
    <3>4. QED
      BY <1>6, <3>2, <3>3 DEF recvRetry
  <2>4. ReplayOK'
    BY <1>6, <2>3 DEF recvRetry, TypeOK, ReplayOK
  <2>5. QED
    BY <1>1, <1>6, <2>2, <2>4, ZenonT(60) DEF recvRetry, TypeOK
<1>7. QED
  BY <1>3, <1>4, <1>5, <1>6, SMTT(20) DEF Port, Respond

(* The constructors leave a state with its types. *)
LEMMA InitType == Init => TypeOK
<1> SUFFICES ASSUME Init PROVE TypeOK
  BY SMTT(20)
<1>1. ReplayOK
  BY TraceAssumption, SMTT(20) DEF Init, ReplayOK, Events, Outcomes
<1>2. MemOK
  BY TraceAssumption, SMTT(20) DEF Init, MemOK, BlockedPkt, Accesses
<1>3. MtxOK /\ BarOK
  BY SMTT(20) DEF Init, MtxOK, BarOK
<1>4. QueueOK
  BY ConfigAssumption DEF Init, QueueOK
<1>5. QED
  BY <1>1, <1>2, <1>3, <1>4 DEF TypeOK

(* Every step preserves the types. *)
LEMMA NextType == TypeOK /\ [Next]_vars => TypeOK'
<1> SUFFICES ASSUME TypeOK, [Next]_vars PROVE TypeOK'
  OBVIOUS
<1>1. CASE UNCHANGED vars
  BY <1>1, Zenon DEF vars, memVars, mtxVars, barVars, qVars,
              TypeOK, ReplayOK, MemOK, MtxOK, BarOK, QueueOK
<1>2. ASSUME NEW t \in TREs, Run(t)
      PROVE  TypeOK'
  <2>1. CASE TickEvent(t)
    BY <2>1, TickType
  <2>2. ASSUME NEW op \in Prims, PrimEvent(t, op)
        PROVE  TypeOK'
    <3>1. Perform(t, op, op) /\ op # "tick"
      BY <2>2 DEF PrimEvent, Prims, Mutexes, Barriers, Stats
    <3>2. QED
      BY <3>1, PerformType
  <2>3. QED
    BY <1>2, <2>1, <2>2 DEF Run
<1>3. ASSUME NEW t \in TREs, Watchdog(t)
      PROVE  TypeOK'
  BY <1>3, AbortType, Zenon DEF Watchdog, noRequest, noResponse, Outcomes
<1>4. QED
  BY <1>1, <1>2, <1>3, PortType DEF Next, Stopped

(* The state of the replay engines always has its types: in particular a   *)
(* queue never holds more than QueueDepth elements, whatever the traces    *)
(* say and whoever is woken when.                                          *)
THEOREM TypeCorrect == Spec => []TypeOK
BY InitType, NextType, PTL DEF Spec

----------------------------------------------------------------------------
(* Which handlers touch the mutexes, the barriers and the queues. *)

(* A step runs a handler, or it touches none of the shared objects. *)
LEMMA StepKinds ==
  ASSUME [Next]_vars
  PROVE  \/ UNCHANGED <<mtxVars, barVars, qVars>>
         \/ \E t \in TREs : \E ev, op :
              /\ Perform(t, ev, op)
              /\ ev = "tick" => pos[t] \in DOMAIN trace[t]
<1> USE ZenonT(60)
<1>1. CASE UNCHANGED vars
  BY <1>1 DEF vars
<1>2. ASSUME NEW t \in TREs, TickEvent(t)
      PROVE  \/ UNCHANGED <<mtxVars, barVars, qVars>>
             \/ \E op : Perform(t, "tick", op) /\ pos[t] \in DOMAIN trace[t]
  <2>1. CASE TickPerform(t)
    BY <2>1 DEF TickPerform, Reads
  <2>2. CASE TickInRetry(t) \/ TickInvalid(t)
    BY <2>2 DEF TickInRetry, TickInvalid, Abort
  <2>3. CASE TickStillBlocked(t) \/ TickUnblocked(t)
    BY <2>3 DEF TickStillBlocked, TickUnblocked
  <2>4. CASE TickAccess(t) \/ TickStall(t)
    BY <2>4 DEF TickAccess, TickStall
  <2>5. CASE TickDefer(t) \/ halt(t)
    BY <2>5 DEF TickDefer, halt
  <2>6. QED
    BY <1>2, <2>1, <2>2, <2>3, <2>4, <2>5 DEF TickEvent
<1>3. ASSUME NEW t \in TREs, NEW op \in Prims, PrimEvent(t, op)
      PROVE  Perform(t, op, op) /\ op # "tick"
  BY <1>3 DEF PrimEvent, Prims, Mutexes, Barriers, Stats
<1>4. ASSUME NEW t \in TREs, Port(t) \/ Watchdog(t)
      PROVE  UNCHANGED <<mtxVars, barVars, qVars>>
  BY <1>4 DEF Port, Respond, Watchdog, completeRequest, accessFailed,
              loseRequest, recvRetry, noRequest, noResponse, Abort
<1>5. ASSUME NEW t \in TREs, Run(t)
      PROVE  \/ UNCHANGED <<mtxVars, barVars, qVars>>
             \/ \E ev, op : /\ Perform(t, ev, op)
                            /\ ev = "tick" => pos[t] \in DOMAIN trace[t]
  <2>1. CASE TickEvent(t)
    BY <1>2, <2>1
  <2>2. CASE \E op \in Prims : PrimEvent(t, op)
    BY <1>3, <2>2, SMT
  <2>3. QED
    BY <1>5, <2>1, <2>2 DEF Run
<1>6. QED
  BY <1>1, <1>4, <1>5 DEF Next, Stopped

----------------------------------------------------------------------------
(* Mutexes. *)

LEMMA NoLostUnlockStep ==
  ASSUME TypeOK, NoLostUnlock, [Next]_vars
  PROVE  NoLostUnlock'
<1> USE ZenonT(60)
<1>1. CASE UNCHANGED mtxVars
  BY <1>1 DEF NoLostUnlock, mtxVars
<1>2. ASSUME NEW t \in TREs, NEW ev,
             ev = "tick" => pos[t] \in DOMAIN trace[t],
             initMutex(t, ev) \/ lockMutex(t, ev) \/ unlockMutex(t, ev)
      PROVE  NoLostUnlock'
  <2> DEFINE a == Operand(t, ev)
  <2>1. a \in Addr /\ t # NULL
    BY <1>2, Operands, Ids DEF TypeOK
  <2>2. CASE UNCHANGED <<owner, waiting>>
    BY <2>2 DEF NoLostUnlock
  <2>3. CASE owner' = [owner EXCEPT ![a] = t] /\ waiting' = waiting
    BY <2>1, <2>3 DEF NoLostUnlock, TypeOK, MtxOK
  <2>4. CASE /\ ~MutexFree(a) /\ owner' = owner
             /\ waiting' = [waiting EXCEPT ![a] = Append(@, t)]
    BY <2>1, <2>4 DEF NoLostUnlock, TypeOK, MtxOK, MutexFree
  <2>5. CASE /\ waiting[a] = << >> /\ waiting' = waiting
             /\ owner' = [owner EXCEPT ![a] = NULL]
    BY <2>1, <2>5 DEF NoLostUnlock, TypeOK, MtxOK
  <2>6. ASSUME NEW k \in DOMAIN waiting[a], HandOver(a, k)
        PROVE  NoLostUnlock'
    <3>1. waiting[a][k] \in TREs
      BY <2>1, <2>6, SMT DEF TypeOK, MtxOK
    <3>2. owner'[a] # NULL
      BY <2>1, <2>6, <3>1, Ids DEF TypeOK, MtxOK, HandOver
    <3>3. QED
      BY <2>1, <2>6, <3>2 DEF NoLostUnlock, TypeOK, MtxOK, HandOver
  <2>7. CASE initMutex(t, ev)
    BY <2>2, <2>7 DEF initMutex, Abort, mtxVars
  <2>8. CASE lockMutex(t, ev)
    BY <2>2, <2>3, <2>4, <2>8 DEF lockMutex, Abort, mtxVars
  <2>9. CASE unlockMutex(t, ev)
    BY <2>2, <2>5, <2>6, <2>9 DEF unlockMutex, Abort, mtxVars
  <2>10. QED
    BY <1>2, <2>7, <2>8, <2>9
<1>3. QED
  BY <1>1, <1>2, StepKinds, PerformFrame

(* unlockMutex() never leaves a mutex free while somebody waits for it. *)
THEOREM UnlockIsNotLost == Spec => []NoLostUnlock
<1>1. Init => NoLostUnlock
  BY ZenonT(60) DEF Init, NoLostUnlock
<1>2. TypeOK /\ NoLostUnlock /\ [Next]_vars => NoLostUnlock'
  BY NoLostUnlockStep, ZenonT(60)
<1>3. QED
  BY <1>1, <1>2, TypeCorrect, PTL DEF Spec

----------------------------------------------------------------------------
(* Barriers. *)

LEMMA BarrierNotFullStep ==
  ASSUME TypeOK, BarrierNotFull, [Next]_vars
  PROVE  BarrierNotFull'
<1> USE ZenonT(60)
<1>1. CASE UNCHANGED barVars
  BY <1>1 DEF BarrierNotFull, barVars
<1>2. ASSUME NEW t \in TREs, NEW ev,
             ev = "tick" => pos[t] \in DOMAIN trace[t],
             initBarrier(t, ev) \/ waitAtBarrier(t, ev)
      PROVE  BarrierNotFull'
  <2> DEFINE a == Operand(t, ev)
             all == Append(arrived[a], t)
  <2>1. a \in Addr
    BY <1>2, Operands DEF TypeOK
  <2>2. CASE UNCHANGED <<count, arrived>>
    BY <2>2 DEF BarrierNotFull
  <2>3. ASSUME NEW n, count[a] = 0, arrived' = arrived,
               count' = [count EXCEPT ![a] = n]
        PROVE  BarrierNotFull'
    <3>1. arrived[a] = << >>
      BY <2>1, <2>3, SMT DEF BarrierNotFull, TypeOK, BarOK
    <3>2. QED
      BY <2>1, <2>3, <3>1 DEF BarrierNotFull, TypeOK, BarOK
  <2>4. CASE arrived' = [arrived EXCEPT ![a] = << >>] /\ count' = count
    BY <2>1, <2>4 DEF BarrierNotFull, TypeOK, BarOK
  <2>5. CASE /\ count[a] # 0 /\ ~Complete(a, all) /\ count' = count
             /\ arrived' = [arrived EXCEPT ![a] = all]
    <3>1. arrived[a] \in Seq(TREs) /\ count[a] \in Nat
      BY <2>1 DEF TypeOK, BarOK
    <3>2. Len(all) = Len(arrived[a]) + 1 /\ Len(arrived[a]) \in Nat
      BY <3>1, SMT
    <3>3. Len(arrived[a]) = 0 \/ Len(arrived[a]) < count[a]
      BY <2>1, <3>1, SMT DEF BarrierNotFull
    <3>4. Len(all) < count[a]
      BY <2>5, <3>1, <3>2, <3>3, SMT DEF Complete
    <3>5. QED
      BY <2>1, <2>5, <3>4 DEF BarrierNotFull, TypeOK, BarOK
  <2>6. CASE initBarrier(t, ev)
    BY <2>2, <2>3, <2>6 DEF initBarrier, Abort, barVars
  <2>7. CASE waitAtBarrier(t, ev)
    BY <2>2, <2>4, <2>5, <2>7 DEF waitAtBarrier, Abort, barVars
  <2>8. QED
    BY <1>2, <2>6, <2>7
<1>3. QED
  BY <1>1, <1>2, StepKinds, PerformFrame

(* The arrival that completes a barrier in waitAtBarrier() empties it: no  *)
(* barrier is left with as many TREs as it has participants.               *)
THEOREM BarrierIsNeverFull == Spec => []BarrierNotFull
<1>1. Init => BarrierNotFull
  BY ZenonT(60) DEF Init, BarrierNotFull
<1>2. TypeOK /\ BarrierNotFull /\ [Next]_vars => BarrierNotFull'
  BY BarrierNotFullStep, ZenonT(60)
<1>3. QED
  BY <1>1, <1>2, TypeCorrect, PTL DEF Spec

(* What waitAtBarrier() does when a barrier does not grow. *)
LEMMA BarrierReleases ==
  ASSUME TypeOK, [Next]_vars, NEW b \in Addr,
         arrived'[b] # arrived[b], Len(arrived'[b]) <= Len(arrived[b])
  PROVE  /\ arrived'[b] = << >>
         /\ Len(arrived[b]) + 1 = count[b]
         /\ \A k \in DOMAIN arrived[b] : <<arrived[b][k], "tick">> \in sched'
<1> USE Zenon
<1>1. PICK t \in TREs : \E ev :
        waitAtBarrier(t, ev) /\ (ev = "tick" => pos[t] \in DOMAIN trace[t])
  <2>1. arrived' # arrived
    BY SMT
  <2>2. ASSUME NEW t \in TREs, NEW ev, NEW op, Perform(t, ev, op)
        PROVE  waitAtBarrier(t, ev)
    <3>1. ~initBarrier(t, ev)
      BY <2>1 DEF initBarrier, Abort, barVars
    <3>2. QED
      BY <2>1, <2>2, <3>1, PerformFrame DEF barVars
  <2>3. QED
    BY <2>1, <2>2, StepKinds DEF barVars
<1>2. PICK ev : waitAtBarrier(t, ev) /\ (ev = "tick" => pos[t] \in DOMAIN trace[t])
  BY <1>1
<1> DEFINE a   == Operand(t, ev)
           all == Append(arrived[a], t)
<1>3. a \in Addr
  BY <1>2, Operands DEF TypeOK
<1>4. arrived \in [Addr -> Seq(TREs)] /\ Len(arrived[a]) \in Nat
  BY <1>3, SeqShape, SMT DEF TypeOK, BarOK
<1>5. /\ all \in Seq(TREs) /\ Len(all) = Len(arrived[a]) + 1
  BY <1>3, <1>4, AppendShape, SMT
<1> HIDE DEF all
<1>6. ASSUME arrived' = [arrived EXCEPT ![a] = all] PROVE FALSE
  <2>1. a = b /\ arrived'[b] = all
    BY <1>3, <1>4, <1>6
  <2>2. QED
    BY <1>4, <1>5, <2>1, SMT
<1>7. /\ Complete(a, all) /\ arrived' = [arrived EXCEPT ![a] = << >>]
      /\ Resume(t, ev, Release(arrived[a]))
  BY <1>2, <1>6 DEF waitAtBarrier, TryAgain, Abort, barVars, all
<1>8. a = b /\ arrived'[b] = << >>
  BY <1>3, <1>4, <1>7
<1>9. Len(arrived[b]) + 1 = count[b]
  BY <1>5, <1>7, <1>8 DEF Complete
<1>10. ASSUME NEW k \in DOMAIN arrived[b]
       PROVE  <<arrived[b][k], "tick">> \in sched'
  <2>1. <<arrived[b][k], "tick">> \in Release(arrived[a])
    BY <1>8, SMT DEF Release, Range
  <2>2. QED
    BY <1>7, <2>1 DEF Resume
<1>11. QED
  BY <1>8, <1>9, <1>10

(* A barrier is left only by all its TREs together, when the last of its   *)
(* participants calls waitAtBarrier(), and each of them is started then.   *)
THEOREM BarrierReleasesTogether == Spec => BarrierReleasesAll
<1>1. TypeOK /\ [Next]_vars =>
        [\A a \in Addr :
           arrived'[a] # arrived[a] /\ Len(arrived'[a]) <= Len(arrived[a]) =>
             /\ arrived'[a] = << >>
             /\ Len(arrived[a]) + 1 = count[a]
             /\ \A k \in DOMAIN arrived[a] :
                  <<arrived[a][k], "tick">> \in sched']_vars
  BY BarrierReleases, Zenon
<1>2. QED
  BY <1>1, TypeCorrect, PTL DEF Spec, BarrierReleasesAll

----------------------------------------------------------------------------
(* Queues. *)

LEMMA QueueWaitsStep ==
  ASSUME TypeOK, QueueWaits, [Next]_vars
  PROVE  QueueWaits'
<1> USE ZenonT(60)
<1> USE ConfigAssumption
<1>1. CASE UNCHANGED qVars
  BY <1>1 DEF QueueWaits, qVars
<1>2. ASSUME NEW t \in TREs, NEW ev, push(t, ev)
      PROVE  QueueWaits'
  <2> DEFINE q == <<t, Number(t, ev)>>
  <2>1. CASE q \notin Queues
    BY <1>2, <2>1, <1>1 DEF push, Abort
  <2>2. CASE /\ q \in Queues /\ Full(q) /\ UNCHANGED <<qlen, toPop>>
             /\ toPush' = [toPush EXCEPT ![q] = t]
    BY <2>2, SMTT(20) DEF QueueWaits, TypeOK, QueueOK, Full
  <2>3. CASE /\ q \in Queues /\ ~Full(q) /\ UNCHANGED toPush
             /\ qlen' = [qlen EXCEPT ![q] = @ + 1]
             /\ toPop' = [toPop EXCEPT ![q] = NULL]
    BY <2>3 DEF QueueWaits, TypeOK, QueueOK, Full
  <2>4. QED
    BY <1>2, <2>1, <2>2, <2>3 DEF push
<1>3. ASSUME NEW t \in TREs, NEW ev, pop(t, ev)
      PROVE  QueueWaits'
  <2> DEFINE q == <<Number(t, ev), t>>
  <2>1. CASE q \notin Queues
    BY <1>3, <2>1, <1>1 DEF pop, Abort
  <2>2. CASE /\ q \in Queues /\ qlen[q] = 0 /\ UNCHANGED <<qlen, toPush>>
             /\ toPop' = [toPop EXCEPT ![q] = t]
    BY <2>2, SMTT(20) DEF QueueWaits, TypeOK, QueueOK
  <2>3. CASE /\ q \in Queues /\ qlen[q] # 0 /\ UNCHANGED toPop
             /\ qlen' = [qlen EXCEPT ![q] = @ - 1]
             /\ ClearPusher(q)
    BY <2>3 DEF QueueWaits, TypeOK, QueueOK, ClearPusher
  <2>4. QED
    BY <1>3, <2>1, <2>2, <2>3 DEF pop
<1>4. QED
  BY <1>1, <1>2, <1>3, StepKinds, PerformFrame

(* push() and pop() leave a TRE waiting only at the end of the queue that  *)
(* is its own, and only as long as the queue is full, or empty.            *)
THEOREM QueueWaitsHold == Spec => []QueueWaits
<1>1. Init => QueueWaits
  BY ZenonT(60) DEF Init, QueueWaits
<1>2. TypeOK /\ QueueWaits /\ [Next]_vars => QueueWaits'
  BY QueueWaitsStep, ZenonT(60)
<1>3. QED
  BY <1>1, <1>2, TypeCorrect, PTL DEF Spec

----------------------------------------------------------------------------
(* The response timeout. *)

LEMMA IssueArms ==
  ASSUME TypeOK, WatchdogArmed, NEW t \in TREs,
         NEW cmd, NEW a \in Addr, NEW unc, NEW blk \in BOOLEAN, NEW pc,
         Issue(t, cmd, a, unc, blk, pc)
  PROVE  WatchdogArmed'
<1> USE ZenonT(60)
<1> DEFINE more == Append(outs[t], [addr |-> a, blk |-> blk])
<1>1. more # << >>
  <2>1. outs[t] \in Seq(Flight) /\ [addr |-> a, blk |-> blk] \in Flight
    BY DEF TypeOK, MemOK, Flight
  <2> HIDE DEF more
  <2>2. Len(more) = Len(outs[t]) + 1 /\ Len(outs[t]) \in Nat
    BY <2>1, AppendShape, SMT DEF more
  <2>3. QED
    BY <2>2, SMT
<1>2. CASE UNCHANGED <<noResp, outs>>
  BY <1>2 DEF WatchdogArmed
<1>3. CASE /\ outs' = [outs EXCEPT ![t] = EraseFirst(more, a)]
           /\ noResp' = IF outs'[t] = << >> THEN noResp \ {t}
                                            ELSE noResp \cup {t}
  <2> HIDE DEF more
  <2>1. QED
    BY <1>3 DEF WatchdogArmed, TypeOK, MemOK
<1>4. CASE outs' = [outs EXCEPT ![t] = more] /\ noResp' = noResp \cup {t}
  <2> HIDE DEF more
  <2>1. QED
    BY <1>1, <1>4 DEF WatchdogArmed, TypeOK, MemOK
<1>5. QED
  BY <1>2, <1>3, <1>4 DEF Issue

LEMMA WatchdogArmedStep ==
  ASSUME TypeOK, WatchdogArmed, [Next]_vars
  PROVE  WatchdogArmed'
<1> USE ZenonT(60)
<1>1. CASE UNCHANGED memVars
  BY <1>1 DEF WatchdogArmed, memVars
<1>2. CASE UNCHANGED <<noResp, outs>>
  BY <1>2 DEF WatchdogArmed
<1>3. ASSUME NEW t \in TREs, TickEvent(t)
      PROVE  WatchdogArmed'
  <2>1. CASE TickAccess(t)
    <3> DEFINE e == Current(t)
    <3>1. Reads(t, Accesses)
      BY <2>1 DEF TickAccess
    <3>2. e \in Entry
      BY <3>1, SMT DEF Reads, Current, TypeOK, ReplayOK
    <3>3. e.addr \in Addr /\ e.blk \in BOOLEAN
      BY <3>2 DEF Entry
    <3>4. \/ UNCHANGED <<noResp, outs>>
          \/ Issue(t, e.op, e.addr, e.unc, e.blk, e.pc)
      BY <2>1 DEF TickAccess
    <3>5. QED
      BY <1>2, <3>3, <3>4, IssueArms
  <2>2. CASE TickUnblocked(t)
    <3>1. bpkt[t].addr \in Addr /\ bpkt[t].blk \in BOOLEAN
      BY DEF TypeOK, MemOK, BlockedPkt
    <3>2. QED
      BY <1>2, <2>2, <3>1, IssueArms DEF TickUnblocked
  <2>3. CASE TickPerform(t)
    BY <1>1, <2>3, PerformFrame DEF TickPerform
  <2>4. CASE TickInRetry(t) \/ TickInvalid(t) \/ TickStillBlocked(t)
    BY <1>1, <2>4 DEF TickInRetry, TickInvalid, TickStillBlocked, Abort
  <2>5. CASE TickStall(t) \/ TickDefer(t) \/ halt(t)
    BY <1>2, <2>5 DEF TickStall, TickDefer, halt, memVars
  <2>6. QED
    BY <1>3, <2>1, <2>2, <2>3, <2>4, <2>5 DEF TickEvent
<1>4. ASSUME NEW t \in TREs, NEW op \in Prims, PrimEvent(t, op)
      PROVE  WatchdogArmed'
  BY <1>1, <1>4, PerformFrame DEF PrimEvent
<1>5. ASSUME NEW t \in TREs, NEW k \in DOMAIN mem[t], completeRequest(t, k)
      PROVE  WatchdogArmed'
  <2> DEFINE a == mem[t][k].addr
  <2>1. CASE ~InFlight(t, a)
    BY <1>2, <1>5, <2>1 DEF completeRequest
  <2>2. CASE InFlight(t, a)
    <3>1. /\ outs' = [outs EXCEPT ![t] = EraseFirst(@, a)]
          /\ noResp' = IF outs'[t] = << >> THEN noResp \ {t} ELSE noResp
      BY <1>5, <2>2 DEF completeRequest, ShiftTimeout
    <3>2. outs[t] # << >>
      BY <2>2, SMT DEF InFlight
    <3>3. QED
      BY <3>1, <3>2 DEF WatchdogArmed, TypeOK, MemOK
  <2>3. QED
    BY <2>1, <2>2
<1>6. ASSUME NEW t \in TREs, Port(t) \/ Watchdog(t)
      PROVE  WatchdogArmed'
  <2>1. CASE \E k \in DOMAIN mem[t] : completeRequest(t, k)
    BY <1>5, <2>1
  <2>2. CASE \E k \in DOMAIN mem[t] : accessFailed(t, k) \/ loseRequest(t, k)
    BY <1>2, <2>2 DEF accessFailed, loseRequest, Abort, memVars
  <2>3. CASE recvRetry(t) \/ Watchdog(t)
    BY <1>2, <2>3 DEF recvRetry, Watchdog, noRequest, noResponse, Abort, memVars
  <2>4. QED
    BY <1>6, <2>1, <2>2, <2>3 DEF Port, Respond
<1>7. CASE UNCHANGED vars
  BY <1>1, <1>7 DEF vars
<1>8. QED
  BY <1>3, <1>4, <1>6, <1>7 DEF Next, Run, Stopped

(* noResponseEvent is scheduled exactly while responses are expected: tick *)
(* schedules it when a request goes out, completeRequest() shifts it or    *)
(* takes it away, and no other handler touches either side.                *)
THEOREM TimeoutIsArmed == Spec => []WatchdogArmed
<1>1. Init => WatchdogArmed
  BY ZenonT(60) DEF Init, WatchdogArmed
<1>2. TypeOK /\ WatchdogArmed /\ [Next]_vars => WatchdogArmed'
  BY WatchdogArmedStep, ZenonT(60)
<1>3. QED
  BY <1>1, <1>2, TypeCorrect, PTL DEF Spec

----------------------------------------------------------------------------
(* The TRE whose event runs, when the TREs are placed, and the entry that  *)
(* its handler performs.                                                   *)

(* A TRE that has an event does not wait. *)
LEMMA Awake ==
  ASSUME NEW u \in TREs, PlacedTRE(u), NEW e \in Events, <<u, e>> \in sched
  PROVE  /\ \A f \in Events : <<u, f>> \in sched <=> f = e
         /\ ~Waits(u)
<1> USE ZenonT(60)
<1>1. \A f \in Events : <<u, f>> \in sched <=> f = e
  BY DEF PlacedTRE, OneEvent
<1>2. ~NoEvent(u)
  BY DEF NoEvent
<1>3. ~AtMutex(u) /\ ~AtBarrier(u)
  BY <1>2 DEF PlacedTRE, MutexWait, BarrierWait, AtMutex, AtBarrier
<1>4. ~AtQueue(u)
  BY <1>2 DEF PlacedTRE, QueueWait, AtQueue
<1>5. retryPkt[u] = NULL
  BY <1>2 DEF PlacedTRE, RetryWait
<1>6. QED
  BY <1>1, <1>3, <1>4, <1>5 DEF Waits

(* Handler op of t runs, inside a tick or as its event. *)
Performs(t, ev, op) ==
  /\ sim = "run" /\ op \in Prims
  /\ \/ ev = "tick" /\ Reads(t, {op})
     \/ ev = op /\ <<t, op>> \in sched

Place(t, ev) == IF ev = "tick" THEN pos[t] ELSE last[t]

(* A handler performs the entry at Place, with the operands of the entry,  *)
(* and its event is the only one of t.                                     *)
LEMMA Performing ==
  ASSUME TypeOK, NEW t \in TREs, PlacedTRE(t), NEW ev, NEW op,
         Performs(t, ev, op)
  PROVE  LET p == Place(t, ev)
             x == trace[t][p]
         IN  /\ p \in DOMAIN trace[t] /\ p \in Nat
             /\ x \in Entry /\ x.op = op
             /\ op \in Mutexes \cup Barriers => Operand(t, ev) = x.addr
             /\ op \in {"BARINIT", "WAKE", "PUSH", "POP"} =>
                  Number(t, ev) = x.val
             /\ ev # "tick" => p = pos[t] - 1 /\ ev = op
             /\ ev \in Events /\ <<t, ev>> \in sched
             /\ t \notin blocked /\ bpkt[t].deps = {}
<1> USE ZenonT(60)
<1>1. op \in Prims /\ op # "tick" /\ Prims \subseteq Events /\ "tick" \in Events
  BY DEF Performs, Events, Prims, Mutexes, Barriers, Stats
<1>2. trace[t] \in Seq(Entry) /\ pos[t] \in Nat /\ last[t] \in Nat
  BY DEF TypeOK, ReplayOK
<1>3. CASE ev = "tick" /\ Reads(t, {op})
  <2>1. pos[t] \in DOMAIN trace[t] /\ Current(t).op = op /\ t \notin blocked
    BY <1>3 DEF Reads
  <2>2. bpkt[t].deps = {}
    BY <2>1 DEF PlacedTRE, BlockedWait
  <2>3. <<t, ev>> \in sched
    BY <1>3 DEF Reads, Ticks
  <2>4. trace[t][pos[t]] \in Entry
    BY <1>2, <2>1, SeqShape
  <2>5. QED
    BY <1>1, <1>2, <1>3, <2>1, <2>2, <2>3, <2>4
       DEF Place, Current, Operand, Number
<1>4. CASE ev = op /\ <<t, op>> \in sched
  <2>1. JustRead(t) /\ LastRead(t).op = op
    BY <1>1, <1>4 DEF PlacedTRE, EventIsRead
  <2>2. /\ op \in Mutexes \cup Barriers => paddr[t] = LastRead(t).addr
        /\ op \in {"BARINIT", "WAKE", "PUSH", "POP"} =>
             data[t] = LastRead(t).val
    BY <1>1, <1>4 DEF PlacedTRE, EventIsRead
  <2>3. t \notin blocked
    BY <1>1, <2>1
       DEF PlacedTRE, BlockedWait, Accesses, Prims, Mutexes, Barriers, Stats
  <2>4. bpkt[t].deps = {}
    BY <2>3 DEF PlacedTRE, BlockedWait
  <2>5. last[t] \in DOMAIN trace[t] /\ last[t] = pos[t] - 1
    BY <2>1 DEF JustRead
  <2>6. trace[t][last[t]] \in Entry
    BY <1>2, <2>5, SeqShape
  <2>7. ev = op /\ ev # "tick" /\ Place(t, ev) = last[t]
    BY <1>1, <1>4 DEF Place
  <2>8. Operand(t, ev) = paddr[t] /\ Number(t, ev) = data[t]
    BY <2>7 DEF Operand, Number
  <2>9. QED
    BY <1>1, <1>2, <1>4, <2>1, <2>2, <2>3, <2>4, <2>5, <2>6, <2>7, <2>8 DEF LastRead
<1>5. QED
  BY <1>3, <1>4 DEF Performs

(* Where a handler leaves the position in the trace: after the entry, or   *)
(* before it.                                                              *)
LEMMA MovesTo ==
  ASSUME TypeOK, NEW t \in TREs, PlacedTRE(t), NEW ev, NEW op,
         Performs(t, ev, op), Advance(t, ev) \/ Rewind(t, ev)
  PROVE  /\ Advance(t, ev) => pos'[t] = Place(t, ev) + 1
         /\ Rewind(t, ev) => pos'[t] = Place(t, ev)
         /\ last'[t] = Place(t, ev)
         /\ \A u \in TREs : u # t => pos'[u] = pos[u] /\ last'[u] = last[u]
<1>1. pos \in [TREs -> Nat \ {0}] /\ last \in [TREs -> Nat \ {0}]
  BY ZenonT(60) DEF TypeOK, ReplayOK
<1>2. ev # "tick" => last[t] = pos[t] - 1
  BY Performing, ZenonT(60) DEF Place
<1>3. QED
  BY <1>1, <1>2 DEF Advance, Rewind, Read, Place
=============================================================================
