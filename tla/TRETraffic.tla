---------------------------- MODULE TRETraffic ----------------------------
(***************************************************************************)
(* What the replay engines exchange.  The memory path: what is in flight,  *)
(* what a blocked access or stall waits for, in which order accesses are   *)
(* issued, and how the handlers keep to the limit on accesses in flight.   *)
(* The queues between TREs: which PUSHes and POPs have been performed, and *)
(* that what has been pushed and not popped is in the queue.               *)
(***************************************************************************)
EXTENDS TREProofs, FiniteSetTheorems

----------------------------------------------------------------------------
(* Counting the elements of a sequence that are for one address. *)

Positions(s, a) == {k \in DOMAIN s : s[k].addr = a}

LEMMA PositionsFinite ==
  ASSUME NEW S, NEW s \in Seq(S), NEW a
  PROVE  /\ IsFiniteSet(Positions(s, a)) /\ Cardinality(Positions(s, a)) \in Nat
         /\ Cardinality(Positions(s, a)) = 0 <=> Positions(s, a) = {}
<1>1. DOMAIN s = 1 .. Len(s) /\ Len(s) \in Nat
  BY SeqShape
<1>2. IsFiniteSet(1 .. Len(s))
  BY <1>1, FS_Interval
<1>3. Positions(s, a) \in SUBSET (1 .. Len(s))
  BY <1>1 DEF Positions
<1>4. IsFiniteSet(Positions(s, a))
  BY <1>2, <1>3, FS_Subset
<1>5. QED
  BY <1>4, FS_CardinalityType, FS_EmptySet

(* One more element. *)
LEMMA CountAppend ==
  ASSUME NEW S, NEW s \in Seq(S), NEW e \in S, NEW a
  PROVE  Cardinality(Positions(Append(s, e), a)) =
           Cardinality(Positions(s, a)) + (IF e.addr = a THEN 1 ELSE 0)
<1> DEFINE P == Positions(s, a)
           Q == Positions(Append(s, e), a)
           n == Len(s) + 1
<1>1. DOMAIN s = 1 .. Len(s) /\ Len(s) \in Nat
  BY SeqShape
<1>2. /\ DOMAIN Append(s, e) = 1 .. n
      /\ \A k \in 1 .. Len(s) : Append(s, e)[k] = s[k]
      /\ Append(s, e)[n] = e
  BY AppendShape
<1>3. n \notin P
  BY <1>1 DEF Positions
<1>4. Q = IF e.addr = a THEN P \cup {n} ELSE P
  <2>1. \A k : k \in 1 .. n <=> k \in 1 .. Len(s) \/ k = n
    BY <1>1
  <2>2. n \notin 1 .. Len(s)
    BY <1>1
  <2> HIDE DEF n
  <2>3. QED
    BY <1>1, <1>2, <2>1, <2>2, Zenon DEF Positions
<1>5. IsFiniteSet(P) /\ Cardinality(P) \in Nat
  BY PositionsFinite
<1> HIDE DEF P, Q, n
<1>6. Cardinality(P \cup {n}) = Cardinality(P) + 1
  BY <1>3, <1>5, FS_AddElement, Zenon
<1>7. QED
  BY <1>4, <1>5, <1>6 DEF P, Q

(* One element less. *)
LEMMA CountWithout ==
  ASSUME NEW S, NEW s \in Seq(S), NEW i \in DOMAIN s, NEW a
  PROVE  Cardinality(Positions(Without(s, i), a)) =
           Cardinality(Positions(s, a)) - (IF s[i].addr = a THEN 1 ELSE 0)
<1> DEFINE P == Positions(s, a)
           Q == Positions(Without(s, i), a)
           f == [k \in Q |-> IF k < i THEN k ELSE k + 1]
<1>1. DOMAIN s = 1 .. Len(s) /\ Len(s) \in Nat /\ i \in 1 .. Len(s)
  BY SeqShape
<1>2. /\ DOMAIN Without(s, i) = 1 .. Len(s) - 1
      /\ \A j \in 1 .. Len(s) - 1 :
           Without(s, i)[j] = IF j < i THEN s[j] ELSE s[j + 1]
  <2>1. Without(s, i) \in Seq(S) /\ Len(Without(s, i)) = Len(s) - 1
    BY WithoutSeq
  <2>2. QED
    BY <2>1, SeqShape, WithoutSeq, Zenon
<1>3. IsFiniteSet(P) /\ Cardinality(P) \in Nat
  BY PositionsFinite
<1>4. IsFiniteSet(P \ {i})
      /\ Cardinality(P \ {i}) = Cardinality(P) - (IF s[i].addr = a THEN 1 ELSE 0)
  <2>1. i \in P <=> s[i].addr = a
    BY DEF Positions
  <2> HIDE DEF P
  <2>2. QED
    BY <1>3, <2>1, FS_RemoveElement
<1>5. f \in Bijection(Q, P \ {i})
  <2>1. \A k : k \in Q <=> k \in 1 .. Len(s) - 1 /\ Without(s, i)[k].addr = a
    BY <1>2 DEF Positions
  <2>2. \A k : k \in P <=> k \in 1 .. Len(s) /\ s[k].addr = a
    BY <1>1 DEF Positions
  <2> HIDE DEF P, Q
  <2>3. \A k \in Q : f[k] \in P \ {i}
    BY <1>1, <1>2, <2>1, <2>2
  <2>4. \A j, k \in Q : f[j] = f[k] => j = k
    BY <1>1, <2>1
  <2>5. ASSUME NEW p \in P \ {i}
        PROVE  \E k \in Q : f[k] = p
    <3>1. CASE p < i
      <4>1. p \in Q
        BY <1>1, <1>2, <2>1, <2>2, <3>1
      <4>2. QED
        BY <3>1, <4>1
    <3>2. CASE ~(p < i)
      <4>0. /\ p - 1 \in 1 .. Len(s) - 1 /\ ~(p - 1 < i) /\ p - 1 + 1 = p
            /\ s[p].addr = a
        BY <1>1, <2>2, <3>2
      <4>1. p - 1 \in Q /\ ~(p - 1 < i)
        BY <1>2, <2>1, <4>0, Zenon
      <4>2. f[p - 1] = p
        BY <1>1, <2>2, <4>1
      <4>3. QED
        BY <4>1, <4>2
    <3>3. QED
      BY <3>1, <3>2
  <2> HIDE DEF f
  <2>6. f \in [Q -> P \ {i}]
    BY <2>3 DEF f
  <2>7. QED
    BY <2>4, <2>5, <2>6, Zenon DEF Bijection, Injection, Surjection, IsInjective
<1>6. IsFiniteSet(Q)
  BY <1>2, WithoutSeq, PositionsFinite
<1>7. ExistsBijection(Q, P \ {i})
  BY <1>5, Zenon DEF ExistsBijection
<1>8. Cardinality(P \ {i}) = Cardinality(Q)
  BY <1>6, <1>7, FS_Bijection
<1>9. QED
  BY <1>4, <1>8

----------------------------------------------------------------------------
(* What a step does to the memory path of one TRE. *)

PathSame(u) ==
  /\ trace' = trace
  /\ outs'[u] = outs[u] /\ mem'[u] = mem[u] /\ retryPkt'[u] = retryPkt[u]
  /\ bpkt'[u] = bpkt[u] /\ (u \in blocked' <=> u \in blocked)

(* It reads nothing, and may go back to the last entry. *)
Stays(u) ==
  PathSame(u) /\ last'[u] = last[u] /\ pos'[u] \in {pos[u], last[u]}

(* tick() reads a primitive or the end of the trace. *)
Passes(u) ==
  /\ PathSame(u) /\ Reads(u, Prims \cup {"EOF"})
  /\ last'[u] = pos[u] /\ pos'[u] \in {pos[u], pos[u] + 1}

LEMMA PerformStays ==
  ASSUME TypeOK, NEW t \in TREs, NEW ev, NEW op, Perform(t, ev, op), sim = "run",
         NEW u \in TREs, u # t \/ ev # "tick"
  PROVE  Stays(u)
<1> USE Zenon
<1>1. UNCHANGED memVars
  BY PerformFrame
<1>2. trace' = trace
  BY PerformMoves
<1>3. UNCHANGED <<pos, last>> \/ Advance(t, ev) \/ Rewind(t, ev)
  BY PerformMoves
<1>4. last'[u] = last[u] /\ pos'[u] \in {pos[u], last[u]}
  BY <1>3 DEF Advance, Read, Rewind, TypeOK, ReplayOK
<1>5. QED
  BY <1>1, <1>2, <1>4 DEF Stays, PathSame, memVars

(* The tick of a TRE and its own path. *)
LEMMA TickPath ==
  ASSUME TypeOK, NEW t \in TREs, TickEvent(t)
  PROVE  \/ Stays(t) \/ Passes(t)
         \/ TickUnblocked(t) \/ TickAccess(t) \/ TickStall(t)
<1> USE Zenon
<1>1. CASE TickInRetry(t) \/ TickInvalid(t) \/ TickStillBlocked(t)
  BY <1>1 DEF TickInRetry, TickInvalid, TickStillBlocked, Abort,
                     Stays, PathSame, memVars
<1>2. CASE TickPerform(t)
  <2>1. Perform(t, "tick", Current(t).op) /\ Reads(t, Prims) /\ sim = "run"
    BY <1>2 DEF TickPerform, Reads, Ticks
  <2>2. UNCHANGED memVars /\ trace' = trace
    BY <2>1, PerformFrame, PerformMoves
  <2>3. PathSame(t)
    BY <2>2 DEF PathSame, memVars
  <2>4. CASE UNCHANGED <<pos, last>>
    BY <2>3, <2>4 DEF Stays
  <2>5. CASE Advance(t, "tick") \/ Rewind(t, "tick")
    <3>1. last'[t] = pos[t] /\ pos'[t] \in {pos[t], pos[t] + 1}
      BY <2>5 DEF Advance, Read, Rewind, TypeOK, ReplayOK
    <3>2. Reads(t, Prims \cup {"EOF"})
      BY <2>1 DEF Reads
    <3>3. QED
      BY <2>3, <3>1, <3>2 DEF Passes
  <2>6. QED
    BY <2>1, <2>4, <2>5, PerformMoves
<1>3. CASE TickDefer(t) \/ halt(t)
  <2>1. Read(t) /\ PathSame(t) /\ Reads(t, Prims \cup {"EOF"})
    BY <1>3 DEF TickDefer, halt, PathSame, memVars, Reads
  <2>2. QED
    BY <2>1 DEF Passes, Read, TypeOK, ReplayOK
<1>4. QED
  BY <1>1, <1>2, <1>3 DEF TickEvent

(* The tick of a TRE leaves the others alone. *)
LEMMA TickElsewhere ==
  ASSUME TypeOK, NEW t \in TREs, TickEvent(t), NEW u \in TREs, u # t
  PROVE  Stays(u)
<1> USE ZenonT(60)
<1>1. CASE TickInRetry(t) \/ TickInvalid(t) \/ TickStillBlocked(t)
  BY <1>1 DEF TickInRetry, TickInvalid, TickStillBlocked, Abort,
                     Stays, PathSame, memVars
<1>2. CASE TickPerform(t)
  BY <1>2, PerformStays DEF TickPerform, Reads, Ticks
<1>3. CASE TickDefer(t) \/ halt(t)
  BY <1>3 DEF TickDefer, halt, Read, Stays, PathSame, memVars,
                     TypeOK, ReplayOK
<1>4. ASSUME NEW cmd, NEW a, NEW unc, NEW blk, NEW pc,
             Issue(t, cmd, a, unc, blk, pc)
      PROVE  outs'[u] = outs[u] /\ mem'[u] = mem[u] /\ retryPkt'[u] = retryPkt[u]
  BY <1>4 DEF Issue, TypeOK, MemOK
<1>5. CASE TickUnblocked(t)
  <2>1. outs'[u] = outs[u] /\ mem'[u] = mem[u] /\ retryPkt'[u] = retryPkt[u]
    BY <1>4, <1>5 DEF TickUnblocked
  <2>2. bpkt'[u] = bpkt[u] /\ (u \in blocked' <=> u \in blocked)
    BY <1>5 DEF TickUnblocked, TypeOK, MemOK
  <2>3. UNCHANGED <<trace, pos, last>>
    BY <1>5 DEF TickUnblocked
  <2>4. QED
    BY <2>1, <2>2, <2>3 DEF Stays, PathSame
<1>6. CASE TickAccess(t)
  <2>1. outs'[u] = outs[u] /\ mem'[u] = mem[u] /\ retryPkt'[u] = retryPkt[u]
    BY <1>4, <1>6 DEF TickAccess
  <2>2. bpkt'[u] = bpkt[u] /\ (u \in blocked' <=> u \in blocked)
    BY <1>6 DEF TickAccess, TypeOK, MemOK
  <2>3. trace' = trace /\ Read(t)
    BY <1>6 DEF TickAccess
  <2>4. QED
    BY <2>1, <2>2, <2>3 DEF Stays, PathSame, Read, TypeOK, ReplayOK
<1>7. CASE TickStall(t)
  <2>1. outs'[u] = outs[u] /\ mem'[u] = mem[u] /\ retryPkt'[u] = retryPkt[u]
    BY <1>7 DEF TickStall
  <2>2. bpkt'[u] = bpkt[u] /\ (u \in blocked' <=> u \in blocked)
    BY <1>7 DEF TickStall, TypeOK, MemOK
  <2>3. trace' = trace /\ Read(t)
    BY <1>7 DEF TickStall
  <2>4. QED
    BY <2>1, <2>2, <2>3 DEF Stays, PathSame, Read, TypeOK, ReplayOK
<1>8. QED
  BY <1>1, <1>2, <1>3, <1>5, <1>6, <1>7 DEF TickEvent

(* Any step, seen from the memory path of one TRE. *)
LEMMA PathSteps ==
  ASSUME TypeOK, [Next]_vars, NEW u \in TREs
  PROVE  \/ Stays(u) \/ Passes(u)
         \/ TickUnblocked(u) \/ TickAccess(u) \/ TickStall(u) \/ recvRetry(u)
         \/ \E k \in DOMAIN mem[u] : completeRequest(u, k) \/ loseRequest(u, k)
<1> USE Zenon
<1>1. CASE UNCHANGED vars
  BY <1>1 DEF vars, memVars, Stays, PathSame
<1>2. ASSUME NEW t \in TREs, NEW op \in Prims, PrimEvent(t, op)
      PROVE  Stays(u)
  <2>1. op # "tick"
    BY DEF Prims, Mutexes, Barriers, Stats
  <2>2. Perform(t, op, op) /\ sim = "run"
    BY <1>2 DEF PrimEvent
  <2>3. QED
    BY <2>1, <2>2, PerformStays, SMT
<1>3. ASSUME NEW t \in TREs, Watchdog(t)
      PROVE  Stays(u)
  BY <1>3 DEF Watchdog, noRequest, noResponse, Abort, Stays, PathSame, memVars
<1>4. ASSUME NEW t \in TREs, NEW k \in DOMAIN mem[t],
             completeRequest(t, k) \/ loseRequest(t, k) \/ accessFailed(t, k),
             t # u \/ accessFailed(t, k)
      PROVE  Stays(u)
  BY <1>4 DEF completeRequest, loseRequest, accessFailed, Abort,
                     Stays, PathSame, memVars, TypeOK, MemOK
<1>5. ASSUME NEW t \in TREs, recvRetry(t), t # u
      PROVE  Stays(u)
  BY <1>5 DEF recvRetry, Stays, PathSame, TypeOK, MemOK
<1>6. ASSUME NEW t \in TREs, TickEvent(t)
      PROVE  \/ Stays(u) \/ Passes(u)
             \/ TickUnblocked(u) \/ TickAccess(u) \/ TickStall(u)
  BY <1>6, TickPath, TickElsewhere
<1>7. QED
  BY <1>1, <1>2, <1>3, <1>4, <1>5, <1>6
     DEF Next, Stopped, Run, Port, Respond

(* The entry of outstandingAddrs and the packet of an access. *)
More(t, a, blk) == Append(outs[t], [addr |-> a, blk |-> blk])
Pkt(cmd, a, unc, pc) == [cmd |-> cmd, addr |-> a, unc |-> unc, pc |-> pc]

LEMMA PktFields ==
  ASSUME NEW cmd, NEW a, NEW unc, NEW pc
  PROVE  /\ Pkt(cmd, a, unc, pc).cmd = cmd /\ Pkt(cmd, a, unc, pc).addr = a
         /\ Pkt(cmd, a, unc, pc).unc = unc
BY DEF Pkt

LEMMA PktTyped ==
  ASSUME NEW cmd, NEW a, NEW unc, NEW pc
  PROVE  cmd \in Accesses /\ a \in Addr /\ unc \in BOOLEAN /\ pc \in Nat \cup {NoPC}
           => Pkt(cmd, a, unc, pc) \in Packet
BY DEF Pkt, Packet

LEMMA MoreShape ==
  ASSUME TypeOK, NEW t \in TREs, NEW a \in Addr, NEW blk \in BOOLEAN
  PROVE  /\ outs[t] \in Seq(Flight) /\ Len(outs[t]) \in Nat
         /\ DOMAIN outs[t] = 1 .. Len(outs[t])
         /\ More(t, a, blk) \in Seq(Flight)
         /\ Len(More(t, a, blk)) = Len(outs[t]) + 1
         /\ DOMAIN More(t, a, blk) = 1 .. Len(outs[t]) + 1
         /\ \A k \in DOMAIN outs[t] : More(t, a, blk)[k] = outs[t][k]
         /\ More(t, a, blk)[Len(outs[t]) + 1] = [addr |-> a, blk |-> blk]
<1> DEFINE f == [addr |-> a, blk |-> blk]
<1>1. outs[t] \in Seq(Flight)
  BY Zenon DEF TypeOK, MemOK
<1>2. f \in Flight
  BY Zenon DEF Flight
<1>3. More(t, a, blk) = Append(outs[t], f)
  BY Zenon DEF More
<1> HIDE DEF f
<1>4. QED
  BY <1>1, <1>2, <1>3, AppendShape, SeqShape, SMTT(20) DEF f

LEMMA MoreCount ==
  ASSUME TypeOK, NEW t \in TREs, NEW a \in Addr, NEW blk \in BOOLEAN, NEW b
  PROVE  Cardinality(Positions(More(t, a, blk), b)) =
           Cardinality(Positions(outs[t], b)) + (IF a = b THEN 1 ELSE 0)
<1> USE Zenon
<1> DEFINE f == [addr |-> a, blk |-> blk]
<1>1. outs[t] \in Seq(Flight)
  BY DEF TypeOK, MemOK
<1>2. f \in Flight /\ f.addr = a
  BY DEF Flight
<1>3. More(t, a, blk) = Append(outs[t], f)
  BY DEF More
<1> HIDE DEF f
<1>4. Cardinality(Positions(Append(outs[t], f), b)) =
        Cardinality(Positions(outs[t], b)) + (IF f.addr = b THEN 1 ELSE 0)
  BY <1>1, <1>2, CountAppend
<1>5. QED
  BY <1>2, <1>3, <1>4, SMTT(20)

(* An access that is issued is answered at once in atomic mode, or is in   *)
(* flight and with the memory or refused.                                  *)
LEMMA IssuePath ==
  ASSUME TypeOK, NEW t \in TREs, NEW cmd, NEW a \in Addr,
         NEW unc, NEW blk \in BOOLEAN, NEW pc,
         Issue(t, cmd, a, unc, blk, pc), sim' = "run" \/ outs'[t] # outs[t]
  PROVE  \/ /\ \E i \in DOMAIN More(t, a, blk) :
                 /\ More(t, a, blk)[i].addr = a
                 /\ outs'[t] = Without(More(t, a, blk), i)
            /\ UNCHANGED <<mem, retryPkt>>
         \/ /\ outs'[t] = More(t, a, blk)
            /\ mem'[t] = Append(mem[t], Pkt(cmd, a, unc, pc))
            /\ UNCHANGED retryPkt
         \/ /\ outs'[t] = More(t, a, blk)
            /\ retryPkt'[t] = Pkt(cmd, a, unc, pc)
            /\ UNCHANGED mem
<1> USE Zenon
<1> DEFINE more == More(t, a, blk)
           pkt  == Pkt(cmd, a, unc, pc)
<1>1. more \in Seq(Flight) /\ \E k \in DOMAIN more : more[k].addr = a
  <2>1. /\ more \in Seq(Flight) /\ DOMAIN more = 1 .. Len(outs[t]) + 1
        /\ more[Len(outs[t]) + 1] = [addr |-> a, blk |-> blk]
        /\ Len(outs[t]) \in Nat
    BY MoreShape
  <2> HIDE DEF more
  <2>2. Len(outs[t]) + 1 \in DOMAIN more
    BY <2>1, SMT
  <2>3. QED
    BY <2>1, <2>2, SMT
<1>2. \/ /\ outs' = [outs EXCEPT ![t] = EraseFirst(more, a)]
         /\ UNCHANGED <<retryPkt, mem>>
      \/ /\ outs' = [outs EXCEPT ![t] = more]
         /\ mem' = [mem EXCEPT ![t] = Append(@, pkt)]
         /\ UNCHANGED retryPkt
      \/ /\ outs' = [outs EXCEPT ![t] = more]
         /\ retryPkt' = [retryPkt EXCEPT ![t] = pkt]
         /\ UNCHANGED mem
  BY DEF Issue, More, Pkt
<1> HIDE DEF more, pkt
<1>3. PICK i \in DOMAIN more :
        more[i].addr = a /\ EraseFirst(more, a) = Without(more, i)
  BY <1>1, EraseFirstIs
<1>4. CASE /\ outs' = [outs EXCEPT ![t] = EraseFirst(more, a)]
           /\ UNCHANGED <<retryPkt, mem>>
  <2>1. outs'[t] = EraseFirst(more, a)
    BY <1>4 DEF TypeOK, MemOK
  <2>2. QED
    BY <1>3, <1>4, <2>1 DEF more
<1>5. CASE /\ outs' = [outs EXCEPT ![t] = more]
           /\ mem' = [mem EXCEPT ![t] = Append(@, pkt)]
           /\ UNCHANGED retryPkt
  <2>1. outs'[t] = more /\ mem'[t] = Append(mem[t], pkt)
    BY <1>5 DEF TypeOK, MemOK
  <2>2. QED
    BY <1>5, <2>1 DEF more, pkt
<1>6. CASE /\ outs' = [outs EXCEPT ![t] = more]
           /\ retryPkt' = [retryPkt EXCEPT ![t] = pkt]
           /\ UNCHANGED mem
  <2>1. outs'[t] = more /\ retryPkt'[t] = pkt
    BY <1>6 DEF TypeOK, MemOK
  <2>2. QED
    BY <1>6, <2>1 DEF more, pkt
<1>7. QED
  BY <1>2, <1>4, <1>5, <1>6

----------------------------------------------------------------------------
(* OutstandingIsUnanswered. *)

(* The requests for a that the memory or retryPkt holds. *)
Refused(t, a) == IF retryPkt[t] # NULL /\ retryPkt[t].addr = a THEN 1 ELSE 0
Agrees(t) ==
  \A a \in Addr : Cardinality(Positions(outs[t], a))
                    = Cardinality(Positions(mem[t], a)) + Refused(t, a)

LEMMA IssueAgrees ==
  ASSUME TypeOK, NEW t \in TREs, NEW cmd \in Accesses, NEW a \in Addr,
         NEW unc \in BOOLEAN, NEW blk \in BOOLEAN, NEW pc \in Nat \cup {NoPC},
         Issue(t, cmd, a, unc, blk, pc), sim' = "run", retryPkt[t] = NULL,
         Agrees(t)
  PROVE  Agrees(t)'
<1> DEFINE more == More(t, a, blk)
           pkt  == Pkt(cmd, a, unc, pc)
<1>1. \/ /\ \E i \in DOMAIN more : more[i].addr = a /\ outs'[t] = Without(more, i)
         /\ UNCHANGED <<mem, retryPkt>>
      \/ /\ outs'[t] = more /\ mem'[t] = Append(mem[t], pkt)
         /\ UNCHANGED retryPkt
      \/ /\ outs'[t] = more /\ retryPkt'[t] = pkt
         /\ UNCHANGED mem
  BY IssuePath, SMTT(20)
<1>2. pkt \in Packet /\ pkt.addr = a /\ pkt # NULL
  BY NullAssumption DEF Pkt, Packet
<1>3. more \in Seq(Flight) /\ mem[t] \in Seq(Packet)
  BY MoreShape, Zenon DEF TypeOK, MemOK
<1> SUFFICES ASSUME NEW b \in Addr
             PROVE  Cardinality(Positions(outs'[t], b))
                      = Cardinality(Positions(mem'[t], b)) + Refused(t, b)'
  BY Zenon DEF Agrees, Positions
<1>4. /\ Cardinality(Positions(outs[t], b)) = Cardinality(Positions(mem[t], b))
      /\ Cardinality(Positions(mem[t], b)) \in Nat
  <2>1. Cardinality(Positions(mem[t], b)) \in Nat
    BY <1>3, PositionsFinite, Zenon
  <2>2. QED
    BY <2>1 DEF Agrees, Refused
<1>5. Cardinality(Positions(more, b)) =
        Cardinality(Positions(outs[t], b)) + (IF a = b THEN 1 ELSE 0)
  BY MoreCount
<1> HIDE DEF more, pkt
<1>6. Cardinality(Positions(Append(mem[t], pkt), b)) =
        Cardinality(Positions(mem[t], b)) + (IF a = b THEN 1 ELSE 0)
  <2>1. Cardinality(Positions(Append(mem[t], pkt), b)) =
          Cardinality(Positions(mem[t], b)) + (IF pkt.addr = b THEN 1 ELSE 0)
    BY <1>2, <1>3, CountAppend, Zenon
  <2>2. QED
    BY <1>2, <2>1
<1>7. ASSUME NEW i \in DOMAIN more, more[i].addr = a, outs'[t] = Without(more, i),
             UNCHANGED <<mem, retryPkt>>
      PROVE  Cardinality(Positions(outs'[t], b))
               = Cardinality(Positions(mem'[t], b)) + Refused(t, b)'
  <2>1. Cardinality(Positions(Without(more, i), b)) =
          Cardinality(Positions(more, b)) - (IF more[i].addr = b THEN 1 ELSE 0)
    BY <1>3, <1>7, CountWithout, Zenon
  <2>2. QED
    BY <1>4, <1>5, <1>7, <2>1, SMTT(20) DEF Refused
<1>8. CASE outs'[t] = more /\ mem'[t] = Append(mem[t], pkt) /\ UNCHANGED retryPkt
  BY <1>4, <1>5, <1>6, <1>8, SMTT(20) DEF Refused
<1>9. CASE outs'[t] = more /\ retryPkt'[t] = pkt /\ UNCHANGED mem
  BY <1>2, <1>4, <1>5, <1>9, SMTT(20) DEF Refused
<1>10. QED
  BY <1>1, <1>7, <1>8, <1>9, Zenon

(* What tick() issues is an access. *)
LEMMA EntryRead ==
  ASSUME TypeOK, NEW t \in TREs, NEW S, Reads(t, S)
  PROVE  LET e == Current(t)
         IN  /\ e.op \in S /\ e.addr \in Addr /\ e.val \in Nat
             /\ e.unc \in BOOLEAN /\ e.blk \in BOOLEAN
             /\ e.pc \in Nat \cup {NoPC} /\ e.deps \subseteq Addr
<1>1. Current(t) \in Entry /\ Current(t).op \in S
  BY DEF Reads, Current, TypeOK, ReplayOK
<1>2. QED
  BY <1>1 DEF Entry

LEMMA PacketSaved ==
  ASSUME TypeOK, NEW t \in TREs
  PROVE  LET b == bpkt[t]
         IN  /\ b.cmd \in Accesses \cup {"STALL"} /\ b.addr \in Addr
             /\ b.unc \in BOOLEAN /\ b.blk \in BOOLEAN
BY Zenon DEF TypeOK, MemOK, BlockedPkt

LEMMA AgreesStep ==
  ASSUME TypeOK, [Next]_vars, ~LossyMemory, sim' = "run", NEW t \in TREs, Agrees(t)
  PROVE  Agrees(t)'
<1> USE Zenon
<1>1. ASSUME outs'[t] = outs[t], mem'[t] = mem[t], retryPkt'[t] = retryPkt[t]
      PROVE  Agrees(t)'
  <2>1. \A b : Refused(t, b)' = Refused(t, b)
    BY <1>1 DEF Refused
  <2>2. \A b : /\ Positions(outs'[t], b) = Positions(outs[t], b)
              /\ Positions(mem'[t], b) = Positions(mem[t], b)
    BY <1>1
  <2>3. QED
    BY <2>1, <2>2 DEF Agrees, Positions
<1>2. CASE Stays(t) \/ Passes(t)
  BY <1>1, <1>2 DEF Stays, Passes, PathSame
<1>3. CASE TickUnblocked(t)
  <2> DEFINE b == bpkt[t]
  <2>1. CASE UNCHANGED <<outs, retryPkt, mem>>
    BY <1>1, <2>1
  <2>2. CASE b.cmd # "STALL" /\ Issue(t, b.cmd, b.addr, b.unc, b.blk, NoPC)
    <3>1. /\ b.cmd \in Accesses /\ b.addr \in Addr
          /\ b.unc \in BOOLEAN /\ b.blk \in BOOLEAN
      BY <2>2, PacketSaved
    <3>2. retryPkt[t] = NULL
      BY <1>3 DEF TickUnblocked, Ticks
    <3>3. QED
      BY <2>2, <3>1, <3>2, IssueAgrees
  <2>3. QED
    BY <1>3, <2>1, <2>2 DEF TickUnblocked
<1>4. CASE TickAccess(t)
  <2> DEFINE e == Current(t)
  <2>1. CASE UNCHANGED <<outs, retryPkt, mem>>
    BY <1>1, <2>1
  <2>2. CASE Issue(t, e.op, e.addr, e.unc, e.blk, e.pc)
    <3>1. Reads(t, Accesses)
      BY <1>4 DEF TickAccess
    <3>2. /\ e.op \in Accesses /\ e.addr \in Addr /\ e.pc \in Nat \cup {NoPC}
          /\ e.unc \in BOOLEAN /\ e.blk \in BOOLEAN
      BY <3>1, EntryRead
    <3>3. retryPkt[t] = NULL
      BY <3>1 DEF Reads, Ticks
    <3>4. QED
      BY <2>2, <3>2, <3>3, IssueAgrees
  <2>3. QED
    BY <1>4, <2>1, <2>2 DEF TickAccess
<1>5. CASE TickStall(t)
  BY <1>1, <1>5 DEF TickStall
<1>6. CASE recvRetry(t)
  <2> DEFINE p == retryPkt[t]
  <2>1. p \in Packet /\ p # NULL /\ mem[t] \in Seq(Packet)
    BY <1>6 DEF recvRetry, TypeOK, MemOK
  <2>2. /\ outs'[t] = outs[t] /\ mem'[t] = Append(mem[t], p) /\ retryPkt'[t] = NULL
    BY <1>6 DEF recvRetry, TypeOK, MemOK
  <2> SUFFICES ASSUME NEW b \in Addr
               PROVE  Cardinality(Positions(outs'[t], b))
                        = Cardinality(Positions(mem'[t], b)) + Refused(t, b)'
    BY DEF Agrees, Positions
  <2>3. Cardinality(Positions(mem[t], b)) \in Nat
    BY <2>1, PositionsFinite
  <2>4. Cardinality(Positions(outs[t], b))
          = Cardinality(Positions(mem[t], b)) + (IF p.addr = b THEN 1 ELSE 0)
    BY <2>1, SMT DEF Agrees, Refused
  <2>5. Cardinality(Positions(Append(mem[t], p), b)) =
          Cardinality(Positions(mem[t], b)) + (IF p.addr = b THEN 1 ELSE 0)
    BY <2>1, CountAppend
  <2>6. Refused(t, b)' = 0
    BY <2>2, SMTT(20) DEF Refused
  <2>7. QED
    BY <2>2, <2>3, <2>4, <2>5, <2>6, SMTT(20)
<1>7. ASSUME NEW k \in DOMAIN mem[t], completeRequest(t, k)
      PROVE  Agrees(t)'
  <2> DEFINE a == mem[t][k].addr
  <2>1. /\ InFlight(t, a) /\ outs' = [outs EXCEPT ![t] = EraseFirst(@, a)]
        /\ mem' = [mem EXCEPT ![t] = Without(@, k)] /\ retryPkt' = retryPkt
    BY <1>7 DEF completeRequest
  <2>2. outs[t] \in Seq(Flight) /\ mem[t] \in Seq(Packet)
    BY DEF TypeOK, MemOK
  <2>3. PICK i \in DOMAIN outs[t] :
          outs[t][i].addr = a /\ EraseFirst(outs[t], a) = Without(outs[t], i)
    BY <2>1, <2>2, EraseFirstIs DEF InFlight
  <2>4. outs'[t] = Without(outs[t], i) /\ mem'[t] = Without(mem[t], k)
    BY <2>1, <2>3 DEF TypeOK, MemOK
  <2> SUFFICES ASSUME NEW b \in Addr
               PROVE  Cardinality(Positions(outs'[t], b))
                        = Cardinality(Positions(mem'[t], b)) + Refused(t, b)'
    BY DEF Agrees, Positions
  <2>5. Cardinality(Positions(outs[t], b)) \in Nat
        /\ Cardinality(Positions(mem[t], b)) \in Nat
    BY <2>2, PositionsFinite
  <2>6. Cardinality(Positions(Without(outs[t], i), b)) =
          Cardinality(Positions(outs[t], b)) - (IF outs[t][i].addr = b THEN 1 ELSE 0)
    BY <2>2, CountWithout
  <2>7. Cardinality(Positions(Without(mem[t], k), b)) =
          Cardinality(Positions(mem[t], b)) - (IF mem[t][k].addr = b THEN 1 ELSE 0)
    BY <2>2, CountWithout
  <2>8. Cardinality(Positions(outs[t], b))
          = Cardinality(Positions(mem[t], b)) + Refused(t, b)
    BY DEF Agrees
  <2>9. Refused(t, b)' = Refused(t, b) /\ Refused(t, b) \in Nat
    BY <2>1, SMT DEF Refused
  <2>10. QED
    BY <2>3, <2>4, <2>5, <2>6, <2>7, <2>8, <2>9, SMTT(20)
<1>8. ASSUME NEW k \in DOMAIN mem[t], loseRequest(t, k)
      PROVE  FALSE
  BY <1>8 DEF loseRequest
<1>9. QED
  BY <1>2, <1>3, <1>4, <1>5, <1>6, <1>7, <1>8, PathSteps, SMTT(20)

(* Once the simulation has ended nothing happens. *)
LEMMA EndedStays ==
  ASSUME [Next]_vars, sim # "run"
  PROVE  UNCHANGED vars
<1> USE Zenon
<1>1. ASSUME NEW t \in TREs, TickEvent(t)
      PROVE  sim = "run"
  BY <1>1 DEF TickEvent, TickInRetry, TickStillBlocked, TickUnblocked,
         TickAccess, TickStall, TickPerform, TickDefer, halt, TickInvalid, Reads, Ticks
<1>2. ASSUME NEW t \in TREs, \E op \in Prims : PrimEvent(t, op)
      PROVE  sim = "run"
  BY <1>2 DEF PrimEvent
<1>3. ASSUME NEW t \in TREs, Port(t) \/ Watchdog(t)
      PROVE  sim = "run"
  BY <1>3 DEF Port, Respond, completeRequest, accessFailed, recvRetry,
         loseRequest, Watchdog, noRequest, noResponse
<1>4. QED
  BY <1>1, <1>2, <1>3 DEF Next, Stopped, Run

LEMMA StillRuns ==
  ASSUME [Next]_vars, sim' = "run" \/ sim' # sim
  PROVE  sim = "run"
BY EndedStays, Zenon DEF vars

(* A response is unsolicited only if its address is not in flight. *)
LEMMA Unsolicited ==
  ASSUME [Next]_vars, sim # "fatal: unsolicited", sim' = "fatal: unsolicited"
  PROVE  \E t \in TREs : \E k \in DOMAIN mem[t] : ~InFlight(t, mem[t][k].addr)
<1> USE Zenon
<1>1. CASE UNCHANGED vars
  BY <1>1 DEF vars
<1>2. ASSUME NEW t \in TREs, TickEvent(t)
      PROVE  FALSE
  <2>1. ASSUME NEW es, Reserve(t, "tick", es) \/ Resume(t, "tick", es) \/ Rest(t, "tick")
        PROVE  FALSE
    BY <2>1 DEF Reserve, Resume, Rest
  <2>2. ASSUME NEW cmd, NEW a, NEW unc, NEW blk, NEW pc, Issue(t, cmd, a, unc, blk, pc)
        PROVE  FALSE
    BY <2>1, <2>2 DEF Issue
  <2>3. CASE TickInRetry(t) \/ TickInvalid(t) \/ TickStillBlocked(t)
    BY <2>1, <2>3 DEF TickInRetry, TickInvalid, TickStillBlocked, Abort
  <2>4. CASE TickUnblocked(t)
    BY <2>1, <2>2, <2>4 DEF TickUnblocked
  <2>5. CASE TickAccess(t)
    BY <2>2, <2>5 DEF TickAccess
  <2>6. CASE TickStall(t)
    BY <2>1, <2>6 DEF TickStall
  <2>7. CASE TickPerform(t)
    BY <2>7, PerformMoves DEF TickPerform, Reads, Ticks
  <2>8. CASE TickDefer(t) \/ halt(t)
    BY <2>1, <2>8 DEF TickDefer, halt
  <2>9. QED
    BY <1>2, <2>3, <2>4, <2>5, <2>6, <2>7, <2>8 DEF TickEvent
<1>3. ASSUME NEW t \in TREs, NEW op \in Prims, PrimEvent(t, op)
      PROVE  FALSE
  BY <1>3, PerformMoves DEF PrimEvent
<1>4. ASSUME NEW t \in TREs, Watchdog(t) \/ recvRetry(t)
      PROVE  FALSE
  BY <1>4 DEF Watchdog, noRequest, noResponse, Abort, recvRetry, Reserve
<1>5. ASSUME NEW t \in TREs, NEW k \in DOMAIN mem[t],
             accessFailed(t, k) \/ loseRequest(t, k)
      PROVE  FALSE
  BY <1>5 DEF accessFailed, loseRequest, Abort
<1>6. ASSUME NEW t \in TREs, NEW k \in DOMAIN mem[t], completeRequest(t, k)
      PROVE  ~InFlight(t, mem[t][k].addr)
  BY <1>6 DEF completeRequest, ShiftTimeout
<1>7. QED
  BY <1>1, <1>2, <1>3, <1>4, <1>5, <1>6 DEF Next, Stopped, Run, Port, Respond

LEMMA SumIsZero == \A c, r \in Nat : 0 = c + r => c = 0
OBVIOUS

LEMMA OutstandingStep ==
  ASSUME TypeOK, OutstandingIsUnanswered, [Next]_vars, ~LossyMemory
  PROVE  OutstandingIsUnanswered'
<1> USE Zenon
<1>1. sim = "run" => \A t \in TREs : Agrees(t)
  BY DEF OutstandingIsUnanswered, Agrees, Positions, Refused
<1>2. sim' = "run" => \A t \in TREs : Agrees(t)'
  BY <1>1, AgreesStep, StillRuns
<1>3. sim' # "fatal: unsolicited"
  <2> SUFFICES ASSUME sim' = "fatal: unsolicited" PROVE FALSE
    OBVIOUS
  <2>1. sim # "fatal: unsolicited"
    BY DEF OutstandingIsUnanswered
  <2>2. PICK t \in TREs : \E k \in DOMAIN mem[t] : ~InFlight(t, mem[t][k].addr)
    BY <2>1, Unsolicited
  <2>3. PICK k \in DOMAIN mem[t] : ~InFlight(t, mem[t][k].addr)
    BY <2>2
  <2> DEFINE a == mem[t][k].addr
  <2>4. sim = "run"
    BY <2>1, StillRuns
  <2>5. outs[t] \in Seq(Flight) /\ mem[t] \in Seq(Packet)
    BY DEF TypeOK, MemOK
  <2>6. a \in Addr
    <3>1. k \in 1 .. Len(mem[t])
      BY <2>3, <2>5, SeqShape
    <3>2. mem[t][k] \in Packet
      BY <2>5, <3>1, SeqShape
    <3>3. QED
      BY <3>2 DEF Packet
  <2> HIDE DEF a
  <2>7. Positions(outs[t], a) = {}
    BY <2>3 DEF InFlight, Positions, a
  <2>8. Cardinality(Positions(outs[t], a)) = 0
    BY <2>7, FS_EmptySet
  <2>9. Cardinality(Positions(mem[t], a)) # 0 /\ Cardinality(Positions(mem[t], a)) \in Nat
    <3>1. k \in Positions(mem[t], a)
      BY <2>3 DEF Positions, a
    <3>2. QED
      BY <2>5, <3>1, PositionsFinite
  <2>10. Refused(t, a) \in Nat
    BY DEF Refused
  <2>11. Cardinality(Positions(outs[t], a))
           = Cardinality(Positions(mem[t], a)) + Refused(t, a)
    BY <1>1, <2>4, <2>6 DEF Agrees
  <2>12. QED
    BY <2>8, <2>9, <2>10, <2>11, SumIsZero
<1>4. QED
  BY <1>2, <1>3 DEF OutstandingIsUnanswered, Agrees, Positions, Refused

----------------------------------------------------------------------------
(* PathKept. *)

PathInv(t) == LastBlocks(t) /\ BlockedIsSaved(t) /\ StallIsOver(t)

(* Only the last access in flight blocks. *)
OnlyLastBlocks(s) == \A k \in DOMAIN s : s[k].blk => k = Len(s)

LEMMA WithoutBlocks ==
  ASSUME NEW s \in Seq(Flight), NEW i \in DOMAIN s
  PROVE  /\ OnlyLastBlocks(s) => OnlyLastBlocks(Without(s, i))
         /\ \A j \in DOMAIN Without(s, i) : \E k \in DOMAIN s : Without(s, i)[j] = s[k]
<1>1. DOMAIN s = 1 .. Len(s) /\ Len(s) \in Nat /\ i \in 1 .. Len(s)
  BY SeqShape
<1>2. /\ DOMAIN Without(s, i) = 1 .. Len(s) - 1
      /\ Len(Without(s, i)) = Len(s) - 1
      /\ \A j \in 1 .. Len(s) - 1 :
           Without(s, i)[j] = IF j < i THEN s[j] ELSE s[j + 1]
  <2>1. Without(s, i) \in Seq(Flight) /\ Len(Without(s, i)) = Len(s) - 1
    BY WithoutSeq
  <2>2. QED
    BY <2>1, SeqShape, WithoutSeq, Zenon
<1>3. ASSUME NEW j \in DOMAIN Without(s, i)
      PROVE  /\ \E k \in DOMAIN s : Without(s, i)[j] = s[k]
             /\ OnlyLastBlocks(s) /\ Without(s, i)[j].blk => j = Len(s) - 1
  <2>1. j \in 1 .. Len(s) - 1 /\ j \in DOMAIN s /\ j + 1 \in DOMAIN s
    BY <1>1, <1>2, <1>3
  <2>2. CASE j < i
    <3>1. Without(s, i)[j] = s[j] /\ j # Len(s)
      BY <1>1, <1>2, <2>1, <2>2, SMTT(20)
    <3>2. QED
      BY <2>1, <3>1 DEF OnlyLastBlocks
  <2>3. CASE ~(j < i)
    <3>1. Without(s, i)[j] = s[j + 1] /\ (j + 1 = Len(s) => j = Len(s) - 1)
      BY <1>1, <1>2, <2>1, <2>3, SMTT(20)
    <3>2. QED
      BY <2>1, <3>1 DEF OnlyLastBlocks
  <2>4. QED
    BY <2>2, <2>3
<1>4. QED
  BY <1>2, <1>3 DEF OnlyLastBlocks

LEMMA MoreBlocks ==
  ASSUME TypeOK, NEW t \in TREs, NEW a \in Addr, NEW blk \in BOOLEAN,
         \A k \in DOMAIN outs[t] : ~outs[t][k].blk
  PROVE  OnlyLastBlocks(More(t, a, blk))
<1> DEFINE m == More(t, a, blk)
           n == Len(outs[t])
<1>1. /\ n \in Nat /\ DOMAIN outs[t] = 1 .. n /\ Len(m) = n + 1
      /\ DOMAIN m = 1 .. n + 1 /\ \A k \in DOMAIN outs[t] : m[k] = outs[t][k]
  BY MoreShape, Zenon
<1> HIDE DEF m, n
<1>2. \A k \in DOMAIN m : k # Len(m) => k \in DOMAIN outs[t]
  BY <1>1
<1>3. QED
  BY <1>1, <1>2 DEF OnlyLastBlocks, m

(* tick() finds everything that an entry has to wait for. *)
LEMMA ConflictsFound ==
  ASSUME TypeOK, NEW t \in TREs, LastBlocks(t), NEW e, NEW k \in DOMAIN outs[t],
         Conflicts(t, k, e)
  PROVE  outs[t][k].addr \in blkingAccAddrInFlight(t) \cup Unreturned(t, e.deps)
<1>1. CASE outs[t][k].addr \in e.deps
  BY <1>1, Zenon DEF Unreturned, InFlight
<1>2. CASE outs[t][k].blk
  <2>1. k = Len(outs[t]) /\ DOMAIN outs[t] = 1 .. Len(outs[t]) /\ Len(outs[t]) \in Nat
    BY <1>2, SeqShape, SMTT(20) DEF LastBlocks, TypeOK, MemOK
  <2>2. \A j \in 1 .. k - 1 : j \in DOMAIN outs[t] /\ j # Len(outs[t])
    BY <2>1
  <2>3. \A j \in 1 .. k - 1 : ~outs[t][j].blk
    BY <2>2, Zenon DEF LastBlocks
  <2>4. QED
    BY <1>2, <2>3, Zenon DEF blkingAccAddrInFlight
<1>3. QED
  BY <1>1, <1>2, Zenon DEF Conflicts

(* What is in flight after an access that nothing in flight is in the way. *)
LEMMA IssueBlocks ==
  ASSUME TypeOK, NEW t \in TREs, NEW cmd, NEW a \in Addr,
         NEW unc, NEW blk \in BOOLEAN, NEW pc,
         Issue(t, cmd, a, unc, blk, pc), sim' = "run",
         \A k \in DOMAIN outs[t] : ~outs[t][k].blk
  PROVE  LastBlocks(t)'
<1> DEFINE m == More(t, a, blk)
<1>1. OnlyLastBlocks(m)
  BY MoreBlocks
<1>2. m \in Seq(Flight)
  BY MoreShape, Zenon
<1>3. outs'[t] = m \/ \E i \in DOMAIN m : outs'[t] = Without(m, i)
  BY IssuePath, SMTT(20)
<1> HIDE DEF m
<1>4. OnlyLastBlocks(outs'[t])
  BY <1>1, <1>2, <1>3, WithoutBlocks, SMTT(20)
<1>5. QED
  BY <1>4, Zenon DEF OnlyLastBlocks, LastBlocks

(* Nothing that blockedPkt has to wait for is in flight when tick() sends  *)
(* it or ends its stall.                                                   *)
LEMMA UnblockedFree ==
  ASSUME NEW t \in TREs, PathInv(t), TickUnblocked(t), NEW k \in DOMAIN outs[t]
  PROVE  ~Conflicts(t, k, LastRead(t))
<1> USE Zenon
<1>1. t \in blocked /\ \A a \in bpkt[t].deps : ~InFlight(t, a)
  BY DEF TickUnblocked
<1>2. Conflicts(t, k, LastRead(t)) => outs[t][k].addr \in bpkt[t].deps
  BY <1>1 DEF PathInv, BlockedIsSaved
<1>3. QED
  BY <1>1, <1>2 DEF InFlight

LEMMA UnblockedPath ==
  ASSUME TypeOK, NEW t \in TREs, PathInv(t), TickUnblocked(t), sim' = "run"
  PROVE  PathInv(t)'
<1> USE Zenon
<1> DEFINE b == bpkt[t]
<1>1. /\ t \in blocked /\ t \notin blocked' /\ bpkt'[t].deps = {}
      /\ UNCHANGED <<trace, pos, last>>
  BY DEF TickUnblocked, TypeOK, MemOK, BlockedPkt
<1>2. BlockedIsSaved(t)'
  BY <1>1 DEF BlockedIsSaved
<1>3. LastRead(t)' = LastRead(t) /\ LastRead(t).op = b.cmd
  BY <1>1 DEF LastRead, PathInv, BlockedIsSaved
<1>4. CASE UNCHANGED outs
  <2>1. LastBlocks(t)'
    BY <1>4 DEF PathInv, LastBlocks
  <2>2. StallIsOver(t)'
    BY <1>3, <1>4, UnblockedFree DEF StallIsOver, Conflicts
  <2>3. QED
    BY <1>2, <2>1, <2>2 DEF PathInv
<1>5. CASE b.cmd # "STALL" /\ Issue(t, b.cmd, b.addr, b.unc, b.blk, NoPC)
  <2>1. b.addr \in Addr /\ b.blk \in BOOLEAN
    BY PacketSaved
  <2>2. \A k \in DOMAIN outs[t] : ~outs[t][k].blk
    BY UnblockedFree DEF Conflicts
  <2>3. LastBlocks(t)'
    BY <1>5, <2>1, <2>2, IssueBlocks, SMTT(20)
  <2>4. StallIsOver(t)'
    BY <1>3, <1>5 DEF StallIsOver, HasRead
  <2>5. QED
    BY <1>2, <2>3, <2>4 DEF PathInv
<1>6. QED
  BY <1>4, <1>5 DEF TickUnblocked

LEMMA AccessPath ==
  ASSUME TypeOK, NEW t \in TREs, PathInv(t), TickAccess(t), sim' = "run"
  PROVE  PathInv(t)'
<1> USE Zenon
<1> DEFINE e == Current(t)
           blk == blkingAccAddrInFlight(t)
           deps == blk \cup Unreturned(t, e.deps)
<1>1. Reads(t, Accesses) /\ Read(t) /\ trace' = trace
  BY DEF TickAccess
<1>2. /\ e.op \in Accesses /\ e.addr \in Addr /\ e.blk \in BOOLEAN
  BY <1>1, EntryRead
<1>3. LastRead(t)' = e /\ last'[t] \in DOMAIN trace'[t]
  BY <1>1 DEF LastRead, Current, Reads, Read, TypeOK, ReplayOK
<1>4. e.op # "STALL"
  BY <1>2 DEF Accesses
<1>5. CASE /\ t \in blocked' /\ UNCHANGED outs
           /\ bpkt' = [bpkt EXCEPT ![t] = Saved(t, e, deps)]
  <2>1. LastBlocks(t)'
    BY <1>5 DEF PathInv, LastBlocks
  <2>2. /\ bpkt'[t].cmd = e.op /\ bpkt'[t].addr = e.addr
        /\ bpkt'[t].unc = e.unc /\ bpkt'[t].blk = e.blk
        /\ bpkt'[t].deps = bpkt[t].deps \cup deps
    BY <1>5 DEF Saved, TypeOK, MemOK
  <2>3. \A k \in DOMAIN outs[t] : Conflicts(t, k, e) => outs[t][k].addr \in deps
    BY ConflictsFound DEF PathInv
  <2>4. \A k \in DOMAIN outs'[t] :
          outs'[t][k].blk \/ outs'[t][k].addr \in e.deps
            => outs'[t][k].addr \in bpkt'[t].deps
    BY <1>5, <2>2, <2>3 DEF Conflicts
  <2>5. BlockedIsSaved(t)'
    BY <1>2, <1>3, <1>5, <2>2, <2>4 DEF BlockedIsSaved, Conflicts
  <2>6. StallIsOver(t)'
    BY <1>5 DEF StallIsOver
  <2>7. QED
    BY <2>1, <2>5, <2>6 DEF PathInv
<1>6. CASE /\ deps = {} /\ Issue(t, e.op, e.addr, e.unc, e.blk, e.pc)
           /\ UNCHANGED <<blocked, bpkt>>
  <2>1. \A k \in DOMAIN outs[t] : ~outs[t][k].blk
    BY <1>6, ConflictsFound DEF PathInv, Conflicts
  <2>2. LastBlocks(t)'
    BY <1>2, <1>6, <2>1, IssueBlocks, SMTT(20)
  <2>3. BlockedIsSaved(t)'
    BY <1>1, <1>6 DEF PathInv, BlockedIsSaved, Reads
  <2>4. StallIsOver(t)'
    BY <1>3, <1>4 DEF StallIsOver, HasRead
  <2>5. QED
    BY <2>2, <2>3, <2>4 DEF PathInv
<1>7. QED
  BY <1>5, <1>6 DEF TickAccess

LEMMA StallPath ==
  ASSUME TypeOK, NEW t \in TREs, PathInv(t), TickStall(t)
  PROVE  PathInv(t)'
<1> USE Zenon
<1> DEFINE e == Current(t)
           blk == blkingAccAddrInFlight(t)
           deps == blk \cup Unreturned(t, e.deps)
<1>1. Reads(t, {"STALL"}) /\ Read(t) /\ UNCHANGED <<trace, outs>>
  BY DEF TickStall
<1>2. LastRead(t)' = e /\ last'[t] \in DOMAIN trace'[t] /\ e.op = "STALL"
  BY <1>1 DEF LastRead, Current, Reads, Read, TypeOK, ReplayOK
<1>3. \A k \in DOMAIN outs[t] : Conflicts(t, k, e) => outs[t][k].addr \in deps
  BY ConflictsFound DEF PathInv
<1>4. LastBlocks(t)'
  BY <1>1 DEF PathInv, LastBlocks
<1>5. CASE /\ blk = {} /\ Unreturned(t, e.deps) = {}
           /\ UNCHANGED <<blocked, bpkt>>
  <2>1. \A k \in DOMAIN outs'[t] : ~(outs'[t][k].blk \/ outs'[t][k].addr \in e.deps)
    BY <1>1, <1>3, <1>5 DEF Conflicts
  <2>2. StallIsOver(t)'
    BY <1>2, <2>1 DEF StallIsOver, Conflicts
  <2>3. BlockedIsSaved(t)'
    BY <1>1, <1>5 DEF PathInv, BlockedIsSaved, Reads
  <2>4. QED
    BY <1>4, <2>2, <2>3 DEF PathInv
<1>6. CASE /\ t \in blocked'
           /\ bpkt'[t].cmd = "STALL" /\ deps \subseteq bpkt'[t].deps
  <2>1. \A k \in DOMAIN outs'[t] :
          outs'[t][k].blk \/ outs'[t][k].addr \in e.deps
            => outs'[t][k].addr \in bpkt'[t].deps
    BY <1>1, <1>3, <1>6 DEF Conflicts
  <2>2. BlockedIsSaved(t)'
    BY <1>2, <1>6, <2>1 DEF BlockedIsSaved, Conflicts
  <2>3. StallIsOver(t)'
    BY <1>6 DEF StallIsOver
  <2>4. QED
    BY <1>4, <2>2, <2>3 DEF PathInv
<1>7. CASE /\ blocked' = blocked \cup {t}
           /\ bpkt' = [bpkt EXCEPT ![t] =
                [addr |-> @.addr, cmd |-> "STALL", data |-> e.val, unc |-> @.unc,
                 blk |-> e.blk,
                 deps |-> (bpkt[t].deps \cup Unreturned(t, e.deps)) \cup blk]]
  BY <1>6, <1>7 DEF TypeOK, MemOK
<1>8. QED
  BY <1>5, <1>7 DEF TickStall

(* A response takes an access out of flight. *)
LEMMA ResponsePath ==
  ASSUME TypeOK, NEW t \in TREs, PathInv(t), NEW k \in DOMAIN mem[t],
         completeRequest(t, k), sim' = "run"
  PROVE  PathInv(t)'
<1> USE Zenon
<1> DEFINE a == mem[t][k].addr
<1>1. /\ InFlight(t, a) /\ outs' = [outs EXCEPT ![t] = EraseFirst(@, a)]
      /\ UNCHANGED <<trace, pos, last, blocked, bpkt>>
  BY DEF completeRequest
<1>2. outs[t] \in Seq(Flight)
  BY DEF TypeOK, MemOK
<1>3. PICK i \in DOMAIN outs[t] : EraseFirst(outs[t], a) = Without(outs[t], i)
  BY <1>1, <1>2, EraseFirstIs DEF InFlight
<1>4. outs'[t] = Without(outs[t], i)
  BY <1>1, <1>3 DEF TypeOK, MemOK
<1>5. /\ OnlyLastBlocks(outs'[t])
      /\ \A j \in DOMAIN outs'[t] : \E n \in DOMAIN outs[t] : outs'[t][j] = outs[t][n]
  <2>1. OnlyLastBlocks(outs[t])
    BY DEF PathInv, LastBlocks, OnlyLastBlocks
  <2>2. QED
    BY <1>2, <1>4, <2>1, WithoutBlocks, SMTT(20)
<1>6. LastBlocks(t)'
  BY <1>5 DEF LastBlocks, OnlyLastBlocks
<1>7. LastRead(t)' = LastRead(t) /\ (HasRead(t, {"STALL"})' <=> HasRead(t, {"STALL"}))
  BY <1>1 DEF LastRead, HasRead
<1>8. BlockedIsSaved(t)'
  BY <1>1, <1>5, <1>7 DEF PathInv, BlockedIsSaved, Conflicts
<1>9. StallIsOver(t)'
  BY <1>1, <1>5, <1>7 DEF PathInv, StallIsOver, Conflicts
<1>10. QED
  BY <1>6, <1>8, <1>9 DEF PathInv

(* Every step keeps what tick() knows of the memory path of a TRE. *)
LEMMA PathInvStep ==
  ASSUME TypeOK, [Next]_vars, sim' = "run", NEW t \in TREs, PathInv(t)
  PROVE  PathInv(t)'
<1> USE Zenon
<1>1. ASSUME PathSame(t), HasRead(t, {"STALL"})' => HasRead(t, {"STALL"}),
             t \in blocked \/ HasRead(t, {"STALL"}) => last'[t] = last[t]
      PROVE  PathInv(t)'
  <2>1. LastBlocks(t)'
    BY <1>1 DEF PathSame, PathInv, LastBlocks
  <2>2. last'[t] = last[t] => LastRead(t)' = LastRead(t)
    BY <1>1 DEF PathSame, LastRead
  <2>3. BlockedIsSaved(t)'
    <3>1. CASE t \notin blocked
      BY <1>1, <3>1 DEF PathSame, PathInv, BlockedIsSaved
    <3>2. CASE t \in blocked
      <4>1. LastRead(t)' = LastRead(t) /\ last'[t] = last[t]
        BY <1>1, <2>2, <3>2
      <4>2. QED
        BY <1>1, <3>2, <4>1 DEF PathSame, PathInv, BlockedIsSaved, Conflicts
    <3>3. QED
      BY <3>1, <3>2
  <2>4. StallIsOver(t)'
    BY <1>1, <2>2 DEF PathSame, PathInv, StallIsOver, Conflicts
  <2>5. QED
    BY <2>1, <2>3, <2>4 DEF PathInv
<1>2. CASE Stays(t)
  <2>1. PathSame(t) /\ last'[t] = last[t] /\ pos'[t] \in {pos[t], last[t]}
    BY <1>2 DEF Stays
  <2>2. last[t] \in Nat
    BY DEF TypeOK, ReplayOK
  <2>3. HasRead(t, {"STALL"})' => HasRead(t, {"STALL"})
    BY <2>1, <2>2, SMT DEF HasRead, LastRead, PathSame
  <2>4. QED
    BY <1>1, <2>1, <2>3
<1>3. CASE Passes(t)
  <2>1. PathSame(t) /\ Reads(t, Prims \cup {"EOF"}) /\ last'[t] = pos[t]
    BY <1>3 DEF Passes
  <2>2. t \notin blocked /\ Current(t).op # "STALL"
    BY <2>1 DEF Reads, Prims, Mutexes, Barriers, Stats
  <2>3. ~HasRead(t, {"STALL"})'
    BY <2>1, <2>2 DEF HasRead, LastRead, Current, PathSame
  <2>4. LastBlocks(t)' /\ BlockedIsSaved(t)'
    BY <2>1, <2>2 DEF PathSame, PathInv, LastBlocks, BlockedIsSaved
  <2>5. QED
    BY <2>3, <2>4 DEF PathInv, StallIsOver
<1>4. CASE recvRetry(t) \/ \E k \in DOMAIN mem[t] : loseRequest(t, k)
  BY <1>4 DEF recvRetry, loseRequest, PathInv, LastBlocks, BlockedIsSaved,
         StallIsOver, HasRead, LastRead, Conflicts
<1>5. QED
  BY <1>2, <1>3, <1>4, PathSteps, UnblockedPath, AccessPath, StallPath, ResponsePath, SMTT(20)

(* Whoever is woken when, only the last access in flight may be one that   *)
(* blocks, blockedPkt holds the last entry read and all that it has to     *)
(* wait for, and a stall that is over has nothing to wait for.             *)
THEOREM PathIsKept == Spec => []PathKept
<1> USE Zenon
<1>1. Init => PathKept
  <2> SUFFICES ASSUME Init, NEW t \in TREs PROVE PathInv(t)
    BY DEF PathKept, PathInv
  <2>1. outs[t] = << >> /\ t \notin blocked /\ bpkt[t].deps = {}
    BY DEF Init
  <2>2. DOMAIN outs[t] = {}
    BY <2>1, SMT
  <2>3. QED
    BY <2>1, <2>2 DEF PathInv, LastBlocks, BlockedIsSaved, StallIsOver
<1>2. TypeOK /\ PathKept /\ [Next]_vars => PathKept'
  <2> SUFFICES ASSUME TypeOK, PathKept, [Next]_vars, sim' = "run", NEW t \in TREs
               PROVE  PathInv(t)'
    BY DEF PathKept, PathInv
  <2>1. PathInv(t)
    BY StillRuns DEF PathKept, PathInv
  <2>2. QED
    BY <2>1, PathInvStep
<1>3. QED
  BY <1>1, <1>2, TypeCorrect, PTL DEF Spec

(* With a memory that answers every request, outstandingAddrs holds for    *)
(* each address as many entries as there are requests for it with the      *)
(* memory or in retryPkt, so completeRequest() never meets an unsolicited  *)
(* response; and a stall ends only when all it waits for has returned.     *)
THEOREM InFlightAgree == ASSUME ~LossyMemory PROVE Spec => []InFlightAgrees
<1>1. Init => OutstandingIsUnanswered
  <2> SUFFICES ASSUME Init, NEW t \in TREs
               PROVE  Agrees(t)
    BY Zenon DEF Init, OutstandingIsUnanswered, Agrees, Positions, Refused
  <2>1. outs[t] = << >> /\ mem[t] = << >> /\ retryPkt[t] = NULL
    BY Zenon DEF Init
  <2>2. \A b : Positions(<< >>, b) = {}
    BY DEF Positions
  <2>3. Cardinality({}) = 0
    BY FS_EmptySet
  <2>4. \A b : Refused(t, b) = 0
    BY <2>1 DEF Refused
  <2>5. \A b : /\ Cardinality(Positions(outs[t], b)) = 0
              /\ Cardinality(Positions(mem[t], b)) = 0
    BY <2>1, <2>2, <2>3, Zenon
  <2>6. 0 = 0 + 0
    OBVIOUS
  <2>7. QED
    BY <2>4, <2>5, <2>6, Zenon DEF Agrees
<1>2. TypeOK /\ OutstandingIsUnanswered /\ [Next]_vars => OutstandingIsUnanswered'
  BY OutstandingStep, Zenon
<1>3. PathKept => StallWaits
  BY Zenon DEF PathKept, StallIsOver, StallWaits, Conflicts
<1>4. QED
  BY <1>1, <1>2, <1>3, TypeCorrect, PathIsKept, PTL DEF Spec, InFlightAgrees

----------------------------------------------------------------------------
(* What is sent, and when. *)

(* Issue puts an access in flight and gives its packet to the port. *)
LEMMA IssueSends ==
  ASSUME TypeOK, NEW t \in TREs, NEW cmd, NEW a, NEW unc, NEW blk, NEW pc,
         a \in Addr, blk \in BOOLEAN, Pkt(cmd, a, unc, pc) \in Packet,
         Issue(t, cmd, a, unc, blk, pc), Sends(t), retryPkt[t] = NULL
  PROVE  /\ outs'[t] = Append(outs[t], [addr |-> a, blk |-> blk])
         /\ Sent(t).cmd = cmd /\ Sent(t).addr = a /\ Sent(t).unc = unc
<1> DEFINE m == More(t, a, blk)
           p == Pkt(cmd, a, unc, pc)
<1>1. m \in Seq(Flight) /\ Len(m) = Len(outs[t]) + 1 /\ Len(outs[t]) \in Nat
  BY MoreShape, Zenon
<1>2. p \in Packet /\ p # NULL /\ p.cmd = cmd /\ p.addr = a /\ p.unc = unc
  BY PktFields, NullAssumption, SMTT(20)
<1>3. outs'[t] # outs[t]
  BY <1>1, SMTT(20) DEF Sends
<1>4. \/ \E i \in DOMAIN m : outs'[t] = Without(m, i)
      \/ outs'[t] = m /\ mem'[t] = Append(mem[t], p) /\ UNCHANGED retryPkt
      \/ outs'[t] = m /\ retryPkt'[t] = p
  BY <1>3, IssuePath, SMTT(20)
<1> HIDE DEF m, p
<1>5. ASSUME NEW i \in DOMAIN m, outs'[t] = Without(m, i)
      PROVE  FALSE
  <2>1. Len(Without(m, i)) = Len(m) - 1
    BY <1>1, WithoutSeq
  <2>2. QED
    BY <1>1, <1>5, <2>1, SMTT(20) DEF Sends
<1>6. ASSUME mem'[t] = Append(mem[t], p) /\ UNCHANGED retryPkt
      PROVE  Sent(t) = p
  <2>1. mem[t] \in Seq(Packet)
    BY Zenon DEF TypeOK, MemOK
  <2>2. mem'[t][Len(mem'[t])] = p
    BY <1>2, <1>6, <2>1
  <2>3. QED
    BY <1>6, <2>2, Zenon DEF Sent
<1>7. ASSUME retryPkt'[t] = p
      PROVE  Sent(t) = p
  BY <1>2, <1>7, Zenon DEF Sent
<1>8. outs'[t] = m /\ Sent(t) = p
  BY <1>4, <1>5, <1>6, <1>7, Zenon
<1>9. QED
  BY <1>2, <1>8, Zenon DEF m, More

(* What goes out is the last entry read, and nothing in flight is in its   *)
(* way.                                                                    *)
LEMMA SendsRead ==
  ASSUME TypeOK, PathKept, [Next]_vars, NEW t \in TREs, Sends(t)
  PROVE  LET e == trace[t][last'[t]]
         IN  /\ sim = "run" /\ <<t, "tick">> \in sched
             /\ Sent(t).cmd = e.op /\ Sent(t).addr = e.addr /\ Sent(t).unc = e.unc
             /\ outs'[t] = Append(outs[t], [addr |-> e.addr, blk |-> e.blk])
             /\ \A k \in DOMAIN outs[t] :
                  ~outs[t][k].blk /\ outs[t][k].addr \notin e.deps
             /\ IF t \in blocked
                THEN \A a \in bpkt[t].deps : ~InFlight(t, a)
                ELSE Len(outs[t]) < MaxOutstanding
<1> USE Zenon
<1> DEFINE e == trace[t][last'[t]]
<1>1. outs[t] \in Seq(Flight) /\ Len(outs[t]) \in Nat
  BY SeqShape, SMTT(20) DEF TypeOK, MemOK
<1>2. outs'[t] # outs[t]
  BY <1>1, SMT DEF Sends
<1>4. CASE TickUnblocked(t)
  <2> DEFINE b == bpkt[t]
  <2>1. /\ sim = "run" /\ <<t, "tick">> \in sched /\ retryPkt[t] = NULL
        /\ t \in blocked /\ \A a \in b.deps : ~InFlight(t, a)
        /\ last' = last
    BY <1>4 DEF TickUnblocked, Ticks
  <2>2. PathInv(t)
    BY <2>1 DEF PathKept, PathInv
  <2>3. e = LastRead(t)
    BY <2>1 DEF LastRead
  <2>4. b.cmd # "STALL" /\ Issue(t, b.cmd, b.addr, b.unc, b.blk, NoPC)
    BY <1>2, <1>4 DEF TickUnblocked
  <2>5. b.cmd = e.op /\ b.addr = e.addr /\ b.unc = e.unc /\ b.blk = e.blk
    BY <2>1, <2>2, <2>3, <2>4 DEF PathInv, BlockedIsSaved
  <2>6. /\ b.cmd \in Accesses /\ b.addr \in Addr
        /\ b.unc \in BOOLEAN /\ b.blk \in BOOLEAN
    BY <2>4, PacketSaved
  <2>7. /\ outs'[t] = Append(outs[t], [addr |-> b.addr, blk |-> b.blk])
        /\ Sent(t).cmd = b.cmd /\ Sent(t).addr = b.addr /\ Sent(t).unc = b.unc
    <3> HIDE DEF b
    <3>1. Pkt(b.cmd, b.addr, b.unc, NoPC) \in Packet
      BY <2>6, PktTyped, SMTT(20)
    <3> QED
      BY <2>1, <2>4, <2>6, <3>1, IssueSends, SMTT(20)
  <2>8. \A k \in DOMAIN outs[t] : ~outs[t][k].blk /\ outs[t][k].addr \notin e.deps
    BY <1>4, <2>2, <2>3, UnblockedFree DEF Conflicts
  <2>9. /\ outs'[t] = Append(outs[t], [addr |-> e.addr, blk |-> e.blk])
        /\ Sent(t).cmd = e.op /\ Sent(t).addr = e.addr /\ Sent(t).unc = e.unc
    <3> HIDE DEF b, e
    <3> QED
      BY <2>5, <2>7, SMTT(20)
  <2>10. QED
    BY <2>1, <2>8, <2>9
<1>5. CASE TickAccess(t)
  <2> DEFINE c == Current(t)
  <2>1. Reads(t, Accesses) /\ Read(t)
    BY <1>5 DEF TickAccess
  <2>2. /\ sim = "run" /\ <<t, "tick">> \in sched /\ retryPkt[t] = NULL
        /\ t \notin blocked
    BY <2>1 DEF Reads, Ticks
  <2>3. e = c
    BY <2>1 DEF Current, Read, TypeOK, ReplayOK
  <2>4. /\ c.op \in Accesses /\ c.addr \in Addr /\ c.unc \in BOOLEAN
        /\ c.blk \in BOOLEAN /\ c.pc \in Nat \cup {NoPC}
    BY <2>1, EntryRead
  <2>5. /\ Len(outs[t]) < MaxOutstanding
        /\ blkingAccAddrInFlight(t) \cup Unreturned(t, c.deps) = {}
        /\ Issue(t, c.op, c.addr, c.unc, c.blk, c.pc)
    BY <1>2, <1>5 DEF TickAccess
  <2>6. /\ outs'[t] = Append(outs[t], [addr |-> c.addr, blk |-> c.blk])
        /\ Sent(t).cmd = c.op /\ Sent(t).addr = c.addr /\ Sent(t).unc = c.unc
    <3> HIDE DEF c
    <3>1. Pkt(c.op, c.addr, c.unc, c.pc) \in Packet
      BY <2>4, PktTyped, SMTT(20)
    <3> QED
      BY <2>2, <2>4, <2>5, <3>1, IssueSends, SMTT(20)
  <2>7. LastBlocks(t)
    BY <2>2 DEF PathKept
  <2>8. \A k \in DOMAIN outs[t] : ~outs[t][k].blk /\ outs[t][k].addr \notin c.deps
    BY <2>5, <2>7, ConflictsFound DEF Conflicts
  <2>9. /\ outs'[t] = Append(outs[t], [addr |-> e.addr, blk |-> e.blk])
        /\ Sent(t).cmd = e.op /\ Sent(t).addr = e.addr /\ Sent(t).unc = e.unc
    <3> HIDE DEF c, e
    <3> QED
      BY <2>3, <2>6, SMTT(20)
  <2>10. QED
    BY <2>2, <2>3, <2>5, <2>8, <2>9
<1>6. CASE \/ Stays(t) \/ Passes(t) \/ TickStall(t) \/ recvRetry(t)
           \/ \E k \in DOMAIN mem[t] : loseRequest(t, k)
  BY <1>2, <1>6 DEF Stays, Passes, PathSame, TickStall, recvRetry, loseRequest
<1>7. ASSUME NEW k \in DOMAIN mem[t], completeRequest(t, k)
      PROVE  FALSE
  <2> DEFINE a == mem[t][k].addr
  <2>1. InFlight(t, a) /\ outs' = [outs EXCEPT ![t] = EraseFirst(@, a)]
    BY <1>2, <1>7 DEF completeRequest
  <2>2. Len(EraseFirst(outs[t], a)) = Len(outs[t]) - 1
    BY <1>1, <2>1, EraseFirstSeq DEF InFlight
  <2>3. outs'[t] = EraseFirst(outs[t], a)
    BY <2>1 DEF TypeOK, MemOK
  <2>4. QED
    BY <1>1, <2>2, <2>3, SMTT(20) DEF Sends
<1>8. QED
  BY <1>4, <1>5, <1>6, <1>7, PathSteps

(* The packet given to the port has the direction, the address and the     *)
(* cacheability of the entry read last, also when the access waited in     *)
(* blockedPkt and whoever was woken meanwhile.                             *)
THEOREM SendsWhatIsTraced == Spec => SentAsTraced
<1>1. TypeOK /\ PathKept /\ [Next]_vars =>
        [\A t \in TREs : Sends(t) =>
           LET e == trace[t][last'[t]]
           IN  /\ Sent(t).cmd = e.op
               /\ Sent(t).addr = e.addr
               /\ Sent(t).unc = e.unc]_vars
  BY SendsRead, Zenon
<1>2. QED
  BY <1>1, TypeCorrect, PathIsKept, PTL DEF Spec, SentAsTraced

(* Whenever a TRE is woken: nobody waits for a mutex that is free or at    *)
(* the wrong end of a queue, the response timeout is scheduled while       *)
(* responses are due, and, if the memory answers every request, the engine *)
(* knows what is in flight and no stall ends before its dependencies.      *)
THEOREM WakesAreSurvived == ASSUME ~LossyMemory PROVE Spec => []SurvivesWakes
<1>1. Spec => []InFlightAgrees
  BY InFlightAgree
<1>2. NoLostUnlock /\ QueueWaits /\ WatchdogArmed /\ InFlightAgrees => SurvivesWakes
  BY Zenon DEF SurvivesWakes
<1>3. QED
  BY <1>1, <1>2, UnlockIsNotLost, QueueWaitsHold, TimeoutIsArmed, PTL

----------------------------------------------------------------------------
(* The limit on accesses in flight, and what a blocked TRE waits for. *)

CauseFound(t) ==
  t \in blocked /\ <<t, "tick">> \notin sched =>
    IF bpkt[t].deps = {} THEN Len(outs[t]) = MaxOutstanding
                         ELSE \E a \in bpkt[t].deps : InFlight(t, a)

LimitInv(t) == WithinLimit(t) /\ CauseFound(t)

(* The dependencies that tick() saves are in flight. *)
LEMMA SavedInFlight ==
  ASSUME NEW t, NEW d, NEW a \in blkingAccAddrInFlight(t) \cup Unreturned(t, d)
  PROVE  InFlight(t, a)
BY Zenon DEF blkingAccAddrInFlight, Unreturned, InFlight

(* One access more. *)
LEMMA IssueLimit ==
  ASSUME TypeOK, NEW t \in TREs, NEW cmd, NEW a \in Addr,
         NEW unc, NEW blk \in BOOLEAN, NEW pc,
         Issue(t, cmd, a, unc, blk, pc), sim' = "run",
         Len(outs[t]) < MaxOutstanding
  PROVE  Len(outs'[t]) <= MaxOutstanding
<1> DEFINE m == More(t, a, blk)
<1>1. m \in Seq(Flight) /\ Len(m) = Len(outs[t]) + 1 /\ Len(outs[t]) \in Nat
  BY MoreShape, Zenon
<1>2. outs'[t] = m \/ \E i \in DOMAIN m : outs'[t] = Without(m, i)
  BY IssuePath, SMT
<1> HIDE DEF m
<1>3. \A i \in DOMAIN m : Len(Without(m, i)) = Len(m) - 1
  BY <1>1, WithoutSeq, Zenon
<1>4. MaxOutstanding \in Nat
  BY ConfigAssumption, Zenon
<1>5. QED
  BY <1>1, <1>2, <1>3, <1>4, SMTT(20)

LEMMA UnblockedLimit ==
  ASSUME TypeOK, NEW t \in TREs, LimitInv(t), TickUnblocked(t), sim' = "run"
  PROVE  LimitInv(t)'
<1> USE Zenon
<1> DEFINE b == bpkt[t]
<1>1. /\ t \in blocked /\ t \notin blocked' /\ <<t, "tick">> \in sched
      /\ ~\E a \in b.deps : InFlight(t, a)
  BY DEF TickUnblocked, Ticks
<1>2. Len(outs[t]) # MaxOutstanding /\ Len(outs[t]) <= MaxOutstanding
  BY <1>1 DEF LimitInv, WithinLimit
<1>3. Len(outs[t]) \in Nat /\ MaxOutstanding \in Nat
  BY SeqShape, ConfigAssumption, SMTT(20) DEF TypeOK, MemOK
<1>4. Len(outs[t]) < MaxOutstanding
  BY <1>2, <1>3, SMTT(20)
<1>5. b.addr \in Addr /\ b.blk \in BOOLEAN
  BY PacketSaved
<1>6. UNCHANGED outs \/ Issue(t, b.cmd, b.addr, b.unc, b.blk, NoPC)
  BY DEF TickUnblocked
<1>7. Len(outs'[t]) <= MaxOutstanding
  <2>1. CASE UNCHANGED outs
    BY <1>2, <2>1
  <2>2. CASE Issue(t, b.cmd, b.addr, b.unc, b.blk, NoPC)
    BY <1>4, <1>5, <2>2, IssueLimit, SMTT(20)
  <2>3. QED
    BY <1>6, <2>1, <2>2
<1>8. QED
  BY <1>1, <1>7 DEF LimitInv, WithinLimit, CauseFound

LEMMA AccessLimit ==
  ASSUME TypeOK, NEW t \in TREs, PlacedTRE(t), LimitInv(t), TickAccess(t),
         sim' = "run"
  PROVE  LimitInv(t)'
<1> USE Zenon
<1> DEFINE e == Current(t)
           deps == blkingAccAddrInFlight(t) \cup Unreturned(t, e.deps)
<1>1. Reads(t, Accesses) /\ t \notin blocked
  BY DEF TickAccess, Reads
<1>2. e.op \in Accesses /\ e.addr \in Addr /\ e.blk \in BOOLEAN
  BY <1>1, EntryRead
<1>3. bpkt[t].deps = {}
  BY <1>1 DEF PlacedTRE, BlockedWait
<1>4. Len(outs[t]) \in Nat /\ MaxOutstanding \in Nat /\ Len(outs[t]) <= MaxOutstanding
  BY SeqShape, ConfigAssumption, SMTT(20) DEF TypeOK, MemOK, LimitInv, WithinLimit
<1>5. CASE /\ Len(outs[t]) >= MaxOutstanding \/ deps # {}
           /\ bpkt' = [bpkt EXCEPT ![t] = Saved(t, e, deps)]
           /\ sched' = sched \ {<<t, "tick">>} /\ UNCHANGED outs
  <2>1. bpkt'[t].deps = deps /\ bpkt'[t].cmd = e.op
    <3>1. bpkt'[t] = Saved(t, e, deps)
      BY <1>5 DEF TypeOK, MemOK
    <3>2. Saved(t, e, deps).deps = bpkt[t].deps \cup deps /\ Saved(t, e, deps).cmd = e.op
      BY DEF Saved
    <3>3. QED
      BY <1>3, <3>1, <3>2
  <2>2. \A a \in deps : InFlight(t, a)
    BY SavedInFlight
  <2>3. \A a : InFlight(t, a)' <=> InFlight(t, a)
    BY <1>5 DEF InFlight
  <2> HIDE DEF deps
  <2>4. deps # {} => \E a \in bpkt'[t].deps : InFlight(t, a)'
    BY <2>1, <2>2, <2>3
  <2>5. deps = {} => Len(outs'[t]) = MaxOutstanding
    BY <1>4, <1>5, SMTT(20)
  <2>6. <<t, "tick">> \notin sched' /\ bpkt'[t].cmd # "STALL"
        /\ Len(outs'[t]) <= MaxOutstanding
    BY <1>2, <1>4, <1>5, <2>1 DEF Accesses
  <2>7. QED
    BY <2>1, <2>4, <2>5, <2>6 DEF LimitInv, WithinLimit, CauseFound
<1>6. CASE /\ Len(outs[t]) < MaxOutstanding /\ UNCHANGED blocked
           /\ Issue(t, e.op, e.addr, e.unc, e.blk, e.pc)
  <2>1. Len(outs'[t]) <= MaxOutstanding
    BY <1>2, <1>6, IssueLimit, SMTT(20)
  <2>2. QED
    BY <1>1, <1>6, <2>1 DEF LimitInv, WithinLimit, CauseFound
<1>7. QED
  BY <1>5, <1>6 DEF TickAccess

LEMMA StallLimit ==
  ASSUME TypeOK, NEW t \in TREs, PlacedTRE(t), LimitInv(t), TickStall(t)
  PROVE  LimitInv(t)'
<1> USE Zenon
<1> DEFINE e == Current(t)
           blk == blkingAccAddrInFlight(t)
           deps == bpkt[t].deps \cup Unreturned(t, e.deps)
<1>1. t \notin blocked /\ UNCHANGED outs
  BY DEF TickStall, Reads
<1>2. bpkt[t].deps = {}
  BY <1>1 DEF PlacedTRE, BlockedWait
<1>3. Len(outs'[t]) <= MaxOutstanding
  BY <1>1 DEF LimitInv, WithinLimit
<1>4. CASE UNCHANGED blocked
  BY <1>1, <1>3, <1>4 DEF LimitInv, WithinLimit, CauseFound
<1>5. CASE /\ blk # {} \/ Unreturned(t, e.deps) # {}
           /\ bpkt' = [bpkt EXCEPT ![t] =
                [addr |-> @.addr, cmd |-> "STALL", data |-> e.val,
                 unc |-> @.unc, blk |-> e.blk, deps |-> deps \cup blk]]
  <2>1. bpkt'[t].deps = deps \cup blk
    BY <1>5 DEF TypeOK, MemOK
  <2>2. \E a \in bpkt'[t].deps : a \in blk \cup Unreturned(t, e.deps)
    BY <1>5, <2>1
  <2>3. \E a \in bpkt'[t].deps : InFlight(t, a)
    BY <2>2, SavedInFlight
  <2>4. \E a \in bpkt'[t].deps : InFlight(t, a)'
    BY <1>1, <2>3 DEF InFlight
  <2>5. QED
    BY <1>3, <2>4 DEF LimitInv, WithinLimit, CauseFound
<1>6. QED
  BY <1>4, <1>5 DEF TickStall

LEMMA ResponseLimit ==
  ASSUME TypeOK, NEW t \in TREs, LimitInv(t), NEW k \in DOMAIN mem[t],
         completeRequest(t, k), sim' = "run"
  PROVE  LimitInv(t)'
<1> USE Zenon
<1> DEFINE a == mem[t][k].addr
<1>1. /\ InFlight(t, a) /\ outs' = [outs EXCEPT ![t] = EraseFirst(@, a)]
      /\ Restart(t) /\ UNCHANGED <<blocked, bpkt>>
  BY DEF completeRequest
<1>2. outs[t] \in Seq(Flight) /\ outs'[t] = EraseFirst(outs[t], a)
  BY <1>1 DEF TypeOK, MemOK
<1>3. Len(outs'[t]) = Len(outs[t]) - 1 /\ Len(outs[t]) \in Nat
  BY <1>1, <1>2, EraseFirstSeq, SeqShape, SMTT(20) DEF InFlight
<1>4. MaxOutstanding \in Nat /\ Len(outs[t]) <= MaxOutstanding
  BY ConfigAssumption DEF LimitInv, WithinLimit
<1>5. Len(outs'[t]) <= MaxOutstanding /\ Len(outs'[t]) # MaxOutstanding
  BY <1>3, <1>4, SMTT(20)
<1>6. t \in blocked' => <<t, "tick">> \in sched'
  BY <1>1 DEF Restart
<1>7. t \in blocked' /\ bpkt'[t].deps = {} => bpkt'[t].cmd # "STALL"
  BY <1>1 DEF LimitInv, WithinLimit
<1>8. QED
  BY <1>5, <1>6, <1>7 DEF LimitInv, WithinLimit, CauseFound

----------------------------------------------------------------------------
(* Queues: what has been pushed and not popped is in the queue. *)

(* No event of a PUSH or POP comes or goes. *)
SameQueueEvents ==
  \A u \in TREs, e \in {"PUSH", "POP"} : <<u, e>> \in sched' <=> <<u, e>> \in sched

(* u has performed what it had performed. *)
SamePerformed(u, op, n) == Performed(u, op, n)' = Performed(u, op, n)
AllSame(u) == \A op \in {"PUSH", "POP"}, n \in Nat : SamePerformed(u, op, n)

(* t has performed one entry op more, one that names n; nobody else has.   *)
OneMore(t, op, n) ==
  /\ \E p : /\ p \notin Performed(t, op, n)
            /\ Performed(t, op, n)' = Performed(t, op, n) \cup {p}
  /\ \A u \in TREs, o \in {"PUSH", "POP"}, m \in Nat :
       ~(u = t /\ o = op /\ m = n) => SamePerformed(u, o, m)

QueueStep ==
  \/ UNCHANGED qlen /\ \A u \in TREs : AllSame(u)
  \/ \E t \in TREs, n \in Nat :
       /\ <<t, n>> \in Queues /\ OneMore(t, "PUSH", n)
       /\ qlen' = [qlen EXCEPT ![<<t, n>>] = @ + 1]
  \/ \E t \in TREs, n \in Nat :
       /\ <<n, t>> \in Queues /\ OneMore(t, "POP", n)
       /\ qlen[<<n, t>>] # 0 /\ qlen' = [qlen EXCEPT ![<<n, t>>] = @ - 1]

(* A TRE that stays where it is, or passes an entry that is not a PUSH or  *)
(* POP, performs none.                                                     *)
LEMMA StaysSame ==
  ASSUME NEW u \in TREs, trace' = trace, Frontier(u)' = Frontier(u)
  PROVE  AllSame(u)
BY Zenon DEF AllSame, SamePerformed, Performed, Listed

LEMMA PassesSame ==
  ASSUME TypeOK, NEW u \in TREs, trace' = trace, NEW p \in Nat,
         Frontier(u) \in {p, p + 1}, Frontier(u)' \in {p, p + 1},
         trace[u][p].op \notin {"PUSH", "POP"}
  PROVE  AllSame(u)
<1> USE Zenon
<1>1. DOMAIN trace[u] \subseteq Nat
  <2>1. trace[u] \in Seq(Entry)
    BY DEF TypeOK, ReplayOK
  <2>2. QED
    BY <2>1, SeqShape, SMTT(20)
<1>2. ASSUME NEW i \in DOMAIN trace[u], i # p
      PROVE  i < Frontier(u) <=> i < Frontier(u)'
  <2>1. i \in Nat
    BY <1>1
  <2>2. i < p <=> i < p + 1
    BY <1>2, <2>1, SMTT(20)
  <2>3. QED
    BY <2>2
<1>3. ASSUME NEW op \in {"PUSH", "POP"}, NEW n \in Nat PROVE SamePerformed(u, op, n)
  <2>1. p \notin Listed(u, op, n) /\ Listed(u, op, n) \subseteq DOMAIN trace[u]
    BY <1>3 DEF Listed
  <2>2. Listed(u, op, n)' = Listed(u, op, n)
    BY DEF Listed
  <2>3. QED
    BY <1>2, <2>1, <2>2 DEF SamePerformed, Performed
<1>4. QED
  BY <1>3 DEF AllSame

(* One that passes a PUSH or POP has performed it. *)
LEMMA PassesOne ==
  ASSUME TypeOK, NEW t \in TREs, trace' = trace, NEW p \in DOMAIN trace[t],
         Frontier(t) = p, Frontier(t)' = p + 1,
         NEW op \in {"PUSH", "POP"}, NEW n \in Nat,
         trace[t][p].op = op, trace[t][p].val = n,
         \A u \in TREs : u # t => AllSame(u)
  PROVE  OneMore(t, op, n)
<1> USE Zenon
<1>1. DOMAIN trace[t] \subseteq Nat /\ p \in Nat
  <2>1. trace[t] \in Seq(Entry)
    BY DEF TypeOK, ReplayOK
  <2>2. QED
    BY <2>1, SeqShape, SMTT(20)
<1>2. /\ ~(p < p) /\ p < p + 1
      /\ \A i \in DOMAIN trace[t] : i < p + 1 <=> i < p \/ i = p
  BY <1>1, SMT
<1>3. ASSUME NEW o, NEW m PROVE Listed(t, o, m)' = Listed(t, o, m)
  BY DEF Listed
<1>4. p \notin Performed(t, op, n)
  BY <1>2 DEF Performed
<1>5. Performed(t, op, n)' = Performed(t, op, n) \cup {p}
  <2>1. p \in Listed(t, op, n) /\ Listed(t, op, n) \subseteq DOMAIN trace[t]
    BY DEF Listed
  <2>2. /\ Performed(t, op, n)' = {i \in Listed(t, op, n) : i < p + 1}
        /\ Performed(t, op, n) = {i \in Listed(t, op, n) : i < p}
    BY <1>3 DEF Performed
  <2>3. \A i \in Listed(t, op, n) : i < p + 1 <=> i < p \/ i = p
    BY <1>2, <2>1
  <2>4. ASSUME NEW i
        PROVE  i \in Performed(t, op, n)' <=> i \in Performed(t, op, n) \/ i = p
    BY <1>2, <2>1, <2>2, <2>3
  <2>5. QED
    BY <2>4
<1>6. ASSUME NEW o \in {"PUSH", "POP"}, NEW m \in Nat, ~(o = op /\ m = n)
      PROVE  SamePerformed(t, o, m)
  <2>1. p \notin Listed(t, o, m) /\ Listed(t, o, m) \subseteq DOMAIN trace[t]
    BY <1>6 DEF Listed
  <2>2. QED
    BY <1>2, <1>3, <2>1 DEF SamePerformed, Performed
<1>7. QED
  BY <1>4, <1>5, <1>6 DEF OneMore, AllSame

----------------------------------------------------------------------------
(* A TRE that runs is not pending, unless its event is a PUSH or POP.      *)
LEMMA RunsUnpending ==
  ASSUME NEW t \in TREs, PlacedTRE(t), NEW ev \in Events, <<t, ev>> \in sched
  PROVE  Pending(t) <=> ev \in {"PUSH", "POP"}
<1> USE Zenon
<1>1. /\ \A f \in Events : <<t, f>> \in sched <=> f = ev
      /\ ~AtQueue(t)
  BY Awake DEF Waits
<1>2. "PUSH" \in Events /\ "POP" \in Events
  BY DEF Events, Prims
<1>3. QED
  BY <1>1, <1>2 DEF Pending

(* Without operations on the queues, who was pending is. *)
LEMMA SamePending ==
  ASSUME UNCHANGED qVars, SameQueueEvents, NEW u \in TREs
  PROVE  Pending(u)' <=> Pending(u)
BY Zenon DEF Pending, AtQueue, qVars, SameQueueEvents

LEMMA QuietEvents ==
  ASSUME NEW t, NEW ev, ev \notin {"PUSH", "POP"}, NEW es,
         \A u, e : <<u, e>> \in es => e = "tick",
         Resume(t, ev, es) \/ Rest(t, ev)
  PROVE  SameQueueEvents
<1> USE Zenon
<1>1. \/ sched' = (sched \ {<<t, ev>>}) \cup es \cup {<<t, "tick">>}
      \/ sched' = (sched \ {<<t, ev>>}) \cup {}
  BY DEF Resume, Rest, Reserve
<1>2. ASSUME NEW u, NEW e \in {"PUSH", "POP"}
      PROVE  <<u, e>> # <<t, ev>> /\ <<u, e>> # <<t, "tick">> /\ <<u, e>> \notin es
  <2>1. e # "tick" /\ e # ev
    OBVIOUS
  <2>2. QED
    BY <2>1
<1>3. ASSUME NEW u, NEW e \in {"PUSH", "POP"}
      PROVE  <<u, e>> \in sched' <=> <<u, e>> \in sched
  <2> DEFINE x == <<u, e>>
  <2>1. x # <<t, ev>> /\ x # <<t, "tick">> /\ x \notin es
    BY <1>2
  <2> HIDE DEF x
  <2>2. x \in sched' <=> x \in sched
    BY <1>1, <2>1
  <2>3. QED
    BY <2>2 DEF x
<1>4. QED
  BY <1>3 DEF SameQueueEvents

(* The other primitives. *)
LEMMA QuietPerform ==
  ASSUME NEW t, NEW ev, NEW op, Perform(t, ev, op), op \notin {"PUSH", "POP"},
         ev \in {"tick", op}, sim = "run", sim' = "run"
  PROVE  UNCHANGED qVars /\ SameQueueEvents
<1> USE Zenon
<1>2. ev \notin {"PUSH", "POP"}
  OBVIOUS
<1>3. Resume(t, ev, {}) \/ Rest(t, ev) => SameQueueEvents
  <2>1. ASSUME NEW es, es = {}, Resume(t, ev, es) \/ Rest(t, ev) PROVE SameQueueEvents
    <3>1. \A u, e : <<u, e>> \in es => e = "tick"
      BY <2>1
    <3>2. QED
      BY <1>2, <2>1, <3>1, QuietEvents
  <2>2. QED
    BY <2>1
<1>4. CASE initMutex(t, ev) \/ lockMutex(t, ev)
  BY <1>3, <1>4 DEF initMutex, lockMutex, TryAgain, Abort
<1>5. CASE unlockMutex(t, ev)
  <2>1. ASSUME NEW w PROVE \A u, e : <<u, e>> \in {<<w, "tick">>} => e = "tick"
    OBVIOUS
  <2>2. ASSUME NEW w PROVE Resume(t, ev, {<<w, "tick">>}) => SameQueueEvents
    BY <1>2, <2>1, QuietEvents
  <2>3. QED
    BY <1>3, <1>5, <2>2 DEF unlockMutex, Abort
<1>6. CASE initBarrier(t, ev) \/ sleep(t, ev) \/ stats(t, ev)
  BY <1>3, <1>6 DEF initBarrier, sleep, stats, Abort
<1>7. CASE waitAtBarrier(t, ev)
  <2>1. ASSUME NEW s PROVE \A u, e : <<u, e>> \in Release(s) => e = "tick"
    BY DEF Release
  <2>2. ASSUME NEW s PROVE Resume(t, ev, Release(s)) => SameQueueEvents
    BY <1>2, <2>1, QuietEvents
  <2>3. QED
    BY <1>3, <1>7, <2>2 DEF waitAtBarrier, TryAgain, Abort
<1>8. CASE wake(t, ev)
  <2>1. ASSUME NEW w PROVE \A u, e : <<u, e>> \in {<<w, "tick">>} => e = "tick"
    OBVIOUS
  <2>2. ASSUME NEW w PROVE Resume(t, ev, {<<w, "tick">>}) => SameQueueEvents
    BY <1>2, <2>1, QuietEvents
  <2>3. QED
    BY <1>8, <2>2 DEF wake, Abort
<1>9. QED
  BY <1>4, <1>5, <1>6, <1>7, <1>8 DEF Perform

(* A TRE that reads an entry other than PUSH and POP. *)
LEMMA QuietRead ==
  ASSUME TypeOK, NEW t \in TREs, PlacedTRE(t), NEW S, Reads(t, S), Read(t),
         trace' = trace, Current(t).op \notin {"PUSH", "POP"},
         UNCHANGED qVars, SameQueueEvents
  PROVE  \A u \in TREs : AllSame(u)
<1> USE Zenon
<1>1. /\ pos[t] \in Nat /\ pos'[t] = pos[t] + 1
      /\ \A u \in TREs : u # t => pos'[u] = pos[u]
  BY DEF Read, TypeOK, ReplayOK
<1>2. \A u \in TREs : Pending(u)' <=> Pending(u)
  BY SamePending
<1>3. ~Pending(t)
  <2>1. "tick" \in Events /\ <<t, "tick">> \in sched
    BY DEF Reads, Ticks, Events
  <2>2. QED
    BY <2>1, RunsUnpending
<1>4. Frontier(t) = pos[t] /\ Frontier(t)' = pos[t] + 1
  BY <1>1, <1>2, <1>3 DEF Frontier
<1>5. AllSame(t)
  BY <1>1, <1>4, PassesSame DEF Current
<1>6. ASSUME NEW u \in TREs, u # t PROVE AllSame(u)
  <2>1. Frontier(u)' = Frontier(u)
    BY <1>1, <1>2, <1>6 DEF Frontier
  <2>2. QED
    BY <2>1, StaysSame
<1>7. QED
  BY <1>5, <1>6

(* Nobody moves. *)
LEMMA QuietStay ==
  ASSUME UNCHANGED <<trace, pos>>, UNCHANGED qVars, SameQueueEvents
  PROVE  QueueStep
<1> USE Zenon
<1>1. ASSUME NEW u \in TREs PROVE AllSame(u)
  <2>1. Frontier(u)' = Frontier(u)
    BY SamePending DEF Frontier
  <2>2. QED
    BY <2>1, StaysSame
<1>2. QED
  BY <1>1 DEF QueueStep, qVars

(* A primitive other than PUSH and POP, that may be read again. *)
LEMMA QuietPrimitive ==
  ASSUME TypeOK, sim = "run", sim' = "run", Placed, NEW t \in TREs, NEW ev, NEW op,
         Performs(t, ev, op), Perform(t, ev, op), op \notin {"PUSH", "POP"}
  PROVE  QueueStep
<1> USE Zenon
<1> DEFINE p == Place(t, ev)
<1>1. PlacedTRE(t) /\ trace' = trace /\ (Advance(t, ev) \/ Rewind(t, ev))
  BY PerformMoves DEF Placed
<1>2. /\ pos'[t] \in {p, p + 1}
      /\ \A w \in TREs : w # t => pos'[w] = pos[w]
  BY <1>1, MovesTo, SMTT(20)
<1>3. /\ p \in Nat /\ ev \in Events /\ <<t, ev>> \in sched
      /\ trace[t][p].op = op
  BY <1>1, Performing, SMTT(20)
<1>4. ev \in {"tick", op}
  BY DEF Performs
<1>5. UNCHANGED qVars /\ SameQueueEvents
  BY <1>4, QuietPerform
<1>6. \A u \in TREs : Pending(u)' <=> Pending(u)
  BY <1>5, SamePending
<1>7. ~Pending(t)
  BY <1>1, <1>3, <1>4, RunsUnpending
<1>8. pos[t] \in {p, p + 1}
  <2>1. CASE ev = "tick"
    BY <2>1 DEF Place
  <2>2. CASE ev # "tick"
    <3>1. op \in Prims /\ <<t, op>> \in sched /\ ev = op
      BY <1>3, <1>4, <2>2 DEF Performs
    <3>2. last[t] = pos[t] - 1
      BY <1>1, <3>1 DEF PlacedTRE, EventIsRead, JustRead
    <3>3. pos[t] \in Nat
      BY DEF TypeOK, ReplayOK
    <3>4. QED
      BY <2>2, <3>2, <3>3, SMTT(20) DEF Place
  <2>3. QED
    BY <2>1, <2>2, SMTT(20)
<1> HIDE DEF p
<1>9. AllSame(t)
  <2>1. Frontier(t) \in {p, p + 1} /\ Frontier(t)' \in {p, p + 1}
    BY <1>2, <1>6, <1>7, <1>8 DEF Frontier
  <2>2. QED
    BY <1>1, <1>3, <2>1, PassesSame
<1>10. ASSUME NEW u \in TREs, u # t PROVE AllSame(u)
  <2>1. Frontier(u)' = Frontier(u)
    BY <1>2, <1>6, <1>10 DEF Frontier
  <2>2. QED
    BY <1>1, <2>1, StaysSame
<1>11. QED
  BY <1>5, <1>9, <1>10 DEF QueueStep, qVars

----------------------------------------------------------------------------
(* PUSH and POP. *)

(* Before a handler of PUSH or POP runs, its entry is the first that is    *)
(* yet to be performed.                                                    *)
LEMMA FrontierAt ==
  ASSUME TypeOK, NEW t \in TREs, PlacedTRE(t), NEW ev, NEW op \in {"PUSH", "POP"},
         Performs(t, ev, op)
  PROVE  /\ Frontier(t) = Place(t, ev) /\ Place(t, ev) \in DOMAIN trace[t]
         /\ Place(t, ev) \in Nat /\ Number(t, ev) \in Nat
         /\ trace[t][Place(t, ev)].op = op
         /\ trace[t][Place(t, ev)].val = Number(t, ev)
         /\ ev \in Events /\ <<t, ev>> \in sched
<1> USE Zenon
<1> DEFINE p == Place(t, ev)
<1>1. /\ p \in DOMAIN trace[t] /\ p \in Nat
      /\ trace[t][p] \in Entry /\ trace[t][p].op = op
      /\ Number(t, ev) = trace[t][p].val
      /\ ev # "tick" => p = pos[t] - 1 /\ ev = op
      /\ ev \in Events /\ <<t, ev>> \in sched
  BY Performing, SMTT(20)
<1>2. trace[t][p].val \in Nat
  BY <1>1, SMTT(20) DEF Entry
<1>3. Pending(t) <=> ev \in {"PUSH", "POP"}
  BY <1>1, RunsUnpending
<1>4. ev = "tick" => p = pos[t]
  BY DEF Place
<1> HIDE DEF p
<1>5. Frontier(t) = p
  BY <1>1, <1>3, <1>4 DEF Frontier
<1>6. QED
  BY <1>1, <1>2, <1>5 DEF p

(* A handler that ends by starting the TRE w at the other end: t is        *)
(* through, w pending as before.                                           *)
LEMMA GoesOn ==
  ASSUME NEW t \in TREs, NEW ev, NEW w, NEW o \in {"PUSH", "POP"},
         ~AtQueue(t), w # t, w \in TREs => AtQueue(w),
         \A f \in Events : <<t, f>> \in sched <=> f = ev,
         \A u \in TREs : u # w => (AtQueue(u)' <=> AtQueue(u)),
         w \in TREs \cup {NULL}, Resume(t, ev, Start(w, o))
  PROVE  ~Pending(t)' /\ \A u \in TREs : u # t => (Pending(u)' <=> Pending(u))
<1> USE Zenon
<1>0. NULL \notin TREs
  BY Ids
<1>1. sched' = (sched \ {<<t, ev>>}) \cup Start(w, o) \cup {<<t, "tick">>}
  BY DEF Resume
<1>2. \A u \in TREs : \A e : <<u, e>> \in Start(w, o) <=> u = w /\ e = o
  BY <1>0 DEF Start
<1>3. "PUSH" \in Events /\ "POP" \in Events /\ "PUSH" # "tick" /\ "POP" # "tick"
  BY DEF Events, Prims
<1>4. ASSUME NEW e \in {"PUSH", "POP"} PROVE <<t, e>> \notin sched'
  BY <1>1, <1>2, <1>3
<1>5. ASSUME NEW u \in TREs, u # t, NEW e
      PROVE  <<u, e>> \in sched' <=> <<u, e>> \in sched \/ (u = w /\ e = o)
  BY <1>1, <1>2, <1>5
<1>6. ~Pending(t)'
  BY <1>4 DEF Pending
<1>7. ASSUME NEW u \in TREs, u # t PROVE Pending(u)' <=> Pending(u)
  BY <1>5, <1>7 DEF Pending
<1>8. QED
  BY <1>6, <1>7

(* A handler that waits at a queue: t stays pending. *)
LEMMA WaitsThere ==
  ASSUME NEW t \in TREs, NEW ev, AtQueue(t)', Rest(t, ev),
         \A u \in TREs : u # t => (AtQueue(u)' <=> AtQueue(u))
  PROVE  Pending(t)' /\ \A u \in TREs : u # t => (Pending(u)' <=> Pending(u))
<1> USE Zenon
<1>1. sched' = sched \ {<<t, ev>>}
  BY DEF Rest, Reserve
<1>2. ASSUME NEW u \in TREs, u # t, NEW e
      PROVE  <<u, e>> \in sched' <=> <<u, e>> \in sched
  BY <1>1, <1>2
<1>3. QED
  BY <1>2 DEF Pending

(* What the two cases mean for the entries performed. *)
LEMMA QueueGoesOn ==
  ASSUME TypeOK, NEW t \in TREs, PlacedTRE(t), NEW ev, NEW op \in {"PUSH", "POP"},
         Performs(t, ev, op), Advance(t, ev), trace' = trace,
         \A u \in TREs : u # t => (Pending(u)' <=> Pending(u))
  PROVE  /\ Pending(t)' => \A u \in TREs : AllSame(u)
         /\ ~Pending(t)' => OneMore(t, op, Number(t, ev))
<1> USE Zenon
<1> DEFINE p == Place(t, ev)
           n == Number(t, ev)
<1>1. /\ Frontier(t) = p /\ p \in DOMAIN trace[t] /\ p \in Nat /\ n \in Nat
      /\ trace[t][p].op = op /\ trace[t][p].val = n
  BY FrontierAt
<1>2. /\ pos'[t] = p + 1
      /\ \A u \in TREs : u # t => pos'[u] = pos[u]
  BY MovesTo
<1> HIDE DEF p, n
<1>3. ASSUME NEW u \in TREs, u # t PROVE AllSame(u)
  <2>1. Frontier(u)' = Frontier(u)
    BY <1>2, <1>3 DEF Frontier
  <2>2. QED
    BY <2>1, StaysSame
<1>4. ASSUME Pending(t)' PROVE AllSame(t)
  <2>1. Frontier(t)' = pos'[t] - 1
    BY <1>4 DEF Frontier
  <2>2. Frontier(t)' = Frontier(t)
    BY <1>1, <1>2, <2>1, SMTT(20)
  <2>3. QED
    BY <2>2, StaysSame
<1>5. ASSUME ~Pending(t)' PROVE OneMore(t, op, n)
  <2>1. Frontier(t)' = p + 1
    BY <1>2, <1>5 DEF Frontier
  <2>2. QED
    BY <1>1, <1>3, <2>1, PassesOne
<1>6. QED
  BY <1>3, <1>4, <1>5 DEF n

LEMMA PushStep ==
  ASSUME TypeOK, QueueWaits, sim = "run", sim' = "run", Placed, NEW t \in TREs, NEW ev,
         Performs(t, ev, "PUSH"), push(t, ev)
  PROVE  QueueStep
<1> USE Zenon
<1> DEFINE n == Number(t, ev)
           q == <<t, n>>
           w == toPop[q]
<1>1. /\ PlacedTRE(t) /\ n \in Nat /\ ev \in Events /\ <<t, ev>> \in sched
  BY FrontierAt DEF Placed
<1>2. ~AtQueue(t) /\ \A f \in Events : <<t, f>> \in sched <=> f = ev
  BY <1>1, Awake DEF Waits
<1>3. q \in Queues
  BY DEF push, Abort
<1>4. /\ toPush \in [Queues -> TREs \cup {NULL}]
      /\ toPop \in [Queues -> TREs \cup {NULL}]
      /\ NULL \notin TREs
  BY Ids DEF TypeOK, QueueOK
<1>5. Advance(t, ev) /\ trace' = trace
  BY <1>3 DEF push, Abort
<1> HIDE DEF n
<1>6. CASE Full(q)
  <2>1. /\ toPush' = [toPush EXCEPT ![q] = t] /\ toPop' = toPop /\ qlen' = qlen
        /\ Rest(t, ev)
    BY <1>3, <1>6 DEF push, n, Abort
  <2>2. toPush[q] \in {t, NULL}
    BY <1>3 DEF QueueWaits
  <2>3. AtQueue(t)'
    BY <1>3, <1>4, <2>1 DEF AtQueue
  <2>4. ASSUME NEW u \in TREs, u # t PROVE AtQueue(u)' <=> AtQueue(u)
    <3>1. \A r \in Queues : toPush'[r] = u <=> toPush[r] = u
      BY <1>3, <1>4, <2>1, <2>2, <2>4
    <3>2. QED
      BY <2>1, <3>1 DEF AtQueue
  <2>5. Pending(t)' /\ \A u \in TREs : u # t => (Pending(u)' <=> Pending(u))
    BY <2>1, <2>3, <2>4, WaitsThere
  <2>6. \A u \in TREs : AllSame(u)
    BY <1>1, <1>5, <2>5, QueueGoesOn
  <2>7. QED
    BY <2>1, <2>6 DEF QueueStep
<1>7. CASE ~Full(q)
  <2>1. /\ qlen' = [qlen EXCEPT ![q] = @ + 1] /\ toPop' = [toPop EXCEPT ![q] = NULL]
        /\ toPush' = toPush /\ Resume(t, ev, Start(w, "POP"))
    BY <1>3, <1>7 DEF push, n, Abort
  <2>2. w \in TREs \cup {NULL} /\ w # t /\ (w \in TREs => AtQueue(w))
    BY <1>2, <1>3, <1>4 DEF AtQueue
  <2>3. ASSUME NEW u \in TREs, u # w PROVE AtQueue(u)' <=> AtQueue(u)
    <3>1. ASSUME NEW r \in Queues PROVE toPop'[r] = u <=> toPop[r] = u
      <4>1. CASE r = q
        <5>1. toPop'[r] = NULL /\ toPop[r] = w
          BY <1>3, <1>4, <2>1, <4>1
        <5>2. QED
          BY <1>4, <2>3, <5>1
      <4>2. CASE r # q
        <5>1. toPop'[r] = toPop[r]
          BY <1>4, <2>1, <4>2
        <5>2. QED
          BY <5>1
      <4>3. QED
        BY <4>1, <4>2
    <3>2. QED
      BY <2>1, <3>1 DEF AtQueue
  <2>4. ~Pending(t)' /\ \A u \in TREs : u # t => (Pending(u)' <=> Pending(u))
    <3> HIDE DEF w
    <3>1. "POP" \in {"PUSH", "POP"}
      OBVIOUS
    <3>2. Resume(t, ev, Start(w, "POP"))
      BY <2>1
    <3>3. QED
      BY <1>2, <2>2, <2>3, <3>1, <3>2, GoesOn, SMTT(20)
  <2>5. OneMore(t, "PUSH", n)
    BY <1>1, <1>5, <2>4, QueueGoesOn DEF n
  <2>6. QED
    BY <1>1, <1>3, <2>1, <2>5 DEF QueueStep
<1>8. QED
  BY <1>6, <1>7

LEMMA PopStep ==
  ASSUME TypeOK, QueueWaits, sim = "run", sim' = "run", Placed, NEW t \in TREs, NEW ev,
         Performs(t, ev, "POP"), pop(t, ev)
  PROVE  QueueStep
<1> USE Zenon
<1> DEFINE n == Number(t, ev)
           q == <<n, t>>
           w == toPush[q]
<1>1. /\ PlacedTRE(t) /\ n \in Nat /\ ev \in Events /\ <<t, ev>> \in sched
  BY FrontierAt DEF Placed
<1>2. ~AtQueue(t) /\ \A f \in Events : <<t, f>> \in sched <=> f = ev
  BY <1>1, Awake DEF Waits
<1>3. q \in Queues
  BY DEF pop, Abort
<1>4. /\ toPush \in [Queues -> TREs \cup {NULL}]
      /\ toPop \in [Queues -> TREs \cup {NULL}]
      /\ NULL \notin TREs
  BY Ids DEF TypeOK, QueueOK
<1>5. Advance(t, ev) /\ trace' = trace
  BY <1>3 DEF pop, Abort
<1> HIDE DEF n
<1>6. CASE qlen[q] = 0
  <2>1. /\ toPop' = [toPop EXCEPT ![q] = t] /\ toPush' = toPush /\ qlen' = qlen
        /\ Rest(t, ev)
    BY <1>3, <1>6 DEF pop, n, Abort
  <2>2. toPop[q] \in {t, NULL}
    BY <1>3 DEF QueueWaits
  <2>3. AtQueue(t)'
    BY <1>3, <1>4, <2>1 DEF AtQueue
  <2>4. ASSUME NEW u \in TREs, u # t PROVE AtQueue(u)' <=> AtQueue(u)
    <3>1. \A r \in Queues : toPop'[r] = u <=> toPop[r] = u
      BY <1>3, <1>4, <2>1, <2>2, <2>4
    <3>2. QED
      BY <2>1, <3>1 DEF AtQueue
  <2>5. Pending(t)' /\ \A u \in TREs : u # t => (Pending(u)' <=> Pending(u))
    BY <2>1, <2>3, <2>4, WaitsThere
  <2>6. \A u \in TREs : AllSame(u)
    BY <1>1, <1>5, <2>5, QueueGoesOn
  <2>7. QED
    BY <2>1, <2>6 DEF QueueStep
<1>7. CASE qlen[q] # 0
  <2>1. /\ qlen' = [qlen EXCEPT ![q] = @ - 1] /\ toPush' = [toPush EXCEPT ![q] = NULL]
        /\ toPop' = toPop /\ Resume(t, ev, Start(w, "PUSH"))
    BY <1>3, <1>7 DEF pop, n, Abort, ClearPusher
  <2>2. w \in TREs \cup {NULL} /\ w # t /\ (w \in TREs => AtQueue(w))
    BY <1>2, <1>3, <1>4 DEF AtQueue
  <2>3. ASSUME NEW u \in TREs, u # w PROVE AtQueue(u)' <=> AtQueue(u)
    <3>1. ASSUME NEW r \in Queues PROVE toPush'[r] = u <=> toPush[r] = u
      <4>1. CASE r = q
        <5>1. toPush'[r] = NULL /\ toPush[r] = w
          BY <1>3, <1>4, <2>1, <4>1
        <5>2. QED
          BY <1>4, <2>3, <5>1
      <4>2. CASE r # q
        <5>1. toPush'[r] = toPush[r]
          BY <1>4, <2>1, <4>2
        <5>2. QED
          BY <5>1
      <4>3. QED
        BY <4>1, <4>2
    <3>2. QED
      BY <2>1, <3>1 DEF AtQueue
  <2>4. ~Pending(t)' /\ \A u \in TREs : u # t => (Pending(u)' <=> Pending(u))
    <3> HIDE DEF w
    <3>1. "PUSH" \in {"PUSH", "POP"}
      OBVIOUS
    <3>2. Resume(t, ev, Start(w, "PUSH"))
      BY <2>1
    <3>3. QED
      BY <1>2, <2>2, <2>3, <3>1, <3>2, GoesOn, SMTT(20)
  <2>5. OneMore(t, "POP", n)
    BY <1>1, <1>5, <2>4, QueueGoesOn DEF n
  <2>6. QED
    BY <1>1, <1>3, <1>7, <2>1, <2>5 DEF QueueStep
<1>8. QED
  BY <1>6, <1>7

----------------------------------------------------------------------------
(* Every step. *)

(* A PUSH or POP with a latency is read and left for its event. *)
LEMMA DeferStep ==
  ASSUME TypeOK, NEW t \in TREs, PlacedTRE(t), TickDefer(t)
  PROVE  QueueStep
<1> USE Zenon
<1> DEFINE op == Current(t).op
<1>1. /\ Reads(t, Prims) /\ Read(t) /\ trace' = trace /\ UNCHANGED qVars
      /\ op \in Prims /\ op # "tick"
      /\ sched' = (sched \ {<<t, "tick">>}) \cup {<<t, op>>}
  BY DEF TickDefer, Reserve, Reads, Prims, Mutexes, Barriers, Stats
<1> HIDE DEF op
<1>2. ASSUME NEW u, NEW e \in {"PUSH", "POP"}
      PROVE  <<u, e>> \in sched' <=> <<u, e>> \in sched \/ (u = t /\ e = op)
  <2>1. <<u, e>> # <<t, "tick">> /\ (<<u, e>> = <<t, op>> <=> u = t /\ e = op)
    OBVIOUS
  <2>2. QED
    BY <1>1, <2>1
<1>3. CASE op \notin {"PUSH", "POP"}
  <2>1. SameQueueEvents
    BY <1>2, <1>3 DEF SameQueueEvents
  <2>2. \A u \in TREs : AllSame(u)
    BY <1>1, <1>3, <2>1, QuietRead DEF op
  <2>3. QED
    BY <1>1, <2>2 DEF QueueStep, qVars
<1>4. CASE op \in {"PUSH", "POP"}
  <2>1. /\ pos[t] \in Nat /\ pos'[t] = pos[t] + 1
        /\ \A u \in TREs : u # t => pos'[u] = pos[u]
    BY <1>1 DEF Read, TypeOK, ReplayOK
  <2>2. ~Pending(t)
    <3>1. "tick" \in Events /\ <<t, "tick">> \in sched
      BY <1>1 DEF Reads, Ticks, Events
    <3>2. QED
      BY <3>1, RunsUnpending
  <2>3. Pending(t)'
    BY <1>2, <1>4 DEF Pending
  <2>4. Frontier(t)' = Frontier(t)
    <3>1. Frontier(t)' = pos'[t] - 1 /\ Frontier(t) = pos[t]
      BY <2>2, <2>3 DEF Frontier
    <3>2. QED
      BY <2>1, <3>1, SMTT(20)
  <2>5. ASSUME NEW u \in TREs, u # t PROVE Frontier(u)' = Frontier(u)
    <3>1. AtQueue(u)' <=> AtQueue(u)
      BY <1>1 DEF AtQueue, qVars
    <3>2. Pending(u)' <=> Pending(u)
      BY <1>2, <2>5, <3>1 DEF Pending
    <3>3. QED
      BY <2>1, <2>5, <3>2 DEF Frontier
  <2>6. \A u \in TREs : AllSame(u)
    BY <1>1, <2>4, <2>5, StaysSame
  <2>7. QED
    BY <1>1, <2>6 DEF QueueStep, qVars
<1>5. QED
  BY <1>3, <1>4

LEMMA PerformStep ==
  ASSUME TypeOK, QueueWaits, sim = "run", sim' = "run", Placed, NEW t \in TREs, NEW ev,
         NEW op, Performs(t, ev, op), Perform(t, ev, op)
  PROVE  QueueStep
<1> USE Zenon
<1>1. CASE op = "PUSH"
  BY <1>1, PushStep DEF Perform, Stats
<1>2. CASE op = "POP"
  BY <1>2, PopStep DEF Perform, Stats
<1>3. CASE op \notin {"PUSH", "POP"}
  BY <1>3, QuietPrimitive
<1>4. QED
  BY <1>1, <1>2, <1>3

(* The ticks that touch no queue. *)
LEMMA TickStep ==
  ASSUME TypeOK, sim = "run", Placed, sim' \in {"run", "done"}, NEW t \in TREs,
         \/ TickStillBlocked(t) \/ TickUnblocked(t) \/ TickAccess(t)
         \/ TickStall(t) \/ halt(t)
  PROVE  QueueStep
<1> USE Zenon
<1>1. PlacedTRE(t)
  BY DEF Placed
<1>2. UNCHANGED qVars /\ trace' = trace
  BY DEF TickStillBlocked, TickUnblocked, TickAccess, TickStall, halt
<1>3. ASSUME NEW u, NEW e \in {"PUSH", "POP"}
      PROVE  <<u, e>> # <<t, "tick">>
  OBVIOUS
<1>4. sched' = sched \ {<<t, "tick">>} => SameQueueEvents
  BY <1>3 DEF SameQueueEvents
<1>5. Resume(t, "tick", {}) \/ Rest(t, "tick") => SameQueueEvents
  <2>1. "tick" \notin {"PUSH", "POP"}
    OBVIOUS
  <2>2. ASSUME NEW es, es = {}, Resume(t, "tick", es) \/ Rest(t, "tick")
        PROVE  SameQueueEvents
    <3>1. \A u, e : <<u, e>> \in es => e = "tick"
      BY <2>2
    <3>2. QED
      BY <2>1, <2>2, <3>1, QuietEvents
  <2>3. QED
    BY <2>2
<1>6. ASSUME NEW cmd, NEW a, NEW unc, NEW blk, NEW pc,
             Issue(t, cmd, a, unc, blk, pc)
      PROVE  SameQueueEvents
  BY <1>5, <1>6 DEF Issue
<1>7. SameQueueEvents
  BY <1>4, <1>5, <1>6
     DEF TickStillBlocked, TickUnblocked, TickAccess, TickStall, halt
<1>8. CASE TickStillBlocked(t) \/ TickUnblocked(t)
  <2>1. UNCHANGED <<trace, pos>>
    BY <1>8 DEF TickStillBlocked, TickUnblocked
  <2>2. QED
    BY <1>2, <1>7, <2>1, QuietStay
<1>9. CASE TickAccess(t) \/ TickStall(t) \/ halt(t)
  <2>1. PICK S : Reads(t, S) /\ Read(t) /\ "PUSH" \notin S /\ "POP" \notin S
    BY <1>9 DEF TickAccess, TickStall, halt, Accesses
  <2>2. Current(t).op \notin {"PUSH", "POP"}
    BY <2>1 DEF Reads
  <2>3. \A u \in TREs : AllSame(u)
    BY <1>1, <1>2, <1>7, <2>1, <2>2, QuietRead
  <2>4. QED
    BY <1>2, <2>3 DEF QueueStep, qVars
<1>10. QED
  BY <1>8, <1>9

(* The steps of the memory port. *)
LEMMA PortStep ==
  ASSUME sim = "run", sim' \in {"run", "done"}, NEW t \in TREs, Port(t)
  PROVE  QueueStep
<1> USE Zenon
<1>1. UNCHANGED <<trace, pos>> /\ UNCHANGED qVars
  BY DEF Port, Respond, completeRequest, accessFailed, loseRequest, recvRetry,
               Abort
<1>2. ASSUME NEW u, NEW e \in {"PUSH", "POP"}
      PROVE  <<u, e>> # <<t, "tick">> /\ <<u, e>> # <<t, "retry">>
  OBVIOUS
<1>3. ASSUME \/ sched' = sched \/ sched' = sched \cup {<<t, "tick">>}
             \/ sched' = (sched \ {<<t, "retry">>}) \cup {<<t, "tick">>}
      PROVE  SameQueueEvents
  <2>1. ASSUME NEW x, x # <<t, "tick">>, x # <<t, "retry">>
        PROVE  x \in sched' <=> x \in sched
    BY <1>3, <2>1
  <2>2. QED
    BY <1>2, <2>1 DEF SameQueueEvents
<1>4. \/ sched' = sched \/ sched' = sched \cup {<<t, "tick">>}
      \/ sched' = (sched \ {<<t, "retry">>}) \cup {<<t, "tick">>}
  <2>1. CASE \E k \in DOMAIN mem[t] : completeRequest(t, k)
    <3>1. sched' = sched \/ Restart(t)
      BY <2>1 DEF completeRequest
    <3>2. sched \cup {} = sched
      OBVIOUS
    <3>3. QED
      BY <3>1, <3>2 DEF Restart
  <2>2. CASE \E k \in DOMAIN mem[t] : accessFailed(t, k) \/ loseRequest(t, k)
    BY <2>2 DEF accessFailed, loseRequest, Abort
  <2>3. CASE recvRetry(t)
    BY <2>3 DEF recvRetry, Reserve
  <2>4. QED
    BY <2>1, <2>2, <2>3 DEF Port, Respond
<1>5. QED
  BY <1>1, <1>3, <1>4, QuietStay

LEMMA QueuesMove ==
  ASSUME TypeOK, QueueWaits, sim = "run", Placed, sim' \in {"run", "done"}, [Next]_vars
  PROVE  QueueStep
<1> USE Zenon
<1>1. ASSUME NEW t \in TREs, NEW ev, NEW op, Performs(t, ev, op), Perform(t, ev, op)
      PROVE  QueueStep
  <2>1. sim' = "run"
    BY <1>1, PerformMoves
  <2>2. QED
    BY <1>1, <2>1, PerformStep
<1>2. ASSUME NEW t \in TREs, TickEvent(t) PROVE QueueStep
  <2>1. CASE TickInRetry(t) \/ TickInvalid(t)
    BY <2>1 DEF TickInRetry, TickInvalid, Abort
  <2>2. CASE TickPerform(t)
    <3>1. PICK op \in Prims : op = Current(t).op
      BY <2>2 DEF TickPerform, Reads
    <3>2. Performs(t, "tick", op) /\ Perform(t, "tick", op)
      BY <2>2, <3>1 DEF TickPerform, Reads, Performs
    <3>3. QED
      BY <1>1, <3>2
  <2>3. CASE TickDefer(t)
    BY <2>3, DeferStep DEF Placed
  <2>4. QED
    BY <1>2, <2>1, <2>2, <2>3, TickStep DEF TickEvent
<1>3. ASSUME NEW t \in TREs, NEW op \in Prims, PrimEvent(t, op) PROVE QueueStep
  <2>1. Performs(t, op, op) /\ Perform(t, op, op)
    BY <1>3 DEF PrimEvent, Performs
  <2>2. QED
    BY <1>1, <2>1
<1>4. ASSUME NEW t \in TREs, Watchdog(t) PROVE FALSE
  BY <1>4 DEF Watchdog, noRequest, noResponse, Abort
<1>5. CASE UNCHANGED vars
  <2>1. UNCHANGED <<trace, pos>> /\ UNCHANGED qVars /\ sched' = sched
    BY <1>5 DEF vars
  <2>2. QED
    BY <2>1, QuietStay DEF SameQueueEvents
<1>6. QED
  BY <1>2, <1>3, <1>4, <1>5, PortStep DEF Next, Stopped, Run

----------------------------------------------------------------------------
(* Counting. *)

LEMMA ListedFinite ==
  ASSUME TypeOK, NEW u \in TREs, NEW op, NEW n
  PROVE  /\ IsFiniteSet(Listed(u, op, n)) /\ IsFiniteSet(Performed(u, op, n))
         /\ Cardinality(Listed(u, op, n)) \in Nat
         /\ Cardinality(Performed(u, op, n)) \in Nat
<1> USE Zenon
<1> DEFINE m == Len(trace[u])
<1>1. trace[u] \in Seq(Entry)
  BY DEF TypeOK, ReplayOK
<1>2. m \in Nat /\ DOMAIN trace[u] = 1 .. m
  BY <1>1, SeqShape
<1> HIDE DEF m
<1>3. IsFiniteSet(1 .. m)
  <2>1. 1 \in Int /\ m \in Int
    BY <1>2, SMTT(20)
  <2>2. QED
    BY <2>1, FS_Interval
<1>4. Listed(u, op, n) \in SUBSET (1 .. m)
  BY <1>2 DEF Listed
<1>5. Performed(u, op, n) \in SUBSET (1 .. m)
  BY <1>4 DEF Performed
<1>6. QED
  BY <1>3, <1>4, <1>5, FS_Subset, FS_CardinalityType

(* QueueStep keeps the balance. *)
LEMMA ConservedStep ==
  ASSUME TypeOK, QueueStep, NEW q \in Queues \cap (TREs \X TREs), Conserved(q)
  PROVE  Conserved(q)'
<1> USE Zenon
<1> DEFINE a == q[1]
           b == q[2]
           P == Performed(a, "PUSH", b)
           Q == Performed(b, "POP", a)
<1>1. /\ q = <<a, b>> /\ a \in TREs /\ b \in TREs /\ a \in Nat /\ b \in Nat
      /\ q \in Queues
  BY Ids, SMTT(20)
<1>2. /\ IsFiniteSet(P) /\ IsFiniteSet(Q)
      /\ Cardinality(P) \in Nat /\ Cardinality(Q) \in Nat
  BY <1>1, ListedFinite
<1>3. qlen \in [Queues -> Nat]
  BY ConfigAssumption, SMTT(20) DEF TypeOK, QueueOK
<1>4. Cardinality(P) = Cardinality(Q) + qlen[q]
  BY DEF Conserved
<1> SUFFICES Cardinality(P') = Cardinality(Q') + qlen'[q]
  BY DEF Conserved
<1>5. ASSUME P' = P, Q' = Q, qlen'[q] = qlen[q]
      PROVE  Cardinality(P') = Cardinality(Q') + qlen'[q]
  BY <1>4, <1>5
<1>6. CASE UNCHANGED qlen /\ \A u \in TREs : AllSame(u)
  BY <1>1, <1>5, <1>6 DEF AllSame, SamePerformed
<1>7. ASSUME NEW t \in TREs, NEW n \in Nat, <<t, n>> \in Queues, OneMore(t, "PUSH", n),
             qlen' = [qlen EXCEPT ![<<t, n>>] = @ + 1]
      PROVE  Cardinality(P') = Cardinality(Q') + qlen'[q]
  <2>1. Q' = Q
    BY <1>1, <1>7 DEF OneMore, SamePerformed
  <2>2. CASE a = t /\ b = n
    <3>1. PICK p : p \notin P /\ P' = P \cup {p}
      BY <1>7, <2>2 DEF OneMore
    <3> HIDE DEF P, Q
    <3>2. Cardinality(P') = Cardinality(P) + 1
      BY <1>2, <3>1, FS_AddElement
    <3>3. qlen'[q] = qlen[q] + 1 /\ qlen[q] \in Nat
      BY <1>1, <1>3, <1>7, <2>2
    <3>4. QED
      BY <1>2, <1>4, <2>1, <3>2, <3>3, SMTT(20)
  <2>3. CASE ~(a = t /\ b = n)
    <3>1. P' = P
      BY <1>1, <1>7, <2>3 DEF OneMore, SamePerformed
    <3>2. q # <<t, n>>
      BY <1>1, <2>3, SMTT(20)
    <3>3. qlen'[q] = qlen[q]
      BY <1>1, <1>3, <1>7, <3>2
    <3>4. QED
      BY <1>5, <2>1, <3>1, <3>3
  <2>4. QED
    BY <2>2, <2>3
<1>8. ASSUME NEW t \in TREs, NEW n \in Nat, <<n, t>> \in Queues, OneMore(t, "POP", n),
             qlen[<<n, t>>] # 0, qlen' = [qlen EXCEPT ![<<n, t>>] = @ - 1]
      PROVE  Cardinality(P') = Cardinality(Q') + qlen'[q]
  <2>1. P' = P
    BY <1>1, <1>8 DEF OneMore, SamePerformed
  <2>2. CASE b = t /\ a = n
    <3>1. PICK p : p \notin Q /\ Q' = Q \cup {p}
      BY <1>8, <2>2 DEF OneMore
    <3> HIDE DEF P, Q
    <3>2. Cardinality(Q') = Cardinality(Q) + 1
      BY <1>2, <3>1, FS_AddElement
    <3>3. qlen'[q] = qlen[q] - 1 /\ qlen[q] \in Nat
      BY <1>1, <1>3, <1>8, <2>2
    <3>4. QED
      BY <1>2, <1>4, <2>1, <3>2, <3>3, SMTT(20)
  <2>3. CASE ~(b = t /\ a = n)
    <3>1. Q' = Q
      BY <1>1, <1>8, <2>3 DEF OneMore, SamePerformed
    <3>2. q # <<n, t>>
      BY <1>1, <2>3, SMTT(20)
    <3>3. qlen'[q] = qlen[q]
      BY <1>1, <1>3, <1>8, <3>2
    <3>4. QED
      BY <1>5, <2>1, <3>1, <3>3
  <2>4. QED
    BY <2>2, <2>3
<1>9. QED
  BY <1>6, <1>7, <1>8 DEF QueueStep

(* A TRE that has halted has performed all its trace lists, if EOF is the  *)
(* last entry; one that waits has not performed the entry it waits at.     *)
LEMMA HaltedPerformed ==
  ASSUME TypeOK, NEW u \in TREs, PlacedTRE(u), EndsOnce(u), HasRead(u, {"EOF"}),
         NoEvent(u), NEW op \in {"PUSH", "POP"}, NEW n
  PROVE  Performed(u, op, n) = Listed(u, op, n)
<1> USE Zenon
<1>1. ~AtQueue(u)
  BY DEF PlacedTRE, QueueWait, AtQueue, HasRead
<1>2. ~Pending(u)
  BY <1>1 DEF Pending, NoEvent, Events, Prims
<1>3. Frontier(u) = pos[u]
  BY <1>2 DEF Frontier
<1>4. /\ last[u] < pos[u] /\ last[u] = Len(trace[u])
  BY DEF HasRead, LastRead, EndsOnce
<1>5. trace[u] \in Seq(Entry) /\ pos[u] \in Nat
  BY DEF TypeOK, ReplayOK
<1>6. \A i \in DOMAIN trace[u] : i < pos[u]
  BY <1>4, <1>5, SeqShape, SMTT(20)
<1>7. QED
  BY <1>3, <1>6 DEF Performed, Listed

LEMMA WaiterPerformed ==
  ASSUME TypeOK, NEW u \in TREs, JustRead(u), Pending(u),
         NEW op, NEW n, LastRead(u).op = op, LastRead(u).val = n
  PROVE  Cardinality(Performed(u, op, n)) < Cardinality(Listed(u, op, n))
<1> USE Zenon
<1> DEFINE P == Performed(u, op, n)
           L == Listed(u, op, n)
<1>1. Frontier(u) = last[u] /\ last[u] \in Nat
  BY DEF Frontier, JustRead, TypeOK, ReplayOK
<1>2. ~(last[u] < last[u])
  BY <1>1, SMTT(20)
<1>3. last[u] \in L /\ last[u] \notin P /\ P \subseteq L
  BY <1>1, <1>2 DEF JustRead, LastRead, Listed, Performed
<1>4. /\ IsFiniteSet(L) /\ Cardinality(L) \in Nat /\ Cardinality(P) \in Nat
  BY ListedFinite
<1> HIDE DEF P, L
<1>5. P \in SUBSET L /\ P # L
  BY <1>3
<1>6. Cardinality(P) <= Cardinality(L) /\ Cardinality(P) # Cardinality(L)
  BY <1>4, <1>5, FS_Subset
<1>7. Cardinality(P) < Cardinality(L)
  BY <1>4, <1>6, SMTT(20)
<1>8. QED
  BY <1>7 DEF P, L

LEMMA NobodyStranded ==
  ASSUME TypeOK, sim = "run", Placed, IdleCounted, QueueWaits,
         NEW q \in Queues \cap (TREs \X TREs), Conserved(q)
  PROVE  NotStranded(q)
<1> USE Zenon
<1> DEFINE a == q[1]
           b == q[2]
           P == Cardinality(Performed(a, "PUSH", b))
           Q == Cardinality(Performed(b, "POP", a))
           L == Cardinality(Listed(a, "PUSH", b))
           M == Cardinality(Listed(b, "POP", a))
<1>1. q = <<a, b>> /\ a \in TREs /\ b \in TREs /\ q \in Queues
  BY SMT
<1>2. /\ P \in Nat /\ Q \in Nat /\ L \in Nat /\ M \in Nat
      /\ QueueDepth \in Nat /\ P = Q + qlen[q]
  BY <1>1, ListedFinite, ConfigAssumption DEF Conserved
<1>3. PlacedTRE(a) /\ PlacedTRE(b)
  BY <1>1 DEF Placed
<1>4. \A u \in {a, b} : HasRead(u, {"EOF"}) => NoEvent(u)
  BY <1>1 DEF IdleCounted, Halted
<1>5. ASSUME Matched(q)
      PROVE  EndsOnce(a) /\ EndsOnce(b) /\ M <= L /\ L <= M + QueueDepth
  BY <1>5 DEF Matched
<1>6. ASSUME Matched(q), toPop[q] # NULL, HasRead(a, {"EOF"}) PROVE FALSE
  <2>1. toPop[q] = b /\ qlen[q] = 0
    BY <1>1, <1>6 DEF QueueWaits
  <2>2. JustRead(b) /\ LastRead(b).op = "POP" /\ q = <<LastRead(b).val, b>>
    BY <1>1, <1>3, <2>1 DEF PlacedTRE, QueueWait
  <2>3. LastRead(b).val = a /\ Pending(b)
    <3>1. LastRead(b).val = a
      BY <2>2, SMTT(20)
    <3>2. QED
      BY <1>1, <2>1, <3>1 DEF Pending, AtQueue
  <2>4. Q < M
    BY <1>1, <2>2, <2>3, WaiterPerformed
  <2>5. P = L
    BY <1>1, <1>3, <1>4, <1>5, <1>6, HaltedPerformed
  <2> HIDE DEF P, Q, L, M
  <2>6. QED
    BY <1>2, <1>5, <1>6, <2>1, <2>4, <2>5, SMTT(20)
<1>7. ASSUME Matched(q), toPush[q] # NULL, HasRead(b, {"EOF"}) PROVE FALSE
  <2>1. toPush[q] = a /\ qlen[q] = QueueDepth
    BY <1>1, <1>7 DEF QueueWaits
  <2>2. JustRead(a) /\ LastRead(a).op = "PUSH" /\ q = <<a, LastRead(a).val>>
    BY <1>1, <1>3, <2>1 DEF PlacedTRE, QueueWait
  <2>3. LastRead(a).val = b /\ Pending(a)
    <3>1. LastRead(a).val = b
      BY <2>2, SMT
    <3>2. QED
      BY <1>1, <2>1, <3>1 DEF Pending, AtQueue
  <2>4. P < L
    BY <1>1, <2>2, <2>3, WaiterPerformed
  <2>5. Q = M
    BY <1>1, <1>3, <1>4, <1>5, <1>7, HaltedPerformed
  <2> HIDE DEF P, Q, L, M
  <2>6. QED
    BY <1>2, <1>5, <1>7, <2>1, <2>4, <2>5, SMTT(20)
<1>8. QED
  BY <1>6, <1>7 DEF NotStranded
=============================================================================
