---------------------------- MODULE MCTRESync ----------------------------
(* Mutexes, barriers and queues among three TREs, and the example application. *)
EXTENDS MCTREWorkq

(***************************************************************************)
(* Three TREs.  The first initializes a mutex (1) and a barrier (2) that   *)
(* the others may come to before; all of them have a critical section and  *)
(* meet at the barrier, in their own order; cyc = 1 makes the primitives   *)
(* events of their own.                                                    *)
(***************************************************************************)
Bodies(c) ==
  {<<On("MTXLOCK", 1, c), On("MTXUNLOCK", 1, c), On("BARWAIT", 2, c)>>,
   <<On("BARWAIT", 2, c), On("MTXLOCK", 1, c), On("MTXUNLOCK", 1, c)>>,
   <<On("MTXLOCK", 1, c), AccB("ST", 3), On("BARWAIT", 2, 0),
     On("MTXUNLOCK", 1, c)>>,
   <<On("MTXLOCK", 1, 0), Stall({}), On("MTXUNLOCK", 1, c),
     On("BARWAIT", 2, 0), On("BARWAIT", 2, c)>>}
Meets(s) == Cardinality({i \in DOMAIN s : s[i].op = "BARWAIT"})
Locks(s) == \E i, j \in DOMAIN s :
              /\ i < j /\ s[i].op = "BARWAIT" /\ s[j].op = "MTXUNLOCK"
              /\ \E k \in 1 .. i : s[k].op = "MTXLOCK"
Setup(c) == <<On("MTXINIT", 1, c), Bar(2, 3, c)>>

(* Everybody meets equally often, and nobody waits for the barrier inside  *)
(* a critical section unless the other two lock the mutex only after it.   *)
WellMatched(f) ==
  /\ Meets(f[0]) = Meets(f[1]) /\ Meets(f[1]) = Meets(f[2])
  /\ \A t \in 0 .. 2 : Locks(f[t]) =>
       \A u \in 0 .. 2 \ {t} : f[u][1].op = "BARWAIT"
SyncPrograms ==
  {[t \in 0 .. 2 |-> (IF t = 0 THEN Setup(1) ELSE << >>) \o f[t] \o <<E0>>] :
     f \in {g \in UNION {[0 .. 2 -> Bodies(c)] : c \in 0 .. 1} : WellMatched(g)}}

(* One source, two sinks: every order of PushLength pushes, and as many    *)
(* pops as each sink is sent.                                              *)
PushLength == 4
Repeat(e, n) == [i \in 1 .. n |-> e]
QueuePrograms ==
  {[t \in 0 .. 2 |->
      (IF t = 0 THEN [i \in 1 .. PushLength |-> To("PUSH", f[i], c[0])]
       ELSE Repeat(To("POP", 0, c[t]),
                   Cardinality({i \in 1 .. PushLength : f[i] = t})))
        \o <<E0>>] :
     f \in [1 .. PushLength -> 1 .. 2], c \in [0 .. 2 -> 0 .. 1]}

MeetingPrograms == SyncPrograms \cup QueuePrograms \cup WorkqPrograms
=============================================================================
