------------------------------ MODULE M5Proofs ------------------------------
(***************************************************************************)
(* The safety properties of the m5threads objects, for any number of       *)
(* threads and rounds.                                                     *)
(***************************************************************************)
EXTENDS M5Locks, M5Barrier, M5Cond, M5Life, FiniteSetTheorems, TLAPS

\* A set of threads is finite, and a thread that joins or leaves it changes
\* its size by one.
LEMMA CountThreads ==
    ASSUME NEW S, S \subseteq Threads
    PROVE  /\ IsFiniteSet(S)
           /\ Cardinality(S) \in Nat
           /\ Cardinality(S) = 0 <=> S = {}
           /\ \A t \in Threads \ S : Cardinality(S \cup {t}) = Cardinality(S) + 1
           /\ \A t \in S : Cardinality(S \ {t}) = Cardinality(S) - 1
  <1>1. IsFiniteSet(S)
    BY ThreadsAssumption, FS_Subset
  <1> QED
    <2>1. Cardinality(S) \in Nat /\ (Cardinality(S) = 0 <=> S = {})
      BY <1>1, FS_CardinalityType, FS_EmptySet, Zenon
    <2>2. \A t \in Threads \ S : Cardinality(S \cup {t}) = Cardinality(S) + 1
      BY <1>1, FS_AddElement, Zenon
    <2>3. \A t \in S : Cardinality(S \ {t}) = Cardinality(S) - 1
      BY <1>1, FS_RemoveElement, Zenon
    <2> QED
      BY <1>1, <2>1, <2>2, <2>3, Zenon

-----------------------------------------------------------------------------
(***************************************************************************)
(* Locks.  Each word says who is in the lock, as long as the writer field  *)
(* holds no truncated id; once it does, nobody but that writer is in, and  *)
(* nobody gets in any more.                                                *)
(***************************************************************************)
LocksInv ==
    /\ LocksTypeOK
    /\ \A t \in Threads : lpc[t] = "locked" => mutex = 1
    /\ \A t, u \in Threads : lpc[t] = "locked" /\ lpc[u] = "locked" => t = u
    /\ mutex = 1 => \E t \in Threads : lpc[t] = "locked"
    /\ \A t \in Threads : lpc[t] = "writing" => writer = Stored(t)
    /\ \A t, u \in Threads : lpc[t] = "writing" /\ lpc[u] = "writing" => t = u
    /\ \A t \in Threads : writer = t => lpc[t] = "writing" /\ readers = 0
    /\ writer = NoOne => readers = Cardinality(LIn("reading"))
    /\ writer # NoOne => LIn("reading") = {}
    /\ Fits = Threads => writer # Truncated

\* Steps that move no thread in or out of the readers keep their number.
LEMMA ReadersKept ==
    ASSUME LocksInv, NEW t \in Threads, NEW p, LGo(t, p),
           p # "reading", lpc[t] # "reading"
    PROVE  LIn("reading")' = LIn("reading")
  BY DEF LocksInv, LocksTypeOK, LGo, LIn

\* What the writer field keeps of an id is no thread but that one, and never
\* the mark of a lock without a writer.
LEMMA StoredIsOwn ==
    ASSUME NEW t \in Threads
    PROVE  /\ Stored(t) \in Threads \cup {Truncated} /\ Stored(t) # NoOne
           /\ \A u \in Threads : Stored(t) = u => u = t
           /\ Fits = Threads => Stored(t) # Truncated
  BY LocksAssumption, Zenon DEF Stored, NoOne, Truncated

\* Every step of a thread keeps the invariant.
LEMMA LocksStepInv ==
    ASSUME LocksInv, NEW t \in Threads, LocksStep(t)
    PROVE  LocksInv'
  <1> USE DEF LocksInv, LocksTypeOK, LPlaces
  <1>1. CASE pthread_mutex_lock(t)
    <2>1. LIn("reading")' = LIn("reading")
      BY <1>1, ReadersKept DEF pthread_mutex_lock
    <2> QED
      BY <1>1, <2>1 DEF pthread_mutex_lock, LGo
  <1>2. CASE Acquire(t)
    <2>1. LIn("reading")' = LIn("reading")
      BY <1>2, ReadersKept DEF Acquire
    <2> QED
      BY <1>2, <2>1 DEF Acquire, LGo
  <1>3. CASE pthread_mutex_trylock(t)
    <2>1. LIn("reading")' = LIn("reading")
      BY <1>3, ReadersKept DEF pthread_mutex_trylock
    <2> QED
      BY <1>3, <2>1 DEF pthread_mutex_trylock, LGo
  <1>4. CASE pthread_mutex_unlock(t)
    <2>1. LIn("reading")' = LIn("reading")
      BY <1>4, ReadersKept DEF pthread_mutex_unlock
    <2> QED
      BY <1>4, <2>1 DEF pthread_mutex_unlock, LGo
  <1>5. CASE pthread_rwlock_rdlock(t)
    <2>1. CASE lpc[t] = "rdtry" /\ writer = NoOne /\ LGo(t, "reading")
      <3>1. LIn("reading")' = LIn("reading") \cup {t} /\ t \notin LIn("reading")
        BY <2>1 DEF LGo, LIn
      <3>2. Cardinality(LIn("reading")') = readers + 1 /\ readers' = readers + 1
        BY <1>5, <2>1, <3>1, CountThreads DEF pthread_rwlock_rdlock, LIn, LGo
      <3> QED
        BY <1>5, <2>1, <3>2, LocksAssumption DEF pthread_rwlock_rdlock, LGo
    <2>2. CASE /\ readers' = readers
               /\ \E p \in {"rdspin", "rdtry"} : LGo(t, p)
               /\ lpc[t] \in {"idle", "rdspin", "rdtry"}
      <3>1. LIn("reading")' = LIn("reading")
        BY <2>2, ReadersKept
      <3> QED
        BY <1>5, <2>2, <3>1 DEF pthread_rwlock_rdlock, LGo
    <2> QED
      BY <1>5, <2>1, <2>2 DEF pthread_rwlock_rdlock
  <1>6. CASE pthread_rwlock_wrlock(t)
    <2>1. CASE /\ lpc[t] = "wrtry" /\ writer = NoOne /\ readers = 0
               /\ writer' = Stored(t) /\ LGo(t, "writing")
      <3>1. LIn("reading")' = LIn("reading")
        BY <2>1, ReadersKept
      <3>2. LIn("reading") = {}
        BY <2>1, CountThreads, Zenon DEF LIn
      <3>3. \A u \in Threads : lpc[u] # "writing"
        BY <2>1, StoredIsOwn
      <3> QED
        BY <1>6, <2>1, <3>1, <3>2, <3>3, StoredIsOwn DEF pthread_rwlock_wrlock, LGo
    <2>2. CASE /\ writer' = writer
               /\ \E p \in {"wrspin", "wrspin2", "wrtry"} : LGo(t, p)
               /\ lpc[t] \in {"idle", "wrspin", "wrspin2", "wrtry"}
      <3>1. LIn("reading")' = LIn("reading")
        BY <2>2, ReadersKept
      <3> QED
        BY <1>6, <2>2, <3>1 DEF pthread_rwlock_wrlock, LGo
    <2> QED
      BY <1>6, <2>1, <2>2 DEF pthread_rwlock_wrlock, WrSpin, WrTry
  <1>7. CASE pthread_rwlock_unlock(t)
    <2>1. CASE lpc[t] = "writing"
      <3>1. LIn("reading")' = LIn("reading") /\ LIn("reading") = {}
        BY <1>7, <2>1, ReadersKept, StoredIsOwn DEF pthread_rwlock_unlock
      <3>2. \A u \in Threads : lpc'[u] # "writing"
        BY <1>7, <2>1 DEF pthread_rwlock_unlock, LGo
      <3>3. CASE writer = t
        <4>1. readers = 0 /\ writer' = NoOne /\ readers' = readers
          BY <1>7, <3>3 DEF pthread_rwlock_unlock
        <4>2. \A u \in Threads : writer' # u
          BY <4>1, LocksAssumption
        <4>3. writer' # Truncated /\ readers' = Cardinality(LIn("reading")')
          BY <3>1, <4>1, FS_EmptySet, Zenon DEF NoOne, Truncated
        <4> QED
          BY <1>7, <2>1, <3>1, <3>2, <4>1, <4>2, <4>3 DEF pthread_rwlock_unlock, LGo
      <3>4. CASE writer # t
        <4>1. writer = Truncated /\ writer' = writer /\ readers' = readers - 1
          BY <1>7, <2>1, <3>4, StoredIsOwn DEF pthread_rwlock_unlock
        <4>2. writer' # NoOne /\ \A u \in Threads : writer' # u
          BY <4>1, LocksAssumption, Zenon DEF NoOne, Truncated
        <4> QED
          BY <1>7, <2>1, <3>1, <3>2, <4>1, <4>2 DEF pthread_rwlock_unlock, LGo
      <3> QED
        BY <3>3, <3>4
    <2>2. CASE lpc[t] = "reading"
      <3>1. LIn("reading")' = LIn("reading") \ {t} /\ t \in LIn("reading")
        BY <1>7, <2>2 DEF pthread_rwlock_unlock, LGo, LIn
      <3>2. writer = NoOne /\ readers' = readers - 1 /\ writer' = writer
        BY <1>7, <2>2, <3>1, LocksAssumption DEF pthread_rwlock_unlock
      <3>3. Cardinality(LIn("reading")') = readers - 1
        BY <3>1, <3>2, CountThreads DEF LIn
      <3> QED
        BY <1>7, <2>2, <3>2, <3>3, LocksAssumption DEF pthread_rwlock_unlock, LGo
    <2> QED
      BY <1>7, <2>1, <2>2 DEF pthread_rwlock_unlock
  <1> QED
    BY <1>1, <1>2, <1>3, <1>4, <1>5, <1>6, <1>7, Zenon DEF LocksStep

\* What the words of the locks say, in every state.
LEMMA LocksInvHolds == LocksSpec => []LocksInv
  <1>1. LocksInit => LocksInv
    <2> SUFFICES ASSUME LocksInit PROVE LocksInv
      OBVIOUS
    <2>1. LIn("reading") = {}
      BY DEF LocksInit, LIn
    <2>2. readers = Cardinality(LIn("reading"))
      BY <2>1, FS_EmptySet DEF LocksInit
    <2>3. \A t \in Threads : lpc[t] = "idle" /\ writer # t
      BY LocksAssumption DEF LocksInit
    <2>4. writer # Truncated
      BY DEF LocksInit, NoOne, Truncated
    <2> QED
      BY <2>1, <2>2, <2>3, <2>4 DEF LocksInit, LocksInv, LocksTypeOK, LPlaces
  <1>2. LocksInv /\ [LocksNext]_locksVars => LocksInv'
    <2>1. ASSUME LocksInv, UNCHANGED locksVars PROVE LocksInv'
      BY <2>1 DEF LocksInv, LocksTypeOK, locksVars, LIn
    <2> QED
      BY <2>1, LocksStepInv DEF LocksNext
  <1> QED
    BY <1>1, <1>2, PTL DEF LocksSpec

\* The mutex and the read-write lock exclude whom they should, whatever the
\* order of the steps of pthread_rwlock_rdlock, _wrlock, _unlock and
\* pthread_mutex_lock, _trylock, _unlock.  No width of the writer field is
\* assumed: a writer whose id does not fit leaves the lock taken for ever, but
\* lets nobody in beside it.
THEOREM LocksCorrect == LocksSpec => []LocksExclude
  <1>1. LocksInv => LocksExclude
    <2> SUFFICES ASSUME LocksInv PROVE LocksExclude
      OBVIOUS
    <2>1. \A t \in LIn("writing") : LIn("reading") = {}
      BY StoredIsOwn DEF LocksInv, LIn
    <2> QED
      BY <2>1 DEF LocksInv, LocksExclude, LIn
  <1> QED
    BY <1>1, LocksInvHolds, PTL

\* When the writer field is wide enough for every thread id, the words say
\* that the mutex and the read-write lock are free once every thread has left
\* them through pthread_mutex_unlock and pthread_rwlock_unlock.
THEOREM LocksAreLeftFree ==
    ASSUME Fits = Threads
    PROVE  LocksSpec => []FreeWhenUnheld
  <1>1. LocksInv => FreeWhenUnheld
    <2> SUFFICES ASSUME LocksInv PROVE FreeWhenUnheld
      OBVIOUS
    <2>1. LIn("locked") = {} => mutex = 0
      BY DEF LocksInv, LocksTypeOK, LIn
    <2>2. LIn("writing") = {} => writer = NoOne
      BY DEF LocksInv, LocksTypeOK, LIn
    <2>3. LIn("reading") = {} => readers = 0
      BY FS_EmptySet DEF LocksInv, LocksTypeOK
    <2> QED
      BY <2>1, <2>2, <2>3 DEF FreeWhenUnheld
  <1> QED
    BY <1>1, LocksInvHolds, PTL
-----------------------------------------------------------------------------
(***************************************************************************)
(* Barrier.  There is a round r such that every thread is in call r + 1,   *)
(* has returned from call r, or still has to notice that round r ended.    *)
(* The counter counts the threads that arrived in round r + 1, up or down. *)
(***************************************************************************)
Arrived(r) == {t \in Threads : bpc[t] = "spin" /\ passes[t] = r}

InRound(r) ==
    /\ \A t \in Threads :
         /\ calls[t] = IF bpc[t] = "out" THEN passes[t] ELSE passes[t] + 1
         /\ bpc[t] \in {"out", "arrive"} => passes[t] = r
         /\ bpc[t] = "spin" => passes[t] = r \/ passes[t] + 1 = r
         /\ bpc[t] = "arrive" => initial_direction[t] = direction
         /\ bpc[t] = "spin" => (initial_direction[t] = direction <=> passes[t] = r)
    /\ counter = IF direction = 0 THEN Cardinality(Arrived(r))
                                  ELSE NumThreads - Cardinality(Arrived(r))
    /\ Arrived(r) # Threads

BarrierInv == BarrierTypeOK /\ \E r \in Nat : InRound(r)

\* The arrival of a thread that is not the last, and of the last.
LEMMA ArriveInv ==
    ASSUME BarrierTypeOK, NEW r \in Nat, InRound(r),
           NEW t \in Threads, BarrierArrive(t)
    PROVE  BarrierTypeOK' /\ (InRound(r)' \/ InRound(r + 1)')
  <1> DEFINE n == Cardinality(Arrived(r))
  <1>1. t \notin Arrived(r) /\ Arrived(r)' = Arrived(r) \cup {t} /\ Arrived(r) \subseteq Threads
    BY DEF BarrierArrive, BarrierTypeOK, InRound, Arrived
  <1>2. n \in Nat /\ Cardinality(Arrived(r)') = n + 1
    BY <1>1, CountThreads
  <1>3. n + 1 <= NumThreads /\ (n + 1 = NumThreads <=> Arrived(r)' = Threads)
    <2>1. Arrived(r)' \subseteq Threads
      BY <1>1, Zenon
    <2>2. /\ Cardinality(Arrived(r)') <= Cardinality(Threads)
          /\ Cardinality(Arrived(r)') = Cardinality(Threads) <=> Arrived(r)' = Threads
      BY <2>1, ThreadsAssumption, FS_Subset, Zenon
    <2> QED
      BY <1>2, <2>2, BarrierAssumption
  <1>4. initial_direction[t] = direction /\ passes[t] = r
    BY DEF BarrierArrive, InRound
  <1>5. /\ counter' = IF direction = 0 THEN n + 1 ELSE NumThreads - (n + 1)
        /\ direction' = IF n + 1 = NumThreads THEN 1 - direction ELSE direction
    <2>1. NumThreads \in Nat
      BY BarrierAssumption, ThreadsAssumption, FS_CardinalityType
    <2> QED
      BY <1>2, <1>3, <1>4, <2>1 DEF BarrierArrive, BarrierTypeOK, InRound
  <1>6. BarrierTypeOK'
    BY <1>2, <1>5, BarrierAssumption, ThreadsAssumption, FS_CardinalityType
    DEF BarrierArrive, BarrierTypeOK
  <1>7. CASE n + 1 # NumThreads
    <2>1. direction' = direction
      BY <1>5, <1>7
    <2>2. \A u \in Threads \ {t} : bpc'[u] = bpc[u]
      BY DEF BarrierArrive, BarrierTypeOK
    <2>3. bpc'[t] = "spin"
      BY DEF BarrierArrive, BarrierTypeOK
    <2>4. Arrived(r)' # Threads
      BY <1>3, <1>7
    <2>5. counter' = IF direction' = 0 THEN Cardinality(Arrived(r)')
                                       ELSE NumThreads - Cardinality(Arrived(r)')
      BY <1>2, <1>5, <2>1
    <2>6. InRound(r)'
      BY <1>4, <2>1, <2>2, <2>3, <2>4, <2>5 DEF BarrierArrive, BarrierTypeOK, InRound
    <2> QED
      BY <1>6, <2>6
  <1>8. CASE n + 1 = NumThreads
    <2>1. direction' = 1 - direction /\ Arrived(r)' = Threads
      BY <1>3, <1>5, <1>8
    <2>2. \A u \in Threads : /\ bpc'[u] = "spin" /\ passes'[u] = r /\ calls'[u] = r + 1
                              /\ initial_direction'[u] = direction
      BY <1>1, <1>4, <2>1 DEF BarrierArrive, BarrierTypeOK, InRound, Arrived
    <2>3. Arrived(r + 1)' = {}
      BY <2>2 DEF Arrived
    <2>4. counter' = IF direction' = 0 THEN 0 ELSE NumThreads
      BY <1>2, <1>5, <1>8, <2>1 DEF BarrierTypeOK
    <2>5. counter' = IF direction' = 0 THEN Cardinality(Arrived(r + 1)')
                                       ELSE NumThreads - Cardinality(Arrived(r + 1)')
      BY <1>2, <1>8, <2>3, <2>4, FS_EmptySet
    <2>6. InRound(r + 1)'
      BY <2>1, <2>2, <2>3, <2>5, <1>1 DEF BarrierTypeOK, InRound
    <2> QED
      BY <1>6, <2>6
  <1> QED
    BY <1>7, <1>8

\* Calls and returns stay in the round.
LEMMA CallInv ==
    ASSUME BarrierTypeOK, NEW r \in Nat, InRound(r),
           NEW t \in Threads, BarrierCall(t) \/ BarrierReturn(t)
    PROVE  BarrierTypeOK' /\ InRound(r)'
  <1>1. Arrived(r)' = Arrived(r)
    BY DEF BarrierCall, BarrierReturn, BarrierTypeOK, InRound, Arrived
  <1>2. BarrierTypeOK'
    BY DEF BarrierCall, BarrierReturn, BarrierTypeOK
  <1>3. CASE BarrierCall(t)
    BY <1>1, <1>3 DEF BarrierCall, BarrierTypeOK, InRound
  <1>4. CASE BarrierReturn(t)
    BY <1>1, <1>4 DEF BarrierReturn, BarrierTypeOK, InRound
  <1> QED
    BY <1>2, <1>3, <1>4

\* No thread gets out of its n-th pthread_barrier_wait before all of them are
\* in theirs, for any number of threads and of rounds.
THEOREM BarrierCorrect == BarrierSpec => []BarrierRounds
  <1>1. BarrierInit => BarrierInv
    <2> SUFFICES ASSUME BarrierInit PROVE BarrierTypeOK /\ InRound(0)
      BY DEF BarrierInv
    <2>1. Arrived(0) = {}
      BY DEF BarrierInit, Arrived
    <2>2. Threads # {}
      BY BarrierAssumption, FS_EmptySet
    <2> QED
      BY <2>1, <2>2, FS_EmptySet DEF BarrierInit, BarrierTypeOK, InRound
  <1>2. BarrierInv /\ [BarrierNext]_barrierVars => BarrierInv'
    <2> SUFFICES ASSUME BarrierTypeOK, NEW r \in Nat, InRound(r), [BarrierNext]_barrierVars
                 PROVE  BarrierTypeOK' /\ (InRound(r)' \/ InRound(r + 1)')
      BY DEF BarrierInv
    <2>1. CASE UNCHANGED barrierVars
      BY <2>1 DEF barrierVars, BarrierTypeOK, InRound, Arrived
    <2> QED
      BY <2>1, ArriveInv, CallInv DEF BarrierNext, BarrierStep
  <1>3. BarrierInv => BarrierRounds
    BY DEF BarrierInv, BarrierTypeOK, InRound, BarrierRounds
  <1> QED
    BY <1>1, <1>2, <1>3, PTL DEF BarrierSpec

-----------------------------------------------------------------------------
(***************************************************************************)
(* Condition variable, in a program that waits in phases.  Each of the two *)
(* locks has one holder, thread_count counts the threads from the store of *)
(* ++ to the store of --, the flag is up as long as one of them has to     *)
(* leave, and no thread is counting itself in meanwhile.                   *)
(***************************************************************************)
Counted == CIn({"poll", "leave", "dec"})

CondInv ==
    /\ CondTypeOK
    /\ \A t, u \in CIn({"in", "inc"}) : t = u
    /\ \A t \in CIn({"in", "inc"}) : cond_lock = 1
    /\ \A t, u \in CIn({"dec", "check", "clear"}) : t = u
    /\ \A t \in CIn({"dec", "check", "clear"}) : count_lock = 1
    /\ \A t \in CIn({"inc", "dec"}) : loaded[t] = thread_count
    /\ \A t \in CIn({"inc"}) : CIn(Leaving) = {} /\ (flag = 1 => CIn({"poll"}) = {})
    /\ thread_count = Cardinality(Counted)
    /\ CIn({"clear"}) # {} => thread_count = 0
    /\ CIn(Leaving) # {} => flag = 1
    /\ owed \subseteq CIn({"poll"})
    /\ owed # {} => flag = 1

\* A thread that moves without entering or leaving Counted keeps the count.
LEMMA CountedKept ==
    ASSUME CondInv, NEW t \in Threads, NEW p, CGo(t, p),
           cpc[t] \in {"poll", "leave", "dec"} <=> p \in {"poll", "leave", "dec"}
    PROVE  Counted' = Counted
  BY DEF CondInv, CondTypeOK, CGo, Counted, CIn

\* Every step of a thread keeps the invariant.
LEMMA CondStepInv ==
    ASSUME CondInv, Phased, NEW t \in Threads, CondStep(t)
    PROVE  CondInv'
  <1> USE DEF CondInv, CondTypeOK, CPlaces, CIn, Leaving
  <1>1. CASE CLock(t)
    <2>1. Counted' = Counted
      BY <1>1, CountedKept DEF CLock
    <2> QED
      BY <1>1, <2>1 DEF CLock, CGo
  <1>2. CASE CUnlock(t)
    <2>1. Counted' = Counted
      BY <1>2, CountedKept DEF CUnlock
    <2> QED
      BY <1>2, <2>1, SMTT(20) DEF CUnlock, CGo
  <1>3. CASE pthread_cond_broadcast(t)
    <2>1. Counted' = Counted
      BY <1>3 DEF pthread_cond_broadcast, Counted
    <2>2. CIn({"inc"}) = {}
      BY <1>3 DEF pthread_cond_broadcast, MayBroadcast
    <2> QED
      BY <1>3, <2>1, <2>2 DEF pthread_cond_broadcast
  <1>4. CASE WaitLoad(t)
    <2>1. Counted' = Counted
      BY <1>4, CountedKept DEF WaitLoad
    <2> QED
      BY <1>4, <2>1, SMTT(20) DEF WaitLoad, MayWait, CGo
  <1>5. CASE WaitStore(t)
    <2>1. Counted' = Counted \cup {t} /\ t \notin Counted /\ Counted \subseteq Threads
      BY <1>5 DEF WaitStore, CGo, Counted
    <2>2. thread_count' = Cardinality(Counted')
      BY <1>5, <2>1, CountThreads DEF WaitStore
    <2> QED
      BY <1>5, <2>2 DEF WaitStore, CGo
  <1>6. CASE WaitSee(t)
    <2>1. Counted' = Counted
      BY <1>6, CountedKept DEF WaitSee
    <2> QED
      BY <1>6, <2>1 DEF WaitSee, CGo
  <1>7. CASE LeaveLoad(t)
    <2>1. Counted' = Counted
      BY <1>7, CountedKept DEF LeaveLoad
    <2> QED
      BY <1>7, <2>1 DEF LeaveLoad, CGo
  <1>8. CASE LeaveStore(t)
    <2>1. Counted' = Counted \ {t} /\ t \in Counted /\ Counted \subseteq Threads
      BY <1>8 DEF LeaveStore, CGo, Counted
    <2>2. thread_count' = Cardinality(Counted') /\ thread_count' \in Nat
      BY <1>8, <2>1, CountThreads, SMTT(20) DEF LeaveStore
    <2> QED
      BY <1>8, <2>2 DEF LeaveStore, CGo
  <1>9. CASE LeaveCheck(t)
    <2>1. Counted' = Counted
      BY <1>9, CountedKept, SMTT(20) DEF LeaveCheck
    <2> QED
      BY <1>9, <2>1, SMTT(20) DEF LeaveCheck, CGo
  <1>10. CASE LeaveClear(t)
    <2>1. Counted' = Counted
      BY <1>10, CountedKept DEF LeaveClear
    <2>2. Counted = {}
      BY <1>10, CountThreads DEF LeaveClear, Counted
    <2> QED
      BY <1>10, <2>1, <2>2, SMTT(20) DEF LeaveClear, CGo, Counted
  <1> QED
    BY <1>1, <1>2, <1>3, <1>4, <1>5, <1>6, <1>7, <1>8, <1>9, <1>10, Zenon
    DEF CondStep

\* When a program broadcasts under the mutex and lets the waiters of one
\* broadcast out before the next wait, pthread_cond_wait loses no wake-up and
\* keeps its count, for any number of threads.
THEOREM CondCorrect ==
    ASSUME Phased
    PROVE  CondSpec => [](SignalKept /\ CountIsExact)
  <1>1. CondInit => CondInv
    <2> SUFFICES ASSUME CondInit PROVE CondInv
      OBVIOUS
    <2>1. \A P : "out" \notin P => CIn(P) = {}
      BY DEF CondInit, CIn
    <2>2. Cardinality(Counted) = 0
      BY <2>1, FS_EmptySet DEF Counted
    <2> QED
      BY <2>1, <2>2 DEF CondInit, CondInv, CondTypeOK, CPlaces, Leaving
  <1>2. CondInv /\ [CondNext]_condVars => CondInv'
    <2>1. ASSUME CondInv, UNCHANGED condVars PROVE CondInv'
      BY <2>1 DEF CondInv, CondTypeOK, condVars, CIn, Counted
    <2> QED
      BY <2>1, CondStepInv DEF CondNext
  <1>3. CondInv => SignalKept /\ CountIsExact
    <2> SUFFICES ASSUME CondInv, CIn({"inc", "dec"}) = {}
                 PROVE  Counted = CIn({"poll", "leave"})
      BY DEF CondInv, SignalKept, CountIsExact
    <2> QED
      BY DEF Counted, CIn
  <1> QED
    BY <1>1, <1>2, <1>3, PTL DEF CondSpec

-----------------------------------------------------------------------------
(***************************************************************************)
(* pthread_once.  Whoever is past the second test has set *once.           *)
(***************************************************************************)
Initializing == {t \in Threads : tpc[t] = "init"}

\* Where a child is that has come back from pthread_once.
Returned == {"body", "exit", "gone"}

OnceInv ==
    /\ tpc \in [Threads -> TPlaces] /\ once \in {0, 1} /\ inits \in Nat
    /\ \A t, u \in Threads : tpc[t] = "onceIn" /\ tpc[u] = "onceIn" => t = u
    /\ \A t \in Threads : tpc[t] = "onceIn" => once_mutex = 1
    /\ once = 0 => inits = 0 /\ Initializing = {}
    /\ inits + Cardinality(Initializing) = once
    /\ \A c \in Children : tpc[c] \in Returned => once = 1
    /\ tpc[Main] \in {"body", "over"}

\* A thread that moves, not in or out of pthread_once's sections, keeps the
\* invariant.
LEMMA OnceMove ==
    ASSUME OnceInv, NEW t \in Threads, NEW p \in TPlaces, TGo(t, p),
           tpc[t] # "init", p \notin {"init", "onceIn"},
           t = Main => p \in {"body", "over"},
           t # Main /\ p \in Returned => once = 1,
           UNCHANGED <<once, once_mutex, inits>>
    PROVE  OnceInv'
  <1>1. Initializing' = Initializing
    BY DEF OnceInv, TGo, Initializing
  <1> QED
    BY <1>1, LifeAssumption DEF OnceInv, TGo, Children

\* Every step of a child keeps the invariant.
LEMMA OnceStepInv ==
    ASSUME OnceInv, NEW c \in Children, LifeStep(c)
    PROVE  OnceInv'
  <1>0. c \in Threads /\ c # Main /\ Main \in Threads
    BY LifeAssumption DEF Children
  <1>1. CASE pthread_create(c)
    BY <1>0, <1>1, OnceMove, SMTT(20) DEF pthread_create, TPlaces, Returned
  <1>2. CASE pthread_exit(c)
    <2>1. CASE tpc[c] = "body" /\ TGo(c, "exit")
      <3>1. once = 1
        BY <2>1, Zenon DEF OnceInv, Returned
      <3> QED
        BY <1>0, <1>2, <2>1, <3>1, OnceMove DEF pthread_exit, TPlaces
    <2>2. CASE UNCHANGED tpc
      BY <1>2, <2>2, Zenon DEF pthread_exit, OnceInv, Initializing
    <2>3. CASE tpc[c] = "exit" /\ TGo(c, "gone")
      <3>1. once = 1
        BY <2>3, Zenon DEF OnceInv, Returned
      <3> QED
        BY <1>0, <1>2, <2>3, <3>1, OnceMove, Zenon DEF pthread_exit, TPlaces
    <2> QED
      BY <1>2, <2>1, <2>2, <2>3, SMTT(20) DEF pthread_exit
  <1>3. CASE pthread_join(c)
    BY <1>3 DEF pthread_join, OnceInv, Initializing
  <1>4. CASE OnceFast(c)
    <2>1. CASE once = 0
      BY <1>0, <1>4, <2>1, OnceMove, SMTT(20) DEF OnceFast, TPlaces, Returned
    <2>2. CASE once # 0
      BY <1>0, <1>4, <2>2, OnceMove, SMTT(20) DEF OnceFast, TPlaces, OnceInv
    <2> QED
      BY <2>1, <2>2
  <1>5. CASE OnceLock(c)
    <2>1. Initializing' = Initializing
      BY <1>0, <1>5 DEF OnceInv, OnceLock, TGo, Initializing
    <2>2. \A u \in Threads : tpc[u] # "onceIn"
      BY <1>5, SMTT(20) DEF OnceInv, OnceLock
    <2> QED
      BY <1>0, <1>5, <2>1, <2>2 DEF OnceInv, OnceLock, TGo, TPlaces, Returned, Children
  <1>6. CASE OnceDecide(c)
    <2>0. \A u \in Threads : tpc'[u] # "onceIn"
      BY <1>0, <1>6 DEF OnceInv, OnceDecide, TGo
    <2>1. CASE once = 0
      <3>1. Initializing' = {c}
        BY <1>0, <1>6, <2>1 DEF OnceInv, OnceDecide, TGo, Initializing
      <3>2. Cardinality(Initializing') = 1
        BY <3>1, FS_Singleton, Zenon
      <3>3. inits' + Cardinality(Initializing') = 1 /\ once' = 1 /\ inits' = inits
        BY <1>6, <2>1, <3>2, SMTT(20) DEF OnceInv, OnceDecide
      <3> QED
        BY <1>0, <1>6, <2>0, <2>1, <3>3 DEF OnceInv, OnceDecide, TGo, TPlaces
    <2>2. CASE once = 1
      <3>1. Initializing' = Initializing
        BY <1>0, <1>6, <2>2, SMTT(20) DEF OnceInv, OnceDecide, TGo, Initializing
      <3> QED
        BY <1>0, <1>6, <2>0, <2>2, <3>1, SMTT(20) DEF OnceInv, OnceDecide, TGo, TPlaces
    <2> QED
      BY <2>1, <2>2 DEF OnceInv
  <1>7. CASE OnceInit(c)
    <2>1. c \in Initializing /\ Initializing' = Initializing \ {c} /\ Initializing \subseteq Threads
      BY <1>0, <1>7 DEF OnceInv, OnceInit, TGo, Initializing
    <2>2. /\ Cardinality(Initializing') = Cardinality(Initializing) - 1
          /\ Cardinality(Initializing) \in Nat
      BY <2>1, CountThreads
    <2>3. once # 0
      BY <2>1 DEF OnceInv
    <2>4. inits' + Cardinality(Initializing') = once' /\ once' = once /\ inits' \in Nat
      BY <1>7, <2>2, SMTT(20) DEF OnceInv, OnceInit
    <2> QED
      BY <1>0, <1>7, <2>3, <2>4, SMTT(20) DEF OnceInv, OnceInit, TGo, TPlaces
  <1> QED
    BY <1>1, <1>2, <1>3, <1>4, <1>5, <1>6, <1>7 DEF LifeStep

\* Where threads are in pthread_once, in every state.
LEMMA OnceInvHolds == LifeSpec => []OnceInv
  <1>1. LifeInit => OnceInv
    <2> SUFFICES ASSUME LifeInit PROVE OnceInv
      OBVIOUS
    <2>1. Initializing = {}
      BY DEF LifeInit, Initializing
    <2>2. Cardinality(Initializing) = 0
      BY <2>1, FS_EmptySet
    <2> QED
      BY <2>1, <2>2, LifeAssumption DEF LifeInit, OnceInv, TPlaces, Returned, Children
  <1>2. OnceInv /\ [LifeNext]_lifeVars => OnceInv'
    <2>1. ASSUME OnceInv, UNCHANGED lifeVars PROVE OnceInv'
      BY <2>1 DEF OnceInv, lifeVars, Initializing
    <2>2. ASSUME OnceInv, MainExit PROVE OnceInv'
      BY <2>2, LifeAssumption, OnceMove DEF MainExit, TPlaces
    <2> QED
      BY <2>1, <2>2, OnceStepInv DEF LifeNext
  <1> QED
    BY <1>1, <1>2, PTL DEF LifeSpec

\* pthread_once starts its routine once, before the first of its callers
\* returns, for any number of threads.
THEOREM OnceIsOnce == LifeSpec => []OnceRunsOnce
  <1>1. OnceInv => OnceRunsOnce
    <2> SUFFICES ASSUME OnceInv PROVE OnceRunsOnce
      OBVIOUS
    <2>1. Initializing = {t \in Threads : tpc[t] = "init"}
      BY DEF Initializing
    <2> QED
      BY <2>1 DEF OnceInv, OnceRunsOnce, Returned
  <1> QED
    BY <1>1, OnceInvHolds, PTL

-----------------------------------------------------------------------------
(***************************************************************************)
(* Thread life.  Neither store of pthread_exit is made before it is called.*)
(***************************************************************************)
LifeInv ==
    /\ LifeTypeOK
    /\ tpc[Main] \in {"body", "over"}
    /\ \A c \in Children :
         /\ tcb[c].result \in {NoStatus, status[c]}
         /\ tcb[c].child_finished = 1 => status[c] # NoStatus
         /\ status[c] = NoStatus <=> tpc[c] \notin {"exit", "gone"}
         /\ joined[c] # NotJoined =>
               status[c] # NoStatus /\ joined[c] \in {status[c], NoStatus}

\* Every step keeps the invariant, in whichever order the stores are seen.
LEMMA LifeStepInv ==
    ASSUME LifeInv, NEW c \in Children, LifeStep(c)
    PROVE  LifeInv'
  <1> USE DEF LifeInv, LifeTypeOK, TPlaces
  <1>0. c \in Threads /\ c # Main /\ Main \in Threads
    BY LifeAssumption, Zenon DEF Children
  <1>1. CASE pthread_create(c)
    BY <1>0, <1>1, Zenon DEF pthread_create, TGo, Children
  <1>2. CASE pthread_exit(c)
    <2>1. CASE tpc[c] = "body"
      <3>1. PICK s \in Statuses : status' = [status EXCEPT ![c] = s] /\ TGo(c, "exit") /\ tcb' = tcb
        BY <1>2, <2>1 DEF pthread_exit
      <3>3. s # NoStatus /\ s # NotJoined
        BY LifeAssumption
      <3>4. status[c] = NoStatus
        BY <2>1, Zenon
      <3>5. joined[c] = NotJoined /\ tcb[c].result = NoStatus /\ joined' = joined
        BY <1>2, <3>4, SMTT(20) DEF pthread_exit
      <3>6. LifeTypeOK'
        BY <1>0, <1>2, <2>1, <3>1, SMTT(20) DEF pthread_exit, TGo
      <3>7. \A d \in Children :
              /\ tcb'[d].result \in {NoStatus, status'[d]}
              /\ tcb'[d].child_finished = 1 => status'[d] # NoStatus
              /\ status'[d] = NoStatus <=> tpc'[d] \notin {"exit", "gone"}
              /\ joined'[d] # NotJoined =>
                    status'[d] # NoStatus /\ joined'[d] \in {status'[d], NoStatus}
        BY <1>0, <2>1, <3>1, <3>3, <3>4, <3>5, SMTT(20) DEF TGo, Children
      <3>8. tpc'[Main] = tpc[Main]
        BY <1>0, <3>1, SMTT(20) DEF TGo
      <3> QED
        BY <3>6, <3>7, <3>8, Zenon
    <2>2. CASE tpc[c] = "exit" /\ UNCHANGED <<status, tpc>>
      <3>2. UNCHANGED <<joined, once, once_mutex, inits>>
        BY <1>2 DEF pthread_exit
      <3>3. StoreResult(c) \/ StoreFinished(c)
        BY <1>0, <1>2, <2>2 DEF pthread_exit, TGo
      <3>4. status[c] # NoStatus
        BY <2>2, SMTT(20)
      <3>5. /\ tcb' \in [Children -> [child_finished : {0, 1}, result : Statuses \cup {NoStatus}]]
            /\ \A d \in Children \ {c} : tcb'[d] = tcb[d]
            /\ tcb'[c].result \in {NoStatus, status[c]}
        <4>1. CASE StoreResult(c)
          BY <3>4, <4>1 DEF StoreResult
        <4>2. CASE StoreFinished(c)
          BY <4>2, SMTT(20) DEF StoreFinished
        <4> QED
          BY <3>3, <4>1, <4>2
      <3> QED
        BY <2>2, <3>2, <3>4, <3>5, SMTT(20)
    <2>3. CASE tpc[c] = "exit" /\ TGo(c, "gone") /\ UNCHANGED <<status, tcb>>
      BY <1>0, <1>2, <2>3, SMTT(20) DEF pthread_exit, TGo, Children
    <2> QED
      BY <1>2, <2>1, <2>2, <2>3, Zenon DEF pthread_exit
  <1>3. CASE pthread_join(c)
    BY <1>0, <1>3, SMTT(20) DEF pthread_join
  <1>4. CASE OnceFast(c) \/ OnceLock(c) \/ OnceDecide(c) \/ OnceInit(c)
    BY <1>0, <1>4, SMTT(20) DEF OnceFast, OnceLock, OnceDecide, OnceInit, TGo, Children
  <1> QED
    BY <1>1, <1>2, <1>3, <1>4, Zenon DEF LifeStep

\* pthread_join waits for the child's pthread_exit and returns its status or
\* the word before its store, for any number of threads and in whichever
\* order the stores of the child are seen.
THEOREM JoinCorrect == LifeSpec => []JoinWaitsForExit
  <1>1. LifeInit => LifeInv
    <2>1. NoStatus # NotJoined
      BY SMTT(20) DEF NoStatus, NotJoined
    <2> QED
      BY <2>1, LifeAssumption DEF LifeInit, LifeInv, LifeTypeOK, TPlaces, Children
  <1>2. LifeInv /\ [LifeNext]_lifeVars => LifeInv'
    <2>1. ASSUME LifeInv, UNCHANGED lifeVars PROVE LifeInv'
      BY <2>1, SMTT(20) DEF LifeInv, LifeTypeOK, lifeVars
    <2>2. ASSUME LifeInv, MainExit PROVE LifeInv'
      BY <2>2, LifeAssumption DEF LifeInv, LifeTypeOK, TPlaces, MainExit, TGo, Children
    <2> QED
      BY <2>1, <2>2, LifeStepInv DEF LifeNext
  <1>3. LifeInv => JoinWaitsForExit
    BY DEF LifeInv, JoinWaitsForExit
  <1> QED
    BY <1>1, <1>2, <1>3, PTL DEF LifeSpec
=============================================================================
