------------------------------ MODULE EmuProofs ------------------------------
(***************************************************************************)
(* The emulation library, for any threads, PEs, queues and depth: no       *)
(* notification and no wake is lost, and the library implements EmuPrims.  *)
(* Then what the tracer writes, entry by entry: the counts that relate the *)
(* trace of a thread to its program (Sound), which TracerProofs builds on. *)
(***************************************************************************)
EXTENDS Emulation, FiniteSetTheorems, TLAPS

(* Thread t is in a call n (push or pop) on queue q. *)
Uses(t, n, q) == op[t] # Idle /\ op[t].name = n /\ op[t].q = q

(* As long as a thread waits in calls n on q, k others are on their way. *)
Covered(n, q, k) == Waiting(n, q) # {} => k <= Cardinality(Woken(n, q))

Sleeps(t) == op[t] # Idle /\ op[t].name = "sleep"

(* A PE that sleeps is one thread, and sleeps on its own counter. *)
OneSleeper ==
  /\ \A t \in Threads : Sleeps(t) => op[t].pe = core[t]
  /\ \A t, u \in Threads : Sleeps(t) /\ Sleeps(u) /\ core[t] = core[u] => t = u

EmuInv == EmuTypeOK /\ OneSleeper /\ NoLostNotify /\ AsleepIsUnwoken

----------------------------------------------------------------------------
(* What is used of sequences. *)
LEMMA SeqLen ==
  ASSUME NEW S, NEW s \in Seq(S)
  PROVE  Len(s) \in Nat /\ s \in [1 .. Len(s) -> S] /\ DOMAIN s = 1 .. Len(s)
OBVIOUS

LEMMA Initial ==
  ASSUME NEW n \in Nat
  PROVE  IsFiniteSet(1 .. n) /\ Cardinality(1 .. n) = n
BY FS_Interval

LEMMA SeqTail ==
  ASSUME NEW S, NEW s \in Seq(S), s # << >>
  PROVE  Head(s) \in S /\ Tail(s) \in Seq(S) /\ Len(Tail(s)) = Len(s) - 1
OBVIOUS

(* Sets of threads are finite. *)
LEMMA Counting ==
  ASSUME NEW S \in SUBSET Threads
  PROVE  /\ Cardinality(S) \in Nat
         /\ \A u \in Threads \ S : Cardinality(S \cup {u}) = Cardinality(S) + 1
         /\ \A u \in Threads : Cardinality(S \ {u}) >= Cardinality(S) - 1
         /\ Cardinality({}) = 0
         /\ \A u \in Threads : Cardinality({u}) = 1
<1>1. IsFiniteSet(S)
  BY EmuAssumption, FS_Subset
<1>2. Cardinality(S) \in Nat
  BY <1>1, FS_CardinalityType
<1>3. ASSUME NEW u \in Threads \ S PROVE Cardinality(S \cup {u}) = Cardinality(S) + 1
  BY <1>1, FS_AddElement
<1>4. ASSUME NEW u \in Threads PROVE Cardinality(S \ {u}) >= Cardinality(S) - 1
  <2>1. CASE u \in S
    <3>1. Cardinality(S \ {u}) = Cardinality(S) - 1
      BY <1>1, <2>1, FS_RemoveElement
    <3>2. QED
      BY <1>2, <3>1
  <2>2. CASE u \notin S
    <3>1. S \ {u} = S
      BY <2>2
    <3>2. QED
      BY <1>2, <3>1
  <2>3. QED
    BY <2>1, <2>2
<1>5. Cardinality({}) = 0
  BY FS_EmptySet
<1>6. \A u \in Threads : Cardinality({u}) = 1
  BY FS_Singleton, ZenonT(30)
<1>7. QED
  BY <1>2, <1>3, <1>4, <1>5, <1>6

(* What a call on a queue looks like. *)
LEMMA CallShape ==
  ASSUME EmuTypeOK, NEW t \in Threads
  PROVE  /\ op[t] = Idle <=> at[t] = "out"
         /\ op[t] # Idle => op[t] \in EmuCalls
         /\ op[t] # Idle /\ op[t].name = "push" => op[t].q \in QueuePairs /\ op[t].data \in Data
         /\ op[t] # Idle /\ op[t].name = "pop" => op[t].q \in QueuePairs
         /\ op[t] # Idle /\ op[t].name \in {"sleep", "wake"} => op[t].pe \in PEs
<1>1. op[t] \in EmuCalls \cup {Idle}
  BY DEF EmuTypeOK
<1>2. QED
  BY <1>1 DEF EmuTypeOK, EmuCalls, Prims!Calls

(* Waiting and Woken of a queue's calls. *)
LEMMA QueueSets ==
  ASSUME NEW n \in {"push", "pop"}, NEW q
  PROVE  /\ Waiting(n, q) = {t \in Threads : Uses(t, n, q) /\ at[t] = "wait"}
         /\ Woken(n, q) = {t \in Threads : Uses(t, n, q) /\ at[t] = "relock"}
  BY DEF Waiting, Woken, Uses

----------------------------------------------------------------------------
(* Fewer wait and more are on their way. *)
LEMMA CoverMono ==
  ASSUME NEW n, NEW q, NEW k \in Int, Covered(n, q, k),
         Waiting(n, q)' \subseteq Waiting(n, q), Woken(n, q) \subseteq Woken(n, q)'
  PROVE  Covered(n, q, k)'
<1>1. Woken(n, q)' \in SUBSET Threads /\ IsFiniteSet(Threads)
  BY EmuAssumption DEF Woken
<1>2. IsFiniteSet(Woken(n, q)')
  BY <1>1, FS_Subset
<1>3. Cardinality(Woken(n, q)) \in Nat /\ Cardinality(Woken(n, q)') \in Nat
  <2>1. Woken(n, q) \in SUBSET Threads
    BY DEF Woken
  <2>2. QED
    BY <1>1, <2>1, Counting
<1>4. Cardinality(Woken(n, q)) <= Cardinality(Woken(n, q)')
  BY <1>2, FS_Subset
<1>5. QED
  BY <1>3, <1>4 DEF Covered

(* The condition variable's notify_one: one more is on its way. *)
LEMMA CoverNotify ==
  ASSUME EmuTypeOK, NEW n \in {"push", "pop"}, NEW q, NEW t \in Threads, ~Uses(t, n, q),
         Return(t, Waiting(n, q)), NEW k \in Int, Covered(n, q, k)
  PROVE  Covered(n, q, k + 1)'
<1>1. op' = [op EXCEPT ![t] = Idle] /\ op'[t] = Idle
      /\ \A s \in Threads : s # t => op'[s] = op[s]
  BY DEF Return, EmuTypeOK
<1>2. CASE Waiting(n, q) = {}
  <2>1. at' = [at EXCEPT ![t] = "out"]
    BY <1>2 DEF Return
  <2>2. \A s \in Threads : s # t => at'[s] = at[s]
    BY <2>1 DEF EmuTypeOK
  <2>3. Waiting(n, q)' = {}
    BY <1>1, <1>2, <2>2 DEF Waiting
  <2>4. QED
    BY <2>3 DEF Covered
<1>3. CASE Waiting(n, q) # {}
  <2>1. PICK u \in Waiting(n, q) : at' = [at EXCEPT ![t] = "out", ![u] = "relock"]
    BY <1>3 DEF Return
  <2>2. u \in Threads /\ Uses(u, n, q) /\ at[u] = "wait" /\ u # t
    BY <2>1, QueueSets
  <2>3. /\ at'[u] = "relock"
        /\ \A s \in Threads : s # t /\ s # u => at'[s] = at[s]
    BY <2>1, <2>2 DEF EmuTypeOK
  <2>4. u \notin Woken(n, q) /\ Woken(n, q) \in SUBSET Threads
    BY <2>2, QueueSets
  <2>5. Woken(n, q)' = Woken(n, q) \cup {u}
    <3>1. ASSUME NEW s \in Threads PROVE s \in Woken(n, q)' <=> s \in Woken(n, q) \cup {u}
      <4>1. CASE s = t
        BY <1>1, <2>2, <4>1 DEF Woken, Uses
      <4>2. CASE s = u
        BY <1>1, <2>2, <2>3, <4>2 DEF Woken, Uses
      <4>3. CASE s # t /\ s # u
        BY <1>1, <2>3, <4>3 DEF Woken
      <4>4. QED
        BY <4>1, <4>2, <4>3
    <3>2. Woken(n, q)' \subseteq Threads
      BY DEF Woken
    <3>3. QED
      BY <2>2, <2>4, <3>1, <3>2
  <2>6. Cardinality(Woken(n, q)') = Cardinality(Woken(n, q)) + 1 /\ Cardinality(Woken(n, q)) \in Nat
    BY <2>2, <2>4, <2>5, Counting
  <2>7. k <= Cardinality(Woken(n, q))
    BY <1>3 DEF Covered
  <2>8. QED
    BY <2>6, <2>7 DEF Covered
<1>4. QED
  BY <1>2, <1>3

(* A call returns and notifies threads W in other calls. *)
LEMMA CoverReturn ==
  ASSUME EmuTypeOK, NEW n \in {"push", "pop"}, NEW q, NEW t \in Threads, at[t] # "wait",
         NEW W \in SUBSET Threads, \A u \in W : u # t /\ ~Uses(u, n, q),
         Return(t, W), NEW k \in Int, Covered(n, q, k)
  PROVE  /\ ~Uses(t, n, q) => Covered(n, q, k)'
         /\ Covered(n, q, k - 1)'
<1>1. /\ op' = [op EXCEPT ![t] = Idle] /\ op'[t] = Idle
      /\ \A s \in Threads : s # t => op'[s] = op[s]
  BY DEF Return, EmuTypeOK
<1>2. \A s \in Threads : s # t /\ Uses(s, n, q) => at'[s] = at[s]
  <2>1. CASE W = {}
    BY <2>1 DEF Return, EmuTypeOK
  <2>2. CASE W # {}
    <3>1. PICK u \in W : at' = [at EXCEPT ![t] = "out", ![u] = "relock"]
      BY <2>2 DEF Return
    <3>2. QED
      BY <3>1 DEF EmuTypeOK
  <2>3. QED
    BY <2>1, <2>2
<1>3. Waiting(n, q)' \subseteq Waiting(n, q)
  <2>1. ASSUME NEW s \in Waiting(n, q)' PROVE s \in Waiting(n, q)
    <3>1. s \in Threads /\ op'[s] # Idle /\ op'[s].name = n /\ op'[s].q = q /\ at'[s] = "wait"
      BY <2>1 DEF Waiting
    <3>2. s # t
      BY <1>1, <3>1
    <3>3. Uses(s, n, q)
      BY <1>1, <3>1, <3>2 DEF Uses
    <3>4. QED
      BY <1>2, <3>1, <3>2, <3>3, QueueSets
  <2>2. QED
    BY <2>1
<1>4. Woken(n, q) \ {t} \subseteq Woken(n, q)'
  <2>1. ASSUME NEW s \in Woken(n, q), s # t PROVE s \in Woken(n, q)'
    <3>1. s \in Threads /\ Uses(s, n, q) /\ at[s] = "relock"
      BY QueueSets
    <3>2. QED
      BY <1>1, <1>2, <2>1, <3>1 DEF Woken, Uses
  <2>2. QED
    BY <2>1
<1>5. ASSUME ~Uses(t, n, q) PROVE Covered(n, q, k)'
  <2>1. Woken(n, q) \subseteq Woken(n, q)'
    BY <1>4, <1>5, QueueSets
  <2>2. QED
    BY <1>3, <2>1, CoverMono
<1>6. Covered(n, q, k - 1)'
  <2>1. /\ Woken(n, q) \in SUBSET Threads /\ Woken(n, q)' \in SUBSET Threads
        /\ IsFiniteSet(Threads)
    BY EmuAssumption DEF Woken
  <2>2. IsFiniteSet(Woken(n, q)')
    BY <2>1, FS_Subset
  <2>3. Cardinality(Woken(n, q) \ {t}) <= Cardinality(Woken(n, q)')
    BY <1>4, <2>2, FS_Subset
  <2>4. /\ Cardinality(Woken(n, q)) \in Nat /\ Cardinality(Woken(n, q)') \in Nat
        /\ Cardinality(Woken(n, q) \ {t}) \in Nat
        /\ Cardinality(Woken(n, q) \ {t}) >= Cardinality(Woken(n, q)) - 1
    BY <2>1, Counting
  <2>5. QED
    BY <1>3, <2>3, <2>4 DEF Covered
<1>7. QED
  BY <1>5, <1>6

(* A thread that finds nothing to do waits. *)
LEMMA CoverWait ==
  ASSUME EmuTypeOK, NEW n \in {"push", "pop"}, NEW q, NEW t \in Threads,
         at[t] \in {"lock", "relock"}, op' = op, at' = [at EXCEPT ![t] = "wait"],
         NEW k \in Int, Covered(n, q, k), Uses(t, n, q) => k <= 0
  PROVE  Covered(n, q, k)'
<1>1. at'[t] = "wait" /\ \A s \in Threads : s # t => at'[s] = at[s]
  BY DEF EmuTypeOK
<1>2. CASE Uses(t, n, q)
  <2>1. Woken(n, q)' \in SUBSET Threads
    BY DEF Woken
  <2>2. Cardinality(Woken(n, q)') \in Nat
    BY <2>1, Counting
  <2>3. QED
    BY <1>2, <2>2 DEF Covered
<1>3. CASE ~Uses(t, n, q)
  <2>1. Waiting(n, q)' \subseteq Waiting(n, q) /\ Woken(n, q) \subseteq Woken(n, q)'
    BY <1>1, <1>3 DEF Waiting, Woken, Uses
  <2>2. QED
    BY <2>1, CoverMono
<1>4. QED
  BY <1>2, <1>3

----------------------------------------------------------------------------
(* The sleep counters and who is behind them. *)

Tokens == [p \in PEs |-> Cardinality(Sleepers(p)) - sleep_cntr[p]]

LEMMA SleepersOne ==
  ASSUME EmuTypeOK, OneSleeper, NEW p \in PEs
  PROVE  /\ Sleepers(p) \in SUBSET Threads
         /\ \A t \in Sleepers(p) : Sleepers(p) = {t}
         /\ Cardinality(Sleepers(p)) \in {0, 1}
<1>1. Sleepers(p) \in SUBSET Threads
  BY DEF Sleepers
<1>2. ASSUME NEW t \in Sleepers(p) PROVE Sleepers(p) = {t}
  BY DEF Sleepers, OneSleeper, Sleeps
<1>3. Cardinality(Sleepers(p)) \in {0, 1}
  <2>1. CASE Sleepers(p) = {}
    BY <1>1, <2>1, Counting
  <2>2. CASE Sleepers(p) # {}
    <3>1. PICK t \in Sleepers(p) : TRUE
      BY <2>2
    <3>2. Sleepers(p) = {t} /\ t \in Threads
      BY <1>1, <1>2, <3>1
    <3>3. QED
      BY <1>1, <3>2, Counting
  <2>3. QED
    BY <2>1, <2>2
<1>4. QED
  BY <1>1, <1>2, <1>3

(* A step that leaves the sleepers and the counters alone. *)
LEMMA SleepFrame ==
  ASSUME EmuTypeOK, OneSleeper, AsleepIsUnwoken, UNCHANGED sleep_cntr,
         \A s \in Threads : Sleeps(s)' <=> Sleeps(s),
         \A s \in Threads : Sleeps(s) =>
            /\ op'[s] = op[s] /\ core'[s] = core[s]
            /\ (at'[s] = "lock" <=> at[s] = "lock") /\ (at'[s] = "wait" => at[s] = "wait")
            /\ (at'[s] \in {"wait", "relock"} <=> at[s] \in {"wait", "relock"})
  PROVE  OneSleeper' /\ AsleepIsUnwoken' /\ Tokens' = Tokens
<1>1. OneSleeper'
  BY DEF OneSleeper
<1>2. ASSUME NEW p \in PEs
      PROVE  Sleepers(p)' = Sleepers(p) /\ Waiting("sleep", p)' \subseteq Waiting("sleep", p)
  BY DEF Sleepers, Waiting, Sleeps
<1>3. AsleepIsUnwoken'
  BY <1>2 DEF AsleepIsUnwoken
<1>4. Tokens' = Tokens
  BY <1>2 DEF Tokens
<1>5. QED
  BY <1>1, <1>3, <1>4

(* A step that leaves the queues and the threads at them alone. *)
LEMMA QueueFrame ==
  ASSUME EmuTypeOK, NoLostNotify, UNCHANGED queue,
         \A n \in {"push", "pop"} : \A q \in QueuePairs :
            Waiting(n, q)' \subseteq Waiting(n, q) /\ Woken(n, q) \subseteq Woken(n, q)'
  PROVE  NoLostNotify'
<1> SUFFICES ASSUME NEW q \in QueuePairs
             PROVE  /\ Covered("pop", q, Len(queue[q]))'
                    /\ Covered("push", q, Depth - Len(queue[q]))'
  BY DEF NoLostNotify, Covered
<1>1. PICK k \in Nat : k = Len(queue[q])
  BY SeqLen DEF EmuTypeOK
<1>2. Depth - k \in Int /\ k \in Int
  BY EmuAssumption
<1>3. Covered("pop", q, k) /\ Covered("push", q, Depth - k)
  BY <1>1 DEF NoLostNotify, Covered
<1>4. Covered("pop", q, k)' /\ Covered("push", q, Depth - k)'
  BY <1>2, <1>3, CoverMono
<1>5. QED
  BY <1>1, <1>4 DEF Covered

Refines == Prims!PNext \/ UNCHANGED Prims!primVars

(* Steps outside the calls. *)
LEMMA SetupStep ==
  ASSUME EmuInv, Setup
  PROVE  EmuInv' /\ Refines
<1>1. CASE __init
  <2>1. UNCHANGED <<core, queue, sleep_cntr, op, at, ret, ops, failed>> /\ up' = TRUE /\ inits' = inits + 1
    BY <1>1 DEF __init
  <2>2. EmuTypeOK'
    BY <2>1 DEF EmuInv, EmuTypeOK
  <2>3. OneSleeper' /\ AsleepIsUnwoken' /\ Tokens' = Tokens
    BY <2>1, SleepFrame DEF EmuInv, Sleeps
  <2>4. NoLostNotify'
    BY <2>1, QueueFrame DEF EmuInv, Waiting, Woken
  <2>5. QED
    BY <2>1, <2>2, <2>3, <2>4 DEF EmuInv, Refines, Prims!primVars, Tokens
<1>2. CASE __teardown
  <2>1. /\ UNCHANGED <<inits, sleep_cntr, op, at, ret, ops, failed>> /\ up' = FALSE
        /\ queue' = NoQueues /\ core' = [t \in Threads |-> NoCore]
        /\ \A t \in Threads : at[t] = "out" /\ op[t] = Idle
    BY <1>2 DEF __teardown, NoneInside, EmuInv, EmuTypeOK
  <2>2. \A q \in QueuePairs : NoQueues[q] = <<>> /\ Len(NoQueues[q]) = 0
    BY SeqLen DEF NoQueues
  <2>3. NoQueues \in [QueuePairs -> Seq(Data)]
    BY DEF NoQueues
  <2>4. EmuTypeOK'
    <3>1. queue' \in [QueuePairs -> Seq(Data)]
      BY <2>1, <2>3
    <3>2. \A q \in QueuePairs : Len(queue'[q]) <= Depth
      BY <2>1, <2>2, EmuAssumption
    <3>3. core' \in [Threads -> PEs \cup {NoCore}]
      BY <2>1
    <3>4. QED
      BY <2>1, <3>1, <3>2, <3>3, ZenonT(30) DEF EmuInv, EmuTypeOK
  <2>5. OneSleeper' /\ AsleepIsUnwoken' /\ Tokens' = Tokens
    BY <2>1, SleepFrame DEF EmuInv, Sleeps
  <2>6. NoLostNotify'
    BY <2>1 DEF NoLostNotify, Waiting
  <2>7. Prims!Reset
    BY <2>1, <2>5 DEF Prims!Reset, NoQueues, Tokens
  <2>8. QED
    BY <2>4, <2>5, <2>6, <2>7 DEF EmuInv, Refines, Prims!PNext
<1>3. ASSUME NEW t \in Threads, NEW c \in PEs, __register_core_id(t, c)
      PROVE  EmuInv' /\ Refines
  <2>1. /\ UNCHANGED <<up, inits, queue, sleep_cntr, op, at, ret, ops, failed>>
        /\ core' = [core EXCEPT ![t] = c] /\ at[t] = "out" /\ op[t] = Idle
    BY <1>3 DEF __register_core_id, EmuInv, EmuTypeOK
  <2>2. EmuTypeOK'
    BY <2>1 DEF EmuInv, EmuTypeOK
  <2>3. \A s \in Threads : Sleeps(s) => core'[s] = core[s]
    BY <2>1 DEF Sleeps, EmuInv, EmuTypeOK
  <2>4. OneSleeper' /\ AsleepIsUnwoken' /\ Tokens' = Tokens
    BY <2>1, <2>3, SleepFrame, ZenonT(30) DEF EmuInv, Sleeps
  <2>5. NoLostNotify'
    BY <2>1, QueueFrame DEF EmuInv, Waiting, Woken
  <2>6. QED
    BY <2>1, <2>2, <2>4, <2>5 DEF EmuInv, Refines, Prims!primVars, Tokens
<1>4. QED
  BY <1>1, <1>2, <1>3 DEF Setup

LEMMA CallStep ==
  ASSUME EmuInv, NEW t \in Threads, NEW c \in EmuCalls, Call(t, c)
  PROVE  EmuInv' /\ Refines
<1>1. /\ UNCHANGED <<up, inits, core, queue, sleep_cntr, ret, failed>>
      /\ op' = [op EXCEPT ![t] = c] /\ at' = [at EXCEPT ![t] = "lock"]
      /\ ops' = [ops EXCEPT ![t] = @ + 1] /\ op[t] = Idle /\ at[t] = "out"
      /\ Named(t, c) /\ MaySleep(t, c) /\ c # Idle
  BY IdleAssumption DEF Call, EmuInv, EmuTypeOK
<1>2. /\ op'[t] = c /\ at'[t] = "lock"
      /\ \A s \in Threads : s # t => op'[s] = op[s] /\ at'[s] = at[s]
  BY <1>1 DEF EmuInv, EmuTypeOK
<1>3. EmuTypeOK'
  <2>1. /\ op' \in [Threads -> EmuCalls \cup {Idle}]
        /\ at' \in [Threads -> {"out", "lock", "wait", "relock"}]
        /\ ops' \in [Threads -> Nat]
    BY <1>1 DEF EmuInv, EmuTypeOK
  <2>2. \A s \in Threads : at'[s] = "out" <=> op'[s] = Idle
    BY <1>1, <1>2 DEF EmuInv, EmuTypeOK
  <2>3. QED
    BY <1>1, <2>1, <2>2, ZenonT(30) DEF EmuInv, EmuTypeOK
<1>4. OneSleeper'
  <2>1. c.name = "sleep" => c.pe = core[t]
    BY <1>1 DEF Named
  <2>2. \A s \in Threads : Sleeps(s)' => IF s = t THEN c.name = "sleep" ELSE Sleeps(s)
    BY <1>2, ZenonT(30) DEF Sleeps
  <2>3. \A s \in Threads : Sleeps(s)' => op'[s].pe = core'[s]
    BY <1>1, <1>2, <2>1, <2>2, ZenonT(30) DEF EmuInv, OneSleeper
  <2>4. \A s, u \in Threads : Sleeps(s)' /\ Sleeps(u)' /\ core'[s] = core'[u] => s = u
    BY <1>1, <2>2, ZenonT(30) DEF EmuInv, OneSleeper, MaySleep
  <2>5. QED
    BY <2>3, <2>4 DEF OneSleeper
<1>5. ASSUME NEW p \in PEs
      PROVE  Sleepers(p)' = Sleepers(p) /\ Waiting("sleep", p)' = Waiting("sleep", p)
  BY <1>1, <1>2 DEF Sleepers, Waiting
<1>6. AsleepIsUnwoken' /\ Tokens' = Tokens
  BY <1>1, <1>5 DEF EmuInv, AsleepIsUnwoken, Tokens
<1>7. NoLostNotify'
  <2>1. \A n \in {"push", "pop"} : \A q \in QueuePairs :
           Waiting(n, q)' \subseteq Waiting(n, q) /\ Woken(n, q) \subseteq Woken(n, q)'
    BY <1>1, <1>2 DEF Waiting, Woken
  <2>2. QED
    BY <1>1, <2>1, QueueFrame, ZenonT(30) DEF EmuInv
<1>8. Prims!Begin(t, c) /\ c \in Prims!Calls
  BY <1>1, <1>6 DEF Prims!Begin, Tokens, EmuCalls
<1>9. QED
  BY <1>3, <1>4, <1>6, <1>7, <1>8, ZenonT(30) DEF EmuInv, Refines, Prims!PNext

LEMMA OtherStep ==
  ASSUME EmuInv, NEW t \in Threads, CallFails(t) \/ WakeUp(t)
  PROVE  EmuInv' /\ Refines
<1>1. CASE CallFails(t)
  <2>1. /\ UNCHANGED <<up, inits, core, queue, sleep_cntr, op, at, ret>>
        /\ failed' = TRUE /\ ops' = [ops EXCEPT ![t] = @ + 1]
    BY <1>1 DEF CallFails
  <2>2. EmuTypeOK'
    BY <2>1 DEF EmuInv, EmuTypeOK
  <2>3. OneSleeper' /\ AsleepIsUnwoken' /\ Tokens' = Tokens
    BY <2>1, SleepFrame DEF EmuInv, Sleeps
  <2>4. NoLostNotify'
    BY <2>1, QueueFrame DEF EmuInv, Waiting, Woken
  <2>5. QED
    BY <2>1, <2>2, <2>3, <2>4, ZenonT(30) DEF EmuInv, Refines, Prims!primVars, Tokens
<1>2. CASE WakeUp(t)
  <2>1. /\ UNCHANGED <<up, inits, core, queue, sleep_cntr, op, ret, ops, failed>>
        /\ at' = [at EXCEPT ![t] = "relock"] /\ at[t] = "wait"
    BY <1>2 DEF WakeUp
  <2>2. at'[t] = "relock" /\ \A s \in Threads : s # t => at'[s] = at[s]
    BY <2>1 DEF EmuInv, EmuTypeOK
  <2>3. EmuTypeOK'
    BY <2>1, <2>2, ZenonT(30) DEF EmuInv, EmuTypeOK
  <2>4. \A s \in Threads : Sleeps(s)' <=> Sleeps(s)
    BY <2>1 DEF Sleeps
  <2>5. OneSleeper' /\ AsleepIsUnwoken' /\ Tokens' = Tokens
    BY <2>1, <2>2, <2>4, SleepFrame, ZenonT(30) DEF EmuInv
  <2>6. NoLostNotify'
    <3>1. \A n \in {"push", "pop"} : \A q \in QueuePairs :
             Waiting(n, q)' \subseteq Waiting(n, q) /\ Woken(n, q) \subseteq Woken(n, q)'
      BY <2>1, <2>2, ZenonT(30) DEF Waiting, Woken
    <3>2. QED
      BY <2>1, <3>1, QueueFrame, ZenonT(30) DEF EmuInv
  <2>7. QED
    BY <2>1, <2>3, <2>5, <2>6, ZenonT(30) DEF EmuInv, Refines, Prims!primVars, Tokens
<1>3. QED
  BY <1>1, <1>2

----------------------------------------------------------------------------
(* The calls. *)

(* What Return leaves of the others. *)
LEMMA ReturnFacts ==
  ASSUME EmuTypeOK, NEW t \in Threads, NEW W \in SUBSET Threads, Return(t, W),
         \A u \in W : u # t /\ at[u] = "wait"
  PROVE  /\ op' \in [Threads -> EmuCalls \cup {Idle}] /\ op'[t] = Idle
         /\ at' \in [Threads -> {"out", "lock", "wait", "relock"}] /\ at'[t] = "out"
         /\ \A s \in Threads : s # t => op'[s] = op[s]
         /\ \A s \in Threads : s # t /\ s \notin W => at'[s] = at[s]
         /\ \A s \in W : at'[s] \in {"wait", "relock"}
         /\ \A s \in Threads : at'[s] = "out" <=> op'[s] = Idle
<1>1. op' = [op EXCEPT ![t] = Idle]
  BY DEF Return
<1>2. op' \in [Threads -> EmuCalls \cup {Idle}] /\ op'[t] = Idle
      /\ \A s \in Threads : s # t => op'[s] = op[s]
  BY <1>1 DEF EmuTypeOK
<1>3. \E u \in Threads : /\ (u = t \/ u \in W)
                          /\ at' = [at EXCEPT ![t] = "out", ![u] = IF u = t THEN "out" ELSE "relock"]
  <2>1. CASE W = {}
    <3>1. at' = [at EXCEPT ![t] = "out", ![t] = "out"]
      BY <2>1 DEF Return, EmuTypeOK
    <3>2. QED
      BY <3>1, ZenonT(30)
  <2>2. CASE W # {}
    <3>1. PICK u \in W : at' = [at EXCEPT ![t] = "out", ![u] = "relock"]
      BY <2>2 DEF Return
    <3>2. u # t
      BY <3>1
    <3>3. QED
      BY <3>1, <3>2, ZenonT(30)
  <2>3. QED
    BY <2>1, <2>2
<1>4. PICK u \in Threads : /\ u = t \/ u \in W
                           /\ at' = [at EXCEPT ![t] = "out", ![u] = IF u = t THEN "out" ELSE "relock"]
  BY <1>3, ZenonT(30)
<1>5. /\ at' \in [Threads -> {"out", "lock", "wait", "relock"}] /\ at'[t] = "out"
      /\ u # t => at'[u] = "relock"
      /\ \A s \in Threads : s # t /\ s # u => at'[s] = at[s]
  BY <1>4 DEF EmuTypeOK
<1>6. \A s \in W : at'[s] \in {"wait", "relock"}
  BY <1>5
<1>7. \A s \in Threads : s # t /\ s \notin W => at'[s] = at[s]
  BY <1>4, <1>5
<1>8. \A s \in Threads : at'[s] = "out" <=> op'[s] = Idle
  BY <1>2, <1>5, <1>6, <1>7, ZenonT(30) DEF EmuTypeOK
<1>9. QED
  BY <1>2, <1>5, <1>6, <1>7, <1>8, ZenonT(30)

(* A call on a queue that finds the queue full, or empty. *)
LEMMA QueueWaitStep ==
  ASSUME EmuInv, NEW t \in Threads, at[t] \in {"lock", "relock"}, op[t] # Idle, ~Sleeps(t), Wait(t),
         UNCHANGED <<up, inits, core, sleep_cntr, ops, failed>>,
         \A q \in QueuePairs : /\ Uses(t, "pop", q) => Len(queue[q]) = 0
                               /\ Uses(t, "push", q) => Len(queue[q]) = Depth
  PROVE  EmuInv' /\ Refines
<1>1. op' = op /\ queue' = queue /\ ret' = ret /\ at' = [at EXCEPT ![t] = "wait"]
  BY DEF Wait
<1>2. at'[t] = "wait" /\ \A s \in Threads : s # t => at'[s] = at[s]
  BY <1>1 DEF EmuInv, EmuTypeOK
<1>3. EmuTypeOK'
  BY <1>1, <1>2 DEF EmuInv, EmuTypeOK
<1>4. OneSleeper' /\ AsleepIsUnwoken' /\ Tokens' = Tokens
  <2>1. \A s \in Threads : Sleeps(s)' <=> Sleeps(s)
    BY <1>1 DEF Sleeps
  <2>2. \A s \in Threads : Sleeps(s) => op'[s] = op[s] /\ core'[s] = core[s] /\ at'[s] = at[s]
    BY <1>1, <1>2, ZenonT(30)
  <2>3. QED
    BY <2>1, <2>2, SleepFrame DEF EmuInv
<1>5. NoLostNotify'
  <2> SUFFICES ASSUME NEW q \in QueuePairs
               PROVE  /\ Covered("pop", q, Len(queue[q]))'
                      /\ Covered("push", q, Depth - Len(queue[q]))'
    BY DEF NoLostNotify, Covered
  <2>1. PICK k \in Nat : k = Len(queue[q])
    BY SeqLen, ZenonT(30) DEF EmuInv, EmuTypeOK
  <2>2. Depth - k \in Int /\ k \in Int
    BY EmuAssumption
  <2>3. Covered("pop", q, k) /\ Covered("push", q, Depth - k)
    BY <2>1 DEF EmuInv, NoLostNotify, Covered
  <2>4. (Uses(t, "pop", q) => k <= 0) /\ (Uses(t, "push", q) => Depth - k <= 0)
    BY <2>1, EmuAssumption
  <2>5. Covered("pop", q, k)' /\ Covered("push", q, Depth - k)'
    BY <1>1, <2>2, <2>3, <2>4, CoverWait, ZenonT(30) DEF EmuInv
  <2>6. QED
    BY <1>1, <2>1, <2>5, ZenonT(30) DEF Covered
<1>6. QED
  BY <1>1, <1>3, <1>4, <1>5 DEF EmuInv, Refines, Prims!primVars, Tokens


(* A call n on queue q returns, and notifies a thread in a call m on q. *)
LEMMA QueueReturn ==
  ASSUME EmuInv, NEW t \in Threads, NEW q \in QueuePairs, NEW n \in {"push", "pop"},
         NEW m \in {"push", "pop"}, m # n, Uses(t, n, q), at[t] \in {"lock", "relock"},
         Return(t, Waiting(m, q)), UNCHANGED <<core, sleep_cntr>>
  PROVE  /\ OneSleeper' /\ AsleepIsUnwoken' /\ Tokens' = Tokens
         /\ op' \in [Threads -> EmuCalls \cup {Idle}] /\ op' = [op EXCEPT ![t] = Idle]
         /\ at' \in [Threads -> {"out", "lock", "wait", "relock"}]
         /\ \A s \in Threads : at'[s] = "out" <=> op'[s] = Idle
         /\ \A k \in Int : Covered(m, q, k) => Covered(m, q, k + 1)'
         /\ \A k \in Int : Covered(n, q, k) => Covered(n, q, k - 1)'
         /\ \A r \in QueuePairs : r # q =>
               \A k \in Int : /\ Covered("push", r, k) => Covered("push", r, k)'
                              /\ Covered("pop", r, k) => Covered("pop", r, k)'
<1> DEFINE W == Waiting(m, q)
<1>1. W \in SUBSET Threads /\ \A u \in W : u # t /\ at[u] = "wait" /\ Uses(u, m, q)
  BY QueueSets
<1>2. EmuTypeOK
  BY SMTT(20) DEF EmuInv
<1>3. /\ op' \in [Threads -> EmuCalls \cup {Idle}] /\ op'[t] = Idle
      /\ at' \in [Threads -> {"out", "lock", "wait", "relock"}] /\ at'[t] = "out"
      /\ \A s \in Threads : s # t => op'[s] = op[s]
      /\ \A s \in Threads : s # t /\ s \notin W => at'[s] = at[s]
      /\ \A s \in Threads : at'[s] = "out" <=> op'[s] = Idle
  <2> HIDE DEF W
  <2>1. Return(t, W)
    BY DEF W
  <2>2. QED
    BY <1>1, <1>2, <2>1, ReturnFacts
<1>4. OneSleeper' /\ AsleepIsUnwoken' /\ Tokens' = Tokens
  <2>1. ~Sleeps(t) /\ ~Sleeps(t)' /\ \A s \in W : ~Sleeps(s)
    BY <1>1, <1>3, ZenonT(30) DEF Sleeps, Uses
  <2>2. \A s \in Threads : Sleeps(s)' <=> Sleeps(s)
    BY <1>3, <2>1, ZenonT(30) DEF Sleeps
  <2>3. \A s \in Threads : Sleeps(s) => op'[s] = op[s] /\ core'[s] = core[s] /\ at'[s] = at[s]
    BY <1>3, <2>1
  <2>4. QED
    BY <2>2, <2>3, SleepFrame, ZenonT(30) DEF EmuInv
<1>5. ~Uses(t, m, q) /\ \A u \in W : ~Uses(u, n, q)
  BY <1>1 DEF Uses
<1>6. ASSUME NEW k \in Int, Covered(m, q, k) PROVE Covered(m, q, k + 1)'
  BY <1>2, <1>5, <1>6, CoverNotify
<1>7. ASSUME NEW k \in Int, Covered(n, q, k) PROVE Covered(n, q, k - 1)'
  <2> HIDE DEF W
  <2>1. Return(t, W) /\ at[t] # "wait" /\ \A u \in W : u # t /\ ~Uses(u, n, q)
    BY <1>1, <1>5 DEF W
  <2>2. QED
    BY <1>1, <1>2, <1>7, <2>1, CoverReturn, ZenonT(30)
<1>8. ASSUME NEW r \in QueuePairs, r # q, NEW i \in {"push", "pop"}, NEW k \in Int, Covered(i, r, k)
      PROVE  Covered(i, r, k)'
  <2> HIDE DEF W
  <2>1. Return(t, W) /\ at[t] # "wait" /\ ~Uses(t, i, r)
    BY <1>8 DEF W, Uses
  <2>2. \A u \in W : u # t /\ ~Uses(u, i, r)
    BY <1>1, <1>8 DEF Uses
  <2>3. QED
    BY <1>1, <1>2, <1>8, <2>1, <2>2, CoverReturn, ZenonT(30)
<1>9. op' = [op EXCEPT ![t] = Idle]
  BY DEF Return
<1>10. QED
  BY <1>3, <1>4, <1>6, <1>7, <1>8, <1>9, SMTT(20)

LEMMA PushStep ==
  ASSUME EmuInv, NEW t \in Threads, __push_mmap(t)
  PROVE  EmuInv' /\ Refines
<1>1. EmuTypeOK
  BY ZenonT(30) DEF EmuInv
<1>2. PICK q \in QueuePairs : q = op[t].q /\ Uses(t, "push", q) /\ op[t].data \in Data
  BY <1>1, CallShape, Zenon DEF __push_mmap, Wants, Uses
<1>3. /\ at[t] \in {"lock", "relock"} /\ op[t] # Idle /\ op[t].name = "push" /\ ~Sleeps(t)
      /\ UNCHANGED <<up, inits, core, sleep_cntr, ops, failed>>
  BY DEF __push_mmap, Wants, Sleeps
<1>4. queue[q] \in Seq(Data) /\ Len(queue[q]) \in Nat /\ Len(queue[q]) <= Depth /\ Depth \in Nat
  BY <1>1, EmuAssumption, SeqLen, ZenonT(30) DEF EmuTypeOK
<1>5. CASE Len(queue[q]) = Depth
  <2>1. Wait(t)
    BY <1>2, <1>5, ZenonT(30) DEF __push_mmap
  <2>2. \A r \in QueuePairs : /\ Uses(t, "pop", r) => Len(queue[r]) = 0
                              /\ Uses(t, "push", r) => Len(queue[r]) = Depth
    BY <1>2, <1>3, <1>5, ZenonT(30) DEF Uses
  <2>3. QED
    BY <1>3, <2>1, <2>2, QueueWaitStep, ZenonT(30)
<1>6. CASE Len(queue[q]) # Depth
  <2>1. /\ queue' = [queue EXCEPT ![q] = Append(@, op[t].data)] /\ ret' = ret
        /\ Return(t, Waiting("pop", q))
    BY <1>2, <1>6, ZenonT(30) DEF __push_mmap
  <2>2. /\ OneSleeper' /\ AsleepIsUnwoken' /\ Tokens' = Tokens
        /\ op' \in [Threads -> EmuCalls \cup {Idle}] /\ op' = [op EXCEPT ![t] = Idle]
        /\ at' \in [Threads -> {"out", "lock", "wait", "relock"}]
        /\ \A s \in Threads : at'[s] = "out" <=> op'[s] = Idle
        /\ \A k \in Int : Covered("pop", q, k) => Covered("pop", q, k + 1)'
        /\ \A k \in Int : Covered("push", q, k) => Covered("push", q, k - 1)'
        /\ \A r \in QueuePairs : r # q =>
              \A k \in Int : /\ Covered("push", r, k) => Covered("push", r, k)'
                             /\ Covered("pop", r, k) => Covered("pop", r, k)'
    BY <1>2, <1>3, <2>1, QueueReturn, ZenonT(30)
  <2>3. /\ queue' \in [QueuePairs -> Seq(Data)] /\ queue'[q] = Append(queue[q], op[t].data)
        /\ \A r \in QueuePairs : r # q => queue'[r] = queue[r]
    BY <1>1, <1>2, <1>4, <2>1, SMTT(20) DEF EmuTypeOK
  <2>4. Len(queue'[q]) = Len(queue[q]) + 1
    BY <1>2, <1>4, <2>3
  <2>5. EmuTypeOK'
    <3>1. \A r \in QueuePairs : Len(queue'[r]) <= Depth
      <4>1. Len(queue'[q]) <= Depth
        BY <1>4, <1>6, <2>4
      <4>2. \A r \in QueuePairs : r # q => Len(queue'[r]) <= Depth
        BY <1>1, <2>3 DEF EmuTypeOK
      <4>3. QED
        BY <4>1, <4>2
    <3>2. QED
      BY <1>1, <1>3, <2>1, <2>2, <2>3, <3>1, ZenonT(30) DEF EmuTypeOK
  <2>6. NoLostNotify'
    <3> SUFFICES ASSUME NEW r \in QueuePairs
                 PROVE  /\ Covered("pop", r, Len(queue[r]))'
                        /\ Covered("push", r, Depth - Len(queue[r]))'
      BY DEF NoLostNotify, Covered
    <3>1. PICK k \in Nat : k = Len(queue[r])
      BY <1>1, SeqLen DEF EmuTypeOK
    <3>2. Covered("pop", r, k) /\ Covered("push", r, Depth - k) /\ k \in Int /\ Depth - k \in Int
      BY <1>4, <3>1 DEF EmuInv, NoLostNotify, Covered
    <3>3. CASE r = q
      <4>1. Covered("pop", q, k + 1)' /\ Covered("push", q, Depth - k - 1)'
        BY <2>2, <3>2, <3>3
      <4>2. Len(queue'[q]) = k + 1 /\ Depth - Len(queue'[q]) = Depth - k - 1
        BY <1>4, <2>4, <3>1, <3>3
      <4>3. QED
        BY <3>3, <4>1, <4>2, ZenonT(30) DEF Covered
    <3>4. CASE r # q
      BY <2>2, <2>3, <3>1, <3>2, <3>4, ZenonT(30) DEF Covered
    <3>5. QED
      BY <3>3, <3>4
  <2>7. Prims!DoPush(t)
    <3>1. Len(queue[op[t].q]) < Depth
      BY <1>2, <1>4, <1>6
    <3>2. QED
      BY <1>2, <1>3, <2>1, <2>2, <3>1, ZenonT(30) DEF Prims!DoPush, Prims!Is, Prims!Finish, Tokens
  <2>8. QED
    BY <2>2, <2>5, <2>6, <2>7, ZenonT(30) DEF EmuInv, Refines, Prims!PNext, Prims!Perform
<1>7. QED
  BY <1>5, <1>6

LEMMA PopStep ==
  ASSUME EmuInv, NEW t \in Threads, __pop_mmap(t)
  PROVE  EmuInv' /\ Refines
<1> USE ZenonT(60)
<1>1. EmuTypeOK
  BY SMT DEF EmuInv
<1>2. PICK q \in QueuePairs : q = op[t].q /\ Uses(t, "pop", q)
  BY <1>1, CallShape DEF __pop_mmap, Wants, Uses
<1>3. /\ at[t] \in {"lock", "relock"} /\ op[t] # Idle /\ op[t].name = "pop" /\ ~Sleeps(t)
      /\ UNCHANGED <<up, inits, core, sleep_cntr, ops, failed>>
  BY DEF __pop_mmap, Wants, Sleeps
<1>4. queue[q] \in Seq(Data) /\ Len(queue[q]) \in Nat /\ Len(queue[q]) <= Depth /\ Depth \in Nat
  BY <1>1, EmuAssumption, SeqLen, SMT DEF EmuTypeOK
<1>5. CASE queue[q] = <<>>
  <2>1. Wait(t)
    BY <1>2, <1>5 DEF __pop_mmap
  <2>2. \A r \in QueuePairs : /\ Uses(t, "pop", r) => Len(queue[r]) = 0
                              /\ Uses(t, "push", r) => Len(queue[r]) = Depth
    BY <1>2, <1>3, <1>5, SMT DEF Uses
  <2>3. QED
    BY <1>3, <2>1, <2>2, QueueWaitStep
<1>6. CASE queue[q] # <<>>
  <2>1. /\ queue' = [queue EXCEPT ![q] = Tail(@)] /\ ret' = [ret EXCEPT ![t] = Head(queue[q])]
        /\ Return(t, Waiting("push", q))
    BY <1>2, <1>6 DEF __pop_mmap
  <2>2. /\ OneSleeper' /\ AsleepIsUnwoken' /\ Tokens' = Tokens
        /\ op' \in [Threads -> EmuCalls \cup {Idle}] /\ op' = [op EXCEPT ![t] = Idle]
        /\ at' \in [Threads -> {"out", "lock", "wait", "relock"}]
        /\ \A s \in Threads : at'[s] = "out" <=> op'[s] = Idle
        /\ \A k \in Int : Covered("push", q, k) => Covered("push", q, k + 1)'
        /\ \A k \in Int : Covered("pop", q, k) => Covered("pop", q, k - 1)'
        /\ \A r \in QueuePairs : r # q =>
              \A k \in Int : /\ Covered("push", r, k) => Covered("push", r, k)'
                             /\ Covered("pop", r, k) => Covered("pop", r, k)'
    BY <1>2, <1>3, <2>1, QueueReturn
  <2>3. /\ Head(queue[q]) \in Data /\ Tail(queue[q]) \in Seq(Data)
        /\ Len(Tail(queue[q])) = Len(queue[q]) - 1
    BY <1>4, <1>6, SeqTail
  <2>4. /\ queue' \in [QueuePairs -> Seq(Data)] /\ queue'[q] = Tail(queue[q])
        /\ \A r \in QueuePairs : r # q => queue'[r] = queue[r]
    BY <1>1, <2>1, <2>3 DEF EmuTypeOK
  <2>5. EmuTypeOK'
    <3>1. \A r \in QueuePairs : Len(queue'[r]) <= Depth
      BY <1>1, <1>4, <2>3, <2>4, SMTT(20) DEF EmuTypeOK
    <3>2. ret' \in [Threads -> Data \cup {NoData}]
      BY <1>1, <2>1, <2>3, SMTT(20) DEF EmuTypeOK
    <3>3. QED
      BY <1>1, <1>3, <2>2, <2>4, <3>1, <3>2 DEF EmuTypeOK
  <2>6. NoLostNotify'
    <3> SUFFICES ASSUME NEW r \in QueuePairs
                 PROVE  /\ Covered("pop", r, Len(queue[r]))'
                        /\ Covered("push", r, Depth - Len(queue[r]))'
      BY SMT DEF NoLostNotify, Covered
    <3>1. PICK k \in Nat : k = Len(queue[r])
      BY <1>1, SeqLen, SMT DEF EmuTypeOK
    <3>2. Covered("pop", r, k) /\ Covered("push", r, Depth - k) /\ k \in Int /\ Depth - k \in Int
      BY <1>4, <3>1, SMT DEF EmuInv, NoLostNotify, Covered
    <3>3. CASE r = q
      <4>1. Covered("push", q, Depth - k + 1)' /\ Covered("pop", q, k - 1)'
        BY <2>2, <3>2, <3>3
      <4>2. Len(queue'[q]) = k - 1 /\ Depth - Len(queue'[q]) = Depth - k + 1
        <5>1. Len(queue'[q]) = k - 1
          BY <2>3, <2>4, <3>1, <3>3
        <5>2. QED
          BY <1>4, <5>1, SMT
      <4>3. QED
        BY <3>3, <4>1, <4>2 DEF Covered
    <3>4. CASE r # q
      BY <2>2, <2>4, <3>1, <3>2, <3>4 DEF Covered
    <3>5. QED
      BY <3>3, <3>4, SMT
  <2>7. Prims!DoPop(t)
    BY <1>2, <1>3, <1>6, <2>1, <2>2 DEF Prims!DoPop, Prims!Is, Prims!Finish, Tokens
  <2>8. QED
    BY <2>2, <2>5, <2>6, <2>7 DEF EmuInv, Refines, Prims!PNext, Prims!Perform
<1>7. QED
  BY <1>5, <1>6


(* A call that is not on a queue leaves the threads at the queues alone. *)
LEMMA QueuesAside ==
  ASSUME EmuInv, NEW t \in Threads, op[t].name \notin {"push", "pop"}, UNCHANGED queue,
         op'[t] = op[t] \/ op'[t] = Idle,
         \A s \in Threads : s # t => op'[s] = op[s],
         \A s \in Threads : s # t /\ ~Sleeps(s) => at'[s] = at[s]
  PROVE  NoLostNotify'
<1> USE ZenonT(60)
<1>1. ASSUME NEW n \in {"push", "pop"}, NEW q \in QueuePairs
      PROVE  Waiting(n, q)' \subseteq Waiting(n, q) /\ Woken(n, q) \subseteq Woken(n, q)'
  <2>1. ASSUME NEW s \in Threads
        PROVE  /\ s \in Waiting(n, q)' => s \in Waiting(n, q)
               /\ s \in Woken(n, q) => s \in Woken(n, q)'
    <3>1. CASE s = t
      BY <1>1, <3>1 DEF Waiting, Woken
    <3>2. CASE s # t
      BY <1>1, <3>2, SMT DEF Waiting, Woken, Sleeps
    <3>3. QED
      BY <3>1, <3>2
  <2>2. QED
    BY <2>1 DEF Waiting, Woken
<1>2. QED
  BY <1>1, QueueFrame DEF EmuInv

LEMMA SleepStep ==
  ASSUME EmuInv, NEW t \in Threads, __sleep(t)
  PROVE  EmuInv' /\ Refines
<1> USE ZenonT(60)
<1>1. EmuTypeOK /\ OneSleeper
  BY DEF EmuInv
<1>2. PICK p \in PEs : p = op[t].pe
  BY <1>1, CallShape DEF __sleep, Wants
<1>3. /\ at[t] \in {"lock", "relock"} /\ op[t] # Idle /\ op[t].name = "sleep" /\ Sleeps(t)
      /\ UNCHANGED <<up, inits, core, ops, failed>>
  BY SMT DEF __sleep, Wants, Sleeps
<1>4. \A s \in Threads : Sleeps(s) /\ op[s].pe = p => s = t
  BY <1>1, <1>2, <1>3 DEF OneSleeper
<1>5. PICK n \in Int : n = sleep_cntr[p] + (IF at[t] = "lock" THEN 1 ELSE 0)
  <2>1. sleep_cntr[p] \in Int
    BY <1>1, SMT DEF EmuTypeOK
  <2>2. sleep_cntr[p] + (IF at[t] = "lock" THEN 1 ELSE 0) \in Int
    BY <2>1, SMT
  <2>3. QED
    BY <2>2
<1>6. /\ sleep_cntr' = [sleep_cntr EXCEPT ![p] = n] /\ queue' = queue /\ ret' = ret
      /\ n > 0 => Wait(t)
      /\ ~(n > 0) => Return(t, {})
  BY <1>2, <1>5 DEF __sleep, Wait
<1>7. /\ sleep_cntr' \in [PEs -> Int] /\ sleep_cntr'[p] = n
      /\ \A r \in PEs : r # p => sleep_cntr'[r] = sleep_cntr[r]
      /\ sleep_cntr[p] \in Int
  BY <1>1, <1>6 DEF EmuTypeOK
<1>8. Sleepers(p) = IF at[t] = "lock" THEN {} ELSE {t}
  BY <1>2, <1>3, <1>4 DEF Sleepers, Sleeps
<1>9. /\ Cardinality(Sleepers(p)) = (IF at[t] = "lock" THEN 0 ELSE 1)
      /\ sleep_cntr[p] <= Cardinality(Sleepers(p)) /\ Cardinality({t}) = 1 /\ Cardinality({}) = 0
  <2>1. Cardinality({}) = 0 /\ Cardinality({t}) = 1 /\ {} \in SUBSET Threads
    BY Counting, SMT
  <2>2. QED
    BY <1>8, <2>1, SMT DEF EmuInv, AsleepIsUnwoken
<1>10. CASE n > 0
  <2>1. op' = op /\ at' = [at EXCEPT ![t] = "wait"]
    BY <1>6, <1>10, SMT DEF Wait
  <2>2. at'[t] = "wait" /\ \A s \in Threads : s # t => at'[s] = at[s]
    BY <1>1, <2>1 DEF EmuTypeOK
  <2>3. EmuTypeOK'
    BY <1>1, <1>3, <1>6, <1>7, <2>1, <2>2 DEF EmuTypeOK
  <2>4. OneSleeper'
    BY <1>1, <1>3, <2>1 DEF OneSleeper, Sleeps
  <2>5. NoLostNotify'
    BY <1>3, <1>6, <2>1, <2>2, QueuesAside
  <2>6. Sleepers(p)' = {t}
    BY <1>2, <1>3, <1>4, <2>1, <2>2 DEF Sleepers, Sleeps
  <2>7. n <= 1 /\ Cardinality(Sleepers(p)') - n = Cardinality(Sleepers(p)) - sleep_cntr[p]
    BY <1>5, <1>7, <1>9, <1>10, <2>6, SMT
  <2>8. ASSUME NEW r \in PEs, r # p
        PROVE  Sleepers(r)' = Sleepers(r) /\ Waiting("sleep", r)' = Waiting("sleep", r)
    BY <1>2, <2>1, <2>2, <2>8 DEF Sleepers, Waiting
  <2>9. AsleepIsUnwoken'
    <3>1. ASSUME NEW r \in PEs
          PROVE  /\ Waiting("sleep", r)' # {} => sleep_cntr'[r] > 0
                 /\ sleep_cntr'[r] <= Cardinality(Sleepers(r)')
      <4>1. CASE r = p
        BY <1>7, <1>9, <1>10, <2>6, <2>7, <4>1
      <4>2. CASE r # p
        BY <1>7, <2>8, <4>2, SMTT(20) DEF EmuInv, AsleepIsUnwoken
      <4>3. QED
        BY <4>1, <4>2
    <3>2. QED
      BY <3>1, SMT DEF AsleepIsUnwoken
  <2>10. Tokens' = Tokens
    <3>1. \A r \in PEs : Cardinality(Sleepers(r)') - sleep_cntr'[r] = Cardinality(Sleepers(r)) - sleep_cntr[r]
      BY <1>7, <2>7, <2>8, SMTT(20)
    <3>2. QED
      BY <3>1, SMTT(20) DEF Tokens
  <2>11. QED
    BY <1>6, <2>1, <2>3, <2>4, <2>5, <2>9, <2>10 DEF EmuInv, Refines, Prims!primVars, Tokens
<1>11. CASE ~(n > 0)
  <2>1. /\ op' \in [Threads -> EmuCalls \cup {Idle}] /\ op'[t] = Idle
        /\ at' \in [Threads -> {"out", "lock", "wait", "relock"}] /\ at'[t] = "out"
        /\ \A s \in Threads : s # t => op'[s] = op[s]
        /\ \A s \in Threads : s # t => at'[s] = at[s]
        /\ \A s \in Threads : at'[s] = "out" <=> op'[s] = Idle
    <3>1. Return(t, {})
      BY <1>6, <1>11
    <3>2. QED
      BY <1>1, <3>1, ReturnFacts, SMT
  <2>2. op' = [op EXCEPT ![t] = Idle]
    BY <1>6, <1>11 DEF Return
  <2>3. EmuTypeOK'
    BY <1>1, <1>3, <1>6, <1>7, <2>1 DEF EmuTypeOK
  <2>4. \A s \in Threads : Sleeps(s)' => s # t /\ Sleeps(s)
    BY <2>1 DEF Sleeps
  <2>5. OneSleeper'
    BY <1>1, <1>3, <2>1, <2>4 DEF OneSleeper
  <2>6. NoLostNotify'
    BY <1>3, <1>6, <2>1, QueuesAside
  <2>7. Sleepers(p)' = {} /\ Waiting("sleep", p)' = {}
    BY <1>4, <2>1 DEF Sleepers, Waiting, Sleeps
  <2>8. ASSUME NEW r \in PEs, r # p
        PROVE  Sleepers(r)' = Sleepers(r) /\ Waiting("sleep", r)' = Waiting("sleep", r)
    BY <1>2, <2>1, <2>8, SMT DEF Sleepers, Waiting
  <2>9. AsleepIsUnwoken'
    <3>1. ASSUME NEW r \in PEs
          PROVE  /\ Waiting("sleep", r)' # {} => sleep_cntr'[r] > 0
                 /\ sleep_cntr'[r] <= Cardinality(Sleepers(r)')
      <4>1. CASE r = p
        BY <1>7, <1>9, <1>11, <2>7, <4>1, SMTT(20)
      <4>2. CASE r # p
        BY <1>7, <2>8, <4>2, SMT DEF EmuInv, AsleepIsUnwoken
      <4>3. QED
        BY <4>1, <4>2, SMTT(20)
    <3>2. QED
      BY <3>1, SMT DEF AsleepIsUnwoken
  <2>10. Tokens[p] > 0 /\ Tokens' = [Tokens EXCEPT ![p] = @ - 1]
    <3>1. /\ Cardinality(Sleepers(p)) - sleep_cntr[p] > 0
          /\ Cardinality(Sleepers(p)') - sleep_cntr'[p] = (Cardinality(Sleepers(p)) - sleep_cntr[p]) - 1
      BY <1>5, <1>7, <1>9, <1>11, <2>7, SMTT(20)
    <3>2. \A r \in PEs : r # p =>
             Cardinality(Sleepers(r)') - sleep_cntr'[r] = Cardinality(Sleepers(r)) - sleep_cntr[r]
      BY <1>7, <2>8, SMT
    <3>3. QED
      BY <3>1, <3>2 DEF Tokens
  <2>11. Prims!DoSleep(t)
    BY <1>2, <1>3, <1>6, <2>2, <2>10
    DEF Prims!DoSleep, Prims!Is, Prims!Finish, Tokens
  <2>12. QED
    BY <2>3, <2>5, <2>6, <2>9, <2>11 DEF EmuInv, Refines, Prims!PNext, Prims!Perform
<1>12. QED
  BY <1>10, <1>11, SMT

LEMMA WakeStep ==
  ASSUME EmuInv, NEW t \in Threads, __wake(t)
  PROVE  EmuInv' /\ Refines
<1> USE ZenonT(60)
<1>1. EmuTypeOK /\ OneSleeper
  BY SMT DEF EmuInv
<1>2. PICK p \in PEs : p = op[t].pe
  BY <1>1, CallShape DEF __wake, Wants
<1>3. /\ at[t] \in {"lock", "relock"} /\ op[t] # Idle /\ op[t].name = "wake" /\ ~Sleeps(t)
      /\ UNCHANGED <<up, inits, core, queue, ret, ops, failed>>
      /\ sleep_cntr' = [sleep_cntr EXCEPT ![p] = @ - 1]
      /\ Return(t, Waiting("sleep", p))
  BY <1>2 DEF __wake, Wants, Sleeps
<1>4. /\ sleep_cntr' \in [PEs -> Int] /\ sleep_cntr'[p] = sleep_cntr[p] - 1
      /\ \A r \in PEs : r # p => sleep_cntr'[r] = sleep_cntr[r]
      /\ \A r \in PEs : sleep_cntr[r] \in Int
  BY <1>1, <1>3, SMT DEF EmuTypeOK
<1> DEFINE W == Waiting("sleep", p)
<1>5. W \in SUBSET Threads /\ \A u \in W : u # t /\ at[u] = "wait" /\ Sleeps(u) /\ op[u].pe = p
  BY <1>3 DEF Waiting, Sleeps
<1>6. /\ op' \in [Threads -> EmuCalls \cup {Idle}] /\ op'[t] = Idle
      /\ at' \in [Threads -> {"out", "lock", "wait", "relock"}] /\ at'[t] = "out"
      /\ \A s \in Threads : s # t => op'[s] = op[s]
      /\ \A s \in Threads : s # t /\ s \notin W => at'[s] = at[s]
      /\ \A s \in W : at'[s] \in {"wait", "relock"}
      /\ \A s \in Threads : at'[s] = "out" <=> op'[s] = Idle
  <2> HIDE DEF W
  <2>1. Return(t, W)
    BY <1>3 DEF W
  <2>2. QED
    BY <1>1, <1>5, <2>1, ReturnFacts
<1>7. op' = [op EXCEPT ![t] = Idle]
  BY <1>3 DEF Return
<1>8. EmuTypeOK'
  BY <1>1, <1>3, <1>4, <1>6 DEF EmuTypeOK
<1>9. OneSleeper'
  <2>1. \A s \in Threads : Sleeps(s)' => s # t /\ Sleeps(s)
    BY <1>6 DEF Sleeps
  <2>2. QED
    BY <1>1, <1>3, <1>6, <2>1 DEF OneSleeper
<1>10. NoLostNotify'
  BY <1>3, <1>5, <1>6, QueuesAside
<1>11. ASSUME NEW r \in PEs PROVE Sleepers(r)' = Sleepers(r)
  <2>1. ASSUME NEW s \in Threads PROVE s \in Sleepers(r)' <=> s \in Sleepers(r)
    <3>1. CASE s = t
      BY <1>3, <1>6, <3>1 DEF Sleepers, Sleeps
    <3>2. CASE s \in W
      BY <1>5, <1>6, <3>2 DEF Sleepers
    <3>3. CASE s # t /\ s \notin W
      BY <1>6, <3>3 DEF Sleepers
    <3>4. QED
      BY <3>1, <3>2, <3>3
  <2>2. QED
    BY <2>1 DEF Sleepers
<1>12. Waiting("sleep", p)' = {}
  <2>1. CASE W = {}
    <3>1. \A s \in Threads : s # t => at'[s] = at[s]
      BY <1>6, <2>1
    <3>2. QED
      BY <1>6, <2>1, <3>1, SMTT(20) DEF Waiting
  <2>2. CASE W # {}
    <3>1. PICK u \in W : at' = [at EXCEPT ![t] = "out", ![u] = "relock"]
      BY <1>3, <2>2 DEF Return
    <3>2. u \in Threads /\ Sleeps(u) /\ op[u].pe = p /\ at'[u] = "relock"
      BY <1>1, <1>5, <3>1 DEF EmuTypeOK
    <3>3. \A s \in Threads : Sleeps(s) /\ op[s].pe = p => s = u
      BY <1>1, <3>2 DEF OneSleeper
    <3>4. QED
      BY <1>6, <3>2, <3>3, SMTT(20) DEF Waiting, Sleeps
  <2>3. QED
    BY <2>1, <2>2
<1>13. ASSUME NEW r \in PEs, r # p PROVE Waiting("sleep", r)' \subseteq Waiting("sleep", r)
  <2>1. \A s \in Waiting("sleep", r)' : s \in Threads /\ s # t /\ op'[s] = op[s]
    BY <1>6 DEF Waiting
  <2>2. \A s \in Waiting("sleep", r)' : s \notin W
    BY <1>5, <1>13, <2>1 DEF Waiting
  <2>3. QED
    BY <1>6, <2>1, <2>2 DEF Waiting
<1>14. AsleepIsUnwoken'
  <2>1. ASSUME NEW r \in PEs
        PROVE  /\ Waiting("sleep", r)' # {} => sleep_cntr'[r] > 0
               /\ sleep_cntr'[r] <= Cardinality(Sleepers(r)')
    <3>1. Cardinality(Sleepers(r)) \in {0, 1} /\ sleep_cntr[r] <= Cardinality(Sleepers(r))
      BY <1>1, SleepersOne DEF EmuInv, AsleepIsUnwoken
    <3>2. CASE r = p
      BY <1>4, <1>11, <1>12, <3>1, <3>2, SMTT(20)
    <3>3. CASE r # p
      BY <1>4, <1>11, <1>13, <3>1, <3>3 DEF EmuInv, AsleepIsUnwoken
    <3>4. QED
      BY <3>2, <3>3
  <2>2. QED
    BY <2>1 DEF AsleepIsUnwoken
<1>15. Tokens' = [Tokens EXCEPT ![p] = @ + 1]
  <2>1. Cardinality(Sleepers(p)) \in Int
    BY <1>1, SleepersOne, SMT
  <2>2. Cardinality(Sleepers(p)') - sleep_cntr'[p] = (Cardinality(Sleepers(p)) - sleep_cntr[p]) + 1
    BY <1>4, <1>11, <2>1, SMTT(20)
  <2>3. \A r \in PEs : r # p =>
           Cardinality(Sleepers(r)') - sleep_cntr'[r] = Cardinality(Sleepers(r)) - sleep_cntr[r]
    BY <1>4, <1>11, SMT
  <2>4. QED
    BY <2>2, <2>3 DEF Tokens
<1>16. Prims!DoWake(t)
  BY <1>2, <1>3, <1>7, <1>15
  DEF Prims!DoWake, Prims!Is, Prims!Finish, Tokens
<1>17. QED
  BY <1>8, <1>9, <1>10, <1>14, <1>16 DEF EmuInv, Refines, Prims!PNext, Prims!Perform

----------------------------------------------------------------------------
LEMMA EmuInitially ==
  EmuInit => EmuInv /\ Prims!PInit
<1> SUFFICES ASSUME EmuInit PROVE EmuInv /\ Prims!PInit
  OBVIOUS
<1>1. \A q \in QueuePairs : queue[q] = <<>> /\ Len(queue[q]) = 0
  BY DEF EmuInit, NoQueues
<1>2. \A t \in Threads : op[t] = Idle /\ at[t] = "out"
  BY DEF EmuInit
<1>3. EmuTypeOK
  <2>1. queue \in [QueuePairs -> Seq(Data)]
    BY DEF EmuInit, NoQueues
  <2>2. \A q \in QueuePairs : Len(queue[q]) <= Depth
    BY <1>1, EmuAssumption
  <2>3. sleep_cntr \in [PEs -> Int] /\ inits \in Nat /\ ops \in [Threads -> Nat]
    BY DEF EmuInit
  <2>4. QED
    BY <1>2, <2>1, <2>2, <2>3, ZenonT(30) DEF EmuInit, EmuTypeOK
<1>4. \A p \in PEs : Sleepers(p) = {} /\ Waiting("sleep", p) = {} /\ sleep_cntr[p] = 0
  BY <1>2, Zenon DEF Sleepers, Waiting, EmuInit
<1>5. Cardinality({}) = 0
  BY FS_EmptySet
<1>6. OneSleeper /\ NoLostNotify
  BY <1>2, Zenon DEF OneSleeper, Sleeps, NoLostNotify, Waiting
<1>7. AsleepIsUnwoken
  BY <1>4, <1>5 DEF AsleepIsUnwoken
<1>8. Prims!PInit
  <2>1. \A p \in PEs : Cardinality(Sleepers(p)) - sleep_cntr[p] = 0
    BY <1>4, <1>5
  <2>2. [p \in PEs |-> Cardinality(Sleepers(p)) - sleep_cntr[p]] = [p \in PEs |-> 0]
    BY <2>1
  <2>3. QED
    BY <2>2 DEF Prims!PInit, EmuInit, NoQueues
<1>9. QED
  BY <1>3, <1>6, <1>7, <1>8 DEF EmuInv

LEMMA EmuStep ==
  EmuInv /\ [EmuNext]_emuVars => EmuInv' /\ Refines
<1> USE ZenonT(60)
<1> SUFFICES ASSUME EmuInv, [EmuNext]_emuVars PROVE EmuInv' /\ Refines
  BY SMT
<1>1. ASSUME NEW t \in Threads, Enter(t) PROVE EmuInv' /\ Refines
  BY <1>1, PushStep, PopStep, SleepStep, WakeStep DEF Enter
<1>2. CASE EmuNext
  BY <1>1, <1>2, SetupStep, CallStep, OtherStep DEF EmuNext
<1>3. CASE UNCHANGED emuVars
  <2>1. UNCHANGED <<up, inits, core, queue, sleep_cntr, op, at, ret, ops, failed>>
    BY <1>3 DEF emuVars
  <2>2. EmuTypeOK'
    BY <2>1 DEF EmuInv, EmuTypeOK
  <2>3. OneSleeper' /\ AsleepIsUnwoken' /\ Tokens' = Tokens
    BY <2>1, SleepFrame DEF EmuInv, Sleeps
  <2>4. NoLostNotify'
    BY <2>1, QueueFrame, SMT DEF EmuInv, Waiting, Woken
  <2>5. QED
    BY <2>1, <2>2, <2>3, <2>4 DEF EmuInv, Refines, Prims!primVars, Tokens
<1>4. QED
  BY <1>2, <1>3, SMT

(* No notification is lost, for any threads sharing the ends of a queue of *)
(* any depth, whatever std::condition_variable wakes up by itself.         *)
THEOREM NotificationsArrive == EmuSpec => []NoLostNotify
<1>1. EmuInv => NoLostNotify
  BY ZenonT(30) DEF EmuInv
<1>2. QED
  BY EmuInitially, EmuStep, <1>1, PTL DEF EmuSpec

(* A thread that stays in __sleep has not been woken, for any PEs. *)
THEOREM WakesArrive == EmuSpec => []AsleepIsUnwoken
<1>1. EmuInv => AsleepIsUnwoken
  BY DEF EmuInv
<1>2. QED
  BY EmuInitially, EmuStep, <1>1, PTL DEF EmuSpec

(* The library implements the queues and semaphores of EmuPrims. *)
THEOREM ImplementsPrims == EmuSpec => IsPrims
<1>1. Refines => [Prims!PNext]_(Prims!primVars)
  BY DEF Refines
<1>2. QED
  BY EmuInitially, EmuStep, <1>1, PTL DEF EmuSpec, IsPrims, Prims!PSpec

----------------------------------------------------------------------------
(* What an entry of a trace, and an instruction of a program, adds to the  *)
(* counts the properties are made of.                                      *)
Entries ==
  [entry : {"STALL"}, cycles : Nat, deps : BOOLEAN] \cup {MEM, EOF} \cup {PRIM(c) : c \in EmuCalls}

Items ==
  [item : {"compute", "dependent", "access", "local", "end"}]
    \cup [item : {"prim"}, call : EmuCalls]

(* Pairs of a finite set of keys with finite sets are finitely many. *)
LEMMA FinitePairs ==
  ASSUME NEW S, IsFiniteSet(S), NEW F, \A k \in S : IsFiniteSet(F[k])
  PROVE  IsFiniteSet(UNION {{k} \X F[k] : k \in S})
<1> DEFINE T == {{k} \X F[k] : k \in S}
           f == [k \in S |-> {k} \X F[k]]
<1>1. f \in Surjection(S, T)
  BY Zenon DEF Surjection
<1>2. IsFiniteSet(T)
  BY <1>1, FS_Surjection
<1>3. ASSUME NEW P \in T PROVE IsFiniteSet(P)
  <2>1. PICK k \in S : P = {k} \X F[k]
    BY <1>3
  <2> QED
    BY <2>1, FS_Singleton, FS_Product, Zenon
<1> QED
  BY <1>2, <1>3, FS_UNION, Zenon

(* Pairs of keys with members of their sets, when one of the sets grows. *)
Pairs(S, F) == UNION {{p} \X F[p] : p \in S}

Grown(S, F, G, k, v) ==
  k \in S /\ v \notin F[k] /\ G[k] = F[k] \cup {v} /\ \A p \in S : p # k => G[p] = F[p]

LEMMA PairsGrow ==
  ASSUME NEW S, NEW F, NEW G, NEW k, NEW v, Grown(S, F, G, k, v)
  PROVE  Pairs(S, G) = Pairs(S, F) \cup {<<k, v>>} /\ <<k, v>> \notin Pairs(S, F)
<1> USE Zenon
<1>0. /\ k \in S /\ v \notin F[k] /\ G[k] = F[k] \cup {v}
      /\ \A p \in S : p # k => G[p] = F[p]
  BY DEF Grown
<1>1. ASSUME NEW p \in S, p # k PROVE {p} \X G[p] = {p} \X F[p]
  BY <1>0, <1>1
<1>2. {k} \X G[k] = ({k} \X F[k]) \cup {<<k, v>>}
  BY <1>0, SMTT(20)
<1>3. <<k, v>> \notin Pairs(S, F)
  BY <1>0, SMT DEF Pairs
<1>4. ASSUME NEW z \in Pairs(S, G) PROVE z \in Pairs(S, F) \cup {<<k, v>>}
  <2>1. PICK p \in S : z \in {p} \X G[p]
    BY <1>4 DEF Pairs
  <2>2. CASE p = k
    BY <1>0, <1>2, <2>1, <2>2 DEF Pairs
  <2>3. CASE p # k
    BY <1>1, <2>1, <2>3 DEF Pairs
  <2> QED
    BY <2>2, <2>3, SMT
<1>5. ASSUME NEW z \in Pairs(S, F) PROVE z \in Pairs(S, G)
  <2>1. PICK p \in S : z \in {p} \X F[p]
    BY <1>5 DEF Pairs
  <2>2. CASE p = k
    BY <1>0, <1>2, <2>1, <2>2 DEF Pairs
  <2>3. CASE p # k
    BY <1>1, <2>1, <2>3 DEF Pairs
  <2> QED
    BY <2>2, <2>3, SMT
<1>6. <<k, v>> \in Pairs(S, G)
  BY <1>0, <1>2, ZenonT(60) DEF Pairs
<1> QED
  BY <1>3, <1>4, <1>5, <1>6

(* A set of positions of a sequence is finite. *)
LEMMA FinitePositions ==
  ASSUME NEW n \in Nat, NEW S \in SUBSET (1 .. n)
  PROVE  /\ IsFiniteSet(S) /\ Cardinality(S) \in Nat
         /\ n + 1 \notin S
         /\ Cardinality(S \cup {n + 1}) = Cardinality(S) + 1
<1>1. IsFiniteSet(1 .. n)
  BY Initial, Zenon
<1>2. IsFiniteSet(S)
  BY <1>1, FS_Subset, Zenon
<1>3. n + 1 \notin S
  <2>1. n + 1 \notin 1 .. n
    OBVIOUS
  <2> QED
    BY <2>1
<1> QED
  BY <1>2, <1>3, FS_CardinalityType, FS_AddElement

(* The rank of a position is at most the number of positions, and the rank *)
(* of a position that comes last is above that of the others.              *)
LEMMA Ranks ==
  ASSUME NEW n \in Nat, NEW S \in SUBSET (1 .. n)
  PROVE  /\ \A k \in S : Rank(S, k) \in Nat /\ Rank(S, k) <= Cardinality(S)
         /\ \A k \in S : Rank(S \cup {n + 1}, k) = Rank(S, k)
         /\ Rank(S \cup {n + 1}, n + 1) = Cardinality(S) + 1
<1>1. IsFiniteSet(S)
  BY FinitePositions, Zenon
<1>2. ASSUME NEW k \in S
      PROVE  Rank(S, k) \in Nat /\ Rank(S, k) <= Cardinality(S)
  <2>1. {j \in S : j <= k} \in SUBSET S
    OBVIOUS
  <2> QED
    BY <1>1, <2>1, FS_Subset, FS_CardinalityType DEF Rank
<1>3. ASSUME NEW k \in S PROVE Rank(S \cup {n + 1}, k) = Rank(S, k)
  <2>1. {j \in S \cup {n + 1} : j <= k} = {j \in S : j <= k}
    OBVIOUS
  <2> QED
    BY <2>1 DEF Rank
<1>4. Rank(S \cup {n + 1}, n + 1) = Cardinality(S) + 1
  <2>0. \A j \in S \cup {n + 1} : j <= n + 1
    OBVIOUS
  <2>1. {j \in S \cup {n + 1} : j <= n + 1} = S \cup {n + 1}
    BY <2>0, Zenon
  <2> QED
    BY <2>1, FinitePositions DEF Rank
<1> QED
  BY <1>2, <1>3, <1>4

(* The cycles of a trace grow by those of the STALL that is written. *)
LEMMA TicksFinite ==
  ASSUME NEW l \in Seq(Entries), NEW m \in Nat
  PROVE  IsFiniteSet(Ticks(l, m)) /\ Cycles(l, m) \in Nat
<1> DEFINE S == {k \in DOMAIN l : k <= m /\ l[k].entry = "STALL"}
           F == [k \in S |-> 1 .. l[k].cycles]
<1>1. IsFiniteSet(S)
  <2>1. S \in SUBSET (1 .. Len(l)) /\ Len(l) \in Nat
    OBVIOUS
  <2> QED
    BY <2>1, FinitePositions, Zenon
<1>2. ASSUME NEW k \in S PROVE IsFiniteSet(F[k])
  <2>1. l[k] \in Entries /\ l[k].entry = "STALL"
    BY SMTT(20)
  <2>2. l[k].cycles \in Nat
    BY <2>1 DEF Entries, MEM, EOF, PRIM
  <2> QED
    BY <2>2, Initial, Zenon
<1>3. Ticks(l, m) = UNION {{k} \X F[k] : k \in S}
  BY Zenon DEF Ticks
<1>4. IsFiniteSet(UNION {{k} \X F[k] : k \in S})
  <2> HIDE DEF S, F
  <2> QED
    BY <1>1, <1>2, FinitePairs, SMTT(20)
<1> QED
  BY <1>3, <1>4, FS_CardinalityType DEF Cycles

(* The cycles an entry stands for. *)
CyclesOf(e) == IF e.entry = "STALL" THEN e.cycles ELSE 0

LEMMA CyclesOfNat ==
  ASSUME NEW e \in Entries
  PROVE  CyclesOf(e) \in Nat
BY DEF CyclesOf, Entries, MEM, EOF, PRIM

(* A sum of numbers, as a set of pairs, grows by the number that is added. *)
Summed(S, F) == UNION {{k} \X (1 .. F[k]) : k \in S}

Extends(S, F, G, n, c) ==
  n \notin S /\ G[n] = c /\ c \in Nat /\ \A k \in S : G[k] = F[k]

LEMMA SumGrows ==
  ASSUME NEW S, NEW n, NEW F, NEW G, NEW c, Extends(S, F, G, n, c), IsFiniteSet(Summed(S, F))
  PROVE  Cardinality(Summed(S \cup {n}, G)) = Cardinality(Summed(S, F)) + c
<1> DEFINE M == {{k} \X (1 .. G[k]) : k \in S \cup {n}}
           L == {{k} \X (1 .. F[k]) : k \in S}
           A == UNION L
           B == {n} \X (1 .. c)
<1>0. n \notin S /\ G[n] = c /\ c \in Nat /\ \A k \in S : G[k] = F[k]
  BY Zenon DEF Extends
<1>1. UNION M = A \cup B
  <2>1. \A k \in S : {k} \X (1 .. G[k]) = {k} \X (1 .. F[k])
    BY <1>0, Zenon
  <2>2. {n} \X (1 .. G[n]) = B
    BY <1>0, Zenon
  <2>3. M = L \cup {B}
    <3> HIDE DEF B
    <3> QED
      BY <2>1, <2>2, Zenon
  <2> HIDE DEF M, L, B
  <2> QED
    BY <2>3
<1>2. A \cap B = {}
  BY <1>0
<1>3. IsFiniteSet(B) /\ Cardinality(B) = c
  <2> DEFINE one == {n}
             all == 1 .. c
  <2>1. /\ IsFiniteSet(one) /\ Cardinality(one) = 1
        /\ IsFiniteSet(all) /\ Cardinality(all) = c
    BY <1>0, FS_Singleton, Initial, Zenon
  <2>2. B = one \X all
    BY Zenon
  <2> HIDE DEF one, all, B
  <2>3. IsFiniteSet(one \X all) /\ Cardinality(one \X all) = Cardinality(one) * Cardinality(all)
    BY <2>1, FS_Product, Zenon
  <2>4. 1 * c = c
    BY <1>0
  <2> QED
    BY <2>1, <2>2, <2>3, <2>4, Zenon
<1> HIDE DEF A, B, M
<1>4. IsFiniteSet(A) /\ Cardinality(A) \in Nat
  BY FS_CardinalityType, Zenon DEF A, Summed
<1>5. Cardinality(A \cup B) = Cardinality(A) + Cardinality(B) - Cardinality(A \cap B)
  BY <1>3, <1>4, FS_Union
<1>6. Cardinality(A \cap B) = 0
  BY <1>2, FS_EmptySet, Zenon
<1>7. Cardinality(A \cup B) = Cardinality(A) + c
  BY <1>0, <1>3, <1>4, <1>5, <1>6, SMTT(20)
<1> QED
  BY <1>1, <1>7, Zenon DEF A, M, Summed

(* An entry that is written leaves the cycles in front of it as they are. *)
LEMMA TicksAppend ==
  ASSUME NEW l \in Seq(Entries), NEW e \in Entries, NEW m, m = Append(l, e)
  PROVE  Cycles(m, Len(m)) = Cycles(l, Len(l)) + CyclesOf(e)
<1> DEFINE n == Len(l) + 1
           S == {j \in DOMAIN l : j <= Len(l) /\ l[j].entry = "STALL"}
<1>0. /\ Len(l) \in Nat /\ Len(m) = n /\ m[n] = e /\ DOMAIN m = DOMAIN l \cup {n}
      /\ DOMAIN l = 1 .. Len(l) /\ \A k \in DOMAIN l : m[k] = l[k]
  OBVIOUS
<1>1. IsFiniteSet(Ticks(l, Len(l))) /\ Cardinality(Ticks(l, Len(l))) \in Nat /\ CyclesOf(e) \in Nat
  BY <1>0, TicksFinite, CyclesOfNat, SMTT(20) DEF Cycles
<1>2. n \notin S /\ \A k \in S : m[k] = l[k]
  BY <1>0
<1>3. CASE e.entry = "STALL"
  <2> DEFINE F == [k \in S |-> l[k].cycles]
             G == [k \in S \cup {n} |-> m[k].cycles]
  <2>1. {j \in DOMAIN m : j <= n /\ m[j].entry = "STALL"} = S \cup {n}
    BY <1>0, <1>3
  <2>2. Ticks(m, n) = Summed(S \cup {n}, G)
    BY <2>1, Zenon DEF Ticks, Summed
  <2>3. Ticks(l, Len(l)) = Summed(S, F)
    BY Zenon DEF Ticks, Summed
  <2>4. G[n] = CyclesOf(e) /\ \A k \in S : G[k] = F[k]
    <3> HIDE DEF S, n
    <3> QED
      BY <1>0, <1>2, <1>3, Zenon DEF CyclesOf
  <2> HIDE DEF S, n, F, G
  <2>5. IsFiniteSet(Summed(S, F))
    BY <1>1, <2>3, Zenon
  <2>6. Cardinality(Summed(S \cup {n}, G)) = Cardinality(Summed(S, F)) + CyclesOf(e)
    <3>1. Extends(S, F, G, n, CyclesOf(e))
      BY <1>1, <1>2, <2>4, Zenon DEF Extends
    <3> QED
      BY <2>5, <3>1, SumGrows
  <2> QED
    BY <1>0, <2>2, <2>3, <2>6, Zenon DEF Cycles
<1>4. CASE e.entry # "STALL"
  <2>1. {j \in DOMAIN m : j <= n /\ m[j].entry = "STALL"} = S
    BY <1>0, <1>4, SMTT(20)
  <2>2. Ticks(m, n) = Ticks(l, Len(l))
    BY <1>2, <2>1 DEF Ticks
  <2>3. CyclesOf(e) = 0
    BY <1>4 DEF CyclesOf
  <2> HIDE DEF n
  <2> QED
    BY <1>0, <1>1, <2>2, <2>3, SMTT(20) DEF Cycles
<1> QED
  BY <1>3, <1>4

(* What the callers of a thread have pending, when one of them calls. *)
LEMMA HeldAppend ==
  ASSUME NEW h \in Seq(Nat), NEW c \in Nat
  PROVE  Held(h) \in Nat /\ Held(Append(h, c)) = Held(h) + c
<1> DEFINE n == Len(h) + 1
           D == DOMAIN h
           m == Append(h, c)
<1>1. /\ D = 1 .. Len(h) /\ Len(h) \in Nat /\ n \notin D /\ DOMAIN m = D \cup {n}
      /\ m[n] = c /\ \A k \in D : m[k] = h[k] /\ h[k] \in Nat
  OBVIOUS
<1> HIDE DEF n, D, m
<1>2. IsFiniteSet(Summed(D, h))
  <2> DEFINE F == [k \in D |-> 1 .. h[k]]
  <2>1. IsFiniteSet(D)
    BY <1>1, Initial, Zenon
  <2>2. \A k \in D : IsFiniteSet(F[k])
    BY <1>1, Initial, Zenon
  <2>3. Summed(D, h) = UNION {{k} \X F[k] : k \in D}
    BY Zenon DEF Summed
  <2> HIDE DEF F
  <2> QED
    BY <2>1, <2>2, <2>3, FinitePairs
<1>3. Held(h) = Cardinality(Summed(D, h)) /\ Held(h) \in Nat
  BY <1>2, FS_CardinalityType, Zenon DEF Held, Summed, D
<1>4. Held(m) = Cardinality(Summed(D \cup {n}, m))
  BY <1>1, Zenon DEF Held, Summed
<1>5. Held(m) = Held(h) + c
  <2>1. Extends(D, h, m, n, c)
    BY <1>1, Zenon DEF Extends
  <2> QED
    BY <1>2, <1>3, <1>4, <2>1, SumGrows
<1> QED
  BY <1>3, <1>5, Zenon DEF m

(* An instruction adds itself to the compute instructions if it is one. *)
LEMMA ComputesAppend ==
  ASSUME NEW g \in Seq(Items), NEW i \in Items, NEW h, h = Append(g, i)
  PROVE  /\ Cardinality(Computes(h)) = Cardinality(Computes(g))
                 + (IF i.item \in {"compute", "dependent"} THEN 1 ELSE 0)
         /\ Cardinality(Computes(g)) \in Nat
<1> DEFINE n == Len(g) + 1
<1>0. /\ Len(g) \in Nat /\ Len(h) = n /\ h[n] = i /\ DOMAIN h = DOMAIN g \cup {n}
      /\ DOMAIN g = 1 .. Len(g) /\ \A k \in DOMAIN g : h[k] = g[k]
  OBVIOUS
<1>1. /\ Cardinality(Computes(g)) \in Nat
      /\ Cardinality(Computes(g) \cup {n}) = Cardinality(Computes(g)) + 1
  <2>1. Computes(g) \in SUBSET (1 .. Len(g))
    BY <1>0 DEF Computes
  <2> QED
    BY <1>0, <2>1, FinitePositions, Zenon
<1>2. Computes(h) = IF i.item \in {"compute", "dependent"} THEN Computes(g) \cup {n} ELSE Computes(g)
  <2> HIDE DEF n
  <2> QED
    BY <1>0, SMTT(20) DEF Computes
<1> QED
  BY <1>1, <1>2

----------------------------------------------------------------------------
(* A trace and a program that agree still do when an entry is written that *)
(* is neither an access nor a primitive, when an instruction is executed   *)
(* that is neither, and when one of them is executed and written.          *)

LEMMA WrittenAppend ==
  ASSUME NEW l \in Seq(Entries), NEW e \in Entries, NEW m, m = Append(l, e)
  PROVE  /\ Written(l) \in SUBSET (1 .. Len(l)) /\ Len(l) \in Nat
         /\ Written(m) = IF e.entry \in {"MEM", "PRIM"} THEN Written(l) \cup {Len(l) + 1}
                                                       ELSE Written(l)
         /\ \A k \in Written(l) : m[k] = l[k]
<1> DEFINE n == Len(l) + 1
<1>0. /\ Len(l) \in Nat /\ m[n] = e /\ DOMAIN m = DOMAIN l \cup {n} /\ n \notin DOMAIN l
      /\ DOMAIN l = 1 .. Len(l) /\ \A k \in DOMAIN l : m[k] = l[k]
  OBVIOUS
<1>1. Written(m) = IF e.entry \in {"MEM", "PRIM"} THEN Written(l) \cup {n} ELSE Written(l)
  <2> HIDE DEF n
  <2> QED
    BY <1>0 DEF Written
<1>2. Written(l) \in SUBSET (1 .. Len(l))
  BY <1>0, SMTT(20) DEF Written
<1> QED
  BY <1>0, <1>1, <1>2, SMTT(20)

LEMMA KeptAppend ==
  ASSUME NEW g \in Seq(Items), NEW i \in Items, NEW h, h = Append(g, i)
  PROVE  /\ Kept(g) \in SUBSET (1 .. Len(g)) /\ Len(g) \in Nat
         /\ Kept(h) = IF i.item \in {"access", "prim"} THEN Kept(g) \cup {Len(g) + 1}
                                                      ELSE Kept(g)
         /\ \A k \in Kept(g) : h[k] = g[k]
<1> DEFINE n == Len(g) + 1
<1>0. /\ Len(g) \in Nat /\ h[n] = i /\ DOMAIN h = DOMAIN g \cup {n} /\ n \notin DOMAIN g
      /\ DOMAIN g = 1 .. Len(g) /\ \A k \in DOMAIN g : h[k] = g[k]
  OBVIOUS
<1>1. Kept(h) = IF i.item \in {"access", "prim"} THEN Kept(g) \cup {n} ELSE Kept(g)
  <2> HIDE DEF n
  <2> QED
    BY <1>0, SMTT(20) DEF Kept
<1>2. Kept(g) \in SUBSET (1 .. Len(g))
  BY <1>0 DEF Kept
<1> QED
  BY <1>0, <1>1, <1>2, SMTT(20)

LEMMA OrderedLog ==
  ASSUME NEW l \in Seq(Entries), NEW g \in Seq(Items), Ordered(l, g),
         NEW e \in Entries, e.entry \notin {"MEM", "PRIM"}
  PROVE  Ordered(Append(l, e), g)
<1> USE Zenon
<1> DEFINE m == Append(l, e)
<1>1. /\ Written(m) = Written(l)
      /\ \A k \in Written(l) : m[k] = l[k]
  BY WrittenAppend
<1> HIDE DEF m
<1>2. \A k, i : SameRank(m, k, g, i) <=> SameRank(l, k, g, i)
  BY <1>1 DEF SameRank
<1>3. Ordered(m, g)
  BY <1>1, <1>2 DEF Ordered
<1> QED
  BY <1>3 DEF m

LEMMA OrderedProg ==
  ASSUME NEW l \in Seq(Entries), NEW g \in Seq(Items), Ordered(l, g),
         NEW i \in Items, i.item \notin {"access", "prim"}
  PROVE  Ordered(l, Append(g, i))
<1> USE Zenon
<1> DEFINE h == Append(g, i)
<1>1. /\ Kept(h) = Kept(g)
      /\ \A k \in Kept(g) : h[k] = g[k]
  BY KeptAppend
<1> HIDE DEF h
<1>2. \A k, j : SameRank(l, k, h, j) <=> SameRank(l, k, g, j)
  BY <1>1 DEF SameRank
<1>3. Ordered(l, h)
  BY <1>1, <1>2 DEF Ordered
<1> QED
  BY <1>3 DEF h

LEMMA OrderedBoth ==
  ASSUME NEW l \in Seq(Entries), NEW g \in Seq(Items), Ordered(l, g),
         NEW i \in Items, i.item \in {"access", "prim"},
         EntryOf(i) \in Entries, EntryOf(i).entry \in {"MEM", "PRIM"}
  PROVE  Ordered(Append(l, EntryOf(i)), Append(g, i))
<1> DEFINE e == EntryOf(i)
           m == Append(l, e)
           h == Append(g, i)
           a == Len(l) + 1
           b == Len(g) + 1
           W == Written(l)
           K == Kept(g)
<1>1. /\ W \in SUBSET (1 .. Len(l)) /\ Len(l) \in Nat /\ Written(m) = W \cup {a}
      /\ \A k \in W : m[k] = l[k]
  BY WrittenAppend, Zenon
<1>2. /\ K \in SUBSET (1 .. Len(g)) /\ Len(g) \in Nat /\ Kept(h) = K \cup {b}
      /\ \A k \in K : h[k] = g[k]
  BY KeptAppend, ZenonT(60)
<1>3. m[a] = EntryOf(h[b])
  BY <1>1, <1>2, SMTT(20)
<1>4. /\ Cardinality(W) \in Nat /\ Cardinality(W \cup {a}) = Cardinality(W) + 1
      /\ Cardinality(K) \in Nat /\ Cardinality(K \cup {b}) = Cardinality(K) + 1
  BY <1>1, <1>2, FinitePositions, Zenon
<1>5. Cardinality(W) = Cardinality(K)
  BY SMTT(20) DEF Ordered
<1>6. /\ \A k \in W : Rank(Written(m), k) = Rank(W, k) /\ Rank(W, k) <= Cardinality(W) /\ Rank(W, k) \in Nat
      /\ \A k \in K : Rank(Kept(h), k) = Rank(K, k) /\ Rank(K, k) <= Cardinality(K) /\ Rank(K, k) \in Nat
      /\ Rank(Written(m), a) = Cardinality(W) + 1 /\ Rank(Kept(h), b) = Cardinality(K) + 1
  <2> DEFINE M == Written(m)
             H == Kept(h)
             ll == Len(l)
             lg == Len(g)
  <2>1. ll \in Nat /\ W \in SUBSET (1 .. ll) /\ M = W \cup {ll + 1}
    BY <1>1, SMTT(20)
  <2>2. lg \in Nat /\ K \in SUBSET (1 .. lg) /\ H = K \cup {lg + 1}
    BY <1>2
  <2> HIDE DEF M, H, W, K, ll, lg
  <2>3. /\ \A k \in W : Rank(M, k) = Rank(W, k) /\ Rank(W, k) <= Cardinality(W) /\ Rank(W, k) \in Nat
        /\ Rank(M, ll + 1) = Cardinality(W) + 1
    BY <2>1, Ranks, Zenon
  <2>4. /\ \A k \in K : Rank(H, k) = Rank(K, k) /\ Rank(K, k) <= Cardinality(K) /\ Rank(K, k) \in Nat
        /\ Rank(H, lg + 1) = Cardinality(K) + 1
    BY <2>2, Ranks, SMTT(20)
  <2> QED
    BY <2>3, <2>4, SMTT(20) DEF M, H, ll, lg
<1> HIDE DEF e, m, h, a, b, W, K
<1>7. \A k \in W, j \in K : SameRank(m, k, h, j) <=> SameRank(l, k, g, j)
  BY <1>6 DEF SameRank, W, K
<1>8. /\ \A k \in W : ~SameRank(m, k, h, b)
      /\ \A j \in K : ~SameRank(m, a, h, j)
  <2>1. ASSUME NEW k \in W PROVE Rank(Written(m), k) # Rank(Kept(h), b)
    BY <1>4, <1>5, <1>6, SMTT(20)
  <2>2. ASSUME NEW j \in K PROVE Rank(Written(m), a) # Rank(Kept(h), j)
    BY <1>4, <1>5, <1>6
  <2> QED
    BY <2>1, <2>2, SMTT(20) DEF SameRank
<1>9. Ordered(m, h)
  <2>1. Cardinality(Written(m)) = Cardinality(Kept(h))
    BY <1>1, <1>2, <1>4, <1>5
  <2>2. \A k \in W, j \in K : SameRank(m, k, h, j) => m[k] = EntryOf(h[j])
    BY <1>1, <1>2, <1>7, ZenonT(60) DEF Ordered, W, K
  <2> QED
    BY <1>1, <1>2, <1>3, <1>8, <2>1, <2>2, Zenon DEF Ordered
<1> QED
  BY <1>9 DEF m, h, e

----------------------------------------------------------------------------
(* The trace l, the program g, and the counts s and c of a thread whose    *)
(* log is open.  Cycles that are not in l yet were taken and are in s, or  *)
(* were not and are in c: the count of its block and those of its callers. *)
Sound(l, s, c, g) ==
  /\ l \in Seq(Entries) /\ g \in Seq(Items) /\ s \in Nat /\ c \in Nat
  /\ Ordered(l, g)
  /\ Cycles(l, Len(l)) + s + c = Cardinality(Computes(g))

SoundRun(r, c, g) == Sound(r.log, r.stalls, c, g)

(* The entries and the instructions are of the types. *)
LEMMA EntryTypes ==
  /\ MEM \in Entries /\ MEM.entry = "MEM"
  /\ EOF \in Entries /\ EOF.entry = "EOF"
  /\ \A c \in EmuCalls : PRIM(c) \in Entries /\ PRIM(c).entry = "PRIM" /\ PRIM(c) # MEM
  /\ \A n \in Nat, d \in BOOLEAN :
       STALL(n, d) \in Entries /\ STALL(n, d).entry = "STALL" /\ CyclesOf(STALL(n, d)) = n
  /\ \A i \in {"compute", "dependent", "access", "local", "end"} :
       Item(i) \in Items /\ Item(i).item = i
  /\ EntryOf(Item("access")) = MEM
  /\ \A c \in EmuCalls : /\ [item |-> "prim", call |-> c] \in Items
                         /\ EntryOf([item |-> "prim", call |-> c]) = PRIM(c)
BY Zenon DEF Entries, Items, MEM, EOF, PRIM, STALL, Item, CyclesOf, EntryOf

(* The finished trace and program of a PE, when nothing else happens, keep *)
(* agreeing when stalls are written; the cycles grow by them.              *)
LEMMA StallWritten ==
  ASSUME NEW l \in Seq(Entries), NEW g \in Seq(Items), Ordered(l, g), NEW n \in Nat, NEW d \in BOOLEAN
  PROVE  /\ Append(l, STALL(n, d)) \in Seq(Entries)
         /\ Ordered(Append(l, STALL(n, d)), g)
         /\ Cycles(Append(l, STALL(n, d)), Len(Append(l, STALL(n, d)))) = Cycles(l, Len(l)) + n
<1> DEFINE e == STALL(n, d)
<1>1. e \in Entries /\ e.entry = "STALL" /\ CyclesOf(e) = n
  BY EntryTypes
<1> HIDE DEF e
<1>2. Append(l, e) \in Seq(Entries) /\ e.entry \notin {"MEM", "PRIM"}
  BY <1>1
<1>3. Ordered(Append(l, e), g)
  BY <1>1, <1>2, OrderedLog
<1>4. Cycles(Append(l, e), Len(Append(l, e))) = Cycles(l, Len(l)) + n
  BY <1>1, TicksAppend, Zenon
<1> QED
  BY <1>2, <1>3, <1>4 DEF e

(* emit_stall writes what was taken. *)
LEMMA StallEmitted ==
  ASSUME NEW l \in Seq(Entries), NEW g \in Seq(Items), Ordered(l, g), NEW s \in Nat,
         NEW r, r = emit_stall([log |-> l, stalls |-> s])
  PROVE  /\ r = [log |-> r.log, stalls |-> 0]
         /\ r.log \in Seq(Entries) /\ Ordered(r.log, g)
         /\ Cycles(r.log, Len(r.log)) = Cycles(l, Len(l)) + s
<1>0. Len(l) \in Nat /\ Cycles(l, Len(l)) \in Nat
  BY TicksFinite, SMTT(20)
<1>1. CASE s > 0
  <2>1. r = [log |-> Append(l, STALL(s, FALSE)), stalls |-> 0]
    BY <1>1 DEF emit_stall
  <2> DEFINE m == Append(l, STALL(s, FALSE))
  <2>2. m \in Seq(Entries) /\ Ordered(m, g) /\ Cycles(m, Len(m)) = Cycles(l, Len(l)) + s
    BY StallWritten, Zenon
  <2>3. r = [log |-> m, stalls |-> 0]
    BY <2>1, Zenon
  <2> HIDE DEF m
  <2> QED
    BY <2>2, <2>3, SMTT(20)
<1>2. CASE ~(s > 0)
  <2>1. r = [log |-> l, stalls |-> s] /\ s = 0
    BY <1>2, SMTT(20) DEF emit_stall
  <2> QED
    BY <1>0, <2>1, SMTT(20)
<1> QED
  BY <1>1, <1>2, SMTT(20)

(* A compute instruction goes into the count of its block. *)
LEMMA SoundCompute ==
  ASSUME NEW l, NEW s, NEW c, NEW g, Sound(l, s, c, g)
  PROVE  Sound(l, s, c + 1, Append(g, Item("compute")))
<1> DEFINE i == Item("compute")
           h == Append(g, i)
<1>1. i \in Items /\ i.item = "compute"
  BY EntryTypes
<1>2. /\ l \in Seq(Entries) /\ g \in Seq(Items) /\ s \in Nat /\ c \in Nat /\ Ordered(l, g)
      /\ Cycles(l, Len(l)) \in Nat
  BY TicksFinite DEF Sound
<1> HIDE DEF i
<1>3. Cardinality(Computes(h)) = Cardinality(Computes(g)) + 1 /\ Cardinality(Computes(g)) \in Nat
  BY <1>1, <1>2, ComputesAppend, Zenon
<1>4. Ordered(l, h) /\ h \in Seq(Items)
  BY <1>1, <1>2, OrderedProg
<1> HIDE DEF h
<1> QED
  BY <1>2, <1>3, <1>4, SMTT(20) DEF Sound, h, i

(* The cycles of a trace after an instruction that takes the count of its  *)
(* block and leaves that of the callers.                                   *)
LEMMA SoundTakes ==
  ASSUME NEW l, NEW s, NEW c, NEW g, Sound(l, s, c, g),
         NEW i \in Items, i.item # "compute",
         NEW m \in Seq(Entries), NEW u \in Nat, NEW d \in Nat,
         Ordered(m, Append(g, i)),
         Cycles(m, Len(m)) + u + d = Cycles(l, Len(l)) + s + c
                                       + (IF i.item = "dependent" THEN 1 ELSE 0)
  PROVE  Sound(m, u, d, Append(g, i))
<1> DEFINE h == Append(g, i)
<1>1. g \in Seq(Items) /\ Cycles(l, Len(l)) + s + c = Cardinality(Computes(g))
  BY DEF Sound
<1>2. i.item \in {"compute", "dependent"} <=> i.item = "dependent"
  OBVIOUS
<1>3. Cardinality(Computes(h)) = Cardinality(Computes(g)) + (IF i.item = "dependent" THEN 1 ELSE 0)
  BY <1>1, <1>2, ComputesAppend, Zenon
<1>4. h \in Seq(Items)
  BY <1>1
<1> HIDE DEF h
<1>5. Cycles(m, Len(m)) + u + d = Cardinality(Computes(h))
  BY <1>1, <1>3, Zenon
<1> QED
  BY <1>4, <1>5, Zenon DEF Sound, h

(* What a function of the runtime returns. *)
LEMMA RunIs ==
  ASSUME NEW l, NEW s, NEW c, NEW g, Sound(l, s, c, g), NEW r, r = [log |-> l, stalls |-> s]
  PROVE  SoundRun(r, c, g)
<1>1. r.log = l /\ r.stalls = s
  OBVIOUS
<1> QED
  BY <1>1, Zenon DEF SoundRun

(* increment_stalls in front of a compute instruction on a loaded value. *)
LEMMA SoundDependent ==
  ASSUME NEW l, NEW s, NEW c \in Nat, NEW d \in Nat, NEW g, Sound(l, s, c + d, g)
  PROVE  SoundRun(increment_stalls([log |-> l, stalls |-> s], c + 1, TRUE), d,
                  Append(g, Item("dependent")))
<1> DEFINE r == emit_stall([log |-> l, stalls |-> s])
           m == Append(r.log, STALL(c + 1, TRUE))
           i == Item("dependent")
<1>1. /\ l \in Seq(Entries) /\ g \in Seq(Items) /\ s \in Nat /\ c \in Nat /\ Ordered(l, g)
      /\ Cycles(l, Len(l)) \in Nat
  BY TicksFinite, SMTT(20) DEF Sound
<1>2. /\ r.log \in Seq(Entries) /\ Ordered(r.log, g)
      /\ Cycles(r.log, Len(r.log)) = Cycles(l, Len(l)) + s
  BY <1>1, StallEmitted
<1>3. increment_stalls([log |-> l, stalls |-> s], c + 1, TRUE) = [log |-> m, stalls |-> 0]
  BY DEF increment_stalls
<1>4. i \in Items /\ i.item = "dependent"
  BY EntryTypes
<1> HIDE DEF r, i
<1>5. m \in Seq(Entries) /\ Ordered(m, g) /\ Cycles(m, Len(m)) = Cycles(r.log, Len(r.log)) + (c + 1)
  <2> DEFINE n == c + 1
             k == r.log
  <2>1. n \in Nat /\ k \in Seq(Entries) /\ Ordered(k, g)
    BY <1>1, <1>2
  <2> HIDE DEF n, k
  <2>2. /\ Append(k, STALL(n, TRUE)) \in Seq(Entries) /\ Ordered(Append(k, STALL(n, TRUE)), g)
        /\ Cycles(Append(k, STALL(n, TRUE)), Len(Append(k, STALL(n, TRUE)))) = Cycles(k, Len(k)) + n
    BY <1>1, <2>1, StallWritten, Zenon
  <2> QED
    BY <2>2, Zenon DEF n, k
<1> HIDE DEF m
<1>6. Ordered(m, Append(g, i))
  BY <1>1, <1>4, <1>5, OrderedProg, SMTT(20)
<1>7. Cycles(m, Len(m)) + 0 + d
        = Cycles(l, Len(l)) + s + (c + d) + (IF i.item = "dependent" THEN 1 ELSE 0)
  BY <1>1, <1>2, <1>4, <1>5, SMTT(20)
<1>8. Sound(m, 0, d, Append(g, i))
  BY <1>4, <1>5, <1>6, <1>7, SoundTakes, SMTT(20)
<1> QED
  BY <1>3, <1>8, RunIs, Zenon DEF i

(* increment_stalls at the end of a block. *)
LEMMA SoundEnd ==
  ASSUME NEW l, NEW s, NEW c \in Nat, NEW d \in Nat, NEW g, Sound(l, s, c + d, g)
  PROVE  SoundRun(increment_stalls([log |-> l, stalls |-> s], c, FALSE), d, Append(g, Item("end")))
<1> DEFINE i == Item("end")
<1>1. /\ l \in Seq(Entries) /\ g \in Seq(Items) /\ s \in Nat /\ c \in Nat /\ Ordered(l, g)
      /\ Cycles(l, Len(l)) \in Nat
  BY TicksFinite DEF Sound
<1>2. increment_stalls([log |-> l, stalls |-> s], c, FALSE) = [log |-> l, stalls |-> s + c]
  BY SMTT(20) DEF increment_stalls
<1>3. i \in Items /\ i.item = "end"
  BY EntryTypes
<1> HIDE DEF i
<1>4. Ordered(l, Append(g, i))
  BY <1>1, <1>3, OrderedProg, SMTT(20)
<1>5. s + c \in Nat /\ Cycles(l, Len(l)) + (s + c) + d
        = Cycles(l, Len(l)) + s + (c + d) + (IF i.item = "dependent" THEN 1 ELSE 0)
  BY <1>1, <1>3, SMTT(20)
<1>6. Sound(l, s + c, d, Append(g, i))
  BY <1>1, <1>3, <1>4, <1>5, SoundTakes, SMTT(20)
<1> QED
  BY <1>2, <1>6, RunIs, Zenon DEF i

(* An access to traced memory is written behind the stalls. *)
LEMMA AccessWritten ==
  ASSUME NEW r, NEW k, emit_stall(r) = [log |-> k, stalls |-> 0]
  PROVE  emit_access(r, TRUE) = [log |-> Append(k, MEM), stalls |-> 0]
BY SMTT(20) DEF emit_access

(* emit_load or emit_store, then increment_stalls, in front of an access. *)
LEMMA SoundAccess ==
  ASSUME NEW l, NEW s, NEW c \in Nat, NEW d \in Nat, NEW g, Sound(l, s, c + d, g),
         NEW in \in BOOLEAN
  PROVE  SoundRun(increment_stalls(emit_access([log |-> l, stalls |-> s], in), c, FALSE), d,
                  Append(g, Item(IF in THEN "access" ELSE "local")))
<1>1. /\ l \in Seq(Entries) /\ g \in Seq(Items) /\ s \in Nat /\ c \in Nat /\ Ordered(l, g)
      /\ Cycles(l, Len(l)) \in Nat
  BY TicksFinite DEF Sound
<1>2. CASE in = FALSE
  <2> DEFINE i == Item("local")
  <2>1. increment_stalls(emit_access([log |-> l, stalls |-> s], in), c, FALSE)
          = [log |-> l, stalls |-> s + c]
    BY <1>2, SMTT(20) DEF increment_stalls, emit_access
  <2>2. i \in Items /\ i.item = "local" /\ i = Item(IF in THEN "access" ELSE "local")
    BY <1>2, EntryTypes, SMTT(20)
  <2> HIDE DEF i
  <2>3. Ordered(l, Append(g, i))
    BY <1>1, <2>2, OrderedProg, SMTT(20)
  <2>4. s + c \in Nat /\ Cycles(l, Len(l)) + (s + c) + d
          = Cycles(l, Len(l)) + s + (c + d) + (IF i.item = "dependent" THEN 1 ELSE 0)
    BY <1>1, <2>2
  <2>5. Sound(l, s + c, d, Append(g, i))
    BY <1>1, <2>2, <2>3, <2>4, SoundTakes, Zenon
  <2> QED
    BY <2>1, <2>2, <2>5, RunIs, Zenon
<1>3. CASE in = TRUE
  <2> DEFINE r == emit_stall([log |-> l, stalls |-> s])
             m == Append(r.log, MEM)
             i == Item("access")
  <2>1. /\ r = [log |-> r.log, stalls |-> 0] /\ r.log \in Seq(Entries) /\ Ordered(r.log, g)
        /\ Cycles(r.log, Len(r.log)) = Cycles(l, Len(l)) + s
    BY <1>1, StallEmitted
  <2>2. emit_access([log |-> l, stalls |-> s], in) = [log |-> m, stalls |-> 0]
    <3> DEFINE k == r.log
    <3>1. emit_stall([log |-> l, stalls |-> s]) = [log |-> k, stalls |-> 0] /\ m = Append(k, MEM)
      BY <2>1
    <3> HIDE DEF r, m, k
    <3> QED
      BY <1>3, <3>1, AccessWritten, Zenon
  <2>3. increment_stalls([log |-> m, stalls |-> 0], c, FALSE) = [log |-> m, stalls |-> c]
    <3> HIDE DEF m
    <3>1. increment_stalls([log |-> m, stalls |-> 0], c, FALSE) = [log |-> m, stalls |-> 0 + c]
      BY DEF increment_stalls
    <3>2. 0 + c = c
      BY <1>1, SMTT(20)
    <3> QED
      BY <3>1, <3>2, Zenon
  <2>4. i \in Items /\ i.item = "access" /\ i = Item(IF in THEN "access" ELSE "local")
    BY <1>3, EntryTypes, SMTT(20)
  <2>5. EntryOf(i) = MEM /\ MEM \in Entries /\ MEM.entry = "MEM" /\ CyclesOf(MEM) = 0
    BY EntryTypes, SMTT(20) DEF CyclesOf
  <2> HIDE DEF r, i
  <2>6. Ordered(m, Append(g, i))
    BY <1>1, <2>1, <2>4, <2>5, OrderedBoth, SMTT(20)
  <2>7. m \in Seq(Entries) /\ Cycles(m, Len(m)) = Cycles(r.log, Len(r.log)) + 0
    <3> DEFINE k == r.log
    <3>1. k \in Seq(Entries)
      BY <2>1
    <3> HIDE DEF k
    <3>2. Cycles(Append(k, MEM), Len(Append(k, MEM))) = Cycles(k, Len(k)) + CyclesOf(MEM)
      BY <2>5, <3>1, TicksAppend, Zenon
    <3>3. Append(k, MEM) \in Seq(Entries)
      BY <2>5, <3>1, SMTT(20)
    <3> QED
      BY <2>5, <3>2, <3>3, SMTT(20) DEF k
  <2> HIDE DEF m
  <2>8. Cycles(m, Len(m)) + c + d
          = Cycles(l, Len(l)) + s + (c + d) + (IF i.item = "dependent" THEN 1 ELSE 0)
    BY <1>1, <2>1, <2>4, <2>7, SMTT(20)
  <2>9. Sound(m, c, d, Append(g, i))
    BY <1>1, <2>4, <2>6, <2>7, <2>8, SoundTakes, Zenon
  <2>10. increment_stalls(emit_access([log |-> l, stalls |-> s], in), c, FALSE)
          = [log |-> m, stalls |-> c]
    BY <2>2, <2>3, Zenon
  <2> QED
    BY <2>4, <2>9, <2>10, RunIs, Zenon
<1> QED
  BY <1>2, <1>3, Zenon

(* A primitive is written as it is called; the counts stay. *)
LEMMA SoundPrim ==
  ASSUME NEW l, NEW s, NEW c, NEW g, Sound(l, s, c, g), NEW d \in EmuCalls
  PROVE  Sound(Append(l, PRIM(d)), s, c, Append(g, [item |-> "prim", call |-> d]))
<1> DEFINE i == [item |-> "prim", call |-> d]
           e == PRIM(d)
<1>1. /\ l \in Seq(Entries) /\ g \in Seq(Items) /\ s \in Nat /\ c \in Nat /\ Ordered(l, g)
      /\ Cycles(l, Len(l)) \in Nat
  BY TicksFinite, SMTT(20) DEF Sound
<1>2. i \in Items /\ i.item = "prim" /\ EntryOf(i) = e
  BY EntryTypes, SMTT(20)
<1>3. e \in Entries /\ e.entry = "PRIM" /\ e # MEM /\ CyclesOf(e) = 0
  BY EntryTypes DEF CyclesOf
<1> HIDE DEF i, e
<1>4. Ordered(Append(l, e), Append(g, i))
  BY <1>1, <1>2, <1>3, OrderedBoth, SMTT(20)
<1>5. Append(l, e) \in Seq(Entries) /\ Append(g, i) \in Seq(Items)
  BY <1>1, <1>2, <1>3, SMTT(20)
<1>6. Cycles(Append(l, e), Len(Append(l, e))) = Cycles(l, Len(l))
  <2>1. Cycles(Append(l, e), Len(Append(l, e))) = Cycles(l, Len(l)) + CyclesOf(e)
    BY <1>1, <1>3, TicksAppend, Zenon
  <2> QED
    BY <1>1, <1>3, <2>1
<1>7. Cardinality(Computes(Append(g, i))) = Cardinality(Computes(g))
  <2>1. /\ Cardinality(Computes(g)) \in Nat
        /\ Cardinality(Computes(Append(g, i)))
             = Cardinality(Computes(g)) + (IF i.item \in {"compute", "dependent"} THEN 1 ELSE 0)
    BY <1>1, <1>2, ComputesAppend, Zenon
  <2> QED
    BY <1>2, <2>1
<1>8. Sound(Append(l, e), s, c, Append(g, i))
  BY <1>1, <1>4, <1>5, <1>6, <1>7 DEF Sound
<1> QED
  BY <1>8 DEF i, e
============================================================================
