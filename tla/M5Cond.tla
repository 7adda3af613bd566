------------------------------- MODULE M5Cond -------------------------------
(***************************************************************************)
(* The condition variable of m5threads (pthread.c) with the mutex it is    *)
(* used with.  A broadcast raises a flag; a waiter spins on it, counts     *)
(* itself out, and the last one out lowers the flag again.                 *)
(***************************************************************************)
EXTENDS M5

\* TRUE: the program broadcasts with the mutex held, and starts a wait only
\* when the waiters of the last broadcast have all left (tests/
\* test_pthread.cpp).  FALSE: it does both whenever POSIX lets it.
CONSTANT Phased

ASSUME CondAssumption == Phased \in BOOLEAN

VARIABLES
    cond_lock,      \* the mutex: 0 or 1
    flag,           \* PTHREAD_COND_T_FLAG
    thread_count,   \* PTHREAD_COND_T_THREAD_COUNT
    count_lock,     \* PTHREAD_COND_T_COUNT_LOCK
    loaded,         \* what each thread loaded of thread_count
    cpc,            \* where each thread is
    owed            \* history: waiters a broadcast was meant for

condVars == <<cond_lock, flag, thread_count, count_lock, loaded, cpc, owed>>

\* In pthread_cond_wait: "inc" between load and store of thread_count++,
\* "poll" on the flag, "leave" before count_lock, "dec" between load and
\* store of thread_count--, "check" before the test for 0, "clear" before
\* the flag is lowered, "relock" on the mutex.
CPlaces == {"out", "in", "inc", "poll", "leave", "dec", "check", "clear", "relock"}

CIn(P) == {t \in Threads : cpc[t] \in P}
Leaving == {"leave", "dec", "check", "clear"}

CondInit ==
    /\ cond_lock = 0 /\ count_lock = 0
    /\ flag = 0
    /\ thread_count = 0
    /\ loaded = [t \in Threads |-> 0]
    /\ cpc = [t \in Threads |-> "out"]
    /\ owed = {}

CGo(t, p) == cpc' = [cpc EXCEPT ![t] = p]

CLock(t) ==
    /\ cpc[t] \in {"out", "relock"} /\ cond_lock = 0
    /\ cond_lock' = 1
    /\ CGo(t, "in")
    /\ UNCHANGED <<flag, thread_count, count_lock, loaded, owed>>

CUnlock(t) ==
    /\ cpc[t] = "in"
    /\ cond_lock' = 0
    /\ CGo(t, "out")
    /\ UNCHANGED <<flag, thread_count, count_lock, loaded, owed>>

\* What the program allows itself (environment).
MayBroadcast(t) == cpc[t] \in (IF Phased THEN {"in"} ELSE {"in", "out"})
MayWait == Phased => /\ CIn(Leaving) = {}
                     /\ flag = 1 => CIn({"poll"}) = {}

\* pthread_cond_signal is the same.
pthread_cond_broadcast(t) ==
    /\ MayBroadcast(t)
    /\ flag' = 1
    /\ owed' = owed \cup CIn({"poll"})
    /\ UNCHANGED <<cond_lock, thread_count, count_lock, loaded, cpc>>

\* (*thread_count)++ under the mutex, but not under count_lock.
WaitLoad(t) ==
    /\ cpc[t] = "in" /\ MayWait
    /\ loaded' = [loaded EXCEPT ![t] = thread_count]
    /\ CGo(t, "inc")
    /\ UNCHANGED <<cond_lock, flag, thread_count, count_lock, owed>>

WaitStore(t) ==
    /\ cpc[t] = "inc"
    /\ thread_count' = loaded[t] + 1
    /\ cond_lock' = 0
    /\ CGo(t, "poll")
    /\ UNCHANGED <<flag, count_lock, loaded, owed>>

WaitSee(t) ==
    /\ cpc[t] = "poll" /\ flag = 1
    /\ owed' = owed \ {t}
    /\ CGo(t, "leave")
    /\ UNCHANGED <<cond_lock, flag, thread_count, count_lock, loaded>>

\* spin_lock(count_lock) and the load of (*thread_count)--.
LeaveLoad(t) ==
    /\ cpc[t] = "leave" /\ count_lock = 0
    /\ count_lock' = 1
    /\ loaded' = [loaded EXCEPT ![t] = thread_count]
    /\ CGo(t, "dec")
    /\ UNCHANGED <<cond_lock, flag, thread_count, owed>>

LeaveStore(t) ==
    /\ cpc[t] = "dec"
    /\ thread_count' = loaded[t] - 1
    /\ CGo(t, "check")
    /\ UNCHANGED <<cond_lock, flag, count_lock, loaded, owed>>

\* Lowers the flag when one waiter is still to come.
LeaveCheckOne(t) ==
    /\ cpc[t] = "check"
    /\ IF thread_count <= 1
       THEN CGo(t, "clear") /\ UNCHANGED count_lock
       ELSE CGo(t, "relock") /\ count_lock' = 0
    /\ UNCHANGED <<cond_lock, flag, thread_count, loaded, owed>>

LeaveCheck(t) ==
    /\ cpc[t] = "check"
    /\ IF thread_count = 0
       THEN CGo(t, "clear") /\ UNCHANGED count_lock
       ELSE CGo(t, "relock") /\ count_lock' = 0
    /\ UNCHANGED <<cond_lock, flag, thread_count, loaded, owed>>

LeaveClear(t) ==
    /\ cpc[t] = "clear"
    /\ flag' = 0
    /\ count_lock' = 0
    /\ CGo(t, "relock")
    /\ UNCHANGED <<cond_lock, thread_count, loaded, owed>>

CondStep(t) ==
    \/ CLock(t) \/ CUnlock(t) \/ pthread_cond_broadcast(t)
    \/ WaitLoad(t) \/ WaitStore(t) \/ WaitSee(t)
    \/ LeaveLoad(t) \/ LeaveStore(t) \/ LeaveCheck(t) \/ LeaveClear(t)

CondNext == \E t \in Threads : CondStep(t)

CondSpec == CondInit /\ [][CondNext]_condVars

-----------------------------------------------------------------------------
\* The places a thread can be at in the pthread_cond functions, and the types.
CondTypeOK ==
    /\ cond_lock \in {0, 1} /\ count_lock \in {0, 1} /\ flag \in {0, 1}
    /\ thread_count \in Nat
    /\ loaded \in [Threads -> Nat]
    /\ cpc \in [Threads -> CPlaces]
    /\ owed \subseteq Threads

\* No wake-up is lost: a thread that was waiting when a broadcast came finds
\* the flag still up when it looks.  The flag is lowered by whoever brings
\* thread_count to 0, so this rests on the count being exact, although it is
\* raised under one lock and lowered under another.
SignalKept == owed # {} => flag = 1

\* The count is the number of threads that still have to leave, whenever no
\* thread is between the load and the store of a change.
CountIsExact ==
    CIn({"inc", "dec"}) = {} =>
        thread_count = Cardinality(CIn({"poll", "leave"}))

\* A waiter a broadcast was meant for leaves the spin.
OwedLeave == \A t \in Threads : t \in owed ~> t \notin owed
=============================================================================
