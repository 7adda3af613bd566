------------------------------ MODULE M5Locks ------------------------------
(***************************************************************************)
(* The mutex and the read-write lock of m5threads (pthread.c).  A thread   *)
(* that is "idle" may ask for either; it unlocks only what it holds.       *)
(***************************************************************************)
EXTENDS M5

\* The threads whose pthread_t an int can hold.  PTHREAD_RWLOCK_T_WRITER is
\* an int in NPTL builds and pthread_self() is the address of the thread's
\* block, so on a 64-bit host only the main thread (id 0) is sure to fit.
CONSTANT Fits

NoOne == "-1"
Truncated == "the low half of an address"

ASSUME LocksAssumption == /\ Fits \subseteq Threads
                          /\ NoOne \notin Threads
                          /\ Truncated \notin Threads

VARIABLES
    mutex,      \* lock->PTHREAD_MUTEX_T_COUNT, 0 or 1
    readers,    \* PTHREAD_RWLOCK_T_READERS(lock)
    writer,     \* PTHREAD_RWLOCK_T_WRITER(lock)
    lpc         \* where each thread is

locksVars == <<mutex, readers, writer, lpc>>

LPlaces == {"idle", "lock", "locked",
            "rdspin", "rdtry", "reading",
            "wrspin", "wrspin2", "wrtry", "writing"}

\* The field is too narrow for every id.
StoredNarrow(t) == Truncated

\* pthread_self() as the writer field keeps it.
Stored(t) == IF t \in Fits THEN t ELSE Truncated

LocksInit ==
    /\ mutex = 0
    /\ readers = 0
    /\ writer = NoOne
    /\ lpc = [t \in Threads |-> "idle"]

LGo(t, p) == lpc' = [lpc EXCEPT ![t] = p]

-----------------------------------------------------------------------------
pthread_mutex_lock(t) ==
    /\ lpc[t] = "idle"
    /\ LGo(t, "lock")
    /\ UNCHANGED <<mutex, readers, writer>>

\* The xchg that finds the word 0.
Acquire(t) ==
    /\ lpc[t] = "lock" /\ mutex = 0
    /\ mutex' = 1
    /\ LGo(t, "locked")
    /\ UNCHANGED <<readers, writer>>

\* trylock exchanges the word with 1 whatever it was; EBUSY when it was 1.
pthread_mutex_trylock(t) ==
    /\ lpc[t] = "idle"
    /\ mutex' = 1
    /\ LGo(t, IF mutex = 0 THEN "locked" ELSE "idle")
    /\ UNCHANGED <<readers, writer>>

pthread_mutex_unlock(t) ==
    /\ lpc[t] = "locked"
    /\ mutex' = 0
    /\ LGo(t, "idle")
    /\ UNCHANGED <<readers, writer>>

-----------------------------------------------------------------------------
\* A reader spins on the writer field without the lock, then looks again
\* under it and goes back to spinning when a writer came in between.
pthread_rwlock_rdlock(t) ==
    /\ \/ lpc[t] = "idle" /\ LGo(t, "rdspin") /\ UNCHANGED readers
       \/ lpc[t] = "rdspin" /\ writer = NoOne /\ LGo(t, "rdtry")
          /\ UNCHANGED readers
       \/ /\ lpc[t] = "rdtry"
          /\ \/ writer = NoOne /\ readers' = readers + 1 /\ LGo(t, "reading")
             \/ writer # NoOne /\ LGo(t, "rdspin") /\ UNCHANGED readers
    /\ UNCHANGED <<mutex, writer>>

\* A writer's spin ends when it reads no writer, or no reader: two reads.
WrSpin(t) ==
    \/ lpc[t] = "wrspin" /\ LGo(t, IF writer = NoOne THEN "wrtry" ELSE "wrspin2")
    \/ lpc[t] = "wrspin2" /\ LGo(t, IF readers = 0 THEN "wrtry" ELSE "wrspin")

\* Takes the lock on a look at the writer field only.
WrTryWriterOnly(t) ==
    /\ lpc[t] = "wrtry"
    /\ \/ writer = NoOne /\ writer' = Stored(t) /\ LGo(t, "writing")
       \/ writer # NoOne /\ LGo(t, "wrspin") /\ UNCHANGED writer

WrTry(t) ==
    /\ lpc[t] = "wrtry"
    /\ \/ /\ writer = NoOne /\ readers = 0
          /\ writer' = Stored(t)
          /\ LGo(t, "writing")
       \/ ~(writer = NoOne /\ readers = 0) /\ LGo(t, "wrspin") /\ UNCHANGED writer

pthread_rwlock_wrlock(t) ==
    /\ \/ lpc[t] = "idle" /\ LGo(t, "wrspin") /\ UNCHANGED writer
       \/ WrSpin(t) /\ UNCHANGED writer
       \/ WrTry(t)
    /\ UNCHANGED <<mutex, readers>>

\* One function for both modes: the writer field alone tells them apart.
pthread_rwlock_unlock(t) ==
    /\ lpc[t] \in {"reading", "writing"}
    /\ IF writer = t
       THEN writer' = NoOne /\ UNCHANGED readers
       ELSE readers' = readers - 1 /\ UNCHANGED writer
    /\ LGo(t, "idle")
    /\ UNCHANGED mutex

LocksStep(t) ==
    \/ pthread_mutex_lock(t) \/ Acquire(t)
    \/ pthread_mutex_trylock(t) \/ pthread_mutex_unlock(t)
    \/ pthread_rwlock_rdlock(t) \/ pthread_rwlock_wrlock(t)
    \/ pthread_rwlock_unlock(t)

LocksNext == \E t \in Threads : LocksStep(t)

LocksSpec == LocksInit /\ [][LocksNext]_locksVars

-----------------------------------------------------------------------------
LIn(p) == {t \in Threads : lpc[t] = p}

\* The places a thread can be at in the lock functions, and the types.
LocksTypeOK ==
    /\ mutex \in {0, 1}
    /\ readers \in Int
    /\ writer \in Threads \cup {NoOne, Truncated}
    /\ lpc \in [Threads -> LPlaces]

\* Two threads are never both between lock (or a successful trylock) and
\* unlock of the mutex, although trylock writes the word of a held mutex;
\* and while a thread writes under the read-write lock nobody else is in it,
\* although waiting threads look at its fields without the lock.
LocksExclude ==
    /\ \A t, u \in LIn("locked") : t = u
    /\ \A t \in LIn("writing") : LIn("reading") = {} /\ LIn("writing") = {t}

\* Nobody waits for a thread that is gone: when no thread is in the lock, the
\* words a waiting thread spins on say so.  A reader that unlocks as a writer,
\* or a writer as a reader, would leave the lock taken for ever.
FreeWhenUnheld ==
    /\ LIn("locked") = {} => mutex = 0
    /\ LIn("writing") = {} => writer = NoOne
    /\ LIn("reading") = {} => readers = 0
=============================================================================
