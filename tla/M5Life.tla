------------------------------- MODULE M5Life -------------------------------
(***************************************************************************)
(* Creation, exit and join of threads, and pthread_once, of m5threads      *)
(* (pthread.c).  Main creates the others and joins them; every child calls *)
(* pthread_once and then leaves through pthread_exit, by itself or from    *)
(* __pthread_trampoline when its start routine returns.                    *)
(***************************************************************************)
EXTENDS M5

CONSTANTS
    Main,           \* the main thread: its __tcb is NULL
    Statuses        \* what a thread may exit with

NoStatus == "never written"
NotJoined == "not joined"

ASSUME LifeAssumption == /\ Main \in Threads
                         /\ {NoStatus, NotJoined} \cap Statuses = {}

Children == Threads \ {Main}

VARIABLES
    tcb,        \* [child_finished, result] of each child
    tpc,        \* where each thread is
    status,     \* history: what each child gave to pthread_exit
    joined,     \* what pthread_join returned for each child
    once,       \* *once: PTHREAD_ONCE_INIT is 0
    once_mutex, \* __once_mutex
    inits       \* history: calls of the init routine

lifeVars == <<tcb, tpc, status, joined, once, once_mutex, inits>>

TPlaces == {"none", "run", "once", "onceIn", "init", "body", "exit", "gone", "over"}

LifeInit ==
    /\ tcb = [c \in Children |-> [child_finished |-> 0, result |-> NoStatus]]
    /\ tpc = [t \in Threads |-> IF t = Main THEN "body" ELSE "none"]
    /\ status = [c \in Children |-> NoStatus]
    /\ joined = [c \in Children |-> NotJoined]
    /\ once = 0 /\ once_mutex = 0
    /\ inits = 0

Alive == tpc[Main] # "over"
TGo(t, p) == tpc' = [tpc EXCEPT ![t] = p]

\* The block comes zeroed from mmap; clone starts the child in the trampoline.
pthread_create(c) ==
    /\ tpc[Main] = "body" /\ tpc[c] = "none"
    /\ TGo(c, "run")
    /\ UNCHANGED <<tcb, status, joined, once, once_mutex, inits>>

-----------------------------------------------------------------------------
\* The test of *once without the mutex.
OnceFast(t) ==
    /\ Alive /\ tpc[t] = "run"
    /\ TGo(t, IF once = 0 THEN "once" ELSE "body")
    /\ UNCHANGED <<tcb, status, joined, once, once_mutex, inits>>

OnceLock(t) ==
    /\ Alive /\ tpc[t] = "once" /\ once_mutex = 0
    /\ once_mutex' = 1
    /\ TGo(t, "onceIn")
    /\ UNCHANGED <<tcb, status, joined, once, inits>>

\* Goes on to init without a second look at *once.
OnceDecideNoRecheck(t) ==
    /\ Alive /\ tpc[t] = "onceIn"
    /\ once' = 1
    /\ once_mutex' = 0
    /\ TGo(t, "init")
    /\ UNCHANGED <<tcb, status, joined, inits>>

\* The second test, *once = PTHREAD_ONCE_INIT+1 and the unlock.
OnceDecide(t) ==
    /\ Alive /\ tpc[t] = "onceIn"
    /\ once' = 1
    /\ once_mutex' = 0
    /\ TGo(t, IF once = 0 THEN "init" ELSE "body")
    /\ UNCHANGED <<tcb, status, joined, inits>>

\* init(), outside the mutex.
OnceInit(t) ==
    /\ Alive /\ tpc[t] = "init"
    /\ inits' = inits + 1
    /\ TGo(t, "body")
    /\ UNCHANGED <<tcb, status, joined, once, once_mutex>>

-----------------------------------------------------------------------------
\* pthread_exit stores the result, then the finished mark, with "TODO mem
\* barrier here" between: nothing orders the two stores for another thread
\* (only child_finished is volatile), so either may be seen first.
StoreResult(c) ==
    /\ tcb[c].result = NoStatus
    /\ tcb' = [tcb EXCEPT ![c].result = status[c]]

StoreFinished(c) ==
    /\ tcb[c].child_finished = 0
    /\ tcb' = [tcb EXCEPT ![c].child_finished = 1]

pthread_exit(c) ==
    /\ Alive
    /\ \/ \E s \in Statuses :
            /\ tpc[c] = "body"
            /\ status' = [status EXCEPT ![c] = s]
            /\ TGo(c, "exit")
            /\ UNCHANGED tcb
       \/ /\ tpc[c] = "exit"
          /\ StoreResult(c) \/ StoreFinished(c)
          /\ UNCHANGED <<status, tpc>>
       \/ /\ tpc[c] = "exit"
          /\ tcb[c].child_finished = 1 /\ tcb[c].result # NoStatus
          /\ TGo(c, "gone")
          /\ UNCHANGED <<status, tcb>>
    /\ UNCHANGED <<joined, once, once_mutex, inits>>

\* The main thread's pthread_exit is _exit(0): it ends the process.
MainExit ==
    /\ tpc[Main] = "body"
    /\ TGo(Main, "over")
    /\ UNCHANGED <<tcb, status, joined, once, once_mutex, inits>>

\* The result is read without waiting for the child.
pthread_joinNow(c) ==
    /\ tpc[Main] = "body" /\ tpc[c] # "none" /\ joined[c] = NotJoined
    /\ joined' = [joined EXCEPT ![c] = tcb[c].result]
    /\ UNCHANGED <<tcb, tpc, status, once, once_mutex, inits>>

\* The spin on child_finished ends and the result is read, at the earliest:
\* a later read can only see more of what the child stored.
pthread_join(c) ==
    /\ tpc[Main] = "body" /\ tpc[c] # "none" /\ joined[c] = NotJoined
    /\ tcb[c].child_finished = 1
    /\ joined' = [joined EXCEPT ![c] = tcb[c].result]
    /\ UNCHANGED <<tcb, tpc, status, once, once_mutex, inits>>

LifeStep(c) ==
    \/ pthread_create(c) \/ pthread_exit(c) \/ pthread_join(c)
    \/ OnceFast(c) \/ OnceLock(c) \/ OnceDecide(c) \/ OnceInit(c)

LifeNext == MainExit \/ \E c \in Children : LifeStep(c)

LifeSpec == LifeInit /\ [][LifeNext]_lifeVars

-----------------------------------------------------------------------------
\* The places a thread can be at between its creation and its join, and the types.
LifeTypeOK ==
    /\ tcb \in [Children -> [child_finished : {0, 1},
                            result : Statuses \cup {NoStatus}]]
    /\ tpc \in [Threads -> TPlaces]
    /\ status \in [Children -> Statuses \cup {NoStatus}]
    /\ joined \in [Children -> Statuses \cup {NoStatus, NotJoined}]
    /\ once \in {0, 1} /\ once_mutex \in {0, 1}
    /\ inits \in Nat

\* pthread_join returns only when the child has called pthread_exit, and
\* returns what the child gave it or, for want of the barrier, the word as it
\* was before the child's store is seen; never anything else.
JoinWaitsForExit ==
    \A c \in Children :
        joined[c] # NotJoined =>
            status[c] # NoStatus /\ joined[c] \in {status[c], NoStatus}

\* However the threads race through the test outside the mutex, the init
\* routine of a pthread_once_t is started exactly once when some pthread_once
\* has returned, and at most once before.  (It need not have finished: it
\* runs outside the mutex.)
OnceRunsOnce ==
    LET started == inits + Cardinality({t \in Threads : tpc[t] = "init"})
    IN  /\ started <= 1
        /\ (\E c \in Children : tpc[c] \in {"body", "exit", "gone"}) => started = 1
=============================================================================
