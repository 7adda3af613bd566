-------------------------------- MODULE MCM5 --------------------------------
(***************************************************************************)
(* The objects of m5threads for TLC.  They share no state, so a behaviour  *)
(* uses one of them: `object` says which, and the others stay as they      *)
(* start.                                                                  *)
(***************************************************************************)
EXTENDS M5Locks, M5Barrier, M5Cond, M5Life, TLC

CONSTANTS t1, t2, t3, t4, s1, s2

VARIABLE object

vars == <<locksVars, barrierVars, condVars, lifeVars, object>>

Init == /\ object \in {"locks", "barrier", "cond", "life"}
        /\ LocksInit /\ BarrierInit /\ CondInit /\ LifeInit

Next ==
    /\ \/ object = "locks" /\ LocksNext /\ UNCHANGED <<barrierVars, condVars, lifeVars>>
       \/ object = "barrier" /\ BarrierNext /\ UNCHANGED <<locksVars, condVars, lifeVars>>
       \/ object = "cond" /\ CondNext /\ UNCHANGED <<locksVars, barrierVars, lifeVars>>
       \/ object = "life" /\ LifeNext /\ UNCHANGED <<locksVars, barrierVars, condVars>>
    /\ UNCHANGED object

\* A thread that can take a step of a barrier wait, or leave the spin of a
\* condition wait, takes it: the host runs every thread.
Fairness ==
    \A t \in Threads :
        /\ WF_vars(object = "barrier" /\ BarrierStep(t) /\ Next)
        /\ WF_vars(object = "cond" /\ WaitSee(t) /\ Next)

FairSpec == Init /\ [][Next]_vars /\ Fairness

\* Every spin that has something to end it ends: the rounds of the barrier
\* (BarrierEnds), and the wait of a thread a broadcast was meant for.
SpinsEnd == (object = "barrier" => BarrierEnds) /\ OwedLeave
=============================================================================
