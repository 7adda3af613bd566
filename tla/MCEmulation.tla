---------------------------- MODULE MCEmulation -----------------------------
(***************************************************************************)
(* Two applications that only use the library, with two threads that       *)
(* share a core id and wait on one queue, and two that are traced: two     *)
(* threads with short programs, and one thread with a longer one.          *)
(***************************************************************************)
EXTENDS Emulation, TLC

CONSTANTS t1, t2, t3

MCThreads == {t1, t2, t3}
MCMaxWork == t1 :> 2 @@ t2 :> 0 @@ t3 :> 4
MCQueuePairs == {<<0, 1>>}

MCApps ==
    {[traced |-> FALSE, ids |-> (t1 :> 0 @@ t2 :> 1 @@ t3 :> 1)],
     [traced |-> FALSE, ids |-> (t1 :> 0 @@ t2 :> 0 @@ t3 :> 1)],
     [traced |-> TRUE,  ids |-> (t1 :> 0 @@ t2 :> 1)],
     [traced |-> TRUE,  ids |-> (t3 :> 0)]}
=============================================================================
