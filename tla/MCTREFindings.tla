--------------------------- MODULE MCTREFindings ---------------------------
(* Small sets of traces on which the replay departs from what is said of it. *)
EXTENDS MCTRE

(* A load that misses, the blocking store that ends an unlock, and a stall *)
(* on the value loaded.                                                    *)
StallAfterBlocking ==
  {0 :> <<Acc("LD", 1, {}), AccB("ST", 2), Stall({1}), E0>>}

(* PE 1 waits for a mutex PE 0 holds before it comes to its SLEEP. *)
WakeWaiter ==
  {(0 :> <<On("MTXINIT", 1, 0), On("MTXLOCK", 1, 0), To("WAKE", 1, 0),
           On("MTXUNLOCK", 1, 0), E0>>)
     @@ (1 :> <<On("MTXLOCK", 1, 0), On("MTXUNLOCK", 1, 0), Only("SLEEP", 0), E0>>)}
=============================================================================
