---------------------------- MODULE MCTREWorkq ----------------------------
(* The example application workq_mutex. *)
EXTENDS MCTRE

(***************************************************************************)
(* The example application workq_mutex with two workers, one iteration and *)
(* queues of depth 1: the manager wakes the first worker, each worker the  *)
(* next; work is pushed and popped, the result is updated under the mutex, *)
(* and all meet at the barrier.  As in spec.json sleep and wake take no    *)
(* cycles, and locking and unlocking end with blocking accesses.           *)
(***************************************************************************)
WorkqManager ==
  <<Bar(2, 3, 1), On("MTXINIT", 1, 1), Acc("ST", 3, {}), To("WAKE", 1, 0),
    To("PUSH", 1, 0), To("PUSH", 2, 0), Only("RST", 0), To("PUSH", 1, 1),
    To("PUSH", 2, 0), On("BARWAIT", 2, 1), Only("DMPRST", 0), E0>>
WorkqWorker(t) ==
  <<Only("SLEEP", 0)>> \o (IF t = 1 THEN <<To("WAKE", 2, 0)>> ELSE << >>) \o
  <<To("POP", 0, 1), To("POP", 0, 0), On("MTXLOCK", 1, 1), AccB("LD", 1),
    Acc("LD", 3, {}), Stall({3}), Acc("ST", 3, {3}), On("MTXUNLOCK", 1, 1),
    AccB("ST", 1), On("BARWAIT", 2, 1), E0>>
WorkqPrograms ==
  {[t \in 0 .. 2 |-> IF t = 0 THEN WorkqManager ELSE WorkqWorker(t)]}
=============================================================================
