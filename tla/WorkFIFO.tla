------------------------------ MODULE WorkFIFO ------------------------------
(***************************************************************************)
(* What the work queue device promises its producer and its consumer: a    *)
(* FIFO of at most Size work items.  In timing mode every request that is  *)
(* taken is owed one response, except a store nobody waits for, and the    *)
(* responses leave in the order in which the requests were taken.  In      *)
(* atomic mode the answer is the return of the call and nothing is owed.   *)
(***************************************************************************)
EXTENDS Integers, Sequences

CONSTANTS Size, Items

VARIABLES mode,  \* the memory mode of the system
          items, \* the work items, the oldest first
          owed   \* the responses owed, the oldest first

Init == mode \in {"timing", "atomic"} /\ items = << >> /\ owed = << >>

(* The request is answered, by a response or by the return of the call. *)
Owe(port, cmd, item) ==
  owed' = IF mode = "timing"
          THEN Append(owed, [port |-> port, cmd |-> cmd, data |-> item])
          ELSE owed

(* A producer's item is taken; the producer may not want to hear of it. *)
Put(port, item) ==
  /\ Len(items) < Size
  /\ items' = Append(items, item)
  /\ Owe(port, "write", item) \/ UNCHANGED owed
  /\ UNCHANGED mode

(* The oldest item goes to a consumer, who is told which it is. *)
Get(port) ==
  /\ items # << >>
  /\ items' = Tail(items)
  /\ Owe(port, "read", Head(items))
  /\ UNCHANGED mode

Answer == owed # << >> /\ owed' = Tail(owed) /\ UNCHANGED <<mode, items>>

Next ==
  \/ Answer
  \/ \E port \in {"pop", "push"} : Get(port) \/ \E i \in Items : Put(port, i)

Spec == Init /\ [][Next]_<<mode, items, owed>>
=============================================================================
