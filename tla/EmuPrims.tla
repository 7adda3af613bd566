------------------------------ MODULE EmuPrims ------------------------------
(***************************************************************************)
(* What an application may expect of the primitives of the emulation       *)
(* library (docs and emu/inc/util.h): bounded first-in first-out queues    *)
(* between pairs of PEs, and one counting semaphore per PE behind sleep    *)
(* and wake.  A call is pending until its one atomic step is taken.        *)
(***************************************************************************)
EXTENDS Integers, Sequences

CONSTANTS Threads, PEs, QueuePairs, Depth, Data, Idle, NoData

VARIABLES
    ch,         \* the content of each queue
    tokens,     \* per PE: wakes that no sleep has used up
    pending,    \* per thread: the call it is in, or Idle
    ret         \* per thread: what its last pop returned

primVars == <<ch, tokens, pending, ret>>

Calls == [name : {"push"}, q : QueuePairs, data : Data]
           \cup [name : {"pop"}, q : QueuePairs]
           \cup [name : {"sleep", "wake"}, pe : PEs]

PInit == /\ ch = [q \in QueuePairs |-> <<>>]
         /\ tokens = [p \in PEs |-> 0]
         /\ pending = [t \in Threads |-> Idle]
         /\ ret = [t \in Threads |-> NoData]

Begin(t, c) == /\ pending[t] = Idle
               /\ pending' = [pending EXCEPT ![t] = c]
               /\ UNCHANGED <<ch, tokens, ret>>

Is(t, n) == pending[t] # Idle /\ pending[t].name = n
Finish(t) == pending' = [pending EXCEPT ![t] = Idle]

DoPush(t) == /\ Is(t, "push")
             /\ Len(ch[pending[t].q]) < Depth
             /\ ch' = [ch EXCEPT ![pending[t].q] = Append(@, pending[t].data)]
             /\ Finish(t)
             /\ UNCHANGED <<tokens, ret>>

DoPop(t) == /\ Is(t, "pop")
            /\ ch[pending[t].q] # <<>>
            /\ ret' = [ret EXCEPT ![t] = Head(ch[pending[t].q])]
            /\ ch' = [ch EXCEPT ![pending[t].q] = Tail(@)]
            /\ Finish(t)
            /\ UNCHANGED tokens

DoSleep(t) == /\ Is(t, "sleep")
              /\ tokens[pending[t].pe] > 0
              /\ tokens' = [tokens EXCEPT ![pending[t].pe] = @ - 1]
              /\ Finish(t)
              /\ UNCHANGED <<ch, ret>>

DoWake(t) == /\ Is(t, "wake")
             /\ tokens' = [tokens EXCEPT ![pending[t].pe] = @ + 1]
             /\ Finish(t)
             /\ UNCHANGED <<ch, ret>>

Perform(t) == DoPush(t) \/ DoPop(t) \/ DoSleep(t) \/ DoWake(t)

\* Teardown empties the queues; it does not forget the wakes.
Reset == /\ \A t \in Threads : pending[t] = Idle
         /\ ch' = [q \in QueuePairs |-> <<>>]
         /\ UNCHANGED <<tokens, pending, ret>>

PNext == \/ Reset
         \/ \E t \in Threads : Perform(t) \/ \E c \in Calls : Begin(t, c)

PSpec == PInit /\ [][PNext]_primVars

\* A call that can be performed is performed.
PFair == \A t \in Threads : WF_primVars(Perform(t))

PFairSpec == PSpec /\ PFair
=============================================================================
