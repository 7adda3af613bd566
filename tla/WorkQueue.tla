----------------------------- MODULE WorkQueue -----------------------------
(***************************************************************************)
(* The work queue device of the detailed target model (mem/work_queue.cc): *)
(* a FIFO with a port for the consumer and one for the producer, each      *)
(* connected to a crossbar.  One action is one call of a port or one event,*)
(* run to its end.                                                         *)
(***************************************************************************)
EXTENDS Integers, FiniteSets, Sequences

CONSTANTS
  Size,           \* number of entries
  Items,          \* work items
  MaxOutstanding, \* requests of one port that wait for a response (bound)
  NULL

Ports == {"pop", "push"}

(* Loads, stores, and stores nobody waits for. *)
Request ==
  [cmd : {"read"}, data : {NULL}, needsResponse : {TRUE}]
    \cup [cmd : {"write"}, data : Items, needsResponse : BOOLEAN]

Response == [port : Ports, cmd : {"read", "write"}, data : Items]

ASSUME WorkQueueAssumption ==
  Size \in Nat \ {0} /\ MaxOutstanding \in Nat \ {0} /\ NULL \notin Request

VARIABLES
  mode,         \* the memory mode of the system
  workQ, isBusy, isEmpty, isFull,
  retry,        \* retryPop and retryPush
  retryResp, packetQueue,
  releaseEvent, dequeueEvent, \* scheduled or not
  drainState,
  held,         \* external: the refused request in each crossbar
  sim

queueVars == <<workQ, isEmpty, isFull>>
reqVars   == <<isBusy, retry, releaseEvent, held>>
respVars  == <<retryResp, packetQueue, dequeueEvent, drainState>>
vars      == <<mode, queueVars, reqVars, respVars, sim>>

Init ==
  /\ mode \in {"timing", "atomic"}
  /\ workQ = << >> /\ isBusy = FALSE /\ isEmpty = TRUE /\ isFull = FALSE
  /\ retry = [p \in Ports |-> FALSE] /\ retryResp = FALSE
  /\ packetQueue = << >>
  /\ releaseEvent = FALSE /\ dequeueEvent = FALSE
  /\ drainState = "Running"
  /\ held = [p \in Ports |-> NULL]
  /\ sim = "run"

----------------------------------------------------------------------------
(* A load takes the oldest item, a store adds one; they panic on an empty  *)
(* and on a full queue.                                                    *)
Panics(pkt) ==
  IF pkt.cmd = "read" THEN workQ = << >> ELSE Len(workQ) = Size

NoteEmpty ==
  isEmpty' = (workQ' = << >>) /\ UNCHANGED isFull
Note ==
  isEmpty' = (workQ' = << >>) /\ isFull' = (Len(workQ') = Size)

access(p, pkt) ==
  IF Panics(pkt)
  THEN /\ sim' = IF p = "push" /\ pkt.cmd = "read" THEN "panic: push_port read"
                                                   ELSE "panic: access"
       /\ UNCHANGED queueVars
  ELSE /\ workQ' = IF pkt.cmd = "read" THEN Tail(workQ)
                                       ELSE Append(workQ, pkt.data)
       /\ Note
       /\ UNCHANGED sim

ReplyLast(p, pkt) ==
  [port |-> p, cmd |-> pkt.cmd,
   data |-> IF pkt.cmd = "read" THEN workQ[Len(workQ)] ELSE pkt.data]
Reply(p, pkt) ==
  [port |-> p, cmd |-> pkt.cmd,
   data |-> IF pkt.cmd = "read" THEN Head(workQ) ELSE pkt.data]

(* recvTimingReq() turns a request down; the port decides, not the command.*)
Refuses(p, busy) == busy \/ (p = "pop" /\ isEmpty) \/ (p = "push" /\ isFull)

(* The response waits for its dequeueEvent, or for a refused one before it.*)
EnqueueAndSchedule(p, pkt) ==
  /\ packetQueue' = Append(packetQueue, Reply(p, pkt))
  /\ dequeueEvent' = TRUE
  /\ UNCHANGED <<retryResp, drainState>>
Enqueue(p, pkt) ==
  /\ packetQueue' = Append(packetQueue, Reply(p, pkt))
  /\ dequeueEvent' = (dequeueEvent \/ ~retryResp)
  /\ UNCHANGED <<retryResp, drainState>>

(* The rest of recvTimingReq(), for a request that is taken. *)
Take(p, pkt) ==
  /\ isBusy' = TRUE /\ releaseEvent' = TRUE
  /\ access(p, pkt)
  /\ IF pkt.needsResponse /\ ~Panics(pkt) THEN Enqueue(p, pkt) ELSE UNCHANGED respVars

(* The requests of a port that wait for a response. *)
Outstanding(p) == Cardinality({k \in DOMAIN packetQueue : packetQueue[k].port = p})

(***************************************************************************)
(* A crossbar sends a new request, or one that was refused and is to be    *)
(* sent again: recvTimingReq().  (A request that comes although a retry is *)
(* due is refused without a trace.)                                        *)
(***************************************************************************)
recvTimingReq(p, pkt) ==
  /\ sim = "run" /\ mode = "timing"
  /\ \/ held[p] = NULL /\ Outstanding(p) < MaxOutstanding
     \/ held[p] = pkt /\ ~retry[p]
  /\ \/ /\ p = "pop" /\ pkt.cmd # "read"
        /\ sim' = "panic: pop_port"
        /\ UNCHANGED <<queueVars, reqVars, respVars>>
     \/ /\ p = "pop" => pkt.cmd = "read"
        /\ Refuses(p, isBusy)
        /\ retry' = [retry EXCEPT ![p] = TRUE]
        /\ held' = [held EXCEPT ![p] = pkt]
        /\ UNCHANGED <<queueVars, isBusy, releaseEvent, respVars, sim>>
     \/ /\ p = "pop" => pkt.cmd = "read"
        /\ ~Refuses(p, isBusy)
        /\ IF releaseEvent
           THEN sim' = "assert: scheduled" /\ UNCHANGED <<queueVars, reqVars, respVars>>
           ELSE /\ held' = [held EXCEPT ![p] = NULL]
                /\ Take(p, pkt)
                /\ UNCHANGED retry
  /\ UNCHANGED mode

recvAtomic(p, pkt) ==
  /\ sim = "run" /\ mode = "atomic"
  /\ access(p, pkt)
  /\ UNCHANGED <<mode, reqVars, respVars>>

(***************************************************************************)
(* The device is no longer busy and sends retries, to the consumer first.  *)
(* now are the crossbars that send the refused request again at once; the  *)
(* others, whose layer is busy, do it later.                               *)
(***************************************************************************)
RetriesOne(p) == retry[p] /\ (p = "push" => ~retry["pop"])
RetriesPushFirst(p) == retry[p] /\ (p = "pop" => ~retry["push"])
Retries(p) == retry[p]

release(now) ==
  LET again(p) == Retries(p) /\ p \in now
      popped   == again("pop") /\ ~Refuses("pop", FALSE)
      pushed   == again("push") /\ ~Refuses("push", popped)
      taken    == {p \in Ports : IF p = "pop" THEN popped ELSE pushed}
  IN  /\ sim = "run" /\ releaseEvent
      /\ retry' = [p \in Ports |-> IF Retries(p) THEN again(p) /\ p \notin taken
                                                 ELSE retry[p]]
      /\ held' = [p \in Ports |-> IF p \in taken THEN NULL ELSE held[p]]
      /\ \/ \E p \in taken : Take(p, held[p])
         \/ /\ taken = {}
            /\ isBusy' = FALSE /\ releaseEvent' = FALSE
            /\ UNCHANGED <<queueVars, respVars, sim>>
      /\ UNCHANGED mode

----------------------------------------------------------------------------
(* The first response is sent; the crossbar takes it or not. *)
Dequeue(scheduled) ==
  \/ /\ retryResp' = FALSE
     /\ packetQueue' = Tail(packetQueue)
     /\ dequeueEvent' = (scheduled \/ packetQueue' # << >>)
     /\ drainState' = IF packetQueue' = << >> /\ drainState = "Draining"
                      THEN "Drained" ELSE drainState
     /\ UNCHANGED sim
  \/ /\ retryResp' = TRUE
     /\ dequeueEvent' = scheduled
     /\ UNCHANGED <<packetQueue, drainState, sim>>

dequeue ==
  /\ sim = "run" /\ dequeueEvent
  /\ IF packetQueue = << >>
     THEN sim' = "assert: packetQueue" /\ UNCHANGED respVars
     ELSE Dequeue(FALSE)
  /\ UNCHANGED <<mode, queueVars, reqVars>>

(* The crossbar that refused the response asks for it. *)
recvRespRetry ==
  /\ sim = "run" /\ retryResp
  /\ Dequeue(dequeueEvent)
  /\ UNCHANGED <<mode, queueVars, reqVars>>

(* The simulator drains the system, and resumes. *)
HasResponses == packetQueue # << >>

drain ==
  /\ sim = "run" /\ drainState # "Draining"
  /\ drainState' = IF HasResponses THEN "Draining" ELSE "Drained"
  /\ UNCHANGED <<mode, queueVars, reqVars, retryResp, packetQueue, dequeueEvent, sim>>

drainResume ==
  /\ sim = "run" /\ drainState = "Drained"
  /\ drainState' = "Running"
  /\ UNCHANGED <<mode, queueVars, reqVars, retryResp, packetQueue, dequeueEvent, sim>>

Stopped == sim # "run" /\ UNCHANGED vars

Sends(p) == \E pkt \in Request : recvTimingReq(p, pkt)

Next ==
  \/ \E p \in Ports : Sends(p) \/ \E pkt \in Request : recvAtomic(p, pkt)
  \/ \E now \in SUBSET Ports : release(now)
  \/ dequeue \/ recvRespRetry \/ drain \/ drainResume \/ Stopped

Spec == Init /\ [][Next]_vars

(* The events of the device run, and the crossbars send what was refused.  *)
FairSpec ==
  /\ Spec
  /\ WF_vars(\E now \in SUBSET Ports : release(now))
  /\ WF_vars(dequeue) /\ WF_vars(recvRespRetry /\ ~retryResp')
  /\ \A p \in Ports : WF_vars(held[p] # NULL /\ Sends(p))

----------------------------------------------------------------------------
(* The state has its types; in particular access() never lets workQ grow   *)
(* beyond size.                                                            *)
TypeOK ==
  /\ mode \in {"timing", "atomic"}
  /\ workQ \in Seq(Items) /\ Len(workQ) <= Size
  /\ isBusy \in BOOLEAN /\ isEmpty \in BOOLEAN /\ isFull \in BOOLEAN
  /\ retryResp \in BOOLEAN /\ releaseEvent \in BOOLEAN /\ dequeueEvent \in BOOLEAN
  /\ retry \in [Ports -> BOOLEAN]
  /\ packetQueue \in Seq(Response)
  /\ drainState \in {"Running", "Draining", "Drained"}
  /\ held \in [Ports -> Request \cup {NULL}]
  /\ sim \in {"run", "panic: access", "panic: push_port read", "panic: pop_port",
              "assert: scheduled", "assert: packetQueue"}

(* In timing mode the checks of the flags at the ports are enough: access()*)
(* finds an item to pop and space for a push, although the flags date from *)
(* the last access and requests of the other port come in between; no      *)
(* event is scheduled twice and no response is missing when one is due.    *)
(* (A load at push_port is let through and may panic.)                     *)
ChecksSuffice ==
  /\ mode = "timing" => sim # "panic: access"
  /\ sim \notin {"assert: scheduled", "assert: packetQueue"}

(* A request that was refused is retried when the reason has gone: while   *)
(* no releaseEvent is due, a refused pop waits for an item and a refused   *)
(* push for space.  Otherwise nobody would send the retry.                 *)
RefusedHasReason ==
  sim = "run" /\ ~releaseEvent =>
    /\ retry["pop"] => workQ = << >>
    /\ retry["push"] => Len(workQ) = Size

(* Responses are on their way: the first one has its dequeueEvent, or was  *)
(* refused and waits for recvRespRetry(), and not both, which would send   *)
(* it to a crossbar that has not asked for it.                             *)
ResponsesMove ==
  sim = "run" =>
    /\ packetQueue # << >> <=> dequeueEvent \/ retryResp
    /\ ~(dequeueEvent /\ retryResp)

(* A device that is draining has a response left, whose delivery will      *)
(* signal that it is drained.                                              *)
DrainIsSignalled == drainState = "Draining" => packetQueue # << >>

(* The device is a bounded FIFO that answers every load, in order. *)
FIFO == INSTANCE WorkFIFO WITH items <- workQ, owed <- packetQueue
IsFIFO == FIFO!Spec

(* The two sides of RefusedAreServed below. *)
PopIsServed ==
  (held["pop"] # NULL /\ workQ # << >>)
    ~> (held["pop"] = NULL \/ workQ = << >> \/ sim # "run")
PushIsServed ==
  (held["push"] # NULL /\ Len(workQ) < Size)
    ~> (held["push"] = NULL \/ Len(workQ) = Size \/ sim # "run")

(* A consumer whose pop was refused gets its item when there is one, and a *)
(* producer whose push was refused its space: the retries go to the        *)
(* consumer first, and neither starves.                                    *)
RefusedAreServed == PopIsServed /\ PushIsServed
=============================================================================
