--------------------------- MODULE WorkQueueProofs ---------------------------
(***************************************************************************)
(* The safety properties of the work queue device, for any size, and that  *)
(* the device implements the bounded FIFO of module WorkFIFO.              *)
(***************************************************************************)
EXTENDS WorkQueue, SequenceTheorems, TLAPS

(* The flags say what the queue is like. *)
FlagsAgree ==
  (isEmpty <=> workQ = << >>) /\ (isFull <=> Len(workQ) = Size)

(* The device is busy until its releaseEvent, refused requests are with    *)
(* the crossbars, pop_port holds no store, and atomic accesses use none of *)
(* this.                                                                   *)
BusyUntilRelease ==
  /\ isBusy <=> releaseEvent
  /\ \A p \in Ports : retry[p] => held[p] # NULL
  /\ held["pop"] # NULL => held["pop"].cmd = "read"
  /\ mode = "atomic" => ~releaseEvent /\ \A p \in Ports : ~retry[p]

WQInv ==
  /\ TypeOK /\ FlagsAgree /\ BusyUntilRelease
  /\ ChecksSuffice /\ RefusedHasReason /\ ResponsesMove /\ DrainIsSignalled

----------------------------------------------------------------------------
(* access() keeps the queue a FIFO and the flags right. *)
LEMMA AccessFacts ==
  ASSUME TypeOK, FlagsAgree, NEW p \in Ports, NEW pkt \in Request, access(p, pkt)
  PROVE  /\ workQ' \in Seq(Items) /\ Len(workQ') <= Size
         /\ isEmpty' \in BOOLEAN /\ isFull' \in BOOLEAN /\ FlagsAgree'
         /\ Panics(pkt) =>
              /\ UNCHANGED queueVars
              /\ sim' \in {"panic: access", "panic: push_port read"}
         /\ Panics(pkt) /\ ~(p = "push" /\ pkt.cmd = "read") => sim' = "panic: access"
         /\ Panics(pkt) /\ p = "push" /\ pkt.cmd = "read" =>
              sim' = "panic: push_port read"
         /\ ~Panics(pkt) =>
              /\ sim' = sim /\ Reply(p, pkt) \in Response
              /\ \/ /\ pkt.cmd = "read" /\ workQ # << >> /\ workQ' = Tail(workQ)
                    /\ Reply(p, pkt) = [port |-> p, cmd |-> "read", data |-> Head(workQ)]
                 \/ /\ pkt.cmd = "write" /\ Len(workQ) < Size /\ pkt.data \in Items
                    /\ workQ' = Append(workQ, pkt.data)
                    /\ Reply(p, pkt) = [port |-> p, cmd |-> "write", data |-> pkt.data]
<1>1. /\ workQ \in Seq(Items) /\ Len(workQ) \in Nat /\ Len(workQ) <= Size
      /\ Size \in Nat \ {0}
  BY LenProperties, WorkQueueAssumption, Zenon DEF TypeOK
<1>2. \/ pkt.cmd = "read"
      \/ pkt.cmd = "write" /\ pkt.data \in Items
  BY Zenon DEF Request
<1>3. CASE Panics(pkt)
  <2>1. UNCHANGED queueVars /\ sim' \in {"panic: access", "panic: push_port read"}
    BY <1>3, Zenon DEF access
  <2>2. workQ' = workQ /\ isEmpty' = isEmpty /\ isFull' = isFull
    BY <2>1, Zenon DEF queueVars
  <2>3. QED
    BY <1>1, <1>3, <2>1, <2>2, Zenon DEF access, FlagsAgree, TypeOK
<1>4. CASE ~Panics(pkt)
  <2>1. /\ workQ' = IF pkt.cmd = "read" THEN Tail(workQ) ELSE Append(workQ, pkt.data)
        /\ isEmpty' = (workQ' = << >>) /\ isFull' = (Len(workQ') = Size)
        /\ sim' = sim
    BY <1>4 DEF access, Note
  <2>2. isEmpty' \in BOOLEAN /\ isFull' \in BOOLEAN /\ FlagsAgree'
    BY <2>1, Zenon DEF FlagsAgree
  <2>3. CASE pkt.cmd = "read"
    <3>1. workQ # << >> /\ Tail(workQ) \in Seq(Items) /\ Len(Tail(workQ)) = Len(workQ) - 1
          /\ Head(workQ) \in Items
      BY <1>1, <1>4, <2>3, HeadTailProperties DEF Panics
    <3>2. Reply(p, pkt) = [port |-> p, cmd |-> "read", data |-> Head(workQ)]
      BY <2>3 DEF Reply
    <3>3. Reply(p, pkt) \in Response
      BY <3>1, <3>2 DEF Response
    <3>4. workQ' \in Seq(Items) /\ Len(workQ') <= Size
      <4>1. workQ' = Tail(workQ)
        BY <2>1, <2>3
      <4>2. \A n \in Nat : n <= Size => n - 1 <= Size
        BY <1>1
      <4>3. QED
        BY <1>1, <3>1, <4>1, <4>2, Zenon
    <3>5. QED
      BY <1>4, <2>1, <2>3, <2>2, <3>1, <3>2, <3>3, <3>4, Zenon
  <2>4. CASE pkt.cmd = "write" /\ pkt.data \in Items
    <3>1. Len(workQ) < Size /\ Append(workQ, pkt.data) \in Seq(Items)
          /\ Len(Append(workQ, pkt.data)) = Len(workQ) + 1
      BY <1>1, <1>4, <2>4, AppendProperties DEF Panics
    <3>2. Reply(p, pkt) = [port |-> p, cmd |-> "write", data |-> pkt.data]
      BY <2>4 DEF Reply
    <3>3. Reply(p, pkt) \in Response
      BY <2>4, <3>2 DEF Response
    <3>4. workQ' \in Seq(Items) /\ Len(workQ') <= Size
      BY <1>1, <2>1, <2>4, <3>1
    <3>5. QED
      BY <1>4, <2>1, <2>4, <2>2, <3>1, <3>2, <3>3, <3>4, Zenon
  <2>5. QED
    BY <1>2, <2>3, <2>4, Zenon
<1>5. QED
  BY <1>3, <1>4, Zenon

(* A request that is taken is answered, unless access() panics. *)
LEMMA TakeFacts ==
  ASSUME TypeOK, FlagsAgree, ResponsesMove, DrainIsSignalled, sim = "run",
         NEW p \in Ports, NEW pkt \in Request, Take(p, pkt)
  PROVE  /\ access(p, pkt) /\ isBusy' /\ releaseEvent'
         /\ isBusy' \in BOOLEAN /\ releaseEvent' \in BOOLEAN
         /\ packetQueue' \in Seq(Response)
         /\ retryResp' \in BOOLEAN /\ dequeueEvent' \in BOOLEAN
         /\ drainState' = drainState /\ ResponsesMove' /\ DrainIsSignalled'
         /\ packetQueue' = IF pkt.needsResponse /\ ~Panics(pkt)
                            THEN Append(packetQueue, Reply(p, pkt)) ELSE packetQueue
<1>1. access(p, pkt) /\ isBusy' = TRUE /\ releaseEvent' = TRUE
  BY DEF Take
<1>2. /\ packetQueue \in Seq(Response) /\ retryResp \in BOOLEAN
      /\ dequeueEvent \in BOOLEAN
  BY DEF TypeOK
<1>3. CASE pkt.needsResponse /\ ~Panics(pkt)
  <2>1. /\ packetQueue' = Append(packetQueue, Reply(p, pkt))
        /\ dequeueEvent' = (dequeueEvent \/ ~retryResp)
        /\ retryResp' = retryResp /\ drainState' = drainState
    BY <1>3 DEF Take, Enqueue
  <2>2. Reply(p, pkt) \in Response
    BY <1>1, <1>3, AccessFacts, Zenon
  <2>3. packetQueue' \in Seq(Response) /\ packetQueue' # << >>
    BY <1>2, <2>1, <2>2, AppendProperties
  <2>4. ResponsesMove' /\ DrainIsSignalled'
    BY <1>2, <2>1, <2>3, Zenon DEF ResponsesMove, DrainIsSignalled
  <2>5. QED
    BY <1>1, <1>2, <1>3, <2>1, <2>3, <2>4
<1>4. CASE ~(pkt.needsResponse /\ ~Panics(pkt))
  <2>1. /\ packetQueue' = packetQueue /\ dequeueEvent' = dequeueEvent
        /\ retryResp' = retryResp /\ drainState' = drainState
    BY <1>4 DEF Take, respVars
  <2>2. ResponsesMove' /\ DrainIsSignalled'
    BY <2>1 DEF ResponsesMove, DrainIsSignalled
  <2>3. QED
    BY <1>1, <1>2, <1>4, <2>1, <2>2
<1>5. QED
  BY <1>3, <1>4
(* What a step may do to the FIFO. *)
FIFOStep == [FIFO!Next]_<<mode, workQ, packetQueue>>

LEMMA TakenPreserves ==
  ASSUME WQInv, sim = "run", mode = "timing", NEW p \in Ports, NEW pkt \in Request,
         ~Refuses(p, FALSE), p = "pop" => pkt.cmd = "read", Take(p, pkt),
         mode' = mode, retry' \in [Ports -> BOOLEAN],
         held' \in [Ports -> Request \cup {NULL}],
         \A q \in Ports : retry'[q] => held'[q] # NULL,
         held'["pop"] # NULL => held'["pop"].cmd = "read"
  PROVE  WQInv' /\ FIFOStep
<1>1. TypeOK /\ FlagsAgree /\ ResponsesMove /\ DrainIsSignalled
  BY DEF WQInv
<1>2. /\ access(p, pkt) /\ isBusy' /\ releaseEvent'
      /\ isBusy' \in BOOLEAN /\ releaseEvent' \in BOOLEAN
      /\ packetQueue' \in Seq(Response)
      /\ retryResp' \in BOOLEAN /\ dequeueEvent' \in BOOLEAN
      /\ drainState' = drainState /\ ResponsesMove' /\ DrainIsSignalled'
      /\ packetQueue' = IF pkt.needsResponse /\ ~Panics(pkt)
                         THEN Append(packetQueue, Reply(p, pkt)) ELSE packetQueue
  BY <1>1, TakeFacts
<1>3. /\ workQ' \in Seq(Items) /\ Len(workQ') <= Size
      /\ isEmpty' \in BOOLEAN /\ isFull' \in BOOLEAN /\ FlagsAgree'
  BY <1>1, <1>2, AccessFacts, Zenon
<1>4. CASE Panics(pkt)
  <2>1. p = "push" /\ pkt.cmd = "read"
    BY <1>1, <1>4 DEF Panics, Refuses, FlagsAgree, Ports
  <2>2. UNCHANGED <<workQ, packetQueue>> /\ sim' = "panic: push_port read"
    BY <1>1, <1>2, <1>4, <2>1, AccessFacts, Zenon DEF queueVars
  <2>3. TypeOK'
    BY <1>1, <1>2, <1>3, <2>2, Zenon DEF TypeOK
  <2>4. BusyUntilRelease' /\ ChecksSuffice' /\ RefusedHasReason'
    BY <1>2, <2>2, Zenon DEF BusyUntilRelease, ChecksSuffice, RefusedHasReason
  <2>5. QED
    BY <1>2, <1>3, <2>2, <2>3, <2>4, Zenon DEF WQInv, FIFOStep
<1>5. CASE ~Panics(pkt)
  <2>1. /\ sim' = sim
        /\ \/ /\ pkt.cmd = "read" /\ workQ # << >> /\ workQ' = Tail(workQ)
              /\ Reply(p, pkt) = [port |-> p, cmd |-> "read", data |-> Head(workQ)]
           \/ /\ pkt.cmd = "write" /\ Len(workQ) < Size /\ pkt.data \in Items
              /\ workQ' = Append(workQ, pkt.data)
              /\ Reply(p, pkt) = [port |-> p, cmd |-> "write", data |-> pkt.data]
    BY <1>1, <1>2, <1>5, AccessFacts, Zenon
  <2>2. TypeOK'
    BY <1>1, <1>2, <1>3, <2>1, Zenon DEF TypeOK
  <2>3. BusyUntilRelease' /\ ChecksSuffice' /\ RefusedHasReason'
    BY <1>2, <2>1 DEF BusyUntilRelease, ChecksSuffice, RefusedHasReason
  <2>4. FIFO!Get(p) \/ \E i \in Items : FIFO!Put(p, i)
    <3>1. pkt.cmd = "read" => pkt.needsResponse
      BY Zenon DEF Request
    <3>2. QED
      BY <1>2, <1>5, <2>1, <3>1, Zenon DEF FIFO!Get, FIFO!Put, FIFO!Owe
  <2>5. FIFOStep
    BY <2>4 DEF FIFOStep, FIFO!Next, Ports
  <2>6. QED
    BY <1>2, <1>3, <2>2, <2>3, <2>5 DEF WQInv
<1>6. QED
  BY <1>4, <1>5

(* recvTimingReq() *)
LEMMA RequestStep ==
  ASSUME WQInv, NEW p \in Ports, NEW pkt \in Request, recvTimingReq(p, pkt)
  PROVE  WQInv' /\ FIFOStep
<1>1. /\ TypeOK /\ FlagsAgree /\ BusyUntilRelease
      /\ sim = "run" /\ mode = "timing" /\ mode' = mode
  BY Zenon DEF WQInv, recvTimingReq
<1>2. /\ retry \in [Ports -> BOOLEAN] /\ held \in [Ports -> Request \cup {NULL}]
      /\ pkt # NULL
  BY <1>1, WorkQueueAssumption DEF TypeOK
<1>3. CASE UNCHANGED <<queueVars, reqVars, respVars>> /\ sim' = "panic: pop_port"
  <2>1. TypeOK' /\ FlagsAgree' /\ BusyUntilRelease' /\ DrainIsSignalled'
    BY <1>1, <1>3, Zenon DEF WQInv, TypeOK, FlagsAgree, BusyUntilRelease,
         DrainIsSignalled, queueVars, reqVars, respVars
  <2>2. ChecksSuffice' /\ RefusedHasReason' /\ ResponsesMove'
    BY <1>3, Zenon DEF ChecksSuffice, RefusedHasReason, ResponsesMove
  <2>3. FIFOStep
    BY <1>1, <1>3, Zenon DEF FIFOStep, queueVars, respVars
  <2>4. QED
    BY <2>1, <2>2, <2>3 DEF WQInv
<1>4. CASE /\ p = "pop" => pkt.cmd = "read"
           /\ Refuses(p, isBusy)
           /\ retry' = [retry EXCEPT ![p] = TRUE]
           /\ held' = [held EXCEPT ![p] = pkt]
           /\ UNCHANGED <<queueVars, isBusy, releaseEvent, respVars, sim>>
  <2>1. /\ UNCHANGED <<workQ, isEmpty, isFull, isBusy, releaseEvent, sim>>
        /\ UNCHANGED <<retryResp, packetQueue, dequeueEvent, drainState>>
    BY <1>4 DEF queueVars, respVars
  <2>2. retry' \in [Ports -> BOOLEAN] /\ held' \in [Ports -> Request \cup {NULL}]
    BY <1>2, <1>4
  <2>3. TypeOK'
    BY <1>1, <2>1, <2>2, Zenon DEF TypeOK
  <2>4. FlagsAgree' /\ ChecksSuffice' /\ ResponsesMove' /\ DrainIsSignalled'
    BY <1>1, <2>1 DEF WQInv, FlagsAgree, ChecksSuffice, ResponsesMove,
         DrainIsSignalled
  <2>5. BusyUntilRelease'
    BY <1>1, <1>2, <1>4, <2>1 DEF BusyUntilRelease, Ports
  <2>6. RefusedHasReason'
    BY <1>1, <1>2, <1>4, <2>1
       DEF WQInv, RefusedHasReason, Refuses, FlagsAgree, BusyUntilRelease, Ports
  <2>7. QED
    BY <1>1, <2>1, <2>3, <2>4, <2>5, <2>6 DEF WQInv, FIFOStep
<1>5. CASE /\ p = "pop" => pkt.cmd = "read"
           /\ ~Refuses(p, isBusy)
           /\ IF releaseEvent
              THEN /\ sim' = "assert: scheduled"
                   /\ UNCHANGED <<queueVars, reqVars, respVars>>
              ELSE /\ held' = [held EXCEPT ![p] = NULL]
                   /\ Take(p, pkt)
                   /\ UNCHANGED retry
  <2>1. ~isBusy /\ ~releaseEvent /\ ~Refuses(p, FALSE)
    BY <1>1, <1>5, Zenon DEF BusyUntilRelease, Refuses
  <2>2. held' = [held EXCEPT ![p] = NULL] /\ Take(p, pkt) /\ retry' = retry
    BY <1>5, <2>1
  <2>3. ~retry[p]
    BY <1>1, Zenon DEF BusyUntilRelease, recvTimingReq
  <2>4. /\ held' \in [Ports -> Request \cup {NULL}]
        /\ \A q \in Ports : retry'[q] => held'[q] # NULL
        /\ held'["pop"] # NULL => held'["pop"].cmd = "read"
    BY <1>1, <1>2, <2>2, <2>3 DEF BusyUntilRelease, Ports
  <2>5. QED
    BY <1>1, <1>2, <1>5, <2>1, <2>2, <2>4, TakenPreserves, Zenon
<1>6. QED
  BY <1>3, <1>4, <1>5, Zenon DEF recvTimingReq

(* recvAtomic() *)
LEMMA AtomicStep ==
  ASSUME WQInv, NEW p \in Ports, NEW pkt \in Request, recvAtomic(p, pkt)
  PROVE  WQInv' /\ FIFOStep
<1>1. /\ TypeOK /\ FlagsAgree /\ BusyUntilRelease /\ sim = "run" /\ mode = "atomic"
      /\ access(p, pkt) /\ mode' = mode /\ UNCHANGED <<reqVars, respVars>>
  BY Zenon DEF WQInv, recvAtomic
<1>2. /\ UNCHANGED <<isBusy, retry, releaseEvent, held>>
      /\ UNCHANGED <<retryResp, packetQueue, dequeueEvent, drainState>>
  BY <1>1 DEF reqVars, respVars
<1>3. /\ workQ' \in Seq(Items) /\ Len(workQ') <= Size
      /\ isEmpty' \in BOOLEAN /\ isFull' \in BOOLEAN /\ FlagsAgree'
  BY <1>1, AccessFacts, Zenon
<1>4. sim' \in {"run", "panic: access", "panic: push_port read"}
  BY <1>1, Zenon DEF access
<1>5. TypeOK'
  BY <1>1, <1>2, <1>3, <1>4, Zenon DEF TypeOK
<1>6. BusyUntilRelease' /\ ChecksSuffice'
  BY <1>1, <1>2, <1>4, Zenon DEF BusyUntilRelease, ChecksSuffice
<1>7. RefusedHasReason'
  BY <1>1, <1>2 DEF BusyUntilRelease, RefusedHasReason, Ports
<1>8. ResponsesMove' /\ DrainIsSignalled'
  BY <1>1, <1>2 DEF WQInv, ResponsesMove, DrainIsSignalled
<1>9. FIFOStep
  <2>1. CASE Panics(pkt)
    BY <1>1, <1>2, <2>1, AccessFacts, Zenon DEF FIFOStep, queueVars
  <2>2. CASE ~Panics(pkt)
    <3>1. FIFO!Get(p) \/ \E i \in Items : FIFO!Put(p, i)
      BY <1>1, <1>2, <2>2, AccessFacts, Zenon DEF FIFO!Get, FIFO!Put, FIFO!Owe
    <3>2. QED
      BY <3>1 DEF FIFOStep, FIFO!Next, Ports
  <2>3. QED
    BY <2>1, <2>2
<1>10. QED
  BY <1>3, <1>5, <1>6, <1>7, <1>8, <1>9 DEF WQInv
(* release() *)
LEMMA ReleaseStep ==
  ASSUME WQInv, NEW now \in SUBSET Ports, release(now)
  PROVE  WQInv' /\ FIFOStep
<1> DEFINE again(p) == Retries(p) /\ p \in now
           popped   == again("pop") /\ ~Refuses("pop", FALSE)
           pushed   == again("push") /\ ~Refuses("push", popped)
           taken    == {p \in Ports : IF p = "pop" THEN popped ELSE pushed}
<1>1. /\ sim = "run" /\ releaseEvent /\ mode' = mode
      /\ retry' = [p \in Ports |-> IF Retries(p) THEN again(p) /\ p \notin taken
                                                 ELSE retry[p]]
      /\ held' = [p \in Ports |-> IF p \in taken THEN NULL ELSE held[p]]
      /\ \/ \E p \in taken : Take(p, held[p])
         \/ /\ taken = {}
            /\ isBusy' = FALSE /\ releaseEvent' = FALSE
            /\ UNCHANGED <<queueVars, respVars, sim>>
  BY Zenon DEF release
<1>2. TypeOK /\ FlagsAgree /\ BusyUntilRelease
  BY DEF WQInv
<1>3. /\ retry \in [Ports -> BOOLEAN] /\ held \in [Ports -> Request \cup {NULL}]
      /\ mode = "timing"
  BY <1>1, <1>2 DEF TypeOK, BusyUntilRelease
<1>4. \A p \in taken : retry[p] /\ ~Refuses(p, FALSE)
  BY DEF Retries, Refuses, Ports
<1> HIDE DEF taken
<1>5. /\ held' \in [Ports -> Request \cup {NULL}]
      /\ held'["pop"] # NULL => held'["pop"].cmd = "read"
  BY <1>1, <1>2, <1>3 DEF BusyUntilRelease, Ports
<1>6. retry' \in [Ports -> BOOLEAN]
  <2>1. \A p \in Ports : (IF Retries(p) THEN again(p) /\ p \notin taken
                                        ELSE retry[p]) \in BOOLEAN
    BY <1>3, Zenon
  <2>2. QED
    BY <1>1, <2>1, Zenon
<1>7. \A p \in Ports : retry'[p] => retry[p] /\ p \notin taken /\ p \in now
  BY <1>1, Zenon DEF Retries
<1>8. \A p \in Ports : retry'[p] => held'[p] # NULL
  BY <1>1, <1>2, <1>7 DEF BusyUntilRelease
<1>9. CASE \E p \in taken : Take(p, held[p])
  <2>1. PICK p \in taken : Take(p, held[p])
    BY <1>9
  <2>2. /\ p \in Ports /\ retry[p] /\ ~Refuses(p, FALSE) /\ held[p] # NULL
        /\ held[p] \in Request /\ (p = "pop" => held[p].cmd = "read")
    BY <1>2, <1>3, <1>4, Zenon DEF BusyUntilRelease, taken
  <2>3. PICK pkt \in Request : pkt = held[p]
    BY <2>2
  <2>4. QED
    BY <1>1, <1>3, <1>5, <1>6, <1>8, <2>1, <2>2, <2>3, TakenPreserves, Zenon
<1>10. CASE /\ taken = {}
            /\ isBusy' = FALSE /\ releaseEvent' = FALSE
            /\ UNCHANGED <<queueVars, respVars, sim>>
  <2>1. /\ UNCHANGED <<workQ, isEmpty, isFull, sim>>
        /\ UNCHANGED <<retryResp, packetQueue, dequeueEvent, drainState>>
    BY <1>10 DEF queueVars, respVars
  <2>2. TypeOK'
    BY <1>1, <1>2, <1>5, <1>6, <1>10, <2>1, Zenon DEF TypeOK
  <2>3. FlagsAgree' /\ ChecksSuffice' /\ ResponsesMove' /\ DrainIsSignalled'
    BY <1>1, <1>2, <2>1 DEF WQInv, FlagsAgree, ChecksSuffice, ResponsesMove,
         DrainIsSignalled
  <2>4. BusyUntilRelease'
    BY <1>1, <1>3, <1>5, <1>8, <1>10 DEF BusyUntilRelease
  <2>5. ~popped /\ ~pushed
    BY <1>10, Zenon DEF taken, Ports
  <2>6. RefusedHasReason'
    <3>1. retry'["pop"] => workQ = << >>
      BY <1>2, <1>7, <2>5 DEF Retries, Refuses, FlagsAgree, Ports
    <3>2. retry'["push"] => Len(workQ) = Size
      BY <1>2, <1>7, <2>5 DEF Retries, Refuses, FlagsAgree, Ports
    <3>3. QED
      BY <2>1, <3>1, <3>2 DEF RefusedHasReason
  <2>7. QED
    BY <1>1, <2>1, <2>2, <2>3, <2>4, <2>6 DEF WQInv, FIFOStep
<1>11. QED
  BY <1>1, <1>9, <1>10, Zenon

(* dequeue(), as an event and in recvRespRetry(), drain() and the rest. *)
LEMMA ResponseStep ==
  ASSUME WQInv, sim = "run", packetQueue # << >>,
         NEW scheduled \in BOOLEAN, ~scheduled, Dequeue(scheduled),
         UNCHANGED <<mode, queueVars, reqVars>>
  PROVE  WQInv' /\ FIFOStep
<1>1. /\ TypeOK /\ sim' = sim
      /\ UNCHANGED <<mode, workQ, isEmpty, isFull, isBusy, retry, releaseEvent, held>>
  BY DEF WQInv, queueVars, reqVars, Dequeue
<1>2. FlagsAgree' /\ BusyUntilRelease' /\ ChecksSuffice' /\ RefusedHasReason'
  BY <1>1 DEF WQInv, FlagsAgree, BusyUntilRelease, ChecksSuffice, RefusedHasReason
<1>3. packetQueue \in Seq(Response) /\ Tail(packetQueue) \in Seq(Response)
  BY <1>1, HeadTailProperties DEF TypeOK
<1>4. CASE /\ retryResp' = FALSE
           /\ packetQueue' = Tail(packetQueue)
           /\ dequeueEvent' = (scheduled \/ packetQueue' # << >>)
           /\ drainState' = IF packetQueue' = << >> /\ drainState = "Draining"
                            THEN "Drained" ELSE drainState
  <2>1. /\ packetQueue' \in Seq(Response) /\ retryResp' \in BOOLEAN
        /\ dequeueEvent' \in BOOLEAN
    BY <1>3, <1>4, Zenon
  <2>2. drainState' \in {"Running", "Draining", "Drained"}
    BY <1>1, <1>4 DEF TypeOK
  <2>3. TypeOK'
    BY <1>1, <2>1, <2>2, Zenon DEF TypeOK
  <2>4. ResponsesMove' /\ DrainIsSignalled'
    BY <1>4, Zenon DEF ResponsesMove, DrainIsSignalled
  <2>5. FIFOStep
    BY <1>1, <1>4 DEF FIFOStep, FIFO!Next, FIFO!Answer
  <2>6. QED
    BY <1>2, <2>3, <2>4, <2>5 DEF WQInv
<1>5. CASE /\ retryResp' = TRUE /\ dequeueEvent' = scheduled
           /\ UNCHANGED <<packetQueue, drainState>>
  <2>1. TypeOK'
    BY <1>1, <1>5, Zenon DEF TypeOK
  <2>2. ResponsesMove' /\ DrainIsSignalled'
    BY <1>5 DEF WQInv, ResponsesMove, DrainIsSignalled
  <2>3. QED
    BY <1>1, <1>2, <1>5, <2>1, <2>2 DEF WQInv, FIFOStep
<1>6. QED
  BY <1>4, <1>5, Zenon DEF Dequeue

LEMMA OtherStep ==
  ASSUME WQInv, dequeue \/ recvRespRetry \/ drain \/ drainResume \/ UNCHANGED vars
  PROVE  WQInv' /\ FIFOStep
<1>1. TypeOK
  BY DEF WQInv
<1>2. CASE dequeue
  <2>1. sim = "run" /\ packetQueue # << >> /\ Dequeue(FALSE)
        /\ UNCHANGED <<mode, queueVars, reqVars>>
    BY <1>2, Zenon DEF dequeue, WQInv, ResponsesMove
  <2>2. QED
    BY <2>1, ResponseStep, Zenon
<1>3. CASE recvRespRetry
  <2>1. sim = "run" /\ packetQueue # << >> /\ dequeueEvent = FALSE
        /\ Dequeue(dequeueEvent) /\ UNCHANGED <<mode, queueVars, reqVars>>
    BY <1>1, <1>3 DEF recvRespRetry, WQInv, ResponsesMove, TypeOK
  <2>2. QED
    BY <2>1, ResponseStep, Zenon
<1>4. CASE drain \/ drainResume
  <2>1. /\ UNCHANGED <<mode, queueVars, reqVars, retryResp, packetQueue, dequeueEvent, sim>>
        /\ drainState' \in {"Running", "Draining", "Drained"}
        /\ drainState' = "Draining" => packetQueue # << >>
    BY <1>1, <1>4, Zenon DEF drain, drainResume, HasResponses, TypeOK
  <2>2. TypeOK' /\ FlagsAgree' /\ BusyUntilRelease'
    <3>1. TypeOK'
      BY <1>1, <2>1, ZenonT(60) DEF TypeOK, queueVars, reqVars
    <3>2. FlagsAgree' /\ BusyUntilRelease'
      BY <2>1 DEF WQInv, FlagsAgree, BusyUntilRelease, queueVars, reqVars
    <3>3. QED
      BY <3>1, <3>2
  <2>3. ChecksSuffice' /\ RefusedHasReason' /\ ResponsesMove' /\ DrainIsSignalled'
    BY <2>1, Zenon DEF WQInv, ChecksSuffice, RefusedHasReason, ResponsesMove,
         DrainIsSignalled, queueVars, reqVars
  <2>4. QED
    BY <2>1, <2>2, <2>3 DEF WQInv, FIFOStep, queueVars
<1>5. CASE UNCHANGED vars
  <2>1. UNCHANGED <<mode, queueVars, reqVars, respVars, sim>>
    BY <1>5 DEF vars
  <2>2. TypeOK' /\ FlagsAgree' /\ BusyUntilRelease'
    <3>1. TypeOK'
      BY <1>1, <2>1, ZenonT(60) DEF TypeOK, queueVars, reqVars, respVars
    <3>2. FlagsAgree' /\ BusyUntilRelease'
      BY <2>1 DEF WQInv, FlagsAgree, BusyUntilRelease, queueVars, reqVars
    <3>3. QED
      BY <3>1, <3>2
  <2>3. ChecksSuffice' /\ RefusedHasReason' /\ ResponsesMove' /\ DrainIsSignalled'
    BY <2>1, Zenon DEF WQInv, ChecksSuffice, RefusedHasReason, ResponsesMove,
         DrainIsSignalled, queueVars, reqVars, respVars
  <2>4. QED
    BY <2>1, <2>2, <2>3 DEF WQInv, FIFOStep, queueVars, respVars
<1>6. QED
  BY <1>2, <1>3, <1>4, <1>5

LEMMA InitWQ == Init => WQInv /\ FIFO!Init
<1> SUFFICES ASSUME Init PROVE WQInv /\ FIFO!Init
  OBVIOUS
<1>1. TypeOK
  <2>1. workQ \in Seq(Items) /\ packetQueue \in Seq(Response) /\ Len(workQ) <= Size
    BY WorkQueueAssumption DEF Init
  <2>2. retry \in [Ports -> BOOLEAN] /\ held \in [Ports -> Request \cup {NULL}]
    BY DEF Init
  <2>3. QED
    BY <2>1, <2>2, Zenon DEF Init, TypeOK
<1>2. FlagsAgree
  BY WorkQueueAssumption DEF Init, FlagsAgree
<1>3. BusyUntilRelease /\ ChecksSuffice /\ RefusedHasReason /\ ResponsesMove
      /\ DrainIsSignalled
  BY DEF Init, BusyUntilRelease, ChecksSuffice, RefusedHasReason, ResponsesMove,
         DrainIsSignalled, Ports
<1>4. QED
  BY <1>1, <1>2, <1>3 DEF WQInv, Init, FIFO!Init

LEMMA NextWQ == WQInv /\ [Next]_vars => WQInv' /\ FIFOStep
<1> SUFFICES ASSUME WQInv, [Next]_vars PROVE WQInv' /\ FIFOStep
  OBVIOUS
<1>1. CASE \E p \in Ports : Sends(p) \/ \E pkt \in Request : recvAtomic(p, pkt)
  BY <1>1, RequestStep, AtomicStep DEF Sends
<1>2. CASE \E now \in SUBSET Ports : release(now)
  BY <1>2, ReleaseStep
<1>3. CASE dequeue \/ recvRespRetry \/ drain \/ drainResume \/ UNCHANGED vars
  BY <1>3, OtherStep
<1>4. QED
  BY <1>1, <1>2, <1>3 DEF Next, Stopped

(* What the inductive invariant says holds of every state. *)
LEMMA AlwaysWQ == Spec => []WQInv
BY InitWQ, NextWQ, PTL DEF Spec

(* In timing mode access() never pops an empty queue for pop_port nor      *)
(* pushes onto a full one, releaseEvent is never scheduled twice, and      *)
(* dequeue() finds a response, for every size of the queue and every       *)
(* interleaving of the two ports.                                          *)
THEOREM ChecksAreEnough == Spec => []ChecksSuffice
BY AlwaysWQ, PTL DEF WQInv

(* A request that recvTimingReq() refused is retried once there is an item *)
(* or space for it.                                                        *)
THEOREM RefusedAreRetried == Spec => []RefusedHasReason
BY AlwaysWQ, PTL DEF WQInv

(* No response is stuck in packetQueue, and none is sent out of turn to a  *)
(* crossbar that has refused it.                                           *)
THEOREM ResponsesAlwaysMove == Spec => []ResponsesMove
BY AlwaysWQ, PTL DEF WQInv

(* A device that answers drain() with Draining has a response whose        *)
(* delivery will call signalDrainDone().                                   *)
THEOREM DrainEnds == Spec => []DrainIsSignalled
BY AlwaysWQ, PTL DEF WQInv

(* The device implements the bounded FIFO with responses in order: its     *)
(* steps put an item, take the oldest, send the oldest response, or leave  *)
(* items and responses alone, and in timing mode no load is taken without  *)
(* the response that carries its item.                                     *)
THEOREM ImplementsFIFO == Spec => IsFIFO
<1>1. Spec => FIFO!Init /\ [][FIFO!Next]_<<mode, workQ, packetQueue>>
  BY InitWQ, NextWQ, AlwaysWQ, PTL DEF Spec, FIFOStep
<1>2. QED
  BY <1>1, PTL DEF IsFIFO, FIFO!Spec
=============================================================================
