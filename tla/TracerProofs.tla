---------------------------- MODULE TracerProofs ----------------------------
(***************************************************************************)
(* An emulated application that is traced, for any application, threads,   *)
(* PEs, queues and depth, and any number of instructions and calls: its    *)
(* traces say what its programs did (TraceInv), and can be replayed        *)
(* together (ReplayInv).                                                   *)
(***************************************************************************)
EXTENDS EmuProofs

----------------------------------------------------------------------------
(* The invariant behind the faithfulness of the traces. *)

AppOK ==
  /\ traced \in BOOLEAN /\ DOMAIN ids \subseteq Threads /\ \A t \in DOMAIN ids : ids[t] \in PEs
  /\ traced => IsInjective(ids)

TraceTypeOK ==
  /\ open \in [Threads -> BOOLEAN] /\ files \in SUBSET PEs
  /\ log \in [PEs -> Seq(Entries)] /\ prog \in [PEs -> Seq(Items)]
  /\ stalls \in [Threads -> Nat] /\ count \in [Threads -> Nat]
  /\ callers \in [Threads -> Seq(Nat)]

(* A thread has the id the application gave it, and writes to the file of  *)
(* its PE only while that is open.                                         *)
OwnFile(t) ==
  /\ core[t] # NoCore => t \in DOMAIN ids /\ core[t] = ids[t]
  /\ open[t] => traced /\ core[t] \in files

TraceInv ==
  /\ AppOK /\ TraceTypeOK /\ \A t \in Threads : OwnFile(t)
  /\ \A p \in PEs : Ordered(log[p], prog[p])
  /\ \A t \in Threads : open[t] => Sound(log[core[t]], stalls[t], Pending(t), prog[core[t]])

----------------------------------------------------------------------------
(* No other thread has the core id of one whose log is open. *)
LEMMA AloneInPE ==
  ASSUME TraceInv, EmuTypeOK, NEW t \in Threads, open[t]
  PROVE  core[t] \in PEs /\ \A u \in Threads : core[u] = core[t] => u = t
<1>1. core[t] \in PEs
  BY DEF TraceInv, OwnFile, TraceTypeOK
<1>2. core[t] # NoCore /\ traced
  BY <1>1, EmuAssumption DEF TraceInv, OwnFile
<1> QED
  BY <1>1, <1>2, Zenon DEF TraceInv, OwnFile, AppOK, IsInjective

(* What a thread has pending: a call only moves it. *)
LEMMA PendingNat ==
  ASSUME TraceTypeOK, NEW t \in Threads
  PROVE  /\ count[t] \in Nat /\ Held(callers[t]) \in Nat
         /\ Pending(t) = count[t] + Held(callers[t]) /\ Pending(t) \in Nat
<1>1. count[t] \in Nat /\ callers[t] \in Seq(Nat) /\ 0 \in Nat
  BY DEF TraceTypeOK
<1>2. Held(callers[t]) \in Nat
  BY <1>1, HeldAppend, Zenon
<1>3. Pending(t) = count[t] + Held(callers[t])
  BY DEF Pending
<1> QED
  BY <1>1, <1>2, <1>3

LEMMA PendingMoves ==
  ASSUME TraceTypeOK, NEW t \in Threads, CallFunction(t) \/ ReturnToCaller(t)
  PROVE  /\ count' \in [Threads -> Nat] /\ callers' \in [Threads -> Seq(Nat)]
         /\ \A u \in Threads : Pending(u)' = Pending(u)
<1>1. /\ count \in [Threads -> Nat] /\ callers \in [Threads -> Seq(Nat)]
      /\ count[t] \in Nat /\ callers[t] \in Seq(Nat)
  BY DEF TraceTypeOK
<1>2. PICK c \in Nat, h \in Seq(Nat) :
        /\ count' = [count EXCEPT ![t] = c] /\ callers' = [callers EXCEPT ![t] = h]
        /\ \/ c = 0 /\ h = Append(callers[t], count[t])
           \/ count[t] = 0 /\ callers[t] = Append(h, c)
  <2>1. CASE CallFunction(t)
    <3>1. Append(callers[t], count[t]) \in Seq(Nat) /\ 0 \in Nat
      BY <1>1
    <3> QED
      BY <2>1, <3>1, Zenon DEF CallFunction
  <2>2. CASE ReturnToCaller(t)
    <3> DEFINE s == callers[t]
               c == s[Len(s)]
               h == SubSeq(s, 1, Len(s) - 1)
    <3>1. count[t] = 0 /\ s # <<>> /\ count' = [count EXCEPT ![t] = c]
          /\ callers' = [callers EXCEPT ![t] = h]
      BY <2>2, Zenon DEF ReturnToCaller
    <3>2. s \in Seq(Nat)
      BY <1>1
    <3>3. c \in Nat /\ h \in Seq(Nat) /\ s = Append(h, c)
      <4> HIDE DEF s
      <4> QED
        BY <3>1, <3>2
    <3> HIDE DEF c, h
    <3> QED
      BY <3>1, <3>3, Zenon
  <2> QED
    BY <2>1, <2>2, Zenon
<1>3. /\ count' \in [Threads -> Nat] /\ callers' \in [Threads -> Seq(Nat)]
      /\ count'[t] = c /\ callers'[t] = h
      /\ \A u \in Threads : u # t => count'[u] = count[u] /\ callers'[u] = callers[u]
  BY <1>1, <1>2
<1>4. Held(h) \in Nat /\ Held(Append(h, c)) = Held(h) + c
  BY HeldAppend, Zenon
<1>5. Held(callers[t]) \in Nat /\ Held(Append(callers[t], count[t])) = Held(callers[t]) + count[t]
  BY <1>1, HeldAppend, Zenon
<1>6. c + Held(h) = count[t] + Held(callers[t])
  <2>1. CASE c = 0 /\ h = Append(callers[t], count[t])
    <3>1. Held(h) = Held(callers[t]) + count[t]
      BY <1>5, <2>1, Zenon
    <3> QED
      BY <1>1, <1>4, <1>5, <2>1, <3>1, SMTT(20)
  <2>2. CASE count[t] = 0 /\ callers[t] = Append(h, c)
    <3>1. Held(callers[t]) = Held(h) + c
      BY <1>4, <2>2, Zenon
    <3> QED
      BY <1>1, <1>4, <1>5, <2>2, <3>1, SMTT(20)
  <2> QED
    BY <1>2, <2>1, <2>2, Zenon
<1>7. ASSUME NEW u \in Threads PROVE Pending(u)' = Pending(u)
  <2>1. CASE u = t
    BY <1>3, <1>6, <2>1, Zenon DEF Pending
  <2>2. CASE u # t
    BY <1>3, <2>2, Zenon DEF Pending
  <2> QED
    BY <2>1, <2>2
<1> QED
  BY <1>3, <1>7, Zenon

(* A step of a thread on its own trace and counts. *)
LEMMA OwnTrace ==
  ASSUME TraceInv, EmuTypeOK, NEW t \in Threads, open[t],
         NEW l, NEW s, NEW c \in Nat, NEW g, Sound(l, s, c + Held(callers[t]), g),
         log' = [log EXCEPT ![core[t]] = l], prog' = [prog EXCEPT ![core[t]] = g],
         stalls' = [stalls EXCEPT ![t] = s], count' = [count EXCEPT ![t] = c],
         UNCHANGED <<core, open, files, callers, traced, ids>>
  PROVE  TraceInv'
<1>1. core[t] \in PEs /\ \A u \in Threads : core[u] = core[t] => u = t
  BY AloneInPE
<1>2. AppOK' /\ \A u \in Threads : OwnFile(u)'
  BY DEF TraceInv, AppOK, OwnFile, IsInjective
<1>3. /\ log'[core[t]] = l /\ prog'[core[t]] = g
      /\ stalls'[t] = s /\ Pending(t)' = c + Held(callers[t])
      /\ \A p \in PEs : p # core[t] => log'[p] = log[p] /\ prog'[p] = prog[p]
      /\ \A u \in Threads : u # t => stalls'[u] = stalls[u] /\ Pending(u)' = Pending(u)
  BY <1>1, Zenon DEF TraceInv, TraceTypeOK, Pending
<1>4. TraceTypeOK'
  BY <1>1, SMTT(20) DEF TraceInv, TraceTypeOK, Sound
<1>5. \A p \in PEs : Ordered(log'[p], prog'[p])
  <2>1. Ordered(l, g)
    BY DEF Sound
  <2>2. \A p \in PEs : Ordered(log[p], prog[p])
    BY DEF TraceInv
  <2>3. ASSUME NEW p \in PEs PROVE Ordered(log'[p], prog'[p])
    <3>1. CASE p = core[t]
      BY <1>3, <2>1, <3>1, Zenon
    <3>2. CASE p # core[t]
      BY <1>3, <2>2, <3>2, Zenon
    <3> QED
      BY <3>1, <3>2
  <2> QED
    BY <2>3, SMTT(20)
<1>6. ASSUME NEW u \in Threads, open'[u]
      PROVE  Sound(log'[core'[u]], stalls'[u], Pending(u)', prog'[core'[u]])
  <2>1. CASE u = t
    BY <1>3, <2>1, Zenon
  <2>2. CASE u # t
    <3>1. core[u] \in PEs /\ core[u] # core[t] /\ open[u]
      BY <1>1, <1>6, <2>2, AloneInPE, SMTT(20)
    <3>2. /\ log'[core[u]] = log[core[u]] /\ prog'[core[u]] = prog[core[u]]
          /\ stalls'[u] = stalls[u] /\ Pending(u)' = Pending(u) /\ core'[u] = core[u]
      BY <1>3, <2>2, <3>1, Zenon
    <3>3. Sound(log[core[u]], stalls[u], Pending(u), prog[core[u]])
      BY <3>1 DEF TraceInv
    <3> QED
      BY <3>2, <3>3, Zenon
  <2> QED
    BY <2>1, <2>2
<1> QED
  BY <1>2, <1>4, <1>5, <1>6, Zenon DEF TraceInv

(* An instruction, with the calls of the runtime in front of it. *)
LEMMA InstructionTraced ==
  ASSUME TraceInv, EmuTypeOK, NEW t \in Threads, NEW i, NEW n \in Nat, NEW r, NEW k \in Nat,
         Instruction(t, i, n, r, k), UNCHANGED <<emuVars, app>>,
         open[t] => SoundRun(r, n + Held(callers[t]), Append(prog[core[t]], Item(i)))
  PROVE  TraceInv'
<1>1. UNCHANGED <<core, open, files, callers, traced, ids>>
  BY DEF Instruction, emuVars, app
<1>2. CASE open[t]
  <2> DEFINE g == Append(prog[core[t]], Item(i))
  <2>1. /\ log' = [log EXCEPT ![core[t]] = r.log] /\ stalls' = [stalls EXCEPT ![t] = r.stalls]
        /\ prog' = [prog EXCEPT ![core[t]] = g] /\ count' = [count EXCEPT ![t] = n]
    BY <1>2 DEF Instruction
  <2>2. Sound(r.log, r.stalls, n + Held(callers[t]), g)
    BY <1>2 DEF SoundRun
  <2> HIDE DEF g
  <2> QED
    BY <1>1, <1>2, <2>1, <2>2, OwnTrace, Zenon
<1>3. CASE ~open[t]
  <2>1. /\ log' = log /\ prog' = prog
        /\ stalls' = [stalls EXCEPT ![t] = k] /\ count' = [count EXCEPT ![t] = n]
    BY <1>3 DEF Instruction
  <2>2. TraceTypeOK'
    BY <1>1, <2>1 DEF TraceInv, TraceTypeOK
  <2>3. AppOK' /\ \A u \in Threads : OwnFile(u)'
    BY <1>1, Zenon DEF TraceInv, AppOK, OwnFile, IsInjective
  <2>4. \A u \in Threads : open'[u] => u # t /\ open[u] /\ stalls'[u] = stalls[u] /\ Pending(u)' = Pending(u)
    BY <1>1, <1>3, <2>1, Zenon DEF TraceInv, TraceTypeOK, Pending
  <2> QED
    BY <1>1, <2>1, <2>2, <2>3, <2>4, Zenon DEF TraceInv
<1> QED
  BY <1>2, <1>3, SMTT(20)

(* The empty trace, and that of a thread that opens its log inside a block. *)
LEMMA SoundEmpty ==
  ASSUME NEW n \in Nat
  PROVE  Sound(<<>>, 0, n, [i \in 1 .. n |-> Item("compute")]) /\ Ordered(<<>>, <<>>)
<1> DEFINE g == [i \in 1 .. n |-> Item("compute")]
<1>1. Item("compute") \in Items /\ Item("compute").item = "compute"
  BY EntryTypes
<1>2. g \in Seq(Items) /\ DOMAIN g = 1 .. n /\ \A j \in 1 .. n : g[j] = Item("compute")
  BY <1>1
<1>3. Kept(g) = {} /\ Computes(g) = 1 .. n
  <2> HIDE DEF g
  <2> QED
    BY <1>1, <1>2 DEF Kept, Computes
<1>4. Written(<<>>) = {} /\ Ticks(<<>>, 0) = {} /\ Kept(<<>>) = {} /\ <<>> \in Seq(Entries)
  BY DEF Written, Ticks, Kept
<1>5. Cardinality(1 .. n) = n /\ Cardinality({}) = 0
  BY Initial, FS_EmptySet, Zenon
<1>6. Cycles(<<>>, Len(<<>>)) = 0
  <2>1. Len(<<>>) = 0
    OBVIOUS
  <2> QED
    BY <1>4, <1>5, <2>1, SMTT(20) DEF Cycles
<1> HIDE DEF g
<1>7. Ordered(<<>>, g) /\ Ordered(<<>>, <<>>)
  BY <1>3, <1>4, Zenon DEF Ordered
<1>8. Sound(<<>>, 0, n, g)
  <2>1. Cycles(<<>>, Len(<<>>)) + 0 + n = Cardinality(Computes(g))
    BY <1>3, <1>5, <1>6, 0 + 0 + n = n, Zenon
  <2> QED
    BY <1>2, <1>4, <1>7, <2>1, 0 \in Nat, Zenon DEF Sound
<1> QED
  BY <1>7, <1>8 DEF g

(* Every call of the compiler pass, and every call of the application to   *)
(* the runtime of the tracer, keeps the invariant.                         *)
LEMMA TracedStep ==
  ASSUME TraceInv, EmuTypeOK, NEW t \in Threads, Traced(t), UNCHANGED app
  PROVE  TraceInv'
<1>0. traced /\ UNCHANGED <<emuVars, app>>
  BY DEF Traced
<1>1. /\ stalls[t] \in Nat /\ count[t] \in Nat /\ count[t] + 1 \in Nat
      /\ \A n, d : Closed(t, n, d) \in Nat
  BY DEF TraceInv, TraceTypeOK, Closed
<1> DEFINE d == Held(callers[t])
<1>2. /\ d \in Nat /\ Pending(t) = count[t] + d /\ Pending(t) \in Nat
      /\ count[t] + 1 + d = count[t] + d + 1 /\ 0 + d = d
      /\ open[t] => Sound(log[core[t]], stalls[t], count[t] + d, prog[core[t]])
  <2>1. d \in Nat /\ Pending(t) = count[t] + d /\ Pending(t) \in Nat
    BY PendingNat, Zenon DEF TraceInv
  <2>2. open[t] => Sound(log[core[t]], stalls[t], count[t] + d, prog[core[t]])
    BY <2>1, Zenon DEF TraceInv
  <2> HIDE DEF d
  <2> QED
    BY <1>1, <2>1, <2>2
<1>3. CASE Compute(t)
  <2>1. open[t] => SoundRun(Runtime(t), count[t] + 1 + d, Append(prog[core[t]], Item("compute")))
    BY <1>2, SoundCompute, RunIs, Zenon DEF Runtime
  <2> QED
    BY <1>0, <1>1, <1>3, <2>1, InstructionTraced, Zenon DEF Compute
<1>4. CASE ComputeOnLoaded(t)
  <2>1. open[t] => SoundRun(increment_stalls(Runtime(t), count[t] + 1, TRUE), 0 + d,
                            Append(prog[core[t]], Item("dependent")))
    BY <1>1, <1>2, SoundDependent, Zenon DEF Runtime
  <2> QED
    BY <1>0, <1>1, <1>4, <2>1, InstructionTraced, Zenon DEF ComputeOnLoaded
<1>5. CASE EndOfBlock(t)
  <2>1. open[t] => SoundRun(increment_stalls(Runtime(t), count[t], FALSE), 0 + d,
                            Append(prog[core[t]], Item("end")))
    BY <1>1, <1>2, SoundEnd, Zenon DEF Runtime
  <2> QED
    BY <1>0, <1>1, <1>5, <2>1, InstructionTraced, Zenon DEF EndOfBlock
<1>6. ASSUME NEW in \in BOOLEAN, Access(t, in) PROVE TraceInv'
  <2>1. open[t] => SoundRun(increment_stalls(emit_access(Runtime(t), in), count[t], FALSE), 0 + d,
                            Append(prog[core[t]], Item(IF in THEN "access" ELSE "local")))
    BY <1>1, <1>2, SoundAccess, Zenon DEF Runtime
  <2> QED
    BY <1>0, <1>1, <1>6, <2>1, InstructionTraced, Zenon DEF Access
<1>7. CASE __open_trace_log(t)
  <2> DEFINE g == [i \in 1 .. Pending(t) |-> Item("compute")]
  <2>1. /\ core[t] \in PEs /\ \A u \in Threads : core[u] = core[t] => u = t
        /\ ~open[t]
    BY <1>7 DEF __open_trace_log, Executes, EmuTypeOK
  <2>2. /\ open' = [open EXCEPT ![t] = TRUE] /\ files' = files \cup {core[t]}
        /\ log' = [log EXCEPT ![core[t]] = <<>>] /\ prog' = [prog EXCEPT ![core[t]] = g]
        /\ stalls' = [stalls EXCEPT ![t] = 0] /\ count' = count /\ callers' = callers
    BY <1>7 DEF __open_trace_log
  <2>3. Sound(<<>>, 0, Pending(t), g)
    BY <1>2, SoundEmpty, Zenon
  <2>4. core' = core /\ traced' = traced /\ ids' = ids
    BY <1>0 DEF emuVars, app
  <2> HIDE DEF g
  <2>5. TraceTypeOK'
    <3>1. <<>> \in Seq(Entries) /\ g \in Seq(Items)
      BY <2>3 DEF Sound
    <3> QED
      BY <2>1, <2>2, <3>1 DEF TraceInv, TraceTypeOK
  <2>6. AppOK' /\ \A u \in Threads : OwnFile(u)'
    BY <1>0, <2>1, <2>2, <2>4, Zenon
    DEF TraceInv, TraceTypeOK, AppOK, OwnFile, IsInjective
  <2>7. /\ log'[core[t]] = <<>> /\ prog'[core[t]] = g /\ stalls'[t] = 0
        /\ \A u \in Threads : Pending(u)' = Pending(u)
        /\ \A p \in PEs : p # core[t] => log'[p] = log[p] /\ prog'[p] = prog[p]
        /\ \A u \in Threads : u # t => stalls'[u] = stalls[u] /\ (open'[u] <=> open[u])
    BY <2>1, <2>2 DEF TraceInv, TraceTypeOK, Pending
  <2>8. ASSUME NEW p \in PEs PROVE Ordered(log'[p], prog'[p])
    <3>1. Ordered(<<>>, g) /\ Ordered(log[p], prog[p])
      BY <2>3, Zenon DEF Sound, TraceInv
    <3>2. CASE p = core[t]
      BY <2>7, <3>1, <3>2, Zenon
    <3>3. CASE p # core[t]
      BY <2>7, <3>1, <3>3, Zenon
    <3> QED
      BY <3>2, <3>3
  <2>9. ASSUME NEW u \in Threads, open'[u]
        PROVE  Sound(log'[core'[u]], stalls'[u], Pending(u)', prog'[core'[u]])
    <3>1. CASE u = t
      BY <2>3, <2>4, <2>7, <3>1, Zenon
    <3>2. CASE u # t
      <4>1. open[u] /\ core[u] \in PEs /\ core[u] # core[t]
        BY <2>1, <2>7, <2>9, <3>2, AloneInPE, SMTT(20)
      <4>2. Sound(log[core[u]], stalls[u], Pending(u), prog[core[u]])
        BY <4>1 DEF TraceInv
      <4>3. /\ log'[core'[u]] = log[core[u]] /\ prog'[core'[u]] = prog[core[u]]
            /\ stalls'[u] = stalls[u] /\ Pending(u)' = Pending(u)
        BY <2>2, <2>4, <2>7, <3>2, <4>1, SMTT(20)
      <4> QED
        BY <4>2, <4>3, Zenon
    <3> QED
      BY <3>1, <3>2
  <2> QED
    BY <2>5, <2>6, <2>8, <2>9, Zenon DEF TraceInv
<1>8. CASE __close_trace_log(t)
  <2> DEFINE m == Append(log[core[t]], EOF)
  <2>0. open[t]
    BY <1>8 DEF __close_trace_log
  <2>1. core[t] \in PEs /\ \A u \in Threads : core[u] = core[t] => u = t
    BY <2>0, AloneInPE
  <2>2. /\ open' = [open EXCEPT ![t] = FALSE] /\ files' = files \ {core[t]}
        /\ log' = [log EXCEPT ![core[t]] = m] /\ prog' = prog
        /\ stalls' = stalls /\ count' = count /\ callers' = callers
    BY <1>8, SMTT(20) DEF __close_trace_log
  <2>3. Ordered(m, prog[core[t]]) /\ m \in Seq(Entries)
    <3>1. /\ log[core[t]] \in Seq(Entries) /\ prog[core[t]] \in Seq(Items)
          /\ Ordered(log[core[t]], prog[core[t]])
      BY <2>1 DEF TraceInv, TraceTypeOK
    <3>2. EOF \in Entries /\ EOF.entry \notin {"MEM", "PRIM"}
      BY EntryTypes, SMTT(20)
    <3> QED
      BY <3>1, <3>2, OrderedLog, SMTT(20)
  <2>4. core' = core /\ traced' = traced /\ ids' = ids
    BY <1>0 DEF emuVars, app
  <2> HIDE DEF m
  <2>5. TraceTypeOK'
    BY <2>1, <2>2, <2>3, SMTT(20) DEF TraceInv, TraceTypeOK
  <2>6. /\ log'[core[t]] = m
        /\ \A p \in PEs : p # core[t] => log'[p] = log[p]
        /\ \A u \in Threads : open'[u] => u # t /\ open[u]
    BY <2>1, <2>2 DEF TraceInv, TraceTypeOK
  <2>7. AppOK' /\ \A u \in Threads : OwnFile(u)'
    BY <1>0, <2>1, <2>2, <2>4, <2>6, Zenon
    DEF TraceInv, AppOK, OwnFile, IsInjective
  <2>8. ASSUME NEW p \in PEs PROVE Ordered(log'[p], prog'[p])
    <3>1. Ordered(log[p], prog[p])
      BY Zenon DEF TraceInv
    <3>2. CASE p = core[t]
      BY <2>2, <2>3, <2>6, <3>2, Zenon
    <3>3. CASE p # core[t]
      BY <2>2, <2>6, <3>1, <3>3, Zenon
    <3> QED
      BY <3>2, <3>3
  <2>9. ASSUME NEW u \in Threads, open'[u]
        PROVE  Sound(log'[core'[u]], stalls'[u], Pending(u)', prog'[core'[u]])
    <3>1. open[u] /\ core[u] \in PEs /\ core[u] # core[t]
      BY <2>1, <2>6, <2>9, AloneInPE, SMTT(20)
    <3>2. Sound(log[core[u]], stalls[u], Pending(u), prog[core[u]])
      BY <3>1 DEF TraceInv
    <3>3. /\ log'[core'[u]] = log[core[u]] /\ prog'[core'[u]] = prog[core[u]]
          /\ stalls'[u] = stalls[u] /\ Pending(u)' = Pending(u)
      BY <2>2, <2>4, <2>6, <3>1, Zenon DEF Pending
    <3> QED
      BY <3>2, <3>3, Zenon
  <2> QED
    BY <2>5, <2>7, <2>8, <2>9, Zenon DEF TraceInv
<1>9. CASE CallFunction(t) \/ ReturnToCaller(t)
  <2>1. /\ UNCHANGED <<open, files, log, stalls, prog>>
        /\ core' = core /\ traced' = traced /\ ids' = ids
    BY <1>0, <1>9, Zenon DEF CallFunction, ReturnToCaller, emuVars, app
  <2>2. /\ count' \in [Threads -> Nat] /\ callers' \in [Threads -> Seq(Nat)]
        /\ \A u \in Threads : Pending(u)' = Pending(u)
    BY <1>9, PendingMoves, Zenon DEF TraceInv
  <2>3. AppOK' /\ TraceTypeOK' /\ \A u \in Threads : OwnFile(u)'
    BY <2>1, <2>2, Zenon DEF TraceInv, AppOK, IsInjective, TraceTypeOK, OwnFile
  <2> QED
    BY <2>1, <2>2, <2>3, Zenon DEF TraceInv
<1> QED
  BY <1>3, <1>4, <1>5, <1>6, <1>7, <1>8, <1>9, Zenon DEF Traced

(* Steps that leave the traces and the core ids alone. *)
LEMMA TraceFrame ==
  ASSUME TraceInv, UNCHANGED <<traceVars, app, core>>
  PROVE  TraceInv'
<1>1. /\ UNCHANGED <<open, files, log, stalls, count, callers, prog>>
      /\ core' = core /\ traced' = traced /\ ids' = ids
  BY SMTT(20) DEF traceVars, app
<1>2. AppOK' /\ TraceTypeOK' /\ \A t \in Threads : OwnFile(t)'
  BY <1>1 DEF TraceInv, AppOK, IsInjective, TraceTypeOK, OwnFile
<1> QED
  BY <1>1, <1>2, Zenon DEF TraceInv, Pending

(* The application sets up the library, registers threads and tears it     *)
(* down when every log is closed.                                          *)
LEMMA SettingTraced ==
  ASSUME TraceInv, EmuTypeOK, Setting, UNCHANGED app
  PROVE  TraceInv'
<1>0. UNCHANGED <<open, files, log, stalls, count, callers, prog, traced, ids>> /\ UNCHANGED traceVars
  BY SMTT(20) DEF Setting, traceVars, app
<1>1. CASE __init
  BY <1>0, <1>1, TraceFrame, SMTT(20) DEF __init
<1>2. CASE __teardown /\ files = {}
  <2>1. \A t \in Threads : core'[t] = NoCore /\ ~open'[t]
    BY <1>0, <1>2, SMTT(20) DEF __teardown, TraceInv, OwnFile
  <2>2. \A t \in Threads : OwnFile(t)'
    BY <2>1, SMTT(20) DEF OwnFile
  <2>3. AppOK' /\ TraceTypeOK'
    BY <1>0 DEF TraceInv, AppOK, IsInjective, TraceTypeOK
  <2> QED
    BY <1>0, <2>1, <2>2, <2>3, Zenon DEF TraceInv, Pending
<1>3. ASSUME NEW t \in DOMAIN ids, __register_core_id(t, ids[t]) PROVE TraceInv'
  <2>0. t \in Threads
    BY Zenon DEF TraceInv, AppOK
  <2>1. core[t] = NoCore /\ core' = [core EXCEPT ![t] = ids[t]]
    BY <1>3, SMTT(20) DEF __register_core_id
  <2>2. ~open[t]
    BY <2>0, <2>1, EmuAssumption, SMTT(20) DEF TraceInv, OwnFile, TraceTypeOK
  <2>3. core'[t] = ids[t] /\ \A u \in Threads : u # t => core'[u] = core[u]
    BY <2>0, <2>1, SMTT(20) DEF EmuTypeOK
  <2>4. \A u \in Threads : OwnFile(u)'
    BY <1>0, <2>2, <2>3, SMTT(20) DEF TraceInv, OwnFile
  <2>5. AppOK' /\ TraceTypeOK'
    BY <1>0, SMTT(20) DEF TraceInv, AppOK, IsInjective, TraceTypeOK
  <2>6. \A u \in Threads : open'[u] => open[u] /\ core'[u] = core[u]
    BY <1>0, <2>2, <2>3, SMTT(20)
  <2> QED
    BY <1>0, <2>4, <2>5, <2>6, Zenon DEF TraceInv, Pending
<1> QED
  BY <1>1, <1>2, <1>3, SMTT(20) DEF Setting

(* A primitive that is called is logged. *)
LEMMA PrimitiveTraced ==
  ASSUME TraceInv, EmuTypeOK, NEW t \in Threads, NEW c \in EmuCalls, Primitive(t, c), UNCHANGED app
  PROVE  TraceInv'
<1>0. core' = core /\ LogPrim(t, c) /\ UNCHANGED <<core, open, files, callers, traced, ids>>
      /\ UNCHANGED <<stalls, count>>
  BY Zenon DEF Primitive, Call, LogPrim, app
<1>1. CASE open[t]
  <2> DEFINE l == Append(log[core[t]], PRIM(c))
             g == Append(prog[core[t]], [item |-> "prim", call |-> c])
  <2>1. /\ Sound(log[core[t]], stalls[t], count[t] + Held(callers[t]), prog[core[t]])
        /\ count[t] \in Nat
    BY <1>1, PendingNat, Zenon DEF TraceInv
  <2>2. Sound(l, stalls[t], count[t] + Held(callers[t]), g)
    BY <2>1, SoundPrim, Zenon
  <2>3. log' = [log EXCEPT ![core[t]] = l] /\ prog' = [prog EXCEPT ![core[t]] = g]
    BY <1>0, <1>1, SMTT(20) DEF LogPrim
  <2>4. stalls' = [stalls EXCEPT ![t] = stalls[t]] /\ count' = [count EXCEPT ![t] = count[t]]
    BY <1>0, SMTT(20) DEF TraceInv, TraceTypeOK
  <2> HIDE DEF l, g
  <2> QED
    BY <1>0, <1>1, <2>1, <2>2, <2>3, <2>4, OwnTrace, Zenon
<1>2. CASE ~open[t]
  <2>1. UNCHANGED <<traceVars, app, core>>
    BY <1>0, <1>2, Zenon DEF LogPrim, traceVars, app
  <2> QED
    BY <2>1, TraceFrame, SMTT(20)
<1> QED
  BY <1>1, <1>2, SMTT(20)

----------------------------------------------------------------------------
(* Every step of the emulation is one of the library, or of the tracer.    *)
LEMMA AppsAre ==
  ASSUME Init
  PROVE  AppOK
BY AppsAssumption, Zenon DEF Init, AppOK

LEMMA EmulationStep ==
  ASSUME AppOK, [Next]_vars
  PROVE  [EmuNext]_emuVars /\ AppOK'
<1>1. UNCHANGED app
  BY DEF Next, vars
<1>2. AppOK'
  BY <1>1 DEF app, AppOK, IsInjective
<1>3. CASE UNCHANGED vars
  BY <1>2, <1>3 DEF vars
<1>4. CASE Setting
  <2>1. Setup
    BY <1>4 DEF Setting, Setup, AppOK
  <2> QED
    BY <1>2, <2>1, SMTT(20) DEF EmuNext
<1>5. ASSUME NEW t \in DOMAIN ids, NEW c \in EmuCalls, Primitive(t, c)
      PROVE  [EmuNext]_emuVars
  BY <1>5, Zenon DEF Primitive, EmuNext, AppOK
<1>6. ASSUME NEW t \in DOMAIN ids, Library(t) PROVE [EmuNext]_emuVars
  BY <1>6 DEF Library, EmuNext, AppOK
<1>7. ASSUME NEW t \in DOMAIN ids, Traced(t) PROVE [EmuNext]_emuVars
  BY <1>7 DEF Traced
<1> QED
  BY <1>2, <1>3, <1>4, <1>5, <1>6, <1>7, Zenon DEF Next

(* An emulated application, traced or not, uses the library as EmuLib      *)
(* says: what holds of the library alone holds when it is traced.          *)
THEOREM EmulationUsesLibrary == Spec => EmuSpec
<1>1. Init => EmuInit /\ AppOK
  BY AppsAre DEF Init
<1>2. AppOK /\ [Next]_vars => [EmuNext]_emuVars /\ AppOK'
  BY EmulationStep
<1> QED
  BY <1>1, <1>2, PTL DEF Spec, EmuSpec

(* The traces stay sound in every step. *)
LEMMA TraceStep ==
  ASSUME TraceInv, EmuInv, [Next]_vars
  PROVE  TraceInv'
<1>0. EmuTypeOK /\ UNCHANGED app
  BY SMTT(20) DEF EmuInv, Next, vars
<1>1. \A t \in DOMAIN ids : t \in Threads
  BY DEF TraceInv, AppOK
<1>2. CASE UNCHANGED vars
  <2>1. UNCHANGED <<traceVars, app, core>>
    BY <1>2 DEF vars, emuVars
  <2> QED
    BY <2>1, TraceFrame, SMTT(20)
<1>3. CASE Setting
  BY <1>0, <1>3, SettingTraced, SMTT(20)
<1>4. ASSUME NEW t \in DOMAIN ids, NEW c \in EmuCalls, Primitive(t, c) PROVE TraceInv'
  BY <1>0, <1>1, <1>4, PrimitiveTraced, SMTT(20)
<1>5. ASSUME NEW t \in DOMAIN ids, Library(t) PROVE TraceInv'
  <2>1. UNCHANGED <<traceVars, app, core>>
    BY <1>0, <1>5, Zenon
    DEF Library, CallFails, Enter, WakeUp, __push_mmap, __pop_mmap, __sleep, __wake
  <2> QED
    BY <2>1, TraceFrame
<1>6. ASSUME NEW t \in DOMAIN ids, Traced(t) PROVE TraceInv'
  BY <1>0, <1>1, <1>6, TracedStep, SMTT(20)
<1> QED
  BY <1>2, <1>3, <1>4, <1>5, <1>6, Zenon DEF Next

LEMMA TraceInitially ==
  ASSUME Init
  PROVE  TraceInv
<1>1. AppOK
  BY AppsAre
<1>2. EmuInit /\ TraceInit
  BY DEF Init
<1>3. \A t \in Threads : ~open[t] /\ core[t] = NoCore
  BY <1>2 DEF EmuInit, TraceInit
<1>4. \A p \in PEs : Ordered(log[p], prog[p])
  <2>1. Ordered(<<>>, <<>>)
    BY SoundEmpty, Zenon
  <2>2. \A p \in PEs : log[p] = <<>> /\ prog[p] = <<>>
    BY <1>2, SMTT(20) DEF TraceInit
  <2> QED
    BY <2>1, <2>2, Zenon
<1>5. TraceTypeOK
  BY <1>2 DEF TraceInit, TraceTypeOK
<1> QED
  BY <1>1, <1>3, <1>4, <1>5, SMTT(20) DEF TraceInv, OwnFile

LEMMA TraceInvHolds == Spec => [](TraceInv /\ EmuInv)
<1>1. Init => TraceInv /\ EmuInv
  BY TraceInitially, EmuInitially DEF Init
<1>2. TraceInv /\ EmuInv /\ [Next]_vars => (TraceInv /\ EmuInv)'
  <2> SUFFICES ASSUME TraceInv, EmuInv, [Next]_vars PROVE TraceInv' /\ EmuInv'
    OBVIOUS
  <2>1. AppOK
    BY DEF TraceInv
  <2> QED
    BY <2>1, TraceStep, EmulationStep, EmuStep, SMTT(20)
<1> QED
  BY <1>1, <1>2, PTL DEF Spec

(* The trace of a PE has the accesses to traced memory and the primitives  *)
(* of its program in their order, and while its log is open no compute     *)
(* instruction is lost between emit_stall, increment_stalls and the counts *)
(* of the compiler pass, that of its block and those of the blocks of its  *)
(* callers: for any programs, of any length.                               *)
THEOREM TracesAreFaithful == Spec => []TraceFaithful
<1>1. TraceInv => TraceFaithful
  <2> SUFFICES ASSUME TraceInv PROVE TraceFaithful
    OBVIOUS
  <2>1. \A p \in PEs : Ordered(log[p], prog[p])
    BY Zenon DEF TraceInv
  <2>2. CyclesKept
    BY SMTT(20) DEF TraceInv, Sound, CyclesKept
  <2> QED
    BY <2>1, <2>2, SMTT(20) DEF TraceFaithful
<1> QED
  BY <1>1, TraceInvHolds, PTL

----------------------------------------------------------------------------
(* Traces against each other.  Only a thread that has called primitives    *)
(* has them in its trace.  What the queues and the counters hold is what   *)
(* the calls that have returned left there, until the library is torn      *)
(* down.                                                                   *)
PrimSet(l) == {k \in DOMAIN l : l[k].entry = "PRIM"}

PrimsLogged(t) == t \in DOMAIN ids /\ ops[t] = 0 => PrimSet(log[ids[t]]) = {}

Finished(n, x) == Logged(n, x) - Inside(n, x)

QueuesBalance ==
  \A q \in QueuePairs : Finished("push", q) = Finished("pop", q) + Len(queue[q])

WakesBalance == \A p \in PEs : Finished("wake", p) = Finished("sleep", p) + Tokens[p]

ReplayInv ==
  traced => /\ \A t \in Threads : PrimsLogged(t)
            /\ up => inits > 0
            /\ ~up => \A t \in Threads : op[t] = Idle
            /\ WakesBalance
            /\ IF up \/ inits = 0 THEN QueuesBalance ELSE TracesReplayable

(* The sets the counts are taken of are finite. *)
LEMMA LoggedFinite ==
  ASSUME TraceTypeOK, NEW n, NEW x
  PROVE  IsFiniteSet(LoggedAt(n, x)) /\ Logged(n, x) \in Nat
<1> DEFINE F == [p \in PEs |-> {k \in DOMAIN log[p] : log[p][k].entry = "PRIM" /\ IsCall(log[p][k].call, n, x)}]
<1>1. LoggedAt(n, x) = UNION {{p} \X F[p] : p \in PEs}
  BY DEF LoggedAt
<1>2. ASSUME NEW p \in PEs PROVE IsFiniteSet(F[p])
  <2>1. log[p] \in Seq(Entries)
    BY DEF TraceTypeOK
  <2>2. Len(log[p]) \in Nat /\ F[p] \in SUBSET (1 .. Len(log[p]))
    BY <2>1
  <2> QED
    BY <2>2, FinitePositions, Zenon
<1> HIDE DEF F
<1>3. IsFiniteSet(UNION {{p} \X F[p] : p \in PEs})
  BY <1>2, EmuAssumption, FinitePairs, SMTT(20)
<1> QED
  BY <1>1, <1>3, FS_CardinalityType, SMTT(20) DEF Logged

LEMMA InsideFinite ==
  ASSUME NEW n, NEW x
  PROVE  IsFiniteSet(InsideAt(n, x)) /\ Inside(n, x) \in Nat
<1>1. InsideAt(n, x) \in SUBSET Threads
  BY DEF InsideAt
<1> QED
  BY <1>1, EmuAssumption, FS_Subset, FS_CardinalityType, SMTT(20) DEF Inside

(* In a balanced state the traces can be replayed. *)
LEMMA BalancedIsReplayable ==
  ASSUME TraceTypeOK, EmuInv, QueuesBalance, WakesBalance
  PROVE  TracesReplayable
<1>0. \A n, x : Logged(n, x) \in Nat /\ Inside(n, x) \in Nat
  BY LoggedFinite, InsideFinite, SMTT(20)
<1>1. ASSUME NEW q \in QueuePairs
      PROVE  /\ Logged("pop", q) - Inside("pop", q) <= Logged("push", q)
             /\ Logged("push", q) - Inside("push", q) <= Logged("pop", q) + Depth
  <2>1. Len(queue[q]) \in Nat /\ Len(queue[q]) <= Depth /\ Depth \in Nat
    BY EmuAssumption DEF EmuInv, EmuTypeOK
  <2>2. Logged("push", q) - Inside("push", q) = Logged("pop", q) - Inside("pop", q) + Len(queue[q])
    BY DEF QueuesBalance, Finished
  <2>3. /\ Logged("pop", q) \in Nat /\ Inside("pop", q) \in Nat
        /\ Logged("push", q) \in Nat /\ Inside("push", q) \in Nat
    BY <1>0
  <2> QED
    BY <2>1, <2>2, <2>3, SMTT(20)
<1>2. ASSUME NEW p \in PEs
      PROVE  Logged("sleep", p) - Inside("sleep", p) <= Logged("wake", p)
  <2>1. Cardinality(Sleepers(p)) \in Nat /\ sleep_cntr[p] \in Int
        /\ sleep_cntr[p] <= Cardinality(Sleepers(p))
    <3>1. Sleepers(p) \in SUBSET Threads
      BY DEF Sleepers
    <3> QED
      BY <3>1, Counting, SMTT(20) DEF EmuInv, EmuTypeOK, AsleepIsUnwoken
  <2>2. Tokens[p] \in Nat
    BY <2>1 DEF Tokens
  <2>3. Logged("wake", p) - Inside("wake", p) = Logged("sleep", p) - Inside("sleep", p) + Tokens[p]
    BY DEF WakesBalance, Finished
  <2>4. /\ Logged("wake", p) \in Nat /\ Inside("wake", p) \in Nat
        /\ Logged("sleep", p) \in Nat /\ Inside("sleep", p) \in Nat
    BY <1>0
  <2> QED
    BY <2>2, <2>3, <2>4, SMTT(20)
<1> QED
  BY <1>1, <1>2, SMTT(20) DEF TracesReplayable

(* Entries other than primitives do not count. *)
SamePrims(l, m) == PrimSet(m) = PrimSet(l) /\ \A k \in PrimSet(l) : m[k] = l[k]

LEMMA PrimsAppend ==
  ASSUME NEW l \in Seq(Entries), NEW e \in Entries, e.entry # "PRIM"
  PROVE  SamePrims(l, Append(l, e)) /\ Append(l, e) \in Seq(Entries)
<1> DEFINE n == Len(l) + 1
           m == Append(l, e)
<1>1. /\ m[n] = e /\ DOMAIN m = DOMAIN l \cup {n} /\ n \notin DOMAIN l
      /\ \A k \in DOMAIN l : m[k] = l[k]
  OBVIOUS
<1>2. m \in Seq(Entries)
  OBVIOUS
<1> HIDE DEF n, m
<1>3. SamePrims(l, m)
  BY <1>1, SMTT(20) DEF SamePrims, PrimSet
<1> QED
  BY <1>2, <1>3, SMTT(20) DEF m

LEMMA SameLogged ==
  ASSUME \A p \in PEs : SamePrims(log[p], log'[p]), NEW n, NEW x
  PROVE  LoggedAt(n, x)' = LoggedAt(n, x)
<1>1. ASSUME NEW p \in PEs
      PROVE  {k \in DOMAIN log'[p] : log'[p][k].entry = "PRIM" /\ IsCall(log'[p][k].call, n, x)}
               = {k \in DOMAIN log[p] : log[p][k].entry = "PRIM" /\ IsCall(log[p][k].call, n, x)}
  <2>1. SamePrims(log[p], log'[p])
    OBVIOUS
  <2> QED
    BY <2>1, Zenon DEF SamePrims, PrimSet
<1> QED
  BY <1>1 DEF LoggedAt

(* Steps that change no primitive of a trace, no call and no queue. *)
LEMMA BalanceFrame ==
  ASSUME \A p \in PEs : SamePrims(log[p], log'[p]), op' = op
  PROVE  /\ \A n, x : Finished(n, x)' = Finished(n, x)
         /\ TracesReplayable /\ traced' = traced => TracesReplayable'
         /\ QueuesBalance /\ queue' = queue => QueuesBalance'
         /\ WakesBalance /\ Tokens' = Tokens => WakesBalance'
<1>1. \A n, x : Logged(n, x)' = Logged(n, x)
  BY SameLogged, SMTT(20) DEF Logged
<1>2. \A n, x : Inside(n, x)' = Inside(n, x)
  BY DEF Inside, InsideAt
<1>3. \A n, x : Finished(n, x)' = Finished(n, x)
  BY <1>1, <1>2, SMTT(20) DEF Finished
<1>4. TracesReplayable /\ traced' = traced => TracesReplayable'
  BY <1>1, <1>2, SMTT(20) DEF TracesReplayable
<1>5. QueuesBalance /\ queue' = queue => QueuesBalance'
  BY <1>3, SMTT(20) DEF QueuesBalance
<1>6. WakesBalance /\ Tokens' = Tokens => WakesBalance'
  BY <1>3 DEF WakesBalance
<1> QED
  BY <1>3, <1>4, <1>5, <1>6, SMTT(20)

(* A call that returns. *)
LEMMA InsideReturn ==
  ASSUME EmuTypeOK, NEW t \in Threads, op[t] # Idle, op' = [op EXCEPT ![t] = Idle], NEW n, NEW x
  PROVE  Inside(n, x)' = Inside(n, x) - (IF IsCall(op[t], n, x) THEN 1 ELSE 0)
<1>1. op'[t] = Idle /\ \A u \in Threads : u # t => op'[u] = op[u]
  BY DEF EmuTypeOK
<1>2. InsideAt(n, x)' = InsideAt(n, x) \ {t}
  BY <1>1 DEF InsideAt
<1>3. t \in InsideAt(n, x) <=> IsCall(op[t], n, x)
  BY DEF InsideAt
<1>4. IsFiniteSet(InsideAt(n, x)) /\ Inside(n, x) \in Nat
  BY InsideFinite, SMTT(20)
<1>5. CASE IsCall(op[t], n, x)
  <2>1. Cardinality(InsideAt(n, x) \ {t}) = Cardinality(InsideAt(n, x)) - 1
    BY <1>3, <1>4, <1>5, FS_RemoveElement, Zenon
  <2> QED
    BY <1>2, <1>5, <2>1, SMTT(20) DEF Inside
<1>6. CASE ~IsCall(op[t], n, x)
  <2>1. InsideAt(n, x)' = InsideAt(n, x)
    BY <1>2, <1>3, <1>6, SMTT(20)
  <2> QED
    BY <1>4, <1>6, <2>1, SMTT(20) DEF Inside
<1> QED
  BY <1>5, <1>6, SMTT(20)

(* A call that has its effect returns: the balance moves with it. *)
LEMMA PerformBalanced ==
  ASSUME TraceTypeOK, EmuTypeOK, NEW t \in Threads, Prims!Perform(t), log' = log,
         QueuesBalance, WakesBalance
  PROVE  QueuesBalance' /\ WakesBalance'
<1> DEFINE d(n, x) == IF IsCall(op[t], n, x) THEN 1 ELSE 0
<1>1. op[t] # Idle /\ op' = [op EXCEPT ![t] = Idle]
  BY Zenon
  DEF Prims!Perform, Prims!DoPush, Prims!DoPop, Prims!DoSleep, Prims!DoWake, Prims!Is, Prims!Finish
<1>2. ASSUME NEW n, NEW x
      PROVE  Finished(n, x)' = Finished(n, x) + d(n, x) /\ Finished(n, x) \in Int
  <2>1. Inside(n, x)' = Inside(n, x) - d(n, x)
    BY <1>1, InsideReturn, Zenon
  <2>2. Logged(n, x)' = Logged(n, x)
    BY DEF Logged, LoggedAt
  <2>3. Logged(n, x) \in Nat /\ Inside(n, x) \in Nat
    BY LoggedFinite, InsideFinite, SMTT(20)
  <2> QED
    BY <2>1, <2>2, <2>3, SMTT(20) DEF Finished
<1>3. QueuesBalance'
  <2> SUFFICES ASSUME NEW q \in QueuePairs
               PROVE  Finished("push", q)' = Finished("pop", q)' + Len(queue'[q])
    BY DEF QueuesBalance
  <2>1. Finished("push", q) = Finished("pop", q) + Len(queue[q]) /\ Len(queue[q]) \in Nat
    BY DEF QueuesBalance, EmuTypeOK
  <2>2. /\ Finished("push", q)' = Finished("push", q) + d("push", q)
        /\ Finished("pop", q)' = Finished("pop", q) + d("pop", q)
        /\ Finished("push", q) \in Int /\ Finished("pop", q) \in Int
    BY <1>2, Zenon
  <2>3. Len(queue'[q]) = Len(queue[q]) + d("push", q) - d("pop", q)
    <3>0. queue[q] \in Seq(Data)
      BY DEF EmuTypeOK
    <3>1. CASE Prims!DoPush(t)
      <4>1. /\ op[t].name = "push" /\ op[t].q \in QueuePairs /\ op[t].data \in Data
            /\ queue' = [queue EXCEPT ![op[t].q] = Append(@, op[t].data)]
        BY <1>1, <3>1, CallShape, Zenon DEF Prims!DoPush, Prims!Is
      <4>2. d("pop", q) = 0 /\ d("push", q) = IF q = op[t].q THEN 1 ELSE 0
        BY <4>1, SMTT(20) DEF IsCall
      <4>3. queue'[q] = IF q = op[t].q THEN Append(queue[q], op[t].data) ELSE queue[q]
        BY <4>1 DEF EmuTypeOK
      <4>4. Len(Append(queue[q], op[t].data)) = Len(queue[q]) + 1
        BY <3>0, SMTT(20)
      <4> HIDE DEF d
      <4> QED
        BY <2>1, <4>2, <4>3, <4>4, SMTT(20)
    <3>2. CASE Prims!DoPop(t)
      <4>1. /\ op[t].name = "pop" /\ op[t].q \in QueuePairs /\ queue[op[t].q] # <<>>
            /\ queue' = [queue EXCEPT ![op[t].q] = Tail(@)]
        BY <1>1, <3>2, CallShape, Zenon DEF Prims!DoPop, Prims!Is
      <4>2. d("push", q) = 0 /\ d("pop", q) = IF q = op[t].q THEN 1 ELSE 0
        BY <4>1, SMTT(20) DEF IsCall
      <4>3. queue'[q] = IF q = op[t].q THEN Tail(queue[q]) ELSE queue[q]
        BY <4>1, SMTT(20) DEF EmuTypeOK
      <4>4. q = op[t].q => Len(Tail(queue[q])) = Len(queue[q]) - 1
        BY <3>0, <4>1, SMTT(20)
      <4> HIDE DEF d
      <4> QED
        BY <2>1, <4>2, <4>3, <4>4, SMTT(20)
    <3>3. CASE Prims!DoSleep(t) \/ Prims!DoWake(t)
      <4>1. op[t].name \in {"sleep", "wake"} /\ queue' = queue
        BY <3>3, Zenon DEF Prims!DoSleep, Prims!DoWake, Prims!Is
      <4>2. d("push", q) = 0 /\ d("pop", q) = 0
        BY <4>1 DEF IsCall
      <4> HIDE DEF d
      <4> QED
        BY <2>1, <4>1, <4>2, SMTT(20)
    <3> QED
      BY <3>1, <3>2, <3>3, Zenon DEF Prims!Perform
  <2>4. d("push", q) \in Int /\ d("pop", q) \in Int
    BY SMTT(20)
  <2> HIDE DEF d
  <2> QED
    BY <2>1, <2>2, <2>3, <2>4, SMTT(20)
<1>4. WakesBalance'
  <2> SUFFICES ASSUME NEW p \in PEs
               PROVE  Finished("wake", p)' = Finished("sleep", p)' + Tokens'[p]
    BY DEF WakesBalance
  <2>0. Tokens \in [PEs -> Int]
    <3>1. \A r \in PEs : Cardinality(Sleepers(r)) \in Nat
      BY Counting, Zenon DEF Sleepers
    <3> QED
      BY <3>1 DEF Tokens, EmuTypeOK
  <2>1. Finished("wake", p) = Finished("sleep", p) + Tokens[p] /\ Tokens[p] \in Int
    BY <2>0 DEF WakesBalance
  <2>2. /\ Finished("wake", p)' = Finished("wake", p) + d("wake", p)
        /\ Finished("sleep", p)' = Finished("sleep", p) + d("sleep", p)
        /\ Finished("wake", p) \in Int /\ Finished("sleep", p) \in Int
    BY <1>2, Zenon
  <2>3. Tokens'[p] = Tokens[p] + d("wake", p) - d("sleep", p)
    <3>1. CASE Prims!DoSleep(t)
      <4>1. /\ op[t].name = "sleep" /\ op[t].pe \in PEs
            /\ Tokens' = [Tokens EXCEPT ![op[t].pe] = @ - 1]
        BY <1>1, <3>1, CallShape, ZenonT(60) DEF Prims!DoSleep, Prims!Is, Tokens
      <4>2. d("wake", p) = 0 /\ d("sleep", p) = IF p = op[t].pe THEN 1 ELSE 0
        BY <4>1, SMTT(20) DEF IsCall
      <4>3. Tokens'[p] = IF p = op[t].pe THEN Tokens[p] - 1 ELSE Tokens[p]
        BY <2>0, <4>1, SMTT(20)
      <4> HIDE DEF d
      <4>4. CASE p = op[t].pe
        <5>1. d("sleep", p) = 1 /\ Tokens'[p] = Tokens[p] - 1
          BY <4>2, <4>3, <4>4, Zenon
        <5> QED
          BY <2>1, <4>2, <5>1, SMTT(20)
      <4>5. CASE p # op[t].pe
        <5>1. d("sleep", p) = 0 /\ Tokens'[p] = Tokens[p]
          BY <4>2, <4>3, <4>5, Zenon
        <5> QED
          BY <2>1, <4>2, <5>1, SMTT(20)
      <4> QED
        BY <4>4, <4>5, Zenon
    <3>2. CASE Prims!DoWake(t)
      <4>1. /\ op[t].name = "wake" /\ op[t].pe \in PEs
            /\ Tokens' = [Tokens EXCEPT ![op[t].pe] = @ + 1]
        BY <1>1, <3>2, CallShape, Zenon DEF Prims!DoWake, Prims!Is, Tokens
      <4>2. d("sleep", p) = 0 /\ d("wake", p) = IF p = op[t].pe THEN 1 ELSE 0
        BY <4>1, SMTT(20) DEF IsCall
      <4>3. Tokens'[p] = IF p = op[t].pe THEN Tokens[p] + 1 ELSE Tokens[p]
        BY <2>0, <4>1, SMTT(20)
      <4> HIDE DEF d
      <4>4. CASE p = op[t].pe
        <5>1. d("wake", p) = 1 /\ Tokens'[p] = Tokens[p] + 1
          BY <4>2, <4>3, <4>4, Zenon
        <5> QED
          BY <2>1, <4>2, <5>1, SMTT(20)
      <4>5. CASE p # op[t].pe
        <5>1. d("wake", p) = 0 /\ Tokens'[p] = Tokens[p]
          BY <4>2, <4>3, <4>5, Zenon
        <5> QED
          BY <2>1, <4>2, <5>1, SMTT(20)
      <4> QED
        BY <4>4, <4>5, Zenon
    <3>3. CASE Prims!DoPush(t) \/ Prims!DoPop(t)
      <4>1. op[t].name \in {"push", "pop"} /\ Tokens' = Tokens
        BY <3>3, SMTT(20) DEF Prims!DoPush, Prims!DoPop, Prims!Is, Tokens
      <4>2. d("wake", p) = 0 /\ d("sleep", p) = 0
        BY <4>1, SMTT(20) DEF IsCall
      <4> HIDE DEF d
      <4> QED
        BY <2>1, <4>1, <4>2, SMTT(20)
    <3> QED
      BY <3>1, <3>2, <3>3, Zenon DEF Prims!Perform
  <2>4. d("wake", p) \in Int /\ d("sleep", p) \in Int
    OBVIOUS
  <2> HIDE DEF d
  <2> QED
    BY <2>1, <2>2, <2>3, <2>4, SMTT(20)
<1> QED
  BY <1>3, <1>4, SMTT(20)

(* A call that begins is in the trace of its PE. *)
LEMMA PrimitiveCounted ==
  ASSUME TraceInv, EmuTypeOK, NEW t \in Threads, NEW c \in EmuCalls, traced, Primitive(t, c),
         NEW n, NEW x
  PROVE  Finished(n, x)' = Finished(n, x)
<1> USE Zenon
<1> DEFINE l == log[core[t]]
           e == <<core[t], Len(l) + 1>>
           At(g) == {k \in DOMAIN g : g[k].entry = "PRIM" /\ IsCall(g[k].call, n, x)}
<1>0. open[t] /\ at[t] = "out" /\ op' = [op EXCEPT ![t] = c]
  BY SMTT(20) DEF Primitive, Call
<1>1. core[t] \in PEs
  BY <1>0, AloneInPE, SMTT(20)
<1>2. log' = [log EXCEPT ![core[t]] = Append(l, PRIM(c))]
  BY <1>0, SMTT(20) DEF Primitive, LogPrim
<1>3. op[t] = Idle /\ c # Idle /\ op'[t] = c /\ \A u \in Threads : u # t => op'[u] = op[u]
  BY <1>0, CallShape, IdleAssumption, SMTT(20) DEF EmuTypeOK
<1>4. l \in Seq(Entries) /\ Len(l) \in Nat
  BY <1>1, SMTT(20) DEF TraceInv, TraceTypeOK
<1>5. /\ log'[core[t]] = Append(l, PRIM(c))
      /\ \A p \in PEs : p # core[t] => log'[p] = log[p]
  BY <1>1, <1>2, SMTT(20) DEF TraceInv, TraceTypeOK
<1>6. /\ IsCall(c, n, x) => At(Append(l, PRIM(c))) = At(l) \cup {Len(l) + 1}
      /\ ~IsCall(c, n, x) => At(Append(l, PRIM(c))) = At(l)
      /\ Len(l) + 1 \notin At(l)
  <2> DEFINE m == Append(l, PRIM(c))
             k1 == Len(l) + 1
  <2>1. /\ m[k1] = PRIM(c) /\ DOMAIN m = DOMAIN l \cup {k1} /\ k1 \notin DOMAIN l
        /\ \A k \in DOMAIN l : m[k] = l[k]
    BY <1>4, SMTT(20)
  <2>2. PRIM(c).entry = "PRIM" /\ PRIM(c).call = c
    BY SMTT(20) DEF PRIM
  <2> HIDE DEF m, k1, l
  <2>3. /\ IsCall(c, n, x) => At(m) = At(l) \cup {k1}
        /\ ~IsCall(c, n, x) => At(m) = At(l)
        /\ k1 \notin At(l)
    BY <2>1, <2>2
  <2> QED
    BY <2>3 DEF m, k1
<1>7. /\ LoggedAt(n, x) = UNION {{p} \X At(log[p]) : p \in PEs}
      /\ LoggedAt(n, x)' = UNION {{p} \X At(log'[p]) : p \in PEs}
  BY DEF LoggedAt
<1>8. IsFiniteSet(LoggedAt(n, x)) /\ IsFiniteSet(InsideAt(n, x))
      /\ Logged(n, x) \in Nat /\ Inside(n, x) \in Nat
  BY LoggedFinite, InsideFinite DEF TraceInv
<1>9. CASE IsCall(c, n, x)
  <2>1. LoggedAt(n, x)' = LoggedAt(n, x) \cup {e} /\ e \notin LoggedAt(n, x)
    <3>1. At(log'[core[t]]) = At(log[core[t]]) \cup {Len(l) + 1} /\ Len(l) + 1 \notin At(log[core[t]])
      BY <1>5, <1>6, <1>9
    <3>2. \A p \in PEs : p # core[t] => At(log'[p]) = At(log[p])
      BY <1>5
    <3> HIDE DEF At, l
    <3> DEFINE F == [p \in PEs |-> At(log[p])]
               G == [p \in PEs |-> At(log'[p])]
    <3>3. /\ G[core[t]] = F[core[t]] \cup {Len(l) + 1} /\ Len(l) + 1 \notin F[core[t]]
          /\ \A p \in PEs : p # core[t] => G[p] = F[p]
      BY <1>1, <3>1, <3>2
    <3>4. LoggedAt(n, x) = Pairs(PEs, F) /\ LoggedAt(n, x)' = Pairs(PEs, G)
      BY <1>7 DEF Pairs
    <3> HIDE DEF F, G
    <3> DEFINE w == Len(l) + 1
    <3>5. Grown(PEs, F, G, core[t], w)
      BY <1>1, <3>3 DEF Grown
    <3> HIDE DEF w
    <3>6. Pairs(PEs, G) = Pairs(PEs, F) \cup {<<core[t], w>>} /\ <<core[t], w>> \notin Pairs(PEs, F)
      BY <3>5, PairsGrow
    <3> QED
      BY <3>4, <3>6 DEF w
  <2>2. InsideAt(n, x)' = InsideAt(n, x) \cup {t} /\ t \notin InsideAt(n, x)
    BY <1>3, <1>9, SMTT(20) DEF InsideAt
  <2>3. Logged(n, x)' = Logged(n, x) + 1
    <3> HIDE DEF e
    <3> QED
      BY <1>8, <2>1, FS_AddElement DEF Logged
  <2>4. Inside(n, x)' = Inside(n, x) + 1
    BY <1>8, <2>2, FS_AddElement DEF Inside
  <2> QED
    BY <1>8, <2>3, <2>4, SMTT(20) DEF Finished
<1>10. CASE ~IsCall(c, n, x)
  <2>1. LoggedAt(n, x)' = LoggedAt(n, x)
    <3>1. \A p \in PEs : At(log'[p]) = At(log[p])
      BY <1>5, <1>6, <1>10, ZenonT(60)
    <3> HIDE DEF At
    <3> QED
      BY <1>7, <3>1, SMTT(20)
  <2>2. InsideAt(n, x)' = InsideAt(n, x)
    BY <1>3, <1>10, SMT DEF InsideAt
  <2> QED
    BY <2>1, <2>2, SMTT(20) DEF Finished, Logged, Inside
<1> QED
  BY <1>9, <1>10, SMTT(20)

(* What a step of the library does to the primitives it implements. *)
LEMMA RefineCases ==
  ASSUME EmuTypeOK, Refines
  PROVE  \/ op' = op /\ Tokens' = Tokens
         \/ \E t \in Threads : Prims!Perform(t)
         \/ /\ Tokens' = Tokens /\ queue' = queue
            /\ \E t \in Threads : op[t] = Idle /\ op'[t] # Idle
<1>1. CASE UNCHANGED Prims!primVars
  BY <1>1, SMTT(20) DEF Prims!primVars, Tokens
<1>2. CASE Prims!Reset
  BY <1>2, SMTT(20) DEF Prims!Reset, Tokens
<1>3. ASSUME NEW t \in Threads, NEW c \in Prims!Calls, Prims!Begin(t, c)
      PROVE  /\ Tokens' = Tokens /\ queue' = queue
             /\ op[t] = Idle /\ op'[t] # Idle
  BY <1>3, IdleAssumption, SMTT(20) DEF Prims!Begin, Tokens, EmuTypeOK, EmuCalls
<1> QED
  BY <1>1, <1>2, <1>3, SMTT(20) DEF Refines, Prims!PNext

LEMMA PrimitiveReplay ==
  ASSUME TraceInv, EmuInv, Refines, ReplayInv, traced,
         NEW t \in Threads, NEW c \in EmuCalls, Primitive(t, c), UNCHANGED app
  PROVE  ReplayInv'
<1>0. EmuTypeOK /\ up /\ UNCHANGED <<up, inits, queue, traced, ids>>
  BY Zenon DEF EmuInv, Primitive, Call, app
<1>1. /\ at[t] = "out" /\ op' = [op EXCEPT ![t] = c] /\ open[t]
      /\ ops' = [ops EXCEPT ![t] = @ + 1]
  BY Zenon DEF Primitive, Call
<1>2. op[t] = Idle /\ op'[t] = c /\ c # Idle
  BY <1>0, <1>1, CallShape, IdleAssumption, SMTT(20) DEF EmuTypeOK
<1>3. Tokens' = Tokens
  <2>1. ~(op' = op)
    BY <1>2, SMTT(20)
  <2>2. ASSUME NEW u \in Threads, Prims!Perform(u) PROVE FALSE
    <3>1. op[u] # Idle /\ op' = [op EXCEPT ![u] = Idle]
      BY <2>2, Zenon
      DEF Prims!Perform, Prims!DoPush, Prims!DoPop, Prims!DoSleep, Prims!DoWake,
                  Prims!Is, Prims!Finish
    <3>2. op'[t] = Idle
      BY <1>0, <1>2, <3>1, SMTT(20) DEF EmuTypeOK
    <3> QED
      BY <1>2, <3>2, SMTT(20)
  <2> QED
    BY <1>0, <2>1, <2>2, RefineCases, SMTT(20)
<1>4. \A n, x : Finished(n, x)' = Finished(n, x)
  BY <1>0, PrimitiveCounted, SMTT(20)
<1>5. QueuesBalance' /\ WakesBalance'
  BY <1>0, <1>3, <1>4, SMTT(20) DEF QueuesBalance, WakesBalance, ReplayInv
<1>6. ASSUME NEW u \in Threads PROVE PrimsLogged(u)'
  <2>0. PrimsLogged(u)
    BY SMTT(20) DEF ReplayInv
  <2>1. CASE u = t
    BY <1>0, <1>1, <2>1, SMTT(20) DEF PrimsLogged, EmuTypeOK
  <2>2. CASE u # t
    <3>1. ops'[u] = ops[u]
      BY <1>0, <1>1, <2>2, SMTT(20) DEF EmuTypeOK
    <3>2. u \in DOMAIN ids => ids[u] # core[t] /\ ids[u] \in PEs
      <4>1. core[t] \in PEs /\ core[t] # NoCore
        BY <1>0, <1>1, AloneInPE, EmuAssumption, SMTT(20)
      <4> QED
        BY <2>2, <4>1, Zenon DEF TraceInv, OwnFile, AppOK, IsInjective
    <3>3. u \in DOMAIN ids => log'[ids[u]] = log[ids[u]]
      BY <1>1, <3>2, Zenon DEF Primitive, LogPrim, TraceInv, TraceTypeOK
    <3> QED
      BY <1>0, <2>0, <3>1, <3>3, Zenon DEF PrimsLogged
  <2> QED
    BY <2>1, <2>2, SMTT(20)
<1> QED
  BY <1>0, <1>5, <1>6, Zenon DEF ReplayInv

(* A step of the library inside a call. *)
LEMMA LibraryReplay ==
  ASSUME TraceInv, EmuInv, Refines, ReplayInv, traced,
         NEW t \in Threads, Library(t), UNCHANGED app
  PROVE  ReplayInv'
<1>0. EmuTypeOK /\ UNCHANGED <<up, inits, log, traced, ids>>
  BY Zenon
  DEF EmuInv, Library, CallFails, Enter, WakeUp, __push_mmap, __pop_mmap, __sleep, __wake,
         app, traceVars
<1>1. ASSUME NEW u \in Threads PROVE PrimsLogged(u)'
  <2>1. ops'[u] = 0 => ops[u] = 0
    <3>1. ops' = ops \/ ops' = [ops EXCEPT ![t] = @ + 1]
      BY Zenon
      DEF Library, CallFails, Enter, WakeUp, __push_mmap, __pop_mmap, __sleep, __wake
    <3> QED
      BY <1>0, <3>1, SMTT(20) DEF EmuTypeOK
  <2> QED
    BY <1>0, <2>1, SMTT(20) DEF ReplayInv, PrimsLogged
<1>2. /\ up
      /\ op' = op \/ op' = [op EXCEPT ![t] = Idle]
      /\ op' = op => queue' = queue
  <2>1. CASE CallFails(t)
    BY <2>1, Zenon DEF CallFails
  <2>2. CASE WakeUp(t)
    <3>1. op[t] # Idle
      BY <1>0, <2>2, CallShape, Zenon DEF WakeUp
    <3> QED
      BY <2>2, <3>1 DEF WakeUp, ReplayInv
  <2>3. CASE Enter(t)
    <3>1. op[t] # Idle
      BY <2>3, Zenon DEF Enter, __push_mmap, __pop_mmap, __sleep, __wake, Wants
    <3>2. \/ op' = op /\ queue' = queue
          \/ op' = [op EXCEPT ![t] = Idle]
      BY <2>3, Zenon
      DEF Enter, __push_mmap, __pop_mmap, __sleep, __wake, Wait, Return
    <3>3. op' = [op EXCEPT ![t] = Idle] => op' # op
      BY <1>0, <3>1, SMTT(20) DEF EmuTypeOK
    <3> QED
      BY <3>1, <3>2, <3>3, SMTT(20) DEF ReplayInv
  <2> QED
    BY <2>1, <2>2, <2>3, SMTT(20) DEF Library
<1>3. TraceTypeOK /\ QueuesBalance /\ WakesBalance
  BY <1>2, Zenon DEF TraceInv, ReplayInv
<1>4. QueuesBalance' /\ WakesBalance'
  <2>1. CASE op' = op /\ Tokens' = Tokens
    <3>1. \A p \in PEs : SamePrims(log[p], log'[p])
      BY <1>0 DEF SamePrims
    <3> QED
      BY <1>2, <1>3, <2>1, <3>1, BalanceFrame, Zenon
  <2>2. ASSUME NEW u \in Threads, Prims!Perform(u) PROVE QueuesBalance' /\ WakesBalance'
    BY <1>0, <1>3, <2>2, PerformBalanced, SMTT(20)
  <2>3. ~\E u \in Threads : op[u] = Idle /\ op'[u] # Idle
    BY <1>0, <1>2, SMTT(20) DEF EmuTypeOK
  <2> QED
    BY <1>0, <2>1, <2>2, <2>3, RefineCases, SMTT(20)
<1> QED
  BY <1>0, <1>1, <1>2, <1>4, SMTT(20) DEF ReplayInv

(* Instructions, and calls of the tracer, log no primitive. *)
LEMMA RuntimePrims ==
  ASSUME NEW l \in Seq(Entries), NEW s \in Nat, NEW n \in Nat, NEW in \in BOOLEAN, NEW r,
         r = [log |-> l, stalls |-> s]
  PROVE  /\ SamePrims(l, r.log)
         /\ SamePrims(l, increment_stalls(r, n, FALSE).log)
         /\ SamePrims(l, increment_stalls(r, n, TRUE).log)
         /\ SamePrims(l, increment_stalls(emit_access(r, in), n, FALSE).log)
<1>1. /\ STALL(s, FALSE) \in Entries /\ STALL(s, FALSE).entry # "PRIM"
      /\ STALL(n, TRUE) \in Entries /\ STALL(n, TRUE).entry # "PRIM"
      /\ MEM \in Entries /\ MEM.entry # "PRIM"
  BY EntryTypes, Zenon
<1>2. SamePrims(l, l)
  BY DEF SamePrims
<1>3. PICK m \in Seq(Entries) : emit_stall(r).log = m /\ SamePrims(l, m)
  <2>1. CASE s > 0
    BY <1>1, <2>1, PrimsAppend, Zenon DEF emit_stall
  <2>2. CASE ~(s > 0)
    BY <1>2, <2>2 DEF emit_stall
  <2> QED
    BY <2>1, <2>2
<1>4. SamePrims(l, Append(m, STALL(n, TRUE))) /\ SamePrims(l, Append(m, MEM))
  <2>1. SamePrims(m, Append(m, STALL(n, TRUE))) /\ SamePrims(m, Append(m, MEM))
    BY <1>1, PrimsAppend, Zenon
  <2> QED
    BY <1>3, <2>1, Zenon DEF SamePrims
<1>5. increment_stalls(r, n, FALSE).log = l /\ r.log = l
  BY DEF increment_stalls
<1>6. increment_stalls(r, n, TRUE).log = Append(m, STALL(n, TRUE))
  BY <1>3, Zenon DEF increment_stalls
<1>7. increment_stalls(emit_access(r, in), n, FALSE).log = IF in THEN Append(m, MEM) ELSE l
  <2>1. emit_stall(r) = [log |-> m, stalls |-> 0] \/ emit_stall(r) = [log |-> m, stalls |-> s]
    BY <1>3, Zenon DEF emit_stall
  <2> QED
    BY <2>1 DEF increment_stalls, emit_access
<1> QED
  BY <1>2, <1>4, <1>5, <1>6, <1>7, Zenon

LEMMA TracedPrims ==
  ASSUME TraceInv, EmuTypeOK, NEW t \in Threads, Traced(t),
         \A u \in Threads : PrimsLogged(u)
  PROVE  \A p \in PEs : SamePrims(log[p], log'[p])
<1> USE Zenon
<1> DEFINE l == log[core[t]]
<1>0. \A p \in PEs : SamePrims(log[p], log[p])
  BY SMTT(20) DEF SamePrims
<1>1. stalls[t] \in Nat /\ count[t] \in Nat /\ count[t] + 1 \in Nat
  BY SMTT(20) DEF TraceInv, TraceTypeOK
<1>2. core[t] # NoCore /\ core[t] \in PEs /\ l \in Seq(Entries)
  <2>1. core[t] # NoCore
    BY DEF Traced, __open_trace_log, __close_trace_log, Compute, ComputeOnLoaded, EndOfBlock,
           Access, CallFunction, ReturnToCaller, Instruction, Executes
  <2> QED
    BY <2>1, SMTT(20) DEF TraceInv, TraceTypeOK, EmuTypeOK
<1>3. ASSUME NEW m, log' = [log EXCEPT ![core[t]] = m], SamePrims(l, m)
      PROVE  \A p \in PEs : SamePrims(log[p], log'[p])
  <2>1. log'[core[t]] = m /\ \A p \in PEs : p # core[t] => log'[p] = log[p]
    BY <1>2, <1>3, SMTT(20) DEF TraceInv, TraceTypeOK
  <2> QED
    BY <1>0, <1>3, <2>1
<1>4. ASSUME NEW i, NEW n, NEW r, NEW k, Instruction(t, i, n, r, k), SamePrims(l, r.log)
      PROVE  \A p \in PEs : SamePrims(log[p], log'[p])
  <2>1. CASE open[t]
    BY <1>3, <1>4, <2>1 DEF Instruction
  <2>2. CASE ~open[t]
    BY <1>0, <1>4, <2>2 DEF Instruction
  <2> QED
    BY <2>1, <2>2, SMTT(20)
<1>5. \A n \in Nat, in \in BOOLEAN :
        /\ SamePrims(l, Runtime(t).log)
        /\ SamePrims(l, increment_stalls(Runtime(t), n, FALSE).log)
        /\ SamePrims(l, increment_stalls(Runtime(t), n, TRUE).log)
        /\ SamePrims(l, increment_stalls(emit_access(Runtime(t), in), n, FALSE).log)
  <2> HIDE DEF l
  <2>1. Runtime(t) = [log |-> l, stalls |-> stalls[t]]
    BY SMT DEF Runtime, l
  <2> QED
    BY <1>1, <1>2, <2>1, RuntimePrims
<1>6. CASE __open_trace_log(t)
  <2>1. ops[t] = 0 /\ log' = [log EXCEPT ![core[t]] = <<>>]
    BY <1>6, SMTT(20) DEF __open_trace_log
  <2>2. PrimSet(l) = {}
    BY <1>2, <2>1 DEF TraceInv, OwnFile, PrimsLogged
  <2>3. SamePrims(l, <<>>)
    BY <2>2, SMT DEF SamePrims, PrimSet
  <2> QED
    BY <1>3, <2>1, <2>3
<1>7. CASE __close_trace_log(t)
  <2>1. SamePrims(l, Append(l, EOF))
    <3>1. EOF \in Entries /\ EOF.entry # "PRIM"
      BY EntryTypes, SMTT(20)
    <3> QED
      BY <1>2, <3>1, PrimsAppend
  <2> QED
    BY <1>3, <1>7, <2>1 DEF __close_trace_log
<1> HIDE DEF l
<1>8. CASE Compute(t)
  BY <1>1, <1>4, <1>5, <1>8 DEF Compute
<1>9. CASE ComputeOnLoaded(t)
  BY <1>1, <1>4, <1>5, <1>9 DEF ComputeOnLoaded
<1>10. CASE EndOfBlock(t)
  BY <1>1, <1>4, <1>5, <1>10 DEF EndOfBlock
<1>11. ASSUME NEW in \in BOOLEAN, Access(t, in)
       PROVE  \A p \in PEs : SamePrims(log[p], log'[p])
  BY <1>1, <1>4, <1>5, <1>11 DEF Access
<1>12. CASE CallFunction(t) \/ ReturnToCaller(t)
  BY <1>0, <1>12 DEF CallFunction, ReturnToCaller
<1> QED
  BY <1>6, <1>7, <1>8, <1>9, <1>10, <1>11, <1>12 DEF Traced

(* Steps that call no primitive and perform none. *)
LEMMA ReplayFrame ==
  ASSUME TraceInv, ReplayInv, traced, \A p \in PEs : SamePrims(log[p], log'[p]),
         UNCHANGED <<up, inits, op, queue, ops, app>>, Tokens' = Tokens
  PROVE  ReplayInv'
<1>0. traced' = traced /\ ids' = ids
  BY DEF app
<1>1. /\ QueuesBalance => QueuesBalance'
      /\ WakesBalance => WakesBalance'
      /\ TracesReplayable => TracesReplayable'
  BY <1>0, BalanceFrame, Zenon
<1>2. ASSUME NEW t \in Threads PROVE PrimsLogged(t)'
  <2>1. PrimsLogged(t) /\ (t \in DOMAIN ids => ids[t] \in PEs)
    BY Zenon DEF ReplayInv, TraceInv, AppOK
  <2>2. t \in DOMAIN ids => PrimSet(log'[ids[t]]) = PrimSet(log[ids[t]])
    BY <2>1 DEF SamePrims
  <2> QED
    BY <1>0, <2>1, <2>2, SMTT(20) DEF PrimsLogged
<1> QED
  BY <1>1, <1>2, SMTT(20) DEF ReplayInv

(* The library is set up once, and torn down when no thread is inside. *)
LEMMA SettingReplay ==
  ASSUME TraceInv, EmuInv, ReplayInv, traced, Setting, UNCHANGED app
  PROVE  ReplayInv'
<1>0. EmuTypeOK /\ TraceTypeOK /\ UNCHANGED <<log, op, traced, ids>> /\ ops' = ops
  BY Zenon
  DEF EmuInv, TraceInv, Setting, traceVars, app, __init, __teardown, __register_core_id
<1>1. Tokens' = Tokens
  BY Zenon DEF Setting, __init, __teardown, __register_core_id, Tokens, Sleepers
<1>2. \A p \in PEs : SamePrims(log[p], log'[p])
  BY <1>0, SMTT(20) DEF SamePrims
<1>3. \A t \in Threads : PrimsLogged(t)'
  BY <1>0, SMTT(20) DEF ReplayInv, PrimsLogged
<1>4. WakesBalance'
  BY <1>0, <1>1, <1>2, BalanceFrame, SMTT(20) DEF ReplayInv
<1>5. CASE __init /\ inits = 0
  <2>1. up' /\ inits' > 0 /\ queue' = queue
    BY <1>5, SMTT(20) DEF __init
  <2>2. QueuesBalance'
    BY <1>0, <1>2, <1>5, <2>1, BalanceFrame, SMTT(20) DEF ReplayInv
  <2> QED
    BY <1>3, <1>4, <2>1, <2>2, SMTT(20) DEF ReplayInv
<1>6. CASE __teardown
  <2>1. up /\ ~up' /\ inits' = inits /\ NoneInside
    BY <1>6, SMTT(20) DEF __teardown
  <2>2. inits > 0 /\ QueuesBalance /\ WakesBalance
    BY <2>1, SMTT(20) DEF ReplayInv
  <2>3. inits # 0
    BY <1>0, <2>2, SMTT(20) DEF EmuTypeOK
  <2>4. TracesReplayable
    BY <1>0, <2>2, BalancedIsReplayable, SMTT(20)
  <2>5. TracesReplayable'
    BY <1>0, <1>2, <2>4, BalanceFrame, SMTT(20)
  <2>6. \A t \in Threads : op'[t] = Idle
    BY <1>0, <2>1, CallShape, Zenon DEF NoneInside
  <2> QED
    BY <1>3, <1>4, <2>1, <2>3, <2>5, <2>6, Zenon DEF ReplayInv
<1>7. ASSUME NEW t \in DOMAIN ids, __register_core_id(t, ids[t]) PROVE ReplayInv'
  <2>1. UNCHANGED <<up, inits, op, queue, ops, app>>
    BY <1>7 DEF __register_core_id
  <2> QED
    BY <1>1, <1>2, <2>1, ReplayFrame, SMTT(20)
<1> QED
  BY <1>5, <1>6, <1>7, SMTT(20) DEF Setting

LEMMA ReplayStep ==
  ASSUME TraceInv, EmuInv, ReplayInv, [Next]_vars
  PROVE  ReplayInv'
<1> USE Zenon
<1>0. EmuTypeOK /\ UNCHANGED app /\ traced' = traced
  BY SMT DEF EmuInv, Next, vars, app
<1>1. SUFFICES ASSUME traced PROVE ReplayInv'
  BY <1>0 DEF ReplayInv
<1>2. Refines
  BY EmulationStep, EmuStep DEF TraceInv
<1>3. \A t \in DOMAIN ids : t \in Threads
  BY DEF TraceInv, AppOK
<1>4. CASE UNCHANGED vars
  <2>1. UNCHANGED <<up, inits, op, queue, ops, app>> /\ Tokens' = Tokens /\ log' = log
    BY <1>4 DEF vars, emuVars, traceVars, Tokens, Sleepers
  <2>2. \A p \in PEs : SamePrims(log[p], log'[p])
    BY <2>1, SMTT(20) DEF SamePrims
  <2> QED
    BY <1>1, <2>1, <2>2, ReplayFrame, SMTT(20)
<1>5. CASE Setting
  BY <1>0, <1>1, <1>5, SettingReplay, SMTT(20)
<1>6. ASSUME NEW t \in DOMAIN ids, NEW c \in EmuCalls, Primitive(t, c) PROVE ReplayInv'
  BY <1>0, <1>1, <1>2, <1>3, <1>6, PrimitiveReplay, SMTT(20)
<1>7. ASSUME NEW t \in DOMAIN ids, Library(t) PROVE ReplayInv'
  BY <1>0, <1>1, <1>2, <1>3, <1>7, LibraryReplay, SMTT(20)
<1>8. ASSUME NEW t \in DOMAIN ids, Traced(t) PROVE ReplayInv'
  <2>1. UNCHANGED <<up, inits, op, queue, ops, app>> /\ Tokens' = Tokens
    BY <1>0, <1>8 DEF Traced, emuVars, Tokens, Sleepers
  <2>2. \A p \in PEs : SamePrims(log[p], log'[p])
    BY <1>0, <1>1, <1>3, <1>8, TracedPrims DEF ReplayInv
  <2> QED
    BY <1>1, <2>1, <2>2, ReplayFrame
<1> QED
  BY <1>4, <1>5, <1>6, <1>7, <1>8 DEF Next

LEMMA ReplayInitially ==
  ASSUME Init
  PROVE  ReplayInv
<1>1. /\ ~up /\ inits = 0 /\ \A t \in Threads : op[t] = Idle
      /\ queue = [q \in QueuePairs |-> <<>>] /\ sleep_cntr = [p \in PEs |-> 0]
      /\ log = [p \in PEs |-> <<>>]
  BY DEF Init, EmuInit, TraceInit, NoQueues
<1>2. AppOK
  BY AppsAre
<1>3. PrimSet(<<>>) = {} /\ Len(<<>>) = 0 /\ Cardinality({}) = 0
  BY FS_EmptySet DEF PrimSet
<1>4. \A t \in Threads : PrimsLogged(t)
  BY <1>1, <1>2, <1>3, Zenon DEF PrimsLogged, AppOK
<1>5. ASSUME NEW n, NEW x PROVE Finished(n, x) = 0
  <2>1. InsideAt(n, x) = {}
    BY <1>1, Zenon DEF InsideAt
  <2>2. \A p \in PEs : DOMAIN log[p] = {}
    BY <1>1
  <2>3. LoggedAt(n, x) = {}
    BY <2>2, Zenon DEF LoggedAt
  <2> QED
    BY <1>3, <2>1, <2>3, SMTT(20) DEF Finished, Inside, Logged
<1>6. QueuesBalance
  BY <1>1, <1>3, <1>5, SMTT(20) DEF QueuesBalance
<1>7. WakesBalance
  <2>1. \A p \in PEs : Sleepers(p) = {}
    BY <1>1 DEF Sleepers
  <2>2. \A p \in PEs : Cardinality(Sleepers(p)) = 0 /\ sleep_cntr[p] = 0
    BY <1>1, <1>3, <2>1, Zenon
  <2>3. \A p \in PEs : Tokens[p] = 0
    BY <2>2 DEF Tokens
  <2> QED
    BY <1>5, <2>3, SMTT(20) DEF WakesBalance
<1> QED
  BY <1>1, <1>4, <1>6, <1>7, SMTT(20) DEF ReplayInv

(* The traces of an emulation can be replayed together, at any time, for   *)
(* any number of PEs, threads, calls and queue depth: every POP and SLEEP  *)
(* of a trace that came back has the PUSH or WAKE it needs in some trace,  *)
(* and at most Depth PUSHes are left in a queue.  What the traces say has  *)
(* been done is what the queues and the sleep counters hold.               *)
THEOREM TracesCanBeReplayed == Spec => []TracesReplayable
<1>1. Init => ReplayInv
  BY ReplayInitially
<1>2. TraceInv /\ EmuInv /\ ReplayInv /\ [Next]_vars => ReplayInv'
  BY ReplayStep
<1>3. TraceInv /\ EmuInv /\ ReplayInv => TracesReplayable
  <2> SUFFICES ASSUME TraceInv, EmuInv, ReplayInv, traced PROVE TracesReplayable
    BY DEF TracesReplayable
  <2> QED
    BY BalancedIsReplayable, Zenon DEF TraceInv, ReplayInv
<1>4. Spec => [](TraceInv /\ EmuInv)
  BY TraceInvHolds
<1> QED
  BY <1>1, <1>2, <1>3, <1>4, PTL DEF Spec
=============================================================================
