------------------------------- MODULE Tracer -------------------------------
(***************************************************************************)
(* The tracer (scripts/generate_model.py): the calls its LLVM pass puts in *)
(* front of the instructions of an application, and the runtime they call, *)
(* which writes one trace per PE.                                          *)
(*                                                                         *)
(* The pass counts compute instructions along a basic block.  In front of  *)
(* a load or store it puts, in this order, emit_load or emit_store and, if *)
(* the count is not 0, increment_stalls(count); in front of a compute      *)
(* instruction that uses a loaded value increment_stalls(count, deps); in  *)
(* front of the end of the block increment_stalls(count); in front of a    *)
(* primitive the function that logs it.  `count' is where a thread is in   *)
(* the counting of its current block.  A call of another function neither  *)
(* counts nor takes the count: the block it is in has its count pending in *)
(* `callers' until the function returns.                                   *)
(*                                                                         *)
(* A step is an instruction with the calls in front of it: they touch the  *)
(* state of the calling thread and the trace of its own PE only, under     *)
(* log_mutex and stall_mutex.  Addresses, values and program counters are  *)
(* left out; an access is either to traced memory or not (shouldTranslate).*)
(***************************************************************************)
EXTENDS EmuLib

CONSTANT MaxWork    \* bound: per thread, instructions and primitives together

VARIABLES
    open,       \* trace_bools
    files,      \* traceFiles: the PEs whose trace is open for writing
    log,        \* the trace file of each PE
    stalls,     \* stall_counts
    count,      \* the pass's stall_count at the thread's instruction
    callers,    \* and in the blocks its callers are in, the outermost first
    prog,       \* what the thread of each PE executed since it opened its log
    work        \* instructions so far

traceVars == <<open, files, log, stalls, count, callers, prog, work>>

STALL(n, dep) == [entry |-> "STALL", cycles |-> n, deps |-> dep]
MEM == [entry |-> "MEM"]
PRIM(c) == [entry |-> "PRIM", call |-> c]
EOF == [entry |-> "EOF"]

TraceInit ==
    /\ open = [t \in Threads |-> FALSE]
    /\ files = {}
    /\ log = [p \in PEs |-> <<>>]
    /\ stalls = [t \in Threads |-> 0]
    /\ count = [t \in Threads |-> 0]
    /\ callers = [t \in Threads |-> <<>>]
    /\ prog = [p \in PEs |-> <<>>]
    /\ work = [t \in Threads |-> 0]

-----------------------------------------------------------------------------
(* The runtime, on r = the trace and the stall count of an open log.       *)

emit_stall(r) ==
    IF r.stalls > 0 THEN [log |-> Append(r.log, STALL(r.stalls, FALSE)), stalls |-> 0] ELSE r

\* The stalls before the dependent ones are overwritten, not written.
DepStallsOnly(r, n, dep) ==
    IF dep THEN [log |-> Append(r.log, STALL(n, TRUE)), stalls |-> 0]
           ELSE [r EXCEPT !.stalls = @ + n]

increment_stalls(r, n, dep) ==
    IF dep THEN [log |-> Append(emit_stall(r).log, STALL(n, TRUE)), stalls |-> 0]
           ELSE [r EXCEPT !.stalls = @ + n]

emit_access(r, traced) ==
    IF traced THEN [emit_stall(r) EXCEPT !.log = Append(@, MEM)] ELSE r

\* A closed log clears the count of stalls without dependences.
Closed(t, n, dep) == IF n > 0 /\ ~dep THEN 0 ELSE stalls[t]

-----------------------------------------------------------------------------
(* Instructions.                                                           *)

Runtime(t) == [log |-> log[core[t]], stalls |-> stalls[t]]

Item(i) == [item |-> i]

Executes(t) == up /\ ~failed /\ at[t] = "out" /\ core[t] # NoCore

\* The thread's instruction i, after which the count is n and an open log r.
Instruction(t, i, n, r, closed) ==
    /\ Executes(t) /\ work[t] + ops[t] < MaxWork[t]
    /\ work' = [work EXCEPT ![t] = @ + 1]
    /\ count' = [count EXCEPT ![t] = n]
    /\ IF open[t]
       THEN /\ log' = [log EXCEPT ![core[t]] = r.log]
            /\ stalls' = [stalls EXCEPT ![t] = r.stalls]
            /\ prog' = [prog EXCEPT ![core[t]] = Append(@, Item(i))]
       ELSE /\ stalls' = [stalls EXCEPT ![t] = closed]
            /\ UNCHANGED <<log, prog>>
    /\ UNCHANGED <<open, files, callers>>

Compute(t) == Instruction(t, "compute", count[t] + 1, Runtime(t), stalls[t])

ComputeOnLoaded(t) ==
    Instruction(t, "dependent", 0, increment_stalls(Runtime(t), count[t] + 1, TRUE),
                Closed(t, count[t] + 1, TRUE))

Access(t, traced) ==
    Instruction(t, IF traced THEN "access" ELSE "local", 0,
                increment_stalls(emit_access(Runtime(t), traced), count[t], FALSE),
                Closed(t, count[t], FALSE))

EndOfBlock(t) ==
    /\ count[t] > 0
    /\ Instruction(t, "end", 0, increment_stalls(Runtime(t), count[t], FALSE),
                   Closed(t, count[t], FALSE))

\* A call of a function of the application, with no code of the pass in front
\* of it; the function starts with a block of its own.
CallFunction(t) ==
    /\ Executes(t) /\ work[t] + ops[t] < MaxWork[t]
    /\ work' = [work EXCEPT ![t] = @ + 1]
    /\ callers' = [callers EXCEPT ![t] = Append(@, count[t])]
    /\ count' = [count EXCEPT ![t] = 0]
    /\ UNCHANGED <<open, files, log, stalls, prog>>

\* The last block of the function has taken its count: EndOfBlock.
ReturnToCaller(t) ==
    /\ Executes(t) /\ callers[t] # <<>> /\ count[t] = 0
    /\ count' = [count EXCEPT ![t] = callers[t][Len(callers[t])]]
    /\ callers' = [callers EXCEPT ![t] = SubSeq(@, 1, Len(@) - 1)]
    /\ UNCHANGED <<open, files, log, stalls, prog, work>>

\* The compute instructions of the thread whose count is not taken yet, in its
\* block and in those of its callers.
Held(s) == Cardinality(UNION {{k} \X (1 .. s[k]) : k \in DOMAIN s})
Pending(t) == count[t] + Held(callers[t])

-----------------------------------------------------------------------------
(* The calls of the application to the tracer, and its primitives.         *)

\* The application (environment): each PE opens its own trace, and before its
\* first primitive.
__open_trace_log(t) ==
    /\ Executes(t) /\ ~open[t] /\ ops[t] = 0
    /\ \A u \in Threads \ {t} : core[u] # core[t]
    /\ open' = [open EXCEPT ![t] = TRUE]
    /\ files' = files \cup {core[t]}
    /\ log' = [log EXCEPT ![core[t]] = <<>>]
    /\ stalls' = [stalls EXCEPT ![t] = 0]
    /\ prog' = [prog EXCEPT ![core[t]] = [i \in 1 .. Pending(t) |-> Item("compute")]]
    /\ UNCHANGED <<count, callers, work>>

\* What is still in stall_counts is not written.
__close_trace_log(t) ==
    /\ Executes(t) /\ open[t]
    /\ open' = [open EXCEPT ![t] = FALSE]
    /\ files' = files \ {core[t]}
    /\ log' = [log EXCEPT ![core[t]] = Append(@, EOF)]
    /\ UNCHANGED <<stalls, count, callers, prog, work>>

\* The primitive's function logs it in front of the call, without the pending
\* stalls; spec.json gives none of these four a load or store penalty.
LogPrim(t, c) ==
    /\ IF open[t] THEN /\ log' = [log EXCEPT ![core[t]] = Append(@, PRIM(c))]
                       /\ prog' = [prog EXCEPT ![core[t]] = Append(@, [item |-> "prim", call |-> c])]
                  ELSE UNCHANGED <<log, prog>>
    /\ UNCHANGED <<open, files, stalls, count, callers, work>>
=============================================================================
