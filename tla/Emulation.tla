----------------------------- MODULE Emulation ------------------------------
(***************************************************************************)
(* An emulated application: threads that call the primitives of the        *)
(* emulation library (EmuLib) and, when it is traced, are instrumented by  *)
(* the tracer (Tracer).  The traces are what the replay engines read.      *)
(***************************************************************************)
EXTENDS Tracer, Functions

CONSTANT Apps   \* the applications: [traced, ids], where ids gives the threads
                \* the application starts their core ids

\* The application (environment): the ids are PEs, and two threads of a traced
\* application do not share one.
ASSUME AppsAssumption ==
    \A a \in Apps : /\ a.traced \in BOOLEAN
                    /\ DOMAIN a.ids \subseteq Threads
                    /\ \A t \in DOMAIN a.ids : a.ids[t] \in PEs
                    /\ a.traced => IsInjective(a.ids)

VARIABLES traced,       \* the application was built with the compiler pass
          ids           \* the core id of each thread the application starts

app == <<traced, ids>>
vars == <<emuVars, traceVars, app>>

Init == /\ EmuInit /\ TraceInit
        /\ \E a \in Apps : traced = a.traced /\ ids = a.ids

\* The application (environment): when it is traced every thread opens its
\* log before it calls a primitive and closes it before __teardown, and the
\* library is set up once; no PE wakes itself.
Setting ==
    /\ \/ __init /\ (traced => inits = 0)
       \/ __teardown /\ files = {}
       \/ \E t \in DOMAIN ids : __register_core_id(t, ids[t])
    /\ UNCHANGED traceVars

Primitive(t, c) ==
    /\ core[t] # NoCore /\ (traced => open[t])
    /\ c.name = "wake" => c.pe # core[t]
    /\ Call(t, c) /\ LogPrim(t, c)

Library(t) == (CallFails(t) \/ Enter(t) \/ WakeUp(t)) /\ UNCHANGED traceVars

Traced(t) ==
    /\ traced
    /\ \/ __open_trace_log(t) \/ __close_trace_log(t)
       \/ Compute(t) \/ ComputeOnLoaded(t) \/ EndOfBlock(t)
       \/ CallFunction(t) \/ ReturnToCaller(t)
       \/ \E in \in BOOLEAN : Access(t, in)
    /\ UNCHANGED emuVars

Next ==
    /\ \/ Setting
       \/ \E t \in DOMAIN ids : \/ \E c \in EmuCalls : Primitive(t, c)
                            \/ Library(t) \/ Traced(t)
    /\ UNCHANGED app

Spec == Init /\ [][Next]_vars

\* A thread that can take its mutex takes it: std::mutex and the scheduler
\* keep no runnable thread waiting for ever.
Fairness == \A t \in Threads : WF_vars(Enter(t) /\ UNCHANGED <<traceVars, app>>)

FairSpec == Spec /\ Fairness

-----------------------------------------------------------------------------
(* The trace l of a PE against its program g.                              *)

Written(l) == {k \in DOMAIN l : l[k].entry \in {"MEM", "PRIM"}}
Kept(g) == {i \in DOMAIN g : g[i].item \in {"access", "prim"}}
EntryOf(i) == IF i.item = "prim" THEN PRIM(i.call) ELSE MEM

\* Entry k and instruction i have the same rank, the one among those that are
\* written and the other among those to be written.
Rank(S, k) == Cardinality({j \in S : j <= k})
SameRank(l, k, g, i) == Rank(Written(l), k) = Rank(Kept(g), i)

\* The cycles in the STALLs up to entry m, one pair for each.
Ticks(l, m) ==
    UNION {{k} \X (1 .. l[k].cycles) : k \in {k \in DOMAIN l : k <= m /\ l[k].entry = "STALL"}}
Cycles(l, m) == Cardinality(Ticks(l, m))

Computes(g) == {j \in DOMAIN g : g[j].item \in {"compute", "dependent"}}

Ordered(l, g) ==
    /\ Cardinality(Written(l)) = Cardinality(Kept(g))
    /\ \A k \in Written(l), i \in Kept(g) : SameRank(l, k, g, i) => l[k] = EntryOf(g[i])

\* While its log is open no compute instruction of a thread is lost or written
\* twice: it is in a STALL of the trace, in stall_counts, or still in the count
\* of its block or of the block of a caller.
CyclesKept ==
    \A t \in Threads : open[t] =>
        Cycles(log[core[t]], Len(log[core[t]])) + stalls[t] + Pending(t)
            = Cardinality(Computes(prog[core[t]]))

\* The trace of a PE says what its program did: its accesses to traced memory
\* and its primitives in the order of the program, no more and no fewer, and all
\* of its compute instructions while the log is open.
TraceFaithful == (\A p \in PEs : Ordered(log[p], prog[p])) /\ CyclesKept

\* What the pass says of the count it passes to increment_stalls in front of a
\* load, "number of stalls preceding this load": in the trace the cycles of the
\* compute instructions in front of an access come in front of its entry.
StallsPrecede ==
    \A p \in PEs : \A k \in Written(log[p]), i \in Kept(prog[p]) :
        SameRank(log[p], k, prog[p], i) /\ log[p][k] = MEM =>
            Cycles(log[p], k) = Cardinality({j \in Computes(prog[p]) : j < i})

-----------------------------------------------------------------------------
(* The traces against each other: what the replay engines need.            *)

IsCall(c, n, x) == c.name = n /\ x = IF n \in {"push", "pop"} THEN c.q ELSE c.pe

\* The entries of call n on x in all traces, and the threads that are in it.
LoggedAt(n, x) ==
    UNION {{p} \X {k \in DOMAIN log[p] : log[p][k].entry = "PRIM" /\ IsCall(log[p][k].call, n, x)} :
           p \in PEs}
InsideAt(n, x) == {t \in Threads : op[t] # Idle /\ IsCall(op[t], n, x)}

Logged(n, x) == Cardinality(LoggedAt(n, x))
Inside(n, x) == Cardinality(InsideAt(n, x))

\* The traces of an emulation can be replayed: every POP that came back has a
\* PUSH to the same queue in some trace, every SLEEP a WAKE of the same PE, and
\* no more than Depth PUSHes are left over, so that no engine waits for an
\* entry that no trace has.  (A second __init would find the sleep counters of
\* the first, and with them wakes that are in no trace.)
TracesReplayable ==
    traced =>
        /\ \A q \in QueuePairs :
              /\ Logged("pop", q) - Inside("pop", q) <= Logged("push", q)
              /\ Logged("push", q) - Inside("push", q) <= Logged("pop", q) + Depth
        /\ \A p \in PEs : Logged("sleep", p) - Inside("sleep", p) <= Logged("wake", p)

-----------------------------------------------------------------------------
\* Every call that can be performed returns, unless the process exits: no
\* notification goes to a thread that cannot use it while another one waits.
CallsReturn == []~failed => Prims!PFair
=============================================================================
