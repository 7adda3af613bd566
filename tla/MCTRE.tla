------------------------------- MODULE MCTRE -------------------------------
(* Shorthands to write traces with, for the modules that TLC runs. *)
EXTENDS TREInd, TLC

E0 == [op |-> "EOF", addr |-> 0, val |-> 0, cyc |-> 0, unc |-> FALSE,
       blk |-> FALSE, pc |-> NoPC, deps |-> {}]
Acc(op, a, deps)    == [E0 EXCEPT !.op = op, !.addr = a, !.deps = deps]
AccB(op, a)         == [E0 EXCEPT !.op = op, !.addr = a, !.blk = TRUE]
AccU(op, a)         == [E0 EXCEPT !.op = op, !.addr = a, !.unc = TRUE]
Stall(deps)         == [E0 EXCEPT !.op = "STALL", !.val = 1, !.deps = deps]
On(op, a, cyc)      == [E0 EXCEPT !.op = op, !.addr = a, !.cyc = cyc]
To(op, n, cyc)      == [E0 EXCEPT !.op = op, !.val = n, !.cyc = cyc]
Bar(a, n, cyc)      == [E0 EXCEPT !.op = "BARINIT", !.addr = a, !.val = n,
                                  !.cyc = cyc]
Only(op, cyc)       == [E0 EXCEPT !.op = op, !.cyc = cyc]

OneTRE    == <<0>>
TwoTREs   == <<0, 1>>
ThreeTREs == <<0, 1, 2>>
OneQueue  == {<<0, 1>>}
TwoQueues == {<<0, 1>>, <<0, 2>>}

(* The traces of n entries of S and EOF. *)
Traces(S, n) == {s \o <<E0>> : s \in [1 .. n -> S]}

(* Accesses and stalls over two addresses. *)
AccessEntries ==
  {Acc("LD", 1, {}), Acc("LD", 2, {1}), Acc("ST", 1, {1, 2}), AccB("LD", 1),
   AccB("ST", 2), AccU("ST", 2), Stall({1}), Stall({})}
=============================================================================
