--------------------------- MODULE MCTREMisuse ---------------------------
(* Primitives in any order, right or wrong. *)
EXTENDS MCTRE

(* Two TREs, every pair of traces of two primitives, misused ones and an   *)
(* invalid token included, after the first has initialized a mutex.        *)
FirstEntries ==
  {On("MTXINIT", 1, 0), On("MTXLOCK", 1, 0), On("MTXUNLOCK", 1, 1),
   Bar(2, 2, 1), Bar(2, 0, 0), On("BARWAIT", 2, 0), To("PUSH", 1, 0),
   To("PUSH", 2, 1), Only("SLEEP", 1), Only("RST", 0)}
SecondEntries ==
  {On("MTXINIT", 2, 1), On("MTXLOCK", 1, 0), On("MTXLOCK", 0, 1),
   On("MTXUNLOCK", 1, 1), On("MTXUNLOCK", 2, 0), Bar(2, 1, 0),
   On("BARWAIT", 2, 1), On("BARWAIT", 0, 0), To("POP", 0, 0), To("POP", 1, 0),
   Only("DMPRST", 1), Only("BAD", 0)}
Pairs(S) == [1 .. 2 -> S]
AnyPrograms ==
  {(0 :> (<<On("MTXINIT", 1, 0), On("MTXLOCK", 1, 1)>> \o s \o <<E0>>))
     @@ (1 :> (r \o <<E0>>)) @@ (2 :> <<E0>>) :
        s \in Pairs(FirstEntries), r \in Pairs(SecondEntries)}

(* A TRE that others wake at any time: while it is blocked, refused by the *)
(* port, waiting, with an event due, asleep, halted; PE numbers that are   *)
(* the TRE's own, 0 or out of range.                                       *)
Wakers ==
  {<<To("WAKE", n, c), E0>> : n \in {0, 1, 2, 3}, c \in {0, 1}}
    \cup {<<On("MTXINIT", 1, 0), On("MTXLOCK", 1, 0), To("WAKE", 1, 0),
            On("MTXUNLOCK", 1, 0), E0>>,
          <<Bar(1, 2, 0), To("WAKE", 1, 0), E0>>}
Woken ==
  {<<Only("SLEEP", 0), E0>>, <<Only("SLEEP", 1), Acc("LD", 1, {}), E0>>,
   <<To("WAKE", 1, 0), E0>>, <<To("WAKE", 1, 1), E0>>,
   <<Acc("LD", 1, {}), Acc("ST", 2, {}), Stall({1}), E0>>,
   <<AccB("LD", 1), Acc("LD", 2, {1}), Only("DMP", 1), E0>>,
   <<On("BARWAIT", 1, 0), On("BARWAIT", 1, 0), E0>>,
   <<On("MTXLOCK", 1, 0), On("MTXLOCK", 1, 0), E0>>,
   <<On("MTXLOCK", 1, 0), Acc("LD", 2, {}), On("MTXUNLOCK", 1, 0), E0>>,
   <<To("POP", 0, 0), Acc("ST", 2, {}), E0>>, <<E0>>}
StrayPrograms ==
  {(0 :> a) @@ (1 :> b) @@ (2 :> c) : a \in Wakers, b \in Woken,
     c \in {<<E0>>, <<Stall({}), To("WAKE", 1, 0), E0>>}}

MisusePrograms == AnyPrograms \cup StrayPrograms
=============================================================================
