---------------------------- MODULE MCTREShort ----------------------------
(* Every trace of ShortLength entries, for the runs that check liveness. *)
EXTENDS MCTRE

ShortLength == 3
ShortPrograms == {[t \in {0} |-> s] : s \in Traces(AccessEntries, ShortLength)}
=============================================================================
