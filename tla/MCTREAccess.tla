--------------------------- MODULE MCTREAccess ---------------------------
(* The memory front end of a TRE: every trace of AccessLength entries. *)
EXTENDS MCTRE

AccessLength == 4
AccessPrograms == {[t \in {0} |-> s] : s \in Traces(AccessEntries, AccessLength)}
=============================================================================
