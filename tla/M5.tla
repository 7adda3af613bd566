--------------------------------- MODULE M5 ---------------------------------
(***************************************************************************)
(* What the models of the m5threads library share.  The library replaces   *)
(* libpthread in gem5's system-call emulation: everything spins in user    *)
(* code on volatile words guarded by the spin lock of spinlock_<arch>.h,   *)
(* whose xchg (ldrex/strex on ARM) is one atomic step.                     *)
(*                                                                         *)
(* Grain.  A section between spin_lock and spin_unlock in which the thread *)
(* touches shared words no one else touches outside a lock is one step;    *)
(* every other read or write of a shared word is a step of its own.  The   *)
(* profiling hooks and the DEBUG output are left out.                      *)
(***************************************************************************)
EXTENDS Integers, FiniteSets

CONSTANT Threads    \* the threads of the simulated program

ASSUME ThreadsAssumption == IsFiniteSet(Threads)
=============================================================================
