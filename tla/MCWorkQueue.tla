---------------------------- MODULE MCWorkQueue ----------------------------
(* The work queue device with two entries. *)
EXTENDS WorkQueue
=============================================================================
