------------------------------ MODULE Vectors ------------------------------
(* std::vector::erase on the sequences that stand for vectors. *)
EXTENDS Integers, Sequences

(* s without its k-th element. *)
Without(s, k) == SubSeq(s, 1, k - 1) \o SubSeq(s, k + 1, Len(s))
=============================================================================
