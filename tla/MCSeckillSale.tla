---------------------------- MODULE MCSeckillSale ----------------------------
(* Instances of SeckillSale for TLC. *)
EXTENDS SeckillSale, TLC

Symmetry == Permutations(Users) \cup Permutations(OrderNos) \cup Permutations(Workers)
=============================================================================
