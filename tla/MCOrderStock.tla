---------------------------- MODULE MCOrderStock ----------------------------
(***************************************************************************)
(* OrderStock for TLC.                                                     *)
(***************************************************************************)
EXTENDS OrderStock, TLC

Symmetric == Permutations(Order) \cup Permutations(Product)
=============================================================================
