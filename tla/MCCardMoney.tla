----------------------------- MODULE MCCardMoney -----------------------------
(* Finite instances of CardMoney for TLC. *)
EXTENDS CardMoney, TLC

CardSymmetry == Permutations(Requests) \cup Permutations(Instances)
=============================================================================
