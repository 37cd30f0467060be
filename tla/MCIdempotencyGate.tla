-------------------------- MODULE MCIdempotencyGate --------------------------
(* Finite instances of IdempotencyGate for TLC. *)
EXTENDS IdempotencyGate, TLC

GateSymmetry == Permutations(Requests) \cup Permutations(Payloads)
=============================================================================
