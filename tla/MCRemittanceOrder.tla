-------------------------- MODULE MCRemittanceOrder --------------------------
(* Up to three calls: c1 and c2 carry one key, c3 another one. *)
EXTENDS RemittanceOrder, TLC

CONSTANTS c1, c2, c3, k1, k2, q1

KeyOfCalls == [c \in Calls |-> IF c = c3 THEN k2 ELSE k1]

\* Both keys order the quote q1.
SameQuote == [k \in Keys |-> q1]
=============================================================================
