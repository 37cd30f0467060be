------------------------------ MODULE MCLedger ------------------------------
(* Finite instances of Ledger for TLC. *)
EXTENDS Ledger

CONSTANTS avail, reserved, fees

\* Two opposite postings, which share both rows, a posting to a third account,
\* and the zero fee that finalizeOrder really passes (partnerFee 0).
MCPostings ==
    {[debit |-> avail, credit |-> reserved, amount |-> 2],
     [debit |-> reserved, credit |-> avail, amount |-> 1],
     [debit |-> reserved, credit |-> fees, amount |-> 1],
     [debit |-> reserved, credit |-> fees, amount |-> 0]}
=============================================================================
