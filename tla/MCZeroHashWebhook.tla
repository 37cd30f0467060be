-------------------------- MODULE MCZeroHashWebhook --------------------------
(* Events of the transfer t1, and one that concerns no order; t2 is another    *)
(* transfer of the order's quote, of a call with another key.                  *)
EXTENDS ZeroHashWebhook

CONSTANTS pending, settled, approved, t1, t2

StatusOfEvents ==
    [e \in Events |-> CASE e = pending -> "IN_TRANSIT"
                        [] e = settled -> "SETTLED"
                        [] e = approved -> "none"]

TransferOfEvents == [e \in Events |-> t1]
=============================================================================
