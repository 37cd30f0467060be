---------------------------- MODULE RemittanceSaga ----------------------------
(***************************************************************************)
(* What the order route promises over four systems without a transaction:  *)
(* the steps of an order happen in one order, each at one instant, and     *)
(* none of them is ever taken back by another call. "MUST be called before *)
(* any remittance order is executed" (server.ts, of the reservation): a    *)
(* payout follows the reservation of its key, an order row follows both.   *)
(***************************************************************************)
CONSTANTS
    Calls,      \* calls of the route
    Keys,       \* idempotency keys; a transfer has one
    Quotes,     \* an order has one
    KeyOf,      \* the key of a call
    QuoteOf     \* the quote of a key

VARIABLES
    reserved,   \* calls whose reservation the vault holds and the ledger shows
    paid,       \* keys whose transfer the provider has made
    orders,     \* order rows: quote, reservation and transfer
    confirmed   \* calls that were answered 201

Init ==
    /\ reserved = {}
    /\ paid = {}
    /\ orders = {}
    /\ confirmed = {}

Reserve(c) ==
    /\ reserved' = reserved \cup {c}
    /\ UNCHANGED <<paid, orders, confirmed>>

\* The payout of a key that has a reservation.
Pay(k) ==
    /\ \E r \in reserved: KeyOf[r] = k
    /\ paid' = paid \cup {k}
    /\ UNCHANGED <<reserved, orders, confirmed>>

Row(k, r) == [quote |-> QuoteOf[k], reservation |-> r, transfer |-> k]

\* A quote has one order. Its reservation and its transfer are of the key of
\* the call, which may have to do with an error for its answer.
Record(c, r) ==
    /\ KeyOf[c] \in paid
    /\ r \in reserved
    /\ KeyOf[r] = KeyOf[c]
    /\ \A o \in orders: o.quote # QuoteOf[KeyOf[c]]
    /\ orders' = orders \cup {Row(KeyOf[c], r)}
    /\ confirmed' \in {confirmed, confirmed \cup {c}}
    /\ UNCHANGED <<reserved, paid>>

\* Another key of the quote was paid: the order names that transfer from now
\* on, and keeps its reservation.
Repoint(k) ==
    /\ k \in paid
    /\ \E o \in orders:
         /\ o.quote = QuoteOf[k]
         /\ orders' = (orders \ {o}) \cup {Row(k, o.reservation)}
    /\ UNCHANGED <<reserved, paid, confirmed>>

Next ==
    \/ \E c \in Calls: Reserve(c)
    \/ \E k \in Keys: Pay(k) \/ Repoint(k)
    \/ \E c, r \in Calls: Record(c, r)

Spec == Init /\ [][Next]_<<reserved, paid, orders, confirmed>>
=============================================================================
