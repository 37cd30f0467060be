--------------------------- MODULE RemittanceOrder ---------------------------
(***************************************************************************)
(* POST /v1/remittance/order: createOrder, with the reserveFunds and the   *)
(* executePayout it calls. One call crosses four systems that share no     *)
(* transaction: the vault contract, the ledger, Zero Hash and the order    *)
(* table. Quotes and reservation answers are remembered only in the memory *)
(* of the gateway process.                                                 *)
(*                                                                         *)
(* A key is an Idempotency-Key. The gate in front of the route lets calls  *)
(* of one key in again (after a 5xx, a lost finish hook, or a lock that    *)
(* ran out) but only with one payload: see IdempotencyGate, OnePayload.    *)
(* So a key names its quote, and calls of one key may overlap.             *)
(*                                                                         *)
(* Abstracted: amounts, fees and rates are the quote; a reservation is the *)
(* call whose vault transaction made it; a Zero Hash transfer is its       *)
(* client_transfer_id, the key; a ledger posting is one step, as           *)
(* LedgerProofs!AtomicPostings allows. Only the Zero Hash provider is here:*)
(* the two stubs (MoneyGram, Circle CCTP) call no one.                     *)
(***************************************************************************)
CONSTANTS
    Calls,          \* calls of the route that pass the gate
    Keys,           \* idempotency keys
    Quotes,         \* quotes that were built
    KeyOf,          \* the key of a call
    QuoteOf,        \* the quote a key's payload names
    TravelRuled,    \* quotes with travelRuleReq
    QuoteRows,      \* quotes with a row in remittance_quotes
    NoReservation,
    NoOrder,
    NoTransfer

ASSUME CallsAssumption ==
    /\ KeyOf \in [Calls -> Keys]
    /\ QuoteOf \in [Keys -> Quotes]
    /\ TravelRuled \subseteq Quotes
    /\ QuoteRows \subseteq Quotes
    /\ NoReservation \notin Calls \cup {"refused"}
    /\ "refused" \notin Calls
    /\ NoTransfer \notin Keys

VARIABLES
    fresh,      \* quotes built less than five minutes ago
    known,      \* quotes in idempotencyCache
    memo,       \* reservation answers in idempotencyCache, under res:<key>
    vault,      \* the vault transaction of a call, and its reservation
    booked,     \* calls whose reservation has its RESERVE entry
    posts,      \* calls whose POST /transfers is under way
    transfers,  \* client_transfer_ids of the transfers Zero Hash made
    order,      \* remittance_orders; the id of an order is its quote's
    call        \* where each call stands, and the reservation it works with

vars == <<fresh, known, memo, vault, booked, posts, transfers, order, call>>

\* sent: broadcast; held: FundsReserved; lapsed: its expiry has passed.
VaultStates == {"none", "sent", "reverted", "held", "lapsed"}

Orders == [reservation: Calls,
           status: {"IN_TRANSIT", "SETTLED"},
           offRampRef: Keys,
           providerTransfer: Keys \cup {NoTransfer}]

ASSUME OrderAssumption == NoOrder \notin Orders

\* refused and rejected are ends of their own: no reservation because of the
\* screening, no order row because of a constraint.
Ends == {"ok", "failed", "refused", "rejected"}

Stages == {"new", "screening", "reserving", "booking", "reserved", "paying",
           "transferring", "recovering", "updating", "settling", "inserting"}
          \cup Ends

TypeOK ==
    /\ fresh \subseteq Quotes
    /\ known \subseteq Quotes
    /\ memo \in [Keys -> Calls \cup {NoReservation, "refused"}]
    /\ vault \in [Calls -> VaultStates]
    /\ booked \subseteq Calls
    /\ posts \subseteq Calls
    /\ transfers \subseteq Keys
    /\ order \in [Quotes -> Orders \cup {NoOrder}]
    /\ call \in [Calls -> [stage: Stages, reservation: Calls \cup {NoReservation}]]

\* The quotes have been built (buildQuote puts each in the cache); nothing else.
Init ==
    /\ fresh = Quotes
    /\ known = Quotes
    /\ memo = [k \in Keys |-> NoReservation]
    /\ vault = [c \in Calls |-> "none"]
    /\ booked = {}
    /\ posts = {}
    /\ transfers = {}
    /\ order = [q \in Quotes |-> NoOrder]
    /\ call = [c \in Calls |-> [stage |-> "new", reservation |-> NoReservation]]

Quote(c) == QuoteOf[KeyOf[c]]

\* Suspended at an await of the route.
Active(c) == call[c].stage \notin Ends \cup {"new"}

Goto(c, stage) == call' = [call EXCEPT ![c].stage = stage]

GotoWith(c, stage, r) ==
    call' = [call EXCEPT ![c] = [stage |-> stage, reservation |-> r]]

----------------------------------------------------------------------------
(* createOrder up to its first await: the quote, then reserveFunds' cache. *)

RejectQuote(c) ==
    /\ call[c].stage = "new"
    /\ Quote(c) \notin known \cap fresh
    /\ Goto(c, "refused")
    /\ UNCHANGED <<fresh, known, memo, vault, booked, posts, transfers, order>>

ReuseRefusal(c) ==
    /\ call[c].stage = "new"
    /\ Quote(c) \in known \cap fresh
    /\ memo[KeyOf[c]] = "refused"
    /\ Goto(c, "refused")
    /\ UNCHANGED <<fresh, known, memo, vault, booked, posts, transfers, order>>

ReuseReservation(c) ==
    /\ call[c].stage = "new"
    /\ Quote(c) \in known \cap fresh
    /\ memo[KeyOf[c]] \in Calls
    /\ GotoWith(c, "reserved", memo[KeyOf[c]])
    /\ UNCHANGED <<fresh, known, memo, vault, booked, posts, transfers, order>>

Screen(c) ==
    /\ call[c].stage = "new"
    /\ Quote(c) \in known \cap fresh
    /\ memo[KeyOf[c]] = NoReservation
    /\ Goto(c, "screening")
    /\ UNCHANGED <<fresh, known, memo, vault, booked, posts, transfers, order>>

(* reserveFunds *)

\* The screening does not pass: the refusal is remembered.
ScreenRefuses(c) ==
    /\ call[c].stage = "screening"
    /\ memo' = [memo EXCEPT ![KeyOf[c]] = "refused"]
    /\ Goto(c, "refused")
    /\ UNCHANGED <<fresh, known, vault, booked, posts, transfers, order>>

SubmitReservation(c) ==
    /\ call[c].stage = "screening"
    /\ vault' = [vault EXCEPT ![c] = "sent"]
    /\ Goto(c, "reserving")
    /\ UNCHANGED <<fresh, known, memo, booked, posts, transfers, order>>

\* (Operators named Bug... are not used by the specification: each is a
\* plausible mistake in the definition after it, listed in PROJECT.json.)

\* The reservation is remembered as soon as it is mined, and the posting is
\* left to what follows.
BugMined(c) ==
    /\ call[c].stage = "reserving"
    /\ vault[c] \in {"held", "lapsed"}
    /\ memo' = [memo EXCEPT ![KeyOf[c]] = c]
    /\ Goto(c, "booking")
    /\ UNCHANGED <<fresh, known, vault, booked, posts, transfers, order>>

\* tx.wait(1) returns the receipt.
Mined(c) ==
    /\ call[c].stage = "reserving"
    /\ vault[c] \in {"held", "lapsed"}
    /\ Goto(c, "booking")
    /\ UNCHANGED <<fresh, known, memo, vault, booked, posts, transfers, order>>

\* tx.wait(1) throws: the transaction reverted.
Reverted(c) ==
    /\ call[c].stage = "reserving"
    /\ vault[c] = "reverted"
    /\ Goto(c, "failed")
    /\ UNCHANGED <<fresh, known, memo, vault, booked, posts, transfers, order>>

\* postEntry returns; the answer is remembered in the same turn.
BookReservation(c) ==
    /\ call[c].stage = "booking"
    /\ booked' = booked \cup {c}
    /\ memo' = [memo EXCEPT ![KeyOf[c]] = c]
    /\ GotoWith(c, "reserved", c)
    /\ UNCHANGED <<fresh, known, vault, posts, transfers, order>>

\* postEntry throws: the entry is absent, or durable with its reply lost. The
\* reservation stays on chain, and nothing remembers it.
BookingFails(c) ==
    /\ call[c].stage = "booking"
    /\ booked' \in {booked, booked \cup {c}}
    /\ Goto(c, "failed")
    /\ UNCHANGED <<fresh, known, memo, vault, posts, transfers, order>>

\* An await throws before any effect of its own: the screening, the broadcast
\* or the receipt, the travel rule, the payout quote, or the event after the
\* order's update.
AwaitFails(c) ==
    /\ call[c].stage \in {"screening", "reserving", "reserved", "paying", "inserting"}
    /\ Goto(c, "failed")
    /\ UNCHANGED <<fresh, known, memo, vault, booked, posts, transfers, order>>

----------------------------------------------------------------------------
(* createOrder, from the travel rule to the payout quote. *)

\* The payload has the data of the travel rule, and the INSERT names ON CONFLICT
\* (order_id), which has no unique constraint: PostgreSQL refuses the statement,
\* whatever the table holds.
TravelRuleFails(c) ==
    /\ call[c].stage = "reserved"
    /\ Quote(c) \in TravelRuled
    /\ Goto(c, "failed")
    /\ UNCHANGED <<fresh, known, memo, vault, booked, posts, transfers, order>>

\* The travel rule is not required, or the payload has no data for it.
PreparePayout(c) ==
    /\ call[c].stage = "reserved"
    /\ Goto(c, "paying")
    /\ UNCHANGED <<fresh, known, memo, vault, booked, posts, transfers, order>>

(* executePayout, _submitZeroHash and createTransfer *)

PostTransfer(c) ==
    /\ call[c].stage = "paying"
    /\ posts' = posts \cup {c}
    /\ Goto(c, "transferring")
    /\ UNCHANGED <<fresh, known, memo, vault, booked, transfers, order>>

\* The answer tells whether the transfer is settled already.
TransferAnswered(c) ==
    /\ call[c].stage = "transferring"
    /\ c \notin posts
    /\ KeyOf[c] \in transfers
    /\ \E stage \in {"updating", "settling"}: Goto(c, stage)
    /\ UNCHANGED <<fresh, known, memo, vault, booked, posts, transfers, order>>

\* An error response, also for a client_transfer_id that Zero Hash has already.
TransferRefused(c) ==
    /\ call[c].stage = "transferring"
    /\ c \notin posts
    /\ Goto(c, "failed")
    /\ UNCHANGED <<fresh, known, memo, vault, booked, posts, transfers, order>>

\* No response within 15 seconds: ask for the transfer by its client id.
TransferTimesOut(c) ==
    /\ call[c].stage = "transferring"
    /\ Goto(c, "recovering")
    /\ UNCHANGED <<fresh, known, memo, vault, booked, posts, transfers, order>>

\* No answer is taken for a transfer.
BugTransferFound(c) ==
    /\ call[c].stage = "recovering"
    /\ Goto(c, "updating")
    /\ UNCHANGED <<fresh, known, memo, vault, booked, posts, transfers, order>>

TransferFound(c) ==
    /\ call[c].stage = "recovering"
    /\ KeyOf[c] \in transfers
    /\ Goto(c, "updating")
    /\ UNCHANGED <<fresh, known, memo, vault, booked, posts, transfers, order>>

\* Ask again until there is an answer.
BugTransferNotFound(c) ==
    /\ call[c].stage = "recovering"
    /\ Goto(c, "transferring")
    /\ UNCHANGED <<fresh, known, memo, vault, booked, posts, transfers, order>>

\* Not found, perhaps because the POST has not arrived yet; or no answer again.
TransferNotFound(c) ==
    /\ call[c].stage = "recovering"
    /\ Goto(c, "failed")
    /\ UNCHANGED <<fresh, known, memo, vault, booked, posts, transfers, order>>

\* UPDATE remittance_orders ... WHERE order_id: it matches a row only if an
\* earlier call of the quote inserted one. An error is only logged.
UpdateOrder(c) ==
    /\ call[c].stage \in {"updating", "settling"}
    /\ \/ order' = order
       \/ /\ order[Quote(c)] # NoOrder
          /\ order' = [order EXCEPT ![Quote(c)] =
                         [@ EXCEPT !.status = IF call[c].stage = "settling"
                                              THEN "SETTLED" ELSE "IN_TRANSIT",
                                   !.offRampRef = KeyOf[c],
                                   !.providerTransfer = KeyOf[c]]]
    /\ Goto(c, "inserting")
    /\ UNCHANGED <<fresh, known, memo, vault, booked, posts, transfers>>

----------------------------------------------------------------------------
(* ledger.createOrder *)

\* ON CONFLICT (order_id) DO UPDATE.
BugInsertOrder(c) ==
    /\ call[c].stage = "inserting"
    /\ Quote(c) \in QuoteRows
    /\ order' = [order EXCEPT ![Quote(c)] =
                   [reservation |-> call[c].reservation, status |-> "IN_TRANSIT",
                    offRampRef |-> KeyOf[c], providerTransfer |-> NoTransfer]]
    /\ \E stage \in {"ok", "failed"}: Goto(c, stage)
    /\ UNCHANGED <<fresh, known, memo, vault, booked, posts, transfers>>

\* The INSERT; its reply may be lost. It does not write provider_transfer_id.
InsertOrder(c) ==
    /\ call[c].stage = "inserting"
    /\ order[Quote(c)] = NoOrder
    /\ Quote(c) \in QuoteRows
    /\ order' = [order EXCEPT ![Quote(c)] =
                   [reservation |-> call[c].reservation, status |-> "IN_TRANSIT",
                    offRampRef |-> KeyOf[c], providerTransfer |-> NoTransfer]]
    /\ \E stage \in {"ok", "failed"}: Goto(c, stage)
    /\ UNCHANGED <<fresh, known, memo, vault, booked, posts, transfers>>

\* order_id is the primary key, and quote_id REFERENCES remittance_quotes.
InsertRejected(c) ==
    /\ call[c].stage = "inserting"
    /\ order[Quote(c)] # NoOrder \/ Quote(c) \notin QuoteRows
    /\ Goto(c, "rejected")
    /\ UNCHANGED <<fresh, known, memo, vault, booked, posts, transfers, order>>

----------------------------------------------------------------------------
(* The environment: the chain, Zero Hash, the clock, the process. *)

VaultAnswers(c) ==
    /\ vault[c] = "sent"
    /\ \E s \in {"held", "reverted"}: vault' = [vault EXCEPT ![c] = s]
    /\ UNCHANGED <<fresh, known, memo, booked, posts, transfers, order, call>>

\* A reservation is made for five minutes, after its quote was: it outlives it.
ReservationLapses(c) ==
    /\ vault[c] = "held"
    /\ Quote(c) \notin fresh
    /\ vault' = [vault EXCEPT ![c] = "lapsed"]
    /\ UNCHANGED <<fresh, known, memo, booked, posts, transfers, order, call>>

\* A POST arrives, also after its caller gave up, and makes the transfer of its
\* client id unless there is one; or it is lost, or turned down.
PostArrives(c) ==
    /\ c \in posts
    /\ posts' = posts \ {c}
    /\ transfers' \in {transfers, transfers \cup {KeyOf[c]}}
    /\ UNCHANGED <<fresh, known, memo, vault, booked, order, call>>

QuoteExpires(q) ==
    /\ q \in fresh
    /\ fresh' = fresh \ {q}
    /\ UNCHANGED <<known, memo, vault, booked, posts, transfers, order, call>>

\* The process restarts: its memory and the calls it was serving are gone.
Restart ==
    /\ known # {} \/ \E c \in Calls: Active(c)
    /\ known' = {}
    /\ memo' = [k \in Keys |-> NoReservation]
    /\ call' = [c \in Calls |->
                  IF Active(c) THEN [call[c] EXCEPT !.stage = "failed"] ELSE call[c]]
    /\ UNCHANGED <<fresh, vault, booked, posts, transfers, order>>

----------------------------------------------------------------------------
ReserveFunds(c) ==
    \/ ScreenRefuses(c) \/ SubmitReservation(c) \/ Mined(c) \/ Reverted(c)
    \/ BookReservation(c) \/ BookingFails(c)

ExecutePayout(c) ==
    \/ PostTransfer(c) \/ TransferAnswered(c) \/ TransferRefused(c)
    \/ TransferTimesOut(c) \/ TransferFound(c) \/ TransferNotFound(c)
    \/ UpdateOrder(c)

CreateOrder(c) ==
    \/ RejectQuote(c) \/ ReuseRefusal(c) \/ ReuseReservation(c) \/ Screen(c)
    \/ ReserveFunds(c)
    \/ TravelRuleFails(c) \/ PreparePayout(c)
    \/ ExecutePayout(c)
    \/ InsertOrder(c) \/ InsertRejected(c)

Environment ==
    \/ \E c \in Calls: VaultAnswers(c) \/ ReservationLapses(c) \/ PostArrives(c)
    \/ \E q \in Quotes: QuoteExpires(q)
    \/ Restart

Next == (\E c \in Calls: CreateOrder(c) \/ AwaitFails(c)) \/ Environment

\* A call that the process keeps serving goes on: each await has a timeout of its
\* own, but tx.wait(1), which the chain ends by including the transaction.
CallFairness(c) == WF_vars(CreateOrder(c) \/ VaultAnswers(c))

Spec == Init /\ [][Next]_vars /\ \A c \in Calls: CallFairness(c)

----------------------------------------------------------------------------
\* The vault made the reservation; it may have expired since.
Held(c) == vault[c] \in {"held", "lapsed"}

\* A reservation made for the key, with its RESERVE entry.
Reserved(k) == \E c \in Calls: KeyOf[c] = k /\ Held(c) /\ c \in booked

\* A transfer is posted to Zero Hash, or made, only for a key with a reservation
\* that was mined and has its RESERVE entry ("MUST be called before any
\* remittance order is executed", server.ts): whatever was retried, remembered,
\* overlapped or lost on the way.
PayoutReserved ==
    /\ \A k \in transfers: Reserved(k)
    /\ \A c \in posts: Reserved(KeyOf[c])

\* An order row names a reservation that was mined, posted and made for this very
\* quote, and a transfer that Zero Hash really has, for this very quote.
OrderBacked ==
    \A q \in Quotes: order[q] # NoOrder =>
        /\ Quote(order[q].reservation) = q
        /\ Held(order[q].reservation)
        /\ order[q].reservation \in booked
        /\ order[q].offRampRef \in transfers
        /\ QuoteOf[order[q].offRampRef] = q

\* The order a client was told of (201) stays on record with the reservation it
\* was made with, whatever other calls for its quote, with this key or another,
\* do afterwards.
AnsweredOrderStands ==
    \A c \in Calls: call[c].stage = "ok" =>
        /\ order[Quote(c)] # NoOrder
        /\ order[Quote(c)].reservation = call[c].reservation

\* All of it, step by step: what the vault, the ledger, Zero Hash and the order
\* table hold together goes through the saga the route promises, reservation,
\* payout, order row, and never back, although they share no transaction and
\* calls overlap, repeat, time out and die between any two of the steps.
Saga == INSTANCE RemittanceSaga WITH
    reserved <- {c \in booked: Held(c)},
    paid <- transfers,
    orders <- {[quote |-> q, reservation |-> order[q].reservation,
                transfer |-> order[q].offRampRef] :
                  q \in {p \in Quotes: order[p] # NoOrder}},
    confirmed <- {c \in Calls: call[c].stage = "ok"}

FollowsSaga == Saga!Spec

\* Every call that entered the route ends, with an answer or with the process.
CallEnds == \A c \in Calls: Active(c) ~> ~Active(c)
=============================================================================
