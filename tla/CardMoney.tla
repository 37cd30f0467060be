------------------------------- MODULE CardMoney -------------------------------
(***************************************************************************)
(* Money over a linked debit card: add-money (Stripe charges the card,     *)
(* Circle delivers USDC) and push-to-card (Stripe pays the card).          *)
(*                                                                         *)
(* Both routes sit behind withIdempotency, a map in the memory of a        *)
(* process that is looked at before the handler and filled after it. The   *)
(* web application is deployed serverless: several instances serve it,     *)
(* each with a map of its own, over one database and one set of processor  *)
(* accounts. The module follows ONE idempotency key and the requests that  *)
(* carry it: duplicates in flight together, retries after an answer, on    *)
(* another instance, after an error, after a restart. A handler is a chain *)
(* of awaits - read the linked card, call the processor, call Circle,      *)
(* insert the row, insert the event - and its instance may end at any of   *)
(* them.                                                                   *)
(*                                                                         *)
(* Abstracted: amounts, fees, validation of the body, the signature of a   *)
(* webhook. A request stands for the funding or payout id its handler      *)
(* makes, which is fresh per attempt.                                      *)
(***************************************************************************)
CONSTANTS
    Requests,   \* requests with this key
    Instances,  \* processes of the web application, a map in each
    ClientKey,  \* the Idempotency-Key header they carry
    NoAnswer,   \* nothing answered, nothing remembered
    NoRow       \* no row of the attempt

VARIABLES
    op,         \* what the key is for, and how the processor is configured
    at,         \* per request: the instance that serves it
    cache,      \* per instance: the answer its withIdempotency remembers
    card,       \* the linked card's row
    req,        \* per request: where its handler stands, what it has learnt
    intent,     \* Stripe: per key, the PaymentIntent made under it
    payment,    \* Circle: per key, the statuses its payment has gone through
    moved,      \* Stripe: requests whose transfer was made
    payout,     \* Stripe: per request, the statuses its payout has gone through
    row,        \* per attempt: its row of card_funding_transactions or card_payouts
    forgot      \* history: the instances that lost an answer or a running handler

vars == <<op, at, cache, card, req, intent, payment, moved, payout, row, forgot>>

\* add_money; push_to_card over Treasury, over a connected account, or with
\* neither configured.
Ops == {"add_money", "treasury", "connect", "unconfigured"}

Payouts == Ops \ {"add_money"}

Keys == Requests \cup {ClientKey}

IntentStatuses == {"none", "requires_action", "processing", "succeeded", "failed"}

\* first: the answer Stripe stores under the key; now: where the intent is.
Intents == [first: IntentStatuses, now: IntentStatuses]

PaymentStatuses == {"pending", "confirmed", "paid", "failed"}

PayoutEvents == {"created", "paid", "failed", "returned"}

\* accepted: 202, naming a row; refused: 4xx; error: the handler threw.
Answers == [code: {"accepted", "refused", "error"}, by: Requests]

\* calling, paying: the processor's first and second call; buying: Circle's.
Stages == {"new", "reading", "calling", "paying", "buying", "recording",
           "logging", "done", "lost"}

InFlight == Stages \ {"new", "done", "lost"}

FundingStatuses == {"requires_action", "authorized", "captured", "failed"}

RowStatuses == FundingStatuses \cup {"pending_network", "paid", "returned"}

\* after: history, the requests answered before the handler began, anywhere.
Reqs == [stage: Stages, circle: BOOLEAN, status: RowStatuses \cup {"none"},
         bought: BOOLEAN, onChain: {"none", "pending", "failed"},
         answer: Answers \cup {NoAnswer}, after: SUBSET Requests]

\* paid: the row has the id of a Circle payment.
Rows == [status: RowStatuses, paid: BOOLEAN,
         onChain: {"none", "pending", "confirmed", "failed"}]

ASSUME KeyAssumption == ClientKey \notin Requests
ASSUME NamesAssumption == NoAnswer \notin Answers /\ NoRow \notin Rows

TypeOK ==
    /\ op \in Ops
    /\ at \in [Requests -> Instances]
    /\ cache \in [Instances -> Answers \cup {NoAnswer}]
    /\ card \in [usable: BOOLEAN, circle: BOOLEAN]
    /\ req \in [Requests -> Reqs]
    /\ intent \in [Keys -> Intents]
    /\ payment \in [Keys -> SUBSET PaymentStatuses]
    /\ moved \subseteq Requests
    /\ payout \in [Requests -> SUBSET PayoutEvents]
    /\ row \in [Requests -> Rows \cup {NoRow}]
    /\ forgot \subseteq Instances

Init ==
    /\ op \in Ops
    /\ at \in [Requests -> Instances]
    /\ cache = [i \in Instances |-> NoAnswer]
    /\ card \in [usable: {TRUE}, circle: BOOLEAN]
    /\ req = [r \in Requests |->
                [stage |-> "new", circle |-> FALSE, status |-> "none",
                 bought |-> FALSE, onChain |-> "none", answer |-> NoAnswer,
                 after |-> {}]]
    /\ intent = [k \in Keys |-> [first |-> "none", now |-> "none"]]
    /\ payment = [k \in Keys |-> {}]
    /\ moved = {}
    /\ payout = [r \in Requests |-> {}]
    /\ row = [r \in Requests |-> NoRow]
    /\ forgot = {}

External == <<intent, payment, moved, payout>>

----------------------------------------------------------------------------
(* withIdempotency *)

Answer(r, code) ==
    req' = [req EXCEPT ![r] = [@ EXCEPT !.stage = "done",
                                        !.answer = [code |-> code, by |-> r]]]

\* (Operators named Bug... are not used by the specification: each is a
\* plausible mistake in the definition after it, listed in PROJECT.json.)

\* Only a success is remembered.
BugRemember(r, code) ==
    /\ Answer(r, code)
    /\ cache' = IF code = "accepted"
                THEN [cache EXCEPT ![at[r]] = [code |-> code, by |-> r]] ELSE cache

\* The handler has returned: whatever it answered is remembered for 24 hours in
\* its instance's map, over what another request may have put there meanwhile.
Remember(r, code) ==
    /\ Answer(r, code)
    /\ cache' = [cache EXCEPT ![at[r]] = [code |-> code, by |-> r]]

\* The handler throws: 500, and nothing is remembered.
Throw(r) ==
    /\ Answer(r, "error")
    /\ UNCHANGED cache

\* The instance that serves the request remembers an answer.
Replay(r) ==
    /\ req[r].stage = "new"
    /\ cache[at[r]] # NoAnswer
    /\ req' = [req EXCEPT ![r] = [@ EXCEPT !.stage = "done", !.answer = cache[at[r]]]]
    /\ UNCHANGED <<op, at, cache, card, External, row, forgot>>

Answered == {s \in Requests: /\ req[s].answer # NoAnswer
                             /\ req[s].answer.code # "error"}

\* It does not, whatever another instance has answered: the handler runs.
Enter(r) ==
    /\ req[r].stage = "new"
    /\ cache[at[r]] = NoAnswer
    /\ req' = [req EXCEPT ![r] = [@ EXCEPT !.stage = "reading", !.after = Answered]]
    /\ UNCHANGED <<op, at, cache, card, External, row, forgot>>

----------------------------------------------------------------------------
(* The handlers: createAddMoney and createPushToCardPayout *)

\* Not verified or not eligible: 404 or 403.
RefuseCard(r) ==
    /\ req[r].stage = "reading"
    /\ ~card.usable
    /\ Remember(r, "refused")
    /\ UNCHANGED <<op, at, card, External, row, forgot>>

\* The card as read here is the one the handler goes on with. With no payout
\* path configured no processor is called: a mock reference.
ReadCard(r) ==
    /\ req[r].stage = "reading"
    /\ card.usable
    /\ req' = [req EXCEPT ![r] =
                 [@ EXCEPT !.stage = IF op = "unconfigured" THEN "recording" ELSE "calling",
                           !.status = IF op = "unconfigured" THEN "pending_network" ELSE "none",
                           !.circle = card.circle]]
    /\ UNCHANGED <<op, at, cache, card, External, row, forgot>>

\* A key of the attempt's own, as circle-adapter.ts advises.
BugIntentKey(r) == r

\* The client's key goes to Stripe.
IntentKey(r) == ClientKey

\* circle_<client key>
PaymentKey(r) == ClientKey

\* What stripeCreateFundingIntent makes of a PaymentIntent's status.
Charged == [requires_action |-> "requires_action", processing |-> "authorized",
            succeeded |-> "captured", failed |-> "failed", none |-> "failed"]

\* A captured charge and a card that Circle knows. (A request without an address
\* to deliver to, and a Circle that is not configured, buy nothing either: the
\* same as a card Circle does not know.)
Buys(r, status) == status = "captured" /\ req[r].circle

\* The adapter returns. A failed charge is not an error of the handler.
ChargeReturns(r, status) ==
    req' = [req EXCEPT ![r] =
              [@ EXCEPT !.status = status,
                        !.stage = IF Buys(r, status) THEN "buying" ELSE "recording"]]

\* paymentIntents.create: Stripe makes one intent per key and answers a repeat
\* with what it answered first.
Charge(r) ==
    /\ op = "add_money"
    /\ req[r].stage = "calling"
    /\ LET k == IntentKey(r) IN
       \/ /\ intent[k].first = "none"
          /\ \E s \in IntentStatuses \ {"none"}:
               /\ intent' = [intent EXCEPT ![k] = [first |-> s, now |-> s]]
               /\ ChargeReturns(r, Charged[s])
       \/ /\ intent[k].first # "none"
          /\ ChargeReturns(r, Charged[intent[k].first])
          /\ UNCHANGED intent
    /\ UNCHANGED <<op, at, cache, card, payment, moved, payout, row, forgot>>

\* The call throws: refused as a duplicate in flight, or answered to nobody.
ChargeThrows(r) ==
    /\ op = "add_money"
    /\ req[r].stage = "calling"
    /\ \/ UNCHANGED intent
       \/ /\ intent[IntentKey(r)].first = "none"
          /\ \E s \in {"processing", "succeeded"}:
               intent' = [intent EXCEPT ![IntentKey(r)] = [first |-> s, now |-> s]]
    /\ ChargeReturns(r, "failed")
    /\ UNCHANGED <<op, at, cache, card, payment, moved, payout, row, forgot>>

BuyReturns(r, bought, onChain) ==
    req' = [req EXCEPT ![r] = [@ EXCEPT !.stage = "recording", !.bought = bought,
                                        !.onChain = onChain]]

\* circleCreateUsdcPurchase: one payment per key.
Buy(r) ==
    /\ req[r].stage = "buying"
    /\ LET k == PaymentKey(r) IN
       /\ payment' = [payment EXCEPT ![k] = @ \cup {"pending"}]
       /\ BuyReturns(r, TRUE, IF "failed" \in payment[k] THEN "failed" ELSE "pending")
    /\ UNCHANGED <<op, at, cache, card, intent, moved, payout, row, forgot>>

\* Not ok, no id, or no answer: failed, although Circle may have taken it.
BuyFails(r) ==
    /\ req[r].stage = "buying"
    /\ \/ UNCHANGED payment
       \/ payment' = [payment EXCEPT ![PaymentKey(r)] = @ \cup {"pending"}]
    /\ BuyReturns(r, FALSE, "failed")
    /\ UNCHANGED <<op, at, cache, card, intent, moved, payout, row, forgot>>

\* outboundTransfers.create (Treasury), or transfers.create, the first of the
\* two calls of a connected account. body.idempotencyKey is never set by the
\* callers, so each attempt is a new one to Stripe.
Transfer(r) ==
    /\ op \in {"treasury", "connect"}
    /\ req[r].stage = "calling"
    /\ moved' = moved \cup {r}
    /\ payout' = IF op = "treasury" THEN [payout EXCEPT ![r] = {"created"}] ELSE payout
    /\ req' = [req EXCEPT ![r] =
                 [@ EXCEPT !.stage = IF op = "treasury" THEN "recording" ELSE "paying",
                           !.status = "pending_network"]]
    /\ UNCHANGED <<op, at, cache, card, intent, payment, row, forgot>>

\* payouts.create on the connected account, the second call.
PayOut(r) ==
    /\ req[r].stage = "paying"
    /\ payout' = [payout EXCEPT ![r] = {"created"}]
    /\ req' = [req EXCEPT ![r].stage = "recording"]
    /\ UNCHANGED <<op, at, cache, card, intent, payment, moved, row, forgot>>

\* A call fails, or succeeds unheard: 422, no row, whatever was moved.
PayoutFails(r) ==
    /\ \/ /\ op \in {"treasury", "connect"}
          /\ req[r].stage = "calling"
          /\ \/ UNCHANGED <<moved, payout>>
             \/ /\ moved' = moved \cup {r}
                /\ payout' = IF op = "treasury" THEN [payout EXCEPT ![r] = {"created"}]
                             ELSE payout
       \/ /\ req[r].stage = "paying"
          /\ payout' \in {payout, [payout EXCEPT ![r] = {"created"}]}
          /\ UNCHANGED moved
    /\ Remember(r, "refused")
    /\ UNCHANGED <<op, at, card, intent, payment, row, forgot>>

NewRow(r) == [status |-> req[r].status, paid |-> req[r].bought,
              onChain |-> req[r].onChain]

\* INSERT ... ON CONFLICT DO NOTHING: a second funding of the key is accepted
\* and not there.
BugRecord(r) ==
    /\ req[r].stage = "recording"
    /\ row' = IF op = "add_money" /\ \E s \in Requests: row[s] # NoRow THEN row
              ELSE [row EXCEPT ![r] = NewRow(r)]
    /\ req' = [req EXCEPT ![r].stage = "logging"]
    /\ UNCHANGED <<op, at, cache, card, External, forgot>>

\* A funding's row carries the client's key, under a unique index; a payout's
\* a random one.
KeyTaken == op = "add_money" /\ \E s \in Requests: row[s] # NoRow

Record(r) ==
    /\ req[r].stage = "recording"
    /\ ~KeyTaken
    /\ row' = [row EXCEPT ![r] = NewRow(r)]
    /\ req' = [req EXCEPT ![r].stage = "logging"]
    /\ UNCHANGED <<op, at, cache, card, External, forgot>>

RecordConflict(r) ==
    /\ req[r].stage = "recording"
    /\ KeyTaken
    /\ Throw(r)
    /\ UNCHANGED <<op, at, card, External, row, forgot>>

\* dbInsertWebhookEvent, then 202.
Log(r) ==
    /\ req[r].stage = "logging"
    /\ Remember(r, "accepted")
    /\ UNCHANGED <<op, at, card, External, row, forgot>>

\* A query of the handler fails: the card is not read, the row not inserted, or
\* the row inserted and its event not.
QueryFails(r) ==
    /\ req[r].stage \in {"reading", "recording", "logging"}
    /\ Throw(r)
    /\ UNCHANGED <<op, at, card, External, row, forgot>>

----------------------------------------------------------------------------
(* The linked card, and the processors *)

\* unlinkLinkedDebitCard
Unlink ==
    /\ card.usable
    /\ card' = [card EXCEPT !.usable = FALSE]
    /\ UNCHANGED <<op, at, cache, req, External, row, forgot>>

\* updateLinkedCardCircleId
SetCircleId ==
    /\ ~card.circle
    /\ card' = [card EXCEPT !.circle = TRUE]
    /\ UNCHANGED <<op, at, cache, req, External, row, forgot>>

\* 3-D Secure is passed or given up; a processing charge ends.
IntentMoves(k) ==
    /\ intent[k].now \in {"requires_action", "processing"}
    /\ \E s \in {"succeeded", "failed"}: intent' = [intent EXCEPT ![k].now = s]
    /\ UNCHANGED <<op, at, cache, card, req, payment, moved, payout, row, forgot>>

\* pending, confirmed, paid; or failed before it is paid.
PaymentMoves(k) ==
    /\ payment[k] # {}
    /\ payment[k] \cap {"paid", "failed"} = {}
    /\ \E s \in IF "confirmed" \in payment[k] THEN {"paid", "failed"}
               ELSE {"confirmed", "failed"}:
         payment' = [payment EXCEPT ![k] = @ \cup {s}]
    /\ UNCHANGED <<op, at, cache, card, req, intent, moved, payout, row, forgot>>

\* created, then paid or failed; a paid one may be returned.
PayoutMoves(r) ==
    /\ payout[r] # {}
    /\ \E s \in IF payout[r] = {"created"} THEN {"paid", "failed"}
               ELSE IF payout[r] = {"created", "paid"} THEN {"returned"} ELSE {}:
         payout' = [payout EXCEPT ![r] = @ \cup {s}]
    /\ UNCHANGED <<op, at, cache, card, req, intent, payment, moved, row, forgot>>

----------------------------------------------------------------------------
(* Webhooks. A processor repeats and reorders its notifications: any status   *)
(* gone through may be notified at any time, any number of times. One that    *)
(* finds no row changes nothing, is answered 200, and is gone. An event of a  *)
(* PaymentIntent carries no funding id (its metadata has the account only),   *)
(* so it finds no row either: no action here.                                 *)

\* Circle's confirmed taken for the word of the same name.
BugOnChain == [pending |-> "pending", confirmed |-> "confirmed", paid |-> "confirmed",
               failed |-> "failed"]

\* circleStatusToOnChain
OnChain == [pending |-> "pending", confirmed |-> "pending", paid |-> "confirmed",
            failed |-> "failed"]

\* POST webhooks/circle: the row with the payment's id is updated, whatever it
\* says by now.
CircleNotifies(r, s) ==
    /\ row[r] # NoRow
    /\ row[r].paid
    /\ s \in payment[PaymentKey(r)]
    /\ row' = [row EXCEPT ![r] = [@ EXCEPT !.onChain = OnChain[s]]]
    /\ UNCHANGED <<op, at, cache, card, req, External, forgot>>

\* payoutStatusByEvent. created stands for payout.updated too.
PayoutStatus == [created |-> "pending_network", paid |-> "paid",
                 failed |-> "failed", returned |-> "returned"]

\* POST webhooks/card-processor: the row of metadata.payoutId is updated,
\* before the event is looked at as a duplicate.
ProcessorNotifies(r, s) ==
    /\ row[r] # NoRow
    /\ s \in payout[r]
    /\ row' = [row EXCEPT ![r] = [@ EXCEPT !.status = PayoutStatus[s]]]
    /\ UNCHANGED <<op, at, cache, card, req, External, forgot>>

----------------------------------------------------------------------------
\* The handlers that run on an instance.
Running(i) == {r \in Requests: at[r] = i /\ req[r].stage \in InFlight}

\* A process ends: its map and its running handlers are gone.
Restart(i) ==
    /\ cache[i] # NoAnswer \/ Running(i) # {}
    /\ cache' = [cache EXCEPT ![i] = NoAnswer]
    /\ req' = [r \in Requests |->
                 IF r \in Running(i) THEN [req[r] EXCEPT !.stage = "lost"] ELSE req[r]]
    /\ forgot' = forgot \cup {i}
    /\ UNCHANGED <<op, at, card, External, row>>

\* 24 hours pass since the answer was stored.
Expire(i) ==
    /\ cache[i] # NoAnswer
    /\ cache' = [cache EXCEPT ![i] = NoAnswer]
    /\ forgot' = forgot \cup {i}
    /\ UNCHANGED <<op, at, card, req, External, row>>

\* Every request has been answered or lost.
Done ==
    /\ \A r \in Requests: req[r].stage \in {"done", "lost"}
    /\ UNCHANGED vars

Handler(r) ==
    \/ Replay(r) \/ Enter(r)
    \/ RefuseCard(r) \/ ReadCard(r)
    \/ Charge(r) \/ ChargeThrows(r) \/ Buy(r) \/ BuyFails(r)
    \/ Transfer(r) \/ PayOut(r) \/ PayoutFails(r)
    \/ Record(r) \/ RecordConflict(r) \/ Log(r)
    \/ QueryFails(r)

World ==
    \/ Unlink \/ SetCircleId
    \/ \E k \in Keys: IntentMoves(k) \/ PaymentMoves(k)
    \/ \E r \in Requests: PayoutMoves(r)
    \/ \E r \in Requests, s \in PaymentStatuses: CircleNotifies(r, s)
    \/ \E r \in Requests, s \in PayoutEvents: ProcessorNotifies(r, s)
    \/ \E i \in Instances: Restart(i) \/ Expire(i)

Next ==
    \/ \E r \in Requests: Handler(r)
    \/ World
    \/ Done

Spec == Init /\ [][Next]_vars

----------------------------------------------------------------------------
\* However many requests with the key overlap, fail after their effect, reach
\* another instance or come back after a restart, the card is charged by one
\* PaymentIntent and USDC is bought by one Circle payment, and only once the
\* charge is captured: the maps in memory do not see to that, the keys handed on
\* to the processors do.
ChargedOnce ==
    /\ \A j, k \in Keys: intent[j].first # "none" /\ intent[k].first # "none" => j = k
    /\ \A j, k \in Keys: payment[j] # {} /\ payment[k] # {} => j = k
    /\ \A k \in Keys: payment[k] # {} => \E j \in Keys: intent[j].now = "succeeded"

\* A 202 the client holds, its own or a replayed one, names a row that exists;
\* and all the 202s of one add-money key name the same funding.
AcceptedRecorded ==
    \A r, s \in Requests:
        /\ req[r].answer # NoAnswer /\ req[r].answer.code = "accepted"
        /\ req[s].answer # NoAnswer /\ req[s].answer.code = "accepted"
        => /\ row[req[r].answer.by] # NoRow
           /\ op = "add_money" => req[r].answer.by = req[s].answer.by

\* A handler that runs although another request of the key was answered before
\* it began, runs on another instance than that one, or on one that has lost its
\* map or let the answer expire: that, and requests in flight together, is all
\* that makes a payout be transferred twice. (Two instances do transfer it twice
\* though nothing is lost: the map is no more than this.)
NothingAfterAnswer ==
    \A r, s \in Requests:
        s \in req[r].after => at[s] # at[r] \/ at[r] \in forgot

\* What a row says of money is so: captured only if the card was charged,
\* confirmed only if Circle has settled, paid only if the network has paid.
StatusGenuine ==
    \A r \in Requests: row[r] # NoRow =>
        /\ row[r].status = "captured" => \E k \in Keys: intent[k].now = "succeeded"
        /\ row[r].onChain = "confirmed" => \E k \in Keys: "paid" \in payment[k]
        /\ row[r].status \in {"paid", "returned"} => row[r].status \in payout[r]
=============================================================================
