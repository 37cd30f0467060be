--------------------------- MODULE ZeroHashWebhook ---------------------------
(***************************************************************************)
(* POST /webhooks/zerohash: deliveries of provider events, the dedupe table*)
(* provider_webhook_events, and the order they move.                       *)
(*                                                                         *)
(* Zero Hash delivers an event again until it is answered 200, and may     *)
(* deliver it twice anyway, so deliveries of one event, and of several,    *)
(* overlap. withTransaction takes one client of the pool for BEGIN and     *)
(* COMMIT, but the statements inside go through query(), each on a second  *)
(* client: they commit one by one, and they need the pool to have one more.*)
(*                                                                         *)
(* One order is followed; orders share nothing but the pool. Abstracted:   *)
(* payloads and provider statuses; an event is the status it maps to.      *)
(* Deliveries here have passed the signature and shape checks, which       *)
(* change no state.                                                        *)
(***************************************************************************)
EXTENDS Integers, FiniteSets

CONSTANTS
    Deliveries, \* slots: an ended delivery may be delivered again
    Events,     \* provider_event_ids
    Transfers,  \* transfers of the order's quote, one per idempotency key
    StatusOf,   \* PROVIDER_STATUS_MAP of the event's type
    TransferOf, \* transfer_id of the event
    NoTransfer,
    PoolSize    \* DB_POOL_MAX

OrderStatuses == {"IN_TRANSIT", "SETTLED", "FAILED", "COMPLIANCE_HOLD"}

\* none: informational, of a type not mapped, or without a transfer id.
ASSUME EventsAssumption ==
    /\ StatusOf \in [Events -> OrderStatuses \cup {"none"}]
    /\ TransferOf \in [Events -> Transfers]
    /\ NoTransfer \notin Transfers

ASSUME PoolAssumption == PoolSize \in Nat \ {0} /\ IsFiniteSet(Deliveries)

VARIABLES
    records,    \* provider_webhook_events
    order,      \* the order: its status and its provider_transfer_id
    delivery,   \* per delivery: its event, and what it awaits
    decided,    \* history: events that were held against the order
    published,  \* events whose domain event was published
    overtaken   \* history: deliveries about to update an order that somebody
                \* else wrote since their SELECT

vars == <<records, order, delivery, decided, published, overtaken>>

\* sent to connecting hold no client; reading to committing hold the one of
\* their transaction. ignoring: no order has the transfer. noting: no order is
\* to be looked for.
InTransaction == {"reading", "updating", "marking", "ignoring", "publishing",
                  "committing"}

InFlight == {"sent", "fetching", "noting", "connecting"} \cup InTransaction

Stages == InFlight \cup {"ok", "failed"}

Event(d) == delivery[d].event

At(d, stage) == delivery[d].stage = stage

\* Deliveries between their SELECT and their UPDATE.
Updating == {d \in Deliveries: At(d, "updating")}

TypeOK ==
    /\ records \in [Events -> {"absent", "pending", "processed"}]
    /\ order \in [status: OrderStatuses, transfer: Transfers \cup {NoTransfer}]
    /\ delivery \in [Deliveries -> [event: Events, stage: Stages]]
    /\ decided \subseteq Events
    /\ published \subseteq Events
    /\ overtaken \subseteq Updating

\* createOrder inserts the order IN_TRANSIT, without provider_transfer_id.
Init ==
    /\ records = [e \in Events |-> "absent"]
    /\ order = [status |-> "IN_TRANSIT", transfer |-> NoTransfer]
    /\ delivery \in [Deliveries -> [event: Events, stage: {"sent"}]]
    /\ decided = {}
    /\ published = {}
    /\ overtaken = {}

----------------------------------------------------------------------------
Goto(d, stage) == delivery' = [delivery EXCEPT ![d].stage = stage]

Rank(status) == IF status = "IN_TRANSIT" THEN 1 ELSE 2

\* Deliveries whose transaction holds a client.
Held == {d \in Deliveries: delivery[d].stage \in InTransaction}

\* Every query(), and every connect(), waits for this.
ClientFree == Cardinality(Held) < PoolSize

\* (Operators named Bug... are not used by the specification: each is a
\* plausible mistake in the definition after it, listed in PROJECT.json.)

\* connectionTimeoutMillis left at the library's default: wait forever.
BugClientTimesOut == FALSE

\* No client for connectionTimeoutMillis.
ClientTimesOut == ~ClientFree

----------------------------------------------------------------------------
(* insertEventRecord *)

\* The record is inserted as processed.
BugRecord(d) ==
    /\ At(d, "sent")
    /\ ClientFree
    /\ records[Event(d)] = "absent"
    /\ records' = [records EXCEPT ![Event(d)] = "processed"]
    /\ Goto(d, IF StatusOf[Event(d)] = "none" THEN "noting" ELSE "connecting")
    /\ UNCHANGED <<order, decided, published, overtaken>>

\* INSERT ... ON CONFLICT DO NOTHING inserts.
Record(d) ==
    /\ At(d, "sent")
    /\ ClientFree
    /\ records[Event(d)] = "absent"
    /\ records' = [records EXCEPT ![Event(d)] = "pending"]
    /\ Goto(d, IF StatusOf[Event(d)] = "none" THEN "noting" ELSE "connecting")
    /\ UNCHANGED <<order, decided, published, overtaken>>

\* It conflicts: the record is fetched next.
Conflict(d) ==
    /\ At(d, "sent")
    /\ ClientFree
    /\ records[Event(d)] # "absent"
    /\ Goto(d, "fetching")
    /\ UNCHANGED <<records, order, decided, published, overtaken>>

\* 200, duplicate: true.
Duplicate(d) ==
    /\ At(d, "fetching")
    /\ ClientFree
    /\ records[Event(d)] = "processed"
    /\ Goto(d, "ok")
    /\ UNCHANGED <<records, order, decided, published, overtaken>>

\* Known, not processed: an attempt failed, or another delivery is at it.
Again(d) ==
    /\ At(d, "fetching")
    /\ ClientFree
    /\ records[Event(d)] = "pending"
    /\ Goto(d, IF StatusOf[Event(d)] = "none" THEN "noting" ELSE "connecting")
    /\ UNCHANGED <<records, order, decided, published, overtaken>>

\* markProcessed for an event that concerns no order.
Note(d) ==
    /\ At(d, "noting")
    /\ ClientFree
    /\ records' = [records EXCEPT ![Event(d)] = "processed"]
    /\ \E stage \in {"ok", "failed"}: Goto(d, stage)
    /\ UNCHANGED <<order, decided, published, overtaken>>

----------------------------------------------------------------------------
(* withTransaction *)

Connect(d) ==
    /\ At(d, "connecting")
    /\ ClientFree
    /\ Goto(d, "reading")
    /\ UNCHANGED <<records, order, decided, published, overtaken>>

\* The statuses are not compared.
BugAdvances(d) == TRUE

\* newRank > currentRank, or the order is IN_TRANSIT.
Advances(d) ==
    \/ Rank(StatusOf[Event(d)]) > Rank(order.status)
    \/ order.status = "IN_TRANSIT"

\* SELECT ... WHERE provider_transfer_id: no order.
ReadNone(d) ==
    /\ At(d, "reading")
    /\ ClientFree
    /\ order.transfer # TransferOf[Event(d)]
    /\ decided' = decided \cup {Event(d)}
    /\ Goto(d, "ignoring")
    /\ UNCHANGED <<records, order, published, overtaken>>

\* The status would not advance: the UPDATE is skipped, the rest is not.
ReadSkip(d) ==
    /\ At(d, "reading")
    /\ ClientFree
    /\ order.transfer = TransferOf[Event(d)]
    /\ ~Advances(d)
    /\ decided' = decided \cup {Event(d)}
    /\ Goto(d, "marking")
    /\ UNCHANGED <<records, order, published, overtaken>>

ReadAdvance(d) ==
    /\ At(d, "reading")
    /\ ClientFree
    /\ order.transfer = TransferOf[Event(d)]
    /\ Advances(d)
    /\ Goto(d, "updating")
    /\ UNCHANGED <<records, order, decided, published, overtaken>>

\* UPDATE ... WHERE order_id, whatever the row holds by now. It commits at once;
\* the reply may be lost, and ROLLBACK, on the other client, undoes nothing.
UpdateOrder(d) ==
    /\ At(d, "updating")
    /\ ClientFree
    /\ order' = [order EXCEPT !.status = StatusOf[Event(d)]]
    /\ decided' = decided \cup {Event(d)}
    /\ overtaken' = (overtaken \cup Updating) \ {d}
    /\ \E stage \in {"marking", "failed"}: Goto(d, stage)
    /\ UNCHANGED <<records, published>>

\* The error of the UPDATE is only logged.
BugMarkProcessed(d) ==
    /\ delivery[d].stage \in {"marking", "ignoring"}
    /\ ClientFree
    /\ records' \in {records, [records EXCEPT ![Event(d)] = "processed"]}
    /\ Goto(d, IF At(d, "marking") THEN "publishing" ELSE "committing")
    /\ UNCHANGED <<order, decided, published, overtaken>>

MarkProcessed(d) ==
    /\ delivery[d].stage \in {"marking", "ignoring"}
    /\ ClientFree
    /\ records' = [records EXCEPT ![Event(d)] = "processed"]
    /\ \/ Goto(d, IF At(d, "marking") THEN "publishing" ELSE "committing")
       \/ Goto(d, "failed")
    /\ UNCHANGED <<order, decided, published, overtaken>>

\* Published, also when the UPDATE was skipped; the bus may fail afterwards.
Publish(d) ==
    /\ At(d, "publishing")
    /\ published' = published \cup {Event(d)}
    /\ \E stage \in {"committing", "failed"}: Goto(d, stage)
    /\ UNCHANGED <<records, order, decided, overtaken>>

\* COMMIT of an empty transaction; 200.
Commit(d) ==
    /\ At(d, "committing")
    /\ Goto(d, "ok")
    /\ UNCHANGED <<records, order, decided, published, overtaken>>

----------------------------------------------------------------------------
(* Failures *)

\* Every processing error is answered 200, as the comment has it.
BugAbort(d) ==
    /\ delivery[d].stage \in {"noting", "connecting"} \cup InTransaction
    /\ Goto(d, "ok")
    /\ overtaken' = overtaken \ {d}
    /\ UNCHANGED <<records, order, decided, published>>

\* An error before the effect of an await: ROLLBACK, release, 500.
Abort(d) ==
    /\ delivery[d].stage \in {"noting", "connecting"} \cup InTransaction
    /\ Goto(d, "failed")
    /\ overtaken' = overtaken \ {d}
    /\ UNCHANGED <<records, order, decided, published>>

\* The process ends, with its clients and the deliveries it was serving.
Down ==
    /\ delivery' = [d \in Deliveries |->
                      IF delivery[d].stage \in InFlight
                      THEN [delivery[d] EXCEPT !.stage = "failed"]
                      ELSE delivery[d]]
    /\ overtaken' = {}
    /\ UNCHANGED <<order, decided, published>>

\* insertEventRecord throws outside the try: the rejected promise of the handler
\* is nobody's, and ends the process. The INSERT may have been made.
DedupeFails(d) ==
    /\ delivery[d].stage \in {"sent", "fetching"}
    /\ \/ records' = records
       \/ /\ At(d, "sent")
          /\ records[Event(d)] = "absent"
          /\ records' = [records EXCEPT ![Event(d)] = "pending"]
    /\ Down

\* No client in time: the await throws.
TimesOut(d) ==
    /\ ClientTimesOut
    /\ \/ delivery[d].stage \notin {"publishing", "committing"} /\ Abort(d)
       \/ DedupeFails(d) /\ UNCHANGED records

Crash ==
    /\ \E d \in Deliveries: delivery[d].stage \in InFlight
    /\ Down
    /\ UNCHANGED records

----------------------------------------------------------------------------
(* Zero Hash and the order route *)

\* Not answered 200, or answered and delivered again all the same.
Redeliver(d) ==
    /\ delivery[d].stage \in {"ok", "failed"}
    /\ Goto(d, "sent")
    /\ UNCHANGED <<records, order, decided, published, overtaken>>

\* The UPDATE of _submitZeroHash, WHERE order_id: each createOrder call of the
\* quote makes it, with the transfer of its key, whatever status the row has.
\* (updateOrderStatus of finalizeOrder is never reached: README, section 7.)
LinkOrder ==
    /\ ClientFree
    /\ \E status \in {"IN_TRANSIT", "SETTLED"}, t \in Transfers:
         order' = [status |-> status, transfer |-> t]
    /\ overtaken' = overtaken \cup Updating
    /\ UNCHANGED <<records, delivery, decided, published>>

Handle(d) ==
    \/ Record(d) \/ Conflict(d) \/ Duplicate(d) \/ Again(d) \/ Note(d)
    \/ Connect(d) \/ ReadNone(d) \/ ReadSkip(d) \/ ReadAdvance(d)
    \/ UpdateOrder(d) \/ MarkProcessed(d) \/ Publish(d) \/ Commit(d)
    \/ TimesOut(d)

Next ==
    \/ \E d \in Deliveries: Handle(d) \/ Abort(d) \/ DedupeFails(d) \/ Redeliver(d)
    \/ Crash
    \/ LinkOrder

\* What a handler awaits returns, throws, or runs into the pool's timeout.
DeliveryFairness(d) == WF_vars(Handle(d))

Spec == Init /\ [][Next]_vars /\ \A d \in Deliveries: DeliveryFairness(d)

----------------------------------------------------------------------------
\* Zero Hash is told 200, and stops, only for an event that is processed: an
\* attempt that died, timed out or overlapped another never swallows it.
AckedProcessed ==
    \A d \in Deliveries: At(d, "ok") => records[Event(d)] = "processed"

\* An event for an order is processed, so never looked at again, only after it
\* was held against the order: written, skipped, or no order had the transfer.
ProcessedDecided ==
    \A e \in Events: records[e] = "processed" /\ StatusOf[e] # "none" => e \in decided

\* Subscribers hear only of events that are processed: no domain event is about
\* a provider event whose next delivery would be taken for a first one.
PublishedProcessed == \A e \in published: records[e] = "processed" /\ e \in decided

\* "Only advance status - never roll back (e.g. don't IN_TRANSIT a SETTLED order)"
\* (applyOrderTransition): no UPDATE of a delivery lowers the order's rank.
NeverRollBack ==
    [][\A d \in Deliveries:
         UpdateOrder(d) => Rank(order'.status) >= Rank(order.status)]_vars

\* What the unlocked SELECT is good for: a delivery replaces a final status, or
\* moves an order that has another transfer by now, only if another delivery or
\* a createOrder call wrote the row between its SELECT and its UPDATE. Events
\* that follow each other, repeat or come late never do.
StaleOnlyIfOvertaken ==
    [][\A d \in Deliveries \ overtaken:
         UpdateOrder(d) => /\ order.status = "IN_TRANSIT"
                           /\ order.transfer = TransferOf[Event(d)]]_vars

\* A delivery ends: deliveries that hold a client each while waiting for another
\* one do not wait for each other forever.
DeliveryEnds ==
    \A d \in Deliveries:
        (delivery[d].stage \in InFlight) ~> (delivery[d].stage \notin InFlight)
=============================================================================
