------------------------ MODULE ZeroHashWebhookProofs ------------------------
(***************************************************************************)
(* The webhook is right for any number of deliveries and events, over a    *)
(* pool of any size: what is acknowledged is processed, what is processed  *)
(* was held against the order, and a status is replaced wrongly only where *)
(* two writers of the order overlap.                                       *)
(*                                                                         *)
(* The strengthening is what a delivery knows at each await.               *)
(***************************************************************************)
EXTENDS ZeroHashWebhook, TLAPS

\* What a delivery knows where it stands.
StageInv ==
    \A d \in Deliveries:
        /\ delivery[d].stage \in {"marking", "ignoring", "publishing", "committing"} =>
             Event(d) \in decided
        /\ delivery[d].stage \in {"publishing", "committing", "ok"} =>
             records[Event(d)] = "processed"
        /\ delivery[d].stage = "noting" => StatusOf[Event(d)] = "none"
        /\ delivery[d].stage \in {"connecting"} \cup InTransaction =>
             StatusOf[Event(d)] # "none"

\* A delivery that is about to update the order read it IN_TRANSIT and with the
\* transfer of its event; so it still is, unless somebody wrote it since.
UpdatingInv ==
    \A d \in Updating \ overtaken:
        order.status = "IN_TRANSIT" /\ order.transfer = TransferOf[Event(d)]

Inv ==
    /\ TypeOK
    /\ StageInv
    /\ UpdatingInv
    /\ ProcessedDecided
    /\ PublishedProcessed

LEMMA InitInv == Init => Inv
<1> SUFFICES ASSUME Init PROVE Inv
  OBVIOUS
<1>1. \A d \in Deliveries: delivery[d] \in [event: Events, stage: Stages]
                           /\ delivery[d].stage = "sent"
  BY DEF Init, Stages, InFlight
<1>2. delivery \in [Deliveries -> [event: Events, stage: Stages]]
  BY <1>1 DEF Init
<1>3. TypeOK
  BY <1>2 DEF Init, TypeOK, OrderStatuses
<1>4. QED
  BY <1>1, <1>3 DEF Init, Inv, StageInv, UpdatingInv, ProcessedDecided,
     PublishedProcessed, InTransaction, Updating, At

\* After delivery d moved to the stage, those about to update still may.
MayUpdate(d, stage) ==
    \A c \in Deliveries \ overtaken':
        (IF c = d THEN stage ELSE delivery[c].stage) = "updating" =>
          order'.status = "IN_TRANSIT" /\ order'.transfer = TransferOf[Event(c)]

\* One delivery moves to another stage. Records and decisions only grow; what
\* it must know at its new stage, and what the change must leave true for the
\* others, are hypotheses.
LEMMA MoveStep ==
    ASSUME Inv, NEW d \in Deliveries, NEW stage \in Stages, Goto(d, stage),
           TypeOK',
           decided \subseteq decided',
           \A e \in Events: records[e] = "processed" => records'[e] = "processed",
           \A e \in Events: records'[e] = "processed" /\ StatusOf[e] # "none"
                              => e \in decided',
           \A e \in published' : records'[e] = "processed" /\ e \in decided',
           stage \in {"marking", "ignoring", "publishing", "committing"} =>
             Event(d) \in decided',
           stage \in {"publishing", "committing", "ok"} =>
             records'[Event(d)] = "processed",
           stage = "noting" => StatusOf[Event(d)] = "none",
           stage \in {"connecting"} \cup InTransaction => StatusOf[Event(d)] # "none",
           MayUpdate(d, stage)
    PROVE  Inv'
<1>1. /\ \A c \in Deliveries: delivery'[c].event = delivery[c].event
      /\ \A c \in Deliveries: delivery'[c].event \in Events
      /\ \A c \in Deliveries:
           delivery'[c].stage = IF c = d THEN stage ELSE delivery[c].stage
  BY DEF Goto, Inv, TypeOK
<1>2. StageInv'
  BY <1>1 DEF Inv, StageInv, Event
<1>3. UpdatingInv'
  BY <1>1 DEF UpdatingInv, MayUpdate, Updating, At, Event
<1>4. QED
  BY <1>2, <1>3 DEF Inv, ProcessedDecided, PublishedProcessed

\* The same when nothing but the delivery changes.
LEMMA OnlyMoves ==
    ASSUME Inv, NEW d \in Deliveries, NEW stage \in Stages, Goto(d, stage),
           UNCHANGED <<records, order, decided, published, overtaken>>,
           stage \in {"marking", "ignoring", "publishing", "committing"} =>
             Event(d) \in decided,
           stage \in {"publishing", "committing", "ok"} =>
             records[Event(d)] = "processed",
           stage = "noting" => StatusOf[Event(d)] = "none",
           stage \in {"connecting"} \cup InTransaction => StatusOf[Event(d)] # "none",
           stage = "updating" =>
             order.status = "IN_TRANSIT" /\ order.transfer = TransferOf[Event(d)],
           delivery[d].stage # "updating"
    PROVE  Inv'
<1>1. TypeOK'
  BY DEF Goto, Inv, TypeOK, Updating, At
<1>2. MayUpdate(d, stage)
  BY DEF Inv, UpdatingInv, MayUpdate, Updating, At
<1>3. /\ \A e \in Events: records'[e] = "processed" /\ StatusOf[e] # "none"
                            => e \in decided'
      /\ \A e \in published' : records'[e] = "processed" /\ e \in decided'
  BY DEF Inv, ProcessedDecided, PublishedProcessed
<1>4. QED
  BY <1>1, <1>2, <1>3, MoveStep

\* The dedupe record is written or read, and the delivery goes on.
LEMMA DedupeStep ==
    ASSUME Inv, NEW d \in Deliveries, Record(d) \/ Conflict(d) \/ Duplicate(d) \/ Again(d)
    PROVE  Inv'
<1>1. Event(d) \in Events /\ {"noting", "connecting", "fetching", "ok"} \subseteq Stages
  BY DEF Inv, TypeOK, Event, Stages, InFlight
<1> DEFINE next == IF StatusOf[Event(d)] = "none" THEN "noting" ELSE "connecting"
<1>2. /\ next \in Stages /\ next \in {"noting", "connecting"}
      /\ next = "noting" => StatusOf[Event(d)] = "none"
      /\ next = "connecting" => StatusOf[Event(d)] # "none"
  BY <1>1
<1>3. CASE Record(d)
  <2>1. TypeOK'
    BY <1>3, <1>2, <1>1 DEF Record, Goto, Inv, TypeOK, Updating, At
  <2>2. /\ \A e \in Events: records'[e] = "processed" <=> records[e] = "processed"
        /\ order' = order /\ decided' = decided /\ published' = published
        /\ overtaken' = overtaken
        /\ Goto(d, next)
    BY <1>3, <1>1 DEF Record, Inv, TypeOK
  <2> HIDE DEF next
  <2>3. \A e \in published': records'[e] = "processed" /\ e \in decided'
    BY <2>2 DEF Inv, TypeOK, PublishedProcessed
  <2>4. MayUpdate(d, next)
    BY <1>2, <2>2 DEF Inv, UpdatingInv, MayUpdate, Updating, At
  <2>5. QED
    BY <1>2, <2>1, <2>2, <2>3, <2>4, MoveStep DEF Inv, ProcessedDecided, InTransaction
<1>4. CASE Conflict(d)
  BY <1>4, <1>1, OnlyMoves DEF Conflict, InTransaction, At
<1>5. CASE Duplicate(d)
  BY <1>5, <1>1, OnlyMoves DEF Duplicate, InTransaction, At
<1>6. CASE Again(d)
  <2>1. /\ Goto(d, next) /\ delivery[d].stage # "updating"
        /\ UNCHANGED <<records, order, decided, published, overtaken>>
    BY <1>6 DEF Again, At
  <2> HIDE DEF next
  <2>2. QED
    BY <2>1, <1>2, OnlyMoves DEF InTransaction
<1>7. QED
  BY <1>3, <1>4, <1>5, <1>6

\* The record is marked, inside a transaction or without one.
LEMMA MarkStep ==
    ASSUME Inv, NEW d \in Deliveries, Note(d) \/ MarkProcessed(d)
    PROVE  Inv'
<1>1. PICK stage \in {"ok", "failed", "publishing", "committing"}: Goto(d, stage)
  BY DEF Note, MarkProcessed
<1>2. /\ records' = [records EXCEPT ![Event(d)] = "processed"]
      /\ UNCHANGED <<order, decided, published, overtaken>>
      /\ delivery[d].stage \in {"noting", "marking", "ignoring"}
      /\ stage \in {"publishing", "committing"} =>
           delivery[d].stage \in {"marking", "ignoring"}
  BY <1>1 DEF Note, MarkProcessed, At, Goto, Inv, TypeOK
<1>3. Event(d) \in Events /\ stage \in Stages
  BY DEF Inv, TypeOK, Event, Stages, InFlight, InTransaction
<1>4. TypeOK'
  BY <1>1, <1>2, <1>3 DEF Goto, Inv, TypeOK, Updating, At
<1>5. /\ \A e \in Events: records[e] = "processed" => records'[e] = "processed"
      /\ \A e \in Events \ {Event(d)}: records'[e] = records[e]
      /\ records'[Event(d)] = "processed"
  BY <1>2, <1>3 DEF Inv, TypeOK
<1>6. StatusOf[Event(d)] # "none" => Event(d) \in decided
  BY <1>2 DEF Inv, StageInv
<1>7. \A e \in Events: records'[e] = "processed" /\ StatusOf[e] # "none" => e \in decided'
  BY <1>2, <1>5, <1>6 DEF Inv, ProcessedDecided
<1>8. \A e \in published': records'[e] = "processed" /\ e \in decided'
  BY <1>2, <1>5 DEF Inv, TypeOK, PublishedProcessed
<1>9. /\ stage \in {"publishing", "committing"} =>
           Event(d) \in decided' /\ StatusOf[Event(d)] # "none"
      /\ stage \notin {"marking", "ignoring", "updating", "noting", "connecting", "reading"}
  BY <1>2 DEF Inv, StageInv, InTransaction
<1>10. MayUpdate(d, stage)
  BY <1>2, <1>9 DEF Inv, UpdatingInv, MayUpdate, Updating, At
<1>11. QED
  BY <1>1, <1>2, <1>3, <1>4, <1>5, <1>7, <1>8, <1>9, <1>10, MoveStep
     DEF InTransaction

\* The order is looked up, and the event held against it.
LEMMA ReadStep ==
    ASSUME Inv, NEW d \in Deliveries,
           Connect(d) \/ ReadNone(d) \/ ReadSkip(d) \/ ReadAdvance(d)
    PROVE  Inv'
<1>1. Event(d) \in Events /\ {"reading", "ignoring", "marking", "updating"} \subseteq Stages
  BY DEF Inv, TypeOK, Event, Stages, InFlight, InTransaction
<1>2. StatusOf[Event(d)] # "none"
  BY DEF Connect, ReadNone, ReadSkip, ReadAdvance, At, Inv, StageInv, InTransaction
<1>3. CASE Connect(d)
  BY <1>1, <1>2, <1>3, OnlyMoves DEF Connect, At
<1>4. CASE ReadNone(d) \/ ReadSkip(d)
  <2>1. PICK stage \in {"ignoring", "marking"}: Goto(d, stage)
    BY <1>4 DEF ReadNone, ReadSkip
  <2>2. /\ decided' = decided \cup {Event(d)}
        /\ UNCHANGED <<records, order, published, overtaken>>
        /\ delivery[d].stage = "reading"
    BY <1>4 DEF ReadNone, ReadSkip, At
  <2>3. TypeOK'
    BY <2>1, <2>2, <1>1 DEF Goto, Inv, TypeOK, Updating, At
  <2>4. /\ \A e \in Events: records'[e] = "processed" /\ StatusOf[e] # "none"
                              => e \in decided'
        /\ \A e \in published': records'[e] = "processed" /\ e \in decided'
    BY <2>2 DEF Inv, ProcessedDecided, PublishedProcessed
  <2>5. MayUpdate(d, stage)
    BY <2>1, <2>2 DEF Inv, UpdatingInv, MayUpdate, Updating, At
  <2>6. QED
    BY <2>1, <2>2, <2>3, <2>4, <2>5, <1>1, <1>2, MoveStep
<1>5. CASE ReadAdvance(d)
  <2>1. order.status = "IN_TRANSIT" /\ order.transfer = TransferOf[Event(d)]
    BY <1>5 DEF ReadAdvance, Advances, Rank, Inv, TypeOK
  <2>2. QED
    BY <1>1, <1>2, <1>5, <2>1, OnlyMoves DEF ReadAdvance, At
<1>6. QED
  BY <1>3, <1>4, <1>5

\* The order is written: whoever else is about to is overtaken.
LEMMA UpdateStep ==
    ASSUME Inv, NEW d \in Deliveries, UpdateOrder(d)
    PROVE  Inv'
<1>1. /\ delivery[d].stage = "updating"
      /\ order' = [order EXCEPT !.status = StatusOf[Event(d)]]
      /\ decided' = decided \cup {Event(d)}
      /\ overtaken' = Updating \ {d}
      /\ UNCHANGED <<records, published>>
  BY DEF UpdateOrder, At, Inv, TypeOK
<1>2. PICK stage \in {"marking", "failed"}: Goto(d, stage)
  BY DEF UpdateOrder
<1>3. /\ Event(d) \in Events /\ stage \in Stages
      /\ StatusOf[Event(d)] \in OrderStatuses
  BY <1>1, EventsAssumption
     DEF Inv, TypeOK, StageInv, Event, Stages, InFlight, InTransaction
<1>4. TypeOK'
  BY <1>1, <1>2, <1>3 DEF Goto, Inv, TypeOK, Updating, At
<1>5. MayUpdate(d, stage)
  BY <1>1, <1>2 DEF MayUpdate, Updating, At
<1>6. /\ \A e \in Events: records'[e] = "processed" /\ StatusOf[e] # "none"
                            => e \in decided'
      /\ \A e \in published': records'[e] = "processed" /\ e \in decided'
  BY <1>1 DEF Inv, ProcessedDecided, PublishedProcessed
<1>7. StatusOf[Event(d)] # "none"
  BY <1>3 DEF OrderStatuses
<1>8. QED
  BY <1>1, <1>2, <1>3, <1>4, <1>5, <1>6, <1>7, MoveStep

\* The domain event is published; the transaction is closed.
LEMMA CloseStep ==
    ASSUME Inv, NEW d \in Deliveries, Publish(d) \/ Commit(d)
    PROVE  Inv'
<1>1. /\ Event(d) \in Events /\ {"committing", "ok", "failed"} \subseteq Stages
      /\ records[Event(d)] = "processed" /\ Event(d) \in decided
      /\ StatusOf[Event(d)] # "none"
  BY DEF Publish, Commit, At, Inv, TypeOK, StageInv, Event, Stages, InFlight, InTransaction
<1>2. CASE Publish(d)
  <2>1. PICK stage \in {"committing", "failed"}: Goto(d, stage)
    BY <1>2 DEF Publish
  <2>2. /\ published' = published \cup {Event(d)}
        /\ UNCHANGED <<records, order, decided, overtaken>>
        /\ delivery[d].stage = "publishing"
    BY <1>2 DEF Publish, At
  <2>3. TypeOK'
    BY <2>1, <2>2, <1>1 DEF Goto, Inv, TypeOK, Updating, At
  <2>4. /\ \A e \in Events: records'[e] = "processed" /\ StatusOf[e] # "none"
                              => e \in decided'
        /\ \A e \in published': records'[e] = "processed" /\ e \in decided'
    BY <2>2, <1>1 DEF Inv, ProcessedDecided, PublishedProcessed
  <2>5. MayUpdate(d, stage)
    BY <2>1, <2>2 DEF Inv, UpdatingInv, MayUpdate, Updating, At
  <2>6. QED
    BY <2>1, <2>2, <2>3, <2>4, <2>5, <1>1, MoveStep DEF InTransaction
<1>3. CASE Commit(d)
  BY <1>1, <1>3, OnlyMoves DEF Commit, InTransaction, At
<1>4. QED
  BY <1>2, <1>3

\* A delivery fails, or is sent again.
LEMMA EndStep ==
    ASSUME Inv, NEW d \in Deliveries, Abort(d) \/ Redeliver(d)
    PROVE  Inv'
<1>1. {"failed", "sent"} \subseteq Stages
  BY DEF Stages, InFlight
<1>2. CASE Abort(d)
  <2>1. /\ Goto(d, "failed") /\ overtaken' = overtaken \ {d}
        /\ UNCHANGED <<records, order, decided, published>>
    BY <1>2 DEF Abort
  <2>2. TypeOK'
    BY <2>1, <1>1 DEF Goto, Inv, TypeOK, Updating, At
  <2>3. MayUpdate(d, "failed")
    BY <2>1 DEF Inv, UpdatingInv, MayUpdate, Updating, At
  <2>4. QED
    BY <1>1, <2>1, <2>2, <2>3, MoveStep
       DEF Inv, ProcessedDecided, PublishedProcessed, InTransaction
<1>3. CASE Redeliver(d)
  BY <1>1, <1>3, OnlyMoves DEF Redeliver, InTransaction
<1>4. QED
  BY <1>2, <1>3

\* The process ends; a record may have been inserted just before.
LEMMA DownStep ==
    ASSUME Inv, Down,
           records' \in [Events -> {"absent", "pending", "processed"}],
           \A e \in Events: records'[e] = "processed" <=> records[e] = "processed"
    PROVE  Inv'
<1>1. /\ \A d \in Deliveries: delivery'[d] \in [event: Events, stage: Stages]
      /\ \A d \in Deliveries: delivery'[d].event = delivery[d].event
      /\ \A d \in Deliveries:
           \/ delivery'[d].stage = "failed"
           \/ delivery'[d].stage = "ok" /\ delivery[d].stage = "ok"
      /\ UNCHANGED <<order, decided, published>> /\ overtaken' = {}
  BY DEF Down, Inv, TypeOK, Stages
<1>2. TypeOK'
  BY <1>1 DEF Down, Inv, TypeOK
<1>3. StageInv'
  BY <1>1 DEF Inv, TypeOK, StageInv, Event, InTransaction
<1>4. UpdatingInv'
  BY <1>1 DEF UpdatingInv, Updating, At
<1>5. ProcessedDecided' /\ PublishedProcessed'
  BY <1>1 DEF Inv, TypeOK, ProcessedDecided, PublishedProcessed
<1>6. QED
  BY <1>2, <1>3, <1>4, <1>5 DEF Inv

LEMMA DedupeFailsStep ==
    ASSUME Inv, NEW d \in Deliveries, DedupeFails(d)
    PROVE  Inv'
<1>1. Down /\ Event(d) \in Events
  BY DEF DedupeFails, Inv, TypeOK, Event
<1>2. /\ records' \in [Events -> {"absent", "pending", "processed"}]
      /\ \A e \in Events: records'[e] = "processed" <=> records[e] = "processed"
  BY <1>1 DEF DedupeFails, Inv, TypeOK
<1>3. QED
  BY <1>1, <1>2, DownStep

\* A call of the order route writes the order: who was about to is overtaken.
LEMMA LinkStep == Inv /\ LinkOrder => Inv'
<1> SUFFICES ASSUME Inv, LinkOrder PROVE Inv'
  OBVIOUS
<1>1. TypeOK'
  BY DEF LinkOrder, Inv, TypeOK, OrderStatuses, Updating, At
<1>2. UpdatingInv'
  BY DEF LinkOrder, UpdatingInv, Updating, At
<1>3. StageInv' /\ ProcessedDecided' /\ PublishedProcessed'
  BY DEF LinkOrder, Inv, StageInv, ProcessedDecided, PublishedProcessed, Event
<1>4. QED
  BY <1>1, <1>2, <1>3 DEF Inv

LEMMA StepInv == Inv /\ [Next]_vars => Inv'
<1> SUFFICES ASSUME Inv, [Next]_vars PROVE Inv'
  OBVIOUS
<1>1. ASSUME NEW d \in Deliveries, Handle(d) \/ Abort(d) \/ DedupeFails(d) \/ Redeliver(d)
      PROVE  Inv'
  <2>1. CASE Record(d) \/ Conflict(d) \/ Duplicate(d) \/ Again(d)
    BY <2>1, DedupeStep
  <2>2. CASE Note(d) \/ MarkProcessed(d)
    BY <2>2, MarkStep
  <2>3. CASE Connect(d) \/ ReadNone(d) \/ ReadSkip(d) \/ ReadAdvance(d)
    BY <2>3, ReadStep
  <2>4. CASE UpdateOrder(d)
    BY <2>4, UpdateStep
  <2>5. CASE Publish(d) \/ Commit(d)
    BY <2>5, CloseStep
  <2>6. CASE Abort(d) \/ Redeliver(d)
    BY <2>6, EndStep
  <2>7. CASE DedupeFails(d)
    BY <2>7, DedupeFailsStep
  <2>8. TimesOut(d) => Abort(d) \/ DedupeFails(d)
    BY DEF TimesOut
  <2>9. QED
    BY <1>1, <2>1, <2>2, <2>3, <2>4, <2>5, <2>6, <2>7, <2>8 DEF Handle
<1>2. CASE Crash
  BY <1>2, DownStep DEF Crash, Inv, TypeOK
<1>3. CASE LinkOrder
  BY <1>3, LinkStep
<1>4. CASE UNCHANGED vars
  BY <1>4 DEF vars, Inv, TypeOK, StageInv, UpdatingInv, ProcessedDecided,
              PublishedProcessed, Event, Updating, At
<1>5. QED
  BY <1>1, <1>2, <1>3, <1>4 DEF Next

LEMMA Invariance == Spec => []Inv
<1>1. Init => Inv
  BY InitInv
<1>2. Inv /\ [Next]_vars => Inv'
  BY StepInv
<1>3. QED
  BY <1>1, <1>2, PTL DEF Spec

----------------------------------------------------------------------------
\* Records, order and deliveries keep their types.
THEOREM TypeCorrect == Spec => []TypeOK
<1>1. Inv => TypeOK
  BY DEF Inv
<1>2. QED
  BY <1>1, Invariance, PTL

\* A 200 is given only for a processed event, for any number of deliveries.
THEOREM AcksProcessed == Spec => []AckedProcessed
<1>1. Inv => AckedProcessed
  BY DEF Inv, StageInv, AckedProcessed, At
<1>2. QED
  BY <1>1, Invariance, PTL

\* A processed event for an order was held against the order, although no
\* transaction ties the two writes together.
THEOREM ProcessedAreDecided == Spec => []ProcessedDecided
<1>1. Inv => ProcessedDecided
  BY DEF Inv
<1>2. QED
  BY <1>1, Invariance, PTL

\* A domain event is published only for a processed provider event.
THEOREM PublishedAreProcessed == Spec => []PublishedProcessed
<1>1. Inv => PublishedProcessed
  BY DEF Inv
<1>2. QED
  BY <1>1, Invariance, PTL

\* For any number of deliveries, events, transfers and order calls, over a pool
\* of any size: a delivery that no other writer overtook updates an order that is
\* still IN_TRANSIT and still has the transfer of its event. So a final status
\* goes back only where writers overlap.
THEOREM OvertakenOnly == Spec => StaleOnlyIfOvertaken
<1>1. Inv /\ [Next]_vars =>
        [\A d \in Deliveries \ overtaken:
           UpdateOrder(d) => /\ order.status = "IN_TRANSIT"
                             /\ order.transfer = TransferOf[Event(d)]]_vars
  <2> SUFFICES ASSUME Inv, NEW d \in Deliveries \ overtaken, UpdateOrder(d)
               PROVE  /\ order.status = "IN_TRANSIT"
                      /\ order.transfer = TransferOf[Event(d)]
    OBVIOUS
  <2>1. d \in Updating
    BY DEF UpdateOrder, Updating
  <2>2. QED
    BY <2>1 DEF Inv, UpdatingInv
<1>2. QED
  BY <1>1, Invariance, PTL DEF Spec, StaleOnlyIfOvertaken

----------------------------------------------------------------------------
(* Every delivery ends. Its stages are ranked by the steps it has left at    *)
(* most: no step of anyone raises the rank of a delivery in flight, and the  *)
(* steps its fairness grants lower it.                                       *)

Ended(d) == delivery[d].stage \notin InFlight

\* A record that conflicted is there to be fetched.
FetchedKnown ==
    \A d \in Deliveries: delivery[d].stage = "fetching" => records[Event(d)] # "absent"

LivenessInv == Inv /\ FetchedKnown

\* The most steps of its handler that a delivery has left.
StepsLeft(d) ==
    IF delivery[d].stage = "sent" THEN 8
    ELSE IF delivery[d].stage = "fetching" THEN 7
    ELSE IF delivery[d].stage = "connecting" THEN 6
    ELSE IF delivery[d].stage = "reading" THEN 5
    ELSE IF delivery[d].stage = "updating" THEN 4
    ELSE IF delivery[d].stage \in {"marking", "ignoring"} THEN 3
    ELSE IF delivery[d].stage = "publishing" THEN 2
    ELSE IF delivery[d].stage \in {"committing", "noting"} THEN 1
    ELSE 0

\* Where one step of the handler takes a delivery that does not end with it.
StageStep(d) ==
    \/ delivery[d].stage = "sent" /\ delivery'[d].stage \in {"noting", "connecting"}
    \/ delivery[d].stage = "sent" /\ delivery'[d].stage = "fetching"
         /\ records[Event(d)] # "absent"
    \/ delivery[d].stage = "fetching" /\ delivery'[d].stage \in {"noting", "connecting"}
    \/ delivery[d].stage = "connecting" /\ delivery'[d].stage = "reading"
    \/ delivery[d].stage = "reading"
         /\ delivery'[d].stage \in {"ignoring", "marking", "updating"}
    \/ delivery[d].stage = "updating" /\ delivery'[d].stage = "marking"
    \/ delivery[d].stage \in {"marking", "ignoring"}
         /\ delivery'[d].stage \in {"publishing", "committing"}
    \/ delivery[d].stage = "publishing" /\ delivery'[d].stage = "committing"

LEMMA HandlerSteps ==
    ASSUME TypeOK, NEW d \in Deliveries, Handle(d) \/ Abort(d) \/ DedupeFails(d)
    PROVE  StageStep(d) \/ delivery'[d].stage \in {"ok", "failed"}
<1>1. ASSUME DedupeFails(d) PROVE delivery'[d].stage = "failed"
  BY <1>1 DEF DedupeFails, Down, TypeOK, InFlight
<1>2. ASSUME Abort(d) PROVE delivery'[d].stage = "failed"
  BY <1>2 DEF Abort, Goto, TypeOK
<1>3. CASE Record(d) \/ Conflict(d) \/ Duplicate(d) \/ Again(d)
  BY <1>3 DEF Record, Conflict, Duplicate, Again, At, Goto, TypeOK, StageStep
<1>4. CASE Note(d) \/ MarkProcessed(d)
  BY <1>4 DEF Note, MarkProcessed, At, Goto, TypeOK, StageStep
<1>5. CASE Connect(d) \/ ReadNone(d) \/ ReadSkip(d) \/ ReadAdvance(d) \/ UpdateOrder(d)
  BY <1>5 DEF Connect, ReadNone, ReadSkip, ReadAdvance, UpdateOrder, At, Goto, TypeOK,
              StageStep
<1>6. CASE Publish(d) \/ Commit(d)
  BY <1>6 DEF Publish, Commit, At, Goto, TypeOK, StageStep
<1>7. TimesOut(d) => Abort(d) \/ DedupeFails(d)
  BY DEF TimesOut
<1> QED
  BY <1>1, <1>2, <1>3, <1>4, <1>5, <1>6, <1>7 DEF Handle

\* What is done for one delivery leaves another where it is, or ends it.
LEMMA OthersStay ==
    ASSUME TypeOK, NEW d \in Deliveries, NEW c \in Deliveries, c # d,
           Handle(c) \/ Abort(c) \/ DedupeFails(c) \/ Redeliver(c)
    PROVE  delivery'[d] = delivery[d] \/ delivery'[d].stage \in {"ok", "failed"}
<1>1. CASE DedupeFails(c)
  BY <1>1 DEF DedupeFails, Down, TypeOK
<1>2. CASE Abort(c) \/ Redeliver(c)
  BY <1>2 DEF Abort, Redeliver, Goto, TypeOK
<1>3. CASE Record(c) \/ Conflict(c) \/ Duplicate(c) \/ Again(c) \/ Note(c)
           \/ MarkProcessed(c)
  BY <1>3 DEF Record, Conflict, Duplicate, Again, Note, MarkProcessed, Goto, TypeOK
<1>4. CASE Connect(c) \/ ReadNone(c) \/ ReadSkip(c) \/ ReadAdvance(c) \/ UpdateOrder(c)
           \/ Publish(c) \/ Commit(c)
  BY <1>4 DEF Connect, ReadNone, ReadSkip, ReadAdvance, UpdateOrder, Publish, Commit,
              Goto, TypeOK
<1>5. TimesOut(c) => Abort(c) \/ DedupeFails(c)
  BY DEF TimesOut
<1> QED
  BY <1>1, <1>2, <1>3, <1>4, <1>5 DEF Handle

\* No record is ever deleted.
LEMMA RecordsStay ==
    ASSUME TypeOK, [Next]_vars, NEW e \in Events, records[e] # "absent"
    PROVE  records'[e] # "absent"
  BY DEF Next, vars, Handle, Record, Conflict, Duplicate, Again, Note, Connect,
         ReadNone, ReadSkip, ReadAdvance, UpdateOrder, MarkProcessed, Publish, Commit,
         TimesOut, Abort, DedupeFails, Redeliver, Crash, LinkOrder, TypeOK

\* A step changes a delivery's stage in one of these ways; its event stays.
LEMMA DeliverySteps ==
    ASSUME TypeOK, [Next]_vars, NEW d \in Deliveries
    PROVE  /\ delivery'[d].event = delivery[d].event
           /\ \/ delivery'[d] = delivery[d]
              \/ StageStep(d)
              \/ delivery'[d].stage \in {"ok", "failed"}
              \/ Ended(d) /\ delivery'[d].stage = "sent"
<1>1. delivery'[d].event = delivery[d].event
  <2>1. CASE \E c \in Deliveries, stage \in Stages: Goto(c, stage)
    BY <2>1 DEF Goto, TypeOK
  <2>2. CASE Down
    BY <2>2 DEF Down, TypeOK
  <2>3. CASE UNCHANGED delivery
    BY <2>3
  <2>4. ASSUME NEW c \in Deliveries, Handle(c) \/ Abort(c) \/ DedupeFails(c) \/ Redeliver(c)
        PROVE  (\E stage \in Stages: Goto(c, stage)) \/ Down
    <3>1. TimesOut(c) => Abort(c) \/ DedupeFails(c)
      BY DEF TimesOut
    <3>2. Abort(c) \/ Redeliver(c) => \E stage \in Stages: Goto(c, stage)
      BY DEF Abort, Redeliver, Stages, InFlight
    <3>3. DedupeFails(c) => Down
      BY DEF DedupeFails
    <3>4. CASE Record(c) \/ Conflict(c) \/ Duplicate(c) \/ Again(c) \/ Note(c)
               \/ MarkProcessed(c)
      BY <3>4 DEF Record, Conflict, Duplicate, Again, Note, MarkProcessed, Stages,
                  InFlight, InTransaction
    <3>5. CASE Connect(c) \/ ReadNone(c) \/ ReadSkip(c) \/ ReadAdvance(c)
               \/ UpdateOrder(c) \/ Publish(c) \/ Commit(c)
      BY <3>5 DEF Connect, ReadNone, ReadSkip, ReadAdvance, UpdateOrder, Publish,
                  Commit, Stages, InFlight, InTransaction
    <3> QED
      BY <2>4, <3>1, <3>2, <3>3, <3>4, <3>5 DEF Handle
  <2> QED
    BY <2>1, <2>2, <2>3, <2>4 DEF Next, Crash, LinkOrder, vars
<1>2. \/ delivery'[d] = delivery[d]
      \/ StageStep(d)
      \/ delivery'[d].stage \in {"ok", "failed"}
      \/ Ended(d) /\ delivery'[d].stage = "sent"
  <2>1. CASE Handle(d) \/ Abort(d) \/ DedupeFails(d)
    BY <2>1, HandlerSteps
  <2>2. CASE Redeliver(d)
    BY <2>2 DEF Redeliver, Goto, TypeOK, Ended, InFlight, InTransaction
  <2>3. CASE \E c \in Deliveries \ {d}:
               Handle(c) \/ Abort(c) \/ DedupeFails(c) \/ Redeliver(c)
    BY <2>3, OthersStay
  <2>4. CASE Crash
    BY <2>4 DEF Crash, Down, TypeOK
  <2>5. CASE LinkOrder \/ UNCHANGED vars
    BY <2>5 DEF LinkOrder, vars
  <2> QED
    BY <2>1, <2>2, <2>3, <2>4, <2>5 DEF Next
<1> QED
  BY <1>1, <1>2

LEMMA FetchedKnownStep ==
    ASSUME LivenessInv, [Next]_vars PROVE FetchedKnown'
<1> SUFFICES ASSUME NEW d \in Deliveries, delivery'[d].stage = "fetching"
             PROVE  records'[delivery'[d].event] # "absent"
  BY DEF FetchedKnown, Event
<1>1. TypeOK /\ delivery[d].event \in Events
  BY DEF LivenessInv, Inv, TypeOK
<1>2. delivery'[d].event = delivery[d].event
  BY <1>1, DeliverySteps
<1>3. delivery'[d] = delivery[d] \/ records[Event(d)] # "absent"
  BY <1>1, DeliverySteps DEF StageStep
<1>4. records[Event(d)] # "absent"
  BY <1>3 DEF LivenessInv, FetchedKnown, Event
<1> QED
  BY <1>1, <1>2, <1>4, RecordsStay DEF Event

LEMMA LivenessInvariance == Init /\ [][Next]_vars => []LivenessInv
<1>1. Init => LivenessInv
  <2>1. Init => FetchedKnown
    BY DEF Init, FetchedKnown
  <2> QED
    BY <2>1, InitInv DEF LivenessInv
<1>2. LivenessInv /\ [Next]_vars => LivenessInv'
  BY StepInv, FetchedKnownStep DEF LivenessInv
<1> QED
  BY <1>1, <1>2, PTL

\* Fairness, with the condition for a step in the place of ENABLED: a delivery in
\* flight can go on, with a client or because there is none, unless it fetches a
\* record that is not there.
CanGoOn(d) ==
    /\ delivery[d].stage \in InFlight
    /\ delivery[d].stage = "fetching" => records[Event(d)] # "absent"

Served(d) == []<>~CanGoOn(d) \/ []<><<Handle(d)>>_vars

\* That CanGoOn(d) is such a condition.
Enabling(d) == [](CanGoOn(d) => ENABLED <<Handle(d)>>_vars)

\* Then the fairness of Spec says as much.
LEMMA SpecServes == \A d \in Deliveries: DeliveryFairness(d) /\ Enabling(d) => Served(d)
<1>1. ASSUME NEW d \in Deliveries PROVE DeliveryFairness(d) /\ Enabling(d) => Served(d)
  BY PTL DEF DeliveryFairness, Enabling, Served
<1> QED
  BY <1>1

\* In flight with at most n steps left.
AtMost(d, n) == StepsLeft(d) \in 1..n

LEMMA StepEnds ==
    ASSUME NEW d \in Deliveries, NEW n \in 1..8
    PROVE  /\ LivenessInv /\ AtMost(d, n) /\ [Next]_vars => AtMost(d, n)' \/ Ended(d)'
           /\ LivenessInv /\ AtMost(d, n) => CanGoOn(d)
           /\ LivenessInv /\ AtMost(d, n) /\ <<Handle(d)>>_vars
                => AtMost(d, n - 1)' \/ Ended(d)'
<1>1. ASSUME LivenessInv, AtMost(d, n), [Next]_vars PROVE AtMost(d, n)' \/ Ended(d)'
  <2>1. \/ delivery'[d] = delivery[d]
        \/ StageStep(d)
        \/ delivery'[d].stage \in {"ok", "failed"}
        \/ Ended(d) /\ delivery'[d].stage = "sent"
    BY <1>1, DeliverySteps DEF LivenessInv, Inv
  <2>2. ~Ended(d)
    BY <1>1 DEF AtMost, StepsLeft, Ended, InFlight, InTransaction
  <2> QED
    BY <1>1, <2>1, <2>2
    DEF AtMost, StageStep, StepsLeft, Ended, InFlight, InTransaction
<1>2. LivenessInv /\ AtMost(d, n) => CanGoOn(d)
  BY DEF LivenessInv, FetchedKnown, AtMost, StepsLeft, CanGoOn, InFlight, InTransaction
<1>3. ASSUME LivenessInv, AtMost(d, n), <<Handle(d)>>_vars
      PROVE  AtMost(d, n - 1)' \/ Ended(d)'
  <2>1. StageStep(d) \/ delivery'[d].stage \in {"ok", "failed"}
    BY <1>3, HandlerSteps DEF LivenessInv, Inv
  <2> QED
    BY <1>3, <2>1 DEF AtMost, StageStep, StepsLeft, Ended, InFlight, InTransaction
<1> QED
  BY <1>1, <1>2, <1>3

\* A delivery with at most n steps left comes to have at most m, or ends.
StepsDown(d, n, m) ==
    []LivenessInv /\ [][Next]_vars /\ Served(d)
      => (AtMost(d, n) ~> (AtMost(d, m) \/ Ended(d)))

LEMMA DeliveryStepsDown ==
    ASSUME NEW d \in Deliveries, NEW n \in 1..8 PROVE StepsDown(d, n, n - 1)
<1>1. LivenessInv /\ AtMost(d, n) /\ [Next]_vars => AtMost(d, n)' \/ Ended(d)'
  BY StepEnds
<1>2. LivenessInv /\ AtMost(d, n) => CanGoOn(d)
  BY StepEnds
<1>3. LivenessInv /\ AtMost(d, n) /\ <<Handle(d)>>_vars => AtMost(d, n - 1)' \/ Ended(d)'
  BY StepEnds
<1> QED
  BY <1>1, <1>2, <1>3, PTL DEF StepsDown, Served

\* One delivery ends, if it is served.
EndsIfServed(d) ==
    []LivenessInv /\ [][Next]_vars /\ Served(d)
      => ((delivery[d].stage \in InFlight) ~> (delivery[d].stage \notin InFlight))

LEMMA ServedDeliveryEnds == \A d \in Deliveries: EndsIfServed(d)
<1>1. ASSUME NEW d \in Deliveries PROVE EndsIfServed(d)
  <2>1. StepsDown(d, 1, 0)
    BY DeliveryStepsDown
  <2>2. StepsDown(d, 2, 1)
    BY DeliveryStepsDown
  <2>3. StepsDown(d, 3, 2)
    BY DeliveryStepsDown
  <2>4. StepsDown(d, 4, 3)
    BY DeliveryStepsDown
  <2>5. StepsDown(d, 5, 4)
    BY DeliveryStepsDown
  <2>6. StepsDown(d, 6, 5)
    BY DeliveryStepsDown
  <2>7. StepsDown(d, 7, 6)
    BY DeliveryStepsDown
  <2>8. StepsDown(d, 8, 7)
    BY DeliveryStepsDown
  <2>9. LivenessInv /\ delivery[d].stage \in InFlight => AtMost(d, 8)
    BY DEF AtMost, StepsLeft, InFlight, InTransaction
  <2>10. ~AtMost(d, 0)
    BY DEF AtMost
  <2>11. Ended(d) <=> delivery[d].stage \notin InFlight
    BY DEF Ended
  <2> QED
    BY <2>1, <2>2, <2>3, <2>4, <2>5, <2>6, <2>7, <2>8, <2>9, <2>10, <2>11, PTL
    DEF StepsDown, EndsIfServed
<1> QED
  BY <1>1

LEMMA ServedDeliveriesEnd ==
    Init /\ [][Next]_vars /\ (\A d \in Deliveries: Served(d)) => DeliveryEnds
<1>1. Init /\ [][Next]_vars => []LivenessInv
  BY LivenessInvariance
<1>2. \A d \in Deliveries:
        []LivenessInv /\ [][Next]_vars /\ Served(d)
          => ((delivery[d].stage \in InFlight) ~> (delivery[d].stage \notin InFlight))
  BY ServedDeliveryEnds DEF EndsIfServed
<1> QED
  BY <1>1, <1>2 DEF DeliveryEnds

\* A delivery ends, for any number of deliveries over a pool of any size: those
\* that hold a client each while waiting for another one do not wait for each
\* other forever, because a wait for a client is itself bounded.
THEOREM DeliveriesEnd == Spec /\ (\A d \in Deliveries: Enabling(d)) => DeliveryEnds
<1>1. Spec => Init /\ [][Next]_vars /\ \A d \in Deliveries: DeliveryFairness(d)
  BY DEF Spec
<1> QED
  BY <1>1, SpecServes, ServedDeliveriesEnd
=============================================================================
