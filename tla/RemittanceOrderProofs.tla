------------------------ MODULE RemittanceOrderProofs ------------------------
(***************************************************************************)
(* The order saga is safe for any calls, keys and quotes: a payout has its *)
(* reservation and its ledger entry, an order row is backed by both, an    *)
(* order that was answered stands, and the calls implement RemittanceSaga. *)
(*                                                                         *)
(* None of these is inductive: a payout is justified by the reservation its*)
(* call works with, which comes from the cache, which was filled by a call *)
(* of the same key after its posting. OrderInv says so.                    *)
(***************************************************************************)
EXTENDS RemittanceOrder, Integers, TLAPS

\* The call has its reservation.
Backed == {"reserved", "paying", "transferring", "recovering", "updating",
           "settling", "inserting", "ok"}

\* Zero Hash has confirmed the transfer.
Paid == {"updating", "settling", "inserting", "ok"}

\* A ledger entry only for a mined reservation; a remembered reservation, and
\* the one a call works with, are booked and of the right key.
ReservationsGenuine ==
    /\ \A c \in booked: Held(c)
    /\ \A c \in Calls: call[c].stage \in {"new", "screening"} => vault[c] = "none"
    /\ \A c \in Calls: call[c].stage = "booking" => Held(c)
    /\ \A k \in Keys: memo[k] \in Calls => memo[k] \in booked /\ KeyOf[memo[k]] = k
    /\ \A c \in Calls: call[c].stage \in Backed =>
         call[c].reservation \in booked /\ KeyOf[call[c].reservation] = KeyOf[c]

PaidTransferred ==
    \A c \in Calls: call[c].stage \in Paid => KeyOf[c] \in transfers

OrderInv ==
    /\ TypeOK
    /\ ReservationsGenuine
    /\ PaidTransferred
    /\ PayoutReserved
    /\ OrderBacked
    /\ AnsweredOrderStands

LEMMA InitInv == Init => OrderInv
  BY CallsAssumption, OrderAssumption
  DEF Init, OrderInv, TypeOK, VaultStates, Stages, Ends, ReservationsGenuine, Backed,
      Paid, PaidTransferred, PayoutReserved, OrderBacked, AnsweredOrderStands

\* A call moves on and nothing else changes but the clock.
LEMMA GotoStep ==
    ASSUME OrderInv, NEW c \in Calls, NEW s \in Stages \ {"ok"},
           Goto(c, s),
           UNCHANGED <<fresh, known, memo, vault, booked, posts, transfers, order>>,
           s # "new",
           s = "screening" => call[c].stage = "new",
           s = "booking" => Held(c),
           s \in Backed => call[c].stage \in Backed,
           s \in Paid => KeyOf[c] \in transfers
    PROVE  OrderInv'
<1> USE CallsAssumption, OrderAssumption
<1>1. call' = [call EXCEPT ![c].stage = s]
  BY DEF Goto
<1>2. TypeOK'
  BY <1>1 DEF OrderInv, TypeOK
<1>3. ReservationsGenuine'
  BY <1>1 DEF OrderInv, TypeOK, ReservationsGenuine, Held
<1>4. PaidTransferred'
  BY <1>1 DEF OrderInv, TypeOK, PaidTransferred
<1>5. PayoutReserved'
  BY DEF OrderInv, PayoutReserved, Reserved, Held
<1>6. OrderBacked'
  BY DEF OrderInv, OrderBacked, Held, Quote
<1>7. AnsweredOrderStands'
  BY <1>1 DEF OrderInv, TypeOK, AnsweredOrderStands, Quote
<1>8. QED
  BY <1>2, <1>3, <1>4, <1>5, <1>6, <1>7 DEF OrderInv

\* The steps of GotoStep.
LEMMA ControlSteps ==
    ASSUME OrderInv, NEW c \in Calls,
           \/ RejectQuote(c) \/ ReuseRefusal(c) \/ Screen(c) \/ Mined(c) \/ Reverted(c)
           \/ AwaitFails(c) \/ TravelRuleFails(c) \/ PreparePayout(c)
           \/ TransferAnswered(c) \/ TransferRefused(c) \/ TransferTimesOut(c)
           \/ TransferFound(c) \/ TransferNotFound(c) \/ InsertRejected(c)
    PROVE  OrderInv'
<1> DEFINE Moves(s) == /\ Goto(c, s)
                       /\ UNCHANGED <<fresh, known, memo, vault, booked, posts,
                                      transfers, order>>
<1>1. CASE RejectQuote(c) \/ ReuseRefusal(c)
  <2>1. Moves("refused")
    BY <1>1 DEF RejectQuote, ReuseRefusal
  <2>2. QED
    BY <2>1, GotoStep DEF Stages, Ends, Backed, Paid
<1>2. CASE Screen(c)
  <2>1. Moves("screening") /\ call[c].stage = "new"
    BY <1>2 DEF Screen
  <2>2. QED
    BY <2>1, GotoStep DEF Stages, Ends, Backed, Paid
<1>3. CASE Mined(c)
  <2>1. Moves("booking") /\ Held(c)
    BY <1>3 DEF Mined, Held
  <2>2. QED
    BY <2>1, GotoStep DEF Stages, Ends, Backed, Paid
<1>4. CASE \/ Reverted(c) \/ AwaitFails(c) \/ TravelRuleFails(c)
           \/ TransferRefused(c) \/ TransferNotFound(c)
  <2>1. Moves("failed")
    BY <1>4 DEF Reverted, AwaitFails, TravelRuleFails, TransferRefused, TransferNotFound
  <2>2. QED
    BY <2>1, GotoStep DEF Stages, Ends, Backed, Paid
<1>5. CASE PreparePayout(c)
  <2>1. Moves("paying") /\ call[c].stage = "reserved"
    BY <1>5 DEF PreparePayout
  <2>2. QED
    BY <2>1, GotoStep DEF Stages, Ends, Backed, Paid
<1>6. CASE TransferAnswered(c)
  <2>1. PICK s \in {"updating", "settling"}: Goto(c, s)
    BY <1>6 DEF TransferAnswered
  <2>2. Moves(s) /\ call[c].stage = "transferring" /\ KeyOf[c] \in transfers
    BY <1>6, <2>1 DEF TransferAnswered
  <2>3. QED
    BY <2>1, <2>2, GotoStep DEF Stages, Ends, Backed, Paid
<1>7. CASE TransferTimesOut(c)
  <2>1. Moves("recovering") /\ call[c].stage = "transferring"
    BY <1>7 DEF TransferTimesOut
  <2>2. QED
    BY <2>1, GotoStep DEF Stages, Ends, Backed, Paid
<1>8. CASE TransferFound(c)
  <2>1. Moves("updating") /\ call[c].stage = "recovering" /\ KeyOf[c] \in transfers
    BY <1>8 DEF TransferFound
  <2>2. QED
    BY <2>1, GotoStep DEF Stages, Ends, Backed, Paid
<1>9. CASE InsertRejected(c)
  <2>1. Moves("rejected")
    BY <1>9 DEF InsertRejected
  <2>2. QED
    BY <2>1, GotoStep DEF Stages, Ends, Backed, Paid
<1>10. QED
  BY <1>1, <1>2, <1>3, <1>4, <1>5, <1>6, <1>7, <1>8, <1>9

\* The reservation: refused, submitted, booked, or taken from the cache.
LEMMA ReservationSteps ==
    ASSUME OrderInv, NEW c \in Calls,
           \/ ScreenRefuses(c) \/ SubmitReservation(c) \/ BookReservation(c)
           \/ BookingFails(c) \/ ReuseReservation(c)
    PROVE  OrderInv'
<1> USE CallsAssumption, OrderAssumption
<1>1. CASE ScreenRefuses(c)
  <2>1. /\ call' = [call EXCEPT ![c].stage = "refused"]
        /\ memo' = [memo EXCEPT ![KeyOf[c]] = "refused"]
        /\ UNCHANGED <<fresh, known, vault, booked, posts, transfers, order>>
    BY <1>1 DEF ScreenRefuses, Goto
  <2>2. TypeOK'
    BY <2>1 DEF OrderInv, TypeOK, Stages, Ends
  <2>3. ReservationsGenuine'
    BY <2>1 DEF OrderInv, TypeOK, ReservationsGenuine, Held, Backed
  <2>4. PaidTransferred' /\ AnsweredOrderStands'
    BY <2>1 DEF OrderInv, TypeOK, PaidTransferred, Paid, AnsweredOrderStands, Quote
  <2>5. PayoutReserved' /\ OrderBacked'
    BY <2>1 DEF OrderInv, PayoutReserved, Reserved, OrderBacked, Held, Quote
  <2>6. QED
    BY <2>2, <2>3, <2>4, <2>5 DEF OrderInv
<1>2. CASE SubmitReservation(c)
  <2>1. /\ call' = [call EXCEPT ![c].stage = "reserving"]
        /\ vault' = [vault EXCEPT ![c] = "sent"]
        /\ UNCHANGED <<fresh, known, memo, booked, posts, transfers, order>>
        /\ vault[c] = "none"
    BY <1>2 DEF SubmitReservation, Goto, OrderInv, ReservationsGenuine
  <2>2. \A d \in Calls: Held(d)' <=> Held(d)
    BY <2>1 DEF OrderInv, TypeOK, Held
  <2>3. TypeOK'
    BY <2>1 DEF OrderInv, TypeOK, Stages, Ends, VaultStates
  <2>4. ReservationsGenuine'
    BY <2>1, <2>2 DEF OrderInv, TypeOK, ReservationsGenuine, Backed
  <2>5. PaidTransferred' /\ AnsweredOrderStands'
    BY <2>1 DEF OrderInv, TypeOK, PaidTransferred, Paid, AnsweredOrderStands, Quote
  <2>6. PayoutReserved'
    BY <2>1, <2>2 DEF OrderInv, PayoutReserved, Reserved
  <2>7. OrderBacked'
    BY <2>1, <2>2 DEF OrderInv, TypeOK, OrderBacked, Orders, Quote
  <2>8. QED
    BY <2>3, <2>4, <2>5, <2>6, <2>7 DEF OrderInv
<1>3. CASE BookReservation(c)
  <2>1. /\ call' = [call EXCEPT ![c] = [stage |-> "reserved", reservation |-> c]]
        /\ memo' = [memo EXCEPT ![KeyOf[c]] = c]
        /\ booked' = booked \cup {c}
        /\ UNCHANGED <<fresh, known, vault, posts, transfers, order>>
        /\ Held(c)
    BY <1>3 DEF BookReservation, GotoWith, OrderInv, ReservationsGenuine
  <2>2. TypeOK'
    BY <2>1 DEF OrderInv, TypeOK, Stages, Ends
  <2>3. ReservationsGenuine'
    BY <2>1 DEF OrderInv, TypeOK, ReservationsGenuine, Held, Backed
  <2>4. PaidTransferred' /\ AnsweredOrderStands'
    BY <2>1 DEF OrderInv, TypeOK, PaidTransferred, Paid, AnsweredOrderStands, Quote
  <2>5. PayoutReserved' /\ OrderBacked'
    BY <2>1 DEF OrderInv, PayoutReserved, Reserved, OrderBacked, Held, Quote
  <2>6. QED
    BY <2>2, <2>3, <2>4, <2>5 DEF OrderInv
<1>4. CASE BookingFails(c)
  <2>1. /\ call' = [call EXCEPT ![c].stage = "failed"]
        /\ booked \subseteq booked' /\ booked' \subseteq booked \cup {c}
        /\ UNCHANGED <<fresh, known, memo, vault, posts, transfers, order>>
        /\ Held(c)
    BY <1>4 DEF BookingFails, Goto, OrderInv, ReservationsGenuine
  <2>2. TypeOK'
    BY <2>1 DEF OrderInv, TypeOK, Stages, Ends
  <2>3. ReservationsGenuine'
    BY <2>1 DEF OrderInv, TypeOK, ReservationsGenuine, Held, Backed
  <2>4. PaidTransferred' /\ AnsweredOrderStands'
    BY <2>1 DEF OrderInv, TypeOK, PaidTransferred, Paid, AnsweredOrderStands, Quote
  <2>5. PayoutReserved' /\ OrderBacked'
    BY <2>1 DEF OrderInv, PayoutReserved, Reserved, OrderBacked, Held, Quote
  <2>6. QED
    BY <2>2, <2>3, <2>4, <2>5 DEF OrderInv
<1>5. CASE ReuseReservation(c)
  <2>1. /\ call' = [call EXCEPT ![c] = [stage |-> "reserved",
                                        reservation |-> memo[KeyOf[c]]]]
        /\ memo[KeyOf[c]] \in booked
        /\ KeyOf[memo[KeyOf[c]]] = KeyOf[c]
        /\ UNCHANGED <<fresh, known, memo, vault, booked, posts, transfers, order>>
    BY <1>5 DEF ReuseReservation, GotoWith, OrderInv, ReservationsGenuine
  <2>2. TypeOK'
    BY <2>1 DEF OrderInv, TypeOK, Stages, Ends
  <2>3. ReservationsGenuine'
    BY <2>1 DEF OrderInv, TypeOK, ReservationsGenuine, Held, Backed
  <2>4. PaidTransferred' /\ AnsweredOrderStands'
    BY <2>1 DEF OrderInv, TypeOK, PaidTransferred, Paid, AnsweredOrderStands, Quote
  <2>5. PayoutReserved' /\ OrderBacked'
    BY <2>1 DEF OrderInv, PayoutReserved, Reserved, OrderBacked, Held, Quote
  <2>6. QED
    BY <2>2, <2>3, <2>4, <2>5 DEF OrderInv
<1>6. QED
  BY <1>1, <1>2, <1>3, <1>4, <1>5

\* The payout: the POST, the order's update, its insertion.
LEMMA PayoutSteps ==
    ASSUME OrderInv, NEW c \in Calls,
           PostTransfer(c) \/ UpdateOrder(c) \/ InsertOrder(c)
    PROVE  OrderInv'
<1> USE CallsAssumption, OrderAssumption
<1>1. CASE PostTransfer(c)
  <2>1. /\ call' = [call EXCEPT ![c].stage = "transferring"]
        /\ call[c].stage = "paying"
        /\ posts' = posts \cup {c}
        /\ UNCHANGED <<fresh, known, memo, vault, booked, transfers, order>>
    BY <1>1 DEF PostTransfer, Goto
  <2>2. Reserved(KeyOf[c])
    <3>1. /\ call[c].reservation \in booked
          /\ KeyOf[call[c].reservation] = KeyOf[c]
      BY <2>1 DEF OrderInv, ReservationsGenuine, Backed
    <3>2. QED
      BY <3>1 DEF OrderInv, TypeOK, ReservationsGenuine, Reserved
  <2>3. TypeOK'
    BY <2>1 DEF OrderInv, TypeOK, Stages, Ends
  <2>4. ReservationsGenuine'
    BY <2>1 DEF OrderInv, TypeOK, ReservationsGenuine, Held, Backed
  <2>5. PaidTransferred' /\ AnsweredOrderStands'
    BY <2>1 DEF OrderInv, TypeOK, PaidTransferred, Paid, AnsweredOrderStands, Quote
  <2>6. PayoutReserved' /\ OrderBacked'
    BY <2>1, <2>2 DEF OrderInv, PayoutReserved, Reserved, OrderBacked, Held, Quote
  <2>7. QED
    BY <2>3, <2>4, <2>5, <2>6 DEF OrderInv
<1>2. CASE UpdateOrder(c)
  <2>1. /\ call' = [call EXCEPT ![c].stage = "inserting"]
        /\ call[c].stage \in {"updating", "settling"}
        /\ UNCHANGED <<fresh, known, memo, vault, booked, posts, transfers>>
    BY <1>2 DEF UpdateOrder, Goto
  <2>2. KeyOf[c] \in transfers /\ Quote(c) \in Quotes
    BY <2>1 DEF OrderInv, PaidTransferred, Paid, Quote
  <2>3. ReservationsGenuine'
    BY <2>1 DEF OrderInv, TypeOK, ReservationsGenuine, Held, Backed
  <2>4. PaidTransferred'
    BY <2>1, <2>2 DEF OrderInv, TypeOK, PaidTransferred, Paid
  <2>5. PayoutReserved'
    BY <2>1 DEF OrderInv, PayoutReserved, Reserved, Held
  <2>6. CASE order' = order
    <3>1. TypeOK'
      BY <2>1, <2>6 DEF OrderInv, TypeOK, Stages, Ends
    <3>2. OrderBacked'
      BY <2>1, <2>6 DEF OrderInv, OrderBacked, Held, Quote
    <3>3. AnsweredOrderStands'
      BY <2>1, <2>6 DEF OrderInv, TypeOK, AnsweredOrderStands, Quote
    <3>4. QED
      BY <3>1, <3>2, <3>3, <2>3, <2>4, <2>5 DEF OrderInv
  <2>7. CASE order' # order
    <3> DEFINE old == order[Quote(c)]
    <3> DEFINE status == IF call[c].stage = "settling" THEN "SETTLED" ELSE "IN_TRANSIT"
    <3> DEFINE new == [old EXCEPT !.status = status, !.offRampRef = KeyOf[c],
                                  !.providerTransfer = KeyOf[c]]
    <3>1. order' = [order EXCEPT ![Quote(c)] = new] /\ old # NoOrder
      BY <1>2, <2>7 DEF UpdateOrder
    <3>2. old \in Orders
      BY <3>1, <2>2 DEF OrderInv, TypeOK
    <3>3. /\ new \in Orders
          /\ new.reservation = old.reservation
          /\ new.offRampRef = KeyOf[c]
      BY <3>2 DEF Orders
    <3> HIDE DEF new
    <3>4. TypeOK'
      BY <2>1, <2>2, <3>1, <3>3 DEF OrderInv, TypeOK, Stages, Ends
    <3>5. OrderBacked'
      <4>1. /\ Quote(old.reservation) = Quote(c) /\ Held(old.reservation)
            /\ old.reservation \in booked
        BY <2>2, <3>1 DEF OrderInv, OrderBacked
      <4> SUFFICES ASSUME NEW q \in Quotes, order'[q] # NoOrder
                   PROVE  /\ Quote(order'[q].reservation) = q
                          /\ Held(order'[q].reservation)
                          /\ order'[q].reservation \in booked
                          /\ order'[q].offRampRef \in transfers
                          /\ QuoteOf[order'[q].offRampRef] = q
        BY <2>1 DEF OrderBacked, Held, Quote
      <4>2. CASE q = Quote(c)
        <5>1. order'[q] = new
          BY <4>2, <2>2, <3>1 DEF OrderInv, TypeOK
        <5>2. QED
          BY <5>1, <4>1, <4>2, <2>2, <3>3 DEF Quote
      <4>3. CASE q # Quote(c)
        <5>1. order'[q] = order[q]
          BY <4>3, <2>2, <3>1 DEF OrderInv, TypeOK
        <5>2. QED
          BY <5>1 DEF OrderInv, OrderBacked
      <4>4. QED
        BY <4>2, <4>3
    <3>6. AnsweredOrderStands'
      <4> SUFFICES ASSUME NEW d \in Calls, call'[d].stage = "ok"
                   PROVE  /\ order'[Quote(d)] # NoOrder
                          /\ order'[Quote(d)].reservation = call'[d].reservation
        BY DEF AnsweredOrderStands, Quote
      <4>1. call'[d] = call[d] /\ Quote(d) \in Quotes
        BY <2>1 DEF OrderInv, TypeOK, Quote
      <4>2. order[Quote(d)] # NoOrder /\ order[Quote(d)].reservation = call[d].reservation
        BY <4>1 DEF OrderInv, AnsweredOrderStands
      <4>3. CASE Quote(d) = Quote(c)
        BY <4>1, <4>2, <4>3, <3>1, <3>3 DEF OrderInv, TypeOK
      <4>4. CASE Quote(d) # Quote(c)
        BY <4>1, <4>2, <4>4, <3>1 DEF OrderInv, TypeOK
      <4>5. QED
        BY <4>3, <4>4
    <3>7. QED
      BY <3>4, <3>5, <3>6, <2>3, <2>4, <2>5 DEF OrderInv
  <2>8. QED
    BY <2>6, <2>7
<1>3. CASE InsertOrder(c)
  <2> DEFINE new == [reservation |-> call[c].reservation, status |-> "IN_TRANSIT",
                     offRampRef |-> KeyOf[c], providerTransfer |-> NoTransfer]
  <2>1. PICK s \in {"ok", "failed"}: call' = [call EXCEPT ![c].stage = s]
    BY <1>3 DEF InsertOrder, Goto
  <2>2. /\ call[c].stage = "inserting" /\ order[Quote(c)] = NoOrder
        /\ order' = [order EXCEPT ![Quote(c)] = new]
        /\ UNCHANGED <<fresh, known, memo, vault, booked, posts, transfers>>
    BY <1>3 DEF InsertOrder
  <2>3. /\ call[c].reservation \in booked
        /\ KeyOf[call[c].reservation] = KeyOf[c]
        /\ KeyOf[c] \in transfers /\ Quote(c) \in Quotes
    BY <2>2 DEF OrderInv, ReservationsGenuine, Backed, PaidTransferred, Paid, Quote
  <2>4. new \in Orders /\ new # NoOrder
    BY <2>3 DEF OrderInv, TypeOK, Orders
  <2>5. new.reservation = call[c].reservation /\ new.offRampRef = KeyOf[c]
    OBVIOUS
  <2> HIDE DEF new
  <2>6. TypeOK'
    BY <2>1, <2>2, <2>3, <2>4 DEF OrderInv, TypeOK, Stages, Ends
  <2>7. ReservationsGenuine'
    BY <2>1, <2>2 DEF OrderInv, TypeOK, ReservationsGenuine, Held, Backed
  <2>8. PaidTransferred'
    BY <2>1, <2>2, <2>3 DEF OrderInv, TypeOK, PaidTransferred, Paid
  <2>9. PayoutReserved'
    BY <2>2 DEF OrderInv, PayoutReserved, Reserved, Held
  <2>10. OrderBacked'
    <3> SUFFICES ASSUME NEW q \in Quotes, order'[q] # NoOrder
                 PROVE  /\ Quote(order'[q].reservation) = q
                        /\ Held(order'[q].reservation)
                        /\ order'[q].reservation \in booked
                        /\ order'[q].offRampRef \in transfers
                        /\ QuoteOf[order'[q].offRampRef] = q
      BY <2>2 DEF OrderBacked, Held, Quote
    <3>1. CASE q = Quote(c)
      <4>1. order'[q] = new
        BY <3>1, <2>2, <2>3 DEF OrderInv, TypeOK
      <4>2. Held(call[c].reservation)
        BY <2>3 DEF OrderInv, ReservationsGenuine
      <4>3. QED
        BY <4>1, <4>2, <3>1, <2>3, <2>5 DEF Quote
    <3>2. CASE q # Quote(c)
      <4>1. order'[q] = order[q]
        BY <3>2, <2>2, <2>3 DEF OrderInv, TypeOK
      <4>2. QED
        BY <4>1 DEF OrderInv, OrderBacked
    <3>3. QED
      BY <3>1, <3>2
  <2>11. AnsweredOrderStands'
    <3> SUFFICES ASSUME NEW d \in Calls, call'[d].stage = "ok"
                 PROVE  /\ order'[Quote(d)] # NoOrder
                        /\ order'[Quote(d)].reservation = call'[d].reservation
      BY DEF AnsweredOrderStands, Quote
    <3>1. CASE d = c
      BY <3>1, <2>1, <2>2, <2>3, <2>4, <2>5 DEF OrderInv, TypeOK
    <3>2. CASE d # c
      <4>1. call'[d] = call[d] /\ Quote(d) \in Quotes
        BY <3>2, <2>1 DEF OrderInv, TypeOK, Quote
      <4>2. order[Quote(d)] # NoOrder /\ order[Quote(d)].reservation = call[d].reservation
        BY <4>1 DEF OrderInv, AnsweredOrderStands
      <4>3. QED
        BY <4>1, <4>2, <2>2 DEF OrderInv, TypeOK
    <3>3. QED
      BY <3>1, <3>2
  <2>12. QED
    BY <2>6, <2>7, <2>8, <2>9, <2>10, <2>11 DEF OrderInv
<1>4. QED
  BY <1>1, <1>2, <1>3

\* The chain, Zero Hash, the clock and the process: reservations and transfers
\* stay, and a restart forgets, but invents nothing.
LEMMA EnvironmentSteps == OrderInv /\ Environment => OrderInv'
<1> SUFFICES ASSUME OrderInv, Environment PROVE OrderInv'
  OBVIOUS
<1> USE CallsAssumption, OrderAssumption
<1>1. CASE \E c \in Calls: VaultAnswers(c) \/ ReservationLapses(c)
  <2>1. PICK c \in Calls: VaultAnswers(c) \/ ReservationLapses(c)
    BY <1>1
  <2>2. PICK s \in {"held", "reverted", "lapsed"}: vault' = [vault EXCEPT ![c] = s]
    BY <2>1 DEF VaultAnswers, ReservationLapses
  <2>3. /\ vault[c] \in {"sent", "held"} /\ (vault[c] = "held" => s = "lapsed")
        /\ UNCHANGED <<fresh, known, memo, booked, posts, transfers, order, call>>
    <3>1. vault'[c] = s
      BY <2>2 DEF OrderInv, TypeOK
    <3>2. QED
      BY <2>1, <3>1 DEF VaultAnswers, ReservationLapses, OrderInv, TypeOK
  <2>4. \A d \in Calls: Held(d) => Held(d)'
    BY <2>2, <2>3 DEF OrderInv, TypeOK, Held
  <2>5. TypeOK'
    BY <2>2, <2>3 DEF OrderInv, TypeOK, VaultStates
  <2>6. ReservationsGenuine'
    <3>1. \A d \in Calls: call[d].stage \in {"new", "screening"} => vault'[d] = "none"
      BY <2>2, <2>3 DEF OrderInv, TypeOK, ReservationsGenuine
    <3>2. QED
      BY <3>1, <2>3, <2>4 DEF OrderInv, TypeOK, ReservationsGenuine
  <2>7. PaidTransferred' /\ AnsweredOrderStands'
    BY <2>3 DEF OrderInv, PaidTransferred, AnsweredOrderStands, Quote
  <2>8. PayoutReserved'
    BY <2>3, <2>4 DEF OrderInv, PayoutReserved, Reserved
  <2>9. OrderBacked'
    BY <2>3, <2>4 DEF OrderInv, TypeOK, OrderBacked, Orders, Quote
  <2>10. QED
    BY <2>5, <2>6, <2>7, <2>8, <2>9 DEF OrderInv
<1>2. CASE \E c \in Calls: PostArrives(c)
  <2>1. PICK c \in Calls: PostArrives(c)
    BY <1>2
  <2>2. /\ c \in posts /\ posts' = posts \ {c}
        /\ transfers \subseteq transfers' /\ transfers' \subseteq transfers \cup {KeyOf[c]}
        /\ UNCHANGED <<fresh, known, memo, vault, booked, order, call>>
    BY <2>1 DEF PostArrives
  <2>3. Reserved(KeyOf[c])
    BY <2>2 DEF OrderInv, PayoutReserved
  <2>4. TypeOK'
    BY <2>2 DEF OrderInv, TypeOK
  <2>5. ReservationsGenuine' /\ PaidTransferred' /\ AnsweredOrderStands'
    BY <2>2 DEF OrderInv, ReservationsGenuine, Held, PaidTransferred,
                AnsweredOrderStands, Quote
  <2>6. PayoutReserved'
    BY <2>2, <2>3 DEF OrderInv, PayoutReserved, Reserved, Held
  <2>7. OrderBacked'
    BY <2>2 DEF OrderInv, OrderBacked, Held, Quote
  <2>8. QED
    BY <2>4, <2>5, <2>6, <2>7 DEF OrderInv
<1>3. CASE \E q \in Quotes: QuoteExpires(q)
  <2>1. /\ fresh' \subseteq fresh
        /\ UNCHANGED <<known, memo, vault, booked, posts, transfers, order, call>>
    BY <1>3 DEF QuoteExpires
  <2>2. TypeOK'
    BY <2>1 DEF OrderInv, TypeOK
  <2>3. ReservationsGenuine' /\ PaidTransferred' /\ AnsweredOrderStands'
    BY <2>1 DEF OrderInv, ReservationsGenuine, Held, PaidTransferred,
                AnsweredOrderStands, Quote
  <2>4. PayoutReserved' /\ OrderBacked'
    BY <2>1 DEF OrderInv, PayoutReserved, Reserved, OrderBacked, Held, Quote
  <2>5. QED
    BY <2>2, <2>3, <2>4 DEF OrderInv
<1>4. CASE Restart
  <2>1. /\ known' = {} /\ memo' = [k \in Keys |-> NoReservation]
        /\ call' = [c \in Calls |-> IF Active(c)
                                    THEN [call[c] EXCEPT !.stage = "failed"]
                                    ELSE call[c]]
        /\ UNCHANGED <<fresh, vault, booked, posts, transfers, order>>
    BY <1>4 DEF Restart
  <2>2. \A c \in Calls: /\ call'[c] \in [stage: Stages,
                                         reservation: Calls \cup {NoReservation}]
                        /\ call'[c] = call[c] \/ call'[c].stage = "failed"
    BY <2>1 DEF OrderInv, TypeOK, Stages, Ends
  <2>3. TypeOK'
    <3>1. call' \in [Calls -> [stage: Stages, reservation: Calls \cup {NoReservation}]]
      BY <2>1, <2>2
    <3>2. QED
      BY <2>1, <3>1 DEF OrderInv, TypeOK
  <2>4. ReservationsGenuine'
    BY <2>1, <2>2 DEF OrderInv, ReservationsGenuine, Held, Backed
  <2>5. PaidTransferred' /\ AnsweredOrderStands'
    BY <2>1, <2>2 DEF OrderInv, PaidTransferred, Paid, AnsweredOrderStands, Quote
  <2>6. PayoutReserved' /\ OrderBacked'
    BY <2>1 DEF OrderInv, PayoutReserved, Reserved, OrderBacked, Held, Quote
  <2>7. QED
    BY <2>3, <2>4, <2>5, <2>6 DEF OrderInv
<1>5. QED
  BY <1>1, <1>2, <1>3, <1>4 DEF Environment

LEMMA StepInv == OrderInv /\ [Next]_vars => OrderInv'
<1> SUFFICES ASSUME OrderInv, [Next]_vars PROVE OrderInv'
  OBVIOUS
<1>1. CASE \E c \in Calls: CreateOrder(c) \/ AwaitFails(c)
  BY <1>1, ControlSteps, ReservationSteps, PayoutSteps
  DEF CreateOrder, ReserveFunds, ExecutePayout
<1>2. CASE Environment
  BY <1>2, EnvironmentSteps
<1>3. CASE UNCHANGED vars
  BY <1>3 DEF vars, OrderInv, TypeOK, ReservationsGenuine, PaidTransferred,
              PayoutReserved, Reserved, OrderBacked, AnsweredOrderStands, Held, Quote
<1>4. QED
  BY <1>1, <1>2, <1>3 DEF Next

LEMMA Invariance == Spec => []OrderInv
  BY InitInv, StepInv, PTL DEF Spec

\* Every reachable state is well typed.
THEOREM TypeCorrect == Spec => []TypeOK
  BY Invariance, PTL DEF OrderInv

\* No transfer is posted to Zero Hash, or made, for a key without a mined
\* reservation and its RESERVE entry, for any number of calls, keys and quotes,
\* whatever is retried, remembered, overlapped or lost.
THEOREM PayoutsReserved == Spec => []PayoutReserved
  BY Invariance, PTL DEF OrderInv

\* An order row is backed by a reservation, its entry and a transfer, all of its
\* own quote.
THEOREM OrdersBacked == Spec => []OrderBacked
  BY Invariance, PTL DEF OrderInv

\* An order that was answered 201 stays on record with its reservation.
THEOREM AnsweredOrdersStand == Spec => []AnsweredOrderStands
  BY Invariance, PTL DEF OrderInv

----------------------------------------------------------------------------
(* The route implements the saga: each step is one of it, or none.          *)

SagaReserved == {c \in booked: Held(c)}
OrderRow(q) == [quote |-> q, reservation |-> order[q].reservation,
                transfer |-> order[q].offRampRef]
SagaOrders == {OrderRow(q) : q \in {p \in Quotes: order[p] # NoOrder}}
SagaConfirmed == {c \in Calls: call[c].stage = "ok"}
SagaVars == <<SagaReserved, transfers, SagaOrders, SagaConfirmed>>

\* A step that neither books, transfers nor inserts, and confirms no call.
LEMMA SagaStutters ==
    ASSUME booked' = booked, transfers' = transfers, order' = order,
           \A c \in booked: Held(c)' <=> Held(c),
           \A c \in Calls: call'[c].stage = "ok" <=> call[c].stage = "ok"
    PROVE  UNCHANGED SagaVars
<1>1. SagaReserved' = SagaReserved
  BY DEF SagaReserved
<1>2. SagaConfirmed' = SagaConfirmed
  BY DEF SagaConfirmed
<1>3. SagaOrders' = SagaOrders
  BY DEF SagaOrders, OrderRow
<1> QED
  BY <1>1, <1>2, <1>3 DEF SagaVars

\* A call that is not answered moves on, to anything but the answer.
LEMMA OkUnchanged ==
    ASSUME TypeOK, NEW c \in Calls, call[c].stage # "ok",
           NEW new, new.stage # "ok", call' = [call EXCEPT ![c] = new]
    PROVE  \A d \in Calls: call'[d].stage = "ok" <=> call[d].stage = "ok"
BY DEF TypeOK

LEMMA GotoUnchanged ==
    ASSUME TypeOK, NEW c \in Calls, call[c].stage # "ok",
           NEW s, s # "ok", Goto(c, s)
    PROVE  \A d \in Calls: call'[d].stage = "ok" <=> call[d].stage = "ok"
<1>1. PICK new: new = [call[c] EXCEPT !.stage = s]
  OBVIOUS
<1>2. call' = [call EXCEPT ![c] = new]
  BY <1>1 DEF Goto
<1>3. new.stage = s
  BY <1>1 DEF TypeOK
<1> QED
  BY <1>2, <1>3, OkUnchanged

LEMMA ControlStutters ==
    ASSUME OrderInv, NEW c \in Calls,
           \/ RejectQuote(c) \/ ReuseRefusal(c) \/ Screen(c) \/ Mined(c) \/ Reverted(c)
           \/ AwaitFails(c) \/ TravelRuleFails(c) \/ PreparePayout(c)
           \/ TransferAnswered(c) \/ TransferRefused(c) \/ TransferTimesOut(c)
           \/ TransferFound(c) \/ TransferNotFound(c) \/ InsertRejected(c)
           \/ ScreenRefuses(c) \/ PostTransfer(c)
    PROVE  UNCHANGED SagaVars
<1>1. /\ call[c].stage # "ok" /\ \E s \in Stages \ {"ok"}: Goto(c, s)
      /\ UNCHANGED <<vault, booked, transfers, order>>
  BY DEF RejectQuote, ReuseRefusal, Screen, Mined, Reverted, AwaitFails,
         TravelRuleFails, PreparePayout, TransferAnswered, TransferRefused,
         TransferTimesOut, TransferFound, TransferNotFound, InsertRejected,
         ScreenRefuses, PostTransfer, Stages, Ends
<1>2. \A d \in Calls: call'[d].stage = "ok" <=> call[d].stage = "ok"
  BY <1>1, GotoUnchanged DEF OrderInv
<1> QED
  BY <1>1, <1>2, SagaStutters DEF Held

\* The reservation takes effect when its entry is posted: it was mined before.
LEMMA ReservationMaps ==
    ASSUME OrderInv, NEW c \in Calls,
           \/ SubmitReservation(c) \/ BookReservation(c) \/ BookingFails(c)
           \/ ReuseReservation(c)
    PROVE  Saga!Reserve(c) \/ UNCHANGED SagaVars
<1>0. TypeOK
  BY DEF OrderInv
<1>1. CASE SubmitReservation(c)
  <2>1. /\ call[c].stage = "screening" /\ vault[c] = "none"
        /\ vault' = [vault EXCEPT ![c] = "sent"] /\ Goto(c, "reserving")
        /\ UNCHANGED <<booked, transfers, order>>
    BY <1>1 DEF SubmitReservation, OrderInv, ReservationsGenuine
  <2>2. \A d \in Calls: Held(d)' <=> Held(d)
    BY <1>0, <2>1 DEF TypeOK, Held
  <2>3. booked \subseteq Calls
    BY <1>0 DEF TypeOK
  <2>4. \A d \in Calls: call'[d].stage = "ok" <=> call[d].stage = "ok"
    BY <1>0, <2>1, GotoUnchanged
  <2> QED
    BY <2>1, <2>2, <2>3, <2>4, SagaStutters
<1>2. CASE ReuseReservation(c)
  <2>1. /\ call[c].stage = "new" /\ GotoWith(c, "reserved", memo[KeyOf[c]])
        /\ UNCHANGED <<vault, booked, transfers, order>>
    BY <1>2 DEF ReuseReservation
  <2>2. \A d \in Calls: call'[d].stage = "ok" <=> call[d].stage = "ok"
    BY <1>0, <2>1, OkUnchanged DEF GotoWith
  <2> QED
    BY <2>1, <2>2, SagaStutters DEF Held
<1>3. CASE BookReservation(c) \/ BookingFails(c)
  <2>1. /\ call[c].stage = "booking" /\ Held(c)
        /\ booked' = booked \/ booked' = booked \cup {c}
        /\ UNCHANGED <<vault, transfers, order>>
        /\ GotoWith(c, "reserved", c) \/ Goto(c, "failed")
    BY <1>3 DEF BookReservation, BookingFails, OrderInv, ReservationsGenuine
  <2>2. \A d \in Calls: call'[d].stage = "ok" <=> call[d].stage = "ok"
    <3>1. CASE GotoWith(c, "reserved", c)
      BY <1>0, <2>1, <3>1, OkUnchanged DEF GotoWith
    <3>2. CASE Goto(c, "failed")
      BY <1>0, <2>1, <3>2, GotoUnchanged
    <3> QED
      BY <2>1, <3>1, <3>2
  <2>3. SagaConfirmed' = SagaConfirmed
    BY <2>2 DEF SagaConfirmed
  <2>4. SagaOrders' = SagaOrders
    BY <2>1 DEF SagaOrders, OrderRow
  <2>5. CASE booked' = booked
    BY <2>1, <2>2, <2>5, SagaStutters DEF Held
  <2>6. CASE booked' = booked \cup {c}
    <3>1. SagaReserved' = SagaReserved \cup {c}
      BY <2>1, <2>6 DEF SagaReserved, Held
    <3> QED
      BY <2>1, <2>3, <2>4, <3>1
      DEF Saga!Reserve, SagaReserved, SagaOrders, OrderRow, SagaConfirmed
  <2> QED
    BY <2>1, <2>5, <2>6
<1> QED
  BY <1>1, <1>2, <1>3

\* The update of the row changes its transfer to one that was made.
LEMMA UpdateMaps ==
    ASSUME OrderInv, NEW c \in Calls, UpdateOrder(c)
    PROVE  Saga!Repoint(KeyOf[c]) \/ UNCHANGED SagaVars
<1> USE CallsAssumption, OrderAssumption
<1>0. TypeOK
  BY DEF OrderInv
<1>1. /\ call[c].stage \in {"updating", "settling"} /\ Goto(c, "inserting")
      /\ UNCHANGED <<vault, booked, transfers>>
  BY DEF UpdateOrder
<1>2. \A d \in Calls: call'[d].stage = "ok" <=> call[d].stage = "ok"
  BY <1>0, <1>1, GotoUnchanged
<1>3. KeyOf[c] \in transfers /\ Quote(c) \in Quotes /\ QuoteOf[KeyOf[c]] = Quote(c)
  BY <1>1 DEF OrderInv, PaidTransferred, Paid, Quote
<1>4. CASE order' = order
  BY <1>1, <1>2, <1>4, SagaStutters DEF Held
<1>5. CASE order' # order
  <2> DEFINE old == order[Quote(c)]
             status == IF call[c].stage = "settling" THEN "SETTLED" ELSE "IN_TRANSIT"
             new == [old EXCEPT !.status = status, !.offRampRef = KeyOf[c],
                                !.providerTransfer = KeyOf[c]]
  <2>1. order' = [order EXCEPT ![Quote(c)] = new] /\ old # NoOrder
    BY <1>5 DEF UpdateOrder
  <2>2. old \in Orders
    BY <1>0, <1>3, <2>1 DEF TypeOK
  <2>3. /\ new \in Orders
        /\ new.reservation = old.reservation
        /\ new.offRampRef = KeyOf[c]
    BY <2>2 DEF Orders
  <2>4. new # NoOrder
    BY <2>3
  <2> HIDE DEF new, old
  <2>5. \A q \in Quotes: order'[q] = IF q = Quote(c) THEN new ELSE order[q]
    BY <1>0, <1>3, <2>1 DEF TypeOK
  <2> DEFINE o == OrderRow(Quote(c))
             row == [quote |-> Quote(c), reservation |-> old.reservation,
                     transfer |-> KeyOf[c]]
  <2>6. o \in SagaOrders /\ o.quote = Quote(c) /\ o.reservation = old.reservation
    BY <1>3, <2>1 DEF SagaOrders, OrderRow, old
  <2>7. \A q \in Quotes: OrderRow(q)' = IF q = Quote(c) THEN row ELSE OrderRow(q)
    BY <2>3, <2>5 DEF OrderRow
  <2>8. \A q \in Quotes: OrderRow(q).quote = q
    BY DEF OrderRow
  <2>9. SagaOrders' = (SagaOrders \ {o}) \cup {row}
    <3>1. \A q \in Quotes: order'[q] # NoOrder <=> order[q] # NoOrder
      BY <2>1, <2>4, <2>5 DEF old
    <3>2. SagaOrders' = {OrderRow(q)' : q \in {p \in Quotes: order[p] # NoOrder}}
      BY <3>1 DEF SagaOrders
    <3> HIDE DEF row
    <3>3. ASSUME NEW x \in SagaOrders' PROVE x \in (SagaOrders \ {o}) \cup {row}
      <4>1. PICK q \in Quotes: order[q] # NoOrder /\ x = OrderRow(q)'
        BY <3>2
      <4>2. CASE q = Quote(c)
        BY <2>7, <4>1, <4>2
      <4>3. CASE q # Quote(c)
        <5>1. x = OrderRow(q) /\ x # o
          BY <1>3, <2>7, <2>8, <4>1, <4>3
        <5> QED
          BY <4>1, <5>1 DEF SagaOrders
      <4> QED
        BY <4>2, <4>3
    <3>4. ASSUME NEW x \in (SagaOrders \ {o}) \cup {row} PROVE x \in SagaOrders'
      <4>1. CASE x = row
        <5>1. row = OrderRow(Quote(c))' /\ order[Quote(c)] # NoOrder
          BY <1>3, <2>1, <2>7 DEF old
        <5> QED
          BY <1>3, <3>2, <4>1, <5>1
      <4>2. CASE x \in SagaOrders \ {o}
        <5>1. PICK q \in Quotes: order[q] # NoOrder /\ x = OrderRow(q)
          BY <4>2 DEF SagaOrders
        <5>2. q # Quote(c)
          BY <4>2, <5>1
        <5>3. x = OrderRow(q)'
          BY <2>7, <5>1, <5>2
        <5> QED
          BY <3>2, <5>1, <5>3
      <4> QED
        BY <4>1, <4>2
    <3> QED
      BY <3>3, <3>4
  <2>10. Saga!Row(KeyOf[c], o.reservation) = row
    BY <1>3, <2>6 DEF Saga!Row
  <2>11. SagaReserved' = SagaReserved /\ SagaConfirmed' = SagaConfirmed
    BY <1>1, <1>2 DEF SagaReserved, Held, SagaConfirmed
  <2> HIDE DEF o, row
  <2>12. /\ KeyOf[c] \in transfers
         /\ \E x \in SagaOrders:
              /\ x.quote = QuoteOf[KeyOf[c]]
              /\ SagaOrders' = (SagaOrders \ {x}) \cup {Saga!Row(KeyOf[c], x.reservation)}
         /\ UNCHANGED <<SagaReserved, transfers, SagaConfirmed>>
    BY <1>1, <1>3, <2>6, <2>9, <2>10, <2>11
  <2> QED
    BY <2>12 DEF Saga!Repoint, SagaReserved, SagaOrders, OrderRow, SagaConfirmed
<1> QED
  BY <1>4, <1>5

\* The INSERT records the reservation and the transfer of the call's key.
LEMMA InsertMaps ==
    ASSUME OrderInv, NEW c \in Calls, InsertOrder(c),
           NEW r \in Calls, r = call[c].reservation
    PROVE  Saga!Record(c, r)
<1> USE CallsAssumption, OrderAssumption
<1>0. TypeOK
  BY DEF OrderInv
<1> DEFINE new == [reservation |-> r, status |-> "IN_TRANSIT",
                   offRampRef |-> KeyOf[c], providerTransfer |-> NoTransfer]
<1>1. PICK s \in {"ok", "failed"}: call' = [call EXCEPT ![c].stage = s]
  BY DEF InsertOrder, Goto
<1>2. /\ call[c].stage = "inserting" /\ order[Quote(c)] = NoOrder
      /\ order' = [order EXCEPT ![Quote(c)] = new]
      /\ UNCHANGED <<vault, booked, transfers>>
  BY DEF InsertOrder
<1>3. /\ r \in booked /\ Held(r) /\ KeyOf[r] = KeyOf[c]
      /\ KeyOf[c] \in transfers /\ Quote(c) \in Quotes
      /\ Quote(c) = QuoteOf[KeyOf[c]]
  BY <1>0, <1>2 DEF OrderInv, TypeOK, ReservationsGenuine, Backed, PaidTransferred,
                    Paid, Quote
<1>4. new \in Orders
  BY <1>3 DEF Orders
<1>5. new # NoOrder /\ new.reservation = r /\ new.offRampRef = KeyOf[c]
  BY <1>4
<1> HIDE DEF new
<1>6. \A q \in Quotes: order'[q] = IF q = Quote(c) THEN new ELSE order[q]
  BY <1>0, <1>2, <1>3 DEF TypeOK
<1> DEFINE row == [quote |-> Quote(c), reservation |-> r, transfer |-> KeyOf[c]]
<1>7. \A q \in Quotes: OrderRow(q)' = IF q = Quote(c) THEN row ELSE OrderRow(q)
  BY <1>5, <1>6 DEF OrderRow
<1>8. SagaOrders' = SagaOrders \cup {row}
  <2>1. SagaOrders' = {OrderRow(q)' : q \in {p \in Quotes: order'[p] # NoOrder}}
    BY DEF SagaOrders
  <2>2. \A q \in Quotes: order'[q] # NoOrder <=> order[q] # NoOrder \/ q = Quote(c)
    BY <1>5, <1>6
  <2> HIDE DEF row
  <2>3. ASSUME NEW x \in SagaOrders' PROVE x \in SagaOrders \cup {row}
    <3>1. PICK q \in Quotes: /\ order[q] # NoOrder \/ q = Quote(c)
                             /\ x = OrderRow(q)'
      BY <2>1, <2>2
    <3> QED
      BY <1>7, <3>1 DEF SagaOrders
  <2>4. ASSUME NEW x \in SagaOrders \cup {row} PROVE x \in SagaOrders'
    <3>1. CASE x = row
      <4>1. row = OrderRow(Quote(c))'
        BY <1>3, <1>7
      <4> QED
        BY <1>3, <2>1, <2>2, <3>1, <4>1
    <3>2. CASE x \in SagaOrders
      <4>1. PICK q \in Quotes: order[q] # NoOrder /\ x = OrderRow(q)
        BY <3>2 DEF SagaOrders
      <4>2. q # Quote(c)
        BY <1>2, <4>1
      <4> QED
        BY <1>7, <2>1, <2>2, <4>1, <4>2
    <3> QED
      BY <3>1, <3>2
  <2> QED
    BY <2>3, <2>4
<1>9. \A x \in SagaOrders: x.quote # Quote(c)
  BY <1>2 DEF SagaOrders, OrderRow
<1>10. Saga!Row(KeyOf[c], r) = row
  BY <1>3 DEF Saga!Row
<1>11. SagaConfirmed' \in {SagaConfirmed, SagaConfirmed \cup {c}}
  <2>1. /\ \A d \in Calls: d # c => call'[d] = call[d]
        /\ call'[c].stage = s
    BY <1>0, <1>1 DEF TypeOK
  <2> QED
    BY <1>2, <2>1 DEF SagaConfirmed
<1>12. r \in SagaReserved /\ SagaReserved' = SagaReserved
  BY <1>2, <1>3 DEF SagaReserved, Held
<1> HIDE DEF row
<1>13. /\ KeyOf[c] \in transfers
       /\ r \in SagaReserved
       /\ KeyOf[r] = KeyOf[c]
       /\ \A x \in SagaOrders: x.quote # QuoteOf[KeyOf[c]]
       /\ SagaOrders' = SagaOrders \cup {Saga!Row(KeyOf[c], r)}
       /\ SagaConfirmed' \in {SagaConfirmed, SagaConfirmed \cup {c}}
       /\ UNCHANGED <<SagaReserved, transfers>>
  BY <1>2, <1>3, <1>8, <1>9, <1>10, <1>11, <1>12
<1> QED
  BY <1>13 DEF Saga!Record, SagaReserved, SagaOrders, OrderRow, SagaConfirmed

\* The environment only makes transfers.
LEMMA EnvironmentMaps ==
    ASSUME OrderInv, Environment
    PROVE  (\E k \in Keys: Saga!Pay(k)) \/ UNCHANGED SagaVars
<1> USE CallsAssumption
<1>0. TypeOK
  BY DEF OrderInv
<1>1. ASSUME NEW c \in Calls, VaultAnswers(c) \/ ReservationLapses(c)
      PROVE  UNCHANGED SagaVars
  <2>1. /\ UNCHANGED <<booked, transfers, order, call>>
        /\ \A d \in Calls: d # c => vault'[d] = vault[d]
        /\ \/ vault[c] = "sent"
           \/ vault[c] = "held" /\ vault'[c] = "lapsed"
    BY <1>0, <1>1 DEF VaultAnswers, ReservationLapses, TypeOK
  <2>2. \A d \in booked: d \in Calls /\ Held(d)
    BY <1>0 DEF OrderInv, TypeOK, ReservationsGenuine
  <2>3. \A d \in booked: Held(d)'
    BY <2>1, <2>2 DEF Held
  <2> QED
    BY <2>1, <2>2, <2>3, SagaStutters
<1>2. ASSUME NEW c \in Calls, PostArrives(c)
      PROVE  Saga!Pay(KeyOf[c]) \/ UNCHANGED SagaVars
  <2>1. /\ c \in posts
        /\ transfers' = transfers \/ transfers' = transfers \cup {KeyOf[c]}
        /\ UNCHANGED <<vault, booked, order, call>>
    BY <1>2 DEF PostArrives
  <2>2. \E r \in SagaReserved: KeyOf[r] = KeyOf[c]
    BY <2>1 DEF OrderInv, PayoutReserved, Reserved, SagaReserved
  <2>3. UNCHANGED <<SagaReserved, SagaOrders, SagaConfirmed>>
    BY <2>1 DEF SagaReserved, Held, SagaOrders, OrderRow, SagaConfirmed
  <2>4. CASE transfers' = transfers
    BY <2>3, <2>4 DEF SagaVars
  <2>5. CASE transfers' = transfers \cup {KeyOf[c]}
    BY <2>2, <2>3, <2>5
    DEF Saga!Pay, SagaReserved, SagaOrders, OrderRow, SagaConfirmed
  <2> QED
    BY <2>1, <2>4, <2>5
<1>3. ASSUME NEW q \in Quotes, QuoteExpires(q) PROVE UNCHANGED SagaVars
  BY <1>3, SagaStutters DEF QuoteExpires, Held
<1>4. CASE Restart
  <2>1. \A c \in Calls: call'[c].stage = "ok" <=> call[c].stage = "ok"
    BY <1>0, <1>4 DEF Restart, Active, Ends, TypeOK
  <2> QED
    BY <1>4, <2>1, SagaStutters DEF Restart, Held
<1> QED
  BY <1>1, <1>2, <1>3, <1>4 DEF Environment

LEMMA StepMaps ==
    ASSUME OrderInv, [Next]_vars
    PROVE  Saga!Next \/ UNCHANGED SagaVars
<1>1. ASSUME NEW c \in Calls, CreateOrder(c) \/ AwaitFails(c)
      PROVE  Saga!Next \/ UNCHANGED SagaVars
  <2>1. KeyOf[c] \in Keys
    BY CallsAssumption
  <2>2. ASSUME \/ SubmitReservation(c) \/ BookReservation(c) \/ BookingFails(c)
               \/ ReuseReservation(c)
        PROVE  Saga!Next \/ UNCHANGED SagaVars
    <3>1. Saga!Reserve(c) \/ UNCHANGED SagaVars
      BY <2>2, ReservationMaps
    <3> QED
      BY <3>1 DEF Saga!Next
  <2>3. ASSUME UpdateOrder(c) PROVE Saga!Next \/ UNCHANGED SagaVars
    <3>1. Saga!Repoint(KeyOf[c]) \/ UNCHANGED SagaVars
      BY <2>3, UpdateMaps
    <3> QED
      BY <2>1, <3>1 DEF Saga!Next
  <2>4. ASSUME InsertOrder(c) PROVE Saga!Next
    <3>1. PICK r \in Calls: r = call[c].reservation
      BY <2>4 DEF InsertOrder, OrderInv, TypeOK, ReservationsGenuine, Backed
    <3>2. Saga!Record(c, r)
      BY <2>4, <3>1, InsertMaps
    <3> QED
      BY <3>2 DEF Saga!Next
  <2>5. CASE \/ SubmitReservation(c) \/ BookReservation(c) \/ BookingFails(c)
             \/ ReuseReservation(c) \/ UpdateOrder(c) \/ InsertOrder(c)
    BY <2>2, <2>3, <2>4, <2>5
  <2>6. CASE ~ (\/ SubmitReservation(c) \/ BookReservation(c) \/ BookingFails(c)
                \/ ReuseReservation(c) \/ UpdateOrder(c) \/ InsertOrder(c))
    <3>1. \/ RejectQuote(c) \/ ReuseRefusal(c) \/ Screen(c) \/ Mined(c) \/ Reverted(c)
          \/ AwaitFails(c) \/ TravelRuleFails(c) \/ PreparePayout(c)
          \/ TransferAnswered(c) \/ TransferRefused(c) \/ TransferTimesOut(c)
          \/ TransferFound(c) \/ TransferNotFound(c) \/ InsertRejected(c)
          \/ ScreenRefuses(c) \/ PostTransfer(c)
      BY <1>1, <2>6 DEF CreateOrder, ReserveFunds, ExecutePayout
    <3> QED
      BY <3>1, ControlStutters
  <2> QED
    BY <2>5, <2>6
<1>2. CASE Environment
  BY <1>2, EnvironmentMaps DEF Saga!Next
<1>3. CASE UNCHANGED vars
  BY <1>3, SagaStutters DEF vars, Held
<1> QED
  BY <1>1, <1>2, <1>3 DEF Next

\* The order route implements the saga for any calls, keys and quotes: the
\* four systems it writes to, one after the other, never show a payout before
\* its reservation or an order before its payout, and nothing is undone.
THEOREM ImplementsSaga == Spec => FollowsSaga
<1>1. Init => Saga!Init
  BY DEF Init, Saga!Init
<1>2. OrderInv /\ [Next]_vars =>
        [Saga!Next]_<<SagaReserved, transfers, SagaOrders, SagaConfirmed>>
  BY StepMaps DEF SagaVars
<1>3. Spec => [][Saga!Next]_<<SagaReserved, transfers, SagaOrders, SagaConfirmed>>
  BY <1>2, Invariance, PTL DEF Spec
<1>4. Spec => Init
  BY PTL DEF Spec
<1> QED
  BY <1>1, <1>3, <1>4, PTL
  DEF FollowsSaga, Saga!Spec, SagaReserved, SagaOrders, OrderRow, SagaConfirmed
----------------------------------------------------------------------------
(* Every call ends. The stages of a call are ranked by the steps it has left *)
(* at most: no step of anyone raises the rank of a call in the route, and    *)
(* the steps its fairness grants lower it.                                   *)

\* The vault transaction is broadcast by the call that waits for it, and is
\* unanswered only while it waits, or once it has ended.
VaultAwaited ==
    \A c \in Calls:
      /\ call[c].stage = "reserving" => vault[c] # "none"
      /\ vault[c] \in {"sent", "reverted"} => call[c].stage \in Ends \cup {"reserving"}

LivenessInv == OrderInv /\ VaultAwaited

\* The most steps of its own, and answers of the vault, that a call has left.
StepsLeft(c) ==
    IF call[c].stage = "new" THEN 11
    ELSE IF call[c].stage = "screening" THEN 10
    ELSE IF call[c].stage = "reserving" THEN IF vault[c] = "sent" THEN 9 ELSE 8
    ELSE IF call[c].stage = "booking" THEN 7
    ELSE IF call[c].stage = "reserved" THEN 6
    ELSE IF call[c].stage = "paying" THEN 5
    ELSE IF call[c].stage = "transferring" THEN 4
    ELSE IF call[c].stage = "recovering" THEN 3
    ELSE IF call[c].stage \in {"updating", "settling"} THEN 2
    ELSE IF call[c].stage = "inserting" THEN 1
    ELSE 0

\* Where one step of the route takes a call.
StageStep(c) ==
    \/ call[c].stage = "new" /\ call'[c].stage \in {"refused", "reserved", "screening"}
    \/ call[c].stage = "screening" /\ call'[c].stage \in {"refused", "failed"}
    \/ call[c].stage = "screening" /\ call'[c].stage = "reserving"
    \/ call[c].stage = "reserving" /\ call'[c].stage \in {"booking", "failed"}
    \/ call[c].stage = "booking" /\ call'[c].stage \in {"reserved", "failed"}
    \/ call[c].stage = "reserved" /\ call'[c].stage \in {"paying", "failed"}
    \/ call[c].stage = "paying" /\ call'[c].stage \in {"transferring", "failed"}
    \/ call[c].stage = "transferring" /\
         call'[c].stage \in {"updating", "settling", "recovering", "failed"}
    \/ call[c].stage = "recovering" /\ call'[c].stage \in {"updating", "failed"}
    \/ call[c].stage \in {"updating", "settling"} /\ call'[c].stage = "inserting"
    \/ call[c].stage = "inserting" /\ call'[c].stage \in {"ok", "failed", "rejected"}

\* A step of the route moves its own call on, and no other; only a broadcast
\* touches the vault.
LEMMA RouteSteps ==
    ASSUME TypeOK, NEW c \in Calls, CreateOrder(c) \/ AwaitFails(c)
    PROVE  /\ StageStep(c)
           /\ \A d \in Calls \ {c}: call'[d] = call[d]
           /\ \/ call[c].stage = "screening" /\ call'[c].stage = "reserving"
                 /\ vault' = [vault EXCEPT ![c] = "sent"]
              \/ call'[c].stage # "reserving" /\ vault' = vault
<1>1. CASE RejectQuote(c) \/ ReuseRefusal(c) \/ ReuseReservation(c) \/ Screen(c)
  BY <1>1 DEF RejectQuote, ReuseRefusal, ReuseReservation, Screen, Goto, GotoWith,
              TypeOK, StageStep
<1>2. CASE ScreenRefuses(c) \/ Mined(c) \/ Reverted(c) \/ BookReservation(c)
           \/ BookingFails(c)
  BY <1>2 DEF ScreenRefuses, Mined, Reverted, BookReservation, BookingFails, Goto,
              GotoWith, TypeOK, StageStep
<1>3. CASE SubmitReservation(c)
  BY <1>3 DEF SubmitReservation, Goto, TypeOK, StageStep
<1>4. CASE TravelRuleFails(c) \/ PreparePayout(c) \/ PostTransfer(c)
           \/ TransferRefused(c) \/ TransferTimesOut(c)
  BY <1>4 DEF TravelRuleFails, PreparePayout, PostTransfer, TransferRefused,
              TransferTimesOut, Goto, TypeOK, StageStep
<1>5. CASE TransferAnswered(c) \/ TransferFound(c) \/ TransferNotFound(c)
           \/ UpdateOrder(c)
  BY <1>5 DEF TransferAnswered, TransferFound, TransferNotFound, UpdateOrder, Goto,
              TypeOK, StageStep
<1>6. CASE InsertOrder(c) \/ InsertRejected(c)
  BY <1>6 DEF InsertOrder, InsertRejected, Goto, TypeOK, StageStep
<1>7. CASE AwaitFails(c)
  BY <1>7 DEF AwaitFails, Goto, TypeOK, StageStep
<1> QED
  BY <1>1, <1>2, <1>3, <1>4, <1>5, <1>6, <1>7
  DEF CreateOrder, ReserveFunds, ExecutePayout

\* What the environment does leaves each call where it is, or ends it.
LEMMA EnvironmentLeaves ==
    ASSUME TypeOK, Environment
    PROVE  /\ \A c \in Calls: \/ call'[c].stage = call[c].stage
                              \/ Active(c) /\ call'[c].stage = "failed"
           /\ \/ vault' = vault
              \/ /\ call' = call
                 /\ \E d \in Calls, s \in {"held", "reverted", "lapsed"}:
                      /\ vault[d] \in {"sent", "held"} /\ (s = "reverted" => vault[d] = "sent")
                      /\ vault' = [vault EXCEPT ![d] = s]
<1>1. CASE \E c \in Calls: VaultAnswers(c)
  BY <1>1 DEF VaultAnswers
<1>2. CASE \E c \in Calls: ReservationLapses(c)
  BY <1>2 DEF ReservationLapses
<1>3. CASE (\E c \in Calls: PostArrives(c)) \/ (\E q \in Quotes: QuoteExpires(q))
  BY <1>3 DEF PostArrives, QuoteExpires
<1>4. CASE Restart
  <2>1. /\ vault' = vault
        /\ call' = [c \in Calls |-> IF Active(c)
                                    THEN [call[c] EXCEPT !.stage = "failed"]
                                    ELSE call[c]]
    BY <1>4 DEF Restart
  <2>2. \A c \in Calls: Active(c) => call'[c].stage = "failed"
    BY <2>1 DEF TypeOK
  <2>3. \A c \in Calls: ~Active(c) => call'[c] = call[c]
    BY <2>1 DEF TypeOK
  <2> QED
    BY <2>1, <2>2, <2>3
<1> QED
  BY <1>1, <1>2, <1>3, <1>4 DEF Environment

LEMMA VaultAwaitedStep ==
    ASSUME LivenessInv, [Next]_vars PROVE VaultAwaited'
<1>1. TypeOK
  BY DEF LivenessInv, OrderInv
<1>2. CASE \E c \in Calls: CreateOrder(c) \/ AwaitFails(c)
  <2>1. PICK c \in Calls: CreateOrder(c) \/ AwaitFails(c)
    BY <1>2
  <2>2. /\ StageStep(c)
        /\ \A d \in Calls \ {c}: call'[d] = call[d]
        /\ \/ call[c].stage = "screening" /\ call'[c].stage = "reserving"
              /\ vault' = [vault EXCEPT ![c] = "sent"]
           \/ call'[c].stage # "reserving" /\ vault' = vault
    BY <1>1, <2>1, RouteSteps
  <2>3. \A d \in Calls: call[d].stage \in {"new", "screening"} => vault[d] = "none"
    BY DEF LivenessInv, OrderInv, ReservationsGenuine
  <2>4. /\ call[c].stage = "booking" => Held(c)
        /\ call'[c].stage = "booking" => Held(c)'
    BY StepInv DEF LivenessInv, OrderInv, ReservationsGenuine
  <2>5. \A d \in Calls \ {c}: vault'[d] = vault[d]
    BY <1>1, <2>2 DEF TypeOK
  <2> QED
    <3>1. CASE call'[c].stage = "reserving"
      <4>1. vault'[c] = "sent"
        BY <3>1, <2>2, <1>1 DEF TypeOK
      <4> QED
        BY <3>1, <4>1, <2>2, <2>5 DEF LivenessInv, VaultAwaited
    <3>2. CASE vault' = vault /\ call'[c].stage # "reserving"
      <4>1. call'[c].stage \in Ends \/ vault[c] \notin {"sent", "reverted"}
        <5>1. call[c].stage \notin Ends
          BY <2>2 DEF StageStep, Ends
        <5> QED
          BY <5>1, <2>2, <2>3, <2>4
          DEF LivenessInv, VaultAwaited, StageStep, Ends, Held
      <4> QED
        BY <3>2, <4>1, <2>2 DEF LivenessInv, VaultAwaited
    <3> QED
      BY <3>1, <3>2, <2>2
<1>3. CASE Environment
  BY <1>1, <1>3, EnvironmentLeaves
  DEF LivenessInv, VaultAwaited, TypeOK, Active, Ends
<1>4. CASE UNCHANGED vars
  BY <1>4 DEF vars, LivenessInv, VaultAwaited
<1> QED
  BY <1>2, <1>3, <1>4 DEF Next

LEMMA LivenessInvariance == Init /\ [][Next]_vars => []LivenessInv
<1>1. Init => LivenessInv
  BY InitInv DEF LivenessInv, VaultAwaited, Init
<1>2. LivenessInv /\ [Next]_vars => LivenessInv'
  BY StepInv, VaultAwaitedStep DEF LivenessInv
<1> QED
  BY <1>1, <1>2, PTL

\* Fairness, with the condition for a step in the place of ENABLED: a call in
\* the route can go on unless it waits for a transaction that was not sent.
CanGoOn(c) ==
    /\ Active(c)
    /\ call[c].stage = "reserving" => vault[c] # "none"

Served(c) == []<>~CanGoOn(c) \/ []<><<CreateOrder(c) \/ VaultAnswers(c)>>_vars

\* That CanGoOn(c) is such a condition.
Enabling(c) == [](CanGoOn(c) => ENABLED <<CreateOrder(c) \/ VaultAnswers(c)>>_vars)

\* Then the fairness of Spec says as much.
LEMMA SpecServes == \A c \in Calls: CallFairness(c) /\ Enabling(c) => Served(c)
<1>1. ASSUME NEW c \in Calls PROVE CallFairness(c) /\ Enabling(c) => Served(c)
  BY PTL DEF CallFairness, Enabling, Served
<1> QED
  BY <1>1

LEMMA RankFalls ==
    ASSUME LivenessInv, NEW c \in Calls, CreateOrder(c) \/ AwaitFails(c)
    PROVE  StepsLeft(c)' < StepsLeft(c)
<1>1. /\ StageStep(c)
      /\ call'[c].stage = "reserving" => call[c].stage = "screening"
  BY RouteSteps DEF LivenessInv, OrderInv
<1> QED
  BY <1>1 DEF StageStep, StepsLeft, Ends

LEMMA RankNeverRises ==
    ASSUME LivenessInv, NEW c \in Calls, [Next]_vars
    PROVE  StepsLeft(c)' <= StepsLeft(c)
<1>1. TypeOK
  BY DEF LivenessInv, OrderInv
<1>2. CASE CreateOrder(c) \/ AwaitFails(c)
  <2>1. StepsLeft(c)' < StepsLeft(c)
    BY <1>2, RankFalls
  <2>2. StepsLeft(c)' \in Int /\ StepsLeft(c) \in Int
    BY DEF StepsLeft
  <2> QED
    BY <2>1, <2>2
<1>3. CASE \E d \in Calls \ {c}: CreateOrder(d) \/ AwaitFails(d)
  <2>1. PICK d \in Calls \ {c}: CreateOrder(d) \/ AwaitFails(d)
    BY <1>3
  <2>2. call'[c] = call[c]
    BY <1>1, <2>1, RouteSteps
  <2>3. vault'[c] = vault[c]
    BY <1>1, <2>1, RouteSteps DEF TypeOK
  <2> QED
    BY <1>1, <2>2, <2>3 DEF StepsLeft
<1>4. CASE Environment
  <2>1. CASE call'[c].stage = "failed"
    BY <1>1, <2>1 DEF StepsLeft, Ends
  <2>2. CASE call'[c].stage = call[c].stage /\ (vault'[c] = "sent" => vault[c] = "sent")
    BY <1>1, <2>2 DEF StepsLeft
  <2> QED
    BY <1>1, <1>4, <2>1, <2>2, EnvironmentLeaves DEF TypeOK
<1>5. CASE UNCHANGED vars
  BY <1>1, <1>5 DEF vars, StepsLeft
<1> QED
  BY <1>2, <1>3, <1>4, <1>5 DEF Next

\* What fairness grants a call in the route takes it on.
LEMMA ServedFalls ==
    ASSUME LivenessInv, NEW c \in Calls, Active(c), CreateOrder(c) \/ VaultAnswers(c)
    PROVE  StepsLeft(c)' < StepsLeft(c)
<1>1. CASE CreateOrder(c)
  BY <1>1, RankFalls
<1>2. CASE VaultAnswers(c)
  BY <1>2 DEF VaultAnswers, LivenessInv, VaultAwaited, OrderInv, TypeOK, Active, StepsLeft, Ends
<1> QED
  BY <1>1, <1>2

AtMost(c, n) == StepsLeft(c) \in 0..n

LEMMA StepEnds ==
    ASSUME NEW c \in Calls, NEW n \in 1..10
    PROVE  /\ LivenessInv /\ AtMost(c, n) /\ [Next]_vars => AtMost(c, n)'
           /\ LivenessInv /\ AtMost(c, n) => CanGoOn(c) \/ AtMost(c, n - 1)
           /\ LivenessInv /\ AtMost(c, n) /\ CanGoOn(c)
                 /\ <<CreateOrder(c) \/ VaultAnswers(c)>>_vars => AtMost(c, n - 1)'
<1>1. LivenessInv /\ [Next]_vars => StepsLeft(c)' \in 0..11
  BY StepInv DEF LivenessInv, OrderInv, TypeOK, Stages, Ends, StepsLeft
<1>2. LivenessInv => StepsLeft(c) \in 0..11
  BY DEF LivenessInv, OrderInv, TypeOK, Stages, Ends, StepsLeft
<1>3. LivenessInv /\ AtMost(c, n) /\ [Next]_vars => AtMost(c, n)'
  BY <1>1, <1>2, RankNeverRises DEF AtMost
<1>4. LivenessInv /\ AtMost(c, n) => CanGoOn(c) \/ AtMost(c, n - 1)
  BY DEF LivenessInv, OrderInv, TypeOK, Stages, Ends, StepsLeft, AtMost, CanGoOn,
         Active, VaultAwaited
<1>5. LivenessInv /\ AtMost(c, n) /\ CanGoOn(c)
        /\ <<CreateOrder(c) \/ VaultAnswers(c)>>_vars => AtMost(c, n - 1)'
  <2>1. CreateOrder(c) \/ VaultAnswers(c) => [Next]_vars
    BY DEF Next, Environment
  <2> QED
    BY <2>1, <1>1, <1>2, ServedFalls DEF AtMost, CanGoOn
<1> QED
  BY <1>3, <1>4, <1>5

\* A call with at most n steps left comes to have at most m.
StepsDown(c, n, m) ==
    []LivenessInv /\ [][Next]_vars /\ Served(c) => (AtMost(c, n) ~> AtMost(c, m))

LEMMA CallStepsDown ==
    ASSUME NEW c \in Calls, NEW n \in 1..10 PROVE StepsDown(c, n, n - 1)
<1>1. LivenessInv /\ AtMost(c, n) /\ [Next]_vars => AtMost(c, n)'
  BY StepEnds
<1>2. LivenessInv /\ AtMost(c, n) => CanGoOn(c) \/ AtMost(c, n - 1)
  BY StepEnds
<1>3. LivenessInv /\ AtMost(c, n) /\ CanGoOn(c)
        /\ <<CreateOrder(c) \/ VaultAnswers(c)>>_vars => AtMost(c, n - 1)'
  BY StepEnds
<1> QED
  BY <1>1, <1>2, <1>3, PTL DEF StepsDown, Served

\* One call ends, if it is served.
EndsIfServed(c) ==
    []LivenessInv /\ [][Next]_vars /\ Served(c) => (Active(c) ~> ~Active(c))

LEMMA ServedCallEnds == \A c \in Calls: EndsIfServed(c)
<1>1. ASSUME NEW c \in Calls PROVE EndsIfServed(c)
  <2>1. StepsDown(c, 1, 0)
    BY CallStepsDown
  <2>2. StepsDown(c, 2, 1)
    BY CallStepsDown
  <2>3. StepsDown(c, 3, 2)
    BY CallStepsDown
  <2>4. StepsDown(c, 4, 3)
    BY CallStepsDown
  <2>5. StepsDown(c, 5, 4)
    BY CallStepsDown
  <2>6. StepsDown(c, 6, 5)
    BY CallStepsDown
  <2>7. StepsDown(c, 7, 6)
    BY CallStepsDown
  <2>8. StepsDown(c, 8, 7)
    BY CallStepsDown
  <2>9. StepsDown(c, 9, 8)
    BY CallStepsDown
  <2>10. StepsDown(c, 10, 9)
    BY CallStepsDown
  <2>11. LivenessInv /\ Active(c) => AtMost(c, 10)
    BY DEF LivenessInv, OrderInv, TypeOK, Stages, Ends, StepsLeft, AtMost, Active
  <2>12. LivenessInv /\ AtMost(c, 0) => ~Active(c)
    BY DEF LivenessInv, OrderInv, TypeOK, Stages, Ends, StepsLeft, AtMost, Active
  <2> QED
    BY <2>1, <2>2, <2>3, <2>4, <2>5, <2>6, <2>7, <2>8, <2>9, <2>10, <2>11, <2>12, PTL
    DEF StepsDown, EndsIfServed
<1> QED
  BY <1>1

LEMMA ServedCallsEnd ==
    Init /\ [][Next]_vars /\ (\A c \in Calls: Served(c)) => CallEnds
<1>1. Init /\ [][Next]_vars => []LivenessInv
  BY LivenessInvariance
<1>2. \A c \in Calls:
        []LivenessInv /\ [][Next]_vars /\ Served(c) => (Active(c) ~> ~Active(c))
  BY ServedCallEnds DEF EndsIfServed
<1> QED
  BY <1>1, <1>2 DEF CallEnds

\* Every call that entered the route ends, with an answer or with the process,
\* for any number of calls: whatever the other calls, the clock, a restart and
\* late answers do, no call goes round or waits for good.
THEOREM CallsEnd == Spec /\ (\A c \in Calls: Enabling(c)) => CallEnds
<1>1. Spec => Init /\ [][Next]_vars /\ \A c \in Calls: CallFairness(c)
  BY DEF Spec
<1> QED
  BY <1>1, SpecServes, ServedCallsEnd
=============================================================================
