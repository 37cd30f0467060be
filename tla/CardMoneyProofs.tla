--------------------------- MODULE CardMoneyProofs ---------------------------
(***************************************************************************)
(* The promises of the card money paths, for any number of requests of the *)
(* key, of instances that serve them, of restarts and of notifications.    *)
(*                                                                         *)
(* The invariant says, for each request, what its handler has in hand at   *)
(* an await and why that is still so: a captured charge stays captured, a  *)
(* row is not removed, an answer is remembered until something is lost.    *)
(***************************************************************************)
EXTENDS CardMoney, TLAPS

Captured == intent[ClientKey].now = "succeeded"

\* Stripe and Circle have seen one key only.
KeyInv ==
    /\ \A k \in Keys: intent[k].first # "none" \/ intent[k].now # "none" => k = ClientKey
    /\ \A k \in Keys: payment[k] # {} => k = ClientKey
    /\ intent[ClientKey].first = "none" => intent[ClientKey].now = "none"
    /\ intent[ClientKey].first = "succeeded" => Captured
    /\ payment[ClientKey] # {} => Captured

\* A 202 names a row.
Honest(a) == a.code = "accepted" => row[a.by] # NoRow

\* The instance of request r remembers an answer, or has lost one.
Known(r) == cache[at[r]] # NoAnswer \/ at[r] \in forgot

\* What request r, standing at q, knows.
ReqOK(r, q) ==
    /\ q.status \notin {"paid", "returned"}
    /\ q.status = "captured" => Captured
    /\ q.stage \in {"paying", "buying", "recording"} => q.status # "none"
    /\ q.stage = "buying" => q.status = "captured"
    /\ q.stage = "logging" => row[r] # NoRow
    /\ row[r] # NoRow => q.stage \in {"logging", "done", "lost"}
    /\ q.answer # NoAnswer =>
         /\ Honest(q.answer)
         /\ q.answer.code # "error" => Known(r)
    /\ \A s \in q.after: at[s] = at[r] => at[r] \in forgot

ReqInv == \A r \in Requests: ReqOK(r, req[r])

CacheInv == \A i \in Instances: cache[i] # NoAnswer => Honest(cache[i])

RowOK(r) ==
    /\ row[r].status = "captured" => Captured
    /\ row[r].onChain = "confirmed" => "paid" \in payment[ClientKey]
    /\ row[r].status \in {"paid", "returned"} => row[r].status \in payout[r]

RowInv ==
    /\ op = "add_money" =>
         \A r, s \in Requests: row[r] # NoRow /\ row[s] # NoRow => r = s
    /\ \A r \in Requests: row[r] # NoRow => RowOK(r)

Inv == TypeOK /\ KeyInv /\ ReqInv /\ CacheInv /\ RowInv

LEMMA InitInv == Init => Inv
<1> SUFFICES ASSUME Init PROVE Inv
  OBVIOUS
<1> DEFINE first == [stage |-> "new", circle |-> FALSE, status |-> "none",
                     bought |-> FALSE, onChain |-> "none", answer |-> NoAnswer,
                     after |-> {}]
<1>1. first \in Reqs
  BY DEF Reqs, Stages, RowStatuses
<1>2. first.stage = "new" /\ first.status = "none" /\ first.answer = NoAnswer
      /\ first.after = {}
  OBVIOUS
<1>3. req = [r \in Requests |-> first]
  BY DEF Init
<1> HIDE DEF first
<1>4. intent \in [Keys -> Intents]
      /\ \A k \in Keys: intent[k].first = "none" /\ intent[k].now = "none"
  BY DEF Init, Intents, IntentStatuses
<1>5. TypeOK
  BY <1>1, <1>3, <1>4 DEF Init, TypeOK
<1>6. ClientKey \in Keys
  BY DEF Keys
<1>7. KeyInv
  BY <1>4, <1>6 DEF Init, KeyInv
<1>8. ReqInv
  BY <1>2, <1>3 DEF Init, ReqInv, ReqOK
<1>9. CacheInv /\ RowInv
  BY DEF Init, CacheInv, RowInv
<1> QED
  BY <1>5, <1>7, <1>8, <1>9 DEF Inv

\* What one request makes of the whole.
LEMMA Change ==
  ASSUME Inv, NEW r \in Requests, NEW new \in Reqs,
         req' = [req EXCEPT ![r] = new],
         UNCHANGED <<op, at, card, forgot>>,
         intent' \in [Keys -> Intents], payment' \in [Keys -> SUBSET PaymentStatuses],
         moved' \subseteq Requests, payout' \in [Requests -> SUBSET PayoutEvents],
         row' \in [Requests -> Rows \cup {NoRow}],
         cache' \in [Instances -> Answers \cup {NoAnswer}],
         \A i \in Instances: cache[i] # NoAnswer => cache'[i] # NoAnswer,
         Captured => Captured',
         \A s \in Requests: s # r => row'[s] = row[s],
         row[r] # NoRow => row'[r] # NoRow,
         ReqOK(r, new)', KeyInv', CacheInv', RowInv'
  PROVE  Inv'
<1>1. TypeOK'
  BY DEF Inv, TypeOK
<1>2. \A s \in Requests: req'[s] = IF s = r THEN new ELSE req[s]
  BY DEF Inv, TypeOK
<1>3. ASSUME NEW s \in Requests, s # r PROVE ReqOK(s, req[s])'
  <2>0. at[s] \in Instances /\ (Known(s) => Known(s)')
    BY DEF Inv, TypeOK, Known
  <2>1. req'[s] = req[s] /\ row'[s] = row[s] /\ ReqOK(s, req[s])
    BY <1>2, <1>3 DEF Inv, ReqInv
  <2>2. req[s].answer # NoAnswer => req[s].answer.by \in Requests
    BY DEF Inv, TypeOK, Reqs, Answers
  <2>3. \A t \in Requests: row[t] # NoRow => row'[t] # NoRow
    OBVIOUS
  <2> QED
    BY <2>0, <2>1, <2>2, <2>3 DEF ReqOK, Honest
<1>4. ReqOK(r, req[r])'
  BY <1>2 DEF ReqOK, Honest, Known
<1>5. ReqInv'
  BY <1>3, <1>4 DEF ReqInv
<1> QED
  BY <1>1, <1>5 DEF Inv

\* A step of one request that leaves the processors and the tables alone.
LEMMA LocalChange ==
  ASSUME Inv, NEW r \in Requests, NEW new \in Reqs,
         req' = [req EXCEPT ![r] = new],
         UNCHANGED <<op, at, card, External, row, forgot>>,
         cache' \in [Instances -> Answers \cup {NoAnswer}],
         \A i \in Instances: cache[i] # NoAnswer => cache'[i] # NoAnswer,
         ReqOK(r, new)', CacheInv'
  PROVE  Inv'
<1>1. KeyInv' /\ RowInv' /\ (Captured => Captured')
  BY DEF Inv, External, KeyInv, RowInv, RowOK, Captured
<1>2. /\ intent' \in [Keys -> Intents] /\ payment' \in [Keys -> SUBSET PaymentStatuses]
      /\ moved' \subseteq Requests /\ payout' \in [Requests -> SUBSET PayoutEvents]
      /\ row' \in [Requests -> Rows \cup {NoRow}] /\ row' = row
      /\ UNCHANGED <<op, at, card, forgot>>
  BY DEF Inv, TypeOK, External
<1> QED
  BY <1>1, <1>2, Change

\* The handler goes on to another await, and knows what it knew.
LEMMA Going ==
  ASSUME Inv, NEW r \in Requests, NEW new \in Reqs,
         req' = [req EXCEPT ![r] = new],
         UNCHANGED <<op, at, cache, card, External, row, forgot>>,
         ReqOK(r, new)
  PROVE  Inv'
<1>1. ReqOK(r, new)' /\ CacheInv'
  BY DEF Inv, External, CacheInv, ReqOK, Honest, Known, Captured
<1>2. cache' \in [Instances -> Answers \cup {NoAnswer}] /\ cache' = cache
  BY DEF Inv, TypeOK
<1> QED
  BY <1>1, <1>2, LocalChange

\* The request is answered: the answer is remembered, or is an error.
LEMMA Answering ==
  ASSUME Inv, NEW r \in Requests, NEW code \in {"accepted", "refused", "error"},
         req[r].stage \in InFlight,
         code = "accepted" => row[r] # NoRow,
         Answer(r, code),
         \/ cache' = [cache EXCEPT ![at[r]] = [code |-> code, by |-> r]]
         \/ code = "error" /\ cache' = cache,
         UNCHANGED <<op, at, card, External, row, forgot>>
  PROVE  Inv'
<1> DEFINE a == [code |-> code, by |-> r]
<1>1. a \in Answers /\ a.code = code /\ a.by = r
  BY DEF Answers
<1>2. a # NoAnswer
  BY <1>1, NamesAssumption
<1> HIDE DEF a
<1>3. PICK new: new = [req[r] EXCEPT !.stage = "done", !.answer = a]
  OBVIOUS
<1>4. req' = [req EXCEPT ![r] = new]
  BY <1>3 DEF Answer, a
<1>5. req[r] \in Reqs /\ ReqOK(r, req[r])
  BY DEF Inv, TypeOK, ReqInv
<1>6. /\ new \in Reqs /\ new.stage = "done" /\ new.answer = a
      /\ new.status = req[r].status /\ new.after = req[r].after
  BY <1>1, <1>3, <1>5 DEF Reqs, Stages
<1>7. cache' \in [Instances -> Answers \cup {NoAnswer}] /\ at[r] \in Instances
      /\ (\A i \in Instances: cache'[i] = cache[i] \/ cache'[i] = a)
      /\ (code # "error" => cache'[at[r]] # NoAnswer)
  BY <1>1, <1>2 DEF Inv, TypeOK, a
<1>8. Honest(a)' /\ \A i \in Instances: cache[i] # NoAnswer => cache'[i] # NoAnswer
  BY <1>1, <1>2, <1>7 DEF Honest
<1>9. CacheInv'
  BY <1>7, <1>8 DEF Inv, CacheInv, Honest
<1>10. ReqOK(r, new)'
  BY <1>1, <1>5, <1>6, <1>7, <1>8 DEF ReqOK, Known, Captured, External
<1> QED
  BY <1>4, <1>6, <1>7, <1>8, <1>9, <1>10, LocalChange

\* withIdempotency before the handler.
LEMMA ReplayStep ==
  ASSUME Inv, NEW r \in Requests, Replay(r)
  PROVE  Inv'
<1>1. PICK new: new = [req[r] EXCEPT !.stage = "done", !.answer = cache[at[r]]]
  OBVIOUS
<1>2. req' = [req EXCEPT ![r] = new]
      /\ UNCHANGED <<op, at, cache, card, External, row, forgot>>
  BY <1>1 DEF Replay
<1>3. /\ req[r] \in Reqs /\ ReqOK(r, req[r]) /\ at[r] \in Instances
      /\ cache[at[r]] \in Answers /\ cache[at[r]] # NoAnswer
  BY DEF Inv, TypeOK, ReqInv, Replay
<1>4. /\ new \in Reqs /\ new.stage = "done" /\ new.answer = cache[at[r]]
      /\ new.status = req[r].status /\ new.after = req[r].after
  BY <1>1, <1>3 DEF Reqs, Stages
<1>5. ReqOK(r, new)
  BY <1>3, <1>4 DEF Inv, CacheInv, ReqOK, Known
<1> QED
  BY <1>2, <1>4, <1>5, Going

LEMMA EnterStep ==
  ASSUME Inv, NEW r \in Requests, Enter(r)
  PROVE  Inv'
<1>1. PICK new: new = [req[r] EXCEPT !.stage = "reading", !.after = Answered]
  OBVIOUS
<1>2. req' = [req EXCEPT ![r] = new] /\ req[r].stage = "new" /\ cache[at[r]] = NoAnswer
      /\ UNCHANGED <<op, at, cache, card, External, row, forgot>>
  BY <1>1 DEF Enter
<1>3. req[r] \in Reqs /\ ReqOK(r, req[r])
  BY DEF Inv, TypeOK, ReqInv
<1>4. /\ new \in Reqs /\ new.stage = "reading" /\ new.answer = req[r].answer
      /\ new.status = req[r].status /\ new.after = Answered
  BY <1>1, <1>3 DEF Reqs, Stages, Answered
<1>5. \A s \in Answered: at[s] = at[r] => at[r] \in forgot
  BY <1>2 DEF Inv, ReqInv, ReqOK, Known, Answered
<1>6. ReqOK(r, new)
  BY <1>2, <1>3, <1>4, <1>5 DEF ReqOK
<1> QED
  BY <1>2, <1>4, <1>6, Going

\* The steps that answer.
LEMMA AnswerStep ==
  ASSUME Inv, NEW r \in Requests,
         RefuseCard(r) \/ RecordConflict(r) \/ Log(r) \/ QueryFails(r)
  PROVE  Inv'
<1>1. CASE RefuseCard(r)
  BY <1>1, Answering DEF RefuseCard, Remember, InFlight, Stages
<1>2. CASE RecordConflict(r)
  BY <1>2, Answering DEF RecordConflict, Throw, InFlight, Stages
<1>3. CASE Log(r)
  <2>1. row[r] # NoRow
    BY <1>3 DEF Inv, ReqInv, ReqOK, Log
  <2> QED
    BY <1>3, <2>1, Answering DEF Log, Remember, InFlight, Stages
<1>4. CASE QueryFails(r)
  BY <1>4, Answering DEF QueryFails, Throw, InFlight, Stages
<1> QED
  BY <1>1, <1>2, <1>3, <1>4

LEMMA ReadStep ==
  ASSUME Inv, NEW r \in Requests, ReadCard(r)
  PROVE  Inv'
<1>1. PICK new: new = [req[r] EXCEPT
          !.stage = IF op = "unconfigured" THEN "recording" ELSE "calling",
          !.status = IF op = "unconfigured" THEN "pending_network" ELSE "none",
          !.circle = card.circle]
  OBVIOUS
<1>2. req' = [req EXCEPT ![r] = new] /\ req[r].stage = "reading"
      /\ UNCHANGED <<op, at, cache, card, External, row, forgot>>
  BY <1>1 DEF ReadCard
<1>3. req[r] \in Reqs /\ ReqOK(r, req[r]) /\ card.circle \in BOOLEAN
  BY DEF Inv, TypeOK, ReqInv
<1>4. /\ new \in Reqs /\ new.answer = req[r].answer /\ new.after = req[r].after
      /\ \/ new.stage = "recording" /\ new.status = "pending_network"
         \/ new.stage = "calling" /\ new.status = "none"
  BY <1>1, <1>3 DEF Reqs, Stages, RowStatuses
<1>5. ReqOK(r, new)
  BY <1>2, <1>3, <1>4 DEF ReqOK
<1> QED
  BY <1>2, <1>4, <1>5, Going

----------------------------------------------------------------------------
(* Stripe's charge and Circle's payment *)

LEMMA ChargedIs ==
  ASSUME NEW s \in IntentStatuses
  PROVE  /\ Charged[s] \in FundingStatuses
         /\ Charged[s] = "captured" => s = "succeeded"
BY DEF IntentStatuses, FundingStatuses, Charged

\* The charge of a request ends with a status, and intents are what they were,
\* or the first one of the key.
LEMMA Charging ==
  ASSUME Inv, NEW r \in Requests, NEW status \in FundingStatuses,
         req[r].stage = "calling", ChargeReturns(r, status),
         UNCHANGED <<op, at, cache, card, payment, moved, payout, row, forgot>>,
         \/ intent' = intent
         \/ /\ intent[ClientKey].first = "none"
            /\ \E s \in IntentStatuses \ {"none"}:
                 intent' = [intent EXCEPT ![ClientKey] = [first |-> s, now |-> s]],
         status = "captured" => Captured'
  PROVE  Inv'
<1>1. PICK new: new = [req[r] EXCEPT
          !.status = status,
          !.stage = IF Buys(r, status) THEN "buying" ELSE "recording"]
  OBVIOUS
<1>2. req' = [req EXCEPT ![r] = new]
  BY <1>1 DEF ChargeReturns
<1>3. req[r] \in Reqs /\ ReqOK(r, req[r]) /\ ClientKey \in Keys
  BY DEF Inv, TypeOK, ReqInv, Keys
<1>4. /\ new \in Reqs /\ new.answer = req[r].answer /\ new.after = req[r].after
      /\ new.status = status
      /\ \/ new.stage = "recording"
         \/ new.stage = "buying" /\ status = "captured"
  BY <1>1, <1>3 DEF Reqs, Stages, RowStatuses, Buys
<1>5. /\ intent' \in [Keys -> Intents]
      /\ Captured => Captured'
      /\ KeyInv'
  <2>1. CASE intent' = intent
    BY <2>1 DEF Inv, TypeOK, KeyInv, Captured
  <2>2. CASE intent[ClientKey].first = "none"
             /\ \E s \in IntentStatuses \ {"none"}:
                  intent' = [intent EXCEPT ![ClientKey] = [first |-> s, now |-> s]]
    <3>1. PICK s \in IntentStatuses \ {"none"}:
            intent' = [intent EXCEPT ![ClientKey] = [first |-> s, now |-> s]]
      BY <2>2
    <3>2. PICK i: i = [first |-> s, now |-> s]
      OBVIOUS
    <3>3. i \in Intents /\ i.first = s /\ i.now = s
      BY <3>2 DEF Intents
    <3>4. intent' \in [Keys -> Intents]
          /\ \A k \in Keys: intent'[k] = IF k = ClientKey THEN i ELSE intent[k]
      BY <1>3, <3>1, <3>2, <3>3 DEF Inv, TypeOK
    <3>5. ~Captured
      BY <2>2 DEF Inv, KeyInv, Captured
    <3> QED
      BY <1>3, <3>3, <3>4, <3>5 DEF Inv, KeyInv, Captured
  <2> QED
    BY <2>1, <2>2
<1>6. ReqOK(r, new)' /\ CacheInv' /\ RowInv'
  <2>1. ReqOK(r, new)'
    BY <1>3, <1>4, <1>5 DEF ReqOK, Honest, Known, FundingStatuses
  <2>2. CacheInv' /\ RowInv'
    BY <1>5 DEF Inv, CacheInv, Honest, RowInv, RowOK
  <2> QED
    BY <2>1, <2>2
<1>7. /\ payment' \in [Keys -> SUBSET PaymentStatuses] /\ moved' \subseteq Requests
      /\ payout' \in [Requests -> SUBSET PayoutEvents]
      /\ row' \in [Requests -> Rows \cup {NoRow}] /\ row' = row
      /\ cache' \in [Instances -> Answers \cup {NoAnswer}] /\ cache' = cache
      /\ UNCHANGED <<op, at, card, forgot>>
  BY DEF Inv, TypeOK
<1> QED
  BY <1>2, <1>4, <1>5, <1>6, <1>7, Change

LEMMA ChargeStep ==
  ASSUME Inv, NEW r \in Requests, Charge(r) \/ ChargeThrows(r)
  PROVE  Inv'
<1>1. CASE Charge(r)
  <2>1. CASE intent[ClientKey].first = "none"
    <3>1. PICK s \in IntentStatuses \ {"none"}:
            /\ intent' = [intent EXCEPT ![ClientKey] = [first |-> s, now |-> s]]
            /\ ChargeReturns(r, Charged[s])
      BY <1>1, <2>1 DEF Charge, IntentKey
    <3>2. ClientKey \in Keys
      BY DEF Keys
    <3>3. Charged[s] \in FundingStatuses /\ (Charged[s] = "captured" => Captured')
      BY <3>1, <3>2, ChargedIs DEF Captured, Inv, TypeOK
    <3> QED
      BY <1>1, <2>1, <3>1, <3>3, Charging DEF Charge
  <2>2. CASE intent[ClientKey].first # "none"
    <3>1. ChargeReturns(r, Charged[intent[ClientKey].first]) /\ UNCHANGED intent
      BY <1>1, <2>2 DEF Charge, IntentKey
    <3>2. intent[ClientKey].first \in IntentStatuses
      BY DEF Inv, TypeOK, Keys, Intents
    <3>3. Charged[intent[ClientKey].first] = "captured" => Captured'
      BY <3>1, <3>2, ChargedIs DEF Inv, KeyInv, Captured
    <3> QED
      BY <1>1, <3>1, <3>2, <3>3, Charging, ChargedIs DEF Charge
  <2> QED
    BY <2>1, <2>2
<1>2. CASE ChargeThrows(r)
  <2>1. "failed" \in FundingStatuses
    BY DEF FundingStatuses
  <2> QED
    BY <1>2, <2>1, Charging DEF ChargeThrows, IntentKey, IntentStatuses
<1> QED
  BY <1>1, <1>2

\* Circle has the payment, or not; the charge was captured before.
LEMMA BuyStep ==
  ASSUME Inv, NEW r \in Requests, Buy(r) \/ BuyFails(r)
  PROVE  Inv'
<1>1. PICK bought \in BOOLEAN, onChain \in {"pending", "failed"}:
        BuyReturns(r, bought, onChain)
  BY DEF Buy, BuyFails
<1>2. PICK new: new = [req[r] EXCEPT !.stage = "recording", !.bought = bought,
                                     !.onChain = onChain]
  OBVIOUS
<1>3. req' = [req EXCEPT ![r] = new]
  BY <1>1, <1>2 DEF BuyReturns
<1>4. req[r] \in Reqs /\ ReqOK(r, req[r]) /\ ClientKey \in Keys
      /\ req[r].stage = "buying"
  BY DEF Inv, TypeOK, ReqInv, Keys, Buy, BuyFails
<1>5. /\ new \in Reqs /\ new.answer = req[r].answer /\ new.after = req[r].after
      /\ new.status = req[r].status /\ new.stage = "recording"
  BY <1>2, <1>4 DEF Reqs, Stages
<1>6. \/ payment' = payment
      \/ payment' = [payment EXCEPT ![ClientKey] = @ \cup {"pending"}]
  BY DEF Buy, BuyFails, PaymentKey
<1>7. payment' \in [Keys -> SUBSET PaymentStatuses]
      /\ payment[ClientKey] \subseteq payment'[ClientKey]
      /\ \A k \in Keys: k # ClientKey => payment'[k] = payment[k]
  BY <1>4, <1>6 DEF Inv, TypeOK, PaymentStatuses
<1>8. UNCHANGED <<op, at, cache, card, intent, moved, payout, row, forgot>> /\ Captured
  BY <1>4 DEF Buy, BuyFails, ReqOK
<1>9. KeyInv' /\ Captured'
  BY <1>7, <1>8 DEF Inv, KeyInv, Captured
<1>10. ReqOK(r, new)' /\ CacheInv' /\ RowInv'
  <2>1. ReqOK(r, new)'
    BY <1>4, <1>5, <1>8, <1>9 DEF ReqOK, Honest, Known
  <2>2. CacheInv' /\ RowInv'
    BY <1>7, <1>8, <1>9 DEF Inv, CacheInv, Honest, RowInv, RowOK
  <2> QED
    BY <2>1, <2>2
<1>11. /\ intent' \in [Keys -> Intents] /\ moved' \subseteq Requests
       /\ payout' \in [Requests -> SUBSET PayoutEvents]
       /\ row' \in [Requests -> Rows \cup {NoRow}]
       /\ cache' \in [Instances -> Answers \cup {NoAnswer}]
  BY <1>8 DEF Inv, TypeOK
<1> QED
  BY <1>3, <1>5, <1>7, <1>8, <1>9, <1>10, <1>11, Change

----------------------------------------------------------------------------
(* Stripe's payout: none of a request that has its row is begun anew. *)

LEMMA PayoutChange ==
  ASSUME Inv, NEW r \in Requests, NEW new \in Reqs,
         req' = [req EXCEPT ![r] = new],
         req[r].stage \in {"calling", "paying"},
         moved' \in {moved, moved \cup {r}},
         payout' \in {payout, [payout EXCEPT ![r] = {"created"}]},
         UNCHANGED <<op, at, card, intent, payment, row, forgot>>,
         cache' \in [Instances -> Answers \cup {NoAnswer}],
         \A i \in Instances: cache[i] # NoAnswer => cache'[i] # NoAnswer,
         ReqOK(r, new)', CacheInv'
  PROVE  Inv'
<1>1. row[r] = NoRow
  BY DEF Inv, ReqInv, ReqOK
<1>2. payout' \in [Requests -> SUBSET PayoutEvents]
      /\ \A s \in Requests: s # r => payout'[s] = payout[s]
  BY DEF Inv, TypeOK, PayoutEvents
<1>3. KeyInv' /\ (Captured => Captured')
  BY DEF Inv, KeyInv, Captured
<1>4. RowInv'
  BY <1>1, <1>2 DEF Inv, RowInv, RowOK, Captured
<1>5. /\ intent' \in [Keys -> Intents] /\ payment' \in [Keys -> SUBSET PaymentStatuses]
      /\ moved' \subseteq Requests
      /\ row' \in [Requests -> Rows \cup {NoRow}] /\ row' = row
      /\ UNCHANGED <<op, at, card, forgot>>
  BY DEF Inv, TypeOK
<1> QED
  BY <1>2, <1>3, <1>4, <1>5, Change

LEMMA PayingStep ==
  ASSUME Inv, NEW r \in Requests, Transfer(r) \/ PayOut(r)
  PROVE  Inv'
<1>1. PICK stage \in {"recording", "paying"}, status \in RowStatuses \cup {"none"}:
        /\ req' = [req EXCEPT ![r] = [req[r] EXCEPT !.stage = stage, !.status = status]]
        /\ status = "pending_network" \/ (status = req[r].status /\ PayOut(r))
  <2>1. CASE Transfer(r)
    BY <2>1 DEF Transfer, RowStatuses
  <2>2. CASE PayOut(r)
    <3>1. req[r] \in Reqs
      BY DEF Inv, TypeOK
    <3>2. [req[r] EXCEPT !.stage = "recording"]
          = [req[r] EXCEPT !.stage = "recording", !.status = req[r].status]
      BY <3>1 DEF Reqs
    <3>3. req' = [req EXCEPT ![r] = [req[r] EXCEPT !.stage = "recording"]]
      BY <2>2 DEF PayOut
    <3>4. req[r].status \in RowStatuses \cup {"none"}
      BY <3>1 DEF Reqs
    <3> QED
      BY <2>2, <3>2, <3>3, <3>4
  <2> QED
    BY <2>1, <2>2
<1>2. PICK new: new = [req[r] EXCEPT !.stage = stage, !.status = status]
  OBVIOUS
<1>3. req[r] \in Reqs /\ ReqOK(r, req[r]) /\ req[r].stage \in {"calling", "paying"}
      /\ (PayOut(r) => req[r].stage = "paying")
  BY DEF Inv, TypeOK, ReqInv, Transfer, PayOut
<1>4. /\ new \in Reqs /\ new.stage = stage /\ new.status = status
      /\ new.answer = req[r].answer /\ new.after = req[r].after
  BY <1>2, <1>3 DEF Reqs, Stages
<1>5. /\ moved' \in {moved, moved \cup {r}}
      /\ payout' \in {payout, [payout EXCEPT ![r] = {"created"}]}
      /\ UNCHANGED <<op, at, cache, card, intent, payment, row, forgot>>
  BY DEF Transfer, PayOut
<1>6. ReqOK(r, new)' /\ CacheInv'
  <2>1. ReqOK(r, new)'
    BY <1>1, <1>3, <1>4, <1>5 DEF ReqOK, Honest, Known, Captured
  <2>2. CacheInv'
    BY <1>5 DEF Inv, CacheInv, Honest
  <2> QED
    BY <2>1, <2>2
<1>7. cache' \in [Instances -> Answers \cup {NoAnswer}] /\ cache' = cache
  BY <1>5 DEF Inv, TypeOK
<1>8. req' = [req EXCEPT ![r] = new]
  BY <1>1, <1>2
<1> QED
  BY <1>3, <1>4, <1>5, <1>6, <1>7, <1>8, PayoutChange

LEMMA PayoutFailsStep ==
  ASSUME Inv, NEW r \in Requests, PayoutFails(r)
  PROVE  Inv'
<1> DEFINE a == [code |-> "refused", by |-> r]
<1>1. a \in Answers /\ a.code = "refused"
  BY DEF Answers
<1>2. a # NoAnswer
  BY <1>1, NamesAssumption
<1> HIDE DEF a
<1>3. PICK new: new = [req[r] EXCEPT !.stage = "done", !.answer = a]
  OBVIOUS
<1>4. req' = [req EXCEPT ![r] = new] /\ cache' = [cache EXCEPT ![at[r]] = a]
  BY <1>3 DEF PayoutFails, Remember, Answer, a
<1>5. req[r] \in Reqs /\ ReqOK(r, req[r]) /\ req[r].stage \in {"calling", "paying"}
  BY DEF Inv, TypeOK, ReqInv, PayoutFails
<1>6. /\ new \in Reqs /\ new.stage = "done" /\ new.answer = a
      /\ new.status = req[r].status /\ new.after = req[r].after
  BY <1>1, <1>3, <1>5 DEF Reqs, Stages
<1>7. /\ moved' \in {moved, moved \cup {r}}
      /\ payout' \in {payout, [payout EXCEPT ![r] = {"created"}]}
      /\ UNCHANGED <<op, at, card, intent, payment, row, forgot>>
  BY DEF PayoutFails
<1>8. at[r] \in Instances /\ cache'[at[r]] = a
      /\ cache' \in [Instances -> Answers \cup {NoAnswer}]
      /\ \A i \in Instances: cache'[i] = cache[i] \/ cache'[i] = a
  BY <1>1, <1>4 DEF Inv, TypeOK
<1>9. ReqOK(r, new)' /\ CacheInv'
  <2>1. ReqOK(r, new)'
    BY <1>1, <1>2, <1>8, <1>5, <1>6, <1>7 DEF ReqOK, Honest, Known, Captured
  <2>2. CacheInv'
    BY <1>1, <1>7, <1>8 DEF Inv, CacheInv, Honest
  <2> QED
    BY <2>1, <2>2
<1> QED
  BY <1>2, <1>4, <1>5, <1>6, <1>7, <1>8, <1>9, PayoutChange

----------------------------------------------------------------------------
\* The row of the attempt: the only one of its key, when it is a funding.
LEMMA RecordStep ==
  ASSUME Inv, NEW r \in Requests, Record(r)
  PROVE  Inv'
<1>1. PICK new: new = [req[r] EXCEPT !.stage = "logging"]
  OBVIOUS
<1>2. req' = [req EXCEPT ![r] = new] /\ req[r].stage = "recording"
      /\ UNCHANGED <<op, at, cache, card, External, forgot>>
  BY <1>1 DEF Record
<1>3. req[r] \in Reqs /\ ReqOK(r, req[r])
  BY DEF Inv, TypeOK, ReqInv
<1>4. /\ new \in Reqs /\ new.stage = "logging" /\ new.status = req[r].status
      /\ new.answer = req[r].answer /\ new.after = req[r].after
  BY <1>1, <1>3 DEF Reqs, Stages
<1>5. PICK made: made = NewRow(r)
  OBVIOUS
<1>6. /\ made \in Rows /\ made.status = req[r].status
      /\ made.onChain \in {"none", "pending", "failed"}
  BY <1>2, <1>3, <1>5 DEF NewRow, ReqOK, Reqs, Rows
<1>7. made # NoRow
  BY <1>6, NamesAssumption
<1>8. row' = [row EXCEPT ![r] = made]
  BY <1>5 DEF Record
<1>9. row' \in [Requests -> Rows \cup {NoRow}]
      /\ \A s \in Requests: row'[s] = IF s = r THEN made ELSE row[s]
  BY <1>6, <1>8 DEF Inv, TypeOK
<1>10. KeyInv' /\ (Captured => Captured')
  BY <1>2 DEF Inv, External, KeyInv, Captured
<1>11. RowInv'
  <2>1. op = "add_money" => \A s \in Requests: row[s] = NoRow
    BY DEF Record, KeyTaken
  <2>2. ASSUME NEW s \in Requests, row'[s] # NoRow PROVE RowOK(s)'
    <3>1. CASE s = r
      BY <1>2, <1>3, <1>6, <1>9, <3>1 DEF RowOK, ReqOK, Captured, External
    <3>2. CASE s # r
      BY <1>2, <1>9, <2>2, <3>2 DEF Inv, RowInv, RowOK, Captured, External
    <3> QED
      BY <3>1, <3>2
  <2> QED
    BY <1>2, <1>9, <2>1, <2>2 DEF RowInv
<1>12. \A s \in Requests: row[s] # NoRow => row'[s] # NoRow
  BY <1>7, <1>9
<1>13. ReqOK(r, new)'
  <2>1. new.answer # NoAnswer => new.answer.by \in Requests
    BY <1>4 DEF Reqs, Answers
  <2> QED
    BY <1>2, <1>3, <1>4, <1>7, <1>9, <1>10, <1>12, <2>1 DEF ReqOK, Honest, Known
<1>14. CacheInv'
  <2>1. \A i \in Instances: cache[i] # NoAnswer => cache[i].by \in Requests
    BY DEF Inv, TypeOK, Answers
  <2> QED
    BY <1>2, <1>12, <2>1 DEF Inv, CacheInv, Honest
<1>15. /\ intent' \in [Keys -> Intents] /\ payment' \in [Keys -> SUBSET PaymentStatuses]
       /\ moved' \subseteq Requests /\ payout' \in [Requests -> SUBSET PayoutEvents]
       /\ cache' \in [Instances -> Answers \cup {NoAnswer}] /\ cache' = cache
       /\ UNCHANGED <<op, at, card, forgot>>
  BY <1>2 DEF Inv, TypeOK, External
<1> QED
  BY <1>2, <1>4, <1>9, <1>10, <1>11, <1>12, <1>13, <1>14, <1>15, Change

----------------------------------------------------------------------------
(* The card, the processors and their notifications *)

LEMMA WorldChange ==
  ASSUME Inv, UNCHANGED <<op, at, cache, req, forgot>>,
         TypeOK', KeyInv', RowInv', Captured => Captured',
         \A s \in Requests: row'[s] = NoRow <=> row[s] = NoRow
  PROVE  Inv'
<1>1. ReqInv'
  <2>1. \A s \in Requests: req[s].answer # NoAnswer => req[s].answer.by \in Requests
    BY DEF Inv, TypeOK, Reqs, Answers
  <2> QED
    BY <2>1 DEF Inv, ReqInv, ReqOK, Honest, Known
<1>2. CacheInv'
  <2>1. \A i \in Instances: cache[i] # NoAnswer => cache[i].by \in Requests
    BY DEF Inv, TypeOK, Answers
  <2> QED
    BY <2>1 DEF Inv, CacheInv, Honest
<1> QED
  BY <1>1, <1>2 DEF Inv

LEMMA CardStep ==
  ASSUME Inv, Unlink \/ SetCircleId
  PROVE  Inv'
<1>1. TypeOK'
  BY DEF Inv, TypeOK, Unlink, SetCircleId, External
<1>2. KeyInv' /\ RowInv' /\ (Captured => Captured')
  BY DEF Inv, KeyInv, RowInv, RowOK, Captured, Unlink, SetCircleId, External
<1> QED
  BY <1>1, <1>2, WorldChange DEF Unlink, SetCircleId

LEMMA IntentStep ==
  ASSUME Inv, NEW k \in Keys, IntentMoves(k)
  PROVE  Inv'
<1>1. PICK s \in {"succeeded", "failed"}: intent' = [intent EXCEPT ![k].now = s]
  BY DEF IntentMoves
<1>2. PICK i: i = [intent[k] EXCEPT !.now = s]
  OBVIOUS
<1>3. intent[k] \in Intents /\ ClientKey \in Keys
  BY DEF Inv, TypeOK, Keys
<1>4. i \in Intents /\ i.first = intent[k].first /\ i.now = s
  BY <1>2, <1>3 DEF Intents, IntentStatuses
<1>5. intent' \in [Keys -> Intents]
      /\ \A j \in Keys: intent'[j] = IF j = k THEN i ELSE intent[j]
  BY <1>1, <1>2, <1>4 DEF Inv, TypeOK
<1>6. k = ClientKey /\ ~Captured /\ intent[k].first # "none"
      /\ intent[k].first # "succeeded" /\ payment[ClientKey] = {}
  BY <1>3 DEF Inv, TypeOK, KeyInv, Captured, IntentMoves
<1>7. TypeOK'
  BY <1>5 DEF Inv, TypeOK, IntentMoves
<1>8. KeyInv'
  BY <1>3, <1>4, <1>5, <1>6 DEF Inv, KeyInv, Captured, IntentMoves
<1>9. RowInv'
  BY <1>6 DEF Inv, RowInv, RowOK, IntentMoves
<1> QED
  BY <1>6, <1>7, <1>8, <1>9, WorldChange DEF IntentMoves

LEMMA PaymentStep ==
  ASSUME Inv, NEW k \in Keys, PaymentMoves(k)
  PROVE  Inv'
<1>1. PICK s \in PaymentStatuses: payment' = [payment EXCEPT ![k] = @ \cup {s}]
  BY DEF PaymentMoves, PaymentStatuses
<1>2. payment' \in [Keys -> SUBSET PaymentStatuses]
      /\ \A j \in Keys: payment[j] \subseteq payment'[j]
                        /\ (payment'[j] # {} => payment[j] # {})
  BY <1>1 DEF Inv, TypeOK, PaymentMoves
<1>3. ClientKey \in Keys
  BY DEF Keys
<1>4. TypeOK'
  BY <1>2 DEF Inv, TypeOK, PaymentMoves
<1>5. KeyInv' /\ (Captured => Captured')
  BY <1>2, <1>3 DEF Inv, KeyInv, Captured, PaymentMoves
<1>6. RowInv'
  BY <1>2, <1>3 DEF Inv, RowInv, RowOK, Captured, PaymentMoves
<1> QED
  BY <1>4, <1>5, <1>6, WorldChange DEF PaymentMoves

LEMMA PayoutStep ==
  ASSUME Inv, NEW r \in Requests, PayoutMoves(r)
  PROVE  Inv'
<1>1. PICK s \in PayoutEvents: payout' = [payout EXCEPT ![r] = @ \cup {s}]
  BY DEF PayoutMoves, PayoutEvents
<1>2. payout' \in [Requests -> SUBSET PayoutEvents]
      /\ \A t \in Requests: payout[t] \subseteq payout'[t]
  BY <1>1 DEF Inv, TypeOK
<1>3. TypeOK'
  BY <1>2 DEF Inv, TypeOK, PayoutMoves
<1>4. KeyInv' /\ (Captured => Captured')
  BY DEF Inv, KeyInv, Captured, PayoutMoves
<1>5. RowInv'
  BY <1>2 DEF Inv, RowInv, RowOK, Captured, PayoutMoves
<1> QED
  BY <1>3, <1>4, <1>5, WorldChange DEF PayoutMoves

\* A notification writes one column of a row that is there.
LEMMA RowChange ==
  ASSUME Inv, NEW r \in Requests, row[r] # NoRow, NEW made \in Rows,
         row' = [row EXCEPT ![r] = made],
         UNCHANGED <<op, at, cache, card, req, External, forgot>>,
         made.status = "captured" => Captured,
         made.onChain = "confirmed" => "paid" \in payment[ClientKey],
         made.status \in {"paid", "returned"} => made.status \in payout[r]
  PROVE  Inv'
<1>1. row' \in [Requests -> Rows \cup {NoRow}]
      /\ \A s \in Requests: row'[s] = IF s = r THEN made ELSE row[s]
  BY DEF Inv, TypeOK
<1>2. made # NoRow
  BY NamesAssumption
<1>3. \A s \in Requests: row'[s] = NoRow <=> row[s] = NoRow
  BY <1>1, <1>2
<1>4. TypeOK'
  BY <1>1 DEF Inv, TypeOK, External
<1>5. KeyInv' /\ (Captured => Captured')
  BY DEF Inv, KeyInv, Captured, External
<1>6. RowInv'
  <2>1. ASSUME NEW s \in Requests, row'[s] # NoRow PROVE RowOK(s)'
    <3>1. CASE s = r
      BY <1>1, <3>1 DEF RowOK, Captured, External
    <3>2. CASE s # r
      BY <1>1, <2>1, <3>2 DEF Inv, RowInv, RowOK, Captured, External
    <3> QED
      BY <3>1, <3>2
  <2> QED
    BY <1>3, <2>1 DEF Inv, RowInv
<1> QED
  BY <1>3, <1>4, <1>5, <1>6, WorldChange

LEMMA CircleStep ==
  ASSUME Inv, NEW r \in Requests, NEW s \in PaymentStatuses, CircleNotifies(r, s)
  PROVE  Inv'
<1>1. OnChain[s] \in {"pending", "confirmed", "failed"}
      /\ (OnChain[s] = "confirmed" => s = "paid")
  BY DEF OnChain, PaymentStatuses
<1>2. PICK made: made = [row[r] EXCEPT !.onChain = OnChain[s]]
  OBVIOUS
<1>3. row[r] \in Rows /\ row[r] # NoRow /\ RowOK(r)
  BY DEF Inv, TypeOK, RowInv, CircleNotifies
<1>4. made \in Rows /\ made.status = row[r].status /\ made.onChain = OnChain[s]
  BY <1>1, <1>2, <1>3 DEF Rows
<1>5. row' = [row EXCEPT ![r] = made] /\ s \in payment[ClientKey]
      /\ UNCHANGED <<op, at, cache, card, req, External, forgot>>
  BY <1>2 DEF CircleNotifies, PaymentKey
<1> QED
  BY <1>1, <1>3, <1>4, <1>5, RowChange DEF RowOK

LEMMA ProcessorStep ==
  ASSUME Inv, NEW r \in Requests, NEW s \in PayoutEvents, ProcessorNotifies(r, s)
  PROVE  Inv'
<1>1. PayoutStatus[s] \in RowStatuses /\ PayoutStatus[s] # "captured"
      /\ (PayoutStatus[s] \in {"paid", "returned"} => PayoutStatus[s] = s)
  BY DEF PayoutStatus, PayoutEvents, RowStatuses, FundingStatuses
<1>2. PICK made: made = [row[r] EXCEPT !.status = PayoutStatus[s]]
  OBVIOUS
<1>3. row[r] \in Rows /\ row[r] # NoRow /\ RowOK(r)
  BY DEF Inv, TypeOK, RowInv, ProcessorNotifies
<1>4. made \in Rows /\ made.status = PayoutStatus[s] /\ made.onChain = row[r].onChain
  BY <1>1, <1>2, <1>3 DEF Rows
<1>5. row' = [row EXCEPT ![r] = made] /\ s \in payout[r]
      /\ UNCHANGED <<op, at, cache, card, req, External, forgot>>
  BY <1>2 DEF ProcessorNotifies
<1> QED
  BY <1>1, <1>3, <1>4, <1>5, RowChange DEF RowOK

----------------------------------------------------------------------------
\* The map is emptied, and with the process every handler is gone.
LEMMA ForgetStep ==
  ASSUME Inv, NEW i \in Instances, Restart(i) \/ Expire(i)
  PROVE  Inv'
<1>1. /\ cache' = [cache EXCEPT ![i] = NoAnswer] /\ forgot' = forgot \cup {i}
      /\ UNCHANGED <<op, at, card, External, row>>
  BY DEF Restart, Expire
<1>2. \A r \in Requests:
        /\ req'[r] \in Reqs
        /\ req'[r].status = req[r].status
        /\ req'[r].answer = req[r].answer
        /\ req'[r].after = req[r].after
        /\ req'[r].stage \in {"lost", req[r].stage}
  <2>1. CASE Expire(i)
    BY <2>1 DEF Expire, Inv, TypeOK
  <2>2. CASE Restart(i)
    <3> DEFINE next(r) == IF r \in Running(i)
                          THEN [req[r] EXCEPT !.stage = "lost"] ELSE req[r]
    <3>1. \A r \in Requests: req'[r] = next(r)
      BY <2>2 DEF Restart
    <3>2. ASSUME NEW r \in Requests
          PROVE  /\ next(r) \in Reqs
                 /\ next(r).status = req[r].status
                 /\ next(r).answer = req[r].answer
                 /\ next(r).after = req[r].after
                 /\ next(r).stage \in {"lost", req[r].stage}
      <4>1. req[r] \in Reqs
        BY DEF Inv, TypeOK
      <4> QED
        BY <4>1 DEF Reqs, Stages
    <3> HIDE DEF next
    <3> QED
      BY <3>1, <3>2
  <2> QED
    BY <2>1, <2>2
<1>3. req' \in [Requests -> Reqs]
  <2>1. req' = [r \in Requests |-> req'[r]]
    BY DEF Restart, Expire, Inv, TypeOK
  <2> QED
    BY <1>2, <2>1
<1>4. TypeOK'
  BY <1>1, <1>3 DEF Inv, TypeOK, External
<1>5. KeyInv' /\ RowInv' /\ CacheInv'
  BY <1>1 DEF Inv, TypeOK, KeyInv, RowInv, RowOK, CacheInv, Honest, Captured, External
<1>6. ReqInv'
  <2>1. ASSUME NEW r \in Requests PROVE ReqOK(r, req[r])'
    <3>1. ReqOK(r, req[r])
      BY DEF Inv, ReqInv
    <3>2. Known(r) => Known(r)'
      BY <1>1 DEF Inv, TypeOK, Known
    <3> QED
      BY <1>1, <1>2, <3>1, <3>2 DEF ReqOK, Honest, Captured, External
  <2> QED
    BY <2>1 DEF ReqInv
<1> QED
  BY <1>4, <1>5, <1>6 DEF Inv

LEMMA StepInv == Inv /\ [Next]_vars => Inv'
<1> SUFFICES ASSUME Inv, [Next]_vars PROVE Inv'
  OBVIOUS
<1>1. CASE UNCHANGED vars
  BY <1>1 DEF vars, Inv, TypeOK, KeyInv, ReqInv, ReqOK, CacheInv, RowInv, RowOK, Honest,
     Known, Captured
<1>2. CASE \E r \in Requests: Handler(r)
  <2>1. PICK r \in Requests: Handler(r)
    BY <1>2
  <2> QED
    BY <2>1, ReplayStep, EnterStep, AnswerStep, ReadStep, ChargeStep, BuyStep, PayingStep,
       PayoutFailsStep, RecordStep DEF Handler
<1>3. CASE World
  BY <1>3, CardStep, IntentStep, PaymentStep, PayoutStep, CircleStep, ProcessorStep,
     ForgetStep DEF World
<1>4. CASE Done
  BY <1>1, <1>4 DEF Done
<1> QED
  BY <1>1, <1>2, <1>3, <1>4 DEF Next

LEMMA Invariant == Spec => []Inv
BY InitInv, StepInv, PTL DEF Spec

----------------------------------------------------------------------------
\* Every reachable state is well typed.
THEOREM TypeCorrect == Spec => []TypeOK
<1>1. Inv => TypeOK
  BY DEF Inv
<1> QED
  BY <1>1, Invariant, PTL

\* One key, one PaymentIntent, one Circle payment, and that one of a charge
\* that was captured.
THEOREM OneCharge == Spec => []ChargedOnce
<1>1. Inv => ChargedOnce
  <2> SUFFICES ASSUME Inv PROVE ChargedOnce
    OBVIOUS
  <2>1. ClientKey \in Keys
    BY DEF Keys
  <2> QED
    BY <2>1 DEF Inv, KeyInv, ChargedOnce, Captured
<1> QED
  BY <1>1, Invariant, PTL

\* A 202 names a row, and all the 202s of an add-money key the same one.
THEOREM AcceptedAreRecorded == Spec => []AcceptedRecorded
<1>1. Inv => AcceptedRecorded
  <2> SUFFICES ASSUME Inv PROVE AcceptedRecorded
    OBVIOUS
  <2>1. \A r \in Requests: req[r].answer # NoAnswer => req[r].answer.by \in Requests
    BY DEF Inv, TypeOK, Reqs, Answers
  <2> QED
    BY <2>1 DEF Inv, ReqInv, ReqOK, Honest, Known, RowInv, AcceptedRecorded
<1> QED
  BY <1>1, Invariant, PTL

\* A handler that begins after an answer was given runs on another instance, or
\* on one that has lost its map.
THEOREM AnswersEndIt == Spec => []NothingAfterAnswer
<1>1. Inv => NothingAfterAnswer
  BY DEF Inv, ReqInv, ReqOK, NothingAfterAnswer
<1> QED
  BY <1>1, Invariant, PTL

\* The rows do not run ahead of the money.
THEOREM StatusesGenuine == Spec => []StatusGenuine
<1>1. Inv => StatusGenuine
  <2> SUFFICES ASSUME Inv PROVE StatusGenuine
    OBVIOUS
  <2>1. ClientKey \in Keys
    BY DEF Keys
  <2> QED
    BY <2>1 DEF Inv, RowInv, RowOK, StatusGenuine, Captured
<1> QED
  BY <1>1, Invariant, PTL
=============================================================================
