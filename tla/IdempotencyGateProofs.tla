------------------------ MODULE IdempotencyGateProofs ------------------------
(***************************************************************************)
(* The gate is right for any number of requests and payloads: one payload  *)
(* per key, one entry into the handler as long as no lock runs out and no  *)
(* handler fails, genuine replays, no PROCESSING row without a holder; and *)
(* all requests of a key are one IdempotentOperation.                      *)
(*                                                                         *)
(* The strengthening is about the requests between their SELECT and their  *)
(* write: a request that is to take the row over has the row's payload,    *)
(* and one that is to write its outcome has entered the handler.           *)
(***************************************************************************)
EXTENDS IdempotencyGate, TLAPS

\* The handler is entered, its outcome not yet stored.
Entered == {"running", "answered"}

\* What a request of the stage knows.
StageInv ==
    /\ \A r \in Requests: req[r].stage \in Entered => r \in ran
    /\ \A r \in Requests: req[r].stage = "updating" => row # NoRow /\ req[r].payload = row.hash
    /\ \A r \in ran: req[r].stage \notin {"new", "inserting", "updating"}
    /\ \A r \in Requests:
         req[r].stage \in {"new", "inserting", "updating", "running"} =>
           req[r].reply = "none"
    /\ \A r \in ran: req[r].reply \in {"none", "handled"}

\* A handler's answer is its own, and is known from the moment it is computed.
AnswerInv ==
    /\ \A r \in Requests: req[r].reply = "handled" =>
         r \in ran /\ req[r].answer \in Answers /\ req[r].answer.by = r
    /\ \A r \in Requests: req[r].stage = "answered" => req[r].reply = "handled"
    /\ \A r \in Requests: req[r].reply = "replayed" =>
         req[r].answer.by \in ran /\ req[req[r].answer.by].reply = "handled"

\* A COMPLETED row holds the answer of the handler that computed it.
StoredInv ==
    row # NoRow /\ row.status = "COMPLETED" =>
        /\ row.answer \in Answers
        /\ row.answer.code # "error"
        /\ row.answer.by \in ran
        /\ req[row.answer.by].reply = "handled"
        /\ req[row.answer.by].answer = row.answer

\* A handler has answered 5xx.
HandlerFailed == \E r \in ran: req[r].reply = "handled" /\ req[r].answer.code = "error"

\* Until a lock runs out or a handler fails nobody may take the row over.
EnteredInv ==
    \/ expired
    \/ HandlerFailed
    \/ /\ \A r, s \in ran: r = s
       /\ \A r \in Requests: req[r].stage # "updating"
       /\ row # NoRow =>
            row.status = "COMPLETED" \/ (row.status = "PROCESSING" /\ row.lock = "held")

GateInv ==
    /\ TypeOK
    /\ OnePayload
    /\ StageInv
    /\ AnswerInv
    /\ StoredInv
    /\ ReplayGenuine
    /\ ProcessingHasHolder
    /\ EnteredInv

LEMMA InitInv == Init => GateInv
<1> SUFFICES ASSUME Init PROVE GateInv
  OBVIOUS
<1>1. \A r \in Requests: req[r] \in Reqs /\ req[r].stage = "new" /\ req[r].reply = "none"
  BY DEF Init, Reqs, Stages, Replies
<1>2. TypeOK
  <2>1. req \in [Requests -> Reqs]
    BY <1>1 DEF Init
  <2>2. QED
    BY <2>1 DEF Init, TypeOK
<1>3. QED
  BY <1>1, <1>2 DEF Init, GateInv, OnePayload, StageInv, AnswerInv, StoredInv,
     ReplayGenuine, ProcessingHasHolder, EnteredInv, Entered

\* next(err) or a replay: the request ends at the gate.
LEMMA RefuseStep ==
    ASSUME GateInv, NEW r \in Requests, NEW reply \in Replies \ {"none", "handled"},
           NEW answer \in Answers \cup {NoAnswer},
           req[r].stage \in {"new", "inserting", "updating"},
           Refuse(r, reply, answer),
           reply = "replayed" =>
               /\ row # NoRow /\ row.hash = req[r].payload
               /\ row.status = "COMPLETED" /\ answer = row.answer
    PROVE  GateInv'
<1> DEFINE new == [req[r] EXCEPT !.stage = "done", !.reply = reply, !.answer = answer]
<1>1. /\ req' = [req EXCEPT ![r] = new]
      /\ row' = row /\ ran' = ran /\ expired' = expired
  BY DEF Refuse
<1>2. /\ new \in Reqs /\ new.payload = req[r].payload /\ new.stage = "done"
      /\ new.reply = reply /\ new.answer = answer
  BY DEF GateInv, TypeOK, Reqs, Stages
<1>3. r \notin ran
  BY DEF GateInv, StageInv
<1> HIDE DEF new
<1>4. TypeOK'
  BY <1>1, <1>2 DEF GateInv, TypeOK
<1>5. /\ \A s \in Requests: req'[s].payload = req[s].payload
      /\ \A s \in Requests \ {r}: req'[s] = req[s]
      /\ req'[r] = new
  BY <1>1, <1>2 DEF GateInv, TypeOK
<1>6. \A s \in ran: req'[s] = req[s] /\ s \in Requests
  BY <1>3, <1>5 DEF GateInv, TypeOK
<1>7. OnePayload'
  BY <1>1, <1>6 DEF GateInv, OnePayload
<1>8. StageInv'
  BY <1>1, <1>2, <1>3, <1>5, <1>6 DEF GateInv, StageInv, Entered
<1>9. AnswerInv'
  <2>1. \A s \in Requests: req'[s].reply = "replayed" =>
          req'[s].answer.by \in ran /\ req'[req'[s].answer.by].reply = "handled"
    BY <1>1, <1>2, <1>5, <1>6 DEF GateInv, AnswerInv, StoredInv
  <2>2. QED
    BY <2>1, <1>1, <1>2, <1>5 DEF GateInv, AnswerInv
<1>10. StoredInv'
  BY <1>1, <1>6 DEF GateInv, StoredInv
<1>11. ReplayGenuine'
  <2> SUFFICES ASSUME NEW s \in Requests, req'[s].reply = "replayed"
               PROVE  /\ req'[s].answer # NoAnswer
                      /\ req'[s].answer.code # "error"
                      /\ req'[s].answer.by \in ran
                      /\ req'[req'[s].answer.by].payload = req'[s].payload
                      /\ req'[s].answer.by # s
                      /\ req'[req'[s].answer.by].answer = req'[s].answer
    BY <1>1 DEF ReplayGenuine
  <2>1. CASE s = r
    <3>1. /\ req'[s].answer = row.answer /\ row.answer \in Answers
          /\ row.answer.code # "error" /\ row.answer.by \in ran
          /\ req[row.answer.by].answer = row.answer
          /\ row.hash = req[r].payload /\ row # NoRow
      BY <2>1, <1>2, <1>5 DEF GateInv, StoredInv
    <3>2. row.answer # NoAnswer
      BY <3>1, NamesAssumption
    <3>3. req[row.answer.by].payload = row.hash
      BY <3>1 DEF GateInv, OnePayload
    <3>4. QED
      BY <3>1, <3>2, <3>3, <2>1, <1>3, <1>5, <1>6
  <2>2. CASE s # r
    <3>1. req'[s] = req[s] /\ req[s].reply = "replayed"
      BY <2>2, <1>5
    <3>2. QED
      BY <3>1, <1>6 DEF GateInv, ReplayGenuine
  <2>3. QED
    BY <2>1, <2>2
<1>12. ProcessingHasHolder'
  BY <1>1, <1>6 DEF GateInv, ProcessingHasHolder
<1>13. EnteredInv'
  BY <1>1, <1>2, <1>5, <1>6 DEF GateInv, EnteredInv, HandlerFailed
<1>14. QED
  BY <1>4, <1>7, <1>8, <1>9, <1>10, <1>11, <1>12, <1>13 DEF GateInv

\* A request that moves on, its reply unchanged, while the row and the set of
\* entered requests stay: to its write, or out of the process.
LEMMA MoveStep ==
    ASSUME GateInv, NEW r \in Requests, NEW stage \in {"inserting", "updating", "lost"},
           Move(r, stage), UNCHANGED <<row, ran, expired>>,
           stage # "lost" => req[r].stage = "new",
           stage = "updating" => row # NoRow /\ row.hash = req[r].payload /\ Reusable,
           stage = "lost" => req[r].stage = "answered"
    PROVE  GateInv'
<1>1. req' = [req EXCEPT ![r].stage = stage]
  BY DEF Move
<1>2. /\ \A s \in Requests: /\ req'[s].payload = req[s].payload
                            /\ req'[s].reply = req[s].reply
                            /\ req'[s].answer = req[s].answer
      /\ \A s \in Requests \ {r}: req'[s] = req[s]
      /\ req'[r].stage = stage
  BY <1>1 DEF GateInv, TypeOK, Reqs
<1>3. TypeOK'
  BY <1>1 DEF GateInv, TypeOK, Reqs, Stages
<1>4. OnePayload'
  BY <1>2 DEF GateInv, TypeOK, OnePayload
<1>5. StageInv'
  BY <1>2 DEF GateInv, TypeOK, StageInv, Entered
<1>6. AnswerInv'
  <2>1. \A s \in Requests: req[s].reply = "replayed" => req[s].answer.by \in Requests
    BY DEF GateInv, TypeOK, AnswerInv
  <2>2. QED
    BY <2>1, <1>2 DEF GateInv, TypeOK, AnswerInv
<1>7. StoredInv'
  BY <1>2 DEF GateInv, TypeOK, StoredInv
<1>8. ReplayGenuine'
  BY <1>2 DEF GateInv, TypeOK, ReplayGenuine
<1>9. ProcessingHasHolder'
  BY <1>2 DEF GateInv, TypeOK, StageInv, ProcessingHasHolder
<1>10. EnteredInv'
  <2>1. HandlerFailed => HandlerFailed'
    BY <1>2 DEF GateInv, TypeOK, HandlerFailed
  <2>2. CASE expired \/ HandlerFailed
    BY <2>1, <2>2 DEF EnteredInv
  <2>3. CASE ~expired /\ ~HandlerFailed
    <3>1. row # NoRow =>
            row.status = "COMPLETED" \/ (row.status = "PROCESSING" /\ row.lock = "held")
      BY <2>3 DEF GateInv, EnteredInv
    <3>2. stage # "updating"
      BY <3>1 DEF Reusable
    <3>3. QED
      BY <2>3, <3>2, <1>2 DEF GateInv, EnteredInv
  <2>4. QED
    BY <2>2, <2>3
<1>11. QED
  BY <1>3, <1>4, <1>5, <1>6, <1>7, <1>8, <1>9, <1>10 DEF GateInv

\* The key is won, by the INSERT or by the take-over: the handler is entered.
LEMMA EnterStep ==
    ASSUME GateInv, NEW r \in Requests, Insert(r) \/ Update(r)
    PROVE  GateInv'
<1>1. /\ req' = [req EXCEPT ![r].stage = "running"]
      /\ ran' = ran \cup {r} /\ expired' = expired
      /\ req[r].stage \in {"inserting", "updating"}
  BY DEF Insert, Update, Move
<1>2. /\ row' \in Rows /\ row' # NoRow /\ row'.hash = req[r].payload
      /\ row'.status = "PROCESSING" /\ row'.lock = "held"
      /\ row = NoRow \/ row'.hash = row.hash
  <2>1. CASE Insert(r)
    <3>1. row' \in Rows
      BY <2>1 DEF Insert, GateInv, TypeOK, Reqs, Rows
    <3>2. QED
      BY <2>1, <3>1, NamesAssumption DEF Insert
  <2>2. CASE Update(r)
    <3>1. row \in Rows /\ req[r].payload = row.hash
      BY <2>2 DEF Update, GateInv, TypeOK, StageInv
    <3>2. row' \in Rows /\ row'.hash = row.hash
          /\ row'.status = "PROCESSING" /\ row'.lock = "held"
      BY <2>2, <3>1 DEF Update, Rows
    <3>3. QED
      BY <3>1, <3>2, NamesAssumption
  <2>3. QED
    BY <2>1, <2>2
<1>3. /\ \A s \in Requests: /\ req'[s].payload = req[s].payload
                            /\ req'[s].reply = req[s].reply
                            /\ req'[s].answer = req[s].answer
      /\ \A s \in Requests \ {r}: req'[s] = req[s]
      /\ req'[r].stage = "running"
  BY <1>1 DEF GateInv, TypeOK, Reqs
<1>4. r \notin ran /\ req[r].reply = "none"
  BY <1>1 DEF GateInv, StageInv
<1>5. TypeOK'
  BY <1>1, <1>2 DEF GateInv, TypeOK, Reqs, Stages
<1>6. OnePayload'
  BY <1>1, <1>2, <1>3 DEF GateInv, TypeOK, OnePayload
<1>7. StageInv'
  <2>1. \A s \in Requests: req[s].stage = "updating" => row # NoRow
    BY DEF GateInv, StageInv
  <2>2. QED
    BY <2>1, <1>1, <1>2, <1>3, <1>4 DEF GateInv, TypeOK, StageInv, Entered
<1>8. AnswerInv'
  <2>1. \A s \in Requests: req[s].reply = "replayed" => req[s].answer.by \in Requests
    BY DEF GateInv, TypeOK, AnswerInv
  <2>2. QED
    BY <2>1, <1>1, <1>3 DEF GateInv, TypeOK, AnswerInv
<1>9. StoredInv' /\ ProcessingHasHolder'
  BY <1>1, <1>2, <1>3 DEF StoredInv, ProcessingHasHolder
<1>10. ReplayGenuine'
  BY <1>1, <1>3 DEF GateInv, TypeOK, ReplayGenuine
<1>11. EnteredInv'
  <2>1. HandlerFailed => HandlerFailed'
    BY <1>1, <1>3 DEF GateInv, TypeOK, HandlerFailed
  <2>2. CASE expired \/ HandlerFailed
    BY <2>1, <2>2, <1>1 DEF EnteredInv
  <2>3. CASE ~expired /\ ~HandlerFailed
    <3>1. Insert(r)
      BY <2>3 DEF Update, GateInv, EnteredInv
    <3>2. ran = {}
      BY <3>1 DEF Insert, GateInv, OnePayload
    <3>3. QED
      BY <2>3, <3>2, <1>1, <1>2, <1>3 DEF GateInv, EnteredInv
  <2>4. QED
    BY <2>2, <2>3
<1>12. QED
  BY <1>5, <1>6, <1>7, <1>8, <1>9, <1>10, <1>11 DEF GateInv

\* The handler answers.
LEMMA HandleStep ==
    ASSUME GateInv, NEW r \in Requests, Handle(r)
    PROVE  GateInv'
<1>1. PICK code \in Codes:
        req' = [req EXCEPT ![r] = [@ EXCEPT !.stage = "answered", !.reply = "handled",
                                            !.answer = [by |-> r, code |-> code]]]
  BY DEF Handle
<1>2. /\ req[r].stage = "running" /\ r \in ran /\ req[r].reply = "none"
      /\ row' = row /\ ran' = ran /\ expired' = expired
  BY DEF Handle, GateInv, StageInv, Entered
<1> DEFINE answer == [by |-> r, code |-> code]
           new == [req[r] EXCEPT !.stage = "answered", !.reply = "handled",
                                 !.answer = answer]
<1>3. /\ answer \in Answers /\ answer.by = r
      /\ new \in Reqs /\ new.payload = req[r].payload /\ new.stage = "answered"
      /\ new.reply = "handled" /\ new.answer = answer
  BY DEF GateInv, TypeOK, Reqs, Answers, Stages, Replies
<1>4. req' = [req EXCEPT ![r] = new]
  BY <1>1
<1> HIDE DEF new, answer
<1>5. /\ \A s \in Requests: req'[s].payload = req[s].payload
      /\ \A s \in Requests \ {r}: req'[s] = req[s]
      /\ req'[r] = new
  BY <1>3, <1>4 DEF GateInv, TypeOK
<1>6. TypeOK'
  BY <1>2, <1>3, <1>4 DEF GateInv, TypeOK
<1>7. OnePayload'
  BY <1>2, <1>5 DEF GateInv, TypeOK, OnePayload
<1>8. StageInv'
  BY <1>2, <1>3, <1>5 DEF GateInv, TypeOK, StageInv, Entered
<1>9. \A s \in Requests: req[s].reply = "replayed" =>
        /\ req[s].answer.by \in Requests \ {r}
        /\ req'[req[s].answer.by] = req[req[s].answer.by]
  BY <1>2, <1>5 DEF GateInv, TypeOK, AnswerInv
<1>10. AnswerInv'
  BY <1>2, <1>3, <1>5, <1>9 DEF GateInv, AnswerInv
<1>11. StoredInv'
  <2>1. row # NoRow /\ row.status = "COMPLETED" =>
          row.answer.by \in Requests \ {r}
    BY <1>2 DEF GateInv, TypeOK, StoredInv
  <2>2. QED
    BY <2>1, <1>2, <1>5 DEF GateInv, StoredInv
<1>12. ReplayGenuine'
  BY <1>2, <1>3, <1>5, <1>9 DEF GateInv, ReplayGenuine
<1>13. ProcessingHasHolder'
  BY <1>2, <1>3, <1>5 DEF GateInv, TypeOK, ProcessingHasHolder
<1>14. EnteredInv'
  <2>1. HandlerFailed => HandlerFailed'
    BY <1>2, <1>5 DEF GateInv, TypeOK, HandlerFailed
  <2>2. QED
    BY <2>1, <1>2, <1>3, <1>5 DEF GateInv, EnteredInv
<1>15. QED
  BY <1>6, <1>7, <1>8, <1>10, <1>11, <1>12, <1>13, <1>14 DEF GateInv

\* The finish hook stores the outcome.
LEMMA FinishStep ==
    ASSUME GateInv, NEW r \in Requests, Finish(r)
    PROVE  GateInv'
<1>1. /\ req' = [req EXCEPT ![r].stage = "done"]
      /\ req[r].stage = "answered" /\ req[r].reply = "handled"
      /\ r \in ran /\ req[r].answer \in Answers /\ req[r].answer.by = r
      /\ ran' = ran /\ expired' = expired /\ row \in Rows /\ row # NoRow
  BY DEF Finish, Move, GateInv, TypeOK, StageInv, AnswerInv, OnePayload, Entered
<1>2. /\ row' \in Rows /\ row' # NoRow /\ row'.hash = row.hash
      /\ row'.answer = req[r].answer
      /\ row'.status = IF req[r].answer.code = "error" THEN "FAILED" ELSE "COMPLETED"
  <2>1. row' \in Rows
    BY <1>1 DEF Finish, Rows
  <2>2. QED
    BY <2>1, <1>1, NamesAssumption DEF Finish, Rows
<1>3. /\ \A s \in Requests: /\ req'[s].payload = req[s].payload
                            /\ req'[s].reply = req[s].reply
                            /\ req'[s].answer = req[s].answer
      /\ \A s \in Requests \ {r}: req'[s] = req[s]
      /\ req'[r].stage = "done"
  BY <1>1 DEF GateInv, TypeOK, Reqs
<1>4. TypeOK'
  BY <1>1, <1>2 DEF GateInv, TypeOK, Reqs, Stages
<1>5. OnePayload'
  BY <1>1, <1>2, <1>3 DEF GateInv, TypeOK, OnePayload
<1>6. StageInv'
  BY <1>1, <1>2, <1>3 DEF GateInv, TypeOK, StageInv, Entered
<1>7. AnswerInv'
  <2>1. \A s \in Requests: req[s].reply = "replayed" => req[s].answer.by \in Requests
    BY DEF GateInv, TypeOK, AnswerInv
  <2>2. QED
    BY <2>1, <1>1, <1>3 DEF GateInv, TypeOK, AnswerInv
<1>8. StoredInv' /\ ProcessingHasHolder'
  BY <1>1, <1>2, <1>3 DEF StoredInv, ProcessingHasHolder
<1>9. ReplayGenuine'
  BY <1>1, <1>3 DEF GateInv, TypeOK, ReplayGenuine
<1>10. EnteredInv'
  <2>1. HandlerFailed => HandlerFailed'
    BY <1>1, <1>3 DEF GateInv, TypeOK, HandlerFailed
  <2>2. req[r].answer.code = "error" => HandlerFailed
    BY <1>1 DEF HandlerFailed
  <2>3. QED
    BY <2>1, <2>2, <1>1, <1>2, <1>3 DEF GateInv, EnteredInv
<1>11. QED
  BY <1>4, <1>5, <1>6, <1>7, <1>8, <1>9, <1>10 DEF GateInv

\* The process dies, or a lock runs out.
LEMMA OutsideStep == GateInv /\ (Crash \/ LockRunsOut) => GateInv'
<1> SUFFICES ASSUME GateInv, Crash \/ LockRunsOut PROVE GateInv'
  OBVIOUS
<1>1. CASE Crash
  <2>1. /\ row' = row /\ ran' = ran /\ expired' = expired
        /\ req' = [r \in Requests |-> IF req[r].stage \in InFlight
                                     THEN [req[r] EXCEPT !.stage = "lost"]
                                     ELSE req[r]]
    BY <1>1 DEF Crash
  <2>2. \A s \in Requests: /\ req'[s] \in Reqs
                           /\ req'[s].payload = req[s].payload
                           /\ req'[s].reply = req[s].reply
                           /\ req'[s].answer = req[s].answer
                           /\ \/ req'[s].stage = req[s].stage /\ req[s].stage \notin InFlight
                              \/ req'[s].stage = "lost" /\ req[s].stage \in InFlight
    BY <2>1 DEF GateInv, TypeOK, Reqs, Stages
  <2>3. TypeOK'
    BY <2>1, <2>2 DEF GateInv, TypeOK
  <2>4. OnePayload'
    BY <2>1, <2>2 DEF GateInv, TypeOK, OnePayload
  <2>5. StageInv'
    BY <2>1, <2>2 DEF GateInv, TypeOK, StageInv, Entered, InFlight
  <2>6. AnswerInv'
    <3>1. \A s \in Requests: req[s].reply = "replayed" => req[s].answer.by \in Requests
      BY DEF GateInv, TypeOK, AnswerInv
    <3>2. QED
      BY <3>1, <2>1, <2>2 DEF GateInv, AnswerInv, InFlight
  <2>7. StoredInv'
    BY <2>1, <2>2 DEF GateInv, TypeOK, StoredInv
  <2>8. ReplayGenuine'
    BY <2>1, <2>2 DEF GateInv, TypeOK, ReplayGenuine
  <2>9. ProcessingHasHolder'
    BY <2>1, <2>2 DEF GateInv, TypeOK, ProcessingHasHolder, InFlight
  <2>10. EnteredInv'
    BY <2>1, <2>2 DEF GateInv, TypeOK, EnteredInv, HandlerFailed, InFlight
  <2>11. QED
    BY <2>3, <2>4, <2>5, <2>6, <2>7, <2>8, <2>9, <2>10 DEF GateInv
<1>2. CASE LockRunsOut
  <2>1. /\ row \in Rows /\ row' = [row EXCEPT !.lock = "past"] /\ expired' = TRUE
        /\ req' = req /\ ran' = ran /\ row # NoRow
    BY <1>2 DEF LockRunsOut, GateInv, TypeOK
  <2>2. /\ row' \in Rows /\ row' # NoRow /\ row'.hash = row.hash
        /\ row'.status = row.status /\ row'.answer = row.answer
    <3>1. row' \in Rows
      BY <2>1 DEF Rows
    <3>2. QED
      BY <2>1, <3>1, NamesAssumption DEF Rows
  <2>3. TypeOK' /\ EnteredInv'
    BY <2>1, <2>2 DEF GateInv, TypeOK, EnteredInv
  <2>4. OnePayload' /\ StageInv' /\ AnswerInv'
    BY <2>1, <2>2 DEF GateInv, OnePayload, StageInv, AnswerInv
  <2>5. StoredInv' /\ ReplayGenuine' /\ ProcessingHasHolder'
    BY <2>1, <2>2 DEF GateInv, StoredInv, ReplayGenuine, ProcessingHasHolder
  <2>6. QED
    BY <2>3, <2>4, <2>5 DEF GateInv
<1>3. QED
  BY <1>1, <1>2

\* Every step keeps the invariant.
LEMMA StepInv == GateInv /\ [Next]_vars => GateInv'
<1> SUFFICES ASSUME GateInv, [Next]_vars PROVE GateInv'
  OBVIOUS
<1>1. CASE \E r \in Requests: LookupConflict(r) \/ LookupInProgress(r)
                              \/ InsertConflict(r) \/ GateError(r)
  <2>1. PICK r \in Requests: LookupConflict(r) \/ LookupInProgress(r)
                             \/ InsertConflict(r) \/ GateError(r)
    BY <1>1
  <2>2. PICK reply \in {"conflict", "inProgress", "failed"}: Refuse(r, reply, NoAnswer)
    BY <2>1 DEF LookupConflict, LookupInProgress, InsertConflict, GateError
  <2>3. req[r].stage \in {"new", "inserting", "updating"}
    BY <2>1 DEF LookupConflict, LookupInProgress, InsertConflict, GateError
  <2>4. reply \in Replies \ {"none", "handled"} /\ reply # "replayed"
    BY DEF Replies
  <2>5. QED
    BY <2>2, <2>3, <2>4, RefuseStep
<1>2. CASE \E r \in Requests: LookupReplay(r)
  <2>1. PICK r \in Requests: LookupReplay(r)
    BY <1>2
  <2>2. row.answer \in Answers \cup {NoAnswer}
    BY <2>1 DEF LookupReplay, GateInv, TypeOK, Rows
  <2>3. "replayed" \in Replies \ {"none", "handled"}
    BY DEF Replies
  <2>4. QED
    BY <2>1, <2>2, <2>3, RefuseStep DEF LookupReplay
<1>3. CASE \E r \in Requests: LookupAbsent(r) \/ LookupReusable(r) \/ HookLost(r)
  BY <1>3, MoveStep DEF LookupAbsent, LookupReusable, HookLost
<1>4. CASE \E r \in Requests: Insert(r) \/ Update(r)
  BY <1>4, EnterStep
<1>5. CASE \E r \in Requests: Handle(r) \/ Finish(r)
  BY <1>5, HandleStep, FinishStep
<1>6. CASE Crash \/ LockRunsOut
  BY <1>6, OutsideStep
<1>7. CASE UNCHANGED vars
  BY <1>7 DEF vars, GateInv, TypeOK, StageInv, AnswerInv, StoredInv, EnteredInv,
              HandlerFailed, OnePayload, ReplayGenuine, ProcessingHasHolder
<1>8. QED
  BY <1>1, <1>2, <1>3, <1>4, <1>5, <1>6, <1>7 DEF Next, Gate, Done

LEMMA Invariance == Spec => []GateInv
<1>1. Init => GateInv
  BY InitInv
<1>2. GateInv /\ [Next]_vars => GateInv'
  BY StepInv
<1>3. QED
  BY <1>1, <1>2, PTL DEF Spec

----------------------------------------------------------------------------
\* The row and the requests keep their types, whatever the requests do.
THEOREM TypeCorrect == Spec => []TypeOK
<1>1. GateInv => TypeOK
  BY DEF GateInv
<1>2. QED
  BY <1>1, Invariance, PTL

\* A key executes one payload: no two requests with different payloads both
\* enter the handler, for any number of requests.
THEOREM OnePayloadPerKey == Spec => []OnePayload
<1>1. GateInv => OnePayload
  BY DEF GateInv
<1>2. QED
  BY <1>1, Invariance, PTL

\* Without an expired lock and without a failed handler, one request at most
\* enters the handler, for any number of them.
THEOREM EnteredAtMostOnce == Spec => []EnteredOnce
<1>1. GateInv => EnteredOnce
  BY DEF GateInv, EnteredInv, HandlerFailed, EnteredOnce
<1>2. QED
  BY <1>1, Invariance, PTL

\* A replayed answer is one that a handler gave to this payload, and no failure.
THEOREM ReplaysGenuine == Spec => []ReplayGenuine
<1>1. GateInv => ReplayGenuine
  BY DEF GateInv
<1>2. QED
  BY <1>1, Invariance, PTL

\* A key is PROCESSING only while a request that entered the handler has not
\* stored its outcome.
THEOREM ProcessingHeld == Spec => []ProcessingHasHolder
<1>1. GateInv => ProcessingHasHolder
  BY DEF GateInv
<1>2. QED
  BY <1>1, Invariance, PTL

----------------------------------------------------------------------------
(* The requests of a key are one operation: each step is one of it, or none. *)

OpPayload == [r \in Requests |-> req[r].payload]
OpReply == [r \in Requests |-> req[r].reply]
OpAnswer == [r \in Requests |-> req[r].answer]
OpVars == <<OpPayload, ran, OpReply, OpAnswer, expired>>

\* The row is written by a request that enters the handler, and never removed.
RowInv == row # NoRow => ran # {}

LEMMA RowStep == GateInv /\ RowInv /\ [Next]_vars => RowInv'
<1> SUFFICES ASSUME GateInv, RowInv, [Next]_vars PROVE RowInv'
  OBVIOUS
<1>1. ASSUME NEW r \in Requests, Insert(r) \/ Update(r) PROVE RowInv'
  BY <1>1 DEF Insert, Update, RowInv
<1>2. ASSUME NEW r \in Requests, Finish(r) PROVE RowInv'
  BY <1>2 DEF Finish, RowInv, GateInv, StageInv, Entered
<1>3. CASE LockRunsOut
  BY <1>3 DEF LockRunsOut, RowInv
<1>4. CASE row' = row /\ ran' = ran
  BY <1>4 DEF RowInv
<1>5. CASE Crash
  BY <1>4, <1>5 DEF Crash
<1>6. ASSUME NEW r \in Requests,
             \/ LookupAbsent(r) \/ LookupConflict(r) \/ LookupReplay(r)
             \/ LookupInProgress(r) \/ LookupReusable(r) \/ InsertConflict(r)
             \/ Handle(r) \/ GateError(r) \/ HookLost(r)
      PROVE  RowInv'
  BY <1>4, <1>6 DEF LookupAbsent, LookupConflict, LookupReplay, LookupInProgress,
     LookupReusable, InsertConflict, Handle, GateError, HookLost, Refuse
<1>7. CASE UNCHANGED vars
  BY <1>4, <1>7 DEF vars
<1> QED
  BY <1>1, <1>2, <1>3, <1>5, <1>6, <1>7 DEF Next, Gate, Done

\* A request moves within the gate, or is lost: the operation stands still.
LEMMA MoveMaps ==
    ASSUME TypeOK, NEW r \in Requests, NEW s, Move(r, s)
    PROVE  UNCHANGED <<OpPayload, OpReply, OpAnswer>>
BY DEF TypeOK, Reqs, Move, OpPayload, OpReply, OpAnswer

\* A request gets its reply.
LEMMA SettleMaps ==
    ASSUME TypeOK, NEW r \in Requests, NEW how, NEW what, NEW s,
           req' = [req EXCEPT ![r] = [req[r] EXCEPT !.stage = s, !.reply = how,
                                                    !.answer = what]]
    PROVE  /\ OpPayload' = OpPayload
           /\ OpReply' = [OpReply EXCEPT ![r] = how]
           /\ OpAnswer' = [OpAnswer EXCEPT ![r] = what]
<1>1. PICK new: new = [req[r] EXCEPT !.stage = s, !.reply = how, !.answer = what]
  OBVIOUS
<1>2. new.payload = req[r].payload /\ new.reply = how /\ new.answer = what
  BY <1>1 DEF TypeOK, Reqs
<1>3. req'[r] = new /\ \A q \in Requests \ {r}: req'[q] = req[q]
  BY <1>1 DEF TypeOK
<1>4. OpPayload' = OpPayload
  BY <1>2, <1>3 DEF OpPayload
<1>5. OpReply' = [OpReply EXCEPT ![r] = how]
  <2>1. \A q \in Requests: req'[q].reply = IF q = r THEN how ELSE req[q].reply
    BY <1>2, <1>3
  <2>2. OpReply' = [q \in Requests |-> IF q = r THEN how ELSE req[q].reply]
    BY <2>1 DEF OpReply
  <2> QED
    BY <2>2 DEF OpReply
<1>6. OpAnswer' = [OpAnswer EXCEPT ![r] = what]
  <2>1. \A q \in Requests: req'[q].answer = IF q = r THEN what ELSE req[q].answer
    BY <1>2, <1>3
  <2>2. OpAnswer' = [q \in Requests |-> IF q = r THEN what ELSE req[q].answer]
    BY <2>1 DEF OpAnswer
  <2> QED
    BY <2>2 DEF OpAnswer
<1> QED
  BY <1>4, <1>5, <1>6

\* The INSERT finds no one before it; the take-over finds a row that a failure
\* or an expired lock left, and of the same payload.
LEMMA EnterMaps ==
    ASSUME GateInv, NEW r \in Requests, Insert(r) \/ Update(r)
    PROVE  Operation!Execute(r)
<1>1. /\ TypeOK /\ req[r].stage \in {"inserting", "updating"} /\ Move(r, "running")
      /\ ran' = ran \cup {r} /\ expired' = expired /\ ran \subseteq Requests
  BY DEF Insert, Update, GateInv, TypeOK
<1>2. OpReply[r] = "none" /\ r \notin ran
  BY <1>1 DEF GateInv, StageInv, OpReply
<1>3. \A s \in ran: OpPayload[r] = OpPayload[s]
  <2>1. \A s \in ran: row # NoRow /\ req[s].payload = row.hash
    BY DEF GateInv, OnePayload
  <2>2. CASE Insert(r)
    BY <2>1, <2>2 DEF Insert
  <2>3. CASE Update(r)
    <3>1. req[r].payload = row.hash
      BY <2>3 DEF Update, GateInv, StageInv
    <3> QED
      BY <1>1, <2>1, <3>1 DEF OpPayload
  <2> QED
    BY <2>2, <2>3
<1>4. ran = {} \/ expired \/ \E s \in ran: Operation!Failed(s)
  <2>1. CASE Insert(r)
    BY <2>1 DEF Insert, GateInv, OnePayload
  <2>2. CASE Update(r)
    <3>1. expired \/ HandlerFailed
      BY <2>2 DEF Update, GateInv, EnteredInv
    <3> QED
      BY <1>1, <3>1 DEF HandlerFailed, Operation!Failed, OpReply, OpAnswer
  <2> QED
    BY <2>1, <2>2
<1>5. UNCHANGED <<OpPayload, OpReply, OpAnswer>>
  BY <1>1, MoveMaps
<1> QED
  BY <1>1, <1>2, <1>3, <1>4, <1>5
  DEF Operation!Execute, Operation!Same, OpPayload, OpReply, OpAnswer

LEMMA HandleMaps ==
    ASSUME GateInv, NEW r \in Requests, Handle(r)
    PROVE  Operation!Answer(r)
<1>1. TypeOK /\ req[r].stage = "running" /\ r \in ran /\ OpReply[r] = "none"
      /\ UNCHANGED <<ran, expired>>
  BY DEF Handle, GateInv, StageInv, Entered, OpReply
<1>2. PICK code \in Codes:
        req' = [req EXCEPT ![r] = [req[r] EXCEPT !.stage = "answered",
                                                 !.reply = "handled",
                                                 !.answer = [by |-> r, code |-> code]]]
  BY DEF Handle
<1>3. /\ OpPayload' = OpPayload
      /\ OpReply' = [OpReply EXCEPT ![r] = "handled"]
      /\ OpAnswer' = [OpAnswer EXCEPT ![r] = [by |-> r, code |-> code]]
  BY <1>1, <1>2, SettleMaps
<1> QED
  BY <1>1, <1>3
  DEF Operation!Answer, Operation!Settle, Codes, OpPayload, OpReply, OpAnswer

\* What is replayed is the answer of the request that computed it.
LEMMA ReplayMaps ==
    ASSUME GateInv, NEW r \in Requests, LookupReplay(r)
    PROVE  \E s \in Requests: Operation!Replay(r, s)
<1>1. /\ TypeOK /\ req[r].stage = "new" /\ row # NoRow
      /\ row.hash = req[r].payload /\ row.status = "COMPLETED"
      /\ UNCHANGED <<ran, expired>>
      /\ req' = [req EXCEPT ![r] = [req[r] EXCEPT !.stage = "done",
                                                  !.reply = "replayed",
                                                  !.answer = row.answer]]
  BY DEF LookupReplay, Refuse, GateInv
<1>2. OpReply[r] = "none" /\ r \notin ran
  BY <1>1 DEF GateInv, StageInv, OpReply
<1>3. PICK s \in Requests: s = row.answer.by
  BY <1>1 DEF GateInv, StoredInv, TypeOK
<1>4. /\ s \in ran /\ row.answer = OpAnswer[s] /\ OpReply[s] = "handled"
      /\ OpAnswer[s].code # "error"
  BY <1>1, <1>3 DEF GateInv, StoredInv, OpAnswer, OpReply
<1>5. OpPayload[r] = OpPayload[s]
  BY <1>1, <1>4 DEF GateInv, OnePayload, OpPayload
<1>6. /\ OpPayload' = OpPayload
      /\ OpReply' = [OpReply EXCEPT ![r] = "replayed"]
      /\ OpAnswer' = [OpAnswer EXCEPT ![r] = row.answer]
  BY <1>1, SettleMaps
<1>7. Operation!Replay(r, s)
  BY <1>1, <1>2, <1>4, <1>5, <1>6
  DEF Operation!Replay, Operation!Same, Operation!Failed, Operation!Settle,
      OpPayload, OpReply, OpAnswer
<1> QED
  BY <1>7

LEMMA RefuseMaps ==
    ASSUME GateInv, RowInv, NEW r \in Requests,
           \/ LookupConflict(r) \/ LookupInProgress(r)
           \/ InsertConflict(r) \/ GateError(r)
    PROVE  Operation!Refuse(r)
<1>1. PICK how \in {"conflict", "inProgress", "failed"}:
        /\ Refuse(r, how, NoAnswer)
        /\ how # "failed" => row # NoRow
        /\ how = "conflict" => row.hash # req[r].payload
        /\ how = "inProgress" => row.hash = req[r].payload
  BY DEF LookupConflict, LookupInProgress, InsertConflict, GateError
<1>2. /\ TypeOK /\ req[r].stage \in {"new", "inserting", "updating"}
      /\ ran \subseteq Requests
  BY DEF LookupConflict, LookupInProgress, InsertConflict, GateError, GateInv, TypeOK
<1>3. OpReply[r] = "none" /\ r \notin ran
  BY <1>2 DEF GateInv, StageInv, OpReply
<1>4. req' = [req EXCEPT ![r] = [req[r] EXCEPT !.stage = "done", !.reply = how,
                                               !.answer = NoAnswer]]
  BY <1>1 DEF Refuse
<1>5. /\ OpPayload' = OpPayload
      /\ OpReply' = [OpReply EXCEPT ![r] = how]
      /\ OpAnswer' = [OpAnswer EXCEPT ![r] = NoAnswer]
  BY <1>2, <1>4, SettleMaps
<1>6. how # "failed" => \E s \in ran: OpPayload[s] = row.hash
  BY <1>1, <1>2 DEF RowInv, GateInv, OnePayload, OpPayload
<1>7. OpPayload[r] = req[r].payload
  BY DEF OpPayload
<1>8. /\ how = "conflict" => \E s \in ran: ~Operation!Same(r, s)
      /\ how = "inProgress" => \E s \in ran: Operation!Same(r, s)
  BY <1>1, <1>6, <1>7 DEF Operation!Same, OpPayload
<1>9. UNCHANGED <<ran, expired>>
  BY <1>1 DEF Refuse
<1> QED
  BY <1>3, <1>5, <1>8, <1>9
  DEF Operation!Refuse, Operation!Settle, OpPayload, OpReply, OpAnswer

LEMMA OutsideMaps ==
    ASSUME GateInv, RowInv, Crash \/ LockRunsOut
    PROVE  Operation!FallSilent \/ UNCHANGED OpVars
<1>1. CASE Crash
  <2>1. \A r \in Requests: /\ req'[r].payload = req[r].payload
                           /\ req'[r].reply = req[r].reply
                           /\ req'[r].answer = req[r].answer
    BY <1>1 DEF Crash, GateInv, TypeOK, Reqs
  <2> QED
    BY <1>1, <2>1 DEF Crash, OpVars, OpPayload, OpReply, OpAnswer
<1>2. CASE LockRunsOut
  BY <1>2 DEF LockRunsOut, RowInv, Operation!FallSilent, OpPayload, OpReply, OpAnswer
<1> QED
  BY <1>1, <1>2

LEMMA StepMaps ==
    ASSUME GateInv, RowInv, [Next]_vars
    PROVE  Operation!Next \/ UNCHANGED OpVars
<1>1. ASSUME NEW r \in Requests, Insert(r) \/ Update(r) PROVE Operation!Next
  BY <1>1, EnterMaps DEF Operation!Next
<1>2. ASSUME NEW r \in Requests, Handle(r) PROVE Operation!Next
  BY <1>2, HandleMaps DEF Operation!Next
<1>3. ASSUME NEW r \in Requests, LookupReplay(r) PROVE Operation!Next
  BY <1>3, ReplayMaps DEF Operation!Next
<1>4. ASSUME NEW r \in Requests,
             \/ LookupConflict(r) \/ LookupInProgress(r)
             \/ InsertConflict(r) \/ GateError(r)
      PROVE  Operation!Next
  BY <1>4, RefuseMaps DEF Operation!Next
<1>5. ASSUME NEW r \in Requests,
             LookupAbsent(r) \/ LookupReusable(r) \/ Finish(r) \/ HookLost(r)
      PROVE  UNCHANGED OpVars
  <2>1. /\ \E s \in Stages: Move(r, s)
        /\ UNCHANGED <<ran, expired>>
    BY <1>5 DEF LookupAbsent, LookupReusable, Finish, HookLost, Stages
  <2> QED
    BY <2>1, MoveMaps DEF GateInv, OpVars
<1>6. CASE Crash \/ LockRunsOut
  BY <1>6, OutsideMaps DEF Operation!Next
<1>7. CASE UNCHANGED vars
  BY <1>7 DEF vars, OpVars, OpPayload, OpReply, OpAnswer
<1> QED
  BY <1>1, <1>2, <1>3, <1>4, <1>5, <1>6, <1>7 DEF Next, Gate, Done

\* The gate implements one idempotent operation per key, for any number of
\* requests and payloads: what a caller sees of racing, retried and lost
\* requests is what it would see of one operation, executed again only after a
\* failure or a silence.
THEOREM ImplementsOperation == Spec => IsOneOperation
<1>1. Init => Operation!Init
  <2> SUFFICES ASSUME Init PROVE Operation!Init
    OBVIOUS
  <2>1. \A r \in Requests: /\ req[r].payload \in Payloads
                           /\ req[r].reply = "none" /\ req[r].answer = NoAnswer
    BY DEF Init
  <2> QED
    BY <2>1 DEF Init, Operation!Init
<1>2. Init => RowInv
  BY DEF Init, RowInv
<1>3. Spec => [](GateInv /\ RowInv)
  BY <1>2, RowStep, Invariance, PTL DEF Spec
<1>4. GateInv /\ RowInv /\ [Next]_vars =>
        [Operation!Next]_<<OpPayload, ran, OpReply, OpAnswer, expired>>
  BY StepMaps DEF OpVars
<1>5. Spec => [][Operation!Next]_<<OpPayload, ran, OpReply, OpAnswer, expired>>
  BY <1>3, <1>4, PTL DEF Spec
<1>6. Spec => Init
  BY PTL DEF Spec
<1> QED
  BY <1>1, <1>5, <1>6, PTL
  DEF IsOneOperation, Operation!Spec, OpPayload, OpReply, OpAnswer
=============================================================================
