--------------------------- MODULE IdempotencyGate ---------------------------
(***************************************************************************)
(* enforceIdempotency, the middleware of every state-changing route, and   *)
(* its row of api_idempotency_keys.                                        *)
(*                                                                         *)
(* The primary key (partner, scope, key) makes rows independent, so the    *)
(* module follows ONE key and the requests that carry it: concurrent       *)
(* clicks, retries, and the same key with another payload. A request is a  *)
(* SELECT, then an INSERT or an UPDATE, then the handler, then the         *)
(* 'finish' hook: four awaits, between which the others run.               *)
(*                                                                         *)
(* Abstracted: the request hash is the payload; an answer is the request   *)
(* whose handler computed it and its status class; locked_until is the     *)
(* three cases its comparison with the clock tells apart.                  *)
(***************************************************************************)
CONSTANTS
    Requests,   \* requests with this key, each sent once
    Payloads,   \* method, path and body, hashed
    NoRow,      \* no row of the key yet
    NoAnswer    \* nothing answered, nothing stored

VARIABLES
    row,        \* the row of the key
    req,        \* per request: its payload, where it stands, its answer
    ran,        \* requests whose handler was entered
    expired     \* history: a lock ran out before its holder finished

vars == <<row, req, ran, expired>>

\* A status class: any answer below 400, any below 500, any other.
Codes == {"ok", "refused", "error"}

Answers == [by: Requests, code: Codes]

\* lock: locked_until is NULL, in the future, or past.
Rows == [hash: Payloads,
         status: {"PROCESSING", "COMPLETED", "FAILED"},
         lock: {"none", "held", "past"},
         answer: Answers \cup {NoAnswer}]

ASSUME NamesAssumption == NoRow \notin Rows /\ NoAnswer \notin Answers

\* inserting and updating: the SELECT has returned no row, or a row that may be
\* taken over; answered: the reply is sent, the finish hook still to write.
Stages == {"new", "inserting", "updating", "running", "answered", "done", "lost"}

\* What became of a request: "handled" by its own handler, "replayed" from the
\* row, or refused by the gate.
Replies == {"none", "handled", "replayed", "conflict", "inProgress", "failed"}

Reqs == [payload: Payloads, stage: Stages, reply: Replies,
         answer: Answers \cup {NoAnswer}]

TypeOK ==
    /\ row \in Rows \cup {NoRow}
    /\ req \in [Requests -> Reqs]
    /\ ran \subseteq Requests
    /\ expired \in BOOLEAN

Init ==
    /\ row = NoRow
    /\ req \in [Requests -> [payload: Payloads, stage: {"new"},
                             reply: {"none"}, answer: {NoAnswer}]]
    /\ ran = {}
    /\ expired = FALSE

InFlight == {"inserting", "updating", "running", "answered"}

----------------------------------------------------------------------------
Move(r, stage) == req' = [req EXCEPT ![r].stage = stage]

\* next(err), or an answer by the gate itself: the handler is not entered and
\* no finish hook is installed.
Refuse(r, reply, answer) ==
    /\ req' = [req EXCEPT ![r] = [@ EXCEPT !.stage = "done", !.reply = reply,
                                           !.answer = answer]]
    /\ UNCHANGED <<row, ran, expired>>

\* (Operators named Bug... are not used by the specification: each is a
\* plausible mistake in the definition after it, listed in PROJECT.json.)

\* The lock is not looked at.
BugReusable == row.status \in {"FAILED", "PROCESSING"}

\* The row may be taken over: its last handler failed, or was silent for the
\* two minutes of its lock.
Reusable == row.status = "FAILED" \/ (row.status = "PROCESSING" /\ row.lock # "held")

LookupAbsent(r) ==
    /\ req[r].stage = "new"
    /\ row = NoRow
    /\ Move(r, "inserting")
    /\ UNCHANGED <<row, ran, expired>>

LookupConflict(r) ==
    /\ req[r].stage = "new"
    /\ row # NoRow
    /\ row.hash # req[r].payload
    /\ Refuse(r, "conflict", NoAnswer)

\* Any stored row is replayed, not only a COMPLETED one.
BugLookupReplay(r) ==
    /\ req[r].stage = "new"
    /\ row # NoRow
    /\ row.hash = req[r].payload
    /\ Refuse(r, "replayed", row.answer)

LookupReplay(r) ==
    /\ req[r].stage = "new"
    /\ row # NoRow
    /\ row.hash = req[r].payload
    /\ row.status = "COMPLETED"
    /\ Refuse(r, "replayed", row.answer)

LookupInProgress(r) ==
    /\ req[r].stage = "new"
    /\ row # NoRow
    /\ row.hash = req[r].payload
    /\ row.status = "PROCESSING"
    /\ row.lock = "held"
    /\ Refuse(r, "inProgress", NoAnswer)

\* The hash is compared after the status.
BugLookupReusable(r) ==
    /\ req[r].stage = "new"
    /\ row # NoRow
    /\ Reusable
    /\ Move(r, "updating")
    /\ UNCHANGED <<row, ran, expired>>

LookupReusable(r) ==
    /\ req[r].stage = "new"
    /\ row # NoRow
    /\ row.hash = req[r].payload
    /\ Reusable
    /\ Move(r, "updating")
    /\ UNCHANGED <<row, ran, expired>>

\* INSERT ... 'PROCESSING', NOW() + 2 minutes; next() enters the handler.
Insert(r) ==
    /\ req[r].stage = "inserting"
    /\ row = NoRow
    /\ row' = [hash |-> req[r].payload, status |-> "PROCESSING",
               lock |-> "held", answer |-> NoAnswer]
    /\ ran' = ran \cup {r}
    /\ Move(r, "running")
    /\ UNCHANGED expired

\* Another request inserted since the SELECT: the primary key refuses, next(err).
InsertConflict(r) ==
    /\ req[r].stage = "inserting"
    /\ row # NoRow
    /\ Refuse(r, "failed", NoAnswer)

\* UPDATE ... SET status = 'PROCESSING', whatever the row holds by now.
Update(r) ==
    /\ req[r].stage = "updating"
    /\ row' = [row EXCEPT !.status = "PROCESSING", !.lock = "held"]
    /\ ran' = ran \cup {r}
    /\ Move(r, "running")
    /\ UNCHANGED expired

\* A query of the gate fails: next(err).
GateError(r) ==
    /\ req[r].stage \in {"new", "inserting", "updating"}
    /\ Refuse(r, "failed", NoAnswer)

\* The route's handler answers; the client has the answer before the row does.
Handle(r) ==
    /\ req[r].stage = "running"
    /\ \E code \in Codes:
         req' = [req EXCEPT ![r] = [@ EXCEPT !.stage = "answered",
                                             !.reply = "handled",
                                             !.answer = [by |-> r, code |-> code]]]
    /\ UNCHANGED <<row, ran, expired>>

\* Only 2xx and 5xx are stored; a 4xx leaves the row as it is.
BugFinishRefused(r) ==
    /\ req[r].stage = "answered"
    /\ row' = IF req[r].answer.code = "refused" THEN row
              ELSE [row EXCEPT
                      !.status = IF req[r].answer.code = "error" THEN "FAILED"
                                 ELSE "COMPLETED",
                      !.lock = "none",
                      !.answer = req[r].answer]
    /\ Move(r, "done")
    /\ UNCHANGED <<ran, expired>>

\* res.on('finish'): 5xx stores FAILED, anything else COMPLETED, whatever the
\* row holds by now.
Finish(r) ==
    /\ req[r].stage = "answered"
    /\ row' = [row EXCEPT
                 !.status = IF req[r].answer.code = "error" THEN "FAILED" ELSE "COMPLETED",
                 !.lock = "none",
                 !.answer = req[r].answer]
    /\ Move(r, "done")
    /\ UNCHANGED <<ran, expired>>

\* The socket closed before the answer was flushed ('finish' never fires), or
\* the hook's UPDATE failed and was only logged.
HookLost(r) ==
    /\ req[r].stage = "answered"
    /\ Move(r, "lost")
    /\ UNCHANGED <<row, ran, expired>>

\* The process dies with every request it was serving; the row survives.
Crash ==
    /\ \E r \in Requests: req[r].stage \in InFlight
    /\ req' = [r \in Requests |->
                 IF req[r].stage \in InFlight
                 THEN [req[r] EXCEPT !.stage = "lost"]
                 ELSE req[r]]
    /\ UNCHANGED <<row, ran, expired>>

\* Two minutes pass since the row was locked.
LockRunsOut ==
    /\ row # NoRow
    /\ row.lock = "held"
    /\ row' = [row EXCEPT !.lock = "past"]
    /\ expired' = TRUE
    /\ UNCHANGED <<req, ran>>

\* Every request has been answered or lost.
Done ==
    /\ \A r \in Requests: req[r].stage \in {"done", "lost"}
    /\ UNCHANGED vars

Gate(r) ==
    \/ LookupAbsent(r)
    \/ LookupConflict(r)
    \/ LookupReplay(r)
    \/ LookupInProgress(r)
    \/ LookupReusable(r)
    \/ Insert(r)
    \/ InsertConflict(r)
    \/ Update(r)
    \/ Handle(r)
    \/ Finish(r)

Next ==
    \/ \E r \in Requests: Gate(r) \/ GateError(r) \/ HookLost(r)
    \/ Crash
    \/ LockRunsOut
    \/ Done

Spec == Init /\ [][Next]_vars

----------------------------------------------------------------------------
\* All requests whose handler was entered carry one and the same payload, the
\* one whose hash the row keeps: a reused key never executes a second operation,
\* even when both payloads found no row and raced to insert it.
OnePayload == \A r \in ran: row # NoRow /\ req[r].payload = row.hash

\* As long as no lock has run out and no handler has answered 5xx, the handler
\* is entered once, however many requests with the key race each other.
EnteredOnce ==
    \/ \A r, s \in ran: r = s
    \/ expired
    \/ \E r \in ran: req[r].reply = "handled" /\ req[r].answer.code = "error"

\* What is replayed was computed by a handler for this very payload, and is
\* never a 5xx: a failure is retried, not repeated from the store.
ReplayGenuine ==
    \A r \in Requests: req[r].reply = "replayed" =>
        /\ req[r].answer # NoAnswer
        /\ req[r].answer.code # "error"
        /\ LET s == req[r].answer.by
           IN  s \in ran /\ req[s].payload = req[r].payload /\ s # r
              /\ req[s].answer = req[r].answer

\* A PROCESSING row has a request behind it: one that still runs its handler or
\* waits to store its answer, or one that was lost. No interleaving of
\* overlapping holders leaves a key PROCESSING when all of them have finished.
ProcessingHasHolder ==
    row # NoRow /\ row.status = "PROCESSING" =>
        \E r \in ran: req[r].stage \in {"running", "answered", "lost"}

\* All of it, step by step: the requests of a key are one operation. Through
\* the awaits of the gate, take-overs, lost hooks and crashes the handler is
\* entered again only after a failure or an expired lock, and whoever is not
\* let in gets a genuine answer or a refusal that is true.
Operation == INSTANCE IdempotentOperation WITH
    payload <- [r \in Requests |-> req[r].payload],
    executed <- ran,
    reply <- [r \in Requests |-> req[r].reply],
    answer <- [r \in Requests |-> req[r].answer],
    silent <- expired

IsOneOperation == Operation!Spec
=============================================================================
