-------------------------- MODULE IdempotentOperation --------------------------
(***************************************************************************)
(* What the idempotency gate promises the requests of one key: they are    *)
(* one operation. It is executed again only after an execution that failed *)
(* or was silent for the two minutes of its lock; a request that does not  *)
(* execute gets the answer of one that did, or is told why not.            *)
(***************************************************************************)
CONSTANTS
    Requests,   \* requests with this key
    Payloads,   \* what they ask for
    NoAnswer

VARIABLES
    payload,    \* per request: what it asks for
    executed,   \* requests whose handler was entered
    reply,      \* per request: what became of it
    answer,     \* per request: the answer it has, and whose it is
    silent      \* an execution has been silent for two minutes

Init ==
    /\ payload \in [Requests -> Payloads]
    /\ executed = {}
    /\ reply = [r \in Requests |-> "none"]
    /\ answer = [r \in Requests |-> NoAnswer]
    /\ silent = FALSE

Failed(r) == reply[r] = "handled" /\ answer[r].code = "error"

Same(r, s) == payload[r] = payload[s]

\* The first execution, or a retry: never of another payload.
Execute(r) ==
    /\ reply[r] = "none"
    /\ r \notin executed
    /\ executed = {} \/ silent \/ \E s \in executed: Failed(s)
    /\ \A s \in executed: Same(r, s)
    /\ executed' = executed \cup {r}
    /\ UNCHANGED <<payload, reply, answer, silent>>

Settle(r, how, what) ==
    /\ reply[r] = "none"
    /\ reply' = [reply EXCEPT ![r] = how]
    /\ answer' = [answer EXCEPT ![r] = what]
    /\ UNCHANGED <<payload, executed, silent>>

Answer(r) ==
    /\ r \in executed
    /\ \E code \in {"ok", "refused", "error"}:
         Settle(r, "handled", [by |-> r, code |-> code])

\* The same answer once more, but never a failure.
Replay(r, s) ==
    /\ r \notin executed
    /\ s \in executed
    /\ Same(r, s)
    /\ reply[s] = "handled"
    /\ ~Failed(s)
    /\ Settle(r, "replayed", answer[s])

\* A key is in conflict, or in progress, only if a request was executed that
\* had another payload, or the same.
Refuse(r) ==
    /\ r \notin executed
    /\ \/ Settle(r, "conflict", NoAnswer) /\ \E s \in executed: ~Same(r, s)
       \/ Settle(r, "inProgress", NoAnswer) /\ \E s \in executed: Same(r, s)
       \/ Settle(r, "failed", NoAnswer)

FallSilent ==
    /\ executed # {}
    /\ silent' = TRUE
    /\ UNCHANGED <<payload, executed, reply, answer>>

Next ==
    \/ \E r \in Requests: Execute(r) \/ Answer(r) \/ Refuse(r)
    \/ \E r, s \in Requests: Replay(r, s)
    \/ FallSilent

Spec == Init /\ [][Next]_<<payload, executed, reply, answer, silent>>
=============================================================================
