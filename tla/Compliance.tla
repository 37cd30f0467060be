------------------------------ MODULE Compliance ------------------------------
(***************************************************************************)
(* Who may move money: the verdicts of two providers, and the gates that   *)
(* read them. Onfido reports identity checks, Chainalysis alerts on an     *)
(* address; both write one account's rows and answer 200. screenTransfer,  *)
(* which reserveFunds calls before it reserves on the vault, reads the     *)
(* rows through three queries of Promise.all; getAccountStatus, on which   *)
(* activateAccount relies, reads them through one of its own.              *)
(*                                                                         *)
(* One account. A handler whose database statement fails is an unhandled   *)
(* rejection: the process ends, and every delivery and request with it.    *)
(*                                                                         *)
(* Abstracted: amounts (what the velocity gate makes of one is free), the  *)
(* risk score and the travel-rule gate (which never decide), MEDIUM alerts *)
(* (an audit row), the AML row of a screening (read by no gate), the       *)
(* answers remembered per key and the posting (see RemittanceOrder).       *)
(***************************************************************************)
CONSTANTS
    Checks,     \* Onfido checks of the account, one identity case each
    Alerts,     \* HIGH or CRITICAL alerts on the address
    Calls,      \* calls of reserveFunds
    Requests    \* calls of activateAccount

VARIABLES
    result,     \* Onfido: the result of each check
    user,       \* users.status
    case,       \* identity_cases: the level and sanction_status of each check
    block,      \* the SANCTION rows with BLOCKED: none, one of 30 days, older
    check,      \* per check: where the handling of its delivery stands
    alert,      \* the same per alert
    registry,   \* checks for which the account was activated on the registry
    call,       \* per reservation: its stage and what its gates have found
    request     \* per activation: its stage

vars == <<result, user, case, block, check, alert, registry, call, request>>

Results == {"clear", "consider"}

\* absent: no case refers to the check.
CaseStates == {"absent", "pending", "passed", "review"}

BlockStates == {"none", "fresh", "aged"}

Gates == {"kyc", "sanctions", "velocity"}

Findings == {"open", "pass", "fail"}

\* blocked: history, a fresh block was there when the screening began, and no
\* 30 days have passed since.
CallStates == [stage: {"new", "screening", "passed", "reserved", "refused", "failed"},
               found: [Gates -> Findings], blocked: BOOLEAN]

RequestStages == {"new", "approved", "active", "refused", "failed"}

TypeOK ==
    /\ result \in [Checks -> Results]
    /\ user \in {"PENDING", "ACTIVE", "SUSPENDED"}
    /\ case \in [Checks -> CaseStates]
    /\ block \in BlockStates
    /\ check \in [Checks -> {"due", "found", "recorded", "answered"}]
    /\ alert \in [Alerts -> {"due", "recorded", "answered"}]
    /\ registry \subseteq Checks
    /\ call \in [Calls -> CallStates]
    /\ request \in [Requests -> RequestStages]

Unasked == [g \in Gates |-> "open"]

Init ==
    /\ result \in [Checks -> Results]
    /\ user = "PENDING"
    /\ case \in [Checks -> {"absent", "pending"}]
    /\ block = "none"
    /\ check = [k \in Checks |-> "due"]
    /\ alert = [a \in Alerts |-> "due"]
    /\ registry = {}
    /\ call = [c \in Calls |-> [stage |-> "new", found |-> Unasked, blocked |-> FALSE]]
    /\ request = [q \in Requests |-> "new"]

Rows == <<user, case, block>>

----------------------------------------------------------------------------
(* onfidoWebhookHandler, for check.completed *)

CheckGoto(k, from, to) ==
    /\ check[k] = from
    /\ check' = [check EXCEPT ![k] = to]

\* No case refers to the check: 200, and the verdict is gone.
CheckUnknown(k) ==
    /\ case[k] = "absent"
    /\ CheckGoto(k, "due", "answered")
    /\ UNCHANGED <<result, Rows, alert, registry, call, request>>

FindCase(k) ==
    /\ case[k] # "absent"
    /\ CheckGoto(k, "due", "found")
    /\ UNCHANGED <<result, Rows, alert, registry, call, request>>

\* (Operators named Bug... are not used by the specification: each is a
\* plausible mistake in the definition after it, listed in PROJECT.json.)

\* evaluateKYCResult: level 2 and PASS for clear/clear, level 0 and REVIEW.
Passed(k) == IF result[k] = "clear" THEN "passed" ELSE "review"

\* withTransaction: the case and users.status, whatever the status was.
RecordVerdict(k) ==
    /\ CheckGoto(k, "found", "recorded")
    /\ case' = [case EXCEPT ![k] = Passed(k)]
    /\ user' = IF result[k] = "clear" THEN "ACTIVE" ELSE "PENDING"
    /\ UNCHANGED <<result, block, alert, registry, call, request>>

\* registry.activateAccount is mined, or fails, is logged and not tried again;
\* the domain event is published or not; then 200.
Activate(k) ==
    /\ CheckGoto(k, "recorded", "answered")
    /\ \/ result[k] = "clear" /\ registry' = registry \cup {k}
       \/ UNCHANGED registry
    /\ UNCHANGED <<result, Rows, alert, call, request>>

----------------------------------------------------------------------------
(* chainalysisWebhookHandler, for HIGH and CRITICAL *)

\* A failure of the transaction is caught and logged, as that of the MEDIUM
\* branch is.
BugRecordAlert(a) ==
    /\ alert[a] = "due"
    /\ alert' = [alert EXCEPT ![a] = "recorded"]
    /\ \/ block' = "fresh" /\ user' = "SUSPENDED"
       \/ UNCHANGED <<block, user>>
    /\ UNCHANGED <<result, case, check, registry, call, request>>

\* withTransaction: a BLOCKED row, users.status and the audit row.
RecordAlert(a) ==
    /\ alert[a] = "due"
    /\ alert' = [alert EXCEPT ![a] = "recorded"]
    /\ block' = "fresh"
    /\ user' = "SUSPENDED"
    /\ UNCHANGED <<result, case, check, registry, call, request>>

\* The domain event, published or not, then 200.
AnswerAlert(a) ==
    /\ alert[a] = "recorded"
    /\ alert' = [alert EXCEPT ![a] = "answered"]
    /\ UNCHANGED <<result, Rows, check, registry, call, request>>

----------------------------------------------------------------------------
(* screenTransfer, within reserveFunds *)

Enter(c) ==
    /\ call[c].stage = "new"
    /\ call' = [call EXCEPT ![c] = [@ EXCEPT !.stage = "screening",
                                             !.blocked = block = "fresh"]]
    /\ UNCHANGED <<result, Rows, check, alert, registry, request>>

\* _checkKycTier: a case of tier 1 at least.
KycPasses == \E k \in Checks: case[k] = "passed"

\* The suspension is read where the webhook's comment has it.
BugSanctionsPass == user # "SUSPENDED"

\* _checkSanctions: no BLOCKED row of the last 30 days.
SanctionsPass == block # "fresh"

\* _checkVelocity: the amount and what was sent since yesterday, which the
\* query never finds, are at most the limit.
Answers(g) ==
    CASE g = "kyc" -> {KycPasses}
      [] g = "sanctions" -> {SanctionsPass}
      [] g = "velocity" -> BOOLEAN

Find(c, g, finding) ==
    /\ call[c].stage = "screening"
    /\ call[c].found[g] = "open"
    /\ call' = [call EXCEPT ![c] = [@ EXCEPT !.found = [call[c].found EXCEPT ![g] = finding]]]
    /\ UNCHANGED <<result, Rows, check, alert, registry, request>>

\* The three queries run side by side, each on a client of its own.
Gate(c, g) == \E passes \in Answers(g): Find(c, g, IF passes THEN "pass" ELSE "fail")

\* A gate whose query throws: identity and sanctions fail safe, velocity open.
WithoutAnswer(g) == IF g = "velocity" THEN "pass" ELSE "fail"

GateError(c, g) == Find(c, g, WithoutAnswer(g))

\* One gate is enough, for a risk score under the threshold.
BugVerdict(found) == IF \E g \in Gates: found[g] = "pass" THEN "passed" ELSE "refused"

\* A single FAIL blocks the operation.
Verdict(found) == IF \A g \in Gates: found[g] = "pass" THEN "passed" ELSE "refused"

Decide(c) ==
    /\ call[c].stage = "screening"
    /\ \A g \in Gates: call[c].found[g] # "open"
    /\ call' = [call EXCEPT ![c] = [@ EXCEPT !.stage = Verdict(call[c].found),
                                             !.found = Unasked]]
    /\ UNCHANGED <<result, Rows, check, alert, registry, request>>

\* vault.reserveFunds and its receipt; or it reverts, and the call throws.
Reserve(c) ==
    /\ call[c].stage = "passed"
    /\ \E end \in {"reserved", "failed"}: call' = [call EXCEPT ![c].stage = end]
    /\ UNCHANGED <<result, Rows, check, alert, registry, request>>

----------------------------------------------------------------------------
(* activateAccount *)

\* getAccountStatus: the highest level, and the latest SANCTION row whatever
\* its age (only the webhook writes any, and each says BLOCKED).
Compliant == KycPasses /\ block = "none"

\* verifyOnChainRecord, which reads the tables.
VerifyRecord(q) ==
    /\ request[q] = "new"
    /\ request' = [request EXCEPT ![q] = IF Compliant THEN "approved" ELSE "refused"]
    /\ UNCHANGED <<result, Rows, check, alert, registry, call>>

\* vault.activateAccount and its receipt, or a revert, or no such function: the
\* committed ABI does not have it, so that only a vault with another one succeeds.
ActivateVault(q) ==
    /\ request[q] = "approved"
    /\ \E end \in {"active", "failed"}: request' = [request EXCEPT ![q] = end]
    /\ UNCHANGED <<result, Rows, check, alert, registry, call>>

----------------------------------------------------------------------------
\* The process ends, by itself or by a rejected promise of a handler: a
\* delivery under way is not answered, and comes again.
Crash ==
    /\ \/ \E k \in Checks: check[k] \in {"found", "recorded"}
       \/ \E a \in Alerts: alert[a] = "recorded"
       \/ \E c \in Calls: call[c].stage \in {"screening", "passed"}
       \/ \E q \in Requests: request[q] = "approved"
    /\ check' = [k \in Checks |-> IF check[k] = "answered" THEN "answered" ELSE "due"]
    /\ alert' = [a \in Alerts |-> IF alert[a] = "answered" THEN "answered" ELSE "due"]
    /\ call' = [c \in Calls |-> IF call[c].stage \in {"screening", "passed"}
                                THEN [call[c] EXCEPT !.stage = "failed", !.found = Unasked]
                                ELSE call[c]]
    /\ request' = [q \in Requests |-> IF request[q] = "approved" THEN "failed"
                                      ELSE request[q]]
    /\ UNCHANGED <<result, Rows, registry>>

\* The 200 is lost on its way: delivered again.
Repeat ==
    /\ \/ /\ \E k \in Checks: CheckGoto(k, "answered", "due")
          /\ UNCHANGED alert
       \/ /\ \E a \in Alerts: /\ alert[a] = "answered"
                              /\ alert' = [alert EXCEPT ![a] = "due"]
          /\ UNCHANGED check
    /\ UNCHANGED <<result, Rows, registry, call, request>>

\* 30 days after the last BLOCKED row.
MonthPasses ==
    /\ block = "fresh"
    /\ block' = "aged"
    /\ call' = [c \in Calls |-> [call[c] EXCEPT !.blocked = FALSE]]
    /\ UNCHANGED <<result, user, case, check, alert, registry, request>>

HandleCheck(k) ==
    CheckUnknown(k) \/ FindCase(k) \/ RecordVerdict(k) \/ Activate(k)

HandleAlert(a) == RecordAlert(a) \/ AnswerAlert(a)

ReserveFunds(c) ==
    \/ Enter(c) \/ Decide(c) \/ Reserve(c)
    \/ \E g \in Gates: Gate(c, g) \/ GateError(c, g)

Next ==
    \/ \E k \in Checks: HandleCheck(k)
    \/ \E a \in Alerts: HandleAlert(a)
    \/ \E c \in Calls: ReserveFunds(c)
    \/ \E q \in Requests: VerifyRecord(q) \/ ActivateVault(q)
    \/ Crash \/ Repeat \/ MonthPasses

\* A provider delivers until it is answered, and the database comes back: a
\* verdict that can be recorded again and again is recorded.
CheckFairness(k) == WF_vars(FindCase(k)) /\ SF_vars(RecordVerdict(k))

AlertFairness(a) == WF_vars(RecordAlert(a))

Spec ==
    /\ Init
    /\ [][Next]_vars
    /\ \A k \in Checks: CheckFairness(k)
    /\ \A a \in Alerts: AlertFairness(a)

----------------------------------------------------------------------------
\* Once an alert is recorded, no screening that begins within 30 days lets a
\* reservation on the vault, whichever query fails, in whatever order the gates
\* answer, and whatever a later identity check makes of users.status.
BlockHolds == \A c \in Calls: call[c].stage = "reserved" => ~call[c].blocked

\* Nobody reserves through the gateway, and neither its activateAccount nor the
\* Onfido handler makes an account active, without an identity check that passed
\* and is recorded: the activations are several awaits, and perhaps a restart,
\* after the record they rely on. (The activation routes of the web application
\* are not part of this.)
OnlyVerified ==
    /\ \A c \in Calls: call[c].stage = "reserved" => KycPasses
    /\ \A q \in Requests: request[q] = "active" => KycPasses
    /\ \A k \in registry: case[k] = "passed"
    /\ \A k \in Checks: case[k] = "passed" => result[k] = "clear"

\* A verdict answered 200 is in the tables, unless no case refers to its check:
\* neither provider is told of a record that a restart may have prevented.
AnsweredRecorded ==
    /\ \A k \in Checks: check[k] = "answered" => case[k] \in {"absent", Passed(k)}
    /\ \A a \in Alerts: alert[a] = "answered" => block # "none"

\* Every alert, and every check with a case, is recorded in the end, however
\* often the process ends in between.
VerdictsTakeHold ==
    /\ \A k \in Checks: <>(case[k] # "pending")
    /\ \A a \in Alerts: <>(block # "none")
=============================================================================
