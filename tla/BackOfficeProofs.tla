--------------------------- MODULE BackOfficeProofs ---------------------------
(***************************************************************************)
(* What works beside the money paths: compliance, reconciliation and the   *)
(* harvest job, each for any size of its sets and whatever fails.          *)
(*                                                                         *)
(* Compliance comes first. Its verdicts hold for any number of checks,     *)
(* alerts, reservations and activations of the account, however often the  *)
(* process ends. The strengthening is about what a screening or a handler  *)
(* has in hand at each await: a sanctions gate that has passed saw no      *)
(* block, an identity gate that has passed saw a check that still counts.  *)
(*                                                                         *)
(* Each of the three also keeps going, under its fairness: verdicts take   *)
(* hold, lasting drift is alerted, epochs are harvested and a set-up that  *)
(* cannot work pages.                                                      *)
(***************************************************************************)
EXTENDS Compliance, Reconciliation, Harvest, TLAPS

\* A screening that began under a block, not yet a month old, has not passed
\* its sanctions gate, and will not.
BlockInv ==
    \A c \in Calls: call[c].blocked =>
        /\ block = "fresh"
        /\ call[c].found["sanctions"] # "pass"
        /\ call[c].stage \notin {"passed", "reserved"}

\* What rests on an identity check that passed.
KycInv ==
    /\ \A c \in Calls: call[c].found["kyc"] = "pass" => KycPasses
    /\ \A c \in Calls: call[c].stage \in {"passed", "reserved"} => KycPasses
    /\ \A q \in Requests: request[q] \in {"approved", "active"} => KycPasses
    /\ \A k \in registry: case[k] = "passed"

\* A case holds its check's verdict or none, and the verdict from the moment
\* the handler has recorded it.
VerdictInv ==
    \A k \in Checks:
        /\ case[k] \in {"absent", "pending", Passed(k)}
        /\ check[k] = "found" => case[k] # "absent"
        /\ check[k] = "recorded" => case[k] = Passed(k)
        /\ check[k] = "answered" => case[k] \in {"absent", Passed(k)}

AlertInv == \A a \in Alerts: alert[a] \in {"recorded", "answered"} => block # "none"

\* A call that has not begun has found nothing.
FreshInv == \A c \in Calls: call[c].stage = "new" => call[c].found = Unasked

Inv == TypeOK /\ BlockInv /\ KycInv /\ VerdictInv /\ AlertInv /\ FreshInv

LEMMA InitInv == Init => Inv
<1> SUFFICES ASSUME Init PROVE Inv
  OBVIOUS
<1> DEFINE first == [stage |-> "new", found |-> Unasked, blocked |-> FALSE]
<1>1. first \in CallStates /\ first.found["sanctions"] = "open" /\ first.found["kyc"] = "open"
  BY DEF CallStates, Unasked, Gates, Findings
<1>2. call = [c \in Calls |-> first]
  BY DEF Init
<1> HIDE DEF first
<1>3. TypeOK
  BY <1>1, <1>2 DEF Init, TypeOK, CaseStates, BlockStates, RequestStages
<1>4. \A c \in Calls: call[c] = first
  BY <1>2
<1>5. first.stage = "new" /\ first.blocked = FALSE /\ first.found = Unasked
  BY DEF first
<1>6. BlockInv /\ KycInv /\ FreshInv
  BY <1>1, <1>4, <1>5 DEF Init, BlockInv, KycInv, FreshInv
<1>7. VerdictInv /\ AlertInv
  BY DEF Init, VerdictInv, AlertInv
<1> QED
  BY <1>3, <1>6, <1>7 DEF Inv

\* Passed is a verdict, and a function of the result alone.
LEMMA PassedVerdict ==
  ASSUME TypeOK, NEW k \in Checks
  PROVE  /\ Passed(k) \in {"passed", "review"}
         /\ Passed(k) = "passed" <=> result[k] = "clear"
BY DEF Passed, TypeOK, Results

\* A passed check stays so.
LEMMA KycKept ==
  ASSUME Inv, NEW k \in Checks, RecordVerdict(k)
  PROVE  /\ KycPasses => KycPasses'
         /\ \A j \in Checks: case[j] = "passed" => case'[j] = "passed"
         /\ \A j \in Checks: Passed(j)' = Passed(j)
<1>1. \A j \in Checks: j # k => case'[j] = case[j]
  BY DEF RecordVerdict, Inv, TypeOK
<1>2. case'[k] = Passed(k)
  BY DEF RecordVerdict, Inv, TypeOK
<1>3. case[k] = "passed" => Passed(k) = "passed"
  BY PassedVerdict DEF Inv, VerdictInv
<1>4. \A j \in Checks: case[j] = "passed" => case'[j] = "passed"
  BY <1>1, <1>2, <1>3
<1>5. KycPasses => KycPasses'
  BY <1>4 DEF KycPasses
<1>6. \A j \in Checks: Passed(j)' = Passed(j)
  BY DEF RecordVerdict, Passed
<1> QED
  BY <1>4, <1>5, <1>6

\* The Onfido handler.
LEMMA CheckStep ==
  ASSUME Inv, NEW k \in Checks, HandleCheck(k)
  PROVE  Inv'
<1>1. CASE CheckUnknown(k)
  BY <1>1 DEF Inv, CheckUnknown, CheckGoto, Rows, TypeOK, BlockInv, KycInv, KycPasses,
     VerdictInv, Passed, AlertInv, FreshInv
<1>2. CASE FindCase(k)
  BY <1>2 DEF Inv, FindCase, CheckGoto, Rows, TypeOK, BlockInv, KycInv, KycPasses,
     VerdictInv, Passed, AlertInv, FreshInv
<1>3. CASE RecordVerdict(k)
  <2>1. TypeOK'
    BY <1>3, PassedVerdict DEF Inv, RecordVerdict, CheckGoto, TypeOK, CaseStates
  <2>2. VerdictInv'
    <3>1. \A j \in Checks: /\ case'[j] = IF j = k THEN Passed(k) ELSE case[j]
                           /\ check'[j] = IF j = k THEN "recorded" ELSE check[j]
                           /\ Passed(j)' = Passed(j)
      BY <1>3, KycKept DEF Inv, RecordVerdict, CheckGoto, TypeOK
    <3> QED
      BY <3>1, PassedVerdict DEF Inv, VerdictInv
  <2>3. KycInv'
    BY <1>3, KycKept DEF Inv, RecordVerdict, KycInv, TypeOK
  <2>4. BlockInv' /\ AlertInv' /\ FreshInv'
    BY <1>3 DEF Inv, RecordVerdict, BlockInv, AlertInv, FreshInv
  <2> QED
    BY <2>1, <2>2, <2>3, <2>4 DEF Inv
<1>4. CASE Activate(k)
  <2>1. TypeOK' /\ VerdictInv' /\ BlockInv' /\ AlertInv' /\ FreshInv'
    BY <1>4 DEF Inv, Activate, CheckGoto, Rows, TypeOK, BlockInv, VerdictInv, Passed,
       AlertInv, FreshInv
  <2>2. \A j \in registry': case'[j] = "passed"
    BY <1>4, PassedVerdict DEF Inv, Activate, CheckGoto, Rows, KycInv, VerdictInv
  <2>3. KycInv'
    BY <1>4, <2>2 DEF Inv, Activate, Rows, KycInv, KycPasses
  <2> QED
    BY <2>1, <2>3 DEF Inv
<1> QED
  BY <1>1, <1>2, <1>3, <1>4 DEF HandleCheck

\* The Chainalysis handler: a block appears, none goes.
LEMMA AlertStep ==
  ASSUME Inv, NEW a \in Alerts, HandleAlert(a)
  PROVE  Inv'
<1>1. CASE RecordAlert(a)
  BY <1>1 DEF Inv, RecordAlert, TypeOK, BlockStates, BlockInv, KycInv, KycPasses,
     VerdictInv, Passed, AlertInv, FreshInv
<1>2. CASE AnswerAlert(a)
  BY <1>2 DEF Inv, AnswerAlert, Rows, TypeOK, BlockInv, KycInv, KycPasses, VerdictInv,
     Passed, AlertInv, FreshInv
<1> QED
  BY <1>1, <1>2 DEF HandleAlert

\* What a step of one call has to respect.
LEMMA CallChange ==
  ASSUME Inv, NEW c \in Calls, NEW new \in CallStates,
         call' = [call EXCEPT ![c] = new],
         UNCHANGED <<result, Rows, check, alert, registry, request>>,
         new.blocked => /\ block = "fresh"
                        /\ new.found["sanctions"] # "pass"
                        /\ new.stage \notin {"passed", "reserved"},
         new.found["kyc"] = "pass" => KycPasses,
         new.stage \in {"passed", "reserved"} => KycPasses,
         new.stage # "new"
  PROVE  Inv'
<1>1. \A d \in Calls: call'[d] = IF d = c THEN new ELSE call[d]
  BY DEF Inv, TypeOK
<1>2. TypeOK'
  BY DEF Inv, TypeOK, Rows
<1>3. KycPasses' = KycPasses
  BY DEF KycPasses, Rows
<1>4. BlockInv' /\ FreshInv'
  BY <1>1 DEF Inv, BlockInv, FreshInv, Rows
<1>5. KycInv'
  BY <1>1, <1>3 DEF Inv, KycInv, Rows
<1>6. VerdictInv' /\ AlertInv'
  BY DEF Inv, VerdictInv, Passed, AlertInv, Rows
<1> QED
  BY <1>2, <1>4, <1>5, <1>6 DEF Inv

\* A screening begins.
LEMMA EnterStep ==
  ASSUME Inv, NEW c \in Calls, Enter(c)
  PROVE  Inv'
<1> DEFINE new == [call[c] EXCEPT !.stage = "screening", !.blocked = block = "fresh"]
<1>1. call[c] \in CallStates
  BY DEF Inv, TypeOK
<1>2. new \in CallStates /\ new.stage = "screening" /\ new.found = call[c].found
      /\ new.blocked = (block = "fresh")
  BY <1>1 DEF CallStates
<1>3. new.found["sanctions"] = "open" /\ new.found["kyc"] = "open"
  BY <1>2 DEF Inv, FreshInv, Enter, Unasked, Gates
<1>4. call' = [call EXCEPT ![c] = new]
        /\ UNCHANGED <<result, Rows, check, alert, registry, request>>
  BY DEF Enter
<1> HIDE DEF new
<1> QED
  BY <1>2, <1>3, <1>4, CallChange

\* One gate answers.
LEMMA FindStep ==
  ASSUME Inv, NEW c \in Calls, NEW g \in Gates, NEW finding \in {"pass", "fail"},
         Find(c, g, finding),
         g = "kyc" /\ finding = "pass" => KycPasses,
         g = "sanctions" /\ finding = "pass" => SanctionsPass
  PROVE  Inv'
<1> DEFINE found == [call[c].found EXCEPT ![g] = finding]
           new == [call[c] EXCEPT !.found = found]
<1>1. call[c] \in CallStates
  BY DEF Inv, TypeOK
<1>2. found \in [Gates -> Findings]
      /\ \A h \in Gates: found[h] = IF h = g THEN finding ELSE call[c].found[h]
  BY <1>1 DEF CallStates, Findings
<1>3. call' = [call EXCEPT ![c] = new] /\ call[c].stage = "screening"
        /\ UNCHANGED <<result, Rows, check, alert, registry, request>>
  BY DEF Find
<1> HIDE DEF found
<1>4. new \in CallStates /\ new.stage = "screening" /\ new.found = found
        /\ new.blocked = call[c].blocked
  BY <1>1, <1>2, <1>3 DEF CallStates
<1>5. new.blocked => block = "fresh" /\ found["sanctions"] # "pass"
  BY <1>2, <1>4 DEF Inv, BlockInv, SanctionsPass, Gates
<1>6. found["kyc"] = "pass" => KycPasses
  BY <1>2 DEF Inv, KycInv, Gates
<1> HIDE DEF new
<1> QED
  BY <1>3, <1>4, <1>5, <1>6, CallChange

\* The verdict on three answers, and the reservation.
LEMMA DecideStep ==
  ASSUME Inv, NEW c \in Calls, Decide(c)
  PROVE  Inv'
<1> DEFINE verdict == Verdict(call[c].found)
           new == [call[c] EXCEPT !.stage = verdict, !.found = Unasked]
<1>1. call[c] \in CallStates
  BY DEF Inv, TypeOK
<1>2. verdict \in {"passed", "refused"}
      /\ (verdict = "passed" => \A g \in Gates: call[c].found[g] = "pass")
  BY DEF Verdict
<1>3. call' = [call EXCEPT ![c] = new]
        /\ UNCHANGED <<result, Rows, check, alert, registry, request>>
  BY DEF Decide
<1> HIDE DEF verdict
<1>4. Unasked \in [Gates -> Findings] /\ Unasked["kyc"] = "open"
        /\ Unasked["sanctions"] = "open"
  BY DEF Unasked, Gates, Findings
<1>5. new \in CallStates /\ new.stage = verdict /\ new.found = Unasked
        /\ new.blocked = call[c].blocked
  BY <1>1, <1>2, <1>4 DEF CallStates
<1>6. new.blocked => block = "fresh" /\ verdict # "passed"
  BY <1>2, <1>5 DEF Inv, BlockInv, Gates
<1>7. verdict = "passed" => KycPasses
  BY <1>2 DEF Inv, KycInv, Gates
<1> HIDE DEF new
<1> QED
  BY <1>2, <1>3, <1>4, <1>5, <1>6, <1>7, CallChange

LEMMA ReserveStep ==
  ASSUME Inv, NEW c \in Calls, Reserve(c)
  PROVE  Inv'
<1>1. PICK end \in {"reserved", "failed"}: call' = [call EXCEPT ![c].stage = end]
  BY DEF Reserve
<1> DEFINE new == [call[c] EXCEPT !.stage = end]
<1>2. call[c] \in CallStates /\ call[c].stage = "passed"
  BY DEF Inv, TypeOK, Reserve
<1>3. new \in CallStates /\ new.stage = end /\ new.found = call[c].found
        /\ new.blocked = call[c].blocked
  BY <1>2 DEF CallStates
<1>4. call' = [call EXCEPT ![c] = new]
        /\ UNCHANGED <<result, Rows, check, alert, registry, request>>
  BY <1>1 DEF Reserve
<1>5. ~new.blocked /\ KycPasses
  BY <1>2, <1>3 DEF Inv, BlockInv, KycInv
<1> HIDE DEF new
<1> QED
  BY <1>3, <1>4, <1>5, CallChange

LEMMA CallStep ==
  ASSUME Inv, NEW c \in Calls, ReserveFunds(c)
  PROVE  Inv'
<1>1. CASE Enter(c)
  BY <1>1, EnterStep
<1>2. CASE Decide(c)
  BY <1>2, DecideStep
<1>3. CASE Reserve(c)
  BY <1>3, ReserveStep
<1>4. CASE \E g \in Gates: Gate(c, g)
  <2>1. PICK g \in Gates: Gate(c, g)
    BY <1>4
  <2>2. PICK passes \in Answers(g): Find(c, g, IF passes THEN "pass" ELSE "fail")
    BY <2>1 DEF Gate
  <2>3. CASE passes
    <3>1. g = "kyc" => KycPasses
      BY <2>2, <2>3 DEF Answers, KycPasses
    <3>2. g = "sanctions" => SanctionsPass
      BY <2>2, <2>3 DEF Answers, SanctionsPass
    <3> QED
      BY <2>2, <2>3, <3>1, <3>2, FindStep
  <2>4. CASE ~passes
    BY <2>2, <2>4, FindStep
  <2> QED
    BY <2>3, <2>4
<1>5. CASE \E g \in Gates: GateError(c, g)
  <2>1. PICK g \in Gates: GateError(c, g)
    BY <1>5
  <2>2. Find(c, g, WithoutAnswer(g)) /\ WithoutAnswer(g) \in {"pass", "fail"}
        /\ (g \in {"kyc", "sanctions"} => WithoutAnswer(g) # "pass")
    BY <2>1 DEF GateError, WithoutAnswer
  <2> QED
    BY <2>2, FindStep
<1> QED
  BY <1>1, <1>2, <1>3, <1>4, <1>5 DEF ReserveFunds

\* activateAccount.
LEMMA RequestStep ==
  ASSUME Inv, NEW q \in Requests, VerifyRecord(q) \/ ActivateVault(q)
  PROVE  Inv'
<1>1. TypeOK'
  BY DEF Inv, VerifyRecord, ActivateVault, TypeOK, RequestStages, Rows
<1>2. BlockInv' /\ VerdictInv' /\ AlertInv' /\ FreshInv'
  BY DEF Inv, VerifyRecord, ActivateVault, Rows, BlockInv, VerdictInv, Passed, AlertInv,
     FreshInv
<1>3. KycInv'
  BY DEF Inv, VerifyRecord, ActivateVault, Rows, KycInv, KycPasses, Compliant, TypeOK
<1> QED
  BY <1>1, <1>2, <1>3 DEF Inv

\* The process ends; a delivery is repeated; a month passes.
LEMMA CrashStep ==
  ASSUME Inv, Crash
  PROVE  Inv'
<1> DEFINE next(c) == IF call[c].stage \in {"screening", "passed"}
                      THEN [call[c] EXCEPT !.stage = "failed", !.found = Unasked]
                      ELSE call[c]
<1>1. call' = [c \in Calls |-> next(c)]
  BY DEF Crash
<1>2. \A c \in Calls:
        /\ next(c) \in CallStates
        /\ next(c).blocked = call[c].blocked
        /\ \/ next(c).stage = "failed" /\ next(c).found = Unasked
           \/ next(c) = call[c]
  BY DEF Inv, TypeOK, CallStates, Unasked, Gates, Findings
<1>3. Unasked["kyc"] = "open" /\ Unasked["sanctions"] = "open"
  BY DEF Unasked, Gates
<1> HIDE DEF next
<1>4. TypeOK'
  BY <1>1, <1>2 DEF Inv, Crash, Rows, TypeOK, RequestStages
<1>5. BlockInv' /\ FreshInv'
  <2>1. \A c \in Calls: call'[c] = next(c)
    BY <1>1
  <2>2. block' = block
    BY DEF Crash, Rows
  <2>3. ASSUME NEW c \in Calls, next(c).blocked
        PROVE  /\ block = "fresh"
               /\ next(c).found["sanctions"] # "pass"
               /\ next(c).stage \notin {"passed", "reserved"}
    BY <2>3, <1>2, <1>3 DEF Inv, BlockInv
  <2>4. ASSUME NEW c \in Calls, next(c).stage = "new"
        PROVE  next(c).found = Unasked
    BY <2>4, <1>2 DEF Inv, FreshInv
  <2> QED
    BY <2>1, <2>2, <2>3, <2>4 DEF BlockInv, FreshInv
<1>6. KycPasses' = KycPasses
  BY DEF Crash, Rows, KycPasses
<1>7. \A q \in Requests: request'[q] = IF request[q] = "approved" THEN "failed"
                                       ELSE request[q]
  BY DEF Crash
<1>8. KycInv'
  <2>1. \A c \in Calls: call'[c] = next(c)
    BY <1>1
  <2>2. registry' = registry /\ case' = case
    BY DEF Crash, Rows
  <2>3. ASSUME NEW c \in Calls,
               next(c).found["kyc"] = "pass" \/ next(c).stage \in {"passed", "reserved"}
        PROVE  KycPasses
    BY <2>3, <1>2, <1>3 DEF Inv, KycInv
  <2>4. ASSUME NEW q \in Requests, request'[q] \in {"approved", "active"}
        PROVE  KycPasses
    BY <2>4, <1>7 DEF Inv, KycInv
  <2>5. \A k \in registry: case[k] = "passed"
    BY DEF Inv, KycInv
  <2> QED
    BY <2>1, <2>2, <2>3, <2>4, <2>5, <1>6 DEF KycInv
<1>9. VerdictInv' /\ AlertInv'
  BY DEF Inv, Crash, Rows, VerdictInv, Passed, AlertInv
<1> QED
  BY <1>4, <1>5, <1>8, <1>9 DEF Inv

LEMMA RepeatStep ==
  ASSUME Inv, Repeat
  PROVE  Inv'
<1>1. TypeOK'
  BY DEF Inv, Repeat, CheckGoto, Rows, TypeOK
<1>2. BlockInv' /\ FreshInv' /\ KycInv'
  BY DEF Inv, Repeat, Rows, BlockInv, FreshInv, KycInv, KycPasses
<1>3. VerdictInv' /\ AlertInv'
  BY DEF Inv, Repeat, CheckGoto, Rows, TypeOK, VerdictInv, Passed, AlertInv
<1> QED
  BY <1>1, <1>2, <1>3 DEF Inv

LEMMA MonthStep ==
  ASSUME Inv, MonthPasses
  PROVE  Inv'
<1> DEFINE next(c) == [call[c] EXCEPT !.blocked = FALSE]
<1>1. call' = [c \in Calls |-> next(c)]
  BY DEF MonthPasses
<1>2. \A c \in Calls: /\ next(c) \in CallStates
                      /\ next(c).blocked = FALSE
                      /\ next(c).stage = call[c].stage
                      /\ next(c).found = call[c].found
  BY DEF Inv, TypeOK, CallStates
<1> HIDE DEF next
<1>3. TypeOK'
  BY <1>1, <1>2 DEF Inv, MonthPasses, TypeOK, BlockStates
<1>4. BlockInv' /\ FreshInv' /\ AlertInv'
  BY <1>1, <1>2 DEF Inv, MonthPasses, BlockInv, FreshInv, AlertInv
<1>5. VerdictInv'
  BY DEF Inv, MonthPasses, VerdictInv, Passed
<1>6. KycInv'
  <2>1. \A c \in Calls: call'[c].stage = call[c].stage /\ call'[c].found = call[c].found
    BY <1>1, <1>2
  <2>2. KycPasses' = KycPasses
    BY DEF MonthPasses, KycPasses
  <2> QED
    BY <2>1, <2>2 DEF Inv, MonthPasses, KycInv
<1> QED
  BY <1>3, <1>4, <1>5, <1>6 DEF Inv

LEMMA StepInv == Inv /\ [Next]_vars => Inv'
<1> SUFFICES ASSUME Inv, [Next]_vars PROVE Inv'
  OBVIOUS
<1>1. CASE UNCHANGED vars
  BY <1>1 DEF vars, Inv, TypeOK, BlockInv, KycInv, KycPasses, VerdictInv, Passed,
     AlertInv, FreshInv
<1>2. CASE \E k \in Checks: HandleCheck(k)
  BY <1>2, CheckStep
<1>3. CASE \E a \in Alerts: HandleAlert(a)
  BY <1>3, AlertStep
<1>4. CASE \E c \in Calls: ReserveFunds(c)
  BY <1>4, CallStep
<1>5. CASE \E q \in Requests: VerifyRecord(q) \/ ActivateVault(q)
  BY <1>5, RequestStep
<1>6. CASE Crash \/ Repeat \/ MonthPasses
  BY <1>6, CrashStep, RepeatStep, MonthStep
<1> QED
  BY <1>1, <1>2, <1>3, <1>4, <1>5, <1>6 DEF Next

LEMMA Invariant == Spec => []Inv
BY InitInv, StepInv, PTL DEF Spec

----------------------------------------------------------------------------
\* Every reachable state is well typed.
THEOREM TypeCorrect == Spec => []TypeOK
<1>1. Inv => TypeOK
  BY DEF Inv
<1> QED
  BY <1>1, Invariant, PTL

\* No screening that begins under a block of the last 30 days ends in a
\* reservation, whatever its gates and the other webhook do.
THEOREM BlocksHold == Spec => []BlockHolds
<1>1. Inv => BlockHolds
  BY DEF Inv, BlockInv, BlockHolds
<1> QED
  BY <1>1, Invariant, PTL

\* Reservations and activations rest on an identity check that passed.
THEOREM OnlyVerifiedMove == Spec => []OnlyVerified
<1>1. Inv => OnlyVerified
  <2> SUFFICES ASSUME Inv PROVE OnlyVerified
    OBVIOUS
  <2>1. \A k \in Checks: case[k] = "passed" => result[k] = "clear"
    BY PassedVerdict DEF Inv, VerdictInv
  <2> QED
    BY <2>1 DEF Inv, KycInv, OnlyVerified
<1> QED
  BY <1>1, Invariant, PTL

\* A verdict that a provider was told is recorded, is.
THEOREM AnswersRecorded == Spec => []AnsweredRecorded
<1>1. Inv => AnsweredRecorded
  BY DEF Inv, VerdictInv, AlertInv, AnsweredRecorded
<1> QED
  BY <1>1, Invariant, PTL

----------------------------------------------------------------------------
(* Verdicts take hold. A case without its verdict has a delivery that is due *)
(* or has found the case; a crash only takes it back to due.                 *)

\* Fairness, with the condition for a step in the place of ENABLED: the handler
\* of a check that goes on being due finds its case, and one that is there to
\* record again and again records.
CheckServed(k) ==
    /\ []<>~(check[k] = "due" /\ case[k] # "absent") \/ []<><<FindCase(k)>>_vars
    /\ <>[]~(check[k] = "found") \/ []<><<RecordVerdict(k)>>_vars

AlertServed(a) == []<>~(alert[a] = "due") \/ []<><<RecordAlert(a)>>_vars

\* That they are such conditions.
CheckEnabling(k) ==
    /\ [](check[k] = "due" /\ case[k] # "absent" => ENABLED <<FindCase(k)>>_vars)
    /\ [](check[k] = "found" => ENABLED <<RecordVerdict(k)>>_vars)

AlertEnabling(a) == [](alert[a] = "due" => ENABLED <<RecordAlert(a)>>_vars)

\* Then the fairness of Spec says as much.
LEMMA SpecServesCheck ==
    \A k \in Checks: CheckFairness(k) /\ CheckEnabling(k) => CheckServed(k)
<1>1. ASSUME NEW k \in Checks PROVE CheckFairness(k) /\ CheckEnabling(k) => CheckServed(k)
  BY PTL DEF CheckFairness, CheckEnabling, CheckServed
<1> QED
  BY <1>1

LEMMA SpecServesAlert ==
    \A a \in Alerts: AlertFairness(a) /\ AlertEnabling(a) => AlertServed(a)
<1>1. ASSUME NEW a \in Alerts PROVE AlertFairness(a) /\ AlertEnabling(a) => AlertServed(a)
  BY PTL DEF AlertFairness, AlertEnabling, AlertServed
<1> QED
  BY <1>1

CaseSettles(k) == []Inv /\ CheckServed(k) => <>(case[k] # "pending")

LEMMA CasesSettle == \A k \in Checks: CaseSettles(k)
<1>1. ASSUME NEW k \in Checks PROVE CaseSettles(k)
  <2>1. Inv /\ case[k] = "pending" => check[k] \in {"due", "found"}
    BY DEF Inv, TypeOK, VerdictInv, Passed
  <2>2. Inv /\ <<FindCase(k)>>_vars => (check[k] = "found")'
    BY DEF FindCase, CheckGoto, Inv, TypeOK
  <2>3. Inv /\ <<RecordVerdict(k)>>_vars => (case[k] # "pending")'
    BY DEF RecordVerdict, Passed, Inv, TypeOK
  <2>4. /\ case[k] = "pending" \/ case[k] # "pending"
        /\ check[k] \in {"due", "found"} /\ case[k] = "pending"
             => check[k] = "found" \/ (check[k] = "due" /\ case[k] # "absent")
    OBVIOUS
  <2> QED
    BY <2>1, <2>2, <2>3, <2>4, PTL DEF CaseSettles, CheckServed
<1> QED
  BY <1>1

AlertHolds(a) == []Inv /\ AlertServed(a) => <>(block # "none")

LEMMA AlertsHold == \A a \in Alerts: AlertHolds(a)
<1>1. ASSUME NEW a \in Alerts PROVE AlertHolds(a)
  <2>1. Inv /\ block = "none" => alert[a] = "due"
    BY DEF Inv, TypeOK, AlertInv
  <2>2. <<RecordAlert(a)>>_vars => (block # "none")'
    BY DEF RecordAlert
  <2>3. block = "none" \/ block # "none"
    OBVIOUS
  <2> QED
    BY <2>1, <2>2, <2>3, PTL DEF AlertHolds, AlertServed
<1> QED
  BY <1>1

\* Every check with a case and every alert is recorded in the end, for any number
\* of them, however often the process ends between the delivery, the lookup and
\* the transaction: a 200 that was never sent brings the delivery back.
THEOREM VerdictsHold ==
    /\ Spec
    /\ \A k \in Checks: CheckEnabling(k)
    /\ \A a \in Alerts: AlertEnabling(a)
    => VerdictsTakeHold
<1>1. Init /\ [][Next]_vars => []Inv
  BY InitInv, StepInv, PTL
<1>2. \A k \in Checks: []Inv /\ CheckServed(k) => <>(case[k] # "pending")
  BY CasesSettle DEF CaseSettles
<1>3. \A a \in Alerts: []Inv /\ AlertServed(a) => <>(block # "none")
  BY AlertsHold DEF AlertHolds
<1>4. Spec => /\ Init /\ [][Next]_vars
              /\ \A k \in Checks: CheckFairness(k)
              /\ \A a \in Alerts: AlertFairness(a)
  BY DEF Spec
<1> QED
  BY <1>1, <1>2, <1>3, <1>4, SpecServesCheck, SpecServesAlert DEF VerdictsTakeHold

----------------------------------------------------------------------------
(* The hourly reconciliation. A run keeps the vault's total over an await;  *)
(* what makes its report right is that the ledger's total can only have     *)
(* moved by a posting, and then the run has been disturbed.                 *)

\* A run that has read the vault, as long as no posting has landed since.
RunInv ==
    \A r \in Runs: run[r].stage = "ledger" =>
        /\ run[r].booked \subseteq Booked
        /\ run[r].booked = Booked /\ run[r].onChain # 0 =>
             run[r].drift = Distance(run[r].onChain, deposited)

ReconInv == ReconciliationTypeOK /\ RunInv /\ ReportFaithful

LEMMA DistanceNat ==
  ASSUME NEW a \in Nat, NEW b \in Nat
  PROVE  Distance(a, b) \in Nat
BY DEF Distance

LEMMA ReconInit ==
  ASSUME ReconciliationInit
  PROVE  ReconInv
<1>1. ReconciliationTypeOK
  BY AmountsAssumption DEF ReconciliationInit, ReconciliationTypeOK, Fates, Idle
<1>2. RunInv /\ ReportFaithful
  BY DEF ReconciliationInit, Idle, RunInv, ReportFaithful
<1> QED
  BY <1>1, <1>2 DEF ReconInv

\* The vault moves, or the gateway stops and starts: no run or report changes,
\* nor what is booked.
LEMMA OutsideStep ==
  ASSUME ReconInv, ReconciliationTypeOK', UNCHANGED <<run, report, deposited>>,
         Booked' = Booked
  PROVE  ReconInv'
<1>1. RunInv'
  BY DEF ReconInv, RunInv, Distance
<1>2. ReportFaithful'
  BY DEF ReconInv, ReportFaithful
<1> QED
  BY <1>1, <1>2 DEF ReconInv

LEMMA VaultStep ==
  ASSUME ReconInv,
         \/ \E d \in Deposits: MineDeposit(d)
         \/ Withdraw \/ Accrue \/ Die \/ GatewayRestart
  PROVE  ReconInv'
<1> USE AmountsAssumption DEF vault
<1>1. ASSUME NEW d \in Deposits, MineDeposit(d) PROVE ReconInv'
  <2>1. ReconciliationTypeOK'
    BY <1>1 DEF MineDeposit, ReconInv, ReconciliationTypeOK, Fates
  <2>2. Booked' = Booked
    BY <1>1 DEF MineDeposit, Booked, ReconInv, ReconciliationTypeOK
  <2> QED
    BY <1>1, <2>1, <2>2, OutsideStep DEF MineDeposit
<1>2. CASE Withdraw
  <2>1. ReconciliationTypeOK'
    BY <1>2 DEF Withdraw, ReconInv, ReconciliationTypeOK
  <2> QED
    BY <1>2, <2>1, OutsideStep DEF Withdraw, Booked
<1>3. CASE Accrue
  <2>1. ReconciliationTypeOK'
    BY <1>3 DEF Accrue, ReconInv, ReconciliationTypeOK
  <2> QED
    BY <1>3, <2>1, OutsideStep DEF Accrue, Booked
<1>4. CASE Die
  <2>1. ReconciliationTypeOK'
    BY <1>4 DEF Die, ReconInv, ReconciliationTypeOK, Fates
  <2>2. Booked' = Booked
    BY <1>4 DEF Die, Booked, ReconInv, ReconciliationTypeOK
  <2> QED
    BY <1>4, <2>1, <2>2, OutsideStep DEF Die
<1>5. CASE GatewayRestart
  <2>1. ReconciliationTypeOK'
    BY <1>5 DEF GatewayRestart, ReconInv, ReconciliationTypeOK
  <2> QED
    BY <1>5, <2>1, OutsideStep DEF GatewayRestart, Booked
<1> QED
  BY <1>1, <1>2, <1>3, <1>4, <1>5

\* A posting lands: every run that has read the vault is disturbed from now on,
\* for what it has seen booked lacks this deposit.
LEMMA BookStep ==
  ASSUME ReconInv, NEW d \in Deposits, Book(d)
  PROVE  ReconInv'
<1>1. ReconciliationTypeOK'
  BY AmountsAssumption DEF Book, vault, ReconInv, ReconciliationTypeOK, Fates
<1>2. Booked' = Booked \cup {d} /\ d \notin Booked
  BY DEF Book, Booked, ReconInv, ReconciliationTypeOK
<1>3. UNCHANGED <<run, report>>
  BY DEF Book
<1>4. RunInv'
  <2> SUFFICES ASSUME NEW r \in Runs, run[r].stage = "ledger"
               PROVE  run[r].booked \subseteq Booked' /\ run[r].booked # Booked'
    BY <1>3 DEF RunInv
  <2>1. run[r].booked \subseteq Booked
    BY DEF ReconInv, RunInv
  <2> QED
    BY <1>2, <2>1
<1>5. ReportFaithful'
  BY <1>3 DEF ReconInv, ReportFaithful
<1> QED
  BY <1>1, <1>4, <1>5 DEF ReconInv

\* One run goes on to q.
LEMMA RunChange ==
  ASSUME ReconInv, NEW r \in Runs,
         NEW q \in [stage: {"idle", "chain", "ledger"}, onChain: Nat,
                    drift: Nat, booked: SUBSET Deposits],
         run' = [run EXCEPT ![r] = q],
         UNCHANGED <<deposit, vault, deposited, up>>,
         q.stage = "ledger" =>
            /\ q.booked \subseteq Booked
            /\ q.booked = Booked /\ q.onChain # 0 =>
                 q.drift = Distance(q.onChain, deposited),
         report' \in [Runs -> Reports \cup {NoReport}],
         ReportFaithful'
  PROVE  ReconInv'
<1>1. \A s \in Runs: run'[s] = IF s = r THEN q ELSE run[s]
  BY DEF ReconInv, ReconciliationTypeOK
<1>2. ReconciliationTypeOK'
  BY DEF ReconInv, ReconciliationTypeOK, vault
<1>3. Booked' = Booked /\ deposited' = deposited
  BY DEF Booked
<1>4. RunInv'
  <2> SUFFICES ASSUME NEW s \in Runs, run'[s].stage = "ledger"
               PROVE  /\ run'[s].booked \subseteq Booked
                      /\ run'[s].booked = Booked /\ run'[s].onChain # 0 =>
                           run'[s].drift = Distance(run'[s].onChain, deposited)
    BY <1>3 DEF RunInv, Distance
  <2>1. CASE s = r
    BY <1>1, <2>1
  <2>2. CASE s # r
    BY <1>1, <2>2 DEF ReconInv, RunInv
  <2> QED
    BY <2>1, <2>2
<1> QED
  BY <1>2, <1>4 DEF ReconInv

LEMMA StartStep ==
  ASSUME ReconInv, NEW r \in Runs, StartRun(r)
  PROVE  ReconInv'
<1>1. PICK q: q = [run[r] EXCEPT !.stage = "chain"]
  OBVIOUS
<1>2. /\ q \in [stage: {"idle", "chain", "ledger"}, onChain: Nat,
                drift: Nat, booked: SUBSET Deposits]
      /\ q.stage = "chain"
  BY <1>1 DEF ReconInv, ReconciliationTypeOK
<1>3. /\ run' = [run EXCEPT ![r] = q]
      /\ report' = [report EXCEPT ![r] = NoReport]
      /\ UNCHANGED <<deposit, vault, deposited, up>>
  BY <1>1 DEF StartRun
<1>4. report' \in [Runs -> Reports \cup {NoReport}]
  BY <1>3 DEF ReconInv, ReconciliationTypeOK
<1>5. \A s \in Runs: report'[s] = IF s = r THEN NoReport ELSE report[s]
  BY <1>3 DEF ReconInv, ReconciliationTypeOK
<1>6. ReportFaithful'
  BY <1>5 DEF ReconInv, ReportFaithful
<1> QED
  BY <1>2, <1>3, <1>4, <1>6, RunChange

\* The vault answers, or does not.
LEMMA ReadStep ==
  ASSUME ReconInv, NEW r \in Runs,
         ReadChain(r) \/ ReadChainFails(r)
  PROVE  ReconInv'
<1>1. PICK total \in {totalAssets, 0}:
        /\ run' = [run EXCEPT ![r] = Seen(total)]
        /\ UNCHANGED <<deposit, vault, deposited, up, report>>
  BY DEF ReadChain, ReadChainFails
<1>2. PICK q: q = Seen(total)
  OBVIOUS
<1>3. Drift \in Nat
  BY DistanceNat DEF Drift, LedgerTotal, ReconInv, ReconciliationTypeOK
<1>4. /\ q \in [stage: {"idle", "chain", "ledger"}, onChain: Nat,
                drift: Nat, booked: SUBSET Deposits]
      /\ q.booked = Booked /\ q.onChain = total /\ q.drift = Drift
  BY <1>1, <1>2, <1>3 DEF Seen, Booked, ReconInv, ReconciliationTypeOK
<1>5. q.onChain # 0 => q.drift = Distance(q.onChain, deposited)
  BY <1>1, <1>4 DEF Drift, LedgerTotal
<1>6. run' = [run EXCEPT ![r] = q] /\ report' = report
  BY <1>1, <1>2
<1>7. /\ report' \in [Runs -> Reports \cup {NoReport}]
      /\ ReportFaithful'
  BY <1>6 DEF ReconInv, ReconciliationTypeOK, ReportFaithful
<1> QED
  BY <1>1, <1>4, <1>5, <1>6, <1>7, RunChange

LEMMA FailStep ==
  ASSUME ReconInv, NEW r \in Runs, RunFails(r)
  PROVE  ReconInv'
<1>1. Idle \in [stage: {"idle", "chain", "ledger"}, onChain: Nat,
                  drift: Nat, booked: SUBSET Deposits]
      /\ Idle.stage = "idle"
  BY DEF Idle
<1>2. /\ report' \in [Runs -> Reports \cup {NoReport}]
      /\ ReportFaithful'
  BY DEF RunFails, ReconInv, ReconciliationTypeOK, ReportFaithful
<1> QED
  BY <1>1, <1>2, RunChange DEF RunFails

\* The report of a run that saw the vault and was not disturbed compares what
\* it saw with the ledger as it was then.
LEMMA ReportStep ==
  ASSUME ReconInv, NEW r \in Runs, Report(r)
  PROVE  ReconInv'
<1> DEFINE delta == Delta(run[r].onChain)
<1>1. PICK new: new = [status |-> Status(delta), onChain |-> run[r].onChain,
                       drift |-> run[r].drift,
                       undisturbed |-> Booked = run[r].booked]
  OBVIOUS
<1>2. /\ report' = [report EXCEPT ![r] = new] /\ run' = [run EXCEPT ![r] = Idle]
      /\ run[r].stage = "ledger"
      /\ UNCHANGED <<deposit, vault, deposited, up>>
  BY <1>1 DEF Report
<1>3. /\ run[r].onChain \in Nat /\ run[r].drift \in Nat /\ deposited \in Nat
      /\ AlertThreshold \in Nat /\ SuspensionThreshold \in Nat
      /\ AlertThreshold < SuspensionThreshold
  BY AmountsAssumption DEF ReconInv, ReconciliationTypeOK
<1>4. delta = IF run[r].onChain # 0 THEN Distance(run[r].onChain, deposited) ELSE 0
  BY <1>3 DEF Delta, EffectiveOnChain, LedgerTotal, Distance
<1>5. delta \in Nat
  BY <1>3, <1>4, DistanceNat
<1> HIDE DEF delta
<1>6. /\ new.onChain = run[r].onChain /\ new.drift = run[r].drift
      /\ new.status = Status(delta)
      /\ new.undisturbed <=> Booked = run[r].booked
      /\ new \in Reports
  BY <1>1, <1>3 DEF Status, Statuses, Reports
<1>7. \A s \in Runs: report'[s] = IF s = r THEN new ELSE report[s]
  BY <1>2 DEF ReconInv, ReconciliationTypeOK
<1>8. report' \in [Runs -> Reports \cup {NoReport}]
  BY <1>2, <1>6 DEF ReconInv, ReconciliationTypeOK
<1>9. new.undisturbed /\ new.onChain # 0 => new.drift = delta
  BY <1>2, <1>4, <1>6 DEF ReconInv, RunInv
<1>10. new.onChain = 0 => new.status = "MATCHED"
  BY <1>3, <1>4, <1>6 DEF Status
<1>11. ReportFaithful'
  <2>1. ASSUME new.undisturbed
        PROVE  /\ new.status # "MATCHED" => new.drift > AlertThreshold
               /\ new.onChain # 0 =>
                    /\ new.drift > AlertThreshold => new.status # "MATCHED"
                    /\ new.status = "SUSPENDED" <=> new.drift >= SuspensionThreshold
    BY <1>3, <1>5, <1>6, <1>9, <1>10, <2>1 DEF Status
  <2> QED
    BY <1>7, <2>1 DEF ReconInv, ReportFaithful
<1>12. Idle \in [stage: {"idle", "chain", "ledger"}, onChain: Nat,
                   drift: Nat, booked: SUBSET Deposits]
       /\ Idle.stage = "idle"
  BY DEF Idle
<1> QED
  BY <1>2, <1>8, <1>11, <1>12, RunChange

LEMMA ReconNext ==
  ASSUME ReconInv, [ReconciliationNext]_reconciliationVars
  PROVE  ReconInv'
<1>1. CASE UNCHANGED reconciliationVars
  BY <1>1 DEF reconciliationVars, ReconInv, ReconciliationTypeOK, RunInv, ReportFaithful,
     Booked, Distance
<1>2. CASE ReconciliationNext
  BY <1>2, VaultStep, BookStep, StartStep, ReadStep, FailStep, ReportStep
     DEF ReconciliationNext, Reconcile, BookFails, GatewayCrash
<1> QED
  BY <1>1, <1>2

LEMMA ReconInvariance ==
  ReconciliationSpec => []ReconInv
<1>1. ReconciliationInit => ReconInv
  BY ReconInit
<1>2. ReconInv /\ [ReconciliationNext]_reconciliationVars => ReconInv'
  BY ReconNext
<1> QED
  BY <1>1, <1>2, PTL DEF ReconciliationSpec

\* Every reachable state of vault, gateway and runs is well typed.
THEOREM ReconciliationTypeCorrect ==
  ReconciliationSpec => []ReconciliationTypeOK
<1>1. ReconInv => ReconciliationTypeOK
  BY DEF ReconInv
<1> QED
  BY <1>1, ReconInvariance, PTL

\* "Any discrepancy > $0.01 USDC triggers": for any number of deposits and of
\* overlapping runs and any amounts and thresholds, a run that read the vault,
\* and saw no posting land between its reads, reports MATCHED, ALERT and
\* SUSPENDED just as vault and ledger had drifted apart when it read the
\* vault; and no undisturbed run alerts without a drift.
THEOREM ReportsAreFaithful ==
  ReconciliationSpec => []ReportFaithful
<1>1. ReconInv => ReportFaithful
  BY DEF ReconInv
<1> QED
  BY <1>1, ReconInvariance, PTL

----------------------------------------------------------------------------
(* Lasting drift is alerted. An hourly run comes to its reads again and      *)
(* again, and some of them are answered; once no money moves, what it reads  *)
(* of the vault is the vault's total for good, so its comparison is the      *)
(* drift itself.                                                             *)

\* Fairness, with the condition for a step in the place of ENABLED. A run never
\* stands still; a run that reads the vault again and again is answered, and
\* one that has it in hand again and again reports.
RunServed(r) ==
  /\ []<><<Reconcile(r)>>_reconciliationVars
  /\ <>[]~(run[r].stage = "chain") \/ []<><<ReadChain(r)>>_reconciliationVars
  /\ \/ <>[]~(run[r].stage = "ledger" /\ run[r].onChain # 0)
     \/ []<><<run[r].onChain # 0 /\ Report(r)>>_reconciliationVars

\* That they are such conditions, and the first step needs none.
RunEnabling(r) ==
  /\ []ENABLED <<Reconcile(r)>>_reconciliationVars
  /\ [](run[r].stage = "chain" => ENABLED <<ReadChain(r)>>_reconciliationVars)
  /\ [](run[r].stage = "ledger" /\ run[r].onChain # 0
          => ENABLED <<run[r].onChain # 0 /\ Report(r)>>_reconciliationVars)

\* Then the fairness of ReconciliationSpec says as much.
LEMMA SpecServesRun == \A r \in Runs: RunFairness(r) /\ RunEnabling(r) => RunServed(r)
<1>1. ASSUME NEW r \in Runs PROVE RunFairness(r) /\ RunEnabling(r) => RunServed(r)
  BY PTL DEF RunFairness, RunEnabling, RunServed
<1> QED
  BY <1>1

\* Nothing is paid in, withdrawn, accrued or booked any more.
MoneyRests == <>[][UNCHANGED <<totalAssets, deposited>>]_reconciliationVars

\* What run r has in hand of the vault is what the vault holds.
UpToDate(r) ==
  run[r].stage = "ledger" /\ run[r].onChain # 0 => run[r].onChain = totalAssets

\* A step leaves a run alone or is one of its own.
LEMMA OwnStep ==
  ASSUME ReconInv, [ReconciliationNext]_reconciliationVars, NEW r \in Runs
  PROVE  Reconcile(r) \/ run'[r] = run[r]
<1>1. CASE UNCHANGED reconciliationVars
  BY <1>1 DEF reconciliationVars
<1>2. CASE \/ \E d \in Deposits: MineDeposit(d) \/ Book(d) \/ BookFails(d)
           \/ Withdraw \/ Accrue \/ GatewayCrash \/ GatewayRestart
  BY <1>2 DEF MineDeposit, Book, BookFails, Withdraw, Accrue, GatewayCrash, Die, GatewayRestart
<1>3. ASSUME NEW s \in Runs, s # r, Reconcile(s) PROVE run'[r] = run[r]
  BY <1>3 DEF Reconcile, StartRun, ReadChain, ReadChainFails, Report, RunFails,
     ReconInv, ReconciliationTypeOK
<1> QED
  BY <1>1, <1>2, <1>3 DEF ReconciliationNext

\* Where a run's own steps take it.
LEMMA RunGoes ==
  ASSUME ReconInv, NEW r \in Runs, Reconcile(r)
  PROVE  /\ run[r].stage = "idle" => run'[r].stage = "chain"
         /\ run[r].stage = "chain" => run'[r].stage \in {"ledger", "idle"}
         /\ run[r].stage = "ledger" => run'[r].stage = "idle"
         /\ run'[r].stage = "ledger" => run'[r].onChain \in {0, totalAssets}
  BY DEF Reconcile, StartRun, ReadChain, ReadChainFails, Report, RunFails, Seen, Idle,
     ReconInv, ReconciliationTypeOK

\* While no money moves a run stays up to date.
LEMMA StaysUpToDate ==
  ASSUME ReconInv, NEW r \in Runs, UpToDate(r),
         [ReconciliationNext]_reconciliationVars,
         [UNCHANGED <<totalAssets, deposited>>]_reconciliationVars
  PROVE  UpToDate(r)'
<1>1. totalAssets' = totalAssets
  BY DEF reconciliationVars
<1>2. CASE Reconcile(r)
  BY <1>1, <1>2, RunGoes DEF UpToDate
<1>3. CASE run'[r] = run[r]
  BY <1>1, <1>3 DEF UpToDate
<1> QED
  BY <1>2, <1>3, OwnStep

\* The report of a run that is up to date says what the drift is.
LEMMA UpToDateAlerts ==
  ASSUME ReconInv, NEW r \in Runs, UpToDate(r), DriftedApart,
         run[r].onChain # 0 /\ Report(r)
  PROVE  Alerted'
<1>1. run[r].onChain = totalAssets
  BY DEF UpToDate, Report
<1>2. Delta(run[r].onChain) = Drift
  BY <1>1 DEF Delta, EffectiveOnChain, Drift, DriftedApart
<1>3. Drift \in Nat /\ Drift > AlertThreshold /\ AlertThreshold \in Nat
  BY DistanceNat, AmountsAssumption DEF Drift, LedgerTotal, DriftedApart, ReconInv,
     ReconciliationTypeOK
<1>4. Status(Delta(run[r].onChain)) # "MATCHED"
  BY <1>2, <1>3 DEF Status
<1>5. report'[r] = [status |-> Status(Delta(run[r].onChain)), onChain |-> run[r].onChain,
                    drift |-> run[r].drift, undisturbed |-> Booked = run[r].booked]
  BY DEF Report, ReconInv, ReconciliationTypeOK
<1>6. report'[r] \in Reports
  BY <1>5 DEF Status, Statuses, Reports, ReconInv, ReconciliationTypeOK
<1>7. report'[r] # NoReport
  BY <1>6, NoReportAssumption
<1> QED
  BY <1>4, <1>5, <1>7 DEF Alerted

\* The alerts of one run, for as long as it is served.
AlertsOf(r) ==
  /\ []ReconInv /\ [][ReconciliationNext]_reconciliationVars
  /\ MoneyRests /\ RunServed(r)
  => DriftReported

LEMMA ServedRunAlerts == \A r \in Runs: AlertsOf(r)
<1>1. ASSUME NEW r \in Runs PROVE AlertsOf(r)
  <2>1. ReconInv => run[r].stage = "idle" \/ run[r].stage = "chain" \/ run[r].stage = "ledger"
    BY DEF ReconInv, ReconciliationTypeOK
  <2>2. /\ ReconInv /\ [ReconciliationNext]_reconciliationVars
        => /\ run[r].stage = "idle" => (run[r].stage = "idle")' \/ (run[r].stage = "chain")'
           /\ run[r].stage = "ledger" => (run[r].stage = "ledger")' \/ (run[r].stage = "idle")'
    BY OwnStep, RunGoes
  <2>3. ReconInv /\ <<Reconcile(r)>>_reconciliationVars
        => /\ run[r].stage = "idle" => (run[r].stage = "chain")'
           /\ run[r].stage = "ledger" => (run[r].stage = "idle")'
    BY RunGoes
  <2>4. /\ ReconInv /\ UpToDate(r) /\ [ReconciliationNext]_reconciliationVars
        /\ [UNCHANGED <<totalAssets, deposited>>]_reconciliationVars
        => UpToDate(r)'
    BY StaysUpToDate
  <2>5. /\ ReconInv /\ DriftedApart /\ <<ReadChain(r)>>_reconciliationVars
        => UpToDate(r)' /\ (run[r].stage = "ledger" /\ run[r].onChain # 0)'
    BY DEF ReadChain, Seen, UpToDate, DriftedApart, vault, ReconInv, ReconciliationTypeOK
  <2>6. /\ ReconInv /\ DriftedApart /\ UpToDate(r)
        /\ <<run[r].onChain # 0 /\ Report(r)>>_reconciliationVars
        => Alerted'
    BY UpToDateAlerts
  <2> QED
    BY <2>1, <2>2, <2>3, <2>4, <2>5, <2>6, PTL
    DEF AlertsOf, RunServed, MoneyRests, DriftReported
<1> QED
  BY <1>1

\* "Any discrepancy > $0.01 USDC triggers": once no money moves, drift that
\* lasts is alerted again and again, for any number of deposits and of runs and
\* any amounts and threshold, however often runs fail or read nothing.
\* MoneyRests holds in every behaviour of an instance with finitely many
\* deposits; without it postings may fall between the reads of every run.
THEOREM LastingDriftIsReported ==
  /\ ReconciliationSpec /\ (\A r \in Runs: RunEnabling(r)) /\ Runs # {}
  /\ MoneyRests
  => DriftReported
<1>1. ReconciliationInit /\ [][ReconciliationNext]_reconciliationVars => []ReconInv
  <2>1. ReconciliationInit => ReconInv
    BY ReconInit
  <2>2. ReconInv /\ [ReconciliationNext]_reconciliationVars => ReconInv'
    BY ReconNext
  <2> QED
    BY <2>1, <2>2, PTL
<1>2. \A r \in Runs: /\ []ReconInv /\ [][ReconciliationNext]_reconciliationVars
                     /\ MoneyRests /\ RunServed(r)
                     => DriftReported
  BY ServedRunAlerts DEF AlertsOf
<1>3. ReconciliationSpec => /\ ReconciliationInit /\ [][ReconciliationNext]_reconciliationVars
                            /\ \A r \in Runs: RunFairness(r)
  BY DEF ReconciliationSpec
<1> QED
  BY <1>1, <1>2, <1>3, SpecServesRun

----------------------------------------------------------------------------
(* The harvest job. isRunning is its lock: set exactly while a check is     *)
(* under way, so a check that ends in any way leaves it free.               *)

LEMMA HarvestInitTyped ==
  ASSUME HarvestInit
  PROVE  HarvestTypeOK
<1>1. 0 \in 0..MaxStrays /\ 0 \in 0..MaxConsecutiveFailures
  BY HarvestAssumption
<1> QED
  BY <1>1 DEF HarvestInit, HarvestTypeOK, Stages

\* A check goes on, to another await.
LEMMA AwaitStep ==
  ASSUME HarvestTypeOK, InitDone \/ EpochOver \/ BreakerOff \/ Confirmed
  PROVE  HarvestTypeOK'
<1>1. CASE InitDone
  BY <1>1 DEF InitDone, Await, router, HarvestTypeOK, Stages
<1>2. CASE EpochOver
  BY <1>2 DEF EpochOver, Await, router, HarvestTypeOK, Stages
<1>3. CASE BreakerOff
  BY <1>3 DEF BreakerOff, Await, router, HarvestTypeOK, Stages
<1>4. CASE Confirmed
  BY <1>4 DEF Confirmed, Await, router, HarvestTypeOK, Stages
<1> QED
  BY <1>1, <1>2, <1>3, <1>4

\* A check ends, one way or another.
LEMMA EndStep ==
  ASSUME HarvestTypeOK, strays' \in 0..MaxStrays,
         NEW harvested, End(harvested)
  PROVE  HarvestTypeOK'
<1>1. 0 \in 0..MaxConsecutiveFailures
  BY HarvestAssumption
<1> QED
  BY <1>1 DEF End, router, HarvestTypeOK, Stages

LEMMA CheckEndsStep ==
  ASSUME HarvestTypeOK,
         NoOperator \/ EpochRunning \/ BreakerActive \/ Fail \/ Record
  PROVE  HarvestTypeOK'
<1>1. strays \in 0..MaxStrays /\ MaxStrays \in Nat
  BY HarvestAssumption DEF HarvestTypeOK
<1>2. CASE NoOperator \/ EpochRunning \/ BreakerActive
  BY <1>1, <1>2, EndStep DEF NoOperator, EpochRunning, BreakerActive, Skip
<1>3. CASE Fail
  <2>1. strays' \in 0..MaxStrays
    BY <1>1, <1>3 DEF Fail
  <2> QED
    BY <1>3, <2>1, EndStep DEF Fail
<1>4. CASE Record
  BY <1>1, <1>4, EndStep DEF Record
<1> QED
  BY <1>2, <1>3, <1>4

LEMMA HarvestStepTyped ==
  ASSUME HarvestTypeOK, [HarvestNext]_harvestVars
  PROVE  HarvestTypeOK'
<1>1. MaxConsecutiveFailures \in Nat /\ MaxStrays \in Nat /\ MaxConsecutiveFailures # 0
  BY HarvestAssumption
<1>2. CASE UNCHANGED harvestVars
  BY <1>2 DEF harvestVars, HarvestTypeOK
<1>3. CASE Start
  BY <1>3 DEF Start, router, HarvestTypeOK, Stages
<1>4. CASE InitThrows
  <2>1. consecutiveFailures' \in 0..MaxConsecutiveFailures
    BY <1>1, <1>4 DEF InitThrows, HarvestTypeOK
  <2>2. paged' \in BOOLEAN
    BY <1>4 DEF InitThrows, HarvestTypeOK
  <2> QED
    BY <1>4, <2>1, <2>2 DEF InitThrows, router, HarvestTypeOK, Stages
<1>5. CASE Send
  BY <1>5 DEF Send, router, HarvestTypeOK, Stages
<1>6. CASE Mine
  BY <1>6 DEF Mine, Harvested, cron, HarvestTypeOK, Stages
<1>7. CASE MineStray
  <2>1. strays' \in 0..MaxStrays
    BY <1>1, <1>7 DEF MineStray, HarvestTypeOK
  <2> QED
    BY <1>7, <2>1 DEF MineStray, Harvested, cron, HarvestTypeOK
<1>8. CASE EpochEnds \/ FlipBreaker
  <2>1. over' \in BOOLEAN /\ breaker' \in BOOLEAN
    BY <1>8 DEF EpochEnds, FlipBreaker, HarvestTypeOK
  <2> QED
    BY <1>8, <2>1 DEF EpochEnds, FlipBreaker, cron, HarvestTypeOK
<1>9. CASE CronRestart
  <2>1. strays' \in 0..MaxStrays /\ consecutiveFailures' \in 0..MaxConsecutiveFailures
    BY <1>1, <1>9 DEF CronRestart, HarvestTypeOK
  <2>2. boot' \in {0, 1}
    BY <1>9 DEF CronRestart, HarvestTypeOK
  <2> QED
    BY <1>9, <2>1, <2>2 DEF CronRestart, router, HarvestTypeOK, Stages
<1> QED
  BY <1>2, <1>3, <1>4, <1>5, <1>6, <1>7, <1>8, <1>9, AwaitStep, CheckEndsStep
     DEF HarvestNext, Check

\* Every reachable state of the job is well typed, its lock is held just while
\* a check is under way, and only a check that waits for one has a
\* transaction: for any failure threshold and any number of stray transactions.
THEOREM HarvestTypeCorrect ==
  HarvestSpec => []HarvestTypeOK
<1>1. HarvestInit => HarvestTypeOK
  BY HarvestInitTyped
<1>2. HarvestTypeOK /\ [HarvestNext]_harvestVars => HarvestTypeOK'
  BY HarvestStepTyped
<1> QED
  BY <1>1, <1>2, PTL DEF HarvestSpec

\* Where "3 consecutive failures -> page on-call" ends: triggerHarvestCheck
\* catches what a check throws after _init and answers 'not harvested', and so
\* it does when _init made no wallet. So unless the key cannot be parsed no
\* missing RPC URL, no wrong router address and no failure of the node, the gas
\* estimate, the receipt or the event is ever counted, and on-call is never
\* paged, for any threshold and however many checks fail or are skipped.
FailuresUncounted == setup # "badKey" => consecutiveFailures = 0 /\ ~paged

THEOREM OnlyABadKeyPages ==
  HarvestSpec => []FailuresUncounted
<1>1. HarvestInit => FailuresUncounted
  BY DEF HarvestInit, FailuresUncounted
<1>2. ASSUME FailuresUncounted, [HarvestNext]_harvestVars PROVE FailuresUncounted'
  <2>1. CASE InitThrows
    BY <1>2, <2>1 DEF InitThrows, FailuresUncounted
  <2>2. ASSUME NEW harvested, End(harvested) PROVE FailuresUncounted'
    BY <1>2, <2>2 DEF End, FailuresUncounted
  <2>3. CASE NoOperator \/ EpochRunning \/ BreakerActive \/ Fail \/ Record
    BY <2>2, <2>3 DEF NoOperator, EpochRunning, BreakerActive, Skip, Fail, Record
  <2>4. CASE CronRestart
    BY <1>2, <2>4 DEF CronRestart, FailuresUncounted
  <2>5. CASE UNCHANGED <<setup, consecutiveFailures, paged>>
    BY <1>2, <2>5 DEF FailuresUncounted
  <2>6. CASE UNCHANGED harvestVars
    BY <2>5, <2>6 DEF harvestVars
  <2>7. CASE \/ Start \/ InitDone \/ EpochOver \/ BreakerOff \/ Send
             \/ Confirmed
    BY <2>5, <2>7 DEF Start, InitDone, EpochOver, BreakerOff, Send,
       Confirmed, Await
  <2>8. CASE Mine \/ MineStray \/ EpochEnds \/ FlipBreaker
    BY <2>5, <2>8 DEF Mine, MineStray, EpochEnds, FlipBreaker, cron
  <2> QED
    BY <1>2, <2>1, <2>3, <2>4, <2>6, <2>7, <2>8 DEF HarvestNext, Check
<1> QED
  BY <1>1, <1>2, PTL DEF HarvestSpec

----------------------------------------------------------------------------
(* Every epoch that is over is harvested. Suppose one stays over, with the   *)
(* breaker off: then nobody's transaction is pending for long, for it would  *)
(* harvest the epoch, so checks stop sending one, so they stop before, await *)
(* by await, down to the tick of the schedule, which never stops.            *)

\* A harvest that is recorded is mined.
RecordInv == stage = "record" => tx = "success"

HarvestInv == HarvestTypeOK /\ RecordInv

LEMMA HarvestInvariance ==
  HarvestInit /\ [][HarvestNext]_harvestVars => []HarvestInv
<1>1. HarvestInit => HarvestInv
  BY HarvestInitTyped DEF HarvestInv, RecordInv, HarvestInit
<1>2. HarvestInv /\ [HarvestNext]_harvestVars => HarvestInv'
  <2> SUFFICES ASSUME HarvestInv, [HarvestNext]_harvestVars PROVE RecordInv'
    BY HarvestStepTyped DEF HarvestInv
  <2>1. CASE Start \/ InitThrows \/ InitDone \/ EpochOver \/ BreakerOff \/ Send
    BY <2>1 DEF Start, InitThrows, InitDone, EpochOver, BreakerOff, Send, Await, RecordInv
  <2>2. CASE NoOperator \/ EpochRunning \/ BreakerActive \/ Fail \/ Record \/ CronRestart
    BY <2>2 DEF NoOperator, EpochRunning, BreakerActive, Skip, Fail, Record, End, CronRestart, RecordInv
  <2>3. CASE Confirmed
    BY <2>3 DEF Confirmed, Await, RecordInv
  <2>4. CASE Mine \/ MineStray \/ EpochEnds \/ FlipBreaker
    BY <2>4 DEF Mine, MineStray, EpochEnds, FlipBreaker, cron, HarvestInv, HarvestTypeOK,
       RecordInv
  <2>5. CASE UNCHANGED harvestVars
    BY <2>5 DEF harvestVars, HarvestInv, RecordInv
  <2> QED
    BY <2>1, <2>2, <2>3, <2>4, <2>5 DEF HarvestNext, Check
<1> QED
  BY <1>1, <1>2, PTL

\* The environment is read once and for all.
LEMMA StaysGood == setup = "good" /\ [HarvestNext]_harvestVars => setup' = "good"
<1> SUFFICES ASSUME setup = "good", [HarvestNext]_harvestVars PROVE setup' = "good"
  OBVIOUS
<1>1. CASE Start \/ InitThrows \/ InitDone \/ EpochOver \/ BreakerOff \/ Send \/ Confirmed
  BY <1>1 DEF Start, InitThrows, InitDone, EpochOver, BreakerOff, Send, Confirmed, Await
<1>2. CASE NoOperator \/ EpochRunning \/ BreakerActive \/ Fail \/ Record \/ CronRestart
  BY <1>2 DEF NoOperator, EpochRunning, BreakerActive, Skip, Fail, Record, End, CronRestart
<1>3. CASE Mine \/ MineStray \/ EpochEnds \/ FlipBreaker \/ UNCHANGED harvestVars
  BY <1>3 DEF Mine, MineStray, EpochEnds, FlipBreaker, harvestVars
<1> QED
  BY <1>1, <1>2, <1>3 DEF HarvestNext, Check

\* An epoch that is over and that harvest() would end.
Waiting == HarvestInv /\ over /\ ~breaker /\ setup = "good"

\* Fairness, with the condition for a step in the place of ENABLED. A check that
\* waits for a transaction that is not pending, or records it, can go on.
Concluding == stage \in {"wait", "record"} /\ tx # "pending"

TransactionsMined ==
  /\ []<>~(strays > 0) \/ []<><<MineStray>>_harvestVars
  /\ []<>~(tx = "pending") \/ []<><<Mine>>_harvestVars

ChecksGoOn ==
  /\ []<>~(stage = "idle") \/ []<><<Start>>_harvestVars
  /\ <>[]~(stage = "init" /\ setup = "good") \/ []<><<InitDone>>_harvestVars
  /\ <>[]~(stage = "epoch" /\ setup = "good" /\ over) \/ []<><<EpochOver>>_harvestVars
  /\ <>[]~(stage = "breaker" /\ ~breaker) \/ []<><<BreakerOff>>_harvestVars
  /\ <>[]~(stage = "send" /\ over /\ ~breaker) \/ []<><<Send>>_harvestVars
  /\ []<>~Concluding \/ []<><<Check \/ Fail>>_harvestVars

\* That they are such conditions.
HarvestEnabling ==
  /\ [](strays > 0 => ENABLED <<MineStray>>_harvestVars)
  /\ [](tx = "pending" => ENABLED <<Mine>>_harvestVars)
  /\ [](stage = "idle" => ENABLED <<Start>>_harvestVars)
  /\ [](stage = "init" /\ setup = "good" => ENABLED <<InitDone>>_harvestVars)
  /\ [](stage = "epoch" /\ setup = "good" /\ over => ENABLED <<EpochOver>>_harvestVars)
  /\ [](stage = "breaker" /\ ~breaker => ENABLED <<BreakerOff>>_harvestVars)
  /\ [](stage = "send" /\ over /\ ~breaker => ENABLED <<Send>>_harvestVars)
  /\ [](Concluding => ENABLED <<Check \/ Fail>>_harvestVars)

\* Then the fairness of HarvestSpec says as much.
LEMMA FairnessServes == Fairness /\ HarvestEnabling => TransactionsMined /\ ChecksGoOn
<1>1. /\ WF_harvestVars(MineStray) /\ WF_harvestVars(Mine)
      /\ [](strays > 0 => ENABLED <<MineStray>>_harvestVars)
      /\ [](tx = "pending" => ENABLED <<Mine>>_harvestVars)
      => TransactionsMined
  BY PTL DEF TransactionsMined
<1>2. /\ WF_harvestVars(Start) /\ SF_harvestVars(InitDone) /\ SF_harvestVars(EpochOver)
      /\ SF_harvestVars(BreakerOff) /\ SF_harvestVars(Send)
      /\ WF_harvestVars(Check \/ Fail)
      /\ [](stage = "idle" => ENABLED <<Start>>_harvestVars)
      /\ [](stage = "init" /\ setup = "good" => ENABLED <<InitDone>>_harvestVars)
      /\ [](stage = "epoch" /\ setup = "good" /\ over => ENABLED <<EpochOver>>_harvestVars)
      /\ [](stage = "breaker" /\ ~breaker => ENABLED <<BreakerOff>>_harvestVars)
      /\ [](stage = "send" /\ over /\ ~breaker => ENABLED <<Send>>_harvestVars)
      /\ [](Concluding => ENABLED <<Check \/ Fail>>_harvestVars)
      => ChecksGoOn
  BY PTL DEF ChecksGoOn
<1> QED
  BY <1>1, <1>2, PTL DEF Fairness, HarvestEnabling

\* A stray transaction is left until it is mined, and a pending one becomes a
\* stray when its check gives up, so neither can be there.
LEMMA NothingPending ==
  [][HarvestNext]_harvestVars /\ TransactionsMined /\ []Waiting
    => [](tx # "pending")
<1>1. ASSUME Waiting, Waiting', strays > 0, [HarvestNext]_harvestVars
      PROVE  (strays > 0)'
  <2>1. strays \in Nat
    BY <1>1, HarvestAssumption DEF Waiting, HarvestInv, HarvestTypeOK
  <2>2. CASE UNCHANGED strays
    BY <1>1, <2>2
  <2>3. CASE Fail \/ CronRestart
    <3>1. strays' = strays \/ strays' = strays + 1
      BY <2>3 DEF Fail, CronRestart
    <3> QED
      BY <1>1, <2>1, <3>1
  <2>4. ~MineStray
    BY <1>1 DEF MineStray, Harvested, Waiting
  <2>5. CASE Start \/ InitThrows \/ Check
    BY <2>2, <2>5 DEF Start, InitThrows, Check, InitDone, NoOperator, EpochRunning, EpochOver,
       BreakerActive, BreakerOff, Send, Confirmed, Record, Await, Skip
  <2>6. CASE Mine \/ EpochEnds \/ FlipBreaker \/ UNCHANGED harvestVars
    BY <2>2, <2>6 DEF Mine, EpochEnds, FlipBreaker, harvestVars
  <2> QED
    BY <1>1, <2>3, <2>4, <2>5, <2>6 DEF HarvestNext
<1>2. Waiting /\ <<MineStray>>_harvestVars => ~Waiting'
  BY DEF MineStray, Harvested, Waiting
<1>3. Waiting => strays > 0 \/ strays = 0
  BY HarvestAssumption DEF Waiting, HarvestInv, HarvestTypeOK
<1>4. ASSUME Waiting, Waiting', strays = 0, (strays > 0 \/ strays = 0)', tx = "pending",
             [HarvestNext]_harvestVars
      PROVE  (tx = "pending")' \/ (strays > 0)'
  <2>1. stage \in {"wait", "record"}
    BY <1>4 DEF Waiting, HarvestInv, HarvestTypeOK
  <2>2. stage = "wait"
    BY <1>4, <2>1 DEF Waiting, HarvestInv, RecordInv
  <2>3. CASE Fail \/ CronRestart
    <3>1. strays' = strays + 1
      BY <1>4, <2>3 DEF Fail, CronRestart
    <3> QED
      BY <1>4, <3>1
  <2>4. ~Mine
    BY <1>4 DEF Mine, Harvested, Waiting
  <2>5. ~Start /\ ~InitThrows /\ ~Check
    BY <1>4, <2>2 DEF Start, InitThrows, Check, InitDone, NoOperator, EpochRunning, EpochOver,
       BreakerActive, BreakerOff, Send, Confirmed, Record, Waiting, HarvestInv,
       HarvestTypeOK
  <2>6. CASE MineStray \/ EpochEnds \/ FlipBreaker \/ UNCHANGED harvestVars
    BY <1>4, <2>6 DEF MineStray, EpochEnds, FlipBreaker, harvestVars
  <2> QED
    BY <1>4, <2>3, <2>4, <2>5, <2>6 DEF HarvestNext
<1>5. Waiting /\ <<Mine>>_harvestVars => ~Waiting'
  BY DEF Mine, Harvested, Waiting
<1>6. tx = "pending" \/ tx # "pending"
  OBVIOUS
<1>7. ~(strays > 0 /\ strays = 0)
  OBVIOUS
<1> QED
  BY <1>1, <1>2, <1>3, <1>4, <1>5, <1>6, <1>7, PTL DEF TransactionsMined

\* So no check gets as far as the send, and none ends, but one must begin.
LEMMA WaitingEnds ==
  [][HarvestNext]_harvestVars /\ ChecksGoOn => ~([]Waiting /\ [](tx # "pending"))
<1>1. <<Send>>_harvestVars => ~(tx # "pending")'
  BY DEF Send
<1>2. <<BreakerOff>>_harvestVars => (stage = "send")'
  BY DEF BreakerOff, Await
<1>3. <<EpochOver>>_harvestVars => (stage = "breaker")'
  BY DEF EpochOver, Await
<1>4. <<InitDone>>_harvestVars => (stage = "epoch")'
  BY DEF InitDone, Await
<1>5. <<Start>>_harvestVars => (stage = "init")'
  BY DEF Start
<1>6. Waiting => over /\ ~breaker /\ setup = "good"
  BY DEF Waiting
<1>7. Waiting => \/ stage = "idle" \/ stage = "init" \/ stage = "epoch"
                 \/ stage = "breaker" \/ stage = "send"
                 \/ stage = "wait" \/ stage = "record"
  BY DEF Waiting, HarvestInv, HarvestTypeOK, Stages
<1>8. Waiting /\ stage = "idle" /\ [HarvestNext]_harvestVars
        => (stage = "idle")' \/ (stage = "init")'
  BY DEF Waiting, HarvestInv, HarvestTypeOK, HarvestNext, Start, Check, InitThrows,
     InitDone, NoOperator, EpochRunning, EpochOver, BreakerActive, BreakerOff, Send, Confirmed, Record,
     Fail, Mine, MineStray, EpochEnds, FlipBreaker, CronRestart, cron, harvestVars
<1>9. Waiting /\ stage = "record" /\ [HarvestNext]_harvestVars
        => (stage = "record")' \/ (stage = "idle")'
  BY DEF Waiting, HarvestInv, HarvestTypeOK, HarvestNext, Start, Check, InitThrows,
     InitDone, NoOperator, EpochRunning, EpochOver, BreakerActive, BreakerOff, Send, Confirmed, Record,
     Fail, End, Mine, MineStray, EpochEnds, FlipBreaker, CronRestart, cron, harvestVars
<1>10. stage = "wait" /\ tx # "pending" /\ <<Check \/ Fail>>_harvestVars
         => (stage = "record")' \/ (stage = "idle")'
  BY DEF Check, InitDone, NoOperator, EpochRunning, EpochOver, BreakerActive, BreakerOff, Send,
     Confirmed, Record, Fail, End, Await
<1>11. stage = "record" /\ <<Check \/ Fail>>_harvestVars => (stage = "idle")'
  BY DEF Check, InitDone, NoOperator, EpochRunning, EpochOver, BreakerActive, BreakerOff, Send,
     Confirmed, Record, Fail, End, Await
<1>12. tx # "pending" /\ (stage = "wait" \/ stage = "record") => Concluding
  BY DEF Concluding
<1>13. /\ stage = "idle" => ~(stage = "wait") /\ ~(stage = "record")
       /\ stage = "wait" => ~(stage = "record")
  OBVIOUS
<1> QED
  BY <1>1, <1>2, <1>3, <1>4, <1>5, <1>6, <1>7, <1>8, <1>9, <1>10, <1>11, <1>12, <1>13, PTL
  DEF ChecksGoOn

\* Every epoch that is over is harvested once the breaker stays off, for any
\* number of transactions nobody waits for, although checks fail at any await,
\* receipts are given up and the process restarts.
THEOREM EpochsHarvested == HarvestSpec /\ HarvestEnabling => EpochHarvested
<1>1. HarvestInit /\ [][HarvestNext]_harvestVars => []HarvestInv
  BY HarvestInvariance
<1>2. setup = "good" /\ [HarvestNext]_harvestVars => (setup = "good")'
  BY StaysGood
<1>3. HarvestInv /\ over /\ ~breaker /\ setup = "good" => Waiting
  BY DEF Waiting
<1>4. [][HarvestNext]_harvestVars /\ TransactionsMined /\ []Waiting => [](tx # "pending")
  BY NothingPending
<1>5. [][HarvestNext]_harvestVars /\ ChecksGoOn => ~([]Waiting /\ [](tx # "pending"))
  BY WaitingEnds
<1>6. [][HarvestNext]_harvestVars /\ TransactionsMined /\ ChecksGoOn => ~<>[]Waiting
  <2>1. TransactionsMined => []TransactionsMined
    BY PTL DEF TransactionsMined
  <2>2. ChecksGoOn => []ChecksGoOn
    BY PTL DEF ChecksGoOn
  <2> QED
    BY <1>4, <1>5, <2>1, <2>2, PTL
<1>7. HarvestInit /\ setup = "good" /\ [][HarvestNext]_harvestVars => [](setup = "good")
  BY <1>2, PTL
<1>8. []HarvestInv /\ [](setup = "good") /\ <>[]~breaker /\ ~<>[]Waiting => (over ~> ~over)
  BY <1>3, PTL
<1>9. HarvestSpec /\ HarvestEnabling
      => /\ HarvestInit /\ [][HarvestNext]_harvestVars
         /\ TransactionsMined /\ ChecksGoOn
  BY FairnessServes DEF HarvestSpec
<1> QED
  BY <1>1, <1>6, <1>7, <1>8, <1>9, PTL DEF EpochHarvested
----------------------------------------------------------------------------
(* A job whose key cannot be parsed pages. Every check of it ends in the     *)
(* catch, and nothing but a restart takes a failure back.                    *)

\* Fairness, with the condition for a step in the place of ENABLED.
FailuresServed ==
  /\ []<>~(stage = "idle") \/ []<><<Start>>_harvestVars
  /\ []<>~(stage = "init" /\ setup = "badKey") \/ []<><<InitThrows>>_harvestVars

\* That they are such conditions.
FailuresEnabling ==
  /\ [](stage = "idle" => ENABLED <<Start>>_harvestVars)
  /\ [](stage = "init" /\ setup = "badKey" => ENABLED <<InitThrows>>_harvestVars)

\* Then the fairness of HarvestSpec says as much.
LEMMA FairnessServesFailures == Fairness /\ FailuresEnabling => FailuresServed
  BY PTL DEF Fairness, FailuresEnabling, FailuresServed

\* No check gets past _init, and three failures have paged.
Broken ==
  /\ HarvestTypeOK
  /\ setup = "badKey"
  /\ stage \in {"idle", "init"}
  /\ consecutiveFailures = 3 => paged

\* A step of a broken job keeps it so, and but for a restart it does not take a
\* failure back; a check that has begun is there until it throws.
LEMMA BrokenStep ==
  ASSUME MaxConsecutiveFailures = 3, Broken, [HarvestNext]_harvestVars
  PROVE  /\ Broken'
         /\ [~CronRestart]_harvestVars =>
              /\ \/ consecutiveFailures' = consecutiveFailures
                 \/ consecutiveFailures' = consecutiveFailures + 1
              /\ stage = "init" => stage' = "init" \/ InitThrows
<1> USE DEF Broken, HarvestTypeOK
<1>1. HarvestTypeOK'
  BY HarvestStepTyped
<1>2. CASE Start
  BY <1>1, <1>2 DEF Start, router
<1>3. CASE InitThrows
  <2>1. /\ \/ consecutiveFailures' = consecutiveFailures + 1
           \/ consecutiveFailures' = consecutiveFailures
        /\ consecutiveFailures' = 3 => consecutiveFailures + 1 >= MaxConsecutiveFailures
        /\ stage' = "idle"
    BY <1>3 DEF InitThrows
  <2>2. setup' = "badKey" /\ (consecutiveFailures + 1 >= MaxConsecutiveFailures => paged')
    BY <1>3, ZenonT(20) DEF InitThrows
  <2> QED
    BY <1>1, <1>3, <2>1, <2>2
<1>4. CASE CronRestart
  <2>1. boot' # boot /\ stage' = "idle" /\ consecutiveFailures' # 3
    BY <1>4 DEF CronRestart
  <2>2. setup' = "badKey"
    BY <1>4 DEF CronRestart
  <2>3. ~UNCHANGED harvestVars
    BY <2>1 DEF harvestVars
  <2> QED
    BY <1>1, <1>4, <2>1, <2>2, <2>3
<1>5. CASE Check \/ Fail
  BY <1>5 DEF Check, InitDone, NoOperator, EpochRunning, EpochOver, BreakerActive, BreakerOff, Send,
     Confirmed, Record, Fail
<1>6. CASE Mine \/ MineStray \/ EpochEnds \/ FlipBreaker
  BY <1>1, <1>6 DEF Mine, MineStray, EpochEnds, FlipBreaker, cron
<1>7. CASE UNCHANGED harvestVars
  BY <1>1, <1>7 DEF harvestVars
<1> QED
  BY <1>2, <1>3, <1>4, <1>5, <1>6, <1>7 DEF HarvestNext

\* "3 consecutive failures -> page on-call", of a key that cannot be parsed,
\* if the process is not started again and again. The threshold is
\* that of the code: the count up to an arbitrary one is an induction over
\* temporal formulas.
THEOREM BrokenPages ==
  ASSUME MaxConsecutiveFailures = 3
  PROVE  HarvestSpec /\ FailuresEnabling => PagedWhenBroken
<1>1. HarvestInit /\ setup = "badKey" => Broken
  <2>1. HarvestInit => stage \in {"idle", "init"} /\ consecutiveFailures # 3
    BY DEF HarvestInit
  <2> QED
    BY <2>1, HarvestInitTyped DEF Broken
<1>2. Broken /\ [HarvestNext]_harvestVars => Broken'
  BY BrokenStep
<1>3. Broken => /\ stage = "idle" \/ (stage = "init" /\ setup = "badKey")
                /\ \/ consecutiveFailures = 0 \/ consecutiveFailures = 1
                   \/ consecutiveFailures = 2 \/ consecutiveFailures = 3
                /\ consecutiveFailures = 3 => paged
  BY DEF Broken, HarvestTypeOK
<1>4. Broken /\ [HarvestNext]_harvestVars /\ [~CronRestart]_harvestVars
      => /\ consecutiveFailures = 0
              => (consecutiveFailures = 0)' \/ (consecutiveFailures = 1)'
         /\ consecutiveFailures = 1
              => (consecutiveFailures = 1)' \/ (consecutiveFailures = 2)'
         /\ consecutiveFailures = 2
              => (consecutiveFailures = 2)' \/ (consecutiveFailures = 3)'
  BY BrokenStep
<1>5. <<InitThrows>>_harvestVars
      => /\ consecutiveFailures = 0 => (consecutiveFailures = 1)'
         /\ consecutiveFailures = 1 => (consecutiveFailures = 2)'
         /\ consecutiveFailures = 2 => (consecutiveFailures = 3)'
  BY DEF InitThrows
<1>6. <<Start>>_harvestVars => (stage = "init")'
  BY DEF Start
<1>7. Broken /\ [HarvestNext]_harvestVars /\ [~CronRestart]_harvestVars /\ stage = "init"
      => (stage = "init")' \/ <<InitThrows>>_harvestVars
  <2> SUFFICES ASSUME Broken, [HarvestNext]_harvestVars, [~CronRestart]_harvestVars,
                      stage = "init", stage' # "init"
               PROVE  <<InitThrows>>_harvestVars
    OBVIOUS
  <2> QED
    BY BrokenStep DEF harvestVars
<1>8. stage = "init" => ~(stage = "idle")
  OBVIOUS
<1>9. HarvestSpec /\ FailuresEnabling
      => HarvestInit /\ [][HarvestNext]_harvestVars /\ FailuresServed
  BY FairnessServesFailures DEF HarvestSpec
<1> QED
  BY <1>1, <1>2, <1>3, <1>4, <1>5, <1>6, <1>7, <1>8, <1>9, PTL
  DEF FailuresServed, PagedWhenBroken
=============================================================================
