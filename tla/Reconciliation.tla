--------------------------- MODULE Reconciliation ---------------------------
(***************************************************************************)
(* The vault's assets, the gateway that books its deposits, and the hourly *)
(* ReconciliationService.reconcile that compares the two.                  *)
(*                                                                         *)
(* TreasuryService listens to DepositProcessed and posts a DEPOSIT entry.  *)
(* Nothing books a withdrawal, and reconcile does not count YIELD entries, *)
(* so both are drift. The service is a process of its own; its runs await  *)
(* the vault and then the ledger, and nothing keeps two of them apart.     *)
(*                                                                         *)
(* Abstracted: accounts and the chain of hashes (Ledger has them), amounts *)
(* (a deposit and a withdrawal are of one size, a yield of another), the   *)
(* texts of reports and alerts. fund_reservations is left out: no code     *)
(* inserts a row, so the sums, stuck reservations and the 15-minute expiry *)
(* over it are empty.                                                      *)
(***************************************************************************)
EXTENDS Integers

CONSTANTS
    Deposits,               \* deposits to the vault
    Runs,                   \* runs of reconcile that can overlap
    DepositAmount, YieldAmount,
    AlertThreshold,         \* ALERT_THRESHOLD, $0.01
    SuspensionThreshold,    \* SUSPENSION_THRESHOLD, $10.00
    MaxWithdrawals, MaxYields,  \* bounds: withdrawals, YieldAccrued
    NoReport                \* the run has not reported yet

ASSUME AmountsAssumption ==
    /\ {DepositAmount, YieldAmount} \subseteq Nat \ {0}
    /\ {AlertThreshold, SuspensionThreshold, MaxWithdrawals, MaxYields} \subseteq Nat
    /\ AlertThreshold < SuspensionThreshold

VARIABLES
    deposit,    \* per deposit: what has become of it
    totalAssets,\* GenesisVault.totalAssets()
    withdrawn, accrued, \* withdrawals and yields so far (for their bounds)
    deposited,  \* ledger_entries: the sum of the DEPOSIT entries
    up,         \* the gateway runs
    run,        \* per run: where it stands and its local variables
    report      \* per run: its last report

reconciliationVars ==
    <<deposit, totalAssets, withdrawn, accrued, deposited, up, run, report>>
vault == <<totalAssets, withdrawn, accrued>>

\* Not made; mined, and its log on the way to the listener or the posting in
\* flight; booked as an entry; never to be booked.
Fates == {"none", "logged", "booked", "lost"}

Statuses == {"MATCHED", "ALERT", "SUSPENDED"}

Reports == [status: Statuses, onChain: Nat, drift: Nat, undisturbed: BOOLEAN]

ASSUME NoReportAssumption == NoReport \notin Reports

\* total_credits - total_debits: no code posts a WITHDRAWAL, and the postings
\* of finalizeOrder, SETTLEMENT and FEE, are not reached (see the README).
LedgerTotal == deposited

Booked == {d \in Deposits: deposit[d] = "booked"}

\* (Operators named Bug... are not used by the specification: each is a
\* plausible mistake in the definition after it, listed in PROJECT.json.)

\* No absolute value.
BugDistance(a, b) == a - b

\* |a - b|
Distance(a, b) == IF a > b THEN a - b ELSE b - a

Drift == Distance(totalAssets, LedgerTotal)

ReconciliationTypeOK ==
    /\ deposit \in [Deposits -> Fates]
    /\ {totalAssets, deposited} \subseteq Nat
    /\ withdrawn \in 0..MaxWithdrawals
    /\ accrued \in 0..MaxYields
    /\ up \in BOOLEAN
    /\ run \in [Runs -> [stage: {"idle", "chain", "ledger"}, onChain: Nat,
                         drift: Nat, booked: SUBSET Deposits]]
    /\ report \in [Runs -> Reports \cup {NoReport}]

\* A run between two hours. drift and booked are not variables of the code:
\* they keep, for the properties, what was so when the vault was read.
Idle == [stage |-> "idle", onChain |-> 0, drift |-> 0, booked |-> {}]

ReconciliationInit ==
    /\ deposit = [d \in Deposits |-> "none"]
    /\ totalAssets = 0
    /\ withdrawn = 0
    /\ accrued = 0
    /\ deposited = 0
    /\ up = TRUE
    /\ run = [r \in Runs |-> Idle]
    /\ report = [r \in Runs |-> NoReport]

----------------------------------------------------------------------------
(* The vault and the gateway.                                               *)

\* DepositProcessed is emitted. The listener is called for logs of blocks
\* mined while the gateway runs; nothing looks for older ones.
MineDeposit(d) ==
    /\ deposit[d] = "none"
    /\ deposit' = [deposit EXCEPT ![d] = IF up THEN "logged" ELSE "lost"]
    /\ totalAssets' = totalAssets + DepositAmount
    /\ UNCHANGED <<withdrawn, accrued, deposited, up, run, report>>

Withdraw ==
    /\ withdrawn < MaxWithdrawals
    /\ totalAssets >= DepositAmount
    /\ withdrawn' = withdrawn + 1
    /\ totalAssets' = totalAssets - DepositAmount
    /\ UNCHANGED <<deposit, accrued, deposited, up, run, report>>

\* YieldAccrued; the listener's YIELD entry is not in any sum of reconcile.
Accrue ==
    /\ accrued < MaxYields
    /\ accrued' = accrued + 1
    /\ totalAssets' = totalAssets + YieldAmount
    /\ UNCHANGED <<deposit, withdrawn, deposited, up, run, report>>

\* The DepositProcessed listener posts the entry.
Book(d) ==
    /\ deposit[d] = "logged"
    /\ deposit' = [deposit EXCEPT ![d] = "booked"]
    /\ deposited' = deposited + DepositAmount
    /\ UNCHANGED <<vault, up, run, report>>

Die ==
    /\ up
    /\ up' = FALSE
    /\ deposit' = [d \in Deposits |->
                     IF deposit[d] = "logged" THEN "lost" ELSE deposit[d]]
    /\ UNCHANGED <<vault, deposited, run, report>>

\* postEntry rejects: the listener has no catch, and the unhandled rejection
\* ends the process, with every other posting in flight.
BookFails(d) == deposit[d] = "logged" /\ Die

GatewayCrash == Die

\* The constructor binds the listeners again, for new blocks. (With an ABI that
\* lacks the event it skips them, and every deposit is lost.)
GatewayRestart ==
    /\ ~up
    /\ up' = TRUE
    /\ UNCHANGED <<deposit, vault, deposited, run, report>>

----------------------------------------------------------------------------
(* ReconciliationService.                                                   *)

\* The hourly tick.
StartRun(r) ==
    /\ run[r].stage = "idle"
    /\ run' = [run EXCEPT ![r].stage = "chain"]
    /\ report' = [report EXCEPT ![r] = NoReport]
    /\ UNCHANGED <<deposit, vault, deposited, up>>

\* What a run keeps of the vault.
Seen(total) == [stage |-> "ledger", onChain |-> total,
                drift |-> Drift, booked |-> Booked]

ReadChain(r) ==
    /\ run[r].stage = "chain"
    /\ run' = [run EXCEPT ![r] = Seen(totalAssets)]
    /\ UNCHANGED <<deposit, vault, deposited, up, report>>

\* The call throws: onChainTotal stays 0n.
ReadChainFails(r) ==
    /\ run[r].stage = "chain"
    /\ run' = [run EXCEPT ![r] = Seen(0)]
    /\ UNCHANGED <<deposit, vault, deposited, up, report>>

\* onChainTotal ?? ledgerTotal: zero is taken for an answer.
BugEffectiveOnChain(onChain) == onChain

\* onChainTotal || ledgerTotal
EffectiveOnChain(onChain) == IF onChain # 0 THEN onChain ELSE LedgerTotal

\* The other branch of the conditional is 0n: only a surplus is a delta.
BugDelta(onChain) ==
    IF EffectiveOnChain(onChain) > LedgerTotal
    THEN EffectiveOnChain(onChain) - LedgerTotal ELSE 0

Delta(onChain) == Distance(EffectiveOnChain(onChain), LedgerTotal)

Status(delta) ==
    IF delta <= AlertThreshold THEN "MATCHED"
    ELSE IF delta >= SuspensionThreshold THEN "SUSPENDED"
    ELSE "ALERT"

\* The sums over ledger_entries answer; the status, the report and the alerts
\* follow from them. A suspension is a row of audit_log that nothing reads.
Report(r) ==
    /\ run[r].stage = "ledger"
    /\ report' = [report EXCEPT ![r] =
                    [status |-> Status(Delta(run[r].onChain)),
                     onChain |-> run[r].onChain,
                     drift |-> run[r].drift,
                     undisturbed |-> Booked = run[r].booked]]
    /\ run' = [run EXCEPT ![r] = Idle]
    /\ UNCHANGED <<deposit, vault, deposited, up>>

\* A query rejects, or the process restarts: no report until the next hour.
RunFails(r) ==
    /\ run[r].stage # "idle"
    /\ run' = [run EXCEPT ![r] = Idle]
    /\ UNCHANGED <<deposit, vault, deposited, up, report>>

Reconcile(r) ==
    \/ StartRun(r)
    \/ ReadChain(r)
    \/ ReadChainFails(r)
    \/ Report(r)
    \/ RunFails(r)

ReconciliationNext ==
    \/ \E d \in Deposits: MineDeposit(d) \/ Book(d) \/ BookFails(d)
    \/ Withdraw
    \/ Accrue
    \/ GatewayCrash
    \/ GatewayRestart
    \/ \E r \in Runs: Reconcile(r)

\* The cron ticks every hour and every await resolves; now and then the node
\* answers, and now and then the database answers a run the node has answered.
RunFairness(r) ==
    /\ WF_reconciliationVars(Reconcile(r))
    /\ SF_reconciliationVars(ReadChain(r))
    /\ SF_reconciliationVars(run[r].onChain # 0 /\ Report(r))

ReconciliationSpec ==
    /\ ReconciliationInit
    /\ [][ReconciliationNext]_reconciliationVars
    /\ \A r \in Runs: RunFairness(r)

----------------------------------------------------------------------------
\* "Any discrepancy > $0.01 USDC triggers" (file header): unless a posting
\* lands between its two reads, a run that has read the vault is not MATCHED
\* when vault and ledger had drifted apart, and is SUSPENDED from $10 on. And
\* no run raises a false alarm, one that could not read the vault included.
ReportFaithful ==
    \A r \in Runs:
        report[r] # NoReport /\ report[r].undisturbed =>
            /\ report[r].status # "MATCHED" => report[r].drift > AlertThreshold
            /\ report[r].onChain # 0 =>
                 /\ report[r].drift > AlertThreshold => report[r].status # "MATCHED"
                 /\ report[r].status = "SUSPENDED" <=> report[r].drift >= SuspensionThreshold

\* A deposit that is never booked (the gateway was down, or died with the
\* posting), a withdrawal and a large yield are found: while vault and ledger
\* stay apart and the vault is not empty, alerts keep coming, whatever single
\* runs fail, read nothing or overlap. (Of an empty vault reconcile takes the
\* answer zero for no answer, so no run ever alerts.)
DriftedApart == Drift > AlertThreshold /\ totalAssets # 0

Alerted == \E r \in Runs: report[r] # NoReport /\ report[r].status # "MATCHED"

DriftReported == <>[]DriftedApart => []<>Alerted
=============================================================================
