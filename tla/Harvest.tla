------------------------------- MODULE Harvest -------------------------------
(***************************************************************************)
(* The harvest cron: every five minutes runHarvestCheck asks the yield     *)
(* engine to call StrategyRouter.harvest() if the 15-minute epoch is over. *)
(*                                                                         *)
(* A check awaits the epoch's state, the circuit breaker, the send and the *)
(* receipt of the transaction, one action each. The router is external:    *)
(* harvest() succeeds when the epoch is over and the breaker off, starts   *)
(* the next epoch, and reverts otherwise.                                  *)
(*                                                                         *)
(* Abstracted: yields, APYs, epoch numbers (an epoch is running or over),  *)
(* and the metric and Slack calls, which never throw.                      *)
(***************************************************************************)
EXTENDS Integers

CONSTANTS
    MaxConsecutiveFailures, \* MAX_CONSECUTIVE_FAILURES, 3
    MaxStrays               \* bound: harvest transactions no check waits for

ASSUME HarvestAssumption ==
    /\ MaxConsecutiveFailures \in Nat \ {0}
    /\ MaxStrays \in Nat

VARIABLES
    over,       \* router: now >= epochStartTime + epochDuration
    breaker,    \* router: isCircuitBreakerActive()
    strays,     \* pending harvest transactions nobody waits for any more
    tx,         \* the transaction of the check in progress
    setup,      \* what the environment gives the yield engine
    isRunning, consecutiveFailures,    \* memory of the cron process
    stage,      \* what the check in progress awaits
    paged,      \* alertPagerDuty was called
    boot        \* flips when the process is started again

harvestVars == <<over, breaker, strays, tx, setup, isRunning,
          consecutiveFailures, stage, paged, boot>>
router == <<over, breaker>>
cron == <<isRunning, consecutiveFailures, stage, paged, boot>>

\* Between two checks; _init; getEpochState; isCircuitBreakerActive; the send,
\* with its gas estimate; tx.wait(1); the record and the event of a harvest.
Stages == {"idle", "init", "epoch", "breaker", "send", "wait", "record"}

\* noOperator: no RPC URL, no router address or no key is set; badKey: all are, but
\* the key cannot be parsed; badAddress: no router answers at the address, or it
\* cannot be parsed.
Setups == {"good", "noOperator", "badKey", "badAddress"}

\* Types, and what the values have to do with each other.
HarvestTypeOK ==
    /\ over \in BOOLEAN /\ breaker \in BOOLEAN /\ setup \in Setups
    /\ strays \in 0..MaxStrays
    /\ tx \in {"none", "pending", "success", "reverted"}
    /\ isRunning \in BOOLEAN
    /\ consecutiveFailures \in 0..MaxConsecutiveFailures
    /\ stage \in Stages
    /\ paged \in BOOLEAN
    /\ boot \in {0, 1}
    /\ isRunning <=> stage # "idle"
    /\ tx # "none" => stage \in {"wait", "record"}

HarvestInit ==
    /\ over = FALSE
    /\ breaker \in BOOLEAN
    /\ strays = 0
    /\ tx = "none"
    /\ setup \in Setups
    /\ isRunning = FALSE
    /\ consecutiveFailures = 0
    /\ stage = "idle"
    /\ paged = FALSE
    /\ boot = 0

----------------------------------------------------------------------------
Await(s) ==
    /\ stage' = s
    /\ UNCHANGED <<router, strays, tx, setup, isRunning,
                   consecutiveFailures, paged, boot>>

\* The startup check and every tick of the schedule; a tick that finds
\* isRunning set returns at once.
Start ==
    /\ ~isRunning
    /\ isRunning' = TRUE
    /\ stage' = "init"
    /\ UNCHANGED <<router, strays, tx, setup, consecutiveFailures, paged, boot>>

\* (Operators named Bug... are not used by the specification: each is a
\* plausible mistake in the definition after it, listed in PROJECT.json.)

\* The early return of a skipped check comes before the try.
BugEnd(harvested) ==
    /\ stage' = "idle"
    /\ tx' = "none"
    /\ isRunning' = ~harvested
    /\ consecutiveFailures' = 0
    /\ UNCHANGED <<router, setup, paged, boot>>

\* triggerHarvestCheck returned: with or without a harvest, the failures are
\* reset, and finally clears isRunning.
End(harvested) ==
    /\ stage' = "idle"
    /\ tx' = "none"
    /\ isRunning' = FALSE
    /\ consecutiveFailures' = 0
    /\ UNCHANGED <<router, setup, paged, boot>>

Skip == End(FALSE) /\ UNCHANGED strays

\* finally resets the failures.
BugInitThrows ==
    /\ stage = "init"
    /\ setup = "badKey"
    /\ stage' = "idle"
    /\ isRunning' = FALSE
    /\ consecutiveFailures' = 0
    /\ paged' = (paged \/ consecutiveFailures + 1 >= MaxConsecutiveFailures)
    /\ UNCHANGED <<router, strays, tx, setup, boot>>

\* _init is outside the try of triggerHarvestCheck: only this failure reaches
\* the catch of runHarvestCheck, when new Wallet throws. (The count is capped at its threshold.)
InitThrows ==
    /\ stage = "init"
    /\ setup = "badKey"
    /\ stage' = "idle"
    /\ isRunning' = FALSE
    /\ consecutiveFailures' = IF consecutiveFailures < MaxConsecutiveFailures
                              THEN consecutiveFailures + 1
                              ELSE consecutiveFailures
    /\ paged' = (paged \/ consecutiveFailures + 1 >= MaxConsecutiveFailures)
    /\ UNCHANGED <<router, strays, tx, setup, boot>>

\* A Contract is built whatever the address.
InitDone == stage = "init" /\ setup \in {"good", "badAddress"} /\ Await("epoch")

\* _init made no wallet: 'Operator wallet not setup', a skipped check.
NoOperator == stage = "init" /\ setup = "noOperator" /\ Skip

\* getEpochState is answered, by a router at the address.
EpochRunning == stage = "epoch" /\ setup = "good" /\ ~over /\ Skip

EpochOver == stage = "epoch" /\ setup = "good" /\ over /\ Await("breaker")

BreakerActive == stage = "breaker" /\ breaker /\ Skip

BreakerOff == stage = "breaker" /\ ~breaker /\ Await("send")

\* The gas estimate of harvest() succeeds, and the transaction is sent.
Send ==
    /\ stage = "send"
    /\ over /\ ~breaker
    /\ tx' = "pending"
    /\ stage' = "wait"
    /\ UNCHANGED <<router, strays, setup, isRunning, consecutiveFailures,
                   paged, boot>>

\* The catch of triggerHarvestCheck: an RPC error, a bad address, a gas estimate that
\* reverts, a reverted receipt or a wait given up, whose transaction stays
\* pending. It is answered as 'not harvested'.
Fail ==
    /\ stage \in {"epoch", "breaker", "send", "wait"}
    /\ IF tx = "pending"
       THEN strays < MaxStrays /\ strays' = strays + 1
       ELSE UNCHANGED strays
    /\ End(FALSE)

Confirmed == stage = "wait" /\ tx = "success" /\ Await("record")

\* The audit row is best effort; an event that cannot be published makes the
\* mined harvest a failed one.
Record ==
    /\ stage = "record"
    /\ \E published \in BOOLEAN: End(published)
    /\ UNCHANGED strays

----------------------------------------------------------------------------
\* harvest() in a block (external).
Harvested(outcome) ==
    IF over /\ ~breaker THEN outcome = "success" /\ over' = FALSE
                        ELSE outcome = "reverted" /\ UNCHANGED over

Mine ==
    /\ tx = "pending"
    /\ \E outcome \in {"success", "reverted"}: Harvested(outcome) /\ tx' = outcome
    /\ UNCHANGED <<breaker, strays, setup, cron>>

MineStray ==
    /\ strays > 0
    /\ strays' = strays - 1
    /\ \E outcome \in {"success", "reverted"}: Harvested(outcome)
    /\ UNCHANGED <<breaker, tx, setup, cron>>

EpochEnds ==
    /\ ~over
    /\ over' = TRUE
    /\ UNCHANGED <<breaker, strays, tx, setup, cron>>

FlipBreaker ==
    /\ breaker' = ~breaker
    /\ UNCHANGED <<over, strays, tx, setup, cron>>

\* The process stops and is started again: its counters are gone, and a
\* transaction it waited for is still pending.
CronRestart ==
    /\ isRunning
    /\ IF tx = "pending"
       THEN strays < MaxStrays /\ strays' = strays + 1
       ELSE UNCHANGED strays
    /\ tx' = "none"
    /\ isRunning' = FALSE
    /\ consecutiveFailures' = 0
    /\ stage' = "idle"
    /\ boot' = 1 - boot
    /\ UNCHANGED <<router, setup, paged>>

\* What a check does when no call of it fails.
Check ==
    \/ InitDone
    \/ NoOperator
    \/ EpochRunning
    \/ EpochOver
    \/ BreakerActive
    \/ BreakerOff
    \/ Send
    \/ Confirmed
    \/ Record

HarvestNext ==
    \/ Start
    \/ Check
    \/ InitThrows
    \/ Fail
    \/ Mine
    \/ MineStray
    \/ EpochEnds
    \/ FlipBreaker
    \/ CronRestart

\* The schedule ticks, a check goes on or fails, transactions are mined. Each
\* call of the node that keeps being made succeeds in the end.
Fairness ==
    /\ WF_harvestVars(Start)
    /\ WF_harvestVars(InitThrows)
    /\ WF_harvestVars(Mine) /\ WF_harvestVars(MineStray)
    /\ SF_harvestVars(InitDone)
    /\ SF_harvestVars(EpochOver)
    /\ SF_harvestVars(BreakerOff)
    /\ SF_harvestVars(Send)
    /\ WF_harvestVars(Check \/ Fail)

HarvestSpec == HarvestInit /\ [][HarvestNext]_harvestVars /\ Fairness

----------------------------------------------------------------------------
\* "Without this service running ... user balances stay flat": once the
\* breaker stays off, every epoch that is over is harvested, although checks
\* fail or are skipped, receipts are given up, the process restarts and
\* transactions it no longer knows compete with its own. A check that never
\* cleared isRunning would end the harvests for good.
EpochHarvested ==
    (setup = "good" /\ <>[]~breaker) => (over ~> ~over)

\* "3 consecutive failures -> page on-call", where a failure reaches the
\* counter: a key that cannot be parsed, unless the process keeps being
\* restarted before the third check. (No other set-up pages: a job without a
\* wallet, or with a wrong router address, skips its checks for ever.)
PagedWhenBroken ==
    (setup = "badKey" /\ <>[][~CronRestart]_harvestVars) => <>paged
=============================================================================
