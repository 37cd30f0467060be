----------------------------- MODULE CctpClient -----------------------------
(***************************************************************************)
(* The browser's side of the CCTP on-ramp: the hook useCCTPTransfer behind *)
(* the CCTPDeposit form, with the source chain, Arbitrum and the server    *)
(* that it talks to.                                                       *)
(*                                                                         *)
(* A call of burn() awaits the wallet, the receipt and the POST; then a    *)
(* timer polls the transfer's status. Calls and polls go on when the user  *)
(* has left the form (React drops what they set then) and end only with    *)
(* the page. The server is its abstract specification, CctpLifecycle, with *)
(* one transfer per burn, which CctpTransfer implements.                   *)
(*                                                                         *)
(* Abstracted: amounts, addresses and hashes; the wallet switch, balance   *)
(* and allowance calls are one step that succeeds or throws.               *)
(***************************************************************************)
EXTENDS Integers

CONSTANTS
    Burns,      \* calls of burn(), each sends one burn transaction at most
    NoBurn,     \* nothing transferred on this form yet
    MaxPolls,   \* POLL_MAX_ATTEMPTS, 60
    MaxVisits   \* bound: how often the form is left

ASSUME ClientAssumption ==
    /\ NoBurn \notin Burns
    /\ MaxPolls \in Nat \ {0}
    /\ MaxVisits \in Nat

VARIABLES
    status,     \* server: the status of the burn's transfer, "none" before it
    received,   \* Arbitrum: burns whose message has minted USDC
    burnTx,     \* source chain: the burn transaction of a call
    visit,      \* which mount of the form is on the screen
    phase,      \* its phase
    shown,      \* the burn() call it is about, a history variable
    calls       \* per burn(): its visit, what it awaits, and its poll

vars == <<status, received, burnTx, visit, phase, shown, calls>>
server == <<status, received>>

Server == INSTANCE CctpLifecycle WITH
    Transfers <- Burns, burn <- [b \in Burns |-> b]

Phases == {"idle", "approving", "burning", "relaying", "minted",
           "vault_deposited", "failed"}

\* Awaiting: the approval, the wallet, the receipt, the POST.
Awaits == {"new", "approval", "wallet", "receipt", "post", "done", "gone"}

\* The poll: a timer is set, a GET is out, its answer is here.
Polls == {"none", "timer", "get", "answer", "over"}

Calls == [visit: 0..MaxVisits, awaits: Awaits, posted: BOOLEAN, poll: Polls,
          attempts: 0..MaxPolls + 1, seen: Server!Statuses]

TypeOK ==
    /\ status \in [Burns -> Server!Statuses]
    /\ received \subseteq Burns
    /\ burnTx \in [Burns -> {"none", "pending", "mined", "reverted"}]
    /\ visit \in 0..MaxVisits
    /\ phase \in Phases
    /\ shown \in Burns \cup {NoBurn}
    /\ calls \in [Burns -> Calls]

Init ==
    /\ status = [b \in Burns |-> "none"]
    /\ received = {}
    /\ burnTx = [b \in Burns |-> "none"]
    /\ visit = 0
    /\ phase = "idle"
    /\ shown = NoBurn
    /\ calls = [b \in Burns |-> [visit |-> 0, awaits |-> "new", posted |-> FALSE,
                                 poll |-> "none", attempts |-> 0, seen |-> "none"]]

----------------------------------------------------------------------------
\* setPhase of the mount that the call belongs to: no effect once it is gone.
SetPhase(b, p) == phase' = IF calls[b].visit = visit THEN p ELSE phase

Goto(b, awaits) == calls' = [calls EXCEPT ![b] = [@ EXCEPT !.awaits = awaits]]

\* CCTPDeposit shows its form, with the Transfer button, in these phases only: an
\* effect of minted has the success screen there before the next click.
FormShown == phase \in {"idle", "vault_deposited"}

Transfer(b) ==
    /\ FormShown
    /\ calls[b].awaits = "new"
    /\ phase' = "approving"
    /\ shown' = b
    /\ calls' = [calls EXCEPT ![b] = [@ EXCEPT !.visit = visit, !.awaits = "approval"]]
    /\ UNCHANGED <<server, burnTx, visit>>

\* Balance enough, allowance set.
Approve(b) ==
    /\ calls[b].awaits = "approval"
    /\ SetPhase(b, "burning")
    /\ Goto(b, "wallet")
    /\ UNCHANGED <<server, burnTx, visit, shown>>

\* The user signs depositForBurn and the wallet broadcasts it.
Broadcast(b) ==
    /\ calls[b].awaits = "wallet"
    /\ burnTx' = [burnTx EXCEPT ![b] = "pending"]
    /\ Goto(b, "receipt")
    /\ UNCHANGED <<server, visit, phase, shown>>

\* A receipt, of a reverted burn too, then the POST is sent.
Confirm(b) ==
    /\ calls[b].awaits = "receipt"
    /\ burnTx[b] \in {"mined", "reverted"}
    /\ SetPhase(b, "relaying")
    /\ calls' = [calls EXCEPT ![b] = [@ EXCEPT !.awaits = "post", !.posted = TRUE]]
    /\ UNCHANGED <<server, burnTx, visit, shown>>

\* The POST answers with the transfer's id: the first poll is 4 s away.
Answered(b) ==
    /\ calls[b].awaits = "post"
    /\ status[b] \notin {"none", "burn_pending"}
    /\ calls' = [calls EXCEPT ![b] = [@ EXCEPT !.awaits = "done", !.poll = "timer"]]
    /\ UNCHANGED <<server, burnTx, visit, phase, shown>>

\* It answers in JSON without an id: 'DB unavailable - relay queued', or an
\* error. The phase stays relaying and nothing polls.
AnsweredNoId(b) ==
    /\ calls[b].awaits = "post"
    /\ Goto(b, "done")
    /\ UNCHANGED <<server, burnTx, visit, phase, shown>>

\* Any await throws: the wallet, a rejected signature, no receipt in time for
\* a burn that may be mined all the same, or the POST, whatever the server did.
Throw(b) ==
    /\ calls[b].awaits \in {"approval", "wallet", "receipt", "post"}
    /\ SetPhase(b, "failed")
    /\ Goto(b, "done")
    /\ UNCHANGED <<server, burnTx, visit, shown>>

----------------------------------------------------------------------------
\* What comes after a GET; the answer is not kept.
SetPoll(b, poll) ==
    calls' = [calls EXCEPT ![b] = [@ EXCEPT !.poll = poll, !.seen = "none"]]

\* tick(): attempts++ against the maximum, then the GET.
Tick(b) ==
    /\ calls[b].poll = "timer"
    /\ calls[b].attempts < MaxPolls
    /\ calls' = [calls EXCEPT ![b] =
                   [@ EXCEPT !.poll = "get", !.attempts = calls[b].attempts + 1]]
    /\ UNCHANGED <<server, burnTx, visit, phase, shown>>

\* (Operators named Bug... are not used by the specification: each is a
\* plausible mistake in the definition after it, listed in PROJECT.json.)

\* The return after 'timed out' is missing: the tick goes on to its GET.
BugTimeOut(b) ==
    /\ calls[b].poll = "timer"
    /\ calls[b].attempts >= MaxPolls
    /\ SetPhase(b, "failed")
    /\ calls' = [calls EXCEPT ![b] =
                   [@ EXCEPT !.poll = "get", !.attempts = calls[b].attempts + 1]]
    /\ UNCHANGED <<server, burnTx, visit, shown>>

\* 'Transfer timed out waiting for attestation.'
TimeOut(b) ==
    /\ calls[b].poll = "timer"
    /\ calls[b].attempts >= MaxPolls
    /\ SetPhase(b, "failed")
    /\ calls' = [calls EXCEPT ![b] =
                   [@ EXCEPT !.poll = "over", !.attempts = calls[b].attempts + 1]]
    /\ UNCHANGED <<server, burnTx, visit, shown>>

\* The server reads the row; its answer travels back.
Get(b) ==
    /\ calls[b].poll = "get"
    /\ calls' = [calls EXCEPT ![b] = [@ EXCEPT !.poll = "answer", !.seen = status[b]]]
    /\ UNCHANGED <<server, burnTx, visit, phase, shown>>

\* A retry after an error starts the count again.
BugGetFails(b) ==
    /\ calls[b].poll \in {"get", "answer"}
    /\ calls' = [calls EXCEPT ![b] = [@ EXCEPT !.poll = "timer", !.attempts = 0,
                                             !.seen = "none"]]
    /\ UNCHANGED <<server, burnTx, visit, phase, shown>>

\* A network error or a status that is not OK: the next tick in 4 s.
GetFails(b) ==
    /\ calls[b].poll \in {"get", "answer"}
    /\ SetPoll(b, "timer")
    /\ UNCHANGED <<server, burnTx, visit, phase, shown>>

StillWorking(b) ==
    /\ calls[b].poll = "answer"
    /\ calls[b].seen \notin {"minted", "vault_deposited", "failed"}
    /\ SetPoll(b, "timer")
    /\ UNCHANGED <<server, burnTx, visit, phase, shown>>

\* The two statuses, and failed, are the phases of the same name.
Settled(b) ==
    /\ calls[b].poll = "answer"
    /\ calls[b].seen \in {"minted", "vault_deposited", "failed"}
    /\ SetPhase(b, calls[b].seen)
    /\ SetPoll(b, "over")
    /\ UNCHANGED <<server, burnTx, visit, shown>>

----------------------------------------------------------------------------
\* 'Try Again' is shown while the transfer is relayed, too.
BugTryAgain ==
    /\ phase \in {"failed", "relaying"}
    /\ phase' = "idle"
    /\ UNCHANGED <<server, burnTx, visit, shown, calls>>

\* 'Try Again', shown in phase failed: reset(). The timer that it would clear
\* is not set then.
TryAgain ==
    /\ phase = "failed"
    /\ phase' = "idle"
    /\ UNCHANGED <<server, burnTx, visit, shown, calls>>

\* Another deposit method, or the success screen that follows minted, replaces
\* the form; a new one comes with a new hook.
LeaveForm ==
    /\ visit < MaxVisits
    /\ visit' = visit + 1
    /\ phase' = "idle"
    /\ shown' = NoBurn
    /\ UNCHANGED <<server, burnTx, calls>>

\* The page is closed or reloaded: what it awaited is gone with it.
ClosePage ==
    /\ visit < MaxVisits
    /\ visit' = visit + 1
    /\ phase' = "idle"
    /\ shown' = NoBurn
    /\ calls' = [b \in Burns |->
                   IF calls[b].awaits = "new" THEN calls[b]
                   ELSE [calls[b] EXCEPT !.awaits = "gone", !.seen = "none",
                           !.poll = IF calls[b].poll = "none" THEN "none" ELSE "over"]]
    /\ UNCHANGED <<server, burnTx>>

----------------------------------------------------------------------------
\* The source chain (external).
Mine(b) ==
    /\ burnTx[b] = "pending"
    /\ \E outcome \in {"mined", "reverted"}: burnTx' = [burnTx EXCEPT ![b] = outcome]
    /\ UNCHANGED <<server, visit, phase, shown, calls>>

\* Arbitrum (external): a burn's message is received once, by any relayer.
Receive(b) ==
    /\ burnTx[b] = "mined"
    /\ Server!Receive(b)
    /\ UNCHANGED <<burnTx, visit, phase, shown, calls>>

\* The server creates the transfer for a POST it was sent and takes it on from
\* there, or not: nothing is assumed of it but its specification.
Serve(b) ==
    /\ calls[b].posted
    /\ \E to \in Server!Statuses: Server!Advance(b, to)
    /\ UNCHANGED <<burnTx, visit, phase, shown, calls>>

Poll(b) ==
    \/ Tick(b)
    \/ TimeOut(b)
    \/ Get(b)
    \/ GetFails(b)
    \/ StillWorking(b)
    \/ Settled(b)

Next ==
    \/ \E b \in Burns:
         \/ Transfer(b)
         \/ Approve(b)
         \/ Broadcast(b)
         \/ Confirm(b)
         \/ Answered(b)
         \/ AnsweredNoId(b)
         \/ Throw(b)
         \/ Poll(b)
         \/ Mine(b)
         \/ Receive(b)
         \/ Serve(b)
    \/ TryAgain
    \/ LeaveForm
    \/ ClosePage

\* A timer fires and a GET ends, with an answer or an error. The wallet, the
\* chains, the server and the user owe nothing.
PollFairness(b) == WF_vars(Poll(b))

Spec == Init /\ [][Next]_vars /\ \A b \in Burns: PollFairness(b)

----------------------------------------------------------------------------
\* "USDC on Arbitrum, ready to vault deposit": the form says minted only of
\* the transfer it was last used for, and only when that burn's USDC exists on
\* Arbitrum. No poll of an earlier transfer, given up with Try Again or left
\* behind on another form, reports on a later one.
MintedIsOurs ==
    phase \in {"minted", "vault_deposited"} =>
        /\ shown # NoBurn
        /\ shown \in received
        /\ status[shown] \in {"minted", "vault_deposited"}

\* The steps of the hook's header, with a failure from any of them: whatever
\* calls and polls are still running, the screen never skips a stage, goes
\* back, or leaves a final phase but for a new transfer or Try Again.
PhaseSteps ==
    {<<"idle", "approving">>, <<"approving", "burning">>, <<"burning", "relaying">>,
     <<"relaying", "minted">>, <<"relaying", "vault_deposited">>,
     <<"vault_deposited", "approving">>, <<"failed", "idle">>}
    \cup ({"approving", "burning", "relaying"} \X {"failed"})

FollowsPipeline ==
    [][visit' = visit /\ phase' # phase => <<phase, phase'>> \in PhaseSteps]_vars

\* A transfer whose POST was answered with an id does not stay on the waiting
\* screen: a poll comes to an end whatever the server does, also when it does
\* nothing, or every GET fails.
PollEnds == \A b \in Burns: (calls[b].poll = "timer") ~> (calls[b].poll = "over")
=============================================================================
