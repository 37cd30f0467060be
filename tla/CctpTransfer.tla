---------------------------- MODULE CctpTransfer ----------------------------
(***************************************************************************)
(* The CCTP on-ramp of the web application: the POST and PATCH handlers of *)
(* /api/cctp/transfer, the fire-and-forget relay pipeline a POST starts    *)
(* (executeCCTPOnRamp, pollAttestation, mintOnArbitrum), and the           *)
(* cctp_transfers table they share.                                        *)
(*                                                                         *)
(* A POST creates at most one row, so the row of POST p is named p. The    *)
(* pipeline's database writes and its transaction are single actions: the  *)
(* awaits between them are where a crash, a failure or another request     *)
(* comes in. A network read is part of the write it decides.               *)
(*                                                                         *)
(* Abstracted: message bytes, hashes, blocks, addresses and amounts; Iris  *)
(* answers in time or does not. The database is configured (without        *)
(* DATABASE_URL the route starts nothing).                                 *)
(***************************************************************************)
EXTENDS Integers

CONSTANTS
    Posts,      \* POST requests, each with the burn it reports
    Patches,    \* PATCH requests, each with a transfer and a vault deposit
    Burns,      \* confirmed burn transactions on the source chain
    VaultTxs,   \* vault deposit transactions
    NoRow,      \* no row created
    NoHash      \* a NULL hash column

ASSUME NamesAssumption == NoHash \notin Burns \cup VaultTxs

VARIABLES
    rows,       \* cctp_transfers
    posts,      \* per POST: its burn, and where it or its pipeline stands
    patches,    \* per PATCH: its parameters, where it stands, its reply
    relayTx,    \* the receiveMessage transaction each pipeline sent
    received    \* burns whose message Arbitrum has received

vars == <<rows, posts, patches, relayTx, received>>

\* 'expired' is in the enum; nothing ever sets it.
Statuses == {"burn_pending", "burn_confirmed", "attestation_pending",
             "attestation_ready", "relay_pending", "minted",
             "vault_deposited", "failed"}

Rows == [status: Statuses, burn: Burns \cup {NoHash},
         vault: VaultTxs \cup {NoHash}, retries: 0..1]

ASSUME RowsAssumption == NoRow \notin Rows

\* new, creating, registering: the POST before its answer. extracting to
\* submitted: the pipeline, named by what it does next. done: it returned or
\* recorded its failure; duplicate: its POST lost the race to register the
\* burn; broken: a database error ended it; dead: a crash did.
Stages == {"new", "creating", "registering", "extracting", "polling",
           "attested", "relaying", "submitted", "done", "duplicate", "broken",
           "dead"}

Pipeline == {"extracting", "polling", "attested", "relaying", "submitted"}

InFlight == {"creating", "registering"} \cup Pipeline

PatchStages == {"new", "recording", "done", "dead"}
Replies == {"none", "ok", "conflict", "invalid", "unavailable"}

TypeOK ==
    /\ rows \in [Posts -> Rows \cup {NoRow}]
    /\ posts \in [Posts -> [burn: Burns, stage: Stages]]
    /\ patches \in [Patches -> [transfer: Posts, vault: VaultTxs,
                                stage: PatchStages, reply: Replies]]
    /\ relayTx \in [Posts -> {"none", "pending", "success", "reverted"}]
    /\ received \subseteq Burns

Init ==
    /\ rows = [p \in Posts |-> NoRow]
    /\ posts \in [Posts -> [burn: Burns, stage: {"new"}]]
    /\ patches \in [Patches -> [transfer: Posts, vault: VaultTxs,
                                stage: {"new"}, reply: {"none"}]]
    /\ relayTx = [p \in Posts |-> "none"]
    /\ received = {}

----------------------------------------------------------------------------
\* SELECT * FROM cctp_transfers WHERE burn_tx_hash = $1.
Registered(b) == {p \in Posts: rows[p] # NoRow /\ rows[p].burn = b}

Goto(p, stage) == posts' = [posts EXCEPT ![p].stage = stage]

\* cctpTransferStore.update of the status alone, and what is awaited next.
SetStatus(p, status, stage) ==
    /\ rows' = [rows EXCEPT ![p].status = status]
    /\ Goto(p, stage)

\* The burn is already registered: 200 with the existing transfer.
PostExisting(p) ==
    /\ posts[p].stage = "new"
    /\ Registered(posts[p].burn) # {}
    /\ Goto(p, "done")
    /\ UNCHANGED <<rows, patches, relayTx, received>>

PostLookup(p) ==
    /\ posts[p].stage = "new"
    /\ Registered(posts[p].burn) = {}
    /\ Goto(p, "creating")
    /\ UNCHANGED <<rows, patches, relayTx, received>>

\* INSERT: the row does not have its burn_tx_hash yet.
Create(p) ==
    /\ posts[p].stage = "creating"
    /\ rows' = [rows EXCEPT ![p] = [status |-> "burn_pending", burn |-> NoHash,
                                    vault |-> NoHash, retries |-> 0]]
    /\ Goto(p, "registering")
    /\ UNCHANGED <<patches, relayTx, received>>

\* (Operators named Bug... are not used by the specification: each is a
\* plausible mistake in the definition after it, listed in PROJECT.json.)

\* burn_tx_hash without its UNIQUE constraint.
BugRegister(p) ==
    /\ posts[p].stage = "registering"
    /\ rows' = [rows EXCEPT ![p] = [@ EXCEPT !.status = "burn_confirmed",
                                             !.burn = posts[p].burn]]
    /\ Goto(p, "extracting")
    /\ UNCHANGED <<patches, relayTx, received>>

\* The update that sets burn_tx_hash, then runRelayAsync and 202.
Register(p) ==
    /\ posts[p].stage = "registering"
    /\ Registered(posts[p].burn) = {}
    /\ rows' = [rows EXCEPT ![p] = [@ EXCEPT !.status = "burn_confirmed",
                                             !.burn = posts[p].burn]]
    /\ Goto(p, "extracting")
    /\ UNCHANGED <<patches, relayTx, received>>

\* burn_tx_hash is UNIQUE: a POST that registered it first makes this one a 500.
RegisterConflict(p) ==
    /\ posts[p].stage = "registering"
    /\ Registered(posts[p].burn) # {}
    /\ Goto(p, "duplicate")
    /\ UNCHANGED <<rows, patches, relayTx, received>>

----------------------------------------------------------------------------
\* Step 1 and 2: the message is extracted and persisted.
Extract(p) ==
    /\ posts[p].stage = "extracting"
    /\ SetStatus(p, "attestation_pending", "polling")
    /\ UNCHANGED <<patches, relayTx, received>>

\* Step 3 and 4: Iris has the attestation within 120 s.
Attest(p) ==
    /\ posts[p].stage = "polling"
    /\ SetStatus(p, "attestation_ready", "attested")
    /\ UNCHANGED <<patches, relayTx, received>>

\* The error is logged, not recorded.
BugFailBeforeRelay(p) ==
    /\ posts[p].stage \in {"extracting", "polling"}
    /\ Goto(p, "done")
    /\ UNCHANGED <<rows, patches, relayTx, received>>

\* No message in the receipt, an RPC or Iris error, or 120 s without an answer.
FailBeforeRelay(p) ==
    /\ posts[p].stage \in {"extracting", "polling"}
    /\ SetStatus(p, "failed", "done")
    /\ UNCHANGED <<patches, relayTx, received>>

\* Step 5, inside the try: relay_pending, then the simulation and the send.
QueueRelay(p) ==
    /\ posts[p].stage = "attested"
    /\ SetStatus(p, "relay_pending", "relaying")
    /\ UNCHANGED <<patches, relayTx, received>>

\* The simulation succeeds as long as the message has not been received.
SubmitRelay(p) ==
    /\ posts[p].stage = "relaying"
    /\ posts[p].burn \notin received
    /\ relayTx' = [relayTx EXCEPT ![p] = "pending"]
    /\ Goto(p, "submitted")
    /\ UNCHANGED <<rows, patches, received>>

\* The receipt is awaited without a timeout.
BugFailRelayPatient(p) ==
    /\ \/ posts[p].stage \in {"attested", "relaying"}
       \/ posts[p].stage = "submitted" /\ relayTx[p] = "reverted"
    /\ rows' = [rows EXCEPT ![p] = [@ EXCEPT !.status = "failed",
                                             !.retries = rows[p].retries + 1]]
    /\ Goto(p, "done")
    /\ UNCHANGED <<patches, relayTx, received>>

\* Anything thrown in step 5: the relay_pending update, the simulation, the
\* send, a reverted receipt, or no receipt in time for a transaction that may
\* still be mined, or is.
FailRelay(p) ==
    /\ posts[p].stage \in {"attested", "relaying", "submitted"}
    /\ rows' = [rows EXCEPT ![p] = [@ EXCEPT !.status = "failed",
                                             !.retries = rows[p].retries + 1]]
    /\ Goto(p, "done")
    /\ UNCHANGED <<patches, relayTx, received>>

\* receipt.status is not looked at.
BugRecordMint(p) ==
    /\ posts[p].stage = "submitted"
    /\ relayTx[p] \in {"success", "reverted"}
    /\ SetStatus(p, "minted", "done")
    /\ UNCHANGED <<patches, relayTx, received>>

\* Step 6: a receipt with status success.
RecordMint(p) ==
    /\ posts[p].stage = "submitted"
    /\ relayTx[p] = "success"
    /\ SetStatus(p, "minted", "done")
    /\ UNCHANGED <<patches, relayTx, received>>

\* A database call throws where nothing catches it: the POST answers 500, or
\* the pipeline ends and the row keeps the status it has.
DatabaseError(p) ==
    /\ posts[p].stage \in {"new"} \cup InFlight
    /\ Goto(p, "broken")
    /\ UNCHANGED <<rows, patches, relayTx, received>>

----------------------------------------------------------------------------
\* Arbitrum (external): a message is received once, by whoever relays it first.
MineRelay(p) ==
    /\ relayTx[p] = "pending"
    /\ IF posts[p].burn \in received
       THEN /\ relayTx' = [relayTx EXCEPT ![p] = "reverted"]
            /\ UNCHANGED received
       ELSE /\ relayTx' = [relayTx EXCEPT ![p] = "success"]
            /\ received' = received \cup {posts[p].burn}
    /\ UNCHANGED <<rows, posts, patches>>

\* depositForBurn names no destination caller: another relayer can be first.
OtherRelayer(b) ==
    /\ b \notin received
    /\ received' = received \cup {b}
    /\ UNCHANGED <<rows, posts, patches, relayTx>>

----------------------------------------------------------------------------
Answer(q, reply) ==
    /\ patches' = [patches EXCEPT ![q] = [@ EXCEPT !.stage = "done", !.reply = reply]]
    /\ UNCHANGED <<rows, posts, relayTx, received>>

\* The row a PATCH names, as its SELECT reads it.
Target(q) == rows[patches[q].transfer]

PatchUnknown(q) ==
    /\ patches[q].stage = "new"
    /\ Target(q) = NoRow
    /\ Answer(q, "unavailable")

PatchAgain(q) ==
    /\ patches[q].stage = "new"
    /\ Target(q) # NoRow
    /\ Target(q).status = "vault_deposited"
    /\ Answer(q, IF Target(q).vault = patches[q].vault THEN "ok" ELSE "conflict")

PatchInvalid(q) ==
    /\ patches[q].stage = "new"
    /\ Target(q) # NoRow
    /\ Target(q).status \notin {"minted", "vault_deposited"}
    /\ Answer(q, "invalid")

\* Any transfer that has no deposit yet can be deposited.
BugPatchMinted(q) ==
    /\ patches[q].stage = "new"
    /\ Target(q) # NoRow
    /\ Target(q).status # "vault_deposited"
    /\ patches' = [patches EXCEPT ![q].stage = "recording"]
    /\ UNCHANGED <<rows, posts, relayTx, received>>

PatchMinted(q) ==
    /\ patches[q].stage = "new"
    /\ Target(q) # NoRow
    /\ Target(q).status = "minted"
    /\ patches' = [patches EXCEPT ![q].stage = "recording"]
    /\ UNCHANGED <<rows, posts, relayTx, received>>

\* recordVaultDeposit, whatever the row holds by now, and the reload.
RecordVaultDeposit(q) ==
    /\ patches[q].stage = "recording"
    /\ rows' = [rows EXCEPT ![patches[q].transfer] =
                  [@ EXCEPT !.status = "vault_deposited", !.vault = patches[q].vault]]
    /\ patches' = [patches EXCEPT ![q] = [@ EXCEPT !.stage = "done", !.reply = "ok"]]
    /\ UNCHANGED <<posts, relayTx, received>>

----------------------------------------------------------------------------
\* The server restarts: requests and pipelines are gone, the table is not, and
\* nothing resumes from it (listPendingRelay has no caller).
Crash ==
    /\ \/ \E p \in Posts: posts[p].stage \in InFlight
       \/ \E q \in Patches: patches[q].stage = "recording"
    /\ posts' = [p \in Posts |->
                   IF posts[p].stage \in InFlight
                   THEN [posts[p] EXCEPT !.stage = "dead"]
                   ELSE posts[p]]
    /\ patches' = [q \in Patches |->
                     IF patches[q].stage = "recording"
                     THEN [patches[q] EXCEPT !.stage = "dead"]
                     ELSE patches[q]]
    /\ UNCHANGED <<rows, relayTx, received>>

Post(p) ==
    \/ PostExisting(p)
    \/ PostLookup(p)
    \/ Create(p)
    \/ Register(p)
    \/ RegisterConflict(p)

Relay(p) ==
    \/ Extract(p)
    \/ Attest(p)
    \/ FailBeforeRelay(p)
    \/ QueueRelay(p)
    \/ SubmitRelay(p)
    \/ FailRelay(p)
    \/ RecordMint(p)

Patch(q) ==
    \/ PatchUnknown(q)
    \/ PatchAgain(q)
    \/ PatchInvalid(q)
    \/ PatchMinted(q)
    \/ RecordVaultDeposit(q)

Next ==
    \/ \E p \in Posts: Post(p) \/ Relay(p) \/ DatabaseError(p) \/ MineRelay(p)
    \/ \E q \in Patches: Patch(q)
    \/ \E b \in Burns: OtherRelayer(b)
    \/ Crash

\* A pipeline that is not killed goes on: every call it awaits returns, throws
\* or times out. Users, chain and crashes are free.
PipelineFairness(p) == WF_vars(Relay(p))

Spec == Init /\ [][Next]_vars /\ \A p \in Posts: PipelineFairness(p)

----------------------------------------------------------------------------
\* What a reader of the table sees of the transfers.
StatusSeen == [p \in Posts |-> IF rows[p] = NoRow THEN "none" ELSE rows[p].status]

BurnOf == [p \in Posts |-> posts[p].burn]

Lifecycle == INSTANCE CctpLifecycle WITH
    Transfers <- Posts, status <- StatusSeen, burn <- BurnOf

\* The statuses a reader of the table sees follow the enum of the migration:
\* no step is skipped or taken back, 'failed' and 'vault_deposited' are final,
\* whichever request, pipeline or PATCH writes, and minted means minted.
FollowsLifecycle == Lifecycle!Spec

\* A row says minted, or deposited into the vault, only after this server's own
\* relay transaction succeeded: not because the message was received at all.
MintedByRelay ==
    \A p \in Posts:
        rows[p] # NoRow /\ rows[p].status \in {"minted", "vault_deposited"} =>
            relayTx[p] = "success" /\ posts[p].burn \in received

\* Genesis pays the gas of one relay per burn: however POSTs for a burn race,
\* or are repeated after a failure, one pipeline at most has run for it.
OneRelayPerBurn ==
    \A p, q \in Posts:
        /\ posts[p].burn = posts[q].burn
        /\ posts[p].stage \in Pipeline \/ relayTx[p] # "none"
        /\ posts[q].stage \in Pipeline \/ relayTx[q] # "none"
        => p = q

\* A transfer that is neither minted nor failed is being worked on, unless a
\* crash or a database error ended its pipeline, or its POST lost the race for
\* the burn: then the row that won has the burn.
PendingHasPipeline ==
    \A p \in Posts:
        rows[p] # NoRow /\ rows[p].status \notin {"minted", "vault_deposited", "failed"} =>
            \/ posts[p].stage \in {"registering", "broken", "dead"} \cup Pipeline
            \/ /\ posts[p].stage = "duplicate"
               /\ rows[p].burn = NoHash
               /\ Registered(posts[p].burn) # {}

\* Started, a pipeline that is not killed by a crash or a database error gives
\* the transfer an outcome: polling for the attestation and waiting for the
\* receipt both end.
PipelineEnds ==
    \A p \in Posts:
        (posts[p].stage \in Pipeline) ~> (posts[p].stage \in {"done", "broken", "dead"})
=============================================================================
