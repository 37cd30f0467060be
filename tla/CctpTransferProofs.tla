------------------------- MODULE CctpTransferProofs -------------------------
(***************************************************************************)
(* The CCTP on-ramp is right for any number of POSTs, PATCHes and burns:   *)
(* one relay per burn, a minted status only after this server's relay, no  *)
(* pending transfer without a pipeline, and, by refinement, statuses that  *)
(* follow the lifecycle of the enum.                                       *)
(*                                                                         *)
(* The strengthening ties the row of a POST to where its pipeline stands:  *)
(* the row is the only thing a restart leaves, so a pipeline must never    *)
(* be ahead of its row.                                                    *)
(***************************************************************************)
EXTENDS CctpTransfer, TLAPS

\* The status of the row while the pipeline stands at a stage.
StatusAt == [s \in Pipeline |->
    CASE s = "extracting" -> "burn_confirmed"
      [] s = "polling" -> "attestation_pending"
      [] s = "attested" -> "attestation_ready"
      [] OTHER -> "relay_pending"]

Minted == {"minted", "vault_deposited"}

\* The row p belongs to the burn its POST reported.
Owns(p) == rows[p] # NoRow /\ rows[p].burn = posts[p].burn

\* What is known of one POST, its row and its relay transaction.
PostInv(p) ==
    /\ posts[p].stage \in {"new", "creating"} => rows[p] = NoRow
    /\ posts[p].stage \in {"registering", "duplicate"} =>
         /\ rows[p] # NoRow /\ rows[p].retries = 0
         /\ rows[p].status = "burn_pending" /\ rows[p].burn = NoHash
    /\ posts[p].stage \in Pipeline =>
         Owns(p) /\ rows[p].status = StatusAt[posts[p].stage] /\ rows[p].retries = 0
    /\ posts[p].stage = "done" =>
         rows[p] = NoRow \/ rows[p].status \in Minted \cup {"failed"}
    /\ rows[p] # NoRow => rows[p].burn \in {NoHash, posts[p].burn}
    /\ relayTx[p] # "none" =>
         Owns(p) /\ posts[p].stage \in {"submitted", "done", "broken", "dead"}
    /\ relayTx[p] = "success" => posts[p].burn \in received
    /\ rows[p] # NoRow /\ rows[p].status \in Minted => relayTx[p] = "success"

\* Some row has the burn.
Taken(b) == \E r \in Posts: rows[r] # NoRow /\ rows[r].burn = b

\* burn_tx_hash is unique, and the loser of the race for it finds it taken.
RegisteredInv ==
    /\ \A p, q \in Posts:
         /\ rows[p] # NoRow /\ rows[q] # NoRow
         /\ rows[p].burn = rows[q].burn /\ rows[p].burn # NoHash
         => p = q
    /\ \A p \in Posts: posts[p].stage = "duplicate" => Taken(posts[p].burn)

\* A PATCH that is to record its deposit has seen the transfer minted.
PatchInv ==
    \A q \in Patches: patches[q].stage = "recording" =>
        Target(q) # NoRow /\ Target(q).status \in Minted

Inv ==
    /\ TypeOK
    /\ \A p \in Posts: PostInv(p)
    /\ RegisteredInv
    /\ PatchInv

LEMMA InitInv == Init => Inv
<1> SUFFICES ASSUME Init PROVE Inv
  OBVIOUS
<1>1. /\ \A p \in Posts: posts[p] \in [burn: Burns, stage: Stages] /\ posts[p].stage = "new"
      /\ \A q \in Patches: patches[q] \in [transfer: Posts, vault: VaultTxs,
                                           stage: PatchStages, reply: Replies]
                           /\ patches[q].stage = "new"
  BY DEF Init, Stages, PatchStages, Replies
<1>2. TypeOK
  <2>1. /\ posts \in [Posts -> [burn: Burns, stage: Stages]]
        /\ patches \in [Patches -> [transfer: Posts, vault: VaultTxs,
                                    stage: PatchStages, reply: Replies]]
    BY <1>1 DEF Init
  <2>2. QED
    BY <2>1 DEF Init, TypeOK
<1>3. \A p \in Posts: rows[p] = NoRow /\ relayTx[p] = "none"
  BY DEF Init
<1>4. QED
  BY <1>1, <1>2, <1>3 DEF Inv, PostInv, RegisteredInv, PatchInv, Pipeline

\* One POST, its row and its relay transaction change.
LEMMA PostStep ==
    ASSUME Inv, NEW p \in Posts, NEW row \in Rows \cup {NoRow}, NEW stage \in Stages,
           rows' = [rows EXCEPT ![p] = row], Goto(p, stage), patches' = patches,
           relayTx' \in [Posts -> {"none", "pending", "success", "reverted"}],
           \A r \in Posts \ {p}: relayTx'[r] = relayTx[r],
           received \subseteq received', received' \subseteq Burns,
           PostInv(p)',
           rows[p] # NoRow =>
               /\ row # NoRow
               /\ rows[p].burn # NoHash => row.burn = rows[p].burn
               /\ rows[p].status \in Minted => row.status \in Minted,
           row # NoRow /\ row.burn # NoHash =>
               \A r \in Posts \ {p}: rows[r] # NoRow => rows[r].burn # row.burn,
           stage = "duplicate" => Taken(posts[p].burn)
    PROVE  Inv'
<1>1. /\ \A r \in Posts \ {p}: rows'[r] = rows[r] /\ posts'[r] = posts[r]
      /\ rows'[p] = row
      /\ \A r \in Posts: posts'[r].burn = posts[r].burn
      /\ posts'[p].stage = stage
  BY DEF Goto, Inv, TypeOK
<1>2. TypeOK'
  BY DEF Goto, Inv, TypeOK
<1>3. \A r \in Posts: PostInv(r)'
  <2> SUFFICES ASSUME NEW r \in Posts, r # p PROVE PostInv(r)'
    OBVIOUS
  <2>1. /\ rows'[r] = rows[r] /\ posts'[r] = posts[r] /\ relayTx'[r] = relayTx[r]
    BY <1>1
  <2>2. PostInv(r)
    BY DEF Inv
  <2>3. QED
    BY <2>1, <2>2 DEF PostInv, Owns
<1>4. RegisteredInv'
  <2>1. \A b \in Burns, r \in Posts:
          rows[r] # NoRow /\ rows[r].burn = b => rows'[r] # NoRow /\ rows'[r].burn = b
    BY <1>1, NamesAssumption
  <2>2. \A r, s \in Posts:
          /\ rows'[r] # NoRow /\ rows'[s] # NoRow
          /\ rows'[r].burn = rows'[s].burn /\ rows'[r].burn # NoHash
          => r = s
    BY <1>1 DEF Inv, RegisteredInv
  <2>3. ASSUME NEW r \in Posts, posts'[r].stage = "duplicate"
        PROVE  \E s \in Posts: rows'[s] # NoRow /\ rows'[s].burn = posts'[r].burn
    <3>1. posts[r].burn \in Burns /\ posts'[r].burn = posts[r].burn
      BY <1>1 DEF Inv, TypeOK
    <3>2. \E s \in Posts: rows[s] # NoRow /\ rows[s].burn = posts[r].burn
      BY <1>1, <2>3 DEF Inv, RegisteredInv, Taken
    <3>3. QED
      BY <2>1, <3>1, <3>2
  <2>4. QED
    BY <2>2, <2>3 DEF RegisteredInv, Taken
<1>5. PatchInv'
  BY <1>1 DEF Inv, TypeOK, PatchInv, Target
<1>6. QED
  BY <1>2, <1>3, <1>4, <1>5 DEF Inv

\* A POST or its pipeline moves on and leaves the table alone.
LEMMA StageStep ==
    ASSUME Inv, NEW p \in Posts, NEW stage \in Stages, Goto(p, stage),
           UNCHANGED <<rows, patches>>,
           relayTx' \in [Posts -> {"none", "pending", "success", "reverted"}],
           \A r \in Posts \ {p}: relayTx'[r] = relayTx[r],
           received \subseteq received', received' \subseteq Burns,
           PostInv(p)',
           stage = "duplicate" => Taken(posts[p].burn)
    PROVE  Inv'
<1>1. rows' = [rows EXCEPT ![p] = rows[p]] /\ rows[p] \in Rows \cup {NoRow}
  BY DEF Inv, TypeOK
<1>2. rows[p] # NoRow /\ rows[p].burn # NoHash =>
        \A r \in Posts \ {p}: rows[r] # NoRow => rows[r].burn # rows[p].burn
  BY DEF Inv, RegisteredInv
<1>3. QED
  BY <1>1, <1>2, PostStep

\* A POST or its pipeline writes its row, whose burn is then registered.
LEMMA WriteStep ==
    ASSUME Inv, NEW p \in Posts, NEW row \in Rows,
           NEW stage \in (Pipeline \ {"submitted"}) \cup {"done"},
           posts[p].stage \in Pipeline \cup {"registering"},
           rows' = [rows EXCEPT ![p] = row], Goto(p, stage),
           UNCHANGED <<patches, relayTx, received>>,
           row.burn = posts[p].burn,
           posts[p].stage = "registering" => ~Taken(posts[p].burn),
           stage \in Pipeline =>
               relayTx[p] = "none" /\ row.status = StatusAt[stage] /\ row.retries = 0,
           stage = "done" => row.status \in Minted \cup {"failed"},
           row.status \in Minted => relayTx[p] = "success"
    PROVE  Inv'
<1>1. /\ posts[p] \in [burn: Burns, stage: Stages] /\ rows[p] \in Rows \cup {NoRow}
      /\ stage \in Stages
      /\ PostInv(p)
      /\ rows'[p] = row /\ posts'[p].burn = posts[p].burn /\ posts'[p].stage = stage
      /\ row # NoRow
  BY RowsAssumption DEF Inv, TypeOK, Goto, Stages, Pipeline
<1>2. PostInv(p)'
  BY <1>1 DEF PostInv, Owns, Pipeline, Minted
<1>3. rows[p] # NoRow =>
        /\ row # NoRow
        /\ rows[p].burn # NoHash => row.burn = rows[p].burn
        /\ rows[p].status \in Minted => row.status \in Minted
  <2>1. posts[p].stage = "registering" => rows[p].status = "burn_pending"
    BY <1>1 DEF PostInv
  <2>2. posts[p].stage \in Pipeline => rows[p].status = StatusAt[posts[p].stage]
    BY <1>1 DEF PostInv
  <2>3. rows[p].status \notin Minted
    BY <2>1, <2>2 DEF StatusAt, Pipeline, Minted
  <2>4. QED
    BY <1>1, <2>3 DEF PostInv
<1>4. row.burn # NoHash => \A r \in Posts \ {p}: rows[r] # NoRow => rows[r].burn # row.burn
  <2>1. CASE posts[p].stage = "registering"
    BY <2>1 DEF Taken
  <2>2. CASE posts[p].stage \in Pipeline
    BY <2>2, <1>1 DEF PostInv, Owns, Inv, RegisteredInv
  <2>3. QED
    BY <2>1, <2>2
<1>5. /\ relayTx' \in [Posts -> {"none", "pending", "success", "reverted"}]
      /\ \A r \in Posts \ {p}: relayTx'[r] = relayTx[r]
      /\ received \subseteq received' /\ received' \subseteq Burns
      /\ stage # "duplicate"
  BY DEF Inv, TypeOK, Pipeline
<1>6. QED
  BY <1>1, <1>2, <1>3, <1>4, <1>5, PostStep

\* The POST handler.
LEMMA PostSteps == ASSUME Inv, NEW p \in Posts, Post(p) PROVE Inv'
<1>1. /\ posts[p] \in [burn: Burns, stage: Stages] /\ rows[p] \in Rows \cup {NoRow}
      /\ PostInv(p)
      /\ relayTx \in [Posts -> {"none", "pending", "success", "reverted"}]
      /\ received \subseteq Burns
  BY DEF Inv, TypeOK
<1>2. CASE PostExisting(p)
  <2>1. /\ posts'[p].stage = "done" /\ posts'[p].burn = posts[p].burn
        /\ UNCHANGED <<rows, patches, relayTx, received>>
    BY <1>2 DEF PostExisting, Goto, Inv, TypeOK
  <2>2. PostInv(p)'
    BY <2>1, <1>1, <1>2 DEF PostInv, Owns, Pipeline, PostExisting
  <2>3. QED
    BY <1>1, <1>2, <2>1, <2>2, StageStep DEF PostExisting, Stages
<1>3. CASE PostLookup(p)
  <2>1. /\ posts'[p].stage = "creating" /\ posts'[p].burn = posts[p].burn
        /\ UNCHANGED <<rows, patches, relayTx, received>>
    BY <1>3 DEF PostLookup, Goto, Inv, TypeOK
  <2>2. PostInv(p)'
    BY <2>1, <1>1, <1>3 DEF PostInv, Owns, Pipeline, PostLookup
  <2>3. QED
    BY <1>1, <1>3, <2>1, <2>2, StageStep DEF PostLookup, Stages
<1>4. CASE Create(p)
  <2> DEFINE row == [status |-> "burn_pending", burn |-> NoHash,
                     vault |-> NoHash, retries |-> 0]
  <2>1. row \in Rows /\ row # NoRow
    BY RowsAssumption DEF Rows, Statuses
  <2>2. row.status = "burn_pending" /\ row.burn = NoHash /\ row.retries = 0
    OBVIOUS
  <2>3. rows' = [rows EXCEPT ![p] = row] /\ Goto(p, "registering")
        /\ UNCHANGED <<patches, relayTx, received>>
    BY <1>4 DEF Create
  <2> HIDE DEF row
  <2>4. /\ rows'[p] = row /\ rows[p] = NoRow
        /\ posts'[p].stage = "registering" /\ posts'[p].burn = posts[p].burn
    BY <1>1, <1>4, <2>3 DEF Create, Goto, PostInv, Inv, TypeOK
  <2>5. PostInv(p)'
    BY <1>1, <2>1, <2>2, <2>3, <2>4 DEF PostInv, Owns, Pipeline, Minted
  <2>6. QED
    BY <1>1, <2>1, <2>2, <2>3, <2>4, <2>5, PostStep DEF Stages
<1>5. CASE Register(p)
  <2> DEFINE row == [rows[p] EXCEPT !.status = "burn_confirmed",
                                    !.burn = posts[p].burn]
  <2>1. rows[p] \in Rows /\ posts[p].stage = "registering" /\ ~Taken(posts[p].burn)
        /\ rows[p].retries \in 0..1
    BY <1>1, <1>5 DEF Register, PostInv, Registered, Taken, Rows
  <2>2. relayTx[p] = "none"
    BY <1>1, <2>1 DEF PostInv
  <2>3. /\ row \in Rows
        /\ row.status = "burn_confirmed" /\ row.burn = posts[p].burn
        /\ row.retries = rows[p].retries
    BY <1>1, <2>1 DEF Rows, Statuses
  <2>4. rows' = [rows EXCEPT ![p] = row] /\ Goto(p, "extracting")
        /\ UNCHANGED <<patches, relayTx, received>>
    BY <1>5 DEF Register
  <2> HIDE DEF row
  <2>5. rows[p].retries = 0
    BY <1>1, <2>1 DEF PostInv
  <2>6. QED
    BY <1>1, <2>1, <2>2, <2>3, <2>4, <2>5, WriteStep DEF Pipeline, StatusAt, Minted
<1>6. CASE RegisterConflict(p)
  <2>1. /\ posts'[p].stage = "duplicate" /\ posts'[p].burn = posts[p].burn
        /\ UNCHANGED <<rows, patches, relayTx, received>>
        /\ Taken(posts[p].burn)
    BY <1>6 DEF RegisterConflict, Goto, Inv, TypeOK, Registered, Taken
  <2>2. PostInv(p)'
    BY <2>1, <1>1, <1>6 DEF PostInv, Owns, Pipeline, RegisterConflict
  <2>3. QED
    BY <1>1, <1>6, <2>1, <2>2, StageStep DEF RegisterConflict, Stages
<1>7. QED
  BY <1>2, <1>3, <1>4, <1>5, <1>6 DEF Post

\* The pipeline writes a status, and where it stands afterwards matches it.
LEMMA PipelineWrite ==
    ASSUME Inv, NEW p \in Posts, posts[p].stage \in Pipeline,
           NEW status \in Statuses,
           NEW stage \in (Pipeline \ {"submitted"}) \cup {"done"},
           SetStatus(p, status, stage), UNCHANGED <<patches, relayTx, received>>,
           stage \in Pipeline => relayTx[p] = "none" /\ status = StatusAt[stage],
           stage = "done" => status \in Minted \cup {"failed"},
           status \in Minted => relayTx[p] = "success"
    PROVE  Inv'
<1> DEFINE row == [rows[p] EXCEPT !.status = status]
<1>1. rows[p] \in Rows /\ rows[p].burn = posts[p].burn /\ rows[p].retries = 0
  BY DEF Inv, TypeOK, PostInv, Owns
<1>2. /\ row \in Rows /\ row.status = status
      /\ row.burn = rows[p].burn /\ row.retries = rows[p].retries
  BY <1>1 DEF Rows
<1>3. rows' = [rows EXCEPT ![p] = row] /\ Goto(p, stage)
  BY DEF SetStatus
<1>4. posts[p].stage # "registering"
  BY DEF Pipeline
<1> HIDE DEF row
<1>5. QED
  BY <1>1, <1>2, <1>3, <1>4, WriteStep

\* The pipeline fails in step 5, and counts the failure.
LEMMA FailRelayStep == ASSUME Inv, NEW p \in Posts, FailRelay(p) PROVE Inv'
<1> DEFINE row == [rows[p] EXCEPT !.status = "failed", !.retries = 1]
<1>1. /\ posts[p].stage \in Pipeline
      /\ rows[p] \in Rows /\ rows[p].burn = posts[p].burn /\ rows[p].retries = 0
  BY DEF Inv, TypeOK, PostInv, Owns, FailRelay, Pipeline
<1>2. /\ row.status = "failed" /\ row.burn = rows[p].burn
      /\ row \in Rows
  <2>1. 1 \in 0..1
    OBVIOUS
  <2>2. QED
    BY <1>1, <2>1 DEF Rows, Statuses
<1>3. /\ rows' = [rows EXCEPT ![p] = row] /\ Goto(p, "done")
      /\ UNCHANGED <<patches, relayTx, received>>
  <2>1. row = [rows[p] EXCEPT !.status = "failed", !.retries = rows[p].retries + 1]
    BY <1>1 DEF Rows
  <2>2. QED
    BY <2>1 DEF FailRelay
<1>4. posts[p].stage # "registering" /\ "failed" \notin Minted /\ "done" \notin Pipeline
  BY <1>1 DEF Pipeline, Minted
<1> HIDE DEF row
<1>5. QED
  BY <1>1, <1>2, <1>3, <1>4, WriteStep

\* The relay pipeline.
LEMMA RelaySteps == ASSUME Inv, NEW p \in Posts, Relay(p) PROVE Inv'
<1>1. /\ posts[p] \in [burn: Burns, stage: Stages] /\ rows[p] \in Rows \cup {NoRow}
      /\ PostInv(p)
      /\ relayTx \in [Posts -> {"none", "pending", "success", "reverted"}]
      /\ received \subseteq Burns
  BY DEF Inv, TypeOK
<1>2. posts[p].stage \in Pipeline \ {"submitted"} => relayTx[p] = "none"
  BY <1>1 DEF PostInv, Pipeline
<1>3. CASE Extract(p)
  <2>1. posts[p].stage = "extracting" /\ SetStatus(p, "attestation_pending", "polling")
        /\ UNCHANGED <<patches, relayTx, received>>
    BY <1>3 DEF Extract
  <2>2. QED
    BY <1>2, <2>1, PipelineWrite DEF Pipeline, Statuses, StatusAt, Minted
<1>4. CASE Attest(p)
  <2>1. posts[p].stage = "polling" /\ SetStatus(p, "attestation_ready", "attested")
        /\ UNCHANGED <<patches, relayTx, received>>
    BY <1>4 DEF Attest
  <2>2. QED
    BY <1>2, <2>1, PipelineWrite DEF Pipeline, Statuses, StatusAt, Minted
<1>5. CASE FailBeforeRelay(p)
  <2>1. /\ posts[p].stage \in {"extracting", "polling"}
        /\ SetStatus(p, "failed", "done")
        /\ UNCHANGED <<patches, relayTx, received>>
    BY <1>5 DEF FailBeforeRelay
  <2>2. QED
    BY <1>2, <2>1, PipelineWrite DEF Pipeline, Statuses, StatusAt, Minted
<1>6. CASE QueueRelay(p)
  <2>1. posts[p].stage = "attested" /\ SetStatus(p, "relay_pending", "relaying")
        /\ UNCHANGED <<patches, relayTx, received>>
    BY <1>6 DEF QueueRelay
  <2>2. QED
    BY <1>2, <2>1, PipelineWrite DEF Pipeline, Statuses, StatusAt, Minted
<1>7. CASE SubmitRelay(p)
  <2>1. /\ posts[p].stage = "relaying"
        /\ posts'[p].stage = "submitted" /\ posts'[p].burn = posts[p].burn
        /\ UNCHANGED <<rows, patches, received>>
        /\ relayTx' = [relayTx EXCEPT ![p] = "pending"]
    BY <1>7 DEF SubmitRelay, Goto, Inv, TypeOK
  <2>2. /\ relayTx' \in [Posts -> {"none", "pending", "success", "reverted"}]
        /\ relayTx'[p] = "pending"
        /\ \A r \in Posts \ {p}: relayTx'[r] = relayTx[r]
    BY <1>1, <2>1
  <2>3. rows[p].status = "relay_pending"
    BY <1>1, <2>1 DEF PostInv, Pipeline, StatusAt
  <2>4. PostInv(p)'
    BY <1>1, <2>1, <2>2, <2>3 DEF PostInv, Owns, Pipeline, StatusAt, Minted
  <2>5. QED
    BY <1>1, <1>7, <2>1, <2>2, <2>4, StageStep DEF SubmitRelay, Stages
<1>8. CASE FailRelay(p)
  BY <1>8, FailRelayStep
<1>9. CASE RecordMint(p)
  <2>1. /\ posts[p].stage = "submitted" /\ relayTx[p] = "success"
        /\ SetStatus(p, "minted", "done")
        /\ UNCHANGED <<patches, relayTx, received>>
    BY <1>9 DEF RecordMint
  <2>2. QED
    BY <2>1, PipelineWrite DEF Pipeline, Statuses, StatusAt, Minted
<1>10. QED
  BY <1>3, <1>4, <1>5, <1>6, <1>7, <1>8, <1>9 DEF Relay

\* A database error ends a POST or its pipeline where it stands.
LEMMA DatabaseErrorStep == ASSUME Inv, NEW p \in Posts, DatabaseError(p) PROVE Inv'
<1>1. /\ posts[p] \in [burn: Burns, stage: Stages] /\ PostInv(p)
      /\ relayTx \in [Posts -> {"none", "pending", "success", "reverted"}]
      /\ received \subseteq Burns
  BY DEF Inv, TypeOK
<1>2. /\ posts'[p].stage = "broken" /\ posts'[p].burn = posts[p].burn
      /\ UNCHANGED <<rows, patches, relayTx, received>>
      /\ Goto(p, "broken")
  BY DEF DatabaseError, Goto, Inv, TypeOK
<1>3. PostInv(p)'
  BY <1>1, <1>2 DEF PostInv, Owns, Pipeline
<1>4. QED
  BY <1>1, <1>2, <1>3, StageStep DEF Stages

\* Arbitrum mines a relay.
LEMMA MineRelayStep == ASSUME Inv, NEW p \in Posts, MineRelay(p) PROVE Inv'
<1>1. /\ UNCHANGED <<rows, posts, patches>>
      /\ relayTx[p] = "pending"
      /\ relayTx' \in [Posts -> {"none", "pending", "success", "reverted"}]
      /\ relayTx'[p] \in {"success", "reverted"}
      /\ relayTx'[p] = "success" => posts[p].burn \in received'
      /\ \A r \in Posts \ {p}: relayTx'[r] = relayTx[r]
      /\ received \subseteq received' /\ received' \subseteq Burns
  <2>1. /\ posts[p].burn \in Burns /\ received \subseteq Burns
        /\ relayTx \in [Posts -> {"none", "pending", "success", "reverted"}]
    BY DEF Inv, TypeOK
  <2>2. CASE posts[p].burn \in received
    BY <2>1, <2>2 DEF MineRelay
  <2>3. CASE posts[p].burn \notin received
    BY <2>1, <2>3 DEF MineRelay
  <2>4. QED
    BY <2>2, <2>3
<1>2. TypeOK'
  BY <1>1 DEF Inv, TypeOK
<1>3. \A r \in Posts: PostInv(r)'
  <2> SUFFICES ASSUME NEW r \in Posts PROVE PostInv(r)'
    OBVIOUS
  <2>1. PostInv(r)
    BY DEF Inv
  <2>2. CASE r = p
    BY <1>1, <2>1, <2>2 DEF PostInv, Owns
  <2>3. CASE r # p
    BY <1>1, <2>1, <2>3 DEF PostInv, Owns
  <2>4. QED
    BY <2>2, <2>3
<1>4. RegisteredInv' /\ PatchInv'
  BY <1>1 DEF Inv, RegisteredInv, Taken, PatchInv, Target
<1>5. QED
  BY <1>2, <1>3, <1>4 DEF Inv

\* Another relayer is first.
LEMMA OtherRelayerStep == ASSUME Inv, NEW b \in Burns, OtherRelayer(b) PROVE Inv'
<1>1. /\ UNCHANGED <<rows, posts, patches, relayTx>>
      /\ received \subseteq received' /\ received' \subseteq Burns
  BY DEF OtherRelayer, Inv, TypeOK
<1>2. TypeOK' /\ RegisteredInv' /\ PatchInv'
  BY <1>1 DEF Inv, TypeOK, RegisteredInv, Taken, PatchInv, Target
<1>3. \A r \in Posts: PostInv(r)'
  BY <1>1 DEF Inv, PostInv, Owns
<1>4. QED
  BY <1>2, <1>3 DEF Inv

\* What a step of one PATCH that writes no row preserves.
LEMMA PatchStage ==
    ASSUME Inv, NEW q \in Patches, NEW patch,
           patch \in [transfer: Posts, vault: VaultTxs,
                      stage: PatchStages, reply: Replies],
           patches' = [patches EXCEPT ![q] = patch],
           UNCHANGED <<rows, posts, relayTx, received>>,
           patch.transfer = patches[q].transfer,
           patch.stage = "recording" => Target(q) # NoRow /\ Target(q).status \in Minted
    PROVE  Inv'
<1>1. /\ patches'[q] = patch
      /\ \A s \in Patches \ {q}: patches'[s] = patches[s]
      /\ patches' \in [Patches -> [transfer: Posts, vault: VaultTxs,
                                    stage: PatchStages, reply: Replies]]
  BY DEF Inv, TypeOK
<1>2. TypeOK'
  BY <1>1 DEF Inv, TypeOK
<1>3. (\A r \in Posts: PostInv(r)') /\ RegisteredInv'
  BY DEF Inv, PostInv, Owns, RegisteredInv, Taken
<1>4. PatchInv'
  BY <1>1 DEF Inv, PatchInv, Target
<1>5. QED
  BY <1>2, <1>3, <1>4 DEF Inv

\* The PATCH handler up to its write.
LEMMA PatchAnswers ==
    ASSUME Inv, NEW q \in Patches,
           PatchUnknown(q) \/ PatchAgain(q) \/ PatchInvalid(q) \/ PatchMinted(q)
    PROVE  Inv'
<1>1. patches[q] \in [transfer: Posts, vault: VaultTxs,
                      stage: PatchStages, reply: Replies]
  BY DEF Inv, TypeOK
<1>2. ASSUME NEW reply \in Replies, Answer(q, reply) PROVE Inv'
  <2> DEFINE patch == [patches[q] EXCEPT !.stage = "done", !.reply = reply]
  <2>1. /\ patch \in [transfer: Posts, vault: VaultTxs,
                       stage: PatchStages, reply: Replies]
        /\ patch.transfer = patches[q].transfer /\ patch.stage = "done"
    BY <1>1 DEF PatchStages
  <2>2. /\ patches' = [patches EXCEPT ![q] = patch]
        /\ UNCHANGED <<rows, posts, relayTx, received>>
    BY <1>2 DEF Answer
  <2> HIDE DEF patch
  <2>3. QED
    BY <2>1, <2>2, PatchStage
<1>3. CASE PatchMinted(q)
  <2> DEFINE patch == [patches[q] EXCEPT !.stage = "recording"]
  <2>1. /\ patch \in [transfer: Posts, vault: VaultTxs,
                       stage: PatchStages, reply: Replies]
        /\ patch.transfer = patches[q].transfer
    BY <1>1 DEF PatchStages
  <2>2. /\ patches' = [patches EXCEPT ![q] = patch]
        /\ UNCHANGED <<rows, posts, relayTx, received>>
        /\ Target(q) # NoRow /\ Target(q).status \in Minted
    BY <1>3 DEF PatchMinted, Minted
  <2> HIDE DEF patch
  <2>3. QED
    BY <2>1, <2>2, PatchStage
<1>4. "ok" \in Replies /\ "conflict" \in Replies /\ "invalid" \in Replies
      /\ "unavailable" \in Replies
  BY DEF Replies
<1>5. CASE PatchAgain(q)
  <2>1. Answer(q, "ok") \/ Answer(q, "conflict")
    BY <1>5 DEF PatchAgain
  <2>2. QED
    BY <1>2, <1>4, <2>1
<1>6. QED
  BY <1>2, <1>3, <1>4, <1>5 DEF PatchUnknown, PatchInvalid

\* The PATCH handler writes: the transfer it saw minted is still minted, or
\* deposited, because no pipeline works on it any more.
LEMMA RecordVaultDepositStep ==
    ASSUME Inv, NEW q \in Patches, RecordVaultDeposit(q) PROVE Inv'
<1> DEFINE t == patches[q].transfer
           row == [rows[t] EXCEPT !.status = "vault_deposited",
                                  !.vault = patches[q].vault]
           patch == [patches[q] EXCEPT !.stage = "done", !.reply = "ok"]
<1>1. /\ patches[q] \in [transfer: Posts, vault: VaultTxs,
                         stage: PatchStages, reply: Replies]
      /\ patches[q].stage = "recording" /\ t \in Posts
  BY DEF Inv, TypeOK, RecordVaultDeposit
<1>2. rows[t] \in Rows /\ rows[t].status \in Minted
  BY <1>1 DEF Inv, TypeOK, PatchInv, Target
<1>3. /\ row \in Rows /\ row # NoRow
      /\ row.status = "vault_deposited" /\ row.burn = rows[t].burn
  BY <1>1, <1>2, RowsAssumption DEF Rows, Statuses
<1>4. /\ patch \in [transfer: Posts, vault: VaultTxs,
                     stage: PatchStages, reply: Replies]
      /\ patch.transfer = t /\ patch.stage = "done"
  BY <1>1 DEF PatchStages, Replies
<1>5. /\ rows' = [rows EXCEPT ![t] = row]
      /\ patches' = [patches EXCEPT ![q] = patch]
      /\ UNCHANGED <<posts, relayTx, received>>
  BY DEF RecordVaultDeposit
<1> HIDE DEF row, patch, t
<1>6. /\ rows'[t] = row /\ \A r \in Posts \ {t}: rows'[r] = rows[r]
      /\ rows' \in [Posts -> Rows \cup {NoRow}]
      /\ patches'[q] = patch /\ \A s \in Patches \ {q}: patches'[s] = patches[s]
      /\ patches' \in [Patches -> [transfer: Posts, vault: VaultTxs,
                                    stage: PatchStages, reply: Replies]]
  BY <1>1, <1>3, <1>4, <1>5 DEF Inv, TypeOK
<1>7. TypeOK'
  BY <1>5, <1>6 DEF Inv, TypeOK
<1>8. posts[t].stage \notin {"registering", "duplicate", "new", "creating"} \cup Pipeline
  <2>1. PostInv(t) /\ rows[t] # NoRow
    BY <1>1, <1>2, RowsAssumption DEF Inv
  <2>2. posts[t].stage \in Pipeline => rows[t].status = StatusAt[posts[t].stage]
    BY <2>1 DEF PostInv
  <2>3. posts[t].stage \notin Pipeline
    BY <1>2, <2>2 DEF StatusAt, Pipeline, Minted
  <2>4. posts[t].stage \notin {"registering", "duplicate", "new", "creating"}
    BY <1>2, <2>1 DEF PostInv, Minted
  <2>5. QED
    BY <2>3, <2>4
<1>9. \A r \in Posts: PostInv(r)'
  <2> SUFFICES ASSUME NEW r \in Posts PROVE PostInv(r)'
    OBVIOUS
  <2>1. PostInv(r)
    BY DEF Inv
  <2>2. CASE r = t
    BY <1>2, <1>3, <1>5, <1>6, <1>8, <2>1, <2>2, RowsAssumption DEF PostInv, Owns, Minted
  <2>3. CASE r # t
    BY <1>5, <1>6, <2>1, <2>3 DEF PostInv, Owns
  <2>4. QED
    BY <2>2, <2>3
<1>10. RegisteredInv'
  <2>1. \A r \in Posts: rows'[r] # NoRow <=> rows[r] # NoRow
    BY <1>1, <1>2, <1>3, <1>6, RowsAssumption
  <2>2. \A r \in Posts: rows[r] # NoRow => rows'[r].burn = rows[r].burn
    BY <1>1, <1>3, <1>6
  <2>3. QED
    BY <1>5, <2>1, <2>2 DEF Inv, RegisteredInv, Taken
<1>11. PatchInv'
  <2> SUFFICES ASSUME NEW s \in Patches, patches'[s].stage = "recording"
               PROVE  rows'[patches'[s].transfer] # NoRow
                      /\ rows'[patches'[s].transfer].status \in Minted
    BY DEF PatchInv, Target
  <2>1. s # q /\ patches'[s] = patches[s]
    BY <1>4, <1>6
  <2>2. patches[s].transfer \in Posts
    BY DEF Inv, TypeOK
  <2>3. rows[patches[s].transfer] # NoRow /\ rows[patches[s].transfer].status \in Minted
    BY <2>1 DEF Inv, PatchInv, Target
  <2>4. QED
    BY <1>3, <1>6, <2>1, <2>2, <2>3 DEF Minted
<1>12. QED
  BY <1>7, <1>9, <1>10, <1>11 DEF Inv

\* A restart leaves the table, and ends every pipeline.
LEMMA CrashStep == ASSUME Inv, Crash PROVE Inv'
<1>1. /\ UNCHANGED <<rows, relayTx, received>>
      /\ posts' = [p \in Posts |-> IF posts[p].stage \in InFlight
                                    THEN [posts[p] EXCEPT !.stage = "dead"]
                                    ELSE posts[p]]
      /\ patches' = [q \in Patches |-> IF patches[q].stage = "recording"
                                        THEN [patches[q] EXCEPT !.stage = "dead"]
                                        ELSE patches[q]]
  BY DEF Crash
<1>2. \A p \in Posts:
        /\ posts[p] \in [burn: Burns, stage: Stages]
        /\ posts'[p] \in [burn: Burns, stage: Stages]
        /\ posts'[p].burn = posts[p].burn
        /\ \/ posts'[p].stage = "dead" /\ posts[p].stage \in InFlight
           \/ posts'[p].stage = posts[p].stage /\ posts[p].stage \notin InFlight
  BY <1>1 DEF Inv, TypeOK, Stages
<1>3. \A q \in Patches:
        /\ patches[q] \in [transfer: Posts, vault: VaultTxs,
                           stage: PatchStages, reply: Replies]
        /\ patches'[q] \in [transfer: Posts, vault: VaultTxs,
                            stage: PatchStages, reply: Replies]
        /\ patches'[q].stage # "recording"
  BY <1>1 DEF Inv, TypeOK, PatchStages
<1>4. TypeOK'
  BY <1>1, <1>2, <1>3 DEF Inv, TypeOK
<1>5. ASSUME NEW p \in Posts PROVE PostInv(p)'
  <2>1. PostInv(p)
    BY DEF Inv
  <2>2. CASE posts'[p].stage = "dead"
    BY <1>1, <1>2, <2>1, <2>2 DEF PostInv, Owns, Pipeline
  <2>3. CASE posts'[p].stage = posts[p].stage
    BY <1>1, <1>2, <2>1, <2>3 DEF PostInv, Owns
  <2>4. QED
    BY <1>2, <2>2, <2>3
<1>6. RegisteredInv'
  BY <1>1, <1>2 DEF Inv, RegisteredInv, Taken
<1>7. PatchInv'
  BY <1>3 DEF PatchInv
<1>8. QED
  BY <1>4, <1>5, <1>6, <1>7 DEF Inv

LEMMA StepInv == Inv /\ [Next]_vars => Inv'
<1> SUFFICES ASSUME Inv, [Next]_vars PROVE Inv'
  OBVIOUS
<1>1. CASE \E p \in Posts: Post(p) \/ Relay(p) \/ DatabaseError(p) \/ MineRelay(p)
  BY <1>1, PostSteps, RelaySteps, DatabaseErrorStep, MineRelayStep
<1>2. CASE \E q \in Patches: Patch(q)
  BY <1>2, PatchAnswers, RecordVaultDepositStep DEF Patch
<1>3. CASE \E b \in Burns: OtherRelayer(b)
  BY <1>3, OtherRelayerStep
<1>4. CASE Crash
  BY <1>4, CrashStep
<1>5. CASE UNCHANGED vars
  <2>1. TypeOK' /\ RegisteredInv' /\ PatchInv'
    BY <1>5 DEF vars, Inv, TypeOK, RegisteredInv, Taken, PatchInv, Target
  <2>2. \A p \in Posts: PostInv(p)'
    BY <1>5 DEF vars, Inv, PostInv, Owns
  <2>3. QED
    BY <2>1, <2>2 DEF Inv
<1>6. QED
  BY <1>1, <1>2, <1>3, <1>4, <1>5 DEF Next

\* The inductive invariant holds in every reachable state.
THEOREM Invariance == Spec => []Inv
BY InitInv, StepInv, PTL DEF Spec

\* Every row, request, relay transaction and receipt has its type (TypeOK).
THEOREM TypeCorrect == Spec => []TypeOK
BY Invariance, PTL DEF Inv

\* 'minted' and 'vault_deposited' are only ever written after this server's own
\* relay transaction succeeded.
THEOREM MintsAreRelayed == Spec => []MintedByRelay
<1>1. Inv => MintedByRelay
  BY DEF Inv, PostInv, MintedByRelay, Minted
<1>2. QED
  BY <1>1, Invariance, PTL

\* However many POSTs report a burn, at most one of them ever has a pipeline or
\* a relay transaction for it: the unique burn_tx_hash decides the race.
THEOREM RelayedOnce == Spec => []OneRelayPerBurn
<1>1. Inv => OneRelayPerBurn
  <2> SUFFICES ASSUME Inv, NEW p \in Posts, NEW q \in Posts,
                      posts[p].burn = posts[q].burn,
                      posts[p].stage \in Pipeline \/ relayTx[p] # "none",
                      posts[q].stage \in Pipeline \/ relayTx[q] # "none"
               PROVE  p = q
    BY DEF OneRelayPerBurn
  <2>1. Owns(p) /\ Owns(q)
    BY DEF Inv, PostInv
  <2>2. posts[p].burn # NoHash
    BY NamesAssumption DEF Inv, TypeOK
  <2>3. QED
    BY <2>1, <2>2 DEF Owns, Inv, RegisteredInv
<1>2. QED
  BY <1>1, Invariance, PTL

\* A transfer that is neither minted nor failed has a pipeline, or lost it to a
\* crash, a database error or the race for its burn.
THEOREM PendingIsWorkedOn == Spec => []PendingHasPipeline
<1>1. Inv => PendingHasPipeline
  <2> SUFFICES ASSUME Inv, NEW p \in Posts, rows[p] # NoRow,
                      rows[p].status \notin {"minted", "vault_deposited", "failed"}
               PROVE  \/ posts[p].stage \in {"registering", "broken", "dead"} \cup Pipeline
                      \/ /\ posts[p].stage = "duplicate"
                         /\ rows[p].burn = NoHash
                         /\ Registered(posts[p].burn) # {}
    BY DEF PendingHasPipeline
  <2>1. PostInv(p) /\ posts[p].stage \in Stages
    BY DEF Inv, TypeOK
  <2>2. posts[p].stage \notin {"new", "creating", "done"}
    BY <2>1 DEF PostInv, Minted
  <2>3. CASE posts[p].stage = "duplicate"
    BY <2>1, <2>3 DEF PostInv, Inv, RegisteredInv, Taken, Registered
  <2>4. CASE posts[p].stage # "duplicate"
    BY <2>1, <2>2, <2>4 DEF Stages, Pipeline
  <2>5. QED
    BY <2>3, <2>4
<1>2. QED
  BY <1>1, Invariance, PTL

----------------------------------------------------------------------------
\* A write of one row is a step of the lifecycle if its statuses are.
LEMMA WriteAdvances ==
    ASSUME Inv, NEW p \in Posts, NEW row, row # NoRow,
           rows' = [rows EXCEPT ![p] = row],
           \A r \in Posts: posts'[r].burn = posts[r].burn, received' = received,
           <<StatusSeen[p], row.status>> \in Lifecycle!Steps,
           row.status \in Lifecycle!Statuses,
           row.status = "minted" => posts[p].burn \in received
    PROVE  Lifecycle!Next
<1>1. /\ rows'[p] = row /\ \A r \in Posts \ {p}: rows'[r] = rows[r]
  BY DEF Inv, TypeOK
<1>2. StatusSeen' = [StatusSeen EXCEPT ![p] = row.status]
  <2>1. StatusSeen' = [r \in Posts |-> IF rows'[r] = NoRow THEN "none" ELSE rows'[r].status]
    BY DEF StatusSeen
  <2>2. [StatusSeen EXCEPT ![p] = row.status]
          = [r \in Posts |-> IF r = p THEN row.status ELSE StatusSeen[r]]
    BY DEF StatusSeen
  <2>3. \A r \in Posts:
          (IF rows'[r] = NoRow THEN "none" ELSE rows'[r].status)
            = (IF r = p THEN row.status ELSE StatusSeen[r])
    BY <1>1 DEF StatusSeen
  <2>4. QED
    BY <2>1, <2>2, <2>3
<1>3. BurnOf' = BurnOf /\ BurnOf[p] = posts[p].burn
  BY DEF BurnOf
<1>4. Lifecycle!Advance(p, row.status)
  BY <1>2, <1>3 DEF Lifecycle!Advance
<1>5. QED
  BY <1>4 DEF Lifecycle!Next

\* The same for a pipeline, whose stage says what the status is.
LEMMA PipelineAdvances ==
    ASSUME Inv, NEW p \in Posts, posts[p].stage \in Pipeline,
           NEW status \in Statuses, NEW stage, SetStatus(p, status, stage),
           received' = received,
           <<StatusAt[posts[p].stage], status>> \in Lifecycle!Steps,
           status \in Lifecycle!Statuses,
           status = "minted" => posts[p].burn \in received
    PROVE  Lifecycle!Next
<1> DEFINE row == [rows[p] EXCEPT !.status = status]
<1>1. rows[p] \in Rows /\ rows[p] # NoRow /\ StatusSeen[p] = StatusAt[posts[p].stage]
  BY DEF Inv, TypeOK, PostInv, Owns, StatusSeen
<1>2. row.status = status /\ row # NoRow
  <2>1. row.status = status /\ row \in Rows
    BY <1>1 DEF Rows
  <2>2. QED
    BY <2>1, RowsAssumption
<1>3. rows' = [rows EXCEPT ![p] = row]
  BY DEF SetStatus
<1>4. \A r \in Posts: posts'[r].burn = posts[r].burn
  BY DEF SetStatus, Goto, Inv, TypeOK
<1>5. QED
  BY <1>1, <1>2, <1>3, <1>4, WriteAdvances

\* What the lifecycle sees of the rest: nothing changes, or a receipt.
Hidden == UNCHANGED <<StatusSeen, BurnOf, received>>

LEMMA HiddenStep ==
    ASSUME Inv, rows' = rows, received' = received,
           \A r \in Posts: posts'[r].burn = posts[r].burn
    PROVE  Hidden
BY DEF Hidden, StatusSeen, BurnOf

LEMMA RelayRefines == ASSUME Inv, NEW p \in Posts, Relay(p) PROVE Lifecycle!Next \/ Hidden
<1>1. CASE Extract(p)
  BY <1>1, PipelineAdvances
  DEF Extract, Pipeline, StatusAt, Statuses, Lifecycle!Steps, Lifecycle!Statuses
<1>2. CASE Attest(p)
  BY <1>2, PipelineAdvances
  DEF Attest, Pipeline, StatusAt, Statuses, Lifecycle!Steps, Lifecycle!Statuses
<1>3. CASE FailBeforeRelay(p)
  BY <1>3, PipelineAdvances
  DEF FailBeforeRelay, Pipeline, StatusAt, Statuses, Lifecycle!Steps, Lifecycle!Statuses
<1>4. CASE QueueRelay(p)
  BY <1>4, PipelineAdvances
  DEF QueueRelay, Pipeline, StatusAt, Statuses, Lifecycle!Steps, Lifecycle!Statuses
<1>5. CASE SubmitRelay(p)
  <2>1. /\ rows' = rows /\ received' = received
        /\ \A r \in Posts: posts'[r].burn = posts[r].burn
    BY <1>5 DEF SubmitRelay, Goto, Inv, TypeOK
  <2>2. QED
    BY <2>1, HiddenStep
<1>6. CASE FailRelay(p)
  <2> DEFINE row == [rows[p] EXCEPT !.status = "failed", !.retries = rows[p].retries + 1]
  <2>1. /\ posts[p].stage \in {"attested", "relaying", "submitted"}
        /\ rows' = [rows EXCEPT ![p] = row] /\ received' = received
        /\ \A r \in Posts: posts'[r].burn = posts[r].burn
    BY <1>6 DEF FailRelay, Goto, Inv, TypeOK
  <2>2. /\ rows[p] \in Rows /\ rows[p] # NoRow /\ rows[p].retries = 0
        /\ StatusSeen[p] = StatusAt[posts[p].stage]
    BY <2>1 DEF Inv, TypeOK, PostInv, Owns, StatusSeen, Pipeline
  <2>3. row.status = "failed" /\ row # NoRow
    <3>1. row = [rows[p] EXCEPT !.status = "failed", !.retries = 1] /\ 1 \in 0..1
      BY <2>2
    <3>2. row.status = "failed" /\ row \in Rows
      BY <2>2, <3>1 DEF Rows, Statuses
    <3>3. QED
      BY <3>2, RowsAssumption
  <2>4. <<StatusSeen[p], "failed">> \in Lifecycle!Steps /\ "failed" \in Lifecycle!Statuses
    BY <2>1, <2>2 DEF StatusAt, Pipeline, Lifecycle!Steps, Lifecycle!Statuses
  <2> HIDE DEF row
  <2>5. QED
    BY <2>1, <2>3, <2>4, WriteAdvances
<1>7. CASE RecordMint(p)
  <2>1. posts[p].burn \in received
    BY <1>7 DEF RecordMint, Inv, PostInv
  <2>2. QED
    BY <1>7, <2>1, PipelineAdvances
    DEF RecordMint, Pipeline, StatusAt, Statuses, Lifecycle!Steps, Lifecycle!Statuses
<1>8. QED
  BY <1>1, <1>2, <1>3, <1>4, <1>5, <1>6, <1>7 DEF Relay

LEMMA PostRefines == ASSUME Inv, NEW p \in Posts, Post(p) PROVE Lifecycle!Next \/ Hidden
<1>1. CASE PostExisting(p) \/ PostLookup(p) \/ RegisterConflict(p)
  <2>1. /\ rows' = rows /\ received' = received
        /\ \A r \in Posts: posts'[r].burn = posts[r].burn
    BY <1>1 DEF PostExisting, PostLookup, RegisterConflict, Goto, Inv, TypeOK
  <2>2. QED
    BY <2>1, HiddenStep
<1>2. CASE Create(p)
  <2> DEFINE row == [status |-> "burn_pending", burn |-> NoHash,
                     vault |-> NoHash, retries |-> 0]
  <2>1. /\ rows' = [rows EXCEPT ![p] = row] /\ received' = received
        /\ \A r \in Posts: posts'[r].burn = posts[r].burn
    BY <1>2 DEF Create, Goto, Inv, TypeOK
  <2>2. row \in Rows /\ row # NoRow /\ row.status = "burn_pending"
    BY RowsAssumption DEF Rows, Statuses
  <2>3. StatusSeen[p] = "none"
    BY <1>2 DEF Create, Inv, PostInv, StatusSeen
  <2>4. <<StatusSeen[p], "burn_pending">> \in Lifecycle!Steps
        /\ "burn_pending" \in Lifecycle!Statuses
    BY <2>3 DEF Lifecycle!Steps, Lifecycle!Statuses
  <2> HIDE DEF row
  <2>5. QED
    BY <2>1, <2>2, <2>4, WriteAdvances
<1>3. CASE Register(p)
  <2> DEFINE row == [rows[p] EXCEPT !.status = "burn_confirmed", !.burn = posts[p].burn]
  <2>1. /\ posts[p].stage = "registering"
        /\ rows' = [rows EXCEPT ![p] = row] /\ received' = received
        /\ \A r \in Posts: posts'[r].burn = posts[r].burn
    BY <1>3 DEF Register, Goto, Inv, TypeOK
  <2>2. rows[p] \in Rows /\ StatusSeen[p] = "burn_pending" /\ posts[p].burn \in Burns
    BY <2>1 DEF Inv, TypeOK, PostInv, StatusSeen
  <2>3. row.status = "burn_confirmed" /\ row # NoRow
    <3>1. row.status = "burn_confirmed" /\ row \in Rows
      BY <2>2 DEF Rows, Statuses
    <3>2. QED
      BY <3>1, RowsAssumption
  <2>4. <<StatusSeen[p], "burn_confirmed">> \in Lifecycle!Steps
        /\ "burn_confirmed" \in Lifecycle!Statuses
    BY <2>2 DEF Lifecycle!Steps, Lifecycle!Statuses
  <2> HIDE DEF row
  <2>5. QED
    BY <2>1, <2>3, <2>4, WriteAdvances
<1>4. QED
  BY <1>1, <1>2, <1>3 DEF Post

\* A second deposit recorded over the first is no step: both say vault_deposited.
LEMMA RecordVaultDepositRefines ==
    ASSUME Inv, NEW q \in Patches, RecordVaultDeposit(q) PROVE Lifecycle!Next \/ Hidden
<1> DEFINE t == patches[q].transfer
           row == [rows[t] EXCEPT !.status = "vault_deposited", !.vault = patches[q].vault]
<1>1. /\ t \in Posts /\ patches[q].vault \in VaultTxs
      /\ patches[q].stage = "recording"
      /\ rows' = [rows EXCEPT ![t] = row] /\ received' = received
      /\ \A r \in Posts: posts'[r].burn = posts[r].burn
  BY DEF RecordVaultDeposit, Inv, TypeOK
<1>2. rows[t] \in Rows /\ rows[t] # NoRow /\ rows[t].status \in Minted
  BY <1>1 DEF Inv, TypeOK, PatchInv, Target
<1>3. row.status = "vault_deposited" /\ row # NoRow
  <2>1. row.status = "vault_deposited" /\ row \in Rows
    BY <1>1, <1>2 DEF Rows, Statuses
  <2>2. QED
    BY <2>1, RowsAssumption
<1> HIDE DEF row, t
<1>4. CASE rows[t].status = "minted"
  <2>1. <<StatusSeen[t], "vault_deposited">> \in Lifecycle!Steps
        /\ "vault_deposited" \in Lifecycle!Statuses
    BY <1>1, <1>2, <1>4 DEF StatusSeen, Lifecycle!Steps, Lifecycle!Statuses
  <2>2. QED
    BY <1>1, <1>3, <2>1, WriteAdvances
<1>5. CASE rows[t].status = "vault_deposited"
  <2>1. /\ rows'[t] = row /\ \A r \in Posts \ {t}: rows'[r] = rows[r]
    BY <1>1 DEF Inv, TypeOK
  <2>2. StatusSeen' = [r \in Posts |-> IF rows'[r] = NoRow THEN "none" ELSE rows'[r].status]
    BY DEF StatusSeen
  <2>3. \A r \in Posts:
          (IF rows'[r] = NoRow THEN "none" ELSE rows'[r].status)
            = (IF rows[r] = NoRow THEN "none" ELSE rows[r].status)
    BY <1>2, <1>3, <1>5, <2>1
  <2>4. StatusSeen' = StatusSeen
    BY <2>2, <2>3 DEF StatusSeen
  <2>5. QED
    BY <1>1, <2>4 DEF Hidden, BurnOf
<1>6. QED
  BY <1>2, <1>4, <1>5 DEF Minted

LEMMA StepRefines ==
    Inv /\ [Next]_vars => [Lifecycle!Next]_<<StatusSeen, BurnOf, received>>
<1> SUFFICES ASSUME Inv, [Next]_vars PROVE Lifecycle!Next \/ Hidden
  BY DEF Hidden
<1>1. CASE \E p \in Posts: Post(p) \/ Relay(p)
  BY <1>1, PostRefines, RelayRefines
<1>2. CASE \E p \in Posts: DatabaseError(p)
  <2>1. /\ rows' = rows /\ received' = received
        /\ \A r \in Posts: posts'[r].burn = posts[r].burn
    BY <1>2 DEF DatabaseError, Goto, Inv, TypeOK
  <2>2. QED
    BY <2>1, HiddenStep
<1>3. ASSUME NEW b \in Burns, b \notin received, received' = received \cup {b},
             UNCHANGED <<rows, posts>>
      PROVE  Lifecycle!Next
  <2>1. StatusSeen' = StatusSeen /\ BurnOf' = BurnOf
    BY <1>3 DEF StatusSeen, BurnOf
  <2>2. Lifecycle!Receive(b)
    BY <1>3, <2>1 DEF Lifecycle!Receive
  <2>3. QED
    BY <2>2 DEF Lifecycle!Next
<1>4. CASE \E p \in Posts: MineRelay(p)
  <2>1. PICK p \in Posts: MineRelay(p)
    BY <1>4
  <2>2. posts[p].burn \in Burns /\ UNCHANGED <<rows, posts>>
    BY <2>1 DEF MineRelay, Inv, TypeOK
  <2>3. CASE posts[p].burn \in received
    BY <2>1, <2>2, <2>3, HiddenStep DEF MineRelay
  <2>4. CASE posts[p].burn \notin received
    BY <1>3, <2>1, <2>2, <2>4 DEF MineRelay
  <2>5. QED
    BY <2>3, <2>4
<1>5. CASE \E b \in Burns: OtherRelayer(b)
  BY <1>3, <1>5 DEF OtherRelayer
<1>6. CASE \E q \in Patches: Patch(q)
  <2>1. PICK q \in Patches: Patch(q)
    BY <1>6
  <2>2. CASE RecordVaultDeposit(q)
    BY <2>2, RecordVaultDepositRefines
  <2>3. CASE ~RecordVaultDeposit(q)
    <3>1. rows' = rows /\ posts' = posts /\ received' = received
      BY <2>1, <2>3 DEF Patch, PatchUnknown, PatchAgain, PatchInvalid, PatchMinted, Answer
    <3>2. QED
      BY <3>1, HiddenStep
  <2>4. QED
    BY <2>2, <2>3
<1>7. CASE Crash
  <2>1. /\ rows' = rows /\ received' = received
        /\ \A r \in Posts: posts'[r].burn = posts[r].burn
    BY <1>7 DEF Crash, Inv, TypeOK
  <2>2. QED
    BY <2>1, HiddenStep
<1>8. CASE UNCHANGED vars
  BY <1>8, HiddenStep DEF vars
<1>9. QED
  BY <1>1, <1>2, <1>4, <1>5, <1>6, <1>7, <1>8 DEF Next

LEMMA InitRefines == Init => Lifecycle!Init
<1> SUFFICES ASSUME Init PROVE Lifecycle!Init
  OBVIOUS
<1>1. StatusSeen = [p \in Posts |-> "none"]
  BY DEF Init, StatusSeen
<1>2. BurnOf \in [Posts -> Burns] /\ received = {}
  BY DEF Init, BurnOf
<1>3. QED
  BY <1>1, <1>2 DEF Lifecycle!Init

\* The statuses a reader sees implement the lifecycle of CctpLifecycle, for any
\* number of requests, crashes and relayers: no status is skipped or taken back,
\* and 'minted' means that Arbitrum has received the message.
THEOREM ImplementsLifecycle == Spec => FollowsLifecycle
<1>1. Inv /\ [Next]_vars => [Lifecycle!Next]_<<StatusSeen, BurnOf, received>>
  BY StepRefines
<1>2. QED
  BY <1>1, InitRefines, Invariance, PTL DEF Spec, FollowsLifecycle, Lifecycle!Spec

----------------------------------------------------------------------------
(* Every pipeline ends. Its stages are ranked by the steps it has left at    *)
(* most: a step of anyone leaves it where it is, takes it on or ends it.     *)

Ended(p) == posts[p].stage \in {"done", "broken", "dead"}

\* The most steps of its own that a pipeline has left; none outside Pipeline.
StepsLeft(p) ==
    IF posts[p].stage = "extracting" THEN 5
    ELSE IF posts[p].stage = "polling" THEN 4
    ELSE IF posts[p].stage = "attested" THEN 3
    ELSE IF posts[p].stage = "relaying" THEN 2
    ELSE IF posts[p].stage = "submitted" THEN 1
    ELSE 0

\* Where one step takes a pipeline that does not end with it.
TakenOn(p) ==
    \/ posts[p].stage = "extracting" /\ posts'[p].stage = "polling"
    \/ posts[p].stage = "polling" /\ posts'[p].stage = "attested"
    \/ posts[p].stage = "attested" /\ posts'[p].stage = "relaying"
    \/ posts[p].stage = "relaying" /\ posts'[p].stage = "submitted"

LEMMA RelayMoves ==
    ASSUME TypeOK, NEW p \in Posts, Relay(p)
    PROVE  TakenOn(p) \/ Ended(p)'
<1>1. CASE Extract(p) \/ Attest(p) \/ FailBeforeRelay(p)
  BY <1>1 DEF Extract, Attest, FailBeforeRelay, SetStatus, Goto, TypeOK, TakenOn, Ended
<1>2. CASE QueueRelay(p) \/ SubmitRelay(p) \/ FailRelay(p) \/ RecordMint(p)
  BY <1>2 DEF QueueRelay, SubmitRelay, FailRelay, RecordMint, SetStatus, Goto, TypeOK,
              TakenOn, Ended
<1> QED
  BY <1>1, <1>2 DEF Relay

LEMMA PipelineMoves ==
    ASSUME TypeOK, [Next]_vars, NEW p \in Posts, posts[p].stage \in Pipeline
    PROVE  posts'[p] = posts[p] \/ TakenOn(p) \/ Ended(p)'
<1>1. CASE Relay(p)
  BY <1>1, RelayMoves
<1>2. CASE DatabaseError(p)
  BY <1>2 DEF DatabaseError, Goto, TypeOK, Ended
<1>3. CASE Post(p)
  BY <1>3 DEF Post, PostExisting, PostLookup, Create, Register, RegisterConflict, Pipeline
<1>4. ASSUME NEW r \in Posts, r # p, Post(r) \/ Relay(r) \/ DatabaseError(r)
      PROVE  posts'[p] = posts[p]
  <2>1. CASE Post(r)
    BY <1>4, <2>1 DEF Post, PostExisting, PostLookup, Create, Register,
                      RegisterConflict, Goto, TypeOK
  <2>2. CASE DatabaseError(r)
    BY <1>4, <2>2 DEF DatabaseError, Goto, TypeOK
  <2>3. CASE Relay(r)
    BY <1>4, <2>3 DEF Relay, Extract, Attest, FailBeforeRelay, QueueRelay, SubmitRelay,
                      FailRelay, RecordMint, SetStatus, Goto, TypeOK
  <2> QED
    BY <1>4, <2>1, <2>2, <2>3
<1>5. CASE \E r \in Posts: MineRelay(r)
  BY <1>5 DEF MineRelay
<1>6. CASE \E q \in Patches: Patch(q)
  BY <1>6 DEF Patch, PatchUnknown, PatchAgain, PatchInvalid, PatchMinted,
              RecordVaultDeposit, Answer
<1>7. CASE (\E b \in Burns: OtherRelayer(b)) \/ UNCHANGED vars
  BY <1>7 DEF OtherRelayer, vars
<1>8. CASE Crash
  BY <1>8 DEF Crash, TypeOK, InFlight, Ended
<1> QED
  BY <1>1, <1>2, <1>3, <1>4, <1>5, <1>6, <1>7, <1>8 DEF Next

\* Fairness, with the condition for a step in the place of ENABLED: a pipeline can
\* always go on, if only by failing (FailBeforeRelay, FailRelay).
CanGoOn(p) == posts[p].stage \in Pipeline

Served(p) == []<>~CanGoOn(p) \/ []<><<Relay(p)>>_vars

\* That CanGoOn(p) is such a condition.
Enabling(p) == [](CanGoOn(p) => ENABLED <<Relay(p)>>_vars)

\* Then the fairness of Spec says as much.
LEMMA SpecServes == \A p \in Posts: PipelineFairness(p) /\ Enabling(p) => Served(p)
<1>1. ASSUME NEW p \in Posts PROVE PipelineFairness(p) /\ Enabling(p) => Served(p)
  BY PTL DEF PipelineFairness, Enabling, Served
<1> QED
  BY <1>1

\* Running, with at most n steps left.
AtMost(p, n) == StepsLeft(p) \in 1..n

LEMMA StepEnds ==
    ASSUME NEW p \in Posts, NEW n \in 1..5
    PROVE  /\ TypeOK /\ AtMost(p, n) /\ [Next]_vars => AtMost(p, n)' \/ Ended(p)'
           /\ AtMost(p, n) => CanGoOn(p)
           /\ TypeOK /\ AtMost(p, n) /\ <<Relay(p)>>_vars
                => AtMost(p, n - 1)' \/ Ended(p)'
<1>1. AtMost(p, n) => posts[p].stage \in Pipeline
  BY DEF AtMost, StepsLeft, Pipeline
<1>2. ASSUME TypeOK, AtMost(p, n), [Next]_vars PROVE AtMost(p, n)' \/ Ended(p)'
  <2>1. posts'[p] = posts[p] \/ TakenOn(p) \/ Ended(p)'
    BY <1>1, <1>2, PipelineMoves
  <2> QED
    BY <1>2, <2>1 DEF AtMost, StepsLeft, TakenOn
<1>3. ASSUME TypeOK, AtMost(p, n), <<Relay(p)>>_vars
      PROVE  AtMost(p, n - 1)' \/ Ended(p)'
  <2>1. TakenOn(p) \/ Ended(p)'
    BY <1>3, RelayMoves
  <2> QED
    BY <1>3, <2>1 DEF AtMost, StepsLeft, TakenOn
<1> QED
  BY <1>1, <1>2, <1>3 DEF CanGoOn

\* A pipeline with at most n steps left comes to have at most m, or ends.
StepsDown(p, n, m) ==
    []TypeOK /\ [][Next]_vars /\ Served(p) => (AtMost(p, n) ~> (AtMost(p, m) \/ Ended(p)))

LEMMA PipelineStepsDown ==
    ASSUME NEW p \in Posts, NEW n \in 1..5 PROVE StepsDown(p, n, n - 1)
<1>1. TypeOK /\ AtMost(p, n) /\ [Next]_vars => AtMost(p, n)' \/ Ended(p)'
  BY StepEnds
<1>2. AtMost(p, n) => CanGoOn(p)
  BY StepEnds
<1>3. TypeOK /\ AtMost(p, n) /\ <<Relay(p)>>_vars => AtMost(p, n - 1)' \/ Ended(p)'
  BY StepEnds
<1> QED
  BY <1>1, <1>2, <1>3, PTL DEF StepsDown, Served

\* One pipeline ends, if it is served.
EndsIfServed(p) ==
    []TypeOK /\ [][Next]_vars /\ Served(p)
      => ((posts[p].stage \in Pipeline) ~> (posts[p].stage \in {"done", "broken", "dead"}))

LEMMA ServedPipelineEnds == \A p \in Posts: EndsIfServed(p)
<1>1. ASSUME NEW p \in Posts PROVE EndsIfServed(p)
  <2>1. StepsDown(p, 1, 0)
    BY PipelineStepsDown
  <2>2. StepsDown(p, 2, 1)
    BY PipelineStepsDown
  <2>3. StepsDown(p, 3, 2)
    BY PipelineStepsDown
  <2>4. StepsDown(p, 4, 3)
    BY PipelineStepsDown
  <2>5. StepsDown(p, 5, 4)
    BY PipelineStepsDown
  <2>6. posts[p].stage \in Pipeline => AtMost(p, 5)
    BY DEF AtMost, StepsLeft, Pipeline
  <2>7. ~AtMost(p, 0)
    BY DEF AtMost
  <2>8. Ended(p) <=> posts[p].stage \in {"done", "broken", "dead"}
    BY DEF Ended
  <2> QED
    BY <2>1, <2>2, <2>3, <2>4, <2>5, <2>6, <2>7, <2>8, PTL DEF StepsDown, EndsIfServed
<1> QED
  BY <1>1

LEMMA ServedPipelinesEnd ==
    Init /\ [][Next]_vars /\ (\A p \in Posts: Served(p)) => PipelineEnds
<1>1. Init /\ [][Next]_vars => []TypeOK
  <2>1. Inv => TypeOK
    BY DEF Inv
  <2> QED
    BY <2>1, InitInv, StepInv, PTL
<1>2. \A p \in Posts:
        []TypeOK /\ [][Next]_vars /\ Served(p)
          => ((posts[p].stage \in Pipeline)
                ~> (posts[p].stage \in {"done", "broken", "dead"}))
  BY ServedPipelineEnds DEF EndsIfServed
<1> QED
  BY <1>1, <1>2 DEF PipelineEnds

\* A pipeline, once started, ends, for any number of POSTs, PATCHes and burns:
\* with an outcome, or by the crash or the database error that kills it.
THEOREM PipelinesEnd == Spec /\ (\A p \in Posts: Enabling(p)) => PipelineEnds
<1>1. Spec => Init /\ [][Next]_vars /\ \A p \in Posts: PipelineFairness(p)
  BY DEF Spec
<1> QED
  BY <1>1, SpecServes, ServedPipelinesEnd
=============================================================================
