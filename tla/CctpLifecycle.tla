---------------------------- MODULE CctpLifecycle ----------------------------
(***************************************************************************)
(* What a CCTP transfer promises to whoever reads its status: the order of *)
(* the cctp_transfer_status enum of migration 011, final states that stay, *)
(* and a minted status only for USDC that exists on Arbitrum.              *)
(***************************************************************************)
CONSTANTS
    Transfers,  \* rows of cctp_transfers, once created
    Burns       \* burn transactions on the source chain

VARIABLES
    status,     \* per transfer: "none" before it is created
    burn,       \* per transfer: the burn it is for
    received    \* burns whose message Arbitrum has received: USDC is minted

Statuses == {"none", "burn_pending", "burn_confirmed", "attestation_pending",
             "attestation_ready", "relay_pending", "minted",
             "vault_deposited", "failed"}

\* The steps of the enum's comments. A transfer fails from any stage the relay
\* pipeline works on; minted, it can only be deposited.
Steps ==
    {<<"none", "burn_pending">>,
     <<"burn_pending", "burn_confirmed">>,
     <<"burn_confirmed", "attestation_pending">>,
     <<"attestation_pending", "attestation_ready">>,
     <<"attestation_ready", "relay_pending">>,
     <<"relay_pending", "minted">>,
     <<"minted", "vault_deposited">>}
    \cup ({"burn_confirmed", "attestation_pending", "attestation_ready",
           "relay_pending"} \X {"failed"})

Init ==
    /\ status = [t \in Transfers |-> "none"]
    /\ burn \in [Transfers -> Burns]
    /\ received = {}

Advance(t, to) ==
    /\ <<status[t], to>> \in Steps
    /\ to = "minted" => burn[t] \in received
    /\ status' = [status EXCEPT ![t] = to]
    /\ UNCHANGED <<burn, received>>

\* A message is received once; any relayer may submit it.
Receive(b) ==
    /\ b \notin received
    /\ received' = received \cup {b}
    /\ UNCHANGED <<status, burn>>

\* A crash of the server, a stop of the pipeline, a poll: nothing changes.
Next ==
    \/ \E t \in Transfers, to \in Statuses: Advance(t, to)
    \/ \E b \in Burns: Receive(b)

Spec == Init /\ [][Next]_<<status, burn, received>>
=============================================================================
