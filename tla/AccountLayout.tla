--------------------------- MODULE AccountLayout ---------------------------
(***************************************************************************)
(* Where the fields of the program's accounts lie, and what an instruction *)
(* carries.  The web client and the bootstrap scripts decode accounts and  *)
(* encode instructions by hand, at byte offsets written as constants; the  *)
(* program lays them out by the order of its struct fields and arguments.  *)
(* Both sides are stated here and compared.                                *)
(***************************************************************************)
EXTENDS Naturals, Sequences

Discriminator == 8
Key == 32

\* state.rs, Protocol, up to the counter: field and size, in order.
ProtocolFields ==
    << <<"admin", Key>>, <<"pending_admin", Key>>, <<"bond_mint", Key>>,
       <<"bond_vault", Key>>, <<"slash_pool", Key>>, <<"lst_price_feed", Key>>,
       <<"threshold_bps", 2>>, <<"min_bond", 8>>, <<"unbonding_slots", 8>>,
       <<"request_fee", 8>>, <<"max_validity_slots", 8>>,
       <<"operator_count", 4>>, <<"total_bonded", 8>>, <<"request_nonce", 8>> >>

\* state.rs, SigningRequest.
RequestFields ==
    << <<"protocol", Key>>, <<"requester", Key>>, <<"request_id", 8>>,
       <<"scheme", 1>>, <<"target_vm", 1>>, <<"target_chain_id", 8>>,
       <<"message_hash", 32>>, <<"threshold", 2>>, <<"partials_collected", 2>>,
       <<"stake_weight_collected", 8>>, <<"required_stake_weight", 8>>,
       <<"created_slot", 8>>, <<"expiry_slot", 8>>, <<"status", 1>>,
       <<"aggregate_sig", 64>>, <<"bump", 1>> >>

\* lib.rs, the arguments of create_signing_request.
CreateArgs ==
    << <<"client_nonce", 8>>, <<"scheme", 1>>, <<"target_vm", 1>>,
       <<"target_chain_id", 8>>, <<"message_hash", 32>>, <<"threshold", 2>>,
       <<"validity_slots", 8>> >>

\* Bytes from the start of the account to the i-th field.
StartOf(fields) ==
    LET start[i \in 1..(Len(fields) + 1)] ==
            IF i = 1 THEN Discriminator ELSE start[i - 1] + fields[i - 1][2]
    IN  start

OffsetOf(fields, name) ==
    StartOf(fields)[CHOOSE i \in DOMAIN fields : fields[i][1] = name]

\* The length of an instruction's data, its discriminator included.
DataLength(args) == StartOf(args)[Len(args) + 1]

\* bootstrap.mjs and bootstrap.devnet.mjs: where the counter and the recorded
\* price feed are read.
ScriptNonceOffset == 8 + 32 * 6 + 2 + 8 * 4 + 4 + 8
LstOffset == 8 + 32 * 5

\* distin.ts: the offsets the client reads at.
NONCE_OFFSET == 8 + 32 * 6 + 2 + 8 * 4 + 4 + 8
OpCountOff == 8 + 32 * 6 + 2 + 8 * 4
REQ_STATUS_OFFSET == 8 + 32 + 32 + 8 + 1 + 1 + 8 + 32 + 2 + 2 + 8 + 8 + 8 + 8
REQ_SIG_OFFSET == REQ_STATUS_OFFSET + 1

\* What the client reads by offset is the field it means to read.
ASSUME LayoutAgrees ==
    /\ NONCE_OFFSET = OffsetOf(ProtocolFields, "request_nonce")
    /\ OpCountOff = OffsetOf(ProtocolFields, "operator_count")
    /\ OpCountOff + 4 = OffsetOf(ProtocolFields, "total_bonded")
    /\ 40 = OffsetOf(RequestFields, "requester")
    /\ 8 + 32 + 32 = OffsetOf(RequestFields, "request_id")
    /\ 8 + 32 + 32 + 8 = OffsetOf(RequestFields, "scheme")
    /\ 8 + 32 + 32 + 8 + 1 = OffsetOf(RequestFields, "target_vm")
    /\ REQ_STATUS_OFFSET - 8 = OffsetOf(RequestFields, "expiry_slot")
    /\ REQ_STATUS_OFFSET = OffsetOf(RequestFields, "status")
    /\ REQ_SIG_OFFSET = OffsetOf(RequestFields, "aggregate_sig")
    /\ ScriptNonceOffset = NONCE_OFFSET
    /\ LstOffset = OffsetOf(ProtocolFields, "lst_price_feed")
=============================================================================
