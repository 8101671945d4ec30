---------------------------- MODULE DistinClient ----------------------------
(***************************************************************************)
(* distin.ts, the page's client of the coordination program, and the chain *)
(* as the client sees it: the protocol account, the request accounts and   *)
(* the transactions under way.                                             *)
(*                                                                         *)
(* The operators' work is one step that records a signature; how it comes  *)
(* about is modelled in SigndLoop and DistinProgram.  The program does not *)
(* verify the recorded 64 bytes, so they may be no signature of the        *)
(* request's message.  The client draws its nonce at random; that two      *)
(* draws of one wallet coincide is left out, so a transaction is identified *)
(* with the address it creates.                                            *)
(***************************************************************************)
EXTENDS AccountLayout, WalletExtension, FiniteSets

CONSTANTS
    Zero, Junk,         \* no signature yet; 64 bytes that sign no message here
    NoAccount,
    Bond,               \* the stake of an operator
    Validity,           \* slots a request stays open: 1000 in page.tsx
    MaxRequests,        \* bound: request addresses
    MaxSlot,            \* bound: slots
    MaxOperators        \* bound: operators

ASSUME ClientAssumption ==
    /\ Bond \in Nat /\ Validity \in Nat \ {0} /\ MaxSlot \in Nat
    /\ MaxRequests \in Nat /\ MaxOperators \in Nat

ProtocolAccounts == [operator_count : Nat, request_nonce : Nat, total_bonded : Nat]

\* "No account" is none.
ASSUME NoAccountAssumption == NoAccount \notin ProtocolAccounts

VARIABLES
    slot,
    protocol,           \* the protocol account
    requests,           \* address -> request account or NoAccount
    network             \* address -> the transaction that creates it

chainVars == <<slot, protocol, requests, network>>

Addresses == 1..MaxRequests
Scheme == {"FrostEd25519", "Gg20Secp256k1"}
TargetVm == {"Svm", "Evm", "Tron", "Cosmos", "Bitcoin"}

-----------------------------------------------------------------------------
\* Reads.

readProtocol(account) ==
    IF account = NoAccount
    THEN [initialized |-> FALSE, operatorCount |-> 0, requestNonce |-> 0,
          totalBonded |-> 0]
    ELSE [initialized |-> TRUE, operatorCount |-> account.operator_count,
          requestNonce |-> account.request_nonce,
          totalBonded |-> account.total_bonded]

\* A request is signed once its signature field is not all zeros.
readRequest(account) ==
    IF account = NoAccount
    THEN [exists |-> FALSE, signed |-> FALSE, signature |-> Zero]
    ELSE [exists |-> TRUE, signed |-> account.aggregate_sig # Zero,
          signature |-> account.aggregate_sig]

Held(accts) == {a \in DOMAIN accts : accts[a] # NoAccount}

\* The counter comes from the protocol account read earlier, the rest from
\* a scan of the request accounts that exist now.
readDashboard(accts, proto) ==
    LET Of(scheme) == {a \in Held(accts) : accts[a].scheme = scheme}
        For(vm) == {a \in Held(accts) : accts[a].target_vm = vm}
        Settled == {a \in Held(accts) : accts[a].aggregate_sig # Zero}
    IN  [totalRequests |-> proto.requestNonce,
         settled |-> Cardinality(Settled),
         operators |-> proto.operatorCount,
         bondedWeight |-> proto.totalBonded,
         frost |-> Cardinality(Of("FrostEd25519")),
         gg20 |-> Cardinality(Of("Gg20Secp256k1")),
         byVm |-> [vm \in TargetVm |-> Cardinality(For(vm))]]

ActivityItem(a, r, now) ==
    [request |-> a, requestId |-> r.request_id, vm |-> r.target_vm,
     scheme |-> r.scheme, signed |-> r.aggregate_sig # Zero,
     expired |-> r.aggregate_sig = Zero /\ now > r.expiry_slot,
     signature |-> r.aggregate_sig]

\* The wallet's own requests, newest first.  Accounts and slot are two reads.
readMyActivity(accts, now, wallet) ==
    LET own == {a \in Held(accts) : accts[a].requester = wallet}
        Newer(a) == {b \in own : accts[b].request_id > accts[a].request_id}
        Nth(n) == CHOOSE a \in own : Cardinality(Newer(a)) = n - 1
    IN  [n \in 1..Cardinality(own) |-> ActivityItem(Nth(n), accts[Nth(n)], now)]

-----------------------------------------------------------------------------
\* Posting.

\* IntentArgs, and the message: the digest given, or that of the intent text.
MessageOf(args) ==
    IF args.digest # Zero THEN args.digest
    ELSE [intent |-> args.intent, chain |-> args.chain]

\* buildCreateRequestIx: the transaction for a freshly drawn address.
buildCreateRequestIx(requester, args) ==
    [requester |-> requester, scheme |-> args.scheme, target_vm |-> args.targetVm,
     message_hash |-> MessageOf(args)]

\* The encoded arguments, and that they are those the program decodes.
EncodedArgs ==
    << <<"client_nonce", 8>>, <<"scheme", 1>>, <<"target_vm", 1>>,
       <<"target_chain_id", 8>>, <<"message_hash", 32>>, <<"threshold", 2>>,
       <<"validity_slots", 8>> >>

ASSUME EncodingAgrees ==
    /\ EncodedArgs = CreateArgs
    /\ DataLength(EncodedArgs) = 8 + 8 + 1 + 1 + 8 + 32 + 2 + 8

Unused == [fate |-> "unused", tx |-> NoAccount]
Fresh(a) == network[a].fate = "unused"

\* The program creates the request if the protocol has an active operator.
ProgramAccepts == protocol # NoAccount /\ protocol.operator_count > 0

\* sendRawTransaction: the node simulates the transaction, then forwards it.
Forward(a, tx) ==
    /\ Fresh(a)
    /\ network' = [network EXCEPT ![a] = [fate |-> "flying", tx |-> tx]]
    /\ UNCHANGED <<slot, protocol, requests>>

NewRequest(tx) ==
    [requester |-> tx.requester, request_id |-> protocol.request_nonce,
     scheme |-> tx.scheme, target_vm |-> tx.target_vm,
     message_hash |-> tx.message_hash, expiry_slot |-> slot + Validity,
     aggregate_sig |-> Zero]

Create(a, tx) ==
    /\ requests' = [requests EXCEPT ![a] = NewRequest(tx)]
    /\ protocol' = [protocol EXCEPT !.request_nonce = @ + 1]
    /\ network' = [network EXCEPT ![a] = [fate |-> "created", tx |-> tx]]
    /\ UNCHANGED slot

\* create_signing_request runs.
TxLands(a) ==
    /\ network[a].fate = "flying"
    /\ \/ ProgramAccepts /\ Create(a, network[a].tx)
       \/ /\ ~ProgramAccepts
          /\ network' = [network EXCEPT ![a].fate = "failed"]
          /\ UNCHANGED <<slot, protocol, requests>>

\* The blockhash becomes too old first.
TxExpires(a) ==
    /\ network[a].fate = "flying"
    /\ network' = [network EXCEPT ![a].fate = "expired"]
    /\ UNCHANGED <<slot, protocol, requests>>

-----------------------------------------------------------------------------
\* What else happens on the chain.

\* The set reaches its threshold and a relayer records the signature.
OperatorsRecord(a, sig) ==
    /\ requests[a] # NoAccount
    /\ requests[a].aggregate_sig = Zero
    /\ slot <= requests[a].expiry_slot
    /\ requests' = [requests EXCEPT ![a].aggregate_sig = sig]
    /\ UNCHANGED <<slot, protocol, network>>

\* cancel_request, expire_request.
CloseRequest(a) ==
    /\ requests[a] # NoAccount
    /\ requests[a].aggregate_sig = Zero
    /\ requests' = [requests EXCEPT ![a] = NoAccount]
    /\ UNCHANGED <<slot, protocol, network>>

\* initialize, register_operator, begin_unbonding or slash_operator.
SetChanges ==
    /\ \/ /\ protocol = NoAccount
          /\ protocol' = [operator_count |-> 0, request_nonce |-> 0, total_bonded |-> 0]
       \/ /\ protocol # NoAccount
          /\ \E n \in 0..MaxOperators :
                 /\ n = protocol.operator_count + 1 \/ n + 1 = protocol.operator_count
                 /\ protocol' = [protocol EXCEPT !.operator_count = n,
                                                 !.total_bonded = n * Bond]
    /\ UNCHANGED <<slot, requests, network>>

\* The same wallet, or another, posts from elsewhere.
OthersPost(a, w, tx) ==
    /\ Fresh(a)
    /\ tx.requester = w
    /\ ProgramAccepts
    /\ Create(a, tx)

SlotPasses ==
    /\ slot < MaxSlot
    /\ slot' = slot + 1
    /\ UNCHANGED <<protocol, requests, network>>
=============================================================================
