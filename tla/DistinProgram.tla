--------------------------- MODULE DistinProgram ---------------------------
(***************************************************************************)
(* The on-chain coordination program, engine/programs/distin/src/lib.rs,   *)
(* over the accounts of state.rs.  One action is one instruction: Solana   *)
(* runs an instruction atomically, and one that returns an error leaves no *)
(* trace, so a failing require! is a disabled action.  Slots pass and the  *)
(* price feed comes and goes between instructions.                         *)
(*                                                                         *)
(* Left out, because no instruction reads them back: joined_slot,          *)
(* created_slot, slash_count, partials_submitted, the group key, target_vm *)
(* and target_chain_id, PDA bumps, the share bytes, rent and events.       *)
(***************************************************************************)
EXTENDS DistinMath, FiniteSets

CONSTANTS
    Keys,           \* wallets that may hold the admin role
    Authorities,    \* operator wallets; the operator PDA is found by wallet
    Requesters,     \* wallets that post signing requests
    ClientNonces,   \* client-chosen nonces: half of a request's PDA seed
    Feeds,          \* price-feed accounts
    FlakyFeeds,     \* feeds whose price may stop being published
    Messages,       \* message hashes other than all-zero
    Schemes,        \* the signature schemes in use
    DefaultKey,     \* Pubkey::default()
    NoAccount       \* an address at which no account exists

\* What callers pass to the instructions, valid or not.
CONSTANTS ThresholdBpsArgs, MinBondArgs, UnbondingArgs, FeeArgs, WindowArgs,
          FeedArgs, SuccessorArgs, BondArgs, SlashArgs, ThresholdArgs,
          ValidityArgs, ShareArgs

\* Bounds of the model.
CONSTANTS
    InitialLst,      \* LST in each operator wallet at the start
    InitialLamports, \* lamports in each requester wallet at the start
    MaxSlot,         \* the last slot
    MaxRequests      \* how many signing requests are ever created

Addresses == Requesters \X ClientNonces

ProtocolAccount ==
    [admin : Keys,
     pending_admin : Keys \cup {DefaultKey},
     lst_price_feed : Feeds \cup {DefaultKey},
     threshold_bps : 1..BPS_DENOMINATOR,
     min_bond : Nat \ {0},
     unbonding_slots : Nat,
     request_fee : Nat,
     max_validity_slots : 1..MAX_VALIDITY_SLOTS_CEILING,
     operator_count : 0..U32_MAX,
     total_bonded : 0..U64_MAX,
     request_nonce : Nat,
     paused : BOOLEAN]

OperatorAccount ==
    [bonded_amount : Nat, stake_weight : Nat, jailed : BOOLEAN,
     unbonding_at : 0..U64_MAX]

RequestStatus == {"Pending", "Aggregated"}

SigningRequest ==
    [request_id : Nat,
     scheme : SchemeSet,
     message_hash : Messages,
     threshold : Nat \ {0},
     partials_collected : 0..U16_MAX,
     stake_weight_collected : 0..U64_MAX,
     required_stake_weight : Nat,
     expiry_slot : 0..U64_MAX,
     status : RequestStatus,
     aggregate_sig : Messages \cup {Zero}]

PartialSignature == [submitted_slot : Nat, stake_weight : Nat]

ASSUME ArgumentAssumption ==
    /\ Schemes \subseteq SchemeSet
    /\ ThresholdBpsArgs \subseteq Nat
    /\ MinBondArgs \subseteq Nat
    /\ UnbondingArgs \subseteq Nat
    /\ FeeArgs \subseteq Nat
    /\ WindowArgs \subseteq Nat
    /\ FlakyFeeds \subseteq Feeds
    /\ FeedArgs \subseteq Feeds \cup {DefaultKey}
    /\ SuccessorArgs \subseteq Keys \cup {DefaultKey}
    /\ BondArgs \subseteq Nat
    /\ SlashArgs \subseteq Nat
    /\ ThresholdArgs \subseteq Nat
    /\ ValidityArgs \subseteq Nat
    /\ ShareArgs \subseteq ShareSet
    /\ InitialLst \in Nat
    /\ InitialLamports \in Nat
    /\ MaxSlot \in Nat
    /\ MaxRequests \in Nat

ASSUME AuthoritiesAssumption == IsFiniteSet(Authorities)

ASSUME SentinelAssumption ==
    /\ DefaultKey \notin Keys \cup Feeds
    /\ Zero \notin Messages
    /\ NoAccount \notin ProtocolAccount \cup OperatorAccount
    /\ NoAccount \notin SigningRequest \cup PartialSignature

VARIABLES
    slot,        \* Clock::get()?.slot
    live_feeds,  \* feeds that now hold a parseable, positive price
    protocol,    \* the singleton Protocol account
    operators,   \* the Operator account of each authority
    requests,    \* the SigningRequest account at each address
    partials,    \* partials[ad][a]: the PartialSignature PDA of ad and a
    bond_vault,  \* LST held in the bond vault
    slash_pool,  \* LST held in the slash pool
    wallet,      \* LST in each operator wallet
    lamports,    \* lamports in each requester wallet
    fees,        \* lamports paid to the protocol account
    credited     \* history: who signed for the request now at each address

external == <<slot, live_feeds>>
tokens == <<bond_vault, slash_pool, wallet>>
purses == <<lamports, fees>>
signing == <<requests, partials, credited>>
vars == <<slot, live_feeds, protocol, operators, requests, partials,
          bond_vault, slash_pool, wallet, lamports, fees, credited>>

-----------------------------------------------------------------------------
(* Conditions on accounts that several instructions share.                 *)

Initialized == protocol # NoAccount

Running == Initialized /\ ~protocol.paused

\* has_one = admin
SignedByAdmin(k) == Initialized /\ protocol.admin = k

\* In the active signing set: neither leaving nor jailed.
IsActive(op) == op.unbonding_at = 0 /\ ~op.jailed

\* compute_stake_weight fails unless the configured feed is live ...
FeedIsLive == protocol.lst_price_feed \in live_feeds

\* ... and then weighs the bond one to one.
ComputeStakeWeight(bonded) == bonded

\* Faulty variant: the receipt is created with init_if_needed.
ReceiptReusable(ad, a) == ad \in Addresses /\ a \in Authorities

\* Anchor's init: a receipt PDA is created once, and never closed.
ReceiptUnused(ad, a) == partials[ad][a] = NoAccount

\* Faulty variant: the status is not looked at.
IsPresent(ad) == requests[ad] # NoAccount

IsPending(ad) == requests[ad] # NoAccount /\ requests[ad].status = "Pending"

InTime(req) == slot <= req.expiry_slot

\* Faulty variant: enough signers, whatever their stake.
CountMet(req) == req.partials_collected >= req.threshold

ThresholdMet(req) ==
    /\ req.partials_collected >= req.threshold
    /\ req.stake_weight_collected >= req.required_stake_weight

Init ==
    /\ slot = 1
    /\ live_feeds = Feeds
    /\ protocol = NoAccount
    /\ operators = [a \in Authorities |-> NoAccount]
    /\ requests = [ad \in Addresses |-> NoAccount]
    /\ partials = [ad \in Addresses |-> [a \in Authorities |-> NoAccount]]
    /\ bond_vault = 0
    /\ slash_pool = 0
    /\ wallet = [a \in Authorities |-> InitialLst]
    /\ lamports = [r \in Requesters |-> InitialLamports]
    /\ fees = 0
    /\ credited = [ad \in Addresses |-> {}]

-----------------------------------------------------------------------------
(* Bootstrap and administration.                                           *)

\* initialize: whoever calls first becomes the admin.
Initialize(k, bps, min_bond, unbonding, fee, window, feed) ==
    /\ ~Initialized
    /\ ValidThresholdBps(bps)
    /\ ValidMinBond(min_bond)
    /\ ValidMaxValidity(window)
    /\ protocol' = [admin |-> k,
                    pending_admin |-> DefaultKey,
                    lst_price_feed |-> feed,
                    threshold_bps |-> bps,
                    min_bond |-> min_bond,
                    unbonding_slots |-> unbonding,
                    request_fee |-> fee,
                    max_validity_slots |-> window,
                    operator_count |-> 0,
                    total_bonded |-> 0,
                    request_nonce |-> 0,
                    paused |-> FALSE]
    /\ UNCHANGED <<external, operators, signing, tokens, purses>>

\* update_config: an Option that is None keeps the current value, which the
\* caller of this action passes in.  No operator is judged again.
UpdateConfig(k, bps, min_bond, unbonding, fee, window) ==
    /\ SignedByAdmin(k)
    /\ ValidThresholdBps(bps)
    /\ ValidMinBond(min_bond)
    /\ ValidMaxValidity(window)
    /\ protocol' = [protocol EXCEPT !.threshold_bps = bps,
                                    !.min_bond = min_bond,
                                    !.unbonding_slots = unbonding,
                                    !.request_fee = fee,
                                    !.max_validity_slots = window]
    /\ UNCHANGED <<external, operators, signing, tokens, purses>>

SetLstPriceFeed(k, new_feed) ==
    /\ SignedByAdmin(k)
    /\ new_feed # DefaultKey
    /\ protocol' = [protocol EXCEPT !.lst_price_feed = new_feed]
    /\ UNCHANGED <<external, operators, signing, tokens, purses>>

TransferAdmin(k, new_admin) ==
    /\ SignedByAdmin(k)
    /\ new_admin # DefaultKey
    /\ protocol' = [protocol EXCEPT !.pending_admin = new_admin]
    /\ UNCHANGED <<external, operators, signing, tokens, purses>>

AcceptAdmin(k) ==
    /\ Initialized
    /\ protocol.pending_admin = k
    /\ protocol' = [protocol EXCEPT !.admin = k, !.pending_admin = DefaultKey]
    /\ UNCHANGED <<external, operators, signing, tokens, purses>>

Pause(k) ==
    /\ SignedByAdmin(k)
    /\ protocol' = [protocol EXCEPT !.paused = TRUE]
    /\ UNCHANGED <<external, operators, signing, tokens, purses>>

Unpause(k) ==
    /\ SignedByAdmin(k)
    /\ protocol' = [protocol EXCEPT !.paused = FALSE]
    /\ UNCHANGED <<external, operators, signing, tokens, purses>>

-----------------------------------------------------------------------------
(* The life of an operator.                                                *)

RegisterOperator(a, bond_amount) ==
    /\ Running
    /\ operators[a] = NoAccount
    /\ bond_amount >= protocol.min_bond
    /\ bond_amount <= wallet[a]
    /\ FeedIsLive
    /\ LET weight == ComputeStakeWeight(bond_amount)
       IN  /\ protocol.total_bonded + weight <= U64_MAX
           /\ protocol.operator_count + 1 <= U32_MAX
           /\ protocol' = [protocol EXCEPT !.total_bonded = @ + weight,
                                           !.operator_count = @ + 1]
           /\ operators' = [operators EXCEPT ![a] =
                               [bonded_amount |-> bond_amount,
                                stake_weight |-> weight,
                                jailed |-> FALSE,
                                unbonding_at |-> 0]]
    /\ wallet' = [wallet EXCEPT ![a] = @ - bond_amount]
    /\ bond_vault' = bond_vault + bond_amount
    /\ UNCHANGED <<external, signing, slash_pool, purses>>

\* begin_unbonding subtracts the operator from the totals whatever its state:
\* only unbonding_at is checked, not jailed.
BeginUnbonding(a) ==
    /\ Running
    /\ operators[a] # NoAccount
    /\ operators[a].unbonding_at = 0
    /\ slot + protocol.unbonding_slots <= U64_MAX
    /\ operators' = [operators EXCEPT
                       ![a].unbonding_at = slot + protocol.unbonding_slots,
                       ![a].jailed = TRUE]
    /\ protocol' = [protocol EXCEPT
                      !.total_bonded =
                          SaturatingSub(@, operators[a].stake_weight),
                      !.operator_count = SaturatingSub(@, 1)]
    /\ UNCHANGED <<external, signing, tokens, purses>>

\* Faulty variant: the unbonding period need not be over.
WithdrawalBegun(op) == op.unbonding_at # 0

WithdrawalDue(op) == op.unbonding_at # 0 /\ slot >= op.unbonding_at

\* Faulty variant: the bond is weighed once more before it is paid out.
WithdrawableByFeed(a) ==
    Initialized /\ operators[a] # NoAccount /\ WithdrawalDue(operators[a])
                /\ FeedIsLive

\* withdraw_bond looks neither at the pause flag nor at the price feed.
Withdrawable(a) ==
    Initialized /\ operators[a] # NoAccount /\ WithdrawalDue(operators[a])

\* The transfer fails where the vault holds less than the bond.
CanWithdraw(a) == Withdrawable(a) /\ operators[a].bonded_amount <= bond_vault

WithdrawBond(a) ==
    /\ CanWithdraw(a)
    /\ bond_vault' = bond_vault - operators[a].bonded_amount
    /\ wallet' = [wallet EXCEPT ![a] = @ + operators[a].bonded_amount]
    /\ operators' = [operators EXCEPT ![a] = NoAccount]
    /\ UNCHANGED <<external, protocol, signing, slash_pool, purses>>

\* Faulty variants: the bond on record is not reduced; the slash decides
\* afresh whether the operator is jailed.
SlashedKeepsBond(op, amount) ==
    LET residual == SaturatingSub(op.bonded_amount, amount)
    IN  [op EXCEPT !.stake_weight = ComputeStakeWeight(residual),
                   !.jailed = @ \/ residual < protocol.min_bond]

SlashedUnjails(op, amount) ==
    LET residual == SaturatingSub(op.bonded_amount, amount)
    IN  [op EXCEPT !.bonded_amount = residual,
                   !.stake_weight = ComputeStakeWeight(residual),
                   !.jailed = residual < protocol.min_bond]

\* What a slash leaves of an operator.
Slashed(op, amount) ==
    LET residual == SaturatingSub(op.bonded_amount, amount)
    IN  [op EXCEPT !.bonded_amount = residual,
                   !.stake_weight = ComputeStakeWeight(residual),
                   !.jailed = @ \/ residual < protocol.min_bond]

\* Faulty variant: what is left of an operator jailed just now stays in.
TotalsKeepJailed(op, op2) ==
    [total |-> IF IsActive(op)
               THEN SaturatingSub(protocol.total_bonded,
                        SaturatingSub(op.stake_weight, op2.stake_weight))
               ELSE protocol.total_bonded,
     count |-> protocol.operator_count]

\* The totals after a slash turned op into op2: an operator that was not
\* active had left them before.
TotalsAfterSlash(op, op2) ==
    LET shrunk == SaturatingSub(protocol.total_bonded,
                      SaturatingSub(op.stake_weight, op2.stake_weight))
    IN  IF ~IsActive(op)
        THEN [total |-> protocol.total_bonded, count |-> protocol.operator_count]
        ELSE IF op2.jailed
        THEN [total |-> SaturatingSub(shrunk, op2.stake_weight),
              count |-> SaturatingSub(protocol.operator_count, 1)]
        ELSE [total |-> shrunk, count |-> protocol.operator_count]

\* slash_operator needs the price feed, and works while paused.
SlashOperator(k, a, amount) ==
    /\ SignedByAdmin(k)
    /\ operators[a] # NoAccount
    /\ amount <= operators[a].bonded_amount
    /\ amount <= bond_vault
    /\ FeedIsLive
    /\ LET op == operators[a]
           op2 == Slashed(op, amount)
           totals == TotalsAfterSlash(op, op2)
       IN  /\ operators' = [operators EXCEPT ![a] = op2]
           /\ protocol' = [protocol EXCEPT !.total_bonded = totals.total,
                                           !.operator_count = totals.count]
    /\ bond_vault' = bond_vault - amount
    /\ slash_pool' = slash_pool + amount
    /\ UNCHANGED <<external, signing, wallet, purses>>

-----------------------------------------------------------------------------
(* The life of a signing request.                                          *)

\* create_signing_request: the account's address is (requester, nonce), its
\* request_id the global counter.  The requirement is fixed here, from the
\* total bonded now.
CreateSigningRequest(ad, scheme, message_hash, threshold, validity) ==
    /\ Running
    /\ requests[ad] = NoAccount
    /\ protocol.operator_count > 0
    /\ message_hash # Zero
    /\ 1 <= threshold /\ threshold <= protocol.operator_count
    /\ 1 <= validity /\ validity <= protocol.max_validity_slots
    /\ protocol.request_fee <= lamports[ad[1]]
    /\ RequirementFits(protocol.total_bonded, protocol.threshold_bps)
    /\ slot + validity <= U64_MAX
    /\ protocol.request_nonce < MaxRequests
    /\ requests' = [requests EXCEPT ![ad] =
                      [request_id |-> protocol.request_nonce,
                       scheme |-> scheme,
                       message_hash |-> message_hash,
                       threshold |-> threshold,
                       partials_collected |-> 0,
                       stake_weight_collected |-> 0,
                       required_stake_weight |->
                           RequiredStakeWeight(protocol.total_bonded,
                                               protocol.threshold_bps),
                       expiry_slot |-> slot + validity,
                       status |-> "Pending",
                       aggregate_sig |-> Zero]]
    /\ protocol' = [protocol EXCEPT !.request_nonce = @ + 1]
    /\ lamports' = [lamports EXCEPT ![ad[1]] = @ - protocol.request_fee]
    /\ fees' = fees + protocol.request_fee
    /\ credited' = [credited EXCEPT ![ad] = {}]
    /\ UNCHANGED <<external, operators, partials, tokens>>

\* submit_partial_signature: the receipt PDA is what stops a second share.
SubmitPartialSignature(ad, a, share) ==
    /\ Running
    /\ operators[a] # NoAccount
    /\ IsActive(operators[a])
    /\ IsPending(ad)
    /\ InTime(requests[ad])
    /\ VerifyPartialShare(requests[ad].scheme, share, requests[ad].message_hash)
    /\ ReceiptUnused(ad, a)
    /\ LET weight == operators[a].stake_weight
       IN  /\ requests[ad].partials_collected + 1 <= U16_MAX
           /\ requests[ad].stake_weight_collected + weight <= U64_MAX
           /\ requests' = [requests EXCEPT
                             ![ad].partials_collected = @ + 1,
                             ![ad].stake_weight_collected = @ + weight]
           /\ partials' = [partials EXCEPT ![ad][a] =
                              [submitted_slot |-> slot, stake_weight |-> weight]]
    /\ credited' = [credited EXCEPT ![ad] = @ \cup {a}]
    /\ UNCHANGED <<external, protocol, operators, tokens, purses>>

\* aggregate_and_emit: anyone may post any non-zero bytes as the aggregate of
\* a request whose threshold is met; sig names the message it is a signature of.
AggregateAndEmit(ad, sig) ==
    /\ Running
    /\ IsPending(ad)
    /\ InTime(requests[ad])
    /\ ThresholdMet(requests[ad])
    /\ sig # Zero
    /\ requests' = [requests EXCEPT ![ad].aggregate_sig = sig,
                                    ![ad].status = "Aggregated"]
    /\ UNCHANGED <<external, protocol, operators, partials, credited, tokens,
                   purses>>

\* close = requester: the request account goes, its receipts stay.
CloseRequest(ad) ==
    /\ requests' = [requests EXCEPT ![ad] = NoAccount]
    /\ credited' = [credited EXCEPT ![ad] = {}]
    /\ UNCHANGED <<external, protocol, operators, partials, tokens, purses>>

\* cancel_request: signed by the requester, at any slot, paused or not.
CancelRequest(ad) == Initialized /\ IsPending(ad) /\ CloseRequest(ad)

\* expire_request: anyone, once the request has expired, paused or not.
ExpireRequest(ad) ==
    Initialized /\ IsPending(ad) /\ ~InTime(requests[ad]) /\ CloseRequest(ad)

-----------------------------------------------------------------------------
(* The chain around the program.                                           *)

Tick ==
    /\ slot < MaxSlot
    /\ slot' = slot + 1
    /\ UNCHANGED <<live_feeds, protocol, operators, signing, tokens, purses>>

\* The publisher starts or stops keeping a feed's price positive.
FeedChange(f) ==
    /\ live_feeds' = IF f \in live_feeds THEN live_feeds \ {f}
                                         ELSE live_feeds \cup {f}
    /\ UNCHANGED <<slot, protocol, operators, signing, tokens, purses>>

-----------------------------------------------------------------------------

BootstrapStep ==
    \E k \in Keys, bps \in ThresholdBpsArgs, min_bond \in MinBondArgs,
       unbonding \in UnbondingArgs, fee \in FeeArgs, window \in WindowArgs,
       feed \in FeedArgs :
           Initialize(k, bps, min_bond, unbonding, fee, window, feed)

ConfigStep ==
    /\ Initialized
    /\ \E k \in Keys,
          bps \in ThresholdBpsArgs \cup {protocol.threshold_bps},
          min_bond \in MinBondArgs \cup {protocol.min_bond},
          unbonding \in UnbondingArgs \cup {protocol.unbonding_slots},
          fee \in FeeArgs \cup {protocol.request_fee},
          window \in WindowArgs \cup {protocol.max_validity_slots} :
              UpdateConfig(k, bps, min_bond, unbonding, fee, window)

AdminStep ==
    \E k \in Keys :
        \/ \E new_feed \in FeedArgs : SetLstPriceFeed(k, new_feed)
        \/ \E new_admin \in SuccessorArgs : TransferAdmin(k, new_admin)
        \/ AcceptAdmin(k)
        \/ Pause(k)
        \/ Unpause(k)

OperatorStep ==
    \E a \in Authorities :
        \/ \E bond_amount \in BondArgs : RegisterOperator(a, bond_amount)
        \/ BeginUnbonding(a)
        \/ WithdrawBond(a)
        \/ \E k \in Keys, amount \in SlashArgs : SlashOperator(k, a, amount)

RequestStep ==
    \E ad \in Addresses :
        \/ \E scheme \in Schemes, message_hash \in Messages \cup {Zero},
              threshold \in ThresholdArgs, validity \in ValidityArgs :
                CreateSigningRequest(ad, scheme, message_hash, threshold,
                                     validity)
        \/ \E a \in Authorities, share \in ShareArgs :
                SubmitPartialSignature(ad, a, share)
        \/ \E sig \in Messages \cup {Zero} : AggregateAndEmit(ad, sig)
        \/ CancelRequest(ad)
        \/ ExpireRequest(ad)

Next ==
    \/ BootstrapStep
    \/ ConfigStep
    \/ AdminStep
    \/ OperatorStep
    \/ RequestStep
    \/ Tick
    \/ \E f \in FlakyFeeds : FeedChange(f)

Spec == Init /\ [][Next]_vars
=============================================================================
