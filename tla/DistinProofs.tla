---------------------------- MODULE DistinProofs ----------------------------
(***************************************************************************)
(* Proofs about the on-chain program, for any number of operators,         *)
(* requesters and slots: types; the tallies of signing requests, their     *)
(* quorum and the collateral behind them; and that the program implements  *)
(* SigningLedger: what it keeps at an address is an intent, and each step  *)
(* of the program is a step of the ledger or leaves the ledger as it is.   *)
(***************************************************************************)
EXTENDS DistinProperties, TotalsProofs

-----------------------------------------------------------------------------
(* Type correctness.                                                       *)

LEMMA InitTypeOK == Init => TypeOK
BY ArgumentAssumption DEF Init, TypeOK

LEMMA BoundsType ==
    /\ BPS_DENOMINATOR \in Nat
    /\ MAX_VALIDITY_SLOTS_CEILING \in Nat
BY SMT DEF BPS_DENOMINATOR, MAX_VALIDITY_SLOTS_CEILING

LEMMA RequirementType ==
    ASSUME NEW total \in Nat, NEW bps \in Nat
    PROVE  RequiredStakeWeight(total, bps) \in Nat
<1>1. BPS_DENOMINATOR \in Nat \ {0}
    BY SMT DEF BPS_DENOMINATOR
<1>2. total * bps \in Nat
    OBVIOUS
<1>3. QED
    BY <1>1, <1>2 DEF RequiredStakeWeight

\* What the configuration instructions check keeps the parameters in range.
LEMMA ValidConfigType ==
    ASSUME NEW bps \in Nat, ValidThresholdBps(bps),
           NEW min_bond \in Nat, ValidMinBond(min_bond),
           NEW window \in Nat, ValidMaxValidity(window)
    PROVE  /\ bps \in 1..BPS_DENOMINATOR
           /\ min_bond \in Nat \ {0}
           /\ window \in 1..MAX_VALIDITY_SLOTS_CEILING
BY BoundsType DEF ValidThresholdBps, ValidMinBond, ValidMaxValidity

LEMMA InitializeType ==
    ASSUME NEW k \in Keys, NEW bps \in ThresholdBpsArgs,
           NEW min_bond \in MinBondArgs, NEW unbonding \in UnbondingArgs,
           NEW fee \in FeeArgs, NEW window \in WindowArgs, NEW feed \in FeedArgs,
           Initialize(k, bps, min_bond, unbonding, fee, window, feed)
    PROVE  protocol' \in ProtocolAccount
<1>1. /\ bps \in Nat /\ min_bond \in Nat /\ unbonding \in Nat
      /\ fee \in Nat /\ window \in Nat
      /\ feed \in Feeds \cup {DefaultKey}
    BY ArgumentAssumption
<1>2. /\ bps \in 1..BPS_DENOMINATOR
      /\ min_bond \in Nat \ {0}
      /\ window \in 1..MAX_VALIDITY_SLOTS_CEILING
    BY <1>1, ValidConfigType DEF Initialize
<1>3. 0 \in 0..U32_MAX /\ 0 \in 0..U64_MAX
    BY WidthAssumption
<1>4. QED
    BY <1>1, <1>2, <1>3 DEF Initialize, ProtocolAccount

LEMMA UpdateConfigType ==
    ASSUME protocol \in ProtocolAccount, NEW k \in Keys,
           NEW bps \in ThresholdBpsArgs \cup {protocol.threshold_bps},
           NEW min_bond \in MinBondArgs \cup {protocol.min_bond},
           NEW unbonding \in UnbondingArgs \cup {protocol.unbonding_slots},
           NEW fee \in FeeArgs \cup {protocol.request_fee},
           NEW window \in WindowArgs \cup {protocol.max_validity_slots},
           UpdateConfig(k, bps, min_bond, unbonding, fee, window)
    PROVE  protocol' \in ProtocolAccount
<1>1. /\ protocol.threshold_bps \in Nat /\ protocol.min_bond \in Nat
      /\ protocol.unbonding_slots \in Nat /\ protocol.request_fee \in Nat
      /\ protocol.max_validity_slots \in Nat
    BY BoundsType DEF ProtocolAccount
<1>2. /\ bps \in Nat /\ min_bond \in Nat /\ unbonding \in Nat
      /\ fee \in Nat /\ window \in Nat
    BY <1>1, ArgumentAssumption
<1>3. /\ bps \in 1..BPS_DENOMINATOR
      /\ min_bond \in Nat \ {0}
      /\ window \in 1..MAX_VALIDITY_SLOTS_CEILING
    BY <1>2, ValidConfigType DEF UpdateConfig
<1>4. QED
    BY <1>2, <1>3 DEF UpdateConfig, ProtocolAccount

\* The instructions that leave all but the protocol account alone.
LEMMA ProtocolOnlyTypeOK ==
    ASSUME TypeOK, protocol' \in ProtocolAccount,
           UNCHANGED <<external, operators, signing, tokens, purses>>
    PROVE  TypeOK'
BY DEF TypeOK, external, signing, tokens, purses

LEMMA BootstrapTypeOK ==
    ASSUME TypeOK, BootstrapStep
    PROVE  TypeOK'
<1>1. PICK k \in Keys, bps \in ThresholdBpsArgs, min_bond \in MinBondArgs,
           unbonding \in UnbondingArgs, fee \in FeeArgs, window \in WindowArgs,
           feed \in FeedArgs :
               Initialize(k, bps, min_bond, unbonding, fee, window, feed)
    BY DEF BootstrapStep
<1>2. protocol' \in ProtocolAccount
    BY <1>1, InitializeType
<1>3. UNCHANGED <<external, operators, signing, tokens, purses>>
    BY <1>1 DEF Initialize
<1>4. QED
    BY <1>2, <1>3, ProtocolOnlyTypeOK

LEMMA ConfigTypeOK ==
    ASSUME TypeOK, ConfigStep
    PROVE  TypeOK' /\ protocol' \in ProtocolAccount
<1>1. PICK k \in Keys,
           bps \in ThresholdBpsArgs \cup {protocol.threshold_bps},
           min_bond \in MinBondArgs \cup {protocol.min_bond},
           unbonding \in UnbondingArgs \cup {protocol.unbonding_slots},
           fee \in FeeArgs \cup {protocol.request_fee},
           window \in WindowArgs \cup {protocol.max_validity_slots} :
               UpdateConfig(k, bps, min_bond, unbonding, fee, window)
    BY DEF ConfigStep
<1>2. protocol \in ProtocolAccount
    BY DEF ConfigStep, TypeOK, Initialized
<1>3. protocol' \in ProtocolAccount
    BY <1>1, <1>2, UpdateConfigType
<1>4. UNCHANGED <<external, operators, signing, tokens, purses>>
    BY <1>1 DEF UpdateConfig
<1>5. TypeOK'
    BY <1>3, <1>4, ProtocolOnlyTypeOK
<1>6. QED
    BY <1>3, <1>5

LEMMA AdminTypeOK ==
    ASSUME TypeOK, AdminStep
    PROVE  TypeOK' /\ protocol' \in ProtocolAccount
<1>1. protocol \in ProtocolAccount
    BY DEF TypeOK, Initialized, AdminStep, SetLstPriceFeed, TransferAdmin,
       AcceptAdmin, Pause, Unpause, SignedByAdmin
<1>2. UNCHANGED <<external, operators, signing, tokens, purses>>
    BY DEF AdminStep, SetLstPriceFeed, TransferAdmin, AcceptAdmin, Pause, Unpause
<1>3. ASSUME NEW k \in Keys, NEW new_feed \in FeedArgs,
             SetLstPriceFeed(k, new_feed)
      PROVE  protocol' \in ProtocolAccount
    BY <1>1, <1>3, ArgumentAssumption DEF SetLstPriceFeed, ProtocolAccount
<1>4. ASSUME NEW k \in Keys, NEW new_admin \in SuccessorArgs,
             TransferAdmin(k, new_admin)
      PROVE  protocol' \in ProtocolAccount
    BY <1>1, <1>4, ArgumentAssumption DEF TransferAdmin, ProtocolAccount
<1>5. ASSUME NEW k \in Keys, AcceptAdmin(k)
      PROVE  protocol' \in ProtocolAccount
    BY <1>1, <1>5 DEF AcceptAdmin, ProtocolAccount
<1>6. ASSUME NEW k \in Keys, Pause(k) \/ Unpause(k)
      PROVE  protocol' \in ProtocolAccount
    BY <1>1, <1>6 DEF Pause, Unpause, ProtocolAccount
<1>7. protocol' \in ProtocolAccount
    BY <1>3, <1>4, <1>5, <1>6 DEF AdminStep
<1>8. TypeOK'
    BY <1>2, <1>7, ProtocolOnlyTypeOK
<1>9. QED
    BY <1>7, <1>8

\* A member's account, and the protocol account once there is one.
LEMMA AccountTypes ==
    ASSUME TypeOK
    PROVE  /\ Initialized => protocol \in ProtocolAccount
           /\ \A a \in Authorities :
                 operators[a] # NoAccount => operators[a] \in OperatorAccount
           /\ \A ad \in Addresses :
                 requests[ad] # NoAccount => requests[ad] \in SigningRequest
BY DEF TypeOK, Initialized

LEMMA ProtocolTotalsType ==
    ASSUME protocol \in ProtocolAccount,
           NEW total \in 0..U64_MAX, NEW count \in 0..U32_MAX
    PROVE  [protocol EXCEPT !.total_bonded = total, !.operator_count = count]
              \in ProtocolAccount
BY DEF ProtocolAccount

LEMMA RegisterTypeOK ==
    ASSUME TypeOK, NEW a \in Authorities, NEW bond_amount \in BondArgs,
           RegisterOperator(a, bond_amount)
    PROVE  TypeOK' /\ protocol' \in ProtocolAccount
<1>1. protocol \in ProtocolAccount /\ bond_amount \in Nat
    BY AccountTypes, ArgumentAssumption DEF RegisterOperator, Running
<1>2. /\ protocol.total_bonded \in Nat /\ protocol.operator_count \in Nat
      /\ U64_MAX \in Nat /\ U32_MAX \in Nat
    BY <1>1, WidthAssumption DEF ProtocolAccount
<1>3. /\ protocol.total_bonded + bond_amount \in 0..U64_MAX
      /\ protocol.operator_count + 1 \in 0..U32_MAX
    BY <1>1, <1>2 DEF RegisterOperator, ComputeStakeWeight
<1>4. protocol' \in ProtocolAccount
    BY <1>1, <1>3, ProtocolTotalsType DEF RegisterOperator, ComputeStakeWeight
<1>5. [bonded_amount |-> bond_amount, stake_weight |-> bond_amount,
       jailed |-> FALSE, unbonding_at |-> 0] \in OperatorAccount
    BY <1>1, <1>2 DEF OperatorAccount
<1>6. operators' \in [Authorities -> OperatorAccount \cup {NoAccount}]
    BY <1>5 DEF RegisterOperator, ComputeStakeWeight, TypeOK
<1>7. bond_vault' \in Nat /\ wallet' \in [Authorities -> Nat]
    BY <1>1 DEF RegisterOperator, TypeOK
<1>8. TypeOK'
    BY <1>4, <1>6, <1>7 DEF RegisterOperator, TypeOK, external, signing, purses
<1>9. QED
    BY <1>4, <1>8

LEMMA UnbondingTypeOK ==
    ASSUME TypeOK, NEW a \in Authorities, BeginUnbonding(a)
    PROVE  TypeOK' /\ protocol' \in ProtocolAccount
<1>1. /\ protocol \in ProtocolAccount
      /\ operators[a] \in OperatorAccount
      /\ slot \in Nat
    BY AccountTypes DEF BeginUnbonding, Running, TypeOK
<1>2. /\ protocol.total_bonded \in 0..U64_MAX
      /\ protocol.operator_count \in 0..U32_MAX
      /\ protocol.unbonding_slots \in Nat
      /\ operators[a].stake_weight \in Nat
    BY <1>1 DEF ProtocolAccount, OperatorAccount
<1>3. /\ SaturatingSub(protocol.total_bonded, operators[a].stake_weight)
            \in 0..U64_MAX
      /\ SaturatingSub(protocol.operator_count, 1) \in 0..U32_MAX
    BY <1>2, WidthAssumption DEF SaturatingSub
<1>4. protocol' \in ProtocolAccount
    BY <1>1, <1>3, ProtocolTotalsType DEF BeginUnbonding
<1>5. slot + protocol.unbonding_slots \in 0..U64_MAX
    BY <1>1, <1>2, WidthAssumption DEF BeginUnbonding
<1>6. operators' \in [Authorities -> OperatorAccount \cup {NoAccount}]
    BY <1>1, <1>5 DEF BeginUnbonding, TypeOK, OperatorAccount
<1>7. TypeOK'
    BY <1>4, <1>6 DEF BeginUnbonding, TypeOK, external, signing, tokens, purses
<1>8. QED
    BY <1>4, <1>7

LEMMA WithdrawTypeOK ==
    ASSUME TypeOK, NEW a \in Authorities, WithdrawBond(a)
    PROVE  TypeOK'
<1>1. operators[a].bonded_amount \in Nat
    BY AccountTypes DEF WithdrawBond, CanWithdraw, Withdrawable, OperatorAccount
<1>2. bond_vault' \in Nat /\ wallet' \in [Authorities -> Nat]
    BY <1>1 DEF WithdrawBond, CanWithdraw, TypeOK
<1>3. operators' \in [Authorities -> OperatorAccount \cup {NoAccount}]
    BY DEF WithdrawBond, TypeOK
<1>4. QED
    BY <1>2, <1>3 DEF WithdrawBond, TypeOK, external, signing, purses

\* What a slash makes of an operator is an operator with a smaller bond, and
\* it never frees one that is jailed.
LEMMA SlashedType ==
    ASSUME protocol \in ProtocolAccount, NEW op \in OperatorAccount,
           NEW amount \in Nat, amount <= op.bonded_amount
    PROVE  /\ Slashed(op, amount) \in OperatorAccount
           /\ Slashed(op, amount).bonded_amount = op.bonded_amount - amount
           /\ Slashed(op, amount).stake_weight = op.bonded_amount - amount
           /\ Slashed(op, amount).unbonding_at = op.unbonding_at
           /\ op.jailed => Slashed(op, amount).jailed
<1>1. op.bonded_amount \in Nat /\ op.jailed \in BOOLEAN
    BY DEF OperatorAccount
<1>2. SaturatingSub(op.bonded_amount, amount) = op.bonded_amount - amount
    BY <1>1 DEF SaturatingSub
<1>3. op.bonded_amount - amount \in Nat
    BY <1>1
<1>4. QED
    BY <1>1, <1>2, <1>3 DEF Slashed, ComputeStakeWeight, OperatorAccount

LEMMA TotalsAfterSlashType ==
    ASSUME protocol \in ProtocolAccount,
           NEW op \in OperatorAccount, NEW op2 \in OperatorAccount
    PROVE  /\ TotalsAfterSlash(op, op2).total \in 0..U64_MAX
           /\ TotalsAfterSlash(op, op2).count \in 0..U32_MAX
<1>1. /\ protocol.total_bonded \in 0..U64_MAX
      /\ protocol.operator_count \in 0..U32_MAX
      /\ op.stake_weight \in Nat /\ op2.stake_weight \in Nat
    BY DEF ProtocolAccount, OperatorAccount
<1> DEFINE delta == SaturatingSub(op.stake_weight, op2.stake_weight)
           shrunk == SaturatingSub(protocol.total_bonded, delta)
<1>2. delta \in Nat
    BY <1>1 DEF SaturatingSub
<1>3. shrunk \in 0..U64_MAX
    <2> HIDE DEF delta
    <2>1. QED
        BY <1>1, <1>2, WidthAssumption DEF SaturatingSub
<1>4. /\ SaturatingSub(shrunk, op2.stake_weight) \in 0..U64_MAX
      /\ SaturatingSub(protocol.operator_count, 1) \in 0..U32_MAX
    <2> HIDE DEF shrunk
    <2>1. QED
        BY <1>1, <1>3, WidthAssumption DEF SaturatingSub
<1>5. QED
    BY <1>1, <1>3, <1>4 DEF TotalsAfterSlash

LEMMA SlashTypeOK ==
    ASSUME TypeOK, NEW k \in Keys, NEW a \in Authorities,
           NEW amount \in SlashArgs, SlashOperator(k, a, amount)
    PROVE  TypeOK' /\ protocol' \in ProtocolAccount
<1> DEFINE op == operators[a]
           op2 == Slashed(op, amount)
           totals == TotalsAfterSlash(op, op2)
<1>1. /\ protocol \in ProtocolAccount /\ op \in OperatorAccount
      /\ amount \in Nat /\ amount <= op.bonded_amount
    BY AccountTypes, ArgumentAssumption DEF SlashOperator, SignedByAdmin
<1>2. op2 \in OperatorAccount
    BY <1>1, SlashedType
<1>3. totals.total \in 0..U64_MAX /\ totals.count \in 0..U32_MAX
    BY <1>1, <1>2, TotalsAfterSlashType
<1>4. /\ operators' = [operators EXCEPT ![a] = op2]
      /\ protocol' = [protocol EXCEPT !.total_bonded = totals.total,
                                      !.operator_count = totals.count]
    BY DEF SlashOperator
<1> HIDE DEF op2, totals
<1>5. protocol' \in ProtocolAccount
    BY <1>1, <1>3, <1>4, ProtocolTotalsType
<1>6. operators' \in [Authorities -> OperatorAccount \cup {NoAccount}]
    BY <1>2, <1>4 DEF TypeOK
<1>7. bond_vault' \in Nat /\ slash_pool' \in Nat
    BY <1>1 DEF SlashOperator, TypeOK
<1>8. TypeOK'
    BY <1>5, <1>6, <1>7 DEF SlashOperator, TypeOK, external, signing, purses
<1>9. QED
    BY <1>5, <1>8

\* The account that create_signing_request makes is a request.
LEMMA CreatedType ==
    ASSUME TypeOK, NEW ad \in Addresses, NEW scheme \in Schemes,
           NEW message_hash \in Messages \cup {Zero},
           NEW threshold \in ThresholdArgs, NEW validity \in ValidityArgs,
           CreateSigningRequest(ad, scheme, message_hash, threshold, validity)
    PROVE  /\ requests'[ad] \in SigningRequest
           /\ requests' = [requests EXCEPT ![ad] = requests'[ad]]
<1> DEFINE need == RequiredStakeWeight(protocol.total_bonded,
                                       protocol.threshold_bps)
           req == [request_id |-> protocol.request_nonce,
                   scheme |-> scheme,
                   message_hash |-> message_hash,
                   threshold |-> threshold,
                   partials_collected |-> 0,
                   stake_weight_collected |-> 0,
                   required_stake_weight |-> need,
                   expiry_slot |-> slot + validity,
                   status |-> "Pending",
                   aggregate_sig |-> Zero]
<1>1. protocol \in ProtocolAccount /\ slot \in Nat
    BY AccountTypes DEF CreateSigningRequest, Running, TypeOK
<1>2. /\ protocol.total_bonded \in Nat /\ protocol.threshold_bps \in Nat
      /\ protocol.request_nonce \in Nat
    BY <1>1, BoundsType, WidthAssumption DEF ProtocolAccount
<1>3. need \in Nat
    BY <1>2, RequirementType
<1>4. /\ threshold \in Nat \ {0} /\ validity \in Nat
      /\ scheme \in SchemeSet /\ message_hash \in Messages
    BY ArgumentAssumption DEF CreateSigningRequest
<1>5. /\ slot + validity \in 0..U64_MAX
      /\ 0 \in 0..U16_MAX /\ 0 \in 0..U64_MAX
    BY <1>1, <1>4, WidthAssumption DEF CreateSigningRequest
<1>6. requests' = [requests EXCEPT ![ad] = req]
    BY DEF CreateSigningRequest
<1> HIDE DEF need
<1>7. req \in SigningRequest
    BY <1>2, <1>3, <1>4, <1>5 DEF SigningRequest, RequestStatus
<1> HIDE DEF req
<1>8. requests'[ad] = req
    BY <1>6 DEF TypeOK
<1>9. QED
    BY <1>6, <1>7, <1>8

LEMMA CreateTypeOK ==
    ASSUME TypeOK, NEW ad \in Addresses, NEW scheme \in Schemes,
           NEW message_hash \in Messages \cup {Zero},
           NEW threshold \in ThresholdArgs, NEW validity \in ValidityArgs,
           CreateSigningRequest(ad, scheme, message_hash, threshold, validity)
    PROVE  TypeOK' /\ protocol' \in ProtocolAccount
<1>1. requests' \in [Addresses -> SigningRequest \cup {NoAccount}]
    BY CreatedType DEF TypeOK
<1>2. protocol \in ProtocolAccount /\ protocol.request_fee \in Nat
      /\ protocol.request_nonce \in Nat
    BY AccountTypes DEF CreateSigningRequest, Running, ProtocolAccount
<1>3. protocol' \in ProtocolAccount
    BY <1>2 DEF CreateSigningRequest, ProtocolAccount
<1>4. lamports' \in [Requesters -> Nat]
    <2>1. ad[1] \in Requesters
        BY DEF Addresses
    <2>2. lamports[ad[1]] - protocol.request_fee \in Nat
        BY <1>2, <2>1 DEF CreateSigningRequest, TypeOK
    <2>3. lamports' = [lamports EXCEPT ![ad[1]] = @ - protocol.request_fee]
        BY DEF CreateSigningRequest
    <2>4. QED
        BY <2>1, <2>2, <2>3 DEF TypeOK
<1>5. fees' \in Nat
    BY <1>2 DEF CreateSigningRequest, TypeOK
<1>6. credited' \in [Addresses -> SUBSET Authorities]
    BY DEF CreateSigningRequest, TypeOK
<1>7. UNCHANGED <<external, operators, partials, tokens>>
    BY DEF CreateSigningRequest
<1>8. TypeOK'
    BY <1>1, <1>3, <1>4, <1>5, <1>6, <1>7 DEF TypeOK, external, tokens
<1>9. QED
    BY <1>3, <1>8

\* What a share makes of a request is a request.
LEMMA CountedType ==
    ASSUME TypeOK, NEW ad \in Addresses, NEW a \in Authorities,
           NEW share \in ShareArgs, SubmitPartialSignature(ad, a, share)
    PROVE  /\ requests[ad] \in SigningRequest
           /\ operators[a] \in OperatorAccount
           /\ [requests[ad] EXCEPT
                  !.partials_collected = @ + 1,
                  !.stake_weight_collected = @ + operators[a].stake_weight]
                 \in SigningRequest
<1> DEFINE req == requests[ad]
           weight == operators[a].stake_weight
<1>1. req \in SigningRequest /\ operators[a] \in OperatorAccount
    BY AccountTypes DEF SubmitPartialSignature, IsPending
<1>2. /\ req.partials_collected \in 0..U16_MAX
      /\ req.stake_weight_collected \in 0..U64_MAX
      /\ weight \in Nat
    BY <1>1 DEF SigningRequest, OperatorAccount
<1>3. /\ req.partials_collected + 1 \in 0..U16_MAX
      /\ req.stake_weight_collected + weight \in 0..U64_MAX
    BY <1>1, <1>2, WidthAssumption DEF SubmitPartialSignature
<1>4. QED
    BY <1>1, <1>3 DEF SigningRequest

LEMMA SubmitTypeOK ==
    ASSUME TypeOK, NEW ad \in Addresses, NEW a \in Authorities,
           NEW share \in ShareArgs, SubmitPartialSignature(ad, a, share)
    PROVE  TypeOK'
<1> DEFINE req == requests[ad]
           weight == operators[a].stake_weight
           counted == [req EXCEPT !.partials_collected = @ + 1,
                                  !.stake_weight_collected = @ + weight]
<1>1. counted \in SigningRequest /\ weight \in Nat
    BY CountedType DEF OperatorAccount
<1>2. requests' = [requests EXCEPT ![ad] = counted]
    BY DEF SubmitPartialSignature, TypeOK
<1> HIDE DEF counted
<1>3. requests' \in [Addresses -> SigningRequest \cup {NoAccount}]
    BY <1>1, <1>2 DEF TypeOK
<1>4. [submitted_slot |-> slot, stake_weight |-> weight] \in PartialSignature
    BY <1>1 DEF PartialSignature, TypeOK
<1>5. partials' \in
          [Addresses -> [Authorities -> PartialSignature \cup {NoAccount}]]
    BY <1>4 DEF SubmitPartialSignature, TypeOK
<1>6. credited' \in [Addresses -> SUBSET Authorities]
    BY DEF SubmitPartialSignature, TypeOK
<1>7. QED
    BY <1>3, <1>5, <1>6
       DEF SubmitPartialSignature, TypeOK, external, tokens, purses

LEMMA AggregateTypeOK ==
    ASSUME TypeOK, NEW ad \in Addresses, NEW sig \in Messages \cup {Zero},
           AggregateAndEmit(ad, sig)
    PROVE  TypeOK'
<1>1. requests[ad] \in SigningRequest
    BY AccountTypes DEF AggregateAndEmit, IsPending
<1>2. requests' \in [Addresses -> SigningRequest \cup {NoAccount}]
    BY <1>1 DEF AggregateAndEmit, TypeOK, SigningRequest, RequestStatus
<1>3. QED
    BY <1>2 DEF AggregateAndEmit, TypeOK, external, tokens, purses

LEMMA CloseTypeOK ==
    ASSUME TypeOK, NEW ad \in Addresses, CloseRequest(ad)
    PROVE  TypeOK'
BY DEF CloseRequest, TypeOK, external, tokens, purses

LEMMA OperatorStepTypeOK ==
    ASSUME TypeOK, OperatorStep
    PROVE  TypeOK'
BY RegisterTypeOK, UnbondingTypeOK, WithdrawTypeOK, SlashTypeOK
   DEF OperatorStep

LEMMA RequestStepTypeOK ==
    ASSUME TypeOK, RequestStep
    PROVE  TypeOK'
BY CreateTypeOK, SubmitTypeOK, AggregateTypeOK, CloseTypeOK
   DEF RequestStep, CancelRequest, ExpireRequest

LEMMA OutsideTypeOK ==
    ASSUME TypeOK, Tick \/ \E f \in FlakyFeeds : FeedChange(f)
    PROVE  TypeOK'
<1>1. CASE Tick
    BY <1>1 DEF Tick, TypeOK, signing, tokens, purses
<1>2. ASSUME NEW f \in FlakyFeeds, FeedChange(f)
      PROVE  TypeOK'
    <2>1. live_feeds' \subseteq Feeds
        BY <1>2, ArgumentAssumption DEF FeedChange, TypeOK
    <2>2. QED
        BY <1>2, <2>1 DEF FeedChange, TypeOK, signing, tokens, purses
<1>3. QED
    BY <1>1, <1>2

LEMMA NextTypeOK ==
    ASSUME TypeOK, [Next]_vars
    PROVE  TypeOK'
<1>1. CASE UNCHANGED vars
    BY <1>1 DEF TypeOK, vars
<1>2. QED
    BY <1>1, BootstrapTypeOK, ConfigTypeOK, AdminTypeOK, OperatorStepTypeOK,
       RequestStepTypeOK, OutsideTypeOK DEF Next

(* Every account always holds values of its fields' types, and the          *)
(* parameters stay in the ranges initialize and update_config accept.       *)
THEOREM TypeCorrect == Spec => []TypeOK
<1>1. Init => TypeOK
    BY InitTypeOK
<1>2. TypeOK /\ [Next]_vars => TypeOK'
    BY NextTypeOK
<1>3. QED
    BY <1>1, <1>2, PTL DEF Spec

-----------------------------------------------------------------------------
(* Which steps touch requests, receipts and signers.                       *)

Creates(ad) ==
    \E scheme \in Schemes, message_hash \in Messages \cup {Zero},
       threshold \in ThresholdArgs, validity \in ValidityArgs :
          CreateSigningRequest(ad, scheme, message_hash, threshold, validity)

Submits(ad, a) == \E share \in ShareArgs : SubmitPartialSignature(ad, a, share)

Settles(ad) == \E sig \in Messages \cup {Zero} : AggregateAndEmit(ad, sig)

Closes(ad) == IsPending(ad) /\ CloseRequest(ad)

LEMMA SigningSteps ==
    ASSUME [Next]_vars
    PROVE  \/ UNCHANGED signing
           \/ \E ad \in Addresses :
                 \/ Creates(ad)
                 \/ \E a \in Authorities : Submits(ad, a)
                 \/ Settles(ad)
                 \/ Closes(ad)
<1>1. CASE UNCHANGED vars
    BY <1>1 DEF vars, signing
<1>2. CASE BootstrapStep
    BY <1>2 DEF BootstrapStep, Initialize, signing
<1>3. CASE ConfigStep
    BY <1>3 DEF ConfigStep, UpdateConfig, signing
<1>4. CASE AdminStep
    BY <1>4 DEF AdminStep, SetLstPriceFeed, TransferAdmin, AcceptAdmin, Pause,
       Unpause, signing
<1>5. CASE OperatorStep
    BY <1>5 DEF OperatorStep, RegisterOperator, BeginUnbonding, WithdrawBond,
       SlashOperator, signing
<1>6. CASE RequestStep
    BY <1>6 DEF RequestStep, Creates, Submits, Settles, Closes, CancelRequest,
       ExpireRequest
<1>7. CASE Tick \/ \E f \in FlakyFeeds : FeedChange(f)
    BY <1>7 DEF Tick, FeedChange, signing
<1>8. QED
    BY <1>1, <1>2, <1>3, <1>4, <1>5, <1>6, <1>7 DEF Next

-----------------------------------------------------------------------------
(* Tallies.                                                                *)

\* A receipt that did not exist is not among those counted.
LEMMA SignerIsNew ==
    ASSUME TypeOK, TallyCountsReceipts,
           NEW ad \in Addresses, NEW a \in Authorities, Submits(ad, a)
    PROVE  /\ a \notin credited[ad]
           /\ IsFiniteSet(credited[ad])
           /\ Cardinality(credited[ad]) \in Nat
           /\ Cardinality(credited[ad] \cup {a}) = Cardinality(credited[ad]) + 1
<1>1. a \notin credited[ad]
    BY DEF Submits, SubmitPartialSignature, ReceiptUnused, TallyCountsReceipts
<1>2. credited[ad] \subseteq Authorities
    BY DEF TypeOK
<1>3. IsFiniteSet(credited[ad])
    BY <1>2, AuthoritiesAssumption, FS_Subset
<1>4. /\ Cardinality(credited[ad]) \in Nat
      /\ Cardinality(credited[ad] \cup {a}) = Cardinality(credited[ad]) + 1
    BY <1>1, <1>3, FS_CardinalityType, FS_AddElement
<1>5. QED
    BY <1>1, <1>3, <1>4

LEMMA SubmitEffect ==
    ASSUME TypeOK, NEW ad \in Addresses, NEW a \in Authorities, Submits(ad, a)
    PROVE  /\ operators[a] \in OperatorAccount
           /\ requests[ad] \in SigningRequest
           /\ requests[ad] # NoAccount /\ requests[ad].status = "Pending"
           /\ requests'[ad] \in SigningRequest
           /\ requests'[ad] # NoAccount
           /\ requests'[ad].partials_collected =
                 requests[ad].partials_collected + 1
           /\ requests'[ad].stake_weight_collected =
                 requests[ad].stake_weight_collected + operators[a].stake_weight
           /\ \A fld \in DOMAIN requests[ad] \
                    {"partials_collected", "stake_weight_collected"} :
                 requests'[ad][fld] = requests[ad][fld]
           /\ partials'[ad][a] =
                 [submitted_slot |-> slot,
                  stake_weight |-> operators[a].stake_weight]
           /\ partials'[ad][a] # NoAccount
           /\ \A b \in Authorities \ {a} : partials'[ad][b] = partials[ad][b]
           /\ credited'[ad] = credited[ad] \cup {a}
<1> DEFINE weight == operators[a].stake_weight
           counted == [requests[ad] EXCEPT !.partials_collected = @ + 1,
                                           !.stake_weight_collected = @ + weight]
<1>1. PICK share \in ShareArgs : SubmitPartialSignature(ad, a, share)
    BY DEF Submits
<1>2. /\ operators[a] \in OperatorAccount
      /\ requests[ad] \in SigningRequest
      /\ counted \in SigningRequest
    BY <1>1, CountedType
<1>3. requests' = [requests EXCEPT ![ad] = counted]
    BY <1>1 DEF SubmitPartialSignature, TypeOK
<1>4. requests[ad] # NoAccount /\ requests[ad].status = "Pending"
    BY <1>1 DEF SubmitPartialSignature, IsPending
<1> HIDE DEF counted
<1>5. requests'[ad] = counted
    BY <1>3 DEF TypeOK
<1>6. counted # NoAccount
    BY <1>2, SentinelAssumption
<1>7. /\ partials'[ad][a] =
            [submitted_slot |-> slot, stake_weight |-> weight]
      /\ \A b \in Authorities \ {a} : partials'[ad][b] = partials[ad][b]
    BY <1>1 DEF SubmitPartialSignature, TypeOK
<1>8. [submitted_slot |-> slot, stake_weight |-> weight] # NoAccount
    BY <1>2, SentinelAssumption DEF PartialSignature, OperatorAccount, TypeOK
<1>9. credited'[ad] = credited[ad] \cup {a}
    BY <1>1 DEF SubmitPartialSignature, TypeOK
<1>10. /\ counted.partials_collected = requests[ad].partials_collected + 1
       /\ counted.stake_weight_collected =
             requests[ad].stake_weight_collected + weight
       /\ \A fld \in DOMAIN requests[ad] \
                {"partials_collected", "stake_weight_collected"} :
             counted[fld] = requests[ad][fld]
    BY <1>2 DEF counted, SigningRequest
<1>11. QED
    BY <1>2, <1>4, <1>5, <1>6, <1>7, <1>8, <1>9, <1>10

\* A step at one address leaves the others alone.
LEMMA OthersUnchanged ==
    ASSUME TypeOK, NEW ad \in Addresses,
           \/ Creates(ad)
           \/ \E a \in Authorities : Submits(ad, a)
           \/ Settles(ad)
           \/ Closes(ad),
           NEW other \in Addresses, other # ad
    PROVE  /\ requests'[other] = requests[other]
           /\ partials'[other] = partials[other]
           /\ credited'[other] = credited[other]
BY DEF TypeOK, Creates, Submits, Settles, Closes, CreateSigningRequest,
   SubmitPartialSignature, AggregateAndEmit, CloseRequest

LEMMA CreateEffect ==
    ASSUME TypeOK, NEW ad \in Addresses, Creates(ad)
    PROVE  /\ requests'[ad] # NoAccount
           /\ requests'[ad] \in SigningRequest
           /\ requests'[ad].partials_collected = 0
           /\ requests'[ad].stake_weight_collected = 0
           /\ requests'[ad].status = "Pending"
           /\ requests'[ad].aggregate_sig = Zero
           /\ partials'[ad] = partials[ad]
           /\ credited'[ad] = {}
<1>1. PICK scheme \in Schemes, message_hash \in Messages \cup {Zero},
           threshold \in ThresholdArgs, validity \in ValidityArgs :
               CreateSigningRequest(ad, scheme, message_hash, threshold, validity)
    BY DEF Creates
<1>2. /\ requests'[ad].partials_collected = 0
      /\ requests'[ad].stake_weight_collected = 0
      /\ requests'[ad].status = "Pending"
      /\ requests'[ad].aggregate_sig = Zero
      /\ partials'[ad] = partials[ad]
      /\ credited'[ad] = {}
    BY <1>1 DEF CreateSigningRequest, TypeOK
<1>3. requests'[ad] \in SigningRequest
    BY <1>1, CreatedType
<1>4. QED
    BY <1>2, <1>3, SentinelAssumption

LEMMA SettleEffect ==
    ASSUME TypeOK, NEW ad \in Addresses, Settles(ad)
    PROVE  /\ requests[ad] \in SigningRequest
           /\ requests[ad] # NoAccount
           /\ requests[ad].status = "Pending"
           /\ slot <= requests[ad].expiry_slot
           /\ ThresholdMet(requests[ad])
           /\ \E sig \in Messages :
                 /\ requests' = [requests EXCEPT ![ad].aggregate_sig = sig,
                                                 ![ad].status = "Aggregated"]
                 /\ requests'[ad].aggregate_sig = sig
           /\ requests'[ad].status = "Aggregated"
           /\ \A fld \in DOMAIN requests[ad] \ {"aggregate_sig", "status"} :
                 requests'[ad][fld] = requests[ad][fld]
           /\ requests'[ad] \in SigningRequest
           /\ requests'[ad] # NoAccount
           /\ partials' = partials /\ credited' = credited
<1>1. PICK sig \in Messages \cup {Zero} : AggregateAndEmit(ad, sig)
    BY DEF Settles
<1>2. /\ requests[ad] \in SigningRequest
      /\ requests[ad] # NoAccount
      /\ requests[ad].status = "Pending"
    BY <1>1, AccountTypes DEF AggregateAndEmit, IsPending
<1>3. /\ slot <= requests[ad].expiry_slot
      /\ ThresholdMet(requests[ad])
      /\ sig \in Messages
      /\ requests' = [requests EXCEPT ![ad].aggregate_sig = sig,
                                      ![ad].status = "Aggregated"]
      /\ partials' = partials /\ credited' = credited
    BY <1>1 DEF AggregateAndEmit, InTime
<1> DEFINE settled == [requests[ad] EXCEPT !.aggregate_sig = sig,
                                           !.status = "Aggregated"]
<1>4. requests'[ad] = settled
    BY <1>3 DEF TypeOK
<1>5. settled \in SigningRequest
    <2>1. requests[ad] \in SigningRequest /\ sig \in Messages
        BY <1>2, <1>3
    <2>2. QED
        BY <2>1 DEF SigningRequest, RequestStatus
<1>6. /\ settled.aggregate_sig = sig
      /\ settled.status = "Aggregated"
      /\ \A fld \in DOMAIN requests[ad] \ {"aggregate_sig", "status"} :
            settled[fld] = requests[ad][fld]
    BY <1>2 DEF SigningRequest
<1> HIDE DEF settled
<1>7. settled # NoAccount
    BY <1>5, SentinelAssumption
<1>8. QED
    BY <1>2, <1>3, <1>4, <1>5, <1>6, <1>7

LEMMA CloseEffect ==
    ASSUME TypeOK, NEW ad \in Addresses, Closes(ad)
    PROVE  /\ requests' = [requests EXCEPT ![ad] = NoAccount]
           /\ requests'[ad] = NoAccount
           /\ credited'[ad] = {}
BY DEF TypeOK, Closes, CloseRequest

-----------------------------------------------------------------------------
(* Tallies.                                                                *)

\* What TallyCountsReceipts says of one address.
CountsReceiptsAt(ad) ==
    /\ \A a \in credited[ad] : partials[ad][a] # NoAccount
    /\ requests[ad] = NoAccount => credited[ad] = {}
    /\ requests[ad] # NoAccount =>
          requests[ad].partials_collected = Cardinality(credited[ad])

LEMMA SubmitCounts ==
    ASSUME TypeOK, TallyCountsReceipts,
           NEW ad \in Addresses, NEW a \in Authorities, Submits(ad, a)
    PROVE  CountsReceiptsAt(ad)'
<1>1. /\ \A b \in credited[ad] : partials[ad][b] # NoAccount
      /\ requests[ad].partials_collected = Cardinality(credited[ad])
    BY SubmitEffect DEF TallyCountsReceipts
<1>2. requests'[ad].partials_collected = requests[ad].partials_collected + 1
    BY SubmitEffect DEF SigningRequest
<1>3. /\ credited'[ad] = credited[ad] \cup {a}
      /\ Cardinality(credited[ad] \cup {a}) = Cardinality(credited[ad]) + 1
    BY SignerIsNew, SubmitEffect
<1>4. \A b \in credited'[ad] : partials'[ad][b] # NoAccount
    <2>1. credited[ad] \subseteq Authorities
        BY DEF TypeOK
    <2>2. /\ partials'[ad][a] # NoAccount
          /\ \A b \in Authorities \ {a} : partials'[ad][b] = partials[ad][b]
        BY SubmitEffect
    <2>3. QED
        BY <1>1, <1>3, <2>1, <2>2
<1>5. QED
    BY <1>1, <1>2, <1>3, <1>4, SubmitEffect DEF CountsReceiptsAt

LEMMA NextCounts ==
    ASSUME TypeOK, TallyCountsReceipts, [Next]_vars
    PROVE  TallyCountsReceipts'
<1>1. CASE UNCHANGED signing
    BY <1>1 DEF TallyCountsReceipts, signing
<1>2. ASSUME NEW ad \in Addresses,
             \/ Creates(ad)
             \/ \E a \in Authorities : Submits(ad, a)
             \/ Settles(ad)
             \/ Closes(ad)
      PROVE  TallyCountsReceipts'
    <2>1. ASSUME NEW other \in Addresses, other # ad
          PROVE  CountsReceiptsAt(other)'
        <3>1. CountsReceiptsAt(other)
            BY DEF TallyCountsReceipts, CountsReceiptsAt
        <3>2. QED
            BY <1>2, <2>1, <3>1, OthersUnchanged DEF CountsReceiptsAt
    <2>2. CountsReceiptsAt(ad)'
        <3>1. CASE Creates(ad)
            <4>1. /\ requests'[ad] # NoAccount
                  /\ requests'[ad].partials_collected = 0
                  /\ credited'[ad] = {}
                BY <3>1, CreateEffect
            <4>2. Cardinality(credited'[ad]) = 0
                BY <4>1, FS_EmptySet
            <4>3. QED
                BY <4>1, <4>2 DEF CountsReceiptsAt
        <3>2. CASE \E a \in Authorities : Submits(ad, a)
            <4>1. PICK a \in Authorities : Submits(ad, a)
                BY <3>2
            <4>2. QED
                BY <4>1, SubmitCounts
        <3>3. CASE Settles(ad)
            <4>1. /\ requests[ad] # NoAccount /\ requests'[ad] # NoAccount
                  /\ partials' = partials /\ credited' = credited
                BY <3>3, SettleEffect
            <4>2. requests'[ad].partials_collected = requests[ad].partials_collected
                BY <3>3, SettleEffect DEF SigningRequest
            <4>3. CountsReceiptsAt(ad)
                BY DEF TallyCountsReceipts, CountsReceiptsAt
            <4>4. QED
                BY <4>1, <4>2, <4>3 DEF CountsReceiptsAt
        <3>4. CASE Closes(ad)
            <4>1. requests'[ad] = NoAccount /\ credited'[ad] = {}
                BY <3>4, CloseEffect
            <4>2. QED
                BY <4>1 DEF CountsReceiptsAt
        <3>5. QED
            BY <1>2, <3>1, <3>2, <3>3, <3>4
    <2>3. QED
        BY <2>1, <2>2 DEF TallyCountsReceipts, CountsReceiptsAt
<1>3. QED
    BY <1>1, <1>2, SigningSteps

(* A request's tally of shares is always the number of distinct operators   *)
(* that signed it since it was created, each of them with a receipt at its  *)
(* address (submit_partial_signature).                                      *)
THEOREM TallyIsReceiptCount == Spec => []TallyCountsReceipts
<1>1. Init => TallyCountsReceipts
    BY DEF Init, TallyCountsReceipts
<1>2. TypeOK /\ TallyCountsReceipts /\ [Next]_vars => TallyCountsReceipts'
    BY NextCounts
<1>3. QED
    BY <1>1, <1>2, TypeCorrect, PTL DEF Spec

\* What TallyWeighsReceipts says of one address.
WeighsReceiptsAt(ad) ==
    requests[ad] # NoAccount =>
        requests[ad].stake_weight_collected =
            Total([a \in Authorities |-> ReceiptWeight(ad, a)])

LEMMA ReceiptWeightType ==
    ASSUME TypeOK, TallyCountsReceipts,
           NEW ad \in Addresses, NEW a \in Authorities
    PROVE  ReceiptWeight(ad, a) \in Nat
<1>1. CASE a \in credited[ad]
    <2>1. partials[ad][a] \in PartialSignature
        BY <1>1 DEF TypeOK, TallyCountsReceipts
    <2>2. QED
        BY <1>1, <2>1 DEF ReceiptWeight, PartialSignature
<1>2. CASE a \notin credited[ad]
    BY <1>2 DEF ReceiptWeight
<1>3. QED
    BY <1>1, <1>2

LEMMA SubmitWeighs ==
    ASSUME TypeOK, TallyCountsReceipts, TallyWeighsReceipts,
           NEW ad \in Addresses, NEW a \in Authorities, Submits(ad, a)
    PROVE  WeighsReceiptsAt(ad)'
<1> DEFINE weight == operators[a].stake_weight
           f == [b \in Authorities |-> ReceiptWeight(ad, b)]
           g == [b \in Authorities |-> ReceiptWeight(ad, b)']
<1>1. weight \in Nat /\ requests[ad].stake_weight_collected = Total(f)
    BY SubmitEffect DEF TallyWeighsReceipts, OperatorAccount
<1>2. a \notin credited[ad]
    BY SignerIsNew
<1>3. f \in [Authorities -> Nat] /\ f[a] = 0
    BY <1>2, ReceiptWeightType DEF ReceiptWeight
<1>4. /\ credited'[ad] = credited[ad] \cup {a}
      /\ partials'[ad][a] =
            [submitted_slot |-> slot, stake_weight |-> weight]
      /\ \A b \in Authorities \ {a} : partials'[ad][b] = partials[ad][b]
    BY SubmitEffect
<1>5. g[a] = weight /\ \A b \in Authorities \ {a} : g[b] = f[b]
    BY <1>4 DEF ReceiptWeight
<1>6. g \in [Authorities -> Nat]
    BY <1>1, <1>3, <1>5
<1>7. Total(f) \in Nat
    BY <1>3, TotalType, AuthoritiesAssumption
<1> HIDE DEF f, g
<1>8. Total(g) = Total(f) + g[a] - f[a]
    BY <1>3, <1>5, <1>6, AuthoritiesAssumption, TotalChange
<1>9. Total(g) = Total(f) + weight
    BY <1>1, <1>3, <1>5, <1>7, <1>8
<1>10. requests'[ad].stake_weight_collected =
           requests[ad].stake_weight_collected + weight
    BY SubmitEffect DEF SigningRequest
<1>11. QED
    BY <1>1, <1>9, <1>10 DEF WeighsReceiptsAt, g

LEMMA NextWeighs ==
    ASSUME TypeOK, TallyCountsReceipts, TallyWeighsReceipts, [Next]_vars
    PROVE  TallyWeighsReceipts'
<1>1. CASE UNCHANGED signing
    BY <1>1 DEF TallyWeighsReceipts, ReceiptWeight, signing
<1>2. ASSUME NEW ad \in Addresses,
             \/ Creates(ad)
             \/ \E a \in Authorities : Submits(ad, a)
             \/ Settles(ad)
             \/ Closes(ad)
      PROVE  TallyWeighsReceipts'
    <2>1. ASSUME NEW other \in Addresses, other # ad
          PROVE  WeighsReceiptsAt(other)'
        <3>1. WeighsReceiptsAt(other)
            BY DEF TallyWeighsReceipts, WeighsReceiptsAt
        <3>2. QED
            BY <1>2, <2>1, <3>1, OthersUnchanged
               DEF WeighsReceiptsAt, ReceiptWeight
    <2>2. WeighsReceiptsAt(ad)'
        <3>1. CASE Creates(ad)
            <4> DEFINE g == [a \in Authorities |-> ReceiptWeight(ad, a)']
            <4>1. \A a \in Authorities : g[a] = 0
                BY <3>1, CreateEffect DEF ReceiptWeight
            <4>2. DOMAIN g = Authorities
                OBVIOUS
            <4> HIDE DEF g
            <4>3. Total(g) = 0
                BY <4>1, <4>2, TotalZero
            <4>4. requests'[ad].stake_weight_collected = 0
                BY <3>1, CreateEffect
            <4>5. QED
                BY <4>3, <4>4 DEF WeighsReceiptsAt, g
        <3>2. CASE \E a \in Authorities : Submits(ad, a)
            <4>1. PICK a \in Authorities : Submits(ad, a)
                BY <3>2
            <4>2. QED
                BY <4>1, SubmitWeighs
        <3>3. CASE Settles(ad)
            <4>1. requests'[ad].stake_weight_collected =
                      requests[ad].stake_weight_collected
                BY <3>3, SettleEffect DEF SigningRequest
            <4>2. /\ requests[ad] # NoAccount
                  /\ partials' = partials /\ credited' = credited
                BY <3>3, SettleEffect
            <4>3. requests[ad].stake_weight_collected =
                      Total([a \in Authorities |-> ReceiptWeight(ad, a)])
                BY <4>2 DEF TallyWeighsReceipts
            <4>4. QED
                BY <4>1, <4>2, <4>3 DEF WeighsReceiptsAt, ReceiptWeight
        <3>4. CASE Closes(ad)
            <4>1. requests'[ad] = NoAccount
                BY <3>4, CloseEffect
            <4>2. QED
                BY <4>1 DEF WeighsReceiptsAt
        <3>5. QED
            BY <1>2, <3>1, <3>2, <3>3, <3>4
    <2>3. QED
        BY <2>1, <2>2 DEF TallyWeighsReceipts, WeighsReceiptsAt
<1>3. QED
    BY <1>1, <1>2, SigningSteps

(* A request's tally of stake is always the sum of the weights on the       *)
(* receipts of those that signed it (submit_partial_signature).             *)
THEOREM TallyIsReceiptWeight == Spec => []TallyWeighsReceipts
<1>1. Init => TallyWeighsReceipts
    BY DEF Init, TallyWeighsReceipts
<1>2. TypeOK /\ TallyCountsReceipts /\ TallyWeighsReceipts /\ [Next]_vars
         => TallyWeighsReceipts'
    BY NextWeighs
<1>3. QED
    BY <1>1, <1>2, TypeCorrect, TallyIsReceiptCount, PTL DEF Spec

(* Both tallies of a request are always exact, however its address was used *)
(* before and whatever became of its signers (submit_partial_signature).    *)
THEOREM TalliesAreExact == Spec => []TallyIsExact
<1>1. TallyCountsReceipts /\ TallyWeighsReceipts => TallyIsExact
    BY DEF TallyIsExact
<1>2. QED
    BY <1>1, TallyIsReceiptCount, TallyIsReceiptWeight, PTL

-----------------------------------------------------------------------------
(* Quorum.                                                                 *)

\* What the status of a request says of its other fields.
SettledAt(ad) ==
    requests[ad] # NoAccount =>
        /\ requests[ad].status = "Pending" => requests[ad].aggregate_sig = Zero
        /\ requests[ad].status = "Aggregated" =>
              /\ requests[ad].aggregate_sig \in Messages
              /\ ThresholdMet(requests[ad])

StatusInv == \A ad \in Addresses : SettledAt(ad)

LEMMA SettleSettles ==
    ASSUME TypeOK, NEW ad \in Addresses, Settles(ad)
    PROVE  SettledAt(ad)'
<1>1. /\ requests[ad] \in SigningRequest
      /\ ThresholdMet(requests[ad])
      /\ \A fld \in DOMAIN requests[ad] \ {"aggregate_sig", "status"} :
            requests'[ad][fld] = requests[ad][fld]
    BY SettleEffect
<1>2. requests'[ad].aggregate_sig \in Messages
    BY SettleEffect
<1>3. requests'[ad].status = "Aggregated"
    BY SettleEffect
<1>4. /\ requests'[ad].partials_collected = requests[ad].partials_collected
      /\ requests'[ad].threshold = requests[ad].threshold
      /\ requests'[ad].stake_weight_collected =
            requests[ad].stake_weight_collected
      /\ requests'[ad].required_stake_weight =
            requests[ad].required_stake_weight
    BY <1>1 DEF SigningRequest
<1>5. ThresholdMet(requests'[ad])
    BY <1>1, <1>4 DEF ThresholdMet
<1>6. QED
    BY <1>2, <1>3, <1>5 DEF SettledAt

LEMMA NextStatus ==
    ASSUME TypeOK, StatusInv, [Next]_vars
    PROVE  StatusInv'
<1>1. CASE UNCHANGED signing
    BY <1>1 DEF StatusInv, SettledAt, ThresholdMet, signing
<1>2. ASSUME NEW ad \in Addresses,
             \/ Creates(ad)
             \/ \E a \in Authorities : Submits(ad, a)
             \/ Settles(ad)
             \/ Closes(ad)
      PROVE  StatusInv'
    <2>1. ASSUME NEW other \in Addresses, other # ad
          PROVE  SettledAt(other)'
        <3>1. SettledAt(other)
            BY DEF StatusInv
        <3>2. requests'[other] = requests[other]
            BY <1>2, <2>1, OthersUnchanged
        <3>3. QED
            BY <3>1, <3>2 DEF SettledAt, ThresholdMet
    <2>2. SettledAt(ad)'
        <3>1. CASE Creates(ad)
            <4>1. /\ requests'[ad].status = "Pending"
                  /\ requests'[ad].aggregate_sig = Zero
                BY <3>1, CreateEffect
            <4>2. QED
                BY <4>1 DEF SettledAt
        <3>2. CASE \E a \in Authorities : Submits(ad, a)
            <4>1. PICK a \in Authorities : Submits(ad, a)
                BY <3>2
            <4>2. /\ requests[ad] \in SigningRequest
                  /\ requests[ad] # NoAccount /\ requests[ad].status = "Pending"
                  /\ \A fld \in DOMAIN requests[ad] \
                           {"partials_collected", "stake_weight_collected"} :
                        requests'[ad][fld] = requests[ad][fld]
                BY <4>1, SubmitEffect
            <4>3. /\ requests'[ad].status = "Pending"
                  /\ requests'[ad].aggregate_sig = requests[ad].aggregate_sig
                BY <4>2 DEF SigningRequest
            <4>4. QED
                BY <4>2, <4>3 DEF StatusInv, SettledAt
        <3>3. CASE Settles(ad)
            BY <3>3, SettleSettles
        <3>4. CASE Closes(ad)
            <4>1. requests'[ad] = NoAccount
                BY <3>4, CloseEffect
            <4>2. QED
                BY <4>1 DEF SettledAt
        <3>5. QED
            BY <1>2, <3>1, <3>2, <3>3, <3>4
    <2>3. QED
        BY <2>1, <2>2 DEF StatusInv
<1>3. QED
    BY <1>1, <1>2, SigningSteps

LEMMA StatusCorrect == Spec => []StatusInv
<1>1. Init => StatusInv
    BY DEF Init, StatusInv, SettledAt
<1>2. TypeOK /\ StatusInv /\ [Next]_vars => StatusInv'
    BY NextStatus
<1>3. QED
    BY <1>1, <1>2, TypeCorrect, PTL DEF Spec

LEMMA TalliesMakeQuorum ==
    ASSUME TypeOK, StatusInv, TallyCountsReceipts, TallyWeighsReceipts
    PROVE  QuorumBehindAggregate
<1> SUFFICES ASSUME NEW ad \in Addresses,
                    requests[ad] # NoAccount, requests[ad].status = "Aggregated"
             PROVE  /\ Cardinality(credited[ad]) >= requests[ad].threshold
                    /\ Total([a \in Authorities |-> ReceiptWeight(ad, a)])
                         >= requests[ad].required_stake_weight
                    /\ requests[ad].aggregate_sig # Zero
    BY DEF QuorumBehindAggregate
<1>1. /\ requests[ad].aggregate_sig \in Messages
      /\ requests[ad].partials_collected >= requests[ad].threshold
      /\ requests[ad].stake_weight_collected >=
            requests[ad].required_stake_weight
    BY DEF StatusInv, SettledAt, ThresholdMet
<1>2. requests[ad].partials_collected = Cardinality(credited[ad])
    BY DEF TallyCountsReceipts
<1>3. requests[ad].stake_weight_collected =
          Total([a \in Authorities |-> ReceiptWeight(ad, a)])
    BY DEF TallyWeighsReceipts
<1>4. QED
    BY <1>1, <1>2, <1>3, SentinelAssumption

(* A signature is only ever on record where distinct operators in the       *)
(* number and with the stake the request asked for have signed that very    *)
(* request (aggregate_and_emit).                                            *)
THEOREM AggregateHasQuorum == Spec => []QuorumBehindAggregate
<1>1. TypeOK /\ StatusInv /\ TallyCountsReceipts /\ TallyWeighsReceipts
         => QuorumBehindAggregate
    BY TalliesMakeQuorum
<1>2. QED
    BY <1>1, TypeCorrect, StatusCorrect, TallyIsReceiptCount,
       TallyIsReceiptWeight, PTL

-----------------------------------------------------------------------------
(* The refinement mapping.                                                 *)

Issued == IF Initialized THEN protocol.request_nonce ELSE 0

Intents == [ad \in Addresses |-> IntentAt(ad)]

LEMMA MappingUnfolds ==
    /\ Ledger!ledgerVars = <<slot, Issued, Intents>>
    /\ \A ad \in Addresses : Intents[ad] = IntentAt(ad)
BY DEF Ledger!ledgerVars, Issued, Intents

LEMMA IntentType ==
    ASSUME NEW ad \in Addresses, requests[ad] \in SigningRequest,
           credited[ad] \subseteq Authorities
    PROVE  /\ IntentAt(ad) \in Ledger!Intent
           /\ IntentAt(ad) # NoAccount
<1>1. requests[ad] # NoAccount
    BY SentinelAssumption
<1>2. IntentAt(ad) \in Ledger!Intent
    BY <1>1, WidthAssumption DEF IntentAt, Ledger!Intent, SigningRequest
<1>3. QED
    BY <1>2, IntentAssumption

LEMMA IntentTypeNext ==
    ASSUME TypeOK', NEW ad \in Addresses
    PROVE  /\ IntentAt(ad)' \in Ledger!Intent \cup {NoAccount}
           /\ requests'[ad] # NoAccount => /\ IntentAt(ad)' \in Ledger!Intent
                                           /\ IntentAt(ad)' # NoAccount
<1>1. CASE requests'[ad] = NoAccount
    BY <1>1 DEF IntentAt
<1>2. CASE requests'[ad] # NoAccount
    <2>1. requests'[ad] \in SigningRequest /\ credited'[ad] \subseteq Authorities
        BY <1>2 DEF TypeOK
    <2>2. IntentAt(ad)' \in Ledger!Intent
        BY <1>2, <2>1, WidthAssumption DEF IntentAt, Ledger!Intent, SigningRequest
    <2>3. QED
        BY <2>2, IntentAssumption
<1>3. QED
    BY <1>1, <1>2

\* A step about one request changes one intent.
LEMMA OnlyOneIntent ==
    ASSUME TypeOK, TypeOK', NEW ad \in Addresses,
           \/ Creates(ad)
           \/ \E a \in Authorities : Submits(ad, a)
           \/ Settles(ad)
           \/ Closes(ad)
    PROVE  /\ \A other \in Addresses \ {ad} : IntentAt(other)' = IntentAt(other)
           /\ Ledger!ChangesOnly(ad)
<1>1. \A other \in Addresses \ {ad} : IntentAt(other)' = IntentAt(other)
    BY OthersUnchanged DEF IntentAt
<1>2. QED
    BY <1>1, IntentTypeNext DEF Ledger!ChangesOnly

-----------------------------------------------------------------------------
(* The number of intents ever posted.                                      *)


LEMMA NonceKept ==
    ASSUME TypeOK, [Next]_vars, Initialized
    PROVE  /\ Initialized'
           /\ \/ protocol'.request_nonce = protocol.request_nonce
              \/ \E ad \in Addresses : Creates(ad)
<1> DEFINE Kept == /\ Initialized'
                   /\ protocol'.request_nonce = protocol.request_nonce
<1>1. protocol \in ProtocolAccount
    BY AccountTypes
<1>2. ASSUME UNCHANGED protocol PROVE Kept
    BY <1>2 DEF Initialized
<1>3. ASSUME protocol' \in ProtocolAccount PROVE Initialized'
    BY <1>3, SentinelAssumption DEF Initialized
<1>4. CASE UNCHANGED vars
    BY <1>2, <1>4 DEF vars
<1>5. CASE BootstrapStep
    BY <1>5 DEF BootstrapStep, Initialize
<1>6. CASE ConfigStep
    <2>1. protocol'.request_nonce = protocol.request_nonce
        BY <1>1, <1>6 DEF ConfigStep, UpdateConfig, ProtocolAccount
    <2>2. QED
        BY <1>3, <1>6, <2>1, ConfigTypeOK
<1>7. CASE AdminStep
    <2>1. protocol'.request_nonce = protocol.request_nonce
        BY <1>1, <1>7 DEF AdminStep, SetLstPriceFeed, TransferAdmin,
           AcceptAdmin, Pause, Unpause, ProtocolAccount
    <2>2. QED
        BY <1>3, <1>7, <2>1, AdminTypeOK
<1>8. CASE OperatorStep
    <2>1. PICK a \in Authorities :
              \/ \E bond_amount \in BondArgs : RegisterOperator(a, bond_amount)
              \/ BeginUnbonding(a)
              \/ WithdrawBond(a)
              \/ \E k \in Keys, amount \in SlashArgs : SlashOperator(k, a, amount)
        BY <1>8 DEF OperatorStep
    <2>2. CASE WithdrawBond(a)
        BY <1>2, <2>2 DEF WithdrawBond
    <2>3. CASE ~WithdrawBond(a)
        <3>1. protocol' \in ProtocolAccount
            BY <2>1, <2>3, RegisterTypeOK, UnbondingTypeOK, SlashTypeOK
        <3>2. protocol'.request_nonce = protocol.request_nonce
            BY <1>1, <2>1, <2>3 DEF RegisterOperator, BeginUnbonding,
               SlashOperator, ProtocolAccount
        <3>3. QED
            BY <1>3, <3>1, <3>2
    <2>4. QED
        BY <2>2, <2>3
<1>9. CASE RequestStep
    <2>1. ASSUME NEW ad \in Addresses, Creates(ad) PROVE Initialized'
        BY <1>3, <2>1, CreateTypeOK DEF Creates
    <2>2. ASSUME NEW ad \in Addresses,
                 \/ \E a \in Authorities : Submits(ad, a)
                 \/ Settles(ad)
                 \/ CancelRequest(ad)
                 \/ ExpireRequest(ad)
          PROVE  Kept
        BY <1>2, <2>2 DEF Submits, Settles, SubmitPartialSignature,
           AggregateAndEmit, CancelRequest, ExpireRequest, CloseRequest
    <2>3. QED
        BY <1>9, <2>1, <2>2 DEF RequestStep, Creates, Submits, Settles
<1>10. CASE Tick \/ \E f \in FlakyFeeds : FeedChange(f)
    BY <1>2, <1>10 DEF Tick, FeedChange
<1>11. QED
    BY <1>4, <1>5, <1>6, <1>7, <1>8, <1>9, <1>10 DEF Next

LEMMA IssuedSteps ==
    ASSUME TypeOK, [Next]_vars, ~\E ad \in Addresses : Creates(ad)
    PROVE  Issued' = Issued
<1>1. CASE Initialized
    BY <1>1, NonceKept DEF Issued
<1>2. CASE ~Initialized
    <2>1. UNCHANGED protocol \/ BootstrapStep
        <3>1. ~ConfigStep
            BY <1>2 DEF ConfigStep
        <3>2. ~AdminStep
            BY <1>2 DEF AdminStep, SetLstPriceFeed, TransferAdmin, AcceptAdmin,
               Pause, Unpause, SignedByAdmin
        <3>3. ~OperatorStep
            BY <1>2 DEF OperatorStep, RegisterOperator, BeginUnbonding,
               WithdrawBond, CanWithdraw, SlashOperator, Running, Withdrawable,
               SignedByAdmin
        <3>4. ~RequestStep
            <4>1. ASSUME NEW ad \in Addresses
                  PROVE  /\ ~\E a \in Authorities : Submits(ad, a)
                         /\ ~Settles(ad) /\ ~CancelRequest(ad)
                         /\ ~ExpireRequest(ad)
                BY <1>2 DEF Submits, Settles, SubmitPartialSignature,
                   AggregateAndEmit, CancelRequest, ExpireRequest, Running
            <4>2. QED
                BY <4>1 DEF RequestStep, Creates, Submits, Settles
        <3>5. QED
            BY <3>1, <3>2, <3>3, <3>4 DEF Next, vars, Tick, FeedChange
    <2>2. CASE UNCHANGED protocol
        BY <2>2 DEF Issued, Initialized
    <2>3. CASE BootstrapStep
        BY <1>2, <2>3 DEF BootstrapStep, Initialize, Issued, Initialized
    <2>4. QED
        BY <2>1, <2>2, <2>3
<1>3. QED
    BY <1>1, <1>2

-----------------------------------------------------------------------------
(* The slot, and the steps about one request.                              *)

LEMMA RequestSlot ==
    ASSUME NEW ad \in Addresses,
           \/ Creates(ad)
           \/ \E a \in Authorities : Submits(ad, a)
           \/ Settles(ad)
           \/ Closes(ad)
    PROVE  slot' = slot
BY DEF Creates, Submits, Settles, Closes, CreateSigningRequest,
   SubmitPartialSignature, AggregateAndEmit, CloseRequest, external

LEMMA SlotSteps ==
    ASSUME TypeOK, [Next]_vars
    PROVE  \/ slot' = slot
           \/ slot' = slot + 1 /\ UNCHANGED signing
<1>1. CASE RequestStep
    BY <1>1, RequestSlot DEF RequestStep, Creates, Submits, Settles, Closes,
       CancelRequest, ExpireRequest
<1>2. CASE BootstrapStep \/ ConfigStep \/ AdminStep
    BY <1>2 DEF BootstrapStep, Initialize, ConfigStep, UpdateConfig, AdminStep,
       SetLstPriceFeed, TransferAdmin, AcceptAdmin, Pause, Unpause, external
<1>3. CASE OperatorStep
    BY <1>3 DEF OperatorStep, RegisterOperator, BeginUnbonding, WithdrawBond,
       SlashOperator, external
<1>4. CASE Tick \/ \E f \in FlakyFeeds : FeedChange(f)
    BY <1>4 DEF Tick, FeedChange
<1>5. QED
    BY <1>1, <1>2, <1>3, <1>4 DEF Next, vars

LEMMA CreatePosts ==
    ASSUME TypeOK, TypeOK', NEW ad \in Addresses, Creates(ad)
    PROVE  Ledger!Post(ad)
<1>1. PICK scheme \in Schemes, message_hash \in Messages \cup {Zero},
           threshold \in ThresholdArgs, validity \in ValidityArgs :
               CreateSigningRequest(ad, scheme, message_hash, threshold, validity)
    BY DEF Creates
<1>2. /\ protocol \in ProtocolAccount /\ Initialized
      /\ protocol' \in ProtocolAccount
    BY <1>1, AccountTypes, CreateTypeOK DEF CreateSigningRequest, Running
<1>3. Issued = protocol.request_nonce /\ Issued' = Issued + 1
    BY <1>1, <1>2, SentinelAssumption
       DEF CreateSigningRequest, Issued, Initialized, ProtocolAccount
<1>4. requests[ad] = NoAccount
    BY <1>1 DEF CreateSigningRequest
<1>5. /\ requests'[ad].request_id = protocol.request_nonce
      /\ requests'[ad].expiry_slot = slot + validity
      /\ 1 <= validity
    BY <1>1 DEF CreateSigningRequest, TypeOK
<1>6. slot \in Nat /\ validity \in Nat
    BY ArgumentAssumption DEF TypeOK
<1>7. requests'[ad].expiry_slot > slot
    BY <1>5, <1>6
<1>8. /\ requests'[ad] # NoAccount
      /\ requests'[ad].stake_weight_collected = 0
      /\ requests'[ad].aggregate_sig = Zero
      /\ credited'[ad] = {}
    BY CreateEffect
<1>9. IntentAt(ad) = NoAccount
    BY <1>4 DEF IntentAt
<1>10. /\ IntentAt(ad)' \in Ledger!Intent
       /\ IntentAt(ad)'.id = Issued
       /\ IntentAt(ad)'.deadline > slot
       /\ IntentAt(ad)'.endorsers = {}
       /\ IntentAt(ad)'.stake = 0
       /\ IntentAt(ad)'.verdict = Zero
    BY <1>3, <1>5, <1>7, <1>8, IntentTypeNext DEF IntentAt
<1>11. Ledger!ChangesOnly(ad) /\ slot' = slot
    BY OnlyOneIntent, RequestSlot
<1>12. QED
    BY <1>3, <1>9, <1>10, <1>11 DEF Ledger!Post, Issued

LEMMA PendingIsOpen ==
    ASSUME TypeOK, StatusInv, NEW ad \in Addresses,
           requests[ad] # NoAccount, requests[ad].status = "Pending"
    PROVE  /\ IntentAt(ad) \in Ledger!Intent
           /\ Ledger!IsOpen(ad)
<1>1. requests[ad] \in SigningRequest /\ credited[ad] \subseteq Authorities
    BY AccountTypes DEF TypeOK
<1>2. IntentAt(ad) \in Ledger!Intent /\ IntentAt(ad) # NoAccount
    BY <1>1, IntentType
<1>3. requests[ad].aggregate_sig = Zero
    BY DEF StatusInv, SettledAt
<1>4. IntentAt(ad).verdict = Zero
    BY <1>3 DEF IntentAt
<1>5. QED
    BY <1>2, <1>4 DEF Ledger!IsOpen

LEMMA SubmitEndorses ==
    ASSUME TypeOK, TypeOK', StatusInv, TallyCountsReceipts,
           NEW ad \in Addresses, NEW a \in Authorities, Submits(ad, a),
           Issued' = Issued
    PROVE  Ledger!Endorse(ad, a)
<1>1. /\ operators[a] \in OperatorAccount
      /\ requests[ad] \in SigningRequest
      /\ requests[ad] # NoAccount /\ requests[ad].status = "Pending"
      /\ requests'[ad] # NoAccount
      /\ requests'[ad].stake_weight_collected =
            requests[ad].stake_weight_collected + operators[a].stake_weight
      /\ \A fld \in DOMAIN requests[ad] \
               {"partials_collected", "stake_weight_collected"} :
            requests'[ad][fld] = requests[ad][fld]
      /\ credited'[ad] = credited[ad] \cup {a}
    BY SubmitEffect
<1>2. /\ requests'[ad].request_id = requests[ad].request_id
      /\ requests'[ad].message_hash = requests[ad].message_hash
      /\ requests'[ad].threshold = requests[ad].threshold
      /\ requests'[ad].required_stake_weight = requests[ad].required_stake_weight
      /\ requests'[ad].expiry_slot = requests[ad].expiry_slot
      /\ requests'[ad].aggregate_sig = requests[ad].aggregate_sig
    BY <1>1 DEF SigningRequest
<1>3. Ledger!IsOpen(ad)
    BY <1>1, PendingIsOpen
<1>4. slot <= requests[ad].expiry_slot
    BY DEF Submits, SubmitPartialSignature, InTime
<1>5. slot <= IntentAt(ad).deadline
    BY <1>1, <1>4 DEF IntentAt
<1>6. a \notin IntentAt(ad).endorsers
    BY <1>1, SignerIsNew DEF IntentAt
<1>7. IntentAt(ad)'.stake >= IntentAt(ad).stake
    <2>1. /\ requests[ad].stake_weight_collected \in Nat
          /\ operators[a].stake_weight \in Nat
        BY <1>1, WidthAssumption DEF SigningRequest, OperatorAccount
    <2>2. QED
        BY <1>1, <2>1 DEF IntentAt
<1>8. IntentAt(ad)' = [IntentAt(ad) EXCEPT !.endorsers = @ \cup {a},
                                           !.stake = IntentAt(ad)'.stake]
    <2> DEFINE stake2 == requests'[ad].stake_weight_collected
               record(endorsers, stake) ==
                  [id |-> requests[ad].request_id,
                   subject |-> requests[ad].message_hash,
                   threshold |-> requests[ad].threshold,
                   required |-> requests[ad].required_stake_weight,
                   deadline |-> requests[ad].expiry_slot,
                   endorsers |-> endorsers,
                   stake |-> stake,
                   verdict |-> requests[ad].aggregate_sig]
               old == record(credited[ad], requests[ad].stake_weight_collected)
               new == record(credited[ad] \cup {a}, stake2)
    <2>1. IntentAt(ad) = old
        BY <1>1 DEF IntentAt
    <2>2. IntentAt(ad)' = new
        BY <1>1, <1>2 DEF IntentAt
    <2>3. old.endorsers = credited[ad] /\ new.stake = stake2
        OBVIOUS
    <2>4. [old EXCEPT !.endorsers = credited[ad] \cup {a}, !.stake = stake2]
             = [[old EXCEPT !.endorsers = credited[ad] \cup {a}]
                   EXCEPT !.stake = stake2]
        BY Zenon
    <2>5. [old EXCEPT !.endorsers = credited[ad] \cup {a}]
             = record(credited[ad] \cup {a},
                      requests[ad].stake_weight_collected)
        OBVIOUS
    <2>6. [record(credited[ad] \cup {a}, requests[ad].stake_weight_collected)
              EXCEPT !.stake = stake2] = new
        OBVIOUS
    <2>7. new = [old EXCEPT !.endorsers = credited[ad] \cup {a},
                            !.stake = stake2]
        BY <2>4, <2>5, <2>6
    <2> HIDE DEF old, new
    <2>8. QED
        BY <2>1, <2>2, <2>3, <2>7
<1>9. Ledger!ChangesOnly(ad) /\ slot' = slot
    BY OnlyOneIntent, RequestSlot
<1>10. QED
    BY <1>3, <1>5, <1>6, <1>7, <1>8, <1>9 DEF Ledger!Endorse, Issued

LEMMA SettleSettlesIntent ==
    ASSUME TypeOK, TypeOK', StatusInv, TallyCountsReceipts,
           NEW ad \in Addresses, Settles(ad), Issued' = Issued
    PROVE  Ledger!Settle(ad)
<1>1. /\ requests[ad] \in SigningRequest
      /\ requests[ad] # NoAccount /\ requests[ad].status = "Pending"
      /\ slot <= requests[ad].expiry_slot
      /\ ThresholdMet(requests[ad])
      /\ \A fld \in DOMAIN requests[ad] \ {"aggregate_sig", "status"} :
            requests'[ad][fld] = requests[ad][fld]
      /\ requests'[ad] # NoAccount
      /\ credited' = credited
    BY SettleEffect
<1>2. PICK sig \in Messages : requests'[ad].aggregate_sig = sig
    BY SettleEffect
<1>3. /\ requests'[ad].request_id = requests[ad].request_id
      /\ requests'[ad].message_hash = requests[ad].message_hash
      /\ requests'[ad].threshold = requests[ad].threshold
      /\ requests'[ad].required_stake_weight = requests[ad].required_stake_weight
      /\ requests'[ad].expiry_slot = requests[ad].expiry_slot
      /\ requests'[ad].stake_weight_collected =
            requests[ad].stake_weight_collected
    BY <1>1 DEF SigningRequest
<1>4. Ledger!IsOpen(ad)
    BY <1>1, PendingIsOpen
<1>5. slot <= IntentAt(ad).deadline
    BY <1>1 DEF IntentAt
<1>6. Ledger!Supported(IntentAt(ad))
    <2>1. requests[ad].partials_collected = Cardinality(credited[ad])
        BY <1>1 DEF TallyCountsReceipts
    <2>2. /\ IntentAt(ad).endorsers = credited[ad]
          /\ IntentAt(ad).threshold = requests[ad].threshold
          /\ IntentAt(ad).stake = requests[ad].stake_weight_collected
          /\ IntentAt(ad).required = requests[ad].required_stake_weight
        BY <1>1 DEF IntentAt
    <2>3. /\ requests[ad].partials_collected >= requests[ad].threshold
          /\ requests[ad].stake_weight_collected >=
                requests[ad].required_stake_weight
        BY <1>1 DEF ThresholdMet
    <2>4. /\ Cardinality(IntentAt(ad).endorsers) >= IntentAt(ad).threshold
          /\ IntentAt(ad).stake >= IntentAt(ad).required
        BY <2>1, <2>2, <2>3
    <2>5. QED
        BY <2>4 DEF Ledger!Supported, Ledger!Cardinality, Cardinality
<1>7. IntentAt(ad)' = [IntentAt(ad) EXCEPT !.verdict = sig]
    BY <1>1, <1>2, <1>3 DEF IntentAt
<1>8. Intents' = [Intents EXCEPT ![ad].verdict = sig]
    BY <1>7, OnlyOneIntent DEF Intents
<1>9. slot' = slot
    BY RequestSlot
<1>10. QED
    BY <1>4, <1>5, <1>6, <1>8, <1>9 DEF Ledger!Settle, Issued, Intents

LEMMA CloseDrops ==
    ASSUME TypeOK, TypeOK', StatusInv, NEW ad \in Addresses, Closes(ad),
           Issued' = Issued
    PROVE  Ledger!Drop(ad)
<1>1. requests[ad] # NoAccount /\ requests[ad].status = "Pending"
    BY DEF Closes, IsPending
<1>2. Ledger!IsOpen(ad)
    BY <1>1, PendingIsOpen
<1>3. IntentAt(ad)' = NoAccount
    BY CloseEffect DEF IntentAt
<1>4. Intents' = [Intents EXCEPT ![ad] = NoAccount]
    BY <1>3, OnlyOneIntent DEF Intents
<1>5. slot' = slot
    BY RequestSlot
<1>6. QED
    BY <1>2, <1>4, <1>5 DEF Ledger!Drop, Issued, Intents

-----------------------------------------------------------------------------
(* Every step.                                                             *)

LEMMA InitRefines ==
    ASSUME Init
    PROVE  Ledger!LedgerInit
<1>1. Issued = 0 /\ slot \in Nat
    BY DEF Init, Issued, Initialized
<1>2. \A ad \in Addresses : IntentAt(ad) = NoAccount
    BY DEF Init, IntentAt
<1>3. QED
    BY <1>1, <1>2 DEF Ledger!LedgerInit, Issued

LEMMA NextRefines ==
    ASSUME TypeOK, TypeOK', StatusInv, TallyCountsReceipts, [Next]_vars
    PROVE  [Ledger!LedgerNext]_(Ledger!ledgerVars)
<1>1. ASSUME NEW ad \in Addresses, Creates(ad)
      PROVE  Ledger!LedgerNext
    BY <1>1, CreatePosts DEF Ledger!LedgerNext
<1>2. CASE ~\E ad \in Addresses : Creates(ad)
    <2>1. Issued' = Issued
        BY <1>2, IssuedSteps
    <2>2. ASSUME NEW ad \in Addresses, NEW a \in Authorities, Submits(ad, a)
          PROVE  Ledger!LedgerNext
        BY <2>1, <2>2, SubmitEndorses DEF Ledger!LedgerNext
    <2>3. ASSUME NEW ad \in Addresses, Settles(ad)
          PROVE  Ledger!LedgerNext
        BY <2>1, <2>3, SettleSettlesIntent DEF Ledger!LedgerNext
    <2>4. ASSUME NEW ad \in Addresses, Closes(ad)
          PROVE  Ledger!LedgerNext
        BY <2>1, <2>4, CloseDrops DEF Ledger!LedgerNext
    <2>5. CASE UNCHANGED signing
        <3>1. Intents' = Intents
            BY <2>5 DEF Intents, IntentAt, signing
        <3>2. CASE slot' = slot
            BY <2>1, <3>1, <3>2, MappingUnfolds
               DEF Ledger!ledgerVars, Issued, Intents
        <3>3. CASE slot' = slot + 1
            <4>1. slot' \in Nat /\ slot' > slot
                BY <3>3 DEF TypeOK
            <4>2. Ledger!Pass
                BY <2>1, <3>1, <4>1 DEF Ledger!Pass, Issued, Intents
            <4>3. QED
                BY <4>2 DEF Ledger!LedgerNext
        <3>4. QED
            BY <3>2, <3>3, SlotSteps
    <2>6. QED
        BY <1>2, <2>2, <2>3, <2>4, <2>5, SigningSteps
<1>3. QED
    BY <1>1, <1>2

(* The program does what SigningLedger promises: at each address one intent *)
(* at a time, gathering distinct endorsers in time, settled at most once    *)
(* and with its quorum, or dropped; and identifiers never used twice        *)
(* (create_signing_request, submit_partial_signature, aggregate_and_emit,   *)
(* cancel_request, expire_request).                                         *)
THEOREM ProgramImplementsLedger == Spec => ImplementsLedger
<1>1. Init => Ledger!LedgerInit
    BY InitRefines
<1>2. TypeOK /\ TypeOK' /\ StatusInv /\ TallyCountsReceipts /\ [Next]_vars
         => [Ledger!LedgerNext]_(Ledger!ledgerVars)
    BY NextRefines
<1>3. QED
    BY <1>1, <1>2, TypeCorrect, StatusCorrect, TallyIsReceiptCount, PTL
       DEF Spec, ImplementsLedger, Ledger!LedgerSpec
=============================================================================
