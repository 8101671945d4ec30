-------------------------- MODULE DistinProperties --------------------------
(***************************************************************************)
(* What is claimed of the on-chain program.                                *)
(***************************************************************************)
EXTENDS DistinProgram, Totals

(* Every account holds values of its fields' types, and the parameters lie *)
(* in the ranges initialize and update_config accept (lib.rs 62-70).       *)
TypeOK ==
    /\ slot \in Nat \ {0}
    /\ live_feeds \subseteq Feeds
    /\ protocol \in ProtocolAccount \cup {NoAccount}
    /\ operators \in [Authorities -> OperatorAccount \cup {NoAccount}]
    /\ requests \in [Addresses -> SigningRequest \cup {NoAccount}]
    /\ partials \in [Addresses -> [Authorities -> PartialSignature \cup {NoAccount}]]
    /\ bond_vault \in Nat
    /\ slash_pool \in Nat
    /\ wallet \in [Authorities -> Nat]
    /\ lamports \in [Requesters -> Nat]
    /\ fees \in Nat
    /\ credited \in [Addresses -> SUBSET Authorities]

-----------------------------------------------------------------------------
(* Collateral.                                                             *)

Members == {a \in Authorities : operators[a] # NoAccount}

ActiveOperators == {a \in Members : IsActive(operators[a])}

BondOf(a) == IF a \in Members THEN operators[a].bonded_amount ELSE 0

ActiveWeightOf(a) == IF a \in ActiveOperators THEN operators[a].stake_weight ELSE 0

BondedTotal == Total([a \in Authorities |-> BondOf(a)])

ActiveWeight == Total([a \in Authorities |-> ActiveWeightOf(a)])

(* The vault holds exactly the bonds on record, whoever registered, was     *)
(* slashed, left or came back in whatever order; so each bond can be paid   *)
(* out in full (register_operator, withdraw_bond, slash_operator).          *)
VaultBacksBonds == bond_vault = BondedTotal

(* The totals that set the price of forging a signature never exceed the   *)
(* set that stands behind them: total_bonded is at most the weight of the   *)
(* active operators and operator_count at most their number, through any    *)
(* mix of joins, slashes, jailings and exits.                               *)
TotalsNeverOverstate ==
    Initialized => /\ protocol.total_bonded <= ActiveWeight
                   /\ protocol.operator_count <= Cardinality(ActiveOperators)

(* state.rs 82-85 and lib.rs 338 say more: the totals ARE the weight and    *)
(* the number of the active operators.                                      *)
TotalsMatchActiveSet ==
    Initialized => /\ protocol.total_bonded = ActiveWeight
                   /\ protocol.operator_count = Cardinality(ActiveOperators)

(* While the protocol runs no bond is stuck: once an operator's unbonding   *)
(* period is over it can withdraw, whatever others were slashed or paid     *)
(* before it, with its feed dead or replaced, and slashed to nothing itself *)
(* (withdraw_bond).  Of a paused protocol nothing is claimed.               *)
BondIsReturnable ==
    Running => \A a \in Members : WithdrawalDue(operators[a]) => CanWithdraw(a)

(* Leaving is one way: an account that is jailed or unbonding stays so      *)
(* until it is closed, its withdrawal slot is never moved, and it never     *)
(* again signs (begin_unbonding, slash_operator, submit_partial_signature). *)
ExitIsOneWay ==
    [][\A a \in Members :
          ~IsActive(operators[a]) =>
              /\ \/ operators'[a] = NoAccount
                 \/ /\ operators'[a].jailed
                    /\ operators[a].unbonding_at # 0 =>
                          operators'[a].unbonding_at = operators[a].unbonding_at
              /\ \A ad \in Addresses : a \in credited'[ad] => a \in credited[ad]
      ]_vars

-----------------------------------------------------------------------------
(* Signing requests.                                                       *)

ReceiptWeight(ad, a) == IF a \in credited[ad] THEN partials[ad][a].stake_weight ELSE 0

(* A request's tally is the number and the weight of the distinct operators *)
(* that signed it since it was created, each backed by its receipt, however *)
(* often the address was used before (submit_partial_signature).            *)
TallyCountsReceipts ==
    \A ad \in Addresses :
        /\ \A a \in credited[ad] : partials[ad][a] # NoAccount
        /\ requests[ad] = NoAccount => credited[ad] = {}
        /\ requests[ad] # NoAccount =>
              requests[ad].partials_collected = Cardinality(credited[ad])

TallyWeighsReceipts ==
    \A ad \in Addresses : requests[ad] # NoAccount =>
        requests[ad].stake_weight_collected =
            Total([a \in Authorities |-> ReceiptWeight(ad, a)])

(* Both tallies of a request are those of its own signers, through reused   *)
(* addresses, slashes, exits and returns (submit_partial_signature).        *)
TallyIsExact == TallyCountsReceipts /\ TallyWeighsReceipts

(* A signature is on record only where distinct operators in the number     *)
(* and with the stake the request asked for have signed that very request   *)
(* (aggregate_and_emit).                                                    *)
QuorumBehindAggregate ==
    \A ad \in Addresses :
        requests[ad] # NoAccount /\ requests[ad].status = "Aggregated" =>
            /\ Cardinality(credited[ad]) >= requests[ad].threshold
            /\ Total([a \in Authorities |-> ReceiptWeight(ad, a)])
                 >= requests[ad].required_stake_weight
            /\ requests[ad].aggregate_sig # Zero

(* A request never asks for more than the active set has: at its creation   *)
(* the active operators outnumber its threshold and outweigh its            *)
(* requirement (create_signing_request, required_stake_weight).             *)
FulfillableAtBirth ==
    [][\A ad \in Addresses :
          requests[ad] = NoAccount /\ requests'[ad] # NoAccount =>
              /\ requests'[ad].threshold <= Cardinality(ActiveOperators)
              /\ requests'[ad].required_stake_weight <= ActiveWeight
      ]_vars

\* The shortest period that initialize and update_config ever set.
IsShortestUnbonding(period) ==
    period \in UnbondingArgs /\ \A other \in UnbondingArgs : period <= other

(* Whoever signed stays within reach of a slash: an operator's account, and *)
(* so its bond, outlives each of its signatures by the shortest unbonding   *)
(* period in use, through exits begun before or after it, slashes and       *)
(* changes of the period (submit_partial_signature, begin_unbonding,        *)
(* withdraw_bond; engine/SECURITY.md 90-92).  A request whose window is     *)
(* longer than that period may outlive the collateral of its signers.       *)
SignaturesAreBacked ==
    \A ad \in Addresses, a \in Authorities, period \in UnbondingArgs :
        /\ IsShortestUnbonding(period)
        /\ partials[ad][a] # NoAccount
        /\ slot < partials[ad][a].submitted_slot + period
        => a \in Members

-----------------------------------------------------------------------------
(* The program implements the ledger of SigningLedger.                     *)

IntentAt(ad) ==
    IF requests[ad] = NoAccount THEN NoAccount
    ELSE [id |-> requests[ad].request_id,
          subject |-> requests[ad].message_hash,
          threshold |-> requests[ad].threshold,
          required |-> requests[ad].required_stake_weight,
          deadline |-> requests[ad].expiry_slot,
          endorsers |-> credited[ad],
          stake |-> requests[ad].stake_weight_collected,
          verdict |-> requests[ad].aggregate_sig]

Ledger == INSTANCE SigningLedger WITH
    Places <- Addresses,
    Signers <- Authorities,
    Subjects <- Messages,
    Unsettled <- Zero,
    Absent <- NoAccount,
    clock <- slot,
    issued <- IF Initialized THEN protocol.request_nonce ELSE 0,
    intents <- [ad \in Addresses |-> IntentAt(ad)]

\* An absent account is no intent.
ASSUME IntentAssumption == NoAccount \notin Ledger!Intent

(* Every behaviour of the program is one of the ledger.                     *)
ImplementsLedger == Ledger!LedgerSpec
=============================================================================
