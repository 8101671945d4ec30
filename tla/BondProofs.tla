----------------------------- MODULE BondProofs -----------------------------
(***************************************************************************)
(* Proofs about collateral: the vault, the totals of the active set, and   *)
(* the way out of it.                                                      *)
(***************************************************************************)
EXTENDS DistinProofs

-----------------------------------------------------------------------------
(* Which steps touch operators, the vault and the totals.                  *)

TotalsKept ==
    /\ Initialized
    /\ protocol'.total_bonded = protocol.total_bonded
    /\ protocol'.operator_count = protocol.operator_count

TotalsZeroed ==
    ~Initialized /\ protocol'.total_bonded = 0 /\ protocol'.operator_count = 0

Registers(a) == \E bond_amount \in BondArgs : RegisterOperator(a, bond_amount)

Slashes(a) == \E k \in Keys, amount \in SlashArgs : SlashOperator(k, a, amount)

MembershipStep(a) ==
    \/ Registers(a)
    \/ BeginUnbonding(a)
    \/ WithdrawBond(a)
    \/ Slashes(a)

LEMMA BondSteps ==
    ASSUME TypeOK, [Next]_vars
    PROVE  \/ /\ UNCHANGED <<operators, bond_vault, slash_pool, wallet>>
              /\ Initialized' => TotalsKept \/ TotalsZeroed
           \/ \E a \in Authorities : MembershipStep(a)
<1> DEFINE Goal == /\ UNCHANGED <<operators, bond_vault, slash_pool, wallet>>
                   /\ Initialized' => TotalsKept \/ TotalsZeroed
<1>1. ASSUME UNCHANGED <<protocol, operators, bond_vault, slash_pool, wallet>>
      PROVE  Goal
    BY <1>1 DEF TotalsKept, Initialized
<1>2. CASE UNCHANGED vars
    BY <1>1, <1>2 DEF vars
<1>3. CASE BootstrapStep
    BY <1>3 DEF BootstrapStep, Initialize, TotalsZeroed, tokens
<1>4. CASE ConfigStep
    <2>1. protocol \in ProtocolAccount
        BY <1>4, AccountTypes DEF ConfigStep
    <2>2. QED
        BY <1>4, <2>1 DEF ConfigStep, UpdateConfig, SignedByAdmin, TotalsKept,
           tokens, ProtocolAccount
<1>5. CASE AdminStep
    <2>1. Initialized /\ UNCHANGED <<operators, bond_vault, slash_pool, wallet>>
        BY <1>5 DEF AdminStep, SetLstPriceFeed, TransferAdmin, AcceptAdmin,
           Pause, Unpause, SignedByAdmin, tokens
    <2>2. protocol \in ProtocolAccount
        BY <2>1, AccountTypes
    <2>3. QED
        BY <1>5, <2>1, <2>2 DEF AdminStep, SetLstPriceFeed, TransferAdmin,
           AcceptAdmin, Pause, Unpause, TotalsKept, ProtocolAccount
<1>6. CASE RequestStep
    <2>1. ASSUME NEW ad \in Addresses, NEW scheme \in Schemes,
                 NEW message_hash \in Messages \cup {Zero},
                 NEW threshold \in ThresholdArgs, NEW validity \in ValidityArgs,
                 CreateSigningRequest(ad, scheme, message_hash, threshold,
                                      validity)
          PROVE  Goal
        <3>1. protocol \in ProtocolAccount /\ Initialized
            BY <2>1, AccountTypes DEF CreateSigningRequest, Running
        <3>2. QED
            BY <2>1, <3>1 DEF CreateSigningRequest, TotalsKept, tokens,
               ProtocolAccount
    <2>2. ASSUME NEW ad \in Addresses,
                 \/ \E a \in Authorities, share \in ShareArgs :
                        SubmitPartialSignature(ad, a, share)
                 \/ \E sig \in Messages \cup {Zero} : AggregateAndEmit(ad, sig)
                 \/ CancelRequest(ad)
                 \/ ExpireRequest(ad)
          PROVE  Goal
        BY <1>1, <2>2 DEF SubmitPartialSignature, AggregateAndEmit,
           CancelRequest, ExpireRequest, CloseRequest, tokens
    <2>3. QED
        BY <1>6, <2>1, <2>2 DEF RequestStep
<1>7. CASE OperatorStep
    BY <1>7 DEF OperatorStep, MembershipStep, Registers, Slashes
<1>8. CASE Tick \/ \E f \in FlakyFeeds : FeedChange(f)
    BY <1>1, <1>8 DEF Tick, FeedChange, tokens
<1>9. QED
    BY <1>2, <1>3, <1>4, <1>5, <1>6, <1>7, <1>8 DEF Next

-----------------------------------------------------------------------------
(* What a change of one account does to the sums.                          *)

LEMMA WeightTypes ==
    ASSUME TypeOK
    PROVE  /\ [a \in Authorities |-> BondOf(a)] \in [Authorities -> Nat]
           /\ [a \in Authorities |-> ActiveWeightOf(a)] \in [Authorities -> Nat]
           /\ BondedTotal \in Nat
           /\ ActiveWeight \in Nat
           /\ IsFiniteSet(ActiveOperators)
           /\ Cardinality(ActiveOperators) \in Nat
<1>1. \A a \in Authorities : BondOf(a) \in Nat /\ ActiveWeightOf(a) \in Nat
    BY AccountTypes DEF BondOf, ActiveWeightOf, Members, ActiveOperators,
       OperatorAccount
<1>2. /\ [a \in Authorities |-> BondOf(a)] \in [Authorities -> Nat]
      /\ [a \in Authorities |-> ActiveWeightOf(a)] \in [Authorities -> Nat]
    BY <1>1
<1>3. BondedTotal \in Nat /\ ActiveWeight \in Nat
    BY <1>2, TotalType, AuthoritiesAssumption DEF BondedTotal, ActiveWeight
<1>4. IsFiniteSet(ActiveOperators)
    BY AuthoritiesAssumption, FS_Subset DEF ActiveOperators, Members
<1>5. QED
    BY <1>2, <1>3, <1>4, FS_CardinalityType

LEMMA OneOperatorChanges ==
    ASSUME TypeOK, TypeOK', NEW a \in Authorities,
           \A b \in Authorities \ {a} : operators'[b] = operators[b]
    PROVE  /\ BondedTotal' = BondedTotal + BondOf(a)' - BondOf(a)
           /\ ActiveWeight' = ActiveWeight + ActiveWeightOf(a)' - ActiveWeightOf(a)
<1> DEFINE f == [b \in Authorities |-> BondOf(b)]
           g == [b \in Authorities |-> BondOf(b)']
           v == [b \in Authorities |-> ActiveWeightOf(b)]
           w == [b \in Authorities |-> ActiveWeightOf(b)']
<1>1. f \in [Authorities -> Nat] /\ v \in [Authorities -> Nat]
    BY WeightTypes
<1>2. g \in [Authorities -> Nat] /\ w \in [Authorities -> Nat]
    BY AccountTypes, TypeOK' DEF TypeOK, BondOf, ActiveWeightOf, Members,
       ActiveOperators, OperatorAccount
<1>3. \A b \in Authorities \ {a} : g[b] = f[b] /\ w[b] = v[b]
    BY DEF BondOf, ActiveWeightOf, Members, ActiveOperators
<1>4. g[a] = BondOf(a)' /\ f[a] = BondOf(a)
      /\ w[a] = ActiveWeightOf(a)' /\ v[a] = ActiveWeightOf(a)
    OBVIOUS
<1>5. /\ BondedTotal = Total(f) /\ BondedTotal' = Total(g)
      /\ ActiveWeight = Total(v) /\ ActiveWeight' = Total(w)
    BY DEF BondedTotal, ActiveWeight
<1> HIDE DEF f, g, v, w
<1>6. Total(g) = Total(f) + g[a] - f[a]
    BY <1>1, <1>2, <1>3, TotalChange, AuthoritiesAssumption
<1>7. Total(w) = Total(v) + w[a] - v[a]
    BY <1>1, <1>2, <1>3, TotalChange, AuthoritiesAssumption
<1>8. QED
    BY <1>4, <1>5, <1>6, <1>7

\* One account joins the active set, leaves it, or neither.
LEMMA OneActiveChanges ==
    ASSUME TypeOK, NEW a \in Authorities,
           \A b \in Authorities \ {a} : operators'[b] = operators[b]
    PROVE  /\ a \in ActiveOperators' => ActiveOperators' = ActiveOperators \cup {a}
           /\ a \notin ActiveOperators' => ActiveOperators' = ActiveOperators \ {a}
           /\ a \notin ActiveOperators /\ a \in ActiveOperators'
                => Cardinality(ActiveOperators') = Cardinality(ActiveOperators) + 1
           /\ a \in ActiveOperators /\ a \notin ActiveOperators'
                => Cardinality(ActiveOperators') = Cardinality(ActiveOperators) - 1
           /\ (a \in ActiveOperators) <=> (a \in ActiveOperators')
                => ActiveOperators' = ActiveOperators
<1>1. a \in ActiveOperators' => ActiveOperators' = ActiveOperators \cup {a}
    BY DEF ActiveOperators, Members
<1>2. a \notin ActiveOperators' => ActiveOperators' = ActiveOperators \ {a}
    BY DEF ActiveOperators, Members
<1>3. IsFiniteSet(ActiveOperators)
    BY WeightTypes
<1>4. a \notin ActiveOperators
         => Cardinality(ActiveOperators \cup {a}) = Cardinality(ActiveOperators) + 1
    BY <1>3, FS_AddElement
<1>5. a \in ActiveOperators
         => Cardinality(ActiveOperators \ {a}) = Cardinality(ActiveOperators) - 1
    BY <1>3, FS_RemoveElement
<1>6. (a \in ActiveOperators) <=> (a \in ActiveOperators')
         => ActiveOperators' = ActiveOperators
    BY <1>1, <1>2
<1>7. a \notin ActiveOperators /\ a \in ActiveOperators'
         => Cardinality(ActiveOperators') = Cardinality(ActiveOperators) + 1
    BY <1>1, <1>4
<1>8. a \in ActiveOperators /\ a \notin ActiveOperators'
         => Cardinality(ActiveOperators') = Cardinality(ActiveOperators) - 1
    BY <1>2, <1>5
<1>9. QED
    BY <1>1, <1>2, <1>6, <1>7, <1>8

-----------------------------------------------------------------------------
(* What each step does to the account it is about.                         *)

LEMMA RegisterEffect ==
    ASSUME TypeOK, NEW a \in Authorities, NEW bond_amount \in BondArgs,
           RegisterOperator(a, bond_amount)
    PROVE  /\ bond_amount \in Nat
           /\ bond_vault' = bond_vault + bond_amount
           /\ BondOf(a) = 0 /\ BondOf(a)' = bond_amount
           /\ a \notin ActiveOperators /\ a \in ActiveOperators'
           /\ ActiveWeightOf(a) = 0 /\ ActiveWeightOf(a)' = bond_amount
           /\ Initialized /\ Initialized'
           /\ protocol'.total_bonded = protocol.total_bonded + bond_amount
           /\ protocol'.operator_count = protocol.operator_count + 1
           /\ \A b \in Authorities \ {a} : operators'[b] = operators[b]
<1> DEFINE op == [bonded_amount |-> bond_amount, stake_weight |-> bond_amount,
                  jailed |-> FALSE, unbonding_at |-> 0]
<1>1. protocol \in ProtocolAccount /\ bond_amount \in Nat /\ Initialized
    BY AccountTypes, ArgumentAssumption DEF RegisterOperator, Running
<1>2. /\ operators[a] = NoAccount
      /\ operators' = [operators EXCEPT ![a] = op]
      /\ bond_vault' = bond_vault + bond_amount
      /\ protocol' = [protocol EXCEPT !.total_bonded = @ + bond_amount,
                                      !.operator_count = @ + 1]
    BY DEF RegisterOperator, ComputeStakeWeight
<1>3. op \in OperatorAccount
    BY <1>1, WidthAssumption DEF OperatorAccount
<1>4. op # NoAccount
    BY <1>3, SentinelAssumption
<1>5. /\ operators'[a] = op
      /\ \A b \in Authorities \ {a} : operators'[b] = operators[b]
    BY <1>2 DEF TypeOK
<1>6. /\ protocol'.total_bonded = protocol.total_bonded + bond_amount
      /\ protocol'.operator_count = protocol.operator_count + 1
    BY <1>1, <1>2 DEF ProtocolAccount
<1>7. protocol' # NoAccount
    <2>1. /\ protocol.total_bonded \in Nat /\ protocol.operator_count \in Nat
          /\ U64_MAX \in Nat /\ U32_MAX \in Nat
        BY <1>1, WidthAssumption DEF ProtocolAccount
    <2>2. /\ protocol.total_bonded + bond_amount \in 0..U64_MAX
          /\ protocol.operator_count + 1 \in 0..U32_MAX
        BY <1>1, <2>1 DEF RegisterOperator, ComputeStakeWeight
    <2>3. protocol' \in ProtocolAccount
        BY <1>1, <1>2, <2>2, ProtocolTotalsType
    <2>4. QED
        BY <2>3, SentinelAssumption
<1>8. a \notin Members /\ a \in Members'
    BY <1>2, <1>4, <1>5 DEF Members
<1>9. /\ BondOf(a) = 0 /\ BondOf(a)' = bond_amount
      /\ a \notin ActiveOperators /\ a \in ActiveOperators'
    BY <1>5, <1>8 DEF BondOf, ActiveOperators, IsActive
<1>10. ActiveWeightOf(a) = 0 /\ ActiveWeightOf(a)' = bond_amount
    BY <1>5, <1>9 DEF ActiveWeightOf
<1>11. QED
    BY <1>1, <1>2, <1>5, <1>6, <1>7, <1>9, <1>10 DEF Initialized

LEMMA UnbondEffect ==
    ASSUME TypeOK, NEW a \in Authorities, BeginUnbonding(a)
    PROVE  /\ bond_vault' = bond_vault
           /\ BondOf(a)' = BondOf(a)
           /\ a \notin ActiveOperators'
           /\ ActiveWeightOf(a)' = 0
           /\ operators[a].stake_weight \in Nat
           /\ ActiveWeightOf(a) \in {0, operators[a].stake_weight}
           /\ Initialized
           /\ protocol'.total_bonded =
                 SaturatingSub(protocol.total_bonded, operators[a].stake_weight)
           /\ protocol'.operator_count = SaturatingSub(protocol.operator_count, 1)
           /\ operators'[a] # NoAccount
           /\ operators'[a].jailed
           /\ operators'[a].unbonding_at =
                 slot + protocol.unbonding_slots
           /\ operators[a].unbonding_at = 0
           /\ \A b \in Authorities \ {a} : operators'[b] = operators[b]
<1> DEFINE op == [operators[a] EXCEPT
                    !.unbonding_at = slot + protocol.unbonding_slots,
                    !.jailed = TRUE]
<1>1. /\ protocol \in ProtocolAccount /\ Initialized
      /\ operators[a] \in OperatorAccount /\ operators[a] # NoAccount
      /\ operators[a].unbonding_at = 0
    BY AccountTypes DEF BeginUnbonding, Running
<1>2. /\ slot + protocol.unbonding_slots \in 0..U64_MAX
      /\ slot + protocol.unbonding_slots # 0
    BY <1>1, WidthAssumption DEF BeginUnbonding, TypeOK, ProtocolAccount
<1>3. op \in OperatorAccount
    BY <1>1, <1>2 DEF OperatorAccount
<1>4. /\ op.unbonding_at = slot + protocol.unbonding_slots
      /\ op.jailed
      /\ op.bonded_amount = operators[a].bonded_amount
      /\ op # NoAccount
    BY <1>1, <1>3, SentinelAssumption DEF OperatorAccount
<1> HIDE DEF op
<1>5. /\ operators'[a] = op
      /\ \A b \in Authorities \ {a} : operators'[b] = operators[b]
    BY DEF BeginUnbonding, TypeOK, op
<1>6. /\ protocol'.total_bonded =
            SaturatingSub(protocol.total_bonded, operators[a].stake_weight)
      /\ protocol'.operator_count = SaturatingSub(protocol.operator_count, 1)
    BY <1>1 DEF BeginUnbonding, ProtocolAccount
<1>7. a \in Members /\ a \in Members'
    BY <1>1, <1>4, <1>5 DEF Members
<1>8. BondOf(a)' = BondOf(a)
    BY <1>4, <1>5, <1>7 DEF BondOf
<1>9. a \notin ActiveOperators'
    BY <1>4, <1>5 DEF ActiveOperators, IsActive
<1>10. /\ ActiveWeightOf(a)' = 0
       /\ ActiveWeightOf(a) \in {0, operators[a].stake_weight}
       /\ operators[a].stake_weight \in Nat
    BY <1>1, <1>9 DEF ActiveWeightOf, OperatorAccount
<1>11. bond_vault' = bond_vault
    BY DEF BeginUnbonding, tokens
<1>12. QED
    BY <1>1, <1>4, <1>5, <1>6, <1>8, <1>9, <1>10, <1>11

LEMMA WithdrawEffect ==
    ASSUME TypeOK, NEW a \in Authorities, WithdrawBond(a)
    PROVE  /\ operators[a].bonded_amount \in Nat
           /\ bond_vault' = bond_vault - operators[a].bonded_amount
           /\ BondOf(a) = operators[a].bonded_amount /\ BondOf(a)' = 0
           /\ a \notin ActiveOperators /\ a \notin ActiveOperators'
           /\ ActiveWeightOf(a) = 0 /\ ActiveWeightOf(a)' = 0
           /\ Initialized /\ protocol' = protocol
           /\ operators'[a] = NoAccount
           /\ \A b \in Authorities \ {a} : operators'[b] = operators[b]
<1>1. /\ operators[a] \in OperatorAccount /\ operators[a] # NoAccount
      /\ operators[a].unbonding_at # 0
      /\ Initialized /\ protocol' = protocol
      /\ bond_vault' = bond_vault - operators[a].bonded_amount
    BY AccountTypes DEF WithdrawBond, CanWithdraw, Withdrawable, WithdrawalDue
<1>2. /\ operators'[a] = NoAccount
      /\ \A b \in Authorities \ {a} : operators'[b] = operators[b]
    BY DEF WithdrawBond, TypeOK
<1>3. a \notin ActiveOperators /\ a \notin ActiveOperators'
    BY <1>1, <1>2 DEF ActiveOperators, Members, IsActive
<1>4. ActiveWeightOf(a) = 0 /\ ActiveWeightOf(a)' = 0
    BY <1>3 DEF ActiveWeightOf
<1>5. BondOf(a) = operators[a].bonded_amount /\ BondOf(a)' = 0
    BY <1>1, <1>2 DEF BondOf, Members
<1>6. operators[a].bonded_amount \in Nat
    BY <1>1 DEF OperatorAccount
<1>7. QED
    BY <1>1, <1>2, <1>3, <1>4, <1>5, <1>6

LEMMA SlashEffect ==
    ASSUME TypeOK, NEW k \in Keys, NEW a \in Authorities,
           NEW amount \in SlashArgs, SlashOperator(k, a, amount)
    PROVE  LET op == operators[a]
               op2 == Slashed(op, amount)
               totals == TotalsAfterSlash(op, op2)
           IN  /\ amount \in Nat /\ amount <= op.bonded_amount
               /\ op \in OperatorAccount /\ op2 \in OperatorAccount
               /\ op # NoAccount
               /\ operators'[a] = op2
               /\ \A b \in Authorities \ {a} : operators'[b] = operators[b]
               /\ bond_vault' = bond_vault - amount
               /\ BondOf(a) = op.bonded_amount
               /\ BondOf(a)' = op.bonded_amount - amount
               /\ Initialized
               /\ protocol'.total_bonded = totals.total
               /\ protocol'.operator_count = totals.count
               /\ (a \in ActiveOperators) <=> IsActive(op)
               /\ (a \in ActiveOperators') <=> IsActive(op2)
               /\ IsActive(op2) => IsActive(op)
<1> DEFINE op == operators[a]
           op2 == Slashed(op, amount)
           totals == TotalsAfterSlash(op, op2)
<1>1. /\ protocol \in ProtocolAccount /\ Initialized
      /\ op \in OperatorAccount /\ op # NoAccount
      /\ amount \in Nat /\ amount <= op.bonded_amount
      /\ bond_vault' = bond_vault - amount
    BY AccountTypes, ArgumentAssumption DEF SlashOperator, SignedByAdmin
<1>2. /\ op2 \in OperatorAccount
      /\ op2.bonded_amount = op.bonded_amount - amount
      /\ op2.unbonding_at = op.unbonding_at
      /\ op.jailed => op2.jailed
    BY <1>1, SlashedType
<1>3. /\ operators' = [operators EXCEPT ![a] = op2]
      /\ protocol' = [protocol EXCEPT !.total_bonded = totals.total,
                                      !.operator_count = totals.count]
    BY DEF SlashOperator
<1> HIDE DEF op2, totals
<1>4. /\ operators'[a] = op2
      /\ \A b \in Authorities \ {a} : operators'[b] = operators[b]
    BY <1>3 DEF TypeOK
<1>5. /\ protocol'.total_bonded = totals.total
      /\ protocol'.operator_count = totals.count
    BY <1>1, <1>3 DEF ProtocolAccount
<1>6. op2 # NoAccount
    BY <1>2, SentinelAssumption
<1>7. a \in Members /\ a \in Members'
    BY <1>1, <1>4, <1>6 DEF Members
<1>8. BondOf(a) = op.bonded_amount /\ BondOf(a)' = op.bonded_amount - amount
    BY <1>2, <1>4, <1>7 DEF BondOf
<1>9. /\ (a \in ActiveOperators) <=> IsActive(op)
      /\ (a \in ActiveOperators') <=> IsActive(op2)
    BY <1>4, <1>7 DEF ActiveOperators, IsActive
<1>10. IsActive(op2) => IsActive(op)
    BY <1>2 DEF IsActive
<1>11. QED
    BY <1>1, <1>2, <1>4, <1>5, <1>8, <1>9, <1>10 DEF op2, totals

-----------------------------------------------------------------------------
(* The vault.                                                              *)

LEMMA NextVault ==
    ASSUME TypeOK, TypeOK', VaultBacksBonds, [Next]_vars
    PROVE  VaultBacksBonds'
<1>1. bond_vault \in Nat /\ BondedTotal \in Nat /\ bond_vault = BondedTotal
    BY WeightTypes DEF TypeOK, VaultBacksBonds
<1>2. CASE UNCHANGED <<operators, bond_vault>>
    BY <1>2 DEF VaultBacksBonds, BondedTotal, BondOf, Members
<1>3. ASSUME NEW a \in Authorities, MembershipStep(a)
      PROVE  VaultBacksBonds'
    <2>1. ASSUME NEW old \in Nat, NEW new \in Nat,
                 bond_vault' = bond_vault + new - old,
                 BondOf(a) = old, BondOf(a)' = new,
                 \A b \in Authorities \ {a} : operators'[b] = operators[b]
          PROVE  VaultBacksBonds'
        <3>1. BondedTotal' = BondedTotal + BondOf(a)' - BondOf(a)
            BY <2>1, OneOperatorChanges
        <3>2. QED
            BY <1>1, <2>1, <3>1 DEF VaultBacksBonds
    <2>2. CASE Registers(a)
        <3>1. PICK bond_amount \in BondArgs : RegisterOperator(a, bond_amount)
            BY <2>2 DEF Registers
        <3>2. /\ bond_amount \in Nat
              /\ bond_vault' = bond_vault + bond_amount - 0
              /\ BondOf(a) = 0 /\ BondOf(a)' = bond_amount
              /\ \A b \in Authorities \ {a} : operators'[b] = operators[b]
            BY <1>1, <3>1, RegisterEffect
        <3>3. QED
            BY <2>1, <3>2
    <2>3. CASE BeginUnbonding(a)
        <3>1. /\ bond_vault' = bond_vault /\ BondOf(a)' = BondOf(a)
              /\ \A b \in Authorities \ {a} : operators'[b] = operators[b]
            BY <2>3, UnbondEffect
        <3>2. BondedTotal' = BondedTotal + BondOf(a)' - BondOf(a)
            BY <3>1, OneOperatorChanges
        <3>3. BondOf(a) \in Nat
            BY WeightTypes
        <3>4. QED
            BY <1>1, <3>1, <3>2, <3>3 DEF VaultBacksBonds
    <2>4. CASE WithdrawBond(a)
        <3>1. /\ operators[a].bonded_amount \in Nat
              /\ bond_vault' = bond_vault - operators[a].bonded_amount
              /\ BondOf(a) = operators[a].bonded_amount /\ BondOf(a)' = 0
              /\ \A b \in Authorities \ {a} : operators'[b] = operators[b]
            BY <2>4, WithdrawEffect
        <3>2. bond_vault' = bond_vault + 0 - operators[a].bonded_amount
            BY <1>1, <3>1
        <3>3. QED
            BY <2>1, <3>1, <3>2
    <2>5. CASE Slashes(a)
        <3>1. PICK k \in Keys, amount \in SlashArgs : SlashOperator(k, a, amount)
            BY <2>5 DEF Slashes
        <3>2. /\ amount \in Nat /\ amount <= operators[a].bonded_amount
              /\ operators[a] \in OperatorAccount
              /\ bond_vault' = bond_vault - amount
              /\ BondOf(a) = operators[a].bonded_amount
              /\ BondOf(a)' = operators[a].bonded_amount - amount
              /\ \A b \in Authorities \ {a} : operators'[b] = operators[b]
            BY <3>1, SlashEffect
        <3>3. operators[a].bonded_amount \in Nat
            BY <3>2 DEF OperatorAccount
        <3>4. BondedTotal' = BondedTotal + BondOf(a)' - BondOf(a)
            BY <3>2, OneOperatorChanges
        <3>5. QED
            BY <1>1, <3>2, <3>3, <3>4 DEF VaultBacksBonds
    <2>6. QED
        BY <1>3, <2>2, <2>3, <2>4, <2>5 DEF MembershipStep
<1>4. QED
    BY <1>2, <1>3, BondSteps

(* The vault always holds exactly the bonds on record, whatever mix of      *)
(* registrations, slashes and withdrawals came before.                      *)
THEOREM VaultIsBacked == Spec => []VaultBacksBonds
<1>1. Init => VaultBacksBonds
    <2> SUFFICES ASSUME Init PROVE VaultBacksBonds
        OBVIOUS
    <2> DEFINE f == [a \in Authorities |-> BondOf(a)]
    <2>1. \A a \in Authorities : f[a] = 0
        BY DEF Init, BondOf, Members
    <2>2. DOMAIN f = Authorities
        OBVIOUS
    <2> HIDE DEF f
    <2>3. Total(f) = 0
        BY <2>1, <2>2, TotalZero
    <2>4. QED
        BY <2>3 DEF f, Init, VaultBacksBonds, BondedTotal
<1>2. TypeOK /\ TypeOK' /\ VaultBacksBonds /\ [Next]_vars => VaultBacksBonds'
    BY NextVault
<1>3. QED
    BY <1>1, <1>2, TypeCorrect, PTL DEF Spec

-----------------------------------------------------------------------------
(* The totals.                                                             *)

\* Taking x off a bound that includes x takes at least as much off what it
\* bounds, unless nothing is left.
LEMMA SaturatingBound ==
    ASSUME NEW t \in Nat, NEW bound \in Nat, NEW x \in Nat,
           t <= bound, x <= bound
    PROVE  /\ SaturatingSub(t, x) \in Nat
           /\ SaturatingSub(t, x) <= t
           /\ SaturatingSub(t, x) <= bound - x
BY DEF SaturatingSub

\* The arithmetic of a slash that costs an active operator w - w2.
LEMMA ShrinkBound ==
    ASSUME NEW t \in Nat, NEW bound \in Nat, NEW w \in Nat, NEW w2 \in Nat,
           t <= bound, w <= bound
    PROVE  LET shrunk == SaturatingSub(t, SaturatingSub(w, w2))
           IN  /\ shrunk \in Nat
               /\ shrunk <= bound + w2 - w
               /\ SaturatingSub(shrunk, w2) <= bound - w
BY DEF SaturatingSub

LEMMA ActiveShare ==
    ASSUME TypeOK, NEW a \in ActiveOperators
    PROVE  /\ ActiveWeightOf(a) = operators[a].stake_weight
           /\ operators[a].stake_weight \in Nat
           /\ operators[a].stake_weight <= ActiveWeight
           /\ 1 <= Cardinality(ActiveOperators)
<1> DEFINE f == [b \in Authorities |-> ActiveWeightOf(b)]
<1>1. a \in Authorities /\ operators[a] \in OperatorAccount
    BY AccountTypes DEF ActiveOperators, Members
<1>2. f \in [Authorities -> Nat] /\ f[a] = ActiveWeightOf(a)
    BY <1>1, WeightTypes
<1>3. ActiveWeightOf(a) = operators[a].stake_weight
    BY DEF ActiveWeightOf
<1>4. operators[a].stake_weight \in Nat
    BY <1>1 DEF OperatorAccount
<1>5. ActiveWeight = Total(f)
    BY DEF ActiveWeight
<1> HIDE DEF f
<1>6. f[a] <= Total(f)
    BY <1>1, <1>2, AuthoritiesAssumption, TotalAtLeastPart
<1>7. 1 <= Cardinality(ActiveOperators)
    <2>1. Cardinality(ActiveOperators) # 0
        BY WeightTypes, FS_EmptySet
    <2>2. Cardinality(ActiveOperators) \in Nat
        BY WeightTypes
    <2>3. QED
        BY <2>1, <2>2
<1>8. QED
    BY <1>2, <1>3, <1>4, <1>5, <1>6, <1>7

LEMMA TotalsSlash ==
    ASSUME TypeOK, TypeOK', TotalsNeverOverstate, NEW k \in Keys,
           NEW a \in Authorities, NEW amount \in SlashArgs,
           SlashOperator(k, a, amount)
    PROVE  TotalsNeverOverstate'
<1> DEFINE op == operators[a]
           op2 == Slashed(op, amount)
           total == protocol.total_bonded
           count == protocol.operator_count
           w == op.stake_weight
           w2 == op2.stake_weight
           shrunk == SaturatingSub(total, SaturatingSub(w, w2))
<1>1. /\ op \in OperatorAccount /\ op2 \in OperatorAccount
      /\ operators'[a] = op2
      /\ \A b \in Authorities \ {a} : operators'[b] = operators[b]
      /\ Initialized
      /\ protocol'.total_bonded = TotalsAfterSlash(op, op2).total
      /\ protocol'.operator_count = TotalsAfterSlash(op, op2).count
      /\ (a \in ActiveOperators) <=> IsActive(op)
      /\ (a \in ActiveOperators') <=> IsActive(op2)
      /\ IsActive(op2) => IsActive(op)
    BY SlashEffect
<1>2. op2.unbonding_at = op.unbonding_at /\ op2.jailed \in BOOLEAN
    BY <1>1 DEF Slashed, OperatorAccount
<1> HIDE DEF op2
<1>3. /\ total \in Nat /\ count \in Nat /\ w \in Nat /\ w2 \in Nat
    BY <1>1, AccountTypes, WidthAssumption DEF ProtocolAccount, OperatorAccount
<1>4. /\ total <= ActiveWeight /\ count <= Cardinality(ActiveOperators)
      /\ ActiveWeight \in Nat /\ Cardinality(ActiveOperators) \in Nat
    BY <1>1, WeightTypes DEF TotalsNeverOverstate
<1>5. ActiveWeight' = ActiveWeight + ActiveWeightOf(a)' - ActiveWeightOf(a)
    BY <1>1, OneOperatorChanges
<1>6. CASE ~IsActive(op)
    <2>1. ActiveWeightOf(a)' = 0 /\ ActiveWeightOf(a) = 0
        BY <1>1, <1>6 DEF ActiveWeightOf
    <2>2. ActiveOperators' = ActiveOperators
        BY <1>1, <1>6, OneActiveChanges
    <2>3. protocol'.total_bonded = total /\ protocol'.operator_count = count
        BY <1>1, <1>6 DEF TotalsAfterSlash
    <2>4. QED
        BY <1>4, <1>5, <2>1, <2>2, <2>3 DEF TotalsNeverOverstate
<1>7. CASE IsActive(op)
    <2>1. a \in ActiveOperators
        BY <1>1, <1>7
    <2>2. /\ ActiveWeightOf(a) = w /\ w <= ActiveWeight
          /\ 1 <= Cardinality(ActiveOperators)
        BY <2>1, ActiveShare
    <2>3. /\ shrunk \in Nat
          /\ shrunk <= ActiveWeight + w2 - w
          /\ SaturatingSub(shrunk, w2) <= ActiveWeight - w
        BY <1>3, <1>4, <2>2, ShrinkBound
    <2> HIDE DEF shrunk
    <2>4. CASE op2.jailed
        <3>1. a \notin ActiveOperators' /\ ActiveWeightOf(a)' = 0
            BY <1>1, <2>4 DEF IsActive, ActiveWeightOf
        <3>2. Cardinality(ActiveOperators') = Cardinality(ActiveOperators) - 1
            BY <1>1, <2>1, <3>1, OneActiveChanges
        <3>3. /\ protocol'.total_bonded = SaturatingSub(shrunk, w2)
              /\ protocol'.operator_count = SaturatingSub(count, 1)
            BY <1>1, <1>7, <2>4 DEF TotalsAfterSlash, shrunk
        <3>4. SaturatingSub(count, 1) <= Cardinality(ActiveOperators) - 1
            BY <1>3, <1>4, <2>2, SaturatingBound
        <3>5. ActiveWeight' = ActiveWeight - w
            BY <1>3, <1>4, <1>5, <2>2, <3>1
        <3>6. QED
            BY <2>3, <3>2, <3>3, <3>4, <3>5 DEF TotalsNeverOverstate
    <2>5. CASE ~op2.jailed
        <3>1. a \in ActiveOperators'
            BY <1>1, <1>2, <1>7, <2>5 DEF IsActive
        <3>2. ActiveWeightOf(a)' = w2
            BY <1>1, <3>1 DEF ActiveWeightOf
        <3>3. ActiveOperators' = ActiveOperators
            BY <1>1, <2>1, <3>1, OneActiveChanges
        <3>4. protocol'.total_bonded = shrunk /\ protocol'.operator_count = count
            BY <1>1, <1>7, <2>5 DEF TotalsAfterSlash, shrunk
        <3>5. ActiveWeight' = ActiveWeight + w2 - w
            BY <1>5, <2>2, <3>2
        <3>6. QED
            BY <1>4, <2>3, <3>3, <3>4, <3>5 DEF TotalsNeverOverstate
    <2>6. QED
        BY <2>4, <2>5
<1>8. QED
    BY <1>6, <1>7

LEMMA TotalsRegister ==
    ASSUME TypeOK, TypeOK', TotalsNeverOverstate, NEW a \in Authorities,
           NEW bond_amount \in BondArgs, RegisterOperator(a, bond_amount)
    PROVE  TotalsNeverOverstate'
<1>1. /\ bond_amount \in Nat
      /\ a \notin ActiveOperators /\ a \in ActiveOperators'
      /\ ActiveWeightOf(a) = 0 /\ ActiveWeightOf(a)' = bond_amount
      /\ Initialized
      /\ protocol'.total_bonded = protocol.total_bonded + bond_amount
      /\ protocol'.operator_count = protocol.operator_count + 1
      /\ \A b \in Authorities \ {a} : operators'[b] = operators[b]
    BY RegisterEffect
<1>2. ActiveWeight' = ActiveWeight + ActiveWeightOf(a)' - ActiveWeightOf(a)
    BY <1>1, OneOperatorChanges
<1>3. Cardinality(ActiveOperators') = Cardinality(ActiveOperators) + 1
    BY <1>1, OneActiveChanges
<1>4. /\ protocol.total_bonded \in Nat /\ protocol.operator_count \in Nat
      /\ ActiveWeight \in Nat /\ Cardinality(ActiveOperators) \in Nat
    BY <1>1, AccountTypes, WeightTypes, WidthAssumption DEF ProtocolAccount
<1>5. QED
    BY <1>1, <1>2, <1>3, <1>4 DEF TotalsNeverOverstate

LEMMA TotalsUnbond ==
    ASSUME TypeOK, TypeOK', TotalsNeverOverstate, NEW a \in Authorities,
           BeginUnbonding(a)
    PROVE  TotalsNeverOverstate'
<1> DEFINE w == operators[a].stake_weight
           total == protocol.total_bonded
           count == protocol.operator_count
<1>1. /\ a \notin ActiveOperators'
      /\ ActiveWeightOf(a)' = 0
      /\ w \in Nat
      /\ ActiveWeightOf(a) \in {0, w}
      /\ Initialized
      /\ protocol'.total_bonded = SaturatingSub(total, w)
      /\ protocol'.operator_count = SaturatingSub(count, 1)
      /\ \A b \in Authorities \ {a} : operators'[b] = operators[b]
    BY UnbondEffect
<1>2. ActiveWeight' = ActiveWeight + ActiveWeightOf(a)' - ActiveWeightOf(a)
    BY <1>1, OneOperatorChanges
<1>3. /\ total \in Nat /\ count \in Nat
      /\ ActiveWeight \in Nat /\ Cardinality(ActiveOperators) \in Nat
    BY <1>1, AccountTypes, WeightTypes, WidthAssumption DEF ProtocolAccount
<1>4. total <= ActiveWeight /\ count <= Cardinality(ActiveOperators)
    BY <1>1 DEF TotalsNeverOverstate
<1>5. CASE a \in ActiveOperators
    <2>1. /\ ActiveWeightOf(a) = w /\ w <= ActiveWeight
          /\ 1 <= Cardinality(ActiveOperators)
        BY <1>5, ActiveShare
    <2>2. /\ SaturatingSub(total, w) <= ActiveWeight - w
          /\ SaturatingSub(count, 1) <= Cardinality(ActiveOperators) - 1
        BY <1>1, <1>3, <1>4, <2>1, SaturatingBound
    <2>3. Cardinality(ActiveOperators') = Cardinality(ActiveOperators) - 1
        BY <1>1, <1>5, OneActiveChanges
    <2>4. ActiveWeight' = ActiveWeight - w
        BY <1>1, <1>2, <1>3, <2>1
    <2>5. QED
        BY <1>1, <2>2, <2>3, <2>4 DEF TotalsNeverOverstate
<1>6. CASE a \notin ActiveOperators
    <2>1. ActiveWeightOf(a) = 0
        BY <1>6 DEF ActiveWeightOf
    <2>2. ActiveOperators' = ActiveOperators
        BY <1>1, <1>6, OneActiveChanges
    <2>3. SaturatingSub(total, w) <= ActiveWeight
        BY <1>1, <1>3, <1>4 DEF SaturatingSub
    <2>4. SaturatingSub(count, 1) <= Cardinality(ActiveOperators)
        BY <1>3, <1>4 DEF SaturatingSub
    <2>5. ActiveWeight' = ActiveWeight
        BY <1>1, <1>2, <1>3, <2>1
    <2>6. QED
        BY <1>1, <2>2, <2>3, <2>4, <2>5 DEF TotalsNeverOverstate
<1>7. QED
    BY <1>5, <1>6

LEMMA TotalsWithdraw ==
    ASSUME TypeOK, TypeOK', TotalsNeverOverstate, NEW a \in Authorities,
           WithdrawBond(a)
    PROVE  TotalsNeverOverstate'
<1>1. /\ a \notin ActiveOperators /\ a \notin ActiveOperators'
      /\ ActiveWeightOf(a) = 0 /\ ActiveWeightOf(a)' = 0
      /\ Initialized /\ protocol' = protocol
      /\ \A b \in Authorities \ {a} : operators'[b] = operators[b]
    BY WithdrawEffect
<1>2. ActiveWeight' = ActiveWeight
    BY <1>1, OneOperatorChanges, WeightTypes
<1>3. ActiveOperators' = ActiveOperators
    BY <1>1, OneActiveChanges
<1>4. QED
    BY <1>1, <1>2, <1>3 DEF TotalsNeverOverstate

LEMMA NextTotals ==
    ASSUME TypeOK, TypeOK', TotalsNeverOverstate, [Next]_vars
    PROVE  TotalsNeverOverstate'
<1>1. ASSUME UNCHANGED operators, Initialized' => TotalsKept \/ TotalsZeroed
      PROVE  TotalsNeverOverstate'
    <2>1. /\ ActiveWeight' = ActiveWeight
          /\ ActiveOperators' = ActiveOperators
        BY <1>1 DEF ActiveWeight, ActiveWeightOf, ActiveOperators, Members
    <2>2. ActiveWeight \in Nat /\ Cardinality(ActiveOperators) \in Nat
        BY WeightTypes
    <2>3. CASE TotalsKept
        BY <2>1, <2>3 DEF TotalsKept, TotalsNeverOverstate
    <2>4. CASE TotalsZeroed
        BY <2>1, <2>2, <2>4 DEF TotalsZeroed, TotalsNeverOverstate
    <2>5. CASE ~Initialized'
        BY <2>5 DEF TotalsNeverOverstate
    <2>6. QED
        BY <1>1, <2>3, <2>4, <2>5
<1>2. ASSUME NEW a \in Authorities, MembershipStep(a)
      PROVE  TotalsNeverOverstate'
    BY <1>2, TotalsRegister, TotalsUnbond, TotalsWithdraw, TotalsSlash
       DEF MembershipStep, Registers, Slashes
<1>3. QED
    BY <1>1, <1>2, BondSteps

(* The totals that price a forged signature never exceed the active set     *)
(* they are meant to sum up, through any mix of joins, slashes, jailings    *)
(* and exits.                                                               *)
THEOREM TotalsAreCovered == Spec => []TotalsNeverOverstate
<1>1. Init => TotalsNeverOverstate
    BY DEF Init, TotalsNeverOverstate, Initialized
<1>2. TypeOK /\ TypeOK' /\ TotalsNeverOverstate /\ [Next]_vars
         => TotalsNeverOverstate'
    BY NextTotals
<1>3. QED
    BY <1>1, <1>2, TypeCorrect, PTL DEF Spec

-----------------------------------------------------------------------------
(* The way out.                                                            *)

\* Whoever is leaving is jailed, and so stays out of the active set.
LeavingIsJailed ==
    \A a \in Members : operators[a].unbonding_at # 0 => operators[a].jailed

\* What ExitIsOneWay says of the account of a.
StaysOut(a) ==
    \/ operators'[a] = NoAccount
    \/ /\ operators'[a].jailed
       /\ operators[a].unbonding_at # 0 =>
             operators'[a].unbonding_at = operators[a].unbonding_at

LEMMA SlashKeepsOut ==
    ASSUME TypeOK, NEW k \in Keys, NEW a \in Authorities,
           NEW amount \in SlashArgs, SlashOperator(k, a, amount)
    PROVE  /\ operators'[a] # NoAccount
           /\ operators'[a].unbonding_at = operators[a].unbonding_at
           /\ operators[a].jailed => operators'[a].jailed
<1> DEFINE op2 == Slashed(operators[a], amount)
<1>1. /\ operators'[a] = op2
      /\ operators[a] \in OperatorAccount /\ op2 \in OperatorAccount
      /\ amount \in Nat /\ amount <= operators[a].bonded_amount
      /\ Initialized
    BY SlashEffect
<1>2. protocol \in ProtocolAccount
    BY <1>1, AccountTypes
<1>3. /\ op2.unbonding_at = operators[a].unbonding_at
      /\ operators[a].jailed => op2.jailed
    BY <1>1, <1>2, SlashedType
<1> HIDE DEF op2
<1>4. QED
    BY <1>1, <1>3, SentinelAssumption

LEMMA NextAccount ==
    ASSUME TypeOK, LeavingIsJailed, [Next]_vars, NEW a \in Authorities
    PROVE  /\ operators'[a] # NoAccount /\ operators'[a].unbonding_at # 0
                => operators'[a].jailed
           /\ a \in Members /\ ~IsActive(operators[a]) => StaysOut(a)
<1> DEFINE Goal ==
              /\ operators'[a] # NoAccount /\ operators'[a].unbonding_at # 0
                   => operators'[a].jailed
              /\ a \in Members /\ ~IsActive(operators[a]) => StaysOut(a)
<1>1. ASSUME operators'[a] = operators[a] PROVE Goal
    BY <1>1 DEF LeavingIsJailed, Members, StaysOut, IsActive
<1>2. ASSUME NEW b \in Authorities, MembershipStep(b), b # a PROVE Goal
    <2>1. operators'[a] = operators[a]
        BY <1>2 DEF MembershipStep, Registers, Slashes, RegisterOperator,
           BeginUnbonding, WithdrawBond, SlashOperator, TypeOK
    <2>2. QED
        BY <1>1, <2>1
<1>3. CASE Registers(a)
    <2>1. PICK bond_amount \in BondArgs : RegisterOperator(a, bond_amount)
        BY <1>3 DEF Registers
    <2>2. a \notin Members
        BY <2>1 DEF RegisterOperator, Members
    <2>3. operators'[a].unbonding_at = 0
        BY <2>1 DEF RegisterOperator, TypeOK
    <2>4. QED
        BY <2>2, <2>3
<1>4. CASE BeginUnbonding(a)
    <2>1. operators'[a].jailed /\ operators[a].unbonding_at = 0
        BY <1>4, UnbondEffect
    <2>2. QED
        BY <2>1 DEF StaysOut
<1>5. CASE WithdrawBond(a)
    <2>1. operators'[a] = NoAccount
        BY <1>5, WithdrawEffect
    <2>2. QED
        BY <2>1 DEF StaysOut
<1>6. CASE Slashes(a)
    <2>1. PICK k \in Keys, amount \in SlashArgs : SlashOperator(k, a, amount)
        BY <1>6 DEF Slashes
    <2>2. /\ operators'[a].unbonding_at = operators[a].unbonding_at
          /\ operators[a].jailed => operators'[a].jailed
        BY <2>1, SlashKeepsOut
    <2>3. a \in Members
        BY <2>1 DEF SlashOperator, Members
    <2>4. QED
        BY <2>2, <2>3 DEF LeavingIsJailed, StaysOut, IsActive
<1>7. CASE UNCHANGED operators
    BY <1>1, <1>7
<1>8. CASE \E b \in Authorities : MembershipStep(b)
    BY <1>2, <1>3, <1>4, <1>5, <1>6, <1>8 DEF MembershipStep
<1>9. QED
    BY <1>7, <1>8, BondSteps

\* Only an operator of the active set signs.
LEMMA SignersAreActive ==
    ASSUME TypeOK, [Next]_vars, NEW a \in Authorities, NEW ad \in Addresses,
           a \in credited'[ad], a \notin credited[ad]
    PROVE  a \in ActiveOperators /\ Submits(ad, a)
<1>1. PICK other \in Addresses :
          \/ Creates(other)
          \/ \E b \in Authorities : Submits(other, b)
          \/ Settles(other)
          \/ Closes(other)
    BY SigningSteps DEF signing
<1>2. other = ad
    BY <1>1, OthersUnchanged
<1>3. ~Creates(ad) /\ ~Closes(ad)
    BY CreateEffect, CloseEffect
<1>4. ~Settles(ad)
    BY SettleEffect
<1>5. PICK b \in Authorities : Submits(ad, b)
    BY <1>1, <1>2, <1>3, <1>4
<1>6. credited'[ad] = credited[ad] \cup {b}
    BY <1>5, SubmitEffect
<1>7. Submits(ad, a)
    BY <1>5, <1>6
<1>8. QED
    BY <1>7 DEF Submits, SubmitPartialSignature, ActiveOperators, Members

LEMMA LeavingCorrect == Spec => []LeavingIsJailed
<1>1. Init => LeavingIsJailed
    BY DEF Init, LeavingIsJailed, Members
<1>2. TypeOK /\ LeavingIsJailed /\ [Next]_vars => LeavingIsJailed'
    BY NextAccount DEF LeavingIsJailed, Members
<1>3. QED
    BY <1>1, <1>2, TypeCorrect, PTL DEF Spec

(* An account that is jailed or unbonding stays so until it is closed, its  *)
(* withdrawal slot is never moved, and its operator never signs again       *)
(* (begin_unbonding, slash_operator, submit_partial_signature).             *)
THEOREM LeavingIsFinal == Spec => ExitIsOneWay
<1> DEFINE OneWay ==
              \A a \in Members :
                  ~IsActive(operators[a]) =>
                      /\ StaysOut(a)
                      /\ \A ad \in Addresses :
                            a \in credited'[ad] => a \in credited[ad]
<1>1. TypeOK /\ LeavingIsJailed /\ [Next]_vars => OneWay
    <2> SUFFICES ASSUME TypeOK, LeavingIsJailed, [Next]_vars,
                        NEW a \in Members, ~IsActive(operators[a])
                 PROVE  /\ StaysOut(a)
                        /\ \A ad \in Addresses :
                              a \in credited'[ad] => a \in credited[ad]
        OBVIOUS
    <2>1. a \in Authorities
        BY DEF Members
    <2>2. StaysOut(a)
        BY <2>1, NextAccount
    <2>3. a \notin ActiveOperators
        BY DEF ActiveOperators
    <2>4. QED
        BY <2>1, <2>2, <2>3, SignersAreActive
<1>2. Spec => [][OneWay]_vars
    BY <1>1, TypeCorrect, LeavingCorrect, PTL DEF Spec
<1>3. [][OneWay]_vars => ExitIsOneWay
    BY PTL DEF ExitIsOneWay, StaysOut
<1>4. QED
    BY <1>2, <1>3, PTL

-----------------------------------------------------------------------------
(* What a request asks for when it is created.                             *)

LEMMA DivisionBound ==
    ASSUME NEW total \in Nat, NEW d \in Nat \ {0}, NEW bps \in 0..d
    PROVE  (total * bps) \div d <= total
<1> DEFINE p == total * bps
           q == p \div d
<1>1. p \in Nat /\ p <= total * d
    OBVIOUS
<1>2. q \in Nat /\ d * q <= p
    OBVIOUS
<1> HIDE DEF p, q
<1>3. d * q <= d * total
    BY <1>1, <1>2
<1>4. q <= total
    BY <1>2, <1>3
<1>5. QED
    BY <1>4 DEF p, q

LEMMA RequirementBound ==
    ASSUME NEW total \in Nat, NEW bps \in 1..BPS_DENOMINATOR
    PROVE  RequiredStakeWeight(total, bps) <= total
<1>1. BPS_DENOMINATOR \in Nat \ {0}
    BY SMT DEF BPS_DENOMINATOR
<1>2. bps \in 0..BPS_DENOMINATOR
    BY <1>1
<1>3. QED
    BY <1>1, <1>2, DivisionBound DEF RequiredStakeWeight

LEMMA CreateIsFulfillable ==
    ASSUME TypeOK, TotalsNeverOverstate, NEW ad \in Addresses, Creates(ad)
    PROVE  /\ requests'[ad].threshold <= Cardinality(ActiveOperators)
           /\ requests'[ad].required_stake_weight <= ActiveWeight
<1> DEFINE total == protocol.total_bonded
           bps == protocol.threshold_bps
           need == RequiredStakeWeight(total, bps)
<1>1. PICK scheme \in Schemes, message_hash \in Messages \cup {Zero},
           threshold \in ThresholdArgs, validity \in ValidityArgs :
               CreateSigningRequest(ad, scheme, message_hash, threshold, validity)
    BY DEF Creates
<1>2. protocol \in ProtocolAccount /\ Initialized
    BY <1>1, AccountTypes DEF CreateSigningRequest, Running
<1>3. /\ total \in Nat /\ bps \in 1..BPS_DENOMINATOR
      /\ protocol.operator_count \in Nat /\ threshold \in Nat
    BY <1>2, ArgumentAssumption, WidthAssumption DEF ProtocolAccount
<1>4. /\ total <= ActiveWeight
      /\ protocol.operator_count <= Cardinality(ActiveOperators)
    BY <1>2 DEF TotalsNeverOverstate
<1>5. need <= total /\ need \in Nat
    <2>1. bps \in Nat
        BY <1>3, BoundsType
    <2>2. QED
        BY <1>3, <2>1, RequirementBound, RequirementType
<1>6. /\ requests'[ad].threshold = threshold
      /\ requests'[ad].required_stake_weight = need
      /\ threshold <= protocol.operator_count
    BY <1>1 DEF CreateSigningRequest, TypeOK
<1> HIDE DEF need
<1>7. ActiveWeight \in Nat /\ Cardinality(ActiveOperators) \in Nat
    BY WeightTypes
<1>8. QED
    BY <1>3, <1>4, <1>5, <1>6, <1>7

\* A request appears only by being created.
LEMMA RequestsAreCreated ==
    ASSUME TypeOK, [Next]_vars, NEW ad \in Addresses,
           requests[ad] = NoAccount, requests'[ad] # NoAccount
    PROVE  Creates(ad)
<1>1. PICK other \in Addresses :
          \/ Creates(other)
          \/ \E b \in Authorities : Submits(other, b)
          \/ Settles(other)
          \/ Closes(other)
    BY SigningSteps DEF signing
<1>2. other = ad
    BY <1>1, OthersUnchanged
<1>3. ~Settles(ad) /\ ~\E b \in Authorities : Submits(ad, b)
    BY SettleEffect, SubmitEffect
<1>4. ~Closes(ad)
    BY CloseEffect
<1>5. QED
    BY <1>1, <1>2, <1>3, <1>4

(* A request never asks for more signers or stake than the active set has   *)
(* at that moment (create_signing_request, required_stake_weight).          *)
THEOREM RequestsAreFulfillable == Spec => FulfillableAtBirth
<1> DEFINE AtBirth ==
              \A ad \in Addresses :
                  requests[ad] = NoAccount /\ requests'[ad] # NoAccount =>
                      /\ requests'[ad].threshold <= Cardinality(ActiveOperators)
                      /\ requests'[ad].required_stake_weight <= ActiveWeight
<1>1. TypeOK /\ TotalsNeverOverstate /\ [Next]_vars => AtBirth
    BY RequestsAreCreated, CreateIsFulfillable
<1>2. Spec => [][AtBirth]_vars
    BY <1>1, TypeCorrect, TotalsAreCovered, PTL DEF Spec
<1>3. [][AtBirth]_vars => FulfillableAtBirth
    BY PTL DEF FulfillableAtBirth
<1>4. QED
    BY <1>2, <1>3, PTL

-----------------------------------------------------------------------------
(* Collateral behind a signature.                                          *)

ConfigFromArgs == Initialized => protocol.unbonding_slots \in UnbondingArgs

\* Whoever signed signed in the past, and is a member that will not be free
\* to withdraw before period slots have passed since, unless they have.
BackedAt(ad, a, period) ==
    partials[ad][a] # NoAccount =>
        LET signed == partials[ad][a].submitted_slot
        IN  /\ signed <= slot
            /\ \/ signed + period <= slot
               \/ /\ operators[a] # NoAccount
                  /\ \/ operators[a].unbonding_at = 0
                     \/ operators[a].unbonding_at >= signed + period

CollateralInv ==
    /\ ConfigFromArgs
    /\ \A ad \in Addresses, a \in Authorities, period \in UnbondingArgs :
          IsShortestUnbonding(period) => BackedAt(ad, a, period)

LEMMA NextConfig ==
    ASSUME TypeOK, ConfigFromArgs, [Next]_vars
    PROVE  ConfigFromArgs'
<1>1. ASSUME Initialized,
             protocol'.unbonding_slots = protocol.unbonding_slots
      PROVE  ConfigFromArgs'
    BY <1>1 DEF ConfigFromArgs
<1>2. ASSUME UNCHANGED protocol
      PROVE  ConfigFromArgs'
    BY <1>2 DEF ConfigFromArgs, Initialized
<1>3. CASE UNCHANGED vars
    BY <1>2, <1>3 DEF vars
<1>4. CASE BootstrapStep
    BY <1>4 DEF BootstrapStep, Initialize, ConfigFromArgs
<1>5. CASE ConfigStep
    <2>1. protocol \in ProtocolAccount /\ Initialized
        BY <1>5, AccountTypes DEF ConfigStep
    <2>2. protocol'.unbonding_slots \in
              UnbondingArgs \cup {protocol.unbonding_slots}
        BY <1>5, <2>1 DEF ConfigStep, UpdateConfig, ProtocolAccount
    <2>3. QED
        BY <2>1, <2>2 DEF ConfigFromArgs
<1>6. CASE AdminStep
    <2>1. Initialized
        BY <1>6 DEF AdminStep, SetLstPriceFeed, TransferAdmin, AcceptAdmin,
           Pause, Unpause, SignedByAdmin
    <2>2. protocol \in ProtocolAccount
        BY <2>1, AccountTypes
    <2>3. protocol'.unbonding_slots = protocol.unbonding_slots
        BY <1>6, <2>2 DEF AdminStep, SetLstPriceFeed, TransferAdmin,
           AcceptAdmin, Pause, Unpause, ProtocolAccount
    <2>4. QED
        BY <1>1, <2>1, <2>3
<1>7. CASE OperatorStep
    <2>1. ASSUME Initialized, NEW total, NEW count,
                 protocol' = [protocol EXCEPT !.total_bonded = total,
                                              !.operator_count = count]
          PROVE  ConfigFromArgs'
        <3>1. protocol \in ProtocolAccount
            BY <2>1, AccountTypes
        <3>2. protocol'.unbonding_slots = protocol.unbonding_slots
            BY <2>1, <3>1 DEF ProtocolAccount
        <3>3. QED
            BY <1>1, <2>1, <3>2
    <2>2. ASSUME NEW a \in Authorities, Registers(a) PROVE ConfigFromArgs'
        BY <2>1, <2>2 DEF Registers, RegisterOperator, Running
    <2>3. ASSUME NEW a \in Authorities, BeginUnbonding(a) PROVE ConfigFromArgs'
        BY <2>1, <2>3 DEF BeginUnbonding, Running
    <2>4. ASSUME NEW a \in Authorities, WithdrawBond(a) PROVE ConfigFromArgs'
        BY <1>2, <2>4 DEF WithdrawBond
    <2>5. ASSUME NEW a \in Authorities, Slashes(a) PROVE ConfigFromArgs'
        BY <2>1, <2>5 DEF Slashes, SlashOperator, SignedByAdmin
    <2>6. QED
        BY <1>7, <2>2, <2>3, <2>4, <2>5 DEF OperatorStep, Registers, Slashes
<1>8. CASE RequestStep
    <2>1. ASSUME NEW ad \in Addresses, Creates(ad) PROVE ConfigFromArgs'
        <3>1. protocol \in ProtocolAccount /\ Initialized
            BY <2>1, AccountTypes DEF Creates, CreateSigningRequest, Running
        <3>2. protocol'.unbonding_slots = protocol.unbonding_slots
            BY <2>1, <3>1 DEF Creates, CreateSigningRequest, ProtocolAccount
        <3>3. QED
            BY <1>1, <3>1, <3>2
    <2>2. ASSUME NEW ad \in Addresses,
                 \/ \E a \in Authorities : Submits(ad, a)
                 \/ Settles(ad)
                 \/ CancelRequest(ad)
                 \/ ExpireRequest(ad)
          PROVE  ConfigFromArgs'
        BY <1>2, <2>2 DEF Submits, Settles, SubmitPartialSignature,
           AggregateAndEmit, CancelRequest, ExpireRequest, CloseRequest
    <2>3. QED
        BY <1>8, <2>1, <2>2 DEF RequestStep, Creates, Submits, Settles
<1>9. CASE Tick \/ \E f \in FlakyFeeds : FeedChange(f)
    BY <1>2, <1>9 DEF Tick, FeedChange
<1>10. QED
    BY <1>3, <1>4, <1>5, <1>6, <1>7, <1>8, <1>9 DEF Next

\* A step is about operators, or about one request, or lets time pass.
RequestChange(ad) ==
    \/ Creates(ad)
    \/ \E a \in Authorities : Submits(ad, a)
    \/ Settles(ad)
    \/ Closes(ad)

LEMMA StepKinds ==
    ASSUME [Next]_vars
    PROVE  \/ UNCHANGED <<signing, operators, slot, slash_pool>>
           \/ UNCHANGED <<signing, operators, slash_pool>> /\ slot' = slot + 1
           \/ /\ UNCHANGED <<signing, slot>>
              /\ \E a \in Authorities : MembershipStep(a)
           \/ /\ UNCHANGED <<operators, slot, slash_pool>>
              /\ \E ad \in Addresses : RequestChange(ad)
<1>1. CASE UNCHANGED vars
    BY <1>1 DEF vars, signing
<1>2. CASE BootstrapStep
    BY <1>2 DEF BootstrapStep, Initialize, external, tokens
<1>3. CASE ConfigStep
    BY <1>3 DEF ConfigStep, UpdateConfig, external, tokens
<1>4. CASE AdminStep
    BY <1>4 DEF AdminStep, SetLstPriceFeed, TransferAdmin, AcceptAdmin, Pause,
       Unpause, external, tokens
<1>5. CASE OperatorStep
    <2>1. PICK a \in Authorities : MembershipStep(a)
        BY <1>5 DEF OperatorStep, MembershipStep, Registers, Slashes
    <2>2. UNCHANGED <<signing, slot>>
        BY <2>1 DEF MembershipStep, Registers, Slashes, RegisterOperator,
           BeginUnbonding, WithdrawBond, SlashOperator, external
    <2>3. QED
        BY <2>1, <2>2
<1>6. CASE RequestStep
    <2>1. PICK ad \in Addresses : RequestChange(ad)
        BY <1>6 DEF RequestStep, RequestChange, Creates, Submits, Settles,
           Closes, CancelRequest, ExpireRequest
    <2>2. UNCHANGED <<operators, slot, slash_pool>>
        BY <2>1 DEF RequestChange, Creates, Submits, Settles, Closes,
           CreateSigningRequest, SubmitPartialSignature, AggregateAndEmit,
           CloseRequest, external, tokens
    <2>3. QED
        BY <2>1, <2>2
<1>7. CASE Tick
    BY <1>7 DEF Tick, tokens
<1>8. CASE \E f \in FlakyFeeds : FeedChange(f)
    BY <1>8 DEF FeedChange, tokens
<1>9. QED
    BY <1>1, <1>2, <1>3, <1>4, <1>5, <1>6, <1>7, <1>8 DEF Next

\* Only submit_partial_signature makes a receipt, and none is ever closed.
LEMMA ReceiptsKept ==
    ASSUME TypeOK, NEW ad \in Addresses, NEW a \in Authorities,
           NEW other \in Addresses, RequestChange(other),
           ~ (other = ad /\ Submits(ad, a))
    PROVE  partials'[ad][a] = partials[ad][a]
<1>1. CASE other # ad
    BY <1>1, OthersUnchanged DEF RequestChange
<1>2. CASE Creates(ad) \/ Settles(ad) \/ Closes(ad)
    BY <1>2 DEF Creates, Settles, Closes, CreateSigningRequest,
       AggregateAndEmit, CloseRequest
<1>3. ASSUME NEW b \in Authorities, Submits(ad, b), b # a
      PROVE  partials'[ad][a] = partials[ad][a]
    <2>1. \A c \in Authorities \ {b} : partials'[ad][c] = partials[ad][c]
        BY <1>3, SubmitEffect
    <2>2. QED
        BY <1>3, <2>1
<1>4. QED
    BY <1>1, <1>2, <1>3 DEF RequestChange

LEMMA BackedThroughMembership ==
    ASSUME TypeOK, ConfigFromArgs, NEW ad \in Addresses, NEW a \in Authorities,
           NEW period \in UnbondingArgs, IsShortestUnbonding(period),
           BackedAt(ad, a, period), NEW b \in Authorities, MembershipStep(b),
           UNCHANGED <<signing, slot>>
    PROVE  BackedAt(ad, a, period)'
<1> DEFINE signed == partials[ad][a].submitted_slot
<1> SUFFICES ASSUME partials[ad][a] # NoAccount, ~(signed + period <= slot)
             PROVE  /\ operators'[a] # NoAccount
                    /\ \/ operators'[a].unbonding_at = 0
                       \/ operators'[a].unbonding_at >= signed + period
    BY DEF BackedAt, signing
<1>1. /\ signed <= slot
      /\ operators[a] # NoAccount
      /\ operators[a].unbonding_at = 0 \/ operators[a].unbonding_at >= signed + period
    BY DEF BackedAt
<1>2. /\ slot \in Nat /\ period \in Nat /\ signed \in Nat
      /\ operators[a].unbonding_at \in Nat
    <2>1. partials[ad][a] \in PartialSignature
        BY DEF TypeOK
    <2>2. QED
        BY <1>1, <2>1, AccountTypes, WidthAssumption, ArgumentAssumption
           DEF TypeOK, PartialSignature, OperatorAccount
<1> HIDE DEF signed
<1>3. CASE b # a
    <2>1. operators'[a] = operators[a]
        BY <1>3 DEF MembershipStep, Registers, Slashes, RegisterOperator,
           BeginUnbonding, WithdrawBond, SlashOperator, TypeOK
    <2>2. QED
        BY <1>1, <2>1
<1>4. CASE Registers(a)
    BY <1>1, <1>4 DEF Registers, RegisterOperator
<1>5. CASE BeginUnbonding(a)
    <2>1. /\ Initialized /\ operators'[a] # NoAccount
          /\ operators'[a].unbonding_at = slot + protocol.unbonding_slots
        BY <1>1, <1>5, UnbondEffect
    <2>2. protocol.unbonding_slots \in UnbondingArgs
        BY <2>1 DEF ConfigFromArgs
    <2>3. /\ protocol.unbonding_slots \in Nat
          /\ period <= protocol.unbonding_slots
        BY <2>2, ArgumentAssumption DEF IsShortestUnbonding
    <2>4. QED
        BY <1>1, <1>2, <2>1, <2>3
<1>6. ~WithdrawBond(a)
    BY <1>1, <1>2 DEF WithdrawBond, CanWithdraw, Withdrawable, WithdrawalDue, signed
<1>7. CASE Slashes(a)
    <2>1. PICK k \in Keys, amount \in SlashArgs : SlashOperator(k, a, amount)
        BY <1>7 DEF Slashes
    <2>2. /\ operators'[a] # NoAccount
          /\ operators'[a].unbonding_at = operators[a].unbonding_at
        BY <1>1, <2>1, SlashKeepsOut
    <2>3. QED
        BY <1>1, <2>2
<1>8. QED
    BY <1>3, <1>4, <1>5, <1>6, <1>7 DEF MembershipStep

LEMMA BackedThroughRequest ==
    ASSUME TypeOK, NEW ad \in Addresses, NEW a \in Authorities,
           NEW period \in UnbondingArgs, BackedAt(ad, a, period),
           NEW other \in Addresses, RequestChange(other),
           UNCHANGED <<operators, slot>>
    PROVE  BackedAt(ad, a, period)'
<1>1. CASE other = ad /\ Submits(ad, a)
    <2>1. partials'[ad][a] = [submitted_slot |-> slot,
                              stake_weight |-> operators[a].stake_weight]
        BY <1>1, SubmitEffect
    <2>2. partials'[ad][a].submitted_slot = slot
        BY <2>1
    <2>3. operators[a] # NoAccount /\ operators[a].unbonding_at = 0
        BY <1>1 DEF Submits, SubmitPartialSignature, IsActive
    <2>4. slot \in Nat
        BY DEF TypeOK
    <2>5. QED
        BY <2>2, <2>3, <2>4 DEF BackedAt
<1>2. CASE ~ (other = ad /\ Submits(ad, a))
    <2>1. partials'[ad][a] = partials[ad][a]
        BY <1>2, ReceiptsKept
    <2>2. QED
        BY <2>1 DEF BackedAt
<1>3. QED
    BY <1>1, <1>2

LEMMA BackedThroughTime ==
    ASSUME TypeOK, NEW ad \in Addresses, NEW a \in Authorities,
           NEW period \in UnbondingArgs, BackedAt(ad, a, period),
           UNCHANGED <<signing, operators>>, slot' = slot + 1
    PROVE  BackedAt(ad, a, period)'
<1> SUFFICES ASSUME partials[ad][a] # NoAccount
             PROVE  BackedAt(ad, a, period)'
    BY DEF BackedAt, signing
<1>1. partials[ad][a] \in PartialSignature
    BY DEF TypeOK
<1>2. /\ slot \in Nat /\ period \in Nat
      /\ partials[ad][a].submitted_slot \in Nat
    BY <1>1, ArgumentAssumption DEF TypeOK, PartialSignature
<1>3. QED
    BY <1>2 DEF BackedAt, signing

LEMMA NextCollateral ==
    ASSUME TypeOK, CollateralInv, [Next]_vars
    PROVE  CollateralInv'
<1>1. ConfigFromArgs /\ ConfigFromArgs'
    BY NextConfig DEF CollateralInv
<1>2. ASSUME NEW ad \in Addresses, NEW a \in Authorities,
             NEW period \in UnbondingArgs, IsShortestUnbonding(period)
      PROVE  BackedAt(ad, a, period)'
    <2>1. BackedAt(ad, a, period)
        BY <1>2 DEF CollateralInv
    <2>2. CASE UNCHANGED <<signing, operators, slot>>
        BY <2>1, <2>2 DEF BackedAt, signing
    <2>3. CASE UNCHANGED <<signing, operators>> /\ slot' = slot + 1
        BY <2>1, <2>3, BackedThroughTime
    <2>4. CASE /\ UNCHANGED <<signing, slot>>
               /\ \E b \in Authorities : MembershipStep(b)
        BY <1>1, <1>2, <2>1, <2>4, BackedThroughMembership
    <2>5. CASE /\ UNCHANGED <<operators, slot>>
               /\ \E other \in Addresses : RequestChange(other)
        BY <2>1, <2>5, BackedThroughRequest
    <2>6. QED
        BY <2>2, <2>3, <2>4, <2>5, StepKinds
<1>3. QED
    BY <1>1, <1>2 DEF CollateralInv, IsShortestUnbonding

(* An operator's account, and so its bond, outlives each of its signatures  *)
(* by the shortest unbonding period that is ever configured, whatever exits,*)
(* slashes, pauses and changes of that period fall in between               *)
(* (submit_partial_signature, begin_unbonding, withdraw_bond).              *)
THEOREM CollateralIsHeld == Spec => []SignaturesAreBacked
<1>1. Init => CollateralInv
    BY DEF Init, CollateralInv, ConfigFromArgs, BackedAt, Initialized
<1>2. TypeOK /\ CollateralInv /\ [Next]_vars => CollateralInv'
    BY NextCollateral
<1>3. TypeOK /\ CollateralInv => SignaturesAreBacked
    <2> SUFFICES ASSUME TypeOK, CollateralInv,
                        NEW ad \in Addresses, NEW a \in Authorities,
                        NEW period \in UnbondingArgs,
                        IsShortestUnbonding(period),
                        partials[ad][a] # NoAccount,
                        slot < partials[ad][a].submitted_slot + period
                 PROVE  operators[a] # NoAccount
        BY DEF SignaturesAreBacked, Members
    <2>1. BackedAt(ad, a, period)
        BY DEF CollateralInv
    <2>2. partials[ad][a] \in PartialSignature
        BY DEF TypeOK
    <2>3. /\ slot \in Nat /\ period \in Nat
          /\ partials[ad][a].submitted_slot \in Nat
        BY <2>2, ArgumentAssumption DEF TypeOK, PartialSignature
    <2>4. QED
        BY <2>1, <2>3 DEF BackedAt
<1>4. QED
    BY <1>1, <1>2, <1>3, TypeCorrect, PTL DEF Spec

-----------------------------------------------------------------------------
(* Weights.                                                                *)

\* An operator's weight is its bond: compute_stake_weight weighs one to one.
WeightIsBond ==
    \A a \in Members : operators[a].stake_weight = operators[a].bonded_amount

LEMMA NextWeightIsBond ==
    ASSUME TypeOK, WeightIsBond, [Next]_vars
    PROVE  WeightIsBond'
<1>1. CASE UNCHANGED operators
    BY <1>1 DEF WeightIsBond, Members
<1>2. ASSUME NEW b \in Authorities, MembershipStep(b),
             NEW a \in Authorities, operators'[a] # NoAccount
      PROVE  operators'[a].stake_weight = operators'[a].bonded_amount
    <2>1. CASE a # b
        <3>1. operators'[a] = operators[a]
            BY <1>2, <2>1 DEF MembershipStep, Registers, Slashes,
               RegisterOperator, BeginUnbonding, WithdrawBond, SlashOperator,
               TypeOK
        <3>2. QED
            BY <1>2, <3>1 DEF WeightIsBond, Members
    <2>2. CASE Registers(a)
        BY <2>2 DEF Registers, RegisterOperator, ComputeStakeWeight, TypeOK
    <2>3. CASE BeginUnbonding(a)
        <3>1. operators[a] \in OperatorAccount /\ a \in Members
            BY <2>3, AccountTypes DEF BeginUnbonding, Members
        <3>2. /\ operators'[a].stake_weight = operators[a].stake_weight
              /\ operators'[a].bonded_amount = operators[a].bonded_amount
            BY <2>3, <3>1 DEF BeginUnbonding, TypeOK, OperatorAccount
        <3>3. QED
            BY <3>1, <3>2 DEF WeightIsBond
    <2>4. ~WithdrawBond(a)
        BY <1>2, WithdrawEffect
    <2>5. CASE Slashes(a)
        <3>1. PICK k \in Keys, amount \in SlashArgs : SlashOperator(k, a, amount)
            BY <2>5 DEF Slashes
        <3>2. /\ operators'[a] = Slashed(operators[a], amount)
              /\ operators[a] \in OperatorAccount
              /\ amount \in Nat /\ amount <= operators[a].bonded_amount
              /\ Initialized
            BY <3>1, SlashEffect
        <3>3. protocol \in ProtocolAccount
            BY <3>2, AccountTypes
        <3>4. QED
            BY <3>2, <3>3, SlashedType
    <2>6. QED
        BY <1>2, <2>1, <2>2, <2>3, <2>4, <2>5 DEF MembershipStep
<1>3. QED
    BY <1>1, <1>2, BondSteps DEF WeightIsBond, Members

LEMMA WeightIsBondCorrect == Spec => []WeightIsBond
<1>1. Init => WeightIsBond
    BY DEF Init, WeightIsBond, Members
<1>2. TypeOK /\ WeightIsBond /\ [Next]_vars => WeightIsBond'
    BY NextWeightIsBond
<1>3. QED
    BY <1>1, <1>2, TypeCorrect, PTL DEF Spec

-----------------------------------------------------------------------------
(* What a withdrawal asks for.                                             *)

\* Operators register with a protocol, and a protocol is never closed.
MembersHaveProtocol == Members # {} => Initialized

LEMMA NextMembersHaveProtocol ==
    ASSUME TypeOK, MembersHaveProtocol, [Next]_vars
    PROVE  MembersHaveProtocol'
<1>1. Initialized => Initialized'
    BY NonceKept
<1>2. CASE UNCHANGED operators
    BY <1>1, <1>2 DEF MembersHaveProtocol, Members
<1>3. ASSUME NEW a \in Authorities, MembershipStep(a)
      PROVE  Initialized
    BY <1>3 DEF MembershipStep, Registers, Slashes, RegisterOperator, Running,
       BeginUnbonding, WithdrawBond, CanWithdraw, Withdrawable, SlashOperator, SignedByAdmin
<1>4. QED
    BY <1>1, <1>2, <1>3, BondSteps DEF MembersHaveProtocol

LEMMA MembersHaveProtocolCorrect == Spec => []MembersHaveProtocol
<1>1. Init => MembersHaveProtocol
    BY DEF Init, MembersHaveProtocol, Members
<1>2. TypeOK /\ MembersHaveProtocol /\ [Next]_vars => MembersHaveProtocol'
    BY NextMembersHaveProtocol
<1>3. QED
    BY <1>1, <1>2, TypeCorrect, PTL DEF Spec

(* Whoever's unbonding period is over passes every check of withdraw_bond,  *)
(* and the vault holds at least its bond, through dead feeds, slashes and   *)
(* other withdrawals: beyond these conditions WithdrawBond only assigns.    *)
THEOREM DueBondsAreCovered == Spec => []BondIsReturnable
<1> DEFINE f == [b \in Authorities |-> BondOf(b)]
<1>1. TypeOK /\ VaultBacksBonds /\ MembersHaveProtocol => BondIsReturnable
    <2> SUFFICES ASSUME TypeOK, VaultBacksBonds, MembersHaveProtocol,
                        NEW a \in Members, WithdrawalDue(operators[a])
                 PROVE  CanWithdraw(a)
        BY DEF BondIsReturnable
    <2>1. a \in Authorities /\ operators[a] # NoAccount
        BY DEF Members
    <2>2. f \in [Authorities -> Nat] /\ f[a] = operators[a].bonded_amount
        BY <2>1, WeightTypes DEF BondOf
    <2>3. bond_vault = Total(f)
        BY DEF VaultBacksBonds, BondedTotal
    <2>4. Withdrawable(a)
        BY <2>1 DEF Withdrawable, MembersHaveProtocol
    <2>5. f[a] <= Total(f)
        <3> HIDE DEF f
        <3>1. QED
            BY <2>1, <2>2, AuthoritiesAssumption, TotalAtLeastPart
    <2>6. QED
        BY <2>2, <2>3, <2>4, <2>5 DEF CanWithdraw
<1>2. QED
    BY <1>1, TypeCorrect, VaultIsBacked, MembersHaveProtocolCorrect, PTL

-----------------------------------------------------------------------------
(* No LST is made or lost.                                                 *)

\* What operators brought is in their wallets, in the vault or in the slash
\* pool, and nobody has more than it brought, its bond included.
LstIsConserved ==
    /\ Total(wallet) + bond_vault + slash_pool = Total([a \in Authorities |-> InitialLst])
    /\ \A a \in Authorities : wallet[a] + BondOf(a) <= InitialLst

LEMMA TokensMove ==
    ASSUME TypeOK, NEW a \in Authorities, MembershipStep(a)
    PROVE  /\ \A b \in Authorities \ {a} : operators'[b] = operators[b] /\ wallet'[b] = wallet[b]
           /\ wallet'[a] + bond_vault' + slash_pool' = wallet[a] + bond_vault + slash_pool
           /\ wallet'[a] + BondOf(a)' <= wallet[a] + BondOf(a)
<1>1. /\ wallet \in [Authorities -> Nat] /\ wallet[a] \in Nat
      /\ bond_vault \in Nat /\ slash_pool \in Nat /\ BondOf(a) \in Nat
    BY AccountTypes DEF TypeOK, BondOf, Members, OperatorAccount
<1>2. CASE Registers(a)
    <2>1. PICK bond_amount \in BondArgs : RegisterOperator(a, bond_amount)
        BY <1>2 DEF Registers
    <2>2. /\ bond_amount \in Nat
          /\ bond_vault' = bond_vault + bond_amount
          /\ BondOf(a) = 0 /\ BondOf(a)' = bond_amount
          /\ \A b \in Authorities \ {a} : operators'[b] = operators[b]
        BY <2>1, RegisterEffect
    <2>3. /\ wallet' = [wallet EXCEPT ![a] = @ - bond_amount]
          /\ slash_pool' = slash_pool
        BY <2>1 DEF RegisterOperator
    <2>4. /\ wallet'[a] = wallet[a] - bond_amount
          /\ \A b \in Authorities \ {a} : wallet'[b] = wallet[b]
        BY <1>1, <2>3
    <2>5. QED
        BY <1>1, <2>2, <2>3, <2>4
<1>3. CASE BeginUnbonding(a)
    <2>1. /\ bond_vault' = bond_vault /\ BondOf(a)' = BondOf(a)
          /\ \A b \in Authorities \ {a} : operators'[b] = operators[b]
        BY <1>3, UnbondEffect
    <2>2. UNCHANGED <<wallet, slash_pool>>
        BY <1>3 DEF BeginUnbonding, tokens
    <2>3. QED
        BY <1>1, <2>1, <2>2
<1>4. CASE WithdrawBond(a)
    <2>1. /\ operators[a].bonded_amount \in Nat
          /\ bond_vault' = bond_vault - operators[a].bonded_amount
          /\ BondOf(a) = operators[a].bonded_amount /\ BondOf(a)' = 0
          /\ \A b \in Authorities \ {a} : operators'[b] = operators[b]
        BY <1>4, WithdrawEffect
    <2>2. /\ wallet' = [wallet EXCEPT ![a] = @ + operators[a].bonded_amount]
          /\ slash_pool' = slash_pool
        BY <1>4 DEF WithdrawBond
    <2>3. /\ wallet'[a] = wallet[a] + operators[a].bonded_amount
          /\ \A b \in Authorities \ {a} : wallet'[b] = wallet[b]
        BY <1>1, <2>2
    <2>4. QED
        BY <1>1, <2>1, <2>2, <2>3
<1>5. CASE Slashes(a)
    <2>1. PICK k \in Keys, amount \in SlashArgs : SlashOperator(k, a, amount)
        BY <1>5 DEF Slashes
    <2>2. /\ amount \in Nat
          /\ bond_vault' = bond_vault - amount
          /\ BondOf(a) = operators[a].bonded_amount
          /\ BondOf(a)' = operators[a].bonded_amount - amount
          /\ \A b \in Authorities \ {a} : operators'[b] = operators[b]
        BY <2>1, SlashEffect
    <2>3. slash_pool' = slash_pool + amount /\ UNCHANGED wallet
        BY <2>1 DEF SlashOperator
    <2>4. QED
        BY <1>1, <2>2, <2>3
<1>6. QED
    BY <1>2, <1>3, <1>4, <1>5 DEF MembershipStep

LEMMA NextConserved ==
    ASSUME TypeOK, TypeOK', LstIsConserved, [Next]_vars
    PROVE  LstIsConserved'
<1>1. CASE UNCHANGED <<operators, bond_vault, slash_pool, wallet>>
    BY <1>1 DEF LstIsConserved, BondOf, Members
<1>2. ASSUME NEW a \in Authorities, MembershipStep(a)
      PROVE  LstIsConserved'
    <2>1. /\ \A b \in Authorities \ {a} : operators'[b] = operators[b] /\ wallet'[b] = wallet[b]
          /\ wallet'[a] + bond_vault' + slash_pool' = wallet[a] + bond_vault + slash_pool
          /\ wallet'[a] + BondOf(a)' <= wallet[a] + BondOf(a)
        BY <1>2, TokensMove
    <2>2. /\ wallet \in [Authorities -> Nat] /\ wallet' \in [Authorities -> Nat]
          /\ bond_vault \in Nat /\ bond_vault' \in Nat
          /\ slash_pool \in Nat /\ slash_pool' \in Nat
          /\ wallet[a] \in Nat /\ wallet'[a] \in Nat
        BY DEF TypeOK
    <2>3. BondOf(a) \in Nat /\ BondOf(a)' \in Nat
        <3>1. BondOf(a) \in Nat
            BY AccountTypes DEF BondOf, Members, OperatorAccount
        <3>2. BondOf(a)' \in Nat
            BY DEF TypeOK, BondOf, Members, OperatorAccount
        <3>3. QED
            BY <3>1, <3>2
    <2>4. Total(wallet') = Total(wallet) + wallet'[a] - wallet[a]
        BY <2>1, <2>2, TotalChange, AuthoritiesAssumption
    <2>5. Total(wallet) \in Nat
        BY <2>2, TotalType, AuthoritiesAssumption
    <2>6. Total(wallet') + bond_vault' + slash_pool' = Total(wallet) + bond_vault + slash_pool
        BY <2>1, <2>2, <2>4, <2>5
    <2>7. ASSUME NEW b \in Authorities
          PROVE  wallet'[b] + BondOf(b)' <= InitialLst
        <3>1. wallet[b] + BondOf(b) <= InitialLst
            BY DEF LstIsConserved
        <3>2. CASE b = a
            BY <2>1, <2>2, <2>3, <3>1, <3>2, ArgumentAssumption
        <3>3. CASE b # a
            <4>1. wallet'[b] = wallet[b] /\ operators'[b] = operators[b]
                BY <2>1, <3>3
            <4>2. BondOf(b)' = BondOf(b)
                BY <4>1 DEF BondOf, Members
            <4>3. QED
                BY <3>1, <4>1, <4>2
        <3>4. QED
            BY <3>2, <3>3
    <2>8. Total(wallet)' = Total(wallet')
        BY DEF Total, Units, UnitsOf
    <2>9. QED
        BY <2>6, <2>7, <2>8 DEF LstIsConserved
<1>3. QED
    BY <1>1, <1>2, BondSteps

(* Whatever the order of registrations, slashes, exits and returns, no LST  *)
(* is made or lost, and nobody comes out with more than it brought, as it   *)
(* would if its bond paid for another's (register_operator, slash_operator, *)
(* withdraw_bond).                                                          *)
THEOREM CollateralIsConserved == Spec => []LstIsConserved
<1>1. Init => LstIsConserved
    <2> SUFFICES ASSUME Init PROVE LstIsConserved
        OBVIOUS
    <2> DEFINE f == [a \in Authorities |-> InitialLst]
    <2>1. wallet = f /\ bond_vault = 0 /\ slash_pool = 0
        BY DEF Init
    <2>2. \A a \in Authorities : BondOf(a) = 0 /\ wallet[a] = InitialLst
        BY DEF Init, BondOf, Members
    <2>3. f \in [Authorities -> Nat] /\ InitialLst \in Nat
        BY ArgumentAssumption
    <2> HIDE DEF f
    <2>4. Total(f) \in Nat
        BY <2>3, TotalType, AuthoritiesAssumption
    <2>5. Total(wallet) + bond_vault + slash_pool = Total(f)
        BY <2>1, <2>4
    <2>6. QED
        BY <2>2, <2>3, <2>5 DEF LstIsConserved, f
<1>2. TypeOK /\ TypeOK' /\ LstIsConserved /\ [Next]_vars => LstIsConserved'
    BY NextConserved
<1>3. QED
    BY <1>1, <1>2, TypeCorrect, PTL DEF Spec

-----------------------------------------------------------------------------
(* The totals are exact as long as nobody leaves the set twice.            *)

\* No step takes an operator out that a slash has taken out before.
LeavesOnce == \A a \in Authorities : BeginUnbonding(a) => ~operators[a].jailed

\* The arithmetic of a slash that costs an active operator w - w2.
LEMMA ShrinkExact ==
    ASSUME NEW t \in Nat, NEW w \in Nat, NEW w2 \in Nat, w <= t, w2 <= w
    PROVE  LET shrunk == SaturatingSub(t, SaturatingSub(w, w2))
           IN  shrunk = t + w2 - w /\ SaturatingSub(shrunk, w2) = t - w
BY DEF SaturatingSub

LEMMA ExactSlash ==
    ASSUME TypeOK, TypeOK', WeightIsBond, TotalsMatchActiveSet, NEW k \in Keys,
           NEW a \in Authorities, NEW amount \in SlashArgs,
           SlashOperator(k, a, amount)
    PROVE  TotalsMatchActiveSet'
<1> DEFINE op == operators[a]
           op2 == Slashed(op, amount)
           total == protocol.total_bonded
           count == protocol.operator_count
           w == op.stake_weight
           w2 == op2.stake_weight
           shrunk == SaturatingSub(total, SaturatingSub(w, w2))
<1>1. /\ op \in OperatorAccount /\ op2 \in OperatorAccount /\ op # NoAccount
      /\ operators'[a] = op2
      /\ \A b \in Authorities \ {a} : operators'[b] = operators[b]
      /\ Initialized
      /\ amount \in Nat /\ amount <= op.bonded_amount
      /\ protocol'.total_bonded = TotalsAfterSlash(op, op2).total
      /\ protocol'.operator_count = TotalsAfterSlash(op, op2).count
      /\ (a \in ActiveOperators) <=> IsActive(op)
      /\ (a \in ActiveOperators') <=> IsActive(op2)
      /\ IsActive(op2) => IsActive(op)
    BY SlashEffect
<1>2. /\ op2.unbonding_at = op.unbonding_at
      /\ w2 = op.bonded_amount - amount /\ w = op.bonded_amount
    BY <1>1, AccountTypes, SlashedType DEF WeightIsBond, Members
<1> HIDE DEF op2
<1>3. /\ total \in Nat /\ count \in Nat /\ w \in Nat /\ w2 \in Nat /\ w2 <= w
    BY <1>1, <1>2, AccountTypes, WidthAssumption DEF ProtocolAccount, OperatorAccount
<1>4. /\ total = ActiveWeight /\ count = Cardinality(ActiveOperators)
      /\ ActiveWeight \in Nat /\ Cardinality(ActiveOperators) \in Nat
    BY <1>1, WeightTypes DEF TotalsMatchActiveSet
<1>5. ActiveWeight' = ActiveWeight + ActiveWeightOf(a)' - ActiveWeightOf(a)
    BY <1>1, OneOperatorChanges
<1>6. CASE ~IsActive(op)
    <2>1. ActiveWeightOf(a)' = 0 /\ ActiveWeightOf(a) = 0
        BY <1>1, <1>6 DEF ActiveWeightOf
    <2>2. ActiveOperators' = ActiveOperators
        BY <1>1, <1>6, OneActiveChanges
    <2>3. protocol'.total_bonded = total /\ protocol'.operator_count = count
        BY <1>1, <1>6 DEF TotalsAfterSlash
    <2>4. QED
        BY <1>4, <1>5, <2>1, <2>2, <2>3 DEF TotalsMatchActiveSet
<1>7. CASE IsActive(op)
    <2>1. a \in ActiveOperators
        BY <1>1, <1>7
    <2>2. /\ ActiveWeightOf(a) = w /\ w <= total
          /\ 1 <= Cardinality(ActiveOperators)
        BY <1>4, <2>1, ActiveShare
    <2>3. shrunk = total + w2 - w /\ SaturatingSub(shrunk, w2) = total - w
        BY <1>3, <2>2, ShrinkExact
    <2> HIDE DEF shrunk
    <2>4. CASE op2.jailed
        <3>1. a \notin ActiveOperators' /\ ActiveWeightOf(a)' = 0
            BY <1>1, <2>4 DEF IsActive, ActiveWeightOf
        <3>2. Cardinality(ActiveOperators') = Cardinality(ActiveOperators) - 1
            BY <1>1, <2>1, <3>1, OneActiveChanges
        <3>3. /\ protocol'.total_bonded = SaturatingSub(shrunk, w2)
              /\ protocol'.operator_count = SaturatingSub(count, 1)
            BY <1>1, <1>7, <2>4 DEF TotalsAfterSlash, shrunk
        <3>4. SaturatingSub(count, 1) = count - 1
            BY <1>3, <1>4, <2>2 DEF SaturatingSub
        <3>5. ActiveWeight' = ActiveWeight - w
            BY <1>3, <1>4, <1>5, <2>2, <3>1
        <3>6. QED
            BY <1>4, <2>3, <3>2, <3>3, <3>4, <3>5 DEF TotalsMatchActiveSet
    <2>5. CASE ~op2.jailed
        <3>1. a \in ActiveOperators'
            BY <1>1, <1>2, <1>7, <2>5 DEF IsActive
        <3>2. ActiveWeightOf(a)' = w2
            BY <1>1, <3>1 DEF ActiveWeightOf
        <3>3. ActiveOperators' = ActiveOperators
            BY <1>1, <2>1, <3>1, OneActiveChanges
        <3>4. protocol'.total_bonded = shrunk /\ protocol'.operator_count = count
            BY <1>1, <1>7, <2>5 DEF TotalsAfterSlash, shrunk
        <3>5. ActiveWeight' = ActiveWeight + w2 - w
            BY <1>5, <2>2, <3>2
        <3>6. QED
            BY <1>4, <2>3, <3>3, <3>4, <3>5 DEF TotalsMatchActiveSet
    <2>6. QED
        BY <2>4, <2>5
<1>8. QED
    BY <1>6, <1>7

LEMMA ExactRegister ==
    ASSUME TypeOK, TypeOK', TotalsMatchActiveSet, NEW a \in Authorities,
           NEW bond_amount \in BondArgs, RegisterOperator(a, bond_amount)
    PROVE  TotalsMatchActiveSet'
<1>1. /\ bond_amount \in Nat
      /\ a \notin ActiveOperators /\ a \in ActiveOperators'
      /\ ActiveWeightOf(a) = 0 /\ ActiveWeightOf(a)' = bond_amount
      /\ Initialized
      /\ protocol'.total_bonded = protocol.total_bonded + bond_amount
      /\ protocol'.operator_count = protocol.operator_count + 1
      /\ \A b \in Authorities \ {a} : operators'[b] = operators[b]
    BY RegisterEffect
<1>2. ActiveWeight' = ActiveWeight + ActiveWeightOf(a)' - ActiveWeightOf(a)
    BY <1>1, OneOperatorChanges
<1>3. Cardinality(ActiveOperators') = Cardinality(ActiveOperators) + 1
    BY <1>1, OneActiveChanges
<1>4. ActiveWeight \in Nat
    BY WeightTypes
<1>5. QED
    BY <1>1, <1>2, <1>3, <1>4 DEF TotalsMatchActiveSet

\* An operator that is not jailed is active, so it leaves from within the set.
LEMMA ExactUnbond ==
    ASSUME TypeOK, TypeOK', TotalsMatchActiveSet, NEW a \in Authorities,
           BeginUnbonding(a), ~operators[a].jailed
    PROVE  TotalsMatchActiveSet'
<1> DEFINE w == operators[a].stake_weight
           total == protocol.total_bonded
           count == protocol.operator_count
<1>1. /\ a \notin ActiveOperators' /\ ActiveWeightOf(a)' = 0
      /\ Initialized
      /\ protocol'.total_bonded = SaturatingSub(total, w)
      /\ protocol'.operator_count = SaturatingSub(count, 1)
      /\ \A b \in Authorities \ {a} : operators'[b] = operators[b]
    BY UnbondEffect
<1>2. a \in ActiveOperators
    BY DEF BeginUnbonding, ActiveOperators, Members, IsActive
<1>3. /\ ActiveWeightOf(a) = w /\ w \in Nat /\ w <= ActiveWeight
      /\ 1 <= Cardinality(ActiveOperators)
    BY <1>2, ActiveShare
<1>4. ActiveWeight' = ActiveWeight + ActiveWeightOf(a)' - ActiveWeightOf(a)
    BY <1>1, OneOperatorChanges
<1>5. Cardinality(ActiveOperators') = Cardinality(ActiveOperators) - 1
    BY <1>1, <1>2, OneActiveChanges
<1>6. /\ ActiveWeight \in Nat /\ Cardinality(ActiveOperators) \in Nat
      /\ total = ActiveWeight /\ count = Cardinality(ActiveOperators)
    BY <1>1, WeightTypes DEF TotalsMatchActiveSet
<1>7. SaturatingSub(total, w) = total - w /\ SaturatingSub(count, 1) = count - 1
    BY <1>3, <1>6 DEF SaturatingSub
<1>8. QED
    BY <1>1, <1>3, <1>4, <1>5, <1>6, <1>7 DEF TotalsMatchActiveSet

LEMMA ExactWithdraw ==
    ASSUME TypeOK, TypeOK', TotalsMatchActiveSet, NEW a \in Authorities, WithdrawBond(a)
    PROVE  TotalsMatchActiveSet'
<1>1. /\ a \notin ActiveOperators /\ a \notin ActiveOperators'
      /\ ActiveWeightOf(a) = 0 /\ ActiveWeightOf(a)' = 0
      /\ Initialized /\ protocol' = protocol
      /\ \A b \in Authorities \ {a} : operators'[b] = operators[b]
    BY WithdrawEffect
<1>2. ActiveWeight' = ActiveWeight
    BY <1>1, OneOperatorChanges, WeightTypes
<1>3. ActiveOperators' = ActiveOperators
    BY <1>1, OneActiveChanges
<1>4. QED
    BY <1>1, <1>2, <1>3 DEF TotalsMatchActiveSet

\* Without members the active set is empty and weighs nothing.
LEMMA NobodyWeighsNothing ==
    ASSUME Members = {}
    PROVE  ActiveOperators = {} /\ ActiveWeight = 0
<1> DEFINE f == [a \in Authorities |-> ActiveWeightOf(a)]
<1>1. ActiveOperators = {}
    BY DEF ActiveOperators
<1>2. (\A a \in Authorities : f[a] = 0) /\ DOMAIN f = Authorities
    BY <1>1 DEF ActiveWeightOf
<1> HIDE DEF f
<1>3. Total(f) = 0
    BY <1>2, TotalZero
<1>4. QED
    BY <1>1, <1>3 DEF f, ActiveWeight

LEMMA NextExact ==
    ASSUME TypeOK, TypeOK', WeightIsBond, MembersHaveProtocol, TotalsMatchActiveSet,
           [Next]_vars, LeavesOnce
    PROVE  TotalsMatchActiveSet'
<1>1. ASSUME UNCHANGED operators, Initialized' => TotalsKept \/ TotalsZeroed
      PROVE  TotalsMatchActiveSet'
    <2>1. /\ ActiveWeight' = ActiveWeight
          /\ ActiveOperators' = ActiveOperators
        BY <1>1 DEF ActiveWeight, ActiveWeightOf, ActiveOperators, Members
    <2>2. CASE TotalsKept
        BY <2>1, <2>2 DEF TotalsKept, TotalsMatchActiveSet
    <2>3. CASE TotalsZeroed
        <3>1. ActiveOperators = {} /\ ActiveWeight = 0
            BY <2>3, NobodyWeighsNothing DEF TotalsZeroed, MembersHaveProtocol
        <3>2. QED
            BY <2>1, <2>3, <3>1, FS_EmptySet DEF TotalsZeroed, TotalsMatchActiveSet
    <2>4. CASE ~Initialized'
        BY <2>4 DEF TotalsMatchActiveSet
    <2>5. QED
        BY <1>1, <2>2, <2>3, <2>4
<1>2. ASSUME NEW a \in Authorities, MembershipStep(a)
      PROVE  TotalsMatchActiveSet'
    BY <1>2, ExactRegister, ExactUnbond, ExactWithdraw, ExactSlash
       DEF MembershipStep, Registers, Slashes, LeavesOnce
<1>3. QED
    BY <1>1, <1>2, BondSteps

(* The totals differ from the active set only through operators that begin  *)
(* to unbond after a slash has jailed them: where that never happens, they  *)
(* are exact, as state.rs 82-85 says (begin_unbonding, slash_operator).     *)
THEOREM TotalsAreExact ==
    Spec /\ [][LeavesOnce]_vars => []TotalsMatchActiveSet
<1>1. Init => TotalsMatchActiveSet
    BY DEF Init, TotalsMatchActiveSet, Initialized
<1>2. TypeOK /\ TypeOK' /\ WeightIsBond /\ MembersHaveProtocol /\ TotalsMatchActiveSet
         /\ [Next]_vars /\ [LeavesOnce]_vars => TotalsMatchActiveSet'
    <2>1. UNCHANGED vars /\ TotalsMatchActiveSet => TotalsMatchActiveSet'
        BY DEF vars, TotalsMatchActiveSet, Initialized, ActiveWeight, ActiveWeightOf,
           ActiveOperators, Members
    <2>2. QED
        BY <2>1, NextExact
<1>3. QED
    BY <1>1, <1>2, TypeCorrect, WeightIsBondCorrect,
       MembersHaveProtocolCorrect, PTL DEF Spec
=============================================================================
