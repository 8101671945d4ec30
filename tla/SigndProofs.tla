---------------------------- MODULE SigndProofs ----------------------------
(***************************************************************************)
(* Proofs about the signer daemon, for any number of operators, requests,  *)
(* passes and faults, among clients and relayers that may do anything the  *)
(* program lets them: it is a client of the on-chain program, so that all  *)
(* that is proved of the program holds beside it, and what it signs was    *)
(* asked for.                                                              *)
(***************************************************************************)
EXTENDS SigndProperties, DistinProofs

-----------------------------------------------------------------------------
(* Types.                                                                  *)

LEMMA SigndInitTypeOK == SigndInit => SigndTypeOK
<1> SUFFICES ASSUME SigndInit PROVE SigndTypeOK
    OBVIOUS
<1>1. accts \in [{} -> ReqView]
    BY DEF SigndInit, NoViews
<1>2. \E S \in SUBSET Addresses : accts \in [S -> ReqView]
    BY <1>1
<1>3. 0 \in 0..MaxFaults
    BY MaxFaultsAssumption
<1>4. asked \in [Addresses -> SUBSET Messages]
    BY DEF SigndInit
<1>5. QED
    BY <1>2, <1>3, <1>4 DEF SigndInit, SigndTypeOK

LEMMA QuorumType ==
    ASSUME NEW scheme \in DOMAIN SigningSets
    PROVE  /\ Quorum(scheme) \in Seq(Authorities)
           /\ Len(Quorum(scheme)) \in Nat \ {0}
           /\ DOMAIN Quorum(scheme) = 1..Len(Quorum(scheme))
           /\ \A i \in DOMAIN Quorum(scheme) : Quorum(scheme)[i] \in Authorities
<1>1. Quorum(scheme) \in Seq(Authorities) \ {<<>>}
    BY SigningSetsAssumption DEF Quorum
<1> HIDE DEF Quorum
<1>2. QED
    BY <1>1

LEMMA FaultType ==
    ASSUME SigndTypeOK, Fault \/ faults' = faults
    PROVE  faults' \in 0..MaxFaults
BY MaxFaultsAssumption DEF SigndTypeOK, Fault

\* What TypeOK says of the request being fulfilled.
LEMMA JobType ==
    ASSUME SigndTypeOK, job # NoJob
    PROVE  /\ job \in Job
           /\ job.ad \in Addresses
           /\ job.view \in ReqView
           /\ job.view.message_hash \in Messages
           /\ job.view.scheme \in DOMAIN SigningSets
           /\ job.member \in 1..Len(Quorum(job.view.scheme))
           /\ Signer \in Authorities
<1>1. /\ job \in Job
      /\ job.view.scheme \in DOMAIN SigningSets
      /\ job.member \in DOMAIN Quorum(job.view.scheme)
    BY DEF SigndTypeOK
<1>2. QED
    BY <1>1, QuorumType DEF Job, ReqView, Signer

LEMMA NextMemberType ==
    ASSUME SigndTypeOK, job # NoJob
    PROVE  /\ NextMember \in Job
           /\ NextMember.ad = job.ad
           /\ NextMember.view = job.view
           /\ NextMember.member \in 1..Len(Quorum(job.view.scheme))
           /\ \/ /\ NextMember.member = job.member + 1
                 /\ NextMember.at = "check"
              \/ /\ NextMember.member = job.member
                 /\ job.member = Len(Quorum(job.view.scheme))
                 /\ NextMember.at = "aggregate"
<1>1. /\ job \in Job
      /\ job.member \in 1..Len(Quorum(job.view.scheme))
      /\ Len(Quorum(job.view.scheme)) \in Nat
    BY JobType, QuorumType
<1> DEFINE n == Len(Quorum(job.view.scheme))
<1> HIDE DEF n
<1>2. CASE job.member < n
    <2>1. NextMember = [job EXCEPT !.member = @ + 1, !.at = "check"]
        BY <1>2 DEF NextMember, n
    <2>2. job.member + 1 \in Nat \ {0} /\ job.member + 1 \in 1..n
        BY <1>1, <1>2 DEF n
    <2>3. QED
        BY <1>1, <2>1, <2>2 DEF Job, n
<1>3. CASE ~(job.member < n)
    <2>1. NextMember = [job EXCEPT !.at = "aggregate"]
        BY <1>3 DEF NextMember, n
    <2>2. job.member = n
        BY <1>1, <1>3 DEF n
    <2>3. QED
        BY <1>1, <2>1, <2>2 DEF Job, n
<1>4. QED
    BY <1>2, <1>3

LEMMA SubmitTxType ==
    ASSUME SigndTypeOK, job # NoJob
    PROVE  /\ SubmitTx \in Transaction
           /\ SubmitTx.kind = "submit"
           /\ SubmitTx.ad = job.ad
           /\ SubmitTx.signer = Signer
<1>1. job.ad \in Addresses /\ Signer \in Authorities
    BY JobType
<1> HIDE DEF Signer
<1>2. QED
    BY <1>1 DEF SubmitTx, Transaction

LEMMA AggregateTxType ==
    ASSUME SigndTypeOK, job # NoJob
    PROVE  /\ AggregateTx \in Transaction
           /\ AggregateTx.kind = "aggregate"
           /\ AggregateTx.ad = job.ad
           /\ AggregateTx.sig = job.view.message_hash
<1>1. job.ad \in Addresses /\ job.view.message_hash \in Messages
    BY JobType
<1>2. QED
    BY <1>1 DEF AggregateTx, Transaction

LEMMA ViewType ==
    ASSUME TypeOK
    PROVE  /\ Views \in [DOMAIN Views -> ReqView]
           /\ DOMAIN Views \subseteq Addresses
           /\ \A ad \in DOMAIN Views :
                 /\ requests[ad] # NoAccount
                 /\ Views[ad].message_hash = requests[ad].message_hash
                 /\ Views[ad].scheme = requests[ad].scheme
<1>1. ASSUME NEW ad \in DOMAIN Views
      PROVE  /\ ad \in Addresses
             /\ requests[ad] # NoAccount
             /\ Views[ad] = ViewOf(requests[ad])
             /\ requests[ad] \in SigningRequest
    BY DEF Views, TypeOK
<1>2. ASSUME NEW req \in SigningRequest
      PROVE  /\ ViewOf(req) \in ReqView
             /\ ViewOf(req).message_hash = req.message_hash
             /\ ViewOf(req).scheme = req.scheme
    BY DEF ViewOf, ReqView, SigningRequest
<1>3. Views = [ad \in DOMAIN Views |-> Views[ad]]
    BY DEF Views
<1> HIDE DEF Views
<1>4. QED
    BY <1>1, <1>2, <1>3

-----------------------------------------------------------------------------
(* The daemon is a client of the program.                                  *)

\* A transaction of the daemon is an instruction of the program.
LEMMA ExecuteRuns ==
    ASSUME NEW tx \in Transaction, Execute(tx)
    PROVE  /\ tx.ad \in Addresses
           /\ \/ /\ tx.kind = "submit"
                 /\ tx.signer \in Authorities
                 /\ Submits(tx.ad, tx.signer)
              \/ /\ tx.kind = "aggregate"
                 /\ tx.sig \in Messages
                 /\ AggregateAndEmit(tx.ad, tx.sig)
           /\ RequestStep
<1>1. CASE tx.kind = "submit"
    <2>1. /\ tx.ad \in Addresses
          /\ tx.signer \in Authorities
          /\ SubmitPartialSignature(tx.ad, tx.signer, Receipt)
        BY <1>1 DEF Execute, Transaction
    <2>2. Submits(tx.ad, tx.signer)
        BY <2>1, ReceiptAssumption DEF Submits
    <2>3. RequestStep
        BY <2>1, ReceiptAssumption DEF RequestStep
    <2>4. QED
        BY <1>1, <2>1, <2>2, <2>3
<1>2. CASE tx.kind = "aggregate"
    <2>1. /\ tx.ad \in Addresses
          /\ tx.sig \in Messages
          /\ AggregateAndEmit(tx.ad, tx.sig)
        BY <1>2 DEF Execute, Transaction
    <2>2. RequestStep
        BY <2>1 DEF RequestStep
    <2>3. QED
        BY <1>2, <2>1, <2>2
<1>3. QED
    BY <1>1, <1>2 DEF Transaction

\* What a send does: to the chain what its transaction does, or nothing.
LEMMA SendRuns ==
    ASSUME SigndTypeOK, SendStep
    PROVE  \E tx \in {SubmitTx, AggregateTx} :
              /\ job # NoJob
              /\ tx \in Transaction
              /\ tx = SubmitTx => job.at = "submit"
              /\ tx = AggregateTx => job.at = "aggregate"
              /\ \/ /\ Execute(tx)
                    /\ job' = IF tx = SubmitTx THEN NextMember ELSE NoJob
                    /\ UNCHANGED late
                 \/ /\ UNCHANGED chain
                    /\ job' = NoJob
                    /\ late' \in {late, late \cup {tx}}
              /\ faults' = faults \/ Fault
              /\ UNCHANGED <<stage, accts, asked>>
<1>1. SubmitTx # AggregateTx \/ job = NoJob
    BY SubmitTxType, AggregateTxType
<1>2. CASE SendSubmit
    <2>1. job # NoJob /\ job.at = "submit" /\ SubmitTx \in Transaction
        BY <1>2, SubmitTxType DEF SendSubmit, At
    <2>2. Send(SubmitTx, NextMember) /\ UNCHANGED asked
        BY <1>2 DEF SendSubmit, SendStep
    <2> HIDE DEF SubmitTx, AggregateTx, NextMember, Execute
    <2>3. QED
        BY <1>1, <2>1, <2>2 DEF Send, Abandon
<1>3. CASE SendAggregate
    <2>1. job # NoJob /\ job.at = "aggregate" /\ AggregateTx \in Transaction
        BY <1>3, AggregateTxType DEF SendAggregate, At
    <2>2. Send(AggregateTx, NoJob) /\ UNCHANGED asked
        BY <1>3 DEF SendAggregate, SendStep
    <2> HIDE DEF SubmitTx, AggregateTx, NextMember, Execute
    <2>3. QED
        BY <1>1, <2>1, <2>2 DEF Send, Abandon
<1>4. QED
    BY <1>2, <1>3 DEF SendStep

\* What everybody else does: any instruction, and nothing to the daemon.
LEMMA ChainStepRuns ==
    ASSUME ChainStep
    PROVE  /\ Next
           /\ UNCHANGED <<stage, accts, job, late, faults>>
BY DEF ChainStep, daemon

LEMMA IsProgramStep ==
    ASSUME SigndTypeOK, [SigndNext]_svars
    PROVE  [Next]_vars
<1>1. CASE UNCHANGED svars
    BY <1>1 DEF svars, vars
<1>2. CASE OffChainStep
    BY <1>2 DEF OffChainStep, chain
<1>3. CASE SendStep
    <2>1. PICK tx \in {SubmitTx, AggregateTx} :
              /\ tx \in Transaction
              /\ Execute(tx) \/ UNCHANGED chain
        BY <1>3, SendRuns
    <2>2. RequestStep \/ UNCHANGED vars
        BY <2>1, ExecuteRuns DEF chain
    <2>3. QED
        BY <2>2 DEF Next
<1>4. CASE Crash /\ UNCHANGED <<chain, asked>>
    BY <1>4 DEF chain
<1>5. CASE LateStep
    <2>1. PICK tx \in late : LandLate(tx) \/ UNCHANGED chain
        BY <1>5 DEF LateStep
    <2>2. tx \in Transaction
        BY DEF SigndTypeOK
    <2>3. CASE LandLate(tx)
        <3>1. Execute(tx)
            BY <2>3 DEF LandLate
        <3>2. RequestStep
            BY <2>2, <3>1, ExecuteRuns
        <3>3. QED
            BY <3>2 DEF Next
    <2>4. QED
        BY <2>1, <2>3 DEF chain
<1>6. CASE ChainStep
    BY <1>6, ChainStepRuns
<1>7. QED
    BY <1>1, <1>2, <1>3, <1>4, <1>5, <1>6 DEF SigndNext, DaemonStep

-----------------------------------------------------------------------------
(* Type correctness.                                                       *)

\* The rest of a pass: accounts are only taken off it.
LEMMA FewerViews ==
    ASSUME SigndTypeOK, NEW S \in SUBSET DOMAIN accts,
           accts' = [ad \in S |-> accts[ad]]
    PROVE  /\ \E D \in SUBSET Addresses : accts' \in [D -> ReqView]
           /\ DOMAIN accts' = S
           /\ \A ad \in S : accts'[ad] = accts[ad]
<1>1. PICK D \in SUBSET Addresses : accts \in [D -> ReqView]
    BY DEF SigndTypeOK
<1>2. accts' \in [S -> ReqView] /\ S \in SUBSET Addresses
    BY <1>1
<1>3. QED
    BY <1>2

LEMMA SelectedViews ==
    ASSUME NEW now
    PROVE  \E S \in SUBSET DOMAIN accts : Selected(now) = [ad \in S |-> accts[ad]]
BY DEF Selected

\* What Poll, ReadSlot and TakeUp leave of the pass.
LEMMA PassType ==
    ASSUME TypeOK, SigndTypeOK, OffChainStep
    PROVE  \E D \in SUBSET Addresses : accts' \in [D -> ReqView]
<1>1. CASE Poll
    <2>1. NoViews \in [{} -> ReqView]
        BY DEF NoViews
    <2>2. Views \in [DOMAIN Views -> ReqView] /\ DOMAIN Views \in SUBSET Addresses
        BY ViewType
    <2>3. accts' = Views \/ accts' = NoViews
        BY <1>1 DEF Poll
    <2> HIDE DEF Views, NoViews
    <2>4. QED
        BY <2>1, <2>2, <2>3
<1>2. CASE ReadSlot
    <2>1. \E S \in SUBSET DOMAIN accts : accts' = [ad \in S |-> accts[ad]]
        BY <1>2, SelectedViews DEF ReadSlot
    <2>2. QED
        BY <2>1, FewerViews
<1>3. ASSUME NEW ad \in DOMAIN accts, TakeUp(ad)
      PROVE  \E D \in SUBSET Addresses : accts' \in [D -> ReqView]
    BY <1>3, FewerViews DEF TakeUp
<1>4. CASE Sign \/ CheckReceipt \/ Restart
    <2>1. accts' = accts
        BY <1>4 DEF Sign, Abandon, CheckReceipt, Restart
    <2>2. QED
        BY <2>1 DEF SigndTypeOK
<1>5. QED
    BY <1>1, <1>2, <1>3, <1>4 DEF OffChainStep

\* The schemes of the requests in a pass are those of the key sets on disk.
SchemesOnDisk ==
    stage # "slot" =>
        \A ad \in DOMAIN accts : accts[ad].scheme \in DOMAIN SigningSets

LEMMA NextSchemesOnDisk ==
    ASSUME SigndTypeOK, SchemesOnDisk, [SigndNext]_svars
    PROVE  SchemesOnDisk'
<1>1. CASE UNCHANGED <<stage, accts>>
    BY <1>1 DEF SchemesOnDisk
<1>2. CASE Poll
    BY <1>2 DEF Poll, SchemesOnDisk
<1>3. CASE ReadSlot
    <2>1. PICK now \in {slot, 0} : accts' = Selected(now)
        BY <1>3 DEF ReadSlot
    <2>2. QED
        BY <2>1 DEF Selected, WorthSigning, SchemesOnDisk
<1>4. ASSUME NEW ad \in DOMAIN accts, TakeUp(ad)
      PROVE  SchemesOnDisk'
    BY <1>4, FewerViews DEF TakeUp, SchemesOnDisk
<1>5. CASE Sign \/ CheckReceipt
    BY <1>1, <1>5 DEF Sign, Abandon, CheckReceipt
<1>6. CASE Restart
    BY <1>6 DEF Restart, SchemesOnDisk
<1>7. CASE SendStep
    BY <1>1, <1>7, SendRuns
<1>8. CASE Crash
    BY <1>8 DEF Crash, AbandonAll, NoViews, SchemesOnDisk
<1>9. CASE LateStep
    BY <1>1, <1>9 DEF LateStep, LandLate, DropLate
<1>10. CASE ChainStep
    BY <1>1, <1>10, ChainStepRuns
<1>11. CASE UNCHANGED svars
    BY <1>1, <1>11 DEF svars
<1>12. QED
    BY <1>2, <1>3, <1>4, <1>5, <1>6, <1>7, <1>8, <1>9, <1>10, <1>11
       DEF SigndNext, DaemonStep, OffChainStep

\* The request being fulfilled, after any step.
LEMMA NextJobType ==
    ASSUME SigndTypeOK, SchemesOnDisk, [SigndNext]_svars
    PROVE  /\ job' \in Job \cup {NoJob}
           /\ job' # NoJob => /\ job'.view.scheme \in DOMAIN SigningSets
                              /\ job'.member \in DOMAIN Quorum(job'.view.scheme)
<1> DEFINE WellFormed(j) ==
              /\ j \in Job \cup {NoJob}
              /\ j # NoJob => /\ j.view.scheme \in DOMAIN SigningSets
                              /\ j.member \in DOMAIN Quorum(j.view.scheme)
<1>1. WellFormed(job) /\ WellFormed(NoJob)
    BY DEF SigndTypeOK
<1>2. job # NoJob => WellFormed(NextMember)
    BY NextMemberType, JobType, QuorumType
<1>3. ASSUME NEW step \in {"sign", "check", "submit", "aggregate"}, job # NoJob
      PROVE  WellFormed([job EXCEPT !.at = step])
    <2>1. /\ job \in Job
          /\ job.view.scheme \in DOMAIN SigningSets
          /\ job.member \in DOMAIN Quorum(job.view.scheme)
        BY <1>3 DEF SigndTypeOK
    <2>2. [job EXCEPT !.at = step] \in Job
        BY <1>3, <2>1 DEF Job
    <2>3. /\ [job EXCEPT !.at = step].view = job.view
          /\ [job EXCEPT !.at = step].member = job.member
        BY <2>1 DEF Job
    <2>4. QED
        BY <2>1, <2>2, <2>3
<1>4. ASSUME NEW ad \in DOMAIN accts, TakeUp(ad)
      PROVE  WellFormed(job')
    <2>1. ad \in Addresses /\ accts[ad] \in ReqView
        BY DEF SigndTypeOK
    <2>2. accts[ad].scheme \in DOMAIN SigningSets
        BY <1>4 DEF TakeUp, SchemesOnDisk
    <2>3. 1 \in DOMAIN Quorum(accts[ad].scheme)
        BY <2>2, QuorumType
    <2>4. /\ job' = [ad |-> ad, view |-> accts[ad], member |-> 1, at |-> "sign"]
          /\ job' \in Job
        BY <1>4, <2>1 DEF TakeUp, Job
    <2>5. QED
        BY <2>2, <2>3, <2>4
<1> SUFFICES WellFormed(job')
    OBVIOUS
<1> HIDE DEF WellFormed
<1>5. CASE Sign
    BY <1>1, <1>3, <1>5 DEF Sign, Abandon, At
<1>6. CASE CheckReceipt
    BY <1>2, <1>3, <1>6 DEF CheckReceipt, At
<1>7. CASE SendStep
    BY <1>1, <1>2, <1>7, SendRuns
<1>8. CASE job' = job \/ job' = NoJob
    BY <1>1, <1>8
<1>9. QED
    <2>1. CASE Poll \/ ReadSlot \/ Restart
        BY <1>8, <2>1 DEF Poll, ReadSlot, Restart
    <2>2. CASE Crash
        BY <1>8, <2>2 DEF Crash, AbandonAll
    <2>3. CASE LateStep
        BY <1>8, <2>3 DEF LateStep, LandLate, DropLate
    <2>4. CASE ChainStep
        BY <1>8, <2>4, ChainStepRuns
    <2>5. CASE UNCHANGED svars
        BY <1>8, <2>5 DEF svars
    <2>6. QED
        BY <1>4, <1>5, <1>6, <1>7, <2>1, <2>2, <2>3, <2>4, <2>5
           DEF SigndNext, DaemonStep, OffChainStep

\* What is in flight, after any step.
LEMMA NextLateType ==
    ASSUME SigndTypeOK, [SigndNext]_svars
    PROVE  late' \subseteq Transaction
<1>1. late \subseteq Transaction
    BY DEF SigndTypeOK
<1>2. CASE SendStep
    BY <1>1, <1>2, SendRuns
<1>3. CASE Crash
    <2>1. InFlight \subseteq Transaction
        BY SubmitTxType, AggregateTxType DEF InFlight, At
    <2>2. late' \in {late, late \cup InFlight}
        BY <1>3 DEF Crash
    <2>3. QED
        BY <1>1, <2>1, <2>2
<1>4. CASE LateStep
    BY <1>1, <1>4 DEF LateStep, LandLate, DropLate
<1>5. CASE OffChainStep
    BY <1>1, <1>5 DEF OffChainStep, Poll, ReadSlot, TakeUp, Sign, CheckReceipt,
       Restart
<1>6. CASE ChainStep
    BY <1>1, <1>6, ChainStepRuns
<1>7. CASE UNCHANGED svars
    BY <1>1, <1>7 DEF svars
<1>8. QED
    BY <1>2, <1>3, <1>4, <1>5, <1>6, <1>7 DEF SigndNext, DaemonStep

LEMMA AskingTypeNext ==
    ASSUME TypeOK', NEW ad \in Addresses
    PROVE  Asking(ad)' \subseteq Messages
<1>1. requests'[ad] # NoAccount => requests'[ad].message_hash \in Messages
    BY DEF TypeOK, SigningRequest
<1>2. QED
    BY <1>1 DEF Asking

\* The history only grows, and only when others act.
LEMMA AskedGrows ==
    ASSUME SigndTypeOK, [SigndNext]_svars
    PROVE  \/ asked' = asked
           \/ /\ ChainStep
              /\ asked' = [ad \in Addresses |-> asked[ad] \cup Asking(ad)']
<1>1. CASE UNCHANGED svars
    BY <1>1 DEF svars
<1>2. CASE SigndNext
    BY <1>2 DEF SigndNext, DaemonStep, OffChainStep, SendStep, LateStep, ChainStep
<1>3. QED
    BY <1>1, <1>2

\* Stage, faults and history, after any step.
LEMMA NextCountersType ==
    ASSUME TypeOK, SigndTypeOK, [SigndNext]_svars
    PROVE  /\ stage' \in {"down", "slot", "pass"}
           /\ faults' \in 0..MaxFaults
           /\ asked' \in [Addresses -> SUBSET Messages]
<1> DEFINE Fine ==
              /\ stage' \in {"down", "slot", "pass"}
              /\ faults' = faults \/ Fault
<1>1. stage \in {"down", "slot", "pass"}
    BY DEF SigndTypeOK
<1>2. Fine
    <2>1. CASE OffChainStep
        BY <1>1, <2>1 DEF OffChainStep, Poll, ReadSlot, TakeUp, Sign, Abandon,
           CheckReceipt, Restart
    <2>2. CASE SendStep
        BY <1>1, <2>2, SendRuns
    <2>3. CASE Crash /\ UNCHANGED <<chain, asked>>
        BY <1>1, <2>3 DEF Crash, AbandonAll
    <2>4. CASE LateStep
        BY <1>1, <2>4 DEF LateStep, LandLate, DropLate
    <2>5. CASE ChainStep
        BY <1>1, <2>5, ChainStepRuns
    <2>6. CASE UNCHANGED svars
        BY <1>1, <2>6 DEF svars
    <2>7. QED
        BY <2>1, <2>2, <2>3, <2>4, <2>5, <2>6 DEF SigndNext, DaemonStep
<1>3. asked' \in [Addresses -> SUBSET Messages]
    <2>1. asked \in [Addresses -> SUBSET Messages]
        BY DEF SigndTypeOK
    <2>2. ASSUME asked' = [ad \in Addresses |-> asked[ad] \cup Asking(ad)']
          PROVE  asked' \in [Addresses -> SUBSET Messages]
        <3>1. TypeOK'
            BY IsProgramStep, NextTypeOK
        <3>2. \A ad \in Addresses : Asking(ad)' \subseteq Messages
            BY <3>1, AskingTypeNext
        <3>3. QED
            BY <2>1, <2>2, <3>2
    <2>3. QED
        BY <2>1, <2>2, AskedGrows
<1>4. QED
    BY <1>2, <1>3, FaultType

LEMMA NextSigndTypeOK ==
    ASSUME TypeOK, SigndTypeOK, SchemesOnDisk, [SigndNext]_svars
    PROVE  SigndTypeOK'
<1>1. \E D \in SUBSET Addresses : accts' \in [D -> ReqView]
    <2>1. CASE accts' = accts
        BY <2>1 DEF SigndTypeOK
    <2>2. CASE OffChainStep
        BY <2>2, PassType
    <2>3. CASE SendStep \/ ChainStep
        BY <2>1, <2>3, SendRuns, ChainStepRuns
    <2>4. CASE Crash
        <3>1. accts' \in [{} -> ReqView]
            BY <2>4 DEF Crash, AbandonAll, NoViews
        <3>2. QED
            BY <3>1
    <2>5. CASE LateStep
        BY <2>1, <2>5 DEF LateStep, LandLate, DropLate
    <2>6. CASE UNCHANGED svars
        BY <2>1, <2>6 DEF svars
    <2>7. QED
        BY <2>2, <2>3, <2>4, <2>5, <2>6 DEF SigndNext, DaemonStep
<1>2. QED
    BY <1>1, NextJobType, NextLateType, NextCountersType DEF SigndTypeOK

LEMMA SigndTypesCorrect == SigndSpec => [](TypeOK /\ SigndTypeOK /\ SchemesOnDisk)
<1> DEFINE Types == TypeOK /\ SigndTypeOK /\ SchemesOnDisk
<1>1. SigndInit => Types
    BY InitTypeOK, SigndInitTypeOK DEF SigndInit, SchemesOnDisk, NoViews
<1>2. Types /\ [SigndNext]_svars => Types'
    BY IsProgramStep, NextTypeOK, NextSigndTypeOK, NextSchemesOnDisk
<1>3. QED
    BY <1>1, <1>2, PTL DEF SigndSpec

(* The daemon's variables, what it read of each account included, always    *)
(* hold values of their types.                                              *)
THEOREM SigndTypeCorrect == SigndSpec => []SigndTypeOK
BY SigndTypesCorrect, PTL

(* A chain on which the daemon works is a chain of DistinProgram: whatever  *)
(* the daemon sends, retries, or leaves in flight when it dies, no step of  *)
(* it is more than an instruction anyone might have sent (fulfill 466-515,  *)
(* send 560-567).  Every theorem about Spec therefore holds beside it.      *)
THEOREM DaemonIsClient == SigndSpec => Spec
<1>1. SigndInit => Init
    BY DEF SigndInit
<1>2. SigndTypeOK /\ [SigndNext]_svars => [Next]_vars
    BY IsProgramStep
<1>3. QED
    BY <1>1, <1>2, SigndTypeCorrect, PTL DEF SigndSpec, Spec

(* So what the daemon serves, beside clients, operators and admin, is the   *)
(* ledger of SigningLedger: its retries, restarts and late transactions add *)
(* nothing to what the program allows (run 407-425, fulfill 466-515).       *)
THEOREM DaemonServesLedger == SigndSpec => ImplementsLedger
BY DaemonIsClient, ProgramImplementsLedger, PTL

-----------------------------------------------------------------------------
(* What a step may do to a request and its receipts.                       *)

\* Nothing ever takes a receipt back.
LEMMA ReceiptsStay ==
    ASSUME TypeOK, [Next]_vars, NEW ad \in Addresses, NEW a \in Authorities,
           partials[ad][a] # NoAccount
    PROVE  partials'[ad][a] # NoAccount
<1>1. CASE UNCHANGED signing
    BY <1>1 DEF signing
<1>2. ASSUME NEW other \in Addresses,
             \/ Creates(other)
             \/ \E b \in Authorities : Submits(other, b)
             \/ Settles(other)
             \/ Closes(other)
      PROVE  partials'[ad][a] # NoAccount
    <2>1. CASE other # ad
        BY <1>2, <2>1, OthersUnchanged
    <2>2. CASE Creates(ad) \/ Settles(ad) \/ Closes(ad)
        BY <2>2 DEF Creates, Settles, Closes, CreateSigningRequest,
           AggregateAndEmit, CloseRequest
    <2>3. ASSUME NEW b \in Authorities, Submits(ad, b)
          PROVE  partials'[ad][a] # NoAccount
        BY <2>3, SubmitEffect
    <2>4. QED
        BY <1>2, <2>1, <2>2, <2>3
<1>3. QED
    BY <1>1, <1>2, SigningSteps

\* What a transaction of the daemon does to the request at ad: it is still
\* about the same message, and signed only if this transaction signs it.
LEMMA ExecuteKeeps ==
    ASSUME TypeOK, NEW tx \in Transaction, Execute(tx), NEW ad \in Addresses
    PROVE  /\ Asking(ad)' = Asking(ad)
           /\ Signed(ad)' /\ ~Signed(ad) =>
                 /\ tx.kind = "aggregate" /\ tx.ad = ad
                 /\ requests'[ad].aggregate_sig = tx.sig
<1>1. ASSUME NEW x \in Addresses, NEW a \in Authorities, Submits(x, a), x # ad
      PROVE  requests'[ad] = requests[ad]
    BY <1>1, OthersUnchanged
<1>2. ASSUME NEW a \in Authorities, Submits(ad, a)
      PROVE  Asking(ad)' = Asking(ad) /\ ~Signed(ad)'
    <2>1. /\ requests[ad] \in SigningRequest /\ requests[ad] # NoAccount
          /\ requests[ad].status = "Pending"
          /\ requests'[ad] # NoAccount
          /\ \A fld \in DOMAIN requests[ad] \
                   {"partials_collected", "stake_weight_collected"} :
                requests'[ad][fld] = requests[ad][fld]
        BY <1>2, SubmitEffect
    <2>2. {"message_hash", "status"} \subseteq
              DOMAIN requests[ad] \ {"partials_collected", "stake_weight_collected"}
        BY <2>1 DEF SigningRequest
    <2>3. /\ requests'[ad].message_hash = requests[ad].message_hash
          /\ requests'[ad].status = "Pending"
        BY <2>1, <2>2
    <2>4. QED
        BY <2>1, <2>3 DEF Asking, Signed
<1>3. CASE tx.kind = "submit"
    <2>1. tx.ad \in Addresses /\ tx.signer \in Authorities /\ Submits(tx.ad, tx.signer)
        BY <1>3, ExecuteRuns
    <2>2. CASE tx.ad # ad
        <3>1. requests'[ad] = requests[ad]
            BY <1>1, <2>1, <2>2
        <3>2. QED
            BY <3>1 DEF Asking, Signed
    <2>3. CASE tx.ad = ad
        BY <1>2, <2>1, <2>3
    <2>4. QED
        BY <2>2, <2>3
<1>4. CASE tx.kind = "aggregate"
    <2>1. tx.ad \in Addresses /\ AggregateAndEmit(tx.ad, tx.sig)
        BY <1>4, ExecuteRuns
    <2>2. CASE tx.ad # ad
        <3>1. requests'[ad] = requests[ad]
            BY <2>1, <2>2 DEF AggregateAndEmit, TypeOK
        <3>2. QED
            BY <3>1 DEF Asking, Signed
    <2>3. CASE tx.ad = ad
        <3>1. requests[ad] \in SigningRequest /\ requests[ad] # NoAccount
            BY <2>1, <2>3, AccountTypes DEF AggregateAndEmit, IsPending
        <3>2. requests'[ad] = [requests[ad] EXCEPT !.aggregate_sig = tx.sig,
                                                   !.status = "Aggregated"]
            BY <2>1, <2>3 DEF AggregateAndEmit, TypeOK
        <3>3. /\ requests'[ad].message_hash = requests[ad].message_hash
              /\ requests'[ad].aggregate_sig = tx.sig
              /\ requests'[ad].status = "Aggregated"
            BY <3>1, <3>2 DEF SigningRequest
        <3>4. requests'[ad] # NoAccount
            <4>1. TypeOK'
                BY <2>1, ExecuteRuns, NextTypeOK DEF Next
            <4>2. tx.sig \in Messages
                BY <1>4, ExecuteRuns
            <4>3. requests'[ad] \in SigningRequest
                BY <3>1, <3>2, <4>2 DEF SigningRequest, RequestStatus
            <4>4. QED
                BY <4>3, SentinelAssumption
        <3>5. QED
            BY <1>4, <2>3, <3>1, <3>3, <3>4 DEF Asking
    <2>4. QED
        BY <2>2, <2>3
<1>5. QED
    BY <1>3, <1>4 DEF Transaction

\* What the daemon, or a transaction of its that lands late, does to the chain.
LEMMA DaemonRuns ==
    ASSUME SigndTypeOK, SigndInv, [SigndNext]_svars
    PROVE  \/ UNCHANGED chain
           \/ ChainStep
           \/ \E tx \in Transaction :
                 /\ Execute(tx)
                 /\ tx.kind = "aggregate" => tx.sig \in asked[tx.ad]
<1>1. CASE SendStep
    <2>1. PICK tx \in {SubmitTx, AggregateTx} :
              /\ job # NoJob
              /\ tx \in Transaction
              /\ Execute(tx) \/ UNCHANGED chain
        BY <1>1, SendRuns
    <2>2. tx.kind = "aggregate" => tx.sig \in asked[tx.ad]
        BY <2>1, SubmitTxType, AggregateTxType DEF SigndInv, ViewsWereSo
    <2>3. QED
        BY <2>1, <2>2
<1>2. CASE LateStep
    <2>1. PICK tx \in late : LandLate(tx) \/ UNCHANGED chain
        BY <1>2 DEF LateStep
    <2>2. tx \in Transaction
        BY DEF SigndTypeOK
    <2>3. tx.kind = "aggregate" => tx.sig \in asked[tx.ad]
        BY DEF SigndInv, LateWasAsked
    <2>4. LandLate(tx) => Execute(tx)
        BY DEF LandLate
    <2>5. QED
        BY <2>1, <2>2, <2>3, <2>4
<1>3. CASE OffChainStep \/ (Crash /\ UNCHANGED <<chain, asked>>)
    BY <1>3 DEF OffChainStep
<1>4. CASE UNCHANGED svars
    BY <1>4 DEF svars, chain, vars
<1>5. QED
    BY <1>1, <1>2, <1>3, <1>4 DEF SigndNext, DaemonStep

\* What was asked stays asked.
LEMMA AskedStays ==
    ASSUME SigndTypeOK, [SigndNext]_svars, NEW ad \in Addresses
    PROVE  asked[ad] \subseteq asked'[ad]
BY AskedGrows

-----------------------------------------------------------------------------
(* The inductive invariant, part by part.                                  *)

LEMMA NextHistory ==
    ASSUME TypeOK, SigndTypeOK, SigndInv, [SigndNext]_svars
    PROVE  HistoryIsComplete'
<1> SUFFICES ASSUME NEW ad \in Addresses
             PROVE  Asking(ad)' \subseteq asked'[ad]
    BY DEF HistoryIsComplete
<1>1. asked[ad] \subseteq asked'[ad] /\ Asking(ad) \subseteq asked[ad]
    BY AskedStays DEF SigndInv, HistoryIsComplete
<1>2. CASE UNCHANGED chain
    <2>1. Asking(ad)' = Asking(ad)
        BY <1>2 DEF Asking, chain, vars
    <2>2. QED
        BY <1>1, <2>1
<1>3. CASE ChainStep
    <2>1. asked' = [x \in Addresses |-> asked[x] \cup Asking(x)']
        BY <1>3 DEF ChainStep
    <2>2. QED
        BY <2>1
<1>4. ASSUME NEW tx \in Transaction, Execute(tx)
      PROVE  Asking(ad)' \subseteq asked'[ad]
    BY <1>1, <1>4, ExecuteKeeps
<1>5. QED
    BY <1>2, <1>3, <1>4, DaemonRuns

\* Where the views of a pass come from.
LEMMA AcctsSource ==
    ASSUME TypeOK, SigndTypeOK, SigndInv, [SigndNext]_svars, NEW ad \in DOMAIN accts'
    PROVE  /\ ad \in Addresses
           /\ accts'[ad] \in ReqView
           /\ accts'[ad].message_hash \in asked[ad]
<1> DEFINE Goal == /\ ad \in Addresses
                   /\ accts'[ad] \in ReqView
                   /\ accts'[ad].message_hash \in asked[ad]
<1> SUFFICES Goal
    OBVIOUS
<1>1. ASSUME ad \in DOMAIN accts, accts'[ad] = accts[ad]
      PROVE  Goal
    BY <1>1 DEF SigndTypeOK, SigndInv, ViewsWereSo
<1>2. CASE accts' = accts
    BY <1>1, <1>2
<1>3. CASE Poll
    <2>1. accts' = Views
        BY <1>3 DEF Poll, NoViews
    <2>2. /\ ad \in Addresses
          /\ accts'[ad] \in ReqView
          /\ requests[ad] # NoAccount
          /\ accts'[ad].message_hash = requests[ad].message_hash
          /\ accts'[ad].scheme = requests[ad].scheme
        BY <2>1, ViewType
    <2>3. requests[ad].message_hash \in asked[ad]
        BY <2>2 DEF SigndInv, HistoryIsComplete, Asking
    <2>4. QED
        BY <2>2, <2>3
<1>4. CASE ReadSlot
    <2>1. \E S \in SUBSET DOMAIN accts : accts' = [x \in S |-> accts[x]]
        BY <1>4, SelectedViews DEF ReadSlot
    <2>2. QED
        BY <1>1, <2>1
<1>5. ASSUME NEW x \in DOMAIN accts, TakeUp(x)
      PROVE  Goal
    BY <1>1, <1>5 DEF TakeUp
<1>6. CASE Sign \/ CheckReceipt \/ Restart
    BY <1>2, <1>6 DEF Sign, Abandon, CheckReceipt, Restart
<1>7. CASE SendStep \/ ChainStep
    BY <1>2, <1>7, SendRuns, ChainStepRuns
<1>8. CASE Crash
    BY <1>8 DEF Crash, AbandonAll, NoViews
<1>9. CASE LateStep
    BY <1>2, <1>9 DEF LateStep, LandLate, DropLate
<1>10. CASE UNCHANGED svars
    BY <1>2, <1>10 DEF svars
<1> HIDE DEF Goal
<1>11. QED
    BY <1>3, <1>4, <1>5, <1>6, <1>7, <1>8, <1>9, <1>10
       DEF SigndNext, DaemonStep, OffChainStep

\* Where the request being fulfilled comes from, and what it takes for a
\* member of the quorum to be done with.
LEMMA JobSource ==
    ASSUME TypeOK, SigndTypeOK, [SigndNext]_svars, job' # NoJob
    PROVE  \/ /\ job'.ad \in DOMAIN accts
              /\ job'.view = accts[job'.ad]
              /\ job'.member = 1
              /\ job'.at = "sign"
           \/ /\ job # NoJob
              /\ job'.ad = job.ad
              /\ job'.view = job.view
              /\ \/ job'.member = job.member /\ job'.at = job.at
                 \/ job'.member = job.member /\ job'.at \in {"check", "submit"}
                 \/ job' = NextMember /\ partials'[job.ad][Signer] # NoAccount
<1> DEFINE Goal == \/ /\ job'.ad \in DOMAIN accts
                      /\ job'.view = accts[job'.ad]
                      /\ job'.member = 1
                      /\ job'.at = "sign"
                   \/ /\ job # NoJob
                      /\ job'.ad = job.ad
                      /\ job'.view = job.view
                      /\ \/ job'.member = job.member /\ job'.at = job.at
                         \/ job'.member = job.member /\ job'.at \in {"check", "submit"}
                         \/ job' = NextMember
                               /\ partials'[job.ad][Signer] # NoAccount
<1> SUFFICES Goal
    OBVIOUS
<1>1. CASE job' = job
    BY <1>1
<1>2. ASSUME NEW ad \in DOMAIN accts, TakeUp(ad)
      PROVE  Goal
    BY <1>2 DEF TakeUp
<1>3. ASSUME job # NoJob, NEW step \in {"check", "submit"},
             job' = [job EXCEPT !.at = step]
      PROVE  Goal
    BY <1>3, JobType DEF Job
<1>4. ASSUME job # NoJob, job' = NextMember, partials'[job.ad][Signer] # NoAccount
      PROVE  Goal
    BY <1>4, NextMemberType
<1>5. CASE Sign
    BY <1>3, <1>5 DEF Sign, Abandon, At
<1>6. CASE CheckReceipt /\ UNCHANGED <<chain, asked>>
    <2>1. partials' = partials /\ job # NoJob
        BY <1>6 DEF chain, vars, CheckReceipt, At
    <2> HIDE DEF Goal, NextMember, Signer
    <2>2. QED
        BY <1>3, <1>4, <1>6, <2>1 DEF CheckReceipt
<1>7. CASE SendStep
    <2>1. PICK tx \in {SubmitTx, AggregateTx} :
              /\ job # NoJob
              /\ tx \in Transaction
              /\ Execute(tx)
              /\ job' = IF tx = SubmitTx THEN NextMember ELSE NoJob
        BY <1>7, SendRuns
    <2>2. tx = SubmitTx /\ job' = NextMember
        BY <2>1
    <2>3. Submits(job.ad, Signer) /\ job.ad \in Addresses /\ Signer \in Authorities
        BY <2>1, <2>2, SubmitTxType, ExecuteRuns, JobType
    <2>4. partials'[job.ad][Signer] # NoAccount
        BY <2>3, SubmitEffect
    <2> HIDE DEF Goal, NextMember, Signer, SubmitTx
    <2>5. QED
        BY <1>4, <2>1, <2>2, <2>4
<1>8. CASE Poll \/ ReadSlot \/ Restart \/ Crash
    BY <1>1, <1>8 DEF Poll, ReadSlot, Restart, Crash, AbandonAll
<1>9. CASE LateStep \/ ChainStep
    BY <1>1, <1>9, ChainStepRuns DEF LateStep, LandLate, DropLate
<1>10. CASE UNCHANGED svars
    BY <1>1, <1>10 DEF svars
<1> HIDE DEF Goal
<1>11. QED
    BY <1>2, <1>5, <1>6, <1>7, <1>8, <1>9, <1>10
       DEF SigndNext, DaemonStep, OffChainStep

LEMMA NextViewsWereSo ==
    ASSUME TypeOK, SigndTypeOK, SigndInv, [SigndNext]_svars
    PROVE  ViewsWereSo'
<1>1. ASSUME NEW ad \in DOMAIN accts'
      PROVE  accts'[ad].message_hash \in asked'[ad]
    BY <1>1, AcctsSource, AskedStays
<1>2. ASSUME job' # NoJob
      PROVE  job'.view.message_hash \in asked'[job'.ad]
    <2>1. PICK ad \in Addresses :
              /\ job'.ad = ad
              /\ job'.view.message_hash \in asked[ad]
        <3>1. CASE job'.ad \in DOMAIN accts /\ job'.view = accts[job'.ad]
            BY <3>1 DEF SigndTypeOK, SigndInv, ViewsWereSo
        <3>2. CASE job # NoJob /\ job'.ad = job.ad /\ job'.view = job.view
            BY <3>2, JobType DEF SigndInv, ViewsWereSo
        <3>3. QED
            BY <1>2, <3>1, <3>2, JobSource
    <2>2. QED
        BY <2>1, AskedStays
<1>3. QED
    BY <1>1, <1>2 DEF ViewsWereSo

\* What LateWasAsked says of one transaction.
WasAsked(tx) == tx.kind = "aggregate" => tx.sig \in asked[tx.ad]

\* The transaction of the step the daemon is at.
LEMMA OwnTxWasAsked ==
    ASSUME SigndTypeOK, SigndInv, job # NoJob, NEW tx \in {SubmitTx, AggregateTx}
    PROVE  tx \in Transaction /\ WasAsked(tx)
<1>1. /\ tx \in Transaction
      /\ tx.ad = job.ad
      /\ tx.kind = "aggregate" => tx.sig = job.view.message_hash
    BY SubmitTxType, AggregateTxType
<1>2. QED
    BY <1>1 DEF WasAsked, SigndInv, ViewsWereSo

\* Where the transactions in flight come from.
LEMMA LateSource ==
    ASSUME SigndTypeOK, SigndInv, [SigndNext]_svars, NEW tx \in late'
    PROVE  tx \in Transaction /\ WasAsked(tx)
<1>1. ASSUME tx \in late
      PROVE  tx \in Transaction /\ WasAsked(tx)
    BY <1>1 DEF SigndTypeOK, SigndInv, LateWasAsked, WasAsked
<1>2. CASE SendStep
    <2>1. PICK own \in {SubmitTx, AggregateTx} :
              /\ job # NoJob
              /\ late' = late \/ late' = late \cup {own}
        BY <1>2, SendRuns
    <2>2. QED
        BY <1>1, <2>1, OwnTxWasAsked
<1>3. CASE Crash
    <2>1. late' \in {late, late \cup InFlight}
        BY <1>3 DEF Crash
    <2>2. ASSUME tx \in InFlight
          PROVE  job # NoJob /\ tx \in {SubmitTx, AggregateTx}
        BY <2>2 DEF InFlight, At
    <2>3. QED
        BY <1>1, <2>1, <2>2, OwnTxWasAsked
<1>4. CASE LateStep
    BY <1>1, <1>4 DEF LateStep, LandLate, DropLate
<1>5. CASE OffChainStep
    BY <1>1, <1>5 DEF OffChainStep, Poll, ReadSlot, TakeUp, Sign, CheckReceipt,
       Restart
<1>6. CASE ChainStep
    BY <1>1, <1>6, ChainStepRuns
<1>7. CASE UNCHANGED svars
    BY <1>1, <1>7 DEF svars
<1>8. QED
    BY <1>2, <1>3, <1>4, <1>5, <1>6, <1>7 DEF SigndNext, DaemonStep

LEMMA NextLateWasAsked ==
    ASSUME TypeOK, SigndTypeOK, SigndInv, [SigndNext]_svars
    PROVE  LateWasAsked'
<1> SUFFICES ASSUME NEW tx \in late', tx.kind = "aggregate"
             PROVE  tx.sig \in asked'[tx.ad]
    BY DEF LateWasAsked
<1>1. tx \in Transaction /\ tx.sig \in asked[tx.ad]
    BY LateSource DEF WasAsked
<1>2. tx.ad \in Addresses
    BY <1>1 DEF Transaction
<1>3. QED
    BY <1>1, <1>2, AskedStays

LEMMA NextDoneHaveReceipts ==
    ASSUME TypeOK, SigndTypeOK, SchemesOnDisk, SigndInv, [SigndNext]_svars
    PROVE  DoneHaveReceipts'
<1> SUFFICES ASSUME job' # NoJob,
                    NEW i \in DOMAIN Quorum(job'.view.scheme),
                    i < job'.member \/ job'.at = "aggregate"
             PROVE  partials'[job'.ad][Quorum(job'.view.scheme)[i]] # NoAccount
    BY DEF DoneHaveReceipts, Quorum
<1>1. /\ job'.view.scheme \in DOMAIN SigningSets
      /\ i \in 1..Len(Quorum(job'.view.scheme))
      /\ Len(Quorum(job'.view.scheme)) \in Nat
    BY NextJobType, QuorumType
<1>2. CASE job'.member = 1 /\ job'.at = "sign"
    BY <1>1, <1>2
<1>3. ASSUME job # NoJob, job'.ad = job.ad, job'.view = job.view
      PROVE  /\ i \in DOMAIN Quorum(job.view.scheme)
             /\ job.ad \in Addresses
             /\ job.member \in 1..Len(Quorum(job.view.scheme))
             /\ Quorum(job.view.scheme)[i] \in Authorities
             /\ (i < job.member \/ job.at = "aggregate") =>
                   partials'[job.ad][Quorum(job.view.scheme)[i]] # NoAccount
    <2>1. i \in DOMAIN Quorum(job.view.scheme)
        BY <1>3
    <2>2. /\ Quorum(job.view.scheme)[i] \in Authorities
          /\ job.ad \in Addresses
          /\ job.member \in 1..Len(Quorum(job.view.scheme))
        BY <1>3, <2>1, JobType, QuorumType
    <2>3. partials[job.ad][Quorum(job.view.scheme)[i]] # NoAccount =>
              partials'[job.ad][Quorum(job.view.scheme)[i]] # NoAccount
        BY <2>2, IsProgramStep, ReceiptsStay
    <2> HIDE DEF Quorum
    <2>4. (i < job.member \/ job.at = "aggregate") =>
              partials[job.ad][Quorum(job.view.scheme)[i]] # NoAccount
        BY <1>3, <2>1 DEF SigndInv, DoneHaveReceipts
    <2>5. QED
        BY <2>1, <2>2, <2>3, <2>4
<1>4. CASE /\ job # NoJob
           /\ job'.ad = job.ad
           /\ job'.view = job.view
           /\ job'.member = job.member
           /\ job'.at = job.at \/ job'.at \in {"check", "submit"}
    BY <1>3, <1>4
<1>5. CASE /\ job # NoJob
           /\ job'.ad = job.ad
           /\ job'.view = job.view
           /\ job' = NextMember
           /\ partials'[job.ad][Signer] # NoAccount
    <2>1. \/ job'.member = job.member + 1 /\ job'.at = "check"
          \/ job'.member = job.member
                /\ job.member = Len(Quorum(job.view.scheme))
        BY <1>5, NextMemberType
    <2>2. i < job.member \/ i = job.member
        BY <1>1, <1>3, <1>5, <2>1
    <2>3. CASE i = job.member
        BY <1>5, <2>3 DEF Signer
    <2>4. CASE i < job.member
        BY <1>3, <1>5, <2>4
    <2>5. QED
        BY <2>2, <2>3, <2>4
<1>6. QED
    BY <1>2, <1>4, <1>5, JobSource

LEMMA InitSigndInv == SigndInit => SigndInv
<1> SUFFICES ASSUME SigndInit PROVE SigndInv
    OBVIOUS
<1>1. HistoryIsComplete
    BY DEF SigndInit, Init, HistoryIsComplete, Asking
<1>2. ViewsWereSo
    BY DEF SigndInit, NoViews, ViewsWereSo
<1>3. LateWasAsked /\ DoneHaveReceipts
    BY DEF SigndInit, LateWasAsked, DoneHaveReceipts
<1>4. QED
    BY <1>1, <1>2, <1>3 DEF SigndInv

LEMMA NextSigndInv ==
    ASSUME TypeOK, SigndTypeOK, SchemesOnDisk, SigndInv, [SigndNext]_svars
    PROVE  SigndInv'
BY NextHistory, NextViewsWereSo, NextLateWasAsked, NextDoneHaveReceipts
   DEF SigndInv

LEMMA SigndInvCorrect ==
    SigndSpec => [](TypeOK /\ SigndTypeOK /\ SchemesOnDisk /\ SigndInv)
<1>1. SigndInit => SigndInv
    BY InitSigndInv
<1>2. TypeOK /\ SigndTypeOK /\ SchemesOnDisk /\ SigndInv /\ [SigndNext]_svars
          => SigndInv'
    BY NextSigndInv
<1>3. QED
    BY <1>1, <1>2, SigndTypesCorrect, PTL DEF SigndSpec

-----------------------------------------------------------------------------

\* What SignsWhatWasAsked says of a step.
SignsAsked ==
    \A ad \in Addresses :
        ~UNCHANGED daemon /\ ~Signed(ad) /\ Signed(ad)' =>
            requests'[ad].aggregate_sig \in asked[ad]

(* What the daemon puts on record at an address was asked for there, for    *)
(* any number of requests, clients, relayers, reused addresses, crashes and *)
(* failed calls: the snapshot it works from may be old, and a transaction   *)
(* it gave up on may land much later, but neither ever names a message that *)
(* no request at that address was about (run 407-425, fulfill 466-515).     *)
THEOREM SignatureIsAskedFor == SigndSpec => SignsWhatWasAsked
<1>1. TypeOK /\ SigndTypeOK /\ SigndInv /\ [SigndNext]_svars => SignsAsked
    <2> SUFFICES ASSUME TypeOK, SigndTypeOK, SigndInv, [SigndNext]_svars,
                        NEW ad \in Addresses,
                        ~UNCHANGED daemon, ~Signed(ad), Signed(ad)'
                 PROVE  requests'[ad].aggregate_sig \in asked[ad]
        BY DEF SignsAsked
    <2>1. ~ChainStep
        BY DEF ChainStep
    <2>2. ~UNCHANGED chain
        BY DEF chain, vars, Signed
    <2>3. PICK tx \in Transaction :
              /\ Execute(tx)
              /\ tx.kind = "aggregate" => tx.sig \in asked[tx.ad]
        BY <2>1, <2>2, DaemonRuns
    <2>4. QED
        BY <2>3, ExecuteKeeps
<1>2. SigndSpec => [][SignsAsked]_svars
    BY <1>1, SigndInvCorrect, PTL DEF SigndSpec
<1>3. [][SignsAsked]_svars => SignsWhatWasAsked
    BY PTL DEF SignsWhatWasAsked, SignsAsked
<1>4. QED
    BY <1>2, <1>3, PTL

(* When the daemon aggregates, its quorum has nothing left to give: either  *)
(* the threshold is met, or its members could not meet it any more.  This   *)
(* holds however their receipts came about: the daemon submitted them, an   *)
(* earlier pass or run did, a late transaction, somebody else, or another   *)
(* request at the same address (fulfill 472-499).                           *)
THEOREM QuorumBeforeAggregate == SigndSpec => []AggregatesAfterQuorum
<1>1. TypeOK /\ SigndTypeOK /\ SigndInv => AggregatesAfterQuorum
    <2> SUFFICES ASSUME TypeOK, SigndTypeOK, SigndInv, job # NoJob,
                        job.at = "aggregate", Open(job.ad),
                        Suffice(job.ad, QuorumSet(job.view.scheme))
                 PROVE  ThresholdMet(requests[job.ad])
        BY DEF AggregatesAfterQuorum, At
    <2> DEFINE rest == QuorumSet(job.view.scheme) \ credited[job.ad]
    <2>1. job.ad \in Addresses
        BY JobType
    <2>2. rest = {}
        <3> SUFFICES ASSUME NEW a \in rest PROVE FALSE
            OBVIOUS
        <3>1. PICK i \in DOMAIN Quorum(job.view.scheme) :
                  a = Quorum(job.view.scheme)[i]
            BY DEF QuorumSet
        <3>2. partials[job.ad][a] # NoAccount
            BY <3>1 DEF SigndInv, DoneHaveReceipts
        <3>3. ReceiptUnused(job.ad, a)
            BY DEF Suffice
        <3>4. QED
            BY <3>2, <3>3 DEF ReceiptUnused
    <2>3. requests[job.ad] \in SigningRequest
        BY <2>1, AccountTypes DEF Open
    <2>4. Cardinality(rest) = 0 /\ StakeOf(rest) = 0
        <3>1. Cardinality({}) = 0
            BY FS_EmptySet
        <3>2. StakeOf({}) = 0
            <4> DEFINE f == [a \in Authorities |->
                                IF a \in {} THEN ActiveWeightOf(a) ELSE 0]
            <4>1. DOMAIN f = Authorities /\ \A a \in Authorities : f[a] = 0
                OBVIOUS
            <4>2. Total(f) = 0
                <5> HIDE DEF f
                <5>1. QED
                    BY <4>1, TotalZero
            <4>3. QED
                BY <4>2 DEF StakeOf
        <3>3. QED
            BY <2>2, <3>1, <3>2
    <2>5. /\ requests[job.ad].partials_collected + 0 >= requests[job.ad].threshold
          /\ requests[job.ad].stake_weight_collected + 0
               >= requests[job.ad].required_stake_weight
        BY <2>4 DEF Suffice
    <2>6. /\ requests[job.ad].partials_collected \in Nat
          /\ requests[job.ad].stake_weight_collected \in Nat
        BY <2>3, WidthAssumption DEF SigningRequest
    <2>7. QED
        BY <2>5, <2>6 DEF ThresholdMet
<1>2. QED
    BY <1>1, SigndInvCorrect, PTL
=============================================================================
