-------------------------- MODULE SigndProperties --------------------------
(***************************************************************************)
(* What is claimed of the signer daemon at work on the chain.              *)
(***************************************************************************)
EXTENDS SigndLoop, DistinProperties

(* The daemon's variables hold values of their types.                      *)
SigndTypeOK ==
    /\ stage \in {"down", "slot", "pass"}
    /\ \E S \in SUBSET Addresses : accts \in [S -> ReqView]
    /\ job \in Job \cup {NoJob}
    /\ job # NoJob => /\ job.view.scheme \in DOMAIN SigningSets
                      /\ job.member \in DOMAIN Quorum(job.view.scheme)
    /\ late \subseteq Transaction
    /\ faults \in 0..MaxFaults
    /\ asked \in [Addresses -> SUBSET Messages]

-----------------------------------------------------------------------------

Signed(ad) == requests[ad] # NoAccount /\ requests[ad].status = "Aggregated"

(* What the daemon puts on record at an address is a signature of a message *)
(* that a request at that very address asked for, although it signs what it *)
(* read in an earlier poll, and although a transaction it gave up on may    *)
(* land while it works on something else (run 407-425, fulfill 466-515,     *)
(* send 560-567).  Where addresses are not reused, this is the message of   *)
(* the request.  What others record is their affair: aggregate_and_emit     *)
(* takes any bytes.                                                         *)
SignsWhatWasAsked ==
    [][\A ad \in Addresses :
          ~UNCHANGED daemon /\ ~Signed(ad) /\ Signed(ad)' =>
              requests'[ad].aggregate_sig \in asked[ad]
      ]_svars

QuorumSet(scheme) == {Quorum(scheme)[i] : i \in DOMAIN Quorum(scheme)}

StakeOf(S) ==
    Total([a \in Authorities |-> IF a \in S THEN ActiveWeightOf(a) ELSE 0])

Open(ad) ==
    /\ Running
    /\ requests[ad] # NoAccount
    /\ InTime(requests[ad])
    /\ requests[ad].scheme \in DOMAIN SigningSets

\* The signers S can still bring the request over its threshold, or have.
\* A receipt left by an earlier request at the address bars its operator.
Suffice(ad, S) ==
    LET rest == S \ credited[ad]
    IN  /\ rest \subseteq ActiveOperators
        /\ \A a \in rest : ReceiptUnused(ad, a)
        /\ requests[ad].partials_collected + Cardinality(rest)
             >= requests[ad].threshold
        /\ requests[ad].stake_weight_collected + StakeOf(rest)
             >= requests[ad].required_stake_weight

(* By the time the daemon sends the aggregate it has got out of its quorum  *)
(* all there is to get: if the quorum could still bring the request over    *)
(* its threshold, it already has.  So no aggregate is sent too early,       *)
(* although members are skipped whose receipt is there, from an earlier     *)
(* pass, a run that died, a transaction that landed late, or another        *)
(* request at the address (fulfill 472-499).                                *)
AggregatesAfterQuorum ==
    At("aggregate") /\ Open(job.ad)
      /\ Suffice(job.ad, QuorumSet(job.view.scheme)) =>
          ThresholdMet(requests[job.ad])

-----------------------------------------------------------------------------
(* Why these two hold: whatever the daemon remembers of an address was once *)
(* so, and a receipt is never taken back.                                   *)

\* The history has seen the requests that are there.
HistoryIsComplete == \A ad \in Addresses : Asking(ad) \subseteq asked[ad]

ViewsWereSo ==
    /\ \A ad \in DOMAIN accts : accts[ad].message_hash \in asked[ad]
    /\ job # NoJob => job.view.message_hash \in asked[job.ad]

LateWasAsked ==
    \A tx \in late : tx.kind = "aggregate" => tx.sig \in asked[tx.ad]

\* The members the daemon is done with have their receipts.
DoneHaveReceipts ==
    job # NoJob =>
        \A i \in DOMAIN Quorum(job.view.scheme) :
            i < job.member \/ job.at = "aggregate" =>
                partials[job.ad][Quorum(job.view.scheme)[i]] # NoAccount

SigndInv ==
    /\ HistoryIsComplete
    /\ ViewsWereSo
    /\ LateWasAsked
    /\ DoneHaveReceipts

-----------------------------------------------------------------------------
(* Liveness.                                                               *)

Servable(ad) == Open(ad) /\ Suffice(ad, QuorumSet(requests[ad].scheme))

(* A request that the daemon's quorum can satisfy is signed, whatever RPC  *)
(* calls fail, sessions abort and runs die on the way, and although other  *)
(* requests fail on every pass: nothing is left half done for ever, and    *)
(* no request starves behind another (run 424-451, fulfill 472-514).       *)
ServableIsSigned ==
    \A ad \in Addresses : <>[]Servable(ad) => <>Signed(ad)

\* Some two operators can satisfy the request.
Satisfiable(ad) ==
    Open(ad) /\ \E a, b \in Authorities : a # b /\ Suffice(ad, {a, b})

(* signerd.rs 6-9: the daemon watches for pending requests and completes   *)
(* each, with a 2-of-3 operator set (signerd.rs 56).                       *)
EachRequestIsCompleted ==
    \A ad \in Addresses : <>[]Satisfiable(ad) => <>Signed(ad)
=============================================================================
