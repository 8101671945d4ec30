----------------------------- MODULE SigndLoop -----------------------------
(***************************************************************************)
(* The signer daemon, engine/coordinator/src/signerd.rs, at work on the    *)
(* chain of DistinProgram.  One pass of `run` reads every request account, *)
(* then the slot, and fulfils the pending ones from that snapshot, one     *)
(* after the other, while the chain moves on: it signs, sends one receipt  *)
(* per member of a fixed quorum, skipping those whose receipt exists, and  *)
(* sends the aggregate.  Whatever goes wrong abandons that request until   *)
(* the next pass.                                                          *)
(*                                                                         *)
(* The daemon keeps nothing on disk about requests, so a restart forgets   *)
(* the pass.  Each RPC call may fail; a transaction whose send failed may  *)
(* still land until its blockhash expires.  Everybody else may run any     *)
(* instruction at any time: post again at an address whose request is      *)
(* gone, submit for any operator, record any bytes as the aggregate.       *)
(*                                                                         *)
(* fulfill, fulfill_gg20 and fulfill_frostnet differ only in the quorum    *)
(* and in whether signing can fail; what a session of operator processes   *)
(* does is modelled in FrostRounds.  A signature is named by the message   *)
(* it signs.  Left out: funding, logging, keys at rest.                    *)
(***************************************************************************)
EXTENDS DistinProgram, Sequences

CONSTANTS
    SigningSets,    \* the key sets on disk: scheme -> its fixed quorum, in order
    Networked,      \* the schemes signed by sessions of operator processes
    NoJob,          \* no request is being fulfilled
    MaxFaults       \* bound: how many RPC calls, sessions and runs fail

ASSUME MaxFaultsAssumption == MaxFaults \in Nat

ASSUME SigningSetsAssumption ==
    /\ DOMAIN SigningSets \subseteq Schemes
    /\ \A scheme \in DOMAIN SigningSets :
           SigningSets[scheme] \in Seq(Authorities) \ {<<>>}

\* participation_receipt: a hash in the first half, the message in the second.
Receipt == [lo |-> TRUE, hi |-> TRUE]

ASSUME ReceiptAssumption == Receipt \in ShareArgs

\* ReqView: what decode_request keeps of an account.
ReqView ==
    [scheme : SchemeSet, message_hash : Messages, status : RequestStatus,
     expiry_slot : 0..U64_MAX]

NoViews == [ad \in {} |-> NoAccount]

Job ==
    [ad : Addresses, view : ReqView, member : Nat \ {0},
     at : {"sign", "check", "submit", "aggregate"}]

Transaction ==
    [kind : {"submit"}, ad : Addresses, signer : Authorities] \cup
    [kind : {"aggregate"}, ad : Addresses, sig : Messages]

ASSUME NoJobAssumption == NoJob \notin Job

VARIABLES
    stage,      \* "down", "slot" (accounts read, slot not yet) or "pass"
    accts,      \* the rest of this pass: address -> the view of its account
    job,        \* the request being fulfilled
    late,       \* transactions whose send failed, and that may still land
    faults,     \* how many faults there have been
    asked       \* history: the messages that requests at each address were about

chain == vars
daemon == <<stage, accts, job, late, faults>>
svars == <<slot, live_feeds, protocol, operators, requests, partials,
           bond_vault, slash_pool, wallet, lamports, fees, credited,
           stage, accts, job, late, faults, asked>>

SigndInit ==
    /\ Init
    /\ stage = "pass"
    /\ accts = NoViews
    /\ job = NoJob
    /\ late = {}
    /\ faults = 0
    /\ asked = [ad \in Addresses |-> {}]

\* Something fails that may fail.
Fault == faults < MaxFaults /\ faults' = faults + 1

-----------------------------------------------------------------------------
(* The poll loop: run.                                                     *)

ViewOf(req) ==
    [scheme |-> req.scheme, message_hash |-> req.message_hash,
     status |-> req.status, expiry_slot |-> req.expiry_slot]

Views == [ad \in {x \in Addresses : requests[x] # NoAccount} |->
              ViewOf(requests[ad])]

Idle == stage = "pass" /\ job = NoJob /\ DOMAIN accts = {}

\* get_program_accounts_with_config(..).unwrap_or_default()
Poll ==
    /\ Idle
    /\ stage' = "slot"
    /\ \/ accts' = Views /\ UNCHANGED faults
       \/ accts' = NoViews /\ Fault
    /\ UNCHANGED <<job, late>>

\* Only pending, not expired, and of a scheme whose key set is on disk.
WorthSigning(view, now) ==
    /\ view.status = "Pending"
    /\ now <= view.expiry_slot
    /\ view.scheme \in DOMAIN SigningSets

Selected(now) ==
    [ad \in {x \in DOMAIN accts : WorthSigning(accts[x], now)} |-> accts[ad]]

\* get_slot().unwrap_or(0): at slot 0 nothing looks expired.
ReadSlot ==
    /\ stage = "slot"
    /\ stage' = "pass"
    /\ \/ accts' = Selected(slot) /\ UNCHANGED faults
       \/ accts' = Selected(0) /\ Fault
    /\ UNCHANGED <<job, late>>

\* Faulty variant: an address is paired with what was read at another.
TakeUpMixed(ad) ==
    /\ stage = "pass"
    /\ job = NoJob
    /\ ad \in DOMAIN accts
    /\ \E other \in DOMAIN accts :
           job' = [ad |-> ad, view |-> accts[other], member |-> 1, at |-> "sign"]
    /\ accts' = [x \in DOMAIN accts \ {ad} |-> accts[x]]
    /\ UNCHANGED <<stage, late, faults>>

\* The next account of the pass, in whatever order the RPC node listed them.
TakeUp(ad) ==
    /\ stage = "pass"
    /\ job = NoJob
    /\ ad \in DOMAIN accts
    /\ job' = [ad |-> ad, view |-> accts[ad], member |-> 1, at |-> "sign"]
    /\ accts' = [x \in DOMAIN accts \ {ad} |-> accts[x]]
    /\ UNCHANGED <<stage, late, faults>>

\* The process is gone, and the pass with it.  As a faulty variant of Abandon:
\* the panic of one request ends the daemon.
AbandonAll ==
    /\ job' = NoJob
    /\ accts' = NoViews
    /\ stage' = "down"

\* An Err or a panic (catch_unwind) skips this request.
Abandon == job' = NoJob /\ UNCHANGED <<stage, accts>>

-----------------------------------------------------------------------------
(* One request: fulfill, fulfill_gg20, fulfill_frostnet.                   *)

At(step) == job # NoJob /\ job.at = step

Quorum(scheme) == SigningSets[scheme]

Signer == Quorum(job.view.scheme)[job.member]

\* Signs the hash of the snapshot; only an operator session can fail.
Sign ==
    /\ At("sign")
    /\ \/ /\ job' = [job EXCEPT !.at = "check"]
          /\ UNCHANGED <<stage, accts, faults>>
       \/ job.view.scheme \in Networked /\ Fault /\ Abandon
    /\ UNCHANGED late

\* Faulty variant: one member too far.
NextMemberTooFar ==
    IF job.member <= Len(Quorum(job.view.scheme))
    THEN [job EXCEPT !.member = @ + 1, !.at = "check"]
    ELSE [job EXCEPT !.at = "aggregate"]

\* On to the next member of the quorum, or to the aggregate.
NextMember ==
    IF job.member < Len(Quorum(job.view.scheme))
    THEN [job EXCEPT !.member = @ + 1, !.at = "check"]
    ELSE [job EXCEPT !.at = "aggregate"]

\* Faulty variant: a failed look-up counts as a receipt found.
CheckReceiptTrusting ==
    /\ At("check")
    /\ \/ /\ partials[job.ad][Signer] # NoAccount
          /\ job' = NextMember
          /\ UNCHANGED faults
       \/ /\ partials[job.ad][Signer] = NoAccount
          /\ job' = [job EXCEPT !.at = "submit"]
          /\ UNCHANGED faults
       \/ job' = NextMember /\ Fault
    /\ UNCHANGED <<stage, accts, late>>

\* get_account(&partial).is_ok(): "this operator already submitted"; a failed
\* look-up counts as no receipt.
CheckReceipt ==
    /\ At("check")
    /\ \/ /\ partials[job.ad][Signer] # NoAccount
          /\ job' = NextMember
          /\ UNCHANGED faults
       \/ /\ partials[job.ad][Signer] = NoAccount
          /\ job' = [job EXCEPT !.at = "submit"]
          /\ UNCHANGED faults
       \/ job' = [job EXCEPT !.at = "submit"] /\ Fault
    /\ UNCHANGED <<stage, accts, late>>

SubmitTx == [kind |-> "submit", ad |-> job.ad, signer |-> Signer]

AggregateTx ==
    [kind |-> "aggregate", ad |-> job.ad, sig |-> job.view.message_hash]

Execute(tx) ==
    \/ /\ tx.kind = "submit"
       /\ SubmitPartialSignature(tx.ad, tx.signer, Receipt)
    \/ tx.kind = "aggregate" /\ AggregateAndEmit(tx.ad, tx.sig)

\* The chain would not run it now: the preflight or the execution fails.
Refused(tx) == ~ENABLED Execute(tx)

\* send: the transaction lands, or the chain refuses it, or the call fails,
\* and then nobody knows; it panics unless it landed.
Send(tx, next) ==
    \/ /\ Execute(tx)
       /\ job' = next
       /\ UNCHANGED <<stage, accts, late, faults>>
    \/ /\ Refused(tx)
       /\ Abandon
       /\ UNCHANGED <<chain, late, faults>>
    \/ /\ Fault
       /\ Abandon
       /\ late' \in {late, late \cup {tx}}
       /\ UNCHANGED chain

SendSubmit == At("submit") /\ Send(SubmitTx, NextMember)

SendAggregate == At("aggregate") /\ Send(AggregateTx, NoJob)

-----------------------------------------------------------------------------
(* The process, and transactions in flight.                                *)

\* What a run that dies now may leave in flight.
InFlight ==
    IF At("submit") THEN {SubmitTx}
    ELSE IF At("aggregate") THEN {AggregateTx} ELSE {}

Crash ==
    /\ stage # "down"
    /\ Fault
    /\ AbandonAll
    /\ late' \in {late, late \cup InFlight}

\* The host starts `signerd run` again (fly.toml 7-8).
Restart ==
    /\ stage = "down"
    /\ stage' = "pass"
    /\ UNCHANGED <<accts, job, late, faults>>

LandLate(tx) ==
    /\ tx \in late
    /\ late' = late \ {tx}
    /\ Execute(tx)
    /\ UNCHANGED <<stage, accts, job, faults>>

DropLate(tx) ==
    /\ tx \in late
    /\ late' = late \ {tx}
    /\ UNCHANGED <<stage, accts, job, faults>>

-----------------------------------------------------------------------------
(* Everybody else.                                                         *)

\* What the request at ad, if there is one, is about.
Asking(ad) ==
    IF requests[ad] = NoAccount THEN {} ELSE {requests[ad].message_hash}

\* Any instruction by anyone, the daemon's operators included; post_request
\* (519-550) takes the slot for the nonce, or 0 when it cannot read it, and
\* so may meet an address that was used before.
ChainStep ==
    /\ Next
    /\ asked' = [ad \in Addresses |-> asked[ad] \cup Asking(ad)']
    /\ UNCHANGED daemon

\* The daemon's steps that leave the chain alone.
OffChainStep ==
    /\ Poll \/ ReadSlot \/ (\E ad \in DOMAIN accts : TakeUp(ad)) \/ Sign
         \/ CheckReceipt \/ Restart
    /\ UNCHANGED <<chain, asked>>

SendStep == (SendSubmit \/ SendAggregate) /\ UNCHANGED asked

DaemonStep == OffChainStep \/ SendStep

LateStep ==
    /\ \E tx \in late : LandLate(tx) \/ (DropLate(tx) /\ UNCHANGED chain)
    /\ UNCHANGED asked

SigndNext ==
    \/ DaemonStep
    \/ Crash /\ UNCHANGED <<chain, asked>>
    \/ LateStep
    \/ ChainStep

\* The loop never ends by itself, each call in it returns or times out, and
\* the host restarts a daemon that died.
SigndSpec == SigndInit /\ [][SigndNext]_svars /\ WF_svars(DaemonStep)
=============================================================================
