------------------------------- MODULE WebApp -------------------------------
(***************************************************************************)
(* The product page, page.tsx, in one browser tab, over the chain of       *)
(* DistinClient and the Ethereum node of EthTransfer.                      *)
(*                                                                         *)
(* The page is single-threaded: a handler runs until its next await, so    *)
(* an action is what happens between two awaits.  While a handler waits    *)
(* the user clicks on, timers fire, other answers arrive, and the chain    *)
(* moves.  A read is two steps: the node answers with what it has, and the *)
(* answer arrives, possibly after younger ones.                            *)
(*                                                                         *)
(* An effect runs in the step that changes what it depends on; the frame   *)
(* that may be painted in between is left out.  An effect's clean-up makes *)
(* it ignore the answers under way, which are dropped here.                *)
(*                                                                         *)
(* The form's inputs are chosen when the button is pressed.                *)
(***************************************************************************)
EXTENDS WebView

CONSTANTS
    NoTx, NoAttempt,
    MaxFeed,            \* rows the feed keeps: 60
    MaxPolls,           \* times a request is polled: 40
    Budgets             \* bounds: how often the user, timers, faults and others act

\* What is bounded: the user's presses, by control, what the user does to the
\* extension and the tab, timers, faults, and what others do; on the landing
\* page, how often it is scrolled and the animation's periods.
Acts == {"posts", "broadcasts", "shows", "connects", "switches", "reloads",
         "ticks", "faults", "others", "scrolls", "periods"}

ASSUME WebAssumption ==
    /\ MaxFeed \in Nat \ {0} /\ MaxPolls \in Nat \ {0}
    /\ Budgets \subseteq [Acts -> Nat]

\* A press of the button that is being served: how far it is, what was typed,
\* the transaction built and the address drawn.
Stages == {"eth", "sign", "send", "confirm", "reread"}
Attempts ==
    [stage : Stages, chain : ChainKeys, text : Texts, wallet : Wallets,
     tx : EthTx \cup {NoTx}, request : Addresses \cup {0}]

\* "No transaction", "no digest" and "no press" are none.
ASSUME NoTxAssumption == NoTx \notin EthTx /\ Zero \notin EthTx
ASSUME NoAttemptAssumption == NoAttempt \notin Attempts

VARIABLES
    \* the page's state
    view, running, feed, idRef, intents, wallet, proto, dash, activity,
    \* calls under way
    attempt,            \* the press of the button being served
    protoReads,         \* answers about the protocol, not yet arrived
    dashReads,          \* answers for the dashboard
    activityReads,      \* answers for the activity list
    walletCalls,        \* connect and disconnect calls
    polls,              \* the loops that wait for a signature
    sends,              \* broadcasts
    budget              \* what is left of the bounds

pageVars == <<view, running, feed, idRef, intents, wallet, proto, dash, activity>>
callVars == <<attempt, protoReads, dashReads, activityReads, walletCalls, polls, sends>>
ethVars == <<ethNonce, ethTxs>>
vars == <<chainVars, ethVars, pageVars, callVars, provider, budget>>

Spend(what) ==
    /\ budget[what] > 0
    /\ budget' = [budget EXCEPT ![what] = @ - 1]

-----------------------------------------------------------------------------
\* State setters.

\* Faulty variant: the feed is not cut.
pushRowUncut(row) == idRef' = idRef + 1 /\ feed' = <<row>> \o feed

\* pushRow, with the next row id: newest first, the oldest beyond the cap cut.
pushRow(row) ==
    /\ idRef' = idRef + 1
    /\ feed' = [i \in 1..(IF Len(feed) < MaxFeed THEN Len(feed) + 1 ELSE MaxFeed) |->
                   IF i = 1 THEN row ELSE feed[i - 1]]

ErrorRow(about) == [kind |-> "error", id |-> idRef, about |-> about]

IntentRow(at) ==
    [kind |-> "intent", id |-> idRef, chain |-> at.chain, text |-> at.text,
     request |-> at.request, threshSig |-> Zero, ethRaw |-> NoRaw,
     ethSent |-> FALSE, ethErr |-> FALSE]

\* Faulty variant: the newest row.
IsNewest(id, i) == i = 1 /\ feed[i].kind = "intent"

\* The intent row of this id; it may be gone.
IsRow(id, i) == feed[i].id = id /\ feed[i].kind = "intent"

\* setFeed with a patch of one row.
PatchRow(id, Patch(_)) ==
    feed' = [i \in DOMAIN feed |-> IF IsRow(id, i) THEN Patch(feed[i]) ELSE feed[i]]

\* Faulty variant: the dashboard effect without its clean-up.
DashEffectAllLive(v, p) ==
    dashReads' = dashReads \cup (IF v = "dashboard" /\ p # NotLoaded
                                 THEN {readDashboard(requests, p)} ELSE {})

\* The dashboard effect, on view and proto: ignore earlier answers, scan anew.
DashEffect(v, p) ==
    dashReads' = IF v = "dashboard" /\ p # NotLoaded
                 THEN {readDashboard(requests, p)} ELSE {}

\* Faulty variant: the activity effect without its clean-up.
AllLive(reads) == reads

\* The answers to earlier loads of the list that an effect's clean-up leaves.
StillLive(reads) == {}

ActivityRead(w) == [wallet |-> w, accts |-> requests]

\* The activity effect, on view and wallet: forget the list, load anew.
ActivityEffect(v, w) ==
    IF v = "activity" /\ w # NoWallet
    THEN /\ activity' = NotLoaded
         /\ activityReads' = StillLive(activityReads) \cup {ActivityRead(w)}
    ELSE /\ activityReads' = StillLive(activityReads)
         /\ UNCHANGED activity

SetProto(p) == proto' = p /\ DashEffect(view, p)

SetWallet(w) ==
    /\ wallet' = w
    /\ IF w = wallet THEN UNCHANGED <<activity, activityReads>>
       ELSE ActivityEffect(view, w)

-----------------------------------------------------------------------------
\* Start, and reload of the tab.

Init ==
    /\ slot = 0
    /\ protocol \in {NoAccount,
                     [operator_count |-> 1, request_nonce |-> 0, total_bonded |-> Bond]}
    /\ requests = [a \in Addresses |-> NoAccount]
    /\ network = [a \in Addresses |-> Unused]
    /\ ethNonce = 0 /\ ethTxs = {}
    /\ ProviderInit
    /\ budget \in Budgets
    /\ view = "sign" /\ running = FALSE /\ feed = <<>> /\ idRef = 0 /\ intents = 0
    /\ wallet = InitialWallet
    /\ proto = NotLoaded /\ dash = NotLoaded /\ activity = NotLoaded
    /\ attempt = NoAttempt
    /\ protoReads = {readProtocol(protocol)}
    /\ dashReads = {} /\ activityReads = {} /\ walletCalls = <<>>
    /\ polls = {} /\ sends = {}

\* A fresh page: all that an earlier one knew is gone, a transaction under way
\* is not.  Rows go on being numbered, which nothing but their identity tells.
Load(w, reads) ==
    /\ view' = "sign" /\ running' = FALSE /\ feed' = <<>> /\ intents' = 0
    /\ UNCHANGED idRef
    /\ wallet' = w
    /\ proto' = NotLoaded /\ dash' = NotLoaded /\ activity' = NotLoaded
    /\ attempt' = NoAttempt
    /\ protoReads' = reads
    /\ dashReads' = {} /\ activityReads' = {} /\ walletCalls' = <<>>
    /\ polls' = {} /\ sends' = {}
    /\ UNCHANGED <<chainVars, ethVars, provider>>

Open == Load(InitialWallet, {readProtocol(protocol)})

Reload == Spend("reloads") /\ Open

-----------------------------------------------------------------------------
\* Reading.

\* The six-second timer asks; the node answers.
ProtoTick ==
    /\ Spend("ticks")
    /\ protoReads' = protoReads \cup {readProtocol(protocol)}
    /\ UNCHANGED <<chainVars, ethVars, pageVars, attempt, dashReads, activityReads,
                   walletCalls, polls, sends, provider>>

ProtoArrives(s) ==
    /\ protoReads' = protoReads \ {s}
    /\ SetProto(s)
    /\ UNCHANGED <<chainVars, ethVars, view, running, feed, idRef, intents, wallet,
                   dash, activity, attempt, activityReads, walletCalls, polls, sends,
                   provider, budget>>

ProtoFails(s) ==
    /\ Spend("faults")
    /\ protoReads' = protoReads \ {s}
    /\ UNCHANGED <<chainVars, ethVars, pageVars, attempt, dashReads, activityReads,
                   walletCalls, polls, sends, provider>>

\* setView, and the two effects that depend on it.
ShowView(v) ==
    /\ v # Sidebar(view, proto).active
    /\ Spend("shows")
    /\ view' = v
    /\ DashEffect(v, proto)
    /\ ActivityEffect(v, wallet)
    /\ UNCHANGED <<chainVars, ethVars, running, feed, idRef, intents, wallet, proto,
                   dash, attempt, protoReads, walletCalls, polls, sends, provider>>

DashArrives(d) ==
    /\ dashReads' = dashReads \ {d}
    /\ dash' = d
    /\ UNCHANGED <<chainVars, ethVars, view, running, feed, idRef, intents, wallet,
                   proto, activity, attempt, protoReads, activityReads, walletCalls,
                   polls, sends, provider, budget>>

DashFails(d) ==
    /\ Spend("faults")
    /\ dashReads' = dashReads \ {d}
    /\ UNCHANGED <<chainVars, ethVars, pageVars, attempt, protoReads, activityReads,
                   walletCalls, polls, sends, provider>>

ActivityTick ==
    /\ view = "activity" /\ wallet # NoWallet
    /\ Spend("ticks")
    /\ activityReads' = activityReads \cup {ActivityRead(wallet)}
    /\ UNCHANGED <<chainVars, ethVars, pageVars, attempt, protoReads, dashReads,
                   walletCalls, polls, sends, provider>>

\* The slot, read beside the accounts, may be a younger one.
ActivityArrives(r) ==
    /\ activityReads' = activityReads \ {r}
    /\ activity' = readMyActivity(r.accts, slot, r.wallet)
    /\ UNCHANGED <<chainVars, ethVars, view, running, feed, idRef, intents, wallet,
                   proto, dash, attempt, protoReads, dashReads, walletCalls, polls,
                   sends, provider, budget>>

\* A list already shown stays; otherwise an empty one is shown.
ActivityFails(r) ==
    /\ Spend("faults")
    /\ activityReads' = activityReads \ {r}
    /\ activity' = IF activity = NotLoaded THEN <<>> ELSE activity
    /\ UNCHANGED <<chainVars, ethVars, view, running, feed, idRef, intents, wallet,
                   proto, dash, attempt, protoReads, dashReads, walletCalls, polls,
                   sends, provider>>

-----------------------------------------------------------------------------
\* The wallet extension.

\* The header's button, and the action button of a page without a wallet.
connect == walletCalls' = Append(walletCalls, CallFor(wallet))

ConnectClick ==
    /\ Spend("connects")
    /\ connect
    /\ UNCHANGED <<chainVars, ethVars, pageVars, attempt, protoReads, dashReads,
                   activityReads, polls, sends, provider>>

WalletAnswers ==
    /\ \E i \in DOMAIN walletCalls : Answers(walletCalls, i, walletCalls')
    /\ UNCHANGED <<chainVars, ethVars, pageVars, attempt, protoReads, dashReads,
                   activityReads, polls, sends, budget>>

\* connect goes on after its await.
WalletHeard ==
    /\ \E i \in DOMAIN walletCalls :
           /\ walletCalls[i].shows # Unanswered
           /\ SetWallet(walletCalls[i].shows)
           /\ walletCalls' = WithoutCall(walletCalls, i)
    /\ UNCHANGED <<chainVars, ethVars, view, running, feed, idRef, intents, proto,
                   dash, attempt, protoReads, dashReads, polls, sends, provider, budget>>

WalletSwitches ==
    /\ Spend("switches")
    /\ ProviderChanges
    /\ UNCHANGED <<chainVars, ethVars, pageVars, callVars>>

-----------------------------------------------------------------------------
\* run: from the press of the button to the poll for the signature.

\* The page is told nothing else while the handler goes on.
RunKeeps == <<view, wallet, dash, activity, protoReads, activityReads, walletCalls,
              sends, provider>>

\* setRunning(true), up to the first await.
StartAttempt(chain, text) ==
    /\ running' = TRUE
    /\ attempt' = [stage |-> IF chain = "ethereum" THEN "eth" ELSE "sign",
                   chain |-> chain, text |-> text, wallet |-> wallet,
                   tx |-> NoTx, request |-> 0]

RunClick(chain, text) ==
    /\ view = "sign" /\ ~SignForm(proto, chain, running, wallet).disabled
    /\ attempt = NoAttempt
    /\ Spend("posts")
    /\ \/ /\ wallet = NoWallet
          /\ connect
          /\ UNCHANGED <<running, feed, idRef, attempt>>
       \/ /\ wallet # NoWallet /\ ~Ready(proto)
          /\ pushRow(ErrorRow(0))
          /\ UNCHANGED <<running, attempt, walletCalls>>
       \/ /\ wallet # NoWallet /\ Ready(proto)
          /\ StartAttempt(chain, text)
          /\ UNCHANGED <<feed, idRef, walletCalls>>
    /\ UNCHANGED <<chainVars, ethVars, view, intents, wallet, proto, dash, activity,
                   protoReads, dashReads, activityReads, polls, sends, provider>>

In(stage) == attempt # NoAttempt /\ attempt.stage = stage

\* Faulty variant: no finally.
RejectedNoFinally ==
    /\ pushRow(ErrorRow(attempt.request))
    /\ attempt' = NoAttempt
    /\ UNCHANGED <<ethVars, RunKeeps, running, intents, proto, dashReads, polls>>

\* catch and finally.
Rejected ==
    /\ pushRow(ErrorRow(attempt.request))
    /\ running' = FALSE
    /\ attempt' = NoAttempt
    /\ UNCHANGED <<ethVars, RunKeeps, intents, proto, dashReads, polls>>

\* buildEthTransfer answers.
EthNonceArrives ==
    /\ In("eth")
    /\ attempt' = [attempt EXCEPT !.stage = "sign", !.tx = buildEthTransfer(attempt.text)]
    /\ UNCHANGED <<chainVars, ethVars, RunKeeps, running, feed, idRef, intents, proto,
                   dashReads, polls, budget>>

\* The call of the Ethereum node fails or answers an error, or what was typed is
\* no number after all, as 1.2.3.
EthNonceFails == In("eth") /\ Spend("faults") /\ Rejected /\ UNCHANGED chainVars

\* The provider signs for the account it holds now; the fee payer is the
\* wallet of the press.
WalletSigns ==
    /\ In("sign")
    /\ provider.connected /\ provider.account = attempt.wallet
    /\ attempt' = [attempt EXCEPT !.stage = "send"]
    /\ UNCHANGED <<chainVars, ethVars, RunKeeps, running, feed, idRef, intents, proto,
                   dashReads, polls, budget>>

\* The user declines, the blockhash cannot be read, or it is too old by now.
WalletRefuses == In("sign") /\ Rejected /\ UNCHANGED <<chainVars, budget>>

\* The arguments that run passes to sendCreateRequest.
AttemptArgs ==
    [scheme |-> CHAINS[attempt.chain].sig, targetVm |-> CHAINS[attempt.chain].vm,
     intent |-> attempt.text, chain |-> attempt.chain,
     digest |-> IF attempt.tx = NoTx THEN Zero ELSE ethSighash(attempt.tx)]

PostTx == buildCreateRequestIx(attempt.wallet, AttemptArgs)

\* sendRawTransaction, the preflight passed.
SendTx(a) ==
    /\ In("send") /\ ProgramAccepts
    /\ Forward(a, PostTx)
    /\ attempt' = [attempt EXCEPT !.stage = "confirm", !.request = a]
    /\ UNCHANGED <<ethVars, RunKeeps, running, feed, idRef, intents, proto, dashReads,
                   polls, budget>>

\* Refused in simulation, or by the bound on addresses.
PreflightFails ==
    /\ In("send") /\ (~ProgramAccepts \/ \A a \in Addresses : ~Fresh(a))
    /\ Rejected
    /\ UNCHANGED <<chainVars, budget>>

\* The transaction is forwarded, and the answer lost.
SendAnswerLost(a) ==
    /\ In("send") /\ ProgramAccepts
    /\ Spend("faults")
    /\ Forward(a, PostTx)
    /\ Rejected

\* confirmTransaction returns once the chain has processed the transaction,
\* with an error or without; run does not look.
Confirmed ==
    /\ In("confirm") /\ network[attempt.request].fate \in {"created", "failed"}
    /\ pushRow(IntentRow(attempt))
    /\ intents' = intents + 1
    /\ attempt' = [attempt EXCEPT !.stage = "reread"]
    /\ UNCHANGED <<chainVars, ethVars, RunKeeps, running, proto, dashReads, polls, budget>>

ConfirmExpires ==
    /\ In("confirm") /\ network[attempt.request].fate = "expired"
    /\ Rejected
    /\ UNCHANGED <<chainVars, budget>>

\* The connection breaks while run waits.
ConfirmFails ==
    /\ In("confirm")
    /\ Spend("faults")
    /\ Rejected
    /\ UNCHANGED chainVars

\* The protocol is read again, and only then the poll begins.
Reread ==
    /\ In("reread")
    /\ SetProto(readProtocol(protocol))
    /\ polls' = polls \cup {[row |-> idRef - 1, request |-> attempt.request,
                             tx |-> attempt.tx, left |-> MaxPolls]}
    /\ running' = FALSE
    /\ attempt' = NoAttempt
    /\ UNCHANGED <<chainVars, ethVars, RunKeeps, feed, idRef, intents, budget>>

RereadFails ==
    /\ In("reread")
    /\ Spend("faults")
    /\ Rejected
    /\ UNCHANGED chainVars

-----------------------------------------------------------------------------
\* The poll for the signature, and the broadcast.

PollKeeps == <<chainVars, ethVars, view, running, idRef, intents, wallet, proto, dash,
               activity, attempt, protoReads, dashReads, activityReads, walletCalls,
               sends, provider>>

\* patch: the signature, and for Ethereum the assembled transaction.
Revealed(row, tx, sig) ==
    IF tx = NoTx THEN [row EXCEPT !.threshSig = sig]
    ELSE IF RecoversToGroup(tx, sig)
         THEN [row EXCEPT !.threshSig = sig, !.ethRaw = assembleSignedTx(tx, sig)]
         ELSE [row EXCEPT !.threshSig = sig, !.ethErr = TRUE]

\* Faulty variant: the first read that fails ends the loop.
NextPollNone(p) == polls' = polls \ {p}

\* The loop goes on, or has asked MaxPolls times.
NextPoll(p) ==
    polls' = (polls \ {p}) \cup
             (IF p.left = 1 THEN {} ELSE {[p EXCEPT !.left = @ - 1]})

PollTick(p) ==
    LET res == readRequest(requests[p.request])
    IN  /\ \/ /\ res.signed
              /\ PatchRow(p.row, LAMBDA row : Revealed(row, p.tx, res.signature))
              /\ polls' = polls \ {p}
           \/ /\ ~res.signed
              /\ NextPoll(p)
              /\ UNCHANGED feed
        /\ UNCHANGED <<PollKeeps, budget>>

PollFails(p) ==
    /\ Spend("faults")
    /\ NextPoll(p)
    /\ UNCHANGED <<PollKeeps, feed>>

BroadcastKeeps == <<chainVars, view, running, idRef, intents, wallet, proto, dash,
                    activity, attempt, protoReads, dashReads, activityReads,
                    walletCalls, polls, provider>>

\* The button stays until an answer is in: a second press is a second call.
BroadcastClick(i) ==
    /\ view = "sign" /\ RowView(feed[i]).broadcastButton
    /\ Spend("broadcasts")
    /\ \E call \in 1..2 :
           LET s == [row |-> feed[i].id, raw |-> feed[i].ethRaw, call |-> call]
           IN  s \notin sends /\ sends' = sends \cup {s}
    /\ UNCHANGED <<BroadcastKeeps, ethVars, feed>>

Sent(row) == [row EXCEPT !.ethSent = TRUE]

\* Faulty variant: a failed broadcast clears the hash.
SendErrorClears(row) == [row EXCEPT !.ethErr = TRUE, !.ethSent = FALSE]

SendError(row) == [row EXCEPT !.ethErr = TRUE]

\* The node takes the transaction, or names what is wrong: the nonce, a
\* transaction it knows, an account without funds.
BroadcastAnswers(s) ==
    /\ sends' = sends \ {s}
    /\ \/ NodeAccepts(s.raw) /\ Accepted(s.raw) /\ PatchRow(s.row, Sent)
       \/ PatchRow(s.row, SendError) /\ UNCHANGED ethVars
    /\ UNCHANGED <<BroadcastKeeps, budget>>

\* The node takes the transaction, and its answer is lost.
BroadcastAnswerLost(s) ==
    /\ Spend("faults")
    /\ NodeAccepts(s.raw)
    /\ sends' = sends \ {s}
    /\ Accepted(s.raw)
    /\ PatchRow(s.row, SendError)
    /\ UNCHANGED BroadcastKeeps

-----------------------------------------------------------------------------
\* The chain, and everybody else.

Signed(a) == requests[a].message_hash

\* The operators serve a request: this needs no bound.
OperatorsSign(a) ==
    /\ OperatorsRecord(a, Signed(a))
    /\ UNCHANGED <<ethVars, pageVars, callVars, provider, budget>>

TxResolves(a) ==
    /\ TxLands(a) \/ TxExpires(a)
    /\ UNCHANGED <<ethVars, pageVars, callVars, provider, budget>>

OthersTx(w, chain, text) ==
    buildCreateRequestIx(w, [scheme |-> CHAINS[chain].sig, targetVm |-> CHAINS[chain].vm,
                             intent |-> text, chain |-> chain, digest |-> Zero])

Elsewhere ==
    /\ Spend("others")
    /\ \/ \E a \in Addresses : OperatorsRecord(a, Junk) \/ CloseRequest(a)
       \/ \E a \in Addresses, w \in Wallets, chain \in ChainKeys, text \in Texts :
              OthersPost(a, w, OthersTx(w, chain, text))
       \/ SetChanges
       \/ SlotPasses
    /\ UNCHANGED <<ethVars, pageVars, callVars, provider>>

AccountUsedElsewhere ==
    /\ Spend("others")
    /\ OthersSend
    /\ UNCHANGED <<chainVars, pageVars, callVars, provider>>

-----------------------------------------------------------------------------
Reads ==
    \/ ProtoTick \/ ActivityTick
    \/ \E s \in protoReads : ProtoArrives(s) \/ ProtoFails(s)
    \/ \E d \in dashReads : DashArrives(d) \/ DashFails(d)
    \/ \E r \in activityReads : ActivityArrives(r) \/ ActivityFails(r)

\* What run does once it has started, the user's answer apart.
AttemptStep ==
    \/ EthNonceArrives
    \/ \E a \in Addresses : SendTx(a)
    \/ PreflightFails \/ Confirmed \/ ConfirmExpires \/ Reread

AttemptFault ==
    \/ EthNonceFails
    \/ \E a \in Addresses : SendAnswerLost(a)
    \/ ConfirmFails \/ RereadFails

Presses ==
    \/ \E v \in {"sign", "dashboard", "activity"} : ShowView(v)
    \/ ConnectClick
    \/ \E chain \in ChainKeys, text \in Texts : RunClick(chain, text)
    \/ \E i \in DOMAIN feed : BroadcastClick(i)

Next ==
    \/ Presses
    \/ Reads
    \/ WalletAnswers \/ WalletHeard \/ WalletSigns \/ WalletRefuses
    \/ AttemptStep \/ AttemptFault
    \/ \E p \in polls : PollTick(p) \/ PollFails(p)
    \/ \E s \in sends : BroadcastAnswers(s) \/ BroadcastAnswerLost(s)
    \/ \E a \in Addresses : OperatorsSign(a) \/ TxResolves(a)
    \/ Elsewhere \/ AccountUsedElsewhere \/ WalletSwitches \/ Reload

\* A transaction lands or expires, an answer awaited by run comes, and the
\* timer of a poll fires.  Nobody is bound to press a button or to sign.
Fairness ==
    /\ \A a \in Addresses : WF_vars(TxResolves(a))
    /\ WF_vars(AttemptStep)
    /\ \A a \in Addresses : WF_vars(\E p \in polls : p.request = a /\ PollTick(p))

Spec == Init /\ [][Next]_vars /\ Fairness
=============================================================================
