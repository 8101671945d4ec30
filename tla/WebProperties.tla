---------------------------- MODULE WebProperties ----------------------------
(***************************************************************************)
(* What the site promises, whatever the order of clicks, timers, frames,    *)
(* answers and blocks: the product page first, then the landing page.      *)
(***************************************************************************)
EXTENDS WebSite

Rows == {feed[i] : i \in DOMAIN feed}
IntentRows == {r \in Rows : r.kind = "intent"}
ErrorRows == {r \in Rows : r.kind = "error"}

EthRaw == [tx : EthTx, sig : EthTx]

\* The rows, the calls under way and the wallet have the shapes that page.tsx
\* declares for them, and every press that is being served disables the button.
WebTypeOK ==
    /\ view \in {"sign", "dashboard", "activity"}
    /\ running = (attempt # NoAttempt)
    /\ Len(feed) <= MaxFeed
    /\ \A r \in IntentRows :
           /\ r.chain \in ChainKeys /\ r.text \in Texts /\ r.request \in Addresses
           /\ r.ethRaw \in EthRaw \cup {NoRaw}
           /\ r.ethSent \in BOOLEAN /\ r.ethErr \in BOOLEAN
    /\ \A r \in ErrorRows : r.about \in Addresses \cup {0}
    /\ wallet \in Wallets \cup {NoWallet}
    /\ attempt # NoAttempt =>
           /\ attempt.stage \in Stages
           /\ attempt.tx \in EthTx \cup {NoTx}
    /\ \A p \in polls : p.request \in Addresses /\ p.left \in 1..MaxPolls
    /\ \A s \in sends : s.raw \in EthRaw
    /\ budget \in [Acts -> Nat]
    /\ page \in {"app", "landing"}
    /\ login \in Wallets \cup {NoWallet} /\ openFaq \in faqs \cup {NoQuestion}
    /\ scene \in {"poster", "waiting", "drawn"}
    /\ t \in 0..(PERIOD - 1) /\ sized \subseteq Chips /\ shown \in 0..CountTo

\* The transaction pays whom the row names, and what it names up to the two
\* roundings.
Transfers(tx, text) ==
    /\ tx.to = text.dest
    /\ 2 * (tx.value - text.amount) <= EtherGrain + WeiGrain
    /\ 2 * (text.amount - tx.value) <= EtherGrain + WeiGrain

\* What the signature of a row is of: the Ethereum transfer that the request
\* names, or the intent as the row words it.
AsksForRow(r, message) ==
    IF r.chain = "ethereum" THEN message \in EthTx /\ Transfers(message, r.text)
    ELSE message = [intent |-> r.text, chain |-> r.chain]

\* The signature a row reveals (page.tsx, the poll) is the one recorded for the
\* request the row posted, and that request asks for what the row shows,
\* however many requests are polled and whichever order they are signed in.
RevealedIsOwn ==
    \A i \in DOMAIN feed :
        FeedView(feed)[i].status = "signed" =>
            LET r == requests[feed[i].request]
            IN  /\ r # NoAccount
                /\ feed[i].threshSig = r.aggregate_sig
                /\ AsksForRow(feed[i], r.message_hash)

\* Nothing is offered for broadcast, or under way to the Ethereum node, that
\* the group did not sign: a row's transaction pays what the row shows, and is
\* signed under its own digest, although the chain may hold any 64 bytes.  A
\* row said to be sent is one the node took; two intents that drew the same
\* nonce are not both said to be sent.
BroadcastableIsValid ==
    /\ \A r \in IntentRows :
           r.ethRaw # NoRaw => /\ r.ethRaw.sig = ethSighash(r.ethRaw.tx)
                               /\ Transfers(r.ethRaw.tx, r.text)
    /\ \A s \in sends : s.raw.sig = ethSighash(s.raw.tx)
    /\ \A r \in IntentRows : r.ethSent => r.ethRaw \in ethTxs
    /\ \A r1, r2 \in IntentRows :
           (r1.ethSent /\ r2.ethSent /\ r1.id # r2.id)
               => r1.ethRaw.tx.nonce # r2.ethRaw.tx.nonce

\* Every request listed on the activity page was posted by the wallet that the
\* header's button names, although lists asked for under another wallet may
\* still be on their way.
ActivityIsOwn ==
    view = "activity" =>
        LET items == ActivityView(wallet, activity).items
        IN  \A i \in DOMAIN items :
                requests[items[i].request] # NoAccount =>
                    requests[items[i].request].requester = ConnectButton(wallet)

\* The dashboard's count of settled requests does not go back while a page is
\* open: a recorded signature stays, and a scan overtaken by a younger one is
\* ignored.
DashMovesForward ==
    [][dash # NotLoaded /\ dash' # NotLoaded =>
           DashboardView(dash', proto').settled >= DashboardView(dash, proto).settled]_siteVars

\* Once a row shows a signature, a transaction or its hash at the node, no
\* later answer takes it back, an error of a second broadcast included.
RowsKeepResults ==
    [][\A i \in DOMAIN feed, j \in DOMAIN feed' :
        (feed[i].id = feed'[j].id /\ feed[i].kind = "intent") =>
            /\ feed[i].threshSig # Zero => feed'[j].threshSig = feed[i].threshSig
            /\ feed[i].ethRaw # NoRaw => feed'[j].ethRaw = feed[i].ethRaw
            /\ feed[i].ethSent => feed'[j].ethSent]_siteVars

SignedOnChain(a) == requests[a] # NoAccount /\ requests[a].aggregate_sig # Zero

RowOf(a) == {r \in IntentRows : r.request = a}

\* A poll with more turns left than reads can still fail reveals a recorded
\* signature, unless the row is cut from the feed or the tab reloaded.
SignedIsRevealed ==
    \A a \in Addresses :
        (\E p \in polls : p.request = a /\ p.left > budget.faults /\ SignedOnChain(a))
            ~> (\A r \in RowOf(a) : r.threshSig # Zero)

\* From the wallet's signature on, a press is served to its end and the button
\* comes back, whatever fails on the way.
AttemptsEnd ==
    (In("send") \/ In("confirm") \/ In("reread")) ~> ~running

\* "sockets glow when their chip is docked" (HeroScene.tsx:128): a chip has its
\* size over a filled socket, at whatever times the frames come, unless one
\* frame of the period took longer than a docking.
SocketsHoldChips ==
    (scene = "drawn" /\ ~stalled) => \A i \in Chips : Filled(i, t) => i \in sized
=============================================================================
