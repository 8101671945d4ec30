------------------------------ MODULE WebView ------------------------------
(***************************************************************************)
(* What the product page, page.tsx, shows for a given state, and which of  *)
(* its controls can be used: one operator per part of the rendered tree.   *)
(* Styles, icons, links and wording are left out; where the text differs   *)
(* with the state, it is named.                                            *)
(***************************************************************************)
EXTENDS DistinClient, EthTransfer

CONSTANTS
    NotLoaded, NoRaw,
    ChainKeys       \* the chains offered, of those of the table CHAINS

\* CHAINS: the scheme and target of each chain.
CHAINS ==
    [bitcoin |-> [sig |-> "Gg20Secp256k1", vm |-> "Bitcoin"],
     ethereum |-> [sig |-> "Gg20Secp256k1", vm |-> "Evm"],
     tron |-> [sig |-> "Gg20Secp256k1", vm |-> "Tron"],
     cosmos |-> [sig |-> "Gg20Secp256k1", vm |-> "Cosmos"],
     aptos |-> [sig |-> "FrostEd25519", vm |-> "Svm"]]

ASSUME ChainKeysAssumption == ChainKeys \subseteq DOMAIN CHAINS

Ready(proto) ==
    /\ proto # NotLoaded
    /\ proto.initialized
    /\ proto.operatorCount > 0

\* Math.round(100 n / d), 0 without a denominator.
Percent(n, d) == IF d = 0 THEN 0 ELSE (200 * n + d) \div (2 * d)

\* It is the nearest whole percentage, and two shares of one total show as 100
\* together, or as 101 where both end in a half.
ASSUME PercentRounds ==
    \A d \in 1..16 : \A n \in 0..d :
        LET p == Percent(n, d)
        IN  /\ \A q \in 0..100 : (p * d - 100 * n) * (p * d - 100 * n)
                                    <= (q * d - 100 * n) * (q * d - 100 * n)
            /\ p + Percent(d - n, d) \in {100, 101}

\* The rail: which page is marked, and the protocol's status.
Sidebar(view, proto) ==
    [active |-> view,
     live |-> Ready(proto),
     operators |-> IF proto = NotLoaded THEN NotLoaded ELSE proto.operatorCount,
     requests |-> IF proto = NotLoaded THEN NotLoaded ELSE proto.requestNonce]

\* The button in the header.
ConnectButton(wallet) ==
    IF wallet = NoWallet THEN "Connect Wallet" ELSE wallet

\* The figures, the scheme split, the bars and the settlement rate.
DashboardView(dash, proto) ==
    LET got == dash # NotLoaded
        f == IF got THEN dash.frost ELSE 0
        g == IF got THEN dash.gg20 ELSE 0
        bars == IF got THEN dash.byVm ELSE [vm \in TargetVm |-> 0]
        longest == CHOOSE n \in {bars[vm] : vm \in TargetVm} \cup {1} :
                       \A vm \in TargetVm : n >= bars[vm] /\ n >= 1
    IN  [totalRequests |-> IF got THEN dash.totalRequests ELSE NotLoaded,
         settled |-> IF got THEN dash.settled ELSE NotLoaded,
         operators |-> IF proto = NotLoaded THEN NotLoaded ELSE proto.operatorCount,
         bondedWeight |-> IF proto = NotLoaded THEN NotLoaded ELSE proto.totalBonded,
         total |-> f + g,
         frostShare |-> Percent(f, f + g),
         gg20Share |-> Percent(g, f + g),
         barWidth |-> [vm \in TargetVm |-> (100 * bars[vm]) \div longest],
         settlePct |-> IF got THEN Percent(dash.settled, dash.totalRequests) ELSE 0]

\* The wallet's history: a message instead of the list, or the list, each
\* item with its badge.
ActivityView(wallet, activity) ==
    LET Badge(a) == IF a.signed THEN "Signed" ELSE IF a.expired THEN "Expired"
                    ELSE "Pending"
        Only(msg) == [message |-> msg, items |-> <<>>]
    IN  IF wallet = NoWallet THEN Only("Connect your wallet")
        ELSE IF activity = NotLoaded THEN Only("Loading")
        ELSE IF activity = <<>> THEN Only("No signing requests yet")
        ELSE [message |-> "",
              items |-> [i \in DOMAIN activity |->
                            [request |-> activity[i].request,
                             badge |-> Badge(activity[i]),
                             signature |-> activity[i].signature]]]

\* The form: the details, the warning under them and the action button.
SignForm(proto, chain, running, wallet) ==
    [signedBy |-> IF proto = NotLoaded THEN 0 ELSE proto.operatorCount,
     scheme |-> CHAINS[chain].sig,
     warning |->
        IF proto = NotLoaded \/ Ready(proto) THEN ""
        ELSE IF proto.initialized THEN "No active operators bonded yet"
        ELSE "Protocol not initialized",
     disabled |-> running,
     label |-> IF running THEN "Posting"
               ELSE IF wallet # NoWallet THEN "Request" ELSE "Connect"]

\* One row of the feed.
RowView(r) ==
    IF r.kind = "error"
    THEN [title |-> "Rejected", status |-> "", broadcastButton |-> FALSE,
          sentLink |-> FALSE, warning |-> TRUE]
    ELSE [title |-> "Intent posted",
          status |-> IF r.threshSig # Zero THEN "signed" ELSE "awaiting",
          broadcastButton |-> r.ethRaw # NoRaw /\ ~r.ethSent,
          sentLink |-> r.ethSent,
          warning |-> r.ethErr]

FeedView(feed) == [i \in DOMAIN feed |-> RowView(feed[i])]
=============================================================================
