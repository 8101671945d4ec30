----------------------------- MODULE WebProofs -----------------------------
(***************************************************************************)
(* Proofs about the site, for every number of wallets, requests, rows and  *)
(* polls, every bound and every time between frames.                       *)
(***************************************************************************)
EXTENDS WebProperties, TLAPS, SequenceTheorems, FiniteSetTheorems

-----------------------------------------------------------------------------
\* The hero scene.

\* A chip whose docking has begun has its size until the impact, unless a frame
\* took too long.
HeroInv ==
    /\ t \in 0..(PERIOD - 1)
    /\ stalled \in BOOLEAN
    /\ ~stalled => \A i \in Chips : (DockStart(i) <= t /\ t < IMPACT) => i \in sized

\* A frame keeps it: one that comes within a docking's time of the last finds
\* every chip either docking, or docked and sized before.
LEMMA FrameKeepsHero ==
    ASSUME NEW gap \in Nat \ {0}, HeroInv, Frame(gap)
    PROVE  HeroInv'
<1> DEFINE now == (t + gap) % PERIOD
<1> USE DEF PERIOD, DockDur, IMPACT
<1>1. now \in 0..249 /\ t' = now /\ stalled' \in BOOLEAN
  BY DEF HeroInv, Frame
<1>2. ASSUME ~stalled', NEW i \in Chips, DockStart(i) <= now, now < IMPACT
      PROVE  SizedAt(i, now)
  <2>1. gap <= 35
    <3>1. ~(gap > DockDur) BY <1>2, Zenon DEF Frame
    <3> QED BY <3>1
  <2>2. DockStart(i) \in Nat /\ DockStart(i) <= 87 /\ DockStart(i) >= 15
    BY <1>2 DEF DockStart, Chips, N
  <2>3. CASE t + gap >= 250
    <3>1. now = t + gap - 250 BY <2>1, <2>3 DEF HeroInv
    <3>2. now < DockStart(i) + DockDur BY <3>1, <2>1, <2>2 DEF HeroInv
    <3> QED BY <1>2, <3>2, <2>2, <1>1 DEF SizedAt
  <2>4. CASE t + gap < 250
    <3>1. now = t + gap BY <2>4 DEF HeroInv
    <3>2. ~stalled BY <1>2, <2>4 DEF Frame, HeroInv
    <3>3. CASE now < DockStart(i) + DockDur BY <1>2, <3>3, <2>2, <1>1 DEF SizedAt
    <3>4. CASE now >= DockStart(i) + DockDur
      <4>1. DockStart(i) <= t /\ t < IMPACT BY <3>1, <3>4, <2>1, <2>2, <1>2 DEF HeroInv
      <4>2. i \in sized BY <4>1, <3>2, <1>2 DEF HeroInv
      <4> QED BY <4>2, <1>2, <3>4, <2>2, <1>1 DEF SizedAt
    <3> QED BY <3>3, <3>4, <2>2, <1>1
  <2> QED BY <2>3, <2>4 DEF HeroInv
<1>3. ~stalled' => \A i \in Chips : (DockStart(i) <= t' /\ t' < IMPACT) => i \in sized'
  BY <1>1, <1>2 DEF Frame
<1> QED BY <1>1, <1>3 DEF HeroInv, Frame

\* No chip docks from the start of the period on.
LEMMA NoneDocksAtStart == \A i \in Chips : ~(DockStart(i) <= 0)
BY DEF DockStart, Chips, N

\* Only frames and the mounting of the scene touch it.
LEMMA HeroStep ==
    ASSUME HeroInv, [SiteNext]_siteVars
    PROVE  HeroInv'
<1> USE DEF siteVars, landingVars, heroVars, restOfPage
<1>0. CASE UNCHANGED heroVars
  BY <1>0 DEF HeroInv
<1>1. CASE HeroReset
  <2>1. t' \in 0..(PERIOD - 1) BY <1>1 DEF HeroReset, PERIOD
  <2>2. stalled' \in BOOLEAN BY <1>1 DEF HeroReset
  <2>3. \A i \in Chips : ~(DockStart(i) <= t') BY <1>1, NoneDocksAtStart DEF HeroReset
  <2> QED BY <2>1, <2>2, <2>3 DEF HeroInv
<1>2. ASSUME NEW gap \in FrameGaps, SceneFrame(gap) PROVE HeroInv'
  BY <1>2, FrameGapsAssumption, FrameKeepsHero DEF SceneFrame
<1>3. CASE OnLanding
  BY <1>3, <1>0, <1>2 DEF OnLanding, connectWallet, LoginAnswers, LoginHeard, SceneMounts, Scroll, FaqClick
<1>4. CASE CounterStep
  BY <1>4, <1>0 DEF CounterStep, CounterRuns
<1>5. CASE ToLanding \/ ToApp
  BY <1>5, <1>1 DEF ToLanding, ToApp, LandingLoad, LandingLeave
<1> QED BY <1>0, <1>3, <1>4, <1>5 DEF SiteNext

LEMMA HeroStart == SiteInit => HeroInv
<1>1. SiteInit => t = 0 /\ stalled \in BOOLEAN
  BY DEF SiteInit, LandingBlank, HeroInit
<1>2. SiteInit => \A i \in Chips : ~(DockStart(i) <= t)
  BY NoneDocksAtStart DEF SiteInit, LandingBlank, HeroInit
<1> QED BY <1>1, <1>2 DEF HeroInv, PERIOD

\* A chip over a filled socket has its size.
THEOREM SocketsAreFilledByChips == SiteSpec => []SocketsHoldChips
<1>1. SiteInit => HeroInv BY HeroStart
<1>2. HeroInv /\ [SiteNext]_siteVars => HeroInv'
  BY HeroStep
<1>3. HeroInv => SocketsHoldChips
  BY DEF HeroInv, SocketsHoldChips, Filled, DockStart, DockDur, Chips, N, PERIOD
<1> QED BY <1>1, <1>2, <1>3, PTL DEF SiteSpec

-----------------------------------------------------------------------------
\* The wallet.

\* What the two pages show, and are about to show, is an account or none.
WalletInv ==
    /\ provider \in [connected : BOOLEAN, account : Wallets]
    /\ page \in {"app", "landing"}
    /\ wallet \in Wallets \cup {NoWallet} /\ login \in Wallets \cup {NoWallet}
    /\ walletCalls \in Seq(WalletCalls) /\ loginCalls \in Seq(WalletCalls)

LEMMA WithoutCallIsCalls ==
    ASSUME NEW calls \in Seq(WalletCalls), NEW i \in DOMAIN calls
    PROVE  WithoutCall(calls, i) \in Seq(WalletCalls)
<1>1. \A j \in 1..Len(calls) : calls[j] \in WalletCalls BY ElementOfSeq
<1>2. Len(calls) \in Nat /\ i \in 1..Len(calls) BY LenProperties
<1>3. SubSeq(calls, 1, i - 1) \in Seq(WalletCalls) BY <1>1, <1>2, SubSeqProperties
<1>4. SubSeq(calls, i + 1, Len(calls)) \in Seq(WalletCalls)
  BY <1>1, <1>2, SubSeqProperties
<1> QED BY <1>3, <1>4, ConcatProperties DEF WithoutCall

LEMMA NewCallIsCall ==
    ASSUME NEW calls \in Seq(WalletCalls), NEW w
    PROVE  Append(calls, CallFor(w)) \in Seq(WalletCalls)
<1>1. CallFor(w) \in WalletCalls BY DEF CallFor, WalletCalls
<1> QED BY <1>1, AppendProperties

\* An answer leaves calls, whose wallets are accounts or none.
LEMMA AnswerIsSafe ==
    ASSUME NEW calls \in Seq(WalletCalls), NEW i \in DOMAIN calls,
           NEW next, Answers(calls, i, next),
           provider \in [connected : BOOLEAN, account : Wallets]
    PROVE  /\ provider' \in [connected : BOOLEAN, account : Wallets]
           /\ next \in Seq(WalletCalls)
<1>1. i \in 1..Len(calls) /\ calls[i] \in WalletCalls BY LenProperties, ElementOfSeq
<1>2. ASSUME NEW w \in Wallets \cup {NoWallet}
      PROVE  [calls EXCEPT ![i].shows = w] \in Seq(WalletCalls)
  <2>1. [calls[i] EXCEPT !.shows = w] \in WalletCalls BY <1>1 DEF WalletCalls
  <2> DEFINE call == [calls[i] EXCEPT !.shows = w]
  <2>2. [calls EXCEPT ![i].shows = w] = [calls EXCEPT ![i] = call] OBVIOUS
  <2> HIDE DEF call
  <2> QED BY <1>1, <2>1, <2>2, ExceptSeq DEF call
<1>3. provider.account \in Wallets OBVIOUS
<1>4. CASE next = WithoutCall(calls, i) /\ UNCHANGED provider
  BY <1>4, WithoutCallIsCalls
<1>5. CASE \E w \in Wallets \cup {NoWallet} :
               /\ next = [calls EXCEPT ![i].shows = w]
               /\ \/ provider' = [provider EXCEPT !.connected = FALSE]
                  \/ provider' = [provider EXCEPT !.connected = TRUE]
                  \/ UNCHANGED provider
  <2>1. next \in Seq(WalletCalls) BY <1>2, <1>5
  <2> QED BY <1>5, <2>1
<1> QED BY <1>3, <1>4, <1>5 DEF Answers

\* The page shows what a call that is answered says.
LEMMA HeardIsWallet ==
    ASSUME NEW calls \in Seq(WalletCalls), NEW i \in DOMAIN calls,
           calls[i].shows # Unanswered
    PROVE  calls[i].shows \in Wallets \cup {NoWallet}
<1>1. calls[i] \in WalletCalls BY ElementOfSeq, LenProperties
<1> QED BY <1>1 DEF WalletCalls

\* What the product page does to its wallet and the extension.
LEMMA AppTouchesWallet ==
    ASSUME Next
    PROVE  \/ /\ UNCHANGED <<wallet, provider>>
              /\ UNCHANGED walletCalls \/ connect
           \/ WalletAnswers \/ WalletHeard
           \/ WalletSwitches
           \/ Reload
<1> USE DEF pageVars, RunKeeps, PollKeeps, BroadcastKeeps
<1>1. CASE Presses
  BY <1>1 DEF Presses, ShowView, ConnectClick, RunClick, BroadcastClick
<1>2. CASE Reads
  BY <1>2 DEF Reads, ProtoTick, ActivityTick, ProtoArrives, ProtoFails, DashArrives,
              DashFails, ActivityArrives, ActivityFails
<1>3. CASE WalletSigns \/ WalletRefuses
  BY <1>3 DEF WalletSigns, WalletRefuses, Rejected
<1>4. CASE AttemptStep
  BY <1>4 DEF AttemptStep, EthNonceArrives, SendTx, PreflightFails, Confirmed,
              ConfirmExpires, Reread, Rejected
<1>5. CASE AttemptFault
  BY <1>5 DEF AttemptFault, EthNonceFails, SendAnswerLost, ConfirmFails, RereadFails,
              Rejected
<1>6. CASE \E p \in polls : PollTick(p) \/ PollFails(p)
  BY <1>6 DEF PollTick, PollFails
<1>7. CASE \E s \in sends : BroadcastAnswers(s) \/ BroadcastAnswerLost(s)
  BY <1>7 DEF BroadcastAnswers, BroadcastAnswerLost
<1>8. CASE \E a \in Addresses : OperatorsSign(a) \/ TxResolves(a)
  BY <1>8 DEF OperatorsSign, TxResolves, callVars
<1>9. CASE Elsewhere \/ AccountUsedElsewhere
  BY <1>9 DEF Elsewhere, AccountUsedElsewhere, callVars
<1> QED BY <1>1, <1>2, <1>3, <1>4, <1>5, <1>6, <1>7, <1>8, <1>9 DEF Next

LEMMA WalletStep ==
    ASSUME WalletInv, [SiteNext]_siteVars
    PROVE  WalletInv'
<1> USE DEF WalletInv, siteVars, landingVars, restOfPage
<1>0. CASE UNCHANGED <<wallet, provider, login, page, walletCalls, loginCalls>>
  BY <1>0
<1>1. CASE page = "app" /\ Next /\ UNCHANGED <<landingVars, page>>
  <2>1. CASE UNCHANGED <<wallet, provider, walletCalls>> BY <1>1, <2>1
  <2>2. CASE connect /\ UNCHANGED <<wallet, provider>>
    BY <1>1, <2>2, NewCallIsCall DEF connect
  <2>3. CASE WalletAnswers
    BY <1>1, <2>3, AnswerIsSafe DEF WalletAnswers, pageVars
  <2>4. CASE WalletHeard
    BY <1>1, <2>4, HeardIsWallet, WithoutCallIsCalls DEF WalletHeard, SetWallet
  <2>5. CASE WalletSwitches
    BY <1>1, <2>5 DEF WalletSwitches, ProviderChanges, pageVars, callVars
  <2>6. CASE Reload
    BY <1>1, <2>6, EmptySeq DEF Reload, Open, Load, InitialWallet
  <2> QED BY <1>1, <2>1, <2>2, <2>3, <2>4, <2>5, <2>6, AppTouchesWallet
<1>2. CASE page = "landing" /\ OnLanding /\ UNCHANGED <<appVars, page>>
  <2> USE DEF appVars, pageVars, callVars
  <2>1. CASE LoginAnswers
    BY <1>2, <2>1, AnswerIsSafe DEF LoginAnswers
  <2>2. CASE LoginHeard
    BY <1>2, <2>2, HeardIsWallet, WithoutCallIsCalls DEF LoginHeard
  <2>3. CASE connectWallet
    BY <1>2, <2>3, NewCallIsCall DEF connectWallet
  <2>4. CASE SceneMounts \/ Scroll \/ \E i \in faqs : FaqClick(i)
    BY <1>2, <2>4 DEF SceneMounts, Scroll, FaqClick
  <2>5. CASE \E gap \in FrameGaps : SceneFrame(gap)
    BY <1>2, <2>5 DEF SceneFrame
  <2> QED BY <1>2, <2>1, <2>2, <2>3, <2>4, <2>5 DEF OnLanding
<1>3. CASE page = "landing" /\ Meanwhile /\ UNCHANGED <<landingVars, page>>
  BY <1>0, <1>3 DEF Meanwhile, OperatorsSign, TxResolves, pageVars, callVars
<1>4. CASE page = "landing" /\ WalletSwitches /\ UNCHANGED <<landingVars, page>>
  BY <1>4 DEF WalletSwitches, ProviderChanges, pageVars, callVars
<1>5. CASE CounterStep
  BY <1>0, <1>5 DEF CounterStep, CounterRuns, appVars, pageVars, callVars
<1>6. CASE ToLanding
  BY <1>6, EmptySeq DEF ToLanding, Load, LandingLoad, InitialWallet
<1>7. CASE ToApp
  BY <1>7, EmptySeq DEF ToApp, Open, Load, LandingLeave, InitialWallet
<1>8. CASE UNCHANGED siteVars
  BY <1>0, <1>8 DEF vars, pageVars, callVars
<1> QED BY <1>1, <1>2, <1>3, <1>4, <1>5, <1>6, <1>7, <1>8 DEF SiteNext

LEMMA WalletInit == SiteInit => WalletInv
BY EmptySeq DEF SiteInit, Init, ProviderInit, LandingBlank, InitialWallet, WalletInv

-----------------------------------------------------------------------------
\* The chain, as far as the page relies on it.

\* An account that exists was created by its address's transaction.
ChainInv ==
    /\ network = [a \in Addresses |-> [fate |-> network[a].fate, tx |-> network[a].tx]]
    /\ requests = [a \in Addresses |-> requests[a]]
    /\ \A a \in Addresses : requests[a] # NoAccount =>
           /\ requests[a] = [requester |-> requests[a].requester,
                             request_id |-> requests[a].request_id,
                             scheme |-> requests[a].scheme,
                             target_vm |-> requests[a].target_vm,
                             message_hash |-> requests[a].message_hash,
                             expiry_slot |-> requests[a].expiry_slot,
                             aggregate_sig |-> requests[a].aggregate_sig]
           /\ network[a].fate = "created"
           /\ requests[a].message_hash = network[a].tx.message_hash

\* What an address was used for, and what was signed there, stays.
ChainGrows ==
    \A a \in Addresses :
        /\ network[a].fate # "unused" => /\ network'[a].fate # "unused"
                                         /\ network'[a].tx = network[a].tx
        /\ SignedOnChain(a) => requests'[a] = requests[a]

LEMMA ForwardKeeps ==
    ASSUME ChainInv, NEW a \in Addresses, NEW tx, Forward(a, tx)
    PROVE  /\ ChainInv' /\ ChainGrows
           /\ network'[a].fate # "unused" /\ network'[a].tx = tx
<1>1. requests[a] = NoAccount BY DEF ChainInv, Forward, Fresh
<1> QED BY <1>1 DEF ChainInv, ChainGrows, Forward, Fresh

LEMMA CreateKeeps ==
    ASSUME ChainInv, NEW a \in Addresses, NEW tx, Create(a, tx),
           Fresh(a) \/ (network[a].fate = "flying" /\ network[a].tx = tx)
    PROVE  ChainInv' /\ ChainGrows
<1>1. requests[a] = NoAccount BY DEF ChainInv, Fresh
<1>2. \A b \in Addresses \ {a} : requests'[b] = requests[b] /\ network'[b] = network[b]
  BY DEF ChainInv, Create
<1>3. requests'[a] = NewRequest(tx) /\ network'[a] = [fate |-> "created", tx |-> tx]
  BY DEF ChainInv, Create
<1>4. /\ requests' = [b \in Addresses |-> requests'[b]]
      /\ network' = [b \in Addresses |-> [fate |-> network'[b].fate, tx |-> network'[b].tx]]
  BY <1>2, <1>3 DEF ChainInv, Create
<1> QED BY <1>1, <1>2, <1>3, <1>4 DEF ChainInv, ChainGrows, NewRequest, Fresh, SignedOnChain

LEMMA RecordKeeps ==
    ASSUME ChainInv, NEW a \in Addresses, NEW sig, OperatorsRecord(a, sig)
    PROVE  ChainInv' /\ ChainGrows
<1>1. \A b \in Addresses \ {a} : requests'[b] = requests[b]
  BY DEF ChainInv, OperatorsRecord
<1>2. requests'[a] = [requests[a] EXCEPT !.aggregate_sig = sig]
  BY DEF ChainInv, OperatorsRecord
<1>3. /\ requests' = [b \in Addresses |-> requests'[b]]
      /\ UNCHANGED network
  BY <1>1, <1>2 DEF ChainInv, OperatorsRecord
<1> QED BY <1>1, <1>2, <1>3 DEF ChainInv, ChainGrows, OperatorsRecord, SignedOnChain

LEMMA CloseKeeps ==
    ASSUME ChainInv, NEW a \in Addresses, CloseRequest(a)
    PROVE  ChainInv' /\ ChainGrows
BY DEF ChainInv, ChainGrows, CloseRequest, SignedOnChain

LEMMA ResolveKeeps ==
    ASSUME ChainInv, NEW a \in Addresses, TxLands(a) \/ TxExpires(a)
    PROVE  ChainInv' /\ ChainGrows
<1>1. CASE ProgramAccepts /\ Create(a, network[a].tx) /\ network[a].fate = "flying"
  BY <1>1, CreateKeeps
<1>2. CASE \E f : network' = [network EXCEPT ![a].fate = f] /\ f # "unused"
                  /\ network[a].fate = "flying" /\ UNCHANGED requests
  BY <1>2 DEF ChainInv, ChainGrows
<1> QED BY <1>1, <1>2 DEF TxLands, TxExpires

LEMMA ElsewhereKeeps ==
    ASSUME ChainInv, Elsewhere
    PROVE  ChainInv' /\ ChainGrows
<1>1. CASE \E a \in Addresses, w \in Wallets, chain \in ChainKeys, text \in Texts :
               OthersPost(a, w, OthersTx(w, chain, text))
  BY <1>1, CreateKeeps DEF OthersPost
<1>2. CASE UNCHANGED <<requests, network>>
  BY <1>2 DEF ChainInv, ChainGrows
<1>3. CASE SetChanges \/ SlotPasses
  BY <1>2, <1>3 DEF SetChanges, SlotPasses
<1> QED BY <1>1, <1>3, RecordKeeps, CloseKeeps DEF Elsewhere

-----------------------------------------------------------------------------
\* The feed.

\* Rows are told apart by their ids, which only grow.
FeedInv ==
    /\ idRef \in Nat
    /\ Len(feed) \in Nat /\ Len(feed) <= MaxFeed /\ DOMAIN feed = 1..Len(feed)
    /\ \A i \in DOMAIN feed :
           /\ feed[i].id \in Nat /\ feed[i].id < idRef
           /\ feed[i].kind \in {"intent", "error"}
    /\ \A i, j \in DOMAIN feed : feed[i].id = feed[j].id => i = j

LEMMA LenOfFunction ==
    ASSUME NEW n \in Nat, NEW f, f = [i \in 1..n |-> f[i]]
    PROVE  Len(f) = n /\ DOMAIN f = 1..n
<1>1. f \in [1..n -> {f[i] : i \in 1..n}] BY Zenon
<1>2. f \in Seq({f[i] : i \in 1..n}) BY <1>1, SeqDef
<1> QED BY <1>2, LenProperties

\* Pushing a row moves the others down.
LEMMA PushKeepsFeed ==
    ASSUME FeedInv, NEW row, pushRow(row), row.id = idRef, row.kind \in {"intent", "error"}
    PROVE  /\ FeedInv' /\ 1 \in DOMAIN feed' /\ feed'[1] = row
           /\ idRef' = idRef + 1
           /\ \A j \in DOMAIN feed' : j # 1 => j - 1 \in DOMAIN feed /\ feed'[j] = feed[j - 1]
<1> DEFINE m == IF Len(feed) < MaxFeed THEN Len(feed) + 1 ELSE MaxFeed
<1>1. m \in Nat /\ 1 <= m /\ m <= MaxFeed /\ m <= Len(feed) + 1
  BY WebAssumption DEF FeedInv
<1>2. feed' = [i \in 1..m |-> IF i = 1 THEN row ELSE feed[i - 1]] /\ idRef' = idRef + 1
  BY DEF pushRow
<1> HIDE DEF m
<1>3. feed' = [i \in 1..m |-> feed'[i]] BY <1>2
<1>4. Len(feed') = m /\ DOMAIN feed' = 1..m BY <1>1, <1>3, LenOfFunction
<1>5. \A j \in DOMAIN feed' : j # 1 => j - 1 \in DOMAIN feed /\ feed'[j] = feed[j - 1]
  BY <1>1, <1>2, <1>4 DEF FeedInv
<1>6. 1 \in DOMAIN feed' /\ feed'[1] = row BY <1>1, <1>2, <1>4
<1>7. \A j \in DOMAIN feed' : /\ feed'[j].id \in Nat /\ feed'[j].id < idRef'
                              /\ feed'[j].kind \in {"intent", "error"}
                              /\ j # 1 => feed'[j].id < idRef
  BY <1>2, <1>5, <1>6 DEF FeedInv
<1>8. \A i, j \in DOMAIN feed' : feed'[i].id = feed'[j].id => i = j
  <2> SUFFICES ASSUME NEW i \in DOMAIN feed', NEW j \in DOMAIN feed',
                      feed'[i].id = feed'[j].id
               PROVE  i = j
    OBVIOUS
  <2>1. CASE i = 1 \/ j = 1 BY <2>1, <1>6, <1>7 DEF FeedInv
  <2>2. CASE i # 1 /\ j # 1
    <3>1. i - 1 = j - 1 BY <2>2, <1>5 DEF FeedInv
    <3> QED BY <3>1, <1>4
  <2> QED BY <2>1, <2>2
<1> QED BY <1>1, <1>2, <1>4, <1>5, <1>6, <1>7, <1>8 DEF FeedInv

\* So does a patch that keeps ids and kinds; rows that it may change are intents.
LEMMA PatchKeepsFeed ==
    ASSUME FeedInv, UNCHANGED idRef, NEW id,
           feed' = [i \in DOMAIN feed |-> feed'[i]],
           \A i \in DOMAIN feed :
               \/ feed'[i] = feed[i]
               \/ IsRow(id, i) /\ feed'[i].id = id /\ feed'[i].kind = "intent"
    PROVE  /\ FeedInv' /\ DOMAIN feed' = DOMAIN feed
           /\ \A i \in DOMAIN feed : feed'[i].id = feed[i].id /\ feed'[i].kind = feed[i].kind
<1>1. Len(feed') = Len(feed) /\ DOMAIN feed' = 1..Len(feed)
  BY LenOfFunction DEF FeedInv
<1>2. \A i \in DOMAIN feed : feed'[i].id = feed[i].id /\ feed'[i].kind = feed[i].kind
  BY DEF IsRow
<1> QED BY <1>1, <1>2 DEF FeedInv

-----------------------------------------------------------------------------
\* Rows, the press under way, polls and broadcasts.  The operators take what
\* they speak about as arguments, so that a step's two ends can be compared.

\* The address's transaction asks for the signature of what was typed.
Asks(net, a, chain, text) ==
    LET message == net[a].tx.message_hash
    IN  /\ net[a].fate # "unused"
        /\ IF chain = "ethereum" THEN message \in EthTx /\ Transfers(message, text)
           ELSE message = [intent |-> text, chain |-> chain]

IsIntent(r) ==
    r \in [kind : {"intent"}, id : {r.id}, chain : ChainKeys, text : Texts,
           request : Addresses, threshSig : {r.threshSig}, ethRaw : EthRaw \cup {NoRaw},
           ethSent : BOOLEAN, ethErr : BOOLEAN]

RowOK(r, net, reqs, txs, nonce) ==
    /\ IsIntent(r)
    /\ Asks(net, r.request, r.chain, r.text)
    /\ r.threshSig # Zero => /\ reqs[r.request] # NoAccount
                             /\ reqs[r.request].aggregate_sig = r.threshSig
    /\ r.ethRaw # NoRaw => r.ethRaw.sig = r.ethRaw.tx /\ Transfers(r.ethRaw.tx, r.text)
    /\ r.ethSent => /\ r.ethRaw # NoRaw /\ r.ethRaw \in txs
                    /\ r.ethRaw.tx.nonce < nonce

\* A row that waits for the answer of a poll, or will.
Waits(r) == r.threshSig = Zero /\ r.ethRaw = NoRaw /\ r.ethSent = FALSE

EthInv == ethNonce \in 0..MaxEthNonce

RowsInv ==
    \A i \in DOMAIN feed :
        IF feed[i].kind = "intent"
        THEN RowOK(feed[i], network, requests, ethTxs, ethNonce)
        ELSE feed[i].about \in Addresses \cup {0}

NoncesInv ==
    \A i, j \in DOMAIN feed :
        /\ feed[i].kind = "intent" /\ feed[j].kind = "intent" /\ i # j
        /\ feed[i].ethSent /\ feed[j].ethSent
        => feed[i].ethRaw.tx.nonce # feed[j].ethRaw.tx.nonce

\* The transaction is built once the nonce is there; the request is posted
\* before anybody waits for it.
AttemptOK(at, net) ==
    /\ at \in Attempts
    /\ at.tx # NoTx => Transfers(at.tx, at.text)
    /\ at.stage = "eth" => at.chain = "ethereum"
    /\ at.stage # "eth" => (at.chain = "ethereum" <=> at.tx # NoTx)
    /\ at.stage \in {"confirm", "reread"} =>
           at.request \in Addresses /\ Asks(net, at.request, at.chain, at.text)

\* A press that reads the protocol again has just pushed its row, not yet polled.
AttemptInv ==
    /\ attempt # NoAttempt => AttemptOK(attempt, network)
    /\ In("reread") =>
           /\ 1 \in DOMAIN feed /\ feed[1].kind = "intent" /\ feed[1].id = idRef - 1
           /\ feed[1].request = attempt.request /\ feed[1].chain = attempt.chain
           /\ feed[1].text = attempt.text
           /\ Waits(feed[1])
           /\ \A p \in polls : p.row # idRef - 1

PollFits(p, r) ==
    /\ r.request = p.request
    /\ p.tx # NoTx => Transfers(p.tx, r.text)
    /\ Waits(r)

\* One loop per row, and its row, unless it is cut, waits for it.
PollsInv ==
    /\ \A p \in polls :
           /\ p \in [row : Nat, request : Addresses, tx : EthTx \cup {NoTx},
                     left : 1..MaxPolls]
           /\ p.row < idRef
           /\ \A i \in DOMAIN feed : IsRow(p.row, i) => PollFits(p, feed[i])
    /\ \A p, q \in polls : p.row = q.row => p = q

\* What is under way to the Ethereum node is its row's transaction.
SendsInv ==
    \A s \in sends :
        /\ s \in [row : Nat, raw : EthRaw, call : 1..2]
        /\ s.raw.sig = s.raw.tx
        /\ s.row < idRef
        /\ s.raw # NoRaw
        /\ \A i \in DOMAIN feed : IsRow(s.row, i) => feed[i].ethRaw = s.raw

CoreInv ==
    /\ ChainInv /\ EthInv
    /\ FeedInv /\ RowsInv /\ NoncesInv
    /\ AttemptInv /\ PollsInv /\ SendsInv

EthGrows == ethTxs \subseteq ethTxs' /\ ethNonce <= ethNonce' /\ EthInv'

\* Neither chain takes back what a row shows.
LEMMA RowGrows ==
    ASSUME EthInv, ChainGrows, EthGrows,
           NEW r, RowOK(r, network, requests, ethTxs, ethNonce)
    PROVE  RowOK(r, network', requests', ethTxs', ethNonce')
<1>1. r.request \in Addresses BY DEF RowOK, IsIntent
<1>2. Asks(network', r.request, r.chain, r.text)
  BY <1>1 DEF RowOK, Asks, ChainGrows
<1>3. r.threshSig # Zero => /\ requests'[r.request] # NoAccount
                            /\ requests'[r.request].aggregate_sig = r.threshSig
  BY <1>1 DEF RowOK, ChainGrows, SignedOnChain
<1>4. r.ethSent => /\ r.ethRaw # NoRaw /\ r.ethRaw \in ethTxs'
                   /\ r.ethRaw.tx.nonce < ethNonce'
  <2>1. r.ethSent => r.ethRaw # NoRaw /\ r.ethRaw \in EthRaw /\ r.ethRaw \in ethTxs
                     /\ r.ethRaw.tx.nonce < ethNonce
    BY DEF RowOK, IsIntent
  <2>2. r.ethRaw \in EthRaw => r.ethRaw.tx.nonce \in Nat
    BY MaxEthNonceAssumption DEF EthRaw, EthTx
  <2> QED BY <2>1, <2>2, MaxEthNonceAssumption DEF EthGrows, EthInv
<1> QED BY <1>2, <1>3, <1>4 DEF RowOK

LEMMA AttemptGrows ==
    ASSUME NEW at, AttemptOK(at, network), ChainGrows
    PROVE  AttemptOK(at, network')
BY DEF AttemptOK, Asks, ChainGrows

\* A step that leaves the page's calls alone, or only moves the press on.
LEMMA AttemptMoves ==
    ASSUME CoreInv, ChainInv', ChainGrows, EthGrows, AttemptInv',
           UNCHANGED <<feed, idRef, polls, sends>>
    PROVE  CoreInv'
<1>1. RowsInv' BY RowGrows DEF CoreInv, RowsInv
<1>2. FeedInv' /\ NoncesInv' BY DEF CoreInv, FeedInv, NoncesInv
<1>3. PollsInv' /\ SendsInv' BY DEF CoreInv, PollsInv, SendsInv, IsRow
<1> QED BY <1>1, <1>2, <1>3 DEF CoreInv, EthGrows

LEMMA Quiet ==
    ASSUME CoreInv, ChainInv', ChainGrows, EthGrows,
           UNCHANGED <<feed, idRef, polls, sends, attempt>>
    PROVE  CoreInv'
<1>1. AttemptInv' BY AttemptGrows DEF CoreInv, AttemptInv, In
<1> QED BY <1>1, AttemptMoves

LEMMA ChainStays ==
    ASSUME ChainInv, UNCHANGED <<requests, network>>
    PROVE  ChainInv' /\ ChainGrows
BY DEF ChainInv, ChainGrows

LEMMA EthStays ==
    ASSUME EthInv, UNCHANGED ethVars
    PROVE  EthGrows
BY MaxEthNonceAssumption DEF EthInv, EthGrows, ethVars

-----------------------------------------------------------------------------
\* Steps that push a row.

\* A new row disturbs nothing that speaks of older ones.
LEMMA PushKeeps ==
    ASSUME CoreInv, ChainInv', ChainGrows, EthGrows, NEW row, pushRow(row),
           row.id = idRef, row.kind \in {"intent", "error"},
           IF row.kind = "intent"
           THEN RowOK(row, network', requests', ethTxs', ethNonce') /\ Waits(row)
           ELSE row.about \in Addresses \cup {0},
           UNCHANGED <<polls, sends>>, AttemptInv'
    PROVE  CoreInv'
<1>1. /\ FeedInv' /\ 1 \in DOMAIN feed' /\ feed'[1] = row /\ idRef' = idRef + 1
      /\ \A j \in DOMAIN feed' : j # 1 => j - 1 \in DOMAIN feed /\ feed'[j] = feed[j - 1]
  BY PushKeepsFeed DEF CoreInv
<1>2. RowsInv'
  <2> SUFFICES ASSUME NEW j \in DOMAIN feed'
               PROVE  IF feed'[j].kind = "intent"
                      THEN RowOK(feed'[j], network', requests', ethTxs', ethNonce')
                      ELSE feed'[j].about \in Addresses \cup {0}
    BY DEF RowsInv
  <2>1. CASE j = 1 BY <1>1, <2>1
  <2>2. CASE j # 1
    <3>1. j - 1 \in DOMAIN feed /\ feed'[j] = feed[j - 1] BY <1>1, <2>2
    <3> QED BY <3>1, RowGrows DEF CoreInv, RowsInv
  <2> QED BY <2>1, <2>2
<1>3. NoncesInv'
  <2> SUFFICES ASSUME NEW i \in DOMAIN feed', NEW j \in DOMAIN feed',
                      feed'[i].kind = "intent", feed'[j].kind = "intent", i # j,
                      feed'[i].ethSent, feed'[j].ethSent
               PROVE  feed'[i].ethRaw.tx.nonce # feed'[j].ethRaw.tx.nonce
    BY DEF NoncesInv
  <2>1. i # 1 /\ j # 1 BY <1>1 DEF Waits
  <2>2. i - 1 # j - 1 BY <1>1 DEF FeedInv
  <2> QED BY <1>1, <2>1, <2>2 DEF CoreInv, NoncesInv
<1>4. \A id, j : (id \in Nat /\ id < idRef /\ j \in DOMAIN feed' /\ feed'[j].id = id)
                    => j - 1 \in DOMAIN feed /\ feed'[j] = feed[j - 1]
  BY <1>1 DEF CoreInv, FeedInv
<1>5. PollsInv'
  <2>1. \A p \in polls : p.row \in Nat /\ p.row < idRef BY DEF CoreInv, PollsInv
  <2>2. \A p \in polls : p.row < idRef' BY <1>1, <2>1 DEF CoreInv, FeedInv
  <2>3. ASSUME NEW p \in polls, NEW j \in DOMAIN feed', IsRow(p.row, j)'
        PROVE  PollFits(p, feed'[j])
    <3>1. j - 1 \in DOMAIN feed /\ feed'[j] = feed[j - 1]
      BY <1>4, <2>1, <2>3 DEF IsRow
    <3> QED BY <3>1, <2>3 DEF CoreInv, PollsInv, IsRow
  <2> QED BY <2>2, <2>3 DEF CoreInv, PollsInv, IsRow
<1>6. SendsInv'
  <2>1. \A p \in sends : p.row \in Nat /\ p.row < idRef BY DEF CoreInv, SendsInv
  <2>2. \A p \in sends : p.row < idRef' BY <1>1, <2>1 DEF CoreInv, FeedInv
  <2>3. ASSUME NEW p \in sends, NEW j \in DOMAIN feed', IsRow(p.row, j)'
        PROVE  feed'[j].ethRaw = p.raw
    <3>1. j - 1 \in DOMAIN feed /\ feed'[j] = feed[j - 1]
      BY <1>4, <2>1, <2>3 DEF IsRow
    <3> QED BY <3>1, <2>3 DEF CoreInv, SendsInv, IsRow
  <2> QED BY <2>2, <2>3 DEF CoreInv, SendsInv, IsRow
<1> QED BY <1>1, <1>2, <1>3, <1>5, <1>6 DEF CoreInv, EthGrows

\* A press that fails ends in a row of its own.
LEMMA ErrorKeeps ==
    ASSUME CoreInv, ChainInv', ChainGrows, NEW about \in Addresses \cup {0},
           pushRow(ErrorRow(about)), attempt' = NoAttempt,
           UNCHANGED <<ethVars, polls, sends>>
    PROVE  CoreInv'
<1>1. AttemptInv' BY DEF AttemptInv, In
<1>2. EthGrows BY EthStays DEF CoreInv
<1>3. /\ ErrorRow(about).id = idRef /\ ErrorRow(about).kind = "error"
      /\ ErrorRow(about).about = about
  BY DEF ErrorRow
<1> QED BY <1>1, <1>2, <1>3, PushKeeps

LEMMA RejectedKeeps ==
    ASSUME CoreInv, ChainInv', ChainGrows, attempt # NoAttempt, Rejected
    PROVE  CoreInv'
<1>1. attempt.request \in Addresses \cup {0} BY DEF CoreInv, AttemptInv, AttemptOK, Attempts
<1> QED BY <1>1, ErrorKeeps DEF Rejected, RunKeeps

\* The row of a press that got through asks for what was typed.
LEMMA ConfirmedKeeps ==
    ASSUME CoreInv, Confirmed
    PROVE  CoreInv'
<1> DEFINE row == IntentRow(attempt)
<1>1. attempt \in Attempts /\ attempt # NoAttempt /\ attempt.stage = "confirm"
      /\ attempt.request \in Addresses
      /\ Asks(network, attempt.request, attempt.chain, attempt.text)
  BY DEF CoreInv, AttemptInv, AttemptOK, Confirmed, In
<1>2. ChainInv' /\ ChainGrows /\ EthGrows
  BY ChainStays, EthStays DEF Confirmed, chainVars, CoreInv
<1>3. RowOK(row, network, requests, ethTxs, ethNonce) /\ Waits(row)
      /\ row.id = idRef /\ row.kind = "intent"
  BY <1>1 DEF IntentRow, RowOK, Waits, IsIntent, Attempts
<1>4. UNCHANGED <<network, requests, ethTxs, ethNonce, polls, sends>> /\ pushRow(row)
  BY DEF Confirmed, chainVars, ethVars, RunKeeps
<1>5. attempt' = [attempt EXCEPT !.stage = "reread"] BY DEF Confirmed
<1>6. AttemptOK(attempt', network)
  BY <1>1, <1>5 DEF AttemptOK, Attempts, Stages, CoreInv, AttemptInv
<1>7. /\ 1 \in DOMAIN feed' /\ feed'[1] = row /\ idRef' = idRef + 1 /\ idRef \in Nat
  BY <1>3, <1>4, PushKeepsFeed DEF CoreInv, FeedInv
<1>8. \A p \in polls : p.row # idRef BY <1>7 DEF CoreInv, PollsInv
<1>9. AttemptInv'
  <2>1. idRef' - 1 = idRef BY <1>7
  <2>2. row.request = attempt'.request /\ row.chain = attempt'.chain
        /\ row.text = attempt'.text
    BY <1>1, <1>5 DEF IntentRow, Attempts
  <2> QED BY <1>3, <1>4, <1>6, <1>7, <1>8, <2>1, <2>2 DEF AttemptInv
<1> HIDE DEF row
<1> QED BY <1>2, <1>3, <1>4, <1>9, PushKeeps

-----------------------------------------------------------------------------
\* The press, step by step.

LEMMA RunClickKeeps ==
    ASSUME CoreInv, wallet \in Wallets \cup {NoWallet},
           NEW chain \in ChainKeys, NEW text \in Texts, RunClick(chain, text)
    PROVE  CoreInv'
<1>1. ChainInv' /\ ChainGrows /\ EthGrows /\ UNCHANGED <<polls, sends, ethVars>>
  BY ChainStays, EthStays DEF RunClick, chainVars, CoreInv
<1>2. CASE UNCHANGED <<feed, idRef, attempt>> BY <1>1, <1>2, Quiet
<1>3. CASE pushRow(ErrorRow(0)) /\ UNCHANGED attempt
  BY <1>1, <1>3, ErrorKeeps DEF RunClick
<1>4. CASE wallet # NoWallet /\ StartAttempt(chain, text) /\ UNCHANGED <<feed, idRef>>
  <2>1. AttemptOK(attempt', network')
    BY <1>4, NoTxAssumption DEF StartAttempt, AttemptOK, Attempts, Stages
  <2>2. ~In("reread")' BY <1>4 DEF In, StartAttempt
  <2>3. AttemptInv' BY <2>1, <2>2 DEF AttemptInv
  <2> QED BY <1>1, <1>4, <2>3, AttemptMoves
<1> QED BY <1>2, <1>3, <1>4 DEF RunClick

\* The nearest multiple of a grain is within half a grain.
LEMMA RoundedIsNear ==
    ASSUME NEW a \in Nat, NEW g \in Nat \ {0}
    PROVE  /\ Rounded(a, g) \in Nat
           /\ 2 * (Rounded(a, g) - a) <= g
           /\ 2 * (a - Rounded(a, g)) <= g
<1> DEFINE q == (2 * a + g) \div (2 * g)
           p == q * g
<1>1. q \in Nat /\ q * (2 * g) <= 2 * a + g /\ 2 * a + g < (q + 1) * (2 * g)
  OBVIOUS
<1> HIDE DEF q
<1>2. p \in Nat /\ q * (2 * g) = 2 * p /\ (q + 1) * (2 * g) = 2 * p + 2 * g
  BY <1>1
<1> HIDE DEF p
<1>3. 2 * (p - a) <= g /\ 2 * (a - p) <= g
  BY <1>1, <1>2
<1> QED BY <1>2, <1>3 DEF Rounded, p, q

\* The transaction pays what was typed, up to the two roundings.
LEMMA BuiltTransfers ==
    ASSUME NEW text \in Texts, ethNonce \in 0..MaxEthNonce
    PROVE  /\ buildEthTransfer(text) \in EthTx
           /\ Transfers(buildEthTransfer(text), text)
<1> DEFINE a == text.amount
           r == Rounded(a, EtherGrain)
           v == Rounded(r, WeiGrain)
<1>1. a \in Nat /\ text.dest \in Dests BY AmountsAssumption DEF Texts
<1> HIDE DEF a
<1>2. /\ r \in Nat
      /\ 2 * (r - a) <= EtherGrain /\ 2 * (a - r) <= EtherGrain
  BY <1>1, AmountsAssumption, RoundedIsNear
<1> HIDE DEF r
<1>3. /\ v \in Nat
      /\ 2 * (v - r) <= WeiGrain /\ 2 * (r - v) <= WeiGrain
  BY <1>2, AmountsAssumption, RoundedIsNear
<1> HIDE DEF v
<1>4. /\ 2 * (v - a) <= EtherGrain + WeiGrain
      /\ 2 * (a - v) <= EtherGrain + WeiGrain
  BY <1>1, <1>2, <1>3, AmountsAssumption
<1>5. buildEthTransfer(text) = [nonce |-> ethNonce, to |-> text.dest, value |-> v]
  BY DEF buildEthTransfer, inWei, v, r, a
<1> QED BY <1>1, <1>3, <1>4, <1>5 DEF Transfers, EthTx, a

LEMMA EthNonceArrivesKeeps ==
    ASSUME CoreInv, EthNonceArrives
    PROVE  CoreInv'
<1>1. ChainInv' /\ ChainGrows /\ EthGrows /\ UNCHANGED <<feed, idRef, polls, sends, network>>
  BY ChainStays, EthStays DEF EthNonceArrives, chainVars, RunKeeps, CoreInv
<1>2. attempt \in Attempts /\ attempt.chain = "ethereum"
  BY DEF CoreInv, AttemptInv, AttemptOK, EthNonceArrives, In
<1>3. buildEthTransfer(attempt.text) \in EthTx
      /\ Transfers(buildEthTransfer(attempt.text), attempt.text)
  <2>1. attempt.text \in Texts BY <1>2 DEF Attempts
  <2> QED BY <2>1, BuiltTransfers DEF CoreInv, EthInv
<1>4. AttemptOK(attempt', network')
  BY <1>2, <1>3, NoTxAssumption DEF EthNonceArrives, AttemptOK, Attempts, Stages
<1>5. ~In("reread")' BY <1>2 DEF In, EthNonceArrives, Attempts
<1> QED BY <1>1, <1>4, <1>5, AttemptMoves DEF AttemptInv

LEMMA WalletSignsKeeps ==
    ASSUME CoreInv, WalletSigns
    PROVE  CoreInv'
<1>1. ChainInv' /\ ChainGrows /\ EthGrows /\ UNCHANGED <<feed, idRef, polls, sends, network>>
  BY ChainStays, EthStays DEF WalletSigns, chainVars, RunKeeps, CoreInv
<1>2. AttemptOK(attempt, network) /\ attempt.stage = "sign"
      /\ attempt' = [attempt EXCEPT !.stage = "send"]
  BY DEF CoreInv, AttemptInv, WalletSigns, In
<1>3. AttemptOK(attempt', network')
  BY <1>1, <1>2 DEF AttemptOK, Attempts, Stages
<1>4. ~In("reread")' BY <1>2 DEF In, AttemptOK, Attempts
<1> QED BY <1>1, <1>3, <1>4, AttemptMoves DEF AttemptInv

\* What is posted asks for what was typed.
LEMMA PostAsks ==
    ASSUME NEW net, AttemptOK(attempt, net), attempt.stage = "send"
    PROVE  IF attempt.chain = "ethereum"
           THEN PostTx.message_hash \in EthTx /\ Transfers(PostTx.message_hash, attempt.text)
           ELSE PostTx.message_hash = [intent |-> attempt.text, chain |-> attempt.chain]
<1>1. PostTx.message_hash = IF attempt.tx # NoTx THEN attempt.tx
                            ELSE [intent |-> attempt.text, chain |-> attempt.chain]
  BY NoTxAssumption DEF AttemptOK, Attempts, PostTx, buildCreateRequestIx, AttemptArgs,
                        MessageOf, ethSighash
<1> QED BY <1>1 DEF AttemptOK, Attempts

LEMMA SendTxKeeps ==
    ASSUME CoreInv, NEW a \in Addresses, SendTx(a)
    PROVE  CoreInv'
<1>1. ChainInv' /\ ChainGrows /\ network'[a].fate # "unused" /\ network'[a].tx = PostTx
  BY ForwardKeeps DEF SendTx, CoreInv
<1>2. EthGrows /\ UNCHANGED <<feed, idRef, polls, sends>>
  BY EthStays DEF SendTx, CoreInv, RunKeeps
<1>3. AttemptOK(attempt, network) /\ attempt.stage = "send"
      /\ attempt' = [attempt EXCEPT !.stage = "confirm", !.request = a]
  BY DEF CoreInv, AttemptInv, SendTx, In
<1>4. Asks(network', a, attempt.chain, attempt.text)
  BY <1>1, <1>3, PostAsks DEF Asks
<1>5. AttemptOK(attempt', network')
  BY <1>3, <1>4 DEF AttemptOK, Attempts, Stages
<1>6. ~In("reread")' BY <1>3 DEF In, AttemptOK, Attempts
<1> QED BY <1>1, <1>2, <1>5, <1>6, AttemptMoves DEF AttemptInv

LEMMA SendAnswerLostKeeps ==
    ASSUME CoreInv, NEW a \in Addresses, SendAnswerLost(a)
    PROVE  CoreInv'
BY ForwardKeeps, RejectedKeeps DEF SendAnswerLost, CoreInv, In

\* The loop that begins is the first of the row just pushed.
LEMMA RereadKeeps ==
    ASSUME CoreInv, Reread
    PROVE  CoreInv'
<1> DEFINE p0 == [row |-> idRef - 1, request |-> attempt.request, tx |-> attempt.tx,
                  left |-> MaxPolls]
<1>1. ChainInv' /\ ChainGrows /\ EthGrows
      /\ UNCHANGED <<feed, idRef, sends, network, requests, ethTxs, ethNonce>>
  BY ChainStays, EthStays DEF Reread, chainVars, ethVars, RunKeeps, CoreInv
<1>2. polls' = polls \cup {p0} /\ attempt' = NoAttempt BY DEF Reread
<1>3. /\ AttemptOK(attempt, network) /\ In("reread")
      /\ attempt \in Attempts /\ attempt.request \in Addresses
  BY DEF Reread, CoreInv, AttemptInv, AttemptOK, In
<1>4. /\ 1 \in DOMAIN feed /\ feed[1].kind = "intent" /\ feed[1].id = idRef - 1
      /\ feed[1].request = attempt.request /\ feed[1].text = attempt.text
      /\ Waits(feed[1])
      /\ \A p \in polls : p.row # idRef - 1
  BY <1>3 DEF CoreInv, AttemptInv
<1>5. idRef - 1 \in Nat /\ idRef - 1 < idRef BY <1>4 DEF CoreInv, FeedInv
<1>6. /\ p0 \in [row : Nat, request : Addresses, tx : EthTx \cup {NoTx}, left : 1..MaxPolls]
      /\ p0.row = idRef - 1
  BY <1>3, <1>5, WebAssumption DEF Attempts
<1>7. \A i \in DOMAIN feed : IsRow(p0.row, i) => PollFits(p0, feed[i])
  <2> SUFFICES ASSUME NEW i \in DOMAIN feed, IsRow(idRef - 1, i) PROVE PollFits(p0, feed[i])
    OBVIOUS
  <2>1. i = 1 BY <1>4 DEF IsRow, CoreInv, FeedInv
  <2> QED BY <1>3, <1>4, <2>1 DEF PollFits, AttemptOK
<1> HIDE DEF p0
<1>8. PollsInv'
  <2>1. \A p \in polls' :
            /\ p \in [row : Nat, request : Addresses, tx : EthTx \cup {NoTx},
                      left : 1..MaxPolls]
            /\ p.row < idRef
            /\ \A i \in DOMAIN feed : IsRow(p.row, i) => PollFits(p, feed[i])
    BY <1>2, <1>5, <1>6, <1>7 DEF CoreInv, PollsInv
  <2>2. \A p, q \in polls' : p.row = q.row => p = q
    BY <1>2, <1>4, <1>6 DEF CoreInv, PollsInv
  <2> QED BY <1>1, <2>1, <2>2 DEF PollsInv, IsRow
<1>9. FeedInv' /\ RowsInv' /\ NoncesInv' /\ SendsInv'
  BY <1>1 DEF CoreInv, FeedInv, RowsInv, NoncesInv, SendsInv, IsRow
<1>10. AttemptInv' BY <1>2 DEF AttemptInv, In
<1> QED BY <1>1, <1>8, <1>9, <1>10 DEF CoreInv, EthGrows

\* A page that is loaded has no rows and waits for nothing.
LEMMA LoadKeeps ==
    ASSUME CoreInv, NEW w, NEW reads, Load(w, reads)
    PROVE  CoreInv'
<1>1. /\ feed' = <<>> /\ attempt' = NoAttempt /\ polls' = {} /\ sends' = {}
      /\ UNCHANGED <<idRef, network, requests, ethNonce, ethTxs>>
  BY DEF Load, chainVars, ethVars
<1>2. ChainInv' /\ EthInv' BY <1>1 DEF CoreInv, ChainInv, EthInv
<1>3. Len(feed') = 0 /\ DOMAIN feed' = {} BY <1>1
<1>4. FeedInv' BY <1>1, <1>3, WebAssumption DEF CoreInv, FeedInv
<1>5. RowsInv' /\ NoncesInv' BY <1>3 DEF RowsInv, NoncesInv
<1>6. AttemptInv' /\ PollsInv' /\ SendsInv' BY <1>1 DEF AttemptInv, In, PollsInv, SendsInv
<1> QED BY <1>2, <1>4, <1>5, <1>6 DEF CoreInv

-----------------------------------------------------------------------------
\* The poll.

\* A loop that goes on is still the only one of its row.
LEMMA NextPollKeeps ==
    ASSUME CoreInv, NEW p \in polls, NextPoll(p),
           UNCHANGED <<chainVars, ethVars, feed, idRef, attempt, sends>>
    PROVE  CoreInv'
<1>1. ChainInv' /\ ChainGrows /\ EthGrows
  BY ChainStays, EthStays DEF chainVars, CoreInv
<1>2. UNCHANGED <<network, requests, ethTxs, ethNonce>> BY DEF chainVars, ethVars
<1>3. PICK q : /\ polls' \subseteq (polls \ {p}) \cup {q}
               /\ q = [p EXCEPT !.left = @ - 1]
               /\ p.left = 1 => polls' = polls \ {p}
  BY DEF NextPoll
<1>4. p \in [row : Nat, request : Addresses, tx : EthTx \cup {NoTx}, left : 1..MaxPolls]
  BY DEF CoreInv, PollsInv
<1>5. q.row = p.row /\ q.request = p.request /\ q.tx = p.tx BY <1>3, <1>4
<1>6. p.left # 1 =>
          q \in [row : Nat, request : Addresses, tx : EthTx \cup {NoTx}, left : 1..MaxPolls]
  BY <1>3, <1>4, WebAssumption
<1>7. PollsInv'
  <2>1. \A r \in polls' :
            /\ r \in [row : Nat, request : Addresses, tx : EthTx \cup {NoTx},
                      left : 1..MaxPolls]
            /\ r.row < idRef
    BY <1>3, <1>5, <1>6 DEF CoreInv, PollsInv
  <2>2. \A r \in polls' : \A i \in DOMAIN feed : IsRow(r.row, i) => PollFits(r, feed[i])
    BY <1>3, <1>5 DEF CoreInv, PollsInv, PollFits
  <2>3. \A r1, r2 \in polls' : r1.row = r2.row => r1 = r2
    BY <1>3, <1>5 DEF CoreInv, PollsInv
  <2> QED BY <2>1, <2>2, <2>3 DEF PollsInv, IsRow
<1>8. FeedInv' /\ RowsInv' /\ NoncesInv' /\ SendsInv'
  BY <1>2 DEF CoreInv, FeedInv, RowsInv, NoncesInv, SendsInv, IsRow
<1>9. AttemptInv'
  <2>1. \A r \in polls' : \E o \in polls : r.row = o.row BY <1>3, <1>5
  <2> QED BY <1>2, <2>1 DEF CoreInv, AttemptInv, In
<1> QED BY <1>1, <1>7, <1>8, <1>9 DEF CoreInv, EthGrows

\* What a row becomes when its signature is there.
LEMMA RevealedIsOK ==
    ASSUME NEW r, RowOK(r, network, requests, ethTxs, ethNonce), Waits(r),
           NEW tx \in EthTx \cup {NoTx}, tx # NoTx => Transfers(tx, r.text),
           requests[r.request] # NoAccount,
           NEW sig, sig = requests[r.request].aggregate_sig
    PROVE  /\ RowOK(Revealed(r, tx, sig), network, requests, ethTxs, ethNonce)
           /\ Revealed(r, tx, sig).id = r.id /\ Revealed(r, tx, sig).kind = "intent"
           /\ Revealed(r, tx, sig).ethSent = FALSE
<1>1. IsIntent(r) BY DEF RowOK
<1>2. CASE tx = NoTx
  BY <1>1, <1>2 DEF RowOK, IsIntent, Waits, Revealed
<1>3. CASE tx # NoTx /\ RecoversToGroup(tx, sig)
  <2>1. [tx |-> tx, sig |-> sig] \in EthRaw /\ sig = tx
    BY <1>3 DEF RecoversToGroup, ethSighash, EthRaw
  <2>2. Revealed(r, tx, sig)
            = [r EXCEPT !.threshSig = sig, !.ethRaw = [tx |-> tx, sig |-> sig]]
    BY <1>3 DEF Revealed, assembleSignedTx
  <2> DEFINE n == Revealed(r, tx, sig)
  <2>3. /\ IsIntent(n) /\ n.id = r.id /\ n.kind = "intent" /\ n.request = r.request
        /\ n.chain = r.chain /\ n.text = r.text /\ n.threshSig = sig
        /\ n.ethRaw = [tx |-> tx, sig |-> sig] /\ n.ethSent = r.ethSent
    BY <1>1, <2>1, <2>2 DEF IsIntent
  <2> HIDE DEF n
  <2>4. n.ethRaw.sig = n.ethRaw.tx /\ Transfers(n.ethRaw.tx, n.text) BY <1>3, <2>1, <2>3
  <2>5. n.ethSent = FALSE BY <2>3 DEF Waits
  <2>6. RowOK(n, network, requests, ethTxs, ethNonce) BY <2>3, <2>4, <2>5 DEF RowOK
  <2> QED BY <2>3, <2>5, <2>6 DEF n
<1>4. CASE tx # NoTx /\ ~RecoversToGroup(tx, sig)
  <2>1. Revealed(r, tx, sig) = [r EXCEPT !.threshSig = sig, !.ethErr = TRUE]
    BY <1>4 DEF Revealed
  <2> DEFINE n == Revealed(r, tx, sig)
  <2>2. /\ IsIntent(n) /\ n.id = r.id /\ n.kind = "intent" /\ n.request = r.request
        /\ n.chain = r.chain /\ n.text = r.text /\ n.threshSig = sig
        /\ n.ethRaw = r.ethRaw /\ n.ethSent = r.ethSent
    BY <1>1, <2>1 DEF IsIntent
  <2> HIDE DEF n
  <2>3. n.ethSent = FALSE /\ n.ethRaw = NoRaw BY <2>2 DEF Waits
  <2>4. RowOK(n, network, requests, ethTxs, ethNonce) BY <2>2, <2>3 DEF RowOK
  <2> QED BY <2>2, <2>3, <2>4 DEF n
<1> QED BY <1>2, <1>3, <1>4

LEMMA PollTickKeeps ==
    ASSUME CoreInv, NEW p \in polls, PollTick(p)
    PROVE  CoreInv'
<1>1. UNCHANGED <<chainVars, ethVars, idRef, attempt, sends>> BY DEF PollTick, PollKeeps
<1>2. CASE NextPoll(p) /\ UNCHANGED feed BY <1>1, <1>2, NextPollKeeps
<1> DEFINE sig == requests[p.request].aggregate_sig
<1>3. CASE /\ requests[p.request] # NoAccount
           /\ feed' = [i \in DOMAIN feed |-> IF IsRow(p.row, i)
                                             THEN Revealed(feed[i], p.tx, sig) ELSE feed[i]]
           /\ polls' = polls \ {p}
  <2>1. p \in [row : Nat, request : Addresses, tx : EthTx \cup {NoTx}, left : 1..MaxPolls]
        /\ \A i \in DOMAIN feed : IsRow(p.row, i) => PollFits(p, feed[i])
    BY DEF CoreInv, PollsInv
  <2>2. ASSUME NEW i \in DOMAIN feed, IsRow(p.row, i)
        PROVE  /\ RowOK(feed'[i], network, requests, ethTxs, ethNonce)
               /\ feed'[i].id = p.row /\ feed'[i].kind = "intent"
               /\ feed'[i].ethSent = FALSE
    <3>1. RowOK(feed[i], network, requests, ethTxs, ethNonce)
      BY <2>2 DEF CoreInv, RowsInv, IsRow
    <3>2. PollFits(p, feed[i]) /\ feed[i].id = p.row BY <2>1, <2>2 DEF IsRow
    <3>3. feed'[i] = Revealed(feed[i], p.tx, sig) BY <1>3, <2>2
    <3>4. /\ Waits(feed[i]) /\ feed[i].request = p.request
          /\ p.tx \in EthTx \cup {NoTx}
          /\ p.tx # NoTx => Transfers(p.tx, feed[i].text)
      BY <2>1, <3>2 DEF PollFits
    <3> HIDE DEF sig
    <3>5. sig = requests[feed[i].request].aggregate_sig
          /\ requests[feed[i].request] # NoAccount
      BY <1>3, <3>4 DEF sig
    <3> DEFINE r == feed[i]
    <3>6. r.id = p.row /\ feed'[i] = Revealed(r, p.tx, sig) BY <3>2, <3>3
    <3> HIDE DEF r
    <3>7. /\ RowOK(r, network, requests, ethTxs, ethNonce) /\ Waits(r)
          /\ p.tx # NoTx => Transfers(p.tx, r.text)
          /\ requests[r.request] # NoAccount
          /\ sig = requests[r.request].aggregate_sig
      BY <3>1, <3>4, <3>5 DEF r
    <3>8. /\ RowOK(Revealed(r, p.tx, sig), network, requests, ethTxs, ethNonce)
          /\ Revealed(r, p.tx, sig).id = r.id
          /\ Revealed(r, p.tx, sig).kind = "intent"
          /\ Revealed(r, p.tx, sig).ethSent = FALSE
      BY ONLY <3>4, <3>7, RevealedIsOK
    <3> QED BY ONLY <3>6, <3>8
  <2>3. \A i \in DOMAIN feed : ~IsRow(p.row, i) => feed'[i] = feed[i] BY <1>3
  <2>4. feed' = [i \in DOMAIN feed |-> feed'[i]] BY <1>3
  <2>5. /\ FeedInv' /\ DOMAIN feed' = DOMAIN feed
        /\ \A i \in DOMAIN feed : feed'[i].id = feed[i].id /\ feed'[i].kind = feed[i].kind
    BY <1>1, <2>2, <2>3, <2>4, PatchKeepsFeed DEF CoreInv
  <2>6. UNCHANGED <<network, requests, ethTxs, ethNonce>> BY <1>1 DEF chainVars, ethVars
  <2>7. RowsInv' BY <2>2, <2>3, <2>5, <2>6 DEF CoreInv, RowsInv
  <2>8. NoncesInv'
    <3> SUFFICES ASSUME NEW i \in DOMAIN feed, NEW j \in DOMAIN feed,
                        feed'[i].kind = "intent", feed'[j].kind = "intent", i # j,
                        feed'[i].ethSent, feed'[j].ethSent
                 PROVE  feed'[i].ethRaw.tx.nonce # feed'[j].ethRaw.tx.nonce
      BY <2>5 DEF NoncesInv
    <3>1. ~IsRow(p.row, i) /\ ~IsRow(p.row, j) BY <2>2
    <3>2. feed'[i] = feed[i] /\ feed'[j] = feed[j] BY <2>3, <3>1
    <3> QED BY <3>2 DEF CoreInv, NoncesInv
  <2>9. AttemptInv'
    <3>1. In("reread") => feed'[1] = feed[1] /\ 1 \in DOMAIN feed
      BY <2>3 DEF CoreInv, AttemptInv, IsRow
    <3> QED BY <1>1, <1>3, <2>5, <2>6, <3>1 DEF CoreInv, AttemptInv, In
  <2>10. PollsInv'
    <3>1. ASSUME NEW q \in polls', NEW i \in DOMAIN feed, IsRow(q.row, i)'
          PROVE  PollFits(q, feed'[i])
      <4>1. q \in polls /\ q.row # p.row BY <1>3, <3>1 DEF CoreInv, PollsInv
      <4>2. IsRow(q.row, i) /\ ~IsRow(p.row, i) BY <2>5, <3>1, <4>1 DEF IsRow
      <4> QED BY <2>3, <4>1, <4>2 DEF CoreInv, PollsInv
    <3> QED BY <1>1, <1>3, <2>5, <3>1 DEF CoreInv, PollsInv
  <2>11. SendsInv'
    <3>1. ASSUME NEW s \in sends, NEW i \in DOMAIN feed, IsRow(s.row, i)'
          PROVE  feed'[i].ethRaw = s.raw
      <4>1. IsRow(s.row, i) BY <2>5, <3>1 DEF IsRow
      <4>2. feed[i].ethRaw = s.raw /\ s.raw # NoRaw BY <4>1 DEF CoreInv, SendsInv
      <4>3. ~IsRow(p.row, i) BY <2>1, <4>2 DEF PollFits, Waits
      <4> QED BY <2>3, <4>2, <4>3
    <3> QED BY <1>1, <2>5, <3>1 DEF CoreInv, SendsInv
  <2>12. ChainInv' /\ EthInv' BY <2>6 DEF CoreInv, ChainInv, EthInv
  <2> QED BY <2>5, <2>7, <2>8, <2>9, <2>10, <2>11, <2>12 DEF CoreInv
<1> QED BY <1>2, <1>3 DEF PollTick, PatchRow, readRequest

LEMMA PollFailsKeeps ==
    ASSUME CoreInv, NEW p \in polls, PollFails(p)
    PROVE  CoreInv'
BY NextPollKeeps DEF PollFails, PollKeeps

-----------------------------------------------------------------------------
\* The broadcast.

LEMMA BroadcastClickKeeps ==
    ASSUME CoreInv, NEW k \in DOMAIN feed, BroadcastClick(k)
    PROVE  CoreInv'
<1>1. ChainInv' /\ ChainGrows /\ EthGrows
  BY ChainStays, EthStays DEF BroadcastClick, BroadcastKeeps, chainVars, CoreInv
<1>2. UNCHANGED <<network, requests, ethTxs, ethNonce, feed, idRef, attempt, polls>>
  BY DEF BroadcastClick, BroadcastKeeps, chainVars, ethVars
<1>3. feed[k].kind = "intent" /\ feed[k].ethRaw # NoRaw
  BY DEF BroadcastClick, RowView, CoreInv, FeedInv
<1>4. PICK call \in 1..2 :
          sends' = sends \cup {[row |-> feed[k].id, raw |-> feed[k].ethRaw, call |-> call]}
  BY DEF BroadcastClick
<1>5. feed[k].ethRaw \in EthRaw /\ feed[k].ethRaw.sig = feed[k].ethRaw.tx
  BY <1>3 DEF CoreInv, RowsInv, RowOK, IsIntent
<1>6. SendsInv'
  <2> DEFINE s0 == [row |-> feed[k].id, raw |-> feed[k].ethRaw, call |-> call]
  <2>1. /\ s0 \in [row : Nat, raw : EthRaw, call : 1..2]
        /\ s0.raw.sig = s0.raw.tx /\ s0.row < idRef /\ s0.raw # NoRaw
    BY <1>3, <1>5 DEF CoreInv, FeedInv
  <2>2. \A i \in DOMAIN feed : IsRow(s0.row, i) => feed[i].ethRaw = s0.raw
    BY DEF CoreInv, FeedInv, IsRow
  <2>3. sends' = sends \cup {s0} BY <1>4
  <2> HIDE DEF s0
  <2> QED BY <1>2, <2>1, <2>2, <2>3 DEF CoreInv, SendsInv, IsRow
<1>7. FeedInv' /\ RowsInv' /\ NoncesInv' /\ PollsInv' /\ AttemptInv'
  BY <1>2 DEF CoreInv, FeedInv, RowsInv, NoncesInv, PollsInv, AttemptInv, IsRow, In
<1> QED BY <1>1, <1>6, <1>7 DEF CoreInv, EthGrows

\* An answer touches the flags of one row, which has the transaction sent.  It
\* is said to be sent only if the node took it, under a nonce used for no other.
LEMMA AnswerKeeps ==
    ASSUME CoreInv, NEW s \in sends, EthGrows,
           UNCHANGED <<network, requests, idRef, attempt, polls>>, sends' = sends \ {s},
           NEW took \in BOOLEAN,
           took => /\ s.raw \in ethTxs' /\ s.raw.tx.nonce = ethNonce
                   /\ ethNonce' = ethNonce + 1,
           feed' = [i \in DOMAIN feed |->
                       IF IsRow(s.row, i)
                       THEN IF took THEN Sent(feed[i]) ELSE SendError(feed[i])
                       ELSE feed[i]]
    PROVE  CoreInv'
<1>1. /\ s \in [row : Nat, raw : EthRaw, call : 1..2] /\ s.raw # NoRaw
      /\ \A i \in DOMAIN feed : IsRow(s.row, i) => feed[i].ethRaw = s.raw
  BY DEF CoreInv, SendsInv
<1>2. ChainInv' /\ ChainGrows BY ChainStays DEF CoreInv
<1>3. ethNonce \in Nat /\ ethNonce' \in Nat BY MaxEthNonceAssumption DEF CoreInv, EthInv, EthGrows
<1>4. ASSUME NEW i \in DOMAIN feed, IsRow(s.row, i)
      PROVE  /\ feed'[i].id = s.row /\ feed'[i].kind = "intent" /\ feed'[i].ethRaw = s.raw
             /\ feed'[i].ethSent => took \/ feed[i].ethSent
             /\ RowOK(feed'[i], network', requests', ethTxs', ethNonce')
  <2> DEFINE r == feed[i]
             n == feed'[i]
  <2>1. /\ RowOK(r, network', requests', ethTxs', ethNonce')
        /\ r.id = s.row /\ r.ethRaw = s.raw
    BY <1>1, <1>2, <1>4, RowGrows DEF CoreInv, RowsInv, IsRow
  <2>2. IsIntent(r) BY <2>1 DEF RowOK
  <2>3. CASE took
    <3>1. n = [r EXCEPT !.ethSent = TRUE] BY <1>4, <2>3 DEF Sent
    <3> HIDE DEF r, n
    <3>2. /\ IsIntent(n) /\ n.id = r.id /\ n.kind = "intent" /\ n.request = r.request
          /\ n.chain = r.chain /\ n.text = r.text /\ n.threshSig = r.threshSig
          /\ n.ethRaw = r.ethRaw
      BY <2>2, <3>1 DEF IsIntent
    <3>3. RowOK(n, network', requests', ethTxs', ethNonce')
      BY <1>1, <1>3, <2>1, <2>3, <3>2 DEF RowOK
    <3> QED BY <2>1, <2>3, <3>2, <3>3 DEF n
  <2>4. CASE ~took
    <3>1. n = [r EXCEPT !.ethErr = TRUE] BY <1>4, <2>4 DEF SendError
    <3> HIDE DEF r, n
    <3>2. /\ IsIntent(n) /\ n.id = r.id /\ n.kind = "intent" /\ n.request = r.request
          /\ n.chain = r.chain /\ n.text = r.text /\ n.threshSig = r.threshSig
          /\ n.ethRaw = r.ethRaw /\ n.ethSent = r.ethSent
      BY <2>2, <3>1 DEF IsIntent
    <3>3. RowOK(n, network', requests', ethTxs', ethNonce') BY <2>1, <3>2 DEF RowOK
    <3> QED BY <2>1, <3>2, <3>3 DEF n, r
  <2> QED BY <2>3, <2>4
<1>5. \A i \in DOMAIN feed : ~IsRow(s.row, i) => feed'[i] = feed[i] OBVIOUS
<1>6. feed' = [i \in DOMAIN feed |-> feed'[i]] OBVIOUS
<1>7. /\ FeedInv' /\ DOMAIN feed' = DOMAIN feed
      /\ \A i \in DOMAIN feed : feed'[i].id = feed[i].id /\ feed'[i].kind = feed[i].kind
  BY <1>4, <1>5, <1>6, PatchKeepsFeed DEF CoreInv
<1>8. RowsInv'
  <2> SUFFICES ASSUME NEW i \in DOMAIN feed
               PROVE  IF feed'[i].kind = "intent"
                      THEN RowOK(feed'[i], network', requests', ethTxs', ethNonce')
                      ELSE feed'[i].about \in Addresses \cup {0}
    BY <1>7 DEF RowsInv
  <2>1. CASE IsRow(s.row, i) BY <1>4, <2>1
  <2>2. CASE ~IsRow(s.row, i)
    <3>1. feed'[i] = feed[i] BY <1>5, <2>2
    <3> QED BY <1>2, <3>1, RowGrows DEF CoreInv, RowsInv
  <2> QED BY <2>1, <2>2
<1>9. \A i \in DOMAIN feed : feed[i].kind = "intent" /\ feed[i].ethSent =>
          feed[i].ethRaw.tx.nonce \in Nat /\ feed[i].ethRaw.tx.nonce < ethNonce
  BY MaxEthNonceAssumption DEF CoreInv, RowsInv, RowOK, IsIntent, EthRaw, EthTx
<1>10. NoncesInv'
  <2> SUFFICES ASSUME NEW i \in DOMAIN feed, NEW j \in DOMAIN feed,
                      feed'[i].kind = "intent", feed'[j].kind = "intent", i # j,
                      feed'[i].ethSent, feed'[j].ethSent
               PROVE  feed'[i].ethRaw.tx.nonce # feed'[j].ethRaw.tx.nonce
    BY <1>7 DEF NoncesInv
  <2>1. feed'[i].ethRaw = feed[i].ethRaw /\ feed'[j].ethRaw = feed[j].ethRaw
        /\ feed[i].kind = "intent" /\ feed[j].kind = "intent"
    BY <1>1, <1>4, <1>5, <1>7
  <2>2. ~(IsRow(s.row, i) /\ IsRow(s.row, j)) BY DEF IsRow, CoreInv, FeedInv
  <2>3. CASE feed[i].ethSent /\ feed[j].ethSent BY <2>1, <2>3 DEF CoreInv, NoncesInv
  <2>4. CASE ~feed[i].ethSent
    <3>1. IsRow(s.row, i) BY <1>5, <2>4
    <3>2. took BY <1>4, <3>1, <2>4
    <3>3. feed[j].ethSent BY <1>5, <2>2, <3>1
    <3> QED BY <1>1, <1>3, <1>9, <2>1, <3>1, <3>2, <3>3
  <2>5. CASE ~feed[j].ethSent
    <3>1. IsRow(s.row, j) BY <1>5, <2>5
    <3>2. took BY <1>4, <3>1, <2>5
    <3>3. feed[i].ethSent BY <1>5, <2>2, <3>1
    <3> QED BY <1>1, <1>3, <1>9, <2>1, <3>1, <3>2, <3>3
  <2> QED BY <2>3, <2>4, <2>5
<1>11. AttemptInv'
  <2>1. In("reread") => feed'[1] = feed[1] /\ 1 \in DOMAIN feed
    BY <1>1, <1>5 DEF CoreInv, AttemptInv, Waits
  <2> QED BY <1>2, <1>7, <2>1, AttemptGrows DEF CoreInv, AttemptInv, In
<1>12. PollsInv'
  <2>1. ASSUME NEW q \in polls, NEW i \in DOMAIN feed, IsRow(q.row, i)'
        PROVE  PollFits(q, feed'[i])
    <3>1. IsRow(q.row, i) BY <1>7, <2>1 DEF IsRow
    <3>2. PollFits(q, feed[i]) BY <3>1 DEF CoreInv, PollsInv
    <3>3. ~IsRow(s.row, i) BY <1>1, <3>2 DEF PollFits, Waits
    <3> QED BY <1>5, <3>2, <3>3
  <2> QED BY <1>7, <2>1 DEF CoreInv, PollsInv
<1>13. SendsInv'
  <2>1. ASSUME NEW q \in sends, NEW i \in DOMAIN feed, IsRow(q.row, i)'
        PROVE  feed'[i].ethRaw = q.raw
    <3>1. IsRow(q.row, i) BY <1>7, <2>1 DEF IsRow
    <3>2. feed[i].ethRaw = q.raw BY <3>1 DEF CoreInv, SendsInv
    <3> QED BY <1>1, <1>4, <1>5, <3>2
  <2> QED BY <1>7, <2>1 DEF CoreInv, SendsInv
<1> QED BY <1>2, <1>7, <1>8, <1>10, <1>11, <1>12, <1>13 DEF CoreInv, EthGrows

LEMMA BroadcastAnswersKeep ==
    ASSUME CoreInv, NEW s \in sends, BroadcastAnswers(s) \/ BroadcastAnswerLost(s)
    PROVE  CoreInv'
<1>1. /\ UNCHANGED <<network, requests, idRef, attempt, polls>> /\ sends' = sends \ {s}
  BY DEF BroadcastAnswers, BroadcastAnswerLost, BroadcastKeeps, chainVars
<1>2. ASSUME NodeAccepts(s.raw), Accepted(s.raw)
      PROVE  /\ EthGrows /\ s.raw \in ethTxs' /\ s.raw.tx.nonce = ethNonce
             /\ ethNonce' = ethNonce + 1
  BY <1>2, MaxEthNonceAssumption DEF NodeAccepts, Accepted, EthGrows, EthInv, CoreInv
<1>3. CASE NodeAccepts(s.raw) /\ Accepted(s.raw) /\ PatchRow(s.row, Sent)
  BY <1>1, <1>2, <1>3, AnswerKeeps DEF PatchRow
<1>4. CASE EthGrows /\ PatchRow(s.row, SendError)
  BY <1>1, <1>4, AnswerKeeps DEF PatchRow
<1>5. CASE BroadcastAnswers(s) BY <1>3, <1>4, <1>5, EthStays DEF BroadcastAnswers, CoreInv
<1>6. CASE BroadcastAnswerLost(s) BY <1>2, <1>4, <1>6 DEF BroadcastAnswerLost
<1> QED BY <1>5, <1>6

-----------------------------------------------------------------------------
\* Every step of the site.

LEMMA OtherSendKeeps ==
    ASSUME CoreInv, AccountUsedElsewhere
    PROVE  CoreInv'
<1>1. EthGrows
  BY MaxEthNonceAssumption DEF AccountUsedElsewhere, OthersSend, EthGrows, EthInv, CoreInv
<1> QED BY <1>1, Quiet, ChainStays DEF AccountUsedElsewhere, chainVars, pageVars, callVars, CoreInv

LEMMA ChainStepKeeps ==
    ASSUME CoreInv, Elsewhere \/ \E a \in Addresses : OperatorsSign(a) \/ TxResolves(a)
    PROVE  CoreInv'
<1>1. ChainInv' /\ ChainGrows
  BY ElsewhereKeeps, RecordKeeps, ResolveKeeps DEF OperatorsSign, TxResolves, CoreInv
<1>2. UNCHANGED <<ethVars, pageVars, callVars>> BY DEF Elsewhere, OperatorsSign, TxResolves
<1> QED BY <1>1, <1>2, Quiet, EthStays DEF pageVars, callVars, CoreInv

LEMMA StillKeeps ==
    ASSUME CoreInv,
           UNCHANGED <<network, requests, ethVars, feed, idRef, attempt, polls, sends>>
    PROVE  CoreInv'
BY Quiet, ChainStays, EthStays DEF CoreInv

LEMMA NextKeeps ==
    ASSUME CoreInv, wallet \in Wallets \cup {NoWallet}, Next
    PROVE  CoreInv'
<1> USE DEF chainVars, pageVars, callVars, RunKeeps
<1>1. CASE Presses
  <2>1. CASE (\E v \in {"sign", "dashboard", "activity"} : ShowView(v)) \/ ConnectClick
    BY <2>1, StillKeeps DEF ShowView, ConnectClick
  <2> QED BY <1>1, <2>1, RunClickKeeps, BroadcastClickKeeps DEF Presses
<1>2. CASE Reads
  BY <1>2, StillKeeps DEF Reads, ProtoTick, ActivityTick, ProtoArrives, ProtoFails,
                          DashArrives, DashFails, ActivityArrives, ActivityFails
<1>3. CASE WalletAnswers \/ WalletHeard \/ WalletSwitches
  BY <1>3, StillKeeps DEF WalletAnswers, WalletHeard, WalletSwitches
<1>4. CASE WalletSigns \/ WalletRefuses
  BY <1>4, WalletSignsKeeps, RejectedKeeps, ChainStays DEF WalletRefuses, In, CoreInv
<1>5. CASE AttemptStep
  <2>1. CASE PreflightFails \/ ConfirmExpires
    BY <2>1, RejectedKeeps, ChainStays DEF PreflightFails, ConfirmExpires, In, CoreInv
  <2> QED BY <1>5, <2>1, EthNonceArrivesKeeps, SendTxKeeps, ConfirmedKeeps, RereadKeeps
          DEF AttemptStep
<1>6. CASE AttemptFault
  <2>1. CASE EthNonceFails \/ ConfirmFails \/ RereadFails
    BY <2>1, RejectedKeeps, ChainStays DEF EthNonceFails, ConfirmFails, RereadFails, In, CoreInv
  <2> QED BY <1>6, <2>1, SendAnswerLostKeeps DEF AttemptFault
<1>7. CASE \E p \in polls : PollTick(p) \/ PollFails(p)
  BY <1>7, PollTickKeeps, PollFailsKeeps
<1>8. CASE \E s \in sends : BroadcastAnswers(s) \/ BroadcastAnswerLost(s)
  BY <1>8, BroadcastAnswersKeep
<1>9. CASE Elsewhere \/ \E a \in Addresses : OperatorsSign(a) \/ TxResolves(a)
  BY <1>9, ChainStepKeeps
<1>10. CASE AccountUsedElsewhere BY <1>10, OtherSendKeeps
<1>11. CASE Reload BY <1>11, LoadKeeps DEF Reload, Open
<1> QED BY <1>1, <1>2, <1>3, <1>4, <1>5, <1>6, <1>7, <1>8, <1>9, <1>10, <1>11 DEF Next

LEMMA CoreStep ==
    ASSUME CoreInv, WalletInv, [SiteNext]_siteVars
    PROVE  CoreInv'
<1> USE DEF chainVars, ethVars, pageVars, callVars
<1>1. CASE UNCHANGED appVars BY <1>1, StillKeeps DEF appVars
<1>2. CASE UNCHANGED siteVars BY <1>2, StillKeeps DEF siteVars, vars
<1>3. CASE Next BY <1>3, NextKeeps DEF WalletInv
<1>4. CASE Meanwhile BY <1>4, ChainStepKeeps DEF Meanwhile
<1>5. CASE WalletSwitches BY <1>5, StillKeeps DEF WalletSwitches
<1>6. CASE CounterStep BY <1>1, <1>6 DEF CounterStep
<1>7. CASE ToLanding \/ ToApp BY <1>7, LoadKeeps DEF ToLanding, ToApp, Open
<1> QED BY <1>1, <1>2, <1>3, <1>4, <1>5, <1>6, <1>7 DEF SiteNext

LEMMA CoreInit == SiteInit => CoreInv
<1> SUFFICES ASSUME SiteInit PROVE CoreInv OBVIOUS
<1>1. /\ feed = <<>> /\ attempt = NoAttempt /\ polls = {} /\ sends = {} /\ idRef = 0
      /\ ethNonce = 0
      /\ requests = [a \in Addresses |-> NoAccount]
      /\ network = [a \in Addresses |-> Unused]
  BY DEF SiteInit, Init
<1>2. ChainInv BY <1>1 DEF ChainInv, Unused
<1>3. EthInv BY <1>1, MaxEthNonceAssumption DEF EthInv
<1>4. Len(feed) = 0 /\ DOMAIN feed = {} BY <1>1
<1>5. FeedInv BY <1>1, <1>4, WebAssumption DEF FeedInv
<1>6. RowsInv /\ NoncesInv BY <1>4 DEF RowsInv, NoncesInv
<1>7. AttemptInv /\ PollsInv /\ SendsInv BY <1>1 DEF AttemptInv, In, PollsInv, SendsInv
<1> QED BY <1>2, <1>3, <1>5, <1>6, <1>7 DEF CoreInv

LEMMA CoreHolds == SiteSpec => [](CoreInv /\ WalletInv)
<1>1. SiteInit => CoreInv /\ WalletInv BY CoreInit, WalletInit
<1>2. CoreInv /\ WalletInv /\ [SiteNext]_siteVars => CoreInv' /\ WalletInv'
  BY CoreStep, WalletStep
<1> QED BY <1>1, <1>2, PTL DEF SiteSpec

\* What is offered for broadcast is what the row shows, signed.
THEOREM OfferedIsSigned == SiteSpec => []BroadcastableIsValid
<1>1. CoreInv => BroadcastableIsValid
  <2> SUFFICES ASSUME CoreInv PROVE BroadcastableIsValid OBVIOUS
  <2>1. \A r \in IntentRows : \E i \in DOMAIN feed :
            /\ r = feed[i] /\ feed[i].kind = "intent"
            /\ RowOK(feed[i], network, requests, ethTxs, ethNonce)
    BY DEF IntentRows, Rows, CoreInv, RowsInv
  <2>2. \A r \in IntentRows :
            /\ r.ethRaw # NoRaw => r.ethRaw.sig = r.ethRaw.tx /\ Transfers(r.ethRaw.tx, r.text)
            /\ r.ethSent => r.ethRaw \in ethTxs
    BY <2>1 DEF RowOK
  <2>3. \A s \in sends : s.raw.sig = s.raw.tx BY DEF CoreInv, SendsInv
  <2>4. \A r1, r2 \in IntentRows :
            (r1.ethSent /\ r2.ethSent /\ r1.id # r2.id)
                => r1.ethRaw.tx.nonce # r2.ethRaw.tx.nonce
    BY <2>1 DEF CoreInv, NoncesInv
  <2> QED BY <2>2, <2>3, <2>4 DEF BroadcastableIsValid, ethSighash
<1> QED BY <1>1, CoreHolds, PTL

\* What a row reveals is the recorded signature of what it shows.
THEOREM RevealedIsRecorded == SiteSpec => []RevealedIsOwn
<1>1. CoreInv => RevealedIsOwn
  <2> SUFFICES ASSUME CoreInv, NEW i \in DOMAIN feed, FeedView(feed)[i].status = "signed"
               PROVE  /\ requests[feed[i].request] # NoAccount
                      /\ feed[i].threshSig = requests[feed[i].request].aggregate_sig
                      /\ AsksForRow(feed[i], requests[feed[i].request].message_hash)
    BY DEF RevealedIsOwn
  <2>1. feed[i].kind = "intent" /\ feed[i].threshSig # Zero
    BY DEF FeedView, RowView, CoreInv, FeedInv
  <2>2. RowOK(feed[i], network, requests, ethTxs, ethNonce)
    BY <2>1 DEF CoreInv, RowsInv
  <2>3. feed[i].request \in Addresses BY <2>2 DEF RowOK, IsIntent
  <2>4. requests[feed[i].request].message_hash = network[feed[i].request].tx.message_hash
    BY <2>1, <2>2, <2>3 DEF RowOK, CoreInv, ChainInv
  <2> QED BY <2>1, <2>2, <2>4 DEF RowOK, Asks, AsksForRow
<1> QED BY <1>1, CoreHolds, PTL

-----------------------------------------------------------------------------
\* What a row shows stays.

\* Row n, later, keeps what row r shows.
Keeps(r, n) ==
    /\ r.threshSig # Zero => n.threshSig = r.threshSig
    /\ r.ethRaw # NoRaw => n.ethRaw = r.ethRaw
    /\ r.ethSent => n.ethSent

LEMMA FeedMoves ==
    ASSUME CoreInv, [SiteNext]_siteVars
    PROVE  \/ UNCHANGED feed
           \/ feed' = <<>>
           \/ \E row : pushRow(row) /\ row.id = idRef /\ row.kind \in {"intent", "error"}
           \/ \E p \in polls : PollTick(p)
           \/ \E s \in sends : BroadcastAnswers(s) \/ BroadcastAnswerLost(s)
<1> DEFINE Pushes == \E row : pushRow(row) /\ row.id = idRef /\ row.kind \in {"intent", "error"}
<1> USE DEF pageVars, RunKeeps, PollKeeps
<1>1. \A about : pushRow(ErrorRow(about)) => Pushes BY DEF ErrorRow
<1>2. pushRow(IntentRow(attempt)) => Pushes BY DEF IntentRow
<1> HIDE DEF Pushes
<1>3. Rejected => Pushes BY <1>1 DEF Rejected
<1>4. CASE Presses
  <2>1. ASSUME NEW chain \in ChainKeys, NEW text \in Texts, RunClick(chain, text)
        PROVE  UNCHANGED feed \/ Pushes
    BY <1>1, <2>1 DEF RunClick
  <2> QED BY <1>4, <2>1 DEF Presses, ShowView, ConnectClick, BroadcastClick, Pushes
<1>5. CASE Reads
  BY <1>5 DEF Reads, ProtoTick, ActivityTick, ProtoArrives, ProtoFails, DashArrives,
              DashFails, ActivityArrives, ActivityFails
<1>6. CASE WalletAnswers \/ WalletHeard \/ WalletSwitches \/ WalletSigns \/ WalletRefuses
  BY <1>3, <1>6 DEF WalletAnswers, WalletHeard, WalletSwitches, WalletSigns, WalletRefuses, Pushes
<1>7. CASE AttemptStep
  BY <1>2, <1>3, <1>7 DEF AttemptStep, EthNonceArrives, SendTx, PreflightFails, Confirmed,
                          ConfirmExpires, Reread, Pushes
<1>8. CASE AttemptFault
  BY <1>3, <1>8 DEF AttemptFault, EthNonceFails, SendAnswerLost, ConfirmFails, RereadFails,
                    Pushes
<1>9. CASE \E p \in polls : PollTick(p) \/ PollFails(p)
  BY <1>9 DEF PollFails
<1>10. CASE \E a \in Addresses : OperatorsSign(a) \/ TxResolves(a)
  BY <1>10 DEF OperatorsSign, TxResolves
<1>11. CASE Elsewhere \/ AccountUsedElsewhere
  BY <1>11 DEF Elsewhere, AccountUsedElsewhere
<1>12. CASE Reload BY <1>12 DEF Reload, Open, Load
<1>13. CASE Next
  BY <1>4, <1>5, <1>6, <1>7, <1>8, <1>9, <1>10, <1>11, <1>12, <1>13 DEF Next, Pushes
<1>14. CASE ToLanding \/ ToApp BY <1>14 DEF ToLanding, ToApp, Open, Load
<1>15. CASE UNCHANGED appVars \/ UNCHANGED siteVars BY <1>15 DEF appVars, siteVars, vars
<1> QED BY <1>6, <1>10, <1>13, <1>14, <1>15 DEF SiteNext, Meanwhile, CounterStep

LEMMA RowsPersist ==
    ASSUME CoreInv, [SiteNext]_siteVars,
           NEW i \in DOMAIN feed, NEW j \in DOMAIN feed',
           feed[i].id = feed'[j].id, feed[i].kind = "intent"
    PROVE  Keeps(feed[i], feed'[j])
<1>0. \A k \in DOMAIN feed : feed[k].id = feed[i].id => k = i BY DEF CoreInv, FeedInv
<1>1. CASE UNCHANGED feed BY <1>0, <1>1 DEF Keeps
<1>2. CASE feed' = <<>> BY <1>2
<1>3. ASSUME NEW row, pushRow(row), row.id = idRef, row.kind \in {"intent", "error"}
      PROVE  Keeps(feed[i], feed'[j])
  <2>1. /\ feed'[1] = row
        /\ j # 1 => j - 1 \in DOMAIN feed /\ feed'[j] = feed[j - 1]
    BY <1>3, PushKeepsFeed DEF CoreInv
  <2>2. feed[i].id < idRef /\ feed[i].id \in Nat /\ idRef \in Nat BY DEF CoreInv, FeedInv
  <2>3. j # 1 BY <1>3, <2>1, <2>2
  <2> QED BY <1>0, <2>1, <2>3 DEF Keeps
<1>4. ASSUME NEW p \in polls, PollTick(p)
      PROVE  Keeps(feed[i], feed'[j])
  <2>1. IsRow(p.row, i) => Waits(feed[i]) BY DEF CoreInv, PollsInv, PollFits
  <2>2. CASE ~readRequest(requests[p.request]).signed
    BY <1>0, <1>4, <2>2 DEF PollTick, Keeps
  <2>3. CASE readRequest(requests[p.request]).signed
    <3>1. feed' = [k \in DOMAIN feed |->
                      IF IsRow(p.row, k)
                      THEN Revealed(feed[k], p.tx, readRequest(requests[p.request]).signature)
                      ELSE feed[k]]
      BY <1>4, <2>3 DEF PollTick, PatchRow
    <3>2. CASE IsRow(p.row, i) BY <2>1, <3>2 DEF Waits, Keeps
    <3>3. CASE ~IsRow(p.row, i) /\ IsRow(p.row, j)
      <4>1. j \in DOMAIN feed BY <3>1
      <4>2. IsIntent(feed[j]) BY <3>3, <4>1 DEF IsRow, CoreInv, RowsInv, RowOK
      <4>3. feed'[j] = Revealed(feed[j], p.tx, readRequest(requests[p.request]).signature)
        BY <3>1, <3>3, <4>1
      <4>4. feed'[j].id = feed[j].id
        BY <4>2, <4>3 DEF IsIntent, Revealed, assembleSignedTx
      <4> QED BY <1>0, <3>3, <4>1, <4>4
    <3>4. CASE ~IsRow(p.row, i) /\ ~IsRow(p.row, j)
      BY <1>0, <3>1, <3>4 DEF Keeps
    <3> QED BY <3>2, <3>3, <3>4
  <2> QED BY <2>2, <2>3
<1>5. ASSUME NEW s \in sends, BroadcastAnswers(s) \/ BroadcastAnswerLost(s)
      PROVE  Keeps(feed[i], feed'[j])
  <2>1. /\ DOMAIN feed' = DOMAIN feed
        /\ \A k \in DOMAIN feed : \/ feed'[k] = feed[k]
                                  \/ feed'[k] = Sent(feed[k]) /\ feed[k].kind = "intent"
                                  \/ feed'[k] = SendError(feed[k]) /\ feed[k].kind = "intent"
    BY <1>5 DEF BroadcastAnswers, BroadcastAnswerLost, PatchRow, IsRow
  <2>2. feed[j].kind = "intent" =>
            /\ IsIntent(feed[j])
    BY <2>1 DEF CoreInv, RowsInv, RowOK
  <2>3. feed'[j].id = feed[j].id /\ Keeps(feed[j], feed'[j])
    BY <2>1, <2>2 DEF Keeps, IsIntent, Sent, SendError
  <2> QED BY <1>0, <2>1, <2>3
<1> QED BY <1>1, <1>2, <1>3, <1>4, <1>5, FeedMoves

\* No later answer takes a result back.
THEOREM ResultsStay == SiteSpec => RowsKeepResults
<1>1. CoreInv /\ [SiteNext]_siteVars =>
          [\A i \in DOMAIN feed, j \in DOMAIN feed' :
              (feed[i].id = feed'[j].id /\ feed[i].kind = "intent") =>
                  /\ feed[i].threshSig # Zero => feed'[j].threshSig = feed[i].threshSig
                  /\ feed[i].ethRaw # NoRaw => feed'[j].ethRaw = feed[i].ethRaw
                  /\ feed[i].ethSent => feed'[j].ethSent]_siteVars
  BY RowsPersist DEF Keeps
<1> QED BY <1>1, CoreHolds, PTL DEF SiteSpec, RowsKeepResults

-----------------------------------------------------------------------------
\* The dashboard.

LEMMA StepGrowsChain ==
    ASSUME ChainInv, [SiteNext]_siteVars
    PROVE  ChainGrows
<1> USE DEF chainVars
<1>1. CASE UNCHANGED chainVars BY <1>1, ChainStays
<1>2. CASE Presses
  BY <1>1, <1>2 DEF Presses, ShowView, ConnectClick, RunClick, BroadcastClick, BroadcastKeeps
<1>3. CASE Reads
  BY <1>1, <1>3 DEF Reads, ProtoTick, ActivityTick, ProtoArrives, ProtoFails, DashArrives,
                    DashFails, ActivityArrives, ActivityFails
<1>4. CASE WalletAnswers \/ WalletHeard \/ WalletSwitches \/ WalletSigns \/ WalletRefuses
  BY <1>1, <1>4 DEF WalletAnswers, WalletHeard, WalletSwitches, WalletSigns, WalletRefuses
<1>5. CASE AttemptStep
  BY <1>1, <1>5, ForwardKeeps DEF AttemptStep, EthNonceArrives, SendTx, PreflightFails,
                                  Confirmed, ConfirmExpires, Reread
<1>6. CASE AttemptFault
  BY <1>1, <1>6, ForwardKeeps DEF AttemptFault, EthNonceFails, SendAnswerLost, ConfirmFails,
                                  RereadFails
<1>7. CASE \E p \in polls : PollTick(p) \/ PollFails(p)
  BY <1>1, <1>7 DEF PollTick, PollFails, PollKeeps
<1>8. CASE \E s \in sends : BroadcastAnswers(s) \/ BroadcastAnswerLost(s)
  BY <1>1, <1>8 DEF BroadcastAnswers, BroadcastAnswerLost, BroadcastKeeps
<1>9. CASE \E a \in Addresses : OperatorsSign(a) \/ TxResolves(a)
  BY <1>9, RecordKeeps, ResolveKeeps DEF OperatorsSign, TxResolves
<1>10. CASE Elsewhere \/ AccountUsedElsewhere
  BY <1>1, <1>10, ElsewhereKeeps DEF AccountUsedElsewhere
<1>11. CASE Reload \/ ToLanding \/ ToApp
  BY <1>1, <1>11 DEF Reload, ToLanding, ToApp, Open, Load
<1>12. CASE Next
  BY <1>2, <1>3, <1>4, <1>5, <1>6, <1>7, <1>8, <1>9, <1>10, <1>11, <1>12 DEF Next
<1>13. CASE UNCHANGED appVars \/ UNCHANGED siteVars
  BY <1>1, <1>13 DEF appVars, siteVars, vars
<1> QED BY <1>4, <1>9, <1>11, <1>12, <1>13 DEF SiteNext, Meanwhile, CounterStep

SettledRequests(accts) == {a \in Held(accts) : accts[a].aggregate_sig # Zero}

LEMMA SettledGrows ==
    ASSUME ChainInv, ChainInv', ChainGrows
    PROVE  /\ Cardinality(SettledRequests(requests)) \in Nat
           /\ Cardinality(SettledRequests(requests')) \in Nat
           /\ Cardinality(SettledRequests(requests)) <= Cardinality(SettledRequests(requests'))
<1>1. IsFiniteSet(Addresses) BY ClientAssumption, FS_Interval DEF Addresses
<1>2. DOMAIN requests = Addresses /\ DOMAIN requests' = Addresses BY DEF ChainInv
<1>3. SettledRequests(requests') \subseteq Addresses BY <1>2 DEF SettledRequests, Held
<1>4. SettledRequests(requests) \subseteq SettledRequests(requests')
  BY <1>2 DEF SettledRequests, Held, ChainGrows, SignedOnChain
<1>5. IsFiniteSet(SettledRequests(requests')) BY <1>1, <1>3, FS_Subset
<1> QED BY <1>4, <1>5, FS_Subset, FS_CardinalityType

\* At most one scan is waited for; it counted no fewer than what is shown, and
\* nobody counted more than there are now.
DashInv ==
    LET now == Cardinality(SettledRequests(requests))
    IN  /\ \A d, e \in dashReads : d = e
        /\ \A d \in dashReads : d.settled \in Nat /\ d.settled <= now
        /\ dash # NotLoaded =>
               /\ dash.settled \in Nat /\ dash.settled <= now
               /\ \A d \in dashReads : dash.settled <= d.settled

\* What a step does to the dashboard.
DashMoves ==
    \/ UNCHANGED dash /\ dashReads' \subseteq dashReads
    \/ UNCHANGED <<dash, requests>> /\ \E p : dashReads' \subseteq {readDashboard(requests, p)}
    \/ \E d \in dashReads : dash' = d /\ dashReads' = dashReads \ {d} /\ UNCHANGED requests
    \/ dash' = NotLoaded /\ dashReads' = {}

LEMMA StepMovesDash ==
    ASSUME [SiteNext]_siteVars
    PROVE  DashMoves
<1> USE DEF pageVars, callVars, RunKeeps, chainVars
<1>1. CASE UNCHANGED <<dash, dashReads>> BY <1>1 DEF DashMoves
<1>2. \A v, p : DashEffect(v, p) => \E q : dashReads' \subseteq {readDashboard(requests, q)}
  BY DEF DashEffect
<1>3. CASE UNCHANGED <<dash, requests>> /\ \E v, p : DashEffect(v, p)
  BY <1>2, <1>3 DEF DashMoves
<1>4. CASE Presses
  BY <1>1, <1>3, <1>4 DEF Presses, ShowView, ConnectClick, RunClick, BroadcastClick, BroadcastKeeps
<1>5. CASE Reads
  <2>1. CASE \E s \in protoReads : ProtoArrives(s)
    BY <1>3, <2>1 DEF ProtoArrives, SetProto
  <2>2. CASE \E d \in dashReads : DashArrives(d)
    BY <2>2 DEF DashArrives, DashMoves
  <2>3. CASE \E d \in dashReads : DashFails(d)
    BY <2>3 DEF DashFails, DashMoves
  <2> QED BY <1>1, <1>5, <2>1, <2>2, <2>3
          DEF Reads, ProtoTick, ActivityTick, ProtoFails, ActivityArrives, ActivityFails
<1>6. CASE WalletAnswers \/ WalletHeard \/ WalletSwitches \/ WalletSigns \/ WalletRefuses
  BY <1>1, <1>6 DEF WalletAnswers, WalletHeard, WalletSwitches, WalletSigns, WalletRefuses, Rejected
<1>7. CASE AttemptStep
  <2>1. CASE Reread BY <1>3, <2>1 DEF Reread, SetProto
  <2> QED BY <1>1, <1>7, <2>1 DEF AttemptStep, EthNonceArrives, SendTx, PreflightFails,
                                  Confirmed, ConfirmExpires, Rejected
<1>8. CASE AttemptFault
  BY <1>1, <1>8 DEF AttemptFault, EthNonceFails, SendAnswerLost, ConfirmFails, RereadFails,
                    Rejected
<1>9. CASE \E p \in polls : PollTick(p) \/ PollFails(p)
  BY <1>1, <1>9 DEF PollTick, PollFails, PollKeeps
<1>10. CASE \E s \in sends : BroadcastAnswers(s) \/ BroadcastAnswerLost(s)
  BY <1>1, <1>10 DEF BroadcastAnswers, BroadcastAnswerLost, BroadcastKeeps
<1>11. CASE \E a \in Addresses : OperatorsSign(a) \/ TxResolves(a)
  BY <1>1, <1>11 DEF OperatorsSign, TxResolves
<1>12. CASE Elsewhere \/ AccountUsedElsewhere
  BY <1>1, <1>12 DEF Elsewhere, AccountUsedElsewhere
<1>13. CASE Reload \/ ToLanding \/ ToApp
  BY <1>13 DEF Reload, ToLanding, ToApp, Open, Load, DashMoves
<1>14. CASE Next
  BY <1>4, <1>5, <1>6, <1>7, <1>8, <1>9, <1>10, <1>11, <1>12, <1>13, <1>14 DEF Next
<1>15. CASE UNCHANGED appVars \/ UNCHANGED siteVars
  BY <1>1, <1>15 DEF appVars, siteVars, vars
<1> QED BY <1>6, <1>11, <1>13, <1>14, <1>15 DEF SiteNext, Meanwhile, CounterStep

\* A step keeps it, and shows no smaller count than before.
LEMMA DashStep ==
    ASSUME CoreInv, CoreInv', DashInv, [SiteNext]_siteVars
    PROVE  /\ DashInv'
           /\ (dash # NotLoaded /\ dash' # NotLoaded) => dash'.settled >= dash.settled
<1> DEFINE before == Cardinality(SettledRequests(requests))
           after == Cardinality(SettledRequests(requests'))
<1>1. before \in Nat /\ after \in Nat /\ before <= after
  BY StepGrowsChain, SettledGrows DEF CoreInv
<1>2. UNCHANGED requests => before = after OBVIOUS
<1>3. \A p : readDashboard(requests, p).settled = before
  BY DEF readDashboard, SettledRequests
<1>4. /\ \A d, e \in dashReads : d = e
      /\ \A d \in dashReads : d.settled \in Nat /\ d.settled <= before
      /\ dash # NotLoaded => /\ dash.settled \in Nat /\ dash.settled <= before
                             /\ \A d \in dashReads : dash.settled <= d.settled
  BY DEF DashInv
<1>5. /\ \A d, e \in dashReads' : d = e
      /\ \A d \in dashReads' : d.settled \in Nat /\ d.settled <= after
      /\ dash' # NotLoaded => /\ dash'.settled \in Nat /\ dash'.settled <= after
                              /\ \A d \in dashReads' : dash'.settled <= d.settled
      /\ (dash # NotLoaded /\ dash' # NotLoaded) => dash'.settled >= dash.settled
  <2> HIDE DEF before, after
  <2>1. CASE UNCHANGED dash /\ dashReads' \subseteq dashReads BY <1>1, <1>4, <2>1
  <2>2. CASE UNCHANGED <<dash, requests>>
             /\ \E p : dashReads' \subseteq {readDashboard(requests, p)}
    BY <1>1, <1>2, <1>3, <1>4, <2>2
  <2>3. CASE \E d \in dashReads : dash' = d /\ dashReads' = dashReads \ {d} /\ UNCHANGED requests
    BY <1>1, <1>2, <1>4, <2>3
  <2>4. CASE dash' = NotLoaded /\ dashReads' = {} BY <2>4
  <2> QED BY <2>1, <2>2, <2>3, <2>4, StepMovesDash DEF DashMoves
<1> QED BY <1>5 DEF DashInv

\* While a page is open its count of settled requests never falls.
THEOREM CountNeverFalls == SiteSpec => DashMovesForward
<1>1. SiteInit => DashInv BY DEF SiteInit, Init, DashInv
<1>2. CoreInv /\ CoreInv' /\ DashInv /\ [SiteNext]_siteVars => DashInv' BY DashStep
<1>3. CoreInv /\ CoreInv' /\ DashInv /\ [SiteNext]_siteVars =>
          [dash # NotLoaded /\ dash' # NotLoaded =>
              DashboardView(dash', proto').settled >= DashboardView(dash, proto).settled]_siteVars
  BY DashStep DEF DashboardView
<1> QED BY <1>1, <1>2, <1>3, CoreHolds, PTL DEF SiteSpec, DashMovesForward

-----------------------------------------------------------------------------
\* Types.

\* What the invariants above leave open.
RestInv ==
    /\ view \in {"sign", "dashboard", "activity"}
    /\ running = (attempt # NoAttempt)
    /\ budget \in [Acts -> Nat]
    /\ openFaq \in faqs \cup {NoQuestion}
    /\ scene \in {"poster", "waiting", "drawn"}
    /\ sized \subseteq Chips /\ shown \in 0..CountTo

LEMMA SpendKeeps ==
    ASSUME NEW what, budget \in [Acts -> Nat], Spend(what) \/ UNCHANGED budget
    PROVE  budget' \in [Acts -> Nat]
BY DEF Spend

LEMMA StepSpends ==
    ASSUME [SiteNext]_siteVars
    PROVE  UNCHANGED budget \/ \E what : Spend(what)
<1>1. CASE Presses
  BY <1>1 DEF Presses, ShowView, ConnectClick, RunClick, BroadcastClick
<1>2. CASE Reads
  BY <1>2 DEF Reads, ProtoTick, ActivityTick, ProtoArrives, ProtoFails, DashArrives,
              DashFails, ActivityArrives, ActivityFails
<1>3. CASE WalletAnswers \/ WalletHeard \/ WalletSwitches \/ WalletSigns \/ WalletRefuses
  BY <1>3 DEF WalletAnswers, WalletHeard, WalletSwitches, WalletSigns, WalletRefuses
<1>4. CASE AttemptStep
  BY <1>4 DEF AttemptStep, EthNonceArrives, SendTx, PreflightFails, Confirmed,
              ConfirmExpires, Reread
<1>5. CASE AttemptFault
  BY <1>5 DEF AttemptFault, EthNonceFails, SendAnswerLost, ConfirmFails, RereadFails
<1>6. CASE \E p \in polls : PollTick(p) \/ PollFails(p)
  BY <1>6 DEF PollTick, PollFails
<1>7. CASE \E s \in sends : BroadcastAnswers(s) \/ BroadcastAnswerLost(s)
  BY <1>7 DEF BroadcastAnswers, BroadcastAnswerLost
<1>8. CASE \E a \in Addresses : OperatorsSign(a) \/ TxResolves(a)
  BY <1>8 DEF OperatorsSign, TxResolves
<1>9. CASE Elsewhere \/ AccountUsedElsewhere \/ Reload \/ ToLanding \/ ToApp
  BY <1>9 DEF Elsewhere, AccountUsedElsewhere, Reload, ToLanding, ToApp
<1>10. CASE OnLanding
  BY <1>10 DEF OnLanding
<1> QED BY <1>1, <1>2, <1>3, <1>4, <1>5, <1>6, <1>7, <1>8, <1>9, <1>10
        DEF SiteNext, Next, Meanwhile, CounterStep, siteVars, vars

\* The button is disabled as long as a press is served.
LEMMA StepRuns ==
    ASSUME CoreInv, CoreInv', RestInv, wallet \in Wallets \cup {NoWallet}, [SiteNext]_siteVars
    PROVE  view' \in {"sign", "dashboard", "activity"} /\ running' = (attempt' # NoAttempt)
<1> USE DEF RestInv, pageVars, callVars, RunKeeps
<1>1. CASE UNCHANGED <<view, running, attempt>> BY <1>1
<1>2. Rejected => UNCHANGED view /\ running' = FALSE /\ attempt' = NoAttempt
  BY DEF Rejected
<1>3. \A at \in Attempts : at # NoAttempt BY NoAttemptAssumption
<1>4. attempt # NoAttempt => attempt \in Attempts BY DEF CoreInv, AttemptInv, AttemptOK
<1>5. CASE Presses
  <2>1. ASSUME NEW chain \in ChainKeys, NEW text \in Texts, StartAttempt(chain, text),
               wallet # NoWallet
        PROVE  running' = (attempt' # NoAttempt)
    <3>1. attempt' \in Attempts BY <2>1 DEF StartAttempt, Attempts, Stages
    <3> QED BY <1>3, <2>1, <3>1 DEF StartAttempt
  <2>2. ASSUME NEW chain \in ChainKeys, NEW text \in Texts, RunClick(chain, text)
        PROVE  UNCHANGED view /\ running' = (attempt' # NoAttempt)
    BY <2>1, <2>2 DEF RunClick
  <2> QED BY <1>1, <1>5, <2>2 DEF Presses, ShowView, ConnectClick, BroadcastClick, BroadcastKeeps
<1>6. CASE Reads
  BY <1>1, <1>6 DEF Reads, ProtoTick, ActivityTick, ProtoArrives, ProtoFails, DashArrives,
                    DashFails, ActivityArrives, ActivityFails
<1>7. CASE WalletSigns \/ EthNonceArrives \/ Confirmed \/ \E a \in Addresses : SendTx(a)
  <2>1. attempt \in Attempts /\ running = TRUE /\ UNCHANGED <<view, running>>
    BY <1>4, <1>7 DEF WalletSigns, EthNonceArrives, Confirmed, SendTx, In
  <2>2. CASE EthNonceArrives
    <3>1. buildEthTransfer(attempt.text) \in EthTx
      BY <2>1, BuiltTransfers DEF CoreInv, EthInv, Attempts
    <3>2. attempt' \in Attempts BY <2>1, <2>2, <3>1 DEF EthNonceArrives, Attempts, Stages
    <3> QED BY <1>3, <2>1, <3>2
  <2>3. CASE \E a \in Addresses : SendTx(a)
    <3>1. attempt' \in Attempts BY <2>1, <2>3 DEF SendTx, Attempts, Stages
    <3> QED BY <1>3, <2>1, <3>1
  <2>4. CASE WalletSigns \/ Confirmed
    <3>1. attempt' \in Attempts BY <2>1, <2>4 DEF WalletSigns, Confirmed, Attempts, Stages
    <3> QED BY <1>3, <2>1, <3>1
  <2> QED BY <1>7, <2>2, <2>3, <2>4
<1>8. CASE WalletAnswers \/ WalletHeard \/ WalletSwitches \/ WalletRefuses
  BY <1>1, <1>2, <1>8 DEF WalletAnswers, WalletHeard, WalletSwitches, WalletRefuses
<1>9. CASE AttemptStep
  BY <1>2, <1>7, <1>9 DEF AttemptStep, PreflightFails, ConfirmExpires, Reread
<1>10. CASE AttemptFault
  BY <1>2, <1>10 DEF AttemptFault, EthNonceFails, SendAnswerLost, ConfirmFails, RereadFails
<1>11. CASE \E p \in polls : PollTick(p) \/ PollFails(p)
  BY <1>1, <1>11 DEF PollTick, PollFails, PollKeeps
<1>12. CASE \E s \in sends : BroadcastAnswers(s) \/ BroadcastAnswerLost(s)
  BY <1>1, <1>12 DEF BroadcastAnswers, BroadcastAnswerLost, BroadcastKeeps
<1>13. CASE \E a \in Addresses : OperatorsSign(a) \/ TxResolves(a)
  BY <1>1, <1>13 DEF OperatorsSign, TxResolves
<1>14. CASE Elsewhere \/ AccountUsedElsewhere
  BY <1>1, <1>14 DEF Elsewhere, AccountUsedElsewhere
<1>15. CASE Reload \/ ToLanding \/ ToApp
  BY <1>15 DEF Reload, ToLanding, ToApp, Open, Load
<1>16. CASE Next
  BY <1>5, <1>6, <1>7, <1>8, <1>9, <1>10, <1>11, <1>12, <1>13, <1>14, <1>15, <1>16 DEF Next
<1>17. CASE UNCHANGED appVars \/ UNCHANGED siteVars
  BY <1>1, <1>17 DEF appVars, siteVars, vars
<1> QED BY <1>8, <1>13, <1>15, <1>16, <1>17 DEF SiteNext, Meanwhile, CounterStep

LEMMA StepShows ==
    ASSUME RestInv, [SiteNext]_siteVars
    PROVE  /\ openFaq' \in faqs \cup {NoQuestion}
           /\ scene' \in {"poster", "waiting", "drawn"}
           /\ sized' \subseteq Chips /\ shown' \in 0..CountTo
<1> USE DEF RestInv, landingVars, restOfPage, heroVars
<1>0. CountTo \in Nat BY LandingAssumption DEF CounterTargets
<1>1. CASE UNCHANGED <<openFaq, scene, sized, shown>> BY <1>1
<1>2. CASE page = "landing" /\ OnLanding
  <2>1. CASE \E gap \in FrameGaps : SceneFrame(gap)
    BY <2>1 DEF SceneFrame, Frame
  <2>2. CASE SceneMounts BY <2>2 DEF SceneMounts
  <2>3. CASE \E i \in faqs : FaqClick(i) BY <2>3 DEF FaqClick
  <2> QED BY <1>1, <1>2, <2>1, <2>2, <2>3 DEF OnLanding, connectWallet, LoginAnswers, LoginHeard, Scroll
<1>3. CASE CounterStep
  BY <1>0, <1>3 DEF CounterStep, CounterRuns
<1>4. CASE ToLanding \/ ToApp
  BY <1>0, <1>4 DEF ToLanding, ToApp, LandingLoad, LandingLeave, HeroReset, SceneAtLoad, faqs
<1> QED BY <1>1, <1>2, <1>3, <1>4 DEF SiteNext, siteVars

\* The rows, the calls under way and the pages keep their shapes.
THEOREM WebTypeCorrect == SiteSpec => []WebTypeOK
<1>1. SiteInit => RestInv
  <2> SUFFICES ASSUME SiteInit PROVE RestInv OBVIOUS
  <2>1. budget \in [Acts -> Nat] BY WebAssumption DEF SiteInit, Init
  <2>2. view = "sign" /\ running = FALSE /\ attempt = NoAttempt BY DEF SiteInit, Init
  <2>3. /\ openFaq \in faqs \cup {NoQuestion} /\ scene \in {"poster", "waiting", "drawn"}
        /\ sized \subseteq Chips /\ shown \in 0..CountTo
    BY LandingAssumption DEF SiteInit, LandingBlank, HeroInit, faqs, CounterTargets
  <2> QED BY <2>1, <2>2, <2>3 DEF RestInv
<1>2. CoreInv /\ WalletInv /\ CoreInv' /\ RestInv /\ [SiteNext]_siteVars => RestInv'
  <2> SUFFICES ASSUME CoreInv, WalletInv, CoreInv', RestInv, [SiteNext]_siteVars
               PROVE  RestInv'
    OBVIOUS
  <2>1. budget' \in [Acts -> Nat] BY StepSpends, SpendKeeps DEF RestInv
  <2> QED BY <2>1, StepRuns, StepShows DEF RestInv, WalletInv
<1>3. CoreInv /\ WalletInv /\ HeroInv /\ RestInv => WebTypeOK
  <2> SUFFICES ASSUME CoreInv, WalletInv, HeroInv, RestInv PROVE WebTypeOK OBVIOUS
  <2>1. \A r \in IntentRows :
            /\ r.chain \in ChainKeys /\ r.text \in Texts /\ r.request \in Addresses
            /\ r.ethRaw \in EthRaw \cup {NoRaw}
            /\ r.ethSent \in BOOLEAN /\ r.ethErr \in BOOLEAN
    BY DEF IntentRows, Rows, CoreInv, RowsInv, RowOK, IsIntent
  <2>2. \A r \in ErrorRows : r.about \in Addresses \cup {0}
    BY DEF ErrorRows, Rows, CoreInv, RowsInv
  <2>3. attempt # NoAttempt => attempt.stage \in Stages /\ attempt.tx \in EthTx \cup {NoTx}
    BY DEF CoreInv, AttemptInv, AttemptOK, Attempts
  <2>4. /\ \A p \in polls : p.request \in Addresses /\ p.left \in 1..MaxPolls
        /\ \A s \in sends : s.raw \in EthRaw
    BY DEF CoreInv, PollsInv, SendsInv
  <2>5. Len(feed) <= MaxFeed BY DEF CoreInv, FeedInv
  <2>6. login \in Wallets \cup {NoWallet} BY DEF WalletInv
  <2> QED BY <2>1, <2>2, <2>3, <2>4, <2>5, <2>6 DEF WebTypeOK, WalletInv, HeroInv, RestInv
<1>4. SiteInit => HeroInv BY HeroStart
<1>5. HeroInv /\ [SiteNext]_siteVars => HeroInv' BY HeroStep
<1> QED BY <1>1, <1>2, <1>3, <1>4, <1>5, CoreHolds, PTL DEF SiteSpec

-----------------------------------------------------------------------------
\* The activity list.

\* Things told apart by a key fill the places by how many have a greater key.
LEMMA EveryPlaceIsTaken ==
    ASSUME NEW S, IsFiniteSet(S), NEW key \in [S -> Nat],
           \A a, b \in S : key[a] = key[b] => a = b,
           NEW n \in 1..Cardinality(S)
    PROVE  \E a \in S : Cardinality({b \in S : key[b] > key[a]}) = n - 1
<1> DEFINE above(a) == {b \in S : key[b] > key[a]}
           places == 0..(Cardinality(S) - 1)
           place == [a \in S |-> Cardinality(above(a))]
<1>1. Cardinality(S) \in Nat BY FS_CardinalityType
<1>2. ASSUME NEW a \in S, NEW T, T \subseteq S \ {a}
      PROVE  /\ IsFiniteSet(T) /\ Cardinality(T) \in Nat
             /\ Cardinality(T) <= Cardinality(S) - 1
  <2>1. IsFiniteSet(S \ {a}) /\ Cardinality(S \ {a}) = Cardinality(S) - 1
    BY FS_RemoveElement
  <2> QED BY <1>2, <2>1, FS_Subset, FS_CardinalityType
<1>3. ASSUME NEW a \in S
      PROVE  IsFiniteSet(above(a)) /\ place[a] \in places
  <2>1. above(a) \subseteq S \ {a} OBVIOUS
  <2> QED BY <1>1, <1>2, <2>1
<1>4. ASSUME NEW a \in S, NEW b \in S, key[a] > key[b]
      PROVE  place[a] < place[b]
  <2>1. a \in above(b) /\ above(a) \subseteq above(b) \ {a} BY <1>4
  <2>2. /\ IsFiniteSet(above(b) \ {a})
        /\ Cardinality(above(b) \ {a}) = Cardinality(above(b)) - 1
    BY <1>3, <2>1, FS_RemoveElement
  <2>3. Cardinality(above(a)) <= Cardinality(above(b) \ {a})
    BY <2>1, <2>2, FS_Subset
  <2>4. Cardinality(above(a)) \in Nat /\ Cardinality(above(b)) \in Nat
    BY <1>3, FS_CardinalityType
  <2> QED BY <2>2, <2>3, <2>4
<1>5. place \in [S -> places] BY <1>3
<1>6. \A a, b \in S : place[a] = place[b] => a = b
  <2> SUFFICES ASSUME NEW a \in S, NEW b \in S, place[a] = place[b] PROVE a = b
    OBVIOUS
  <2>1. place[a] \in Int /\ place[b] \in Int
    <3>1. places \subseteq Int BY <1>1
    <3> HIDE DEF place, places
    <3> QED BY <1>3, <3>1
  <2>2. ~(key[a] > key[b]) /\ ~(key[b] > key[a])
    <3> HIDE DEF place
    <3> QED BY <1>4, <2>1
  <2>3. key[a] \in Nat /\ key[b] \in Nat OBVIOUS
  <2> QED BY <2>2, <2>3
<1>7. place \in Injection(S, places)
  <2> HIDE DEF place, places
  <2> QED BY <1>5, <1>6 DEF Injection, IsInjective
<1>8. IsFiniteSet(places) /\ Cardinality(places) = Cardinality(S)
  <2>1. Cardinality(S) - 1 \in Int /\ ~(0 > Cardinality(S) - 1) BY <1>1
  <2>2. IsFiniteSet(places) /\ Cardinality(places) = (Cardinality(S) - 1) - 0 + 1
    BY <2>1, FS_Interval
  <2> QED BY <1>1, <2>2
<1>9. place \in Surjection(S, places)
  <2> HIDE DEF place, places
  <2> QED BY <1>7, <1>8, FS_Injection
<1>10. n - 1 \in places BY <1>1
<1>11. \E a \in S : place[a] = n - 1
  <2> HIDE DEF place, places
  <2> QED BY <1>9, <1>10 DEF Surjection
<1> QED BY <1>11

\* What a scan of the accounts may have seen: requests of those who sent the
\* transactions that made them, told apart by their ids.
Snapshot(accts, net) ==
    /\ DOMAIN accts = Addresses
    /\ \A a \in Held(accts) :
           /\ net[a].fate # "unused"
           /\ accts[a].requester = net[a].tx.requester
           /\ accts[a].request_id \in Nat
    /\ \A a, b \in Held(accts) : accts[a].request_id = accts[b].request_id => a = b

\* A list of the requests of w.
ListOf(w, items, net) ==
    \A i \in DOMAIN items :
        /\ items[i].request \in Addresses
        /\ net[items[i].request].fate # "unused"
        /\ net[items[i].request].tx.requester = w

LEMMA ListIsOwn ==
    ASSUME NEW accts, NEW net, Snapshot(accts, net), NEW now, NEW w
    PROVE  ListOf(w, readMyActivity(accts, now, w), net)
<1> DEFINE own == {a \in Held(accts) : accts[a].requester = w}
           key == [a \in own |-> accts[a].request_id]
           Nth(n) == CHOOSE a \in own :
                        Cardinality({b \in own : accts[b].request_id > accts[a].request_id}) = n - 1
<1>1. own \subseteq Addresses BY DEF Snapshot, Held
<1>2. IsFiniteSet(own)
  <2>1. IsFiniteSet(Addresses) BY ClientAssumption, FS_Interval DEF Addresses
  <2> QED BY <1>1, <2>1, FS_Subset
<1>3. key \in [own -> Nat] /\ \A a, b \in own : key[a] = key[b] => a = b
  BY DEF Snapshot
<1>4. ASSUME NEW n \in 1..Cardinality(own)
      PROVE  Nth(n) \in own
  <2>1. \E a \in own : Cardinality({b \in own : key[b] > key[a]}) = n - 1
    <3> HIDE DEF own, key
    <3> QED BY <1>2, <1>3, EveryPlaceIsTaken
  <2>2. \A a \in own : {b \in own : key[b] > key[a]} =
                       {b \in own : accts[b].request_id > accts[a].request_id}
    OBVIOUS
  <2>3. \E a \in own :
            Cardinality({b \in own : accts[b].request_id > accts[a].request_id}) = n - 1
    <3> HIDE DEF own, key
    <3> QED BY <2>1, <2>2
  <2> HIDE DEF own
  <2> QED BY <2>3
<1>5. readMyActivity(accts, now, w) =
          [n \in 1..Cardinality(own) |-> ActivityItem(Nth(n), accts[Nth(n)], now)]
  BY DEF readMyActivity
<1>6. ASSUME NEW n \in 1..Cardinality(own)
      PROVE  /\ readMyActivity(accts, now, w)[n].request = Nth(n)
             /\ Nth(n) \in own
  <2> HIDE DEF own, Nth
  <2> QED BY <1>4, <1>5 DEF ActivityItem
<1>7. ASSUME NEW a \in own
      PROVE  /\ a \in Addresses /\ net[a].fate # "unused"
             /\ net[a].tx.requester = w
  BY <1>1 DEF Snapshot
<1>8. DOMAIN readMyActivity(accts, now, w) = 1..Cardinality(own) BY <1>5
<1> HIDE DEF own, Nth
<1> QED BY <1>6, <1>7, <1>8 DEF ListOf

\* What the ids of requests rest on: the protocol's counter, which is beyond
\* all of them.
LedgerInv ==
    /\ protocol \in ProtocolAccounts \cup {NoAccount}
    /\ Snapshot(requests, network)
    /\ \A a \in Held(requests) :
           protocol # NoAccount /\ requests[a].request_id < protocol.request_nonce

\* What a step does to the accounts.
ChainMoves ==
    \/ UNCHANGED <<protocol, requests>>
    \/ \E a \in Addresses : \E tx :
           Create(a, tx) /\ (Fresh(a) \/ (network[a].fate = "flying" /\ network[a].tx = tx))
                         /\ protocol # NoAccount
    \/ \E a \in Addresses : CloseRequest(a) \/ \E sig : OperatorsRecord(a, sig)
    \/ SetChanges

LEMMA StepMovesChain ==
    ASSUME [SiteNext]_siteVars
    PROVE  ChainMoves
<1> USE DEF chainVars
<1>1. CASE UNCHANGED <<protocol, requests>> BY <1>1 DEF ChainMoves
<1>2. CASE Presses
  BY <1>1, <1>2 DEF Presses, ShowView, ConnectClick, RunClick, BroadcastClick, BroadcastKeeps
<1>3. CASE Reads
  BY <1>1, <1>3 DEF Reads, ProtoTick, ActivityTick, ProtoArrives, ProtoFails, DashArrives,
                    DashFails, ActivityArrives, ActivityFails
<1>4. CASE WalletAnswers \/ WalletHeard \/ WalletSwitches \/ WalletSigns \/ WalletRefuses
  BY <1>1, <1>4 DEF WalletAnswers, WalletHeard, WalletSwitches, WalletSigns, WalletRefuses
<1>5. CASE AttemptStep
  BY <1>1, <1>5 DEF AttemptStep, EthNonceArrives, SendTx, Forward, PreflightFails,
                    Confirmed, ConfirmExpires, Reread
<1>6. CASE AttemptFault
  BY <1>1, <1>6 DEF AttemptFault, EthNonceFails, SendAnswerLost, Forward, ConfirmFails,
                    RereadFails
<1>7. CASE \E p \in polls : PollTick(p) \/ PollFails(p)
  BY <1>1, <1>7 DEF PollTick, PollFails, PollKeeps
<1>8. CASE \E s \in sends : BroadcastAnswers(s) \/ BroadcastAnswerLost(s)
  BY <1>1, <1>8 DEF BroadcastAnswers, BroadcastAnswerLost, BroadcastKeeps
<1>9. CASE \E a \in Addresses : OperatorsSign(a) \/ TxResolves(a)
  <2>1. CASE \E a \in Addresses : OperatorsSign(a)
    BY <2>1 DEF OperatorsSign, ChainMoves
  <2>2. CASE \E a \in Addresses : TxResolves(a)
    BY <1>1, <2>2 DEF TxResolves, TxLands, TxExpires, ProgramAccepts, ChainMoves
  <2> QED BY <1>9, <2>1, <2>2
<1>10. CASE Elsewhere
  <2>1. CASE \E a \in Addresses, w \in Wallets, chain \in ChainKeys, text \in Texts :
                 OthersPost(a, w, OthersTx(w, chain, text))
    BY <2>1 DEF OthersPost, ProgramAccepts, ChainMoves
  <2>2. CASE SlotPasses BY <1>1, <2>2 DEF SlotPasses
  <2> QED BY <1>10, <2>1, <2>2 DEF Elsewhere, ChainMoves
<1>11. CASE Reload \/ ToLanding \/ ToApp \/ AccountUsedElsewhere
  BY <1>1, <1>11 DEF Reload, ToLanding, ToApp, Open, Load, AccountUsedElsewhere
<1>12. CASE Next
  BY <1>2, <1>3, <1>4, <1>5, <1>6, <1>7, <1>8, <1>9, <1>10, <1>11, <1>12 DEF Next
<1>13. CASE UNCHANGED appVars \/ UNCHANGED siteVars
  BY <1>1, <1>13 DEF appVars, siteVars, vars
<1> QED BY <1>4, <1>9, <1>11, <1>12, <1>13 DEF SiteNext, Meanwhile, CounterStep

LEMMA SnapshotStays ==
    ASSUME NEW accts, Snapshot(accts, network), ChainGrows
    PROVE  Snapshot(accts, network')
BY DEF Snapshot, Held, ChainGrows

\* Create draws the counter, every other step keeps requesters and ids.
LEMMA LedgerStep ==
    ASSUME ChainInv, ChainInv', LedgerInv, [SiteNext]_siteVars
    PROVE  LedgerInv'
<1>1. ASSUME NEW b \in Held(requests)
      PROVE  /\ network'[b].fate # "unused"
             /\ requests[b].requester = network'[b].tx.requester
             /\ requests[b].request_id \in Nat
  BY StepGrowsChain DEF LedgerInv, Snapshot, Held, ChainGrows
<1>2. DOMAIN requests = Addresses /\ DOMAIN requests' = Addresses BY DEF ChainInv
<1>3. ASSUME protocol' \in ProtocolAccounts \cup {NoAccount},
             \A a \in Held(requests') :
                 /\ a \in Held(requests)
                 /\ requests'[a].requester = requests[a].requester
                 /\ requests'[a].request_id = requests[a].request_id,
             protocol # NoAccount => /\ protocol' # NoAccount
                                     /\ protocol'.request_nonce = protocol.request_nonce
      PROVE  LedgerInv'
  BY <1>1, <1>2, <1>3 DEF LedgerInv, Snapshot
<1>4. CASE UNCHANGED <<protocol, requests>> BY <1>3, <1>4 DEF LedgerInv, Held
<1>5. ASSUME NEW a \in Addresses, CloseRequest(a) PROVE LedgerInv'
  <2>1. UNCHANGED protocol /\ \A b \in Held(requests') : b \in Held(requests)
                                                        /\ requests'[b] = requests[b]
    BY <1>2, <1>5 DEF CloseRequest, Held
  <2> QED BY <1>3, <2>1 DEF LedgerInv
<1>6. ASSUME NEW a \in Addresses, NEW sig, OperatorsRecord(a, sig) PROVE LedgerInv'
  <2>1. UNCHANGED protocol /\ \A b \in Held(requests') :
                                  /\ b \in Held(requests)
                                  /\ requests'[b].requester = requests[b].requester
                                  /\ requests'[b].request_id = requests[b].request_id
    <3>1. \A b \in Addresses \ {a} : requests'[b] = requests[b]
      BY <1>6 DEF ChainInv, OperatorsRecord
    <3>2. requests'[a] = [requests[a] EXCEPT !.aggregate_sig = sig] /\ a \in Held(requests)
      BY <1>2, <1>6 DEF ChainInv, OperatorsRecord, Held
    <3> QED BY <1>2, <1>6, <3>1, <3>2 DEF OperatorsRecord, Held
  <2> QED BY <1>3, <2>1 DEF LedgerInv
<1>7. CASE SetChanges
  <2>1. UNCHANGED requests BY <1>7 DEF SetChanges
  <2>2. CASE protocol = NoAccount
    <3>1. Held(requests') = {} /\ protocol' \in ProtocolAccounts
      BY <1>7, <2>1, <2>2 DEF SetChanges, LedgerInv, ProtocolAccounts
    <3> QED BY <1>3, <2>2, <3>1
  <2>3. CASE protocol # NoAccount
    <3>1. PICK n \in 0..MaxOperators :
              protocol' = [protocol EXCEPT !.operator_count = n, !.total_bonded = n * Bond]
      BY <1>7, <2>3 DEF SetChanges
    <3>2. n \in Nat /\ n * Bond \in Nat BY ClientAssumption
    <3>3. protocol' \in ProtocolAccounts /\ protocol'.request_nonce = protocol.request_nonce
      BY <2>3, <3>1, <3>2 DEF LedgerInv, ProtocolAccounts
    <3> QED BY <1>3, <2>1, <3>3, NoAccountAssumption DEF Held
  <2> QED BY <2>2, <2>3
<1>8. ASSUME NEW a \in Addresses, NEW tx, Create(a, tx), protocol # NoAccount,
             Fresh(a) \/ (network[a].fate = "flying" /\ network[a].tx = tx)
      PROVE  LedgerInv'
  <2>1. \A b \in Addresses \ {a} : requests'[b] = requests[b]
    BY <1>8 DEF ChainInv, Create
  <2>2. requests'[a] = NewRequest(tx) /\ network'[a] = [fate |-> "created", tx |-> tx]
    BY <1>8 DEF ChainInv, Create
  <2>3. /\ requests'[a].requester = tx.requester
        /\ requests'[a].request_id = protocol.request_nonce
        /\ network'[a].tx = tx /\ network'[a].fate # "unused"
    BY <2>2 DEF NewRequest
  <2>4. protocol \in ProtocolAccounts /\ protocol.request_nonce \in Nat
    BY <1>8 DEF LedgerInv, ProtocolAccounts
  <2>5. /\ protocol' \in ProtocolAccounts
        /\ protocol'.request_nonce = protocol.request_nonce + 1
    BY <1>8, <2>4 DEF Create, ProtocolAccounts
  <2>6. \A b \in Held(requests') \ {a} :
            /\ b \in Held(requests) /\ b \in Addresses \ {a}
            /\ requests'[b] = requests[b]
            /\ requests[b].request_id \in Nat
            /\ requests[b].request_id < protocol.request_nonce
            /\ network'[b].fate # "unused"
            /\ requests[b].requester = network'[b].tx.requester
    BY <1>1, <1>2, <2>1 DEF Held, LedgerInv, Snapshot
  <2>7. \A b, c \in Held(requests') :
            requests'[b].request_id = requests'[c].request_id => b = c
    <3>1. ASSUME NEW b \in Held(requests'), NEW c \in Held(requests'),
                 requests'[b].request_id = requests'[c].request_id
          PROVE  b = c
      <4>1. CASE b = a \/ c = a BY <2>3, <2>4, <2>6, <3>1, <4>1
      <4>2. CASE b # a /\ c # a BY <2>6, <3>1, <4>2 DEF LedgerInv, Snapshot
      <4> QED BY <4>1, <4>2
    <3> QED BY <3>1
  <2>8. protocol' # NoAccount BY <2>5, NoAccountAssumption
  <2>9. Snapshot(requests', network') BY <1>2, <2>3, <2>4, <2>6, <2>7 DEF Snapshot
  <2> QED BY <2>3, <2>4, <2>5, <2>6, <2>8, <2>9 DEF LedgerInv
<1> QED BY <1>4, <1>5, <1>6, <1>7, <1>8, StepMovesChain DEF ChainMoves

\* What is on its way for the list, and what is shown, is the wallet's.
ActivityInv ==
    /\ \A r \in activityReads :
           /\ view = "activity" /\ wallet # NoWallet
           /\ r.wallet = wallet /\ Snapshot(r.accts, network)
    /\ (view = "activity" /\ wallet # NoWallet /\ activity # NotLoaded)
           => ListOf(wallet, activity, network)

\* What a step does to the list.
ActivityMoves ==
    \/ UNCHANGED <<view, wallet, activity>> /\ activityReads' \subseteq activityReads
    \/ /\ view = "activity" /\ wallet # NoWallet
       /\ activityReads' = activityReads \cup {ActivityRead(wallet)}
       /\ UNCHANGED <<view, wallet, activity, requests>>
    \/ ActivityEffect(view', wallet') /\ UNCHANGED requests
    \/ /\ UNCHANGED <<view, wallet>> /\ activityReads' \subseteq activityReads
       /\ \/ activity' = <<>>
          \/ \E r \in activityReads : activity' = readMyActivity(r.accts, slot, r.wallet)
    \/ view' = "sign" /\ activityReads' = {}

LEMMA StepMovesActivity ==
    ASSUME [SiteNext]_siteVars
    PROVE  ActivityMoves
<1> USE DEF pageVars, callVars, RunKeeps, chainVars
<1>1. CASE UNCHANGED <<view, wallet, activity, activityReads>> BY <1>1 DEF ActivityMoves
<1>2. CASE Presses
  <2>1. CASE \E v \in {"sign", "dashboard", "activity"} : ShowView(v)
    BY <2>1 DEF ShowView, ActivityMoves
  <2> QED BY <1>1, <1>2, <2>1 DEF Presses, ConnectClick, RunClick, BroadcastClick, BroadcastKeeps
<1>3. CASE Reads
  <2>1. CASE ActivityTick BY <2>1 DEF ActivityTick, ActivityMoves
  <2>2. CASE \E r \in activityReads : ActivityArrives(r)
    BY <2>2 DEF ActivityArrives, ActivityMoves
  <2>3. CASE \E r \in activityReads : ActivityFails(r)
    BY <2>3 DEF ActivityFails, ActivityMoves
  <2> QED BY <1>1, <1>3, <2>1, <2>2, <2>3
          DEF Reads, ProtoTick, ProtoArrives, ProtoFails, SetProto, DashArrives, DashFails
<1>4. CASE WalletHeard
  <2>1. PICK w : SetWallet(w) BY <1>4 DEF WalletHeard
  <2>2. UNCHANGED <<view, requests>> BY <1>4 DEF WalletHeard
  <2> QED BY <1>1, <2>1, <2>2 DEF SetWallet, ActivityMoves
<1>5. CASE WalletAnswers \/ WalletSwitches \/ WalletSigns \/ WalletRefuses
  BY <1>1, <1>5 DEF WalletAnswers, WalletSwitches, WalletSigns, WalletRefuses, Rejected
<1>6. CASE AttemptStep
  BY <1>1, <1>6 DEF AttemptStep, EthNonceArrives, SendTx, PreflightFails, Confirmed,
                    ConfirmExpires, Reread, SetProto, Rejected
<1>7. CASE AttemptFault
  BY <1>1, <1>7 DEF AttemptFault, EthNonceFails, SendAnswerLost, ConfirmFails, RereadFails,
                    Rejected
<1>8. CASE \E p \in polls : PollTick(p) \/ PollFails(p)
  BY <1>1, <1>8 DEF PollTick, PollFails, PollKeeps
<1>9. CASE \E s \in sends : BroadcastAnswers(s) \/ BroadcastAnswerLost(s)
  BY <1>1, <1>9 DEF BroadcastAnswers, BroadcastAnswerLost, BroadcastKeeps
<1>10. CASE \E a \in Addresses : OperatorsSign(a) \/ TxResolves(a)
  BY <1>1, <1>10 DEF OperatorsSign, TxResolves
<1>11. CASE Elsewhere \/ AccountUsedElsewhere
  BY <1>1, <1>11 DEF Elsewhere, AccountUsedElsewhere
<1>12. CASE Reload \/ ToLanding \/ ToApp
  BY <1>12 DEF Reload, ToLanding, ToApp, Open, Load, ActivityMoves
<1>13. CASE Next
  BY <1>2, <1>3, <1>4, <1>5, <1>6, <1>7, <1>8, <1>9, <1>10, <1>11, <1>12, <1>13 DEF Next
<1>14. CASE UNCHANGED appVars \/ UNCHANGED siteVars
  BY <1>1, <1>14 DEF appVars, siteVars, vars
<1> QED BY <1>5, <1>10, <1>12, <1>13, <1>14 DEF SiteNext, Meanwhile, CounterStep

LEMMA ActivityInit ==
    ASSUME SiteInit
    PROVE  LedgerInv /\ ActivityInv
<1> USE DEF SiteInit, Init
<1>1. protocol \in ProtocolAccounts \cup {NoAccount}
  BY ClientAssumption DEF ProtocolAccounts
<1>2. DOMAIN requests = Addresses /\ Held(requests) = {} BY DEF Held
<1>3. ActivityInv BY DEF ActivityInv
<1> QED BY <1>1, <1>2, <1>3 DEF LedgerInv, Snapshot

LEMMA ActivityStep ==
    ASSUME ChainInv, ChainInv', LedgerInv, ActivityInv, [SiteNext]_siteVars
    PROVE  ActivityInv'
<1>1. ChainGrows BY StepGrowsChain
<1>2. LedgerInv' BY LedgerStep
<1>3. \A accts : Snapshot(accts, network) => Snapshot(accts, network') BY <1>1, SnapshotStays
<1>4. \A w, items : ListOf(w, items, network) => ListOf(w, items, network')
  BY <1>1 DEF ListOf, ChainGrows
<1>5. ASSUME UNCHANGED requests, NEW w
      PROVE  ActivityRead(w).wallet = w /\ Snapshot(ActivityRead(w).accts, network')
  BY <1>2, <1>5 DEF ActivityRead, LedgerInv, Snapshot
<1>6. CASE UNCHANGED <<view, wallet, activity>> /\ activityReads' \subseteq activityReads
  BY <1>3, <1>4, <1>6 DEF ActivityInv
<1>7. CASE /\ view = "activity" /\ wallet # NoWallet
           /\ activityReads' = activityReads \cup {ActivityRead(wallet)}
           /\ UNCHANGED <<view, wallet, activity, requests>>
  BY <1>3, <1>4, <1>5, <1>7 DEF ActivityInv
<1>8. CASE ActivityEffect(view', wallet') /\ UNCHANGED requests
  <2>1. CASE view' = "activity" /\ wallet' # NoWallet
    <3>1. activity' = NotLoaded /\ activityReads' = {ActivityRead(wallet')}
      BY <1>8, <2>1 DEF ActivityEffect, StillLive
    <3> QED BY <1>5, <1>8, <2>1, <3>1 DEF ActivityInv
  <2>2. CASE ~(view' = "activity" /\ wallet' # NoWallet)
    BY <1>8, <2>2 DEF ActivityEffect, StillLive, ActivityInv
  <2> QED BY <2>1, <2>2
<1>9. CASE /\ UNCHANGED <<view, wallet>> /\ activityReads' \subseteq activityReads
           /\ activity' = <<>>
  <2>1. ListOf(wallet', <<>>, network') BY DEF ListOf
  <2> QED BY <1>3, <1>9, <2>1 DEF ActivityInv
<1>10. ASSUME UNCHANGED <<view, wallet>>, activityReads' \subseteq activityReads,
              NEW r \in activityReads, activity' = readMyActivity(r.accts, slot, r.wallet)
       PROVE  ActivityInv'
  <2>1. ListOf(wallet, readMyActivity(r.accts, slot, r.wallet), network)
    BY ListIsOwn DEF ActivityInv
  <2>2. ListOf(wallet', activity', network')
    BY <1>4, <1>10, <2>1
  <2> QED BY <1>3, <1>10, <2>2 DEF ActivityInv
<1>11. CASE view' = "sign" /\ activityReads' = {} BY <1>11 DEF ActivityInv
<1> QED BY <1>6, <1>7, <1>8, <1>9, <1>10, <1>11, StepMovesActivity DEF ActivityMoves

\* Every request the activity page lists was posted by the wallet that the
\* header's button names.
THEOREM ActivityIsTheWallets == SiteSpec => []ActivityIsOwn
<1>1. SiteInit => LedgerInv /\ ActivityInv BY ActivityInit
<1>2. CoreInv /\ CoreInv' /\ LedgerInv /\ ActivityInv /\ [SiteNext]_siteVars
          => LedgerInv' /\ ActivityInv'
  BY LedgerStep, ActivityStep DEF CoreInv
<1>3. CoreInv /\ LedgerInv /\ ActivityInv => ActivityIsOwn
  <2> SUFFICES ASSUME CoreInv, LedgerInv, ActivityInv, view = "activity",
                      NEW i \in DOMAIN ActivityView(wallet, activity).items,
                      LET q == ActivityView(wallet, activity).items[i].request
                      IN  requests[q] # NoAccount
               PROVE  LET q == ActivityView(wallet, activity).items[i].request
                      IN  requests[q].requester = ConnectButton(wallet)
    BY DEF ActivityIsOwn
  <2>1. /\ wallet # NoWallet /\ activity # NotLoaded /\ i \in DOMAIN activity
        /\ ActivityView(wallet, activity).items[i].request = activity[i].request
    BY DEF ActivityView
  <2>2. /\ activity[i].request \in Addresses
        /\ network[activity[i].request].tx.requester = wallet
    BY <2>1 DEF ActivityInv, ListOf
  <2> QED BY <2>1, <2>2 DEF LedgerInv, Snapshot, Held, ConnectButton
<1> QED BY <1>1, <1>2, <1>3, CoreHolds, PTL DEF SiteSpec

=============================================================================
