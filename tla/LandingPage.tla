---------------------------- MODULE LandingPage ----------------------------
(***************************************************************************)
(* web/app/page.tsx, the landing page: the wallet login of its three       *)
(* buttons, the scene that is mounted late, a counter that runs up when it *)
(* is scrolled into view, the questions, and the latency chart.            *)
(*                                                                         *)
(* All counters are the same component; one stands for them.               *)
(***************************************************************************)
EXTENDS WalletExtension, HeroScene, Sequences, Integers

CONSTANTS
    NoQuestion,
    CountTo             \* the counter's number, among CounterTargets

VARIABLES
    login, loginCalls,      \* the wallet shown, the calls under way
    scene,                  \* "poster", "waiting" or "drawn"
    visible, inView, shown, \* the counter: on the screen, seen, its display
    openFaq

landingVars == <<login, loginCalls, scene, visible, inView, shown, openFaq, heroVars>>
restOfPage == <<login, loginCalls, scene, openFaq, heroVars>>

-----------------------------------------------------------------------------
\* The latency chart: coordination time is rounds by time per round.

latency ==
    << [chain |-> "Solana", rounds |-> 3, perRoundMs |-> 400],
       [chain |-> "L1 at 12s", rounds |-> 3, perRoundMs |-> 12000],
       [chain |-> "L1 at 15s", rounds |-> 3, perRoundMs |-> 15000] >>

\* A bar's width is 100 sqrt(total / longest), at least 6, here rounded down;
\* its label the rounded ratio to the first bar, which has none.
LatencyChart ==
    LET Total(i) == latency[i].rounds * latency[i].perRoundMs
        base == Total(1)
        longest == CHOOSE n \in {Total(i) : i \in DOMAIN latency} :
                       \A i \in DOMAIN latency : Total(i) <= n
        Width(i) == CHOOSE w \in 0..100 :
                        /\ w * w * longest <= 10000 * Total(i)
                        /\ 10000 * Total(i) < (w + 1) * (w + 1) * longest
    IN  [i \in DOMAIN latency |->
            [width |-> IF Width(i) < 6 THEN 6 ELSE Width(i),
             slower |-> IF i = 1 THEN 1 ELSE (2 * Total(i) + base) \div (2 * base)]]

\* Longer takes a longer bar and a larger multiplier, the longest fills the row,
\* and the least width is not needed for the chains listed.
ASSUME ChartIsMonotone ==
    /\ \A i, j \in DOMAIN latency :
           latency[i].perRoundMs < latency[j].perRoundMs =>
               /\ LatencyChart[i].width < LatencyChart[j].width
               /\ LatencyChart[i].slower < LatencyChart[j].slower
    /\ LatencyChart[3].width = 100
    /\ LatencyChart[1].width > 6

-----------------------------------------------------------------------------
CounterTargets == {5, 2, 0}

\* The questions, by number.
faqs == 0..2

ASSUME LandingAssumption == CountTo \in CounterTargets /\ NoQuestion \notin faqs

\* webglAvailable, asked once when the page is loaded: a poster stands in for
\* the scene for good where there is no WebGL, and otherwise until the browser
\* is idle.
SceneAtLoad == {"poster", "waiting"}

\* The page before it is opened.
LandingBlank ==
    /\ login = NoWallet /\ loginCalls = <<>>
    /\ scene = "poster"
    /\ visible = FALSE /\ inView = FALSE /\ shown = 0
    /\ openFaq = 0
    /\ HeroInit

\* The page is loaded.
LandingLoad(w) ==
    /\ login' = w /\ loginCalls' = <<>>
    /\ scene' \in SceneAtLoad
    /\ visible' = FALSE /\ inView' = FALSE /\ shown' = 0
    /\ openFaq' = 0
    /\ HeroReset

\* The page is left: timers, animations and calls go with it.
LandingLeave ==
    /\ login' = NoWallet /\ loginCalls' = <<>>
    /\ scene' = "poster"
    /\ visible' = FALSE /\ inView' = FALSE /\ shown' = 0
    /\ openFaq' = 0
    /\ HeroReset

\* connectWallet, from any of the three buttons.
connectWallet ==
    /\ loginCalls' = Append(loginCalls, CallFor(login))
    /\ UNCHANGED <<login, scene, visible, inView, shown, openFaq, heroVars, provider>>

LoginAnswers ==
    /\ \E i \in DOMAIN loginCalls : Answers(loginCalls, i, loginCalls')
    /\ UNCHANGED <<login, scene, visible, inView, shown, openFaq, heroVars>>

\* connectWallet goes on after its await.
LoginHeard ==
    /\ \E i \in DOMAIN loginCalls :
           /\ loginCalls[i].shows # Unanswered
           /\ login' = loginCalls[i].shows
           /\ loginCalls' = WithoutCall(loginCalls, i)
    /\ UNCHANGED <<scene, visible, inView, shown, openFaq, heroVars, provider>>

\* What the buttons say.
LoginButton == IF login = NoWallet THEN "Connect Wallet" ELSE login

\* The browser is idle, or the time is up.
SceneMounts ==
    /\ scene = "waiting"
    /\ scene' = "drawn"
    /\ UNCHANGED <<login, loginCalls, visible, inView, shown, openFaq, heroVars, provider>>

SceneFrame(gap) ==
    /\ scene = "drawn"
    /\ Frame(gap)
    /\ UNCHANGED <<login, loginCalls, scene, visible, inView, shown, openFaq, provider>>

\* useInView with once: once seen, it stays so.
Seen(v) == v \/ inView

\* The counter is scrolled into view, or out of it.
Scroll ==
    /\ visible' = ~visible
    /\ inView' = Seen(visible')
    /\ UNCHANGED <<shown, restOfPage, provider>>

\* The animation goes on while the effect that started it is not cleaned up;
\* the display is the rounded value.
CounterRuns ==
    /\ inView /\ shown < CountTo
    /\ \E n \in 1..CountTo : n > shown /\ shown' = n
    /\ UNCHANGED <<visible, inView, restOfPage, provider>>

\* A question is opened, in place of another, or closed.
FaqClick(i) ==
    /\ openFaq' = IF openFaq = i THEN NoQuestion ELSE i
    /\ UNCHANGED <<login, loginCalls, scene, visible, inView, shown, heroVars, provider>>
=============================================================================
