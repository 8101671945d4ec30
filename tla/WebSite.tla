------------------------------ MODULE WebSite ------------------------------
(***************************************************************************)
(* The site: the landing page, which is deployed with a copy of the        *)
(* product page, in one tab.  What the pages share is the wallet           *)
(* extension: connecting on one connects the other.  Following a link      *)
(* loads the other page afresh.                                            *)
(***************************************************************************)
EXTENDS WebApp, LandingPage

VARIABLE page           \* "app" or "landing"

siteVars == <<vars, landingVars, page>>
appVars == <<chainVars, ethVars, pageVars, callVars>>

SiteInit ==
    /\ Init
    /\ LandingBlank
    /\ page = "app"

\* Links, and the address bar.
ToLanding ==
    /\ page = "app" /\ page' = "landing"
    /\ Spend("reloads")
    /\ Load(NoWallet, {})
    /\ LandingLoad(InitialWallet)

ToApp ==
    /\ page = "landing" /\ page' = "app"
    /\ Spend("reloads")
    /\ Open
    /\ LandingLeave

OnLanding ==
    \/ Spend("connects") /\ connectWallet
    \/ (LoginAnswers \/ LoginHeard) /\ UNCHANGED budget
    \/ SceneMounts /\ UNCHANGED budget
    \/ \E gap \in FrameGaps :
           /\ SceneFrame(gap)
           /\ budget["periods"] > 0
           /\ IF t + gap >= PERIOD THEN Spend("periods") ELSE UNCHANGED budget
    \/ Spend("scrolls") /\ Scroll
    \/ \E i \in faqs : Spend("shows") /\ FaqClick(i)

\* The browser draws the next frame of the counter.
CounterStep ==
    /\ page = "landing" /\ CounterRuns
    /\ UNCHANGED <<appVars, budget, page>>

\* What the landing page does not wait for goes on.
Meanwhile == \E a \in Addresses : OperatorsSign(a) \/ TxResolves(a)

SiteNext ==
    \/ page = "app" /\ Next /\ UNCHANGED <<landingVars, page>>
    \/ page = "landing" /\ OnLanding /\ UNCHANGED <<appVars, page>>
    \/ page = "landing" /\ Meanwhile /\ UNCHANGED <<landingVars, page>>
    \/ page = "landing" /\ WalletSwitches /\ UNCHANGED <<landingVars, page>>
    \/ CounterStep
    \/ ToLanding \/ ToApp

SiteSpec == SiteInit /\ [][SiteNext]_siteVars /\ Fairness
=============================================================================
