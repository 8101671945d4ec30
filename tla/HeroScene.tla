----------------------------- MODULE HeroScene -----------------------------
(***************************************************************************)
(* HeroScene.tsx: the animation of the landing page, a press that takes    *)
(* the operators' chips and emits a signature, over and over.              *)
(*                                                                         *)
(* What a frame draws is a function of the time within the period, except  *)
(* that a chip keeps the size that an earlier frame gave it: the branch of *)
(* a docked chip sets its place and its opacity only.  Frames come when    *)
(* the browser pleases, and not at all while the tab is hidden, whereas    *)
(* the clock runs on.  Times are in fiftieths of a second.                 *)
(***************************************************************************)
EXTENDS Naturals

CONSTANT FrameGaps      \* the times between two frames

ASSUME FrameGapsAssumption == FrameGaps \subseteq Nat \ {0}

VARIABLES
    t,                  \* elapsedTime % PERIOD of the last frame
    sized,              \* the chips whose scale is not 0
    stalled             \* a frame took longer than a docking in this period

heroVars == <<t, sized, stalled>>

PERIOD == 250
N == 5
IMPACT == 140

Chips == 0..(N - 1)
DockStart(i) == 15 + 18 * i
DockDur == 35

\* pressAmount is not 0: the head is off its rest.
PressMoves(now) == 125 < now /\ now < 185

\* sealGlow is not 0.
SealGlows(now) == IMPACT < now /\ now < 230

\* "sockets glow when their chip is docked": the glow that a socket tends to.
Filled(i, now) == DockStart(i) + DockDur <= now /\ now < IMPACT

\* The aggregated signature is visible.
Emitted(now) == IMPACT <= now /\ now < 245

\* The timeline tells the story in order: the chips dock one after another, all
\* are docked before the head moves, a signature comes out after the last of
\* them and not before the seal glows, the sockets are dark by then, and what is
\* lit goes out before the period ends.
ASSUME TimelineInOrder ==
    /\ \A i, j \in Chips : i < j => DockStart(i) < DockStart(j)
    /\ \A now \in 0..(PERIOD - 1) :
           /\ PressMoves(now) => \A i \in Chips : now >= DockStart(i) + DockDur
           /\ SealGlows(now) => Emitted(now) /\ \A i \in Chips : ~Filled(i, now)
           /\ Emitted(now) => ~\E i \in Chips : now < DockStart(i) + DockDur
    /\ ~Emitted(PERIOD - 1) /\ ~SealGlows(PERIOD - 1) /\ ~PressMoves(PERIOD - 1)

\* Faulty variant: the docking branch leaves the scale alone too.
SizedAtKeep(i, now) ==
    IF now < DockStart(i) THEN FALSE
    ELSE IF now < IMPACT THEN i \in sized
    ELSE now < 159

\* What a frame makes of a chip: hidden, docking, docked, shrinking (its scale
\* is 1 - (now - IMPACT) / 0.38), consumed.
SizedAt(i, now) ==
    IF now < DockStart(i) THEN FALSE
    ELSE IF now < DockStart(i) + DockDur THEN TRUE
    ELSE IF now < IMPACT THEN i \in sized
    ELSE now < 159

HeroInit == t = 0 /\ sized = {} /\ stalled = FALSE

\* useFrame, `gap` after the last: the clock may pass the end of the period.
Frame(gap) ==
    LET now == (t + gap) % PERIOD
        wraps == t + gap >= PERIOD
    IN  /\ t' = now
        /\ sized' = {i \in Chips : SizedAt(i, now)}
        /\ stalled' = (gap > DockDur \/ (stalled /\ ~wraps))

\* The canvas is mounted anew.
HeroReset == t' = 0 /\ sized' = {} /\ stalled' = FALSE
=============================================================================
