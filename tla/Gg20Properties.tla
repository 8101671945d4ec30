--------------------------- MODULE Gg20Properties ---------------------------
(***************************************************************************)
(* What is claimed of a networked GG20 session and its fault quorum.       *)
(***************************************************************************)
EXTENDS Gg20Driver

\* Progress: as long as a process, a read loop or a 2 s grace window can go on,
\* one of them does (protocol.go:46, 115).  Sessions are finite, so it need not
\* matter which.
FairSpec == Spec /\ WF_vars(\E i \in Operators : Transport(i) \/ Step(i))

\* A timer that is waited for fires (protocol.go:66, 158, network.go:494-502).
TimersFire == WF_vars(\E i \in Operators : Timer(i))

----------------------------------------------------------------------------

PartyFrames == [tag : {"Party"}, round : 1..LastRound, valid : BOOLEAN]

Frames == PartyFrames \cup {FinFrame}

Envelopes == [from : Operators, frame : PartyFrames]

Outgoing == [round : 1..LastRound, to : SUBSET Operators]

\* Type correctness.
Gg20TypeOK ==
    /\ session \in {"keygen", "sign"}
    /\ misbehave \in SUBSET Cheaters
    /\ conns \in [Operators -> SUBSET Operators]
    /\ wire \in [Links -> Seq(Frames)]
    /\ inbox \in [Operators -> Seq(Envelopes)]
    /\ errs \in [Operators -> SUBSET Operators]
    /\ fins \in [Operators -> SUBSET Operators]
    /\ finished \in [Operators -> BOOLEAN]
    /\ closed \in [Operators -> BOOLEAN]
    /\ party \in [Operators -> 0..Finished]
    /\ held \in [Operators -> SUBSET Envelopes]
    /\ outCh \in [Operators -> Seq(Outgoing)]
    /\ driver \in [Operators -> {"select", "dispatch", "grace", "barrier"}]
    /\ todo \in [Operators -> SUBSET Operators]
    /\ status \in [Operators -> {"running", "done", "aborted", "faulted", "crashed"}]
    /\ cause \in [Operators -> {"none", "crash", "timeout", "fault", "transport"}]
    /\ blame \in [Operators -> SUBSET Operators]

----------------------------------------------------------------------------
\* Safety.

\* What fault-verify hands to the slashing instruction (fault.go:178-211)
\* names, by its index in the directory, an operator that cheated.
SlashIsDeserved == Slashable \subseteq {Global[c] : c \in misbehave}

\* No operator comes out of a session somebody cheats in with a result, and
\* no honest one goes on beyond the round that finds out, in whatever order
\* frames, disconnects and attestations come (protocol.go:77-84).
CheatIsNeverSigned ==
    misbehave # {} =>
        \A i \in Operators : ~finished[i] /\ (i \notin misbehave /\ party[i] >= 3 => cause[i] = "fault")

\* An operator gives up on the transport, its grace window over, only where
\* some operator died, ran out of time or has attested a culprit: an anonymous
\* abort (protocol.go:131-149) never stands alone.
AbortHasRootCause ==
    (\E i \in Operators : cause[i] = "transport") =>
        \E j \in Operators : cause[j] \in {"crash", "timeout", "fault"}

----------------------------------------------------------------------------
\* A session implements RoundSession.

Rounds == INSTANCE RoundSession WITH
    cheaters <- misbehave,
    round <- party,
    blamed <- blame,
    succeeded <- {i \in Operators : finished[i]},
    left <- {i \in Operators : status[i] = "done" /\ cause[i] = "none"}

\* Every session is one of RoundSession: the parties move in step, a culprit
\* is named before anybody is past round 3, and a barrier that ends without
\* its timer has everybody's result (protocol.go:53-165).
ImplementsRounds == Rounds!Spec

----------------------------------------------------------------------------
\* What drives a session on.

CanParty(i) ==
    \/ Running(i) /\ party[i] = 0
    \/ Selecting(i) /\ (inbox[i] # <<>> \/ errs[i] # {} \/ party[i] = Finished)

CanSend(i) ==
    \E j \in Peers(i) : Dispatching(i, j) \/ (Running(i) /\ driver[i] = "barrier" /\ j \in todo[i])

\* The guards of Transport and of Step, put together.
CanGo(i) ==
    \/ \E j \in Peers(i) : CanRead(i, j)
    \/ CanParty(i) \/ CanSend(i)
    \/ Running(i) /\ driver[i] = "grace"
    \/ InBarrier(i) /\ fins[i] = Peers(i)

Undecided(i) == Running(i) /\ ~finished[i]

\* The driver of j has entered its barrier, and with it dropped what its party
\* had still to send to i.
DroppedFor(j, i) ==
    Running(j) /\ finished[j] /\ \E n \in DOMAIN outCh[j] : i \in outCh[j][n].to

\* Nobody waits for somebody who waits: as long as an operator without a result
\* runs, some driver, grace window or read loop can go on without any timer,
\* whoever died; but for messages that a peer dropped (protocol.go:46-69, 115-161).
NeverStalls ==
    (\E i \in Operators : Undecided(i)) =>
        \/ \E i \in Operators : CanGo(i)
        \/ \E i \in Operators : Undecided(i) /\ \E j \in Peers(i) : DroppedFor(j, i)

\* What a session comes to: a result, a culprit attested, or a reason why not.
Decided ==
    \E i \in Operators : finished[i] \/ cause[i] \in {"fault", "crash", "timeout"}

----------------------------------------------------------------------------
\* Liveness.

\* Every operator's process comes to an end, whoever dies, stalls or cheats
\* (HARDENING.md:217-218, "never hang").
EverybodyEnds == TimersFire => <>(\A i \in Operators : ~Running(i))

\* Unless somebody dies or runs out of time, some operator gets its result or
\* attests the culprit, although the driver drops what its party has still to
\* send, and whatever comes behind a disconnect.
SessionDecides == <>Decided

----------------------------------------------------------------------------
\* Claims that fail.

\* "so no operator tears down the mesh while a peer still needs its final
\* broadcast" (protocol.go:61-62): where an operator has closed after its
\* result, a peer without one at least has its last message.
FinalBroadcastFirst ==
    \A i \in Operators : \A j \in Peers(i) :
        status[i] = "done" /\ Running(j) /\ ~finished[j] =>
            \/ \E m \in held[j] : m.from = i /\ m.frame.round = LastRound
            \/ \E k \in DOMAIN inbox[j] : inbox[j][k].from = i /\ inbox[j][k].frame.round = LastRound
            \/ \E k \in DOMAIN wire[<<i, j>>] :
                  LET frame == wire[<<i, j>>][k]
                  IN  frame.tag = "Party" /\ frame.round = LastRound
=============================================================================
