-------------------------- MODULE FrostProperties --------------------------
(***************************************************************************)
(* What is claimed of a networked FROST session.                           *)
(***************************************************************************)
EXTENDS FrostRounds

\* Progress: as long as a process or a read loop can go on, one of them does
\* (frost.go:57-75).  Sessions are finite, so it need not matter which.
FairSpec == Spec /\ WF_vars(\E i \in Operators : Transport(i) \/ Step(i))

\* A timer that is waited for fires (frost.go:71, network.go:494-502).
TimersFire == WF_vars(\E i \in Operators : Timer(i))

----------------------------------------------------------------------------

Tags == {RoundTag[1], RoundTag[2], "Fin"}

Frames == [tag : Tags, valid : BOOLEAN]

Envelopes == [from : Operators, frame : Frames]

Results ==
    [kind : {"none", "key", "signature", "verified"}]
        \cup [kind : {"culprit"}, operator : Operators]

\* Type correctness, with what an operator's round says of its state.
TypeOK ==
    /\ conns \in [Operators -> SUBSET Operators]
    /\ wire \in [Links -> Seq(Frames)]
    /\ inbox \in [Operators -> Seq(Envelopes)]
    /\ errs \in [Operators -> SUBSET Operators]
    /\ fins \in [Operators -> SUBSET Operators]
    /\ finished \in [Operators -> BOOLEAN]
    /\ closed \in [Operators -> BOOLEAN]
    /\ round \in [Operators -> 0..3]
    /\ todo \in [Operators -> SUBSET Operators]
    /\ got \in [Operators -> SUBSET Envelopes]
    /\ status \in [Operators -> {"running", "done", "aborted", "crashed"}]
    /\ cause \in [Operators -> {"none", "crash", "timeout", "frame", "transport"}]
    /\ result \in [Operators -> Results]

----------------------------------------------------------------------------
\* Safety.

\* The FIN barrier (network.go:471-477): an operator whose barrier completed
\* has closed its connections only after every other operator had its own
\* result, so nobody was waiting for it.
BarrierHolds ==
    \A i, j \in Operators :
        status[i] = "done" /\ cause[i] = "none" => finished[j]

\* A session only ever fails for a reason: where an operator gave up on the
\* transport, some operator had died, run out of time or refused a frame.  An
\* operator that ended in good order is never taken for a lost one
\* (network.go:384-396).
AbortHasRootCause ==
    (\E i \in Operators : cause[i] = "transport") =>
        \E j \in Operators : cause[j] \in {"crash", "timeout", "frame"}

\* What collectRound refuses is always a frame of round 2 that met an operator
\* still collecting round 1, never a second or an old one (frost.go:64-69).
OnlyEarlyFramesRefused ==
    [][\A i \in Operators :
          cause[i] = "none" /\ cause'[i] = "frame" =>
              round[i] = 1 /\ Head(inbox[i]).frame.tag = RoundTag[2]]_vars

\* A session implements SigningSession.
Blamed == {result[i].operator : i \in {k \in Operators : result[k].kind = "culprit"}}

SessionView == INSTANCE SigningSession WITH
    committed <- {i \in Operators : round[i] >= 1},
    shared <- {i \in Operators : round[i] >= 2},
    judged <- {i \in Operators : result[i].kind # "none"},
    blamed <- Blamed

ImplementsSession == SessionView!Spec

----------------------------------------------------------------------------
\* What drives a session on.

CanMesh(i) ==
    \/ \E j \in Peers(i) : i < j /\ j \notin conns[i] /\ ~closed[i] /\ ~closed[j]
    \/ /\ Running(i) /\ round[i] = 0
       /\ MeshComplete(i) \/ \E j \in Peers(i) \ conns[i] : closed[j]

CanSend(i) == Running(i) /\ round[i] # 0 /\ todo[i] \cap Peers(i) # {}

CanCollect(i) == Collecting(i) /\ (inbox[i] # <<>> \/ errs[i] # {})

CanConclude(i) ==
    \/ HasAll(i)
    \/ i \in Cheaters /\ Running(i) /\ round[i] = 2 /\ todo[i] = {}

\* The guards of Transport and of Step, put together.
CanGo(i) ==
    \/ \E j \in Peers(i) : CanRead(i, j)
    \/ CanMesh(i) \/ CanSend(i) \/ CanCollect(i) \/ CanConclude(i)
    \/ InBarrier(i) /\ fins[i] = Peers(i)

RootCauses == {"crash", "timeout", "frame"}

\* Nobody waits for somebody who waits: as long as an operator without a result
\* runs, some operator or read loop can go on without any timer, whatever died;
\* and where nothing went wrong, until the last one has left through the
\* barrier (frost.go:57-85, network.go:479-502).
NeverStalls ==
    (\E i \in Operators :
        Running(i) /\ (finished[i] => \A j \in Operators : cause[j] \notin RootCauses))
            => \E i \in Operators : CanGo(i)

\* What a session comes to: everybody out in good order, or a reason why not.
Completed ==
    \/ \A i \in Operators : status[i] = "done" /\ cause[i] = "none"
    \/ \E i \in Operators : cause[i] \in RootCauses

----------------------------------------------------------------------------
\* Liveness.

\* Every operator's process comes to an end, whoever dies or stalls
\* (HARDENING.md:217-218, "never hang").
EverybodyEnds == TimersFire => <>(\A i \in Operators : ~Running(i))

\* If nobody dies, runs out of time or is refused a frame, everybody gets its
\* result and leaves through the barrier.
SessionCompletes == <>Completed

----------------------------------------------------------------------------
\* Claims that fail.

\* "an out-of-round frame is a protocol violation" (frost.go:52-54): among
\* honest operators no frame is refused.
OutOfRoundIsViolation ==
    Cheaters = {} => \A i \in Operators : cause[i] # "frame"
=============================================================================
