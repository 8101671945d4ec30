---------------------------- MODULE FrostRounds ----------------------------
(***************************************************************************)
(* Networked FROST, engine/kobe-ecdsa/net/frost.go, as the frost-operator  *)
(* command runs it: one session, key generation or signing, of one process *)
(* per operator over the mesh.  The cryptography is kobe's C ABI           *)
(* (engine/kobe/src/ffi.rs); all that matters of a payload is its tag and, *)
(* for a signature share, whether it verifies.                             *)
(*                                                                         *)
(* A timer may fire at any moment, so the lengths of the time-outs do not  *)
(* matter.                                                                 *)
(***************************************************************************)
EXTENDS Mesh

CONSTANTS
    Session,    \* "frost-keygen" or "frost-sign"
    Aggregator, \* the operator that keeps the signature
    Cheaters,   \* operators started with -misbehave
    Timers,     \* operators whose timers may fire
    Mortals     \* operators whose processes may die

ASSUME SessionAssumption ==
    /\ Session \in {"frost-keygen", "frost-sign"}
    /\ Cheaters \subseteq Operators
    /\ Session = "frost-keygen" => Cheaters = {}

VARIABLES
    round,      \* round[i]: 0 mesh coming up, 1 and 2 the rounds, 3 the FIN barrier
    todo,       \* todo[i]: peers that what i is sending has not gone to yet
    got,        \* got[i]: the frames of this round that i has collected
    status,     \* status[i]: how the process of i is doing
    cause,      \* cause[i]: why it ended before its time
    result      \* result[i]: what the cryptography returned to it

driverVars == <<round, todo, got, status, cause, result>>

vars == <<meshVars, driverVars>>

RoundTag ==
    IF Session = "frost-keygen" THEN <<"DKGRound1", "DKGRound2">>
                                ELSE <<"SignRound1", "SignRound2">>

\* What i sends in a round: a cheater flips a byte of its signature share.
RoundFrame(i, r) == [tag |-> RoundTag[r], valid |-> r = 1 \/ i \notin Cheaters]

\* The first of a set of operators, in the order of their identifiers.
First(S) == CHOOSE i \in S : \A j \in S : i <= j

Collected(i) == {e.from : e \in got[i]}

Init ==
    /\ MeshInit
    /\ round = [i \in Operators |-> 0]
    /\ todo = [i \in Operators |-> {}]
    /\ got = [i \in Operators |-> {}]
    /\ status = [i \in Operators |-> "running"]
    /\ cause = [i \in Operators |-> "none"]
    /\ result = [i \in Operators |-> [kind |-> "none"]]

Running(i) == status[i] = "running"

\* The misbehaving operator waits for nobody's share.
Waiting(i) ==
    /\ Running(i) /\ todo[i] = {}
    /\ round[i] = 1 \/ (round[i] = 2 /\ i \notin Cheaters)

Collecting(i) == Waiting(i) /\ Collected(i) # Peers(i)

HasSome(i) == Waiting(i) /\ Collected(i) # {}

HasAll(i) == Waiting(i) /\ Collected(i) = Peers(i)

----------------------------------------------------------------------------
\* Ways out.  Whether main returns or log.Fatalf exits, the process ends: its
\* connections close and its channels are gone.

Exit(i, how, why) ==
    /\ status' = [status EXCEPT ![i] = how]
    /\ cause' = [cause EXCEPT ![i] = why]
    /\ todo' = [todo EXCEPT ![i] = {}]
    /\ got' = [got EXCEPT ![i] = {}]
    /\ Teardown(i)
    /\ UNCHANGED <<round, result>>

Abort(i, why) == Exit(i, "aborted", why)

Crash(i) == i \in Mortals /\ Running(i) /\ Exit(i, "crashed", "crash")

----------------------------------------------------------------------------
\* Start.

Connect(i, j) == Handshake(i, j) /\ UNCHANGED driverVars

EnterRoundOffByOne(i, r) ==
    /\ round' = [round EXCEPT ![i] = r + 1]
    /\ todo' = [todo EXCEPT ![i] = Peers(i)]
    /\ got' = [got EXCEPT ![i] = {}]

EnterRound(i, r) ==
    /\ round' = [round EXCEPT ![i] = r]
    /\ todo' = [todo EXCEPT ![i] = Peers(i)]
    /\ got' = [got EXCEPT ![i] = {}]

\* The mesh is up: compute the first round's package.
MeshUp(i) ==
    /\ Running(i) /\ round[i] = 0
    /\ MeshComplete(i)
    /\ EnterRound(i, 1)
    /\ UNCHANGED <<meshVars, status, cause, result>>

\* A peer that is gone can not be dialled, and does not dial.
MeshFails(i) ==
    /\ Running(i) /\ round[i] = 0
    /\ \E j \in Peers(i) \ conns[i] : closed[j]
    /\ Abort(i, "transport")

MeshTimesOut(i) ==
    /\ i \in Timers
    /\ Running(i) /\ round[i] = 0
    /\ Abort(i, "timeout")

----------------------------------------------------------------------------
\* Broadcast and SendTo write to one connection after the other.

SendRound(i, j) ==
    /\ Running(i) /\ round[i] \in {1, 2} /\ j \in todo[i]
    /\ Push(i, j, RoundFrame(i, round[i]))
    /\ todo' = [todo EXCEPT ![i] = @ \ {j}]
    /\ UNCHANGED <<conns, inbox, errs, fins, finished, closed, round, got, status, cause, result>>

SendFails(i, j) ==
    /\ Running(i) /\ round[i] \in {1, 2} /\ j \in todo[i]
    /\ closed[j]
    /\ Abort(i, "transport")

----------------------------------------------------------------------------
\* collectRound, and what follows it.

AggregatorVerdict(i, frames) ==
    LET bad == {e.from : e \in {x \in frames : ~x.frame.valid}}
    IN  CASE Session = "frost-keygen" -> [kind |-> "key"]
          [] Session = "frost-sign" /\ i = Aggregator /\ bad # {} ->
                [kind |-> "culprit", operator |-> First(bad)]
          [] OTHER -> [kind |-> IF i = Aggregator THEN "signature" ELSE "verified"]

\* frost_aggregate names the first signer whose share does not verify.
Verdict(i, frames) ==
    LET bad == {e.from : e \in {x \in frames : ~x.frame.valid}}
    IN  CASE Session = "frost-keygen" -> [kind |-> "key"]
          [] Session = "frost-sign" /\ bad # {} -> [kind |-> "culprit", operator |-> First(bad)]
          [] OTHER -> [kind |-> IF i = Aggregator THEN "signature" ELSE "verified"]

\* Fin marks the operator finished before it sends anything.
EnterFin(i) ==
    /\ finished' = [finished EXCEPT ![i] = TRUE]
    /\ EnterRound(i, 3)

Expected(i, e) == e.frame.tag = RoundTag[round[i]] /\ e.from \notin Collected(i)

TakeFrame(i) ==
    /\ Collecting(i) /\ inbox[i] # <<>>
    /\ Expected(i, Head(inbox[i]))
    /\ inbox' = [inbox EXCEPT ![i] = Tail(@)]
    /\ got' = [got EXCEPT ![i] = @ \cup {Head(inbox[i])}]
    /\ UNCHANGED <<conns, wire, errs, fins, finished, closed, round, todo, status, cause, result>>

\* An envelope of another round, or a second one, aborts the session.
RejectFrame(i) ==
    /\ Collecting(i) /\ inbox[i] # <<>>
    /\ ~Expected(i, Head(inbox[i]))
    /\ Abort(i, "frame")

\* select takes any channel that is ready.
AbortOnError(i) ==
    /\ Collecting(i)
    /\ errs[i] # {}
    /\ Abort(i, "transport")

RoundTimesOut(i) ==
    /\ i \in Timers
    /\ Collecting(i)
    /\ Abort(i, "timeout")

\* All commitments are in: compute the share.
EnterRound2(i) ==
    /\ HasAll(i) /\ round[i] = 1
    /\ EnterRound(i, 2)
    /\ UNCHANGED <<meshVars, status, cause, result>>

\* All shares are in: part 3, or aggregate and verify.
Conclude(i) ==
    /\ HasAll(i) /\ round[i] = 2
    /\ result' = [result EXCEPT ![i] = Verdict(i, got[i])]
    /\ EnterFin(i)
    /\ UNCHANGED <<conns, wire, inbox, errs, fins, closed, status, cause>>

CheaterConcludes(i) ==
    /\ Running(i) /\ round[i] = 2 /\ todo[i] = {}
    /\ i \in Cheaters
    /\ EnterFin(i)
    /\ UNCHANGED <<conns, wire, inbox, errs, fins, closed, status, cause, result>>

----------------------------------------------------------------------------
\* The completion barrier.  Errors of sending a FIN are ignored.

SendFin(i, j) ==
    /\ Running(i) /\ round[i] = 3 /\ j \in todo[i]
    /\ Push(i, j, FinFrame)
    /\ todo' = [todo EXCEPT ![i] = @ \ {j}]
    /\ UNCHANGED <<conns, inbox, errs, fins, finished, closed, round, got, status, cause, result>>

InBarrier(i) == Running(i) /\ round[i] = 3 /\ todo[i] = {}

LeaveAtOnce(i) == InBarrier(i) /\ Exit(i, "done", "none")

Leave(i) == InBarrier(i) /\ fins[i] = Peers(i) /\ Exit(i, "done", "none")

BarrierTimesOut(i) ==
    /\ i \in Timers
    /\ InBarrier(i) /\ fins[i] # Peers(i)
    /\ Exit(i, "done", "timeout")

----------------------------------------------------------------------------

Transport(i) == \E j \in Peers(i) : ReadLoop(i, j) /\ UNCHANGED driverVars

Send(i) == \E j \in Peers(i) : SendRound(i, j) \/ SendFails(i, j) \/ SendFin(i, j)

Step(i) ==
    \/ \E j \in Peers(i) : Connect(i, j)
    \/ MeshUp(i) \/ MeshFails(i)
    \/ Send(i)
    \/ TakeFrame(i) \/ RejectFrame(i) \/ AbortOnError(i)
    \/ EnterRound2(i) \/ Conclude(i) \/ CheaterConcludes(i)
    \/ Leave(i)

TimerButBarrier(i) == MeshTimesOut(i) \/ RoundTimesOut(i)

Timer(i) == MeshTimesOut(i) \/ RoundTimesOut(i) \/ BarrierTimesOut(i)

Next == \E i \in Operators : Transport(i) \/ Step(i) \/ Timer(i) \/ Crash(i)

Spec == Init /\ [][Next]_vars
=============================================================================
