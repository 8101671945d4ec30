----------------------------- MODULE Gg20Driver -----------------------------
(***************************************************************************)
(* Networked GG20, engine/kobe-ecdsa/net/protocol.go, as the operator      *)
(* command runs it, and the fault quorum of fault.go: one session, key     *)
(* generation or signing, of one process per operator over the mesh.  The  *)
(* mesh is up when the driver is called; FrostRounds has how it comes up.  *)
(*                                                                         *)
(* The tss-lib party is external.  It puts what it sends into outCh, keeps *)
(* what comes early, and goes on within one Update as far as the messages  *)
(* it holds allow; the proofs of round 2 are verified on entering round 3. *)
(*                                                                         *)
(* Operators are the quorum-local indices, Global their directory indices. *)
(* A timer may fire at any moment.                                         *)
(***************************************************************************)
EXTENDS Mesh, FiniteSets

CONSTANTS
    LastRound,  \* the last round in which a party sends
    Cheaters,   \* operators that may be started with -misbehave
    Timers,     \* operators whose inactivity timers may fire
    Mortals,    \* operators whose processes may die
    Global,     \* Global[i]: the operator that is i in this quorum
    Need        \* how many attesters fault-verify asks for

ASSUME Gg20Assumption ==
    /\ LastRound \in Nat /\ LastRound >= 3
    /\ Cheaters \subseteq Operators
    /\ Global \in [Operators -> Nat]
    /\ \A i, j \in Operators : Global[i] = Global[j] => i = j
    /\ Need \in Nat \ {0}

VARIABLES
    session,    \* the phase that is run, "keygen" or "sign"
    misbehave,  \* the operators that were started with -misbehave
    party,      \* party[i]: the round of i's party, 0 before Start
    held,       \* held[i]: the messages i's party has stored
    outCh,      \* outCh[i]: what the party sends: rounds, and to whom yet
    driver,     \* driver[i]: where i's driver is
    todo,       \* todo[i]: peers i's FIN has not gone to yet
    status,     \* status[i]: how the process of i is doing
    cause,      \* cause[i]: why it ended before its time
    blame       \* blame[i]: the first culprit of i's FaultError, a set

started == <<session, misbehave>>

driverVars == <<started, party, held, outCh, driver, todo, status, cause, blame>>

vars == <<meshVars, driverVars>>

Finished == LastRound + 1

Init ==
    /\ session \in {"keygen", "sign"}
    /\ misbehave \in SUBSET Cheaters /\ (session = "keygen" => misbehave = {})
    /\ conns = [i \in Operators |-> Peers(i)]
    /\ wire = [link \in Links |-> <<>>]
    /\ inbox = [i \in Operators |-> <<>>]
    /\ errs = [i \in Operators |-> {}]
    /\ fins = [i \in Operators |-> {}]
    /\ finished = [i \in Operators |-> FALSE]
    /\ closed = [i \in Operators |-> FALSE]
    /\ party = [i \in Operators |-> 0]
    /\ held = [i \in Operators |-> {}]
    /\ outCh = [i \in Operators |-> <<>>]
    /\ driver = [i \in Operators |-> "select"]
    /\ todo = [i \in Operators |-> {}]
    /\ status = [i \in Operators |-> "running"]
    /\ cause = [i \in Operators |-> "none"]
    /\ blame = [i \in Operators |-> {}]

Running(i) == status[i] = "running"

Selecting(i) == Running(i) /\ driver[i] = "select"

----------------------------------------------------------------------------
\* Ways out: main returns or log.Fatalf exits, and the process ends.

Exit(i, how, why) ==
    /\ status' = [status EXCEPT ![i] = how]
    /\ cause' = [cause EXCEPT ![i] = why]
    /\ held' = [held EXCEPT ![i] = {}]
    /\ outCh' = [outCh EXCEPT ![i] = <<>>]
    /\ todo' = [todo EXCEPT ![i] = {}]
    /\ Teardown(i)
    /\ UNCHANGED <<started, driver>>

Abort(i, why) == Exit(i, "aborted", why) /\ UNCHANGED <<party, blame>>

Crash(i) ==
    /\ i \in Mortals /\ Running(i)
    /\ Exit(i, "crashed", "crash") /\ UNCHANGED <<party, blame>>

----------------------------------------------------------------------------
\* The party.

\* What a party puts into outCh when it goes from round p on to round q.
Emitted(i, p, q) ==
    [k \in 1..((IF q = Finished THEN LastRound ELSE q) - p) |->
        [round |-> p + k, to |-> Peers(i)]]

\* The goroutine that starts the party.
StartParty(i) ==
    /\ Running(i) /\ party[i] = 0
    /\ party' = [party EXCEPT ![i] = 1]
    /\ outCh' = [outCh EXCEPT ![i] = @ \o Emitted(i, 0, 1)]
    /\ UNCHANGED <<meshVars, started, held, driver, todo, status, cause, blame>>

HasRound(i, messages, r) ==
    \A j \in Peers(i) : \E m \in messages : m.from = j /\ m.frame.round = r

\* How far Update takes a party that holds these messages.
Reached(i, messages) ==
    IF party[i] = 0 THEN 0
    ELSE CHOOSE q \in party[i]..Finished :
            /\ \A r \in party[i]..(q - 1) : HasRound(i, messages, r)
            /\ q = Finished \/ ~HasRound(i, messages, q)

\* Those whose proof of round 2 does not verify.
Culprits(messages) == {m.from : m \in {x \in messages : x.frame.round = 2 /\ ~x.frame.valid}}

\* Round 3 verifies what round 2 brought.
Verifies(i, messages) == party[i] < 3 /\ Reached(i, messages) >= 3

----------------------------------------------------------------------------
\* dispatch: a broadcast goes to every connection before select runs again,
\* point-to-point messages are dispatched one by one.

PointToPoint(r) == r = 2

\* RunSignMisbehaving tampers with its messages of round 2.
PartyFrame(i, r) == [tag |-> "Party", round |-> r, valid |-> ~(r = 2 /\ i \in misbehave)]

Dispatching(i, j) ==
    /\ Running(i) /\ driver[i] \in {"select", "dispatch"}
    /\ outCh[i] # <<>> /\ j \in Head(outCh[i]).to

\* Faulty variant: only the first recipient is sent to.
DispatchToFirst(i, j) ==
    /\ Dispatching(i, j)
    /\ Push(i, j, PartyFrame(i, Head(outCh[i]).round))
    /\ outCh' = [outCh EXCEPT ![i] = Tail(@)]
    /\ UNCHANGED <<conns, inbox, errs, fins, finished, closed>>
    /\ UNCHANGED <<started, party, held, driver, todo, status, cause, blame>>

Dispatch(i, j) ==
    /\ Dispatching(i, j)
    /\ LET r == Head(outCh[i]).round
           left == Head(outCh[i]).to \ {j}
       IN  /\ Push(i, j, PartyFrame(i, r))
           /\ outCh' = [outCh EXCEPT ![i] =
                            IF left = {} THEN Tail(@)
                            ELSE <<[round |-> r, to |-> left]>> \o Tail(@)]
           /\ driver' = [driver EXCEPT ![i] =
                            IF left = {} \/ PointToPoint(r) THEN "select" ELSE "dispatch"]
    /\ UNCHANGED <<conns, inbox, errs, fins, finished, closed>>
    /\ UNCHANGED <<started, party, held, todo, status, cause, blame>>

DispatchFails(i, j) ==
    /\ Dispatching(i, j)
    /\ closed[j]
    /\ Abort(i, "transport")

----------------------------------------------------------------------------
\* feed: the next envelope goes into the party.

Fed(i) == held[i] \cup {Head(inbox[i])}

Feeding(i) == Selecting(i) /\ inbox[i] # <<>>

\* Faulty variant: an error of Update is not looked at.
FeedUnchecked(i) ==
    /\ Feeding(i)
    /\ held' = [held EXCEPT ![i] = Fed(i)]
    /\ inbox' = [inbox EXCEPT ![i] = Tail(@)]
    /\ party' = [party EXCEPT ![i] = Reached(i, Fed(i))]
    /\ outCh' = [outCh EXCEPT ![i] = @ \o Emitted(i, party[i], Reached(i, Fed(i)))]
    /\ UNCHANGED <<conns, wire, errs, fins, finished, closed>>
    /\ UNCHANGED <<started, driver, todo, status, cause, blame>>

Feed(i) ==
    /\ Feeding(i)
    /\ ~(Verifies(i, Fed(i)) /\ Culprits(Fed(i)) # {})
    /\ held' = [held EXCEPT ![i] = Fed(i)]
    /\ inbox' = [inbox EXCEPT ![i] = Tail(@)]
    /\ party' = [party EXCEPT ![i] = Reached(i, Fed(i))]
    /\ outCh' = [outCh EXCEPT ![i] = @ \o Emitted(i, party[i], Reached(i, Fed(i)))]
    /\ UNCHANGED <<conns, wire, errs, fins, finished, closed>>
    /\ UNCHANGED <<started, driver, todo, status, cause, blame>>

\* A FaultError: main attests the first culprit, of an order tss-lib leaves
\* open, and returns.
FeedFaults(i) ==
    /\ Feeding(i)
    /\ Verifies(i, Fed(i)) /\ Culprits(Fed(i)) # {}
    /\ \E c \in Culprits(Fed(i)) : blame' = [blame EXCEPT ![i] = {c}]
    /\ party' = [party EXCEPT ![i] = 3]
    /\ Exit(i, "faulted", "fault")

----------------------------------------------------------------------------
\* The other cases of the select.

\* A lost peer ends key generation at once, signing after the grace window.
TakeError(i) ==
    /\ Selecting(i) /\ errs[i] # {}
    /\ \/ session = "keygen" /\ Abort(i, "transport")
       \/ /\ session = "sign"
          /\ driver' = [driver EXCEPT ![i] = "grace"]
          /\ UNCHANGED <<meshVars, started, party, held, outCh, todo, status, cause, blame>>

\* The window reads the error of Start, which names nobody, and ends.
GraceEnds(i) ==
    /\ Running(i) /\ driver[i] = "grace"
    /\ Abort(i, "transport")

\* The inactivity timer, set anew by every round of the loop.
TimesOut(i) ==
    /\ i \in Timers
    /\ Selecting(i) /\ party[i] # Finished
    /\ Abort(i, "timeout")

\* The party's result: Fin marks the operator finished and sends.
TakeResult(i) ==
    /\ Selecting(i) /\ party[i] = Finished
    /\ finished' = [finished EXCEPT ![i] = TRUE]
    /\ driver' = [driver EXCEPT ![i] = "barrier"]
    /\ todo' = [todo EXCEPT ![i] = Peers(i)]
    /\ UNCHANGED <<conns, wire, inbox, errs, fins, closed>>
    /\ UNCHANGED <<started, party, held, outCh, status, cause, blame>>

----------------------------------------------------------------------------
\* The completion barrier.

SendFin(i, j) ==
    /\ Running(i) /\ driver[i] = "barrier" /\ j \in todo[i]
    /\ Push(i, j, FinFrame)
    /\ todo' = [todo EXCEPT ![i] = @ \ {j}]
    /\ UNCHANGED <<conns, inbox, errs, fins, finished, closed>>
    /\ UNCHANGED <<started, party, held, outCh, driver, status, cause, blame>>

InBarrier(i) == Running(i) /\ driver[i] = "barrier" /\ todo[i] = {}

\* Faulty variant: the barrier waits for nobody.
LeaveAtOnce(i) == InBarrier(i) /\ Exit(i, "done", "none") /\ UNCHANGED <<party, blame>>

\* Faulty variant: the barrier counts the operator itself among the FINs.
LeaveOneShort(i) ==
    /\ InBarrier(i) /\ Cardinality(fins[i]) + 1 >= Cardinality(Peers(i))
    /\ Exit(i, "done", "none") /\ UNCHANGED <<party, blame>>

Leave(i) ==
    /\ InBarrier(i) /\ fins[i] = Peers(i)
    /\ Exit(i, "done", "none") /\ UNCHANGED <<party, blame>>

BarrierTimesOut(i) ==
    /\ InBarrier(i) /\ fins[i] # Peers(i)
    /\ Exit(i, "done", "timeout") /\ UNCHANGED <<party, blame>>

----------------------------------------------------------------------------
\* The fault quorum: distinct operators, not the culprit itself, whose
\* attestations say the same.

\* Faulty variant: the index in the quorum is taken for the one in the directory.
ReportLocal(i) == blame[i]

Report(i) == {Global[c] : c \in blame[i]}

Attesters(culprit) ==
    {Global[i] : i \in {k \in Operators : status[k] = "faulted" /\ Report(k) = {culprit}}}
        \ {culprit}

Slashable ==
    {culprit \in UNION {Report(i) : i \in Operators} : Cardinality(Attesters(culprit)) >= Need}

----------------------------------------------------------------------------

Transport(i) == \E j \in Peers(i) : ReadLoop(i, j) /\ UNCHANGED driverVars

Send(i) == \E j \in Peers(i) : Dispatch(i, j) \/ DispatchFails(i, j) \/ SendFin(i, j)

Step(i) ==
    \/ StartParty(i)
    \/ Send(i)
    \/ Feed(i) \/ FeedFaults(i)
    \/ TakeError(i) \/ GraceEnds(i)
    \/ TakeResult(i)
    \/ Leave(i)

\* Faulty variant: the barrier has no timer.
TimerButBarrier(i) == TimesOut(i)

Timer(i) == TimesOut(i) \/ BarrierTimesOut(i)

Next == \E i \in Operators : Transport(i) \/ Step(i) \/ Timer(i) \/ Crash(i)

Spec == Init /\ [][Next]_vars
=============================================================================
