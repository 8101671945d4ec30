----------------------------- MODULE Gg20Proofs -----------------------------
(***************************************************************************)
(* Proofs about networked GG20 sessions of any number of operators and     *)
(* rounds: who can be slashed, that a session somebody cheats in yields no *)
(* result, the causes of aborts, the refinement, and that sessions neither *)
(* stall nor go on for ever.                                               *)
(***************************************************************************)
EXTENDS Gg20Properties, MeshProofs, WellFoundedInduction

----------------------------------------------------------------------------
(* The kinds of steps.                                                     *)

\* A process of i that ends, why, and what its party and its report become.
Ends(i, how, why) ==
    /\ Running(i)
    /\ Exit(i, how, why)
    /\ \/ /\ how = "aborted" /\ why = "timeout"
          /\ UNCHANGED <<party, blame>>
       \/ /\ how = "aborted" /\ why = "transport" /\ driver[i] # "barrier"
          /\ \/ errs[i] # {}
             \/ driver[i] = "grace"
             \/ \E j \in Peers(i) : closed[j]
          /\ UNCHANGED <<party, blame>>
       \/ /\ how = "crashed" /\ why = "crash"
          /\ UNCHANGED <<party, blame>>
       \/ /\ how = "done" /\ why = "timeout"
          /\ UNCHANGED <<party, blame>>
       \/ /\ how = "done" /\ why = "none"
          /\ driver[i] = "barrier" /\ fins[i] = Peers(i)
          /\ UNCHANGED <<party, blame>>
       \/ /\ how = "faulted" /\ why = "fault"
          /\ Feeding(i)
          /\ party[i] < 3
          /\ \E c \in Culprits(Fed(i)) : blame' = [blame EXCEPT ![i] = {c}]
          /\ party' = [party EXCEPT ![i] = 3]

LinkStep(i, j) ==
    \/ ReadPayload(i, j) /\ UNCHANGED driverVars
    \/ ReadFin(i, j) /\ UNCHANGED driverVars
    \/ ReadError(i, j) /\ UNCHANGED driverVars
    \/ Dispatch(i, j)
    \/ SendFin(i, j)

\* The grace window opens.
GraceBegins(i) ==
    /\ Selecting(i) /\ errs[i] # {}
    /\ driver' = [driver EXCEPT ![i] = "grace"]
    /\ UNCHANGED <<meshVars, started, party, held, outCh, todo, status, cause, blame>>

LocalStep(i) == StartParty(i) \/ Feed(i) \/ GraceBegins(i) \/ TakeResult(i)

LEMMA Gg20Steps ==
    ASSUME Next
    PROVE  \E i \in Operators :
              \/ \E j \in Peers(i) : LinkStep(i, j)
              \/ LocalStep(i)
              \/ \E how, why : Ends(i, how, why)
<1>1. PICK i \in Operators : Transport(i) \/ Step(i) \/ Timer(i) \/ Crash(i)
    BY DEF Next
<1>2. CASE Transport(i)
    BY <1>2 DEF Transport, ReadLoop, LinkStep
<1>3. CASE \E j \in Peers(i) : Dispatch(i, j) \/ SendFin(i, j)
    BY <1>3 DEF LinkStep
<1>4. CASE StartParty(i) \/ Feed(i) \/ TakeResult(i)
    BY <1>4 DEF LocalStep
<1>5. CASE \E j \in Peers(i) : DispatchFails(i, j)
    <2>1. Ends(i, "aborted", "transport")
        BY <1>5 DEF DispatchFails, Dispatching, Abort, Ends
    <2>2. QED
        BY <2>1
<1>6. CASE TakeError(i)
    <2>1. CASE Abort(i, "transport")
        <3>1. Ends(i, "aborted", "transport")
            BY <1>6, <2>1 DEF TakeError, Selecting, Abort, Ends
        <3>2. QED
            BY <3>1
    <2>2. CASE GraceBegins(i)
        BY <2>2 DEF LocalStep
    <2>3. QED
        BY <1>6, <2>1, <2>2 DEF TakeError, GraceBegins
<1>7. CASE GraceEnds(i)
    <2>1. Ends(i, "aborted", "transport")
        BY <1>7 DEF GraceEnds, Abort, Ends
    <2>2. QED
        BY <2>1
<1>8. CASE TimesOut(i)
    <2>1. Ends(i, "aborted", "timeout")
        BY <1>8 DEF TimesOut, Selecting, Abort, Ends
    <2>2. QED
        BY <2>1
<1>9. CASE FeedFaults(i)
    <2>1. Ends(i, "faulted", "fault")
        BY <1>9 DEF FeedFaults, Feeding, Selecting, Verifies, Ends
    <2>2. QED
        BY <2>1
<1>10. CASE BarrierTimesOut(i)
    <2>1. Ends(i, "done", "timeout")
        BY <1>10 DEF BarrierTimesOut, InBarrier, Ends
    <2>2. QED
        BY <2>1
<1>11. CASE Leave(i)
    <2>1. Ends(i, "done", "none")
        BY <1>11 DEF Leave, InBarrier, Ends
    <2>2. QED
        BY <2>1
<1>12. CASE Crash(i)
    <2>1. Ends(i, "crashed", "crash")
        BY <1>12 DEF Crash, Ends
    <2>2. QED
        BY <2>1
<1>13. QED
    BY <1>1, <1>2, <1>3, <1>4, <1>5, <1>6, <1>7, <1>8, <1>9, <1>10, <1>11, <1>12
       DEF Step, Send, Timer

----------------------------------------------------------------------------
(* Types.                                                                  *)

LEMMA WireType ==
    ASSUME Gg20TypeOK
    PROVE  wire \in [Links -> Seq(Frames)]
BY DEF Gg20TypeOK

LEMMA FrameTypes ==
    /\ FinFrame \in Frames
    /\ \A i \in Operators, r \in 1..LastRound : PartyFrame(i, r) \in PartyFrames
    /\ PartyFrames \subseteq Frames
    /\ \A f \in PartyFrames : f.tag = "Party"
    /\ \A f \in Frames : f.tag # "Fin" => f \in PartyFrames
BY DEF FinFrame, PartyFrame, Frames, PartyFrames

\* How far a party gets with the messages it holds.
LEMMA ReachedFacts ==
    ASSUME Gg20TypeOK, NEW i \in Operators, NEW messages
    PROVE  /\ Reached(i, messages) \in party[i]..Finished
           /\ party[i] = 0 => Reached(i, messages) = 0
           /\ party[i] # 0 => \A r \in party[i]..(Reached(i, messages) - 1) :
                                  HasRound(i, messages, r)
           /\ party[i] # 0 => \/ Reached(i, messages) = Finished
                             \/ ~HasRound(i, messages, Reached(i, messages))
<1>1. party[i] \in 0..Finished /\ Finished \in Nat
    BY Gg20Assumption DEF Gg20TypeOK, Finished
<1>2. CASE party[i] = 0
    BY <1>1, <1>2 DEF Reached
<1>3. CASE party[i] # 0
    <2> DEFINE Ok(q) == /\ \A r \in party[i]..(q - 1) : HasRound(i, messages, r)
                        /\ q = Finished \/ ~HasRound(i, messages, q)
               S == {q \in party[i]..Finished : q = Finished \/ ~HasRound(i, messages, q)}
    <2>1. S \subseteq Nat /\ S # {}
        BY <1>1
    <2>2. PICK n \in S : \A m \in S : <<m, n>> \notin OpToRel(<, Nat)
        BY <2>1, NatLessThanWellFounded, WFMin
    <2>3. \A m \in S : ~(m < n)
        <3>1. ASSUME NEW m \in S, m < n PROVE FALSE
            <4>1. m \in Nat /\ n \in Nat
                BY <2>1
            <4>2. <<m, n>> \in OpToRel(<, Nat)
                BY <3>1, <4>1, Zenon DEF OpToRel
            <4>3. QED
                BY <2>2, <4>2
        <3>2. QED
            BY <3>1
    <2>4. n \in party[i]..Finished /\ (n = Finished \/ ~HasRound(i, messages, n))
        OBVIOUS
    <2>5. \A r \in party[i]..(n - 1) : HasRound(i, messages, r)
        <3>1. SUFFICES ASSUME NEW r \in party[i]..(n - 1), ~HasRound(i, messages, r)
              PROVE  FALSE
            OBVIOUS
        <3>2. r \in party[i]..Finished /\ r < n
            BY <1>1, <2>4
        <3>3. r \in S
            BY <3>1, <3>2
        <3>4. QED
            BY <2>3, <3>2, <3>3
    <2>6. Ok(n)
        BY <2>4, <2>5
    <2>7. Reached(i, messages) = CHOOSE q \in party[i]..Finished : Ok(q)
        BY <1>3 DEF Reached
    <2>8. Reached(i, messages) \in party[i]..Finished /\ Ok(Reached(i, messages))
        BY <2>4, <2>6, <2>7
    <2>9. QED
        BY <1>3, <2>8
<1>4. QED
    BY <1>2, <1>3

LEMMA EmittedType ==
    ASSUME NEW i \in Operators, NEW p \in 0..Finished, NEW q \in p..Finished
    PROVE  /\ Emitted(i, p, q) \in Seq(Outgoing)
           /\ \A e \in Carries(Emitted(i, p, q)) : e.round <= q
<1> DEFINE n == (IF q = Finished THEN LastRound ELSE q) - p
           e(k) == [round |-> p + k, to |-> Peers(i)]
<1>1. LastRound \in Nat /\ Finished = LastRound + 1
    BY Gg20Assumption DEF Finished
<1>2. n \in Int /\ \A k \in 1..n : p + k \in 1..LastRound /\ p + k <= q
    BY <1>1
<1>3. Peers(i) \subseteq Operators
    BY DEF Peers
<1>4. \A k \in 1..n : e(k) \in Outgoing
    BY <1>2, <1>3 DEF Outgoing
<1>5. Emitted(i, p, q) = [k \in 1..n |-> e(k)]
    BY DEF Emitted
<1>6. CASE n \in Nat
    <2>1. Emitted(i, p, q) \in Seq(Outgoing)
        BY <1>4, <1>5, <1>6, IsASeq
    <2>2. Len(Emitted(i, p, q)) = n
        BY <1>5, <1>6, <2>1
    <2>3. \A k \in 1..n : Emitted(i, p, q)[k].round <= q
        BY <1>2, <1>5
    <2>4. QED
        BY <2>1, <2>2, <2>3 DEF Carries
<1>7. CASE n \notin Nat
    <2>1. 1..n = 1..0
        BY <1>2, <1>7
    <2>2. Emitted(i, p, q) = [k \in 1..0 |-> e(k)]
        BY <1>5, <2>1
    <2>3. \A k \in 1..0 : e(k) \in Outgoing
        OBVIOUS
    <2>4. Emitted(i, p, q) \in Seq(Outgoing)
        BY <2>2, <2>3, IsASeq
    <2>5. Len(Emitted(i, p, q)) = 0
        BY <2>2, <2>4
    <2>6. QED
        BY <2>4, <2>5 DEF Carries
<1>8. QED
    BY <1>6, <1>7

\* What a process that ends leaves.
LEMMA EndsFacts ==
    ASSUME Gg20TypeOK, NEW i \in Operators, NEW how, NEW why, Ends(i, how, why)
    PROVE  /\ how \in {"done", "aborted", "faulted", "crashed"}
           /\ why \in {"none", "crash", "timeout", "fault", "transport"}
           /\ status' = [status EXCEPT ![i] = how]
           /\ cause' = [cause EXCEPT ![i] = why]
           /\ held' = [held EXCEPT ![i] = {}]
           /\ outCh' = [outCh EXCEPT ![i] = <<>>]
           /\ todo' = [todo EXCEPT ![i] = {}]
           /\ closed' = [closed EXCEPT ![i] = TRUE]
           /\ inbox' = [inbox EXCEPT ![i] = <<>>]
           /\ errs' = [errs EXCEPT ![i] = {}]
           /\ fins' = [fins EXCEPT ![i] = {}]
           /\ UNCHANGED <<conns, finished, started, driver>>
           /\ wire' \in [Links -> Seq(Frames)]
           /\ \A link \in Links : Carries(wire'[link]) \subseteq Carries(wire[link])
<1>1. Exit(i, how, why)
    BY DEF Ends
<1>2. Teardown(i)
    BY <1>1 DEF Exit
<1>3. /\ wire' \in [Links -> Seq(Frames)]
      /\ \A link \in Links : Carries(wire'[link]) \subseteq Carries(wire[link])
    BY <1>2, WireType, TeardownCuts
<1>4. /\ closed' = [closed EXCEPT ![i] = TRUE]
      /\ inbox' = [inbox EXCEPT ![i] = <<>>]
      /\ errs' = [errs EXCEPT ![i] = {}]
      /\ fins' = [fins EXCEPT ![i] = {}]
      /\ UNCHANGED <<conns, finished>>
    BY <1>2 DEF Teardown
<1>5. /\ how \in {"done", "aborted", "faulted", "crashed"}
      /\ why \in {"none", "crash", "timeout", "fault", "transport"}
    BY DEF Ends
<1>6. QED
    BY <1>1, <1>3, <1>4, <1>5 DEF Exit

\* A process that ends has come no further, or has attested a culprit.
LEMMA EndsVerdict ==
    ASSUME NEW i, NEW how, NEW why, Ends(i, how, why)
    PROVE  \/ UNCHANGED <<party, blame>>
           \/ /\ how = "faulted" /\ why = "fault"
              /\ Feeding(i)
              /\ party[i] < 3
              /\ party' = [party EXCEPT ![i] = 3]
              /\ \E c \in Culprits(Fed(i)) : blame' = [blame EXCEPT ![i] = {c}]
BY DEF Ends

\* What is fed into a party.
LEMMA FedFacts ==
    ASSUME Gg20TypeOK, NEW i \in Operators, inbox[i] # <<>>
    PROVE  /\ Fed(i) \subseteq Envelopes
           /\ Head(inbox[i]) \in Carries(inbox[i])
           /\ Tail(inbox[i]) \in Seq(Envelopes)
           /\ Carries(Tail(inbox[i])) \subseteq Carries(inbox[i])
           /\ Culprits(Fed(i)) \subseteq Operators
<1>1. inbox[i] \in Seq(Envelopes) /\ held[i] \subseteq Envelopes
    BY DEF Gg20TypeOK
<1>2. /\ Head(inbox[i]) \in Carries(inbox[i])
      /\ Carries(Tail(inbox[i])) \subseteq Carries(inbox[i])
    BY <1>1, CarriesTail
<1>3. Tail(inbox[i]) \in Seq(Envelopes) /\ Head(inbox[i]) \in Envelopes
    BY <1>1, HeadTailProperties
<1>4. Fed(i) \subseteq Envelopes
    BY <1>1, <1>3 DEF Fed
<1>5. Culprits(Fed(i)) \subseteq Operators
    BY <1>4 DEF Culprits, Envelopes
<1>6. QED
    BY <1>2, <1>3, <1>4, <1>5

LEMMA InitType == Init => Gg20TypeOK
<1> SUFFICES ASSUME Init PROVE Gg20TypeOK
    OBVIOUS
<1>1. <<>> \in Seq(Frames) /\ <<>> \in Seq(Envelopes) /\ <<>> \in Seq(Outgoing)
    BY EmptySeq
<1>2. 0 \in 0..Finished
    BY Gg20Assumption DEF Finished
<1>3. \A i \in Operators : Peers(i) \subseteq Operators
    BY DEF Peers
<1>4. QED
    BY <1>1, <1>2, <1>3 DEF Init, Gg20TypeOK

LEMMA EndsType ==
    ASSUME Gg20TypeOK, NEW i \in Operators, NEW how, NEW why, Ends(i, how, why)
    PROVE  Gg20TypeOK'
<1>1. /\ <<>> \in Seq(Envelopes) /\ <<>> \in Seq(Outgoing)
      /\ 3 \in 0..Finished
    BY EmptySeq, Gg20Assumption DEF Finished
<1>2. /\ party' \in [Operators -> 0..Finished]
      /\ blame' \in [Operators -> SUBSET Operators]
    <2>1. CASE UNCHANGED <<party, blame>>
        BY <2>1 DEF Gg20TypeOK
    <2>2. CASE /\ Feeding(i)
               /\ party' = [party EXCEPT ![i] = 3]
               /\ \E c \in Culprits(Fed(i)) : blame' = [blame EXCEPT ![i] = {c}]
        <3>1. PICK c \in Culprits(Fed(i)) : blame' = [blame EXCEPT ![i] = {c}]
            BY <2>2
        <3>2. c \in Operators
            BY <2>2, FedFacts DEF Feeding
        <3>3. QED
            BY <1>1, <2>2, <3>1, <3>2 DEF Gg20TypeOK
    <2>3. QED
        BY <2>1, <2>2, EndsVerdict
<1>3. /\ held' \in [Operators -> SUBSET Envelopes]
      /\ outCh' \in [Operators -> Seq(Outgoing)]
      /\ inbox' \in [Operators -> Seq(Envelopes)]
    <2>1. /\ held' = [held EXCEPT ![i] = {}]
          /\ outCh' = [outCh EXCEPT ![i] = <<>>]
          /\ inbox' = [inbox EXCEPT ![i] = <<>>]
        BY EndsFacts
    <2>2. QED
        BY <1>1, <2>1 DEF Gg20TypeOK
<1>4. /\ todo' \in [Operators -> SUBSET Operators]
      /\ errs' \in [Operators -> SUBSET Operators]
      /\ fins' \in [Operators -> SUBSET Operators]
      /\ closed' \in [Operators -> BOOLEAN]
    BY EndsFacts DEF Gg20TypeOK
<1>5. /\ status' \in [Operators -> {"running", "done", "aborted", "faulted", "crashed"}]
      /\ cause' \in [Operators -> {"none", "crash", "timeout", "fault", "transport"}]
    <2>1. /\ how \in {"done", "aborted", "faulted", "crashed"}
          /\ why \in {"none", "crash", "timeout", "fault", "transport"}
          /\ status' = [status EXCEPT ![i] = how]
          /\ cause' = [cause EXCEPT ![i] = why]
        BY EndsFacts
    <2>2. QED
        BY <2>1 DEF Gg20TypeOK
<1>6. UNCHANGED <<conns, finished, session, misbehave, driver>> /\ wire' \in [Links -> Seq(Frames)]
    BY EndsFacts DEF started
<1>7. QED
    BY <1>2, <1>3, <1>4, <1>5, <1>6 DEF Gg20TypeOK

\* Sending the next of what the party has put out.
LEMMA DispatchFacts ==
    ASSUME Gg20TypeOK, NEW i \in Operators, NEW j \in Peers(i), Dispatch(i, j)
    PROVE  \E r \in 1..LastRound :
              /\ \E e \in Carries(outCh[i]) : e.round = r
              /\ Push(i, j, PartyFrame(i, r))
              /\ outCh' \in [Operators -> Seq(Outgoing)]
              /\ \A k \in Operators : \A e \in Carries(outCh'[k]) :
                    \E f \in Carries(outCh[k]) : e.round = f.round
<1> DEFINE h == Head(outCh[i])
           t == Tail(outCh[i])
           left == h.to \ {j}
           g == [round |-> h.round, to |-> left]
<1>1. outCh[i] \in Seq(Outgoing) /\ outCh[i] # <<>>
    BY DEF Gg20TypeOK, Dispatch, Dispatching
<1>2. h \in Outgoing /\ t \in Seq(Outgoing)
    BY <1>1, HeadTailProperties
<1>3. h \in Carries(outCh[i]) /\ Carries(t) \subseteq Carries(outCh[i])
    BY <1>1, CarriesTail
<1>4. h.round \in 1..LastRound /\ g \in Outgoing
    BY <1>2 DEF Outgoing
<1>5. <<g>> \o t \in Seq(Outgoing) /\ Carries(<<g>> \o t) \subseteq {g} \cup Carries(t)
    <2>1. <<g>> \in Seq(Outgoing)
        BY <1>4
    <2>2. /\ <<g>> \o t \in Seq(Outgoing)
          /\ Carries(<<g>> \o t) = Carries(<<g>>) \cup Carries(t)
        BY <1>2, <2>1, CarriesConcat
    <2>3. Carries(<<g>>) = {g}
        BY DEF Carries
    <2>4. QED
        BY <2>2, <2>3
<1>6. /\ Push(i, j, PartyFrame(i, h.round))
      /\ outCh' = [outCh EXCEPT ![i] = IF left = {} THEN t ELSE <<g>> \o t]
    BY DEF Dispatch
<1>7. outCh' \in [Operators -> Seq(Outgoing)]
    BY <1>2, <1>5, <1>6 DEF Gg20TypeOK
<1>8. ASSUME NEW k \in Operators, NEW e \in Carries(outCh'[k])
      PROVE  \E f \in Carries(outCh[k]) : e.round = f.round
    <2>1. outCh \in [Operators -> Seq(Outgoing)]
        BY DEF Gg20TypeOK
    <2>2. CASE k = i
        <3>1. e = g \/ e \in Carries(t)
            BY <1>5, <1>6, <2>1, <2>2
        <3>2. QED
            BY <1>3, <2>2, <3>1
    <2>3. CASE k # i
        <3>1. outCh'[k] = outCh[k]
            BY <1>6, <2>1, <2>3
        <3>2. QED
            BY <3>1
    <2>4. QED
        BY <2>2, <2>3
<1>9. QED
    BY <1>3, <1>4, <1>6, <1>7, <1>8

LEMMA LinkStepType ==
    ASSUME Gg20TypeOK, NEW i \in Operators, NEW j \in Peers(i), LinkStep(i, j)
    PROVE  Gg20TypeOK'
<1>0. j \in Operators
    BY LinkTypes
<1>1. CASE ReadPayload(i, j) /\ UNCHANGED driverVars
    <2>1. /\ wire' \in [Links -> Seq(Frames)]
          /\ Head(wire[<<j, i>>]) \in Frames
        BY <1>1, WireType, ReadType DEF ReadPayload
    <2>2. Head(wire[<<j, i>>]) \in PartyFrames
        BY <1>1, <2>1, FrameTypes DEF ReadPayload
    <2>3. [from |-> j, frame |-> Head(wire[<<j, i>>])] \in Envelopes
        BY <1>0, <2>2 DEF Envelopes
    <2>4. inbox[i] \in Seq(Envelopes)
        BY DEF Gg20TypeOK
    <2>5. Append(inbox[i], [from |-> j, frame |-> Head(wire[<<j, i>>])]) \in Seq(Envelopes)
        BY <2>3, <2>4
    <2>6. inbox' \in [Operators -> Seq(Envelopes)]
        BY <1>1, <2>5 DEF ReadPayload, Gg20TypeOK
    <2>7. UNCHANGED <<conns, errs, fins, finished, closed>>
        BY <1>1 DEF ReadPayload
    <2>8. QED
        BY <1>1, <2>1, <2>6, <2>7 DEF driverVars, started, Gg20TypeOK
<1>2. CASE ReadFin(i, j) /\ UNCHANGED driverVars
    <2>1. wire' \in [Links -> Seq(Frames)]
        BY <1>2, WireType, ReadType DEF ReadFin
    <2>2. fins' \in [Operators -> SUBSET Operators]
        BY <1>0, <1>2 DEF ReadFin, Gg20TypeOK
    <2>3. UNCHANGED <<conns, inbox, errs, finished, closed>>
        BY <1>2 DEF ReadFin
    <2>4. QED
        BY <1>2, <2>1, <2>2, <2>3 DEF driverVars, started, Gg20TypeOK
<1>3. CASE ReadError(i, j) /\ UNCHANGED driverVars
    BY <1>0, <1>3 DEF ReadError, driverVars, started, Gg20TypeOK
<1>4. CASE Dispatch(i, j)
    <2>1. PICK r \in 1..LastRound : Push(i, j, PartyFrame(i, r))
        BY <1>4, DispatchFacts
    <2>2. PartyFrame(i, r) \in Frames
        BY FrameTypes
    <2>3. wire' \in [Links -> Seq(Frames)]
        BY <2>1, <2>2, WireType, PushType
    <2>4. outCh' \in [Operators -> Seq(Outgoing)]
        BY <1>4, DispatchFacts
    <2>5. driver' \in [Operators -> {"select", "dispatch", "grace", "barrier"}]
        BY <1>4 DEF Dispatch, Gg20TypeOK
    <2>6. /\ UNCHANGED <<conns, inbox, errs, fins, finished, closed>>
          /\ UNCHANGED <<session, misbehave, party, held, todo, status, cause, blame>>
        BY <1>4 DEF Dispatch, started
    <2>7. QED
        BY <2>3, <2>4, <2>5, <2>6 DEF Gg20TypeOK
<1>5. CASE SendFin(i, j)
    <2>1. wire' \in [Links -> Seq(Frames)]
        BY <1>5, FrameTypes, WireType, PushType DEF SendFin
    <2>2. todo' \in [Operators -> SUBSET Operators]
        BY <1>5 DEF SendFin, Gg20TypeOK
    <2>3. /\ UNCHANGED <<conns, inbox, errs, fins, finished, closed>>
          /\ UNCHANGED <<session, misbehave, party, held, outCh, driver, status, cause, blame>>
        BY <1>5 DEF SendFin, started
    <2>4. QED
        BY <2>1, <2>2, <2>3 DEF Gg20TypeOK
<1>6. QED
    BY <1>1, <1>2, <1>3, <1>4, <1>5 DEF LinkStep

\* Feeding a message: the party goes on, and puts out more.
LEMMA FeedFacts ==
    ASSUME Gg20TypeOK, NEW i \in Operators, Feed(i)
    PROVE  \E q \in party[i]..Finished :
              /\ party' = [party EXCEPT ![i] = q]
              /\ held' = [held EXCEPT ![i] = Fed(i)]
              /\ inbox' = [inbox EXCEPT ![i] = Tail(@)]
              /\ party[i] = 0 => q = 0
              /\ party[i] # 0 => \A r \in party[i]..(q - 1) : HasRound(i, Fed(i), r)
              /\ party[i] < 3 /\ q >= 3 => Culprits(Fed(i)) = {}
              /\ outCh' \in [Operators -> Seq(Outgoing)]
              /\ \A k \in Operators : \A e \in Carries(outCh'[k]) :
                    e \in Carries(outCh[k]) \/ (k = i /\ e.round <= q)
<1> DEFINE q == Reached(i, Fed(i))
           m == Emitted(i, party[i], q)
<1>1. /\ q \in party[i]..Finished
      /\ party[i] = 0 => q = 0
      /\ party[i] # 0 => \A r \in party[i]..(q - 1) : HasRound(i, Fed(i), r)
    BY ReachedFacts
<1>2. party[i] \in 0..Finished
    BY DEF Gg20TypeOK
<1>3. m \in Seq(Outgoing) /\ \A e \in Carries(m) : e.round <= q
    BY <1>1, <1>2, EmittedType
<1>4. outCh[i] \in Seq(Outgoing) /\ outCh \in [Operators -> Seq(Outgoing)]
    BY DEF Gg20TypeOK
<1>5. outCh[i] \o m \in Seq(Outgoing) /\ Carries(outCh[i] \o m) = Carries(outCh[i]) \cup Carries(m)
    BY <1>3, <1>4, CarriesConcat
<1>6. /\ held' = [held EXCEPT ![i] = Fed(i)]
      /\ inbox' = [inbox EXCEPT ![i] = Tail(@)]
      /\ party' = [party EXCEPT ![i] = q]
      /\ outCh' = [outCh EXCEPT ![i] = outCh[i] \o m]
    BY DEF Feed
<1>7. party[i] < 3 /\ q >= 3 => Culprits(Fed(i)) = {}
    BY DEF Feed, Verifies
<1>8. outCh' \in [Operators -> Seq(Outgoing)]
    BY <1>4, <1>5, <1>6
<1>9. \A k \in Operators : \A e \in Carries(outCh'[k]) :
         e \in Carries(outCh[k]) \/ (k = i /\ e.round <= q)
    BY <1>3, <1>4, <1>5, <1>6
<1>10. QED
    BY <1>1, <1>6, <1>7, <1>8, <1>9

LEMMA StartFacts ==
    ASSUME Gg20TypeOK, NEW i \in Operators, StartParty(i)
    PROVE  /\ outCh' \in [Operators -> Seq(Outgoing)]
           /\ \A k \in Operators : \A e \in Carries(outCh'[k]) :
                 e \in Carries(outCh[k]) \/ (k = i /\ e.round <= 1)
           /\ party[i] = 0 /\ party' = [party EXCEPT ![i] = 1]
           /\ UNCHANGED <<meshVars, started, held, driver, todo, status, cause, blame>>
<1>1. 0 \in 0..Finished /\ 1 \in 0..Finished
    BY Gg20Assumption DEF Finished
<1>2. Emitted(i, 0, 1) \in Seq(Outgoing) /\ \A e \in Carries(Emitted(i, 0, 1)) : e.round <= 1
    BY <1>1, EmittedType
<1>3. outCh[i] \in Seq(Outgoing) /\ outCh \in [Operators -> Seq(Outgoing)]
    BY DEF Gg20TypeOK
<1>4. /\ outCh[i] \o Emitted(i, 0, 1) \in Seq(Outgoing)
      /\ Carries(outCh[i] \o Emitted(i, 0, 1)) = Carries(outCh[i]) \cup Carries(Emitted(i, 0, 1))
    BY <1>2, <1>3, CarriesConcat
<1>5. outCh' = [outCh EXCEPT ![i] = outCh[i] \o Emitted(i, 0, 1)]
    BY DEF StartParty
<1>6. /\ outCh' \in [Operators -> Seq(Outgoing)]
      /\ \A k \in Operators : \A e \in Carries(outCh'[k]) :
            e \in Carries(outCh[k]) \/ (k = i /\ e.round <= 1)
    BY <1>2, <1>3, <1>4, <1>5
<1>7. QED
    BY <1>6 DEF StartParty

LEMMA LocalStepType ==
    ASSUME Gg20TypeOK, NEW i \in Operators, LocalStep(i)
    PROVE  Gg20TypeOK'
<1>1. CASE StartParty(i)
    <2>1. 1 \in 0..Finished
        BY Gg20Assumption DEF Finished
    <2>2. /\ outCh' \in [Operators -> Seq(Outgoing)]
          /\ party' = [party EXCEPT ![i] = 1]
          /\ UNCHANGED <<meshVars, started, held, driver, todo, status, cause, blame>>
        BY <1>1, StartFacts
    <2>3. QED
        BY <2>1, <2>2 DEF meshVars, started, Gg20TypeOK
<1>2. CASE Feed(i)
    <2>1. PICK q \in party[i]..Finished :
              /\ party' = [party EXCEPT ![i] = q]
              /\ held' = [held EXCEPT ![i] = Fed(i)]
              /\ inbox' = [inbox EXCEPT ![i] = Tail(@)]
              /\ outCh' \in [Operators -> Seq(Outgoing)]
        BY <1>2, FeedFacts
    <2>2. q \in 0..Finished
        BY DEF Gg20TypeOK
    <2>3. Fed(i) \subseteq Envelopes /\ Tail(inbox[i]) \in Seq(Envelopes)
        BY <1>2, FedFacts DEF Feed, Feeding
    <2>4. /\ UNCHANGED <<conns, wire, errs, fins, finished, closed>>
          /\ UNCHANGED <<session, misbehave, driver, todo, status, cause, blame>>
        BY <1>2 DEF Feed, started
    <2>5. QED
        BY <2>1, <2>2, <2>3, <2>4 DEF Gg20TypeOK
<1>3. CASE GraceBegins(i)
    BY <1>3 DEF GraceBegins, meshVars, started, Gg20TypeOK
<1>4. CASE TakeResult(i)
    <2>1. Peers(i) \subseteq Operators
        BY DEF Peers
    <2>2. QED
        BY <1>4, <2>1 DEF TakeResult, started, Gg20TypeOK
<1>5. QED
    BY <1>1, <1>2, <1>3, <1>4 DEF LocalStep

LEMMA TypeNext ==
    ASSUME Gg20TypeOK, [Next]_vars
    PROVE  Gg20TypeOK'
<1>1. CASE UNCHANGED vars
    BY <1>1 DEF vars, meshVars, driverVars, started, Gg20TypeOK
<1>2. CASE Next
    BY <1>2, Gg20Steps, LinkStepType, LocalStepType, EndsType
<1>3. QED
    BY <1>1, <1>2

\* In every session every variable keeps its type.
THEOREM Gg20TypeCorrect == Spec => []Gg20TypeOK
<1>1. QED
    BY InitType, TypeNext, PTL DEF Spec

----------------------------------------------------------------------------
(* The inductive invariant.                                                *)

\* How a process is doing, and what it knows of the others'.
ProcessInv ==
    \A i \in Operators :
        /\ closed[i] <=> ~Running(i)
        /\ Running(i) => cause[i] = "none" /\ (finished[i] <=> driver[i] = "barrier")
        /\ Running(i) /\ driver[i] = "grace" => \E j \in Operators : closed[j]
        /\ ~Running(i) /\ cause[i] = "none" => \A j \in Operators : finished[j]
        /\ \A j \in fins[i] : finished[j]
        /\ \A j \in errs[i] : closed[j]

\* A FIN underway is that of an operator with its result.
FinInv ==
    \A link \in Links : \A f \in Carries(wire[link]) : f.tag = "Fin" => finished[link[1]]

\* An operator that a cheater deals with finds out in round 3, before it sends.
Detects(i) == misbehave \ {i} # {}

Sendable(i, r) == Detects(i) => r <= 2

\* Messages are as their senders' parties and -misbehave made them.
Genuine(i, frame) == frame = PartyFrame(i, frame.round) /\ Sendable(i, frame.round)

FramesInv ==
    /\ \A link \in Links : \A f \in Carries(wire[link]) : f.tag = "Party" => Genuine(link[1], f)
    /\ \A i \in Operators : \A e \in Carries(inbox[i]) \cup held[i] :
          e.from \in Peers(i) /\ Genuine(e.from, e.frame)
    /\ \A i \in Operators : \A e \in Carries(outCh[i]) : Sendable(i, e.round)

CheatInv ==
    \A i \in Operators :
        /\ blame[i] \subseteq misbehave
        /\ Detects(i) /\ party[i] >= 3 => cause[i] = "fault"
        /\ misbehave = {i} => party[i] <= 3
        /\ finished[i] => misbehave = {}

Gg20Inv ==
    Gg20TypeOK /\ ProcessInv /\ FinInv /\ FramesInv /\ CheatInv /\ AbortHasRootCause

----------------------------------------------------------------------------
(* It holds in the beginning.                                              *)

LEMMA InvInit == Init => Gg20Inv
<1> SUFFICES ASSUME Init PROVE Gg20Inv
    OBVIOUS
<1>1. Gg20TypeOK
    BY InitType
<1>2. ProcessInv
    BY DEF Init, ProcessInv, Running
<1>3. \A link \in Links : Carries(wire[link]) = {}
    BY CarriesNothing DEF Init
<1>4. \A i \in Operators : Carries(inbox[i]) = {} /\ held[i] = {} /\ Carries(outCh[i]) = {}
    BY CarriesNothing DEF Init
<1>5. FinInv /\ FramesInv
    BY <1>3, <1>4 DEF FinInv, FramesInv
<1>6. CheatInv
    <2>1. \A i \in Operators : party[i] = 0 /\ blame[i] = {} /\ ~finished[i]
        BY DEF Init
    <2>2. \A i \in Operators :
             /\ blame[i] \subseteq misbehave
             /\ ~(party[i] >= 3) /\ party[i] <= 3
        <3>1. ASSUME NEW i \in Operators
              PROVE  blame[i] \subseteq misbehave /\ ~(party[i] >= 3) /\ party[i] <= 3
            <4>1. party[i] = 0 /\ blame[i] = {}
                BY <2>1
            <4>2. QED
                BY <4>1
        <3>2. QED
            BY <3>1
    <2>3. QED
        BY <2>1, <2>2 DEF CheatInv
<1>7. AbortHasRootCause
    BY DEF Init, AbortHasRootCause
<1>8. QED
    BY <1>1, <1>2, <1>5, <1>6, <1>7 DEF Gg20Inv

----------------------------------------------------------------------------
(* What steps leave alone.                                                 *)

LEMMA LinkStepFrame ==
    ASSUME NEW i \in Operators, NEW j \in Peers(i), LinkStep(i, j)
    PROVE  /\ UNCHANGED <<started, party, held, status, cause, blame, finished, closed>>
           /\ UNCHANGED inbox \/ ReadPayload(i, j)
           /\ UNCHANGED fins \/ ReadFin(i, j)
           /\ UNCHANGED errs \/ ReadError(i, j)
           /\ UNCHANGED <<outCh, driver>> \/ Dispatch(i, j)
BY DEF LinkStep, ReadPayload, ReadFin, ReadError, Dispatch, SendFin, driverVars

\* A step keeps the operators' orders, and who is finished or gone.
LEMMA Stays ==
    ASSUME Gg20TypeOK, Next
    PROVE  /\ UNCHANGED started
           /\ \A k \in Operators : (finished[k] => finished'[k]) /\ (closed[k] => closed'[k])
<1>1. PICK i \in Operators :
          \/ \E j \in Peers(i) : LinkStep(i, j)
          \/ LocalStep(i)
          \/ \E how, why : Ends(i, how, why)
    BY Gg20Steps
<1>2. CASE \E j \in Peers(i) : LinkStep(i, j)
    BY <1>2, LinkStepFrame
<1>3. CASE StartParty(i) \/ Feed(i) \/ GraceBegins(i)
    BY <1>3 DEF StartParty, Feed, GraceBegins, meshVars
<1>4. CASE TakeResult(i)
    BY <1>4 DEF TakeResult, Gg20TypeOK
<1>5. CASE \E how, why : Ends(i, how, why)
    <2>1. UNCHANGED <<started, finished>> /\ closed' = [closed EXCEPT ![i] = TRUE]
        BY <1>5, EndsFacts
    <2>2. QED
        BY <2>1 DEF Gg20TypeOK
<1>6. QED
    BY <1>1, <1>2, <1>3, <1>4, <1>5 DEF LocalStep

\* The frames underway after a step: they were before, or have just been sent.
LEMMA WireStep ==
    ASSUME Gg20TypeOK, Next, NEW link \in Links, NEW f \in Carries(wire'[link])
    PROVE  \/ f \in Carries(wire[link])
           \/ f = FinFrame /\ driver[link[1]] = "barrier" /\ Running(link[1])
           \/ \E r \in 1..LastRound :
                 /\ f = PartyFrame(link[1], r)
                 /\ \E e \in Carries(outCh[link[1]]) : e.round = r
<1>1. PICK i \in Operators :
          \/ \E j \in Peers(i) : LinkStep(i, j)
          \/ LocalStep(i)
          \/ \E how, why : Ends(i, how, why)
    BY Gg20Steps
<1>2. CASE UNCHANGED wire
    BY <1>2
<1>3. ASSUME NEW j \in Peers(i), LinkStep(i, j), wire' # wire
      PROVE  \/ f \in Carries(wire[link])
             \/ f = FinFrame /\ driver[link[1]] = "barrier" /\ Running(link[1])
             \/ \E r \in 1..LastRound :
                   /\ f = PartyFrame(link[1], r)
                   /\ \E e \in Carries(outCh[link[1]]) : e.round = r
    <2>1. CASE ReadPayload(i, j) \/ ReadFin(i, j)
        BY <2>1, WireType, ReadType DEF ReadPayload, ReadFin
    <2>2. CASE Dispatch(i, j)
        <3>1. PICK r \in 1..LastRound : /\ \E e \in Carries(outCh[i]) : e.round = r
                                        /\ Push(i, j, PartyFrame(i, r))
            BY <2>2, DispatchFacts
        <3>2. PartyFrame(i, r) \in Frames
            BY FrameTypes
        <3>3. Carries(wire'[link]) \subseteq Carries(wire[link]) \cup
                                        (IF link = <<i, j>> THEN {PartyFrame(i, r)} ELSE {})
            BY <3>1, <3>2, WireType, PushType
        <3>4. QED
            BY <3>1, <3>3
    <2>3. CASE SendFin(i, j)
        <3>1. Carries(wire'[link]) \subseteq Carries(wire[link]) \cup
                                        (IF link = <<i, j>> THEN {FinFrame} ELSE {})
            BY <2>3, FrameTypes, WireType, PushType DEF SendFin
        <3>2. QED
            BY <2>3, <3>1 DEF SendFin
    <2>4. QED
        BY <1>3, <2>1, <2>2, <2>3 DEF LinkStep, ReadError
<1>4. CASE LocalStep(i)
    BY <1>4 DEF LocalStep, StartParty, Feed, GraceBegins, TakeResult, meshVars
<1>5. CASE \E how, why : Ends(i, how, why)
    BY <1>5, EndsFacts
<1>6. QED
    BY <1>1, <1>2, <1>3, <1>4, <1>5

\* The messages an operator has after a step: it had them, or has just read one.
LEMMA InboxStep ==
    ASSUME Gg20TypeOK, Next, NEW k \in Operators, NEW e \in Carries(inbox'[k]) \cup held'[k]
    PROVE  \/ e \in Carries(inbox[k]) \cup held[k]
           \/ \E j \in Peers(k) :
                 /\ e.from = j /\ e.frame \in Carries(wire[<<j, k>>])
                 /\ e.frame.tag # "Fin" /\ e.frame \in Frames
<1>1. PICK i \in Operators :
          \/ \E j \in Peers(i) : LinkStep(i, j)
          \/ LocalStep(i)
          \/ \E how, why : Ends(i, how, why)
    BY Gg20Steps
<1>0. inbox[k] \in Seq(Envelopes) /\ inbox \in [Operators -> Seq(Envelopes)]
    BY DEF Gg20TypeOK
<1>2. CASE UNCHANGED <<inbox, held>>
    BY <1>2
<1>3. ASSUME NEW j \in Peers(i), ReadPayload(i, j), UNCHANGED held
      PROVE  \/ e \in Carries(inbox[k]) \cup held[k]
             \/ \E l \in Peers(k) :
                   /\ e.from = l /\ e.frame \in Carries(wire[<<l, k>>])
                   /\ e.frame.tag # "Fin" /\ e.frame \in Frames
    <2> DEFINE h == Head(wire[<<j, i>>])
               n == [from |-> j, frame |-> h]
    <2>1. /\ h \in Carries(wire[<<j, i>>]) /\ h \in Frames /\ h.tag # "Fin"
          /\ inbox' = [inbox EXCEPT ![i] = Append(@, n)]
        BY <1>3, WireType, ReadType DEF ReadPayload
    <2>2. CASE k # i
        <3>1. inbox'[k] = inbox[k]
            BY <1>0, <2>1, <2>2
        <3>2. QED
            BY <1>3, <3>1
    <2>3. CASE k = i
        <3>1. n \in Envelopes
            BY <2>1, FrameTypes, LinkTypes DEF Envelopes
        <3>2. inbox'[k] = Append(inbox[k], n)
            BY <1>0, <2>1, <2>3
        <3>3. Carries(inbox'[k]) = Carries(inbox[k]) \cup {n}
            BY <1>0, <3>1, <3>2, CarriesAppend
        <3>4. QED
            BY <1>3, <2>1, <2>3, <3>3
    <2>4. QED
        BY <2>2, <2>3
<1>4. CASE \E j \in Peers(i) : LinkStep(i, j)
    <2>1. PICK j \in Peers(i) : LinkStep(i, j)
        BY <1>4
    <2>2. UNCHANGED held /\ (UNCHANGED inbox \/ ReadPayload(i, j))
        BY <2>1 DEF LinkStep, ReadPayload, ReadFin, ReadError, Dispatch, SendFin, driverVars
    <2>3. QED
        BY <1>2, <1>3, <2>2
<1>5. CASE Feed(i)
    <2>1. /\ inbox[i] # <<>>
          /\ inbox' = [inbox EXCEPT ![i] = Tail(@)]
          /\ held' = [held EXCEPT ![i] = Fed(i)]
        BY <1>5 DEF Feed, Feeding
    <2>2. Carries(inbox'[k]) \subseteq Carries(inbox[k])
        BY <1>0, <2>1, FedFacts
    <2>3. held'[k] \subseteq Carries(inbox[k]) \cup held[k]
        <3>1. held \in [Operators -> SUBSET Envelopes]
            BY DEF Gg20TypeOK
        <3>2. Fed(i) \subseteq Carries(inbox[i]) \cup held[i]
            BY <2>1, FedFacts DEF Fed
        <3>3. QED
            BY <2>1, <3>1, <3>2
    <2>4. QED
        BY <2>2, <2>3
<1>6. CASE StartParty(i) \/ GraceBegins(i) \/ TakeResult(i)
    BY <1>2, <1>6 DEF StartParty, GraceBegins, TakeResult, meshVars
<1>7. CASE \E how, why : Ends(i, how, why)
    <2>1. inbox' = [inbox EXCEPT ![i] = <<>>] /\ held' = [held EXCEPT ![i] = {}]
        BY <1>7, EndsFacts
    <2>2. Carries(inbox'[k]) \subseteq Carries(inbox[k]) /\ held'[k] \subseteq held[k]
        BY <2>1, CarriesNothing DEF Gg20TypeOK
    <2>3. QED
        BY <2>2
<1>8. QED
    BY <1>1, <1>4, <1>5, <1>6, <1>7 DEF LocalStep

----------------------------------------------------------------------------
(* Cheating comes out.                                                     *)

LEMMA FrameIsValid ==
    ASSUME NEW i, NEW r
    PROVE  PartyFrame(i, r).valid <=> ~(r = 2 /\ i \in misbehave)
BY Zenon DEF PartyFrame

\* Only proofs of operators that cheat fail to verify.
LEMMA FedIsGenuine ==
    ASSUME Gg20Inv, NEW i \in Operators, inbox[i] # <<>>
    PROVE  /\ \A m \in Fed(i) : m.from \in Peers(i) /\ Genuine(m.from, m.frame)
           /\ Head(inbox[i]) \in Fed(i)
           /\ Culprits(Fed(i)) \subseteq misbehave
<1>1. Gg20TypeOK /\ FramesInv
    BY DEF Gg20Inv
<1>2. Head(inbox[i]) \in Carries(inbox[i])
    BY <1>1, FedFacts
<1>3. \A m \in Fed(i) : m.from \in Peers(i) /\ Genuine(m.from, m.frame)
    BY <1>1, <1>2 DEF FramesInv, Fed
<1>4. ASSUME NEW m \in Fed(i), ~m.frame.valid
      PROVE  m.from \in misbehave
    <2>1. m.frame = PartyFrame(m.from, m.frame.round)
        BY <1>3 DEF Genuine
    <2>2. ~PartyFrame(m.from, m.frame.round).valid
        BY <1>4, <2>1, Zenon
    <2>3. QED
        BY <2>2, FrameIsValid
<1>5. QED
    BY <1>3, <1>4 DEF Culprits, Fed

\* How far an operator gets that others cheat, or that cheats alone.
LEMMA FeedLimits ==
    ASSUME Gg20Inv, NEW i \in Operators, Feed(i),
           NEW q \in party[i]..Finished,
           party[i] = 0 => q = 0,
           party[i] # 0 => \A r \in party[i]..(q - 1) : HasRound(i, Fed(i), r),
           party[i] < 3 /\ q >= 3 => Culprits(Fed(i)) = {}
    PROVE  /\ Detects(i) => q <= 2
           /\ misbehave = {i} => q <= 3
<1>1. Gg20TypeOK /\ ProcessInv /\ CheatInv
    BY DEF Gg20Inv
<1>2. /\ party[i] \in 0..Finished /\ Finished \in Nat /\ q \in Nat
      /\ misbehave \subseteq Operators
    BY <1>1, Gg20Assumption DEF Gg20TypeOK, Finished
<1>3. inbox[i] # <<>> /\ Running(i)
    BY DEF Feed, Feeding, Selecting
<1>4. /\ \A m \in Fed(i) : m.from \in Peers(i) /\ Genuine(m.from, m.frame)
      /\ Head(inbox[i]) \in Fed(i)
    BY <1>3, FedIsGenuine
<1>5. ASSUME Detects(i), q >= 3 PROVE FALSE
    <2>1. cause[i] = "none"
        BY <1>1, <1>3 DEF ProcessInv
    <2>2. ~(party[i] >= 3)
        BY <1>1, <1>5, <2>1 DEF CheatInv
    <2>3. 2 \in party[i]..(q - 1) /\ party[i] # 0 /\ Culprits(Fed(i)) = {}
        BY <1>2, <1>5, <2>2
    <2>4. PICK c \in misbehave : c # i
        BY <1>5 DEF Detects
    <2>5. c \in Peers(i)
        BY <1>2, <2>4 DEF Peers
    <2>6. HasRound(i, Fed(i), 2)
        BY <2>3
    <2>7. PICK m \in Fed(i) : m.from = c /\ m.frame.round = 2
        BY <2>5, <2>6 DEF HasRound
    <2>8. m.frame = PartyFrame(c, 2)
        BY <1>4, <2>7 DEF Genuine
    <2>9. ~m.frame.valid
        <3>1. ~PartyFrame(c, 2).valid
            BY <2>4, FrameIsValid
        <3>2. QED
            BY <2>8, <3>1, Zenon
    <2>10. m.from \in Culprits(Fed(i))
        BY <2>7, <2>9 DEF Culprits
    <2>11. QED
        BY <2>3, <2>10
<1>6. ASSUME misbehave = {i}, q > 3 PROVE FALSE
    <2>1. party[i] <= 3
        BY <1>1, <1>6 DEF CheatInv
    <2>2. 3 \in party[i]..(q - 1) /\ party[i] # 0
        BY <1>2, <1>6, <2>1
    <2>3. PICK j \in Peers(i) : TRUE
        BY <1>4
    <2>4. HasRound(i, Fed(i), 3)
        BY <2>2
    <2>5. PICK m \in Fed(i) : m.from = j /\ m.frame.round = 3
        BY <2>4 DEF HasRound
    <2>6. Sendable(j, 3)
        BY <1>4, <2>5 DEF Genuine
    <2>7. Detects(j)
        BY <1>6 DEF Detects, Peers
    <2>8. QED
        BY <2>6, <2>7 DEF Sendable
<1>7. QED
    BY <1>2, <1>5, <1>6

LEMMA OutgoingRound ==
    ASSUME NEW s \in Seq(Outgoing), NEW e \in Carries(s)
    PROVE  e.round \in Int
<1>1. e \in Outgoing
    BY CarriesType
<1>2. QED
    BY <1>1 DEF Outgoing

LEMMA OutStep ==
    ASSUME Gg20Inv, Next, NEW k \in Operators, NEW e \in Carries(outCh'[k])
    PROVE  Sendable(k, e.round)
<1>1. PICK i \in Operators :
          \/ \E j \in Peers(i) : LinkStep(i, j)
          \/ LocalStep(i)
          \/ \E how, why : Ends(i, how, why)
    BY Gg20Steps
<1>2. Gg20TypeOK /\ \A x \in Carries(outCh[k]) : Sendable(k, x.round)
    BY DEF Gg20Inv, FramesInv
<1>3. CASE \E j \in Peers(i) : LinkStep(i, j)
    <2>1. PICK j \in Peers(i) : LinkStep(i, j)
        BY <1>3
    <2>2. CASE Dispatch(i, j)
        <3>1. \E f \in Carries(outCh[k]) : e.round = f.round
            BY <1>2, <2>2, DispatchFacts
        <3>2. QED
            BY <1>2, <3>1
    <2>3. QED
        BY <1>2, <2>1, <2>2, LinkStepFrame
<1>4. CASE StartParty(i)
    <2>1. e \in Carries(outCh[k]) \/ e.round <= 1
        BY <1>2, <1>4, StartFacts
    <2>2. CASE e.round <= 1
        <3>1. outCh' \in [Operators -> Seq(Outgoing)]
            BY <1>2, <1>4, StartFacts
        <3>2. e.round \in Int
            BY <3>1, OutgoingRound
        <3>3. QED
            BY <2>2, <3>2 DEF Sendable
    <2>3. QED
        BY <1>2, <2>1, <2>2
<1>5. CASE Feed(i)
    <2>1. PICK q \in party[i]..Finished :
              /\ party[i] = 0 => q = 0
              /\ party[i] # 0 => \A r \in party[i]..(q - 1) : HasRound(i, Fed(i), r)
              /\ party[i] < 3 /\ q >= 3 => Culprits(Fed(i)) = {}
              /\ outCh' \in [Operators -> Seq(Outgoing)]
              /\ \A l \in Operators : \A x \in Carries(outCh'[l]) :
                    x \in Carries(outCh[l]) \/ (l = i /\ x.round <= q)
        BY <1>2, <1>5, FeedFacts
    <2>2. CASE e \in Carries(outCh[k])
        BY <1>2, <2>2
    <2>3. CASE k = i /\ e.round <= q
        <3>1. Detects(i) => q <= 2
            BY <1>5, <2>1, FeedLimits
        <3>2. e.round \in Int
            BY <2>1, OutgoingRound
        <3>3. q \in Nat
            BY <1>2, Gg20Assumption DEF Gg20TypeOK, Finished
        <3>4. QED
            BY <2>3, <3>1, <3>2, <3>3 DEF Sendable
    <2>4. QED
        BY <2>1, <2>2, <2>3
<1>6. CASE GraceBegins(i) \/ TakeResult(i)
    BY <1>2, <1>6 DEF GraceBegins, TakeResult
<1>7. CASE \E how, why : Ends(i, how, why)
    <2>1. outCh' = [outCh EXCEPT ![i] = <<>>]
        BY <1>2, <1>7, EndsFacts
    <2>2. Carries(outCh'[k]) \subseteq Carries(outCh[k])
        BY <1>2, <2>1, CarriesNothing DEF Gg20TypeOK
    <2>3. QED
        BY <1>2, <2>2
<1>8. QED
    BY <1>1, <1>3, <1>4, <1>5, <1>6, <1>7 DEF LocalStep

LEMMA FramesNext ==
    ASSUME Gg20Inv, Next
    PROVE  FramesInv'
<1>1. Gg20TypeOK /\ FramesInv
    BY DEF Gg20Inv
<1>2. misbehave' = misbehave
    BY <1>1, Stays DEF started
<1>3. \A i, frame : Genuine(i, frame) => Genuine(i, frame)'
    BY <1>2 DEF Genuine, PartyFrame, Sendable, Detects
<1>4. \A i, r : Sendable(i, r) => Sendable(i, r)'
    BY <1>2 DEF Sendable, Detects
<1>5. ASSUME NEW link \in Links, NEW f \in Carries(wire'[link]), f.tag = "Party"
      PROVE  Genuine(link[1], f)
    <2>1. CASE f \in Carries(wire[link])
        BY <1>1, <1>5, <2>1 DEF FramesInv
    <2>2. CASE \E r \in 1..LastRound :
                 /\ f = PartyFrame(link[1], r)
                 /\ \E e \in Carries(outCh[link[1]]) : e.round = r
        <3>1. PICK r \in 1..LastRound :
                 /\ f = PartyFrame(link[1], r)
                 /\ \E e \in Carries(outCh[link[1]]) : e.round = r
            BY <2>2
        <3>2. f.round = r
            BY <3>1 DEF PartyFrame
        <3>3. link[1] \in Operators
            BY LinkTypes
        <3>4. Sendable(link[1], r)
            BY <1>1, <3>1, <3>3 DEF FramesInv
        <3>5. QED
            BY <3>1, <3>2, <3>4 DEF Genuine
    <2>3. QED
        BY <1>1, <1>5, <2>1, <2>2, WireStep DEF FinFrame
<1>6. ASSUME NEW i \in Operators, NEW e \in Carries(inbox'[i]) \cup held'[i]
      PROVE  e.from \in Peers(i) /\ Genuine(e.from, e.frame)
    <2>1. CASE e \in Carries(inbox[i]) \cup held[i]
        BY <1>1, <2>1 DEF FramesInv
    <2>2. CASE \E j \in Peers(i) :
                 /\ e.from = j /\ e.frame \in Carries(wire[<<j, i>>])
                 /\ e.frame.tag # "Fin" /\ e.frame \in Frames
        <3>1. PICK j \in Peers(i) :
                 /\ e.from = j /\ e.frame \in Carries(wire[<<j, i>>])
                 /\ e.frame.tag # "Fin" /\ e.frame \in Frames
            BY <2>2
        <3>2. e.frame.tag = "Party"
            BY <3>1, FrameTypes
        <3>3. <<j, i>> \in Links /\ <<j, i>>[1] = j
            BY LinkTypes
        <3>4. QED
            BY <1>1, <3>1, <3>2, <3>3 DEF FramesInv
    <2>3. QED
        BY <1>1, <2>1, <2>2, InboxStep
<1>7. \A i \in Operators : \A e \in Carries(outCh'[i]) : Sendable(i, e.round)
    BY OutStep
<1>8. /\ \A link \in Links : \A f \in Carries(wire'[link]) :
            f.tag = "Party" => Genuine(link[1], f)'
      /\ \A i \in Operators : \A e \in Carries(inbox'[i]) \cup held'[i] :
            e.from \in Peers(i) /\ Genuine(e.from, e.frame)'
      /\ \A i \in Operators : \A e \in Carries(outCh'[i]) : Sendable(i, e.round)'
    BY <1>3, <1>4, <1>5, <1>6, <1>7
<1>9. QED
    BY <1>8 DEF FramesInv, Carries, Peers, Links

LEMMA FinNext ==
    ASSUME Gg20Inv, Next
    PROVE  FinInv'
<1>1. Gg20TypeOK /\ FinInv /\ ProcessInv
    BY DEF Gg20Inv
<1>2. ASSUME NEW link \in Links, NEW f \in Carries(wire'[link]), f.tag = "Fin"
      PROVE  finished'[link[1]]
    <2>1. link[1] \in Operators
        BY LinkTypes
    <2>2. CASE f \in Carries(wire[link])
        BY <1>1, <1>2, <2>1, <2>2, Stays DEF FinInv
    <2>3. CASE driver[link[1]] = "barrier" /\ Running(link[1])
        BY <1>1, <2>1, <2>3, Stays DEF ProcessInv
    <2>4. \A r : PartyFrame(link[1], r).tag # "Fin"
        BY DEF PartyFrame
    <2>5. QED
        BY <1>1, <1>2, <2>2, <2>3, <2>4, WireStep
<1>3. QED
    BY <1>2 DEF FinInv, Carries, Links

LEMMA CheatNext ==
    ASSUME Gg20Inv, Gg20TypeOK', Next
    PROVE  CheatInv'
<1>1. PICK i \in Operators :
          \/ \E j \in Peers(i) : LinkStep(i, j)
          \/ LocalStep(i)
          \/ \E how, why : Ends(i, how, why)
    BY Gg20Steps
<1>2. Gg20TypeOK /\ ProcessInv /\ CheatInv /\ misbehave' = misbehave
    BY Stays DEF Gg20Inv, started
<1>3. SUFFICES ASSUME NEW k \in Operators
      PROVE  /\ blame'[k] \subseteq misbehave
             /\ Detects(k) /\ party'[k] >= 3 => cause'[k] = "fault"
             /\ misbehave = {k} => party'[k] <= 3
             /\ finished'[k] => misbehave = {}
    BY <1>2 DEF CheatInv, Detects
<1>4. /\ blame[k] \subseteq misbehave
      /\ Detects(k) /\ party[k] >= 3 => cause[k] = "fault"
      /\ misbehave = {k} => party[k] <= 3
      /\ finished[k] => misbehave = {}
    BY <1>2 DEF CheatInv
<1>5. CASE UNCHANGED <<blame, party, cause, finished>>
    BY <1>4, <1>5
<1>6. CASE StartParty(i)
    <2>1. /\ party' = [party EXCEPT ![i] = 1]
          /\ UNCHANGED <<blame, cause, finished>>
        BY <1>6 DEF StartParty, meshVars
    <2>2. party'[k] = party[k] \/ party'[k] = 1
        BY <1>2, <2>1 DEF Gg20TypeOK
    <2>3. QED
        BY <1>4, <2>1, <2>2
<1>7. CASE Feed(i)
    <2>1. PICK q \in party[i]..Finished :
              /\ party' = [party EXCEPT ![i] = q]
              /\ party[i] = 0 => q = 0
              /\ party[i] # 0 => \A r \in party[i]..(q - 1) : HasRound(i, Fed(i), r)
              /\ party[i] < 3 /\ q >= 3 => Culprits(Fed(i)) = {}
        BY <1>2, <1>7, FeedFacts
    <2>2. /\ Detects(i) => q <= 2
          /\ misbehave = {i} => q <= 3
        BY <1>7, <2>1, FeedLimits
    <2>3. q \in Int
        OBVIOUS
    <2>4. UNCHANGED <<blame, cause, finished>>
        BY <1>7 DEF Feed
    <2>5. party'[k] = IF k = i THEN q ELSE party[k]
        BY <1>2, <2>1 DEF Gg20TypeOK
    <2>6. QED
        BY <1>4, <2>2, <2>3, <2>4, <2>5
<1>8. CASE TakeResult(i)
    <2>1. /\ Running(i) /\ party[i] = Finished
          /\ finished' = [finished EXCEPT ![i] = TRUE]
          /\ UNCHANGED <<blame, party, cause>>
        BY <1>8 DEF TakeResult, Selecting
    <2>2. party[i] >= 3 /\ ~(party[i] <= 3)
        BY <2>1, Gg20Assumption DEF Finished
    <2>3. cause[i] = "none"
        BY <1>2, <2>1 DEF ProcessInv
    <2>4. ~Detects(i) /\ misbehave # {i}
        <3>1. /\ Detects(i) /\ party[i] >= 3 => cause[i] = "fault"
              /\ misbehave = {i} => party[i] <= 3
            BY <1>2 DEF CheatInv
        <3>2. QED
            BY <2>2, <2>3, <3>1
    <2>5. misbehave = {}
        BY <2>4 DEF Detects
    <2>6. QED
        BY <1>4, <2>1, <2>5
<1>9. ASSUME NEW how, NEW why, Ends(i, how, why)
      PROVE  /\ blame'[k] \subseteq misbehave
             /\ Detects(k) /\ party'[k] >= 3 => cause'[k] = "fault"
             /\ misbehave = {k} => party'[k] <= 3
             /\ finished'[k] => misbehave = {}
    <2>1. /\ cause' = [cause EXCEPT ![i] = why]
          /\ UNCHANGED finished
          /\ cause \in [Operators -> {"none", "crash", "timeout", "fault", "transport"}]
        BY <1>2, <1>9, EndsFacts DEF Gg20TypeOK
    <2>2. Running(i)
        BY <1>9 DEF Ends
    <2>3. Detects(i) => ~(party[i] >= 3)
        BY <1>2, <2>2 DEF CheatInv, ProcessInv
    <2>4. CASE UNCHANGED <<party, blame>>
        BY <1>4, <2>1, <2>3, <2>4
    <2>5. CASE /\ why = "fault" /\ Feeding(i)
               /\ party' = [party EXCEPT ![i] = 3]
               /\ \E c \in Culprits(Fed(i)) : blame' = [blame EXCEPT ![i] = {c}]
        <3>1. PICK c \in Culprits(Fed(i)) : blame' = [blame EXCEPT ![i] = {c}]
            BY <2>5
        <3>2. c \in misbehave
            BY <2>5, FedIsGenuine DEF Feeding
        <3>3. blame'[k] \subseteq misbehave
            BY <1>2, <1>4, <3>1, <3>2 DEF Gg20TypeOK
        <3>4. CASE k = i
            <4>1. party'[k] = 3 /\ cause'[k] = "fault"
                BY <1>2, <2>1, <2>5, <3>4 DEF Gg20TypeOK
            <4>2. QED
                BY <1>4, <2>1, <3>3, <4>1
        <3>5. CASE k # i
            <4>1. party'[k] = party[k] /\ cause'[k] = cause[k]
                BY <1>2, <2>1, <2>5, <3>5 DEF Gg20TypeOK
            <4>2. QED
                BY <1>4, <2>1, <3>3, <4>1
        <3>6. QED
            BY <3>4, <3>5
    <2>6. QED
        BY <1>9, <2>4, <2>5, EndsVerdict
<1>10. CASE \E j \in Peers(i) : LinkStep(i, j)
    BY <1>5, <1>10, LinkStepFrame
<1>11. CASE GraceBegins(i)
    BY <1>5, <1>11 DEF GraceBegins, meshVars
<1>12. QED
    BY <1>1, <1>6, <1>7, <1>8, <1>9, <1>10, <1>11 DEF LocalStep

----------------------------------------------------------------------------
(* Processes and what they know of each other.                             *)

LEMMA ProcessNext ==
    ASSUME Gg20Inv, Gg20TypeOK', Next
    PROVE  ProcessInv'
<1>1. PICK i \in Operators :
          \/ \E j \in Peers(i) : LinkStep(i, j)
          \/ LocalStep(i)
          \/ \E how, why : Ends(i, how, why)
    BY Gg20Steps
<1>2. Gg20TypeOK /\ ProcessInv /\ FinInv
    BY DEF Gg20Inv
<1>3. \A l \in Operators : (finished[l] => finished'[l]) /\ (closed[l] => closed'[l])
    BY <1>2, Stays
<1>4. ASSUME NEW k \in Operators
      PROVE  /\ closed[k] <=> ~Running(k)
             /\ Running(k) => cause[k] = "none" /\ (finished[k] <=> driver[k] = "barrier")
             /\ Running(k) /\ driver[k] = "grace" => \E j \in Operators : closed[j]
             /\ ~Running(k) /\ cause[k] = "none" => \A j \in Operators : finished[j]
             /\ \A j \in fins[k] : finished[j]
             /\ \A j \in errs[k] : closed[j]
             /\ fins[k] \subseteq Operators /\ errs[k] \subseteq Operators
    BY <1>2 DEF ProcessInv, Gg20TypeOK
<1>5. ASSUME NEW k \in Operators
      PROVE  /\ \A j \in fins'[k] : finished'[j]
             /\ \A j \in errs'[k] : closed'[j]
    <2>1. CASE UNCHANGED <<fins, errs>>
        BY <1>3, <1>4, <2>1
    <2>2. ASSUME NEW j \in Peers(i), LinkStep(i, j)
          PROVE  /\ \A l \in fins'[k] : finished'[l]
                 /\ \A l \in errs'[k] : closed'[l]
        <3>1. CASE UNCHANGED fins
            <4>1. \A l \in fins'[k] : finished'[l]
                BY <1>3, <1>4, <3>1
            <4>2. CASE UNCHANGED errs
                BY <2>1, <3>1, <4>2
            <4>3. CASE ReadError(i, j)
                <5>1. closed[j] /\ errs' = [errs EXCEPT ![i] = @ \cup {j}] /\ j \in Operators
                    BY <4>3, LinkTypes DEF ReadError
                <5>2. \A l \in errs'[k] : l \in errs[k] \/ l = j
                    BY <1>2, <5>1 DEF Gg20TypeOK
                <5>3. QED
                    BY <1>3, <1>4, <4>1, <5>1, <5>2
            <4>4. QED
                BY <2>2, <4>2, <4>3, LinkStepFrame
        <3>2. CASE ReadFin(i, j)
            <4>1. /\ wire[<<j, i>>] # <<>> /\ Head(wire[<<j, i>>]).tag = "Fin"
                  /\ wire' = [wire EXCEPT ![<<j, i>>] = Tail(@)]
                  /\ fins' = [fins EXCEPT ![i] = @ \cup {j}]
                  /\ UNCHANGED errs
                BY <3>2 DEF ReadFin
            <4>2. Head(wire[<<j, i>>]) \in Carries(wire[<<j, i>>])
                BY <1>2, <4>1, WireType, ReadType
            <4>3. j \in Operators /\ <<j, i>> \in Links /\ <<j, i>>[1] = j
                BY LinkTypes
            <4>4. finished[j]
                BY <1>2, <4>1, <4>2, <4>3 DEF FinInv
            <4>5. \A l \in fins'[k] : l \in fins[k] \/ l = j
                BY <1>2, <4>1 DEF Gg20TypeOK
            <4>6. QED
                BY <1>3, <1>4, <4>1, <4>3, <4>4, <4>5
        <3>3. QED
            BY <2>2, <3>1, <3>2, LinkStepFrame
    <2>3. CASE LocalStep(i)
        BY <2>1, <2>3 DEF LocalStep, StartParty, Feed, GraceBegins, TakeResult, meshVars
    <2>4. CASE \E how, why : Ends(i, how, why)
        <3>1. /\ fins' = [fins EXCEPT ![i] = {}]
              /\ errs' = [errs EXCEPT ![i] = {}]
            BY <1>2, <2>4, EndsFacts
        <3>2. fins'[k] \subseteq fins[k] /\ errs'[k] \subseteq errs[k]
            BY <1>2, <3>1 DEF Gg20TypeOK
        <3>3. QED
            BY <1>3, <1>4, <3>2
    <2>5. QED
        BY <1>1, <2>2, <2>3, <2>4
<1>6. ASSUME NEW k \in Operators
      PROVE  /\ closed'[k] <=> ~Running(k)'
             /\ Running(k)' => cause'[k] = "none" /\ (finished'[k] <=> driver'[k] = "barrier")
             /\ Running(k)' /\ driver'[k] = "grace" => \E j \in Operators : closed'[j]
             /\ ~Running(k)' /\ cause'[k] = "none" => \A j \in Operators : finished'[j]
    <2>1. CASE UNCHANGED <<closed, status, cause, finished, driver>>
        BY <1>4, <2>1 DEF Running
    <2>2. CASE \E j \in Peers(i) : Dispatch(i, j)
        <3>1. PICK d \in {"select", "dispatch"} : driver' = [driver EXCEPT ![i] = d]
            BY <2>2 DEF Dispatch
        <3>2. /\ driver[i] \in {"select", "dispatch"}
              /\ UNCHANGED <<closed, status, cause, finished>>
            BY <2>2 DEF Dispatch, Dispatching
        <3>3. CASE k = i
            <4>1. driver'[k] = d
                BY <1>2, <3>1, <3>3 DEF Gg20TypeOK
            <4>2. QED
                BY <1>4, <3>1, <3>2, <3>3, <4>1 DEF Running
        <3>4. CASE k # i
            <4>1. driver'[k] = driver[k]
                BY <1>2, <3>1, <3>4 DEF Gg20TypeOK
            <4>2. QED
                BY <1>4, <3>2, <4>1 DEF Running
        <3>5. QED
            BY <3>3, <3>4
    <2>3. CASE \E j \in Peers(i) : LinkStep(i, j)
        <3>1. PICK j \in Peers(i) : LinkStep(i, j)
            BY <2>3
        <3>2. /\ UNCHANGED <<closed, status, cause, finished>>
              /\ UNCHANGED driver \/ Dispatch(i, j)
            BY <3>1, LinkStepFrame
        <3>3. QED
            BY <2>1, <2>2, <3>2
    <2>4. CASE StartParty(i) \/ Feed(i)
        BY <2>1, <2>4 DEF StartParty, Feed, meshVars
    <2>5. CASE GraceBegins(i)
        <3>1. /\ Running(i) /\ driver[i] = "select" /\ errs[i] # {}
              /\ driver' = [driver EXCEPT ![i] = "grace"]
              /\ UNCHANGED <<closed, status, cause, finished>>
            BY <2>5 DEF GraceBegins, Selecting, meshVars
        <3>2. \E j \in Operators : closed[j]
            BY <1>4, <3>1
        <3>3. CASE k = i
            <4>1. driver'[k] = "grace"
                BY <1>2, <3>1, <3>3 DEF Gg20TypeOK
            <4>2. QED
                BY <1>4, <3>1, <3>2, <3>3, <4>1 DEF Running
        <3>4. CASE k # i
            <4>1. driver'[k] = driver[k]
                BY <1>2, <3>1, <3>4 DEF Gg20TypeOK
            <4>2. QED
                BY <1>4, <3>1, <4>1 DEF Running
        <3>5. QED
            BY <3>3, <3>4
    <2>6. CASE TakeResult(i)
        <3>1. /\ Running(i)
              /\ finished' = [finished EXCEPT ![i] = TRUE]
              /\ driver' = [driver EXCEPT ![i] = "barrier"]
              /\ UNCHANGED <<closed, status, cause>>
            BY <2>6 DEF TakeResult, Selecting
        <3>2. CASE k = i
            <4>1. driver'[k] = "barrier" /\ finished'[k]
                BY <1>2, <3>1, <3>2 DEF Gg20TypeOK
            <4>2. QED
                BY <1>4, <3>1, <3>2, <4>1 DEF Running
        <3>3. CASE k # i
            <4>1. driver'[k] = driver[k] /\ finished'[k] = finished[k]
                BY <1>2, <3>1, <3>3 DEF Gg20TypeOK
            <4>2. QED
                BY <1>3, <1>4, <3>1, <4>1 DEF Running
        <3>4. QED
            BY <3>2, <3>3
    <2>7. ASSUME NEW how, NEW why, Ends(i, how, why)
          PROVE  /\ closed'[k] <=> ~Running(k)'
                 /\ Running(k)' => cause'[k] = "none" /\ (finished'[k] <=> driver'[k] = "barrier")
                 /\ Running(k)' /\ driver'[k] = "grace" => \E j \in Operators : closed'[j]
                 /\ ~Running(k)' /\ cause'[k] = "none" => \A j \in Operators : finished'[j]
        <3>1. /\ how \in {"done", "aborted", "faulted", "crashed"}
              /\ status' = [status EXCEPT ![i] = how]
              /\ cause' = [cause EXCEPT ![i] = why]
              /\ closed' = [closed EXCEPT ![i] = TRUE]
              /\ UNCHANGED <<finished, driver>>
            BY <1>2, <2>7, EndsFacts
        <3>2. CASE k = i
            <4>1. status'[k] = how /\ cause'[k] = why /\ closed'[k]
                BY <1>2, <3>1, <3>2 DEF Gg20TypeOK
            <4>2. why = "none" => \A j \in Operators : finished[j]
                <5>1. SUFFICES ASSUME why = "none" PROVE \A j \in Operators : finished[j]
                    OBVIOUS
                <5>2. Running(i) /\ driver[i] = "barrier" /\ fins[i] = Peers(i)
                    BY <2>7, <5>1 DEF Ends
                <5>3. finished[i] /\ \A j \in Peers(i) : finished[j]
                    BY <1>4, <5>2
                <5>4. QED
                    BY <5>3 DEF Peers
            <4>3. QED
                BY <3>1, <4>1, <4>2 DEF Running
        <3>3. CASE k # i
            <4>1. status'[k] = status[k] /\ cause'[k] = cause[k] /\ closed'[k] = closed[k]
                BY <1>2, <3>1, <3>3 DEF Gg20TypeOK
            <4>2. QED
                BY <1>3, <1>4, <3>1, <4>1 DEF Running
        <3>4. QED
            BY <3>2, <3>3
    <2>8. QED
        BY <1>1, <2>3, <2>4, <2>5, <2>6, <2>7 DEF LocalStep
<1>7. QED
    BY <1>5, <1>6 DEF ProcessInv

\* An operator that gives up on the transport has lost somebody who ended for
\* a reason of its own: where nobody has one, everybody has a result.
LEMMA CauseNext ==
    ASSUME Gg20Inv, Gg20TypeOK', Next
    PROVE  AbortHasRootCause'
<1>1. PICK i \in Operators :
          \/ \E j \in Peers(i) : LinkStep(i, j)
          \/ LocalStep(i)
          \/ \E how, why : Ends(i, how, why)
    BY Gg20Steps
<1>2. Gg20TypeOK /\ ProcessInv /\ AbortHasRootCause
    BY DEF Gg20Inv
<1>3. CASE UNCHANGED cause
    BY <1>2, <1>3 DEF AbortHasRootCause
<1>4. CASE \E j \in Peers(i) : LinkStep(i, j)
    BY <1>3, <1>4, LinkStepFrame
<1>5. CASE LocalStep(i)
    BY <1>3, <1>5 DEF LocalStep, StartParty, Feed, GraceBegins, TakeResult
<1>6. ASSUME NEW how, NEW why, Ends(i, how, why)
      PROVE  AbortHasRootCause'
    <2>1. /\ why \in {"none", "crash", "timeout", "fault", "transport"}
          /\ cause' = [cause EXCEPT ![i] = why]
          /\ cause \in [Operators -> {"none", "crash", "timeout", "fault", "transport"}]
        BY <1>2, <1>6, EndsFacts DEF Gg20TypeOK
    <2>2. Running(i) /\ cause[i] = "none"
        BY <1>2, <1>6 DEF Ends, ProcessInv
    <2>3. \A j \in Operators : cause[j] # "none" => cause'[j] = cause[j]
        BY <2>1, <2>2
    <2>4. CASE why = "transport"
        <3>1. /\ driver[i] # "barrier"
              /\ \/ errs[i] # {}
                 \/ driver[i] = "grace"
                 \/ \E j \in Peers(i) : closed[j]
            BY <1>6, <2>4 DEF Ends
        <3>2. ~finished[i]
            BY <1>2, <2>2, <3>1 DEF ProcessInv
        <3>3. errs[i] \subseteq Operators /\ Peers(i) \subseteq Operators
            BY <1>2 DEF Gg20TypeOK, Peers
        <3>4. PICK j \in Operators : closed[j]
            <4>1. CASE errs[i] # {}
                BY <1>2, <3>3, <4>1 DEF ProcessInv
            <4>2. CASE driver[i] = "grace"
                BY <1>2, <2>2, <4>2 DEF ProcessInv
            <4>3. CASE \E j \in Peers(i) : closed[j]
                BY <3>3, <4>3
            <4>4. QED
                BY <3>1, <4>1, <4>2, <4>3
        <3>5. cause[j] # "none"
            BY <1>2, <3>2, <3>4 DEF ProcessInv
        <3>6. \E l \in Operators : cause[l] \in {"crash", "timeout", "fault"}
            BY <1>2, <2>1, <3>4, <3>5 DEF AbortHasRootCause
        <3>7. QED
            BY <2>3, <3>6 DEF AbortHasRootCause
    <2>5. CASE why # "transport"
        <3>1. \A j \in Operators : cause'[j] = "transport" => cause[j] = "transport"
            BY <2>1, <2>5
        <3>2. QED
            BY <1>2, <2>3, <3>1 DEF AbortHasRootCause
    <2>6. QED
        BY <2>4, <2>5
<1>7. QED
    BY <1>1, <1>4, <1>5, <1>6

LEMMA InvNext ==
    ASSUME Gg20Inv, [Next]_vars
    PROVE  Gg20Inv'
<1>1. Gg20TypeOK'
    BY TypeNext DEF Gg20Inv
<1>2. CASE Next
    BY <1>1, <1>2, ProcessNext, FinNext, FramesNext, CheatNext, CauseNext DEF Gg20Inv
<1>3. CASE UNCHANGED vars
    <2>1. ProcessInv' /\ AbortHasRootCause' /\ CheatInv'
        BY <1>3 DEF Gg20Inv, vars, meshVars, driverVars, started, ProcessInv, Running,
                    AbortHasRootCause, CheatInv, Detects
    <2>2. FinInv' /\ FramesInv'
        BY <1>3 DEF Gg20Inv, vars, meshVars, driverVars, started, FinInv, FramesInv, Genuine,
                    PartyFrame, Sendable, Detects
    <2>3. QED
        BY <1>1, <2>1, <2>2 DEF Gg20Inv
<1>4. QED
    BY <1>2, <1>3

LEMMA Gg20Invariant == Spec => []Gg20Inv
BY InvInit, InvNext, PTL DEF Spec

----------------------------------------------------------------------------
(* The theorems.                                                           *)

\* An operator that a quorum of attestations lets slash, named by its index in
\* the directory, was started with -misbehave (fault.go:178-211): at least one
\* operator has it as the first culprit of its FaultError, and only proofs of
\* cheaters fail to verify.
THEOREM SlashedHaveCheated == Spec => []SlashIsDeserved
<1>1. Gg20Inv => SlashIsDeserved
    <2>1. SUFFICES ASSUME CheatInv PROVE SlashIsDeserved
        BY DEF Gg20Inv
    <2>2. \A i \in Operators : Report(i) \subseteq {Global[c] : c \in misbehave}
        BY <2>1 DEF CheatInv, Report
    <2>3. QED
        BY <2>2 DEF SlashIsDeserved, Slashable
<1>2. QED
    BY <1>1, Gg20Invariant, PTL

\* In a session somebody cheats in nobody produces a result, and an honest
\* operator goes on to round 3 only to attest (protocol.go:77-84).
THEOREM CheatersGetNothing == Spec => []CheatIsNeverSigned
<1>1. Gg20Inv => CheatIsNeverSigned
    <2>1. SUFFICES ASSUME CheatInv, misbehave # {}, NEW i \in Operators
          PROVE  ~finished[i] /\ (i \notin misbehave /\ party[i] >= 3 => cause[i] = "fault")
        BY DEF Gg20Inv, CheatIsNeverSigned
    <2>2. i \notin misbehave => Detects(i)
        BY <2>1 DEF Detects
    <2>3. QED
        BY <2>1, <2>2 DEF CheatInv
<1>2. QED
    BY <1>1, Gg20Invariant, PTL

\* An anonymous abort never stands alone (protocol.go:131-149): some operator
\* died, ran out of time or has attested a culprit.
THEOREM Gg20AbortsHaveCause == Spec => []AbortHasRootCause
<1>1. Gg20Inv => AbortHasRootCause
    BY DEF Gg20Inv
<1>2. QED
    BY <1>1, Gg20Invariant, PTL

----------------------------------------------------------------------------
(* A session implements RoundSession.  What makes the parties move in step *)
(* is that no message, wherever it is, is ahead of its sender.             *)

SentInv ==
    /\ \A link \in Links : \A f \in Carries(wire[link]) :
          f.tag = "Party" => f.round <= party[link[1]]
    /\ \A i \in Operators : \A e \in Carries(inbox[i]) \cup held[i] :
          e.frame.round <= party[e.from]
    /\ \A i \in Operators : \A e \in Carries(outCh[i]) : e.round <= party[i]

PartiesInStep == \A i, j \in Operators : party[i] <= party[j] + 1

RoundInv == Gg20Inv /\ SentInv /\ PartiesInStep

\* How a party moves: not at all, to its first round, or to a round the one
\* before which all others have come to.
Moves(i, q) ==
    /\ party' = [party EXCEPT ![i] = q]
    /\ q = party[i] \/ q = 1 \/ Rounds!OthersIn(i, q - 1)

\* A party that has everybody's messages of a round finds everybody there.
LEMMA HeldIsReached ==
    ASSUME RoundInv, NEW i \in Operators, inbox[i] # <<>>, NEW r, HasRound(i, Fed(i), r)
    PROVE  Rounds!OthersIn(i, r)
<1>1. ASSUME NEW m \in Fed(i) PROVE m.frame.round <= party[m.from]
    <2>1. Head(inbox[i]) \in Carries(inbox[i])
        BY FedFacts DEF RoundInv, Gg20Inv
    <2>2. QED
        BY <2>1 DEF Fed, RoundInv, SentInv
<1>2. ASSUME NEW j \in Operators \ {i} PROVE party[j] >= r
    <2>1. j \in Peers(i)
        BY DEF Peers
    <2>2. PICK m \in Fed(i) : m.from = j /\ m.frame.round = r
        BY <2>1 DEF HasRound
    <2>3. m \in Envelopes /\ party[j] \in Nat
        BY FedFacts, Gg20Assumption DEF RoundInv, Gg20Inv, Gg20TypeOK, Finished
    <2>4. r \in Int
        BY <2>2, <2>3 DEF Envelopes, PartyFrames
    <2>5. QED
        BY <1>1, <2>2, <2>3, <2>4
<1>3. QED
    BY <1>2 DEF Rounds!OthersIn

LEMMA FaultMoves ==
    ASSUME RoundInv, NEW i \in Operators, FeedFaults(i)
    PROVE  /\ Rounds!OthersIn(i, 2)
           /\ party[i] < 3 /\ party' = [party EXCEPT ![i] = 3]
           /\ \E c \in misbehave \ {i} : blame' = [blame EXCEPT ![i] = {c}]
<1>1. /\ inbox[i] # <<>> /\ Running(i)
      /\ party[i] < 3 /\ Reached(i, Fed(i)) >= 3
      /\ party' = [party EXCEPT ![i] = 3]
    BY DEF FeedFaults, Feeding, Selecting, Verifies
<1>2. party[i] \in Nat /\ Reached(i, Fed(i)) \in Nat
    BY ReachedFacts, Gg20Assumption DEF RoundInv, Gg20Inv, Gg20TypeOK, Finished
<1>3. HasRound(i, Fed(i), 2)
    <2>1. party[i] # 0
        BY <1>1, ReachedFacts DEF RoundInv, Gg20Inv
    <2>2. 2 \in party[i]..(Reached(i, Fed(i)) - 1)
        BY <1>1, <1>2, <2>1
    <2>3. QED
        BY <2>1, <2>2, ReachedFacts DEF RoundInv, Gg20Inv
<1>4. PICK c \in Culprits(Fed(i)) : blame' = [blame EXCEPT ![i] = {c}]
    BY DEF FeedFaults
<1>5. c \in misbehave /\ c \in Peers(i)
    BY <1>1, FedIsGenuine DEF RoundInv, Culprits
<1>6. QED
    BY <1>1, <1>3, <1>4, <1>5, HeldIsReached DEF Peers

LEMMA FeedMoves ==
    ASSUME RoundInv, NEW i \in Operators, Feed(i)
    PROVE  \E q \in party[i]..Finished :
              /\ Moves(i, q)
              /\ q >= 3 => misbehave \subseteq {i}
              /\ q > 3 => misbehave = {}
              /\ \A k \in Operators : \A e \in Carries(outCh'[k]) :
                    e \in Carries(outCh[k]) \/ (k = i /\ e.round <= q)
<1>1. Gg20Inv /\ Gg20TypeOK /\ inbox[i] # <<>>
    BY DEF RoundInv, Gg20Inv, Feed, Feeding
<1>2. PICK q \in party[i]..Finished :
          /\ party' = [party EXCEPT ![i] = q]
          /\ party[i] = 0 => q = 0
          /\ party[i] # 0 => \A r \in party[i]..(q - 1) : HasRound(i, Fed(i), r)
          /\ party[i] < 3 /\ q >= 3 => Culprits(Fed(i)) = {}
          /\ \A k \in Operators : \A e \in Carries(outCh'[k]) :
                e \in Carries(outCh[k]) \/ (k = i /\ e.round <= q)
    BY <1>1, FeedFacts
<1>3. /\ Detects(i) => q <= 2
      /\ misbehave = {i} => q <= 3
    BY <1>1, <1>2, FeedLimits
<1>4. party[i] \in Nat /\ q \in Nat
    BY <1>1, Gg20Assumption DEF Gg20TypeOK, Finished
<1>5. q = party[i] \/ Rounds!OthersIn(i, q - 1)
    <2>1. SUFFICES ASSUME q # party[i] PROVE Rounds!OthersIn(i, q - 1)
        OBVIOUS
    <2>2. party[i] # 0 /\ q - 1 \in party[i]..(q - 1)
        BY <1>2, <1>4, <2>1
    <2>3. HasRound(i, Fed(i), q - 1)
        BY <1>2, <2>2
    <2>4. QED
        BY <1>1, <2>3, HeldIsReached
<1>6. (q >= 3 => misbehave \subseteq {i}) /\ (q > 3 => misbehave = {})
    BY <1>3, <1>4 DEF Detects
<1>7. QED
    BY <1>2, <1>5, <1>6 DEF Moves

\* What a step does to the parties and to what they have still to send.
LEMMA PartyStep ==
    ASSUME RoundInv, Next
    PROVE  \E i \in Operators : \E q \in party[i]..Finished :
              /\ Moves(i, q)
              /\ \A k \in Operators : \A e \in Carries(outCh'[k]) :
                    \/ \E f \in Carries(outCh[k]) : e.round = f.round
                    \/ k = i /\ e.round <= q
<1>1. PICK i \in Operators : Transport(i) \/ Step(i) \/ Timer(i) \/ Crash(i)
    BY DEF Next
<1>2. Gg20TypeOK /\ party \in [Operators -> 0..Finished] /\ Finished \in Nat /\ Finished >= 3
    BY Gg20Assumption DEF RoundInv, Gg20Inv, Gg20TypeOK, Finished
<1>3. party[i] \in party[i]..Finished /\ party = [party EXCEPT ![i] = party[i]]
    BY <1>2
<1>4. CASE Feed(i)
    BY <1>4, FeedMoves
<1>5. CASE FeedFaults(i)
    <2>1. party' = [party EXCEPT ![i] = 3] /\ party[i] < 3 /\ Rounds!OthersIn(i, 3 - 1)
        BY <1>5, FaultMoves
    <2>2. Moves(i, 3) /\ 3 \in party[i]..Finished
        BY <1>2, <2>1 DEF Moves
    <2>3. outCh' = [outCh EXCEPT ![i] = <<>>]
        BY <1>5 DEF FeedFaults, Exit
    <2>4. \A k \in Operators : Carries(outCh'[k]) \subseteq Carries(outCh[k])
        BY <1>2, <2>3, CarriesNothing DEF Gg20TypeOK
    <2>5. QED
        BY <2>2, <2>4
<1>6. CASE StartParty(i)
    <2>1. /\ party[i] = 0 /\ party' = [party EXCEPT ![i] = 1]
          /\ \A k \in Operators : \A e \in Carries(outCh'[k]) :
                e \in Carries(outCh[k]) \/ (k = i /\ e.round <= 1)
        BY <1>2, <1>6, StartFacts
    <2>2. Moves(i, 1) /\ 1 \in party[i]..Finished
        BY <1>2, <2>1 DEF Moves
    <2>3. QED
        BY <2>1, <2>2
<1>7. ASSUME UNCHANGED party,
             \A k \in Operators : \A e \in Carries(outCh'[k]) :
                 \E f \in Carries(outCh[k]) : e.round = f.round
      PROVE  \E q \in party[i]..Finished :
                /\ Moves(i, q)
                /\ \A k \in Operators : \A e \in Carries(outCh'[k]) :
                      \/ \E f \in Carries(outCh[k]) : e.round = f.round
                      \/ k = i /\ e.round <= q
    <2>1. Moves(i, party[i])
        BY <1>3, <1>7 DEF Moves
    <2>2. QED
        BY <1>3, <1>7, <2>1
<1>8. CASE UNCHANGED <<party, outCh>>
    BY <1>7, <1>8
<1>9. CASE \E j \in Peers(i) : Dispatch(i, j)
    <2>1. UNCHANGED party
        BY <1>9 DEF Dispatch
    <2>2. QED
        BY <1>2, <1>7, <1>9, <2>1, DispatchFacts
<1>10. CASE UNCHANGED party /\ outCh' = [outCh EXCEPT ![i] = <<>>]
    <2>1. \A k \in Operators : Carries(outCh'[k]) \subseteq Carries(outCh[k])
        BY <1>2, <1>10, CarriesNothing DEF Gg20TypeOK
    <2>2. QED
        BY <1>7, <1>10, <2>1
<1>11. CASE (\E j \in Peers(i) : DispatchFails(i, j)) \/ GraceEnds(i) \/ Leave(i)
    BY <1>10, <1>11 DEF DispatchFails, GraceEnds, Leave, Abort, Exit
<1>12. CASE Timer(i) \/ Crash(i)
    BY <1>10, <1>12 DEF Timer, TimesOut, BarrierTimesOut, Crash, Abort, Exit
<1>13. CASE TakeError(i)
    BY <1>8, <1>10, <1>13 DEF TakeError, Abort, Exit
<1>14. CASE Transport(i) \/ (\E j \in Peers(i) : SendFin(i, j)) \/ TakeResult(i)
    BY <1>8, <1>14 DEF Transport, SendFin, TakeResult, driverVars
<1>15. QED
    BY <1>1, <1>4, <1>5, <1>6, <1>9, <1>11, <1>12, <1>13, <1>14 DEF Step, Send

LEMMA MoveRaises ==
    ASSUME RoundInv, NEW i \in Operators, NEW q \in party[i]..Finished, Moves(i, q)
    PROVE  /\ party'[i] = q
           /\ \A k \in Operators : /\ party[k] \in Nat /\ party'[k] \in Nat
                                   /\ party[k] <= party'[k]
                                   /\ k # i => party'[k] = party[k]
BY Gg20Assumption DEF RoundInv, Gg20Inv, Gg20TypeOK, Moves, Finished

LEMMA SentNext ==
    ASSUME RoundInv, Next
    PROVE  SentInv'
<1>1. Gg20TypeOK /\ SentInv
    BY DEF RoundInv, Gg20Inv
<1>2. PICK i \in Operators : \E q \in party[i]..Finished :
          /\ Moves(i, q)
          /\ \A k \in Operators : \A e \in Carries(outCh'[k]) :
                \/ \E f \in Carries(outCh[k]) : e.round = f.round
                \/ k = i /\ e.round <= q
    BY PartyStep
<1>3. PICK q \in party[i]..Finished :
          /\ Moves(i, q)
          /\ \A k \in Operators : \A e \in Carries(outCh'[k]) :
                \/ \E f \in Carries(outCh[k]) : e.round = f.round
                \/ k = i /\ e.round <= q
    BY <1>2
<1>4. /\ party'[i] = q
      /\ \A k \in Operators : /\ party[k] \in Nat /\ party'[k] \in Nat
                              /\ party[k] <= party'[k]
    BY <1>3, MoveRaises
<1>5. ASSUME NEW k \in Operators, NEW r \in Int, r <= party[k]
      PROVE  r <= party'[k]
    BY <1>4, <1>5
<1>6. ASSUME NEW link \in Links, NEW f \in Carries(wire'[link]), f.tag = "Party"
      PROVE  f.round <= party'[link[1]]
    <2>1. link[1] \in Operators
        BY LinkTypes
    <2>2. CASE f \in Carries(wire[link])
        <3>1. f \in PartyFrames
            <4>1. f \in Frames
                BY <1>1, <2>2, WireType, CarriesType
            <4>2. QED
                BY <1>6, <4>1, FrameTypes
        <3>2. f.round \in Int /\ f.round <= party[link[1]]
            BY <1>1, <1>6, <2>2, <3>1 DEF SentInv, PartyFrames
        <3>3. QED
            BY <1>5, <2>1, <3>2
    <2>3. CASE \E r \in 1..LastRound :
                 /\ f = PartyFrame(link[1], r)
                 /\ \E e \in Carries(outCh[link[1]]) : e.round = r
        <3>1. PICK r \in 1..LastRound :
                 /\ f = PartyFrame(link[1], r)
                 /\ \E e \in Carries(outCh[link[1]]) : e.round = r
            BY <2>3
        <3>2. f.round = r /\ r <= party[link[1]]
            BY <1>1, <2>1, <3>1 DEF SentInv, PartyFrame
        <3>3. QED
            BY <1>5, <2>1, <3>2
    <2>4. QED
        BY <1>1, <1>6, <2>2, <2>3, WireStep DEF FinFrame
<1>7. ASSUME NEW k \in Operators, NEW e \in Carries(inbox'[k]) \cup held'[k]
      PROVE  e.frame.round <= party'[e.from]
    <2>1. CASE e \in Carries(inbox[k]) \cup held[k]
        <3>1. e \in Envelopes
            BY <1>1, <2>1, CarriesType DEF Gg20TypeOK
        <3>2. e.from \in Operators /\ e.frame.round \in Int
            BY <3>1 DEF Envelopes, PartyFrames
        <3>3. QED
            BY <1>1, <1>5, <2>1, <3>2 DEF SentInv
    <2>2. CASE \E j \in Peers(k) :
                 /\ e.from = j /\ e.frame \in Carries(wire[<<j, k>>])
                 /\ e.frame.tag # "Fin" /\ e.frame \in Frames
        <3>1. PICK j \in Peers(k) :
                 /\ e.from = j /\ e.frame \in Carries(wire[<<j, k>>])
                 /\ e.frame.tag # "Fin" /\ e.frame \in Frames
            BY <2>2
        <3>2. e.frame \in PartyFrames /\ e.frame.tag = "Party"
            BY <3>1, FrameTypes
        <3>3. <<j, k>> \in Links /\ <<j, k>>[1] = j /\ j \in Operators
            BY LinkTypes
        <3>4. e.frame.round \in Int
            BY <3>2 DEF PartyFrames
        <3>5. QED
            BY <1>1, <1>5, <3>1, <3>2, <3>3, <3>4 DEF SentInv
    <2>3. QED
        BY <1>1, <2>1, <2>2, InboxStep
<1>8. ASSUME NEW k \in Operators, NEW e \in Carries(outCh'[k])
      PROVE  e.round <= party'[k]
    <2>1. CASE \E f \in Carries(outCh[k]) : e.round = f.round
        <3>1. PICK f \in Carries(outCh[k]) : e.round = f.round
            BY <2>1
        <3>2. outCh[k] \in Seq(Outgoing)
            BY <1>1 DEF Gg20TypeOK
        <3>3. f.round \in Int
            BY <3>2, OutgoingRound
        <3>4. QED
            BY <1>1, <1>5, <3>1, <3>3 DEF SentInv
    <2>2. CASE k = i /\ e.round <= q
        BY <1>4, <2>2
    <2>3. QED
        BY <1>3, <2>1, <2>2
<1>9. QED
    BY <1>6, <1>7, <1>8 DEF SentInv, Carries, Links, Peers

LEMMA InStepNext ==
    ASSUME RoundInv, Next
    PROVE  PartiesInStep'
<1>1. PICK i \in Operators : \E q \in party[i]..Finished : Moves(i, q)
    BY PartyStep
<1>2. PICK q \in party[i]..Finished : Moves(i, q)
    BY <1>1
<1>3. /\ party'[i] = q
      /\ \A k \in Operators : /\ party[k] \in Nat /\ party'[k] \in Nat
                              /\ party[k] <= party'[k]
                              /\ k # i => party'[k] = party[k]
    BY <1>2, MoveRaises
<1>4. PartiesInStep
    BY DEF RoundInv
<1>5. ASSUME NEW j \in Operators, NEW k \in Operators
      PROVE  party'[j] <= party'[k] + 1
    <2>1. CASE j # i \/ k = j
        <3>1. party'[j] = party[j] \/ k = j
            BY <1>3, <2>1
        <3>2. party[j] <= party[k] + 1
            BY <1>4 DEF PartiesInStep
        <3>3. QED
            BY <1>3, <3>1, <3>2
    <2>2. CASE j = i /\ k # i
        <3>1. party'[k] = party[k] /\ party'[j] = q
            BY <1>3, <2>2
        <3>2. CASE q = party[i]
            BY <1>3, <1>4, <2>2, <3>1, <3>2 DEF PartiesInStep
        <3>3. CASE q = 1
            BY <1>3, <3>1, <3>3
        <3>4. CASE Rounds!OthersIn(i, q - 1)
            <4>1. party[k] >= q - 1
                BY <2>2, <3>4 DEF Rounds!OthersIn
            <4>2. QED
                BY <1>3, <3>1, <4>1
        <3>5. QED
            BY <1>2, <3>2, <3>3, <3>4 DEF Moves
    <2>3. QED
        BY <2>1, <2>2
<1>6. QED
    BY <1>5 DEF PartiesInStep

LEMMA RoundInvariant == Spec => []RoundInv
<1>1. Init => RoundInv
    <2> SUFFICES ASSUME Init PROVE SentInv /\ PartiesInStep
        BY InvInit DEF RoundInv
    <2>1. \A link \in Links : Carries(wire[link]) = {}
        BY CarriesNothing DEF Init
    <2>2. \A i \in Operators : Carries(inbox[i]) = {} /\ held[i] = {} /\ Carries(outCh[i]) = {}
        BY CarriesNothing DEF Init
    <2>3. QED
        BY <2>1, <2>2 DEF Init, SentInv, PartiesInStep
<1>2. RoundInv /\ [Next]_vars => RoundInv'
    <2> SUFFICES ASSUME RoundInv, [Next]_vars PROVE RoundInv'
        OBVIOUS
    <2>1. Gg20Inv'
        BY InvNext DEF RoundInv
    <2>2. CASE Next
        BY <2>1, <2>2, SentNext, InStepNext DEF RoundInv
    <2>3. CASE UNCHANGED vars
        <3>1. SentInv' /\ PartiesInStep'
            BY <2>3 DEF RoundInv, vars, meshVars, driverVars, SentInv, PartiesInStep
        <3>2. QED
            BY <2>1, <3>1 DEF RoundInv
    <2>4. QED
        BY <2>2, <2>3
<1>3. QED
    BY <1>1, <1>2, PTL DEF Spec

\* Those with a result, and those that left knowing that all have one.
HaveResult == {i \in Operators : finished[i]}

LeftAtEase == {i \in Operators : status[i] = "done" /\ cause[i] = "none"}

LEMMA UnseenByRounds ==
    ASSUME UNCHANGED <<misbehave, party, blame, HaveResult, LeftAtEase>>
    PROVE  UNCHANGED Rounds!vars
BY DEF Rounds!vars, HaveResult, LeftAtEase

LEMMA EntersRound ==
    ASSUME NEW i, NEW r, party[i] < r, Rounds!OthersIn(i, r - 1),
           r >= 3 => misbehave \subseteq {i},
           r > 3 => misbehave = {},
           party' = [party EXCEPT ![i] = r],
           UNCHANGED <<misbehave, blame, HaveResult, LeftAtEase>>
    PROVE  Rounds!Enter(i, r)
BY DEF Rounds!Enter, Rounds!Verification, HaveResult, LeftAtEase

LEMMA BlamesCheater ==
    ASSUME NEW i, NEW c \in misbehave \ {i}, party[i] < 3, Rounds!OthersIn(i, 2),
           party' = [party EXCEPT ![i] = 3],
           blame' = [blame EXCEPT ![i] = {c}],
           UNCHANGED <<misbehave, HaveResult, LeftAtEase>>
    PROVE  Rounds!Blame(i, c)
BY DEF Rounds!Blame, Rounds!Verification, HaveResult, LeftAtEase

\* A process that ends for a reason is not one that leaves at ease.
LEMMA EndsUneasy ==
    ASSUME Gg20TypeOK, NEW i \in Operators, NEW how, NEW why, Running(i), Exit(i, how, why),
           how # "done" \/ why # "none"
    PROVE  UNCHANGED <<misbehave, HaveResult, LeftAtEase>>
<1>1. /\ status' = [status EXCEPT ![i] = how] /\ cause' = [cause EXCEPT ![i] = why]
      /\ UNCHANGED <<misbehave, finished>>
    BY DEF Exit, Teardown, started
<1>2. status[i] = "running"
    BY DEF Running
<1>3. ASSUME NEW k \in Operators
      PROVE  (status'[k] = "done" /\ cause'[k] = "none") <=> (status[k] = "done" /\ cause[k] = "none")
    BY <1>1, <1>2 DEF Gg20TypeOK
<1>4. LeftAtEase' = LeftAtEase
    BY <1>3 DEF LeftAtEase
<1>5. QED
    BY <1>1, <1>4 DEF HaveResult

\* Every step is one of RoundSession, or none.
LEMMA RoundStep ==
    ASSUME RoundInv, [Next]_vars
    PROVE  [Rounds!Next]_(Rounds!vars)
<1>1. Gg20Inv /\ Gg20TypeOK /\ ProcessInv
    BY DEF RoundInv, Gg20Inv
<1>2. CASE UNCHANGED <<misbehave, party, blame, finished, status, cause>>
    <2>1. UNCHANGED <<misbehave, party, blame, HaveResult, LeftAtEase>>
        BY <1>2 DEF HaveResult, LeftAtEase
    <2>2. QED
        BY <2>1, UnseenByRounds
<1>3. CASE UNCHANGED vars
    BY <1>2, <1>3 DEF vars, driverVars, meshVars, started
<1>4. SUFFICES ASSUME NEW i \in Operators, Transport(i) \/ Step(i) \/ Timer(i) \/ Crash(i)
      PROVE  [Rounds!Next]_(Rounds!vars)
    BY <1>3 DEF Next
<1>5. CASE Transport(i)
    BY <1>2, <1>5 DEF Transport, ReadLoop, ReadPayload, ReadFin, ReadError, driverVars, started
<1>6. ASSUME NEW how, NEW why, Running(i), Exit(i, how, why), how # "done" \/ why # "none",
             UNCHANGED <<party, blame>>
      PROVE  [Rounds!Next]_(Rounds!vars)
    BY <1>1, <1>6, EndsUneasy, UnseenByRounds
<1>7. CASE \E j \in Peers(i) : Dispatch(i, j) \/ SendFin(i, j)
    BY <1>2, <1>7 DEF Dispatch, SendFin, started
<1>8. CASE \E j \in Peers(i) : DispatchFails(i, j)
    BY <1>6, <1>8 DEF DispatchFails, Dispatching, Abort
<1>9. CASE TakeError(i)
    BY <1>2, <1>6, <1>9 DEF TakeError, Selecting, Abort, meshVars, started
<1>10. CASE GraceEnds(i)
    BY <1>6, <1>10 DEF GraceEnds, Abort
<1>11. CASE Timer(i)
    BY <1>6, <1>11 DEF Timer, TimesOut, BarrierTimesOut, Selecting, InBarrier, Abort
<1>12. CASE Crash(i)
    BY <1>6, <1>12 DEF Crash
<1>13. ASSUME NEW q \in 1..Finished, Rounds!Enter(i, q)
       PROVE  [Rounds!Next]_(Rounds!vars)
    BY <1>13 DEF Rounds!Next, Finished
<1>14. party[i] \in 0..Finished /\ Finished \in Nat /\ Finished >= 3
       /\ \A j \in Operators : party[j] \in 0..Finished
    BY <1>1, Gg20Assumption DEF Gg20TypeOK, Finished
<1>15. CASE StartParty(i)
    <2>1. PICK q \in 1..Finished : q = 1
        BY <1>14
    <2>2. /\ party[i] = 0 /\ party' = [party EXCEPT ![i] = q]
          /\ UNCHANGED <<misbehave, blame, finished, status, cause>>
        BY <1>15, <2>1 DEF StartParty, meshVars, started
    <2>3. Rounds!OthersIn(i, q - 1)
        BY <1>14, <2>1 DEF Rounds!OthersIn
    <2>4. UNCHANGED <<misbehave, blame, HaveResult, LeftAtEase>>
        BY <2>2 DEF HaveResult, LeftAtEase
    <2>5. party[i] < q /\ ~(q >= 3) /\ ~(q > 3)
        BY <2>1, <2>2
    <2>6. Rounds!Enter(i, q)
        BY <2>2, <2>3, <2>4, <2>5, EntersRound
    <2>7. QED
        BY <1>13, <2>6
<1>16. CASE Feed(i)
    <2>1. PICK q \in party[i]..Finished :
              /\ Moves(i, q)
              /\ q >= 3 => misbehave \subseteq {i}
              /\ q > 3 => misbehave = {}
        BY <1>16, FeedMoves
    <2>2. UNCHANGED <<misbehave, blame, finished, status, cause>>
        BY <1>16 DEF Feed, started
    <2>3. UNCHANGED <<misbehave, blame, HaveResult, LeftAtEase>>
        BY <2>2 DEF HaveResult, LeftAtEase
    <2>4. CASE q = party[i]
        <3>1. party' = party
            BY <1>1, <2>1, <2>4 DEF Moves, Gg20TypeOK
        <3>2. QED
            BY <2>3, <3>1, UnseenByRounds
    <2>5. CASE q # party[i]
        <3>1. q \in 1..Finished /\ party[i] < q
            BY <1>14, <2>5
        <3>2. Rounds!OthersIn(i, q - 1)
            <4>1. CASE q = 1
                BY <1>14, <4>1 DEF Rounds!OthersIn
            <4>2. QED
                BY <2>1, <2>5, <4>1 DEF Moves
        <3>3. Rounds!Enter(i, q)
            BY <2>1, <2>3, <3>1, <3>2, EntersRound DEF Moves
        <3>4. QED
            BY <1>13, <3>1, <3>3
    <2>6. QED
        BY <2>4, <2>5
<1>17. CASE FeedFaults(i)
    <2>1. /\ Rounds!OthersIn(i, 2) /\ party[i] < 3
          /\ party' = [party EXCEPT ![i] = 3]
        BY <1>17, FaultMoves
    <2>2. PICK c \in misbehave \ {i} : blame' = [blame EXCEPT ![i] = {c}]
        BY <1>17, FaultMoves
    <2>3. UNCHANGED <<misbehave, HaveResult, LeftAtEase>>
        BY <1>1, <1>17, EndsUneasy DEF FeedFaults, Feeding, Selecting
    <2>4. Rounds!Blame(i, c)
        BY <2>1, <2>2, <2>3, BlamesCheater
    <2>5. QED
        BY <2>2, <2>4 DEF Rounds!Next
<1>18. CASE TakeResult(i)
    <2>1. /\ party[i] = LastRound + 1 /\ ~finished[i]
          /\ finished' = [finished EXCEPT ![i] = TRUE]
          /\ UNCHANGED <<misbehave, party, blame, status, cause>>
        BY <1>1, <1>18 DEF TakeResult, Selecting, ProcessInv, Finished, started
    <2>2. i \notin HaveResult /\ HaveResult' = HaveResult \cup {i}
        BY <1>1, <2>1 DEF HaveResult, Gg20TypeOK
    <2>3. LeftAtEase' = LeftAtEase
        BY <2>1 DEF LeftAtEase
    <2>4. Rounds!Succeed(i)
        BY <2>1, <2>2, <2>3 DEF Rounds!Succeed, HaveResult, LeftAtEase
    <2>5. QED
        BY <2>4 DEF Rounds!Next
<1>19. CASE Leave(i)
    <2>1. /\ Running(i) /\ driver[i] = "barrier" /\ fins[i] = Peers(i)
          /\ Exit(i, "done", "none") /\ UNCHANGED <<party, blame>>
        BY <1>19 DEF Leave, InBarrier
    <2>2. /\ status' = [status EXCEPT ![i] = "done"] /\ cause' = [cause EXCEPT ![i] = "none"]
          /\ UNCHANGED <<misbehave, finished>>
        BY <2>1 DEF Exit, Teardown, started
    <2>3. \A j \in Operators : finished[j]
        BY <1>1, <2>1 DEF ProcessInv, Peers
    <2>4. HaveResult = Operators /\ HaveResult' = HaveResult
        BY <2>2, <2>3 DEF HaveResult
    <2>5. i \notin LeftAtEase /\ LeftAtEase' = LeftAtEase \cup {i}
        BY <1>1, <2>1, <2>2 DEF LeftAtEase, Running, Gg20TypeOK
    <2>6. Rounds!Leave(i)
        BY <2>1, <2>2, <2>4, <2>5 DEF Rounds!Leave, HaveResult, LeftAtEase
    <2>7. QED
        BY <2>6 DEF Rounds!Next
<1>20. QED
    BY <1>4, <1>5, <1>7, <1>8, <1>9, <1>10, <1>11, <1>12, <1>15, <1>16, <1>17, <1>18, <1>19
       DEF Step, Send

\* Every session, of any number of operators and rounds, is one of
\* RoundSession (protocol.go:53-165): parties move in step, a cheater is named
\* before anybody is past round 3, results come once and without cheating, and
\* who leaves the barrier by FINs knows that everybody has a result.
THEOREM Gg20ImplementsRounds == Spec => ImplementsRounds
<1>1. Init => Rounds!Init
    BY Gg20Assumption DEF Init, Rounds!Init
<1>2. RoundInv /\ [Next]_vars => [Rounds!Next]_(Rounds!vars)
    BY RoundStep
<1>3. QED
    BY <1>1, <1>2, RoundInvariant, PTL DEF Spec, ImplementsRounds, Rounds!Spec

\* No party is ever more than a round ahead of another, however frames are
\* delayed and processes end (protocol.go:184): Update goes on only with
\* everybody's messages of the round.
THEOREM Gg20InStep == Spec => []PartiesInStep
<1>1. RoundInv => PartiesInStep
    BY DEF RoundInv
<1>2. QED
    BY <1>1, RoundInvariant, PTL

----------------------------------------------------------------------------
(* What a party has still to send.                                         *)

\* Rounds come out in order, each once.
Rising(s) == \A m, n \in 1..Len(s) : m < n => s[m].round < s[n].round

LEMMA RisingConcat ==
    ASSUME NEW s \in Seq(Outgoing), NEW t \in Seq(Outgoing), Rising(s), Rising(t),
           \A e \in Carries(s) : \A f \in Carries(t) : e.round < f.round
    PROVE  Rising(s \o t)
<1>1. /\ Len(s) \in Nat /\ Len(t) \in Nat
      /\ Len(s \o t) = Len(s) + Len(t)
      /\ \A n \in 1..Len(s) : (s \o t)[n] = s[n]
      /\ \A n \in 1..Len(t) : (s \o t)[Len(s) + n] = t[n]
    BY ConcatProperties, LenProperties
<1>2. ASSUME NEW n \in 1..Len(s \o t), n \notin 1..Len(s)
      PROVE  n - Len(s) \in 1..Len(t) /\ (s \o t)[n] = t[n - Len(s)]
    <2>1. n - Len(s) \in 1..Len(t) /\ n = Len(s) + (n - Len(s))
        BY <1>1, <1>2
    <2>2. QED
        BY <1>1, <2>1
<1>3. SUFFICES ASSUME NEW m \in 1..Len(s \o t), NEW n \in 1..Len(s \o t), m < n
               PROVE  (s \o t)[m].round < (s \o t)[n].round
    BY DEF Rising
<1>4. CASE n \in 1..Len(s)
    <2>1. m \in 1..Len(s)
        BY <1>1, <1>3, <1>4
    <2>2. QED
        BY <1>1, <1>3, <1>4, <2>1 DEF Rising
<1>5. CASE m \in 1..Len(s) /\ n \notin 1..Len(s)
    <2>1. (s \o t)[m] \in Carries(s) /\ (s \o t)[n] \in Carries(t)
        BY <1>1, <1>2, <1>5 DEF Carries
    <2>2. QED
        BY <2>1
<1>6. CASE m \notin 1..Len(s) /\ n \notin 1..Len(s)
    <2>1. m - Len(s) < n - Len(s)
        BY <1>1, <1>3
    <2>2. QED
        BY <1>2, <1>6, <2>1 DEF Rising
<1>7. QED
    BY <1>4, <1>5, <1>6

\* What comes after the head of a sequence that rises is of later rounds.
LEMMA RisingTail ==
    ASSUME NEW s \in Seq(Outgoing), s # <<>>, Rising(s)
    PROVE  /\ Rising(Tail(s))
           /\ \A e \in Carries(Tail(s)) : Head(s).round < e.round
<1>1. /\ Len(Tail(s)) = Len(s) - 1
      /\ \A n \in 1..Len(Tail(s)) : Tail(s)[n] = s[n + 1]
      /\ Len(s) \in Nat \ {0}
      /\ Head(s) = s[1]
    BY HeadTailProperties, EmptySeq
<1>2. \A n \in 1..Len(Tail(s)) : n + 1 \in 1..Len(s) /\ 1 < n + 1 /\ 1 \in 1..Len(s)
    BY <1>1
<1>3. \A m, n \in 1..Len(Tail(s)) : m < n => m + 1 < n + 1
    BY <1>1
<1>4. Rising(Tail(s))
    BY <1>1, <1>2, <1>3 DEF Rising
<1>5. QED
    BY <1>1, <1>2, <1>4 DEF Rising, Carries

\* A party that goes from round p to round q puts out each round between.
LEMMA EmittedFacts ==
    ASSUME NEW i \in Operators, NEW p \in 0..Finished, NEW q \in p..Finished
    PROVE  /\ Emitted(i, p, q) \in Seq(Outgoing)
           /\ Rising(Emitted(i, p, q))
           /\ \A e \in Carries(Emitted(i, p, q)) : p < e.round /\ e.round <= q /\ e.to = Peers(i)
           /\ \A r \in 1..LastRound : p < r /\ r <= q =>
                 \E e \in Carries(Emitted(i, p, q)) : e.round = r /\ e.to = Peers(i)
<1> DEFINE n == (IF q = Finished THEN LastRound ELSE q) - p
           e(k) == [round |-> p + k, to |-> Peers(i)]
           m == Emitted(i, p, q)
<1>1. LastRound \in Nat /\ Finished = LastRound + 1
    BY Gg20Assumption DEF Finished
<1>2. /\ n \in Int
      /\ \A k \in 1..n : p + k \in 1..LastRound /\ p < p + k /\ p + k <= q
      /\ \A r \in 1..LastRound : p < r /\ r <= q => r - p \in 1..n /\ p + (r - p) = r
    BY <1>1
<1>3. m \in Seq(Outgoing)
    BY EmittedType
<1>4. m = [k \in 1..n |-> e(k)]
    BY DEF Emitted
<1>5. \A k \in 1..Len(m) : k \in 1..n /\ m[k] = e(k)
    <2>1. DOMAIN m = 1..Len(m)
        BY <1>3
    <2>2. DOMAIN m = 1..n
        BY <1>4
    <2>3. QED
        BY <1>4, <2>1, <2>2
<1>6. \A k \in 1..n : k \in 1..Len(m) /\ m[k] = e(k)
    <2>1. DOMAIN m = 1..Len(m)
        BY <1>3
    <2>2. DOMAIN m = 1..n
        BY <1>4
    <2>3. QED
        BY <1>4, <2>1, <2>2
<1>0. \A k : e(k).round = p + k /\ e(k).to = Peers(i)
    OBVIOUS
<1> HIDE DEF m, n, e
<1>7. \A x \in Carries(m) : p < x.round /\ x.round <= q /\ x.to = Peers(i)
    BY <1>0, <1>2, <1>5 DEF Carries
<1>8. \A r \in 1..LastRound : p < r /\ r <= q =>
         \E x \in Carries(m) : x.round = r /\ x.to = Peers(i)
    <2>1. ASSUME NEW r \in 1..LastRound, p < r, r <= q
          PROVE  \E x \in Carries(m) : x.round = r /\ x.to = Peers(i)
        <3>1. r - p \in 1..n /\ p + (r - p) = r
            BY <1>2, <2>1
        <3>2. r - p \in 1..Len(m) /\ m[r - p] = e(r - p)
            BY <1>6, <3>1
        <3>3. m[r - p] \in Carries(m)
            BY <3>2 DEF Carries
        <3>4. QED
            BY <1>0, <3>1, <3>2, <3>3
    <2>2. QED
        BY <2>1
<1>9. Rising(m)
    <2>1. \A k, l \in 1..n : k < l => p + k < p + l
        BY <1>2
    <2>2. QED
        BY <1>0, <1>5, <2>1 DEF Rising
<1>10. QED
    BY <1>3, <1>7, <1>8, <1>9 DEF m

OutInv ==
    \A i \in Operators :
        /\ Rising(outCh[i])
        /\ \A e \in Carries(outCh[i]) : e.to \subseteq Peers(i) /\ (Peers(i) # {} => e.to # {})
        /\ Running(i) /\ driver[i] = "dispatch" => outCh[i] # <<>>

\* A message of round r goes to j: j is taken from those it has to go to yet.
Takes(i, j, r) ==
    /\ Push(i, j, PartyFrame(i, r))
    /\ \E e \in Carries(outCh[i]) : e.round = r /\ j \in e.to
    /\ \A k \in Operators \ {i} : outCh'[k] = outCh[k] /\ driver'[k] = driver[k]
    /\ driver[i] \in {"select", "dispatch"} /\ driver'[i] \in {"select", "dispatch"}
    /\ driver'[i] = "dispatch" => outCh'[i] # <<>>
    /\ Rising(outCh'[i])
    /\ \A e \in Carries(outCh'[i]) :
          /\ \E f \in Carries(outCh[i]) : f.round = e.round /\ e.to \subseteq f.to
          /\ e.to # {}
          /\ ~(e.round = r /\ j \in e.to)
    /\ \A e \in Carries(outCh[i]) : \A k \in e.to :
          \/ e.round = r /\ k = j
          \/ \E f \in Carries(outCh'[i]) : f.round = e.round /\ k \in f.to

LEMMA DispatchTakes ==
    ASSUME Gg20TypeOK, OutInv, NEW i \in Operators, NEW j \in Peers(i), Dispatch(i, j)
    PROVE  \E r \in 1..LastRound : Takes(i, j, r)
<1> DEFINE s == outCh[i]
           h == Head(s)
           t == Tail(s)
           left == h.to \ {j}
           g == [round |-> h.round, to |-> left]
           new == IF left = {} THEN t ELSE <<g>> \o t
<1>1. s \in Seq(Outgoing) /\ s # <<>> /\ Rising(s) /\ j \in h.to /\ Peers(i) # {}
    BY DEF Gg20TypeOK, Dispatch, Dispatching, OutInv
<1>2. h \in Outgoing /\ t \in Seq(Outgoing)
    BY <1>1, HeadTailProperties
<1>3. Carries(s) = {h} \cup Carries(t)
    BY <1>1, CarriesHeadTail
<1>4. Rising(t) /\ \A e \in Carries(t) : h.round < e.round
    BY <1>1, RisingTail
<1>5. /\ h.round \in 1..LastRound /\ g \in Outgoing
      /\ g.round = h.round /\ g.to = left
    BY <1>2 DEF Outgoing
<1>8. /\ Push(i, j, PartyFrame(i, h.round))
      /\ outCh' = [outCh EXCEPT ![i] = new]
      /\ driver' = [driver EXCEPT ![i] =
                        IF left = {} \/ PointToPoint(h.round) THEN "select" ELSE "dispatch"]
      /\ driver[i] \in {"select", "dispatch"}
    BY DEF Dispatch, Dispatching
<1>9. /\ \A k \in Operators \ {i} : outCh'[k] = outCh[k] /\ driver'[k] = driver[k]
      /\ outCh'[i] = new
      /\ driver'[i] = (IF left = {} \/ PointToPoint(h.round) THEN "select" ELSE "dispatch")
    BY <1>8 DEF Gg20TypeOK
<1>0. (left = {} => new = t) /\ (left # {} => new = <<g>> \o t)
    OBVIOUS
<1> HIDE DEF s, h, t, g, new
<1>6. /\ <<g>> \in Seq(Outgoing) /\ Carries(<<g>>) = {g} /\ Rising(<<g>>)
    BY <1>5 DEF Carries, Rising
<1>7. /\ <<g>> \o t \in Seq(Outgoing) /\ Carries(<<g>> \o t) = {g} \cup Carries(t)
      /\ Rising(<<g>> \o t) /\ <<g>> \o t # <<>>
    <2>1. /\ <<g>> \o t \in Seq(Outgoing)
          /\ Carries(<<g>> \o t) = Carries(<<g>>) \cup Carries(t)
        <3>1. <<g>> \in Seq(Outgoing)
            BY <1>6
        <3>2. QED
            BY <1>2, <3>1, CarriesConcat
    <2>2. Rising(<<g>> \o t)
        <3>1. \A e \in Carries(<<g>>) : \A f \in Carries(t) : e.round < f.round
            BY <1>4, <1>5, <1>6
        <3>2. QED
            BY <1>2, <1>4, <1>6, <3>1, RisingConcat
    <2>3. <<g>> \o t # <<>>
        BY <1>6, <2>1, CarriesNothing
    <2>4. QED
        BY <1>6, <2>1, <2>2, <2>3
<1>10. /\ Rising(new)
       /\ left = {} => Carries(new) = Carries(t)
       /\ left # {} => Carries(new) = {g} \cup Carries(t)
    <2>1. CASE left = {}
        <3>1. new = t
            BY <1>0, <2>1
        <3>2. QED
            BY <1>4, <2>1, <3>1
    <2>2. CASE left # {}
        <3>1. new = <<g>> \o t
            BY <1>0, <2>2
        <3>2. QED
            BY <1>7, <2>2, <3>1
    <2>3. QED
        BY <2>1, <2>2
<1>11. \A e \in Carries(t) : e.to # {}
    BY <1>1, <1>3 DEF OutInv, s
<1>12. \A e \in Carries(t) : e.round # h.round
    <2>1. \A e \in Carries(t) : e.round \in Int
        BY <1>2, OutgoingRound
    <2>2. QED
        BY <1>4, <1>5, <2>1
<1>13. \A e \in Carries(new) :
          /\ \E f \in Carries(s) : f.round = e.round /\ e.to \subseteq f.to
          /\ e.to # {}
          /\ ~(e.round = h.round /\ j \in e.to)
    BY <1>3, <1>5, <1>10, <1>11, <1>12
<1>14. \A e \in Carries(s) : \A k \in e.to :
          \/ e.round = h.round /\ k = j
          \/ \E f \in Carries(new) : f.round = e.round /\ k \in f.to
    BY <1>3, <1>5, <1>10
<1>15. /\ driver'[i] \in {"select", "dispatch"}
       /\ driver'[i] = "dispatch" => new # <<>>
    BY <1>0, <1>7, <1>9, <1>10
<1>16. h \in Carries(s)
    BY <1>3
<1>17. Takes(i, j, h.round)
    BY <1>1, <1>5, <1>8, <1>9, <1>10, <1>13, <1>14, <1>15, <1>16 DEF Takes, s
<1>18. QED
    BY <1>5, <1>17

\* What a party puts out when it goes on comes after what it has put out.
LEMMA OutGrows ==
    ASSUME RoundInv, OutInv, NEW i \in Operators, NEW q \in party[i]..Finished,
           outCh' = [outCh EXCEPT ![i] = @ \o Emitted(i, party[i], q)]
    PROVE  /\ Rising(outCh'[i])
           /\ Carries(outCh'[i]) = Carries(outCh[i]) \cup Carries(Emitted(i, party[i], q))
           /\ \A k \in Operators \ {i} : outCh'[k] = outCh[k]
           /\ outCh[i] # <<>> => outCh'[i] # <<>>
<1> DEFINE m == Emitted(i, party[i], q)
<1>1. /\ outCh \in [Operators -> Seq(Outgoing)] /\ outCh[i] \in Seq(Outgoing)
      /\ party[i] \in 0..Finished
    BY DEF RoundInv, Gg20Inv, Gg20TypeOK
<1>2. m \in Seq(Outgoing) /\ Rising(m) /\ \A e \in Carries(m) : party[i] < e.round
    BY <1>1, EmittedFacts
<1> HIDE DEF m
<1>3. outCh'[i] = outCh[i] \o m /\ \A k \in Operators \ {i} : outCh'[k] = outCh[k]
    BY <1>1 DEF m
<1>4. Carries(outCh[i] \o m) = Carries(outCh[i]) \cup Carries(m)
    BY <1>1, <1>2, CarriesConcat
<1>5. \A e \in Carries(outCh[i]) : \A f \in Carries(m) : e.round < f.round
    <2>1. \A e \in Carries(outCh[i]) : e.round \in Int /\ e.round <= party[i]
        BY <1>1, OutgoingRound DEF RoundInv, SentInv
    <2>2. \A f \in Carries(m) : f.round \in Int
        BY <1>2, OutgoingRound
    <2>3. party[i] \in Int
        BY <1>1, Gg20Assumption DEF Finished
    <2>4. QED
        BY <1>2, <2>1, <2>2, <2>3
<1>6. Rising(outCh[i] \o m)
    BY <1>1, <1>2, <1>5, RisingConcat DEF OutInv
<1>7. outCh[i] # <<>> => outCh[i] \o m # <<>>
    <2>1. outCh[i] # <<>> => Carries(outCh[i]) # {}
        BY <1>1, CarriesSome
    <2>2. QED
        BY <1>4, <2>1, CarriesNothing
<1>8. QED
    BY <1>3, <1>4, <1>6, <1>7 DEF m

\* A step makes a party go on by what it puts out, or puts nothing out.
PutsOut(i, q) ==
    /\ party' = [party EXCEPT ![i] = q]
    /\ outCh' = [outCh EXCEPT ![i] = @ \o Emitted(i, party[i], q)]
    /\ UNCHANGED <<driver, status>>

LEMMA PartyPutsOut ==
    ASSUME Gg20TypeOK, NEW i \in Operators
    PROVE  /\ StartParty(i) => PutsOut(i, 1) /\ party[i] = 0 /\ 1 \in party[i]..Finished
           /\ Feed(i) => /\ PutsOut(i, Reached(i, Fed(i)))
                         /\ Reached(i, Fed(i)) \in party[i]..Finished
<1>1. StartParty(i) => PutsOut(i, 1) /\ party[i] = 0
    BY DEF StartParty, PutsOut
<1>2. Feed(i) => PutsOut(i, Reached(i, Fed(i)))
    BY DEF Feed, PutsOut
<1>3. 1 \in 0..Finished
    BY Gg20Assumption DEF Finished
<1>4. QED
    BY <1>1, <1>2, <1>3, ReachedFacts

LEMMA OutInit == Init => OutInv
<1> SUFFICES ASSUME Init PROVE OutInv
    OBVIOUS
<1>1. \A i \in Operators : outCh[i] = <<>> /\ driver[i] = "select"
    BY DEF Init
<1>2. Rising(<<>>)
    BY DEF Rising
<1>3. QED
    BY <1>1, <1>2, CarriesNothing DEF OutInv

\* A process that ends has nothing to send any more.
LEMMA EndsSilent ==
    ASSUME Gg20TypeOK, NEW i \in Operators, NEW how, NEW why, Ends(i, how, why)
    PROVE  /\ outCh'[i] = <<>> /\ held'[i] = {} /\ inbox'[i] = <<>> /\ ~Running(i)'
           /\ \A k \in Operators \ {i} :
                 /\ outCh'[k] = outCh[k] /\ held'[k] = held[k] /\ inbox'[k] = inbox[k]
                 /\ errs'[k] = errs[k] /\ Running(k)' = Running(k) /\ party'[k] = party[k]
<1>1. /\ how \in {"done", "aborted", "faulted", "crashed"}
      /\ status' = [status EXCEPT ![i] = how]
      /\ held' = [held EXCEPT ![i] = {}]
      /\ outCh' = [outCh EXCEPT ![i] = <<>>]
      /\ inbox' = [inbox EXCEPT ![i] = <<>>]
      /\ errs' = [errs EXCEPT ![i] = {}]
    BY EndsFacts
<1>2. \A k \in Operators \ {i} : party'[k] = party[k]
    <2>1. party' = party \/ party' = [party EXCEPT ![i] = 3]
        BY EndsVerdict
    <2>2. party \in [Operators -> 0..Finished]
        BY DEF Gg20TypeOK
    <2>3. QED
        BY <2>1, <2>2
<1>3. status'[i] = how /\ \A k \in Operators \ {i} : status'[k] = status[k]
    BY <1>1 DEF Gg20TypeOK
<1>4. ~Running(i)' /\ \A k \in Operators \ {i} : Running(k)' = Running(k)
    BY <1>1, <1>3 DEF Running
<1>5. QED
    BY <1>1, <1>2, <1>4 DEF Gg20TypeOK

LEMMA OutNext ==
    ASSUME RoundInv, OutInv, [Next]_vars
    PROVE  OutInv'
<1>0. Gg20TypeOK
    BY DEF RoundInv, Gg20Inv
<1>1. ASSUME UNCHANGED <<outCh, status>>,
             \A i \in Operators : driver'[i] = "dispatch" => driver[i] = "dispatch"
      PROVE  OutInv'
    BY <1>1 DEF OutInv, Running
<1>2. CASE UNCHANGED vars
    BY <1>1, <1>2 DEF vars, driverVars
<1>3. ASSUME NEW i \in Operators, NEW j \in Peers(i), Dispatch(i, j)
      PROVE  OutInv'
    <2>1. PICK r \in 1..LastRound : Takes(i, j, r)
        BY <1>0, <1>3, DispatchTakes
    <2>2. UNCHANGED status
        BY <1>3 DEF Dispatch
    <2>3. /\ Rising(outCh'[i])
          /\ driver'[i] = "dispatch" => outCh'[i] # <<>>
          /\ \A e \in Carries(outCh'[i]) : e.to \subseteq Peers(i) /\ e.to # {}
        BY <2>1 DEF Takes, OutInv
    <2>4. ASSUME NEW k \in Operators \ {i}
          PROVE  outCh'[k] = outCh[k] /\ driver'[k] = driver[k]
        BY <2>1 DEF Takes
    <2>5. QED
        BY <2>2, <2>3, <2>4 DEF OutInv, Running
<1>4. ASSUME NEW i \in Operators, NEW q \in party[i]..Finished, PutsOut(i, q)
      PROVE  OutInv'
    <2>1. party[i] \in 0..Finished
        BY <1>0 DEF Gg20TypeOK
    <2>2. /\ Rising(outCh'[i])
          /\ Carries(outCh'[i]) = Carries(outCh[i]) \cup Carries(Emitted(i, party[i], q))
          /\ \A k \in Operators \ {i} : outCh'[k] = outCh[k]
          /\ outCh[i] # <<>> => outCh'[i] # <<>>
        BY <1>4, OutGrows DEF PutsOut
    <2>3. \A e \in Carries(Emitted(i, party[i], q)) : e.to = Peers(i)
        BY <2>1, EmittedFacts
    <2>4. UNCHANGED <<driver, status>>
        BY <1>4 DEF PutsOut
    <2>5. QED
        BY <2>2, <2>3, <2>4 DEF OutInv, Running
<1>5. ASSUME NEW i \in Operators, NEW how, NEW why, Ends(i, how, why)
      PROVE  OutInv'
    <2>1. /\ outCh'[i] = <<>> /\ ~Running(i)'
          /\ \A k \in Operators \ {i} : outCh'[k] = outCh[k] /\ Running(k)' = Running(k)
          /\ UNCHANGED driver
        BY <1>0, <1>5, EndsSilent, EndsFacts
    <2>2. Rising(<<>>)
        BY DEF Rising
    <2>3. QED
        BY <2>1, <2>2, CarriesNothing DEF OutInv
<1>6. ASSUME NEW i \in Operators, NEW j \in Peers(i), LinkStep(i, j), ~Dispatch(i, j)
      PROVE  OutInv'
    BY <1>1, <1>6, LinkStepFrame
<1>7. ASSUME NEW i \in Operators, LocalStep(i)
      PROVE  OutInv'
    <2>1. CASE StartParty(i) \/ Feed(i)
        BY <1>0, <1>4, <2>1, PartyPutsOut
    <2>2. CASE GraceBegins(i)
        BY <1>0, <1>1, <2>2 DEF GraceBegins, Gg20TypeOK
    <2>3. CASE TakeResult(i)
        BY <1>0, <1>1, <2>3 DEF TakeResult, Gg20TypeOK
    <2>4. QED
        BY <1>7, <2>1, <2>2, <2>3 DEF LocalStep
<1>8. QED
    BY <1>2, <1>3, <1>5, <1>6, <1>7, Gg20Steps

----------------------------------------------------------------------------
(* Nothing that was sent between processes that run is lost.               *)

Unsent(j, i, r) == \E e \in Carries(outCh[j]) : e.round = r /\ i \in e.to

Underway(j, i, r) == \E f \in Carries(wire[<<j, i>>]) : f.tag = "Party" /\ f.round = r

Queued(j, i, r) == \E e \in Carries(inbox[i]) : e.from = j /\ e.frame.round = r

Had(j, i, r) == \E e \in held[i] : e.from = j /\ e.frame.round = r

SomePlace(j, i, r) == Unsent(j, i, r) \/ Underway(j, i, r) \/ Queued(j, i, r) \/ Had(j, i, r)

KeptInv ==
    \A i \in Operators : \A j \in Peers(i) : \A r \in 1..LastRound :
        Running(i) /\ Running(j) /\ r <= party[j] => SomePlace(j, i, r)

\* A message that stays in its place, or moves on to the next.
LEMMA KeptMoves ==
    ASSUME KeptInv, NEW i \in Operators, NEW j \in Peers(i), NEW r \in 1..LastRound,
           Running(i), Running(j), r <= party[j],
           Unsent(j, i, r) => SomePlace(j, i, r)',
           Underway(j, i, r) => SomePlace(j, i, r)',
           Queued(j, i, r) => SomePlace(j, i, r)',
           Had(j, i, r) => SomePlace(j, i, r)'
    PROVE  SomePlace(j, i, r)'
<1>1. SomePlace(j, i, r)
    BY DEF KeptInv
<1>2. QED
    BY <1>1 DEF SomePlace

LEMMA PlacesStay ==
    ASSUME NEW i, NEW j, NEW r
    PROVE  /\ outCh'[j] = outCh[j] /\ Unsent(j, i, r) => SomePlace(j, i, r)'
           /\ wire'[<<j, i>>] = wire[<<j, i>>] /\ Underway(j, i, r) => SomePlace(j, i, r)'
           /\ inbox'[i] = inbox[i] /\ Queued(j, i, r) => SomePlace(j, i, r)'
           /\ held'[i] = held[i] /\ Had(j, i, r) => SomePlace(j, i, r)'
BY DEF SomePlace, Unsent, Underway, Queued, Had

LEMMA KeptInit == Init => KeptInv
<1> SUFFICES ASSUME Init, NEW j \in Operators, NEW r \in 1..LastRound
             PROVE  ~(r <= party[j])
    BY LinkTypes DEF KeptInv
<1>1. party[j] = 0
    BY DEF Init
<1>2. QED
    BY <1>1

\* What is underway is still there when something is sent.
LEMMA PushKeeps ==
    ASSUME Gg20TypeOK, NEW a \in Operators, NEW b \in Peers(a), NEW f \in Frames, Push(a, b, f),
           NEW link \in Links
    PROVE  /\ Carries(wire[link]) \subseteq Carries(wire'[link])
           /\ link = <<a, b>> /\ ~closed[b] => f \in Carries(wire'[link])
<1>1. wire \in [Links -> Seq(Frames)] /\ wire[link] \in Seq(Frames) /\ <<a, b>> \in Links
    BY WireType, LinkTypes
<1>2. CASE closed[b]
    BY <1>2 DEF Push
<1>3. CASE ~closed[b] /\ link = <<a, b>>
    <2>1. wire'[link] = Append(wire[link], f)
        BY <1>1, <1>3 DEF Push
    <2>2. Carries(wire'[link]) = Carries(wire[link]) \cup {f}
        BY <1>1, <2>1, CarriesAppend
    <2>3. QED
        BY <2>2
<1>4. CASE ~closed[b] /\ link # <<a, b>>
    <2>1. wire'[link] = wire[link]
        BY <1>1, <1>4 DEF Push
    <2>2. QED
        BY <1>4, <2>1
<1>5. QED
    BY <1>2, <1>3, <1>4

\* A frame that is read is found further on, or was no message.
LEMMA KeptReads ==
    ASSUME RoundInv, KeptInv, NEW a \in Operators, NEW b \in Peers(a),
           \/ ReadPayload(a, b) /\ UNCHANGED driverVars
           \/ ReadFin(a, b) /\ UNCHANGED driverVars
           \/ ReadError(a, b) /\ UNCHANGED driverVars
    PROVE  KeptInv'
<1>0. Gg20TypeOK /\ wire \in [Links -> Seq(Frames)] /\ inbox \in [Operators -> Seq(Envelopes)]
    BY WireType DEF RoundInv, Gg20Inv, Gg20TypeOK
<1>1. UNCHANGED <<party, outCh, held, status>>
    BY DEF driverVars
<1>2. SUFFICES ASSUME NEW i \in Operators, NEW j \in Peers(i), NEW r \in 1..LastRound,
                      Running(i), Running(j), r <= party[j]
               PROVE  SomePlace(j, i, r)'
    BY <1>1 DEF KeptInv, Running
<1>3. /\ j \in Operators /\ <<j, i>> \in Links
      /\ b \in Operators /\ <<b, a>> \in Links
    BY LinkTypes
<1>4. /\ Unsent(j, i, r) => SomePlace(j, i, r)'
      /\ Had(j, i, r) => SomePlace(j, i, r)'
    BY <1>1, PlacesStay
<1>5. Queued(j, i, r) => SomePlace(j, i, r)'
    <2>1. CASE inbox'[i] = inbox[i]
        BY <2>1, PlacesStay
    <2>2. CASE inbox'[i] # inbox[i]
        <3>1. i = a /\ inbox' = [inbox EXCEPT ![a] = Append(@, [from |-> b, frame |-> Head(wire[<<b, a>>])])]
            BY <1>0, <2>2 DEF ReadPayload, ReadFin, ReadError
        <3>2. Carries(inbox[i]) \subseteq Carries(inbox'[i])
            BY <1>0, <3>1, CarriesAppend
        <3>3. QED
            BY <3>2 DEF SomePlace, Queued
    <2>3. QED
        BY <2>1, <2>2
<1>6. ASSUME Underway(j, i, r)
      PROVE  SomePlace(j, i, r)'
    <2>1. PICK f \in Carries(wire[<<j, i>>]) : f.tag = "Party" /\ f.round = r
        BY <1>6 DEF Underway
    <2>2. CASE wire'[<<j, i>>] = wire[<<j, i>>]
        BY <1>6, <2>2, PlacesStay
    <2>3. CASE wire'[<<j, i>>] # wire[<<j, i>>]
        <3>1. wire' = [wire EXCEPT ![<<b, a>>] = Tail(@)] /\ wire[<<b, a>>] # <<>>
            BY <2>3 DEF ReadPayload, ReadFin, ReadError
        <3>2. <<j, i>> = <<b, a>>
            BY <1>0, <1>3, <2>3, <3>1
        <3>3. j = b /\ i = a
            BY <3>2
        <3>4. /\ wire'[<<j, i>>] = Tail(wire[<<j, i>>])
              /\ Carries(wire[<<j, i>>]) = {Head(wire[<<j, i>>])} \cup Carries(Tail(wire[<<j, i>>]))
            BY <1>0, <1>3, <3>1, <3>2, CarriesHeadTail
        <3>5. CASE f \in Carries(Tail(wire[<<j, i>>]))
            BY <2>1, <3>4, <3>5 DEF SomePlace, Underway
        <3>6. CASE f = Head(wire[<<j, i>>])
            <4>1. f.tag # "Fin"
                BY <2>1
            <4>2. ReadPayload(a, b)
                BY <2>3, <3>3, <3>6, <4>1 DEF ReadFin, ReadError
            <4>3. inbox' = [inbox EXCEPT ![a] = Append(@, [from |-> j, frame |-> f])]
                BY <3>3, <3>6, <4>2 DEF ReadPayload
            <4>4. [from |-> j, frame |-> f] \in Carries(inbox'[i])
                <5>1. inbox'[i] = Append(inbox[i], [from |-> j, frame |-> f])
                    BY <1>0, <3>3, <4>3
                <5>2. QED
                    BY <1>0, <5>1, CarriesAppend
            <4>5. QED
                BY <2>1, <4>4 DEF SomePlace, Queued
        <3>7. QED
            BY <2>1, <3>4, <3>5, <3>6
    <2>4. QED
        BY <2>2, <2>3
<1>7. QED
    BY <1>2, <1>4, <1>5, <1>6, KeptMoves

\* A message that is dispatched is underway.
LEMMA KeptSends ==
    ASSUME RoundInv, OutInv, KeptInv, NEW a \in Operators, NEW b \in Peers(a),
           Dispatch(a, b) \/ SendFin(a, b)
    PROVE  KeptInv'
<1>0. Gg20TypeOK /\ ProcessInv
    BY DEF RoundInv, Gg20Inv
<1>1. UNCHANGED <<inbox, party, held, status>>
    BY DEF Dispatch, SendFin
<1>2. SUFFICES ASSUME NEW i \in Operators, NEW j \in Peers(i), NEW r \in 1..LastRound,
                      Running(i), Running(j), r <= party[j]
               PROVE  SomePlace(j, i, r)'
    BY <1>1 DEF KeptInv, Running
<1>3. j \in Operators /\ <<j, i>> \in Links /\ b \in Operators
    BY LinkTypes
<1>4. /\ Queued(j, i, r) => SomePlace(j, i, r)'
      /\ Had(j, i, r) => SomePlace(j, i, r)'
    BY <1>1, PlacesStay
<1>5. /\ Underway(j, i, r) => SomePlace(j, i, r)'
      /\ Unsent(j, i, r) => SomePlace(j, i, r)'
    <2>1. CASE SendFin(a, b)
        <3>1. Carries(wire[<<j, i>>]) \subseteq Carries(wire'[<<j, i>>]) /\ UNCHANGED outCh
            BY <1>0, <1>3, <2>1, FrameTypes, PushKeeps DEF SendFin
        <3>2. QED
            BY <3>1 DEF SomePlace, Underway, Unsent
    <2>2. CASE Dispatch(a, b)
        <3>1. PICK s \in 1..LastRound : Takes(a, b, s)
            BY <1>0, <2>2, DispatchTakes
        <3>2. PartyFrame(a, s) \in Frames /\ PartyFrame(a, s).tag = "Party" /\ PartyFrame(a, s).round = s
            BY FrameTypes DEF PartyFrame
        <3>3. /\ Carries(wire[<<j, i>>]) \subseteq Carries(wire'[<<j, i>>])
              /\ <<j, i>> = <<a, b>> /\ ~closed[b] => PartyFrame(a, s) \in Carries(wire'[<<j, i>>])
            BY <1>0, <1>3, <3>1, <3>2, PushKeeps DEF Takes
        <3>4. Underway(j, i, r) => SomePlace(j, i, r)'
            BY <3>3 DEF SomePlace, Underway
        <3>5. ASSUME Unsent(j, i, r) PROVE SomePlace(j, i, r)'
            <4>1. PICK e \in Carries(outCh[j]) : e.round = r /\ i \in e.to
                BY <3>5 DEF Unsent
            <4>2. CASE j # a
                BY <3>1, <3>5, <4>2, <1>3, PlacesStay DEF Takes
            <4>3. CASE j = a /\ r = s /\ i = b
                <5>1. ~closed[b]
                    BY <1>0, <1>2, <4>3 DEF ProcessInv
                <5>2. QED
                    BY <3>2, <3>3, <4>3, <5>1 DEF SomePlace, Underway
            <4>4. CASE j = a /\ ~(r = s /\ i = b)
                <5>1. \E f \in Carries(outCh'[a]) : f.round = e.round /\ i \in f.to
                    BY <3>1, <4>1, <4>4 DEF Takes
                <5>2. QED
                    BY <4>1, <4>4, <5>1 DEF SomePlace, Unsent
            <4>5. QED
                BY <4>2, <4>3, <4>4
        <3>6. QED
            BY <3>4, <3>5
    <2>3. QED
        BY <2>1, <2>2
<1>6. QED
    BY <1>2, <1>4, <1>5, KeptMoves

\* A party that goes on puts out what it had not.
LEMMA KeptPutsOut ==
    ASSUME RoundInv, OutInv, KeptInv, NEW a \in Operators, NEW q \in party[a]..Finished,
           PutsOut(a, q), UNCHANGED wire,
           \A i \in Operators : \A e \in Carries(inbox[i]) :
               e \in Carries(inbox'[i]) \/ e \in held'[i],
           \A i \in Operators : held[i] \subseteq held'[i]
    PROVE  KeptInv'
<1>0. Gg20TypeOK /\ party \in [Operators -> 0..Finished] /\ Finished \in Nat
    BY Gg20Assumption DEF RoundInv, Gg20Inv, Gg20TypeOK, Finished
<1>1. /\ UNCHANGED status
      /\ party'[a] = q /\ \A k \in Operators \ {a} : party'[k] = party[k]
    BY <1>0 DEF PutsOut
<1>2. /\ Carries(outCh'[a]) = Carries(outCh[a]) \cup Carries(Emitted(a, party[a], q))
      /\ \A k \in Operators \ {a} : outCh'[k] = outCh[k]
    BY OutGrows DEF PutsOut
<1>3. SUFFICES ASSUME NEW i \in Operators, NEW j \in Peers(i), NEW r \in 1..LastRound,
                      Running(i), Running(j), r <= party'[j]
               PROVE  SomePlace(j, i, r)'
    BY <1>1 DEF KeptInv, Running
<1>4. j \in Operators /\ i \in Peers(j)
    BY LinkTypes DEF Peers
<1>5. CASE r <= party[j]
    <2>1. Unsent(j, i, r) => SomePlace(j, i, r)'
        <3>1. Carries(outCh[j]) \subseteq Carries(outCh'[j])
            BY <1>2, <1>4
        <3>2. QED
            BY <3>1 DEF SomePlace, Unsent
    <2>2. Underway(j, i, r) => SomePlace(j, i, r)'
        BY PlacesStay
    <2>3. Queued(j, i, r) => SomePlace(j, i, r)'
        BY DEF SomePlace, Queued, Had
    <2>4. Had(j, i, r) => SomePlace(j, i, r)'
        BY DEF SomePlace, Had
    <2>5. QED
        BY <1>3, <1>5, <2>1, <2>2, <2>3, <2>4, KeptMoves
<1>6. CASE ~(r <= party[j])
    <2>1. j = a /\ party[a] < r /\ r <= q
        <3>1. party[j] \in Int /\ r \in Int
            BY <1>0, <1>4
        <3>2. j = a
            BY <1>1, <1>3, <1>4, <1>6
        <3>3. QED
            BY <1>1, <1>3, <1>6, <3>1, <3>2
    <2>2. PICK e \in Carries(Emitted(a, party[a], q)) : e.round = r /\ e.to = Peers(a)
        BY <1>0, <2>1, EmittedFacts
    <2>3. QED
        BY <1>2, <1>4, <2>1, <2>2 DEF SomePlace, Unsent
<1>7. QED
    BY <1>5, <1>6

LEMMA KeptNext ==
    ASSUME RoundInv, OutInv, KeptInv, [Next]_vars
    PROVE  KeptInv'
<1>0. Gg20TypeOK
    BY DEF RoundInv, Gg20Inv
<1>1. ASSUME UNCHANGED <<wire, inbox, outCh, held, party, status>>
      PROVE  KeptInv'
    BY <1>1 DEF KeptInv, Running, SomePlace, Unsent, Underway, Queued, Had
<1>2. CASE UNCHANGED vars
    BY <1>1, <1>2 DEF vars, meshVars, driverVars
<1>3. ASSUME NEW i \in Operators, NEW j \in Peers(i), LinkStep(i, j)
      PROVE  KeptInv'
    BY <1>3, KeptReads, KeptSends DEF LinkStep
<1>4. ASSUME NEW i \in Operators, LocalStep(i)
      PROVE  KeptInv'
    <2>1. CASE StartParty(i)
        <3>1. UNCHANGED <<wire, inbox, held>>
            BY <2>1 DEF StartParty, meshVars
        <3>2. QED
            BY <1>0, <2>1, <3>1, PartyPutsOut, KeptPutsOut
    <2>2. CASE Feed(i)
        <3>1. UNCHANGED wire /\ held' = [held EXCEPT ![i] = Fed(i)] /\ inbox' = [inbox EXCEPT ![i] = Tail(@)]
            BY <2>2 DEF Feed
        <3>2. inbox[i] \in Seq(Envelopes) /\ inbox[i] # <<>>
            BY <1>0, <2>2 DEF Gg20TypeOK, Feed, Feeding
        <3>3. Carries(inbox[i]) = {Head(inbox[i])} \cup Carries(Tail(inbox[i]))
            BY <3>2, CarriesHeadTail
        <3>4. ASSUME NEW k \in Operators
              PROVE  /\ \A e \in Carries(inbox[k]) : e \in Carries(inbox'[k]) \/ e \in held'[k]
                     /\ held[k] \subseteq held'[k]
            <4>1. CASE k = i
                <5>1. held'[k] = Fed(i) /\ inbox'[k] = Tail(inbox[i])
                    BY <1>0, <3>1, <4>1 DEF Gg20TypeOK
                <5>2. QED
                    BY <3>3, <4>1, <5>1 DEF Fed
            <4>2. CASE k # i
                <5>1. held'[k] = held[k] /\ inbox'[k] = inbox[k]
                    BY <1>0, <3>1, <4>2 DEF Gg20TypeOK
                <5>2. QED
                    BY <5>1
            <4>3. QED
                BY <4>1, <4>2
        <3>5. QED
            BY <1>0, <2>2, <3>1, <3>4, PartyPutsOut, KeptPutsOut
    <2>3. CASE GraceBegins(i) \/ TakeResult(i)
        BY <1>1, <2>3 DEF GraceBegins, TakeResult, meshVars
    <2>4. QED
        BY <1>4, <2>1, <2>2, <2>3 DEF LocalStep
<1>5. ASSUME NEW a \in Operators, NEW how, NEW why, Ends(a, how, why)
      PROVE  KeptInv'
    <2>1. SUFFICES ASSUME NEW i \in Operators, NEW j \in Peers(i), NEW r \in 1..LastRound,
                          Running(i)', Running(j)', r <= party'[j]
                   PROVE  SomePlace(j, i, r)'
        BY DEF KeptInv
    <2>2. j \in Operators /\ <<j, i>> \in Links /\ <<j, i>>[1] = j /\ <<j, i>>[2] = i
        BY LinkTypes
    <2>3. i # a /\ j # a
        BY <1>0, <1>5, <2>1, EndsSilent
    <2>4. /\ outCh'[j] = outCh[j] /\ held'[i] = held[i] /\ inbox'[i] = inbox[i]
          /\ Running(i) /\ Running(j) /\ party'[j] = party[j]
        BY <1>0, <1>5, <2>1, <2>2, <2>3, EndsSilent
    <2>5. wire'[<<j, i>>] = wire[<<j, i>>]
        <3>1. Teardown(a)
            BY <1>5 DEF Ends, Exit
        <3>2. wire \in [Links -> Seq(Frames)]
            BY <1>0, WireType
        <3>3. QED
            BY <2>2, <2>3, <3>1, <3>2, TeardownSpares
    <2>6. QED
        BY <2>1, <2>4, <2>5, PlacesStay, KeptMoves
<1>6. QED
    BY <1>2, <1>3, <1>4, <1>5, Gg20Steps

----------------------------------------------------------------------------
(* Parties that are behind what they hold.                                 *)

\* The messages of round 1 may all come before the party is started, and the
\* party does not look at them before the next one comes.
Late(i) == party[i] = 1 /\ HasRound(i, held[i], 1)

LateInv ==
    /\ \A i \in Operators :
          party[i] # 0 /\ party[i] # Finished /\ HasRound(i, held[i], party[i]) => Late(i)
    /\ \A i \in Operators : Late(i) => \A e \in held[i] : e.frame.round = 1
    /\ \A i, j \in Operators : Late(i) /\ Late(j) => i = j

LEMMA LateInit == Init => LateInv
<1> SUFFICES ASSUME Init PROVE \A i \in Operators : party[i] = 0
    BY DEF LateInv, Late
<1>1. QED
    BY DEF Init

\* An operator whose party is not behind, beside others that stay as they are.
LEMMA LateElsewhere ==
    ASSUME LateInv, NEW i \in Operators,
           \A k \in Operators \ {i} : party'[k] = party[k] /\ held'[k] = held[k],
           ~Late(i)',
           party'[i] # 0 /\ party'[i] # Finished => ~HasRound(i, held'[i], party'[i])
    PROVE  LateInv'
<1>1. \A k \in Operators \ {i} : \A r : HasRound(k, held'[k], r) <=> HasRound(k, held[k], r)
    OBVIOUS
<1>2. \A k \in Operators \ {i} : Late(k)' <=> Late(k)
    BY DEF Late
<1>3. QED
    BY <1>1, <1>2 DEF LateInv

\* The last party to start is the only one that can be behind.
LEMMA LateStarts ==
    ASSUME RoundInv, LateInv, NEW i \in Operators, StartParty(i)
    PROVE  LateInv'
<1>0. /\ party \in [Operators -> 0..Finished] /\ held[i] \subseteq Envelopes
      /\ \A k \in Operators : party[k] \in Nat
      /\ \A k \in Operators : \A e \in held[k] : e.frame.round <= party[e.from]
    BY Gg20Assumption DEF RoundInv, SentInv, Gg20Inv, Gg20TypeOK, Finished
<1>1. /\ party[i] = 0 /\ party'[i] = 1 /\ UNCHANGED held
      /\ \A k \in Operators \ {i} : party'[k] = party[k]
    BY <1>0 DEF StartParty
<1>2. \A k \in Operators \ {i} : Late(k)' <=> Late(k)
    BY <1>1 DEF Late
<1>3. \A e \in held[i] : e.frame.round = 1
    <2>1. SUFFICES ASSUME NEW e \in held[i] PROVE e.frame.round = 1
        OBVIOUS
    <2>2. e.from \in Operators /\ e.frame.round \in Nat \ {0}
        BY <1>0, <2>1 DEF Envelopes, PartyFrames
    <2>3. party[e.from] <= 1
        <3>1. party[e.from] <= party[i] + 1
            BY <2>2 DEF RoundInv, PartiesInStep
        <3>2. QED
            BY <1>1, <3>1
    <2>4. e.frame.round <= party[e.from] /\ party[e.from] \in Nat
        BY <1>0, <2>1, <2>2
    <2>5. QED
        BY <2>2, <2>3, <2>4
<1>4. \A k \in Operators \ {i} : ~Late(k)
    <2>1. SUFFICES ASSUME NEW k \in Operators \ {i}, Late(k) PROVE FALSE
        OBVIOUS
    <2>2. i \in Peers(k)
        BY DEF Peers
    <2>3. PICK e \in held[k] : e.from = i /\ e.frame.round = 1
        BY <2>1, <2>2 DEF Late, HasRound
    <2>4. e.frame.round <= party[i]
        BY <1>0, <2>3
    <2>5. QED
        BY <1>1, <2>3, <2>4
<1>5. ASSUME NEW k \in Operators,
             party'[k] # 0, party'[k] # Finished, HasRound(k, held'[k], party'[k])
      PROVE  Late(k)'
    <2>1. CASE k = i
        BY <1>1, <1>5, <2>1 DEF Late
    <2>2. CASE k # i
        <3>1. party'[k] = party[k] /\ held'[k] = held[k]
            BY <1>1, <2>2
        <3>2. QED
            BY <1>2, <1>5, <2>2, <3>1 DEF LateInv
    <2>3. QED
        BY <2>1, <2>2
<1>6. QED
    BY <1>1, <1>2, <1>3, <1>4, <1>5 DEF LateInv

LEMMA LateNext ==
    ASSUME \A i \in Operators : Peers(i) # {}, RoundInv, LateInv, [Next]_vars
    PROVE  LateInv'
<1>0. Gg20TypeOK
    BY DEF RoundInv, Gg20Inv
<1>1. CASE UNCHANGED <<party, held>>
    BY <1>1 DEF LateInv, Late, HasRound
<1>2. ASSUME NEW i \in Operators, Feed(i)
      PROVE  LateInv'
    <2> DEFINE q == Reached(i, Fed(i))
    <2>1. /\ q \in party[i]..Finished
          /\ party[i] = 0 => q = 0
          /\ party[i] # 0 => q = Finished \/ ~HasRound(i, Fed(i), q)
        BY <1>0, ReachedFacts
    <2>2. /\ party'[i] = q /\ held'[i] = Fed(i)
          /\ \A k \in Operators \ {i} : party'[k] = party[k] /\ held'[k] = held[k]
        BY <1>0, <1>2 DEF Feed, Gg20TypeOK
    <2> HIDE DEF q
    <2>3. q # 0 /\ q # Finished => ~HasRound(i, held'[i], party'[i])
        BY <2>1, <2>2
    <2>4. ~Late(i)'
        <3>1. Finished # 1
            BY Gg20Assumption DEF Finished
        <3>2. QED
            BY <2>2, <2>3, <3>1 DEF Late
    <2>5. QED
        BY <2>2, <2>3, <2>4, LateElsewhere
<1>3. ASSUME NEW i \in Operators, NEW how, NEW why, Ends(i, how, why)
      PROVE  LateInv'
    <2>1. /\ held'[i] = {}
          /\ \A k \in Operators \ {i} : party'[k] = party[k] /\ held'[k] = held[k]
        BY <1>0, <1>3, EndsSilent
    <2>2. \A r : ~HasRound(i, held'[i], r)
        BY <2>1 DEF HasRound
    <2>3. QED
        BY <2>1, <2>2, LateElsewhere DEF Late
<1>4. ASSUME NEW i \in Operators, LocalStep(i)
      PROVE  LateInv'
    BY <1>1, <1>2, <1>4, LateStarts DEF LocalStep, GraceBegins, TakeResult
<1>5. ASSUME NEW i \in Operators, NEW j \in Peers(i), LinkStep(i, j)
      PROVE  LateInv'
    BY <1>1, <1>5, LinkStepFrame
<1>6. CASE UNCHANGED vars
    BY <1>1, <1>6 DEF vars, driverVars
<1>7. QED
    BY <1>3, <1>4, <1>5, <1>6, Gg20Steps

\* A result is that of the last round.
ResultInv == \A i \in Operators : finished[i] => party[i] = Finished

LEMMA ResultNext ==
    ASSUME RoundInv, RoundInv', ResultInv, [Next]_vars
    PROVE  ResultInv'
<1>0. /\ Gg20TypeOK /\ Finished \in Nat
      /\ \A i \in Operators : party[i] \in 0..Finished /\ party'[i] \in 0..Finished
    BY Gg20Assumption DEF RoundInv, Gg20Inv, Gg20TypeOK, Finished
<1>1. CASE UNCHANGED <<party, finished>>
    BY <1>1 DEF ResultInv
<1>2. CASE Next
    <2>1. \A k \in Operators : party[k] <= party'[k]
        <3>1. PICK i \in Operators : \E q \in party[i]..Finished : Moves(i, q)
            BY <1>2, PartyStep
        <3>2. QED
            BY <3>1, MoveRaises
    <2>2. \A k \in Operators : party[k] = Finished => party'[k] = Finished
        BY <1>0, <2>1
    <2>3. CASE UNCHANGED finished
        BY <2>2, <2>3 DEF ResultInv
    <2>4. ASSUME NEW i \in Operators, TakeResult(i)
          PROVE  ResultInv'
        <3>1. party[i] = Finished /\ finished' = [finished EXCEPT ![i] = TRUE]
            BY <2>4 DEF TakeResult
        <3>2. QED
            BY <1>0, <2>2, <3>1 DEF ResultInv, Gg20TypeOK
    <2>5. QED
        <3>1. PICK i \in Operators :
                  \/ \E j \in Peers(i) : LinkStep(i, j)
                  \/ LocalStep(i)
                  \/ \E how, why : Ends(i, how, why)
            BY <1>2, Gg20Steps
        <3>2. CASE \E j \in Peers(i) : LinkStep(i, j)
            BY <2>3, <3>2, LinkStepFrame
        <3>3. CASE LocalStep(i)
            BY <2>3, <2>4, <3>3 DEF LocalStep, StartParty, Feed, GraceBegins, meshVars
        <3>4. CASE \E how, why : Ends(i, how, why)
            BY <1>0, <2>3, <3>4, EndsFacts
        <3>5. QED
            BY <3>1, <3>2, <3>3, <3>4
<1>3. QED
    BY <1>1, <1>2 DEF vars, meshVars, driverVars

----------------------------------------------------------------------------
(* No session comes to rest.                                               *)

WholeInv ==
    /\ RoundInv /\ OutInv /\ KeptInv /\ LateInv /\ ResultInv
    /\ \A i \in Operators : conns[i] = Peers(i)

LEMMA WholeInvariant ==
    ASSUME \A i \in Operators : Peers(i) # {}
    PROVE  Spec => []WholeInv
<1>1. Init => OutInv /\ KeptInv /\ LateInv /\ ResultInv /\ \A i \in Operators : conns[i] = Peers(i)
    BY OutInit, KeptInit, LateInit DEF Init, ResultInv
<1>2. RoundInv /\ RoundInv' /\ OutInv /\ KeptInv /\ LateInv /\ ResultInv /\ [Next]_vars
          => OutInv' /\ KeptInv' /\ LateInv' /\ ResultInv'
    BY OutNext, KeptNext, LateNext, ResultNext
<1>3. RoundInv /\ [Next]_vars => UNCHANGED conns
    <2>1. Next /\ Gg20TypeOK => UNCHANGED conns
        <3> SUFFICES ASSUME Next, Gg20TypeOK PROVE UNCHANGED conns
            OBVIOUS
        <3>1. PICK i \in Operators :
                  \/ \E j \in Peers(i) : LinkStep(i, j)
                  \/ LocalStep(i)
                  \/ \E how, why : Ends(i, how, why)
            BY Gg20Steps
        <3>2. CASE \E j \in Peers(i) : LinkStep(i, j)
            BY <3>2 DEF LinkStep, ReadPayload, ReadFin, ReadError, Dispatch, SendFin
        <3>3. CASE LocalStep(i)
            BY <3>3 DEF LocalStep, StartParty, Feed, GraceBegins, TakeResult, meshVars
        <3>4. CASE \E how, why : Ends(i, how, why)
            BY <3>4, EndsFacts
        <3>5. QED
            BY <3>1, <3>2, <3>3, <3>4
    <2>2. QED
        BY <2>1 DEF RoundInv, Gg20Inv, vars, meshVars
<1>4. Spec => []RoundInv
    BY RoundInvariant
<1>5. (\A i \in Operators : conns[i] = Peers(i)) /\ UNCHANGED conns
          => (\A i \in Operators : conns[i] = Peers(i))'
    OBVIOUS
<1>6. QED
    BY <1>1, <1>2, <1>3, <1>4, <1>5, PTL DEF Spec, WholeInv

\* Where nobody can go on, an operator without a result has done all it can,
\* has read all it was sent, and has lost no peer.
LEMMA StalledIsIdle ==
    ASSUME WholeInv, \A k \in Operators : ~CanGo(k),
           NEW i \in Operators, Undecided(i), Peers(i) # {}
    PROVE  /\ party[i] # 0 /\ party[i] # Finished
           /\ outCh[i] = <<>> /\ inbox[i] = <<>>
           /\ \A j \in Peers(i) : wire[<<j, i>>] = <<>> /\ ~closed[j]
<1>0. /\ Gg20TypeOK /\ ProcessInv /\ OutInv
      /\ conns[i] = Peers(i) /\ Running(i) /\ ~finished[i] /\ ~CanGo(i)
    BY DEF WholeInv, RoundInv, Gg20Inv, Undecided
<1>1. driver[i] \in {"select", "dispatch"} /\ ~closed[i]
    BY <1>0 DEF ProcessInv, Gg20TypeOK, CanGo
<1>2. outCh[i] = <<>>
    <2>1. SUFFICES ASSUME outCh[i] # <<>> PROVE FALSE
        OBVIOUS
    <2>2. Head(outCh[i]) \in Carries(outCh[i])
        BY <1>0, <2>1, CarriesTail DEF Gg20TypeOK
    <2>3. PICK j \in Head(outCh[i]).to : j \in Peers(i)
        BY <1>0, <2>2 DEF OutInv
    <2>4. Dispatching(i, j)
        BY <1>0, <1>1, <2>1 DEF Dispatching
    <2>5. QED
        BY <1>0, <2>3, <2>4 DEF CanGo, CanSend
<1>3. Selecting(i)
    BY <1>0, <1>1, <1>2 DEF OutInv, Selecting
<1>4. inbox[i] = <<>> /\ errs[i] = {} /\ party[i] # 0 /\ party[i] # Finished
    BY <1>0, <1>3 DEF CanGo, CanParty
<1>5. Len(inbox[i]) < InboxCapacity
    BY <1>4, InboxAssumption, EmptySeq
<1>6. ASSUME NEW j \in Peers(i)
      PROVE  wire[<<j, i>>] = <<>> /\ ~closed[j]
    <2>1. ~CanRead(i, j)
        BY <1>0 DEF CanGo
    <2>2. QED
        BY <1>0, <1>1, <1>4, <1>5, <2>1 DEF CanRead
<1>7. QED
    BY <1>2, <1>4, <1>6

\* It has every message of a peer that has not dropped one.
LEMMA StalledHasAll ==
    ASSUME WholeInv, \A k \in Operators : ~CanGo(k),
           NEW i \in Operators, Undecided(i),
           NEW j \in Peers(i), ~DroppedFor(j, i),
           NEW r \in 1..LastRound, r <= party[j]
    PROVE  Had(j, i, r)
<1>0. Gg20TypeOK /\ ProcessInv /\ j \in Operators /\ i \in Peers(j)
    BY LinkTypes DEF WholeInv, RoundInv, Gg20Inv, Peers
<1>1. /\ inbox[i] = <<>> /\ wire[<<j, i>>] = <<>> /\ ~closed[j]
    BY StalledIsIdle
<1>2. Running(i) /\ Running(j)
    BY <1>0, <1>1 DEF Undecided, ProcessInv
<1>3. SomePlace(j, i, r)
    BY <1>2 DEF WholeInv, KeptInv
<1>4. ~Underway(j, i, r) /\ ~Queued(j, i, r)
    BY <1>1, CarriesNothing DEF Underway, Queued
<1>5. ~Unsent(j, i, r)
    <2>1. SUFFICES ASSUME NEW e \in Carries(outCh[j]), i \in e.to PROVE FALSE
        BY DEF Unsent
    <2>2. CASE finished[j]
        <3>1. outCh[j] \in Seq(Outgoing)
            BY <1>0 DEF Gg20TypeOK
        <3>2. PICK n \in 1..Len(outCh[j]) : e = outCh[j][n]
            BY <2>1 DEF Carries
        <3>3. n \in DOMAIN outCh[j]
            BY <3>1, <3>2
        <3>4. QED
            BY <1>2, <2>1, <2>2, <3>2, <3>3 DEF DroppedFor
    <2>3. CASE ~finished[j]
        <3>1. outCh[j] = <<>>
            BY <1>0, <1>2, <2>3, StalledIsIdle DEF Undecided
        <3>2. QED
            BY <2>1, <3>1, CarriesNothing
    <2>4. QED
        BY <2>2, <2>3
<1>6. QED
    BY <1>3, <1>4, <1>5 DEF SomePlace

\* Those furthest behind have everybody's messages of their round, which can
\* only be so for one party, in round 1, and not for long.
LEMMA NobodyIsBehind ==
    ASSUME WholeInv, \A k \in Operators : Peers(k) # {}, \A k \in Operators : ~CanGo(k),
           NEW m \in Operators, Undecided(m),
           \A k \in Operators : Undecided(k) => party[m] <= party[k],
           \A k \in Operators : Undecided(k) => \A j \in Peers(k) : ~DroppedFor(j, k)
    PROVE  FALSE
<1>0. /\ \A k \in Operators : party[k] \in Nat /\ party[k] <= Finished
      /\ Finished \in Nat /\ Finished = LastRound + 1 /\ LastRound >= 3 /\ LastRound \in Nat
    BY Gg20Assumption DEF WholeInv, RoundInv, Gg20Inv, Gg20TypeOK, Finished
<1>1. \A k \in Operators : Running(k)
    <2>1. \A k \in Operators : k = m \/ ~closed[k]
        BY StalledIsIdle DEF Peers
    <2>2. QED
        BY <2>1 DEF WholeInv, RoundInv, Gg20Inv, ProcessInv, Undecided
<1>2. \A k \in Operators : party[m] <= party[k]
    <2>1. ASSUME NEW k \in Operators, finished[k] PROVE party[m] <= party[k]
        BY <1>0, <2>1 DEF WholeInv, ResultInv
    <2>2. QED
        BY <1>1, <2>1 DEF Undecided
<1>3. party[m] \in 1..LastRound
    <2>1. party[m] # 0 /\ party[m] # Finished
        BY StalledIsIdle
    <2>2. QED
        BY <1>0, <2>1
<1>4. ASSUME NEW k \in Operators, Undecided(k), party[k] = party[m]
      PROVE  Late(k) /\ party[k] = 1
    <2>1. ASSUME NEW j \in Peers(k)
          PROVE  \E e \in held[k] : e.from = j /\ e.frame.round = party[k]
        <3>1. j \in Operators
            BY LinkTypes
        <3>2. Had(j, k, party[k])
            BY <1>2, <1>3, <1>4, <2>1, <3>1, StalledHasAll
        <3>3. QED
            BY <3>2 DEF Had
    <2>2. HasRound(k, held[k], party[k])
        BY <2>1 DEF HasRound
    <2>3. party[k] # 0 /\ party[k] # Finished
        BY <1>0, <1>3, <1>4
    <2>4. QED
        BY <2>2, <2>3 DEF WholeInv, LateInv, Late
<1>5. Late(m) /\ party[m] = 1
    BY <1>4
<1>6. PICK j \in Peers(m) : TRUE
    OBVIOUS
<1>7. j \in Operators /\ j # m
    BY LinkTypes DEF Peers
<1>8. CASE party[j] = 1
    <2>1. Undecided(j)
        <3>1. ~finished[j]
            BY <1>0, <1>7, <1>8 DEF WholeInv, ResultInv
        <3>2. QED
            BY <1>1, <1>7, <3>1 DEF Undecided
    <2>2. Late(j)
        BY <1>4, <1>5, <1>7, <1>8, <2>1
    <2>3. QED
        BY <1>5, <1>7, <2>2 DEF WholeInv, LateInv
<1>9. CASE party[j] # 1
    <2>1. 2 <= party[j] /\ 2 \in 1..LastRound
        BY <1>0, <1>2, <1>5, <1>7, <1>9
    <2>2. Had(j, m, 2)
        BY <2>1, StalledHasAll
    <2>3. \A e \in held[m] : e.frame.round = 1
        BY <1>5 DEF WholeInv, LateInv
    <2>4. QED
        BY <2>2, <2>3 DEF Had
<1>10. QED
    BY <1>8, <1>9

\* A session of two or more operators does not come to rest while one of them
\* runs without a result, whoever crashes, stalls or cheats, and however small
\* the inbox: the driver never waits for anything but its select
\* (protocol.go:46-69, 115-161).  The one exception is a message that a peer put into
\* outCh and did not dispatch before it took its own result.
THEOREM Gg20NeverStalls ==
    ASSUME \A i \in Operators : Peers(i) # {}
    PROVE  Spec => []NeverStalls
<1>1. WholeInv => NeverStalls
    <2>1. SUFFICES ASSUME WholeInv, \A k \in Operators : ~CanGo(k),
                          NEW i \in Operators, Undecided(i),
                          \A k \in Operators : Undecided(k) => \A j \in Peers(k) : ~DroppedFor(j, k)
                   PROVE  FALSE
        BY DEF NeverStalls
    <2> DEFINE S == {party[k] : k \in {l \in Operators : Undecided(l)}}
    <2>2. \A k \in Operators : party[k] \in Nat
        <3>1. party \in [Operators -> 0..Finished]
            BY <2>1 DEF WholeInv, RoundInv, Gg20Inv, Gg20TypeOK
        <3>2. 0..Finished \subseteq Nat
            BY Gg20Assumption DEF Finished
        <3>3. QED
            BY <3>1, <3>2
    <2>3. S \subseteq Nat /\ S # {}
        BY <2>1, <2>2
    <2>4. PICK n \in S : \A x \in S : <<x, n>> \notin OpToRel(<, Nat)
        BY <2>3, NatLessThanWellFounded, WFMin
    <2>5. PICK m \in Operators : Undecided(m) /\ party[m] = n
        BY <2>4
    <2>6. ASSUME NEW k \in Operators, Undecided(k) PROVE party[m] <= party[k]
        <3>1. SUFFICES ASSUME party[k] < party[m] PROVE FALSE
            BY <2>2
        <3>2. party[k] \in S
            BY <2>6
        <3>3. <<party[k], n>> \in OpToRel(<, Nat)
            BY <2>2, <2>5, <3>1, Zenon DEF OpToRel
        <3>4. QED
            BY <2>4, <3>2, <3>3
    <2>7. QED
        BY <2>1, <2>5, <2>6, NobodyIsBehind
<1>2. QED
    BY <1>1, WholeInvariant, PTL

\* Where nobody can go on, the session is decided: what SessionDecides comes
\* down to, once every session of finitely many steps has come to rest.
THEOREM Gg20RestIsDecided ==
    ASSUME Operators # {}, \A i \in Operators : Peers(i) # {}
    PROVE  Spec => []((\A i \in Operators : ~CanGo(i)) => Decided)
<1>1. ASSUME Gg20Inv, NeverStalls, \A i \in Operators : ~CanGo(i)
      PROVE  Decided
    <2>1. CASE \E i \in Operators : Undecided(i)
        BY <1>1, <2>1 DEF NeverStalls, DroppedFor, Decided, Peers
    <2>2. CASE \A i \in Operators : ~Undecided(i)
        <3>1. PICK i \in Operators : TRUE
            OBVIOUS
        <3>2. CASE finished[i]
            BY <3>2 DEF Decided
        <3>3. CASE ~finished[i]
            <4>1. ~Running(i)
                BY <2>2, <3>3 DEF Undecided
            <4>2. cause[i] # "none"
                BY <1>1, <3>3, <4>1 DEF Gg20Inv, ProcessInv
            <4>3. cause[i] \in {"crash", "timeout", "fault", "transport"}
                BY <1>1, <4>2 DEF Gg20Inv, Gg20TypeOK
            <4>4. QED
                BY <1>1, <4>3 DEF Gg20Inv, AbortHasRootCause, Decided
        <3>4. QED
            BY <3>2, <3>3
    <2>3. QED
        BY <2>1, <2>2
<1>2. QED
    BY <1>1, Gg20Invariant, Gg20NeverStalls, PTL

----------------------------------------------------------------------------
(* Sessions are finite.  What a party has still to put out and a driver to *)
(* send, what is underway or waits in an inbox, and the way a process has  *)
(* still to go, are counted so that every step leaves less: a message not  *)
(* yet sent weighs three, one underway two and one in an inbox one.        *)

\* The rounds whose message i has still to send to j.
Outstanding(i, j) ==
    {r \in 1..LastRound : r > party[i] \/ \E e \in Carries(outCh[i]) : e.round = r /\ j \in e.to}

\* The FIN of i is still to go to j.
OwesFin(i, j) == driver[i] # "barrier" \/ j \in todo[i]

MayLose(i, j) == Running(i) /\ j \notin errs[i]

LinkWeight(i, j) ==
    3 * Cardinality(Outstanding(i, j)) + 3 * Ones(OwesFin(i, j))
        + 2 * Len(wire[<<i, j>>]) + Ones(MayLose(i, j))

InSession(i) == driver[i] \notin {"grace", "barrier"}

OwnWeight(i) ==
    (Finished - party[i]) + Len(inbox[i]) + Ones(Running(i)) + Ones(InSession(i))

LinkWeights == [link \in Links |-> LinkWeight(link[1], link[2])]

OwnWeights == [i \in Operators |-> OwnWeight(i)]

Measure == Total(LinkWeights) + Total(OwnWeights)

LEMMA OutstandingFinite ==
    ASSUME NEW i, NEW j
    PROVE  /\ IsFiniteSet(Outstanding(i, j))
           /\ Cardinality(Outstanding(i, j)) \in Nat
<1>1. IsFiniteSet(1..LastRound)
    BY Gg20Assumption, FS_Interval
<1>2. Outstanding(i, j) \subseteq 1..LastRound
    BY DEF Outstanding
<1>3. QED
    BY <1>1, <1>2, FS_Subset, FS_CardinalityType

WeightsOK ==
    /\ \A i \in Operators : \A j \in Peers(i) :
          /\ Cardinality(Outstanding(i, j)) \in Nat
          /\ Len(wire[<<i, j>>]) \in Nat
          /\ LinkWeight(i, j) \in Nat
    /\ \A i \in Operators :
          /\ Finished - party[i] \in Nat
          /\ Len(inbox[i]) \in Nat
          /\ OwnWeight(i) \in Nat
    /\ LinkWeights \in [Links -> Nat]
    /\ OwnWeights \in [Operators -> Nat]

LEMMA WeightTypes ==
    ASSUME Gg20TypeOK
    PROVE  WeightsOK
<1>1. ASSUME NEW i \in Operators, NEW j \in Peers(i)
      PROVE  /\ Cardinality(Outstanding(i, j)) \in Nat
             /\ Len(wire[<<i, j>>]) \in Nat
             /\ LinkWeight(i, j) \in Nat
    <2> DEFINE a == Cardinality(Outstanding(i, j))
               b == Ones(OwesFin(i, j))
               n == Len(wire[<<i, j>>])
               c == Ones(MayLose(i, j))
    <2>1. a \in Nat
        BY OutstandingFinite
    <2>2. n \in Nat
        BY LinkTypes, WireType, LenProperties
    <2>3. b \in Nat /\ c \in Nat
        BY DEF Ones
    <2>4. LinkWeight(i, j) = 3 * a + 3 * b + 2 * n + c
        BY DEF LinkWeight
    <2> HIDE DEF a, b, n, c
    <2>5. LinkWeight(i, j) \in Nat
        BY <2>1, <2>2, <2>3, <2>4
    <2>6. QED
        BY <2>1, <2>2, <2>5 DEF a, n
<1>2. ASSUME NEW i \in Operators
      PROVE  /\ Finished - party[i] \in Nat
             /\ Len(inbox[i]) \in Nat
             /\ OwnWeight(i) \in Nat
    <2>1. Len(inbox[i]) \in Nat
        BY LenProperties DEF Gg20TypeOK
    <2>2. Finished - party[i] \in Nat
        <3>1. party[i] \in 0..Finished /\ Finished \in Nat
            BY Gg20Assumption DEF Gg20TypeOK, Finished
        <3>2. QED
            BY <3>1
    <2>3. QED
        BY <2>1, <2>2 DEF OwnWeight, Ones
<1>3. \A link \in Links : LinkWeight(link[1], link[2]) \in Nat
    BY <1>1, LinkTypes
<1>4. QED
    BY <1>1, <1>2, <1>3 DEF WeightsOK, LinkWeights, OwnWeights

LEMMA WeightTypesNext ==
    ASSUME Gg20TypeOK, Gg20TypeOK'
    PROVE  WeightsOK /\ WeightsOK'
<1>1. WeightsOK
    BY WeightTypes
<1>2. (Gg20TypeOK => WeightsOK)'
    BY WeightTypes, PTL
<1>3. QED
    BY <1>1, <1>2

\* No weight grows and one falls.
LEMMA MeasureFalls ==
    ASSUME IsFiniteSet(Operators), Gg20TypeOK, Gg20TypeOK',
           \A i \in Operators : \A j \in Peers(i) : LinkWeight(i, j)' <= LinkWeight(i, j),
           \A i \in Operators : OwnWeight(i)' <= OwnWeight(i),
           \/ \E i \in Operators : \E j \in Peers(i) : LinkWeight(i, j)' < LinkWeight(i, j)
           \/ \E i \in Operators : OwnWeight(i)' < OwnWeight(i)
    PROVE  Measure' < Measure
<1>1. /\ LinkWeights \in [Links -> Nat] /\ LinkWeights' \in [Links -> Nat]
      /\ OwnWeights \in [Operators -> Nat] /\ OwnWeights' \in [Operators -> Nat]
    BY WeightTypesNext DEF WeightsOK
<1>2. /\ \A link \in Links : LinkWeights'[link] <= LinkWeights[link]
      /\ \A i \in Operators : OwnWeights'[i] <= OwnWeights[i]
    BY LinkTypes DEF LinkWeights, OwnWeights
<1>3. \/ \E link \in Links : LinkWeights'[link] < LinkWeights[link]
      \/ \E i \in Operators : OwnWeights'[i] < OwnWeights[i]
    BY LinkTypes DEF LinkWeights, OwnWeights
<1>4. QED
    BY <1>1, <1>2, <1>3, WeightsFall DEF Measure

\* What is sent on a connection has weighed more before.
Sheds(i, j) ==
    \/ OwesFin(i, j) /\ ~OwesFin(i, j)'
    \/ \E r \in Outstanding(i, j) : r \notin Outstanding(i, j)'

\* On the connection from i to j, all that is new has been shed before.
Settles(i, j) ==
    /\ Outstanding(i, j)' \subseteq Outstanding(i, j)
    /\ OwesFin(i, j)' => OwesFin(i, j)
    /\ MayLose(i, j)' => MayLose(i, j)
    /\ \/ Len(wire'[<<i, j>>]) <= Len(wire[<<i, j>>])
       \/ Len(wire'[<<i, j>>]) <= Len(wire[<<i, j>>]) + 1 /\ Sheds(i, j)

LEMMA LinkWeightFalls ==
    ASSUME Gg20TypeOK, Gg20TypeOK', NEW i \in Operators, NEW j \in Peers(i), Settles(i, j)
    PROVE  /\ LinkWeight(i, j)' <= LinkWeight(i, j)
           /\ \/ Sheds(i, j)
              \/ Len(wire'[<<i, j>>]) < Len(wire[<<i, j>>])
              \/ MayLose(i, j) /\ ~MayLose(i, j)'
              => LinkWeight(i, j)' < LinkWeight(i, j)
<1> DEFINE a == Cardinality(Outstanding(i, j))
           b == Ones(OwesFin(i, j))
           n == Len(wire[<<i, j>>])
           c == Ones(MayLose(i, j))
<1>1. a \in Nat /\ n \in Nat /\ a' \in Nat /\ n' \in Nat
    <2>1. a \in Nat /\ n \in Nat
        BY WeightTypes DEF WeightsOK
    <2>2. WeightsOK'
        BY WeightTypesNext
    <2>3. a' \in Nat /\ n' \in Nat
        BY <2>2 DEF WeightsOK, Peers
    <2>4. QED
        BY <2>1, <2>3
<1>2. /\ b \in 0..1 /\ b' \in 0..1 /\ b' <= b
      /\ OwesFin(i, j) /\ ~OwesFin(i, j)' => b' < b
    BY DEF Ones, Settles
<1>3. /\ c \in 0..1 /\ c' \in 0..1 /\ c' <= c
      /\ MayLose(i, j) /\ ~MayLose(i, j)' => c' < c
    BY DEF Ones, Settles
<1>4. a' <= a /\ (Outstanding(i, j)' # Outstanding(i, j) => a' < a)
    <2>1. IsFiniteSet(Outstanding(i, j)) /\ Outstanding(i, j)' \subseteq Outstanding(i, j)
        BY OutstandingFinite DEF Settles
    <2>2. QED
        BY <1>1, <2>1, FS_Subset
<1>5. Sheds(i, j) => a' < a \/ b' < b
    BY <1>2, <1>4 DEF Sheds
<1>6. n' <= n \/ (n' <= n + 1 /\ Sheds(i, j))
    BY DEF Settles
<1>7. /\ LinkWeight(i, j) = 3 * a + 3 * b + 2 * n + c
      /\ LinkWeight(i, j)' = 3 * a' + 3 * b' + 2 * n' + c'
    BY DEF LinkWeight
<1>8. ASSUME NEW x \in Nat, NEW x1 \in Nat, NEW y \in Nat, NEW y1 \in Nat,
             NEW m \in Nat, NEW m1 \in Nat, NEW z \in Nat, NEW z1 \in Nat,
             x1 <= x, y1 <= y, z1 <= z,
             m1 <= m \/ (m1 <= m + 1 /\ (x1 < x \/ y1 < y))
      PROVE  /\ 3 * x1 + 3 * y1 + 2 * m1 + z1 <= 3 * x + 3 * y + 2 * m + z
             /\ x1 < x \/ y1 < y \/ m1 < m \/ z1 < z =>
                   3 * x1 + 3 * y1 + 2 * m1 + z1 < 3 * x + 3 * y + 2 * m + z
    BY <1>8
<1>9. b \in Nat /\ b' \in Nat /\ c \in Nat /\ c' \in Nat
    BY <1>2, <1>3
<1> HIDE DEF a, b, c, n
<1>10. /\ 3 * a' + 3 * b' + 2 * n' + c' <= 3 * a + 3 * b + 2 * n + c
       /\ a' < a \/ b' < b \/ n' < n \/ c' < c =>
             3 * a' + 3 * b' + 2 * n' + c' < 3 * a + 3 * b + 2 * n + c
    <2>1. n' <= n \/ (n' <= n + 1 /\ (a' < a \/ b' < b))
        BY <1>5, <1>6
    <2>2. QED
        BY <1>1, <1>2, <1>3, <1>4, <1>8, <1>9, <2>1
<1>11. Len(wire'[<<i, j>>]) < Len(wire[<<i, j>>]) => n' < n
    BY DEF n
<1>12. QED
    BY <1>3, <1>5, <1>7, <1>10, <1>11

\* What of its own way i has still to go does not grow.
Advances(i) ==
    /\ party'[i] >= party[i]
    /\ Len(inbox'[i]) <= Len(inbox[i])
    /\ Running(i)' => Running(i)
    /\ InSession(i)' => InSession(i)

LEMMA OwnWeightFalls ==
    ASSUME Gg20TypeOK, Gg20TypeOK', NEW i \in Operators, Advances(i)
    PROVE  /\ OwnWeight(i)' <= OwnWeight(i)
           /\ \/ party'[i] # party[i]
              \/ Len(inbox'[i]) < Len(inbox[i])
              \/ Running(i) /\ ~Running(i)'
              \/ InSession(i) /\ ~InSession(i)'
              => OwnWeight(i)' < OwnWeight(i)
<1> DEFINE a == Finished - party[i]
           n == Len(inbox[i])
           b == Ones(Running(i))
           c == Ones(InSession(i))
<1>1. /\ a \in Nat /\ a' \in Nat /\ n \in Nat /\ n' \in Nat
      /\ a' <= a /\ (party'[i] # party[i] => a' < a) /\ n' <= n
    <2>1. party[i] \in 0..Finished /\ party'[i] \in 0..Finished /\ Finished \in Nat
        BY Gg20Assumption DEF Gg20TypeOK, Finished
    <2>2. n \in Nat /\ n' \in Nat
        BY LenProperties DEF Gg20TypeOK
    <2>3. a = Finished - party[i] /\ a' = Finished - party'[i]
        BY DEF Finished
    <2>4. QED
        BY <2>1, <2>2, <2>3 DEF Advances
<1>2. /\ b \in Nat /\ b' \in Nat /\ b' <= b
      /\ Running(i) /\ ~Running(i)' => b' < b
    BY DEF Ones, Advances
<1>3. /\ c \in Nat /\ c' \in Nat /\ c' <= c
      /\ InSession(i) /\ ~InSession(i)' => c' < c
    BY DEF Ones, Advances
<1>4. OwnWeight(i) = a + n + b + c /\ OwnWeight(i)' = a' + n' + b' + c'
    BY DEF OwnWeight
<1>5. Len(inbox'[i]) < Len(inbox[i]) => n' < n
    OBVIOUS
<1>6. ASSUME NEW x \in Nat, NEW x1 \in Nat, NEW m \in Nat, NEW m1 \in Nat,
             NEW y \in Nat, NEW y1 \in Nat, NEW z \in Nat, NEW z1 \in Nat,
             x1 <= x, m1 <= m, y1 <= y, z1 <= z
      PROVE  /\ x1 + m1 + y1 + z1 <= x + m + y + z
             /\ x1 < x \/ m1 < m \/ y1 < y \/ z1 < z => x1 + m1 + y1 + z1 < x + m + y + z
    BY <1>6
<1> HIDE DEF a, b, c, n
<1>7. /\ a' + n' + b' + c' <= a + n + b + c
      /\ a' < a \/ n' < n \/ b' < b \/ c' < c => a' + n' + b' + c' < a + n + b + c
    BY <1>1, <1>2, <1>3, <1>6
<1>8. QED
    BY <1>1, <1>2, <1>3, <1>4, <1>5, <1>7

LEMMA MeasureSettles ==
    ASSUME IsFiniteSet(Operators), Gg20TypeOK, Gg20TypeOK',
           \A i \in Operators : \A j \in Peers(i) : Settles(i, j),
           \A i \in Operators : Advances(i),
           \/ \E i \in Operators : \E j \in Peers(i) :
                 \/ Sheds(i, j)
                 \/ Len(wire'[<<i, j>>]) < Len(wire[<<i, j>>])
                 \/ MayLose(i, j) /\ ~MayLose(i, j)'
           \/ \E i \in Operators :
                 \/ party'[i] # party[i]
                 \/ Len(inbox'[i]) < Len(inbox[i])
                 \/ Running(i) /\ ~Running(i)'
                 \/ InSession(i) /\ ~InSession(i)'
    PROVE  Measure' < Measure
<1>1. \A i \in Operators : \A j \in Peers(i) : LinkWeight(i, j)' <= LinkWeight(i, j)
    BY LinkWeightFalls
<1>2. \A i \in Operators : OwnWeight(i)' <= OwnWeight(i)
    BY OwnWeightFalls
<1>3. CASE \E i \in Operators : \E j \in Peers(i) :
              \/ Sheds(i, j)
              \/ Len(wire'[<<i, j>>]) < Len(wire[<<i, j>>])
              \/ MayLose(i, j) /\ ~MayLose(i, j)'
    <2>1. \E i \in Operators : \E j \in Peers(i) : LinkWeight(i, j)' < LinkWeight(i, j)
        BY <1>3, LinkWeightFalls
    <2>2. QED
        BY <1>1, <1>2, <2>1, MeasureFalls
<1>4. CASE \E i \in Operators :
              \/ party'[i] # party[i]
              \/ Len(inbox'[i]) < Len(inbox[i])
              \/ Running(i) /\ ~Running(i)'
              \/ InSession(i) /\ ~InSession(i)'
    <2>1. \E i \in Operators : OwnWeight(i)' < OwnWeight(i)
        BY <1>4, OwnWeightFalls
    <2>2. QED
        BY <1>1, <1>2, <2>1, MeasureFalls
<1>5. QED
    BY <1>3, <1>4

\* What a party puts out, it has not put out before.
LEMMA NothingNew ==
    ASSUME Gg20TypeOK, Gg20TypeOK', NEW i \in Operators, NEW j,
           party'[i] >= party[i],
           \A e \in Carries(outCh'[i]) :
              \/ e.round > party[i]
              \/ \E f \in Carries(outCh[i]) : f.round = e.round /\ e.to \subseteq f.to
    PROVE  Outstanding(i, j)' \subseteq Outstanding(i, j)
<1>1. party[i] \in Int /\ party'[i] \in Int
    BY Gg20Assumption DEF Gg20TypeOK, Finished
<1>2. SUFFICES ASSUME NEW r \in Outstanding(i, j)'
               PROVE  r \in Outstanding(i, j)
    OBVIOUS
<1>3. r \in 1..LastRound
    BY <1>2 DEF Outstanding
<1>4. CASE r > party'[i]
    <2>1. r > party[i]
        BY <1>1, <1>3, <1>4
    <2>2. QED
        BY <1>3, <2>1 DEF Outstanding
<1>5. CASE \E e \in Carries(outCh'[i]) : e.round = r /\ j \in e.to
    BY <1>3, <1>5 DEF Outstanding
<1>6. QED
    BY <1>2, <1>4, <1>5 DEF Outstanding

\* A step that leaves what is underway alone, and puts out nothing again.
LEMMA SettlesQuietly ==
    ASSUME Gg20TypeOK, Gg20TypeOK', NEW i \in Operators, NEW j \in Peers(i),
           party'[i] >= party[i],
           \A e \in Carries(outCh'[i]) :
              \/ e.round > party[i]
              \/ \E f \in Carries(outCh[i]) : f.round = e.round /\ e.to \subseteq f.to,
           OwesFin(i, j)' => OwesFin(i, j),
           MayLose(i, j)' => MayLose(i, j),
           \/ wire'[<<i, j>>] = wire[<<i, j>>]
           \/ Len(wire'[<<i, j>>]) <= Len(wire[<<i, j>>])
    PROVE  Settles(i, j)
<1>1. Outstanding(i, j)' \subseteq Outstanding(i, j)
    BY NothingNew
<1>2. Len(wire[<<i, j>>]) \in Nat
    BY LinkTypes, WireType, LenProperties
<1>3. Len(wire'[<<i, j>>]) <= Len(wire[<<i, j>>])
    BY <1>2
<1>4. QED
    BY <1>1, <1>3 DEF Settles

LEMMA AdvancesQuietly ==
    ASSUME Gg20TypeOK, NEW i \in Operators,
           party'[i] = party[i], inbox'[i] = inbox[i], Running(i)' => Running(i),
           InSession(i)' => InSession(i)
    PROVE  Advances(i)
<1>1. party[i] \in Int /\ Len(inbox[i]) \in Nat
    BY Gg20Assumption, LenProperties DEF Gg20TypeOK, Finished
<1>2. QED
    BY <1>1 DEF Advances

\* A message that is read weighs less in the inbox than it did on the connection.
LEMMA MeasureReads ==
    ASSUME IsFiniteSet(Operators), Gg20TypeOK, Gg20TypeOK',
           NEW k \in Operators, NEW l \in Peers(k), ReadPayload(k, l), UNCHANGED driverVars
    PROVE  Measure' < Measure
<1>0. /\ l \in Operators /\ k \in Peers(l) /\ <<l, k>> \in Links
      /\ <<l, k>>[1] = l /\ <<l, k>>[2] = k
      /\ wire \in [Links -> Seq(Frames)] /\ wire[<<l, k>>] \in Seq(Frames)
      /\ inbox \in [Operators -> Seq(Envelopes)] /\ inbox[k] \in Seq(Envelopes)
    BY LinkTypes, WireType DEF Gg20TypeOK, Peers
<1>1. /\ wire[<<l, k>>] # <<>>
      /\ wire' = [wire EXCEPT ![<<l, k>>] = Tail(@)]
      /\ inbox' = [inbox EXCEPT ![k] = Append(@, [from |-> l, frame |-> Head(wire[<<l, k>>])])]
      /\ UNCHANGED <<errs, party, outCh, driver, todo, status>>
    BY DEF ReadPayload, driverVars
<1>2. /\ LinkWeights \in [Links -> Nat] /\ LinkWeights' \in [Links -> Nat]
      /\ OwnWeights \in [Operators -> Nat] /\ OwnWeights' \in [Operators -> Nat]
    BY WeightTypesNext DEF WeightsOK
<1>3. \A i, j : /\ Outstanding(i, j)' = Outstanding(i, j)
                /\ OwesFin(i, j)' = OwesFin(i, j) /\ MayLose(i, j)' = MayLose(i, j)
    BY <1>1 DEF Outstanding, OwesFin, MayLose, Running
<1>4. ASSUME NEW link \in Links \ {<<l, k>>}
      PROVE  LinkWeights'[link] <= LinkWeights[link]
    <2>1. wire'[link] = wire[link] /\ link = <<link[1], link[2]>>
        BY <1>0, <1>1, LinkTypes
    <2>2. LinkWeight(link[1], link[2])' = LinkWeight(link[1], link[2])
        BY <1>3, <2>1 DEF LinkWeight
    <2>3. LinkWeights'[link] = LinkWeights[link] /\ LinkWeights[link] \in Nat
        BY <1>2, <2>2 DEF LinkWeights
    <2>4. QED
        BY <2>3
<1>5. LinkWeights'[<<l, k>>] = LinkWeights[<<l, k>>] - 2
    <2> DEFINE a == Cardinality(Outstanding(l, k))
               b == Ones(OwesFin(l, k))
               n == Len(wire[<<l, k>>])
               c == Ones(MayLose(l, k))
    <2>1. n \in Nat /\ n' \in Nat /\ n' = n - 1
        <3>1. wire'[<<l, k>>] = Tail(wire[<<l, k>>])
            BY <1>0, <1>1
        <3>2. /\ Tail(wire[<<l, k>>]) \in Seq(Frames)
              /\ Len(Tail(wire[<<l, k>>])) = Len(wire[<<l, k>>]) - 1
            BY <1>0, <1>1, HeadTailProperties
        <3>3. QED
            BY <1>0, <3>1, <3>2, LenProperties
    <2>2. a' = a /\ b' = b /\ c' = c
        BY <1>3
    <2>3. a \in Nat /\ b \in Nat /\ c \in Nat
        BY OutstandingFinite DEF Ones
    <2>4. /\ LinkWeight(l, k) = 3 * a + 3 * b + 2 * n + c
          /\ LinkWeight(l, k)' = 3 * a' + 3 * b' + 2 * n' + c'
        BY DEF LinkWeight
    <2>5. /\ LinkWeights[<<l, k>>] = LinkWeight(l, k)
          /\ LinkWeights'[<<l, k>>] = LinkWeight(l, k)'
        BY <1>0 DEF LinkWeights
    <2> HIDE DEF a, b, c, n
    <2>6. QED
        BY <2>1, <2>2, <2>3, <2>4, <2>5
<1>6. ASSUME NEW i \in Operators \ {k}
      PROVE  OwnWeights'[i] <= OwnWeights[i]
    <2>1. inbox'[i] = inbox[i]
        BY <1>0, <1>1
    <2>2. OwnWeight(i)' = OwnWeight(i)
        BY <1>1, <2>1 DEF OwnWeight, Running, InSession, Finished
    <2>3. OwnWeights'[i] = OwnWeights[i] /\ OwnWeights[i] \in Nat
        BY <1>2, <2>2 DEF OwnWeights
    <2>4. QED
        BY <2>3
<1>7. OwnWeights'[k] = OwnWeights[k] + 1
    <2> DEFINE a == Finished - party[k]
               n == Len(inbox[k])
               b == Ones(Running(k))
               c == Ones(InSession(k))
    <2>1. n \in Nat /\ n' = n + 1
        <3>1. [from |-> l, frame |-> Head(wire[<<l, k>>])] \in Envelopes
            <4>1. Head(wire[<<l, k>>]) \in Frames /\ Head(wire[<<l, k>>]).tag # "Fin"
                BY <1>0, <1>1, HeadTailProperties DEF ReadPayload
            <4>2. QED
                BY <1>0, <4>1, FrameTypes DEF Envelopes
        <3>2. inbox'[k] = Append(inbox[k], [from |-> l, frame |-> Head(wire[<<l, k>>])])
            BY <1>0, <1>1
        <3>3. QED
            BY <1>0, <3>1, <3>2, AppendProperties, LenProperties
    <2>2. a' = a /\ b' = b /\ c' = c
        BY <1>1 DEF Running, InSession, Finished
    <2>3. a \in Nat /\ b \in Nat /\ c \in Nat
        BY WeightTypesNext DEF WeightsOK, Ones
    <2>4. /\ OwnWeight(k) = a + n + b + c
          /\ OwnWeight(k)' = a' + n' + b' + c'
        BY DEF OwnWeight
    <2>5. OwnWeights[k] = OwnWeight(k) /\ OwnWeights'[k] = OwnWeight(k)'
        BY DEF OwnWeights
    <2> HIDE DEF a, b, c, n
    <2>6. QED
        BY <2>1, <2>2, <2>3, <2>4, <2>5
<1>8. LinkWeights'[<<l, k>>] + OwnWeights'[k] < LinkWeights[<<l, k>>] + OwnWeights[k]
    <2>1. LinkWeights[<<l, k>>] \in Nat /\ OwnWeights[k] \in Nat
        BY <1>0, <1>2
    <2>2. QED
        BY <1>5, <1>7, <2>1
<1>9. QED
    BY <1>0, <1>2, <1>4, <1>6, <1>8, WeightShifts DEF Measure

LEMMA PushLengthens ==
    ASSUME Gg20TypeOK, NEW k \in Operators, NEW l \in Peers(k), NEW f, Push(k, l, f)
    PROVE  /\ Len(wire'[<<k, l>>]) <= Len(wire[<<k, l>>]) + 1
           /\ \A link \in Links \ {<<k, l>>} : wire'[link] = wire[link]
<1>1. /\ wire \in [Links -> Seq(Frames)] /\ <<k, l>> \in Links
      /\ wire[<<k, l>>] \in Seq(Frames) /\ Len(wire[<<k, l>>]) \in Nat
    BY LinkTypes, WireType, LenProperties
<1>2. CASE closed[l]
    BY <1>1, <1>2 DEF Push
<1>3. CASE ~closed[l]
    <2>1. wire' = [wire EXCEPT ![<<k, l>>] = Append(@, f)]
        BY <1>3 DEF Push
    <2>2. Len(Append(wire[<<k, l>>], f)) = Len(wire[<<k, l>>]) + 1
        BY <1>1
    <2>3. wire'[<<k, l>>] = Append(wire[<<k, l>>], f)
        BY <1>1, <2>1
    <2>4. Len(wire'[<<k, l>>]) <= Len(wire[<<k, l>>]) + 1
        BY <1>1, <2>2, <2>3
    <2>5. QED
        BY <1>1, <2>1, <2>4
<1>4. QED
    BY <1>2, <1>3

\* A message or a FIN that is sent weighs less underway than it did before.
LEMMA MeasureSends ==
    ASSUME IsFiniteSet(Operators), Gg20TypeOK, Gg20TypeOK', RoundInv, OutInv,
           NEW k \in Operators, NEW l \in Peers(k), Dispatch(k, l) \/ SendFin(k, l)
    PROVE  Measure' < Measure
<1>0. PICK f : Push(k, l, f)
    BY DEF Dispatch, SendFin
<1>1. UNCHANGED <<inbox, errs, party, status>>
    BY DEF Dispatch, SendFin
<1>2. /\ \A i \in Operators \ {k} : outCh'[i] = outCh[i] /\ driver'[i] = driver[i] /\ todo'[i] = todo[i]
      /\ InSession(k)' => InSession(k)
      /\ \A e \in Carries(outCh'[k]) :
            \E g \in Carries(outCh[k]) : g.round = e.round /\ e.to \subseteq g.to
      /\ \A j \in Peers(k) : OwesFin(k, j)' => OwesFin(k, j)
      /\ Sheds(k, l)
    <2>1. CASE Dispatch(k, l)
        <3>1. PICK r \in 1..LastRound : Takes(k, l, r)
            BY <2>1, DispatchTakes
        <3>2. UNCHANGED todo
            BY <2>1 DEF Dispatch
        <3>3. driver[k] # "barrier" /\ InSession(k)
            BY <3>1 DEF Takes, InSession
        <3>4. r \in Outstanding(k, l)
            BY <3>1 DEF Takes, Outstanding
        <3>5. r \notin Outstanding(k, l)'
            <4>1. r <= party[k] /\ party[k] \in Int
                BY <3>1, Gg20Assumption DEF Takes, RoundInv, SentInv, Gg20TypeOK, Finished
            <4>2. ~(r > party'[k])
                BY <1>1, <4>1
            <4>3. ~ \E e \in Carries(outCh'[k]) : e.round = r /\ l \in e.to
                BY <3>1 DEF Takes
            <4>4. QED
                BY <4>2, <4>3 DEF Outstanding
        <3>6. Sheds(k, l)
            BY <3>4, <3>5 DEF Sheds
        <3>7. \A e \in Carries(outCh'[k]) :
                 \E g \in Carries(outCh[k]) : g.round = e.round /\ e.to \subseteq g.to
            BY <3>1 DEF Takes
        <3>8. \A i \in Operators \ {k} : outCh'[i] = outCh[i] /\ driver'[i] = driver[i]
            BY <3>1 DEF Takes
        <3>9. QED
            BY <3>2, <3>3, <3>6, <3>7, <3>8 DEF OwesFin
    <2>2. CASE SendFin(k, l)
        <3>1. /\ driver[k] = "barrier" /\ l \in todo[k]
              /\ todo' = [todo EXCEPT ![k] = @ \ {l}]
              /\ UNCHANGED <<outCh, driver>>
            BY <2>2 DEF SendFin
        <3>2. /\ todo'[k] = todo[k] \ {l}
              /\ \A i \in Operators \ {k} : todo'[i] = todo[i]
            BY <3>1 DEF Gg20TypeOK
        <3>3. OwesFin(k, l) /\ ~OwesFin(k, l)'
            BY <3>1, <3>2 DEF OwesFin
        <3>4. QED
            BY <3>1, <3>2, <3>3 DEF OwesFin, Sheds, InSession
    <2>3. QED
        BY <2>1, <2>2
<1>3. /\ Len(wire'[<<k, l>>]) <= Len(wire[<<k, l>>]) + 1
      /\ \A link \in Links \ {<<k, l>>} : wire'[link] = wire[link]
    BY <1>0, PushLengthens
<1>4. \A i \in Operators : party'[i] >= party[i]
    BY <1>1, Gg20Assumption DEF Gg20TypeOK, Finished
<1>5. \A i \in Operators : \A e \in Carries(outCh'[i]) :
         \E g \in Carries(outCh[i]) : g.round = e.round /\ e.to \subseteq g.to
    BY <1>2
<1>6. \A i \in Operators : \A j \in Peers(i) :
         (OwesFin(i, j)' => OwesFin(i, j)) /\ (MayLose(i, j)' => MayLose(i, j))
    BY <1>1, <1>2 DEF OwesFin, MayLose, Running
<1>7. ASSUME NEW i \in Operators, NEW j \in Peers(i)
      PROVE  Settles(i, j)
    <2>1. CASE i = k /\ j = l
        <3>1. Outstanding(k, l)' \subseteq Outstanding(k, l)
            BY <1>4, <1>5, NothingNew
        <3>2. QED
            BY <1>2, <1>3, <1>6, <2>1, <3>1 DEF Settles
    <2>2. CASE ~(i = k /\ j = l)
        <3>1. <<i, j>> \in Links \ {<<k, l>>}
            BY <2>2, LinkTypes
        <3>2. wire'[<<i, j>>] = wire[<<i, j>>]
            BY <1>3, <3>1
        <3>3. QED
            BY <1>4, <1>5, <1>6, <3>2, SettlesQuietly
    <2>3. QED
        BY <2>1, <2>2
<1>8. \A i \in Operators : Advances(i)
    <2>1. \A i \in Operators : InSession(i)' => InSession(i)
        BY <1>2 DEF InSession
    <2>2. QED
        BY <1>1, <2>1, AdvancesQuietly DEF Running
<1>9. QED
    BY <1>2, <1>7, <1>8, MeasureSettles

\* A step after which nothing more is to be sent, and which reads nothing into
\* an inbox, leaves less if it takes something off.
LEMMA MeasureShrinks ==
    ASSUME IsFiniteSet(Operators), Gg20TypeOK, Gg20TypeOK',
           \A i \in Operators :
              /\ party'[i] >= party[i]
              /\ Len(inbox'[i]) <= Len(inbox[i])
              /\ Running(i)' => Running(i)
              /\ InSession(i)' => InSession(i)
              /\ \A e \in Carries(outCh'[i]) :
                    \/ e.round > party[i]
                    \/ \E f \in Carries(outCh[i]) : f.round = e.round /\ e.to \subseteq f.to,
           \A i \in Operators : \A j \in Peers(i) :
              /\ OwesFin(i, j)' => OwesFin(i, j)
              /\ MayLose(i, j)' => MayLose(i, j)
              /\ wire'[<<i, j>>] = wire[<<i, j>>] \/ Len(wire'[<<i, j>>]) <= Len(wire[<<i, j>>]),
           \/ \E i \in Operators : \E j \in Peers(i) :
                 \/ Len(wire'[<<i, j>>]) < Len(wire[<<i, j>>])
                 \/ MayLose(i, j) /\ ~MayLose(i, j)'
           \/ \E i \in Operators :
                 \/ party'[i] # party[i]
                 \/ Len(inbox'[i]) < Len(inbox[i])
                 \/ Running(i) /\ ~Running(i)'
                 \/ InSession(i) /\ ~InSession(i)'
    PROVE  Measure' < Measure
<1>1. \A i \in Operators : \A j \in Peers(i) : Settles(i, j)
    BY SettlesQuietly
<1>2. \A i \in Operators : Advances(i)
    BY DEF Advances
<1>3. QED
    BY <1>1, <1>2, MeasureSettles

LEMMA MeasureNext ==
    ASSUME IsFiniteSet(Operators), Gg20TypeOK, Gg20TypeOK', RoundInv, OutInv, Next
    PROVE  Measure' < Measure
<1>0. /\ wire \in [Links -> Seq(Frames)]
      /\ inbox \in [Operators -> Seq(Envelopes)]
      /\ \A i \in Operators : Len(inbox[i]) \in Nat
      /\ \A i \in Operators : \A j \in Peers(i) : Len(wire[<<i, j>>]) \in Nat /\ <<i, j>> \in Links
      /\ errs \in [Operators -> SUBSET Operators]
      /\ todo \in [Operators -> SUBSET Operators]
      /\ driver \in [Operators -> {"select", "dispatch", "grace", "barrier"}]
      /\ status \in [Operators -> {"running", "done", "aborted", "faulted", "crashed"}]
      /\ party \in [Operators -> 0..Finished] /\ Finished \in Nat
    <2>1. \A i \in Operators : Len(inbox[i]) \in Nat
        BY LenProperties DEF Gg20TypeOK
    <2>2. \A i \in Operators : \A j \in Peers(i) : Len(wire[<<i, j>>]) \in Nat /\ <<i, j>> \in Links
        BY LinkTypes, WireType, LenProperties
    <2>3. Finished \in Nat
        BY Gg20Assumption DEF Finished
    <2>4. QED
        BY <2>1, <2>2, <2>3 DEF Gg20TypeOK
<1>00. \A i \in Operators : party[i] >= party[i] /\ Len(inbox[i]) <= Len(inbox[i])
    <2>1. \A i \in Operators : party[i] \in Int
        BY <1>0
    <2>2. QED
        BY <1>0, <2>1
<1>1. ASSUME NEW k \in Operators, NEW l \in Peers(k), LinkStep(k, l)
      PROVE  Measure' < Measure
    <2>0. l \in Operators /\ k \in Peers(l) /\ <<l, k>> \in Links
        BY LinkTypes DEF Peers
    <2>1. CASE ReadPayload(k, l) /\ UNCHANGED driverVars
        BY <2>1, MeasureReads
    <2>2. CASE Dispatch(k, l) \/ SendFin(k, l)
        BY <2>2, MeasureSends
    <2>3. CASE ReadFin(k, l) /\ UNCHANGED driverVars
        <3>1. /\ wire[<<l, k>>] # <<>>
              /\ wire' = [wire EXCEPT ![<<l, k>>] = Tail(@)]
              /\ UNCHANGED <<inbox, errs, party, outCh, driver, todo, status>>
            BY <2>3 DEF ReadFin, driverVars
        <3>2. Len(wire'[<<l, k>>]) < Len(wire[<<l, k>>])
            <4>1. Len(Tail(wire[<<l, k>>])) = Len(wire[<<l, k>>]) - 1
                BY <1>0, <2>0, <3>1, HeadTailProperties
            <4>2. wire'[<<l, k>>] = Tail(wire[<<l, k>>])
                BY <1>0, <2>0, <3>1
            <4>3. Len(wire[<<l, k>>]) \in Nat
                BY <1>0, <2>0
            <4>4. QED
                BY <4>1, <4>2, <4>3
        <3>3. \A link \in Links : link # <<l, k>> => wire'[link] = wire[link]
            BY <1>0, <2>0, <3>1
        <3>4. \A i \in Operators : \A j \in Peers(i) :
                 \/ wire'[<<i, j>>] = wire[<<i, j>>]
                 \/ Len(wire'[<<i, j>>]) <= Len(wire[<<i, j>>])
            <4>1. Len(wire'[<<l, k>>]) <= Len(wire[<<l, k>>])
                <5>1. Len(wire'[<<l, k>>]) \in Nat /\ Len(wire[<<l, k>>]) \in Nat
                    BY <2>0, WeightTypesNext DEF WeightsOK, Peers
                <5>2. QED
                    BY <3>2, <5>1
            <4>2. QED
                BY <1>0, <3>3, <4>1
        <3>5. QED
            BY <1>00, <2>0, <3>1, <3>2, <3>4, MeasureShrinks
               DEF OwesFin, MayLose, Running, InSession
    <2>4. CASE ReadError(k, l) /\ UNCHANGED driverVars
        <3>1. /\ l \notin errs[k] /\ ~closed[k]
              /\ errs' = [errs EXCEPT ![k] = @ \cup {l}]
              /\ UNCHANGED <<wire, inbox, party, outCh, driver, todo, status>>
            BY <2>4 DEF ReadError, driverVars
        <3>2. l \in errs'[k] /\ \A i \in Operators : errs[i] \subseteq errs'[i]
            BY <1>0, <2>0, <3>1
        <3>3. MayLose(k, l) /\ ~MayLose(k, l)'
            <4>1. Running(k)
                BY <3>1 DEF RoundInv, Gg20Inv, ProcessInv
            <4>2. QED
                BY <3>1, <3>2, <4>1 DEF MayLose
        <3>4. QED
            BY <1>00, <3>1, <3>2, <3>3, MeasureShrinks
               DEF OwesFin, MayLose, Running, InSession
    <2>5. QED
        BY <1>1, <2>1, <2>2, <2>3, <2>4 DEF LinkStep
<1>2. ASSUME NEW k \in Operators, StartParty(k) \/ Feed(k)
      PROVE  Measure' < Measure
    <2>1. PICK q \in party[k]..Finished : PutsOut(k, q) /\ (StartParty(k) => party[k] = 0 /\ q = 1)
        BY <1>2, PartyPutsOut
    <2>2. /\ party' = [party EXCEPT ![k] = q]
          /\ outCh' = [outCh EXCEPT ![k] = @ \o Emitted(k, party[k], q)]
          /\ UNCHANGED <<driver, status>>
        BY <2>1 DEF PutsOut
    <2>3. UNCHANGED <<wire, errs, todo>>
        BY <1>2 DEF StartParty, Feed, meshVars
    <2>4. \A i \in Operators : \A e \in Carries(outCh'[i]) :
             \/ e.round > party[i]
             \/ \E f \in Carries(outCh[i]) : f.round = e.round /\ e.to \subseteq f.to
        <3>1. /\ Carries(outCh'[k]) = Carries(outCh[k]) \cup Carries(Emitted(k, party[k], q))
              /\ \A i \in Operators \ {k} : outCh'[i] = outCh[i]
            BY <2>2, OutGrows
        <3>2. \A e \in Carries(Emitted(k, party[k], q)) : party[k] < e.round
            BY <1>0, EmittedFacts
        <3>3. \A e \in Carries(Emitted(k, party[k], q)) : e.round > party[k]
            BY <3>2
        <3>4. QED
            BY <3>1, <3>3
    <2>5. \A i \in Operators : party'[i] >= party[i]
        <3>1. party'[k] = q /\ q >= party[k]
            BY <1>0, <2>2
        <3>2. \A i \in Operators \ {k} : party'[i] = party[i]
            BY <1>0, <2>2
        <3>3. QED
            BY <1>00, <3>1, <3>2
    <2>6. CASE StartParty(k)
        <3>1. UNCHANGED inbox
            BY <2>6 DEF StartParty, meshVars
        <3>2. party'[k] # party[k]
            BY <1>0, <2>1, <2>2, <2>6
        <3>3. QED
            BY <1>00, <2>2, <2>3, <2>4, <2>5, <3>1, <3>2, MeasureShrinks
               DEF OwesFin, MayLose, Running, InSession
    <2>7. CASE Feed(k)
        <3>1. inbox[k] # <<>> /\ inbox' = [inbox EXCEPT ![k] = Tail(@)]
            BY <2>7 DEF Feed, Feeding
        <3>2. Len(inbox'[k]) < Len(inbox[k])
            <4>1. Len(Tail(inbox[k])) = Len(inbox[k]) - 1
                BY <1>0, <3>1, HeadTailProperties
            <4>2. QED
                BY <1>0, <3>1, <4>1
        <3>3. \A i \in Operators : Len(inbox'[i]) <= Len(inbox[i])
            <4>1. Len(inbox'[k]) <= Len(inbox[k])
                <5>1. Len(inbox'[k]) \in Nat /\ Len(inbox[k]) \in Nat
                    BY WeightTypesNext DEF WeightsOK
                <5>2. QED
                    BY <3>2, <5>1
            <4>2. \A i \in Operators \ {k} : inbox'[i] = inbox[i]
                BY <1>0, <3>1
            <4>3. QED
                BY <1>00, <4>1, <4>2
        <3>4. QED
            BY <2>2, <2>3, <2>4, <2>5, <3>2, <3>3, MeasureShrinks
               DEF OwesFin, MayLose, Running, InSession
    <2>8. QED
        BY <1>2, <2>6, <2>7
<1>3. ASSUME NEW k \in Operators, GraceBegins(k) \/ TakeResult(k)
      PROVE  Measure' < Measure
    <2>1. /\ driver[k] = "select" /\ driver'[k] \in {"grace", "barrier"}
          /\ \A i \in Operators \ {k} : driver'[i] = driver[i] /\ todo'[i] = todo[i]
          /\ driver'[k] = "barrier" => todo'[k] = Peers(k)
          /\ UNCHANGED <<wire, inbox, errs, party, outCh, status>>
        BY <1>0, <1>3 DEF GraceBegins, TakeResult, Selecting, meshVars
    <2>2. InSession(k) /\ ~InSession(k)' /\ \A i \in Operators : InSession(i)' => InSession(i)
        BY <2>1 DEF InSession
    <2>3. \A i \in Operators : \A j \in Peers(i) : OwesFin(i, j)' => OwesFin(i, j)
        BY <2>1 DEF OwesFin
    <2>4. \A i \in Operators : \A e \in Carries(outCh'[i]) :
             \E f \in Carries(outCh[i]) : f.round = e.round /\ e.to \subseteq f.to
        BY <2>1
    <2>5. /\ \A i \in Operators : party'[i] = party[i] /\ inbox'[i] = inbox[i]
          /\ \A i \in Operators : Running(i)' = Running(i)
          /\ \A i \in Operators : \A j \in Peers(i) : MayLose(i, j)' = MayLose(i, j)
          /\ wire' = wire
        BY <2>1 DEF Running, MayLose
    <2>6. QED
        BY <1>00, <2>2, <2>3, <2>4, <2>5, MeasureShrinks
<1>4. ASSUME NEW k \in Operators, NEW how, NEW why, Ends(k, how, why)
      PROVE  Measure' < Measure
    <2>1. /\ outCh'[k] = <<>> /\ inbox'[k] = <<>> /\ ~Running(k)' /\ Running(k)
          /\ \A i \in Operators \ {k} :
                /\ outCh'[i] = outCh[i] /\ inbox'[i] = inbox[i]
                /\ errs'[i] = errs[i] /\ Running(i)' = Running(i) /\ party'[i] = party[i]
          /\ UNCHANGED driver
          /\ todo' = [todo EXCEPT ![k] = {}]
        BY <1>4, EndsSilent, EndsFacts DEF Ends
    <2>2. party'[k] >= party[k]
        <3>1. CASE UNCHANGED party
            BY <1>00, <3>1
        <3>2. CASE party[k] < 3 /\ party' = [party EXCEPT ![k] = 3]
            BY <1>0, <3>2
        <3>3. QED
            BY <1>4, <3>1, <3>2, EndsVerdict
    <2>3. ASSUME NEW i \in Operators, NEW j \in Peers(i)
          PROVE  \/ wire'[<<i, j>>] = wire[<<i, j>>]
                 \/ Len(wire'[<<i, j>>]) <= Len(wire[<<i, j>>])
        <3> DEFINE link == <<i, j>>
        <3>0. link \in Links /\ wire[link] \in Seq(Frames) /\ Len(wire[link]) \in Nat
            BY <1>0
        <3>1. Teardown(k)
            BY <1>4 DEF Ends, Exit
        <3> HIDE DEF link
        <3>2. \/ wire'[link] = wire[link]
              \/ wire'[link] = <<>>
              \/ \E m \in 0..Len(wire[link]) : wire'[link] = SubSeq(wire[link], 1, m)
            BY <1>0, <3>0, <3>1, TeardownOn
        <3>3. Len(<<>>) = 0
            OBVIOUS
        <3>4. ASSUME NEW m \in 0..Len(wire[link])
              PROVE  Len(SubSeq(wire[link], 1, m)) = m
            <4>1. m \in Int /\ \A n \in 1..m : wire[link][n] \in Frames
                BY <3>0, LenProperties, ElementOfSeq
            <4>2. QED
                BY <3>0, <4>1, SubSeqProperties
        <3>5. wire'[link] = wire[link] \/ Len(wire'[link]) <= Len(wire[link])
            BY <3>0, <3>2, <3>3, <3>4
        <3>6. QED
            BY <3>5 DEF link
    <2>4. \A i \in Operators : party'[i] >= party[i] /\ Len(inbox'[i]) <= Len(inbox[i])
        <3>1. Len(inbox'[k]) <= Len(inbox[k])
            BY <1>0, <2>1
        <3>2. QED
            BY <1>00, <2>1, <2>2, <3>1
    <2>5. \A i \in Operators : todo'[i] \subseteq todo[i]
        BY <1>0, <2>1
    <2>6. \A i \in Operators : \A j \in Peers(i) :
             (OwesFin(i, j)' => OwesFin(i, j)) /\ (MayLose(i, j)' => MayLose(i, j))
        BY <2>1, <2>5 DEF OwesFin, MayLose
    <2>7. \A i \in Operators : \A e \in Carries(outCh'[i]) :
             \E f \in Carries(outCh[i]) : f.round = e.round /\ e.to \subseteq f.to
        BY <2>1, CarriesNothing
    <2>8. \A i \in Operators : (Running(i)' => Running(i)) /\ InSession(i)' = InSession(i)
        BY <2>1 DEF InSession
    <2>9. QED
        BY <2>1, <2>3, <2>4, <2>6, <2>7, <2>8, MeasureShrinks
<1>5. QED
    BY <1>1, <1>2, <1>3, <1>4, Gg20Steps DEF LocalStep

\* However many operators and rounds there are, a session has finitely many
\* steps: each of them, time-outs, grace windows and deaths included, leaves
\* less to do (protocol.go:46-165).  Where nobody stalls, then, a fair session
\* reaches its end.
THEOREM Gg20SessionsAreFinite ==
    ASSUME IsFiniteSet(Operators)
    PROVE  Spec => [](Measure \in Nat) /\ [][Measure' < Measure]_vars
<1>1. RoundInv => Measure \in Nat
    <2> SUFFICES ASSUME Gg20TypeOK PROVE Measure \in Nat
        BY DEF RoundInv, Gg20Inv
    <2>1. Total(LinkWeights) \in Nat /\ Total(OwnWeights) \in Nat
        BY WeightTypes, LinksFinite, TotalType DEF WeightsOK
    <2>2. QED
        BY <2>1 DEF Measure
<1>2. RoundInv /\ RoundInv' /\ OutInv /\ [Next]_vars => [Measure' < Measure]_vars
    BY MeasureNext DEF RoundInv, Gg20Inv
<1>3. RoundInv /\ OutInv /\ [Next]_vars => OutInv'
    BY OutNext
<1>4. Spec => []RoundInv
    BY RoundInvariant
<1>5. QED
    BY <1>1, <1>2, <1>3, <1>4, OutInit, PTL DEF Spec
=============================================================================
