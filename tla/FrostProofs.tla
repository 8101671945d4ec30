---------------------------- MODULE FrostProofs ----------------------------
(***************************************************************************)
(* Proofs about networked FROST sessions of any number of operators: the   *)
(* completion barrier, the causes of aborts, and that a session implements *)
(* SigningSession.                                                         *)
(***************************************************************************)
EXTENDS FrostProperties, MeshProofs, WellFoundedInduction

----------------------------------------------------------------------------
(* The kinds of steps.                                                     *)

\* A process of i that ends, and why.
Ends(i, how, why) ==
    /\ Running(i)
    /\ Exit(i, how, why)
    /\ \/ how = "aborted" /\ why \in {"timeout", "frame"}
       \/ /\ how = "aborted" /\ why = "transport"
          /\ round[i] # 3
          /\ \/ errs[i] # {}
             \/ \E j \in Peers(i) : closed[j]
       \/ how = "crashed" /\ why = "crash"
       \/ how = "done" /\ why = "timeout"
       \/ /\ how = "done" /\ why = "none"
          /\ round[i] = 3 /\ todo[i] = {} /\ fins[i] = Peers(i)

LinkStep(i, j) ==
    \/ Connect(i, j)
    \/ ReadPayload(i, j) /\ UNCHANGED driverVars
    \/ ReadFin(i, j) /\ UNCHANGED driverVars
    \/ ReadError(i, j) /\ UNCHANGED driverVars
    \/ SendRound(i, j)
    \/ SendFin(i, j)

LocalStep(i) ==
    MeshUp(i) \/ TakeFrame(i) \/ EnterRound2(i) \/ Conclude(i) \/ CheaterConcludes(i)

LEMMA FrostSteps ==
    ASSUME Next
    PROVE  \E i \in Operators :
              \/ \E j \in Peers(i) : LinkStep(i, j)
              \/ LocalStep(i)
              \/ \E how, why : Ends(i, how, why)
<1>1. PICK i \in Operators : Transport(i) \/ Step(i) \/ Timer(i) \/ Crash(i)
    BY DEF Next
<1>2. CASE Transport(i)
    BY <1>2 DEF Transport, ReadLoop, LinkStep
<1>3. CASE \E j \in Peers(i) : Connect(i, j) \/ SendRound(i, j) \/ SendFin(i, j)
    BY <1>3 DEF LinkStep
<1>4. CASE MeshUp(i) \/ TakeFrame(i) \/ EnterRound2(i) \/ Conclude(i) \/ CheaterConcludes(i)
    BY <1>4 DEF LocalStep
<1>5. CASE MeshFails(i)
    <2>1. Ends(i, "aborted", "transport")
        BY <1>5 DEF MeshFails, Abort, Ends
    <2>2. QED
        BY <2>1
<1>6. CASE \E j \in Peers(i) : SendFails(i, j)
    <2>1. Ends(i, "aborted", "transport")
        BY <1>6 DEF SendFails, Abort, Ends
    <2>2. QED
        BY <2>1
<1>7. CASE AbortOnError(i)
    <2>1. Ends(i, "aborted", "transport")
        BY <1>7 DEF AbortOnError, Collecting, Waiting, Abort, Ends
    <2>2. QED
        BY <2>1
<1>8. CASE RejectFrame(i)
    <2>1. Ends(i, "aborted", "frame")
        BY <1>8 DEF RejectFrame, Collecting, Waiting, Abort, Ends
    <2>2. QED
        BY <2>1
<1>9. CASE MeshTimesOut(i) \/ RoundTimesOut(i)
    <2>1. Ends(i, "aborted", "timeout")
        BY <1>9 DEF MeshTimesOut, RoundTimesOut, Collecting, Waiting, Abort, Ends
    <2>2. QED
        BY <2>1
<1>10. CASE BarrierTimesOut(i)
    <2>1. Ends(i, "done", "timeout")
        BY <1>10 DEF BarrierTimesOut, InBarrier, Ends
    <2>2. QED
        BY <2>1
<1>11. CASE Leave(i)
    <2>1. Ends(i, "done", "none")
        BY <1>11 DEF Leave, InBarrier, Ends
    <2>2. QED
        BY <2>1
<1>12. CASE Crash(i)
    <2>1. Ends(i, "crashed", "crash")
        BY <1>12 DEF Crash, Ends
    <2>2. QED
        BY <2>1
<1>13. QED
    BY <1>1, <1>2, <1>3, <1>4, <1>5, <1>6, <1>7, <1>8, <1>9, <1>10, <1>11, <1>12
       DEF Step, Send, Timer

----------------------------------------------------------------------------
(* Types.                                                                  *)

LEMMA WireType ==
    ASSUME TypeOK
    PROVE  wire \in [Links -> Seq(Frames)]
BY DEF TypeOK

LEMMA FrameTypes ==
    /\ FinFrame \in Frames
    /\ \A i \in Operators, r \in {1, 2} : RoundFrame(i, r) \in Frames
    /\ RoundTag[1] # RoundTag[2] /\ RoundTag[1] # "Fin" /\ RoundTag[2] # "Fin"
BY DEF FinFrame, RoundFrame, Frames, Tags, RoundTag

\* Whoever comes first exists.
LEMMA FirstIsMember ==
    ASSUME NEW S, S \subseteq Operators, S # {}
    PROVE  First(S) \in S
<1>1. S \subseteq Nat
    BY OperatorAssumption
<1>2. PICK n \in S : \A m \in S : <<m, n>> \notin OpToRel(<, Nat)
    BY <1>1, NatLessThanWellFounded, WFMin
<1>3. \A m \in S : ~(m < n)
    BY <1>1, <1>2, Zenon DEF OpToRel
<1>4. \A m \in S : n <= m
    BY <1>1, <1>3
<1>5. QED
    BY <1>4 DEF First

LEMMA EndsFacts ==
    ASSUME TypeOK, NEW i \in Operators, NEW how, NEW why, Ends(i, how, why)
    PROVE  /\ how \in {"done", "aborted", "crashed"}
           /\ why \in {"none", "crash", "timeout", "frame", "transport"}
           /\ status' = [status EXCEPT ![i] = how]
           /\ cause' = [cause EXCEPT ![i] = why]
           /\ todo' = [todo EXCEPT ![i] = {}]
           /\ got' = [got EXCEPT ![i] = {}]
           /\ closed' = [closed EXCEPT ![i] = TRUE]
           /\ inbox' = [inbox EXCEPT ![i] = <<>>]
           /\ errs' = [errs EXCEPT ![i] = {}]
           /\ fins' = [fins EXCEPT ![i] = {}]
           /\ UNCHANGED <<conns, finished, round, result>>
           /\ wire' \in [Links -> Seq(Frames)]
           /\ \A link \in Links : Carries(wire'[link]) \subseteq Carries(wire[link])
<1>1. Exit(i, how, why)
    BY DEF Ends
<1>2. Teardown(i)
    BY <1>1 DEF Exit
<1>3. /\ wire' \in [Links -> Seq(Frames)]
      /\ \A link \in Links : Carries(wire'[link]) \subseteq Carries(wire[link])
    BY <1>2, WireType, TeardownCuts
<1>4. /\ closed' = [closed EXCEPT ![i] = TRUE]
      /\ inbox' = [inbox EXCEPT ![i] = <<>>]
      /\ errs' = [errs EXCEPT ![i] = {}]
      /\ fins' = [fins EXCEPT ![i] = {}]
      /\ UNCHANGED <<conns, finished>>
    BY <1>2 DEF Teardown
<1>5. /\ how \in {"done", "aborted", "crashed"}
      /\ why \in {"none", "crash", "timeout", "frame", "transport"}
    BY DEF Ends
<1>6. QED
    BY <1>1, <1>3, <1>4, <1>5 DEF Exit

LEMMA FrostInitType == Init => TypeOK
<1> SUFFICES ASSUME Init PROVE TypeOK
    OBVIOUS
<1>2. /\ <<>> \in Seq(Frames) /\ <<>> \in Seq(Envelopes)
      /\ [kind |-> "none"] \in Results
    BY EmptySeq DEF Results
<1>3. /\ conns \in [Operators -> SUBSET Operators]
      /\ wire \in [Links -> Seq(Frames)]
      /\ inbox \in [Operators -> Seq(Envelopes)]
      /\ errs \in [Operators -> SUBSET Operators]
      /\ fins \in [Operators -> SUBSET Operators]
      /\ finished \in [Operators -> BOOLEAN]
      /\ closed \in [Operators -> BOOLEAN]
    BY <1>2 DEF Init, MeshInit
<1>4. QED
    BY <1>2, <1>3 DEF Init, TypeOK

LEMMA EndsType ==
    ASSUME TypeOK, NEW i \in Operators, NEW how, NEW why, Ends(i, how, why)
    PROVE  TypeOK'
<1>1. /\ how \in {"done", "aborted", "crashed"}
      /\ why \in {"none", "crash", "timeout", "frame", "transport"}
      /\ status' = [status EXCEPT ![i] = how]
      /\ cause' = [cause EXCEPT ![i] = why]
      /\ todo' = [todo EXCEPT ![i] = {}]
      /\ got' = [got EXCEPT ![i] = {}]
      /\ closed' = [closed EXCEPT ![i] = TRUE]
      /\ inbox' = [inbox EXCEPT ![i] = <<>>]
      /\ errs' = [errs EXCEPT ![i] = {}]
      /\ fins' = [fins EXCEPT ![i] = {}]
      /\ UNCHANGED <<conns, finished, round, result>>
      /\ wire' \in [Links -> Seq(Frames)]
    BY EndsFacts
<1>2. <<>> \in Seq(Envelopes)
    BY EmptySeq
<1>3. QED
    BY <1>1, <1>2 DEF TypeOK

LEMMA LinkStepType ==
    ASSUME TypeOK, NEW i \in Operators, NEW j \in Peers(i), LinkStep(i, j)
    PROVE  TypeOK'
<1>0. j \in Operators
    BY LinkTypes
<1>1. CASE Connect(i, j)
    BY <1>0, <1>1 DEF Connect, Handshake, driverVars, TypeOK
<1>2. CASE ReadPayload(i, j) /\ UNCHANGED driverVars
    <2>1. /\ wire' \in [Links -> Seq(Frames)]
          /\ Head(wire[<<j, i>>]) \in Frames
        BY <1>2, WireType, ReadType DEF ReadPayload
    <2>2. inbox[i] \in Seq(Envelopes)
        BY DEF TypeOK
    <2>3. [from |-> j, frame |-> Head(wire[<<j, i>>])] \in Envelopes
        BY <1>0, <2>1 DEF Envelopes
    <2>4. Append(inbox[i], [from |-> j, frame |-> Head(wire[<<j, i>>])]) \in Seq(Envelopes)
        BY <2>2, <2>3
    <2>5. inbox' \in [Operators -> Seq(Envelopes)]
        BY <1>2, <2>4 DEF ReadPayload, TypeOK
    <2>6. UNCHANGED <<conns, errs, fins, finished, closed>>
        BY <1>2 DEF ReadPayload
    <2>7. QED
        BY <1>2, <2>1, <2>5, <2>6 DEF driverVars, TypeOK
<1>3. CASE ReadFin(i, j) /\ UNCHANGED driverVars
    <2>1. wire' \in [Links -> Seq(Frames)]
        BY <1>3, WireType, ReadType DEF ReadFin
    <2>2. fins' \in [Operators -> SUBSET Operators]
        BY <1>0, <1>3 DEF ReadFin, TypeOK
    <2>3. UNCHANGED <<conns, inbox, errs, finished, closed>>
        BY <1>3 DEF ReadFin
    <2>4. QED
        BY <1>3, <2>1, <2>2, <2>3 DEF driverVars, TypeOK
<1>4. CASE ReadError(i, j) /\ UNCHANGED driverVars
    BY <1>0, <1>4 DEF ReadError, driverVars, TypeOK
<1>5. CASE SendRound(i, j)
    <2>1. RoundFrame(i, round[i]) \in Frames
        BY <1>5, FrameTypes DEF SendRound
    <2>2. wire' \in [Links -> Seq(Frames)]
        BY <1>5, <2>1, WireType, PushType DEF SendRound
    <2>3. todo' \in [Operators -> SUBSET Operators]
        BY <1>5 DEF SendRound, TypeOK
    <2>4. UNCHANGED <<conns, inbox, errs, fins, finished, closed, round, got, status, cause, result>>
        BY <1>5 DEF SendRound
    <2>5. QED
        BY <2>2, <2>3, <2>4 DEF TypeOK
<1>6. CASE SendFin(i, j)
    <2>1. wire' \in [Links -> Seq(Frames)]
        BY <1>6, FrameTypes, WireType, PushType DEF SendFin
    <2>2. todo' \in [Operators -> SUBSET Operators]
        BY <1>6 DEF SendFin, TypeOK
    <2>3. UNCHANGED <<conns, inbox, errs, fins, finished, closed, round, got, status, cause, result>>
        BY <1>6 DEF SendFin
    <2>4. QED
        BY <2>1, <2>2, <2>3 DEF TypeOK
<1>7. QED
    BY <1>1, <1>2, <1>3, <1>4, <1>5, <1>6 DEF LinkStep

LEMMA VerdictType ==
    ASSUME TypeOK, NEW i \in Operators
    PROVE  Verdict(i, got[i]) \in Results
<1> DEFINE bad == {e.from : e \in {x \in got[i] : ~x.frame.valid}}
<1>1. got[i] \subseteq Envelopes
    BY DEF TypeOK
<1>2. bad \subseteq Operators
    BY <1>1 DEF Envelopes
<1>3. CASE Session = "frost-sign" /\ bad # {}
    <2>1. First(bad) \in bad
        BY <1>2, <1>3, FirstIsMember
    <2>2. Verdict(i, got[i]) = [kind |-> "culprit", operator |-> First(bad)]
        BY <1>3 DEF Verdict
    <2>3. QED
        BY <1>2, <2>1, <2>2 DEF Results
<1>4. CASE Session = "frost-sign" /\ bad = {}
    <2>1. \/ Verdict(i, got[i]) = [kind |-> "signature"]
          \/ Verdict(i, got[i]) = [kind |-> "verified"]
        BY <1>4 DEF Verdict
    <2>2. QED
        BY <2>1 DEF Results
<1>5. CASE Session = "frost-keygen"
    <2>1. Verdict(i, got[i]) = [kind |-> "key"]
        BY <1>5 DEF Verdict
    <2>2. QED
        BY <2>1 DEF Results
<1>6. QED
    BY <1>3, <1>4, <1>5, SessionAssumption

LEMMA LocalStepType ==
    ASSUME TypeOK, NEW i \in Operators, LocalStep(i)
    PROVE  TypeOK'
<1>0. Peers(i) \subseteq Operators
    BY DEF Peers
<1>1. ASSUME NEW r \in 1..3, EnterRound(i, r)
      PROVE  /\ round' \in [Operators -> 0..3]
             /\ todo' \in [Operators -> SUBSET Operators]
             /\ got' \in [Operators -> SUBSET Envelopes]
    BY <1>0, <1>1 DEF EnterRound, TypeOK
<1>2. CASE MeshUp(i)
    <2>1. EnterRound(i, 1) /\ UNCHANGED <<meshVars, status, cause, result>>
        BY <1>2 DEF MeshUp
    <2>2. QED
        BY <1>1, <2>1 DEF meshVars, TypeOK
<1>3. CASE TakeFrame(i)
    <2>1. inbox[i] \in Seq(Envelopes) /\ inbox[i] # <<>>
        BY <1>3 DEF TakeFrame, TypeOK
    <2>2. Tail(inbox[i]) \in Seq(Envelopes) /\ Head(inbox[i]) \in Envelopes
        BY <2>1, HeadTailProperties
    <2>3. inbox' \in [Operators -> Seq(Envelopes)]
        BY <1>3, <2>2 DEF TakeFrame, TypeOK
    <2>4. got' \in [Operators -> SUBSET Envelopes]
        BY <1>3, <2>2 DEF TakeFrame, TypeOK
    <2>5. UNCHANGED <<conns, wire, errs, fins, finished, closed, round, todo, status, cause, result>>
        BY <1>3 DEF TakeFrame
    <2>6. QED
        BY <2>3, <2>4, <2>5 DEF TypeOK
<1>4. CASE EnterRound2(i)
    <2>1. EnterRound(i, 2) /\ UNCHANGED <<meshVars, status, cause, result>>
        BY <1>4 DEF EnterRound2
    <2>2. QED
        BY <1>1, <2>1 DEF meshVars, TypeOK
<1>5. ASSUME EnterFin(i), UNCHANGED <<conns, wire, inbox, errs, fins, closed, status, cause>>,
             result' \in [Operators -> Results]
      PROVE  TypeOK'
    <2>1. EnterRound(i, 3)
        BY <1>5 DEF EnterFin
    <2>2. finished' \in [Operators -> BOOLEAN]
        BY <1>5 DEF EnterFin, TypeOK
    <2>3. QED
        BY <1>1, <1>5, <2>1, <2>2 DEF TypeOK
<1>6. CASE Conclude(i)
    <2>1. result' \in [Operators -> Results]
        BY <1>6, VerdictType DEF Conclude, TypeOK
    <2>2. QED
        BY <1>5, <1>6, <2>1 DEF Conclude
<1>7. CASE CheaterConcludes(i)
    <2>1. result' \in [Operators -> Results]
        BY <1>7 DEF CheaterConcludes, TypeOK
    <2>2. QED
        BY <1>5, <1>7, <2>1 DEF CheaterConcludes
<1>8. QED
    BY <1>2, <1>3, <1>4, <1>6, <1>7 DEF LocalStep

LEMMA FrostNextType ==
    ASSUME TypeOK, [Next]_vars
    PROVE  TypeOK'
<1>1. CASE Next
    <2>1. PICK i \in Operators :
              \/ \E j \in Peers(i) : LinkStep(i, j)
              \/ LocalStep(i)
              \/ \E how, why : Ends(i, how, why)
        BY <1>1, FrostSteps
    <2>2. QED
        BY <2>1, LinkStepType, LocalStepType, EndsType
<1>2. CASE UNCHANGED vars
    BY <1>2 DEF vars, meshVars, driverVars, TypeOK
<1>3. QED
    BY <1>1, <1>2

\* Type correctness of a session: every variable of every operator stays in
\* its type, whoever sends, reads, dies or gives up (frost.go, network.go).
THEOREM FrostTypeCorrect == Spec => []TypeOK
BY FrostInitType, FrostNextType, PTL DEF Spec

----------------------------------------------------------------------------
(* The inductive invariant.  A frame, wherever it is, says how far its     *)
(* sender has come; a result says what the whole session found.            *)

ReachedBy(j, f) ==
    /\ f.tag = RoundTag[1] => round[j] >= 1
    /\ f.tag = RoundTag[2] => round[j] >= 2 /\ (f.valid <=> j \notin Cheaters)
    /\ f.tag = "Fin" => finished[j]

WireInv == \A link \in Links : \A f \in Carries(wire[link]) : ReachedBy(link[1], f)

InboxInv == \A i \in Operators : \A e \in Carries(inbox[i]) : ReachedBy(e.from, e.frame)

GotInv ==
    \A i \in Operators : \A e \in got[i] :
        /\ ReachedBy(e.from, e.frame)
        /\ round[i] \in {1, 2}
        /\ e.frame.tag = RoundTag[round[i]]

ProcessInv ==
    \A i \in Operators :
        /\ closed[i] <=> ~Running(i)
        /\ Running(i) => cause[i] = "none"
        /\ status[i] \in {"aborted", "crashed"} => cause[i] # "none"
        /\ finished[i] <=> round[i] = 3
        /\ \A j \in fins[i] : finished[j]
        /\ \A j \in errs[i] : closed[j]

ResultInv ==
    \A i \in Operators :
        result[i].kind # "none" =>
            /\ i \notin Cheaters
            /\ round[i] = 3
            /\ result[i].kind = "culprit" <=> Cheaters # {}
            /\ result[i].kind = "culprit" => result[i].operator = First(Cheaters)

SessionInv ==
    TypeOK /\ WireInv /\ InboxInv /\ GotInv /\ ProcessInv
        /\ BarrierHolds /\ AbortHasRootCause /\ ResultInv

LEMMA SessionInit == Init => SessionInv
<1> SUFFICES ASSUME Init PROVE SessionInv
    OBVIOUS
<1>1. TypeOK
    BY FrostInitType
<1>2. WireInv /\ InboxInv /\ GotInv
    BY CarriesNothing DEF Init, MeshInit, WireInv, InboxInv, GotInv
<1>3. ASSUME NEW i \in Operators
      PROVE  /\ ~closed[i] /\ ~finished[i] /\ fins[i] = {} /\ errs[i] = {}
             /\ status[i] = "running" /\ cause[i] = "none" /\ round[i] = 0
    BY <1>3 DEF Init, MeshInit
<1>4. ProcessInv
    <2>1. SUFFICES ASSUME NEW i \in Operators
          PROVE  /\ closed[i] <=> ~Running(i)
                 /\ Running(i) => cause[i] = "none"
                 /\ status[i] \in {"aborted", "crashed"} => cause[i] # "none"
                 /\ finished[i] <=> round[i] = 3
                 /\ \A j \in fins[i] : finished[j]
                 /\ \A j \in errs[i] : closed[j]
        BY DEF ProcessInv
    <2>2. ~closed[i] /\ Running(i) /\ status[i] = "running" /\ cause[i] = "none"
        BY <1>3 DEF Running
    <2>3. ~finished[i] /\ round[i] # 3
        BY <1>3
    <2>4. fins[i] = {} /\ errs[i] = {}
        BY <1>3
    <2>5. QED
        BY <2>2, <2>3, <2>4
<1>5. BarrierHolds /\ AbortHasRootCause /\ ResultInv
    BY DEF Init, BarrierHolds, AbortHasRootCause, ResultInv
<1>6. QED
    BY <1>1, <1>2, <1>4, <1>5 DEF SessionInv

\* An operator goes from one round to the next, never back.
LEMMA LocalStepAdvances ==
    ASSUME TypeOK, NEW i \in Operators, LocalStep(i)
    PROVE  /\ \A j \in Operators : round[j] <= round'[j]
           /\ \A j \in Operators : finished[j] => finished'[j]
<1>1. round \in [Operators -> 0..3] /\ finished \in [Operators -> BOOLEAN]
    BY DEF TypeOK
<1>2. CASE MeshUp(i)
    BY <1>1, <1>2 DEF MeshUp, EnterRound, meshVars
<1>3. CASE TakeFrame(i)
    BY <1>1, <1>3 DEF TakeFrame
<1>4. CASE EnterRound2(i)
    BY <1>1, <1>4 DEF EnterRound2, EnterRound, meshVars
<1>5. CASE Conclude(i)
    BY <1>1, <1>5 DEF Conclude, EnterFin, EnterRound
<1>6. CASE CheaterConcludes(i)
    BY <1>1, <1>6 DEF CheaterConcludes, EnterFin, EnterRound
<1>7. QED
    BY <1>2, <1>3, <1>4, <1>5, <1>6 DEF LocalStep

LEMMA LinkStepFrame ==
    ASSUME NEW i \in Operators, NEW j \in Peers(i), LinkStep(i, j)
    PROVE  /\ UNCHANGED <<round, got, status, cause, result, finished, closed>>
           /\ UNCHANGED inbox \/ ReadPayload(i, j)
           /\ UNCHANGED fins \/ ReadFin(i, j)
           /\ UNCHANGED errs \/ ReadError(i, j)
BY DEF LinkStep, Connect, Handshake, ReadPayload, ReadFin, ReadError, SendRound, SendFin, driverVars

LEMMA ReachedStays ==
    ASSUME TypeOK, TypeOK', NEW j \in Operators, NEW f, ReachedBy(j, f),
           round[j] <= round'[j], finished[j] => finished'[j]
    PROVE  ReachedBy(j, f)'
<1>1. round[j] \in 0..3 /\ round'[j] \in 0..3
    BY DEF TypeOK
<1>2. QED
    BY <1>1 DEF ReachedBy

LEMMA ReachedNext ==
    ASSUME TypeOK, TypeOK', Next, NEW j \in Operators, NEW f, ReachedBy(j, f)
    PROVE  ReachedBy(j, f)'
<1>1. PICK i \in Operators :
          \/ \E k \in Peers(i) : LinkStep(i, k)
          \/ LocalStep(i)
          \/ \E how, why : Ends(i, how, why)
    BY FrostSteps
<1>2. CASE LocalStep(i)
    BY <1>2, LocalStepAdvances, ReachedStays
<1>3. CASE (\E k \in Peers(i) : LinkStep(i, k)) \/ (\E how, why : Ends(i, how, why))
    <2>1. UNCHANGED <<round, finished>>
        BY <1>3, LinkStepFrame, EndsFacts
    <2>2. round[j] \in 0..3
        BY DEF TypeOK
    <2>3. QED
        BY <2>1, <2>2, ReachedStays
<1>4. QED
    BY <1>1, <1>2, <1>3

\* A frame on the wire.
LEMMA WireNext ==
    ASSUME SessionInv, TypeOK', Next
    PROVE  WireInv'
<1> USE DEF SessionInv
<1>1. PICK i \in Operators :
          \/ \E j \in Peers(i) : LinkStep(i, j)
          \/ LocalStep(i)
          \/ \E how, why : Ends(i, how, why)
    BY FrostSteps
<1>2. SUFFICES ASSUME NEW link \in Links, NEW f \in Carries(wire'[link])
      PROVE  ReachedBy(link[1], f)'
    BY DEF WireInv
<1>3. link[1] \in Operators
    BY LinkTypes
<1>4. CASE f \in Carries(wire[link])
    <2>1. ReachedBy(link[1], f)
        BY <1>4 DEF WireInv
    <2>2. QED
        BY <1>3, <2>1, ReachedNext
<1>5. ASSUME NEW j \in Peers(i), NEW g \in Frames, Push(i, j, g), ReachedBy(i, g)
      PROVE  ReachedBy(link[1], f)'
    <2>1. f \in Carries(wire[link]) \/ (link = <<i, j>> /\ f = g)
        BY <1>5, WireType, PushType
    <2>2. CASE link = <<i, j>> /\ f = g
        <3>1. ReachedBy(link[1], f)
            BY <1>5, <2>2
        <3>2. QED
            BY <1>3, <3>1, ReachedNext
    <2>3. QED
        BY <1>4, <2>1, <2>2
<1>6. ASSUME NEW j \in Peers(i), LinkStep(i, j)
      PROVE  ReachedBy(link[1], f)'
    <2>1. CASE Connect(i, j) \/ ReadError(i, j)
        BY <1>4, <2>1 DEF Connect, Handshake, ReadError
    <2>2. CASE ReadPayload(i, j)
        BY <1>4, <2>2, WireType, ReadType DEF ReadPayload
    <2>3. CASE ReadFin(i, j)
        BY <1>4, <2>3, WireType, ReadType DEF ReadFin
    <2>4. CASE SendRound(i, j)
        <3>1. Push(i, j, RoundFrame(i, round[i])) /\ round[i] \in {1, 2}
            BY <2>4 DEF SendRound
        <3>2. RoundFrame(i, round[i]) \in Frames
            BY <3>1, FrameTypes
        <3>3. ReachedBy(i, RoundFrame(i, round[i]))
            <4>1. CASE round[i] = 1
                <5>1. RoundFrame(i, round[i]).tag = RoundTag[1]
                    BY <4>1 DEF RoundFrame
                <5>2. QED
                    BY <4>1, <5>1, FrameTypes DEF ReachedBy
            <4>2. CASE round[i] = 2
                <5>1. RoundFrame(i, round[i]).tag = RoundTag[2]
                    BY <4>2 DEF RoundFrame
                <5>2. RoundFrame(i, round[i]).valid <=> i \notin Cheaters
                    <6>1. RoundFrame(i, round[i]).valid = (round[i] = 1 \/ i \notin Cheaters)
                        BY Zenon DEF RoundFrame
                    <6>2. round[i] # 1
                        BY <4>2
                    <6>3. QED
                        BY <6>1, <6>2, Zenon
                <5>3. QED
                    BY <4>2, <5>1, <5>2, FrameTypes DEF ReachedBy
            <4>3. QED
                BY <3>1, <4>1, <4>2
        <3>4. QED
            BY <1>5, <3>1, <3>2, <3>3
    <2>5. CASE SendFin(i, j)
        <3>1. Push(i, j, FinFrame) /\ round[i] = 3
            BY <2>5 DEF SendFin
        <3>2. ReachedBy(i, FinFrame)
            BY <3>1, FrameTypes DEF ReachedBy, FinFrame, ProcessInv
        <3>3. QED
            BY <1>5, <3>1, <3>2, FrameTypes
    <2>6. QED
        BY <1>6, <2>1, <2>2, <2>3, <2>4, <2>5 DEF LinkStep
<1>7. CASE LocalStep(i)
    <2>1. UNCHANGED wire
        BY <1>7 DEF LocalStep, MeshUp, TakeFrame, EnterRound2, Conclude, CheaterConcludes, meshVars
    <2>2. QED
        BY <1>4, <2>1
<1>8. ASSUME NEW how, NEW why, Ends(i, how, why)
      PROVE  ReachedBy(link[1], f)'
    BY <1>4, <1>8, EndsFacts
<1>9. QED
    BY <1>1, <1>6, <1>7, <1>8

\* An envelope in an inbox.
LEMMA InboxNext ==
    ASSUME SessionInv, TypeOK', Next
    PROVE  InboxInv'
<1> USE DEF SessionInv
<1>1. PICK i \in Operators :
          \/ \E j \in Peers(i) : LinkStep(i, j)
          \/ LocalStep(i)
          \/ \E how, why : Ends(i, how, why)
    BY FrostSteps
<1>2. SUFFICES ASSUME NEW k \in Operators, NEW e \in Carries(inbox'[k])
      PROVE  ReachedBy(e.from, e.frame)'
    BY DEF InboxInv
<1>3. inbox \in [Operators -> Seq(Envelopes)] /\ inbox' \in [Operators -> Seq(Envelopes)]
    BY DEF TypeOK
<1>4. CASE e \in Carries(inbox[k])
    <2>1. e \in Envelopes
        BY <1>3, <1>4, CarriesType
    <2>2. e.from \in Operators
        BY <2>1 DEF Envelopes
    <2>3. ReachedBy(e.from, e.frame)
        BY <1>4 DEF InboxInv
    <2>4. QED
        BY <2>2, <2>3, ReachedNext
<1>5. ASSUME NEW j \in Peers(i), ReadPayload(i, j)
      PROVE  ReachedBy(e.from, e.frame)'
    <2> DEFINE new == [from |-> j, frame |-> Head(wire[<<j, i>>])]
    <2>1. /\ Head(wire[<<j, i>>]) \in Carries(wire[<<j, i>>])
          /\ Head(wire[<<j, i>>]) \in Frames
        BY <1>5, WireType, ReadType DEF ReadPayload
    <2>2. j \in Operators /\ <<j, i>> \in Links /\ <<j, i>>[1] = j
        BY LinkTypes
    <2>3. ReachedBy(j, Head(wire[<<j, i>>]))
        BY <2>1, <2>2 DEF WireInv
    <2>4. new \in Envelopes
        BY <2>1, <2>2 DEF Envelopes
    <2>5. inbox' = [inbox EXCEPT ![i] = Append(@, new)]
        BY <1>5 DEF ReadPayload
    <2>6. Carries(Append(inbox[i], new)) = Carries(inbox[i]) \cup {new}
        BY <1>3, <2>4, CarriesAppend
    <2>7. e \in Carries(inbox[k]) \/ e = new
        BY <1>3, <2>5, <2>6
    <2>8. CASE e = new
        <3>1. e.from = j /\ ReachedBy(e.from, e.frame)
            BY <2>3, <2>8
        <3>2. QED
            BY <2>2, <3>1, ReachedNext
    <2>9. QED
        BY <1>4, <2>7, <2>8
<1>6. CASE TakeFrame(i)
    <2>1. inbox' = [inbox EXCEPT ![i] = Tail(@)] /\ inbox[i] # <<>>
        BY <1>6 DEF TakeFrame
    <2>2. Carries(Tail(inbox[i])) \subseteq Carries(inbox[i])
        BY <1>3, <2>1, CarriesTail
    <2>3. e \in Carries(inbox[k])
        BY <1>3, <2>1, <2>2
    <2>4. QED
        BY <1>4, <2>3
<1>7. CASE LocalStep(i) /\ ~TakeFrame(i)
    <2>1. UNCHANGED inbox
        BY <1>7 DEF LocalStep, MeshUp, EnterRound2, Conclude, CheaterConcludes, meshVars
    <2>2. QED
        BY <1>4, <2>1
<1>8. ASSUME NEW how, NEW why, Ends(i, how, why)
      PROVE  ReachedBy(e.from, e.frame)'
    <2>1. inbox' = [inbox EXCEPT ![i] = <<>>]
        BY <1>8, EndsFacts
    <2>2. e \in Carries(inbox[k])
        BY <1>3, <2>1, CarriesNothing
    <2>3. QED
        BY <1>4, <2>2
<1>9. ASSUME NEW j \in Peers(i), LinkStep(i, j)
      PROVE  ReachedBy(e.from, e.frame)'
    <2>1. UNCHANGED inbox \/ ReadPayload(i, j)
        BY <1>9, LinkStepFrame
    <2>2. QED
        BY <1>4, <1>5, <2>1
<1>10. QED
    BY <1>1, <1>6, <1>7, <1>8, <1>9

\* A frame collected in a round.
LEMMA GotNext ==
    ASSUME SessionInv, TypeOK', Next
    PROVE  GotInv'
<1> USE DEF SessionInv
<1>1. PICK i \in Operators :
          \/ \E j \in Peers(i) : LinkStep(i, j)
          \/ LocalStep(i)
          \/ \E how, why : Ends(i, how, why)
    BY FrostSteps
<1>2. SUFFICES ASSUME NEW k \in Operators, NEW e \in got'[k]
      PROVE  /\ ReachedBy(e.from, e.frame)'
             /\ round'[k] \in {1, 2}
             /\ e.frame.tag = RoundTag[round'[k]]
    BY DEF GotInv
<1>3. /\ got \in [Operators -> SUBSET Envelopes] /\ got' \in [Operators -> SUBSET Envelopes]
      /\ round \in [Operators -> 0..3]
      /\ inbox \in [Operators -> Seq(Envelopes)]
    BY DEF TypeOK
<1>4. e.from \in Operators
    BY <1>3 DEF Envelopes
<1>5. CASE e \in got[k] /\ round'[k] = round[k]
    <2>1. /\ ReachedBy(e.from, e.frame)
          /\ round[k] \in {1, 2}
          /\ e.frame.tag = RoundTag[round[k]]
        BY <1>5 DEF GotInv
    <2>2. QED
        BY <1>4, <1>5, <2>1, ReachedNext
<1>6. CASE TakeFrame(i)
    <2>1. /\ got' = [got EXCEPT ![i] = @ \cup {Head(inbox[i])}]
          /\ UNCHANGED round
          /\ inbox[i] # <<>>
          /\ round[i] \in {1, 2}
          /\ Head(inbox[i]).frame.tag = RoundTag[round[i]]
        BY <1>6 DEF TakeFrame, Collecting, Waiting, Expected
    <2>2. CASE k = i /\ e = Head(inbox[i])
        <3>1. e \in Carries(inbox[i])
            BY <1>3, <2>1, <2>2, CarriesTail
        <3>2. ReachedBy(e.from, e.frame)
            BY <3>1 DEF InboxInv
        <3>3. QED
            BY <1>4, <2>1, <2>2, <3>2, ReachedNext
    <2>3. CASE e \in got[k]
        BY <1>5, <2>1, <2>3
    <2>4. QED
        BY <1>3, <2>1, <2>2, <2>3
<1>7. ASSUME NEW r, EnterRound(i, r)
      PROVE  e \in got[k] /\ round'[k] = round[k]
    BY <1>3, <1>7 DEF EnterRound
<1>8. CASE LocalStep(i) /\ ~TakeFrame(i)
    <2>1. \E r : EnterRound(i, r)
        BY <1>8 DEF LocalStep, MeshUp, EnterRound2, Conclude, CheaterConcludes, EnterFin
    <2>2. QED
        BY <1>5, <1>7, <2>1
<1>9. ASSUME NEW how, NEW why, Ends(i, how, why)
      PROVE  e \in got[k] /\ round'[k] = round[k]
    BY <1>3, <1>9, EndsFacts
<1>10. ASSUME NEW j \in Peers(i), LinkStep(i, j)
       PROVE  e \in got[k] /\ round'[k] = round[k]
    BY <1>3, <1>10, LinkStepFrame
<1>11. QED
    BY <1>1, <1>5, <1>6, <1>8, <1>9, <1>10

\* How a process is doing, and what it knows of the others'.
LEMMA ProcessNext ==
    ASSUME SessionInv, TypeOK', Next
    PROVE  ProcessInv'
<1> USE DEF SessionInv
<1>1. PICK i \in Operators :
          \/ \E j \in Peers(i) : LinkStep(i, j)
          \/ LocalStep(i)
          \/ \E how, why : Ends(i, how, why)
    BY FrostSteps
<1>2. SUFFICES ASSUME NEW k \in Operators
      PROVE  /\ closed'[k] <=> ~Running(k)'
             /\ Running(k)' => cause'[k] = "none"
             /\ status'[k] \in {"aborted", "crashed"} => cause'[k] # "none"
             /\ finished'[k] <=> round'[k] = 3
             /\ \A j \in fins'[k] : finished'[j]
             /\ \A j \in errs'[k] : closed'[j]
    BY DEF ProcessInv
<1>3. /\ closed[k] <=> ~Running(k)
      /\ Running(k) => cause[k] = "none"
      /\ status[k] \in {"aborted", "crashed"} => cause[k] # "none"
      /\ finished[k] <=> round[k] = 3
      /\ \A j \in fins[k] : finished[j]
      /\ \A j \in errs[k] : closed[j]
    BY DEF ProcessInv
<1>4. TypeOK
    OBVIOUS
<1>5. ASSUME NEW j \in Peers(i), LinkStep(i, j)
      PROVE  /\ closed'[k] <=> ~Running(k)'
             /\ Running(k)' => cause'[k] = "none"
             /\ status'[k] \in {"aborted", "crashed"} => cause'[k] # "none"
             /\ finished'[k] <=> round'[k] = 3
             /\ \A l \in fins'[k] : finished'[l]
             /\ \A l \in errs'[k] : closed'[l]
    <2>1. UNCHANGED <<round, status, cause, finished, closed>>
        BY <1>5, LinkStepFrame
    <2>2. \A l \in fins'[k] : finished[l]
        <3>1. CASE UNCHANGED fins
            BY <1>3, <3>1
        <3>2. CASE ReadFin(i, j)
            <4>1. /\ wire[<<j, i>>] # <<>> /\ Head(wire[<<j, i>>]).tag = "Fin"
                  /\ wire' = [wire EXCEPT ![<<j, i>>] = Tail(@)]
                  /\ fins' = [fins EXCEPT ![i] = @ \cup {j}]
                BY <3>2 DEF ReadFin
            <4>2. Head(wire[<<j, i>>]) \in Carries(wire[<<j, i>>])
                BY <1>4, <4>1, WireType, ReadType
            <4>3. j \in Operators /\ <<j, i>> \in Links /\ <<j, i>>[1] = j
                BY LinkTypes
            <4>4. ReachedBy(j, Head(wire[<<j, i>>]))
                BY <4>2, <4>3 DEF WireInv
            <4>5. finished[j]
                BY <4>1, <4>4 DEF ReachedBy
            <4>6. fins \in [Operators -> SUBSET Operators]
                BY <1>4 DEF TypeOK
            <4>7. QED
                BY <1>3, <4>1, <4>5, <4>6
        <3>3. QED
            BY <1>5, <3>1, <3>2, LinkStepFrame
    <2>3. \A l \in errs'[k] : closed[l]
        <3>1. CASE UNCHANGED errs
            BY <1>3, <3>1
        <3>2. CASE ReadError(i, j)
            <4>1. closed[j] /\ errs' = [errs EXCEPT ![i] = @ \cup {j}]
                BY <3>2 DEF ReadError
            <4>2. errs \in [Operators -> SUBSET Operators]
                BY <1>4 DEF TypeOK
            <4>3. QED
                BY <1>3, <4>1, <4>2
        <3>3. QED
            BY <1>5, <3>1, <3>2, LinkStepFrame
    <2>4. QED
        BY <1>3, <2>1, <2>2, <2>3 DEF Running
<1>6. CASE LocalStep(i)
    <2>1. UNCHANGED <<status, cause, closed, fins, errs>>
        BY <1>6 DEF LocalStep, MeshUp, TakeFrame, EnterRound2, Conclude, CheaterConcludes, meshVars
    <2>2. \A j \in Operators : finished[j] => finished'[j]
        BY <1>4, <1>6, LocalStepAdvances
    <2>3. finished'[k] <=> round'[k] = 3
        <3>1. round \in [Operators -> 0..3] /\ finished \in [Operators -> BOOLEAN]
            BY <1>4 DEF TypeOK
        <3>2. CASE TakeFrame(i)
            BY <1>3, <3>2 DEF TakeFrame
        <3>3. CASE MeshUp(i) \/ EnterRound2(i)
            <4>1. UNCHANGED finished /\ round[i] # 3 /\ \E r \in {1, 2} : EnterRound(i, r)
                BY <3>3 DEF MeshUp, EnterRound2, meshVars
            <4>2. ~finished[i]
                BY <4>1 DEF ProcessInv
            <4>3. QED
                BY <1>3, <3>1, <4>1, <4>2 DEF EnterRound
        <3>4. CASE Conclude(i) \/ CheaterConcludes(i)
            <4>1. EnterFin(i)
                BY <3>4 DEF Conclude, CheaterConcludes
            <4>2. QED
                BY <1>3, <3>1, <4>1 DEF EnterFin, EnterRound
        <3>5. QED
            BY <1>6, <3>2, <3>3, <3>4 DEF LocalStep
    <2>4. fins[k] \subseteq Operators
        BY <1>4 DEF TypeOK
    <2>5. QED
        BY <1>3, <2>1, <2>2, <2>3, <2>4 DEF Running
<1>7. ASSUME NEW how, NEW why, Ends(i, how, why)
      PROVE  /\ closed'[k] <=> ~Running(k)'
             /\ Running(k)' => cause'[k] = "none"
             /\ status'[k] \in {"aborted", "crashed"} => cause'[k] # "none"
             /\ finished'[k] <=> round'[k] = 3
             /\ \A j \in fins'[k] : finished'[j]
             /\ \A j \in errs'[k] : closed'[j]
    <2>1. /\ status' = [status EXCEPT ![i] = how]
          /\ cause' = [cause EXCEPT ![i] = why]
          /\ closed' = [closed EXCEPT ![i] = TRUE]
          /\ errs' = [errs EXCEPT ![i] = {}]
          /\ fins' = [fins EXCEPT ![i] = {}]
          /\ UNCHANGED <<finished, round>>
          /\ how \in {"done", "aborted", "crashed"}
        BY <1>4, <1>7, EndsFacts
    <2>2. how \in {"aborted", "crashed"} => why # "none"
        BY <1>7 DEF Ends
    <2>3. /\ status \in [Operators -> {"running", "done", "aborted", "crashed"}]
          /\ cause \in [Operators -> {"none", "crash", "timeout", "frame", "transport"}]
          /\ closed \in [Operators -> BOOLEAN]
          /\ errs \in [Operators -> SUBSET Operators]
          /\ fins \in [Operators -> SUBSET Operators]
        BY <1>4 DEF TypeOK
    <2>4. \A j \in errs'[k] : closed'[j]
        BY <1>3, <2>1, <2>3
    <2>5. \A j \in fins'[k] : finished'[j]
        BY <1>3, <2>1, <2>3
    <2>6. finished'[k] <=> round'[k] = 3
        BY <1>3, <2>1
    <2>7. CASE k = i
        <3>1. closed'[k] /\ status'[k] = how /\ cause'[k] = why
            BY <2>1, <2>3, <2>7
        <3>2. ~Running(k)'
            BY <2>1, <3>1 DEF Running
        <3>3. QED
            BY <2>1, <2>2, <2>4, <2>5, <2>6, <3>1, <3>2
    <2>8. CASE k # i
        <3>1. closed'[k] = closed[k] /\ status'[k] = status[k] /\ cause'[k] = cause[k]
            BY <2>1, <2>3, <2>8
        <3>2. Running(k)' <=> Running(k)
            BY <3>1 DEF Running
        <3>3. QED
            BY <1>3, <2>4, <2>5, <2>6, <3>1, <3>2
    <2>9. QED
        BY <2>7, <2>8
<1>8. QED
    BY <1>1, <1>5, <1>6, <1>7

\* The barrier: an operator that leaves through it has heard of every other
\* one that it is finished.
LEMMA BarrierNext ==
    ASSUME SessionInv, TypeOK', Next
    PROVE  BarrierHolds'
<1> USE DEF SessionInv
<1>1. PICK i \in Operators :
          \/ \E j \in Peers(i) : LinkStep(i, j)
          \/ LocalStep(i)
          \/ \E how, why : Ends(i, how, why)
    BY FrostSteps
<1>2. SUFFICES ASSUME NEW k \in Operators, NEW j \in Operators,
                      status'[k] = "done", cause'[k] = "none"
      PROVE  finished'[j]
    BY DEF BarrierHolds
<1>3. TypeOK
    OBVIOUS
<1>4. finished[j] => finished'[j]
    BY <1>1, <1>3, LinkStepFrame, LocalStepAdvances, EndsFacts
<1>5. CASE status[k] = "done" /\ cause[k] = "none"
    BY <1>4, <1>5 DEF BarrierHolds
<1>6. CASE \E l \in Peers(i) : LinkStep(i, l)
    BY <1>2, <1>5, <1>6, LinkStepFrame
<1>7. CASE LocalStep(i)
    <2>1. UNCHANGED <<status, cause>>
        BY <1>7 DEF LocalStep, MeshUp, TakeFrame, EnterRound2, Conclude, CheaterConcludes
    <2>2. QED
        BY <1>2, <1>5, <2>1
<1>8. ASSUME NEW how, NEW why, Ends(i, how, why)
      PROVE  finished'[j]
    <2>1. /\ status' = [status EXCEPT ![i] = how]
          /\ cause' = [cause EXCEPT ![i] = why]
        BY <1>3, <1>8, EndsFacts
    <2>2. CASE k = i
        <3>1. how = "done" /\ why = "none"
            BY <1>2, <1>3, <2>1, <2>2 DEF TypeOK
        <3>2. round[i] = 3 /\ fins[i] = Peers(i)
            BY <1>8, <3>1 DEF Ends
        <3>3. finished[i] /\ \A l \in Peers(i) : finished[l]
            BY <3>2 DEF ProcessInv
        <3>4. finished[j]
            BY <3>3 DEF Peers
        <3>5. QED
            BY <1>4, <3>4
    <2>3. CASE k # i
        BY <1>2, <1>3, <1>5, <2>1, <2>3 DEF TypeOK
    <2>4. QED
        BY <2>2, <2>3
<1>9. QED
    BY <1>1, <1>6, <1>7, <1>8

\* Whoever has closed its connections while i has no result yet did not leave
\* through the barrier.
LEMMA ClosedHasCause ==
    ASSUME SessionInv, NEW i \in Operators, round[i] # 3, NEW j \in Operators, closed[j]
    PROVE  cause[j] # "none"
<1> USE DEF SessionInv
<1>1. ~finished[i] /\ ~Running(j)
    BY DEF ProcessInv
<1>2. status[j] # "done" \/ cause[j] # "none"
    BY <1>1 DEF BarrierHolds
<1>3. status[j] \in {"done", "aborted", "crashed"}
    BY <1>1 DEF TypeOK, Running
<1>4. QED
    BY <1>2, <1>3 DEF ProcessInv

LEMMA RootCauseNext ==
    ASSUME SessionInv, TypeOK', Next
    PROVE  AbortHasRootCause'
<1> USE DEF SessionInv
<1> DEFINE root == {"crash", "timeout", "frame"}
<1>1. PICK i \in Operators :
          \/ \E j \in Peers(i) : LinkStep(i, j)
          \/ LocalStep(i)
          \/ \E how, why : Ends(i, how, why)
    BY FrostSteps
<1>2. TypeOK
    OBVIOUS
<1>3. CASE \E l \in Peers(i) : LinkStep(i, l)
    <2>1. UNCHANGED cause
        BY <1>3, LinkStepFrame
    <2>2. QED
        BY <2>1 DEF AbortHasRootCause
<1>4. CASE LocalStep(i)
    <2>1. UNCHANGED cause
        BY <1>4 DEF LocalStep, MeshUp, TakeFrame, EnterRound2, Conclude, CheaterConcludes
    <2>2. QED
        BY <2>1 DEF AbortHasRootCause
<1>5. ASSUME NEW how, NEW why, Ends(i, how, why)
      PROVE  AbortHasRootCause'
    <2>1. /\ cause' = [cause EXCEPT ![i] = why]
          /\ cause \in [Operators -> {"none", "crash", "timeout", "frame", "transport"}]
          /\ why \in {"none", "crash", "timeout", "frame", "transport"}
        BY <1>2, <1>5, EndsFacts DEF TypeOK
    <2>2. cause[i] = "none"
        BY <1>5 DEF Ends, ProcessInv
    <2>3. ASSUME NEW j \in Operators, cause[j] \in root
          PROVE  cause'[j] \in root
        BY <2>1, <2>2, <2>3
    <2>4. CASE why \in root
        <3>1. cause'[i] \in root
            BY <2>1, <2>4
        <3>2. QED
            BY <3>1 DEF AbortHasRootCause
    <2>5. CASE why = "none"
        <3>1. cause' = cause
            BY <2>1, <2>2, <2>5
        <3>2. QED
            BY <3>1 DEF AbortHasRootCause
    <2>6. CASE why = "transport"
        <3>1. round[i] # 3 /\ (errs[i] # {} \/ \E j \in Peers(i) : closed[j])
            BY <1>5, <2>6 DEF Ends
        <3>2. errs[i] \subseteq Operators
            BY <1>2 DEF TypeOK
        <3>3. \A j \in errs[i] : closed[j]
            BY DEF ProcessInv
        <3>4. PICK j \in Operators : closed[j]
            BY <3>1, <3>2, <3>3, LinkTypes
        <3>5. cause[j] # "none"
            BY <3>1, <3>4, ClosedHasCause
        <3>6. cause[j] \in root \/ cause[j] = "transport"
            BY <2>1, <3>5
        <3>7. \E l \in Operators : cause[l] \in root
            BY <3>6 DEF AbortHasRootCause
        <3>8. \E l \in Operators : cause'[l] \in root
            BY <2>3, <3>7
        <3>9. QED
            BY <3>8 DEF AbortHasRootCause
    <2>7. QED
        BY <2>1, <2>4, <2>5, <2>6
<1>6. QED
    BY <1>1, <1>3, <1>4, <1>5

\* Whoever concludes has a share of everybody, and the bad ones are the
\* cheaters'.
LEMMA ConcludeBlames ==
    ASSUME SessionInv, NEW i \in Operators, Conclude(i)
    PROVE  /\ i \notin Cheaters
           /\ round[i] = 2
           /\ \A j \in Operators : round[j] >= 2
           /\ Verdict(i, got[i]).kind # "none"
           /\ Verdict(i, got[i]).kind = "culprit" <=> Cheaters # {}
           /\ Verdict(i, got[i]).kind = "culprit" =>
                 Verdict(i, got[i]).operator = First(Cheaters)
<1> USE DEF SessionInv
<1> DEFINE bad == {e.from : e \in {x \in got[i] : ~x.frame.valid}}
<1>1. i \notin Cheaters /\ round[i] = 2 /\ Collected(i) = Peers(i)
    BY DEF Conclude, HasAll, Waiting
<1>2. ASSUME NEW e \in got[i]
      PROVE  round[e.from] >= 2 /\ (e.frame.valid <=> e.from \notin Cheaters)
    <2>1. e.frame.tag = RoundTag[2] /\ ReachedBy(e.from, e.frame)
        BY <1>1 DEF GotInv
    <2>2. QED
        BY <2>1 DEF ReachedBy
<1>3. ASSUME NEW j \in Peers(i)
      PROVE  \E e \in got[i] : e.from = j
    BY <1>1 DEF Collected
<1>4. \A j \in Operators : round[j] >= 2
    <2>1. SUFFICES ASSUME NEW j \in Operators PROVE round[j] >= 2
        OBVIOUS
    <2>2. CASE j = i
        BY <1>1, <2>2
    <2>3. CASE j \in Peers(i)
        BY <1>2, <1>3, <2>3
    <2>4. QED
        BY <2>2, <2>3 DEF Peers
<1>5. bad = Cheaters
    <2>1. ASSUME NEW c \in bad PROVE c \in Cheaters
        BY <1>2
    <2>2. ASSUME NEW c \in Cheaters PROVE c \in bad
        <3>1. c \in Peers(i)
            BY <1>1, SessionAssumption DEF Peers
        <3>2. PICK e \in got[i] : e.from = c
            BY <1>3, <3>1
        <3>3. ~e.frame.valid
            BY <1>2, <3>2
        <3>4. QED
            BY <3>2, <3>3
    <2>3. QED
        BY <2>1, <2>2
<1>6. CASE Cheaters # {}
    <2>1. Session = "frost-sign"
        BY <1>6, SessionAssumption
    <2>2. Verdict(i, got[i]) = [kind |-> "culprit", operator |-> First(Cheaters)]
        BY <1>5, <1>6, <2>1 DEF Verdict
    <2>3. QED
        BY <1>1, <1>4, <1>6, <2>2
<1>7. CASE Cheaters = {}
    <2>1. Verdict(i, got[i]).kind \in {"key", "signature", "verified"}
        BY <1>5, <1>7, SessionAssumption DEF Verdict
    <2>2. QED
        BY <1>1, <1>4, <1>7, <2>1
<1>8. QED
    BY <1>6, <1>7

\* Where the results do not change, the rounds only go on.
LEMMA NoResult ==
    ASSUME TypeOK, NEW i \in Operators,
           \/ \E j \in Peers(i) : LinkStep(i, j)
           \/ LocalStep(i) /\ ~Conclude(i)
           \/ \E how, why : Ends(i, how, why)
    PROVE  UNCHANGED result
<1>1. CASE LocalStep(i) /\ ~Conclude(i)
    BY <1>1 DEF LocalStep, MeshUp, TakeFrame, EnterRound2, CheaterConcludes
<1>2. QED
    BY <1>1, LinkStepFrame, EndsFacts

LEMMA ResultNext ==
    ASSUME SessionInv, TypeOK', Next
    PROVE  ResultInv'
<1> USE DEF SessionInv
<1>1. PICK i \in Operators :
          \/ \E j \in Peers(i) : LinkStep(i, j)
          \/ LocalStep(i)
          \/ \E how, why : Ends(i, how, why)
    BY FrostSteps
<1>2. SUFFICES ASSUME NEW k \in Operators, result'[k].kind # "none"
      PROVE  /\ k \notin Cheaters
             /\ round'[k] = 3
             /\ result'[k].kind = "culprit" <=> Cheaters # {}
             /\ result'[k].kind = "culprit" => result'[k].operator = First(Cheaters)
    BY DEF ResultInv
<1>3. TypeOK
    OBVIOUS
<1>4. CASE result'[k] = result[k]
    <2>1. round[k] = 3
        BY <1>2, <1>4 DEF ResultInv
    <2>2. finished'[k]
        <3>1. finished[k]
            BY <2>1 DEF ProcessInv
        <3>2. QED
            BY <1>1, <1>3, <3>1, LinkStepFrame, LocalStepAdvances, EndsFacts
    <2>3. ProcessInv'
        BY ProcessNext
    <2>4. round'[k] = 3
        BY <2>2, <2>3 DEF ProcessInv
    <2>5. QED
        BY <1>2, <1>4, <2>4 DEF ResultInv
<1>5. CASE Conclude(i)
    <2>1. result' = [result EXCEPT ![i] = Verdict(i, got[i])]
        BY <1>5 DEF Conclude
    <2>2. round' = [round EXCEPT ![i] = 3]
        BY <1>5 DEF Conclude, EnterFin, EnterRound
    <2>3. CASE k = i
        <3>1. result'[k] = Verdict(i, got[i]) /\ round'[k] = 3
            BY <1>3, <2>1, <2>2, <2>3 DEF TypeOK
        <3>2. /\ i \notin Cheaters
              /\ Verdict(i, got[i]).kind = "culprit" <=> Cheaters # {}
              /\ Verdict(i, got[i]).kind = "culprit" =>
                    Verdict(i, got[i]).operator = First(Cheaters)
            BY <1>5, ConcludeBlames
        <3>3. QED
            BY <2>3, <3>1, <3>2
    <2>4. CASE k # i
        BY <1>3, <1>4, <2>1, <2>4 DEF TypeOK
    <2>5. QED
        BY <2>3, <2>4
<1>6. CASE ~Conclude(i)
    BY <1>1, <1>3, <1>4, <1>6, NoResult
<1>7. QED
    BY <1>5, <1>6

LEMMA SessionNext ==
    ASSUME SessionInv, [Next]_vars
    PROVE  SessionInv'
<1>1. TypeOK'
    BY FrostNextType DEF SessionInv
<1>2. CASE Next
    BY <1>1, <1>2, WireNext, InboxNext, GotNext, ProcessNext, BarrierNext, RootCauseNext,
       ResultNext DEF SessionInv
<1>3. CASE UNCHANGED vars
    <2>1. WireInv' /\ InboxInv' /\ GotInv'
        BY <1>3 DEF SessionInv, vars, meshVars, driverVars, WireInv, InboxInv, GotInv, ReachedBy
    <2>2. ProcessInv' /\ BarrierHolds' /\ AbortHasRootCause' /\ ResultInv'
        BY <1>3 DEF SessionInv, vars, meshVars, driverVars, ProcessInv, Running,
                    BarrierHolds, AbortHasRootCause, ResultInv
    <2>3. QED
        BY <1>1, <2>1, <2>2 DEF SessionInv
<1>4. QED
    BY <1>2, <1>3

LEMMA SessionInvariant == Spec => []SessionInv
BY SessionInit, SessionNext, PTL DEF Spec

\* The FIN barrier is sound (network.go:462-508): who leaves through it closes
\* its connections only after every operator of the session has its result.
THEOREM BarrierIsSound == Spec => []BarrierHolds
<1>1. SessionInv => BarrierHolds
    BY DEF SessionInv
<1>2. QED
    BY <1>1, SessionInvariant, PTL

\* No operator gives up on the transport unless one has died, run out of time
\* or refused a frame (network.go:384-396): orderly leaving is never an abort.
THEOREM AbortsHaveCause == Spec => []AbortHasRootCause
<1>1. SessionInv => AbortHasRootCause
    BY DEF SessionInv
<1>2. QED
    BY <1>1, SessionInvariant, PTL

----------------------------------------------------------------------------
(* Where a frame is.  What j has for i in a round is unsent, underway,     *)
(* queued or taken, and at most one of these: nothing is sent, read or     *)
(* collected twice.                                                        *)

FrameOf(j, r) == IF r = 3 THEN FinFrame ELSE RoundFrame(j, r)

Envelope(j, r) == [from |-> j, frame |-> FrameOf(j, r)]

Unsent(j, i, r) == r > round[j] \/ (r = round[j] /\ i \in todo[j])

Underway(j, i, r) == FrameOf(j, r) \in Carries(wire[<<j, i>>])

Queued(j, i, r) == Envelope(j, r) \in Carries(inbox[i])

Taken(j, i, r) == (r = round[i] /\ j \in Collected(i)) \/ (r = 1 /\ round[i] >= 2)

OnePlace(j, i, r) ==
    /\ Unsent(j, i, r) => ~Underway(j, i, r) /\ ~Queued(j, i, r) /\ ~Taken(j, i, r)
    /\ Underway(j, i, r) => ~Queued(j, i, r) /\ ~Taken(j, i, r)
    /\ Queued(j, i, r) => ~Taken(j, i, r)

OriginInv ==
    /\ \A link \in Links : \A f \in Carries(wire[link]) :
          \E r \in 1..3 : f = FrameOf(link[1], r)
    /\ \A i \in Operators : \A e \in Carries(inbox[i]) :
          \E j \in Peers(i), r \in {1, 2} : e = Envelope(j, r)

OnceInv ==
    /\ \A link \in Links : Once(wire[link])
    /\ \A i \in Operators : Once(inbox[i])

OnePlaceInv == \A i \in Operators : \A j \in Peers(i) : \A r \in 1..3 : OnePlace(j, i, r)

PlaceInv == OriginInv /\ OnceInv /\ OnePlaceInv

\* The frames of one operator differ by their tags.
LEMMA FrameOfTypes ==
    /\ \A j \in Operators, r \in 1..3 :
          /\ FrameOf(j, r) \in Frames /\ Envelope(j, r) \in Envelopes
          /\ r \in {1, 2} => FrameOf(j, r) = RoundFrame(j, r)
          /\ r \in {1, 2} => FrameOf(j, r).tag = RoundTag[r]
          /\ r = 3 => FrameOf(j, r).tag = "Fin"
    /\ \A j, k, r, q : Envelope(j, r) = Envelope(k, q) => j = k /\ FrameOf(j, r) = FrameOf(k, q)
<1>1. ASSUME NEW j \in Operators, NEW r \in 1..3
      PROVE  /\ FrameOf(j, r) \in Frames
             /\ r \in {1, 2} => FrameOf(j, r) = RoundFrame(j, r)
             /\ r \in {1, 2} => FrameOf(j, r).tag = RoundTag[r]
             /\ r = 3 => FrameOf(j, r).tag = "Fin"
    <2>1. CASE r = 3
        BY <2>1, FrameTypes DEF FrameOf, FinFrame
    <2>2. CASE r \in {1, 2}
        <3>1. FrameOf(j, r) = RoundFrame(j, r)
            BY <2>2 DEF FrameOf
        <3>2. RoundFrame(j, r).tag = RoundTag[r]
            BY DEF RoundFrame
        <3>3. QED
            BY <2>2, <3>1, <3>2, FrameTypes
    <2>3. QED
        BY <2>1, <2>2
<1>2. ASSUME NEW j \in Operators, NEW r \in 1..3
      PROVE  Envelope(j, r) \in Envelopes
    BY <1>1 DEF Envelope, Envelopes
<1>3. ASSUME NEW j, NEW k, NEW r, NEW q, Envelope(j, r) = Envelope(k, q)
      PROVE  j = k /\ FrameOf(j, r) = FrameOf(k, q)
    <2>1. Envelope(j, r).from = j /\ Envelope(k, q).from = k
        BY DEF Envelope
    <2>2. Envelope(j, r).frame = FrameOf(j, r) /\ Envelope(k, q).frame = FrameOf(k, q)
        BY DEF Envelope
    <2>3. QED
        BY <1>3, <2>1, <2>2
<1>4. QED
    BY <1>1, <1>2, <1>3

LEMMA EnvelopeParts ==
    ASSUME NEW i \in Operators, NEW j \in Peers(i), NEW q \in {1, 2}
    PROVE  /\ j \in Operators
           /\ Envelope(j, q).from = j
           /\ Envelope(j, q).frame.tag = RoundTag[q]
<1>1. j \in Operators
    BY LinkTypes
<1>2. Envelope(j, q).from = j /\ Envelope(j, q).frame = FrameOf(j, q)
    BY DEF Envelope
<1>3. FrameOf(j, q).tag = RoundTag[q]
    BY <1>1, FrameOfTypes
<1>4. QED
    BY <1>1, <1>2, <1>3

LEMMA FramesDiffer ==
    ASSUME NEW j \in Operators, NEW r \in 1..3, NEW q \in 1..3, FrameOf(j, r) = FrameOf(j, q)
    PROVE  r = q
<1>1. r \in {1, 2} \/ r = 3
    OBVIOUS
<1>2. q \in {1, 2} \/ q = 3
    OBVIOUS
<1>3. QED
    BY <1>1, <1>2, FrameOfTypes, FrameTypes

LEMMA PlaceInit == Init => PlaceInv
<1> SUFFICES ASSUME Init PROVE PlaceInv
    OBVIOUS
<1>1. /\ \A link \in Links : wire[link] = <<>>
      /\ \A i \in Operators : inbox[i] = <<>> /\ got[i] = {} /\ round[i] = 0
    BY DEF Init, MeshInit
<1>2. OriginInv
    BY <1>1, CarriesNothing DEF OriginInv
<1>3. OnceInv
    BY <1>1, OnceNothing DEF OnceInv
<1>4. ASSUME NEW i \in Operators, NEW j \in Peers(i), NEW r \in 1..3
      PROVE  ~Underway(j, i, r) /\ ~Queued(j, i, r) /\ ~Taken(j, i, r)
    <2>1. <<j, i>> \in Links
        BY LinkTypes
    <2>2. QED
        BY <1>1, <2>1, CarriesNothing DEF Underway, Queued, Taken, Collected
<1>5. OnePlaceInv
    BY <1>4 DEF OnePlaceInv, OnePlace
<1>6. QED
    BY <1>2, <1>3, <1>5 DEF PlaceInv

\* A frame that does not move, or is lost, or whose place is passed on.
LEMMA OnePlaceStays ==
    ASSUME NEW j, NEW i, NEW r, OnePlace(j, i, r),
           Unsent(j, i, r)' => Unsent(j, i, r),
           Underway(j, i, r)' => Underway(j, i, r),
           Queued(j, i, r)' => Queued(j, i, r),
           Taken(j, i, r)' => Taken(j, i, r)
    PROVE  OnePlace(j, i, r)'
BY DEF OnePlace

\* One frame is sent: it is underway now, unless the peer is gone.
LEMMA PlaceSends ==
    ASSUME TypeOK, TypeOK', PlaceInv, NEW i \in Operators, NEW j \in Peers(i),
           round[i] \in 1..3, j \in todo[i],
           Push(i, j, FrameOf(i, round[i])),
           todo' = [todo EXCEPT ![i] = @ \ {j}],
           UNCHANGED <<inbox, round, got>>
    PROVE  PlaceInv'
<1> USE DEF PlaceInv
<1>1. /\ wire \in [Links -> Seq(Frames)] /\ FrameOf(i, round[i]) \in Frames
      /\ <<i, j>> \in Links /\ j \in Operators /\ i \in Peers(j)
    BY WireType, FrameOfTypes, LinkTypes DEF Peers
<1>2. \A link \in Links :
         Carries(wire'[link]) \subseteq Carries(wire[link]) \cup
                                (IF link = <<i, j>> THEN {FrameOf(i, round[i])} ELSE {})
    BY <1>1, PushType
<1>3. OnePlace(i, j, round[i]) /\ Unsent(i, j, round[i])
    BY <1>1 DEF OnePlaceInv, Unsent
<1>4. ~Underway(i, j, round[i]) /\ ~Queued(i, j, round[i]) /\ ~Taken(i, j, round[i])
    BY <1>3 DEF OnePlace
<1>5. OriginInv'
    <2>1. ASSUME NEW link \in Links, NEW f \in Carries(wire'[link])
          PROVE  \E r \in 1..3 : f = FrameOf(link[1], r)
        <3>1. CASE f \in Carries(wire[link])
            BY <3>1 DEF OriginInv
        <3>2. CASE link = <<i, j>> /\ f = FrameOf(i, round[i])
            BY <3>2
        <3>3. QED
            BY <1>2, <3>1, <3>2
    <2>2. QED
        BY <2>1 DEF OriginInv, Envelope, FrameOf, RoundFrame
<1>6. OnceInv'
    <2>1. ASSUME NEW link \in Links PROVE Once(wire'[link])
        <3>1. Once(wire[link])
            BY DEF OnceInv
        <3>2. CASE wire'[link] = wire[link]
            BY <3>1, <3>2
        <3>3. CASE ~closed[j] /\ link = <<i, j>>
            <4>1. wire'[link] = Append(wire[link], FrameOf(i, round[i]))
                BY <1>1, <3>3 DEF Push
            <4>2. FrameOf(i, round[i]) \notin Carries(wire[link])
                BY <1>4, <3>3 DEF Underway
            <4>3. QED
                BY <1>1, <3>1, <4>1, <4>2, OnceAppend
        <3>4. QED
            BY <1>1, <3>2, <3>3 DEF Push
    <2>2. QED
        BY <2>1 DEF OnceInv
<1>7. OnePlaceInv'
    <2>1. SUFFICES ASSUME NEW k \in Operators, NEW l \in Peers(k), NEW r \in 1..3
          PROVE  OnePlace(l, k, r)'
        BY DEF OnePlaceInv
    <2>2. /\ OnePlace(l, k, r) /\ l \in Operators /\ <<l, k>> \in Links
        BY LinkTypes DEF OnePlaceInv
    <2>3. todo \in [Operators -> SUBSET Operators]
        BY DEF TypeOK
    <2>4. /\ Queued(l, k, r)' <=> Queued(l, k, r)
          /\ Taken(l, k, r)' <=> Taken(l, k, r)
        BY DEF Queued, Taken, Collected, Envelope, FrameOf, RoundFrame
    <2>5. Unsent(l, k, r)' => Unsent(l, k, r)
        BY <2>2, <2>3 DEF Unsent
    <2>6. CASE l = i /\ k = j /\ r = round[i]
        <3>1. ~Unsent(l, k, r)'
            BY <2>3, <2>6 DEF Unsent
        <3>2. ~Queued(l, k, r)' /\ ~Taken(l, k, r)'
            BY <1>4, <2>4, <2>6
        <3>3. QED
            BY <3>1, <3>2 DEF OnePlace
    <2>7. CASE ~(l = i /\ k = j /\ r = round[i])
        <3>1. Underway(l, k, r)' => Underway(l, k, r)
            <4>1. SUFFICES ASSUME FrameOf(l, r) \in Carries(wire'[<<l, k>>])
                  PROVE  FrameOf(l, r) \in Carries(wire[<<l, k>>])
                BY DEF Underway, FrameOf, RoundFrame
            <4>2. CASE <<l, k>> = <<i, j>>
                <5>1. l = i /\ r # round[i]
                    BY <2>7, <4>2
                <5>2. FrameOf(l, r) # FrameOf(i, round[i])
                    BY <5>1, FramesDiffer
                <5>3. QED
                    BY <1>2, <2>2, <4>1, <5>2
            <4>3. QED
                BY <1>2, <2>2, <4>1, <4>2
        <3>2. QED
            BY <2>2, <2>4, <2>5, <3>1, OnePlaceStays
    <2>8. QED
        BY <2>6, <2>7
<1>8. QED
    BY <1>5, <1>6, <1>7

\* Where frames are only lost, and nobody sends, takes or goes on.
LEMMA PlaceLoses ==
    ASSUME TypeOK, PlaceInv,
           wire' \in [Links -> Seq(Frames)],
           \A link \in Links : Carries(wire'[link]) \subseteq Carries(wire[link]),
           \A link \in Links : Once(wire[link]) => Once(wire'[link]),
           \A k \in Operators : inbox'[k] = inbox[k] \/ inbox'[k] = <<>>,
           \A k \in Operators : todo'[k] \subseteq todo[k] /\ got'[k] \subseteq got[k],
           UNCHANGED round
    PROVE  PlaceInv'
<1> USE DEF PlaceInv
<1>1. \A k \in Operators : Carries(inbox'[k]) \subseteq Carries(inbox[k])
    BY CarriesNothing
<1>2. OriginInv'
    BY <1>1 DEF OriginInv, Envelope, FrameOf, RoundFrame
<1>3. OnceInv'
    BY OnceNothing DEF OnceInv
<1>4. OnePlaceInv'
    <2>1. SUFFICES ASSUME NEW k \in Operators, NEW l \in Peers(k), NEW r \in 1..3
          PROVE  OnePlace(l, k, r)'
        BY DEF OnePlaceInv
    <2>2. /\ OnePlace(l, k, r) /\ l \in Operators /\ <<l, k>> \in Links
        BY LinkTypes DEF OnePlaceInv
    <2>3. Underway(l, k, r)' => Underway(l, k, r)
        BY <2>2 DEF Underway, FrameOf, RoundFrame
    <2>4. Queued(l, k, r)' => Queued(l, k, r)
        BY <1>1 DEF Queued, Envelope, FrameOf, RoundFrame
    <2>5. Taken(l, k, r)' => Taken(l, k, r)
        BY DEF Taken, Collected
    <2>6. Unsent(l, k, r)' => Unsent(l, k, r)
        BY <2>2 DEF Unsent
    <2>7. QED
        BY <2>2, <2>3, <2>4, <2>5, <2>6, OnePlaceStays
<1>5. QED
    BY <1>2, <1>3, <1>4

\* The frame at the head of a connection, which is not underway any more.
LEMMA HeadIsRead ==
    ASSUME TypeOK, OriginInv, OnceInv, NEW i \in Operators, NEW j \in Peers(i),
           wire[<<j, i>>] # <<>>,
           wire' = [wire EXCEPT ![<<j, i>>] = Tail(@)]
    PROVE  /\ \E r \in 1..3 :
                 /\ Head(wire[<<j, i>>]) = FrameOf(j, r)
                 /\ Underway(j, i, r)
                 /\ ~Underway(j, i, r)'
           /\ wire' \in [Links -> Seq(Frames)]
           /\ \A link \in Links : Carries(wire'[link]) \subseteq Carries(wire[link])
           /\ \A link \in Links : Once(wire'[link])
<1>1. /\ wire \in [Links -> Seq(Frames)]
      /\ <<j, i>> \in Links /\ <<j, i>>[1] = j
    BY WireType, LinkTypes
<1>2. /\ wire' \in [Links -> Seq(Frames)]
      /\ \A link \in Links : Carries(wire'[link]) \subseteq Carries(wire[link])
      /\ Head(wire[<<j, i>>]) \in Carries(wire[<<j, i>>])
    BY <1>1, ReadType
<1>3. /\ Once(Tail(wire[<<j, i>>]))
      /\ Head(wire[<<j, i>>]) \notin Carries(Tail(wire[<<j, i>>]))
    BY <1>1, OnceTail DEF OnceInv
<1>4. PICK r \in 1..3 : Head(wire[<<j, i>>]) = FrameOf(j, r)
    BY <1>1, <1>2 DEF OriginInv
<1>5. Underway(j, i, r) /\ ~Underway(j, i, r)'
    <2>1. wire'[<<j, i>>] = Tail(wire[<<j, i>>])
        BY <1>1
    <2>2. QED
        BY <1>2, <1>3, <1>4, <2>1 DEF Underway, FrameOf, RoundFrame
<1>6. \A link \in Links : Once(wire'[link])
    BY <1>1, <1>3 DEF OnceInv
<1>7. QED
    BY <1>2, <1>4, <1>5, <1>6

\* One frame is read: it is queued now.
LEMMA PlaceReads ==
    ASSUME TypeOK, TypeOK', PlaceInv, NEW i \in Operators, NEW j \in Peers(i),
           ReadPayload(i, j), UNCHANGED driverVars
    PROVE  PlaceInv'
<1> USE DEF PlaceInv
<1>1. /\ wire[<<j, i>>] # <<>> /\ Head(wire[<<j, i>>]).tag # "Fin"
      /\ inbox' = [inbox EXCEPT ![i] =
                      Append(@, [from |-> j, frame |-> Head(wire[<<j, i>>])])]
      /\ wire' = [wire EXCEPT ![<<j, i>>] = Tail(@)]
      /\ UNCHANGED <<round, todo, got>>
    BY DEF ReadPayload, driverVars
<1>2. /\ \A link \in Links : Carries(wire'[link]) \subseteq Carries(wire[link])
      /\ \A link \in Links : Once(wire'[link])
    BY <1>1, HeadIsRead
<1>3. PICK q \in 1..3 :
          /\ Head(wire[<<j, i>>]) = FrameOf(j, q)
          /\ Underway(j, i, q)
          /\ ~Underway(j, i, q)'
    BY <1>1, HeadIsRead
<1>4. j \in Operators
    BY LinkTypes
<1>5. q \in {1, 2} /\ Envelope(j, q) \in Envelopes
    BY <1>1, <1>3, <1>4, FrameOfTypes
<1>6. /\ inbox \in [Operators -> Seq(Envelopes)]
      /\ inbox' = [inbox EXCEPT ![i] = Append(@, Envelope(j, q))]
    BY <1>1, <1>3 DEF TypeOK, Envelope
<1>7. Carries(Append(inbox[i], Envelope(j, q))) = Carries(inbox[i]) \cup {Envelope(j, q)}
    BY <1>5, <1>6, CarriesAppend
<1>8. ~Unsent(j, i, q) /\ ~Queued(j, i, q) /\ ~Taken(j, i, q)
    BY <1>3, <1>4 DEF OnePlaceInv, OnePlace
<1>9. OriginInv'
    <2>1. ASSUME NEW k \in Operators, NEW e \in Carries(inbox'[k])
          PROVE  \E l \in Peers(k), r \in {1, 2} : e = Envelope(l, r)
        <3>1. e \in Carries(inbox[k]) \/ (k = i /\ e = Envelope(j, q))
            BY <1>6, <1>7
        <3>2. QED
            BY <1>5, <3>1 DEF OriginInv
    <2>2. QED
        BY <1>2, <2>1 DEF OriginInv, Envelope, FrameOf, RoundFrame
<1>10. OnceInv'
    <2>1. Once(Append(inbox[i], Envelope(j, q)))
        BY <1>6, <1>8, OnceAppend DEF OnceInv, Queued
    <2>2. ASSUME NEW k \in Operators PROVE Once(inbox'[k])
        BY <1>6, <2>1 DEF OnceInv
    <2>3. QED
        BY <1>2, <2>2 DEF OnceInv
<1>11. OnePlaceInv'
    <2>1. SUFFICES ASSUME NEW k \in Operators, NEW l \in Peers(k), NEW r \in 1..3
          PROVE  OnePlace(l, k, r)'
        BY DEF OnePlaceInv
    <2>2. /\ OnePlace(l, k, r) /\ l \in Operators /\ <<l, k>> \in Links
        BY LinkTypes DEF OnePlaceInv
    <2>3. /\ Unsent(l, k, r)' <=> Unsent(l, k, r)
          /\ Taken(l, k, r)' <=> Taken(l, k, r)
        BY <1>1 DEF Unsent, Taken, Collected
    <2>4. CASE l = j /\ k = i /\ r = q
        BY <1>3, <1>8, <2>3, <2>4 DEF OnePlace
    <2>5. CASE ~(l = j /\ k = i /\ r = q)
        <3>1. Underway(l, k, r)' => Underway(l, k, r)
            BY <1>2, <2>2 DEF Underway, FrameOf, RoundFrame
        <3>2. Queued(l, k, r)' => Queued(l, k, r)
            <4>1. SUFFICES ASSUME Envelope(l, r) \in Carries(inbox'[k])
                  PROVE  Envelope(l, r) \in Carries(inbox[k])
                BY DEF Queued, Envelope, FrameOf, RoundFrame
            <4>2. CASE k = i
                <5>1. l = j => r # q
                    BY <2>5, <4>2
                <5>2. Envelope(l, r) # Envelope(j, q)
                    BY <2>2, <5>1, FrameOfTypes, FramesDiffer
                <5>3. QED
                    BY <1>6, <1>7, <4>1, <4>2, <5>2
            <4>3. QED
                BY <1>6, <4>1, <4>2
        <3>3. QED
            BY <2>2, <2>3, <3>1, <3>2, OnePlaceStays
    <2>6. QED
        BY <2>4, <2>5
<1>12. QED
    BY <1>9, <1>10, <1>11

\* One envelope is collected: it is taken now.
LEMMA PlaceTakes ==
    ASSUME TypeOK, TypeOK', PlaceInv, NEW i \in Operators, TakeFrame(i)
    PROVE  PlaceInv'
<1> USE DEF PlaceInv
<1>1. /\ inbox[i] # <<>> /\ Head(inbox[i]).frame.tag = RoundTag[round[i]]
      /\ round[i] \in {1, 2}
      /\ inbox' = [inbox EXCEPT ![i] = Tail(@)]
      /\ got' = [got EXCEPT ![i] = @ \cup {Head(inbox[i])}]
      /\ UNCHANGED <<wire, round, todo>>
    BY DEF TakeFrame, Expected, Collecting, Waiting
<1>2. /\ inbox \in [Operators -> Seq(Envelopes)]
      /\ got \in [Operators -> SUBSET Envelopes]
      /\ inbox[i] \in Seq(Envelopes)
    BY DEF TypeOK
<1>3. /\ Head(inbox[i]) \in Carries(inbox[i])
      /\ Carries(Tail(inbox[i])) \subseteq Carries(inbox[i])
    BY <1>1, <1>2, CarriesTail
<1>4. /\ Once(Tail(inbox[i]))
      /\ Head(inbox[i]) \notin Carries(Tail(inbox[i]))
    BY <1>1, <1>2, OnceTail DEF OnceInv
<1>5. PICK j \in Peers(i), q \in {1, 2} : Head(inbox[i]) = Envelope(j, q)
    BY <1>3 DEF OriginInv
<1>6. /\ j \in Operators
      /\ Head(inbox[i]).from = j
      /\ Head(inbox[i]).frame.tag = RoundTag[q]
    BY <1>5, EnvelopeParts
<1>7. q = round[i]
    <2>1. RoundTag[q] = RoundTag[round[i]]
        BY <1>1, <1>6
    <2>2. QED
        BY <1>1, <2>1, FrameTypes
<1>8. Queued(j, i, q) /\ ~Queued(j, i, q)'
    <2>1. inbox'[i] = Tail(inbox[i])
        BY <1>1, <1>2
    <2>2. QED
        BY <1>3, <1>4, <1>5, <2>1 DEF Queued, Envelope, FrameOf, RoundFrame
<1>9. \A k \in Operators : Carries(inbox'[k]) \subseteq Carries(inbox[k])
    BY <1>1, <1>2, <1>3
<1>10. OriginInv'
    BY <1>1, <1>9 DEF OriginInv, Envelope, FrameOf, RoundFrame
<1>11. OnceInv'
    BY <1>1, <1>2, <1>4 DEF OnceInv
<1>12. OnePlaceInv'
    <2>1. SUFFICES ASSUME NEW k \in Operators, NEW l \in Peers(k), NEW r \in 1..3
          PROVE  OnePlace(l, k, r)'
        BY DEF OnePlaceInv
    <2>2. /\ OnePlace(l, k, r) /\ l \in Operators /\ <<l, k>> \in Links
        BY LinkTypes DEF OnePlaceInv
    <2>3. /\ Unsent(l, k, r)' <=> Unsent(l, k, r)
          /\ Underway(l, k, r)' <=> Underway(l, k, r)
        BY <1>1 DEF Unsent, Underway, FrameOf, RoundFrame
    <2>4. Queued(l, k, r)' => Queued(l, k, r)
        BY <1>9 DEF Queued, Envelope, FrameOf, RoundFrame
    <2>5. CASE l = j /\ k = i /\ r = q
        BY <1>8, <2>2, <2>3, <2>5 DEF OnePlace
    <2>6. CASE ~(l = j /\ k = i /\ r = q)
        <3>1. Taken(l, k, r)' => Taken(l, k, r)
            <4>1. CASE k # i
                BY <1>1, <1>2, <4>1 DEF Taken, Collected
            <4>2. CASE k = i /\ r # q
                BY <1>1, <1>7, <4>2 DEF Taken
            <4>3. CASE k = i /\ l # j
                <5>1. got'[k] = got[k] \cup {Head(inbox[i])}
                    BY <1>1, <1>2, <4>3
                <5>2. l \in Collected(k)' => l \in Collected(k)
                    BY <1>6, <4>3, <5>1 DEF Collected
                <5>3. QED
                    BY <1>1, <5>2 DEF Taken
            <4>4. QED
                BY <2>6, <4>1, <4>2, <4>3
        <3>2. QED
            BY <2>2, <2>3, <2>4, <3>1, OnePlaceStays
    <2>7. QED
        BY <2>5, <2>6
<1>13. QED
    BY <1>10, <1>11, <1>12

\* The next round begins when this one's frames are taken.
LEMMA PlaceGoesOn ==
    ASSUME TypeOK, PlaceInv, NEW i \in Operators,
           round[i] \in 0..2, round[i] = 1 => Collected(i) = Peers(i),
           EnterRound(i, round[i] + 1), UNCHANGED <<wire, inbox>>
    PROVE  PlaceInv'
<1> USE DEF PlaceInv
<1>1. OriginInv' /\ OnceInv'
    BY DEF OriginInv, OnceInv, Envelope, FrameOf, RoundFrame
<1>2. OnePlaceInv'
    <2>1. SUFFICES ASSUME NEW k \in Operators, NEW l \in Peers(k), NEW r \in 1..3
          PROVE  OnePlace(l, k, r)'
        BY DEF OnePlaceInv
    <2>2. /\ OnePlace(l, k, r) /\ l \in Operators
        BY LinkTypes DEF OnePlaceInv
    <2>3. /\ round \in [Operators -> 0..3] /\ todo \in [Operators -> SUBSET Operators]
          /\ got \in [Operators -> SUBSET Envelopes]
        BY DEF TypeOK
    <2>4. /\ round' = [round EXCEPT ![i] = round[i] + 1]
          /\ todo' = [todo EXCEPT ![i] = Peers(i)]
          /\ got' = [got EXCEPT ![i] = {}]
        BY DEF EnterRound
    <2>5. /\ Underway(l, k, r)' <=> Underway(l, k, r)
          /\ Queued(l, k, r)' <=> Queued(l, k, r)
        BY DEF Underway, Queued, Envelope, FrameOf, RoundFrame
    <2>6. Unsent(l, k, r)' => Unsent(l, k, r)
        BY <2>2, <2>3, <2>4 DEF Unsent
    <2>7. Taken(l, k, r)' => Taken(l, k, r)
        <3>1. CASE k # i
            BY <2>3, <2>4, <3>1 DEF Taken, Collected
        <3>2. CASE k = i
            <4>1. Collected(i)' = {}
                BY <2>3, <2>4 DEF Collected
            <4>2. Taken(l, k, r)' => r = 1 /\ round[i] \in {1, 2}
                BY <2>3, <2>4, <3>2, <4>1 DEF Taken
            <4>3. QED
                BY <3>2, <4>2 DEF Taken
        <3>3. QED
            BY <3>1, <3>2
    <2>8. QED
        BY <2>2, <2>5, <2>6, <2>7, OnePlaceStays
<1>3. QED
    BY <1>1, <1>2

LEMMA PlaceNext ==
    ASSUME TypeOK, TypeOK', PlaceInv, [Next]_vars
    PROVE  PlaceInv'
<1>1. CASE UNCHANGED vars
    BY <1>1, WireType, PlaceLoses DEF vars, meshVars, driverVars
<1>2. ASSUME NEW i \in Operators, NEW j \in Peers(i), LinkStep(i, j)
      PROVE  PlaceInv'
    <2>1. CASE Connect(i, j) \/ (ReadError(i, j) /\ UNCHANGED driverVars)
        <3>1. UNCHANGED <<wire, inbox, todo, got, round>>
            BY <2>1 DEF Connect, Handshake, ReadError, driverVars
        <3>2. QED
            BY <3>1, WireType, PlaceLoses
    <2>2. CASE ReadPayload(i, j) /\ UNCHANGED driverVars
        BY <2>2, PlaceReads
    <2>3. CASE ReadFin(i, j) /\ UNCHANGED driverVars
        <3>1. /\ wire[<<j, i>>] # <<>> /\ wire' = [wire EXCEPT ![<<j, i>>] = Tail(@)]
              /\ UNCHANGED <<inbox, todo, got, round>>
            BY <2>3 DEF ReadFin, driverVars
        <3>2. /\ wire' \in [Links -> Seq(Frames)]
              /\ \A link \in Links : Carries(wire'[link]) \subseteq Carries(wire[link])
              /\ \A link \in Links : Once(wire'[link])
            BY <3>1, HeadIsRead DEF PlaceInv
        <3>3. QED
            BY <3>1, <3>2, PlaceLoses
    <2>4. CASE SendRound(i, j) \/ SendFin(i, j)
        <3>1. /\ round[i] \in 1..3 /\ j \in todo[i]
              /\ Push(i, j, FrameOf(i, round[i]))
              /\ todo' = [todo EXCEPT ![i] = @ \ {j}]
              /\ UNCHANGED <<inbox, round, got>>
            BY <2>4 DEF SendRound, SendFin, FrameOf
        <3>2. QED
            BY <3>1, PlaceSends
    <2>5. QED
        BY <1>2, <2>1, <2>2, <2>3, <2>4 DEF LinkStep
<1>3. ASSUME NEW i \in Operators, LocalStep(i)
      PROVE  PlaceInv'
    <2>1. CASE TakeFrame(i)
        BY <2>1, PlaceTakes
    <2>2. CASE ~TakeFrame(i)
        <3>1. /\ round[i] \in 0..2 /\ (round[i] = 1 => Collected(i) = Peers(i))
              /\ EnterRound(i, round[i] + 1) /\ UNCHANGED <<wire, inbox>>
            BY <1>3, <2>2 DEF LocalStep, MeshUp, EnterRound2, Conclude, CheaterConcludes,
                              EnterFin, HasAll, meshVars
        <3>2. QED
            BY <3>1, PlaceGoesOn
    <2>3. QED
        BY <2>1, <2>2
<1>4. ASSUME NEW i \in Operators, NEW how, NEW why, Ends(i, how, why)
      PROVE  PlaceInv'
    <2>1. /\ todo' = [todo EXCEPT ![i] = {}]
          /\ got' = [got EXCEPT ![i] = {}]
          /\ inbox' = [inbox EXCEPT ![i] = <<>>]
          /\ UNCHANGED round
          /\ wire' \in [Links -> Seq(Frames)]
          /\ \A link \in Links : Carries(wire'[link]) \subseteq Carries(wire[link])
        BY <1>4, EndsFacts
    <2>2. Teardown(i)
        BY <1>4 DEF Ends, Exit
    <2>3. \A link \in Links : Once(wire[link]) => Once(wire'[link])
        BY <2>2, WireType, TeardownRepeatsNothing
    <2>4. /\ \A k \in Operators : inbox'[k] = inbox[k] \/ inbox'[k] = <<>>
          /\ \A k \in Operators : todo'[k] \subseteq todo[k] /\ got'[k] \subseteq got[k]
        BY <2>1 DEF TypeOK
    <2>5. QED
        BY <2>1, <2>3, <2>4, PlaceLoses
<1>5. QED
    BY <1>1, <1>2, <1>3, <1>4, FrostSteps

\* Only RejectFrame gives up on a frame.
LEMMA GivesUpOnFrame ==
    ASSUME TypeOK, Next, NEW i \in Operators, cause[i] = "none", cause'[i] = "frame"
    PROVE  RejectFrame(i)
<1>1. PICK k \in Operators : Transport(k) \/ Step(k) \/ Timer(k) \/ Crash(k)
    BY DEF Next
<1>2. cause \in [Operators -> {"none", "crash", "timeout", "frame", "transport"}]
    BY DEF TypeOK
<1>3. ASSUME NEW how, NEW why, Exit(k, how, why)
      PROVE  k = i /\ why = "frame"
    <2>1. cause' = [cause EXCEPT ![k] = why]
        BY <1>3 DEF Exit
    <2>2. QED
        BY <1>2, <2>1
<1>4. CASE RejectFrame(k)
    BY <1>3, <1>4 DEF RejectFrame, Abort
<1>5. CASE MeshFails(k) \/ AbortOnError(k) \/ \E j \in Peers(k) : SendFails(k, j)
    BY <1>3, <1>5 DEF MeshFails, AbortOnError, SendFails, Abort
<1>6. CASE Timer(k) \/ Leave(k) \/ Crash(k)
    BY <1>3, <1>6 DEF Timer, MeshTimesOut, RoundTimesOut, BarrierTimesOut, Leave, Crash, Abort
<1>7. CASE Transport(k) \/ (\E j \in Peers(k) : Connect(k, j) \/ SendRound(k, j) \/ SendFin(k, j))
    BY <1>7 DEF Transport, Connect, SendRound, SendFin, driverVars
<1>8. CASE MeshUp(k) \/ TakeFrame(k) \/ EnterRound2(k) \/ Conclude(k) \/ CheaterConcludes(k)
    BY <1>8 DEF MeshUp, TakeFrame, EnterRound2, Conclude, CheaterConcludes
<1>9. QED
    BY <1>1, <1>4, <1>5, <1>6, <1>7, <1>8 DEF Step, Send

\* A frame is refused where it is not taken yet and is not of this round.
LEMMA RefusedIsEarly ==
    ASSUME TypeOK, PlaceInv, NEW i \in Operators, RejectFrame(i)
    PROVE  round[i] = 1 /\ Head(inbox[i]).frame.tag = RoundTag[2]
<1>1. /\ round[i] \in {1, 2} /\ inbox[i] # <<>>
      /\ ~Expected(i, Head(inbox[i]))
    BY DEF RejectFrame, Collecting, Waiting
<1>2. inbox[i] \in Seq(Envelopes)
    BY DEF TypeOK
<1>3. Head(inbox[i]) \in Carries(inbox[i])
    BY <1>1, <1>2, CarriesTail
<1>4. PICK j \in Peers(i), q \in {1, 2} : Head(inbox[i]) = Envelope(j, q)
    BY <1>3 DEF PlaceInv, OriginInv
<1>5. /\ j \in Operators
      /\ Head(inbox[i]).from = j
      /\ Head(inbox[i]).frame.tag = RoundTag[q]
    BY <1>4, EnvelopeParts
<1>6. ~Taken(j, i, q)
    BY <1>3, <1>4 DEF PlaceInv, OnePlaceInv, OnePlace, Queued
<1>7. q # round[i]
    BY <1>1, <1>5, <1>6 DEF Expected, Taken
<1>8. ~(q = 1 /\ round[i] = 2)
    BY <1>6 DEF Taken
<1>9. QED
    BY <1>1, <1>4, <1>5, <1>7, <1>8

\* What collectRound refuses is a frame of round 2 met in round 1, never a
\* second or an old one (frost.go:64-69): on no connection is anything sent,
\* delivered or collected twice.
THEOREM OnlyEarlyRefused == Spec => OnlyEarlyFramesRefused
<1> DEFINE Refused ==
        \A i \in Operators :
            cause[i] = "none" /\ cause'[i] = "frame" =>
                round[i] = 1 /\ Head(inbox[i]).frame.tag = RoundTag[2]
<1>1. TypeOK /\ PlaceInv /\ [Next]_vars => TypeOK' /\ PlaceInv'
    BY FrostNextType, PlaceNext
<1>2. TypeOK /\ PlaceInv /\ [Next]_vars => [Refused]_vars
    BY GivesUpOnFrame, RefusedIsEarly
<1>3. Spec => [][Refused]_vars
    BY <1>1, <1>2, FrostInitType, PlaceInit, PTL DEF Spec
<1>4. QED
    BY <1>3 DEF OnlyEarlyFramesRefused

----------------------------------------------------------------------------
(* Nobody waits for somebody who waits.  Nothing that is sent to an        *)
(* operator that runs is lost, as long as its sender runs or has left      *)
(* through the barrier: so what an operator waits for is always underway,  *)
(* or still to be sent by somebody who is not behind it.                   *)

LeftInOrder(j) == status[j] = "done" /\ cause[j] = "none"

\* The connections that are up go both ways, and are all up once the first
\* round begins.
ConnInv ==
    \A i \in Operators :
        /\ \A j \in conns[i] : j \in Peers(i) /\ i \in conns[j]
        /\ round[i] # 0 => conns[i] = Peers(i)
        /\ \A j \in todo[i] : j \in Peers(i)
        /\ round[i] = 0 => todo[i] = {}

LEMMA ConnInit == Init => ConnInv
BY DEF Init, MeshInit, ConnInv

LEMMA ConnNext ==
    ASSUME TypeOK, ConnInv, [Next]_vars
    PROVE  ConnInv'
<1> USE DEF ConnInv
<1>0. /\ conns \in [Operators -> SUBSET Operators]
      /\ todo \in [Operators -> SUBSET Operators]
      /\ round \in [Operators -> 0..3]
    BY DEF TypeOK
<1>1. CASE UNCHANGED vars
    BY <1>1 DEF vars, meshVars, driverVars
<1>2. ASSUME NEW i \in Operators, NEW j \in Peers(i), LinkStep(i, j)
      PROVE  ConnInv'
    <2>1. CASE Connect(i, j)
        <3>1. /\ conns' = [conns EXCEPT ![i] = @ \cup {j}, ![j] = @ \cup {i}]
              /\ UNCHANGED <<todo, round>>
            BY <2>1 DEF Connect, Handshake, driverVars
        <3>2. j \in Operators /\ j # i /\ i \in Peers(j)
            BY DEF Peers
        <3>3. /\ conns'[i] = conns[i] \cup {j} /\ conns'[j] = conns[j] \cup {i}
              /\ \A k \in Operators \ {i, j} : conns'[k] = conns[k]
              /\ \A k \in Operators : conns[k] \subseteq conns'[k]
            BY <1>0, <3>1, <3>2
        <3>4. ASSUME NEW k \in Operators
              PROVE  /\ \A l \in conns'[k] : l \in Peers(k) /\ k \in conns'[l]
                     /\ round[k] # 0 => conns'[k] = Peers(k)
            <4>1. \A l \in conns[k] : l \in Operators
                BY DEF Peers
            <4>2. CASE k = i
                <5>1. i \in conns'[j] /\ j \in Peers(i)
                    BY <3>3
                <5>2. \A l \in conns[i] : l \in Peers(i) /\ i \in conns'[l]
                    BY <3>3, <4>1, <4>2
                <5>3. round[i] # 0 => conns'[i] = Peers(i)
                    BY <3>3, <5>1
                <5>4. QED
                    BY <3>3, <4>2, <5>1, <5>2, <5>3
            <4>3. CASE k = j
                <5>1. j \in conns'[i] /\ i \in Peers(j)
                    BY <3>2, <3>3
                <5>2. \A l \in conns[j] : l \in Peers(j) /\ j \in conns'[l]
                    BY <3>2, <3>3, <4>1, <4>3
                <5>3. round[j] # 0 => conns'[j] = Peers(j)
                    BY <3>2, <3>3, <5>1
                <5>4. QED
                    BY <3>2, <3>3, <4>3, <5>1, <5>2, <5>3
            <4>4. CASE k # i /\ k # j
                BY <3>2, <3>3, <4>1, <4>4
            <4>5. QED
                BY <4>2, <4>3, <4>4
        <3>5. QED
            BY <3>1, <3>4
    <2>2. CASE ~Connect(i, j)
        <3>1. UNCHANGED <<conns, round>>
            BY <1>2, <2>2 DEF LinkStep, ReadPayload, ReadFin, ReadError, SendRound, SendFin,
                              driverVars
        <3>2. UNCHANGED todo \/ (round[i] # 0 /\ todo' = [todo EXCEPT ![i] = @ \ {j}])
            BY <1>2, <2>2 DEF LinkStep, ReadPayload, ReadFin, ReadError, SendRound, SendFin,
                              driverVars
        <3>3. \A k \in Operators : todo'[k] \subseteq todo[k]
            BY <1>0, <3>2
        <3>4. QED
            BY <3>1, <3>3
    <2>3. QED
        BY <2>1, <2>2
<1>3. ASSUME NEW i \in Operators, LocalStep(i)
      PROVE  ConnInv'
    <2>1. CASE TakeFrame(i)
        BY <2>1 DEF TakeFrame
    <2>2. CASE ~TakeFrame(i)
        <3>1. /\ EnterRound(i, round[i] + 1) /\ UNCHANGED conns
              /\ round[i] = 0 => conns[i] = Peers(i)
            BY <1>3, <2>2 DEF LocalStep, MeshUp, EnterRound2, Conclude, CheaterConcludes,
                              EnterFin, HasAll, meshVars, MeshComplete
        <3>2. /\ round' = [round EXCEPT ![i] = round[i] + 1]
              /\ todo' = [todo EXCEPT ![i] = Peers(i)]
            BY <3>1 DEF EnterRound
        <3>3. round'[i] # 0
            BY <1>0, <3>2
        <3>4. QED
            BY <1>0, <3>1, <3>2, <3>3
    <2>3. QED
        BY <2>1, <2>2
<1>4. ASSUME NEW i \in Operators, NEW how, NEW why, Ends(i, how, why)
      PROVE  ConnInv'
    <2>1. todo' = [todo EXCEPT ![i] = {}] /\ UNCHANGED <<conns, round>>
        BY <1>4, EndsFacts
    <2>2. QED
        BY <1>0, <2>1
<1>5. QED
    BY <1>1, <1>2, <1>3, <1>4, FrostSteps

\* A FIN is the last frame on its connection: nothing follows it there, and
\* once it is read nothing is left.
FinLast(s) == \A n \in 1..Len(s) : s[n].tag = "Fin" => n = Len(s)

FinInv ==
    \A i \in Operators : \A j \in Peers(i) :
        /\ FinLast(wire[<<j, i>>])
        /\ j \in fins[i] => wire[<<j, i>>] = <<>> /\ ~Unsent(j, i, 3)

LEMMA FinLastMoves ==
    ASSUME NEW s \in Seq(Frames), FinLast(s)
    PROVE  /\ \A e \in Frames : (\A f \in Carries(s) : f.tag # "Fin") => FinLast(Append(s, e))
           /\ s # <<>> => FinLast(Tail(s))
           /\ s # <<>> /\ Head(s).tag = "Fin" => Tail(s) = <<>>
           /\ \A m \in 0..Len(s) : FinLast(SubSeq(s, 1, m))
<1>0. Len(s) \in Nat
    OBVIOUS
<1>1. ASSUME NEW e \in Frames, \A f \in Carries(s) : f.tag # "Fin"
      PROVE  FinLast(Append(s, e))
    <2>1. /\ Len(Append(s, e)) = Len(s) + 1
          /\ \A n \in 1..Len(s) : Append(s, e)[n] = s[n]
        OBVIOUS
    <2>2. \A n \in 1..Len(s) : s[n].tag # "Fin"
        BY <1>1 DEF Carries
    <2>3. \A n \in 1..(Len(s) + 1) : n \in 1..Len(s) \/ n = Len(s) + 1
        BY <1>0
    <2>4. QED
        BY <2>1, <2>2, <2>3 DEF FinLast
<1>2. ASSUME s # <<>>
      PROVE  FinLast(Tail(s)) /\ (Head(s).tag = "Fin" => Tail(s) = <<>>)
    <2>1. /\ Len(Tail(s)) = Len(s) - 1
          /\ \A n \in 1..Len(Tail(s)) : Tail(s)[n] = s[n + 1]
          /\ Len(s) \in Nat \ {0}
          /\ Head(s) = s[1]
          /\ Tail(s) \in Seq(Frames)
        BY <1>2, HeadTailProperties, EmptySeq
    <2>2. ASSUME NEW n \in 1..Len(Tail(s)), Tail(s)[n].tag = "Fin"
          PROVE  n = Len(Tail(s))
        <3>1. n \in Nat /\ n + 1 \in 1..Len(s) /\ s[n + 1].tag = "Fin"
            BY <2>1, <2>2
        <3>2. n + 1 = Len(s)
            BY <3>1 DEF FinLast
        <3>3. n = Len(s) - 1
            BY <1>0, <3>1, <3>2
        <3>4. QED
            BY <2>1, <3>3
    <2>3. ASSUME Head(s).tag = "Fin"
          PROVE  Len(Tail(s)) = 0
        <3>1. 1 \in 1..Len(s) /\ s[1].tag = "Fin"
            BY <2>1, <2>3
        <3>2. 1 = Len(s)
            BY <3>1 DEF FinLast
        <3>3. QED
            BY <2>1, <3>2
    <2>4. QED
        BY <2>1, <2>2, <2>3, EmptySeq DEF FinLast
<1>3. ASSUME NEW m \in 0..Len(s)
      PROVE  FinLast(SubSeq(s, 1, m))
    <2>1. m \in Int /\ \A n \in 1..m : s[n] \in Frames
        BY <1>0, LenProperties, ElementOfSeq
    <2>2. /\ Len(SubSeq(s, 1, m)) = m
          /\ \A n \in 1..m : SubSeq(s, 1, m)[n] = s[n]
        BY <2>1, SubSeqProperties
    <2>3. QED
        BY <1>0, <2>2 DEF FinLast
<1>4. QED
    BY <1>1, <1>2, <1>3

LEMMA NoFinBefore ==
    ASSUME TypeOK, PlaceInv, NEW i \in Operators, NEW j \in Peers(i), Unsent(j, i, 3)
    PROVE  \A f \in Carries(wire[<<j, i>>]) : f.tag # "Fin"
<1>1. <<j, i>> \in Links /\ j \in Operators /\ <<j, i>>[1] = j
    BY LinkTypes
<1>2. ~Underway(j, i, 3)
    BY DEF PlaceInv, OnePlaceInv, OnePlace
<1>3. ASSUME NEW f \in Carries(wire[<<j, i>>]), f.tag = "Fin"
      PROVE  FALSE
    <2>1. PICK r \in 1..3 : f = FrameOf(j, r)
        BY <1>1 DEF PlaceInv, OriginInv
    <2>2. r = 3
        <3>1. r \in {1, 2} => f.tag = RoundTag[r]
            BY <1>1, <2>1, FrameOfTypes
        <3>2. QED
            BY <1>3, <3>1, FrameTypes
    <2>3. QED
        BY <1>2, <1>3, <2>1, <2>2 DEF Underway
<1>4. QED
    BY <1>3

\* What is sent stays sent.
LEMMA UnsentShrinks ==
    ASSUME TypeOK, [Next]_vars, NEW j \in Operators, NEW i, NEW r \in 1..3, Unsent(j, i, r)'
    PROVE  Unsent(j, i, r)
<1>0. /\ round \in [Operators -> 0..3] /\ todo \in [Operators -> SUBSET Operators]
    BY DEF TypeOK
<1>1. CASE UNCHANGED vars
    BY <1>1 DEF vars, driverVars, Unsent
<1>2. ASSUME NEW k \in Operators, NEW l \in Peers(k), LinkStep(k, l)
      PROVE  Unsent(j, i, r)
    <2>1. UNCHANGED round
        BY <1>2, LinkStepFrame
    <2>2. UNCHANGED todo \/ todo' = [todo EXCEPT ![k] = @ \ {l}]
        BY <1>2 DEF LinkStep, Connect, ReadPayload, ReadFin, ReadError, SendRound, SendFin,
                    driverVars
    <2>3. QED
        BY <1>0, <2>1, <2>2 DEF Unsent
<1>3. ASSUME NEW k \in Operators, LocalStep(k)
      PROVE  Unsent(j, i, r)
    <2>1. \/ UNCHANGED <<round, todo>>
          \/ EnterRound(k, round[k] + 1)
        BY <1>3 DEF LocalStep, MeshUp, TakeFrame, EnterRound2, Conclude, CheaterConcludes,
                    EnterFin, HasAll
    <2>2. CASE UNCHANGED <<round, todo>>
        BY <2>2 DEF Unsent
    <2>3. CASE EnterRound(k, round[k] + 1)
        <3>1. round' = [round EXCEPT ![k] = round[k] + 1]
            BY <2>3 DEF EnterRound
        <3>2. CASE j = k
            <4>1. round'[j] = round[j] + 1 /\ round[j] \in 0..3 /\ r \in Int
                BY <1>0, <3>1, <3>2
            <4>2. r >= round'[j]
                BY <4>1 DEF Unsent
            <4>3. QED
                BY <4>1, <4>2 DEF Unsent
        <3>3. CASE j # k
            BY <1>0, <2>3, <3>3 DEF EnterRound, Unsent
        <3>4. QED
            BY <3>2, <3>3
    <2>4. QED
        BY <2>1, <2>2, <2>3
<1>4. ASSUME NEW k \in Operators, NEW how, NEW why, Ends(k, how, why)
      PROVE  Unsent(j, i, r)
    <2>1. todo' = [todo EXCEPT ![k] = {}] /\ UNCHANGED round
        BY <1>4, EndsFacts
    <2>2. QED
        BY <1>0, <2>1 DEF Unsent
<1>5. QED
    BY <1>1, <1>2, <1>3, <1>4, FrostSteps

LEMMA FinNext ==
    ASSUME TypeOK, PlaceInv, FinInv, [Next]_vars
    PROVE  FinInv'
<1> SUFFICES ASSUME NEW i \in Operators, NEW j \in Peers(i)
             PROVE  /\ FinLast(wire[<<j, i>>])'
                    /\ (j \in fins[i])' => wire'[<<j, i>>] = <<>> /\ ~Unsent(j, i, 3)'
    BY DEF FinInv, Unsent
<1>0. /\ FinLast(wire[<<j, i>>])
      /\ j \in fins[i] => wire[<<j, i>>] = <<>> /\ ~Unsent(j, i, 3)
      /\ <<j, i>> \in Links /\ j \in Operators /\ <<j, i>>[1] = j /\ <<j, i>>[2] = i
      /\ wire \in [Links -> Seq(Frames)] /\ wire[<<j, i>>] \in Seq(Frames)
      /\ fins \in [Operators -> SUBSET Operators]
    BY LinkTypes, WireType DEF FinInv, TypeOK
<1>1. Unsent(j, i, 3)' => Unsent(j, i, 3)
    BY <1>0, UnsentShrinks
<1>2. SUFFICES FinLast(wire'[<<j, i>>]) /\ (j \in fins'[i] => wire'[<<j, i>>] = <<>> /\ ~Unsent(j, i, 3))
    BY <1>1 DEF FinLast
<1>3. CASE wire'[<<j, i>>] = wire[<<j, i>>] /\ (j \in fins'[i] => j \in fins[i])
    BY <1>0, <1>3
<1>4. ASSUME NEW k \in Operators, NEW l \in Peers(k), LinkStep(k, l)
      PROVE  FinLast(wire'[<<j, i>>]) /\ (j \in fins'[i] => wire'[<<j, i>>] = <<>> /\ ~Unsent(j, i, 3))
    <2>0. l \in Operators /\ <<k, l>> \in Links /\ <<l, k>> \in Links
        BY LinkTypes
    <2>1. CASE Connect(k, l) \/ ReadError(k, l)
        BY <1>3, <2>1 DEF Connect, Handshake, ReadError
    <2>2. CASE ReadPayload(k, l) \/ ReadFin(k, l)
        <3>1. wire' = [wire EXCEPT ![<<l, k>>] = Tail(@)] /\ wire[<<l, k>>] # <<>>
            BY <2>2 DEF ReadPayload, ReadFin
        <3>2. CASE <<l, k>> # <<j, i>>
            <4>1. wire'[<<j, i>>] = wire[<<j, i>>]
                BY <1>0, <2>0, <3>1, <3>2
            <4>2. UNCHANGED fins \/ fins' = [fins EXCEPT ![k] = fins[k] \cup {l}]
                BY <2>2 DEF ReadPayload, ReadFin
            <4>3. j \in fins'[i] => j \in fins[i]
                BY <1>0, <3>2, <4>2
            <4>4. QED
                BY <1>3, <4>1, <4>3
        <3>3. CASE <<l, k>> = <<j, i>>
            <4>1. l = j /\ k = i
                BY <3>3
            <4>2. wire'[<<j, i>>] = Tail(wire[<<j, i>>]) /\ wire[<<j, i>>] # <<>> /\ j \notin fins[i]
                BY <1>0, <3>1, <3>3
            <4>3. FinLast(wire'[<<j, i>>])
                BY <1>0, <4>2, FinLastMoves
            <4>4. CASE ReadPayload(k, l)
                BY <4>2, <4>3, <4>4 DEF ReadPayload
            <4>5. CASE ReadFin(k, l)
                <5>1. Head(wire[<<j, i>>]).tag = "Fin"
                    BY <4>1, <4>5 DEF ReadFin
                <5>2. wire'[<<j, i>>] = <<>>
                    BY <1>0, <4>2, <5>1, FinLastMoves
                <5>3. ~Unsent(j, i, 3)
                    BY <1>0, <4>2, <5>1, CarriesTail, NoFinBefore
                <5>4. QED
                    BY <4>3, <5>2, <5>3
            <4>6. QED
                BY <2>2, <4>4, <4>5
        <3>4. QED
            BY <3>2, <3>3
    <2>3. CASE SendRound(k, l) \/ SendFin(k, l)
        <3>1. /\ round[k] \in 1..3 /\ l \in todo[k]
              /\ Push(k, l, FrameOf(k, round[k]))
              /\ UNCHANGED fins
            BY <2>3 DEF SendRound, SendFin, FrameOf
        <3>2. CASE <<k, l>> # <<j, i>> \/ closed[l]
            <4>1. wire'[<<j, i>>] = wire[<<j, i>>]
                BY <1>0, <2>0, <3>1, <3>2 DEF Push
            <4>2. QED
                BY <1>3, <3>1, <4>1
        <3>3. CASE <<k, l>> = <<j, i>> /\ ~closed[l]
            <4>1. k = j /\ l = i
                BY <3>3
            <4>2. wire'[<<j, i>>] = Append(wire[<<j, i>>], FrameOf(j, round[j]))
                BY <1>0, <3>1, <3>3, <4>1 DEF Push
            <4>3. Unsent(j, i, 3)
                BY <3>1, <4>1 DEF Unsent
            <4>4. \A f \in Carries(wire[<<j, i>>]) : f.tag # "Fin"
                BY <4>3, NoFinBefore
            <4>5. FrameOf(j, round[j]) \in Frames
                BY <1>0, <3>1, <4>1, FrameOfTypes
            <4>6. FinLast(wire'[<<j, i>>])
                BY <1>0, <4>2, <4>4, <4>5, FinLastMoves
            <4>7. QED
                BY <1>0, <3>1, <4>3, <4>6
        <3>4. QED
            BY <3>2, <3>3
    <2>4. QED
        BY <1>4, <2>1, <2>2, <2>3 DEF LinkStep
<1>5. ASSUME NEW k \in Operators, LocalStep(k)
      PROVE  UNCHANGED <<wire, fins>>
    BY <1>5 DEF LocalStep, MeshUp, TakeFrame, EnterRound2, Conclude, CheaterConcludes, meshVars
<1>6. ASSUME NEW k \in Operators, NEW how, NEW why, Ends(k, how, why)
      PROVE  FinLast(wire'[<<j, i>>]) /\ (j \in fins'[i] => wire'[<<j, i>>] = <<>> /\ ~Unsent(j, i, 3))
    <2>1. Teardown(k) /\ fins' = [fins EXCEPT ![k] = {}]
        BY <1>6, EndsFacts DEF Ends, Exit
    <2>2. \/ wire'[<<j, i>>] = wire[<<j, i>>]
          \/ wire'[<<j, i>>] = <<>>
          \/ \E m \in 0..Len(wire[<<j, i>>]) : wire'[<<j, i>>] = SubSeq(wire[<<j, i>>], 1, m)
        BY <1>0, <2>1, TeardownOn
    <2>3. FinLast(wire'[<<j, i>>])
        <3>1. CASE wire'[<<j, i>>] = wire[<<j, i>>]
            BY <1>0, <3>1
        <3>2. CASE wire'[<<j, i>>] = <<>>
            <4>1. Len(wire'[<<j, i>>]) = 0
                BY <3>2
            <4>2. QED
                BY <4>1 DEF FinLast
        <3>3. ASSUME NEW m \in 0..Len(wire[<<j, i>>]),
                     wire'[<<j, i>>] = SubSeq(wire[<<j, i>>], 1, m)
              PROVE  FinLast(wire'[<<j, i>>])
            BY <1>0, <3>3, FinLastMoves
        <3>4. QED
            BY <2>2, <3>1, <3>2, <3>3
    <2>4. wire[<<j, i>>] = <<>> => wire'[<<j, i>>] = <<>>
        <3>1. Carries(wire'[<<j, i>>]) \subseteq Carries(wire[<<j, i>>]) /\ wire'[<<j, i>>] \in Seq(Frames)
            BY <1>0, <2>1, TeardownCuts
        <3>2. QED
            BY <3>1, CarriesNothing, CarriesSome
    <2>5. QED
        BY <1>0, <2>1, <2>3, <2>4
<1>7. CASE UNCHANGED vars
    BY <1>3, <1>7 DEF vars, meshVars
<1>8. QED
    BY <1>3, <1>4, <1>5, <1>6, <1>7, FrostSteps

LEMMA FinInit == Init => FinInv
<1> SUFFICES ASSUME Init PROVE FinInv
    OBVIOUS
<1>1. ASSUME NEW i \in Operators, NEW j \in Peers(i)
      PROVE  FinLast(wire[<<j, i>>]) /\ j \notin fins[i]
    <2>1. wire[<<j, i>>] = <<>> /\ fins[i] = {}
        BY LinkTypes DEF Init, MeshInit
    <2>2. QED
        BY <2>1 DEF FinLast
<1>2. QED
    BY <1>1 DEF FinInv

\* What j has for i in a round is somewhere, or is not needed any more.
Had(j, i, r) ==
    \/ r # 3 /\ round[i] > r
    \/ r = round[i] /\ j \in Collected(i)
    \/ r = 3 /\ j \in fins[i]

SomePlace(j, i, r) == Unsent(j, i, r) \/ Underway(j, i, r) \/ Queued(j, i, r) \/ Had(j, i, r)

KeptInv ==
    \A i \in Operators : \A j \in Peers(i) : \A r \in 1..3 :
        Running(i) /\ (Running(j) \/ LeftInOrder(j)) => SomePlace(j, i, r)

LEMMA KeptInit == Init => KeptInv
<1> SUFFICES ASSUME Init, NEW i \in Operators, NEW j \in Peers(i), NEW r \in 1..3
             PROVE  SomePlace(j, i, r)
    BY DEF KeptInv
<1>1. j \in Operators
    BY LinkTypes
<1>2. r > round[j]
    BY <1>1 DEF Init
<1>3. QED
    BY <1>2 DEF SomePlace, Unsent

LEMMA SomePlaceStays ==
    ASSUME NEW j, NEW i, NEW r, SomePlace(j, i, r),
           Unsent(j, i, r) => SomePlace(j, i, r)',
           Underway(j, i, r) => SomePlace(j, i, r)',
           Queued(j, i, r) => SomePlace(j, i, r)',
           Had(j, i, r) => SomePlace(j, i, r)'
    PROVE  SomePlace(j, i, r)'
BY DEF SomePlace

\* Who runs, or has left in order, ran before.
LEMMA RanBefore ==
    ASSUME TypeOK, [Next]_vars, NEW i \in Operators
    PROVE  /\ Running(i)' => Running(i)
           /\ LeftInOrder(i)' => Running(i) \/ LeftInOrder(i)
<1>0. status \in [Operators -> {"running", "done", "aborted", "crashed"}]
    BY DEF TypeOK
<1>1. CASE UNCHANGED <<status, cause>>
    BY <1>1 DEF Running, LeftInOrder
<1>2. ASSUME NEW k \in Operators, NEW l \in Peers(k), LinkStep(k, l)
      PROVE  UNCHANGED <<status, cause>>
    BY <1>2, LinkStepFrame
<1>3. ASSUME NEW k \in Operators, LocalStep(k)
      PROVE  UNCHANGED <<status, cause>>
    BY <1>3 DEF LocalStep, MeshUp, TakeFrame, EnterRound2, Conclude, CheaterConcludes
<1>4. ASSUME NEW k \in Operators, NEW how, NEW why, Ends(k, how, why)
      PROVE  /\ Running(i)' => Running(i)
             /\ LeftInOrder(i)' => Running(i) \/ LeftInOrder(i)
    <2>1. /\ status' = [status EXCEPT ![k] = how] /\ how # "running"
          /\ cause' = [cause EXCEPT ![k] = why]
          /\ Running(k)
        BY <1>4, EndsFacts DEF Ends
    <2>2. QED
        BY <1>0, <2>1 DEF Running, LeftInOrder, TypeOK
<1>5. CASE UNCHANGED vars
    BY <1>1, <1>5 DEF vars, driverVars
<1>6. QED
    BY <1>1, <1>2, <1>3, <1>4, <1>5, FrostSteps

\* A frame is read: it is queued, or its sender's FIN is noted.
LEMMA KeptReads ==
    ASSUME TypeOK, PlaceInv, NEW k \in Operators, NEW l \in Peers(k),
           ReadPayload(k, l) \/ ReadFin(k, l), UNCHANGED driverVars,
           NEW i \in Operators, NEW j \in Peers(i), NEW r \in 1..3, SomePlace(j, i, r)
    PROVE  SomePlace(j, i, r)'
<1>0. /\ j \in Operators /\ <<j, i>> \in Links
      /\ l \in Operators /\ <<l, k>> \in Links
      /\ wire \in [Links -> Seq(Frames)] /\ wire[<<l, k>>] \in Seq(Frames)
      /\ inbox \in [Operators -> Seq(Envelopes)] /\ inbox[i] \in Seq(Envelopes)
      /\ fins \in [Operators -> SUBSET Operators]
    BY LinkTypes, WireType DEF TypeOK
<1>1. /\ wire[<<l, k>>] # <<>> /\ wire' = [wire EXCEPT ![<<l, k>>] = Tail(@)]
      /\ UNCHANGED <<round, todo, got>>
      /\ \A m \in Operators : fins[m] \subseteq fins'[m]
    BY <1>0 DEF ReadPayload, ReadFin, driverVars
<1>2. Carries(inbox[i]) \subseteq Carries(inbox'[i])
    <2>1. CASE UNCHANGED inbox
        BY <2>1
    <2>2. CASE ReadPayload(k, l)
        <3>1. inbox' = [inbox EXCEPT ![k] = Append(@, [from |-> l, frame |-> Head(wire[<<l, k>>])])]
            BY <2>2 DEF ReadPayload
        <3>2. CASE k = i
            BY <1>0, <3>1, <3>2, CarriesAppend
        <3>3. CASE k # i
            BY <1>0, <3>1, <3>3
        <3>4. QED
            BY <3>2, <3>3
    <2>3. QED
        BY <2>1, <2>2 DEF ReadFin
<1>3. Unsent(j, i, r) => Unsent(j, i, r)'
    BY <1>1 DEF Unsent
<1>4. Queued(j, i, r) => Queued(j, i, r)'
    BY <1>2 DEF Queued, Envelope, FrameOf, RoundFrame, FinFrame
<1>5. Had(j, i, r) => Had(j, i, r)'
    BY <1>1 DEF Had, Collected
<1>6. Underway(j, i, r) => SomePlace(j, i, r)'
    <2>0. SUFFICES ASSUME FrameOf(j, r) \in Carries(wire[<<j, i>>])
                   PROVE  SomePlace(j, i, r)'
        BY DEF Underway
    <2>1. CASE <<l, k>> # <<j, i>>
        <3>1. wire'[<<j, i>>] = wire[<<j, i>>]
            BY <1>0, <1>1, <2>1
        <3>2. Underway(j, i, r)'
            BY <2>0, <3>1 DEF Underway, FrameOf, RoundFrame, FinFrame
        <3>3. QED
            BY <3>2 DEF SomePlace
    <2>2. CASE <<l, k>> = <<j, i>>
        <3>0. l = j /\ k = i /\ wire'[<<j, i>>] = Tail(wire[<<j, i>>])
            BY <1>0, <1>1, <2>2
        <3>1. CASE FrameOf(j, r) \in Carries(Tail(wire[<<j, i>>]))
            <4>1. Underway(j, i, r)'
                BY <3>0, <3>1 DEF Underway, FrameOf, RoundFrame, FinFrame
            <4>2. QED
                BY <4>1 DEF SomePlace
        <3>2. CASE FrameOf(j, r) = Head(wire[<<j, i>>]) /\ ReadPayload(k, l)
            <4>1. inbox'[i] = Append(inbox[i], [from |-> j, frame |-> FrameOf(j, r)])
                BY <1>0, <3>0, <3>2 DEF ReadPayload
            <4>2. Envelope(j, r) \in Carries(inbox'[i])
                BY <1>0, <4>1, CarriesAppend DEF Envelope
            <4>3. Queued(j, i, r)'
                BY <4>2 DEF Queued, Envelope, FrameOf, RoundFrame, FinFrame
            <4>4. QED
                BY <4>3 DEF SomePlace
        <3>3. CASE FrameOf(j, r) = Head(wire[<<j, i>>]) /\ ReadFin(k, l)
            <4>1. FrameOf(j, r).tag = "Fin" /\ j \in fins'[i]
                BY <1>0, <3>0, <3>3 DEF ReadFin
            <4>2. r = 3
                BY <1>0, <4>1, FrameOfTypes, FrameTypes
            <4>3. QED
                BY <4>1, <4>2 DEF SomePlace, Had
        <3>4. FrameOf(j, r) = Head(wire[<<j, i>>]) \/ FrameOf(j, r) \in Carries(Tail(wire[<<j, i>>]))
            BY <1>0, <1>1, <2>0, <2>2, CarriesHeadTail
        <3>5. QED
            BY <3>1, <3>2, <3>3, <3>4
    <2>3. QED
        BY <2>1, <2>2
<1>7. QED
    BY <1>3, <1>4, <1>5, <1>6, SomePlaceStays DEF SomePlace

\* A frame is sent to an operator that runs: it is underway.
LEMMA KeptSends ==
    ASSUME TypeOK, NEW k \in Operators, NEW l \in Peers(k),
           round[k] \in 1..3, l \in todo[k],
           Push(k, l, FrameOf(k, round[k])),
           todo' = [todo EXCEPT ![k] = @ \ {l}],
           UNCHANGED <<inbox, fins, round, got>>,
           NEW i \in Operators, NEW j \in Peers(i), NEW r \in 1..3, SomePlace(j, i, r),
           ~closed[i]
    PROVE  SomePlace(j, i, r)'
<1>0. /\ j \in Operators /\ <<j, i>> \in Links
      /\ l \in Operators /\ <<k, l>> \in Links
      /\ wire \in [Links -> Seq(Frames)] /\ wire[<<j, i>>] \in Seq(Frames)
      /\ todo \in [Operators -> SUBSET Operators]
    BY LinkTypes, WireType DEF TypeOK
<1>1. \/ wire'[<<j, i>>] = wire[<<j, i>>]
      \/ /\ <<k, l>> = <<j, i>>
         /\ wire'[<<j, i>>] = Append(wire[<<j, i>>], FrameOf(k, round[k]))
    BY <1>0 DEF Push
<1>2. Underway(j, i, r) => Underway(j, i, r)'
    <2>1. Carries(wire[<<j, i>>]) \subseteq Carries(wire'[<<j, i>>])
        BY <1>0, <1>1, CarriesAppend
    <2>2. QED
        BY <2>1 DEF Underway, FrameOf, RoundFrame, FinFrame
<1>3. Queued(j, i, r) => Queued(j, i, r)'
    BY DEF Queued, Envelope, FrameOf, RoundFrame, FinFrame
<1>4. Had(j, i, r) => Had(j, i, r)'
    BY DEF Had, Collected
<1>5. CASE k = j /\ l = i /\ r = round[k]
    <2>1. wire'[<<j, i>>] = Append(wire[<<j, i>>], FrameOf(j, r))
        BY <1>0, <1>5 DEF Push
    <2>2. Underway(j, i, r)'
        BY <1>0, <2>1, CarriesAppend DEF Underway, FrameOf, RoundFrame, FinFrame
    <2>3. QED
        BY <2>2 DEF SomePlace
<1>6. CASE ~(k = j /\ l = i /\ r = round[k])
    <2>1. Unsent(j, i, r) => Unsent(j, i, r)'
        BY <1>0, <1>6 DEF Unsent
    <2>2. QED
        BY <1>2, <1>3, <1>4, <2>1, SomePlaceStays DEF SomePlace
<1>7. QED
    BY <1>5, <1>6

LEMMA KeptTakes ==
    ASSUME TypeOK, NEW k \in Operators, TakeFrame(k),
           NEW i \in Operators, NEW j \in Peers(i), NEW r \in 1..3, SomePlace(j, i, r)
    PROVE  SomePlace(j, i, r)'
<1>0. /\ j \in Operators
      /\ inbox \in [Operators -> Seq(Envelopes)] /\ inbox[k] \in Seq(Envelopes)
      /\ got \in [Operators -> SUBSET Envelopes]
    BY LinkTypes DEF TypeOK
<1>1. /\ inbox[k] # <<>> /\ Head(inbox[k]).frame.tag = RoundTag[round[k]]
      /\ round[k] \in {1, 2}
      /\ inbox' = [inbox EXCEPT ![k] = Tail(@)]
      /\ got' = [got EXCEPT ![k] = @ \cup {Head(inbox[k])}]
      /\ UNCHANGED <<wire, fins, round, todo>>
    BY DEF TakeFrame, Expected, Collecting, Waiting
<1>2. Unsent(j, i, r) => Unsent(j, i, r)'
    BY <1>1 DEF Unsent
<1>3. Underway(j, i, r) => Underway(j, i, r)'
    BY <1>1 DEF Underway, FrameOf, RoundFrame, FinFrame
<1>4. Had(j, i, r) => Had(j, i, r)'
    <2>1. got[i] \subseteq got'[i]
        BY <1>0, <1>1
    <2>2. QED
        BY <1>1, <2>1 DEF Had, Collected
<1>5. Queued(j, i, r) => SomePlace(j, i, r)'
    <2>0. SUFFICES ASSUME Envelope(j, r) \in Carries(inbox[i])
                   PROVE  SomePlace(j, i, r)'
        BY DEF Queued
    <2>1. CASE k = i /\ Envelope(j, r) = Head(inbox[i])
        <3>1. FrameOf(j, r).tag = RoundTag[round[i]] /\ Head(inbox[i]).from = j
            BY <1>1, <2>1 DEF Envelope
        <3>2. r = round[i]
            BY <1>0, <1>1, <2>1, <3>1, FrameOfTypes, FrameTypes
        <3>3. j \in Collected(i)'
            BY <1>0, <1>1, <2>1, <3>1 DEF Collected
        <3>4. QED
            BY <1>1, <3>2, <3>3 DEF SomePlace, Had
    <2>2. CASE ~(k = i /\ Envelope(j, r) = Head(inbox[i]))
        <3>1. CASE k = i
            <4>1. inbox'[i] = Tail(inbox[i]) /\ Envelope(j, r) # Head(inbox[i])
                BY <1>0, <1>1, <2>2, <3>1
            <4>2. Envelope(j, r) \in Carries(Tail(inbox[i]))
                BY <1>0, <1>1, <2>0, <3>1, <4>1, CarriesHeadTail
            <4>3. Queued(j, i, r)'
                BY <4>1, <4>2 DEF Queued, Envelope, FrameOf, RoundFrame, FinFrame
            <4>4. QED
                BY <4>3 DEF SomePlace
        <3>2. CASE k # i
            <4>1. inbox'[i] = inbox[i]
                BY <1>0, <1>1, <3>2
            <4>2. Queued(j, i, r)'
                BY <2>0, <4>1 DEF Queued, Envelope, FrameOf, RoundFrame, FinFrame
            <4>3. QED
                BY <4>2 DEF SomePlace
        <3>3. QED
            BY <3>1, <3>2
    <2>3. QED
        BY <2>1, <2>2
<1>6. QED
    BY <1>2, <1>3, <1>4, <1>5, SomePlaceStays DEF SomePlace

LEMMA KeptGoesOn ==
    ASSUME TypeOK, NEW k \in Operators, round[k] \in 0..2, todo[k] = {},
           EnterRound(k, round[k] + 1), UNCHANGED <<wire, inbox, fins>>,
           NEW i \in Operators, NEW j \in Peers(i), NEW r \in 1..3, SomePlace(j, i, r)
    PROVE  SomePlace(j, i, r)'
<1>0. /\ j \in Operators /\ i \in Peers(j)
      /\ round \in [Operators -> 0..3] /\ todo \in [Operators -> SUBSET Operators]
      /\ got \in [Operators -> SUBSET Envelopes]
    BY LinkTypes DEF TypeOK, Peers
<1>1. /\ round' = [round EXCEPT ![k] = round[k] + 1]
      /\ todo' = [todo EXCEPT ![k] = Peers(k)]
      /\ got' = [got EXCEPT ![k] = {}]
    BY DEF EnterRound
<1>2. Unsent(j, i, r) => Unsent(j, i, r)'
    <2>1. CASE k = j
        BY <1>0, <1>1, <2>1 DEF Unsent
    <2>2. CASE k # j
        BY <1>0, <1>1, <2>2 DEF Unsent
    <2>3. QED
        BY <2>1, <2>2
<1>3. Underway(j, i, r) => Underway(j, i, r)'
    BY DEF Underway, FrameOf, RoundFrame, FinFrame
<1>4. Queued(j, i, r) => Queued(j, i, r)'
    BY DEF Queued, Envelope, FrameOf, RoundFrame, FinFrame
<1>5. Had(j, i, r) => Had(j, i, r)'
    <2>1. CASE k = i
        BY <1>0, <1>1, <2>1 DEF Had
    <2>2. CASE k # i
        BY <1>0, <1>1, <2>2 DEF Had, Collected
    <2>3. QED
        BY <2>1, <2>2
<1>6. QED
    BY <1>2, <1>3, <1>4, <1>5, SomePlaceStays DEF SomePlace

\* A process that ends resets only connections that hold nothing for those it
\* keeps waiting: who leaves in order has read all there was.
LEMMA KeptEnds ==
    ASSUME TypeOK, FinInv, NEW k \in Operators, NEW how, NEW why, Ends(k, how, why),
           NEW i \in Operators, NEW j \in Peers(i), NEW r \in 1..3, SomePlace(j, i, r),
           Running(i)', Running(j)' \/ LeftInOrder(j)'
    PROVE  SomePlace(j, i, r)'
<1>0. /\ j \in Operators /\ i \in Peers(j) /\ i # j
      /\ <<j, i>> \in Links /\ <<j, i>>[1] = j /\ <<j, i>>[2] = i
      /\ wire \in [Links -> Seq(Frames)]
    BY LinkTypes, WireType DEF Peers
<1>1. /\ status' = [status EXCEPT ![k] = how] /\ how # "running"
      /\ cause' = [cause EXCEPT ![k] = why]
      /\ todo' = [todo EXCEPT ![k] = {}]
      /\ got' = [got EXCEPT ![k] = {}]
      /\ inbox' = [inbox EXCEPT ![k] = <<>>]
      /\ fins' = [fins EXCEPT ![k] = {}]
      /\ UNCHANGED round
    BY EndsFacts
<1>2. k # i
    BY <1>1 DEF Running, TypeOK
<1>3. got'[i] = got[i] /\ inbox'[i] = inbox[i] /\ fins'[i] = fins[i]
    BY <1>1, <1>2 DEF TypeOK
<1>4. k = j => round[j] = 3 /\ todo[j] = {} /\ fins[j] = Peers(j)
    <2>1. CASE k = j
        <3>1. status'[j] = how /\ cause'[j] = why
            BY <1>0, <1>1, <2>1 DEF TypeOK
        <3>2. how = "done" /\ why = "none"
            BY <1>1, <3>1 DEF Running, LeftInOrder
        <3>3. QED
            BY <2>1, <3>2 DEF Ends
    <2>2. QED
        BY <2>1
<1>5. wire'[<<j, i>>] = wire[<<j, i>>]
    <2>1. Teardown(k)
        BY DEF Ends, Exit
    <2>2. j = k => wire[<<i, k>>] = <<>>
        BY <1>0, <1>4 DEF FinInv
    <2>3. QED
        BY <1>0, <1>2, <2>1, <2>2, TeardownSpares
<1>6. Unsent(j, i, r) => Unsent(j, i, r)'
    <2>1. CASE k = j
        BY <1>4, <2>1 DEF Unsent
    <2>2. CASE k # j
        BY <1>0, <1>1, <2>2 DEF Unsent, TypeOK
    <2>3. QED
        BY <2>1, <2>2
<1>7. Underway(j, i, r) => Underway(j, i, r)'
    BY <1>5 DEF Underway, FrameOf, RoundFrame, FinFrame
<1>8. Queued(j, i, r) => Queued(j, i, r)'
    BY <1>3 DEF Queued, Envelope, FrameOf, RoundFrame, FinFrame
<1>9. Had(j, i, r) => Had(j, i, r)'
    BY <1>1, <1>3 DEF Had, Collected
<1>10. QED
    BY <1>6, <1>7, <1>8, <1>9, SomePlaceStays DEF SomePlace

LEMMA KeptNext ==
    ASSUME TypeOK, ProcessInv, PlaceInv, ConnInv, FinInv, KeptInv, [Next]_vars
    PROVE  KeptInv'
<1> SUFFICES ASSUME NEW i \in Operators, NEW j \in Peers(i), NEW r \in 1..3,
                    Running(i)', Running(j)' \/ LeftInOrder(j)'
             PROVE  SomePlace(j, i, r)'
    BY DEF KeptInv
<1>0. j \in Operators
    BY LinkTypes
<1>1. Running(i) /\ SomePlace(j, i, r)
    BY <1>0, RanBefore DEF KeptInv
<1>2. ~closed[i]
    BY <1>1 DEF ProcessInv
<1>3. CASE UNCHANGED vars
    BY <1>1, <1>3 DEF vars, meshVars, driverVars, SomePlace, Unsent, Underway, Queued, Had,
                     Collected, FrameOf, RoundFrame, FinFrame, Envelope
<1>4. ASSUME NEW k \in Operators, NEW l \in Peers(k), LinkStep(k, l)
      PROVE  SomePlace(j, i, r)'
    <2>1. CASE Connect(k, l) \/ (ReadError(k, l) /\ UNCHANGED driverVars)
        <3>1. UNCHANGED <<wire, inbox, fins, round, todo, got>>
            BY <2>1 DEF Connect, Handshake, ReadError, driverVars
        <3>2. QED
            BY <1>1, <3>1 DEF SomePlace, Unsent, Underway, Queued, Had, Collected, FrameOf,
                             RoundFrame, FinFrame, Envelope
    <2>2. CASE (ReadPayload(k, l) \/ ReadFin(k, l)) /\ UNCHANGED driverVars
        BY <1>1, <2>2, KeptReads
    <2>3. CASE SendRound(k, l) \/ SendFin(k, l)
        <3>1. /\ round[k] \in 1..3 /\ l \in todo[k]
              /\ Push(k, l, FrameOf(k, round[k]))
              /\ todo' = [todo EXCEPT ![k] = @ \ {l}]
              /\ UNCHANGED <<inbox, fins, round, got>>
            BY <2>3 DEF SendRound, SendFin, FrameOf
        <3>2. QED
            BY <1>1, <1>2, <3>1, KeptSends
    <2>4. QED
        BY <1>4, <2>1, <2>2, <2>3 DEF LinkStep
<1>5. ASSUME NEW k \in Operators, LocalStep(k)
      PROVE  SomePlace(j, i, r)'
    <2>1. CASE TakeFrame(k)
        BY <1>1, <2>1, KeptTakes
    <2>2. CASE ~TakeFrame(k)
        <3>1. /\ round[k] \in 0..2 /\ todo[k] = {}
              /\ EnterRound(k, round[k] + 1) /\ UNCHANGED <<wire, inbox, fins>>
            BY <1>5, <2>2 DEF LocalStep, MeshUp, EnterRound2, Conclude, CheaterConcludes,
                              EnterFin, HasAll, Waiting, meshVars, ConnInv
        <3>2. QED
            BY <1>1, <3>1, KeptGoesOn
    <2>3. QED
        BY <2>1, <2>2
<1>6. ASSUME NEW k \in Operators, NEW how, NEW why, Ends(k, how, why)
      PROVE  SomePlace(j, i, r)'
    BY <1>1, <1>6, KeptEnds
<1>7. QED
    BY <1>3, <1>4, <1>5, <1>6, FrostSteps

\* Frames and FINs come from peers; a process that has ended sends nothing.
PeersInv ==
    \A i \in Operators :
        /\ \A j \in fins[i] : j \in Peers(i)
        /\ \A e \in got[i] : e.from \in Peers(i)
        /\ ~Running(i) => todo[i] = {}

LEMMA PeersInit == Init => PeersInv
BY DEF Init, MeshInit, PeersInv, Running

LEMMA PeersNext ==
    ASSUME TypeOK, PlaceInv, PeersInv, [Next]_vars
    PROVE  PeersInv'
<1> USE DEF PeersInv
<1>0. /\ fins \in [Operators -> SUBSET Operators]
      /\ todo \in [Operators -> SUBSET Operators]
      /\ got \in [Operators -> SUBSET Envelopes]
      /\ inbox \in [Operators -> Seq(Envelopes)]
      /\ status \in [Operators -> {"running", "done", "aborted", "crashed"}]
    BY DEF TypeOK
<1>1. CASE UNCHANGED vars
    BY <1>1 DEF vars, meshVars, driverVars, Running
<1>2. ASSUME NEW k \in Operators, NEW l \in Peers(k), LinkStep(k, l)
      PROVE  PeersInv'
    <2>1. UNCHANGED <<got, status>>
        BY <1>2, LinkStepFrame
    <2>2. UNCHANGED fins \/ fins' = [fins EXCEPT ![k] = @ \cup {l}]
        BY <1>2 DEF LinkStep, Connect, Handshake, ReadPayload, ReadFin, ReadError, SendRound,
                    SendFin
    <2>3. UNCHANGED todo \/ todo' = [todo EXCEPT ![k] = @ \ {l}]
        BY <1>2 DEF LinkStep, Connect, ReadPayload, ReadFin, ReadError, SendRound, SendFin,
                    driverVars
    <2>4. ASSUME NEW m \in Operators, NEW j \in fins'[m]
          PROVE  j \in Peers(m)
        <3>1. fins'[m] = fins[m] \/ (m = k /\ fins'[m] = fins[k] \cup {l})
            BY <1>0, <2>2
        <3>2. QED
            BY <3>1
    <2>5. \A m \in Operators : todo'[m] \subseteq todo[m]
        BY <1>0, <2>3
    <2>6. QED
        BY <2>1, <2>4, <2>5 DEF Running
<1>3. ASSUME NEW k \in Operators, LocalStep(k)
      PROVE  PeersInv'
    <2>0. UNCHANGED <<fins, status>> /\ Running(k)
        BY <1>3 DEF LocalStep, MeshUp, TakeFrame, EnterRound2, Conclude, CheaterConcludes,
                    HasAll, Collecting, Waiting, meshVars
    <2>1. CASE TakeFrame(k)
        <3>1. /\ got' = [got EXCEPT ![k] = @ \cup {Head(inbox[k])}] /\ UNCHANGED todo
              /\ inbox[k] # <<>>
            BY <2>1 DEF TakeFrame
        <3>2. Head(inbox[k]) \in Carries(inbox[k])
            BY <1>0, <3>1, CarriesTail
        <3>3. PICK j \in Peers(k), q \in {1, 2} : Head(inbox[k]) = Envelope(j, q)
            BY <3>2 DEF PlaceInv, OriginInv
        <3>4. Head(inbox[k]).from \in Peers(k)
            BY <3>3, EnvelopeParts
        <3>5. QED
            BY <1>0, <2>0, <3>1, <3>4 DEF Running
    <2>2. CASE ~TakeFrame(k)
        <3>1. EnterRound(k, round[k] + 1)
            BY <1>3, <2>2 DEF LocalStep, MeshUp, EnterRound2, Conclude, CheaterConcludes,
                              EnterFin, HasAll
        <3>2. /\ todo' = [todo EXCEPT ![k] = Peers(k)]
              /\ got' = [got EXCEPT ![k] = {}]
            BY <3>1 DEF EnterRound
        <3>3. QED
            BY <1>0, <2>0, <3>2 DEF Running
    <2>3. QED
        BY <2>1, <2>2
<1>4. ASSUME NEW k \in Operators, NEW how, NEW why, Ends(k, how, why)
      PROVE  PeersInv'
    <2>1. /\ status' = [status EXCEPT ![k] = how]
          /\ todo' = [todo EXCEPT ![k] = {}]
          /\ got' = [got EXCEPT ![k] = {}]
          /\ fins' = [fins EXCEPT ![k] = {}]
        BY <1>4, EndsFacts
    <2>2. QED
        BY <1>0, <2>1 DEF Running
<1>5. QED
    BY <1>1, <1>2, <1>3, <1>4, FrostSteps

\* Everything that is known of a session.
WholeInv ==
    SessionInv /\ PlaceInv /\ ConnInv /\ FinInv /\ KeptInv /\ PeersInv

LEMMA WholeInvariant == Spec => []WholeInv
<1>1. Init => WholeInv
    BY SessionInit, PlaceInit, ConnInit, FinInit, KeptInit, PeersInit DEF WholeInv
<1>2. WholeInv /\ [Next]_vars => WholeInv'
    <2> SUFFICES ASSUME WholeInv, [Next]_vars PROVE WholeInv'
        OBVIOUS
    <2>1. TypeOK /\ TypeOK' /\ ProcessInv
        BY FrostNextType DEF WholeInv, SessionInv
    <2>2. SessionInv'
        BY SessionNext DEF WholeInv
    <2>3. PlaceInv' /\ ConnInv' /\ FinInv' /\ KeptInv' /\ PeersInv'
        BY <2>1, PlaceNext, ConnNext, FinNext, KeptNext, PeersNext DEF WholeInv
    <2>4. QED
        BY <2>2, <2>3 DEF WholeInv
<1>3. QED
    BY <1>1, <1>2, PTL DEF Spec

\* Where nobody can go on, the mesh of everyone who runs is up and nobody has
\* anything left to send.
LEMMA StalledIsUp ==
    ASSUME WholeInv, \A k \in Operators : ~CanGo(k), NEW i \in Operators, Running(i)
    PROVE  /\ round[i] \in 1..3 /\ todo[i] = {} /\ conns[i] = Peers(i) /\ ~closed[i]
<1> USE DEF WholeInv
<1>1. /\ round[i] \in 0..3
      /\ ~closed[i]
      /\ round[i] # 0 => conns[i] = Peers(i)
      /\ \A j \in todo[i] : j \in Peers(i)
    BY DEF SessionInv, TypeOK, ProcessInv, ConnInv
<1>2. round[i] # 0
    <2> SUFFICES ASSUME round[i] = 0 PROVE FALSE
        OBVIOUS
    <2>1. /\ ~MeshComplete(i)
          /\ \A j \in Peers(i) \ conns[i] : ~closed[j]
        BY DEF CanGo, CanMesh
    <2>2. PICK j \in Peers(i) \ conns[i] : ~closed[j]
        BY <2>1 DEF MeshComplete, ConnInv
    <2>3. j \in Operators /\ i \in Peers(j) /\ j # i /\ i \in Nat /\ j \in Nat
        BY LinkTypes, OperatorAssumption DEF Peers
    <2>4. i \notin conns[j]
        BY <2>2, <2>3 DEF ConnInv
    <2>5. CASE i < j
        BY <1>1, <2>2, <2>5 DEF CanGo, CanMesh
    <2>6. CASE j < i
        <3>1. CanMesh(j)
            BY <1>1, <2>2, <2>3, <2>4, <2>6 DEF CanMesh
        <3>2. QED
            BY <2>3, <3>1 DEF CanGo
    <2>7. QED
        BY <2>3, <2>5, <2>6
<1>3. todo[i] = {}
    BY <1>1, <1>2 DEF CanGo, CanSend
<1>4. QED
    BY <1>1, <1>2, <1>3

\* Who waits for the frames of a round waits for somebody who runs and is
\* behind.
LEMMA StalledIsBehind ==
    ASSUME WholeInv, \A k \in Operators : ~CanGo(k),
           NEW i \in Operators, Running(i), round[i] # 3
    PROVE  \E j \in Operators : Running(j) /\ round[j] < round[i]
<1> USE DEF WholeInv
<1>1. round[i] \in {1, 2} /\ todo[i] = {} /\ conns[i] = Peers(i) /\ ~closed[i]
    BY StalledIsUp
<1>2. ~HasAll(i) /\ ~(i \in Cheaters /\ round[i] = 2)
    BY <1>1 DEF CanGo, CanConclude
<1>3. Collecting(i)
    BY <1>1, <1>2 DEF HasAll, Collecting, Waiting
<1>4. inbox[i] = <<>> /\ errs[i] = {}
    BY <1>3 DEF CanGo, CanCollect
<1>5. ~finished[i]
    BY <1>1 DEF SessionInv, ProcessInv
<1>6. ASSUME NEW j \in Peers(i)
      PROVE  wire[<<j, i>>] = <<>> /\ ~closed[j]
    <2>1. ~CanRead(i, j)
        BY DEF CanGo
    <2>2. Len(inbox[i]) < InboxCapacity
        BY <1>4, InboxAssumption
    <2>3. wire[<<j, i>>] = <<>>
        BY <1>1, <2>1, <2>2 DEF CanRead
    <2>4. QED
        BY <1>1, <1>4, <1>5, <2>1, <2>3 DEF CanRead
<1>7. PICK j \in Peers(i) : j \notin Collected(i)
    <2>1. Collected(i) # Peers(i)
        BY <1>3 DEF Collecting
    <2>2. Collected(i) \subseteq Peers(i)
        BY DEF Collected, PeersInv
    <2>3. QED
        BY <2>1, <2>2
<1>8. j \in Operators
    BY LinkTypes
<1>9. Running(j)
    BY <1>6, <1>8 DEF SessionInv, ProcessInv
<1>10. round[i] \in 1..3 /\ SomePlace(j, i, round[i])
    BY <1>1, <1>9 DEF KeptInv
<1>11. ~Underway(j, i, round[i]) /\ ~Queued(j, i, round[i])
    BY <1>4, <1>6, CarriesNothing DEF Underway, Queued
<1>12. ~Had(j, i, round[i])
    BY <1>1, <1>7 DEF Had
<1>13. todo[j] = {} /\ round[j] \in 1..3
    BY <1>8, <1>9, StalledIsUp
<1>14. round[j] < round[i]
    BY <1>1, <1>10, <1>11, <1>12, <1>13 DEF SomePlace, Unsent
<1>15. QED
    BY <1>8, <1>9, <1>14

\* So nobody waits for the frames of a round.
LEMMA StalledIsFinished ==
    ASSUME WholeInv, \A k \in Operators : ~CanGo(k), NEW i \in Operators, Running(i)
    PROVE  round[i] = 3
<1>1. \A k \in Operators : Running(k) => round[k] \in 1..3
    BY StalledIsUp
<1>2. ASSUME NEW k \in Operators, Running(k), round[k] # 3
      PROVE  round[k] = 2
    <2>1. PICK j \in Operators : Running(j) /\ round[j] < round[k]
        BY <1>2, StalledIsBehind
    <2>2. QED
        BY <1>1, <1>2, <2>1
<1>3. ASSUME round[i] # 3
      PROVE  FALSE
    <2>1. PICK j \in Operators : Running(j) /\ round[j] < round[i]
        BY <1>3, StalledIsBehind
    <2>2. round[i] = 2
        BY <1>2, <1>3
    <2>3. round[j] = 1
        BY <1>1, <2>1, <2>2
    <2>4. QED
        BY <1>2, <2>1, <2>3
<1>4. QED
    BY <1>3

\* The inbox of an operator in the barrier has room for the frame that keeps a
\* FIN from it: it holds at most one frame of every other peer.
LEMMA InboxHasRoom ==
    ASSUME WholeInv, NEW i \in Operators, round[i] = 3, NEW j \in Peers(i),
           wire[<<j, i>>] # <<>>, Head(wire[<<j, i>>]).tag # "Fin",
           IsFiniteSet(Operators), Cardinality(Operators) <= InboxCapacity + 1
    PROVE  Len(inbox[i]) < InboxCapacity
<1> USE DEF WholeInv, PlaceInv
<1>0. /\ j \in Operators /\ <<j, i>> \in Links /\ <<j, i>>[1] = j /\ i \in Operators /\ i # j
      /\ wire[<<j, i>>] \in Seq(Frames)
      /\ inbox[i] \in Seq(Envelopes)
    BY LinkTypes, WireType DEF SessionInv, TypeOK, Peers
<1> DEFINE others == Peers(i) \ {j}
           box == {Envelope(k, 2) : k \in others}
<1>1. Cardinality(box) <= Cardinality(others) /\ IsFiniteSet(box)
    <2>1. IsFiniteSet(others)
        BY FS_RemoveElement DEF Peers
    <2> DEFINE f == [k \in others |-> Envelope(k, 2)]
    <2>2. f \in Surjection(others, box)
        BY DEF Surjection
    <2>3. QED
        BY <2>1, <2>2, FS_Surjection
<1>2. Cardinality(others) = Cardinality(Operators) - 2
    <2>1. /\ IsFiniteSet(Peers(i)) /\ Cardinality(Peers(i)) = Cardinality(Operators) - 1
        BY <1>0, FS_RemoveElement DEF Peers
    <2>2. Cardinality(Operators) \in Nat
        BY FS_CardinalityType
    <2>3. Cardinality(others) = Cardinality(Peers(i)) - 1
        BY <2>1, FS_RemoveElement
    <2>4. QED
        BY <2>1, <2>2, <2>3
<1>3. \A k \in Peers(i) : ~Queued(k, i, 1) /\ ~Underway(k, i, 1)
    <2>1. \A k \in Peers(i) : Taken(k, i, 1)
        BY DEF Taken
    <2>2. QED
        BY <2>1 DEF OnePlaceInv, OnePlace
<1>4. ~Queued(j, i, 2)
    <2>1. Head(wire[<<j, i>>]) \in Carries(wire[<<j, i>>])
        BY <1>0, CarriesTail
    <2>2. PICK q \in 1..3 : Head(wire[<<j, i>>]) = FrameOf(j, q)
        BY <1>0, <2>1 DEF OriginInv
    <2>3. Underway(j, i, q)
        BY <2>1, <2>2 DEF Underway
    <2>4. q # 3
        BY <1>0, <2>2, FrameOfTypes
    <2>5. q = 2
        BY <1>3, <2>3, <2>4
    <2>6. QED
        BY <2>3, <2>5 DEF OnePlaceInv, OnePlace
<1>5. Carries(inbox[i]) \subseteq box
    <2>1. ASSUME NEW e \in Carries(inbox[i])
          PROVE  e \in box
        <3>1. PICK k \in Peers(i), q \in {1, 2} : e = Envelope(k, q)
            BY DEF OriginInv
        <3>2. Queued(k, i, q)
            BY <2>1, <3>1 DEF Queued
        <3>3. q = 2 /\ k # j
            BY <1>3, <1>4, <3>2
        <3>4. k \in others
            BY <3>3 DEF Peers
        <3>5. QED
            BY <3>1, <3>3, <3>4
    <2>2. QED
        BY <2>1
<1>6. Len(inbox[i]) <= Cardinality(box)
    BY <1>0, <1>1, <1>5, OnceLength DEF OnceInv
<1>7. /\ Len(inbox[i]) \in Nat /\ Cardinality(Operators) \in Nat /\ InboxCapacity \in Nat
      /\ Cardinality(box) \in Nat /\ Cardinality(others) \in Nat
    <2>1. IsFiniteSet(others)
        BY FS_RemoveElement DEF Peers
    <2>2. QED
        BY <1>0, <1>1, <2>1, FS_CardinalityType, InboxAssumption
<1> HIDE DEF box, others
<1>8. QED
    BY <1>1, <1>2, <1>6, <1>7

\* Where nothing went wrong nobody waits in the barrier for a FIN that can not
\* be read.
LEMMA StalledIsEmpty ==
    ASSUME WholeInv, \A k \in Operators : ~CanGo(k),
           IsFiniteSet(Operators), Cardinality(Operators) <= InboxCapacity + 1,
           \A k \in Operators : cause[k] \notin RootCauses,
           NEW i \in Operators, Running(i)
    PROVE  FALSE
<1> USE DEF WholeInv
<1>1. round[i] = 3 /\ todo[i] = {} /\ conns[i] = Peers(i) /\ ~closed[i]
    BY StalledIsUp, StalledIsFinished
<1>2. \A k \in Operators : cause[k] = "none"
    BY DEF SessionInv, AbortHasRootCause, TypeOK, RootCauses
<1>3. PICK j \in Peers(i) : j \notin fins[i]
    <2>1. fins[i] # Peers(i)
        BY <1>1 DEF CanGo, InBarrier
    <2>2. QED
        BY <2>1 DEF PeersInv
<1>4. j \in Operators
    BY LinkTypes
<1>5. round[j] = 3 /\ todo[j] = {} /\ (Running(j) \/ LeftInOrder(j))
    <2>1. CASE Running(j)
        BY <1>4, <2>1, StalledIsUp, StalledIsFinished
    <2>2. CASE ~Running(j)
        <3>1. status[j] = "done" /\ cause[j] = "none"
            BY <1>2, <1>4, <2>2 DEF SessionInv, ProcessInv, TypeOK, Running
        <3>2. finished[j]
            BY <1>4, <3>1 DEF SessionInv, BarrierHolds
        <3>3. QED
            BY <1>4, <2>2, <3>1, <3>2 DEF SessionInv, ProcessInv, PeersInv, LeftInOrder
    <2>3. QED
        BY <2>1, <2>2
<1>6. SomePlace(j, i, 3)
    BY <1>5 DEF KeptInv
<1>7. ~Unsent(j, i, 3)
    BY <1>5 DEF Unsent
<1>8. ~Queued(j, i, 3)
    <2>1. ASSUME NEW k \in Peers(i), NEW q \in {1, 2}
          PROVE  Envelope(j, 3) # Envelope(k, q)
        <3>1. Envelope(j, 3).frame = FrameOf(j, 3)
            BY DEF Envelope
        <3>2. Envelope(j, 3).frame.tag = "Fin"
            BY <1>4, <3>1, FrameOfTypes
        <3>3. Envelope(k, q).frame.tag = RoundTag[q]
            BY EnvelopeParts
        <3>4. QED
            BY <3>2, <3>3, FrameTypes
    <2>2. QED
        BY <2>1 DEF PlaceInv, OriginInv, Queued
<1>9. ~Had(j, i, 3)
    <2>1. Collected(i) = {}
        BY <1>1 DEF SessionInv, GotInv, Collected
    <2>2. QED
        BY <1>3, <2>1 DEF Had
<1>10. Underway(j, i, 3)
    BY <1>6, <1>7, <1>8, <1>9 DEF SomePlace
<1>11. wire[<<j, i>>] # <<>>
    BY <1>10, CarriesNothing DEF Underway
<1>12. ~CanRead(i, j)
    BY DEF CanGo
<1>13. Head(wire[<<j, i>>]).tag # "Fin" /\ ~(Len(inbox[i]) < InboxCapacity)
    BY <1>1, <1>11, <1>12 DEF CanRead
<1>14. QED
    BY <1>1, <1>11, <1>13, InboxHasRoom

\* The core of the progress of a session (frost.go:57-85, network.go:479-502),
\* for any number of operators: no state is reached where an operator without
\* a result waits and nobody can do anything about it, and none, where nothing
\* went wrong, where somebody waits in the barrier; as long as the inbox has a
\* slot for every peer (256 in the code, network.go:81).
THEOREM SessionsNeverStall ==
    ASSUME IsFiniteSet(Operators), Cardinality(Operators) <= InboxCapacity + 1
    PROVE  Spec => []NeverStalls
<1>1. WholeInv => NeverStalls
    <2>1. SUFFICES ASSUME WholeInv, \A k \in Operators : ~CanGo(k),
                          NEW i \in Operators, Running(i),
                          finished[i] => \A j \in Operators : cause[j] \notin RootCauses
                   PROVE  FALSE
        BY DEF NeverStalls
    <2>2. finished[i]
        BY <2>1, StalledIsFinished DEF WholeInv, SessionInv, ProcessInv
    <2>3. QED
        BY <2>1, <2>2, StalledIsEmpty
<1>2. QED
    BY <1>1, WholeInvariant, PTL

\* Where nobody can go on, the session is complete: what SessionCompletes comes
\* down to, once every session of finitely many steps has come to rest.
THEOREM RestIsComplete ==
    ASSUME IsFiniteSet(Operators), Cardinality(Operators) <= InboxCapacity + 1
    PROVE  Spec => []((\A i \in Operators : ~CanGo(i)) => Completed)
<1>1. ASSUME SessionInv, NeverStalls, \A i \in Operators : ~CanGo(i),
             \A i \in Operators : cause[i] \notin RootCauses
      PROVE  Completed
    <2>1. ASSUME NEW i \in Operators
          PROVE  status[i] = "done" /\ cause[i] = "none"
        <3>1. ~Running(i)
            BY <1>1 DEF NeverStalls
        <3>2. cause[i] = "none"
            <4>1. cause[i] \in {"none", "crash", "timeout", "frame", "transport"}
                BY <1>1 DEF SessionInv, TypeOK
            <4>2. cause[i] # "transport"
                BY <1>1 DEF SessionInv, AbortHasRootCause, RootCauses
            <4>3. QED
                BY <1>1, <4>1, <4>2 DEF RootCauses
        <3>3. status[i] \in {"running", "done", "aborted", "crashed"}
            BY <1>1 DEF SessionInv, TypeOK
        <3>4. QED
            BY <1>1, <3>1, <3>2, <3>3 DEF SessionInv, ProcessInv, Running
    <2>2. QED
        BY <2>1 DEF Completed
<1>2. SessionInv /\ NeverStalls => ((\A i \in Operators : ~CanGo(i)) => Completed)
    BY <1>1 DEF Completed
<1>3. QED
    BY <1>2, SessionInvariant, SessionsNeverStall, PTL

----------------------------------------------------------------------------
(* Sessions are finite.  What is still to be sent, read, taken, reported   *)
(* and gone through is counted so that every step, of whomever and of      *)
(* whatever kind, leaves less: a frame not yet sent weighs three, one      *)
(* underway two and one in an inbox one.                                   *)

Pending(i, j) ==
    3 * (3 - round[i]) + 3 * Ones(j \in todo[i]) + 2 * Len(wire[<<i, j>>])

LinkWeight(i, j) ==
    Pending(i, j) + Ones(j \notin conns[i]) + Ones(Running(i) /\ j \notin errs[i])

OwnWeight(i) == (3 - round[i]) + Len(inbox[i]) + Ones(Running(i))

LinkWeights == [link \in Links |-> LinkWeight(link[1], link[2])]

OwnWeights == [i \in Operators |-> OwnWeight(i)]

Measure == Total(LinkWeights) + Total(OwnWeights)

PendingOK == \A i \in Operators : \A j \in Peers(i) : Pending(i, j) \in Nat

LEMMA PendingType ==
    ASSUME TypeOK
    PROVE  PendingOK
<1> SUFFICES ASSUME NEW i \in Operators, NEW j \in Peers(i)
             PROVE  Pending(i, j) \in Nat
    BY DEF PendingOK
<1> DEFINE unsent == Ones(j \in todo[i])
<1>1. Len(wire[<<i, j>>]) \in Nat /\ round[i] \in 0..3
    BY LinkTypes, WireType, LenProperties DEF TypeOK
<1>2. unsent \in 0..1
    BY DEF Ones
<1> HIDE DEF unsent
<1>3. 3 * (3 - round[i]) + 3 * unsent + 2 * Len(wire[<<i, j>>]) \in Nat
    BY <1>1, <1>2
<1>4. QED
    BY <1>3 DEF Pending, unsent

LEMMA WeightTypes ==
    ASSUME TypeOK
    PROVE  LinkWeights \in [Links -> Nat] /\ OwnWeights \in [Operators -> Nat]
<1>1. ASSUME NEW i \in Operators, NEW j \in Peers(i)
      PROVE  LinkWeight(i, j) \in Nat
    BY PendingType DEF PendingOK, LinkWeight, Ones
<1>2. ASSUME NEW i \in Operators
      PROVE  OwnWeight(i) \in Nat
    <2>1. Len(inbox[i]) \in Nat /\ round[i] \in 0..3
        BY LenProperties DEF TypeOK
    <2>2. QED
        BY <2>1 DEF OwnWeight, Ones
<1>3. \A link \in Links : LinkWeight(link[1], link[2]) \in Nat
    BY <1>1, LinkTypes
<1>4. QED
    BY <1>2, <1>3 DEF LinkWeights, OwnWeights

LEMMA WeightsType ==
    ASSUME TypeOK, TypeOK'
    PROVE  /\ LinkWeights \in [Links -> Nat] /\ LinkWeights' \in [Links -> Nat]
           /\ OwnWeights \in [Operators -> Nat] /\ OwnWeights' \in [Operators -> Nat]
<1>1. LinkWeights \in [Links -> Nat] /\ OwnWeights \in [Operators -> Nat]
    BY WeightTypes
<1>2. (TypeOK => LinkWeights \in [Links -> Nat] /\ OwnWeights \in [Operators -> Nat])'
    BY WeightTypes, PTL
<1>3. QED
    BY <1>1, <1>2

\* No weight grows and one falls.
LEMMA MeasureFalls ==
    ASSUME IsFiniteSet(Operators), TypeOK, TypeOK',
           \A i \in Operators : \A j \in Peers(i) : LinkWeight(i, j)' <= LinkWeight(i, j),
           \A i \in Operators : OwnWeight(i)' <= OwnWeight(i),
           \/ \E i \in Operators : \E j \in Peers(i) : LinkWeight(i, j)' < LinkWeight(i, j)
           \/ \E i \in Operators : OwnWeight(i)' < OwnWeight(i)
    PROVE  Measure' < Measure
<1>1. /\ LinkWeights \in [Links -> Nat] /\ LinkWeights' \in [Links -> Nat]
      /\ OwnWeights \in [Operators -> Nat] /\ OwnWeights' \in [Operators -> Nat]
    BY WeightsType
<1>2. /\ \A link \in Links : LinkWeights'[link] <= LinkWeights[link]
      /\ \A i \in Operators : OwnWeights'[i] <= OwnWeights[i]
    BY LinkTypes DEF LinkWeights, OwnWeights
<1>3. \/ \E link \in Links : LinkWeights'[link] < LinkWeights[link]
      \/ \E i \in Operators : OwnWeights'[i] < OwnWeights[i]
    BY LinkTypes DEF LinkWeights, OwnWeights
<1>4. QED
    BY <1>1, <1>2, <1>3, WeightsFall DEF Measure

LEMMA LinkWeightMoves ==
    ASSUME TypeOK, TypeOK', NEW i \in Operators, NEW j \in Peers(i),
           Pending(i, j)' <= Pending(i, j),
           j \notin conns'[i] => j \notin conns[i],
           Running(i)' /\ j \notin errs'[i] => Running(i) /\ j \notin errs[i]
    PROVE  /\ LinkWeight(i, j)' <= LinkWeight(i, j)
           /\ \/ Pending(i, j)' < Pending(i, j)
              \/ j \in conns'[i] /\ j \notin conns[i]
              \/ Running(i) /\ j \notin errs[i] /\ ~(Running(i)' /\ j \notin errs'[i])
              => LinkWeight(i, j)' < LinkWeight(i, j)
<1> DEFINE a == Pending(i, j)
           b == Ones(j \notin conns[i])
           c == Ones(Running(i) /\ j \notin errs[i])
<1>1. a \in Nat /\ a' \in Nat
    <2>1. PendingOK
        BY PendingType
    <2>2. (TypeOK => PendingOK)'
        BY PendingType, PTL
    <2>3. QED
        BY <2>1, <2>2 DEF PendingOK, Peers
<1>2. LinkWeight(i, j) = a + b + c /\ LinkWeight(i, j)' = a' + b' + c'
    BY DEF LinkWeight
<1>3. /\ b \in 0..1 /\ b' \in 0..1 /\ b' <= b
      /\ j \in conns'[i] /\ j \notin conns[i] => b' < b
    BY DEF Ones
<1>4. /\ c \in 0..1 /\ c' \in 0..1 /\ c' <= c
      /\ Running(i) /\ j \notin errs[i] /\ ~(Running(i)' /\ j \notin errs'[i]) => c' < c
    BY DEF Ones
<1>5. a' <= a
    OBVIOUS
<1>6. /\ a' + b' + c' <= a + b + c
      /\ a' < a \/ b' < b \/ c' < c => a' + b' + c' < a + b + c
    <2> HIDE DEF a, b, c
    <2>1. a' \in Nat /\ b' \in Nat /\ c' \in Nat /\ a \in Nat /\ b \in Nat /\ c \in Nat
        BY <1>1, <1>3, <1>4
    <2>2. QED
        BY <1>3, <1>4, <1>5, <2>1, SumsFall
<1>7. QED
    BY <1>2, <1>3, <1>4, <1>6 DEF a

LEMMA PendingMoves ==
    ASSUME TypeOK, TypeOK', NEW i \in Operators, NEW j \in Peers(i),
           \/ round'[i] = round[i] /\ (j \in todo'[i] => j \in todo[i])
           \/ round'[i] = round[i] + 1,
           Len(wire'[<<i, j>>]) <= Len(wire[<<i, j>>])
    PROVE  /\ Pending(i, j)' <= Pending(i, j)
           /\ Len(wire'[<<i, j>>]) < Len(wire[<<i, j>>]) => Pending(i, j)' < Pending(i, j)
<1> DEFINE u == Ones(j \in todo[i])
           n == Len(wire[<<i, j>>])
<1>1. /\ n \in Nat /\ n' \in Nat /\ n' <= n
      /\ round[i] \in 0..3 /\ round'[i] \in 0..3
    <2>1. wire \in [Links -> Seq(Frames)] /\ wire' \in [Links -> Seq(Frames)]
        BY WireType DEF TypeOK
    <2>2. QED
        BY <2>1, LinkTypes, LenProperties DEF TypeOK
<1>2. /\ u \in 0..1 /\ u' \in 0..1
      /\ round'[i] = round[i] => u' <= u
    <2>1. round'[i] # round[i] + 1 \/ round'[i] # round[i]
        BY <1>1
    <2>2. QED
        BY <2>1 DEF Ones
<1>3. /\ Pending(i, j) = 3 * (3 - round[i]) + 3 * u + 2 * n
      /\ Pending(i, j)' = 3 * (3 - round'[i]) + 3 * u' + 2 * n'
    BY DEF Pending
<1>4. round'[i] = round[i] \/ round'[i] = round[i] + 1
    OBVIOUS
<1>5. /\ 3 * (3 - round'[i]) + 3 * u' + 2 * n' <= 3 * (3 - round[i]) + 3 * u + 2 * n
      /\ n' < n => 3 * (3 - round'[i]) + 3 * u' + 2 * n' < 3 * (3 - round[i]) + 3 * u + 2 * n
    <2> HIDE DEF u, n
    <2>1. ASSUME NEW x \in 0..1, NEW x1 \in 0..1, NEW m \in Nat, NEW m1 \in Nat,
                 NEW r \in 0..3, NEW r1 \in 0..3, m1 <= m,
                 (r1 = r /\ x1 <= x) \/ r1 = r + 1
          PROVE  /\ 3 * (3 - r1) + 3 * x1 + 2 * m1 <= 3 * (3 - r) + 3 * x + 2 * m
                 /\ m1 < m => 3 * (3 - r1) + 3 * x1 + 2 * m1 < 3 * (3 - r) + 3 * x + 2 * m
        BY <2>1
    <2>2. QED
        BY <1>1, <1>2, <1>4, <2>1
<1>6. QED
    BY <1>3, <1>5

LEMMA PendingStays ==
    ASSUME TypeOK, NEW i \in Operators, NEW j \in Peers(i), UNCHANGED <<wire, round, todo>>
    PROVE  Pending(i, j)' <= Pending(i, j)
<1>1. Pending(i, j)' = Pending(i, j)
    BY DEF Pending
<1>2. Pending(i, j) \in Nat
    BY PendingType DEF PendingOK
<1>3. QED
    BY <1>1, <1>2

\* A step that sends nothing and reads nothing into an inbox makes no weight
\* greater.
LEMMA NoWeightGrows ==
    ASSUME TypeOK, TypeOK',
           \A i \in Operators : \A j \in Peers(i) :
               /\ \/ round'[i] = round[i] /\ (j \in todo'[i] => j \in todo[i])
                  \/ round'[i] = round[i] + 1
               /\ Len(wire'[<<i, j>>]) <= Len(wire[<<i, j>>])
               /\ j \notin conns'[i] => j \notin conns[i]
               /\ Running(i)' /\ j \notin errs'[i] => Running(i) /\ j \notin errs[i],
           \A i \in Operators :
               /\ round'[i] \in {round[i], round[i] + 1}
               /\ Len(inbox'[i]) <= Len(inbox[i])
               /\ Running(i)' => Running(i)
    PROVE  /\ \A i \in Operators : \A j \in Peers(i) : LinkWeight(i, j)' <= LinkWeight(i, j)
           /\ \A i \in Operators : OwnWeight(i)' <= OwnWeight(i)
           /\ \A i \in Operators :
                 \/ round'[i] # round[i]
                 \/ Len(inbox'[i]) < Len(inbox[i])
                 \/ Running(i) /\ ~Running(i)'
                 => OwnWeight(i)' < OwnWeight(i)
<1>1. ASSUME NEW i \in Operators, NEW j \in Peers(i)
      PROVE  LinkWeight(i, j)' <= LinkWeight(i, j)
    BY <1>1, PendingMoves, LinkWeightMoves
<1>2. ASSUME NEW i \in Operators
      PROVE  /\ OwnWeight(i)' <= OwnWeight(i)
             /\ \/ round'[i] # round[i]
                \/ Len(inbox'[i]) < Len(inbox[i])
                \/ Running(i) /\ ~Running(i)'
                => OwnWeight(i)' < OwnWeight(i)
    <2>1. /\ round[i] \in 0..3 /\ round'[i] \in 0..3
          /\ inbox[i] \in Seq(Envelopes) /\ inbox'[i] \in Seq(Envelopes)
        BY DEF TypeOK
    <2>2. Len(inbox[i]) \in Nat /\ Len(inbox'[i]) \in Nat
        BY <2>1, LenProperties
    <2> DEFINE a == 3 - round[i]
               b == Len(inbox[i])
               c == Ones(Running(i))
    <2>3. /\ c \in Nat /\ c' \in Nat /\ c' <= c
          /\ Running(i) /\ ~Running(i)' => c' < c
        BY DEF Ones
    <2>4. /\ a \in Nat /\ a' \in Nat /\ a' <= a
          /\ round'[i] # round[i] => a' < a
        BY <2>1
    <2>5. OwnWeight(i) = a + b + c /\ OwnWeight(i)' = a' + b' + c'
        BY DEF OwnWeight
    <2>6. b \in Nat /\ b' \in Nat /\ b' <= b /\ (Len(inbox'[i]) < Len(inbox[i]) => b' < b)
        BY <2>2
    <2>7. /\ a' + b' + c' <= a + b + c
          /\ a' < a \/ b' < b \/ c' < c => a' + b' + c' < a + b + c
        <3> HIDE DEF a, b, c
        <3>1. QED
            BY <2>3, <2>4, <2>6, SumsFall
    <2>8. QED
        BY <2>3, <2>4, <2>5, <2>6, <2>7
<1>3. QED
    BY <1>1, <1>2

\* A frame that is read weighs less in the inbox than it did on the connection.
LEMMA MeasureReads ==
    ASSUME IsFiniteSet(Operators), TypeOK, TypeOK',
           NEW k \in Operators, NEW l \in Peers(k), ReadPayload(k, l), UNCHANGED driverVars
    PROVE  Measure' < Measure
<1>0. /\ l \in Operators /\ k \in Peers(l) /\ <<l, k>> \in Links
      /\ <<l, k>>[1] = l /\ <<l, k>>[2] = k
      /\ wire \in [Links -> Seq(Frames)] /\ wire[<<l, k>>] \in Seq(Frames)
      /\ inbox \in [Operators -> Seq(Envelopes)] /\ inbox[k] \in Seq(Envelopes)
    BY LinkTypes, WireType DEF TypeOK, Peers
<1>1. /\ wire[<<l, k>>] # <<>>
      /\ wire' = [wire EXCEPT ![<<l, k>>] = Tail(@)]
      /\ inbox' = [inbox EXCEPT ![k] = Append(@, [from |-> l, frame |-> Head(wire[<<l, k>>])])]
      /\ UNCHANGED <<conns, errs, round, todo, status>>
    BY DEF ReadPayload, driverVars
<1>2. /\ LinkWeights \in [Links -> Nat] /\ LinkWeights' \in [Links -> Nat]
      /\ OwnWeights \in [Operators -> Nat] /\ OwnWeights' \in [Operators -> Nat]
    BY WeightsType
<1>3. /\ \A link \in Links \ {<<l, k>>} : LinkWeights'[link] = LinkWeights[link]
      /\ LinkWeights'[<<l, k>>] = LinkWeights[<<l, k>>] - 2
    <2>1. ASSUME NEW link \in Links \ {<<l, k>>}
          PROVE  LinkWeights'[link] = LinkWeights[link]
        <3>1. wire'[link] = wire[link] /\ link = <<link[1], link[2]>>
            BY <1>0, <1>1, LinkTypes
        <3>2. LinkWeight(link[1], link[2])' = LinkWeight(link[1], link[2])
            BY <1>1, <3>1 DEF LinkWeight, Pending, Running
        <3>3. QED
            BY <3>2 DEF LinkWeights
    <2>2. /\ Len(wire'[<<l, k>>]) = Len(wire[<<l, k>>]) - 1
          /\ Len(wire[<<l, k>>]) \in Nat /\ Len(wire'[<<l, k>>]) \in Nat
        <3>1. wire'[<<l, k>>] = Tail(wire[<<l, k>>])
            BY <1>0, <1>1
        <3>2. /\ Tail(wire[<<l, k>>]) \in Seq(Frames)
              /\ Len(Tail(wire[<<l, k>>])) = Len(wire[<<l, k>>]) - 1
            BY <1>0, <1>1, HeadTailProperties
        <3>3. QED
            BY <1>0, <3>1, <3>2, LenProperties
    <2>3. LinkWeight(l, k)' = LinkWeight(l, k) - 2
        <3> DEFINE a == 3 * (3 - round[l]) + 3 * Ones(k \in todo[l])
                   b == Ones(k \notin conns[l]) + Ones(Running(l) /\ k \notin errs[l])
        <3>1. a' = a /\ b' = b
            BY <1>1 DEF Running
        <3>2. a \in Nat /\ b \in Nat
            <4>1. \A p : Ones(p) \in 0..1
                BY DEF Ones
            <4>2. Ones(k \in todo[l]) \in 0..1 /\ round[l] \in 0..3
                BY <1>0, <4>1 DEF TypeOK
            <4>3. a \in Nat
                BY <4>2
            <4>4. b \in Nat
                BY DEF Ones
            <4>5. QED
                BY <4>3, <4>4
        <3>3. /\ LinkWeight(l, k) = a + 2 * Len(wire[<<l, k>>]) + b
              /\ LinkWeight(l, k)' = a' + 2 * Len(wire'[<<l, k>>]) + b'
            <4>1. /\ Ones(k \notin conns[l]) \in Nat
                  /\ Ones(Running(l) /\ k \notin errs[l]) \in Nat
                  /\ Ones(k \notin conns'[l]) \in Nat
                  /\ Ones(Running(l)' /\ k \notin errs'[l]) \in Nat
                BY DEF Ones
            <4>2. a' \in Nat /\ Len(wire'[<<l, k>>]) \in Nat
                BY <2>2, <3>1, <3>2
            <4>3. /\ LinkWeight(l, k) = a + 2 * Len(wire[<<l, k>>]) + Ones(k \notin conns[l])
                                          + Ones(Running(l) /\ k \notin errs[l])
                  /\ LinkWeight(l, k)' = a' + 2 * Len(wire'[<<l, k>>]) + Ones(k \notin conns'[l])
                                          + Ones(Running(l)' /\ k \notin errs'[l])
                BY DEF LinkWeight, Pending
            <4> HIDE DEF a
            <4>4. QED
                BY <2>2, <3>2, <4>1, <4>2, <4>3
        <3> HIDE DEF a, b
        <3>4. QED
            BY <2>2, <3>1, <3>2, <3>3
    <2>4. QED
        BY <1>0, <2>1, <2>3 DEF LinkWeights
<1>4. /\ \A i \in Operators \ {k} : OwnWeights'[i] = OwnWeights[i]
      /\ OwnWeights'[k] = OwnWeights[k] + 1
    <2>1. /\ Len(inbox'[k]) = Len(inbox[k]) + 1
          /\ Len(inbox[k]) \in Nat /\ Len(inbox'[k]) \in Nat
        BY <1>0, <1>1, LenProperties, AppendProperties
    <2>2. Ones(Running(k)) \in Nat /\ round[k] \in 0..3
        BY DEF Ones, TypeOK
    <2>3. OwnWeight(k)' = OwnWeight(k) + 1
        <3> DEFINE a == 3 - round[k]
                   n == Len(inbox[k])
                   c == Ones(Running(k))
        <3>1. a' = a /\ n' = n + 1 /\ c' = c
            BY <1>1, <2>1 DEF Running
        <3>2. a \in Nat /\ n \in Nat /\ c \in Nat
            BY <2>1, <2>2
        <3>3. OwnWeight(k) = a + n + c /\ OwnWeight(k)' = a' + n' + c'
            BY DEF OwnWeight
        <3> HIDE DEF a, n, c
        <3>4. a + (n + 1) + c = (a + n + c) + 1
            BY <3>2
        <3>5. QED
            BY <3>1, <3>3, <3>4
    <2>4. ASSUME NEW i \in Operators \ {k}
          PROVE  OwnWeight(i)' = OwnWeight(i)
        BY <1>0, <1>1 DEF OwnWeight, Running
    <2>5. QED
        BY <2>3, <2>4 DEF OwnWeights
<1>5. LinkWeights[<<l, k>>] \in Nat /\ OwnWeights[k] \in Nat
    BY <1>0, <1>2
<1>6. LinkWeights'[<<l, k>>] + OwnWeights'[k] < LinkWeights[<<l, k>>] + OwnWeights[k]
    BY <1>3, <1>4, <1>5
<1>7. /\ \A link \in Links \ {<<l, k>>} : LinkWeights'[link] <= LinkWeights[link]
      /\ \A i \in Operators \ {k} : OwnWeights'[i] <= OwnWeights[i]
    BY <1>2, <1>3, <1>4
<1>8. QED
    BY <1>0, <1>2, <1>6, <1>7, WeightShifts DEF Measure

\* A frame that is sent weighs less underway than it did unsent.
LEMMA MeasureSends ==
    ASSUME IsFiniteSet(Operators), TypeOK, TypeOK',
           NEW k \in Operators, NEW l \in Peers(k), l \in todo[k],
           NEW f \in Frames, Push(k, l, f),
           todo' = [todo EXCEPT ![k] = @ \ {l}],
           UNCHANGED <<conns, inbox, errs, round, status>>
    PROVE  Measure' < Measure
<1>0. /\ l \in Operators /\ <<k, l>> \in Links
      /\ wire \in [Links -> Seq(Frames)] /\ wire[<<k, l>>] \in Seq(Frames)
      /\ todo \in [Operators -> SUBSET Operators]
    BY LinkTypes, WireType DEF TypeOK
<1>1. /\ \A link \in Links \ {<<k, l>>} : wire'[link] = wire[link]
      /\ wire'[<<k, l>>] \in {wire[<<k, l>>], Append(wire[<<k, l>>], f)}
    BY <1>0 DEF Push
<1>2. ASSUME NEW i \in Operators, NEW j \in Peers(i), <<i, j>> # <<k, l>>
      PROVE  LinkWeight(i, j)' <= LinkWeight(i, j)
    <2>1. wire'[<<i, j>>] = wire[<<i, j>>]
        BY <1>1, <1>2, LinkTypes
    <2>2. j \in todo'[i] => j \in todo[i]
        BY <1>0
    <2>3. Len(wire'[<<i, j>>]) <= Len(wire[<<i, j>>])
        BY <2>1, LinkTypes, WireType, LenProperties
    <2>4. Pending(i, j)' <= Pending(i, j)
        BY <2>2, <2>3, PendingMoves
    <2>5. QED
        BY <2>4, LinkWeightMoves DEF Running
<1>3. LinkWeight(k, l)' < LinkWeight(k, l)
    <2>1. Pending(k, l)' < Pending(k, l)
        <3> DEFINE a == 3 * (3 - round[k])
                   n == Len(wire[<<k, l>>])
        <3>1. a' = a /\ a \in Nat
            <4>1. round[k] \in 0..3
                BY DEF TypeOK
            <4>2. QED
                BY <4>1
        <3>2. n \in Nat /\ n' \in {n, n + 1}
            BY <1>0, <1>1, AppendProperties, LenProperties
        <3>3. Ones(l \in todo[k]) = 1 /\ Ones(l \in todo'[k]) = 0
            BY <1>0 DEF Ones
        <3>4. Pending(k, l) = a + 3 * 1 + 2 * n /\ Pending(k, l)' = a' + 3 * 0 + 2 * n'
            BY <3>3 DEF Pending
        <3> HIDE DEF a, n
        <3>5. a + 3 * 0 + 2 * n' < a + 3 * 1 + 2 * n
            <4>1. ASSUME NEW m \in {n, n + 1}
                  PROVE  a + 3 * 0 + 2 * m < a + 3 * 1 + 2 * n
                BY <3>1, <3>2
            <4>2. QED
                BY <3>2, <4>1
        <3>6. QED
            BY <3>1, <3>4, <3>5
    <2>2. Pending(k, l)' <= Pending(k, l)
        <3>1. PendingOK
            BY PendingType
        <3>2. (TypeOK => PendingOK)'
            BY PendingType, PTL
        <3>3. Pending(k, l) \in Nat /\ Pending(k, l)' \in Nat
            BY <3>1, <3>2 DEF PendingOK, Peers
        <3>4. QED
            BY <2>1, <3>3
    <2>3. QED
        BY <2>1, <2>2, LinkWeightMoves DEF Running
<1>4. ASSUME NEW i \in Operators, NEW j \in Peers(i)
      PROVE  LinkWeight(i, j)' <= LinkWeight(i, j)
    <2>1. CASE <<i, j>> = <<k, l>>
        <3>1. i = k /\ j = l
            BY <2>1
        <3>2. /\ LinkWeights \in [Links -> Nat] /\ LinkWeights' \in [Links -> Nat]
            BY WeightsType
        <3>3. LinkWeight(k, l) \in Nat /\ LinkWeight(k, l)' \in Nat
            <4>1. /\ LinkWeights[<<k, l>>] = LinkWeight(k, l)
                  /\ LinkWeights'[<<k, l>>] = LinkWeight(k, l)'
                BY <1>0 DEF LinkWeights
            <4>2. QED
                BY <1>0, <3>2, <4>1
        <3>4. QED
            BY <1>3, <3>1, <3>3
    <2>2. QED
        BY <1>2, <2>1
<1>5. \A i \in Operators : OwnWeight(i)' <= OwnWeight(i)
    <2>1. \A i \in Operators : OwnWeight(i)' = OwnWeight(i)
        BY DEF OwnWeight, Running
    <2>2. \A i \in Operators : OwnWeights[i] \in Nat /\ OwnWeights[i] = OwnWeight(i)
        BY WeightsType DEF OwnWeights
    <2>3. QED
        BY <2>1, <2>2
<1>6. QED
    BY <1>3, <1>4, <1>5, MeasureFalls

LEMMA MeasureNext ==
    ASSUME IsFiniteSet(Operators), TypeOK, TypeOK', ProcessInv, Next
    PROVE  Measure' < Measure
<1>0. /\ wire \in [Links -> Seq(Frames)]
      /\ conns \in [Operators -> SUBSET Operators]
      /\ errs \in [Operators -> SUBSET Operators]
      /\ todo \in [Operators -> SUBSET Operators]
      /\ inbox \in [Operators -> Seq(Envelopes)]
      /\ round \in [Operators -> 0..3]
      /\ status \in [Operators -> {"running", "done", "aborted", "crashed"}]
      /\ \A link \in Links : Len(wire[link]) \in Nat
      /\ \A i \in Operators : Len(inbox[i]) \in Nat
    BY WireType, LenProperties DEF TypeOK
<1> DEFINE Lens(i, j) == Len(wire[<<i, j>>])
<1>00. \A i \in Operators : \A j \in Peers(i) : <<i, j>> \in Links /\ Lens(i, j) \in Nat
    BY <1>0, LinkTypes
<1>1. ASSUME NEW k \in Operators, NEW l \in Peers(k), LinkStep(k, l)
      PROVE  Measure' < Measure
    <2>0. l \in Operators /\ k \in Peers(l) /\ <<l, k>> \in Links
        BY LinkTypes DEF Peers
    <2>1. CASE ReadPayload(k, l) /\ UNCHANGED driverVars
        BY <2>1, MeasureReads
    <2>2. CASE SendRound(k, l) \/ SendFin(k, l)
        <3>1. /\ round[k] \in 1..3 /\ l \in todo[k]
              /\ Push(k, l, FrameOf(k, round[k]))
              /\ todo' = [todo EXCEPT ![k] = @ \ {l}]
              /\ UNCHANGED <<conns, inbox, errs, round, status>>
            BY <2>2 DEF SendRound, SendFin, FrameOf
        <3>2. FrameOf(k, round[k]) \in Frames
            BY <3>1, FrameOfTypes
        <3>3. QED
            BY <3>1, <3>2, MeasureSends
    <2>3. CASE Connect(k, l)
        <3>1. /\ l \notin conns[k]
              /\ conns' = [conns EXCEPT ![k] = @ \cup {l}, ![l] = @ \cup {k}]
              /\ UNCHANGED <<wire, inbox, errs, round, todo, status>>
            BY <2>3 DEF Connect, Handshake, driverVars
        <3>2. /\ \A i \in Operators : conns[i] \subseteq conns'[i]
              /\ l \in conns'[k]
            BY <1>0, <2>0, <3>1 DEF Peers
        <3>3. Pending(k, l)' <= Pending(k, l)
            BY <3>1, PendingStays
        <3>4. LinkWeight(k, l)' < LinkWeight(k, l)
            BY <3>1, <3>2, <3>3, LinkWeightMoves DEF Running
        <3>5. /\ \A i \in Operators : \A j \in Peers(i) : LinkWeight(i, j)' <= LinkWeight(i, j)
              /\ \A i \in Operators : OwnWeight(i)' <= OwnWeight(i)
            <4>1. ASSUME NEW i \in Operators, NEW j \in Peers(i)
                  PROVE  /\ round'[i] = round[i] /\ todo'[i] = todo[i]
                         /\ Len(wire'[<<i, j>>]) <= Len(wire[<<i, j>>])
                         /\ j \notin conns'[i] => j \notin conns[i]
                         /\ Running(i)' /\ j \notin errs'[i] => Running(i) /\ j \notin errs[i]
                <5>1. Lens(i, j) \in Nat /\ Lens(i, j)' = Lens(i, j)
                    BY <1>00, <3>1
                <5>2. Len(wire'[<<i, j>>]) <= Len(wire[<<i, j>>])
                    BY <5>1
                <5>3. QED
                    BY <3>1, <3>2, <5>2 DEF Running
            <4>2. ASSUME NEW i \in Operators
                  PROVE  /\ round'[i] = round[i] /\ Len(inbox'[i]) <= Len(inbox[i])
                         /\ Running(i)' => Running(i)
                BY <1>0, <3>1 DEF Running
            <4>3. QED
                BY <4>1, <4>2, NoWeightGrows
        <3>6. QED
            BY <3>4, <3>5, MeasureFalls
    <2>4. CASE ReadFin(k, l) /\ UNCHANGED driverVars
        <3>1. /\ wire[<<l, k>>] # <<>>
              /\ wire' = [wire EXCEPT ![<<l, k>>] = Tail(@)]
              /\ UNCHANGED <<conns, inbox, errs, round, todo, status>>
            BY <2>4 DEF ReadFin, driverVars
        <3>2. /\ Len(wire'[<<l, k>>]) < Len(wire[<<l, k>>])
              /\ \A link \in Links : Len(wire'[link]) <= Len(wire[link])
            <4>1. Len(Tail(wire[<<l, k>>])) = Len(wire[<<l, k>>]) - 1
                BY <1>0, <2>0, <3>1, HeadTailProperties
            <4>2. /\ wire'[<<l, k>>] = Tail(wire[<<l, k>>])
                  /\ \A link \in Links : link # <<l, k>> => wire'[link] = wire[link]
                BY <1>0, <2>0, <3>1
            <4>3. Len(wire'[<<l, k>>]) = Len(wire[<<l, k>>]) - 1 /\ Len(wire[<<l, k>>]) \in Nat
                BY <1>0, <2>0, <4>1, <4>2
            <4>4. ASSUME NEW link \in Links
                  PROVE  Len(wire'[link]) <= Len(wire[link])
                <5>1. CASE link = <<l, k>>
                    BY <4>3, <5>1
                <5>2. CASE link # <<l, k>>
                    BY <1>0, <4>2, <5>2
                <5>3. QED
                    BY <5>1, <5>2
            <4>5. QED
                BY <4>3, <4>4
        <3>3. Pending(l, k)' < Pending(l, k) /\ Pending(l, k)' <= Pending(l, k)
            BY <2>0, <3>1, <3>2, PendingMoves
        <3>4. LinkWeight(l, k)' < LinkWeight(l, k)
            BY <2>0, <3>1, <3>3, LinkWeightMoves DEF Running
        <3>5. /\ \A i \in Operators : \A j \in Peers(i) : LinkWeight(i, j)' <= LinkWeight(i, j)
              /\ \A i \in Operators : OwnWeight(i)' <= OwnWeight(i)
            <4>1. ASSUME NEW i \in Operators, NEW j \in Peers(i)
                  PROVE  /\ round'[i] = round[i] /\ todo'[i] = todo[i]
                         /\ Len(wire'[<<i, j>>]) <= Len(wire[<<i, j>>])
                         /\ j \notin conns'[i] => j \notin conns[i]
                         /\ Running(i)' /\ j \notin errs'[i] => Running(i) /\ j \notin errs[i]
                BY <1>0, <1>00, <3>1, <3>2 DEF Running
            <4>2. ASSUME NEW i \in Operators
                  PROVE  /\ round'[i] = round[i] /\ Len(inbox'[i]) <= Len(inbox[i])
                         /\ Running(i)' => Running(i)
                BY <1>0, <3>1 DEF Running
            <4>3. QED
                BY <4>1, <4>2, NoWeightGrows
        <3>6. QED
            BY <2>0, <3>4, <3>5, MeasureFalls
    <2>5. CASE ReadError(k, l) /\ UNCHANGED driverVars
        <3>1. /\ l \notin errs[k] /\ Running(k)
              /\ errs' = [errs EXCEPT ![k] = @ \cup {l}]
              /\ UNCHANGED <<conns, wire, inbox, round, todo, status>>
            BY <2>5 DEF ReadError, driverVars, ProcessInv
        <3>2. l \in errs'[k] /\ \A i \in Operators : errs[i] \subseteq errs'[i]
            BY <1>0, <3>1
        <3>3. Pending(k, l)' <= Pending(k, l)
            BY <3>1, PendingStays
        <3>4. LinkWeight(k, l)' < LinkWeight(k, l)
            BY <3>1, <3>2, <3>3, LinkWeightMoves DEF Running
        <3>5. /\ \A i \in Operators : \A j \in Peers(i) : LinkWeight(i, j)' <= LinkWeight(i, j)
              /\ \A i \in Operators : OwnWeight(i)' <= OwnWeight(i)
            <4>1. ASSUME NEW i \in Operators, NEW j \in Peers(i)
                  PROVE  /\ round'[i] = round[i] /\ todo'[i] = todo[i]
                         /\ Len(wire'[<<i, j>>]) <= Len(wire[<<i, j>>])
                         /\ j \notin conns'[i] => j \notin conns[i]
                         /\ Running(i)' /\ j \notin errs'[i] => Running(i) /\ j \notin errs[i]
                BY <1>0, <1>00, <3>1, <3>2 DEF Running
            <4>2. ASSUME NEW i \in Operators
                  PROVE  /\ round'[i] = round[i] /\ Len(inbox'[i]) <= Len(inbox[i])
                         /\ Running(i)' => Running(i)
                BY <1>0, <3>1 DEF Running
            <4>3. QED
                BY <4>1, <4>2, NoWeightGrows
        <3>6. QED
            BY <3>4, <3>5, MeasureFalls
    <2>6. QED
        BY <1>1, <2>1, <2>2, <2>3, <2>4, <2>5 DEF LinkStep
<1>2. ASSUME NEW k \in Operators, LocalStep(k)
      PROVE  Measure' < Measure
    <2>0. UNCHANGED <<conns, wire, errs, status>>
        BY <1>2 DEF LocalStep, MeshUp, TakeFrame, EnterRound2, Conclude, CheaterConcludes, meshVars
    <2>1. CASE TakeFrame(k)
        <3>1. /\ inbox[k] # <<>> /\ inbox' = [inbox EXCEPT ![k] = Tail(@)]
              /\ UNCHANGED <<round, todo>>
            BY <2>1 DEF TakeFrame
        <3>2. /\ Len(inbox'[k]) < Len(inbox[k])
              /\ \A i \in Operators : Len(inbox'[i]) <= Len(inbox[i])
            <4>1. Len(Tail(inbox[k])) = Len(inbox[k]) - 1
                BY <1>0, <3>1, HeadTailProperties
            <4>2. QED
                BY <1>0, <3>1, <4>1
        <3>3. /\ \A i \in Operators : \A j \in Peers(i) : LinkWeight(i, j)' <= LinkWeight(i, j)
              /\ \A i \in Operators : OwnWeight(i)' <= OwnWeight(i)
              /\ OwnWeight(k)' < OwnWeight(k)
            BY <1>0, <2>0, <3>1, <3>2, LinkTypes, NoWeightGrows DEF Running
        <3>4. QED
            BY <3>3, MeasureFalls
    <2>2. CASE ~TakeFrame(k)
        <3>1. EnterRound(k, round[k] + 1) /\ UNCHANGED inbox
            BY <1>2, <2>2 DEF LocalStep, MeshUp, EnterRound2, Conclude, CheaterConcludes,
                              EnterFin, HasAll, meshVars
        <3>2. /\ round' = [round EXCEPT ![k] = round[k] + 1]
              /\ todo' = [todo EXCEPT ![k] = Peers(k)]
            BY <3>1 DEF EnterRound
        <3>3. /\ round'[k] # round[k]
              /\ \A i \in Operators : round'[i] \in {round[i], round[i] + 1}
              /\ \A i \in Operators : round'[i] = round[i] => todo'[i] = todo[i]
            BY <1>0, <3>2
        <3>4. /\ \A i \in Operators : \A j \in Peers(i) : LinkWeight(i, j)' <= LinkWeight(i, j)
              /\ \A i \in Operators : OwnWeight(i)' <= OwnWeight(i)
              /\ OwnWeight(k)' < OwnWeight(k)
            BY <1>0, <2>0, <3>1, <3>3, LinkTypes, NoWeightGrows DEF Running
        <3>5. QED
            BY <3>4, MeasureFalls
    <2>3. QED
        BY <2>1, <2>2
<1>3. ASSUME NEW k \in Operators, NEW how, NEW why, Ends(k, how, why)
      PROVE  Measure' < Measure
    <2>1. /\ status' = [status EXCEPT ![k] = how] /\ how # "running" /\ Running(k)
          /\ todo' = [todo EXCEPT ![k] = {}]
          /\ inbox' = [inbox EXCEPT ![k] = <<>>]
          /\ errs' = [errs EXCEPT ![k] = {}]
          /\ UNCHANGED <<conns, round>>
        BY <1>3, EndsFacts DEF Ends
    <2>2. Teardown(k)
        BY <1>3 DEF Ends, Exit
    <2>3. ASSUME NEW link \in Links
          PROVE  Len(wire'[link]) <= Len(wire[link])
        <3>1. \/ wire'[link] = wire[link]
              \/ wire'[link] = <<>>
              \/ \E m \in 0..Len(wire[link]) : wire'[link] = SubSeq(wire[link], 1, m)
            BY <1>0, <2>2, TeardownOn
        <3>2. Len(<<>>) = 0
            OBVIOUS
        <3>3. ASSUME NEW m \in 0..Len(wire[link])
              PROVE  Len(SubSeq(wire[link], 1, m)) = m
            <4>1. m \in Int /\ \A n \in 1..m : wire[link][n] \in Frames
                BY <1>0, LenProperties, ElementOfSeq
            <4>2. QED
                BY <1>0, <4>1, SubSeqProperties
        <3>4. QED
            BY <1>0, <3>1, <3>2, <3>3
    <2>4. \A i \in Operators : Len(inbox'[i]) <= Len(inbox[i])
        BY <1>0, <2>1
    <2>5. /\ \A i \in Operators : Running(i)' => Running(i) /\ i # k
          /\ ~Running(k)'
        BY <1>0, <2>1 DEF Running
    <2>6. \A i \in Operators : todo'[i] \subseteq todo[i]
        BY <1>0, <2>1
    <2>7. \A i \in Operators : i # k => errs'[i] = errs[i]
        BY <1>0, <2>1
    <2>8. /\ \A i \in Operators : \A j \in Peers(i) : LinkWeight(i, j)' <= LinkWeight(i, j)
          /\ \A i \in Operators : OwnWeight(i)' <= OwnWeight(i)
          /\ OwnWeight(k)' < OwnWeight(k)
        BY <1>0, <2>1, <2>3, <2>4, <2>5, <2>6, <2>7, LinkTypes, NoWeightGrows
    <2>9. QED
        BY <2>8, MeasureFalls
<1>4. QED
    BY <1>1, <1>2, <1>3, FrostSteps

\* However many operators there are, a session has finitely many steps: each of
\* them, time-outs and deaths included, leaves less to do (frost.go:57-85).
\* Where nobody stalls, then, a fair session reaches its end.
THEOREM SessionsAreFinite ==
    ASSUME IsFiniteSet(Operators)
    PROVE  Spec => [](Measure \in Nat) /\ [][Measure' < Measure]_vars
<1>1. SessionInv => Measure \in Nat
    <2> SUFFICES ASSUME TypeOK PROVE Measure \in Nat
        BY DEF SessionInv
    <2>1. Total(LinkWeights) \in Nat /\ Total(OwnWeights) \in Nat
        BY WeightTypes, LinksFinite, TotalType
    <2>2. QED
        BY <2>1 DEF Measure
<1>2. SessionInv /\ SessionInv' /\ [Next]_vars => [Measure' < Measure]_vars
    BY MeasureNext DEF SessionInv
<1>3. QED
    BY <1>1, <1>2, SessionInvariant, PTL DEF Spec


----------------------------------------------------------------------------
(* A session implements SigningSession: MeshUp commits, EnterRound2        *)
(* shares, Conclude judges, and every other step leaves the view alone.    *)

\* One result settles who is blamed.
LEMMA OneJudgement ==
    ASSUME NEW res,
           \A i \in Operators :
               res[i].kind # "none" =>
                   /\ res[i].kind = "culprit" <=> Cheaters # {}
                   /\ res[i].kind = "culprit" => res[i].operator = First(Cheaters),
           NEW k \in Operators, res[k].kind # "none"
    PROVE  {res[i].operator : i \in {l \in Operators : res[l].kind = "culprit"}} =
               IF Cheaters = {} THEN {} ELSE {First(Cheaters)}
<1>1. CASE Cheaters = {}
    <2>1. {l \in Operators : res[l].kind = "culprit"} = {}
        BY <1>1
    <2>2. QED
        BY <1>1, <2>1
<1>2. CASE Cheaters # {}
    <2>1. k \in {l \in Operators : res[l].kind = "culprit"}
        BY <1>2
    <2>2. \A l \in {m \in Operators : res[m].kind = "culprit"} :
             res[l].operator = First(Cheaters)
        OBVIOUS
    <2>3. QED
        BY <1>2, <2>1, <2>2
<1>3. QED
    BY <1>1, <1>2

LEMMA ViewStays ==
    ASSUME UNCHANGED result,
           \A j \in Operators : round'[j] >= 1 <=> round[j] >= 1,
           \A j \in Operators : round'[j] >= 2 <=> round[j] >= 2
    PROVE  UNCHANGED SessionView!vars
BY DEF SessionView!vars, Blamed

LEMMA ViewCommits ==
    ASSUME SessionInv, NEW i \in Operators, MeshUp(i)
    PROVE  SessionView!Commit(i)
<1>1. round \in [Operators -> 0..3] /\ round[i] = 0
    BY DEF SessionInv, TypeOK, MeshUp
<1>2. round' = [round EXCEPT ![i] = 1] /\ UNCHANGED result
    BY DEF MeshUp, EnterRound
<1>3. {j \in Operators : round'[j] >= 1} = {j \in Operators : round[j] >= 1} \cup {i}
    BY <1>1, <1>2
<1>4. {j \in Operators : round'[j] >= 2} = {j \in Operators : round[j] >= 2}
    BY <1>1, <1>2
<1>5. i \notin {j \in Operators : round[j] >= 1}
    BY <1>1
<1>6. QED
    BY <1>2, <1>3, <1>4, <1>5 DEF SessionView!Commit, Blamed

\* All commitments are in hand, so everybody has committed.
LEMMA ViewShares ==
    ASSUME SessionInv, NEW i \in Operators, EnterRound2(i)
    PROVE  SessionView!Share(i)
<1>1. round \in [Operators -> 0..3] /\ round[i] = 1 /\ Collected(i) = Peers(i)
    BY DEF SessionInv, TypeOK, EnterRound2, HasAll
<1>2. round' = [round EXCEPT ![i] = 2] /\ UNCHANGED result
    BY DEF EnterRound2, EnterRound
<1>3. ASSUME NEW j \in Peers(i) PROVE round[j] >= 1
    <2>1. PICK e \in got[i] : e.from = j
        BY <1>1 DEF Collected
    <2>2. e.frame.tag = RoundTag[1] /\ ReachedBy(e.from, e.frame)
        BY <1>1 DEF SessionInv, GotInv
    <2>3. QED
        BY <2>1, <2>2 DEF ReachedBy
<1>4. {j \in Operators : round[j] >= 1} = Operators
    BY <1>1, <1>3 DEF Peers
<1>5. {j \in Operators : round'[j] >= 1} = {j \in Operators : round[j] >= 1}
    BY <1>1, <1>2
<1>6. {j \in Operators : round'[j] >= 2} = {j \in Operators : round[j] >= 2} \cup {i}
    BY <1>1, <1>2
<1>7. i \notin {j \in Operators : round[j] >= 2}
    BY <1>1
<1>8. QED
    BY <1>2, <1>4, <1>5, <1>6, <1>7 DEF SessionView!Share, Blamed

LEMMA ViewJudges ==
    ASSUME SessionInv, ResultInv', NEW i \in Operators, Conclude(i)
    PROVE  SessionView!Judge(i)
<1> DEFINE verdict == Verdict(i, got[i])
<1> DEFINE blame == IF Cheaters = {} THEN {} ELSE {First(Cheaters)}
<1>1. /\ round \in [Operators -> 0..3]
      /\ result \in [Operators -> Results]
    BY DEF SessionInv, TypeOK
<1>2. /\ i \notin Cheaters
      /\ round[i] = 2
      /\ \A j \in Operators : round[j] >= 2
      /\ verdict.kind # "none"
    BY ConcludeBlames
<1>3. /\ result' = [result EXCEPT ![i] = verdict]
      /\ round' = [round EXCEPT ![i] = 3]
    BY DEF Conclude, EnterFin, EnterRound
<1>4. result'[i] = verdict /\ \A j \in Operators \ {i} : result'[j] = result[j]
    BY <1>1, <1>3
<1>5. {j \in Operators : round[j] >= 2} = Operators
    BY <1>2
<1>6. /\ {j \in Operators : round'[j] >= 1} = {j \in Operators : round[j] >= 1}
      /\ {j \in Operators : round'[j] >= 2} = {j \in Operators : round[j] >= 2}
    BY <1>1, <1>2, <1>3
<1>7. i \notin {j \in Operators : result[j].kind # "none"}
    BY <1>2 DEF SessionInv, ResultInv
<1>8. {j \in Operators : result'[j].kind # "none"} =
          {j \in Operators : result[j].kind # "none"} \cup {i}
    BY <1>2, <1>4
<1>9. Blamed' = blame
    <2>1. \A j \in Operators :
              result'[j].kind # "none" =>
                  /\ result'[j].kind = "culprit" <=> Cheaters # {}
                  /\ result'[j].kind = "culprit" => result'[j].operator = First(Cheaters)
        BY DEF ResultInv
    <2>2. result'[i].kind # "none"
        BY <1>2, <1>4
    <2>3. QED
        BY <2>1, <2>2, OneJudgement DEF Blamed
<1>10. {j \in Operators : result[j].kind # "none"} # {} => Blamed = blame
    <2>1. \A j \in Operators :
              result[j].kind # "none" =>
                  /\ result[j].kind = "culprit" <=> Cheaters # {}
                  /\ result[j].kind = "culprit" => result[j].operator = First(Cheaters)
        BY DEF SessionInv, ResultInv
    <2>2. QED
        BY <2>1, OneJudgement DEF Blamed
<1>11. blame \in SessionView!Judgements
    <2>1. Cheaters # {} => First(Cheaters) \in Cheaters
        BY FirstIsMember, SessionAssumption
    <2>2. QED
        BY <2>1 DEF SessionView!Judgements
<1>12. QED
    BY <1>5, <1>6, <1>7, <1>8, <1>9, <1>10, <1>11 DEF SessionView!Judge

LEMMA ViewNext ==
    ASSUME SessionInv, SessionInv', [Next]_vars
    PROVE  [SessionView!Next]_(SessionView!vars)
<1>1. round \in [Operators -> 0..3]
    BY DEF SessionInv, TypeOK
<1>2. CASE UNCHANGED vars
    BY <1>2, ViewStays DEF vars, driverVars
<1>3. CASE Next
    <2>1. PICK i \in Operators :
              \/ \E j \in Peers(i) : LinkStep(i, j)
              \/ LocalStep(i)
              \/ \E how, why : Ends(i, how, why)
        BY <1>3, FrostSteps
    <2>2. CASE MeshUp(i)
        BY <2>2, ViewCommits DEF SessionView!Next
    <2>3. CASE EnterRound2(i)
        BY <2>3, ViewShares DEF SessionView!Next
    <2>4. CASE Conclude(i)
        BY <2>4, ViewJudges DEF SessionInv, SessionView!Next
    <2>5. CASE TakeFrame(i)
        <3>1. UNCHANGED <<round, result>>
            BY <2>5 DEF TakeFrame
        <3>2. QED
            BY <3>1, ViewStays
    <2>6. CASE CheaterConcludes(i)
        <3>1. /\ UNCHANGED result
              /\ round' = [round EXCEPT ![i] = 3]
              /\ round[i] = 2
            BY <2>6 DEF CheaterConcludes, EnterFin, EnterRound
        <3>2. QED
            BY <1>1, <3>1, ViewStays
    <2>7. CASE (\E j \in Peers(i) : LinkStep(i, j)) \/ (\E how, why : Ends(i, how, why))
        <3>1. UNCHANGED <<round, result>>
            BY <2>7, LinkStepFrame, EndsFacts DEF SessionInv
        <3>2. QED
            BY <3>1, ViewStays
    <2>8. QED
        BY <2>1, <2>2, <2>3, <2>4, <2>5, <2>6, <2>7 DEF LocalStep
<1>4. QED
    BY <1>2, <1>3

\* Every session implements SigningSession (frost.go:135-244): shares only
\* after all commitments, judgements only after all shares, and all who judge
\* blame the same operator, a cheater, just when there is one.
THEOREM FrostImplementsSession == Spec => ImplementsSession
<1>1. Init => SessionView!Init
    BY DEF Init, SessionView!Init, Blamed
<1>2. Spec => SessionView!Spec
    BY <1>1, SessionInvariant, ViewNext, PTL DEF Spec, SessionView!Spec
<1>3. QED
    BY <1>2 DEF ImplementsSession

=============================================================================
