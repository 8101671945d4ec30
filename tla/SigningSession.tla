-------------------------- MODULE SigningSession --------------------------
(***************************************************************************)
(* What a session of the operator network promises, whatever happens to    *)
(* messages and processes: nobody reveals a share before everybody has     *)
(* committed, nobody judges the shares before everybody has given one, and *)
(* all who judge come to one judgement, which blames somebody just when    *)
(* somebody cheats, and then a cheater.                                    *)
(***************************************************************************)
CONSTANTS Operators, Cheaters

VARIABLES
    committed,  \* the operators that have committed
    shared,     \* those that have made their share
    judged,     \* those that have judged the shares
    blamed      \* whom the judgement names

vars == <<committed, shared, judged, blamed>>

Init == committed = {} /\ shared = {} /\ judged = {} /\ blamed = {}

Commit(i) ==
    /\ i \notin committed
    /\ committed' = committed \cup {i}
    /\ UNCHANGED <<shared, judged, blamed>>

Share(i) ==
    /\ committed = Operators
    /\ i \notin shared
    /\ shared' = shared \cup {i}
    /\ UNCHANGED <<committed, judged, blamed>>

Judgements == IF Cheaters = {} THEN {{}} ELSE {{c} : c \in Cheaters}

Judge(i) ==
    /\ shared = Operators
    /\ i \notin judged
    /\ judged' = judged \cup {i}
    /\ blamed' \in Judgements
    /\ judged # {} => blamed' = blamed
    /\ UNCHANGED <<committed, shared>>

Next == \E i \in Operators : Commit(i) \/ Share(i) \/ Judge(i)

Spec == Init /\ [][Next]_vars
===========================================================================
