---------------------------- MODULE RoundSession ----------------------------
(***************************************************************************)
(* What a networked session of LastRound rounds promises, whatever happens *)
(* to frames and processes: nobody enters a round before everybody else    *)
(* has done the one before; nobody goes on past the round that finds       *)
(* another's cheating out, except to name a cheater; all rounds done come  *)
(* to a result, once, only where nobody cheats; and nobody leaves at ease  *)
(* before everybody has its result.                                        *)
(***************************************************************************)
EXTENDS Naturals

CONSTANTS Operators, LastRound

VARIABLES
    cheaters,   \* the operators that cheat in this session
    round,      \* round[i]: the round i is in, 0 before the first
    blamed,     \* blamed[i]: whom i names, nobody or one
    succeeded,  \* the operators that have their result
    left        \* those that have left knowing that everybody has

vars == <<cheaters, round, blamed, succeeded, left>>

Init ==
    /\ cheaters \subseteq Operators
    /\ round = [i \in Operators |-> 0]
    /\ blamed = [i \in Operators |-> {}]
    /\ succeeded = {} /\ left = {}

\* Everybody but i has come to round r.
OthersIn(i, r) == \A j \in Operators \ {i} : round[j] >= r

\* Where the proofs of round 2 are verified, on entering the next.
Verification == 3

Enter(i, r) ==
    /\ round[i] < r /\ OthersIn(i, r - 1)
    /\ r >= Verification => cheaters \subseteq {i}
    /\ r > Verification => cheaters = {}
    /\ round' = [round EXCEPT ![i] = r]
    /\ UNCHANGED <<cheaters, blamed, succeeded, left>>

Blame(i, c) ==
    /\ round[i] < Verification /\ OthersIn(i, Verification - 1)
    /\ c \in cheaters \ {i}
    /\ round' = [round EXCEPT ![i] = Verification]
    /\ blamed' = [blamed EXCEPT ![i] = {c}]
    /\ UNCHANGED <<cheaters, succeeded, left>>

Succeed(i) ==
    /\ round[i] = LastRound + 1 /\ i \notin succeeded
    /\ succeeded' = succeeded \cup {i}
    /\ UNCHANGED <<cheaters, round, blamed, left>>

Leave(i) ==
    /\ succeeded = Operators /\ i \notin left
    /\ left' = left \cup {i}
    /\ UNCHANGED <<cheaters, round, blamed, succeeded>>

Next ==
    \E i \in Operators :
        \/ \E r \in 1..(LastRound + 1) : Enter(i, r)
        \/ \E c \in cheaters : Blame(i, c)
        \/ Succeed(i)
        \/ Leave(i)

Spec == Init /\ [][Next]_vars
=============================================================================
