--------------------------- MODULE SigningLedger ---------------------------
(***************************************************************************)
(* What the coordination program promises to requesters, signers and       *)
(* relayers, without saying how: at each address at most one signing       *)
(* intent is open; an intent gathers distinct endorsers until its          *)
(* deadline; it is settled at most once, in time, and only when enough     *)
(* endorsers with enough stake stand behind it; what is settled stays as   *)
(* it is; and an open intent may be dropped.  Identifiers are never used   *)
(* twice.                                                                  *)
(***************************************************************************)
EXTENDS Naturals, FiniteSets

CONSTANTS Places, Signers, Subjects, Unsettled, Absent

VARIABLES
    clock,
    issued,     \* how many intents were ever posted
    intents     \* the intent at each place, or Absent

ledgerVars == <<clock, issued, intents>>

IsOpen(pl) == intents[pl] # Absent /\ intents[pl].verdict = Unsettled

Supported(in) ==
    /\ Cardinality(in.endorsers) >= in.threshold
    /\ in.stake >= in.required

Intent ==
    [id : Nat, subject : Subjects, threshold : Nat \ {0}, required : Nat,
     deadline : Nat, endorsers : SUBSET Signers, stake : Nat,
     verdict : Subjects \cup {Unsettled}]

\* Only the intent at pl may change.
ChangesOnly(pl) ==
    /\ intents' \in [Places -> Intent \cup {Absent}]
    /\ \A other \in Places \ {pl} : intents'[other] = intents[other]

LedgerInit ==
    /\ clock \in Nat
    /\ issued = 0
    /\ intents = [pl \in Places |-> Absent]

Post(pl) ==
    /\ intents[pl] = Absent
    /\ ChangesOnly(pl)
    /\ intents'[pl] \in Intent
    /\ intents'[pl].id = issued
    /\ intents'[pl].deadline > clock
    /\ intents'[pl].endorsers = {}
    /\ intents'[pl].stake = 0
    /\ intents'[pl].verdict = Unsettled
    /\ issued' = issued + 1
    /\ UNCHANGED clock

Endorse(pl, s) ==
    /\ IsOpen(pl)
    /\ clock <= intents[pl].deadline
    /\ s \notin intents[pl].endorsers
    /\ ChangesOnly(pl)
    /\ intents'[pl] = [intents[pl] EXCEPT !.endorsers = @ \cup {s},
                                         !.stake = intents'[pl].stake]
    /\ intents'[pl].stake >= intents[pl].stake
    /\ UNCHANGED <<clock, issued>>

Settle(pl) ==
    /\ IsOpen(pl)
    /\ clock <= intents[pl].deadline
    /\ Supported(intents[pl])
    /\ \E verdict \in Subjects : intents' = [intents EXCEPT ![pl].verdict = verdict]
    /\ UNCHANGED <<clock, issued>>

Drop(pl) ==
    /\ IsOpen(pl)
    /\ intents' = [intents EXCEPT ![pl] = Absent]
    /\ UNCHANGED <<clock, issued>>

Pass ==
    /\ clock' \in Nat
    /\ clock' > clock
    /\ UNCHANGED <<issued, intents>>

LedgerNext ==
    \/ \E pl \in Places : Post(pl) \/ Settle(pl) \/ Drop(pl)
    \/ \E pl \in Places, s \in Signers : Endorse(pl, s)
    \/ Pass

LedgerSpec == LedgerInit /\ [][LedgerNext]_ledgerVars
=============================================================================
