------------------------------ MODULE MCSignd ------------------------------
(***************************************************************************)
(* Instances of the signer daemon for TLC.                                 *)
(***************************************************************************)
EXTENDS SigndProperties, TLC

CONSTANTS a1, a2

MCSets == "FrostEd25519" :> <<a1, a2>>

MCSymmetry == Permutations(Messages) \cup Permutations(ClientNonces)

MCShares == {[lo |-> TRUE, hi |-> TRUE]}
=============================================================================
