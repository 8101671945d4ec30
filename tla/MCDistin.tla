------------------------------ MODULE MCDistin ------------------------------
(***************************************************************************)
(* Instances of the on-chain program for TLC.                              *)
(***************************************************************************)
EXTENDS DistinProperties, TLC

\* Shares: well formed for both schemes, for FROST only, all zero.
MCShares == {[lo |-> TRUE, hi |-> TRUE], [lo |-> TRUE, hi |-> FALSE],
             [lo |-> FALSE, hi |-> FALSE]}

\* Authorities and message hashes are interchangeable.
MCSymmetry == Permutations(Authorities) \cup Permutations(Messages)
=============================================================================
