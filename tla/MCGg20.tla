------------------------------- MODULE MCGg20 -------------------------------
(***************************************************************************)
(* Instances of the GG20 driver for TLC.                                   *)
(***************************************************************************)
EXTENDS Gg20Properties

\* A quorum that skips operators of the directory.
SampleGlobal == [i \in Operators |-> 2 * i + 1]
=============================================================================
