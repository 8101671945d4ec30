----------------------------- MODULE DistinMath -----------------------------
(***************************************************************************)
(* The pure helpers of the on-chain program (engine/programs/distin):      *)
(* fixed-width arithmetic as the Rust code performs it, the parameter      *)
(* ranges it accepts, and the checks it makes of a share.                  *)
(*                                                                         *)
(* Byte strings (hashes, shares, signatures) are values of which only two  *)
(* things matter to the program: whether they are all zero, and which      *)
(* message they are about.  Zero is the all-zero byte string.              *)
(***************************************************************************)
EXTENDS Naturals

CONSTANTS
    U64_MAX,    \* largest u64; small in a model, so that overflow is reached
    U32_MAX,    \* largest u32 (operator_count)
    U16_MAX,    \* largest u16 (partials_collected)
    Zero        \* the all-zero byte string

ASSUME WidthAssumption ==
    /\ U64_MAX \in Nat
    /\ U32_MAX \in Nat
    /\ U16_MAX \in Nat

BPS_DENOMINATOR == 10000
MAX_VALIDITY_SLOTS_CEILING == 432000

SchemeSet == {"FrostEd25519", "Gg20Secp256k1"}

\* u64::saturating_sub and u32::saturating_sub.
SaturatingSub(x, y) == IF x >= y THEN x - y ELSE 0

\* Faulty variant: the upper end is off by one.
ValidThresholdBpsOffByOne(bps) == 1 <= bps /\ bps <= BPS_DENOMINATOR + 1

\* The ranges that initialize and update_config accept.
ValidThresholdBps(bps) == 1 <= bps /\ bps <= BPS_DENOMINATOR

ValidMinBond(bond) == bond > 0

ValidMaxValidity(slots) == 1 <= slots /\ slots <= MAX_VALIDITY_SLOTS_CEILING

\* required_stake_weight: the product is a checked u64 multiplication, so the
\* instruction that asks for it aborts when it does not fit.
RequirementFits(total_bonded, threshold_bps) ==
    total_bonded * threshold_bps <= U64_MAX

RequiredStakeWeight(total_bonded, threshold_bps) ==
    (total_bonded * threshold_bps) \div BPS_DENOMINATOR

\* A share is 64 bytes; the program only asks which of its halves are non-zero.
ShareSet == [lo : BOOLEAN, hi : BOOLEAN]

VerifyPartialShare(scheme, share, message_hash) ==
    /\ share.lo \/ share.hi
    /\ message_hash # Zero
    /\ scheme = "FrostEd25519" => share.lo
    /\ scheme = "Gg20Secp256k1" => share.hi
=============================================================================
