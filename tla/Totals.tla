------------------------------- MODULE Totals -------------------------------
(***************************************************************************)
(* The sum of a function with natural values.  It is the number of units   *)
(* the function hands out: element e holds the units <<e, 1>>, <<e, 2>>,   *)
(* ..., <<e, f[e]>>.  Put this way a sum is the size of a finite set, and  *)
(* the facts about sizes of finite sets apply to it.                       *)
(***************************************************************************)
EXTENDS Naturals, FiniteSets

UnitsOf(f, e) == {e} \X (1..f[e])

Units(f) == UNION {UnitsOf(f, e) : e \in DOMAIN f}

Total(f) == Cardinality(Units(f))
=============================================================================
