-------------------------------- MODULE Sums --------------------------------
(***************************************************************************)
(* The sum of the values of a function with a finite domain, counted as    *)
(* the members of disjoint sets of that many members: in this form it      *)
(* follows from facts about cardinalities, without an induction.           *)
(***************************************************************************)
EXTENDS Integers, FiniteSets

Share(f, x) == {x} \X (1..f[x])
Total(f) == Cardinality(UNION {Share(f, x) : x \in DOMAIN f})
=============================================================================
