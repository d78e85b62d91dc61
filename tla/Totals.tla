------------------------------- MODULE Totals -------------------------------
(***************************************************************************)
(* Sums of what a function assigns to the members of a finite set: the     *)
(* cents of some requests, the results of some challenges.  A sum is the   *)
(* number of units, so that what is known about the cardinality of finite  *)
(* sets can be used to reason about it.                                    *)
(***************************************************************************)
EXTENDS Naturals, FiniteSets

\* f[x] units of every x in S.
Units(S, f) == UNION {{x} \X (1 .. f[x]) : x \in S}

\* The sum of f[x] over S.
Total(S, f) == Cardinality(Units(S, f))
=============================================================================
