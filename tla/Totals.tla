------------------------------- MODULE Totals -------------------------------
(***************************************************************************)
(* The sum of the costs of a set of calls, as a count of mills: every call *)
(* contributes the set {c} \X 1..cost[c].  A fold says the same thing, but *)
(* its recursion hides from the provers that a call adds its cost; the     *)
(* cardinality of a finite set does not.                                   *)
(***************************************************************************)
EXTENDS Integers, FiniteSets

Mills(cost, c) == {c} \X (1..cost[c])

MillsOf(cost, S) == UNION {Mills(cost, c) : c \in S}

Total(cost, S) == Cardinality(MillsOf(cost, S))
=============================================================================
