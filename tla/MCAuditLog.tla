----------------------------- MODULE MCAuditLog -----------------------------
(* Appends for two agents over pools smaller than their number; a digest    *)
(* without collisions.                                                      *)
EXTENDS AuditTampering, TLC

CONSTANTS ana, fin, l1, l2, l3, l4

PairOf(x, y) == <<x, y>>

\* Three appends for one agent, one for another.
MostlyAna == (l4 :> fin) @@ [a \in {l1, l2, l3} |-> ana]
AllAna    == [a \in {l1, l2} |-> ana]

\* l1 and l2 are two calls alike.
Contents  == (l3 :> "denied") @@ [a \in {l1, l2, l4} |-> "allowed"]
SameTexts == [a \in {l1, l2} |-> "allowed"]

\* Three share a pool; the other is of a process of its own.
TwoPools  == (l3 :> "p2") @@ [a \in {l1, l2, l4} |-> "p1"]
OnePool   == [a \in {l1, l2} |-> "p1"]

OwnKeys   == (ana :> "k1") @@ (fin :> "k2")

\* Whole cents, and fractions on which the two roundings agree.
PlainCosts == (l1 :> 14) @@ (l2 :> 14) @@ (l3 :> 0) @@ (l4 :> 20)
\* Half a cent over an odd and over an even number of cents.
HalfCosts  == (l1 :> 15) @@ (l2 :> 25)
=============================================================================
