--------------------------- MODULE MCGovernedCalls ---------------------------
(* Small sets of governed calls.  Prices are a few cents: only how they     *)
(* compare with each other, with the limits and with the cap matters.       *)
EXTENDS GovernedCalls, TLC

CONSTANTS agent, stranger, c1, c2, c3, c4

ToolPrices == [search |-> 10, write_record |-> 20]
OneCap     == [a \in {agent} |-> 30]

\* Two disbursements that fit the cap together, one that does not fit it while
\* they hold their reservations, and, if c4 is there, a disburse of nothing.
BusyAgents  == [c \in Calls |-> agent]
BusyTools   == [c \in Calls |-> "disburse"]
BusyAmounts == [c \in Calls |-> CASE c = c3 -> 20 [] c = c4 -> 0 [] OTHER -> 10]

\* A search and a disburse that is rounded down, so that what is reserved for it
\* does not cover it unless the search has reserved too; and a call of an agent
\* without a row, for more than a column of the audit_log can hold.
OddAgents  == (c3 :> stranger) @@ [c \in {c1, c2} |-> agent]
OddTools   == (c1 :> "search") @@ [c \in {c2, c3} |-> "disburse"]
OddAmounts == (c1 :> 0) @@ (c2 :> 14) @@ (c3 :> 100)

\* c1 and c2 of the busy calls are alike and can be exchanged.
Twins == Permutations({c1, c2})

\* Two calls of one agent that fit its cap together.
TwoAgents   == [c \in {c1, c2} |-> agent]
TwoTools    == (c1 :> "search") @@ (c2 :> "write_record")
NoAmounts   == [c \in {c1, c2} |-> 0]

\* A search, and a disburse of half a cent.
FineTools   == (c1 :> "search") @@ (c2 :> "disburse")
FineAmounts == (c1 :> 0) @@ (c2 :> 5)
=============================================================================
