----------------------------- MODULE LedgerRows -----------------------------
(***************************************************************************)
(* A row of the agents table and what the statements of governance.py say  *)
(* of it: the CHECK constraints, the WHERE clause and the SET list of each *)
(* UPDATE, and the diagnosis of a denied reserve.  Constant level: Ledger  *)
(* and GovernedCalls build their steps from these operators.               *)
(***************************************************************************)
EXTENDS Money

CONSTANTS
    NoPermission,   \* no row in agent_permissions: the tool is not allowed
    NoLimit         \* max_per_call IS NULL: allowed at any cost

ASSUME LimitAssumption ==
    /\ NoPermission \notin Int
    /\ NoLimit \notin Int
    /\ NoPermission # NoLimit

Status == {"active", "revoked"}

\* A value of the money columns: two decimal places.
Column == {x \in Int : IsWhole(x)}

Row == [cap : Column, spent : Column, reserved : Column, status : Status]

\* max_per_call of the permission of an agent for a tool.
Limit == Nat \union {NoPermission, NoLimit}

NewRow(k) == [cap |-> k, spent |-> 0, reserved |-> 0, status |-> "active"]

-----------------------------------------------------------------------------
\* The CHECK constraints of agents, evaluated on the rounded columns; a
\* statement that would break one is rolled back and raises.
RowChecks(row) ==
    /\ row.cap >= 0
    /\ row.spent >= 0
    /\ row.reserved >= 0
    /\ row.spent + row.reserved <= row.cap

\* Mutant: the cap is compared with what is spent alone.
SpentFitsCap(row, cost) == row.spent + cost <= row.cap

\* (spent + reserved + $3) <= cap
FitsCap(row, cost) == row.spent + row.reserved + cost <= row.cap

\* Mutant: the status is not a condition of the UPDATE.
ReserveAnyStatus(row, cost) == FitsCap(row, cost)

\* The conditions of reserve's WHERE clause on the row itself.
ReserveWhere(row, cost) == row.status = "active" /\ FitsCap(row, cost)

\* ap.max_per_call IS NULL OR $3 <= ap.max_per_call
WithinLimit(limit, cost) == IF limit = NoLimit THEN TRUE ELSE cost <= limit

\* The EXISTS subquery of reserve's WHERE clause.
Permits(limit, cost) == limit # NoPermission /\ WithinLimit(limit, cost)

\* Mutant: a column without a scale.
UnroundedRow(row, cost) == [row EXCEPT !.reserved = @ + cost]

\* Mutant: SET reserved = $3, from a value read before.
OverwrittenRow(row, cost) == [row EXCEPT !.reserved = Stored(cost)]

ReservedRow(row, cost) == [row EXCEPT !.reserved = Stored(@ + cost)]

\* Mutant: the condition is dropped.
CoversAlways(row, amount) == TRUE

\* reserved >= $2
Covers(row, amount) == row.reserved >= amount

SettleWhere(row, amount) == row.status = "active" /\ Covers(row, amount)

\* Mutant: what was spent is released, not what was reserved.
ReleasesActual(row, amount, actual) ==
    [row EXCEPT !.reserved = Stored(@ - actual),
                !.spent    = Stored(@ + actual)]

SettledRow(row, amount, actual) ==
    [row EXCEPT !.reserved = Stored(@ - amount),
                !.spent    = Stored(@ + actual)]

\* Mutant: the refund charges the amount.
ChargingRefund(row, amount) == SettledRow(row, amount, amount)

RefundedRow(row, amount) == SettledRow(row, amount, 0)

\* First SELECT of _reserve_denial_reason: what the agent's row says of a
\* denied reserve, or "passes" when it says nothing.
AgentReason(row, cost) ==
    IF row.status # "active"      THEN "revoked"
    ELSE IF ~FitsCap(row, cost)   THEN "cap_exceeded"
    ELSE "passes"

\* Mutant: a cost equal to the limit counts as above it.
StrictPermissionReason(limit, cost) ==
    IF limit = NoPermission                   THEN "not_permitted"
    ELSE IF limit # NoLimit /\ ~(cost < limit) THEN "per_call_limit_exceeded"
    ELSE "denied_unknown"

\* Second SELECT of _reserve_denial_reason.
PermissionReason(limit, cost) ==
    IF limit = NoPermission            THEN "not_permitted"
    ELSE IF ~WithinLimit(limit, cost)  THEN "per_call_limit_exceeded"
    ELSE "denied_unknown"

\* The whole diagnosis, when nothing changes between its two SELECTs.
DenialReason(row, limit, cost) ==
    IF AgentReason(row, cost) # "passes"
    THEN AgentReason(row, cost)
    ELSE PermissionReason(limit, cost)
=============================================================================
