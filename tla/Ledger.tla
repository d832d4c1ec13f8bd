------------------------------- MODULE Ledger -------------------------------
(***************************************************************************)
(* The agents table under arbitrary callers of governance.py: reserve,     *)
(* settle, refund, revoke and activate with whatever amounts they pass, in *)
(* whatever order.                                                         *)
(*                                                                         *)
(* An UPDATE of one row is one step: Postgres re-evaluates the conditions  *)
(* on the row itself after it has waited for the row lock.                 *)
(***************************************************************************)
EXTENDS LedgerRows

CONSTANTS
    Agents,         \* ids with a row in the agents table
    Caps,           \* caps an agent may be created with
    Amounts         \* amounts the callers of the API pass

ASSUME LedgerAssumption ==
    /\ Caps \subseteq {k \in Nat : IsWhole(k)}
    /\ Amounts \subseteq Int

VARIABLE rows

Init ==
    \E k \in [Agents -> Caps] : rows = [a \in Agents |-> NewRow(k[a])]

\* One committed UPDATE of a's row; a row that fails a CHECK is not written.
Write(a, row) == RowChecks(row) /\ rows' = [rows EXCEPT ![a] = row]

\* reserve(), for an agent whose permission allows the call.
Reserve(a, cost) ==
    ReserveWhere(rows[a], cost) /\ Write(a, ReservedRow(rows[a], cost))

\* settle(); refund() is settle with actual = 0.
Settle(a, amount, actual) ==
    SettleWhere(rows[a], amount) /\ Write(a, SettledRow(rows[a], amount, actual))

\* revoke() and activate() are unconditional on the current status.
Revoke(a)   == Write(a, [rows[a] EXCEPT !.status = "revoked"])
Activate(a) == Write(a, [rows[a] EXCEPT !.status = "active"])

Next ==
    \E a \in Agents :
        \/ \E cost \in Amounts : Reserve(a, cost)
        \/ \E amount \in Amounts, actual \in Amounts \union {0} :
              Settle(a, amount, actual)
        \/ Revoke(a)
        \/ Activate(a)

Spec == Init /\ [][Next]_rows

-----------------------------------------------------------------------------
\* Every row is a row of the table and satisfies its CHECK constraints.
TypeOK == rows \in [Agents -> {r \in Row : RowChecks(r)}]

\* reserve() "never raises": when its WHERE clause holds for a cost that is
\* not negative, the rounded row satisfies every CHECK, although the clause
\* is evaluated on the unrounded sum.
ReserveNeverRaises ==
    \A a \in Agents, cost \in Amounts :
        cost >= 0 /\ ReserveWhere(rows[a], cost)
            => RowChecks(ReservedRow(rows[a], cost))

\* A settle for no more than was reserved cannot break a CHECK when both
\* amounts are whole cents, whatever else was reserved or settled before:
\* only an overrun raises, as the docstring of settle() says.
OnlyOverrunRaises ==
    \A a \in Agents : \A amount, actual \in Amounts \union {0} :
        /\ IsWhole(amount) /\ IsWhole(actual)
        /\ 0 <= actual /\ actual <= amount
        /\ SettleWhere(rows[a], amount)
        => RowChecks(SettledRow(rows[a], amount, actual))

\* The diagnosis explains every denial: if it reads the state in which the
\* WHERE clause failed it finds a reason, and it never finds one when the
\* clause holds.  "denied_unknown" is thus the mark of a concurrent change.
DiagnosisIsExact ==
    \A a \in Agents, cost \in Amounts, limit \in {NoPermission, NoLimit} \union Amounts :
        (ReserveWhere(rows[a], cost) /\ Permits(limit, cost))
            <=> DenialReason(rows[a], limit, cost) = "denied_unknown"

\* refund() "releases reserved_amount back to the agent's headroom and adds
\* nothing to spent - as if the tool never ran": a refund right after the
\* reserve leaves the row as it was, for amounts the columns can hold.
RefundUndoesReserve ==
    \A a \in Agents, cost \in Amounts :
        cost >= 0 /\ IsWhole(cost) /\ ReserveWhere(rows[a], cost)
            => LET held == ReservedRow(rows[a], cost)
               IN  SettleWhere(held, cost) /\ RefundedRow(held, cost) = rows[a]
=============================================================================
