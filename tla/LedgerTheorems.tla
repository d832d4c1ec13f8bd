--------------------------- MODULE LedgerTheorems ---------------------------
(***************************************************************************)
(* What the agents table guarantees to every caller of governance.py.      *)
(***************************************************************************)
EXTENDS Ledger, LedgerRowsTheorems

\* A new row, and a row whose status alone changes, meet the CHECKs.
LEMMA PlainRowsAreSound ==
    /\ \A k \in Caps : NewRow(k) \in Row /\ RowChecks(NewRow(k))
    /\ \A row \in Row, s \in Status : RowChecks(row) =>
          /\ [row EXCEPT !.status = s] \in Row
          /\ RowChecks([row EXCEPT !.status = s])
<1>1. ASSUME NEW k \in Caps PROVE NewRow(k) \in Row /\ RowChecks(NewRow(k))
  <2>1. k \in Nat /\ IsWhole(k)
    BY LedgerAssumption
  <2>2. IsWhole(0)
    BY DEF IsWhole, Cent
  <2> QED
    BY <2>1, <2>2 DEF NewRow, Row, Column, Status, RowChecks
<1>2. ASSUME NEW row \in Row, NEW s \in Status, RowChecks(row)
      PROVE  /\ [row EXCEPT !.status = s] \in Row
             /\ RowChecks([row EXCEPT !.status = s])
  BY <1>2, RowForms DEF Row, RowChecks
<1> QED
  BY <1>1, <1>2

\* Every row of the table keeps its types and CHECK constraints, whatever
\* amounts are passed to the API and in whatever order.
THEOREM TableStaysSound == Spec => []TypeOK
<1>1. Init => TypeOK
  BY PlainRowsAreSound DEF Init, TypeOK
<1>2. TypeOK /\ [Next]_rows => TypeOK'
  <2> SUFFICES ASSUME TypeOK, [Next]_rows PROVE TypeOK'
    OBVIOUS
  <2>1. ASSUME NEW a \in Agents, NEW row \in Row, Write(a, row) PROVE TypeOK'
    BY <2>1 DEF TypeOK, Write
  <2>2. \A a \in Agents : rows[a] \in Row /\ RowChecks(rows[a])
    BY DEF TypeOK
  <2>3. ASSUME NEW a \in Agents, NEW cost \in Amounts, Reserve(a, cost) PROVE TypeOK'
    BY <2>1, <2>2, <2>3, RowsAreTyped, LedgerAssumption DEF Reserve
  <2>4. ASSUME NEW a \in Agents, NEW amount \in Amounts,
               NEW actual \in Amounts \union {0}, Settle(a, amount, actual)
        PROVE  TypeOK'
    BY <2>1, <2>2, <2>4, RowsAreTyped, LedgerAssumption DEF Settle
  <2>5. ASSUME NEW a \in Agents, Revoke(a) \/ Activate(a) PROVE TypeOK'
    BY <2>1, <2>2, <2>5, PlainRowsAreSound DEF Revoke, Activate, Status
  <2>6. CASE UNCHANGED rows
    BY <2>6 DEF TypeOK
  <2> QED
    BY <2>3, <2>4, <2>5, <2>6 DEF Next
<1> QED
  BY <1>1, <1>2, PTL DEF Spec

\* reserve() never raises for a cost that is not negative.
THEOREM ReserveIsTotal == Spec => []ReserveNeverRaises
<1>1. TypeOK => ReserveNeverRaises
  BY ReservedRowIsSound, LedgerAssumption DEF TypeOK, ReserveNeverRaises
<1> QED
  BY <1>1, TableStaysSound, PTL

\* settle() raises only for an overrun, as long as amounts are whole cents.
THEOREM SettleRaisesOnOverrunOnly == Spec => []OnlyOverrunRaises
<1>1. TypeOK => OnlyOverrunRaises
  <2> SUFFICES ASSUME TypeOK, NEW a \in Agents,
                      NEW amount \in Amounts \union {0}, NEW actual \in Amounts \union {0},
                      IsWhole(amount), IsWhole(actual), 0 <= actual, actual <= amount,
                      SettleWhere(rows[a], amount)
               PROVE  RowChecks(SettledRow(rows[a], amount, actual))
    BY DEF OnlyOverrunRaises
  <2>1. rows[a] \in Row /\ RowChecks(rows[a]) /\ Covers(rows[a], amount)
    BY DEF TypeOK, SettleWhere
  <2>2. amount \in Int /\ actual \in Int
    BY LedgerAssumption
  <2> QED
    BY <2>1, <2>2, SettledRowIsSound
<1> QED
  BY <1>1, TableStaysSound, PTL

\* The diagnosis of a denied reserve is complete and sound.
THEOREM DiagnosisExact == Spec => []DiagnosisIsExact
<1>1. TypeOK => DiagnosisIsExact
  BY DiagnosisAgrees, LedgerAssumption DEF TypeOK, DiagnosisIsExact
<1> QED
  BY <1>1, TableStaysSound, PTL

\* A refund right after its reserve restores the row.
THEOREM RefundRestores == Spec => []RefundUndoesReserve
<1>1. TypeOK => RefundUndoesReserve
  <2> SUFFICES ASSUME TypeOK, NEW a \in Agents, NEW cost \in Amounts,
                      cost >= 0, IsWhole(cost), ReserveWhere(rows[a], cost)
               PROVE  /\ SettleWhere(ReservedRow(rows[a], cost), cost)
                      /\ RefundedRow(ReservedRow(rows[a], cost), cost) = rows[a]
    BY DEF RefundUndoesReserve
  <2> DEFINE row == rows[a]
             held == ReservedRow(row, cost)
  <2>1. row \in Row /\ RowChecks(row) /\ cost \in Int
    BY LedgerAssumption DEF TypeOK
  <2>2. row.reserved \in Int /\ row.reserved >= 0
    BY <2>1 DEF Row, Column, RowChecks
  <2> HIDE DEF row
  <2>3. held = [cap |-> row.cap, spent |-> row.spent,
                reserved |-> row.reserved + cost, status |-> row.status]
    BY <2>1, WholeRows
  <2>4. held \in Row
    BY <2>1, RowsAreTyped
  <2> HIDE DEF held
  <2>5. RefundedRow(held, cost) =
           [cap |-> held.cap, spent |-> held.spent,
            reserved |-> held.reserved - cost, status |-> held.status]
    BY <2>1, <2>4, WholeRows
  <2>6. RefundedRow(held, cost) =
           [cap |-> row.cap, spent |-> row.spent,
            reserved |-> row.reserved, status |-> row.status]
    BY <2>1, <2>2, <2>3, <2>5
  <2>7. RefundedRow(held, cost) = row
    BY <2>1, <2>6, RowForms
  <2>8. SettleWhere(held, cost)
    BY <2>1, <2>2, <2>3 DEF SettleWhere, Covers, ReserveWhere, row
  <2> QED
    BY <2>7, <2>8 DEF row, held
<1> QED
  BY <1>1, TableStaysSound, PTL
=============================================================================
