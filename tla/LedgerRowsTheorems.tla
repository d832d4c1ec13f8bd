-------------------------- MODULE LedgerRowsTheorems --------------------------
(***************************************************************************)
(* The arithmetic the other proofs rest on: the rounding of the money      *)
(* columns, what each statement of governance.py does to a row, and the    *)
(* sums of the costs of sets of calls.                                     *)
(***************************************************************************)
EXTENDS LedgerRows, Totals, FiniteSetTheorems, TLAPS

\* A column holds whole cents whatever is assigned to it.
LEMMA StoredIsWhole ==
    ASSUME NEW x \in Int
    PROVE  Stored(x) \in Int /\ IsWhole(Stored(x))
BY DEF Stored, RoundHalfUp, IsWhole, Half, Cent

\* Whole cents are stored as they are.
LEMMA WholeIsStored ==
    ASSUME NEW x \in Int, IsWhole(x)
    PROVE  Stored(x) = x
BY DEF Stored, RoundHalfUp, IsWhole, Half, Cent

\* Whole cents are closed under the arithmetic of the statements.
LEMMA WholeArithmetic ==
    ASSUME NEW x \in Int, NEW y \in Int, IsWhole(x), IsWhole(y)
    PROVE  IsWhole(x + y) /\ IsWhole(x - y)
BY DEF IsWhole, Cent

\* Rounding does not cross a whole number of cents.
LEMMA StoredStaysWithin ==
    ASSUME NEW x \in Int, NEW k \in Int, IsWhole(k)
    PROVE  /\ x <= k => Stored(x) <= k
           /\ k <= x => k <= Stored(x)
BY DEF Stored, RoundHalfUp, IsWhole, Half, Cent

-----------------------------------------------------------------------------
\* Each UPDATE, column by column.
LEMMA RowForms ==
    ASSUME NEW row \in Row, NEW x, NEW y, NEW s
    PROVE  /\ row = [cap |-> row.cap, spent |-> row.spent,
                     reserved |-> row.reserved, status |-> row.status]
           /\ [row EXCEPT !.status = s] =
                 [cap |-> row.cap, spent |-> row.spent,
                  reserved |-> row.reserved, status |-> s]
           /\ ReservedRow(row, x) =
                 [cap |-> row.cap, spent |-> row.spent,
                  reserved |-> Stored(row.reserved + x), status |-> row.status]
           /\ SettledRow(row, x, y) =
                 [cap |-> row.cap, spent |-> Stored(row.spent + y),
                  reserved |-> Stored(row.reserved - x), status |-> row.status]
<1> DEFINE r == Stored(row.reserved - x)
           t == Stored(row.spent + y)
           mid == [row EXCEPT !.reserved = r]
<1>1. mid = [cap |-> row.cap, spent |-> row.spent, reserved |-> r, status |-> row.status]
  BY DEF Row
<1>2. [mid EXCEPT !.spent = t] =
         [cap |-> row.cap, spent |-> t, reserved |-> r, status |-> row.status]
  <2> HIDE DEF mid
  <2> QED
    BY <1>1
<1>3. SettledRow(row, x, y) = [mid EXCEPT !.spent = t]
  BY <1>1 DEF SettledRow
<1> QED
  BY <1>2, <1>3 DEF Row, ReservedRow

\* No UPDATE of reserve, settle or refund changes the cap or the status.
LEMMA UpdatesKeep ==
    ASSUME NEW row \in Row, NEW x, NEW y
    PROVE  /\ ReservedRow(row, x).cap = row.cap
           /\ ReservedRow(row, x).status = row.status
           /\ SettledRow(row, x, y).cap = row.cap
           /\ SettledRow(row, x, y).status = row.status
           /\ RefundedRow(row, x).cap = row.cap
           /\ RefundedRow(row, x).status = row.status
BY DEF Row, ReservedRow, SettledRow, RefundedRow

\* What an UPDATE leaves in a row is rounded to the columns.
LEMMA RowsAreTyped ==
    ASSUME NEW row \in Row, NEW amount \in Int, NEW actual \in Int
    PROVE  /\ ReservedRow(row, amount) \in Row
           /\ SettledRow(row, amount, actual) \in Row
           /\ RefundedRow(row, amount) \in Row
<1>1. /\ row.cap \in Column /\ row.status \in Status
      /\ row.spent \in Int /\ row.spent \in Column
      /\ row.reserved \in Int /\ row.reserved \in Column
  BY DEF Row, Column
<1>2. \A x \in Int : Stored(x) \in Column
  BY StoredIsWhole DEF Column
<1> QED
  BY <1>1, <1>2, RowForms DEF Row, RefundedRow

\* A row that meets reserve's conditions meets the CHECKs after the UPDATE.
LEMMA ReservedRowIsSound ==
    ASSUME NEW row \in Row, RowChecks(row), NEW cost \in Int, cost >= 0,
           ReserveWhere(row, cost)
    PROVE  RowChecks(ReservedRow(row, cost))
<1> DEFINE sum == row.reserved + cost
<1>1. /\ row.cap \in Int /\ IsWhole(row.cap)
      /\ row.spent \in Int /\ IsWhole(row.spent)
      /\ row.reserved \in Int
  BY DEF Row, Column
<1>2. Stored(sum) \in Int
  BY <1>1, StoredIsWhole
<1>3. /\ 0 <= sum /\ IsWhole(0)
      /\ sum <= row.cap - row.spent /\ IsWhole(row.cap - row.spent)
  BY <1>1, WholeArithmetic DEF ReserveWhere, FitsCap, RowChecks, IsWhole, Cent
<1>4. 0 <= Stored(sum) /\ Stored(sum) <= row.cap - row.spent
  BY <1>1, <1>3, StoredStaysWithin
<1> HIDE DEF sum
<1>5. ReservedRow(row, cost) =
         [cap |-> row.cap, spent |-> row.spent,
          reserved |-> Stored(sum), status |-> row.status]
  BY RowForms DEF sum
<1> QED
  BY <1>1, <1>2, <1>4, <1>5 DEF RowChecks

\* On whole cents the statements add and subtract exactly.
LEMMA WholeRows ==
    ASSUME NEW row \in Row, NEW amount \in Int, IsWhole(amount),
           NEW actual \in Int, IsWhole(actual)
    PROVE  /\ ReservedRow(row, amount) =
                 [cap |-> row.cap, spent |-> row.spent,
                  reserved |-> row.reserved + amount, status |-> row.status]
           /\ SettledRow(row, amount, actual) =
                 [cap |-> row.cap, spent |-> row.spent + actual,
                  reserved |-> row.reserved - amount, status |-> row.status]
           /\ RefundedRow(row, amount) =
                 [cap |-> row.cap, spent |-> row.spent,
                  reserved |-> row.reserved - amount, status |-> row.status]
<1>1. /\ row.spent \in Int /\ IsWhole(row.spent)
      /\ row.reserved \in Int /\ IsWhole(row.reserved)
  BY DEF Row, Column
<1>2. \A x, y \in Int : IsWhole(x) /\ IsWhole(y) =>
         Stored(x + y) = x + y /\ Stored(x - y) = x - y
  BY WholeArithmetic, WholeIsStored
<1>3. Stored(row.reserved + amount) = row.reserved + amount
  BY <1>1, <1>2
<1>4. Stored(row.reserved - amount) = row.reserved - amount
  BY <1>1, <1>2
<1>5. Stored(row.spent + actual) = row.spent + actual
  BY <1>1, <1>2
<1>6. Stored(row.spent + 0) = row.spent
  BY <1>1, WholeIsStored
<1>7. RefundedRow(row, amount) =
         [cap |-> row.cap, spent |-> Stored(row.spent + 0),
          reserved |-> Stored(row.reserved - amount), status |-> row.status]
  BY RowForms DEF RefundedRow
<1>8. ReservedRow(row, amount) =
         [cap |-> row.cap, spent |-> row.spent,
          reserved |-> Stored(row.reserved + amount), status |-> row.status]
  BY RowForms
<1>9. SettledRow(row, amount, actual) =
         [cap |-> row.cap, spent |-> Stored(row.spent + actual),
          reserved |-> Stored(row.reserved - amount), status |-> row.status]
  BY RowForms
<1> QED
  BY <1>3, <1>4, <1>5, <1>6, <1>7, <1>8, <1>9

\* A settle or a refund of whole cents within the reservation meets the CHECKs.
LEMMA SettledRowIsSound ==
    ASSUME NEW row \in Row, RowChecks(row),
           NEW amount \in Int, IsWhole(amount), NEW actual \in Int, IsWhole(actual),
           0 <= actual, actual <= amount, Covers(row, amount)
    PROVE  RowChecks(SettledRow(row, amount, actual)) /\ RowChecks(RefundedRow(row, amount))
<1>1. row.cap \in Int /\ row.spent \in Int /\ row.reserved \in Int
  BY DEF Row, Column
<1>2. /\ SettledRow(row, amount, actual) =
            [cap |-> row.cap, spent |-> row.spent + actual,
             reserved |-> row.reserved - amount, status |-> row.status]
      /\ RefundedRow(row, amount) =
            [cap |-> row.cap, spent |-> row.spent,
             reserved |-> row.reserved - amount, status |-> row.status]
  BY WholeRows
<1> QED
  BY <1>1, <1>2 DEF RowChecks, Covers

\* The diagnosis and the WHERE clause of reserve agree on every row.
LEMMA DiagnosisAgrees ==
    ASSUME NEW row \in Row, NEW cost \in Int, NEW limit
    PROVE  (ReserveWhere(row, cost) /\ Permits(limit, cost))
              <=> DenialReason(row, limit, cost) = "denied_unknown"
BY DEF ReserveWhere, Permits, DenialReason, AgentReason, PermissionReason

-----------------------------------------------------------------------------
(* Totals.  The costs are bounded by M, which makes the mills of a finite   *)
(* set of calls a finite set.                                               *)

\* A call counts for its cost.
LEMMA MillsCount ==
    ASSUME NEW cost, NEW c, cost[c] \in Nat
    PROVE  IsFiniteSet(Mills(cost, c)) /\ Cardinality(Mills(cost, c)) = cost[c]
<1>1. IsFiniteSet({c}) /\ Cardinality({c}) = 1
  BY FS_Singleton
<1>2. IsFiniteSet(1..cost[c]) /\ Cardinality(1..cost[c]) = cost[c]
  BY FS_Interval
<1>3. /\ IsFiniteSet({c} \X (1..cost[c]))
      /\ Cardinality({c} \X (1..cost[c])) = Cardinality({c}) * Cardinality(1..cost[c])
  BY <1>1, <1>2, FS_Product
<1> QED
  BY <1>1, <1>2, <1>3 DEF Mills

\* The total of a finite set of calls is a number.
LEMMA TotalIsNat ==
    ASSUME NEW cost, NEW M \in Nat, NEW S, IsFiniteSet(S), \A c \in S : cost[c] \in 0..M
    PROVE  IsFiniteSet(MillsOf(cost, S)) /\ Total(cost, S) \in Nat
<1>0. IsFiniteSet(1..M)
  BY FS_Interval
<1>1. IsFiniteSet(S \X (1..M))
  BY <1>0, FS_Product
<1>2. MillsOf(cost, S) \subseteq S \X (1..M)
  BY DEF MillsOf, Mills
<1>3. IsFiniteSet(MillsOf(cost, S))
  BY <1>1, <1>2, FS_Subset
<1> QED
  BY <1>3, FS_CardinalityType DEF Total

\* Nothing costs nothing.
LEMMA TotalOfNone ==
    ASSUME NEW cost
    PROVE  Total(cost, {}) = 0
<1>1. MillsOf(cost, {}) = {}
  BY DEF MillsOf
<1> QED
  BY <1>1, FS_EmptySet DEF Total

\* A call that joins a set adds its cost.
LEMMA TotalAdds ==
    ASSUME NEW cost, NEW M \in Nat, NEW S, IsFiniteSet(S), NEW c, c \notin S,
           \A d \in S \union {c} : cost[d] \in 0..M
    PROVE  Total(cost, S \union {c}) = Total(cost, S) + cost[c]
<1>1. IsFiniteSet(MillsOf(cost, S))
  BY TotalIsNat
<1>2. IsFiniteSet(Mills(cost, c)) /\ Cardinality(Mills(cost, c)) = cost[c]
  BY MillsCount
<1>3. MillsOf(cost, S \union {c}) = MillsOf(cost, S) \union Mills(cost, c)
  BY DEF MillsOf
<1>4. MillsOf(cost, S) \intersect Mills(cost, c) = {}
  BY DEF MillsOf, Mills
<1> DEFINE A == MillsOf(cost, S)
           B == Mills(cost, c)
<1>5. Cardinality(A) \in Nat /\ cost[c] \in Nat
  BY <1>1, FS_CardinalityType
<1>6. Cardinality({}) = 0
  BY FS_EmptySet
<1> HIDE DEF A, B
<1>7. Cardinality(A \union B) = Cardinality(A) + Cardinality(B) - Cardinality(A \intersect B)
  BY <1>1, <1>2, FS_Union DEF A, B
<1>8. A \intersect B = {} /\ Cardinality(B) = cost[c]
  BY <1>2, <1>4 DEF A, B
<1>9. Cardinality(A \intersect B) = 0
  BY <1>6, <1>8, Zenon
<1>10. Cardinality(A \union B) = Cardinality(A) + cost[c] - 0
  BY <1>7, <1>8, <1>9, Zenon
<1>11. Cardinality(A \union B) = Cardinality(A) + cost[c]
  BY <1>5, <1>10
<1> QED
  BY <1>3, <1>11 DEF Total, A, B

\* A call that leaves a set takes its cost along.
LEMMA TotalTakes ==
    ASSUME NEW cost, NEW M \in Nat, NEW S, IsFiniteSet(S), NEW c \in S,
           \A d \in S : cost[d] \in 0..M
    PROVE  /\ Total(cost, S \ {c}) = Total(cost, S) - cost[c]
           /\ cost[c] <= Total(cost, S)
<1> DEFINE T == S \ {c}
<1>1. IsFiniteSet(T) /\ c \notin T /\ T \union {c} = S
  BY FS_RemoveElement
<1>2. \A d \in T \union {c} : cost[d] \in 0..M
  BY <1>1
<1> HIDE DEF T
<1>3. Total(cost, T \union {c}) = Total(cost, T) + cost[c]
  BY <1>1, <1>2, TotalAdds
<1>4. Total(cost, T) \in Nat /\ cost[c] \in Nat
  BY <1>1, <1>2, TotalIsNat
<1>5. Total(cost, S) = Total(cost, T) + cost[c]
  BY <1>1, <1>3
<1>6. Total(cost, T) = Total(cost, S) - cost[c] /\ cost[c] <= Total(cost, S)
  BY <1>4, <1>5
<1> QED
  BY <1>6 DEF T
=============================================================================
