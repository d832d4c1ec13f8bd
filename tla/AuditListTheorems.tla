-------------------------- MODULE AuditListTheorems --------------------------
(***************************************************************************)
(* The loop of verify_chain returns what the definition of a sound chain   *)
(* says, for every list of rows, whatever was done to them.                *)
(*                                                                         *)
(* An induction over the rounds is not within the provers' reach.  The     *)
(* proof gives the states of the loop in closed form, shows that they      *)
(* satisfy its recursive equation, and takes the first round at which      *)
(* another solution would differ.                                          *)
(***************************************************************************)
EXTENDS AuditTamperingTheorems, WellFoundedInduction

\* Every inhabited set of numbers has a least one.
LEMMA LeastNumber ==
    ASSUME NEW S \in SUBSET Nat, S # {}
    PROVE  \E n \in S : \A m \in S : n <= m
<1> DEFINE R == OpToRel(<, Nat)
<1>1. IsWellFoundedOn(R, Nat)
  BY NatLessThanWellFounded
<1>2. PICK n \in S : \A m \in S : ~(<<m, n>> \in R)
  <2> HIDE DEF R
  <2> QED
    BY <1>1, WFMin
<1>3. \A k, m \in Nat : m < k => <<m, k>> \in R
  BY DEF OpToRel
<1> HIDE DEF R
<1>4. ASSUME NEW m \in S PROVE n <= m
  <2>1. n \in Nat /\ m \in Nat /\ ~(m < n)
    BY <1>2, <1>3
  <2> QED
    BY <2>1
<1> QED
  BY <1>4

-----------------------------------------------------------------------------
\* All rows before k pass, and k, if there is such a row, does not.
FirstBad(rows, k) ==
    /\ k \in 1..(Len(rows) + 1)
    /\ \A j \in 1..(k - 1) : Passes(rows, j)
    /\ k <= Len(rows) => ~Passes(rows, k)

LEMMA FirstBadExists ==
    ASSUME NEW rows, Len(rows) \in Nat
    PROVE  \E k : FirstBad(rows, k)
<1> DEFINE n == Len(rows)
           S == {k \in 1..(n + 1) : k <= n => ~Passes(rows, k)}
<1>1. S \in SUBSET Nat /\ n + 1 \in S
  OBVIOUS
<1>2. PICK k \in S : \A m \in S : k <= m
  BY <1>1, LeastNumber
<1>3. k \in 1..(n + 1) /\ (k <= n => ~Passes(rows, k))
  OBVIOUS
<1>4. ASSUME NEW j \in 1..(k - 1) PROVE Passes(rows, j)
  <2>1. j \in 1..(n + 1) /\ ~(k <= j)
    BY <1>3
  <2>2. j \notin S
    BY <1>2, <2>1
  <2> QED
    BY <2>1, <2>2
<1> QED
  BY <1>3, <1>4 DEF FirstBad

\* The state of the loop after n rounds, if k is the first bad row.
StateAfter(rows, k, n) ==
    IF n < k THEN [expected |-> Expected(rows, n + 1), bad |-> 0]
             ELSE [expected |-> Expected(rows, k), bad |-> k]

\* One round takes each of these states to the next.
LEMMA RoundAdvances ==
    ASSUME NEW rows, Len(rows) \in Nat, NEW k, FirstBad(rows, k), NEW n \in 1..Len(rows)
    PROVE  Round(rows, n, StateAfter(rows, k, n - 1)) = StateAfter(rows, k, n)
<1> DEFINE w == StateAfter(rows, k, n - 1)
<1>1. k \in 1..(Len(rows) + 1) /\ n \in Nat /\ k \in Nat
  BY DEF FirstBad
<1>2. CASE n > k
  <2>1. ~(n - 1 < k) /\ ~(n < k) /\ k # 0
    BY <1>1, <1>2
  <2>2. w = [expected |-> Expected(rows, k), bad |-> k] /\ StateAfter(rows, k, n) = w
    BY <2>1 DEF StateAfter
  <2> QED
    BY <2>1, <2>2 DEF Round
<1>3. CASE n <= k
  <2>1. n - 1 < k /\ (n - 1) + 1 = n
    BY <1>1, <1>3
  <2>2. w = [expected |-> Expected(rows, n), bad |-> 0]
    BY <2>1 DEF StateAfter
  <2> HIDE DEF w
  <2>3. CASE n = k
    <3>1. ~Passes(rows, n) /\ ~(n < k)
      BY <1>1, <2>3 DEF FirstBad
    <3>2. Round(rows, n, w) = [w EXCEPT !.bad = n]
      BY <2>2, <3>1 DEF Round, Passes
    <3>3. StateAfter(rows, k, n) = [expected |-> Expected(rows, n), bad |-> n]
      BY <2>3, <3>1 DEF StateAfter
    <3> QED
      BY <2>2, <3>2, <3>3 DEF w
  <2>4. CASE n < k
    <3>1. Passes(rows, n)
      BY <1>1, <2>4 DEF FirstBad
    <3>2. Round(rows, n, w) = [w EXCEPT !.expected = rows[n].hash]
      BY <2>2, <3>1 DEF Round, Passes
    <3>3. Expected(rows, n + 1) = rows[n].hash
      BY <1>1 DEF Expected
    <3>4. StateAfter(rows, k, n) = [expected |-> rows[n].hash, bad |-> 0]
      BY <2>4, <3>3 DEF StateAfter
    <3> QED
      BY <2>2, <3>2, <3>4 DEF w
  <2> QED
    BY <1>1, <1>3, <2>3, <2>4
<1> QED
  BY <1>1, <1>2, <1>3

\* A function is the rounds of the loop on rows.
IsRounds(walk, rows) ==
    walk = [n \in 0..Len(rows) |->
               IF n = 0 THEN [expected |-> Genesis, bad |-> 0]
                        ELSE Round(rows, n, walk[n - 1])]

LEMMA RoundsAre ==
    ASSUME NEW rows, Len(rows) \in Nat, NEW k, FirstBad(rows, k)
    PROVE  \A n \in 0..Len(rows) : Rounds(rows)[n] = StateAfter(rows, k, n)
<1> DEFINE closed == [n \in 0..Len(rows) |-> StateAfter(rows, k, n)]
<1>1. StateAfter(rows, k, 0) = [expected |-> Genesis, bad |-> 0]
  BY DEF StateAfter, FirstBad, Expected
<1>2. ASSUME NEW n \in 0..Len(rows), n # 0
      PROVE  closed[n] = Round(rows, n, closed[n - 1])
  <2>1. n \in 1..Len(rows) /\ n - 1 \in 0..Len(rows)
    BY <1>2
  <2> QED
    BY <2>1, RoundAdvances
<1>3. IsRounds(closed, rows)
  <2> DEFINE value(n) == IF n = 0 THEN [expected |-> Genesis, bad |-> 0]
                                  ELSE Round(rows, n, closed[n - 1])
  <2>1. \A n \in 0..Len(rows) : closed[n] = value(n)
    BY <1>1, <1>2
  <2>2. closed = [n \in 0..Len(rows) |-> closed[n]]
    OBVIOUS
  <2> HIDE DEF closed
  <2>3. closed = [n \in 0..Len(rows) |-> value(n)]
    BY <2>1, <2>2
  <2> QED
    BY <2>3 DEF IsRounds
<1>4. Rounds(rows) = CHOOSE walk : IsRounds(walk, rows)
  BY DEF Rounds, IsRounds
<1>5. IsRounds(Rounds(rows), rows)
  <2> HIDE DEF closed
  <2> QED
    BY <1>3, <1>4
<1> DEFINE walk == Rounds(rows)
           bad == {n \in 0..Len(rows) : walk[n] # StateAfter(rows, k, n)}
<1> HIDE DEF walk
<1>6. /\ walk[0] = [expected |-> Genesis, bad |-> 0]
      /\ \A n \in 1..Len(rows) : walk[n] = Round(rows, n, walk[n - 1])
  BY <1>5 DEF IsRounds, walk
<1>7. bad = {}
  <2> SUFFICES ASSUME bad # {} PROVE FALSE
    OBVIOUS
  <2>0. bad \in SUBSET Nat
    OBVIOUS
  <2>1. PICK n \in bad : \A m \in bad : n <= m
    <3> HIDE DEF bad
    <3> QED
      BY <2>0, LeastNumber
  <2>2. n \in 0..Len(rows) /\ walk[n] # StateAfter(rows, k, n)
    BY <2>1
  <2>3. n # 0
    BY <1>1, <1>6, <2>2
  <2>4. n \in 1..Len(rows) /\ n - 1 \in 0..Len(rows) /\ ~(n <= n - 1)
    BY <2>2, <2>3
  <2>5. walk[n - 1] = StateAfter(rows, k, n - 1)
    BY <2>1, <2>4
  <2> QED
    BY <1>6, <2>2, <2>4, <2>5, RoundAdvances
<1> QED
  BY <1>7 DEF walk

\* The loop gets through exactly the lists whose rows all pass, and returns
\* at the first row that does not.
THEOREM LoopNamesFirst ==
    ASSUME NEW rows, Len(rows) \in Nat, DOMAIN rows = 1..Len(rows)
    PROVE  /\ Walk(rows) = 0 <=> Verifies(rows)
           /\ Walk(rows) # 0 => Names(rows, Walk(rows))
<1>1. PICK k : FirstBad(rows, k)
  BY FirstBadExists
<1>2. Walk(rows) = StateAfter(rows, k, Len(rows)).bad
  BY <1>1, RoundsAre DEF Walk
<1>3. k \in 1..(Len(rows) + 1)
  BY <1>1 DEF FirstBad
<1>4. CASE k <= Len(rows)
  <2>1. Walk(rows) = k /\ k # 0 /\ k \in 1..Len(rows)
    BY <1>2, <1>3, <1>4 DEF StateAfter
  <2>2. ~Passes(rows, k)
    BY <1>1, <1>4 DEF FirstBad
  <2> QED
    BY <1>1, <2>1, <2>2 DEF FirstBad, Names, Verifies
<1>5. CASE k = Len(rows) + 1
  <2>1. Walk(rows) = 0
    BY <1>2, <1>5 DEF StateAfter
  <2>2. Verifies(rows)
    BY <1>1, <1>5 DEF FirstBad, Verifies
  <2> QED
    BY <2>1, <2>2
<1> QED
  BY <1>3, <1>4, <1>5

-----------------------------------------------------------------------------
(* The list and the set of its rows *)

\* rows has m rows whose ids increase.
InOrder(rows, m) ==
    /\ m \in Nat
    /\ DOMAIN rows = 1..m /\ Len(rows) = m
    /\ \A i \in 1..m : rows[i].id \in Nat
    /\ \A i, j \in 1..m : i < j => rows[i].id < rows[j].id

RowSet(rows) == {rows[i] : i \in DOMAIN rows}

\* In such a list the row before is the last of the earlier ones.
LEMMA RowBefore ==
    ASSUME NEW rows, NEW m, InOrder(rows, m), NEW i \in 1..m
    PROVE  LastHash(Earlier(rows[i], RowSet(rows))) = Expected(rows, i)
<1> DEFINE E == Earlier(rows[i], RowSet(rows))
<1>1. ASSUME NEW row
      PROVE  row \in E <=> \E j \in 1..m : j < i /\ row = rows[j]
  <2>1. \A j \in 1..m : rows[j].id < rows[i].id <=> j < i
    <3> SUFFICES ASSUME NEW j \in 1..m PROVE rows[j].id < rows[i].id <=> j < i
      OBVIOUS
    <3>1. rows[j].id \in Nat /\ rows[i].id \in Nat /\ m \in Nat
      BY DEF InOrder
    <3>2. j < i => rows[j].id < rows[i].id
      BY DEF InOrder
    <3>3. i < j => rows[i].id < rows[j].id
      BY DEF InOrder
    <3>4. i = j => rows[i].id = rows[j].id
      OBVIOUS
    <3>5. j < i \/ i < j \/ i = j
      BY <3>1
    <3> QED
      BY <3>1, <3>2, <3>3, <3>4, <3>5
  <2> QED
    BY <2>1 DEF Earlier, RowSet, InOrder
<1>2. CASE i = 1
  <2>1. E = {}
    BY <1>1, <1>2
  <2> QED
    BY <1>2, <2>1 DEF LastHash, Expected
<1>3. CASE i # 1
  <2> DEFINE last == CHOOSE row \in E : IsLast(row, E)
  <2>1. i - 1 \in 1..m /\ i - 1 < i /\ m \in Nat
    BY <1>3 DEF InOrder
  <2>2. rows[i - 1] \in E
    BY <1>1, <2>1
  <2>3. IsLast(rows[i - 1], E)
    <3> SUFFICES ASSUME NEW row \in E PROVE row.id <= rows[i - 1].id
      BY <2>2 DEF IsLast
    <3>1. PICK j \in 1..m : j < i /\ row = rows[j]
      BY <1>1
    <3>2. j = i - 1 \/ j < i - 1
      BY <2>1, <3>1
    <3> QED
      BY <2>1, <3>1, <3>2 DEF InOrder
  <2>4. last \in E /\ IsLast(last, E)
    BY <2>2, <2>3
  <2>5. LastHash(E) = last.hash
    BY <2>2 DEF LastHash
  <2> HIDE DEF last, E
  <2>6. PICK j \in 1..m : j < i /\ last = rows[j]
    BY <1>1, <2>4
  <2>7. rows[i - 1].id <= rows[j].id
    BY <2>2, <2>4, <2>6 DEF IsLast
  <2>8. ~(j < i - 1)
    BY <2>1, <2>7 DEF InOrder
  <2>9. j = i - 1
    BY <2>1, <2>6, <2>8
  <2> QED
    BY <1>3, <2>5, <2>6, <2>9 DEF Expected, E
<1> QED
  BY <1>2, <1>3

\* Row by row, a list verifies exactly when the set of its rows is a sound
\* chain.
LEMMA ListIsChain ==
    ASSUME NEW rows, NEW m, InOrder(rows, m)
    PROVE  Verifies(rows) <=> VerifyChain(RowSet(rows))
<1>1. \A i \in 1..m : Passes(rows, i) <=>
          LinkHolds(rows[i], RowSet(rows)) /\ HashHolds(rows[i])
  BY RowBefore DEF Passes, LinkHolds
<1>2. RowSet(rows) = {rows[i] : i \in 1..m} /\ Len(rows) = m
  BY DEF RowSet, InOrder
<1> HIDE DEF RowSet
<1> QED
  BY <1>1, <1>2 DEF Verifies, VerifyChain

\* An edit keeps the id of the row, so the order of the list.
LEMMA EditKeepsOrder ==
    ASSUME NEW rows, NEW m, InOrder(rows, m), NEW i \in 1..m, NEW f, f.id = rows[i].id
    PROVE  InOrder(Edited(rows, i, f), m)
<1> DEFINE e == Edited(rows, i, f)
<1>1. DOMAIN e = 1..m /\ m \in Nat
  BY DEF Edited, InOrder
<1>2. \A j \in 1..m : e[j].id = rows[j].id
  BY DEF Edited, InOrder
<1>3. Len(e) = m
  <2>1. e \in [1..m -> {e[j] : j \in 1..m}]
    BY <1>1 DEF Edited, InOrder
  <2> HIDE DEF e
  <2> QED
    BY <1>1, <2>1, ListIsSeq
<1> HIDE DEF e
<1> QED
  BY <1>1, <1>2, <1>3 DEF InOrder, e

\* So does a deletion.
LEMMA DeletionKeepsOrder ==
    ASSUME NEW S, NEW rows \in Seq(S), NEW m, InOrder(rows, m),
           NEW i \in 1..m, NEW j \in i..m
    PROVE  InOrder(Deleted(rows, i, j), m - (j - i + 1))
<1> DEFINE e == Deleted(rows, i, j)
           d == j - i + 1
           at(k) == IF k < i THEN k ELSE k + d
<1>1. Len(rows) = m /\ m \in Nat /\ j \in i..Len(rows) /\ i \in 1..Len(rows)
  BY DEF InOrder
<1>2. /\ DOMAIN e = 1..(m - d) /\ Len(e) = m - d
      /\ \A k \in 1..(i - 1) : e[k] = rows[k]
      /\ \A k \in i..(m - d) : e[k] = rows[k + d]
  <2>1. /\ DOMAIN e = 1..(Len(rows) - (j - i + 1)) /\ Len(e) = Len(rows) - (j - i + 1)
        /\ \A k \in 1..(i - 1) : e[k] = rows[k]
        /\ \A k \in i..(Len(rows) - (j - i + 1)) : e[k] = rows[k + (j - i + 1)]
    BY ONLY <1>1, DeletedIs
  <2> HIDE DEF e
  <2> QED
    BY <1>1, <2>1
<1>3. d \in Nat /\ m - d \in Nat
  BY <1>1
<1> HIDE DEF e, d
<1>4. \A k \in 1..(m - d) : e[k] = rows[at(k)] /\ at(k) \in 1..m
  BY <1>1, <1>2, <1>3
<1>5. \A k, l \in 1..(m - d) : k < l => at(k) < at(l)
  BY <1>1, <1>3
<1> HIDE DEF at
<1>6. InOrder(e, m - d)
  BY <1>2, <1>3, <1>4, <1>5 DEF InOrder
<1> QED
  BY <1>6 DEF e, d

-----------------------------------------------------------------------------
\* A chain has finitely many rows.
Finite == \A g \in Agents : IsFiniteSet(RowsOf(g))

LEMMA FiniteHolds == Spec => []Finite
<1>1. Init => Finite
  BY FS_EmptySet DEF Init, Finite, RowsOf
<1>2. LogInvariant /\ Finite /\ [Next]_vars => Finite'
  <2> SUFFICES ASSUME LogInvariant, Finite, [Next]_vars, NEW g \in Agents
               PROVE  IsFiniteSet(RowsOf(g)')
    BY DEF Finite
  <2>1. \/ RowsOf(g)' = RowsOf(g)
        \/ \E a \in Appends : RowsOf(g)' = RowsOf(g) \union {draft[a]}
    BY LogSteps
  <2> QED
    BY <2>1, FS_AddElement DEF Finite
<1> QED
  BY <1>1, <1>2, LogInvariantHolds, PTL DEF Spec

\* What verify_chain fetches is a list in order.
LEMMA FetchedInOrder ==
    ASSUME LogInvariant, Finite, NEW g \in Agents, NEW rows \in Fetched(g)
    PROVE  /\ rows \in Seq(RowsOf(g))
           /\ InOrder(rows, Cardinality(RowsOf(g)))
<1> DEFINE m == Cardinality(RowsOf(g))
<1>1. m \in Nat
  BY FS_CardinalityType DEF Finite
<1>2. rows \in [1..m -> RowsOf(g)] /\ Fetches(rows, RowsOf(g))
  BY DEF Fetched
<1> HIDE DEF m
<1>3. rows \in Seq(RowsOf(g)) /\ Len(rows) = m /\ DOMAIN rows = 1..m
  BY <1>1, <1>2, ListIsSeq
<1>4. \A row \in RowsOf(g) : row.id \in Nat
  BY DEF LogInvariant, Typed, RowOK, DraftOK, Counters, RowsOf
<1> QED
  BY <1>1, <1>2, <1>3, <1>4 DEF InOrder, Fetches, m

\* On every list that an edit or a deletion leads to, the loop returns at the
\* first row that does not fit, and gets through when the rows are a sound
\* chain: for any digest and any costs.
THEOREM LoopAgrees == Spec => []WalkAgrees
<1>1. LogInvariant /\ Finite => WalkAgrees
  <2> SUFFICES ASSUME LogInvariant, Finite, NEW g \in Agents, NEW rows \in Fetched(g),
                      NEW changed \in Tampered(rows, g)
               PROVE  IF Walk(changed) = 0
                      THEN VerifyChain({changed[i] : i \in DOMAIN changed})
                      ELSE Names(changed, Walk(changed))
    BY DEF WalkAgrees
  <2> DEFINE m == Cardinality(RowsOf(g))
  <2>1. rows \in Seq(RowsOf(g)) /\ InOrder(rows, m)
    BY FetchedInOrder
  <2> HIDE DEF m
  <2>2. DOMAIN rows = 1..m /\ Len(rows) = m
    BY <2>1 DEF InOrder
  <2>3. PICK k : InOrder(changed, k)
    <3>1. \/ \E i \in 1..m : \E f \in Forgeries(g, rows[i].id) : changed = Edited(rows, i, f)
          \/ \E i \in 1..m : \E j \in i..m : changed = Deleted(rows, i, j)
      BY <2>2 DEF Tampered
    <3>2. ASSUME NEW i \in 1..m, NEW f \in Forgeries(g, rows[i].id)
          PROVE  InOrder(Edited(rows, i, f), m)
      <4>1. f.id = rows[i].id
        BY DEF Forgeries, SealedRow
      <4> QED
        BY <2>1, <4>1, EditKeepsOrder
    <3>3. ASSUME NEW i \in 1..m, NEW j \in i..m
          PROVE  InOrder(Deleted(rows, i, j), m - (j - i + 1))
      BY <2>1, DeletionKeepsOrder
    <3> QED
      BY <3>1, <3>2, <3>3
  <2>4. Len(changed) \in Nat /\ DOMAIN changed = 1..Len(changed)
    BY <2>3 DEF InOrder
  <2>5. Walk(changed) = 0 => VerifyChain(RowSet(changed))
    BY <2>3, <2>4, LoopNamesFirst, ListIsChain
  <2>6. Walk(changed) # 0 => Names(changed, Walk(changed))
    BY <2>4, LoopNamesFirst
  <2> QED
    BY <2>5, <2>6 DEF RowSet
<1> QED
  BY <1>1, LogInvariantHolds, FiniteHolds, PTL
=============================================================================
