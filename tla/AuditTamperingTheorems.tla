----------------------- MODULE AuditTamperingTheorems -----------------------
(***************************************************************************)
(* Proofs of what verify_chain can and cannot tell, for any number of      *)
(* appends and any size of the chain, if the digest has no collisions, is  *)
(* never the genesis sentinel, and no cost is half a cent over.            *)
(*                                                                         *)
(* The inductions run over the steps that built the honest chain: what is  *)
(* true of every list of rows is stated for all of them at once, and a     *)
(* commit adds one row at the end.                                         *)
(***************************************************************************)
EXTENDS AuditTampering, AuditLogTheorems, FiniteSetTheorems

CollisionFree ==
    \A p, f, q, e : Digest(p, f) = Digest(q, e) => p = q /\ f = e

GenesisFresh == \A p, f : Digest(p, f) # Genesis

GoodDigest == CollisionFree /\ GenesisFresh

-----------------------------------------------------------------------------
(* Whole cents *)

LEMMA WholeIsQuantized == \A x \in Nat : IsWhole(x) => Quantized(x) = x
BY DEF IsWhole, Quantized, Half, Cent

LEMMA StoredIsWholeCents == \A x \in Nat : Stored(x) \in Nat /\ IsWhole(Stored(x))
BY DEF IsWhole, Stored, RoundHalfUp, Half, Cent

\* A row that says as much as its columns do.
WholeRow(row) == row.est \in Nat /\ IsWhole(row.est)

\* Two rows with one row_hash have the same columns.
LEMMA HashDecidesColumns ==
    ASSUME CollisionFree, NEW r, NEW q, WholeRow(r), WholeRow(q),
           HashHolds(r), HashHolds(q), r.hash = q.hash
    PROVE  Columns(r) = Columns(q)
<1>1. Digest(r.prev, Fields(r.op, r.est, r.ts)) = Digest(q.prev, Fields(q.op, q.est, q.ts))
  BY DEF HashHolds, RowHash
<1>2. r.prev = q.prev /\ Fields(r.op, r.est, r.ts) = Fields(q.op, q.est, q.ts)
  BY <1>1 DEF CollisionFree
<1>3. AgentFor[r.op] = AgentFor[q.op] /\ ContentFor[r.op] = ContentFor[q.op]
      /\ Quantized(r.est) = Quantized(q.est) /\ r.ts = q.ts
  BY <1>2 DEF Fields
<1>4. r.est = q.est
  BY <1>3, WholeIsQuantized DEF WholeRow
<1> QED
  BY <1>2, <1>3, <1>4 DEF Columns, AgentOfRow

LEMMA HashDecidesPrev ==
    ASSUME CollisionFree, NEW r, NEW q, HashHolds(r), HashHolds(q), r.hash = q.hash
    PROVE  r.prev = q.prev
<1>1. Digest(r.prev, Fields(r.op, r.est, r.ts)) = Digest(q.prev, Fields(q.op, q.est, q.ts))
  BY DEF HashHolds, RowHash
<1> QED
  BY <1>1 DEF CollisionFree

LEMMA HashIsFresh ==
    ASSUME GenesisFresh, NEW r, HashHolds(r)
    PROVE  r.hash # Genesis
BY DEF GenesisFresh, HashHolds, RowHash

-----------------------------------------------------------------------------
(* What the honest log adds to LogInvariant *)

\* Sets of rows with an end, also if cut before any row.
Ends(S) == HasLast(S) /\ \A row \in S : HasLast(Earlier(row, S))

HashesDiffer(S) == \A r, q \in S : r.hash = q.hash => r = q

IdsDiffer(S) == \A r, q \in S : r.id = q.id => r = q

Honest(S) ==
    /\ IsFiniteSet(S)
    /\ Ends(S)
    /\ IdsDiffer(S)
    /\ HashesDiffer(S)
    /\ \A row \in S : row.id \in Nat /\ WholeRow(row) /\ HashHolds(row)
    /\ Linked(S)

LEMMA LastHashIs ==
    ASSUME NEW S, HasLast(S)
    PROVE  \/ S = {} /\ LastHash(S) = Genesis
           \/ \E row \in S : IsLast(row, S) /\ LastHash(S) = row.hash
<1>1. CASE S = {}
  BY <1>1 DEF LastHash
<1>2. CASE S # {}
  <2> DEFINE last == CHOOSE row \in S : IsLast(row, S)
  <2>1. \E row \in S : IsLast(row, S)
    BY <1>2 DEF HasLast
  <2>2. last \in S /\ IsLast(last, S)
    BY <2>1
  <2>3. LastHash(S) = last.hash
    BY <1>2 DEF LastHash
  <2> HIDE DEF last
  <2> QED
    BY <2>2, <2>3
<1> QED
  BY <1>1, <1>2

\* A row that continues an honest chain has a hash of its own.
LEMMA NewHashDiffers ==
    ASSUME GoodDigest, NEW S, Honest(S), NEW new, new.prev = LastHash(S), HashHolds(new),
           NEW q \in S
    PROVE  new.hash # q.hash
<1> SUFFICES ASSUME new.hash = q.hash PROVE FALSE
  OBVIOUS
<1> USE DEF GoodDigest
<1>1. HashHolds(q) /\ q.prev = LastHash(Earlier(q, S))
  BY DEF Honest, Linked, LinkHolds
<1>2. LastHash(S) = LastHash(Earlier(q, S))
  BY <1>1, HashDecidesPrev
<1>3. PICK p \in S : IsLast(p, S) /\ LastHash(S) = p.hash
  BY LastHashIs DEF Honest, Ends
<1>4. p.hash # Genesis
  BY HashIsFresh DEF Honest
<1>5. PICK o \in Earlier(q, S) : LastHash(Earlier(q, S)) = o.hash
  BY <1>2, <1>3, <1>4, LastHashIs DEF Honest, Ends
<1>6. o \in S /\ o.id < q.id /\ q.id <= p.id
  BY <1>3, <1>5 DEF Earlier, IsLast
<1>7. o = p
  BY <1>2, <1>3, <1>5, <1>6 DEF Honest, HashesDiffer
<1> QED
  BY <1>6, <1>7 DEF Honest

LEMMA HonestGrows ==
    ASSUME GoodDigest, NEW S, Honest(S), NEW new,
           new.id \in Nat, \A row \in S : row.id < new.id,
           new.prev = LastHash(S), HashHolds(new), WholeRow(new)
    PROVE  Honest(S \union {new})
<1> DEFINE T == S \union {new}
<1>1. ASSUME NEW row \in S PROVE Earlier(row, T) = Earlier(row, S)
  BY DEF Earlier, Honest
<1>2. Earlier(new, T) = S
  BY DEF Earlier
<1>3. IsLast(new, T)
  BY DEF IsLast, Honest
<1>4. Ends(T)
  BY <1>1, <1>2, <1>3 DEF Ends, HasLast, Honest
<1>5. IdsDiffer(T)
  BY DEF IdsDiffer, Honest
<1>6. HashesDiffer(T)
  BY NewHashDiffers DEF HashesDiffer, Honest
<1>7. Linked(T)
  BY <1>1, <1>2 DEF Linked, LinkHolds, Honest
<1>8. IsFiniteSet(T)
  BY FS_AddElement DEF Honest
<1> QED
  BY <1>4, <1>5, <1>6, <1>7, <1>8 DEF Honest

\* The honest chain of every agent, and what no log_decision has said before.
HonestLog == \A g \in Agents : Honest(RowsOf(g))

\* An append that is about to commit holds the row that continues its chain.
LEMMA CommitsHonestRow ==
    ASSUME NoHalfCents, LogInvariant, NEW a \in Appends, Commits(a)
    PROVE  LET S == RowsOf(AgentFor[a])
               d == draft[a]
           IN  /\ d.id \in Nat /\ \A row \in S : row.id < d.id
               /\ d.prev = LastHash(S) /\ HashHolds(d) /\ WholeRow(d)
<1> DEFINE d == draft[a]
<1>1. Knows("commit", d, RowsOf(AgentFor[a]), a)
  BY DEF LogInvariant, AllKnow, Commits
<1>2. d.op = a /\ d.id \in Nat
  BY DEF LogInvariant, Typed, DraftOK, IsDraft, Counters
<1>3. CostFor[a] \in Nat /\ CostFor[a] % Cent # Half
  BY AuditAssumption DEF NoHalfCents
<1>4. d.est = Stored(CostFor[a]) /\ d.hash = RowHash(d.prev, a, CostFor[a], d.ts)
      /\ d.prev = LastHash(RowsOf(AgentFor[a]))
      /\ \A row \in RowsOf(AgentFor[a]) : row.id < d.id
  BY <1>1 DEF Knows
<1>5. Quantized(d.est) = Quantized(CostFor[a])
  BY <1>3, <1>4, RoundingsAgree
<1>6. HashHolds(d)
  BY <1>2, <1>4, <1>5 DEF HashHolds, RowHash, Fields
<1>7. WholeRow(d)
  BY <1>3, <1>4, StoredIsWholeCents DEF WholeRow
<1> QED
  BY <1>2, <1>4, <1>6, <1>7

\* A step leaves every chain as it is, or commits a row to one.
LEMMA LogSteps ==
    ASSUME LogInvariant, [Next]_vars
    PROVE  \/ \A g : RowsOf(g)' = RowsOf(g)
           \/ \E a \in Appends :
                 /\ Commits(a)
                 /\ \A g : RowsOf(g)' = IF g = AgentFor[a] THEN RowsOf(g) \union {draft[a]}
                                                          ELSE RowsOf(g)
<1>1. CASE UNCHANGED table
  BY <1>1, RowsKept
<1>2. CASE table' # table
  <2>1. PICK a \in Appends : Commits(a)
    BY <1>2, StepForms
       DEF LogInvariant, Quiet, Advances, Walks, Locks, Stamps, Reads, Inserts
  <2>2. \A g : RowsOf(g)' = IF g = AgentFor[a] THEN RowsOf(g) \union {draft[a]} ELSE RowsOf(g)
    BY <2>1, RowsGrow DEF LogInvariant
  <2> QED
    BY <2>1, <2>2
<1> QED
  BY <1>1, <1>2

THEOREM LogStaysHonest ==
    ASSUME NoHalfCents, GoodDigest
    PROVE  Spec => [](LogInvariant /\ HonestLog)
<1>1. Init => HonestLog
  <2> SUFFICES ASSUME Init PROVE HonestLog
    OBVIOUS
  <2>1. \A g : RowsOf(g) = {}
    BY DEF Init, RowsOf
  <2>2. Honest({})
    BY FS_EmptySet DEF Honest, Ends, HasLast, IdsDiffer, HashesDiffer, Linked
  <2> QED
    BY <2>1, <2>2 DEF HonestLog
<1>2. LogInvariant /\ HonestLog /\ [Next]_vars => HonestLog'
  <2> SUFFICES ASSUME LogInvariant, HonestLog, [Next]_vars PROVE HonestLog'
    OBVIOUS
  <2>1. CASE \A g : RowsOf(g)' = RowsOf(g)
    BY <2>1 DEF HonestLog
  <2>2. ASSUME NEW a \in Appends, Commits(a),
               \A g : RowsOf(g)' = IF g = AgentFor[a] THEN RowsOf(g) \union {draft[a]}
                                                      ELSE RowsOf(g)
        PROVE  HonestLog'
    <3> DEFINE S == RowsOf(AgentFor[a])
    <3>1. Honest(S)
      BY AuditAssumption DEF HonestLog
    <3>2. Honest(S \union {draft[a]})
      BY <2>2, <3>1, CommitsHonestRow, HonestGrows
    <3> HIDE DEF S
    <3>3. \A g \in Agents : Honest(RowsOf(g))'
      BY <2>2, <3>2 DEF HonestLog, S
    <3> QED
      BY <3>3 DEF HonestLog
  <2> QED
    BY <2>1, <2>2, LogSteps
<1> QED
  BY <1>1, <1>2, LogInvariantHolds, PTL DEF Spec

-----------------------------------------------------------------------------
(* The list that verify_chain fetches *)

\* rows lists the honest set S.
Lists(rows, n, S) ==
    /\ n \in Nat
    /\ rows \in [1..n -> S]
    /\ Fetches(rows, S)

LEMMA ListIsSeq ==
    ASSUME NEW S, NEW n \in Nat, NEW rows \in [1..n -> S]
    PROVE  rows \in Seq(S) /\ Len(rows) = n /\ DOMAIN rows = 1..n
OBVIOUS

LEMMA FetchedLists ==
    ASSUME HonestLog, NEW g \in Agents, NEW rows \in Fetched(g)
    PROVE  /\ Honest(RowsOf(g))
           /\ Lists(rows, Cardinality(RowsOf(g)), RowsOf(g))
BY FS_CardinalityType DEF HonestLog, Honest, Fetched, Lists

\* In an honest list each row names the row before it.
LEMMA ListLinked ==
    ASSUME NEW S, Honest(S), NEW n, NEW rows, Lists(rows, n, S), NEW i \in 1..n
    PROVE  rows[i].prev = Expected(rows, i)
<1>1. rows[i] \in S /\ DOMAIN rows = 1..n
  BY DEF Lists
<1>2. rows[i].prev = LastHash(Earlier(rows[i], S))
  BY <1>1 DEF Honest, Linked, LinkHolds
<1>3. \A j \in 1..n : rows[j] \in S /\ rows[j].id \in Nat
  BY DEF Lists, Honest
<1>4. \A j, k \in 1..n : j < k => rows[j].id < rows[k].id
  BY <1>1 DEF Lists, Fetches
<1>5. \A row \in S : \E j \in 1..n : row = rows[j]
  BY <1>1 DEF Lists, Fetches
<1>6. CASE i = 1
  <2>1. Earlier(rows[i], S) = {}
    <3> SUFFICES ASSUME NEW row \in S, row.id < rows[i].id PROVE FALSE
      BY DEF Earlier
    <3>1. PICK j \in 1..n : row = rows[j]
      BY <1>5
    <3>2. rows[j].id < rows[i].id
      BY <3>1
    <3>3. j = i \/ i < j
      BY <1>6
    <3> QED
      BY <3>2, <3>3, <1>3, <1>4
  <2> QED
    BY <1>2, <1>6, <2>1 DEF LastHash, Expected
<1>7. CASE i # 1
  <2> DEFINE E == Earlier(rows[i], S)
  <2>1. i - 1 \in 1..n
    BY <1>7 DEF Lists
  <2>2. rows[i - 1] \in E
    BY <2>1, <1>3, <1>4 DEF Earlier
  <2>3. PICK last \in E : IsLast(last, E) /\ LastHash(E) = last.hash
    BY <1>1, <2>2, LastHashIs DEF Honest, Ends
  <2>4. PICK j \in 1..n : last = rows[j]
    BY <1>5, <2>3 DEF Earlier
  <2>5. rows[j].id < rows[i].id /\ rows[i - 1].id <= rows[j].id
    BY <2>2, <2>3, <2>4 DEF IsLast, Earlier
  <2>6. ~(i < j) /\ i # j
    BY <2>5, <1>3, <1>4
  <2>7. ~(j < i - 1)
    BY <2>1, <2>5, <1>3, <1>4
  <2>8. j = i - 1
    BY <2>6, <2>7 DEF Lists
  <2> QED
    BY <1>2, <1>7, <2>3, <2>4, <2>8 DEF Expected
<1> QED
  BY <1>6, <1>7

\* An honest list verifies, and its rows differ in their hashes.
LEMMA ListHolds ==
    ASSUME GoodDigest, NEW S, Honest(S), NEW n, NEW rows, Lists(rows, n, S)
    PROVE  /\ rows \in Seq(S) /\ Len(rows) = n /\ DOMAIN rows = 1..n
           /\ \A i \in 1..n : /\ Passes(rows, i)
                              /\ WholeRow(rows[i]) /\ HashHolds(rows[i])
                              /\ rows[i].hash # Genesis
           /\ \A i, j \in 1..n : rows[i].hash = rows[j].hash => i = j
<1>1. rows \in Seq(S) /\ Len(rows) = n /\ DOMAIN rows = 1..n
  BY ListIsSeq DEF Lists
<1>2. ASSUME NEW i \in 1..n
      PROVE  rows[i] \in S /\ rows[i].id \in Nat /\ Passes(rows, i)
             /\ WholeRow(rows[i]) /\ HashHolds(rows[i]) /\ rows[i].hash # Genesis
  <2>1. rows[i] \in S
    BY DEF Lists
  <2> QED
    BY <2>1, ListLinked, HashIsFresh DEF Honest, GoodDigest, Passes
<1>3. ASSUME NEW i \in 1..n, NEW j \in 1..n, rows[i].hash = rows[j].hash
      PROVE  i = j
  <2>1. rows[i] = rows[j]
    BY <1>2, <1>3 DEF Honest, HashesDiffer
  <2>2. ~(i < j) /\ ~(j < i)
    BY <1>1, <1>2, <2>1 DEF Lists, Fetches
  <2> QED
    BY <2>2
<1> QED
  BY <1>1, <1>2, <1>3

\* No honest row, nor one sealed behind it, has the hash that it names.
LEMMA PrevDiffers ==
    ASSUME GoodDigest, NEW S, Honest(S), NEW n, NEW rows, Lists(rows, n, S),
           NEW i \in 1..n, NEW f, f.prev = Expected(rows, i), HashHolds(f)
    PROVE  f.hash # f.prev
<1> SUFFICES ASSUME f.hash = f.prev PROVE FALSE
  OBVIOUS
<1> USE DEF GoodDigest
<1>1. f.hash # Genesis
  BY HashIsFresh
<1>2. i # 1 /\ i - 1 \in 1..n /\ f.hash = rows[i - 1].hash
  BY <1>1 DEF Expected, Lists
<1>3. rows[i - 1].prev = f.prev /\ rows[i - 1].prev = Expected(rows, i - 1)
  BY <1>2, ListHolds, HashDecidesPrev DEF Passes
<1>4. Expected(rows, i - 1) # Genesis
  BY <1>1, <1>3
<1>5. i - 1 # 1 /\ i - 2 \in 1..n /\ (i - 1) - 1 = i - 2
  BY <1>2, <1>4 DEF Expected, Lists
<1>6. rows[i - 2].hash = rows[i - 1].hash
  BY <1>2, <1>3, <1>5 DEF Expected
<1> QED
  BY <1>2, <1>5, <1>6, ListHolds

-----------------------------------------------------------------------------
(* One change *)

LEMMA EditNamed ==
    ASSUME GoodDigest, NEW S, Honest(S), NEW n, NEW rows, Lists(rows, n, S),
           NEW i \in 1..n, NEW f, WholeRow(f), Columns(f) # Columns(rows[i])
    PROVE  \/ Names(Edited(rows, i, f), i)
           \/ Names(Edited(rows, i, f), i + 1) /\ f.hash # rows[i].hash
           \/ i = Len(rows) /\ f.hash # rows[i].hash
<1> DEFINE e == Edited(rows, i, f)
<1> USE DEF GoodDigest
<1>1. DOMAIN e = 1..n /\ Len(rows) = n /\ DOMAIN rows = 1..n /\ n \in Nat
  BY ListHolds DEF Edited, Lists
<1>2. e[i] = f /\ \A j \in 1..n : j # i => e[j] = rows[j]
  BY <1>1 DEF Edited
<1> HIDE DEF e
<1>3. ASSUME NEW j \in 1..i PROVE Expected(e, j) = Expected(rows, j)
  <2>1. j = 1 \/ (j - 1 \in 1..n /\ j - 1 # i)
    BY <1>1
  <2> QED
    BY <1>2, <2>1 DEF Expected
<1>4. ASSUME NEW j \in 1..(i - 1) PROVE Passes(e, j)
  <2>1. j \in 1..i /\ j \in 1..n /\ j # i
    BY <1>1
  <2> QED
    BY <1>2, <1>3, <2>1, ListHolds DEF Passes
<1>5. CASE ~Passes(e, i)
  BY <1>1, <1>4, <1>5 DEF Names, e
<1>6. CASE Passes(e, i)
  <2>1. HashHolds(f)
    BY <1>2, <1>6 DEF Passes
  <2>2. f.hash # rows[i].hash
    BY <2>1, ListHolds, HashDecidesColumns
  <2>3. CASE i # n
    <3>1. i + 1 \in 1..n /\ i + 1 # 1 /\ (i + 1) - 1 = i
      BY <1>1, <2>3
    <3>2. e[i + 1] = rows[i + 1] /\ Expected(e, i + 1) = f.hash
          /\ Expected(rows, i + 1) = rows[i].hash
      BY <1>2, <3>1 DEF Expected
    <3>3. rows[i + 1].prev = rows[i].hash
      BY <3>1, <3>2, ListHolds DEF Passes
    <3>4. ~Passes(e, i + 1)
      BY <2>2, <3>2, <3>3 DEF Passes
    <3>5. \A j \in 1..((i + 1) - 1) : Passes(e, j)
      BY <1>4, <1>6
    <3> QED
      BY <1>1, <2>2, <3>1, <3>4, <3>5 DEF Names, e
  <2> QED
    BY <1>1, <2>2, <2>3
<1> QED
  BY <1>5, <1>6

LEMMA Joined ==
    ASSUME NEW T, NEW s \in Seq(T), NEW t \in Seq(T)
    PROVE  /\ s \o t \in Seq(T) /\ Len(s \o t) = Len(s) + Len(t)
           /\ DOMAIN (s \o t) = 1..(Len(s) + Len(t))
           /\ \A i \in 1..Len(s) : (s \o t)[i] = s[i]
           /\ \A i \in 1..Len(t) : (s \o t)[Len(s) + i] = t[i]
OBVIOUS

LEMMA InsertedIs ==
    ASSUME NEW S, NEW rows \in Seq(S), NEW i \in 1..Len(rows), NEW f
    PROVE  LET e == Inserted(rows, i, f)
           IN  /\ DOMAIN e = 1..(Len(rows) + 1)
               /\ \A j \in 1..(i - 1) : e[j] = rows[j]
               /\ e[i] = f
               /\ e[i + 1] = rows[i]
<1> DEFINE T == S \union {f}
           n == Len(rows)
           left == SubSeq(rows, 1, i - 1)
           right == SubSeq(rows, i, n)
<1>1. rows \in Seq(T) /\ n \in Nat /\ \A j \in 1..n : rows[j] \in T
  OBVIOUS
<1>2. left \in Seq(T) /\ Len(left) = i - 1 /\ \A j \in 1..(i - 1) : left[j] = rows[j]
  BY <1>1
<1>3. right \in Seq(T) /\ Len(right) = n - i + 1 /\ right[1] = rows[i]
  BY <1>1
<1>4. <<f>> \in Seq(T) /\ Len(<<f>>) = 1 /\ <<f>>[1] = f
  OBVIOUS
<1> HIDE DEF T, left, right
<1>5. left \o <<f>> \in Seq(T) /\ Len(left \o <<f>>) = i
      /\ (left \o <<f>>)[i] = f /\ \A j \in 1..(i - 1) : (left \o <<f>>)[j] = rows[j]
  BY <1>2, <1>4
<1> DEFINE first == left \o <<f>>
           all == first \o right
<1>6. first \in Seq(T) /\ Len(first) = i /\ first[i] = f
      /\ \A j \in 1..(i - 1) : first[j] = rows[j]
  BY <1>5
<1> HIDE DEF first
<1>7. /\ DOMAIN all = 1..(Len(first) + Len(right))
      /\ \A j \in 1..Len(first) : all[j] = first[j]
      /\ \A j \in 1..Len(right) : all[Len(first) + j] = right[j]
  BY <1>3, <1>6, Joined
<1>8. i + (n - i + 1) = n + 1 /\ 1 \in 1..(n - i + 1) /\ i \in 1..i
      /\ \A j \in 1..(i - 1) : j \in 1..i
  BY <1>1
<1>9. Inserted(rows, i, f) = all
  BY DEF Inserted, left, right, first
<1> HIDE DEF all
<1>10. DOMAIN all = 1..(n + 1) /\ all[i + 1] = right[1] /\ all[i] = first[i]
       /\ \A j \in 1..(i - 1) : all[j] = first[j]
  BY <1>3, <1>6, <1>7, <1>8
<1> QED
  BY <1>3, <1>6, <1>9, <1>10

LEMMA InsertionNamed ==
    ASSUME GoodDigest, NEW S, Honest(S), NEW n, NEW rows, Lists(rows, n, S),
           NEW i \in 1..n, NEW f
    PROVE  \E k \in {i, i + 1} : Names(Inserted(rows, i, f), k)
<1> DEFINE e == Inserted(rows, i, f)
<1>1. Len(rows) = n /\ n \in Nat /\ rows \in Seq(S)
  BY ListHolds DEF Lists
<1>2. /\ DOMAIN e = 1..(n + 1)
      /\ \A j \in 1..(i - 1) : e[j] = rows[j]
      /\ e[i] = f
      /\ e[i + 1] = rows[i]
  BY <1>1, InsertedIs
<1> HIDE DEF e
<1>3. ASSUME NEW j \in 1..i PROVE Expected(e, j) = Expected(rows, j)
  <2>1. j = 1 \/ j - 1 \in 1..(i - 1)
    OBVIOUS
  <2> QED
    BY <1>2, <2>1 DEF Expected
<1>4. ASSUME NEW j \in 1..(i - 1) PROVE Passes(e, j)
  <2>1. j \in 1..i /\ j \in 1..n
    BY <1>1
  <2> QED
    BY <1>2, <1>3, <2>1, ListHolds DEF Passes
<1>5. CASE ~Passes(e, i)
  BY <1>1, <1>2, <1>4, <1>5 DEF Names, e
<1>6. CASE Passes(e, i)
  <2>1. f.prev = Expected(rows, i) /\ HashHolds(f)
    BY <1>2, <1>3, <1>6 DEF Passes
  <2>2. f.hash # f.prev
    BY <2>1, PrevDiffers
  <2>3. rows[i].prev = Expected(rows, i)
    BY ListHolds DEF Passes
  <2>4. Expected(e, i + 1) = f.hash
    BY <1>1, <1>2 DEF Expected
  <2>5. ~Passes(e, i + 1)
    BY <1>2, <2>1, <2>2, <2>3, <2>4 DEF Passes
  <2>6. \A j \in 1..((i + 1) - 1) : Passes(e, j)
    BY <1>1, <1>4, <1>6
  <2> QED
    BY <1>1, <1>2, <2>5, <2>6 DEF Names, e
<1> QED
  BY <1>5, <1>6

LEMMA DeletedIs ==
    ASSUME NEW S, NEW rows \in Seq(S), NEW i \in 1..Len(rows), NEW j \in i..Len(rows)
    PROVE  /\ DOMAIN Deleted(rows, i, j) = 1..(Len(rows) - (j - i + 1))
           /\ Len(Deleted(rows, i, j)) = Len(rows) - (j - i + 1)
           /\ \A k \in 1..(i - 1) : Deleted(rows, i, j)[k] = rows[k]
           /\ j < Len(rows) => Deleted(rows, i, j)[i] = rows[j + 1]
           /\ \A k \in i..(Len(rows) - (j - i + 1)) :
                 Deleted(rows, i, j)[k] = rows[k + (j - i + 1)]
<1> DEFINE n == Len(rows)
           left == SubSeq(rows, 1, i - 1)
           right == SubSeq(rows, j + 1, n)
<1>1. n \in Nat /\ \A k \in 1..n : rows[k] \in S
  OBVIOUS
<1>2. left \in Seq(S) /\ Len(left) = i - 1 /\ \A k \in 1..(i - 1) : left[k] = rows[k]
  BY <1>1
<1>3. right \in Seq(S) /\ Len(right) = n - j /\ (j < n => right[1] = rows[j + 1])
      /\ \A k \in 1..(n - j) : right[k] = rows[j + k]
  BY <1>1
<1> HIDE DEF left, right
<1> DEFINE all == left \o right
<1>4. /\ Len(all) = Len(left) + Len(right)
      /\ DOMAIN all = 1..(Len(left) + Len(right))
      /\ \A k \in 1..Len(left) : all[k] = left[k]
      /\ \A k \in 1..Len(right) : all[Len(left) + k] = right[k]
  <2>1. left \in Seq(S) /\ right \in Seq(S)
    BY <1>2, <1>3
  <2> QED
    BY <2>1, Joined
<1>5. Deleted(rows, i, j) = all
  BY DEF Deleted, left, right
<1> HIDE DEF all
<1>6. (i - 1) + (n - j) = n - (j - i + 1) /\ (i - 1) + 1 = i
      /\ (j < n => 1 \in 1..(n - j))
  BY <1>1
<1>7. j < n => all[i] = right[1]
  <2> HAVE j < n
  <2>1. all[(i - 1) + 1] = right[1]
    BY <1>2, <1>3, <1>4, <1>6
  <2> QED
    BY <2>1, <1>6
<1>8. Len(all) = n - (j - i + 1) /\ DOMAIN all = 1..(n - (j - i + 1))
      /\ \A k \in 1..(i - 1) : all[k] = rows[k]
  BY <1>2, <1>3, <1>4, <1>6
<1>9. ASSUME NEW k \in i..(n - (j - i + 1)) PROVE all[k] = rows[k + (j - i + 1)]
  <2> DEFINE x == k - (i - 1)
  <2>1. x \in 1..(n - j) /\ (i - 1) + x = k /\ j + x = k + (j - i + 1)
    BY <1>1
  <2>2. all[(i - 1) + x] = rows[j + x]
    BY <1>2, <1>3, <1>4, <2>1
  <2> QED
    BY <2>1, <2>2
<1> QED
  BY <1>3, <1>5, <1>7, <1>8, <1>9

LEMMA DeletionNamed ==
    ASSUME GoodDigest, NEW S, Honest(S), NEW n, NEW rows, Lists(rows, n, S),
           NEW i \in 1..n, NEW j \in 1..n, i <= j
    PROVE  IF j < Len(rows) THEN Names(Deleted(rows, i, j), i)
                            ELSE Verifies(Deleted(rows, i, j))
<1> DEFINE e == Deleted(rows, i, j)
<1>1. Len(rows) = n /\ n \in Nat /\ rows \in Seq(S) /\ j \in i..n
  BY ListHolds DEF Lists
<1>2. /\ DOMAIN e = 1..(n - (j - i + 1))
      /\ Len(e) = n - (j - i + 1)
      /\ \A k \in 1..(i - 1) : e[k] = rows[k]
      /\ j < n => e[i] = rows[j + 1]
  <2>1. i \in 1..Len(rows) /\ j \in i..Len(rows)
    BY <1>1
  <2>2. /\ DOMAIN e = 1..(Len(rows) - (j - i + 1))
        /\ Len(e) = Len(rows) - (j - i + 1)
        /\ \A k \in 1..(i - 1) : e[k] = rows[k]
        /\ j < Len(rows) => e[i] = rows[j + 1]
    BY ONLY <1>1, <2>1, DeletedIs
  <2> HIDE DEF e
  <2> QED
    BY <1>1, <2>2
<1> HIDE DEF e
<1>3. ASSUME NEW k \in 1..i PROVE Expected(e, k) = Expected(rows, k)
  <2>1. k = 1 \/ k - 1 \in 1..(i - 1)
    OBVIOUS
  <2> QED
    BY <1>2, <2>1 DEF Expected
<1>4. ASSUME NEW k \in 1..(i - 1) PROVE Passes(e, k)
  <2>1. k \in 1..i /\ k \in 1..n
    BY <1>1
  <2> QED
    BY <1>2, <1>3, <2>1, ListHolds DEF Passes
<1>5. CASE j < n
  <2>1. j + 1 \in 1..n /\ j + 1 # 1 /\ (j + 1) - 1 = j
    BY <1>1, <1>5
  <2>2. e[i].prev = rows[j].hash
    BY <1>2, <1>5, <2>1, ListHolds DEF Passes, Expected
  <2>3. Expected(rows, i) # rows[j].hash
    <3>1. CASE i = 1
      BY <3>1, ListHolds DEF Expected
    <3>2. CASE i # 1
      <4>1. i - 1 \in 1..n /\ i - 1 # j
        BY <1>1, <3>2
      <4> QED
        BY <3>2, <4>1, ListHolds DEF Expected
    <3> QED
      BY <3>1, <3>2
  <2>4. ~Passes(e, i)
    BY <1>3, <2>2, <2>3 DEF Passes
  <2>5. i \in 1..(n - (j - i + 1))
    BY <1>1, <1>5
  <2> QED
    BY <1>1, <1>2, <1>4, <1>5, <2>4, <2>5 DEF Names, e
<1>6. CASE ~(j < n)
  <2>1. Len(e) = i - 1
    BY <1>1, <1>2, <1>6
  <2> QED
    BY <1>1, <1>4, <1>6, <2>1 DEF Verifies, e
<1> QED
  BY <1>5, <1>6

-----------------------------------------------------------------------------
(* Any number of changes *)

\* A list that verifies, of rows the columns can hold.
SoundList(told) ==
    /\ IsList(told)
    /\ \A i \in DOMAIN told : WholeRow(told[i])
    /\ Verifies(told)

\* Whoever tells a chain that ends as S does, tells S.
PinnedIn(S) ==
    \A n, rows, told :
        Lists(rows, n, S) /\ SoundList(told) /\ EndHash(told) = LastHash(S)
            => /\ Len(told) = n
               /\ \A i \in 1..n : Columns(told[i]) = Columns(rows[i])

LEMMA EmptyIsPinned == GoodDigest => PinnedIn({})
<1> SUFFICES ASSUME GoodDigest, NEW n, NEW rows, NEW told, Lists(rows, n, {}),
                    SoundList(told), EndHash(told) = LastHash({})
             PROVE  n = 0 /\ Len(told) = 0
  BY DEF PinnedIn
<1>1. n \in Nat /\ rows \in [1..n -> {}]
  BY DEF Lists
<1>2. ~(1 \in 1..n)
  BY <1>1
<1>3. n = 0
  BY <1>1, <1>2
<1>4. Len(told) \in Nat /\ EndHash(told) = Genesis
  BY DEF SoundList, IsList, LastHash
<1>5. CASE Len(told) # 0
  <2>1. HashHolds(told[Len(told)]) /\ EndHash(told) = told[Len(told)].hash
    BY <1>4, <1>5 DEF SoundList, Verifies, Passes, EndHash
  <2> QED
    BY <1>4, <2>1, HashIsFresh DEF GoodDigest
<1> QED
  BY <1>3, <1>5

\* The list of a set that has grown by its last row.
LEMMA ListShrinks ==
    ASSUME NEW S, NEW new, new.id \in Nat, \A row \in S : row.id \in Nat /\ row.id < new.id,
           NEW n, NEW rows, Lists(rows, n, S \union {new})
    PROVE  /\ n - 1 \in Nat /\ n \in 1..n
           /\ rows[n] = new
           /\ Lists([i \in 1..(n - 1) |-> rows[i]], n - 1, S)
<1> DEFINE T == S \union {new}
           front == [i \in 1..(n - 1) |-> rows[i]]
<1>1. n \in Nat /\ rows \in [1..n -> T] /\ DOMAIN rows = 1..n
  BY DEF Lists
<1>2. \A j, k \in 1..n : j < k => rows[j].id < rows[k].id
  BY <1>1 DEF Lists, Fetches
<1>3. \A row \in T : \E j \in 1..n : row = rows[j]
  BY <1>1 DEF Lists, Fetches
<1>4. \A j \in 1..n : rows[j] \in T /\ rows[j].id \in Nat /\ rows[j].id <= new.id
  BY <1>1
<1>5. PICK k \in 1..n : rows[k] = new
  BY <1>3
<1>6. n \in 1..n /\ n - 1 \in Nat /\ ~(k < n)
  BY <1>1, <1>2, <1>4, <1>5
<1>7. k = n
  BY <1>1, <1>6
<1>8. ASSUME NEW j \in 1..(n - 1)
      PROVE  j \in 1..n /\ front[j] = rows[j] /\ rows[j] \in S
  <2>1. j \in 1..n /\ j < n
    BY <1>1
  <2>2. rows[j] # new
    BY <1>2, <1>4, <1>5, <1>6, <1>7, <2>1
  <2> QED
    BY <1>4, <2>1, <2>2
<1>9. {front[j] : j \in 1..(n - 1)} = S
  <2>1. ASSUME NEW row \in S PROVE \E j \in 1..(n - 1) : row = front[j]
    <3>1. PICK j \in 1..n : row = rows[j]
      BY <1>3
    <3>2. j # n
      BY <3>1, <1>5, <1>7
    <3>3. j \in 1..(n - 1)
      BY <1>1, <3>2
    <3> QED
      BY <1>8, <3>1, <3>3
  <2> QED
    BY <2>1, <1>8
<1>10. front \in [1..(n - 1) -> S] /\ DOMAIN front = 1..(n - 1)
  BY <1>8
<1>11. \A i, j \in 1..(n - 1) : i < j => front[i].id < front[j].id
  BY <1>2, <1>8
<1> QED
  BY <1>5, <1>6, <1>7, <1>9, <1>10, <1>11 DEF Lists, Fetches

\* A sound list without its last row.
LEMMA SoundFront ==
    ASSUME NEW told, SoundList(told), Len(told) # 0
    PROVE  LET m == Len(told)
               front == [i \in 1..(m - 1) |-> told[i]]
           IN  /\ m \in Nat /\ m - 1 \in Nat
               /\ SoundList(front) /\ Len(front) = m - 1
               /\ HashHolds(told[m]) /\ WholeRow(told[m])
               /\ EndHash(told) = told[m].hash
               /\ EndHash(front) = told[m].prev
<1> DEFINE m == Len(told)
           R == {told[i] : i \in DOMAIN told}
           front == [i \in 1..(m - 1) |-> told[i]]
<1>1. told \in Seq(R) /\ m \in Nat /\ DOMAIN told = 1..m
  BY DEF SoundList, IsList
<1>2. m - 1 \in Nat /\ m \in 1..m /\ \A i \in 1..(m - 1) : i \in 1..m
  BY <1>1
<1>3. DOMAIN front = 1..(m - 1) /\ \A i \in 1..(m - 1) : front[i] = told[i]
  OBVIOUS
<1>4. front \in Seq({front[i] : i \in DOMAIN front}) /\ Len(front) = m - 1
  <2> DEFINE F == {front[i] : i \in DOMAIN front}
  <2>1. front \in [1..(m - 1) -> F]
    BY <1>3
  <2> HIDE DEF front, F
  <2> QED
    BY <1>2, <2>1, ListIsSeq DEF F
<1> HIDE DEF front
<1>5. \A i \in 1..m : Passes(told, i)
  BY DEF SoundList, Verifies
<1>6. ASSUME NEW i \in 1..(m - 1) PROVE Passes(front, i)
  <2>1. i = 1 \/ i - 1 \in 1..(m - 1)
    BY <1>1
  <2>2. Expected(front, i) = Expected(told, i)
    BY <1>3, <2>1 DEF Expected
  <2> QED
    BY <1>2, <1>3, <1>5, <2>2 DEF Passes
<1>7. SoundList(front)
  BY <1>1, <1>2, <1>3, <1>4, <1>6 DEF SoundList, IsList, Verifies
<1>8. HashHolds(told[m]) /\ WholeRow(told[m]) /\ told[m].prev = Expected(told, m)
  BY <1>1, <1>2, <1>5 DEF SoundList, Passes
<1>9. EndHash(told) = told[m].hash
  BY DEF EndHash
<1>10. EndHash(front) = Expected(told, m)
  <2>1. CASE m = 1
    BY <1>4, <2>1 DEF EndHash, Expected
  <2>2. CASE m # 1
    <3>1. m - 1 # 0 /\ m - 1 \in 1..(m - 1)
      BY <1>1, <1>2, <2>2
    <3> QED
      BY <1>3, <1>4, <2>2, <3>1 DEF EndHash, Expected
  <2> QED
    BY <2>1, <2>2
<1>11. EndHash(front) = told[m].prev
  BY <1>8, <1>10
<1> QED
  BY ONLY <1>1, <1>2, <1>4, <1>7, <1>8, <1>9, <1>11 DEF front

LEMMA PinGrows ==
    ASSUME GoodDigest, NEW S, Honest(S), PinnedIn(S), NEW new,
           new.id \in Nat, \A row \in S : row.id < new.id,
           new.prev = LastHash(S), HashHolds(new), WholeRow(new)
    PROVE  PinnedIn(S \union {new})
<1> DEFINE T == S \union {new}
<1>1. LastHash(T) = new.hash
  <2>1. Honest(T)
    BY HonestGrows
  <2>2. PICK last \in T : IsLast(last, T) /\ LastHash(T) = last.hash
    BY <2>1, LastHashIs DEF Honest, Ends
  <2>3. new.id <= last.id
    BY <2>2 DEF IsLast
  <2>4. last = new
    BY <2>3 DEF Honest
  <2> QED
    BY <2>2, <2>4
<1> SUFFICES ASSUME NEW n, NEW rows, NEW told, Lists(rows, n, T),
                    SoundList(told), EndHash(told) = LastHash(T)
             PROVE  /\ Len(told) = n
                    /\ \A i \in 1..n : Columns(told[i]) = Columns(rows[i])
  BY DEF PinnedIn
<1> DEFINE m == Len(told)
           short == [i \in 1..(n - 1) |-> rows[i]]
           front == [i \in 1..(m - 1) |-> told[i]]
<1>2. n - 1 \in Nat /\ n \in 1..n /\ rows[n] = new /\ Lists(short, n - 1, S)
  <2>1. /\ new.id \in Nat /\ Lists(rows, n, S \union {new})
        /\ \A row \in S : row.id \in Nat /\ row.id < new.id
    BY DEF Honest
  <2> QED
    BY ONLY <2>1, ListShrinks
<1>3. m # 0
  <2> SUFFICES ASSUME m = 0 PROVE FALSE
    OBVIOUS
  <2>1. new.hash = Genesis
    BY <1>1 DEF EndHash
  <2> QED
    BY <2>1, HashIsFresh DEF GoodDigest
<1>4. /\ m \in Nat /\ m - 1 \in Nat
      /\ SoundList(front) /\ Len(front) = m - 1
      /\ HashHolds(told[m]) /\ WholeRow(told[m])
      /\ EndHash(told) = told[m].hash
      /\ EndHash(front) = told[m].prev
  BY <1>3, SoundFront
<1>5. told[m].hash = new.hash
  BY <1>1, <1>4
<1>6. told[m].prev = new.prev /\ Columns(told[m]) = Columns(new)
  BY <1>4, <1>5, HashDecidesPrev, HashDecidesColumns DEF GoodDigest
<1>7. EndHash(front) = LastHash(S)
  BY <1>4, <1>6
<1> HIDE DEF short, front
<1>8. Len(front) = n - 1 /\ \A i \in 1..(n - 1) : Columns(front[i]) = Columns(short[i])
  BY <1>2, <1>4, <1>7 DEF PinnedIn
<1>9. m = n
  BY <1>2, <1>4, <1>8
<1>10. ASSUME NEW i \in 1..n PROVE Columns(told[i]) = Columns(rows[i])
  <2>1. CASE i = n
    BY <1>2, <1>6, <1>9, <2>1
  <2>2. CASE i # n
    <3>1. i \in 1..(n - 1)
      BY <1>2, <2>2
    <3>2. front[i] = told[i] /\ short[i] = rows[i]
      BY <1>9, <3>1 DEF front, short
    <3> QED
      BY <1>8, <3>1, <3>2
  <2> QED
    BY <2>1, <2>2
<1> QED
  BY <1>9, <1>10

Pinned == \A g \in Agents : PinnedIn(RowsOf(g))

\* Keeping the last row_hash is keeping the chain: any list of rows that
\* verify_chain would accept and that ends in the hash the chain ends in has
\* the columns of the chain, row for row.
THEOREM LastHashPinsChain ==
    ASSUME NoHalfCents, GoodDigest
    PROVE  Spec => [](LogInvariant /\ HonestLog /\ Pinned)
<1>1. Init => Pinned
  <2>1. Init => \A g : RowsOf(g) = {}
    BY DEF Init, RowsOf
  <2> QED
    BY <2>1, EmptyIsPinned DEF Pinned
<1>2. LogInvariant /\ HonestLog /\ Pinned /\ [Next]_vars => Pinned'
  <2> SUFFICES ASSUME LogInvariant, HonestLog, Pinned, [Next]_vars PROVE Pinned'
    OBVIOUS
  <2>1. CASE \A g : RowsOf(g)' = RowsOf(g)
    BY <2>1 DEF Pinned
  <2>2. ASSUME NEW a \in Appends, Commits(a),
               \A g : RowsOf(g)' = IF g = AgentFor[a] THEN RowsOf(g) \union {draft[a]}
                                                      ELSE RowsOf(g)
        PROVE  Pinned'
    <3> DEFINE S == RowsOf(AgentFor[a])
    <3>1. Honest(S) /\ PinnedIn(S)
      BY AuditAssumption DEF HonestLog, Pinned
    <3>2. PinnedIn(S \union {draft[a]})
      BY <2>2, <3>1, CommitsHonestRow, PinGrows
    <3> HIDE DEF S
    <3>3. \A g \in Agents : PinnedIn(RowsOf(g))'
      BY <2>2, <3>2 DEF Pinned, S
    <3> QED
      BY <3>3 DEF Pinned
  <2> QED
    BY <2>1, <2>2, LogSteps
<1> QED
  BY <1>1, <1>2, LogStaysHonest, LogInvariantHolds, PTL DEF Spec

-----------------------------------------------------------------------------
(* The properties of the run                                                *)

LEMMA ForgeriesAreWhole ==
    ASSUME NEW g, NEW id, NEW f \in Forgeries(g, id)
    PROVE  WholeRow(f)
<1>1. PICK o \in Texts(g), e \in Amounts, t \in 0..clock, p \in Hashes :
          \/ f = SealedRow(id, o, e, t, p)
          \/ \E h \in Hashes : f = [SealedRow(id, o, e, t, p) EXCEPT !.hash = h]
  BY DEF Forgeries
<1>2. f.est = e
  BY <1>1 DEF SealedRow
<1> QED
  BY <1>2, AmountsAssumption DEF WholeRow

\* An edit of a row is named at that row or, sealed again, at the next one;
\* only a resealed last row is not seen.
THEOREM EditsAreNamed ==
    ASSUME NoHalfCents, GoodDigest
    PROVE  Spec => []EditIsNamed
<1>1. HonestLog => EditIsNamed
  <2> SUFFICES ASSUME HonestLog, NEW g \in Agents, NEW rows \in Fetched(g),
                      NEW i \in DOMAIN rows, NEW f \in Forgeries(g, rows[i].id),
                      Columns(f) # Columns(rows[i])
               PROVE  \/ Names(Edited(rows, i, f), i)
                      \/ Names(Edited(rows, i, f), i + 1) /\ f.hash # rows[i].hash
                      \/ i = Len(rows) /\ f.hash # rows[i].hash
    BY DEF EditIsNamed
  <2>1. Honest(RowsOf(g)) /\ Lists(rows, Cardinality(RowsOf(g)), RowsOf(g))
    BY FetchedLists
  <2>2. i \in 1..Cardinality(RowsOf(g))
    BY <2>1, ListHolds
  <2> QED
    BY <2>1, <2>2, ForgeriesAreWhole, EditNamed
<1> QED
  BY <1>1, LogStaysHonest, PTL

\* A row inserted anywhere but at the end is named, or the row after it is.
THEOREM InsertionsAreNamed ==
    ASSUME NoHalfCents, GoodDigest
    PROVE  Spec => []InsertionIsNamed
<1>1. HonestLog => InsertionIsNamed
  <2> SUFFICES ASSUME HonestLog, NEW g \in Agents, NEW rows \in Fetched(g),
                      NEW i \in DOMAIN rows, NEW f
               PROVE  \E k \in {i, i + 1} : Names(Inserted(rows, i, f), k)
    BY DEF InsertionIsNamed
  <2>1. Honest(RowsOf(g)) /\ Lists(rows, Cardinality(RowsOf(g)), RowsOf(g))
    BY FetchedLists
  <2>2. i \in 1..Cardinality(RowsOf(g))
    BY <2>1, ListHolds
  <2> QED
    BY <2>1, <2>2, InsertionNamed
<1> QED
  BY <1>1, LogStaysHonest, PTL

\* Deleted rows are noticed at the row after them; without such a row the
\* rest verifies.
THEOREM DeletionsAreNamed ==
    ASSUME NoHalfCents, GoodDigest
    PROVE  Spec => []DeletionIsNamed
<1>1. HonestLog => DeletionIsNamed
  <2> SUFFICES ASSUME HonestLog, NEW g \in Agents, NEW rows \in Fetched(g),
                      NEW i \in DOMAIN rows, NEW j \in DOMAIN rows, i <= j
               PROVE  IF j < Len(rows) THEN Names(Deleted(rows, i, j), i)
                                       ELSE Verifies(Deleted(rows, i, j))
    BY DEF DeletionIsNamed
  <2>1. Honest(RowsOf(g)) /\ Lists(rows, Cardinality(RowsOf(g)), RowsOf(g))
    BY FetchedLists
  <2>2. i \in 1..Cardinality(RowsOf(g)) /\ j \in 1..Cardinality(RowsOf(g))
    BY <2>1, ListHolds
  <2> QED
    BY <2>1, <2>2, DeletionNamed
<1> QED
  BY <1>1, LogStaysHonest, PTL

\* The property of the run: a chain told anew that ends in the same hash is
\* the same chain.
THEOREM TailPins ==
    ASSUME NoHalfCents, GoodDigest
    PROVE  Spec => []TailPinsChain
<1>1. HonestLog /\ Pinned => TailPinsChain
  <2> SUFFICES ASSUME HonestLog, Pinned, NEW g \in Agents, NEW rows \in Fetched(g),
                      NEW told \in Retellings(g), Verifies(told),
                      EndHash(told) = EndHash(rows)
               PROVE  /\ Len(told) = Len(rows)
                      /\ \A i \in DOMAIN rows : Columns(told[i]) = Columns(rows[i])
    BY DEF TailPinsChain
  <2> DEFINE S == RowsOf(g)
             n == Cardinality(S)
  <2>1. Honest(S) /\ Lists(rows, n, S) /\ PinnedIn(S)
    BY FetchedLists DEF Pinned
  <2>2. Len(rows) = n /\ DOMAIN rows = 1..n /\ rows \in Seq(S)
    BY <2>1, ListHolds
  <2>3. SoundList(told)
    BY AmountsAssumption DEF Retellings, SoundList, WholeRow
  <2>4. \A i \in 1..n : WholeRow(rows[i])
    BY <2>1, ListHolds
  <2>5. SoundList(rows)
    <3>1. rows \in Seq({rows[i] : i \in DOMAIN rows})
      <4>1. rows \in [1..n -> {rows[i] : i \in DOMAIN rows}] /\ n \in Nat
        BY <2>1, <2>2 DEF Lists
      <4> QED
        BY <4>1, ListIsSeq
    <3>2. Verifies(rows)
      BY <2>1, <2>2, ListHolds DEF Verifies
    <3> QED
      BY <2>2, <2>4, <3>1, <3>2 DEF SoundList, IsList
  <2>6. EndHash(rows) = LastHash(S)
    <3>1. CASE n = 0
      <4>1. S = {}
        BY <3>1, <2>1, FS_EmptySet DEF Honest
      <4> QED
        BY <3>1, <2>2, <4>1 DEF EndHash, LastHash
    <3>2. CASE n # 0
      <4>1. n \in Nat /\ n \in 1..n
        BY <3>2, <2>1 DEF Lists
      <4>2. rows[n] \in S /\ \A row \in S : \E j \in 1..n : row = rows[j]
        BY <4>1, <2>1, <2>2 DEF Lists, Fetches
      <4>3. PICK last \in S : IsLast(last, S) /\ LastHash(S) = last.hash
        BY <4>2, <2>1, LastHashIs DEF Honest, Ends
      <4>4. PICK j \in 1..n : last = rows[j]
        BY <4>2
      <4>5. rows[n].id <= rows[j].id /\ rows[n].id \in Nat /\ rows[j].id \in Nat
        BY <4>2, <4>3, <4>4, <2>1 DEF IsLast, Honest
      <4>6. j < n => rows[j].id < rows[n].id
        BY <4>1, <2>1, <2>2 DEF Lists, Fetches
      <4>7. j = n
        BY <4>1, <4>5, <4>6
      <4> QED
        BY <3>2, <2>2, <4>3, <4>4, <4>7 DEF EndHash
    <3> QED
      BY <3>1, <3>2
  <2>7. EndHash(told) = LastHash(S)
    BY <2>6
  <2> HIDE DEF S, n
  <2> QED
    BY <2>1, <2>2, <2>3, <2>7 DEF PinnedIn
<1> QED
  BY <1>1, LastHashPinsChain, PTL
=============================================================================
