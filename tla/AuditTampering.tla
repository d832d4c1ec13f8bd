--------------------------- MODULE AuditTampering ---------------------------
(***************************************************************************)
(* What verify_chain answers when somebody has changed the table behind    *)
(* log_decision's back.  The honest log is that of AuditLog; at each of    *)
(* its states this module asks what the loop of verify_chain returns for   *)
(* the list of rows the SELECT would fetch after each possible change of   *)
(* one agent's rows, instead of taking such changes as steps: the answer   *)
(* depends on the list alone.                                              *)
(***************************************************************************)
EXTENDS AuditLog, Sequences

CONSTANT Amounts    \* costs that a changed row may be given

\* The column holds whole cents.
ASSUME AmountsAssumption == \A e \in Amounts : e \in Nat /\ IsWhole(e)

\* ORDER BY id ASC: rows lists the set S by id.
Fetches(rows, S) ==
    /\ {rows[i] : i \in DOMAIN rows} = S
    /\ \A i, j \in DOMAIN rows : i < j => rows[i].id < rows[j].id

\* The list the SELECT of verify_chain returns for g.
Fetched(g) ==
    {rows \in [1..Cardinality(RowsOf(g)) -> RowsOf(g)] : Fetches(rows, RowsOf(g))}

\* Mutant: expected_prev stays the genesis sentinel.
ForgetfulRound(rows, n, w) ==
    IF w.bad = 0 /\ (rows[n].prev # w.expected \/ ~HashHolds(rows[n]))
    THEN [w EXCEPT !.bad = n]
    ELSE w

\* One round of the loop, on row n: it returns, or expected_prev is the row's
\* hash.  A loop that has returned stays so.
Round(rows, n, w) ==
    IF w.bad # 0 THEN w
    ELSE IF rows[n].prev # w.expected \/ ~HashHolds(rows[n])
         THEN [w EXCEPT !.bad = n]
         ELSE [w EXCEPT !.expected = rows[n].hash]

\* expected_prev and the row returned at, after each round.
Rounds(rows) ==
    LET walk[n \in 0..Len(rows)] ==
          IF n = 0 THEN [expected |-> Genesis, bad |-> 0]
                   ELSE Round(rows, n, walk[n - 1])
    IN  walk

\* The loop: the position of the row it returns at, 0 when it gets through.
Walk(rows) == Rounds(rows)[Len(rows)].bad

-----------------------------------------------------------------------------
(* What the loop means, row by row                                          *)

\* Mutant: the first row may name any predecessor.
ExpectedButFirst(rows, i) == IF i = 1 THEN rows[1].prev ELSE rows[i - 1].hash

\* The row_hash that row i has to name.
Expected(rows, i) == IF i = 1 THEN Genesis ELSE rows[i - 1].hash

\* Mutant: only the row's own hash is compared.
PassesUnlinked(rows, i) == HashHolds(rows[i])

Passes(rows, i) == rows[i].prev = Expected(rows, i) /\ HashHolds(rows[i])

\* verify_chain answers (True, None).
Verifies(rows) == \A i \in 1..Len(rows) : Passes(rows, i)

\* verify_chain answers (False, rows[i].id).
Names(rows, i) ==
    /\ i \in DOMAIN rows
    /\ ~Passes(rows, i)
    /\ \A j \in 1..(i - 1) : Passes(rows, j)

\* The row_hash of the last row.
EndHash(rows) == IF Len(rows) = 0 THEN Genesis ELSE rows[Len(rows)].hash

-----------------------------------------------------------------------------
(* Changes of the table                                                     *)

\* The columns of a row but for its id, which no hash covers.
Columns(row) ==
    [agent   |-> AgentOfRow(row),
     content |-> ContentFor[row.op],
     est     |-> row.est,
     ts      |-> row.ts,
     prev    |-> row.prev,
     hash    |-> row.hash]

\* An append of g for each text that a row of g may have.
Texts(g) ==
    LET ofG == {a \in Appends : AgentFor[a] = g}
    IN  {CHOOSE a \in ofG : ContentFor[a] = ContentFor[b] : b \in ofG}

\* Hashes an editor finds in the table.
Hashes == {Genesis} \union {row.hash : row \in table}

\* A row that fits the chain at prev, as log_decision would have written it.
SealedRow(id, op, est, ts, prev) ==
    [id |-> id, op |-> op, est |-> est, ts |-> ts, prev |-> prev,
     hash |-> RowHash(prev, op, est, ts)]

\* The rows of g that can be put at an id: any text, cost and time, with any
\* hashes of the table or with a row_hash computed anew.
Forgeries(g, id) ==
    LET sealed == {SealedRow(id, o, e, t, p) :
                      o \in Texts(g), e \in Amounts, t \in 0..clock, p \in Hashes}
    IN  sealed \union {[f EXCEPT !.hash = h] : f \in sealed, h \in Hashes}

Edited(rows, i, f) == [rows EXCEPT ![i] = f]

Inserted(rows, i, f) ==
    SubSeq(rows, 1, i - 1) \o <<f>> \o SubSeq(rows, i, Len(rows))

\* The rows but i to j.
Deleted(rows, i, j) == SubSeq(rows, 1, i - 1) \o SubSeq(rows, j + 1, Len(rows))

IsList(rows) == rows \in Seq({rows[i] : i \in DOMAIN rows})

\* Chains told anew: of any texts, costs and times, each row with the hashes
\* that make the chain verify.
Retold(texts) ==
    LET row[i \in DOMAIN texts] ==
          SealedRow(i, texts[i].op, texts[i].est, texts[i].ts,
                    IF i = 1 THEN Genesis ELSE row[i - 1].hash)
    IN  row

\* Such lists, no longer than the chain of g.
Retellings(g) ==
    LET Row == [op : Texts(g), est : Amounts, ts : 0..clock]
    IN  {rows \in UNION {{Retold(texts) : texts \in [1..n -> Row]} :
                            n \in 0..Cardinality(RowsOf(g))} :
           IsList(rows) /\ \A i \in DOMAIN rows : rows[i].est \in Amounts}

\* Every append has ended.  Each table there is, is one there can be then,
\* since appends may fail: elsewhere the same questions would be asked again.
AllEnded == clock = MaxTime /\ \A a \in Appends : pc[a] \in {"done", "failed"}

\* The lists that an edit of a row leads to, or a deletion.
Tampered(rows, g) ==
    (UNION {{Edited(rows, i, f) : f \in Forgeries(g, rows[i].id)} : i \in DOMAIN rows})
    \union (UNION {{Deleted(rows, i, j) : j \in i..Len(rows)} : i \in DOMAIN rows})

-----------------------------------------------------------------------------
\* The loop returns at the first row that does not name its predecessor or
\* whose hash is not that of its columns, and gets through when there is none,
\* whatever was done to the rows: its running expected_prev asks of each row
\* what the definition of a sound chain asks (VerifyChain).
WalkAgrees ==
    AllEnded =>
      \A g \in Agents : \A rows \in Fetched(g) : \A changed \in Tampered(rows, g) :
        LET n == Walk(changed)
        IN  IF n = 0 THEN VerifyChain({changed[i] : i \in DOMAIN changed})
                     ELSE Names(changed, n)

\* An edited row is the one verify_chain names, or, where its row_hash was
\* computed anew, the row after it is.  Only an edit of the last row that
\* seals it again is not seen.
EditIsNamed ==
    AllEnded =>
      \A g \in Agents : \A rows \in Fetched(g) : \A i \in DOMAIN rows :
        \A f \in Forgeries(g, rows[i].id) :
          Columns(f) # Columns(rows[i]) =>
            \/ Names(Edited(rows, i, f), i)
            \/ Names(Edited(rows, i, f), i + 1) /\ f.hash # rows[i].hash
            \/ i = Len(rows) /\ f.hash # rows[i].hash

\* A row that did not come from log_decision is named, or the row after it
\* is, wherever it was put but at the end.
InsertionIsNamed ==
    AllEnded =>
      \A g \in Agents : \A rows \in Fetched(g) : \A i \in DOMAIN rows :
        \A f \in Forgeries(g, 0) :
          \E k \in {i, i + 1} : Names(Inserted(rows, i, f), k)

\* Deleted rows make verify_chain name the row after them, as its docstring
\* says; deleted from the end they leave a chain that verifies.
DeletionIsNamed ==
    AllEnded =>
      \A g \in Agents : \A rows \in Fetched(g) : \A i, j \in DOMAIN rows :
        i <= j =>
          IF j < Len(rows) THEN Names(Deleted(rows, i, j), i)
                           ELSE Verifies(Deleted(rows, i, j))

\* A chain that verifies and ends in the same row_hash is the same chain: who
\* kept the last hash elsewhere notices what verify_chain alone cannot, however
\* many rows were changed and sealed again.
TailPinsChain ==
    AllEnded =>
      \A g \in Agents : \A rows \in Fetched(g) : \A told \in Retellings(g) :
        Verifies(told) /\ EndHash(told) = EndHash(rows) =>
          /\ Len(told) = Len(rows)
          /\ \A i \in DOMAIN rows : Columns(told[i]) = Columns(rows[i])
=============================================================================
