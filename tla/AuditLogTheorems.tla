-------------------------- MODULE AuditLogTheorems --------------------------
(***************************************************************************)
(* Proofs about the hash chain, for any number of appends and agents, any  *)
(* size of the pool and any digest.                                        *)
(*                                                                         *)
(* The induction is in layers: the types; that the lock excludes; and what *)
(* the holder of a lock knows of the chain it is about to extend.          *)
(***************************************************************************)
EXTENDS AuditLog, TLAPS

\* A draft is a row with its six columns.
IsDraft(d, a) ==
    d = [id |-> d.id, op |-> a, est |-> d.est, ts |-> d.ts,
         prev |-> d.prev, hash |-> d.hash]

PCs == {"idle", "acquire", "done", "failed"} \union Connected

Counters == nextId \in Nat \ {0} /\ clock \in 0..MaxTime

DraftOK(a) ==
    /\ IsDraft(draft[a], a)
    /\ draft[a].id \in 0..(nextId - 1)
    /\ draft[a].ts \in 0..clock

RowOK(row) ==
    /\ row.op \in Appends
    /\ row = draft[row.op]
    /\ pc[row.op] = "done"

Typed ==
    /\ Counters
    /\ pc \in [Appends -> PCs]
    /\ DOMAIN draft = Appends
    /\ \A a \in Appends : DraftOK(a)
    /\ \A row \in table : RowOK(row)

-----------------------------------------------------------------------------
\* What a step does to the draft of the append that takes it.
DraftRow(i, a, e, t, p, h) ==
    [id |-> i, op |-> a, est |-> e, ts |-> t, prev |-> p, hash |-> h]

LEMMA StampForm ==
    ASSUME NEW d, NEW a, IsDraft(d, a), NEW t
    PROVE  [d EXCEPT !.ts = t] = DraftRow(d.id, a, d.est, t, d.prev, d.hash)
<1> DEFINE r == DraftRow(d.id, a, d.est, d.ts, d.prev, d.hash)
<1>1. d = r
  BY DEF IsDraft, DraftRow
<1>2. [r EXCEPT !.ts = t] = DraftRow(d.id, a, d.est, t, d.prev, d.hash)
  BY DEF DraftRow
<1> HIDE DEF r
<1> QED
  BY <1>1, <1>2

LEMMA ReadForm ==
    ASSUME NEW d, NEW a, IsDraft(d, a), NEW p
    PROVE  [d EXCEPT !.prev = p] = DraftRow(d.id, a, d.est, d.ts, p, d.hash)
<1> DEFINE r == DraftRow(d.id, a, d.est, d.ts, d.prev, d.hash)
<1>1. d = r
  BY DEF IsDraft, DraftRow
<1>2. [r EXCEPT !.prev = p] = DraftRow(d.id, a, d.est, d.ts, p, d.hash)
  BY DEF DraftRow
<1> HIDE DEF r
<1> QED
  BY <1>1, <1>2

LEMMA DraftRowIs ==
    ASSUME NEW a, NEW i, NEW e, NEW t, NEW p, NEW h
    PROVE  LET d == DraftRow(i, a, e, t, p, h)
           IN  /\ IsDraft(d, a) /\ d.id = i /\ d.est = e
               /\ d.ts = t /\ d.prev = p /\ d.hash = h
BY DEF DraftRow, IsDraft

\* Every step is a tick, or a step of one append that leaves the others alone.
Others(a) == \A b \in Appends \ {a} : pc'[b] = pc[b] /\ draft'[b] = draft[b]

\* The steps of an append that only move it on.
Walks(a) ==
    /\ UNCHANGED <<table, nextId, draft>>
    /\ pc[a] # "done"
    /\ pc'[a] \in {"acquire", "lock", "failed"}

Stamps(a) == pc[a] = "stamp" /\ pc'[a] = "read"
             /\ UNCHANGED <<table, nextId>>
             /\ draft'[a] = DraftRow(draft[a].id, a, draft[a].est, clock,
                                     draft[a].prev, draft[a].hash)

Reads(a) == pc[a] = "read" /\ pc'[a] = "insert"
            /\ UNCHANGED <<table, nextId>>
            /\ draft'[a] = DraftRow(draft[a].id, a, draft[a].est, draft[a].ts,
                                    LastHash(RowsOf(AgentFor[a])), draft[a].hash)

Inserts(a) == pc[a] = "insert" /\ pc'[a] = "commit"
              /\ nextId' = nextId + 1
              /\ UNCHANGED table
              /\ draft'[a] = DraftRow(nextId, a, Stored(CostFor[a]), draft[a].ts,
                    draft[a].prev,
                    RowHash(draft[a].prev, a, CostFor[a], draft[a].ts))

Locks(a) ==
    /\ pc[a] = "lock" /\ pc'[a] = "stamp"
    /\ UNCHANGED <<table, nextId, draft>>
    /\ \A b \in Appends \ {a} : LockKey(b) = LockKey(a) => pc[b] \notin Locked

Commits(a) ==
    /\ pc[a] = "commit" /\ pc'[a] = "done"
    /\ table' = table \union {draft[a]}
    /\ UNCHANGED <<nextId, draft>>

Quiet == UNCHANGED <<table, nextId, pc, draft>> /\ clock' \in clock..MaxTime

Advances(a) ==
    /\ Others(a)
    /\ clock' = clock
    /\ Walks(a) \/ Locks(a) \/ Stamps(a) \/ Reads(a) \/ Inserts(a) \/ Commits(a)

LEMMA StepForms ==
    ASSUME Typed, [Next]_vars
    PROVE  /\ pc' \in [Appends -> PCs]
           /\ DOMAIN draft' = Appends
           /\ Quiet \/ \E a \in Appends : Advances(a)
<1> USE DEF Typed, Go
<1> DEFINE Form == /\ pc' \in [Appends -> PCs]
                   /\ DOMAIN draft' = Appends
                   /\ Quiet \/ \E a \in Appends : Advances(a)
<1>1. CASE UNCHANGED vars
  BY <1>1 DEF vars, Quiet, Counters
<1>2. CASE Tick
  BY <1>2, AuditAssumption DEF Tick, Quiet, Counters
<1>3. ASSUME NEW a \in Appends, Call(a) \/ Acquire(a) \/ RollBack(a)
      PROVE  Form
  <2>1. UNCHANGED <<table, nextId, clock, draft>> /\ pc[a] # "done"
    BY <1>3 DEF Call, Acquire, RollBack, Connected, Locked
  <2>2. PICK to \in {"acquire", "lock", "failed"} : pc' = [pc EXCEPT ![a] = to]
    BY <1>3 DEF Call, Acquire, RollBack
  <2>3. Walks(a) /\ Others(a)
    BY <2>1, <2>2 DEF Walks, Others
  <2> QED
    BY <2>1, <2>2, <2>3 DEF Advances, PCs, Connected
<1>4. ASSUME NEW a \in Appends, Lock(a)
      PROVE  Form
  <2>1. Locks(a) /\ Others(a)
    BY <1>4 DEF Lock, Locks, Others
  <2> QED
    BY <1>4, <2>1 DEF Lock, Advances, PCs, Connected, Locked
<1>5. ASSUME NEW a \in Appends, Stamp(a)
      PROVE  Form
  <2>1. Stamps(a) /\ Others(a)
    BY <1>5, StampForm DEF Stamp, Stamps, Others, DraftOK
  <2> QED
    BY <1>5, <2>1 DEF Stamp, Advances, PCs, Connected, Locked
<1>6. ASSUME NEW a \in Appends, Read(a)
      PROVE  Form
  <2>1. Reads(a) /\ Others(a)
    BY <1>6, ReadForm DEF Read, Reads, Others, DraftOK
  <2> QED
    BY <1>6, <2>1 DEF Read, Advances, PCs, Connected, Locked
<1>7. ASSUME NEW a \in Appends, Insert(a)
      PROVE  Form
  <2>1. Inserts(a) /\ Others(a)
    BY <1>7 DEF Insert, Inserts, Others, NewRow, DraftRow
  <2> QED
    BY <1>7, <2>1 DEF Insert, Advances, PCs, Connected, Locked
<1>8. ASSUME NEW a \in Appends, Commit(a)
      PROVE  Form
  <2>1. Commits(a) /\ Others(a)
    BY <1>8 DEF Commit, Commits, Others
  <2> QED
    BY <1>8, <2>1 DEF Commit, Advances, PCs, Connected, Locked
<1> QED
  BY <1>1, <1>2, <1>3, <1>4, <1>5, <1>6, <1>7, <1>8 DEF Next, Step

-----------------------------------------------------------------------------
LEMMA InitTyped == Init => Typed
<1> SUFFICES ASSUME Init PROVE Typed
  OBVIOUS
<1>1. \A a \in Appends : draft[a] = NewDraft(a)
  BY DEF Init
<1>2. \A a \in Appends : DraftOK(a)
  BY <1>1 DEF Init, DraftOK, IsDraft, NewDraft
<1> QED
  BY <1>2, AuditAssumption DEF Init, Typed, Counters, PCs

LEMMA TypedStays == Typed /\ [Next]_vars => Typed'
<1> SUFFICES ASSUME Typed, [Next]_vars PROVE Typed'
  OBVIOUS
<1>1. pc' \in [Appends -> PCs] /\ DOMAIN draft' = Appends
  BY StepForms
<1>2. CASE Quiet
  BY <1>1, <1>2, AuditAssumption DEF Quiet, Typed, Counters, DraftOK, RowOK
<1>3. ASSUME NEW a \in Appends, Advances(a)
      PROVE  Typed'
  <2>1. Counters /\ DraftOK(a) /\ \A b \in Appends : DraftOK(b)
    BY DEF Typed
  <2>2. IsDraft(draft'[a], a) /\ draft'[a].id \in 0..(nextId' - 1)
        /\ draft'[a].ts \in 0..clock' /\ nextId' \in {nextId, nextId + 1}
    <3>1. CASE Walks(a) \/ Locks(a) \/ Commits(a)
      BY <2>1, <3>1, <1>3 DEF Walks, Locks, Commits, DraftOK, Advances
    <3>2. CASE Stamps(a)
      BY <2>1, <3>2, <1>3, DraftRowIs DEF Stamps, DraftOK, Advances, Counters
    <3>3. CASE Reads(a)
      BY <2>1, <3>3, <1>3, DraftRowIs DEF Reads, DraftOK, Advances
    <3>4. CASE Inserts(a)
      <4>1. nextId' = nextId + 1 /\ clock' = clock
        BY <3>4, <1>3 DEF Inserts, Advances
      <4>2. IsDraft(draft'[a], a) /\ draft'[a].id = nextId
            /\ draft'[a].ts = draft[a].ts
        BY <2>1, <3>4, DraftRowIs DEF Inserts, DraftOK
      <4> QED
        BY <2>1, <4>1, <4>2 DEF DraftOK, Counters
    <3> QED
      BY <1>3, <3>1, <3>2, <3>3, <3>4 DEF Advances
  <2>3. ASSUME NEW b \in Appends
        PROVE  DraftOK(b)'
    <3>1. CASE b = a
      BY <2>2, <3>1 DEF DraftOK
    <3>2. CASE b # a
      <4>1. draft'[b] = draft[b] /\ clock' = clock
        BY <1>3, <3>2 DEF Advances, Others
      <4> QED
        BY <2>1, <2>2, <4>1 DEF DraftOK, Counters
    <3> QED
      BY <3>1, <3>2
  <2>4. ASSUME NEW row \in table'
        PROVE  RowOK(row)'
    <3>1. CASE row \in table
      <4>1. RowOK(row) /\ pc[a] # "done"
        BY <3>1, <1>3 DEF Typed, Advances, Walks, Locks, Stamps, Reads, Inserts, Commits
      <4>2. row.op \in Appends \ {a}
        BY <4>1 DEF RowOK
      <4> QED
        BY <4>1, <4>2, <1>3 DEF RowOK, Advances, Others
    <3>2. CASE row \notin table
      <4>1. Commits(a) /\ row = draft[a]
        BY <3>2, <1>3 DEF Advances, Walks, Locks, Stamps, Reads, Inserts, Commits
      <4>2. row.op = a
        BY <2>1, <4>1 DEF DraftOK, IsDraft
      <4> QED
        BY <4>1, <4>2 DEF RowOK, Commits
    <3> QED
      BY <3>1, <3>2
  <2>5. Counters'
    BY <2>1, <2>2, <1>3 DEF Counters, Advances
  <2> QED
    BY <1>1, <2>3, <2>4, <2>5 DEF Typed
<1> QED
  BY <1>2, <1>3, StepForms

\* Type correctness: every append is where log_decision can be suspended, its
\* draft has an id and a time that have been, and a committed row is the
\* draft of the append that ended with it.
THEOREM LogIsTyped == Spec => []TypeOK
<1>1. Typed => TypeOK
  BY DEF Typed, TypeOK, Counters, DraftOK, RowOK, IsDraft, PCs
<1> QED
  BY <1>1, InitTyped, TypedStays, PTL DEF Spec

-----------------------------------------------------------------------------
\* Of the appends with one lock key, one at most is past its lock.
Excludes ==
    \A a, b \in Appends :
        LockKey(a) = LockKey(b) /\ pc[a] \in Locked /\ pc[b] \in Locked => a = b

LEMMA InitExcludes == Init => Excludes
BY DEF Init, Excludes, Locked

LEMMA ExcludesStays == Typed /\ Excludes /\ [Next]_vars => Excludes'
<1> SUFFICES ASSUME Typed, Excludes, [Next]_vars PROVE Excludes'
  OBVIOUS
<1>1. CASE Quiet
  BY <1>1 DEF Quiet, Excludes
<1>2. ASSUME NEW c \in Appends, Advances(c)
      PROVE  Excludes'
  <2>1. CASE Locks(c)
    <3> SUFFICES ASSUME NEW a \in Appends, NEW b \in Appends, LockKey(a) = LockKey(b),
                        pc'[a] \in Locked, pc'[b] \in Locked
                 PROVE  a = b
      BY DEF Excludes, LockKey
    <3>1. CASE a # c /\ b # c
      BY <3>1, <1>2 DEF Excludes, Advances, Others
    <3>2. CASE a = c /\ b # c
      BY <3>2, <2>1, <1>2 DEF Locks, Advances, Others
    <3>3. CASE a # c /\ b = c
      BY <3>3, <2>1, <1>2 DEF Locks, Advances, Others
    <3> QED
      BY <3>1, <3>2, <3>3
  <2>2. CASE ~Locks(c)
    <3>1. pc'[c] \in Locked => pc[c] \in Locked
      BY <2>2, <1>2 DEF Advances, Walks, Stamps, Reads, Inserts, Commits, Locked
    <3>2. \A a \in Appends : pc'[a] \in Locked => pc[a] \in Locked
      BY <3>1, <1>2 DEF Advances, Others
    <3> QED
      BY <3>2 DEF Excludes, LockKey
  <2> QED
    BY <2>1, <2>2
<1> QED
  BY <1>1, <1>2, StepForms

-----------------------------------------------------------------------------
\* What an append at p, with draft d, knows of the rows S of its agent.
Knows(p, d, S, a) ==
    /\ p \in {"read", "insert", "commit"} => \A row \in S : row.ts <= d.ts
    /\ p \in {"insert", "commit"} => d.prev = LastHash(S)
    /\ p = "commit" =>
          /\ \A row \in S : row.id < d.id
          /\ d.est = Stored(CostFor[a])
          /\ d.hash = RowHash(d.prev, a, CostFor[a], d.ts)

AllKnow == \A a \in Appends : Knows(pc[a], draft[a], RowsOf(AgentFor[a]), a)

\* A row carries the hash log_decision computed.
Sealed(row) ==
    /\ row.est = Stored(CostFor[row.op])
    /\ row.hash = RowHash(row.prev, row.op, CostFor[row.op], row.ts)

\* A sound chain.
Linked(S) == \A row \in S : LinkHolds(row, S)
Ordered(S) == \A r, q \in S : r.id < q.id => r.ts <= q.ts
Chain(S) == Linked(S) /\ Ordered(S) /\ \A row \in S : Sealed(row)

Chains == \A g \in Agents : Chain(RowsOf(g))

LEMMA RowsAreTyped ==
    ASSUME Typed, NEW g, NEW row \in RowsOf(g)
    PROVE  row.id \in Nat /\ row.id < nextId /\ row.ts \in Nat /\ row.ts <= clock
           /\ clock \in Nat /\ nextId \in Nat
<1>1. row \in table /\ RowOK(row) /\ DraftOK(row.op) /\ Counters
  BY DEF RowsOf, Typed, RowOK
<1> QED
  BY <1>1, AuditAssumption DEF RowOK, DraftOK, Counters

\* Only a commit changes a chain, and only that of its agent.
LEMMA RowsGrow ==
    ASSUME Typed, NEW a \in Appends, Commits(a), NEW g
    PROVE  RowsOf(g)' = IF g = AgentFor[a] THEN RowsOf(g) \union {draft[a]} ELSE RowsOf(g)
<1>1. draft[a].op = a
  BY DEF Typed, DraftOK, IsDraft
<1> QED
  BY <1>1 DEF Commits, RowsOf, AgentOfRow

LEMMA RowsKept ==
    ASSUME UNCHANGED table, NEW g
    PROVE  RowsOf(g)' = RowsOf(g)
BY DEF RowsOf, AgentOfRow

\* A row with a larger id that names the last row extends a sound chain.
LEMMA ChainGrows ==
    ASSUME NEW S, Chain(S), NEW new,
           \A row \in S : row.id \in Int /\ row.ts \in Int,
           new.id \in Int, new.ts \in Int,
           \A row \in S : row.id < new.id /\ row.ts <= new.ts,
           new.prev = LastHash(S), Sealed(new)
    PROVE  Chain(S \union {new})
<1> DEFINE T == S \union {new}
<1>1. ASSUME NEW row \in S
      PROVE  Earlier(row, T) = Earlier(row, S)
  BY DEF Earlier
<1>2. Earlier(new, T) = S
  BY DEF Earlier
<1>3. Linked(T)
  BY <1>1, <1>2 DEF Chain, Linked, LinkHolds
<1>4. Ordered(T)
  BY DEF Chain, Ordered
<1> QED
  BY <1>3, <1>4 DEF Chain

\* What a step adds to what its append knows, while the chain stands still.
LEMMA KnowsMore ==
    ASSUME Typed, NEW a \in Appends, Advances(a), UNCHANGED table,
           Knows(pc[a], draft[a], RowsOf(AgentFor[a]), a)
    PROVE  Knows(pc'[a], draft'[a], RowsOf(AgentFor[a]), a)
<1> DEFINE S == RowsOf(AgentFor[a])
<1>1. \A row \in S : row.id \in Nat /\ row.id < nextId /\ row.ts \in Nat /\ row.ts <= clock
  BY RowsAreTyped
<1>2. CASE Walks(a) \/ Locks(a)
  BY <1>2 DEF Walks, Locks, Knows
<1>3. CASE Stamps(a)
  <2>1. pc'[a] = "read" /\ draft'[a].ts = clock
    BY <1>3, DraftRowIs DEF Stamps
  <2> QED
    BY <1>1, <2>1 DEF Knows
<1>4. CASE Reads(a)
  <2>1. pc[a] = "read" /\ pc'[a] = "insert" /\ draft'[a].ts = draft[a].ts
        /\ draft'[a].prev = LastHash(S)
    BY <1>4, DraftRowIs DEF Reads
  <2> QED
    BY <2>1 DEF Knows
<1>5. CASE Inserts(a)
  <2>1. pc[a] = "insert" /\ pc'[a] = "commit"
    BY <1>5 DEF Inserts
  <2>2. draft'[a].id = nextId /\ draft'[a].est = Stored(CostFor[a])
        /\ draft'[a].ts = draft[a].ts /\ draft'[a].prev = draft[a].prev
        /\ draft'[a].hash = RowHash(draft[a].prev, a, CostFor[a], draft[a].ts)
    BY <1>5, DraftRowIs DEF Inserts
  <2>3. draft'[a].hash = RowHash(draft'[a].prev, a, CostFor[a], draft'[a].ts)
    BY <2>2
  <2> QED
    BY <1>1, <2>1, <2>2, <2>3 DEF Knows
<1>6. CASE Commits(a)
  BY <1>6 DEF Commits, Knows
<1> QED
  BY <1>2, <1>3, <1>4, <1>5, <1>6 DEF Advances

LEMMA InitChains == Init => AllKnow /\ Chains
<1> SUFFICES ASSUME Init PROVE AllKnow /\ Chains
  OBVIOUS
<1>1. \A g : RowsOf(g) = {}
  BY DEF Init, RowsOf
<1> QED
  BY <1>1 DEF Init, AllKnow, Knows, Chains, Chain, Linked, Ordered

LEMMA ChainsStay == Typed /\ Excludes /\ AllKnow /\ Chains /\ [Next]_vars => AllKnow' /\ Chains'
<1> SUFFICES ASSUME Typed, Excludes, AllKnow, Chains, [Next]_vars PROVE AllKnow' /\ Chains'
  OBVIOUS
<1>1. CASE Quiet
  <2>1. \A g : RowsOf(g)' = RowsOf(g)
    BY <1>1, RowsKept DEF Quiet
  <2> QED
    BY <1>1, <2>1 DEF Quiet, AllKnow, Chains
<1>2. ASSUME NEW a \in Appends, Advances(a), ~Commits(a)
      PROVE  AllKnow' /\ Chains'
  <2>1. UNCHANGED table
    BY <1>2 DEF Advances, Walks, Locks, Stamps, Reads, Inserts
  <2>2. \A g : RowsOf(g)' = RowsOf(g)
    BY <2>1, RowsKept
  <2>3. Knows(pc'[a], draft'[a], RowsOf(AgentFor[a]), a)
    BY <1>2, <2>1, KnowsMore DEF AllKnow
  <2>4. \A b \in Appends \ {a} : pc'[b] = pc[b] /\ draft'[b] = draft[b]
    BY <1>2 DEF Advances, Others
  <2> QED
    BY <2>2, <2>3, <2>4 DEF AllKnow, Chains
<1>3. ASSUME NEW a \in Appends, Advances(a), Commits(a)
      PROVE  AllKnow' /\ Chains'
  <2> DEFINE S == RowsOf(AgentFor[a])
  <2>1. Knows("commit", draft[a], S, a)
    BY <1>3 DEF AllKnow, Commits
  <2>2. AgentFor[a] \in Agents
    BY AuditAssumption
  <2>3. Chain(S)
    BY <2>2 DEF Chains
  <2>4. draft[a].op = a /\ draft[a].id \in Int /\ draft[a].ts \in Int
    BY AuditAssumption DEF Typed, DraftOK, IsDraft, Counters
  <2>5. \A row \in S : row.id \in Int /\ row.ts \in Int
    BY RowsAreTyped
  <2>6. Sealed(draft[a])
    BY <2>1, <2>4 DEF Knows, Sealed
  <2>7. Chain(S \union {draft[a]})
    BY <2>1, <2>3, <2>4, <2>5, <2>6, ChainGrows DEF Knows
  <2>8. \A g : RowsOf(g)' = IF g = AgentFor[a] THEN S \union {draft[a]} ELSE RowsOf(g)
    BY <1>3, RowsGrow
  <2>9. Chains'
    BY <2>7, <2>8 DEF Chains
  <2>10. ASSUME NEW b \in Appends
         PROVE  Knows(pc'[b], draft'[b], RowsOf(AgentFor[b])', b)
    <3>1. CASE pc'[b] \notin {"read", "insert", "commit"}
      BY <3>1 DEF Knows
    <3>2. CASE pc'[b] \in {"read", "insert", "commit"}
      <4>1. b # a
        BY <3>2, <1>3 DEF Commits
      <4>2. pc'[b] = pc[b] /\ draft'[b] = draft[b]
        BY <4>1, <1>3 DEF Advances, Others
      <4>3. AgentFor[b] # AgentFor[a]
        BY <3>2, <4>1, <4>2, <1>3 DEF Excludes, LockKey, Commits, Locked
      <4>4. RowsOf(AgentFor[b])' = RowsOf(AgentFor[b])
        BY <2>8, <4>3
      <4> QED
        BY <4>2, <4>4 DEF AllKnow
    <3> QED
      BY <3>1, <3>2
  <2> QED
    BY <2>9, <2>10 DEF AllKnow
<1> QED
  BY <1>1, <1>2, <1>3, StepForms

\* The inductive invariant: appends of one agent exclude each other from the
\* lock to the commit, the holder knows the end of the chain it extends, and
\* every chain is linked, ordered in time and sealed.
LogInvariant == Typed /\ Excludes /\ AllKnow /\ Chains

THEOREM LogInvariantHolds == Spec => []LogInvariant
<1>1. Init => LogInvariant
  BY InitTyped, InitExcludes, InitChains DEF LogInvariant
<1>2. LogInvariant /\ [Next]_vars => LogInvariant'
  BY TypedStays, ExcludesStays, ChainsStay DEF LogInvariant
<1> QED
  BY <1>1, <1>2, PTL DEF Spec

LEMMA RowsBelong == Typed => \A row \in table : AgentOfRow(row) \in Agents
BY AuditAssumption DEF Typed, RowOK, AgentOfRow

\* Chains never fork: each row continues the row before it, however the
\* appends interleave and whichever are rolled back.
THEOREM ChainsNeverFork == Spec => []ChainIntact
<1>1. LogInvariant => ChainIntact
  <2> SUFFICES ASSUME LogInvariant, NEW row \in table
               PROVE  LinkHolds(row, RowsOf(AgentOfRow(row)))
    BY DEF ChainIntact
  <2>1. AgentOfRow(row) \in Agents /\ row \in RowsOf(AgentOfRow(row))
    BY RowsBelong DEF LogInvariant, RowsOf
  <2> QED
    BY <2>1 DEF LogInvariant, Chains, Chain, Linked
<1> QED
  BY <1>1, LogInvariantHolds, PTL

\* Timestamps never go back along a chain, because they are taken under the
\* lock.
THEOREM StampsFollowChain == Spec => []StampsInOrder
<1>1. LogInvariant => StampsInOrder
  <2> SUFFICES ASSUME LogInvariant, NEW r \in table, NEW q \in table,
                      AgentOfRow(r) = AgentOfRow(q), r.id < q.id
               PROVE  r.ts <= q.ts
    BY DEF StampsInOrder
  <2>1. AgentOfRow(r) \in Agents /\ r \in RowsOf(AgentOfRow(r)) /\ q \in RowsOf(AgentOfRow(r))
    BY RowsBelong DEF LogInvariant, RowsOf
  <2> QED
    BY <2>1 DEF LogInvariant, Chains, Chain, Ordered
<1> QED
  BY <1>1, LogInvariantHolds, PTL

\* The two roundings agree but on half a cent.
NoHalfCents == \A a \in Appends : CostFor[a] % Cent # Half

LEMMA RoundingsAgree ==
    ASSUME NEW x \in Nat, x % Cent # Half
    PROVE  Quantized(Stored(x)) = Quantized(x)
<1>1. Stored(x) = ((x + 5) \div 10) * 10
  BY DEF Stored, RoundHalfUp, Half, Cent
<1>2. Quantized(x) = Stored(x)
  BY <1>1 DEF Quantized, Half, Cent
<1>3. \A y \in Int : Quantized(y * 10) = y * 10
  BY DEF Quantized, Half, Cent
<1> QED
  BY <1>1, <1>2, <1>3

\* An honest chain verifies at every moment, for costs that are not half a
\* cent over a whole number of cents.
THEOREM HonestLogVerifies ==
    ASSUME NoHalfCents
    PROVE  Spec => []HonestChainVerifies
<1>1. \A a \in Appends : Quantized(Stored(CostFor[a])) = Quantized(CostFor[a])
  BY RoundingsAgree, AuditAssumption DEF NoHalfCents
<1>2. LogInvariant => HonestChainVerifies
  <2> SUFFICES ASSUME LogInvariant, NEW g \in Agents, NEW row \in RowsOf(g)
               PROVE  LinkHolds(row, RowsOf(g)) /\ HashHolds(row)
    BY DEF HonestChainVerifies, VerifyChain
  <2>1. LinkHolds(row, RowsOf(g)) /\ Sealed(row)
    BY DEF LogInvariant, Chains, Chain, Linked
  <2>2. row.op \in Appends
    BY DEF LogInvariant, Typed, RowsOf, RowOK
  <2>3. Fields(row.op, row.est, row.ts) = Fields(row.op, CostFor[row.op], row.ts)
    BY <1>1, <2>1, <2>2 DEF Fields, Sealed
  <2> QED
    BY <2>1, <2>3 DEF HashHolds, Sealed, RowHash
<1> QED
  BY <1>2, LogInvariantHolds, PTL

-----------------------------------------------------------------------------
(* The log implements its promise                                           *)

HasLast(S) == S = {} \/ \E row \in S : IsLast(row, S)

\* Every chain has an end.
Ended == \A g \in Agents : HasLast(RowsOf(g))

\* What a commit finds: its row belongs at the end of its chain.
LEMMA CommitExtends ==
    ASSUME LogInvariant, NEW a \in Appends, Commits(a)
    PROVE  LET S == RowsOf(AgentFor[a])
               d == draft[a]
           IN  /\ AgentFor[a] \in Agents
               /\ d.op = a /\ d.id \in Int /\ d.ts \in 0..MaxTime
               /\ \A row \in S : row.id \in Int /\ row.id < d.id
                                 /\ row.ts \in Nat /\ row.ts <= d.ts
               /\ d.prev = LastHash(S)
               /\ d.hash = RowHash(d.prev, a, CostFor[a], d.ts)
               /\ \A g : RowsOf(g)' = IF g = AgentFor[a] THEN S \union {d} ELSE RowsOf(g)
<1>1. AgentFor[a] \in Agents /\ Typed
  BY AuditAssumption DEF LogInvariant
<1>2. draft[a].op = a /\ draft[a].id \in Int /\ draft[a].ts \in 0..MaxTime
  BY <1>1, AuditAssumption DEF Typed, DraftOK, IsDraft, Counters
<1>3. Knows("commit", draft[a], RowsOf(AgentFor[a]), a)
  BY DEF LogInvariant, AllKnow, Commits
<1>4. \A row \in RowsOf(AgentFor[a]) : row.id \in Int /\ row.ts \in Nat
  BY <1>1, RowsAreTyped
<1>5. \A g : RowsOf(g)' = IF g = AgentFor[a] THEN RowsOf(AgentFor[a]) \union {draft[a]}
                          ELSE RowsOf(g)
  BY <1>1, RowsGrow
<1> QED
  BY <1>1, <1>2, <1>3, <1>4, <1>5 DEF Knows

LEMMA EndMoves ==
    ASSUME NEW S, NEW new, new.id \in Int,
           \A row \in S : row.id \in Int /\ row.id < new.id
    PROVE  /\ HasLast(S \union {new})
           /\ ChainEnd(S \union {new}) = [ts |-> new.ts, hash |-> new.hash]
<1> DEFINE T == S \union {new}
           last == CHOOSE row \in T : IsLast(row, T)
<1>1. IsLast(new, T)
  BY DEF IsLast
<1>2. last \in T /\ IsLast(last, T)
  BY <1>1
<1>3. last = new
  BY <1>2 DEF IsLast
<1>4. ChainEnd(T) = [ts |-> last.ts, hash |-> last.hash]
  BY DEF ChainEnd
<1> QED
  BY <1>1, <1>3, <1>4 DEF HasLast

\* The end of a chain is that of one of its rows, if it has any.
LEMMA EndIs ==
    ASSUME NEW S, HasLast(S)
    PROVE  /\ ChainEnd(S).hash = LastHash(S)
           /\ ChainEnd(S).ts = 0 \/ \E row \in S : ChainEnd(S).ts = row.ts
<1> DEFINE last == CHOOSE row \in S : IsLast(row, S)
<1>1. CASE S = {}
  BY <1>1 DEF ChainEnd, LastHash
<1>2. CASE S # {}
  <2>1. last \in S
    BY <1>2 DEF HasLast
  <2>2. ChainEnd(S) = [ts |-> last.ts, hash |-> last.hash] /\ LastHash(S) = last.hash
    BY <1>2 DEF ChainEnd, LastHash
  <2> HIDE DEF last
  <2> QED
    BY <2>1, <2>2
<1> QED
  BY <1>1, <1>2

LEMMA EndedHolds == Spec => []Ended
<1>1. Init => Ended
  BY DEF Init, Ended, HasLast, RowsOf
<1>2. LogInvariant /\ Ended /\ [Next]_vars => Ended'
  <2> SUFFICES ASSUME LogInvariant, Ended, [Next]_vars PROVE Ended'
    OBVIOUS
  <2>1. CASE UNCHANGED table
    BY <2>1, RowsKept DEF Ended
  <2>2. ASSUME NEW a \in Appends, Commits(a)
        PROVE  Ended'
    <3>1. HasLast(RowsOf(AgentFor[a]) \union {draft[a]})
      BY <2>2, CommitExtends, EndMoves
    <3> QED
      BY <2>2, <3>1, CommitExtends DEF Ended
  <2> QED
    BY <2>1, <2>2, StepForms DEF LogInvariant, Quiet, Advances, Walks, Locks, Stamps,
       Reads, Inserts
<1> QED
  BY <1>1, <1>2, LogInvariantHolds, PTL DEF Spec

RowsSeen == {Recorded(row) : row \in table}
EndsSeen == [g \in Agents |-> ChainEnd(RowsOf(g))]

\* A commit is the step that records, every other step is none.
LEMMA StepsOfLog ==
    LogInvariant /\ Ended /\ [Next]_vars => [Promised!Next]_<<RowsSeen, EndsSeen>>
<1> SUFFICES ASSUME LogInvariant, Ended, [Next]_vars
             PROVE  [Promised!Next]_<<RowsSeen, EndsSeen>>
  OBVIOUS
<1>1. CASE UNCHANGED table
  <2>1. \A g : RowsOf(g)' = RowsOf(g)
    BY <1>1, RowsKept
  <2> QED
    BY <1>1, <2>1 DEF RowsSeen, EndsSeen
<1>2. ASSUME NEW a \in Appends, Commits(a)
      PROVE  Promised!Next
  <2> DEFINE g == AgentFor[a]
             S == RowsOf(g)
             d == draft[a]
             h == RowHash(LastHash(S), a, CostFor[a], d.ts)
  <2>1. /\ g \in Agents /\ d.op = a /\ d.id \in Int /\ d.ts \in 0..MaxTime
        /\ \A row \in S : row.id \in Int /\ row.id < d.id
                          /\ row.ts \in Nat /\ row.ts <= d.ts
        /\ d.prev = LastHash(S) /\ d.hash = h
        /\ \A k : RowsOf(k)' = IF k = g THEN S \union {d} ELSE RowsOf(k)
    BY <1>2, CommitExtends
  <2>2. table' = table \union {d}
    BY <1>2 DEF Commits
  <2>3. \A row \in table : row.op # a
    BY <1>2 DEF LogInvariant, Typed, RowOK, Commits
  <2> HIDE DEF d, h
  <2>4. HasLast(S)
    BY <2>1 DEF Ended
  <2>5. EndsSeen[g].hash = LastHash(S) /\ EndsSeen[g].ts <= d.ts
    <3>1. EndsSeen[g] = ChainEnd(S)
      BY <2>1 DEF EndsSeen
    <3> QED
      BY <2>1, <2>4, <3>1, EndIs
  <2>6. RowsSeen' = RowsSeen \union
            {[op |-> a, ts |-> d.ts, prev |-> LastHash(S), hash |-> h]}
    BY <2>1, <2>2 DEF RowsSeen, Recorded
  <2>7. EndsSeen' = [EndsSeen EXCEPT ![g] = [ts |-> d.ts, hash |-> h]]
    <3>1. ChainEnd(S \union {d}) = [ts |-> d.ts, hash |-> h]
      BY <2>1, EndMoves
    <3>2. \A k \in Agents : EndsSeen'[k] = IF k = g THEN [ts |-> d.ts, hash |-> h]
                                           ELSE EndsSeen[k]
      BY <2>1, <3>1 DEF EndsSeen
    <3> QED
      BY <3>2 DEF EndsSeen
  <2>8. Promised!Record(a, d.ts)
    <3>1. \A row \in RowsSeen : row.op # a
      BY <2>3 DEF RowsSeen, Recorded
    <3>2. h = RowHash(EndsSeen[g].hash, a, CostFor[a], d.ts)
      BY <2>5 DEF h
    <3>3. /\ \A row \in RowsSeen : row.op # a
          /\ EndsSeen[g].ts <= d.ts
          /\ RowsSeen' = RowsSeen \union
                {[op |-> a, ts |-> d.ts, prev |-> EndsSeen[g].hash,
                  hash |-> RowHash(EndsSeen[g].hash, a, CostFor[a], d.ts)]}
          /\ EndsSeen' = [EndsSeen EXCEPT ![g] =
                [ts |-> d.ts, hash |-> RowHash(EndsSeen[g].hash, a, CostFor[a], d.ts)]]
      BY <2>5, <2>6, <2>7, <3>1, <3>2
    <3> QED
      BY <3>3 DEF Promised!Record, RowsSeen, EndsSeen
  <2> QED
    BY <2>1, <2>8 DEF Promised!Next
<1> QED
  BY <1>1, <1>2, StepForms DEF LogInvariant, Quiet, Advances, Walks, Locks, Stamps,
     Reads, Inserts

\* The hash chain implements the promise of an append-only log: every append
\* takes effect at its commit, at the end of the chain as it stands at that
\* moment, for any number of appends, any pools and any digest.
THEOREM LogIsAtomic == Spec => ImplementsDecisionLog
<1>1. Init => Promised!Init
  BY DEF Init, Promised!Init, RowsOf, ChainEnd
<1>2. LogInvariant /\ Ended /\ [Next]_vars
      => [Promised!Next]_<<{Recorded(row) : row \in table},
                           [g \in Agents |-> ChainEnd(RowsOf(g))]>>
  BY StepsOfLog DEF RowsSeen, EndsSeen
<1> QED
  BY <1>1, <1>2, LogInvariantHolds, EndedHolds, PTL DEF Spec, ImplementsDecisionLog, Promised!Spec
=============================================================================
