------------------------------ MODULE AuditLog ------------------------------
(***************************************************************************)
(* audit.py: log_decision appends a row to the hash chain of its agent in  *)
(* a transaction that first takes an advisory lock; verify_chain reads the *)
(* rows of an agent and checks the chain.                                  *)
(*                                                                         *)
(* Each call of log_decision is an append; its row carries it as op, for   *)
(* the columns it sets unchanged: agent_id, and tool, decision and reason  *)
(* together as ContentFor, which two appends may have in common.  The table*)
(* holds the committed rows, the only ones another connection sees under   *)
(* READ COMMITTED.  The costs are modelled because two roundings meet in   *)
(* them: _fmt_cost's, in the hash, and the column's.                       *)
(***************************************************************************)
EXTENDS Money, FiniteSets

CONSTANTS
    Appends,        \* calls of log_decision
    Agents,         \* the agents they are for
    AgentFor,       \* agent of each append
    ContentFor,     \* tool_name, decision and reason of each append
    CostFor,        \* est_cost of each append
    KeyOf,          \* hashtext of the lock key of each agent; two may collide
    PoolOf,         \* the pool each append takes its connection from
    PoolSize,       \* connections of a pool
    MaxTime,        \* bound on the clock
    Genesis,        \* prev_hash of the first row of a chain
    Digest(_, _)    \* sha256 of a previous hash and the fields of a row

ASSUME AuditAssumption ==
    /\ AgentFor \in [Appends -> Agents]
    /\ ContentFor = [a \in Appends |-> ContentFor[a]]
    /\ CostFor \in [Appends -> Nat]
    /\ KeyOf = [g \in Agents |-> KeyOf[g]]
    /\ PoolOf = [a \in Appends |-> PoolOf[a]]
    /\ PoolSize \in Nat \ {0}
    /\ MaxTime \in Nat

VARIABLES
    table,      \* committed rows of audit_log
    nextId,     \* the sequence behind audit_log.id
    clock,      \* datetime.now
    pc,         \* where each append is suspended, or how it ended
    draft       \* the row each append is building

vars == <<table, nextId, clock, pc, draft>>

\* Mutant: the timestamp does not enter the hash.
UnstampedFields(op, cost, ts) ==
    [agent |-> AgentFor[op], content |-> ContentFor[op], est |-> Quantized(cost)]

\* Mutant: the cost enters the hash as it is (README, bug 2).
RawFields(op, cost, ts) ==
    [agent |-> AgentFor[op], content |-> ContentFor[op], est |-> cost, ts |-> ts]

Fields(op, cost, ts) ==
    [agent   |-> AgentFor[op],
     content |-> ContentFor[op],
     est     |-> Quantized(cost),
     ts      |-> ts]

\* Mutant: prev_hash does not enter the payload.
UnchainedHash(prev, op, cost, ts) == Digest(Genesis, Fields(op, cost, ts))

RowHash(prev, op, cost, ts) == Digest(prev, Fields(op, cost, ts))

AgentOfRow(row) == AgentFor[row.op]

RowsOf(g) == {row \in table : AgentOfRow(row) = g}

\* The last of a set of rows by id.
IsLast(row, S) == row \in S /\ \A other \in S : other.id <= row.id

\* SELECT row_hash ... ORDER BY id DESC LIMIT 1, or the genesis sentinel.
LastHash(S) ==
    IF S = {} THEN Genesis ELSE (CHOOSE row \in S : IsLast(row, S)).hash

NewDraft(a) ==
    [id |-> 0, op |-> a, est |-> 0, ts |-> 0, prev |-> Genesis, hash |-> Genesis]

Init ==
    /\ table = {}
    /\ nextId = 1
    /\ clock = 0
    /\ pc = [a \in Appends |-> "idle"]
    /\ draft = [a \in Appends |-> NewDraft(a)]

-----------------------------------------------------------------------------
\* Mutant: a lock of the session, not of the transaction.
LockedForEver == {"stamp", "read", "insert", "commit", "done"}

\* Mutant: the lock is released after the INSERT, before the transaction ends.
LockedToInsert == {"stamp", "read", "insert"}

\* Steps at which an append holds the advisory lock, and a connection.
Locked == {"stamp", "read", "insert", "commit"}
Connected == Locked \union {"lock"}

\* Mutant: a key for each call, not for each agent.
LockKeyOfCall(a) == a

LockKey(a) == KeyOf[AgentFor[a]]

Go(a, from, to) == pc[a] = from /\ pc' = [pc EXCEPT ![a] = to]

Call(a) ==
    /\ Go(a, "idle", "acquire")
    /\ UNCHANGED <<table, nextId, clock, draft>>

\* The appends that share the pool of a.  _get_pool may create several
\* pools, when it is first called concurrently, and each process and script
\* has its own.
PoolMates(a) == {b \in Appends : PoolOf[b] = PoolOf[a]}

\* pool.acquire waits for a free connection; BEGIN.
Acquire(a) ==
    /\ Go(a, "acquire", "lock")
    /\ Cardinality({b \in PoolMates(a) : pc[b] \in Connected}) < PoolSize
    /\ UNCHANGED <<table, nextId, clock, draft>>

\* pg_advisory_xact_lock waits for every other holder of the key.
Lock(a) ==
    /\ Go(a, "lock", "stamp")
    /\ \A b \in Appends \ {a} : LockKey(b) = LockKey(a) => pc[b] \notin Locked
    /\ UNCHANGED <<table, nextId, clock, draft>>

\* Mutant: ts is taken when the task is scheduled (README, bug 3).
StampEarly(a) ==
    /\ Go(a, "stamp", "read")
    /\ \E t \in 0..clock : draft' = [draft EXCEPT ![a].ts = t]
    /\ UNCHANGED <<table, nextId, clock>>

Stamp(a) ==
    /\ Go(a, "stamp", "read")
    /\ draft' = [draft EXCEPT ![a] = [@ EXCEPT !.ts = clock]]
    /\ UNCHANGED <<table, nextId, clock>>

Read(a) ==
    /\ Go(a, "read", "insert")
    /\ draft' = [draft EXCEPT
          ![a] = [@ EXCEPT !.prev = LastHash(RowsOf(AgentFor[a]))]]
    /\ UNCHANGED <<table, nextId, clock>>

\* The row of the INSERT; its id is the default of the column.
NewRow(a) ==
    [id   |-> nextId,
     op   |-> a,
     est  |-> Stored(CostFor[a]),
     ts   |-> draft[a].ts,
     prev |-> draft[a].prev,
     hash |-> RowHash(draft[a].prev, a, CostFor[a], draft[a].ts)]

\* Mutant: ids are not drawn from a sequence.
InsertSameId(a) ==
    /\ Go(a, "insert", "commit")
    /\ draft' = [draft EXCEPT ![a] = NewRow(a)]
    /\ UNCHANGED <<table, nextId, clock>>

\* INSERT: the id is drawn here and is not given back by a rollback.
Insert(a) ==
    /\ Go(a, "insert", "commit")
    /\ draft' = [draft EXCEPT ![a] = NewRow(a)]
    /\ nextId' = nextId + 1
    /\ UNCHANGED <<table, clock>>

\* The transaction ends: the row becomes visible and the lock is released.
Commit(a) ==
    /\ Go(a, "commit", "done")
    /\ table' = table \union {draft[a]}
    /\ UNCHANGED <<nextId, clock, draft>>

\* A statement fails, the column overflows, the connection or the client
\* dies: the server rolls back and releases the lock.
RollBack(a) ==
    /\ \E from \in Connected \union {"acquire"} : Go(a, from, "failed")
    /\ UNCHANGED <<table, nextId, clock, draft>>

\* The wall clocks of all processes that append agree, and are not set back.
Tick ==
    /\ clock < MaxTime
    /\ clock' = clock + 1
    /\ UNCHANGED <<table, nextId, pc, draft>>

Step(a) ==
    \/ Acquire(a) \/ Lock(a) \/ Stamp(a) \/ Read(a) \/ Insert(a) \/ Commit(a)

Next ==
    \/ \E a \in Appends : Call(a) \/ Step(a) \/ RollBack(a)
    \/ Tick

Spec == Init /\ [][Next]_vars

\* The server runs each statement, and grants a lock or a connection to a
\* waiter that could have it for ever.
Fairness == \A a \in Appends : WF_vars(Step(a))

FairSpec == Spec /\ Fairness

-----------------------------------------------------------------------------
(* verify_chain                                                             *)

Earlier(row, S) == {other \in S : other.id < row.id}

\* prev_hash is the row_hash of the row before, or the genesis sentinel.
LinkHolds(row, S) == row.prev = LastHash(Earlier(row, S))

\* The hash recomputed from the columns is the stored one.
HashHolds(row) == row.hash = RowHash(row.prev, row.op, row.est, row.ts)

\* The loop compares each row with the one before it, so it stops at the
\* first row that fails by itself: True exactly when none does.
VerifyChain(S) == \A row \in S : LinkHolds(row, S) /\ HashHolds(row)

-----------------------------------------------------------------------------
(* What the log promises                                                    *)

Recorded(row) == [op |-> row.op, ts |-> row.ts, prev |-> row.prev, hash |-> row.hash]

\* Time and hash of the last row of a chain.
ChainEnd(S) ==
    IF S = {} THEN [ts |-> 0, hash |-> Genesis]
    ELSE LET last == CHOOSE row \in S : IsLast(row, S)
         IN  [ts |-> last.ts, hash |-> last.hash]

Promised == INSTANCE DecisionLog WITH
    Times    <- 0..MaxTime,
    HashOf   <- LAMBDA prev, op, ts : RowHash(prev, op, CostFor[op], ts),
    recorded <- {Recorded(row) : row \in table},
    tail     <- [g \in Agents |-> ChainEnd(RowsOf(g))]

-----------------------------------------------------------------------------
TypeOK ==
    /\ nextId \in Nat \ {0}
    /\ clock \in 0..MaxTime
    /\ pc \in [Appends -> {"idle", "acquire", "done", "failed"} \union Connected]
    /\ DOMAIN draft = Appends
    /\ \A a \in Appends : draft[a].op = a /\ draft[a].id \in 0..(nextId - 1)
                          /\ draft[a].ts \in 0..clock
    /\ \A row \in table : row.op \in Appends /\ row = draft[row.op]

\* Every row continues the row before it in its agent's chain, whatever
\* appends ran concurrently and whichever rolled back: no two rows claim the
\* same predecessor, and the ids, drawn outside the snapshot, order the rows
\* as their hashes do.
ChainIntact == \A row \in table : LinkHolds(row, RowsOf(AgentOfRow(row)))

\* Timestamps never go back along a chain.
StampsInOrder ==
    \A r, q \in table :
        AgentOfRow(r) = AgentOfRow(q) /\ r.id < q.id => r.ts <= q.ts

\* An append takes effect in one step, its commit: the tail it read and the
\* time it took are still the end of the chain when its row becomes visible,
\* and an append that fails on the way leaves no trace.
ImplementsDecisionLog == Promised!Spec

\* The chain of every agent verifies at every moment: an honest log, read
\* while appends are under way, raises no alarm.
HonestChainVerifies == \A g \in Agents : VerifyChain(RowsOf(g))

\* Every append ends: waiting for a connection or for the lock never closes
\* a cycle, because an append that waits for the lock already has its
\* connection and the holder needs no other.
EveryAppendEnds ==
    \A a \in Appends : pc[a] = "acquire" ~> pc[a] \in {"done", "failed"}
=============================================================================
