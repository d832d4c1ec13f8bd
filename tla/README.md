# Agent Spending Governor: specifications and proofs

This directory specifies the governor in TLA+: the ledger of `app/governance.py`,
the governed tools of `app/mcp_server.py` that use it concurrently, the
hash-chained log of `app/audit.py` with what tampering it reveals, and the
dashboard of `app/dashboard.py` with the page that polls it and the scorecard
script it starts. TLC checks the specifications on small instances; TLAPS proves
for every value of the constants the safety of all of them, that the tools implement
an escrow account and change the table only as the ledger allows, that the log
implements an append in one step, and that calls and their reservations end.

Run TLC with `tlc -config <run>.cfg <module>.tla` and the proofs with
`tlapm <module>.tla`. `PROJECT.json` lists the runs, and gives for every
definition the lines of the code it models.

## The system

| Part | State | Operations | Correct when |
|---|---|---|---|
| agents ledger (`governance.py`, `schema.sql`) | `agents` (cap, spent, reserved, status), `agent_permissions` | `reserve`, `settle`, `refund`, `revoke`, `activate`, each one UPDATE | no row exceeds its cap; the two sums follow the calls; a WHERE clause never lets a CHECK fail |
| governed tools (`mcp_server.py`) | local variables of each coroutine | `search`, `write_record`, `disburse`: reserve, run, settle or refund, log | a call is charged once or not at all, its reservation ends, its audit row tells what happened |
| audit log (`audit.py`) | `audit_log`, an advisory lock per agent | `log_decision`, `verify_chain` | chains do not fork, times do not go back, an honest chain verifies, a changed one does not, no append waits for ever |
| error log (`errors.py`) | `error_log` | `log_error` | never raises; leaves a trace of a failed call |
| dashboard API (`dashboard.py`) | `_cached_scorecard` | revoke, activate, status, agents, audit, scorecard | no broken chain escapes a verdict, although chains are read one by one |
| dashboard page (`index.html`) | what it displays, timers | polling, the revoke button | comes to show what is so, whatever answers overtook each other |
| pool and application (`db.py`, `main.py`) | `_pool` | start, stop, `get_pool` | a stop waits for requests, and ends |
| scorecard script (`adversarial_scorecard.py`) | its verdicts; rows of the tables, `demo-agent-analyst`'s among them | eight categories, one after the other | reports FAILED only if something interfered, charges the analyst nothing, leaves it active |
| demo, probe, tests, packaging | none of their own | clients of the parts above | |

**How they interact.** An MCP client calls a tool; the tool calls `reserve`, and
after it ran `settle`, or `refund` when something raised; each of these appends
to the audit log by `_fire_log`. Everything goes through one Postgres database in
autocommit, except `log_decision`, which is a transaction. The server of the
tools and the dashboard are different processes that share only the database.
Coroutines of one process interleave at every `await`, which is to say at every
statement. Opening the page GETs `/api/scorecard`; when no scorecard is cached
its handler runs the script as a process and waits for its output. The script is
a third user of the database: it revokes and activates `demo-agent-analyst`,
whom operators and other clients use too, and breaks the chain of an agent it
has made.

**What is hard.** Nothing holds a lock across two statements, so between
`reserve` and `settle` an agent can be revoked, other calls can settle, and the
process can die. `settle` names an amount and not a reservation. A statement may
commit and its reply be lost. A denial is explained by reading the database
again. Decisions and their audit rows are separate transactions. `/api/status` reads the
chains one after the other while rows are changed and put right. Answers reach the page in any order,
runs of the script meet each other and leave calls behind, and the process may be killed at any point of
them. Amounts of any
precision meet columns of two decimal places, and are rounded in two ways. The
list of hazards in `PROJECT.json` has the line of each and what covers it.

**Postgres, as the models see it.** The default level READ COMMITTED. An UPDATE
evaluates its WHERE clause on a snapshot, locks the row it found, and if the row
has changed since evaluates the conditions on *that row* again. For the UPDATEs
of `settle`, `revoke` and `activate`, which read nothing else, this makes one
atomic step at the moment of the lock. `reserve` also has a subquery on
`agent_permissions`, whose rows stay those of the snapshot: it takes two steps,
`ReserveScan` and `ReserveWrite` (or `ReserveRecheckFails`).

## Modules

| Module | Models | Correspondence |
|---|---|---|
| `Money` | the two roundings | amounts are integers in mills, a tenth of a cent, so that half a cent exists. `Stored`: assignment to `NUMERIC(12,2)`, half away from zero. `Quantized`: `_fmt_cost`, half to even |
| `LedgerRows` | a row of `agents` | constant-level: `ReserveWhere`, `Permits`, `SettleWhere` are the WHERE clauses, `ReservedRow`, `SettledRow` the SET lists, `RowChecks` the constraints, `AgentReason` and `PermissionReason` the two SELECTs of `_reserve_denial_reason` |
| `Ledger` | the table under arbitrary callers | `rows`; `Reserve`, `Settle`, `Revoke`, `Activate`. An UPDATE that breaks a CHECK is not a step: it raises and changes nothing |
| `Totals` | the sum of the costs of a set of calls | as a cardinality, because the provers cannot use a fold by induction |
| `Escrow` | the abstract account | each call's cost is `none`, `held`, `charged` or `released`; what is held and charged stays within the cap. Models no code |
| `GovernedCalls` | the tools, concurrently | one `pc` per call, whose values are the statements at which the coroutine is suspended; `entry` is what `_fire_log` will append, `told` the reason in the answer, `fate` a history variable. The three tools share their actions: they differ in `Price` and in `BadAmount` |
| `DecisionLog` | the abstract log | a decision is recorded in one step at the end of its agent's chain. Models no code |
| `AuditLog` | `log_decision` and `verify_chain` | one `pc` per append: wait for a connection, for the lock, then stamp, read, insert, commit. `table` is what is committed; `Promised` reads the rows and ends of `DecisionLog` off it |
| `AuditTampering` | `verify_chain` on a changed table | constant-level, at each state of `AuditLog` in which every append has ended: `Round` is an iteration of the loop and `Walk` what the loop returns, `Passes` and `Expected` what it asks of a row, `Edited`, `Inserted`, `Deleted`, `Retold` what may have been done to the rows, with hashes of the table, or computed anew (`SealedRow`) |
| `Scorecard` | the script | one `pc` per run; categories whose verdicts are not followed are one step (`BreachAndInject`, `RaceAndNegate`, `CallMalformed`), 3, 4 and 7 a step per statement; `Fail` is the except clauses, `Stray` the calls of category 4 that an exception left behind. `flaws` says where a chain does not verify. `setBy` and `calm` are history |
| `Dashboard` | application, endpoints and page | extends `Scorecard`. `ask`, `cache`, `card`: `/api/scorecard`; `req`: the other requests, with the chains still to verify and, as history, those broken all along; `shown`: the page; `app`: lifespan. `plan` says what may still happen |
| `MCLedger`, `MCGovernedCalls`, `MCAuditLog`, `MCDashboard` | the instances TLC checks | |
| `LedgerRowsTheorems`, `LedgerTheorems`, `GovernedCallsTheorems`, `PromiseTheorems`, `AuditLogTheorems`, `AuditTamperingTheorems`, `AuditListTheorems`, `DashboardTheorems` | the proofs | |

`GovernedCalls` takes the log as one step (`Log`, or `LogFails`): that appends are
atomic and in the order of their ids is what `AuditLog` shows, agent by agent.
What may go wrong is chosen by two constants. `Faults`: `"statement"` (any
statement may fail without effect), `"reply"` (a committed UPDATE may look
failed), `"log"` (an append or a `log_error` may fail), `"crash"`. `Admin`:
revoking, activating, editing permissions. Two failures need no fault: a statement
that would break a CHECK, and an audit row whose cost does not fit its column.
The clock of `AuditLog` is one for all processes and is not set back: that their
wall clocks agree is assumed, and `StampsInOrder` rests on it.

In `AuditTampering` changes of the table are not steps: what `verify_chain`
answers depends on the list of rows alone, so each property quantifies over the
changes of the lists the honest log can have. `Digest` is the pairing of its
arguments, free of collisions; the payload's separator and text are not modelled,
and `id`, which no hash covers, is not among the columns compared.

In `Dashboard` a chain is what verify_chain makes of it: `flaws` is the set of places
where it does not verify, relative to the row that category 7 expects to be named
(`Rows`: that row, one ahead of it, one behind it), and the chain verifies if there are
none. Somebody's change adds a place (`Break`), editing or putting a row back takes one
away (`PutRight`), and category 7 adds its own. The script's verdict is BLOCKED if
the first place is the expected one (`Verify`). A `plan` of `Workloads` bounds page loads,
operators' posts, calls that use up the analyst's cap, changes of rows, failing
statements, stops and kills.

Handlers that catch `Exception` are followed exactly: an exception out of
`settle` goes to `refund`, an exception out of anything else to `log_error`, and
a cancellation to neither.

## What the runs check

| Run | Instance | Shows |
|---|---|---|
| `ledger` | two agents, caps 0, 2 and 3 cents, amounts of both signs below, at and above the half cent | the WHERE clauses keep the CHECKs (`ReserveNeverRaises`, `OnlyOverrunRaises`), the diagnosis is exact, a refund undoes a reserve |
| `calls` | three disbursements that do not all fit one cap, and one of nothing; revoke, activate, permission changes, failing statements | the sum reserved is that of the calls (`ReservedIsHeld`; `calls_faults` has the sum spent), a held call can always finish, the log matches the money and has the one row of each call that returned ok or denied (`OneRowPerCall`), a stranded reservation leaves a trace, and the whole implements `Escrow` |
| `calls_faults` | the same three disbursements; lost replies, failing statements and logs, crashes, a revocation | charges stay exact (`SpentIsCharged`), `reserved` never exceeds what is held, at most one audit row for each call (`OneRowPerCall`), what the calls that answered ok report as charged stays within the cap (`OkWithinCap`), only rows of refunds can be untrue (`OnlyRefundRowsErr`), every write of the table is an UPDATE of `Ledger` (`WritesAreLedgers`) |
| `calls_live` | a search, a disbursement of 0.014, and a call of an unknown agent for more than a column holds; permission changes, failing logs | a suspended call can go on (`NeverStuck`), every call returns, a reservation that the row covers all along ends (`EveryHoldEnds`), and each sum of the row is within half a cent of that of the calls for every UPDATE that wrote it (`DriftIsBounded`) |
| `audit` | three appends for one agent and one for another, two processes, a pool of two connections for three of them, rollbacks; costs 0 and 10 for changed rows | chains never fork, timestamps are ordered, the chain verifies at every moment, every append ends, and takes effect in one step (`ImplementsDecisionLog`); the loop names the row an edit, insertion or deletion shows at (`EditIsNamed`, `InsertionIsNamed`, `DeletionIsNamed`), it means what it is to mean (`WalkAgrees`), and the last hash pins the chain (`TailPinsChain`) |
| `dashboard` | seven plans: two pages with an operator and a fault; one run with an operator, another client, two faults and a stop; a page reopened after a kill; toggling; a page watching a run and two changes of rows; verdicts of two requests while chains break and are put right | a run nobody interferes with reports BLOCKED for 3, 4 and 7 (`CalmRunsPass`) and costs the analyst nothing (`CalmRunsChargeNothing`), a run that ends leaves the analyst active (`RunsRestore`), a chain broken all along escapes no verdict (`VerdictIsTrue`), the page catches up (`PageConverges`), a stop ends (`StopEnds`) |

Six more runs each find a statement of the documentation violated; the traces are
the findings of `PROJECT.json`:

| Run | What is said | What happens |
|---|---|---|
| `settle_after_revoke` | README: "the reservation is cleared" | revoked in between, `settle` returns False, the tool answers ok without having been charged, and the reservation stays |
| `settle_reply_lost` | `refund`: "as if the tool never ran" | the settle had committed; its charge stays although the client gets an exception |
| `permission_window` | `reserve`: "There is no window between the check and the write" | a permission deleted while the UPDATE waits for the row is not noticed |
| `revocation_undone` | `revoke`: "immediately blocking all future reserve() calls"; README: "read-only dashboard" | opening the dashboard runs the scorecard, which activates the analyst at the end of category 4 although an operator has revoked it |
| `half_cent` | `refund`: "Releases reserved_amount back to the agent's headroom" | a disbursement of half a cent leaves a cent reserved |
| `audit_half_cent` | `_fmt_cost`: "identical at write and verify time" | half a cent above an even cent is hashed one way and stored another |

**Bounds, and why they are enough.** Prices are a few cents: only their order
with respect to the cap, the limits and each other matters. Two equal calls are
needed for one to settle with the other's reservation, a third for headroom to be
contended; three appends of one agent for a fork and a row after it. Permissions
range over none and one limit (`calls`: the limit lies between the costs and the
cap or below). In `calls_live` a disbursement of 0.014 alone reserves 0.01, which does not cover it;
with the search's cent in the row it does, until one of them ends: the condition of
`EveryHoldEnds` is met in some behaviours and fails in others. `MaxColumn` is chosen so that one
amount does not fit; the clock of
`AuditLog` is bounded by `MaxTime` = 1, enough for two times to differ. The log is
bounded by the calls themselves. A chain of three rows has a first, a middle and a
last one to change, and changed rows have one of two costs, `Amounts`; lists told
anew are no longer than the chain. `Replays` is 2 of the five calls of category 4:
one may find what the other does not, and be left behind by its exception. Two runs disturb each other, two requests
overtake each other, and one stray chain is enough to be overlooked; each plan
of `MCDashboard` lets a few of the things that may happen meet. Two of the calls of `calls`
and `calls_faults` are alike, and both use that symmetry. Runs set `CHECK_DEADLOCK FALSE` where all
calls may have ended; `ledger` never stops.

**Fairness.** `GovernedCalls!Fairness` is weak fairness of a call's steps: a
statement ends and the event loop resumes the coroutine. It is no promise to
start a call, to crash, revoke or change a permission. `EveryHoldEnds` needs agents
that stay active and no lost statement: the other runs show what happens
otherwise. It also has a condition of its own, that the row covers the reservation as
long as it is held: with 0.014 disbursed, `reserve` adds 0.01, `settle` looks for
`reserved >= 0.014`, finds no row, and the call answers ok with its hold left for ever.
Amounts of whole cents are always covered, and need no condition (`WholeHoldsEnd`). `AuditLog!Fairness` is weak fairness of an append's steps. `Dashboard!FairSpec` is weak fairness of the handlers, of each run of the
script, of the delivery of answers, of the page's timer, and of the end of a stop:
the event loop, the processes and the network go on. Nobody has to start the
process, open a page, intervene, or fail; and a run that dies is not restarted.
`PageConverges` therefore speaks of a process that is up from some moment on, and
`StopEnds` rests on statements being answered, in the end, with a result or an
error. Waiting for
a connection or for the lock is a disabled step, so weak fairness asks only that
a waiter which could go on for ever does so in the end; since the number of
appends is finite and each holder goes on, that is what Postgres and the pool
give.

## What is proved

Constants are arbitrary but for the named assumptions of the modules
(`LimitAssumption`, `LedgerAssumption`, `CallsAssumption`), which say what the
schema says of caps and limits, and that the calls are finitely many.

- `LedgerRowsTheorems`: rounding keeps whole cents, is monotone against a whole
  bound, and so a row that passes `reserve`'s WHERE clause passes the CHECKs. The
  argument is that the cap is a whole number of cents: rounding up a sum that is
  at most the cap cannot pass it. Also that a call adds to and takes from a total
  exactly its cost.
- `LedgerTheorems`: the five properties of run `ledger`, for all caps and amounts.
- `GovernedCallsTheorems`: `TypeOK` first, with the CHECKs in it. Then `Invariant`,
  which is inductive where the properties are not: it adds to the sums what each
  value of `pc` implies about `fate` (a call about to settle holds, a call about
  to log a settlement has been charged or was refused, ...), which calls have an
  audit row already, and what the pending `entry` says. One lemma, `RowsFollow`,
  carries the sums at any prices: each step changes a sum of the row as it changes the
  total of the calls, up to one rounding, but for a refund after a lost reply
  (`Taken`), which takes out of `reserved` what its own call does not hold any more.
  For whole cents nothing is rounded (`SumsFollow`). From `Invariant` follow
  `SpentIsCharged`, `ReservedAtMostHeld`, `OneRowPerCall` and `OnlyRefundRowsErr`
  with every fault allowed, and `ReservedIsHeld`, `HeldCallsCanFinish` and `AuditMatchesMoney` if
  no reply is lost. The theorems on sums assume prices of whole cents
  (`WholeCents`): run `half_cent` shows that they are false without it.
- `PromiseTheorems`: `Spec => ImplementsEscrow` for prices of whole cents and no
  lost reply. A reserve maps to `Hold`, a settle to `Charge`, a refund to
  `Release`, a revoke or activate to `SetStatus`, and everything else to a
  stutter. The step that needs an argument is `Hold`: the code compares the cap
  with the two sums of the row, the account with the costs of single calls, and
  they are equal by the invariant. Also `StrandedLeavesTrace`, if the logs take
  their rows: a call that raised is in the error log, and one that answered ok
  while it holds has a denied row.
  `Spec => WritesAreLedgers`, with every fault and any prices: the statements of a
  call are those of an instance of `Ledger` whose amounts are the costs of the calls,
  and nothing else writes the table, so `LedgerTheorems` speaks of the tools as well.
  `ChecksNeverFail` adds that no UPDATE of theirs breaks a CHECK, for whole cents.
  `OkStaysWithinCap`: with every fault allowed the calls that answered ok report no
  more than the cap, for whole cents. (An amount below half a cent reserves
  0.00, `settle` finds less reserved than it is to release, and the call answers ok
  without having been charged.) The
  sums of the row do not say so by themselves. A settle that is denied answers ok with
  its reservation still held, and a lost reply lets a refund take from `reserved`
  what another call holds, so `reserved` may be less than what is held and reserve
  grant more. `HoldsAreBacked` is the invariant that closes the argument: what
  `reserved` lacks has been charged for calls that no longer answer ok (`Overdrawn`),
  and so is in `spent`, which the cap bounds together with `reserved`.
  For prices of any fraction of a cent `DriftStaysBounded` proves `DriftIsBounded`, if
  no reply is lost: an UPDATE rounds by half a cent at most (`DriftGrows`), and the
  fates count the UPDATEs. For `spent` no condition is needed, whence
  `ChargesWithinCap`: whatever fails, an agent is charged no more than its cap and
  half a cent for each charge. `OkStaysNearCap` says the same of what calls report:
  whatever fails, those that answered ok exceed the cap by no more than half a cent
  for each UPDATE that may have rounded. Its invariant, `NearlyBacked`, is
  `HoldsAreBacked` up to these roundings, with a second one for each overdrawn call.
  Four statements of the documentation that runs find violated are proved under the
  condition that the trace of the run breaks, so the conditions are all that is
  missing: `FailedCallsAreNotCharged` if no reply is lost (an invariant follows the
  fate of a call through the handler: `NoneFailedCharged`),
  `NothingHeldNothingReserved` for whole cents, `GrantedUnderPermission` if
  permissions are not edited (`ScanStillTrue`: what the scan read stays so while the
  UPDATE waits), `OkClearsReservation` if nobody is revoked, no reply is lost and
  amounts are whole cents.
  Liveness: `EveryCallReturns`, with any faults and any administration, and
  `EveryHoldEnds`, if agents stay active and the database answers, at any amounts: a
  covered hold can be neither denied nor left (`HoldsStayRunning`). In whole cents every
  hold is covered and so every one ends (`WholeHoldsEnd`). `Left` counts the steps a call may still take; each step of its own lowers
  it (`StepsDescend`), no other raises it (`NoneAscends`), so a call does not stay for
  ever at any of its eight values (`Descends`), and these eight facts make a chain to
  the end. The provers take ENABLED as an unknown predicate. Both theorems therefore
  have `[]NeverStuck` as a hypothesis, that a suspended call can take a step, which
  TLC checks in run `calls_live`.
- `AuditLogTheorems`: `LogInvariant` says that appends of one agent exclude each
  other from the lock to the commit; that the holder of the lock knows the end of
  its chain (a stamp no earlier, then the last hash, then an id that is larger
  than all); and that every chain is linked, in order of time and sealed by its
  hashes. A commit extends such a chain to such a chain, and no other append can
  have written in between. `ChainIntact` and `StampsInOrder` follow.
  `HonestChainVerifies` needs costs that are not half a cent over (`NoHalfCents`),
  where the two roundings agree: run `audit_half_cent` shows it false otherwise.
  `LogIsAtomic` is the refinement of `DecisionLog`: a commit maps to `Record`, every
  other step, a rollback too, to a stutter. It needs that what the holder of the lock
  knows is still so at its commit, and that every chain has an end (`Ended`).
  Nothing is assumed of `Digest` or of `KeyOf`: lock keys that collide only make
  appends wait, and an honest chain does not rest on collisions being hard.
- `AuditTamperingTheorems`: `LogStaysHonest` adds to `LogInvariant` what a chain nobody
  has changed is, `Honest`: a finite set with a last row, no id and no hash twice, each
  row sealed by its hash and linked to the row before it; everything after is about
  lists of rows. An edit that keeps the hash breaks the row, because the digest
  binds every column (`GoodDigest`); one that does not breaks the link of the next.
  An inserted row either fails itself or takes the place of the predecessor that
  the next row names. Deleting rows leaves a row whose predecessor has another
  hash, because no two rows of a chain have the same one. `LastHashPinsChain` needs no
  induction over the length: that the last hash pins the chain is itself an
  invariant, and a commit, which adds one row, extends it by one (`PinGrows`: the
  same last hash, hence the same last row and the same hash before it).
  Assumed: costs that are not half a cent over, `GoodDigest` (no collisions, and
  no digest is the genesis sentinel).
- `AuditListTheorems`: `LoopNamesFirst`, that the loop of `verify_chain` gets through
  exactly the lists whose rows all pass and otherwise returns the first that does not.
  The loop is a recursive function, and induction over it is out of the provers'
  reach. Instead the proof writes down the state after each round in closed form
  (`StateAfter`: the first bad row if it has been met, else nothing and the hash of
  the row just read), shows that it solves the recursive equation, and takes the least
  round at which two solutions could differ (`LeastNumber`, by well-foundedness).
  `WalkAgrees` then needs that an edit or a deletion keeps the list in order of ids
  (`EditKeepsOrder`, `DeletionKeepsOrder`), so that the row before in the list is the
  last of the earlier ones in the chain (`RowBefore`). Nothing is assumed of `Digest`
  or of costs.
- `DashboardTheorems`: `TypeOK`, then `Unbegun` (a request nobody has looked at has
  no run), `OwnChains` (a run that has not begun category 7 has no agent, and so no
  chain, that others could change), `CalmPlaces` (a calm run finds the analyst active and
  with enough left up to category 3, revoked during the replay, and no call of its own
  on its way anywhere else: whoever writes the row in between spoils it) and
  `Surveyed` (a chain broken since the first SELECT is still to be verified or has been
  found; changes of rows only take chains out of `still`). From these follow
  `CalmRunsPass`, `CalmRunsChargeNothing`, `RunsRestore` and `VerdictIsTrue` for any
  number of runs, calls, requests and plans.
  `OnlyRunsUndoRevocations` says of every step that makes the analyst active whom an
  operator had revoked: it is an operator's activation, or the UPDATE at the end of
  category 4 of a run or in its except clause. So `RevocationHolds`, which run
  `revocation_undone` violates, is true as long as nobody loads the scorecard
  (`RevocationsHold`, with the invariant `NoRuns`): no other client, fault, stop or
  kill undoes a revocation. Assumed: `Replays` is
  positive, names of runs differ from the other writers' (`RunsAssumption`),
  agents without a row are others than those with one (`StraysAssumption`), and plans
  are of their type (`WorkloadsAssumption`).

Only model-checked: `NeverStuck`, because the provers do not look into ENABLED, and
the liveness properties `EveryAppendEnds`, `PageConverges` and `StopEnds`. An append
waits for connections and locks that any number of others hold, a verdict for any
number of chains: their termination is an induction over a set of unknown size,
which the provers cannot do in a temporal proof.

## What is not modelled

- The text of answers and log lines, the payload of tools (they are simulated in
  the code), parsing of the amount beyond number or not.
- `Decimal` values that are no finite number, which the code passes on to Postgres.
- The contents of hashes: `Digest` is a function without collisions.
- Layout, amounts and labels of the page, the list of audit rows it shows, the
  totals of `/api/status`. The statuses of agents other than the analyst.
- Inside the scorecard, the verdicts of categories 1, 2, 5, 6 and 8: they use agents
  nobody else knows, or calls that end before the database. `CalmRunsPass` does not speak
  of them. What they test is what `Ledger` and `GovernedCalls` check. Category 5 looks
  for an `allowed` row that `reserve` never writes, so it passes whatever happens.
- Changes of rows after which a chain verifies, such as the deletion of its last rows:
  `AuditTampering` has them, to `Dashboard` they are no change.
- `create_pool` failing at start (a call that has reserved finds its pool, so that
  `_get_pool` does not raise in a handler after it), `get_db` (no route uses it), `/health`.
- `mcp_demo.py`, four calls one after the other; `probe_overrun.py`, which inserts one
  audit row by hand and prints whether its time, costs and hash come back from the
  columns unchanged (the costs are `Stored` here, the time is taken to be); tests,
  packaging, and `models.py`, which is empty.

## Observations

Beyond the findings, the models show behaviour that no document denies:

- Rows deleted from the end of a chain, and a last row edited and sealed again,
  leave a chain that verifies. Only a copy of the last hash, kept elsewhere, tells
  (`TailPinsChain`). The comment in `schema.sql` that an edit invalidates "that row
  AND every subsequent row" is true of the chain, not of the rows: those after an
  edited row still pass by themselves, and `verify_chain` stops at the first.
- Two pages opened at the same time run the script twice. Each run may make the
  other report FAILED in category 3 or 4, and the scorecard of the one that ends
  last stays cached until the process ends.
- After the first scorecard `/api/status` reports a broken chain for good, that of
  the run's own agent, and stops there.
- Category 3 is reported as FAILED when the analyst has less than 10.00 left: the
  denial is then explained by the cap.
- A disbursement of 0.014 reserves 0.01, and `settle` finds less reserved than it is to
  release: the call answers ok uncharged, and its cent stays reserved for ever, unless
  another call of the agent holds enough beside it (`EveryHoldEnds`).
- After an exception out of category 4's `gather` the other calls are still on their
  way when the except clause activates the analyst: they are then carried out and
  charged (`Stray`). Without an exception none is left (`CalmRunsChargeNothing`).
- `/api/status` may answer that all chains are whole when at no single moment they
  were: one is put right before it is read, another breaks after it was.

## Plan

Written: `Money`, `LedgerRows`, `Ledger`, `Escrow`, `GovernedCalls`, `DecisionLog`,
`AuditLog`, `AuditTampering`, `Scorecard`, `Dashboard`, each with its proofs.

What could follow:

1. The ledger view of the page joined to `GovernedCalls`: the sums shown while calls
   are under way.
2. Appends and tampering in the same behaviour: a chain that grows from a changed
   row, and what `verify_chain` says of it then.
