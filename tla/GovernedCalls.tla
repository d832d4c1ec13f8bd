---------------------------- MODULE GovernedCalls ----------------------------
(***************************************************************************)
(* The governed tools of mcp_server.py (search, write_record, disburse)    *)
(* run concurrently against one database, with everything they call:       *)
(* reserve, _reserve_denial_reason, settle, refund, _fire_log, log_error.  *)
(* Each call is a coroutine that is suspended at every database statement; *)
(* a step is the code between two suspensions.  The three tools differ in  *)
(* their price and in disburse's check of its amount, so they share their  *)
(* actions.                                                                *)
(*                                                                         *)
(* Around the calls, the dashboard revokes and activates agents, operators *)
(* edit agent_permissions, and what Faults lists goes wrong.               *)
(***************************************************************************)
EXTENDS LedgerRows, Totals, Sequences

CONSTANTS
    Calls,          \* tool calls made to the server
    Agents,         \* agents with a row in the agents table
    AgentOf,        \* agent_id of each call, registered or not
    ToolOf,         \* the tool each call invokes
    AmountOf,       \* disburse's amount, 0 for a text that is no number
    ToolCosts,      \* the fixed prices of search and write_record
    CapOf,          \* cap of each agent
    Limits,         \* values an operator may give max_per_call
    MaxColumn,      \* largest value a NUMERIC(12,2) column holds
    Admin,          \* what is changed meanwhile: "revoke", "activate", "permission"
    Faults          \* what may go wrong: "statement", "reply", "log", "crash"

FixedPrice == {"search", "write_record"}
Tools == FixedPrice \union {"disburse"}

ASSUME CallsAssumption ==
    /\ ToolOf \in [Calls -> Tools]
    /\ AmountOf \in [Calls -> Int]
    /\ ToolCosts \in [FixedPrice -> Nat \ {0}]
    /\ MaxColumn \in {x \in Nat : IsWhole(x)}
    /\ CapOf \in [Agents -> {x \in 0..MaxColumn : IsWhole(x)}]
    /\ Limits \subseteq Limit
    /\ AgentOf = [c \in Calls |-> AgentOf[c]]
    /\ IsFiniteSet(Calls)

\* Permissions for a tool nobody calls are never read.
ToolsCalled == {ToolOf[c] : c \in Calls}

Price(c) ==
    IF ToolOf[c] \in FixedPrice THEN ToolCosts[ToolOf[c]] ELSE AmountOf[c]

Cost == [c \in Calls |-> Price(c)]

VARIABLES
    rows,       \* the agents table
    perms,      \* max_per_call of each agent and tool, in agent_permissions
    audit,      \* the audit_log, in the order of its ids
    errors,     \* calls with a row in error_log
    pc,         \* where each call is suspended, or how it ended
    entry,      \* what each call's _fire_log is to append
    told,       \* reason in the denial a call returned
    fate        \* history: what became of each call's cost in its agent's row

db    == <<rows, perms, audit, errors>>
vars  == <<db, pc, entry, told, fate>>

Reasons == {"agent_not_found", "revoked", "cap_exceeded", "not_permitted",
            "per_call_limit_exceeded", "denied_unknown"}

\* by: the governance function that decided.  It stands for the columns
\* est_cost and actual_cost: NULL for reserve, the cost for settle, 0 for refund.
Entry == [by : {"reserve", "settle", "refund"},
          decision : {"allowed", "denied"},
          reason : Reasons \union {"ok", "settle_denied", "tool_execution_failed"}]

NoEntry == [by |-> "reserve", decision |-> "denied", reason |-> "denied_unknown"]

AuditRow == [call : Calls, entry : Entry]

Returned == {"ok", "denied", "error", "raised"}
Ended == Returned \union {"crashed"}
Running == {"reserve", "lock", "diagnose", "diagnose_permission", "log_denied",
            "tell", "tell_permission", "run", "settle", "log_settle", "refund",
            "log_refund", "fail"}
Fates == {"none", "held", "charged", "released"}

TypeOK ==
    /\ rows \in [Agents -> {r \in Row : RowChecks(r)}]
    /\ perms \in [Agents -> [ToolsCalled -> Limit]]
    /\ audit \in Seq(AuditRow)
    /\ errors \in SUBSET Calls
    /\ pc \in [Calls -> {"idle"} \union Running \union Ended]
    /\ entry \in [Calls -> Entry]
    /\ told \in [Calls -> Reasons]
    /\ fate \in [Calls -> Fates]

Init ==
    /\ rows = [a \in Agents |-> NewRow(CapOf[a])]
    /\ perms \in [Agents -> [ToolsCalled -> Limits]]
    /\ audit = <<>>
    /\ errors = {}
    /\ pc = [c \in Calls |-> "idle"]
    /\ entry = [c \in Calls |-> NoEntry]
    /\ told = [c \in Calls |-> "denied_unknown"]
    /\ fate = [c \in Calls |-> "none"]

-----------------------------------------------------------------------------
Registered(c) == AgentOf[c] \in Agents
RowOf(c) == rows[AgentOf[c]]
LimitOf(c) == perms[AgentOf[c]][ToolOf[c]]

Go(c, from, to) == pc[c] = from /\ pc' = [pc EXCEPT ![c] = to]

\* A committed UPDATE of the agent's row that settles the fate of c's cost.
Update(c, row, f) ==
    /\ RowChecks(row)
    /\ rows' = [rows EXCEPT ![AgentOf[c]] = row]
    /\ fate' = [fate EXCEPT ![c] = f]
    /\ UNCHANGED <<perms, audit, errors, told>>

\* The connection breaks after the server committed: the caller sees an error.
ReplyLost == IF "reply" \in Faults THEN BOOLEAN ELSE {FALSE}

BadAmount(c) == ToolOf[c] = "disburse" /\ AmountOf[c] <= 0

\* disburse returns an error before it touches the database.
Reject(c) ==
    /\ BadAmount(c)
    /\ Go(c, "idle", "error")
    /\ UNCHANGED <<db, entry, told, fate>>

Begin(c) ==
    /\ ~BadAmount(c)
    /\ Go(c, "idle", "reserve")
    /\ UNCHANGED <<db, entry, told, fate>>

-----------------------------------------------------------------------------
(* reserve: one UPDATE.  It evaluates its WHERE clause on the snapshot of   *)
(* the statement, then locks the row; if the row has changed since, it      *)
(* evaluates the conditions on the row again, but not the subquery on       *)
(* agent_permissions, whose rows it takes from the snapshot.                *)

Matches(c) ==
    /\ Registered(c)
    /\ ReserveWhere(RowOf(c), Cost[c])
    /\ Permits(LimitOf(c), Cost[c])

ReserveScan(c) ==
    /\ Go(c, "reserve", IF Matches(c) THEN "lock" ELSE "diagnose")
    /\ UNCHANGED <<db, entry, told, fate>>

\* Mutant: an UPDATE whose reply is lost is sent again.
ReserveRetried(c) ==
    /\ \E lost \in ReplyLost : Go(c, "lock", IF lost THEN "reserve" ELSE "run")
    /\ ReserveWhere(RowOf(c), Cost[c])
    /\ Update(c, ReservedRow(RowOf(c), Cost[c]), "held")
    /\ UNCHANGED entry

ReserveWrite(c) ==
    /\ \E lost \in ReplyLost : Go(c, "lock", IF lost THEN "fail" ELSE "run")
    /\ ReserveWhere(RowOf(c), Cost[c])
    /\ Update(c, ReservedRow(RowOf(c), Cost[c]), "held")
    /\ UNCHANGED entry

ReserveRecheckFails(c) ==
    /\ Go(c, "lock", "diagnose")
    /\ ~ReserveWhere(RowOf(c), Cost[c])
    /\ UNCHANGED <<db, entry, told, fate>>

-----------------------------------------------------------------------------
(* A denied call runs _reserve_denial_reason twice: in reserve, for the     *)
(* audit row, and in _denial_detail, for the answer.                        *)

RowReason(c) ==
    IF Registered(c) THEN AgentReason(RowOf(c), Cost[c]) ELSE "agent_not_found"

ToLog(c, by, decision, reason) ==
    entry' = [entry EXCEPT ![c] =
                 [by |-> by, decision |-> decision, reason |-> reason]]

\* Mutant: the diagnosis ends with its first SELECT.
DiagnoseOnce(c) ==
    /\ Go(c, "diagnose", "log_denied")
    /\ ToLog(c, "reserve", "denied", RowReason(c))
    /\ UNCHANGED <<db, told, fate>>

\* Mutant: a denial is told before it is logged, and then not logged.
DiagnoseUnlogged(c) ==
    /\ RowReason(c) # "passes"
    /\ Go(c, "diagnose", "tell")
    /\ UNCHANGED <<db, entry, told, fate>>

Diagnose(c) ==
    /\ RowReason(c) # "passes"
    /\ Go(c, "diagnose", "log_denied")
    /\ ToLog(c, "reserve", "denied", RowReason(c))
    /\ UNCHANGED <<db, told, fate>>

DiagnosePasses(c) ==
    /\ RowReason(c) = "passes"
    /\ \/ Go(c, "diagnose", "diagnose_permission")
       \/ Go(c, "tell", "tell_permission")
    /\ UNCHANGED <<db, entry, told, fate>>

\* Mutant: the diagnosis has no answer for a permission it does not find.
DiagnoseFound(c) ==
    /\ Go(c, "diagnose_permission", "log_denied")
    /\ LimitOf(c) # NoPermission
    /\ ToLog(c, "reserve", "denied", PermissionReason(LimitOf(c), Cost[c]))
    /\ UNCHANGED <<db, told, fate>>

DiagnosePermission(c) ==
    /\ Go(c, "diagnose_permission", "log_denied")
    /\ ToLog(c, "reserve", "denied", PermissionReason(LimitOf(c), Cost[c]))
    /\ UNCHANGED <<db, told, fate>>

Tell(c) ==
    /\ RowReason(c) # "passes"
    /\ Go(c, "tell", "denied")
    /\ told' = [told EXCEPT ![c] = RowReason(c)]
    /\ UNCHANGED <<db, entry, fate>>

TellPermission(c) ==
    /\ Go(c, "tell_permission", "denied")
    /\ told' = [told EXCEPT ![c] = PermissionReason(LimitOf(c), Cost[c])]
    /\ UNCHANGED <<db, entry, fate>>

-----------------------------------------------------------------------------
(* The tool, and settle or refund.  Their UPDATE has no subquery, so it is  *)
(* one step at the moment the row is locked.                                *)

ToolRuns(c) ==
    /\ Go(c, "run", "settle")
    /\ UNCHANGED <<db, entry, told, fate>>

\* Mutant: the tool is not wrapped in its own try (README, bug 5).
ToolRaisesUnguarded(c) ==
    /\ Go(c, "run", "fail")
    /\ UNCHANGED <<db, entry, told, fate>>

ToolRaises(c) ==
    /\ Go(c, "run", "refund")
    /\ UNCHANGED <<db, entry, told, fate>>

\* Mutant: a settle whose reply is lost is sent again.
SettleRetried(c) ==
    /\ \E lost \in ReplyLost : Go(c, "settle", IF lost THEN "settle" ELSE "log_settle")
    /\ SettleWhere(RowOf(c), Cost[c])
    /\ Update(c, SettledRow(RowOf(c), Cost[c], Cost[c]), "charged")
    /\ ToLog(c, "settle", "allowed", "ok")

\* Mutant: the UPDATE of settle has no WHERE clause but the id.
SettleUnchecked(c) ==
    /\ \E lost \in ReplyLost : Go(c, "settle", IF lost THEN "refund" ELSE "log_settle")
    /\ Update(c, SettledRow(RowOf(c), Cost[c], Cost[c]), "charged")
    /\ ToLog(c, "settle", "allowed", "ok")

Settle(c) ==
    /\ \E lost \in ReplyLost : Go(c, "settle", IF lost THEN "refund" ELSE "log_settle")
    /\ SettleWhere(RowOf(c), Cost[c])
    /\ Update(c, SettledRow(RowOf(c), Cost[c], Cost[c]), "charged")
    /\ ToLog(c, "settle", "allowed", "ok")

\* Mutant: settle logs "allowed" whatever the UPDATE returned.
SettleDeniedAsOk(c) ==
    /\ Go(c, "settle", "log_settle")
    /\ ~SettleWhere(RowOf(c), Cost[c])
    /\ ToLog(c, "settle", "allowed", "ok")
    /\ UNCHANGED <<db, told, fate>>

\* settle returns False; the handler does not look at what it returns.
SettleDenied(c) ==
    /\ Go(c, "settle", "log_settle")
    /\ ~SettleWhere(RowOf(c), Cost[c])
    /\ ToLog(c, "settle", "denied", "settle_denied")
    /\ UNCHANGED <<db, told, fate>>

\* Refund adds 0 to spent: a charge already made stays.
AfterRefund(c) == IF fate[c] = "held" THEN "released" ELSE fate[c]

Refund(c) ==
    /\ \E lost \in ReplyLost : Go(c, "refund", IF lost THEN "fail" ELSE "log_refund")
    /\ SettleWhere(RowOf(c), Cost[c])
    /\ Update(c, RefundedRow(RowOf(c), Cost[c]), AfterRefund(c))
    /\ ToLog(c, "refund", "allowed", "tool_execution_failed")

\* Mutant: settle, called by refund, logs "allowed" whatever the UPDATE returned.
RefundDeniedAsDone(c) ==
    /\ Go(c, "refund", "log_refund")
    /\ ~SettleWhere(RowOf(c), Cost[c])
    /\ ToLog(c, "refund", "allowed", "tool_execution_failed")
    /\ UNCHANGED <<db, told, fate>>

RefundDenied(c) ==
    /\ Go(c, "refund", "log_refund")
    /\ ~SettleWhere(RowOf(c), Cost[c])
    /\ ToLog(c, "refund", "denied", "tool_execution_failed")
    /\ UNCHANGED <<db, told, fate>>

-----------------------------------------------------------------------------
(* _fire_log appends a row or swallows the exception; the call goes on.     *)

\* Mutant: refund in a finally clause.
RefundFinally == [log_denied |-> "tell", log_settle |-> "refund", log_refund |-> "fail"]

\* Mutant: a denied call is tried again.
RetryDenied == [log_denied |-> "reserve", log_settle |-> "ok", log_refund |-> "fail"]

AfterLog == [log_denied |-> "tell", log_settle |-> "ok", log_refund |-> "fail"]

\* est_cost is a NUMERIC(12,2): a larger cost cannot be inserted.
Fits(c) == Stored(Cost[c]) <= MaxColumn

AppendEntry(c) == audit' = Append(audit, [call |-> c, entry |-> entry[c]])

Log(c) ==
    /\ Fits(c)
    /\ \E from \in DOMAIN AfterLog : Go(c, from, AfterLog[from])
    /\ AppendEntry(c)
    /\ UNCHANGED <<rows, perms, errors, entry, told, fate>>

LogFails(c) ==
    /\ "log" \in Faults \/ ~Fits(c)
    /\ \E from \in DOMAIN AfterLog : Go(c, from, AfterLog[from])
    /\ UNCHANGED <<db, entry, told, fate>>

\* Mutant: the outer handler raises without log_error.
FailSilently(c) ==
    /\ Go(c, "fail", "raised")
    /\ UNCHANGED <<db, entry, told, fate>>

\* An exception before the reservation, or out of refund, ends in the outer
\* handler, which calls log_error (it never raises) and raises again.
Fail(c) ==
    /\ Go(c, "fail", "raised")
    /\ errors' = errors \union {c}
    /\ UNCHANGED <<rows, perms, audit, entry, told, fate>>

FailUnlogged(c) ==
    /\ "log" \in Faults
    /\ Go(c, "fail", "raised")
    /\ UNCHANGED <<db, entry, told, fate>>

-----------------------------------------------------------------------------
\* The next statement of c fails and changes nothing: the pool has no
\* connection to give, the server refuses it, or it would break a CHECK.
BreaksCheck(c) ==
    \/ pc[c] = "lock" /\ ReserveWhere(RowOf(c), Cost[c])
                      /\ ~RowChecks(ReservedRow(RowOf(c), Cost[c]))
    \/ pc[c] = "settle" /\ SettleWhere(RowOf(c), Cost[c])
                        /\ ~RowChecks(SettledRow(RowOf(c), Cost[c], Cost[c]))

Handler(p) == IF p = "settle" THEN "refund" ELSE "fail"

StatementFails(c) ==
    /\ "statement" \in Faults \/ BreaksCheck(c)
    /\ \E from \in {"reserve", "lock", "diagnose", "diagnose_permission",
                    "tell", "tell_permission", "settle", "refund"} :
          Go(c, from, Handler(from))
    /\ UNCHANGED <<db, entry, told, fate>>

\* The server dies or the task is cancelled: CancelledError is no Exception,
\* so neither handler runs.
Crash(c) ==
    /\ "crash" \in Faults
    /\ \E from \in Running : Go(c, from, "crashed")
    /\ UNCHANGED <<db, entry, told, fate>>

SetStatus(a, s) ==
    /\ rows' = [rows EXCEPT ![a].status = s]
    /\ UNCHANGED <<perms, audit, errors, pc, entry, told, fate>>

Revoke(a)   == "revoke" \in Admin /\ SetStatus(a, "revoked")
Activate(a) == "activate" \in Admin /\ SetStatus(a, "active")

\* An operator, or schema.sql at the start of the application, writes or
\* deletes a row of agent_permissions.
SetPermission(a, t, limit) ==
    /\ "permission" \in Admin
    /\ perms' = [perms EXCEPT ![a][t] = limit]
    /\ UNCHANGED <<rows, audit, errors, pc, entry, told, fate>>

\* What c does once it has begun, whatever goes wrong.
Step(c) ==
    \/ ReserveScan(c) \/ ReserveWrite(c) \/ ReserveRecheckFails(c)
    \/ Diagnose(c) \/ DiagnosePasses(c) \/ DiagnosePermission(c)
    \/ Tell(c) \/ TellPermission(c)
    \/ ToolRuns(c) \/ ToolRaises(c)
    \/ Settle(c) \/ SettleDenied(c) \/ Refund(c) \/ RefundDenied(c)
    \/ Log(c) \/ LogFails(c) \/ Fail(c) \/ FailUnlogged(c)
    \/ StatementFails(c)

Next ==
    \/ \E c \in Calls : Begin(c) \/ Reject(c) \/ Step(c) \/ Crash(c)
    \/ \E a \in Agents : Revoke(a) \/ Activate(a)
    \/ \E a \in Agents, t \in ToolsCalled, limit \in Limits : SetPermission(a, t, limit)

Spec == Init /\ [][Next]_vars

\* The event loop resumes a call whose statement has ended.
Resumed(c) == WF_vars(Step(c))

Fairness == \A c \in Calls : Resumed(c)

FairSpec == Spec /\ Fairness

-----------------------------------------------------------------------------
CallsOf(a, f) == {c \in Calls : AgentOf[c] = a /\ fate[c] = f}

\* The sum spent of an agents row is the charges made, whatever goes wrong.
SpentIsCharged ==
    \A a \in Agents : rows[a].spent = Total(Cost, CallsOf(a, "charged"))

\* The sum reserved is the reservations still held, for every interleaving of
\* the calls, although a settle subtracts an amount and never names the
\* reservation it ends.  It takes that no reply is lost.
ReservedIsHeld ==
    \A a \in Agents : rows[a].reserved = Total(Cost, CallsOf(a, "held"))

\* Even when replies are lost the sum reserved does not grow past what is
\* held: an agent never loses headroom to a reservation nobody made.
ReservedAtMostHeld ==
    \A a \in Agents : rows[a].reserved <= Total(Cost, CallsOf(a, "held"))

\* Amounts may be finer than the columns: each UPDATE of a row may then be off
\* by half a cent, and no more.  The sum spent has one for each charge, the sum
\* reserved one for each hold and a second for its end.
Count(a, f) == Cardinality(CallsOf(a, f))

Rewrites(a) == Count(a, "held") + 2 * Count(a, "charged") + 2 * Count(a, "released")

Near(x, y, n) == x - y <= Half * n /\ y - x <= Half * n

SpentDrift(a) ==
    Near(rows[a].spent, Total(Cost, CallsOf(a, "charged")), Count(a, "charged"))

ReservedDrift(a) ==
    Near(rows[a].reserved, Total(Cost, CallsOf(a, "held")), Rewrites(a))

DriftIsBounded == \A a \in Agents : SpentDrift(a) /\ ReservedDrift(a)

\* A call that holds its reservation can be settled or refunded in full as
\* long as its agent is active: what other calls did meanwhile can neither
\* make its settle return False nor make the UPDATE break a CHECK.
HeldCallsCanFinish ==
    \A c \in Calls :
        fate[c] = "held" =>
            /\ Covers(RowOf(c), Cost[c])
            /\ RowChecks(SettledRow(RowOf(c), Cost[c], Cost[c]))
            /\ RowChecks(RefundedRow(RowOf(c), Cost[c]))

\* What the audit_log says of a call is what happened to its money, and stays
\* so: a denied reserve took nothing, an allowed settle charged the cost, an
\* allowed refund released it, and a denied settle left it reserved.
FateSaid(e) ==
    CASE e.by = "reserve"                            -> "none"
      [] e.by = "settle" /\ e.decision = "allowed"   -> "charged"
      [] e.by = "refund" /\ e.decision = "allowed"   -> "released"
      [] e.by # "reserve" /\ e.decision = "denied"   -> "held"

AuditMatchesMoney ==
    \A i \in DOMAIN audit : fate[audit[i].call] = FateSaid(audit[i].entry)

\* When replies are lost, what may be untrue of a row is that of a refund: its
\* call has been charged already, by a settle the caller took for failed.
\* Rows of settle and reserve stay true all the same.
OnlyRefundRowsErr ==
    \A i \in DOMAIN audit :
        \/ fate[audit[i].call] = FateSaid(audit[i].entry)
        \/ audit[i].entry.by = "refund" /\ fate[audit[i].call] = "charged"

\* No call leaves two rows in the audit_log, retries and lost replies
\* included; a call that returned "ok" or a denial has left one, unless the
\* append failed or its cost does not fit the columns of the log.
OneRowPerCall ==
    /\ \A i, j \in DOMAIN audit : audit[i].call = audit[j].call => i = j
    /\ "log" \notin Faults =>
          \A c \in Calls : pc[c] \in {"ok", "denied"} /\ Fits(c) =>
              \E i \in DOMAIN audit : audit[i].call = c

\* The calls of agent a that answered "ok".
Answered(a) == {c \in Calls : AgentOf[c] = a /\ pc[c] = "ok"}

\* What the calls of an agent report as cost_charged when they answer "ok"
\* does not exceed its cap, charged or not: README, "agents cannot exceed
\* their financial caps".  The row says so of what it has spent and reserved;
\* but a settle that was denied answers "ok" too, and a refund after a lost
\* reply takes a reservation that another call holds.
OkWithinCap == \A a \in Agents : Total(Cost, Answered(a)) <= CapOf[a]

\* A reservation that its call left behind when it returned can be found: by
\* a denied row of the audit_log, or by the error_log.
StrandedLeavesTrace ==
    \A c \in Calls :
        fate[c] = "held" /\ pc[c] \in Returned =>
            \/ c \in errors
            \/ \E i \in DOMAIN audit :
                  audit[i].call = c /\ audit[i].entry.decision = "denied"

\* Each reservation is granted, charged and released as the abstract escrow
\* account says: within the cap, once, and never on a revoked agent.
Account == INSTANCE Escrow WITH
    Cap <- CapOf, status <- [a \in Agents |-> rows[a].status]

ImplementsEscrow == Account!Spec

\* Whatever fails, the calls change the agents table only as Ledger says:
\* every write is one of its UPDATEs, for the cost of a call, with the WHERE
\* clause true of the row it changes.  What holds of Ledger for any callers
\* holds of the tools.
Table == INSTANCE Ledger WITH
    Caps <- {CapOf[a] : a \in Agents}, Amounts <- {Cost[c] : c \in Calls}

WritesAreLedgers == Table!Spec

\* A call that is suspended can go on, whatever the others do: each statement
\* commits by itself, and no branch of the code is left without a next step.
NeverStuck ==
    \A c \in Calls : pc[c] \in Running => ENABLED <<Step(c)>>_vars

\* Every call that has begun returns to its client.
EveryCallReturns ==
    \A c \in Calls : pc[c] = "reserve" ~> pc[c] \in Ended

\* A reservation ends, charged or released, when agents stay active and the
\* database answers, as long as the row covers what its call holds.  An amount that
\* is rounded down is not covered by what was reserved for it alone.
EveryHoldEnds ==
    \A c \in Calls :
      [](fate[c] = "held" => Covers(RowOf(c), Cost[c]))
        => (fate[c] = "held" ~> fate[c] \in {"charged", "released"})

-----------------------------------------------------------------------------
(* What the documentation says and the code does not do: each is checked    *)
(* by a run that finds it violated.                                         *)

\* README: when the tool has run, "the reservation is cleared".
OkClearsReservation == \A c \in Calls : pc[c] = "ok" => fate[c] # "held"

\* refund(): "adds nothing to spent - as if the tool never ran".
FailedCallsAreNotCharged ==
    \A c \in Calls : pc[c] = "raised" => fate[c] # "charged"

\* reserve(): "There is no window between the check and the write."
GrantedUnderPermission ==
    [][\A c \in Calls : fate[c] = "none" /\ fate'[c] = "held" =>
          Permits(LimitOf(c), Cost[c])]_vars

\* refund(): "Releases reserved_amount back to the agent's headroom".
NothingHeldNothingReserved ==
    \A a \in Agents : CallsOf(a, "held") = {} => rows[a].reserved = 0
=============================================================================
