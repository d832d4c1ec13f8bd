-------------------------- MODULE PromiseTheorems --------------------------
(***************************************************************************)
(* What the governed calls promise, from the invariant of                  *)
(* GovernedCallsTheorems: they implement the escrow account, a reservation *)
(* that is left behind leaves a trace, what the documentation claims holds *)
(* under conditions that are stated, and a call that has begun ends.       *)
(***************************************************************************)
EXTENDS GovernedCallsTheorems

-----------------------------------------------------------------------------
\* The totals of two sets of calls without a call in common add up.
LEMMA TotalsAdd ==
    ASSUME NEW cost, NEW M \in Nat,
           NEW S, IsFiniteSet(S), \A c \in S : cost[c] \in 0..M,
           NEW T, IsFiniteSet(T), \A c \in T : cost[c] \in 0..M,
           S \intersect T = {}
    PROVE  Total(cost, S \union T) = Total(cost, S) + Total(cost, T)
<1>1. IsFiniteSet(MillsOf(cost, S)) /\ IsFiniteSet(MillsOf(cost, T))
  BY TotalIsNat
<1>2. MillsOf(cost, S \union T) = MillsOf(cost, S) \union MillsOf(cost, T)
  BY DEF MillsOf
<1>3. MillsOf(cost, S) \intersect MillsOf(cost, T) = {}
  BY DEF MillsOf, Mills
<1> DEFINE A == MillsOf(cost, S)
           B == MillsOf(cost, T)
<1> HIDE DEF A, B
<1>4. Cardinality(A \union B) = Cardinality(A) + Cardinality(B) - Cardinality(A \intersect B)
  BY <1>1, FS_Union DEF A, B
<1>5. A \intersect B = {} /\ Cardinality({}) = 0
  BY <1>3, FS_EmptySet DEF A, B
<1>6. Cardinality(A) \in Nat /\ Cardinality(B) \in Nat
  BY <1>1, FS_CardinalityType DEF A, B
<1>7. Cardinality(A \union B) = Cardinality(A) + Cardinality(B) - 0
  BY <1>4, <1>5, Zenon
<1>8. Cardinality(A \union B) = Cardinality(A) + Cardinality(B)
  BY <1>6, <1>7
<1> QED
  BY <1>2, <1>8 DEF Total, A, B

-----------------------------------------------------------------------------
\* The state of the abstract account.
StatusOf == [a \in Agents |-> rows[a].status]

\* What an agent has committed is what its row has spent and reserved.
LEMMA CommittedIsInRow ==
    ASSUME Invariant, WholeCents, NoReplyLoss, NEW a \in Agents
    PROVE  Account!Committed(a) = rows[a].spent + rows[a].reserved
<1>1. /\ rows[a].spent = Total(Cost, CallsOf(a, "charged"))
      /\ rows[a].reserved = Total(Cost, CallsOf(a, "held"))
  BY DEF Invariant, Sums, SpentIsCharged, ReservedIsHeld
<1>2. Base /\ Control
  BY DEF Invariant, Typed
<1>3. CallsOf(a, "held") \intersect CallsOf(a, "charged") = {}
  BY DEF CallsOf
<1>4. Total(Cost, CallsOf(a, "held") \union CallsOf(a, "charged")) =
          Total(Cost, CallsOf(a, "held")) + Total(Cost, CallsOf(a, "charged"))
  BY <1>2, <1>3, PricedCalls, TotalsAdd
<1>5. Account!Committed(a) = Total(Cost, CallsOf(a, "held") \union CallsOf(a, "charged"))
  BY DEF Account!Committed, Account!CallsOf, CallsOf, Total, MillsOf, Mills,
     Account!Total, Account!MillsOf, Account!Mills, Cardinality, Account!Cardinality
<1>6. rows[a].spent \in Int /\ rows[a].reserved \in Int
  BY <1>2 DEF Base, RowsOK, Row, Column
<1> QED
  BY <1>1, <1>4, <1>5, <1>6

\* An UPDATE for a call that keeps the status of the row is a turn of the call
\* in the account.
LEMMA UpdateTurns ==
    ASSUME RowsOK, LocalsOK, NEW c \in Calls, Registered(c), RowOf(c).status = "active",
           NEW row, row.status = "active", NEW f, Update(c, row, f)
    PROVE  Account!Turn(c, fate[c], f)
<1>1. \A a \in Agents : rows'[a].status = rows[a].status
  BY UpdateOf DEF RowOf, Registered
<1>2. [a \in Agents |-> rows'[a].status] = [a \in Agents |-> rows[a].status]
  BY <1>1
<1>3. fate' = [fate EXCEPT ![c] = f]
  BY DEF Update
<1> QED
  BY <1>2, <1>3 DEF Account!Turn, Registered, RowOf

\* Each step of the calls is a step of the account, or none.
LEMMA StepsOfAccount ==
    ASSUME Invariant, WholeCents, NoReplyLoss, [Next]_vars
    PROVE  Account!Next \/ UNCHANGED <<StatusOf, fate>>
<1>0. RowsOK /\ LocalsOK /\ Base /\ Control
  BY DEF Invariant, Typed, Base
<1>1. CASE UNCHANGED <<rows, fate>>
  BY <1>1 DEF StatusOf
<1>2. ASSUME NEW c \in Calls, Registered(c)
      PROVE  /\ ReservedRow(RowOf(c), Cost[c]).status = RowOf(c).status
             /\ SettledRow(RowOf(c), Cost[c], Cost[c]).status = RowOf(c).status
             /\ RefundedRow(RowOf(c), Cost[c]).status = RowOf(c).status
             /\ RowOf(c) \in Row /\ RowOf(c) = rows[AgentOf[c]]
             /\ RowOf(c).cap = CapOf[AgentOf[c]]
  <2>1. RowOf(c) \in Row /\ RowOf(c) = rows[AgentOf[c]]
    BY <1>0, <1>2 DEF RowsOK, RowOf, Registered
  <2>2. RowOf(c).cap = CapOf[AgentOf[c]]
    BY <1>0, <1>2 DEF Base, CapsOK, RowOf, Registered
  <2> QED
    BY <2>1, <2>2, UpdatesKeep
<1>3. ASSUME NEW c \in Calls, ReserveWrite(c) PROVE Account!Hold(c)
  <2>1. Registered(c) /\ fate[c] = "none" /\ ReserveWhere(RowOf(c), Cost[c])
    BY <1>0, <1>3 DEF ReserveWrite, Go, Control, Knows, Unreserved
  <2>2. RowOf(c).status = "active"
    BY <2>1 DEF ReserveWhere
  <2>3. Account!Turn(c, "none", "held")
    BY <1>0, <1>2, <1>3, <2>1, <2>2, UpdateTurns DEF ReserveWrite
  <2>4. Account!Committed(AgentOf[c]) = RowOf(c).spent + RowOf(c).reserved
    BY <1>2, <2>1, CommittedIsInRow DEF Registered
  <2>5. RowOf(c).spent \in Int /\ RowOf(c).reserved \in Int /\ Cost[c] \in Int
    BY <1>2, <2>1, CostIsInt DEF Row, Column
  <2>6. RowOf(c).spent + RowOf(c).reserved + Cost[c] <= CapOf[AgentOf[c]]
    BY <1>2, <2>1, <2>5 DEF ReserveWhere, FitsCap
  <2> QED
    BY <2>3, <2>4, <2>6 DEF Account!Hold
<1>4. ASSUME NEW c \in Calls, Settle(c) PROVE Account!Charge(c)
  <2>1. Registered(c) /\ fate[c] = "held" /\ RowOf(c).status = "active"
    BY <1>0, <1>4 DEF Settle, Go, Control, Knows, SettleWhere
  <2> QED
    BY <1>0, <1>2, <1>4, <2>1, UpdateTurns DEF Settle, Account!Charge
<1>5. ASSUME NEW c \in Calls, Refund(c) PROVE Account!Release(c)
  <2>1. /\ Registered(c) /\ fate[c] = "held" /\ RowOf(c).status = "active"
        /\ AfterRefund(c) = "released"
    BY <1>0, <1>5 DEF Refund, Go, Control, Knows, SettleWhere, AfterRefund
  <2> QED
    BY <1>0, <1>2, <1>5, <2>1, UpdateTurns DEF Refund, Account!Release
<1>6. ASSUME NEW a \in Agents, NEW s \in Status, SetStatus(a, s)
      PROVE  Account!SetStatus(a, s)
  <2>1. \A b \in Agents : rows'[b].status = IF b = a THEN s ELSE rows[b].status
    BY <1>0, <1>6, StatusWrites DEF RowsOK
  <2>2. [b \in Agents |-> rows'[b].status] =
            [[b \in Agents |-> rows[b].status] EXCEPT ![a] = s]
    BY <2>1
  <2>3. UNCHANGED fate
    BY <1>6 DEF SetStatus
  <2> QED
    BY <2>2, <2>3 DEF Account!SetStatus
<1> QED
  BY <1>1, <1>3, <1>4, <1>5, <1>6, MoneySteps DEF Account!Next, Status

\* The governed calls implement the escrow account: every behaviour of the
\* tools, with failing statements, failing logs, crashes, revocations and
\* permission changes, is one of the account, for prices of whole cents and no
\* lost reply.
THEOREM CallsImplementEscrow ==
    ASSUME WholeCents, NoReplyLoss
    PROVE  Spec => ImplementsEscrow
<1>1. Init => Account!Init
  BY DEF Init, Account!Init, NewRow
<1>2. Invariant /\ [Next]_vars => [Account!Next]_<<StatusOf, fate>>
  BY StepsOfAccount
<1>3. Invariant /\ [Next]_vars
        => [Account!Next]_<<[a \in Agents |-> rows[a].status], fate>>
  BY <1>2 DEF StatusOf
<1> QED
  BY <1>1, <1>3, InvariantHolds, PTL DEF Spec, ImplementsEscrow, Account!Spec

-----------------------------------------------------------------------------
\* The statements of Ledger are those of the calls.
LEMMA SameStatements ==
    ASSUME NEW row, NEW x, NEW y
    PROVE  /\ Table!RowChecks(row) = RowChecks(row)
           /\ Table!ReserveWhere(row, x) = ReserveWhere(row, x)
           /\ Table!SettleWhere(row, x) = SettleWhere(row, x)
           /\ Table!ReservedRow(row, x) = ReservedRow(row, x)
           /\ Table!SettledRow(row, x, y) = SettledRow(row, x, y)
<1>1. \A z : Table!Stored(z) = Stored(z)
  BY DEF Table!Stored, Stored, Table!RoundHalfUp, RoundHalfUp, Table!Half, Half,
     Table!Cent, Cent
<1>2. /\ Table!RowChecks(row) = RowChecks(row)
      /\ Table!ReserveWhere(row, x) = ReserveWhere(row, x)
      /\ Table!SettleWhere(row, x) = SettleWhere(row, x)
  BY DEF Table!RowChecks, RowChecks, Table!ReserveWhere, ReserveWhere, Table!FitsCap,
     FitsCap, Table!SettleWhere, SettleWhere, Table!Covers, Covers
<1>3. /\ Table!ReservedRow(row, x) = ReservedRow(row, x)
      /\ Table!SettledRow(row, x, y) = SettledRow(row, x, y)
  BY <1>1 DEF Table!ReservedRow, ReservedRow, Table!SettledRow, SettledRow
<1> QED
  BY <1>2, <1>3

\* An UPDATE of a call that writes row is a write of the table.
LEMMA UpdateIsWrite ==
    ASSUME NEW c, NEW row, NEW f, Update(c, row, f)
    PROVE  Table!Write(AgentOf[c], row)
BY SameStatements DEF Update, Table!Write

\* Each step of the calls is one of the UPDATEs of Ledger, or leaves the table.
LEMMA StepsOfLedger ==
    ASSUME Base, Control, [Next]_vars
    PROVE  Table!Next \/ UNCHANGED rows
<1>1. CASE UNCHANGED <<rows, fate>>
  BY <1>1
<1>2. ASSUME NEW c \in Calls, ReserveWrite(c)
      PROVE  /\ AgentOf[c] \in Agents
             /\ Table!Reserve(AgentOf[c], Cost[c])
  <2>1. AgentOf[c] \in Agents /\ ReserveWhere(rows[AgentOf[c]], Cost[c])
    BY <1>2 DEF ReserveWrite, Go, Control, Knows, Registered, RowOf
  <2>2. Table!Write(AgentOf[c], ReservedRow(RowOf(c), Cost[c]))
    BY <1>2, UpdateIsWrite DEF ReserveWrite
  <2> QED
    BY <2>1, <2>2, SameStatements DEF Table!Reserve, RowOf
<1>3. ASSUME NEW c \in Calls, Settle(c) \/ Refund(c)
      PROVE  /\ AgentOf[c] \in Agents
             /\ \/ Table!Settle(AgentOf[c], Cost[c], Cost[c])
                \/ Table!Settle(AgentOf[c], Cost[c], 0)
  <2>1. AgentOf[c] \in Agents /\ SettleWhere(rows[AgentOf[c]], Cost[c])
    BY <1>3 DEF Settle, Refund, Go, Control, Knows, Registered, RowOf
  <2>2. \/ Table!Write(AgentOf[c], SettledRow(RowOf(c), Cost[c], Cost[c]))
        \/ Table!Write(AgentOf[c], SettledRow(RowOf(c), Cost[c], 0))
    BY <1>3, UpdateIsWrite DEF Settle, Refund, RefundedRow
  <2> QED
    BY <2>1, <2>2, SameStatements DEF Table!Settle, RowOf
<1>4. ASSUME NEW a \in Agents, NEW s \in Status, SetStatus(a, s)
      PROVE  Table!Revoke(a) \/ Table!Activate(a)
  <2>1. rows' = [rows EXCEPT ![a] = [rows[a] EXCEPT !.status = s]]
    BY <1>4 DEF SetStatus
  <2>2. rows[a] \in Row /\ RowChecks(rows[a])
    BY DEF Base, RowsOK
  <2>3. RowChecks([rows[a] EXCEPT !.status = s])
    BY <2>2, RowForms DEF RowChecks
  <2>4. Table!Write(a, [rows[a] EXCEPT !.status = s])
    BY <2>1, <2>3, SameStatements DEF Table!Write
  <2> QED
    BY <2>4 DEF Table!Revoke, Table!Activate, Status
<1>5. \A c \in Calls : Cost[c] \in {Cost[d] : d \in Calls}
  OBVIOUS
<1> QED
  BY <1>1, <1>2, <1>3, <1>4, <1>5, MoneySteps DEF Table!Next

\* The tools change the agents table only by the UPDATEs of Ledger, whatever
\* fails and whatever the amounts: prices of a fraction of a cent included.
THEOREM CallsUseLedger == Spec => WritesAreLedgers
<1>1. Init => Table!Init
  <2> SUFFICES ASSUME Init PROVE Table!Init
    OBVIOUS
  <2> DEFINE Caps == {CapOf[a] : a \in Agents}
             caps == [a \in Agents |-> CapOf[a]]
  <2>1. caps \in [Agents -> Caps]
    OBVIOUS
  <2>2. rows = [a \in Agents |-> Table!NewRow(caps[a])]
    BY DEF Init, NewRow, Table!NewRow
  <2> QED
    BY <2>1, <2>2 DEF Table!Init
<1>2. Invariant /\ [Next]_vars => [Table!Next]_rows
  BY StepsOfLedger DEF Invariant, Typed
<1> QED
  BY <1>1, <1>2, InvariantHolds, PTL DEF Spec, WritesAreLedgers, Table!Spec

\* What the calls need of the constants of Ledger.
LEMMA LedgerFits ==
    /\ {CapOf[a] : a \in Agents} \subseteq {k \in Nat : IsWhole(k)}
    /\ {Cost[c] : c \in Calls} \subseteq Int
BY CallsAssumption, CostIsInt

\* No UPDATE of a call breaks a CHECK of the table.
ChecksHold == \A c \in Calls : ~BreaksCheck(c)

\* reserve "never raises", and only an overrun makes settle raise: no CHECK
\* ever fails an UPDATE of the tools, for prices of whole cents, although after
\* a lost reply a settle may take what another call holds.
THEOREM ChecksNeverFail ==
    ASSUME WholeCents
    PROVE  Spec => []ChecksHold
<1>1. ASSUME Invariant, NEW c \in Calls, pc[c] \in {"lock", "settle"}
      PROVE  /\ RowOf(c) \in Row /\ RowChecks(RowOf(c))
             /\ Cost[c] \in Int /\ Cost[c] >= 0 /\ IsWhole(Cost[c])
  <2>1. Knows(c) /\ Cost[c] \in Int /\ IsWhole(Cost[c])
    BY <1>1, CostIsInt DEF Invariant, Control, WholeCents
  <2>2. Registered(c) /\ Cost[c] > 0
    BY <1>1, <2>1 DEF Knows
  <2> QED
    BY <1>1, <2>1, <2>2 DEF Invariant, Typed, Base, RowsOK, Registered, RowOf
<1>2. ASSUME Invariant, NEW c \in Calls, BreaksCheck(c) PROVE FALSE
  <2>1. CASE pc[c] = "lock"
    BY <1>1, <1>2, <2>1, ReservedRowIsSound DEF BreaksCheck
  <2>2. CASE pc[c] = "settle"
    BY <1>1, <1>2, <2>2, SettledRowIsSound DEF BreaksCheck, SettleWhere
  <2> QED
    BY <1>2, <2>1, <2>2 DEF BreaksCheck
<1>3. Invariant => ChecksHold
  BY <1>2 DEF ChecksHold
<1> QED
  BY <1>3, InvariantHolds, PTL

-----------------------------------------------------------------------------
DeniedRow(c) ==
    \E i \in DOMAIN audit : audit[i].call = c /\ audit[i].entry.decision = "denied"

\* A call that raised is in the error_log, and one that returned ok while it
\* holds its reservation has a denied row.
Traces ==
    \A c \in Calls :
        /\ pc[c] = "raised" => c \in errors
        /\ pc[c] = "ok" /\ fate[c] = "held" => DeniedRow(c)

\* Traces is kept while the logs take their rows.
LEMMA TracesStay ==
    ASSUME "log" \notin Faults, WholeCents, Typed, Control, Traces, [Next]_vars
    PROVE  Traces'
<1> USE DEF Typed, Base, LocalsOK
<1>1. CASE UNCHANGED vars
  BY <1>1 DEF vars, db, Traces, DeniedRow
<1>2. ASSUME NEW c \in Calls, Begin(c) \/ Reject(c) \/ Crash(c) \/ ReserveScan(c)
                              \/ ReserveRecheckFails(c) \/ DiagnosePasses(c)
                              \/ ToolRuns(c) \/ ToolRaises(c)
                              \/ StatementFails(c) \/ Diagnose(c) \/ DiagnosePermission(c)
                              \/ Tell(c) \/ TellPermission(c)
                              \/ SettleDenied(c) \/ RefundDenied(c)
      PROVE  /\ UNCHANGED <<audit, errors, fate>>
             /\ \A d \in Calls : pc'[d] \in {"ok", "raised"} => pc'[d] = pc[d]
  BY <1>2 DEF Begin, Reject, Crash, Running, ReserveScan, ReserveRecheckFails,
     DiagnosePasses, ToolRuns, ToolRaises, StatementFails, Handler, Diagnose,
     DiagnosePermission, Tell, TellPermission, SettleDenied, RefundDenied, Go, db
<1>3. ASSUME NEW c \in Calls, ReserveWrite(c) \/ Settle(c) \/ Refund(c)
      PROVE  /\ UNCHANGED <<audit, errors>>
             /\ \A d \in Calls : pc'[d] \in {"ok", "raised"} =>
                   pc'[d] = pc[d] /\ fate'[d] = fate[d]
  BY <1>3 DEF ReserveWrite, Settle, Refund, Update, Go
<1>4. ASSUME NEW x \in Agents, Revoke(x) \/ Activate(x)
      PROVE  UNCHANGED <<audit, errors, fate, pc>>
  BY <1>4 DEF Revoke, Activate, SetStatus
<1>5. ASSUME NEW x \in Agents, NEW t \in ToolsCalled, NEW limit \in Limits,
             SetPermission(x, t, limit)
      PROVE  UNCHANGED <<audit, errors, fate, pc>>
  BY <1>5 DEF SetPermission
<1>6. ASSUME UNCHANGED <<audit, errors>>,
             \A d \in Calls : pc'[d] \in {"ok", "raised"} =>
                 pc'[d] = pc[d] /\ fate'[d] = fate[d]
      PROVE  Traces'
  BY <1>6 DEF Traces, DeniedRow
<1>7. ASSUME NEW c \in Calls, Fail(c) PROVE Traces'
  BY <1>7 DEF Fail, Go, Traces, DeniedRow
<1>8. ASSUME NEW c \in Calls, FailUnlogged(c) PROVE FALSE
  BY <1>8 DEF FailUnlogged
<1>9. ASSUME NEW c \in Calls, LogFails(c) PROVE Traces'
  <2>1. fate[c] = "none"
    <3>1. ASSUME fate[c] # "none" PROVE FALSE
      <4>1. Cost[c] \in 1..MaxColumn /\ IsWhole(Cost[c]) /\ MaxColumn \in Nat
        BY <3>1, CallsAssumption DEF Control, Knows, WholeCents
      <4>2. Fits(c)
        BY <4>1, WholeIsStored DEF Fits
      <4> QED
        BY <1>9, <4>2 DEF LogFails
    <3> QED
      BY <3>1
  <2>2. /\ UNCHANGED <<audit, errors, fate>>
        /\ \A d \in Calls \ {c} : pc'[d] = pc[d]
        /\ pc'[c] # "raised"
    BY <1>9, LogGoes DEF LogFails, Go, db
  <2> QED
    BY <2>1, <2>2 DEF Traces, DeniedRow
<1>10. ASSUME NEW c \in Calls, Log(c) PROVE Traces'
  <2> DEFINE new == [call |-> c, entry |-> entry[c]]
  <2>1. /\ audit' = Append(audit, new) /\ UNCHANGED <<errors, fate>>
        /\ \A d \in Calls \ {c} : pc'[d] = pc[d]
        /\ pc'[c] # "raised" /\ (pc'[c] = "ok" => pc[c] = "log_settle")
    BY <1>10, LogGoes DEF Log, AppendEntry, Go
  <2>2. new.call = c /\ new.entry = entry[c]
    OBVIOUS
  <2> HIDE DEF new
  <2>3. /\ Len(audit) \in Nat /\ DOMAIN audit = 1..Len(audit)
        /\ DOMAIN audit' = 1..(Len(audit) + 1)
        /\ \A i \in DOMAIN audit : audit'[i] = audit[i]
        /\ audit'[Len(audit) + 1] = new
    BY <2>1
  <2>4. ASSUME pc'[c] = "ok", fate[c] = "held" PROVE DeniedRow(c)'
    <3>1. entry[c].by = "settle" /\ FateSaid(entry[c]) = "held" /\ entry[c] \in Entry
      BY <2>1, <2>4 DEF Control, Knows
    <3>2. entry[c].decision = "denied"
      BY <3>1 DEF FateSaid, Entry
    <3> QED
      BY <2>2, <2>3, <3>2 DEF DeniedRow
  <2>5. \A d \in Calls : DeniedRow(d) => DeniedRow(d)'
    BY <2>3 DEF DeniedRow
  <2> QED
    BY <2>1, <2>4, <2>5 DEF Traces
<1> QED
  BY <1>1, <1>2, <1>3, <1>4, <1>5, <1>6, <1>7, <1>8, <1>9, <1>10 DEF Next, Step

\* A reservation its call left behind when it returned can be found in one of
\* the two logs, if they take their rows, for prices of whole cents.  Lost
\* replies are allowed.
THEOREM StrandedIsTraced ==
    ASSUME "log" \notin Faults, WholeCents
    PROVE  Spec => []StrandedLeavesTrace
<1>1. Init => Traces
  BY DEF Init, Traces
<1>2. Invariant /\ Traces /\ [Next]_vars => Traces'
  BY TracesStay DEF Invariant
<1>3. Invariant /\ Traces => StrandedLeavesTrace
  BY DEF Invariant, Control, Knows, Unreserved, Traces, DeniedRow, Returned,
     StrandedLeavesTrace
<1> QED
  BY <1>1, <1>2, <1>3, InvariantHolds, PTL DEF Spec

-----------------------------------------------------------------------------
(* The claims of the documentation that runs find violated.  Each holds     *)
(* when what its run does is excluded.                                      *)

\* Only a call's own step moves it, prepares its row of the log or decides
\* the fate of its cost.
LEMMA OwnSteps ==
    ASSUME LocalsOK, [Next]_vars, NEW d \in Calls
    PROVE  \/ pc'[d] = pc[d] /\ entry'[d] = entry[d] /\ fate'[d] = fate[d]
           \/ Begin(d) \/ Reject(d) \/ Step(d) \/ Crash(d)
<1> USE DEF LocalsOK
<1>1. CASE UNCHANGED vars
  BY <1>1 DEF vars, db
<1>2. ASSUME NEW c \in Calls, c # d, Begin(c) \/ Reject(c) \/ Crash(c) \/ Step(c)
      PROVE  pc'[d] = pc[d] /\ entry'[d] = entry[d] /\ fate'[d] = fate[d]
  BY <1>2 DEF Begin, Reject, Crash, Step, ReserveScan, ReserveWrite, ReserveRecheckFails,
     Diagnose, DiagnosePasses, DiagnosePermission, Tell, TellPermission, ToolRuns,
     ToolRaises, Settle, SettleDenied, Refund, RefundDenied, Log, LogFails, Fail,
     FailUnlogged, StatementFails, Update, ToLog, Go
<1>3. ASSUME NEW a \in Agents, Revoke(a) \/ Activate(a)
      PROVE  UNCHANGED <<pc, entry, fate>>
  BY <1>3 DEF Revoke, Activate, SetStatus
<1>4. ASSUME NEW a \in Agents, NEW t \in ToolsCalled, NEW limit \in Limits,
             SetPermission(a, t, limit)
      PROVE  UNCHANGED <<pc, entry, fate>>
  BY <1>4 DEF SetPermission
<1> QED
  BY <1>1, <1>2, <1>3, <1>4 DEF Next

\* A call that failed has not been charged.
NoneFailedCharged == \A c \in Calls : pc[c] \in {"fail", "raised"} => fate[c] # "charged"

LEMMA NoneFailedChargedStays ==
    ASSUME NoReplyLoss, LocalsOK, Control, NoneFailedCharged, [Next]_vars
    PROVE  NoneFailedCharged'
<1> SUFFICES ASSUME NEW c \in Calls, pc'[c] \in {"fail", "raised"}
             PROVE  fate'[c] # "charged"
  BY DEF NoneFailedCharged
<1> USE DEF LocalsOK
<1>0. Knows(c) /\ (pc[c] \in {"fail", "raised"} => fate[c] # "charged")
  BY DEF Control, NoneFailedCharged
<1>1. ASSUME Begin(c) \/ Reject(c) \/ Crash(c) \/ ReserveScan(c) \/ ReserveRecheckFails(c)
             \/ Diagnose(c) \/ DiagnosePasses(c) \/ DiagnosePermission(c) \/ Tell(c)
             \/ TellPermission(c) \/ ToolRuns(c) \/ ToolRaises(c) \/ SettleDenied(c)
             \/ RefundDenied(c)
      PROVE  FALSE
  BY <1>1 DEF Begin, Reject, Crash, ReserveScan, ReserveRecheckFails, Diagnose,
     DiagnosePasses, DiagnosePermission, Tell, TellPermission, ToolRuns, ToolRaises,
     SettleDenied, RefundDenied, Go
<1>2. ASSUME ReserveWrite(c) \/ Settle(c) \/ Refund(c) PROVE FALSE
  BY <1>2 DEF ReserveWrite, Settle, Refund, ReplyLost, NoReplyLoss, Go
<1>3. ASSUME Log(c) \/ LogFails(c) PROVE fate'[c] # "charged"
  <2>1. pc[c] = "log_refund" /\ fate' = fate /\ entry[c] \in Entry
    BY <1>3, LogGoes DEF Log, LogFails, Go, db
  <2>2. entry[c].by = "refund" /\ fate[c] = FateSaid(entry[c])
    BY <1>0, <2>1 DEF Knows
  <2> QED
    BY <2>1, <2>2 DEF FateSaid, Entry
<1>4. ASSUME Fail(c) \/ FailUnlogged(c) PROVE fate'[c] # "charged"
  BY <1>0, <1>4 DEF Fail, FailUnlogged, Go
<1>5. ASSUME StatementFails(c) PROVE fate'[c] # "charged"
  BY <1>0, <1>5 DEF StatementFails, Handler, Go, Knows, Unreserved
<1> QED
  BY <1>0, <1>1, <1>2, <1>3, <1>4, <1>5, OwnSteps DEF Step

\* "As if the tool never ran": a call that raised has not been charged, if no
\* reply is lost.  Statements and logs may fail, and processes crash.
THEOREM FailuresAreNotCharged ==
    ASSUME NoReplyLoss
    PROVE  Spec => []FailedCallsAreNotCharged
<1>1. Init => NoneFailedCharged
  BY DEF Init, NoneFailedCharged
<1>2. Invariant /\ NoneFailedCharged /\ [Next]_vars => NoneFailedCharged'
  BY NoneFailedChargedStays DEF Invariant, Typed, Base
<1>3. NoneFailedCharged => FailedCallsAreNotCharged
  BY DEF NoneFailedCharged, FailedCallsAreNotCharged
<1> QED
  BY <1>1, <1>2, <1>3, InvariantHolds, PTL DEF Spec

\* Nothing held, nothing reserved: if amounts are whole cents the headroom of
\* a refused or failed call comes back in full, whatever goes wrong.
THEOREM HeadroomComesBack ==
    ASSUME WholeCents
    PROVE  Spec => []NothingHeldNothingReserved
<1>1. Invariant => NothingHeldNothingReserved
  <2> SUFFICES ASSUME Invariant, NEW a \in Agents, CallsOf(a, "held") = {}
               PROVE  rows[a].reserved = 0
    BY DEF NothingHeldNothingReserved
  <2>1. rows[a].reserved <= 0
    BY TotalOfNone DEF Invariant, Sums, ReservedAtMostHeld
  <2>2. rows[a].reserved \in Int /\ rows[a].reserved >= 0
    BY DEF Invariant, Typed, Base, RowsOK, Row, Column, RowChecks
  <2> QED
    BY <2>1, <2>2
<1> QED
  BY <1>1, InvariantHolds, PTL

-----------------------------------------------------------------------------
\* The total of a set of calls is at most that of a larger one.
LEMMA TotalGrows ==
    ASSUME NEW cost, NEW M \in Nat, NEW T, IsFiniteSet(T), \A c \in T : cost[c] \in 0..M,
           NEW S, S \subseteq T
    PROVE  Total(cost, S) \in Nat /\ Total(cost, T) \in Nat /\ Total(cost, S) <= Total(cost, T)
<1>1. IsFiniteSet(S) /\ \A c \in S : cost[c] \in 0..M
  BY FS_Subset
<1>2. MillsOf(cost, S) \subseteq MillsOf(cost, T)
  BY DEF MillsOf
<1>3. Cardinality(MillsOf(cost, S)) <= Cardinality(MillsOf(cost, T))
  BY <1>2, TotalIsNat, FS_Subset
<1> QED
  BY <1>1, <1>3, TotalIsNat DEF Total

\* Calls of agent a that have been charged, will not answer ok, and may have
\* taken out of the sum reserved what another call holds.
Overdrawn(a) ==
    {c \in CallsOf(a, "charged") : pc[c] \notin {"refund", "log_settle", "ok"}}

OverdrawnNext(a) ==
    {c \in CallsNext(a, "charged") : pc'[c] \notin {"refund", "log_settle", "ok"}}

\* What the row of an agent lacks of the reservations it should hold has been
\* charged for calls that did not answer ok.
HoldsAreBacked ==
    \A a \in Agents :
        Total(Cost, CallsOf(a, "held")) <= rows[a].reserved + Total(Cost, Overdrawn(a))

\* A call that is overdrawn stays so, and a refund after a lost reply
\* overdraws a call that was not.
LEMMA OverdrawnStay ==
    ASSUME LocalsOK, Control, [Next]_vars, NEW a, NEW c \in Overdrawn(a)
    PROVE  c \in OverdrawnNext(a)
<1> USE DEF LocalsOK
<1>1. c \in Calls /\ AgentOf[c] = a /\ fate[c] = "charged" /\ Knows(c)
  BY DEF Overdrawn, CallsOf, Control
<1>2. pc[c] \notin {"refund", "log_settle", "ok", "run", "settle"} \union Unreserved
  BY <1>1 DEF Overdrawn, Knows
<1>3. CASE pc'[c] = pc[c] /\ fate'[c] = fate[c]
  BY <1>1, <1>2, <1>3 DEF OverdrawnNext, CallsNext
<1>4. CASE Begin(c) \/ Reject(c) \/ Step(c)
  <2>1. Log(c) \/ LogFails(c) \/ Fail(c) \/ FailUnlogged(c) \/ RefundDenied(c)
    BY <1>2, <1>4 DEF Step, Begin, Reject, ReserveScan, ReserveWrite,
       ReserveRecheckFails, Diagnose, DiagnosePasses, DiagnosePermission, Tell,
       TellPermission, ToolRuns, ToolRaises, Settle, SettleDenied, Refund, RefundDenied,
       StatementFails, Go, Unreserved
  <2>2. fate'[c] = "charged" /\ pc'[c] \in {"fail", "raised"}
    BY <1>1, <1>2, <2>1, LogGoes DEF Log, LogFails, Fail, FailUnlogged, RefundDenied, Go,
       db, Unreserved
  <2> QED
    BY <1>1, <2>2 DEF OverdrawnNext, CallsNext
<1>5. CASE Crash(c)
  BY <1>1, <1>5 DEF Crash, Go, db, OverdrawnNext, CallsNext
<1> QED
  BY <1>1, <1>3, <1>4, <1>5, OwnSteps

\* The overdrawn calls become no fewer, and a refund after a lost reply adds its
\* own call to them.
LEMMA OverdrawnGrow ==
    ASSUME Base, Control, Control', [Next]_vars, NEW a \in Agents
    PROVE  /\ Total(Cost, Overdrawn(a)) \in Nat /\ Total(Cost, OverdrawnNext(a)) \in Nat
           /\ Total(Cost, Overdrawn(a)) <= Total(Cost, OverdrawnNext(a))
           /\ Cardinality(Overdrawn(a)) \in Nat /\ Cardinality(OverdrawnNext(a)) \in Nat
           /\ Cardinality(Overdrawn(a)) <= Cardinality(OverdrawnNext(a))
           /\ \A c \in Calls :
                 Refund(c) /\ AgentOf[c] = a /\ fate[c] = "charged" /\ fate' = fate =>
                     /\ Total(Cost, Overdrawn(a)) + Cost[c] <= Total(Cost, OverdrawnNext(a))
                     /\ Cardinality(Overdrawn(a)) + 1 <= Cardinality(OverdrawnNext(a))
<1> DEFINE Now == Overdrawn(a)
           Then == OverdrawnNext(a)
<1>1. Now \subseteq Then /\ Now \subseteq CallsOf(a, "charged") /\ Then \subseteq CallsNext(a, "charged")
  BY OverdrawnStay DEF Base, Overdrawn, OverdrawnNext
<1>2. /\ IsFiniteSet(CallsNext(a, "charged")) /\ MaxColumn \in Nat
      /\ \A c \in CallsNext(a, "charged") : Cost[c] \in 0..MaxColumn
  <2>1. CallsNext(a, "charged") \subseteq Calls /\ IsFiniteSet(Calls) /\ MaxColumn \in Nat
    BY CallsAssumption DEF CallsNext
  <2>2. \A c \in Calls : fate'[c] = "charged" => Cost[c] \in 1..MaxColumn
    BY DEF Control, Knows
  <2> QED
    BY <2>1, <2>2, FS_Subset DEF CallsNext
<1>3. IsFiniteSet(Then) /\ IsFiniteSet(Now) /\ \A c \in Then : Cost[c] \in 0..MaxColumn
  BY <1>1, <1>2, FS_Subset
<1>4. Total(Cost, Now) \in Nat /\ Total(Cost, Then) \in Nat /\ Total(Cost, Now) <= Total(Cost, Then)
  BY <1>1, <1>2, <1>3, TotalGrows
<1>5. Cardinality(Now) \in Nat /\ Cardinality(Then) \in Nat /\ Cardinality(Now) <= Cardinality(Then)
  BY <1>1, <1>3, FS_Subset, FS_CardinalityType
<1>6. ASSUME NEW c \in Calls, Refund(c), AgentOf[c] = a, fate[c] = "charged", fate' = fate
      PROVE  /\ Total(Cost, Now) + Cost[c] <= Total(Cost, Then)
             /\ Cardinality(Now) + 1 <= Cardinality(Then)
  <2>1. pc[c] = "refund" /\ pc'[c] \in {"fail", "log_refund"}
    BY <1>6 DEF Refund, Go, Base, LocalsOK
  <2>2. c \notin Now /\ c \in Then
    BY <1>6, <2>1 DEF Overdrawn, OverdrawnNext, CallsNext
  <2>3. Now \union {c} \subseteq Then /\ \A d \in Now \union {c} : Cost[d] \in 0..MaxColumn
    BY <1>1, <1>3, <2>2
  <2> HIDE DEF Now, Then
  <2>4. Total(Cost, Now \union {c}) = Total(Cost, Now) + Cost[c]
    BY <1>2, <1>3, <2>2, <2>3, TotalAdds
  <2>5. Total(Cost, Now \union {c}) <= Total(Cost, Then)
    BY <1>2, <1>3, <2>3, TotalGrows
  <2>6. Cardinality(Now \union {c}) = Cardinality(Now) + 1
    BY <1>3, <2>2, FS_AddElement
  <2>7. Cardinality(Now \union {c}) <= Cardinality(Then)
    BY <1>3, <2>3, FS_Subset
  <2> QED
    BY <2>4, <2>5, <2>6, <2>7
<1> QED
  BY <1>4, <1>5, <1>6

\* The sum reserved and the overdrawn calls back every reservation that is held.
LEMMA HoldsStayBacked ==
    ASSUME WholeCents, Base, Control, Base', Control', HoldsAreBacked, [Next]_vars
    PROVE  HoldsAreBacked'
<1> SUFFICES ASSUME NEW a \in Agents
             PROVE  Total(Cost, CallsNext(a, "held"))
                        <= rows'[a].reserved + Total(Cost, OverdrawnNext(a))
  BY DEF HoldsAreBacked, CallsOf, CallsNext, Overdrawn, OverdrawnNext
<1> DEFINE Owed == Total(Cost, Overdrawn(a))
           OwedNext == Total(Cost, OverdrawnNext(a))
           Held == Total(Cost, CallsOf(a, "held"))
           HeldNext == Total(Cost, CallsNext(a, "held"))
<1>1. Owed \in Nat /\ OwedNext \in Nat /\ Owed <= OwedNext
  BY OverdrawnGrow
<1>2. /\ rows[a].reserved \in Int /\ rows'[a].reserved \in Int
      /\ Held \in Nat /\ HeldNext \in Int
      /\ Held <= rows[a].reserved + Owed
  BY PricedCalls, TotalIsNat, SumsFollow DEF Base, RowsOK, Row, Column, HoldsAreBacked
<1>3. ASSUME NEW c \in Calls, Overdraws(c, a)
      PROVE  HeldNext <= rows'[a].reserved + OwedNext
  <2>1. Owed + Cost[c] <= OwedNext
    BY <1>3, OverdrawnGrow DEF Overdraws
  <2>2. rows'[a].reserved = rows[a].reserved - Cost[c] /\ Cost[c] \in Int
    BY <1>3, CostIsInt DEF Overdraws
  <2>3. HeldNext = Held
    BY <1>3 DEF Overdraws, CallsOf, CallsNext
  <2> QED
    BY <1>1, <1>2, <2>1, <2>2, <2>3
<1>4. CASE rows'[a].reserved - HeldNext = rows[a].reserved - Held
  BY <1>1, <1>2, <1>4
<1> QED
  BY <1>3, <1>4, SumsFollow

\* What calls answered ok for is charged and not overdrawn, or still held.
LEMMA AnsweredIsCommitted ==
    ASSUME Base, Control, NEW a
    PROVE  /\ Total(Cost, Answered(a)) \in Int
           /\ Total(Cost, CallsOf(a, "charged")) \in Int
           /\ Total(Cost, CallsOf(a, "held")) \in Int
           /\ Total(Cost, Overdrawn(a)) \in Int
           /\ Total(Cost, Answered(a)) + Total(Cost, Overdrawn(a))
                 <= Total(Cost, CallsOf(a, "charged")) + Total(Cost, CallsOf(a, "held"))
<1> DEFINE Charged == CallsOf(a, "charged")
           Paid == Charged \ Overdrawn(a)
           Held == CallsOf(a, "held")
<1>0. LocalsOK /\ Overdrawn(a) \subseteq Charged
  BY DEF Base, Overdrawn
<1>1. /\ IsFiniteSet(Charged) /\ IsFiniteSet(Held) /\ MaxColumn \in Nat
      /\ \A c \in Charged \union Held : Cost[c] \in 0..MaxColumn
  BY PricedCalls
<1>2. IsFiniteSet(Paid) /\ IsFiniteSet(Overdrawn(a)) /\ IsFiniteSet(Paid \union Held)
  BY <1>0, <1>1, FS_Subset, FS_Union
<1>3. Answered(a) \subseteq Paid \union Held
  BY <1>0 DEF Answered, CallsOf, Overdrawn, Control, Knows
<1>4. Total(Cost, Answered(a)) <= Total(Cost, Paid \union Held)
  BY <1>1, <1>2, <1>3, TotalGrows
<1>5. Total(Cost, Paid \union Held) = Total(Cost, Paid) + Total(Cost, Held)
  <2>1. Paid \intersect Held = {}
    BY DEF CallsOf
  <2> QED
    BY <1>1, <1>2, <2>1, TotalsAdd
<1>6. Total(Cost, Charged) = Total(Cost, Paid) + Total(Cost, Overdrawn(a))
  <2>1. Paid \intersect Overdrawn(a) = {} /\ Charged = Paid \union Overdrawn(a)
    BY <1>0
  <2> HIDE DEF Charged, Paid
  <2> QED
    BY <1>0, <1>1, <1>2, <2>1, TotalsAdd
<1>7. /\ Total(Cost, Paid) \in Nat /\ Total(Cost, Held) \in Nat
      /\ Total(Cost, Overdrawn(a)) \in Nat /\ Total(Cost, Answered(a)) \in Int
  <2>1. /\ \A c \in Paid : Cost[c] \in 0..MaxColumn
        /\ \A c \in Overdrawn(a) : Cost[c] \in 0..MaxColumn
        /\ \A c \in Paid \union Held : Cost[c] \in 0..MaxColumn
    BY <1>0, <1>1
  <2>2. Total(Cost, Answered(a)) \in Nat
    BY <1>1, <1>2, <1>3, <2>1, TotalGrows
  <2> QED
    BY <1>1, <1>2, <2>1, <2>2, TotalIsNat
<1> QED
  BY <1>4, <1>5, <1>6, <1>7

LEMMA OkIsCommitted ==
    ASSUME WholeCents, Invariant, HoldsAreBacked
    PROVE  OkWithinCap
<1> SUFFICES ASSUME NEW a \in Agents PROVE Total(Cost, Answered(a)) <= CapOf[a]
  BY DEF OkWithinCap
<1>1. Base /\ Control
  BY DEF Invariant, Typed
<1>2. /\ rows[a].spent = Total(Cost, CallsOf(a, "charged"))
      /\ Total(Cost, CallsOf(a, "held")) <= rows[a].reserved + Total(Cost, Overdrawn(a))
  BY DEF Invariant, Sums, SpentIsCharged, HoldsAreBacked
<1>3. /\ rows[a].spent + rows[a].reserved <= CapOf[a]
      /\ rows[a].spent \in Int /\ rows[a].reserved \in Int /\ CapOf[a] \in Int
  BY <1>1 DEF Base, RowsOK, CapsOK, Row, Column, RowChecks
<1> QED
  BY <1>1, <1>2, <1>3, AnsweredIsCommitted

\* "Agents cannot exceed their financial caps": what calls report as charged
\* when they answer ok stays within the cap of their agent, for prices of whole
\* cents, whatever fails: lost replies, crashes and denied settles included.
THEOREM OkStaysWithinCap ==
    ASSUME WholeCents
    PROVE  Spec => []OkWithinCap
<1>1. Init => HoldsAreBacked
  <2> SUFFICES ASSUME Init, NEW a \in Agents
               PROVE  Total(Cost, CallsOf(a, "held"))
                          <= rows[a].reserved + Total(Cost, Overdrawn(a))
    BY DEF HoldsAreBacked
  <2>1. CallsOf(a, "held") = {} /\ Overdrawn(a) = {} /\ rows[a].reserved = 0
    BY DEF Init, CallsOf, Overdrawn, NewRow
  <2> QED
    BY <2>1, TotalOfNone
<1>2. Invariant /\ Invariant' /\ HoldsAreBacked /\ [Next]_vars => HoldsAreBacked'
  BY HoldsStayBacked DEF Invariant, Typed, Base
<1>3. Invariant /\ HoldsAreBacked => OkWithinCap
  BY OkIsCommitted
<1> QED
  BY <1>1, <1>2, <1>3, InvariantHolds, PTL DEF Spec

-----------------------------------------------------------------------------
(* Amounts of any fraction of a cent: how far the columns drift.            *)

\* A value is stored within half a cent.
LEMMA StoredIsNear ==
    ASSUME NEW x \in Int
    PROVE  Stored(x) \in Int /\ Stored(x) - x <= 5 /\ x - Stored(x) <= 5
BY DEF Stored, RoundHalfUp, Half, Cent

\* So each UPDATE adds at most half a cent to the drift of a column.
LEMMA DriftGrows ==
    ASSUME NEW x \in Int, NEW y \in Int, NEW n \in Int, Near(x, y, n), NEW k \in Int
    PROVE  Near(Stored(x + k), y + k, n + 1)
<1>1. Half = 5
  BY DEF Half, Cent
<1>2. \A z \in Int : Stored(z) \in Int /\ Stored(z) - z <= 5 /\ z - Stored(z) <= 5
  BY StoredIsNear
<1>3. x - y <= 5 * n /\ y - x <= 5 * n
  BY <1>1 DEF Near
<1> DEFINE s == Stored(x + k)
<1>4. s \in Int /\ s - (x + k) <= 5 /\ (x + k) - s <= 5
  BY <1>2
<1> HIDE DEF s
<1>5. s - (y + k) <= 5 * (n + 1) /\ (y + k) - s <= 5 * (n + 1)
  BY <1>3, <1>4
<1> QED
  BY <1>1, <1>5 DEF Near, s

\* The drift of the sum spent, and if no reply is lost that of the sum reserved.
Drift == \A a \in Agents : SpentDrift(a) /\ (NoReplyLoss => ReservedDrift(a))

\* SpentDrift and ReservedDrift in the next state.
SpentDriftNext(a) ==
    Near(rows'[a].spent, Total(Cost, CallsNext(a, "charged")), CountNext(a, "charged"))

ReservedDriftNext(a) ==
    Near(rows'[a].reserved, Total(Cost, CallsNext(a, "held")), RewritesNext(a))

\* What the drift is computed from is a number.
LEMMA SumsAreInts ==
    ASSUME Base, Control, NEW a \in Agents
    PROVE  /\ rows[a].spent \in Int /\ rows[a].reserved \in Int
           /\ Total(Cost, CallsOf(a, "held")) \in Int
           /\ Total(Cost, CallsOf(a, "charged")) \in Int
           /\ Count(a, "charged") \in Int /\ Rewrites(a) \in Int
<1>1. rows[a].spent \in Int /\ rows[a].reserved \in Int
  BY DEF Base, RowsOK, Row, Column
<1>2. \A f : Count(a, f) \in Int
  BY CountsAreInts
<1>3. Rewrites(a) \in Int
  BY <1>2 DEF Rewrites
<1> QED
  BY <1>1, <1>2, <1>3, PricedCalls, TotalIsNat

\* No step lets a column drift further than the UPDATEs it counts.
LEMMA DriftStays ==
    ASSUME Base, Control, Drift, [Next]_vars, NEW a \in Agents
    PROVE  SpentDriftNext(a) /\ (NoReplyLoss => ReservedDriftNext(a))
<1>1. Near(rows[a].spent, Total(Cost, CallsOf(a, "charged")), Count(a, "charged"))
  BY DEF Drift, SpentDrift
<1>2. NoReplyLoss => Near(rows[a].reserved, Total(Cost, CallsOf(a, "held")), Rewrites(a))
  BY DEF Drift, ReservedDrift
<1>3. SpentSame(a) => SpentDriftNext(a)
  BY <1>1 DEF SpentSame, SpentDriftNext
<1>4. ASSUME NEW k \in Int, SpentRounded(a, k) PROVE SpentDriftNext(a)
  BY <1>1, <1>4, SumsAreInts, DriftGrows DEF SpentRounded, SpentDriftNext
<1>5. ASSUME NoReplyLoss, ReservedSame(a) PROVE ReservedDriftNext(a)
  BY <1>2, <1>5 DEF ReservedSame, ReservedDriftNext
<1>6. ASSUME NoReplyLoss, NEW k \in Int, ReservedRounded(a, k) PROVE ReservedDriftNext(a)
  <2>1. Near(rows[a].reserved, Total(Cost, CallsOf(a, "held")), Rewrites(a))
    BY <1>2, <1>6
  <2> QED
    BY <1>6, <2>1, SumsAreInts, DriftGrows DEF ReservedRounded, ReservedDriftNext
<1>7. ASSUME NoReplyLoss, NEW c \in Calls, Taken(c, a) PROVE FALSE
  BY <1>7 DEF Taken, Refund, Go, Control, Knows
<1> QED
  BY <1>3, <1>4, <1>5, <1>6, <1>7, RowsFollow

LEMMA DriftHolds == Spec => []Drift
<1>1. Init => Drift
  <2> SUFFICES ASSUME Init, NEW a \in Agents PROVE SpentDrift(a) /\ ReservedDrift(a)
    BY DEF Drift
  <2>1. rows[a].spent = 0 /\ rows[a].reserved = 0
    BY DEF Init, NewRow
  <2>2. CallsOf(a, "held") = {} /\ CallsOf(a, "charged") = {} /\ CallsOf(a, "released") = {}
    BY DEF Init, CallsOf
  <2>3. Count(a, "held") = 0 /\ Count(a, "charged") = 0 /\ Count(a, "released") = 0
    BY <2>2, FS_EmptySet DEF Count
  <2>4. Total(Cost, CallsOf(a, "held")) = 0 /\ Total(Cost, CallsOf(a, "charged")) = 0
    BY <2>2, TotalOfNone
  <2>5. Rewrites(a) = 0 /\ Near(0, 0, 0)
    BY <2>3 DEF Rewrites, Near, Half, Cent
  <2> QED
    BY <2>1, <2>3, <2>4, <2>5 DEF SpentDrift, ReservedDrift
<1>2. Base /\ Control /\ Drift /\ [Next]_vars => Drift'
  <2> SUFFICES ASSUME Base, Control, Drift, [Next]_vars PROVE Drift'
    OBVIOUS
  <2> QED
    BY DriftStays DEF Drift, NoReplyLoss, SpentDrift, ReservedDrift, SpentDriftNext,
       ReservedDriftNext, CallsOf, CallsNext, Count, CountNext, Rewrites, RewritesNext
<1>3. Invariant => Base /\ Control
  BY DEF Invariant, Typed
<1> QED
  BY <1>1, <1>2, <1>3, InvariantHolds, PTL DEF Spec

\* Prices of any fraction of a cent: the sums of a row stay within half a cent
\* for each UPDATE that wrote them, if no reply is lost.
THEOREM DriftStaysBounded ==
    ASSUME NoReplyLoss
    PROVE  Spec => []DriftIsBounded
<1>1. Drift => DriftIsBounded
  BY DEF Drift, DriftIsBounded
<1> QED
  BY <1>1, DriftHolds, PTL

\* What has been charged to an agent exceeds its cap by no more than the
\* roundings of its charges, whatever goes wrong and whatever the prices.
ChargedWithinRoundings ==
    \A a \in Agents :
        Total(Cost, CallsOf(a, "charged")) <= CapOf[a] + Half * Count(a, "charged")

\* The cap bounds what an agent is charged up to half a cent a charge, with
\* every fault and for prices of any fraction of a cent.
THEOREM ChargesWithinCap == Spec => []ChargedWithinRoundings
<1>1. Invariant /\ Drift => ChargedWithinRoundings
  <2> SUFFICES ASSUME Invariant, Drift, NEW a \in Agents
               PROVE  Total(Cost, CallsOf(a, "charged"))
                          <= CapOf[a] + Half * Count(a, "charged")
    BY DEF ChargedWithinRoundings
  <2>1. /\ rows[a] \in Row /\ RowChecks(rows[a]) /\ rows[a].cap = CapOf[a]
        /\ Total(Cost, CallsOf(a, "charged")) \in Int
    BY PricedCalls, TotalIsNat DEF Invariant, Typed, Base, RowsOK, CapsOK
  <2>2. /\ rows[a].spent \in Int /\ rows[a].reserved \in Int /\ CapOf[a] \in Int
        /\ rows[a].spent <= CapOf[a]
    BY <2>1 DEF Row, Column, RowChecks
  <2>3. Total(Cost, CallsOf(a, "charged")) - rows[a].spent <= Half * Count(a, "charged")
    BY DEF Drift, SpentDrift, Near
  <2>4. Half * Count(a, "charged") \in Int
    BY CountsAreInts DEF Half, Cent
  <2> DEFINE n == Half * Count(a, "charged")
  <2> HIDE DEF n
  <2>5. n \in Int /\ Total(Cost, CallsOf(a, "charged")) - rows[a].spent <= n
    BY <2>3, <2>4 DEF n
  <2>6. Total(Cost, CallsOf(a, "charged")) <= CapOf[a] + n
    BY <2>1, <2>2, <2>5
  <2> QED
    BY <2>6 DEF n
<1> QED
  BY <1>1, InvariantHolds, DriftHolds, PTL

\* How many times the UPDATEs of an agent's calls may have rounded its sum
\* reserved: once more for each call that may be overdrawn.
Roundings(a) == Rewrites(a) + Cardinality(Overdrawn(a))

\* HoldsAreBacked, and that reserved is not inflated, up to those roundings.
NearlyBacked ==
    \A a \in Agents :
        /\ rows[a].reserved - Total(Cost, CallsOf(a, "held")) <= Half * Roundings(a)
        /\ Total(Cost, CallsOf(a, "held")) - rows[a].reserved
              <= Total(Cost, Overdrawn(a)) + Half * Roundings(a)

LEMMA NearlyBackedStays ==
    ASSUME Base, Control, Base', Control', NearlyBacked, [Next]_vars
    PROVE  NearlyBacked'
<1> DEFINE N(a) == RewritesNext(a) + Cardinality(OverdrawnNext(a))
<1> SUFFICES ASSUME NEW a \in Agents
             PROVE  /\ rows'[a].reserved - Total(Cost, CallsNext(a, "held")) <= Half * N(a)
                    /\ Total(Cost, CallsNext(a, "held")) - rows'[a].reserved
                          <= Total(Cost, OverdrawnNext(a)) + Half * N(a)
  BY DEF NearlyBacked, Roundings, Rewrites, RewritesNext, Count, CountNext, CallsOf,
     CallsNext, Overdrawn, OverdrawnNext
<1> DEFINE Owed == Total(Cost, Overdrawn(a))
           OwedNext == Total(Cost, OverdrawnNext(a))
           Held == Total(Cost, CallsOf(a, "held"))
           HeldNext == Total(Cost, CallsNext(a, "held"))
           Over == Cardinality(Overdrawn(a))
           OverNext == Cardinality(OverdrawnNext(a))
           was == rows[a].reserved
           is == rows'[a].reserved
           n == Rewrites(a)
           m == RewritesNext(a)
<1>1. Owed \in Nat /\ OwedNext \in Nat /\ Owed <= OwedNext
  BY OverdrawnGrow
<1>2. Over \in Nat /\ OverNext \in Nat /\ Over <= OverNext
  BY OverdrawnGrow
<1>3. was \in Int /\ Held \in Int /\ n \in Int
  BY SumsAreInts
<1>4. was - Held <= 5 * (n + Over) /\ Held - was <= Owed + 5 * (n + Over)
  BY DEF NearlyBacked, Roundings, Half, Cent
<1>5. \A x \in Int : Stored(x) \in Int /\ Stored(x) - x <= 5 /\ x - Stored(x) <= 5
  BY StoredIsNear
<1> SUFFICES is - HeldNext <= 5 * (m + OverNext) /\ HeldNext - is <= OwedNext + 5 * (m + OverNext)
  BY DEF Half, Cent
<1>6. ASSUME ReservedSame(a)
      PROVE  is - HeldNext <= 5 * (m + OverNext) /\ HeldNext - is <= OwedNext + 5 * (m + OverNext)
  <2>1. is = was /\ HeldNext = Held /\ m = n
    BY <1>6 DEF ReservedSame
  <2> HIDE DEF is, was, Held, HeldNext, Owed, OwedNext, Over, OverNext, n, m
  <2> QED
    BY <1>1, <1>2, <1>3, <1>4, <2>1
<1>7. ASSUME NEW k \in Int, ReservedRounded(a, k)
      PROVE  is - HeldNext <= 5 * (m + OverNext) /\ HeldNext - is <= OwedNext + 5 * (m + OverNext)
  <2>1. is = Stored(was + k) /\ HeldNext = Held + k /\ m = n + 1
    BY <1>7 DEF ReservedRounded
  <2> HIDE DEF is, was, Held, HeldNext, Owed, OwedNext, Over, OverNext, n, m
  <2>2. is \in Int /\ is - (was + k) <= 5 /\ (was + k) - is <= 5
    BY <1>3, <1>5, <2>1
  <2> QED
    BY <1>1, <1>2, <1>3, <1>4, <2>1, <2>2
<1>8. ASSUME NEW c \in Calls, Taken(c, a)
      PROVE  is - HeldNext <= 5 * (m + OverNext) /\ HeldNext - is <= OwedNext + 5 * (m + OverNext)
  <2>1. Owed + Cost[c] <= OwedNext /\ Over + 1 <= OverNext
    BY <1>8, OverdrawnGrow DEF Taken
  <2>2. /\ is = Stored(was - Cost[c]) /\ Cost[c] \in Int /\ Cost[c] >= 0
        /\ \A f : CallsNext(a, f) = CallsOf(a, f)
    BY <1>8, CostIsInt, CallsAssumption DEF Taken, CallsNext, CallsOf
  <2>3. HeldNext = Held /\ m = n
    BY <2>2 DEF Rewrites, RewritesNext, Count, CountNext
  <2> HIDE DEF is, was, Held, HeldNext, Owed, OwedNext, Over, OverNext, n, m
  <2>4. is \in Int /\ is - (was - Cost[c]) <= 5 /\ (was - Cost[c]) - is <= 5
    BY <1>3, <1>5, <2>2
  <2> QED
    BY <1>1, <1>2, <1>3, <1>4, <2>1, <2>2, <2>3, <2>4
<1> QED
  BY <1>6, <1>7, <1>8, RowsFollow

\* What the calls of an agent report as charged exceeds its cap by no more than
\* the roundings of its row.
OkWithinRoundings ==
    \A a \in Agents :
        Total(Cost, Answered(a)) <= CapOf[a] + Half * (Count(a, "charged") + Roundings(a))

\* With every fault and for prices of any fraction of a cent, what calls report
\* as charged when they answer ok stays within the cap but for half a cent for
\* each UPDATE that rounded: a reserve of less than half a cent adds nothing.
THEOREM OkStaysNearCap == Spec => []OkWithinRoundings
<1>1. Init => NearlyBacked
  <2> SUFFICES ASSUME Init, NEW a \in Agents
               PROVE  /\ rows[a].reserved - Total(Cost, CallsOf(a, "held"))
                             <= Half * Roundings(a)
                      /\ Total(Cost, CallsOf(a, "held")) - rows[a].reserved
                             <= Total(Cost, Overdrawn(a)) + Half * Roundings(a)
    BY DEF NearlyBacked
  <2>1. /\ CallsOf(a, "held") = {} /\ CallsOf(a, "charged") = {}
        /\ CallsOf(a, "released") = {} /\ Overdrawn(a) = {} /\ rows[a].reserved = 0
    BY DEF Init, CallsOf, Overdrawn, NewRow
  <2>2. Roundings(a) = 0
    BY <2>1, FS_EmptySet DEF Roundings, Rewrites, Count
  <2> QED
    BY <2>1, <2>2, TotalOfNone DEF Half, Cent
<1>2. Invariant /\ Invariant' /\ NearlyBacked /\ [Next]_vars => NearlyBacked'
  BY NearlyBackedStays DEF Invariant, Typed
<1>3. Invariant /\ Drift /\ NearlyBacked => OkWithinRoundings
  <2> SUFFICES ASSUME Invariant, Drift, NearlyBacked, NEW a \in Agents
               PROVE  Total(Cost, Answered(a))
                          <= CapOf[a] + Half * (Count(a, "charged") + Roundings(a))
    BY DEF OkWithinRoundings
  <2> DEFINE Charged == Total(Cost, CallsOf(a, "charged"))
             Held == Total(Cost, CallsOf(a, "held"))
             Owed == Total(Cost, Overdrawn(a))
             Ok == Total(Cost, Answered(a))
             k == Count(a, "charged")
             n == Roundings(a)
  <2>1. Base /\ Control
    BY DEF Invariant, Typed
  <2>2. /\ Ok \in Int /\ Charged \in Int /\ Held \in Int /\ Owed \in Int
        /\ Ok + Owed <= Charged + Held
    BY <2>1, AnsweredIsCommitted
  <2>3. Charged - rows[a].spent <= 5 * k /\ Held - rows[a].reserved <= Owed + 5 * n
    BY DEF Drift, SpentDrift, Near, NearlyBacked, Half, Cent
  <2>4. /\ rows[a].spent + rows[a].reserved <= CapOf[a]
        /\ rows[a].spent \in Int /\ rows[a].reserved \in Int /\ CapOf[a] \in Int
    BY <2>1 DEF Base, RowsOK, CapsOK, Row, Column, RowChecks
  <2>5. k \in Int /\ n \in Int
    <3>1. Overdrawn(a) \subseteq Calls
      BY DEF Overdrawn, CallsOf
    <3>2. Cardinality(Overdrawn(a)) \in Nat
      BY <3>1, CallsAssumption, FS_Subset, FS_CardinalityType
    <3> QED
      BY <2>1, <3>2, SumsAreInts DEF Roundings
  <2> HIDE DEF Charged, Held, Owed, Ok, k, n
  <2>6. Ok <= CapOf[a] + 5 * (k + n)
    BY <2>2, <2>3, <2>4, <2>5
  <2> QED
    BY <2>6 DEF Ok, k, n, Half, Cent
<1> QED
  BY <1>1, <1>2, <1>3, InvariantHolds, DriftHolds, PTL DEF Spec

-----------------------------------------------------------------------------
\* Nobody edits permissions: each one is what the call's scan read.
ScanStillTrue == \A c \in Calls : pc[c] = "lock" => Permits(LimitOf(c), Cost[c])

LEMMA ScanStaysTrue ==
    ASSUME "permission" \notin Admin, LocalsOK, ScanStillTrue, [Next]_vars
    PROVE  ScanStillTrue'
<1> SUFFICES ASSUME NEW c \in Calls, pc'[c] = "lock"
             PROVE  Permits(LimitOf(c), Cost[c])'
  BY DEF ScanStillTrue
<1> USE DEF LocalsOK
<1>1. perms' = perms
  BY DEF Next, Step, vars, db, Begin, Reject, Crash, ReserveScan, ReserveWrite, Update,
     ReserveRecheckFails, Diagnose, DiagnosePasses, DiagnosePermission, Tell,
     TellPermission, ToolRuns, ToolRaises, Settle, SettleDenied, Refund, RefundDenied,
     Log, LogFails, Fail, FailUnlogged, StatementFails, Revoke, Activate, SetStatus,
     SetPermission
<1>2. ASSUME Begin(c) \/ Reject(c) \/ Crash(c) \/ ReserveWrite(c) \/ ReserveRecheckFails(c)
             \/ Diagnose(c) \/ DiagnosePasses(c) \/ DiagnosePermission(c) \/ Tell(c)
             \/ TellPermission(c) \/ ToolRuns(c) \/ ToolRaises(c) \/ Settle(c)
             \/ SettleDenied(c) \/ Refund(c) \/ RefundDenied(c) \/ Fail(c)
             \/ FailUnlogged(c) \/ StatementFails(c) \/ Log(c) \/ LogFails(c)
      PROVE  FALSE
  BY <1>2, LogGoes DEF Begin, Reject, Crash, ReserveWrite, ReserveRecheckFails, Diagnose,
     DiagnosePasses, DiagnosePermission, Tell, TellPermission, ToolRuns, ToolRaises,
     Settle, SettleDenied, Refund, RefundDenied, Fail, FailUnlogged, StatementFails,
     Handler, Go
<1>3. ASSUME ReserveScan(c) PROVE Permits(LimitOf(c), Cost[c])
  BY <1>3 DEF ReserveScan, Matches, Go
<1>4. Permits(LimitOf(c), Cost[c])
  BY <1>2, <1>3, OwnSteps DEF Step, ScanStillTrue
<1> QED
  BY <1>1, <1>4 DEF LimitOf

\* "There is no window between the check and the write": a reservation is made
\* under a permission for its cost, if no operator edits permissions meanwhile.
\* Revocations need no such condition: UPDATE evaluates the status again.
THEOREM GrantsArePermitted ==
    ASSUME "permission" \notin Admin
    PROVE  Spec => GrantedUnderPermission
<1>1. Init => ScanStillTrue
  BY DEF Init, ScanStillTrue
<1>2. Invariant /\ ScanStillTrue /\ [Next]_vars => ScanStillTrue'
  BY ScanStaysTrue DEF Invariant, Typed, Base
<1>3. ASSUME Invariant, ScanStillTrue, [Next]_vars,
             NEW c \in Calls, fate[c] = "none", fate'[c] = "held"
      PROVE  Permits(LimitOf(c), Cost[c])
  <2>1. Begin(c) \/ Reject(c) \/ Step(c) \/ Crash(c)
    BY <1>3, OwnSteps DEF Invariant, Typed, Base
  <2>2. fate \in [Calls -> Fates] /\ Knows(c)
    BY <1>3 DEF Invariant, Typed, Base, LocalsOK, Control
  <2>3. ReserveWrite(c)
    BY <1>3, <2>1, <2>2 DEF Step, Begin, Reject, Crash, ReserveScan, ReserveRecheckFails,
       Diagnose, DiagnosePasses, DiagnosePermission, Tell, TellPermission, ToolRuns,
       ToolRaises, Settle, SettleDenied, Refund, AfterRefund, RefundDenied, Log, LogFails,
       Fail, FailUnlogged, StatementFails, Update, db
  <2> QED
    BY <1>3, <2>3 DEF ReserveWrite, Go, ScanStillTrue
<1>4. Invariant /\ ScanStillTrue /\ [Next]_vars
        => [\A c \in Calls : fate[c] = "none" /\ fate'[c] = "held" =>
               Permits(LimitOf(c), Cost[c])]_vars
  BY <1>3
<1> QED
  BY <1>1, <1>2, <1>4, InvariantHolds, PTL DEF Spec, GrantedUnderPermission

-----------------------------------------------------------------------------
\* Agents stay active unless somebody revokes them.
AllActive == \A a \in Agents : rows[a].status = "active"

LEMMA AllActiveStays ==
    ASSUME "revoke" \notin Admin, RowsOK, AllActive, [Next]_vars
    PROVE  AllActive'
<1>1. CASE UNCHANGED <<rows, fate>>
  BY <1>1 DEF AllActive
<1>2. ASSUME NEW c \in Calls, ReserveWrite(c) \/ Settle(c) \/ Refund(c)
      PROVE  AllActive'
  <2>1. ASSUME NEW row, NEW f, Update(c, row, f), Registered(c) => row.status = "active"
        PROVE  AllActive'
    BY <2>1, UpdateOf DEF AllActive, Registered
  <2>2. ASSUME Registered(c)
        PROVE  /\ ReservedRow(RowOf(c), Cost[c]).status = "active"
               /\ SettledRow(RowOf(c), Cost[c], Cost[c]).status = "active"
               /\ RefundedRow(RowOf(c), Cost[c]).status = "active"
    <3>1. RowOf(c) \in Row /\ RowOf(c).status = "active"
      BY <2>2 DEF RowsOK, AllActive, Registered, RowOf
    <3> QED
      BY <3>1, UpdatesKeep
  <2> QED
    BY <1>2, <2>1, <2>2 DEF ReserveWrite, Settle, Refund
<1>3. ASSUME NEW a \in Agents, Revoke(a) \/ Activate(a) PROVE AllActive'
  <2>1. SetStatus(a, "active")
    BY <1>3 DEF Revoke, Activate
  <2> QED
    BY <2>1, StatusWrites DEF AllActive, RowsOK, Status
<1>4. ASSUME NEW c \in Calls, Begin(c) \/ Reject(c) \/ Crash(c) \/ Step(c)
      PROVE  UNCHANGED <<rows, fate>> \/ ReserveWrite(c) \/ Settle(c) \/ Refund(c)
  BY <1>4 DEF Begin, Reject, Crash, Step, ReserveScan, ReserveRecheckFails, Diagnose,
     DiagnosePasses, DiagnosePermission, Tell, TellPermission, ToolRuns, ToolRaises,
     SettleDenied, RefundDenied, Log, LogFails, Fail, FailUnlogged, StatementFails, db
<1>5. ASSUME NEW a \in Agents, NEW t \in ToolsCalled, NEW limit \in Limits,
             SetPermission(a, t, limit)
      PROVE  AllActive'
  BY <1>5 DEF SetPermission, AllActive
<1>6. ASSUME UNCHANGED vars PROVE UNCHANGED <<rows, fate>>
  BY <1>6 DEF vars, db
<1> QED
  BY <1>1, <1>2, <1>3, <1>4, <1>5, <1>6 DEF Next

\* The WHERE clause of settle and refund holds for a reservation of an active
\* agent.
LEMMA HeldMatches ==
    ASSUME WholeCents, NoReplyLoss, Invariant, AllActive,
           NEW c \in Calls, fate[c] = "held"
    PROVE  /\ SettleWhere(RowOf(c), Cost[c])
           /\ RowChecks(SettledRow(RowOf(c), Cost[c], Cost[c]))
<1>1. Registered(c)
  BY DEF Invariant, Control, Knows
<1> QED
  BY <1>1, HeldIsCovered DEF HeldCallsCanFinish, SettleWhere, AllActive, Registered, RowOf

\* A call that has settled, or has answered ok, has been charged.
OkIsCharged == \A c \in Calls : pc[c] \in {"log_settle", "ok"} => fate[c] = "charged"

LEMMA OkStaysCharged ==
    ASSUME WholeCents, NoReplyLoss, Invariant, AllActive, OkIsCharged, [Next]_vars
    PROVE  OkIsCharged'
<1> SUFFICES ASSUME NEW c \in Calls, pc'[c] \in {"log_settle", "ok"}
             PROVE  fate'[c] = "charged"
  BY DEF OkIsCharged
<1> USE DEF LocalsOK
<1>0. LocalsOK /\ Knows(c) /\ (pc[c] \in {"log_settle", "ok"} => fate[c] = "charged")
  BY DEF Invariant, Typed, Base, Control, OkIsCharged
<1>1. ASSUME Begin(c) \/ Reject(c) \/ Crash(c) \/ ReserveScan(c) \/ ReserveRecheckFails(c)
             \/ Diagnose(c) \/ DiagnosePasses(c) \/ DiagnosePermission(c) \/ Tell(c)
             \/ TellPermission(c) \/ ToolRuns(c) \/ ToolRaises(c) \/ ReserveWrite(c)
             \/ Refund(c) \/ RefundDenied(c) \/ Fail(c) \/ FailUnlogged(c)
             \/ StatementFails(c)
      PROVE  FALSE
  BY <1>0, <1>1 DEF Begin, Reject, Crash, ReserveScan, ReserveRecheckFails, Diagnose,
     DiagnosePasses, DiagnosePermission, Tell, TellPermission, ToolRuns, ToolRaises,
     ReserveWrite, Refund, RefundDenied, Fail, FailUnlogged, StatementFails, Handler, Go
<1>2. ASSUME Settle(c) PROVE fate'[c] = "charged"
  BY <1>0, <1>2 DEF Settle, Update
<1>3. ASSUME SettleDenied(c) PROVE FALSE
  <2>1. fate[c] = "held"
    BY <1>0, <1>3 DEF SettleDenied, Go, Knows
  <2> QED
    BY <1>3, <2>1, HeldMatches DEF SettleDenied
<1>4. ASSUME Log(c) \/ LogFails(c) PROVE fate'[c] = "charged"
  BY <1>0, <1>4, LogGoes DEF Log, LogFails, Go, db
<1> QED
  BY <1>0, <1>1, <1>2, <1>3, <1>4, OwnSteps DEF Step

\* "The reservation is cleared": a call that answers ok holds nothing, if no
\* agent is revoked, amounts are whole cents and no reply is lost.
THEOREM OkClears ==
    ASSUME "revoke" \notin Admin, WholeCents, NoReplyLoss
    PROVE  Spec => []OkClearsReservation
<1>1. Init => AllActive /\ OkIsCharged
  BY DEF Init, AllActive, NewRow, OkIsCharged
<1>2. Invariant /\ AllActive /\ [Next]_vars => AllActive'
  BY AllActiveStays DEF Invariant, Typed, Base
<1>3. Invariant /\ AllActive /\ OkIsCharged /\ [Next]_vars => OkIsCharged'
  BY OkStaysCharged
<1>4. OkIsCharged => OkClearsReservation
  BY DEF OkIsCharged, OkClearsReservation
<1> QED
  BY <1>1, <1>2, <1>3, <1>4, InvariantHolds, PTL DEF Spec

-----------------------------------------------------------------------------
(* Every call that has begun ends.  The provers cannot look into ENABLED:   *)
(* that a suspended call can go on is a hypothesis, NeverStuck, which TLC   *)
(* checks.  The argument is a measure: each step of a call takes it closer  *)
(* to its end, and no step of another takes it back.                        *)

\* How many steps a call may still take.
Left(p) ==
    CASE p = "reserve"                                -> 8
      [] p = "lock"                                   -> 7
      [] p = "diagnose"                               -> 6
      [] p \in {"run", "diagnose_permission"}         -> 5
      [] p \in {"settle", "log_denied"}               -> 4
      [] p \in {"refund", "tell"}                     -> 3
      [] p \in {"log_refund", "tell_permission"}      -> 2
      [] p \in {"log_settle", "fail"}                 -> 1
      [] OTHER                                        -> 0

At(c, n) == pc[c] # "idle" /\ Left(pc[c]) = n
Under(c, n) == pc[c] # "idle" /\ Left(pc[c]) < n
Leaves(c, n) == At(c, n) ~> Under(c, n)

\* Each step of a call takes it closer to its end.
LEMMA StepsDescend ==
    ASSUME LocalsOK, NEW c \in Calls, Step(c)
    PROVE  pc'[c] # "idle" /\ Left(pc'[c]) < Left(pc[c])
<1> USE DEF LocalsOK, PCs, Running, Ended, Returned
<1>1. CASE ReserveScan(c) \/ ReserveWrite(c) \/ ReserveRecheckFails(c)
  BY <1>1 DEF ReserveScan, ReserveWrite, ReserveRecheckFails, Go, Left
<1>2. CASE Diagnose(c) \/ DiagnosePasses(c) \/ DiagnosePermission(c)
  BY <1>2 DEF Diagnose, DiagnosePasses, DiagnosePermission, Go, Left
<1>3. CASE Tell(c) \/ TellPermission(c)
  BY <1>3 DEF Tell, TellPermission, Go, Left
<1>4. CASE ToolRuns(c) \/ ToolRaises(c)
  BY <1>4 DEF ToolRuns, ToolRaises, Go, Left
<1>5. CASE Settle(c) \/ SettleDenied(c) \/ Refund(c) \/ RefundDenied(c)
  BY <1>5 DEF Settle, SettleDenied, Refund, RefundDenied, Go, Left
<1>6. CASE Log(c) \/ LogFails(c)
  BY <1>6, LogGoes DEF Go, Left
<1>7. CASE Fail(c) \/ FailUnlogged(c)
  BY <1>7 DEF Fail, FailUnlogged, Go, Left
<1>8. CASE StatementFails(c)
  BY <1>8 DEF StatementFails, Handler, Go, Left
<1> QED
  BY <1>1, <1>2, <1>3, <1>4, <1>5, <1>6, <1>7, <1>8 DEF Step

\* No step takes a call further from its end.
LEMMA NoneAscends ==
    ASSUME LocalsOK, [Next]_vars, NEW c \in Calls, pc[c] # "idle"
    PROVE  pc'[c] # "idle" /\ Left(pc'[c]) <= Left(pc[c])
<1>0. \A p : Left(p) \in 0..8
  BY DEF Left
<1>1. CASE pc'[c] = pc[c]
  BY <1>0, <1>1
<1>2. CASE Begin(c) \/ Reject(c)
  BY <1>2 DEF Begin, Reject, Go
<1>3. CASE Crash(c)
  <2>1. pc'[c] = "crashed"
    BY <1>3 DEF Crash, Go, LocalsOK
  <2> QED
    BY <1>0, <2>1 DEF Left
<1>4. CASE Step(c)
  BY <1>0, <1>4, StepsDescend
<1> QED
  BY <1>1, <1>2, <1>3, <1>4, OwnSteps

LEMMA LocalsHold == Spec => []LocalsOK
<1>1. Invariant => LocalsOK
  BY DEF Invariant, Typed, Base
<1> QED
  BY <1>1, InvariantHolds, PTL

\* What fairness gives, when a suspended call can go on.
LEMMA GoesOn ==
    ASSUME NEW c \in Calls
    PROVE  FairSpec /\ []NeverStuck
             => []<>~(pc[c] \in Running) \/ []<><<Step(c)>>_vars
<1>1. NeverStuck => (pc[c] \in Running => ENABLED <<Step(c)>>_vars)
  BY DEF NeverStuck
<1>2. Fairness => Resumed(c)
  BY DEF Fairness
<1> QED
  BY <1>1, <1>2, PTL DEF FairSpec, Resumed

\* A call does not stay for ever n steps from its end.
LEMMA Descends ==
    ASSUME NEW c \in Calls, NEW n \in {1, 2, 3, 4, 5, 6, 7, 8}
    PROVE  FairSpec /\ []NeverStuck => Leaves(c, n)
<1>0. \A p : Left(p) \in 0..8
  BY DEF Left
<1>1. LocalsOK /\ [Next]_vars /\ At(c, n) => At(c, n)' \/ Under(c, n)'
  BY <1>0, NoneAscends DEF At, Under
<1>2. LocalsOK /\ At(c, n) /\ <<Step(c)>>_vars => Under(c, n)'
  BY <1>0, StepsDescend DEF At, Under
<1>3. LocalsOK /\ At(c, n) => pc[c] \in Running
  BY DEF At, Left, Running
<1> QED
  BY <1>1, <1>2, <1>3, GoesOn, LocalsHold, PTL DEF FairSpec, Spec, Leaves

\* A call that is suspended ends.
LEMMA RunningEnds ==
    ASSUME NEW c \in Calls
    PROVE  FairSpec /\ []NeverStuck => (pc[c] \in Running ~> pc[c] \in Ended)
<1>0. \A p : Left(p) \in 0..8
  BY DEF Left
<1>1. pc[c] \in Running => At(c, 8) \/ Under(c, 8)
  BY <1>0 DEF At, Under, Running
<1>2. /\ Under(c, 8) => At(c, 7) \/ Under(c, 7)
      /\ Under(c, 7) => At(c, 6) \/ Under(c, 6)
      /\ Under(c, 6) => At(c, 5) \/ Under(c, 5)
      /\ Under(c, 5) => At(c, 4) \/ Under(c, 4)
      /\ Under(c, 4) => At(c, 3) \/ Under(c, 3)
      /\ Under(c, 3) => At(c, 2) \/ Under(c, 2)
      /\ Under(c, 2) => At(c, 1) \/ Under(c, 1)
  BY <1>0 DEF At, Under
<1>3. LocalsOK /\ Under(c, 1) => pc[c] \in Ended
  BY <1>0 DEF Under, Left, LocalsOK, PCs, Running
<1>4. FairSpec /\ []NeverStuck => Leaves(c, 8)
  BY Descends
<1>5. FairSpec /\ []NeverStuck => Leaves(c, 7)
  BY Descends
<1>6. FairSpec /\ []NeverStuck => Leaves(c, 6)
  BY Descends
<1>7. FairSpec /\ []NeverStuck => Leaves(c, 5)
  BY Descends
<1>8. FairSpec /\ []NeverStuck => Leaves(c, 4)
  BY Descends
<1>9. FairSpec /\ []NeverStuck => Leaves(c, 3)
  BY Descends
<1>10. FairSpec /\ []NeverStuck => Leaves(c, 2)
  BY Descends
<1>11. FairSpec /\ []NeverStuck => Leaves(c, 1)
  BY Descends
<1> QED
  BY <1>1, <1>2, <1>3, <1>4, <1>5, <1>6, <1>7, <1>8, <1>9, <1>10, <1>11, LocalsHold,
     PTL DEF FairSpec, Leaves

\* Every call that has begun returns, whatever fails, is revoked or edited
\* meanwhile, if the event loop resumes it whenever it can go on.
THEOREM CallsReturn == FairSpec /\ []NeverStuck => EveryCallReturns
<1>1. ASSUME NEW c \in Calls
      PROVE  FairSpec /\ []NeverStuck => (pc[c] = "reserve" ~> pc[c] \in Ended)
  <2>1. pc[c] = "reserve" => pc[c] \in Running
    BY DEF Running
  <2> QED
    BY <2>1, RunningEnds, PTL
<1> QED
  BY <1>1 DEF EveryCallReturns

\* Only the log may fail.
DatabaseAnswers == Faults \intersect {"statement", "reply", "crash"} = {}

\* A reservation is held by a call that is under way.
HeldWhileRunning(c) == fate[c] = "held" => pc[c] \in {"run", "settle", "refund"}

\* The sum reserved is enough for the settle of what c holds.
HeldIsCoveredBy(c) == fate[c] = "held" => Covers(RowOf(c), Cost[c])

\* A call whose reservation is covered keeps it under way, charges it or
\* releases it.
LEMMA HoldsStayRunning ==
    ASSUME DatabaseAnswers, Invariant, AllActive, NEW c \in Calls,
           HeldIsCoveredBy(c), HeldWhileRunning(c), [Next]_vars
    PROVE  /\ HeldWhileRunning(c)'
           /\ fate[c] = "held" => fate'[c] \in {"held", "charged", "released"}
<1> SUFFICES /\ fate'[c] = "held" => pc'[c] \in {"run", "settle", "refund"}
             /\ fate[c] = "held" => fate'[c] \in {"held", "charged", "released"}
  BY DEF HeldWhileRunning
<1> USE DEF LocalsOK
<1>0. /\ NoReplyLoss /\ LocalsOK /\ Knows(c)
      /\ fate[c] = "held" => pc[c] \in {"run", "settle", "refund"}
  BY DEF NoReplyLoss, DatabaseAnswers, Invariant, Typed, Base, Control, HeldWhileRunning
<1>1. ASSUME Begin(c) \/ Reject(c) \/ ReserveScan(c) \/ ReserveRecheckFails(c) \/ Diagnose(c)
             \/ DiagnosePasses(c) \/ DiagnosePermission(c) \/ Tell(c) \/ TellPermission(c)
             \/ Log(c) \/ LogFails(c) \/ Fail(c) \/ FailUnlogged(c)
      PROVE  fate'[c] = fate[c] /\ fate[c] # "held"
  BY <1>0, <1>1, LogGoes DEF Begin, Reject, ReserveScan, ReserveRecheckFails, Diagnose,
     DiagnosePasses, DiagnosePermission, Tell, TellPermission, Log, LogFails, Fail,
     FailUnlogged, Go, db
<1>2. ASSUME ToolRuns(c) \/ ToolRaises(c)
      PROVE  fate'[c] = fate[c] /\ pc'[c] \in {"settle", "refund"}
  BY <1>0, <1>2 DEF ToolRuns, ToolRaises, Go
<1>3. ASSUME ReserveWrite(c) PROVE fate[c] = "none" /\ pc'[c] = "run"
  BY <1>0, <1>3 DEF ReserveWrite, ReplyLost, NoReplyLoss, Go, Knows, Unreserved
<1>4. ASSUME Settle(c) PROVE fate'[c] = "charged"
  BY <1>0, <1>4 DEF Settle, Update
<1>5. ASSUME Refund(c) PROVE fate'[c] = "released"
  BY <1>0, <1>5 DEF Refund, AfterRefund, Update, Go, Knows
<1>6. ASSUME SettleDenied(c) \/ RefundDenied(c) PROVE FALSE
  <2>1. fate[c] = "held"
    BY <1>0, <1>6 DEF SettleDenied, RefundDenied, Go, Knows
  <2>2. Registered(c)
    BY <1>0, <2>1 DEF Knows
  <2> QED
    BY <1>6, <2>1, <2>2 DEF SettleDenied, RefundDenied, HeldIsCoveredBy, SettleWhere,
       AllActive, Registered, RowOf
<1>7. ASSUME StatementFails(c)
      PROVE  fate'[c] = fate[c] /\ (fate[c] = "held" => pc'[c] = "refund")
  <2>1. fate' = fate /\ BreaksCheck(c)
    BY <1>7 DEF StatementFails, DatabaseAnswers
  <2>2. pc[c] \in {"lock", "settle"}
    BY <2>1 DEF BreaksCheck
  <2> QED
    BY <1>0, <1>7, <2>1, <2>2 DEF StatementFails, Handler, Go
<1>8. ~Crash(c)
  BY DEF Crash, DatabaseAnswers
<1> QED
  BY <1>0, <1>1, <1>2, <1>3, <1>4, <1>5, <1>6, <1>7, <1>8, OwnSteps DEF Step

\* Every reservation that stays covered ends, charged or released, if agents
\* stay active and the database answers; the log may fail, and amounts may be
\* finer than the columns.
THEOREM HoldsEnd ==
    ASSUME DatabaseAnswers, "revoke" \notin Admin
    PROVE  FairSpec /\ []NeverStuck => EveryHoldEnds
<1>1. Init => AllActive
  BY DEF Init, AllActive, NewRow
<1>2. Invariant /\ AllActive /\ [Next]_vars => AllActive'
  BY AllActiveStays DEF Invariant, Typed, Base
<1>3. ASSUME NEW c \in Calls
      PROVE  FairSpec /\ []NeverStuck
               => ([](fate[c] = "held" => Covers(RowOf(c), Cost[c]))
                     => (fate[c] = "held" ~> fate[c] \in {"charged", "released"}))
  <2>1. Init => HeldWhileRunning(c)
    BY DEF Init, HeldWhileRunning
  <2>2. Invariant /\ AllActive /\ HeldIsCoveredBy(c) /\ HeldWhileRunning(c) /\ [Next]_vars
          => HeldWhileRunning(c)'
    BY HoldsStayRunning
  <2>3. HeldWhileRunning(c) /\ fate[c] = "held" => pc[c] \in Running
    BY DEF HeldWhileRunning, Running
  <2>4. ~(pc[c] \in Running /\ pc[c] \in Ended)
    BY DEF Running, Ended, Returned
  <2>5. Invariant /\ AllActive /\ HeldIsCoveredBy(c) /\ HeldWhileRunning(c) /\ [Next]_vars
          /\ fate[c] = "held"
          => (fate[c] = "held")' \/ (fate[c] \in {"charged", "released"})'
    BY HoldsStayRunning
  <2>6. (fate[c] = "held" => Covers(RowOf(c), Cost[c])) <=> HeldIsCoveredBy(c)
    BY DEF HeldIsCoveredBy
  <2> QED
    BY <1>1, <1>2, <2>1, <2>2, <2>3, <2>4, <2>5, <2>6, RunningEnds, InvariantHolds, PTL
    DEF FairSpec, Spec
<1> QED
  BY <1>3 DEF EveryHoldEnds

\* In whole cents each of them is, so that every reservation ends.
COROLLARY WholeHoldsEnd ==
    ASSUME DatabaseAnswers, WholeCents, "revoke" \notin Admin, NEW c \in Calls
    PROVE  FairSpec /\ []NeverStuck
             => (fate[c] = "held" ~> fate[c] \in {"charged", "released"})
<1>1. NoReplyLoss
  BY DEF NoReplyLoss, DatabaseAnswers
<1>2. Invariant => (fate[c] = "held" => Covers(RowOf(c), Cost[c]))
  BY <1>1, HeldIsCovered DEF HeldCallsCanFinish
<1>3. FairSpec /\ []NeverStuck
        => ([](fate[c] = "held" => Covers(RowOf(c), Cost[c]))
              => (fate[c] = "held" ~> fate[c] \in {"charged", "released"}))
  BY HoldsEnd DEF EveryHoldEnds
<1> QED
  BY <1>2, <1>3, InvariantHolds, PTL DEF FairSpec
=============================================================================
