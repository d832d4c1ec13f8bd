------------------------ MODULE GovernedCallsTheorems ------------------------
(***************************************************************************)
(* Proofs about the governed calls, for any number of calls, agents and    *)
(* tools, whatever Admin and Faults contain unless a theorem says so.      *)
(*                                                                         *)
(* The induction is in layers: the types; Control, which ties the fate of  *)
(* a call's cost to where the call is; the sums of the agents rows; and    *)
(* the audit_log.  Each layer uses those below it.                         *)
(***************************************************************************)
EXTENDS GovernedCalls, LedgerRowsTheorems

\* The amounts of disburse and the prices of the tools are whole cents.
WholeCents == \A c \in Calls : IsWhole(Cost[c])

NoReplyLoss == "reply" \notin Faults

PCs == {"idle"} \union Running \union Ended

LEMMA CostIsInt == \A c \in Calls : Cost[c] \in Int
BY CallsAssumption DEF Cost, Price, FixedPrice

-----------------------------------------------------------------------------
\* The steps that touch the agents rows or the fates, and all the others.
LEMMA MoneySteps ==
    ASSUME [Next]_vars
    PROVE  \/ UNCHANGED <<rows, fate>>
           \/ \E c \in Calls : ReserveWrite(c) \/ Settle(c) \/ Refund(c)
           \/ \E a \in Agents, s \in Status : SetStatus(a, s)
<1>1. CASE UNCHANGED vars
  BY <1>1 DEF vars, db
<1>2. ASSUME NEW c \in Calls, Begin(c) \/ Reject(c) \/ Crash(c) \/ Step(c)
      PROVE  UNCHANGED <<rows, fate>> \/ ReserveWrite(c) \/ Settle(c) \/ Refund(c)
  BY <1>2 DEF Begin, Reject, Crash, Step, ReserveScan, ReserveRecheckFails, Diagnose,
       DiagnosePasses, DiagnosePermission, Tell, TellPermission, ToolRuns, ToolRaises,
       SettleDenied, RefundDenied, Log, LogFails, Fail, FailUnlogged, StatementFails, db
<1>3. ASSUME NEW a \in Agents, Revoke(a) \/ Activate(a)
      PROVE  \E s \in Status : SetStatus(a, s)
  BY <1>3 DEF Revoke, Activate, Status
<1>4. ASSUME NEW a \in Agents, NEW t \in ToolsCalled, NEW limit \in Limits,
             SetPermission(a, t, limit)
      PROVE  UNCHANGED <<rows, fate>>
  BY <1>4 DEF SetPermission
<1> QED
  BY <1>1, <1>2, <1>3, <1>4 DEF Next

\* An UPDATE writes one row.
LEMMA UpdateWrites ==
    ASSUME rows \in [Agents -> {r \in Row : RowChecks(r)}],
           NEW c \in Calls, NEW row, NEW f, Update(c, row, f),
           Registered(c) => row \in Row
    PROVE  rows' \in [Agents -> {r \in Row : RowChecks(r)}]
BY DEF Update, Registered

LEMMA StatusWrites ==
    ASSUME rows \in [Agents -> {r \in Row : RowChecks(r)}],
           NEW a \in Agents, NEW s \in Status, SetStatus(a, s)
    PROVE  /\ rows' \in [Agents -> {r \in Row : RowChecks(r)}]
           /\ \A b \in Agents : /\ rows'[b].cap = rows[b].cap
                                /\ rows'[b].spent = rows[b].spent
                                /\ rows'[b].reserved = rows[b].reserved
                                /\ rows'[b].status = IF b = a THEN s ELSE rows[b].status
<1>1. rows' = [rows EXCEPT ![a] = [rows[a] EXCEPT !.status = s]]
  BY DEF SetStatus
<1>2. rows[a] \in Row /\ RowChecks(rows[a])
  OBVIOUS
<1> DEFINE row == [rows[a] EXCEPT !.status = s]
<1>3. row = [cap |-> rows[a].cap, spent |-> rows[a].spent,
             reserved |-> rows[a].reserved, status |-> s]
  BY <1>2, RowForms
<1>4. row \in Row /\ RowChecks(row)
  BY <1>2, <1>3 DEF Row, RowChecks
<1>5. rows' = [rows EXCEPT ![a] = row]
  BY <1>1
<1> HIDE DEF row
<1> QED
  BY <1>3, <1>4, <1>5

\* The table keeps its types and its CHECK constraints.
RowsOK == rows \in [Agents -> {r \in Row : RowChecks(r)}]

LEMMA RowsStaySound ==
    ASSUME RowsOK, [Next]_vars
    PROVE  RowsOK'
<1>1. CASE UNCHANGED <<rows, fate>>
  BY <1>1 DEF RowsOK
<1>2. ASSUME NEW c \in Calls, ReserveWrite(c) \/ Settle(c) \/ Refund(c)
      PROVE  RowsOK'
  <2>1. Registered(c) => RowOf(c) \in Row
    BY DEF RowsOK, Registered, RowOf
  <2>2. Cost[c] \in Int
    BY CostIsInt
  <2>3. Registered(c) => /\ ReservedRow(RowOf(c), Cost[c]) \in Row
                         /\ SettledRow(RowOf(c), Cost[c], Cost[c]) \in Row
                         /\ RefundedRow(RowOf(c), Cost[c]) \in Row
    BY <2>1, <2>2, RowsAreTyped
  <2> QED
    BY <1>2, <2>3, UpdateWrites DEF RowsOK, ReserveWrite, Settle, Refund
<1>3. ASSUME NEW a \in Agents, NEW s \in Status, SetStatus(a, s) PROVE RowsOK'
  BY <1>3, StatusWrites DEF RowsOK
<1> QED
  BY <1>1, <1>2, <1>3, MoneySteps

-----------------------------------------------------------------------------
\* What the diagnosis yields, whatever row and permission it reads.
LEMMA ReasonsAreTyped ==
    ASSUME NEW c \in Calls
    PROVE  /\ RowReason(c) \in Reasons \union {"passes"}
           /\ PermissionReason(LimitOf(c), Cost[c]) \in Reasons
BY DEF RowReason, AgentReason, PermissionReason, Reasons

\* Types of everything but the table.
LocalsOK ==
    /\ perms \in [Agents -> [ToolsCalled -> Limit]]
    /\ errors \in SUBSET Calls
    /\ pc \in [Calls -> PCs]
    /\ entry \in [Calls -> Entry]
    /\ told \in [Calls -> Reasons]
    /\ fate \in [Calls -> Fates]

LEMMA LocalsStayTyped ==
    ASSUME LocalsOK, [Next]_vars
    PROVE  LocalsOK'
<1> USE DEF LocalsOK
<1>1. CASE UNCHANGED vars
  BY <1>1 DEF vars, db
<1>2. ASSUME NEW c \in Calls, Begin(c) \/ Reject(c) \/ Crash(c) \/ ReserveScan(c)
                              \/ ReserveRecheckFails(c) \/ DiagnosePasses(c)
                              \/ ToolRuns(c) \/ ToolRaises(c) \/ LogFails(c)
                              \/ FailUnlogged(c) \/ StatementFails(c)
      PROVE  LocalsOK'
  BY <1>2 DEF Begin, Reject, Crash, ReserveScan, ReserveRecheckFails, DiagnosePasses,
       ToolRuns, ToolRaises, LogFails, FailUnlogged, StatementFails, Handler, AfterLog,
       Go, db, PCs, Running, Ended, Returned
<1>3. ASSUME NEW c \in Calls, Log(c) \/ Fail(c) PROVE LocalsOK'
  BY <1>3 DEF Log, Fail, AfterLog, Go, PCs, Running, Ended, Returned
<1>4. ASSUME NEW c \in Calls, ReserveWrite(c) PROVE LocalsOK'
  BY <1>4 DEF ReserveWrite, Update, Go, PCs, Running, Fates
<1>5. ASSUME NEW c \in Calls, NEW by \in {"reserve", "settle", "refund"},
             NEW decision \in {"allowed", "denied"},
             NEW reason \in Reasons \union {"ok", "settle_denied", "tool_execution_failed"},
             ToLog(c, by, decision, reason)
      PROVE  entry' \in [Calls -> Entry]
  BY <1>5 DEF ToLog, Entry
<1>6. ASSUME NEW c \in Calls, Diagnose(c) \/ DiagnosePermission(c) PROVE LocalsOK'
  <2>1. entry' \in [Calls -> Entry]
    BY <1>5, <1>6, ReasonsAreTyped DEF Diagnose, DiagnosePermission
  <2> QED
    BY <1>6, <2>1 DEF Diagnose, DiagnosePermission, Go, db, PCs, Running
<1>7. ASSUME NEW c \in Calls, Settle(c) \/ Refund(c) PROVE LocalsOK'
  <2>1. entry' \in [Calls -> Entry]
    BY <1>5, <1>7 DEF Settle, Refund
  <2> QED
    BY <1>7, <2>1 DEF Settle, Refund, AfterRefund, Update, Go, PCs, Running, Fates
<1>8. ASSUME NEW c \in Calls, SettleDenied(c) \/ RefundDenied(c) PROVE LocalsOK'
  <2>1. entry' \in [Calls -> Entry]
    BY <1>5, <1>8 DEF SettleDenied, RefundDenied
  <2> QED
    BY <1>8, <2>1 DEF SettleDenied, RefundDenied, Go, db, PCs, Running
<1>9. ASSUME NEW c \in Calls, Tell(c) \/ TellPermission(c) PROVE LocalsOK'
  BY <1>9, ReasonsAreTyped DEF Tell, TellPermission, Go, db, PCs, Ended, Returned
<1>10. ASSUME NEW a \in Agents, Revoke(a) \/ Activate(a) PROVE LocalsOK'
  BY <1>10 DEF Revoke, Activate, SetStatus
<1>11. ASSUME NEW a \in Agents, NEW t \in ToolsCalled, NEW limit \in Limits,
              SetPermission(a, t, limit)
       PROVE  LocalsOK'
  BY <1>11, CallsAssumption DEF SetPermission
<1> QED
  BY <1>1, <1>2, <1>3, <1>4, <1>6, <1>7, <1>8, <1>9, <1>10, <1>11 DEF Next, Step

LEMMA AuditStaysTyped ==
    ASSUME LocalsOK, audit \in Seq(AuditRow), [Next]_vars
    PROVE  audit' \in Seq(AuditRow)
<1>1. UNCHANGED audit \/ \E c \in Calls : Log(c)
  BY DEF Next, Step, vars, db, Begin, Reject, Crash, ReserveScan, ReserveWrite, Update,
     ReserveRecheckFails, Diagnose, DiagnosePasses, DiagnosePermission, Tell,
     TellPermission, ToolRuns, ToolRaises, Settle, SettleDenied, Refund, RefundDenied,
     LogFails, Fail, FailUnlogged, StatementFails, Revoke, Activate, SetStatus,
     SetPermission
<1>2. ASSUME NEW c \in Calls, Log(c) PROVE audit' \in Seq(AuditRow)
  BY <1>2 DEF Log, AppendEntry, AuditRow, LocalsOK
<1> QED
  BY <1>1, <1>2

\* The initial state is one of the table, the locals and an empty log.
LEMMA InitIsTyped == Init => RowsOK /\ LocalsOK /\ audit \in Seq(AuditRow)
<1> SUFFICES ASSUME Init PROVE RowsOK /\ LocalsOK /\ audit \in Seq(AuditRow)
  OBVIOUS
<1>1. ASSUME NEW a \in Agents PROVE NewRow(CapOf[a]) \in Row /\ RowChecks(NewRow(CapOf[a]))
  <2>1. CapOf[a] \in Nat /\ IsWhole(CapOf[a]) /\ IsWhole(0)
    BY CallsAssumption DEF IsWhole, Cent
  <2> QED
    BY <2>1 DEF NewRow, Row, Column, Status, RowChecks
<1>2. RowsOK
  BY <1>1 DEF Init, RowsOK
<1>3. LocalsOK
  BY CallsAssumption DEF Init, LocalsOK, PCs, NoEntry, Entry, Reasons, Fates
<1> QED
  BY <1>2, <1>3 DEF Init

\* Type correctness, the CHECK constraints included.
THEOREM CallsAreTyped == Spec => []TypeOK
<1> DEFINE Types == RowsOK /\ LocalsOK /\ audit \in Seq(AuditRow)
<1>1. Init => Types
  BY InitIsTyped
<1>2. Types /\ [Next]_vars => Types'
  BY RowsStaySound, LocalsStayTyped, AuditStaysTyped
<1>3. Types => TypeOK
  BY DEF TypeOK, RowsOK, LocalsOK, PCs
<1> QED
  BY <1>1, <1>2, <1>3, PTL DEF Spec

-----------------------------------------------------------------------------
\* Before its reservation, and when it is refused one, a call holds nothing.
Unreserved == {"idle", "error", "reserve", "lock", "diagnose", "diagnose_permission",
               "log_denied", "tell", "tell_permission", "denied"}

\* What the place of call c says of its cost and of the row it is to log.
Knows(c) ==
    /\ pc[c] \in Unreserved => fate[c] = "none"
    /\ pc[c] \in {"run", "settle"} => fate[c] = "held"
    /\ pc[c] = "refund" =>
          fate[c] \in {"held", "charged"} /\ (NoReplyLoss => fate[c] = "held")
    /\ pc[c] \in {"log_settle", "ok"} => fate[c] \in {"held", "charged"}
    /\ pc[c] \notin {"idle", "error"} => Cost[c] > 0
    /\ pc[c] = "lock" => Registered(c)
    /\ fate[c] # "none" => Registered(c) /\ Cost[c] \in 1..MaxColumn
    /\ pc[c] = "log_denied" => entry[c].by = "reserve"
    /\ pc[c] = "log_settle" => entry[c].by = "settle" /\ fate[c] = FateSaid(entry[c])
    /\ pc[c] = "log_refund" => entry[c].by = "refund"
                               /\ fate[c] \in {FateSaid(entry[c]), "charged"}
                               /\ (NoReplyLoss => fate[c] = FateSaid(entry[c]))

Control == \A c \in Calls : Knows(c)

CapsOK == \A a \in Agents : rows[a].cap = CapOf[a]

\* The invariant that Control is proved under.
Base == RowsOK /\ LocalsOK /\ CapsOK

LEMMA UpdateOf ==
    ASSUME RowsOK, NEW c \in Calls, NEW row, NEW f, Update(c, row, f)
    PROVE  \A a \in Agents : rows'[a] = IF a = AgentOf[c] THEN row ELSE rows[a]
BY DEF RowsOK, Update

LEMMA CapsStay ==
    ASSUME RowsOK, CapsOK, [Next]_vars
    PROVE  CapsOK'
<1>1. CASE UNCHANGED <<rows, fate>>
  BY <1>1 DEF CapsOK
<1>2. ASSUME NEW c \in Calls, ReserveWrite(c) \/ Settle(c) \/ Refund(c)
      PROVE  CapsOK'
  <2>1. ASSUME NEW row, NEW f, Update(c, row, f), Registered(c) => row.cap = RowOf(c).cap
        PROVE  CapsOK'
    BY <2>1, UpdateOf DEF CapsOK, RowOf, Registered
  <2>2. ASSUME Registered(c)
        PROVE  /\ ReservedRow(RowOf(c), Cost[c]).cap = RowOf(c).cap
               /\ SettledRow(RowOf(c), Cost[c], Cost[c]).cap = RowOf(c).cap
               /\ RefundedRow(RowOf(c), Cost[c]).cap = RowOf(c).cap
    <3>1. RowOf(c) \in Row
      BY <2>2 DEF RowsOK, Registered, RowOf
    <3> QED
      BY <3>1, UpdatesKeep
  <2> QED
    BY <1>2, <2>1, <2>2 DEF ReserveWrite, Settle, Refund
<1>3. ASSUME NEW a \in Agents, NEW s \in Status, SetStatus(a, s) PROVE CapsOK'
  BY <1>3, StatusWrites DEF CapsOK, RowsOK
<1> QED
  BY <1>1, <1>2, <1>3, MoneySteps

\* A call that passes reserve's conditions costs no more than a column holds.
LEMMA ReservedFits ==
    ASSUME Base, NEW c \in Calls, Registered(c), ReserveWhere(RowOf(c), Cost[c])
    PROVE  Cost[c] <= MaxColumn
<1>1. RowOf(c) \in Row /\ RowChecks(RowOf(c)) /\ RowOf(c).cap = CapOf[AgentOf[c]]
  BY DEF Base, RowsOK, CapsOK, Registered, RowOf
<1>2. RowOf(c).cap \in Int /\ RowOf(c).spent \in Int /\ RowOf(c).reserved \in Int
  BY <1>1 DEF Row, Column
<1>3. CapOf[AgentOf[c]] <= MaxColumn /\ MaxColumn \in Int
  BY CallsAssumption DEF Registered
<1> QED
  BY <1>1, <1>2, <1>3, CostIsInt DEF ReserveWhere, FitsCap, RowChecks

LEMMA LogGoes ==
    ASSUME NEW c, Log(c) \/ LogFails(c)
    PROVE  Go(c, "log_denied", "tell") \/ Go(c, "log_settle", "ok")
           \/ Go(c, "log_refund", "fail")
BY DEF Log, LogFails, AfterLog

LEMMA ControlStays ==
    ASSUME Base, Control, [Next]_vars
    PROVE  Control'
<1> SUFFICES ASSUME NEW d \in Calls PROVE Knows(d)'
  BY DEF Control
<1> USE DEF Base, LocalsOK
<1>0. Knows(d)
  BY DEF Control
<1>1. CASE UNCHANGED vars
  BY <1>0, <1>1 DEF vars, db, Knows, Registered
<1>2. ASSUME NEW c \in Calls, Begin(c) \/ Reject(c) PROVE Knows(d)'
  <2>1. ~BadAmount(c) => Cost[c] > 0
    BY CallsAssumption DEF BadAmount, Cost, Price, Tools, FixedPrice
  <2> QED
    BY <1>0, <1>2, <2>1 DEF Begin, Reject, Go, Knows, Registered, Unreserved
<1>3. ASSUME NEW c \in Calls, ReserveScan(c) \/ ReserveRecheckFails(c) PROVE Knows(d)'
  BY <1>0, <1>3 DEF ReserveScan, ReserveRecheckFails, Matches, Go, Knows, Registered,
     Unreserved
<1>4. ASSUME NEW c \in Calls, ReserveWrite(c) PROVE Knows(d)'
  <2>1. pc[c] = "lock" /\ Knows(c)
    BY <1>4 DEF ReserveWrite, Go, Control
  <2>2. Registered(c) /\ Cost[c] \in 1..MaxColumn
    BY <1>4, <2>1, ReservedFits, CostIsInt, CallsAssumption DEF ReserveWrite, Knows
  <2> QED
    BY <1>0, <1>4, <2>2 DEF ReserveWrite, Update, Go, Knows, Registered, Unreserved
<1>5. ASSUME NEW c \in Calls, Diagnose(c) \/ DiagnosePermission(c) \/ DiagnosePasses(c)
                              \/ Tell(c) \/ TellPermission(c)
      PROVE  Knows(d)'
  BY <1>0, <1>5 DEF Diagnose, DiagnosePermission, DiagnosePasses, Tell, TellPermission,
     ToLog, Go, Knows, Registered, Unreserved
<1>6. ASSUME NEW c \in Calls, ToolRuns(c) \/ ToolRaises(c) PROVE Knows(d)'
  BY <1>0, <1>6 DEF ToolRuns, ToolRaises, Go, Knows, Registered, Unreserved
<1>7. ASSUME NEW c \in Calls, Settle(c) PROVE Knows(d)'
  BY <1>0, <1>7 DEF Settle, Update, ToLog, ReplyLost, NoReplyLoss, Go, Knows, Registered,
     Unreserved, FateSaid
<1>8. ASSUME NEW c \in Calls, SettleDenied(c) PROVE Knows(d)'
  BY <1>0, <1>8 DEF SettleDenied, ToLog, Go, Knows, Registered, Unreserved, FateSaid
<1>9. ASSUME NEW c \in Calls, Refund(c) PROVE Knows(d)'
  BY <1>0, <1>9 DEF Refund, AfterRefund, Update, ToLog, Go, Knows, Registered, Unreserved,
     FateSaid
<1>10. ASSUME NEW c \in Calls, RefundDenied(c) PROVE Knows(d)'
  BY <1>0, <1>10 DEF RefundDenied, ToLog, Go, Knows, Registered, Unreserved, FateSaid
<1>11. ASSUME NEW c \in Calls, Log(c) \/ LogFails(c) PROVE Knows(d)'
  BY <1>0, <1>11, LogGoes DEF Log, LogFails, Go, Knows, Registered, Unreserved
<1>12. ASSUME NEW c \in Calls, Fail(c) \/ FailUnlogged(c) \/ StatementFails(c) \/ Crash(c)
       PROVE  Knows(d)'
  BY <1>0, <1>12 DEF Fail, FailUnlogged, StatementFails, Handler, Crash, Running, Go,
     Knows, Registered, Unreserved
<1>13. ASSUME NEW a \in Agents, Revoke(a) \/ Activate(a) PROVE Knows(d)'
  BY <1>0, <1>13 DEF Revoke, Activate, SetStatus, Knows, Registered
<1>14. ASSUME NEW a \in Agents, NEW t \in ToolsCalled, NEW limit \in Limits,
              SetPermission(a, t, limit)
       PROVE  Knows(d)'
  BY <1>0, <1>14 DEF SetPermission, Knows, Registered
<1> QED
  BY <1>1, <1>2, <1>3, <1>4, <1>5, <1>6, <1>7, <1>8, <1>9, <1>10, <1>11, <1>12, <1>13,
     <1>14 DEF Next, Step

-----------------------------------------------------------------------------
\* The calls whose cost is in a row are finitely many and priced.
LEMMA PricedCalls ==
    ASSUME Base, Control, NEW a, NEW f, f # "none"
    PROVE  /\ IsFiniteSet(CallsOf(a, f))
           /\ \A c \in CallsOf(a, f) : Cost[c] \in 0..MaxColumn
           /\ MaxColumn \in Nat
<1>1. CallsOf(a, f) \subseteq Calls /\ IsFiniteSet(Calls) /\ MaxColumn \in Nat
  BY CallsAssumption DEF CallsOf
<1>2. IsFiniteSet(CallsOf(a, f))
  BY <1>1, FS_Subset
<1>3. \A c \in CallsOf(a, f) : Cost[c] \in 1..MaxColumn
  BY DEF CallsOf, Control, Knows
<1> QED
  BY <1>1, <1>2, <1>3

\* CallsOf in the next state.
CallsNext(a, f) == {c \in Calls : AgentOf[c] = a /\ fate'[c] = f}

\* The fate of c goes from f to g.
Moves(c, f, g) ==
    /\ fate \in [Calls -> Fates] /\ c \in Calls
    /\ fate[c] = f /\ f # g
    /\ fate' = [fate EXCEPT ![c] = g]

\* When the fate of c goes from f to g, c moves between two sets of calls.
LEMMA FateMoves ==
    ASSUME NEW c, NEW f, NEW g, Moves(c, f, g), NEW a
    PROVE  /\ CallsNext(a, f) = IF a = AgentOf[c] THEN CallsOf(a, f) \ {c}
                                                  ELSE CallsOf(a, f)
           /\ CallsNext(a, g) = IF a = AgentOf[c] THEN CallsOf(a, g) \union {c}
                                                  ELSE CallsOf(a, g)
BY DEF CallsOf, CallsNext, Moves

\* The other sets of calls stay.
LEMMA OthersStay ==
    ASSUME NEW c, NEW f, NEW g, Moves(c, f, g), NEW h, h # f, h # g, NEW a
    PROVE  Total(Cost, CallsNext(a, h)) = Total(Cost, CallsOf(a, h))
<1>1. CallsNext(a, h) = CallsOf(a, h)
  BY DEF CallsOf, CallsNext, Moves
<1> QED
  BY <1>1

\* How the totals of an agent follow.
LEMMA TotalsMove ==
    ASSUME Base, Control, NEW c, NEW f, NEW g, Moves(c, f, g), NEW a,
           Cost[c] \in 0..MaxColumn
    PROVE  /\ f # "none" => Total(Cost, CallsNext(a, f)) =
                 IF a = AgentOf[c] THEN Total(Cost, CallsOf(a, f)) - Cost[c]
                                   ELSE Total(Cost, CallsOf(a, f))
           /\ g # "none" => Total(Cost, CallsNext(a, g)) =
                 IF a = AgentOf[c] THEN Total(Cost, CallsOf(a, g)) + Cost[c]
                                   ELSE Total(Cost, CallsOf(a, g))
<1>1. c \in Calls /\ fate[c] = f /\ f # g
  BY DEF Moves
<1>2. /\ CallsNext(a, f) = IF a = AgentOf[c] THEN CallsOf(a, f) \ {c} ELSE CallsOf(a, f)
      /\ CallsNext(a, g) = IF a = AgentOf[c] THEN CallsOf(a, g) \union {c} ELSE CallsOf(a, g)
  BY FateMoves
<1>3. ASSUME f # "none", a = AgentOf[c]
      PROVE  Total(Cost, CallsOf(a, f) \ {c}) = Total(Cost, CallsOf(a, f)) - Cost[c]
  <2>1. c \in CallsOf(a, f)
    BY <1>1, <1>3 DEF CallsOf
  <2> QED
    BY <1>3, <2>1, PricedCalls, TotalTakes
<1>4. ASSUME g # "none", a = AgentOf[c]
      PROVE  Total(Cost, CallsOf(a, g) \union {c}) = Total(Cost, CallsOf(a, g)) + Cost[c]
  <2>1. c \notin CallsOf(a, g)
    BY <1>1 DEF CallsOf
  <2>2. /\ IsFiniteSet(CallsOf(a, g)) /\ MaxColumn \in Nat
        /\ \A d \in CallsOf(a, g) \union {c} : Cost[d] \in 0..MaxColumn
    BY <1>4, PricedCalls
  <2> QED
    BY <2>1, <2>2, TotalAdds
<1> QED
  BY <1>2, <1>3, <1>4

\* The sums of the agents rows: the spent one always; the reserved one
\* exactly when no reply is lost, and from below when one may be.
Sums ==
    /\ SpentIsCharged
    /\ ReservedAtMostHeld
    /\ NoReplyLoss => ReservedIsHeld

LEMMA SumsStart == Init => Sums
<1> SUFFICES ASSUME Init, NEW a \in Agents
             PROVE  /\ rows[a].spent = 0 /\ rows[a].reserved = 0
                    /\ Total(Cost, CallsOf(a, "held")) = 0
                    /\ Total(Cost, CallsOf(a, "charged")) = 0
  BY DEF Sums, SpentIsCharged, ReservedAtMostHeld, ReservedIsHeld
<1>1. CallsOf(a, "held") = {} /\ CallsOf(a, "charged") = {}
  BY DEF Init, CallsOf
<1>2. rows[a].spent = 0 /\ rows[a].reserved = 0
  BY DEF Init, NewRow
<1> QED
  BY <1>1, <1>2, TotalOfNone

\* The sums that each UPDATE leaves in a row.
LEMMA RowSums ==
    ASSUME NEW row \in Row, NEW x
    PROVE  /\ ReservedRow(row, x).spent = row.spent
           /\ ReservedRow(row, x).reserved = Stored(row.reserved + x)
           /\ SettledRow(row, x, x).spent = Stored(row.spent + x)
           /\ SettledRow(row, x, x).reserved = Stored(row.reserved - x)
           /\ RefundedRow(row, x).spent = Stored(row.spent + 0)
           /\ RefundedRow(row, x).reserved = Stored(row.reserved - x)
BY DEF Row, ReservedRow, SettledRow, RefundedRow

CountNext(a, f) == Cardinality(CallsNext(a, f))

\* How the counts of an agent follow the fate of a call.
LEMMA CountsMove ==
    ASSUME NEW c, NEW f, NEW g, Moves(c, f, g), NEW a
    PROVE  /\ CountNext(a, f) = IF a = AgentOf[c] THEN Count(a, f) - 1 ELSE Count(a, f)
           /\ CountNext(a, g) = IF a = AgentOf[c] THEN Count(a, g) + 1 ELSE Count(a, g)
<1>1. \A h : IsFiniteSet(CallsOf(a, h))
  <2>1. \A h : CallsOf(a, h) \subseteq Calls
    BY DEF CallsOf
  <2> QED
    BY <2>1, CallsAssumption, FS_Subset
<1>2. c \in Calls /\ fate[c] = f /\ f # g
  BY DEF Moves
<1>3. a = AgentOf[c] => c \in CallsOf(a, f) /\ c \notin CallsOf(a, g)
  BY <1>2 DEF CallsOf
<1>4. /\ CallsNext(a, f) = IF a = AgentOf[c] THEN CallsOf(a, f) \ {c} ELSE CallsOf(a, f)
      /\ CallsNext(a, g) = IF a = AgentOf[c] THEN CallsOf(a, g) \union {c} ELSE CallsOf(a, g)
  BY FateMoves
<1>5. a = AgentOf[c] => Cardinality(CallsOf(a, f) \ {c}) = Cardinality(CallsOf(a, f)) - 1
  BY <1>1, <1>3, FS_RemoveElement
<1>6. a = AgentOf[c] => Cardinality(CallsOf(a, g) \union {c}) = Cardinality(CallsOf(a, g)) + 1
  BY <1>1, <1>3, FS_AddElement
<1> QED
  BY <1>4, <1>5, <1>6 DEF Count, CountNext

LEMMA CountsStay ==
    ASSUME NEW c, NEW f, NEW g, Moves(c, f, g), NEW h, h # f, h # g, NEW a
    PROVE  CountNext(a, h) = Count(a, h)
<1>1. CallsNext(a, h) = CallsOf(a, h)
  BY DEF CallsOf, CallsNext, Moves
<1> QED
  BY <1>1 DEF Count, CountNext

\* Counts of calls are numbers.
LEMMA CountsAreInts == \A a, f : Count(a, f) \in Int
<1>1. \A a, f : CallsOf(a, f) \subseteq Calls
  BY DEF CallsOf
<1> QED
  BY <1>1, CallsAssumption, FS_Subset, FS_CardinalityType DEF Count

RewritesNext(a) ==
    CountNext(a, "held") + 2 * CountNext(a, "charged") + 2 * CountNext(a, "released")

\* A step leaves the sum spent of agent a and its charges, or adds k to the
\* charges and, rounded, to the sum.
SpentSame(a) ==
    /\ rows'[a].spent = rows[a].spent
    /\ Total(Cost, CallsNext(a, "charged")) = Total(Cost, CallsOf(a, "charged"))
    /\ CountNext(a, "charged") = Count(a, "charged")

SpentRounded(a, k) ==
    /\ rows'[a].spent = Stored(rows[a].spent + k)
    /\ Total(Cost, CallsNext(a, "charged")) = Total(Cost, CallsOf(a, "charged")) + k
    /\ CountNext(a, "charged") = Count(a, "charged") + 1
    /\ WholeCents => IsWhole(k)

\* The same of the sum reserved and the reservations held.
ReservedSame(a) ==
    /\ rows'[a].reserved = rows[a].reserved
    /\ Total(Cost, CallsNext(a, "held")) = Total(Cost, CallsOf(a, "held"))
    /\ RewritesNext(a) = Rewrites(a)

ReservedRounded(a, k) ==
    /\ rows'[a].reserved = Stored(rows[a].reserved + k)
    /\ Total(Cost, CallsNext(a, "held")) = Total(Cost, CallsOf(a, "held")) + k
    /\ RewritesNext(a) = Rewrites(a) + 1
    /\ WholeCents => IsWhole(k)

\* A refund after a settle whose reply was lost takes cost, which another call
\* may hold, out of the sum reserved of agent a.
Taken(c, a) ==
    /\ Refund(c)
    /\ AgentOf[c] = a /\ fate[c] = "charged" /\ Cost[c] \in 0..MaxColumn
    /\ fate' = fate
    /\ rows'[a].reserved = Stored(rows[a].reserved - Cost[c])

\* A step changes the two sums of a row as it changes the totals of the calls,
\* up to one rounding: only a refund after a lost reply takes out what its own
\* call does not hold any more.
LEMMA RowsFollow ==
    ASSUME Base, Control, [Next]_vars, NEW a \in Agents
    PROVE  /\ SpentSame(a) \/ \E k \in Int : SpentRounded(a, k)
           /\ \/ ReservedSame(a)
              \/ \E k \in Int : ReservedRounded(a, k)
              \/ \E c \in Calls : Taken(c, a)
<1> DEFINE Held == Total(Cost, CallsOf(a, "held"))
           Charged == Total(Cost, CallsOf(a, "charged"))
           HeldNext == Total(Cost, CallsNext(a, "held"))
           ChargedNext == Total(Cost, CallsNext(a, "charged"))
           Spent == SpentSame(a) \/ \E k \in Int : SpentRounded(a, k)
           Reserved == \/ ReservedSame(a)
                       \/ \E k \in Int : ReservedRounded(a, k)
                       \/ \E c \in Calls : Taken(c, a)
<1> SUFFICES Spent /\ Reserved
  OBVIOUS
<1>1. /\ rows[a] \in Row /\ fate \in [Calls -> Fates]
      /\ rows[a].spent \in Int /\ IsWhole(rows[a].spent) /\ rows[a].reserved \in Int
      /\ Held \in Int /\ Charged \in Int
  <2>1. rows[a] \in Row /\ fate \in [Calls -> Fates]
    BY DEF Base, RowsOK, LocalsOK
  <2>2. rows[a].spent \in Column /\ rows[a].reserved \in Column
    BY <2>1 DEF Row
  <2> QED
    BY <2>1, <2>2, PricedCalls, TotalIsNat DEF Column
<1>2. \A f : Count(a, f) \in Int
  BY CountsAreInts
<1>3. ASSUME rows'[a].spent = rows[a].spent, rows'[a].reserved = rows[a].reserved, fate' = fate
      PROVE  SpentSame(a) /\ ReservedSame(a)
  <2>1. \A f : CallsNext(a, f) = CallsOf(a, f)
    BY <1>3 DEF CallsOf, CallsNext
  <2> QED
    BY <1>3, <2>1 DEF SpentSame, ReservedSame, Rewrites, RewritesNext, Count, CountNext
<1>4. ASSUME NEW c \in Calls, NEW row, NEW f, Update(c, row, f)
      PROVE  /\ rows'[a] = IF a = AgentOf[c] THEN row ELSE rows[a]
             /\ fate' = [fate EXCEPT ![c] = f]
  BY <1>4, UpdateOf DEF Base, Update
<1>5. ASSUME NEW c \in Calls, a = AgentOf[c]
      PROVE  /\ ReservedRow(RowOf(c), Cost[c]).spent = rows[a].spent
             /\ ReservedRow(RowOf(c), Cost[c]).reserved = Stored(rows[a].reserved + Cost[c])
             /\ SettledRow(RowOf(c), Cost[c], Cost[c]).spent = Stored(rows[a].spent + Cost[c])
             /\ SettledRow(RowOf(c), Cost[c], Cost[c]).reserved
                   = Stored(rows[a].reserved - Cost[c])
             /\ RefundedRow(RowOf(c), Cost[c]).spent = rows[a].spent
             /\ RefundedRow(RowOf(c), Cost[c]).reserved = Stored(rows[a].reserved - Cost[c])
  <2>1. RowOf(c) = rows[a]
    BY <1>5 DEF RowOf
  <2>2. rows[a].spent + 0 = rows[a].spent /\ Stored(rows[a].spent) = rows[a].spent
    BY <1>1, WholeIsStored
  <2> QED
    BY <1>1, <2>1, <2>2, RowSums
<1>6. ASSUME NEW c \in Calls, Cost[c] \in Int,
             rows'[a].reserved = Stored(rows[a].reserved - Cost[c]),
             HeldNext = Held - Cost[c], RewritesNext(a) = Rewrites(a) + 1
      PROVE  \E k \in Int : ReservedRounded(a, k)
  <2> DEFINE k == 0 - Cost[c]
  <2>1. k \in Int /\ rows[a].reserved + k = rows[a].reserved - Cost[c] /\ Held + k = HeldNext
    BY <1>1, <1>6
  <2>2. WholeCents => IsWhole(k)
    BY <1>6 DEF WholeCents, IsWhole, Cent
  <2> HIDE DEF k, Held, HeldNext
  <2>3. ReservedRounded(a, k)
    BY <1>6, <2>1, <2>2 DEF ReservedRounded, Held, HeldNext
  <2> QED
    BY <2>1, <2>3
<1>7. ASSUME NEW c \in Calls, ReserveWrite(c) PROVE Spent /\ Reserved
  <2>1. pc[c] = "lock" /\ Knows(c) /\ fate[c] = "none"
    BY <1>7 DEF ReserveWrite, Go, Control, Knows, Unreserved
  <2>2. Cost[c] \in 0..MaxColumn /\ Cost[c] \in Int /\ (WholeCents => IsWhole(Cost[c]))
    BY <1>7, <2>1, ReservedFits, CostIsInt, CallsAssumption DEF ReserveWrite, Knows, WholeCents
  <2>3. rows'[a] = IF a = AgentOf[c] THEN ReservedRow(RowOf(c), Cost[c]) ELSE rows[a]
    BY <1>4, <1>7 DEF ReserveWrite
  <2>4. Moves(c, "none", "held")
    BY <1>1, <1>4, <1>7, <2>1 DEF ReserveWrite, Moves
  <2>5. /\ HeldNext = IF a = AgentOf[c] THEN Held + Cost[c] ELSE Held
        /\ ChargedNext = Charged
    BY <2>1, <2>2, <2>4, TotalsMove, OthersStay
  <2>6. /\ CountNext(a, "held") = IF a = AgentOf[c] THEN Count(a, "held") + 1
                                                     ELSE Count(a, "held")
        /\ CountNext(a, "charged") = Count(a, "charged")
        /\ CountNext(a, "released") = Count(a, "released")
    BY <2>4, CountsMove, CountsStay
  <2>7. RewritesNext(a) = IF a = AgentOf[c] THEN Rewrites(a) + 1 ELSE Rewrites(a)
    BY <1>2, <2>6 DEF Rewrites, RewritesNext
  <2>8. SpentSame(a)
    BY <1>5, <2>3, <2>5, <2>6 DEF SpentSame
  <2>9. a = AgentOf[c] => ReservedRounded(a, Cost[c])
    BY <1>5, <2>2, <2>3, <2>5, <2>7 DEF ReservedRounded
  <2>10. a # AgentOf[c] => ReservedSame(a)
    BY <2>3, <2>5, <2>7 DEF ReservedSame
  <2> QED
    BY <2>2, <2>8, <2>9, <2>10
<1>8. ASSUME NEW c \in Calls, Settle(c) PROVE Spent /\ Reserved
  <2>1. /\ fate[c] = "held" /\ Cost[c] \in 0..MaxColumn /\ Cost[c] \in Int
        /\ WholeCents => IsWhole(Cost[c])
    BY <1>8, CostIsInt DEF Settle, Go, Control, Knows, WholeCents
  <2>2. rows'[a] = IF a = AgentOf[c] THEN SettledRow(RowOf(c), Cost[c], Cost[c]) ELSE rows[a]
    BY <1>4, <1>8 DEF Settle
  <2>3. Moves(c, "held", "charged")
    BY <1>1, <1>4, <1>8, <2>1 DEF Settle, Moves
  <2>4. /\ HeldNext = IF a = AgentOf[c] THEN Held - Cost[c] ELSE Held
        /\ ChargedNext = IF a = AgentOf[c] THEN Charged + Cost[c] ELSE Charged
    BY <2>1, <2>3, TotalsMove
  <2>5. /\ CountNext(a, "held") = IF a = AgentOf[c] THEN Count(a, "held") - 1
                                                     ELSE Count(a, "held")
        /\ CountNext(a, "charged") = IF a = AgentOf[c] THEN Count(a, "charged") + 1
                                                        ELSE Count(a, "charged")
        /\ CountNext(a, "released") = Count(a, "released")
    BY <2>3, CountsMove, CountsStay
  <2>6. RewritesNext(a) = IF a = AgentOf[c] THEN Rewrites(a) + 1 ELSE Rewrites(a)
    BY <1>2, <2>5 DEF Rewrites, RewritesNext
  <2>7. a = AgentOf[c] => SpentRounded(a, Cost[c])
    BY <1>5, <2>1, <2>2, <2>4, <2>5 DEF SpentRounded
  <2>8. a = AgentOf[c] => \E k \in Int : ReservedRounded(a, k)
    BY <1>5, <1>6, <2>1, <2>2, <2>4, <2>6
  <2>9. a # AgentOf[c] => SpentSame(a) /\ ReservedSame(a)
    BY <2>2, <2>4, <2>5, <2>6 DEF SpentSame, ReservedSame
  <2> QED
    BY <2>1, <2>7, <2>8, <2>9
<1>9. ASSUME NEW c \in Calls, Refund(c) PROVE Spent /\ Reserved
  <2>1. /\ fate[c] \in {"held", "charged"}
        /\ Cost[c] \in 0..MaxColumn /\ Cost[c] \in Int
    BY <1>9, CostIsInt DEF Refund, Go, Control, Knows
  <2>2. /\ rows'[a] = IF a = AgentOf[c] THEN RefundedRow(RowOf(c), Cost[c]) ELSE rows[a]
        /\ fate' = [fate EXCEPT ![c] = AfterRefund(c)]
    BY <1>4, <1>9 DEF Refund
  <2>3. /\ rows'[a].spent = rows[a].spent
        /\ rows'[a].reserved = IF a = AgentOf[c] THEN Stored(rows[a].reserved - Cost[c])
                                                  ELSE rows[a].reserved
    BY <1>5, <2>2
  <2>4. CASE fate[c] = "held"
    <3>1. Moves(c, "held", "released")
      BY <1>1, <2>2, <2>4 DEF AfterRefund, Moves
    <3>2. /\ HeldNext = IF a = AgentOf[c] THEN Held - Cost[c] ELSE Held
          /\ ChargedNext = Charged
      BY <2>1, <3>1, TotalsMove, OthersStay
    <3>3. /\ CountNext(a, "held") = IF a = AgentOf[c] THEN Count(a, "held") - 1
                                                       ELSE Count(a, "held")
          /\ CountNext(a, "released") = IF a = AgentOf[c] THEN Count(a, "released") + 1
                                                           ELSE Count(a, "released")
          /\ CountNext(a, "charged") = Count(a, "charged")
      BY <3>1, CountsMove, CountsStay
    <3>4. RewritesNext(a) = IF a = AgentOf[c] THEN Rewrites(a) + 1 ELSE Rewrites(a)
      BY <1>2, <3>3 DEF Rewrites, RewritesNext
    <3>5. SpentSame(a)
      BY <2>3, <3>2, <3>3 DEF SpentSame
    <3>6. a = AgentOf[c] => \E k \in Int : ReservedRounded(a, k)
      BY <1>6, <2>1, <2>3, <3>2, <3>4
    <3>7. a # AgentOf[c] => ReservedSame(a)
      BY <2>3, <3>2, <3>4 DEF ReservedSame
    <3> QED
      BY <3>5, <3>6, <3>7
  <2>5. CASE fate[c] = "charged"
    <3>1. fate' = fate
      BY <1>1, <2>2, <2>5 DEF AfterRefund
    <3>2. \A f : CallsNext(a, f) = CallsOf(a, f)
      BY <3>1 DEF CallsOf, CallsNext
    <3>3. SpentSame(a)
      BY <2>3, <3>2 DEF SpentSame, Count, CountNext
    <3>4. a = AgentOf[c] => Taken(c, a)
      BY <1>9, <2>1, <2>3, <2>5, <3>1 DEF Taken
    <3>5. a # AgentOf[c] => ReservedSame(a)
      BY <1>3, <2>3, <3>1
    <3> QED
      BY <3>3, <3>4, <3>5
  <2> QED
    BY <2>1, <2>4, <2>5
<1>10. ASSUME NEW b \in Agents, NEW s \in Status, SetStatus(b, s)
       PROVE  SpentSame(a) /\ ReservedSame(a)
  <2>1. rows'[a].spent = rows[a].spent /\ rows'[a].reserved = rows[a].reserved
    BY <1>10, StatusWrites DEF Base, RowsOK
  <2> QED
    BY <1>3, <1>10, <2>1 DEF SetStatus
<1>11. CASE UNCHANGED <<rows, fate>>
  BY <1>3, <1>11
<1> HIDE DEF Spent, Reserved
<1>12. SpentSame(a) /\ ReservedSame(a) => Spent /\ Reserved
  BY DEF Spent, Reserved
<1> QED
  BY <1>7, <1>8, <1>9, <1>10, <1>11, <1>12, MoneySteps

\* Such a refund for a cost of whole cents.
Overdraws(c, a) ==
    /\ Refund(c)
    /\ AgentOf[c] = a /\ fate[c] = "charged" /\ Cost[c] \in 0..MaxColumn
    /\ fate' = fate
    /\ rows'[a].reserved = rows[a].reserved - Cost[c]

\* A step changes the sum spent of an agent as it changes the total of its
\* charged calls, and the sum reserved as the total of its holds: only a refund
\* after a lost reply takes out what its own call does not hold any more.
LEMMA SumsFollow ==
    ASSUME WholeCents, Base, Control, [Next]_vars, NEW a \in Agents
    PROVE  /\ Total(Cost, CallsNext(a, "held")) \in Int
           /\ Total(Cost, CallsNext(a, "charged")) \in Int
           /\ rows'[a].spent - Total(Cost, CallsNext(a, "charged"))
                 = rows[a].spent - Total(Cost, CallsOf(a, "charged"))
           /\ \/ rows'[a].reserved - Total(Cost, CallsNext(a, "held"))
                    = rows[a].reserved - Total(Cost, CallsOf(a, "held"))
              \/ \E c \in Calls : Overdraws(c, a)
<1>1. /\ rows[a].spent \in Int /\ IsWhole(rows[a].spent)
      /\ rows[a].reserved \in Int /\ IsWhole(rows[a].reserved)
  <2>1. rows[a].spent \in Column /\ rows[a].reserved \in Column
    BY DEF Base, RowsOK, Row
  <2> QED
    BY <2>1 DEF Column
<1>2. \A x, y \in Int : IsWhole(x) /\ IsWhole(y) =>
         Stored(x + y) = x + y /\ Stored(x - y) = x - y
  BY WholeArithmetic, WholeIsStored
<1> DEFINE Held == Total(Cost, CallsOf(a, "held"))
           Charged == Total(Cost, CallsOf(a, "charged"))
           HeldNext == Total(Cost, CallsNext(a, "held"))
           ChargedNext == Total(Cost, CallsNext(a, "charged"))
<1>3. Held \in Int /\ Charged \in Int
  BY PricedCalls, TotalIsNat
<1>4. /\ ChargedNext \in Int
      /\ rows'[a].spent - ChargedNext = rows[a].spent - Charged
  <2>1. CASE SpentSame(a)
    BY <1>3, <2>1 DEF SpentSame
  <2>2. ASSUME NEW k \in Int, SpentRounded(a, k)
        PROVE  /\ ChargedNext \in Int
               /\ rows'[a].spent - ChargedNext = rows[a].spent - Charged
    <3>1. /\ rows'[a].spent = Stored(rows[a].spent + k) /\ ChargedNext = Charged + k
          /\ IsWhole(k)
      BY <2>2 DEF SpentRounded
    <3> HIDE DEF Charged, ChargedNext
    <3>2. rows'[a].spent = rows[a].spent + k
      BY <1>1, <1>2, <3>1
    <3> QED
      BY <1>1, <1>3, <3>1, <3>2
  <2> QED
    BY <2>1, <2>2, RowsFollow
<1>5. ASSUME NEW k \in Int, ReservedRounded(a, k)
      PROVE  /\ HeldNext \in Int
             /\ rows'[a].reserved - HeldNext = rows[a].reserved - Held
  <2>1. /\ rows'[a].reserved = Stored(rows[a].reserved + k) /\ HeldNext = Held + k
        /\ IsWhole(k)
    BY <1>5 DEF ReservedRounded
  <2> HIDE DEF Held, HeldNext
  <2>2. rows'[a].reserved = rows[a].reserved + k
    BY <1>1, <1>2, <2>1
  <2> QED
    BY <1>1, <1>3, <2>1, <2>2
<1>6. ASSUME NEW c \in Calls, Taken(c, a)
      PROVE  HeldNext \in Int /\ Overdraws(c, a)
  <2>1. Cost[c] \in Int /\ IsWhole(Cost[c])
    BY CostIsInt DEF WholeCents
  <2>2. Stored(rows[a].reserved - Cost[c]) = rows[a].reserved - Cost[c]
    BY <1>1, <1>2, <2>1
  <2>3. CallsNext(a, "held") = CallsOf(a, "held")
    BY <1>6 DEF Taken, CallsOf, CallsNext
  <2> QED
    BY <1>3, <1>6, <2>2, <2>3 DEF Taken, Overdraws
<1>7. ReservedSame(a) =>
          HeldNext \in Int /\ rows'[a].reserved - HeldNext = rows[a].reserved - Held
  BY <1>3 DEF ReservedSame
<1> QED
  BY <1>4, <1>5, <1>6, <1>7, RowsFollow

LEMMA SumsStay ==
    ASSUME WholeCents, Base, Control, Sums, [Next]_vars
    PROVE  Sums'
<1> SUFFICES ASSUME NEW a \in Agents
             PROVE  /\ rows'[a].spent = Total(Cost, CallsNext(a, "charged"))
                    /\ rows'[a].reserved <= Total(Cost, CallsNext(a, "held"))
                    /\ NoReplyLoss => rows'[a].reserved = Total(Cost, CallsNext(a, "held"))
  BY DEF Sums, SpentIsCharged, ReservedAtMostHeld, ReservedIsHeld, NoReplyLoss,
     CallsOf, CallsNext
<1>0. /\ rows[a].spent = Total(Cost, CallsOf(a, "charged"))
      /\ rows[a].reserved <= Total(Cost, CallsOf(a, "held"))
      /\ NoReplyLoss => rows[a].reserved = Total(Cost, CallsOf(a, "held"))
  BY DEF Sums, SpentIsCharged, ReservedAtMostHeld, ReservedIsHeld
<1>1. /\ rows[a].spent \in Int /\ rows[a].reserved \in Int
      /\ Total(Cost, CallsOf(a, "held")) \in Nat /\ Total(Cost, CallsOf(a, "charged")) \in Nat
  BY PricedCalls, TotalIsNat DEF Base, RowsOK, Row, Column
<1>2. ASSUME NoReplyLoss, NEW c \in Calls, Overdraws(c, a) PROVE FALSE
  BY <1>2 DEF Overdraws, Refund, Go, Control, Knows
<1>3. ASSUME NEW c \in Calls, Overdraws(c, a)
      PROVE  rows'[a].reserved <= Total(Cost, CallsNext(a, "held"))
  <2>1. CallsNext(a, "held") = CallsOf(a, "held")
    BY <1>3 DEF Overdraws, CallsOf, CallsNext
  <2>2. rows'[a].reserved = rows[a].reserved - Cost[c] /\ Cost[c] \in 0..MaxColumn
    BY <1>3 DEF Overdraws
  <2> QED
    BY <1>0, <1>1, <2>1, <2>2, CallsAssumption
<1>4. rows'[a].spent \in Int /\ rows'[a].reserved \in Int
  BY RowsStaySound DEF Base, RowsOK, Row, Column
<1> QED
  BY <1>0, <1>1, <1>2, <1>3, <1>4, SumsFollow

-----------------------------------------------------------------------------
\* Where a call can be once its row is in the audit_log, and where it can
\* only be after it tried to append one.
Logged == {"tell", "tell_permission", "denied", "ok", "fail", "raised", "crashed"}
Answering == {"tell", "tell_permission", "denied", "ok"}

HasRow(c) == \E i \in DOMAIN audit : audit[i].call = c

RowsOnce == \A i, j \in DOMAIN audit : audit[i].call = audit[j].call => i = j
RowsLogged == \A i \in DOMAIN audit : pc[audit[i].call] \in Logged
AnswersLogged ==
    "log" \notin Faults =>
        \A c \in Calls : pc[c] \in Answering /\ Fits(c) => HasRow(c)

\* The audit_log, under Base and Control.
Trail ==
    /\ RowsOnce /\ RowsLogged /\ AnswersLogged
    /\ OnlyRefundRowsErr
    /\ NoReplyLoss => AuditMatchesMoney

Typed == Base /\ audit \in Seq(AuditRow)

\* A step other than an append leaves the log as it is, and the calls that
\* have a row with their fate and among the places of Logged; a call begins
\* to answer only by an append that succeeds or fails.
LEMMA QuietSteps ==
    ASSUME Base, [Next]_vars, \A c \in Calls : ~Log(c)
    PROVE  /\ UNCHANGED audit
           /\ \A d \in Calls : pc[d] \in Logged => pc'[d] \in Logged /\ fate'[d] = fate[d]
           /\ \A d \in Calls : pc'[d] \in Answering =>
                 pc[d] \in Answering \/ "log" \in Faults \/ ~Fits(d)
<1> USE DEF Base, LocalsOK, Logged, Answering
<1>1. CASE UNCHANGED vars
  BY <1>1 DEF vars, db
<1>2. ASSUME NEW c \in Calls, Begin(c) \/ Reject(c) \/ Crash(c) \/ ReserveScan(c)
                              \/ ReserveRecheckFails(c) \/ DiagnosePasses(c)
                              \/ ToolRuns(c) \/ ToolRaises(c)
                              \/ FailUnlogged(c) \/ Fail(c) \/ StatementFails(c)
      PROVE  /\ UNCHANGED <<audit, fate>>
             /\ \A d \in Calls : pc[d] \in Logged => pc'[d] \in Logged
             /\ \A d \in Calls : pc'[d] \in Answering => pc[d] \in Answering
  BY <1>2 DEF Begin, Reject, Crash, Running, ReserveScan, ReserveRecheckFails,
     DiagnosePasses, ToolRuns, ToolRaises, FailUnlogged, Fail, StatementFails, Handler,
     Go, db
<1>3. ASSUME NEW c \in Calls, Diagnose(c) \/ DiagnosePermission(c) \/ Tell(c)
                              \/ TellPermission(c) \/ SettleDenied(c) \/ RefundDenied(c)
      PROVE  /\ UNCHANGED <<audit, fate>>
             /\ \A d \in Calls : pc[d] \in Logged => pc'[d] \in Logged
             /\ \A d \in Calls : pc'[d] \in Answering => pc[d] \in Answering
  BY <1>3 DEF Diagnose, DiagnosePermission, Tell, TellPermission, SettleDenied,
     RefundDenied, Go, db
<1>4. ASSUME NEW c \in Calls, ReserveWrite(c) \/ Settle(c) \/ Refund(c)
      PROVE  /\ UNCHANGED audit
             /\ \A d \in Calls : pc[d] \in Logged => pc'[d] \in Logged /\ fate'[d] = fate[d]
             /\ \A d \in Calls : pc'[d] \in Answering => pc[d] \in Answering
  BY <1>4 DEF ReserveWrite, Settle, Refund, Update, Go
<1>5. ASSUME NEW c \in Calls, LogFails(c)
      PROVE  /\ UNCHANGED <<audit, fate>>
             /\ \A d \in Calls : pc[d] \in Logged => pc'[d] \in Logged
             /\ \A d \in Calls : pc'[d] \in Answering =>
                   pc[d] \in Answering \/ "log" \in Faults \/ ~Fits(d)
  BY <1>5, LogGoes DEF LogFails, Go, db
<1>6. ASSUME NEW a \in Agents, Revoke(a) \/ Activate(a)
      PROVE  UNCHANGED <<audit, fate, pc>>
  BY <1>6 DEF Revoke, Activate, SetStatus
<1>7. ASSUME NEW a \in Agents, NEW t \in ToolsCalled, NEW limit \in Limits,
             SetPermission(a, t, limit)
      PROVE  UNCHANGED <<audit, fate, pc>>
  BY <1>7 DEF SetPermission
<1> QED
  BY <1>1, <1>2, <1>3, <1>4, <1>5, <1>6, <1>7 DEF Next, Step

\* The rows of the log are of calls.
LEMMA RowCalls ==
    ASSUME audit \in Seq(AuditRow)
    PROVE  \A i \in DOMAIN audit : audit[i].call \in Calls
<1>1. \A i \in DOMAIN audit : audit[i] \in AuditRow
  OBVIOUS
<1> QED
  BY <1>1 DEF AuditRow

LEMMA TrailStays ==
    ASSUME Typed, Control, Trail, [Next]_vars
    PROVE  Trail'
<1> USE DEF Typed
<1>1. CASE \A c \in Calls : ~Log(c)
  <2>1. /\ audit' = audit
        /\ \A d \in Calls : pc[d] \in Logged => pc'[d] \in Logged /\ fate'[d] = fate[d]
        /\ \A d \in Calls : pc'[d] \in Answering =>
              pc[d] \in Answering \/ "log" \in Faults \/ ~Fits(d)
    BY <1>1, QuietSteps
  <2>2. \A i \in DOMAIN audit : audit[i].call \in Calls
    BY RowCalls
  <2>3. RowsOnce' /\ RowsLogged'
    BY <2>1, <2>2 DEF Trail, RowsOnce, RowsLogged
  <2>4. AnswersLogged'
    BY <2>1 DEF Trail, AnswersLogged, HasRow, Fits
  <2>5. NoReplyLoss => AuditMatchesMoney'
    BY <2>1, <2>2 DEF Trail, RowsLogged, AuditMatchesMoney
  <2>6. OnlyRefundRowsErr'
    BY <2>1, <2>2 DEF Trail, RowsLogged, OnlyRefundRowsErr
  <2> QED
    BY <2>3, <2>4, <2>5, <2>6 DEF Trail, NoReplyLoss
<1>2. ASSUME NEW c \in Calls, Log(c) PROVE Trail'
  <2> DEFINE new == [call |-> c, entry |-> entry[c]]
  <2>1. /\ pc[c] \in {"log_denied", "log_settle", "log_refund"}
        /\ pc' = [pc EXCEPT ![c] = pc'[c]] /\ pc'[c] \in {"tell", "ok", "fail"}
    BY <1>2, LogGoes DEF Go, Base, LocalsOK
  <2>2. audit' = Append(audit, new) /\ fate' = fate
    BY <1>2 DEF Log, AppendEntry
  <2>3. pc[c] \notin Logged /\ pc'[c] \in Logged /\ \A d \in Calls \ {c} : pc'[d] = pc[d]
    BY <2>1 DEF Logged, Base, LocalsOK
  <2>4. /\ \A i \in DOMAIN audit : audit[i].call \in Calls /\ audit[i].call # c
        /\ \A i \in DOMAIN audit : pc[audit[i].call] \in Logged
    BY <2>3, RowCalls DEF Trail, RowsLogged
  <2> HIDE DEF new
  <2>5. /\ Len(audit) \in Nat /\ DOMAIN audit = 1..Len(audit)
        /\ DOMAIN audit' = 1..(Len(audit) + 1)
        /\ \A i \in DOMAIN audit : audit'[i] = audit[i]
        /\ audit'[Len(audit) + 1] = new
    BY <2>2
  <2>6. new.call = c /\ new.entry = entry[c]
    BY DEF new
  <2>7. RowsOnce'
    BY <2>4, <2>5, <2>6 DEF Trail, RowsOnce
  <2>8. RowsLogged'
    BY <2>3, <2>4, <2>5, <2>6 DEF Trail, RowsLogged
  <2>9. AnswersLogged'
    <3>1. \A d \in Calls : HasRow(d) => HasRow(d)'
      BY <2>5 DEF HasRow
    <3>2. HasRow(c)'
      BY <2>5, <2>6 DEF HasRow
    <3> QED
      BY <2>3, <3>1, <3>2 DEF Trail, AnswersLogged, Fits
  <2>10. /\ NoReplyLoss => fate[c] = FateSaid(entry[c])
         /\ \/ fate[c] = FateSaid(entry[c])
            \/ entry[c].by = "refund" /\ fate[c] = "charged"
    <3>1. Knows(c)
      BY DEF Control
    <3>2. entry[c].by = "reserve" => FateSaid(entry[c]) = "none"
      BY DEF FateSaid
    <3> QED
      BY <2>1, <3>1, <3>2 DEF Knows, Unreserved
  <2>11. NoReplyLoss => AuditMatchesMoney'
    BY <2>2, <2>5, <2>6, <2>10 DEF Trail, AuditMatchesMoney
  <2>12. OnlyRefundRowsErr'
    BY <2>2, <2>5, <2>6, <2>10 DEF Trail, OnlyRefundRowsErr
  <2> QED
    BY <2>7, <2>8, <2>9, <2>11, <2>12 DEF Trail, NoReplyLoss
<1> QED
  BY <1>1, <1>2

-----------------------------------------------------------------------------
\* Base, Control and Trail hold of every behaviour, and with whole cents so
\* does Sums.
Invariant == Typed /\ Control /\ Trail /\ (WholeCents => Sums)

LEMMA InvariantStarts == Init => Invariant
<1> SUFFICES ASSUME Init PROVE Invariant
  OBVIOUS
<1>1. Typed
  BY InitIsTyped DEF Typed, Base, CapsOK, Init, NewRow
<1>2. Control
  BY DEF Init, Control, Knows, Unreserved
<1>3. Trail
  BY DEF Init, Trail, RowsOnce, RowsLogged, AnswersLogged, Answering, AuditMatchesMoney,
     OnlyRefundRowsErr
<1> QED
  BY <1>1, <1>2, <1>3, SumsStart DEF Invariant

LEMMA InvariantStays == Invariant /\ [Next]_vars => Invariant'
<1> SUFFICES ASSUME Invariant, [Next]_vars PROVE Invariant'
  OBVIOUS
<1>1. Typed'
  BY RowsStaySound, LocalsStayTyped, CapsStay, AuditStaysTyped DEF Invariant, Typed, Base
<1>2. Control' /\ Trail' /\ (WholeCents => Sums')
  BY ControlStays, TrailStays, SumsStay DEF Invariant, Typed
<1> QED
  BY <1>1, <1>2 DEF Invariant, WholeCents

THEOREM InvariantHolds == Spec => []Invariant
BY InvariantStarts, InvariantStays, PTL DEF Spec

\* The spent column is the sum of the charges, whatever goes wrong, if the
\* amounts are whole cents.
THEOREM SpentIsSumOfCharges ==
    ASSUME WholeCents
    PROVE  Spec => []SpentIsCharged
<1>1. Invariant => SpentIsCharged
  BY DEF Invariant, Sums
<1> QED
  BY <1>1, InvariantHolds, PTL

\* The reserved column never exceeds the reservations held, whatever goes wrong.
THEOREM ReservedNeverInflated ==
    ASSUME WholeCents
    PROVE  Spec => []ReservedAtMostHeld
<1>1. Invariant => ReservedAtMostHeld
  BY DEF Invariant, Sums
<1> QED
  BY <1>1, InvariantHolds, PTL

\* If moreover no reply is lost the reserved column is the sum of what is
\* held, failures of statements and of the log and crashes notwithstanding.
THEOREM ReservedIsSumOfHolds ==
    ASSUME WholeCents, NoReplyLoss
    PROVE  Spec => []ReservedIsHeld
<1>1. Invariant => ReservedIsHeld
  BY DEF Invariant, Sums
<1> QED
  BY <1>1, InvariantHolds, PTL

\* In the invariant a held reservation can be settled or refunded.
LEMMA HeldIsCovered ==
    ASSUME WholeCents, NoReplyLoss, Invariant
    PROVE  HeldCallsCanFinish
<1> SUFFICES ASSUME NEW c \in Calls, fate[c] = "held"
             PROVE  /\ Covers(RowOf(c), Cost[c])
                    /\ RowChecks(SettledRow(RowOf(c), Cost[c], Cost[c]))
                    /\ RowChecks(RefundedRow(RowOf(c), Cost[c]))
  BY DEF HeldCallsCanFinish
<1> DEFINE a == AgentOf[c]
<1>1. a \in Agents /\ Cost[c] \in 1..MaxColumn /\ IsWhole(Cost[c])
  BY DEF Invariant, Control, Knows, Registered, WholeCents
<1>2. c \in CallsOf(a, "held")
  BY DEF CallsOf
<1>3. Cost[c] <= Total(Cost, CallsOf(a, "held"))
  BY <1>2, PricedCalls, TotalTakes DEF Invariant, Typed
<1>4. rows[a].reserved = Total(Cost, CallsOf(a, "held"))
  BY <1>1 DEF Invariant, Sums, ReservedIsHeld
<1>5. RowOf(c) \in Row /\ RowChecks(RowOf(c)) /\ RowOf(c) = rows[a]
  BY <1>1 DEF Invariant, Typed, Base, RowsOK, RowOf
<1>6. Covers(RowOf(c), Cost[c])
  BY <1>1, <1>3, <1>4, <1>5 DEF Covers
<1> QED
  BY <1>1, <1>5, <1>6, SettledRowIsSound

\* A reservation that is held can always be settled or refunded.
THEOREM HoldsCanFinish ==
    ASSUME WholeCents, NoReplyLoss
    PROVE  Spec => []HeldCallsCanFinish
<1>1. Invariant => HeldCallsCanFinish
  BY HeldIsCovered
<1> QED
  BY <1>1, InvariantHolds, PTL

\* No call leaves two rows in the log, and an answer comes with one.
THEOREM OneRowForEachCall == Spec => []OneRowPerCall
<1>1. Invariant => OneRowPerCall
  BY DEF Invariant, Trail, RowsOnce, AnswersLogged, Answering, HasRow, OneRowPerCall
<1> QED
  BY <1>1, InvariantHolds, PTL

\* The audit_log tells what happened to the money, if no reply is lost.
THEOREM AuditTellsTheFate ==
    ASSUME NoReplyLoss
    PROVE  Spec => []AuditMatchesMoney
<1>1. Invariant => AuditMatchesMoney
  BY DEF Invariant, Trail
<1> QED
  BY <1>1, InvariantHolds, PTL

\* If replies may be lost, only the row of a refund can be untrue, and only of
\* a call that has been charged.
THEOREM OnlyRefundsErr == Spec => []OnlyRefundRowsErr
<1>1. Invariant => OnlyRefundRowsErr
  BY DEF Invariant, Trail
<1> QED
  BY <1>1, InvariantHolds, PTL
=============================================================================
