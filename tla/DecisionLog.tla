----------------------------- MODULE DecisionLog -----------------------------
(***************************************************************************)
(* What the audit log promises: a decision is recorded in one step, at the *)
(* end of the chain of its agent, no earlier than the decision before it.  *)
(* Nothing recorded is ever changed or removed.                            *)
(*                                                                         *)
(* The code takes six steps to record a decision, any of which may be the  *)
(* last, and other appends take theirs in between.  AuditLog implements    *)
(* this specification with a lock.                                         *)
(***************************************************************************)
EXTENDS Naturals

CONSTANTS
    Agents,         \* agents with a chain
    Appends,        \* decisions
    AgentFor,       \* the agent each decision is about
    Times,          \* what the clock may show
    Genesis,        \* what the first row of a chain names as its predecessor
    HashOf(_, _, _) \* hash of a predecessor's hash, a decision and a time

VARIABLES
    recorded,   \* the rows
    tail        \* of each agent: time and hash of the last row

Init ==
    /\ recorded = {}
    /\ tail = [g \in Agents |-> [ts |-> 0, hash |-> Genesis]]

Record(op, ts) ==
    LET last == tail[AgentFor[op]]
        hash == HashOf(last.hash, op, ts)
    IN  /\ \A row \in recorded : row.op # op
        /\ last.ts <= ts
        /\ recorded' = recorded \union
              {[op |-> op, ts |-> ts, prev |-> last.hash, hash |-> hash]}
        /\ tail' = [tail EXCEPT ![AgentFor[op]] = [ts |-> ts, hash |-> hash]]

Next == \E op \in Appends, ts \in Times : Record(op, ts)

Spec == Init /\ [][Next]_<<recorded, tail>>
=============================================================================
