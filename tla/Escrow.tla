------------------------------- MODULE Escrow -------------------------------
(***************************************************************************)
(* What reserve-then-settle promises, with every reservation known by the  *)
(* call it belongs to.  A call holds its cost, then is charged for it or   *)
(* gets it back, once; what an agent's calls hold and have been charged    *)
(* never exceeds its cap; a revoked agent is granted nothing.              *)
(*                                                                         *)
(* The code keeps no such record: the agents row has two sums, and a       *)
(* settle names an amount, not a reservation.  GovernedCalls implements    *)
(* this specification with those sums.                                     *)
(***************************************************************************)
EXTENDS Totals

CONSTANTS
    Agents,     \* agents with a budget
    Calls,      \* tool calls
    AgentOf,    \* the agent each call is made for
    Cost,       \* what each call costs
    Cap         \* the cap of each agent

VARIABLES
    status,     \* of each agent: "active" or "revoked"
    fate        \* of each call's cost

Fates == {"none", "held", "charged", "released"}

\* The calls of agent a whose cost has fate f.
CallsOf(a, f) == {c \in Calls : AgentOf[c] = a /\ fate[c] = f}

Committed(a) == Total(Cost, CallsOf(a, "held") \union CallsOf(a, "charged"))

Init ==
    /\ status = [a \in Agents |-> "active"]
    /\ fate = [c \in Calls |-> "none"]

Turn(c, before, after) ==
    /\ AgentOf[c] \in Agents
    /\ status[AgentOf[c]] = "active"
    /\ fate[c] = before
    /\ fate' = [fate EXCEPT ![c] = after]
    /\ UNCHANGED status

Hold(c) ==
    /\ Turn(c, "none", "held")
    /\ Committed(AgentOf[c]) + Cost[c] <= Cap[AgentOf[c]]

Charge(c) == Turn(c, "held", "charged")

Release(c) == Turn(c, "held", "released")

SetStatus(a, s) ==
    /\ status' = [status EXCEPT ![a] = s]
    /\ UNCHANGED fate

Next ==
    \/ \E c \in Calls : Hold(c) \/ Charge(c) \/ Release(c)
    \/ \E a \in Agents, s \in {"active", "revoked"} : SetStatus(a, s)

Spec == Init /\ [][Next]_<<status, fate>>
=============================================================================
