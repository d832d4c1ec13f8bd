------------------------------ MODULE Scorecard ------------------------------
(***************************************************************************)
(* scripts/adversarial_scorecard.py, run by the dashboard as a process of  *)
(* its own, possibly several at a time.  Its eight categories are tried    *)
(* one after the other.  3 and 4 use demo-agent-analyst, the analyst, whom *)
(* operators, other clients and other runs use as well, and 7 audit rows   *)
(* that anybody may change: these three are followed, to their verdicts.   *)
(* 1, 2, 5 and 6 use an agent that the run has just made, and 8 does not   *)
(* get as far as the database: they take their time here, their verdicts   *)
(* are not followed.  A step is the code between two statements that read  *)
(* or write shared rows.                                                   *)
(***************************************************************************)
EXTENDS Naturals, FiniteSets

CONSTANTS
    Runs,       \* runs of the script; each stands for its category 7 agent too
    Replays     \* calls of category 4

ASSUME RunsAssumption ==
    /\ Replays \in Nat \ {0}
    /\ {"seed", "operator", "analyst", "error"} \cap Runs = {}

VARIABLES
    status,     \* column of the analyst's row
    setBy,      \* history: who wrote status last
    tight,      \* the analyst's cap leaves less than category 3 asks for
    agents,     \* agents with a row in the agents table
    flaws,      \* of each chain of audit rows: where it does not verify
    pc,         \* what each run does next
    left,       \* calls sent by category 4 whose reserve is still to run
    denied,     \* calls reserve denied, before _denial_detail
    failed,     \* categories recorded as FAILED
    calm,       \* history: nothing has interfered with the run
    plan        \* what may still happen in this behaviour

rowVars == <<status, setBy, tight, agents, flaws>>
runVars == <<pc, left, denied, failed, calm>>

Resting == {"idle", "done", "died"}
Busy    == {r \in Runs : pc[r] \notin Resting}

\* Where a row does not follow from the one before it or is not what it was, as
\* category 7 sees it: at the row it expects verify_chain to name, ahead of it
\* or behind it.
Rows == {"ahead", "there", "behind"}

\* The order of the script.
Follows ==
    [fresh  |-> "escalate", escalate |-> "revoke", revoke    |-> "replay",
     replay |-> "restore",  restore  |-> "races",  mend      |-> "races",
     races  |-> "seed",     seed     |-> "delete", delete    |-> "verify",
     verify |-> "malformed", malformed |-> "done"]

\* Where an exception leads to: past the category, by way of the except clause
\* in category 4, or out of the script.
Resumes ==
    [fresh  |-> {"escalate", "died"}, escalate |-> {"revoke"}, revoke |-> {"mend"},
     replay |-> {"mend"},      restore |-> {"mend"},      mend   |-> {"died"},
     races  |-> {"seed"},      seed    |-> {"malformed"}, delete |-> {"malformed"},
     verify |-> {"malformed"}, malformed |-> {"done", "died"}]

\* The category tried at each place, of those that are followed.
Tried ==
    [fresh  |-> {},     escalate |-> {3}, revoke |-> {4}, replay |-> {4},
     restore |-> {4},   mend     |-> {4}, races  |-> {},  seed   |-> {7},
     delete |-> {7},    verify   |-> {7}, malformed |-> {}]

Advance(r)     == pc' = [pc EXCEPT ![r] = Follows[pc[r]]]
Record(r, bad) == failed' = [failed EXCEPT ![r] = @ \union bad]
Verdict(c, blocked) == IF blocked THEN {} ELSE {c}

Spoil(spoilt) == calm' = [r \in Runs |-> calm[r] /\ r \notin spoilt]

\* who's UPDATE agents SET status
Write(who, v) == status' = v /\ setBy' = who

\* A call that is charged to the analyst may leave too little of the cap for
\* category 3 of the runs R.
Charge(R) ==
    \/ tight' = TRUE /\ Spoil(R)
    \/ UNCHANGED <<tight, calm>>

-----------------------------------------------------------------------------
\* The process starts, and its MCP server.
Launch(r) ==
    /\ pc' = [pc EXCEPT ![r] = "fresh"]
    /\ calm' = [calm EXCEPT ![r] = status = "active" /\ ~tight]

\* Categories whose verdicts are not followed.
Pass(r, place) ==
    /\ pc[r] = place
    /\ Advance(r)
    /\ UNCHANGED <<rowVars, left, denied, failed, calm, plan>>

BreachAndInject(r) == Pass(r, "fresh")
RaceAndNegate(r)   == Pass(r, "races")
CallMalformed(r)   == Pass(r, "malformed")

\* Category 3: reserve denies a tool the analyst may not use, and the reason
\* is "permission" only where status and cap have nothing to object to first.
Escalate(r) ==
    /\ pc[r] = "escalate"
    /\ Advance(r)
    /\ Record(r, Verdict(3, status = "active" /\ ~tight))
    /\ UNCHANGED <<rowVars, left, denied, calm, plan>>

\* Category 4: the analyst is revoked, and the calls are sent.
Revoke(r) ==
    /\ pc[r] = "revoke"
    /\ Advance(r)
    /\ left' = [left EXCEPT ![r] = Replays]
    /\ Write(r, "revoked")
    /\ Spoil(Busy \ {r})
    /\ UNCHANGED <<tight, agents, flaws, denied, failed, plan>>

Arrive(r) == left[r] > 0 /\ left' = [left EXCEPT ![r] = @ - 1]

\* The reserve of a call that gather waits for.  It is denied if the analyst is
\* revoked, or the cap leaves too little even for this; it is allowed only if
\* the analyst is not revoked, and then charged, and category 4 has failed.
Replay(r) ==
    /\ pc[r] = "replay"
    /\ Arrive(r)
    /\ \/ /\ status = "revoked" \/ tight
          /\ denied' = [denied EXCEPT ![r] = @ + 1]
          /\ UNCHANGED <<tight, failed, calm>>
       \/ /\ status = "active"
          /\ Record(r, {4})
          /\ Charge(Busy \ {r})
          /\ UNCHANGED denied
    /\ UNCHANGED <<status, setBy, agents, flaws, pc, plan>>

\* The reserve of a call that nobody waits for any more: another one's
\* exception has ended gather, or the run has ended.
Stray(r) ==
    /\ pc[r] # "replay"
    /\ Arrive(r)
    /\ \/ /\ status = "revoked" \/ tight
          /\ UNCHANGED <<tight, calm>>
       \/ /\ status = "active"
          /\ Charge(Busy)
    /\ UNCHANGED <<status, setBy, agents, flaws, pc, denied, failed, plan>>

\* Mutant: allowed calls are diagnosed too.
DiagnoseAny(r) ==
    /\ pc[r] = "replay"
    /\ denied' = [denied EXCEPT ![r] = @ - 1]
    /\ Record(r, Verdict(4, status = "revoked"))
    /\ UNCHANGED <<rowVars, pc, left, calm, plan>>

\* Its diagnosis, a statement later: the reason has to be "revoked" still.
Diagnose(r) ==
    /\ pc[r] = "replay"
    /\ denied[r] > 0
    /\ denied' = [denied EXCEPT ![r] = @ - 1]
    /\ Record(r, Verdict(4, status = "revoked"))
    /\ UNCHANGED <<rowVars, pc, left, calm, plan>>

\* Mutant: the first result is enough.
EagerGather(r) ==
    /\ pc[r] = "replay"
    /\ left[r] < Replays /\ denied[r] = 0
    /\ Advance(r)
    /\ UNCHANGED <<rowVars, left, denied, failed, calm, plan>>

\* gather has all results.
Gathered(r) ==
    /\ pc[r] = "replay"
    /\ left[r] = 0 /\ denied[r] = 0
    /\ Advance(r)
    /\ UNCHANGED <<rowVars, left, denied, failed, calm, plan>>

\* The UPDATE at the end of category 4, whoever had revoked the analyst.
Restore(r) ==
    /\ pc[r] = "restore"
    /\ Advance(r)
    /\ Write(r, "active")
    /\ Spoil(Busy \ {r})
    /\ UNCHANGED <<tight, agents, flaws, left, denied, failed, plan>>

\* Mutant: the except clause only records the failure.
CarelessMend(r) ==
    /\ pc[r] = "mend"
    /\ Advance(r)
    /\ Record(r, {4})
    /\ UNCHANGED <<rowVars, left, denied, calm, plan>>

\* The same UPDATE in the except clause.
Mend(r) ==
    /\ pc[r] = "mend"
    /\ Advance(r)
    /\ Write(r, "active")
    /\ Record(r, {4})
    /\ Spoil(Busy \ {r})
    /\ UNCHANGED <<tight, agents, flaws, left, denied, plan>>

\* Category 7: an agent of the run's own with five audit rows, ...
Seed(r) ==
    /\ pc[r] = "seed"
    /\ Advance(r)
    /\ agents' = agents \union {r}
    /\ UNCHANGED <<status, setBy, tight, flaws, left, denied, failed, calm, plan>>

\* Mutant: the row after the deleted one is deleted with it.
DeleteTwo(r) ==
    /\ pc[r] = "delete"
    /\ Advance(r)
    /\ flaws' = [flaws EXCEPT ![r] = @ \union {"behind"}]
    /\ UNCHANGED <<status, setBy, tight, agents, left, denied, failed, calm, plan>>

\* ... the third of which is deleted and not put back, ...
Delete(r) ==
    /\ pc[r] = "delete"
    /\ Advance(r)
    /\ flaws' = [flaws EXCEPT ![r] = @ \union {"there"}]
    /\ UNCHANGED <<status, setBy, tight, agents, left, denied, failed, calm, plan>>

\* ... where verify_chain has to stop.
Verify(r) ==
    /\ pc[r] = "verify"
    /\ Advance(r)
    /\ Record(r, Verdict(7, "there" \in flaws[r] /\ "ahead" \notin flaws[r]))
    /\ UNCHANGED <<rowVars, left, denied, calm, plan>>

\* A statement or a tool call of a run raises an exception, or fewer rows than
\* category 7 needs were logged.  An UPDATE or a DELETE may have been carried
\* out all the same.  Of the calls of category 4 the one that fails may have
\* reached reserve; the others stay on their way.
Fail(r) ==
    /\ plan.faults > 0
    /\ plan' = [plan EXCEPT !.faults = @ - 1]
    /\ r \in Busy
    /\ \E p \in Resumes[pc[r]] : pc' = [pc EXCEPT ![r] = p]
    /\ \/ UNCHANGED left
       \/ pc[r] = "replay" /\ Arrive(r)
    /\ denied' = [denied EXCEPT ![r] = 0]
    /\ Record(r, Tried[pc[r]])
    /\ \/ /\ pc[r] \in {"revoke", "restore", "mend"}
          /\ Write(r, IF pc[r] = "revoke" THEN "revoked" ELSE "active")
          /\ Spoil(Busy)
          /\ UNCHANGED <<tight, agents, flaws>>
       \/ /\ pc[r] \in {"seed", "delete"}
          /\ agents' = agents \union {r}
          /\ flaws' = [flaws EXCEPT ![r] = @ \union {x \in {"there"} : pc[r] = "delete"}]
          /\ Spoil({r})
          /\ UNCHANGED <<status, setBy, tight>>
       \/ /\ Spoil({r})
          /\ UNCHANGED rowVars

Step(r) ==
    \/ BreachAndInject(r) \/ Escalate(r)
    \/ Revoke(r) \/ Replay(r) \/ Diagnose(r) \/ Gathered(r) \/ Restore(r) \/ Mend(r)
    \/ RaceAndNegate(r) \/ Seed(r) \/ Delete(r) \/ Verify(r) \/ CallMalformed(r)

\* The summary that a run prints once it is through: its FAILED lines.
Printed(r) == failed[r]

-----------------------------------------------------------------------------
\* What a run finds in company, after a fault or on rows that somebody changed is
\* not the program's doing; a run that nothing interferes with records BLOCKED
\* for each of the categories that use what others use too: escalation (3),
\* replay (4) and deletion (7).
CalmRunsPass == \A r \in Runs : calm[r] => failed[r] = {}

\* Nor do the calls of category 4 that such a run sends to a revoked analyst cost
\* the analyst anything: all of them have been answered when the analyst is
\* activated again.  (After an exception they need not have been: then a call
\* that is still on its way comes after the except clause and is charged.)
CalmRunsChargeNothing ==
    [][\A r \in Runs : calm[r] /\ left'[r] # left[r] => tight' = tight]_<<rowVars, runVars>>

\* A run leaves the analyst revoked only by dying: each way through category
\* 4, the except clause included, ends with the analyst active.
RunsRestore ==
    \A r \in Runs :
      status = "revoked" /\ setBy = r => pc[r] \in {"replay", "restore", "mend", "died"}
=============================================================================
