-------------------------- MODULE DashboardTheorems --------------------------
(***************************************************************************)
(* Proofs about the dashboard and the runs of the scorecard it starts, for *)
(* any number of runs, requests and plans.                                 *)
(***************************************************************************)
EXTENDS Dashboard, TLAPS

\* What bounds a behaviour only counts down.
LEMMA PlanKeeps ==
    ASSUME plan \in Plan,
           NEW f \in {"loads", "posts", "spends", "edits", "faults", "stops", "kills"},
           plan[f] > 0, plan' = [plan EXCEPT ![f] = @ - 1]
    PROVE  plan' \in Plan /\ plan'.kind = plan.kind
BY DEF Plan

\* Who is spoilt is calm no more, and nobody becomes calm.
LEMMA SpoilKeeps ==
    ASSUME calm \in [Runs -> BOOLEAN], NEW S, Spoil(S)
    PROVE  /\ calm' \in [Runs -> BOOLEAN]
           /\ \A r \in Runs : calm'[r] => calm[r] /\ r \notin S
<1>1. \A r \in Runs : (calm[r] /\ r \notin S) \in BOOLEAN
  OBVIOUS
<1>2. calm' \in [Runs -> BOOLEAN]
  BY <1>1, Zenon DEF Spoil
<1>3. \A r \in Runs : calm'[r] = (calm[r] /\ r \notin S)
  BY Zenon DEF Spoil
<1> QED
  BY <1>2, <1>3

\* Every step keeps the types.
LEMMA TypeStep ==
    ASSUME TypeOK, [Next]_vars
    PROVE  TypeOK'
<1>1. CASE UNCHANGED vars
  BY <1>1 DEF TypeOK, vars, rowVars, runVars, appVars
<1>2. CASE Start \/ Stop \/ Close \/ End
  <2>1. plan' \in Plan
    BY <1>2 DEF TypeOK, Start, Stop, Close, End, Plan
  <2> QED
    BY <1>2, <2>1 DEF TypeOK, Start, Stop, Close, End, rowVars, runVars, Status,
       Verdicts
<1>3. CASE Kill
  <2>1. plan' \in Plan
    BY <1>3 DEF TypeOK, Kill, Plan
  <2>2. req' \in [Slots -> [at    : Waiting \union {"idle", "answered"},
                          todo  : SUBSET Chains,
                          found : SUBSET (Chains \union Status \union {"error"}),
                          still : SUBSET Chains]]
    BY <1>3 DEF TypeOK, Kill, Idle, Request
  <2>3. pc' \in [Runs -> Places]
    BY <1>3 DEF TypeOK, Kill, Places, Resting
  <2>4. calm' \in [Runs -> BOOLEAN]
    BY <1>3, SpoilKeeps DEF TypeOK, Kill
  <2> QED
    BY <1>3, <2>1, <2>2, <2>3, <2>4 DEF TypeOK, Kill, rowVars
<1>4. ASSUME NEW r \in Runs, Load(r) \/ AnswerScorecard(r) \/ Collect(r)
      PROVE  TypeOK'
  <2>1. plan' \in Plan
    BY <1>4 DEF TypeOK, Load, AnswerScorecard, Collect, Plan
  <2>2. /\ pc' \in [Runs -> Places] /\ left' \in [Runs -> Nat]
        /\ UNCHANGED <<denied, failed>>
    BY <1>4, RunsAssumption DEF TypeOK, Load, AnswerScorecard, Collect, Launch,
       Places, Follows, runVars
  <2>6. calm' \in [Runs -> BOOLEAN]
    <3>1. CASE UNCHANGED calm
      BY <3>1 DEF TypeOK
    <3>2. CASE Launch(r)
      <4>1. (status = "active" /\ ~tight) \in BOOLEAN
        OBVIOUS
      <4> QED
        BY <3>2, <4>1, Zenon DEF Launch, TypeOK
    <3> QED
      BY <1>4, <3>1, <3>2 DEF Load, AnswerScorecard, Collect, runVars
  <2>3. ask' \in [Runs -> {"none", "sent", "running", "shown", "lost"}]
    BY <1>4 DEF TypeOK, Load, AnswerScorecard, Collect
  <2>4. /\ cache' \in Verdicts \union {NoCard}
        /\ card' \in [Runs -> Verdicts \union {NoCard}]
    <3>1. failed[r] \in Verdicts
      BY DEF TypeOK
    <3> QED
      BY <1>4, <3>1 DEF TypeOK, Load, AnswerScorecard, Collect, Printed
  <2>5. UNCHANGED <<rowVars, app, req, shown>>
    BY <1>4 DEF Load, AnswerScorecard, Collect
  <2> QED
    BY <2>1, <2>2, <2>3, <2>4, <2>5, <2>6 DEF TypeOK, rowVars
<1>arrived. \A r \in Runs : Arrive(r) => left' \in [Runs -> Nat]
  BY DEF TypeOK, Arrive
<1>noticed. Notice => req' \in [Slots -> [at    : Waiting \union {"idle", "answered"},
                                    todo  : SUBSET Chains,
                                    found : SUBSET (Chains \union Status \union {"error"}),
                                    still : SUBSET Chains]]
  <2> DEFINE Reqs == [at    : Waiting \union {"idle", "answered"},
                      todo  : SUBSET Chains,
                      found : SUBSET (Chains \union Status \union {"error"}),
                      still : SUBSET Chains]
  <2>1. ASSUME NEW q \in Reqs, NEW B PROVE [q EXCEPT !.still = @ \cap B] \in Reqs
    OBVIOUS
  <2>2. req \in [Slots -> Reqs]
    BY DEF TypeOK
  <2> HIDE DEF Reqs
  <2>3. Notice => req' \in [Slots -> Reqs]
    BY <2>1, <2>2 DEF Notice
  <2> QED
    BY <2>3 DEF Reqs
<1>5. ASSUME NEW r \in Runs, RunStep(r) \/ RunFails(r)
      PROVE  TypeOK'
  <2> USE DEF RunStep, Step, RunFails
  <2>1. plan' \in Plan
    BY <1>5 DEF TypeOK, BreachAndInject, RaceAndNegate, CallMalformed, Pass, Escalate,
       Revoke, Replay, Diagnose, Gathered, Restore, Mend, Seed, Delete, Verify, Fail,
       Plan
  <2>2. /\ status' \in Status /\ setBy' \in Runs \union {"seed", "operator"}
        /\ tight' \in BOOLEAN
    BY <1>5 DEF TypeOK, BreachAndInject, RaceAndNegate, CallMalformed, Pass, Escalate,
       Revoke, Replay, Diagnose, Gathered, Restore, Mend, Seed, Delete, Verify, Fail,
       Write, Charge, Status, rowVars
  <2>3. agents' \in SUBSET ({"analyst"} \union Runs) /\ flaws' \in [Chains -> SUBSET Rows]
    <3>1. UNCHANGED flaws \/ \E X \in SUBSET Rows : flaws' = [flaws EXCEPT ![r] = @ \union X]
      BY <1>5 DEF BreachAndInject, RaceAndNegate, CallMalformed, Pass, Escalate,
         Revoke, Replay, Diagnose, Gathered, Restore, Mend, Seed, Delete, Verify, Fail,
         Rows, rowVars
    <3>2. flaws' \in [Chains -> SUBSET Rows]
      <4>1. flaws \in [Chains -> SUBSET Rows] /\ r \in Chains
        BY DEF TypeOK, Chains
      <4>2. \A X \in SUBSET Rows : flaws[r] \union X \in SUBSET Rows
        BY <4>1
      <4> QED
        BY <3>1, <4>1, <4>2
    <3>3. agents' \in SUBSET ({"analyst"} \union Runs)
      BY <1>5 DEF TypeOK, BreachAndInject, RaceAndNegate, CallMalformed, Pass, Escalate,
         Revoke, Replay, Diagnose, Gathered, Restore, Mend, Seed, Delete, Verify, Fail,
         rowVars
    <3> QED
      BY <3>2, <3>3
  <2>4. pc' \in [Runs -> Places]
    <3>1. CASE Fail(r)
      <4>1. PICK p \in Resumes[pc[r]] : pc' = [pc EXCEPT ![r] = p]
        BY <3>1 DEF Fail
      <4>2. p \in Places
        BY <3>1, <4>1 DEF Fail, Busy, TypeOK, Places, Resting, Follows, Resumes
      <4> QED
        BY <4>1, <4>2 DEF TypeOK
    <3>2. CASE pc' = pc
      BY <3>2 DEF TypeOK
    <3>3. CASE Advance(r) /\ pc[r] \notin Resting
      <4>1. Follows[pc[r]] \in Places
        BY <3>3 DEF TypeOK, Places, Follows, Resting
      <4> QED
        BY <3>3, <4>1 DEF TypeOK, Advance
    <3> QED
      BY <1>5, <3>1, <3>2, <3>3 DEF BreachAndInject, RaceAndNegate, CallMalformed,
         Pass, Escalate, Revoke, Replay, Diagnose, Gathered, Restore, Mend, Seed,
         Delete, Verify, Resting
  <2>5. left' \in [Runs -> Nat] /\ denied' \in [Runs -> Nat]
    <3>1. CASE Replay(r)
      BY <1>arrived, <3>1 DEF Replay, TypeOK
    <3>2. CASE Diagnose(r)
      BY <3>2 DEF Diagnose, TypeOK
    <3>3. CASE Fail(r)
      BY <1>arrived, <3>3 DEF Fail, TypeOK
    <3>4. CASE Revoke(r)
      BY <3>4, RunsAssumption DEF Revoke, TypeOK
    <3> QED
      BY <1>5, <3>1, <3>2, <3>3, <3>4 DEF TypeOK, BreachAndInject, RaceAndNegate,
         CallMalformed, Pass, Escalate, Gathered, Restore, Mend, Seed, Delete, Verify
  <2>6. failed' \in [Runs -> Verdicts]
    <3>1. CASE UNCHANGED failed
      BY <3>1 DEF TypeOK
    <3>2. ASSUME NEW bad \in Verdicts, Record(r, bad)
          PROVE  failed' \in [Runs -> Verdicts]
      BY <3>2 DEF TypeOK, Record, Verdicts
    <3>3. CASE Fail(r)
      <4>1. Tried[pc[r]] \in Verdicts
        BY <3>3 DEF Fail, Busy, TypeOK, Places, Resting, Follows, Tried, Verdicts
      <4> QED
        BY <3>2, <3>3, <4>1 DEF Fail
    <3>4. ASSUME NEW c \in {3, 4, 7}, NEW b, Record(r, Verdict(c, b))
          PROVE  failed' \in [Runs -> Verdicts]
      <4>1. Verdict(c, b) \in Verdicts
        BY DEF Verdict, Verdicts
      <4> QED
        BY <3>2, <3>4, <4>1
    <3>5. ASSUME Record(r, {4})
          PROVE  failed' \in [Runs -> Verdicts]
      BY <3>2, <3>5 DEF Verdicts
    <3>6. CASE Escalate(r)
      BY <3>4, <3>6 DEF Escalate
    <3>7. CASE Diagnose(r)
      BY <3>4, <3>7 DEF Diagnose
    <3>8. CASE Verify(r)
      BY <3>4, <3>8 DEF Verify
    <3> QED
      BY <1>5, <3>1, <3>3, <3>5, <3>6, <3>7, <3>8 DEF BreachAndInject, RaceAndNegate,
         CallMalformed, Pass, Revoke, Replay, Gathered, Restore, Mend, Seed, Delete
  <2>7. calm' \in [Runs -> BOOLEAN]
    <3>1. calm \in [Runs -> BOOLEAN]
      BY DEF TypeOK
    <3>2. UNCHANGED calm \/ \E S : Spoil(S)
      BY <1>5 DEF BreachAndInject, RaceAndNegate, CallMalformed, Pass, Escalate,
         Revoke, Replay, Charge, Diagnose, Gathered, Restore, Mend, Seed, Delete,
         Verify, Fail
    <3> QED
      BY <3>1, <3>2, SpoilKeeps
  <2>8. /\ UNCHANGED <<appVars, shown>>
        /\ req' \in [Slots -> [at    : Waiting \union {"idle", "answered"},
                               todo  : SUBSET Chains,
                               found : SUBSET (Chains \union Status \union {"error"}),
                               still : SUBSET Chains]]
    BY <1>5, <1>noticed
  <2> QED
    BY <2>1, <2>2, <2>3, <2>4, <2>5, <2>6, <2>7, <2>8 DEF TypeOK, appVars
<1>6. ASSUME NEW r \in Runs, RunStrays(r)
      PROVE  TypeOK'
  <2>1. plan' \in Plan /\ left' \in [Runs -> Nat]
    BY <1>6, <1>arrived DEF TypeOK, RunStrays, Stray
  <2>2. tight' \in BOOLEAN /\ calm' \in [Runs -> BOOLEAN]
    BY <1>6, SpoilKeeps DEF TypeOK, RunStrays, Stray, Charge
  <2> QED
    BY <1>6, <2>1, <2>2 DEF TypeOK, RunStrays, Stray, appVars
<1>7. ASSUME NEW s \in Slots, Poll(s) \/ Handle(s) \/ Refuse(s) \/ Show(s)
      PROVE  TypeOK'
  <2> DEFINE Ats   == Waiting \union {"idle", "answered"}
             Finds == SUBSET (Chains \union Status \union {"error"})
             Reqs  == [at : Ats, todo : SUBSET Chains, found : Finds, still : SUBSET Chains]
  <2>1. UNCHANGED <<rowVars, runVars, appVars>>
    BY <1>7 DEF Poll, Handle, AnswerAgents, SelectStatus, SelectAudit, VerifyOne,
       Refuse, Show
  <2>2. plan' \in Plan
    BY <1>7 DEF TypeOK, Poll, Handle, AnswerAgents, SelectStatus, SelectAudit,
       VerifyOne, Refuse, Show, Plan
  <2>3. req[s] \in Reqs /\ req \in [Slots -> Reqs]
    BY DEF TypeOK
  <2>4. \A at \in Ats, todo \in SUBSET Chains, found \in Finds, still \in SUBSET Chains :
          Request(at, todo, found, still) \in Reqs
    BY DEF Request
  <2>5. ASSUME NEW q \in Reqs, req' = [req EXCEPT ![s] = q]
        PROVE  req' \in [Slots -> Reqs]
    BY <2>3, <2>5
  <2>6. agents \in SUBSET Chains /\ Broken \in SUBSET Chains /\ Strays \in SUBSET Chains
    BY DEF TypeOK, Chains, Broken
  <2>7. req' \in [Slots -> Reqs]
    <3>1. CASE Poll(s)
      BY <2>4, <2>5, <3>1 DEF Poll, Waiting
    <3>2. CASE AnswerAgents(s)
      <4>1. {status} \in Finds
        BY DEF TypeOK
      <4> QED
        BY <2>4, <2>5, <3>2, <4>1 DEF AnswerAgents, Answer
    <3>3. ASSUME NEW S \in SUBSET Chains, Survey(s, S)
          PROVE  req' \in [Slots -> Reqs]
      BY <2>4, <2>5, <2>6, <3>3 DEF Survey, Waiting
    <3>4. CASE VerifyOne(s)
      <4>1. PICK a \in req[s].todo :
              LET bad  == Broken \cap {a}
                  todo == IF plan.kind[s] = "status" /\ bad # {} THEN {}
                          ELSE req[s].todo \ {a}
              IN  req' = [req EXCEPT ![s] =
                       Request(IF todo = {} THEN "answered" ELSE "verifying", todo,
                               req[s].found \union bad, req[s].still)]
        BY <3>4 DEF VerifyOne
      <4> DEFINE bad  == Broken \cap {a}
                 todo == IF plan.kind[s] = "status" /\ bad # {} THEN {}
                         ELSE req[s].todo \ {a}
                 q    == Request(IF todo = {} THEN "answered" ELSE "verifying", todo,
                                 req[s].found \union bad, req[s].still)
      <4>2. req' = [req EXCEPT ![s] = q]
        BY <4>1
      <4>3. todo \in SUBSET Chains /\ req[s].still \in SUBSET Chains
        BY <2>3
      <4>4. req[s].found \union bad \in Finds
        BY <2>3, <2>6
      <4>5. (IF todo = {} THEN "answered" ELSE "verifying") \in Ats
        BY DEF Waiting
      <4>6. q \in Reqs
        <5> HIDE DEF bad, todo, Ats, Finds, Reqs
        <5> QED
          BY <2>4, <4>3, <4>4, <4>5
      <4> QED
        BY <2>5, <4>2, <4>6
    <3>5. CASE Refuse(s)
      BY <2>4, <2>5, <3>5 DEF Refuse, Answer
    <3>6. CASE Show(s)
      BY <2>4, <2>5, <3>6 DEF Show, Idle
    <3> QED
      BY <1>7, <2>6, <3>1, <3>2, <3>3, <3>4, <3>5, <3>6 DEF Handle, SelectStatus,
         SelectAudit
  <2>8. shown' \in [Kinds -> Finds]
    <3>1. CASE Show(s)
      <4>1. shown \in [Kinds -> Finds] /\ plan.kind[s] \in Kinds /\ req[s].found \in Finds
        BY <2>3 DEF TypeOK, Plan
      <4> QED
        BY <3>1, <4>1 DEF Show
    <3>2. CASE UNCHANGED shown
      BY <3>2 DEF TypeOK
    <3> QED
      BY <1>7, <3>1, <3>2 DEF Poll, Handle, AnswerAgents, SelectStatus, SelectAudit,
         VerifyOne, Refuse
  <2> QED
    BY <2>1, <2>2, <2>7, <2>8 DEF TypeOK, rowVars, runVars, appVars
<1>8. ASSUME NEW v \in Status, Post(v)
      PROVE  TypeOK'
  <2>1. plan' \in Plan
    BY <1>8, PlanKeeps DEF TypeOK, Post
  <2>2. calm' \in [Runs -> BOOLEAN]
    BY <1>8, SpoilKeeps DEF TypeOK, Post
  <2> QED
    BY <1>8, <2>1, <2>2 DEF TypeOK, Post, Write, appVars
<1>9. CASE Spend
  <2>1. plan' \in Plan
    BY <1>9 DEF TypeOK, Spend, Plan
  <2>2. calm' \in [Runs -> BOOLEAN]
    BY <1>9, SpoilKeeps DEF TypeOK, Spend
  <2>3. tight' \in BOOLEAN
    BY <1>9 DEF Spend
  <2> QED
    BY <1>9, <2>1, <2>2, <2>3 DEF TypeOK, Spend, appVars
<1>10. ASSUME NEW a \in Chains, Break(a) \/ PutRight(a)
      PROVE  TypeOK'
  <2>1. PICK S \in SUBSET Rows : Edit(a, S)
    BY <1>10 DEF Break, PutRight, TypeOK, Rows
  <2>2. plan' \in Plan
    BY <2>1 DEF TypeOK, Edit, Plan
  <2>3. calm' \in [Runs -> BOOLEAN]
    BY <2>1, SpoilKeeps DEF TypeOK, Edit
  <2>4. flaws' \in [Chains -> SUBSET Rows]
    BY <2>1 DEF TypeOK, Edit
  <2> QED
    BY <1>noticed, <2>1, <2>2, <2>3, <2>4 DEF TypeOK, Edit, appVars
<1> QED
  BY <1>1, <1>2, <1>3, <1>4, <1>5, <1>6, <1>7, <1>8, <1>9, <1>10 DEF Next, Status

\* The types of the program's state hold always.
THEOREM TypeCorrect == Spec => []TypeOK
<1>1. Init => TypeOK
  <2> SUFFICES ASSUME Init PROVE TypeOK
    OBVIOUS
  <2>1. plan \in Plan
    BY WorkloadsAssumption DEF Init
  <2>2. req \in [Slots -> [at    : Waiting \union {"idle", "answered"},
                          todo  : SUBSET Chains,
                          found : SUBSET (Chains \union Status \union {"error"}),
                          still : SUBSET Chains]]
    BY DEF Init, Idle, Request
  <2>3. /\ status \in Status /\ setBy \in Runs \union {"seed", "operator"}
        /\ tight \in BOOLEAN /\ agents \in SUBSET ({"analyst"} \union Runs)
        /\ flaws \in [Chains -> SUBSET Rows]
    BY DEF Init, Status
  <2>4. /\ pc \in [Runs -> Places]
        /\ left \in [Runs -> Nat] /\ denied \in [Runs -> Nat]
        /\ failed \in [Runs -> Verdicts]
    BY DEF Init, Places, Resting, Verdicts
  <2>5. calm \in [Runs -> BOOLEAN]
    BY Zenon DEF Init
  <2>6. /\ app \in {"down", "up", "draining", "closing"}
        /\ cache \in Verdicts \union {NoCard}
        /\ ask \in [Runs -> {"none", "sent", "running", "shown", "lost"}]
        /\ card \in [Runs -> Verdicts \union {NoCard}]
        /\ shown \in [Kinds -> SUBSET (Chains \union Status \union {"error"})]
    BY DEF Init
  <2> QED
    BY <2>1, <2>2, <2>3, <2>4, <2>5, <2>6 DEF TypeOK
<1> QED
  BY <1>1, TypeStep, PTL DEF Spec

-----------------------------------------------------------------------------
(* What the runs and their company do to the analyst                        *)

\* The steps of a run, the start of one, the end of several, a call that a run
\* has left behind, what others do to the analyst and to audit rows, and the rest.
LEMMA Movers ==
    ASSUME TypeOK, [Next]_vars
    PROVE  \/ /\ UNCHANGED <<rowVars, runVars>>
              /\ \A r \in Runs : ask'[r] \in {"none", "sent"} => ask[r] \in {"none", "sent"}
           \/ Kill
           \/ \E r \in Runs : /\ ask[r] = "sent" /\ ask' = [ask EXCEPT ![r] = "running"]
                              /\ Launch(r) /\ UNCHANGED <<rowVars, left, failed>>
           \/ \E r \in Runs : RunStep(r) \/ RunFails(r)
           \/ \E r \in Runs : RunStrays(r)
           \/ \E v \in Status : Post(v)
           \/ Spend
           \/ \E a \in Chains : \E S \in SUBSET Rows : Edit(a, S)
<1>1. CASE UNCHANGED vars
  BY <1>1 DEF vars, appVars
<1>2. CASE Start \/ Stop \/ Close \/ End
  BY <1>2 DEF Start, Stop, Close, End
<1>3. ASSUME NEW r \in Runs, Load(r) \/ AnswerScorecard(r) \/ Collect(r)
      PROVE  \/ /\ UNCHANGED <<rowVars, runVars>>
                /\ \A x \in Runs : ask'[x] \in {"none", "sent"} => ask[x] \in {"none", "sent"}
             \/ /\ ask[r] = "sent" /\ ask' = [ask EXCEPT ![r] = "running"]
                /\ Launch(r) /\ UNCHANGED <<rowVars, left, failed>>
  BY <1>3 DEF Load, AnswerScorecard, Collect, TypeOK
<1>4. ASSUME NEW s \in Slots, Poll(s) \/ Handle(s) \/ Refuse(s) \/ Show(s)
      PROVE  UNCHANGED <<rowVars, runVars, ask>>
  BY <1>4 DEF Poll, Handle, AnswerAgents, SelectStatus, SelectAudit, VerifyOne,
     Refuse, Show, appVars
<1>5. ASSUME NEW a \in Chains, Break(a) \/ PutRight(a)
      PROVE  \E S \in SUBSET Rows : Edit(a, S)
  BY <1>5 DEF Break, PutRight, TypeOK, Rows
<1> QED
  BY <1>1, <1>2, <1>3, <1>4, <1>5 DEF Next, Status

\* A page whose request has not been looked at has no run, and a run that has
\* not begun has recorded and sent nothing.
Unbegun ==
    \A r \in Runs : /\ ask[r] \in {"none", "sent"} => pc[r] = "idle"
                    /\ pc[r] = "idle" => failed[r] = {} /\ left[r] = 0

\* What a run takes down of other runs.
LEMMA OthersAlone ==
    ASSUME TypeOK, NEW r \in Runs, RunStep(r) \/ RunFails(r)
    PROVE  /\ pc[r] \in DOMAIN Follows
           /\ pc'[r] # "idle"
           /\ UNCHANGED ask
           /\ \A x \in Runs \ {r} :
                pc'[x] = pc[x] /\ failed'[x] = failed[x] /\ left'[x] = left[x]
<1> USE DEF RunStep, Step, RunFails
<1>1. pc[r] \in DOMAIN Follows
  BY DEF TypeOK, Places, Resting, Busy, Follows, BreachAndInject, RaceAndNegate,
     CallMalformed, Pass, Escalate, Revoke, Replay, Diagnose, Gathered, Restore, Mend,
     Seed, Delete, Verify, Fail
<1>2. pc'[r] # "idle"
  <2>1. CASE Fail(r)
    <3>1. PICK p \in Resumes[pc[r]] : pc' = [pc EXCEPT ![r] = p]
      BY <2>1 DEF Fail
    <3>2. p # "idle"
      BY <1>1, <3>1 DEF Follows, Resumes
    <3> QED
      BY <3>1, <3>2 DEF TypeOK
  <2>2. CASE Advance(r)
    BY <1>1, <2>2 DEF TypeOK, Advance, Follows
  <2>3. CASE pc' = pc
    BY <1>1, <2>3 DEF Follows
  <2> QED
    BY <2>1, <2>2, <2>3 DEF BreachAndInject, RaceAndNegate, CallMalformed, Pass,
       Escalate, Revoke, Replay, Diagnose, Gathered, Restore, Mend, Seed, Delete,
       Verify
<1>3. UNCHANGED ask
  BY DEF appVars
<1>4. pc' = pc \/ \E p : pc' = [pc EXCEPT ![r] = p]
  BY DEF BreachAndInject, RaceAndNegate, CallMalformed, Pass, Escalate, Revoke,
     Replay, Diagnose, Gathered, Restore, Mend, Seed, Delete, Verify, Fail, Advance
<1>5. failed' = failed \/ \E bad : failed' = [failed EXCEPT ![r] = @ \union bad]
  BY DEF BreachAndInject, RaceAndNegate, CallMalformed, Pass, Escalate, Revoke,
     Replay, Diagnose, Gathered, Restore, Mend, Seed, Delete, Verify, Fail, Record
<1>6. left' = left \/ \E n : left' = [left EXCEPT ![r] = n]
  BY DEF BreachAndInject, RaceAndNegate, CallMalformed, Pass, Escalate, Revoke, Replay,
     Arrive, Diagnose, Gathered, Restore, Mend, Seed, Delete, Verify, Fail
<1> QED
  BY <1>1, <1>2, <1>3, <1>4, <1>5, <1>6 DEF TypeOK

\* What a call that a run has left behind takes down.
LEMMA StrayAlone ==
    ASSUME TypeOK, NEW r \in Runs, RunStrays(r)
    PROVE  /\ pc[r] # "replay" /\ left[r] > 0
           /\ UNCHANGED <<status, setBy, agents, flaws, pc, failed, ask>>
           /\ \A x \in Runs \ {r} : left'[x] = left[x]
           /\ UNCHANGED <<tight, calm>> \/ Spoil(Busy)
BY DEF RunStrays, Stray, Arrive, Charge, TypeOK, appVars

\* Every step keeps Unbegun.
LEMMA UnbegunStep ==
    ASSUME TypeOK, Unbegun, [Next]_vars
    PROVE  Unbegun'
<1>1. CASE UNCHANGED <<pc, left, failed>> /\
           \A r \in Runs : ask'[r] \in {"none", "sent"} => ask[r] \in {"none", "sent"}
  BY <1>1 DEF Unbegun
<1>2. CASE Kill
  <2>1. \A r \in Runs : /\ ask'[r] \in {"none", "sent"} => ask[r] \in {"none", "sent"}
                        /\ ask'[r] # "sent"
    BY <1>2 DEF Kill, TypeOK
  <2>2. /\ UNCHANGED <<left, failed>>
        /\ \A r \in Runs : pc'[r] = pc[r] \/ (pc'[r] = "died" /\ r \in Busy)
    <3>1. PICK D \in SUBSET Busy : pc' = [r \in Runs |-> IF r \in D THEN "died" ELSE pc[r]]
      BY <1>2 DEF Kill
    <3>2. UNCHANGED <<left, failed>>
      BY <1>2 DEF Kill
    <3>3. \A r \in Runs : r \in D => r \in Busy
      OBVIOUS
    <3>4. \A r \in Runs : pc'[r] = IF r \in D THEN "died" ELSE pc[r]
      BY <3>1
    <3>5. ASSUME NEW r \in Runs PROVE pc'[r] = pc[r] \/ (pc'[r] = "died" /\ r \in Busy)
      BY <3>3, <3>4
    <3> QED
      BY <3>2, <3>5
  <2> QED
    BY <2>1, <2>2 DEF Unbegun, Busy, Resting
<1>3. ASSUME NEW r \in Runs, ask' = [ask EXCEPT ![r] = "running"], Launch(r),
             UNCHANGED <<left, failed>>
      PROVE  Unbegun'
  BY <1>3 DEF Unbegun, Launch, TypeOK
<1>4. ASSUME NEW r \in Runs, RunStep(r) \/ RunFails(r)
      PROVE  Unbegun'
  <2>1. pc[r] # "idle"
    BY <1>4, OthersAlone DEF Follows
  <2> QED
    BY <1>4, <2>1, OthersAlone DEF Unbegun
<1>5. ASSUME NEW r \in Runs, RunStrays(r)
      PROVE  Unbegun'
  <2>1. pc[r] # "idle"
    BY <1>5, StrayAlone DEF Unbegun
  <2> QED
    BY <1>5, <2>1, StrayAlone DEF Unbegun
<1>6. CASE (\E v \in Status : Post(v)) \/ Spend \/ \E a \in Chains : \E S : Edit(a, S)
  BY <1>1, <1>6 DEF Post, Spend, Edit, appVars
<1> QED
  BY <1>1, <1>2, <1>3, <1>4, <1>5, <1>6, Movers DEF runVars

\* Places of the script before it has made the agent of category 7.
Early == {"idle", "fresh", "escalate", "revoke", "replay", "restore", "mend", "races", "seed"}

\* Until a run has made its agent, there are no audit rows of it to change.
OwnChains ==
    \A r \in Runs : /\ pc[r] \in Early => r \notin agents
                    /\ pc[r] = "delete" => r \in agents
                    /\ r \notin agents => flaws[r] = {}

\* Every step keeps OwnChains.
LEMMA OwnStep ==
    ASSUME TypeOK, Unbegun, OwnChains, [Next]_vars
    PROVE  OwnChains'
<1>1. CASE /\ UNCHANGED <<agents, flaws>>
           /\ \A r \in Runs : /\ pc'[r] \in Early => pc[r] \in Early
                              /\ pc'[r] = "delete" => pc[r] = "delete"
  BY <1>1 DEF OwnChains, Early
<1>2. CASE Kill
  <2>1. \A r \in Runs : pc'[r] \in {pc[r], "died"}
    BY <1>2 DEF Kill
  <2> QED
    BY <1>1, <1>2, <2>1 DEF Kill, rowVars, Early
<1>3. ASSUME NEW r \in Runs, ask[r] = "sent", Launch(r), UNCHANGED rowVars
      PROVE  OwnChains'
  <2>1. pc[r] \in Early /\ pc' = [pc EXCEPT ![r] = "fresh"] /\ UNCHANGED <<agents, flaws>>
    BY <1>3 DEF Unbegun, Early, Launch, rowVars
  <2>2. \A x \in Runs : pc'[x] = IF x = r THEN "fresh" ELSE pc[x]
    BY <2>1 DEF TypeOK
  <2> QED
    BY <1>1, <2>1, <2>2
<1>4. ASSUME NEW r \in Runs, RunStep(r) \/ RunFails(r)
      PROVE  OwnChains'
  <2> USE DEF RunStep, Step, RunFails
  <2>1. pc[r] \in DOMAIN Follows /\ \A x \in Runs \ {r} : pc'[x] = pc[x]
    BY <1>4, OthersAlone
  <2>2. agents \subseteq agents' /\ agents' \subseteq agents \union {r}
    BY <1>4 DEF BreachAndInject, RaceAndNegate, CallMalformed, Pass, Escalate, Revoke,
       Replay, Diagnose, Gathered, Restore, Mend, Seed, Delete, Verify, Fail, rowVars
  <2>3. \A x \in Runs \ {r} : flaws'[x] = flaws[x]
    BY <1>4 DEF TypeOK, Chains, BreachAndInject, RaceAndNegate, CallMalformed, Pass,
       Escalate, Revoke, Replay, Diagnose, Gathered, Restore, Mend, Seed, Delete,
       Verify, Fail, rowVars
  <2>4. CASE Fail(r)
    <3>1. PICK p \in Resumes[pc[r]] : pc' = [pc EXCEPT ![r] = p]
      BY <2>4 DEF Fail
    <3>2. pc'[r] # "delete" /\ (pc'[r] \in Early => pc[r] \in Early \ {"seed"})
      BY <2>1, <3>1 DEF TypeOK, Follows, Resumes, Early
    <3>3. CASE UNCHANGED <<agents, flaws>>
      BY <1>1, <2>1, <3>2, <3>3
    <3>4. CASE pc[r] \in {"seed", "delete"} /\ agents' = agents \union {r}
      BY <2>1, <2>2, <2>3, <3>2, <3>4 DEF OwnChains, Early
    <3> QED
      BY <2>4, <3>3, <3>4 DEF Fail, rowVars
  <2>5. CASE Seed(r)
    <3>1. pc'[r] = "delete" /\ r \in agents'
      BY <2>5 DEF Seed, Advance, Follows, TypeOK
    <3> QED
      BY <2>1, <2>2, <2>3, <3>1 DEF OwnChains, Early
  <2>6. CASE Delete(r)
    <3>1. pc[r] = "delete" /\ pc'[r] = "verify" /\ agents' = agents
      BY <2>6 DEF Delete, Advance, Follows, TypeOK
    <3> QED
      BY <2>1, <2>3, <3>1 DEF OwnChains, Early
  <2>7. CASE UNCHANGED <<agents, flaws>> /\ (pc' = pc \/ (Advance(r) /\ pc[r] # "seed"))
    <3>1. pc[r] # "seed" => /\ Follows[pc[r]] # "delete"
                            /\ Follows[pc[r]] \in Early => pc[r] \in Early
      BY <2>1 DEF Follows, Early
    <3> QED
      BY <1>1, <2>1, <2>7, <3>1 DEF TypeOK, Advance
  <2> QED
    BY <1>4, <2>4, <2>5, <2>6, <2>7 DEF BreachAndInject, RaceAndNegate, CallMalformed,
       Pass, Escalate, Revoke, Replay, Diagnose, Gathered, Restore, Mend, Verify, rowVars
<1>5. ASSUME NEW r \in Runs, RunStrays(r)
      PROVE  OwnChains'
  BY <1>1, <1>5, StrayAlone
<1>6. CASE (\E v \in Status : Post(v)) \/ Spend
  BY <1>1, <1>6 DEF Post, Spend
<1>7. ASSUME NEW a \in Chains, NEW S, Edit(a, S)
      PROVE  OwnChains'
  <2>1. \A r \in Runs : r # a => flaws'[r] = flaws[r]
    BY <1>7 DEF Edit, TypeOK, Chains
  <2>2. a \in agents \/ a \notin Runs
    BY <1>7, StraysAssumption DEF Edit
  <2> QED
    BY <1>7, <2>1, <2>2 DEF OwnChains, Edit
<1> QED
  BY <1>1, <1>2, <1>3, <1>4, <1>5, <1>6, <1>7, Movers DEF rowVars, runVars

\* What an undisturbed run finds as it left it: the analyst, its audit rows, and
\* its calls, none of which is on its way outside category 4.
Undisturbed(r, p, bad, n, st, full, F) ==
    /\ bad = {}
    /\ p # "mend"
    /\ p \in {"fresh", "escalate"} => st = "active" /\ ~full
    /\ p = "replay" => st = "revoked"
    /\ n > 0 => p = "replay"
    /\ p = "delete" => "ahead" \notin F
    /\ p = "verify" => "ahead" \notin F /\ "there" \in F

CalmPlaces ==
    \A r \in Runs :
      calm[r] => Undisturbed(r, pc[r], failed[r], left[r], status, tight, flaws[r])

\* Every step keeps CalmPlaces: whoever else writes what a run uses spoils it.
LEMMA CalmStep ==
    ASSUME TypeOK, Unbegun, OwnChains, CalmPlaces, [Next]_vars
    PROVE  CalmPlaces'
<1> DEFINE Holds(x) ==
      calm'[x] => Undisturbed(x, pc'[x], failed'[x], left'[x], status', tight', flaws'[x])
<1>1. ASSUME NEW x \in Runs, calm'[x] => calm[x], pc'[x] = pc[x], failed'[x] = failed[x],
             left'[x] = left[x],
             UNCHANGED <<status, tight>> \/ (calm'[x] => x \notin Busy),
             flaws'[x] = flaws[x] \/ (calm'[x] => x \notin Busy)
      PROVE  Holds(x)
  <2> SUFFICES ASSUME calm'[x] PROVE Holds(x)
    OBVIOUS
  <2>1. Undisturbed(x, pc[x], failed[x], left[x], status, tight, flaws[x])
    BY <1>1 DEF CalmPlaces
  <2>2. CASE x \in Busy
    BY <1>1, <2>1, <2>2
  <2>3. CASE x \notin Busy
    BY <1>1, <2>1, <2>3 DEF Undisturbed, Busy, Resting
  <2> QED
    BY <2>2, <2>3
<1>2. CASE UNCHANGED <<rowVars, runVars>>
  BY <1>2 DEF CalmPlaces, rowVars, runVars
<1>3. CASE Kill
  <2>1. PICK D \in SUBSET Busy : /\ pc' = [x \in Runs |-> IF x \in D THEN "died" ELSE pc[x]]
                                 /\ Spoil(D)
    BY <1>3 DEF Kill
  <2>2. \A x \in Runs : calm'[x] => calm[x] /\ x \notin D
    BY <2>1, SpoilKeeps DEF TypeOK
  <2>3. \A x \in Runs : calm'[x] => pc'[x] = pc[x]
    BY <2>1, <2>2
  <2>4. UNCHANGED <<status, tight, flaws, left, failed>>
    BY <1>3 DEF Kill, rowVars
  <2> QED
    BY <2>2, <2>3, <2>4 DEF CalmPlaces
<1>4. ASSUME NEW r \in Runs, ask[r] = "sent", Launch(r), UNCHANGED <<rowVars, left, failed>>
      PROVE  CalmPlaces'
  <2>1. calm'[r] => status = "active" /\ ~tight
    BY <1>4, Zenon DEF Launch, TypeOK
  <2>2. \A x \in Runs \ {r} : calm'[x] = calm[x] /\ pc'[x] = pc[x]
    BY <1>4 DEF Launch, TypeOK
  <2>3. failed[r] = {} /\ left[r] = 0 /\ pc'[r] = "fresh"
    BY <1>4 DEF Launch, TypeOK, Unbegun
  <2>4. Holds(r)
    BY <1>4, <2>1, <2>3 DEF Undisturbed, rowVars
  <2>5. \A x \in Runs \ {r} : Holds(x)
    BY <1>4, <2>2 DEF CalmPlaces, rowVars
  <2> QED
    BY <2>4, <2>5 DEF CalmPlaces
<1>5. ASSUME NEW r \in Runs, RunStep(r) \/ RunFails(r)
      PROVE  CalmPlaces'
  <2> USE DEF RunStep, Step, RunFails
  <2>2. \A x \in Runs : calm'[x] => calm[x]
    <3>1. UNCHANGED calm \/ \E S : Spoil(S)
      BY <1>5 DEF BreachAndInject, RaceAndNegate, CallMalformed, Pass, Escalate,
         Revoke, Replay, Charge, Diagnose, Gathered, Restore, Mend, Seed, Delete, Verify,
         Fail
    <3> QED
      BY <3>1, SpoilKeeps DEF TypeOK
  <2>3. ASSUME NEW x \in Runs \ {r} PROVE Holds(x)
    <3>1. pc'[x] = pc[x] /\ failed'[x] = failed[x] /\ left'[x] = left[x]
      BY <1>5, OthersAlone
    <3>2. UNCHANGED <<status, tight>> \/ \E S : Spoil(S) /\ Busy \ {r} \subseteq S
      BY <1>5 DEF BreachAndInject, RaceAndNegate, CallMalformed, Pass, Escalate, Revoke,
         Replay, Charge, Diagnose, Gathered, Restore, Mend, Seed, Delete, Verify, Fail,
         rowVars
    <3>3. UNCHANGED <<status, tight>> \/ (calm'[x] => x \notin Busy)
      BY <3>2, SpoilKeeps DEF TypeOK
    <3>4. flaws'[x] = flaws[x]
      BY <1>5 DEF TypeOK, Chains, BreachAndInject, RaceAndNegate, CallMalformed, Pass,
         Escalate, Revoke, Replay, Diagnose, Gathered, Restore, Mend, Seed, Delete,
         Verify, Fail, rowVars
    <3> HIDE DEF Holds
    <3> QED
      BY <1>1, <2>2, <3>1, <3>3, <3>4
  <2>4. Holds(r)
    <3> SUFFICES ASSUME calm'[r] PROVE Holds(r)
      OBVIOUS
    <3> USE DEF Undisturbed
    <3>1. calm[r] /\ Undisturbed(r, pc[r], failed[r], left[r], status, tight, flaws[r])
      BY <2>2 DEF CalmPlaces
    <3>2. ~Fail(r)
      <4>1. ASSUME Fail(r) PROVE FALSE
        <5>1. r \in Busy /\ \E S : Spoil(S) /\ r \in S
          BY <4>1 DEF Fail
        <5> QED
          BY <5>1, SpoilKeeps DEF TypeOK
      <4> QED
        BY <4>1
    <3>3. CASE BreachAndInject(r) \/ RaceAndNegate(r) \/ CallMalformed(r)
      BY <3>1, <3>3 DEF BreachAndInject, RaceAndNegate, CallMalformed, Pass, Advance,
         Follows, TypeOK, rowVars
    <3>4. CASE Escalate(r)
      BY <3>1, <3>4 DEF Escalate, Advance, Follows, Record, Verdict, TypeOK, rowVars
    <3>5. CASE Revoke(r)
      BY <3>1, <3>5 DEF Revoke, Advance, Follows, Write, TypeOK
    <3>6. CASE Replay(r)
      BY <3>1, <3>6 DEF Replay, Arrive, TypeOK, rowVars
    <3>7. CASE Diagnose(r)
      BY <3>1, <3>7 DEF Diagnose, Record, Verdict, TypeOK, rowVars
    <3>8. CASE Gathered(r) \/ Restore(r)
      BY <3>1, <3>8 DEF Gathered, Restore, Advance, Follows, TypeOK, rowVars
    <3>9. CASE Seed(r)
      <4>1. flaws[r] = {} /\ UNCHANGED flaws
        BY <3>9 DEF OwnChains, Early, Seed
      <4> QED
        BY <3>1, <3>9, <4>1 DEF Seed, Advance, Follows, TypeOK
    <3>10. CASE Delete(r)
      <4>1. flaws'[r] = flaws[r] \union {"there"}
        BY <3>10 DEF Delete, TypeOK, Chains
      <4> QED
        BY <3>1, <3>10, <4>1 DEF Delete, Advance, Follows, TypeOK
    <3>11. CASE Verify(r)
      BY <3>1, <3>11 DEF Verify, Record, Verdict, Advance, Follows, TypeOK, rowVars
    <3>12. CASE Mend(r)
      BY <3>1, <3>12 DEF Mend
    <3> QED
      BY <1>5, <3>2, <3>3, <3>4, <3>5, <3>6, <3>7, <3>8, <3>9, <3>10, <3>11, <3>12
  <2> HIDE DEF Holds
  <2>5. \A x \in Runs : Holds(x)
    BY <2>3, <2>4
  <2> QED
    BY <2>5 DEF CalmPlaces, Holds
<1>6. ASSUME NEW r \in Runs, RunStrays(r)
      PROVE  CalmPlaces'
  <2>1. ~calm[r]
    BY <1>6, StrayAlone DEF CalmPlaces, Undisturbed
  <2>2. \A x \in Runs : calm'[x] => calm[x]
    BY <1>6, StrayAlone, SpoilKeeps DEF TypeOK
  <2>3. \A x \in Runs : UNCHANGED <<status, tight>> \/ (calm'[x] => x \notin Busy)
    BY <1>6, StrayAlone, SpoilKeeps DEF TypeOK
  <2>4. \A x \in Runs \ {r} : Holds(x)
    <3> HIDE DEF Holds
    <3> QED
      BY <1>1, <1>6, <2>2, <2>3, StrayAlone
  <2> QED
    BY <2>1, <2>2, <2>4 DEF CalmPlaces
<1>7. CASE (\E v \in Status : Post(v)) \/ Spend
  <2>1. UNCHANGED <<pc, failed, left, flaws>> /\ Spoil(Busy)
    BY <1>7 DEF Post, Spend
  <2>2. \A x \in Runs : calm'[x] => calm[x] /\ x \notin Busy
    BY <2>1, SpoilKeeps DEF TypeOK
  <2>3. \A x \in Runs : Holds(x)
    <3> HIDE DEF Holds
    <3> QED
      BY <1>1, <2>1, <2>2
  <2> QED
    BY <2>3 DEF CalmPlaces
<1>8. ASSUME NEW a \in Chains, NEW S, Edit(a, S)
      PROVE  CalmPlaces'
  <2>1. UNCHANGED <<status, tight, pc, failed, left>> /\ Spoil({a} \cap Busy)
    BY <1>8 DEF Edit
  <2>2. \A x \in Runs : /\ calm'[x] => calm[x]
                        /\ flaws'[x] = flaws[x] \/ (calm'[x] => x \notin Busy)
    BY <1>8, <2>1, SpoilKeeps DEF TypeOK, Edit, Chains
  <2>3. \A x \in Runs : Holds(x)
    <3> HIDE DEF Holds
    <3> QED
      BY <1>1, <2>1, <2>2
  <2> QED
    BY <2>3 DEF CalmPlaces
<1> QED
  BY <1>2, <1>3, <1>4, <1>5, <1>6, <1>7, <1>8, Movers

LEMMA CalmHolds == Spec => []CalmPlaces
<1>1. Init => Unbegun /\ OwnChains /\ CalmPlaces
  BY RunsAssumption DEF Init, Unbegun, OwnChains, CalmPlaces, Undisturbed, Chains, Early
<1> QED
  BY <1>1, TypeCorrect, UnbegunStep, OwnStep, CalmStep, PTL DEF Spec

\* A run that nothing interferes with records BLOCKED for each category that uses
\* what others use too, however many runs, calls, requests and changes of other
\* agents' audit rows there are besides.
THEOREM UndisturbedRunsPass == Spec => []CalmRunsPass
<1>1. CalmPlaces => CalmRunsPass
  BY DEF CalmPlaces, CalmRunsPass, Undisturbed
<1> QED
  BY <1>1, CalmHolds, PTL

\* The calls that such a run sends to a revoked analyst are not charged, neither
\* while it waits for them nor later: none is left behind.
THEOREM UndisturbedRunsChargeNothing == Spec => CalmRunsChargeNothing
<1> DEFINE Charged == \A r \in Runs : calm[r] /\ left'[r] # left[r] => tight' = tight
<1>1. ASSUME TypeOK, CalmPlaces, [Next]_vars
      PROVE  Charged
  <2>1. CASE UNCHANGED tight \/ UNCHANGED left
    BY <2>1
  <2>2. ASSUME NEW x \in Runs, RunStep(x) \/ RunFails(x) PROVE Charged
    <3>1. CASE Replay(x)
      <4>1. calm[x] => status = "revoked"
        BY <1>1, <3>1 DEF CalmPlaces, Undisturbed, Replay
      <4>2. ASSUME calm[x] PROVE tight' = tight
        <5>1. status # "active"
          BY <4>1, <4>2
        <5> QED
          BY <3>1, <5>1 DEF Replay
      <4>3. \A r \in Runs \ {x} : left'[r] = left[r]
        BY <1>1, <2>2, OthersAlone
      <4> QED
        BY <4>2, <4>3
    <3>2. CASE ~Replay(x)
      <4>1. UNCHANGED tight
        BY <2>2, <3>2 DEF RunStep, Step, RunFails, BreachAndInject, RaceAndNegate,
           CallMalformed, Pass, Escalate, Revoke, Diagnose, Gathered, Restore, Mend,
           Seed, Delete, Verify, Fail, rowVars
      <4> QED
        BY <4>1
    <3> QED
      BY <3>1, <3>2
  <2>3. ASSUME NEW x \in Runs, RunStrays(x) PROVE Charged
    <3>1. ~calm[x]
      BY <1>1, <2>3, StrayAlone DEF CalmPlaces, Undisturbed
    <3> QED
      BY <1>1, <2>3, <3>1, StrayAlone
  <2> HIDE DEF Charged
  <2> QED
    BY <1>1, <2>1, <2>2, <2>3, Movers DEF Kill, Post, Spend, Edit, rowVars, runVars
<1>2. TypeOK /\ CalmPlaces /\ [Next]_vars => [Charged]_<<rowVars, runVars>>
  BY <1>1
<1> HIDE DEF Charged
<1>3. Spec => [][Charged]_<<rowVars, runVars>>
  BY <1>2, TypeCorrect, CalmHolds, PTL DEF Spec
<1> QED
  BY <1>3 DEF Charged, CalmRunsChargeNothing

\* Every step keeps RunsRestore.
LEMMA RestoreStep ==
    ASSUME TypeOK, Unbegun, RunsRestore, [Next]_vars
    PROVE  RunsRestore'
<1>1. CASE UNCHANGED <<status, setBy, pc>>
  BY <1>1 DEF RunsRestore
<1>2. CASE Kill
  <2>1. UNCHANGED <<status, setBy>>
    BY <1>2 DEF Kill, rowVars
  <2>2. \A r \in Runs : pc'[r] \in {pc[r], "died"}
    BY <1>2 DEF Kill
  <2> QED
    BY <2>1, <2>2 DEF RunsRestore
<1>3. ASSUME NEW r \in Runs, ask[r] = "sent", Launch(r), UNCHANGED rowVars
      PROVE  RunsRestore'
  <2>1. ~(status = "revoked" /\ setBy = r)
    BY <1>3 DEF RunsRestore, Unbegun
  <2>2. \A x \in Runs \ {r} : pc'[x] = pc[x]
    BY <1>3 DEF Launch, TypeOK
  <2> QED
    BY <1>3, <2>1, <2>2 DEF RunsRestore, rowVars
<1>4. ASSUME NEW r \in Runs, RunStep(r) \/ RunFails(r)
      PROVE  RunsRestore'
  <2>1. \A x \in Runs \ {r} : pc'[x] = pc[x]
    BY <1>4, OthersAlone
  <2> USE DEF RunStep, Step, RunFails
  <2>2. \A x \in Runs \ {r} :
          status' = "revoked" /\ setBy' = x => status = "revoked" /\ setBy = x
    BY <1>4 DEF BreachAndInject, RaceAndNegate, CallMalformed, Pass, Escalate, Revoke,
       Replay, Diagnose, Gathered, Restore, Mend, Seed, Delete, Verify, Fail, Write,
       rowVars
  <2>3. ASSUME status' = "revoked", setBy' = r
        PROVE  pc'[r] \in {"replay", "restore", "mend", "died"}
    <3>1. CASE Revoke(r)
      BY <3>1 DEF Revoke, Advance, Follows, TypeOK
    <3>2. CASE Restore(r) \/ Mend(r)
      BY <2>3, <3>2 DEF Restore, Mend, Write
    <3>3. CASE Replay(r) \/ Diagnose(r)
      BY <2>3, <3>3 DEF Replay, Diagnose, RunsRestore, rowVars
    <3>4. CASE Gathered(r)
      BY <3>4 DEF Gathered, Advance, Follows, TypeOK
    <3>5. CASE BreachAndInject(r) \/ RaceAndNegate(r) \/ CallMalformed(r)
             \/ Escalate(r) \/ Seed(r) \/ Delete(r) \/ Verify(r)
      <4>1. /\ status = "revoked" /\ setBy = r
            /\ pc[r] \notin {"replay", "restore", "mend", "died"}
        BY <2>3, <3>5 DEF BreachAndInject, RaceAndNegate, CallMalformed, Pass,
           Escalate, Seed, Delete, Verify, rowVars
      <4> QED
        BY <4>1 DEF RunsRestore
    <3>6. CASE Fail(r)
      <4>1. PICK p \in Resumes[pc[r]] : pc' = [pc EXCEPT ![r] = p]
        BY <3>6 DEF Fail
      <4>2. CASE pc[r] \in {"revoke", "replay", "restore", "mend"}
        BY <4>1, <4>2 DEF Resumes, TypeOK
      <4>3. CASE pc[r] \notin {"revoke", "replay", "restore", "mend"}
        <5>1. status = "revoked" /\ setBy = r /\ r \in Busy
          BY <2>3, <3>6, <4>3 DEF Fail, rowVars
        <5> QED
          BY <4>3, <5>1 DEF RunsRestore, Busy, Resting
      <4> QED
        BY <4>2, <4>3
    <3> QED
      BY <1>4, <3>1, <3>2, <3>3, <3>4, <3>5, <3>6
  <2> QED
    BY <2>1, <2>2, <2>3 DEF RunsRestore
<1>5. CASE \E v \in Status : Post(v)
  BY <1>5, RunsAssumption DEF Post, Write, RunsRestore
<1>6. CASE Spend \/ \E a \in Chains : \E S : Edit(a, S)
  BY <1>1, <1>6 DEF Spend, Edit
<1>7. CASE \E r \in Runs : RunStrays(r)
  BY <1>1, <1>7, StrayAlone
<1> QED
  BY <1>1, <1>2, <1>3, <1>4, <1>5, <1>6, <1>7, Movers DEF rowVars, runVars

\* A run leaves the analyst revoked only by dying.
THEOREM RunsDoRestore == Spec => []RunsRestore
<1>1. Init => Unbegun /\ RunsRestore
  BY RunsAssumption DEF Init, Unbegun, RunsRestore
<1> QED
  BY <1>1, TypeCorrect, UnbegunStep, RestoreStep, PTL DEF Spec

-----------------------------------------------------------------------------
(* What undoes an operator's revocation                                     *)

\* Nobody but a run at the end of its category 4 activates an agent that an
\* operator has revoked, operators aside.
LEMMA UndoneByRun ==
    ASSUME TypeOK, [Next]_vars, status = "revoked", status' = "active", setBy' # "operator"
    PROVE  \E r \in Runs : setBy' = r /\ pc[r] \in {"restore", "mend"}
<1>1. ASSUME NEW r \in Runs, RunStep(r) \/ RunFails(r)
      PROVE  setBy' = r /\ pc[r] \in {"restore", "mend"}
  <2>1. CASE RunFails(r)
    BY <1>1, <2>1 DEF RunFails, Fail, Write, rowVars
  <2>2. CASE RunStep(r)
    <3>1. Restore(r) \/ Mend(r)
      BY <2>2 DEF RunStep, Step, BreachAndInject, RaceAndNegate, CallMalformed, Pass,
         Escalate, Revoke, Replay, Diagnose, Gathered, Seed, Delete, Verify, Write, rowVars
    <3> QED
      BY <3>1 DEF Restore, Mend, Write
  <2> QED
    BY <1>1, <2>1, <2>2
<1>2. ASSUME NEW v, Post(v) PROVE FALSE
  BY <1>2 DEF Post, Write
<1>3. ~(status' = status)
  OBVIOUS
<1>4. ~Kill /\ ~Spend /\ ~\E a \in Chains : \E S : Edit(a, S)
  BY <1>3 DEF Kill, Spend, Edit, rowVars
<1>5. ~\E r \in Runs : RunStrays(r)
  BY <1>3, StrayAlone
<1> QED
  BY <1>1, <1>2, <1>3, <1>4, <1>5, Movers DEF rowVars

\* Only category 4 of a scorecard run, at its end or in its except clause,
\* activates an agent that an operator has revoked: while no run is there a
\* revocation holds, whatever else the page, other clients, faults, stops and
\* kills do.
THEOREM OnlyRunsUndoRevocations ==
    Spec => [][status = "revoked" /\ setBy = "operator" /\ status' = "active"
                   => \/ setBy' = "operator"
                      \/ \E r \in Runs : setBy' = r /\ pc[r] \in {"restore", "mend"}]_vars
<1>1. TypeOK /\ [Next]_vars
        => [status = "revoked" /\ setBy = "operator" /\ status' = "active"
              => \/ setBy' = "operator"
                 \/ \E r \in Runs : setBy' = r /\ pc[r] \in {"restore", "mend"}]_vars
  BY UndoneByRun
<1> QED
  BY <1>1, TypeCorrect, PTL DEF Spec

\* Nobody opens the page, and no script runs or has left calls behind.
NoRuns ==
    plan.loads = 0 /\ \A r \in Runs : ask[r] = "none" /\ pc[r] = "idle" /\ left[r] = 0

LEMMA NoRunsStep ==
    ASSUME TypeOK, NoRuns, [Next]_vars
    PROVE  NoRuns'
<1>0. plan \in Plan
  BY DEF TypeOK
<1>1. CASE UNCHANGED vars
  BY <1>1 DEF vars, runVars, appVars, NoRuns
<1>2. CASE Start \/ Stop \/ Close \/ End
  BY <1>0, <1>2 DEF Start, Stop, Close, End, runVars, NoRuns, Plan
<1>3. CASE Kill
  <2>1. Busy = {}
    BY DEF NoRuns, Busy, Resting
  <2>2. \A r \in Runs : pc'[r] = pc[r] /\ ask'[r] = ask[r] /\ left'[r] = left[r]
    BY <1>3, <2>1 DEF Kill, NoRuns
  <2>3. plan'.loads = plan.loads
    BY <1>0, <1>3 DEF Kill, Plan
  <2> QED
    BY <2>2, <2>3 DEF NoRuns
<1>4. ASSUME NEW r \in Runs, Load(r) \/ AnswerScorecard(r) \/ Collect(r)
      PROVE  FALSE
  BY <1>4 DEF NoRuns, Load, AnswerScorecard, Collect
<1>5. ASSUME NEW r \in Runs, RunStep(r) \/ RunFails(r) \/ RunStrays(r)
      PROVE  FALSE
  BY <1>5 DEF NoRuns, RunStep, Step, BreachAndInject, RaceAndNegate, CallMalformed, Pass,
     Escalate, Revoke, Replay, Diagnose, Gathered, Restore, Mend, Seed, Delete, Verify,
     RunFails, Fail, RunStrays, Stray, Arrive, Busy, Resting
<1>6. ASSUME NEW s \in Slots, Poll(s) \/ Handle(s) \/ Refuse(s) \/ Show(s)
      PROVE  UNCHANGED <<pc, left, ask>> /\ plan'.loads = plan.loads
  BY <1>0, <1>6 DEF Poll, Handle, AnswerAgents, SelectStatus, SelectAudit, VerifyOne,
     Refuse, Show, runVars, appVars, Plan
<1>7. ASSUME NEW v \in Status, Post(v)
      PROVE  UNCHANGED <<pc, left, ask>> /\ plan'.loads = plan.loads
  BY <1>0, <1>7 DEF Post, appVars, Plan
<1>8. CASE Spend
  BY <1>0, <1>8 DEF Spend, appVars, Plan, NoRuns
<1>9. ASSUME NEW a \in Chains, Break(a) \/ PutRight(a)
      PROVE  UNCHANGED <<pc, left, ask>> /\ plan'.loads = plan.loads
  BY <1>0, <1>9 DEF Break, PutRight, Edit, appVars, Plan
<1> QED
  BY <1>1, <1>2, <1>3, <1>4, <1>5, <1>6, <1>7, <1>8, <1>9 DEF Next, Status, NoRuns

\* "Immediately blocking all future reserve() calls": an operator's revocation
\* holds until an operator's activation as long as nobody opens the page, whose
\* first request starts the scorecard.
THEOREM RevocationsHold ==
    ASSUME \A w \in Workloads : w.loads = 0
    PROVE  Spec => RevocationHolds
<1>1. Init => NoRuns
  BY DEF Init, NoRuns
<1>2. TypeOK /\ NoRuns /\ [Next]_vars
        => [status = "revoked" /\ setBy = "operator" /\ status' = "active"
              => setBy' = "operator"]_vars
  BY UndoneByRun DEF NoRuns
<1> QED
  BY <1>1, <1>2, TypeCorrect, NoRunsStep, PTL DEF Spec, RevocationHolds

-----------------------------------------------------------------------------
(* What is answered and shown                                               *)

\* What the loop over the chains still has to look at, and what it has found, of
\* a request q of a slot of this kind, when the chains of B are broken.
Looked(kind, q, B) ==
    /\ q.at = "verifying" => /\ q.still \subseteq B
                             /\ q.still \subseteq q.todo \union q.found
    /\ q.at = "answered" /\ q.found # {"error"} =>
         /\ kind = "audit"  => q.still \subseteq q.found
         /\ kind = "status" => (q.still # {} => q.found # {})

Surveyed == \A s \in Slots : Looked(plan.kind[s], req[s], Broken)

\* What a slot is for does not change.
LEMMA KindStays ==
    ASSUME TypeOK, [Next]_vars
    PROVE  plan'.kind = plan.kind
<1>1. UNCHANGED plan \/ \E f \in {"loads", "posts", "spends", "edits", "faults", "stops",
                                 "kills"} :
                           plan' = [plan EXCEPT ![f] = @ - 1]
  BY DEF Next, vars, Start, Stop, Close, End, Kill, Load, AnswerScorecard, Collect,
     RunStep, RunFails, RunStrays, Stray, Step, BreachAndInject, RaceAndNegate,
     CallMalformed, Pass, Escalate, Revoke, Replay, Diagnose, Gathered, Restore, Mend,
     Seed, Delete, Verify, Fail, Poll, Handle, AnswerAgents, SelectStatus, SelectAudit,
     VerifyOne, Refuse, Show, Post, Spend, Break, PutRight, Edit
<1> QED
  BY <1>1 DEF TypeOK, Plan

\* A step changes no request and no chain, or what handlers verify is noticed to
\* change, or it is the step of a request or the end of all.
LEMMA Requests ==
    ASSUME TypeOK, [Next]_vars
    PROVE  \/ UNCHANGED <<flaws, req>>
           \/ Notice
           \/ UNCHANGED flaws /\ \A s \in Slots : req'[s] \in {Idle, req[s]}
           \/ \E s \in Slots : Poll(s) \/ Handle(s) \/ Refuse(s) \/ Show(s)
<1>1. CASE Kill
  BY <1>1 DEF Kill, rowVars
<1>2. CASE ~Kill
  BY <1>2 DEF Next, vars, rowVars, Start, Stop, Close, End, Load, AnswerScorecard,
     Collect, RunStep, RunFails, RunStrays, Stray, Post, Spend, Break, PutRight, Edit
<1> QED
  BY <1>1, <1>2

\* Every step keeps Surveyed: a chain that is broken ever since the first SELECT
\* is still to be looked at or has been found.
LEMMA SurveyedStep ==
    ASSUME TypeOK, Surveyed, [Next]_vars
    PROVE  Surveyed'
<1>1. \A s \in Slots : Looked(plan.kind[s], req[s], Broken)
  BY DEF Surveyed
<1>2. UNCHANGED flaws => Broken' = Broken
  BY DEF Broken
<1>3. \A kind, B : Looked(kind, Idle, B)
  BY DEF Looked, Idle, Request
<1>4. ASSUME NEW s \in Slots, NEW q, req' = [req EXCEPT ![s] = q], UNCHANGED flaws,
             Looked(plan.kind[s], q, Broken)
      PROVE  \A x \in Slots : Looked(plan.kind[x], req'[x], Broken')
  <2>1. req'[s] = q /\ \A x \in Slots \ {s} : req'[x] = req[x]
    BY <1>4 DEF TypeOK
  <2> QED
    BY <1>1, <1>2, <1>4, <2>1
<1>5. \A x \in Slots : Looked(plan.kind[x], req'[x], Broken')
  <2>1. CASE UNCHANGED <<flaws, req>>
    BY <1>1, <1>2, <2>1
  <2>2. CASE UNCHANGED flaws /\ \A s \in Slots : req'[s] \in {Idle, req[s]}
    BY <1>1, <1>2, <1>3, <2>2
  <2>3. CASE Notice
    <3>1. ASSUME NEW x \in Slots, req[x].at # "verifying"
          PROVE  Looked(plan.kind[x], req'[x], Broken')
      <4>1. req'[x] = req[x]
        BY <2>3, <3>1 DEF Notice
      <4> QED
        BY <1>1, <3>1, <4>1 DEF Looked
    <3>2. ASSUME NEW x \in Slots, req[x].at = "verifying"
          PROVE  Looked(plan.kind[x], req'[x], Broken')
      <4>1. /\ req'[x].at = "verifying" /\ req'[x].todo = req[x].todo
            /\ req'[x].found = req[x].found /\ req'[x].still = req[x].still \cap Broken'
        BY <2>3, <3>2 DEF Notice, TypeOK
      <4>2. req[x].still \subseteq req[x].todo \union req[x].found
        BY <1>1, <3>2 DEF Looked
      <4> QED
        BY <4>1, <4>2 DEF Looked
    <3> QED
      BY <3>1, <3>2
  <2>4. ASSUME NEW s \in Slots, Poll(s) \/ Handle(s) \/ Refuse(s) \/ Show(s)
        PROVE  \A x \in Slots : Looked(plan.kind[x], req'[x], Broken')
    <3>0. UNCHANGED flaws
      BY <2>4 DEF Poll, Handle, AnswerAgents, SelectStatus, SelectAudit, VerifyOne,
         Refuse, Show, rowVars
    <3>1. CASE Poll(s)
      <4>1. Looked(plan.kind[s], Request("sent", {}, {}, {}), Broken)
        BY DEF Looked, Request
      <4> QED
        BY <1>4, <3>0, <3>1, <4>1 DEF Poll
    <3>2. ASSUME NEW found, Answer(s, found)
          PROVE  \A x \in Slots : Looked(plan.kind[x], req'[x], Broken')
      <4>1. Looked(plan.kind[s], Request("answered", {}, found, {}), Broken)
        BY DEF Looked, Request
      <4> QED
        BY <1>4, <3>0, <3>2, <4>1 DEF Answer
    <3>3. ASSUME NEW S, Survey(s, S), plan.kind[s] = "status" => S = agents
          PROVE  \A x \in Slots : Looked(plan.kind[x], req'[x], Broken')
      <4> DEFINE q == Request(IF S = {} THEN "answered" ELSE "verifying", S, {},
                              Broken \cap IF plan.kind[s] = "status" THEN agents ELSE S)
      <4>1. Looked(plan.kind[s], q, Broken)
        BY <3>3 DEF Looked, Request
      <4>2. req' = [req EXCEPT ![s] = q]
        BY <3>3 DEF Survey
      <4> QED
        BY <1>4, <3>0, <4>1, <4>2
    <3>4. CASE VerifyOne(s)
      <4>1. PICK a \in req[s].todo :
              LET bad  == Broken \cap {a}
                  todo == IF plan.kind[s] = "status" /\ bad # {} THEN {}
                          ELSE req[s].todo \ {a}
              IN  req' = [req EXCEPT ![s] =
                       Request(IF todo = {} THEN "answered" ELSE "verifying", todo,
                               req[s].found \union bad, req[s].still)]
        BY <3>4 DEF VerifyOne
      <4> DEFINE bad  == Broken \cap {a}
                 todo == IF plan.kind[s] = "status" /\ bad # {} THEN {}
                         ELSE req[s].todo \ {a}
                 q    == Request(IF todo = {} THEN "answered" ELSE "verifying", todo,
                                 req[s].found \union bad, req[s].still)
      <4>2. req' = [req EXCEPT ![s] = q]
        BY <4>1
      <4>3. req[s].still \subseteq Broken /\ req[s].still \subseteq req[s].todo \union req[s].found
        BY <1>1, <3>4 DEF VerifyOne, Looked
      <4>4. /\ q.found = req[s].found \union bad /\ q.still = req[s].still /\ q.todo = todo
            /\ q.at = IF todo = {} THEN "answered" ELSE "verifying"
        BY DEF Request
      <4>5. todo # {} => q.still \subseteq todo \union req[s].found \union bad
        BY <4>3, <4>4
      <4>6. plan.kind[s] = "audit" /\ todo = {} => q.still \subseteq req[s].found \union bad
        BY <4>3, <4>4
      <4>7. todo = {} /\ q.still # {} => req[s].found \union bad # {}
        BY <4>3, <4>4
      <4>8. Looked(plan.kind[s], q, Broken)
        <5> HIDE DEF q, todo, bad
        <5> QED
          BY <4>3, <4>4, <4>5, <4>6, <4>7 DEF Looked
      <4> HIDE DEF q
      <4> QED
        BY <1>4, <3>0, <4>2, <4>8
    <3>5. CASE Show(s)
      BY <1>3, <1>4, <3>0, <3>5 DEF Show
    <3> QED
      BY <2>4, <3>1, <3>2, <3>3, <3>4, <3>5 DEF Handle, AnswerAgents, SelectStatus,
         SelectAudit, Refuse, Asked
  <2> QED
    BY <2>1, <2>2, <2>3, <2>4, Requests
<1> QED
  BY <1>5, KindStays DEF Surveyed

\* A chain that is broken from the first SELECT of /api/status or /api/audit
\* until they answer does not escape them, however rows change meanwhile.
THEOREM VerdictsAreTrue == Spec => []VerdictIsTrue
<1>1. Init => Surveyed
  BY DEF Init, Surveyed, Looked, Idle, Request
<1>2. Surveyed => VerdictIsTrue
  BY DEF Surveyed, Looked, VerdictIsTrue
<1> QED
  BY <1>1, <1>2, TypeCorrect, SurveyedStep, PTL DEF Spec
=============================================================================
