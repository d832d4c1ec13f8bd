------------------------------ MODULE Dashboard ------------------------------
(***************************************************************************)
(* The application of main.py with the requests of dashboard.py, and       *)
(* index.html, the page that polls them: a single process, each request a  *)
(* coroutine suspended at every statement.  GET /api/scorecard starts the  *)
(* script of Scorecard; everything else on the page only reads, or is an   *)
(* operator's POST.  Around it the process is stopped or killed, somebody  *)
(* changes audit rows, and other clients spend from the analyst's cap.     *)
(***************************************************************************)
EXTENDS Scorecard

CONSTANTS
    Slots,      \* requests of the page that may be under way at a time
    Strays,     \* agents with audit rows and no row in the agents table
    NoCard,     \* no scorecard
    Workloads   \* the plans a behaviour starts with

Kinds == {"status", "agents", "audit", "off"}

Chains == {"analyst"} \union Strays \union Runs

Plan == [kind   : [Slots -> Kinds], \* what each slot requests
         loads  : Nat,              \* page loads, each with its own run
         posts  : Nat,              \* revocations and activations
         spends : Nat,              \* other clients' use of the cap
         edits  : Nat,              \* changes of audit rows
         faults : Nat,              \* statements that fail
         stops  : Nat,              \* graceful stops
         kills  : Nat]              \* SIGKILLs

ASSUME WorkloadsAssumption == Workloads \subseteq Plan
ASSUME StraysAssumption == Strays \cap ({"analyst"} \union Runs) = {}

VARIABLES
    app,        \* the process: "down", "up", "draining" or "closing"
    cache,      \* _cached_scorecard: its FAILED lines
    ask,        \* GET /api/scorecard of each page load
    card,       \* what the page shows of it
    req,        \* the page's other requests
    shown       \* what the page shows of their answers

appVars == <<app, cache, ask, card>>
vars == <<rowVars, runVars, plan, appVars, req, shown>>

\* todo: chains still to be verified; found: those found broken, or what else
\* is answered; still: history, those broken ever since the handler began.
Request(at, todo, found, still) ==
    [at |-> at, todo |-> todo, found |-> found, still |-> still]

Idle == Request("idle", {}, {}, {})
Waiting == {"sent", "verifying"}

\* Chains that verify_chain finds fault with.
Broken == {a \in Chains : flaws[a] # {}}

\* Rows may change while handlers verify chains.
Notice ==
    req' = [s \in Slots |->
              IF req[s].at = "verifying"
              THEN [req[s] EXCEPT !.still = @ \cap Broken']
              ELSE req[s]]

Init ==
    /\ status = "active" /\ setBy = "seed" /\ tight = FALSE
    /\ agents = {"analyst"}
    /\ flaws = [a \in Chains |-> {}]
    /\ pc = [r \in Runs |-> "idle"]
    /\ left = [r \in Runs |-> 0] /\ denied = [r \in Runs |-> 0]
    /\ failed = [r \in Runs |-> {}]
    /\ calm = [r \in Runs |-> TRUE]
    /\ plan \in Workloads
    /\ app = "down"
    /\ cache = NoCard
    /\ ask = [r \in Runs |-> "none"]
    /\ card = [r \in Runs |-> NoCard]
    /\ req = [s \in Slots |-> Idle]
    /\ shown = [k \in Kinds |-> {}]

-----------------------------------------------------------------------------
(* lifespan                                                                 *)

\* init_db_pool, before the first request is accepted.
Start ==
    /\ app = "down"
    /\ app' = "up"
    /\ UNCHANGED <<rowVars, runVars, plan, cache, ask, card, req, shown>>

\* SIGTERM: uvicorn accepts no more requests.
Stop ==
    /\ app = "up"
    /\ plan.stops > 0
    /\ plan' = [plan EXCEPT !.stops = @ - 1]
    /\ app' = "draining"
    /\ UNCHANGED <<rowVars, runVars, cache, ask, card, req, shown>>

Answered ==
    /\ \A s \in Slots : req[s].at \notin Waiting
    /\ \A r \in Runs : ask[r] \notin {"sent", "running"}

\* Once the requests are answered, close_db_pool awaits the close ...
Close ==
    /\ app = "draining"
    /\ Answered
    /\ app' = "closing"
    /\ UNCHANGED <<rowVars, runVars, plan, cache, ask, card, req, shown>>

\* ... and the process ends.
End ==
    /\ app = "closing"
    /\ app' = "down"
    /\ cache' = NoCard
    /\ UNCHANGED <<rowVars, runVars, plan, ask, card, req, shown>>

\* The process is killed, and any of its runs with it; the others go on with
\* nobody to read what they print.
Kill ==
    /\ app # "down"
    /\ plan.kills > 0
    /\ plan' = [plan EXCEPT !.kills = @ - 1]
    /\ app' = "down"
    /\ cache' = NoCard
    /\ ask' = [r \in Runs |-> IF ask[r] \in {"sent", "running"} THEN "lost" ELSE ask[r]]
    /\ req' = [s \in Slots |-> IF req[s].at \in Waiting THEN Idle ELSE req[s]]
    /\ \E D \in SUBSET Busy :
          /\ pc' = [r \in Runs |-> IF r \in D THEN "died" ELSE pc[r]]
          /\ Spoil(D)
    /\ UNCHANGED <<rowVars, left, denied, failed, card, shown>>

-----------------------------------------------------------------------------
(* GET /api/scorecard                                                       *)

\* The page is opened.
Load(r) ==
    /\ app = "up"
    /\ ask[r] = "none"
    /\ plan.loads > 0
    /\ plan' = [plan EXCEPT !.loads = @ - 1]
    /\ ask' = [ask EXCEPT ![r] = "sent"]
    /\ UNCHANGED <<rowVars, runVars, app, cache, card, req, shown>>

\* Nothing says that a run has been started already.
AnswerScorecard(r) ==
    /\ ask[r] = "sent"
    /\ IF cache # NoCard
       THEN /\ ask' = [ask EXCEPT ![r] = "shown"]
            /\ card' = [card EXCEPT ![r] = cache]
            /\ UNCHANGED runVars
       ELSE /\ ask' = [ask EXCEPT ![r] = "running"]
            /\ Launch(r)
            /\ UNCHANGED <<left, denied, failed, card>>
    /\ UNCHANGED <<rowVars, plan, app, cache, req, shown>>

\* Mutant: a run that printed nothing is waited for.
PatientCollect(r) ==
    /\ ask[r] = "running"
    /\ pc[r] = "done"
    /\ ask' = [ask EXCEPT ![r] = "shown"]
    /\ cache' = Printed(r)
    /\ card' = [card EXCEPT ![r] = Printed(r)]
    /\ UNCHANGED <<rowVars, runVars, plan, app, req, shown>>

\* communicate returns when the run has ended.  What a run printed replaces
\* the cached scorecard; a run that died printed none, and is tried again.
Collect(r) ==
    /\ ask[r] = "running"
    /\ pc[r] \in {"done", "died"}
    /\ ask' = [ask EXCEPT ![r] = "shown"]
    /\ IF pc[r] = "done"
       THEN cache' = Printed(r) /\ card' = [card EXCEPT ![r] = Printed(r)]
       ELSE UNCHANGED <<cache, card>>
    /\ UNCHANGED <<rowVars, runVars, plan, app, req, shown>>

-----------------------------------------------------------------------------
(* The page's polling                                                       *)

\* fetchAll, of the timer or after a toggle.
Poll(s) ==
    /\ app = "up"
    /\ plan.kind[s] # "off"
    /\ req[s].at = "idle"
    /\ req' = [req EXCEPT ![s] = Request("sent", {}, {}, {})]
    /\ UNCHANGED <<rowVars, runVars, plan, appVars, shown>>

Asked(s, kind) == req[s].at = "sent" /\ plan.kind[s] = kind

Answer(s, found) == req' = [req EXCEPT ![s] = Request("answered", {}, found, {})]

\* The handler is to verify the chains of S.
Survey(s, S) ==
    req' = [req EXCEPT ![s] =
              Request(IF S = {} THEN "answered" ELSE "verifying", S, {},
                      Broken \cap IF plan.kind[s] = "status" THEN agents ELSE S)]

\* Mutant: an answer is kept, as that of the scorecard is.
CachedAgents(s) ==
    /\ Asked(s, "agents")
    /\ Answer(s, IF shown["agents"] = {} THEN {status} ELSE shown["agents"])
    /\ UNCHANGED <<rowVars, runVars, plan, appVars, shown>>

\* GET /api/agents: one SELECT.
AnswerAgents(s) ==
    /\ Asked(s, "agents")
    /\ Answer(s, {status})
    /\ UNCHANGED <<rowVars, runVars, plan, appVars, shown>>

\* Mutant: the agents of recent audit rows are enough.
RecentStatus(s) ==
    /\ Asked(s, "status")
    /\ \E S \in SUBSET agents : S # {} /\ Survey(s, S)
    /\ UNCHANGED <<rowVars, runVars, plan, appVars, shown>>

\* GET /api/status reads the agents, then their chains one after the other.
SelectStatus(s) ==
    /\ Asked(s, "status")
    /\ Survey(s, agents)
    /\ UNCHANGED <<rowVars, runVars, plan, appVars, shown>>

\* GET /api/audit looks at the agents of the last rows, registered or not.
SelectAudit(s) ==
    /\ Asked(s, "audit")
    /\ \E S \in SUBSET (agents \union Strays) : Survey(s, S)
    /\ UNCHANGED <<rowVars, runVars, plan, appVars, shown>>

\* verify_chain of a; /api/status stops at the first that is broken.
VerifyOne(s) ==
    /\ req[s].at = "verifying"
    /\ \E a \in req[s].todo :
         LET bad  == Broken \cap {a}
             todo == IF plan.kind[s] = "status" /\ bad # {} THEN {}
                     ELSE req[s].todo \ {a}
         IN  req' = [req EXCEPT ![s] =
                       Request(IF todo = {} THEN "answered" ELSE "verifying", todo,
                               req[s].found \union bad, req[s].still)]
    /\ UNCHANGED <<rowVars, runVars, plan, appVars, shown>>

\* A statement of a handler raises: global_exception_handler answers 500.
Refuse(s) ==
    /\ req[s].at \in Waiting
    /\ plan.faults > 0
    /\ plan' = [plan EXCEPT !.faults = @ - 1]
    /\ Answer(s, {"error"})
    /\ UNCHANGED <<rowVars, runVars, appVars, shown>>

\* An answer reaches the page, which does not look at its status: of a 500
\* it shows a chain broken at row undefined, no agents, and the links it had.
Show(s) ==
    LET kind == plan.kind[s]
    IN  /\ req[s].at = "answered"
        /\ req' = [req EXCEPT ![s] = Idle]
        /\ IF kind = "audit" /\ req[s].found = {"error"}
           THEN UNCHANGED shown
           ELSE shown' = [shown EXCEPT ![kind] = req[s].found]
        /\ UNCHANGED <<rowVars, runVars, plan, appVars>>

-----------------------------------------------------------------------------
(* Others                                                                   *)

\* POST /api/agents/{id}/revoke or /activate, from whichever page.
Post(v) ==
    /\ app \in {"up", "draining"}
    /\ plan.posts > 0
    /\ plan' = [plan EXCEPT !.posts = @ - 1]
    /\ Write("operator", v)
    /\ Spoil(Busy)
    /\ UNCHANGED <<tight, agents, flaws, pc, left, denied, failed, appVars, req, shown>>

\* Tool calls of the analyst use up what category 3 would need, or give it back.
Spend ==
    /\ plan.spends > 0
    /\ plan' = [plan EXCEPT !.spends = @ - 1]
    /\ tight' = ~tight
    /\ Spoil(Busy)
    /\ UNCHANGED <<status, setBy, agents, flaws, pc, left, denied, failed,
                   appVars, req, shown>>

\* Somebody changes rows of the chain of a to what S says of it.
Edit(a, S) ==
    /\ plan.edits > 0
    /\ a \in agents \union Strays
    /\ plan' = [plan EXCEPT !.edits = @ - 1]
    /\ flaws' = [flaws EXCEPT ![a] = S]
    /\ Spoil({a} \cap Busy)
    /\ Notice
    /\ UNCHANGED <<status, setBy, tight, agents, pc, left, denied, failed, appVars, shown>>

\* A row is changed, inserted or deleted; where in the chain matters only to
\* category 7.
Break(a) ==
    \E row \in IF a \in Runs THEN Rows ELSE {"there"} : Edit(a, flaws[a] \union {row})

\* A row is edited back or put back where it was.
PutRight(a) == \E row \in flaws[a] : Edit(a, flaws[a] \ {row})

RunStep(r)  == Step(r) /\ Notice /\ UNCHANGED <<appVars, shown>>
RunFails(r) == Fail(r) /\ Notice /\ UNCHANGED <<appVars, shown>>
RunStrays(r) == Stray(r) /\ UNCHANGED <<appVars, req, shown>>

Handle(s) == AnswerAgents(s) \/ SelectStatus(s) \/ SelectAudit(s) \/ VerifyOne(s)

Next ==
    \/ Start \/ Stop \/ Close \/ End \/ Kill
    \/ \E r \in Runs : Load(r) \/ AnswerScorecard(r) \/ Collect(r)
                        \/ RunStep(r) \/ RunFails(r) \/ RunStrays(r)
    \/ \E s \in Slots : Poll(s) \/ Handle(s) \/ Refuse(s) \/ Show(s)
    \/ \E v \in {"active", "revoked"} : Post(v)
    \/ Spend
    \/ \E a \in Chains : Break(a) \/ PutRight(a)

Spec == Init /\ [][Next]_vars

\* The event loop, the scripts, the browser's timer and the network go on;
\* operators, clients and faults need not, nor need anybody start the process.
FairSpec ==
    /\ Spec
    /\ WF_vars(Close) /\ WF_vars(End)
    /\ \A r \in Runs : WF_vars(AnswerScorecard(r)) /\ WF_vars(Collect(r)) /\ WF_vars(RunStep(r))
    /\ \A s \in Slots : WF_vars(Poll(s)) /\ WF_vars(Handle(s)) /\ WF_vars(Show(s))

-----------------------------------------------------------------------------
Status  == {"active", "revoked"}
Places  == DOMAIN Follows \union Resting
Verdicts == SUBSET {3, 4, 7}

TypeOK ==
    /\ status \in Status
    /\ setBy \in Runs \union {"seed", "operator"}
    /\ tight \in BOOLEAN
    /\ agents \in SUBSET ({"analyst"} \union Runs)
    /\ flaws \in [Chains -> SUBSET Rows]
    /\ pc \in [Runs -> Places]
    /\ left \in [Runs -> Nat]
    /\ denied \in [Runs -> Nat]
    /\ failed \in [Runs -> Verdicts]
    /\ calm \in [Runs -> BOOLEAN]
    /\ plan \in Plan
    /\ app \in {"down", "up", "draining", "closing"}
    /\ cache \in Verdicts \union {NoCard}
    /\ ask \in [Runs -> {"none", "sent", "running", "shown", "lost"}]
    /\ card \in [Runs -> Verdicts \union {NoCard}]
    /\ req \in [Slots -> [at    : Waiting \union {"idle", "answered"},
                          todo  : SUBSET Chains,
                          found : SUBSET (Chains \union Status \union {"error"}),
                          still : SUBSET Chains]]
    /\ shown \in [Kinds -> SUBSET (Chains \union Status \union {"error"})]

\* /api/status and /api/audit verify one chain after the other while rows
\* change for the worse and the better.  A chain that is broken from their first
\* SELECT until they answer does not escape them: /api/audit names each one of
\* the agents it lists rows of, /api/status does not answer OK beside one of a
\* registered agent, although it stops at the first it comes upon.
VerdictIsTrue ==
    \A s \in Slots :
      LET found == req[s].found
          still == req[s].still
      IN  req[s].at = "answered" /\ found # {"error"} =>
            /\ plan.kind[s] = "audit"  => still \subseteq found
            /\ plan.kind[s] = "status" => (still # {} => found # {})

\* When things have come to rest and the process is up, the page comes to show
\* the analyst's status and whether the chain of a registered agent is broken,
\* and keeps showing it: no answer of before stays.
PageConverges ==
    <>[](app = "up") =>
      <>[](\A s \in Slots :
             /\ plan.kind[s] = "agents" => shown["agents"] = {status}
             /\ plan.kind[s] = "status" =>
                  (shown["status"] # {}) = (Broken \cap agents # {}))

\* A graceful stop ends: the requests it waits for, the scorecard with its
\* script among them, are answered.
StopEnds == app = "draining" ~> app = "down"

\* What the docstring of revoke says, "immediately blocking all future
\* reserve() calls for this agent": an operator's revocation holds until an
\* operator's activation.
RevocationHolds ==
    [][status = "revoked" /\ setBy = "operator" /\ status' = "active"
         => setBy' = "operator"]_vars
=============================================================================
