----------------------------- MODULE MCDashboard -----------------------------
(* Each plan lets a few of the things that may happen meet.                 *)
EXTENDS Dashboard, TLC

CONSTANTS r1, r2, s1, s2, ghost

Quiet == [kind |-> (s1 :> "off") @@ (s2 :> "off"), loads |-> 0, posts |-> 0,
          spends |-> 0, edits |-> 0, faults |-> 0, stops |-> 0, kills |-> 0]

\* Two pages are opened, and an operator intervenes.
TwoPages == [Quiet EXCEPT !.loads = 2, !.posts = 1, !.faults = 1]
\* A run among operators, clients and faults.
OneRun == [Quiet EXCEPT !.loads = 1, !.posts = 1, !.spends = 1, !.faults = 2, !.stops = 1]
\* The page is opened again after the process was killed.
Reopened == [Quiet EXCEPT !.loads = 2, !.kills = 1]
\* Answers that overtake each other.
Toggling == [Quiet EXCEPT !.kind = [s \in {s1, s2} |-> "agents"], !.posts = 2,
                          !.faults = 1, !.stops = 1, !.kills = 1]
\* Chains that break and are put right, one of them by the script's own doing.
Watching == [Quiet EXCEPT !.kind = (s1 :> "status") @@ (s2 :> "agents"),
                          !.loads = 1, !.edits = 2]
Auditing == [Quiet EXCEPT !.kind = (s1 :> "status") @@ (s2 :> "audit"),
                          !.edits = 2, !.faults = 1]
Alarming == [Quiet EXCEPT !.kind = [s \in {s1, s2} |-> "status"],
                          !.edits = 2, !.faults = 1, !.kills = 1]

AllPlans == {TwoPages, OneRun, Reopened, Toggling, Watching, Auditing, Alarming}
Intervention == {[Quiet EXCEPT !.loads = 1, !.posts = 1]}
=============================================================================
