----------------------------- MODULE MCDecisions -----------------------------
(***************************************************************************)
(* Instances for TLC of Decisions, and of DirectWrites, the endpoints that  *)
(* go past the queue: a behaviour is one of them, chosen at the start.      *)
(***************************************************************************)
EXTENDS Decisions

CONSTANTS Requests, DirectBudgets

VARIABLES
    scene,      \* "queue" | "direct"
    offers, active, inscribed, mirror, req, sweep, budget

Direct == INSTANCE DirectWrites
            WITH ml <- offers, rows <- inscribed, left <- budget, Budgets <- DirectBudgets

directVars == <<offers, active, inscribed, mirror, req, sweep, budget>>
allVars == <<scene, vars, directVars>>

Budget(asks, changes, faults, crashes) ==
    [asks |-> asks, changes |-> changes, faults |-> faults, crashes |-> crashes]

\* Two requests; a request and a change; two changes; a failed reading; and one
\* of each failure.
Plenty == {Budget(2, 0, 0, 0), Budget(1, 1, 0, 0), Budget(0, 2, 0, 0), Budget(0, 1, 1, 0),
           Budget(1, 0, 1, 1), Budget(0, 0, 0, 0)}

\* Two requests; a request with a change, two failures, a death, or one of each.
DirectPlenty == {Budget(2, 0, 0, 0), Budget(1, 0, 2, 0), Budget(1, 0, 0, 1),
                 Budget(1, 1, 1, 0), Budget(0, 0, 0, 0)}

\* For the run that disagrees with a docstring.
OneAsk == {Budget(1, 0, 0, 0)}
NoAsk == {Budget(0, 0, 0, 0)}

Rests(b) == b = Budget(0, 0, 0, 0)

\* The scene that is not chosen rests in one state.
MCInit ==
    /\ Init /\ Direct!Init
    /\ \/ scene = "queue" /\ Rests(budget) /\ active /\ offers["deal"] = "candidate"
       \/ scene = "direct" /\ Rests(left) /\ cap = 0 /\ ~flag

MCNext ==
    \/ scene = "queue" /\ Next /\ UNCHANGED <<scene, directVars>>
    \/ scene = "direct" /\ Direct!Next /\ UNCHANGED <<scene, vars>>

\* The fairness of both, and one without for the run that disagrees.
QueueSpec == MCInit /\ scene = "queue" /\ [][MCNext]_allVars

MCSpec ==
    /\ MCInit /\ [][MCNext]_allVars
    /\ \A c \in Callers : WF_vars(scene = "queue" /\ Serve(c))
    /\ \A s \in Sweeps : WF_vars(scene = "queue" /\ Sweep(s))
    /\ WF_vars(scene = "queue" /\ StartDaily)
    /\ \A r \in Requests : WF_directVars(scene = "direct" /\ Direct!Serve(r))
    /\ WF_directVars(scene = "direct" /\ Direct!Sweep)

---------------------------------------------------------------------------
\* What the program says is so: a notification it calls processed was mirrored, an
\* operator who used a direct endpoint is told what happened, and what was enrolled
\* there stays shown.
SaidIsSo == ProcessedIsMirrored /\ Direct!ToldTrue /\ Direct!EnrolledShown

\* The rows shown as started, and the copies, come to be what is started.
MirrorsSettle ==
    <>[](/\ scene = "queue" => ShownAsStarted
         /\ scene = "direct" => Direct!Settled)
=============================================================================
