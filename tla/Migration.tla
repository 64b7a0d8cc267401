------------------------------ MODULE Migration ------------------------------
(***************************************************************************)
(* Moving the listings of one campaign into another at the same price.  The    *)
(* request reads the prices in the mirror and the lists of both campaigns,      *)
(* asks twice whether each listing may enter, and then starts a task that        *)
(* enrols them side by side, each with three attempts.  Its progress lies in     *)
(* Redis; the mirror of the promotions is marked as the task goes.               *)
(* Mercado Livre and the other operators go on meanwhile.                        *)
(***************************************************************************)
EXTENDS Integers, FiniteSets

CONSTANTS
    Items,          \* the listings of the source campaign
    Attempts,       \* posts per listing
    MaxMoves,       \* bound: what operators and others do
    MaxLosses       \* bound: the faults

VARIABLES
    fit,            \* what ML says of the listing in the target campaign
    joined,         \* the listings in the target campaign at ML
    mirror,         \* those our mirror marks as started in it
    op,             \* the request
    tasks,          \* the enrolment of each listing
    progress,       \* the hash in Redis
    missed,         \* those whose mark could not be written
    left,           \* those that left the campaign and did not come back
    moves, losses
mvars == <<fit, joined, mirror, op, tasks, progress, missed, left, moves, losses>>

Fits == {"no", "no_range", "out_of_range", "ok"}
NoTask == [at |-> "none", tries |-> 0]
NoProgress == [status |-> "none", total |-> 0, done |-> 0, failed |-> 0]
Quiet == [at |-> "quiet", already |-> {}, asked |-> {}, seemed |-> {}, todo |-> {}]

Init ==
    /\ fit \in [Items -> {"no", "ok"}]
    /\ joined \in SUBSET Items /\ mirror \in {{}, joined}
    /\ op = Quiet
    /\ tasks = [i \in Items |-> NoTask]
    /\ progress = NoProgress
    /\ missed = {} /\ left = {}
    /\ moves = MaxMoves /\ losses = MaxLosses

Others == moves > 0 /\ moves' = moves - 1
Lose == losses > 0 /\ losses' = losses - 1

---------------------------------------------------------------------------
(* Mercado Livre, and the operators in its panel                             *)

Flicker(i, f) ==
    /\ Others /\ fit[i] # f
    /\ fit' = [fit EXCEPT ![i] = f]
    /\ UNCHANGED <<joined, mirror, op, tasks, progress, missed, left, losses>>

Leave(i) ==
    /\ Others /\ i \in joined
    /\ joined' = joined \ {i}
    /\ left' = left \cup {i}
    /\ UNCHANGED <<fit, mirror, op, tasks, progress, missed, losses>>

\* The mirror's own sweep: a mark of a listing that is not there is taken back.
Sweep ==
    /\ op.at = "quiet" /\ progress.status # "running" /\ mirror # joined
    /\ Others
    /\ mirror' = joined
    /\ missed' = {}
    /\ UNCHANGED <<fit, joined, op, tasks, progress, left, losses>>

---------------------------------------------------------------------------
(* The request                                                             *)

\* The lists of both campaigns: who is in the target already, who is missing.
ReadLists ==
    /\ op.at = "quiet" /\ progress.status = "none"
    /\ Others
    /\ op' = [Quiet EXCEPT !.at = "ask", !.already = joined, !.asked = Items \ joined]
    /\ UNCHANGED <<fit, joined, mirror, tasks, progress, missed, left, losses>>

Candidate(i) == fit[i] = "ok" /\ i \notin joined

\* Each missing listing is read by itself; one that seems to fit is read again a
\* little later, since what ML answers of a listing flickers.
Classify(i) ==
    /\ op.at = "ask" /\ i \in op.asked
    /\ op' = [op EXCEPT !.asked = @ \ {i},
                        !.seemed = IF Candidate(i) THEN @ \cup {i} ELSE @]
    /\ UNCHANGED <<fit, joined, mirror, tasks, progress, missed, left, moves, losses>>

ClassifyAgain(i) ==
    /\ op.at = "ask" /\ i \in op.seemed
    /\ op' = [op EXCEPT !.seemed = @ \ {i},
                        !.todo = IF Candidate(i) THEN @ \cup {i} ELSE @]
    /\ UNCHANGED <<fit, joined, mirror, tasks, progress, missed, left, moves, losses>>

Classified == op.at = "ask" /\ op.asked \cup op.seemed = {}

\* A dry run answers with the numbers.
DryRun ==
    /\ Classified
    /\ op' = Quiet
    /\ UNCHANGED <<fit, joined, mirror, tasks, progress, missed, left, moves, losses>>

\* Mutant of Reconcile: those that are about to be enrolled are marked, too.
ReconcileAll ==
    /\ Classified
    /\ op' = [op EXCEPT !.at = "start"]
    /\ mirror' = mirror \cup op.already \cup op.todo
    /\ UNCHANGED <<fit, joined, tasks, progress, missed, left, moves, losses>>

\* The marks of those that are in the target already are made good.
Reconcile ==
    /\ Classified
    /\ op' = [op EXCEPT !.at = "start"]
    /\ mirror' = mirror \cup op.already
    /\ UNCHANGED <<fit, joined, tasks, progress, missed, left, moves, losses>>

\* The progress is written before the task starts.
StartTask ==
    /\ op.at = "start"
    /\ progress' = [status |-> "running", done |-> Cardinality(op.already), failed |-> 0,
                    total |-> Cardinality(op.already) + Cardinality(op.todo)]
    /\ tasks' = [i \in Items |-> IF i \in op.todo THEN [at |-> "post", tries |-> 0] ELSE NoTask]
    /\ op' = Quiet
    /\ UNCHANGED <<fit, joined, mirror, missed, left, moves, losses>>

---------------------------------------------------------------------------
(* The task                                                                *)

Go(i, at) == tasks' = [tasks EXCEPT ![i].at = at]

\* ML takes the listing if it fits.
Accepted(i) ==
    /\ tasks[i].at = "post" /\ fit[i] = "ok"
    /\ joined' = joined \cup {i} /\ left' = left \ {i}
    /\ Go(i, "mark")
    /\ UNCHANGED <<fit, mirror, op, progress, missed, moves, losses>>

\* Mutant of Refused: a refusal is no attempt.
RefusedAgain(i) ==
    /\ tasks[i].at = "post" /\ (fit[i] # "ok" \/ losses > 0)
    /\ UNCHANGED mvars

\* It refuses it, or its answer is lost although it took it; the third time is the last.
Refused(i) ==
    /\ tasks[i].at = "post"
    /\ \/ fit[i] # "ok" /\ UNCHANGED <<joined, left, losses>>
       \/ Lose /\ UNCHANGED <<joined, left>>
       \/ Lose /\ fit[i] = "ok" /\ joined' = joined \cup {i} /\ left' = left \ {i}
    /\ tasks' = [tasks EXCEPT ![i] =
                   [at |-> IF @.tries + 1 = Attempts THEN "failed" ELSE "post", tries |-> @.tries + 1]]
    /\ UNCHANGED <<fit, mirror, op, progress, missed, moves>>

\* The mark; a database that fails does not make the enrolment void.
Mark(i) ==
    /\ tasks[i].at = "mark"
    /\ \/ mirror' = mirror \cup {i} /\ UNCHANGED <<missed, losses>>
       \/ Lose /\ missed' = missed \cup {i} /\ UNCHANGED mirror
    /\ Go(i, "marked")
    /\ UNCHANGED <<fit, joined, op, progress, left, moves>>

\* Mutant of Count: every attempt that failed is counted.
CountTries(i) ==
    /\ tasks[i].at \in {"marked", "failed"}
    /\ progress' = IF tasks[i].at = "marked"
                   THEN [progress EXCEPT !.done = @ + 1, !.failed = @ + tasks[i].tries]
                   ELSE [progress EXCEPT !.failed = @ + tasks[i].tries]
    /\ Go(i, "counted")
    /\ UNCHANGED <<fit, joined, mirror, op, missed, left, moves, losses>>

Count(i) ==
    /\ tasks[i].at \in {"marked", "failed"}
    /\ progress' = IF tasks[i].at = "marked" THEN [progress EXCEPT !.done = @ + 1]
                   ELSE [progress EXCEPT !.failed = @ + 1]
    /\ Go(i, "counted")
    /\ UNCHANGED <<fit, joined, mirror, op, missed, left, moves, losses>>

\* Redis fails: the task ends at once and says "done", the other enrolments go on.
CountLost(i) ==
    /\ tasks[i].at \in {"marked", "failed"} /\ Lose
    /\ Go(i, "lost")
    /\ progress' = [progress EXCEPT !.status = "done"]
    /\ UNCHANGED <<fit, joined, mirror, op, missed, left, moves>>

Settled(i) == tasks[i].at \in {"none", "counted", "lost", "dead"}
Finish ==
    /\ progress.status = "running" /\ \A i \in Items : tasks[i].at \in {"none", "counted"}
    /\ progress' = [progress EXCEPT !.status = "done"]
    /\ UNCHANGED <<fit, joined, mirror, op, tasks, missed, left, moves, losses>>

\* The process ends, and with it the request and the task; the hash stays.
Restart ==
    /\ Lose /\ (op # Quiet \/ \E i \in Items : ~Settled(i))
    /\ op' = Quiet
    /\ tasks' = [i \in Items |-> IF Settled(i) THEN tasks[i] ELSE [tasks[i] EXCEPT !.at = "dead"]]
    /\ UNCHANGED <<fit, joined, mirror, progress, missed, left, moves>>

\* The hash expires after two hours; the next request has one of its own.
Expire ==
    /\ progress.status # "none" /\ op.at = "quiet" /\ \A i \in Items : Settled(i)
    /\ progress.status = "running" => \E i \in Items : tasks[i].at = "dead"
    /\ progress' = NoProgress
    /\ tasks' = [i \in Items |-> NoTask]
    /\ missed' = {}
    /\ UNCHANGED <<fit, joined, mirror, op, left, moves, losses>>

TaskStep == (\E i \in Items : Accepted(i) \/ Refused(i) \/ Mark(i) \/ Count(i)) \/ Finish
Request == \/ ReadLists \/ DryRun \/ Reconcile \/ StartTask
           \/ \E i \in Items : Classify(i) \/ ClassifyAgain(i)
Next ==
    \/ \E i \in Items : Leave(i) \/ CountLost(i) \/ \E f \in Fits : Flicker(i, f)
    \/ Sweep \/ Request \/ TaskStep \/ Restart \/ Expire

Spec == Init /\ [][Next]_mvars
\* The event loop goes on with the task, and Redis forgets a hash.
Fairness == WF_mvars(TaskStep) /\ WF_mvars(Expire)
FairSpec == Spec /\ Fairness

---------------------------------------------------------------------------
TypeOK ==
    /\ fit \in [Items -> Fits] /\ joined \subseteq Items /\ mirror \subseteq Items
    /\ op.at \in {"quiet", "ask", "start"}
    /\ op.asked \cup op.seemed \cup op.todo \subseteq Items \ op.already
    /\ \A i \in Items : /\ tasks[i].at \in {"none", "post", "mark", "marked", "failed",
                                           "counted", "lost", "dead"}
                        /\ tasks[i].tries \in 0..Attempts
    /\ progress.status \in {"none", "running", "done"}
    /\ missed \subseteq Items /\ left \subseteq Items

\* What the operator reads when the migration is over: every listing was counted,
\* once, whatever attempts it took, unless Redis failed.
DoneAddsUp ==
    progress.status = "done" /\ (\A i \in Items : tasks[i].at \notin {"lost", "dead"})
        => progress.done + progress.failed = progress.total

\* "Marks the mirror's row as started": what the migration counted as done is
\* marked, unless the database failed or it left again; and who is marked but not in the campaign
\* at ML was in it, and left: a listing that was refused is not shown as enrolled.
Marks ==
    progress.status # "none" =>
        /\ \A i \in Items : tasks[i].at = "counted" /\ tasks[i].tries < Attempts
                            => i \in mirror \cup missed \cup left
        /\ mirror \ joined \subseteq left

\* A migration that was started ends, and says so, or its hash is forgotten.
Ended == progress.status # "running"
MigrationEnds == <>[]Ended
=============================================================================
