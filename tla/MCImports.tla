----------------------------- MODULE MCImports -----------------------------
(***************************************************************************)
(* Five parts of the system that share no state, checked in one run: a        *)
(* behaviour is a behaviour of one of them, chosen at the start, and the       *)
(* others rest.                                                             *)
(***************************************************************************)
EXTENDS Integers, FiniteSets

CONSTANTS
    Items, N, Recent, MaxVersion, MaxEvents, MaxFaults,     \* Mirrors, Migration
    Claims, PageSize, MaxPages, MaxClock, MaxTrouble,       \* Newest
    Windows, Issued, Lookback, MaxFailures,                 \* InvoiceSync
    Listings, Operators, MaxRows,                           \* FullTracking
    Attempts, MaxMoves, MaxLosses                           \* Migration

ASSUME ImportsAssumption ==
    /\ IsFiniteSet(Items) /\ Attempts \in Nat /\ N \in Nat /\ MaxVersion \in Nat
    /\ IsFiniteSet(Windows) /\ Windows \subseteq Nat /\ MaxFailures \in Nat
    /\ IsFiniteSet(Claims) /\ PageSize \in Nat \ {0} /\ MaxPages \in Nat
    /\ MaxRows \in Nat

VARIABLES
    scene,
    service, remote, place, table, detail, run, lock, due, budget,
    kind, clock, stamp, list, known, named, runs, skewed, trouble,
    age, headers, lines, logs, stored, queue, work, asked, up, repeats, failures,
    rows, hidden, request, was, taken,
    fit, joined, mirror, op, tasks, progress, missed, left, moves, losses

Mi == INSTANCE Mirrors
Ne == INSTANCE Newest
Iv == INSTANCE InvoiceSync
Ft == INSTANCE FullTracking
Mg == INSTANCE Migration

Scenes == {"mirrors", "newest", "invoices", "tracking", "migration"}
mirrorVars == <<service, remote, place, table, detail, run, lock, due, budget>>
newestVars == <<kind, clock, stamp, list, known, named, runs, skewed, trouble>>
invoiceVars == <<age, headers, lines, logs, stored, queue, work, asked, up, repeats, failures>>
trackingVars == <<rows, hidden, request, was, taken>>
migrationVars == <<fit, joined, mirror, op, tasks, progress, missed, left, moves, losses>>
vars == <<scene, mirrorVars, newestVars, invoiceVars, trackingVars, migrationVars>>

\* The others rest in one of their initial states.
Resting(s) ==
    /\ s # "mirrors" => /\ service = Mi!StockHistory /\ remote = Mi!NoRows
                        /\ place = [i \in Items |-> 1] /\ table = Mi!NoRows
    /\ s # "newest" => kind = "claims"
    /\ s # "migration" => /\ fit = [i \in Items |-> "no"] /\ joined = {} /\ mirror = {}

Init ==
    /\ scene \in Scenes
    /\ Mi!Init /\ Ne!Init /\ Iv!Init /\ Ft!Init /\ Mg!Init
    /\ Resting(scene)

Next ==
    \/ scene = "mirrors" /\ Mi!Next
       /\ UNCHANGED <<scene, newestVars, invoiceVars, trackingVars, migrationVars>>
    \/ scene = "newest" /\ Ne!Next
       /\ UNCHANGED <<scene, mirrorVars, invoiceVars, trackingVars, migrationVars>>
    \/ scene = "invoices" /\ Iv!Next
       /\ UNCHANGED <<scene, mirrorVars, newestVars, trackingVars, migrationVars>>
    \/ scene = "tracking" /\ Ft!Next
       /\ UNCHANGED <<scene, mirrorVars, newestVars, invoiceVars, migrationVars>>
    \/ scene = "migration" /\ Mg!Next
       /\ UNCHANGED <<scene, mirrorVars, newestVars, invoiceVars, trackingVars>>

\* The fairness of each part, where it is the one at work.
FairSpec ==
    /\ Init /\ [][Next]_vars
    /\ SF_mirrorVars(scene = "mirrors" /\ Mi!StartJob(1))
    /\ WF_mirrorVars(scene = "mirrors" /\ Mi!HourPasses)
    /\ \A r \in Mi!Runs : WF_mirrorVars(scene = "mirrors" /\ Mi!Step(r))
    /\ WF_newestVars(scene = "newest" /\ ~skewed /\ Ne!Start("job"))
    /\ \A r \in Ne!Readers :
         WF_newestVars(scene = "newest" /\ ~skewed /\ (Ne!ReadPage(r) \/ Ne!Store(r)))
    /\ WF_invoiceVars(scene = "invoices" /\ Iv!AskForRecent)
    /\ WF_invoiceVars(scene = "invoices" /\ Iv!DayEnds)
    /\ WF_invoiceVars(scene = "invoices" /\ Iv!Boot)
    /\ WF_invoiceVars(scene = "invoices" /\ Iv!Consume)
    /\ WF_migrationVars(scene = "migration" /\ Mg!TaskStep)
    /\ WF_migrationVars(scene = "migration" /\ Mg!Expire)

---------------------------------------------------------------------------
\* The types of the five parts.
TypeOK ==
    CASE scene = "mirrors" -> Mi!TypeOK
      [] scene = "newest" -> Ne!TypeOK
      [] scene = "invoices" -> Iv!TypeOK
      [] scene = "tracking" -> Ft!TypeOK
      [] scene = "migration" -> Mg!TypeOK

\* Mirrors: a row is dropped only for a thing that was gone or that the run could
\* not read, a run that ends early stores nothing, and a stored detail is never lost.
RowsKept == [][Mi!OnlyGoneDropped /\ Mi!FailedRunKeepsTable /\ Mi!DetailKept]_vars

\* Claims and infractions: below a stored claim all are stored.
NoGap == scene = "newest" => Ne!NoGap

\* What the program reports is so: a completed cold start stored every window but for
\* those counted twice, a listing has one active tracking, what is listed as new was
\* new, and a migration's counts and marks are what it did.
ReportedIsSo ==
    CASE scene = "invoices" -> Iv!CompletedIsStored
      [] scene = "tracking" -> Ft!OneActive /\ Ft!ShownWasNew
      [] scene = "migration" -> Mg!DoneAddsUp /\ Mg!Marks
      [] OTHER -> TRUE

\* What must happen in the end, whatever failed on the way: every mirror shows what
\* there is, every claim is stored, every invoice issued later has its lines, and
\* no migration is shown as running for ever.
AllSettles ==
    <>[]CASE scene = "mirrors" -> Mi!Settled
          [] scene = "newest" -> Ne!Arrived
          [] scene = "invoices" -> Iv!WithLines
          [] scene = "migration" -> Mg!Ended
          [] scene = "tracking" -> TRUE
=============================================================================
