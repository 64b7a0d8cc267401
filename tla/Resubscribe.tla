----------------------------- MODULE Resubscribe -----------------------------
(***************************************************************************)
(* Changing the price of listings in a seller's campaign (DEAL or           *)
(* SELLER_CAMPAIGN).  Mercado Livre lowers such a price in place; to raise   *)
(* it the program leaves the campaign (DELETE) and enters it again (POST),   *)
(* and Mercado Livre may take its time to offer the campaign again.  Then a   *)
(* job in ml_promo_resubscribe_jobs makes a poller enter later.  Operators   *)
(* also enter, leave and cancel such jobs; two readers copy what Mercado      *)
(* Livre lists into ml_promotions and into the started rows of               *)
(* ml_promo_decisions.                                                       *)
(*                                                                          *)
(* A step is one request to Mercado Livre or one transaction.  A listing has *)
(* one campaign.  The clock moves in intervals of the poller; a job counts    *)
(* them down to its next attempt and to its deadline.                        *)
(***************************************************************************)
EXTENDS Integers, Sequences, FiniteSets

CONSTANTS
    Listings,
    Prices,         \* prices that operators ask for
    Requests,       \* bound: requests of operators, each served once
    DeadlineAfter,  \* ml_promo_resubscribe_deadline_hours, in intervals
    Cleans,         \* reads in a row that confirm an exit
    Tries,          \* reads after which the exit gives up
    MaxFaults       \* bound: deaths of the process, requests without an answer,
                    \* reads that fail and transactions that fail

None == 0

ASSUME ParametersAssumption ==
    /\ None \notin Listings /\ Prices \subseteq Nat \ {0} /\ DeadlineAfter \in Nat \ {0}
    /\ Cleans \in Nat \ {0} /\ Tries \in Nat \ {0} /\ MaxFaults \in Nat

VARIABLES
    offer,     \* listing -> the campaign as Mercado Livre has it
    accepted,  \* listing -> writes that Mercado Livre took and has yet to apply
    mirror,    \* listing -> its row of ml_promotions
    listed,    \* listing -> whether its started row of ml_promo_decisions is active
    jobs,      \* ml_promo_resubscribe_jobs, in the order of their ids
    req,       \* the requests of operators
    poll,      \* the poller
    reader,    \* the sweep that copies what Mercado Livre lists
    told,      \* listing -> its operator was told that it is out or may be
    lapsed,    \* listing -> what went wrong unseen
    faults

meli == <<offer, accepted>>
db == <<mirror, listed, jobs>>
vars == <<meli, db, req, poll, reader, told, lapsed, faults>>

\* Mutant of MaxAttempts: none to spare.
IntervalsOnly == DeadlineAfter

MaxAttempts == DeadlineAfter + 5

Offers == [status : {"absent", "candidate", "started"}, price : Prices \cup {None}]
Absent == [status |-> "absent", price |-> None]
Candidate == [status |-> "candidate", price |-> None]
Started(p) == [status |-> "started", price |-> p]

Writes == [op : {"enter", "edit"}, price : Prices] \cup [op : {"exit"}, price : {None}]
Enter(p) == [op |-> "enter", price |-> p]
Edit(p) == [op |-> "edit", price |-> p]
Exit == [op |-> "exit", price |-> None]

\* enrolled stands for enrolled_at; a row that is not there is absent.
Rows == [status : {"absent", "candidate", "started"}, price : Prices \cup {None},
         enrolled : BOOLEAN]
Row(o, enrolled) == [status |-> o.status, price |-> o.price, enrolled |-> enrolled]
NoRow == Row(Absent, FALSE)

Jobs == [listing : Listings, price : Prices, attempts : Nat,
         status : {"pending", "done", "failed", "cancelled"},
         wait : {0, 1}, left : 0..DeadlineAfter]

Unpriced == {"delete", "confirm", "exit", "cancel"}
Priced == {"leave", "settle", "enter", "find", "enqueue", "edit", "again", "store",
           "enroll", "record", "mark"}
Reqs == [step : {"idle", "done"} \cup Unpriced \cup Priced, listing : Listings \cup {None},
         price : Prices \cup {None}, job : Nat, clean : Nat, tries : Nat]
Waiting == [step |-> "idle", listing |-> None, price |-> None, job |-> None,
            clean |-> 0, tries |-> 0]
At(q, step) == [q EXCEPT !.step = step]
ReqOK ==
    /\ req \in [Requests -> Reqs]
    /\ \A r \in Requests :
         /\ req[r].step \in Unpriced \cup Priced => req[r].listing \in Listings
         /\ req[r].step \in Priced => req[r].price \in Prices
         /\ req[r].step = "cancel" => req[r].job # None
         /\ req[r].job <= Len(jobs)

PollSteps == {"fetch", "post", "wait", "error", "close", "restore"}
Polls == [step : {"idle", "next"} \cup PollSteps, rows : Seq(Jobs), due : SUBSET Nat,
          job : Nat, late : BOOLEAN]
Idle == [step |-> "idle", rows |-> <<>>, due |-> {}, job |-> None, late |-> FALSE]
PollOK ==
    /\ poll \in Polls /\ Len(poll.rows) <= Len(jobs)
    /\ poll.due \subseteq 1..Len(poll.rows)
    /\ poll.job \notin poll.due
    /\ IF poll.step \in PollSteps THEN poll.job \in 1..Len(poll.rows) ELSE poll.job = None

Readers == [step : {"idle", "sync", "mirror", "reconcile", "started"},
            todo : SUBSET Listings, listing : Listings \cup {None}, seen : Offers]
Resting == [step |-> "idle", todo |-> {}, listing |-> None, seen |-> Absent]
ReaderOK ==
    /\ reader \in Readers
    /\ reader.step \in {"mirror", "reconcile", "started"} => reader.listing \in Listings

TypeOK ==
    /\ offer \in [Listings -> Offers]
    /\ accepted \in [Listings -> SUBSET Writes]
    /\ mirror \in [Listings -> Rows]
    /\ listed \in [Listings -> BOOLEAN]
    /\ jobs \in Seq(Jobs)
    /\ ReqOK /\ PollOK /\ ReaderOK
    /\ told \in [Listings -> BOOLEAN]
    /\ lapsed \in [Listings -> SUBSET {"transport", "crash", "race"}]
    /\ faults \in 0..MaxFaults

\* Listings are in the campaign, or are offered it and out for a reason.
Init ==
    /\ offer \in [Listings -> {Candidate} \cup {Started(p) : p \in Prices}]
    /\ accepted = [l \in Listings |-> {}]
    /\ mirror \in [Listings -> Rows]
    /\ \A l \in Listings :
         mirror[l] \in {Row(offer[l], FALSE), Row(offer[l], offer[l].status = "started")}
    /\ listed = [l \in Listings |-> offer[l].status = "started"]
    /\ jobs = <<>> /\ req = [r \in Requests |-> Waiting] /\ poll = Idle
    /\ reader = Resting
    /\ told = [l \in Listings |-> offer[l].status # "started"]
    /\ lapsed = [l \in Listings |-> {}]
    /\ faults = 0

Fault == faults < MaxFaults /\ faults' = faults + 1

Pending(l) == {j \in 1..Len(jobs) : jobs[j].listing = l /\ jobs[j].status = "pending"}

---------------------------------------------------------------------------
(* Mercado Livre                                                            *)

\* It answers a write it can take and applies it a little later, several in any
\* order.  It may refuse any write.
Takes(l, w) ==
    CASE w.op = "enter" -> offer[l].status = "candidate"
      [] w.op = "edit" -> offer[l].status = "started"
      [] w.op = "exit" -> offer[l].status = "started" \/ \E v \in accepted[l] : v.op = "enter"

Take(l, w) ==
    /\ Takes(l, w)
    /\ accepted' = [accepted EXCEPT ![l] = @ \cup {w}]
    /\ UNCHANGED <<offer, faults>>
Refuse == UNCHANGED <<meli, faults>>

\* No answer comes (status_code None): Mercado Livre got the request or did not.
Reached(l, w) ==
    /\ Takes(l, w) /\ Fault
    /\ accepted' = [accepted EXCEPT ![l] = @ \cup {w}]
    /\ UNCHANGED offer
Lost(l, w) == Fault /\ UNCHANGED meli

Apply(l) ==
    /\ \E w \in accepted[l] :
         /\ accepted' = [accepted EXCEPT ![l] = @ \ {w}]
         /\ offer' = [offer EXCEPT ![l] =
              CASE w.op = "enter" -> Started(w.price)
                [] w.op = "edit" -> IF @.status = "started" THEN Started(w.price) ELSE @
                [] w.op = "exit" -> Absent]
    /\ UNCHANGED <<db, req, poll, reader, told, lapsed, faults>>

\* It offers the campaign to a listing, or does no more.
Suggest(l) ==
    /\ offer[l].status # "started" /\ accepted[l] = {}
    /\ offer' = [offer EXCEPT ![l] = IF @ = Absent THEN Candidate ELSE Absent]
    /\ UNCHANGED <<accepted, db, req, poll, reader, told, lapsed, faults>>

\* fetch_eligible_promos: an error or a list that flaps shows no promotion.
Reads(l, o) ==
    \/ o = offer[l] /\ UNCHANGED faults
    \/ o = Absent /\ offer[l] # Absent /\ Fault

---------------------------------------------------------------------------
(* What operators ask                                                       *)

Goes(r, step) == req' = [req EXCEPT ![r] = At(@, step)]
Over(r) == req' = [req EXCEPT ![r] = At(Waiting, "done")]
Tell(l) == told' = [told EXCEPT ![l] = TRUE]
Unseen(l, what) == lapsed' = [lapsed EXCEPT ![l] = @ \cup {what}]
\* The request answers with an error.
Answer(r) == Over(r) /\ Tell(req[r].listing)

Wanted(step, l, p) == [Waiting EXCEPT !.step = step, !.listing = l, !.price = p]

\* The page offers what ml_promotions shows; is_raise compares with the price on it.
\* Who asks to be out knows of it.
Ask(r) ==
    /\ req[r].step = "idle"
    /\ \E l \in Listings :
         LET Asked(step, p, known) ==
               /\ req' = [req EXCEPT ![r] = Wanted(step, l, p)]
               /\ told' = [told EXCEPT ![l] = known]
         IN \/ \E p \in Prices :
                 /\ mirror[l].status = "started" /\ p # mirror[l].price
                 /\ IF p > mirror[l].price THEN Asked("leave", p, FALSE)
                                          ELSE Asked("edit", p, told[l])
            \/ mirror[l].status = "started" /\ Asked("delete", None, TRUE)
            \/ mirror[l].status = "candidate" /\ \E p \in Prices : Asked("enroll", p, told[l])
    /\ UNCHANGED <<meli, db, poll, reader, lapsed, faults>>

\* Raising: out of the campaign.  A 404 and no answer at all pass for done.
Leave(r) ==
    LET l == req[r].listing IN
    /\ req[r].step = "leave"
    /\ \/ /\ \/ Take(l, Exit) \/ Reached(l, Exit) \/ Lost(l, Exit)
             \/ ~Takes(l, Exit) /\ Refuse
          /\ Goes(r, "settle") /\ UNCHANGED told
       \/ Refuse /\ Answer(r)
    /\ UNCHANGED <<db, poll, reader, lapsed>>

\* _settle_eligible, until the campaign is offered again or for 45 seconds, in which
\* Mercado Livre applies what it took.
Settle(r) ==
    /\ req[r].step = "settle" /\ accepted[req[r].listing] = {}
    /\ Goes(r, "enter")
    /\ UNCHANGED <<meli, db, poll, reader, told, lapsed, faults>>

\* A POST without an answer passes for one that was taken; without a token it is
\* not sent.
Reenter(r) ==
    LET l == req[r].listing   w == Enter(req[r].price) IN
    /\ req[r].step = "enter"
    /\ \/ (Take(l, w) \/ Reached(l, w)) /\ Goes(r, "store") /\ UNCHANGED <<told, lapsed>>
       \/ Refuse /\ Goes(r, "find") /\ UNCHANGED <<told, lapsed>>
       \/ Lost(l, w) /\ Goes(r, "store") /\ Unseen(l, "transport") /\ UNCHANGED told
       \/ Lost(l, w) /\ Answer(r) /\ UNCHANGED lapsed
    /\ UNCHANGED <<db, poll, reader>>

With(q, j) == [q EXCEPT !.job = j]

\* enqueue: the SELECT, then the row written and all of it committed.
FindPending(r) ==
    LET l == req[r].listing IN
    /\ req[r].step = "find"
    /\ \/ \E j \in Pending(l) : req' = [req EXCEPT ![r] = With(At(@, "enqueue"), j)]
       \/ Pending(l) = {} /\ Goes(r, "enqueue")
    /\ UNCHANGED <<meli, db, poll, reader, told, lapsed, faults>>

\* The poller works on what it loaded of the row.
Held(j) == poll.step # "idle" /\ j \in poll.due \cup {poll.job}

Ended(job, status) == [job EXCEPT !.status = status]
NewJob(l, p) == [listing |-> l, price |-> p, attempts |-> 0, status |-> "pending",
                 wait |-> 0, left |-> DeadlineAfter]

\* A row found is set anew but for its status; of two new rows the index
\* uq_ml_promo_resub_pending lets one in.
Enqueue(r) ==
    LET l == req[r].listing   j == req[r].job   new == NewJob(l, req[r].price) IN
    /\ req[r].step = "enqueue"
    /\ \/ /\ j # None
          /\ jobs' = [jobs EXCEPT ![j] = Ended(new, @.status)]
          /\ IF jobs[j].status = "pending" /\ ~Held(j) THEN UNCHANGED lapsed
             ELSE Unseen(l, "race")
          /\ listed' = [listed EXCEPT ![l] = FALSE]
          /\ Over(r) /\ UNCHANGED <<told, faults>>
       \/ /\ j = None /\ Pending(l) = {}
          /\ jobs' = Append(jobs, new)
          /\ listed' = [listed EXCEPT ![l] = FALSE]
          /\ Over(r) /\ UNCHANGED <<told, lapsed, faults>>
       \/ /\ (j = None /\ Pending(l) # {} /\ UNCHANGED faults) \/ Fault
          /\ Answer(r) /\ UNCHANGED <<jobs, listed, lapsed>>
    /\ UNCHANGED <<meli, mirror, poll, reader>>

\* Lowering: PUT, once more if Mercado Livre does not know the offer as started.
EditPrice(r) ==
    LET l == req[r].listing   w == Edit(req[r].price) IN
    /\ req[r].step \in {"edit", "again"}
    /\ \/ (Take(l, w) \/ Reached(l, w) \/ Lost(l, w)) /\ Goes(r, "store") /\ UNCHANGED told
       \/ req[r].step = "edit" /\ ~Takes(l, w) /\ Refuse /\ Goes(r, "again") /\ UNCHANGED told
       \/ Refuse /\ Answer(r)
    /\ UNCHANGED <<db, poll, reader, lapsed>>

\* ml_promotions gets the new price; the row that record_completed adds for show is
\* left out.
Store(r) ==
    LET l == req[r].listing IN
    /\ req[r].step = "store"
    /\ \/ /\ mirror' = IF mirror[l] = NoRow THEN mirror
                       ELSE [mirror EXCEPT ![l] = Row(Started(req[r].price), TRUE)]
          /\ Over(r) /\ UNCHANGED <<told, faults>>
       \/ Fault /\ Answer(r) /\ UNCHANGED mirror
    /\ UNCHANGED <<meli, listed, jobs, poll, reader, lapsed>>

\* Entering from the list of what is on offer.
Enroll(r) ==
    LET l == req[r].listing   w == Enter(req[r].price) IN
    /\ req[r].step = "enroll"
    /\ \/ Take(l, w) /\ Goes(r, "record") /\ UNCHANGED told
       \/ (Refuse \/ Reached(l, w) \/ Lost(l, w)) /\ Answer(r)
    /\ UNCHANGED <<db, poll, reader, lapsed>>

Record(r) ==
    /\ req[r].step = "record"
    /\ \/ /\ listed' = [listed EXCEPT ![req[r].listing] = TRUE]
          /\ Goes(r, "mark") /\ UNCHANGED <<told, faults>>
       \/ Fault /\ Answer(r) /\ UNCHANGED listed
    /\ UNCHANGED <<meli, mirror, jobs, poll, reader, lapsed>>

\* It fails in silence.
Mark(r) ==
    /\ req[r].step = "mark" /\ Over(r)
    /\ \/ /\ mirror' = [mirror EXCEPT ![req[r].listing] = Row(Started(req[r].price), TRUE)]
          /\ UNCHANGED faults
       \/ Fault /\ UNCHANGED mirror
    /\ UNCHANGED <<meli, listed, jobs, poll, reader, told, lapsed>>

---------------------------------------------------------------------------
(* exit_promotion_endpoint                                                  *)

Delete(r) ==
    LET l == req[r].listing IN
    /\ req[r].step = "delete"
    /\ \/ Take(l, Exit) /\ Goes(r, "confirm") /\ UNCHANGED told
       \/ ~Takes(l, Exit) /\ Refuse /\ Goes(r, "confirm") /\ UNCHANGED told
       \/ (Refuse \/ Reached(l, Exit) \/ Lost(l, Exit)) /\ Answer(r)
    /\ UNCHANGED <<db, poll, reader, lapsed>>

Counted(q, clean, tries) == [q EXCEPT !.clean = clean, !.tries = tries]

\* A read; another DELETE if the listing is still in, and up to Cleans reads in a
\* row that show it out.  A read that raises does not count, but for the tries.
Confirm(r) ==
    LET l == req[r].listing
        n == req[r].tries + 1
        Read(clean) ==
            req' = [req EXCEPT ![r] =
                Counted(At(@, IF clean = Cleans THEN "exit" ELSE "confirm"), clean, n)]
    IN /\ req[r].step = "confirm" /\ req[r].tries < Tries
       /\ \/ /\ offer[l].status = "started" /\ (Take(l, Exit) \/ Refuse)
             /\ Read(0)
          \/ /\ \E o \in Offers : Reads(l, o) /\ o.status # "started"
             /\ Read(req[r].clean + 1) /\ UNCHANGED meli
          \/ Fault /\ Read(req[r].clean) /\ UNCHANGED meli
    /\ UNCHANGED <<db, poll, reader, told, lapsed>>

NotEffective(r) ==
    /\ req[r].step = "confirm" /\ req[r].tries = Tries
    /\ Answer(r)
    /\ UNCHANGED <<meli, db, poll, reader, lapsed, faults>>

\* The answer, good or bad, tells.
StoreExit(r) ==
    LET l == req[r].listing IN
    /\ req[r].step = "exit" /\ Answer(r)
    /\ \/ /\ mirror' = IF mirror[l] = NoRow THEN mirror
                       ELSE [mirror EXCEPT ![l] = Row(Candidate, FALSE)]
          /\ listed' = [listed EXCEPT ![l] = FALSE]
          /\ UNCHANGED faults
       \/ Fault /\ UNCHANGED <<mirror, listed>>
    /\ UNCHANGED <<meli, jobs, poll, reader, lapsed>>

---------------------------------------------------------------------------
(* cancel_resubscribe_job                                                   *)

Look(r) ==
    /\ req[r].step = "idle"
    /\ \E l \in Listings : \E j \in Pending(l) :
         req' = [req EXCEPT ![r] = With(Wanted("cancel", l, None), j)]
    /\ UNCHANGED <<meli, db, poll, reader, told, lapsed, faults>>

Cancel(r) ==
    /\ req[r].step = "cancel" /\ Answer(r)
    /\ \/ jobs' = [jobs EXCEPT ![req[r].job] = Ended(@, "cancelled")] /\ UNCHANGED faults
       \/ Fault /\ UNCHANGED jobs
    /\ UNCHANGED <<meli, mirror, listed, poll, reader, lapsed>>

---------------------------------------------------------------------------
(* ResubscribeService.process_due                                           *)

Due(j) == jobs[j].status = "pending" /\ jobs[j].wait = 0

Loaded(rows, due) == [Idle EXCEPT !.step = "next", !.rows = rows, !.due = due]

\* The rows are loaded once: what others commit to them later is not seen.
PollDue ==
    /\ poll.step = "idle" /\ \E j \in 1..Len(jobs) : Due(j)
    /\ poll' = Loaded(jobs, {j \in 1..Len(jobs) : Due(j)})
    /\ UNCHANGED <<meli, db, req, reader, told, lapsed, faults>>

Handling(p, step, j) == [p EXCEPT !.step = step, !.job = j, !.due = @ \ {j}]
Polling == poll.rows[poll.job]
Subject == Polling.listing
PollGoes(step) == poll' = Handling(poll, step, poll.job)

PollNext ==
    /\ poll.step = "next"
    /\ \E j \in poll.due : poll' = Handling(poll, "fetch", j)
    /\ UNCHANGED <<meli, db, req, reader, told, lapsed, faults>>

PollEnd ==
    /\ poll.step = "next" /\ poll.due = {}
    /\ poll' = Idle
    /\ UNCHANGED <<meli, db, req, reader, told, lapsed, faults>>

\* Only what changes of the row loaded is written.  When a commit fails the run ends.
Ends(status) == jobs' = [jobs EXCEPT ![poll.job] = Ended(@, status)]
NextJob == poll' = Handling(poll, "next", None)
PollFails == Fault /\ poll' = Idle /\ UNCHANGED <<db, told>>

\* Mutant of PollDeadline: without the alert.
DeadlineUntold ==
    /\ poll.step = "fetch" /\ Polling.left = 0
    /\ \/ Ends("failed") /\ NextJob /\ UNCHANGED <<mirror, listed, told, faults>>
       \/ PollFails
    /\ UNCHANGED <<meli, req, reader, lapsed>>

\* Mutant of PollDeadline: the alert alone.
DeadlineOpen ==
    /\ poll.step = "fetch" /\ Polling.left = 0
    /\ Tell(Subject) /\ NextJob /\ UNCHANGED <<db, faults>>
    /\ UNCHANGED <<meli, req, reader, lapsed>>

PollDeadline ==
    /\ poll.step = "fetch" /\ Polling.left = 0
    /\ \/ /\ Ends("failed") /\ Tell(Subject) /\ NextJob
          /\ UNCHANGED <<mirror, listed, faults>>
       \/ PollFails
    /\ UNCHANGED <<meli, req, reader, lapsed>>

PollFetch ==
    /\ poll.step = "fetch" /\ Polling.left > 0
    /\ \/ \E o \in Offers :
            /\ Reads(Subject, o)
            /\ PollGoes(CASE o.status = "started" -> "close"
                         [] o.status = "candidate" -> "post"
                         [] o.status = "absent" -> "wait")
       \/ Fault /\ PollGoes("error")
    /\ UNCHANGED <<meli, db, req, reader, told, lapsed>>

\* Here too no answer passes for a good one.
PollPost ==
    LET w == Enter(Polling.price) IN
    /\ poll.step = "post"
    /\ \/ (Take(Subject, w) \/ Reached(Subject, w)) /\ PollGoes("restore") /\ UNCHANGED lapsed
       \/ Refuse /\ PollGoes("wait") /\ UNCHANGED lapsed
       \/ Lost(Subject, w) /\ PollGoes("restore") /\ Unseen(Subject, "transport")
       \/ Lost(Subject, w) /\ PollGoes("error") /\ UNCHANGED lapsed
    /\ UNCHANGED <<db, req, reader, told>>

Bumped(job, n, wait, status) ==
    [job EXCEPT !.attempts = n, !.wait = wait, !.status = status]

\* bump_attempt.  A job that has no attempt left fails, with an alert unless an
\* exception brought it here.
PollBump ==
    LET n == Polling.attempts + 1   spent == n >= MaxAttempts IN
    /\ poll.step \in {"wait", "error"}
    /\ \/ /\ jobs' = [jobs EXCEPT ![poll.job] =
                Bumped(@, n, IF poll.late THEN 0 ELSE 1, IF spent THEN "failed" ELSE @.status)]
          /\ IF spent /\ poll.step = "wait" THEN Tell(Subject) ELSE UNCHANGED told
          /\ NextJob /\ UNCHANGED <<mirror, listed, faults>>
       \/ PollFails
    /\ UNCHANGED <<meli, req, reader, lapsed>>

\* mark_done, for an offer that was started already or that the poller entered.
PollClose ==
    /\ poll.step \in {"close", "restore"}
    /\ \/ /\ Ends("done")
          /\ listed' = [listed EXCEPT ![Subject] = @ \/ poll.step = "restore"]
          /\ NextJob /\ UNCHANGED <<mirror, told, faults>>
       \/ PollFails
    /\ UNCHANGED <<meli, req, reader, lapsed>>

---------------------------------------------------------------------------
(* PromotionMirrorService and reconcile_started_promos                      *)

Reading(step, todo, l, o) == [step |-> step, todo |-> todo, listing |-> l, seen |-> o]

\* A sweep of all listings; a webhook about one does the same to it.
ReaderStart ==
    /\ reader.step = "idle"
    /\ reader' = Reading("sync", Listings, None, Absent)
    /\ UNCHANGED <<meli, db, req, poll, told, lapsed, faults>>

\* For the mirror, and once more for the started rows.
ReaderFetch ==
    /\ reader.step \in {"sync", "reconcile"}
    /\ \E l \in IF reader.step = "sync" THEN reader.todo ELSE {reader.listing}, o \in Offers :
         /\ Reads(l, o)
         /\ reader' = Reading(IF reader.step = "sync" THEN "mirror" ELSE "started",
                              reader.todo \ {l}, l, o)
    /\ UNCHANGED <<meli, db, req, poll, told, lapsed>>

\* Mutant of Reconciled: what Mercado Livre lists no more is left as it is.
OnlyListed(row, o) == IF o.status # "started" THEN row ELSE Row(o, row.enrolled)

\* A row with enrolled_at is not deleted, and stays started with its price against
\* what looks like a candidate.
Reconciled(row, o) ==
    IF o.status # "started" /\ row.enrolled THEN row ELSE Row(o, row.enrolled)

ReconcileMirror ==
    /\ reader.step = "mirror"
    /\ mirror' = [mirror EXCEPT ![reader.listing] = Reconciled(@, reader.seen)]
    /\ reader' = Reading("reconcile", reader.todo, reader.listing, Absent)
    /\ UNCHANGED <<meli, listed, jobs, req, poll, told, lapsed, faults>>

\* upsert_started, or expire_disappeared_started.
ReconcileStarted ==
    /\ reader.step = "started"
    /\ listed' = [listed EXCEPT ![reader.listing] = reader.seen.status = "started"]
    /\ reader' = IF reader.todo = {} THEN Resting
                 ELSE Reading("sync", reader.todo, None, Absent)
    /\ UNCHANGED <<meli, mirror, jobs, req, poll, told, lapsed, faults>>

ReaderFails ==
    /\ reader.step # "idle" /\ Fault
    /\ reader' = Resting
    /\ UNCHANGED <<meli, db, req, poll, told, lapsed>>

---------------------------------------------------------------------------
(* Time and the process                                                    *)

Aged(job, left) == [job EXCEPT !.wait = 0, !.left = left]

Older(job) ==
    IF job.status # "pending" THEN job
    ELSE Aged(job, IF job.left = 0 THEN 0 ELSE job.left - 1)

Delayed(p) == [p EXCEPT !.late = p.step # "idle"]

Tick ==
    /\ jobs' = [j \in 1..Len(jobs) |-> Older(jobs[j])]
    /\ poll' = Delayed(poll)
    /\ UNCHANGED <<meli, mirror, listed, req, reader, told, lapsed, faults>>

\* A change of price or an exit is under way, and will be answered.
Changing(l) == \E r \in Requests :
    /\ req[r].listing = l
    /\ req[r].step \in {"leave", "settle", "enter", "find", "enqueue", "edit", "again", "store",
                       "delete", "confirm", "exit"}

Crash ==
    /\ Fault
    /\ req' = [r \in Requests |-> IF req[r].step = "idle" THEN req[r]
                                  ELSE At(Waiting, "done")]
    /\ lapsed' = [l \in Listings |-> lapsed[l] \cup (IF Changing(l) THEN {"crash"} ELSE {})]
    /\ poll' = Idle /\ reader' = Resting
    /\ UNCHANGED <<meli, db, told>>

Serve(r) ==
    \/ Leave(r) \/ Settle(r) \/ Reenter(r) \/ FindPending(r) \/ Enqueue(r)
    \/ EditPrice(r) \/ Store(r) \/ Enroll(r) \/ Record(r) \/ Mark(r)
    \/ Delete(r) \/ Confirm(r) \/ NotEffective(r) \/ StoreExit(r) \/ Cancel(r)
Poll ==
    \/ PollDue \/ PollNext \/ PollEnd \/ PollDeadline \/ PollFetch \/ PollPost
    \/ PollBump \/ PollClose
Copy == ReaderStart \/ ReaderFetch \/ ReconcileMirror \/ ReconcileStarted

Next ==
    \/ \E r \in Requests : Ask(r) \/ Look(r) \/ Serve(r)
    \/ Poll \/ Copy \/ ReaderFails
    \/ (\E l \in Listings : Apply(l) \/ Suggest(l)) \/ Tick \/ Crash

Spec == Init /\ [][Next]_vars

\* The event loop and the scheduler run, Mercado Livre applies what it took, and time
\* passes.
FairSpec ==
    /\ Spec /\ WF_vars(Tick) /\ WF_vars(Poll)
    /\ \A r \in Requests : WF_vars(Serve(r))
    /\ \A l \in Listings : WF_vars(Apply(l))
    /\ WF_vars(Copy)

---------------------------------------------------------------------------
(* Properties                                                              *)

\* A listing that is out of its campaign, or about to be, for a write that was taken.
Leaving(l) ==
    /\ offer[l].status # "started" \/ Exit \in accepted[l]
    /\ \A w \in accepted[l] : w.op # "enter"

\* "Em vez de deixar o anuncio a preco cheio, enfileira a re-inscricao": a listing
\* that the program took out to raise its price is on its way back in, or its
\* operator was told.  Excepted: a write without an answer, the death of the process
\* during the request, and a job set anew while the poller holds it.
KnownOut ==
    \A l \in Listings :
        Leaving(l) /\ lapsed[l] = {} => Changing(l) \/ Pending(l) # {} \/ told[l]

\* The five attempts that max_attempts has to spare: a job that is not set anew under
\* the poller never runs out of attempts before its deadline, not even by exceptions,
\* whose last one would fail it without an alert.
DeadlineDecides ==
    \A j \in 1..Len(jobs) :
        "race" \notin lapsed[jobs[j].listing] => jobs[j].attempts < MaxAttempts

\* A job is over by its deadline, whatever Mercado Livre offers.
JobsEnd ==
    \A j \in 1..Cardinality(Requests) :
        LET Waits == j <= Len(jobs) /\ jobs[j].status = "pending" IN Waits ~> ~Waits

\* The copies come to agree with Mercado Livre, but for a row of the mirror that
\* enrolled_at protects, however reads, writes and requests overtake each other.
Agrees(l) ==
    /\ offer[l].status = "started" =>
         mirror[l].status = "started" /\ mirror[l].price = offer[l].price
    /\ offer[l].status # "started" /\ ~mirror[l].enrolled => mirror[l].status # "started"
    /\ listed[l] = (offer[l].status = "started")
CopiesSettle == \A l \in Listings : []<>Agrees(l)
=============================================================================
