-------------------------- MODULE ResubscribeProofs --------------------------
(***************************************************************************)
(* Proofs about the parts of MCJobs.  Of Resubscribe, for any listings,      *)
(* prices and bounds: its types, that the deadline and not the attempts ends *)
(* a job, and that a listing taken out of its campaign is on its way back in *)
(* or known to be out.  Of SaleBuckets, for any orders and changes: that what *)
(* was stored and announced is shown.                                        *)
(***************************************************************************)
EXTENDS MCJobs, FiniteSetTheorems, TLAPS

---------------------------------------------------------------------------
(* Types                                                                   *)

AllSteps == {"idle", "done"} \cup Unpriced \cup Priced

\* The records of requests, with some of their fields changed.
LEMMA AtFields ==
    ASSUME NEW q \in Reqs, NEW s \in AllSteps
    PROVE  /\ At(q, s) \in Reqs /\ At(q, s).step = s /\ At(q, s).listing = q.listing
           /\ At(q, s).price = q.price /\ At(q, s).job = q.job
  BY DEF Reqs, At, AllSteps

LEMMA WithFields ==
    ASSUME NEW q \in Reqs, NEW j \in Nat
    PROVE  /\ With(q, j) \in Reqs /\ With(q, j).step = q.step /\ With(q, j).job = j
           /\ With(q, j).listing = q.listing /\ With(q, j).price = q.price
  BY DEF Reqs, With

LEMMA CountedFields ==
    ASSUME NEW q \in Reqs, NEW c \in Nat, NEW n \in Nat
    PROVE  /\ Counted(q, c, n) \in Reqs /\ Counted(q, c, n).step = q.step
           /\ Counted(q, c, n).listing = q.listing /\ Counted(q, c, n).price = q.price
           /\ Counted(q, c, n).job = q.job
  BY DEF Reqs, Counted

LEMMA WantedFields ==
    ASSUME NEW s \in AllSteps, NEW l \in Listings, NEW p \in Prices \cup {None}
    PROVE  /\ Wanted(s, l, p) \in Reqs /\ Wanted(s, l, p).step = s
           /\ Wanted(s, l, p).listing = l /\ Wanted(s, l, p).price = p
           /\ Wanted(s, l, p).job = None
  BY DEF Wanted, Waiting, Reqs, AllSteps, None

LEMMA WaitingFields ==
    /\ Waiting \in Reqs /\ Waiting.step = "idle" /\ Waiting.listing = None
    /\ Waiting.job = None /\ At(Waiting, "done") \in Reqs /\ At(Waiting, "done").step = "done"
    /\ At(Waiting, "done").listing = None /\ At(Waiting, "done").job = None
  BY DEF Waiting, At, Reqs, None

LEMMA StepNames ==
    /\ {"idle", "done"} \subseteq AllSteps /\ Unpriced \subseteq AllSteps
    /\ Priced \subseteq AllSteps /\ Priced \cap Unpriced = {}
    /\ "idle" \notin Priced \cup Unpriced /\ "done" \notin Priced \cup Unpriced
    /\ "cancel" \notin Priced
  BY DEF AllSteps, Priced, Unpriced

\* Jobs with some of their fields changed.
Statuses == {"pending", "done", "failed", "cancelled"}
Flags == {0, 1}

LEMMA JobTypes ==
    \A job \in Jobs : job.listing \in Listings /\ job.price \in Prices /\ job.attempts \in Nat
                      /\ job.status \in Statuses /\ job.wait \in {0, 1}
                      /\ job.left \in 0..DeadlineAfter /\ job.left \in Nat
<1>1. \A n \in 0..DeadlineAfter : n \in Nat
  OBVIOUS
<1> QED
  BY <1>1 DEF Jobs, Statuses

LEMMA EndedFields ==
    ASSUME NEW job \in Jobs, NEW s \in Statuses
    PROVE  /\ Ended(job, s) \in Jobs /\ Ended(job, s).status = s
           /\ Ended(job, s).listing = job.listing /\ Ended(job, s).left = job.left
           /\ Ended(job, s).attempts = job.attempts /\ Ended(job, s).wait = job.wait
  BY DEF Jobs, Ended, Statuses

LEMMA BumpedFields ==
    ASSUME NEW job \in Jobs, NEW n \in Nat, NEW w \in Flags, NEW s \in Statuses
    PROVE  /\ Bumped(job, n, w, s) \in Jobs /\ Bumped(job, n, w, s).listing = job.listing
           /\ Bumped(job, n, w, s).attempts = n /\ Bumped(job, n, w, s).wait = w
           /\ Bumped(job, n, w, s).status = s /\ Bumped(job, n, w, s).left = job.left
  BY DEF Jobs, Bumped, Statuses, Flags

LEMMA OlderFields ==
    ASSUME NEW job \in Jobs
    PROVE  /\ Older(job) \in Jobs /\ Older(job).listing = job.listing
           /\ Older(job).status = job.status /\ Older(job).attempts = job.attempts
           /\ job.status # "pending" => Older(job) = job
           /\ job.status = "pending" =>
                /\ Older(job).wait = 0
                /\ Older(job).left = IF job.left = 0 THEN 0 ELSE job.left - 1
<1>1. DeadlineAfter \in Nat
  BY ParametersAssumption
<1>2. job.left # 0 => job.left - 1 \in 0..DeadlineAfter
  BY <1>1 DEF Jobs
<1>3. \A n \in 0..DeadlineAfter :
        /\ Aged(job, n) \in Jobs /\ Aged(job, n).listing = job.listing
        /\ Aged(job, n).status = job.status /\ Aged(job, n).attempts = job.attempts
        /\ Aged(job, n).wait = 0 /\ Aged(job, n).left = n
  BY DEF Jobs, Aged
<1>4. 0 \in 0..DeadlineAfter
  BY <1>1
<1> QED
  BY <1>2, <1>3, <1>4 DEF Older

LEMMA NewJobFields ==
    ASSUME NEW l \in Listings, NEW p \in Prices
    PROVE  /\ NewJob(l, p) \in Jobs /\ NewJob(l, p).listing = l
           /\ NewJob(l, p).status = "pending" /\ NewJob(l, p).attempts = 0
           /\ NewJob(l, p).wait = 0 /\ NewJob(l, p).left = DeadlineAfter
  BY ParametersAssumption DEF Jobs, NewJob

\* The poller, with some of its fields changed.
AllPollSteps == {"idle", "next"} \cup PollSteps

LEMMA PollTypes ==
    ASSUME NEW p \in Polls
    PROVE  /\ p.step \in AllPollSteps /\ p.rows \in Seq(Jobs)
           /\ p.due \subseteq Nat /\ p.job \in Nat /\ p.late \in BOOLEAN
  BY DEF Polls, AllPollSteps

LEMMA HandlingFields ==
    ASSUME NEW p \in Polls, NEW s \in AllPollSteps, NEW j \in Nat
    PROVE  /\ Handling(p, s, j) \in Polls /\ Handling(p, s, j).step = s
           /\ Handling(p, s, j).job = j /\ Handling(p, s, j).rows = p.rows
           /\ Handling(p, s, j).due = p.due \ {j} /\ Handling(p, s, j).late = p.late
  BY DEF Polls, Handling, AllPollSteps

LEMMA NextFields ==
    ASSUME NEW p \in Polls
    PROVE  /\ Handling(p, "next", None) \in Polls /\ Handling(p, "next", None).step = "next"
           /\ Handling(p, "next", None).job = None /\ Handling(p, "next", None).rows = p.rows
           /\ Handling(p, "next", None).due = p.due \ {None}
           /\ Handling(p, "next", None).late = p.late
<1>1. "next" \in AllPollSteps /\ None \in Nat
  BY DEF AllPollSteps, None
<1> QED
  BY <1>1, HandlingFields

LEMMA DelayedFields ==
    ASSUME NEW p \in Polls
    PROVE  /\ Delayed(p) \in Polls /\ Delayed(p).step = p.step /\ Delayed(p).job = p.job
           /\ Delayed(p).rows = p.rows /\ Delayed(p).due = p.due
           /\ Delayed(p).late = (p.step # "idle")
  BY DEF Polls, Delayed

LEMMA IdleFields ==
    /\ Idle \in Polls /\ Idle.step = "idle" /\ Idle.rows = <<>> /\ Idle.due = {}
    /\ Idle.job = None /\ Idle.late = FALSE
<1>1. <<>> \in Seq(Jobs)
  OBVIOUS
<1> QED
  BY <1>1 DEF Idle, Polls, None

LEMMA LoadedFields ==
    ASSUME NEW rows \in Seq(Jobs), NEW ripe \in SUBSET Nat
    PROVE  /\ Loaded(rows, ripe) \in Polls /\ Loaded(rows, ripe).step = "next"
           /\ Loaded(rows, ripe).rows = rows /\ Loaded(rows, ripe).due = ripe
           /\ Loaded(rows, ripe).job = None /\ Loaded(rows, ripe).late = FALSE
  BY IdleFields DEF Loaded, Polls

LEMMA ReqTypes ==
    ASSUME ReqOK, NEW r \in Requests
    PROVE  /\ req[r] \in Reqs /\ req[r].step \in AllSteps /\ req[r].job \in Nat
           /\ req[r].job <= Len(jobs) /\ req[r].price \in Prices \cup {None}
           /\ req[r].step \in Unpriced \cup Priced => req[r].listing \in Listings
           /\ req[r].step \in Priced => req[r].price \in Prices
           /\ req[r].step = "cancel" => req[r].job # None
<1>1. req[r] \in Reqs
  BY DEF ReqOK
<1> QED
  BY <1>1 DEF ReqOK, Reqs, AllSteps

\* A request is replaced by one that is in order.
LEMMA ReqChanges ==
    ASSUME ReqOK, NEW r \in Requests, NEW n \in Reqs, req' = [req EXCEPT ![r] = n],
           Len(jobs) \in Nat, Len(jobs') \in Nat, Len(jobs) <= Len(jobs'),
           n.step \in Unpriced \cup Priced => n.listing \in Listings,
           n.step \in Priced => n.price \in Prices,
           n.step = "cancel" => n.job # None,
           n.job <= Len(jobs')
    PROVE  ReqOK' /\ req'[r] = n /\ \A q \in Requests \ {r} : req'[q] = req[q]
<1>1. req' \in [Requests -> Reqs] /\ req'[r] = n /\ \A q \in Requests \ {r} : req'[q] = req[q]
  BY DEF ReqOK
<1>2. \A q \in Requests : req[q].job \in Nat
  BY DEF ReqOK, Reqs
<1>3. ASSUME NEW q \in Requests
      PROVE  /\ req'[q].step \in Unpriced \cup Priced => req'[q].listing \in Listings
             /\ req'[q].step \in Priced => req'[q].price \in Prices
             /\ req'[q].step = "cancel" => req'[q].job # None
             /\ req'[q].job <= Len(jobs')
  <2>1. CASE q = r
    BY <2>1, <1>1
  <2>2. CASE q # r
    BY <2>2, <1>1, <1>2 DEF ReqOK
  <2> QED
    BY <2>1, <2>2
<1> QED
  BY <1>1, <1>3 DEF ReqOK

\* One job is replaced by another.
LEMMA JobChanges ==
    ASSUME jobs \in Seq(Jobs), NEW j \in 1..Len(jobs), NEW n \in Jobs,
           jobs' = [jobs EXCEPT ![j] = n]
    PROVE  /\ jobs' \in Seq(Jobs) /\ Len(jobs') = Len(jobs) /\ jobs'[j] = n
           /\ \A i \in 1..Len(jobs) : i # j => jobs'[i] = jobs[i]
  OBVIOUS

\* The actions that write to ml_promo_resubscribe_jobs.
LEMMA JobsMoves ==
    ASSUME [Next]_vars
    PROVE  \/ UNCHANGED jobs
           \/ \E r \in Requests : Enqueue(r) \/ Cancel(r)
           \/ PollDeadline \/ PollBump \/ PollClose \/ Tick
<1>1. CASE UNCHANGED vars
  BY <1>1 DEF vars, db
<1>2. CASE \E r \in Requests : Ask(r) \/ Look(r) \/ Serve(r)
  BY <1>2 DEF Ask, Look, Serve, Leave, Settle, Reenter, FindPending, EditPrice, Store, Enroll,
              Record, Mark, Delete, Confirm, NotEffective, StoreExit, db
<1>3. CASE Poll
  BY <1>3 DEF Poll, PollDue, PollNext, PollEnd, PollFetch, PollPost, db
<1>4. CASE Copy \/ ReaderFails \/ Crash
  BY <1>4 DEF Copy, ReaderFails, Crash, ReaderStart, ReaderFetch, ReconcileMirror,
              ReconcileStarted, db
<1>5. CASE \E l \in Listings : Apply(l) \/ Suggest(l)
  BY <1>5 DEF Apply, Suggest, db
<1> QED
  BY <1>1, <1>2, <1>3, <1>4, <1>5 DEF Next

LEMMA JobsStep ==
    ASSUME TypeOK, [Next]_vars
    PROVE  jobs' \in Seq(Jobs) /\ Len(jobs) <= Len(jobs')
<1> USE DEF None
<1>0. jobs \in Seq(Jobs) /\ Len(jobs) \in Nat
  BY DEF TypeOK
<1>1. CASE UNCHANGED jobs
  BY <1>0, <1>1
<1>2. ASSUME NEW r \in Requests, Enqueue(r)
      PROVE  jobs' \in Seq(Jobs) /\ Len(jobs) <= Len(jobs')
  <2> DEFINE l == req[r].listing   j == req[r].job   new == NewJob(l, req[r].price)
  <2>1. l \in Listings /\ req[r].price \in Prices /\ j \in Nat /\ j <= Len(jobs)
    BY <1>2, ReqTypes DEF Enqueue, TypeOK, Priced
  <2>2. new \in Jobs
    BY <2>1, NewJobFields
  <2>3. CASE j # None /\ jobs' = [jobs EXCEPT ![j] = Ended(new, @.status)]
    <3>1. j \in 1..Len(jobs)
      BY <2>1, <2>3, <1>0
    <3>2. jobs[j] \in Jobs
      BY <3>1, <1>0
    <3>3. Ended(new, jobs[j].status) \in Jobs
      BY <2>2, <3>2, EndedFields, JobTypes
    <3>4. jobs' = [jobs EXCEPT ![j] = Ended(new, jobs[j].status)]
      BY <2>3
    <3> QED
      BY <1>0, <3>1, <3>3, <3>4, JobChanges
  <2>4. CASE jobs' = Append(jobs, new)
    BY <2>2, <2>4, <1>0
  <2>5. CASE UNCHANGED jobs
    BY <2>5, <1>1
  <2> QED
    BY <1>2, <2>3, <2>4, <2>5 DEF Enqueue
<1>3. ASSUME NEW r \in Requests, Cancel(r)
      PROVE  jobs' \in Seq(Jobs) /\ Len(jobs) <= Len(jobs')
  <2>1. req[r].job \in 1..Len(jobs)
    BY <1>3, <1>0, ReqTypes DEF Cancel, TypeOK
  <2>2. jobs[req[r].job] \in Jobs
    BY <2>1, <1>0
  <2>3. Ended(jobs[req[r].job], "cancelled") \in Jobs
    BY <2>2, EndedFields DEF Statuses
  <2> QED
    BY <1>3, <1>0, <2>1, <2>3, JobChanges DEF Cancel
<1>4. poll.step \in PollSteps => poll.job \in 1..Len(jobs) /\ jobs[poll.job] \in Jobs
                                /\ Polling \in Jobs
  <2>1. SUFFICES ASSUME poll.step \in PollSteps
                 PROVE  poll.job \in 1..Len(jobs) /\ jobs[poll.job] \in Jobs /\ Polling \in Jobs
    OBVIOUS
  <2>2. poll.job \in 1..Len(poll.rows) /\ poll.rows \in Seq(Jobs) /\ Len(poll.rows) <= Len(jobs)
    BY <2>1, PollTypes DEF TypeOK, PollOK
  <2>3. poll.job \in 1..Len(jobs)
    BY <2>2, <1>0
  <2> QED
    BY <2>2, <2>3, <1>0 DEF Polling
<1>5. CASE PollDeadline \/ PollClose
  <2>1. poll.step \in PollSteps
    BY <1>5 DEF PollDeadline, PollClose, PollSteps
  <2>2. \A s \in {"failed", "done"} : Ended(jobs[poll.job], s) \in Jobs
    BY <1>4, <2>1, EndedFields DEF Statuses
  <2>3. \/ UNCHANGED jobs
        \/ \E s \in {"failed", "done"} : jobs' = [jobs EXCEPT ![poll.job] = Ended(jobs[poll.job], s)]
    BY <1>5 DEF PollDeadline, PollClose, PollFails, Ends, db
  <2> QED
    BY <1>0, <1>1, <1>4, <2>1, <2>2, <2>3, JobChanges
<1>6. CASE PollBump
  <2>1. poll.step \in PollSteps
    BY <1>6 DEF PollBump, PollSteps
  <2> DEFINE n == Polling.attempts + 1
             w == IF poll.late THEN 0 ELSE 1
             s == IF n >= MaxAttempts THEN "failed" ELSE jobs[poll.job].status
  <2>2. n \in Nat /\ w \in Flags /\ s \in Statuses
    BY <1>4, <2>1, JobTypes DEF Statuses, Flags
  <2>3. Bumped(jobs[poll.job], n, w, s) \in Jobs
    BY <1>4, <2>1, <2>2, BumpedFields
  <2>4. UNCHANGED jobs \/ jobs' = [jobs EXCEPT ![poll.job] = Bumped(jobs[poll.job], n, w, s)]
    BY <1>6 DEF PollBump, PollFails, db
  <2> QED
    BY <1>0, <1>1, <1>4, <2>1, <2>3, <2>4, JobChanges
<1>7. CASE Tick
  <2>1. \A j \in 1..Len(jobs) : Older(jobs[j]) \in Jobs
    BY <1>0, OlderFields
  <2> QED
    BY <1>7, <1>0, <2>1 DEF Tick
<1> QED
  BY <1>1, <1>2, <1>3, <1>5, <1>6, <1>7, JobsMoves

LEMMA GoesOK ==
    ASSUME TypeOK, Len(jobs') \in Nat, Len(jobs) <= Len(jobs'), NEW r \in Requests,
           NEW s \in (Priced \cup Unpriced) \ {"cancel"}, Goes(r, s),
           req[r].step \in Priced \cup Unpriced,
           s \in Priced => req[r].step \in Priced
    PROVE  ReqOK'
<1>1. req[r] \in Reqs /\ s \in AllSteps /\ ReqOK /\ Len(jobs) \in Nat
  BY ReqTypes DEF AllSteps, TypeOK
<1>2. At(req[r], s) \in Reqs /\ At(req[r], s).step = s /\ At(req[r], s).job = req[r].job
      /\ At(req[r], s).listing = req[r].listing /\ At(req[r], s).price = req[r].price
  BY <1>1, AtFields
<1>3. req[r].job \in Nat /\ req[r].job <= Len(jobs')
  BY <1>1, ReqTypes
<1>4. req' = [req EXCEPT ![r] = At(req[r], s)]
  BY DEF Goes
<1> QED
  BY <1>1, <1>2, <1>3, <1>4, ReqTypes, ReqChanges

LEMMA OverOK ==
    ASSUME TypeOK, Len(jobs') \in Nat, Len(jobs) <= Len(jobs'), NEW r \in Requests, Over(r)
    PROVE  ReqOK'
<1>1. ReqOK /\ Len(jobs) \in Nat /\ req' = [req EXCEPT ![r] = At(Waiting, "done")]
  BY DEF Over, TypeOK
<1> DEFINE n == At(Waiting, "done")
<1>2. n \in Reqs /\ n.step = "done" /\ n.job <= Len(jobs')
  BY WaitingFields DEF None
<1>3. n.step \notin Unpriced \cup Priced
  BY <1>2, StepNames
<1>4. req' = [req EXCEPT ![r] = n]
  BY <1>1
<1> HIDE DEF n
<1> QED
  BY <1>1, <1>2, <1>3, <1>4, ReqChanges

\* What the actions that serve a request do to its record.
LEMMA ServeMoves ==
    ASSUME NEW r \in Requests
    PROVE  /\ Leave(r) => req[r].step = "leave" /\ (Goes(r, "settle") \/ Over(r))
           /\ Settle(r) => req[r].step = "settle" /\ Goes(r, "enter")
           /\ Reenter(r) => /\ req[r].step = "enter"
                            /\ Goes(r, "store") \/ Goes(r, "find") \/ Over(r)
           /\ Enqueue(r) => req[r].step = "enqueue" /\ Over(r)
           /\ EditPrice(r) => /\ req[r].step \in {"edit", "again"}
                              /\ Goes(r, "store") \/ Goes(r, "again") \/ Over(r)
           /\ Store(r) => req[r].step = "store" /\ Over(r)
           /\ Enroll(r) => req[r].step = "enroll" /\ (Goes(r, "record") \/ Over(r))
           /\ Record(r) => req[r].step = "record" /\ (Goes(r, "mark") \/ Over(r))
           /\ Mark(r) => req[r].step = "mark" /\ Over(r)
           /\ Delete(r) => req[r].step = "delete" /\ (Goes(r, "confirm") \/ Over(r))
           /\ NotEffective(r) => req[r].step = "confirm" /\ Over(r)
           /\ StoreExit(r) => req[r].step = "exit" /\ Over(r)
           /\ Cancel(r) => req[r].step = "cancel" /\ Over(r)
  BY DEF Leave, Settle, Reenter, Enqueue, EditPrice, Store, Enroll, Record, Mark, Delete,
         NotEffective, StoreExit, Cancel, Answer

\* The request of a step forward and the end of one.
LEMMA FindPendingOK ==
    ASSUME TypeOK, Len(jobs') \in Nat, Len(jobs) <= Len(jobs'), NEW r \in Requests,
           FindPending(r)
    PROVE  ReqOK'
<1>1. req[r].step = "find" /\ req[r] \in Reqs /\ ReqOK /\ Len(jobs) \in Nat
  BY ReqTypes DEF FindPending, TypeOK
<1>2. {"find", "enqueue"} \subseteq Priced /\ {"find", "enqueue"} \subseteq AllSteps
  BY DEF Priced, AllSteps
<1>3. CASE Goes(r, "enqueue")
  BY <1>1, <1>2, <1>3, StepNames, GoesOK
<1>4. ASSUME NEW j \in Pending(req[r].listing),
             req' = [req EXCEPT ![r] = With(At(req[r], "enqueue"), j)]
      PROVE  ReqOK'
  <2> DEFINE q == At(req[r], "enqueue")
  <2>1. j \in Nat /\ j <= Len(jobs')
    BY <1>1 DEF Pending
  <2>2. q \in Reqs /\ q.step = "enqueue" /\ q.listing = req[r].listing
        /\ q.price = req[r].price
    BY <1>1, <1>2, AtFields
  <2> HIDE DEF q
  <2>3. /\ With(q, j) \in Reqs /\ With(q, j).step = "enqueue" /\ With(q, j).job = j
        /\ With(q, j).listing = req[r].listing /\ With(q, j).price = req[r].price
    BY <2>1, <2>2, WithFields
  <2>4. req' = [req EXCEPT ![r] = With(q, j)]
    BY <1>4 DEF q
  <2>5. req[r].listing \in Listings /\ req[r].price \in Prices
    BY <1>1, <1>2, ReqTypes
  <2> QED
    BY <1>1, <1>2, <2>1, <2>3, <2>4, <2>5, ReqChanges
<1> QED
  BY <1>3, <1>4 DEF FindPending

LEMMA ConfirmMoves ==
    ASSUME NEW r \in Requests, Confirm(r)
    PROVE  /\ req[r].step = "confirm"
           /\ \E c \in {0, req[r].clean, req[r].clean + 1}, s \in {"confirm", "exit"} :
                req' = [req EXCEPT ![r] = Counted(At(req[r], s), c, req[r].tries + 1)]
  BY DEF Confirm

LEMMA ConfirmOK ==
    ASSUME TypeOK, Len(jobs') \in Nat, Len(jobs) <= Len(jobs'), NEW r \in Requests,
           Confirm(r)
    PROVE  ReqOK'
<1>1. req[r].step = "confirm" /\ req[r] \in Reqs /\ ReqOK /\ Len(jobs) \in Nat
  BY ReqTypes DEF Confirm, TypeOK
<1>2. {"confirm", "exit"} \subseteq Unpriced \ {"cancel"} /\ {"confirm", "exit"} \subseteq AllSteps
  BY DEF Unpriced, AllSteps
<1>3. PICK c \in {0, req[r].clean, req[r].clean + 1}, s \in {"confirm", "exit"} :
        req' = [req EXCEPT ![r] = Counted(At(req[r], s), c, req[r].tries + 1)]
  BY ConfirmMoves
<1> DEFINE q == At(req[r], s)   n == req[r].tries + 1
<1>4. c \in Nat /\ n \in Nat
  BY <1>1, <1>3 DEF Reqs
<1>5. q \in Reqs /\ q.step = s /\ q.listing = req[r].listing /\ q.price = req[r].price
      /\ q.job = req[r].job
  BY <1>1, <1>2, <1>3, AtFields
<1> HIDE DEF q, n
<1>6. /\ Counted(q, c, n) \in Reqs /\ Counted(q, c, n).step = s
      /\ Counted(q, c, n).listing = req[r].listing /\ Counted(q, c, n).job = req[r].job
  BY <1>4, <1>5, CountedFields
<1>7. req' = [req EXCEPT ![r] = Counted(q, c, n)]
  BY <1>3 DEF q, n
<1>8. req[r].listing \in Listings /\ req[r].job \in Nat /\ req[r].job <= Len(jobs')
  BY <1>1, <1>2, ReqTypes
<1> QED
  BY <1>1, <1>2, <1>3, <1>6, <1>7, <1>8, StepNames, ReqChanges

\* A request begins.
LEMMA AskMoves ==
    ASSUME NEW r \in Requests, Ask(r)
    PROVE  /\ req[r].step = "idle"
           /\ \E l \in Listings : \E p \in Prices \cup {None},
                 s \in {"leave", "edit", "enroll", "delete"} :
                /\ req' = [req EXCEPT ![r] = Wanted(s, l, p)]
                /\ s # "delete" => p \in Prices
                /\ told' = [told EXCEPT ![l] = CASE s = "leave" -> FALSE
                                                 [] s = "delete" -> TRUE
                                                 [] OTHER -> @]
  BY DEF Ask

LEMMA LookMoves ==
    ASSUME NEW r \in Requests, Look(r)
    PROVE  /\ req[r].step = "idle"
           /\ \E l \in Listings : \E j \in Pending(l) :
                req' = [req EXCEPT ![r] = With(Wanted("cancel", l, None), j)]
  BY DEF Look

LEMMA AskOK ==
    ASSUME TypeOK, Len(jobs') \in Nat, Len(jobs) <= Len(jobs'), NEW r \in Requests, Ask(r)
    PROVE  ReqOK'
<1>1. PICK l \in Listings : \E p \in Prices \cup {None},
             s \in {"leave", "edit", "enroll", "delete"} :
           req' = [req EXCEPT ![r] = Wanted(s, l, p)] /\ (s # "delete" => p \in Prices)
  BY AskMoves
<1>2. PICK p \in Prices \cup {None}, s \in {"leave", "edit", "enroll", "delete"} :
           req' = [req EXCEPT ![r] = Wanted(s, l, p)] /\ (s # "delete" => p \in Prices)
  BY <1>1
<1>3. s \in AllSteps /\ s # "cancel" /\ (s \in Priced => s # "delete")
  BY <1>2 DEF AllSteps, Priced, Unpriced
<1>4. /\ Wanted(s, l, p) \in Reqs /\ Wanted(s, l, p).step = s
      /\ Wanted(s, l, p).listing = l /\ Wanted(s, l, p).price = p
      /\ Wanted(s, l, p).job <= Len(jobs')
  BY <1>3, WantedFields DEF None
<1>5. ReqOK /\ Len(jobs) \in Nat
  BY DEF TypeOK
<1> QED
  BY <1>2, <1>3, <1>4, <1>5, ReqChanges

LEMMA LookOK ==
    ASSUME TypeOK, Len(jobs') \in Nat, Len(jobs) <= Len(jobs'), NEW r \in Requests, Look(r)
    PROVE  ReqOK'
<1>1. PICK l \in Listings : \E j \in Pending(l) :
           req' = [req EXCEPT ![r] = With(Wanted("cancel", l, None), j)]
  BY LookMoves
<1>2. PICK j \in Pending(l) : req' = [req EXCEPT ![r] = With(Wanted("cancel", l, None), j)]
  BY <1>1
<1>3. ReqOK /\ Len(jobs) \in Nat
  BY DEF TypeOK
<1>4. j \in Nat /\ j <= Len(jobs') /\ j # None
  BY <1>3 DEF Pending, None
<1> DEFINE q == Wanted("cancel", l, None)
<1>5. q \in Reqs /\ q.step = "cancel" /\ q.listing = l
  <2>1. "cancel" \in AllSteps
    BY DEF AllSteps, Unpriced
  <2> QED
    BY <2>1, WantedFields
<1> HIDE DEF q
<1>6. With(q, j) \in Reqs /\ With(q, j).step = "cancel" /\ With(q, j).listing = l
      /\ With(q, j).job = j
  BY <1>4, <1>5, WithFields
<1>7. req' = [req EXCEPT ![r] = With(q, j)]
  BY <1>2 DEF q
<1> QED
  BY <1>3, <1>4, <1>6, <1>7, StepNames, ReqChanges

LEMMA ReqStep ==
    ASSUME TypeOK, [Next]_vars
    PROVE  ReqOK'
<1>0. Len(jobs) \in Nat /\ Len(jobs') \in Nat /\ Len(jobs) <= Len(jobs') /\ ReqOK
  BY JobsStep DEF TypeOK
<1>1. CASE UNCHANGED req
  <2>1. \A r \in Requests : req'[r] = req[r] /\ req[r].job <= Len(jobs')
    BY <1>0, <1>1, ReqTypes
  <2> QED
    BY <1>0, <1>1, <2>1 DEF ReqOK
<1>2. ASSUME NEW r \in Requests, Serve(r)
      PROVE  ReqOK'
  <2>1. CASE Over(r)
    BY <1>0, <2>1, OverOK
  <2>2. CASE \E s \in {"settle", "enter", "store", "find", "again", "record", "mark"} :
               Goes(r, s) /\ req[r].step \in {"leave", "settle", "enter", "edit", "again",
                                             "enroll", "record"}
    <3>1. {"settle", "enter", "store", "find", "again", "record", "mark", "leave", "edit",
            "enroll"} \subseteq Priced
      BY DEF Priced
    <3> QED
      BY <1>0, <2>2, <3>1, StepNames, GoesOK
  <2>3. CASE Goes(r, "confirm") /\ req[r].step = "delete"
    <3>1. {"confirm", "delete"} \subseteq Unpriced \ {"cancel"} /\ "confirm" \notin Priced
      BY DEF Unpriced, Priced
    <3> QED
      BY <1>0, <2>3, <3>1, GoesOK
  <2> QED
    BY <1>0, <1>2, <2>1, <2>2, <2>3, ServeMoves, FindPendingOK, ConfirmOK DEF Serve
<1>3. CASE Crash
  <2>1. req' = [r \in Requests |-> IF req[r].step = "idle" THEN req[r] ELSE At(Waiting, "done")]
    BY <1>3 DEF Crash
  <2>2. ASSUME NEW r \in Requests
        PROVE  /\ req'[r] \in Reqs
               /\ req'[r].step \notin Unpriced \cup Priced
               /\ req'[r].step # "cancel" /\ req'[r].job <= Len(jobs')
    <3>1. CASE req[r].step = "idle"
      BY <2>1, <3>1, <1>0, ReqTypes, StepNames
    <3>2. CASE req[r].step # "idle"
      BY <2>1, <3>2, <1>0, WaitingFields, StepNames DEF None
    <3> QED
      BY <3>1, <3>2
  <2> QED
    BY <2>1, <2>2, StepNames DEF ReqOK
<1>4. CASE \E l \in Listings : Apply(l) \/ Suggest(l)
  BY <1>1, <1>4 DEF Apply, Suggest
<1>5. CASE Poll
  BY <1>1, <1>5 DEF Poll, PollDue, PollNext, PollEnd, PollDeadline, PollFetch, PollPost,
                    PollBump, PollClose
<1>6. CASE Copy \/ ReaderFails \/ Tick \/ UNCHANGED vars
  BY <1>1, <1>6 DEF Copy, ReaderStart, ReaderFetch, ReconcileMirror, ReconcileStarted,
                    ReaderFails, Tick, vars
<1>7. ASSUME NEW r \in Requests, Ask(r) \/ Look(r)
      PROVE  ReqOK'
  BY <1>0, <1>7, AskOK, LookOK
<1> QED
  BY <1>2, <1>3, <1>4, <1>5, <1>6, <1>7 DEF Next

\* What changes of the poller.
LEMMA PollMoves ==
    ASSUME [Next]_vars
    PROVE  \/ UNCHANGED poll \/ PollDue \/ PollNext
           \/ Tick \/ poll' = Idle
           \/ poll' = Handling(poll, "next", None) /\ poll.step \in PollSteps
           \/ /\ PollFetch \/ PollPost
              /\ \E s \in PollSteps : poll' = Handling(poll, s, poll.job)
<1>1. CASE Poll
  BY <1>1 DEF Poll, PollEnd, PollDeadline, PollFetch, PollPost, PollBump, PollClose, NextJob,
              PollFails, PollGoes, PollSteps, Offers
<1>2. CASE \E r \in Requests : Ask(r) \/ Look(r) \/ Serve(r)
  BY <1>2, ZenonT(40) DEF Ask, Look, Serve, Leave, Settle, Reenter, FindPending, Enqueue, EditPrice, Store,
              Enroll, Record, Mark, Delete, Confirm, NotEffective, StoreExit, Cancel
<1>3. CASE Copy \/ ReaderFails \/ Crash \/ UNCHANGED vars
  BY <1>3 DEF Copy, ReaderFails, Crash, ReaderStart, ReaderFetch, ReconcileMirror,
              ReconcileStarted, vars
<1>4. CASE \E l \in Listings : Apply(l) \/ Suggest(l)
  BY <1>4 DEF Apply, Suggest
<1> QED
  BY <1>1, <1>2, <1>3, <1>4 DEF Next

LEMMA PollStep ==
    ASSUME TypeOK, [Next]_vars
    PROVE  PollOK'
<1>0. /\ Len(jobs) \in Nat /\ Len(jobs') \in Nat /\ Len(jobs) <= Len(jobs')
      /\ PollOK /\ poll \in Polls /\ Len(poll.rows) \in Nat /\ jobs \in Seq(Jobs)
  BY JobsStep, PollTypes DEF TypeOK, PollOK
<1>1. CASE UNCHANGED poll
  BY <1>0, <1>1 DEF PollOK
<1>2. CASE PollDue
  <2> DEFINE ripe == {j \in 1..Len(jobs) : Due(j)}
  <2>1. poll' = Loaded(jobs, ripe) /\ UNCHANGED jobs /\ ripe \in SUBSET Nat
        /\ ripe \subseteq 1..Len(jobs) /\ None \notin ripe
    BY <1>0, <1>2 DEF PollDue, db, None
  <2> HIDE DEF ripe
  <2>2. /\ poll' \in Polls /\ poll'.step = "next" /\ poll'.rows = jobs /\ poll'.due = ripe
        /\ poll'.job = None
    BY <1>0, <2>1, LoadedFields
  <2>3. poll'.due \subseteq 1..Len(poll'.rows) /\ Len(poll'.rows) <= Len(jobs')
    BY <1>0, <2>1, <2>2
  <2> QED
    BY <2>1, <2>2, <2>3 DEF PollOK, PollSteps
<1>3. ASSUME NEW s \in AllPollSteps, NEW j \in Nat, s # "idle",
             poll' = Handling(poll, s, j), s = "next" => j = None,
             s # "next" => j \in 1..Len(poll.rows)
      PROVE  PollOK'
  <2>1. /\ poll' \in Polls /\ poll'.step = s /\ poll'.rows = poll.rows
        /\ poll'.due = poll.due \ {j} /\ poll'.job = j
    <3>1. /\ Handling(poll, s, j) \in Polls /\ Handling(poll, s, j).step = s
          /\ Handling(poll, s, j).job = j /\ Handling(poll, s, j).rows = poll.rows
          /\ Handling(poll, s, j).due = poll.due \ {j}
      <4>1. poll \in Polls
        BY <1>0
      <4> QED
        BY <4>1, HandlingFields
    <3> QED
      BY <1>3, <3>1
  <2>2. poll.due \subseteq 1..Len(poll.rows) /\ Len(poll.rows) <= Len(jobs')
    BY <1>0 DEF PollOK
  <2>3. s \in PollSteps <=> s # "next"
    BY <1>3 DEF AllPollSteps, PollSteps
  <2>5. poll'.due \subseteq 1..Len(poll'.rows) /\ poll'.job \notin poll'.due
    BY <2>1, <2>2
  <2>6. CASE s = "next"
    BY <1>3, <2>1, <2>2, <2>3, <2>5, <2>6 DEF PollOK
  <2>7. CASE s # "next"
    BY <1>3, <2>1, <2>2, <2>3, <2>5, <2>7 DEF PollOK
  <2> QED
    BY <2>6, <2>7
<1>4. CASE PollNext
  <2>1. PICK j \in poll.due : poll' = Handling(poll, "fetch", j)
    BY <1>4 DEF PollNext
  <2>2. j \in 1..Len(poll.rows) /\ "fetch" \in AllPollSteps /\ j \in Nat
    BY <1>0, <2>1 DEF PollOK, AllPollSteps, PollSteps
  <2> QED
    BY <1>3, <2>1, <2>2
<1>5. CASE Tick
  <2>1. /\ poll' \in Polls /\ poll'.step = poll.step /\ poll'.rows = poll.rows
        /\ poll'.due = poll.due /\ poll'.job = poll.job
    BY <1>0, <1>5, DelayedFields DEF Tick
  <2> QED
    BY <1>0, <2>1 DEF PollOK
<1>6. CASE poll' = Idle
  BY <1>0, <1>6, IdleFields DEF PollOK, PollSteps
<1>7. CASE poll' = Handling(poll, "next", None) /\ poll.step \in PollSteps
  BY <1>3, <1>7 DEF None, AllPollSteps
<1>8. ASSUME PollFetch \/ PollPost, NEW s \in PollSteps, poll' = Handling(poll, s, poll.job)
      PROVE  PollOK'
  <2>1. poll.step \in PollSteps /\ s # "next" /\ s # "idle" /\ s \in AllPollSteps
    BY <1>8 DEF PollFetch, PollPost, PollSteps, AllPollSteps
  <2>2. poll.job \in Nat /\ poll.job \in 1..Len(poll.rows)
    BY <1>0, <2>1, PollTypes DEF PollOK
  <2> QED
    BY <1>3, <1>8, <2>1, <2>2
<1> QED
  BY <1>1, <1>2, <1>4, <1>5, <1>6, <1>7, <1>8, PollMoves

LEMMA ReaderStep ==
    ASSUME TypeOK, [Next]_vars
    PROVE  ReaderOK'
<1>0. ReaderOK /\ reader \in Readers /\ Absent \in Offers /\ Resting \in Readers
  BY DEF TypeOK, ReaderOK, Absent, Offers, Resting, Readers
<1>1. CASE UNCHANGED reader
  BY <1>0, <1>1 DEF ReaderOK
<1>2. CASE Copy
  <2>1. CASE ReaderStart
    BY <1>0, <2>1 DEF ReaderStart, Reading, ReaderOK, Readers
  <2>2. CASE ReaderFetch
    <3>1. PICK l \in IF reader.step = "sync" THEN reader.todo ELSE {reader.listing}, o \in Offers :
            reader' = Reading(IF reader.step = "sync" THEN "mirror" ELSE "started",
                              reader.todo \ {l}, l, o)
      BY <2>2 DEF ReaderFetch
    <3>2. l \in Listings
      BY <1>0, <2>2, <3>1 DEF ReaderFetch, ReaderOK, Readers
    <3> QED
      BY <1>0, <3>1, <3>2 DEF Reading, ReaderOK, Readers
  <2>3. CASE ReconcileMirror
    BY <1>0, <2>3 DEF ReconcileMirror, Reading, ReaderOK, Readers
  <2>4. CASE ReconcileStarted
    BY <1>0, <2>4 DEF ReconcileStarted, Reading, ReaderOK, Readers, Resting
  <2> QED
    BY <1>2, <2>1, <2>2, <2>3, <2>4 DEF Copy
<1>3. CASE ReaderFails \/ Crash
  BY <1>0, <1>3 DEF ReaderFails, Crash, ReaderOK, Resting, Readers
<1>4. CASE \E r \in Requests : Ask(r) \/ Look(r) \/ Serve(r)
  BY <1>1, <1>4 DEF Ask, Look, Serve, Leave, Settle, Reenter, FindPending, Enqueue, EditPrice,
              Store, Enroll, Record, Mark, Delete, Confirm, NotEffective, StoreExit, Cancel
<1>5. CASE Poll \/ Tick \/ UNCHANGED vars
  BY <1>1, <1>5 DEF Poll, PollDue, PollNext, PollEnd, PollDeadline, PollFetch, PollPost,
                    PollBump, PollClose, Tick, vars
<1>6. CASE \E l \in Listings : Apply(l) \/ Suggest(l)
  BY <1>1, <1>6 DEF Apply, Suggest
<1> QED
  BY <1>2, <1>3, <1>4, <1>5, <1>6 DEF Next

\* Mercado Livre, and what may go wrong on the way to it.
LEMMA MeliTypes ==
    /\ Absent \in Offers /\ Candidate \in Offers /\ \A p \in Prices : Started(p) \in Offers
    /\ Exit \in Writes /\ Exit.op = "exit"
    /\ \A p \in Prices : Enter(p) \in Writes /\ Enter(p).op = "enter"
                         /\ Edit(p) \in Writes /\ Edit(p).op = "edit"
    /\ \A w \in Writes : /\ w.op \in {"enter", "edit", "exit"}
                         /\ w.op # "exit" => w.price \in Prices
                         /\ w.op = "exit" => w = Exit
  BY DEF Offers, Absent, Candidate, Started, Writes, Exit, Enter, Edit

MeliOK ==
    /\ offer \in [Listings -> Offers] /\ accepted \in [Listings -> SUBSET Writes]
    /\ faults \in 0..MaxFaults

LEMMA FaultOK ==
    ASSUME faults \in 0..MaxFaults, Fault
    PROVE  faults' \in 0..MaxFaults
  BY ParametersAssumption DEF Fault

LEMMA SendOK ==
    ASSUME MeliOK, NEW l \in Listings, NEW w \in Writes,
           Take(l, w) \/ Reached(l, w) \/ Lost(l, w) \/ Refuse
    PROVE  /\ MeliOK' /\ offer' = offer
           /\ accepted' = accepted \/ accepted' = [accepted EXCEPT ![l] = @ \cup {w}]
<1>1. offer' = offer
      /\ (accepted' = accepted \/ accepted' = [accepted EXCEPT ![l] = @ \cup {w}])
      /\ (faults' = faults \/ Fault)
  BY DEF Take, Reached, Lost, Refuse, meli
<1> QED
  BY <1>1, FaultOK DEF MeliOK

\* Which writes are sent.
LEMMA Sends ==
    ASSUME NEW r \in Requests
    PROVE  /\ Leave(r) \/ Delete(r) =>
                \/ Take(req[r].listing, Exit) \/ Reached(req[r].listing, Exit)
                \/ Lost(req[r].listing, Exit) \/ Refuse
           /\ Reenter(r) \/ Enroll(r) =>
                \/ Take(req[r].listing, Enter(req[r].price))
                \/ Reached(req[r].listing, Enter(req[r].price))
                \/ Lost(req[r].listing, Enter(req[r].price)) \/ Refuse
           /\ EditPrice(r) =>
                \/ Take(req[r].listing, Edit(req[r].price))
                \/ Reached(req[r].listing, Edit(req[r].price))
                \/ Lost(req[r].listing, Edit(req[r].price)) \/ Refuse
           /\ Confirm(r) =>
                \/ Take(req[r].listing, Exit) \/ Refuse
                \/ UNCHANGED meli /\ (UNCHANGED faults \/ Fault)
  BY DEF Leave, Delete, Reenter, Enroll, EditPrice, Confirm, Reads

\* The actions that leave Mercado Livre alone, faults aside.
LEMMA MeliMoves ==
    ASSUME [Next]_vars
    PROVE  \/ UNCHANGED meli /\ (UNCHANGED faults \/ Fault)
           \/ \E r \in Requests : \/ Leave(r) \/ Delete(r) \/ Reenter(r) \/ Enroll(r)
                                  \/ EditPrice(r) \/ Confirm(r)
           \/ PollPost
           \/ \E l \in Listings : Apply(l) \/ Suggest(l)
<1>1. CASE Poll
  BY <1>1 DEF Poll, PollDue, PollNext, PollEnd, PollDeadline, PollFetch, PollBump,
              PollClose, PollFails, Reads
<1>2. CASE \E r \in Requests : Ask(r) \/ Look(r) \/ Serve(r)
  BY <1>2 DEF Ask, Look, Serve, Settle, FindPending, Enqueue, Store, Record, Mark,
              NotEffective, StoreExit, Cancel
<1>3. CASE Copy \/ ReaderFails \/ Crash \/ Tick \/ UNCHANGED vars
  BY <1>3 DEF Copy, ReaderFails, Crash, Tick, ReaderStart, ReaderFetch, ReconcileMirror,
              ReconcileStarted, Reads, vars
<1> QED
  BY <1>1, <1>2, <1>3 DEF Next

LEMMA MeliStep ==
    ASSUME TypeOK, [Next]_vars
    PROVE  MeliOK'
<1>0. MeliOK /\ ReqOK
  BY DEF TypeOK, MeliOK
<1>1. CASE UNCHANGED meli /\ (UNCHANGED faults \/ Fault)
  BY <1>0, <1>1, FaultOK DEF MeliOK, meli
<1>2. ASSUME NEW r \in Requests,
             Leave(r) \/ Delete(r) \/ Reenter(r) \/ Enroll(r) \/ EditPrice(r) \/ Confirm(r)
      PROVE  MeliOK'
  <2>1. req[r].listing \in Listings
        /\ (Reenter(r) \/ Enroll(r) \/ EditPrice(r) => req[r].price \in Prices)
    BY <1>0, <1>2, ReqTypes DEF Leave, Delete, Reenter, Enroll, EditPrice, Confirm, Priced, Unpriced
  <2>2. CASE Leave(r) \/ Delete(r)
    BY <1>0, <2>1, <2>2, Sends, SendOK, MeliTypes
  <2>3. CASE Reenter(r) \/ Enroll(r)
    BY <1>0, <2>1, <2>3, Sends, SendOK, MeliTypes
  <2>4. CASE EditPrice(r)
    BY <1>0, <2>1, <2>4, Sends, SendOK, MeliTypes
  <2>5. CASE Confirm(r)
    BY <1>0, <1>1, <2>1, <2>5, Sends, SendOK, MeliTypes
  <2> QED
    BY <1>2, <2>2, <2>3, <2>4, <2>5
<1>3. CASE PollPost
  <2>1. poll.job \in 1..Len(poll.rows) /\ poll.rows \in Seq(Jobs)
    BY <1>3, PollTypes DEF PollPost, PollSteps, TypeOK, PollOK
  <2>2. Subject \in Listings /\ Polling.price \in Prices
    BY <2>1, JobTypes DEF Subject, Polling
  <2> QED
    BY <1>0, <1>3, <2>2, SendOK, MeliTypes DEF PollPost
<1>4. ASSUME NEW l \in Listings, Apply(l)
      PROVE  MeliOK'
  <2>1. PICK w \in accepted[l] :
          /\ accepted' = [accepted EXCEPT ![l] = @ \ {w}]
          /\ offer' = [offer EXCEPT ![l] =
               CASE w.op = "enter" -> Started(w.price)
                 [] w.op = "edit" -> IF @.status = "started" THEN Started(w.price) ELSE @
                 [] w.op = "exit" -> Absent]
    BY <1>4 DEF Apply
  <2>2. w \in Writes /\ accepted[l] \in SUBSET Writes /\ offer[l] \in Offers
    BY <1>0 DEF MeliOK
  <2>3. w.op \in {"enter", "edit", "exit"} /\ (w.op # "exit" => Started(w.price) \in Offers)
        /\ Absent \in Offers
    BY <2>2, MeliTypes
  <2>4. offer' \in [Listings -> Offers]
    BY <1>0, <2>1, <2>2, <2>3 DEF MeliOK
  <2>5. accepted' \in [Listings -> SUBSET Writes] /\ UNCHANGED faults
    BY <1>0, <1>4, <2>1, <2>2 DEF MeliOK, Apply
  <2> QED
    BY <1>0, <2>4, <2>5 DEF MeliOK
<1>5. ASSUME NEW l \in Listings, Suggest(l)
      PROVE  MeliOK'
  BY <1>0, <1>5, MeliTypes DEF Suggest, MeliOK
<1> QED
  BY <1>1, <1>2, <1>3, <1>4, <1>5, MeliMoves

LEMMA RowTypes ==
    /\ \A o \in Offers, e \in BOOLEAN : Row(o, e) \in Rows
    /\ \A row \in Rows, o \in Offers : Reconciled(row, o) \in Rows
<1>1. \A o \in Offers, e \in BOOLEAN : Row(o, e) \in Rows
  BY DEF Row, Offers, Rows
<1>2. \A row \in Rows : row.enrolled \in BOOLEAN
  BY DEF Rows
<1> QED
  BY <1>1, <1>2 DEF Reconciled

\* The actions that write to ml_promotions and ml_promo_decisions.
LEMMA CopyMoves ==
    ASSUME [Next]_vars
    PROVE  \/ UNCHANGED <<mirror, listed>> \/ ReconcileMirror \/ ReconcileStarted \/ PollClose
           \/ \E r \in Requests : Enqueue(r) \/ Store(r) \/ Record(r) \/ Mark(r) \/ StoreExit(r)
<1>1. CASE Poll
  BY <1>1 DEF Poll, PollDue, PollNext, PollEnd, PollDeadline, PollFetch, PollPost, PollBump,
              PollFails, db
<1>2. CASE \E r \in Requests : Ask(r) \/ Look(r) \/ Serve(r)
  BY <1>2 DEF Ask, Look, Serve, Leave, Settle, Reenter, FindPending, EditPrice, Enroll, Delete,
              Confirm, NotEffective, Cancel, db
<1>3. CASE Copy \/ ReaderFails \/ Crash \/ Tick \/ UNCHANGED vars
  BY <1>3 DEF Copy, ReaderFails, Crash, Tick, ReaderStart, ReaderFetch, db, vars
<1>4. CASE \E l \in Listings : Apply(l) \/ Suggest(l)
  BY <1>4 DEF Apply, Suggest, db
<1> QED
  BY <1>1, <1>2, <1>3, <1>4 DEF Next

LEMMA CopyStep ==
    ASSUME TypeOK, [Next]_vars
    PROVE  mirror' \in [Listings -> Rows] /\ listed' \in [Listings -> BOOLEAN]
<1>0. mirror \in [Listings -> Rows] /\ listed \in [Listings -> BOOLEAN] /\ ReqOK /\ ReaderOK
  BY DEF TypeOK
<1>1. CASE UNCHANGED <<mirror, listed>>
  BY <1>0, <1>1
<1>2. CASE ReconcileMirror
  <2>1. reader.listing \in Listings /\ reader.seen \in Offers
    BY <1>0, <1>2 DEF ReconcileMirror, ReaderOK, Readers
  <2>2. Reconciled(mirror[reader.listing], reader.seen) \in Rows
    BY <1>0, <2>1, RowTypes
  <2> QED
    BY <1>0, <1>2, <2>2 DEF ReconcileMirror
<1>3. CASE ReconcileStarted
  BY <1>0, <1>3 DEF ReconcileStarted
<1>4. CASE PollClose
  <2>1. mirror' = mirror
    BY <1>4 DEF PollClose, PollFails, db
  <2>2. listed' = listed
        \/ listed' = [listed EXCEPT ![Subject] = listed[Subject] \/ poll.step = "restore"]
    BY <1>4 DEF PollClose, PollFails, db
  <2>3. CASE listed' = listed
    BY <1>0, <2>1, <2>3
  <2>4. CASE listed' = [listed EXCEPT ![Subject] = listed[Subject] \/ poll.step = "restore"]
    <3>1. (listed[Subject] \/ poll.step = "restore") \in BOOLEAN
      OBVIOUS
    <3> QED
      BY <1>0, <2>1, <2>4, <3>1
  <2> QED
    BY <2>2, <2>3, <2>4
<1>5. ASSUME NEW r \in Requests,
             Enqueue(r) \/ Store(r) \/ Record(r) \/ Mark(r) \/ StoreExit(r)
      PROVE  mirror' \in [Listings -> Rows] /\ listed' \in [Listings -> BOOLEAN]
  <2>1. Store(r) \/ Mark(r) => Row(Started(req[r].price), TRUE) \in Rows
    BY <1>0, ReqTypes, RowTypes, MeliTypes DEF Store, Mark, Priced
  <2>2. Row(Candidate, FALSE) \in Rows
    BY RowTypes, MeliTypes
  <2> QED
    BY <1>0, <1>5, <2>1, <2>2 DEF Enqueue, Store, Record, Mark, StoreExit
<1> QED
  BY <1>1, <1>2, <1>3, <1>4, <1>5, CopyMoves

\* What operators are told, and what goes wrong unseen.
LEMMA ToldMoves ==
    ASSUME [Next]_vars
    PROVE  \/ UNCHANGED told \/ (\E l : Tell(l)) \/ \E r \in Requests : Ask(r)
<1>1. CASE Poll
  BY <1>1 DEF Poll, PollDue, PollNext, PollEnd, PollDeadline, PollFetch, PollPost, PollBump,
              PollClose, PollFails
<1>2. CASE \E r \in Requests : Ask(r) \/ Look(r) \/ Serve(r)
  BY <1>2, ZenonT(30) DEF Look, Serve, Leave, Settle, Reenter, FindPending, Enqueue, EditPrice, Store,
              Enroll, Record, Mark, Delete, Confirm, NotEffective, StoreExit, Cancel, Answer
<1>3. CASE Copy \/ ReaderFails \/ Crash \/ Tick \/ UNCHANGED vars
  BY <1>3 DEF Copy, ReaderFails, Crash, Tick, ReaderStart, ReaderFetch, ReconcileMirror,
              ReconcileStarted, vars
<1>4. CASE \E l \in Listings : Apply(l) \/ Suggest(l)
  BY <1>4 DEF Apply, Suggest
<1> QED
  BY <1>1, <1>2, <1>3, <1>4 DEF Next

Lapses == {"transport", "crash", "race"}

LEMMA LapsedMoves ==
    ASSUME [Next]_vars
    PROVE  \/ UNCHANGED lapsed \/ \E l, w : Unseen(l, w) /\ w \in Lapses
           \/ Crash
<1>1. CASE Poll
  BY <1>1 DEF Poll, PollDue, PollNext, PollEnd, PollDeadline, PollFetch, PollPost, PollBump,
              PollClose, Lapses
<1>2. CASE \E r \in Requests : Ask(r) \/ Look(r) \/ Serve(r)
  BY <1>2, ZenonT(30) DEF Ask, Look, Serve, Leave, Settle, Reenter, FindPending, Enqueue, EditPrice, Store,
              Enroll, Record, Mark, Delete, Confirm, NotEffective, StoreExit, Cancel, Lapses
<1>3. CASE Copy \/ ReaderFails \/ Tick \/ UNCHANGED vars
  BY <1>3 DEF Copy, ReaderFails, Tick, ReaderStart, ReaderFetch, ReconcileMirror,
              ReconcileStarted, vars
<1>4. CASE \E l \in Listings : Apply(l) \/ Suggest(l)
  BY <1>4 DEF Apply, Suggest
<1> QED
  BY <1>1, <1>2, <1>3, <1>4 DEF Next

LEMMA ToldStep ==
    ASSUME TypeOK, [Next]_vars
    PROVE  /\ told' \in [Listings -> BOOLEAN]
           /\ lapsed' \in [Listings -> SUBSET Lapses]
           /\ \A l \in Listings : lapsed[l] \subseteq lapsed'[l]
<1>0. told \in [Listings -> BOOLEAN] /\ lapsed \in [Listings -> SUBSET Lapses]
  BY DEF TypeOK, Lapses
<1>1. told' \in [Listings -> BOOLEAN]
  <2>1. ASSUME NEW r \in Requests, Ask(r)
        PROVE  told' \in [Listings -> BOOLEAN]
    BY <1>0, <2>1, AskMoves
  <2> QED
    BY <1>0, <2>1, ToldMoves DEF Tell
<1>2. CASE UNCHANGED lapsed
  BY <1>0, <1>1, <1>2
<1>3. ASSUME NEW l, NEW w \in Lapses, Unseen(l, w)
      PROVE  /\ lapsed' \in [Listings -> SUBSET Lapses]
             /\ \A k \in Listings : lapsed[k] \subseteq lapsed'[k]
  BY <1>0, <1>3 DEF Unseen
<1>4. CASE Crash
  BY <1>0, <1>4 DEF Crash, Lapses
<1> QED
  BY <1>1, <1>2, <1>3, <1>4, LapsedMoves

LEMMA TypeStep == TypeOK /\ [Next]_vars => TypeOK'
  BY JobsStep, ReqStep, PollStep, ReaderStep, MeliStep, CopyStep, ToldStep
     DEF TypeOK, MeliOK, Lapses

LEMMA TypeInit == Init => TypeOK
<1> SUFFICES ASSUME Init PROVE TypeOK
  OBVIOUS
<1>1. offer \in [Listings -> Offers]
  BY MeliTypes DEF Init
<1>2. ReqOK
  BY WaitingFields, StepNames DEF Init, ReqOK, None
<1>3. PollOK
  BY IdleFields DEF Init, PollOK, PollSteps
<1>4. ReaderOK
  BY MeliTypes DEF Init, ReaderOK, Resting, Readers
<1>5. jobs \in Seq(Jobs) /\ faults \in 0..MaxFaults
  BY ParametersAssumption DEF Init
<1> QED
  BY <1>1, <1>2, <1>3, <1>4, <1>5 DEF Init, TypeOK

\* Every variable keeps its type: in particular what the poller holds and what the
\* requests found are rows of the table.
THEOREM TypeCorrect == Spec => []TypeOK
  BY TypeInit, TypeStep, PTL DEF Spec

---------------------------------------------------------------------------
(* A row keeps its listing                                                 *)

\* What the poller loaded and what requests found are rows of the listing they are for.
Linked ==
    /\ \A j \in 1..Len(poll.rows) : poll.rows[j].listing = jobs[j].listing
    /\ \A r \in Requests : req[r].job # None => jobs[req[r].job].listing = req[r].listing

LEMMA PollHolds ==
    ASSUME TypeOK, poll.step \in PollSteps
    PROVE  /\ poll.job \in 1..Len(poll.rows) /\ poll.job \in 1..Len(jobs)
           /\ jobs[poll.job] \in Jobs /\ Polling \in Jobs /\ poll.rows[poll.job] = Polling
           /\ poll.job \notin poll.due
<1>1. poll.job \in 1..Len(poll.rows) /\ poll.rows \in Seq(Jobs) /\ Len(poll.rows) <= Len(jobs)
      /\ poll.job \notin poll.due /\ jobs \in Seq(Jobs)
  BY PollTypes DEF TypeOK, PollOK
<1>2. poll.job \in 1..Len(jobs)
  BY <1>1
<1> QED
  BY <1>1, <1>2 DEF Polling

\* What happens to the row the poller works on.
LEMMA PollWrites ==
    ASSUME TypeOK, PollDeadline \/ PollClose \/ PollBump
    PROVE  /\ poll.step \in PollSteps
           /\ \/ UNCHANGED <<jobs, told>> /\ poll' = Idle
              \/ /\ poll' = Handling(poll, "next", None)
                 /\ PollDeadline /\ Tell(Subject)
                 /\ jobs' = [jobs EXCEPT ![poll.job] = Ended(jobs[poll.job], "failed")]
              \/ /\ poll' = Handling(poll, "next", None)
                 /\ PollClose /\ UNCHANGED told
                 /\ jobs' = [jobs EXCEPT ![poll.job] = Ended(jobs[poll.job], "done")]
              \/ /\ poll' = Handling(poll, "next", None) /\ PollBump
                 /\ \E s \in {"failed", jobs[poll.job].status} :
                      /\ jobs' = [jobs EXCEPT ![poll.job] =
                           Bumped(jobs[poll.job], Polling.attempts + 1,
                                  IF poll.late THEN 0 ELSE 1, s)]
                      /\ IF Polling.attempts + 1 >= MaxAttempts
                           THEN s = "failed" /\ (poll.step = "wait" => Tell(Subject))
                           ELSE s = jobs[poll.job].status /\ UNCHANGED told
  BY DEF PollDeadline, PollClose, PollBump, PollFails, Ends, NextJob, PollSteps, db

LEMMA ListingStep ==
    ASSUME TypeOK, Linked, [Next]_vars
    PROVE  \A i \in 1..Len(jobs) : jobs'[i].listing = jobs[i].listing
<1>0. jobs \in Seq(Jobs) /\ Len(jobs) \in Nat /\ ReqOK /\ \A i \in 1..Len(jobs) : jobs[i] \in Jobs
  BY DEF TypeOK
<1>1. CASE UNCHANGED jobs
  BY <1>1
<1>2. ASSUME NEW r \in Requests, Enqueue(r)
      PROVE  \A i \in 1..Len(jobs) : jobs'[i].listing = jobs[i].listing
  <2> DEFINE l == req[r].listing   j == req[r].job   new == NewJob(l, req[r].price)
  <2>1. l \in Listings /\ req[r].price \in Prices /\ j \in Nat /\ j <= Len(jobs)
    BY <1>0, <1>2, ReqTypes DEF Enqueue, Priced
  <2>2. new \in Jobs /\ new.listing = l
    BY <2>1, NewJobFields
  <2>3. CASE j # None /\ jobs' = [jobs EXCEPT ![j] = Ended(new, jobs[j].status)]
    <3>1. j \in 1..Len(jobs) /\ jobs[j].listing = l
      BY <2>1, <2>3, <1>0 DEF None, Linked
    <3>2. Ended(new, jobs[j].status).listing = l
      BY <1>0, <2>2, <3>1, EndedFields, JobTypes
    <3> QED
      BY <1>0, <2>3, <3>1, <3>2
  <2>4. CASE jobs' = Append(jobs, new)
    BY <1>0, <2>2, <2>4
  <2> QED
    BY <1>1, <1>2, <2>3, <2>4 DEF Enqueue
<1>3. ASSUME NEW r \in Requests, Cancel(r)
      PROVE  \A i \in 1..Len(jobs) : jobs'[i].listing = jobs[i].listing
  <2>1. req[r].job \in 1..Len(jobs)
    BY <1>3, <1>0, ReqTypes DEF Cancel, None
  <2>2. Ended(jobs[req[r].job], "cancelled").listing = jobs[req[r].job].listing
    BY <1>0, <2>1, EndedFields DEF Statuses
  <2> QED
    BY <1>0, <1>1, <1>3, <2>1, <2>2 DEF Cancel
<1>4. CASE PollDeadline \/ PollClose \/ PollBump
  <2> DEFINE j == poll.job
  <2>1. j \in 1..Len(jobs) /\ jobs[j] \in Jobs /\ Polling \in Jobs
    BY <1>4, PollWrites, PollHolds
  <2>2. \A s \in {"failed", "done"} : Ended(jobs[j], s).listing = jobs[j].listing
    BY <2>1, EndedFields DEF Statuses
  <2> DEFINE n == Polling.attempts + 1   w == IF poll.late THEN 0 ELSE 1
  <2>3. ASSUME NEW s \in {"failed", jobs[j].status}
        PROVE  Bumped(jobs[j], n, w, s).listing = jobs[j].listing
    <3>1. n \in Nat /\ w \in Flags /\ s \in Statuses
      BY <2>1, JobTypes DEF Statuses, Flags
    <3> HIDE DEF n, w
    <3> QED
      BY <2>1, <3>1, BumpedFields
  <2>4. \/ UNCHANGED jobs
        \/ \E m : m.listing = jobs[j].listing /\ jobs' = [jobs EXCEPT ![j] = m]
    BY <1>4, <2>2, <2>3, PollWrites
  <2> QED
    BY <1>0, <1>1, <2>1, <2>4
<1>5. CASE Tick
  BY <1>0, <1>5, OlderFields DEF Tick
<1> QED
  BY <1>1, <1>2, <1>3, <1>4, <1>5, JobsMoves

\* A request goes on with the row it found, or has just found one.
LEMMA FoundStep ==
    ASSUME TypeOK, [Next]_vars, NEW r \in Requests, req'[r].job # None
    PROVE  \/ req'[r].job = req[r].job /\ req'[r].listing = req[r].listing
           \/ req'[r].job \in Pending(req'[r].listing)
<1>0. ReqOK /\ req[r] \in Reqs /\ \A q \in Requests : req[q] \in Reqs
  BY ReqTypes DEF TypeOK
<1> DEFINE Kept == req'[r].job = req[r].job /\ req'[r].listing = req[r].listing
<1>1. CASE UNCHANGED req
  BY <1>1
<1>2. ASSUME NEW q \in Requests, NEW s \in AllSteps, Goes(q, s)
      PROVE  Kept
  <2>1. At(req[q], s).job = req[q].job /\ At(req[q], s).listing = req[q].listing
    BY <1>0, <1>2, AtFields
  <2> QED
    BY <1>0, <1>2, <2>1 DEF Goes, ReqOK
<1>3. ASSUME NEW q \in Requests, Over(q)
      PROVE  Kept
  BY <1>0, <1>3, WaitingFields DEF Over, ReqOK
<1>4. ASSUME NEW q \in Requests, FindPending(q)
      PROVE  Kept \/ req'[r].job \in Pending(req'[r].listing)
  <2>1. CASE Goes(q, "enqueue")
    BY <1>2, <2>1 DEF AllSteps, Priced
  <2>2. ASSUME NEW j \in Pending(req[q].listing),
               req' = [req EXCEPT ![q] = With(At(req[q], "enqueue"), j)]
        PROVE  Kept \/ req'[r].job \in Pending(req'[r].listing)
    <3>1. "enqueue" \in AllSteps /\ j \in Nat
      BY DEF AllSteps, Priced, Pending
    <3>2. At(req[q], "enqueue") \in Reqs /\ At(req[q], "enqueue").listing = req[q].listing
      BY <1>0, <3>1, AtFields
    <3>3. With(At(req[q], "enqueue"), j).job = j
          /\ With(At(req[q], "enqueue"), j).listing = req[q].listing
      BY <3>1, <3>2, WithFields
    <3> QED
      BY <1>0, <2>2, <3>3 DEF ReqOK
  <2> QED
    BY <1>4, <2>1, <2>2 DEF FindPending
<1>5. ASSUME NEW q \in Requests, Confirm(q)
      PROVE  Kept
  <2>1. PICK c \in {0, req[q].clean, req[q].clean + 1}, s \in {"confirm", "exit"} :
          req' = [req EXCEPT ![q] = Counted(At(req[q], s), c, req[q].tries + 1)]
    BY <1>5, ConfirmMoves
  <2>2. s \in AllSteps /\ c \in Nat /\ req[q].tries + 1 \in Nat
    BY <1>0, <2>1 DEF Reqs, AllSteps, Unpriced
  <2>3. At(req[q], s) \in Reqs /\ At(req[q], s).job = req[q].job
        /\ At(req[q], s).listing = req[q].listing
    BY <1>0, <2>2, AtFields
  <2>4. /\ Counted(At(req[q], s), c, req[q].tries + 1).job = req[q].job
        /\ Counted(At(req[q], s), c, req[q].tries + 1).listing = req[q].listing
    BY <2>2, <2>3, CountedFields
  <2> QED
    BY <1>0, <2>1, <2>4 DEF ReqOK
<1>6. ASSUME NEW q \in Requests, Serve(q)
      PROVE  Kept \/ req'[r].job \in Pending(req'[r].listing)
  <2>1. {"settle", "enter", "store", "find", "again", "record", "mark", "confirm"}
          \subseteq AllSteps
    BY DEF AllSteps, Priced, Unpriced
  <2> QED
    BY <1>2, <1>3, <1>4, <1>5, <1>6, <2>1, ServeMoves DEF Serve
<1>7. ASSUME NEW q \in Requests, Ask(q)
      PROVE  Kept
  <2>1. PICK l \in Listings : \E p \in Prices \cup {None},
               s \in {"leave", "edit", "enroll", "delete"} :
             req' = [req EXCEPT ![q] = Wanted(s, l, p)]
    BY <1>7, AskMoves
  <2>2. PICK p \in Prices \cup {None}, s \in {"leave", "edit", "enroll", "delete"} :
             req' = [req EXCEPT ![q] = Wanted(s, l, p)]
    BY <2>1
  <2>3. s \in AllSteps
    BY <2>2 DEF AllSteps, Priced, Unpriced
  <2>4. Wanted(s, l, p).job = None
    BY <2>3, WantedFields
  <2> QED
    BY <1>0, <2>2, <2>4 DEF ReqOK
<1>8. ASSUME NEW q \in Requests, Look(q)
      PROVE  Kept \/ req'[r].job \in Pending(req'[r].listing)
  <2>1. PICK l \in Listings : \E j \in Pending(l) :
             req' = [req EXCEPT ![q] = With(Wanted("cancel", l, None), j)]
    BY <1>8, LookMoves
  <2>2. PICK j \in Pending(l) : req' = [req EXCEPT ![q] = With(Wanted("cancel", l, None), j)]
    BY <2>1
  <2>3. "cancel" \in AllSteps /\ j \in Nat
    BY DEF AllSteps, Unpriced, Pending
  <2>4. Wanted("cancel", l, None) \in Reqs /\ Wanted("cancel", l, None).listing = l
    BY <2>3, WantedFields
  <2>5. With(Wanted("cancel", l, None), j).job = j
        /\ With(Wanted("cancel", l, None), j).listing = l
    BY <2>3, <2>4, WithFields
  <2> QED
    BY <1>0, <2>2, <2>5 DEF ReqOK
<1>9. CASE Crash
  BY <1>0, <1>9, WaitingFields DEF Crash
<1>10. CASE Poll
  BY <1>1, <1>10 DEF Poll, PollDue, PollNext, PollEnd, PollDeadline, PollFetch, PollPost,
                     PollBump, PollClose
<1>11. CASE Copy \/ ReaderFails \/ Tick \/ UNCHANGED vars
  BY <1>1, <1>11 DEF Copy, ReaderStart, ReaderFetch, ReconcileMirror, ReconcileStarted,
                     ReaderFails, Tick, vars
<1>12. CASE \E l \in Listings : Apply(l) \/ Suggest(l)
  BY <1>1, <1>12 DEF Apply, Suggest
<1> QED
  BY <1>6, <1>7, <1>8, <1>9, <1>10, <1>11, <1>12 DEF Next

LEMMA LinkStep == TypeOK /\ Linked /\ [Next]_vars => Linked'
<1> SUFFICES ASSUME TypeOK, Linked, [Next]_vars PROVE Linked'
  OBVIOUS
<1>0. /\ jobs \in Seq(Jobs) /\ ReqOK /\ PollOK /\ poll \in Polls /\ TypeOK'
      /\ Len(poll.rows) \in Nat /\ Len(jobs) \in Nat /\ Len(poll.rows) <= Len(jobs)
  BY TypeStep, PollTypes DEF TypeOK, PollOK
<1>1. \A i \in 1..Len(jobs) : jobs'[i].listing = jobs[i].listing
  BY ListingStep
<1>2. \A j \in 1..Len(poll'.rows) : poll'.rows[j].listing = jobs'[j].listing
  <2>1. CASE poll'.rows = poll.rows
    BY <1>0, <1>1, <2>1 DEF Linked
  <2>2. CASE poll'.rows = <<>>
    BY <2>2
  <2>3. CASE PollDue
    <3> DEFINE ripe == {j \in 1..Len(jobs) : Due(j)}
    <3>0. poll' = Loaded(jobs, ripe) /\ ripe \in SUBSET Nat
      BY <1>0, <2>3 DEF PollDue
    <3> HIDE DEF ripe
    <3>1. poll'.rows = jobs
      BY <1>0, <3>0, LoadedFields
    <3> QED
      BY <1>0, <1>1, <3>1
  <2>4. PollNext => poll'.rows = poll.rows
    <3>1. SUFFICES ASSUME PollNext PROVE poll'.rows = poll.rows
      OBVIOUS
    <3>2. PICK j \in poll.due : poll' = Handling(poll, "fetch", j)
      BY <3>1 DEF PollNext
    <3>3. "fetch" \in AllPollSteps /\ j \in Nat
      BY <1>0, <3>2 DEF AllPollSteps, PollSteps, PollOK
    <3> QED
      BY <1>0, <3>2, <3>3, HandlingFields
  <2>5. Tick => poll'.rows = poll.rows
    BY <1>0, DelayedFields DEF Tick
  <2>6. poll' = Handling(poll, "next", None) => poll'.rows = poll.rows
    BY <1>0, HandlingFields DEF AllPollSteps, None
  <2>7. ASSUME NEW s \in PollSteps, poll' = Handling(poll, s, poll.job)
        PROVE  poll'.rows = poll.rows
    <3>1. s \in AllPollSteps /\ poll.job \in Nat
      BY <1>0, PollTypes DEF AllPollSteps
    <3> QED
      BY <1>0, <2>7, <3>1, HandlingFields, SMTT(30)
  <2> QED
    BY <2>1, <2>2, <2>3, <2>4, <2>5, <2>6, <2>7, IdleFields, PollMoves
<1>3. ASSUME NEW r \in Requests, req'[r].job # None
      PROVE  jobs'[req'[r].job].listing = req'[r].listing
  <2>1. CASE req'[r].job = req[r].job /\ req'[r].listing = req[r].listing
    <3>1. req[r].job \in 1..Len(jobs) /\ jobs[req[r].job].listing = req[r].listing
      BY <1>0, <1>3, <2>1, ReqTypes DEF Linked, None
    <3> QED
      BY <1>1, <2>1, <3>1
  <2>2. CASE req'[r].job \in Pending(req'[r].listing)
    BY <1>1, <2>2 DEF Pending
  <2> QED
    BY <1>3, <2>1, <2>2, FoundStep
<1> QED
  BY <1>2, <1>3 DEF Linked

---------------------------------------------------------------------------
(* Attempts                                                                *)

Raced(j) == "race" \in lapsed[jobs[j].listing]

\* Each interval up to the deadline holds one attempt at most.
WithinBudget(job) ==
    /\ job.attempts <= DeadlineAfter + 1
    /\ job.status = "pending" /\ job.wait = 0 => job.attempts + job.left <= DeadlineAfter
    /\ job.status = "pending" /\ job.wait = 1 =>
         job.left >= 1 /\ job.attempts + job.left <= DeadlineAfter + 1

\* What the poller loaded of a job is what the row is, but for the time since then.
Snapshot(row, job, late) ==
    /\ row.attempts = job.attempts /\ row.attempts + row.left <= DeadlineAfter
    /\ job.status = "pending" /\ ~late => job.left = row.left
    /\ job.status = "pending" /\ late => job.left = 0 \/ job.left < row.left

InBudget == \A j \in 1..Len(jobs) :
    ~Raced(j) => /\ WithinBudget(jobs[j])
                 /\ Held(j) => Snapshot(poll.rows[j], jobs[j], poll.late)

\* Past its deadline a job is not attempted.
InTime == poll.step \in {"post", "wait", "error"} => Polling.left > 0

LEMMA OlderBudget ==
    ASSUME NEW job \in Jobs, NEW row \in Jobs, NEW late \in BOOLEAN
    PROVE  /\ WithinBudget(job) => WithinBudget(Older(job))
           /\ Snapshot(row, job, late) => Snapshot(row, Older(job), TRUE)
<1>1. /\ job.attempts \in Nat /\ job.left \in Nat /\ job.wait \in {0, 1} /\ row.left \in Nat
      /\ row.attempts \in Nat /\ DeadlineAfter \in Nat
  BY JobTypes, ParametersAssumption
<1>2. CASE job.status # "pending"
  BY <1>2, OlderFields DEF WithinBudget, Snapshot
<1>3. CASE job.status = "pending"
  <2> DEFINE old == Older(job)
  <2>1. /\ old.status = "pending" /\ old.attempts = job.attempts /\ old.wait = 0
        /\ old.left = IF job.left = 0 THEN 0 ELSE job.left - 1
    BY <1>3, OlderFields
  <2> HIDE DEF old
  <2>2. WithinBudget(job) => WithinBudget(old)
    BY <1>1, <1>3, <2>1 DEF WithinBudget
  <2>3. Snapshot(row, job, late) => Snapshot(row, old, TRUE)
    BY <1>1, <1>3, <2>1 DEF Snapshot
  <2> QED
    BY <2>2, <2>3 DEF old
<1> QED
  BY <1>2, <1>3

LEMMA BumpedBudget ==
    ASSUME NEW job \in Jobs, NEW row \in Jobs, NEW late \in BOOLEAN, NEW s \in Statuses,
           Snapshot(row, job, late), row.left > 0, s = "pending" => job.status = "pending"
    PROVE  /\ WithinBudget(Bumped(job, row.attempts + 1, IF late THEN 0 ELSE 1, s))
           /\ row.attempts + 1 < MaxAttempts
<1>1. /\ job.attempts \in Nat /\ job.left \in Nat /\ row.left \in Nat
      /\ row.attempts \in Nat /\ DeadlineAfter \in Nat
  BY JobTypes, ParametersAssumption
<1>2. row.attempts + 1 <= DeadlineAfter /\ row.attempts + row.left <= DeadlineAfter
  BY <1>1 DEF Snapshot
<1> DEFINE n == row.attempts + 1   w == IF late THEN 0 ELSE 1   new == Bumped(job, n, w, s)
<1>3. n \in Nat /\ w \in Flags
  BY <1>1 DEF Flags
<1>4. new.attempts = n /\ new.wait = w /\ new.status = s /\ new.left = job.left
  <2> HIDE DEF n, w
  <2> QED
    BY <1>3, BumpedFields
<1> HIDE DEF new
<1>5. WithinBudget(new)
  <2>1. CASE s # "pending"
    BY <1>1, <1>2, <1>4, <2>1 DEF WithinBudget
  <2>2. CASE s = "pending" /\ late
    BY <1>1, <1>2, <1>4, <2>2 DEF WithinBudget, Snapshot
  <2>3. CASE s = "pending" /\ ~late
    BY <1>1, <1>2, <1>4, <2>3 DEF WithinBudget, Snapshot
  <2> QED
    BY <2>1, <2>2, <2>3
<1> QED
  BY <1>1, <1>2, <1>5 DEF new, MaxAttempts

LEMMA EndedBudget ==
    ASSUME NEW job \in Jobs, NEW row \in Jobs, NEW late \in BOOLEAN,
           NEW s \in Statuses \ {"pending"}
    PROVE  /\ WithinBudget(job) => WithinBudget(Ended(job, s))
           /\ Snapshot(row, job, late) => Snapshot(row, Ended(job, s), late)
  BY EndedFields DEF WithinBudget, Snapshot

LEMMA NewBudget ==
    ASSUME NEW l \in Listings, NEW p \in Prices, NEW s \in Statuses
    PROVE  WithinBudget(NewJob(l, p)) /\ WithinBudget(Ended(NewJob(l, p), s))
<1> DEFINE new == NewJob(l, p)
<1>1. new \in Jobs /\ new.attempts = 0 /\ new.wait = 0 /\ new.left = DeadlineAfter
      /\ DeadlineAfter \in Nat
  BY NewJobFields, ParametersAssumption
<1> HIDE DEF new
<1>2. Ended(new, s).attempts = 0 /\ Ended(new, s).wait = 0 /\ Ended(new, s).left = DeadlineAfter
  BY <1>1, EndedFields
<1>3. WithinBudget(new) /\ WithinBudget(Ended(new, s))
  BY <1>1, <1>2 DEF WithinBudget
<1> QED
  BY <1>3 DEF new

\* What the poller holds of its rows can only become less.
LEMMA HeldMoves ==
    ASSUME TypeOK, [Next]_vars, ~PollDue, ~Tick, NEW j \in Nat \ {None}, Held(j)'
    PROVE  Held(j) /\ poll'.rows = poll.rows /\ poll'.late = poll.late
<1>0. poll \in Polls /\ PollOK /\ poll.job \in Nat /\ poll.due \subseteq Nat
  BY PollTypes DEF TypeOK, PollOK
<1>1. CASE UNCHANGED poll
  BY <1>1 DEF Held
<1>2. CASE PollNext
  <2>1. PICK i \in poll.due : poll' = Handling(poll, "fetch", i)
    BY <1>2 DEF PollNext
  <2>2. i \in Nat /\ "fetch" \in AllPollSteps
    BY <1>0, <2>1 DEF AllPollSteps, PollSteps
  <2> QED
    BY <1>0, <1>2, <2>1, <2>2, HandlingFields DEF Held, PollNext
<1>3. CASE poll' = Idle
  BY <1>3, IdleFields DEF Held
<1>4. CASE poll' = Handling(poll, "next", None) /\ poll.step \in PollSteps
  <2>1. None \in Nat /\ "next" \in AllPollSteps /\ poll.step # "idle" /\ None # j
    BY <1>4 DEF None, AllPollSteps, PollSteps
  <2>2. poll'.rows = poll.rows /\ poll'.late = poll.late /\ poll'.job = None
        /\ poll'.due \subseteq poll.due
    BY <1>0, <1>4, <2>1, HandlingFields
  <2> QED
    BY <2>1, <2>2 DEF Held
<1>5. ASSUME PollFetch \/ PollPost, NEW s \in PollSteps, poll' = Handling(poll, s, poll.job)
      PROVE  Held(j) /\ poll'.rows = poll.rows /\ poll'.late = poll.late
  <2>1. s \in AllPollSteps /\ poll.step # "idle"
    BY <1>5 DEF AllPollSteps, PollFetch, PollPost
  <2>2. poll'.rows = poll.rows /\ poll'.late = poll.late /\ poll'.job = poll.job
        /\ poll'.due \subseteq poll.due
    BY <1>0, <1>5, <2>1, HandlingFields
  <2> QED
    BY <2>1, <2>2 DEF Held
<1> QED
  BY <1>1, <1>2, <1>3, <1>4, <1>5, PollMoves

LEMMA BudgetStep == TypeOK /\ Linked /\ InBudget /\ InTime /\ [Next]_vars => InBudget'
<1> SUFFICES ASSUME TypeOK, Linked, InBudget, InTime, [Next]_vars,
                    NEW j \in 1..Len(jobs'), ~Raced(j)'
             PROVE  WithinBudget(jobs'[j])
                    /\ (Held(j)' => Snapshot(poll'.rows[j], jobs'[j], poll'.late))
  BY DEF InBudget
<1>0. /\ jobs \in Seq(Jobs) /\ jobs' \in Seq(Jobs) /\ Len(jobs) \in Nat /\ TypeOK'
      /\ j \in Nat \ {None} /\ PollOK /\ PollOK' /\ poll \in Polls /\ ReqOK
      /\ poll.rows \in Seq(Jobs) /\ Len(poll.rows) \in Nat /\ poll.late \in BOOLEAN
      /\ Len(poll.rows) <= Len(jobs) /\ Len(jobs) <= Len(jobs')
  BY TypeStep, JobsStep, PollTypes DEF TypeOK, PollOK, None
<1>1. Held(j) => j \in 1..Len(poll.rows) /\ j \in 1..Len(jobs) /\ poll.rows[j] \in Jobs
  BY <1>0 DEF Held, PollOK, PollSteps, Polls, None
<1>2. j \in 1..Len(jobs) => /\ jobs[j] \in Jobs /\ WithinBudget(jobs[j])
                            /\ Held(j) => Snapshot(poll.rows[j], jobs[j], poll.late)
  <2>1. SUFFICES ASSUME j \in 1..Len(jobs) PROVE jobs[j] \in Jobs /\ ~Raced(j)
    BY <2>1 DEF InBudget
  <2>2. jobs[j] \in Jobs /\ jobs'[j].listing = jobs[j].listing /\ jobs[j].listing \in Listings
    BY <1>0, <2>1, ListingStep, JobTypes
  <2>3. lapsed[jobs[j].listing] \subseteq lapsed'[jobs[j].listing]
    BY <2>2, ToldStep
  <2> QED
    BY <2>2, <2>3 DEF Raced
<1>3. CASE UNCHANGED jobs /\ ~PollDue /\ ~Tick
  BY <1>0, <1>2, <1>3, HeldMoves
<1>4. CASE PollDue
  <2> DEFINE ripe == {i \in 1..Len(jobs) : Due(i)}
  <2>1. poll' = Loaded(jobs, ripe) /\ UNCHANGED jobs /\ ripe \in SUBSET Nat
    BY <1>4 DEF PollDue, db
  <2> HIDE DEF ripe
  <2>2. poll'.rows = jobs /\ poll'.due = ripe /\ poll'.job = None /\ poll'.late = FALSE
    BY <1>0, <2>1, LoadedFields
  <2>3. j \in ripe => Snapshot(jobs[j], jobs[j], FALSE)
    BY <1>0, <1>2 DEF ripe, Due, WithinBudget, Snapshot
  <2> QED
    BY <1>0, <1>2, <2>1, <2>2, <2>3 DEF Held
<1>5. CASE Tick
  <2>1. jobs' = [i \in 1..Len(jobs) |-> Older(jobs[i])] /\ poll' = Delayed(poll)
    BY <1>5 DEF Tick
  <2>2. j \in 1..Len(jobs) /\ jobs'[j] = Older(jobs[j]) /\ jobs[j] \in Jobs
    BY <1>0, <2>1
  <2>3. poll'.rows = poll.rows /\ poll'.late = (poll.step # "idle") /\ Held(j)' = Held(j)
    BY <1>0, <2>1, DelayedFields DEF Held
  <2>4. WithinBudget(jobs'[j])
    BY <1>0, <1>2, <2>2, OlderBudget
  <2>5. ASSUME Held(j)
        PROVE  Snapshot(poll'.rows[j], jobs'[j], poll'.late)
    <3>1. poll'.late = TRUE
      BY <2>3, <2>5 DEF Held
    <3>2. Snapshot(poll.rows[j], jobs[j], poll.late) /\ poll.rows[j] \in Jobs
      BY <1>1, <1>2, <2>2, <2>5
    <3>3. Snapshot(poll.rows[j], Older(jobs[j]), TRUE)
      BY <1>0, <2>2, <3>2, OlderBudget
    <3> QED
      BY <2>2, <2>3, <3>1, <3>3
  <2> QED
    BY <2>3, <2>4, <2>5
<1>6. CASE PollDeadline \/ PollClose \/ PollBump
  <2>1. /\ poll.job \in 1..Len(poll.rows) /\ poll.job \in 1..Len(jobs) /\ jobs[poll.job] \in Jobs
        /\ Polling \in Jobs /\ poll.rows[poll.job] = Polling /\ poll.job \notin poll.due
        /\ poll.step \in PollSteps /\ poll.step # "idle" /\ poll.job \in Nat
    BY <1>0, <1>6, PollWrites, PollHolds DEF PollSteps
  <2>2. Held(poll.job)
    BY <2>1 DEF Held
  <2>3. ~PollDue /\ ~Tick
    <3>1. Handling(poll, "next", None).step = "next"
      BY <1>0, NextFields
    <3>2. poll' = Idle \/ poll' = Handling(poll, "next", None)
      BY <1>6, PollWrites
    <3>3. Delayed(poll).step = poll.step
      BY <1>0, DelayedFields
    <3> QED
      BY <2>1, <3>1, <3>2, <3>3, IdleFields DEF PollDue, PollSteps, Tick
  <2>4. ASSUME NEW n, jobs' = [jobs EXCEPT ![poll.job] = n], j # poll.job
        PROVE  WithinBudget(jobs'[j])
               /\ (Held(j)' => Snapshot(poll'.rows[j], jobs'[j], poll'.late))
    <3>1. j \in 1..Len(jobs) /\ jobs'[j] = jobs[j]
      BY <1>0, <2>4
    <3> QED
      BY <1>0, <1>2, <2>3, <3>1, HeldMoves
  <2>5. ASSUME NEW n, jobs' = [jobs EXCEPT ![poll.job] = n], j = poll.job,
               poll' = Handling(poll, "next", None), WithinBudget(n)
        PROVE  WithinBudget(jobs'[j]) /\ ~Held(j)'
    <3>1. poll'.job = None /\ poll'.due \subseteq poll.due
      BY <1>0, <2>5, HandlingFields DEF AllPollSteps, None
    <3> QED
      BY <1>0, <2>1, <2>5, <3>1 DEF Held
  <2>6. CASE UNCHANGED jobs
    BY <1>3, <2>3, <2>6
  <2>7. j = poll.job => /\ WithinBudget(Ended(jobs[j], "failed"))
                        /\ WithinBudget(Ended(jobs[j], "done"))
    BY <1>0, <1>2, <2>1, EndedBudget DEF Statuses
  <2>8. ASSUME PollBump, j = poll.job, NEW s \in {"failed", jobs[j].status}
        PROVE  WithinBudget(Bumped(jobs[j], Polling.attempts + 1, IF poll.late THEN 0 ELSE 1, s))
    <3>1. Snapshot(Polling, jobs[j], poll.late)
      BY <1>2, <2>1, <2>2, <2>8
    <3>2. Polling.left > 0
      BY <2>8 DEF InTime, PollBump
    <3>3. s \in Statuses /\ (s = "pending" => jobs[j].status = "pending")
      BY <2>1, <2>8, JobTypes DEF Statuses
    <3> QED
      BY <1>0, <2>1, <2>8, <3>1, <3>2, <3>3, BumpedBudget
  <2> QED
    BY <1>6, <2>4, <2>5, <2>6, <2>7, <2>8, PollWrites
<1>7. ASSUME NEW r \in Requests, Enqueue(r)
      PROVE  WithinBudget(jobs'[j])
             /\ (Held(j)' => Snapshot(poll'.rows[j], jobs'[j], poll'.late))
  <2> DEFINE l == req[r].listing   i == req[r].job   new == NewJob(l, req[r].price)
  <2>1. l \in Listings /\ req[r].price \in Prices /\ i \in Nat /\ i <= Len(jobs)
    BY <1>0, <1>7, ReqTypes DEF Enqueue, Priced
  <2>2. UNCHANGED poll /\ Held(j)' = Held(j)
    BY <1>7 DEF Enqueue, Held
  <2>3. new \in Jobs /\ WithinBudget(new) /\ \A s \in Statuses : WithinBudget(Ended(new, s))
    <3>1. ASSUME NEW s \in Statuses PROVE WithinBudget(Ended(new, s))
      BY <2>1, <3>1, NewBudget
    <3>2. "pending" \in Statuses
      BY DEF Statuses
    <3>3. new \in Jobs
      BY <2>1, NewJobFields
    <3>4. WithinBudget(new)
      BY <2>1, <3>2, NewBudget
    <3> QED
      BY <3>1, <3>3, <3>4
  <2>4. CASE i # None /\ jobs' = [jobs EXCEPT ![i] = Ended(new, jobs[i].status)]
             /\ (~Held(i) \/ Unseen(l, "race"))
    <3>1. i \in 1..Len(jobs) /\ jobs[i] \in Jobs /\ jobs[i].status \in Statuses
          /\ jobs[i].listing = l
      BY <1>0, <2>1, <2>4, JobTypes DEF None, Linked
    <3>2. CASE j # i
      <4>1. j \in 1..Len(jobs) /\ jobs'[j] = jobs[j]
        BY <1>0, <2>4, <3>1, <3>2
      <4> QED
        BY <1>2, <2>2, <4>1
    <3>3. CASE j = i
      <4>1. jobs'[j] = Ended(new, jobs[i].status) /\ jobs'[j].listing = l
        BY <1>0, <2>4, <3>1, <3>3, ListingStep
      <4>2. ~Unseen(l, "race")
        <5>1. SUFFICES ASSUME Unseen(l, "race") PROVE FALSE
          OBVIOUS
        <5>2. "race" \in lapsed'[l]
          BY <2>1, <5>1 DEF Unseen, TypeOK
        <5> QED
          BY <4>1, <5>2 DEF Raced
      <4> QED
        BY <2>2, <2>3, <2>4, <3>1, <3>3, <4>1, <4>2
    <3> QED
      BY <3>2, <3>3
  <2>5. CASE jobs' = Append(jobs, new)
    <3>1. CASE j \in 1..Len(jobs)
      <4>1. jobs'[j] = jobs[j]
        BY <1>0, <2>3, <2>5, <3>1
      <4> QED
        BY <1>2, <2>2, <3>1, <4>1
    <3>2. CASE j \notin 1..Len(jobs)
      <4>1. jobs'[j] = new
        BY <1>0, <2>3, <2>5, <3>2
      <4> QED
        BY <1>1, <2>2, <2>3, <3>2, <4>1
    <3> QED
      BY <3>1, <3>2
  <2>6. CASE UNCHANGED jobs
    BY <1>0, <1>2, <2>2, <2>6
  <2> QED
    BY <1>7, <2>4, <2>5, <2>6 DEF Enqueue
<1>8. ASSUME NEW r \in Requests, Cancel(r)
      PROVE  WithinBudget(jobs'[j])
             /\ (Held(j)' => Snapshot(poll'.rows[j], jobs'[j], poll'.late))
  <2> DEFINE i == req[r].job
  <2>1. i \in 1..Len(jobs) /\ UNCHANGED poll /\ Held(j)' = Held(j)
    BY <1>0, <1>8, ReqTypes DEF Cancel, None, Held
  <2>2. CASE UNCHANGED jobs
    BY <1>0, <1>2, <2>1, <2>2
  <2>3. CASE jobs' = [jobs EXCEPT ![i] = Ended(jobs[i], "cancelled")]
    <3>1. j \in 1..Len(jobs) /\ jobs'[j] = IF j = i THEN Ended(jobs[j], "cancelled") ELSE jobs[j]
      BY <1>0, <2>1, <2>3
    <3>2. "cancelled" \in Statuses \ {"pending"}
      BY DEF Statuses
    <3>3. WithinBudget(Ended(jobs[j], "cancelled"))
      BY <1>0, <1>2, <3>1, <3>2, EndedBudget
    <3>4. Held(j) => Snapshot(poll.rows[j], Ended(jobs[j], "cancelled"), poll.late)
      BY <1>0, <1>1, <1>2, <3>1, <3>2, EndedBudget
    <3> QED
      BY <1>2, <2>1, <3>1, <3>3, <3>4
  <2> QED
    BY <1>8, <2>2, <2>3 DEF Cancel
<1> QED
  BY <1>3, <1>4, <1>5, <1>6, <1>7, <1>8, JobsMoves

LEMMA InTimeStep == TypeOK /\ InTime /\ [Next]_vars => InTime'
<1> SUFFICES ASSUME TypeOK, InTime, [Next]_vars, poll'.step \in {"post", "wait", "error"}
             PROVE  Polling'.left > 0
  BY DEF InTime
<1>0. poll \in Polls /\ PollOK /\ poll.job \in Nat
  BY PollTypes DEF TypeOK, PollOK
<1>1. CASE UNCHANGED poll
  BY <1>1 DEF InTime, Polling
<1>2. CASE PollDue
  BY <1>2 DEF PollDue, Loaded, Idle
<1>3. CASE PollNext
  <2>1. PICK j \in poll.due : poll' = Handling(poll, "fetch", j)
    BY <1>3 DEF PollNext
  <2>2. "fetch" \in AllPollSteps /\ j \in Nat
    BY <1>0, <2>1, PollTypes DEF AllPollSteps, PollSteps
  <2> QED
    BY <1>0, <2>1, <2>2, HandlingFields
<1>4. CASE Tick
  BY <1>0, <1>4, DelayedFields DEF Tick, InTime, Polling
<1>5. CASE poll' = Idle \/ poll' = Handling(poll, "next", None)
  BY <1>0, <1>5, IdleFields, NextFields
<1>6. ASSUME PollFetch \/ PollPost, NEW s \in PollSteps, poll' = Handling(poll, s, poll.job)
      PROVE  Polling'.left > 0
  <2>1. Polling.left > 0
    BY <1>6 DEF PollFetch, PollPost, InTime
  <2>2. s \in AllPollSteps
    BY DEF AllPollSteps
  <2>3. poll'.job = poll.job /\ poll'.rows = poll.rows
    BY <1>0, <1>6, <2>2, HandlingFields
  <2> QED
    BY <2>1, <2>3 DEF Polling
<1> QED
  BY <1>1, <1>2, <1>3, <1>4, <1>5, <1>6, PollMoves

AttemptsInv == TypeOK /\ Linked /\ InBudget /\ InTime

LEMMA AttemptsInit == Init => AttemptsInv
<1> SUFFICES ASSUME Init PROVE AttemptsInv
  OBVIOUS
<1>1. jobs = <<>> /\ poll = Idle /\ req = [r \in Requests |-> Waiting]
  BY DEF Init
<1>2. Linked
  BY <1>1, IdleFields, WaitingFields DEF Linked
<1>3. InBudget
  BY <1>1 DEF InBudget
<1>4. InTime
  BY <1>1, IdleFields DEF InTime
<1> QED
  BY <1>2, <1>3, <1>4, TypeInit DEF AttemptsInv

LEMMA AttemptsStep == AttemptsInv /\ [Next]_vars => AttemptsInv'
  BY TypeStep, LinkStep, BudgetStep, InTimeStep DEF AttemptsInv

LEMMA AttemptsDecided == AttemptsInv => DeadlineDecides
<1> SUFFICES ASSUME AttemptsInv, NEW j \in 1..Len(jobs), "race" \notin lapsed[jobs[j].listing]
             PROVE  jobs[j].attempts < MaxAttempts
  BY DEF DeadlineDecides
<1>1. jobs[j] \in Jobs /\ jobs[j].attempts <= DeadlineAfter + 1
  BY DEF AttemptsInv, TypeOK, InBudget, Raced, WithinBudget
<1> QED
  BY <1>1, JobTypes, ParametersAssumption DEF MaxAttempts

\* bump_attempt never brings a job to max_attempts before process_due finds its deadline
\* past: as long as no request sets the job anew under the poller, every interval has one
\* attempt at most, and five more are allowed than there are intervals.
THEOREM DeadlineDecidesHolds == Spec => []DeadlineDecides
<1>1. Spec => []AttemptsInv
  BY AttemptsInit, AttemptsStep, PTL DEF Spec
<1> QED
  BY <1>1, AttemptsDecided, PTL

---------------------------------------------------------------------------
(* A listing that is out                                                   *)

\* Requests that leave a campaign, and those that will enter it again or answer.
Serving(l, steps) == \E r \in Requests : req[r].listing = l /\ req[r].step \in steps
OutSteps == {"leave", "settle", "delete", "confirm", "exit"}
BusySteps == OutSteps \cup {"enter", "find", "enqueue"}
Outgoing(l) == Serving(l, OutSteps)
Busy(l) == Serving(l, BusySteps)

\* A write that takes a listing out was sent by a request that is not over, or is known.
ExitSeen == \A l \in Listings :
    Exit \in accepted[l] /\ lapsed[l] = {} => told[l] \/ Outgoing(l)

\* That a listing is out is known, but for the job k.
Known(l, k) == told[l] \/ Busy(l) \/ Pending(l) \ {k} # {}

OutSeen == \A l \in Listings : Leaving(l) /\ lapsed[l] = {} => Known(l, None)

\* A job that the poller is about to close is not what its listing waits for.
CloseSeen ==
    poll.step \in {"close", "restore"} /\ Leaving(Subject) /\ lapsed[Subject] = {} =>
        Known(Subject, poll.job)

LEMMA StepsOfOut ==
    /\ OutSteps \subseteq BusySteps /\ BusySteps \subseteq AllSteps
    /\ BusySteps \cap {"idle", "done", "cancel", "store", "edit", "again", "enroll", "record",
                       "mark"} = {}
    /\ {"leave", "settle", "delete", "confirm", "exit"} \subseteq OutSteps
    /\ {"enter", "find", "enqueue"} \subseteq BusySteps \ OutSteps
  BY DEF OutSteps, BusySteps, AllSteps, Priced, Unpriced

\* A step is one of one request at most.
LEMMA OnlyOne ==
    ASSUME NEW q \in Requests, Ask(q) \/ Look(q) \/ Serve(q)
    PROVE  \E n : req' = [req EXCEPT ![q] = n]
<1>1. CASE \E s : Goes(q, s)
  BY <1>1 DEF Goes
<1>2. CASE Over(q)
  BY <1>2 DEF Over
<1>3. CASE Ask(q)
  BY <1>3, AskMoves
<1>4. CASE Look(q)
  BY <1>4, LookMoves
<1>5. CASE FindPending(q)
  BY <1>1, <1>5 DEF FindPending
<1>6. CASE Confirm(q)
  BY <1>6, ConfirmMoves
<1> QED
  BY <1>1, <1>2, <1>3, <1>4, <1>5, <1>6, ServeMoves DEF Serve

LEMMA OthersKeep ==
    ASSUME TypeOK, [Next]_vars, NEW r \in Requests
    PROVE  req'[r] = req[r] \/ Crash \/ Ask(r) \/ Look(r) \/ Serve(r)
<1>1. ASSUME NEW q \in Requests, Ask(q) \/ Look(q) \/ Serve(q), q # r
      PROVE  req'[r] = req[r]
  BY <1>1, OnlyOne DEF TypeOK, ReqOK
<1>2. CASE Poll
  BY <1>2 DEF Poll, PollDue, PollNext, PollEnd, PollDeadline, PollFetch, PollPost,
              PollBump, PollClose
<1>3. CASE Copy \/ ReaderFails \/ Tick \/ UNCHANGED vars
  BY <1>3 DEF Copy, ReaderStart, ReaderFetch, ReconcileMirror, ReconcileStarted,
              ReaderFails, Tick, vars
<1>4. CASE \E l \in Listings : Apply(l) \/ Suggest(l)
  BY <1>4 DEF Apply, Suggest
<1> QED
  BY <1>1, <1>2, <1>3, <1>4 DEF Next

\* A request under way when the process dies is on record.
LEMMA CrashSeen ==
    ASSUME TypeOK, Crash, NEW l \in Listings, Busy(l)
    PROVE  lapsed'[l] # {}
<1>1. Changing(l)
  BY DEF Busy, Serving, BusySteps, OutSteps, Changing
<1> QED
  BY <1>1 DEF Crash

LEMMA AnswerTells ==
    ASSUME TypeOK, NEW r \in Requests, Answer(r), req[r].listing \in Listings
    PROVE  told'[req[r].listing]
  BY DEF Answer, Tell, TypeOK

LEMMA GoesServes ==
    ASSUME TypeOK, NEW r \in Requests, NEW s \in AllSteps, Goes(r, s)
    PROVE  req'[r].listing = req[r].listing /\ req'[r].step = s
  BY ReqTypes, AtFields DEF Goes, TypeOK, ReqOK

LEMMA ConfirmServes ==
    ASSUME TypeOK, NEW r \in Requests, Confirm(r)
    PROVE  req'[r].listing = req[r].listing /\ req'[r].step \in OutSteps
<1>1. PICK c \in {0, req[r].clean, req[r].clean + 1}, s \in {"confirm", "exit"} :
        req' = [req EXCEPT ![r] = Counted(At(req[r], s), c, req[r].tries + 1)]
  BY ConfirmMoves
<1>2. s \in AllSteps /\ s \in OutSteps /\ req[r] \in Reqs
  BY <1>1, ReqTypes DEF AllSteps, Unpriced, OutSteps, TypeOK
<1>3. c \in Nat /\ req[r].tries + 1 \in Nat
  BY <1>1, <1>2 DEF Reqs
<1>4. At(req[r], s) \in Reqs /\ At(req[r], s).step = s /\ At(req[r], s).listing = req[r].listing
  BY <1>2, AtFields
<1>5. /\ Counted(At(req[r], s), c, req[r].tries + 1).step = s
      /\ Counted(At(req[r], s), c, req[r].tries + 1).listing = req[r].listing
  BY <1>3, <1>4, CountedFields
<1> QED
  BY <1>1, <1>2, <1>5 DEF TypeOK, ReqOK

\* A request that leaves goes on, answers, or waits until its exits are applied.
LEMMA OutgoingStep ==
    ASSUME TypeOK, [Next]_vars, NEW l \in Listings, Outgoing(l)
    PROVE  Outgoing(l)' \/ told'[l] \/ lapsed'[l] # {} \/ accepted[l] = {}
<1>1. PICK r \in Requests : req[r].listing = l /\ req[r].step \in OutSteps
  BY DEF Outgoing, Serving
<1>2. CASE req'[r] = req[r]
  BY <1>1, <1>2 DEF Outgoing, Serving
<1>3. CASE Crash
  BY <1>1, <1>3, CrashSeen, StepsOfOut DEF Busy, Serving
<1>4. CASE \E s \in {"settle", "confirm"} : Goes(r, s)
  <2>1. PICK s \in {"settle", "confirm"} : Goes(r, s)
    BY <1>4
  <2>2. s \in AllSteps /\ s \in OutSteps
    BY <2>1, StepsOfOut
  <2> QED
    BY <1>1, <2>1, <2>2, GoesServes DEF Outgoing, Serving
<1>5. CASE Confirm(r)
  BY <1>1, <1>5, ConfirmServes DEF Outgoing, Serving
<1>6. CASE Answer(r)
  BY <1>1, <1>6, AnswerTells
<1>7. CASE Settle(r)
  BY <1>1, <1>7 DEF Settle
<1>8. CASE Serve(r)
  <2>1. \/ Leave(r) \/ Settle(r) \/ Delete(r) \/ Confirm(r) \/ NotEffective(r) \/ StoreExit(r)
    BY <1>1, <1>8, ServeMoves DEF Serve, FindPending, OutSteps
  <2>2. Leave(r) => Goes(r, "settle") \/ Answer(r)
    BY DEF Leave
  <2>3. Delete(r) => Goes(r, "confirm") \/ Answer(r)
    BY DEF Delete
  <2>4. NotEffective(r) \/ StoreExit(r) => Answer(r)
    BY DEF NotEffective, StoreExit
  <2> QED
    BY <1>4, <1>5, <1>6, <1>7, <2>1, <2>2, <2>3, <2>4
<1>9. ~Ask(r) /\ ~Look(r)
  BY <1>1, StepsOfOut DEF Ask, Look
<1> QED
  BY <1>2, <1>3, <1>8, <1>9, OthersKeep

\* An operator who was told is not asked to forget before the request that leaves begins.
LEMMA ToldKept ==
    ASSUME TypeOK, [Next]_vars, NEW l \in Listings, told[l]
    PROVE  told'[l] \/ Outgoing(l)'
<1>1. CASE UNCHANGED told
  BY <1>1
<1>2. ASSUME NEW k, Tell(k)
      PROVE  told'[l]
  BY <1>2 DEF Tell, TypeOK
<1>3. ASSUME NEW r \in Requests, Ask(r)
      PROVE  told'[l] \/ Outgoing(l)'
  <2>1. PICK k \in Listings : \E p \in Prices \cup {None},
               s \in {"leave", "edit", "enroll", "delete"} :
          /\ req' = [req EXCEPT ![r] = Wanted(s, k, p)]
          /\ told' = [told EXCEPT ![k] = CASE s = "leave" -> FALSE
                                           [] s = "delete" -> TRUE
                                           [] OTHER -> @]
    BY <1>3, AskMoves
  <2>2. PICK p \in Prices \cup {None}, s \in {"leave", "edit", "enroll", "delete"} :
          /\ req' = [req EXCEPT ![r] = Wanted(s, k, p)]
          /\ told' = [told EXCEPT ![k] = CASE s = "leave" -> FALSE
                                           [] s = "delete" -> TRUE
                                           [] OTHER -> @]
    BY <2>1
  <2>3. CASE k # l \/ s # "leave"
    BY <2>2, <2>3 DEF TypeOK
  <2>4. CASE k = l /\ s = "leave"
    <3>1. s \in AllSteps /\ s \in OutSteps
      BY <2>4, StepsOfOut
    <3>2. Wanted(s, l, p).step = s /\ Wanted(s, l, p).listing = l
      BY <3>1, WantedFields
    <3>3. req'[r].step \in OutSteps /\ req'[r].listing = l
      BY <2>2, <2>4, <3>1, <3>2 DEF TypeOK, ReqOK
    <3> QED
      BY <3>3 DEF Outgoing, Serving
  <2> QED
    BY <2>3, <2>4
<1> QED
  BY <1>1, <1>2, <1>3, ToldMoves

LEMMA PendingTypes ==
    ASSUME TypeOK, NEW l \in Listings, NEW j \in Pending(l)
    PROVE  /\ j \in 1..Len(jobs) /\ j \in Nat /\ j # None /\ jobs[j] \in Jobs
           /\ jobs[j].listing = l /\ jobs[j].status = "pending"
  BY DEF Pending, TypeOK, None

\* Either every job counts, or all but the one at which the poller is.
Excepted == {None, poll.job}

\* What enqueue commits is a job that the listing can wait for.
LEMMA EnqueueSeen ==
    ASSUME TypeOK, Linked, [Next]_vars, NEW r \in Requests, Enqueue(r),
           NEW l \in Listings, req[r].listing = l, NEW k \in Excepted
    PROVE  told'[l] \/ lapsed'[l] # {} \/ Pending(l)' \ {k} # {}
<1> DEFINE j == req[r].job   new == NewJob(l, req[r].price)
<1>0. /\ jobs \in Seq(Jobs) /\ Len(jobs) \in Nat /\ l \in Listings /\ req[r].price \in Prices
      /\ j \in Nat /\ j <= Len(jobs) /\ poll.job \in Nat /\ poll.job <= Len(jobs)
      /\ k \in {None, poll.job}
  <2>1. l \in Listings /\ req[r].price \in Prices /\ j \in Nat /\ j <= Len(jobs)
    BY ReqTypes DEF Enqueue, Priced, TypeOK
  <2>2. poll.job \in Nat /\ poll.job <= Len(jobs)
    BY PollHolds, PollTypes DEF TypeOK, PollOK, None
  <2> QED
    BY <2>1, <2>2 DEF TypeOK, Excepted
<1>1. CASE Answer(r)
  BY <1>0, <1>1, AnswerTells
<1>2. CASE Unseen(l, "race")
  BY <1>0, <1>2 DEF Unseen, TypeOK
<1>3. CASE jobs' = Append(jobs, new)
  <2>1. new.listing = l /\ new.status = "pending" /\ new \in Jobs
    BY <1>0, NewJobFields
  <2>2. Len(jobs') = Len(jobs) + 1 /\ jobs'[Len(jobs) + 1] = new
    BY <1>0, <1>3, <2>1
  <2>3. Len(jobs) + 1 \in Pending(l)'
    BY <1>0, <2>1, <2>2 DEF Pending
  <2>4. Len(jobs) + 1 # k
    BY <1>0 DEF None
  <2> QED
    BY <2>3, <2>4
<1>4. CASE j # None /\ jobs' = [jobs EXCEPT ![j] = Ended(new, jobs[j].status)]
           /\ jobs[j].status = "pending" /\ ~Held(j)
  <2>1. new \in Jobs /\ new.listing = l /\ j \in 1..Len(jobs)
    BY <1>0, <1>4, NewJobFields DEF None
  <2>2. Ended(new, "pending").listing = l /\ Ended(new, "pending").status = "pending"
    BY <2>1, EndedFields DEF Statuses
  <2>3. j \in Pending(l)'
    BY <1>0, <1>4, <2>1, <2>2 DEF Pending
  <2>4. j # k
    <3>1. poll.step = "idle" => poll.job = None
      BY DEF TypeOK, PollOK, PollSteps
    <3> QED
      BY <1>4, <3>1 DEF Held, Excepted
  <2> QED
    BY <2>3, <2>4
<1> QED
  BY <1>1, <1>2, <1>3, <1>4 DEF Enqueue

\* A request that leaves or enters again ends with the listing known to be out or entering.
LEMMA BusyStep ==
    ASSUME TypeOK, Linked, [Next]_vars, NEW l \in Listings, Busy(l), Leaving(l)',
           NEW k \in Excepted
    PROVE  Busy(l)' \/ told'[l] \/ lapsed'[l] # {} \/ Pending(l)' \ {k} # {}
<1>1. PICK r \in Requests : req[r].listing = l /\ req[r].step \in BusySteps
  BY DEF Busy, Serving
<1>2. CASE req'[r] = req[r]
  BY <1>1, <1>2 DEF Busy, Serving
<1>3. CASE Crash
  BY <1>3, CrashSeen
<1>4. CASE \E s \in {"settle", "confirm", "enter", "find", "enqueue"} : Goes(r, s)
  <2>1. PICK s \in {"settle", "confirm", "enter", "find", "enqueue"} : Goes(r, s)
    BY <1>4
  <2>2. s \in AllSteps /\ s \in BusySteps
    BY <2>1, StepsOfOut
  <2> QED
    BY <1>1, <2>1, <2>2, GoesServes DEF Busy, Serving
<1>5. CASE Confirm(r)
  BY <1>1, <1>5, ConfirmServes, StepsOfOut DEF Busy, Serving
<1>6. CASE Answer(r)
  BY <1>1, <1>6, AnswerTells
<1>7. CASE Reenter(r)
  <2>1. ~Take(l, Enter(req[r].price)) /\ ~Reached(l, Enter(req[r].price))
    <3>1. Enter(req[r].price).op = "enter"
      BY DEF Enter
    <3>2. SUFFICES ASSUME Take(l, Enter(req[r].price)) \/ Reached(l, Enter(req[r].price))
                   PROVE  Enter(req[r].price) \in accepted'[l]
      BY <3>1, <3>2 DEF Leaving
    <3> QED
      BY <3>2 DEF Take, Reached, TypeOK
  <2>2. Goes(r, "find") \/ Unseen(l, "transport") \/ Answer(r)
    BY <1>1, <1>7, <2>1 DEF Reenter
  <2>3. Unseen(l, "transport") => lapsed'[l] # {}
    BY DEF Unseen, TypeOK
  <2> QED
    BY <1>4, <1>6, <2>2, <2>3
<1>8. CASE FindPending(r)
  <2>1. \/ Goes(r, "enqueue")
        \/ \E j \in Nat : req' = [req EXCEPT ![r] = With(At(req[r], "enqueue"), j)]
    BY <1>8 DEF FindPending, Pending
  <2>2. ASSUME NEW j \in Nat, req' = [req EXCEPT ![r] = With(At(req[r], "enqueue"), j)]
        PROVE  Busy(l)'
    <3>1. "enqueue" \in AllSteps /\ "enqueue" \in BusySteps /\ req[r] \in Reqs
      BY ReqTypes, StepsOfOut DEF TypeOK
    <3>2. At(req[r], "enqueue") \in Reqs /\ At(req[r], "enqueue").step = "enqueue"
          /\ At(req[r], "enqueue").listing = l
      BY <1>1, <3>1, AtFields
    <3>3. With(At(req[r], "enqueue"), j).step = "enqueue"
          /\ With(At(req[r], "enqueue"), j).listing = l
      BY <3>2, WithFields
    <3>4. req'[r].step \in BusySteps /\ req'[r].listing = l
      BY <2>2, <3>1, <3>3 DEF TypeOK, ReqOK
    <3> QED
      BY <3>4 DEF Busy, Serving
  <2> QED
    BY <1>4, <2>1, <2>2
<1>9. CASE Enqueue(r)
  BY <1>1, <1>9, EnqueueSeen
<1>10. CASE Serve(r)
  <2>1. \/ Leave(r) \/ Settle(r) \/ Delete(r) \/ Confirm(r) \/ NotEffective(r) \/ StoreExit(r)
        \/ Reenter(r) \/ FindPending(r) \/ Enqueue(r)
    BY <1>1, <1>10, ServeMoves, StepsOfOut DEF Serve
  <2>2. Leave(r) => Goes(r, "settle") \/ Answer(r)
    BY DEF Leave
  <2>3. Delete(r) => Goes(r, "confirm") \/ Answer(r)
    BY DEF Delete
  <2>4. NotEffective(r) \/ StoreExit(r) => Answer(r)
    BY DEF NotEffective, StoreExit
  <2>5. Settle(r) => Goes(r, "enter")
    BY ServeMoves
  <2> QED
    BY <1>4, <1>5, <1>6, <1>7, <1>8, <1>9, <2>1, <2>2, <2>3, <2>4, <2>5
<1>11. ~Ask(r) /\ ~Look(r)
  BY <1>1, StepsOfOut DEF Ask, Look
<1> QED
  BY <1>2, <1>3, <1>10, <1>11, OthersKeep

\* A pending job ends with its operator told, or because the listing is in.
LEMMA PendingStep ==
    ASSUME TypeOK, Linked, InBudget, InTime, [Next]_vars, NEW l \in Listings,
           NEW j \in Pending(l), lapsed[l] = {}, PollClose => j # poll.job
    PROVE  j \in Pending(l)' \/ told'[l]
<1>0. /\ jobs \in Seq(Jobs) /\ Len(jobs) \in Nat /\ j \in 1..Len(jobs) /\ jobs[j] \in Jobs
      /\ jobs[j].listing = l /\ jobs[j].status = "pending"
      /\ jobs' \in Seq(Jobs) /\ Len(jobs) <= Len(jobs') /\ jobs'[j].listing = l
  BY PendingTypes, JobsStep, ListingStep DEF TypeOK
<1>1. SUFFICES ASSUME ~told'[l] PROVE jobs'[j].status = "pending"
  BY <1>0, <1>1 DEF Pending
<1>2. CASE jobs'[j] = jobs[j]
  BY <1>0, <1>2
<1>3. ASSUME NEW i \in 1..Len(jobs), NEW n, jobs' = [jobs EXCEPT ![i] = n],
             i = j => n.status = "pending"
      PROVE  jobs'[j].status = "pending"
  BY <1>0, <1>3
<1>4. ASSUME NEW r \in Requests, Enqueue(r)
      PROVE  jobs'[j].status = "pending"
  <2> DEFINE i == req[r].job   new == NewJob(req[r].listing, req[r].price)
  <2>1. req[r].listing \in Listings /\ req[r].price \in Prices /\ i \in Nat /\ i <= Len(jobs)
    BY <1>4, ReqTypes DEF Enqueue, Priced, TypeOK
  <2>2. new \in Jobs
    BY <2>1, NewJobFields
  <2>3. CASE i # None /\ jobs' = [jobs EXCEPT ![i] = Ended(new, jobs[i].status)]
    <3>1. i \in 1..Len(jobs) /\ jobs[i].status \in Statuses
      BY <1>0, <2>1, <2>3, JobTypes DEF None
    <3>2. Ended(new, jobs[i].status).status = jobs[i].status
      BY <2>2, <3>1, EndedFields
    <3> QED
      BY <1>0, <1>3, <2>3, <3>1, <3>2
  <2>4. CASE jobs' = Append(jobs, new)
    BY <1>0, <1>2, <2>2, <2>4
  <2> QED
    BY <1>2, <1>4, <2>3, <2>4 DEF Enqueue
<1>5. ASSUME NEW r \in Requests, Cancel(r)
      PROVE  jobs'[j].status = "pending"
  <2>1. req[r].job \in 1..Len(jobs) /\ jobs[req[r].job].listing = req[r].listing
        /\ req[r].listing \in Listings
    BY <1>5, ReqTypes DEF Cancel, TypeOK, Linked, None, Unpriced
  <2>2. req[r].listing # l
    BY <1>1, <1>5, <2>1, AnswerTells DEF Cancel
  <2>3. req[r].job # j
    BY <1>0, <2>1, <2>2
  <2> QED
    BY <1>2, <1>3, <1>5, <2>1, <2>3 DEF Cancel
<1>6. CASE PollDeadline \/ PollClose \/ PollBump
  <2>1. /\ poll.job \in 1..Len(poll.rows) /\ poll.job \in 1..Len(jobs) /\ jobs[poll.job] \in Jobs
        /\ Polling \in Jobs /\ poll.rows[poll.job] = Polling /\ poll.step # "idle"
    BY <1>6, PollWrites, PollHolds DEF PollSteps
  <2>2. CASE j # poll.job
    BY <1>2, <1>3, <1>6, <2>1, <2>2, PollWrites
  <2>3. CASE j = poll.job
    <3>1. Subject = l
      BY <1>0, <2>1, <2>3 DEF Subject, Linked
    <3>2. ~Tell(Subject)
      BY <1>1, <3>1 DEF Tell, TypeOK
    <3>3. Held(j) /\ ~Raced(j)
      BY <1>0, <2>1, <2>3 DEF Held, Raced
    <3>4. Snapshot(Polling, jobs[j], poll.late)
      BY <1>0, <2>1, <2>3, <3>3 DEF InBudget
    <3>5. PollBump => Polling.left > 0
      BY DEF PollBump, InTime
    <3>6. PollBump => ~(Polling.attempts + 1 >= MaxAttempts)
      <4>1. poll.late \in BOOLEAN /\ "pending" \in Statuses
        BY PollTypes DEF TypeOK, PollOK, Statuses
      <4>2. SUFFICES ASSUME PollBump PROVE Polling.attempts + 1 < MaxAttempts
        BY <2>1, <4>2, JobTypes, ParametersAssumption DEF MaxAttempts
      <4> QED
        BY <1>0, <2>1, <3>4, <3>5, <4>1, <4>2, BumpedBudget
    <3>7. CASE UNCHANGED jobs
      BY <1>2, <3>7
    <3>8. CASE PollBump /\ jobs' = [jobs EXCEPT ![poll.job] =
                 Bumped(jobs[poll.job], Polling.attempts + 1, IF poll.late THEN 0 ELSE 1,
                        jobs[poll.job].status)]
      <4> DEFINE n == Polling.attempts + 1   w == IF poll.late THEN 0 ELSE 1
      <4>1. n \in Nat /\ w \in Flags /\ jobs[j].status \in Statuses
        BY <1>0, <2>1, JobTypes DEF Flags
      <4>2. jobs' = [jobs EXCEPT ![j] = Bumped(jobs[j], n, w, jobs[j].status)]
        BY <2>3, <3>8
      <4> HIDE DEF n, w
      <4>3. Bumped(jobs[j], n, w, jobs[j].status).status = "pending"
        BY <1>0, <4>1, BumpedFields
      <4> QED
        BY <1>0, <1>3, <4>2, <4>3
    <3> QED
      BY <1>6, <2>3, <3>2, <3>6, <3>7, <3>8, PollWrites
  <2> QED
    BY <2>2, <2>3
<1>7. CASE Tick
  BY <1>0, <1>7, OlderFields DEF Tick
<1> QED
  BY <1>2, <1>4, <1>5, <1>6, <1>7, JobsMoves

\* Nothing but a request that leaves sends an exit.
LEMMA ExitSent ==
    ASSUME TypeOK, [Next]_vars, NEW l \in Listings, Exit \in accepted'[l], Exit \notin accepted[l]
    PROVE  told'[l] \/ Outgoing(l)'
<1>0. /\ accepted \in [Listings -> SUBSET Writes] /\ \A p : Enter(p) # Exit /\ Edit(p) # Exit
      /\ MeliOK /\ ReqOK
  BY DEF TypeOK, MeliOK, Enter, Edit, Exit
<1>1. ASSUME NEW k, NEW w, Take(k, w) \/ Reached(k, w) \/ Lost(k, w) \/ Refuse
      PROVE  k = l /\ w = Exit
  <2>1. accepted' = accepted \/ accepted' = [accepted EXCEPT ![k] = @ \cup {w}]
    BY <1>1 DEF Take, Reached, Lost, Refuse, meli
  <2> QED
    BY <1>0, <2>1
<1>2. ASSUME NEW r \in Requests, Leave(r) \/ Delete(r)
      PROVE  told'[l] \/ Outgoing(l)'
  <2>1. req[r].listing = l
    BY <1>1, <1>2, Sends
  <2>2. Goes(r, "settle") \/ Goes(r, "confirm") \/ Answer(r)
    BY <1>2 DEF Leave, Delete
  <2>3. {"settle", "confirm"} \subseteq AllSteps /\ {"settle", "confirm"} \subseteq OutSteps
    BY StepsOfOut
  <2> QED
    BY <2>1, <2>2, <2>3, GoesServes, AnswerTells DEF Outgoing, Serving
<1>3. ASSUME NEW r \in Requests, Confirm(r)
      PROVE  Outgoing(l)'
  <2>1. req[r].listing = l
    BY <1>1, <1>3, Sends DEF meli
  <2> QED
    BY <1>3, <2>1, ConfirmServes DEF Outgoing, Serving
<1>4. ASSUME NEW r \in Requests
      PROVE  ~Reenter(r) /\ ~Enroll(r) /\ ~EditPrice(r)
  BY <1>0, <1>1, Sends
<1>5. ~PollPost
  BY <1>0, <1>1 DEF PollPost
<1>6. ASSUME NEW k \in Listings
      PROVE  ~Apply(k) /\ ~Suggest(k)
  BY <1>0 DEF Apply, Suggest
<1>7. ~UNCHANGED meli
  BY DEF meli
<1> QED
  BY <1>2, <1>3, <1>4, <1>5, <1>6, <1>7, MeliMoves

\* A listing gets out by an exit that is applied.
LEMMA LeavingMoves ==
    ASSUME TypeOK, [Next]_vars, NEW l \in Listings, Leaving(l)'
    PROVE  Leaving(l) \/ Exit \in accepted[l] \/ Exit \in accepted'[l]
<1>0. MeliOK /\ ReqOK
  BY DEF TypeOK, MeliOK
<1>1. SUFFICES ASSUME Exit \notin accepted[l], Exit \notin accepted'[l] PROVE Leaving(l)
  OBVIOUS
<1>2. offer'[l].status # "started" /\ \A w \in accepted'[l] : w.op # "enter"
  BY <1>1 DEF Leaving
<1>3. CASE offer'[l] = offer[l] /\ accepted[l] \subseteq accepted'[l]
  BY <1>2, <1>3 DEF Leaving
<1>4. ASSUME NEW k, NEW w, Take(k, w) \/ Reached(k, w) \/ Lost(k, w) \/ Refuse
      PROVE  Leaving(l)
  <2>1. /\ offer' = offer
        /\ accepted' = accepted \/ accepted' = [accepted EXCEPT ![k] = @ \cup {w}]
    BY <1>4 DEF Take, Reached, Lost, Refuse, meli
  <2> QED
    BY <1>0, <1>3, <2>1 DEF MeliOK
<1>5. CASE UNCHANGED meli
  BY <1>3, <1>5 DEF meli
<1>6. ASSUME NEW r \in Requests, Leave(r) \/ Delete(r) \/ Reenter(r) \/ Enroll(r)
                                 \/ EditPrice(r) \/ Confirm(r)
      PROVE  Leaving(l)
  BY <1>4, <1>5, <1>6, Sends
<1>7. CASE PollPost
  BY <1>4, <1>7 DEF PollPost
<1>8. ASSUME NEW k \in Listings, Apply(k)
      PROVE  Leaving(l)
  <2>1. PICK w \in accepted[k] :
          /\ accepted' = [accepted EXCEPT ![k] = @ \ {w}]
          /\ offer' = [offer EXCEPT ![k] =
               CASE w.op = "enter" -> Started(w.price)
                 [] w.op = "edit" -> IF @.status = "started" THEN Started(w.price) ELSE @
                 [] w.op = "exit" -> Absent]
    BY <1>8 DEF Apply
  <2>2. CASE k # l
    BY <1>0, <1>3, <2>1, <2>2 DEF MeliOK
  <2>3. CASE k = l
    <3>1. w \in Writes /\ w \in accepted[l] /\ accepted'[l] = accepted[l] \ {w}
      BY <1>0, <2>1, <2>3 DEF MeliOK
    <3>2. w.op # "exit"
      BY <1>1, <3>1, MeliTypes
    <3>3. w.op # "enter"
      <4>1. w.op = "enter" => offer'[l] = Started(w.price)
        BY <1>0, <2>1, <2>3 DEF MeliOK
      <4> QED
        BY <1>2, <4>1 DEF Started
    <3>4. w.op = "edit" /\ offer'[l] = IF offer[l].status = "started" THEN Started(w.price)
                                                                     ELSE offer[l]
      BY <1>0, <2>1, <2>3, <3>1, <3>2, <3>3, MeliTypes DEF MeliOK
    <3>5. offer[l].status # "started"
      BY <1>2, <3>4 DEF Started
    <3>6. \A v \in accepted[l] : v.op # "enter"
      BY <1>2, <3>1, <3>4
    <3> QED
      BY <3>5, <3>6 DEF Leaving
  <2> QED
    BY <2>2, <2>3
<1>9. ASSUME NEW k \in Listings, Suggest(k)
      PROVE  Leaving(l)
  BY <1>0, <1>2, <1>9 DEF Suggest, Leaving, MeliOK
<1> QED
  BY <1>5, <1>6, <1>7, <1>8, <1>9, MeliMoves

LEMMA LapsedKept ==
    ASSUME TypeOK, [Next]_vars, NEW l \in Listings, lapsed'[l] = {}
    PROVE  lapsed[l] = {}
  BY ToldStep

LEMMA ExitSeenStep == TypeOK /\ ExitSeen /\ [Next]_vars => ExitSeen'
<1> SUFFICES ASSUME TypeOK, ExitSeen, [Next]_vars, NEW l \in Listings,
                    Exit \in accepted'[l], lapsed'[l] = {}
             PROVE  told'[l] \/ Outgoing(l)'
  BY DEF ExitSeen
<1>1. CASE Exit \notin accepted[l]
  BY <1>1, ExitSent
<1>2. CASE Exit \in accepted[l]
  BY <1>2, LapsedKept, ToldKept, OutgoingStep DEF ExitSeen
<1> QED
  BY <1>1, <1>2

\* Whoever knows of a listing, or is to put it in again, keeps to it.
LEMMA KnownStep ==
    ASSUME TypeOK, Linked, InBudget, InTime, [Next]_vars, NEW l \in Listings,
           lapsed'[l] = {}, Leaving(l)', NEW k \in Excepted, Known(l, k),
           PollClose => k = poll.job \/ Subject # l
    PROVE  told'[l] \/ Busy(l)' \/ Pending(l)' \ {k} # {}
<1>1. CASE told[l]
  BY <1>1, ToldKept DEF Outgoing, Busy, Serving, BusySteps
<1>2. CASE Busy(l)
  BY <1>2, BusyStep
<1>3. ASSUME NEW j \in Pending(l), j # k
      PROVE  told'[l] \/ Busy(l)' \/ Pending(l)' \ {k} # {}
  <2>1. PollClose => j # poll.job
    <3>1. SUFFICES ASSUME PollClose, j = poll.job, Subject # l PROVE FALSE
      BY <1>3
    <3>2. poll.job \in 1..Len(poll.rows) /\ poll.rows[poll.job] = Polling
      BY <3>1, PollWrites, PollHolds
    <3> QED
      BY <3>1, <3>2, PendingTypes DEF Subject, Linked
  <2> QED
    BY <1>3, <2>1, LapsedKept, PendingStep
<1> QED
  BY <1>1, <1>2, <1>3 DEF Known

LEMMA OutSeenStep ==
    TypeOK /\ Linked /\ InBudget /\ InTime /\ ExitSeen /\ OutSeen /\ CloseSeen /\ [Next]_vars
        => OutSeen'
<1> SUFFICES ASSUME TypeOK, Linked, InBudget, InTime, ExitSeen, OutSeen, CloseSeen, [Next]_vars,
                    NEW l \in Listings, Leaving(l)', lapsed'[l] = {}
             PROVE  Known(l, None)'
  BY DEF OutSeen
<1>0. lapsed[l] = {} /\ None \in Excepted /\ poll.job \in Excepted
  BY LapsedKept DEF Excepted
<1>1. \A k : k \in Excepted /\ (told'[l] \/ Busy(l)' \/ Pending(l)' \ {k} # {}) => Known(l, None)'
  <2>1. None \notin Pending(l)'
    BY DEF Pending, None
  <2> QED
    BY <2>1 DEF Known
<1>2. CASE Exit \in accepted[l] \/ Exit \in accepted'[l]
  <2>1. told'[l] \/ Outgoing(l)' \/ accepted[l] = {}
    BY <1>0, <1>2, ExitSeenStep, ToldKept, OutgoingStep DEF ExitSeen
  <2>2. told'[l] \/ Outgoing(l)'
    BY <1>2, <2>1, ExitSeenStep DEF ExitSeen
  <2>3. Outgoing(l)' => Busy(l)'
    BY DEF Outgoing, Busy, Serving, BusySteps
  <2> QED
    BY <1>0, <1>1, <2>2, <2>3
<1>3. CASE Leaving(l)
  <2>1. CASE PollClose /\ Subject = l
    <3>1. Known(l, poll.job)
      BY <1>0, <1>3, <2>1 DEF CloseSeen, PollClose
    <3> QED
      BY <1>0, <1>1, <2>1, <3>1, KnownStep
  <2>2. CASE ~(PollClose /\ Subject = l)
    <3>1. Known(l, None)
      BY <1>0, <1>3 DEF OutSeen
    <3> QED
      BY <1>0, <1>1, <2>2, <3>1, KnownStep
  <2> QED
    BY <2>1, <2>2
<1> QED
  BY <1>2, <1>3, LeavingMoves

LEMMA CloseSeenStep ==
    TypeOK /\ Linked /\ InBudget /\ InTime /\ ExitSeen /\ OutSeen /\ CloseSeen /\ [Next]_vars
        => CloseSeen'
<1> SUFFICES ASSUME TypeOK, Linked, InBudget, InTime, ExitSeen, OutSeen, CloseSeen, [Next]_vars,
                    poll'.step \in {"close", "restore"}, NEW l, l = Subject',
                    Leaving(l)', lapsed'[l] = {}
             PROVE  told'[l] \/ Busy(l)' \/ Pending(l)' \ {poll'.job} # {}
  BY DEF CloseSeen, Known, Busy, Serving, Pending, Leaving
<1>0. poll \in Polls /\ PollOK /\ TypeOK' /\ Linked' /\ PollOK' /\ poll'.step \in PollSteps
  BY TypeStep, LinkStep DEF TypeOK, PollOK, PollSteps
<1>1. l \in Listings
  <2>1. poll'.job \in 1..Len(poll'.rows) /\ poll'.rows \in Seq(Jobs)
    BY <1>0, PollTypes DEF PollOK
  <2> QED
    BY <2>1, JobTypes DEF Subject, Polling
<1>2. lapsed[l] = {} /\ poll.job \in Excepted
  BY <1>1, LapsedKept DEF Excepted
<1>3. CASE Exit \in accepted[l] \/ Exit \in accepted'[l]
  <2>1. told'[l] \/ Outgoing(l)' \/ accepted[l] = {}
    BY <1>1, <1>2, <1>3, ExitSeenStep, ToldKept, OutgoingStep DEF ExitSeen
  <2>2. told'[l] \/ Outgoing(l)'
    BY <1>1, <1>3, <2>1, ExitSeenStep DEF ExitSeen
  <2>3. Outgoing(l)' => Busy(l)'
    BY DEF Outgoing, Busy, Serving, BusySteps
  <2> QED
    BY <2>2, <2>3
<1>4. ASSUME poll.step \in {"close", "restore"}, poll'.job = poll.job, poll'.rows = poll.rows,
             ~PollClose, Leaving(l)
      PROVE  told'[l] \/ Busy(l)' \/ Pending(l)' \ {poll'.job} # {}
  <2>1. l = Subject
    BY <1>4 DEF Subject, Polling
  <2>2. Known(l, poll.job)
    BY <1>2, <1>4, <2>1 DEF CloseSeen
  <2> QED
    BY <1>1, <1>2, <1>4, <2>2, KnownStep
<1>5. CASE Leaving(l) /\ Exit \notin accepted[l]
  <2>1. CASE UNCHANGED poll
    <3>1. ~PollClose
      BY <1>0, <2>1, NextFields, IdleFields DEF PollClose, NextJob, PollFails
    <3> QED
      BY <1>4, <1>5, <2>1, <3>1
  <2>2. CASE Tick
    <3>1. poll'.step = poll.step /\ poll'.job = poll.job /\ poll'.rows = poll.rows
      BY <1>0, <2>2, DelayedFields DEF Tick
    <3>2. ~PollClose
      BY <1>0, <3>1, NextFields, IdleFields DEF PollClose, NextJob, PollFails
    <3> QED
      BY <1>4, <1>5, <3>1, <3>2
  <2>3. ~PollDue /\ poll' # Idle /\ poll' # Handling(poll, "next", None)
    BY <1>0, NextFields, IdleFields DEF PollDue, Loaded, Idle
  <2>4. ~PollNext
    <3>1. SUFFICES ASSUME NEW j \in poll.due, poll' = Handling(poll, "fetch", j) PROVE FALSE
      BY DEF PollNext
    <3>2. j \in Nat /\ "fetch" \in AllPollSteps
      BY <1>0, PollTypes DEF AllPollSteps, PollSteps
    <3> QED
      BY <1>0, <3>1, <3>2, HandlingFields
  <2>5. ASSUME PollFetch \/ PollPost, NEW s \in PollSteps, poll' = Handling(poll, s, poll.job)
        PROVE  FALSE
    <3>1. s \in AllPollSteps /\ poll.job \in Nat
      BY <1>0, PollTypes DEF AllPollSteps
    <3>2. poll'.step = s /\ poll'.job = poll.job /\ poll'.rows = poll.rows /\ l = Subject
      BY <1>0, <2>5, <3>1, HandlingFields DEF Subject, Polling
    <3>3. CASE PollFetch
      <4>1. \E o \in Offers : Reads(Subject, o) /\ o.status = "started"
        <5>1. PICK t \in PollSteps : poll' = Handling(poll, t, poll.job)
                 /\ (t = "error" \/ \E o \in Offers : Reads(Subject, o)
                      /\ t = CASE o.status = "started" -> "close"
                               [] o.status = "candidate" -> "post"
                               [] o.status = "absent" -> "wait")
          BY <3>3 DEF PollFetch, PollGoes, PollSteps, Offers
        <5>2. t = s
          BY <1>0, <3>1, <3>2, <5>1, HandlingFields DEF AllPollSteps
        <5> QED
          BY <3>2, <5>1, <5>2 DEF Offers
      <4>2. offer[l].status = "started"
        BY <3>2, <4>1 DEF Reads, Absent
      <4> QED
        BY <1>5, <4>2 DEF Leaving
    <3>4. CASE PollPost
      <4> DEFINE w == Enter(Polling.price)
      <4>1. ASSUME NEW t \in {"wait", "error"}
            PROVE  ~PollGoes(t)
        <5>1. t \in AllPollSteps /\ t \notin {"close", "restore"}
          BY DEF AllPollSteps, PollSteps
        <5>2. Handling(poll, t, poll.job).step = t
          BY <1>0, <3>1, <5>1, HandlingFields
        <5>3. poll'.step # t
          BY <5>1
        <5> QED
          BY <5>2, <5>3 DEF PollGoes
      <4>2. Take(l, w) \/ Reached(l, w) \/ Unseen(l, "transport")
        BY <3>2, <3>4, <4>1 DEF PollPost
      <4>3. ~Unseen(l, "transport")
        BY <1>1, ZenonT(30) DEF Unseen, TypeOK
      <4>4. w \in accepted'[l] /\ w.op = "enter"
        BY <1>1, <4>2, <4>3 DEF Take, Reached, Enter, TypeOK
      <4> QED
        BY <4>4 DEF Leaving
    <3> QED
      BY <2>5, <3>3, <3>4
  <2> QED
    BY <2>1, <2>2, <2>3, <2>4, <2>5, PollMoves
<1> QED
  BY <1>1, <1>3, <1>5, LeavingMoves

KnownInv == AttemptsInv /\ ExitSeen /\ OutSeen /\ CloseSeen

LEMMA KnownInit == Init => KnownInv
<1> SUFFICES ASSUME Init PROVE KnownInv
  OBVIOUS
<1>1. ExitSeen
  BY DEF Init, ExitSeen
<1>2. OutSeen
  BY DEF Init, OutSeen, Leaving, Known
<1>3. CloseSeen
  BY IdleFields DEF Init, CloseSeen
<1> QED
  BY <1>1, <1>2, <1>3, AttemptsInit DEF KnownInv

LEMMA KnownStepInv == KnownInv /\ [Next]_vars => KnownInv'
  BY AttemptsStep, ExitSeenStep, OutSeenStep, CloseSeenStep DEF KnownInv, AttemptsInv

LEMMA KnownShown == KnownInv => KnownOut
<1> SUFFICES ASSUME KnownInv, NEW l \in Listings, Leaving(l), lapsed[l] = {}
             PROVE  Changing(l) \/ Pending(l) # {} \/ told[l]
  BY DEF KnownOut
<1>1. Known(l, None)
  BY DEF KnownInv, OutSeen
<1>2. Busy(l) => Changing(l)
  BY DEF Busy, Serving, BusySteps, OutSteps, Changing
<1> QED
  BY <1>1, <1>2 DEF Known

\* A listing that the program took out of its campaign to raise its price never stays
\* out unknown: a request is at it, a job waits to enter it again, or its operator was
\* told, unless a write got no answer, the process died or a job was set anew under the
\* poller.
THEOREM KnownOutHolds == Spec => []KnownOut
<1>1. Spec => []KnownInv
  BY KnownInit, KnownStepInv, PTL DEF Spec
<1> QED
  BY <1>1, KnownShown, PTL

---------------------------------------------------------------------------
(* The buckets of sales                                                    *)

\* What handles an order.
Storers == [step : {"idle", "head", "lines", "announce"}, order : Orders \cup {0},
            version : Buckets!Versions \cup {Buckets!NoVersion}]

BucketTypes ==
    /\ tiny \in [Orders -> Buckets!Versions \cup {Buckets!NoVersion}]
    /\ heads \in [Orders -> Buckets!Heads] /\ lines \in [Orders -> Buckets!Lines]
    /\ units \in Buckets!Components
    /\ due \subseteq Orders /\ hooks \subseteq Orders /\ queue \subseteq SUBSET Buckets!Days
    /\ hand \in [Buckets!Consumers -> Storers]
    /\ DOMAIN buckets \subseteq Buckets!Keys
    /\ silent \subseteq Buckets!Days

\* What waits or is stored has a version at Tiny, and a stored order has a day.
Placed ==
    /\ \A o \in Orders : tiny[o] = Buckets!NoVersion => heads[o] = Buckets!Head(Buckets!NoVersion)
    /\ \A o \in due \cup hooks : tiny[o] # Buckets!NoVersion
    /\ \A c \in Buckets!Consumers : hand[c].step # "idle" =>
         /\ hand[c].order \in Orders /\ hand[c].version # Buckets!NoVersion
         /\ tiny[hand[c].order] # Buckets!NoVersion
         /\ hand[c].step # "head" => heads[hand[c].order].day \in Buckets!Days

\* The one refresh: it has deleted what it will insert.
Task == run["current"]
Tasks == [step : {"off", "delete", "heads", "lines", "insert"}, period : SUBSET Buckets!Days,
          heads : {<<>>} \cup [Orders -> Buckets!Heads],
          lines : {<<>>} \cup [Orders -> Buckets!Lines], units : Buckets!Components]
Empty(day) == \A k \in DOMAIN buckets : k.day # day
OneTask ==
    /\ DOMAIN run = Buckets!Runs /\ run["lost"] = Buckets!Off
    /\ Task \in Tasks
    /\ Task.step = "off" <=> Task = Buckets!Off
    /\ Task.step \in {"lines", "insert"} => Task.heads \in [Orders -> Buckets!Heads]
    /\ Task.step = "insert" => Task.lines \in [Orders -> Buckets!Lines]
    /\ Task.step \in {"heads", "lines", "insert"} => \A day \in Task.period : Empty(day)

\* What the refresh has read of a day is still so.
HeadsRead(task, day) ==
    \A o \in Orders : heads[o].day = day \/ task.heads[o].day = day => task.heads[o] = heads[o]
LinesRead(task, day) ==
    /\ task.units = units
    /\ \A o \in Orders : heads[o].day = day => task.lines[o] = lines[o]
Told(task, day) ==
    IF day \notin task.period THEN Buckets!Shown(day)
    ELSE /\ task.step \in {"lines", "insert"} => HeadsRead(task, day)
         /\ task.step = "insert" => LinesRead(task, day)

\* A refresh of it waits, or the webhook's consumer will ask for one.
Coming(day) ==
    \/ \E p \in queue : day \in p
    \/ hand["webhook"].step \in {"lines", "announce"} /\ heads[hand["webhook"].order].day = day

Announced == \A day \in Buckets!Days \ silent : Told(Task, day) \/ Coming(day)
BucketParts == BucketTypes /\ Placed /\ OneTask /\ Announced
BucketInv == "calm" \in DOMAIN left /\ (left.calm => BucketParts)

LEMMA BucketsSize == \A S : Buckets!Cardinality(S) = Cardinality(S)
  BY DEF Buckets!Cardinality, Cardinality

LEMMA OpenSize ==
  ASSUME NEW day, NEW sku
  PROVE  /\ Buckets!Cardinality(Buckets!Open(day, sku)) \in Nat /\ Buckets!Cardinality({}) = 0
         /\ Buckets!Open(day, sku) = {} => Buckets!Cardinality(Buckets!Open(day, sku)) = 0
  <1>1. Buckets!Open(day, sku) \subseteq Orders BY DEF Buckets!Open
  <1>2. IsFiniteSet(Buckets!Open(day, sku)) BY <1>1, BucketsAssumption, FS_Subset
  <1> QED BY <1>2, BucketsSize, FS_CardinalityType, FS_EmptySet

\* The days and the heads of orders.
LEMMA HeadDays ==
  \A h \in Buckets!Heads :
     /\ h = [day |-> h.day, situation |-> h.situation]
     /\ h.day \in Buckets!Days => h.situation \in {"open", "cancelled"}
     /\ h.day \in Buckets!Days \cup {0}
     /\ h.day \notin Buckets!Days => h = Buckets!Head(Buckets!NoVersion)
  BY DEF Buckets!Heads, Buckets!Head, Buckets!Versions, Buckets!NoVersion, Buckets!Days, Buckets!None

\* Versions have heads, of a day.
LEMMA VersionHeads ==
  \A v \in Buckets!Versions :
     /\ Buckets!Head(v) \in Buckets!Heads /\ Buckets!Head(v).day = v.day
     /\ v.day \in Buckets!Days /\ v.sku \in Buckets!Lines
  BY DEF Buckets!Heads, Buckets!Head, Buckets!Versions, Buckets!Days, Buckets!Lines, Buckets!Skus

\* What a refresh adds up for a day that it has read as it is.
LEMMA AddedUp ==
  ASSUME NEW task, task.units \in Buckets!Components, units = task.units,
         task.heads \in [Orders -> Buckets!Heads], task.lines \in [Orders -> Buckets!Lines],
         heads \in [Orders -> Buckets!Heads], lines \in [Orders -> Buckets!Lines],
         NEW day \in Buckets!Days, day \in task.period, NEW sku \in Buckets!Skus,
         HeadsRead(task, day), LinesRead(task, day)
  PROVE  LET new == Buckets!Accumulated(task)
             Added(kit) == LET k == [day |-> day, sku |-> sku, kit |-> kit] IN
                           IF k \in DOMAIN new THEN new[k] ELSE [units |-> 0, revenue |-> 0]
         IN  /\ Added(Buckets!None).units + Added("kit").units = Buckets!Demand(day, sku)
             /\ Added(Buckets!None).revenue + Added("kit").revenue
                  = Buckets!Price(sku) * Buckets!Cardinality(Buckets!Open(day, sku))
  <1> DEFINE all == Buckets!Counted(task)
             kits == {o \in all : Buckets!Expands(task, o)}
             new == Buckets!Accumulated(task)
             k1 == [day |-> day, sku |-> sku, kit |-> Buckets!None]
             k2 == [day |-> day, sku |-> sku, kit |-> "kit"]
             D(k) == {o \in all : Buckets!Direct(task, o) = k}
             W(k) == {o \in kits : Buckets!Expansion(task, o) = k}
             open == Buckets!Open(day, sku)
             openKits == Buckets!Open(day, "kit")
  <1>1. /\ DOMAIN new = {Buckets!Direct(task, o) : o \in all} \cup {Buckets!Expansion(task, o) : o \in kits}
        /\ \A k \in DOMAIN new : new[k] =
             [units |-> Buckets!Cardinality(D(k)) + task.units * Buckets!Cardinality(W(k)),
              revenue |-> Buckets!Price(k.sku) * Buckets!Cardinality(D(k))]
    BY DEF Buckets!Accumulated
  <1>2. \A k : k \in DOMAIN new <=> D(k) # {} \/ W(k) # {} BY <1>1
  <1>3. Buckets!Skus = {"kit", "part"} /\ Buckets!None = "none" BY DEF Buckets!Skus, Buckets!None
  <1>4. \A o \in Orders : task.heads[o].day = day =>
           /\ task.heads[o] = heads[o] /\ heads[o] = [day |-> day, situation |-> heads[o].situation]
           /\ heads[o].situation \in {"open", "cancelled"} /\ task.lines[o] = lines[o]
    BY HeadDays DEF HeadsRead, LinesRead
  <1>5. \A o \in Orders : heads[o].day = day => task.heads[o].day = day BY DEF HeadsRead
  <1>6. \A o \in Orders : o \in all /\ task.heads[o].day = day <=>
            heads[o] = [day |-> day, situation |-> "open"] /\ lines[o] # Buckets!None
    BY <1>4, <1>5 DEF Buckets!Counted
  <1>7. D(k1) = open
    BY <1>3, <1>4, <1>5, <1>6 DEF Buckets!Direct, Buckets!Open, Buckets!Counted
  <1>8. W(k1) = {} BY <1>3 DEF Buckets!Expansion
  <1>9. D(k2) = {} BY <1>3 DEF Buckets!Direct
  <1>10. W(k2) = IF sku = "part" /\ units > 0 THEN openKits ELSE {}
    BY <1>3, <1>4, <1>5, <1>6 DEF Buckets!Expansion, Buckets!Expands, Buckets!Open, Buckets!Counted
  <1>11. /\ Buckets!Cardinality(open) \in Nat /\ Buckets!Cardinality({}) = 0
         /\ Buckets!Cardinality(openKits) \in Nat
    BY OpenSize
  <1>12. k1.sku = sku /\ k2.sku = sku /\ Buckets!Price(sku) \in {1, 3} /\ units \in {0, 1, 2}
    BY DEF Buckets!Price, Buckets!Components
  <1> DEFINE Added(k) == IF k \in DOMAIN new THEN new[k] ELSE [units |-> 0, revenue |-> 0]
  <1>13. Added(k1) = [units |-> Buckets!Cardinality(open),
                      revenue |-> Buckets!Price(sku) * Buckets!Cardinality(open)]
    <2>1. CASE k1 \in DOMAIN new
      <3>1. new[k1] = [units |-> Buckets!Cardinality(open) + task.units * Buckets!Cardinality({}),
                       revenue |-> Buckets!Price(sku) * Buckets!Cardinality(open)]
        <4> HIDE DEF D, W, new, k1, open
        <4> QED BY <1>1, <1>7, <1>8, <1>12, <2>1
      <3>2. Buckets!Cardinality(open) + task.units * Buckets!Cardinality({}) = Buckets!Cardinality(open)
        BY <1>11, <1>12
      <3> QED BY <2>1, <3>1, <3>2
    <2>2. CASE k1 \notin DOMAIN new
      <3>1. open = {} BY <1>2, <1>7, <2>2
      <3>2. Buckets!Price(sku) * 0 = 0 BY <1>12
      <3> QED BY <1>11, <2>2, <3>1, <3>2
    <2> QED BY <2>1, <2>2
  <1>14. Added(k2) = [units |-> IF sku = "part" THEN units * Buckets!Cardinality(openKits) ELSE 0,
                      revenue |-> 0]
    <2> DEFINE w == Buckets!Cardinality(W(k2))
    <2>1. units * w = (IF sku = "part" THEN units * Buckets!Cardinality(openKits) ELSE 0)
      <3>1. CASE sku = "part" /\ units > 0
        <4>1. W(k2) = openKits BY <1>10, <3>1
        <4> QED BY <3>1, <4>1
      <3>2. CASE ~(sku = "part" /\ units > 0)
        <4>1. w = 0 BY <1>10, <1>11, <3>2
        <4>2. units * w = 0 BY <1>12, <4>1
        <4>3. sku = "part" => units = 0 BY <1>12, <3>2
        <4>4. 0 * Buckets!Cardinality(openKits) = 0 BY <1>11
        <4> HIDE DEF w
        <4> QED BY <4>2, <4>3, <4>4
      <3> QED BY <3>1, <3>2
    <2>2. CASE k2 \in DOMAIN new
      <3>1. new[k2] = [units |-> Buckets!Cardinality({}) + task.units * w,
                       revenue |-> Buckets!Price(sku) * Buckets!Cardinality({})]
        <4> HIDE DEF D, W, new, k2
        <4> QED BY <1>1, <1>9, <1>12, <2>2 DEF w
      <3>2. units * w \in Nat
        <4> HIDE DEF w
        <4> QED BY <1>11, <1>12, <2>1
      <3>3. Buckets!Cardinality({}) + task.units * w = units * w
        <4> HIDE DEF w
        <4> QED BY <1>11, <3>2
      <3>4. Buckets!Price(sku) * Buckets!Cardinality({}) = 0 BY <1>11, <1>12
      <3> QED BY <2>1, <2>2, <3>1, <3>3, <3>4
    <2>3. CASE k2 \notin DOMAIN new
      <3>1. w = 0 BY <1>2, <1>11, <2>3
      <3>2. units * w = 0 BY <1>12, <3>1
      <3> QED BY <2>1, <2>3, <3>2
    <2> QED BY <2>2, <2>3
  <1>15. /\ Added(k1).units + Added(k2).units = Buckets!Demand(day, sku)
         /\ Added(k1).revenue + Added(k2).revenue = Buckets!Price(sku) * Buckets!Cardinality(open)
    <2>1. Added(k1).units = Buckets!Cardinality(open) /\ Added(k2).revenue = 0
          /\ Added(k1).revenue = Buckets!Price(sku) * Buckets!Cardinality(open)
          /\ Added(k2).units = IF sku = "part" THEN units * Buckets!Cardinality(openKits) ELSE 0
      BY <1>13, <1>14
    <2>2. Buckets!Price(sku) * Buckets!Cardinality(open) \in Int BY <1>11, <1>12
    <2> HIDE DEF Added
    <2> QED BY <2>1, <2>2 DEF Buckets!Demand
  <1> QED BY <1>15

---------------------------------------------------------------------------
\* What a day shows depends on its orders, its rows and the catalog.
LEMMA ShownStays ==
  ASSUME NEW day, Buckets!Shown(day), units' = units,
         \A o \in Orders : heads[o].day = day \/ heads'[o].day = day =>
             heads'[o] = heads[o] /\ lines'[o] = lines[o],
         \A k : k.day = day => /\ k \in DOMAIN buckets' <=> k \in DOMAIN buckets
                               /\ k \in DOMAIN buckets => buckets'[k] = buckets[k]
  PROVE  Buckets!Shown(day)'
  <1>1. \A sku : Buckets!Open(day, sku)' = Buckets!Open(day, sku)
    BY DEF Buckets!Open
  <1>2. \A sku : Buckets!Demand(day, sku)' = Buckets!Demand(day, sku)
    BY <1>1 DEF Buckets!Demand
  <1>3. \A sku, kit : Buckets!Row(day, sku, kit)' = Buckets!Row(day, sku, kit)
    BY DEF Buckets!Row
  <1> QED BY <1>1, <1>2, <1>3 DEF Buckets!Shown

\* A day stays told as long as its orders stay as they are.
LEMMA ToldStays ==
  ASSUME NEW day, Told(Task, day), Task' = Task, units' = units, buckets' = buckets,
         \A o \in Orders : heads[o].day = day \/ heads'[o].day = day =>
             heads'[o] = heads[o] /\ lines'[o] = lines[o]
  PROVE  Told(Task, day)'
  <1>1. CASE day \notin Task.period
    <2>1. Buckets!Shown(day)' BY <1>1, ShownStays DEF Told
    <2> QED BY <1>1, <2>1 DEF Told
  <1>2. CASE day \in Task.period
    <2> DEFINE task == Task
    <2>0. task' = task OBVIOUS
    <2> HIDE DEF task
    <2>1. ASSUME task.step \in {"lines", "insert"} PROVE HeadsRead(task, day)'
      <3>1. HeadsRead(task, day) BY <1>2, <2>1 DEF Told, task
      <3> QED BY <2>0, <3>1 DEF HeadsRead
    <2>2. ASSUME task.step = "insert" PROVE LinesRead(task, day)'
      <3>1. LinesRead(task, day) BY <1>2, <2>2 DEF Told, task
      <3> QED BY <2>0, <3>1 DEF LinesRead
    <2>3. day \in Task'.period BY <1>2
    <2> QED BY <2>0, <2>1, <2>2, <2>3 DEF Told, task
  <1> QED BY <1>1, <1>2

\* The refresh rests in these steps.
TaskRests == run' = run /\ buckets' = buckets
LEMMA OneTaskStays == ASSUME OneTask, TaskRests PROVE OneTask'
  BY DEF OneTask, TaskRests, Task, Empty

\* Steps that change no order, line or catalog, and take nothing off the queue.
LEMMA QuietStep ==
  ASSUME BucketParts, TaskRests, UNCHANGED <<heads, lines, units>>, queue \subseteq queue',
         silent \subseteq silent',
         \A day \in Buckets!Days : Coming(day) => Coming(day)'
  PROVE  OneTask' /\ Announced'
  <1>1. OneTask' BY OneTaskStays DEF BucketParts
  <1>2. Task' = Task BY DEF TaskRests, Task
  <1>3. ASSUME NEW day \in Buckets!Days, day \notin silent' PROVE (Told(Task, day) \/ Coming(day))'
    <2>1. Told(Task, day) \/ Coming(day) BY <1>3 DEF BucketParts, Announced
    <2>2. Told(Task, day) => Told(Task, day)' BY <1>2, ToldStays DEF TaskRests
    <2> QED BY <2>1, <2>2
  <1> QED BY <1>1, <1>3 DEF Announced

LEMMA ChangeStays ==
  ASSUME BucketParts, NEW o \in Orders, Buckets!Change(o)
  PROVE  BucketParts'
  <1>1. PICK v \in Buckets!Versions : tiny' = [tiny EXCEPT ![o] = v]
    BY DEF Buckets!Change
  <1>2. v # Buckets!NoVersion BY DEF Buckets!Versions, Buckets!NoVersion
  <1>3. UNCHANGED <<heads, lines, units, due, queue, hand, run, buckets, silent>>
        /\ (hooks' = hooks \/ hooks' = hooks \cup {o})
    BY DEF Buckets!Change, Buckets!mirror
  <1>4. BucketTypes' BY <1>1, <1>3 DEF BucketParts, BucketTypes
  <1>5. tiny'[o] = v /\ \A p \in Orders : p # o => tiny'[p] = tiny[p]
    BY <1>1 DEF BucketParts, BucketTypes
  <1>6. Placed'
    <2>1. \A p \in Orders : tiny'[p] = Buckets!NoVersion => tiny[p] = Buckets!NoVersion
      BY <1>2, <1>5
    <2>2. \A p \in Orders : tiny[p] # Buckets!NoVersion => tiny'[p] # Buckets!NoVersion
      BY <2>1
    <2>3. \A p \in Orders : tiny'[p] = Buckets!NoVersion => heads'[p] = Buckets!Head(Buckets!NoVersion)
      BY <1>3, <2>1 DEF BucketParts, Placed
    <2>4. \A p \in due' \cup hooks' : tiny'[p] # Buckets!NoVersion
      BY <1>2, <1>3, <1>5, <2>2 DEF BucketParts, Placed, BucketTypes
    <2>5. \A c \in Buckets!Consumers : hand'[c].step # "idle" =>
             /\ hand'[c].order \in Orders /\ hand'[c].version # Buckets!NoVersion
             /\ tiny'[hand'[c].order] # Buckets!NoVersion
             /\ hand'[c].step # "head" => heads'[hand'[c].order].day \in Buckets!Days
      BY <1>3, <2>2 DEF BucketParts, Placed
    <2> QED BY <2>3, <2>4, <2>5 DEF Placed
  <1>7. OneTask' /\ Announced'
    BY <1>3, QuietStep DEF TaskRests, Coming
  <1> QED BY <1>4, <1>6, <1>7 DEF BucketParts

LEMMA LearnKitStays ==
  ASSUME BucketParts, Buckets!LearnKit
  PROVE  BucketParts'
  <1>1. UNCHANGED <<tiny, heads, lines, due, hooks, queue, hand, run, buckets>>
        /\ units' = 2 /\ silent' = Buckets!Days
    BY DEF Buckets!LearnKit, Buckets!mirror, Buckets!waiting
  <1>2. BucketTypes' BY <1>1 DEF BucketParts, BucketTypes, Buckets!Components
  <1>3. Placed' BY <1>1 DEF BucketParts, Placed
  <1>4. OneTask' BY <1>1, OneTaskStays DEF BucketParts, TaskRests
  <1>5. Announced' BY <1>1 DEF Announced, Buckets!Days
  <1> QED BY <1>2, <1>3, <1>4, <1>5 DEF BucketParts

\* The jobs.
LEMMA JobsStay ==
  ASSUME BucketParts, Buckets!Incremental \/ Buckets!Reconcile \/ Buckets!SaleBucketsRefreshJob
  PROVE  BucketParts'
  <1> DEFINE news == {o \in Orders : Buckets!NewOrChanged(o) \/ Buckets!Unmirrored(o)}
  <1>1. /\ UNCHANGED <<tiny, heads, lines, units, hooks, hand, run, buckets, silent>>
        /\ due \subseteq due' /\ due' \subseteq due \cup news
        /\ queue \subseteq queue' /\ queue' \subseteq queue \cup {{Buckets!Today}, Buckets!Days}
    BY DEF Buckets!Incremental, Buckets!Reconcile, Buckets!SaleBucketsRefreshJob, Buckets!mirror,
           Buckets!waiting
  <1>2. \A o \in news : tiny[o] # Buckets!NoVersion
    BY DEF BucketParts, Placed, Buckets!NewOrChanged, Buckets!Unmirrored, Buckets!Head,
           Buckets!NoVersion
  <1>3. {Buckets!Today} \subseteq Buckets!Days BY DEF Buckets!Today, Buckets!Days
  <1>4. BucketTypes'
    <2>1. news \subseteq Orders OBVIOUS
    <2> HIDE DEF news
    <2> QED BY <1>1, <1>3, <2>1 DEF BucketParts, BucketTypes
  <1>5. Placed'
    <2> HIDE DEF news
    <2> QED BY <1>1, <1>2 DEF BucketParts, Placed
  <1>6. \A day \in Buckets!Days : Coming(day) => Coming(day)' BY <1>1 DEF Coming
  <1>7. OneTask' /\ Announced' BY <1>1, <1>6, QuietStep DEF TaskRests
  <1> QED BY <1>4, <1>5, <1>7 DEF BucketParts

LEMMA DeliverStays ==
  ASSUME BucketParts, NEW c \in Buckets!Consumers, NEW o \in Orders, Buckets!Deliver(c, o)
  PROVE  BucketParts'
  <1> DEFINE x == [step |-> "head", order |-> o, version |-> tiny[o]]
  <1>1. /\ hand[c] = Buckets!Resting /\ hand' = [hand EXCEPT ![c] = x]
        /\ UNCHANGED <<tiny, heads, lines, units, queue, run, buckets, silent>>
        /\ due' \subseteq due /\ hooks' \subseteq hooks /\ o \in due \cup hooks
    BY DEF Buckets!Deliver, Buckets!Fetched, Buckets!mirror
  <1>2. tiny[o] # Buckets!NoVersion BY <1>1 DEF BucketParts, Placed
  <1>3. x \in Storers /\ x.step = "head" /\ x.order = o /\ x.version # Buckets!NoVersion
    BY <1>2 DEF BucketParts, BucketTypes, Storers
  <1>4. hand[c].step = "idle" BY <1>1 DEF Buckets!Resting
  <1> HIDE DEF x
  <1>5. hand'[c] = x /\ \A d \in Buckets!Consumers : d # c => hand'[d] = hand[d]
    BY <1>1 DEF BucketParts, BucketTypes
  <1>6. BucketTypes' BY <1>1, <1>3 DEF BucketParts, BucketTypes
  <1>7. Placed'
    <2>1. \A d \in Buckets!Consumers : hand'[d].step # "idle" =>
             /\ hand'[d].order \in Orders /\ hand'[d].version # Buckets!NoVersion
             /\ tiny'[hand'[d].order] # Buckets!NoVersion
             /\ hand'[d].step # "head" => heads'[hand'[d].order].day \in Buckets!Days
      BY <1>1, <1>2, <1>3, <1>5 DEF BucketParts, Placed
    <2> QED BY <1>1, <2>1 DEF BucketParts, Placed
  <1>8. \A day \in Buckets!Days : Coming(day) => Coming(day)'
    BY <1>1, <1>3, <1>4, <1>5 DEF Coming, Buckets!Consumers
  <1>9. OneTask' /\ Announced' BY <1>1, <1>8, QuietStep DEF TaskRests
  <1> QED BY <1>6, <1>7, <1>9 DEF BucketParts

---------------------------------------------------------------------------
\* The consumers that store an order.
LEMMA StoreHeadStays ==
  ASSUME BucketParts, NEW c \in Buckets!Consumers, Buckets!StoreHead(c)
  PROVE  BucketParts'
  <1> DEFINE x == hand[c]
             o == x.order
             v == x.version
             y == [x EXCEPT !.step = "lines"]
  <1>1. /\ x.step = "head"
        /\ heads' = [heads EXCEPT ![o] = Buckets!Head(v)]
        /\ silent' = silent \cup Buckets!Unannounced(c, o, v.day)
        /\ hand' = [hand EXCEPT ![c] = y]
        /\ UNCHANGED <<tiny, lines, units, due, hooks, queue, run, buckets>>
    BY DEF Buckets!StoreHead, Buckets!waiting
  <1>2. x \in Storers /\ o \in Orders /\ v \in Buckets!Versions /\ tiny[o] # Buckets!NoVersion
    BY <1>1 DEF BucketParts, BucketTypes, Placed, Storers
  <1>3. y \in Storers /\ y.step = "lines" /\ y.order = o /\ y.version = v
    BY <1>2 DEF Storers
  <1>4. Buckets!Head(v) \in Buckets!Heads /\ Buckets!Head(v).day = v.day /\ v.day \in Buckets!Days
    BY <1>2, VersionHeads
  <1>5. v # Buckets!NoVersion BY <1>4 DEF Buckets!NoVersion, Buckets!Days
  <1> HIDE DEF y, o, v, x
  <1>6. hand'[c] = y /\ \A d \in Buckets!Consumers : d # c => hand'[d] = hand[d]
    BY <1>1 DEF BucketParts, BucketTypes
  <1>7. heads'[o] = Buckets!Head(v) /\ \A p \in Orders : p # o => heads'[p] = heads[p]
    BY <1>1, <1>2 DEF BucketParts, BucketTypes
  <1>8. Buckets!Unannounced(c, o, v.day) \subseteq Buckets!Days BY DEF Buckets!Unannounced
  <1>9. BucketTypes' BY <1>1, <1>2, <1>3, <1>4, <1>8 DEF BucketParts, BucketTypes
  <1>10. Placed'
    <2>1. \A p \in Orders : heads[p].day \in Buckets!Days => heads'[p].day \in Buckets!Days
      BY <1>4, <1>7
    <2>2. \A d \in Buckets!Consumers : hand'[d].step # "idle" =>
             /\ hand'[d].order \in Orders /\ hand'[d].version # Buckets!NoVersion
             /\ tiny'[hand'[d].order] # Buckets!NoVersion
             /\ hand'[d].step # "head" => heads'[hand'[d].order].day \in Buckets!Days
      <3> SUFFICES ASSUME NEW d \in Buckets!Consumers, hand'[d].step # "idle"
                   PROVE  /\ hand'[d].order \in Orders /\ hand'[d].version # Buckets!NoVersion
                          /\ tiny'[hand'[d].order] # Buckets!NoVersion
                          /\ hand'[d].step # "head" => heads'[hand'[d].order].day \in Buckets!Days
        OBVIOUS
      <3>1. CASE d = c BY <1>1, <1>2, <1>3, <1>4, <1>5, <1>6, <1>7, <3>1
      <3>2. CASE d # c BY <1>1, <1>6, <2>1, <3>2 DEF BucketParts, Placed
      <3> QED BY <3>1, <3>2
    <2> QED BY <1>1, <1>2, <1>7, <2>2 DEF BucketParts, Placed
  <1>11. OneTask' BY <1>1, OneTaskStays DEF BucketParts, TaskRests
  <1>12. Announced'
    <2> SUFFICES ASSUME NEW day \in Buckets!Days, day \notin silent'
                 PROVE  (Told(Task, day) \/ Coming(day))'
      BY DEF Announced
    <2>1. CASE v.day = day
      <3>1. c # "item" BY <1>1, <1>8, <2>1 DEF Buckets!Unannounced
      <3>2. c = "webhook" BY <3>1 DEF Buckets!Consumers
      <3>3. hand'["webhook"].step = "lines" /\ hand'["webhook"].order = o BY <1>3, <1>6, <3>2
      <3>4. heads'[o].day = day BY <1>4, <1>7, <2>1
      <3> QED BY <3>3, <3>4 DEF Coming
    <2>2. CASE v.day # day
      <3>1. heads[o].day # day BY <1>1, <2>2 DEF Buckets!Unannounced
      <3>2. heads'[o].day # day BY <1>4, <1>7, <2>2
      <3>3. Told(Task, day) => Told(Task, day)'
        BY <1>1, <1>7, <3>1, <3>2, ToldStays DEF Task
      <3>4. Coming(day) => Coming(day)'
        <4>1. CASE \E p \in queue : day \in p BY <1>1, <4>1 DEF Coming
        <4>2. CASE hand["webhook"].step \in {"lines", "announce"} /\ heads[hand["webhook"].order].day = day
          <5>1. c # "webhook" BY <1>1, <4>2 DEF x
          <5>2. "webhook" \in Buckets!Consumers BY DEF Buckets!Consumers
          <5>3. hand'["webhook"] = hand["webhook"] BY <1>6, <5>1, <5>2
          <5>4. hand["webhook"].order \in Orders /\ hand["webhook"].order # o
            BY <3>1, <4>2, <5>2 DEF BucketParts, Placed
          <5> QED BY <1>7, <4>2, <5>3, <5>4 DEF Coming
        <4> QED BY <4>1, <4>2 DEF Coming
      <3> QED BY <1>1, <3>3, <3>4 DEF BucketParts, Announced
    <2> QED BY <2>1, <2>2
  <1> QED BY <1>9, <1>10, <1>11, <1>12 DEF BucketParts

LEMMA StoreLinesStays ==
  ASSUME BucketParts, NEW c \in Buckets!Consumers, Buckets!StoreLines(c)
  PROVE  BucketParts'
  <1> DEFINE x == hand[c]
             o == x.order
             v == x.version
  <1>1. /\ x.step = "lines"
        /\ lines' = [lines EXCEPT ![o] = v.sku]
        /\ UNCHANGED <<tiny, heads, units, due, hooks, queue, run, buckets>>
    BY DEF Buckets!StoreLines, Buckets!waiting
  <1>2. /\ x \in Storers /\ o \in Orders /\ v \in Buckets!Versions /\ tiny[o] # Buckets!NoVersion
        /\ heads[o].day \in Buckets!Days
    BY <1>1 DEF BucketParts, BucketTypes, Placed, Storers
  <1>3. v.sku \in Buckets!Lines BY <1>2, VersionHeads
  <1>4. PICK y \in Storers :
           /\ hand' = [hand EXCEPT ![c] = y]
           /\ y.step # "idle" => y.step = "announce" /\ y.order = o /\ y.version = v
           /\ c = "webhook" => y.step = "announce"
    <2>1. CASE c = "item"
      <3>1. Buckets!Resting \in Storers /\ Buckets!Resting.step = "idle"
        BY DEF Buckets!Resting, Storers
      <3> QED BY <2>1, <3>1 DEF Buckets!StoreLines
    <2>2. CASE c # "item"
      <3> DEFINE z == [x EXCEPT !.step = "announce"]
      <3>1. z \in Storers /\ z.step = "announce" /\ z.order = o /\ z.version = v
        BY <1>2 DEF Storers
      <3>2. hand' = [hand EXCEPT ![c] = z] BY <2>2 DEF Buckets!StoreLines
      <3> HIDE DEF z
      <3> QED BY <3>1, <3>2
    <2> QED BY <2>1, <2>2
  <1>5. silent' = (IF c = "item" THEN silent \cup {heads[o].day} ELSE silent)
    BY DEF Buckets!StoreLines
  <1> HIDE DEF o, v, x
  <1>6. hand'[c] = y /\ \A d \in Buckets!Consumers : d # c => hand'[d] = hand[d]
    BY <1>4 DEF BucketParts, BucketTypes
  <1>7. \A p \in Orders : p # o => lines'[p] = lines[p]
    BY <1>1, <1>2 DEF BucketParts, BucketTypes
  <1>8. BucketTypes' BY <1>1, <1>2, <1>3, <1>4, <1>5 DEF BucketParts, BucketTypes
  <1>9. Placed'
    <2>1. \A d \in Buckets!Consumers : hand'[d].step # "idle" =>
             /\ hand'[d].order \in Orders /\ hand'[d].version # Buckets!NoVersion
             /\ tiny'[hand'[d].order] # Buckets!NoVersion
             /\ hand'[d].step # "head" => heads'[hand'[d].order].day \in Buckets!Days
      <3> SUFFICES ASSUME NEW d \in Buckets!Consumers, hand'[d].step # "idle"
                   PROVE  /\ hand'[d].order \in Orders /\ hand'[d].version # Buckets!NoVersion
                          /\ tiny'[hand'[d].order] # Buckets!NoVersion
                          /\ hand'[d].step # "head" => heads'[hand'[d].order].day \in Buckets!Days
        OBVIOUS
      <3>1. CASE d = c
        <4>1. v # Buckets!NoVersion BY <1>1 DEF BucketParts, Placed, v, x
        <4> QED BY <1>1, <1>2, <1>4, <1>6, <3>1, <4>1
      <3>2. CASE d # c BY <1>1, <1>6, <3>2 DEF BucketParts, Placed
      <3> QED BY <3>1, <3>2
    <2> QED BY <1>1, <2>1 DEF BucketParts, Placed
  <1>10. OneTask' BY <1>1, OneTaskStays DEF BucketParts, TaskRests
  <1>11. Announced'
    <2> SUFFICES ASSUME NEW day \in Buckets!Days, day \notin silent'
                 PROVE  (Told(Task, day) \/ Coming(day))'
      BY DEF Announced
    <2>1. day \notin silent BY <1>5
    <2>2. CASE heads[o].day = day
      <3>1. c = "webhook" BY <1>5, <2>2 DEF Buckets!Consumers
      <3>2. hand'["webhook"].step = "announce" /\ hand'["webhook"].order = o BY <1>4, <1>6, <3>1
      <3> QED BY <1>1, <2>2, <3>2 DEF Coming
    <2>3. CASE heads[o].day # day
      <3>1. Told(Task, day) => Told(Task, day)' BY <1>1, <1>7, <2>3, ToldStays DEF Task
      <3>2. Coming(day) => Coming(day)'
        <4>1. CASE c = "webhook"
          <5>1. ~(heads[hand["webhook"].order].day = day) BY <2>3, <4>1 DEF o, x
          <5> QED BY <1>1, <5>1 DEF Coming
        <4>2. CASE c # "webhook"
          <5>1. hand'["webhook"] = hand["webhook"] BY <1>6, <4>2 DEF Buckets!Consumers
          <5> QED BY <1>1, <5>1 DEF Coming
        <4> QED BY <4>1, <4>2
      <3> QED BY <2>1, <3>1, <3>2 DEF BucketParts, Announced
    <2> QED BY <2>2, <2>3
  <1> QED BY <1>8, <1>9, <1>10, <1>11 DEF BucketParts

LEMMA AnnounceStays ==
  ASSUME BucketParts, Buckets!Announce
  PROVE  BucketParts'
  <1> DEFINE x == hand["webhook"]
             o == x.order
  <1>1. /\ x.step = "announce"
        /\ queue' = queue \cup {{heads[o].day}}
        /\ hand' = [hand EXCEPT !["webhook"] = Buckets!Resting]
        /\ UNCHANGED <<tiny, heads, lines, units, due, hooks, run, buckets, silent>>
    BY DEF Buckets!Announce, Buckets!waiting, Buckets!mirror
  <1>2. "webhook" \in Buckets!Consumers BY DEF Buckets!Consumers
  <1>3. heads[o].day \in Buckets!Days BY <1>1, <1>2 DEF BucketParts, Placed
  <1>4. Buckets!Resting \in Storers /\ Buckets!Resting.step = "idle"
    BY DEF Buckets!Resting, Storers
  <1>5. hand'["webhook"] = Buckets!Resting
        /\ \A d \in Buckets!Consumers : d # "webhook" => hand'[d] = hand[d]
    BY <1>1, <1>2 DEF BucketParts, BucketTypes
  <1>6. BucketTypes' BY <1>1, <1>3, <1>4 DEF BucketParts, BucketTypes
  <1>7. Placed'
    <2>1. \A d \in Buckets!Consumers : hand'[d].step # "idle" =>
             /\ hand'[d].order \in Orders /\ hand'[d].version # Buckets!NoVersion
             /\ tiny'[hand'[d].order] # Buckets!NoVersion
             /\ hand'[d].step # "head" => heads'[hand'[d].order].day \in Buckets!Days
      BY <1>1, <1>4, <1>5 DEF BucketParts, Placed
    <2> QED BY <1>1, <2>1 DEF BucketParts, Placed
  <1>8. \A day \in Buckets!Days : Coming(day) => Coming(day)' BY <1>1 DEF Coming
  <1>9. OneTask' /\ Announced' BY <1>1, <1>8, QuietStep DEF TaskRests
  <1> QED BY <1>6, <1>7, <1>9 DEF BucketParts

---------------------------------------------------------------------------
\* The refresh.  Only one is at work.
LEMMA OnlyCurrent ==
  ASSUME OneTask, NEW r \in Buckets!Runs, run[r].step \in {"delete", "heads", "lines", "insert"}
  PROVE  r = "current"
  <1>1. Buckets!Off.step = "off" BY DEF Buckets!Off
  <1>2. r # "lost" BY <1>1 DEF OneTask
  <1> QED BY <1>2 DEF Buckets!Runs

\* The refresh takes a step.
LEMMA TaskStep ==
  ASSUME OneTask, NEW y, run' = [run EXCEPT !["current"] = y]
  PROVE  DOMAIN run' = Buckets!Runs /\ run'["lost"] = Buckets!Off /\ Task' = y
  <1>1. "current" \in Buckets!Runs /\ "lost" \in Buckets!Runs BY DEF Buckets!Runs
  <1> QED BY <1>1 DEF OneTask, Task

LEMMA TakeStays ==
  ASSUME BucketParts, NEW period \in SUBSET Buckets!Days, Buckets!Take(period)
  PROVE  BucketParts'
  <1> DEFINE y == [Buckets!Off EXCEPT !.step = "delete", !.period = period]
  <1>1. /\ Task = Buckets!Off /\ queue' = queue \ {period}
        /\ run' = [run EXCEPT !["current"] = y]
        /\ UNCHANGED <<tiny, heads, lines, units, due, hooks, hand, buckets, silent>>
    BY DEF Buckets!Take, Task, Buckets!mirror, Buckets!waiting
  <1>2. /\ y.step = "delete" /\ y.period = period /\ y # Buckets!Off
        /\ Buckets!Off.step = "off" /\ Buckets!Off.period = {} /\ y \in Tasks
    <2> DEFINE off == Buckets!Off
    <2>1. off \in Tasks /\ off.step = "off" /\ off.period = {}
      BY DEF Buckets!Off, Tasks, Buckets!Components
    <2> HIDE DEF off
    <2>2. /\ [off EXCEPT !.step = "delete", !.period = period] \in Tasks
          /\ [off EXCEPT !.step = "delete", !.period = period].step = "delete"
          /\ [off EXCEPT !.step = "delete", !.period = period].period = period
      BY <2>1 DEF Tasks
    <2>3. y = [off EXCEPT !.step = "delete", !.period = period] BY DEF off
    <2>4. off = Buckets!Off BY DEF off
    <2> HIDE DEF y
    <2> QED BY <2>1, <2>2, <2>3, <2>4
  <1> HIDE DEF y
  <1>3. DOMAIN run' = Buckets!Runs /\ run'["lost"] = Buckets!Off /\ Task' = y
    BY <1>1, TaskStep DEF BucketParts
  <1>4. BucketTypes' BY <1>1 DEF BucketParts, BucketTypes
  <1>5. Placed' BY <1>1 DEF BucketParts, Placed
  <1>6. OneTask' BY <1>2, <1>3 DEF OneTask
  <1>7. Announced'
    <2> SUFFICES ASSUME NEW day \in Buckets!Days, day \notin silent'
                 PROVE  (Told(Task, day) \/ Coming(day))'
      BY DEF Announced
    <2>1. CASE day \in period BY <1>2, <1>3, <2>1 DEF Told
    <2>2. CASE day \notin period
      <3>1. Coming(day) => Coming(day)' BY <1>1, <2>2 DEF Coming
      <3>2. ASSUME Told(Task, day) PROVE Told(Task, day)'
        <4>1. Buckets!Shown(day) BY <1>1, <1>2, <3>2 DEF Told
        <4>2. Buckets!Shown(day)' BY <1>1, <4>1, ShownStays
        <4> QED BY <1>2, <1>3, <2>2, <4>2 DEF Told
      <3> QED BY <1>1, <3>1, <3>2 DEF BucketParts, Announced
    <2> QED BY <2>1, <2>2
  <1> QED BY <1>4, <1>5, <1>6, <1>7 DEF BucketParts

LEMMA DeletePeriodStays ==
  ASSUME BucketParts, Buckets!DeletePeriod("current")
  PROVE  BucketParts'
  <1> DEFINE x == Task
             y == [x EXCEPT !.step = "heads"]
  <1>0. OneTask BY DEF BucketParts
  <1>1. /\ x.step = "delete" /\ run' = [run EXCEPT !["current"] = y]
        /\ buckets' = [k \in Buckets!Outside(x.period) |-> buckets[k]]
        /\ silent' = silent \ x.period
        /\ UNCHANGED <<tiny, heads, lines, units, due, hooks, queue, hand>>
    <2>1. run' = [run EXCEPT !["current"].step = "heads"] BY DEF Buckets!DeletePeriod
    <2>2. run' = [run EXCEPT !["current"] = y] BY <1>0, <2>1 DEF OneTask, Buckets!Runs, Task
    <2> QED BY <2>2 DEF Buckets!DeletePeriod, Task, Buckets!mirror, Buckets!waiting
  <1>2. y \in Tasks /\ y.step = "heads" /\ y.period = x.period
    <2>1. x \in Tasks BY <1>0 DEF OneTask
    <2> HIDE DEF x
    <2> QED BY <2>1 DEF Tasks
  <1>3. Buckets!Off.step = "off" BY DEF Buckets!Off
  <1> HIDE DEF y
  <1>4. DOMAIN run' = Buckets!Runs /\ run'["lost"] = Buckets!Off /\ Task' = y
    BY <1>0, <1>1, TaskStep
  <1>5. /\ DOMAIN buckets' \subseteq DOMAIN buckets
        /\ \A k \in DOMAIN buckets' : k.day \notin x.period /\ buckets'[k] = buckets[k]
        /\ \A k \in DOMAIN buckets : k.day \notin x.period => k \in DOMAIN buckets'
    BY <1>1 DEF Buckets!Outside
  <1>6. BucketTypes' BY <1>1, <1>5 DEF BucketParts, BucketTypes
  <1>7. Placed' BY <1>1 DEF BucketParts, Placed
  <1>8. OneTask' BY <1>2, <1>3, <1>4, <1>5 DEF OneTask, Empty
  <1>9. Announced'
    <2> SUFFICES ASSUME NEW day \in Buckets!Days, day \notin silent'
                 PROVE  (Told(Task, day) \/ Coming(day))'
      BY DEF Announced
    <2>1. CASE day \in x.period BY <1>2, <1>4, <2>1 DEF Told
    <2>2. CASE day \notin x.period
      <3>1. Coming(day) => Coming(day)' BY <1>1 DEF Coming
      <3>2. ASSUME Told(Task, day) PROVE Told(Task, day)'
        <4>1. Buckets!Shown(day) BY <2>2, <3>2 DEF Told
        <4>2. Buckets!Shown(day)' BY <1>1, <1>5, <2>2, <4>1, ShownStays
        <4> QED BY <1>2, <1>4, <2>2, <4>2 DEF Told
      <3> QED BY <1>1, <2>2, <3>1, <3>2 DEF BucketParts, Announced
    <2> QED BY <2>1, <2>2
  <1> QED BY <1>6, <1>7, <1>8, <1>9 DEF BucketParts

\* The refresh reads what is stored of the days of its period.
LEMMA ReadStays ==
  ASSUME BucketParts, NEW y, run' = [run EXCEPT !["current"] = y],
         UNCHANGED <<tiny, heads, lines, units, due, hooks, queue, hand, buckets, silent>>,
         y \in Tasks, y.period = Task.period, Task.step \in {"heads", "lines"},
         y.step \in {"lines", "insert"}, y.heads \in [Orders -> Buckets!Heads],
         y.step = "insert" => y.lines \in [Orders -> Buckets!Lines],
         \A day \in Task.period : Told(Task, day) => Told(y, day)
  PROVE  BucketParts'
  <1>0. OneTask BY DEF BucketParts
  <1>1. DOMAIN run' = Buckets!Runs /\ run'["lost"] = Buckets!Off /\ Task' = y
    BY <1>0, TaskStep
  <1>2. Buckets!Off.step = "off" BY DEF Buckets!Off
  <1>3. BucketTypes' BY DEF BucketParts, BucketTypes
  <1>4. Placed' BY DEF BucketParts, Placed
  <1>5. OneTask' BY <1>0, <1>1, <1>2 DEF OneTask, Empty
  <1>6. Announced'
    <2> SUFFICES ASSUME NEW day \in Buckets!Days, day \notin silent'
                 PROVE  (Told(Task, day) \/ Coming(day))'
      BY DEF Announced
    <2>1. Coming(day) => Coming(day)' BY DEF Coming
    <2>2. ASSUME Told(Task, day) PROVE Told(Task, day)'
      <3>1. CASE day \in Task.period
        <4>1. Told(y, day) BY <2>2, <3>1
        <4>2. y.step \in {"lines", "insert"} => HeadsRead(y, day) BY <3>1, <4>1 DEF Told
        <4>3. y.step = "insert" => LinesRead(y, day) BY <3>1, <4>1 DEF Told
        <4>4. Task'.step \in {"lines", "insert"} => HeadsRead(Task, day)'
          BY <1>1, <4>2 DEF HeadsRead
        <4>5. Task'.step = "insert" => LinesRead(Task, day)' BY <1>1, <4>3 DEF LinesRead
        <4> QED BY <1>1, <3>1, <4>4, <4>5 DEF Told
      <3>2. CASE day \notin Task.period
        <4>1. Buckets!Shown(day) BY <2>2, <3>2 DEF Told
        <4>2. Buckets!Shown(day)' BY <4>1, ShownStays
        <4> QED BY <1>1, <3>2, <4>2 DEF Told
      <3> QED BY <3>1, <3>2
    <2> QED BY <2>1, <2>2 DEF BucketParts, Announced
  <1> QED BY <1>3, <1>4, <1>5, <1>6 DEF BucketParts

LEMMA ReadHeadsStays ==
  ASSUME BucketParts, Buckets!ReadHeads("current")
  PROVE  BucketParts'
  <1> DEFINE x == Task
             y == [x EXCEPT !.step = "lines", !.heads = heads]
  <1>1. /\ x.step = "heads" /\ run' = [run EXCEPT !["current"] = y]
        /\ UNCHANGED <<tiny, heads, lines, units, due, hooks, queue, hand, buckets, silent>>
    BY DEF Buckets!ReadHeads, BucketParts, OneTask, Buckets!Runs, Task, Buckets!mirror, Buckets!waiting
  <1>2. x \in Tasks /\ heads \in [Orders -> Buckets!Heads]
    BY DEF BucketParts, OneTask, BucketTypes
  <1>3. y \in Tasks /\ y.step = "lines" /\ y.period = x.period /\ y.heads = heads
    <2> HIDE DEF x
    <2> QED BY <1>2 DEF Tasks
  <1> HIDE DEF y
  <1>4. \A day \in x.period : Told(y, day) BY <1>3 DEF Told, HeadsRead
  <1> QED BY <1>1, <1>2, <1>3, <1>4, ReadStays

LEMMA ReadLinesStays ==
  ASSUME BucketParts, Buckets!ReadLines("current")
  PROVE  BucketParts'
  <1> DEFINE x == Task
             y == [x EXCEPT !.step = "insert", !.lines = lines, !.units = units]
  <1>1. /\ x.step = "lines" /\ run' = [run EXCEPT !["current"] = y]
        /\ UNCHANGED <<tiny, heads, lines, units, due, hooks, queue, hand, buckets, silent>>
    BY DEF Buckets!ReadLines, BucketParts, OneTask, Buckets!Runs, Task, Buckets!mirror, Buckets!waiting
  <1>2. /\ x \in Tasks /\ x.heads \in [Orders -> Buckets!Heads]
        /\ lines \in [Orders -> Buckets!Lines] /\ units \in Buckets!Components
    BY <1>1 DEF BucketParts, OneTask, BucketTypes
  <1>3. y \in Tasks /\ y.step = "insert" /\ y.period = x.period /\ y.heads = x.heads
        /\ y.lines = lines /\ y.units = units
    <2> HIDE DEF x
    <2> QED BY <1>2 DEF Tasks
  <1> HIDE DEF y
  <1>4. ASSUME NEW day \in x.period, Told(x, day) PROVE Told(y, day)
    <2>1. HeadsRead(x, day) BY <1>1, <1>4 DEF Told
    <2>2. HeadsRead(y, day) BY <1>3, <2>1 DEF HeadsRead
    <2>3. LinesRead(y, day) BY <1>3 DEF LinesRead
    <2> QED BY <1>3, <2>2, <2>3 DEF Told
  <1> QED BY <1>1, <1>2, <1>3, <1>4, ReadStays

LEMMA InsertStays ==
  ASSUME BucketParts, Buckets!Insert("current")
  PROVE  BucketParts'
  <1> DEFINE x == Task
             new == Buckets!Accumulated(x)
  <1>0. OneTask BY DEF BucketParts
  <1>1. /\ x.step = "insert" /\ run' = [run EXCEPT !["current"] = Buckets!Off]
        /\ buckets' = [k \in DOMAIN buckets \cup DOMAIN new |->
                          IF k \in DOMAIN buckets THEN buckets[k] ELSE new[k]]
        /\ UNCHANGED <<tiny, heads, lines, units, due, hooks, queue, hand, silent>>
    BY DEF Buckets!Insert, Task, Buckets!mirror, Buckets!waiting
  <1>2. /\ x \in Tasks /\ x.heads \in [Orders -> Buckets!Heads] /\ x.lines \in [Orders -> Buckets!Lines]
        /\ heads \in [Orders -> Buckets!Heads] /\ lines \in [Orders -> Buckets!Lines]
        /\ x.units \in Buckets!Components /\ x.period \subseteq Buckets!Days
    BY <1>1 DEF BucketParts, OneTask, BucketTypes, Tasks
  <1>3. \A k \in DOMAIN new : k \in Buckets!Keys /\ k.day \in x.period
    <2>1. \A o \in Buckets!Counted(x) :
             x.heads[o].day \in x.period /\ x.lines[o] \in Buckets!Skus
      <3> HIDE DEF x
      <3> QED BY <1>2 DEF Buckets!Counted, Buckets!Lines
    <2>2. \A k \in DOMAIN new : \E o \in Buckets!Counted(x) :
             k = Buckets!Direct(x, o) \/ k = Buckets!Expansion(x, o)
      BY DEF Buckets!Accumulated
    <2> HIDE DEF new, x
    <2> QED BY <1>2, <2>1, <2>2
          DEF Buckets!Direct, Buckets!Expansion, Buckets!Keys, Buckets!Skus
  <1>4. DOMAIN run' = Buckets!Runs /\ run'["lost"] = Buckets!Off /\ Task' = Buckets!Off
    BY <1>0, <1>1, TaskStep
  <1>5. Buckets!Off \in Tasks /\ Buckets!Off.step = "off" /\ Buckets!Off.period = {}
    BY DEF Buckets!Off, Tasks, Buckets!Components
  <1>6. DOMAIN buckets' = DOMAIN buckets \cup DOMAIN new BY <1>1
  <1>7. BucketTypes' BY <1>1, <1>3, <1>6 DEF BucketParts, BucketTypes
  <1>8. Placed' BY <1>1 DEF BucketParts, Placed
  <1>9. OneTask' BY <1>4, <1>5 DEF OneTask
  <1>10. ASSUME NEW day \in Buckets!Days, Told(x, day) PROVE Told(Task, day)'
    <2>1. CASE day \notin x.period
      <3>1. Buckets!Shown(day) BY <1>10, <2>1 DEF Told
      <3>2. \A k : k.day = day => /\ k \in DOMAIN buckets' <=> k \in DOMAIN buckets
                                  /\ k \in DOMAIN buckets => buckets'[k] = buckets[k]
        BY <1>1, <1>3, <1>6, <2>1
      <3>3. Buckets!Shown(day)' BY <1>1, <3>1, <3>2, ShownStays
      <3> QED BY <1>4, <1>5, <3>3 DEF Told
    <2>2. CASE day \in x.period
      <3>1. HeadsRead(x, day) /\ LinesRead(x, day) BY <1>1, <1>10, <2>2 DEF Told
      <3>2. \A k \in DOMAIN buckets : k.day # day BY <1>0, <1>1, <2>2 DEF OneTask, Empty
      <3>3. \A k : k.day = day => /\ k \in DOMAIN buckets' <=> k \in DOMAIN new
                                  /\ k \in DOMAIN new => buckets'[k] = new[k]
        BY <1>1, <1>6, <3>2
      <3>4. \A sku, kit : Buckets!Row(day, sku, kit)' =
               LET k == [day |-> day, sku |-> sku, kit |-> kit] IN
               IF k \in DOMAIN new THEN new[k] ELSE [units |-> 0, revenue |-> 0]
        BY <3>3 DEF Buckets!Row
      <3>5. \A sku : /\ Buckets!Open(day, sku)' = Buckets!Open(day, sku)
                     /\ Buckets!Demand(day, sku)' = Buckets!Demand(day, sku)
        BY <1>1 DEF Buckets!Demand, Buckets!Open
      <3>6. ASSUME NEW sku \in Buckets!Skus
            PROVE  /\ Buckets!Row(day, sku, Buckets!None)'.units + Buckets!Row(day, sku, "kit")'.units
                        = Buckets!Demand(day, sku)
                   /\ Buckets!Row(day, sku, Buckets!None)'.revenue
                          + Buckets!Row(day, sku, "kit")'.revenue
                        = Buckets!Price(sku) * Buckets!Cardinality(Buckets!Open(day, sku))
        <4> DEFINE Added(kit) == LET k == [day |-> day, sku |-> sku, kit |-> kit] IN
                                 IF k \in DOMAIN new THEN new[k] ELSE [units |-> 0, revenue |-> 0]
        <4>1. x.units = units BY <3>1 DEF LinesRead
        <4>2. /\ Added(Buckets!None).units + Added("kit").units = Buckets!Demand(day, sku)
              /\ Added(Buckets!None).revenue + Added("kit").revenue
                   = Buckets!Price(sku) * Buckets!Cardinality(Buckets!Open(day, sku))
          <5> HIDE DEF x
          <5> QED BY <1>2, <2>2, <3>1, <4>1, AddedUp
        <4>3. \A kit : Buckets!Row(day, sku, kit)' = Added(kit) BY <3>4, Zenon
        <4> HIDE DEF Added, new, x
        <4> QED BY <4>2, <4>3
      <3>7. Buckets!Shown(day)' BY <3>5, <3>6 DEF Buckets!Shown
      <3> QED BY <1>4, <1>5, <3>7 DEF Told
    <2> QED BY <2>1, <2>2
  <1>11. \A day \in Buckets!Days : Coming(day) => Coming(day)' BY <1>1 DEF Coming
  <1>12. Announced' BY <1>1, <1>10, <1>11 DEF BucketParts, Announced
  <1> QED BY <1>7, <1>8, <1>9, <1>12 DEF BucketParts

---------------------------------------------------------------------------
LEMMA BucketsInit == Buckets!Init => BucketInv
  <1> SUFFICES ASSUME Buckets!Init PROVE BucketInv
    OBVIOUS
  <1> DEFINE old == Buckets!OldVersion
  <1>1. /\ tiny = [o \in Orders |-> IF o \in Old THEN old ELSE Buckets!NoVersion]
        /\ heads = [o \in Orders |-> IF o \in Old THEN Buckets!Head(old)
                                     ELSE Buckets!Head(Buckets!NoVersion)]
        /\ lines = [o \in Orders |-> IF o \in Old THEN "kit" ELSE Buckets!None]
        /\ units = 0 /\ due = {} /\ hooks = {} /\ queue = {}
        /\ hand = [c \in Buckets!Consumers |-> Buckets!Resting]
        /\ run = [r \in Buckets!Runs |-> Buckets!Off]
        /\ buckets = [k \in {Buckets!OldKey} |-> Buckets!OldBucket] /\ silent = {}
        /\ left \in Budgets
    BY DEF Buckets!Init, Buckets!FromOld
  <1>2. old \in Buckets!Versions /\ old.day = 2 /\ old.situation = "open" /\ old # Buckets!NoVersion
    BY DEF Buckets!OldVersion, Buckets!Versions, Buckets!Today, Buckets!NoVersion
  <1>3. Buckets!Resting \in Storers /\ Buckets!Resting.step = "idle"
    BY DEF Buckets!Resting, Storers
  <1>4. Buckets!Off \in Tasks /\ Buckets!Off.step = "off" /\ Buckets!Off.period = {}
    BY DEF Buckets!Off, Tasks, Buckets!Components
  <1>5. "current" \in Buckets!Runs /\ "lost" \in Buckets!Runs BY DEF Buckets!Runs
  <1>6. Task = Buckets!Off BY <1>1, <1>5 DEF Task
  <1>7. Buckets!OldKey \in Buckets!Keys
    BY DEF Buckets!OldKey, Buckets!Keys, Buckets!Today, Buckets!Days, Buckets!Skus
  <1>8. BucketTypes
    <2>1. Buckets!Head(old) \in Buckets!Heads /\ Buckets!Head(Buckets!NoVersion) \in Buckets!Heads
      BY <1>2 DEF Buckets!Heads
    <2>2. {"kit", Buckets!None} \subseteq Buckets!Lines /\ 0 \in Buckets!Components
      BY DEF Buckets!Lines, Buckets!Skus, Buckets!Components
    <2> HIDE DEF old
    <2> QED BY <1>1, <1>2, <1>3, <1>7, <2>1, <2>2 DEF BucketTypes
  <1>9. Placed
    <2> HIDE DEF old
    <2> QED BY <1>1, <1>2, <1>3 DEF Placed
  <1>10. OneTask BY <1>1, <1>4, <1>5, <1>6 DEF OneTask
  <1>11. ASSUME NEW day \in Buckets!Days PROVE Buckets!Shown(day)
    <2>1. Buckets!Skus = {"kit", "part"} /\ Buckets!None = "none" /\ Buckets!Days = {1, 2}
          /\ Buckets!Today = 2
      BY DEF Buckets!Skus, Buckets!None, Buckets!Days, Buckets!Today
    <2>2. /\ Buckets!Head(old) = [day |-> 2, situation |-> "open"]
          /\ Buckets!Head(Buckets!NoVersion) = [day |-> 0, situation |-> "none"]
      BY <1>2, <2>1 DEF Buckets!Head, Buckets!NoVersion
    <2>3. \A sku \in Buckets!Skus :
             Buckets!Open(day, sku) = IF day = 2 /\ sku = "kit" THEN Old ELSE {}
      <3> HIDE DEF old
      <3> QED BY <1>1, <2>1, <2>2, BucketsAssumption DEF Buckets!Open
    <2>4. \A sku \in Buckets!Skus : Buckets!Demand(day, sku) =
             IF day = 2 /\ sku = "kit" THEN Buckets!Cardinality(Old) ELSE 0
      <3>1. Buckets!Cardinality(Old) \in Nat /\ Buckets!Cardinality({}) = 0
        BY BucketsAssumption, BucketsSize, FS_Subset, FS_CardinalityType, FS_EmptySet
      <3>2. ASSUME NEW sku \in Buckets!Skus
            PROVE  Buckets!Demand(day, sku) =
                     IF day = 2 /\ sku = "kit" THEN Buckets!Cardinality(Old) ELSE 0
        <4>1. units * Buckets!Cardinality(Buckets!Open(day, "kit")) = 0
          <5>1. Buckets!Open(day, "kit") \in {Old, {}} BY <2>1, <2>3
          <5>2. Buckets!Cardinality(Buckets!Open(day, "kit")) \in Nat BY <3>1, <5>1
          <5> QED BY <1>1, <5>2
        <4>2. Buckets!Demand(day, sku) = Buckets!Cardinality(Buckets!Open(day, sku)) + 0
          BY <4>1 DEF Buckets!Demand
        <4>3. Buckets!Open(day, sku) = IF day = 2 /\ sku = "kit" THEN Old ELSE {} BY <2>3
        <4>4. CASE day = 2 /\ sku = "kit" BY <3>1, <4>2, <4>3, <4>4
        <4>5. CASE ~(day = 2 /\ sku = "kit") BY <3>1, <4>2, <4>3, <4>5
        <4> QED BY <4>4, <4>5
      <3> QED BY <3>2
    <2>5. \A sku \in Buckets!Skus : \A kit : Buckets!Row(day, sku, kit) =
             IF day = 2 /\ sku = "kit" /\ kit = "none"
             THEN [units |-> Buckets!Cardinality(Old), revenue |-> 3 * Buckets!Cardinality(Old)]
             ELSE [units |-> 0, revenue |-> 0]
      <3>1. Buckets!OldKey = [day |-> 2, sku |-> "kit", kit |-> "none"]
        BY <2>1 DEF Buckets!OldKey
      <3>2. Buckets!OldBucket =
               [units |-> Buckets!Cardinality(Old), revenue |-> 3 * Buckets!Cardinality(Old)]
        BY DEF Buckets!OldBucket, Buckets!Price
      <3>3. DOMAIN buckets = {Buckets!OldKey} /\ buckets[Buckets!OldKey] = Buckets!OldBucket
        BY <1>1
      <3> QED BY <3>1, <3>2, <3>3 DEF Buckets!Row
    <2>6. Buckets!Cardinality(Old) \in Nat /\ Buckets!Cardinality({}) = 0
      BY BucketsAssumption, BucketsSize, FS_Subset, FS_CardinalityType, FS_EmptySet
    <2>7. Buckets!Price("kit") = 3 /\ Buckets!Price("part") = 1 BY DEF Buckets!Price
    <2> SUFFICES ASSUME NEW sku \in Buckets!Skus
                 PROVE  /\ Buckets!Row(day, sku, Buckets!None).units + Buckets!Row(day, sku, "kit").units
                             = Buckets!Demand(day, sku)
                        /\ Buckets!Row(day, sku, Buckets!None).revenue
                               + Buckets!Row(day, sku, "kit").revenue
                             = Buckets!Price(sku) * Buckets!Cardinality(Buckets!Open(day, sku))
      BY DEF Buckets!Shown
    <2>8. CASE day = 2 /\ sku = "kit"
      <3>1. /\ Buckets!Row(day, sku, Buckets!None) =
                 [units |-> Buckets!Cardinality(Old), revenue |-> 3 * Buckets!Cardinality(Old)]
            /\ Buckets!Row(day, sku, "kit") = [units |-> 0, revenue |-> 0]
            /\ Buckets!Open(day, sku) = Old /\ Buckets!Demand(day, sku) = Buckets!Cardinality(Old)
        BY <2>1, <2>3, <2>4, <2>5, <2>8
      <3> QED BY <2>6, <2>7, <2>8, <3>1
    <2>9. CASE ~(day = 2 /\ sku = "kit")
      <3>1. /\ Buckets!Row(day, sku, Buckets!None) = [units |-> 0, revenue |-> 0]
            /\ Buckets!Row(day, sku, "kit") = [units |-> 0, revenue |-> 0]
            /\ Buckets!Open(day, sku) = {} /\ Buckets!Demand(day, sku) = 0
        BY <2>1, <2>3, <2>4, <2>5, <2>9
      <3> QED BY <2>1, <2>6, <2>7, <3>1
    <2> QED BY <2>8, <2>9
  <1>12. Announced BY <1>4, <1>6, <1>11 DEF Announced, Told
  <1>13. "calm" \in DOMAIN left BY <1>1, BucketsAssumption
  <1> QED BY <1>8, <1>9, <1>10, <1>12, <1>13 DEF BucketInv, BucketParts

\* Nothing is calm after a failure.
LEMMA CalmIs ==
  ASSUME "calm" \in DOMAIN left, Buckets!Next
  PROVE  /\ "calm" \in DOMAIN left'
         /\ left'.calm => left.calm
         /\ left'.calm =>
              \/ Buckets!LearnKit \/ Buckets!Incremental \/ Buckets!Reconcile
              \/ Buckets!SaleBucketsRefreshJob \/ \E o \in Orders : Buckets!Change(o)
              \/ \E c \in Buckets!Consumers, o \in Orders : Buckets!Deliver(c, o)
              \/ \E c \in Buckets!Consumers : Buckets!Store(c)
              \/ \E p \in SUBSET Buckets!Days : Buckets!Take(p)
              \/ \E r \in Buckets!Runs : Buckets!Refresh(r)
  <1>1. ASSUME NEW kind, Buckets!Fail(kind) PROVE "calm" \in DOMAIN left' /\ ~left'.calm
    BY <1>1 DEF Buckets!Fail
  <1>2. ASSUME NEW kind \in {"changes", "hooked", "kits"}, Buckets!Spend(kind)
        PROVE  "calm" \in DOMAIN left' /\ left'.calm = left.calm
    BY <1>2 DEF Buckets!Spend
  <1>3. CASE Buckets!IncrementalFails \/ Buckets!AnnounceFails \/ Buckets!LoseConnection
             \/ Buckets!Crash \/ \E r \in Buckets!Runs : Buckets!RefreshFails(r)
    BY <1>1, <1>3 DEF Buckets!IncrementalFails, Buckets!AnnounceFails, Buckets!LoseConnection,
       Buckets!Crash, Buckets!RefreshFails
  <1>4. CASE Buckets!LearnKit \/ \E o \in Orders \ Old : Buckets!Change(o)
    BY <1>2, <1>4 DEF Buckets!LearnKit, Buckets!Change
  <1>5. CASE Buckets!Incremental \/ Buckets!Reconcile \/ Buckets!SaleBucketsRefreshJob
             \/ Buckets!Deliveries \/ (\E c \in Buckets!Consumers : Buckets!Store(c))
             \/ (\E p \in SUBSET Buckets!Days : Buckets!Take(p))
             \/ \E r \in Buckets!Runs : Buckets!Refresh(r)
    <2>1. left' = left
      BY <1>5 DEF Buckets!Incremental, Buckets!Reconcile, Buckets!SaleBucketsRefreshJob,
         Buckets!Deliveries, Buckets!Deliver, Buckets!Store, Buckets!StoreHead, Buckets!StoreLines,
         Buckets!Announce, Buckets!Take, Buckets!Refresh, Buckets!DeletePeriod, Buckets!ReadHeads,
         Buckets!ReadLines, Buckets!Insert
    <2> QED BY <1>5, <2>1, SMTT(30) DEF Buckets!Deliveries
  <1> QED BY <1>3, <1>4, <1>5 DEF Buckets!Next

LEMMA BucketsStep ==
  ASSUME BucketInv, [Buckets!Next]_bucketVars
  PROVE  BucketInv'
  <1>1. CASE UNCHANGED bucketVars
    <2>1. UNCHANGED <<tiny, heads, lines, units, due, hooks, queue, hand, run, buckets, silent, left>>
      BY <1>1 DEF bucketVars
    <2>2. ASSUME BucketParts PROVE BucketParts'
      <3>1. BucketTypes' BY <2>1, <2>2 DEF BucketParts, BucketTypes
      <3>2. Placed' BY <2>1, <2>2 DEF BucketParts, Placed
      <3>3. OneTask' /\ Announced' BY <2>1, <2>2, QuietStep DEF TaskRests, Coming
      <3> QED BY <3>1, <3>2, <3>3 DEF BucketParts
    <2> QED BY <2>1, <2>2 DEF BucketInv
  <1>2. CASE Buckets!Next
    <2>1. "calm" \in DOMAIN left' /\ (left'.calm => left.calm) BY <1>2, CalmIs DEF BucketInv
    <2> SUFFICES ASSUME left'.calm PROVE BucketParts'
      BY <2>1 DEF BucketInv
    <2>2. BucketParts BY <2>1 DEF BucketInv
    <2>3. CASE Buckets!LearnKit BY <2>2, <2>3, LearnKitStays
    <2>4. CASE Buckets!Incremental \/ Buckets!Reconcile \/ Buckets!SaleBucketsRefreshJob
      BY <2>2, <2>4, JobsStay
    <2>5. CASE \E o \in Orders : Buckets!Change(o) BY <2>2, <2>5, ChangeStays
    <2>6. CASE \E c \in Buckets!Consumers, o \in Orders : Buckets!Deliver(c, o)
      BY <2>2, <2>6, DeliverStays
    <2>7. CASE \E c \in Buckets!Consumers : Buckets!Store(c)
      BY <2>2, <2>7, StoreHeadStays, StoreLinesStays, AnnounceStays DEF Buckets!Store
    <2>8. CASE \E p \in SUBSET Buckets!Days : Buckets!Take(p) BY <2>2, <2>8, TakeStays
    <2>9. ASSUME NEW r \in Buckets!Runs, Buckets!Refresh(r) PROVE BucketParts'
      <3>1. r = "current"
        BY <2>2, <2>9, OnlyCurrent DEF BucketParts, Buckets!Refresh, Buckets!DeletePeriod,
           Buckets!ReadHeads, Buckets!ReadLines, Buckets!Insert
      <3> QED BY <2>2, <2>9, <3>1, DeletePeriodStays, ReadHeadsStays, ReadLinesStays, InsertStays
            DEF Buckets!Refresh
    <2> QED BY <1>2, <2>3, <2>4, <2>5, <2>6, <2>7, <2>8, <2>9, CalmIs DEF BucketInv
  <1> QED BY <1>1, <1>2

LEMMA BucketsHold == BucketInv => AnnouncedShown
  <1> SUFFICES ASSUME BucketInv, left.calm, NEW day \in Buckets!Days, day \notin silent
               PROVE  \/ Buckets!Shown(day) \/ (\E p \in queue : day \in p)
                      \/ day \in run["current"].period \/ Buckets!Announcing(day)
    BY DEF AnnouncedShown, Buckets!AnnouncedShown
  <1>1. Told(Task, day) \/ Coming(day) BY DEF BucketInv, BucketParts, Announced
  <1>2. Buckets!Resting.step = "idle" BY DEF Buckets!Resting
  <1> QED BY <1>1, <1>2 DEF Told, Task, Coming, Buckets!Announcing

\* For any numbers of orders and of changes: what the webhook's consumer stored is shown by
\* the buckets, or a refresh of its day waits, is at work or is about to be announced,
\* although a refresh reads orders, lines and catalog one after another while orders
\* are stored; until something fails, and but for days on which an order was stored
\* without a refresh being announced.
THEOREM AnnouncedIsShown == MCSpec => []AnnouncedShown
  <1>1. MCInit => BucketInv
    BY BucketsInit DEF MCInit
  <1>2. BucketInv /\ [MCNext]_allVars => BucketInv'
    <2> SUFFICES ASSUME BucketInv, [MCNext]_allVars PROVE BucketInv'
      OBVIOUS
    <2>1. [Buckets!Next]_bucketVars BY DEF MCNext, allVars
    <2> QED BY <2>1, BucketsStep
  <1> QED BY <1>1, <1>2, BucketsHold, PTL DEF MCSpec
=============================================================================
