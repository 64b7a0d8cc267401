-------------------------- MODULE DecisionsProofs --------------------------
(***************************************************************************)
(* Proofs about the parts of MCDecisions, for any number of promotions,      *)
(* notifications and requests, and any bounds: that nothing is sent that     *)
(* nobody asked for, that what was decided or is started stands, and that    *)
(* what the program says is so.                                              *)
(***************************************************************************)
EXTENDS MCDecisions, FiniteSetTheorems, TLAPS

---------------------------------------------------------------------------
(* The queue: types                                                        *)

LEMMA LeftType ==
  ASSUME NEW l \in Bounds
  PROVE  /\ l.asks > 0 => [l EXCEPT !.asks = @ - 1] \in Bounds
                          /\ [l EXCEPT !.asks = @ - 1].asks < l.asks
         /\ l.changes > 0 => [l EXCEPT !.changes = @ - 1] \in Bounds
         /\ l.faults > 0 => [l EXCEPT !.faults = @ - 1] \in Bounds
         /\ l.crashes > 0 => [l EXCEPT !.crashes = @ - 1] \in Bounds
  BY DEF Bounds

\* What is at a step is what the step needs: a promotion that exists, and a decision
\* or a result that can be recorded.
Fits(mine) ==
    /\ mine.step # "idle" => mine.key \in Keys
    /\ mine.step = "decide" => mine.op \in DOMAIN Outcome
    /\ mine.step = "record" => mine.result \in {"ok", "failed", "skipped"}
Fitting == \A c \in Callers : Fits(call[c])

IdleFits == Idle \in Calls /\ Fits(Idle)
LEMMA IdleCall == IdleFits
  BY DEF IdleFits, Fits, Idle, Calls, Rows, NoRow

LEMMA IdleSweeps == IdleJob \in Jobs /\ IdleJob.batch = {} /\ IdleJob.step = "idle" /\ IdleJob.of = 0
  BY DEF IdleJob, Jobs

\* What is written to a call fits as well.
LEMMA CallMoves ==
  ASSUME NEW mine \in Calls, Fits(mine), mine.step # "idle"
  PROVE  /\ [mine EXCEPT !.step = "send"] \in Calls /\ Fits([mine EXCEPT !.step = "send"])
         /\ \A result \in {"ok", "failed", "skipped"} :
               /\ [mine EXCEPT !.step = "record", !.result = result] \in Calls
               /\ Fits([mine EXCEPT !.step = "record", !.result = result])
               /\ [mine EXCEPT !.step = "record", !.result = result].step = "record"
         /\ AfterApproval(mine) \in Calls /\ Fits(AfterApproval(mine))
  <1>1. mine.key \in Keys BY DEF Fits
  <1>2. [mine EXCEPT !.step = "send"] \in Calls /\ Fits([mine EXCEPT !.step = "send"])
    BY <1>1 DEF Calls, Fits
  <1>3. ASSUME NEW result \in {"ok", "failed", "skipped"}
        PROVE  /\ [mine EXCEPT !.step = "record", !.result = result] \in Calls
               /\ Fits([mine EXCEPT !.step = "record", !.result = result])
               /\ [mine EXCEPT !.step = "record", !.result = result].step = "record"
    BY <1>1 DEF Calls, Fits
  <1>4. AfterApproval(mine) \in Calls /\ Fits(AfterApproval(mine))
    BY <1>2, <1>3, IdleCall DEF AfterApproval, IdleFits
  <1> QED BY <1>2, <1>3, <1>4

\* A call that moves leaves the others where they are.
LEMMA CallSet ==
  ASSUME call \in [Callers -> Calls], Fitting, NEW c \in Callers, NEW mine,
         SetCall(c, mine), mine \in Calls, Fits(mine)
  PROVE  call' \in [Callers -> Calls] /\ Fitting'
  BY DEF SetCall, Fitting

LEMMA JobMoves ==
  ASSUME NEW l \in Jobs,
         NEW step \in {"idle", "expire", "mirror", "reconcile", "upsert", "generate", "insert",
                       "settle", "giveup"}
  PROVE  /\ [l EXCEPT !.step = step] \in Jobs
         /\ [l EXCEPT !.step = step].step = step
         /\ [l EXCEPT !.step = step].batch = l.batch
         /\ [l EXCEPT !.step = step].seen = l.seen
         /\ [l EXCEPT !.step = step].of = l.of
  BY DEF Jobs

LEMMA JobSet ==
  ASSUME job \in [Sweeps -> Jobs], NEW s \in Sweeps, NEW mine \in Jobs, SetJob(s, mine)
  PROVE  /\ job' \in [Sweeps -> Jobs]
         /\ job'[s] = mine
         /\ \A t \in Sweeps \ {s} : job'[t] = job[t]
  BY DEF SetJob

\* A row that is written is a row.
LEMMA RowMoves ==
  ASSUME NEW r \in Rows
  PROVE  /\ \A status \in Statuses :
               /\ [r EXCEPT !.status = status] \in Rows
               /\ [r EXCEPT !.status = status].status = status
               /\ [r EXCEPT !.status = status].started = r.started
         /\ \A sending \in {"ok", "failed", "skipped"} :
               /\ [r EXCEPT !.sending = sending] \in Rows
               /\ [r EXCEPT !.sending = sending].status = r.status
               /\ [r EXCEPT !.sending = sending].started = r.started
         /\ Started(r) \in Rows /\ Started(r).status = "ignored" /\ Started(r).started
  BY DEF Rows, Statuses, Started

\* What a sweep makes of a row.
LEMMA RowSwept ==
  ASSUME NEW r \in Rows, NEW seen
  PROVE  /\ Reconciled(r, seen) \in Rows
         /\ \/ seen = "started" /\ Shown(Reconciled(r, seen))
            \/ /\ seen # "started" /\ Reconciled(r, seen).started = r.started
               /\ Shown(r) \/ Reconciled(r, seen) = r
  <1>1. CASE seen = "started" BY <1>1, RowMoves DEF Reconciled, Shown
  <1>2. CASE seen # "started" /\ Shown(r)
    BY <1>2, RowMoves DEF Reconciled, Ended, Statuses
  <1>3. CASE seen # "started" /\ ~Shown(r)
    BY <1>3 DEF Reconciled, Ended
  <1> QED BY <1>1, <1>2, <1>3

LEMMA RowGenerated ==
  ASSUME NEW r \in Rows, NEW seen, NEW c \in Caps
  PROVE  /\ Generated(r, seen, c) \in Rows
         /\ \/ r.status = "none" /\ Generated(r, seen, c).started = (seen = "started")
            \/ Generated(r, seen, c) = Reconciled(r, seen)
  <1>1. Inserted(seen, c) \in Rows /\ Inserted(seen, c).started = (seen = "started")
    BY DEF Inserted, Rows, Statuses
  <1>2. CASE seen # "none" /\ r.status = "none" BY <1>1, <1>2 DEF Generated
  <1>3. CASE ~(seen # "none" /\ r.status = "none") BY <1>3, RowSwept DEF Generated
  <1> QED BY <1>2, <1>3

\* Of the cap, one that was read before an insertion is a cap.
CapRead == \A s \in Sweeps : job[s].step = "insert" => job[s].cap \in Caps

Typed == TypeOK /\ Fitting /\ CapRead

LEMMA TypedInit == Init => Typed
  <1> SUFFICES ASSUME Init PROVE Typed
    OBVIOUS
  <1>1. TypeOK
    BY IdleCall, IdleSweeps, ParametersAssumption
    DEF Init, TypeOK, IdleFits, IdleBulk, NoRow, Rows
  <1>2. Fitting BY IdleCall DEF Init, Fitting, IdleFits
  <1>3. CapRead BY IdleSweeps DEF Init, CapRead
  <1> QED BY <1>1, <1>2, <1>3 DEF Typed

\* The steps of a request.
LEMMA TypedCall ==
  ASSUME Typed, NEW c \in Callers,
         \/ \E k \in Keys : Retry(c, k) \/ \E op \in DOMAIN Outcome : Open(c, op, k)
         \/ Serve(c) \/ SendFails(c)
  PROVE  Typed'
  <1>0. TypeOK /\ Fitting /\ CapRead /\ call[c] \in Calls /\ Fits(call[c])
    BY DEF Typed, TypeOK, Fitting
  <1>1. ASSUME NEW k \in Keys, NEW op \in DOMAIN Outcome, Open(c, op, k) PROVE Typed'
    <2> DEFINE x == [op |-> op, key |-> k, step |-> "decide", seen |-> rows[k], result |-> "none"]
    <2>1. x \in Calls /\ Fits(x) BY <1>0 DEF TypeOK, Calls, Fits, Outcome
    <2>2. SetCall(c, x) /\ Ask BY <1>1 DEF Open
    <2> HIDE DEF x
    <2>3. call' \in [Callers -> Calls] /\ Fitting' BY <1>0, <2>1, <2>2, CallSet DEF TypeOK
    <2>4. left' \in Bounds BY <1>0, <2>2, LeftType DEF TypeOK, Ask
    <2> QED BY <1>0, <1>1, <2>3, <2>4 DEF Open, Typed, TypeOK, CapRead, remote, history
  <1>2. ASSUME NEW k \in Keys, Retry(c, k) PROVE Typed'
    <2> DEFINE x == [op |-> "retry", key |-> k, step |-> "send", seen |-> rows[k], result |-> "none"]
    <2>1. x \in Calls /\ Fits(x) BY <1>0 DEF TypeOK, Calls, Fits
    <2>2. SetCall(c, x) /\ Ask BY <1>2 DEF Retry
    <2> HIDE DEF x
    <2>3. call' \in [Callers -> Calls] /\ Fitting' BY <1>0, <2>1, <2>2, CallSet DEF TypeOK
    <2>4. left' \in Bounds BY <1>0, <2>2, LeftType DEF TypeOK, Ask
    <2>5. due' \in [Keys -> Nat] BY <1>0, <1>2 DEF Retry, TypeOK
    <2> QED BY <1>0, <1>2, <2>3, <2>4, <2>5 DEF Retry, Typed, TypeOK, CapRead, remote, mirrors
  <1>3. CASE Decide(c)
    <2> DEFINE k == call[c].key
               x == IF call[c].op = "approve" THEN AfterApproval(call[c]) ELSE Idle
    <2>1. k \in Keys /\ call[c].step # "idle" /\ call[c].op \in DOMAIN Outcome
      BY <1>0, <1>3, SMTT(30) DEF Decide, AtCall, Fits
    <2>2. x \in Calls /\ Fits(x) BY <1>0, <2>1, CallMoves, IdleCall DEF IdleFits
    <2>3. SetCall(c, x) BY <1>3 DEF Decide
    <2>4. Outcome[call[c].op] \in Statuses BY <2>1 DEF Outcome, Statuses
    <2>5. rows' \in [Keys -> Rows] BY <1>0, <1>3, <2>1, <2>4, RowMoves DEF Decide, TypeOK
    <2>6. due' \in [Keys -> Nat] BY <1>0, <1>3, <2>1 DEF Decide, TypeOK
    <2>7. raced' \subseteq Keys BY <1>0, <1>3, <2>1 DEF Decide, TypeOK
    <2> HIDE DEF x
    <2>8. call' \in [Callers -> Calls] /\ Fitting' BY <1>0, <2>2, <2>3, CallSet DEF TypeOK
    <2> QED BY <1>0, <1>3, <2>5, <2>6, <2>7, <2>8 DEF Decide, Typed, TypeOK, CapRead, remote, mirrors
  <1>4. CASE AlreadyDecided(c)
    <2>1. call' \in [Callers -> Calls] /\ Fitting'
      BY <1>0, <1>4, IdleCall, CallSet DEF TypeOK, AlreadyDecided, IdleFits
    <2> QED BY <1>0, <1>4, <2>1 DEF AlreadyDecided, Typed, TypeOK, CapRead, remote, history
  <1>5. ASSUME Send(c) \/ SendFails(c) PROVE Typed'
    <2>1. call[c].step # "idle" /\ call[c].key \in Keys
      BY <1>0, <1>5 DEF Send, SendFails, Lost, AtCall, Fits
    <2>2. PICK result \in {"ok", "failed", "skipped"} :
            SetCall(c, [call[c] EXCEPT !.step = "record", !.result = result])
      BY <1>5, SMTT(30) DEF Send, SendFails
    <2>3. call' \in [Callers -> Calls] /\ Fitting'
      BY <1>0, <2>1, <2>2, CallMoves, CallSet DEF TypeOK
    <2>4. ml' \in [Keys -> {"none", "candidate", "started"}] /\ version' \in Nat
      BY <1>0, <1>5, <2>1 DEF Send, SendFails, Lost, Enroll, TypeOK
    <2>5. sent' \in [Keys -> Nat] BY <1>0, <1>5, <2>1 DEF Send, SendFails, Lost, TypeOK
    <2>6. left' \in Bounds BY <1>0, <1>5, LeftType DEF Send, SendFails, Lost, Fault, TypeOK
    <2> QED BY <1>0, <1>5, <2>3, <2>4, <2>5, <2>6
            DEF Send, SendFails, Lost, Typed, TypeOK, CapRead, mirrors
  <1>6. CASE Record(c)
    <2>1. call[c].key \in Keys /\ call[c].result \in {"ok", "failed", "skipped"}
      BY <1>0, <1>6 DEF Record, AtCall, Fits
    <2>2. call' \in [Callers -> Calls] /\ Fitting'
      BY <1>0, <1>6, IdleCall, CallSet DEF TypeOK, Record, IdleFits
    <2>3. rows' \in [Keys -> Rows] BY <1>0, <1>6, <2>1, RowMoves DEF Record, TypeOK
    <2> QED BY <1>0, <1>6, <2>2, <2>3 DEF Record, Typed, TypeOK, CapRead, remote, history
  <1> QED BY <1>1, <1>2, <1>3, <1>4, <1>5, <1>6 DEF Serve

\* What an operator does at once.
LEMMA TypedAct ==
  ASSUME Typed,
         \/ \E k \in Keys : Undo(k)
         \/ \E action \in {"ignore", "reject"}, matched \in SUBSET Keys : BulkSelect(action, matched)
         \/ BulkUpdate
  PROVE  Typed'
  <1>0. TypeOK /\ Fitting /\ CapRead BY DEF Typed
  <1>1. ASSUME NEW k \in Keys, Undo(k) PROVE Typed'
    <2>1. rows' \in [Keys -> Rows] BY <1>0, <1>1, RowMoves DEF Undo, TypeOK, Statuses
    <2>2. left' \in Bounds BY <1>0, <1>1, LeftType DEF Undo, Ask, TypeOK
    <2> QED BY <1>0, <1>1, <2>1, <2>2 DEF Undo, Typed, TypeOK, Fitting, CapRead, remote, history
  <1>2. ASSUME NEW action \in {"ignore", "reject"}, NEW matched \in SUBSET Keys,
               BulkSelect(action, matched)
        PROVE  Typed'
    <2>1. left' \in Bounds BY <1>0, <1>2, LeftType DEF BulkSelect, Ask, TypeOK
    <2> QED BY <1>0, <1>2, <2>1 DEF BulkSelect, Typed, TypeOK, Fitting, CapRead, remote, history
  <1>3. CASE BulkUpdate
    <2>1. rows' \in [Keys -> Rows]
      <3> DEFINE still == {k \in bulk.matched : rows[k].status = "pending"}
      <3>1. CASE bulk.action \in Statuses
        <4>1. \A k \in Keys : [rows[k] EXCEPT !.status = bulk.action] \in Rows
          BY <1>0, <3>1, RowMoves DEF TypeOK
        <4> QED BY <1>0, <1>3, <4>1 DEF BulkUpdate, TypeOK
      <3>2. CASE bulk.action \notin Statuses
        <4>1. CASE still = {}
          <5>1. rows' \in {rows, [k \in Keys |-> IF k \in still
                                       THEN [rows[k] EXCEPT !.status = bulk.action]
                                       ELSE rows[k]]}
            BY <1>3 DEF BulkUpdate
          <5> QED BY <1>0, <4>1, <5>1 DEF TypeOK
        <4>2. CASE still # {}
          <5>1. rows' = rows BY <1>3, <3>2, <4>2 DEF BulkUpdate
          <5> QED BY <1>0, <5>1 DEF TypeOK
        <4> QED BY <4>1, <4>2
      <3> QED BY <3>1, <3>2
    <2>2. bulk' \in [step : {"idle", "update"}, action : {"none", "ignore", "reject"},
                     matched : SUBSET Keys, result : {"none", "ok", "error"}]
      BY <1>3 DEF BulkUpdate, IdleBulk
    <2> QED BY <1>0, <1>3, <2>1, <2>2 DEF BulkUpdate, Typed, TypeOK, Fitting, CapRead, remote, history
  <1> QED BY <1>1, <1>2, <1>3

\* The steps of a sweep.
LEMMA TypedStarts ==
  ASSUME Typed, StartDaily \/ StartBatch \/ StartGenerate
  PROVE  Typed'
  <1>0. TypeOK /\ Fitting /\ CapRead /\ job \in [Sweeps -> Jobs] BY DEF Typed, TypeOK
  <1>1. PICK s \in Sweeps, l \in Jobs : SetJob(s, l) /\ l.step # "insert"
    <2>1. CASE StartDaily
      <3> DEFINE l == [IdleJob EXCEPT !.step = "expire", !.stale = Pending]
      <3>1. l \in Jobs /\ l.step # "insert" BY DEF IdleJob, Jobs, Pending
      <3> QED BY <2>1, <3>1 DEF StartDaily, Sweeps
    <2>2. CASE StartBatch
      <3> DEFINE l == [IdleJob EXCEPT !.step = "mirror", !.batch = Arrived]
      <3>1. l \in Jobs /\ l.step # "insert" BY DEF IdleJob, Jobs, Arrived
      <3> QED BY <2>2, <3>1 DEF StartBatch, Sweeps
    <2>3. CASE StartGenerate
      <3> DEFINE l == [IdleJob EXCEPT !.step = "generate"]
      <3>1. l \in Jobs /\ l.step # "insert" BY DEF IdleJob, Jobs
      <3> QED BY <2>3, <3>1 DEF StartGenerate, Sweeps
    <2> QED BY <2>1, <2>2, <2>3
  <1>2. job' \in [Sweeps -> Jobs] /\ CapRead' BY <1>0, <1>1, JobSet DEF CapRead
  <1>3. UNCHANGED <<remote, rows, call, bulk, inbox, history, left>>
    BY DEF StartDaily, StartBatch, StartGenerate
  <1> QED BY <1>0, <1>2, <1>3 DEF Typed, TypeOK, Fitting, remote, history

\* What a sweep does to its own variables, whatever else it does.
LEMMA SweepJob ==
  ASSUME Typed, NEW s \in Sweeps, Sweep(s) \/ FetchRefused(s) \/ FetchFails(s)
  PROVE  job' \in [Sweeps -> Jobs] /\ CapRead' /\ \A t \in Sweeps \ {s} : job'[t] = job[t]
  <1>0. TypeOK /\ CapRead /\ job \in [Sweeps -> Jobs] /\ job[s] \in Jobs BY DEF Typed, TypeOK
  <1> DEFINE Good(l) == l \in Jobs /\ (l.step = "insert" => l.cap \in Caps)
  <1>1. ASSUME NEW step \in {"settle", "generate"} PROVE Good(After(s, step))
    BY <1>0, JobMoves, IdleSweeps DEF After
  <1>2. ASSUME NEW step \in {"reconcile", "giveup"} PROVE Good([job[s] EXCEPT !.step = step])
    BY <1>0, JobMoves
  <1>3. ASSUME NEW seen \in [Keys -> {"none", "candidate", "started"}]
        PROVE  /\ Good([job[s] EXCEPT !.step = "upsert", !.seen = seen, !.of = version])
               /\ Good([job[s] EXCEPT !.step = "insert", !.seen = seen, !.of = version,
                                      !.cap = cap])
    BY <1>0 DEF Jobs, TypeOK
  <1>4. PICK l : SetJob(s, l) /\ Good(l)
    <2>1. CASE Expire(s)
      <3>1. [job[s] EXCEPT !.step = "reconcile", !.stale = {}] \in Jobs
            /\ [job[s] EXCEPT !.step = "reconcile", !.stale = {}].step = "reconcile"
        BY <1>0 DEF Jobs
      <3> QED BY <2>1, <3>1 DEF Expire
    <2>2. CASE Mirror(s) BY <2>2, <1>2 DEF Mirror
    <2>3. CASE Fetch(s)
      <3>1. ml \in [Keys -> {"none", "candidate", "started"}] BY <1>0 DEF TypeOK
      <3> QED BY <2>3, <1>3, <3>1 DEF Fetch
    <2>4. CASE SkipUncapped(s) BY <2>4, <1>1 DEF SkipUncapped
    <2>5. CASE Upsert(s) BY <2>5, <1>1 DEF Upsert
    <2>6. CASE Insert(s) BY <2>6, <1>1 DEF Insert
    <2>7. CASE Settle(s) BY <2>7, IdleSweeps DEF Settle
    <2>8. CASE FetchRefused(s)
      <3>1. [k \in Keys |-> "none"] \in [Keys -> {"none", "candidate", "started"}] OBVIOUS
      <3> QED BY <2>8, <1>2, <1>3, <3>1 DEF FetchRefused
    <2>9. CASE FetchFails(s) BY <2>9, <1>1, <1>2 DEF FetchFails
    <2> QED BY <2>1, <2>2, <2>3, <2>4, <2>5, <2>6, <2>7, <2>8, <2>9 DEF Sweep
  <1> QED BY <1>0, <1>4, JobSet DEF CapRead

LEMMA TypedSweep ==
  ASSUME Typed, NEW s \in Sweeps, Sweep(s) \/ FetchRefused(s) \/ FetchFails(s)
  PROVE  Typed'
  <1>0. TypeOK /\ Fitting /\ CapRead /\ job[s] \in Jobs BY DEF Typed, TypeOK
  <1>1. job' \in [Sweeps -> Jobs] /\ CapRead' BY SweepJob
  <1>2. CASE Expire(s)
    <2>1. rows' \in [Keys -> Rows]
      <3>1. \A k \in Keys : [rows[k] EXCEPT !.status = "expired"] \in Rows
        BY <1>0, RowMoves DEF TypeOK, Statuses
      <3> QED BY <1>0, <1>2, <3>1 DEF Expire, TypeOK
    <2>2. raced' \subseteq Keys
      <3>1. job[s].stale \subseteq Keys BY <1>0 DEF Jobs
      <3> QED BY <1>0, <1>2, <3>1 DEF Expire, TypeOK
    <2> QED BY <1>0, <1>1, <1>2, <2>1, <2>2 DEF Expire, Typed, TypeOK, Fitting, remote, mirrors
  <1>3. CASE Mirror(s)
    BY <1>0, <1>1, <1>3 DEF Mirror, Typed, TypeOK, Fitting, remote
  <1>4. CASE Fetch(s)
    <2>1. UNCHANGED <<remote, rows, call, bulk, inbox, history, left>> BY <1>4 DEF Fetch
    <2> QED BY <1>0, <1>1, <2>1 DEF Typed, TypeOK, Fitting, remote, history
  <1>5. CASE SkipUncapped(s)
    <2>1. UNCHANGED <<remote, rows, call, bulk, inbox, history, left>> BY <1>5 DEF SkipUncapped
    <2> QED BY <1>0, <1>1, <2>1 DEF Typed, TypeOK, Fitting, remote, history
  <1>6. ASSUME Upsert(s) \/ Insert(s) PROVE Typed'
    <2>1. rows' \in [Keys -> Rows]
      <3>1. \A k \in Keys : Reconciled(rows[k], job[s].seen[k]) \in Rows
        BY <1>0, RowSwept DEF TypeOK
      <3>2. ASSUME Insert(s), NEW k \in Keys
            PROVE  Generated(rows[k], job[s].seen[k], job[s].cap) \in Rows
        BY <1>0, <3>2, RowGenerated DEF Insert, AtJob, CapRead, TypeOK
      <3> QED BY <1>6, <3>1, <3>2 DEF Upsert, Insert
    <2>2. reflected' \in Nat /\ overtaken' \in BOOLEAN
      <3>1. Reflects(s) BY <1>6 DEF Upsert, Insert
      <3>2. job[s].of \in Nat BY <1>0 DEF Jobs
      <3> QED BY <1>0, <3>1, <3>2 DEF Reflects, TypeOK
    <2>3. UNCHANGED <<remote, call, bulk, inbox, due, sent, ended, raced, left, mirrored, misread>>
      BY <1>6 DEF Upsert, Insert, Reflects
    <2> QED BY <1>0, <1>1, <2>1, <2>2, <2>3 DEF Typed, TypeOK, Fitting, remote
  <1>7. CASE Settle(s)
    <2>1. inbox' \in [Notes -> [status : {"none", "pending", "processed", "error"}, of : Nat]]
      BY <1>0, <1>7 DEF Settle, TypeOK
    <2> QED BY <1>0, <1>1, <1>7, <2>1 DEF Settle, Typed, TypeOK, Fitting, remote, history
  <1>8. CASE FetchRefused(s)
    <2>1. left' \in Bounds /\ misread' = TRUE
      BY <1>0, <1>8, LeftType DEF FetchRefused, Fault, TypeOK
    <2>2. UNCHANGED <<remote, rows, call, bulk, inbox, due, sent, reflected, mirrored, ended,
                      raced, overtaken>>
      BY <1>8 DEF FetchRefused
    <2> QED BY <1>0, <1>1, <2>1, <2>2 DEF Typed, TypeOK, Fitting, remote
  <1>9. CASE FetchFails(s)
    <2>1. left' \in Bounds BY <1>0, <1>9, LeftType DEF FetchFails, Fault, TypeOK
    <2>2. UNCHANGED <<remote, rows, call, bulk, inbox, history>> BY <1>9 DEF FetchFails
    <2> QED BY <1>0, <1>1, <2>1, <2>2 DEF Typed, TypeOK, Fitting, remote, history
  <1> QED BY <1>2, <1>3, <1>4, <1>5, <1>6, <1>7, <1>8, <1>9 DEF Sweep

\* The environment.
LEMMA TypedWorld ==
  ASSUME Typed,
         \/ \E k \in Keys, state \in {"none", "candidate", "started"} : Promote(k, state)
         \/ \E c \in Caps : Recompute(c)
         \/ \E n \in Notes : Notify(n)
         \/ Crash
  PROVE  Typed'
  <1>0. TypeOK /\ Fitting /\ CapRead BY DEF Typed
  <1>1. ASSUME NEW k \in Keys, NEW state \in {"none", "candidate", "started"}, Promote(k, state)
        PROVE  Typed'
    <2>1. left' \in Bounds BY <1>0, <1>1, LeftType DEF Promote, Change, TypeOK
    <2>2. ml' \in [Keys -> {"none", "candidate", "started"}] /\ version' \in Nat
          /\ ended' \subseteq Keys
      BY <1>0, <1>1 DEF Promote, TypeOK
    <2> QED BY <1>0, <1>1, <2>1, <2>2
            DEF Promote, Typed, TypeOK, Fitting, CapRead, local, mirrors
  <1>2. ASSUME NEW c \in Caps, Recompute(c) PROVE Typed'
    <2>1. left' \in Bounds BY <1>0, <1>2, LeftType DEF Recompute, Change, TypeOK
    <2> QED BY <1>0, <1>2, <2>1 DEF Recompute, Typed, TypeOK, Fitting, CapRead, local, history
  <1>3. ASSUME NEW n \in Notes, Notify(n) PROVE Typed'
    <2>1. inbox' \in [Notes -> [status : {"none", "pending", "processed", "error"}, of : Nat]]
      BY <1>0, <1>3 DEF Notify, TypeOK
    <2> QED BY <1>0, <1>3, <2>1 DEF Notify, Typed, TypeOK, Fitting, CapRead, local, remote, history
  <1>4. CASE Crash
    <2>1. left' \in Bounds BY <1>0, <1>4, LeftType DEF Crash, TypeOK
    <2>2. call' \in [Callers -> Calls] /\ Fitting' BY <1>4, IdleCall DEF Crash, IdleFits, Fitting
    <2>3. job' \in [Sweeps -> Jobs] /\ CapRead' BY <1>4, IdleSweeps DEF Crash, CapRead
    <2>4. bulk' \in [step : {"idle", "update"}, action : {"none", "ignore", "reject"},
                     matched : SUBSET Keys, result : {"none", "ok", "error"}]
      BY <1>4 DEF Crash, IdleBulk
    <2> QED BY <1>0, <1>4, <2>1, <2>2, <2>3, <2>4 DEF Crash, Typed, TypeOK, remote, history
  <1> QED BY <1>1, <1>2, <1>3, <1>4

LEMMA TypedNext == Typed /\ [Next]_vars => Typed'
  <1> SUFFICES ASSUME Typed, [Next]_vars PROVE Typed'
    OBVIOUS
  <1>1. CASE UNCHANGED vars
    BY <1>1 DEF vars, history, Typed, TypeOK, Fitting, CapRead
  <1>2. ASSUME NEW c \in Callers,
               \/ \E k \in Keys : Retry(c, k) \/ \E op \in DOMAIN Outcome : Open(c, op, k)
               \/ Serve(c) \/ SendFails(c)
        PROVE  Typed'
    BY <1>2, TypedCall
  <1>3. ASSUME NEW s \in Sweeps, Sweep(s) \/ FetchRefused(s) \/ FetchFails(s) PROVE Typed'
    BY <1>3, TypedSweep
  <1> QED BY <1>1, <1>2, <1>3, TypedAct, TypedStarts, TypedWorld DEF Next

LEMMA QueueStep == [MCNext]_allVars => [Next]_vars
  BY DEF MCNext, allVars

LEMMA TypedAlways == MCSpec => []Typed
  <1>1. MCInit => Typed BY TypedInit DEF MCInit
  <1>2. Typed /\ [MCNext]_allVars => Typed' BY TypedNext, QueueStep
  <1> QED BY <1>1, <1>2, PTL DEF MCSpec

\* The rows, the requests and the sweeps of the queue keep their types, for any number
\* of promotions, requests and notifications (services/ml_promotion_service.py).
THEOREM TypeCorrect == MCSpec => []TypeOK
  <1>1. Typed => TypeOK BY DEF Typed
  <1> QED BY <1>1, TypedAlways, PTL

---------------------------------------------------------------------------
(* The queue: what is sent                                                 *)

\* A request that is at its sending was asked for already: what was sent and what is
\* about to be are together no more than what was asked for.
Senders(k) == {c \in Callers : call[c].step = "send" /\ call[c].key = k}
Asked(k) ==
    k \in raced \/ (IsFiniteSet(Senders(k)) /\ sent[k] + Cardinality(Senders(k)) <= due[k])
SentInv == Typed /\ \A k \in Keys : Asked(k)

LEMMA AskedRests ==
  ASSUME Typed, Typed', NEW k \in Keys, Asked(k), sent' = sent, due'[k] >= due[k],
         Senders(k)' \subseteq Senders(k), raced \subseteq raced'
  PROVE  Asked(k)'
  <1>1. sent[k] \in Nat /\ due[k] \in Nat /\ due'[k] \in Nat BY DEF Typed, TypeOK
  <1> DEFINE S == Senders(k)
             Z == Senders(k)'
  <1>2. CASE IsFiniteSet(S) /\ sent[k] + Cardinality(S) <= due[k]
    <2>1. Z \in SUBSET S OBVIOUS
    <2> HIDE DEF S, Z
    <2>2. IsFiniteSet(Z) /\ Cardinality(Z) <= Cardinality(S) BY <1>2, <2>1, FS_Subset
    <2>3. Cardinality(Z) \in Nat /\ Cardinality(S) \in Nat BY <1>2, <2>2, FS_CardinalityType
    <2>4. sent'[k] + Cardinality(Z) <= due'[k] BY <1>1, <1>2, <2>2, <2>3
    <2> QED BY <2>2, <2>4 DEF Asked, Z
  <1> QED BY <1>2 DEF Asked

LEMMA AskedMore ==
  ASSUME Typed, Typed', NEW k \in Keys, Asked(k), sent' = sent, raced \subseteq raced',
         NEW c \in Callers, Senders(k)' \subseteq Senders(k) \cup {c},
         k \in raced' \/ due'[k] = due[k] + 1
  PROVE  Asked(k)'
  <1>1. sent[k] \in Nat /\ due[k] \in Nat /\ due'[k] \in Nat BY DEF Typed, TypeOK
  <1> DEFINE S == Senders(k)
             Z == Senders(k)'
  <1>2. CASE k \in raced' BY <1>2 DEF Asked
  <1>3. CASE k \notin raced'
    <2>1. Z \in SUBSET (S \cup {c}) OBVIOUS
    <2>2. IsFiniteSet(S) /\ sent[k] + Cardinality(S) <= due[k] BY <1>3 DEF Asked
    <2> HIDE DEF S, Z
    <2>3. IsFiniteSet(S \cup {c}) /\ Cardinality(S \cup {c}) \in {Cardinality(S), Cardinality(S) + 1}
      BY <2>2, FS_AddElement
    <2>4. IsFiniteSet(Z) /\ Cardinality(Z) <= Cardinality(S \cup {c}) BY <2>1, <2>3, FS_Subset
    <2>5. Cardinality(Z) \in Nat /\ Cardinality(S) \in Nat BY <2>2, <2>4, FS_CardinalityType
    <2>6. sent'[k] + Cardinality(Z) <= due'[k] BY <1>1, <1>3, <2>2, <2>3, <2>4, <2>5
    <2> QED BY <2>4, <2>6 DEF Asked, Z
  <1> QED BY <1>2, <1>3

LEMMA AskedSent ==
  ASSUME Typed, Typed', NEW k \in Keys, Asked(k), due' = due, raced' = raced,
         NEW c \in Senders(k), Senders(k)' = Senders(k) \ {c},
         sent'[k] \in {sent[k], sent[k] + 1}
  PROVE  Asked(k)'
  <1>1. sent[k] \in Nat /\ due[k] \in Nat /\ sent'[k] \in Nat BY DEF Typed, TypeOK
  <1> DEFINE S == Senders(k)
             Z == Senders(k)'
  <1>2. CASE IsFiniteSet(S) /\ sent[k] + Cardinality(S) <= due[k]
    <2>1. Z = S \ {c} /\ c \in S OBVIOUS
    <2> HIDE DEF S, Z
    <2>2. IsFiniteSet(Z) /\ Cardinality(Z) = Cardinality(S) - 1 BY <1>2, <2>1, FS_RemoveElement
    <2>3. Cardinality(Z) \in Nat /\ Cardinality(S) \in Nat BY <1>2, <2>2, FS_CardinalityType
    <2>4. sent'[k] + Cardinality(Z) <= due'[k] BY <1>1, <1>2, <2>2, <2>3
    <2> QED BY <2>2, <2>4 DEF Asked, Z
  <1> QED BY <1>2 DEF Asked

\* Where a request that moves is next.
LEMMA SendersMove ==
  ASSUME Typed, NEW c \in Callers, NEW mine, SetCall(c, mine), NEW k \in Keys
  PROVE  /\ Senders(k)' \subseteq Senders(k) \cup {c}
         /\ mine.step # "send" => Senders(k)' = Senders(k) \ {c}
         /\ mine.key # k => Senders(k)' \subseteq Senders(k)
  <1>1. /\ \A d \in Callers : call'[d] = IF d = c THEN mine ELSE call[d]
    BY DEF SetCall, Typed, TypeOK
  <1> QED BY <1>1 DEF Senders

LEMMA SentCall ==
  ASSUME SentInv, Typed', NEW c \in Callers, NEW k \in Keys,
         \/ \E p \in Keys : Retry(c, p) \/ \E op \in DOMAIN Outcome : Open(c, op, p)
         \/ Serve(c) \/ SendFails(c)
  PROVE  Asked(k)'
  <1>0. Typed /\ TypeOK /\ Fitting /\ Asked(k) /\ call[c] \in Calls /\ Fits(call[c])
    BY DEF SentInv, Typed, TypeOK, Fitting
  <1>00. due[k] \in Nat BY <1>0 DEF TypeOK
  <1>1. ASSUME NEW p \in Keys, NEW op \in DOMAIN Outcome, Open(c, op, p) PROVE Asked(k)'
    <2> DEFINE x == [op |-> op, key |-> p, step |-> "decide", seen |-> rows[p], result |-> "none"]
    <2>1. SetCall(c, x) /\ x.step # "send" BY <1>1 DEF Open
    <2>2. sent' = sent /\ due' = due /\ raced' = raced BY <1>1 DEF Open, history
    <2> HIDE DEF x
    <2>3. Senders(k)' \subseteq Senders(k) BY <1>0, <2>1, SendersMove
    <2> QED BY <1>0, <1>00, <2>2, <2>3, AskedRests
  <1>2. ASSUME NEW p \in Keys, Retry(c, p) PROVE Asked(k)'
    <2> DEFINE x == [op |-> "retry", key |-> p, step |-> "send", seen |-> rows[p], result |-> "none"]
    <2>1. SetCall(c, x) /\ x.key = p BY <1>2 DEF Retry
    <2>2. sent' = sent /\ raced' = raced /\ due' = [due EXCEPT ![p] = @ + 1] BY <1>2 DEF Retry
    <2>3. due'[k] = IF k = p THEN due[k] + 1 ELSE due[k] BY <1>0, <2>2 DEF TypeOK
    <2> HIDE DEF x
    <2>4. CASE k = p
      <3>1. Senders(k)' \subseteq Senders(k) \cup {c} BY <1>0, <2>1, SendersMove
      <3> QED BY <1>0, <2>2, <2>3, <2>4, <3>1, AskedMore
    <2>5. CASE k # p
      <3>1. Senders(k)' \subseteq Senders(k) BY <1>0, <2>1, <2>5, SendersMove
      <3> QED BY <1>0, <1>00, <2>2, <2>3, <2>5, <3>1, AskedRests
    <2> QED BY <2>4, <2>5
  <1>3. CASE Decide(c)
    <2> DEFINE p == call[c].key
               x == IF call[c].op = "approve" THEN AfterApproval(call[c]) ELSE Idle
    <2>1. p \in Keys BY <1>0, <1>3 DEF Decide, AtCall, Fits
    <2>2. SetCall(c, x) BY <1>3 DEF Decide
    <2>3. sent' = sent /\ raced \subseteq raced' BY <1>3 DEF Decide
    <2>4. x.step = "send" => call[c].op = "approve" /\ x.key = p
      <3>1. Idle.step = "idle" BY DEF Idle
      <3>2. AfterApproval(call[c]).step = "send" => AfterApproval(call[c]).key = p
        <4>1. CASE flag BY <1>0, <4>1 DEF AfterApproval, Calls
        <4>2. CASE ~flag
          <5>1. [call[c] EXCEPT !.step = "record", !.result = "skipped"].step = "record"
            BY <1>0 DEF Calls
          <5> QED BY <3>1, <4>2, <5>1 DEF AfterApproval
        <4> QED BY <4>1, <4>2
      <3> QED BY <3>1, <3>2
    <2>5. due'[p] = due[p] + (IF call[c].op = "approve" /\ rows[p].status = "pending" THEN 1 ELSE 0)
          /\ \A q \in Keys \ {p} : due'[q] = due[q]
      BY <1>0, <1>3, <2>1 DEF Decide, TypeOK
    <2>6. rows[p].status # "pending" => p \in raced' BY <1>3 DEF Decide
    <2> HIDE DEF p, x
    <2>7. CASE x.step = "send" /\ k = p
      <3>1. k \in raced' \/ due'[k] = due[k] + 1 BY <2>4, <2>5, <2>6, <2>7
      <3>2. Senders(k)' \subseteq Senders(k) \cup {c} BY <1>0, <2>2, SendersMove
      <3> QED BY <1>0, <2>3, <3>1, <3>2, AskedMore
    <2>8. CASE ~(x.step = "send" /\ k = p)
      <3>1. Senders(k)' \subseteq Senders(k)
        <4>1. CASE x.step # "send" BY <1>0, <2>2, <4>1, SendersMove
        <4>2. CASE x.step = "send" /\ x.key # k BY <1>0, <2>2, <4>2, SendersMove
        <4> QED BY <2>4, <2>8, <4>1, <4>2
      <3>2. due'[k] >= due[k] BY <1>00, <2>5
      <3> QED BY <1>0, <2>3, <3>1, <3>2, AskedRests
    <2> QED BY <2>7, <2>8
  <1>4. CASE AlreadyDecided(c)
    <2>1. sent' = sent /\ due' = due /\ raced' = raced /\ SetCall(c, Idle)
      BY <1>4 DEF AlreadyDecided, history
    <2>2. Idle.step # "send" BY DEF Idle
    <2>3. Senders(k)' \subseteq Senders(k) BY <1>0, <2>1, <2>2, SendersMove
    <2> QED BY <1>0, <1>00, <2>1, <2>3, AskedRests
  <1>5. ASSUME Send(c) \/ SendFails(c) PROVE Asked(k)'
    <2> DEFINE p == call[c].key
    <2>1. call[c].step = "send" /\ p \in Keys
      BY <1>0, <1>5 DEF Send, SendFails, Lost, AtCall, Fits
    <2>2. PICK result \in {"ok", "failed", "skipped"} :
            SetCall(c, [call[c] EXCEPT !.step = "record", !.result = result])
      BY <1>5 DEF Send, SendFails
    <2> DEFINE x == [call[c] EXCEPT !.step = "record", !.result = result]
    <2>3. x.step # "send" BY <1>0 DEF Calls
    <2>4. SetCall(c, x) BY <2>2
    <2>5. due' = due /\ raced' = raced /\ sent' \in {sent, [sent EXCEPT ![p] = @ + 1]}
      BY <1>5 DEF Send, SendFails, Lost
    <2> HIDE DEF x
    <2>6. Senders(k)' = Senders(k) \ {c} BY <1>0, <2>3, <2>4, SendersMove
    <2>7. CASE k = p
      <3>1. c \in Senders(k) BY <2>1, <2>7 DEF Senders
      <3>2. sent'[k] \in {sent[k], sent[k] + 1} BY <1>0, <2>5, <2>7 DEF TypeOK
      <3> QED BY <1>0, <2>5, <2>6, <3>1, <3>2, AskedSent
    <2>8. CASE k # p
      <3>1. sent'[k] = sent[k] BY <1>0, <2>5, <2>8 DEF TypeOK
      <3>2. c \notin Senders(k) BY <2>8 DEF Senders
      <3>3. Senders(k)' = Senders(k) BY <2>6, <3>2
      <3> QED BY <1>0, <2>5, <3>1, <3>3 DEF Asked
    <2> QED BY <2>7, <2>8
  <1>6. CASE Record(c)
    <2>1. sent' = sent /\ due' = due /\ raced' = raced /\ SetCall(c, Idle)
      BY <1>6 DEF Record, history
    <2>2. Idle.step # "send" BY DEF Idle
    <2>3. Senders(k)' \subseteq Senders(k) BY <1>0, <2>1, <2>2, SendersMove
    <2> QED BY <1>0, <1>00, <2>1, <2>3, AskedRests
  <1> QED BY <1>1, <1>2, <1>3, <1>4, <1>5, <1>6 DEF Serve

\* No other step sends or asks.
LEMMA OthersSilent ==
  ASSUME Typed,
         \/ \E k \in Keys : Undo(k)
         \/ \E action \in {"ignore", "reject"}, matched \in SUBSET Keys : BulkSelect(action, matched)
         \/ BulkUpdate
         \/ StartDaily \/ StartGenerate \/ StartBatch
         \/ \E s \in Sweeps : Sweep(s) \/ FetchRefused(s) \/ FetchFails(s)
         \/ \E k \in Keys, state \in {"none", "candidate", "started"} : Promote(k, state)
         \/ \E c \in Caps : Recompute(c)
         \/ \E n \in Notes : Notify(n)
         \/ Crash
  PROVE  /\ sent' = sent /\ due' = due /\ raced \subseteq raced'
         /\ call' = call \/ call' = [c \in Callers |-> Idle]
  <1>1. ASSUME NEW k \in Keys, Undo(k) PROVE sent' = sent /\ due' = due /\ raced' = raced /\ call' = call
    BY <1>1 DEF Undo, history
  <1>2. ASSUME NEW action, NEW matched, BulkSelect(action, matched)
        PROVE  sent' = sent /\ due' = due /\ raced' = raced /\ call' = call
    BY <1>2 DEF BulkSelect, history
  <1>3. BulkUpdate => sent' = sent /\ due' = due /\ raced' = raced /\ call' = call
    BY DEF BulkUpdate, history
  <1>4. StartDaily \/ StartGenerate \/ StartBatch
          => sent' = sent /\ due' = due /\ raced' = raced /\ call' = call
    BY DEF StartDaily, StartGenerate, StartBatch, history
  <1>5. ASSUME NEW s \in Sweeps, Sweep(s) \/ FetchRefused(s) \/ FetchFails(s)
        PROVE  sent' = sent /\ due' = due /\ raced \subseteq raced' /\ call' = call
    <2>1. CASE Expire(s) BY <2>1 DEF Expire
    <2>2. CASE Mirror(s) BY <2>2 DEF Mirror
    <2>3. CASE Fetch(s) BY <2>3 DEF Fetch, history
    <2>4. CASE SkipUncapped(s) BY <2>4 DEF SkipUncapped, history
    <2>5. CASE Upsert(s) BY <2>5 DEF Upsert
    <2>6. CASE Insert(s) BY <2>6 DEF Insert
    <2>7. CASE Settle(s) BY <2>7, SMTT(30) DEF Settle, history
    <2>8. CASE FetchRefused(s) BY <2>8 DEF FetchRefused
    <2>9. CASE FetchFails(s) BY <2>9 DEF FetchFails, history
    <2> QED BY <1>5, <2>1, <2>2, <2>3, <2>4, <2>5, <2>6, <2>7, <2>8, <2>9 DEF Sweep
  <1>6. ASSUME NEW k, NEW state, Promote(k, state)
        PROVE  sent' = sent /\ due' = due /\ raced' = raced /\ call' = call
    BY <1>6 DEF Promote, local
  <1>7. ASSUME NEW c, Recompute(c) PROVE sent' = sent /\ due' = due /\ raced' = raced /\ call' = call
    BY <1>7 DEF Recompute, local, history
  <1>8. ASSUME NEW n, Notify(n) PROVE sent' = sent /\ due' = due /\ raced' = raced /\ call' = call
    BY <1>8 DEF Notify, local, history
  <1>9. Crash => sent' = sent /\ due' = due /\ raced' = raced /\ call' = [c \in Callers |-> Idle]
    BY DEF Crash, history
  <1> QED BY <1>1, <1>2, <1>3, <1>4, <1>5, <1>6, <1>7, <1>8, <1>9

LEMMA SentNext == SentInv /\ [Next]_vars => SentInv'
  <1> SUFFICES ASSUME SentInv, [Next]_vars PROVE SentInv'
    OBVIOUS
  <1>1. Typed /\ Typed' BY TypedNext DEF SentInv
  <1>2. ASSUME NEW k \in Keys PROVE Asked(k)'
    <2>1. CASE UNCHANGED vars BY <2>1 DEF vars, history, SentInv, Asked, Senders
    <2>2. ASSUME NEW c \in Callers,
                 \/ \E p \in Keys : Retry(c, p) \/ \E op \in DOMAIN Outcome : Open(c, op, p)
                 \/ Serve(c) \/ SendFails(c)
          PROVE  Asked(k)'
      BY <1>1, <2>2, SentCall
    <2>3. ASSUME sent' = sent, due' = due, raced \subseteq raced',
                 call' = call \/ call' = [c \in Callers |-> Idle]
          PROVE  Asked(k)'
      <3>1. Senders(k)' \subseteq Senders(k) BY <2>3 DEF Senders, Idle
      <3>2. due[k] \in Nat BY <1>1 DEF Typed, TypeOK
      <3> QED BY <1>1, <2>3, <3>1, <3>2, AskedRests DEF SentInv
    <2> QED BY <1>1, <2>1, <2>2, <2>3, OthersSilent DEF Next
  <1> QED BY <1>1, <1>2 DEF SentInv

\* For any number of promotions and requests: Mercado Livre is sent no more than
\* operators asked for, by approvals and retries, whatever is undone, swept or lost.
THEOREM NothingUnasked == MCSpec => []SentAsAsked
  <1>1. MCInit => SentInv
    <2> SUFFICES ASSUME MCInit PROVE SentInv
      OBVIOUS
    <2>1. Init BY DEF MCInit
    <2>2. ASSUME NEW k \in Keys PROVE Asked(k)
      <3>1. Senders(k) = {} BY <2>1 DEF Init, Idle, Senders
      <3>2. sent[k] = 0 /\ due[k] = 0 BY <2>1 DEF Init
      <3> QED BY <3>1, <3>2, FS_EmptySet DEF Asked
    <2> QED BY <2>1, <2>2, TypedInit DEF SentInv
  <1>2. SentInv /\ [MCNext]_allVars => SentInv' BY SentNext, QueueStep
  <1>3. SentInv => SentAsAsked
    <2> SUFFICES ASSUME SentInv, NEW k \in Keys, k \notin raced PROVE sent[k] <= due[k]
      BY DEF SentAsAsked
    <2>1. IsFiniteSet(Senders(k)) /\ sent[k] + Cardinality(Senders(k)) <= due[k] BY DEF SentInv, Asked
    <2>2. Cardinality(Senders(k)) \in Nat BY <2>1, FS_CardinalityType
    <2>3. sent[k] \in Nat /\ due[k] \in Nat BY DEF SentInv, Typed, TypeOK
    <2> QED BY <2>1, <2>2, <2>3
  <1> QED BY <1>1, <1>2, <1>3, PTL DEF MCSpec

---------------------------------------------------------------------------
(* The queue: what stands                                                  *)

\* A reading that a sweep holds is of a version, and is what Mercado Livre had then.
Reading(s) == job[s].step \in {"upsert", "insert"}
ReadInv ==
    /\ \A s \in Sweeps : Reading(s) => job[s].of <= version
    /\ misread \/ \A s \in Sweeps : Reading(s) /\ job[s].of = version => job[s].seen = ml

\* A promotion that never ended is started ever since a reading, or a row, says so: every
\* later reading says so as well.
Sees(s, k) == Reading(s) /\ job[s].seen[k] = "started"
Known(k) ==
    /\ rows[k].started => ml[k] = "started"
    /\ \A s \in Sweeps : Sees(s, k) => ml[k] = "started"
    /\ \A s, t \in Sweeps : Sees(s, k) /\ Reading(t) /\ job[s].of <= job[t].of => Sees(t, k)
    /\ \A s \in Sweeps : rows[k].started /\ Reading(s) /\ reflected <= job[s].of => Sees(s, k)
KnownInv ==
    Typed /\ ReadInv /\ (misread \/ \A k \in Keys \ ended : Known(k))

\* Steps that read nothing, show nothing new as started and change no promotion.
LEMMA KnownRests ==
  ASSUME KnownInv, Typed', ml' = ml, version' = version, reflected' = reflected, ended' = ended,
         misread => misread',
         \A k \in Keys : rows'[k].started => rows[k].started,
         \A s \in Sweeps : Reading(s)' => Reading(s) /\ job'[s].of = job[s].of
                                          /\ job'[s].seen = job[s].seen
  PROVE  KnownInv'
  <1>1. ReadInv' BY DEF KnownInv, ReadInv
  <1>2. ASSUME ~misread', NEW k \in Keys \ ended PROVE Known(k)'
    <2>1. Known(k) BY <1>2 DEF KnownInv
    <2>2. \A s \in Sweeps : Sees(s, k)' => Sees(s, k) BY DEF Sees
    <2>3. \A s \in Sweeps : Reading(s)' /\ Sees(s, k) => Sees(s, k)' BY DEF Sees
    <2>4. \A s \in Sweeps : Sees(s, k)' => Reading(s)' BY DEF Sees
    <2>5. \A s \in Sweeps : Reading(s)' => Reading(s) /\ job'[s].of = job[s].of OBVIOUS
    <2>6. \A s \in Sweeps : Sees(s, k)' => ml'[k] = "started" BY <2>1, <2>2 DEF Known
    <2>7. \A s, t \in Sweeps : Sees(s, k)' /\ Reading(t)' /\ job'[s].of <= job'[t].of => Sees(t, k)'
      BY <2>1, <2>2, <2>3, <2>4, <2>5 DEF Known
    <2>8. rows'[k].started => rows[k].started OBVIOUS
    <2>9. \A s \in Sweeps : rows'[k].started /\ Reading(s)' /\ reflected' <= job'[s].of => Sees(s, k)'
      BY <2>1, <2>3, <2>5, <2>8 DEF Known
    <2> QED BY <2>1, <2>6, <2>7, <2>8, <2>9 DEF Known
  <1> QED BY <1>1, <1>2 DEF KnownInv

\* Mercado Livre changes a promotion: a new version, which no reading is of yet.
LEMMA KnownChanges ==
  ASSUME KnownInv, Typed', NEW p \in Keys, NEW state, ml' = [ml EXCEPT ![p] = state],
         version' = version + 1,
         state = "started" \/ ml[p] # "started" \/ p \in ended', ended \subseteq ended',
         UNCHANGED <<rows, job, reflected, misread>>
  PROVE  KnownInv'
  <1>0. Typed /\ TypeOK BY DEF KnownInv, Typed
  <1>1. \A s \in Sweeps : Reading(s)' <=> Reading(s) BY DEF Reading
  <1>2. ReadInv'
    <2>1. ASSUME NEW s \in Sweeps, Reading(s) PROVE job[s].of \in Nat /\ job[s].of <= version
      BY <1>0, <2>1 DEF TypeOK, Jobs, KnownInv, ReadInv
    <2>2. version \in Nat BY <1>0 DEF TypeOK
    <2> QED BY <1>1, <2>1, <2>2 DEF ReadInv
  <1>3. ASSUME ~misread', NEW k \in Keys \ ended' PROVE Known(k)'
    <2>1. Known(k) BY <1>3 DEF KnownInv
    <2>2. ml[k] = "started" => ml'[k] = "started" BY <1>0, <1>3 DEF TypeOK
    <2>3. \A s \in Sweeps : Sees(s, k)' <=> Sees(s, k) BY <1>1 DEF Sees
    <2> QED BY <1>1, <2>1, <2>2, <2>3 DEF Known
  <1> QED BY <1>2, <1>3 DEF KnownInv

\* A sweep reads.
LEMMA KnownFetched ==
  ASSUME KnownInv, Typed', NEW s \in Sweeps, Fetch(s)
  PROVE  KnownInv'
  <1>0. Typed /\ TypeOK /\ job[s] \in Jobs /\ version \in Nat BY DEF KnownInv, Typed, TypeOK
  <1>1. /\ Reading(s)' /\ job'[s].seen = ml /\ job'[s].of = version
        /\ \A t \in Sweeps \ {s} : job'[t] = job[t]
    <2>1. PICK l \in Jobs : SetJob(s, l) /\ l.step \in {"upsert", "insert"} /\ l.seen = ml /\ l.of = version
      <3> DEFINE x == [job[s] EXCEPT !.step = "upsert", !.seen = ml, !.of = version]
                 y == [job[s] EXCEPT !.step = "insert", !.seen = ml, !.of = version, !.cap = cap]
      <3>1. x \in Jobs /\ x.step = "upsert" /\ x.seen = ml /\ x.of = version
        BY <1>0 DEF Jobs, TypeOK
      <3>2. y \in Jobs /\ y.step = "insert" /\ y.seen = ml /\ y.of = version
        BY <1>0 DEF Jobs, TypeOK
      <3>3. SetJob(s, x) \/ SetJob(s, y) BY DEF Fetch
      <3> HIDE DEF x, y
      <3> QED BY <3>1, <3>2, <3>3
    <2>2. job \in [Sweeps -> Jobs] BY <1>0 DEF TypeOK
    <2>3. job'[s] = l /\ \A t \in Sweeps \ {s} : job'[t] = job[t] BY <2>1, <2>2, JobSet
    <2> QED BY <2>1, <2>3 DEF Reading
  <1>2. UNCHANGED <<ml, version, rows, reflected, ended, misread>> BY DEF Fetch, remote, history, mirrors
  <1>3. \A t \in Sweeps \ {s} : Reading(t)' <=> Reading(t) BY <1>1 DEF Reading
  <1>4. ReadInv'
    <2>1. \A t \in Sweeps : Reading(t)' => job'[t].of <= version' BY <1>0, <1>1, <1>2, <1>3 DEF KnownInv, ReadInv
    <2>2. \/ misread'
          \/ \A t \in Sweeps : Reading(t)' /\ job'[t].of = version' => job'[t].seen = ml'
      BY <1>1, <1>2, <1>3 DEF KnownInv, ReadInv
    <2> QED BY <2>1, <2>2 DEF ReadInv
  <1>5. ASSUME ~misread', NEW k \in Keys \ ended' PROVE Known(k)'
    <2>1. Known(k) BY <1>2, <1>5 DEF KnownInv
    <2>2. Sees(s, k)' <=> ml[k] = "started" BY <1>1 DEF Sees
    <2>3. \A t \in Sweeps \ {s} : Sees(t, k)' <=> Sees(t, k) BY <1>1, <1>3 DEF Sees
    <2>4. \A t \in Sweeps : Sees(t, k)' => ml[k] = "started" BY <2>1, <2>2, <2>3 DEF Known
    <2>5. ASSUME NEW t \in Sweeps, NEW u \in Sweeps, Sees(t, k)', Reading(u)', job'[t].of <= job'[u].of
          PROVE  Sees(u, k)'
      <3>1. ml[k] = "started" BY <2>4, <2>5
      <3>2. CASE u = s BY <2>2, <3>1, <3>2
      <3>3. CASE u # s /\ t # s
        BY <1>1, <1>3, <2>1, <2>3, <2>5, <3>3 DEF Known
      <3>4. CASE u # s /\ t = s
        <4>1. Reading(u) /\ job[u].of <= version /\ version <= job[u].of /\ job[u].of \in Nat
          BY <1>0, <1>1, <1>3, <2>5, <3>4 DEF KnownInv, ReadInv, TypeOK, Jobs
        <4>2. job[u].of = version BY <1>0, <4>1
        <4>3. job[u].seen = ml BY <1>2, <1>5, <4>1, <4>2 DEF KnownInv, ReadInv
        <4> QED BY <2>3, <3>1, <3>4, <4>1, <4>3 DEF Sees
      <3> QED BY <3>2, <3>3, <3>4
    <2>6. ASSUME NEW t \in Sweeps, rows[k].started, Reading(t)', reflected <= job'[t].of PROVE Sees(t, k)'
      <3>1. CASE t = s BY <2>1, <2>2, <2>6, <3>1 DEF Known
      <3>2. CASE t # s BY <1>1, <1>3, <2>1, <2>3, <2>6, <3>2 DEF Known
      <3> QED BY <3>1, <3>2
    <2> QED BY <1>2, <2>1, <2>4, <2>5, <2>6 DEF Known
  <1> QED BY <1>4, <1>5 DEF KnownInv

\* A refused reading is not trusted any more.
LEMMA KnownRefused ==
  ASSUME KnownInv, Typed', NEW s \in Sweeps, FetchRefused(s)
  PROVE  KnownInv'
  <1>0. Typed /\ TypeOK /\ job[s] \in Jobs /\ version \in Nat BY DEF KnownInv, Typed, TypeOK
  <1>1. /\ Reading(s)' => job'[s].of = version
        /\ \A t \in Sweeps \ {s} : job'[t] = job[t]
    <2>1. PICK l \in Jobs : SetJob(s, l) /\ (l.step \in {"upsert", "insert"} => l.of = version)
      <3> DEFINE none == [k \in Keys |-> "none"]
                 x == [job[s] EXCEPT !.step = "upsert", !.seen = none, !.of = version]
                 y == [job[s] EXCEPT !.step = "insert", !.seen = none, !.of = version, !.cap = cap]
                 z == [job[s] EXCEPT !.step = "reconcile"]
      <3>1. none \in [Keys -> {"none", "candidate", "started"}] OBVIOUS
      <3>2. SetJob(s, x) \/ SetJob(s, y) \/ SetJob(s, z) BY DEF FetchRefused
      <3> HIDE DEF none
      <3>3. x \in Jobs /\ x.of = version BY <1>0, <3>1 DEF Jobs, TypeOK
      <3>4. y \in Jobs /\ y.of = version BY <1>0, <3>1 DEF Jobs, TypeOK
      <3>5. z \in Jobs /\ z.step = "reconcile" BY <1>0 DEF Jobs
      <3> HIDE DEF x, y, z
      <3> QED BY <3>2, <3>3, <3>4, <3>5
    <2>2. job \in [Sweeps -> Jobs] BY <1>0 DEF TypeOK
    <2>3. job'[s] = l /\ \A t \in Sweeps \ {s} : job'[t] = job[t] BY <2>1, <2>2, JobSet
    <2> QED BY <2>1, <2>3 DEF Reading
  <1>2. misread' /\ version' = version BY DEF FetchRefused, remote
  <1>3. ReadInv' BY <1>0, <1>1, <1>2 DEF KnownInv, ReadInv, Reading
  <1> QED BY <1>2, <1>3 DEF KnownInv

\* A sweep stores what it read.
LEMMA KnownStored ==
  ASSUME KnownInv, Typed', NEW s \in Sweeps, Upsert(s) \/ Insert(s)
  PROVE  KnownInv'
  <1>0. Typed /\ TypeOK /\ CapRead /\ job[s] \in Jobs /\ version \in Nat /\ reflected \in Nat
    BY DEF KnownInv, Typed, TypeOK
  <1>1. Reading(s) /\ job[s].of \in Nat BY <1>0 DEF Upsert, Insert, AtJob, Reading, Jobs
  <1>2. /\ ~Reading(s)'
        /\ \A t \in Sweeps \ {s} : job'[t] = job[t] /\ (Reading(t)' <=> Reading(t))
    <2>1. PICK l \in Jobs : SetJob(s, l) /\ l.step \notin {"upsert", "insert"}
      <3>1. \A step \in {"generate", "settle"} :
              After(s, step) \in Jobs /\ After(s, step).step \notin {"upsert", "insert"}
        BY <1>0, JobMoves, IdleSweeps DEF After
      <3> QED BY <3>1 DEF Upsert, Insert
    <2>2. job \in [Sweeps -> Jobs] BY <1>0 DEF TypeOK
    <2>3. job'[s] = l /\ \A t \in Sweeps \ {s} : job'[t] = job[t] BY <2>1, <2>2, JobSet
    <2> QED BY <2>1, <2>3 DEF Reading
  <1>3. UNCHANGED <<ml, version, ended, misread>> BY DEF Upsert, Insert, Reflects, remote
  <1>4. reflected' >= job[s].of /\ reflected' >= reflected
    BY <1>0, <1>1 DEF Upsert, Insert, Reflects
  <1>5. ASSUME NEW k \in Keys, rows'[k].started PROVE rows[k].started \/ Sees(s, k)
    <2>1. rows[k] \in Rows BY <1>0 DEF TypeOK
    <2>2. Reconciled(rows[k], job[s].seen[k]).started => rows[k].started \/ job[s].seen[k] = "started"
      BY <2>1, RowSwept
    <2>3. ASSUME Insert(s)
          PROVE  Generated(rows[k], job[s].seen[k], job[s].cap).started
                   => rows[k].started \/ job[s].seen[k] = "started"
      <3>1. job[s].cap \in Caps BY <1>0, <2>3 DEF Insert, AtJob, CapRead
      <3> QED BY <2>1, <2>2, <3>1, RowGenerated
    <2> QED BY <1>1, <1>5, <2>2, <2>3 DEF Upsert, Insert, Sees
  <1>6. ReadInv' BY <1>2, <1>3 DEF KnownInv, ReadInv
  <1>7. ASSUME ~misread', NEW k \in Keys \ ended' PROVE Known(k)'
    <2>1. Known(k) BY <1>3, <1>7 DEF KnownInv
    <2>2. \A t \in Sweeps : Sees(t, k)' => Sees(t, k) BY <1>2 DEF Sees
    <2>3. \A t \in Sweeps : Reading(t)' /\ Sees(t, k) => Sees(t, k)' BY <1>2 DEF Sees
    <2>4. \A t \in Sweeps : Reading(t)' => Reading(t) /\ job'[t].of = job[t].of /\ job[t].of \in Nat
      BY <1>0, <1>2 DEF TypeOK, Jobs
    <2>5. rows'[k].started => ml[k] = "started" BY <1>5, <2>1 DEF Known
    <2>6. ASSUME NEW t \in Sweeps, rows'[k].started, Reading(t)', reflected' <= job'[t].of
          PROVE  Sees(t, k)'
      <3>1. Reading(t) /\ job[s].of <= job[t].of /\ reflected <= job[t].of
        <4>1. reflected' \in Nat BY DEF Typed, TypeOK
        <4> QED BY <1>0, <1>1, <1>4, <2>4, <2>6, <4>1
      <3>2. Sees(t, k) BY <1>5, <2>1, <2>6, <3>1 DEF Known
      <3> QED BY <2>3, <2>6, <3>2
    <2>7. \A t, u \in Sweeps : Sees(t, k)' /\ Reading(u)' /\ job'[t].of <= job'[u].of => Sees(u, k)'
      <3>1. \A t \in Sweeps : Sees(t, k)' => Reading(t)' BY DEF Sees
      <3> QED BY <2>1, <2>2, <2>3, <2>4, <3>1 DEF Known
    <2> QED BY <1>3, <2>1, <2>2, <2>5, <2>6, <2>7 DEF Known
  <1> QED BY <1>6, <1>7 DEF KnownInv

\* Whether a step that sets a sweep leaves it a reading that it had not.
NoReading ==
    \A s \in Sweeps : Reading(s)' => Reading(s) /\ job'[s].of = job[s].of /\ job'[s].seen = job[s].seen

LEMMA JobRests ==
  ASSUME Typed, NEW s \in Sweeps, NEW l \in Jobs, SetJob(s, l), l.step \notin {"upsert", "insert"}
  PROVE  NoReading
  <1>1. job \in [Sweeps -> Jobs] BY DEF Typed, TypeOK
  <1>2. job'[s] = l /\ \A t \in Sweeps \ {s} : job'[t] = job[t] BY <1>1, JobSet
  <1> QED BY <1>2 DEF NoReading, Reading

LEMMA JobSame == job' = job => NoReading
  BY DEF NoReading, Reading

\* What a request does to a row shows nothing as started.
LEMMA KnownCall ==
  ASSUME KnownInv, Typed', NEW c \in Callers,
         \/ \E k \in Keys : Retry(c, k) \/ \E op \in DOMAIN Outcome : Open(c, op, k)
         \/ Serve(c) \/ SendFails(c)
  PROVE  KnownInv'
  <1>0. Typed /\ TypeOK /\ call[c] \in Calls /\ Fits(call[c])
    BY DEF KnownInv, Typed, TypeOK, Fitting
  <1>1. ASSUME Send(c) \/ SendFails(c) PROVE KnownInv'
    <2> DEFINE k == call[c].key
    <2>1. k \in Keys BY <1>0, <1>1 DEF Send, SendFails, Lost, AtCall, Fits
    <2>2. UNCHANGED <<rows, job, reflected, ended, misread>> BY <1>1 DEF Send, SendFails, Lost, mirrors
    <2>3. Enroll(k) \/ UNCHANGED <<ml, version>> BY <1>1 DEF Send, SendFails, Lost
    <2> HIDE DEF k
    <2>4. CASE Enroll(k)
      <3>1. ml' = [ml EXCEPT ![k] = "started"] /\ version' = version + 1 BY <2>4 DEF Enroll
      <3> QED BY <2>1, <2>2, <3>1, KnownChanges
    <2>5. CASE UNCHANGED <<ml, version>>
      <3>1. NoReading BY <2>2, JobSame
      <3> QED BY <2>2, <2>5, <3>1, KnownRests DEF NoReading
    <2> QED BY <2>3, <2>4, <2>5
  <1>2. ASSUME UNCHANGED <<ml, version, job, reflected, ended, misread>>,
               \A k \in Keys : rows'[k].started => rows[k].started
        PROVE  KnownInv'
    <2>1. NoReading BY <1>2, JobSame
    <2> QED BY <1>2, <2>1, KnownRests DEF NoReading
  <1>3. ASSUME NEW k \in Keys, NEW op \in DOMAIN Outcome, Open(c, op, k) PROVE KnownInv'
    BY <1>2, <1>3 DEF Open, remote, history, mirrors
  <1>4. ASSUME NEW k \in Keys, Retry(c, k) PROVE KnownInv'
    BY <1>2, <1>4 DEF Retry, remote, mirrors
  <1>5. CASE Decide(c)
    <2>1. \A k \in Keys : rows'[k].started => rows[k].started
      <3>1. call[c].key \in Keys BY <1>0, <1>5 DEF Decide, AtCall, Fits
      <3>2. call[c].op \in DOMAIN Outcome BY <1>0, <1>5 DEF Decide, AtCall, Fits
      <3>3. Outcome[call[c].op] \in Statuses BY <3>2 DEF Outcome, Statuses
      <3>4. [rows[call[c].key] EXCEPT !.status = Outcome[call[c].op]].started
              = rows[call[c].key].started
        BY <1>0, <3>1, <3>3, RowMoves DEF TypeOK
      <3>5. rows' = [rows EXCEPT ![call[c].key].status = Outcome[call[c].op]] BY <1>5 DEF Decide
      <3>6. rows \in [Keys -> Rows] BY <1>0 DEF TypeOK
      <3> QED BY <3>1, <3>4, <3>5, <3>6
    <2> QED BY <1>2, <1>5, <2>1 DEF Decide, remote, mirrors
  <1>6. CASE AlreadyDecided(c) BY <1>2, <1>6 DEF AlreadyDecided, remote, history, mirrors
  <1>7. CASE Record(c)
    <2>1. \A k \in Keys : rows'[k].started => rows[k].started
      <3>1. call[c].key \in Keys /\ call[c].result \in {"ok", "failed", "skipped"}
        BY <1>0, <1>7 DEF Record, AtCall, Fits
      <3>2. rows' = [rows EXCEPT ![call[c].key].sending = call[c].result] BY <1>7 DEF Record
      <3>3. rows \in [Keys -> Rows] BY <1>0 DEF TypeOK
      <3>4. [rows[call[c].key] EXCEPT !.sending = call[c].result].started = rows[call[c].key].started
        BY <3>1, <3>3, RowMoves
      <3> QED BY <3>1, <3>2, <3>3, <3>4
    <2> QED BY <1>2, <1>7, <2>1 DEF Record, remote, history, mirrors
  <1> QED BY <1>1, <1>3, <1>4, <1>5, <1>6, <1>7 DEF Serve

LEMMA KnownSweep ==
  ASSUME KnownInv, Typed', NEW s \in Sweeps, Sweep(s) \/ FetchRefused(s) \/ FetchFails(s)
  PROVE  KnownInv'
  <1>0. Typed /\ TypeOK /\ job[s] \in Jobs BY DEF KnownInv, Typed, TypeOK
  <1> DEFINE Good(l) == SetJob(s, l) /\ l \in Jobs /\ l.step \notin {"upsert", "insert"}
  <1>1. ASSUME UNCHANGED <<ml, version, reflected, ended, misread>>, \E l : Good(l),
               \A k \in Keys : rows'[k].started => rows[k].started
        PROVE  KnownInv'
    <2>1. NoReading BY <1>0, <1>1, JobRests
    <2> QED BY <1>1, <2>1, KnownRests DEF NoReading
  <1>2. ASSUME NEW step \in {"settle", "generate"}
        PROVE  After(s, step) \in Jobs /\ After(s, step).step \notin {"upsert", "insert"}
    BY <1>0, JobMoves, IdleSweeps DEF After
  <1>3. ASSUME NEW step \in {"reconcile", "giveup"}
        PROVE  /\ [job[s] EXCEPT !.step = step] \in Jobs
               /\ [job[s] EXCEPT !.step = step].step \notin {"upsert", "insert"}
    BY <1>0, JobMoves
  <1>4. CASE Expire(s)
    <2>1. [job[s] EXCEPT !.step = "reconcile", !.stale = {}] \in Jobs
          /\ [job[s] EXCEPT !.step = "reconcile", !.stale = {}].step = "reconcile"
      BY <1>0 DEF Jobs
    <2>2. \E l : Good(l) BY <1>4, <2>1 DEF Expire
    <2>3. \A k \in Keys : rows'[k].started => rows[k].started
      <3>1. \A k \in Keys : [rows[k] EXCEPT !.status = "expired"].started = rows[k].started
        BY <1>0, RowMoves DEF TypeOK, Statuses
      <3> QED BY <1>4, <3>1 DEF Expire
    <2> QED BY <1>1, <1>4, <2>2, <2>3 DEF Expire, remote, mirrors
  <1>5. CASE Mirror(s)
    <2>1. \E l : Good(l) BY <1>3, <1>5 DEF Mirror
    <2> QED BY <1>1, <1>5, <2>1 DEF Mirror, remote
  <1>6. CASE SkipUncapped(s)
    <2>1. \E l : Good(l) BY <1>2, <1>6 DEF SkipUncapped
    <2> QED BY <1>1, <1>6, <2>1 DEF SkipUncapped, remote, history, mirrors
  <1>7. CASE Settle(s)
    <2>1. \E l : Good(l) BY <1>7, IdleSweeps DEF Settle
    <2> QED BY <1>1, <1>7, <2>1 DEF Settle, remote, history, mirrors
  <1>8. CASE FetchFails(s)
    <2>1. \E l : Good(l) BY <1>2, <1>3, <1>8 DEF FetchFails
    <2> QED BY <1>1, <1>8, <2>1 DEF FetchFails, remote, history, mirrors
  <1>9. CASE Fetch(s) BY <1>9, KnownFetched
  <1>10. CASE FetchRefused(s) BY <1>10, KnownRefused
  <1>11. CASE Upsert(s) \/ Insert(s) BY <1>11, KnownStored
  <1> QED BY <1>4, <1>5, <1>6, <1>7, <1>8, <1>9, <1>10, <1>11 DEF Sweep

LEMMA KnownOthers ==
  ASSUME KnownInv, Typed',
         \/ \E k \in Keys : Undo(k)
         \/ \E action \in {"ignore", "reject"}, matched \in SUBSET Keys : BulkSelect(action, matched)
         \/ BulkUpdate
         \/ StartDaily \/ StartGenerate \/ StartBatch
         \/ \E k \in Keys, state \in {"none", "candidate", "started"} : Promote(k, state)
         \/ \E c \in Caps : Recompute(c)
         \/ \E n \in Notes : Notify(n)
         \/ Crash
  PROVE  KnownInv'
  <1>0. Typed /\ TypeOK /\ rows \in [Keys -> Rows] BY DEF KnownInv, Typed, TypeOK
  <1>1. ASSUME UNCHANGED <<ml, version, reflected, ended, misread>>, NoReading,
               \A k \in Keys : rows'[k].started => rows[k].started
        PROVE  KnownInv'
    BY <1>1, KnownRests DEF NoReading
  <1>2. ASSUME NEW k \in Keys, Undo(k) PROVE KnownInv'
    <2>1. rows' = [rows EXCEPT ![k].status = "pending"] BY <1>2 DEF Undo
    <2>2. [rows[k] EXCEPT !.status = "pending"].started = rows[k].started
      BY <1>0, RowMoves DEF Statuses
    <2>3. \A p \in Keys : rows'[p].started => rows[p].started BY <1>0, <2>1, <2>2
    <2> QED BY <1>1, <1>2, <2>3, JobSame DEF Undo, remote, history, mirrors
  <1>3. ASSUME NEW action, NEW matched, BulkSelect(action, matched) PROVE KnownInv'
    BY <1>1, <1>3, JobSame DEF BulkSelect, remote, history, mirrors
  <1>4. CASE BulkUpdate
    <2>1. \A k \in Keys : rows'[k].started => rows[k].started
      <3>1. \A k \in Keys : [rows[k] EXCEPT !.status = bulk.action].started = rows[k].started
        BY <1>0 DEF Rows
      <3> QED BY <1>4, <3>1 DEF BulkUpdate
    <2> QED BY <1>1, <1>4, <2>1, JobSame DEF BulkUpdate, remote, history, mirrors
  <1>5. ASSUME StartDaily \/ StartGenerate \/ StartBatch PROVE KnownInv'
    <2> DEFINE Good(s, l) == SetJob(s, l) /\ l \in Jobs /\ l.step \notin {"upsert", "insert"}
    <2>1. PICK s \in Sweeps, l \in Jobs : Good(s, l)
      <3>1. CASE StartDaily
        <4> DEFINE l == [IdleJob EXCEPT !.step = "expire", !.stale = Pending]
        <4>1. l \in Jobs /\ l.step = "expire" BY DEF IdleJob, Jobs, Pending
        <4>2. "daily" \in Sweeps /\ SetJob("daily", l) BY <3>1 DEF StartDaily, Sweeps
        <4> HIDE DEF l
        <4> QED BY <4>1, <4>2
      <3>2. CASE StartGenerate
        <4> DEFINE l == [IdleJob EXCEPT !.step = "generate"]
        <4>1. l \in Jobs /\ l.step = "generate" BY DEF IdleJob, Jobs
        <4>2. "request" \in Sweeps /\ SetJob("request", l) BY <3>2 DEF StartGenerate, Sweeps
        <4> HIDE DEF l
        <4> QED BY <4>1, <4>2
      <3>3. CASE StartBatch
        <4> DEFINE l == [IdleJob EXCEPT !.step = "mirror", !.batch = Arrived]
        <4>1. l \in Jobs /\ l.step = "mirror" BY DEF IdleJob, Jobs, Arrived
        <4>2. "hook" \in Sweeps /\ SetJob("hook", l) BY <3>3 DEF StartBatch, Sweeps
        <4> HIDE DEF l
        <4> QED BY <4>1, <4>2
      <3> QED BY <1>5, <3>1, <3>2, <3>3
    <2>2. NoReading BY <1>0, <2>1, JobRests
    <2>3. UNCHANGED <<remote, rows, call, bulk, inbox, history, left>>
      BY <1>5 DEF StartDaily, StartGenerate, StartBatch
    <2> QED BY <1>1, <2>2, <2>3 DEF remote, history, mirrors
  <1>6. ASSUME NEW k \in Keys, NEW state, Promote(k, state) PROVE KnownInv'
    <2>1. UNCHANGED <<rows, job, reflected, misread>> BY <1>6 DEF Promote, local, mirrors
    <2>2. ended \subseteq ended' /\ (ml[k] # "started" \/ k \in ended') BY <1>6 DEF Promote
    <2>3. ml' = [ml EXCEPT ![k] = state] /\ version' = version + 1 BY <1>6 DEF Promote
    <2> QED BY <2>1, <2>2, <2>3, KnownChanges
  <1>7. ASSUME NEW c, Recompute(c) PROVE KnownInv'
    BY <1>1, <1>7, JobSame DEF Recompute, local, history, mirrors
  <1>8. ASSUME NEW n, Notify(n) PROVE KnownInv'
    BY <1>1, <1>8, JobSame DEF Notify, remote, local, history, mirrors
  <1>9. CASE Crash
    <2>1. NoReading BY <1>9, IdleSweeps DEF Crash, NoReading, Reading
    <2> QED BY <1>1, <1>9, <2>1 DEF Crash, remote, history, mirrors
  <1> QED BY <1>2, <1>3, <1>4, <1>5, <1>6, <1>7, <1>8, <1>9

LEMMA KnownInit == Init => KnownInv
  <1> SUFFICES ASSUME Init PROVE KnownInv
    OBVIOUS
  <1>1. \A s \in Sweeps : ~Reading(s) BY IdleSweeps DEF Init, Reading
  <1>2. \A k \in Keys : ~rows[k].started BY DEF Init, NoRow
  <1> QED BY <1>1, <1>2, TypedInit DEF KnownInv, ReadInv, Known, Sees

LEMMA KnownNext == KnownInv /\ [Next]_vars => KnownInv'
  <1> SUFFICES ASSUME KnownInv, [Next]_vars PROVE KnownInv'
    OBVIOUS
  <1>1. Typed' BY TypedNext DEF KnownInv
  <1>2. CASE UNCHANGED vars
    <2>1. NoReading BY <1>2, JobSame DEF vars
    <2> QED BY <1>1, <1>2, <2>1, KnownRests DEF vars, history, NoReading
  <1>3. ASSUME NEW c \in Callers,
               \/ \E k \in Keys : Retry(c, k) \/ \E op \in DOMAIN Outcome : Open(c, op, k)
               \/ Serve(c) \/ SendFails(c)
        PROVE  KnownInv'
    BY <1>1, <1>3, KnownCall
  <1>4. ASSUME NEW s \in Sweeps, Sweep(s) \/ FetchRefused(s) \/ FetchFails(s) PROVE KnownInv'
    BY <1>1, <1>4, KnownSweep
  <1> QED BY <1>1, <1>2, <1>3, <1>4, KnownOthers DEF Next

\* A step that leaves the rows.
LEMMA RowsRest ==
  ASSUME rows' = rows
  PROVE  DecisionStands /\ StartedKept
  BY DEF DecisionStands, StartedKept, Dropped, Shown

\* A step of a request or of an operator writes a row it may write.
LEMMA CallStands ==
  ASSUME Typed, NEW c \in Callers,
         \/ \E k \in Keys : Retry(c, k) \/ \E op \in DOMAIN Outcome : Open(c, op, k)
         \/ Serve(c) \/ SendFails(c)
  PROVE  DecisionStands /\ StartedKept
  <1>0. TypeOK /\ rows \in [Keys -> Rows] /\ Fits(call[c]) BY DEF Typed, TypeOK, Fitting
  <1>1. CASE Decide(c)
    <2> DEFINE p == call[c].key
               to == Outcome[call[c].op]
    <2>1. p \in Keys /\ call[c].op \in DOMAIN Outcome BY <1>0, <1>1 DEF Decide, AtCall, Fits
    <2>2. to \in {"approved", "rejected", "ignored"} BY <2>1 DEF Outcome
    <2>3. rows' = [rows EXCEPT ![p].status = to] BY <1>1 DEF Decide
    <2>4. raced' = raced \cup (IF rows[p].status # "pending" THEN {p} ELSE {}) BY <1>1 DEF Decide
    <2> HIDE DEF p, to
    <2>5. \A k \in Keys \ {p} : rows'[k] = rows[k] BY <1>0, <2>3
    <2>6. rows'[p].status = to
      <3>1. [rows[p] EXCEPT !.status = to].status = to
        BY <1>0, <2>1, <2>2, RowMoves DEF Statuses
      <3> QED BY <1>0, <2>1, <2>3, <3>1
    <2>7. rows[p].status \in Decided => p \in raced' BY <2>4 DEF Decided
    <2>8. DecisionStands BY <2>5, <2>7 DEF DecisionStands
    <2>9. StartedKept BY <2>2, <2>5, <2>6 DEF StartedKept, Dropped, Shown
    <2> QED BY <2>8, <2>9
  <1>2. CASE Record(c)
    <2>1. call[c].key \in Keys /\ call[c].result \in {"ok", "failed", "skipped"}
      BY <1>0, <1>2 DEF Record, AtCall, Fits
    <2>2. rows' = [rows EXCEPT ![call[c].key].sending = call[c].result] BY <1>2 DEF Record
    <2>3. [rows[call[c].key] EXCEPT !.sending = call[c].result].status = rows[call[c].key].status
      BY <1>0, <2>1, RowMoves
    <2>4. \A k \in Keys : rows'[k].status = rows[k].status BY <1>0, <2>1, <2>2, <2>3
    <2> QED BY <2>4 DEF DecisionStands, StartedKept, Dropped, Shown
  <1>3. ASSUME NEW k \in Keys, NEW op \in DOMAIN Outcome, Open(c, op, k) PROVE rows' = rows
    BY <1>3 DEF Open
  <1>4. ASSUME NEW k \in Keys, Retry(c, k) PROVE rows' = rows BY <1>4 DEF Retry
  <1>5. AlreadyDecided(c) => rows' = rows BY DEF AlreadyDecided
  <1>6. Send(c) \/ SendFails(c) => rows' = rows BY DEF Send, SendFails, Lost
  <1> QED BY <1>1, <1>2, <1>3, <1>4, <1>5, <1>6, RowsRest DEF Serve

LEMMA ActStands ==
  ASSUME Typed,
         \/ \E k \in Keys : Undo(k)
         \/ \E action \in {"ignore", "reject"}, matched \in SUBSET Keys : BulkSelect(action, matched)
         \/ BulkUpdate
         \/ StartDaily \/ StartGenerate \/ StartBatch
         \/ \E k \in Keys, state \in {"none", "candidate", "started"} : Promote(k, state)
         \/ \E c \in Caps : Recompute(c)
         \/ \E n \in Notes : Notify(n)
         \/ Crash
  PROVE  DecisionStands /\ StartedKept
  <1>0. TypeOK /\ rows \in [Keys -> Rows] BY DEF Typed, TypeOK
  <1>1. ASSUME NEW p \in Keys, Undo(p) PROVE DecisionStands /\ StartedKept
    <2>1. rows' = [rows EXCEPT ![p].status = "pending"] BY <1>1 DEF Undo
    <2>2. [rows[p] EXCEPT !.status = "pending"].status = "pending"
      BY <1>0, RowMoves DEF Statuses
    <2>3. rows'[p].status = "pending" /\ \A k \in Keys \ {p} : rows'[k] = rows[k]
      BY <1>0, <2>1, <2>2
    <2>4. left'.asks < left.asks BY <1>0, <1>1, LeftType DEF Undo, Ask, TypeOK
    <2>5. DecisionStands BY <2>3, <2>4 DEF DecisionStands
    <2>6. StartedKept BY <2>3 DEF StartedKept, Dropped, Shown
    <2> QED BY <2>5, <2>6
  <1>2. CASE BulkUpdate
    <2>1. \A k \in Keys : rows[k].status = "pending" \/ rows'[k] = rows[k]
      BY <1>0, <1>2 DEF BulkUpdate
    <2> QED BY <2>1 DEF DecisionStands, StartedKept, Dropped, Shown, Decided
  <1>3. ASSUME NEW action, NEW matched, BulkSelect(action, matched) PROVE rows' = rows
    BY <1>3 DEF BulkSelect
  <1>4. StartDaily \/ StartGenerate \/ StartBatch => rows' = rows
    BY DEF StartDaily, StartGenerate, StartBatch
  <1>5. ASSUME NEW k, NEW state, Promote(k, state) PROVE rows' = rows BY <1>5 DEF Promote, local
  <1>6. ASSUME NEW c, Recompute(c) PROVE rows' = rows BY <1>6 DEF Recompute, local
  <1>7. ASSUME NEW n, Notify(n) PROVE rows' = rows BY <1>7 DEF Notify, local
  <1>8. Crash => rows' = rows BY DEF Crash
  <1> QED BY <1>1, <1>2, <1>3, <1>4, <1>5, <1>6, <1>7, <1>8, RowsRest

\* A sweep expires what others decided only when it read the row before, and what is
\* shown as started only when a reading later than the row's says that it has ended.
LEMMA SweepStands ==
  ASSUME KnownInv, NEW s \in Sweeps, Sweep(s) \/ FetchRefused(s) \/ FetchFails(s)
  PROVE  DecisionStands /\ StartedKept
  <1>0. /\ Typed /\ TypeOK /\ CapRead /\ rows \in [Keys -> Rows] /\ job[s] \in Jobs
        /\ reflected \in Nat
    BY DEF KnownInv, Typed, TypeOK
  <1>1. CASE Expire(s)
    <2> DEFINE gone == {k \in job[s].stale : Stale(k)}
    <2>1. /\ rows' = [k \in Keys |-> IF k \in gone THEN [rows[k] EXCEPT !.status = "expired"]
                                     ELSE rows[k]]
          /\ raced' = raced \cup {k \in gone : rows[k].status # "pending"}
      BY <1>1 DEF Expire
    <2> HIDE DEF gone
    <2>2. \A k \in Keys : rows'[k] = rows[k] \/ rows[k].status = "pending" \/ k \in raced'
      BY <2>1
    <2> QED BY <2>2 DEF DecisionStands, StartedKept, Dropped, Shown, Decided
  <1>2. ASSUME Upsert(s) \/ Insert(s) PROVE DecisionStands /\ StartedKept
    <2>1. Reading(s) /\ Reflects(s) /\ job[s].of \in Nat
      BY <1>0, <1>2 DEF Upsert, Insert, AtJob, Reading, Jobs
    <2>2. ASSUME NEW k \in Keys, rows[k].status # "none"
          PROVE  rows'[k] = Reconciled(rows[k], job[s].seen[k])
      <3>1. CASE Upsert(s) BY <3>1 DEF Upsert
      <3>2. CASE Insert(s)
        <4>1. job[s].cap \in Caps BY <1>0, <3>2 DEF Insert, AtJob, CapRead
        <4>2. Generated(rows[k], job[s].seen[k], job[s].cap) = Reconciled(rows[k], job[s].seen[k])
          BY <1>0, <2>2, <4>1, RowGenerated
        <4> QED BY <3>2, <4>2 DEF Insert
      <3> QED BY <1>2, <3>1, <3>2
    <2>3. DecisionStands
      <3> SUFFICES ASSUME NEW k \in Keys, rows[k].status \in Decided, ~Shown(rows[k]),
                          rows'[k].status # rows[k].status
                   PROVE  Shown(rows'[k]) /\ job[s].seen[k] = "started"
        BY DEF DecisionStands
      <3>1. rows'[k] = Reconciled(rows[k], job[s].seen[k]) BY <2>2 DEF Decided
      <3> QED BY <1>0, <3>1, RowSwept
    <2>4. StartedKept
      <3> SUFFICES ASSUME NEW k \in Keys, Dropped(k), k \notin ended, ~misread, ~overtaken'
                   PROVE  FALSE
        BY DEF StartedKept
      <3>1. Shown(rows[k]) /\ rows'[k].status = "expired" /\ rows[k].started
        BY DEF Dropped, Shown
      <3>2. rows'[k] = Reconciled(rows[k], job[s].seen[k]) BY <2>2, <3>1 DEF Shown
      <3>3. job[s].seen[k] # "started"
        <4>1. Shown(rows'[k]) => rows'[k].status = "ignored" BY DEF Shown
        <4> QED BY <1>0, <3>1, <3>2, <4>1 DEF Reconciled, Started, Rows
      <3>4. reflected <= job[s].of
        <4>1. overtaken' = (overtaken \/ job[s].of < reflected) BY <2>1 DEF Reflects
        <4>2. ~(job[s].of < reflected) BY <4>1, Zenon
        <4> QED BY <1>0, <2>1, <4>2
      <3>5. Known(k) BY DEF KnownInv
      <3> QED BY <2>1, <3>1, <3>3, <3>4, <3>5 DEF Known, Sees
    <2> QED BY <2>3, <2>4
  <1>3. Mirror(s) => rows' = rows BY DEF Mirror
  <1>4. Fetch(s) => rows' = rows BY DEF Fetch
  <1>5. SkipUncapped(s) => rows' = rows BY DEF SkipUncapped
  <1>6. Settle(s) => rows' = rows BY DEF Settle
  <1>7. FetchRefused(s) => rows' = rows BY DEF FetchRefused
  <1>8. FetchFails(s) => rows' = rows BY DEF FetchFails
  <1> QED BY <1>1, <1>2, <1>3, <1>4, <1>5, <1>6, <1>7, <1>8, RowsRest DEF Sweep

\* For any number of promotions, requests and readings: what an operator decided is not
\* taken back, nor is a row shown as started expired before its promotion ended, but by
\* what the property excepts (reconcile_started_promos, expire_stale_decisions).
THEOREM DecisionsStand == MCSpec => RowsStand
  <1>1. MCInit => KnownInv BY KnownInit DEF MCInit
  <1>2. KnownInv /\ [MCNext]_allVars => KnownInv' BY KnownNext, QueueStep
  <1>3. KnownInv /\ [MCNext]_allVars => [DecisionStands /\ StartedKept]_vars
    <2> SUFFICES ASSUME KnownInv, Next PROVE DecisionStands /\ StartedKept
      BY QueueStep
    <2>1. Typed BY DEF KnownInv
    <2>2. ASSUME NEW c \in Callers,
                 \/ \E k \in Keys : Retry(c, k) \/ \E op \in DOMAIN Outcome : Open(c, op, k)
                 \/ Serve(c) \/ SendFails(c)
          PROVE  DecisionStands /\ StartedKept
      BY <2>1, <2>2, CallStands
    <2>3. ASSUME NEW s \in Sweeps, Sweep(s) \/ FetchRefused(s) \/ FetchFails(s)
          PROVE  DecisionStands /\ StartedKept
      BY <2>3, SweepStands
    <2> QED BY <2>1, <2>2, <2>3, ActStands DEF Next
  <1> QED BY <1>1, <1>2, <1>3, PTL DEF MCSpec, RowsStand

---------------------------------------------------------------------------
(* The queue: what is processed                                            *)

\* What a notification tells of is of a version, and a batch took it up; once a
\* sweep has mirrored, what it took up is of versions that were mirrored.
NotesInv ==
    /\ mirrored <= version
    /\ \A n \in Notes : inbox[n].of <= version
    /\ \A s \in Sweeps : \A n \in job[s].batch : inbox[n].status # "none"
Mirrored ==
    /\ \A n \in Notes : inbox[n].status = "processed" => inbox[n].of <= mirrored
    /\ \A s \in Sweeps : job[s].step \in {"mirror", "giveup"}
                         \/ \A n \in job[s].batch : inbox[n].of <= mirrored
MirroredInv == Typed /\ NotesInv /\ (misread \/ Mirrored)

\* A sweep keeps its batch, or has none; and comes to no later step without mirroring.
BatchKept(s) ==
    \/ job'[s].batch = {}
    \/ /\ job'[s].batch = job[s].batch
       /\ job[s].step \in {"mirror", "giveup"} => job'[s].step \in {"mirror", "giveup"}

LEMMA MirroredRests ==
  ASSUME MirroredInv, Typed', version' \in {version, version + 1}, mirrored' = mirrored,
         inbox' = inbox, misread => misread', \A s \in Sweeps : BatchKept(s)
  PROVE  MirroredInv'
  <1>1. /\ version \in Nat /\ mirrored \in Nat /\ \A n \in Notes : inbox[n].of \in Nat
        /\ \A s \in Sweeps : job[s].batch \subseteq Notes
    BY DEF MirroredInv, Typed, TypeOK, Jobs
  <1>2. NotesInv'
    <2>1. mirrored' <= version' BY <1>1 DEF MirroredInv, NotesInv
    <2>2. \A n \in Notes : inbox'[n].of <= version' BY <1>1 DEF MirroredInv, NotesInv
    <2>3. \A s \in Sweeps : \A n \in job'[s].batch : inbox'[n].status # "none"
      BY DEF BatchKept, MirroredInv, NotesInv
    <2> QED BY <2>1, <2>2, <2>3 DEF NotesInv
  <1>3. ~misread' => Mirrored' BY DEF BatchKept, MirroredInv, Mirrored
  <1> QED BY <1>2, <1>3 DEF MirroredInv

LEMMA BatchSame == job' = job => \A s \in Sweeps : BatchKept(s)
  BY DEF BatchKept

LEMMA BatchSet ==
  ASSUME Typed, NEW s \in Sweeps, NEW l \in Jobs, SetJob(s, l),
         \/ l.batch = {}
         \/ /\ l.batch = job[s].batch
            /\ job[s].step \in {"mirror", "giveup"} => l.step \in {"mirror", "giveup"}
  PROVE  \A t \in Sweeps : BatchKept(t)
  <1>1. job \in [Sweeps -> Jobs] BY DEF Typed, TypeOK
  <1>2. job'[s] = l /\ \A t \in Sweeps \ {s} : job'[t] = job[t] BY <1>1, JobSet
  <1> QED BY <1>2 DEF BatchKept

LEMMA MirroredCall ==
  ASSUME MirroredInv, Typed', NEW c \in Callers,
         \/ \E k \in Keys : Retry(c, k) \/ \E op \in DOMAIN Outcome : Open(c, op, k)
         \/ Serve(c) \/ SendFails(c)
  PROVE  MirroredInv'
  <1>1. /\ version' \in {version, version + 1} /\ mirrored' = mirrored
        /\ inbox' = inbox /\ misread' = misread /\ job' = job
    <2>1. ASSUME NEW k \in Keys, NEW op \in DOMAIN Outcome, Open(c, op, k)
          PROVE  UNCHANGED <<version, mirrored, inbox, misread, job>>
      BY <2>1 DEF Open, remote, history, mirrors
    <2>2. ASSUME NEW k \in Keys, Retry(c, k)
          PROVE  UNCHANGED <<version, mirrored, inbox, misread, job>>
      BY <2>2 DEF Retry, remote, mirrors
    <2>3. Decide(c) => UNCHANGED <<version, mirrored, inbox, misread, job>>
      BY DEF Decide, remote, mirrors
    <2>4. AlreadyDecided(c) => UNCHANGED <<version, mirrored, inbox, misread, job>>
      BY DEF AlreadyDecided, remote, history, mirrors
    <2>5. Record(c) => UNCHANGED <<version, mirrored, inbox, misread, job>>
      BY DEF Record, remote, history, mirrors
    <2>6. Send(c) \/ SendFails(c) => /\ UNCHANGED <<mirrored, inbox, misread, job>>
                                     /\ version' \in {version, version + 1}
      BY DEF Send, SendFails, Lost, Enroll, mirrors
    <2> QED BY <2>1, <2>2, <2>3, <2>4, <2>5, <2>6 DEF Serve
  <1> QED BY <1>1, BatchSame, MirroredRests

LEMMA JobAfter ==
  ASSUME NEW s \in Sweeps, job[s] \in Jobs, NEW step \in {"settle", "generate"}
  PROVE  After(s, step) \in Jobs /\ After(s, step).batch \in {{}, job[s].batch}
  <1>1. [job[s] EXCEPT !.step = step] \in Jobs /\ [job[s] EXCEPT !.step = step].batch = job[s].batch
    BY DEF Jobs
  <1> QED BY <1>1, IdleSweeps DEF After

LEMMA MirroredSweep ==
  ASSUME MirroredInv, Typed', NEW s \in Sweeps, Sweep(s) \/ FetchRefused(s) \/ FetchFails(s)
  PROVE  MirroredInv'
  <1>0. /\ Typed /\ TypeOK /\ job[s] \in Jobs /\ job \in [Sweeps -> Jobs] /\ NotesInv
        /\ version \in Nat /\ mirrored \in Nat /\ (\A n \in Notes : inbox[n].of \in Nat)
        /\ job[s].batch \subseteq Notes
    BY DEF MirroredInv, Typed, TypeOK, Jobs
  <1> DEFINE Good(l) == /\ SetJob(s, l) /\ l \in Jobs
                        /\ \/ l.batch = {}
                           \/ /\ l.batch = job[s].batch
                              /\ job[s].step \in {"mirror", "giveup"} => l.step \in {"mirror", "giveup"}
  <1>1. ASSUME version' = version, mirrored' = mirrored, inbox' = inbox, misread => misread',
               \E l : Good(l)
        PROVE  MirroredInv'
    <2>1. \A t \in Sweeps : BatchKept(t) BY <1>0, <1>1, BatchSet
    <2> QED BY <1>1, <2>1, MirroredRests
  <1>a. job[s] \in Jobs BY <1>0
  <1>2. ASSUME NEW step \in {"settle", "generate"}
        PROVE  After(s, step) \in Jobs /\ After(s, step).batch \in {{}, job[s].batch}
    BY <1>a, JobAfter
  <1>3. ASSUME NEW step \in {"reconcile", "giveup"}
        PROVE  /\ [job[s] EXCEPT !.step = step] \in Jobs
               /\ [job[s] EXCEPT !.step = step].batch = job[s].batch
               /\ [job[s] EXCEPT !.step = step].step = step
    BY <1>a DEF Jobs
  <1>4. CASE Expire(s)
    <2> DEFINE l == [job[s] EXCEPT !.step = "reconcile", !.stale = {}]
    <2>1. l \in Jobs /\ l.batch = job[s].batch BY <1>0 DEF Jobs
    <2>2. SetJob(s, l) /\ job[s].step = "expire" BY <1>4 DEF Expire, AtJob
    <2> HIDE DEF l
    <2>3. Good(l) BY <2>1, <2>2
    <2> QED BY <1>1, <1>4, <2>3 DEF Expire, remote, mirrors
  <1>5. ASSUME Fetch(s) \/ FetchRefused(s), job[s].step # "mirror" PROVE MirroredInv'
    <2>1. PICK seen \in [Keys -> {"none", "candidate", "started"}] :
            \/ SetJob(s, [job[s] EXCEPT !.step = "upsert", !.seen = seen, !.of = version])
            \/ SetJob(s, [job[s] EXCEPT !.step = "insert", !.seen = seen, !.of = version, !.cap = cap])
      <3>1. [k \in Keys |-> "none"] \in [Keys -> {"none", "candidate", "started"}] OBVIOUS
      <3>2. ml \in [Keys -> {"none", "candidate", "started"}] BY <1>0 DEF TypeOK
      <3> QED BY <1>5, <3>1, <3>2 DEF Fetch, FetchRefused, AtJob
    <2> DEFINE x == [job[s] EXCEPT !.step = "upsert", !.seen = seen, !.of = version]
               y == [job[s] EXCEPT !.step = "insert", !.seen = seen, !.of = version, !.cap = cap]
    <2>2. x \in Jobs /\ x.batch = job[s].batch BY <1>0 DEF Jobs, TypeOK
    <2>3. y \in Jobs /\ y.batch = job[s].batch BY <1>0 DEF Jobs, TypeOK
    <2>4. SetJob(s, x) \/ SetJob(s, y) BY <2>1
    <2>5. job[s].step \notin {"mirror", "giveup"} BY <1>5 DEF Fetch, FetchRefused, AtJob
    <2> HIDE DEF x, y
    <2>6. \E l : Good(l) BY <2>2, <2>3, <2>4, <2>5
    <2>7. version' = version /\ mirrored' = mirrored /\ inbox' = inbox /\ (misread => misread')
      BY <1>5 DEF Fetch, FetchRefused, remote, history, mirrors
    <2> QED BY <1>1, <2>6, <2>7
  <1>6. CASE FetchRefused(s) /\ job[s].step = "mirror"
    <2>1. SetJob(s, [job[s] EXCEPT !.step = "reconcile"]) BY <1>6 DEF FetchRefused, AtJob
    <2>2. job'[s].batch = job[s].batch /\ \A t \in Sweeps \ {s} : job'[t] = job[t]
      BY <1>0, <1>3, <2>1, JobSet
    <2>3. misread' /\ version' = version /\ mirrored' = mirrored /\ inbox' = inbox
      BY <1>6 DEF FetchRefused, remote
    <2>4. NotesInv' BY <1>0, <2>2, <2>3 DEF NotesInv
    <2> QED BY <2>3, <2>4 DEF MirroredInv
  <1>7. CASE SkipUncapped(s)
    <2>1. SetJob(s, After(s, "settle")) /\ job[s].step = "generate" BY <1>7 DEF SkipUncapped, AtJob
    <2>2. \E l : Good(l) BY <1>2, <2>1
    <2> QED BY <1>1, <1>7, <2>2 DEF SkipUncapped, remote, history, mirrors
  <1>8. ASSUME Upsert(s) \/ Insert(s) PROVE MirroredInv'
    <2>1. PICK step \in {"settle", "generate"} : SetJob(s, After(s, step))
      BY <1>8 DEF Upsert, Insert
    <2>2. job[s].step \notin {"mirror", "giveup"} BY <1>8 DEF Upsert, Insert, AtJob
    <2>3. \E l : Good(l) BY <1>2, <2>1, <2>2
    <2> QED BY <1>1, <1>8, <2>3 DEF Upsert, Insert, Reflects, remote
  <1>9. CASE FetchFails(s)
    <2>1. \E l : Good(l)
      <3>1. CASE SetJob(s, [job[s] EXCEPT !.step = "giveup"]) BY <1>3, <3>1
      <3>2. ASSUME NEW step \in {"settle", "generate"}, SetJob(s, After(s, step)),
                   job[s].step \notin {"mirror", "giveup"}
            PROVE  \E l : Good(l)
        BY <1>2, <3>2
      <3> QED BY <1>9, <3>1, <3>2 DEF FetchFails, AtJob
    <2> QED BY <1>1, <1>9, <2>1 DEF FetchFails, remote, history, mirrors
  <1>10. CASE Mirror(s)
    <2>1. SetJob(s, [job[s] EXCEPT !.step = "reconcile"]) BY <1>10 DEF Mirror
    <2>2. job'[s].batch = job[s].batch /\ \A t \in Sweeps \ {s} : job'[t] = job[t]
      BY <1>0, <1>3, <2>1, JobSet
    <2>3. mirrored' = version /\ version' = version /\ inbox' = inbox /\ misread' = misread
      BY <1>10 DEF Mirror, remote
    <2>4. NotesInv'
      <3>1. mirrored' <= version' BY <1>0, <2>3
      <3> QED BY <1>0, <2>2, <2>3, <3>1 DEF NotesInv
    <2>5. \A n \in Notes : inbox'[n].of <= mirrored' BY <1>0, <2>3 DEF NotesInv
    <2>6. \A t \in Sweeps : job'[t].batch \subseteq Notes BY DEF Typed, TypeOK, Jobs
    <2>7. Mirrored' BY <2>5, <2>6 DEF Mirrored
    <2> QED BY <2>4, <2>7 DEF MirroredInv
  <1>11. CASE Settle(s)
    <2>1. SetJob(s, IdleJob) /\ UNCHANGED <<version, mirrored, misread>>
      BY <1>11 DEF Settle, remote, history, mirrors
    <2>2. job'[s].batch = {} /\ \A t \in Sweeps \ {s} : job'[t] = job[t]
      BY <1>0, <2>1, IdleSweeps, JobSet
    <2>3. ASSUME NEW n \in Notes
          PROVE  /\ inbox'[n].of = inbox[n].of
                 /\ inbox[n].status # "none" => inbox'[n].status # "none"
                 /\ \/ inbox'[n].status # "processed" \/ inbox'[n].status = inbox[n].status
                    \/ job[s].step = "settle" /\ n \in job[s].batch
      <3>1. inbox[n] \in [status : {"none", "pending", "processed", "error"}, of : Nat]
        BY <1>0 DEF TypeOK
      <3> DEFINE x == IF AtJob(s, "settle") THEN "processed" ELSE "error"
                 y == [inbox[n] EXCEPT !.status = x]
      <3>2. y.of = inbox[n].of /\ y.status = x BY <3>1
      <3>3. inbox'[n] = IF n \in job[s].batch THEN y ELSE inbox[n] BY <1>11 DEF Settle
      <3>4. x \in {"processed", "error"} /\ (x = "processed" => job[s].step = "settle") BY DEF AtJob
      <3> HIDE DEF x, y
      <3> QED BY <3>2, <3>3, <3>4
    <2>4. NotesInv'
      <3>1. \A t \in Sweeps : job[t].batch \subseteq Notes BY <1>0 DEF Jobs
      <3> QED BY <1>0, <2>1, <2>2, <2>3, <3>1 DEF NotesInv
    <2>5. ASSUME ~misread' PROVE Mirrored'
      <3>1. Mirrored BY <2>1, <2>5 DEF MirroredInv
      <3>2. \A t \in Sweeps : job[t].batch \subseteq Notes BY <1>0 DEF Jobs
      <3>3. \A n \in Notes : inbox'[n].status = "processed" => inbox'[n].of <= mirrored'
        BY <2>1, <2>3, <3>1 DEF Mirrored
      <3>4. \A t \in Sweeps : job'[t].step \in {"mirror", "giveup"}
                              \/ \A n \in job'[t].batch : inbox'[n].of <= mirrored'
        BY <2>1, <2>2, <2>3, <3>1, <3>2 DEF Mirrored
      <3> QED BY <3>3, <3>4 DEF Mirrored
    <2> QED BY <2>4, <2>5 DEF MirroredInv
  <1> QED BY <1>4, <1>5, <1>6, <1>7, <1>8, <1>9, <1>10, <1>11 DEF Sweep, Fetch, AtJob

LEMMA MirroredOthers ==
  ASSUME MirroredInv, Typed',
         \/ \E k \in Keys : Undo(k)
         \/ \E action \in {"ignore", "reject"}, matched \in SUBSET Keys : BulkSelect(action, matched)
         \/ BulkUpdate
         \/ StartDaily \/ StartGenerate \/ StartBatch
         \/ \E k \in Keys, state \in {"none", "candidate", "started"} : Promote(k, state)
         \/ \E c \in Caps : Recompute(c)
         \/ \E n \in Notes : Notify(n)
         \/ Crash
  PROVE  MirroredInv'
  <1>0. /\ Typed /\ TypeOK /\ NotesInv /\ job \in [Sweeps -> Jobs]
        /\ version \in Nat /\ mirrored \in Nat
    BY DEF MirroredInv, Typed, TypeOK
  <1>1. ASSUME version' \in {version, version + 1}, UNCHANGED <<mirrored, inbox, misread, job>>
        PROVE  MirroredInv'
    BY <1>1, BatchSame, MirroredRests
  <1>2. ASSUME NEW k, Undo(k) PROVE MirroredInv'
    BY <1>1, <1>2 DEF Undo, remote, history, mirrors
  <1>3. ASSUME NEW action, NEW matched, BulkSelect(action, matched) PROVE MirroredInv'
    BY <1>1, <1>3 DEF BulkSelect, remote, history, mirrors
  <1>4. CASE BulkUpdate BY <1>1, <1>4 DEF BulkUpdate, remote, history, mirrors
  <1>5. ASSUME NEW k, NEW state, Promote(k, state) PROVE MirroredInv'
    BY <1>1, <1>5 DEF Promote, local, mirrors
  <1>6. ASSUME NEW c, Recompute(c) PROVE MirroredInv'
    BY <1>1, <1>6 DEF Recompute, local, history, mirrors
  <1>7. CASE Crash
    <2>1. \A s \in Sweeps : BatchKept(s) BY <1>7, IdleSweeps DEF Crash, BatchKept
    <2>2. UNCHANGED <<version, mirrored, inbox, misread>>
      BY <1>7 DEF Crash, remote, history, mirrors
    <2> QED BY <2>1, <2>2, MirroredRests
  <1>8. ASSUME StartDaily \/ StartGenerate PROVE MirroredInv'
    <2>1. PICK s \in Sweeps, l \in Jobs : SetJob(s, l) /\ l.batch = {}
      <3>1. CASE StartDaily
        <4> DEFINE l == [IdleJob EXCEPT !.step = "expire", !.stale = Pending]
        <4>1. l \in Jobs /\ l.batch = {} BY DEF IdleJob, Jobs, Pending
        <4>2. "daily" \in Sweeps /\ SetJob("daily", l) BY <3>1 DEF StartDaily, Sweeps
        <4> HIDE DEF l
        <4> QED BY <4>1, <4>2
      <3>2. CASE StartGenerate
        <4> DEFINE l == [IdleJob EXCEPT !.step = "generate"]
        <4>1. l \in Jobs /\ l.batch = {} BY DEF IdleJob, Jobs
        <4>2. "request" \in Sweeps /\ SetJob("request", l) BY <3>2 DEF StartGenerate, Sweeps
        <4> HIDE DEF l
        <4> QED BY <4>1, <4>2
      <3> QED BY <1>8, <3>1, <3>2
    <2>2. \A t \in Sweeps : BatchKept(t) BY <1>0, <2>1, BatchSet
    <2>3. UNCHANGED <<version, mirrored, inbox, misread>>
      BY <1>8 DEF StartDaily, StartGenerate, remote, history, mirrors
    <2> QED BY <2>2, <2>3, MirroredRests
  <1>9. CASE StartBatch
    <2> DEFINE l == [IdleJob EXCEPT !.step = "mirror", !.batch = Arrived]
    <2>1. l \in Jobs /\ l.batch = Arrived /\ l.step = "mirror" BY DEF IdleJob, Jobs, Arrived
    <2>2. "hook" \in Sweeps /\ SetJob("hook", l) BY <1>9 DEF StartBatch, Sweeps
    <2> HIDE DEF l
    <2>3. job'["hook"] = l /\ \A t \in Sweeps \ {"hook"} : job'[t] = job[t]
      BY <1>0, <2>1, <2>2, JobSet
    <2>4. UNCHANGED <<version, mirrored, inbox, misread>>
      BY <1>9 DEF StartBatch, remote, history, mirrors
    <2>5. NotesInv' BY <1>0, <2>1, <2>3, <2>4 DEF NotesInv, Arrived
    <2>6. ~misread' => Mirrored' BY <2>1, <2>3, <2>4 DEF MirroredInv, Mirrored
    <2> QED BY <2>5, <2>6 DEF MirroredInv
  <1>10. ASSUME NEW n \in Notes, Notify(n) PROVE MirroredInv'
    <2>1. UNCHANGED <<version, mirrored, misread, job>>
      BY <1>10 DEF Notify, remote, local, history, mirrors
    <2>2. /\ inbox[n].status = "none" /\ inbox'[n].status = "pending" /\ inbox'[n].of = version
          /\ \A m \in Notes \ {n} : inbox'[m] = inbox[m]
      BY <1>0, <1>10 DEF Notify, TypeOK
    <2>3. \A s \in Sweeps : job[s].batch \subseteq Notes /\ n \notin job[s].batch
      BY <1>0, <2>2 DEF NotesInv, Jobs
    <2>4. NotesInv' BY <1>0, <2>1, <2>2, <2>3 DEF NotesInv
    <2>5. ~misread' => Mirrored'
      <3>1. ~misread' => \A m \in Notes : inbox'[m].status = "processed" => inbox'[m].of <= mirrored'
        BY <2>1, <2>2 DEF MirroredInv, Mirrored
      <3>2. ~misread' => \A s \in Sweeps : job'[s].step \in {"mirror", "giveup"}
                                           \/ \A m \in job'[s].batch : inbox'[m].of <= mirrored'
        BY <2>1, <2>2, <2>3 DEF MirroredInv, Mirrored
      <3> QED BY <3>1, <3>2 DEF Mirrored
    <2> QED BY <2>4, <2>5 DEF MirroredInv
  <1> QED BY <1>2, <1>3, <1>4, <1>5, <1>6, <1>7, <1>8, <1>9, <1>10

LEMMA MirroredNext == MirroredInv /\ [Next]_vars => MirroredInv'
  <1> SUFFICES ASSUME MirroredInv, [Next]_vars PROVE MirroredInv'
    OBVIOUS
  <1>1. Typed' BY TypedNext DEF MirroredInv
  <1>2. CASE UNCHANGED vars BY <1>1, <1>2, BatchSame, MirroredRests DEF vars, history
  <1>3. ASSUME NEW c \in Callers,
               \/ \E k \in Keys : Retry(c, k) \/ \E op \in DOMAIN Outcome : Open(c, op, k)
               \/ Serve(c) \/ SendFails(c)
        PROVE  MirroredInv'
    BY <1>1, <1>3, MirroredCall
  <1>4. ASSUME NEW s \in Sweeps, Sweep(s) \/ FetchRefused(s) \/ FetchFails(s) PROVE MirroredInv'
    BY <1>1, <1>4, MirroredSweep
  <1> QED BY <1>1, <1>2, <1>3, <1>4, MirroredOthers DEF Next

LEMMA MirroredInit == Init => MirroredInv
  <1> SUFFICES ASSUME Init PROVE MirroredInv
    OBVIOUS
  <1>1. NotesInv BY IdleSweeps DEF Init, NotesInv
  <1>2. Mirrored BY IdleSweeps DEF Init, Mirrored
  <1> QED BY <1>1, <1>2, TypedInit DEF MirroredInv

---------------------------------------------------------------------------
(* The direct endpoints: what operators are told                           *)

DirectTypes ==
    /\ offers \in [Direct!Offers -> Direct!States]
    /\ req \in [Requests -> Direct!Reqs]
    /\ mirror = [o \in Direct!Offers |-> mirror[o]]

\* Mercado Livre entered the listing, or may have; or no answer said so and nothing is
\* in the log.
Entered(x) == {"entered", "already", "unanswered"} \cap x.facts # {}
NotSaid(x) == {"entered", "logged"} \cap x.facts = {}

\* What a request knows at each of its steps.
Honest(x) ==
    /\ x.step \in {"idle", "find", "exit", "post"} => NotSaid(x)
    /\ x.step = "find" => x.op = "activate"
    /\ x.step = "record" => Entered(x) /\ x.op # "activate"
    /\ x.step = "mark" => Entered(x) /\ "logged" \in x.facts /\ x.op = "enroll"
    /\ x.step \in {"sync", "store"} =>
          /\ x.told \in {"done", "failed"}
          /\ x.told = "done" => Entered(x)
          /\ x.told = "failed" => NotSaid(x)
          /\ \/ x.op = "activate"
             \/ x.op = "enroll" /\ x.offer = "discount" /\ x.told = "done" /\ "logged" \in x.facts
    /\ x.step = "log" => Entered(x) /\ x.op = "activate"
    /\ x.step = "over" =>
          /\ x.told = "done" => Entered(x) /\ "logged" \in x.facts
          /\ x.told = "failed" => NotSaid(x)

\* An operator was told that the listing is in the campaign; and the copy says so, and
\* is kept from being lowered.
InCampaign(x) ==
    x.step = "over" /\ x.op = "enroll" /\ x.offer = "deal" /\ x.told = "done"
    /\ "unmarked" \notin x.facts
Enrolled == mirror["deal"] = [status |-> "started", enrolled |-> TRUE]

DirectInv ==
    /\ DirectTypes
    /\ \A r \in Requests : Honest(req[r]) /\ (InCampaign(req[r]) => Enrolled)

\* What the helpers make of a request.
LEMMA Telling ==
  ASSUME NEW x \in Direct!Reqs, NEW what \in {"nothing", "done", "error", "failed"}
  PROVE  LET y == Direct!Tell(x, what) IN
         /\ y \in Direct!Reqs /\ y.step = "over" /\ y.told = what
         /\ y.op = x.op /\ y.offer = x.offer /\ y.facts = x.facts
  BY DEF Direct!Tell, Direct!Reqs, Direct!NotSeen, Direct!States, Direct!Offers

LEMMA Knows ==
  ASSUME NEW x \in Direct!Reqs, NEW F \in SUBSET Direct!Facts
  PROVE  LET y == Direct!Knowing(x, F) IN
         /\ y \in Direct!Reqs /\ y.facts = x.facts \cup F
         /\ y.op = x.op /\ y.offer = x.offer /\ y.step = x.step /\ y.told = x.told
  BY DEF Direct!Knowing, Direct!Reqs

Steps == {"idle", "find", "exit", "post", "record", "mark", "sync", "store", "log", "over"}
LEMMA Moving ==
  ASSUME NEW x \in Direct!Reqs, NEW step \in Steps, NEW told \in {"nothing", "done", "error", "failed"}
  PROVE  /\ LET y == [x EXCEPT !.step = step] IN
            /\ y \in Direct!Reqs /\ y.step = step
            /\ y.op = x.op /\ y.offer = x.offer /\ y.facts = x.facts /\ y.told = x.told
         /\ LET y == [x EXCEPT !.step = step, !.told = told] IN
            /\ y \in Direct!Reqs /\ y.step = step /\ y.told = told
            /\ y.op = x.op /\ y.offer = x.offer /\ y.facts = x.facts
         /\ LET y == [x EXCEPT !.told = told, !.step = step] IN
            /\ y \in Direct!Reqs /\ y.step = step /\ y.told = told
            /\ y.op = x.op /\ y.offer = x.offer /\ y.facts = x.facts
  BY DEF Direct!Reqs, Steps

LEMMA Seeing ==
  ASSUME NEW x \in Direct!Reqs, NEW seen \in [Direct!Offers -> Direct!States]
  PROVE  /\ LET y == [x EXCEPT !.seen = seen] IN
            /\ y \in Direct!Reqs
            /\ y.op = x.op /\ y.offer = x.offer /\ y.facts = x.facts /\ y.step = x.step
            /\ y.told = x.told
         /\ LET y == [x EXCEPT !.step = "store", !.seen = seen] IN
            /\ y \in Direct!Reqs
            /\ y.op = x.op /\ y.offer = x.offer /\ y.facts = x.facts /\ y.step = "store"
            /\ y.told = x.told
  BY DEF Direct!Reqs

\* A refused or unanswered POST leaves what was known.
LEMMA Refusing ==
  ASSUME NEW x \in Direct!Reqs, x.step = "post", NotSaid(x)
  PROVE  LET y == Direct!RefusedPost(x) IN
         /\ y \in Direct!Reqs /\ y.facts = x.facts /\ y.told = "failed" /\ y.op = x.op
         /\ y.step = (IF x.op = "activate" THEN "sync" ELSE "over")
  <1>1. CASE x.op = "activate"
    <2> DEFINE y == [x EXCEPT !.step = "sync", !.told = "failed"]
    <2>1. Direct!RefusedPost(x) = y BY <1>1 DEF Direct!RefusedPost
    <2>2. /\ y \in Direct!Reqs /\ y.facts = x.facts /\ y.told = "failed" /\ y.op = x.op
          /\ y.step = "sync"
      BY DEF Direct!Reqs
    <2> HIDE DEF y
    <2> QED BY <1>1, <2>1, <2>2
  <1>2. CASE x.op # "activate"
    <2> DEFINE y == Direct!Tell(x, "failed")
    <2>1. Direct!RefusedPost(x) = y BY <1>2 DEF Direct!RefusedPost
    <2>2. /\ y \in Direct!Reqs /\ y.facts = x.facts /\ y.told = "failed" /\ y.op = x.op
          /\ y.step = "over"
      BY Telling
    <2> HIDE DEF y
    <2> QED BY <1>2, <2>1, <2>2
  <1> QED BY <1>1, <1>2

\* An entry goes on to the record, or to the copying.
LEMMA Entering ==
  ASSUME NEW x \in Direct!Reqs
  PROVE  LET y == Direct!AfterEntry(x) IN
         /\ y \in Direct!Reqs /\ y.facts = x.facts /\ y.op = x.op /\ y.offer = x.offer
         /\ \/ x.op = "activate" /\ y.step = "sync" /\ y.told = "done"
            \/ x.op # "activate" /\ y.step = "record"
  <1>1. CASE x.op = "activate"
    <2> DEFINE y == [x EXCEPT !.step = "sync", !.told = "done"]
    <2>1. Direct!AfterEntry(x) = y BY <1>1 DEF Direct!AfterEntry
    <2>2. /\ y \in Direct!Reqs /\ y.facts = x.facts /\ y.told = "done" /\ y.op = x.op
          /\ y.step = "sync" /\ y.offer = x.offer
      BY DEF Direct!Reqs
    <2> HIDE DEF y
    <2> QED BY <1>1, <2>1, <2>2
  <1>2. CASE x.op # "activate"
    <2> DEFINE y == [x EXCEPT !.step = "record"]
    <2>1. Direct!AfterEntry(x) = y BY <1>2 DEF Direct!AfterEntry
    <2>2. /\ y \in Direct!Reqs /\ y.facts = x.facts /\ y.op = x.op
          /\ y.step = "record" /\ y.offer = x.offer
      BY DEF Direct!Reqs
    <2> HIDE DEF y
    <2> QED BY <1>2, <2>1, <2>2
  <1> QED BY <1>1, <1>2

\* What a copying stores keeps what is protected.
LEMMA CopyKeeps ==
  ASSUME DirectTypes, NEW seen, mirror' = Direct!Copied(seen)
  PROVE  mirror' = [o \in Direct!Offers |-> mirror'[o]] /\ (Enrolled => Enrolled')
  <1>1. "deal" \in Direct!Offers BY DEF Direct!Offers
  <1>2. mirror' = [o \in Direct!Offers |-> mirror'[o]] BY DEF Direct!Copied
  <1>3. ASSUME Enrolled PROVE Enrolled'
    <2> DEFINE e == [status |-> "started", enrolled |-> TRUE]
    <2>1. mirror["deal"] = e BY <1>3 DEF Enrolled
    <2>2. mirror'["deal"] = [mirror["deal"] EXCEPT !.status =
                               IF seen["deal"] # "started" /\ mirror["deal"].enrolled THEN @
                               ELSE seen["deal"]]
      BY <1>1 DEF Direct!Copied
    <2>3. [e EXCEPT !.status = IF seen["deal"] # "started" /\ e.enrolled THEN @ ELSE seen["deal"]] = e
      OBVIOUS
    <2>4. mirror'["deal"] = e BY <2>1, <2>2, <2>3
    <2> QED BY <2>4 DEF Enrolled
  <1> QED BY <1>2, <1>3

\* A request that moves.
LEMMA DirectSet ==
  ASSUME DirectInv, NEW r \in Requests, NEW y \in Direct!Reqs, Direct!Put(r, y), Honest(y),
         InCampaign(y) => Enrolled', Enrolled => Enrolled',
         offers' \in [Direct!Offers -> Direct!States],
         mirror' = [o \in Direct!Offers |-> mirror'[o]]
  PROVE  DirectInv'
  <1>1. req \in [Requests -> Direct!Reqs] BY DEF DirectInv, DirectTypes
  <1>2. req' = [req EXCEPT ![r] = y] BY DEF Direct!Put
  <1>3. req' \in [Requests -> Direct!Reqs] BY <1>1, <1>2
  <1>4. ASSUME NEW q \in Requests PROVE Honest(req'[q]) /\ (InCampaign(req'[q]) => Enrolled')
    <2>1. CASE q = r BY <1>1, <1>2, <2>1
    <2>2. CASE q # r
      <3>1. req'[q] = req[q] BY <1>1, <1>2, <2>2
      <3> QED BY <3>1 DEF DirectInv
    <2> QED BY <2>1, <2>2
  <1> QED BY <1>3, <1>4 DEF DirectInv, DirectTypes

\* One that leaves the copies and what Mercado Livre has.
LEMMA DirectMoves ==
  ASSUME DirectInv, NEW r \in Requests, NEW y \in Direct!Reqs, Direct!Put(r, y), Honest(y),
         ~InCampaign(y), mirror' = mirror, offers' \in [Direct!Offers -> Direct!States]
  PROVE  DirectInv'
  <1>1. Enrolled => Enrolled' BY DEF Enrolled
  <1>2. mirror' = [o \in Direct!Offers |-> mirror'[o]] BY DEF DirectInv, DirectTypes
  <1> QED BY <1>1, <1>2, DirectSet

LEMMA DirectOffers ==
  ASSUME DirectInv, NEW r \in Requests
  PROVE  /\ req[r] \in Direct!Reqs /\ Honest(req[r]) /\ offers \in [Direct!Offers -> Direct!States]
         /\ req[r].facts \subseteq Direct!Facts /\ req[r].offer \in Direct!Offers
         /\ Direct!Enter(r) => offers' \in [Direct!Offers -> Direct!States]
         /\ \A gone : Direct!Out(gone) => offers' \in [Direct!Offers -> Direct!States]
  <1>1. req[r] \in Direct!Reqs /\ Honest(req[r]) /\ offers \in [Direct!Offers -> Direct!States]
    BY DEF DirectInv, DirectTypes
  <1>2. req[r].facts \subseteq Direct!Facts /\ req[r].offer \in Direct!Offers
    BY <1>1 DEF Direct!Reqs
  <1>3. Direct!Enter(r) => offers' \in [Direct!Offers -> Direct!States]
    BY <1>1 DEF Direct!Enter, Direct!States
  <1>4. \A gone : Direct!Out(gone) => offers' \in [Direct!Offers -> Direct!States]
    BY <1>1 DEF Direct!Out, Direct!States
  <1> QED BY <1>1, <1>2, <1>3, <1>4

\* The request that rests, and the one that is asked.
LEMMA Resting ==
  /\ Direct!Idle \in Direct!Reqs /\ Honest(Direct!Idle) /\ ~InCampaign(Direct!Idle)
  /\ Direct!Idle.facts = {} /\ Direct!Idle.told = "nothing"
  <1>1. Direct!NotSeen \in [Direct!Offers -> Direct!States] BY DEF Direct!NotSeen, Direct!States
  <1>2. ASSUME NEW seen \in [Direct!Offers -> Direct!States], NEW x,
               x = [op |-> "none", offer |-> "discount", step |-> "idle", seen |-> seen,
                    told |-> "nothing", facts |-> {}]
        PROVE  /\ x \in Direct!Reqs /\ Honest(x) /\ ~InCampaign(x)
               /\ x.facts = {} /\ x.told = "nothing"
    <2>1. x.facts = {} /\ x.told = "nothing" /\ x.step = "idle" /\ x.op = "none" BY <1>2
    <2>2. x \in Direct!Reqs BY <1>2 DEF Direct!Reqs, Direct!Offers
    <2>3. Honest(x) /\ ~InCampaign(x) BY <2>1 DEF Honest, NotSaid, InCampaign
    <2> QED BY <2>1, <2>2, <2>3
  <1> QED BY <1>1, <1>2 DEF Direct!Idle

LEMMA DirectAsk ==
  ASSUME DirectInv, NEW r \in Requests, NEW op \in Direct!Ops, NEW o \in Direct!Offers,
         Direct!Ask(r, op, o)
  PROVE  DirectInv'
  <1> DEFINE x == Direct!Idle
             y == [x EXCEPT !.op = op, !.offer = o, !.step = Direct!FirstStep[op]]
  <1>1. x \in Direct!Reqs /\ x.facts = {} /\ x.told = "nothing" BY Resting
  <1>2. Direct!FirstStep[op] \in {"post", "exit", "find"}
        /\ (Direct!FirstStep[op] = "find" => op = "activate")
    BY DEF Direct!FirstStep, Direct!Ops
  <1>3. Direct!Put(r, y) /\ mirror' = mirror /\ offers' = offers BY DEF Direct!Ask
  <1> HIDE DEF x
  <1>4. y \in Direct!Reqs /\ y.step = Direct!FirstStep[op] /\ y.facts = {} /\ y.op = op
    BY <1>1, <1>2 DEF Direct!Reqs
  <1> HIDE DEF y
  <1>5. Honest(y) /\ ~InCampaign(y) BY <1>2, <1>4 DEF Honest, NotSaid, InCampaign
  <1> QED BY <1>3, <1>4, <1>5, DirectOffers, DirectMoves

LEMMA DirectFind ==
  ASSUME DirectInv, NEW r \in Requests, Direct!Find(r) \/ Direct!FindFails(r)
  PROVE  DirectInv'
  <1> DEFINE x == req[r]
             a == [x EXCEPT !.step = "post"]
             b0 == [x EXCEPT !.step = "sync", !.told = "done"]
             b == Direct!Knowing(b0, {"already"})
             c == [x EXCEPT !.step = "sync", !.told = "failed"]
             d == Direct!Tell(x, "error")
  <1>0. x \in Direct!Reqs /\ Honest(x) /\ offers \in [Direct!Offers -> Direct!States]
    BY DirectOffers
  <1>1. x.step = "find" /\ mirror' = mirror /\ offers' = offers
    BY DEF Direct!Find, Direct!FindFails, Direct!At
  <1>2. Direct!Put(r, a) \/ Direct!Put(r, b) \/ Direct!Put(r, c) \/ Direct!Put(r, d)
    <2>1. CASE Direct!Find(r)
      <3> DEFINE state == offers[req[r].offer]
      <3>1. CASE state = "candidate" BY <2>1, <3>1 DEF Direct!Find
      <3>2. CASE state = "started" BY <2>1, <3>2 DEF Direct!Find
      <3>3. CASE state \notin {"candidate", "started"} BY <2>1, <3>3 DEF Direct!Find
      <3> QED BY <3>1, <3>2, <3>3
    <2>2. CASE Direct!FindFails(r) BY <2>2 DEF Direct!FindFails
    <2> QED BY <2>1, <2>2
  <1>3. NotSaid(x) /\ x.op = "activate" BY <1>0, <1>1 DEF Honest
  <1>4. a \in Direct!Reqs /\ a.step = "post" /\ a.facts = x.facts BY <1>0 DEF Direct!Reqs
  <1>5. b0 \in Direct!Reqs /\ b0.step = "sync" /\ b0.told = "done" /\ b0.op = x.op
    BY <1>0 DEF Direct!Reqs
  <1>6. b \in Direct!Reqs /\ b.step = "sync" /\ b.told = "done" /\ b.op = x.op /\ "already" \in b.facts
    <2> HIDE DEF b0
    <2>1. {"already"} \in SUBSET Direct!Facts BY DEF Direct!Facts
    <2> QED BY <1>5, <2>1, Knows
  <1>7. c \in Direct!Reqs /\ c.step = "sync" /\ c.told = "failed" /\ c.op = x.op /\ c.facts = x.facts
    BY <1>0 DEF Direct!Reqs
  <1>8. d \in Direct!Reqs /\ d.step = "over" /\ d.told = "error" BY <1>0, Telling
  <1> HIDE DEF x, a, b, c, d
  <1>9. Honest(a) /\ ~InCampaign(a) BY <1>3, <1>4 DEF Honest, InCampaign, NotSaid
  <1>10. Honest(b) /\ ~InCampaign(b) BY <1>3, <1>6 DEF Honest, InCampaign, Entered
  <1>11. Honest(c) /\ ~InCampaign(c) BY <1>3, <1>7 DEF Honest, InCampaign, NotSaid
  <1>12. Honest(d) /\ ~InCampaign(d) BY <1>8 DEF Honest, InCampaign
  <1>13. CASE Direct!Put(r, a) BY <1>0, <1>1, <1>4, <1>9, <1>13, DirectMoves
  <1>14. CASE Direct!Put(r, b) BY <1>0, <1>1, <1>6, <1>10, <1>14, DirectMoves
  <1>15. CASE Direct!Put(r, c) BY <1>0, <1>1, <1>7, <1>11, <1>15, DirectMoves
  <1>16. CASE Direct!Put(r, d) BY <1>0, <1>1, <1>8, <1>12, <1>16, DirectMoves
  <1> QED BY <1>2, <1>13, <1>14, <1>15, <1>16

LEMMA DirectExit ==
  ASSUME DirectInv, NEW r \in Requests, Direct!Exit(r) \/ Direct!ExitFails(r)
  PROVE  DirectInv'
  <1> DEFINE x == req[r]
             a == [x EXCEPT !.step = "post"]
             b == Direct!Tell(x, "failed")
             c == Direct!Knowing(a, {"exited"})
             d == Direct!Knowing(a, {"unanswered"})
  <1>0. x \in Direct!Reqs /\ Honest(x) /\ offers \in [Direct!Offers -> Direct!States]
    BY DirectOffers
  <1>1. x.step = "exit" /\ mirror' = mirror BY DEF Direct!Exit, Direct!ExitFails, Direct!At
  <1>2. offers' \in [Direct!Offers -> Direct!States]
    BY <1>0, DirectOffers DEF Direct!Exit, Direct!ExitFails
  <1>3. Direct!Put(r, a) \/ Direct!Put(r, b) \/ Direct!Put(r, c) \/ Direct!Put(r, d)
    BY DEF Direct!Exit, Direct!ExitFails
  <1>4. NotSaid(x) BY <1>0, <1>1 DEF Honest
  <1>5. a \in Direct!Reqs /\ a.step = "post" /\ a.facts = x.facts BY <1>0 DEF Direct!Reqs
  <1>6. b \in Direct!Reqs /\ b.step = "over" /\ b.facts = x.facts /\ b.told = "failed"
    BY <1>0, Telling
  <1>7. {"exited"} \in SUBSET Direct!Facts /\ {"unanswered"} \in SUBSET Direct!Facts
    BY DEF Direct!Facts
  <1> HIDE DEF x, a
  <1>8. c \in Direct!Reqs /\ c.step = "post" /\ c.facts = x.facts \cup {"exited"}
    BY <1>5, <1>7, Knows
  <1>9. d \in Direct!Reqs /\ d.step = "post" /\ d.facts = x.facts \cup {"unanswered"}
    BY <1>5, <1>7, Knows
  <1> HIDE DEF b, c, d
  <1>10. Honest(a) /\ ~InCampaign(a) BY <1>4, <1>5 DEF Honest, InCampaign, NotSaid
  <1>11. Honest(b) /\ ~InCampaign(b) BY <1>4, <1>6 DEF Honest, InCampaign, NotSaid
  <1>12. Honest(c) /\ ~InCampaign(c) BY <1>4, <1>8 DEF Honest, InCampaign, NotSaid
  <1>13. Honest(d) /\ ~InCampaign(d) BY <1>4, <1>9 DEF Honest, InCampaign, NotSaid
  <1>14. CASE Direct!Put(r, a) BY <1>1, <1>2, <1>5, <1>10, <1>14, DirectMoves
  <1>15. CASE Direct!Put(r, b) BY <1>1, <1>2, <1>6, <1>11, <1>15, DirectMoves
  <1>16. CASE Direct!Put(r, c) BY <1>1, <1>2, <1>8, <1>12, <1>16, DirectMoves
  <1>17. CASE Direct!Put(r, d) BY <1>1, <1>2, <1>9, <1>13, <1>17, DirectMoves
  <1> QED BY <1>3, <1>14, <1>15, <1>16, <1>17

LEMMA DirectPost ==
  ASSUME DirectInv, NEW r \in Requests, Direct!Post(r) \/ Direct!PostFails(r)
  PROVE  DirectInv'
  <1> DEFINE x == req[r]
             a == Direct!RefusedPost(x)
             b == Direct!AfterEntry(x)
             c == Direct!Knowing(b, {"entered"})
             d == Direct!Knowing(b, {"unanswered"})
             e == Direct!Knowing(a, {"unanswered"})
  <1>0. x \in Direct!Reqs /\ Honest(x) /\ offers \in [Direct!Offers -> Direct!States]
    BY DirectOffers
  <1>1. x.step = "post" /\ mirror' = mirror BY DEF Direct!Post, Direct!PostFails, Direct!At
  <1>2. offers' \in [Direct!Offers -> Direct!States]
    BY <1>0, DirectOffers DEF Direct!Post, Direct!PostFails
  <1>3. \/ Direct!Put(r, a) \/ Direct!Put(r, c)
        \/ Direct!Put(r, d) \/ Direct!Put(r, e)
    <2>1. CASE Direct!Post(r) BY <2>1 DEF Direct!Post
    <2>2. CASE Direct!PostFails(r)
      <3>1. CASE req[r].op \in Direct!AskForAnswer BY <2>2, <3>1 DEF Direct!PostFails
      <3>2. CASE req[r].op \notin Direct!AskForAnswer BY <2>2, <3>2 DEF Direct!PostFails
      <3> QED BY <3>1, <3>2
    <2> QED BY <2>1, <2>2
  <1>4. NotSaid(x) BY <1>0, <1>1 DEF Honest
  <1> HIDE DEF x
  <1>5. /\ a \in Direct!Reqs /\ a.facts = x.facts /\ a.told = "failed" /\ a.op = x.op
        /\ a.step = (IF x.op = "activate" THEN "sync" ELSE "over")
    BY <1>0, <1>1, <1>4, Refusing
  <1>6. /\ b \in Direct!Reqs /\ b.facts = x.facts /\ b.op = x.op
        /\ \/ x.op = "activate" /\ b.step = "sync" /\ b.told = "done"
           \/ x.op # "activate" /\ b.step = "record"
    BY <1>0, Entering
  <1>7. {"entered"} \in SUBSET Direct!Facts /\ {"unanswered"} \in SUBSET Direct!Facts
    BY DEF Direct!Facts
  <1> HIDE DEF a, b
  <1>8. /\ c \in Direct!Reqs /\ c.facts = b.facts \cup {"entered"} /\ c.op = b.op /\ c.step = b.step
        /\ c.told = b.told
    BY <1>6, <1>7, Knows
  <1>9. /\ d \in Direct!Reqs /\ d.facts = b.facts \cup {"unanswered"} /\ d.op = b.op
        /\ d.step = b.step /\ d.told = b.told
    BY <1>6, <1>7, Knows
  <1>10. /\ e \in Direct!Reqs /\ e.facts = a.facts \cup {"unanswered"} /\ e.op = a.op
         /\ e.step = a.step /\ e.told = a.told
    BY <1>5, <1>7, Knows
  <1> HIDE DEF c, d, e
  <1>11. Honest(a) /\ ~InCampaign(a) BY <1>4, <1>5 DEF Honest, InCampaign, NotSaid
  <1>12. Honest(c) /\ ~InCampaign(c) BY <1>6, <1>8 DEF Honest, InCampaign, Entered
  <1>13. Honest(d) /\ ~InCampaign(d) BY <1>6, <1>9 DEF Honest, InCampaign, Entered
  <1>14. Honest(e) /\ ~InCampaign(e) BY <1>4, <1>5, <1>10 DEF Honest, InCampaign, NotSaid
  <1>15. CASE Direct!Put(r, a) BY <1>1, <1>2, <1>5, <1>11, <1>15, DirectMoves
  <1>16. CASE Direct!Put(r, c) BY <1>1, <1>2, <1>8, <1>12, <1>16, DirectMoves
  <1>17. CASE Direct!Put(r, d) BY <1>1, <1>2, <1>9, <1>13, <1>17, DirectMoves
  <1>18. CASE Direct!Put(r, e) BY <1>1, <1>2, <1>10, <1>14, <1>18, DirectMoves
  <1> QED BY <1>3, <1>15, <1>16, <1>17, <1>18

LEMMA DirectRecord ==
  ASSUME DirectInv, NEW r \in Requests, Direct!Record(r) \/ Direct!RecordFails(r)
  PROVE  DirectInv'
  <1> DEFINE x == req[r]
             logged == Direct!Knowing(x, {"logged"})
             a == Direct!Tell(logged, "done")
             b == [logged EXCEPT !.told = "done", !.step = "sync"]
             c == [logged EXCEPT !.told = "done", !.step = "mark"]
             d == Direct!Tell(x, "error")
  <1>0. x \in Direct!Reqs /\ Honest(x) /\ offers \in [Direct!Offers -> Direct!States]
    BY DirectOffers
  <1>1. mirror' = mirror /\ offers' = offers BY DEF Direct!Record, Direct!RecordFails
  <1>2. \/ Direct!Put(r, d)
        \/ x.step = "record" /\ x.op # "enroll" /\ Direct!Put(r, a)
        \/ x.step = "record" /\ x.op = "enroll" /\ x.offer = "discount" /\ Direct!Put(r, b)
        \/ x.step = "record" /\ x.op = "enroll" /\ Direct!Put(r, c)
    <2>1. CASE Direct!Record(r)
      <3>1. CASE req[r].op # "enroll" BY <2>1, <3>1 DEF Direct!Record, Direct!At
      <3>2. CASE req[r].op = "enroll" /\ req[r].offer = "discount"
        BY <2>1, <3>2 DEF Direct!Record, Direct!At
      <3>3. CASE req[r].op = "enroll" /\ req[r].offer # "discount"
        BY <2>1, <3>3 DEF Direct!Record, Direct!At
      <3> QED BY <3>1, <3>2, <3>3
    <2>2. CASE Direct!RecordFails(r) BY <2>2 DEF Direct!RecordFails
    <2> QED BY <2>1, <2>2
  <1>3. d \in Direct!Reqs /\ d.step = "over" /\ d.told = "error" BY <1>0, Telling
  <1> HIDE DEF x
  <1>4. /\ logged \in Direct!Reqs /\ logged.facts = x.facts \cup {"logged"}
        /\ logged.op = x.op /\ logged.offer = x.offer
    <2>1. {"logged"} \in SUBSET Direct!Facts BY DEF Direct!Facts
    <2> QED BY <1>0, <2>1, Knows
  <1> HIDE DEF logged
  <1>5. /\ a \in Direct!Reqs /\ a.step = "over" /\ a.told = "done" /\ a.op = x.op
        /\ a.facts = x.facts \cup {"logged"}
    BY <1>4, Telling
  <1>6. /\ b \in Direct!Reqs /\ b.step = "sync" /\ b.told = "done" /\ b.op = x.op
        /\ b.offer = x.offer /\ b.facts = x.facts \cup {"logged"}
    BY <1>4 DEF Direct!Reqs
  <1>7. /\ c \in Direct!Reqs /\ c.step = "mark" /\ c.told = "done" /\ c.op = x.op
        /\ c.facts = x.facts \cup {"logged"}
    BY <1>4 DEF Direct!Reqs
  <1> HIDE DEF a, b, c, d
  <1>8. CASE Direct!Put(r, d)
    <2>1. Honest(d) /\ ~InCampaign(d) BY <1>3 DEF Honest, InCampaign
    <2> QED BY <1>0, <1>1, <1>3, <1>8, <2>1, DirectMoves
  <1>9. CASE x.step = "record" /\ x.op # "enroll" /\ Direct!Put(r, a)
    <2>1. Honest(a) /\ ~InCampaign(a) BY <1>0, <1>5, <1>9 DEF Honest, InCampaign, Entered
    <2> QED BY <1>0, <1>1, <1>5, <1>9, <2>1, DirectMoves
  <1>10. CASE x.step = "record" /\ x.op = "enroll" /\ x.offer = "discount" /\ Direct!Put(r, b)
    <2>1. Honest(b) /\ ~InCampaign(b) BY <1>0, <1>6, <1>10 DEF Honest, InCampaign, Entered
    <2> QED BY <1>0, <1>1, <1>6, <1>10, <2>1, DirectMoves
  <1>11. CASE x.step = "record" /\ x.op = "enroll" /\ Direct!Put(r, c)
    <2>1. Honest(c) /\ ~InCampaign(c) BY <1>0, <1>7, <1>11 DEF Honest, InCampaign, Entered
    <2> QED BY <1>0, <1>1, <1>7, <1>11, <2>1, DirectMoves
  <1> QED BY <1>2, <1>8, <1>9, <1>10, <1>11

LEMMA DirectMark ==
  ASSUME DirectInv, NEW r \in Requests, Direct!Mark(r) \/ Direct!MarkFails(r)
  PROVE  DirectInv'
  <1> DEFINE x == req[r]
             a == Direct!Tell(x, "done")
             b == Direct!Knowing(a, {"unmarked"})
             e == [status |-> "started", enrolled |-> TRUE]
  <1>0. x \in Direct!Reqs /\ Honest(x) /\ offers \in [Direct!Offers -> Direct!States]
    BY DirectOffers
  <1>1. x.step = "mark" /\ offers' = offers BY DEF Direct!Mark, Direct!MarkFails, Direct!At
  <1>2. Entered(x) /\ "logged" \in x.facts BY <1>0, <1>1 DEF Honest
  <1>3. /\ a \in Direct!Reqs /\ a.step = "over" /\ a.facts = x.facts /\ a.told = "done"
        /\ a.offer = x.offer
    BY <1>0, Telling
  <1>4. x.offer \in Direct!Offers BY <1>0 DEF Direct!Reqs
  <1>5. mirror = [o \in Direct!Offers |-> mirror[o]] BY DEF DirectInv, DirectTypes
  <1>6. CASE Direct!Mark(r)
    <2>1. Direct!Put(r, a) /\ mirror' = [mirror EXCEPT ![x.offer] = e] BY <1>6 DEF Direct!Mark
    <2> HIDE DEF x, a
    <2>2. Honest(a) BY <1>2, <1>3 DEF Honest, Entered
    <2>3. mirror' = [o \in Direct!Offers |-> mirror'[o]] BY <1>5, <2>1
    <2>4. "deal" \in Direct!Offers BY DEF Direct!Offers
    <2>5. mirror'["deal"] = IF x.offer = "deal" THEN e ELSE mirror["deal"]
      BY <1>5, <2>1, <2>4
    <2>6. (InCampaign(a) => Enrolled') /\ (Enrolled => Enrolled')
      BY <1>3, <2>5 DEF InCampaign, Enrolled
    <2> QED BY <1>0, <1>1, <1>3, <2>1, <2>2, <2>3, <2>6, DirectSet
  <1>7. CASE Direct!MarkFails(r)
    <2>1. Direct!Put(r, b) /\ mirror' = mirror BY <1>7 DEF Direct!MarkFails
    <2>2. {"unmarked"} \in SUBSET Direct!Facts BY DEF Direct!Facts
    <2> HIDE DEF x, a
    <2>3. /\ b \in Direct!Reqs /\ b.step = "over" /\ b.facts = x.facts \cup {"unmarked"}
          /\ b.told = "done"
      BY <1>3, <2>2, Knows
    <2> HIDE DEF b
    <2>4. Honest(b) /\ ~InCampaign(b) BY <1>2, <2>3 DEF Honest, InCampaign, Entered
    <2> QED BY <1>0, <1>1, <2>1, <2>3, <2>4, DirectMoves
  <1> QED BY <1>6, <1>7

\* After the copying a request is over, or has the log of activate-smart before it.
LEMMA Copying ==
  ASSUME NEW x \in Direct!Reqs, Honest(x), x.step \in {"sync", "store"}
  PROVE  LET y == Direct!AfterSync(x) IN
         y \in Direct!Reqs /\ Honest(y) /\ ~InCampaign(y)
  <1>1. CASE x.op = "activate" /\ x.told = "done"
    <2> DEFINE y == [x EXCEPT !.step = "log"]
    <2>1. Direct!AfterSync(x) = y BY <1>1 DEF Direct!AfterSync
    <2>2. y \in Direct!Reqs /\ y.step = "log" /\ y.op = x.op /\ y.facts = x.facts
      BY DEF Direct!Reqs
    <2>3. Entered(x) BY <1>1 DEF Honest
    <2> HIDE DEF y
    <2>4. Honest(y) /\ ~InCampaign(y) BY <1>1, <2>2, <2>3 DEF Honest, Entered, InCampaign
    <2> QED BY <2>1, <2>2, <2>4
  <1>2. CASE ~(x.op = "activate" /\ x.told = "done")
    <2> DEFINE y == Direct!Tell(x, x.told)
    <2>1. Direct!AfterSync(x) = y BY <1>2 DEF Direct!AfterSync
    <2>2. x.told \in {"done", "failed"} BY DEF Honest
    <2>3. /\ y \in Direct!Reqs /\ y.step = "over" /\ y.told = x.told /\ y.op = x.op
          /\ y.offer = x.offer /\ y.facts = x.facts
      BY <2>2, Telling
    <2> HIDE DEF y
    <2>4. Honest(y) BY <1>2, <2>3 DEF Honest, Entered, NotSaid
    <2>5. ~InCampaign(y) BY <2>3 DEF Honest, InCampaign
    <2> QED BY <2>1, <2>3, <2>4, <2>5
  <1> QED BY <1>1, <1>2

LEMMA DirectSync ==
  ASSUME DirectInv, NEW r \in Requests, Direct!Sync(r) \/ Direct!SyncFails(r)
  PROVE  DirectInv'
  <1> DEFINE x == req[r]
             a == [x EXCEPT !.step = "store", !.seen = offers]
             b == [x EXCEPT !.step = "store"]
             c == Direct!AfterSync(x)
  <1>0. x \in Direct!Reqs /\ Honest(x) /\ offers \in [Direct!Offers -> Direct!States]
    BY DirectOffers
  <1>1. x.step = "sync" /\ mirror' = mirror /\ offers' = offers
    BY DEF Direct!Sync, Direct!SyncFails, Direct!At
  <1>2. Direct!Put(r, a) \/ Direct!Put(r, b) \/ Direct!Put(r, c)
    <2>1. CASE Direct!Sync(r) BY <2>1 DEF Direct!Sync
    <2>2. CASE Direct!SyncFails(r) BY <2>2 DEF Direct!SyncFails
    <2> QED BY <2>1, <2>2
  <1> HIDE DEF x
  <1>3. /\ a \in Direct!Reqs /\ a.step = "store" /\ a.told = x.told /\ a.op = x.op
        /\ a.offer = x.offer /\ a.facts = x.facts
    BY <1>0 DEF Direct!Reqs
  <1>4. /\ b \in Direct!Reqs /\ b.step = "store" /\ b.told = x.told /\ b.op = x.op
        /\ b.offer = x.offer /\ b.facts = x.facts
    BY <1>0 DEF Direct!Reqs
  <1>5. c \in Direct!Reqs /\ Honest(c) /\ ~InCampaign(c) BY <1>0, <1>1, Copying
  <1> HIDE DEF a, b, c
  <1>6. CASE Direct!Put(r, a)
    <2>1. Honest(a) /\ ~InCampaign(a)
      BY <1>0, <1>1, <1>3 DEF Honest, InCampaign, Entered, NotSaid
    <2> QED BY <1>0, <1>1, <1>3, <1>6, <2>1, DirectMoves
  <1>7. CASE Direct!Put(r, b)
    <2>1. Honest(b) /\ ~InCampaign(b)
      BY <1>0, <1>1, <1>4 DEF Honest, InCampaign, Entered, NotSaid
    <2> QED BY <1>0, <1>1, <1>4, <1>7, <2>1, DirectMoves
  <1>8. CASE Direct!Put(r, c) BY <1>0, <1>1, <1>5, <1>8, DirectMoves
  <1> QED BY <1>2, <1>6, <1>7, <1>8

LEMMA DirectStore ==
  ASSUME DirectInv, NEW r \in Requests, Direct!Store(r)
  PROVE  DirectInv'
  <1> DEFINE x == req[r]
             a == [x EXCEPT !.seen = Direct!NotSeen]
             b == Direct!AfterSync(a)
  <1>0. x \in Direct!Reqs /\ Honest(x) /\ offers \in [Direct!Offers -> Direct!States]
    BY DirectOffers
  <1>1. x.step = "store" /\ offers' = offers /\ Direct!Put(r, b) BY DEF Direct!Store, Direct!At
  <1>2. mirror' = [o \in Direct!Offers |-> mirror'[o]] /\ (Enrolled => Enrolled')
    BY CopyKeeps DEF Direct!Store, DirectInv
  <1>3. Direct!NotSeen \in [Direct!Offers -> Direct!States] BY DEF Direct!NotSeen, Direct!States
  <1> HIDE DEF x
  <1>4. /\ a \in Direct!Reqs /\ a.step = "store" /\ a.told = x.told /\ a.op = x.op
        /\ a.offer = x.offer /\ a.facts = x.facts
    BY <1>0, <1>1, <1>3 DEF Direct!Reqs
  <1> HIDE DEF a
  <1>5. Honest(a) BY <1>0, <1>1, <1>4 DEF Honest, Entered, NotSaid
  <1>6. b \in Direct!Reqs /\ Honest(b) /\ ~InCampaign(b) BY <1>4, <1>5, Copying
  <1> HIDE DEF b
  <1> QED BY <1>0, <1>1, <1>2, <1>6, DirectSet

LEMMA DirectLog ==
  ASSUME DirectInv, NEW r \in Requests, Direct!Log(r)
  PROVE  DirectInv'
  <1> DEFINE x == req[r]
             a == Direct!Tell(x, "done")
             b == Direct!Knowing(a, {"logged"})
  <1>0. x \in Direct!Reqs /\ Honest(x) /\ offers \in [Direct!Offers -> Direct!States]
    BY DirectOffers
  <1>1. x.step = "log" /\ mirror' = mirror /\ offers' = offers /\ Direct!Put(r, b)
    BY DEF Direct!Log, Direct!At
  <1>2. Entered(x) /\ x.op = "activate" BY <1>0, <1>1 DEF Honest
  <1>3. /\ a \in Direct!Reqs /\ a.step = "over" /\ a.told = "done" /\ a.facts = x.facts
        /\ a.op = x.op
    BY <1>0, Telling
  <1>4. {"logged"} \in SUBSET Direct!Facts BY DEF Direct!Facts
  <1> HIDE DEF x, a
  <1>5. /\ b \in Direct!Reqs /\ b.step = "over" /\ b.told = "done"
        /\ b.facts = x.facts \cup {"logged"} /\ b.op = x.op
    BY <1>3, <1>4, Knows
  <1> HIDE DEF b
  <1>6. Honest(b) /\ ~InCampaign(b) BY <1>2, <1>5 DEF Honest, InCampaign, Entered
  <1> QED BY <1>0, <1>1, <1>5, <1>6, DirectMoves

\* The readers and the environment leave the requests, and a death ends some.
LEMMA DirectRests ==
  ASSUME DirectInv, req' = req, offers' \in [Direct!Offers -> Direct!States],
         mirror' = [o \in Direct!Offers |-> mirror'[o]], Enrolled => Enrolled'
  PROVE  DirectInv'
  BY DEF DirectInv, DirectTypes

LEMMA DirectCrash == DirectInv /\ Direct!Crash => DirectInv'
  <1> SUFFICES ASSUME DirectInv, Direct!Crash PROVE DirectInv'
    OBVIOUS
  <1>1. req \in [Requests -> Direct!Reqs] BY DEF DirectInv, DirectTypes
  <1>2. req' = [r \in Requests |-> IF req[r].step \in {"idle", "over"} THEN req[r] ELSE Direct!Idle]
        /\ mirror' = mirror /\ offers' = offers
    BY DEF Direct!Crash
  <1>3. Enrolled => Enrolled' BY <1>2 DEF Enrolled
  <1>4. ASSUME NEW r \in Requests
        PROVE  req'[r] \in Direct!Reqs /\ Honest(req'[r]) /\ (InCampaign(req'[r]) => Enrolled')
    <2>1. CASE req[r].step \in {"idle", "over"}
      <3>1. req'[r] = req[r] BY <1>2, <2>1
      <3> QED BY <1>1, <1>3, <3>1 DEF DirectInv
    <2>2. CASE req[r].step \notin {"idle", "over"}
      <3>1. req'[r] = Direct!Idle BY <1>2, <2>2
      <3> QED BY <3>1, Resting
    <2> QED BY <2>1, <2>2
  <1>5. req' \in [Requests -> Direct!Reqs] BY <1>2, <1>4
  <1>6. DirectTypes' BY <1>2, <1>5 DEF DirectInv, DirectTypes
  <1> QED BY <1>4, <1>6 DEF DirectInv

LEMMA DirectWorld ==
  ASSUME DirectInv,
         \/ Direct!Sweep \/ Direct!SweepMisreads \/ Direct!Pause \/ UNCHANGED directVars
         \/ \E o \in Direct!Offers, state \in Direct!States : Direct!Promote(o, state)
  PROVE  DirectInv'
  <1>0. /\ offers \in [Direct!Offers -> Direct!States]
        /\ mirror = [o \in Direct!Offers |-> mirror[o]]
    BY DEF DirectInv, DirectTypes
  <1>1. ASSUME mirror' = mirror, req' = req, offers' \in [Direct!Offers -> Direct!States]
        PROVE  DirectInv'
    <2>1. Enrolled => Enrolled' BY <1>1 DEF Enrolled
    <2>2. mirror' = [o \in Direct!Offers |-> mirror'[o]] BY <1>0, <1>1
    <2> QED BY <1>1, <2>1, <2>2, DirectRests
  <1>2. CASE Direct!SweepMirrors
    <2>1. mirror' = [o \in Direct!Offers |-> mirror'[o]] /\ (Enrolled => Enrolled')
      BY <1>2, CopyKeeps DEF Direct!SweepMirrors, DirectInv
    <2>2. req' = req /\ offers' = offers BY <1>2 DEF Direct!SweepMirrors
    <2> QED BY <1>0, <2>1, <2>2, DirectRests
  <1>3. CASE Direct!SweepReads BY <1>0, <1>1, <1>3 DEF Direct!SweepReads
  <1>4. CASE Direct!SweepFetches BY <1>0, <1>1, <1>4 DEF Direct!SweepFetches
  <1>5. CASE Direct!SweepRows BY <1>0, <1>1, <1>5 DEF Direct!SweepRows
  <1>6. CASE Direct!SweepMisreads BY <1>0, <1>1, <1>6 DEF Direct!SweepMisreads
  <1>7. CASE Direct!Pause BY <1>0, <1>1, <1>7 DEF Direct!Pause
  <1>8. CASE UNCHANGED directVars BY <1>0, <1>1, <1>8 DEF directVars
  <1>9. ASSUME NEW o \in Direct!Offers, NEW state \in Direct!States, Direct!Promote(o, state)
        PROVE  DirectInv'
    <2>1. offers' = [offers EXCEPT ![o] = state] /\ mirror' = mirror /\ req' = req
      BY <1>9 DEF Direct!Promote
    <2> QED BY <1>0, <1>1, <2>1
  <1> QED BY <1>2, <1>3, <1>4, <1>5, <1>6, <1>7, <1>8, <1>9 DEF Direct!Sweep

LEMMA DirectInit == MCInit => DirectInv
  <1> SUFFICES ASSUME MCInit PROVE DirectInv
    OBVIOUS
  <1>1. offers \in [Direct!Offers -> Direct!States]
    BY DEF MCInit, Direct!Init, Direct!States
  <1>2. mirror = [o \in Direct!Offers |-> mirror[o]] BY DEF MCInit, Direct!Init
  <1>3. req = [r \in Requests |-> Direct!Idle] BY DEF MCInit, Direct!Init
  <1>4. \A r \in Requests : req[r] = Direct!Idle BY <1>3
  <1>5. req \in [Requests -> Direct!Reqs] BY <1>3, Resting
  <1>6. \A r \in Requests : Honest(req[r]) /\ (InCampaign(req[r]) => Enrolled)
    BY <1>4, Resting
  <1> QED BY <1>1, <1>2, <1>5, <1>6 DEF DirectInv, DirectTypes

LEMMA DirectNext == DirectInv /\ [MCNext]_allVars => DirectInv'
  <1> SUFFICES ASSUME DirectInv, [MCNext]_allVars PROVE DirectInv'
    OBVIOUS
  <1>1. CASE UNCHANGED directVars BY <1>1, DirectWorld
  <1>2. CASE Direct!Next
    <2>1. ASSUME NEW r \in Requests, Direct!Serve(r) PROVE DirectInv'
      BY <2>1, DirectFind, DirectExit, DirectPost, DirectRecord, DirectMark, DirectSync,
         DirectStore, DirectLog DEF Direct!Serve
    <2>2. ASSUME NEW r \in Requests, Direct!Fails(r) PROVE DirectInv'
      BY <2>2, DirectFind, DirectExit, DirectPost, DirectRecord, DirectMark, DirectSync
      DEF Direct!Fails
    <2>3. ASSUME NEW r \in Requests, NEW op \in Direct!Ops, NEW o \in Direct!Offers,
                 Direct!Ask(r, op, o)
          PROVE  DirectInv'
      BY <2>3, DirectAsk
    <2> QED BY <1>2, <2>1, <2>2, <2>3, DirectWorld, DirectCrash DEF Direct!Next
  <1> QED BY <1>1, <1>2 DEF MCNext, allVars, directVars

\* What the program says is so, after every step, for any numbers of rows,
\* notifications, requests and readers: a notification marked processed was mirrored; an
\* operator of a direct endpoint is told "done" of what is in the log and was entered, or
\* not answered, and "failed" of nothing that an answer confirmed; and a listing that
\* was enrolled in a campaign stays shown in it.
THEOREM SaidHolds == MCSpec => []SaidIsSo
  <1>1. MCInit => MirroredInv /\ DirectInv BY MirroredInit, DirectInit DEF MCInit
  <1>2. MirroredInv /\ DirectInv /\ [MCNext]_allVars => (MirroredInv /\ DirectInv)'
    BY MirroredNext, QueueStep, DirectNext
  <1>3. MirroredInv /\ DirectInv => SaidIsSo
    <2> SUFFICES ASSUME MirroredInv, DirectInv PROVE SaidIsSo
      OBVIOUS
    <2>1. ProcessedIsMirrored BY DEF MirroredInv, Mirrored, ProcessedIsMirrored
    <2>2. \A r \in Requests : Honest(req[r]) /\ (InCampaign(req[r]) => Enrolled)
      BY DEF DirectInv
    <2>3. Direct!ToldTrue BY <2>2 DEF Direct!ToldTrue, Direct!Over, Honest, Entered, NotSaid
    <2>4. Direct!EnrolledShown
      BY <2>2 DEF Direct!EnrolledShown, Direct!Over, InCampaign, Enrolled
    <2> QED BY <2>1, <2>3, <2>4 DEF SaidIsSo
  <1> QED BY <1>1, <1>2, <1>3, PTL DEF MCSpec
=============================================================================
