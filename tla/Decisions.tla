------------------------------ MODULE Decisions ------------------------------
(***************************************************************************)
(* The queue of promotion decisions of one listing (ml_promo_decisions) and *)
(* the inbox of Mercado Livre's notifications that keeps it fresh: the      *)
(* sweeps of services/ml_promotion_service.py (generate_pending_decisions,  *)
(* reconcile_started_promos, expire_stale_decisions, bulk_decide_pending),  *)
(* the operator's endpoints of api/routers/ml_promotions.py (approve,       *)
(* reject, ignore, undo, retry-ml, bulk-act), and                           *)
(* services/ml_webhook_processor.py.                                        *)
(*                                                                         *)
(* A step is one request to Mercado Livre or one transaction.  A session    *)
(* keeps the rows it has read: what it decides on is what it read first.    *)
(* Price changes of started promotions are in Resubscribe.                  *)
(***************************************************************************)
EXTENDS Integers, FiniteSets

CONSTANTS
    Keys,        \* promotions (promo_key) of the listing
    Callers,     \* operators' requests
    Notes,       \* ids of ml_webhook_notifications
    Caps,        \* values of max_seller_share_pct; 0: no promotion
    Budgets      \* bounds: what may happen in a behaviour, and how often

\* asks: operators' requests; changes: of promotions at Mercado Livre and of the
\* cap; faults: failed requests and lost answers; crashes: deaths.
Bounds == [asks : Nat, changes : Nat, faults : Nat, crashes : Nat]

ASSUME ParametersAssumption ==
    /\ Caps \subseteq Nat /\ Budgets \subseteq Bounds
    /\ IsFiniteSet(Keys)

VARIABLES
    ml,         \* the promotions as Mercado Livre has them
    version,    \* of ml
    cap,        \* ml_promo_caps.max_seller_share_pct of the listing
    flag,       \* ML_PROMO_APPLY_ENABLED
    rows,       \* ml_promo_decisions, by promo_key
    call,       \* requests to the endpoints
    bulk,       \* the request to bulk-act
    job,        \* sweeps under way
    inbox,      \* ml_webhook_notifications
    due,        \* history: sendings that operators asked for
    sent,       \* history: sendings
    reflected,  \* history: the latest version of ml that the rows reflected
    mirrored,   \* history: the version of ml that ml_promotions reflects
    ended,      \* history: promotions that stopped being started
    raced,      \* history: rows written by what was read before another decided
    misread,    \* history: a sweep was told of no promotion
    overtaken,  \* history: a sweep wrote after one that had read later
    left        \* what is left of the budget

history == <<due, sent, reflected, mirrored, ended, raced, misread, overtaken>>
mirrors == <<reflected, mirrored, misread, overtaken>>
vars == <<ml, version, cap, flag, rows, call, bulk, job, inbox, history, left>>

\* The daily job, the job of the notifications, a request to generate.
Sweeps == {"daily", "hook", "request"}

\* CHECK ck_ml_promo_decisions_status; "none": no row.
Statuses == {"pending", "approved", "rejected", "ignored", "expired"}
\* started: constraint_used; cap: cap_pct, -1 when null; sending: ml_apply_status.
Rows == [status : Statuses \cup {"none"}, started : BOOLEAN, cap : Caps \cup {-1},
         sending : {"none", "ok", "failed", "skipped"}]
NoRow == [status |-> "none", started |-> FALSE, cap |-> -1, sending |-> "none"]

Idle == [op |-> "none", key |-> "none", step |-> "idle", seen |-> NoRow, result |-> "none"]
IdleBulk == [step |-> "idle", action |-> "none", matched |-> {}, result |-> "none"]
IdleJob == [step |-> "idle", seen |-> [k \in Keys |-> "none"], of |-> 0, cap |-> 0,
            stale |-> {}, batch |-> {}]

Calls == [op : {"none", "approve", "reject", "ignore", "retry"}, key : Keys \cup {"none"},
          step : {"idle", "decide", "send", "record"}, seen : Rows,
          result : {"none", "ok", "failed", "skipped"}]
Jobs == [step : {"idle", "expire", "mirror", "reconcile", "upsert", "generate", "insert",
                 "settle", "giveup"},
         seen : [Keys -> {"none", "candidate", "started"}], of : Nat, cap : Caps \cup {0},
         stale : SUBSET Keys, batch : SUBSET Notes]

TypeOK ==
    /\ ml \in [Keys -> {"none", "candidate", "started"}] /\ version \in Nat
    /\ cap \in Caps /\ flag \in BOOLEAN
    /\ rows \in [Keys -> Rows]
    /\ call \in [Callers -> Calls]
    /\ bulk \in [step : {"idle", "update"}, action : {"none", "ignore", "reject"},
                 matched : SUBSET Keys, result : {"none", "ok", "error"}]
    /\ job \in [Sweeps -> Jobs]
    /\ inbox \in [Notes -> [status : {"none", "pending", "processed", "error"}, of : Nat]]
    /\ due \in [Keys -> Nat] /\ sent \in [Keys -> Nat]
    /\ reflected \in Nat /\ mirrored \in Nat /\ ended \subseteq Keys /\ raced \subseteq Keys
    /\ misread \in BOOLEAN /\ overtaken \in BOOLEAN
    /\ left \in Bounds

Init ==
    /\ ml = [k \in Keys |-> "candidate"] /\ version = 0
    /\ cap \in Caps /\ flag \in BOOLEAN
    /\ rows = [k \in Keys |-> NoRow]
    /\ call = [c \in Callers |-> Idle] /\ bulk = IdleBulk
    /\ job = [s \in Sweeps |-> IdleJob]
    /\ inbox = [n \in Notes |-> [status |-> "none", of |-> 0]]
    /\ due = [k \in Keys |-> 0] /\ sent = due
    /\ reflected = 0 /\ mirrored = 0 /\ ended = {} /\ raced = {}
    /\ misread = FALSE /\ overtaken = FALSE
    /\ left \in Budgets

Fault == left.faults > 0 /\ left' = [left EXCEPT !.faults = @ - 1]
Ask == left.asks > 0 /\ left' = [left EXCEPT !.asks = @ - 1]

---------------------------------------------------------------------------
(* The operator                                                            *)

remote == <<ml, version, cap, flag>>
SetCall(c, local) == call' = [call EXCEPT ![c] = local]
AtCall(c, step) == call[c].step = step

\* approve, reject, ignore: the row is read, then the context of the decision.
Open(c, op, k) ==
    /\ AtCall(c, "idle") /\ Ask
    /\ rows[k].status # "none"
    /\ SetCall(c, [op |-> op, key |-> k, step |-> "decide", seen |-> rows[k],
                   result |-> "none"])
    /\ UNCHANGED <<remote, rows, bulk, job, inbox, history>>

Outcome == [approve |-> "approved", reject |-> "rejected", ignore |-> "ignored"]

\* Where an approval goes on: to Mercado Livre, or, with the flag off and nothing
\* recorded yet, to a stamp.
AfterApproval(local) ==
    IF flag THEN [local EXCEPT !.step = "send"]
    ELSE IF local.seen.sending = "none"
         THEN [local EXCEPT !.step = "record", !.result = "skipped"]
         ELSE Idle

\* Mutant of Decide: the row's status is not asked.
DecideAny(c) ==
    /\ AtCall(c, "decide")
    /\ LET k == call[c].key
           approves == call[c].op = "approve"
       IN  /\ rows' = [rows EXCEPT ![k].status = Outcome[call[c].op]]
           /\ SetCall(c, IF approves THEN AfterApproval(call[c]) ELSE Idle)
           /\ due' = [due EXCEPT ![k] = @ + IF approves /\ rows[k].status = "pending"
                                            THEN 1 ELSE 0]
           /\ raced' = raced \cup (IF call[c].seen.status = "pending"
                                      /\ rows[k].status # "pending" THEN {k} ELSE {})
    /\ UNCHANGED <<remote, bulk, job, inbox, sent, mirrors, ended, left>>

\* decide: the row it got must be pending, and is the one that was read first.
Decide(c) ==
    /\ AtCall(c, "decide") /\ call[c].seen.status = "pending"
    /\ LET k == call[c].key
           approves == call[c].op = "approve"
       IN  /\ rows' = [rows EXCEPT ![k].status = Outcome[call[c].op]]
           /\ SetCall(c, IF approves THEN AfterApproval(call[c]) ELSE Idle)
           /\ due' = [due EXCEPT ![k] = @ + IF approves /\ rows[k].status = "pending"
                                            THEN 1 ELSE 0]
           /\ raced' = raced \cup (IF rows[k].status # "pending" THEN {k} ELSE {})
    /\ UNCHANGED <<remote, bulk, job, inbox, sent, mirrors, ended, left>>

\* 404, already decided.
AlreadyDecided(c) ==
    /\ AtCall(c, "decide") /\ call[c].seen.status # "pending"
    /\ SetCall(c, Idle)
    /\ UNCHANGED <<remote, rows, bulk, job, inbox, history, left>>

\* retry-ml: for approved rows, and with the flag on.
Retry(c, k) ==
    /\ AtCall(c, "idle") /\ Ask /\ flag
    /\ rows[k].status = "approved"
    /\ SetCall(c, [op |-> "retry", key |-> k, step |-> "send", seen |-> rows[k],
                   result |-> "none"])
    /\ due' = [due EXCEPT ![k] = @ + 1]
    /\ UNCHANGED <<remote, rows, bulk, job, inbox, sent, mirrors, ended, raced>>

Enroll(k) ==
    /\ ml[k] = "candidate"
    /\ ml' = [ml EXCEPT ![k] = "started"] /\ version' = version + 1

\* apply_decision_to_ml, which counts as one sending, whatever _ml_write repeats
\* after a 429 or 502: not sent for want of a body or a price above the floor; or
\* sent, and a candidate is enrolled, anything else refused.
Send(c) ==
    /\ AtCall(c, "send")
    /\ LET k == call[c].key IN
       \/ /\ \E result \in {"skipped", "failed"} :
                SetCall(c, [call[c] EXCEPT !.step = "record", !.result = result])
          /\ UNCHANGED <<ml, version, sent>>
       \/ /\ Enroll(k)
          /\ SetCall(c, [call[c] EXCEPT !.step = "record", !.result = "ok"])
          /\ sent' = [sent EXCEPT ![k] = @ + 1]
       \/ /\ ml[k] # "candidate"
          /\ SetCall(c, [call[c] EXCEPT !.step = "record", !.result = "failed"])
          /\ sent' = [sent EXCEPT ![k] = @ + 1]
          /\ UNCHANGED <<ml, version>>
    /\ UNCHANGED <<cap, flag, rows, bulk, job, inbox, due, mirrors, ended, raced, left>>

Lost(c) ==
    /\ AtCall(c, "send") /\ Fault
    /\ Enroll(call[c].key) \/ UNCHANGED <<ml, version>>
    /\ sent' = [sent EXCEPT ![call[c].key] = @ + 1]
    /\ UNCHANGED <<cap, flag, rows, bulk, job, inbox, due, mirrors, ended, raced>>

\* Mutant of SendFails: sent until it is answered.
SendFailsRetried(c) == Lost(c) /\ UNCHANGED call

\* Without an answer, enrolled or not; or the answer is refused to a repetition.
SendFails(c) ==
    Lost(c) /\ SetCall(c, [call[c] EXCEPT !.step = "record", !.result = "failed"])

\* record_apply_result: whatever became of the row's status.
Record(c) ==
    /\ AtCall(c, "record")
    /\ rows' = [rows EXCEPT ![call[c].key].sending = call[c].result]
    /\ SetCall(c, Idle)
    /\ UNCHANGED <<remote, bulk, job, inbox, history, left>>

\* undo: revert_to_pending.
Undo(k) ==
    /\ Ask
    /\ rows[k].status \notin {"none", "pending"}
    /\ rows' = [rows EXCEPT ![k].status = "pending"]
    /\ UNCHANGED <<remote, call, bulk, job, inbox, history>>

\* bulk-act: the pending rows that match.
BulkSelect(action, matched) ==
    /\ bulk.step = "idle" /\ Ask
    /\ matched # {} /\ \A k \in matched : rows[k].status = "pending"
    /\ bulk' = [step |-> "update", action |-> action, matched |-> matched, result |-> "none"]
    /\ UNCHANGED <<remote, rows, call, job, inbox, history>>

\* UPDATE ... SET status = action WHERE status = 'pending': of the rows still
\* pending none may take a value that the table's CHECK refuses.
BulkUpdate ==
    /\ bulk.step = "update"
    /\ LET still == {k \in bulk.matched : rows[k].status = "pending"}
           allowed == still = {} \/ bulk.action \in Statuses
       IN  /\ rows' = IF allowed
                      THEN [k \in Keys |-> IF k \in still
                                           THEN [rows[k] EXCEPT !.status = bulk.action]
                                           ELSE rows[k]]
                      ELSE rows
           /\ bulk' = [IdleBulk EXCEPT !.result = IF allowed THEN "ok" ELSE "error"]
    /\ UNCHANGED <<remote, call, job, inbox, history, left>>

---------------------------------------------------------------------------
(* The sweeps                                                              *)

SetJob(s, local) == job' = [job EXCEPT ![s] = local]
AtJob(s, step) == job[s].step = step
Pending == {k \in Keys : rows[k].status = "pending"}
Arrived == {n \in Notes : inbox[n].status = "pending"}

\* The daily job sweeps what is stale, then reconciles; it loads the pending rows
\* and keeps them to the end of its transaction.
StartDaily ==
    /\ AtJob("daily", "idle")
    /\ SetJob("daily", [IdleJob EXCEPT !.step = "expire", !.stale = Pending])
    /\ UNCHANGED <<remote, rows, call, bulk, inbox, history, left>>

\* process_pending: mirror, reconcile, generate, then settle what was read first.
StartBatch ==
    /\ AtJob("hook", "idle") /\ Arrived # {}
    /\ SetJob("hook", [IdleJob EXCEPT !.step = "mirror", !.batch = Arrived])
    /\ UNCHANGED <<remote, rows, call, bulk, inbox, history, left>>

\* /decisions/generate.
StartGenerate ==
    /\ AtJob("request", "idle")
    /\ SetJob("request", [IdleJob EXCEPT !.step = "generate"])
    /\ UNCHANGED <<remote, rows, call, bulk, inbox, history, left>>

\* listing_not_active, campaign_ended, _stale_reason: here an ended promotion, or
\* a cap that is not the one of the row.
Stale(k) == ml[k] = "none" \/ rows[k].cap \notin {-1, cap}

\* expire, of the rows as they were read.
Expire(s) ==
    /\ AtJob(s, "expire")
    /\ LET gone == {k \in job[s].stale : Stale(k)} IN
       /\ rows' = [k \in Keys |-> IF k \in gone THEN [rows[k] EXCEPT !.status = "expired"]
                                  ELSE rows[k]]
       /\ raced' = raced \cup {k \in gone : rows[k].status # "pending"}
    /\ SetJob(s, [job[s] EXCEPT !.step = "reconcile", !.stale = {}])
    /\ UNCHANGED <<remote, call, bulk, inbox, due, sent, mirrors, ended, left>>

\* sync_mlb: a reading and its transaction.
Mirror(s) ==
    /\ AtJob(s, "mirror")
    /\ mirrored' = version
    /\ SetJob(s, [job[s] EXCEPT !.step = "reconcile"])
    /\ UNCHANGED <<remote, rows, call, bulk, inbox, due, sent, reflected, ended, raced, misread,
                   overtaken, left>>

\* fetch_eligible_promos.  Generating starts with the cap, and needs one.
Fetch(s) ==
    /\ \/ AtJob(s, "reconcile")
          /\ SetJob(s, [job[s] EXCEPT !.step = "upsert", !.seen = ml, !.of = version])
       \/ AtJob(s, "generate") /\ cap > 0
          /\ SetJob(s, [job[s] EXCEPT !.step = "insert", !.seen = ml, !.of = version,
                                      !.cap = cap])
    /\ UNCHANGED <<remote, rows, call, bulk, inbox, history, left>>

After(s, step) == IF job[s].batch = {} THEN IdleJob ELSE [job[s] EXCEPT !.step = step]

SkipUncapped(s) ==
    /\ AtJob(s, "generate") /\ cap = 0
    /\ SetJob(s, After(s, "settle"))
    /\ UNCHANGED <<remote, rows, call, bulk, inbox, history, left>>

\* A status of 400 or more reads as a listing without promotions.
FetchRefused(s) ==
    /\ Fault /\ misread' = TRUE
    /\ LET seen == [k \in Keys |-> "none"] IN
       \/ AtJob(s, "mirror") /\ SetJob(s, [job[s] EXCEPT !.step = "reconcile"])
       \/ AtJob(s, "reconcile")
          /\ SetJob(s, [job[s] EXCEPT !.step = "upsert", !.seen = seen, !.of = version])
       \/ AtJob(s, "generate") /\ cap > 0
          /\ SetJob(s, [job[s] EXCEPT !.step = "insert", !.seen = seen, !.of = version,
                                      !.cap = cap])
    /\ UNCHANGED <<remote, rows, call, bulk, inbox, due, sent, reflected, mirrored, ended,
                   raced, overtaken>>

\* Mutant of FetchFails: the mirror is skipped as the others are.
FetchFailsQuietly(s) ==
    /\ Fault
    /\ \/ AtJob(s, "mirror") /\ SetJob(s, [job[s] EXCEPT !.step = "reconcile"])
       \/ AtJob(s, "reconcile") /\ SetJob(s, After(s, "generate"))
       \/ AtJob(s, "generate") /\ SetJob(s, After(s, "settle"))
    /\ UNCHANGED <<remote, rows, call, bulk, inbox, history>>

\* Mutant of FetchFails: as if nothing were promoted.
FetchFailsEmpty(s) ==
    /\ Fault
    /\ LET seen == [k \in Keys |-> "none"] IN
       \/ AtJob(s, "mirror") /\ SetJob(s, [job[s] EXCEPT !.step = "giveup"])
       \/ AtJob(s, "reconcile")
          /\ SetJob(s, [job[s] EXCEPT !.step = "upsert", !.seen = seen, !.of = version])
       \/ AtJob(s, "generate") /\ cap > 0
          /\ SetJob(s, [job[s] EXCEPT !.step = "insert", !.seen = seen, !.of = version,
                                      !.cap = cap])
    /\ UNCHANGED <<remote, rows, call, bulk, inbox, history>>

\* No answer: without a mirror the batch gives up the listing; reconciling and
\* generating are skipped.
FetchFails(s) ==
    /\ Fault
    /\ \/ AtJob(s, "mirror") /\ SetJob(s, [job[s] EXCEPT !.step = "giveup"])
       \/ AtJob(s, "reconcile") /\ SetJob(s, After(s, "generate"))
       \/ AtJob(s, "generate") /\ cap > 0 /\ SetJob(s, After(s, "settle"))
    /\ UNCHANGED <<remote, rows, call, bulk, inbox, history>>

Started(r) == [r EXCEPT !.status = "ignored", !.started = TRUE]
Shown(r) == r.status = "ignored" /\ r.started

\* expire_disappeared_started.
Ended(r, seen) == Shown(r) /\ seen # "started"

\* Mutant of Reconciled: what ended stays.
ReconciledOnly(r, seen) == IF seen = "started" THEN Started(r) ELSE r

\* What a sweep's transaction makes of a row: upsert_started, or the end.
Reconciled(r, seen) ==
    IF seen = "started" THEN Started(r)
    ELSE IF Ended(r, seen) THEN [r EXCEPT !.status = "expired"]
    ELSE r

\* A commit, maybe after one of a later reading.
Reflects(s) ==
    /\ reflected' = IF job[s].of > reflected THEN job[s].of ELSE reflected
    /\ overtaken' = (overtaken \/ job[s].of < reflected)
    /\ UNCHANGED <<mirrored, misread>>

Upsert(s) ==
    /\ AtJob(s, "upsert")
    /\ rows' = [k \in Keys |-> Reconciled(rows[k], job[s].seen[k])]
    /\ Reflects(s)
    /\ SetJob(s, After(s, "generate"))
    /\ UNCHANGED <<remote, call, bulk, inbox, due, sent, ended, raced, left>>

\* insert_if_absent: a candidate that fits is pending, one that does not, and a
\* started one, are there to be seen.
Inserted(seen, c) ==
    [status |-> IF seen = "candidate" /\ c > 1 THEN "pending" ELSE "ignored",
     started |-> seen = "started", cap |-> c, sending |-> "none"]

Generated(r, seen, c) ==
    IF seen # "none" /\ r.status = "none" THEN Inserted(seen, c) ELSE Reconciled(r, seen)

Insert(s) ==
    /\ AtJob(s, "insert")
    /\ rows' = [k \in Keys |-> Generated(rows[k], job[s].seen[k], job[s].cap)]
    /\ Reflects(s)
    /\ SetJob(s, After(s, "settle"))
    /\ UNCHANGED <<remote, call, bulk, inbox, due, sent, ended, raced, left>>

Settle(s) ==
    /\ AtJob(s, "settle") \/ AtJob(s, "giveup")
    /\ inbox' = [n \in Notes |->
                   IF n \in job[s].batch
                   THEN [inbox[n] EXCEPT !.status = IF AtJob(s, "settle") THEN "processed"
                                                    ELSE "error"]
                   ELSE inbox[n]]
    /\ SetJob(s, IdleJob)
    /\ UNCHANGED <<remote, rows, call, bulk, history, left>>

Sweep(s) ==
    \/ Expire(s) \/ Mirror(s) \/ Fetch(s) \/ SkipUncapped(s) \/ Upsert(s) \/ Insert(s) \/ Settle(s)

---------------------------------------------------------------------------
(* Mercado Livre, the recomputed cap, and the end of the process           *)

local == <<rows, call, bulk, job>>
Change == left.changes > 0 /\ left' = [left EXCEPT !.changes = @ - 1]

Promote(k, state) ==
    /\ Change /\ state # ml[k]
    /\ ml' = [ml EXCEPT ![k] = state] /\ version' = version + 1
    /\ ended' = IF ml[k] = "started" THEN ended \cup {k} ELSE ended
    /\ UNCHANGED <<cap, flag, local, inbox, due, sent, mirrors, raced>>

Recompute(c) ==
    /\ Change /\ c # cap
    /\ cap' = c
    /\ UNCHANGED <<ml, version, flag, local, inbox, history>>

\* receive_ml_notification: of what is so by now; some come twice, some never.
Notify(n) ==
    /\ inbox[n].status = "none" /\ version > 0
    /\ inbox' = [inbox EXCEPT ![n] = [status |-> "pending", of |-> version]]
    /\ UNCHANGED <<remote, local, history, left>>

Crash ==
    /\ left.crashes > 0 /\ left' = [left EXCEPT !.crashes = @ - 1]
    /\ call' = [c \in Callers |-> Idle] /\ bulk' = IdleBulk
    /\ job' = [s \in Sweeps |-> IdleJob]
    /\ UNCHANGED <<remote, rows, inbox, history>>

---------------------------------------------------------------------------
Serve(c) == Decide(c) \/ AlreadyDecided(c) \/ Send(c) \/ Record(c)

Next ==
    \/ \E c \in Callers :
          \/ \E k \in Keys : Retry(c, k) \/ \E op \in DOMAIN Outcome : Open(c, op, k)
          \/ Serve(c) \/ SendFails(c)
    \/ \E k \in Keys : Undo(k)
    \/ \E action \in {"ignore", "reject"}, matched \in SUBSET Keys : BulkSelect(action, matched)
    \/ BulkUpdate
    \/ StartDaily \/ StartGenerate \/ StartBatch
    \/ \E s \in Sweeps : Sweep(s) \/ FetchRefused(s) \/ FetchFails(s)
    \/ \E k \in Keys, state \in {"none", "candidate", "started"} : Promote(k, state)
    \/ \E c \in Caps : Recompute(c)
    \/ \E n \in Notes : Notify(n)
    \/ Crash

Spec == Init /\ [][Next]_vars

\* The event loop drives what was begun; the scheduler starts the daily job.
FairSpec ==
    /\ Spec
    /\ \A c \in Callers : WF_vars(Serve(c))
    /\ \A s \in Sweeps : WF_vars(Sweep(s))
    /\ WF_vars(StartDaily)

---------------------------------------------------------------------------
(* Properties                                                              *)

\* Mercado Livre is sent no more than operators asked for: one request for each
\* time a row leaves the queue approved and each retry, whatever is undone, swept
\* or lost meanwhile.  Two approvals that both read the row as pending send
\* twice ("raced").
SentAsAsked == \A k \in Keys : k \in raced \/ sent[k] <= due[k]

\* What an operator decided stands until an operator undoes it or Mercado Livre
\* reports the promotion as started, but for decisions that read the row before.
Decided == {"approved", "rejected", "ignored"}
DecisionStands ==
    \A k \in Keys :
        rows[k].status \in Decided /\ ~Shown(rows[k]) /\ rows'[k].status # rows[k].status
          => \/ k \in raced'
             \/ Shown(rows'[k]) /\ \E s \in Sweeps : job[s].seen[k] = "started"
             \/ rows'[k].status = "pending" /\ left'.asks < left.asks

\* A row shown as started is expired only once its promotion has ended, but for
\* sweeps whose readings were refused, overtaken or older than the row.
Dropped(k) == Shown(rows[k]) /\ rows'[k].status = "expired"
StartedKept == \A k \in Keys : Dropped(k) => k \in ended \cup raced' \/ misread \/ overtaken'

\* No step takes back what was decided or is started.
RowsStand == [][DecisionStands /\ StartedKept]_vars

\* A notification is settled as processed only once ml_promotions has been
\* read from Mercado Livre after it arrived, but for readings that were refused.
ProcessedIsMirrored ==
    misread \/ \A n \in Notes : inbox[n].status = "processed" => inbox[n].of <= mirrored

\* The rows shown as started are those of the started promotions: as <>[], they come
\* to be, and stay so, whatever operators, notifications and refused readings did.
ShownAsStarted == \A k \in Keys : Shown(rows[k]) <=> ml[k] = "started"

\* For the run that disagrees with a docstring: what a bulk act matched is decided,
\* and its UPDATE never refused.
BulkDecides == bulk.result # "error"
=============================================================================
