---------------------------- MODULE DirectWrites ----------------------------
(***************************************************************************)
(* The endpoints of api/routers/ml_promotions.py with which operators put   *)
(* one listing into a promotion at once, past the queue of decisions:       *)
(* create-price-discount, enroll-campaign-item, promotions/enroll, reprice   *)
(* and activate-smart; and the readers that repair the two tables these      *)
(* write to.  A step is one request to Mercado Livre or one transaction.     *)
(***************************************************************************)
EXTENDS Integers, FiniteSets

CONSTANTS
    Requests,   \* operators' requests
    Budgets     \* bounds: what may happen in a behaviour, and how often

Bounds == [asks : Nat, changes : Nat, faults : Nat, crashes : Nat]

\* A discount of the seller's own, which has no id; a campaign with the seller's
\* price; a campaign co-paid by Mercado Livre.
Offers == {"discount", "deal", "smart"}

Ops == {"create", "enroll_item", "enroll", "reprice", "activate"}
OffersOf ==
    [create |-> {"discount"}, enroll_item |-> {"deal"}, enroll |-> {"discount", "deal"},
     reprice |-> {"discount"}, activate |-> {"smart"}]

VARIABLES
    ml,      \* offer -> what the listing's promotions are at Mercado Livre
    active,  \* ml_listings.status = 'active'
    rows,    \* promo_keys of ml_promo_decisions shown as started
    mirror,  \* ml_promotions: offer -> status and enrolled_at
    req,     \* the requests
    sweep,   \* the readers
    left     \* what is left of the budget

vars == <<ml, active, rows, mirror, req, sweep, left>>

States == {"none", "candidate", "started"}

\* facts: a history of the request.
Facts == {"exited", "entered", "already", "unanswered", "unmarked", "logged"}
Reqs == [op : Ops \cup {"none"}, offer : Offers,
         step : {"idle", "find", "exit", "post", "record", "mark", "sync", "store", "log", "over"},
         seen : [Offers -> States], told : {"nothing", "done", "error", "failed"},
         facts : SUBSET Facts]

NotSeen == [o \in Offers |-> "none"]
Idle == [op |-> "none", offer |-> "discount", step |-> "idle", seen |-> NotSeen,
         told |-> "nothing", facts |-> {}]

IdleSweep == [step |-> "idle", seen |-> NotSeen]

\* The key generate and reconcile give a row, and the key an endpoint gives it:
\* promotions/enroll names the promotion's type where there is no id.
Key(o) == IF o = "discount" THEN "CREATE-started" ELSE o
KeyOf(r) == IF r.op = "enroll" /\ r.offer = "discount" THEN "PRICE_DISCOUNT" ELSE Key(r.offer)
MirrorKeys == {Key(o) : o \in Offers} \cup {"PRICE_DISCOUNT"}

TypeOK ==
    /\ ml \in [Offers -> States] /\ active \in BOOLEAN
    /\ rows \subseteq MirrorKeys
    /\ mirror \in [Offers -> [status : States, enrolled : BOOLEAN]]
    /\ req \in [Requests -> Reqs]
    /\ sweep \in [step : {"idle", "mirror", "fetch", "rows"}, seen : [Offers -> States]]
    /\ left \in Bounds

Init ==
    /\ ml \in [Offers -> {"candidate"}] \cup {[o \in Offers |-> IF o = "deal" THEN "started"
                                                                ELSE "candidate"]}
    /\ active \in BOOLEAN
    /\ rows = {Key(o) : o \in {p \in Offers : ml[p] = "started"}}
    /\ mirror = [o \in Offers |-> [status |-> ml[o], enrolled |-> FALSE]]
    /\ req = [r \in Requests |-> Idle] /\ sweep = IdleSweep
    /\ left \in Budgets

At(r, step) == req[r].step = step
Put(r, local) == req' = [req EXCEPT ![r] = local]
Fault == left.faults > 0 /\ left' = [left EXCEPT !.faults = @ - 1]
NoFault == UNCHANGED left

\* The request ends, and the operator is told.
Tell(local, what) == [local EXCEPT !.step = "over", !.told = what, !.seen = NotSeen]
Knowing(local, facts) == [local EXCEPT !.facts = @ \cup facts]

---------------------------------------------------------------------------
(* The endpoints                                                           *)

FirstStep == [create |-> "post", enroll_item |-> "post", enroll |-> "post",
              reprice |-> "exit", activate |-> "find"]

\* A listing that is not active is refused by the endpoints that ask.
AsksIfActive == {"create", "enroll_item", "enroll"}

Ask(r, op, o) ==
    /\ At(r, "idle") /\ left.asks > 0 /\ left' = [left EXCEPT !.asks = @ - 1]
    /\ o \in OffersOf[op] /\ (op \in AsksIfActive => active)
    /\ Put(r, [Idle EXCEPT !.op = op, !.offer = o, !.step = FirstStep[op]])
    /\ UNCHANGED <<ml, active, rows, mirror, sweep>>

\* enroll_offer looks for a candidate; one that has started is taken for enrolled.
Find(r) ==
    /\ At(r, "find")
    /\ LET state == ml[req[r].offer] IN
       Put(r, CASE state = "candidate" -> [req[r] EXCEPT !.step = "post"]
                [] state = "started" -> Knowing([req[r] EXCEPT !.step = "sync", !.told = "done"],
                                                {"already"})
                [] OTHER -> [req[r] EXCEPT !.step = "sync", !.told = "failed"])
    /\ NoFault /\ UNCHANGED <<ml, active, rows, mirror, sweep>>

\* A status of 400 or more reads as no promotions; no answer is an error.
FindFails(r) ==
    /\ At(r, "find") /\ Fault
    /\ \/ Put(r, [req[r] EXCEPT !.step = "sync", !.told = "failed"])
       \/ Put(r, Tell(req[r], "error"))
    /\ UNCHANGED <<ml, active, rows, mirror, sweep>>

\* Out of what was started: back among what is offered.
Out(gone) == ml' = [o \in Offers |-> IF o \in gone THEN "candidate" ELSE ml[o]]
StartedNow == {o \in Offers : ml[o] = "started"}

\* DELETE without a type: Mercado Livre chooses; 404 when there is nothing.
Exit(r) ==
    /\ At(r, "exit")
    /\ \/ StartedNow = {} /\ Put(r, [req[r] EXCEPT !.step = "post"]) /\ UNCHANGED ml
       \/ \E gone \in SUBSET StartedNow \ {{}} :
             Out(gone) /\ Put(r, Knowing([req[r] EXCEPT !.step = "post"], {"exited"}))
    /\ NoFault /\ UNCHANGED <<active, rows, mirror, sweep>>

\* Refused: the operator is told.  No answer passes for a good one.
ExitFails(r) ==
    /\ At(r, "exit") /\ Fault
    /\ \/ Put(r, Tell(req[r], "failed")) /\ UNCHANGED ml
       \/ /\ \E gone \in SUBSET StartedNow : Out(gone)
          /\ Put(r, Knowing([req[r] EXCEPT !.step = "post"], {"unanswered"}))
    /\ UNCHANGED <<active, rows, mirror, sweep>>

Enter(r) == ml' = [ml EXCEPT ![req[r].offer] = "started"]
AfterEntry(local) ==
    IF local.op = "activate" THEN [local EXCEPT !.step = "sync", !.told = "done"]
    ELSE [local EXCEPT !.step = "record"]

\* Mutant of RefusedPost: activate-smart does not look at the status.
RefusedUnseen(local) ==
    IF local.op = "activate" THEN [local EXCEPT !.step = "sync", !.told = "done"]
    ELSE Tell(local, "failed")

\* A refused POST; activate-smart copies the promotions first, whatever came of it.
RefusedPost(local) ==
    IF local.op = "activate" THEN [local EXCEPT !.step = "sync", !.told = "failed"]
    ELSE Tell(local, "failed")

\* POST: a candidate is enrolled, what has started or is gone is refused.
Post(r) ==
    /\ At(r, "post")
    /\ IF ml[req[r].offer] = "candidate"
       THEN Enter(r) /\ Put(r, Knowing(AfterEntry(req[r]), {"entered"}))
       ELSE Put(r, RefusedPost(req[r])) /\ UNCHANGED ml
    /\ NoFault /\ UNCHANGED <<active, rows, mirror, sweep>>

\* The endpoints for which no answer is an error.
AskForAnswer == {"enroll", "activate"}

\* Refused all the same, or not answered.
PostFails(r) ==
    /\ At(r, "post") /\ Fault
    /\ \/ Put(r, RefusedPost(req[r])) /\ UNCHANGED ml
       \/ /\ (ml[req[r].offer] = "candidate" /\ Enter(r)) \/ UNCHANGED ml
          /\ Put(r, Knowing(IF req[r].op \in AskForAnswer THEN RefusedPost(req[r])
                            ELSE AfterEntry(req[r]), {"unanswered"}))
    /\ UNCHANGED <<active, rows, mirror, sweep>>

\* The log and upsert_started, in one transaction; a reprice has no row.
Record(r) ==
    /\ At(r, "record")
    /\ rows' = IF req[r].op = "reprice" THEN rows ELSE rows \cup {KeyOf(req[r])}
    /\ LET logged == Knowing(req[r], {"logged"}) IN
       Put(r, IF req[r].op # "enroll" THEN Tell(logged, "done")
              ELSE [logged EXCEPT !.told = "done",
                                  !.step = IF req[r].offer = "discount" THEN "sync" ELSE "mark"])
    /\ NoFault /\ UNCHANGED <<ml, active, mirror, sweep>>

\* The transaction fails: the operator gets an error, Mercado Livre has the promotion.
RecordFails(r) ==
    /\ At(r, "record") \/ At(r, "log")
    /\ Fault /\ Put(r, Tell(req[r], "error"))
    /\ UNCHANGED <<ml, active, rows, mirror, sweep>>

\* promotions/enroll with an id: the copy is started, or made so.
Mark(r) ==
    /\ At(r, "mark")
    /\ mirror' = [mirror EXCEPT ![req[r].offer] = [status |-> "started", enrolled |-> TRUE]]
    /\ Put(r, Tell(req[r], "done"))
    /\ NoFault /\ UNCHANGED <<ml, active, rows, sweep>>

MarkFails(r) ==
    /\ At(r, "mark") /\ Fault
    /\ Put(r, Knowing(Tell(req[r], "done"), {"unmarked"}))
    /\ UNCHANGED <<ml, active, rows, mirror, sweep>>

\* sync_mlb reads, for promotions/enroll without an id and for activate-smart ...
Sync(r) ==
    /\ At(r, "sync")
    /\ Put(r, [req[r] EXCEPT !.step = "store", !.seen = ml])
    /\ NoFault /\ UNCHANGED <<ml, active, rows, mirror, sweep>>

AfterSync(local) ==
    IF local.op = "activate" /\ local.told = "done" THEN [local EXCEPT !.step = "log"]
    ELSE Tell(local, local.told)

\* ... or fails, after three attempts or one, which changes nothing of the answer;
\* or is refused, which reads as no promotions ...
SyncFails(r) ==
    /\ At(r, "sync") /\ Fault
    /\ \/ Put(r, AfterSync(req[r]))
       \/ Put(r, [req[r] EXCEPT !.step = "store"])
    /\ UNCHANGED <<ml, active, rows, mirror, sweep>>

\* Mutant of Copied: what was read, whoever enrolled the listing.
CopiedAll(seen) ==
    [o \in Offers |-> [status |-> seen[o], enrolled |-> mirror[o].enrolled]]

\* _reconcile_mlb: what enrolled_at protects is neither deleted nor lowered.
Copied(seen) ==
    [o \in Offers |->
        [mirror[o] EXCEPT !.status = IF seen[o] # "started" /\ mirror[o].enrolled THEN @
                                     ELSE seen[o]]]

\* ... and stores.
Store(r) ==
    /\ At(r, "store")
    /\ mirror' = Copied(req[r].seen)
    /\ Put(r, AfterSync([req[r] EXCEPT !.seen = NotSeen]))
    /\ NoFault /\ UNCHANGED <<ml, active, rows, sweep>>

\* activate-smart's log.
Log(r) ==
    /\ At(r, "log")
    /\ Put(r, Knowing(Tell(req[r], "done"), {"logged"}))
    /\ NoFault /\ UNCHANGED <<ml, active, rows, mirror, sweep>>

Serve(r) ==
    \/ Find(r) \/ Exit(r) \/ Post(r) \/ Record(r) \/ Mark(r) \/ Sync(r) \/ Store(r) \/ Log(r)

Fails(r) ==
    \/ FindFails(r) \/ ExitFails(r) \/ PostFails(r) \/ RecordFails(r) \/ MarkFails(r)
    \/ SyncFails(r)

---------------------------------------------------------------------------
(* The readers                                                             *)

\* promotion_mirror_job reads every listing ...
SweepReads ==
    /\ sweep.step = "idle"
    /\ sweep' = [step |-> "mirror", seen |-> ml]
    /\ NoFault /\ UNCHANGED <<ml, active, rows, mirror, req>>

\* ... and may read of one what was before, of all nothing, or get no answer.
SweepMisreads ==
    /\ sweep.step \in {"idle", "fetch"} /\ Fault
    /\ \/ \E seen \in {NotSeen} \cup {[ml EXCEPT ![o] = "candidate"] : o \in StartedNow} :
             sweep' = [step |-> IF sweep.step = "idle" THEN "mirror" ELSE "rows", seen |-> seen]
       \/ sweep' = IdleSweep
    /\ UNCHANGED <<ml, active, rows, mirror, req>>

SweepMirrors ==
    /\ sweep.step = "mirror"
    /\ mirror' = Copied(sweep.seen)
    /\ sweep' = IF active THEN [IdleSweep EXCEPT !.step = "fetch"] ELSE IdleSweep
    /\ NoFault /\ UNCHANGED <<ml, active, rows, req>>

\* reconcile_started_promos, of active listings only.
SweepFetches ==
    /\ sweep.step = "fetch"
    /\ sweep' = [step |-> "rows", seen |-> ml]
    /\ NoFault /\ UNCHANGED <<ml, active, rows, mirror, req>>

\* Mutant of RowsOf: only rows of offers that were read are expired.
RowsOfRead(seen) ==
    (rows \ {Key(o) : o \in Offers}) \cup {Key(o) : o \in {p \in Offers : seen[p] = "started"}}

\* upsert_started of what was read, expire_disappeared_started of any other row.
RowsOf(seen) == {Key(o) : o \in {p \in Offers : seen[p] = "started"}}

SweepRows ==
    /\ sweep.step = "rows"
    /\ rows' = RowsOf(sweep.seen)
    /\ sweep' = IdleSweep
    /\ NoFault /\ UNCHANGED <<ml, active, mirror, req>>

Sweep == SweepReads \/ SweepMirrors \/ SweepFetches \/ SweepRows

---------------------------------------------------------------------------
(* Environment                                                             *)

Changed == left.changes > 0 /\ left' = [left EXCEPT !.changes = @ - 1]

\* Mercado Livre starts, offers or takes back a promotion by itself.
Promote(o, state) ==
    /\ Changed /\ state # ml[o] /\ (o = "discount" => state = "candidate")
    /\ ml' = [ml EXCEPT ![o] = state]
    /\ UNCHANGED <<active, rows, mirror, req, sweep>>

\* The mirror of listings sees it paused or active again.
Pause ==
    /\ Changed /\ active' = ~active
    /\ UNCHANGED <<ml, rows, mirror, req, sweep>>

Crash ==
    /\ left.crashes > 0 /\ left' = [left EXCEPT !.crashes = @ - 1]
    /\ req' = [r \in Requests |-> IF req[r].step \in {"idle", "over"} THEN req[r] ELSE Idle]
    /\ sweep' = IdleSweep
    /\ UNCHANGED <<ml, active, rows, mirror>>

Next ==
    \/ \E r \in Requests : Serve(r) \/ Fails(r)
                           \/ \E op \in Ops, o \in Offers : Ask(r, op, o)
    \/ Sweep \/ SweepMisreads
    \/ \E o \in Offers, state \in States : Promote(o, state)
    \/ Pause \/ Crash

\* The event loop drives a request, and the scheduler starts the readers.
FairSpec ==
    /\ Init /\ [][Next]_vars
    /\ \A r \in Requests : WF_vars(Serve(r))
    /\ WF_vars(Sweep)

---------------------------------------------------------------------------
(* Properties                                                              *)

Over(r) == req[r].step = "over"

\* What an operator is told is true, whatever else happened on the way: "done" means
\* that it is in the audit log and that Mercado Livre entered the listing, or said
\* nothing, or had it entered before; "failed" means that no answer has said so
\* and that the log has nothing of it.
ToldTrue ==
    \A r \in Requests : Over(r) =>
        /\ req[r].told = "done" =>
              "logged" \in req[r].facts
              /\ {"entered", "already", "unanswered"} \cap req[r].facts # {}
        /\ req[r].told = "failed" =>
              {"entered", "logged"} \cap req[r].facts = {}

\* The comment of promotions/enroll: "our database rules, not Mercado Livre's
\* eligible list".  Once the operator was told that the listing is in a campaign it
\* stays shown there, whatever readings of before or without it are stored after.
EnrolledShown ==
    \A r \in Requests :
        Over(r) /\ req[r].op = "enroll" /\ req[r].offer = "deal" /\ req[r].told = "done"
          /\ "unmarked" \notin req[r].facts
        => mirror["deal"].status = "started"

\* The rows shown as started are, one each, the started promotions of an active
\* listing, and the copies those but for enrolled_at.  As <>[]: what an endpoint
\* wrote under another key, failed to write, or wrote for a POST that never arrived
\* is put right.
Settled ==
    /\ active => rows = {Key(o) : o \in StartedNow}
    /\ \A o \in Offers : mirror[o].enrolled \/ mirror[o].status = ml[o]
=============================================================================
