------------------------------ MODULE Mirrors ------------------------------
(***************************************************************************)
(* The imports that copy a list of things from elsewhere into a table: one   *)
(* reading after the other (pages, days, batches of keys), then one or more   *)
(* transactions.  The services differ in what they do when a reading fails,   *)
(* how they store what they read, and what they drop; each is a record below. *)
(*                                                                         *)
(* A thing has a version, which grows when it changes (0: it does not exist   *)
(* yet, and Gone when it no longer does; in a table 0 means no row),           *)
(* and a place: its page, its day, or the hours since its last change.  Some  *)
(* services add a detail, read thing by thing, to what the pages say.         *)
(***************************************************************************)
EXTENDS Integers, FiniteSets, FiniteSetsExt

CONSTANTS
    Items,          \* the things, numbered
    N,              \* the most pages a run reads; its days, batches and keys
    Recent,         \* the hours an hourly run looks back
    MaxVersion,     \* bounds: the versions of a thing,
    MaxEvents,      \* the changes and the requests,
    MaxFaults       \* the faults

VARIABLES
    service,        \* the service at work
    remote,         \* the version of each thing
    place,          \* where each thing is read
    table,          \* the version stored
    detail,         \* the version of the detail stored
    run,            \* the job's run and the one asked for
    lock,           \* Redis: somebody asked for a run not long ago
    due,            \* the hour's run is still to come
    budget
vars == <<service, remote, place, table, detail, run, lock, due, budget>>

\* The last place lies behind the last page that is read, or too long ago.
Last(s) == (IF s.parts = "recent" THEN Recent ELSE N) + 1
Runs == {"job", "asked"}
Gone == -1
NoRows == [i \in Items |-> 0]

---------------------------------------------------------------------------
(* The services.  parts: what a run reads part by part; failure: what it does *)
(* when a reading fails; store: "upsert", "replace" (what there was for what  *)
(* was read) or "prune" (upsert, and then delete what was not read); commit:  *)
(* of what was read, after every "part" or at the "end"; details: those it     *)
(* reads; twice: what happens to a thing listed twice; queued: runs wait for   *)
(* each other in a queue.                                                     *)
Service(parts, failure, store, commit) ==
    [parts |-> parts, failure |-> failure, store |-> store, commit |-> commit,
     details |-> "none", twice |-> "merged", queued |-> FALSE]

MLListings == [Service("scan", "skip", "replace", "end") EXCEPT !.queued = TRUE]
MLSales == Service("days", "skip", "replace", "end")
MLOrders == Service("days", "skip", "upsert", "end")
MLVisits == Service("keys", "skip", "upsert", "end")
MLItemHealth == Service("keys", "skip", "upsert", "end")
CatalogStatus == Service("keys", "skip", "upsert", "part")
AmazonListings == [Service("pages", "abort", "prune", "end") EXCEPT !.twice = "refused"]
ShopeeListings == [Service("pages", "abort", "prune", "end") EXCEPT !.twice = "refused"]
TikTokListings == [Service("pages", "abort", "prune", "end") EXCEPT !.details = "stale"]
MagaluListings == [Service("pages", "abort", "prune", "end") EXCEPT !.details = "all"]
AmazonOrders == Service("recent", "abort", "upsert", "end")
ShopeeOrders == Service("recent", "abort", "upsert", "end")
TikTokOrders == Service("recent", "abort", "upsert", "end")
MagaluOrders == Service("recent", "abort", "upsert", "end")
PurchaseOrders == [Service("pages", "abort", "upsert", "end") EXCEPT !.queued = TRUE]
StockHistory == [Service("whole", "abort", "upsert", "end") EXCEPT !.queued = TRUE]
CostSheet == Service("whole", "abort", "upsert", "part")
ManualStatus == Service("whole", "abort", "replace", "end")

Services == {MLListings, MLSales, MLOrders, MLVisits, MLItemHealth, CatalogStatus,
             AmazonListings, ShopeeListings, TikTokListings, MagaluListings,
             AmazonOrders, ShopeeOrders, TikTokOrders, MagaluOrders,
             PurchaseOrders, StockHistory, CostSheet, ManualStatus}

\* Amazon's pass alone knows whether it saw the last page.
Looks == service = AmazonListings

---------------------------------------------------------------------------
Idle == [at |-> "idle", next |-> 0, from |-> 1, last |-> 0, keys |-> {},
         got |-> NoRows, fresh |-> NoRows, twice |-> FALSE, complete |-> TRUE,
         gone |-> {}, unread |-> {}, mixed |-> FALSE, before |-> NoRows]

\* The part in which a thing is read, and the last part.
PartOf(i) == IF service.parts \in {"whole", "recent"} THEN 1 ELSE place[i]
LastPart == IF service.parts \in {"whole", "recent"} THEN 1 ELSE N
Present == {i \in Items : remote[i] > 0}

\* Things of days and keys stay where they are; keys are those of another table.
\* The things are numbered in the order of their places.
Init ==
    /\ service \in Services
    /\ remote \in [Items -> 0..1]
    /\ service.parts = "keys" => Present = Items
    /\ place \in [Items -> 1..Last(service)]
    /\ \A i, j \in Items : i < j => place[i] <= place[j]
    /\ service.parts = "whole" => \A i \in Items : place[i] = 1
    /\ service.parts = "recent" => \A i \in Items : place[i] = Last(service)
    /\ service.parts # "pages" /\ service.parts # "recent" => \A i \in Items : place[i] <= N
    /\ table = remote
    /\ detail = IF service.details = "none" THEN NoRows ELSE remote
    /\ run = [r \in Runs |-> Idle]
    /\ lock = FALSE /\ due = TRUE
    /\ budget = [events |-> MaxEvents, faults |-> MaxFaults]

Active(r) == run[r].at # "idle"
Spend(what) == budget[what] > 0 /\ budget' = [budget EXCEPT ![what] = @ - 1]
Set(r, x) == run' = [run EXCEPT ![r] = x]

---------------------------------------------------------------------------
(* Elsewhere                                                               *)

Change(i) ==
    /\ Spend("events") /\ remote[i] \in 0..MaxVersion - 1
    /\ service.parts = "keys" => remote[i] # 0
    /\ remote' = [remote EXCEPT ![i] = @ + 1]
    /\ place' = IF service.parts = "recent" THEN [place EXCEPT ![i] = 1] ELSE place
    /\ UNCHANGED <<service, table, detail, run, lock, due>>

Remove(i) ==
    /\ Spend("events") /\ remote[i] > 0 /\ service.store # "upsert"
    /\ remote' = [remote EXCEPT ![i] = Gone]
    /\ run' = [r \in Runs |-> IF Active(r) THEN [run[r] EXCEPT !.gone = @ \cup {i}] ELSE run[r]]
    /\ UNCHANGED <<service, place, table, detail, lock, due>>

\* A listing moves to another page: another status, another name, another rank.
Move(i, p) ==
    /\ Spend("events") /\ service.parts = "pages" /\ place[i] # p
    /\ place' = [place EXCEPT ![i] = p]
    /\ run' = [r \in Runs |-> IF Active(r) THEN [run[r] EXCEPT !.unread = @ \cup {i}] ELSE run[r]]
    /\ UNCHANGED <<service, remote, table, detail, lock, due>>

\* The job runs once an hour, at least, and no run takes longer.
HourPasses ==
    /\ service.parts = "recent" /\ ~due /\ \A r \in Runs : ~Active(r)
    /\ \E i \in Items : place[i] # Last(service)
    /\ place' = [i \in Items |-> Min({place[i] + 1, Last(service)})]
    /\ due' = TRUE
    /\ UNCHANGED <<service, remote, table, detail, run, lock, budget>>

---------------------------------------------------------------------------
(* A run                                                                   *)

\* What lies beyond the last page that is read.
Beyond == {i \in Items : service.parts = "pages" /\ place[i] > N}

\* A scan lists the ids first.
Begun(from, last, others) ==
    [Idle EXCEPT !.at = "read", !.next = from, !.from = from, !.last = last,
                 !.keys = IF service.parts = "scan" THEN Present ELSE Items,
                 !.gone = Items \ Present, !.unread = IF Looks THEN {} ELSE Beyond,
                 !.mixed = others, !.before = IF others THEN NoRows ELSE table]

Begin(r, from, last) ==
    /\ ~Active(r)
    /\ LET other == CHOOSE o \in Runs : o # r IN
       /\ service.queued => ~Active(other)
       /\ run' = [run EXCEPT ![r] = Begun(from, last, Active(other)),
                             ![other] = IF Active(other)
                                       THEN [@ EXCEPT !.mixed = TRUE, !.before = NoRows] ELSE @]

\* The scheduler: the last day in the short window, all of them in the wide one.
StartJob(from) ==
    /\ from # 1 => service.parts = "days" /\ from = N
    /\ Begin("job", from, LastPart)
    /\ due' = FALSE
    /\ UNCHANGED <<service, remote, place, table, detail, lock, budget>>

\* An endpoint: the key in Redis keeps others off until it ends, not this run.
Ask ==
    /\ service # CatalogStatus
    /\ Spend("events") /\ ~lock
    /\ lock' = TRUE
    /\ Begin("asked", 1, LastPart)
    /\ UNCHANGED <<service, remote, place, table, detail, due>>

\* A notification: the catalog status of one listing is read anew.
RefreshOne(p) ==
    /\ service = CatalogStatus
    /\ Spend("events")
    /\ Begin("asked", p, p)
    /\ UNCHANGED <<service, remote, place, table, detail, lock, due>>

LockExpires ==
    lock /\ lock' = FALSE /\ UNCHANGED <<service, remote, place, table, detail, run, due, budget>>

\* The job asks for what changed in the last hours, an endpoint for everything.
InPart(r) == {i \in run[r].keys :
                /\ PartOf(i) = run[r].next /\ remote[i] > 0
                /\ service.parts = "recent" /\ r = "job" => place[i] <= Recent}

AfterRead == IF service.details # "none" THEN "detail" ELSE "write"
Following(x) ==
    IF x.next < x.last THEN [x EXCEPT !.at = "read", !.next = @ + 1]
    ELSE [x EXCEPT !.at = IF @ = "store" THEN "idle" ELSE AfterRead,
                   !.complete = Beyond \cap Present = {}]

Stored(rows, got) == [i \in Items |-> IF got[i] # 0 THEN got[i] ELSE rows[i]]

Readings(r) ==
    LET S == InPart(r) IN
    [run[r] EXCEPT !.got = [i \in Items |-> IF i \in S THEN remote[i] ELSE @[i]],
                   !.twice = @ \/ \E i \in S : run[r].got[i] # 0]
ByPart == service.parts = "keys" /\ service.commit = "part"

\* Mutant of Read: what was read is stored page by page.
ReadAndStore(r) ==
    /\ run[r].at = "read"
    /\ Set(r, IF ByPart THEN [Readings(r) EXCEPT !.at = "store"] ELSE Following(Readings(r)))
    /\ table' = IF ByPart THEN table ELSE Stored(table, Readings(r).got)
    /\ UNCHANGED <<service, remote, place, detail, lock, due, budget>>

Read(r) ==
    /\ run[r].at = "read"
    /\ Set(r, IF ByPart THEN [Readings(r) EXCEPT !.at = "store"] ELSE Following(Readings(r)))
    /\ UNCHANGED <<service, remote, place, table, detail, lock, due, budget>>

StorePart(r) ==
    /\ run[r].at = "store"
    /\ table' = Stored(table, run[r].got)
    /\ LET x == Following([run[r] EXCEPT !.got = NoRows])
       IN  Set(r, IF x.at = "idle" THEN Idle ELSE x)
    /\ UNCHANGED <<service, remote, place, detail, lock, due, budget>>

\* A reading fails: the part is left out, or the run ends.
ReadFails(r) ==
    /\ run[r].at = "read" /\ Spend("faults")
    /\ Set(r, IF service.failure = "abort" THEN Idle
              ELSE LET x == Following([run[r] EXCEPT
                                !.unread = @ \cup {i \in Items : PartOf(i) = run[r].next}])
                   IN  IF ByPart /\ x.at # "read" THEN Idle ELSE x)
    /\ UNCHANGED <<service, remote, place, table, detail, lock, due>>

\* Mutant of DetailDue: what has a detail keeps it.
DetailMissing(r, i) == run[r].got[i] # 0 /\ detail[i] = 0

DetailDue(r, i) ==
    run[r].got[i] # 0 /\ (service.details = "all" \/ detail[i] # run[r].got[i])
\* Mutant of Kept: a detail that could not be read is left out.
KeptNot(r, i) == 0

\* The stored detail stands for one that was not read.
Kept(r, i) == detail[i]

\* Details are asked for side by side, and any of them may fail.
ReadDetails(r) ==
    /\ run[r].at = "detail"
    /\ \E failed \in SUBSET {i \in Items : DetailDue(r, i)} :
         /\ failed = {} \/ budget.faults > 0
         /\ budget' = [budget EXCEPT !.faults = IF failed = {} THEN @ ELSE @ - 1]
         /\ Set(r, [run[r] EXCEPT !.at = "write",
                       !.fresh = [i \in Items |->
                           IF run[r].got[i] = 0 THEN 0
                           ELSE IF DetailDue(r, i) /\ i \notin failed /\ remote[i] > 0
                           THEN remote[i] ELSE Kept(r, i)]])
    /\ UNCHANGED <<service, remote, place, table, detail, lock, due>>

\* What a run replaces: the days of its window, or everything.
Replaced(r) == {i \in Items : service.parts = "days" => place[i] >= run[r].from}
Written(r) ==
    IF service.store = "replace"
    THEN [i \in Items |-> IF i \in Replaced(r) THEN run[r].got[i] ELSE table[i]]
    ELSE Stored(table, run[r].got)

\* A thing listed twice is refused by the database, where nothing merges the two;
\* a sheet without a single status is refused too.
Refused(r) == \/ service.twice = "refused" /\ run[r].twice
              \/ service = ManualStatus /\ run[r].got = NoRows

Write(r) ==
    /\ run[r].at = "write" /\ service.commit = "end"
    /\ IF Refused(r)
       THEN Set(r, Idle) /\ UNCHANGED <<table, detail>>
       ELSE /\ table' = Written(r)
            /\ detail' = [i \in Items |-> IF run[r].got[i] # 0 THEN run[r].fresh[i] ELSE detail[i]]
            /\ Set(r, IF service.store = "prune" THEN [run[r] EXCEPT !.at = "prune"] ELSE Idle)
    /\ UNCHANGED <<service, remote, place, lock, due, budget>>

\* The rows of the sheet are stored fifty by fifty: here one by one.
WriteBatch(r) ==
    /\ run[r].at = "write" /\ service.commit = "part"
    /\ \/ \E i \in Items :
             /\ run[r].got[i] # 0
             /\ table' = [table EXCEPT ![i] = run[r].got[i]]
             /\ Set(r, [run[r] EXCEPT !.got[i] = 0])
       \/ run[r].got = NoRows /\ Set(r, Idle) /\ UNCHANGED table
    /\ UNCHANGED <<service, remote, place, detail, lock, due, budget>>

\* Mutant of Complete: no run looks.
CompleteAnyway(r) == run[r].got # NoRows

\* A complete pass, where the service looks, that returned anything.
Complete(r) == (Looks => run[r].complete) /\ run[r].got # NoRows

Prune(r) ==
    /\ run[r].at = "prune"
    /\ Complete(r)
    /\ table' = [i \in Items |-> IF run[r].got[i] # 0 THEN table[i] ELSE 0]
    /\ detail' = [i \in Items |-> IF run[r].got[i] # 0 THEN detail[i] ELSE 0]
    /\ Set(r, Idle)
    /\ UNCHANGED <<service, remote, place, lock, due, budget>>

PruneNothing(r) ==
    /\ run[r].at = "prune" /\ ~Complete(r)
    /\ Set(r, Idle)
    /\ UNCHANGED <<service, remote, place, table, detail, lock, due, budget>>

\* The process ends: with it both runs; Redis keeps the key.
Crash ==
    /\ Spend("faults") /\ \E r \in Runs : Active(r)
    /\ run' = [r \in Runs |-> Idle]
    /\ UNCHANGED <<service, remote, place, table, detail, lock, due>>

Step(r) == \/ Read(r) \/ StorePart(r) \/ ReadDetails(r) \/ Write(r) \/ WriteBatch(r)
           \/ Prune(r) \/ PruneNothing(r)

Next ==
    \/ \E i \in Items : Change(i) \/ Remove(i) \/ \E p \in 1..N + 1 : Move(i, p)
    \/ \E p \in 1..N : StartJob(p) \/ RefreshOne(p)
    \/ HourPasses \/ Ask \/ LockExpires \/ Crash
    \/ \E r \in Runs : Step(r) \/ ReadFails(r)

Spec == Init /\ [][Next]_vars

\* The scheduler starts every job again and again, the wide run of the days too,
\* and the event loop goes on with a run that was started.
FairSpec ==
    /\ Spec
    /\ SF_vars(StartJob(1))
    /\ WF_vars(HourPasses)
    /\ \A r \in Runs : WF_vars(Step(r))

---------------------------------------------------------------------------
\* The rows of a mirror, and the details stored with them.
Versions == 0..MaxVersion
Tables == [Items -> Versions]
Details == [Items -> Versions]

TypeOK ==
    /\ service \in Services
    /\ remote \in [Items -> Versions \cup {Gone}] /\ table \in Tables
    /\ detail \in Details /\ place \in [Items -> 1..Last(service)]
    /\ \A r \in Runs :
         /\ run[r].at \in {"idle", "read", "store", "detail", "write", "prune"}
         /\ run[r].at = "idle" => run[r] = Idle
         /\ run[r].at = "read" => run[r].from <= run[r].next /\ run[r].next <= run[r].last
         /\ run[r].got \in [Items -> Versions] /\ run[r].fresh \in [Items -> Versions]
         /\ service.queued => \A o \in Runs : Active(r) /\ Active(o) => r = o

\* "Drop the channel's listings that a complete pass no longer returned", and what
\* a replacement leaves out: a row is dropped only if the thing was gone at some
\* time during the run, was on no part the run could read, or two runs overlapped.
OnlyGoneDropped ==
    \A i \in Items : table[i] # 0 /\ table'[i] = 0 =>
          \E r \in Runs : run'[r] # run[r]
                          /\ (i \in run[r].gone \cup run[r].unread \/ run[r].mixed)

\* "Any API error aborts before writing": a run that ends without having read
\* everything, where nothing is stored on the way, leaves the table as it was.
FailedRunKeepsTable ==
    \A r \in Runs :
          run[r].at \in {"read", "detail"} /\ run'[r].at = "idle"
          /\ service.commit = "end" /\ ~run[r].mixed => table' = run[r].before

\* "A product whose call fails keeps its stored detail (or none) until the next
\* run": as long as the row is there, its detail is never lost nor made older.
DetailKept ==
    \A i \in Items : table[i] # 0 /\ table'[i] # 0 =>
          detail'[i] >= detail[i] \/ \E r \in Runs : run[r].mixed

\* Once nothing changes and nothing fails, every mirror shows what there is: a run
\* that was cut, overlapped or failed halfway leaves nothing behind for good.  But
\* an update keeps rows of things gone, nothing is read beyond the page limit, and
\* nothing is dropped by a pass that returned nothing.
Settled ==
    \A i \in Items \ Beyond :
        /\ remote[i] > 0 => /\ table[i] = remote[i]
                            /\ service.details # "none" => detail[i] = remote[i]
        /\ remote[i] <= 0 => \/ table[i] = 0 \/ service.store = "upsert"
                            \/ Present \ Beyond = {} \/ (Looks /\ Beyond \cap Present # {})
MirrorSettles == <>[]Settled
=============================================================================
