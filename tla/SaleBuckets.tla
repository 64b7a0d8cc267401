----------------------------- MODULE SaleBuckets -----------------------------
(***************************************************************************)
(* Sale buckets: what was sold per day and SKU, computed from the mirrored  *)
(* orders.  A refresh deletes the rows of its period, reads the orders,     *)
(* their lines and the catalog, and inserts what they add up to; a kit also *)
(* counts as units of its component.  Refreshes are messages on one queue,  *)
(* sent daily for all days, by the incremental order sync for today, after  *)
(* it published the orders that changed, and by the webhook's consumer for  *)
(* the day of the order it stored.  The consumer of single orders sends none.*)
(*                                                                          *)
(* Fetching an order is one step; a message that waits already is not told  *)
(* apart from a second one; sales channels, all alike, are left out.        *)
(***************************************************************************)
EXTENDS Integers, FiniteSets

CONSTANTS
    Orders,       \* ids of orders
    Old,          \* a bound: those stored long ago, which change no more
    Budgets       \* bound: changes without and with a webhook, failures, lost connections and deaths;
                  \* and whether nothing failed so far

Days == {1, 2}
Today == 2
Skus == {"kit", "part"}
Price(sku) == IF sku = "kit" THEN 3 ELSE 1
None == "none"

VARIABLES
    tiny,         \* order -> its day, situation and SKU at Tiny
    heads,        \* order -> day and situation of its row
    lines,        \* order -> the SKU of its item row
    units,        \* the catalog: units of the part in a kit, 0 before they are known
    due, hooks,   \* orders that wait on orders.item and on webhooks.orders
    queue,        \* periods that wait on buckets.refresh
    hand,         \* the consumers that store an order
    run,          \* the refresh of the consumer, and one whose connection was lost
    buckets,      \* key -> what was sold
    silent,       \* history: days changed with no refresh announced since
    left          \* what is left of the budget

mirror == <<heads, lines>>
waiting == <<due, hooks>>
vars == <<tiny, mirror, units, waiting, queue, hand, run, buckets, silent, left>>

Situations == {"open", "cancelled"}
Versions == {[day |-> 2, situation |-> "open", sku |-> "part"],
             [day |-> 2, situation |-> "cancelled", sku |-> "kit"],
             [day |-> 2, situation |-> "open", sku |-> "kit"],
             [day |-> 1, situation |-> "open", sku |-> "kit"]}
NoVersion == [day |-> 0, situation |-> None, sku |-> None]
Head(v) == [day |-> v.day, situation |-> v.situation]
Consumers == {"item", "webhook"}
Resting == [step |-> "idle", order |-> 0, version |-> NoVersion]
Runs == {"current", "lost"}
Off == [step |-> "off", period |-> {}, heads |-> <<>>, lines |-> <<>>, units |-> 0]
Keys == [day : Days, sku : Skus, kit : {None, "kit"}]

\* The rows: an order's head, its line, the components of the kit, the buckets.
Heads == {Head(v) : v \in Versions \cup {NoVersion}}
Lines == Skus \cup {None}
Components == 0..2
BucketRows == [units : Nat, revenue : Nat]

TypeOK ==
    /\ tiny \in [Orders -> Versions \cup {NoVersion}]
    /\ heads \in [Orders -> Heads] /\ lines \in [Orders -> Lines] /\ units \in Components
    /\ due \subseteq Orders /\ hooks \subseteq Orders /\ queue \subseteq SUBSET Days
    /\ DOMAIN hand = Consumers /\ DOMAIN run = Runs
    /\ DOMAIN buckets \subseteq Keys /\ \A k \in DOMAIN buckets : buckets[k] \in BucketRows
    /\ silent \subseteq Days

\* Old orders are open, of today, and of a kit whose parts are not known.
OldVersion == [day |-> Today, situation |-> "open", sku |-> "kit"]
FromOld(old, new) == [o \in Orders |-> IF o \in Old THEN old ELSE new]
OldKey == [day |-> Today, sku |-> "kit", kit |-> None]
OldBucket == [units |-> Cardinality(Old), revenue |-> Price("kit") * Cardinality(Old)]

Init ==
    /\ tiny = FromOld(OldVersion, NoVersion)
    /\ heads = FromOld(Head(OldVersion), Head(NoVersion)) /\ lines = FromOld("kit", None)
    /\ units = 0 /\ due = {} /\ hooks = {} /\ queue = {}
    /\ hand = [c \in Consumers |-> Resting] /\ run = [r \in Runs |-> Off]
    /\ buckets = [k \in {OldKey} |-> OldBucket] /\ silent = {} /\ left \in Budgets

Spend(kind) == left[kind] > 0 /\ left' = [left EXCEPT ![kind] = @ - 1]
Fail(kind) == left[kind] > 0 /\ left' = [left EXCEPT ![kind] = @ - 1, !.calm = FALSE]

---------------------------------------------------------------------------
(* Orders and their mirror                                                 *)

\* Tiny may send a webhook with it.
Change(o) ==
    /\ \E v \in Versions : tiny' = [tiny EXCEPT ![o] = v]
    /\ \/ Spend("changes") /\ UNCHANGED hooks
       \/ Spend("hooked") /\ hooks' = hooks \cup {o}
    /\ UNCHANGED <<mirror, units, due, queue, hand, run, buckets, silent>>

\* A sync of the products learns what the kit is made of.
LearnKit ==
    /\ units = 0 /\ Spend("kits") /\ units' = 2
    /\ silent' = Days
    /\ UNCHANGED <<tiny, mirror, waiting, queue, hand, run, buckets>>

Unmirrored(o) == tiny[o] # NoVersion /\ (Head(tiny[o]) # heads[o] \/ tiny[o].sku # lines[o])
NewOrChanged(o) == tiny[o].situation # heads[o].situation

\* A bound: a job's message sent while others wait or are at work is one sent later.
Free == queue = {} /\ run["current"] = Off

\* run_incremental_sync: the refresh is published when the orders only wait.
Incremental ==
    /\ Free
    /\ due' = due \cup {o \in Orders : NewOrChanged(o)}
    /\ queue' = queue \cup {{Today}}
    /\ UNCHANGED <<tiny, mirror, units, hooks, hand, run, buckets, silent, left>>

IncrementalFails ==
    /\ Free /\ Fail("faults")
    /\ due' = due \cup {o \in Orders : NewOrChanged(o)}
    /\ UNCHANGED <<tiny, mirror, units, hooks, queue, hand, run, buckets, silent>>

\* An order that is stored as it is would only be stored again.
Reconcile ==
    /\ due' = due \cup {o \in Orders : Unmirrored(o)}
    /\ UNCHANGED <<tiny, mirror, units, hooks, queue, hand, run, buckets, silent, left>>

Fetched(c, o) == hand' = [hand EXCEPT ![c] = [step |-> "head", order |-> o, version |-> tiny[o]]]

Deliver(c, o) ==
    /\ hand[c] = Resting /\ Fetched(c, o)
    /\ IF c = "item" THEN o \in due /\ due' = due \ {o} /\ UNCHANGED hooks
       ELSE o \in hooks /\ hooks' = hooks \ {o} /\ UNCHANGED due
    /\ UNCHANGED <<tiny, mirror, units, queue, run, buckets, silent, left>>

\* Days that change and that the webhook's consumer will not announce.
Unannounced(c, o, day) ==
    IF c = "item" THEN {heads[o].day, day} \cap Days ELSE ({heads[o].day} \ {day}) \cap Days

StoreHead(c) ==
    LET o == hand[c].order
        v == hand[c].version
    IN  /\ hand[c].step = "head"
        /\ heads' = [heads EXCEPT ![o] = Head(v)]
        /\ silent' = silent \cup Unannounced(c, o, v.day)
        /\ hand' = [hand EXCEPT ![c].step = "lines"]
        /\ UNCHANGED <<tiny, lines, units, waiting, queue, run, buckets, left>>

StoreLines(c) ==
    LET o == hand[c].order IN
    /\ hand[c].step = "lines"
    /\ lines' = [lines EXCEPT ![o] = hand[c].version.sku]
    /\ IF c = "item"
       THEN silent' = silent \cup {heads[o].day} /\ hand' = [hand EXCEPT ![c] = Resting]
       ELSE hand' = [hand EXCEPT ![c].step = "announce"] /\ UNCHANGED silent
    /\ UNCHANGED <<tiny, heads, units, waiting, queue, run, buckets, left>>

\* Mutant of Announce: the refresh is of today.
AnnounceToday ==
    /\ hand["webhook"].step = "announce"
    /\ queue' = queue \cup {{Today}}
    /\ hand' = [hand EXCEPT !["webhook"] = Resting]
    /\ UNCHANGED <<tiny, mirror, units, waiting, run, buckets, silent, left>>

\* Read back: the day of the row.
Announce ==
    /\ hand["webhook"].step = "announce"
    /\ queue' = queue \cup {{heads[hand["webhook"].order].day}}
    /\ hand' = [hand EXCEPT !["webhook"] = Resting]
    /\ UNCHANGED <<tiny, mirror, units, waiting, run, buckets, silent, left>>

\* The publication fails: the message is dead-lettered, the order is stored.
AnnounceFails ==
    /\ hand["webhook"].step = "announce" /\ Fail("faults")
    /\ hand' = [hand EXCEPT !["webhook"] = Resting]
    /\ UNCHANGED <<tiny, mirror, units, waiting, queue, run, buckets, silent>>

---------------------------------------------------------------------------
(* Refreshes                                                               *)

\* Mutant of SaleBucketsRefreshJob: of today only.
RefreshToday ==
    /\ Free
    /\ queue' = queue \cup {{Today}}
    /\ UNCHANGED <<tiny, mirror, units, waiting, hand, run, buckets, silent, left>>

SaleBucketsRefreshJob ==
    /\ Free
    /\ queue' = queue \cup {Days}
    /\ UNCHANGED <<tiny, mirror, units, waiting, hand, run, buckets, silent, left>>

Take(period) ==
    /\ period \in queue /\ run["current"] = Off
    /\ queue' = queue \ {period}
    /\ run' = [run EXCEPT !["current"] = [Off EXCEPT !.step = "delete", !.period = period]]
    /\ UNCHANGED <<tiny, mirror, units, waiting, hand, buckets, silent, left>>

Outside(period) == {k \in DOMAIN buckets : k.day \notin period}

\* Committed before the orders are read.
DeletePeriod(r) ==
    /\ run[r].step = "delete"
    /\ buckets' = [k \in Outside(run[r].period) |-> buckets[k]]
    /\ silent' = silent \ run[r].period
    /\ run' = [run EXCEPT ![r].step = "heads"]
    /\ UNCHANGED <<tiny, mirror, units, waiting, queue, hand, left>>

ReadHeads(r) ==
    /\ run[r].step = "heads"
    /\ run' = [run EXCEPT ![r] = [@ EXCEPT !.step = "lines", !.heads = heads]]
    /\ UNCHANGED <<tiny, mirror, units, waiting, queue, hand, buckets, silent, left>>

\* The lines, and then the types and parts of their products.
ReadLines(r) ==
    /\ run[r].step = "lines"
    /\ run' = [run EXCEPT ![r] = [@ EXCEPT !.step = "insert", !.lines = lines, !.units = units]]
    /\ UNCHANGED <<tiny, mirror, units, waiting, queue, hand, buckets, silent, left>>

Counted(task) ==
    {o \in Orders : /\ task.heads[o].day \in task.period
                    /\ task.heads[o].situation # "cancelled" /\ task.lines[o] # None}

Direct(task, o) == [day |-> task.heads[o].day, sku |-> task.lines[o], kit |-> None]
Expansion(task, o) == [day |-> task.heads[o].day, sku |-> "part", kit |-> "kit"]
Expands(task, o) == task.lines[o] = "kit" /\ task.units > 0

\* The accumulator: expansions carry no revenue.
Accumulated(task) ==
    LET orders == Counted(task)
        kits == {o \in orders : Expands(task, o)}
        Sold(key) ==
            LET direct == {o \in orders : Direct(task, o) = key}
                within == {o \in kits : Expansion(task, o) = key}
            IN  [units |-> Cardinality(direct) + task.units * Cardinality(within),
                 revenue |-> Price(key.sku) * Cardinality(direct)]
    IN  [key \in {Direct(task, o) : o \in orders} \cup {Expansion(task, o) : o \in kits}
            |-> Sold(key)]

\* ON CONFLICT DO NOTHING: the first row stays.
Insert(r) ==
    /\ run[r].step = "insert"
    /\ LET new == Accumulated(run[r]) IN
       buckets' = [k \in DOMAIN buckets \cup DOMAIN new |->
                      IF k \in DOMAIN buckets THEN buckets[k] ELSE new[k]]
    /\ run' = [run EXCEPT ![r] = Off]
    /\ UNCHANGED <<tiny, mirror, units, waiting, queue, hand, silent, left>>

\* The database fails: the message is dead-lettered, the period stays deleted.
RefreshFails(r) ==
    /\ run[r] # Off /\ Fail("faults")
    /\ run' = [run EXCEPT ![r] = Off]
    /\ UNCHANGED <<tiny, mirror, units, waiting, queue, hand, buckets, silent>>

\* The connection is lost: the message comes again while its refresh goes on.
LoseConnection ==
    /\ run["current"] # Off /\ run["lost"] = Off /\ Fail("losses")
    /\ queue' = queue \cup {run["current"].period}
    /\ run' = [current |-> Off, lost |-> run["current"]]
    /\ UNCHANGED <<tiny, mirror, units, waiting, hand, buckets, silent>>

Crash ==
    /\ Fail("losses")
    /\ queue' = queue \cup ({run["current"].period} \ {{}})
    /\ due' = due \cup {o \in Orders : hand["item"].order = o}
    /\ hooks' = hooks \cup {o \in Orders : hand["webhook"].order = o}
    /\ hand' = [c \in Consumers |-> Resting] /\ run' = [r \in Runs |-> Off]
    /\ UNCHANGED <<tiny, mirror, units, buckets, silent>>

Refresh(r) == DeletePeriod(r) \/ ReadHeads(r) \/ ReadLines(r) \/ Insert(r)
Store(c) == StoreHead(c) \/ StoreLines(c) \/ (c = "webhook" /\ Announce)
Deliveries == \E c \in Consumers, o \in Orders : Deliver(c, o)

Next ==
    \/ LearnKit \/ Incremental \/ IncrementalFails \/ Reconcile
    \/ \E o \in Orders \ Old : Change(o)
    \/ Deliveries \/ (\E c \in Consumers : Store(c)) \/ AnnounceFails
    \/ SaleBucketsRefreshJob \/ (\E p \in SUBSET Days : Take(p))
    \/ (\E r \in Runs : Refresh(r) \/ RefreshFails(r)) \/ LoseConnection \/ Crash

---------------------------------------------------------------------------
(* Properties                                                              *)

\* What was sold of a SKU on a day, by itself and within kits, as the stored orders
\* and the buckets say.
Open(day, sku) ==
    {o \in Orders : heads[o] = [day |-> day, situation |-> "open"] /\ lines[o] = sku}
Demand(day, sku) ==
    Cardinality(Open(day, sku)) + IF sku = "part" THEN units * Cardinality(Open(day, "kit")) ELSE 0
Row(day, sku, kit) ==
    LET key == [day |-> day, sku |-> sku, kit |-> kit]
    IN  IF key \in DOMAIN buckets THEN buckets[key] ELSE [units |-> 0, revenue |-> 0]
Shown(day) ==
    \A sku \in Skus :
        LET alone == Row(day, sku, None)
            within == Row(day, sku, "kit")
        IN  /\ alone.units + within.units = Demand(day, sku)
            /\ alone.revenue + within.revenue = Price(sku) * Cardinality(Open(day, sku))

\* Whatever the webhook's consumer stored is shown, or a refresh of its day waits
\* or is at work, or is about to be announced, although the refresh reads orders,
\* lines and catalog one after another while orders are stored; as long as
\* nothing failed.
Announcing(day) ==
    /\ hand["webhook"] # Resting
    /\ day \in {hand["webhook"].version.day, heads[hand["webhook"].order].day}
AnnouncedShown ==
    left.calm => \A day \in Days \ silent :
        \/ Shown(day) \/ (\E p \in queue : day \in p) \/ day \in run["current"].period
        \/ Announcing(day)

\* Whatever fails, when nothing is at work the buckets are, in the end, what the
\* orders at Tiny add up to.
AtRest ==
    /\ queue = {} /\ due = {} /\ hooks = {}
    /\ \A c \in Consumers : hand[c] = Resting
    /\ \A r \in Runs : run[r] = Off
AddsUp == AtRest => /\ \A o \in Orders : ~Unmirrored(o)
                    /\ \A day \in Days : Shown(day)
=============================================================================
