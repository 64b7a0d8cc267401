------------------------------ MODULE OrderSync ------------------------------
(***************************************************************************)
(* The mirror of Tiny's orders.  Two jobs put a message on orders.full: the *)
(* incremental one every half hour, the reconciliation at 03:00.  Their     *)
(* consumer lists what Tiny updated since a date and publishes one message  *)
(* per order, claiming a key in Redis so that no order waits twice.  Two    *)
(* consumers fetch and store an order, that of these messages and that of   *)
(* Tiny's webhook.                                                          *)
(*                                                                          *)
(* A step is one request, one Redis command, one publication or one commit. *)
(* Messages about orders are taken in any order.  The counters of sync_logs are *)
(* in SyncLog.                                                              *)
(***************************************************************************)
EXTENDS Integers, Sequences

CONSTANTS
    Orders,       \* ids of orders
    MaxVersion,   \* bound: times an order changes
    Start,        \* the clock at first
    LastChange,   \* bound: the clock, for changes
    MaxNow,       \* bound: the clock
    MaxSent,      \* bound: webhooks Tiny sends
    MaxFailures   \* bound: deaths of the process, and requests, commands and
                  \* commits that fail

ASSUME ParametersAssumption ==
    /\ 0 \notin Orders /\ MaxVersion \in Nat /\ LastChange \in Nat /\ MaxNow \in Nat
    /\ Start \in Nat /\ MaxSent \in Nat /\ MaxFailures \in Nat

VARIABLES
    now,        \* the clock, in steps of the key's TTL
    tiny,       \* order -> its version and situation at Tiny
    updated,    \* order -> dataAtualizacao, the day of its last change
    mirror,     \* order -> the version and situation of its row
    stored,     \* order -> the batches of item rows stored for it
    pending,    \* order -> when its key was set in Redis
    queue,      \* order -> its messages that wait on orders.item
    hooks,      \* order -> its messages that wait on webhooks.orders
    full,       \* messages that wait on orders.full
    fan,        \* the fan-out consumer
    hand,       \* the consumers that store an order
    reconciled, \* day of the last reconciliation job
    sent, lapsed, crashes, faults

source == <<tiny, updated>>
copy == <<mirror, stored>>
broker == <<queue, hooks, full>>
counts == <<sent, lapsed, crashes, faults>>
vars == <<now, source, copy, pending, broker, fan, hand, reconciled, counts>>

\* A day is three steps of three hours: the night before 03:00, the morning and
\* the rest.
StepsPerDay == 3
Day == now \div StepsPerDay
Night == now % StepsPerDay = 0
Morning == now % StepsPerDay = 1

NoKey == -1
Keys == Nat \cup {NoKey}
Nobody == 0
Incremental == -1
Gone == "gone"
Situations == {"open", "cancelled"}
Missing == [version |-> 0, situation |-> Gone]
Copies == [version : 1..MaxVersion, situation : Situations]
Consumers == {"item", "webhook"}
Batches == [version : 1..MaxVersion, by : Consumers]

FanIdle == [step |-> "idle", message |-> Nobody, listed |-> {}, order |-> Nobody]
Idle == [step |-> "idle", order |-> Nobody, copy |-> Missing, at |-> 0, seen |-> {}]

Listings == [order : Orders, situation : Situations]
Fans == [step : {"idle", "list", "filter", "claim", "publish"},
         message : Nat \cup {Incremental}, listed : SUBSET Listings,
         order : Orders \cup {Nobody}]
Hands == [step : {"idle", "release", "fetch", "upsert", "delete", "insert"},
          order : Orders \cup {Nobody}, copy : Copies \cup {Missing}, at : Nat,
          seen : SUBSET Batches]

\* What a consumer is about to publish or to store was listed or fetched.
FanOK == fan \in Fans /\ (fan.step = "publish" => fan.order \in Orders)
HandOK ==
    /\ hand \in [Consumers -> Hands]
    /\ \A c \in Consumers :
         /\ hand[c].step # "idle" => hand[c].order \in Orders
         /\ hand[c].step \in {"upsert", "delete", "insert"} => hand[c].copy \in Copies

TypeOK ==
    /\ FanOK /\ HandOK
    /\ now \in Nat /\ reconciled \in Nat
    /\ tiny \in [Orders -> Copies \cup [version : 1..MaxVersion, situation : {Gone}] \cup {Missing}]
    /\ updated \in [Orders -> Nat]
    /\ mirror \in [Orders -> Copies \cup {Missing}]
    /\ stored \in [Orders -> SUBSET Batches]
    /\ pending \in [Orders -> Keys]
    /\ queue \in [Orders -> Nat] /\ hooks \in [Orders -> Nat]
    /\ full \in Seq(Nat \cup {Incremental})
    /\ sent \in 0..MaxSent /\ lapsed \in BOOLEAN
    /\ crashes \in Nat /\ faults \in Nat /\ crashes + faults <= MaxFailures

Init ==
    /\ now = Start /\ reconciled = IF Night THEN 0 ELSE Day
    /\ tiny = [o \in Orders |-> Missing] /\ updated = [o \in Orders |-> 0]
    /\ mirror = [o \in Orders |-> Missing] /\ stored = [o \in Orders |-> {}]
    /\ pending = [o \in Orders |-> NoKey]
    /\ queue = [o \in Orders |-> 0] /\ hooks = [o \in Orders |-> 0]
    /\ full = <<>> /\ fan = FanIdle /\ hand = [c \in Consumers |-> Idle]
    /\ sent = 0 /\ lapsed = FALSE /\ crashes = 0 /\ faults = 0

Fault ==
    /\ crashes + faults < MaxFailures /\ faults' = faults + 1
    /\ UNCHANGED <<sent, lapsed, crashes>>

---------------------------------------------------------------------------
(* Tiny                                                                    *)

\* An order is created, changes in its situation or in something else, or goes.
\* Tiny may send a webhook with it, and the endpoint put it on the queue.
Change(o) ==
    /\ now <= LastChange /\ tiny[o].version < MaxVersion
    /\ tiny[o].version > 0 => tiny[o].situation # Gone
    /\ \E s \in Situations \cup {Gone} :
         /\ s = Gone => tiny[o].version > 0
         /\ tiny' = [tiny EXCEPT ![o] = [version |-> tiny[o].version + 1, situation |-> s]]
    /\ updated' = [updated EXCEPT ![o] = Day]
    /\ \/ UNCHANGED <<hooks, sent>>
       \/ /\ sent < MaxSent /\ sent' = sent + 1
          /\ hooks' = [hooks EXCEPT ![o] = @ + 1]
    /\ UNCHANGED <<now, copy, pending, queue, full, fan, hand, reconciled, lapsed,
                   crashes, faults>>

---------------------------------------------------------------------------
(* The jobs                                                                *)

\* Its window is that of the hour at which its message is handled, so that one sent
\* while another is at work is one sent later: a bound on the queue.
OrdersSyncJob ==
    /\ full = <<>> /\ fan.step = "idle"
    /\ full' = Append(full, Incremental)
    /\ UNCHANGED <<now, source, copy, pending, queue, hooks, fan, hand, reconciled, counts>>

\* At 03:00, for what was updated since yesterday.
OrdersReconciliationJob ==
    /\ Morning /\ reconciled < Day
    /\ reconciled' = Day
    /\ full' = Append(full, Day - 1)
    /\ UNCHANGED <<now, source, copy, pending, queue, hooks, fan, hand, counts>>

\* The publication fails; the job runs again tomorrow.
ReconciliationFails ==
    /\ Morning /\ reconciled < Day /\ Fault
    /\ reconciled' = Day
    /\ UNCHANGED <<now, source, copy, pending, broker, fan, hand>>

---------------------------------------------------------------------------
(* _fan_out_orders                                                         *)

StartFanOut ==
    /\ fan.step = "idle" /\ full # <<>>
    /\ full' = Tail(full)
    /\ fan' = [FanIdle EXCEPT !.step = "list", !.message = Head(full)]
    /\ UNCHANGED <<now, source, copy, pending, queue, hooks, hand, reconciled, counts>>

\* Two hours ago, or the target date of the message; Tiny takes dates only.
UpdatedAfter ==
    IF fan.message # Incremental THEN {fan.message}
    ELSE IF Night THEN {Day - 1, Day} ELSE {Day}

ListedSince(since) ==
    {r \in Listings : updated[r.order] >= since /\ r.situation = tiny[r.order].situation}

Listed(f, step, listing) == [f EXCEPT !.step = step, !.listed = listing]
Holding(f, step, o) == [f EXCEPT !.step = step, !.order = o]

\* Mutant of ListOrders: the reconciliation leaves out what looks unchanged too.
ListAndFilter ==
    /\ fan.step = "list"
    /\ \E since \in UpdatedAfter :
         fan' = Listed(fan, "filter", ListedSince(since))
    /\ UNCHANGED <<now, source, copy, pending, broker, hand, reconciled, counts>>

ListOrders ==
    /\ fan.step = "list"
    /\ \E since \in UpdatedAfter :
         fan' = Listed(fan, IF fan.message = Incremental THEN "filter" ELSE "claim",
                       ListedSince(since))
    /\ UNCHANGED <<now, source, copy, pending, broker, hand, reconciled, counts>>

FilterNewOrChanged ==
    /\ fan.step = "filter"
    /\ fan' = Listed(fan, "claim",
                     {r \in fan.listed : mirror[r.order].situation # r.situation})
    /\ UNCHANGED <<now, source, copy, pending, broker, hand, reconciled, counts>>

\* The fan-out with the order off its list, and about to publish it.
Without(o) == Listed(fan, "claim", {r \in fan.listed : r.order # o})
Publishing(o) == Holding(Without(o), "publish", o)

\* Mutant of ClaimPending: SET without NX.
ClaimAnyway(o) ==
    /\ fan.step = "claim" /\ \E r \in fan.listed : r.order = o
    /\ pending' = [pending EXCEPT ![o] = now]
    /\ fan' = Publishing(o)
    /\ UNCHANGED <<now, source, copy, broker, hand, reconciled, counts>>

\* SET NX: an order that waits already is left out.
ClaimPending(o) ==
    /\ fan.step = "claim" /\ \E r \in fan.listed : r.order = o
    /\ IF pending[o] = NoKey
       THEN pending' = [pending EXCEPT ![o] = now] /\ fan' = Publishing(o)
       ELSE fan' = Without(o) /\ UNCHANGED pending
    /\ UNCHANGED <<now, source, copy, broker, hand, reconciled, counts>>

\* Redis does not answer: the order is published anyway.
ClaimFails(o) ==
    /\ fan.step = "claim" /\ \E r \in fan.listed : r.order = o
    /\ Fault
    /\ fan' = Publishing(o)
    /\ UNCHANGED <<now, source, copy, pending, broker, hand, reconciled>>

PublishItem ==
    /\ fan.step = "publish"
    /\ queue' = [queue EXCEPT ![fan.order] = @ + 1]
    /\ fan' = Holding(fan, "claim", Nobody)
    /\ UNCHANGED <<now, source, copy, pending, hooks, full, hand, reconciled, counts>>

\* The publication raises, even if the broker took it: the key is released and
\* the fan-out's message dead-lettered.
PublishFails ==
    /\ fan.step = "publish" /\ Fault
    /\ pending' = [pending EXCEPT ![fan.order] = NoKey]
    /\ queue' = queue \/ queue' = [queue EXCEPT ![fan.order] = @ + 1]
    /\ fan' = FanIdle
    /\ UNCHANGED <<now, source, copy, hooks, full, hand, reconciled>>

\* Tiny or the database fails: the fan-out's message is dead-lettered.
FanOutFails ==
    /\ fan.step \in {"list", "filter"} /\ Fault
    /\ fan' = FanIdle
    /\ UNCHANGED <<now, source, copy, pending, broker, hand, reconciled>>

EndFanOut ==
    /\ fan.step = "claim" /\ fan.listed = {}
    /\ fan' = FanIdle
    /\ UNCHANGED <<now, source, copy, pending, broker, hand, reconciled, counts>>

---------------------------------------------------------------------------
(* process_order_item, called by both consumers                            *)

Moved(h, step) == [h EXCEPT !.step = step]
Fetched(h, order) == [h EXCEPT !.step = "upsert", !.copy = order, !.at = now]
Deleting(h, batches) == [h EXCEPT !.step = "insert", !.seen = batches]

Hold(c, o) == hand' = [hand EXCEPT ![c] = [Idle EXCEPT !.step = "release", !.order = o]]

DeliverItem(o) ==
    /\ hand["item"].step = "idle" /\ queue[o] > 0
    /\ queue' = [queue EXCEPT ![o] = @ - 1]
    /\ Hold("item", o)
    /\ UNCHANGED <<now, source, copy, pending, hooks, full, fan, reconciled, counts>>

DeliverWebhook(o) ==
    /\ hand["webhook"].step = "idle" /\ hooks[o] > 0
    /\ hooks' = [hooks EXCEPT ![o] = @ - 1]
    /\ Hold("webhook", o)
    /\ UNCHANGED <<now, source, copy, pending, queue, full, fan, reconciled, counts>>

\* Mutant of ReleasePending: the key is left to its TTL.
ReleaseNothing(c) ==
    /\ hand[c].step = "release"
    /\ hand' = [hand EXCEPT ![c] = Moved(@, "fetch")]
    /\ UNCHANGED <<now, source, copy, pending, broker, fan, reconciled, counts>>

ReleasePending(c) ==
    /\ hand[c].step = "release"
    /\ pending' = [pending EXCEPT ![hand[c].order] = NoKey]
    /\ hand' = [hand EXCEPT ![c] = Moved(@, "fetch")]
    /\ UNCHANGED <<now, source, copy, broker, fan, reconciled, counts>>

\* Redis does not answer: the key is left to its TTL.
ReleaseFails(c) ==
    /\ hand[c].step = "release" /\ Fault
    /\ hand' = [hand EXCEPT ![c] = Moved(@, "fetch")]
    /\ UNCHANGED <<now, source, copy, pending, broker, fan, reconciled>>

\* An order that Tiny does not know any more is left as it is.
GetOrder(c) ==
    /\ hand[c].step = "fetch"
    /\ LET order == tiny[hand[c].order] IN
       hand' = IF order.situation = Gone THEN [hand EXCEPT ![c] = Idle]
               ELSE [hand EXCEPT ![c] = Fetched(@, order)]
    /\ UNCHANGED <<now, source, copy, pending, broker, fan, reconciled, counts>>

Upsert(c) ==
    /\ hand[c].step = "upsert"
    /\ mirror' = [mirror EXCEPT ![hand[c].order] = hand[c].copy]
    /\ hand' = [hand EXCEPT ![c] = Moved(@, "delete")]
    /\ UNCHANGED <<now, source, stored, pending, broker, fan, reconciled, counts>>

\* The DELETE of upsert_items reaches the item rows committed when it starts.
DeleteItems(c) ==
    /\ hand[c].step = "delete"
    /\ hand' = [hand EXCEPT ![c] = Deleting(@, stored[hand[c].order])]
    /\ UNCHANGED <<now, source, copy, pending, broker, fan, reconciled, counts>>

Batch(c) == [version |-> hand[c].copy.version, by |-> c]

\* Mutant of InsertItems: the old rows are not deleted.
InsertOnly(c) ==
    /\ hand[c].step = "insert"
    /\ stored' = [stored EXCEPT ![hand[c].order] = @ \cup {Batch(c)}]
    /\ hand' = [hand EXCEPT ![c] = Idle]
    /\ UNCHANGED <<now, source, mirror, pending, broker, fan, reconciled, counts>>

\* The INSERT, the commit of both, and the acknowledgement.
InsertItems(c) ==
    /\ hand[c].step = "insert"
    /\ stored' = [stored EXCEPT ![hand[c].order] = (@ \ hand[c].seen) \cup {Batch(c)}]
    /\ hand' = [hand EXCEPT ![c] = Idle]
    /\ UNCHANGED <<now, source, mirror, pending, broker, fan, reconciled, counts>>

\* Tiny or the database fails: the message is dead-lettered.
HandleFails(c) ==
    /\ hand[c].step \in {"fetch", "upsert", "delete", "insert"} /\ Fault
    /\ hand' = [hand EXCEPT ![c] = Idle]
    /\ UNCHANGED <<now, source, copy, pending, broker, fan, reconciled>>

---------------------------------------------------------------------------
(* Time and the process                                                    *)

\* A key lives for one step of the clock.
KeyExpires(o) ==
    /\ pending[o] # NoKey /\ pending[o] < now
    /\ pending' = [pending EXCEPT ![o] = NoKey]
    /\ lapsed' = TRUE
    /\ UNCHANGED <<now, source, copy, broker, fan, hand, reconciled, sent, crashes, faults>>

\* From fetching an order to storing it less than a step passes, so that at most
\* one end of a step lies between them.
Tick ==
    /\ now < MaxNow /\ now' = now + 1
    /\ Morning => reconciled = Day
    /\ \A o \in Orders : pending[o] # NoKey => pending[o] = now
    /\ \A c \in Consumers : hand[c].step \in {"upsert", "delete", "insert"} => hand[c].at = now
    /\ UNCHANGED <<source, copy, pending, broker, fan, hand, reconciled, counts>>

\* Messages held go back to their queues; the keys stay.  The process is back
\* before the next job is due.
Crash ==
    /\ crashes + faults < MaxFailures /\ crashes' = crashes + 1
    /\ full' = IF fan.step = "idle" THEN full ELSE <<fan.message>> \o full
    /\ queue' = [o \in Orders |-> IF hand["item"].order = o THEN queue[o] + 1 ELSE queue[o]]
    /\ hooks' = [o \in Orders |-> IF hand["webhook"].order = o THEN hooks[o] + 1 ELSE hooks[o]]
    /\ fan' = FanIdle /\ hand' = [c \in Consumers |-> Idle]
    /\ UNCHANGED <<now, source, copy, pending, reconciled, sent, lapsed, faults>>

FanOutStep ==
    \/ StartFanOut \/ ListOrders \/ FilterNewOrChanged \/ PublishItem \/ EndFanOut
    \/ \E o \in Orders : ClaimPending(o)
ConsumerStep(c) ==
    \/ \E o \in Orders : (c = "item" /\ DeliverItem(o)) \/ (c = "webhook" /\ DeliverWebhook(o))
    \/ ReleasePending(c) \/ GetOrder(c) \/ Upsert(c) \/ DeleteItems(c) \/ InsertItems(c)
Failure ==
    \/ ReconciliationFails \/ PublishFails \/ FanOutFails \/ Crash
    \/ \E o \in Orders : ClaimFails(o)
    \/ \E c \in Consumers : ReleaseFails(c) \/ HandleFails(c)

Next ==
    \/ \E o \in Orders : Change(o) \/ KeyExpires(o)
    \/ OrdersSyncJob \/ OrdersReconciliationJob \/ Tick
    \/ FanOutStep \/ (\E c \in Consumers : ConsumerStep(c)) \/ Failure

Spec == Init /\ [][Next]_vars

---------------------------------------------------------------------------
(* Properties                                                              *)

\* "The TTL only matters if a message is lost": unless the process died or Redis
\* failed, a key stands for a message that waits or is about to be published, so
\* the fan-out that leaves an order out for its key misses nothing.
ClaimBacked ==
    crashes = 0 /\ faults = 0 =>
        \A o \in Orders :
            pending[o] # NoKey =>
                \/ queue[o] > 0
                \/ fan.step = "publish" /\ fan.order = o
                \/ \E c \in Consumers : hand[c].step = "release" /\ hand[c].order = o

\* "Ids already pending on the item queue are never published twice": as long as
\* no webhook, failure or expiry takes a key away from a message that waits.
PublishedOnce ==
    crashes = 0 /\ faults = 0 /\ sent = 0 /\ ~lapsed => \A o \in Orders : queue[o] <= 1

\* The row and the item rows of an order are of one version, the items once,
\* whenever no message for the order waits or is at work and Tiny still knows it,
\* even if the process died between the two commits.
WholeOrder ==
    sent = 0 /\ faults = 0 =>
        \A o \in Orders :
            /\ queue[o] = 0 /\ hand["item"].order # o
            /\ mirror[o] # Missing /\ tiny[o].situation # Gone
            => stored[o] = {[version |-> mirror[o].version, by |-> "item"]}

\* Nothing that concerns the order waits or is at work.
Settled(o) ==
    /\ full = <<>> /\ fan.step = "idle" /\ queue[o] = 0 /\ hooks[o] = 0
    /\ \A c \in Consumers : hand[c].order # o

\* "So cancellations and other status drift the incremental cron cannot see still
\* land in the mirror within ~24h": once the reconciliation of the next day is
\* done, the mirror has the order's last version, whatever consumers overtake each
\* other, however queues lag and although keys make fan-outs leave orders out.
LandsWithinADay ==
    faults = 0 =>
        \A o \in Orders :
            Settled(o) /\ reconciled > updated[o] /\ tiny[o].situation # Gone
            => mirror[o] = tiny[o]

\* The same of a process that does not die.
LandsIfNoCrash == crashes = 0 => LandsWithinADay
=============================================================================
