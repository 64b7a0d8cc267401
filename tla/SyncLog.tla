------------------------------- MODULE SyncLog -------------------------------
(***************************************************************************)
(* The bookkeeping of a sync run: a row of sync_logs, the message that      *)
(* starts the fan-out, the item messages it publishes, and the consumers    *)
(* that count them.  Four kinds of run share it and differ in how they      *)
(* count: products, orders, history (orders of a range of dates) and stock. *)
(*                                                                          *)
(* A step is what is done up to one commit, one publication or one request. *)
(* A delivered message is held by its consumer until it is acknowledged and *)
(* goes back to its queue when the process dies.  Messages of a run are     *)
(* interchangeable, so a queue is the number of them that each run has.     *)
(***************************************************************************)
EXTENDS Integers

CONSTANTS
    Services,     \* the kinds of run, one of them in each behaviour
    Logs,         \* primary keys of sync_logs
    MaxItems,     \* bound: items that a fan-out finds
    MaxCrashes,   \* bound: deaths of the process
    MaxFaults     \* bound: publications and commits that fail

ASSUME ParametersAssumption ==
    /\ Services \subseteq {"products", "orders", "history", "stock"}
    /\ 0 \notin Logs
    /\ MaxItems \in Nat /\ MaxCrashes \in Nat /\ MaxFaults \in Nat

VARIABLES
    service,  \* the kind of run
    log,      \* sync_logs: id -> row
    trigger,  \* id -> what the job or endpoint that created the row does next
    full,     \* runs whose fan-out message waits in the queue
    fan,      \* the fan-out consumer, which holds one message
    items,    \* id -> its item messages that wait in the queue
    item,     \* the item consumer, which holds one message
    skipped,  \* id -> items acknowledged without being counted
    dropped,  \* id -> items dead-lettered without being counted
    unfanned, \* runs whose fan-out message was dead-lettered or never sent
    crashes, faults

vars == <<service, log, trigger, full, fan, items, item, skipped, dropped,
          unfanned, crashes, faults>>

NotRecorded == -1
Nobody == 0

Rows == [status : {"none", "running", "completed", "failed"},
         processed : Nat, failed : Nat, total : Nat \cup {NotRecorded}]
NoRow == [status |-> "none", processed |-> 0, failed |-> 0, total |-> NotRecorded]

\* sent: items published so far.  ok: the item was written.
FanIdle == [step |-> "idle", log |-> Nobody, sent |-> 0]
ItemIdle == [step |-> "idle", log |-> Nobody, ok |-> FALSE]

\* The item consumer holds a message of l that it has not counted yet.
Uncounted(l) == item.log = l /\ item.step \in {"fetch", "write", "count"}

\* Types, and a consumer works on a run that was triggered.
TypeOK ==
    /\ service \in Services /\ log \in [Logs -> Rows]
    /\ trigger \in [Logs -> {"none", "publish", "fail", "done"}]
    /\ full \subseteq Logs /\ unfanned \subseteq Logs
    /\ items \in [Logs -> Nat] /\ skipped \in [Logs -> Nat]
    /\ dropped \in [Logs -> Nat]
    /\ crashes \in 0..MaxCrashes /\ faults \in 0..MaxFaults
    /\ \/ fan = FanIdle
       \/ fan \in [step : {"publish", "record", "finalize"}, log : Logs, sent : 0..MaxItems]
    /\ \/ item = ItemIdle
       \/ item \in [step : {"fetch", "write", "count", "finalize"}, log : Logs, ok : BOOLEAN]
    /\ \A l \in Logs :
         /\ log[l].status = "none" <=> trigger[l] = "none"
         /\ l \in full \/ fan.log = l \/ items[l] > 0 \/ item.log = l
                => trigger[l] \in {"fail", "done"}

Init ==
    /\ service \in Services
    /\ log = [l \in Logs |-> NoRow]
    /\ trigger = [l \in Logs |-> "none"]
    /\ full = {} /\ fan = FanIdle
    /\ items = [l \in Logs |-> 0] /\ item = ItemIdle
    /\ skipped = [l \in Logs |-> 0] /\ dropped = [l \in Logs |-> 0]
    /\ unfanned = {} /\ crashes = 0 /\ faults = 0

---------------------------------------------------------------------------
(* The row                                                                 *)

\* Mutant of Finalizable: without status = 'running'.
FinalizableAgain(r) == r.total # NotRecorded /\ r.processed + r.failed >= r.total

\* Mutant of Finalizable: a total not recorded yet counts as zero.
FinalizableEarly(r) == r.status = "running" /\ r.processed + r.failed >= r.total

Finalizable(r) ==
    /\ r.status = "running" /\ r.total # NotRecorded
    /\ r.processed + r.failed >= r.total

\* try_finalize, one UPDATE.
TryFinalize(l) ==
    log' = IF Finalizable(log[l]) THEN [log EXCEPT ![l].status = "completed"] ELSE log

\* increment_processed, increment_failed.
Increment(l, ok) ==
    log' = IF ok THEN [log EXCEPT ![l].processed = @ + 1]
                 ELSE [log EXCEPT ![l].failed = @ + 1]

---------------------------------------------------------------------------
(* The job or endpoint that triggers the run                               *)

CreateSyncLog(l) ==
    /\ trigger[l] = "none"
    /\ log' = [log EXCEPT ![l].status = "running"]
    /\ trigger' = [trigger EXCEPT ![l] = "publish"]
    /\ UNCHANGED <<service, full, fan, items, item, skipped, dropped, unfanned,
                   crashes, faults>>

Publish(l) ==
    /\ trigger[l] = "publish"
    /\ trigger' = [trigger EXCEPT ![l] = "done"]
    /\ full' = full \cup {l}
    /\ UNCHANGED <<service, log, fan, items, item, skipped, dropped, unfanned,
                   crashes, faults>>

\* The publication raises, even if the broker took the message.  A job goes on to
\* mark the row; an endpoint answers with an error and leaves it.
PublishFails(l) ==
    /\ trigger[l] = "publish" /\ faults < MaxFaults
    /\ faults' = faults + 1
    /\ \E next \in {"fail", "done"} : trigger' = [trigger EXCEPT ![l] = next]
    /\ \/ full' = full \cup {l} /\ UNCHANGED unfanned
       \/ unfanned' = unfanned \cup {l} /\ UNCHANGED full
    /\ UNCHANGED <<service, log, fan, items, item, skipped, dropped, crashes>>

\* update_sync_log_failed, whatever the row has become.
UpdateSyncLogFailed(l) ==
    /\ trigger[l] = "fail"
    /\ trigger' = [trigger EXCEPT ![l] = "done"]
    /\ log' = [log EXCEPT ![l] = [@ EXCEPT !.status = "failed", !.processed = 0, !.failed = 0]]
    /\ UNCHANGED <<service, full, fan, items, item, skipped, dropped, unfanned,
                   crashes, faults>>

---------------------------------------------------------------------------
(* The fan-out                                                             *)

StartFanOut(l) ==
    /\ fan.step = "idle" /\ l \in full
    /\ full' = full \ {l}
    /\ fan' = [step |-> "publish", log |-> l, sent |-> 0]
    /\ UNCHANGED <<service, log, trigger, items, item, skipped, dropped, unfanned,
                   crashes, faults>>

PublishItem ==
    /\ fan.step = "publish" /\ fan.sent < MaxItems
    /\ items' = [items EXCEPT ![fan.log] = @ + 1]
    /\ fan' = [fan EXCEPT !.sent = @ + 1]
    /\ UNCHANGED <<service, log, trigger, full, item, skipped, dropped, unfanned,
                   crashes, faults>>

\* The last page.  A range of dates shares its row with other ranges and leaves
\* the total to nobody.
EndFanOut ==
    /\ fan.step = "publish"
    /\ fan' = IF service = "history" THEN FanIdle ELSE [fan EXCEPT !.step = "record"]
    /\ UNCHANGED <<service, log, trigger, full, items, item, skipped, dropped,
                   unfanned, crashes, faults>>

RecordTotalEnqueued ==
    /\ fan.step = "record"
    /\ log' = [log EXCEPT ![fan.log].total = fan.sent]
    /\ fan' = [fan EXCEPT !.step = "finalize"]
    /\ UNCHANGED <<service, trigger, full, items, item, skipped, dropped, unfanned,
                   crashes, faults>>

\* Mutant of FinalizeFanOut: the row is left to the items.
LeaveToItems ==
    /\ fan.step = "finalize"
    /\ fan' = FanIdle
    /\ UNCHANGED <<service, log, trigger, full, items, item, skipped, dropped,
                   unfanned, crashes, faults>>

\* The items may all have been counted before the total was known.
FinalizeFanOut ==
    /\ fan.step = "finalize"
    /\ TryFinalize(fan.log)
    /\ fan' = FanIdle
    /\ UNCHANGED <<service, trigger, full, items, item, skipped, dropped, unfanned,
                   crashes, faults>>

\* A listing, a publication or a commit fails: the message is dead-lettered.
FanOutFails ==
    /\ fan.step # "idle"
    /\ unfanned' = unfanned \cup {fan.log}
    /\ fan' = FanIdle
    /\ UNCHANGED <<service, log, trigger, full, items, item, skipped, dropped,
                   crashes, faults>>

---------------------------------------------------------------------------
(* The items                                                               *)

Deliver(l) ==
    /\ item.step = "idle" /\ items[l] > 0
    /\ items' = [items EXCEPT ![l] = @ - 1]
    /\ item' = [step |-> "fetch", log |-> l, ok |-> FALSE]
    /\ UNCHANGED <<service, log, trigger, full, fan, skipped, dropped, unfanned,
                   crashes, faults>>

Fetch ==
    /\ item.step = "fetch"
    /\ item' = [item EXCEPT !.step = "write"]
    /\ UNCHANGED <<service, log, trigger, full, fan, items, skipped, dropped,
                   unfanned, crashes, faults>>

\* Not in Tiny any more (for stock also: its product is not mirrored yet): the
\* message is acknowledged and nothing is counted.
FetchNotFound ==
    /\ item.step = "fetch"
    /\ skipped' = [skipped EXCEPT ![item.log] = @ + 1]
    /\ item' = ItemIdle
    /\ UNCHANGED <<service, log, trigger, full, fan, items, dropped, unfanned,
                   crashes, faults>>

\* The message is dead-lettered before it was counted: the request or the
\* counter's commit fails, or an order's write fails in the database, which
\* aborts the transaction the counter would be bumped in.
Drop ==
    /\ \/ item.step \in {"fetch", "count"}
       \/ item.step = "write" /\ service \in {"orders", "history"}
    /\ dropped' = [dropped EXCEPT ![item.log] = @ + 1]
    /\ item' = ItemIdle
    /\ UNCHANGED <<service, log, trigger, full, fan, items, skipped, unfanned,
                   crashes, faults>>

\* The write succeeds, or fails in a way that lets the failure be counted.
Write ==
    /\ item.step = "write"
    /\ \E ok \in BOOLEAN : item' = [item EXCEPT !.step = "count", !.ok = ok]
    /\ UNCHANGED <<service, log, trigger, full, fan, items, skipped, dropped,
                   unfanned, crashes, faults>>

Count ==
    /\ item.step = "count"
    /\ Increment(item.log, item.ok)
    /\ item' = [item EXCEPT !.step = "finalize"]
    /\ UNCHANGED <<service, trigger, full, fan, items, skipped, dropped, unfanned,
                   crashes, faults>>

\* Mutant of FinalizeItem: a message whose item failed is put back.
FinalizeItemRequeues ==
    /\ item.step = "finalize"
    /\ TryFinalize(item.log)
    /\ items' = IF item.ok THEN items ELSE [items EXCEPT ![item.log] = @ + 1]
    /\ item' = ItemIdle
    /\ UNCHANGED <<service, trigger, full, fan, skipped, dropped, unfanned,
                   crashes, faults>>

\* And the message is acknowledged or, when its item failed, dead-lettered.
FinalizeItem ==
    /\ item.step = "finalize"
    /\ TryFinalize(item.log)
    /\ item' = ItemIdle
    /\ UNCHANGED <<service, trigger, full, fan, items, skipped, dropped, unfanned,
                   crashes, faults>>

\* The commit fails: the message, counted, is dead-lettered.
FinalizeItemFails ==
    /\ item.step = "finalize" /\ faults < MaxFaults
    /\ faults' = faults + 1
    /\ item' = ItemIdle
    /\ UNCHANGED <<service, log, trigger, full, fan, items, skipped, dropped,
                   unfanned, crashes>>

---------------------------------------------------------------------------
(* The watchdog and the process                                            *)

\* The row has been running for longer than the limit, which any slow run may.
MarkStalledAsFailed(l) ==
    /\ log[l].status = "running"
    /\ log' = [log EXCEPT ![l].status = "failed"]
    /\ UNCHANGED <<service, trigger, full, fan, items, item, skipped, dropped,
                   unfanned, crashes, faults>>

\* Messages held go back to their queues, jobs under way are forgotten.
Crash ==
    /\ crashes < MaxCrashes
    /\ crashes' = crashes + 1
    /\ full' = full \cup ({fan.log} \ {Nobody})
    /\ fan' = FanIdle
    /\ items' = [l \in Logs |-> IF item.log = l THEN items[l] + 1 ELSE items[l]]
    /\ item' = ItemIdle
    /\ trigger' = [l \in Logs |-> IF trigger[l] = "none" THEN "none" ELSE "done"]
    /\ unfanned' = unfanned \cup {l \in Logs : trigger[l] = "publish"}
    /\ UNCHANGED <<service, log, skipped, dropped, faults>>

TriggerStep(l) ==
    CreateSyncLog(l) \/ Publish(l) \/ PublishFails(l) \/ UpdateSyncLogFailed(l)
FanOutStep ==
    \/ \E l \in Logs : StartFanOut(l)
    \/ PublishItem \/ EndFanOut \/ RecordTotalEnqueued \/ FinalizeFanOut \/ FanOutFails
ItemStep ==
    \/ \E l \in Logs : Deliver(l)
    \/ Fetch \/ FetchNotFound \/ Drop \/ Write \/ Count \/ FinalizeItem
    \/ FinalizeItemFails

Next ==
    \/ \E l \in Logs : TriggerStep(l) \/ MarkStalledAsFailed(l)
    \/ FanOutStep \/ ItemStep \/ Crash

\* The event loop runs every job to its end and the broker delivers what waits.
\* Nothing is assumed of the watchdog.
Fairness ==
    /\ \A l \in Logs : WF_vars(TriggerStep(l))
    /\ WF_vars(FanOutStep) /\ WF_vars(ItemStep)

Spec == Init /\ [][Next]_vars
FairSpec == Spec /\ Fairness

---------------------------------------------------------------------------
(* Properties                                                              *)

\* Without crashes or faults every item that a fan-out published is in exactly
\* one place: waiting, held, counted, or gone uncounted.
Accounted ==
    crashes = 0 /\ faults = 0 =>
        \A l \in Logs :
            log[l].total # NotRecorded =>
                log[l].processed + log[l].failed + items[l] + skipped[l] + dropped[l]
                    + (IF Uncounted(l) THEN 1 ELSE 0) = log[l].total

\* "Mark a running sync_log as 'completed' once every fanned-out item has been
\* processed or failed": none of a completed run still waits or is held uncounted.
CompletedMeansDone ==
    \A l \in Logs :
        log[l].status = "completed" =>
            items[l] = 0 /\ ~Uncounted(l) /\ l \notin full

\* The same as long as the broker delivers nothing twice, publications and commits
\* that fail included: completion comes after the last item, whichever of the
\* fan-out and the items is slower.
CompletedUnlessRedelivered == crashes = 0 => CompletedMeansDone

\* A run that ended stays as it ended: late items do not complete a run that the
\* watchdog gave up ("the status filter excludes it"), redelivered ones neither.
\* (A job whose publication failed in doubt may still mark its row.)
FinalStatus ==
    [][\A l \in Logs : faults = 0 /\ log[l].status \in {"completed", "failed"}
                         => log'[l].status = log[l].status]_vars

\* Whatever the order of the fan-out's last step and of its items' ("the
\* per-item finalizer never runs"), a run none of whose messages or commits got
\* lost ends without the watchdog, deaths of the process included.
EveryRunEnds ==
    \A l \in Logs :
        log[l].status = "running" ~>
            \/ log[l].status # "running"
            \/ skipped[l] > 0 \/ dropped[l] > 0 \/ l \in unfanned \/ faults > 0
            \/ service = "history"
=============================================================================
