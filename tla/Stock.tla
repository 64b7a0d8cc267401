-------------------------------- MODULE Stock --------------------------------
(***************************************************************************)
(* The stock of one product between Tiny's books, Mercado Livre's Full      *)
(* warehouse and the mirror: the processing of stock items (deposits, and   *)
(* transfers inferred from deltas) and the refresh of Full stock of         *)
(* services/stock_sync_service.py, the transfer endpoint of                 *)
(* services/fulfillment_transfer_service.py, and the correction of Tiny's   *)
(* Full balance of services/fl_stock_correction_service.py.                 *)
(*                                                                         *)
(* The two queues of stock items have a consumer each; the endpoint, the    *)
(* refresh and the correction run beside them.  A step is one request or    *)
(* one transaction.  What settles the rows is in FulfillmentReception.      *)
(***************************************************************************)
EXTENDS Integers, FiniteSets, FiniteSetsExt

CONSTANTS
    Consumers,     \* of tiny.sync.stock.item and tiny.webhooks.stock
    Ids,           \* primary keys of fulfillment_transfers, given in order
    Kinds,         \* kinds of product of the instance
    Stocked,       \* units in Galpão at first
    Cooldown,      \* COOLDOWN_MAX_MAGNITUDE, in units
    MaxQty,        \* bound: units of a transfer
    Budgets        \* bounds: what may happen in a behaviour, and how often

\* A budget: stock items processed, transfers requested through the endpoint,
\* movements of other people, units that arrive, faults (failed requests and
\* transactions, lost answers), deaths; and whether corrections run.
Bounds == [items : Nat, requests : Nat, events : Nat, arrivals : Nat, faults : Nat,
           crashes : Nat, corrects : BOOLEAN]

ASSUME ParametersAssumption ==
    /\ Ids \subseteq Nat /\ IsFiniteSet(Ids) /\ Kinds \subseteq {"full", "direct", "unlisted", "kit"}
    /\ Stocked \in Nat /\ Cooldown \in Nat /\ MaxQty \in Nat
    /\ Budgets \subseteq Bounds

VARIABLES
    kind,      \* how the product is sold
    tiny,      \* Tiny's balances of the deposits Galpão (g) and Full (f)
    full,      \* units Mercado Livre reports in its warehouse
    way,       \* units shipped that have not arrived
    arrived,   \* units that arrived and no row was credited with
    owed,      \* units sold from Full that Tiny has yet to book out
    busy,      \* an order of the last six hours
    deposit,   \* stock_deposits: balance of the Full row
    snap,      \* tiny_fl_stock_snapshots: the last raw reading, or none
    row,       \* fulfillment_transfers
    hand,      \* consumer -> the item it processes
    request,   \* the request at the transfer endpoint
    sweep,     \* the refresh of Full stock
    pass,      \* the correction pass
    fix,       \* the last applied row of fl_stock_corrections_log, or none
    out,       \* history: units booked out of Galpão
    unread,    \* history: no consumer has recorded the endpoint's last entry
    blame,     \* history: what makes a shipment be booked twice
    left       \* what is left of the budget

books == <<tiny, full, way, arrived, owed, busy>>
tables == <<deposit, snap, row, fix>>
vars == <<kind, tiny, full, way, arrived, owed, busy, deposit, snap, row, hand,
          request, sweep, pass, fix, out, unread, blame, left>>
history == <<out, unread, blame>>

NoReading == [g |-> -1, f |-> -1]
NoFix == [delta |-> 0, age |-> "none"]
NoRow == [status |-> "none", qty |-> 0, got |-> 0, fresh |-> FALSE, src |-> "none"]
Blames == {"rewound", "raced", "late"}

\* passed: another consumer has taken ("read") or recorded ("done") a reading
\* since this one was taken; after: it was taken after the endpoint's last entry.
IdleHand == [step |-> "idle", read |-> NoReading, ml |-> 0, prev |-> NoReading,
             passed |-> "no", after |-> FALSE]
IdleRequest == [step |-> "idle", qty |-> 0]
IdleSweep == [step |-> "idle", ml |-> 0]
IdlePass == [step |-> "idle", ml |-> 0, delta |-> 0]

Readings == [g : Int, f : Int]
Transfers == [status : {"none", "pending", "received", "cancelled"}, qty : Nat,
              got : Nat, fresh : BOOLEAN, src : {"none", "api", "tiny_webhook"}]
Hands == [step : {"idle", "fetch", "store", "previous", "record"}, read : Readings,
          ml : Int, prev : Readings, passed : {"no", "read", "done"}, after : BOOLEAN]

TypeOK ==
    /\ kind \in Kinds
    /\ tiny \in Readings /\ full \in Nat /\ way \in Nat /\ arrived \in Nat
    /\ owed \in Nat /\ busy \in BOOLEAN
    /\ deposit \in Int /\ snap \in Readings
    /\ row \in [Ids -> Transfers]
    /\ hand \in [Consumers -> Hands]
    /\ request \in [step : {"idle", "exit", "entry", "row"}, qty : Nat]
    /\ sweep \in [step : {"idle", "store"}, ml : Int]
    /\ pass \in [step : {"idle", "saldo", "post", "log"}, ml : Int, delta : Int]
    /\ fix \in [delta : Int, age : {"none", "new", "mid"}]
    /\ out \in Nat /\ unread \in BOOLEAN /\ blame \subseteq Blames
    /\ left \in Bounds

Init ==
    /\ kind \in Kinds
    /\ tiny = [g |-> Stocked, f |-> 0]
    /\ full = 0 /\ way = 0 /\ arrived = 0 /\ owed = 0 /\ busy = FALSE
    /\ deposit = 0 /\ snap \in {NoReading, tiny}
    /\ row = [i \in Ids |-> NoRow]
    /\ hand = [c \in Consumers |-> IdleHand]
    /\ request = IdleRequest /\ sweep = IdleSweep /\ pass = IdlePass /\ fix = NoFix
    /\ out = 0 /\ unread = FALSE /\ blame = {}
    /\ left \in Budgets

---------------------------------------------------------------------------
(* Transfers                                                               *)

Pending == {i \in Ids : row[i].status = "pending"}
Free == {i \in Ids : row[i].status = "none"}
Net(i) == row[i].qty - row[i].got
InTransit == SumFunctionOnSet([i \in Ids |-> Net(i)], Pending)

\* Mutant of Create: the units join the row that is pending.
CreateMerged(qty, src) ==
    /\ Free # {}
    /\ row' = IF Pending # {} THEN [row EXCEPT ![Min(Pending)].qty = @ + qty]
              ELSE [row EXCEPT ![Min(Free)] = [status |-> "pending", qty |-> qty, got |-> 0,
                                              fresh |-> TRUE, src |-> src]]

\* create: flush in the caller's transaction.
Create(qty, src) ==
    /\ Free # {}
    /\ row' = [row EXCEPT ![Min(Free)] = [status |-> "pending", qty |-> qty, got |-> 0,
                                          fresh |-> TRUE, src |-> src]]

\* has_recent_pending: created within fl_webhook_delta_idempotency_minutes.
HasRecentPending == \E i \in Pending : row[i].fresh

Fault == left.faults > 0 /\ left' = [left EXCEPT !.faults = @ - 1]

---------------------------------------------------------------------------
(* process_stock_item                                                      *)

At(c, step) == hand[c].step = step
SetHand(c, local) == hand' = [hand EXCEPT ![c] = local]
others == <<request, sweep, pass>>

\* _sum_tiny_fl_available, _sum_tiny_galpao_available.
Floor(x) == IF x < 0 THEN 0 ELSE x

GetStock(c) ==
    /\ At(c, "idle")
    /\ left.items > 0 /\ left' = [left EXCEPT !.items = @ - 1]
    /\ hand' = [d \in Consumers |->
                  IF d = c
                  THEN [IdleHand EXCEPT !.step = "fetch",
                                        !.read = [g |-> Floor(tiny.g), f |-> Floor(tiny.f)],
                                        !.after = TRUE]
                  ELSE IF ~At(d, "idle") /\ hand[d].passed = "no"
                       THEN [hand[d] EXCEPT !.passed = "read"] ELSE hand[d]]
    /\ UNCHANGED <<kind, books, tables, others, history>>

\* _fetch_ml_full_breakdown: without an answer, and for a product without a Full
\* listing, the overlay is zero.
FetchFull(c) ==
    /\ At(c, "fetch")
    /\ \/ SetHand(c, [hand[c] EXCEPT !.step = "store",
                                     !.ml = IF kind = "full" THEN full ELSE 0])
          /\ UNCHANGED left
       \/ SetHand(c, [hand[c] EXCEPT !.step = "store", !.ml = 0]) /\ Fault
    /\ UNCHANGED <<kind, books, tables, others, history>>

\* _overlay_ml_full_deposit and upsert_deposits.
StoreDeposits(c) ==
    /\ At(c, "store")
    /\ deposit' = hand[c].ml
    /\ SetHand(c, [hand[c] EXCEPT !.step = "previous", !.ml = 0])
    /\ UNCHANGED <<kind, books, snap, row, fix, others, history, left>>

ReadSnapshot(c) ==
    /\ At(c, "previous")
    /\ SetHand(c, [hand[c] EXCEPT !.step = "record", !.prev = snap])
    /\ UNCHANGED <<kind, books, tables, others, history, left>>

\* Full grew by new.f - old.f and Galpão fell by at least
\* fl_webhook_galpao_corroboration_ratio (0.8) of that.
Corroborated(old, new) ==
    /\ old # NoReading
    /\ new.f > old.f
    /\ 100 * (old.g - new.g) + 1 >= 80 * (new.f - old.f)

\* sku_logistic_status, and kits hold no stock of their own.
Tracked == kind = "full"

\* The bookkeeping of a recorded reading, and the release of its message.
Recorded(c, infers) ==
    /\ snap' = hand[c].read
    /\ unread' = (unread /\ ~hand[c].after)
    /\ blame' = blame \cup (IF hand[c].passed = "done" THEN {"rewound"} ELSE {})
                      \cup (IF infers /\ request.step \in {"entry", "row"} THEN {"raced"} ELSE {})
    /\ hand' = [d \in Consumers |->
                  IF d = c THEN IdleHand
                  ELSE IF hand[d].passed = "read" THEN [hand[d] EXCEPT !.passed = "done"]
                       ELSE hand[d]]

\* max(fl_delta, galpao_drop).
Shipped(old, new) == Max({new.f - old.f, old.g - new.g})

\* Mutant of RecordDelta: without has_recent_pending.
RecordEvery(c) ==
    /\ At(c, "record")
    /\ LET old == hand[c].prev
           new == hand[c].read
           infers == Corroborated(old, new) /\ Tracked
       IN  /\ Recorded(c, infers)
           /\ IF infers THEN Create(Shipped(old, new), "tiny_webhook") ELSE UNCHANGED row
    /\ UNCHANGED <<kind, books, deposit, fix, others, out, left>>

\* One transaction: the upsert of the snapshot takes the lock of its row, so that
\* what follows sees what another consumer committed before.
RecordDelta(c) ==
    /\ At(c, "record")
    /\ LET old == hand[c].prev
           new == hand[c].read
           infers == Corroborated(old, new) /\ Tracked /\ ~HasRecentPending
       IN  /\ Recorded(c, infers)
           /\ IF infers THEN Create(Shipped(old, new), "tiny_webhook") ELSE UNCHANGED row
    /\ UNCHANGED <<kind, books, deposit, fix, others, out, left>>

\* Mutant of RecordFails: the snapshot is committed before the row.
RecordFailsHalfway(c) ==
    /\ At(c, "record") /\ Fault
    /\ snap' = hand[c].read
    /\ SetHand(c, IdleHand)
    /\ UNCHANGED <<kind, books, deposit, row, fix, others, history>>

\* An error is logged, and the snapshot goes back with the row.
RecordFails(c) ==
    /\ At(c, "record") /\ Fault
    /\ SetHand(c, IdleHand)
    /\ UNCHANGED <<kind, books, tables, others, history>>

\* Tiny or the database refuses: to the dead letters.
ItemFails(c) ==
    /\ \/ At(c, "fetch") \/ At(c, "store")
    /\ Fault
    /\ SetHand(c, IdleHand)
    /\ UNCHANGED <<kind, books, tables, others, history>>

Consume(c) ==
    \/ FetchFull(c) \/ StoreDeposits(c) \/ ReadSnapshot(c) \/ RecordDelta(c)

---------------------------------------------------------------------------
(* transfer_to_full                                                        *)

requesting == <<hand, sweep, pass>>

\* The check against Galpão's balance; with too little, 409.
CheckStock(qty) ==
    /\ request.step = "idle"
    /\ left.requests > 0 /\ left' = [left EXCEPT !.requests = @ - 1]
    /\ qty <= tiny.g
    /\ request' = [step |-> "exit", qty |-> qty]
    /\ UNCHANGED <<kind, books, tables, requesting, history>>

Exit == /\ tiny' = [tiny EXCEPT !.g = @ - request.qty]
        /\ out' = out + request.qty
        /\ UNCHANGED <<hand, unread>>
\* No reading taken so far shows the entry.
Entry == /\ tiny' = [tiny EXCEPT !.f = @ + request.qty]
         /\ hand' = [c \in Consumers |-> [hand[c] EXCEPT !.after = FALSE]]
         /\ unread' = TRUE
         /\ UNCHANGED out

PostExit ==
    /\ request.step = "exit" /\ Exit
    /\ request' = [request EXCEPT !.step = "entry"]
    /\ UNCHANGED <<kind, full, way, arrived, owed, busy, tables, sweep, pass, blame, left>>

PostEntry ==
    /\ request.step = "entry" /\ Entry
    /\ request' = [request EXCEPT !.step = "row"]
    /\ way' = way + request.qty
    /\ UNCHANGED <<kind, full, arrived, owed, busy, tables, sweep, pass, blame, left>>

\* Tiny books the movement, its answer is lost, and the client sends it again.
MovementResent ==
    /\ \/ request.step = "exit" /\ Exit
       \/ request.step = "entry" /\ Entry
    /\ Fault
    /\ UNCHANGED <<kind, full, way, arrived, owed, busy, tables, request, sweep, pass, blame>>

RecordTransfer ==
    /\ request.step = "row"
    /\ Create(request.qty, "api")
    /\ request' = IdleRequest
    /\ UNCHANGED <<kind, books, deposit, snap, fix, requesting, history, left>>

\* A refused movement or insert: 500, and what was posted stays posted.
RequestFails ==
    /\ request.step # "idle" /\ Fault
    /\ request' = IdleRequest
    /\ UNCHANGED <<kind, books, tables, requesting, history>>

Serve == PostExit \/ PostEntry \/ RecordTransfer

---------------------------------------------------------------------------
(* run_ml_fl_only_sync                                                     *)

SweepFetch ==
    /\ sweep.step = "idle" /\ kind = "full" /\ left.corrects
    /\ sweep' = [step |-> "store", ml |-> full]
    /\ UNCHANGED <<kind, books, tables, hand, request, pass, history, left>>

\* upsert_ml_full_deposit.  Without an answer the product is skipped: no step.
SweepStore ==
    /\ sweep.step = "store"
    /\ deposit' = sweep.ml
    /\ sweep' = IdleSweep
    /\ UNCHANGED <<kind, books, snap, row, fix, hand, request, pass, history, left>>

---------------------------------------------------------------------------
(* run_correction                                                          *)

passing == <<hand, request, sweep>>

\* Mutant of LoadCandidate: without what is pending.
LoadBareCandidate ==
    /\ pass.step = "idle" /\ kind = "full" /\ ~busy /\ left.corrects
    /\ pass' = [IdlePass EXCEPT !.step = "saldo", !.ml = deposit]
    /\ UNCHANGED <<kind, books, tables, passing, history, left>>

\* _load_candidates: what Mercado Livre has and what is pending; products with
\* recent orders wait.
LoadCandidate ==
    /\ pass.step = "idle" /\ kind = "full" /\ ~busy /\ left.corrects
    /\ pass' = [IdlePass EXCEPT !.step = "saldo", !.ml = deposit + InTransit]
    /\ UNCHANGED <<kind, books, tables, passing, history, left>>

Abs(x) == IF x < 0 THEN -x ELSE x

\* _is_ping_pong: it would cancel a correction of the last 48 hours.
IsPingPong(delta, recent) ==
    /\ recent # NoFix
    /\ recent.delta * delta < 0
    /\ Abs(recent.delta + delta) <= 1

\* _is_in_cooldown: a small one, within 12 hours of the last.
IsInCooldown(delta, recent) ==
    /\ recent.age = "new"
    /\ Abs(delta) <= Cooldown

\* Aligned, skipped (a row that is not applied), or to be corrected.
ReadSaldo ==
    /\ pass.step = "saldo"
    /\ LET delta == pass.ml - tiny.f IN
       pass' = IF delta = 0 \/ IsPingPong(delta, fix) \/ IsInCooldown(delta, fix)
               THEN IdlePass
               ELSE [pass EXCEPT !.step = "post", !.delta = delta]
    /\ UNCHANGED <<kind, books, tables, passing, history, left>>

\* A balance: Tiny sets the deposit to what the pass loaded.
PostBalance ==
    /\ pass.step = "post"
    /\ tiny' = [tiny EXCEPT !.f = pass.ml]
    /\ pass' = [pass EXCEPT !.step = "log"]
    /\ UNCHANGED <<kind, full, way, arrived, owed, busy, tables, passing, history, left>>

\* The request fails, or is booked and its answer lost: logged as not applied.
PostFails ==
    /\ pass.step = "post" /\ Fault
    /\ tiny' \in {tiny, [tiny EXCEPT !.f = pass.ml]}
    /\ pass' = IdlePass
    /\ UNCHANGED <<kind, full, way, arrived, owed, busy, tables, passing, history>>

LogCorrection ==
    /\ pass.step = "log"
    /\ fix' = [delta |-> pass.delta, age |-> "new"]
    /\ pass' = IdlePass
    /\ UNCHANGED <<kind, books, deposit, snap, row, passing, history, left>>

\* The insert fails: the balance is booked and the log does not know.
LogFails ==
    /\ pass.step = "log" /\ Fault
    /\ pass' = IdlePass
    /\ UNCHANGED <<kind, books, tables, passing, history>>

Correct == LoadCandidate \/ ReadSaldo \/ PostBalance \/ LogCorrection

---------------------------------------------------------------------------
(* What other people and other jobs do                                     *)

running == <<hand, request, sweep, pass>>
Event == left.events > 0 /\ left' = [left EXCEPT !.events = @ - 1]

\* An operator books a transfer in Tiny itself, as two movements; Galpão sells.
LeaveGalpao(qty) ==
    /\ Event /\ qty <= tiny.g
    /\ tiny' = [tiny EXCEPT !.g = @ - qty] /\ out' = out + qty
    /\ UNCHANGED <<kind, full, way, arrived, owed, busy, tables, running, unread, blame>>

EnterFull(qty) ==
    /\ Event
    /\ tiny' = [tiny EXCEPT !.f = @ + qty] /\ way' = way + qty
    /\ UNCHANGED <<kind, full, arrived, owed, busy, tables, running, history>>

\* A cancelled sale returns to Full's books, a purchase to Galpão.
Return ==
    /\ Event
    /\ tiny' \in {[tiny EXCEPT !.f = @ + 1], [tiny EXCEPT !.g = @ + 1]}
    /\ UNCHANGED <<kind, full, way, arrived, owed, busy, tables, running, history>>

SellFromFull ==
    /\ Event /\ full > 0
    /\ full' = full - 1 /\ owed' = owed + 1 /\ busy' = TRUE
    /\ UNCHANGED <<kind, tiny, way, arrived, tables, running, history>>

BookSale ==
    /\ owed > 0
    /\ owed' = owed - 1 /\ tiny' = [tiny EXCEPT !.f = @ - 1]
    /\ UNCHANGED <<kind, full, way, arrived, busy, tables, running, history, left>>

Arrive ==
    /\ way > 0
    /\ left.arrivals > 0 /\ left' = [left EXCEPT !.arrivals = @ - 1]
    /\ way' = way - 1 /\ full' = full + 1 /\ arrived' = arrived + 1
    /\ UNCHANGED <<kind, tiny, owed, busy, tables, running, history>>

\* The reception scan credits what arrived, or cancels rows of which nothing is
\* on its way (FulfillmentReception).
Credited(r) == [r EXCEPT !.got = @ + 1,
                         !.status = IF r.got + 1 = r.qty THEN "received" ELSE @]

CreditRow(i) ==
    /\ i \in Pending /\ ~row[i].fresh /\ arrived > 0
    /\ arrived' = arrived - 1
    /\ row' = [row EXCEPT ![i] = Credited(@)]
    /\ UNCHANGED <<kind, tiny, full, way, owed, busy, deposit, snap, fix, running,
                   history, left>>

DrainRow(i) ==
    /\ i \in Pending /\ ~row[i].fresh /\ way = 0
    /\ row' = [row EXCEPT ![i].status = "cancelled"]
    /\ UNCHANGED <<kind, books, deposit, snap, fix, running, history, left>>

\* Half an hour, half a day or two days go by: far longer than the two statements
\* between ReadSnapshot and RecordDelta.
TimePasses(span) ==
    /\ \A c \in Consumers : ~At(c, "record")
    /\ row' = [i \in Ids |-> [row[i] EXCEPT !.fresh = FALSE]]
    /\ busy' = (busy /\ span = "half hour")
    /\ fix' = IF span = "half hour" THEN fix
              ELSE IF span = "half day" /\ fix.age = "new" THEN [fix EXCEPT !.age = "mid"]
              ELSE NoFix
    /\ blame' = blame \cup (IF unread /\ \E i \in Pending : row[i].fresh /\ row[i].src = "api"
                            THEN {"late"} ELSE {})
    /\ UNCHANGED <<kind, tiny, full, way, arrived, owed, deposit, snap, running, out, unread,
                   left>>

\* The process dies; what the queues held is delivered again.
Crash ==
    /\ left.crashes > 0 /\ left' = [left EXCEPT !.crashes = @ - 1]
    /\ hand' = [c \in Consumers |-> IdleHand]
    /\ request' = IdleRequest /\ sweep' = IdleSweep /\ pass' = IdlePass
    /\ UNCHANGED <<kind, books, tables, history>>

---------------------------------------------------------------------------
Next ==
    \/ \E c \in Consumers : GetStock(c) \/ Consume(c) \/ RecordFails(c) \/ ItemFails(c)
    \/ \E qty \in 1..MaxQty : CheckStock(qty) \/ LeaveGalpao(qty) \/ EnterFull(qty)
    \/ Serve \/ MovementResent \/ RequestFails
    \/ SweepFetch \/ SweepStore
    \/ Correct \/ PostFails \/ LogFails
    \/ Return \/ SellFromFull \/ BookSale \/ Arrive
    \/ \E i \in Ids : CreditRow(i) \/ DrainRow(i)
    \/ \E span \in {"half hour", "half day", "two days"} : TimePasses(span)
    \/ Crash

Spec == Init /\ [][Next]_vars

\* The event loop drives what was begun, the scheduler starts the refresh and the
\* correction again and again, sales get booked, and time passes.
FairSpec ==
    /\ Spec
    /\ \A c \in Consumers : WF_vars(Consume(c))
    /\ WF_vars(Serve) /\ WF_vars(SweepFetch \/ SweepStore) /\ WF_vars(Correct)
    /\ WF_vars(BookSale) /\ WF_vars(TimePasses("two days"))

---------------------------------------------------------------------------
(* Properties                                                              *)

\* No more is booked as being on its way than left Galpão, but for the tolerance
\* of the corroboration (a fifth of the delta; its hundredth of a unit is nothing
\* in whole units): neither the two consumers nor a consumer and the endpoint book
\* a shipment twice.  They do where a reading is recorded after a later one ("rewound"),
\* while the endpoint posts ("raced"), or half an hour after
\* that row ("late").
Booked == {i \in Ids : row[i].status # "none"}
Units == SumFunctionOnSet([i \in Ids |-> row[i].qty], Booked)
BookedLeftGalpao == blame # {} \/ 80 * Units <= 100 * out

\* The snapshot moves on only with the row that its delta calls for, unless a
\* consumer compares with a snapshot that another has replaced: whatever fails, a
\* shipment that was seen is booked or is seen again.
Current(c) == At(c, "record") => hand[c].prev = snap
DeltaNotSwallowed ==
    [][snap' # snap /\ Corroborated(snap, snap') /\ Tracked /\ (\A c \in Consumers : Current(c))
         => row' # row \/ HasRecentPending]_vars

\* Once nothing else moves stock, Tiny's books of Full come to hold what Mercado
\* Livre has and what is pending, and stay so.
BooksSettle == left.corrects /\ kind = "full" => <>[](tiny.f = full + InTransit)

\* The table of transfers keeps the promises of TransferLedger.
Ledger == INSTANCE TransferLedger WITH
    ledger <- [i \in Ids |-> [status |-> row[i].status, qty |-> row[i].qty, got |-> row[i].got]]
LedgerKept == Ledger!Spec
=============================================================================
