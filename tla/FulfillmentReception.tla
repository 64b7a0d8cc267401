------------------------ MODULE FulfillmentReception ------------------------
(***************************************************************************)
(* The pending transfers of one SKU to the marketplace's warehouse, and the *)
(* scan that settles them: scan_and_reconcile then drain_stale_phantoms of  *)
(* services/fulfillment_reception_service.py, over the rows of              *)
(* fulfillment_transfers.                                                   *)
(*                                                                          *)
(* The scheduler runs the scan every six hours and an endpoint runs it on   *)
(* demand; nothing keeps the two apart.  A step of a scan is what it does    *)
(* in one database session or one request to the marketplace.               *)
(***************************************************************************)
EXTENDS Integers, FiniteSets, Sequences, FifoMatch

CONSTANTS
    Scans,          \* runners of the scan: the scheduler, the endpoint
    Ids,            \* primary keys of fulfillment_transfers, given in order
    MaxQty,         \* bound: units of a transfer or of an event
    MaxTime,        \* bound: the clock
    Grace,          \* fl_transfer_stale_days, on that clock
    Limit,          \* rows list_all returns at most
    MaxFailures,    \* bound: failed requests and aborted scans
    MaxPhantoms,    \* bound: rows no shipment stands behind
    MaxDelistings   \* bound: times the SKU leaves the Full channel

ASSUME ParametersAssumption ==
    /\ Ids \subseteq Nat /\ IsFiniteSet(Ids) /\ MaxQty \in Nat /\ MaxTime \in Nat /\ Grace \in Nat
    /\ Limit \in Nat \ {0}
    /\ MaxFailures \in Nat /\ MaxPhantoms \in Nat /\ MaxDelistings \in Nat

VARIABLES
    now,      \* the clock
    row,      \* fulfillment_transfers: id -> row
    events,   \* inbound events the marketplace lists, in order
    transit,  \* units shipped that have not arrived
    listed,   \* the SKU is on the Full channel
    scan,     \* runner -> the scan it is in and its local variables
    failures, phantoms, delistings

bounds == <<failures, phantoms, delistings>>
vars == <<now, row, events, transit, listed, scan, failures, phantoms, delistings>>

Times == 0..MaxTime
Rows == [status : {"none", "pending", "received", "cancelled"}, qty : 0..MaxQty,
         at : Times, got : 0..MaxQty, last : Times]
NoRow == [status |-> "none", qty |-> 0, at |-> 0, got |-> 0, last |-> Never]
Events == [at : Times, qty : 1..MaxQty]

Steps == {"idle", "select", "cancel", "read", "fetch", "apply", "drain",
          "stock", "settle"}

\* doomed: rows selected for cancellation; seen: the rows read, by id; evs: the
\* events fetched, by their place among all; cutoff: start of the grace window;
\* sourced: an inventory was found; stock: units the marketplace shows in transfer.
Idle == [step |-> "idle", doomed |-> {}, seen |-> <<>>, evs |-> <<>>,
         cutoff |-> 0, sourced |-> FALSE, stock |-> 0]

Net(r) == r.qty - r.got
Stale(s, r) == r.at < s.cutoff

\* A step that indexes its rows or its events has some.
Loaded(s) ==
    /\ s.step \in {"fetch", "apply"} => DOMAIN s.seen # {}
    /\ s.step = "apply" => DOMAIN s.evs # {}
    /\ s.step \in {"stock", "settle"} =>
         \E i \in DOMAIN s.seen : Stale(s, s.seen[i]) /\ Net(s.seen[i]) > 0

\* Types, and no step works on rows or events that its scan did not find.
TypeOK ==
    /\ now \in Times
    /\ row \in [Ids -> Rows]
    /\ transit \in Nat /\ listed \in BOOLEAN
    /\ \A i \in DOMAIN events : events[i] \in Events
    /\ DOMAIN scan = Scans
    /\ \A s \in Scans :
         /\ scan[s].step \in Steps /\ scan[s].doomed \subseteq Ids
         /\ DOMAIN scan[s].seen \subseteq Ids
         /\ \A i \in DOMAIN scan[s].seen : scan[s].seen[i] \in Rows
         /\ DOMAIN scan[s].evs \subseteq DOMAIN events
         /\ \A k \in DOMAIN scan[s].evs : scan[s].evs[k] = events[k]
         /\ scan[s].cutoff \in Int /\ scan[s].stock \in Nat
         /\ Loaded(scan[s])
    /\ failures \in 0..MaxFailures /\ phantoms \in 0..MaxPhantoms
    /\ delistings \in 0..MaxDelistings

Init ==
    /\ now = 0 /\ row = [i \in Ids |-> NoRow]
    /\ events = <<>> /\ transit = 0 /\ listed = TRUE
    /\ scan = [s \in Scans |-> Idle]
    /\ failures = 0 /\ phantoms = 0 /\ delistings = 0

---------------------------------------------------------------------------
(* The table                                                               *)

Pending == {i \in Ids : row[i].status = "pending"}

\* list_all(status="pending", limit): the youngest (no two are of one time).
Listing(ids) ==
    LET Younger(i) == {j \in ids : row[j].at > row[i].at}
    IN  [i \in {i \in ids : Cardinality(Younger(i)) < Limit} |-> row[i]]

\* Mutant of Received: complete only on the exact unit.
ReceivedExact(r, units, at) ==
    [r EXCEPT !.got = Min({r.qty, r.got + units}), !.last = at,
              !.status = IF r.got + units = r.qty THEN "received" ELSE @]

\* apply_partial_reception: one UPDATE on the row as it is now.
Received(r, units, at) ==
    [r EXCEPT !.got = Min({r.qty, r.got + units}), !.last = at,
              !.status = IF r.got + units >= r.qty THEN "received" ELSE @]

\* The SKU has an inventory on the Full channel, its own or a kit's.
Sourced == listed

\* mark_cancelled: whatever the row has become.
Cancelled(ids) == [i \in Ids |-> IF i \in ids
                                 THEN [row[i] EXCEPT !.status = "cancelled"]
                                 ELSE row[i]]

---------------------------------------------------------------------------
(* scan_and_reconcile                                                      *)

At(s, step) == scan[s].step = step
Set(s, local) == scan' = [scan EXCEPT ![s] = local]
Goto(s, step) == Set(s, [Idle EXCEPT !.step = step])
world == <<now, events, transit, listed>>

Start(s) ==
    /\ At(s, "idle")
    /\ Goto(s, "select")
    /\ UNCHANGED <<world, row, bounds>>

\* Mutant of SelectNonFulfillment: without ft.status = 'pending'.
SelectEveryStatus(s) ==
    /\ At(s, "select")
    /\ LET doomed == {i \in Ids : row[i].status # "none" /\ ~listed} IN
       Set(s, IF doomed = {} THEN [Idle EXCEPT !.step = "read"]
              ELSE [Idle EXCEPT !.step = "cancel", !.doomed = doomed])
    /\ UNCHANGED <<world, row, bounds>>

\* Pending rows of a SKU with no Full channel can never arrive.
SelectNonFulfillment(s) ==
    /\ At(s, "select")
    /\ LET doomed == IF listed THEN {} ELSE Pending IN
       Set(s, IF doomed = {} THEN [Idle EXCEPT !.step = "read"]
              ELSE [Idle EXCEPT !.step = "cancel", !.doomed = doomed])
    /\ UNCHANGED <<world, row, bounds>>

CancelNonFulfillment(s) ==
    /\ At(s, "cancel")
    /\ row' = Cancelled(scan[s].doomed)
    /\ Goto(s, "read")
    /\ UNCHANGED <<world, bounds>>

\* No rows, or no inventory to ask about: nothing to reconcile.
ReadPending(s) ==
    /\ At(s, "read")
    /\ LET seen == Listing(Pending) IN
       Set(s, IF DOMAIN seen = {} \/ ~Sourced THEN [Idle EXCEPT !.step = "drain"]
              ELSE [Idle EXCEPT !.step = "fetch", !.seen = seen])
    /\ UNCHANGED <<world, row, bounds>>

\* _fetch_inbound_events: the units that arrived from a seller since then.
InboundSince(time) == [k \in {k \in DOMAIN events : events[k].at >= time} |-> events[k]]

Since(seen) == {seen[i].at : i \in DOMAIN seen}

\* Mutant of FetchEvents: since the first row of the listing, the youngest.
FetchSinceYoungest(s) ==
    /\ At(s, "fetch")
    /\ LET seen == scan[s].seen
           evs == InboundSince(Max(Since(seen)))
       IN  Set(s, IF DOMAIN evs = {} THEN [Idle EXCEPT !.step = "drain"]
                  ELSE [Idle EXCEPT !.step = "apply", !.seen = seen, !.evs = evs])
    /\ UNCHANGED <<world, row, bounds>>

\* Every inbound event since the oldest row read.
FetchEvents(s) ==
    /\ At(s, "fetch")
    /\ LET seen == scan[s].seen
           evs == InboundSince(Min(Since(seen)))
       IN  Set(s, IF DOMAIN evs = {} THEN [Idle EXCEPT !.step = "drain"]
                  ELSE [Idle EXCEPT !.step = "apply", !.seen = seen, !.evs = evs])
    /\ UNCHANGED <<world, row, bounds>>

\* The request fails: the SKU is left for the next scan, the job goes on.
FetchFails(s) ==
    /\ At(s, "fetch") /\ failures < MaxFailures
    /\ failures' = failures + 1
    /\ Goto(s, "drain")
    /\ UNCHANGED <<world, row, phantoms, delistings>>

\* The decisions of Match that credit something, in one transaction.
Apply(s) ==
    /\ At(s, "apply")
    /\ LET decisions == Match(scan[s].seen, scan[s].evs)
       IN  row' = [i \in Ids |->
                     IF i \in DOMAIN decisions /\ decisions[i].delta > 0
                     THEN Received(row[i], decisions[i].delta, decisions[i].last)
                     ELSE row[i]]
    /\ Goto(s, "drain")
    /\ UNCHANGED <<world, bounds>>

---------------------------------------------------------------------------
(* drain_stale_phantoms                                                    *)

DrainRead(s) ==
    /\ At(s, "drain")
    /\ LET local == [Idle EXCEPT !.seen = Listing(Pending), !.cutoff = now - Grace,
                                 !.sourced = Sourced]
           stale == {i \in DOMAIN local.seen : Stale(local, local.seen[i])
                                               /\ Net(local.seen[i]) > 0}
       IN  Set(s, IF stale = {} THEN Idle ELSE [local EXCEPT !.step = "stock"])
    /\ UNCHANGED <<world, row, bounds>>

\* What the marketplace shows in transfer is part of what is on its way: it
\* never shows the units a seller has announced but not handed over.
Shown(s) == IF s.sourced THEN 0..transit ELSE {0}

ReadStock(s) ==
    /\ At(s, "stock")
    /\ \E shown \in Shown(scan[s]) :
         Set(s, [scan[s] EXCEPT !.step = "settle", !.stock = shown])
    /\ UNCHANGED <<world, row, bounds>>

\* The request fails: nothing is cancelled.
StockFails(s) ==
    /\ At(s, "stock") /\ scan[s].sourced /\ failures < MaxFailures
    /\ failures' = failures + 1
    /\ Set(s, Idle)
    /\ UNCHANGED <<world, row, phantoms, delistings>>

\* What the rows of S lack, as they were read.
NetOf(seen, S) == SumFunctionOnSet([i \in DOMAIN seen |-> Net(seen[i])], S)

\* Mutant of Kept: the net of every row counts, not only of the recent ones.
KeptAll(s) == s.stock + NetOf(s.seen, DOMAIN s.seen)

\* What a drain keeps: the units in transfer and the rows of the grace window.
Kept(s) == s.stock + NetOf(s.seen, {i \in DOMAIN s.seen : ~Stale(s, s.seen[i])})

DrainStep(s, i, acc) ==
    IF acc.net > Kept(s) /\ Stale(s, s.seen[i]) /\ Net(s.seen[i]) > 0
    THEN [net |-> acc.net - Net(s.seen[i]), ids |-> acc.ids \cup {i}]
    ELSE acc

\* Whole stale rows, oldest first, until the net is no more than what is kept.
Drained(s) ==
    MapThenFoldSet(LAMBDA i, acc : DrainStep(s, i, acc),
                   [net |-> NetOf(s.seen, DOMAIN s.seen), ids |-> {}],
                   LAMBDA i : i, LAMBDA S : Latest(s.seen, S), DOMAIN s.seen).ids

DrainApply(s) ==
    /\ At(s, "settle")
    /\ row' = Cancelled(Drained(scan[s]))
    /\ Set(s, Idle)
    /\ UNCHANGED <<world, bounds>>

\* An exception no step catches, or the death of the process: the session of
\* the step under way is rolled back.
Abort(s) ==
    /\ ~At(s, "idle") /\ failures < MaxFailures
    /\ failures' = failures + 1
    /\ Set(s, Idle)
    /\ UNCHANGED <<world, row, phantoms, delistings>>

---------------------------------------------------------------------------
(* Around the scan                                                         *)

\* The clock keeps room for what is on its way to arrive unit by unit, and for
\* the grace window of a new row.
Room(units) == now + transit + units < MaxTime

NewRow(qty) ==
    /\ Room(qty + Grace + 1)
    /\ now' = now + 1
    /\ \E i \in Ids :
         /\ row[i].status = "none"
         /\ \A j \in Ids : j < i => row[j].status # "none"
         /\ row' = [row EXCEPT ![i] = [status |-> "pending", qty |-> qty,
                                       at |-> now + 1, got |-> 0, last |-> Never]]

Ship(qty) ==
    /\ NewRow(qty)
    /\ transit' = transit + qty
    /\ UNCHANGED <<events, listed, scan, bounds>>

\* A row that no shipment stands behind (a deposit that grew for other reasons).
RecordPhantom(qty) ==
    /\ NewRow(qty) /\ phantoms < MaxPhantoms
    /\ phantoms' = phantoms + 1
    /\ UNCHANGED <<events, transit, listed, scan, failures, delistings>>

Arrive(qty) ==
    /\ qty <= transit
    /\ now' = now + 1
    /\ transit' = transit - qty
    /\ events' = Append(events, [at |-> now + 1, qty |-> qty])
    /\ UNCHANGED <<row, listed, scan, bounds>>

Delist ==
    /\ listed /\ delistings < MaxDelistings
    /\ listed' = FALSE /\ delistings' = delistings + 1
    /\ UNCHANGED <<now, row, events, transit, scan, failures, phantoms>>

Relist ==
    /\ ~listed /\ listed' = TRUE
    /\ UNCHANGED <<now, row, events, transit, scan, bounds>>

Tick ==
    /\ Room(0) /\ now' = now + 1
    /\ UNCHANGED <<row, events, transit, listed, scan, bounds>>

Continue(s) ==
    \/ SelectNonFulfillment(s) \/ CancelNonFulfillment(s) \/ ReadPending(s)
    \/ FetchEvents(s) \/ FetchFails(s) \/ Apply(s)
    \/ DrainRead(s) \/ ReadStock(s) \/ StockFails(s) \/ DrainApply(s)

Next ==
    \/ \E s \in Scans : Start(s) \/ Continue(s) \/ Abort(s)
    \/ \E qty \in 1..MaxQty : Ship(qty) \/ RecordPhantom(qty) \/ Arrive(qty)
    \/ Delist \/ Relist \/ Tick

\* The scheduler starts a scan again and again and the event loop drives it (a
\* scan can always take a step, so that it goes on taking some is its weak
\* fairness); time passes and what was shipped arrives in the end.
Fairness ==
    /\ \A s \in Scans : []<><<scan'[s] # scan[s]>>_vars
    /\ WF_vars(Tick) /\ WF_vars(\E qty \in 1..MaxQty : Arrive(qty))

Spec == Init /\ [][Next]_vars
FairSpec == Spec /\ Fairness

---------------------------------------------------------------------------
(* Properties                                                              *)

Units(S) == SumFunctionOnSet(Quantities(events), S)

\* However scans overlap, the columns of a row agree: it is received exactly
\* when its units are all credited, and pending only while some are missing.
Ledger ==
    \A i \in Ids :
        LET r == row[i] IN
        /\ r.got <= r.qty
        /\ r.status = "received" => r.got = r.qty
        /\ r.status = "pending" => r.got < r.qty

\* "events at or before the last credited timestamp were already counted in a
\* prior run": no event is credited to a row twice, so a row never has more
\* units than arrived since it was recorded.
RowCreditedOnce ==
    \A i \in Ids :
        row[i].got <= Units({k \in DOMAIN events : events[k].at >= row[i].at})

\* The same over all rows: no unit that arrived settles two of them ("per-SKU
\* FIFO matching ... the distinct events never double-credit").
EventCreditedOnce ==
    SumFunctionOnSet([i \in Ids |-> row[i].got], Ids) <= Units(DOMAIN events)

\* A settled row stays as it is ("Cancel a pending transfer").
FinalStatus ==
    [][\A i \in Ids : row[i].status \in {"received", "cancelled"}
                        => row'[i].status = row[i].status]_vars

\* "every genuinely-arrived transfer has already left the pending pool and only
\* never-materialised rows remain": where every row was shipped, the SKU never
\* leaves the Full channel and no request fails, a row whose units have arrived is
\* not drained.
ArrivedNotDrained ==
    [][\A s \in Scans :
         At(s, "settle") /\ phantoms = 0 /\ delistings = 0 /\ failures = 0 =>
             row' = row \/ transit > 0]_vars

\* "Self-heals each run": no row stays pending for ever; its units arrive and
\* are credited, or a drain gives it up.
PendingSettled ==
    \A i \in Ids : row[i].status = "pending" ~> row[i].status # "pending"
=============================================================================
