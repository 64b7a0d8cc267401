---------------------------- MODULE MCAlgorithms ----------------------------
(* The pure functions over small inputs, against what they should compute: a  *)
(* task is one call, and one step computes its answer.                        *)
EXTENDS FifoMatch, Calibration

CONSTANTS MaxTransfers, MaxEvents, MaxUnits, MaxInstant, MaxPromos

ASSUME CallsAssumption ==
    /\ MaxTransfers \in Nat /\ MaxEvents \in Nat /\ MaxUnits \in Nat
    /\ MaxInstant \in Nat /\ MaxPromos \in Nat

VARIABLES task, answer
calls == <<task, answer>>

Task(kind, of) == [kind |-> kind, of |-> of]
Unanswered == [at |-> 0]

---------------------------------------------------------------------------
(* Matching: rows as the ledger leaves them, pending, and credited only by an *)
(* event that is not older than the row; as list_all returns them, youngest   *)
(* first.                                                                     *)
Instants == 1..MaxInstant
Transfers == {t \in [at : Instants, qty : 1..MaxUnits, got : 0..MaxUnits,
                last : {Never} \cup Instants] :
           t.got < t.qty /\ (t.got = 0 <=> t.last = Never)
                         /\ (t.last # Never => t.last >= t.at)}
Listed(s) == \A i, j \in DOMAIN s : i < j => s[i].at >= s[j].at
ToMatch == {[transfers |-> s, events |-> e] :
                s \in {s \in SeqOf(Transfers, MaxTransfers) : Listed(s)},
                e \in SeqOf([at : Instants, qty : 1..MaxUnits], MaxEvents)}

---------------------------------------------------------------------------
(* Prices about the edge at R$ 79.00 that the code names.                     *)
Freight(low, high) == <<[min |-> 0, max |-> 7899, cost |-> low],
                        [min |-> 7900, max |-> None, cost |-> high]>>
Stepped == <<[min |-> 0, max |-> 7899, cost |-> 650], [min |-> 7900, max |-> 9999, cost |-> 1135],
             [min |-> 10000, max |-> None, cost |-> 2095]>>
Dip == <<[min |-> 0, max |-> 7899, pct |-> 1700], [min |-> 7900, max |-> 14999, pct |-> 1400],
         [min |-> 15000, max |-> None, pct |-> 1700]>>
Fees == [cost : {2000, 3333, 5000, 6100}, commission : {1150, 1650, 8500},
         freight : {Stepped} \cup {Freight(l, h) : l \in {0, 1000}, h \in {500, 2000}},
         bands : {<<>>, Dip}]

OfListing(fees, list, discount) ==
    [error |-> FALSE, fees |-> fees, list |-> list, discount |-> discount]
Listings == {OfListing(f, l, d) : f \in Fees, l \in {7500, 9000, 18000}, d \in {None, 1000, 2000}}

---------------------------------------------------------------------------
(* Promotions of each of the shapes the API gives them.                       *)
Promo == [status |-> "candidate", type |-> "DEAL", id |-> 1, price |-> None, original |-> 10000,
          min |-> None, max |-> None, suggested |-> None, fixed |-> None, seller |-> None,
          meli |-> 0]
Running == {[Promo EXCEPT !.status = "started", !.price = p, !.original = o, !.meli = m] :
               p \in {7900, 8500}, o \in {10000, 11000}, m \in {0, 800}}
Offered ==
    {[Promo EXCEPT !.min = l, !.max = h, !.suggested = s] :
        l \in {7000, 8200}, h \in {None, 8000}, s \in {None, 7895}}
    \cup {[Promo EXCEPT !.suggested = 8000], [Promo EXCEPT !.fixed = 1500],
          [Promo EXCEPT !.type = "LIGHTNING", !.price = 6000, !.min = 5000],
          [Promo EXCEPT !.type = "SMART", !.price = 7950, !.seller = 1500, !.meli = 550],
          [Promo EXCEPT !.type = "SMART", !.seller = 2000, !.meli = 300],
          [Promo EXCEPT !.price = 8400], [Promo EXCEPT !.original = None]}
Promos == SeqOf(Running \cup Offered, MaxPromos)
Books == [list |-> 10000, promo |-> None, freight |-> Freight(500, 900)]

Deciding == {[promos |-> p, costs |-> <<Books>>, cap |-> c, margin |-> m] :
               p \in Promos, c \in {0, 1800, 2500}, m \in {None, 7895, 8100}}
\* A listing as it is stored, and its calibration, if there is one.
Stored(logistic) ==
    [error |-> FALSE, logistic |-> logistic, list |-> 10000, discount |-> 2000,
     fees |-> [cost |-> 5000, commission |-> 1150, bands |-> <<>>, freight |-> Freight(500, 900)]]
Calibration == [commission |-> 1650, freight |-> <<>>, below |-> 600, above |-> 1400, bands |-> Dip]
Recomputing == {[promos |-> p, snap |-> Stored(l), calib |-> c] :
                  p \in Promos, l \in {"unknown", "fulfillment", "flex"}, c \in {<<>>, <<Calibration>>}}

---------------------------------------------------------------------------
(* Snapshots of two products' listings; a snapshot may lack its product.      *)
SnapOf(mlb, sku, error) ==
    [mlb |-> mlb, sku |-> sku, error |-> error, list |-> 10000,
     fees |-> [cost |-> IF error THEN None ELSE 5000, commission |-> 1150,
               freight |-> Freight(500, 900), bands |-> <<>>]]
Mlbs == {"m1", "m2", "m3"}
Skus == {"s", "t", "none"}
Twins == {[snaps |-> s, active |-> {[mlb |-> m, sku |-> sku[m]] : m \in Mlbs}] :
            s \in {s \in SeqOf({SnapOf(m, k, e) : m \in Mlbs, k \in Skus, e \in BOOLEAN}, 2) :
                     \A i, j \in DOMAIN s : i # j => s[i].mlb # s[j].mlb},
            sku \in [Mlbs -> Skus]}

---------------------------------------------------------------------------
(* Probes about the edges that the code names, answered or not, and two       *)
(* listings to calibrate.                                                     *)
ProbePrices == <<15000, 17500, 20000, 25000, 30000>>
Probes == {[i \in DOMAIN ProbePrices |-> [price |-> ProbePrices[i], pct |-> p[i]]] :
             p \in [DOMAIN ProbePrices -> {None, 50, 1400, 1700}]}
Brackets == <<[min |-> 0, max |-> 7899], [min |-> 7900, max |-> 9999],
              [min |-> 10000, max |-> 19999], [min |-> 20000, max |-> None]>>
Freights == {[i \in DOMAIN Brackets |->
                [min |-> Brackets[i].min, max |-> Brackets[i].max, cost |-> c[i]]] :
               c \in [DOMAIN Brackets -> {None, 500, 900}]}

ListingOf(mlb, logistic, active, quote, rates, known) ==
    [mlb |-> mlb, logistic |-> logistic, active |-> active, quote |-> quote, rates |-> rates,
     commissions |-> IF known THEN Dip ELSE <<>>, freights |-> IF known THEN Stepped ELSE <<>>]
Calibrating == {<<ListingOf("m1", l, a, q, r, k), ListingOf("m2", m, TRUE, q2, <<>>, k2)>> :
                  l \in {"unknown", "fulfillment", "flex"}, a \in BOOLEAN, q \in {None, 700},
                  r \in {<<>>, <<1500>>, <<1700, 1400>>}, k \in BOOLEAN,
                  m \in {"fulfillment", "flex"}, q2 \in {None, 900}, k2 \in BOOLEAN}

---------------------------------------------------------------------------
Ask ==
    /\ answer = Unanswered
    /\ \/ \E m \in ToMatch : task = Task("match", m)
       \/ \E f \in Fees : task = Task("floor", f)
       \/ \E s \in Listings : task = Task("cap", s)
       \/ \E d \in Deciding : task = Task("decide", d)
       \/ \E r \in Recomputing : task = Task("recompute", r)
       \/ \E t \in Twins : task = Task("inherit", t)
       \/ \E p \in Probes : task = Task("commission", p)
       \/ \E f \in Freights : task = Task("freight", f)
       \/ \E c \in Calibrating : task = Task("calibrate", c)

Answer(kind, value) ==
    answer = Unanswered /\ task.kind = kind /\ answer' = [at |-> 1, is |-> value] /\ UNCHANGED task

DecisionOn(d) == DecideForItem(d.promos, d.costs, d.cap, d.margin, {}, FALSE)

\* A recomputation, and then a decision on the same promotions.
AfterRecompute(promos, snap, calib) ==
    LET cap == CapOf(snap, calib, <<promos>>)
    IN  DecideForItem(promos, <<Books>>, cap.cap, cap.floor, {}, FALSE)

Compute ==
    \/ Answer("match", Match(task.of.transfers, task.of.events))
    \/ Answer("floor", Floors(task.of, MinMargin))
    \/ Answer("cap", CapOfSheet(task.of))
    \/ Answer("decide", DecisionOn(task.of))
    \/ Answer("recompute", AfterRecompute(task.of.promos, task.of.snap, task.of.calib))
    \/ Answer("inherit", Inherited(task.of.snaps, task.of.active))
    \/ Answer("commission", CommissionBands(task.of))
    \/ Answer("freight", FreightBands(task.of))
    \/ Answer("calibrate", Recalibrated(task.of))

CallsSpec == Ask /\ [][Compute]_calls

Answered(kind) == task.kind = kind /\ answer # Unanswered

---------------------------------------------------------------------------
\* target_price_for_min_margin_pct, "the lowest price that still yields" the
\* margin: it does, no price of a grid below it does, and where it finds none no
\* price of the grid does, although bands of freight and of commission start and
\* end at different prices.  (Cents are rounded: Slack hundredths of a percent.)
Grid == {100 * i : i \in 1..200}
Slack == 3
FloorIsLowest ==
    Answered("floor") =>
        /\ answer.is # {} => MarginPct(Min(answer.is), task.of) >= MinMargin - Slack
        /\ \A p \in Grid : (answer.is = {} \/ p < Min(answer.is))
                               => MarginPct(p, task.of) < MinMargin + Slack

\* "with the 10% margin protection intact": a listing's cap without active promotions lets its price fall to
\* one with less than the minimum margin only where a band that starts between the
\* solver's floor and that price takes the margin back.
OnlyBandsEatMargin ==
    Answered("cap") /\ ~answer.is.skipped /\ answer.is.cap > 0
        /\ MarginPct(answer.is.floor, task.of.fees) < MinMargin - Slack
    => \E e \in Edges(task.of.fees) : Min(Floors(task.of.fees, MinMargin)) < e
                                      /\ e <= answer.is.floor

\* MIN_MARGIN_PCT, "the inviolable floor only when there is no active STARTED
\* promo": the price the cap allows yields the minimum margin.
InviolableMargin ==
    Answered("cap") /\ ~answer.is.skipped /\ answer.is.cap > 0
        => MarginPct(answer.is.floor, task.of.fees) >= MinMargin - Slack

\* The price decide_for_item activates or creates at is never below the floor,
\* whichever shape the promotion has and wherever the freight's bands start; but a
\* lightning offer's is Mercado Livre's.
NeverBelowFloor ==
    Answered("decide") /\ answer.is.price # None /\ answer.is.floor # None
        /\ (\A p \in ToSet(task.of.promos) : p.type # "LIGHTNING")
    => answer.is.price + 1 >= answer.is.floor

\* "By construction the active promo never trips an alert": decided on with the
\* cap and the floor just computed from them, the promotions that run raise none,
\* however many there are and whatever their list prices and shares.
ActiveRaisesNoAlert == Answered("recompute") => ~answer.is.violated

\* "for every active MLB without its own complete snapshot": an active listing of
\* a product with costs has exactly one complete snapshot, its own or a twin's;
\* but one whose own snapshot is complete and names no product has none.
Processed == {s \in ToSet(task.of.snaps) \cup answer.is : s.sku # "none" /\ HasCost(s)}
EveryTwinCosted ==
    Answered("inherit") => \A a \in task.of.active :
        (/\ a.sku # "none" /\ Donor(task.of.snaps, a.sku) # 0
         /\ ~\E s \in ToSet(task.of.snaps) : s.mlb = a.mlb /\ s.sku = "none" /\ HasCost(s))
        => Cardinality({s \in Processed : s.mlb = a.mlb}) = 1

\* "The percentage is NOT constant": every price that was probed is charged what the
\* probe said, whichever others had no answer, and no price is without a band.
ChargedAsProbed ==
    Answered("commission") =>
        /\ \A r \in ToSet(task.of) :
             r.pct # None => CommissionFor(r.price, answer.is, None) = r.pct
        /\ answer.is # <<>> => \A p \in Grid : BandOf(p, answer.is) # 0

\* "only from R$ 200": Full is charged one point less from there on and the same
\* below, wherever the bands of commission start and end.
FullPointOff ==
    Answered("commission") /\ answer.is # <<>> =>
        \A p \in Grid \cup {19999, 22500, 25000, 30000} :
            LET nominal == CommissionFor(p, answer.is, None)
            IN  CommissionFor(p, FullDiscount(answer.is), None) =
                IF p < FullFrom THEN nominal ELSE Max({nominal - 100, 0})

\* In a bracket that was probed the freight is what the probe said, although brackets
\* about it may have had no answer and be taken into its band or left without one.
FreightAsProbed ==
    Answered("freight") =>
        \A b \in ToSet(task.of) :
            b.cost # None => /\ FreightFor(b.min, answer.is) = b.cost
                             /\ FreightFor(Or(b.max, b.min), answer.is) = b.cost

\* "fall back to the global Flex mean so the margin model never silently reverts them":
\* whatever failed, every active Flex listing has one row, and with it no margin of it
\* uses the sheet's freight.
Sheet == [cost |-> 5000, commission |-> 1150, bands |-> <<>>, freight |-> Freight(1, 2)]
NeverReverts ==
    Answered("calibrate") =>
        \A l \in ToSet(task.of) : l.active /\ l.logistic = "flex" =>
            \E r \in answer.is :
                /\ \A other \in answer.is : other.mlb = l.mlb => other = r
                /\ r.mlb = l.mlb
                /\ \A p \in Grid : FreightFor(p, Calibrated("flex", Sheet, <<r>>).freight)
                                       \notin {1, 2}

---------------------------------------------------------------------------
(* What the run checks                                                     *)

\* _fifo_match_with_chronology: no unit of an event settles two transfers, no other
\* assignment credits more units, and no younger transfer takes what an older one
\* still lacks.
MatchIsFifo ==
    Answered("match") => Fifo(task.of.transfers, task.of.events, answer.is)

\* The floor is the lowest price with its margin, and no cap or price gives it up.
MarginKept == FloorIsLowest /\ OnlyBandsEatMargin /\ NeverBelowFloor

\* One sweep's caps contradict neither the next sweep nor a twin's.
CapsAgree == ActiveRaisesNoAlert /\ EveryTwinCosted

\* The calibrated fees are what the answered probes said.
FeesAsProbed == ChargedAsProbed /\ FullPointOff /\ FreightAsProbed /\ NeverReverts
=============================================================================
