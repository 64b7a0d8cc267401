------------------------------- MODULE Prices -------------------------------
(***************************************************************************)
(* The price rules of promotions, as pure functions: margin and floor of a  *)
(* price (services/pricing_service.py), the cap and floor of a listing      *)
(* (services/cap_recompute_service.py), and what to do with the promotions  *)
(* Mercado Livre offers (score_candidate_promo, enumerate_activations_for_  *)
(* item, count_eligible_candidates and decide_for_item of                   *)
(* services/ml_promotion_service.py).                                       *)
(*                                                                         *)
(* Money is in cents and a percentage in hundredths of a percent, as the    *)
(* code rounds them; its floating-point products are taken as exact.  An    *)
(* absent value is None.  A band is [min, max, cost] or [min, max, pct],    *)
(* both ends included, max None when open.                                  *)
(***************************************************************************)
EXTENDS Integers, Sequences, SequencesExt, FiniteSetsExt

None == -1
Or(value, default) == IF value = None THEN default ELSE value
Whole == 10000                                  \* 100%

\* quantize and round: to the nearest, a tie to the even.
Quotient(n, d) ==
    LET q == n \div d
        r == 2 * (n % d)
    IN  IF r > d \/ (r = d /\ q % 2 = 1) THEN q + 1 ELSE q

Share(amount, pct) == Quotient(amount * pct, Whole)
Less(price, pct) == Quotient(price * (Whole - pct), Whole)
Discount(list, price) == Quotient((list - price) * Whole, list)

---------------------------------------------------------------------------
(* Margin and floor                                                        *)

Difal == 1150
Within(price, band) == band.min <= price /\ (band.max = None \/ price <= band.max)
BandOf(price, bands) ==
    LET hits == {i \in DOMAIN bands : Within(price, bands[i])}
    IN  IF hits = {} THEN 0 ELSE Min(hits)

FreightFor(price, bands) ==
    IF BandOf(price, bands) = 0 THEN 0 ELSE bands[BandOf(price, bands)].cost
CommissionFor(price, bands, fallback) ==
    IF BandOf(price, bands) = 0 THEN fallback ELSE Or(bands[BandOf(price, bands)].pct, fallback)

\* What a listing costs: its cost, the commission and its bands, the freight's.
\* apply_flex_calibration: a listing of Full takes the calibrated bands that there
\* are; a Flex listing also the calibrated commission, and two bands at worst.
Calibrated(logistic, fees, calib) ==
    IF logistic = "unknown" \/ calib = <<>> THEN [fees EXCEPT !.bands = <<>>]
    ELSE LET c == calib[1] IN
         IF logistic = "fulfillment"
         THEN [fees EXCEPT !.freight = IF c.freight = <<>> THEN @ ELSE c.freight,
                           !.bands = c.bands]
         ELSE [fees EXCEPT !.freight = IF c.freight # <<>> THEN c.freight
                                       ELSE <<[min |-> 0, max |-> 7899, cost |-> c.below],
                                              [min |-> 7900, max |-> None, cost |-> c.above]>>,
                           !.commission = Or(c.commission, @),
                           !.bands = c.bands]

\* margin_at_price, without a share of Mercado Livre's.
MarginValue(price, fees) ==
    price - fees.cost - Share(price, CommissionFor(price, fees.bands, fees.commission))
          - Share(price, Difal) - FreightFor(price, fees.freight)
MarginPct(price, fees) ==
    IF price = 0 THEN 0 ELSE Quotient(MarginValue(price, fees) * Whole, price)

\* _segment_breakpoints: the edges of both kinds of bands.
Edges(fees) ==
    {0} \cup UNION {{b.min} \cup (IF b.max = None THEN {} ELSE {b.max}) :
                       b \in ToSet(fees.freight) \cup ToSet(fees.bands)}
After(edge, edges) == IF \E e \in edges : e > edge THEN Min({e \in edges : e > edge}) ELSE None

\* The price with the margin, at the fees of a segment's lower edge; None when
\* these leave nothing.
Solved(lo, fees, pct) ==
    LET divisor == Whole - pct - CommissionFor(lo, fees.bands, fees.commission) - Difal
    IN  IF divisor <= 0 THEN None
        ELSE Quotient((fees.cost + FreightFor(lo, fees.freight)) * Whole, divisor)

\* Mutant of Floors: a segment's price is not asked to be below its upper edge.
FloorsUnbounded(fees, pct) ==
    {Max({lo, Solved(lo, fees, pct)}) :
        lo \in {lo \in Edges(fees) : Solved(lo, fees, pct) # None}}

\* target_price_for_min_margin_pct: in every segment the price with that margin,
\* or its lower edge; none where the fees leave nothing or the price is above.
Floors(fees, pct) ==
    {Max({lo, Solved(lo, fees, pct)}) :
        lo \in {lo \in Edges(fees) :
                  /\ Solved(lo, fees, pct) # None
                  /\ \/ After(lo, Edges(fees)) = None
                     \/ Solved(lo, fees, pct) <= After(lo, Edges(fees))}}

---------------------------------------------------------------------------
(* Cap and floor of a listing                                              *)

MinMargin == 1000
DefaultCap == 3000

\* Promotions: status, type, id; price, original, min, max, suggested, fixed and
\* seller are None when absent, meli is 0.
Started(promos) == {p \in ToSet(promos) : p.status = "started"}

Usable(promos) == {p \in Started(promos) : p.original > 0 /\ p.price > 0}
SellerShare(p) == Discount(p.original, p.price) - p.meli

\* Mutant of Baseline: the price of the promotion with the largest share.
BaselineOfOne(promos) ==
    LET S == Usable(promos) IN
    IF S = {} THEN <<>>
    ELSE LET largest == CHOOSE p \in S : \A q \in S : SellerShare(q) <= SellerShare(p)
         IN  <<[share |-> Max({SellerShare(largest), 0}), price |-> largest.price]>>

\* _baseline_from_active_promos: the largest share of the seller and the lowest
\* price, each of its own promotion.
Baseline(promos) ==
    LET S == Usable(promos) IN
    IF S = {} THEN <<>>
    ELSE <<[share |-> Max({SellerShare(p) : p \in S} \cup {0}),
            price |-> Min({p.price : p \in S})]>>

HasCost(snap) ==
    ~snap.error /\ snap.fees.cost # None /\ snap.fees.commission # None
                /\ snap.list # None /\ snap.list > 0 /\ snap.fees.freight # <<>>

Skipped == [skipped |-> TRUE, cap |-> 0, floor |-> None]
Cap(cap, floor) == [skipped |-> FALSE, cap |-> cap, floor |-> floor]

\* calc_cap_from_active_promo.
CapOfActive(baseline) == Cap(baseline.share, baseline.price)

\* Mutant of Protected: the sheet's cap, whatever the margin.
ProtectedByNothing(base, list, floor) == base

Protected(base, list, floor) == Min({base, Max({0, Discount(list, floor)})})

\* calc_cap_for_snapshot: the sheet's cap, or what of it the margin allows.
CapOfSheet(snap) ==
    IF ~HasCost(snap) THEN Skipped
    ELSE LET list == snap.list
             floors == Floors(snap.fees, MinMargin)
             base == Or(snap.discount, DefaultCap)
         IN  IF MarginPct(list, snap.fees) < MinMargin THEN Cap(0, list)
             ELSE IF floors = {} THEN Skipped
             ELSE LET cap == Protected(base, list, Min(floors))
                  IN  Cap(cap, Less(list, cap))

\* recompute_all_caps for one listing; reading: <<its promotions>>, or <<>> when
\* they could not be read, which counts as none.
CapOf(snap, calib, reading) ==
    LET baseline == IF snap.error \/ reading = <<>> THEN <<>> ELSE Baseline(reading[1]) IN
    IF baseline # <<>> THEN CapOfActive(baseline[1])
    ELSE CapOfSheet([snap EXCEPT !.fees = Calibrated(snap.logistic, @, calib)])

Donor(snaps, sku) ==
    SelectInSeq(snaps, LAMBDA s : s.sku = sku /\ HasCost(s))

\* Mutant of Inherited: a listing whose snapshot is in error is left alone.
InheritedIfNoRow(snaps, active) ==
    {[snaps[Donor(snaps, a.sku)] EXCEPT !.mlb = a.mlb] :
        a \in {a \in active : /\ a.sku # "none" /\ Donor(snaps, a.sku) # 0
                              /\ \A s \in ToSet(snaps) : s.mlb # a.mlb}}

\* _build_inherited_snapshots: an active listing without costs of its own takes
\* those of the first complete snapshot of its product.
Inherited(snaps, active) ==
    {[snaps[Donor(snaps, a.sku)] EXCEPT !.mlb = a.mlb] :
        a \in {a \in active : /\ a.sku # "none" /\ Donor(snaps, a.sku) # 0
                              /\ \A s \in ToSet(snaps) : HasCost(s) => s.mlb # a.mlb}}

---------------------------------------------------------------------------
(* Candidates                                                              *)

Plan(accepted, price, total, meli) ==
    [accepted |-> accepted, price |-> price, total |-> total, seller |-> total - meli]

\* _build: checked against the cap, then the floor.
Checked(price, total, meli, asked, limit, floor) ==
    Plan(asked <= limit + 1 /\ price + 1 >= floor, price, total, meli)

\* The prices a seller may choose from, within the cap and the floor.
Interval(p, capTotal, floor, list) ==
    LET lower == Max({p.min, floor, Less(list, capTotal)})
        upper == Or(p.max, list)
        suggested == p.suggested # None /\ lower - 1 <= p.suggested /\ p.suggested <= upper + 1
        price == IF lower <= upper + 1 /\ suggested THEN p.suggested ELSE lower
    IN  Plan(lower <= upper + 1, price, Discount(list, price), p.meli)

\* score_candidate_promo: <<>> when it has no known shape.
Score(p, cap, margin, list) ==
    LET floor == Or(margin, 0)
        capTotal == cap + p.meli
        original == IF p.original \in {None, 0} THEN list ELSE p.original
    IN  IF list = None \/ list <= 0 THEN <<>>
        ELSE IF p.fixed # None
        THEN <<Checked(Less(list, p.fixed), p.fixed, p.meli, p.fixed, capTotal, floor)>>
        ELSE IF p.type = "LIGHTNING" /\ p.price # None
        THEN <<Plan(TRUE, p.price, Discount(list, p.price), p.meli)>>
        ELSE IF p.min # None
        THEN <<Interval(p, capTotal, floor, list)>>
        ELSE IF p.suggested # None
        THEN LET total == Discount(list, p.suggested)
             IN  <<Checked(p.suggested, total, p.meli, total, capTotal, floor)>>
        ELSE IF p.seller # None
        THEN LET total == p.seller + p.meli
                 price == IF p.price # None THEN p.price ELSE Less(original, total)
             IN  <<Checked(price, total, p.meli, p.seller, cap, floor)>>
        ELSE IF p.price # None /\ p.original \notin {None, 0}
        THEN LET total == Discount(p.original, p.price)
             IN  <<Checked(p.price, total, p.meli, total, capTotal, floor)>>
        ELSE <<>>

Allowed(promos, excluded) == SelectSeq(promos, LAMBDA p : p.type \notin excluded)
Scored(promos, cap, floor, list, excluded) ==
    SelectSeq(Allowed(promos, excluded),
              LAMBDA p : p.status = "candidate" /\ Score(p, cap, floor, list) # <<>>)

\* enumerate_activations_for_item: what is active, would be, or is denied.
Enumerated(promos, cap, floor, list, excluded) ==
    IF list = None \/ list <= 0 THEN {}
    ELSE {[id |-> p.id, status |-> "already_active"] :
             p \in Started(Allowed(promos, excluded))}
         \cup {[id |-> p.id,
                status |-> IF Score(p, cap, floor, list)[1].accepted
                           THEN "would_activate" ELSE "denied"] :
                  p \in ToSet(Scored(promos, cap, floor, list, excluded))}

\* count_eligible_candidates.
Countable(p, cap, margin, list) ==
    LET floor == Or(margin, 0) IN
    IF p.fixed # None
    THEN p.fixed <= cap + p.meli + 1 /\ list * (Whole - p.fixed) + Whole >= floor * Whole
    ELSE IF p.min # None THEN p.min + 1 >= floor
    ELSE /\ p.suggested # None
         /\ (list - p.suggested) * Whole <= (cap + p.meli + 1) * list
         /\ p.suggested + 1 >= floor
CountEligible(promos, cap, floor, list, excluded) ==
    IF list = None \/ list <= 0 THEN 0
    ELSE Len(SelectSeq(Allowed(promos, excluded),
                       LAMBDA p : p.status = "candidate" /\ Countable(p, cap, floor, list)))

---------------------------------------------------------------------------
(* The decision                                                            *)

\* _compute_pct: to a tenth of a percent.
Tenths(original, price) == 10 * Quotient((original - price) * 1000, original)

\* _freight_opt_check: the top of the band below, when that saves more freight
\* than the price gives up.
Cheaper(price, bands) ==
    LET i == BandOf(price, bands) IN
    IF price <= 0 \/ i <= 1 THEN price
    ELSE LET below == bands[i - 1].max IN
         IF below = None \/ below >= price THEN price
         ELSE IF bands[i].cost - bands[i - 1].cost > price - below THEN below ELSE price

\* Mutant of Shaved: the floor is not asked again.
ShavedAnyMargin(price, costs, floor) ==
    IF costs = <<>> THEN price ELSE Cheaper(price, costs[1].freight)

Shaved(price, costs, floor) ==
    LET cheaper == IF costs = <<>> THEN price ELSE Cheaper(price, costs[1].freight)
    IN  IF floor = None \/ cheaper >= floor THEN cheaper ELSE price

\* The places of the promotions that name a list price.
Priced(promos, places) == {i \in places : promos[i].original \notin {None, 0}}

\* The list price: of the first promotion that has one, else of the costs.
Original(promos, places, costs) ==
    IF Priced(promos, places) # {} THEN promos[Min(Priced(promos, places))].original
    ELSE IF costs = <<>> THEN None ELSE costs[1].list

\* A started promotion is measured against its own list price, or the first one of an
\* earlier promotion.
Measured(promos, places, i) ==
    LET before == Priced(promos, {j \in places : j <= i})
        own == promos[i].original
        list == IF own \notin {None, 0} THEN own
                ELSE IF before = {} THEN None ELSE promos[Min(before)].original
    IN  IF promos[i].price \in {None, 0} \/ list = None THEN None ELSE Tenths(list, promos[i].price)

\* The first of those that discount the most.
Best(S, value(_)) == CHOOSE i \in S : \A j \in S : value(i) > value(j)
                                          \/ (value(i) = value(j) /\ i <= j)

Decided(action, price, floor, violated) ==
    [action |-> action, price |-> price, floor |-> floor, violated |-> violated]

\* decide_for_item, but for what only informs: winner: winning with all visits and
\* to be left alone.
DecideForItem(promos, costs, cap, margin, excluded, winner) ==
    LET places == {i \in DOMAIN promos : promos[i].type \notin excluded}
        list == Original(promos, places, costs)
        given == Or(margin, IF costs = <<>> THEN None ELSE costs[1].promo)
        floor == IF given = 0 THEN None ELSE given
        Of(i) == Measured(promos, places, i)
        active == {i \in places : promos[i].status = "started" /\ Of(i) # None}
        current == IF active = {} THEN 0 ELSE Of(Best(active, Of))
        violated == active # {} /\ floor # None /\ promos[Best(active, Of)].price < floor
        ScoreOf(i) == Score(promos[i], cap, floor, list)
        fit == {i \in places : /\ promos[i].status = "candidate"
                                /\ ScoreOf(i) # <<>> /\ ScoreOf(i)[1].accepted
                                /\ ScoreOf(i)[1].total > 0}
        Total(i) == ScoreOf(i)[1].total
    IN  IF winner THEN Decided("keep_winning", None, None, FALSE)
        ELSE IF list \in {None, 0} THEN Decided("no_data", None, None, FALSE)
        ELSE IF fit # {} /\ Total(Best(fit, Total)) > current + 100
        THEN Decided("activate_candidate",
                     Shaved(ScoreOf(Best(fit, Total))[1].price, costs, floor), floor, violated)
        ELSE IF active # {} THEN Decided("keep", None, floor, violated)
        ELSE IF cap > 0
        THEN Decided("create_price_discount",
                     Shaved(Max({Less(list, cap), Or(floor, 0)}), costs, floor), floor, FALSE)
        ELSE Decided("skip", None, floor, FALSE)
=============================================================================
