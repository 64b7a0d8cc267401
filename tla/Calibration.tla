---------------------------- MODULE Calibration ----------------------------
(***************************************************************************)
(* The weekly calibration of fees (services/flex_fee_calibration_service.py) *)
(* as pure functions: the bands of commission and of freight made from what *)
(* Mercado Livre answers to a grid of probes, some without an answer, the   *)
(* discount of Full, and the rows that replace the table.  Prices, in cents,*)
(* and bands as in Prices, whose Calibrated reads the rows.                 *)
(***************************************************************************)
EXTENDS Prices

WithAnswer(readings, field(_)) == SelectSeq(readings, LAMBDA r : field(r) # None)

---------------------------------------------------------------------------
(* Bands                                                                   *)

\* Where a sequence takes another value, from its second place on.
Breaks(s, value(_)) ==
    SetToSortSeq({i \in DOMAIN s : i > 1 /\ value(s[i]) # value(s[i - 1])}, <)

\* Mutant of Edge: between the first probe of the band and that of the next.
EdgeFromFirst(points, breaks, k) ==
    LET first == IF k = 1 THEN 1 ELSE breaks[k - 1]
    IN  Quotient(points[first].price + points[breaks[k]].price, 2)

\* Halfway between the last probe of one percentage and the first of the next.
Edge(points, breaks, k) ==
    Quotient(points[breaks[k] - 1].price + points[breaks[k]].price, 2)

\* _commission_schedule: one band per run of equal percentages; <<>> when nothing
\* was answered.
CommissionBands(probes) ==
    LET points == WithAnswer(probes, LAMBDA p : p.pct)
        breaks == Breaks(points, LAMBDA p : p.pct)
        From(k) == IF k = 1 THEN 0 ELSE Edge(points, breaks, k - 1)
        Upto(k) == IF k > Len(breaks) THEN None ELSE Edge(points, breaks, k)
        Pct(k) == points[IF k = 1 THEN 1 ELSE breaks[k - 1]].pct
    IN  IF points = <<>> THEN <<>>
        ELSE [k \in 1..(Len(breaks) + 1) |-> [min |-> From(k), max |-> Upto(k), pct |-> Pct(k)]]

\* Mutant of FreightBreaks: a band as long as the freight does not rise.
FreightBreaksIfDearer(bands) ==
    SetToSortSeq({i \in DOMAIN bands : i > 1 /\ bands[i].cost > bands[i - 1].cost}, <)

FreightBreaks(bands) == Breaks(bands, LAMBDA b : b.cost)

\* _freight_schedule: brackets of one cost become one band, those without an
\* answer between them included; others are left out.
FreightBands(brackets) ==
    LET bands == WithAnswer(brackets, LAMBDA b : b.cost)
        breaks == FreightBreaks(bands)
        Opens(k) == IF k = 1 THEN 1 ELSE breaks[k - 1]
        Closes(k) == IF k > Len(breaks) THEN Len(bands) ELSE breaks[k] - 1
    IN  IF bands = <<>> THEN <<>>
        ELSE [k \in 1..(Len(breaks) + 1) |-> [bands[Opens(k)] EXCEPT !.max = bands[Closes(k)].max]]

FullFrom == 20000
Less1Point(pct) == Max({pct - 100, 0})

\* Mutant of Split: a band is discounted whole or not at all.
SplitNowhere(band) ==
    IF band.min >= FullFrom THEN <<[band EXCEPT !.pct = Less1Point(@)]>> ELSE <<band>>

Split(band) ==
    IF band.max # None /\ band.max < FullFrom THEN <<band>>
    ELSE IF band.min >= FullFrom THEN <<[band EXCEPT !.pct = Less1Point(@)]>>
    ELSE <<[band EXCEPT !.max = FullFrom - 1],
           [band EXCEPT !.min = FullFrom, !.pct = Less1Point(@)]>>

\* _apply_full_discount: a point less from R$ 200 on, in Full.
FullDiscount(bands) == FlattenSeq([i \in DOMAIN bands |-> Split(bands[i])])

---------------------------------------------------------------------------
(* Rows                                                                    *)

Total(s) == FoldFunction(+, 0, s)

Median(rates) ==
    LET s == SortSeq(rates, <)
        n == Len(s)
    IN  IF n % 2 = 1 THEN s[(n + 1) \div 2] ELSE Quotient(s[n \div 2] + s[n \div 2 + 1], 2)

\* The quote of every active Flex listing; one that failed takes the others' mean.
Mean(quotes) == IF quotes = <<>> THEN 0 ELSE Quotient(Total(quotes), Len(quotes))

FlexRow(l, mean) ==
    [mlb |-> l.mlb, commission |-> IF l.rates = <<>> THEN None ELSE Median(l.rates),
     bands |-> l.commissions, freight |-> l.freights,
     below |-> Or(l.quote, mean), above |-> Or(l.quote, mean)]

FullRow(l) ==
    [mlb |-> l.mlb, commission |-> None, bands |-> FullDiscount(l.commissions),
     freight |-> l.freights, below |-> None, above |-> None]

IsActive(l, kinds) == l.active /\ l.logistic \in kinds
Flex(listings) == SelectSeq(listings, LAMBDA l : IsActive(l, {"flex"}))
Full(listings) == SelectSeq(listings, LAMBDA l : IsActive(l, {"fulfillment"}))

\* Mutant of Recalibrated: a listing whose quote failed gets no row.
RecalibratedQuoted(listings) ==
    {FlexRow(l, 0) : l \in {l \in ToSet(Flex(listings)) : l.quote # None}}
    \cup {FullRow(l) : l \in ToSet(Full(listings))}

\* recalibrate: the rows after it, which replace the table in one transaction.  Of a
\* listing: whether it is active, its logistic type, its quote, the rates of its
\* sales, and the bands found for its category and its package, <<>> without.
Recalibrated(listings) ==
    LET quotes == SelectSeq([i \in DOMAIN Flex(listings) |-> Flex(listings)[i].quote],
                            LAMBDA q : q # None)
    IN  {FlexRow(l, Mean(quotes)) : l \in ToSet(Flex(listings))}
        \cup {FullRow(l) : l \in {l \in ToSet(Full(listings)) :
                                    l.commissions # <<>> \/ l.freights # <<>>}}
=============================================================================
