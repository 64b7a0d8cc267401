------------------------------ MODULE MCStock ------------------------------
(* Instances of Stock for TLC.                                              *)
EXTENDS Stock

Budget(items, requests, events, arrivals, faults, crashes, corrects) ==
    [items |-> items, requests |-> requests, events |-> events, arrivals |-> arrivals,
     faults |-> faults, crashes |-> crashes, corrects |-> corrects]

\* Shipments seen by two consumers, with and without the endpoint.
Bookings == {Budget(3, 0, 3, 0, 0, 0, FALSE), Budget(3, 1, 0, 0, 1, 0, FALSE),
             Budget(2, 1, 1, 0, 0, 1, FALSE)}

\* Corrections between shipments, arrivals, sales and a reading.
Corrections == {Budget(1, 0, 2, 1, 1, 0, TRUE), Budget(1, 1, 0, 1, 0, 1, TRUE)}

AllBudgets == Bookings \cup Corrections
=============================================================================
