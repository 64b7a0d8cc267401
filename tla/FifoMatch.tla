----------------------------- MODULE FifoMatch -----------------------------
(***************************************************************************)
(* _fifo_match_with_chronology of services/fulfillment_reception_service.py:*)
(* a pure function that credits inbound events of one SKU to its pending    *)
(* transfers, oldest to oldest.  Both arguments are functions whose domain   *)
(* is a set of numbers, in the order in which Python's stable sort leaves    *)
(* what has the same time.  A transfer has at, qty, got (units credited so   *)
(* far) and last (time of the last event credited to it); an event has at    *)
(* and qty.                                                                  *)
(***************************************************************************)
EXTENDS Integers, FiniteSetsExt, Functions

Never == 0

Outstanding(t) == IF t.got < t.qty THEN t.qty - t.got ELSE 0

\* Mutant of Eligible: without the chronology guard.
EligibleAnyAge(t, e) == t.last # Never => e.at > t.last

\* Mutant of Eligible: without the idempotency floor.
EligibleAgain(t, e) == e.at >= t.at

\* The chronology guard, and the floor of the events credited in earlier runs.
Eligible(t, e) == e.at >= t.at /\ (t.last # Never => e.at > t.last)

\* Mutant of Take: what a transfer leaves of an event is lost.
TakeAll(t, e, acc, k) ==
    LET take == Min({acc.out, acc.rem[k]})
    IN  IF Eligible(t, e) /\ take > 0
        THEN [out |-> acc.out - take, delta |-> acc.delta + take, last |-> e.at,
              rem |-> [acc.rem EXCEPT ![k] = 0]]
        ELSE acc

\* Transfer t takes what it can of event e, whose number is k.  acc: what t still
\* lacks, what it was credited, the last event it took from, what is left of every
\* event.
Take(t, e, acc, k) ==
    LET take == Min({acc.out, acc.rem[k]})
    IN  IF Eligible(t, e) /\ take > 0
        THEN [out |-> acc.out - take, delta |-> acc.delta + take, last |-> e.at,
              rem |-> [acc.rem EXCEPT ![k] = @ - take]]
        ELSE acc

\* Mutant of Latest: the order list_all reads them in, youngest first.
LatestAsListed(s, S) == Max(S)

\* The one of S that sorted(..., key=time) puts last.
Latest(s, S) ==
    CHOOSE i \in S : \A j \in S : s[j].at < s[i].at \/ (s[j].at = s[i].at /\ j <= i)

\* One transfer against every event, oldest first, from what others left of them.
Credit(t, events, rem) ==
    MapThenFoldSet(LAMBDA k, acc : Take(t, events[k], acc, k),
                   [out |-> Outstanding(t), delta |-> 0, last |-> Never, rem |-> rem],
                   LAMBDA k : k, LAMBDA S : Latest(events, S), DOMAIN events)

Decision(t, credit) ==
    [delta |-> credit.delta, last |-> credit.last, full |-> t.got + credit.delta >= t.qty]

Quantities(events) == [k \in DOMAIN events |-> events[k].qty]

\* Every transfer in turn, oldest first: what it is given, from what the older ones
\* left of the events.
MatchStep(transfers, events, i, acc) ==
    LET credit == Credit(transfers[i], events, acc.rem)
    IN  [rem |-> credit.rem, out |-> [acc.out EXCEPT ![i] = Decision(transfers[i], credit)]]

\* The decisions, one per transfer.
Match(transfers, events) ==
    LET Undecided == [delta |-> 0, last |-> Never, full |-> FALSE]
    IN  MapThenFoldSet(LAMBDA i, acc : MatchStep(transfers, events, i, acc),
                       [rem |-> Quantities(events),
                        out |-> [i \in DOMAIN transfers |-> Undecided]],
                       LAMBDA i : i, LAMBDA S : Latest(transfers, S), DOMAIN transfers).out

---------------------------------------------------------------------------
(* What a matching should be                                               *)

\* The time from which on a transfer may use events.
Floor(t) == IF t.last # Never /\ t.last >= t.at THEN t.last + 1 ELSE t.at

Deltas(decisions) == [i \in DOMAIN decisions |-> decisions[i].delta]
Lacking(transfers) == [i \in DOMAIN transfers |-> Outstanding(transfers[i])]
ArrivedFrom(events, time) ==
    SumFunctionOnSet(Quantities(events), {k \in DOMAIN events : events[k].at >= time})

\* "Each event ... leftover units flow to the next-oldest transfer": no transfer is
\* credited more than it lacks, and the units credited can be handed out without
\* using a unit of an event twice and without giving a transfer an event older than
\* itself or one it has had before.  (The events a transfer may use are those from
\* its floor on, so it is enough to count, for every floor, what is credited and what
\* arrived from then on.)
NoUnitTwice(transfers, events, decisions) ==
    \A i \in DOMAIN transfers :
        /\ decisions[i].delta \in 0..Outstanding(transfers[i])
        /\ SumFunctionOnSet(Deltas(decisions),
               {j \in DOMAIN transfers : Floor(transfers[j]) >= Floor(transfers[i])})
             <= ArrivedFrom(events, Floor(transfers[i]))

\* "Events are consumed greedily": no other assignment credits more units.  Either
\* no transfer lacks any, or for some floor the transfers with an earlier one lack
\* none and those from it on have all that arrived since: by duality, no assignment
\* can do better.
CreditsAllItCan(transfers, events, decisions) ==
    LET total == SumFunctionOnSet(Deltas(decisions), DOMAIN transfers)
    IN  \/ total = SumFunctionOnSet(Lacking(transfers), DOMAIN transfers)
        \/ \E i \in DOMAIN transfers :
              total = SumFunctionOnSet(Lacking(transfers),
                          {j \in DOMAIN transfers : Floor(transfers[j]) < Floor(transfers[i])})
                      + ArrivedFrom(events, Floor(transfers[i]))

\* "newer transfers would steal credit from older arrivals": a younger transfer
\* takes no unit that an older one, still short, could have had.
OldestFirst(transfers, decisions) ==
    \A i, j \in DOMAIN transfers :
        transfers[i].at < transfers[j].at
            /\ decisions[i].delta < Outstanding(transfers[i]) /\ decisions[j].delta > 0
        => decisions[j].last < Floor(transfers[i])

\* The matching is the first-in-first-out one.
Fifo(transfers, events, decisions) ==
    /\ NoUnitTwice(transfers, events, decisions)
    /\ CreditsAllItCan(transfers, events, decisions)
    /\ OldestFirst(transfers, decisions)
=============================================================================
