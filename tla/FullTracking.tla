---------------------------- MODULE FullTracking ----------------------------
(***************************************************************************)
(* Estoque Full: the operators' board of listings whose stock lies at Full.   *)
(* A listing is new, hidden (ignored for some days or removed for good) or     *)
(* tracked; a tracking is finalized and stays as history, and the listing may   *)
(* be tracked again.  Requests come from several operators at once, and a       *)
(* request that reads and then writes is two steps here; a list is read in      *)
(* several queries, each of which sees what was committed before it.            *)
(***************************************************************************)
EXTENDS Integers, FiniteSets

CONSTANTS
    Listings,       \* the fulfillment listings with stock for more than 30 days
    Operators,      \* requests at work at the same time
    MaxRows         \* bound: trackings ever made

VARIABLES
    rows,           \* the trackings
    hidden,         \* the dismissal of each listing
    request,        \* what each request has read
    was,            \* of a list being read: what was new at some time
    taken           \* of a list being read: what went from hidden to tracked
fvars == <<rows, hidden, request, was, taken>>

Ids == 1..MaxRows
NoListing == 0
NoRow == [mlb |-> NoListing, status |-> "none", finals |-> 0, notes |-> 0]
Nothing == [at |-> "none", mlb |-> NoListing, id |-> 0, seen |-> {}]

Init ==
    /\ rows = [i \in Ids |-> NoRow]
    /\ hidden = [m \in Listings |-> "no"]
    /\ request = [o \in Operators |-> Nothing]
    /\ was = [o \in Operators |-> {}] /\ taken = [o \in Operators |-> {}]

Active(m) == {i \in Ids : rows[i].mlb = m /\ rows[i].status = "tracking"}
Tracked == {m \in Listings : Active(m) # {}}
Hidden == {m \in Listings : hidden[m] \in {"ignore", "remove"}}
IsNew == Listings \ (Tracked \cup Hidden)

Free(o) == request[o] = Nothing
Ask(o, r) == request' = [request EXCEPT ![o] = r]
Answer(o) == Ask(o, Nothing)

---------------------------------------------------------------------------
(* Hiding                                                                  *)

Dismiss(o, m, kind) ==
    /\ Free(o)
    /\ hidden' = [hidden EXCEPT ![m] = kind]
    /\ UNCHANGED <<rows, request>>

Restore(o, m) ==
    /\ Free(o) /\ hidden[m] # "no"
    /\ hidden' = [hidden EXCEPT ![m] = "no"]
    /\ UNCHANGED <<rows, request>>

\* What is ignored comes back after some days; its row stays.
IgnoreEnds(m) ==
    /\ hidden[m] = "ignore"
    /\ hidden' = [hidden EXCEPT ![m] = "over"]
    /\ UNCHANGED <<rows, request>>

---------------------------------------------------------------------------
(* Tracking                                                                *)

\* A listing that is tracked already is answered with its row.
TrackReads(o, m) ==
    /\ Free(o) /\ Active(m) = {}
    /\ Ask(o, [Nothing EXCEPT !.at = "track", !.mlb = m])
    /\ UNCHANGED <<rows, hidden>>

\* The row, its first event and the end of the dismissal are one transaction.
Tracks(m) ==
    \E i \in Ids :
        /\ rows[i] = NoRow /\ \A j \in 1..i - 1 : rows[j] # NoRow
        /\ rows' = [rows EXCEPT ![i] = [NoRow EXCEPT !.mlb = m, !.status = "tracking"]]
        /\ hidden' = [hidden EXCEPT ![m] = "no"]

\* Mutant of TrackWrites: nothing in the database refuses a second active row.
TrackWritesAnyway(o) ==
    /\ request[o].at = "track" /\ Answer(o)
    /\ Tracks(request[o].mlb)

\* The unique index on active rows refuses a second one.
TrackWrites(o) ==
    /\ request[o].at = "track" /\ Answer(o)
    /\ IF Active(request[o].mlb) # {} THEN UNCHANGED <<rows, hidden>>
       ELSE Tracks(request[o].mlb)

Annotate(o, i) ==
    /\ Free(o) /\ rows[i].status \in {"tracking", "finalized"}
    /\ rows[i].notes = 0
    /\ rows' = [rows EXCEPT ![i].notes = 1]
    /\ UNCHANGED <<hidden, request>>

FinalizeReads(o, i) ==
    /\ Free(o) /\ rows[i].status = "tracking"
    /\ Ask(o, [Nothing EXCEPT !.at = "finalize", !.id = i])
    /\ UNCHANGED <<rows, hidden>>

\* A row removed in between makes the request fail; one finalized in between is
\* finalized again.
FinalizeWrites(o) ==
    /\ request[o].at = "finalize" /\ Answer(o)
    /\ LET i == request[o].id IN
       rows' = IF rows[i].status = "removed" THEN rows
               ELSE [rows EXCEPT ![i].status = "finalized", ![i].finals = @ + 1]
    /\ UNCHANGED hidden

\* The row goes with its events; nothing brings back a dismissal.
RemoveTracking(o, i) ==
    /\ Free(o) /\ rows[i].status \in {"tracking", "finalized"}
    /\ rows' = [rows EXCEPT ![i].status = "removed", ![i].notes = 0]
    /\ UNCHANGED <<hidden, request>>

---------------------------------------------------------------------------
(* The list of what is new: who is tracked is read first, then who is hidden. *)

ReadTracked(o) ==
    /\ Free(o)
    /\ Ask(o, [Nothing EXCEPT !.at = "novos", !.seen = Tracked])
    /\ UNCHANGED <<rows, hidden>>

\* Mutant of ReadHidden: the tracked ones are not left out.
ReadHiddenOnly(o) ==
    /\ request[o].at = "novos"
    /\ Ask(o, [request[o] EXCEPT !.at = "show", !.seen = Listings \ Hidden])
    /\ UNCHANGED <<rows, hidden>>

ReadHidden(o) ==
    /\ request[o].at = "novos"
    /\ Ask(o, [request[o] EXCEPT !.at = "show", !.seen = Listings \ (@ \cup Hidden)])
    /\ UNCHANGED <<rows, hidden>>

Show(o) ==
    /\ request[o].at = "show" /\ Answer(o)
    /\ UNCHANGED <<rows, hidden>>

\* What is known of the lists being read, after any step.
Watch ==
    /\ was' = [o \in Operators |->
                 IF request'[o].at \notin {"novos", "show"} THEN {}
                 ELSE was[o] \cup IsNew']
    /\ taken' = [o \in Operators |->
                 IF request'[o].at \notin {"novos", "show"} THEN {}
                 ELSE taken[o] \cup (Hidden \cap Tracked')]

Next ==
    /\ \/ \E o \in Operators, m \in Listings :
            \/ \E kind \in {"ignore", "remove"} : Dismiss(o, m, kind)
            \/ Restore(o, m) \/ TrackReads(o, m)
       \/ \E m \in Listings : IgnoreEnds(m)
       \/ \E o \in Operators, i \in Ids :
            Annotate(o, i) \/ FinalizeReads(o, i) \/ RemoveTracking(o, i)
       \/ \E o \in Operators : \/ TrackWrites(o) \/ FinalizeWrites(o)
                               \/ ReadTracked(o) \/ ReadHidden(o) \/ Show(o)
    /\ Watch

Spec == Init /\ [][Next]_fvars

---------------------------------------------------------------------------\* The rows of trackings, their events counted, and of dismissals.
Rows == [mlb : Listings \cup {NoListing}, status : {"none", "tracking", "finalized", "removed"},
         finals : 0..Cardinality(Operators), notes : 0..1]
Dismissals == {"no", "ignore", "over", "remove"}

TypeOK ==
    /\ rows \in [Ids -> Rows] /\ hidden \in [Listings -> Dismissals]
    /\ \A o \in Operators : /\ request[o].at \in {"none", "track", "finalize", "novos", "show"}
                            /\ request[o].mlb \in Listings \cup {NoListing}
                            /\ request[o].seen \subseteq Listings

\* "At most one active tracking per MLB": two operators who track the same listing
\* at the same time, each having seen no row, leave one.
OneActive == \A m \in Listings : Cardinality(Active(m)) <= 1

\* A listing shown as new was new at some moment of the reading, although nothing
\* makes its queries one; except for one that was taken from the hidden ones to the
\* tracked ones meanwhile, which the two readings both miss.
ShownWasNew ==
    \A o \in Operators : request[o].at = "show" => request[o].seen \subseteq was[o] \cup taken[o]
=============================================================================
