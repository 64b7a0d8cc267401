------------------------------- MODULE Newest -------------------------------
(***************************************************************************)
(* The imports of claims and of infractions.  Mercado Livre lists them newest *)
(* first, page by page; a run stops at the first page on which it finds       *)
(* nothing it does not know, and stores what it found in one transaction.     *)
(*                                                                         *)
(* That is right only as long as the table has no gap: what lies below a       *)
(* known claim must be known.  A claim has a stamp, the time of its last       *)
(* change, and is in one of two lists; infractions are in one list and do not  *)
(* change.                                                                    *)
(***************************************************************************)
EXTENDS Integers, FiniteSets

CONSTANTS
    Claims,         \* claims, or infractions, numbered as they were opened
    PageSize,       \* rows of a page
    MaxPages,       \* the most pages of one list a run reads
    MaxClock,       \* bound: the changes
    MaxTrouble      \* bound: the faults

VARIABLES
    kind,           \* "claims" or "infractions"
    clock,          \* the stamp of the last change
    stamp,          \* the last change of each claim; 0: there is none
    list,           \* where it is listed
    known,          \* the stamp stored; 0: no row
    named,          \* the claims whose reason is stored (each has its own)
    runs,           \* the job's run and the one asked for
    skewed,         \* a claim left a list that was being read, or runs overlapped
    trouble
nvars == <<kind, clock, stamp, list, known, named, runs, skewed, trouble>>

Readers == {"job", "asked"}
\* Mutant of Lists: the claims that were closed are not asked for.
OpenedOnly == <<"opened">>

Lists == IF kind = "claims" THEN <<"opened", "closed">> ELSE <<"opened">>
Unread == [c \in Claims |-> 0]
Rest == [at |-> "rest", list |-> 1, page |-> 0, knew |-> Unread, found |-> Unread]

Init ==
    /\ kind \in {"claims", "infractions"}
    /\ clock = 0
    /\ stamp = Unread /\ list = [c \in Claims |-> "opened"]
    /\ known = Unread /\ named = {}
    /\ runs = [r \in Readers |-> Rest]
    /\ skewed = FALSE
    /\ trouble = MaxTrouble

---------------------------------------------------------------------------
(* Mercado Livre                                                           *)

\* A claim is opened, or changes: it is the newest of its list.
Stamp(c) ==
    /\ clock < MaxClock
    /\ kind = "infractions" => stamp[c] = 0
    /\ stamp[c] = 0 => \A d \in Claims : d < c => stamp[d] # 0
    /\ clock' = clock + 1
    /\ stamp' = [stamp EXCEPT ![c] = clock + 1]
    /\ UNCHANGED <<kind, list, known, named, runs, skewed, trouble>>

\* A claim is closed, or opened again: it leaves a list, and what lay below moves up.
BeingRead(l) ==
    \E r \in Readers : runs[r].at = "read" /\ Lists[runs[r].list] = l /\ runs[r].page > 0
Shift(c) ==
    /\ kind = "claims" /\ stamp[c] # 0 /\ clock < MaxClock
    /\ clock' = clock + 1
    /\ stamp' = [stamp EXCEPT ![c] = clock + 1]
    /\ list' = [list EXCEPT ![c] = IF @ = "opened" THEN "closed" ELSE "opened"]
    /\ skewed' = (skewed \/ BeingRead(list[c]))
    /\ UNCHANGED <<kind, known, named, runs, trouble>>

---------------------------------------------------------------------------
(* A run                                                                   *)

\* The scheduler's job, or an endpoint: what is stored is read first.
Start(r) ==
    /\ runs[r].at = "rest"
    /\ runs' = [runs EXCEPT ![r] = [Rest EXCEPT !.at = "read", !.knew = known]]
    /\ skewed' = (skewed \/ \E o \in Readers : runs[o].at # "rest")
    /\ UNCHANGED <<kind, clock, stamp, list, known, named, trouble>>

Listed(l) == {c \in Claims : stamp[c] # 0 /\ list[c] = l}
Above(c) == Cardinality({d \in Listed(list[c]) : stamp[d] > stamp[c]})
Page(l, p) == {c \in Listed(l) : Above(c) \div PageSize = p}

\* A claim is news if its stamp is not the one stored, an infraction without a row.
News(x, c) == IF kind = "claims" THEN x.knew[c] # stamp[c] ELSE x.knew[c] = 0

LastPage(x, l, page, news) ==
    \/ page = {} \/ news = {}
    \/ (x.page + 1) * PageSize >= Cardinality(Listed(l))
    \/ x.page + 1 = MaxPages

Read1(x) ==
    LET l == Lists[x.list]
        page == Page(l, x.page)
        news == {c \in page : News(x, c)}
        y == [x EXCEPT !.found = [c \in Claims |-> IF c \in news THEN stamp[c] ELSE @[c]]]
    IN  IF ~LastPage(x, l, page, news) THEN [y EXCEPT !.page = @ + 1]
        ELSE IF x.list < Cardinality(DOMAIN Lists) THEN [y EXCEPT !.page = 0, !.list = @ + 1]
        ELSE [y EXCEPT !.at = "write"]

Merged(rows, found) == [c \in Claims |-> IF found[c] # 0 THEN found[c] ELSE rows[c]]

\* Mutant of ReadPage: every page is stored when it is read.
StorePage(r) ==
    /\ runs[r].at = "read"
    /\ runs' = [runs EXCEPT ![r] = Read1(@)]
    /\ known' = Merged(known, runs'[r].found)
    /\ UNCHANGED <<kind, clock, stamp, list, named, skewed, trouble>>

ReadPage(r) ==
    /\ runs[r].at = "read"
    /\ runs' = [runs EXCEPT ![r] = Read1(@)]
    /\ UNCHANGED <<kind, clock, stamp, list, known, named, skewed, trouble>>

\* A page that fails ends the run.
PageFails(r) ==
    /\ runs[r].at = "read" /\ trouble > 0
    /\ runs' = [runs EXCEPT ![r] = Rest]
    /\ trouble' = trouble - 1
    /\ UNCHANGED <<kind, clock, stamp, list, known, named, skewed>>

\* The reasons of what was found are asked for, and those that fail are left out;
\* then all is stored at once.
Store(r) ==
    /\ runs[r].at = "write"
    /\ LET found == {c \in Claims : runs[r].found[c] # 0} IN
       \E failed \in SUBSET (found \ named) :
         /\ failed # {} => kind = "claims" /\ trouble > 0
         /\ trouble' = IF failed = {} THEN trouble ELSE trouble - 1
         /\ named' = IF kind = "claims" THEN named \cup (found \ failed) ELSE named
    /\ known' = Merged(known, runs[r].found)
    /\ runs' = [runs EXCEPT ![r] = Rest]
    /\ UNCHANGED <<kind, clock, stamp, list, skewed>>

Restart ==
    /\ trouble > 0 /\ \E r \in Readers : runs[r].at # "rest"
    /\ trouble' = trouble - 1
    /\ runs' = [r \in Readers |-> Rest]
    /\ UNCHANGED <<kind, clock, stamp, list, known, named, skewed>>

\* Where a gap is possible nothing is claimed, and nothing more is explored.
Next ==
    /\ ~skewed
    /\ \/ \E c \in Claims : Stamp(c) \/ Shift(c)
       \/ \E r \in Readers : Start(r) \/ ReadPage(r) \/ PageFails(r) \/ Store(r)
       \/ Restart

Spec == Init /\ [][Next]_nvars

\* The scheduler starts the job again and again, the loop carries a run on.
Fairness == /\ WF_nvars(~skewed /\ Start("job"))
            /\ \A r \in Readers : WF_nvars(~skewed /\ (ReadPage(r) \/ Store(r)))
FairSpec == Spec /\ Fairness

---------------------------------------------------------------------------
\* The rows of claims, or of infractions, and of the reasons named.
Rows == [Claims -> 0..MaxClock]
Reasons == SUBSET Claims

TypeOK ==
    /\ kind \in {"claims", "infractions"} /\ clock \in 0..MaxClock
    /\ stamp \in [Claims -> 0..clock] /\ list \in [Claims -> {"opened", "closed"}]
    /\ known \in Rows /\ \A c \in Claims : known[c] <= stamp[c]
    /\ named \in Reasons /\ \A c \in named : known[c] # 0
    /\ \A r \in Readers :
         /\ runs[r].at \in {"rest", "read", "write"}
         /\ runs[r].list \in DOMAIN Lists /\ runs[r].page \in 0..MaxPages - 1
         /\ \A c \in Claims : runs[r].found[c] <= stamp[c] /\ runs[r].knew[c] <= stamp[c]

\* "Stops once a page holds only claims already stored": what makes that right.  If
\* a claim is stored as it is, so is every one below it in its list, as long as no
\* claim left a list between two of its pages and no two runs overlapped.
NoGap ==
    skewed \/ \A c, d \in Claims :
        /\ stamp[c] > stamp[d] /\ stamp[d] # 0 /\ list[c] = list[d]
        /\ known[c] = stamp[c]
        => known[d] = stamp[d]

\* What was listed is stored in the end: a run that was cut is made good by the next.
Arrived == skewed \/ known = stamp
EveryClaimArrives == <>[]Arrived
=============================================================================
