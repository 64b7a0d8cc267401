--------------------------- MODULE ImportsProofs ---------------------------
(***************************************************************************)
(* Proofs about the parts of MCImports, for any numbers of listings, of      *)
(* windows and of operators: that what the program reports is so.            *)
(***************************************************************************)
EXTENDS MCImports, FiniteSetTheorems, TLAPS

---------------------------------------------------------------------------
\* Every instance has a cardinality of its own, which is the one of FiniteSets.
LEMMA SameSize ==
  /\ \A S : Ft!Cardinality(S) = Cardinality(S)
  /\ \A S : Mg!Cardinality(S) = Cardinality(S)
  /\ \A S : Iv!Cardinality(S) = Cardinality(S)
  BY DEF Ft!Cardinality, Mg!Cardinality, Iv!Cardinality, Cardinality

---------------------------------------------------------------------------
(* Counting                                                                *)

\* A set of naturals has a least element.
LEMMA Smallest ==
    ASSUME NEW T \in SUBSET Nat, T # {}
    PROVE  \E n \in T : \A m \in T : n <= m
<1> DEFINE R == {ss \in Nat \X Nat : ss[1] < ss[2]}
<1>1. IsWellFoundedOn(R, Nat)
  BY NatLessThanWellFounded DEF OpToRel
<1>2. PICK n \in T : \A m \in T : ~ (<<m, n>> \in R)
  <2> HIDE DEF R
  <2> QED BY <1>1, WFMin
<1>3. ASSUME NEW m \in T PROVE n <= m
  <2>1. n \in Nat /\ m \in Nat /\ ~(<<m, n>> \in R)
    BY <1>2
  <2>2. ~(m < n)
    BY <2>1
  <2> QED BY <2>1, <2>2
<1> QED BY <1>3

\* Of a table that counts from zero: where f is a table of naturals over S, the pairs
\* of a member and a number below its count.
Counted(f, S) == {p \in S \X Nat : p[2] < f[p[1]]}

\* Where some counts rise by one, or some fall by one, there are as many more or fewer.
LEMMA CountedRises ==
  ASSUME NEW S, IsFiniteSet(S), NEW f, NEW g, NEW T \in SUBSET S,
         \A x \in S : f[x] \in Nat /\ g[x] \in Nat /\ g[x] <= f[x] + (IF x \in T THEN 1 ELSE 0),
         IsFiniteSet(Counted(f, S))
  PROVE  /\ IsFiniteSet(Counted(g, S))
         /\ Cardinality(Counted(g, S)) <= Cardinality(Counted(f, S)) + Cardinality(T)
  <1> DEFINE F == Counted(f, S)
             G == Counted(g, S)
             A == {<<x, f[x]>> : x \in T}
             h == [x \in T |-> <<x, f[x]>>]
  <1>1. h \in Surjection(T, A) BY DEF Surjection
  <1>2. IsFiniteSet(T) /\ Cardinality(T) \in Nat BY FS_Subset, FS_CardinalityType
  <1>3. IsFiniteSet(A) /\ Cardinality(A) <= Cardinality(T)
    <2> HIDE DEF A, h
    <2> QED BY <1>1, <1>2, FS_Surjection
  <1>4. G \subseteq F \cup A
    <2> SUFFICES ASSUME NEW p \in G, p \notin F PROVE p \in A
      OBVIOUS
    <2>1. p \in S \X Nat /\ p[1] \in S /\ p[2] \in Nat /\ p = <<p[1], p[2]>> BY DEF Counted
    <2>2. p[2] < g[p[1]] /\ ~(p[2] < f[p[1]]) BY <2>1 DEF Counted
    <2>3. f[p[1]] \in Nat /\ g[p[1]] \in Nat
          /\ g[p[1]] <= f[p[1]] + (IF p[1] \in T THEN 1 ELSE 0)
      BY <2>1
    <2>4. p[1] \in T /\ p[2] = f[p[1]] BY <2>1, <2>2, <2>3
    <2> QED BY <2>1, <2>4
  <1> HIDE DEF F, G, A
  <1>5. IsFiniteSet(F) BY DEF F
  <1>6. IsFiniteSet(F \cup A) /\ Cardinality(F \cup A) = Cardinality(F) + Cardinality(A) - Cardinality(F \cap A)
    BY <1>3, <1>5, FS_Union
  <1>7. IsFiniteSet(G) /\ Cardinality(G) <= Cardinality(F \cup A) BY <1>4, <1>6, FS_Subset
  <1>8. IsFiniteSet(F \cap A) BY <1>5, FS_Intersection
  <1>9. /\ Cardinality(F) \in Nat /\ Cardinality(A) \in Nat /\ Cardinality(F \cap A) \in Nat
        /\ Cardinality(G) \in Nat /\ Cardinality(F \cup A) \in Nat
    BY <1>3, <1>5, <1>6, <1>7, <1>8, FS_CardinalityType
  <1>10. Cardinality(G) <= Cardinality(F) + Cardinality(T) BY <1>2, <1>3, <1>6, <1>7, <1>9
  <1> QED BY <1>7, <1>10 DEF F, G

LEMMA CountedFalls ==
  ASSUME NEW S, IsFiniteSet(S), NEW f, NEW g, NEW U \in SUBSET S,
         \A x \in S : f[x] \in Nat /\ g[x] \in Nat /\ g[x] + (IF x \in U THEN 1 ELSE 0) <= f[x],
         IsFiniteSet(Counted(f, S))
  PROVE  /\ IsFiniteSet(Counted(g, S))
         /\ Cardinality(Counted(g, S)) + Cardinality(U) <= Cardinality(Counted(f, S))
  <1> DEFINE F == Counted(f, S)
             G == Counted(g, S)
             B == {<<x, g[x]>> : x \in U}
             h == [p \in B |-> p[1]]
  <1>1. h \in Surjection(B, U)
    <2>1. \A x \in U : <<x, g[x]>> \in B /\ h[<<x, g[x]>>] = x OBVIOUS
    <2>2. \A p \in B : h[p] \in U OBVIOUS
    <2>3. h \in [B -> U] BY <2>2
    <2> HIDE DEF h, B
    <2> QED BY <2>1, <2>3 DEF Surjection
  <1>2. B \subseteq F
    <2> SUFFICES ASSUME NEW x \in U PROVE <<x, g[x]>> \in F
      OBVIOUS
    <2>1. x \in S /\ g[x] \in Nat /\ f[x] \in Nat /\ g[x] < f[x] OBVIOUS
    <2> QED BY <2>1 DEF Counted
  <1>3. B \cap G = {} BY DEF Counted
  <1>4. G \subseteq F
    <2> SUFFICES ASSUME NEW p \in G PROVE p \in F
      OBVIOUS
    <2>1. p \in S \X Nat /\ p[1] \in S /\ p[2] \in Nat /\ p[2] < g[p[1]] BY DEF Counted
    <2>2. f[p[1]] \in Nat /\ g[p[1]] \in Nat /\ g[p[1]] <= f[p[1]] BY <2>1
    <2> QED BY <2>1, <2>2 DEF Counted
  <1> HIDE DEF F, G, B, h
  <1>5. IsFiniteSet(F) BY DEF F
  <1>6. IsFiniteSet(B) /\ IsFiniteSet(G) BY <1>2, <1>4, <1>5, FS_Subset
  <1>7. IsFiniteSet(U) /\ Cardinality(U) <= Cardinality(B) BY <1>1, <1>6, FS_Surjection
  <1>8. Cardinality(B \cap G) = 0 BY <1>3, FS_EmptySet
  <1>9. /\ IsFiniteSet(B \cup G)
        /\ Cardinality(B \cup G) = Cardinality(B) + Cardinality(G) - Cardinality(B \cap G)
    BY <1>6, FS_Union
  <1>10. B \cup G \subseteq F BY <1>2, <1>4
  <1>11. Cardinality(B \cup G) <= Cardinality(F) BY <1>5, <1>10, FS_Subset
  <1>12. /\ Cardinality(F) \in Nat /\ Cardinality(B) \in Nat /\ Cardinality(U) \in Nat
         /\ Cardinality(G) \in Nat /\ Cardinality(B \cup G) \in Nat
    BY <1>5, <1>6, <1>7, <1>9, FS_CardinalityType
  <1>13. Cardinality(G) + Cardinality(U) <= Cardinality(F)
    BY <1>7, <1>8, <1>9, <1>11, <1>12
  <1> QED BY <1>6, <1>13 DEF F, G

---------------------------------------------------------------------------
(* Full tracking                                                           *)

\* Two active rows are never of one listing.
OneRow ==
    \A i, j \in Ft!Ids :
        /\ rows[i].status = "tracking" /\ rows[j].status = "tracking"
        /\ rows[i].mlb = rows[j].mlb
        => i = j

\* A list that was half read leaves out what is hidden, or was new, or was taken.
HalfRead(o) ==
    request[o].at = "novos" =>
        Listings \ request[o].seen \subseteq Ft!Hidden \cup was[o] \cup taken[o]
AllRead(o) ==
    request[o].at = "show" => request[o].seen \subseteq was[o] \cup taken[o]

TrackingInv ==
    /\ DOMAIN rows = Ft!Ids /\ DOMAIN request = Operators
    /\ OneRow
    /\ \A o \in Operators : HalfRead(o) /\ AllRead(o)

LEMMA TrackingInit == Ft!Init => TrackingInv
  BY DEF Ft!Init, TrackingInv, OneRow, HalfRead, AllRead, Ft!NoRow, Ft!Nothing, Ft!Ids

\* The rows after a step: as they were, one changed that is not active then, one
\* changed that was, or a new one of a listing without.
LEMMA RowsStep ==
  ASSUME TrackingInv, Ft!Next
  PROVE  DOMAIN rows' = Ft!Ids /\ OneRow'
  <1>0. DOMAIN rows = Ft!Ids /\ OneRow
    BY DEF TrackingInv
  <1>1. ASSUME NEW i, DOMAIN rows' = DOMAIN rows,
               \A j \in Ft!Ids : j # i => rows'[j] = rows[j],
               i \in Ft!Ids /\ rows'[i].status = "tracking" =>
                 rows[i].status = "tracking" /\ rows'[i].mlb = rows[i].mlb
        PROVE  DOMAIN rows' = Ft!Ids /\ OneRow'
    BY <1>0, <1>1 DEF OneRow
  <1>2. CASE UNCHANGED rows
    BY <1>0, <1>2 DEF OneRow
  <1>3. ASSUME NEW m, Ft!Active(m) = {}, Ft!Tracks(m)
        PROVE  DOMAIN rows' = Ft!Ids /\ OneRow'
    <2>1. PICK i \in Ft!Ids :
            rows' = [rows EXCEPT ![i] = [Ft!NoRow EXCEPT !.mlb = m, !.status = "tracking"]]
      BY <1>3 DEF Ft!Tracks
    <2>2. /\ DOMAIN rows' = Ft!Ids /\ rows'[i].mlb = m
          /\ \A j \in Ft!Ids : j # i => rows'[j] = rows[j]
      BY <1>0, <2>1 DEF Ft!NoRow
    <2>3. \A j \in Ft!Ids : rows[j].status = "tracking" => rows[j].mlb # m
      BY <1>3 DEF Ft!Active
    <2> QED BY <1>0, <2>2, <2>3 DEF OneRow
  <1>4. ASSUME NEW o \in Operators, Ft!TrackWrites(o)
        PROVE  DOMAIN rows' = Ft!Ids /\ OneRow'
    BY <1>2, <1>3, <1>4 DEF Ft!TrackWrites
  <1>5. ASSUME NEW o \in Operators, NEW i \in Ft!Ids, Ft!Annotate(o, i)
        PROVE  DOMAIN rows' = Ft!Ids /\ OneRow'
    <2>1. rows' = [rows EXCEPT ![i] = [rows[i] EXCEPT !.notes = 1]]
      BY <1>5 DEF Ft!Annotate
    <2>2. /\ [rows[i] EXCEPT !.notes = 1].status = rows[i].status
          /\ [rows[i] EXCEPT !.notes = 1].mlb = rows[i].mlb
      OBVIOUS
    <2> QED BY <1>0, <1>1, <2>1, <2>2
  <1>6. ASSUME NEW o \in Operators, NEW i \in Ft!Ids, Ft!RemoveTracking(o, i)
        PROVE  DOMAIN rows' = Ft!Ids /\ OneRow'
    <2> DEFINE x == [rows[i] EXCEPT !.status = "removed", !.notes = 0]
    <2>1. rows' = [rows EXCEPT ![i] = x]
      BY <1>6, Zenon DEF Ft!RemoveTracking
    <2>2. x.status # "tracking"
      OBVIOUS
    <2> QED BY <1>0, <1>1, <2>1, <2>2
  <1>7. ASSUME NEW o \in Operators, Ft!FinalizeWrites(o)
        PROVE  DOMAIN rows' = Ft!Ids /\ OneRow'
    <2> DEFINE i == request[o].id
               x == [rows[i] EXCEPT !.status = "finalized", !.finals = @ + 1]
    <2>1. rows' = rows \/ rows' = [rows EXCEPT ![i] = x]
      BY <1>7, Zenon DEF Ft!FinalizeWrites
    <2>2. i \in Ft!Ids => x.status # "tracking"
      OBVIOUS
    <2> HIDE DEF i, x
    <2> QED BY <1>0, <1>1, <1>2, <2>1, <2>2
  <1>8. \/ UNCHANGED rows
        \/ \E o \in Operators : Ft!TrackWrites(o) \/ Ft!FinalizeWrites(o)
        \/ \E o \in Operators, i \in Ft!Ids : Ft!Annotate(o, i) \/ Ft!RemoveTracking(o, i)
    BY DEF Ft!Next, Ft!Dismiss, Ft!Restore, Ft!TrackReads, Ft!IgnoreEnds, Ft!FinalizeReads,
           Ft!ReadTracked, Ft!ReadHidden, Ft!Show
  <1> QED BY <1>2, <1>4, <1>5, <1>6, <1>7, <1>8

\* Whatever changes in one step: what was hidden is hidden, new or taken then.
LEMMA ListsStep ==
  ASSUME TrackingInv, Ft!Next
  PROVE  DOMAIN request' = Operators /\ \A o \in Operators : HalfRead(o)' /\ AllRead(o)'
  <1>0. DOMAIN request = Operators /\ \A o \in Operators : HalfRead(o) /\ AllRead(o)
    BY DEF TrackingInv
  <1>1. \A o \in Operators : request'[o].at \in {"novos", "show"} =>
          /\ was'[o] = was[o] \cup Ft!IsNew'
          /\ taken'[o] = taken[o] \cup (Ft!Hidden \cap Ft!Tracked')
    BY DEF Ft!Next, Ft!Watch
  <1>2. \A m \in Listings \ Ft!Tracked' : m \in Ft!Hidden' \cup Ft!IsNew'
    BY DEF Ft!IsNew
  <1>3. \A m \in Ft!Hidden : m \in Ft!Hidden' \cup Ft!IsNew' \cup (Ft!Hidden \cap Ft!Tracked')
    BY DEF Ft!IsNew, Ft!Hidden
  <1>4. ASSUME NEW o \in Operators, request'[o] = request[o]
        PROVE  HalfRead(o)' /\ AllRead(o)'
    BY <1>0, <1>1, <1>3, <1>4 DEF HalfRead, AllRead
  <1>5. ASSUME NEW o \in Operators, request'[o].at \notin {"novos", "show"}
        PROVE  HalfRead(o)' /\ AllRead(o)'
    BY <1>5 DEF HalfRead, AllRead
  <1>6. ASSUME NEW o \in Operators, NEW x, Ft!Ask(o, x),
               HalfRead(o)' /\ AllRead(o)'
        PROVE  DOMAIN request' = Operators /\ \A p \in Operators : HalfRead(p)' /\ AllRead(p)'
    <2>1. DOMAIN request' = Operators /\ \A p \in Operators : p # o => request'[p] = request[p]
      BY <1>0, <1>6 DEF Ft!Ask
    <2> QED BY <1>4, <1>6, <2>1
  <1>7. CASE UNCHANGED request
    BY <1>0, <1>4, <1>7
  <1>8. ASSUME NEW o \in Operators, Ft!ReadTracked(o)
        PROVE  DOMAIN request' = Operators /\ \A p \in Operators : HalfRead(p)' /\ AllRead(p)'
    <2> DEFINE x == [Ft!Nothing EXCEPT !.at = "novos", !.seen = Ft!Tracked]
    <2>1. Ft!Ask(o, x) /\ UNCHANGED rows BY <1>8 DEF Ft!ReadTracked
    <2>2. x.at = "novos" /\ x.seen = Ft!Tracked BY DEF Ft!Nothing
    <2>3. request'[o] = x BY <1>0, <2>1 DEF Ft!Ask
    <2>4. Ft!Tracked' = Ft!Tracked BY <2>1 DEF Ft!Tracked, Ft!Active
    <2> HIDE DEF x
    <2>5. HalfRead(o)' /\ AllRead(o)'
      BY <1>1, <1>2, <2>2, <2>3, <2>4 DEF HalfRead, AllRead
    <2> QED BY <1>6, <2>1, <2>5
  <1>9. ASSUME NEW o \in Operators, Ft!ReadHidden(o)
        PROVE  DOMAIN request' = Operators /\ \A p \in Operators : HalfRead(p)' /\ AllRead(p)'
    <2> DEFINE r == request[o]
               S == Listings \ (r.seen \cup Ft!Hidden)
               x == [r EXCEPT !.at = "show", !.seen = S]
    <2>1. Ft!Ask(o, x) /\ r.at = "novos"
      BY <1>9 DEF Ft!ReadHidden
    <2>2. request'[o] = x BY <1>0, <2>1 DEF Ft!Ask
    <2>3. x.at = "show" => x.seen = S
      OBVIOUS
    <2>4. x.at # "novos"
      OBVIOUS
    <2>5. S \subseteq was[o] \cup taken[o]
      BY <1>0, <2>1 DEF HalfRead
    <2> HIDE DEF x, S, r
    <2>6. HalfRead(o)' /\ AllRead(o)'
      BY <1>1, <2>2, <2>3, <2>4, <2>5 DEF HalfRead, AllRead
    <2> QED BY <1>6, <2>1, <2>6
  <1>10. ASSUME NEW o \in Operators, NEW x, Ft!Ask(o, x), x.at \notin {"novos", "show"}
         PROVE  DOMAIN request' = Operators /\ \A p \in Operators : HalfRead(p)' /\ AllRead(p)'
    <2>1. request'[o] = x BY <1>0, <1>10 DEF Ft!Ask
    <2> QED BY <1>5, <1>6, <1>10, <2>1
  <1>11. ASSUME NEW o \in Operators, Ft!Answer(o)
         PROVE  DOMAIN request' = Operators /\ \A p \in Operators : HalfRead(p)' /\ AllRead(p)'
    BY <1>10, <1>11 DEF Ft!Answer, Ft!Nothing
  <1>12. ASSUME NEW o \in Operators, NEW m, Ft!TrackReads(o, m)
         PROVE  DOMAIN request' = Operators /\ \A p \in Operators : HalfRead(p)' /\ AllRead(p)'
    <2> DEFINE x == [Ft!Nothing EXCEPT !.at = "track", !.mlb = m]
    <2>1. Ft!Ask(o, x) BY <1>12 DEF Ft!TrackReads
    <2>2. x.at = "track" BY DEF Ft!Nothing
    <2> QED BY <1>10, <2>1, <2>2
  <1>13. ASSUME NEW o \in Operators, NEW i, Ft!FinalizeReads(o, i)
         PROVE  DOMAIN request' = Operators /\ \A p \in Operators : HalfRead(p)' /\ AllRead(p)'
    <2> DEFINE x == [Ft!Nothing EXCEPT !.at = "finalize", !.id = i]
    <2>1. Ft!Ask(o, x) BY <1>13 DEF Ft!FinalizeReads
    <2>2. x.at = "finalize" BY DEF Ft!Nothing
    <2> QED BY <1>10, <2>1, <2>2
  <1>14. \/ UNCHANGED request
         \/ \E o \in Operators : \/ Ft!Answer(o) \/ Ft!ReadTracked(o) \/ Ft!ReadHidden(o)
                                 \/ \E m \in Listings : Ft!TrackReads(o, m)
                                 \/ \E i \in Ft!Ids : Ft!FinalizeReads(o, i)
    BY DEF Ft!Next, Ft!Dismiss, Ft!Restore, Ft!IgnoreEnds, Ft!Annotate, Ft!RemoveTracking,
           Ft!TrackWrites, Ft!FinalizeWrites, Ft!Show
  <1> QED BY <1>7, <1>8, <1>9, <1>11, <1>12, <1>13, <1>14

LEMMA TrackingStep ==
  ASSUME TrackingInv, [Ft!Next]_trackingVars
  PROVE  TrackingInv'
  <1>1. CASE Ft!Next
    BY <1>1, RowsStep, ListsStep DEF TrackingInv
  <1>2. CASE UNCHANGED trackingVars
    BY <1>2 DEF trackingVars, TrackingInv, OneRow, HalfRead, AllRead, Ft!Hidden
  <1> QED BY <1>1, <1>2

LEMMA TrackingHolds == TrackingInv => Ft!OneActive /\ Ft!ShownWasNew
  <1> SUFFICES ASSUME TrackingInv PROVE Ft!OneActive /\ Ft!ShownWasNew
    OBVIOUS
  <1>1. ASSUME NEW m \in Listings PROVE Cardinality(Ft!Active(m)) <= 1
    <2>1. CASE Ft!Active(m) = {} BY <2>1, FS_EmptySet
    <2>2. ASSUME NEW i, Ft!Active(m) = {i} PROVE Cardinality(Ft!Active(m)) <= 1
      <3>1. Cardinality({i}) = 1 BY FS_Singleton
      <3> QED BY <2>2, <3>1
    <2> QED BY <2>1, <2>2 DEF TrackingInv, OneRow, Ft!Active
  <1>2. Ft!OneActive BY <1>1, SameSize DEF Ft!OneActive
  <1>3. Ft!ShownWasNew BY DEF Ft!ShownWasNew, TrackingInv, AllRead
  <1> QED BY <1>2, <1>3

---------------------------------------------------------------------------
(* Migration                                                               *)

TaskStates == {"none", "post", "mark", "marked", "failed", "counted", "lost", "dead"}
TaskRecords == [at : TaskStates, tries : Nat]
Requests == [at : {"quiet", "ask", "start"}, already : SUBSET Items, asked : SUBSET Items,
             seemed : SUBSET Items, todo : SUBSET Items]
Hashes == [status : {"none", "running", "done"}, total : Nat, done : Nat, failed : Nat]

MigrationTypes ==
    /\ tasks \in [Items -> TaskRecords] /\ op \in Requests /\ progress \in Hashes
    /\ joined \subseteq Items

\* Before a task starts there is no hash, and without a hash there is no task.
OneAtATime ==
    /\ op.at # "quiet" => progress.status = "none"
    /\ progress.status = "none" => \A i \in Items : tasks[i].at = "none"

\* Whoever was seen in the campaign is there or left.
WasThere == op.already \cup mirror \subseteq joined \cup left

\* Only those of the last attempt failed; who was enrolled is there or left, and is
\* marked, unless the database failed.
Enrolled(i) ==
    /\ tasks[i].at = "failed" => tasks[i].tries = Attempts
    /\ \/ tasks[i].at \in {"mark", "marked"}
       \/ tasks[i].at = "counted" /\ tasks[i].tries < Attempts
       => i \in joined \cup left
    /\ \/ tasks[i].at = "marked"
       \/ tasks[i].at = "counted" /\ tasks[i].tries < Attempts
       => i \in mirror \cup missed \cup left

\* The counts and the enrolments not yet counted make the total.
Open == {i \in Items : tasks[i].at \notin {"none", "counted"}}
Unbroken == \A i \in Items : tasks[i].at \notin {"lost", "dead"}
AddsUp ==
    Unbroken /\ progress.status # "none" =>
        /\ progress.total = progress.done + progress.failed + Cardinality(Open)
        /\ progress.status = "done" => Open = {}

MigrationInv ==
    MigrationTypes /\ OneAtATime /\ WasThere /\ (\A i \in Items : Enrolled(i)) /\ AddsUp

LEMMA MigrationInit == Mg!Init => MigrationInv
  <1> SUFFICES ASSUME Mg!Init PROVE MigrationInv
    OBVIOUS
  <1>1. /\ op = Mg!Quiet /\ progress = Mg!NoProgress /\ tasks = [i \in Items |-> Mg!NoTask]
        /\ joined \subseteq Items /\ mirror \subseteq joined
    BY DEF Mg!Init
  <1>2. MigrationTypes
    BY <1>1 DEF MigrationTypes, Mg!Quiet, Mg!NoProgress, Mg!NoTask, TaskRecords, TaskStates,
               Requests, Hashes
  <1>3. OneAtATime /\ AddsUp
    BY <1>1 DEF OneAtATime, AddsUp, Mg!Quiet, Mg!NoProgress, Mg!NoTask
  <1>4. WasThere /\ \A i \in Items : Enrolled(i)
    BY <1>1 DEF WasThere, Enrolled, Mg!Quiet, Mg!NoTask
  <1> QED BY <1>2, <1>3, <1>4 DEF MigrationInv

\* A step that leaves the tasks and the hash alone, and keeps who was there.
LEMMA TasksRest ==
  ASSUME MigrationInv, UNCHANGED <<tasks, progress>>, op' \in Requests, joined' \subseteq Items,
         op'.at # "quiet" => progress.status = "none",
         op'.already \cup mirror' \subseteq joined' \cup left',
         joined \cup left \subseteq joined' \cup left',
         mirror \cup missed \cup left \subseteq mirror' \cup missed' \cup left'
  PROVE  MigrationInv'
  <1>1. MigrationTypes' BY DEF MigrationInv, MigrationTypes
  <1>2. OneAtATime' BY DEF MigrationInv, OneAtATime
  <1>3. WasThere' BY DEF WasThere
  <1>4. \A i \in Items : Enrolled(i)' BY DEF MigrationInv, Enrolled
  <1>5. AddsUp' BY DEF MigrationInv, AddsUp, Open, Unbroken
  <1> QED BY <1>1, <1>2, <1>3, <1>4, <1>5 DEF MigrationInv

\* What others do.
LEMMA OthersStep ==
  ASSUME MigrationInv,
         \/ \E i \in Items : Mg!Leave(i) \/ \E f \in Mg!Fits : Mg!Flicker(i, f)
  PROVE  MigrationInv'
  <1>0. op \in Requests /\ joined \subseteq Items /\ OneAtATime /\ WasThere
    BY DEF MigrationInv, MigrationTypes
  <1>1. ASSUME NEW i \in Items, Mg!Leave(i) PROVE MigrationInv'
    <2>1. /\ UNCHANGED <<tasks, progress, op, mirror, missed>> /\ joined' = joined \ {i}
          /\ left' = left \cup {i}
      BY <1>1 DEF Mg!Leave
    <2> QED BY <1>0, <2>1, TasksRest DEF OneAtATime, WasThere
  <1>2. ASSUME NEW i \in Items, NEW f, Mg!Flicker(i, f) PROVE MigrationInv'
    BY <1>0, <1>2, TasksRest DEF Mg!Flicker, OneAtATime, WasThere
  <1> QED BY <1>1, <1>2

\* The sweep makes the marks what ML says.
LEMMA SweepStep ==
  ASSUME MigrationInv, Mg!Sweep
  PROVE  MigrationInv'
  <1>1. /\ op.at = "quiet" /\ UNCHANGED <<joined, op, tasks, progress, left>>
        /\ mirror' = joined
    BY DEF Mg!Sweep
  <1>2. MigrationTypes' BY <1>1 DEF MigrationInv, MigrationTypes
  <1>3. OneAtATime' BY <1>1 DEF MigrationInv, OneAtATime
  <1>4. WasThere' BY <1>1 DEF MigrationInv, WasThere
  <1>5. \A i \in Items : Enrolled(i)' BY <1>1 DEF MigrationInv, Enrolled
  <1>6. AddsUp' BY <1>1 DEF MigrationInv, AddsUp, Open, Unbroken
  <1> QED BY <1>2, <1>3, <1>4, <1>5, <1>6 DEF MigrationInv

\* The request, up to the start of the task.
LEMMA RequestStep ==
  ASSUME MigrationInv,
         \/ Mg!ReadLists \/ Mg!DryRun \/ Mg!Reconcile
         \/ \E i \in Items : Mg!Classify(i) \/ Mg!ClassifyAgain(i)
  PROVE  MigrationInv'
  <1>0. op \in Requests /\ joined \subseteq Items /\ OneAtATime /\ WasThere
    BY DEF MigrationInv, MigrationTypes
  <1>1. CASE Mg!ReadLists
    <2>1. /\ UNCHANGED <<tasks, progress, joined, left, mirror, missed>>
          /\ progress.status = "none"
          /\ op' = [Mg!Quiet EXCEPT !.at = "ask", !.already = joined, !.asked = Items \ joined]
      BY <1>1 DEF Mg!ReadLists
    <2>2. op' = [at |-> "ask", already |-> joined, asked |-> Items \ joined, seemed |-> {},
                 todo |-> {}]
      BY <2>1 DEF Mg!Quiet
    <2>3. op' \in Requests /\ op'.already = joined
      BY <1>0, <2>2 DEF Requests
    <2> QED BY <1>0, <2>1, <2>3, TasksRest DEF WasThere
  <1>2. CASE Mg!DryRun
    <2>1. /\ UNCHANGED <<tasks, progress, joined, left, mirror, missed>> /\ op' = Mg!Quiet
      BY <1>2 DEF Mg!DryRun
    <2>2. op' \in Requests /\ op'.already = {} /\ op'.at = "quiet"
      BY <2>1 DEF Requests, Mg!Quiet
    <2> QED BY <1>0, <2>1, <2>2, TasksRest DEF WasThere
  <1>3. CASE Mg!Reconcile
    <2>1. /\ UNCHANGED <<tasks, progress, joined, left, missed>> /\ op.at = "ask"
          /\ mirror' = mirror \cup op.already /\ op' = [op EXCEPT !.at = "start"]
      BY <1>3 DEF Mg!Reconcile, Mg!Classified
    <2>2. op' \in Requests /\ op'.already = op.already /\ progress.status = "none"
      BY <1>0, <2>1 DEF Requests, OneAtATime
    <2> QED BY <1>0, <2>1, <2>2, TasksRest DEF WasThere
  <1>4. ASSUME NEW i \in Items, Mg!Classify(i) \/ Mg!ClassifyAgain(i) PROVE MigrationInv'
    <2>1. /\ UNCHANGED <<tasks, progress, joined, left, mirror, missed>> /\ op.at = "ask"
      BY <1>4 DEF Mg!Classify, Mg!ClassifyAgain
    <2>2. op.asked \subseteq Items /\ op.seemed \subseteq Items /\ op.todo \subseteq Items
      BY <1>0 DEF Requests
    <2>3. \E S, T, U \in SUBSET Items : op' = [op EXCEPT !.asked = S, !.seemed = T, !.todo = U]
      <3>1. CASE Mg!Classify(i)
        <4> DEFINE S == op.asked \ {i}
                   T == IF Mg!Candidate(i) THEN op.seemed \cup {i} ELSE op.seemed
        <4>1. S \in SUBSET Items /\ T \in SUBSET Items BY <2>2
        <4>2. op' = [op EXCEPT !.asked = S, !.seemed = T] BY <3>1 DEF Mg!Classify
        <4>3. op' = [op EXCEPT !.asked = S, !.seemed = T, !.todo = op.todo]
          BY <1>0, <4>2 DEF Requests
        <4> QED BY <2>2, <4>1, <4>3
      <3>2. CASE Mg!ClassifyAgain(i)
        <4> DEFINE T == op.seemed \ {i}
                   U == IF Mg!Candidate(i) THEN op.todo \cup {i} ELSE op.todo
        <4>1. T \in SUBSET Items /\ U \in SUBSET Items BY <2>2
        <4>2. op' = [op EXCEPT !.seemed = T, !.todo = U] BY <3>2 DEF Mg!ClassifyAgain
        <4>3. op' = [op EXCEPT !.asked = op.asked, !.seemed = T, !.todo = U]
          BY <1>0, <4>2 DEF Requests
        <4> QED BY <2>2, <4>1, <4>3
      <3> QED BY <1>4, <3>1, <3>2
    <2>4. op' \in Requests /\ op'.already = op.already /\ progress.status = "none"
      BY <1>0, <2>1, <2>3 DEF Requests, OneAtATime
    <2> QED BY <1>0, <2>1, <2>4, TasksRest, SMTT(30) DEF WasThere
  <1> QED BY <1>1, <1>2, <1>3, <1>4

LEMMA StartStep ==
  ASSUME MigrationInv, Mg!StartTask
  PROVE  MigrationInv'
  <1>0. op \in Requests /\ joined \subseteq Items /\ IsFiniteSet(Items)
    BY ImportsAssumption DEF MigrationInv, MigrationTypes
  <1> DEFINE A == Cardinality(op.already)
             T == Cardinality(op.todo)
  <1>1. A \in Nat /\ T \in Nat
    <2>1. IsFiniteSet(op.already) /\ IsFiniteSet(op.todo) BY <1>0, FS_Subset DEF Requests
    <2> QED BY <2>1, FS_CardinalityType
  <1>2. /\ progress' = [status |-> "running", done |-> A, failed |-> 0, total |-> A + T]
        /\ tasks' = [i \in Items |-> IF i \in op.todo THEN [at |-> "post", tries |-> 0]
                                                      ELSE Mg!NoTask]
        /\ op' = Mg!Quiet /\ UNCHANGED <<joined, mirror, missed, left>>
    BY SameSize DEF Mg!StartTask
  <1> HIDE DEF A, T
  <1>3. MigrationTypes'
    <2>1. progress' \in Hashes BY <1>1, <1>2 DEF Hashes
    <2>2. tasks' \in [Items -> TaskRecords] BY <1>2 DEF TaskRecords, TaskStates, Mg!NoTask
    <2>3. op' \in Requests BY <1>2 DEF Mg!Quiet, Requests
    <2> QED BY <1>0, <1>2, <2>1, <2>2, <2>3 DEF MigrationTypes
  <1>4. OneAtATime' BY <1>2 DEF OneAtATime, Mg!Quiet
  <1>5. WasThere' BY <1>2 DEF MigrationInv, WasThere, Mg!Quiet
  <1>6. \A i \in Items : Enrolled(i)' BY <1>2 DEF Enrolled, Mg!NoTask
  <1>7. Open' = op.todo
    BY <1>0, <1>2 DEF Open, Mg!NoTask, Requests
  <1>8. AddsUp'
    BY <1>1, <1>2, <1>7 DEF AddsUp, T
  <1> QED BY <1>3, <1>4, <1>5, <1>6, <1>8 DEF MigrationInv

\* One task goes on.
LEMMA OneTask ==
  ASSUME MigrationInv, NEW i \in Items, tasks[i].at # "none", NEW t \in TaskRecords,
         tasks' = [tasks EXCEPT ![i] = t], t.at # "none",
         UNCHANGED op, progress' \in Hashes, progress'.status # "none", joined' \subseteq Items,
         mirror' \subseteq mirror \cup joined \cup left,
         joined \cup left \subseteq joined' \cup left',
         (mirror \cup missed \cup left) \ {i} \subseteq mirror' \cup missed' \cup left',
         Enrolled(i)', AddsUp'
  PROVE  MigrationInv'
  <1>0. /\ tasks \in [Items -> TaskRecords] /\ op.at = "quiet" /\ OneAtATime
        /\ progress.status # "none"
    BY DEF MigrationInv, OneAtATime, MigrationTypes
  <1>1. MigrationTypes' BY <1>0 DEF MigrationInv, MigrationTypes
  <1>2. OneAtATime' BY <1>0 DEF OneAtATime
  <1>3. WasThere' BY DEF MigrationInv, WasThere
  <1>4. ASSUME NEW j \in Items PROVE Enrolled(j)'
    <2>1. CASE j # i
      <3>1. tasks'[j] = tasks[j] BY <1>0, <2>1
      <3> QED BY <2>1, <3>1 DEF MigrationInv, Enrolled
    <2> QED BY <2>1
  <1> QED BY <1>1, <1>2, <1>3, <1>4 DEF MigrationInv

\* As long as it is not counted, the counts stay as they are.
LEMMA StaysOpen ==
  ASSUME MigrationInv, NEW i \in Items, NEW t \in TaskRecords,
         tasks' = [tasks EXCEPT ![i] = t], UNCHANGED progress,
         tasks[i].at \notin {"none", "counted", "lost", "dead"},
         t.at \notin {"none", "counted", "lost", "dead"}
  PROVE  AddsUp'
  <1>1. tasks \in [Items -> TaskRecords] BY DEF MigrationInv, MigrationTypes
  <1>2. \A j \in Items : tasks'[j] = IF j = i THEN t ELSE tasks[j] BY <1>1
  <1>3. Open' = Open BY <1>2 DEF Open
  <1>4. Unbroken' => Unbroken BY <1>2 DEF Unbroken
  <1> QED BY <1>3, <1>4 DEF MigrationInv, AddsUp

LEMMA TaskGoes ==
  ASSUME MigrationInv, NEW i \in Items, NEW a \in TaskStates, Mg!Go(i, a)
  PROVE  LET t == [at |-> a, tries |-> tasks[i].tries] IN
         t \in TaskRecords /\ tasks' = [tasks EXCEPT ![i] = t] /\ tasks'[i] = t
  <1> DEFINE t == [at |-> a, tries |-> tasks[i].tries]
  <1>1. tasks \in [Items -> TaskRecords] /\ tasks[i] \in TaskRecords
    BY DEF MigrationInv, MigrationTypes
  <1>2. \A r \in TaskRecords : /\ [r EXCEPT !.at = a] = [at |-> a, tries |-> r.tries]
                               /\ [at |-> a, tries |-> r.tries] \in TaskRecords
    BY DEF TaskRecords
  <1>3. t \in TaskRecords /\ [tasks[i] EXCEPT !.at = a] = t
    BY <1>1, <1>2
  <1>4. tasks' = [tasks EXCEPT ![i] = [tasks[i] EXCEPT !.at = a]]
    BY DEF Mg!Go
  <1>5. tasks' = [tasks EXCEPT ![i] = t]
    BY <1>3, <1>4
  <1> HIDE DEF t
  <1>6. tasks'[i] = t
    BY <1>1, <1>5
  <1> QED BY <1>3, <1>5, <1>6 DEF t

LEMMA AttemptStep ==
  ASSUME MigrationInv, NEW i \in Items, Mg!Accepted(i) \/ Mg!Refused(i) \/ Mg!Mark(i)
  PROVE  MigrationInv'
  <1>0. /\ tasks \in [Items -> TaskRecords] /\ tasks[i] \in TaskRecords /\ progress \in Hashes
        /\ joined \subseteq Items
        /\ tasks[i] = [at |-> tasks[i].at, tries |-> tasks[i].tries] /\ tasks[i].tries \in Nat
        /\ Enrolled(i)
    BY DEF MigrationInv, MigrationTypes, TaskRecords
  <1>1. tasks[i].at # "none" => progress.status # "none"
    BY DEF MigrationInv, OneAtATime
  <1>2. ASSUME NEW a \in {"mark", "marked"}, Mg!Go(i, a)
        PROVE  /\ [at |-> a, tries |-> tasks[i].tries] \in TaskRecords
               /\ tasks' = [tasks EXCEPT ![i] = [at |-> a, tries |-> tasks[i].tries]]
               /\ tasks'[i] = [at |-> a, tries |-> tasks[i].tries]
    BY <1>2, TaskGoes DEF TaskStates
  <1>3. CASE Mg!Accepted(i)
    <2> DEFINE t == [at |-> "mark", tries |-> tasks[i].tries]
    <2>1. /\ tasks[i].at = "post" /\ UNCHANGED <<op, progress, mirror, missed>>
          /\ joined' = joined \cup {i} /\ left' = left \ {i}
          /\ Mg!Go(i, "mark")
      BY <1>3 DEF Mg!Accepted
    <2>2. t \in TaskRecords /\ tasks' = [tasks EXCEPT ![i] = t] /\ tasks'[i] = t
      BY <1>2, <2>1
    <2>3. t.at = "mark" OBVIOUS
    <2> HIDE DEF t
    <2>4. Enrolled(i)' BY <2>1, <2>2, <2>3 DEF Enrolled
    <2>5. AddsUp' BY <2>1, <2>2, <2>3, StaysOpen
    <2> QED BY <1>0, <1>1, <2>1, <2>2, <2>3, <2>4, <2>5, OneTask
  <1>4. CASE Mg!Mark(i)
    <2> DEFINE t == [at |-> "marked", tries |-> tasks[i].tries]
    <2>1. /\ tasks[i].at = "mark" /\ UNCHANGED <<op, progress, joined, left>>
          /\ \/ mirror' = mirror \cup {i} /\ UNCHANGED missed
             \/ missed' = missed \cup {i} /\ UNCHANGED mirror
          /\ Mg!Go(i, "marked")
      BY <1>4 DEF Mg!Mark
    <2>2. t \in TaskRecords /\ tasks' = [tasks EXCEPT ![i] = t] /\ tasks'[i] = t
      BY <1>2, <2>1
    <2>3. t.at = "marked" OBVIOUS
    <2> HIDE DEF t
    <2>4. Enrolled(i)' /\ i \in joined \cup left BY <1>0, <2>1, <2>2, <2>3 DEF Enrolled
    <2>5. AddsUp' BY <2>1, <2>2, <2>3, StaysOpen
    <2> QED BY <1>0, <1>1, <2>1, <2>2, <2>3, <2>4, <2>5, OneTask
  <1>5. CASE Mg!Refused(i)
    <2> DEFINE n == tasks[i].tries + 1
               t == [at |-> IF n = Attempts THEN "failed" ELSE "post", tries |-> n]
    <2>1. /\ tasks[i].at = "post" /\ UNCHANGED <<op, progress, mirror, missed>>
          /\ \/ UNCHANGED <<joined, left>>
             \/ joined' = joined \cup {i} /\ left' = left \ {i}
          /\ tasks' = [tasks EXCEPT ![i] = t]
      BY <1>5 DEF Mg!Refused
    <2>2. t \in TaskRecords /\ tasks'[i] = t
      BY <1>0, <2>1 DEF TaskRecords, TaskStates
    <2>3. t.at \in {"failed", "post"} /\ (t.at = "failed" => t.tries = Attempts) OBVIOUS
    <2> HIDE DEF t
    <2>4. Enrolled(i)' BY <2>1, <2>2, <2>3 DEF Enrolled
    <2>5. AddsUp' BY <2>1, <2>2, <2>3, StaysOpen
    <2> QED BY <1>0, <1>1, <2>1, <2>2, <2>3, <2>4, <2>5, OneTask
  <1> QED BY <1>3, <1>4, <1>5

LEMMA CountStep ==
  ASSUME MigrationInv, NEW i \in Items, Mg!Count(i) \/ Mg!CountLost(i)
  PROVE  MigrationInv'
  <1>0. /\ tasks \in [Items -> TaskRecords] /\ tasks[i] \in TaskRecords /\ progress \in Hashes
        /\ joined \subseteq Items
        /\ tasks[i] = [at |-> tasks[i].at, tries |-> tasks[i].tries] /\ tasks[i].tries \in Nat
        /\ Enrolled(i) /\ AddsUp /\ IsFiniteSet(Items)
    BY ImportsAssumption DEF MigrationInv, MigrationTypes, TaskRecords
  <1>1. /\ tasks[i].at \in {"marked", "failed"} /\ progress.status # "none"
        /\ UNCHANGED <<op, mirror, missed, joined, left>>
    BY DEF MigrationInv, OneAtATime, Mg!Count, Mg!CountLost
  <1>2. ASSUME NEW a \in {"counted", "lost"}, Mg!Go(i, a)
        PROVE  /\ [at |-> a, tries |-> tasks[i].tries] \in TaskRecords
               /\ tasks' = [tasks EXCEPT ![i] = [at |-> a, tries |-> tasks[i].tries]]
               /\ tasks'[i] = [at |-> a, tries |-> tasks[i].tries]
    BY <1>2, TaskGoes DEF TaskStates
  <1>3. CASE Mg!Count(i)
    <2> DEFINE t == [at |-> "counted", tries |-> tasks[i].tries]
    <2>1. /\ Mg!Go(i, "counted")
          /\ \/ progress' = [progress EXCEPT !.done = @ + 1]
             \/ progress' = [progress EXCEPT !.failed = @ + 1]
      BY <1>3 DEF Mg!Count
    <2>2. t \in TaskRecords /\ tasks' = [tasks EXCEPT ![i] = t] /\ tasks'[i] = t
      BY <1>2, <2>1
    <2>3. t.at = "counted" /\ t.tries = tasks[i].tries OBVIOUS
    <2>4. /\ progress' \in Hashes /\ progress'.status = progress.status
          /\ progress'.total = progress.total
          /\ progress'.done + progress'.failed = progress.done + progress.failed + 1
      BY <1>0, <2>1 DEF Hashes
    <2> HIDE DEF t
    <2>5. Enrolled(i)'
      BY <1>0, <1>1, <2>2, <2>3 DEF Enrolled
    <2>6. \A j \in Items : tasks'[j] = IF j = i THEN t ELSE tasks[j] BY <1>0, <2>2
    <2>7. Open' = Open \ {i} /\ i \in Open /\ IsFiniteSet(Open)
      BY <1>0, <1>1, <2>3, <2>6, FS_Subset DEF Open
    <2>8. Cardinality(Open') = Cardinality(Open) - 1 /\ Cardinality(Open) \in Nat
      BY <2>7, FS_RemoveElement, FS_CardinalityType
    <2>9. Unbroken' => Unbroken BY <1>1, <2>6 DEF Unbroken
    <2>10. AddsUp'
      BY <1>0, <1>1, <2>4, <2>7, <2>8, <2>9 DEF AddsUp, Hashes
    <2> QED BY <1>0, <1>1, <2>2, <2>3, <2>4, <2>5, <2>10, OneTask
  <1>4. CASE Mg!CountLost(i)
    <2> DEFINE t == [at |-> "lost", tries |-> tasks[i].tries]
    <2>1. Mg!Go(i, "lost") /\ progress' = [progress EXCEPT !.status = "done"]
      BY <1>4 DEF Mg!CountLost
    <2>2. t \in TaskRecords /\ tasks' = [tasks EXCEPT ![i] = t] /\ tasks'[i] = t
      BY <1>2, <2>1
    <2>3. t.at = "lost" OBVIOUS
    <2>4. progress' \in Hashes /\ progress'.status = "done"
      BY <1>0, <2>1 DEF Hashes
    <2> HIDE DEF t
    <2>5. Enrolled(i)' BY <2>2, <2>3 DEF Enrolled
    <2>6. AddsUp' BY <2>2, <2>3 DEF AddsUp, Unbroken
    <2> QED BY <1>0, <1>1, <2>2, <2>3, <2>4, <2>5, <2>6, OneTask
  <1> QED BY <1>3, <1>4

\* The task ends, the process ends, or the hash is forgotten.
LEMMA EndStep ==
  ASSUME MigrationInv, Mg!Finish \/ Mg!Restart \/ Mg!Expire
  PROVE  MigrationInv'
  <1>0. /\ tasks \in [Items -> TaskRecords] /\ progress \in Hashes /\ op \in Requests
        /\ joined \subseteq Items /\ OneAtATime /\ WasThere /\ AddsUp
        /\ \A i \in Items : Enrolled(i)
    BY DEF MigrationInv, MigrationTypes
  <1>1. Mg!Quiet \in Requests /\ Mg!Quiet.at = "quiet" /\ Mg!Quiet.already = {}
    BY DEF Mg!Quiet, Requests
  <1>2. CASE Mg!Finish
    <2>1. /\ progress.status = "running" /\ Open = {}
          /\ progress' = [progress EXCEPT !.status = "done"]
          /\ UNCHANGED <<joined, mirror, op, tasks, missed, left>>
      BY <1>2 DEF Mg!Finish, Open
    <2>2. /\ progress' \in Hashes /\ progress'.status = "done" /\ progress'.done = progress.done
          /\ progress'.failed = progress.failed /\ progress'.total = progress.total
      BY <1>0, <2>1 DEF Hashes
    <2>3. MigrationTypes' BY <1>0, <2>1, <2>2 DEF MigrationTypes
    <2>4. OneAtATime' BY <1>0, <2>1, <2>2 DEF OneAtATime
    <2>5. WasThere' BY <1>0, <2>1 DEF WasThere
    <2>6. \A i \in Items : Enrolled(i)' BY <1>0, <2>1 DEF Enrolled
    <2>7. AddsUp' BY <1>0, <2>1, <2>2 DEF AddsUp, Open, Unbroken
    <2> QED BY <2>3, <2>4, <2>5, <2>6, <2>7 DEF MigrationInv
  <1>3. CASE Mg!Restart
    <2>1. /\ op' = Mg!Quiet /\ UNCHANGED <<joined, mirror, progress, missed, left>>
          /\ tasks' = [i \in Items |-> IF Mg!Settled(i) THEN tasks[i]
                                       ELSE [tasks[i] EXCEPT !.at = "dead"]]
      BY <1>3 DEF Mg!Restart
    <2>2. \A i \in Items : /\ tasks[i] \in TaskRecords
                           /\ [tasks[i] EXCEPT !.at = "dead"] \in TaskRecords
                           /\ [tasks[i] EXCEPT !.at = "dead"].at = "dead"
      BY <1>0 DEF TaskRecords, TaskStates
    <2>3. \A i \in Items : \/ tasks'[i] = tasks[i] /\ Mg!Settled(i)
                           \/ tasks'[i].at = "dead" /\ ~Mg!Settled(i)
      BY <2>1, <2>2
    <2>4. MigrationTypes' BY <1>0, <1>1, <2>1, <2>2 DEF MigrationTypes
    <2>5. OneAtATime' BY <1>0, <1>1, <2>1, <2>3 DEF OneAtATime, Mg!Settled
    <2>6. WasThere' BY <1>0, <1>1, <2>1 DEF WasThere
    <2>7. \A i \in Items : Enrolled(i)' BY <1>0, <2>1, <2>3 DEF Enrolled
    <2>8. AddsUp'
      <3>1. CASE \A i \in Items : Mg!Settled(i)
        <4>1. \A i \in Items : tasks'[i] = tasks[i] BY <2>3, <3>1
        <4>2. Open' = Open /\ (Unbroken' => Unbroken) BY <4>1 DEF Open, Unbroken
        <4> QED BY <1>0, <2>1, <4>2 DEF AddsUp
      <3>2. CASE \E i \in Items : ~Mg!Settled(i)
        BY <2>3, <3>2 DEF AddsUp, Unbroken
      <3> QED BY <3>1, <3>2
    <2> QED BY <2>4, <2>5, <2>6, <2>7, <2>8 DEF MigrationInv
  <1>4. CASE Mg!Expire
    <2>1. /\ progress' = Mg!NoProgress /\ tasks' = [i \in Items |-> Mg!NoTask]
          /\ UNCHANGED <<joined, mirror, op, left>> /\ op.at = "quiet"
      BY <1>4 DEF Mg!Expire
    <2>2. MigrationTypes'
      BY <1>0, <2>1 DEF MigrationTypes, Mg!NoProgress, Mg!NoTask, Hashes, TaskRecords, TaskStates
    <2>3. OneAtATime' /\ AddsUp' BY <2>1 DEF OneAtATime, AddsUp, Mg!NoProgress, Mg!NoTask
    <2>4. WasThere' BY <1>0, <2>1 DEF WasThere
    <2>5. \A i \in Items : Enrolled(i)' BY <2>1 DEF Enrolled, Mg!NoTask
    <2> QED BY <2>2, <2>3, <2>4, <2>5 DEF MigrationInv
  <1> QED BY <1>2, <1>3, <1>4

LEMMA MigrationStep ==
  ASSUME MigrationInv, [Mg!Next]_migrationVars
  PROVE  MigrationInv'
  <1>1. CASE UNCHANGED migrationVars
    BY <1>1 DEF migrationVars, MigrationInv, MigrationTypes, OneAtATime, WasThere, Enrolled,
                AddsUp, Open, Unbroken
  <1> QED BY <1>1, OthersStep, SweepStep, RequestStep, StartStep, AttemptStep, CountStep, EndStep
          DEF Mg!Next, Mg!Request, Mg!TaskStep

LEMMA MigrationHolds == MigrationInv => Mg!DoneAddsUp /\ Mg!Marks
  <1> SUFFICES ASSUME MigrationInv PROVE Mg!DoneAddsUp /\ Mg!Marks
    OBVIOUS
  <1>1. Mg!DoneAddsUp
    <2>1. SUFFICES ASSUME progress.status = "done", Unbroken
                   PROVE  progress.done + progress.failed = progress.total
      BY DEF Mg!DoneAddsUp, Unbroken
    <2>2. Open = {} /\ progress.total = progress.done + progress.failed + Cardinality(Open)
      BY <2>1 DEF MigrationInv, AddsUp
    <2>3. Cardinality(Open) = 0 BY <2>2, FS_EmptySet
    <2>4. progress.done \in Nat /\ progress.failed \in Nat
      BY DEF MigrationInv, MigrationTypes, Hashes
    <2> QED BY <2>2, <2>3, <2>4
  <1>2. Mg!Marks BY DEF MigrationInv, WasThere, Enrolled, Mg!Marks
  <1> QED BY <1>1, <1>2

---------------------------------------------------------------------------
(* Invoices                                                                *)

Window(w, l) == Iv!Message("window", w, l)

LEMMA MessageKinds ==
  /\ Iv!RecentMessage \in Iv!Messages
  /\ \A l \in Iv!LogIds : /\ Iv!Cold(l) \in Iv!Messages /\ Iv!Cold(l).kind = "cold"
                          /\ Iv!Cold(l).log = l
  /\ \A w \in Windows, l \in Iv!LogIds :
       /\ Window(w, l) \in Iv!Messages /\ Window(w, l).kind = "window"
       /\ Window(w, l).window = w /\ Window(w, l).log = l
  /\ \A m \in Iv!Messages :
       \/ m.kind = "recent" /\ m = Iv!RecentMessage /\ m.log = 0 /\ m.log \notin Iv!LogIds
       \/ m.kind = "cold" /\ m.log \in Iv!LogIds /\ m = Iv!Cold(m.log)
       \/ m.kind = "window" /\ m.log \in Iv!LogIds /\ m.window \in Windows
          /\ m = Window(m.window, m.log)
  <1>1. /\ Iv!RecentMessage = [kind |-> "recent", window |-> 0, log |-> 0]
        /\ \A l : Iv!Cold(l) = [kind |-> "cold", window |-> 0, log |-> l]
        /\ \A w, l : Window(w, l) = [kind |-> "window", window |-> w, log |-> l]
    BY DEF Iv!RecentMessage, Iv!Cold, Window, Iv!Message
  <1>2. /\ Iv!RecentMessage \in Iv!Messages
        /\ \A l \in Iv!LogIds : Iv!Cold(l) \in Iv!Messages
        /\ \A w \in Windows, l \in Iv!LogIds : Window(w, l) \in Iv!Messages
    BY DEF Iv!Messages, Window
  <1>3. ASSUME NEW m \in Iv!Messages
        PROVE  \/ m = Iv!RecentMessage
               \/ \E l \in Iv!LogIds : m = Iv!Cold(l)
               \/ \E w \in Windows, l \in Iv!LogIds : m = Window(w, l)
    BY DEF Iv!Messages, Window
  <1>4. 0 \notin Iv!LogIds BY ImportsAssumption DEF Iv!LogIds
  <1>5. ASSUME NEW m \in Iv!Messages
        PROVE  \/ m.kind = "recent" /\ m = Iv!RecentMessage /\ m.log = 0 /\ m.log \notin Iv!LogIds
               \/ m.kind = "cold" /\ m.log \in Iv!LogIds /\ m = Iv!Cold(m.log)
               \/ /\ m.kind = "window" /\ m.log \in Iv!LogIds /\ m.window \in Windows
                  /\ m = Window(m.window, m.log)
    <2>1. CASE m = Iv!RecentMessage BY <1>1, <1>4, <2>1
    <2>2. ASSUME NEW l \in Iv!LogIds, m = Iv!Cold(l)
          PROVE  m.kind = "cold" /\ m.log \in Iv!LogIds /\ m = Iv!Cold(m.log)
      BY <1>1, <2>2
    <2>3. ASSUME NEW w \in Windows, NEW l \in Iv!LogIds, m = Window(w, l)
          PROVE  /\ m.kind = "window" /\ m.log \in Iv!LogIds /\ m.window \in Windows
                 /\ m = Window(m.window, m.log)
      BY <1>1, <2>3
    <2> QED BY <1>3, <2>1, <2>2, <2>3
  <1> QED BY <1>1, <1>2, <1>5

\* What is still to be counted of a window in a cold start: messages for it, and
\* those of the start itself, which will publish one.
AtWork(w, l) ==
    \/ work.at \in {"list", "count"} /\ work.msg = Window(w, l)
    \/ work.at = "total" /\ work.msg = Iv!Cold(l)
    \/ work.at = "fanout" /\ work.msg = Iv!Cold(l) /\ w \in work.todo
Due(w, l) ==
    queue[Window(w, l)] + queue[Iv!Cold(l)] + (IF AtWork(w, l) THEN 1 ELSE 0)

\* A window not stored yet may be counted once, when it is.
Spare(l) == [w \in Windows |-> IF w \in stored \/ Due(w, l) = 0 THEN Due(w, l) ELSE Due(w, l) - 1]

\* What was counted, and may be beyond, is stored or was counted again.
Spared(l) == Counted(Spare(l), Windows)
Balanced(l) ==
    /\ IsFiniteSet(Spared(l))
    /\ logs[l].processed + Cardinality(Spared(l)) <= Cardinality(stored) + repeats[l]

LogRows == [status : {"none", "running", "completed", "failed"}, total : Int, processed : Nat]
Works == [at : {"free", "total", "fanout", "list", "lines", "count", "finalize"},
          msg : Iv!Messages, todo : SUBSET Iv!Invoices]

InvoiceTypes ==
    /\ queue \in [Iv!Messages -> Nat] /\ logs \in [Iv!LogIds -> LogRows]
    /\ repeats \in [Iv!LogIds -> Nat] /\ work \in Works
    /\ stored \subseteq Windows /\ stored \subseteq headers
    /\ failures \in 0..MaxFailures /\ up \in BOOLEAN

\* What is at work fits the step of it.
WorkFits ==
    /\ work.at \in {"total", "fanout"} => work.msg.kind = "cold"
    /\ work.at = "fanout" => work.todo \subseteq Windows
    /\ work.at = "free" => work = Iv!Free
    /\ work.at = "list" => work.msg.kind # "cold"
    /\ work.at = "lines" => work.msg.kind = "recent"
    /\ work.at \in {"count", "finalize"} => work.msg.kind = "window" /\ work.msg.window \in stored

\* The log of a cold start that is still to come concerns no message.
Unused(l) ==
    logs[l] = Iv!NoLog =>
        work.msg.log # l /\ \A m \in Iv!Messages : m.log = l => queue[m] = 0

\* There is a log left for every boot that may come.
Booted == MaxFailures - failures + (IF up THEN 1 ELSE 0)
LogLeft == \A l \in Iv!LogIds : l > Booted => logs[l] = Iv!NoLog

Completes(l) ==
    /\ logs[l].total \in {Iv!Unknown, Cardinality(Windows)}
    /\ logs[l].status = "completed" => logs[l].processed >= Cardinality(Windows)

InvoiceInv ==
    /\ InvoiceTypes /\ WorkFits /\ LogLeft
    /\ \A l \in Iv!LogIds : Unused(l) /\ Completes(l) /\ Balanced(l)

LEMMA SpareType ==
  ASSUME InvoiceTypes, NEW l \in Iv!LogIds
  PROVE  /\ \A w \in Windows : Due(w, l) \in Nat /\ Spare(l)[w] \in Nat
         /\ Cardinality(stored) \in Nat /\ repeats[l] \in Nat /\ logs[l].processed \in Nat
         /\ IsFiniteSet(stored) /\ IsFiniteSet(Windows)
  <1>1. \A w \in Windows : queue[Window(w, l)] \in Nat /\ queue[Iv!Cold(l)] \in Nat
    BY MessageKinds DEF InvoiceTypes
  <1>2. \A w \in Windows : Due(w, l) \in Nat
    BY <1>1 DEF Due
  <1>3. \A w \in Windows : Spare(l)[w] \in Nat
    BY <1>2 DEF Spare
  <1>4. IsFiniteSet(Windows) /\ IsFiniteSet(stored)
    BY ImportsAssumption, FS_Subset DEF InvoiceTypes
  <1>6. Cardinality(stored) \in Nat BY <1>4, FS_CardinalityType
  <1>7. repeats[l] \in Nat /\ logs[l].processed \in Nat BY DEF InvoiceTypes, LogRows
  <1> QED BY <1>2, <1>3, <1>4, <1>6, <1>7

LEMMA SpareTypeNext ==
  ASSUME InvoiceTypes', NEW l \in Iv!LogIds
  PROVE  /\ \A w \in Windows : Due(w, l)' \in Nat /\ Spare(l)'[w] \in Nat
         /\ Cardinality(stored') \in Nat /\ repeats'[l] \in Nat /\ logs'[l].processed \in Nat
         /\ IsFiniteSet(stored') /\ IsFiniteSet(Windows)
  <1>1. \A w \in Windows : queue'[Window(w, l)] \in Nat /\ queue'[Iv!Cold(l)] \in Nat
    BY MessageKinds DEF InvoiceTypes
  <1>2. \A w \in Windows : Due(w, l)' \in Nat
    BY <1>1 DEF Due
  <1>3. \A w \in Windows : Spare(l)'[w] \in Nat
    BY <1>2 DEF Spare
  <1>4. IsFiniteSet(Windows) /\ IsFiniteSet(stored')
    BY ImportsAssumption, FS_Subset DEF InvoiceTypes
  <1>6. Cardinality(stored') \in Nat BY <1>4, FS_CardinalityType
  <1>7. repeats'[l] \in Nat /\ logs'[l].processed \in Nat BY DEF InvoiceTypes, LogRows
  <1> QED BY <1>2, <1>3, <1>4, <1>6, <1>7

\* Rises of what is due are paid by windows stored or counted again, and a count by
\* a fall.
LEMMA BalanceMoves ==
  ASSUME InvoiceTypes, InvoiceTypes', NEW l \in Iv!LogIds, Balanced(l),
         NEW T \in SUBSET Windows, NEW U \in SUBSET Windows, T = {} \/ U = {},
         \A w \in Windows : Spare(l)'[w] + (IF w \in U THEN 1 ELSE 0)
                              <= Spare(l)[w] + (IF w \in T THEN 1 ELSE 0),
         logs'[l].processed + Cardinality(T) + Cardinality(stored) + repeats[l]
           <= logs[l].processed + Cardinality(U) + Cardinality(stored') + repeats'[l]
  PROVE  Balanced(l)'
  <1>1. /\ \A w \in Windows : Spare(l)[w] \in Nat
        /\ Cardinality(stored) \in Nat /\ repeats[l] \in Nat /\ logs[l].processed \in Nat
    BY SpareType
  <1>2. /\ \A w \in Windows : Spare(l)'[w] \in Nat
        /\ Cardinality(stored') \in Nat /\ repeats'[l] \in Nat /\ logs'[l].processed \in Nat
    BY SpareTypeNext
  <1>3. IsFiniteSet(Windows) BY ImportsAssumption
  <1>4. Cardinality(T) \in Nat /\ Cardinality(U) \in Nat /\ Cardinality({}) = 0
    BY <1>3, FS_Subset, FS_CardinalityType, FS_EmptySet
  <1>5. IsFiniteSet(Counted(Spare(l), Windows)) BY DEF Balanced, Spared
  <1>6. /\ IsFiniteSet(Counted(Spare(l)', Windows))
        /\ Cardinality(Counted(Spare(l)', Windows)) + Cardinality(U)
             <= Cardinality(Counted(Spare(l), Windows)) + Cardinality(T)
    <2> DEFINE f == Spare(l)
               g == Spare(l)'
               F == Counted(f, Windows)
               G == Counted(g, Windows)
    <2>1. \A w \in Windows : f[w] \in Nat /\ g[w] \in Nat
            /\ g[w] + (IF w \in U THEN 1 ELSE 0) <= f[w] + (IF w \in T THEN 1 ELSE 0)
      BY <1>1, <1>2
    <2> HIDE DEF f, g
    <2>2. IsFiniteSet(F) BY <1>5 DEF f
    <2>3. CASE U = {}
      <3>1. \A w \in Windows : f[w] \in Nat /\ g[w] \in Nat /\ g[w] <= f[w] + (IF w \in T THEN 1 ELSE 0)
        BY <2>1, <2>3
      <3>2. IsFiniteSet(G) /\ Cardinality(G) <= Cardinality(F) + Cardinality(T)
        BY <1>3, <2>2, <3>1, CountedRises
      <3> QED BY <1>4, <2>2, <2>3, <3>2, FS_CardinalityType DEF f, g
    <2>4. CASE T = {}
      <3>1. \A w \in Windows : f[w] \in Nat /\ g[w] \in Nat /\ g[w] + (IF w \in U THEN 1 ELSE 0) <= f[w]
        BY <2>1, <2>4
      <3>2. IsFiniteSet(G) /\ Cardinality(G) + Cardinality(U) <= Cardinality(F)
        BY <1>3, <2>2, <3>1, CountedFalls
      <3> QED BY <1>4, <2>2, <2>4, <3>2, FS_CardinalityType DEF f, g
    <2> QED BY <2>3, <2>4
  <1>7. Cardinality(Spared(l)) \in Nat BY <1>5, FS_CardinalityType DEF Spared
  <1>8. Spared(l)' = Counted(Spare(l)', Windows) BY DEF Spared, Counted
  <1>9. IsFiniteSet(Spared(l)') /\ Cardinality(Spared(l)') \in Nat
    BY <1>6, <1>8, FS_CardinalityType
  <1>10. Cardinality(Spared(l)') + Cardinality(U) <= Cardinality(Spared(l)) + Cardinality(T)
    BY <1>6, <1>8 DEF Spared
  <1>11. logs[l].processed + Cardinality(Spared(l)) <= Cardinality(stored) + repeats[l]
    BY DEF Balanced
  <1>12. logs'[l].processed + Cardinality(Spared(l)') <= Cardinality(stored') + repeats'[l]
    BY <1>1, <1>2, <1>4, <1>7, <1>9, <1>10, <1>11
  <1> QED BY <1>9, <1>12 DEF Balanced

\* The same, when nothing new is stored.
LEMMA DueMoves ==
  ASSUME InvoiceTypes, InvoiceTypes', NEW l \in Iv!LogIds, Balanced(l), stored' = stored,
         NEW T \in SUBSET Windows,
         \A w \in Windows : Due(w, l)' <= Due(w, l) + (IF w \in T THEN 1 ELSE 0),
         logs'[l].processed = logs[l].processed, repeats'[l] = repeats[l] + Cardinality(T)
  PROVE  Balanced(l)'
  <1>1. /\ \A w \in Windows : Due(w, l) \in Nat
        /\ Cardinality(stored) \in Nat /\ repeats[l] \in Nat /\ logs[l].processed \in Nat
    BY SpareType
  <1>2. \A w \in Windows : Due(w, l)' \in Nat
    BY SpareTypeNext
  <1>3. \A w \in Windows :
          Spare(l)'[w] + (IF w \in {} THEN 1 ELSE 0) <= Spare(l)[w] + (IF w \in T THEN 1 ELSE 0)
    BY <1>1, <1>2 DEF Spare
  <1>4. Cardinality({}) = 0 /\ IsFiniteSet(T) /\ Cardinality(T) \in Nat
    BY ImportsAssumption, FS_EmptySet, FS_Subset, FS_CardinalityType
  <1> QED BY <1>1, <1>3, <1>4, BalanceMoves

LEMMA DueRests ==
  ASSUME InvoiceTypes, InvoiceTypes', NEW l \in Iv!LogIds, Balanced(l), stored' = stored,
         \A w \in Windows : Due(w, l)' <= Due(w, l),
         logs'[l].processed = logs[l].processed, repeats'[l] = repeats[l]
  PROVE  Balanced(l)'
  <1>1. /\ \A w \in Windows : Due(w, l) \in Nat
        /\ Cardinality({}) = 0 /\ repeats[l] \in Nat
    BY SpareType, FS_EmptySet
  <1>2. \A w \in Windows : Due(w, l)' <= Due(w, l) + (IF w \in {} THEN 1 ELSE 0)
    BY <1>1, SpareTypeNext
  <1>3. repeats'[l] = repeats[l] + Cardinality({})
    BY <1>1
  <1> QED BY <1>2, <1>3, DueMoves

LEMMA InvoiceInit == Iv!Init => InvoiceInv
  <1> SUFFICES ASSUME Iv!Init PROVE InvoiceInv
    OBVIOUS
  <1>1. /\ headers = {} /\ stored = {} /\ work = Iv!Free /\ up = FALSE /\ failures = MaxFailures
        /\ logs = [l \in Iv!LogIds |-> Iv!NoLog] /\ queue = [m \in Iv!Messages |-> 0]
        /\ repeats = [l \in Iv!LogIds |-> 0]
    BY DEF Iv!Init
  <1>2. Iv!RecentMessage \in Iv!Messages /\ Iv!RecentMessage.log \notin Iv!LogIds
    BY MessageKinds DEF Iv!RecentMessage, Iv!Message, Iv!LogIds
  <1>3. MaxFailures \in Nat BY ImportsAssumption
  <1>4. /\ work.at = "free" /\ work.msg = Iv!RecentMessage /\ work \in Works
    BY <1>1, <1>2 DEF Iv!Free, Works
  <1>5. Iv!NoLog \in LogRows /\ Iv!NoLog.processed = 0 /\ Iv!NoLog.status = "none"
        /\ Iv!NoLog.total = Iv!Unknown
    BY DEF Iv!NoLog, LogRows, Iv!Unknown
  <1>6. InvoiceTypes
    <2>1. logs \in [Iv!LogIds -> LogRows] BY <1>1, <1>5
    <2>2. queue \in [Iv!Messages -> Nat] /\ repeats \in [Iv!LogIds -> Nat] BY <1>1
    <2>3. failures \in 0..MaxFailures BY <1>1, <1>3
    <2> QED BY <1>1, <1>4, <2>1, <2>2, <2>3 DEF InvoiceTypes
  <1>7. WorkFits /\ LogLeft BY <1>1, <1>4 DEF WorkFits, LogLeft
  <1>8. ASSUME NEW l \in Iv!LogIds PROVE Unused(l) /\ Completes(l) /\ Balanced(l)
    <2>1. Unused(l) /\ Completes(l)
      BY <1>1, <1>2, <1>4, <1>5 DEF Unused, Completes
    <2>2. \A w \in Windows : Due(w, l) = 0
      BY <1>1, <1>4, MessageKinds DEF Due, AtWork
    <2>3. \A w \in Windows : Spare(l)[w] = 0
      BY <2>2 DEF Spare
    <2>4. Spared(l) = {}
      BY <2>3 DEF Spared, Counted
    <2>5. IsFiniteSet(Spared(l)) /\ Cardinality(Spared(l)) = 0
      BY <2>4, FS_EmptySet
    <2>6. Balanced(l)
      BY <1>1, <1>5, <1>6, <2>5, SpareType DEF Balanced
    <2> QED BY <2>1, <2>6
  <1> QED BY <1>6, <1>7, <1>8 DEF InvoiceInv

LEMMA Falls ==
  ASSUME NEW m \in Int, NEW a \in Int, NEW b \in Int, NEW n \in Int, b <= a,
         NEW x, x = m - a + n, NEW y, y = m - b + n
  PROVE  y >= x
  OBVIOUS

LEMMA Rises ==
  ASSUME NEW m \in Int, NEW a \in Int, NEW b \in Int, b <= a,
         NEW x, x = m - a + 0, NEW y, y = m - b + 1
  PROVE  y \in Int /\ y >= x + 1
  OBVIOUS

LEMMA MessageFields ==
  /\ Iv!RecentMessage.kind = "recent" /\ Iv!RecentMessage.log = 0
  /\ \A l : Iv!Cold(l).kind = "cold" /\ Iv!Cold(l).log = l
  /\ \A w, l : /\ Window(w, l).kind = "window" /\ Window(w, l).log = l
                /\ Window(w, l).window = w
  BY DEF Iv!RecentMessage, Iv!Cold, Window, Iv!Message

LEMMA PutValues ==
  ASSUME InvoiceTypes, NEW m \in Iv!Messages
  PROVE  /\ Iv!Put(queue, m) \in [Iv!Messages -> Nat]
         /\ Iv!Put(queue, m)[m] = queue[m] + 1
         /\ \A k \in Iv!Messages : k # m => Iv!Put(queue, m)[k] = queue[k]
  BY DEF InvoiceTypes, Iv!Put

\* A log that no boot has taken yet stays so.
LEMMA UnusedRests ==
  ASSUME InvoiceInv, InvoiceTypes', NEW l \in Iv!LogIds, logs'[l] = Iv!NoLog => logs[l] = Iv!NoLog,
         work'.msg.log \in {work.msg.log, 0},
         \A m \in Iv!Messages : m.log \in {work.msg.log, 0} \/ queue'[m] <= queue[m]
  PROVE  Unused(l)'
  <1>1. l # 0 BY ImportsAssumption DEF Iv!LogIds
  <1>2. Unused(l) /\ (\A m \in Iv!Messages : queue[m] \in Nat /\ queue'[m] \in Nat)
    BY DEF InvoiceInv, InvoiceTypes
  <1>3. SUFFICES ASSUME logs'[l] = Iv!NoLog
                 PROVE  work'.msg.log # l /\ \A m \in Iv!Messages : m.log = l => queue'[m] = 0
    BY DEF Unused
  <1>4. work.msg.log # l /\ \A m \in Iv!Messages : m.log = l => queue[m] = 0
    BY <1>2, <1>3 DEF Unused
  <1>5. work'.msg.log # l BY <1>1, <1>4
  <1>6. ASSUME NEW m \in Iv!Messages, m.log = l PROVE queue'[m] = 0
    <2>1. queue'[m] <= queue[m] /\ queue[m] = 0 BY <1>1, <1>4, <1>6
    <2> QED BY <1>2, <2>1
  <1> QED BY <1>5, <1>6

\* A step that leaves the logs and what is stored alone, and makes nothing due.
LEMMA LogsRest ==
  ASSUME InvoiceInv, UNCHANGED <<headers, logs, stored, repeats, up>>, failures' \in 0..failures,
         queue' \in [Iv!Messages -> Nat], work' \in Works, WorkFits',
         work'.msg.log \in {work.msg.log, 0},
         \A m \in Iv!Messages : m.log \in {work.msg.log, 0} \/ queue'[m] <= queue[m],
         \A l \in Iv!LogIds, w \in Windows : Due(w, l)' <= Due(w, l)
  PROVE  InvoiceInv'
  <1>0. failures \in 0..MaxFailures /\ MaxFailures \in Nat
    BY ImportsAssumption DEF InvoiceInv, InvoiceTypes
  <1>1. failures' \in 0..MaxFailures /\ Booted' >= Booted /\ Booted \in Int /\ Booted' \in Int
    <2> DEFINE n == IF up THEN 1 ELSE 0
    <2>1. n \in Int /\ Booted = MaxFailures - failures + n /\ Booted' = MaxFailures - failures' + n
      BY DEF Booted
    <2>2. failures' \in Int /\ 0 <= failures' /\ failures' <= failures
      BY <1>0
    <2>3. failures \in Int /\ failures <= MaxFailures /\ MaxFailures \in Int
      BY <1>0
    <2> HIDE DEF n
    <2>4. failures' \in 0..MaxFailures BY <2>2, <2>3
    <2>5. Booted \in Int /\ Booted' \in Int BY <2>1, <2>2, <2>3
    <2>6. Booted' >= Booted BY <2>1, <2>2, <2>3, Falls
    <2> QED BY <2>4, <2>5, <2>6
  <1>2. InvoiceTypes' BY <1>1 DEF InvoiceInv, InvoiceTypes
  <1>3. LogLeft'
    <2>1. \A l \in Iv!LogIds : l > Booted' => l > Booted
      BY <1>1, ImportsAssumption DEF Iv!LogIds
    <2> QED BY <2>1 DEF InvoiceInv, LogLeft
  <1>4. ASSUME NEW l \in Iv!LogIds PROVE Unused(l)' /\ Completes(l)' /\ Balanced(l)'
    <2>1. Unused(l)' BY <1>2, UnusedRests
    <2>2. Completes(l)' BY DEF InvoiceInv, Completes
    <2>3. InvoiceTypes /\ Balanced(l) BY DEF InvoiceInv
    <2>4. Balanced(l)' BY <1>2, <2>3, DueRests
    <2> QED BY <2>1, <2>2, <2>4
  <1> QED BY <1>2, <1>3, <1>4 DEF InvoiceInv

\* Who asks for runs, and the days.
LEMMA AskStep ==
  ASSUME InvoiceInv,
         \/ \E i \in Issued : Iv!Issue(i)
         \/ Iv!AskForRecent \/ Iv!DayEnds
  PROVE  InvoiceInv'
  <1>0. /\ InvoiceTypes /\ WorkFits /\ work \in Works /\ queue \in [Iv!Messages -> Nat]
        /\ failures \in 0..failures
    BY ImportsAssumption DEF InvoiceInv, InvoiceTypes
  <1>1. ASSUME UNCHANGED <<headers, logs, stored, repeats, up, work, failures>>,
               queue' \in [Iv!Messages -> Nat],
               \A m \in Iv!Messages : m # Iv!RecentMessage => queue'[m] = queue[m]
        PROVE  InvoiceInv'
    <2>1. WorkFits' BY <1>0, <1>1 DEF WorkFits
    <2>2. ASSUME NEW m \in Iv!Messages
          PROVE  m.log \in {work.msg.log, 0} \/ queue'[m] <= queue[m]
      <3>1. CASE m = Iv!RecentMessage BY <3>1, MessageFields
      <3>2. CASE m # Iv!RecentMessage
        <4>1. queue'[m] = queue[m] /\ queue[m] \in Nat BY <1>0, <1>1, <3>2
        <4> QED BY <4>1
      <3> QED BY <3>1, <3>2
    <2>3. ASSUME NEW l \in Iv!LogIds, NEW w \in Windows PROVE Due(w, l)' <= Due(w, l)
      <3>1. /\ Window(w, l) \in Iv!Messages /\ Iv!Cold(l) \in Iv!Messages
        BY MessageKinds
      <3>4. Window(w, l) # Iv!RecentMessage /\ Iv!Cold(l) # Iv!RecentMessage
        BY MessageFields
      <3>2. AtWork(w, l)' <=> AtWork(w, l) BY <1>1 DEF AtWork
      <3>3. Due(w, l)' = Due(w, l) BY <1>1, <3>1, <3>2, <3>4 DEF Due
      <3> QED BY <1>0, <3>3, SpareType
    <2> QED BY <1>0, <1>1, <2>1, <2>2, <2>3, LogsRest
  <1>2. ASSUME NEW i, Iv!Issue(i) PROVE InvoiceInv'
    BY <1>0, <1>1, <1>2 DEF Iv!Issue
  <1>3. CASE Iv!AskForRecent
    <2>1. /\ UNCHANGED <<headers, logs, stored, repeats, up, work, failures>>
          /\ queue' = Iv!Put(queue, Iv!RecentMessage)
      BY <1>3 DEF Iv!AskForRecent
    <2>2. Iv!RecentMessage \in Iv!Messages BY MessageKinds
    <2> QED BY <1>0, <1>1, <2>1, <2>2, PutValues
  <1>4. CASE Iv!DayEnds
    BY <1>0, <1>1, <1>4 DEF Iv!DayEnds
  <1> QED BY <1>2, <1>3, <1>4

\* The consumer leaves its message: what was due for it may not come.
LEMMA DueFalls ==
  ASSUME InvoiceTypes, queue' = queue, NEW l \in Iv!LogIds, NEW w \in Windows,
         AtWork(w, l)' => AtWork(w, l)
  PROVE  Due(w, l)' <= Due(w, l)
  <1>1. /\ queue[Window(w, l)] \in Nat /\ queue[Iv!Cold(l)] \in Nat
        /\ queue'[Window(w, l)] = queue[Window(w, l)] /\ queue'[Iv!Cold(l)] = queue[Iv!Cold(l)]
    BY MessageKinds DEF InvoiceTypes
  <1> DEFINE a == IF AtWork(w, l) THEN 1 ELSE 0
             b == IF AtWork(w, l)' THEN 1 ELSE 0
  <1>2. a \in Int /\ b \in Int /\ b <= a
    OBVIOUS
  <1>3. /\ Due(w, l) = queue[Window(w, l)] + queue[Iv!Cold(l)] + a
        /\ Due(w, l)' = queue[Window(w, l)] + queue[Iv!Cold(l)] + b
    BY <1>1 DEF Due
  <1> HIDE DEF a, b
  <1> QED BY <1>1, <1>2, <1>3

LEMMA FreeWork ==
  /\ Iv!Free \in Works /\ Iv!Free.at = "free" /\ Iv!Free.msg.log = 0
  BY MessageKinds, MessageFields DEF Iv!Free, Works

\* It is done with the message, or drops it.
LEMMA LeaveStep ==
  ASSUME InvoiceInv, Iv!Ack \/ Iv!ListFails
  PROVE  InvoiceInv'
  <1>0. /\ InvoiceTypes /\ queue \in [Iv!Messages -> Nat]
        /\ failures \in 0..MaxFailures /\ MaxFailures \in Nat
    BY ImportsAssumption DEF InvoiceInv, InvoiceTypes
  <1>1. /\ UNCHANGED <<headers, logs, stored, repeats, up, queue>> /\ work' = Iv!Free
        /\ failures' = failures \/ Iv!Fail
    BY DEF Iv!Ack, Iv!ListFails
  <1>2. failures' \in 0..failures
    <2>1. failures \in Nat BY <1>0
    <2> QED BY <1>1, <2>1 DEF Iv!Fail
  <1>3. work' \in Works /\ work'.at = "free" /\ work'.msg.log = 0
    BY <1>1, FreeWork
  <1>4. WorkFits' BY <1>1, <1>3 DEF WorkFits
  <1>5. \A m \in Iv!Messages : queue'[m] <= queue[m] BY <1>0, <1>1
  <1>6. \A l \in Iv!LogIds, w \in Windows : Due(w, l)' <= Due(w, l)
    <2>1. \A l, w : ~AtWork(w, l)' BY <1>3 DEF AtWork
    <2> QED BY <1>0, <1>1, <2>1, DueFalls
  <1> QED BY <1>0, <1>1, <1>2, <1>3, <1>4, <1>5, <1>6, LogsRest

\* The lines of the invoices of the last days.
LEMMA LinesStep ==
  ASSUME InvoiceInv, NEW i \in Issued, Iv!FetchLines(i) \/ Iv!LinesFail(i)
  PROVE  InvoiceInv'
  <1>0. /\ InvoiceTypes /\ queue \in [Iv!Messages -> Nat] /\ work \in Works /\ WorkFits
        /\ failures \in 0..MaxFailures /\ MaxFailures \in Nat
    BY ImportsAssumption DEF InvoiceInv, InvoiceTypes
  <1>1. /\ UNCHANGED <<headers, logs, stored, repeats, up, queue>> /\ work.at = "lines"
        /\ work' = [work EXCEPT !.todo = work.todo \ {i}]
        /\ failures' = failures \/ Iv!Fail
    BY DEF Iv!FetchLines, Iv!LinesFail
  <1>2. failures' \in 0..failures
    <2>1. failures \in Nat BY <1>0
    <2> QED BY <1>1, <2>1 DEF Iv!Fail
  <1>3. work' \in Works /\ work'.at = "lines" /\ work'.msg = work.msg
    BY <1>0, <1>1 DEF Works
  <1>4. WorkFits' BY <1>0, <1>1, <1>3 DEF WorkFits
  <1>5. \A m \in Iv!Messages : queue'[m] <= queue[m] BY <1>0, <1>1
  <1>6. \A l \in Iv!LogIds, w \in Windows : Due(w, l)' <= Due(w, l)
    <2>1. \A l, w : ~AtWork(w, l)' BY <1>3 DEF AtWork
    <2> QED BY <1>0, <1>1, <2>1, DueFalls
  <1> QED BY <1>0, <1>1, <1>2, <1>3, <1>4, <1>5, <1>6, LogsRest

\* A window is published: what was due from the start is due from the message.
LEMMA FanOutStep ==
  ASSUME InvoiceInv, Iv!FanOut
  PROVE  InvoiceInv'
  <1>0. /\ InvoiceTypes /\ queue \in [Iv!Messages -> Nat] /\ work \in Works /\ WorkFits
        /\ failures \in 0..failures
    BY ImportsAssumption DEF InvoiceInv, InvoiceTypes
  <1>1. /\ UNCHANGED <<headers, logs, stored, repeats, up, failures>> /\ work.at = "fanout"
    BY DEF Iv!FanOut
  <1>2. CASE work.todo = {}
    <2>1. work' = Iv!Free /\ queue' = queue BY <1>2 DEF Iv!FanOut
    <2>2. work' \in Works /\ work'.at = "free" /\ work'.msg.log = 0
      BY <2>1, FreeWork
    <2>3. WorkFits' BY <2>1, <2>2 DEF WorkFits
    <2>4. \A m \in Iv!Messages : queue'[m] <= queue[m] BY <1>0, <2>1
    <2>5. \A l \in Iv!LogIds, w \in Windows : Due(w, l)' <= Due(w, l)
      <3>1. \A l, w : ~AtWork(w, l)' BY <2>2 DEF AtWork
      <3> QED BY <1>0, <2>1, <3>1, DueFalls
    <2> QED BY <1>0, <1>1, <2>1, <2>2, <2>3, <2>4, <2>5, LogsRest
  <1>3. CASE work.todo # {}
    <2> DEFINE v == CHOOSE w \in work.todo : \A x \in work.todo : w <= x
               k == work.msg.log
    <2>1. work.todo \subseteq Windows /\ work.msg \in Iv!Messages /\ work.msg.kind = "cold"
      BY <1>0, <1>1 DEF WorkFits, Works
    <2>2. k \in Iv!LogIds /\ work.msg = Iv!Cold(k)
      BY <2>1, MessageKinds, MessageFields
    <2>3. v \in work.todo
      <3>1. \E w \in work.todo : \A x \in work.todo : w <= x
        BY <1>3, <2>1, ImportsAssumption, Smallest
      <3> QED BY <3>1
    <2>4. /\ queue' = Iv!Put(queue, Window(v, k))
          /\ work' = [work EXCEPT !.todo = work.todo \ {v}]
      BY <1>3 DEF Iv!FanOut, Window
    <2> HIDE DEF v, k
    <2>5. Window(v, k) \in Iv!Messages BY <2>1, <2>2, <2>3, MessageKinds
    <2>6. /\ queue' \in [Iv!Messages -> Nat] /\ queue'[Window(v, k)] = queue[Window(v, k)] + 1
          /\ \A m \in Iv!Messages : m # Window(v, k) => queue'[m] = queue[m]
      BY <1>0, <2>4, <2>5, PutValues
    <2>7. /\ work' \in Works /\ work'.at = "fanout" /\ work'.msg = work.msg
          /\ work'.todo = work.todo \ {v}
      BY <1>0, <1>1, <2>4 DEF Works
    <2>8. WorkFits' BY <2>1, <2>7 DEF WorkFits
    <2>9. ASSUME NEW m \in Iv!Messages
          PROVE  m.log \in {work.msg.log, 0} \/ queue'[m] <= queue[m]
      <3>1. m = Window(v, k) => m.log = work.msg.log BY MessageFields DEF k
      <3>2. queue[m] \in Nat BY <1>0
      <3> QED BY <2>6, <3>1, <3>2
    <2>10. ASSUME NEW l \in Iv!LogIds, NEW w \in Windows PROVE Due(w, l)' <= Due(w, l)
      <3>1. /\ Window(w, l) \in Iv!Messages /\ Iv!Cold(l) \in Iv!Messages
            /\ queue[Window(w, l)] \in Nat /\ queue[Iv!Cold(l)] \in Nat
        BY <1>0, MessageKinds
      <3>2. queue'[Iv!Cold(l)] = queue[Iv!Cold(l)]
        BY <2>6, <3>1, MessageFields
      <3>3. /\ AtWork(w, l) <=> l = k /\ w \in work.todo
            /\ AtWork(w, l)' <=> l = k /\ w \in work.todo \ {v}
        BY <1>1, <2>2, <2>7, MessageFields DEF AtWork
      <3>4. CASE w = v /\ l = k
        BY <2>3, <2>6, <3>1, <3>2, <3>3, <3>4 DEF Due
      <3>5. CASE ~(w = v /\ l = k)
        <4>1. queue'[Window(w, l)] = queue[Window(w, l)]
          BY <2>6, <3>1, <3>5, MessageFields
        <4>2. AtWork(w, l)' <=> AtWork(w, l) BY <3>3, <3>5
        <4>3. Due(w, l)' = Due(w, l) BY <3>2, <4>1, <4>2 DEF Due
        <4> QED BY <1>0, <4>3, SpareType
      <3> QED BY <3>4, <3>5
    <2> QED BY <1>0, <1>1, <2>6, <2>7, <2>8, <2>9, <2>10, LogsRest
  <1> QED BY <1>2, <1>3

\* A message is taken: what was due for it is at work.
LEMMA TakeStep ==
  ASSUME InvoiceInv, NEW m \in Iv!Messages, Iv!Take(m)
  PROVE  InvoiceInv'
  <1>0. /\ InvoiceTypes /\ queue \in [Iv!Messages -> Nat] /\ WorkFits /\ LogLeft
        /\ \A l \in Iv!LogIds : Unused(l) /\ Completes(l) /\ Balanced(l)
    BY DEF InvoiceInv, InvoiceTypes
  <1>1. /\ UNCHANGED <<headers, logs, stored, repeats, up, failures>>
        /\ queue[m] > 0 /\ queue' = [queue EXCEPT ![m] = queue[m] - 1]
        /\ work = Iv!Free
        /\ work' = [at |-> IF m.kind = "cold" THEN "total" ELSE "list", msg |-> m, todo |-> {}]
    BY DEF Iv!Take
  <1>2. /\ queue' \in [Iv!Messages -> Nat] /\ queue'[m] = queue[m] - 1
        /\ \A x \in Iv!Messages : x # m => queue'[x] = queue[x]
    BY <1>0, <1>1
  <1>3. /\ work' \in Works /\ work'.msg = m
        /\ work'.at = IF m.kind = "cold" THEN "total" ELSE "list"
    BY <1>1 DEF Works
  <1>4. InvoiceTypes' BY <1>0, <1>1, <1>2, <1>3 DEF InvoiceTypes
  <1>5. WorkFits' BY <1>3 DEF WorkFits
  <1>6. LogLeft' BY <1>0, <1>1 DEF LogLeft, Booted
  <1>7. ASSUME NEW l \in Iv!LogIds PROVE Unused(l)' /\ Completes(l)' /\ Balanced(l)'
    <2>1. Completes(l)' BY <1>0, <1>1 DEF Completes
    <2>2. Unused(l)'
      <3>1. SUFFICES ASSUME logs'[l] = Iv!NoLog
                     PROVE  work'.msg.log # l /\ \A x \in Iv!Messages : x.log = l => queue'[x] = 0
        BY DEF Unused
      <3>2. \A x \in Iv!Messages : x.log = l => queue[x] = 0
        BY <1>0, <1>1, <3>1 DEF Unused
      <3>3. m.log # l BY <1>1, <3>2
      <3> QED BY <1>2, <1>3, <3>2, <3>3
    <2>3. ASSUME NEW w \in Windows PROVE Due(w, l)' <= Due(w, l)
      <3>1. /\ Window(w, l) \in Iv!Messages /\ Iv!Cold(l) \in Iv!Messages
            /\ queue[Window(w, l)] \in Nat /\ queue[Iv!Cold(l)] \in Nat /\ queue[m] \in Nat
        BY <1>0, MessageKinds
      <3>2. Window(w, l) # Iv!Cold(l) /\ Window(w, l).kind # "cold" /\ Iv!Cold(l).kind = "cold"
        BY MessageFields
      <3>3. ~AtWork(w, l) BY <1>1, FreeWork DEF AtWork
      <3>4. AtWork(w, l)' <=> m = Window(w, l) \/ m = Iv!Cold(l)
        BY <1>3, <3>2 DEF AtWork
      <3>5. CASE m = Window(w, l)
        BY <1>2, <3>1, <3>2, <3>3, <3>4, <3>5 DEF Due
      <3>6. CASE m = Iv!Cold(l)
        BY <1>2, <3>1, <3>2, <3>3, <3>4, <3>6 DEF Due
      <3>7. CASE m # Window(w, l) /\ m # Iv!Cold(l)
        BY <1>2, <3>1, <3>3, <3>4, <3>7 DEF Due
      <3> QED BY <3>5, <3>6, <3>7
    <2>4. Balanced(l)' BY <1>0, <1>1, <1>4, <2>3, DueRests
    <2> QED BY <2>1, <2>2, <2>4
  <1> QED BY <1>4, <1>5, <1>6, <1>7 DEF InvoiceInv

\* One log changes that was in use, and stays so.
LEMMA LogMoves ==
  ASSUME InvoiceInv, NEW k \in Iv!LogIds, NEW r \in LogRows, logs' = [logs EXCEPT ![k] = r],
         logs[k] # Iv!NoLog, r # Iv!NoLog, r.total \in {Iv!Unknown, Cardinality(Windows)},
         r.status = "completed" => r.processed >= Cardinality(Windows),
         up' = up, failures' \in 0..failures
  PROVE  /\ LogLeft' /\ logs' \in [Iv!LogIds -> LogRows] /\ failures' \in 0..MaxFailures
         /\ logs'[k] = r
         /\ \A l \in Iv!LogIds : /\ Completes(l)' /\ (l # k => logs'[l] = logs[l])
                                 /\ logs'[l] = Iv!NoLog => logs[l] = Iv!NoLog
  <1>0. /\ logs \in [Iv!LogIds -> LogRows] /\ LogLeft /\ \A l \in Iv!LogIds : Completes(l)
        /\ failures \in 0..MaxFailures /\ MaxFailures \in Nat
    BY ImportsAssumption DEF InvoiceInv, InvoiceTypes
  <1>1. /\ logs' \in [Iv!LogIds -> LogRows] /\ logs'[k] = r
        /\ \A l \in Iv!LogIds : l # k => logs'[l] = logs[l]
    BY <1>0
  <1>2. \A l \in Iv!LogIds : /\ Completes(l)'
                             /\ logs'[l] = Iv!NoLog => logs[l] = Iv!NoLog
    BY <1>0, <1>1 DEF Completes
  <1>3. failures' \in 0..MaxFailures /\ Booted' >= Booted /\ Booted \in Int /\ Booted' \in Int
    <2> DEFINE n == IF up THEN 1 ELSE 0
    <2>1. n \in Int /\ Booted = MaxFailures - failures + n /\ Booted' = MaxFailures - failures' + n
      BY DEF Booted
    <2>2. failures' \in Int /\ 0 <= failures' /\ failures' <= failures
      BY <1>0
    <2>3. failures \in Int /\ failures <= MaxFailures /\ MaxFailures \in Int
      BY <1>0
    <2> HIDE DEF n
    <2>4. failures' \in 0..MaxFailures BY <2>2, <2>3
    <2>5. Booted \in Int /\ Booted' \in Int BY <2>1, <2>2, <2>3
    <2>6. Booted' >= Booted BY <2>1, <2>2, <2>3, Falls
    <2> QED BY <2>4, <2>5, <2>6
  <1>4. LogLeft'
    <2>1. \A l \in Iv!LogIds : l > Booted' => l > Booted
      BY <1>3, ImportsAssumption DEF Iv!LogIds
    <2> QED BY <1>0, <1>1, <2>1 DEF LogLeft
  <1> QED BY <1>1, <1>2, <1>3, <1>4

\* The watchdog, and the end of a window: a log is closed.
LEMMA WatchdogStep ==
  ASSUME InvoiceInv, NEW k \in Iv!LogIds, Iv!Watchdog(k)
  PROVE  InvoiceInv'
  <1>0. /\ InvoiceTypes /\ queue \in [Iv!Messages -> Nat] /\ WorkFits
        /\ logs[k] \in LogRows /\ failures \in 0..MaxFailures /\ MaxFailures \in Nat
        /\ \A l \in Iv!LogIds : Unused(l) /\ Completes(l) /\ Balanced(l)
    BY ImportsAssumption DEF InvoiceInv, InvoiceTypes
  <1> DEFINE r == [logs[k] EXCEPT !.status = "failed"]
  <1>1. /\ UNCHANGED <<headers, stored, queue, work, up, repeats>>
        /\ logs[k].status = "running" /\ Iv!Fail
    BY DEF Iv!Watchdog
  <1>2. logs' = [logs EXCEPT ![k] = r]
    BY DEF Iv!Watchdog
  <1>3. r \in LogRows /\ r.status = "failed" /\ r.total = logs[k].total
        /\ r.processed = logs[k].processed
    BY <1>0 DEF LogRows
  <1>4. Iv!NoLog.status = "none" BY DEF Iv!NoLog
  <1>5. failures' \in 0..failures
    <2>1. failures \in Nat BY <1>0
    <2> QED BY <1>1, <2>1 DEF Iv!Fail
  <1> HIDE DEF r
  <1>6. r.total \in {Iv!Unknown, Cardinality(Windows)} BY <1>0, <1>3 DEF Completes
  <1>7. /\ LogLeft' /\ logs' \in [Iv!LogIds -> LogRows] /\ failures' \in 0..MaxFailures
        /\ logs'[k] = r
        /\ \A l \in Iv!LogIds : /\ Completes(l)' /\ (l # k => logs'[l] = logs[l])
                                /\ logs'[l] = Iv!NoLog => logs[l] = Iv!NoLog
    BY <1>1, <1>2, <1>3, <1>4, <1>5, <1>6, LogMoves
  <1>8. InvoiceTypes' BY <1>0, <1>1, <1>7 DEF InvoiceTypes
  <1>9. WorkFits' BY <1>0, <1>1 DEF WorkFits
  <1>10. ASSUME NEW l \in Iv!LogIds PROVE Unused(l)' /\ Balanced(l)'
    <2>1. logs'[l].processed = logs[l].processed BY <1>3, <1>7
    <2>2. \A w \in Windows : Due(w, l)' <= Due(w, l)
      BY <1>0, <1>1, DueFalls DEF AtWork
    <2>3. Unused(l)'
      <3>1. \A m \in Iv!Messages : queue'[m] <= queue[m] BY <1>0, <1>1
      <3> QED BY <1>1, <1>7, <1>8, <3>1, UnusedRests
    <2>4. Balanced(l)' BY <1>0, <1>1, <1>8, <2>1, <2>2, DueRests
    <2> QED BY <2>3, <2>4
  <1> QED BY <1>7, <1>8, <1>9, <1>10 DEF InvoiceInv

\* The log of the message at work is in use.
LEMMA AtWorkLog ==
  ASSUME InvoiceInv, work.msg.kind # "recent"
  PROVE  /\ work.msg \in Iv!Messages /\ work.msg.log \in Iv!LogIds
         /\ logs[work.msg.log] # Iv!NoLog /\ logs[work.msg.log] \in LogRows
         /\ work.msg.kind = "cold" => work.msg = Iv!Cold(work.msg.log)
         /\ work.msg.kind = "window" => /\ work.msg.window \in Windows
                                        /\ work.msg = Window(work.msg.window, work.msg.log)
  <1>1. work.msg \in Iv!Messages BY DEF InvoiceInv, InvoiceTypes, Works
  <1>2. /\ work.msg.log \in Iv!LogIds
        /\ work.msg.kind = "cold" => work.msg = Iv!Cold(work.msg.log)
        /\ work.msg.kind = "window" => /\ work.msg.window \in Windows
                                       /\ work.msg = Window(work.msg.window, work.msg.log)
    <2>1. \/ work.msg.kind = "cold" /\ work.msg.log \in Iv!LogIds /\ work.msg = Iv!Cold(work.msg.log)
          \/ /\ work.msg.kind = "window" /\ work.msg.log \in Iv!LogIds /\ work.msg.window \in Windows
             /\ work.msg = Window(work.msg.window, work.msg.log)
      BY <1>1, MessageKinds
    <2> QED BY <2>1
  <1>3. logs[work.msg.log] # Iv!NoLog BY <1>2 DEF InvoiceInv, Unused
  <1>4. logs[work.msg.log] \in LogRows BY <1>2 DEF InvoiceInv, InvoiceTypes
  <1> QED BY <1>1, <1>2, <1>3, <1>4

\* The start records how many windows there are, and owes each of them a message.
LEMMA SetTotalStep ==
  ASSUME InvoiceInv, Iv!SetTotal
  PROVE  InvoiceInv'
  <1> DEFINE k == work.msg.log
             r == [logs[k] EXCEPT !.total = Cardinality(Windows)]
  <1>0. /\ InvoiceTypes /\ queue \in [Iv!Messages -> Nat] /\ WorkFits /\ work \in Works
        /\ failures \in 0..failures
        /\ \A l \in Iv!LogIds : Unused(l) /\ Completes(l) /\ Balanced(l)
    BY ImportsAssumption DEF InvoiceInv, InvoiceTypes
  <1>1. /\ UNCHANGED <<headers, stored, queue, up, repeats, failures>> /\ work.at = "total"
        /\ work' = [work EXCEPT !.at = "fanout", !.todo = Windows]
    BY DEF Iv!SetTotal
  <1>2. logs' = [logs EXCEPT ![k] = r]
    BY SameSize DEF Iv!SetTotal
  <1>3. /\ k \in Iv!LogIds /\ logs[k] \in LogRows /\ logs[k] # Iv!NoLog
        /\ work.msg = Iv!Cold(k)
    BY <1>0, <1>1, AtWorkLog DEF WorkFits
  <1>4. Cardinality(Windows) \in Nat /\ Cardinality(Windows) # Iv!Unknown
    <2>1. Cardinality(Windows) \in Nat BY ImportsAssumption, FS_CardinalityType
    <2> QED BY <2>1 DEF Iv!Unknown
  <1>5. /\ r \in LogRows /\ r.status = logs[k].status /\ r.total = Cardinality(Windows)
        /\ r.processed = logs[k].processed
    BY <1>3, <1>4 DEF LogRows
  <1>6. Iv!NoLog.total = Iv!Unknown BY DEF Iv!NoLog
  <1>7. /\ work' \in Works /\ work'.at = "fanout" /\ work'.msg = work.msg /\ work'.todo = Windows
    BY <1>0, <1>1 DEF Works, Iv!Invoices
  <1> HIDE DEF k, r
  <1>8. /\ LogLeft' /\ logs' \in [Iv!LogIds -> LogRows] /\ failures' \in 0..MaxFailures
        /\ logs'[k] = r
        /\ \A l \in Iv!LogIds : /\ Completes(l)' /\ (l # k => logs'[l] = logs[l])
                                /\ logs'[l] = Iv!NoLog => logs[l] = Iv!NoLog
    <2>1. r # Iv!NoLog BY <1>4, <1>5, <1>6
    <2>2. r.status = "completed" => r.processed >= Cardinality(Windows)
      BY <1>0, <1>3, <1>5 DEF Completes
    <2>3. up' = up /\ failures' \in 0..failures BY <1>0, <1>1
    <2> QED BY <1>2, <1>3, <1>5, <2>1, <2>2, <2>3, LogMoves
  <1>9. InvoiceTypes' BY <1>0, <1>1, <1>7, <1>8 DEF InvoiceTypes
  <1>10. WorkFits' BY <1>0, <1>1, <1>7 DEF WorkFits
  <1>11. ASSUME NEW l \in Iv!LogIds PROVE Unused(l)' /\ Balanced(l)'
    <2>1. logs'[l].processed = logs[l].processed BY <1>5, <1>8
    <2>2. ASSUME NEW w \in Windows PROVE Due(w, l)' <= Due(w, l)
      <3>1. AtWork(w, l)' => AtWork(w, l) BY <1>1, <1>7 DEF AtWork
      <3> QED BY <1>0, <1>1, <3>1, DueFalls
    <2>3. Unused(l)'
      <3>1. \A m \in Iv!Messages : queue'[m] <= queue[m] BY <1>0, <1>1
      <3> QED BY <1>7, <1>8, <1>9, <3>1, UnusedRests
    <2>4. Balanced(l)' BY <1>0, <1>1, <1>9, <2>1, <2>2, DueRests
    <2> QED BY <2>3, <2>4
  <1> QED BY <1>8, <1>9, <1>10, <1>11 DEF InvoiceInv

\* A stored window is counted: one more is processed, one less is due.
LEMMA CountWindowStep ==
  ASSUME InvoiceInv, Iv!CountWindow
  PROVE  InvoiceInv'
  <1> DEFINE k == work.msg.log
             v == work.msg.window
             r == [logs[k] EXCEPT !.processed = logs[k].processed + 1]
  <1>0. /\ InvoiceTypes /\ queue \in [Iv!Messages -> Nat] /\ WorkFits /\ work \in Works
        /\ failures \in 0..failures
        /\ \A l \in Iv!LogIds : Unused(l) /\ Completes(l) /\ Balanced(l)
    BY ImportsAssumption DEF InvoiceInv, InvoiceTypes
  <1>1. /\ UNCHANGED <<headers, stored, queue, up, repeats, failures>> /\ work.at = "count"
        /\ work' = [work EXCEPT !.at = "finalize"]
    BY DEF Iv!CountWindow
  <1>2. logs' = [logs EXCEPT ![k] = r]
    BY DEF Iv!CountWindow
  <1>3. /\ k \in Iv!LogIds /\ logs[k] \in LogRows /\ logs[k] # Iv!NoLog
        /\ v \in stored /\ v \in Windows /\ work.msg = Window(v, k)
    BY <1>0, <1>1, AtWorkLog DEF WorkFits
  <1>4. /\ r \in LogRows /\ r.status = logs[k].status /\ r.total = logs[k].total
        /\ r.processed = logs[k].processed + 1 /\ logs[k].processed \in Nat
    BY <1>3 DEF LogRows
  <1>5. Iv!NoLog.processed = 0 BY DEF Iv!NoLog
  <1>6. /\ work' \in Works /\ work'.at = "finalize" /\ work'.msg = work.msg
    BY <1>0, <1>1 DEF Works
  <1>7. Cardinality(Windows) \in Nat BY ImportsAssumption, FS_CardinalityType
  <1> HIDE DEF k, r, v
  <1>8. /\ LogLeft' /\ logs' \in [Iv!LogIds -> LogRows] /\ failures' \in 0..MaxFailures
        /\ logs'[k] = r
        /\ \A l \in Iv!LogIds : /\ Completes(l)' /\ (l # k => logs'[l] = logs[l])
                                /\ logs'[l] = Iv!NoLog => logs[l] = Iv!NoLog
    <2>1. r # Iv!NoLog BY <1>4, <1>5
    <2>2. r.status = "completed" => r.processed >= Cardinality(Windows)
      <3> SUFFICES ASSUME r.status = "completed" PROVE r.processed >= Cardinality(Windows)
        OBVIOUS
      <3>1. logs[k].processed >= Cardinality(Windows)
        BY <1>0, <1>3, <1>4 DEF Completes
      <3> DEFINE a == logs[k].processed
                 b == r.processed
      <3>2. a \in Nat /\ b = a + 1 /\ a >= Cardinality(Windows) BY <1>4, <3>1
      <3> HIDE DEF a, b
      <3>3. b >= Cardinality(Windows) BY <1>7, <3>2
      <3> QED BY <3>3 DEF b
    <2>3. r.total \in {Iv!Unknown, Cardinality(Windows)} BY <1>0, <1>3, <1>4 DEF Completes
    <2>4. up' = up /\ failures' \in 0..failures BY <1>0, <1>1
    <2> QED BY <1>2, <1>3, <1>4, <2>1, <2>2, <2>3, <2>4, LogMoves
  <1>9. InvoiceTypes' BY <1>0, <1>1, <1>6, <1>8 DEF InvoiceTypes
  <1>10. WorkFits' BY <1>0, <1>1, <1>6 DEF WorkFits
  <1>11. ASSUME NEW l \in Iv!LogIds PROVE Unused(l)' /\ Balanced(l)'
    <2>1. \A w : ~AtWork(w, l)' BY <1>6 DEF AtWork
    <2>2. Unused(l)'
      <3>1. \A m \in Iv!Messages : queue'[m] <= queue[m] BY <1>0, <1>1
      <3> QED BY <1>6, <1>8, <1>9, <3>1, UnusedRests
    <2>3. CASE l # k
      <3>1. \A w \in Windows : Due(w, l)' <= Due(w, l)
        BY <1>0, <1>1, <2>1, DueFalls
      <3>2. Balanced(l)' BY <1>0, <1>1, <1>8, <1>9, <2>3, <3>1, DueRests
      <3> QED BY <2>2, <3>2
    <2>4. CASE l = k
      <3>1. ASSUME NEW w \in Windows
            PROVE  Spare(l)'[w] + (IF w \in {v} THEN 1 ELSE 0)
                     <= Spare(l)[w] + (IF w \in {} THEN 1 ELSE 0)
        <4>1. /\ Due(w, l) \in Nat /\ Due(w, l)' \in Nat
              /\ queue[Window(w, l)] \in Nat /\ queue[Iv!Cold(l)] \in Nat
          BY <1>0, <1>9, SpareType, SpareTypeNext, MessageKinds
        <4>2. AtWork(w, l) <=> w = v
          BY <1>1, <1>3, <2>4, MessageFields DEF AtWork
        <4>3. Due(w, l)' = Due(w, l) - (IF w = v THEN 1 ELSE 0)
          BY <1>1, <2>1, <4>1, <4>2 DEF Due
        <4>4. Due(w, l)' <= Due(w, l) BY <4>1, <4>3
        <4>5. CASE w = v
          <5>1. Spare(l)'[w] = Due(w, l)' /\ Spare(l)[w] = Due(w, l)
            BY <1>1, <1>3, <4>5 DEF Spare
          <5> QED BY <4>1, <4>3, <4>5, <5>1
        <4>6. CASE w # v
          <5>1. Due(w, l)' = Due(w, l) BY <4>1, <4>3, <4>6
          <5>2. Spare(l)'[w] = Spare(l)[w] BY <1>1, <5>1 DEF Spare
          <5>3. Spare(l)[w] \in Nat BY <1>0, SpareType
          <5> QED BY <4>6, <5>2, <5>3
        <4> QED BY <4>5, <4>6
      <3>2. Cardinality({}) = 0 /\ Cardinality({v}) = 1 BY FS_EmptySet, FS_Singleton
      <3>3. Cardinality(stored) \in Nat /\ repeats[l] \in Nat BY <1>0, SpareType
      <3>4. logs'[l].processed + Cardinality({}) + Cardinality(stored) + repeats[l]
              <= logs[l].processed + Cardinality({v}) + Cardinality(stored') + repeats'[l]
        BY <1>1, <1>4, <1>8, <2>4, <3>2, <3>3
      <3>5. Balanced(l)'
        BY <1>0, <1>3, <1>9, <3>1, <3>4, BalanceMoves
      <3> QED BY <2>2, <3>5
    <2> QED BY <2>3, <2>4
  <1> QED BY <1>8, <1>9, <1>10, <1>11 DEF InvoiceInv

\* A log is completed when what it counted is at least the number of windows.
LEMMA TryFinalizeStep ==
  ASSUME InvoiceInv, Iv!TryFinalize
  PROVE  InvoiceInv'
  <1> DEFINE k == work.msg.log
             r == [logs[k] EXCEPT !.status = "completed"]
  <1>0. /\ InvoiceTypes /\ queue \in [Iv!Messages -> Nat] /\ WorkFits /\ work \in Works
        /\ failures \in 0..failures
        /\ \A l \in Iv!LogIds : Unused(l) /\ Completes(l) /\ Balanced(l)
    BY ImportsAssumption DEF InvoiceInv, InvoiceTypes
  <1>1. /\ UNCHANGED <<headers, stored, queue, up, repeats, failures>> /\ work.at = "finalize"
        /\ work' = Iv!Free
    BY DEF Iv!TryFinalize
  <1>2. \/ logs' = logs
        \/ /\ logs' = [logs EXCEPT ![k] = r]
           /\ logs[k].total # Iv!Unknown /\ logs[k].processed >= logs[k].total
    BY DEF Iv!TryFinalize
  <1>3. /\ k \in Iv!LogIds /\ logs[k] \in LogRows /\ logs[k] # Iv!NoLog
    BY <1>0, <1>1, AtWorkLog DEF WorkFits
  <1>4. /\ r \in LogRows /\ r.status = "completed" /\ r.total = logs[k].total
        /\ r.processed = logs[k].processed
    BY <1>3 DEF LogRows
  <1>5. Iv!NoLog.status = "none" BY DEF Iv!NoLog
  <1>6. /\ work' \in Works /\ work'.at = "free" /\ work'.msg.log = 0
    BY <1>1, FreeWork
  <1>7. WorkFits' BY <1>1, <1>6 DEF WorkFits
  <1>8. \A l, w : ~AtWork(w, l)' BY <1>6 DEF AtWork
  <1>9. \A l \in Iv!LogIds, w \in Windows : Due(w, l)' <= Due(w, l)
    BY <1>0, <1>1, <1>8, DueFalls
  <1>10. \A m \in Iv!Messages : queue'[m] <= queue[m] BY <1>0, <1>1
  <1> HIDE DEF k, r
  <1>11. CASE logs' = logs
    BY <1>0, <1>1, <1>6, <1>7, <1>9, <1>10, <1>11, LogsRest
  <1>12. CASE /\ logs' = [logs EXCEPT ![k] = r]
              /\ logs[k].total # Iv!Unknown /\ logs[k].processed >= logs[k].total
    <2>1. /\ LogLeft' /\ logs' \in [Iv!LogIds -> LogRows] /\ failures' \in 0..MaxFailures
          /\ logs'[k] = r
          /\ \A l \in Iv!LogIds : /\ Completes(l)' /\ (l # k => logs'[l] = logs[l])
                                  /\ logs'[l] = Iv!NoLog => logs[l] = Iv!NoLog
      <3>1. r # Iv!NoLog BY <1>4, <1>5
      <3>2. logs[k].total = Cardinality(Windows) BY <1>0, <1>3, <1>12 DEF Completes
      <3>3. /\ r.status = "completed" => r.processed >= Cardinality(Windows)
            /\ r.total \in {Iv!Unknown, Cardinality(Windows)}
        BY <1>4, <1>12, <3>2
      <3>4. up' = up /\ failures' \in 0..failures BY <1>0, <1>1
      <3> QED BY <1>3, <1>4, <1>12, <3>1, <3>3, <3>4, LogMoves
    <2>2. InvoiceTypes' BY <1>0, <1>1, <1>6, <2>1 DEF InvoiceTypes
    <2>3. ASSUME NEW l \in Iv!LogIds PROVE Unused(l)' /\ Balanced(l)'
      <3>1. logs'[l].processed = logs[l].processed BY <1>4, <2>1
      <3>2. Unused(l)' BY <1>6, <1>10, <2>1, <2>2, UnusedRests
      <3>3. Balanced(l)' BY <1>0, <1>1, <1>9, <2>2, <3>1, DueRests
      <3> QED BY <3>2, <3>3
    <2> QED BY <1>7, <2>1, <2>2, <2>3 DEF InvoiceInv
  <1> QED BY <1>2, <1>11, <1>12

\* A window is stored: it may be due once less, and one more is stored.
LEMMA StorePageStep ==
  ASSUME InvoiceInv, Iv!StorePage
  PROVE  InvoiceInv'
  <1> DEFINE C == Iv!Covered(work.msg)
             T == (C \cap Windows) \ stored
  <1>0. /\ InvoiceTypes /\ queue \in [Iv!Messages -> Nat] /\ WorkFits /\ work \in Works
        /\ LogLeft /\ stored \subseteq Windows /\ stored \subseteq headers
        /\ \A l \in Iv!LogIds : Unused(l) /\ Completes(l) /\ Balanced(l)
    BY ImportsAssumption DEF InvoiceInv, InvoiceTypes
  <1>1. /\ UNCHANGED <<logs, queue, up, repeats, failures>> /\ work.at = "list"
        /\ headers' = headers \cup C /\ stored' = stored \cup (C \cap Windows)
        /\ work' = [work EXCEPT !.at = IF work.msg.kind = "window" THEN "count" ELSE "lines",
                                !.todo = C]
    BY DEF Iv!StorePage
  <1>2. work.msg \in Iv!Messages BY <1>0 DEF Works
  <1>3. C \subseteq Iv!Invoices /\ (work.msg.kind = "window" => C = {work.msg.window})
    <2>1. CASE work.msg.kind = "window"
      <3>1. work.msg.window \in Windows BY <2>1, <1>2, AtWorkLog
      <3> QED BY <2>1, <3>1 DEF Iv!Covered, Iv!Invoices
    <2>2. CASE work.msg.kind = "recent" BY <2>2 DEF Iv!Covered, Iv!Invoices
    <2>3. CASE work.msg.kind = "cold" BY <2>3 DEF Iv!Covered
    <2> QED BY <1>2, <2>1, <2>2, <2>3, MessageKinds
  <1> HIDE DEF C
  <1>4. /\ work' \in Works /\ work'.msg = work.msg /\ work'.todo = C
        /\ work'.at = IF work.msg.kind = "window" THEN "count" ELSE "lines"
    BY <1>0, <1>1, <1>3 DEF Works
  <1>5. InvoiceTypes'
    <2>1. stored' \subseteq Windows /\ stored' \subseteq headers' BY <1>0, <1>1
    <2> QED BY <1>0, <1>1, <1>4, <2>1 DEF InvoiceTypes
  <1>6. WorkFits'
    <2>1. CASE work.msg.kind = "window"
      <3>1. work.msg.window \in Windows BY <2>1, AtWorkLog, <1>0
      <3> QED BY <1>1, <1>3, <1>4, <2>1, <3>1 DEF WorkFits
    <2>2. CASE work.msg.kind # "window"
      <3>1. work.msg.kind = "recent" BY <1>0, <1>1, <1>2, <2>2, MessageKinds DEF WorkFits
      <3> QED BY <1>4, <3>1 DEF WorkFits
    <2> QED BY <2>1, <2>2
  <1>7. LogLeft' BY <1>0, <1>1 DEF LogLeft, Booted
  <1>8. /\ T \in SUBSET Windows /\ stored' = stored \cup T /\ stored \cap T = {}
    BY <1>0, <1>1
  <1> HIDE DEF T
  <1>9. Cardinality(stored') = Cardinality(stored) + Cardinality(T) /\ Cardinality(T) \in Nat
    <2>1. IsFiniteSet(stored) /\ IsFiniteSet(T)
      BY <1>0, <1>8, ImportsAssumption, FS_Subset
    <2>2. Cardinality(stored \cup T)
            = Cardinality(stored) + Cardinality(T) - Cardinality(stored \cap T)
      BY <2>1, FS_Union
    <2>3. Cardinality(stored) \in Nat /\ Cardinality(T) \in Nat BY <2>1, FS_CardinalityType
    <2>4. Cardinality(stored \cap T) = 0 BY <1>8, FS_EmptySet
    <2> QED BY <1>8, <2>2, <2>3, <2>4
  <1>10. ASSUME NEW l \in Iv!LogIds PROVE Unused(l)' /\ Completes(l)' /\ Balanced(l)'
    <2>1. Completes(l)' BY <1>0, <1>1 DEF Completes
    <2>2. Unused(l)'
      <3>1. \A m \in Iv!Messages : queue'[m] <= queue[m] BY <1>0, <1>1
      <3> QED BY <1>1, <1>4, <1>5, <3>1, UnusedRests
    <2>3. ASSUME NEW w \in Windows
          PROVE  Spare(l)'[w] + (IF w \in {} THEN 1 ELSE 0)
                   <= Spare(l)[w] + (IF w \in T THEN 1 ELSE 0)
      <3>1. AtWork(w, l)' <=> AtWork(w, l)
        BY <1>1, <1>4, MessageFields DEF AtWork
      <3>2. Due(w, l)' = Due(w, l) BY <1>1, <3>1 DEF Due
      <3>3. Due(w, l) \in Nat BY <1>0, SpareType
      <3>4. Spare(l)[w] = IF w \in stored \/ Due(w, l) = 0 THEN Due(w, l) ELSE Due(w, l) - 1
        BY DEF Spare
      <3>5. Spare(l)'[w] = IF w \in stored' \/ Due(w, l) = 0 THEN Due(w, l) ELSE Due(w, l) - 1
        BY <3>2 DEF Spare
      <3>6. w \in stored' <=> w \in stored \/ w \in T BY <1>8
      <3> DEFINE d == Due(w, l)
      <3> HIDE DEF d
      <3> QED BY <3>3, <3>4, <3>5, <3>6
    <2>4. /\ Cardinality({}) = 0 /\ Cardinality(stored) \in Nat /\ repeats[l] \in Nat
          /\ logs[l].processed \in Nat
      BY <1>0, FS_EmptySet, SpareType
    <2>5. logs'[l].processed + Cardinality(T) + Cardinality(stored) + repeats[l]
            <= logs[l].processed + Cardinality({}) + Cardinality(stored') + repeats'[l]
      BY <1>1, <1>9, <2>4
    <2>6. Balanced(l)' BY <1>0, <1>5, <1>8, <2>3, <2>5, BalanceMoves
    <2> QED BY <2>1, <2>2, <2>6
  <1> QED BY <1>5, <1>6, <1>7, <1>10 DEF InvoiceInv

\* After a crash the message comes again: a window may be counted again, and the
\* windows published before it are published again.
LEMMA CrashStep ==
  ASSUME InvoiceInv, Iv!Crash
  PROVE  InvoiceInv'
  <1> DEFINE k == work.msg.log
             T == IF work.at = "fanout" THEN Windows \ work.todo
                  ELSE IF work.at = "finalize" THEN {work.msg.window} ELSE {}
  <1>0. /\ InvoiceTypes /\ queue \in [Iv!Messages -> Nat] /\ WorkFits /\ work \in Works
        /\ LogLeft /\ repeats \in [Iv!LogIds -> Nat] /\ work.msg \in Iv!Messages
        /\ failures \in 0..MaxFailures /\ MaxFailures \in Nat
        /\ \A l \in Iv!LogIds : Unused(l) /\ Completes(l) /\ Balanced(l)
    BY ImportsAssumption DEF InvoiceInv, InvoiceTypes, Works
  <1>1. /\ UNCHANGED <<headers, stored, logs>> /\ up /\ up' = FALSE /\ Iv!Fail
        /\ work' = Iv!Free
        /\ queue' = IF work = Iv!Free THEN queue ELSE Iv!Put(queue, work.msg)
    BY DEF Iv!Crash
  <1>2. repeats' = IF work.at \notin {"fanout", "finalize"} THEN repeats
                   ELSE [repeats EXCEPT ![k] = @ + IF work.at = "finalize" THEN 1
                                                  ELSE Cardinality(Windows \ work.todo)]
    BY SameSize DEF Iv!Crash
  <1>3. /\ work' \in Works /\ work'.at = "free" /\ work'.msg.log = 0
    BY <1>1, FreeWork
  <1>4. WorkFits' BY <1>1, <1>3 DEF WorkFits
  <1>5. /\ queue' \in [Iv!Messages -> Nat]
        /\ \A m \in Iv!Messages :
             queue'[m] = queue[m] + (IF work # Iv!Free /\ m = work.msg THEN 1 ELSE 0)
    <2>1. CASE work = Iv!Free BY <1>0, <1>1, <2>1
    <2>2. CASE work # Iv!Free
      <3>1. queue' = Iv!Put(queue, work.msg) BY <1>1, <2>2
      <3>2. \A m \in Iv!Messages : queue[m] \in Nat BY <1>0
      <3> QED BY <1>0, <2>2, <3>1, <3>2, PutValues
    <2> QED BY <2>1, <2>2
  <1>6. failures' \in 0..MaxFailures /\ Booted' = Booted /\ Booted \in Int
    <2>1. failures \in Int /\ failures' = failures - 1 /\ failures > 0 /\ MaxFailures \in Int
      BY <1>0, <1>1 DEF Iv!Fail
    <2>2. Booted = MaxFailures - failures + 1 /\ Booted' = MaxFailures - failures' + 0
      BY <1>1 DEF Booted
    <2> QED BY <1>0, <2>1, <2>2
  <1>7. LogLeft' BY <1>0, <1>1, <1>6 DEF LogLeft
  <1>8. /\ T \in SUBSET Windows /\ Cardinality(T) \in Nat
        /\ (T # {} => k \in Iv!LogIds)
        /\ \A l \in Iv!LogIds : repeats'[l] = repeats[l] + (IF l = k THEN Cardinality(T) ELSE 0)
        /\ repeats' \in [Iv!LogIds -> Nat]
    <2>1. /\ work.at = "fanout" => work.msg.kind # "recent"
          /\ work.at = "finalize" => work.msg.kind # "recent" /\ work.msg.kind = "window"
      BY <1>0 DEF WorkFits
    <2>2. /\ T \in SUBSET Windows /\ (T # {} => k \in Iv!LogIds)
          /\ work.at \in {"fanout", "finalize"} => k \in Iv!LogIds
      BY <2>1, AtWorkLog
    <2>3. IsFiniteSet(T) /\ Cardinality(T) \in Nat
      BY <2>2, ImportsAssumption, FS_Subset, FS_CardinalityType
    <2>4. /\ work.at = "fanout" => Cardinality(T) = Cardinality(Windows \ work.todo)
          /\ work.at = "finalize" => Cardinality(T) = 1
          /\ work.at \notin {"fanout", "finalize"} => Cardinality(T) = 0
      BY FS_EmptySet, FS_Singleton
    <2> HIDE DEF T, k
    <2>5. /\ \A l \in Iv!LogIds : repeats'[l] = repeats[l] + (IF l = k THEN Cardinality(T) ELSE 0)
          /\ repeats' \in [Iv!LogIds -> Nat]
      <3>1. CASE work.at \notin {"fanout", "finalize"}
        <4>1. repeats' = repeats /\ Cardinality(T) = 0 BY <1>2, <2>4, <3>1
        <4>2. \A l \in Iv!LogIds : repeats[l] \in Nat BY <1>0
        <4> QED BY <1>0, <4>1, <4>2
      <3>2. CASE work.at \in {"fanout", "finalize"}
        <4>1. repeats' = [repeats EXCEPT ![k] = repeats[k] + Cardinality(T)]
          BY <1>2, <2>4, <3>2
        <4>2. \A l \in Iv!LogIds : repeats[l] \in Nat BY <1>0
        <4> QED BY <1>0, <2>2, <2>3, <3>2, <4>1, <4>2
      <3> QED BY <3>1, <3>2
    <2> QED BY <2>2, <2>3, <2>5
  <1>9. InvoiceTypes' BY <1>0, <1>1, <1>3, <1>5, <1>6, <1>8 DEF InvoiceTypes
  <1>10. ASSUME NEW l \in Iv!LogIds PROVE Unused(l)' /\ Completes(l)' /\ Balanced(l)'
    <2>1. Completes(l)' BY <1>0, <1>1 DEF Completes
    <2>2. Unused(l)'
      <3>1. ASSUME NEW m \in Iv!Messages
            PROVE  m.log \in {work.msg.log, 0} \/ queue'[m] <= queue[m]
        <4>1. queue[m] \in Nat BY <1>0
        <4> QED BY <1>5, <4>1
      <3> QED BY <1>1, <1>3, <1>9, <3>1, UnusedRests
    <2> DEFINE S == IF l = k THEN T ELSE {}
    <2>3. S \in SUBSET Windows /\ repeats'[l] = repeats[l] + Cardinality(S)
      BY <1>8, FS_EmptySet
    <2>4. ASSUME NEW w \in Windows
          PROVE  Due(w, l)' <= Due(w, l) + (IF w \in S THEN 1 ELSE 0)
      <3>1. /\ Window(w, l) \in Iv!Messages /\ Iv!Cold(l) \in Iv!Messages
            /\ queue[Window(w, l)] \in Nat /\ queue[Iv!Cold(l)] \in Nat
        BY <1>0, MessageKinds
      <3>2. Window(w, l) # Iv!Cold(l)
        BY MessageFields
      <3>3. ~AtWork(w, l)' BY <1>3 DEF AtWork
      <3> DEFINE b == IF work # Iv!Free /\ work.msg \in {Window(w, l), Iv!Cold(l)} THEN 1 ELSE 0
                 a == IF AtWork(w, l) THEN 1 ELSE 0
                 c == IF w \in S THEN 1 ELSE 0
      <3>4. Due(w, l)' = queue[Window(w, l)] + queue[Iv!Cold(l)] + b
        <4>1. Due(w, l)' = queue'[Window(w, l)] + queue'[Iv!Cold(l)] BY <3>1, <3>3, <1>5 DEF Due
        <4> QED BY <1>5, <3>1, <3>2, <4>1
      <3>5. Due(w, l) = queue[Window(w, l)] + queue[Iv!Cold(l)] + a
        BY DEF Due
      <3>6. b <= a + c
        <4>1. CASE work # Iv!Free /\ work.msg = Window(w, l)
          <5>1. /\ work.msg.kind = "window" /\ work.msg.window = w /\ work.msg.log = l
            BY <4>1, MessageFields
          <5>2. work.at \in {"list", "count", "finalize"} BY <1>0, <4>1, <5>1 DEF WorkFits, Works
          <5>3. work.at = "finalize" => w \in S BY <5>1
          <5> QED BY <4>1, <5>2, <5>3 DEF AtWork
        <4>2. CASE work # Iv!Free /\ work.msg = Iv!Cold(l)
          <5>1. /\ work.msg.kind = "cold" /\ work.msg.log = l
            BY <4>2, MessageFields
          <5>2. work.at \in {"total", "fanout"} BY <1>0, <4>2, <5>1 DEF WorkFits, Works
          <5>3. work.at = "fanout" /\ w \notin work.todo => w \in S BY <5>1
          <5> QED BY <4>2, <5>2, <5>3 DEF AtWork
        <4> QED BY <4>1, <4>2
      <3>7. a \in Int /\ b \in Int /\ c \in Int OBVIOUS
      <3>8. queue[Window(w, l)] + queue[Iv!Cold(l)] \in Int BY <3>1
      <3> HIDE DEF a, b, c
      <3>9. Due(w, l)' <= Due(w, l) + c
        BY <3>1, <3>4, <3>5, <3>6, <3>7
      <3> QED BY <3>9 DEF c
    <2> HIDE DEF S
    <2>5. Balanced(l)'
      <3>1. logs'[l].processed = logs[l].processed /\ stored' = stored BY <1>1
      <3> QED BY <1>0, <1>9, <2>3, <2>4, <3>1, DueMoves
    <2> QED BY <2>1, <2>2, <2>5
  <1> QED BY <1>4, <1>7, <1>9, <1>10 DEF InvoiceInv

\* There is a log for the next boot, and it is one of those left for it.
LEMMA NextLogIsLeft ==
  ASSUME InvoiceInv, ~up
  PROVE  /\ Iv!NextLog \in Iv!LogIds /\ logs[Iv!NextLog] = Iv!NoLog
         /\ Iv!NextLog <= Booted + 1 /\ Booted \in Int
  <1> DEFINE First(l) == logs[l] = Iv!NoLog /\ \A k \in 1..l - 1 : logs[k] # Iv!NoLog
             n == Booted + 1
             F == {l \in Iv!LogIds : logs[l] = Iv!NoLog}
  <1>0. MaxFailures \in Nat /\ failures \in 0..MaxFailures /\ LogLeft
    BY ImportsAssumption DEF InvoiceInv, InvoiceTypes
  <1>1. Booted = MaxFailures - failures + 0 BY DEF Booted
  <1>2. Booted \in Int /\ n \in 1..MaxFailures + 1 /\ n > Booted
    BY <1>0, <1>1
  <1>3. n \in F BY <1>0, <1>2 DEF LogLeft, Iv!LogIds
  <1>4. F \in SUBSET Nat BY <1>0 DEF Iv!LogIds
  <1>5. PICK x \in F : \A y \in F : x <= y BY <1>3, <1>4, Smallest
  <1>6. x \in Iv!LogIds /\ First(x)
    <2>1. x \in Iv!LogIds /\ logs[x] = Iv!NoLog BY <1>5
    <2>2. ASSUME NEW k \in 1..x - 1, logs[k] = Iv!NoLog PROVE FALSE
      <3>1. k \in Nat /\ x \in Nat /\ k < x /\ k >= 1 /\ x <= MaxFailures + 1
        BY <1>0, <2>1 DEF Iv!LogIds
      <3>2. k \in F BY <1>0, <2>2, <3>1 DEF Iv!LogIds
      <3>3. x <= k BY <1>5, <3>2
      <3> QED BY <3>1, <3>3
    <2> QED BY <2>1, <2>2
  <1>7. Iv!NextLog \in Iv!LogIds /\ First(Iv!NextLog)
    <2>1. Iv!NextLog = CHOOSE l \in Iv!LogIds : First(l) BY DEF Iv!NextLog
    <2> HIDE DEF First
    <2> QED BY <1>6, <2>1
  <1>8. Iv!NextLog <= n
    <2>1. Iv!NextLog \in Int BY <1>0, <1>7 DEF Iv!LogIds
    <2>2. n \in Int /\ n >= 1 /\ logs[n] = Iv!NoLog BY <1>2, <1>3
    <2> SUFFICES ASSUME ~(Iv!NextLog <= n) PROVE FALSE
      OBVIOUS
    <2>3. n \in 1..Iv!NextLog - 1
      <3> HIDE DEF n
      <3> QED BY <2>1, <2>2
    <2> QED BY <1>7, <2>2, <2>3
  <1> QED BY <1>2, <1>7, <1>8

\* A boot takes the next log; its cold start owes every window once, and nothing is
\* stored yet.
LEMMA BootStep ==
  ASSUME InvoiceInv, Iv!Boot \/ Iv!BootFails
  PROVE  InvoiceInv'
  <1> DEFINE k == Iv!NextLog
  <1>0. /\ InvoiceTypes /\ queue \in [Iv!Messages -> Nat] /\ WorkFits /\ work \in Works
        /\ LogLeft /\ logs \in [Iv!LogIds -> LogRows] /\ stored \subseteq headers
        /\ failures \in 0..MaxFailures /\ MaxFailures \in Nat
        /\ \A l \in Iv!LogIds : Unused(l) /\ Completes(l) /\ Balanced(l)
    BY ImportsAssumption DEF InvoiceInv, InvoiceTypes
  <1>1. /\ UNCHANGED <<headers, stored, work, repeats>> /\ ~up /\ up' = TRUE
        /\ failures' = failures \/ Iv!Fail
    BY DEF Iv!Boot, Iv!BootFails
  <1>2. /\ k \in Iv!LogIds /\ logs[k] = Iv!NoLog /\ k <= Booted + 1 /\ Booted \in Int
        /\ Iv!Cold(k) \in Iv!Messages
    BY <1>1, NextLogIsLeft, MessageKinds
  <1>3. \/ logs' = logs /\ queue' = queue
        \/ /\ headers = {} /\ logs' = [logs EXCEPT ![k] = [logs[k] EXCEPT !.status = "running"]]
           /\ queue' = Iv!Put(queue, Iv!Cold(k))
        \/ /\ logs' = [logs EXCEPT ![k] = [logs[k] EXCEPT !.status = "failed"]] /\ queue' = queue
    BY DEF Iv!Boot, Iv!BootFails
  <1>4. /\ failures' \in 0..MaxFailures /\ Booted' \in Int /\ Booted' >= Booted + 1
    <2>1. Booted = MaxFailures - failures + 0 /\ Booted' = MaxFailures - failures' + 1
      BY <1>1 DEF Booted
    <2>2. failures \in Int /\ MaxFailures \in Int /\ 0 <= failures /\ failures <= MaxFailures
      BY <1>0
    <2>3. failures' \in 0..failures
      BY <1>1, <2>2 DEF Iv!Fail
    <2>4. failures' \in Int /\ failures' <= failures /\ 0 <= failures' BY <2>2, <2>3
    <2>5. Booted' \in Int /\ Booted' >= Booted + 1
      BY <2>1, <2>2, <2>4, Rises
    <2>6. failures' \in 0..MaxFailures BY <2>2, <2>4
    <2> QED BY <2>5, <2>6
  <1>5. WorkFits' BY <1>0, <1>1 DEF WorkFits
  <1>6. \A l \in Iv!LogIds : l > Booted' => l > Booted /\ l # k
    <2>1. \A l \in Iv!LogIds : l \in Int BY <1>0 DEF Iv!LogIds
    <2> HIDE DEF k
    <2> QED BY <1>2, <1>4, <2>1
  <1> HIDE DEF k
  <1>7. ASSUME NEW st \in {"running", "failed"},
               logs' = [logs EXCEPT ![k] = [logs[k] EXCEPT !.status = st]]
        PROVE  /\ LogLeft' /\ logs' \in [Iv!LogIds -> LogRows] /\ logs'[k] # Iv!NoLog
               /\ \A l \in Iv!LogIds : /\ Completes(l)' /\ (l # k => logs'[l] = logs[l])
                                       /\ logs'[l].processed = logs[l].processed
    <2> DEFINE r == [logs[k] EXCEPT !.status = st]
    <2>1. /\ r \in LogRows /\ r.status = st /\ r.total = logs[k].total
          /\ r.processed = logs[k].processed
      BY <1>0, <1>2 DEF LogRows
    <2>2. Iv!NoLog.status = "none" BY DEF Iv!NoLog
    <2> HIDE DEF r
    <2>3. logs' = [logs EXCEPT ![k] = r] BY <1>7 DEF r
    <2>4. /\ logs' \in [Iv!LogIds -> LogRows] /\ logs'[k] = r
          /\ \A l \in Iv!LogIds : l # k => logs'[l] = logs[l]
      BY <1>0, <1>2, <2>1, <2>3
    <2>5. \A l \in Iv!LogIds : Completes(l)' /\ logs'[l].processed = logs[l].processed
      BY <1>0, <2>1, <2>4 DEF Completes
    <2>6. LogLeft' BY <1>0, <1>6, <2>4 DEF LogLeft
    <2>7. logs'[k] # Iv!NoLog BY <2>1, <2>2, <2>4
    <2> QED BY <2>4, <2>5, <2>6, <2>7
  <1>8. CASE queue' = queue
    <2>1. /\ LogLeft' /\ logs' \in [Iv!LogIds -> LogRows]
          /\ \A l \in Iv!LogIds : /\ Completes(l)' /\ logs'[l].processed = logs[l].processed
                                  /\ logs'[l] = Iv!NoLog => logs[l] = Iv!NoLog
      <3>1. CASE logs' = logs BY <1>0, <1>6, <3>1 DEF LogLeft, Completes
      <3>2. ASSUME NEW st \in {"running", "failed"},
                   logs' = [logs EXCEPT ![k] = [logs[k] EXCEPT !.status = st]]
            PROVE  /\ LogLeft' /\ logs' \in [Iv!LogIds -> LogRows]
                   /\ \A l \in Iv!LogIds : /\ Completes(l)' /\ logs'[l].processed = logs[l].processed
                                           /\ logs'[l] = Iv!NoLog => logs[l] = Iv!NoLog
        BY <1>2, <1>7, <3>2
      <3> QED BY <1>3, <3>1, <3>2
    <2>2. InvoiceTypes' BY <1>0, <1>1, <1>4, <1>8, <2>1 DEF InvoiceTypes
    <2>3. ASSUME NEW l \in Iv!LogIds PROVE Unused(l)' /\ Balanced(l)'
      <3>1. \A w \in Windows : Due(w, l)' <= Due(w, l)
        BY <1>0, <1>1, <1>8, DueFalls DEF AtWork
      <3>2. \A m \in Iv!Messages : queue'[m] <= queue[m] BY <1>0, <1>8
      <3>3. Unused(l)' BY <1>1, <2>1, <2>2, <3>2, UnusedRests
      <3>4. Balanced(l)' BY <1>0, <1>1, <2>1, <2>2, <3>1, DueRests
      <3> QED BY <3>3, <3>4
    <2> QED BY <1>5, <2>1, <2>2, <2>3 DEF InvoiceInv
  <1>9. CASE /\ headers = {} /\ logs' = [logs EXCEPT ![k] = [logs[k] EXCEPT !.status = "running"]]
             /\ queue' = Iv!Put(queue, Iv!Cold(k))
    <2>1. /\ LogLeft' /\ logs' \in [Iv!LogIds -> LogRows] /\ logs'[k] # Iv!NoLog
          /\ \A l \in Iv!LogIds : /\ Completes(l)' /\ (l # k => logs'[l] = logs[l])
                                  /\ logs'[l].processed = logs[l].processed
      BY <1>7, <1>9
    <2>2. /\ queue' \in [Iv!Messages -> Nat] /\ queue'[Iv!Cold(k)] = queue[Iv!Cold(k)] + 1
          /\ \A m \in Iv!Messages : m # Iv!Cold(k) => queue'[m] = queue[m]
      BY <1>0, <1>2, <1>9, PutValues
    <2>3. InvoiceTypes' BY <1>0, <1>1, <1>4, <2>1, <2>2 DEF InvoiceTypes
    <2>4. ASSUME NEW l \in Iv!LogIds PROVE Unused(l)' /\ Balanced(l)'
      <3>1. \A w \in Windows :
              /\ Window(w, l) \in Iv!Messages /\ Iv!Cold(l) \in Iv!Messages
              /\ queue[Window(w, l)] \in Nat /\ queue[Iv!Cold(l)] \in Nat
              /\ queue'[Window(w, l)] = queue[Window(w, l)]
        <4>1. \A w \in Windows : Window(w, l) \in Iv!Messages /\ Iv!Cold(l) \in Iv!Messages
          BY MessageKinds
        <4>2. \A w \in Windows : Window(w, l) # Iv!Cold(k) BY MessageFields
        <4> QED BY <1>0, <2>2, <4>1, <4>2
      <3>2. \A w \in Windows : AtWork(w, l)' <=> AtWork(w, l)
        BY <1>1 DEF AtWork
      <3>3. CASE l # k
        <4>1. ASSUME NEW w \in Windows PROVE Due(w, l)' <= Due(w, l)
          <5>1. Iv!Cold(l) # Iv!Cold(k) BY <3>3, MessageFields
          <5>2. queue'[Iv!Cold(l)] = queue[Iv!Cold(l)] BY <2>2, <3>1, <5>1
          <5>3. Due(w, l)' = Due(w, l) BY <3>1, <3>2, <5>2 DEF Due
          <5> QED BY <1>0, <5>3, SpareType
        <4>2. Balanced(l)' BY <1>0, <1>1, <2>1, <2>3, <4>1, DueRests
        <4>3. ASSUME logs'[l] = Iv!NoLog
              PROVE  work'.msg.log # l /\ \A m \in Iv!Messages : m.log = l => queue'[m] = 0
          <5>1. logs[l] = Iv!NoLog BY <2>1, <3>3, <4>3
          <5>2. work.msg.log # l /\ \A m \in Iv!Messages : m.log = l => queue[m] = 0
            BY <1>0, <5>1 DEF Unused
          <5>3. \A m \in Iv!Messages : m.log = l => queue'[m] = queue[m]
            BY <2>2, <3>3, MessageFields
          <5> QED BY <1>1, <5>2, <5>3
        <4> QED BY <4>2, <4>3 DEF Unused
      <3>4. CASE l = k
        <4>1. Unused(l)' BY <2>1, <3>4 DEF Unused
        <4>2. work.msg.log # l /\ \A m \in Iv!Messages : m.log = l => queue[m] = 0
          BY <1>0, <1>2, <3>4 DEF Unused
        <4>3. ASSUME NEW w \in Windows
              PROVE  Spare(l)'[w] + (IF w \in {} THEN 1 ELSE 0)
                       <= Spare(l)[w] + (IF w \in {} THEN 1 ELSE 0)
          <5>1. queue[Window(w, l)] = 0 /\ queue[Iv!Cold(l)] = 0
            BY <3>1, <4>2, MessageFields
          <5>2. ~AtWork(w, l) /\ ~AtWork(w, l)'
            BY <3>2, <4>2, MessageFields DEF AtWork
          <5>3. Due(w, l) = 0 /\ Due(w, l)' = 1
            BY <2>2, <3>1, <3>4, <5>1, <5>2 DEF Due
          <5>4. w \notin stored' BY <1>0, <1>1, <1>9
          <5>5. Spare(l)'[w] = 0 /\ Spare(l)[w] = 0 BY <5>3, <5>4 DEF Spare
          <5> QED BY <5>5
        <4>4. /\ Cardinality({}) = 0 /\ Cardinality(stored) \in Nat /\ repeats[l] \in Nat
              /\ logs[l].processed \in Nat
          BY <1>0, FS_EmptySet, SpareType
        <4>5. logs'[l].processed + Cardinality({}) + Cardinality(stored) + repeats[l]
                <= logs[l].processed + Cardinality({}) + Cardinality(stored') + repeats'[l]
          BY <1>1, <2>1, <4>4
        <4>6. Balanced(l)' BY <1>0, <2>3, <4>3, <4>5, BalanceMoves
        <4> QED BY <4>1, <4>6
      <3> QED BY <3>3, <3>4
    <2> QED BY <1>5, <2>1, <2>3, <2>4 DEF InvoiceInv
  <1> QED BY <1>3, <1>8, <1>9

LEMMA InvoiceStep ==
  ASSUME InvoiceInv, [Iv!Next]_invoiceVars
  PROVE  InvoiceInv'
  <1>1. CASE UNCHANGED invoiceVars
    <2>0. /\ InvoiceTypes /\ WorkFits /\ work \in Works /\ queue \in [Iv!Messages -> Nat]
          /\ failures \in 0..failures
      BY ImportsAssumption DEF InvoiceInv, InvoiceTypes
    <2>1. UNCHANGED <<headers, logs, stored, repeats, up, queue, work, failures>>
      BY <1>1 DEF invoiceVars
    <2>2. WorkFits' BY <2>0, <2>1 DEF WorkFits
    <2>3. \A m \in Iv!Messages : queue'[m] <= queue[m] BY <2>0, <2>1
    <2>4. \A l \in Iv!LogIds, w \in Windows : Due(w, l)' <= Due(w, l)
      BY <2>0, <2>1, DueFalls DEF AtWork
    <2> QED BY <2>0, <2>1, <2>2, <2>3, <2>4, LogsRest
  <1>2. CASE Iv!Consume
    <2>1. ASSUME NEW m \in Iv!Messages, Iv!Take(m) PROVE InvoiceInv'
      BY <2>1, TakeStep
    <2>2. ASSUME NEW i \in Issued, Iv!FetchLines(i) PROVE InvoiceInv'
      BY <2>2, LinesStep
    <2>3. CASE Iv!SetTotal BY <2>3, SetTotalStep
    <2>4. CASE Iv!FanOut BY <2>4, FanOutStep
    <2>5. CASE Iv!StorePage BY <2>5, StorePageStep
    <2>6. CASE Iv!Ack BY <2>6, LeaveStep
    <2>7. CASE Iv!CountWindow BY <2>7, CountWindowStep
    <2>8. CASE Iv!TryFinalize BY <2>8, TryFinalizeStep
    <2> QED BY <1>2, <2>1, <2>2, <2>3, <2>4, <2>5, <2>6, <2>7, <2>8 DEF Iv!Consume
  <1>3. CASE Iv!AskForRecent \/ Iv!DayEnds \/ \E i \in Issued : Iv!Issue(i)
    BY <1>3, AskStep
  <1>4. ASSUME NEW i \in Issued, Iv!LinesFail(i) PROVE InvoiceInv'
    BY <1>4, LinesStep
  <1>5. CASE Iv!Boot \/ Iv!BootFails BY <1>5, BootStep
  <1>6. CASE Iv!ListFails BY <1>6, LeaveStep
  <1>7. CASE Iv!Crash BY <1>7, CrashStep
  <1>8. ASSUME NEW l \in Iv!LogIds, Iv!Watchdog(l) PROVE InvoiceInv'
    BY <1>8, WatchdogStep
  <1> QED BY <1>1, <1>2, <1>3, <1>4, <1>5, <1>6, <1>7, <1>8 DEF Iv!Next

LEMMA InvoiceHolds == InvoiceInv => Iv!CompletedIsStored
  <1> SUFFICES ASSUME InvoiceInv, NEW l \in Iv!LogIds, logs[l].status = "completed"
               PROVE  Cardinality(Windows \ stored) <= repeats[l]
    BY SameSize DEF Iv!CompletedIsStored
  <1>1. InvoiceTypes /\ Balanced(l) /\ Completes(l) /\ stored \subseteq Windows
    BY DEF InvoiceInv, InvoiceTypes
  <1>2. /\ \A w \in Windows : Spare(l)[w] \in Nat
        /\ Cardinality(stored) \in Nat /\ repeats[l] \in Nat /\ logs[l].processed \in Nat
        /\ IsFiniteSet(stored) /\ IsFiniteSet(Windows)
    BY <1>1, SpareType
  <1>3. Cardinality(Spared(l)) \in Nat BY <1>1, FS_CardinalityType DEF Balanced
  <1>4. Cardinality(Windows) = Cardinality(stored) + Cardinality(Windows \ stored)
    <2> DEFINE R == Windows \ stored
    <2>1. IsFiniteSet(R) /\ Windows = stored \cup R /\ stored \cap R = {}
      BY <1>1, <1>2, FS_Subset
    <2> HIDE DEF R
    <2>2. Cardinality(stored \cup R) = Cardinality(stored) + Cardinality(R) - Cardinality(stored \cap R)
      BY <1>2, <2>1, FS_Union
    <2>3. Cardinality(R) \in Nat BY <2>1, FS_CardinalityType
    <2>4. Cardinality(stored \cap R) = 0 BY <2>1, FS_EmptySet
    <2>5. Cardinality(Windows) = Cardinality(stored) + Cardinality(R)
      BY <1>2, <2>1, <2>2, <2>3, <2>4
    <2> QED BY <2>5 DEF R
  <1>5. Cardinality(Windows) \in Nat /\ Cardinality(Windows \ stored) \in Nat
    BY <1>2, FS_Subset, FS_CardinalityType
  <1>6. logs[l].processed >= Cardinality(Windows) BY <1>1 DEF Completes
  <1>7. logs[l].processed + Cardinality(Spared(l)) <= Cardinality(stored) + repeats[l]
    BY <1>1 DEF Balanced
  <1> QED BY <1>2, <1>3, <1>4, <1>5, <1>6, <1>7

---------------------------------------------------------------------------
(* Mirrors                                                                 *)

\* What of the services the proofs need: those that drop rows read pages, days, a scan
\* or everything at once and commit at the end; only those that prune have details.
Kind(s) ==
    /\ s.store \in {"upsert", "replace", "prune"} /\ s.commit \in {"part", "end"}
    /\ s.store = "prune" => s.parts = "pages" /\ s.commit = "end"
    /\ s.store = "replace" => s.parts \in {"scan", "days", "whole"} /\ s.commit = "end"
    /\ s.details # "none" => s.store = "prune"

LEMMA ServiceKinds == \A s \in Mi!Services : Kind(s)
  <1>2. Kind(Mi!MLListings) BY DEF Kind, Mi!MLListings, Mi!Service
  <1>3. Kind(Mi!MLSales) BY DEF Kind, Mi!MLSales, Mi!Service
  <1>4. Kind(Mi!MLOrders) BY DEF Kind, Mi!MLOrders, Mi!Service
  <1>5. Kind(Mi!MLVisits) BY DEF Kind, Mi!MLVisits, Mi!Service
  <1>6. Kind(Mi!MLItemHealth) BY DEF Kind, Mi!MLItemHealth, Mi!Service
  <1>7. Kind(Mi!CatalogStatus) BY DEF Kind, Mi!CatalogStatus, Mi!Service
  <1>8. Kind(Mi!AmazonListings) BY DEF Kind, Mi!AmazonListings, Mi!Service
  <1>9. Kind(Mi!ShopeeListings) BY DEF Kind, Mi!ShopeeListings, Mi!Service
  <1>10. Kind(Mi!TikTokListings) BY DEF Kind, Mi!TikTokListings, Mi!Service
  <1>11. Kind(Mi!MagaluListings) BY DEF Kind, Mi!MagaluListings, Mi!Service
  <1>12. Kind(Mi!AmazonOrders) BY DEF Kind, Mi!AmazonOrders, Mi!Service
  <1>13. Kind(Mi!ShopeeOrders) BY DEF Kind, Mi!ShopeeOrders, Mi!Service
  <1>14. Kind(Mi!TikTokOrders) BY DEF Kind, Mi!TikTokOrders, Mi!Service
  <1>15. Kind(Mi!MagaluOrders) BY DEF Kind, Mi!MagaluOrders, Mi!Service
  <1>16. Kind(Mi!PurchaseOrders) BY DEF Kind, Mi!PurchaseOrders, Mi!Service
  <1>17. Kind(Mi!StockHistory) BY DEF Kind, Mi!StockHistory, Mi!Service
  <1>18. Kind(Mi!CostSheet) BY DEF Kind, Mi!CostSheet, Mi!Service
  <1>19. Kind(Mi!ManualStatus) BY DEF Kind, Mi!ManualStatus, Mi!Service
  <1> QED
    BY <1>2, <1>3, <1>4, <1>5, <1>6, <1>7, <1>8, <1>9, <1>10, <1>11, <1>12, <1>13, <1>14,
       <1>15, <1>16, <1>17, <1>18, <1>19 DEF Mi!Services

RunSteps == {"idle", "read", "store", "detail", "write", "prune"}
RunRecords ==
    [at : RunSteps, next : Int, from : Int, last : Int, keys : SUBSET Items,
     got : [Items -> Nat], fresh : [Items -> Nat], twice : BOOLEAN, complete : BOOLEAN,
     gone : SUBSET Items, unread : SUBSET Items, mixed : BOOLEAN, before : [Items -> Nat]]

MirrorTypes ==
    /\ service \in Mi!Services /\ run \in [Mi!Runs -> RunRecords]
    /\ remote \in [Items -> Nat \cup {Mi!Gone}] /\ table \in [Items -> Nat]
    /\ detail \in [Items -> Nat]
    /\ service.parts # "recent" => place \in [Items -> Nat \ {0}]
    /\ service.parts \notin {"pages", "recent"} => place \in [Items -> 1..N]

\* A version stored or read is not ahead of the thing's, while there is the thing; what
\* has no details stores none, only what commits part by part stores on the way, and only what prunes is pruned.
Behind(v, i) == v <= remote[i] \/ remote[i] = Mi!Gone
Details ==
    /\ \A i \in Items : Behind(detail[i], i) /\ \A r \in Mi!Runs : Behind(run[r].fresh[i], i)
    /\ service.details = "none" =>
         /\ \A r \in Mi!Runs : run[r].fresh = Mi!NoRows /\ run[r].at # "detail"
         /\ detail = Mi!NoRows
    /\ \A r \in Mi!Runs : /\ run[r].at = "store" => service.commit = "part"
                          /\ run[r].at = "prune" => service.store = "prune"

\* Where rows may be dropped a run found each thing, or it was gone or could not be
\* read, or will be read; or it lies behind the last page, and the service looks.
Ahead(x, i) ==
    /\ i \in x.keys /\ remote[i] > 0
    /\ x.next <= Mi!PartOf(i) /\ Mi!PartOf(i) <= x.last
Found(x) ==
    service.store # "upsert" => \A i \in Items :
        \/ service.parts = "days" /\ place[i] < x.from
        \/ x.got[i] # 0
        \/ i \in x.gone \cup x.unread
        \/ x.at = "read" /\ Ahead(x, i)
        \/ Mi!Looks /\ IF x.at = "read" THEN i \in Mi!Beyond \cap Mi!Present ELSE ~x.complete

\* What a run that met no other relies on.
Undone(x) == service.commit = "end" /\ x.at \in {"read", "detail"} => x.before = table
Newer(x) == x.at = "write" => \A i \in Items : x.got[i] # 0 => x.fresh[i] >= detail[i]
RunHolds(x) == x.at # "idle" /\ ~x.mixed => Found(x) /\ Undone(x) /\ Newer(x)
Lonely(r) == Mi!Active(r) /\ ~run[r].mixed => \A o \in Mi!Runs : o # r => ~Mi!Active(o)

MirrorInv ==
    /\ MirrorTypes /\ Details
    /\ \A r \in Mi!Runs : RunHolds(run[r]) /\ Lonely(r)

LEMMA MirrorInit == Mi!Init => MirrorInv
  <1> SUFFICES ASSUME Mi!Init PROVE MirrorInv
    OBVIOUS
  <1>1. /\ service \in Mi!Services /\ remote \in [Items -> 0..1]
        /\ place \in [Items -> 1..Mi!Last(service)] /\ table = remote
        /\ service.parts # "pages" /\ service.parts # "recent" => \A i \in Items : place[i] <= N
        /\ detail = IF service.details = "none" THEN Mi!NoRows ELSE remote
        /\ run = [r \in Mi!Runs |-> Mi!Idle]
    BY DEF Mi!Init
  <1>2. Mi!NoRows \in [Items -> Nat] /\ \A i \in Items : Mi!NoRows[i] = 0
    BY DEF Mi!NoRows
  <1>3. /\ Mi!Idle \in RunRecords /\ Mi!Idle.at = "idle" /\ Mi!Idle.fresh = Mi!NoRows
        /\ Mi!Idle.mixed = FALSE
    BY <1>2 DEF Mi!Idle, RunRecords, RunSteps
  <1>4. \A r \in Mi!Runs : run[r] = Mi!Idle BY <1>1
  <1>5. MirrorTypes
    <2>1. service.parts # "recent" => place \in [Items -> 1..N + 1] /\ N \in Nat
      BY <1>1, ImportsAssumption DEF Mi!Last
    <2>2. service.parts # "recent" => place \in [Items -> Nat \ {0}] BY <2>1
    <2>3. service.parts \notin {"pages", "recent"} => place \in [Items -> 1..N]
      BY <1>1, <2>1
    <2>4. detail \in [Items -> Nat] BY <1>1, <1>2
    <2>5. run \in [Mi!Runs -> RunRecords] BY <1>1, <1>3
    <2> QED BY <1>1, <2>2, <2>3, <2>4, <2>5 DEF MirrorTypes
  <1>6. Details
    BY <1>1, <1>2, <1>3, <1>4 DEF Details, Behind
  <1>7. \A r \in Mi!Runs : RunHolds(run[r]) /\ Lonely(r)
    BY <1>3, <1>4 DEF RunHolds, Lonely, Mi!Active
  <1> QED BY <1>5, <1>6, <1>7 DEF MirrorInv

\* A run at work moves, and what is elsewhere stays: where no other run is at work, the
\* invariant holds again if it holds of the run as it is then.
LEMMA RunMoves ==
  ASSUME MirrorInv, NEW r \in Mi!Runs, Mi!Active(r), NEW x \in RunRecords,
         run' = [run EXCEPT ![r] = x], UNCHANGED <<service, remote, place>>,
         table' \in [Items -> Nat], detail' \in [Items -> Nat],
         \A i \in Items : Behind(detail'[i], i) /\ Behind(x.fresh[i], i),
         service.details = "none" =>
             x.fresh = Mi!NoRows /\ x.at # "detail" /\ detail' = Mi!NoRows,
         x.at = "store" => service.commit = "part",
         x.at = "prune" => service.store = "prune",
         x.at = "idle" \/ x.mixed = run[r].mixed,
         x.at # "idle" /\ ~x.mixed =>
             /\ Found(x)
             /\ service.commit = "end" /\ x.at \in {"read", "detail"} => x.before = table'
             /\ x.at = "write" => \A i \in Items : x.got[i] # 0 => x.fresh[i] >= detail'[i]
  PROVE  MirrorInv'
  <1>1. MirrorTypes /\ Details /\ \A o \in Mi!Runs : Lonely(o)
    BY DEF MirrorInv
  <1>2. run'[r] = x /\ \A o \in Mi!Runs : o # r => run'[o] = run[o]
    BY <1>1 DEF MirrorTypes
  <1>3. MirrorTypes'
    <2>1. run' \in [Mi!Runs -> RunRecords] BY <1>1 DEF MirrorTypes
    <2> QED BY <1>1, <2>1 DEF MirrorTypes
  <1>4. Details'
    BY <1>1, <1>2 DEF Details, Behind, Mi!NoRows
  <1>5. \A o \in Mi!Runs : o # r /\ Mi!Active(o) => run[o].mixed
    BY <1>1 DEF Lonely
  <1>6. RunHolds(x)'
    <2>1. Found(x)' <=> Found(x)
      BY DEF Found, Ahead, Mi!PartOf, Mi!Looks, Mi!Beyond, Mi!Present
    <2> QED BY <2>1 DEF RunHolds, Undone, Newer
  <1>7. \A o \in Mi!Runs : RunHolds(run[o])'
    BY <1>2, <1>5, <1>6 DEF RunHolds, Mi!Active
  <1>8. \A o \in Mi!Runs : Lonely(o)'
    <2>1. x.at # "idle" /\ ~x.mixed => \A o \in Mi!Runs : o # r => ~Mi!Active(o)
      BY <1>1 DEF Lonely
    <2> QED BY <1>2, <1>5, <2>1 DEF Lonely, Mi!Active
  <1> QED BY <1>3, <1>4, <1>7, <1>8 DEF MirrorInv

LEMMA IdleIs ==
  /\ Mi!Idle \in RunRecords /\ Mi!Idle.at = "idle" /\ Mi!Idle.fresh = Mi!NoRows
  /\ Mi!NoRows \in [Items -> Nat] /\ \A i \in Items : Mi!NoRows[i] = 0
  BY DEF Mi!NoRows, Mi!Idle, RunRecords, RunSteps

\* A run that ends leaves the invariant, whatever it stored.
LEMMA RunEnds ==
  ASSUME MirrorInv, NEW r \in Mi!Runs, Mi!Active(r),
         run' = [run EXCEPT ![r] = Mi!Idle], UNCHANGED <<service, remote, place>>,
         table' \in [Items -> Nat], detail' \in [Items -> Nat],
         \A i \in Items : Behind(detail'[i], i),
         service.details = "none" => detail' = Mi!NoRows
  PROVE  MirrorInv'
  <1>1. \A i \in Items : Behind(Mi!NoRows[i], i)
    BY IdleIs DEF MirrorInv, MirrorTypes, Behind
  <1> QED BY <1>1, IdleIs, RunMoves

\* What goes on to the next part, or past the last one.
LEMMA FollowingIs ==
  ASSUME NEW y \in RunRecords, y.at \in {"read", "store"}
  PROVE  LET x == Mi!Following(y) IN
         /\ x \in RunRecords
         /\ x.from = y.from /\ x.last = y.last /\ x.keys = y.keys /\ x.got = y.got
         /\ x.fresh = y.fresh /\ x.gone = y.gone /\ x.unread = y.unread
         /\ x.mixed = y.mixed /\ x.before = y.before
         /\ y.next < y.last => x.at = "read" /\ x.next = y.next + 1
         /\ ~(y.next < y.last) =>
              /\ x.at = IF y.at = "store" THEN "idle" ELSE Mi!AfterRead
              /\ x.complete = (Mi!Beyond \cap Mi!Present = {})
  <1>1. Mi!AfterRead \in {"detail", "write"} BY DEF Mi!AfterRead
  <1>2. CASE y.next < y.last
    <2> DEFINE n == y.next + 1
    <2>1. Mi!Following(y) = [y EXCEPT !.at = "read", !.next = n]
      BY <1>2 DEF Mi!Following
    <2>2. n \in Int /\ "read" \in RunSteps
      BY DEF RunSteps, RunRecords
    <2> HIDE DEF n
    <2>3. LET x == Mi!Following(y) IN
          /\ x \in RunRecords
          /\ x.from = y.from /\ x.last = y.last /\ x.keys = y.keys /\ x.got = y.got
          /\ x.fresh = y.fresh /\ x.gone = y.gone /\ x.unread = y.unread
          /\ x.mixed = y.mixed /\ x.before = y.before
          /\ x.at = "read" /\ x.next = n
      BY <2>1, <2>2 DEF RunRecords
    <2> QED BY <1>2, <2>3 DEF n
  <1>3. CASE ~(y.next < y.last)
    <2> DEFINE a == IF y.at = "store" THEN "idle" ELSE Mi!AfterRead
               c == Mi!Beyond \cap Mi!Present = {}
    <2>1. Mi!Following(y) = [y EXCEPT !.at = a, !.complete = c]
      BY <1>3 DEF Mi!Following
    <2>2. a \in RunSteps /\ c \in BOOLEAN
      BY <1>1 DEF RunSteps
    <2> HIDE DEF a, c
    <2>3. LET x == Mi!Following(y) IN
          /\ x \in RunRecords
          /\ x.from = y.from /\ x.last = y.last /\ x.keys = y.keys /\ x.got = y.got
          /\ x.fresh = y.fresh /\ x.gone = y.gone /\ x.unread = y.unread
          /\ x.mixed = y.mixed /\ x.before = y.before
          /\ x.at = a /\ x.complete = c
      BY <2>1, <2>2 DEF RunRecords
    <2> QED BY <1>3, <2>3 DEF a, c
  <1> QED BY <1>2, <1>3

\* What was found before the next part, or is found or left out in it, goes on.
LEMMA FoundFollowing ==
  ASSUME MirrorInv, NEW y \in RunRecords, y.at = "read",
         service.store # "upsert" => \A i \in Items :
            \/ service.parts = "days" /\ place[i] < y.from
            \/ y.got[i] # 0
            \/ i \in y.gone \cup y.unread
            \/ Ahead(y, i) /\ Mi!PartOf(i) # y.next
            \/ Mi!Looks /\ i \in Mi!Beyond \cap Mi!Present
  PROVE  Found(Mi!Following(y))
  <1> DEFINE x == Mi!Following(y)
  <1>1. /\ x.from = y.from /\ x.last = y.last /\ x.keys = y.keys /\ x.got = y.got
        /\ x.gone = y.gone /\ x.unread = y.unread
        /\ y.next < y.last => x.at = "read" /\ x.next = y.next + 1
        /\ ~(y.next < y.last) =>
              x.at = Mi!AfterRead /\ x.complete = (Mi!Beyond \cap Mi!Present = {})
    BY FollowingIs
  <1>2. y.next \in Int /\ y.last \in Int BY DEF RunRecords
  <1> HIDE DEF x
  <1> SUFFICES ASSUME service.store # "upsert", NEW i \in Items
               PROVE  \/ service.parts = "days" /\ place[i] < x.from
                      \/ x.got[i] # 0
                      \/ i \in x.gone \cup x.unread
                      \/ x.at = "read" /\ Ahead(x, i)
                      \/ Mi!Looks /\ IF x.at = "read" THEN i \in Mi!Beyond \cap Mi!Present
                                                      ELSE ~x.complete
    BY DEF Found, x
  <1>3. Mi!PartOf(i) \in Int
    <2>1. service.parts = "recent" \/ place[i] \in Nat
      BY DEF MirrorInv, MirrorTypes
    <2> QED BY <2>1 DEF Mi!PartOf
  <1>4. CASE Ahead(y, i) /\ Mi!PartOf(i) # y.next
    <2>1. /\ i \in y.keys /\ remote[i] > 0
          /\ y.next + 1 <= Mi!PartOf(i) /\ Mi!PartOf(i) <= y.last
      BY <1>2, <1>3, <1>4 DEF Ahead
    <2>2. y.next < y.last BY <1>2, <1>3, <2>1
    <2> QED BY <1>1, <2>1, <2>2 DEF Ahead
  <1>5. CASE Mi!Looks /\ i \in Mi!Beyond \cap Mi!Present
    <2>1. Mi!AfterRead # "read" BY DEF Mi!AfterRead
    <2> QED BY <1>1, <1>5, <2>1
  <1> QED BY <1>1, <1>4, <1>5

\* Something was read or left out: the run goes on to the next part or past the last.
LEMMA RunGoesOn ==
  ASSUME MirrorInv, NEW r \in Mi!Runs, Mi!Active(r), NEW y \in RunRecords,
         y.at = "read", y.mixed = run[r].mixed, y.fresh = run[r].fresh,
         y.before = run[r].before, run[r].at = "read",
         run' = [run EXCEPT ![r] = Mi!Following(y)],
         UNCHANGED <<service, remote, place, table, detail>>,
         ~y.mixed => Found(Mi!Following(y))
  PROVE  MirrorInv'
  <1> DEFINE x == Mi!Following(y)
  <1>1. /\ x \in RunRecords /\ x.fresh = y.fresh /\ x.mixed = y.mixed /\ x.before = y.before
        /\ x.at \in {"read", "detail", "write"}
        /\ x.at = "write" => service.details = "none"
        /\ x.at = "detail" => service.details # "none"
    BY FollowingIs DEF Mi!AfterRead
  <1>2. Found(Mi!Following(y)) = Found(x) /\ run' = [run EXCEPT ![r] = x]
    OBVIOUS
  <1> HIDE DEF x
  <1>3. MirrorTypes /\ Details /\ RunHolds(run[r]) BY DEF MirrorInv
  <1>4. /\ table' \in [Items -> Nat] /\ detail' \in [Items -> Nat]
        /\ \A i \in Items : Behind(detail'[i], i) /\ Behind(x.fresh[i], i)
        /\ service.details = "none" => x.fresh = Mi!NoRows /\ detail' = Mi!NoRows
    BY <1>1, <1>3 DEF MirrorTypes, Details
  <1>5. ~x.mixed /\ service.commit = "end" => x.before = table'
    BY <1>1, <1>3 DEF RunHolds, Undone
  <1>6. x.at = "write" => \A i \in Items : x.fresh[i] >= detail'[i]
    BY <1>1, <1>3, IdleIs DEF Details
  <1> QED BY <1>1, <1>2, <1>4, <1>5, <1>6, RunMoves

LEMMA ReadingsAre ==
  ASSUME MirrorInv, NEW r \in Mi!Runs
  PROVE  LET y == Mi!Readings(r) IN
         /\ y \in RunRecords /\ y.at = run[r].at /\ y.next = run[r].next
         /\ y.from = run[r].from /\ y.last = run[r].last /\ y.keys = run[r].keys
         /\ y.fresh = run[r].fresh /\ y.gone = run[r].gone /\ y.unread = run[r].unread
         /\ y.mixed = run[r].mixed /\ y.before = run[r].before
         /\ \A i \in Items :
              y.got[i] = IF i \in Mi!InPart(r) THEN remote[i] ELSE run[r].got[i]
  <1> DEFINE S == Mi!InPart(r)
             g == [i \in Items |-> IF i \in S THEN remote[i] ELSE run[r].got[i]]
             t == run[r].twice \/ \E i \in S : run[r].got[i] # 0
  <1>1. Mi!Readings(r) = [run[r] EXCEPT !.got = g, !.twice = t]
    BY DEF Mi!Readings
  <1>2. run[r] \in RunRecords /\ remote \in [Items -> Nat \cup {Mi!Gone}]
    BY DEF MirrorInv, MirrorTypes
  <1>3. \A i \in S : remote[i] \in Nat
    <2>1. run[r].keys \subseteq Items BY <1>2 DEF RunRecords
    <2>2. \A i \in S : i \in Items /\ remote[i] > 0 BY <2>1 DEF Mi!InPart
    <2> QED BY <1>2, <2>2 DEF Mi!Gone
  <1>4. g \in [Items -> Nat]
    <2>1. run[r].got \in [Items -> Nat] BY <1>2 DEF RunRecords
    <2> HIDE DEF S
    <2> QED BY <1>3, <2>1
  <1>5. t \in BOOLEAN
    OBVIOUS
  <1>6. \A i \in Items : g[i] = IF i \in Mi!InPart(r) THEN remote[i] ELSE run[r].got[i]
    OBVIOUS
  <1> HIDE DEF g, t, S
  <1> QED BY <1>1, <1>2, <1>4, <1>5, <1>6 DEF RunRecords

LEMMA ReadKeeps ==
  ASSUME MirrorInv, NEW r \in Mi!Runs, Mi!Read(r)
  PROVE  MirrorInv'
  <1> DEFINE y == Mi!Readings(r)
  <1>0. /\ run[r].at = "read" /\ Mi!Active(r)
        /\ UNCHANGED <<service, remote, place, table, detail>>
        /\ run' = [run EXCEPT ![r] = IF Mi!ByPart THEN [y EXCEPT !.at = "store"]
                                                  ELSE Mi!Following(y)]
    BY DEF Mi!Read, Mi!Set, Mi!Active
  <1>1. /\ y \in RunRecords /\ y.at = "read" /\ y.next = run[r].next
        /\ y.from = run[r].from /\ y.last = run[r].last /\ y.keys = run[r].keys
        /\ y.fresh = run[r].fresh /\ y.gone = run[r].gone /\ y.unread = run[r].unread
        /\ y.mixed = run[r].mixed /\ y.before = run[r].before
        /\ \A i \in Items :
              y.got[i] = IF i \in Mi!InPart(r) THEN remote[i] ELSE run[r].got[i]
    BY <1>0, ReadingsAre
  <1> HIDE DEF y
  <1>2. /\ MirrorTypes /\ Details /\ RunHolds(run[r]) /\ Kind(service)
        /\ run[r] \in RunRecords
    BY ServiceKinds DEF MirrorInv, MirrorTypes
  <1>3. ASSUME Mi!ByPart PROVE MirrorInv'
    <2> DEFINE x == [y EXCEPT !.at = "store"]
    <2>1. /\ x \in RunRecords /\ x.at = "store" /\ x.fresh = run[r].fresh
          /\ x.mixed = run[r].mixed
      BY <1>1 DEF RunRecords, RunSteps
    <2>2. run' = [run EXCEPT ![r] = x] BY <1>0, <1>3
    <2>3. service.commit = "part" /\ service.store = "upsert"
      BY <1>2, <1>3 DEF Mi!ByPart, Kind
    <2> HIDE DEF x
    <2>4. Found(x) BY <2>3 DEF Found
    <2>5. /\ table' \in [Items -> Nat] /\ detail' \in [Items -> Nat]
          /\ \A i \in Items : Behind(detail'[i], i) /\ Behind(x.fresh[i], i)
          /\ service.details = "none" => x.fresh = Mi!NoRows /\ detail' = Mi!NoRows
      BY <1>0, <1>2, <2>1 DEF MirrorTypes, Details
    <2> QED BY <1>0, <2>1, <2>2, <2>3, <2>4, <2>5, RunMoves
  <1>4. ASSUME ~Mi!ByPart PROVE MirrorInv'
    <2>1. run' = [run EXCEPT ![r] = Mi!Following(y)] BY <1>0, <1>4
    <2>2. ASSUME ~y.mixed, service.store # "upsert", NEW i \in Items
          PROVE  \/ service.parts = "days" /\ place[i] < y.from
                 \/ y.got[i] # 0
                 \/ i \in y.gone \cup y.unread
                 \/ Ahead(y, i) /\ Mi!PartOf(i) # y.next
                 \/ Mi!Looks /\ i \in Mi!Beyond \cap Mi!Present
      <3>1. \/ service.parts = "days" /\ place[i] < run[r].from
            \/ run[r].got[i] # 0
            \/ i \in run[r].gone \cup run[r].unread
            \/ Ahead(run[r], i)
            \/ Mi!Looks /\ i \in Mi!Beyond \cap Mi!Present
        BY <1>0, <1>1, <1>2, <2>2 DEF RunHolds, Found
      <3>2. CASE run[r].got[i] # 0
        BY <1>1, <3>2 DEF Mi!InPart
      <3>3. CASE Ahead(run[r], i)
        <4>1. Ahead(y, i) BY <1>1, <3>3 DEF Ahead
        <4>2. service.parts # "recent" BY <1>2, <2>2 DEF Kind
        <4>3. Mi!PartOf(i) = run[r].next => i \in Mi!InPart(r)
          BY <3>3, <4>2 DEF Mi!InPart, Ahead
        <4>4. remote[i] # 0 BY <3>3 DEF Ahead
        <4> QED BY <1>1, <4>1, <4>3, <4>4
      <3> QED BY <1>1, <3>1, <3>2, <3>3
    <2>3. ~y.mixed => Found(Mi!Following(y))
      BY <1>1, <2>2, FoundFollowing
    <2> QED BY <1>0, <1>1, <2>1, <2>3, RunGoesOn
  <1> QED BY <1>3, <1>4

LEMMA ReadFailsKeeps ==
  ASSUME MirrorInv, NEW r \in Mi!Runs, Mi!ReadFails(r)
  PROVE  MirrorInv'
  <1> DEFINE U == {i \in Items : Mi!PartOf(i) = run[r].next}
             y == [run[r] EXCEPT !.unread = @ \cup U]
  <1>0. /\ run[r].at = "read" /\ Mi!Active(r)
        /\ UNCHANGED <<service, remote, place, table, detail>>
        /\ \/ run' = [run EXCEPT ![r] = Mi!Idle]
           \/ run' = [run EXCEPT ![r] = Mi!Following(y)]
    BY DEF Mi!ReadFails, Mi!Set, Mi!Active
  <1>1. /\ MirrorTypes /\ Details /\ RunHolds(run[r]) /\ run[r] \in RunRecords
    BY DEF MirrorInv, MirrorTypes
  <1>2. /\ y \in RunRecords /\ y.at = "read" /\ y.next = run[r].next
        /\ y.from = run[r].from /\ y.last = run[r].last /\ y.keys = run[r].keys
        /\ y.fresh = run[r].fresh /\ y.gone = run[r].gone
        /\ y.unread = run[r].unread \cup U
        /\ y.mixed = run[r].mixed /\ y.before = run[r].before /\ y.got = run[r].got
    <2>1. U \subseteq Items OBVIOUS
    <2> HIDE DEF U
    <2> QED BY <1>0, <1>1, <2>1 DEF RunRecords
  <1>3. \A i \in Items : Mi!PartOf(i) = run[r].next => i \in U
    OBVIOUS
  <1> HIDE DEF U, y
  <1>4. ASSUME run' = [run EXCEPT ![r] = Mi!Idle] PROVE MirrorInv'
    <2>1. /\ table' \in [Items -> Nat] /\ detail' \in [Items -> Nat]
          /\ \A i \in Items : Behind(detail'[i], i)
          /\ service.details = "none" => detail' = Mi!NoRows
      BY <1>0, <1>1 DEF MirrorTypes, Details
    <2> QED BY <1>0, <1>4, <2>1, RunEnds
  <1>5. ASSUME run' = [run EXCEPT ![r] = Mi!Following(y)] PROVE MirrorInv'
    <2>1. ASSUME ~y.mixed, service.store # "upsert", NEW i \in Items
          PROVE  \/ service.parts = "days" /\ place[i] < y.from
                 \/ y.got[i] # 0
                 \/ i \in y.gone \cup y.unread
                 \/ Ahead(y, i) /\ Mi!PartOf(i) # y.next
                 \/ Mi!Looks /\ i \in Mi!Beyond \cap Mi!Present
      <3>1. \/ service.parts = "days" /\ place[i] < run[r].from
            \/ run[r].got[i] # 0
            \/ i \in run[r].gone \cup run[r].unread
            \/ Ahead(run[r], i)
            \/ Mi!Looks /\ i \in Mi!Beyond \cap Mi!Present
        BY <1>0, <1>1, <1>2, <2>1 DEF RunHolds, Found
      <3>2. Ahead(run[r], i) => Ahead(y, i) BY <1>2 DEF Ahead
      <3> QED BY <1>2, <1>3, <3>1, <3>2
    <2>2. ~y.mixed => Found(Mi!Following(y))
      BY <1>2, <2>1, FoundFollowing
    <2> QED BY <1>0, <1>2, <1>5, <2>2, RunGoesOn
  <1> QED BY <1>0, <1>4, <1>5

LEMMA StorePartKeeps ==
  ASSUME MirrorInv, NEW r \in Mi!Runs, Mi!StorePart(r)
  PROVE  MirrorInv'
  <1> DEFINE y == [run[r] EXCEPT !.got = Mi!NoRows]
             x == Mi!Following(y)
  <1>0. /\ run[r].at = "store" /\ Mi!Active(r)
        /\ UNCHANGED <<service, remote, place, detail>>
        /\ table' = Mi!Stored(table, run[r].got)
        /\ run' = [run EXCEPT ![r] = IF x.at = "idle" THEN Mi!Idle ELSE x]
    BY DEF Mi!StorePart, Mi!Set, Mi!Active
  <1>1. /\ MirrorTypes /\ Details /\ run[r] \in RunRecords /\ Kind(service)
    BY ServiceKinds DEF MirrorInv, MirrorTypes
  <1>2. /\ y \in RunRecords /\ y.at = "store" /\ y.fresh = run[r].fresh
        /\ y.mixed = run[r].mixed
    BY <1>0, <1>1, IdleIs DEF RunRecords
  <1> HIDE DEF y
  <1>3. /\ x \in RunRecords /\ x.fresh = run[r].fresh /\ x.mixed = run[r].mixed
        /\ x.at \in {"read", "idle"}
    BY <1>2, FollowingIs
  <1> HIDE DEF x
  <1>4. service.commit = "part" /\ service.store = "upsert"
    BY <1>0, <1>1 DEF Details, Kind
  <1>5. /\ table' \in [Items -> Nat] /\ detail' \in [Items -> Nat]
        /\ \A i \in Items : Behind(detail'[i], i) /\ Behind(x.fresh[i], i)
        /\ service.details = "none" => x.fresh = Mi!NoRows /\ detail' = Mi!NoRows
    BY <1>0, <1>1, <1>3 DEF MirrorTypes, Details, Mi!Stored, RunRecords
  <1>6. CASE x.at = "idle"
    BY <1>0, <1>5, <1>6, RunEnds
  <1>7. CASE x.at = "read"
    <2>1. Found(x) BY <1>4 DEF Found
    <2>2. run' = [run EXCEPT ![r] = x] BY <1>0, <1>7
    <2> QED BY <1>0, <1>3, <1>4, <1>5, <1>7, <2>1, <2>2, RunMoves
  <1> QED BY <1>3, <1>6, <1>7

LEMMA ReadDetailsKeeps ==
  ASSUME MirrorInv, NEW r \in Mi!Runs, Mi!ReadDetails(r)
  PROVE  MirrorInv'
  <1>0. /\ run[r].at = "detail" /\ Mi!Active(r)
        /\ UNCHANGED <<service, remote, place, table, detail>>
    BY DEF Mi!ReadDetails, Mi!Active
  <1>1. PICK failed \in SUBSET {i \in Items : Mi!DetailDue(r, i)} :
          run' = [run EXCEPT ![r] = [run[r] EXCEPT !.at = "write",
                    !.fresh = [i \in Items |->
                        IF run[r].got[i] = 0 THEN 0
                        ELSE IF Mi!DetailDue(r, i) /\ i \notin failed /\ remote[i] > 0
                        THEN remote[i] ELSE Mi!Kept(r, i)]]]
    BY Zenon DEF Mi!ReadDetails, Mi!Set
  <1> DEFINE f == [i \in Items |->
                        IF run[r].got[i] = 0 THEN 0
                        ELSE IF Mi!DetailDue(r, i) /\ i \notin failed /\ remote[i] > 0
                        THEN remote[i] ELSE Mi!Kept(r, i)]
             x == [run[r] EXCEPT !.at = "write", !.fresh = f]
  <1>2. run' = [run EXCEPT ![r] = x] BY <1>1
  <1>3. \A i \in Items :
          \/ f[i] = 0 /\ run[r].got[i] = 0
          \/ f[i] = remote[i] /\ remote[i] > 0
          \/ f[i] = detail[i]
    BY DEF Mi!Kept
  <1>4. f = [i \in Items |-> f[i]]
    OBVIOUS
  <1> HIDE DEF f
  <1>5. /\ MirrorTypes /\ Details /\ RunHolds(run[r]) /\ run[r] \in RunRecords
    BY DEF MirrorInv, MirrorTypes
  <1>6. \A i \in Items :
          /\ f[i] \in Nat /\ Behind(f[i], i)
          /\ run[r].got[i] # 0 => f[i] >= detail[i]
    BY <1>3, <1>5 DEF Behind, Details, MirrorTypes, Mi!Gone
  <1>7. f \in [Items -> Nat] BY <1>4, <1>6
  <1>8. /\ x \in RunRecords /\ x.at = "write" /\ x.fresh = f /\ x.mixed = run[r].mixed
        /\ x.got = run[r].got /\ x.from = run[r].from /\ x.gone = run[r].gone
        /\ x.unread = run[r].unread /\ x.complete = run[r].complete
    BY <1>5, <1>7 DEF RunRecords, RunSteps
  <1> HIDE DEF x
  <1>9. service.details # "none" BY <1>0, <1>5 DEF Details
  <1>10. ~x.mixed => Found(x)
    BY <1>0, <1>5, <1>8 DEF RunHolds, Found
  <1>11. /\ table' \in [Items -> Nat] /\ detail' \in [Items -> Nat]
         /\ \A i \in Items : Behind(detail'[i], i) /\ Behind(x.fresh[i], i)
    BY <1>0, <1>5, <1>6, <1>8 DEF MirrorTypes, Details
  <1>12. \A i \in Items : x.got[i] # 0 => x.fresh[i] >= detail'[i]
    BY <1>0, <1>6, <1>8
  <1> QED BY <1>0, <1>2, <1>8, <1>9, <1>10, <1>11, <1>12, RunMoves

LEMMA WriteKeeps ==
  ASSUME MirrorInv, NEW r \in Mi!Runs, Mi!Write(r)
  PROVE  MirrorInv'
  <1>0. /\ run[r].at = "write" /\ Mi!Active(r) /\ service.commit = "end"
        /\ UNCHANGED <<service, remote, place>>
    BY DEF Mi!Write, Mi!Active
  <1>1. /\ MirrorTypes /\ Details /\ RunHolds(run[r]) /\ run[r] \in RunRecords
    BY DEF MirrorInv, MirrorTypes
  <1>2. ASSUME Mi!Refused(r) PROVE MirrorInv'
    <2>1. run' = [run EXCEPT ![r] = Mi!Idle] /\ UNCHANGED <<table, detail>>
      BY <1>2 DEF Mi!Write, Mi!Set
    <2>2. /\ table' \in [Items -> Nat] /\ detail' \in [Items -> Nat]
          /\ \A i \in Items : Behind(detail'[i], i)
          /\ service.details = "none" => detail' = Mi!NoRows
      BY <1>1, <2>1 DEF MirrorTypes, Details
    <2> QED BY <1>0, <2>1, <2>2, RunEnds
  <1>3. ASSUME ~Mi!Refused(r) PROVE MirrorInv'
    <2> DEFINE x == [run[r] EXCEPT !.at = "prune"]
    <2>1. /\ table' = Mi!Written(r)
          /\ detail' = [i \in Items |-> IF run[r].got[i] # 0 THEN run[r].fresh[i] ELSE detail[i]]
          /\ run' = [run EXCEPT ![r] = IF service.store = "prune" THEN x ELSE Mi!Idle]
      BY <1>3 DEF Mi!Write, Mi!Set
    <2>2. /\ x \in RunRecords /\ x.at = "prune" /\ x.fresh = run[r].fresh
          /\ x.mixed = run[r].mixed
          /\ x.got = run[r].got /\ x.from = run[r].from /\ x.gone = run[r].gone
          /\ x.unread = run[r].unread /\ x.complete = run[r].complete
      BY <1>1 DEF RunRecords, RunSteps
    <2> HIDE DEF x
    <2>3. ~x.mixed => Found(x)
      BY <1>0, <1>1, <2>2 DEF RunHolds, Found
    <2>4. /\ table \in [Items -> Nat] /\ detail \in [Items -> Nat]
          /\ run[r].got \in [Items -> Nat] /\ run[r].fresh \in [Items -> Nat]
      BY <1>1 DEF MirrorTypes, RunRecords
    <2>5. table' \in [Items -> Nat]
      BY <2>1, <2>4 DEF Mi!Written, Mi!Stored
    <2>6. detail' \in [Items -> Nat]
      BY <2>1, <2>4
    <2>7. \A i \in Items : Behind(detail'[i], i) /\ Behind(x.fresh[i], i)
      BY <1>1, <2>1, <2>2 DEF Details
    <2>8. service.details = "none" => x.fresh = Mi!NoRows /\ detail' = Mi!NoRows
      <3>1. service.details = "none" => run[r].fresh = Mi!NoRows /\ detail = Mi!NoRows
        BY <1>1 DEF Details
      <3>2. service.details = "none" => \A i \in Items : detail'[i] = 0
        BY <2>1, <3>1, IdleIs
      <3>3. service.details = "none" => detail' = Mi!NoRows
        BY <2>6, <3>2 DEF Mi!NoRows
      <3> QED BY <2>2, <3>1, <3>3
    <2>9. CASE service.store = "prune"
      <3>1. run' = [run EXCEPT ![r] = x] BY <2>1, <2>9
      <3> QED BY <1>0, <2>2, <2>3, <2>5, <2>6, <2>7, <2>8, <2>9, <3>1, RunMoves
    <2>10. CASE service.store # "prune"
      <3>1. run' = [run EXCEPT ![r] = Mi!Idle] BY <2>1, <2>10
      <3> QED BY <1>0, <2>5, <2>6, <2>7, <2>8, <3>1, RunEnds
    <2> QED BY <2>9, <2>10
  <1> QED BY <1>2, <1>3

LEMMA WriteBatchKeeps ==
  ASSUME MirrorInv, NEW r \in Mi!Runs, Mi!WriteBatch(r)
  PROVE  MirrorInv'
  <1>0. /\ run[r].at = "write" /\ Mi!Active(r) /\ service.commit = "part"
        /\ UNCHANGED <<service, remote, place, detail>>
    BY DEF Mi!WriteBatch, Mi!Active
  <1>1. /\ MirrorTypes /\ Details /\ RunHolds(run[r]) /\ run[r] \in RunRecords
        /\ Kind(service)
    BY ServiceKinds DEF MirrorInv, MirrorTypes
  <1>2. /\ detail' \in [Items -> Nat]
        /\ \A i \in Items : Behind(detail'[i], i) /\ Behind(run[r].fresh[i], i)
        /\ service.details = "none" => run[r].fresh = Mi!NoRows /\ detail' = Mi!NoRows
    BY <1>0, <1>1 DEF MirrorTypes, Details
  <1>3. service.store = "upsert" /\ service.details = "none"
    BY <1>0, <1>1 DEF Kind
  <1>4. ASSUME NEW i \in Items, run[r].got[i] # 0,
               table' = [table EXCEPT ![i] = run[r].got[i]],
               Mi!Set(r, [run[r] EXCEPT !.got[i] = 0])
        PROVE  MirrorInv'
    <2> DEFINE g == [run[r].got EXCEPT ![i] = 0]
               x == [run[r] EXCEPT !.got = g]
    <2>1. run' = [run EXCEPT ![r] = x] BY <1>4 DEF Mi!Set
    <2>2. /\ table \in [Items -> Nat] /\ run[r].got \in [Items -> Nat]
      BY <1>1 DEF MirrorTypes, RunRecords
    <2>3. g \in [Items -> Nat] /\ table' \in [Items -> Nat]
      BY <1>4, <2>2
    <2>4. \A j \in Items : g[j] = IF j = i THEN 0 ELSE run[r].got[j]
      BY <2>2
    <2> HIDE DEF g
    <2>5. /\ x \in RunRecords /\ x.at = "write" /\ x.fresh = run[r].fresh
          /\ x.mixed = run[r].mixed /\ x.got = g
      BY <1>0, <1>1, <2>3 DEF RunRecords
    <2> HIDE DEF x
    <2>6. Found(x) BY <1>3 DEF Found
    <2>7. \A j \in Items : x.got[j] # 0 => x.fresh[j] >= detail'[j]
      BY <1>2, <1>3, <2>5, IdleIs
    <2> QED BY <1>0, <1>2, <1>3, <2>1, <2>3, <2>5, <2>6, <2>7, RunMoves
  <1>5. ASSUME Mi!Set(r, Mi!Idle), UNCHANGED table PROVE MirrorInv'
    <2>1. run' = [run EXCEPT ![r] = Mi!Idle] BY <1>5 DEF Mi!Set
    <2>2. table' \in [Items -> Nat] BY <1>1, <1>5 DEF MirrorTypes
    <2> QED BY <1>0, <1>2, <2>1, <2>2, RunEnds
  <1> QED BY <1>4, <1>5 DEF Mi!WriteBatch

LEMMA PruneKeeps ==
  ASSUME MirrorInv, NEW r \in Mi!Runs, Mi!Prune(r) \/ Mi!PruneNothing(r)
  PROVE  MirrorInv'
  <1>0. /\ run[r].at = "prune" /\ Mi!Active(r)
        /\ UNCHANGED <<service, remote, place>>
        /\ run' = [run EXCEPT ![r] = Mi!Idle]
    BY DEF Mi!Prune, Mi!PruneNothing, Mi!Active, Mi!Set
  <1>1. MirrorTypes /\ Details /\ run[r] \in RunRecords
    BY DEF MirrorInv, MirrorTypes
  <1>2. /\ table \in [Items -> Nat] /\ detail \in [Items -> Nat]
        /\ remote \in [Items -> Nat \cup {Mi!Gone}]
    BY <1>1 DEF MirrorTypes
  <1>3. table' \in [Items -> Nat] /\ detail' \in [Items -> Nat]
    <2>1. CASE Mi!Prune(r) BY <1>2, <2>1 DEF Mi!Prune
    <2>2. CASE Mi!PruneNothing(r) BY <1>2, <2>2 DEF Mi!PruneNothing
    <2> QED BY <2>1, <2>2
  <1>4. \A i \in Items : detail'[i] = detail[i] \/ detail'[i] = 0
    BY DEF Mi!Prune, Mi!PruneNothing
  <1>5. \A i \in Items : Behind(detail'[i], i)
    BY <1>1, <1>2, <1>4 DEF Details, Behind
  <1>6. service.details = "none" => detail' = Mi!NoRows
    <2>1. service.details = "none" => \A i \in Items : detail'[i] = 0
      BY <1>1, <1>4, IdleIs DEF Details
    <2> QED BY <1>3, <2>1 DEF Mi!NoRows
  <1> QED BY <1>0, <1>3, <1>5, <1>6, RunEnds

\* Elsewhere things change while the runs wait: one more version, a thing gone, another
\* place.  What a run found it has found.
LEMMA ChangeKeeps ==
  ASSUME MirrorInv, NEW i \in Items, Mi!Change(i)
  PROVE  MirrorInv'
  <1>0. /\ UNCHANGED <<service, table, detail, run>> /\ remote[i] \in Nat
        /\ remote' = [remote EXCEPT ![i] = remote[i] + 1]
        /\ service.parts # "recent" => place' = place
    BY ImportsAssumption DEF Mi!Change
  <1>1. MirrorTypes /\ Details BY DEF MirrorInv
  <1>2. /\ remote \in [Items -> Nat \cup {Mi!Gone}]
        /\ remote' \in [Items -> Nat \cup {Mi!Gone}]
    BY <1>0, <1>1 DEF MirrorTypes
  <1>3. \A j \in Items :
          \/ remote'[j] = remote[j]
          \/ remote'[j] = remote[j] + 1 /\ remote[j] \in Nat
    <2>1. \A j \in Items : remote'[j] = IF j = i THEN remote[i] + 1 ELSE remote[j]
      BY <1>0, <1>2
    <2> QED BY <1>0, <2>1
  <1>4. MirrorTypes' BY <1>0, <1>1, <1>2 DEF MirrorTypes
  <1>5. \A j \in Items : \A v \in Nat : Behind(v, j) => Behind(v, j)'
    BY <1>2, <1>3 DEF Behind, Mi!Gone
  <1>6. Details'
    <2>1. \A r \in Mi!Runs : run[r].fresh \in [Items -> Nat]
      BY <1>1 DEF MirrorTypes, RunRecords
    <2>2. detail \in [Items -> Nat] BY <1>1 DEF MirrorTypes
    <2> QED BY <1>0, <1>1, <1>5, <2>1, <2>2 DEF Details
  <1>7. \A j \in Items : remote[j] > 0 => remote'[j] > 0
    BY <1>2, <1>3 DEF Mi!Gone
  <1>8. \A j \in Items : Mi!PartOf(j)' = Mi!PartOf(j)
    BY <1>0 DEF Mi!PartOf
  <1>9. ASSUME NEW x, Found(x) PROVE Found(x)'
    <2>1. \A j \in Items : Ahead(x, j) => Ahead(x, j)'
      BY <1>7, <1>8 DEF Ahead
    <2>2. Mi!Beyond' = Mi!Beyond BY <1>0 DEF Mi!Beyond
    <2>3. Mi!Present \subseteq Mi!Present' BY <1>7 DEF Mi!Present
    <2>4. service.parts = "days" => place' = place BY <1>0
    <2> QED BY <1>0, <1>9, <2>1, <2>2, <2>3, <2>4 DEF Found, Mi!Looks
  <1>10. \A r \in Mi!Runs : (RunHolds(run[r]) /\ Lonely(r))'
    <2> SUFFICES ASSUME NEW r \in Mi!Runs PROVE (RunHolds(run[r]) /\ Lonely(r))'
      OBVIOUS
    <2>1. RunHolds(run[r]) /\ Lonely(r) BY DEF MirrorInv
    <2>2. Found(run[r]) => Found(run[r])' BY <1>0, <1>9
    <2> QED BY <1>0, <2>1, <2>2 DEF RunHolds, Lonely, Mi!Active, Undone, Newer
  <1> QED BY <1>4, <1>6, <1>10 DEF MirrorInv

\* What goes elsewhere, or away, is noted by the runs at work: nothing else changes.
LEMMA RunsNote ==
  ASSUME MirrorInv, NEW i \in Items, UNCHANGED <<service, table, detail>>,
         remote' \in [Items -> Nat \cup {Mi!Gone}],
         service.parts # "recent" => place' \in [Items -> Nat \ {0}],
         service.parts \notin {"pages", "recent"} => place' \in [Items -> 1..N],
         \A j \in Items : \/ remote'[j] = remote[j] /\ place'[j] = place[j]
                          \/ j = i /\ remote'[j] \in {remote[j], Mi!Gone},
         run' \in [Mi!Runs -> RunRecords],
         \A r \in Mi!Runs :
            /\ run'[r].at = run[r].at /\ run'[r].next = run[r].next
            /\ run'[r].from = run[r].from /\ run'[r].last = run[r].last
            /\ run'[r].keys = run[r].keys /\ run'[r].got = run[r].got
            /\ run'[r].fresh = run[r].fresh /\ run'[r].gone \cup run'[r].unread =
                 IF Mi!Active(r) THEN run[r].gone \cup run[r].unread \cup {i}
                                 ELSE run[r].gone \cup run[r].unread
            /\ run'[r].complete = run[r].complete
            /\ run'[r].mixed = run[r].mixed /\ run'[r].before = run[r].before
  PROVE  MirrorInv'
  <1>1. MirrorTypes /\ Details BY DEF MirrorInv
  <1>2. MirrorTypes' BY <1>1 DEF MirrorTypes
  <1>3. \A j \in Items : \A v : Behind(v, j) => Behind(v, j)'
    BY DEF Behind
  <1>4. Details' BY <1>1, <1>3 DEF Details
  <1>5. ASSUME NEW r \in Mi!Runs PROVE (RunHolds(run[r]) /\ Lonely(r))'
    <2>1. RunHolds(run[r]) /\ Lonely(r) BY DEF MirrorInv
    <2>2. Mi!Active(r) /\ Found(run[r]) => Found(run[r])'
      <3> SUFFICES ASSUME Mi!Active(r), Found(run[r]), service.store # "upsert",
                          NEW j \in Items
                   PROVE  \/ service.parts = "days" /\ place'[j] < run'[r].from
                          \/ run'[r].got[j] # 0
                          \/ j \in run'[r].gone \cup run'[r].unread
                          \/ run'[r].at = "read" /\ Ahead(run[r], j)'
                          \/ Mi!Looks' /\ IF run'[r].at = "read" THEN j \in Mi!Beyond' \cap Mi!Present'
                                                               ELSE ~run'[r].complete
        BY DEF Found
      <3>1. CASE j = i BY <3>1
      <3>2. CASE j # i
        <4>1. remote'[j] = remote[j] /\ place'[j] = place[j] BY <3>2
        <4>2. Mi!PartOf(j)' = Mi!PartOf(j) BY <4>1 DEF Mi!PartOf
        <4>3. Ahead(run[r], j) => Ahead(run[r], j)'
          BY <4>1, <4>2 DEF Ahead
        <4>4. Mi!Looks' <=> Mi!Looks BY DEF Mi!Looks
        <4>5. j \in Mi!Beyond \cap Mi!Present => j \in Mi!Beyond' \cap Mi!Present'
          BY <4>1 DEF Mi!Beyond, Mi!Present
        <4> QED BY <4>1, <4>3, <4>4, <4>5 DEF Found
      <3> QED BY <3>1, <3>2
    <2> QED BY <2>1, <2>2 DEF RunHolds, Lonely, Mi!Active, Undone, Newer
  <1> QED BY <1>2, <1>4, <1>5 DEF MirrorInv

LEMMA RemoveKeeps ==
  ASSUME MirrorInv, NEW i \in Items, Mi!Remove(i)
  PROVE  MirrorInv'
  <1>0. /\ UNCHANGED <<service, place, table, detail>>
        /\ remote' = [remote EXCEPT ![i] = Mi!Gone]
    BY DEF Mi!Remove
  <1>1. MirrorTypes BY DEF MirrorInv
  <1>2. /\ remote' \in [Items -> Nat \cup {Mi!Gone}]
        /\ \A j \in Items : remote'[j] = IF j = i THEN Mi!Gone ELSE remote[j]
    BY <1>0, <1>1 DEF MirrorTypes
  <1> DEFINE noted(r) == [run[r] EXCEPT !.gone = @ \cup {i}]
  <1>3. run' = [r \in Mi!Runs |-> IF Mi!Active(r) THEN noted(r) ELSE run[r]]
    BY Zenon DEF Mi!Remove
  <1>4. ASSUME NEW r \in Mi!Runs
        PROVE  /\ noted(r) \in RunRecords
               /\ noted(r).at = run[r].at /\ noted(r).next = run[r].next
               /\ noted(r).from = run[r].from /\ noted(r).last = run[r].last
               /\ noted(r).keys = run[r].keys /\ noted(r).got = run[r].got
               /\ noted(r).fresh = run[r].fresh
               /\ noted(r).gone = run[r].gone \cup {i} /\ noted(r).unread = run[r].unread
               /\ noted(r).complete = run[r].complete
               /\ noted(r).mixed = run[r].mixed /\ noted(r).before = run[r].before
    BY <1>1, ZenonT(40) DEF MirrorTypes, RunRecords
  <1> HIDE DEF noted
  <1>5. \A r \in Mi!Runs : run'[r] = IF Mi!Active(r) THEN noted(r) ELSE run[r]
    BY <1>3
  <1>6. run' \in [Mi!Runs -> RunRecords]
    BY <1>1, <1>3, <1>4 DEF MirrorTypes
  <1>7. service.parts # "recent" => place' \in [Items -> Nat \ {0}]
    BY <1>0, <1>1 DEF MirrorTypes
  <1>8. service.parts \notin {"pages", "recent"} => place' \in [Items -> 1..N]
    BY <1>0, <1>1 DEF MirrorTypes
  <1>9. \A r \in Mi!Runs :
            /\ run'[r].at = run[r].at /\ run'[r].next = run[r].next
            /\ run'[r].from = run[r].from /\ run'[r].last = run[r].last
            /\ run'[r].keys = run[r].keys /\ run'[r].got = run[r].got
            /\ run'[r].fresh = run[r].fresh /\ run'[r].gone \cup run'[r].unread =
                 IF Mi!Active(r) THEN run[r].gone \cup run[r].unread \cup {i}
                                 ELSE run[r].gone \cup run[r].unread
            /\ run'[r].complete = run[r].complete
            /\ run'[r].mixed = run[r].mixed /\ run'[r].before = run[r].before
    BY <1>4, <1>5
  <1> QED BY <1>0, <1>2, <1>6, <1>7, <1>8, <1>9, RunsNote

LEMMA MoveKeeps ==
  ASSUME MirrorInv, NEW i \in Items, NEW p \in 1..N + 1, Mi!Move(i, p)
  PROVE  MirrorInv'
  <1>0. /\ UNCHANGED <<service, remote, table, detail>> /\ service.parts = "pages"
        /\ place' = [place EXCEPT ![i] = p]
    BY DEF Mi!Move
  <1>1. MirrorTypes BY DEF MirrorInv
  <1>2. /\ place' \in [Items -> Nat \ {0}] /\ remote' \in [Items -> Nat \cup {Mi!Gone}]
        /\ \A j \in Items : remote'[j] = remote[j] /\ (j # i => place'[j] = place[j])
    <2>1. p \in Nat \ {0} BY ImportsAssumption
    <2> QED BY <1>0, <1>1, <2>1 DEF MirrorTypes
  <1> DEFINE noted(r) == [run[r] EXCEPT !.unread = @ \cup {i}]
  <1>3. run' = [r \in Mi!Runs |-> IF Mi!Active(r) THEN noted(r) ELSE run[r]]
    BY Zenon DEF Mi!Move
  <1>4. ASSUME NEW r \in Mi!Runs
        PROVE  /\ noted(r) \in RunRecords
               /\ noted(r).at = run[r].at /\ noted(r).next = run[r].next
               /\ noted(r).from = run[r].from /\ noted(r).last = run[r].last
               /\ noted(r).keys = run[r].keys /\ noted(r).got = run[r].got
               /\ noted(r).fresh = run[r].fresh
               /\ noted(r).unread = run[r].unread \cup {i} /\ noted(r).gone = run[r].gone
               /\ noted(r).complete = run[r].complete
               /\ noted(r).mixed = run[r].mixed /\ noted(r).before = run[r].before
    BY <1>1 DEF MirrorTypes, RunRecords
  <1> HIDE DEF noted
  <1>5. \A r \in Mi!Runs : run'[r] = IF Mi!Active(r) THEN noted(r) ELSE run[r]
    BY <1>3
  <1>6. run' \in [Mi!Runs -> RunRecords]
    BY <1>1, <1>3, <1>4 DEF MirrorTypes
  <1>9. \A r \in Mi!Runs :
            /\ run'[r].at = run[r].at /\ run'[r].next = run[r].next
            /\ run'[r].from = run[r].from /\ run'[r].last = run[r].last
            /\ run'[r].keys = run[r].keys /\ run'[r].got = run[r].got
            /\ run'[r].fresh = run[r].fresh /\ run'[r].gone \cup run'[r].unread =
                 IF Mi!Active(r) THEN run[r].gone \cup run[r].unread \cup {i}
                                 ELSE run[r].gone \cup run[r].unread
            /\ run'[r].complete = run[r].complete
            /\ run'[r].mixed = run[r].mixed /\ run'[r].before = run[r].before
    BY <1>4, <1>5
  <1> QED BY <1>0, <1>2, <1>6, <1>9, RunsNote

\* The hours only matter to services of which rows are never dropped; a key in Redis to
\* none; and with the process both runs end.
LEMMA OthersKeep ==
  ASSUME MirrorInv, Mi!HourPasses \/ Mi!LockExpires \/ Mi!Crash \/ UNCHANGED mirrorVars
  PROVE  MirrorInv'
  <1>0. MirrorTypes /\ Details /\ Kind(service)
    BY ServiceKinds DEF MirrorInv, MirrorTypes
  <1>1. CASE Mi!HourPasses
    <2>1. /\ service.parts = "recent" /\ UNCHANGED <<service, remote, table, detail, run>>
          /\ \A r \in Mi!Runs : run[r].at = "idle"
      BY <1>1 DEF Mi!HourPasses, Mi!Active
    <2>2. MirrorTypes' BY <1>0, <2>1 DEF MirrorTypes
    <2>3. Details' BY <1>0, <2>1 DEF Details, Behind
    <2>4. \A r \in Mi!Runs : (RunHolds(run[r]) /\ Lonely(r))'
      BY <2>1 DEF RunHolds, Lonely, Mi!Active
    <2> QED BY <2>2, <2>3, <2>4 DEF MirrorInv
  <1>2. CASE Mi!LockExpires \/ UNCHANGED mirrorVars
    <2>1. UNCHANGED <<service, remote, place, table, detail, run>>
      BY <1>2 DEF Mi!LockExpires, mirrorVars
    <2> QED
      BY <2>1 DEF MirrorInv, MirrorTypes, Details, Behind, RunHolds, Found, Undone, Newer,
                  Lonely, Ahead, Mi!PartOf, Mi!Looks, Mi!Beyond, Mi!Present, Mi!Active
  <1>3. CASE Mi!Crash
    <2>1. /\ UNCHANGED <<service, remote, place, table, detail>>
          /\ run' = [r \in Mi!Runs |-> Mi!Idle]
      BY <1>3 DEF Mi!Crash
    <2>2. \A r \in Mi!Runs : run'[r] = Mi!Idle BY <2>1
    <2>3. MirrorTypes' BY <1>0, <2>1, <2>2, IdleIs DEF MirrorTypes
    <2>4. Details'
      <3>1. \A i \in Items : Behind(Mi!NoRows[i], i)
        BY <1>0, IdleIs DEF MirrorTypes, Behind
      <3> QED BY <1>0, <2>1, <2>2, <3>1, IdleIs DEF Details, Behind, Mi!NoRows
    <2>5. \A r \in Mi!Runs : (RunHolds(run[r]) /\ Lonely(r))'
      BY <2>2, IdleIs DEF RunHolds, Lonely, Mi!Active
    <2> QED BY <2>3, <2>4, <2>5 DEF MirrorInv
  <1> QED BY <1>1, <1>2, <1>3

\* A run begins, and one it meets learns of it.
LEMMA RunsBegin ==
  ASSUME MirrorInv, NEW r \in Mi!Runs, NEW other \in Mi!Runs, other # r,
         \A o \in Mi!Runs : o = r \/ o = other,
         UNCHANGED <<service, remote, place, table, detail>>,
         NEW b \in RunRecords, NEW met \in RunRecords,
         DOMAIN run' = Mi!Runs, run' = [o \in DOMAIN run' |-> run'[o]],
         run'[r] = b, run'[other] = IF Mi!Active(other) THEN met ELSE run[other],
         b.at = "read", b.fresh = Mi!NoRows, b.mixed = Mi!Active(other),
         met.at = run[other].at, met.fresh = run[other].fresh, met.mixed,
         ~Mi!Active(other) => Found(b) /\ b.before = table
  PROVE  MirrorInv'
  <1>3. MirrorTypes /\ Details /\ run \in [Mi!Runs -> RunRecords]
    BY DEF MirrorInv, MirrorTypes
  <1>7. MirrorTypes'
    <2>2. \A o \in Mi!Runs : run'[o] \in RunRecords BY <1>3
    <2>5. run' \in [Mi!Runs -> RunRecords] BY <2>2
    <2> QED BY <1>3, <2>5 DEF MirrorTypes
  <1>8. Details'
    <2>1. \A i \in Items : Behind(Mi!NoRows[i], i)
      BY <1>3, IdleIs DEF MirrorTypes, Behind
    <2>2. \A o \in Mi!Runs :
            \/ run'[o].at = "read" /\ run'[o].fresh = Mi!NoRows
            \/ run'[o].at = run[o].at /\ run'[o].fresh = run[o].fresh
      OBVIOUS
    <2> QED BY <1>3, <2>1, <2>2 DEF Details, Behind, Mi!NoRows
  <1>10. RunHolds(b)'
    <2>1. Found(b)' <=> Found(b)
      BY DEF Found, Ahead, Mi!PartOf, Mi!Looks, Mi!Beyond, Mi!Present
    <2>2. ~b.mixed => Found(b) /\ b.before = table
      OBVIOUS
    <2> QED BY <2>1, <2>2 DEF RunHolds, Undone, Newer
  <1>11. \A o \in Mi!Runs : RunHolds(run[o])'
    <2>1. RunHolds(run[other])'
      <3>1. CASE Mi!Active(other) BY <3>1 DEF RunHolds
      <3>2. CASE ~Mi!Active(other) BY <3>2 DEF RunHolds, Mi!Active
      <3> QED BY <3>1, <3>2
    <2>2. RunHolds(run[r])' BY <1>10
    <2> QED BY <2>1, <2>2
  <1>12. \A o \in Mi!Runs : Lonely(o)'
    BY ZenonT(40) DEF Lonely, Mi!Active
  <1> QED BY <1>7, <1>8, <1>11, <1>12 DEF MirrorInv

\* A run that begins will read every thing there is, or knows that it cannot; and two
\* runs at work know of each other.
LEMMA BeginKeeps ==
  ASSUME MirrorInv, NEW r \in Mi!Runs, NEW from \in Int, NEW last \in Int,
         Mi!Begin(r, from, last), UNCHANGED <<service, remote, place, table, detail>>,
         service.store # "upsert" => \A i \in Items :
            \/ service.parts = "days" /\ place[i] < from
            \/ from <= Mi!PartOf(i) /\ Mi!PartOf(i) <= last
            \/ i \in Mi!Beyond
  PROVE  MirrorInv'
  <1> DEFINE other == CHOOSE o \in Mi!Runs : o # r
             b == Mi!Begun(from, last, Mi!Active(other))
             met == [run[other] EXCEPT !.mixed = TRUE, !.before = Mi!NoRows]
  <1>1. /\ other \in Mi!Runs /\ other # r
        /\ \A o \in Mi!Runs : o = r \/ o = other
    <2>1. \E o \in Mi!Runs : o # r BY DEF Mi!Runs
    <2>2. other \in Mi!Runs /\ other # r BY <2>1
    <2> HIDE DEF other
    <2> QED BY <2>2 DEF Mi!Runs
  <1>2. run' = [run EXCEPT ![r] = b,
                           ![other] = IF Mi!Active(other)
                                      THEN [@ EXCEPT !.mixed = TRUE, !.before = Mi!NoRows] ELSE @]
    BY DEF Mi!Begin
  <1>3. MirrorTypes /\ Details /\ run \in [Mi!Runs -> RunRecords] /\ table \in [Items -> Nat]
    BY DEF MirrorInv, MirrorTypes
  <1> HIDE DEF other, b
  <1>4. run'[r] = b /\ run'[other] = IF Mi!Active(other) THEN met ELSE run[other]
    BY <1>1, <1>2, <1>3
  <1>5. /\ met \in RunRecords /\ met.at = run[other].at /\ met.fresh = run[other].fresh
        /\ met.mixed
    BY <1>1, <1>3, IdleIs DEF RunRecords
  <1>6. /\ b \in RunRecords /\ b.at = "read" /\ b.fresh = Mi!NoRows /\ b.next = from
        /\ b.from = from /\ b.last = last /\ b.gone = Items \ Mi!Present
        /\ b.keys = IF service.parts = "scan" THEN Mi!Present ELSE Items
        /\ b.unread = IF Mi!Looks THEN {} ELSE Mi!Beyond
        /\ b.mixed = Mi!Active(other)
        /\ ~Mi!Active(other) => b.before = table
    <2> DEFINE k == IF service.parts = "scan" THEN Mi!Present ELSE Items
               u == IF Mi!Looks THEN {} ELSE Mi!Beyond
               g == Items \ Mi!Present
               m == Mi!Active(other)
               rs == IF m THEN Mi!NoRows ELSE table
    <2>1. b = [Mi!Idle EXCEPT !.at = "read", !.next = from, !.from = from, !.last = last,
                  !.keys = k, !.gone = g, !.unread = u, !.mixed = m, !.before = rs]
      BY DEF b, Mi!Begun
    <2>2. /\ k \subseteq Items /\ u \subseteq Items /\ g \subseteq Items /\ m \in BOOLEAN
          /\ rs \in [Items -> Nat] /\ "read" \in RunSteps
      BY <1>3, IdleIs DEF Mi!Present, Mi!Beyond, Mi!Active, RunSteps
    <2>3. ~m => rs = table OBVIOUS
    <2> HIDE DEF k, u, g, m, rs
    <2>4. /\ b \in RunRecords /\ b.at = "read" /\ b.fresh = Mi!Idle.fresh /\ b.next = from
          /\ b.from = from /\ b.last = last /\ b.gone = g /\ b.keys = k /\ b.unread = u
          /\ b.mixed = m /\ b.before = rs
      BY <2>1, <2>2, IdleIs DEF RunRecords
    <2> QED BY <2>3, <2>4, IdleIs DEF k, u, g, m
  <1> HIDE DEF met
  <1>7. DOMAIN run' = Mi!Runs /\ run' = [o \in DOMAIN run' |-> run'[o]]
    BY <1>2, <1>3
  <1>9. ~Mi!Active(other) => Found(b)
    <2> SUFFICES ASSUME service.store # "upsert", NEW i \in Items
                 PROVE  \/ service.parts = "days" /\ place[i] < from
                        \/ i \in b.gone \cup b.unread
                        \/ Ahead(b, i)
                        \/ Mi!Looks /\ i \in Mi!Beyond \cap Mi!Present
      BY <1>6 DEF Found
    <2>1. CASE i \notin Mi!Present BY <1>6, <2>1
    <2>2. CASE i \in Mi!Present
      <3>1. remote[i] > 0 BY <2>2 DEF Mi!Present
      <3>2. i \in b.keys BY <1>6, <2>2
      <3> QED BY <1>6, <2>2, <3>1, <3>2 DEF Ahead
    <2> QED BY <2>1, <2>2
  <1> QED BY <1>1, <1>4, <1>5, <1>6, <1>7, <1>9, RunsBegin

LEMMA StartsKeep ==
  ASSUME MirrorInv, NEW p \in Int, Mi!StartJob(p) \/ Mi!Ask \/ Mi!RefreshOne(p)
  PROVE  MirrorInv'
  <1>1. UNCHANGED <<service, remote, place, table, detail>>
    BY DEF Mi!StartJob, Mi!Ask, Mi!RefreshOne
  <1>2. N \in Nat /\ Mi!LastPart \in Int
    BY ImportsAssumption DEF Mi!LastPart
  <1>3. /\ service.parts # "recent" => place \in [Items -> Nat \ {0}]
        /\ service.parts \notin {"pages", "recent"} => place \in [Items -> 1..N]
    BY DEF MirrorInv, MirrorTypes
  <1>8. Kind(service)
    BY ServiceKinds DEF MirrorInv, MirrorTypes
  <1>4. ASSUME NEW from \in Int, from = 1 \/ (service.parts = "days" /\ from = N),
               service.store # "upsert", NEW i \in Items
        PROVE  \/ service.parts = "days" /\ place[i] < from
               \/ from <= Mi!PartOf(i) /\ Mi!PartOf(i) <= Mi!LastPart
               \/ i \in Mi!Beyond
    <2>1. service.parts \in {"pages", "scan", "days", "whole"} BY <1>4, <1>8 DEF Kind
    <2>2. CASE service.parts = "whole"
      BY <1>4, <2>2 DEF Mi!PartOf, Mi!LastPart
    <2>3. CASE service.parts # "whole"
      <3>1. Mi!PartOf(i) = place[i] /\ Mi!LastPart = N
        BY <2>1, <2>3 DEF Mi!PartOf, Mi!LastPart
      <3>2. place[i] \in Nat /\ place[i] >= 1 BY <1>3, <2>1
      <3>3. service.parts # "pages" => place[i] <= N BY <1>2, <1>3, <2>1
      <3>4. service.parts = "pages" /\ place[i] > N => i \in Mi!Beyond
        BY DEF Mi!Beyond
      <3> QED BY <1>2, <1>4, <3>1, <3>2, <3>3, <3>4
    <2> QED BY <2>2, <2>3
  <1>5. CASE Mi!StartJob(p)
    <2>1. Mi!Begin("job", p, Mi!LastPart) BY <1>5 DEF Mi!StartJob
    <2>3. p # 1 => service.parts = "days" /\ p = N BY <1>5 DEF Mi!StartJob
    <2>4. p = 1 \/ (service.parts = "days" /\ p = N) BY <2>3
    <2>2. "job" \in Mi!Runs BY DEF Mi!Runs
    <2> QED BY <1>1, <1>2, <1>4, <2>1, <2>2, <2>4, BeginKeeps
  <1>6. CASE Mi!Ask
    <2>1. Mi!Begin("asked", 1, Mi!LastPart) BY <1>6 DEF Mi!Ask
    <2>2. "asked" \in Mi!Runs BY DEF Mi!Runs
    <2>3. service.store # "upsert" => \A i \in Items :
            \/ service.parts = "days" /\ place[i] < 1
            \/ 1 <= Mi!PartOf(i) /\ Mi!PartOf(i) <= Mi!LastPart
            \/ i \in Mi!Beyond
      BY <1>4
    <2> QED BY <1>1, <1>2, <2>1, <2>2, <2>3, BeginKeeps
  <1>7. CASE Mi!RefreshOne(p)
    <2>1. Mi!Begin("asked", p, p) /\ service.commit = "part"
      BY <1>7 DEF Mi!RefreshOne, Mi!CatalogStatus, Mi!Service
    <2>2. "asked" \in Mi!Runs BY DEF Mi!Runs
    <2>3. service.store = "upsert" BY <1>8, <2>1 DEF Kind
    <2> QED BY <1>1, <1>2, <2>1, <2>2, <2>3, BeginKeeps
  <1> QED BY <1>5, <1>6, <1>7

LEMMA MirrorStep ==
  ASSUME MirrorInv, [Mi!Next]_mirrorVars
  PROVE  MirrorInv'
  <1>1. ASSUME NEW i \in Items, Mi!Change(i) \/ Mi!Remove(i) \/ \E p \in 1..N + 1 : Mi!Move(i, p)
        PROVE  MirrorInv'
    BY <1>1, ChangeKeeps, RemoveKeeps, MoveKeeps
  <1>2. ASSUME NEW p \in 1..N, Mi!StartJob(p) \/ Mi!RefreshOne(p)
        PROVE  MirrorInv'
    <2>1. p \in Int BY ImportsAssumption
    <2> QED BY <1>2, <2>1, StartsKeep
  <1>3. CASE Mi!Ask
    BY <1>3, StartsKeep
  <1>4. CASE Mi!HourPasses \/ Mi!LockExpires \/ Mi!Crash \/ UNCHANGED mirrorVars
    BY <1>4, OthersKeep
  <1>5. ASSUME NEW r \in Mi!Runs, Mi!Step(r) \/ Mi!ReadFails(r)
        PROVE  MirrorInv'
    <2>1. CASE Mi!Step(r)
      BY <2>1, ReadKeeps, StorePartKeeps, ReadDetailsKeeps, WriteKeeps, WriteBatchKeeps,
         PruneKeeps DEF Mi!Step
    <2> QED BY <1>5, <2>1, ReadFailsKeeps
  <1> QED BY <1>1, <1>2, <1>3, <1>4, <1>5 DEF Mi!Next, mirrorVars, Mi!vars

\* Where no row and no detail changes, nothing is lost; and what a run had not touched
\* it leaves as it was.
RowsHeld == Mi!OnlyGoneDropped /\ Mi!FailedRunKeepsTable /\ Mi!DetailKept

LEMMA RestHeld ==
  ASSUME MirrorInv, UNCHANGED <<table, detail>>
  PROVE  RowsHeld
  <1>1. /\ detail \in [Items -> Nat] /\ \A r \in Mi!Runs : RunHolds(run[r])
    BY DEF MirrorInv, MirrorTypes
  <1>2. Mi!OnlyGoneDropped BY DEF Mi!OnlyGoneDropped
  <1>3. Mi!FailedRunKeepsTable
    BY <1>1 DEF Mi!FailedRunKeepsTable, RunHolds, Undone
  <1>4. Mi!DetailKept BY <1>1 DEF Mi!DetailKept
  <1> QED BY <1>2, <1>3, <1>4 DEF RowsHeld

\* A run that writes or prunes: no other that met none is at work.
LEMMA WriterAlone ==
  ASSUME MirrorInv, NEW r \in Mi!Runs, Mi!Active(r), run[r].at \notin {"read", "detail"},
         NEW x, run' = [run EXCEPT ![r] = x]
  PROVE  Mi!FailedRunKeepsTable
  <1>1. run \in [Mi!Runs -> RunRecords] /\ \A o \in Mi!Runs : Lonely(o)
    BY DEF MirrorInv, MirrorTypes
  <1>2. \A o \in Mi!Runs : o # r => run'[o] = run[o] BY <1>1
  <1> QED BY <1>1, <1>2 DEF Mi!FailedRunKeepsTable

LEMMA StorePartHeld ==
  ASSUME MirrorInv, NEW r \in Mi!Runs, Mi!StorePart(r) \/ Mi!WriteBatch(r)
  PROVE  RowsHeld
  <1>1. /\ detail' = detail /\ service.commit = "part"
        /\ \A i \in Items : table[i] # 0 => table'[i] # 0
    <2>1. MirrorTypes /\ Details BY DEF MirrorInv
    <2>2. CASE Mi!StorePart(r)
      BY <2>1, <2>2 DEF Mi!StorePart, Mi!Stored, Details
    <2>3. CASE Mi!WriteBatch(r)
      <3>1. detail' = detail /\ service.commit = "part" BY <2>3 DEF Mi!WriteBatch
      <3>2. ASSUME NEW j \in Items, run[r].got[j] # 0,
                   table' = [table EXCEPT ![j] = run[r].got[j]]
            PROVE  \A i \in Items : table[i] # 0 => table'[i] # 0
        <4>1. table \in [Items -> Nat] BY <2>1 DEF MirrorTypes
        <4> QED BY <3>2, <4>1
      <3>3. table' = table \/ \E j \in Items : /\ run[r].got[j] # 0
                                               /\ table' = [table EXCEPT ![j] = run[r].got[j]]
        BY <2>3 DEF Mi!WriteBatch
      <3> QED BY <3>1, <3>2, <3>3
    <2> QED BY <2>2, <2>3
  <1>2. Mi!OnlyGoneDropped BY <1>1 DEF Mi!OnlyGoneDropped
  <1>3. Mi!FailedRunKeepsTable BY <1>1 DEF Mi!FailedRunKeepsTable
  <1>4. Mi!DetailKept
    <2>1. detail \in [Items -> Nat] BY DEF MirrorInv, MirrorTypes
    <2> QED BY <1>1, <2>1 DEF Mi!DetailKept
  <1> QED BY <1>2, <1>3, <1>4 DEF RowsHeld

\* What is written in place of what there was, and the details with it.
LEMMA WriteHeld ==
  ASSUME MirrorInv, NEW r \in Mi!Runs, Mi!Write(r)
  PROVE  RowsHeld
  <1>1. CASE Mi!Refused(r)
    <2>1. UNCHANGED <<table, detail>> BY <1>1 DEF Mi!Write
    <2> QED BY <2>1, RestHeld
  <1>2. CASE ~Mi!Refused(r)
    <2> DEFINE x == IF service.store = "prune" THEN [run[r] EXCEPT !.at = "prune"] ELSE Mi!Idle
    <2>1. /\ run[r].at = "write" /\ Mi!Active(r) /\ table' = Mi!Written(r)
          /\ detail' = [i \in Items |-> IF run[r].got[i] # 0 THEN run[r].fresh[i] ELSE detail[i]]
          /\ run' = [run EXCEPT ![r] = x]
      BY <1>2 DEF Mi!Write, Mi!Set, Mi!Active
    <2>2. /\ MirrorTypes /\ RunHolds(run[r]) /\ run[r] \in RunRecords /\ Kind(service)
      BY ServiceKinds DEF MirrorInv, MirrorTypes
    <2>3. x.at # "write"
      <3>1. [run[r] EXCEPT !.at = "prune"].at = "prune" BY <2>2 DEF RunRecords
      <3> QED BY <3>1, IdleIs
    <2> HIDE DEF x
    <2>4. run'[r] # run[r] BY <2>1, <2>2, <2>3 DEF MirrorTypes
    <2>5. Mi!OnlyGoneDropped
      <3> SUFFICES ASSUME NEW i \in Items, table[i] # 0, table'[i] = 0, ~run[r].mixed
                   PROVE  i \in run[r].gone \cup run[r].unread
        BY <2>4 DEF Mi!OnlyGoneDropped
      <3>1. /\ service.store = "replace" /\ i \in Mi!Replaced(r) /\ run[r].got[i] = 0
        BY <2>1 DEF Mi!Written, Mi!Stored
      <3>2. Found(run[r]) BY <2>1, <2>2 DEF RunHolds
      <3>3. ~Mi!Looks
        BY <3>1 DEF Mi!Looks, Mi!AmazonListings, Mi!Service
      <3>4. service.parts = "days" => place[i] >= run[r].from
        BY <3>1 DEF Mi!Replaced
      <3>5. service.parts = "days" => place[i] \in Int /\ run[r].from \in Int
        BY <2>2 DEF MirrorTypes, RunRecords
      <3> QED BY <2>1, <3>1, <3>2, <3>3, <3>4, <3>5 DEF Found
    <2>6. Mi!FailedRunKeepsTable BY <2>1, WriterAlone
    <2>7. Mi!DetailKept
      <3> SUFFICES ASSUME NEW i \in Items, ~run[r].mixed PROVE detail'[i] >= detail[i]
        BY DEF Mi!DetailKept
      <3>1. detail \in [Items -> Nat] BY <2>2 DEF MirrorTypes
      <3>2. run[r].got[i] # 0 => run[r].fresh[i] >= detail[i]
        BY <2>1, <2>2 DEF RunHolds, Newer
      <3> QED BY <2>1, <3>1, <3>2
    <2> QED BY <2>5, <2>6, <2>7 DEF RowsHeld
  <1> QED BY <1>1, <1>2

\* What a complete pass no longer returned is dropped.
LEMMA PruneHeld ==
  ASSUME MirrorInv, NEW r \in Mi!Runs, Mi!Prune(r)
  PROVE  RowsHeld
  <1>1. /\ run[r].at = "prune" /\ Mi!Active(r) /\ Mi!Complete(r)
        /\ table' = [i \in Items |-> IF run[r].got[i] # 0 THEN table[i] ELSE 0]
        /\ detail' = [i \in Items |-> IF run[r].got[i] # 0 THEN detail[i] ELSE 0]
        /\ run' = [run EXCEPT ![r] = Mi!Idle]
    BY DEF Mi!Prune, Mi!Set, Mi!Active
  <1>2. /\ MirrorTypes /\ Details /\ RunHolds(run[r])
    BY DEF MirrorInv
  <1>3. run'[r] # run[r] BY <1>1, <1>2, IdleIs DEF MirrorTypes
  <1>4. Mi!OnlyGoneDropped
    <2> SUFFICES ASSUME NEW i \in Items, table[i] # 0, table'[i] = 0, ~run[r].mixed
                 PROVE  i \in run[r].gone \cup run[r].unread
      BY <1>3 DEF Mi!OnlyGoneDropped
    <2>1. run[r].got[i] = 0 BY <1>1
    <2>2. Found(run[r]) BY <1>1, <1>2 DEF RunHolds
    <2>3. service.store = "prune" /\ service.parts = "pages"
      BY <1>1, <1>2, ServiceKinds DEF MirrorInv, MirrorTypes, Details, Kind
    <2>4. Mi!Looks => run[r].complete BY <1>1 DEF Mi!Complete
    <2> QED BY <1>1, <2>1, <2>2, <2>3, <2>4 DEF Found
  <1>5. Mi!FailedRunKeepsTable BY <1>1, WriterAlone
  <1>6. Mi!DetailKept
    <2>1. detail \in [Items -> Nat] BY <1>2 DEF MirrorTypes
    <2> QED BY <1>1, <2>1 DEF Mi!DetailKept
  <1> QED BY <1>4, <1>5, <1>6 DEF RowsHeld

LEMMA MirrorHeld ==
  ASSUME MirrorInv, [Mi!Next]_mirrorVars
  PROVE  RowsHeld
  <1>1. ASSUME NEW i \in Items, Mi!Change(i) \/ Mi!Remove(i) \/ \E p \in 1..N + 1 : Mi!Move(i, p)
        PROVE  UNCHANGED <<table, detail>>
    BY <1>1 DEF Mi!Change, Mi!Remove, Mi!Move
  <1>2. ASSUME NEW p \in 1..N, Mi!StartJob(p) \/ Mi!RefreshOne(p)
        PROVE  UNCHANGED <<table, detail>>
    BY <1>2 DEF Mi!StartJob, Mi!RefreshOne
  <1>3. CASE Mi!Ask \/ Mi!HourPasses \/ Mi!LockExpires \/ Mi!Crash \/ UNCHANGED mirrorVars
    <2>1. UNCHANGED <<table, detail>>
      BY <1>3 DEF Mi!Ask, Mi!HourPasses, Mi!LockExpires, Mi!Crash, mirrorVars
    <2> QED BY <2>1, RestHeld
  <1>4. ASSUME NEW r \in Mi!Runs, Mi!Step(r) \/ Mi!ReadFails(r)
        PROVE  RowsHeld
    <2>1. CASE Mi!Read(r) \/ Mi!ReadDetails(r) \/ Mi!PruneNothing(r) \/ Mi!ReadFails(r)
      <3>1. UNCHANGED <<table, detail>>
        BY <2>1 DEF Mi!Read, Mi!ReadDetails, Mi!PruneNothing, Mi!ReadFails
      <3> QED BY <3>1, RestHeld
    <2> QED BY <1>4, <2>1, StorePartHeld, WriteHeld, PruneHeld DEF Mi!Step
  <1> QED BY <1>1, <1>2, <1>3, <1>4, RestHeld DEF Mi!Next, mirrorVars, Mi!vars

\* Whatever the service, the pages, the things and their versions: a row is dropped only
\* for a thing that was gone, or that the run could not read, a run that ends early
\* leaves the table as it was, and no stored detail is lost or made older, but for runs
\* that overlap.
THEOREM MirrorsKeepRows == FairSpec => RowsKept
  <1>1. Init => MirrorInv
    BY MirrorInit DEF Init
  <1>2. MirrorInv /\ [Next]_vars => MirrorInv'
    <2> SUFFICES ASSUME MirrorInv, [Next]_vars PROVE MirrorInv'
      OBVIOUS
    <2>1. [Mi!Next]_mirrorVars BY DEF Next, vars
    <2> QED BY <2>1, MirrorStep
  <1>3. MirrorInv /\ [Next]_vars => [Mi!OnlyGoneDropped /\ Mi!FailedRunKeepsTable /\ Mi!DetailKept]_vars
    <2> SUFFICES ASSUME MirrorInv, [Next]_vars PROVE RowsHeld
      BY DEF RowsHeld
    <2>1. [Mi!Next]_mirrorVars BY DEF Next, vars
    <2> QED BY <2>1, MirrorHeld
  <1> QED BY <1>1, <1>2, <1>3, PTL DEF FairSpec, RowsKept

---------------------------------------------------------------------------
(* Claims and infractions                                                  *)

\* A list fits in the pages that a run reads at most.
EnoughPages == MaxPages * PageSize >= Cardinality(Claims)

LEMMA NewestSize == \A S : Ne!Cardinality(S) = Cardinality(S)
  BY DEF Ne!Cardinality, Cardinality

\* The page of a place in a list.
LEMMA PageOfPlace ==
  ASSUME NEW a \in Nat, NEW n \in Nat, n > 0, NEW p \in Nat
  PROVE  a \div n = p <=> p * n <= a /\ a < (p + 1) * n
  <1> DEFINE q == a \div n
  <1>1. q \in Int /\ q * n <= a /\ a < (q + 1) * n OBVIOUS
  <1>2. q < p => (q + 1) * n <= p * n BY <1>1
  <1>3. p < q => (p + 1) * n <= q * n BY <1>1
  <1>4. q * n \in Int /\ (q + 1) * n \in Int /\ p * n \in Int /\ (p + 1) * n \in Int BY <1>1
  <1> HIDE DEF q
  <1>5. q = p <=> p * n <= a /\ a < (p + 1) * n
    <2>1. CASE q = p BY <1>1, <2>1
    <2>2. CASE q < p BY <1>1, <1>2, <1>4, <2>2
    <2>3. CASE p < q BY <1>1, <1>3, <1>4, <2>3
    <2> QED BY <1>1, <2>1, <2>2, <2>3
  <1> QED BY <1>5 DEF q

Readings ==
    [at : {"rest", "read", "write"}, list : {1, 2}, page : Nat, knew : [Claims -> Nat],
     found : [Claims -> Nat]]

NewestTypes ==
    /\ kind \in {"claims", "infractions"} /\ clock \in Nat
    /\ stamp \in [Claims -> Nat] /\ list \in [Claims -> {"opened", "closed"}]
    /\ known \in [Claims -> Nat] /\ runs \in [Ne!Readers -> Readings]

\* Stamps are given one after the other, and what is stored was one.
Stamped ==
    /\ \A c \in Claims : known[c] <= stamp[c] /\ stamp[c] <= clock
    /\ \A c, d \in Claims : stamp[c] = stamp[d] /\ stamp[c] # 0 => c = d
    /\ kind = "infractions" =>
         \A c \in Claims : list[c] = "opened" /\ (known[c] # 0 => known[c] = stamp[c])

\* d lies below c in one list.
Below(c, d) == stamp[c] > stamp[d] /\ stamp[d] # 0 /\ list[c] = list[d]

\* What a run has behind it: the lists before the one it reads, and of this the pages
\* before the one it reads next.
NameOf(x) == IF x.list = 1 THEN "opened" ELSE "closed"
Passed(x, d) ==
    \/ x.at = "write" \/ (x.list = 2 /\ list[d] = "opened")
    \/ x.at = "read" /\ list[d] = NameOf(x) /\ Ne!Above(d) < x.page * PageSize

\* There too what lies below a claim that will be stored as it is will be.
Has(x, c) == x.found[c] = stamp[c] \/ known[c] = stamp[c]
NoGapBehind(x) ==
    \A c, d \in Claims : Below(c, d) /\ Passed(x, d) /\ Has(x, c) => Has(x, d)
Carried(x) ==
    x.at # "rest" =>
        /\ x.knew = known
        /\ \A c \in Claims : x.found[c] # 0 =>
              /\ known[c] < x.found[c] /\ x.found[c] <= stamp[c]
              /\ kind = "infractions" => x.found[c] = stamp[c]
        /\ kind = "infractions" => x.list = 1
        /\ NoGapBehind(x)

OneRun == \A r, o \in Ne!Readers : runs[r].at # "rest" /\ runs[o].at # "rest" => r = o

Gapless == \A c, d \in Claims : Below(c, d) /\ known[c] = stamp[c] => known[d] = stamp[d]

NewestParts ==
    /\ NewestTypes /\ Stamped /\ Gapless /\ OneRun
    /\ \A r \in Ne!Readers : Carried(runs[r])
NewestInv == skewed \/ NewestParts

\* The claims above one in its list.
Higher(d) == {e \in Ne!Listed(list[d]) : stamp[e] > stamp[d]}

LEMMA HigherSize ==
  ASSUME NewestTypes, NEW d \in Claims
  PROVE  /\ IsFiniteSet(Higher(d)) /\ Ne!Above(d) = Cardinality(Higher(d)) /\ Ne!Above(d) \in Nat
         /\ Higher(d) \subseteq Claims
  <1>1. Higher(d) \subseteq Claims BY DEF Higher, Ne!Listed
  <1>2. IsFiniteSet(Higher(d)) BY <1>1, ImportsAssumption, FS_Subset
  <1>3. Ne!Above(d) = Cardinality(Higher(d)) BY NewestSize DEF Ne!Above, Higher
  <1> QED BY <1>1, <1>2, <1>3, FS_CardinalityType

\* What lies below has more above it.
LEMMA HigherBelow ==
  ASSUME NewestTypes, NEW c \in Claims, NEW d \in Claims, Below(c, d)
  PROVE  Ne!Above(c) < Ne!Above(d)
  <1>0. stamp[c] \in Nat /\ stamp[d] \in Nat BY DEF NewestTypes
  <1>1. Higher(c) \cup {c} \subseteq Higher(d)
    <2>1. ASSUME NEW e \in Higher(c) PROVE e \in Higher(d)
      <3>1. stamp[e] \in Nat BY DEF NewestTypes, Higher, Ne!Listed
      <3> QED BY <1>0, <3>1 DEF Below, Higher
    <2>2. c \in Higher(d) BY <1>0 DEF Below, Higher, Ne!Listed
    <2> QED BY <2>1, <2>2
  <1>2. c \notin Higher(c) BY <1>0 DEF Higher
  <1>3. IsFiniteSet(Higher(c)) /\ IsFiniteSet(Higher(d)) BY HigherSize
  <1>4. Cardinality(Higher(c) \cup {c}) = Cardinality(Higher(c)) + 1
    BY <1>2, <1>3, FS_AddElement
  <1>5. Cardinality(Higher(c) \cup {c}) <= Cardinality(Higher(d)) BY <1>1, <1>3, FS_Subset
  <1>6. /\ Ne!Above(c) = Cardinality(Higher(c)) /\ Ne!Above(d) = Cardinality(Higher(d))
        /\ Ne!Above(c) \in Nat /\ Ne!Above(d) \in Nat
    BY HigherSize
  <1> QED BY <1>4, <1>5, <1>6

\* Every place above a claim is taken.
LEMMA PlaceTaken ==
  ASSUME NewestTypes, Stamped, NEW d \in Claims, stamp[d] # 0, NEW k \in Nat, k <= Ne!Above(d)
  PROVE  \E e \in Claims : list[e] = list[d] /\ stamp[e] >= stamp[d] /\ Ne!Above(e) = k
  <1> DEFINE At(e) == list[e] = list[d] /\ stamp[e] >= stamp[d] /\ Ne!Above(e) >= k
             T == {Ne!Above(e) : e \in {f \in Claims : At(f)}}
  <1>0. \A e \in Claims : stamp[e] \in Nat /\ Ne!Above(e) \in Nat BY HigherSize DEF NewestTypes
  <1>1. At(d) BY <1>0
  <1>2. T \in SUBSET Nat /\ T # {} BY <1>0, <1>1
  <1>3. PICK n \in T : \A m \in T : n <= m
    <2> HIDE DEF T
    <2> QED BY <1>2, Smallest
  <1>4. PICK e \in Claims : At(e) /\ n = Ne!Above(e) BY <1>3
  <1>5. n \in Nat /\ n >= k BY <1>0, <1>4
  <1>6. n = k
    <2> SUFFICES ASSUME n > k PROVE FALSE BY <1>5
    <2>1. Higher(e) # {}
      <3>1. Cardinality(Higher(e)) = n BY <1>4, HigherSize
      <3>2. Cardinality({}) = 0 BY FS_EmptySet
      <3> QED BY <1>5, <3>1, <3>2
    <2> DEFINE U == {stamp[f] : f \in Higher(e)}
    <2>2. Higher(e) \subseteq Claims BY HigherSize
    <2>3. U \in SUBSET Nat /\ U # {} BY <1>0, <2>1, <2>2
    <2>4. PICK s \in U : \A t \in U : s <= t
      <3> HIDE DEF U
      <3> QED BY <2>3, Smallest
    <2>5. PICK f \in Higher(e) : s = stamp[f] BY <2>4
    <2>6. f \in Claims /\ stamp[f] > stamp[e] /\ list[f] = list[e] /\ stamp[f] # 0
      BY <2>5 DEF Higher, Ne!Listed
    <2>7. Higher(e) \subseteq Higher(f) \cup {f}
      <3>1. ASSUME NEW g \in Higher(e), g # f PROVE g \in Higher(f)
        <4>1. g \in Ne!Listed(list[e]) /\ g \in Claims BY DEF Higher, Ne!Listed
        <4>2. stamp[f] <= stamp[g] BY <2>4, <2>5
        <4>3. stamp[f] # stamp[g] BY <2>6, <3>1, <4>1 DEF Stamped
        <4>4. stamp[g] > stamp[f] BY <1>0, <2>6, <4>1, <4>2, <4>3
        <4> QED BY <2>6, <4>1, <4>4 DEF Higher
      <3> QED BY <3>1
    <2>8. IsFiniteSet(Higher(f)) /\ IsFiniteSet(Higher(f) \cup {f})
          /\ Cardinality(Higher(f) \cup {f}) = Cardinality(Higher(f)) + 1
      <3>1. f \notin Higher(f) BY <1>0, <2>6 DEF Higher
      <3>2. IsFiniteSet(Higher(f)) BY <2>6, HigherSize
      <3> QED BY <3>1, <3>2, FS_AddElement
    <2>9. Cardinality(Higher(e)) <= Cardinality(Higher(f)) + 1 BY <2>7, <2>8, FS_Subset
    <2>10. Ne!Above(f) = Cardinality(Higher(f)) /\ Ne!Above(e) = Cardinality(Higher(e))
      BY <2>6, HigherSize
    <2>11. Ne!Above(f) >= n - 1 BY <1>0, <1>4, <2>6, <2>9, <2>10
    <2>12. Ne!Above(f) < n
      <3>1. Below(f, e)
        <4>1. stamp[e] # 0 BY <1>0, <1>4
        <4> QED BY <2>6, <4>1 DEF Below
      <3> QED BY <1>4, <2>6, <3>1, HigherBelow
    <2>13. At(f) BY <1>0, <1>4, <1>5, <2>6, <2>11
    <2>14. n <= Ne!Above(f) BY <1>3, <2>6, <2>13
    <2> QED BY <1>0, <1>5, <2>6, <2>12, <2>14
  <1> QED BY <1>4, <1>6

LEMMA HigherSizeNext ==
  ASSUME NewestTypes', NEW d \in Claims
  PROVE  /\ IsFiniteSet(Higher(d)') /\ Ne!Above(d)' = Cardinality(Higher(d)')
         /\ Ne!Above(d)' \in Nat
  <1>1. Higher(d)' \subseteq Claims BY DEF Higher, Ne!Listed
  <1>2. IsFiniteSet(Higher(d)') BY <1>1, ImportsAssumption, FS_Subset
  <1>3. Ne!Above(d)' = Cardinality(Higher(d)') BY NewestSize DEF Ne!Above, Higher
  <1> QED BY <1>1, <1>2, <1>3, FS_CardinalityType

\* The lists by name.
LEMMA ListNames ==
  ASSUME NewestTypes, NEW x \in Readings, kind = "infractions" => x.list = 1
  PROVE  /\ Ne!Lists[x.list] = NameOf(x)
         /\ x.list < Ne!Cardinality(DOMAIN Ne!Lists) <=> kind = "claims" /\ x.list = 1
  <1>1. x.list \in {1, 2} BY DEF Readings
  <1>2. CASE kind = "claims"
    <2>1. Ne!Lists = <<"opened", "closed">> BY <1>2 DEF Ne!Lists
    <2>2. DOMAIN Ne!Lists = 1..2 BY <2>1
    <2>3. Cardinality(1..2) = 2
      <3>1. 1..2 = {1} \cup {2} OBVIOUS
      <3>2. IsFiniteSet({1}) /\ Cardinality({1}) = 1 BY FS_Singleton
      <3>3. Cardinality({1} \cup {2}) = IF 2 \in {1} THEN Cardinality({1}) ELSE Cardinality({1}) + 1
        BY <3>2, FS_AddElement
      <3> QED BY <3>1, <3>2, <3>3
    <2> QED BY <1>1, <1>2, <2>1, <2>2, <2>3, NewestSize DEF NameOf
  <1>3. CASE kind = "infractions"
    <2>1. Ne!Lists = <<"opened">> BY <1>3 DEF Ne!Lists
    <2>2. DOMAIN Ne!Lists = 1..1 BY <2>1
    <2>3. Cardinality(1..1) = 1
      <3>1. 1..1 = {1} OBVIOUS
      <3>2. Cardinality({1}) = 1 BY FS_Singleton
      <3> QED BY <3>1, <3>2
    <2> QED BY <1>1, <1>3, <2>1, <2>2, <2>3, NewestSize DEF NameOf
  <1> QED BY <1>2, <1>3 DEF NewestTypes

LEMMA NewestInit == Ne!Init => NewestInv
  <1> SUFFICES ASSUME Ne!Init PROVE NewestParts
    BY DEF NewestInv
  <1>1. /\ stamp = [c \in Claims |-> 0] /\ known = [c \in Claims |-> 0]
        /\ list = [c \in Claims |-> "opened"] /\ clock = 0
        /\ kind \in {"claims", "infractions"}
    BY DEF Ne!Init, Ne!Unread
  <1>2. Ne!Rest \in Readings /\ Ne!Rest.at = "rest" BY DEF Ne!Rest, Ne!Unread, Readings
  <1>3. runs = [r \in Ne!Readers |-> Ne!Rest] BY DEF Ne!Init
  <1>4. NewestTypes BY <1>1, <1>2, <1>3 DEF NewestTypes
  <1>5. Stamped /\ Gapless BY <1>1 DEF Stamped, Gapless, Below
  <1>6. \A r \in Ne!Readers : runs[r].at = "rest" BY <1>2, <1>3
  <1>7. OneRun /\ \A r \in Ne!Readers : Carried(runs[r]) BY <1>6 DEF OneRun, Carried
  <1> QED BY <1>4, <1>5, <1>7 DEF NewestParts

\* A claim is stamped, or stamped and moved: it comes to lie above all others of the list
\* it is in, and is not stored as it is.
Renewed(e) ==
    /\ clock' = clock + 1 /\ stamp' = [stamp EXCEPT ![e] = clock + 1]
    /\ list' \in [Claims -> {"opened", "closed"}]
    /\ \A d \in Claims : d # e => list'[d] = list[d]
    /\ list'[e] # list[e] => ~Ne!BeingRead(list[e])
    /\ kind = "infractions" => list' = list /\ stamp[e] = 0
    /\ UNCHANGED <<kind, known, runs>>

LEMMA RenewedStays ==
  ASSUME NewestParts, NEW e \in Claims, Renewed(e)
  PROVE  NewestParts'
  <1>0. /\ clock \in Nat /\ stamp \in [Claims -> Nat] /\ known \in [Claims -> Nat]
        /\ stamp' \in [Claims -> Nat] /\ runs \in [Ne!Readers -> Readings]
    BY DEF NewestParts, NewestTypes, Renewed
  <1>1. NewestTypes' BY <1>0 DEF NewestParts, NewestTypes, Renewed
  <1>2. /\ \A c \in Claims : stamp'[c] = IF c = e THEN clock + 1 ELSE stamp[c]
        /\ known' = known /\ runs' = runs /\ kind' = kind /\ clock' = clock + 1
    BY <1>0 DEF Renewed
  <1>3. \A c \in Claims : known[c] <= stamp[c] /\ stamp[c] <= clock
    BY DEF NewestParts, Stamped
  <1>4. Stamped'
    <2>1. \A c \in Claims : known'[c] <= stamp'[c] /\ stamp'[c] <= clock'
      BY <1>0, <1>2, <1>3
    <2>2. ASSUME NEW c \in Claims, NEW d \in Claims, stamp'[c] = stamp'[d], stamp'[c] # 0
          PROVE  c = d
      BY <1>0, <1>2, <1>3, <2>2 DEF NewestParts, Stamped
    <2>3. ASSUME kind' = "infractions", NEW c \in Claims
          PROVE  list'[c] = "opened" /\ (known'[c] # 0 => known'[c] = stamp'[c])
      <3>1. list[c] = "opened" /\ (known[c] # 0 => known[c] = stamp[c])
        BY <1>2, <2>3 DEF NewestParts, Stamped
      <3>2. list' = list /\ stamp[e] = 0 BY <1>2, <2>3 DEF Renewed
      <3> QED BY <1>0, <1>2, <1>3, <3>1, <3>2
    <2> QED BY <2>1, <2>2, <2>3 DEF Stamped
  <1>5. ASSUME NEW c \in Claims, NEW d \in Claims, Below(c, d)', c # e
        PROVE  Below(c, d) /\ d # e
    <2>1. stamp'[c] > stamp'[d] /\ stamp'[d] # 0 /\ list'[c] = list'[d] BY <1>5 DEF Below
    <2>2. d # e BY <1>0, <1>2, <1>3, <1>5, <2>1
    <2>3. list'[c] = list[c] /\ list'[d] = list[d] BY <1>5, <2>2 DEF Renewed
    <2> QED BY <1>2, <1>5, <2>1, <2>2, <2>3 DEF Below
  <1>6. Gapless'
    <2> SUFFICES ASSUME NEW c \in Claims, NEW d \in Claims, Below(c, d)', known'[c] = stamp'[c]
                 PROVE  known'[d] = stamp'[d]
      BY DEF Gapless
    <2>1. c # e BY <1>0, <1>2, <1>3
    <2> QED BY <1>2, <1>5, <2>1 DEF NewestParts, Gapless
  <1>7. OneRun' BY <1>2 DEF NewestParts, OneRun
  <1>8. ASSUME NEW r \in Ne!Readers, runs[r].at # "rest" PROVE Carried(runs[r])'
    <2> DEFINE x == runs[r]
    <2>0. x \in Readings /\ Carried(x) BY <1>0 DEF NewestParts
    <2>1. x.found \in [Claims -> Nat] /\ x.page \in Nat BY <2>0 DEF Readings
    <2>2. x.knew = known /\ NoGapBehind(x) /\ (kind = "infractions" => x.list = 1)
      BY <1>8, <2>0 DEF Carried
    <2>3. \A c \in Claims : x.found[c] # 0 =>
             /\ known[c] < x.found[c] /\ x.found[c] <= stamp[c]
             /\ kind = "infractions" => x.found[c] = stamp[c]
      BY <1>8, <2>0 DEF Carried
    <2>4. \A c \in Claims : x.found[c] # 0 =>
             /\ known'[c] < x.found[c] /\ x.found[c] <= stamp'[c]
             /\ kind' = "infractions" => x.found[c] = stamp'[c]
      <3> SUFFICES ASSUME NEW c \in Claims, x.found[c] # 0
                   PROVE  /\ known'[c] < x.found[c] /\ x.found[c] <= stamp'[c]
                          /\ kind' = "infractions" => x.found[c] = stamp'[c]
        OBVIOUS
      <3>1. /\ known[c] < x.found[c] /\ x.found[c] <= stamp[c]
            /\ kind = "infractions" => x.found[c] = stamp[c]
        BY <2>3
      <3>2. CASE c # e BY <1>2, <3>1, <3>2
      <3>3. CASE c = e
        <4>1. x.found[c] \in Nat /\ stamp[c] \in Nat /\ known[c] \in Nat BY <1>0, <2>1
        <4>2. kind # "infractions" BY <3>1, <3>3, <4>1 DEF Renewed
        <4> QED BY <1>0, <1>2, <1>3, <3>1, <3>3, <4>1, <4>2
      <3> QED BY <3>2, <3>3
    <2>5. ASSUME NEW c \in Claims, NEW d \in Claims, Below(c, d)', Passed(x, d)', Has(x, c)'
          PROVE  Has(x, d)'
      <3>1. x.found[c] = stamp'[c] \/ known[c] = stamp'[c] BY <1>2, <2>5 DEF Has
      <3>2. c # e
        <4> SUFFICES ASSUME c = e PROVE FALSE OBVIOUS
        <4>1. stamp'[c] = clock + 1 /\ known[c] <= clock BY <1>0, <1>2, <1>3
        <4>2. x.found[c] <= clock
          <5>1. x.found[c] \in Nat /\ stamp[c] \in Nat BY <1>0, <2>1
          <5> QED BY <1>0, <1>3, <2>3, <5>1
        <4>3. x.found[c] \in Nat /\ known[c] \in Nat BY <1>0, <2>1
        <4> QED BY <1>0, <3>1, <4>1, <4>2, <4>3
      <3>3. Below(c, d) /\ d # e BY <1>5, <2>5, <3>2
      <3>4. Has(x, c) BY <1>2, <3>1, <3>2 DEF Has
      <3>5. Passed(x, d)
        <4>1. list'[d] = list[d] BY <3>3 DEF Renewed
        <4>2. CASE x.at = "write" \/ (x.list = 2 /\ list'[d] = "opened")
          BY <4>1, <4>2 DEF Passed
        <4>3. CASE x.at = "read" /\ list'[d] = NameOf(x) /\ Ne!Above(d)' < x.page * PageSize
          <5>1. Ne!Above(d)' \in Nat /\ Ne!Above(d)' = Cardinality(Higher(d))'
                /\ IsFiniteSet(Higher(d)')
            BY <1>1, HigherSizeNext
          <5>2. x.page > 0 BY <2>1, <4>3, <5>1, ImportsAssumption
          <5>3. list[d] = Ne!Lists[x.list]
            BY <2>0, <2>2, <4>1, <4>3, ListNames DEF NewestParts, NewestTypes
          <5>4. Ne!BeingRead(list[d]) BY <4>3, <5>2, <5>3 DEF Ne!BeingRead
          <5>5. Higher(d) \subseteq Higher(d)'
            <6> SUFFICES ASSUME NEW f \in Higher(d) PROVE f \in Higher(d)'
              OBVIOUS
            <6>1. f \in Claims /\ stamp[f] # 0 /\ list[f] = list[d] /\ stamp[f] > stamp[d]
              BY DEF Higher, Ne!Listed
            <6>2. list'[f] = list'[d]
              BY <4>1, <5>4, <6>1 DEF Renewed
            <6>3. stamp'[f] # 0 /\ stamp'[f] > stamp'[d] BY <1>0, <1>2, <1>3, <3>3, <6>1
            <6> QED BY <6>1, <6>2, <6>3 DEF Higher, Ne!Listed
          <5>6. Cardinality(Higher(d)) <= Cardinality(Higher(d)') BY <5>1, <5>5, FS_Subset
          <5>7. Ne!Above(d) = Cardinality(Higher(d)) /\ Ne!Above(d) \in Nat
            BY HigherSize DEF NewestParts
          <5>8. x.page * PageSize \in Nat BY <2>1, ImportsAssumption
          <5>9. Ne!Above(d) < x.page * PageSize BY <4>3, <5>1, <5>6, <5>7, <5>8
          <5> QED BY <4>1, <4>3, <5>9 DEF Passed
        <4>4. runs'[r] = runs[r] BY <1>2
        <4> QED BY <2>5, <4>2, <4>3, <4>4 DEF Passed, NameOf
      <3>6. Has(x, d) BY <2>2, <3>3, <3>4, <3>5 DEF NoGapBehind
      <3> QED BY <1>2, <3>3, <3>6 DEF Has
    <2>6. x' = x BY <1>2
    <2> HIDE DEF x
    <2>7. NoGapBehind(x)' BY <2>5, <2>6 DEF NoGapBehind
    <2> QED BY <1>2, <2>2, <2>4, <2>6, <2>7 DEF Carried, x
  <1>9. \A r \in Ne!Readers : Carried(runs[r])' BY <1>2, <1>8 DEF Carried
  <1> QED BY <1>1, <1>4, <1>6, <1>7, <1>9 DEF NewestParts

\* What a run carries does not depend on the runs.
LEMMA CarriedStill ==
  ASSUME NEW x, Carried(x), UNCHANGED <<kind, stamp, list, known>>
  PROVE  Carried(x)'
  <1>1. \A d : Ne!Above(d)' = Ne!Above(d) BY DEF Ne!Above, Ne!Listed
  <1>2. \A d : Passed(x, d)' <=> Passed(x, d) BY <1>1 DEF Passed, NameOf
  <1>3. \A c, d : Below(c, d)' <=> Below(c, d) BY DEF Below
  <1>4. \A c : Has(x, c)' <=> Has(x, c) BY DEF Has
  <1>5. NoGapBehind(x)' <=> NoGapBehind(x) BY <1>2, <1>3, <1>4 DEF NoGapBehind
  <1> QED BY <1>5 DEF Carried

\* A run goes on, or starts alone.
LEMMA ReaderGoesOn ==
  ASSUME NewestParts, NEW r \in Ne!Readers, NEW y \in Readings, Carried(y),
         runs' = [runs EXCEPT ![r] = y],
         y.at = "rest" \/ runs[r].at # "rest" \/ \A o \in Ne!Readers : runs[o].at = "rest",
         UNCHANGED <<kind, clock, stamp, list, known>>
  PROVE  NewestParts'
  <1>1. runs \in [Ne!Readers -> Readings] BY DEF NewestParts, NewestTypes
  <1>2. \A o \in Ne!Readers : runs'[o] = IF o = r THEN y ELSE runs[o] BY <1>1
  <1>3. NewestTypes' BY <1>1 DEF NewestParts, NewestTypes
  <1>4. Stamped' /\ Gapless' BY DEF NewestParts, Stamped, Gapless, Below
  <1>5. OneRun' BY <1>2 DEF NewestParts, OneRun
  <1>6. ASSUME NEW o \in Ne!Readers PROVE Carried(runs[o])'
    <2> DEFINE z == runs[o]
    <2>1. Carried(z) BY DEF NewestParts
    <2> HIDE DEF z
    <2>2. \A x : Carried(x) => Carried(x)' BY CarriedStill
    <2>3. CASE o = r
      <3>1. runs'[o] = y BY <1>2, <2>3
      <3>2. Carried(y)' BY CarriedStill
      <3> QED BY <3>1, <3>2 DEF Carried
    <2>4. CASE o # r
      <3>1. runs'[o] = z BY <1>2, <2>4 DEF z
      <3> QED BY <2>1, <2>2, <3>1
    <2> QED BY <2>3, <2>4
  <1> QED BY <1>3, <1>4, <1>5, <1>6 DEF NewestParts

\* What a run has found once it read a page.
FoundOn(x, page) ==
    [x EXCEPT !.found = [c \in Claims |-> IF c \in {d \in page : Ne!News(x, d)} THEN stamp[c]
                                          ELSE x.found[c]]]

LEMMA PageFound ==
  ASSUME NewestParts, NEW x \in Readings, x.at = "read", Carried(x)
  PROVE  LET page == Ne!Page(NameOf(x), x.page)
             y == FoundOn(x, page)
         IN  /\ y \in Readings /\ y.at = "read" /\ y.list = x.list /\ y.page = x.page
             /\ y.knew = known
             /\ \A c \in Claims : y.found[c] # 0 =>
                   /\ known[c] < y.found[c] /\ y.found[c] <= stamp[c]
                   /\ kind = "infractions" => y.found[c] = stamp[c]
             /\ \A c \in page : Has(y, c)
             /\ \A c \in page : ~Ne!News(x, c) => known[c] = stamp[c]
             /\ \A c \in Claims : Has(x, c) => Has(y, c)
             /\ \A c \in Claims : Has(y, c) => Has(x, c) \/ c \in page
  <1> DEFINE page == Ne!Page(NameOf(x), x.page)
             f == [c \in Claims |-> IF c \in {d \in page : Ne!News(x, d)} THEN stamp[c]
                                    ELSE x.found[c]]
             y == [x EXCEPT !.found = f]
  <1>1. page \subseteq Claims /\ \A c \in page : stamp[c] # 0
    BY DEF Ne!Page, Ne!Listed
  <1>2. x.knew = known /\ x.found \in [Claims -> Nat] BY DEF Carried, Readings
  <1>3. \A c \in Claims : stamp[c] \in Nat /\ known[c] \in Nat /\ known[c] <= stamp[c]
    BY DEF NewestParts, NewestTypes, Stamped
  <1>4. \A c \in Claims : x.found[c] # 0 =>
          /\ known[c] < x.found[c] /\ x.found[c] <= stamp[c]
          /\ kind = "infractions" => x.found[c] = stamp[c]
    BY DEF Carried
  <1>5. kind \in {"claims", "infractions"} /\ (kind = "infractions" =>
          \A c \in Claims : known[c] # 0 => known[c] = stamp[c])
    BY DEF NewestParts, NewestTypes, Stamped
  <1>6. \A c \in page : ~Ne!News(x, c) => known[c] = stamp[c]
    BY <1>1, <1>2, <1>5 DEF Ne!News
  <1>7. \A c \in page : Ne!News(x, c) => known[c] < stamp[c]
    <2> SUFFICES ASSUME NEW c \in page, Ne!News(x, c) PROVE known[c] < stamp[c]
      OBVIOUS
    <2>1. known[c] # stamp[c] BY <1>1, <1>2, <1>5 DEF Ne!News
    <2> QED BY <1>1, <1>3, <2>1
  <1>8. f \in [Claims -> Nat] BY <1>2, <1>3
  <1>9. /\ y \in Readings /\ y.at = "read" /\ y.list = x.list /\ y.page = x.page
        /\ y.knew = known /\ y.found = f
    <2> HIDE DEF f
    <2> QED BY <1>2, <1>8 DEF Readings
  <1>10. \A c \in Claims : f[c] = x.found[c] \/ (f[c] = stamp[c] /\ c \in page /\ Ne!News(x, c))
    OBVIOUS
  <1>11. \A c \in page : Ne!News(x, c) => f[c] = stamp[c] BY <1>1
  <1>12. y = FoundOn(x, page) BY DEF FoundOn
  <1> HIDE DEF f, page, y
  <1>13. \A c \in Claims : y.found[c] # 0 =>
           /\ known[c] < y.found[c] /\ y.found[c] <= stamp[c]
           /\ kind = "infractions" => y.found[c] = stamp[c]
    <2> SUFFICES ASSUME NEW c \in Claims, f[c] # 0
                 PROVE  /\ known[c] < f[c] /\ f[c] <= stamp[c]
                        /\ kind = "infractions" => f[c] = stamp[c]
      BY <1>9
    <2>1. CASE f[c] = x.found[c] BY <1>4, <2>1
    <2>2. CASE f[c] = stamp[c] /\ c \in page /\ Ne!News(x, c) BY <1>3, <1>7, <2>2
    <2> QED BY <1>10, <2>1, <2>2
  <1>14. \A c \in page : Has(y, c) BY <1>6, <1>9, <1>11 DEF Has
  <1>15. \A c \in Claims : Has(y, c) => Has(x, c) \/ c \in page BY <1>9, <1>10 DEF Has
  <1>16. \A c \in Claims : Has(x, c) => Has(y, c) BY <1>9, <1>10, <1>14 DEF Has
  <1>17. /\ y \in Readings /\ y.at = "read" /\ y.list = x.list /\ y.page = x.page
         /\ y.knew = known
    BY <1>9
  <1> QED BY <1>6, <1>12, <1>13, <1>14, <1>15, <1>16, <1>17 DEF page

\* Of the list that is read, what lies below something that will be stored will be, up to
\* the end of the page; and where the run stops, to the end of the list.
LEMMA PageRead ==
  ASSUME EnoughPages, NewestParts, NEW x \in Readings, x.at = "read", Carried(x),
         NEW c \in Claims, NEW d \in Claims, Below(c, d), list[d] = NameOf(x),
         Has(FoundOn(x, Ne!Page(NameOf(x), x.page)), c)
  PROVE  /\ Ne!Above(d) < (x.page + 1) * PageSize
              => Has(FoundOn(x, Ne!Page(NameOf(x), x.page)), d)
         /\ LET page == Ne!Page(NameOf(x), x.page) IN
            Ne!LastPage(x, NameOf(x), page, {e \in page : Ne!News(x, e)})
              => Has(FoundOn(x, page), d)
  <1> DEFINE l == NameOf(x)
             page == Ne!Page(l, x.page)
             y == FoundOn(x, page)
             p == x.page
  <1>0. /\ NewestTypes /\ Stamped /\ p \in Nat /\ PageSize \in Nat /\ PageSize > 0
        /\ stamp[c] \in Nat /\ stamp[d] \in Nat
    BY ImportsAssumption DEF NewestParts, NewestTypes, Readings
  <1>1. /\ Ne!Above(c) \in Nat /\ Ne!Above(d) \in Nat /\ Ne!Above(c) < Ne!Above(d)
    BY <1>0, HigherSize, HigherBelow
  <1>2. \A e \in Claims : stamp[e] # 0 /\ list[e] = l =>
          (e \in page <=> p * PageSize <= Ne!Above(e) /\ Ne!Above(e) < (p + 1) * PageSize)
    <2> SUFFICES ASSUME NEW e \in Claims, stamp[e] # 0, list[e] = l
                 PROVE  e \in page <=> p * PageSize <= Ne!Above(e)
                                       /\ Ne!Above(e) < (p + 1) * PageSize
      OBVIOUS
    <2>1. e \in page <=> Ne!Above(e) \div PageSize = p BY DEF Ne!Page, Ne!Listed
    <2>2. Ne!Above(e) \in Nat BY <1>0, HigherSize
    <2> HIDE DEF page, l, p
    <2>3. Ne!Above(e) \div PageSize = p <=> p * PageSize <= Ne!Above(e)
                                            /\ Ne!Above(e) < (p + 1) * PageSize
      BY <1>0, <2>2, PageOfPlace
    <2> QED BY <2>1, <2>3
  <1>3. /\ \A e \in page : Has(y, e) /\ e \in Claims
        /\ \A e \in page : ~Ne!News(x, e) => known[e] = stamp[e]
        /\ \A e \in Claims : Has(x, e) => Has(y, e)
        /\ \A e \in Claims : Has(y, e) => Has(x, e) \/ e \in page
    BY PageFound DEF Ne!Page, Ne!Listed
  <1>4. Has(y, c) /\ list[c] = l /\ stamp[d] # 0 /\ stamp[c] # 0 /\ list[d] = l /\ stamp[d] < stamp[c]
    BY <1>0 DEF Below
  <1>5. NoGapBehind(x) /\ (Ne!Above(d) < p * PageSize => Passed(x, d))
    BY <1>4 DEF Carried, Passed
  <1>6. p * PageSize \in Nat /\ (p + 1) * PageSize \in Nat /\ (p + 1) * PageSize = p * PageSize + PageSize
    BY <1>0
  <1> HIDE DEF l, page, y, p
  <1>7. ASSUME Ne!Above(d) < (p + 1) * PageSize PROVE Has(y, d)
    <2>1. CASE Ne!Above(d) < p * PageSize
      <3>1. c \notin page BY <1>1, <1>2, <1>4, <1>6, <2>1
      <3>2. Has(x, c) BY <1>3, <1>4, <3>1
      <3>3. Has(x, d) BY <1>5, <2>1, <3>2 DEF NoGapBehind
      <3> QED BY <1>3, <3>3
    <2>2. CASE Ne!Above(d) >= p * PageSize
      <3>1. d \in page BY <1>2, <1>4, <1>7, <2>2
      <3> QED BY <1>3, <3>1
    <2> QED BY <1>1, <1>6, <2>1, <2>2
  <1>8. ASSUME Ne!LastPage(x, l, page, {e \in page : Ne!News(x, e)}) PROVE Has(y, d)
    <2> SUFFICES ASSUME Ne!Above(d) >= (p + 1) * PageSize PROVE Has(y, d)
      BY <1>1, <1>6, <1>7
    <2>1. PICK e \in Claims : list[e] = list[d] /\ stamp[e] >= stamp[d] /\ Ne!Above(e) = p * PageSize
      <3>1. p * PageSize <= Ne!Above(d) BY <1>0, <1>1, <1>6
      <3> QED BY <1>0, <1>4, <1>6, <3>1, PlaceTaken
    <2>2. stamp[e] # 0 /\ e # d /\ stamp[e] > stamp[d]
      <3>1. stamp[e] \in Nat BY <1>0 DEF NewestTypes
      <3>2. e # d BY <1>0, <1>6, <2>1
      <3>3. stamp[e] # stamp[d] BY <1>0, <1>4, <3>2 DEF Stamped
      <3> QED BY <1>0, <1>4, <2>1, <3>1, <3>2, <3>3
    <2>3. e \in page
      <3>1. list[e] = l BY <1>4, <2>1
      <3>2. p * PageSize <= Ne!Above(e) /\ Ne!Above(e) < (p + 1) * PageSize BY <1>0, <1>6, <2>1
      <3> QED BY <1>2, <2>2, <3>1, <3>2
    <2>4. Ne!Above(d) < Cardinality(Ne!Listed(l)) /\ Cardinality(Ne!Listed(l)) <= Cardinality(Claims)
          /\ Cardinality(Ne!Listed(l)) \in Nat /\ Cardinality(Claims) \in Nat
      <3>1. Higher(d) \subseteq Ne!Listed(l) \ {d} BY <1>0, <1>4 DEF Higher
      <3>2. Ne!Listed(l) \subseteq Claims /\ d \in Ne!Listed(l) BY <1>4 DEF Ne!Listed
      <3>3. IsFiniteSet(Ne!Listed(l)) /\ Cardinality(Ne!Listed(l)) <= Cardinality(Claims)
        BY <3>2, ImportsAssumption, FS_Subset
      <3>4. /\ IsFiniteSet(Ne!Listed(l) \ {d})
            /\ Cardinality(Ne!Listed(l) \ {d}) = Cardinality(Ne!Listed(l)) - 1
        BY <3>2, <3>3, FS_RemoveElement
      <3>5. Cardinality(Higher(d)) <= Cardinality(Ne!Listed(l) \ {d}) BY <3>1, <3>4, FS_Subset
      <3>6. Ne!Above(d) = Cardinality(Higher(d)) BY <1>0, HigherSize
      <3>7. Cardinality(Ne!Listed(l)) \in Nat /\ Cardinality(Claims) \in Nat
        BY <3>3, ImportsAssumption, FS_CardinalityType
      <3> QED BY <1>1, <3>3, <3>4, <3>5, <3>6, <3>7
    <2>5. CASE {f \in page : Ne!News(x, f)} = {}
      <3>1. ~Ne!News(x, e) BY <2>3, <2>5
      <3>2. known[e] = stamp[e] BY <1>3, <2>3, <3>1
      <3>3. Below(e, d) BY <1>4, <2>1, <2>2 DEF Below
      <3>4. known[d] = stamp[d] BY <3>2, <3>3 DEF NewestParts, Gapless
      <3> QED BY <3>4 DEF Has
    <2>6. CASE (p + 1) * PageSize >= Cardinality(Ne!Listed(l))
      BY <1>1, <1>6, <2>4, <2>6
    <2>7. CASE p + 1 = MaxPages
      <3>1. (p + 1) * PageSize >= Cardinality(Claims) BY <2>7 DEF EnoughPages
      <3> QED BY <1>1, <1>6, <2>4, <3>1
    <2> QED BY <1>8, <2>3, <2>5, <2>6, <2>7, NewestSize DEF Ne!LastPage, p
  <1> QED BY <1>7, <1>8 DEF l, page, y, p

LEMMA ReadStays ==
  ASSUME EnoughPages, NewestParts, NEW r \in Ne!Readers, Ne!ReadPage(r)
  PROVE  NewestParts'
  <1> DEFINE x == runs[r]
             l == NameOf(x)
             page == Ne!Page(l, x.page)
             news == {c \in page : Ne!News(x, c)}
             y == FoundOn(x, page)
             last == Ne!LastPage(x, l, page, news)
  <1>1. x \in Readings /\ x.at = "read" /\ Carried(x)
    BY DEF NewestParts, NewestTypes, Ne!ReadPage
  <1>2. runs' = [runs EXCEPT ![r] = Ne!Read1(x)] /\ UNCHANGED <<kind, clock, stamp, list, known>>
    BY DEF Ne!ReadPage
  <1>3. kind = "infractions" => x.list = 1 BY <1>1 DEF Carried
  <1>4. Ne!Lists[x.list] = l /\ (x.list < Ne!Cardinality(DOMAIN Ne!Lists) <=> kind = "claims" /\ x.list = 1)
    BY <1>1, <1>3, ListNames DEF NewestParts
  <1>5. Ne!Read1(x) =
          IF ~last THEN [y EXCEPT !.page = y.page + 1]
          ELSE IF kind = "claims" /\ x.list = 1 THEN [y EXCEPT !.page = 0, !.list = y.list + 1]
          ELSE [y EXCEPT !.at = "write"]
    BY <1>4 DEF Ne!Read1, FoundOn
  <1>6. /\ y \in Readings /\ y.at = "read" /\ y.list = x.list /\ y.page = x.page /\ y.knew = known
        /\ \A c \in Claims : y.found[c] # 0 =>
              /\ known[c] < y.found[c] /\ y.found[c] <= stamp[c]
              /\ kind = "infractions" => y.found[c] = stamp[c]
        /\ \A c \in Claims : Has(x, c) => Has(y, c)
        /\ \A c \in Claims : Has(y, c) => Has(x, c) \/ c \in page
    BY <1>1, PageFound
  <1>7. \A c, d \in Claims : Below(c, d) /\ list[d] = l /\ Has(y, c) =>
          /\ Ne!Above(d) < (x.page + 1) * PageSize => Has(y, d)
          /\ last => Has(y, d)
    BY <1>1, PageRead
  <1>8. \A c \in page : list[c] = l BY DEF Ne!Page, Ne!Listed
  <1>9. x.list \in {1, 2} /\ x.page \in Nat /\ l = (IF x.list = 1 THEN "opened" ELSE "closed")
    BY <1>1 DEF Readings, NameOf
  \* Of the list before, nothing changes.
  <1>10. ASSUME NEW c \in Claims, NEW d \in Claims, Below(c, d), list[d] # l, Has(y, c),
                x.list = 2 /\ list[d] = "opened"
         PROVE  Has(y, d)
    <2>1. c \notin page BY <1>8, <1>10 DEF Below
    <2>2. Has(x, c) BY <1>6, <1>10, <2>1
    <2>3. Passed(x, d) BY <1>10 DEF Passed
    <2>4. Has(x, d) BY <1>1, <1>10, <2>2, <2>3 DEF Carried, NoGapBehind
    <2> QED BY <1>6, <2>4
  <1>11. \A d \in Claims : list[d] \in {"opened", "closed"}
    BY DEF NewestParts, NewestTypes
  <1>12. kind = "infractions" => \A d \in Claims : list[d] = "opened"
    BY DEF NewestParts, Stamped
  <1>13. kind \in {"claims", "infractions"} BY DEF NewestParts, NewestTypes
  <1> HIDE DEF x, l, page, news, y, last
  <1>14. ASSUME NEW z \in Readings, z.knew = y.knew, z.found = y.found, z.list \in {1, 2},
                kind = "infractions" => z.list = 1,
                \A c, d \in Claims : Below(c, d) /\ Passed(z, d) /\ Has(y, c) => Has(y, d),
                runs' = [runs EXCEPT ![r] = z]
         PROVE  NewestParts'
    <2>1. NoGapBehind(z) BY <1>14 DEF NoGapBehind, Has
    <2>2. Carried(z) BY <1>6, <1>14, <2>1 DEF Carried
    <2>3. runs[r].at # "rest" BY <1>1 DEF x
    <2> QED BY <1>2, <1>14, <2>2, <2>3, ReaderGoesOn
  <1>15. CASE ~last
    <2> DEFINE z == [y EXCEPT !.page = y.page + 1]
    <2>1. /\ z \in Readings /\ z.at = "read" /\ z.list = y.list /\ z.page = y.page + 1
          /\ z.knew = y.knew /\ z.found = y.found
      BY <1>6 DEF Readings
    <2>2. runs' = [runs EXCEPT ![r] = z] BY <1>2, <1>5, <1>15
    <2> HIDE DEF z
    <2>3. ASSUME NEW c \in Claims, NEW d \in Claims, Below(c, d), Passed(z, d), Has(y, c)
          PROVE  Has(y, d)
      <3>1. CASE list[d] = l
        <4>1. Ne!Above(d) < (x.page + 1) * PageSize
          BY <1>6, <1>9, <2>1, <2>3, <3>1 DEF Passed, NameOf
        <4> QED BY <1>7, <2>3, <3>1, <4>1
      <3>2. CASE list[d] # l
        <4>1. x.list = 2 /\ list[d] = "opened"
          BY <1>6, <1>9, <2>1, <2>3, <3>2 DEF Passed, NameOf
        <4> QED BY <1>10, <2>3, <3>2, <4>1
      <3> QED BY <3>1, <3>2
    <2> QED BY <1>3, <1>6, <1>9, <1>14, <2>1, <2>2, <2>3
  <1>16. CASE last /\ kind = "claims" /\ x.list = 1
    <2> DEFINE z == [y EXCEPT !.page = 0, !.list = 2]
    <2>1. /\ z \in Readings /\ z.at = "read" /\ z.list = 2 /\ z.page = 0
          /\ z.knew = y.knew /\ z.found = y.found
      BY <1>6 DEF Readings
    <2>2. runs' = [runs EXCEPT ![r] = z]
      <3>1. y.list + 1 = 2 BY <1>6, <1>16
      <3>2. [y EXCEPT !.page = 0, !.list = y.list + 1] = z BY <3>1
      <3>3. Ne!Read1(x) = z BY <1>5, <1>16, <3>2
      <3> QED BY <1>2, <3>3
    <2> HIDE DEF z
    <2>3. ASSUME NEW c \in Claims, NEW d \in Claims, Below(c, d), Passed(z, d), Has(y, c)
          PROVE  Has(y, d)
      <3>1. Ne!Above(d) \in Nat BY HigherSize DEF NewestParts
      <3>2. 0 * PageSize = 0 BY ImportsAssumption
      <3>3. list[d] = l BY <1>9, <1>16, <2>1, <2>3, <3>1, <3>2 DEF Passed
      <3> QED BY <1>7, <1>16, <2>3, <3>3
    <2> QED BY <1>14, <1>16, <2>1, <2>2, <2>3
  <1>17. CASE last /\ ~(kind = "claims" /\ x.list = 1)
    <2> DEFINE z == [y EXCEPT !.at = "write"]
    <2>1. z \in Readings /\ z.list = x.list /\ z.knew = y.knew /\ z.found = y.found
      BY <1>6 DEF Readings
    <2>2. runs' = [runs EXCEPT ![r] = z] BY <1>2, <1>5, <1>17
    <2> HIDE DEF z
    <2>3. ASSUME NEW c \in Claims, NEW d \in Claims, Below(c, d), Passed(z, d), Has(y, c)
          PROVE  Has(y, d)
      <3>1. CASE list[d] = l BY <1>7, <1>17, <2>3, <3>1
      <3>2. CASE list[d] # l
        <4>1. x.list = 2 /\ list[d] = "opened" BY <1>3, <1>9, <1>11, <1>12, <1>13, <1>17, <3>2
        <4> QED BY <1>10, <2>3, <3>2, <4>1
      <3> QED BY <3>1, <3>2
    <2> QED BY <1>3, <1>9, <1>14, <2>1, <2>2, <2>3
  <1> QED BY <1>15, <1>16, <1>17

\* What was found is stored at once: with it the table has no gap.
LEMMA StoreStays ==
  ASSUME NewestParts, NEW r \in Ne!Readers, Ne!Store(r)
  PROVE  NewestParts'
  <1> DEFINE x == runs[r]
  <1>0. /\ runs \in [Ne!Readers -> Readings] /\ x \in Readings /\ Carried(x)
        /\ x.at = "write" /\ x.found \in [Claims -> Nat]
    BY DEF NewestParts, NewestTypes, Ne!Store, Readings
  <1>1. /\ UNCHANGED <<kind, clock, stamp, list>> /\ runs' = [runs EXCEPT ![r] = Ne!Rest]
        /\ known' = [c \in Claims |-> IF x.found[c] # 0 THEN x.found[c] ELSE known[c]]
    BY DEF Ne!Store, Ne!Merged
  <1>2. Ne!Rest \in Readings /\ Ne!Rest.at = "rest" BY DEF Ne!Rest, Ne!Unread, Readings
  <1>3. \A o \in Ne!Readers : runs'[o].at = "rest"
    <2>1. \A o \in Ne!Readers : o # r => runs[o].at = "rest" BY <1>0 DEF NewestParts, OneRun
    <2> QED BY <1>0, <1>1, <1>2, <2>1
  <1>4. \A c \in Claims : stamp[c] \in Nat /\ known[c] \in Nat
    BY DEF NewestParts, NewestTypes
  <1>5. /\ \A c \in Claims : x.found[c] # 0 =>
              /\ known[c] < x.found[c] /\ x.found[c] <= stamp[c]
              /\ kind = "infractions" => x.found[c] = stamp[c]
        /\ NoGapBehind(x)
    BY <1>0 DEF Carried
  <1> HIDE DEF x
  <1>6. NewestTypes'
    <2>1. known' \in [Claims -> Nat] BY <1>0, <1>1, <1>4
    <2>2. runs' \in [Ne!Readers -> Readings] BY <1>0, <1>1, <1>2
    <2> QED BY <1>1, <2>1, <2>2 DEF NewestParts, NewestTypes
  <1>7. Stamped' BY <1>1, <1>4, <1>5 DEF NewestParts, Stamped
  <1>8. Gapless'
    <2> SUFFICES ASSUME NEW c \in Claims, NEW d \in Claims, Below(c, d)', known'[c] = stamp'[c]
                 PROVE  known'[d] = stamp'[d]
      BY DEF Gapless
    <2>1. Below(c, d) /\ stamp[d] # 0 BY <1>1 DEF Below
    <2>2. Has(x, c) BY <1>1 DEF Has
    <2>3. Passed(x, d) BY <1>0 DEF Passed
    <2>4. Has(x, d) BY <1>5, <2>1, <2>2, <2>3 DEF NoGapBehind
    <2>5. x.found[d] \in Nat /\ stamp[d] \in Nat /\ known[d] \in Nat BY <1>0, <1>4
    <2>6. known'[d] = (IF x.found[d] # 0 THEN x.found[d] ELSE known[d]) /\ stamp'[d] = stamp[d]
      BY <1>1
    <2>7. x.found[d] # 0 => known[d] < x.found[d] /\ x.found[d] <= stamp[d] BY <1>5
    <2> QED BY <2>1, <2>4, <2>5, <2>6, <2>7 DEF Has
  <1>9. OneRun' /\ \A o \in Ne!Readers : Carried(runs[o])' BY <1>3 DEF OneRun, Carried
  <1> QED BY <1>6, <1>7, <1>8, <1>9 DEF NewestParts

LEMMA NewestStep ==
  ASSUME EnoughPages, NewestInv, [Ne!Next]_newestVars
  PROVE  NewestInv'
  <1> SUFFICES ASSUME ~skewed' PROVE NewestParts' BY DEF NewestInv
  <1>1. CASE UNCHANGED newestVars
    <2>1. ~skewed /\ NewestParts BY <1>1 DEF newestVars, NewestInv
    <2>2. UNCHANGED <<kind, clock, stamp, list, known, runs>> BY <1>1 DEF newestVars
    <2>3. \A x : Carried(x) => Carried(x)' BY <2>2, CarriedStill
    <2>4. NewestTypes' /\ Stamped' /\ Gapless' /\ OneRun'
      BY <2>1, <2>2 DEF NewestParts, NewestTypes, Stamped, Gapless, Below, OneRun
    <2>5. ASSUME NEW r \in Ne!Readers PROVE Carried(runs[r])'
      <3> DEFINE z == runs[r]
      <3>1. Carried(z) BY <2>1 DEF NewestParts
      <3>2. runs'[r] = z BY <2>2
      <3> HIDE DEF z
      <3> QED BY <2>3, <3>1, <3>2
    <2> QED BY <2>4, <2>5 DEF NewestParts
  <1>2. CASE Ne!Next
    <2>0. ~skewed /\ NewestParts BY <1>2 DEF Ne!Next, NewestInv
    <2>1. Ne!Rest \in Readings /\ Ne!Rest.at = "rest" /\ Carried(Ne!Rest)
      BY DEF Ne!Rest, Ne!Unread, Readings, Carried
    <2>2. ASSUME NEW e \in Claims, Ne!Stamp(e) PROVE NewestParts'
      <3>1. Renewed(e)
        BY <2>0, <2>2 DEF Ne!Stamp, Renewed, NewestParts, NewestTypes
      <3> QED BY <2>0, <3>1, RenewedStays
    <2>3. ASSUME NEW e \in Claims, Ne!Shift(e) PROVE NewestParts'
      <3>1. list \in [Claims -> {"opened", "closed"}] BY <2>0 DEF NewestParts, NewestTypes
      <3>2. /\ clock' = clock + 1 /\ stamp' = [stamp EXCEPT ![e] = clock + 1]
            /\ UNCHANGED <<kind, known, runs>> /\ kind = "claims"
        BY <2>3 DEF Ne!Shift
      <3>3. list' \in [Claims -> {"opened", "closed"}] /\ \A d \in Claims : d # e => list'[d] = list[d]
        BY <2>3, <3>1 DEF Ne!Shift
      <3>4. ~Ne!BeingRead(list[e]) BY <2>3 DEF Ne!Shift
      <3>5. Renewed(e) BY <3>2, <3>3, <3>4 DEF Renewed
      <3> QED BY <2>0, <3>5, RenewedStays
    <2>4. ASSUME NEW r \in Ne!Readers, Ne!Start(r) PROVE NewestParts'
      <3> DEFINE y == [Ne!Rest EXCEPT !.at = "read", !.knew = known]
      <3>1. /\ y \in Readings /\ y.at = "read" /\ y.knew = known /\ y.list = 1 /\ y.page = 0
            /\ y.found = [c \in Claims |-> 0]
        BY <2>0 DEF Ne!Rest, Ne!Unread, Readings, NewestParts, NewestTypes
      <3>2. runs' = [runs EXCEPT ![r] = y] /\ UNCHANGED <<kind, clock, stamp, list, known>>
            /\ \A o \in Ne!Readers : runs[o].at = "rest"
        BY <2>4 DEF Ne!Start
      <3> HIDE DEF y
      <3>3. \A d \in Claims : ~Passed(y, d)
        <4>1. \A d \in Claims : Ne!Above(d) \in Nat BY <2>0, HigherSize DEF NewestParts
        <4>2. 0 * PageSize = 0 BY ImportsAssumption
        <4> QED BY <3>1, <4>1, <4>2 DEF Passed
      <3>4. Carried(y) BY <3>1, <3>3 DEF Carried, NoGapBehind
      <3> QED BY <2>0, <3>1, <3>2, <3>4, ReaderGoesOn
    <2>5. ASSUME NEW r \in Ne!Readers, Ne!ReadPage(r) PROVE NewestParts'
      BY <2>0, <2>5, ReadStays
    <2>6. ASSUME NEW r \in Ne!Readers, Ne!PageFails(r) PROVE NewestParts'
      <3>1. runs' = [runs EXCEPT ![r] = Ne!Rest] /\ UNCHANGED <<kind, clock, stamp, list, known>>
        BY <2>6 DEF Ne!PageFails
      <3> QED BY <2>0, <2>1, <3>1, ReaderGoesOn
    <2>7. ASSUME NEW r \in Ne!Readers, Ne!Store(r) PROVE NewestParts'
      BY <2>0, <2>7, StoreStays
    <2>8. CASE Ne!Restart
      <3>1. runs' = [r \in Ne!Readers |-> Ne!Rest] /\ UNCHANGED <<kind, clock, stamp, list, known>>
        BY <2>8 DEF Ne!Restart
      <3>2. \A r \in Ne!Readers : runs'[r].at = "rest" BY <2>1, <3>1
      <3>3. NewestTypes' /\ Stamped' /\ Gapless'
        BY <2>0, <2>1, <3>1 DEF NewestParts, NewestTypes, Stamped, Gapless, Below
      <3>4. OneRun' /\ \A r \in Ne!Readers : Carried(runs[r])' BY <3>2 DEF OneRun, Carried
      <3> QED BY <3>3, <3>4 DEF NewestParts
    <2> QED BY <1>2, <2>2, <2>3, <2>4, <2>5, <2>6, <2>7, <2>8 DEF Ne!Next
  <1> QED BY <1>1, <1>2

\* For any numbers of claims, changes, failures and restarts, as long as a list fits in the
\* pages a run reads at most: where the readers of claims and of infractions stop early,
\* at a page without news, they miss nothing, but for lists that lost a claim while
\* they were paged, and for runs that overlapped.
THEOREM NothingMissed ==
  ASSUME EnoughPages
  PROVE  FairSpec => []NoGap
  <1>1. Init => NewestInv BY NewestInit DEF Init
  <1>2. NewestInv /\ [Next]_vars => NewestInv'
    <2> SUFFICES ASSUME NewestInv, [Next]_vars PROVE NewestInv'
      OBVIOUS
    <2>1. [Ne!Next]_newestVars BY DEF Next, vars
    <2> QED BY <2>1, NewestStep
  <1>3. NewestInv => NoGap
    BY DEF NewestInv, NewestParts, Gapless, Below, NoGap, Ne!NoGap
  <1> QED BY <1>1, <1>2, <1>3, PTL DEF FairSpec

---------------------------------------------------------------------------
\* Whatever the numbers of windows, listings, operators and items: what the program
\* reports is so.  A completed cold start stored every window but for as many as were
\* counted again after a crash, a listing has one active tracking, what the operator
\* saw as new was new, and the counts and marks of a migration are what it did.
THEOREM Reported == FairSpec => []ReportedIsSo
  <1> DEFINE Inv == TrackingInv /\ MigrationInv /\ InvoiceInv
  <1>1. Init => Inv
    BY TrackingInit, MigrationInit, InvoiceInit DEF Init
  <1>2. Inv /\ [Next]_vars => Inv'
    <2> SUFFICES ASSUME Inv, [Next]_vars PROVE Inv'
      OBVIOUS
    <2>1. [Ft!Next]_trackingVars BY DEF Next, vars
    <2>2. [Mg!Next]_migrationVars BY DEF Next, vars
    <2>3. [Iv!Next]_invoiceVars BY DEF Next, vars
    <2> QED BY <2>1, <2>2, <2>3, TrackingStep, MigrationStep, InvoiceStep
  <1>3. Inv => ReportedIsSo
    BY TrackingHolds, MigrationHolds, InvoiceHolds DEF ReportedIsSo
  <1> HIDE DEF Inv
  <1> QED BY <1>1, <1>2, <1>3, PTL DEF FairSpec
=============================================================================
