---------------------------- MODULE SyncLogProofs ----------------------------
(***************************************************************************)
(* Proofs about SyncLog, for any set of runs and any bounds: its types, and *)
(* that, as long as no process dies, the counters of a run account for its  *)
(* items and completion comes after the last of them.                       *)
(***************************************************************************)
EXTENDS SyncLog, TLAPS

---------------------------------------------------------------------------
(* Types                                                                   *)

\* A step keeps the types; each action changes a few of the variables.
LEMMA TypeStep == TypeOK /\ [Next]_vars => TypeOK'
<1> SUFFICES ASSUME TypeOK, [Next]_vars PROVE TypeOK'
  OBVIOUS
<1> USE ParametersAssumption DEF TypeOK, Rows, NoRow, NotRecorded, Nobody, FanIdle, ItemIdle
<1>1. ASSUME NEW l \in Logs, CreateSyncLog(l) PROVE TypeOK'
  BY <1>1 DEF CreateSyncLog
<1>2. ASSUME NEW l \in Logs, Publish(l) PROVE TypeOK'
  BY <1>2 DEF Publish
<1>3. ASSUME NEW l \in Logs, PublishFails(l) PROVE TypeOK'
  BY <1>3 DEF PublishFails
<1>4. ASSUME NEW l \in Logs, UpdateSyncLogFailed(l) PROVE TypeOK'
  <2>1. log' \in [Logs -> Rows]
    <3>1. log[l] \in Rows
      OBVIOUS
    <3>2. [log[l] EXCEPT !.status = "failed", !.processed = 0, !.failed = 0] \in Rows
      BY <3>1
    <3>3. log' = [log EXCEPT ![l] = [log[l] EXCEPT !.status = "failed", !.processed = 0, !.failed = 0]]
      BY <1>4 DEF UpdateSyncLogFailed
    <3> QED BY <3>2, <3>3
  <2>2. trigger' \in [Logs -> {"none", "publish", "fail", "done"}]
    BY <1>4 DEF UpdateSyncLogFailed
  <2>3. \A m \in Logs : log'[m].status = "none" <=> trigger'[m] = "none"
    BY <1>4 DEF UpdateSyncLogFailed
  <2>4. \A m \in Logs : trigger[m] \in {"fail", "done"} => trigger'[m] \in {"fail", "done"}
    BY <1>4 DEF UpdateSyncLogFailed
  <2>5. UNCHANGED <<service, full, fan, items, item, skipped, dropped, unfanned,
                    crashes, faults>>
    BY <1>4 DEF UpdateSyncLogFailed
  <2> HIDE DEF Rows, NoRow, NotRecorded, Nobody, FanIdle, ItemIdle
  <2> QED BY <2>1, <2>2, <2>3, <2>4, <2>5
<1>5. ASSUME NEW l \in Logs, StartFanOut(l) PROVE TypeOK'
  BY <1>5 DEF StartFanOut
<1>6. CASE PublishItem
  BY <1>6 DEF PublishItem
<1>7. CASE EndFanOut
  BY <1>7 DEF EndFanOut
<1>8. CASE RecordTotalEnqueued
  BY <1>8, SMTT(30) DEF RecordTotalEnqueued
<1>9. CASE FinalizeFanOut
  BY <1>9 DEF FinalizeFanOut, TryFinalize, Finalizable
<1>10. CASE FanOutFails
  BY <1>10 DEF FanOutFails
<1>11. ASSUME NEW l \in Logs, Deliver(l) PROVE TypeOK'
  BY <1>11 DEF Deliver
<1>12. CASE Fetch
  BY <1>12 DEF Fetch
<1>13. CASE FetchNotFound
  BY <1>13 DEF FetchNotFound
<1>14. CASE Drop
  BY <1>14 DEF Drop
<1>15. CASE Write
  <2>1. PICK ok \in BOOLEAN : item' = [item EXCEPT !.step = "count", !.ok = ok]
    BY <1>15 DEF Write
  <2>2. item \in [step : {"fetch", "write", "count", "finalize"}, log : Logs, ok : BOOLEAN]
    BY <1>15 DEF Write
  <2>3. item' \in [step : {"count"}, log : {item.log}, ok : BOOLEAN] /\ item.log \in Logs
    BY <2>1, <2>2
  <2> QED BY <1>15, <2>3 DEF Write
<1>16. CASE Count
  <2>1. item.log \in Logs /\ log[item.log] \in Rows
    BY <1>16 DEF Count
  <2>2. log' \in [Logs -> Rows]
    BY <1>16, <2>1, SMTT(30) DEF Count, Increment
  <2>3. \A m \in Logs : log'[m].status = log[m].status
    BY <1>16, <2>1 DEF Count, Increment
  <2>4. item' = [item EXCEPT !.step = "finalize"] /\ item.step = "count"
    BY <1>16 DEF Count
  <2>5. UNCHANGED <<service, trigger, full, fan, items, skipped, dropped, unfanned,
                    crashes, faults>>
    BY <1>16 DEF Count
  <2>6. item' = [step |-> "finalize", log |-> item.log, ok |-> item.ok] /\ item.ok \in BOOLEAN
    BY <2>4
  <2> HIDE DEF Rows, NoRow, NotRecorded, FanIdle
  <2> QED BY <2>1, <2>2, <2>3, <2>5, <2>6
<1>17. CASE FinalizeItem
  BY <1>17 DEF FinalizeItem, TryFinalize, Finalizable
<1>18. CASE FinalizeItemFails
  BY <1>18 DEF FinalizeItemFails
<1>19. ASSUME NEW l \in Logs, MarkStalledAsFailed(l) PROVE TypeOK'
  BY <1>19, SMTT(30) DEF MarkStalledAsFailed
<1>20. CASE Crash
  BY <1>20, SMTT(30) DEF Crash
<1>21. CASE UNCHANGED vars
  BY <1>21 DEF vars
<1> QED
  BY <1>1, <1>2, <1>3, <1>4, <1>5, <1>6, <1>7, <1>8, <1>9, <1>10, <1>11, <1>12,
     <1>13, <1>14, <1>15, <1>16, <1>17, <1>18, <1>19, <1>20, <1>21
     DEF Next, TriggerStep, FanOutStep, ItemStep

\* The state is well-typed, and a consumer only ever works on a run whose row was
\* created before its message was sent.
THEOREM TypeCorrect == Spec => []TypeOK
<1>1. Init => TypeOK
  BY ParametersAssumption, SMTT(30)
     DEF Init, TypeOK, Rows, NoRow, NotRecorded, Nobody, FanIdle, ItemIdle
<1> QED
  BY <1>1, TypeStep, PTL DEF Spec

---------------------------------------------------------------------------
(* Accounting                                                              *)

Held(l) == IF Uncounted(l) THEN 1 ELSE 0

\* Where the items of a run are: counted, waiting, gone, or held.
Places(l) ==
    log[l].processed + log[l].failed + items[l] + skipped[l] + dropped[l] + Held(l)

\* The inductive invariant, as long as no process died.  A run's message exists
\* once: while it waits nothing was published; while it is held the places add up
\* to what was; afterwards, if the total was recorded, to the total.  After a
\* failed publication the counters may be reset: then they add up to no more.
RunInv(l) ==
    /\ trigger[l] = "fail" => faults > 0
    /\ trigger[l] \in {"none", "publish"} => l \notin full /\ fan.log # l
    /\ l \in full => fan.log # l
    /\ trigger[l] \in {"none", "publish"} \/ l \in full =>
         Places(l) = 0 /\ log[l].total = NotRecorded
    /\ fan.log = l /\ fan.step \in {"publish", "record"} =>
         /\ Places(l) <= fan.sent /\ log[l].total = NotRecorded
         /\ faults = 0 => Places(l) = fan.sent
    /\ log[l].total # NotRecorded =>
         /\ Places(l) <= log[l].total
         /\ faults = 0 => Places(l) = log[l].total
    /\ log[l].status = "completed" =>
         log[l].total # NotRecorded /\ log[l].processed + log[l].failed >= log[l].total

AccountInv == TypeOK /\ (crashes = 0 => \A l \in Logs : RunInv(l))

LEMMA AccountStep ==
    ASSUME AccountInv, [Next]_vars PROVE AccountInv'
<1>1. TypeOK'
  BY TypeStep DEF AccountInv
<1>2. ASSUME crashes' = 0 PROVE ~Crash /\ crashes = 0
  <2>1. crashes \in Nat
    BY ParametersAssumption DEF AccountInv, TypeOK
  <2>2. ~Crash
    BY <1>2, <2>1 DEF Crash
  <2>3. crashes' = crashes
    BY <2>2, Zenon
       DEF Next, TriggerStep, FanOutStep, ItemStep, vars, CreateSyncLog, Publish,
           PublishFails, UpdateSyncLogFailed, StartFanOut, PublishItem, EndFanOut,
           RecordTotalEnqueued, FinalizeFanOut, FanOutFails, Deliver, Fetch,
           FetchNotFound, Drop, Write, Count, FinalizeItem, FinalizeItemFails,
           MarkStalledAsFailed
  <2> QED
    BY <1>2, <2>2, <2>3
<1> SUFFICES ASSUME crashes' = 0, NEW k \in Logs PROVE RunInv(k)'
  BY <1>1 DEF AccountInv
<1>3. TypeOK /\ ~Crash /\ \A l \in Logs : RunInv(l)
  BY <1>2 DEF AccountInv
<1> USE ParametersAssumption, <1>1, <1>3
    DEF TypeOK, Rows, NotRecorded, Nobody, RunInv, Places, Held, Uncounted,
        FanIdle, ItemIdle
<1>4. ASSUME NEW l \in Logs, CreateSyncLog(l) PROVE RunInv(k)'
  BY <1>4 DEF CreateSyncLog
<1>5. ASSUME NEW l \in Logs, Publish(l) PROVE RunInv(k)'
  BY <1>5 DEF Publish
<1>6. ASSUME NEW l \in Logs, UpdateSyncLogFailed(l) PROVE RunInv(k)'
  <2>1. /\ trigger[l] = "fail" /\ trigger' = [trigger EXCEPT ![l] = "done"]
        /\ UNCHANGED <<full, fan, items, item, skipped, dropped, faults>>
    BY <1>6 DEF UpdateSyncLogFailed
  <2>2. CASE k = l
    <3>1. /\ log'[k].status = "failed" /\ log'[k].total = log[k].total
          /\ log'[k].processed = 0 /\ log'[k].failed = 0
      BY <1>6, <2>2 DEF UpdateSyncLogFailed
    <3>2. Held(k)' = Held(k) /\ Held(k) \in Nat
      BY <2>1
    <3>3. /\ log[k].processed \in Nat /\ log[k].failed \in Nat /\ items[k] \in Nat
          /\ skipped[k] \in Nat /\ dropped[k] \in Nat
      OBVIOUS
    <3>4. Places(k)' = items[k] + skipped[k] + dropped[k] + Held(k)
      BY <2>1, <3>1, <3>2, <3>3
    <3>5. Places(k)' <= Places(k) /\ Places(k)' \in Nat /\ Places(k) \in Nat
      BY <3>2, <3>3, <3>4
    <3>6. faults > 0 /\ trigger'[k] = "done"
      BY <2>1, <2>2
    <3> QED
      BY <2>1, <3>1, <3>5, <3>6
  <2>3. CASE k # l
    <3>1. log'[k] = log[k] /\ trigger'[k] = trigger[k]
      BY <1>6, <2>1, <2>3 DEF UpdateSyncLogFailed
    <3> QED
      BY <2>1, <3>1
  <2> QED
    BY <2>2, <2>3
<1>7. ASSUME NEW l \in Logs, StartFanOut(l) PROVE RunInv(k)'
  BY <1>7 DEF StartFanOut
<1>8. CASE PublishItem
  <2>1. /\ fan.step = "publish" /\ fan.log \in Logs /\ fan.sent \in Nat
        /\ fan' = [fan EXCEPT !.sent = fan.sent + 1]
        /\ fan'.log = fan.log /\ fan'.step = "publish" /\ fan'.sent = fan.sent + 1
        /\ UNCHANGED <<log, trigger, full, item, skipped, dropped, faults>>
    BY <1>8 DEF PublishItem
  <2>2. /\ k = fan.log => items'[k] = items[k] + 1
        /\ k # fan.log => items'[k] = items[k]
    BY <1>8, <2>1 DEF PublishItem
  <2>3. CASE k = fan.log
    BY <2>1, <2>2, <2>3
  <2>4. CASE k # fan.log
    BY <2>1, <2>2, <2>4
  <2> QED
    BY <2>3, <2>4
<1>9. CASE EndFanOut
  BY <1>9 DEF EndFanOut
<1>10. CASE RecordTotalEnqueued
  BY <1>10 DEF RecordTotalEnqueued
<1>11. CASE FinalizeFanOut
  BY <1>11 DEF FinalizeFanOut, TryFinalize, Finalizable
<1>12. CASE FanOutFails
  BY <1>12 DEF FanOutFails
<1>13. ASSUME NEW l \in Logs, Deliver(l) PROVE RunInv(k)'
  <2>1. /\ item.step = "idle" /\ ~Uncounted(k)
        /\ items' = [items EXCEPT ![l] = items[l] - 1]
        /\ item'.step = "fetch" /\ item'.log = l
        /\ UNCHANGED <<log, trigger, full, fan, skipped, dropped, faults>>
    BY <1>13 DEF Deliver
  <2>2. CASE k = l
    BY <2>1, <2>2
  <2>3. CASE k # l
    BY <2>1, <2>3
  <2> QED
    BY <2>2, <2>3
<1>14. CASE Fetch
  BY <1>14 DEF Fetch
<1>15. CASE FetchNotFound
  <2>1. /\ item.log \in Logs /\ Uncounted(item.log) /\ item'.step = "idle"
        /\ UNCHANGED <<log, trigger, full, fan, items, dropped, faults>>
    BY <1>15 DEF FetchNotFound
  <2>2. skipped' = [skipped EXCEPT ![item.log] = @ + 1]
    BY <1>15 DEF FetchNotFound
  <2>3. Places(k)' = Places(k)
    <3>1. skipped[k] \in Nat /\ k \in DOMAIN skipped
      OBVIOUS
    <3>2. CASE k = item.log
      <4>1. skipped'[k] = skipped[k] + 1
        BY <2>2, <3>1, <3>2
      <4>2. Held(k) = 1 /\ Held(k)' = 0
        BY <2>1, <3>2
      <4> QED
        BY <2>1, <3>1, <4>1, <4>2
    <3>3. CASE k # item.log
      <4>1. skipped'[k] = skipped[k]
        BY <2>2, <3>1, <3>3
      <4>2. Held(k) = 0 /\ Held(k)' = 0
        BY <2>1, <3>3
      <4> QED
        BY <2>1, <4>1, <4>2
    <3> QED
      BY <3>2, <3>3
  <2> QED
    BY <2>1, <2>3
<1>16. CASE Drop
  <2>1. /\ item.log \in Logs /\ Uncounted(item.log) /\ item'.step = "idle"
        /\ UNCHANGED <<log, trigger, full, fan, items, skipped, faults>>
    BY <1>16 DEF Drop
  <2>2. dropped' = [dropped EXCEPT ![item.log] = @ + 1]
    BY <1>16 DEF Drop
  <2>3. Places(k)' = Places(k)
    <3>1. dropped[k] \in Nat /\ k \in DOMAIN dropped
      OBVIOUS
    <3>2. CASE k = item.log
      <4>1. dropped'[k] = dropped[k] + 1
        BY <2>2, <3>1, <3>2
      <4>2. Held(k) = 1 /\ Held(k)' = 0
        BY <2>1, <3>2
      <4> QED
        BY <2>1, <3>1, <4>1, <4>2
    <3>3. CASE k # item.log
      <4>1. dropped'[k] = dropped[k]
        BY <2>2, <3>1, <3>3
      <4>2. Held(k) = 0 /\ Held(k)' = 0
        BY <2>1, <3>3
      <4> QED
        BY <2>1, <4>1, <4>2
    <3> QED
      BY <3>2, <3>3
  <2> QED
    BY <2>1, <2>3
<1>17. CASE Write
  BY <1>17 DEF Write
<1>18. CASE Count
  <2>1. /\ item.log \in Logs /\ Uncounted(item.log)
        /\ item'.step = "finalize"
        /\ UNCHANGED <<trigger, full, fan, items, skipped, dropped, faults>>
    BY <1>18 DEF Count
  <2>2. /\ \A m \in Logs : log'[m].status = log[m].status /\ log'[m].total = log[m].total
        /\ \A m \in Logs \ {item.log} : log'[m] = log[m]
        /\ log'[item.log].processed + log'[item.log].failed
             = log[item.log].processed + log[item.log].failed + 1
    <3>1. PICK l \in Logs : l = item.log
      BY <2>1
    <3>2. log[l] \in Rows /\ log[l].processed \in Nat /\ log[l].failed \in Nat
      BY <3>1
    <3>3. CASE item.ok
      <4>1. log' = [log EXCEPT ![l].processed = log[l].processed + 1]
        BY <1>18, <3>1, <3>3 DEF Count, Increment
      <4> QED BY <3>1, <3>2, <4>1
    <3>4. CASE ~item.ok
      <4>1. log' = [log EXCEPT ![l].failed = log[l].failed + 1]
        BY <1>18, <3>1, <3>4 DEF Count, Increment
      <4> QED BY <3>1, <3>2, <4>1
    <3> QED
      BY <3>3, <3>4
  <2>3. CASE k = item.log
    <3>1. Held(k) = 1 /\ Held(k)' = 0
      BY <2>1, <2>3
    <3>2. Places(k)' = Places(k)
      BY <2>1, <2>2, <2>3, <3>1
    <3> QED
      BY <2>1, <2>2, <2>3, <3>2
  <2>4. CASE k # item.log
    BY <2>1, <2>2, <2>4
  <2> QED
    BY <2>3, <2>4
<1>19. CASE FinalizeItem
  BY <1>19 DEF FinalizeItem, TryFinalize, Finalizable
<1>20. ASSUME NEW l \in Logs, MarkStalledAsFailed(l) PROVE RunInv(k)'
  BY <1>20 DEF MarkStalledAsFailed
<1>21. CASE UNCHANGED vars
  BY <1>21 DEF vars
<1>22. ASSUME NEW l \in Logs, PublishFails(l) PROVE RunInv(k)'
  BY <1>22 DEF PublishFails
<1>23. CASE FinalizeItemFails
  BY <1>23 DEF FinalizeItemFails
<1> QED
  BY <1>4, <1>5, <1>6, <1>7, <1>8, <1>9, <1>10, <1>11, <1>12, <1>13, <1>14, <1>15,
     <1>16, <1>17, <1>18, <1>19, <1>20, <1>21, <1>22, <1>23, <1>3
     DEF Next, TriggerStep, FanOutStep, ItemStep

LEMMA AccountInvariant == Spec => []AccountInv
<1>1. Init => AccountInv
  <2> SUFFICES ASSUME Init PROVE AccountInv
    OBVIOUS
  <2>1. TypeOK
    BY TypeCorrect, ParametersAssumption
       DEF Init, TypeOK, Rows, NoRow, NotRecorded, Nobody, FanIdle, ItemIdle
  <2> QED
    BY <2>1, ParametersAssumption
       DEF Init, AccountInv, RunInv, Places, Held, Uncounted, Rows, NoRow, NotRecorded,
           Nobody, FanIdle, ItemIdle
<1>2. AccountInv /\ [Next]_vars => AccountInv'
  BY AccountStep
<1> QED
  BY <1>1, <1>2, PTL DEF Spec

\* While no process dies and no commit or publication fails, every item that was
\* published is waiting, held, counted, or gone uncounted, and in one place only.
THEOREM ItemsAccounted == Spec => []Accounted
<1>1. AccountInv => Accounted
  BY DEF AccountInv, Accounted, RunInv, Places, Held
<1> QED
  BY <1>1, AccountInvariant, PTL

\* As long as no process dies, a run that is marked completed has none of its items
\* waiting or at work, publications and commits that fail included.
THEOREM CompletedIsDone == Spec => []CompletedUnlessRedelivered
<1>1. AccountInv => CompletedUnlessRedelivered
  <2> SUFFICES ASSUME AccountInv, crashes = 0, NEW l \in Logs, log[l].status = "completed"
               PROVE  items[l] = 0 /\ ~Uncounted(l) /\ l \notin full
    BY DEF CompletedUnlessRedelivered, CompletedMeansDone
  <2>1. /\ log[l].total # NotRecorded
        /\ Places(l) <= log[l].total
        /\ log[l].processed + log[l].failed >= log[l].total
        /\ l \notin full
    BY ParametersAssumption DEF AccountInv, TypeOK, RunInv
  <2>2. /\ log[l].processed \in Nat /\ log[l].failed \in Nat /\ items[l] \in Nat
        /\ skipped[l] \in Nat /\ dropped[l] \in Nat
        /\ log[l].total \in Int
    BY DEF AccountInv, TypeOK, Rows, NotRecorded
  <2>3. items[l] = 0 /\ Held(l) = 0
    <3>1. Held(l) \in Nat
      BY DEF Held
    <3>2. log[l].processed + log[l].failed + items[l] + skipped[l] + dropped[l]
            + Held(l) <= log[l].total
      BY <2>1 DEF Places
    <3> QED
      BY <2>1, <2>2, <3>1, <3>2
  <2> QED
    BY <2>1, <2>3 DEF Held
<1> QED
  BY <1>1, AccountInvariant, PTL

---------------------------------------------------------------------------
(* A run that ended                                                        *)

\* Only a job whose publication raised marks its row.
MarksAfterFault == \A l \in Logs : trigger[l] = "fail" => faults > 0

LEMMA MarksStep == TypeOK /\ MarksAfterFault /\ [Next]_vars => MarksAfterFault'
<1> SUFFICES ASSUME TypeOK, MarksAfterFault, [Next]_vars PROVE MarksAfterFault'
  OBVIOUS
<1>0. faults \in Nat /\ trigger \in [Logs -> {"none", "publish", "fail", "done"}]
  BY ParametersAssumption DEF TypeOK
<1>1. faults' = faults \/ faults' = faults + 1
  BY DEF Next, vars, TriggerStep, FanOutStep, ItemStep, CreateSyncLog, Publish, PublishFails,
         UpdateSyncLogFailed, StartFanOut, PublishItem, EndFanOut, RecordTotalEnqueued,
         FinalizeFanOut, FanOutFails, Deliver, Fetch, FetchNotFound, Drop, Write, Count,
         FinalizeItem, FinalizeItemFails, MarkStalledAsFailed, Crash
<1>2. \A l \in Logs : trigger'[l] = "fail" => trigger[l] = "fail" \/ faults' = faults + 1
  <2>1. CASE UNCHANGED trigger
    BY <2>1
  <2>2. ASSUME NEW l \in Logs, TriggerStep(l)
        PROVE  \A m \in Logs : trigger'[m] = "fail" => trigger[m] = "fail" \/ faults' = faults + 1
    BY <1>0, <2>2 DEF TriggerStep, CreateSyncLog, Publish, PublishFails, UpdateSyncLogFailed
  <2>3. CASE Crash
    BY <2>3 DEF Crash
  <2>4. UNCHANGED trigger \/ (\E l \in Logs : TriggerStep(l)) \/ Crash
    BY DEF Next, vars, FanOutStep, ItemStep, StartFanOut, PublishItem, EndFanOut,
           RecordTotalEnqueued, FinalizeFanOut, FanOutFails, Deliver, Fetch, FetchNotFound, Drop,
           Write, Count, FinalizeItem, FinalizeItemFails, MarkStalledAsFailed
  <2> QED BY <2>1, <2>2, <2>3, <2>4
<1> QED BY <1>0, <1>1, <1>2 DEF MarksAfterFault

\* A step that changes a row leaves a status that was final, unless it is the mark.
LEMMA StatusStep ==
  ASSUME TypeOK, MarksAfterFault, [Next]_vars, faults = 0, NEW l \in Logs,
         log[l].status \in {"completed", "failed"}
  PROVE  log'[l].status = log[l].status
<1>0. /\ DOMAIN log = Logs /\ trigger[l] \notin {"none", "fail"}
      /\ \A m \in Logs : log[m] \in Rows
  BY DEF TypeOK, MarksAfterFault
<1>1. CASE UNCHANGED log
  BY <1>1
<1>2. ASSUME NEW m \in Logs, NEW r, log' = [log EXCEPT ![m] = r],
             m = l => r.status = log[l].status
      PROVE  log'[l].status = log[l].status
  BY <1>0, <1>2
<1>3. ASSUME NEW m, TryFinalize(m) PROVE log'[l].status = log[l].status
  <2>1. CASE log' = log BY <2>1
  <2>2. CASE Finalizable(log[m])
    <3>1. m # l BY <2>2 DEF Finalizable
    <3>2. log' = [log EXCEPT ![m].status = "completed"] BY <1>3, <2>2 DEF TryFinalize
    <3> QED BY <3>1, <3>2
  <2> QED BY <1>3, <2>1, <2>2 DEF TryFinalize
<1>4. ASSUME NEW m \in Logs, CreateSyncLog(m) \/ UpdateSyncLogFailed(m) \/ MarkStalledAsFailed(m)
      PROVE  log'[l].status = log[l].status
  <2>1. m # l
    BY <1>0, <1>4 DEF CreateSyncLog, UpdateSyncLogFailed, MarkStalledAsFailed, MarksAfterFault
  <2>2. log'[l] = log[l]
    <3>1. CASE CreateSyncLog(m)
      BY <2>1, <3>1 DEF CreateSyncLog
    <3>2. CASE UpdateSyncLogFailed(m)
      BY <2>1, <3>2 DEF UpdateSyncLogFailed
    <3>3. CASE MarkStalledAsFailed(m)
      BY <2>1, <3>3 DEF MarkStalledAsFailed
    <3> QED BY <1>4, <3>1, <3>2, <3>3
  <2> QED BY <2>2
<1>5. CASE RecordTotalEnqueued
  <2>1. log'[l] = log[l] \/ log'[l] = [log[l] EXCEPT !.total = fan.sent]
    BY <1>0, <1>5 DEF RecordTotalEnqueued
  <2>2. [log[l] EXCEPT !.total = fan.sent].status = log[l].status
    BY <1>0 DEF Rows
  <2> QED BY <2>1, <2>2
<1>6. CASE Count
  <2>1. \/ log'[l] = log[l]
        \/ log'[l] = [log[l] EXCEPT !.processed = log[l].processed + 1]
        \/ log'[l] = [log[l] EXCEPT !.failed = log[l].failed + 1]
    BY <1>0, <1>6 DEF Count, Increment
  <2>2. /\ [log[l] EXCEPT !.processed = log[l].processed + 1].status = log[l].status
        /\ [log[l] EXCEPT !.failed = log[l].failed + 1].status = log[l].status
    BY <1>0 DEF Rows
  <2> QED BY <2>1, <2>2
<1>7. CASE FinalizeFanOut \/ FinalizeItem
  BY <1>3, <1>7 DEF FinalizeFanOut, FinalizeItem
<1>8. \/ UNCHANGED log \/ RecordTotalEnqueued \/ Count \/ FinalizeFanOut \/ FinalizeItem
      \/ \E m \in Logs : CreateSyncLog(m) \/ UpdateSyncLogFailed(m) \/ MarkStalledAsFailed(m)
  BY DEF Next, vars, TriggerStep, FanOutStep, ItemStep, Publish, PublishFails, StartFanOut,
         PublishItem, EndFanOut, FanOutFails, Deliver, Fetch, FetchNotFound, Drop, Write,
         FinalizeItemFails, Crash
<1> QED BY <1>1, <1>4, <1>5, <1>6, <1>7, <1>8

\* A run that ended stays as it ended, for any numbers of runs, items and deaths of
\* the process: neither late nor redelivered items complete one that the watchdog
\* gave up, and nothing marks a completed one, unless a publication raised in doubt.
THEOREM EndedStays == Spec => FinalStatus
<1> DEFINE A == \A l \in Logs : faults = 0 /\ log[l].status \in {"completed", "failed"}
                  => log'[l].status = log[l].status
<1>1. Init => TypeOK /\ MarksAfterFault
  BY ParametersAssumption
     DEF Init, TypeOK, MarksAfterFault, Rows, NoRow, NotRecorded, Nobody, FanIdle, ItemIdle
<1>2. TypeOK /\ MarksAfterFault /\ [Next]_vars => A
  BY StatusStep
<1> QED BY <1>1, <1>2, TypeStep, MarksStep, PTL DEF Spec, FinalStatus
=============================================================================
