--------------------------- MODULE OrderSyncProofs ---------------------------
(***************************************************************************)
(* Proofs about OrderSync, for any orders and any bounds: its types, that a *)
(* key in Redis always stands for a message, that no order waits twice, that *)
(* items are of their order's version, and that a day brings the last one.  *)
(***************************************************************************)
EXTENDS OrderSync, TLAPS

---------------------------------------------------------------------------
(* Types                                                                   *)


\* Records of the consumers with some of their fields changed.
LEMMA HandMoved ==
    ASSUME NEW h \in Hands, NEW s \in {"fetch", "delete"}
    PROVE  /\ Moved(h, s) \in Hands /\ Moved(h, s).step = s
           /\ Moved(h, s).order = h.order /\ Moved(h, s).copy = h.copy
  BY DEF Moved, Hands

LEMMA HandFetched ==
    ASSUME NEW h \in Hands, NEW x \in Copies, now \in Nat
    PROVE  /\ Fetched(h, x) \in Hands /\ Fetched(h, x).step = "upsert"
           /\ Fetched(h, x).order = h.order /\ Fetched(h, x).copy = x
  BY DEF Fetched, Hands

LEMMA HandDeleting ==
    ASSUME NEW h \in Hands, NEW S \in SUBSET Batches
    PROVE  /\ Deleting(h, S) \in Hands /\ Deleting(h, S).step = "insert"
           /\ Deleting(h, S).order = h.order /\ Deleting(h, S).copy = h.copy
  BY DEF Deleting, Hands

LEMMA IdleFields ==
    /\ Idle \in Hands /\ Idle.step = "idle" /\ Idle.order = Nobody
    /\ \A o \in Orders :
         LET n == [Idle EXCEPT !.step = "release", !.order = o] IN
         n \in Hands /\ n.step = "release" /\ n.order = o
  BY DEF Idle, Hands, Nobody, Missing, Copies

\* A consumer's record is replaced by one that is in order.
LEMMA HandChanges ==
    ASSUME HandOK, NEW c \in Consumers, NEW n \in Hands,
           hand' = [hand EXCEPT ![c] = n],
           n.step # "idle" => n.order \in Orders,
           n.step \in {"upsert", "delete", "insert"} => n.copy \in Copies
    PROVE  HandOK' /\ hand'[c] = n /\ \A d \in Consumers \ {c} : hand'[d] = hand[d]
  BY DEF HandOK

\* Records of the fan-out with some of their fields changed.
LEMMA FanListed ==
    ASSUME NEW f \in Fans, NEW s \in {"filter", "claim"}, NEW L \in SUBSET Listings
    PROVE  Listed(f, s, L) \in Fans /\ Listed(f, s, L).step = s
  BY DEF Listed, Fans

LEMMA FanHolding ==
    ASSUME NEW f \in Fans, NEW s \in {"claim", "publish"}, NEW o \in Orders \cup {Nobody}
    PROVE  /\ Holding(f, s, o) \in Fans
           /\ Holding(f, s, o).step = s /\ Holding(f, s, o).order = o
  BY DEF Holding, Fans

LEMMA FanIdleFields ==
    /\ FanIdle \in Fans /\ FanIdle.step = "idle"
    /\ \A m \in Nat \cup {Incremental} :
         LET n == [FanIdle EXCEPT !.step = "list", !.message = m] IN
         n \in Fans /\ n.step = "list"
  BY DEF FanIdle, Fans, Nobody

LEMMA FanStep == TypeOK /\ [Next]_vars => FanOK'
<1> SUFFICES ASSUME TypeOK, [Next]_vars PROVE FanOK'
  OBVIOUS
<1>0. fan \in Fans /\ fan.step \in {"idle", "list", "filter", "claim", "publish"}
      /\ fan.listed \subseteq Listings
  BY DEF TypeOK, FanOK, Fans
<1>1. CASE StartFanOut
  <2>1. full # <<>> /\ full \in Seq(Nat \cup {Incremental})
    BY <1>1 DEF StartFanOut, TypeOK
  <2>2. Head(full) \in Nat \cup {Incremental}
    BY <2>1
  <2> QED
    BY <1>1, <2>2, FanIdleFields DEF StartFanOut, FanOK
<1>2. CASE ListOrders
  <2>1. PICK since \in UpdatedAfter :
          fan' = Listed(fan, IF fan.message = Incremental THEN "filter" ELSE "claim",
                        ListedSince(since))
    BY <1>2 DEF ListOrders
  <2>2. ListedSince(since) \in SUBSET Listings
    BY DEF ListedSince
  <2> QED
    BY <1>0, <2>1, <2>2, FanListed DEF FanOK
<1>3. CASE FilterNewOrChanged
  <2>1. {r \in fan.listed : mirror[r.order].situation # r.situation} \in SUBSET Listings
    BY <1>0
  <2> QED
    BY <1>0, <1>3, <2>1, FanListed DEF FilterNewOrChanged, FanOK
<1>4. ASSUME NEW o \in Orders, ClaimPending(o) \/ ClaimFails(o) PROVE FanOK'
  <2>1. {r \in fan.listed : r.order # o} \in SUBSET Listings
    BY <1>0
  <2>2. Without(o) \in Fans /\ Without(o).step = "claim"
    BY <1>0, <2>1, FanListed DEF Without
  <2>3. Publishing(o) \in Fans /\ Publishing(o).order = o
    BY <2>2, FanHolding DEF Publishing
  <2>4. fan' = Without(o) \/ fan' = Publishing(o)
    BY <1>4 DEF ClaimPending, ClaimFails
  <2> QED
    BY <2>2, <2>3, <2>4 DEF FanOK
<1>5. CASE PublishItem
  BY <1>0, <1>5, FanHolding DEF PublishItem, FanOK
<1>6. CASE fan' = FanIdle
  BY <1>6, FanIdleFields DEF FanOK
<1>7. CASE UNCHANGED fan
  BY <1>7 DEF TypeOK, FanOK
<1>8. CASE FanOutStep
  <2>1. EndFanOut => fan' = FanIdle
    BY DEF EndFanOut
  <2> QED
    BY <1>1, <1>2, <1>3, <1>4, <1>5, <1>6, <1>8, <2>1 DEF FanOutStep
<1>9. CASE Failure
  <2>1. PublishFails \/ FanOutFails \/ Crash => fan' = FanIdle
    BY DEF PublishFails, FanOutFails, Crash
  <2>2. ReconciliationFails => UNCHANGED fan
    BY DEF ReconciliationFails
  <2>3. \A c \in Consumers : ReleaseFails(c) \/ HandleFails(c) => UNCHANGED fan
    BY DEF ReleaseFails, HandleFails
  <2> QED
    BY <1>4, <1>6, <1>7, <1>9, <2>1, <2>2, <2>3 DEF Failure
<1>10. ASSUME NEW c \in Consumers, ConsumerStep(c) PROVE UNCHANGED fan
  BY <1>10 DEF ConsumerStep, DeliverItem, DeliverWebhook, ReleasePending, GetOrder, Upsert,
               DeleteItems, InsertItems
<1>11. ASSUME \/ \E o \in Orders : Change(o) \/ KeyExpires(o)
              \/ OrdersSyncJob \/ OrdersReconciliationJob \/ Tick
       PROVE  UNCHANGED fan
  BY <1>11 DEF Change, KeyExpires, OrdersSyncJob, OrdersReconciliationJob, Tick
<1> QED
  BY <1>7, <1>8, <1>9, <1>10, <1>11 DEF Next, vars

LEMMA HandStep == TypeOK /\ [Next]_vars => HandOK'
<1> SUFFICES ASSUME TypeOK, [Next]_vars PROVE HandOK'
  OBVIOUS
<1>0. HandOK
  BY DEF TypeOK
<1>1. ASSUME NEW c \in Consumers, NEW o \in Orders, Hold(c, o) PROVE HandOK'
  BY <1>0, <1>1, IdleFields, HandChanges DEF Hold
<1>2. ASSUME NEW c \in Consumers,
             ReleasePending(c) \/ ReleaseFails(c) \/ Upsert(c)
      PROVE  HandOK'
  <2>1. PICK s \in {"fetch", "delete"} :
          /\ hand' = [hand EXCEPT ![c] = Moved(hand[c], s)]
          /\ hand[c].step \in {"release", "upsert"}
          /\ s = "delete" => hand[c].step = "upsert"
    BY <1>2 DEF ReleasePending, ReleaseFails, Upsert
  <2>2. /\ hand[c] \in Hands /\ hand[c].order \in Orders
        /\ s = "delete" => hand[c].copy \in Copies
    BY <1>0, <2>1 DEF HandOK
  <2> QED
    BY <1>0, <2>1, <2>2, HandMoved, HandChanges
<1>3. ASSUME NEW c \in Consumers, GetOrder(c), hand' # [hand EXCEPT ![c] = Idle] PROVE HandOK'
  <2>1. hand[c] \in Hands /\ hand[c].order \in Orders
    BY <1>0, <1>3 DEF HandOK, GetOrder
  <2>2. ASSUME tiny[hand[c].order].situation # Gone PROVE tiny[hand[c].order] \in Copies
    <3>1. tiny[hand[c].order] \in Copies \cup [version : 1..MaxVersion, situation : {Gone}]
                                        \cup {Missing}
      BY <2>1 DEF TypeOK
    <3> QED
      BY <2>2, <3>1 DEF Missing
  <2>3. /\ tiny[hand[c].order].situation # Gone
        /\ hand' = [hand EXCEPT ![c] = Fetched(hand[c], tiny[hand[c].order])]
    BY <1>3 DEF GetOrder
  <2> QED
    BY <1>0, <2>1, <2>2, <2>3, HandFetched, HandChanges DEF TypeOK
<1>4. ASSUME NEW c \in Consumers, DeleteItems(c) PROVE HandOK'
  <2>1. hand[c] \in Hands /\ hand[c].order \in Orders /\ hand[c].copy \in Copies
    BY <1>0, <1>4 DEF HandOK, DeleteItems
  <2>2. stored[hand[c].order] \in SUBSET Batches
    BY <2>1 DEF TypeOK
  <2> QED
    BY <1>0, <1>4, <2>1, <2>2, HandDeleting, HandChanges DEF DeleteItems
<1>5. ASSUME NEW c \in Consumers, hand' = [hand EXCEPT ![c] = Idle] PROVE HandOK'
  BY <1>0, <1>5, IdleFields, HandChanges
<1>6. CASE Crash
  BY <1>6, IdleFields DEF Crash, HandOK
<1>7. CASE UNCHANGED hand
  BY <1>0, <1>7 DEF HandOK
<1>8. ASSUME NEW c \in Consumers,
             \/ ConsumerStep(c) \/ ReleaseFails(c) \/ HandleFails(c)
      PROVE  HandOK'
  <2>1. ASSUME NEW o \in Orders, DeliverItem(o) PROVE Hold("item", o)
    BY <2>1 DEF DeliverItem
  <2>2. ASSUME NEW o \in Orders, DeliverWebhook(o) PROVE Hold("webhook", o)
    BY <2>2 DEF DeliverWebhook
  <2>3. CASE InsertItems(c) \/ HandleFails(c)
    BY <1>5, <2>3 DEF InsertItems, HandleFails
  <2> QED
    BY <1>1, <1>2, <1>3, <1>4, <1>5, <1>8, <2>1, <2>2, <2>3
       DEF ConsumerStep, Consumers
<1>9. ASSUME \/ FanOutStep \/ \E o \in Orders : Change(o) \/ KeyExpires(o)
             \/ OrdersSyncJob \/ OrdersReconciliationJob \/ Tick
      PROVE  UNCHANGED hand
  <2>1. FanOutStep => UNCHANGED hand
    BY DEF FanOutStep, StartFanOut, ListOrders, FilterNewOrChanged, PublishItem, EndFanOut,
           ClaimPending
  <2> QED
    BY <1>9, <2>1 DEF Change, KeyExpires, OrdersSyncJob, OrdersReconciliationJob, Tick
<1>10. CASE Failure
  <2>1. ReconciliationFails \/ PublishFails \/ FanOutFails => UNCHANGED hand
    BY DEF ReconciliationFails, PublishFails, FanOutFails
  <2>2. \A o \in Orders : ClaimFails(o) => UNCHANGED hand
    BY DEF ClaimFails
  <2> QED
    BY <1>6, <1>7, <1>8, <1>10, <2>1, <2>2 DEF Failure
<1> QED
  BY <1>7, <1>8, <1>9, <1>10 DEF Next, vars

\* Orders that Tiny has or had, and what is stored of them.
LEMMA DataStep ==
    TypeOK /\ [Next]_vars =>
        /\ now' \in Nat /\ reconciled' \in Nat
        /\ tiny' \in [Orders -> Copies \cup [version : 1..MaxVersion, situation : {Gone}]
                                        \cup {Missing}]
        /\ updated' \in [Orders -> Nat]
        /\ mirror' \in [Orders -> Copies \cup {Missing}]
        /\ stored' \in [Orders -> SUBSET Batches]
<1> DEFINE Goal == /\ now' \in Nat /\ reconciled' \in Nat
                   /\ tiny' \in [Orders -> Copies \cup [version : 1..MaxVersion,
                                                        situation : {Gone}] \cup {Missing}]
                   /\ updated' \in [Orders -> Nat]
                   /\ mirror' \in [Orders -> Copies \cup {Missing}]
                   /\ stored' \in [Orders -> SUBSET Batches]
<1> SUFFICES ASSUME TypeOK, [Next]_vars PROVE Goal
  OBVIOUS
<1>0. Day \in Nat
  BY DEF TypeOK, Day, StepsPerDay
<1>1. CASE UNCHANGED <<now, reconciled, source, copy>>
  BY <1>1 DEF TypeOK, source, copy
<1>2. ASSUME NEW o \in Orders, Change(o) PROVE Goal
  <2>1. PICK s \in Situations \cup {Gone} :
          tiny' = [tiny EXCEPT ![o] = [version |-> tiny[o].version + 1, situation |-> s]]
    BY <1>2 DEF Change
  <2>2. tiny[o].version \in Nat /\ tiny[o].version < MaxVersion
    BY <1>2, ParametersAssumption DEF TypeOK, Change, Copies, Missing
  <2>3. [version |-> tiny[o].version + 1, situation |-> s]
          \in Copies \cup [version : 1..MaxVersion, situation : {Gone}]
    BY <2>2, ParametersAssumption DEF Copies
  <2>4. UNCHANGED <<now, reconciled, copy>> /\ updated' = [updated EXCEPT ![o] = Day]
    BY <1>2 DEF Change
  <2> QED
    BY <1>0, <2>1, <2>3, <2>4 DEF TypeOK, copy
<1>3. ASSUME OrdersReconciliationJob \/ ReconciliationFails PROVE Goal
  BY <1>0, <1>3 DEF OrdersReconciliationJob, ReconciliationFails, TypeOK, source, copy
<1>4. CASE Tick
  BY <1>4 DEF Tick, TypeOK, source, copy
<1>5. ASSUME NEW c \in Consumers, Upsert(c) PROVE Goal
  <2>1. hand[c].order \in Orders /\ hand[c].copy \in Copies
    BY <1>5 DEF TypeOK, HandOK, Upsert
  <2> QED
    BY <1>5, <2>1 DEF Upsert, TypeOK, source
<1>6. ASSUME NEW c \in Consumers, InsertItems(c) PROVE Goal
  <2>1. hand[c].order \in Orders /\ hand[c].copy \in Copies
    BY <1>6 DEF TypeOK, HandOK, InsertItems
  <2>2. Batch(c) \in Batches
    BY <2>1 DEF Batch, Batches, Copies
  <2> QED
    BY <1>6, <2>1, <2>2 DEF InsertItems, TypeOK, source
<1>7. ASSUME NEW c \in Consumers, ConsumerStep(c) PROVE Goal
  BY <1>1, <1>5, <1>6, <1>7
     DEF ConsumerStep, DeliverItem, DeliverWebhook, ReleasePending, GetOrder, DeleteItems
<1>8. CASE FanOutStep
  BY <1>1, <1>8
     DEF FanOutStep, StartFanOut, ListOrders, FilterNewOrChanged, ClaimPending, PublishItem,
         EndFanOut
<1>9. CASE Failure
  BY <1>1, <1>3, <1>9
     DEF Failure, PublishFails, FanOutFails, ClaimFails, ReleaseFails, HandleFails, Crash
<1>10. ASSUME (\E o \in Orders : KeyExpires(o)) \/ OrdersSyncJob PROVE Goal
  BY <1>1, <1>10 DEF KeyExpires, OrdersSyncJob
<1> HIDE DEF Goal
<1> QED
  BY <1>1, <1>2, <1>3, <1>4, <1>7, <1>8, <1>9, <1>10 DEF Next, vars

\* Keys, queues and counters.
LEMMA QueueStep ==
    TypeOK /\ [Next]_vars =>
        /\ pending' \in [Orders -> Keys]
        /\ queue' \in [Orders -> Nat] /\ hooks' \in [Orders -> Nat]
        /\ full' \in Seq(Nat \cup {Incremental})
        /\ sent' \in 0..MaxSent /\ lapsed' \in BOOLEAN
        /\ crashes' \in Nat /\ faults' \in Nat /\ crashes' + faults' <= MaxFailures
<1> DEFINE Goal == /\ pending' \in [Orders -> Keys]
                   /\ queue' \in [Orders -> Nat] /\ hooks' \in [Orders -> Nat]
                   /\ full' \in Seq(Nat \cup {Incremental})
                   /\ sent' \in 0..MaxSent /\ lapsed' \in BOOLEAN
                   /\ crashes' \in Nat /\ faults' \in Nat
                   /\ crashes' + faults' <= MaxFailures
<1> SUFFICES ASSUME TypeOK, [Next]_vars PROVE Goal
  OBVIOUS
<1> USE ParametersAssumption DEF TypeOK
<1>k. NoKey \in Keys /\ now \in Keys
  BY DEF Keys
<1>0. Day \in Nat /\ Day - 1 \in Nat \cup {Incremental}
  BY DEF Day, StepsPerDay, Incremental
<1>1. ASSUME UNCHANGED <<pending, broker, counts>> PROVE Goal
  BY <1>1 DEF broker, counts
<1>2. ASSUME NEW o \in Orders, Change(o) PROVE Goal
  BY <1>2 DEF Change
<1>3. ASSUME OrdersSyncJob \/ OrdersReconciliationJob PROVE Goal
  <2>1. PICK m \in Nat \cup {Incremental} : full' = Append(full, m)
    BY <1>0, <1>3 DEF OrdersSyncJob, OrdersReconciliationJob
  <2>2. Append(full, m) \in Seq(Nat \cup {Incremental})
    OBVIOUS
  <2>3. UNCHANGED <<pending, queue, hooks, counts>>
    BY <1>3 DEF OrdersSyncJob, OrdersReconciliationJob
  <2> QED
    BY <2>1, <2>2, <2>3 DEF counts
<1>4. CASE StartFanOut
  <2>1. full # <<>> /\ full' = Tail(full) /\ UNCHANGED <<pending, queue, hooks, counts>>
    BY <1>4 DEF StartFanOut
  <2>2. Tail(full) \in Seq(Nat \cup {Incremental})
    BY <2>1
  <2> QED
    BY <2>1, <2>2 DEF counts
<1>5. ASSUME NEW o \in Orders, ClaimPending(o) PROVE Goal
  <2>1. pending' = pending \/ pending' = [pending EXCEPT ![o] = now]
    BY <1>5 DEF ClaimPending
  <2>2. UNCHANGED <<broker, counts>>
    BY <1>5 DEF ClaimPending
  <2>3. pending' \in [Orders -> Keys]
    BY <1>k, <2>1
  <2> QED
    BY <2>2, <2>3 DEF broker, counts
<1>6. ASSUME PublishItem PROVE Goal
  <2>1. fan.order \in Orders
    BY <1>6 DEF PublishItem, FanOK
  <2> QED
    BY <1>6, <2>1 DEF PublishItem, counts
<1>7. ASSUME PublishFails PROVE Goal
  <2>1. fan.order \in Orders
    BY <1>7 DEF PublishFails, FanOK
  <2>2. queue' \in [Orders -> Nat] /\ pending' \in [Orders -> Keys]
    <3>1. pending' = [pending EXCEPT ![fan.order] = NoKey]
      BY <1>7 DEF PublishFails
    <3>2. queue' = queue \/ queue' = [queue EXCEPT ![fan.order] = queue[fan.order] + 1]
      BY <1>7 DEF PublishFails
    <3>3. queue[fan.order] + 1 \in Nat
      BY <2>1
    <3>4. pending \in [Orders -> Keys] /\ queue \in [Orders -> Nat]
      OBVIOUS
    <3> HIDE DEF TypeOK
    <3>5. pending' \in [Orders -> Keys]
      BY <1>k, <2>1, <3>1, <3>4
    <3>6. queue' \in [Orders -> Nat]
      BY <2>1, <3>2, <3>3, <3>4
    <3> QED
      BY <3>5, <3>6
  <2>3. UNCHANGED <<hooks, full>> /\ Fault
    BY <1>7 DEF PublishFails
  <2> QED
    BY <2>2, <2>3 DEF Fault
<1>8. ASSUME NEW o \in Orders, DeliverItem(o) \/ DeliverWebhook(o) PROVE Goal
  <2>1. queue' \in [Orders -> Nat] /\ hooks' \in [Orders -> Nat]
    <3>1. CASE DeliverItem(o)
      <4>1. queue[o] \in Nat /\ queue[o] > 0 /\ queue' = [queue EXCEPT ![o] = queue[o] - 1]
            /\ hooks' = hooks
        BY <3>1 DEF DeliverItem
      <4> QED
        BY <4>1
    <3>2. CASE DeliverWebhook(o)
      <4>1. hooks[o] \in Nat /\ hooks[o] > 0 /\ hooks' = [hooks EXCEPT ![o] = hooks[o] - 1]
            /\ queue' = queue
        BY <3>2 DEF DeliverWebhook
      <4> QED
        BY <4>1
    <3> QED
      BY <1>8, <3>1, <3>2
  <2>2. UNCHANGED <<pending, full, counts>>
    BY <1>8 DEF DeliverItem, DeliverWebhook
  <2> QED
    BY <2>1, <2>2 DEF counts
<1>9. ASSUME NEW c \in Consumers, ReleasePending(c) PROVE Goal
  BY <1>k, <1>9 DEF ReleasePending, broker, counts
<1>10. ASSUME NEW o \in Orders, KeyExpires(o) PROVE Goal
  BY <1>k, <1>10 DEF KeyExpires, broker
<1>11. ASSUME Fault, UNCHANGED <<pending, broker>> PROVE Goal
  BY <1>11 DEF Fault, broker
<1>12. CASE Crash
  <2>1. full' \in Seq(Nat \cup {Incremental})
    <3>1. fan.message \in Nat \cup {Incremental}
      BY DEF FanOK, Fans
    <3>2. <<fan.message>> \o full \in Seq(Nat \cup {Incremental})
      BY <3>1
    <3>3. full' = full \/ full' = <<fan.message>> \o full
      BY <1>12 DEF Crash
    <3> QED
      BY <3>2, <3>3
  <2>2. queue' \in [Orders -> Nat] /\ hooks' \in [Orders -> Nat]
    BY <1>12 DEF Crash
  <2> QED
    BY <1>12, <2>1, <2>2 DEF Crash
<1> HIDE DEF Goal
<1>13. ASSUME NEW c \in Consumers, ConsumerStep(c) PROVE Goal
  BY <1>1, <1>8, <1>9, <1>13
     DEF ConsumerStep, GetOrder, Upsert, DeleteItems, InsertItems
<1>14. CASE FanOutStep
  BY <1>1, <1>4, <1>5, <1>6, <1>14
     DEF FanOutStep, ListOrders, FilterNewOrChanged, EndFanOut
<1>15. CASE Failure
  BY <1>7, <1>11, <1>12, <1>15
     DEF Failure, ReconciliationFails, FanOutFails, ClaimFails, ReleaseFails, HandleFails
<1>16. Tick => Goal
  BY <1>1 DEF Tick
<1> QED
  BY <1>1, <1>2, <1>3, <1>10, <1>13, <1>14, <1>15, <1>16 DEF Next, vars

LEMMA TypeStep == TypeOK /\ [Next]_vars => TypeOK'
  BY FanStep, HandStep, DataStep, QueueStep DEF TypeOK

LEMMA InitTypes == Init => TypeOK
<1> SUFFICES ASSUME Init PROVE TypeOK
  OBVIOUS
<1>1. FanOK /\ HandOK
  BY FanIdleFields, IdleFields DEF Init, FanOK, HandOK
<1>2. now \in Nat /\ Day \in Nat /\ reconciled \in Nat
  BY ParametersAssumption DEF Init, Day, StepsPerDay
<1>3. full \in Seq(Nat \cup {Incremental})
  BY DEF Init
<1>4. /\ pending \in [Orders -> Keys] /\ queue \in [Orders -> Nat]
      /\ hooks \in [Orders -> Nat] /\ updated \in [Orders -> Nat]
      /\ stored \in [Orders -> SUBSET Batches]
  BY DEF Init, Keys
<1>5. /\ mirror \in [Orders -> Copies \cup {Missing}]
      /\ tiny \in [Orders -> Copies \cup [version : 1..MaxVersion, situation : {Gone}]
                                     \cup {Missing}]
  BY DEF Init
<1>6. sent = 0 /\ lapsed = FALSE /\ crashes = 0 /\ faults = 0
  BY Zenon DEF Init
<1>7. /\ sent \in 0..MaxSent /\ crashes \in Nat /\ faults \in Nat
      /\ crashes + faults <= MaxFailures
  BY <1>6, ParametersAssumption
<1> QED
  BY <1>1, <1>2, <1>3, <1>4, <1>5, <1>6, <1>7 DEF TypeOK

\* The state is well-typed: a consumer stores only what it fetched, and publishes
\* only what it listed.
THEOREM TypeCorrect == Spec => []TypeOK
  BY InitTypes, TypeStep, PTL DEF Spec

---------------------------------------------------------------------------
(* Keys and messages                                                       *)

AtFan(o) == fan.step = "publish" /\ fan.order = o
AtRelease(c, o) == hand[c].step = "release" /\ hand[c].order = o

Calm == crashes = 0 /\ faults = 0
Alone == Calm /\ sent = 0 /\ ~lapsed

\* A key stands for a message that waits, is about to, or was just taken.
Backed(o) == pending[o] # NoKey => queue[o] > 0 \/ AtFan(o) \/ \E c \in Consumers : AtRelease(c, o)

\* And, as long as nothing but its consumer takes it away, for one message only:
\* an order without a key has none, and where its message is, it is alone.
Once(o) ==
    /\ hooks[o] = 0 /\ hand["webhook"].step = "idle" /\ queue[o] <= 1
    /\ pending[o] = NoKey => queue[o] = 0 /\ ~AtFan(o) /\ ~AtRelease("item", o)
    /\ AtFan(o) => queue[o] = 0 /\ ~AtRelease("item", o)
    /\ AtRelease("item", o) => queue[o] = 0

KeyInv ==
    /\ TypeOK
    /\ Calm => \A o \in Orders : Backed(o)
    /\ Alone => \A o \in Orders : Once(o)

LEMMA KeyStep == KeyInv /\ [Next]_vars => KeyInv'
<1> SUFFICES ASSUME KeyInv, [Next]_vars PROVE KeyInv'
  OBVIOUS
<1>1. TypeOK /\ TypeOK'
  BY TypeStep DEF KeyInv
<1> SUFFICES ASSUME Calm', NEW p \in Orders PROVE Backed(p)' /\ (Alone' => Once(p)')
  BY <1>1 DEF KeyInv, Alone, Calm
<1>2. /\ crashes \in Nat /\ faults \in Nat /\ sent \in Nat /\ lapsed \in BOOLEAN
      /\ now \in Nat /\ pending \in [Orders -> Keys]
      /\ queue \in [Orders -> Nat] /\ hooks \in [Orders -> Nat]
  BY <1>1, ParametersAssumption DEF TypeOK
<1>3. ~Failure
  <2>1. ~Fault /\ ~Crash
    BY <1>2 DEF Fault, Crash, Calm
  <2> QED
    BY <2>1 DEF Failure, ReconciliationFails, PublishFails, FanOutFails, ClaimFails,
                ReleaseFails, HandleFails
<1>4. /\ UNCHANGED <<crashes, faults>>
      /\ UNCHANGED <<sent, lapsed>> \/ (\E o \in Orders : Change(o) \/ KeyExpires(o))
  <2>1. ASSUME NEW c \in Consumers, ConsumerStep(c) PROVE UNCHANGED counts
    BY <2>1 DEF ConsumerStep, DeliverItem, DeliverWebhook, ReleasePending, GetOrder, Upsert,
                DeleteItems, InsertItems
  <2>2. FanOutStep => UNCHANGED counts
    BY DEF FanOutStep, StartFanOut, ListOrders, FilterNewOrChanged, ClaimPending,
           PublishItem, EndFanOut
  <2> QED
    BY <1>3, <2>1, <2>2
       DEF Next, vars, counts, Change, KeyExpires, OrdersSyncJob, OrdersReconciliationJob,
           Tick
<1>5. Calm /\ (Alone' => Alone)
  <2>1. ASSUME NEW o \in Orders, Change(o), sent' = 0 PROVE sent = 0 /\ lapsed' = lapsed
    BY <1>2, <2>1 DEF Change
  <2>2. ASSUME NEW o \in Orders, KeyExpires(o) PROVE lapsed'
    BY <2>2 DEF KeyExpires
  <2>3. Calm
    BY <1>4 DEF Calm
  <2> QED
    BY <1>4, <2>1, <2>2, <2>3 DEF Alone
<1>6. \A o \in Orders : Backed(o) /\ (Alone => Once(o))
  BY <1>5 DEF KeyInv
<1> USE DEF Backed, Once, AtFan, AtRelease, Consumers
<1>7. ASSUME UNCHANGED <<hand, pending, queue, hooks>>,
             UNCHANGED fan \/ (fan.step # "publish" /\ fan'.step # "publish")
      PROVE  Backed(p)' /\ (Alone' => Once(p)')
  BY <1>5, <1>6, <1>7
<1>8. ASSUME NEW o \in Orders, Change(o) PROVE Backed(p)' /\ (Alone' => Once(p)')
  <2>1. UNCHANGED <<hand, pending, queue, fan>> /\ (UNCHANGED hooks \/ sent' > 0)
    BY <1>2, <1>8 DEF Change
  <2> QED
    BY <1>5, <1>6, <2>1 DEF Alone
<1>9. ASSUME NEW o \in Orders, KeyExpires(o) PROVE Backed(p)' /\ (Alone' => Once(p)')
  <2>1. UNCHANGED <<hand, queue, fan>> /\ lapsed' /\ pending' = [pending EXCEPT ![o] = NoKey]
    BY <1>9 DEF KeyExpires, broker
  <2> QED
    BY <1>2, <1>6, <2>1 DEF Alone
<1>10. ASSUME NEW o \in Orders, ClaimPending(o) PROVE Backed(p)' /\ (Alone' => Once(p)')
  <2>1. Without(o) \in Fans /\ Without(o).step = "claim"
    <3>1. fan \in Fans /\ {r \in fan.listed : r.order # o} \in SUBSET Listings
      BY <1>1 DEF TypeOK, FanOK, Fans
    <3> QED
      BY <3>1, FanListed DEF Without
  <2>2. Publishing(o).step = "publish" /\ Publishing(o).order = o
    BY <2>1, FanHolding DEF Publishing
  <2>3. fan.step = "claim" /\ UNCHANGED <<hand, queue, hooks>>
    BY <1>10 DEF ClaimPending, broker
  <2>4. CASE pending[o] = NoKey
    <3>1. pending' = [pending EXCEPT ![o] = now] /\ fan' = Publishing(o) /\ now # NoKey
      BY <1>2, <1>10, <2>4 DEF ClaimPending, NoKey
    <3> QED
      BY <1>2, <1>5, <1>6, <2>2, <2>3, <2>4, <3>1
  <2>5. CASE pending[o] # NoKey
    <3>1. fan' = Without(o) /\ UNCHANGED pending
      BY <1>10, <2>5 DEF ClaimPending
    <3> QED
      BY <1>7, <2>1, <2>3, <3>1
  <2> QED
    BY <2>4, <2>5
<1>11. CASE PublishItem
  <2>1. fan.step = "publish" /\ fan.order \in Orders /\ fan'.step = "claim"
    <3>1. fan \in Fans /\ fan.step = "publish" /\ fan.order \in Orders
      BY <1>1, <1>11 DEF PublishItem, TypeOK, FanOK
    <3>2. fan' = Holding(fan, "claim", Nobody)
      BY <1>11 DEF PublishItem
    <3>3. Holding(fan, "claim", Nobody).step = "claim"
      BY <3>1, FanHolding
    <3> QED
      BY <3>1, <3>2, <3>3
  <2>2. /\ queue'[fan.order] = queue[fan.order] + 1
        /\ \A o \in Orders \ {fan.order} : queue'[o] = queue[o]
        /\ UNCHANGED <<hand, pending, hooks>>
    BY <1>2, <1>11, <2>1 DEF PublishItem
  <2>3. CASE p = fan.order
    BY <1>2, <1>5, <1>6, <2>1, <2>2, <2>3
  <2>4. CASE p # fan.order
    BY <1>2, <1>5, <1>6, <2>1, <2>2, <2>4
  <2> QED
    BY <2>3, <2>4
<1>12. ASSUME NEW o \in Orders, DeliverItem(o) PROVE Backed(p)' /\ (Alone' => Once(p)')
  <2>1. /\ hand["item"].step = "idle" /\ UNCHANGED <<hooks, pending, fan>>
        /\ queue[o] > 0 /\ queue'[o] = queue[o] - 1
        /\ \A q \in Orders \ {o} : queue'[q] = queue[q]
    BY <1>2, <1>12 DEF DeliverItem
  <2>2. /\ hand'["item"].step = "release" /\ hand'["item"].order = o
        /\ hand'["webhook"] = hand["webhook"]
    BY <1>1, <1>12, IdleFields, HandChanges, ZenonT(30) DEF DeliverItem, Hold, TypeOK
  <2>3. CASE p = o
    BY <1>2, <1>5, <1>6, <2>1, <2>2, <2>3
  <2>4. CASE p # o
    BY <1>2, <1>5, <1>6, <2>1, <2>2, <2>4
  <2> QED
    BY <2>3, <2>4
<1>13. ASSUME NEW o \in Orders, DeliverWebhook(o) PROVE Backed(p)' /\ (Alone' => Once(p)')
  <2>1. /\ hand["webhook"].step = "idle" /\ UNCHANGED <<queue, pending, fan>> /\ hooks[o] # 0
    BY <1>2, <1>13 DEF DeliverWebhook
  <2>2. hand'["item"] = hand["item"]
    BY <1>1, <1>13, IdleFields, HandChanges, ZenonT(30) DEF DeliverWebhook, Hold, TypeOK
  <2> QED
    BY <1>5, <1>6, <2>1, <2>2
<1>14. ASSUME NEW c \in Consumers, ReleasePending(c) PROVE Backed(p)' /\ (Alone' => Once(p)')
  <2>1. /\ hand[c].step = "release" /\ hand[c] \in Hands /\ hand[c].order \in Orders
        /\ UNCHANGED <<queue, hooks, fan>>
        /\ pending'[hand[c].order] = NoKey
        /\ \A o \in Orders \ {hand[c].order} : pending'[o] = pending[o]
    BY <1>1, <1>2, <1>14 DEF ReleasePending, TypeOK, HandOK, broker
  <2>2. hand'[c].step = "fetch" /\ \A d \in Consumers \ {c} : hand'[d] = hand[d]
    <3>1. hand' = [hand EXCEPT ![c] = Moved(hand[c], "fetch")]
      BY <1>14 DEF ReleasePending
    <3>2. /\ Moved(hand[c], "fetch") \in Hands /\ Moved(hand[c], "fetch").step = "fetch"
          /\ Moved(hand[c], "fetch").order \in Orders
      BY <2>1, HandMoved
    <3> QED
      BY <1>1, <3>1, <3>2, HandChanges DEF TypeOK
  <2>3. CASE p = hand[c].order
    BY <1>5, <1>6, <2>1, <2>2, <2>3
  <2>4. CASE p # hand[c].order
    BY <1>5, <1>6, <2>1, <2>2, <2>4
  <2> QED
    BY <2>3, <2>4
<1>15. ASSUME NEW c \in Consumers, GetOrder(c) \/ Upsert(c) \/ DeleteItems(c) \/ InsertItems(c)
       PROVE  Backed(p)' /\ (Alone' => Once(p)')
  <2>1. /\ hand[c].step \notin {"idle", "release"} /\ UNCHANGED <<pending, queue, hooks, fan>>
    BY <1>15 DEF GetOrder, Upsert, DeleteItems, InsertItems, broker
  <2>2. hand'[c].step # "release" /\ \A d \in Consumers \ {c} : hand'[d] = hand[d]
    <3>0. hand \in [Consumers -> Hands] /\ hand[c] \in Hands /\ hand[c].order \in Orders
      BY <1>1, <2>1 DEF TypeOK, HandOK, Hands
    <3>1. PICK n : /\ hand' = [hand EXCEPT ![c] = n] /\ n.step # "release"
      <4>1. CASE hand' = [hand EXCEPT ![c] = Idle]
        BY <4>1, IdleFields
      <4>2. CASE GetOrder(c) /\ hand' # [hand EXCEPT ![c] = Idle]
        <5>1. hand' = [hand EXCEPT ![c] = Fetched(hand[c], tiny[hand[c].order])]
          BY <4>2 DEF GetOrder
        <5>2. Fetched(hand[c], tiny[hand[c].order]).step = "upsert"
          BY <3>0 DEF Fetched, Hands
        <5> QED
          BY <5>1, <5>2
      <4>3. CASE Upsert(c)
        <5>1. hand' = [hand EXCEPT ![c] = Moved(hand[c], "delete")]
          BY <4>3 DEF Upsert
        <5> QED
          BY <3>0, <5>1, HandMoved
      <4>4. CASE DeleteItems(c)
        <5>1. hand' = [hand EXCEPT ![c] = Deleting(hand[c], stored[hand[c].order])]
          BY <4>4 DEF DeleteItems
        <5>2. Deleting(hand[c], stored[hand[c].order]).step = "insert"
          BY <3>0 DEF Deleting, Hands
        <5> QED
          BY <5>1, <5>2
      <4> QED
        BY <1>15, <4>1, <4>2, <4>3, <4>4 DEF InsertItems
    <3> QED
      BY <3>0, <3>1
  <2> QED
    BY <1>5, <1>6, <2>1, <2>2
<1> QED
  <2>1. ASSUME FanOutStep PROVE Backed(p)' /\ (Alone' => Once(p)')
    <3>1. CASE StartFanOut
      <4>1. Head(full) \in Nat \cup {Incremental}
        <5>1. full # <<>> /\ full \in Seq(Nat \cup {Incremental})
          BY <1>1, <3>1 DEF StartFanOut, TypeOK
        <5> QED
          BY <5>1
      <4> QED
        BY <1>7, <3>1, <4>1, FanIdleFields DEF StartFanOut
    <3>2. CASE ListOrders \/ FilterNewOrChanged
      <4>1. PICK s \in {"filter", "claim"}, L \in SUBSET Listings : fan' = Listed(fan, s, L)
        <5>1. CASE ListOrders
          <6>1. PICK since \in UpdatedAfter :
                  fan' = Listed(fan, IF fan.message = Incremental THEN "filter" ELSE "claim",
                                ListedSince(since))
            BY <5>1 DEF ListOrders
          <6>2. ListedSince(since) \in SUBSET Listings
            BY DEF ListedSince
          <6> QED
            BY <6>1, <6>2
        <5>2. CASE FilterNewOrChanged
          <6>1. {r \in fan.listed : mirror[r.order].situation # r.situation}
                  \in SUBSET Listings
            BY <1>1 DEF TypeOK, FanOK, Fans
          <6> QED
            BY <5>2, <6>1 DEF FilterNewOrChanged
        <5> QED
          BY <3>2, <5>1, <5>2
      <4>2. fan'.step # "publish"
        BY <1>1, <4>1, FanListed DEF TypeOK, FanOK
      <4> QED
        BY <1>7, <3>2, <4>2 DEF ListOrders, FilterNewOrChanged, broker
    <3>3. CASE EndFanOut
      BY <1>7, <3>3, FanIdleFields DEF EndFanOut, broker
    <3> QED
      BY <1>10, <1>11, <2>1, <3>1, <3>2, <3>3 DEF FanOutStep
  <2>2. ASSUME NEW c \in Consumers, ConsumerStep(c)
        PROVE  Backed(p)' /\ (Alone' => Once(p)')
    BY <1>12, <1>13, <1>14, <1>15, <2>2 DEF ConsumerStep
  <2>3. CASE OrdersSyncJob \/ OrdersReconciliationJob \/ Tick \/ UNCHANGED vars
    BY <1>7, <2>3 DEF OrdersSyncJob, OrdersReconciliationJob, Tick, vars, broker
  <2> QED
    BY <1>3, <1>8, <1>9, <2>1, <2>2, <2>3 DEF Next

LEMMA InitKeys == Init => KeyInv
<1> SUFFICES ASSUME Init, NEW o \in Orders PROVE TypeOK /\ Backed(o) /\ Once(o)
  BY InitTypes DEF KeyInv
<1>1. TypeOK
  BY InitTypes
<1>2. /\ pending[o] = NoKey /\ queue[o] = 0 /\ hooks[o] = 0 /\ fan.step = "idle"
      /\ \A c \in Consumers : hand[c].step = "idle"
  BY FanIdleFields, IdleFields DEF Init
<1> QED
  BY <1>1, <1>2 DEF Backed, Once, AtFan, AtRelease, Consumers

LEMMA KeyInvariant == Spec => []KeyInv
  BY InitKeys, KeyStep, PTL DEF Spec

\* "The TTL only matters if a message is lost": without deaths and failures a key
\* in Redis stands for a message, so that the fan-out of _claim_pending that leaves
\* an order out for its key never leaves it to nobody.
THEOREM ClaimsBacked == Spec => []ClaimBacked
<1>1. KeyInv => ClaimBacked
  BY DEF KeyInv, Calm, Backed, AtFan, AtRelease, ClaimBacked
<1> QED
  BY <1>1, KeyInvariant, PTL

\* "Ids already pending on the item queue are never published twice": without
\* webhooks, expiries, deaths and failures at most one message for an order waits.
THEOREM OncePublished == Spec => []PublishedOnce
<1>1. KeyInv => PublishedOnce
  BY DEF KeyInv, Calm, Alone, Once, PublishedOnce
<1> QED
  BY <1>1, KeyInvariant, PTL

---------------------------------------------------------------------------
(* What each step of a consumer does to its record                         *)

Taking(c, o) == (c = "item" /\ DeliverItem(o)) \/ (c = "webhook" /\ DeliverWebhook(o))

Others(c) == \A d \in Consumers \ {c} : hand'[d] = hand[d]

LEMMA TakingStep ==
    ASSUME TypeOK, NEW c \in Consumers, NEW o \in Orders, Taking(c, o)
    PROVE  /\ hand[c].step = "idle" /\ hand'[c].step = "release" /\ hand'[c].order = o
           /\ Others(c)
<1>1. Hold(c, o) /\ hand[c].step = "idle"
  BY DEF Taking, DeliverItem, DeliverWebhook
<1>2. HandOK
  BY DEF TypeOK
<1> DEFINE n == [Idle EXCEPT !.step = "release", !.order = o]
<1>3. n \in Hands /\ n.step = "release" /\ n.order = o
  BY IdleFields
<1>4. hand' = [hand EXCEPT ![c] = n]
  BY <1>1 DEF Hold
<1> HIDE DEF n
<1>5. hand'[c] = n /\ \A d \in Consumers \ {c} : hand'[d] = hand[d]
  BY <1>2, <1>3, <1>4, HandChanges
<1> QED
  BY <1>1, <1>3, <1>5 DEF Others

LEMMA ReleasingStep ==
    ASSUME TypeOK, NEW c \in Consumers, ReleasePending(c) \/ ReleaseFails(c)
    PROVE  /\ hand[c].step = "release" /\ hand'[c].step = "fetch" /\ hand[c].order \in Orders
           /\ hand'[c].order = hand[c].order /\ Others(c)
<1>1. hand[c].step = "release" /\ hand' = [hand EXCEPT ![c] = Moved(hand[c], "fetch")]
  BY DEF ReleasePending, ReleaseFails
<1>2. hand[c] \in Hands /\ hand[c].order \in Orders
  BY <1>1 DEF TypeOK, HandOK
<1>3. HandOK
  BY DEF TypeOK
<1> QED
  BY <1>1, <1>2, <1>3, HandMoved, HandChanges, ZenonT(30) DEF Others

LEMMA FetchingStep ==
    ASSUME TypeOK, NEW c \in Consumers, GetOrder(c)
    PROVE  /\ hand[c].step = "fetch" /\ hand[c].order \in Orders /\ Others(c)
           /\ \/ tiny[hand[c].order].situation = Gone /\ hand'[c] = Idle
              \/ /\ tiny[hand[c].order] \in Copies /\ tiny[hand[c].order].situation # Gone
                 /\ hand'[c].step = "upsert" /\ hand'[c].order = hand[c].order
                 /\ hand'[c].copy = tiny[hand[c].order] /\ hand'[c].at = now
<1>1. hand[c].step = "fetch" /\ hand[c] \in Hands /\ hand[c].order \in Orders
  BY DEF TypeOK, HandOK, GetOrder
<1>2. CASE tiny[hand[c].order].situation = Gone
  <2>1. hand' = [hand EXCEPT ![c] = Idle]
    BY <1>2 DEF GetOrder
  <2> QED
    BY <1>1, <1>2, <2>1 DEF TypeOK, HandOK, Others
<1>3. CASE tiny[hand[c].order].situation # Gone
  <2>1. hand' = [hand EXCEPT ![c] = Fetched(hand[c], tiny[hand[c].order])]
    BY <1>3 DEF GetOrder
  <2>2. tiny[hand[c].order] \in Copies
    <3>1. tiny[hand[c].order] \in Copies \cup [version : 1..MaxVersion, situation : {Gone}]
                                        \cup {Missing}
      BY <1>1 DEF TypeOK
    <3> QED
      BY <1>3, <3>1 DEF Missing
  <2>3. Fetched(hand[c], tiny[hand[c].order]).at = now
    BY <1>1 DEF Fetched, Hands
  <2>4. HandOK /\ now \in Nat
    BY DEF TypeOK
  <2>5. /\ Fetched(hand[c], tiny[hand[c].order]) \in Hands
        /\ Fetched(hand[c], tiny[hand[c].order]).step = "upsert"
        /\ Fetched(hand[c], tiny[hand[c].order]).order = hand[c].order
        /\ Fetched(hand[c], tiny[hand[c].order]).copy = tiny[hand[c].order]
    BY <1>1, <2>2, <2>4, HandFetched
  <2>6. /\ hand'[c] = Fetched(hand[c], tiny[hand[c].order])
        /\ \A d \in Consumers \ {c} : hand'[d] = hand[d]
    BY <1>1, <2>1, <2>2, <2>4, <2>5, HandChanges
  <2> QED
    BY <1>1, <1>3, <2>2, <2>3, <2>5, <2>6 DEF Others
<1> QED
  BY <1>2, <1>3

LEMMA UpsertingStep ==
    ASSUME TypeOK, NEW c \in Consumers, Upsert(c)
    PROVE  /\ hand[c].step = "upsert" /\ hand'[c].step = "delete" /\ hand[c].order \in Orders
           /\ hand[c].copy \in Copies /\ hand'[c].copy = hand[c].copy
           /\ hand'[c].order = hand[c].order /\ hand'[c].at = hand[c].at /\ Others(c)
<1>1. hand[c].step = "upsert" /\ hand' = [hand EXCEPT ![c] = Moved(hand[c], "delete")]
  BY DEF Upsert
<1>2. hand[c] \in Hands /\ hand[c].order \in Orders /\ hand[c].copy \in Copies
  BY <1>1 DEF TypeOK, HandOK
<1>3. Moved(hand[c], "delete").at = hand[c].at
  BY <1>2 DEF Moved, Hands
<1>4. HandOK
  BY DEF TypeOK
<1> DEFINE n == Moved(hand[c], "delete")
<1>5. /\ n \in Hands /\ n.step = "delete" /\ n.order = hand[c].order
      /\ n.copy = hand[c].copy /\ n.at = hand[c].at
  BY <1>2, <1>3, HandMoved
<1> HIDE DEF n
<1>6. hand'[c] = n /\ \A d \in Consumers \ {c} : hand'[d] = hand[d]
  <2>1. hand' = [hand EXCEPT ![c] = n]
    BY <1>1 DEF n
  <2> QED
    BY <1>2, <1>4, <1>5, <2>1, HandChanges
<1> QED
  BY <1>1, <1>2, <1>5, <1>6 DEF Others

LEMMA DeletingStep ==
    ASSUME TypeOK, NEW c \in Consumers, DeleteItems(c)
    PROVE  /\ hand[c].step = "delete" /\ hand'[c].step = "insert" /\ hand[c].order \in Orders
           /\ hand'[c].copy = hand[c].copy /\ hand'[c].order = hand[c].order
           /\ hand'[c].at = hand[c].at /\ hand'[c].seen = stored[hand[c].order] /\ Others(c)
<1>1. /\ hand[c].step = "delete"
      /\ hand' = [hand EXCEPT ![c] = Deleting(hand[c], stored[hand[c].order])]
  BY DEF DeleteItems
<1>2. hand[c] \in Hands /\ hand[c].order \in Orders /\ hand[c].copy \in Copies
  BY <1>1 DEF TypeOK, HandOK
<1>3. stored[hand[c].order] \in SUBSET Batches
  BY <1>2 DEF TypeOK
<1>4. LET n == Deleting(hand[c], stored[hand[c].order]) IN
      n.at = hand[c].at /\ n.seen = stored[hand[c].order]
  BY <1>2 DEF Deleting, Hands
<1>5. HandOK
  BY DEF TypeOK
<1> DEFINE n == Deleting(hand[c], stored[hand[c].order])
<1>6. /\ n \in Hands /\ n.step = "insert" /\ n.order = hand[c].order
      /\ n.copy = hand[c].copy /\ n.at = hand[c].at /\ n.seen = stored[hand[c].order]
  BY <1>2, <1>3, <1>4, HandDeleting
<1> HIDE DEF n
<1>7. hand'[c] = n /\ \A d \in Consumers \ {c} : hand'[d] = hand[d]
  <2>1. hand' = [hand EXCEPT ![c] = n]
    BY <1>1 DEF n
  <2> QED
    BY <1>2, <1>5, <1>6, <2>1, HandChanges
<1> QED
  BY <1>1, <1>2, <1>6, <1>7 DEF Others

LEMMA InsertingStep ==
    ASSUME TypeOK, NEW c \in Consumers, InsertItems(c)
    PROVE  /\ hand[c].step = "insert" /\ hand'[c] = Idle /\ hand[c].order \in Orders
           /\ hand[c].copy \in Copies /\ Others(c)
  BY DEF InsertItems, TypeOK, HandOK, Others

---------------------------------------------------------------------------
(* The row and its items                                                   *)

Undisturbed == sent = 0 /\ faults = 0

Matched(o) == stored[o] = {[version |-> mirror[o].version, by |-> "item"]}

Storing(c, o) == hand[c].order = o /\ hand[c].step \in {"upsert", "delete", "insert"}

\* An order whose items are not those of its row has a message that waits or is at
\* work, even if the process died between the two commits, or is gone for good; what
\* Tiny never had is not mirrored.
Accounted(o) ==
    /\ \/ mirror[o] = Missing \/ Matched(o) \/ queue[o] > 0 \/ hand["item"].order = o
       \/ tiny[o].situation = Gone
    /\ tiny[o].version = 0 => mirror[o] = Missing /\ ~Storing("item", o)
    /\ hooks[o] = 0

\* The consumer of the items is alone: what it wrote and read is still there.
AtWork ==
    /\ hand["webhook"].step = "idle" /\ hand["webhook"].order = Nobody
    /\ hand["item"].step = "idle" => hand["item"].order = Nobody
    /\ hand["item"].step \in {"delete", "insert"} =>
         mirror[hand["item"].order] = hand["item"].copy
    /\ hand["item"].step = "insert" => hand["item"].seen = stored[hand["item"].order]

WholeInv == TypeOK /\ (Undisturbed => AtWork /\ \A o \in Orders : Accounted(o))

LEMMA WholeStep == WholeInv /\ [Next]_vars => WholeInv'
<1> SUFFICES ASSUME WholeInv, [Next]_vars PROVE WholeInv'
  OBVIOUS
<1>1. TypeOK /\ TypeOK'
  BY TypeStep DEF WholeInv
<1> SUFFICES ASSUME Undisturbed' PROVE AtWork' /\ \A p \in Orders : Accounted(p)'
  BY <1>1 DEF WholeInv
<1>2. /\ 0 \notin Orders /\ sent \in Nat /\ faults \in Nat /\ crashes \in Nat
      /\ queue \in [Orders -> Nat] /\ hooks \in [Orders -> Nat]
      /\ queue' \in [Orders -> Nat]
      /\ mirror \in [Orders -> Copies \cup {Missing}] /\ stored \in [Orders -> SUBSET Batches]
  BY <1>1, ParametersAssumption DEF TypeOK
<1>3. ~Fault
  BY <1>2 DEF Fault, Undisturbed
<1>4. ASSUME NEW c \in Consumers, ConsumerStep(c)
      PROVE  UNCHANGED <<source, counts>>
  BY <1>4 DEF ConsumerStep, DeliverItem, DeliverWebhook, ReleasePending, GetOrder, Upsert,
              DeleteItems, InsertItems
<1>5. FanOutStep => UNCHANGED <<source, copy, hooks, hand, counts>>
  BY DEF FanOutStep, StartFanOut, ListOrders, FilterNewOrChanged, ClaimPending,
         PublishItem, EndFanOut, broker
<1>6. Failure => Crash
  BY <1>3 DEF Failure, ReconciliationFails, PublishFails, FanOutFails, ClaimFails,
              ReleaseFails, HandleFails
<1>7. Undisturbed
  <2>1. \A o \in Orders : Change(o) => sent = 0 /\ faults = 0
    BY <1>2 DEF Change, Undisturbed
  <2>2. \A o \in Orders : KeyExpires(o) => sent = 0 /\ faults = 0
    BY DEF KeyExpires, Undisturbed
  <2>3. Crash => sent = 0 /\ faults = 0
    BY DEF Crash, Undisturbed
  <2> QED
    BY <1>4, <1>5, <1>6, <2>1, <2>2, <2>3
       DEF Next, vars, counts, OrdersSyncJob, OrdersReconciliationJob, Tick, Undisturbed
<1>8. AtWork /\ \A o \in Orders : Accounted(o)
  BY <1>7 DEF WholeInv
<1>9. Idle.step = "idle" /\ Idle.order = Nobody
  BY IdleFields
<1> USE DEF Accounted, Matched, Storing, AtWork, Consumers, Nobody
<1> DEFINE Goal == AtWork' /\ \A p \in Orders : Accounted(p)'
<1>10. ASSUME UNCHANGED <<source, copy, hooks, hand>>, \A o \in Orders : queue'[o] >= queue[o]
       PROVE  Goal
  <2>1. AtWork'
    BY <1>8, <1>10 DEF copy
  <2>2. ASSUME NEW p \in Orders PROVE Accounted(p)'
    <3>1. queue[p] > 0 => queue'[p] > 0
      BY <1>2, <1>10
    <3> QED
      BY <1>8, <1>10, <3>1 DEF source, copy
  <2> QED
    BY <2>1, <2>2
<1>11. ASSUME NEW o \in Orders, Change(o) PROVE Goal
  <2>1. /\ UNCHANGED <<copy, queue, hand>> /\ UNCHANGED hooks
        /\ \A p \in Orders \ {o} : tiny'[p] = tiny[p]
    BY <1>1, <1>2, <1>11 DEF Change, Undisturbed, TypeOK
  <2>2. /\ tiny[o].version \in Nat /\ tiny'[o].version = tiny[o].version + 1
        /\ tiny[o].version > 0 => tiny[o].situation # Gone
    BY <1>1, <1>11, ParametersAssumption DEF Change, TypeOK, Copies, Missing
  <2> QED
    BY <1>8, <2>1, <2>2 DEF copy
<1>12. ASSUME FanOutStep PROVE Goal
  <2>1. ASSUME PublishItem PROVE \A o \in Orders : queue'[o] >= queue[o]
    <3>1. fan.order \in Orders
      BY <1>1, <2>1 DEF PublishItem, TypeOK, FanOK
    <3>2. queue' = [queue EXCEPT ![fan.order] = queue[fan.order] + 1]
      BY <2>1 DEF PublishItem
    <3> QED
      BY <1>2, <3>1, <3>2
  <2>2. ASSUME FanOutStep, ~PublishItem PROVE UNCHANGED queue
    BY <2>2 DEF FanOutStep, StartFanOut, ListOrders, FilterNewOrChanged, ClaimPending,
                EndFanOut, broker
  <2>3. \A o \in Orders : queue'[o] >= queue[o]
    BY <1>2, <1>12, <2>1, <2>2
  <2> QED
    BY <1>5, <1>10, <1>12, <2>3
<1>13. ASSUME NEW c \in Consumers, NEW o \in Orders, Taking(c, o) PROVE Goal
  <2>1. c = "item"
    BY <1>8, <1>13 DEF Taking, DeliverWebhook
  <2>2. /\ hand["item"].step = "idle" /\ hand'["item"].step = "release"
        /\ hand'["item"].order = o /\ hand'["webhook"] = hand["webhook"]
    BY <1>1, <1>13, <2>1, TakingStep DEF Others
  <2>3. /\ UNCHANGED <<source, copy, hooks>> /\ \A p \in Orders \ {o} : queue'[p] = queue[p]
    BY <1>2, <1>13, <2>1 DEF Taking, DeliverItem
  <2> QED
    BY <1>2, <1>8, <2>2, <2>3 DEF source, copy
<1>14. ASSUME NEW c \in Consumers, ReleasePending(c) PROVE Goal
  <2>1. /\ hand[c].step = "release" /\ hand'[c].step = "fetch"
        /\ hand'[c].order = hand[c].order /\ Others(c)
    BY <1>1, <1>14, ReleasingStep
  <2>2. UNCHANGED <<source, copy, queue, hooks>>
    BY <1>14 DEF ReleasePending, broker
  <2> QED
    BY <1>2, <1>8, <2>1, <2>2 DEF source, copy, Others
<1>15. ASSUME NEW c \in Consumers, GetOrder(c) PROVE Goal
  <2>1. c = "item"
    BY <1>8, <1>15 DEF GetOrder
  <2>2. UNCHANGED <<source, copy, queue, hooks>>
    BY <1>15 DEF GetOrder, broker
  <2>3. /\ hand["item"].step = "fetch" /\ hand["item"].order \in Orders
        /\ hand'["webhook"] = hand["webhook"]
        /\ \/ tiny[hand["item"].order].situation = Gone /\ hand'["item"] = Idle
           \/ /\ tiny[hand["item"].order] \in Copies
              /\ hand'["item"].step = "upsert" /\ hand'["item"].order = hand["item"].order
    BY <1>1, <1>15, <2>1, FetchingStep DEF Others
  <2>4. tiny[hand["item"].order] \in Copies => tiny[hand["item"].order].version # 0
    BY DEF Copies
  <2> QED
    BY <1>2, <1>8, <1>9, <2>2, <2>3, <2>4 DEF source, copy
<1>16. ASSUME NEW c \in Consumers, Upsert(c) PROVE Goal
  <2>1. c = "item"
    BY <1>8, <1>16 DEF Upsert
  <2>2. /\ hand["item"].step = "upsert" /\ hand'["item"].step = "delete"
        /\ hand["item"].order \in Orders /\ hand'["item"].copy = hand["item"].copy
        /\ hand'["item"].order = hand["item"].order /\ hand'["webhook"] = hand["webhook"]
    BY <1>1, <1>16, <2>1, UpsertingStep DEF Others
  <2>3. /\ UNCHANGED <<source, stored, queue, hooks>>
        /\ mirror'[hand["item"].order] = hand["item"].copy
        /\ \A p \in Orders \ {hand["item"].order} : mirror'[p] = mirror[p]
    BY <1>2, <1>16, <2>1, <2>2 DEF Upsert, broker
  <2> QED
    BY <1>2, <1>8, <2>2, <2>3 DEF source
<1>17. ASSUME NEW c \in Consumers, DeleteItems(c) PROVE Goal
  <2>1. c = "item"
    BY <1>8, <1>17 DEF DeleteItems
  <2>2. /\ hand["item"].step = "delete" /\ hand'["item"].step = "insert"
        /\ hand["item"].order \in Orders /\ hand'["item"].copy = hand["item"].copy
        /\ hand'["item"].order = hand["item"].order /\ hand'["webhook"] = hand["webhook"]
        /\ hand'["item"].seen = stored[hand["item"].order]
    BY <1>1, <1>17, <2>1, DeletingStep DEF Others
  <2>3. UNCHANGED <<source, copy, queue, hooks>>
    BY <1>17 DEF DeleteItems, broker
  <2> QED
    BY <1>2, <1>8, <2>2, <2>3 DEF source, copy
<1>18. ASSUME NEW c \in Consumers, InsertItems(c) PROVE Goal
  <2>1. c = "item"
    BY <1>8, <1>18 DEF InsertItems
  <2>2. /\ hand["item"].step = "insert" /\ hand'["item"] = Idle
        /\ hand["item"].order \in Orders /\ hand'["webhook"] = hand["webhook"]
    BY <1>1, <1>18, <2>1, InsertingStep DEF Others
  <2>3. /\ UNCHANGED <<source, mirror, queue, hooks>>
        /\ \A p \in Orders \ {hand["item"].order} : stored'[p] = stored[p]
    BY <1>2, <1>18, <2>1, <2>2 DEF InsertItems, broker
  <2>4. /\ mirror[hand["item"].order] = hand["item"].copy
        /\ hand["item"].seen = stored[hand["item"].order]
    BY <1>8, <2>2
  <2>5. stored'[hand["item"].order] = {[version |-> hand["item"].copy.version, by |-> "item"]}
    BY <1>2, <1>18, <2>1, <2>2, <2>4 DEF InsertItems, Batch
  <2> QED
    BY <1>2, <1>8, <1>9, <2>2, <2>3, <2>4, <2>5 DEF source
<1>19. ASSUME Crash PROVE Goal
  <2>1. UNCHANGED <<source, copy>> /\ \A c \in Consumers : hand'[c] = Idle
    BY <1>19 DEF Crash
  <2>2. \A p \in Orders : /\ queue'[p] >= queue[p]
                          /\ hand["item"].order = p => queue'[p] > 0
                          /\ hooks'[p] = hooks[p]
    <3> SUFFICES ASSUME NEW p \in Orders
                 PROVE  /\ queue'[p] >= queue[p]
                        /\ hand["item"].order = p => queue'[p] > 0
                        /\ hooks'[p] = hooks[p]
      OBVIOUS
    <3>1. /\ queue'[p] = IF hand["item"].order = p THEN queue[p] + 1 ELSE queue[p]
          /\ hooks'[p] = IF hand["webhook"].order = p THEN hooks[p] + 1 ELSE hooks[p]
      BY <1>19 DEF Crash
    <3>2. queue[p] \in Nat /\ p # Nobody
      BY <1>2
    <3>3. hand["webhook"].order = Nobody
      BY <1>8
    <3> HIDE DEF Accounted, Matched, Storing, AtWork, Nobody
    <3> QED
      BY <3>1, <3>2, <3>3
  <2> QED
    BY <1>2, <1>8, <1>9, <2>1, <2>2 DEF source, copy
<1>20. ASSUME \/ \E o \in Orders : KeyExpires(o)
              \/ OrdersSyncJob \/ OrdersReconciliationJob \/ Tick \/ UNCHANGED vars
       PROVE  Goal
  <2>1. UNCHANGED <<source, copy, queue, hooks, hand>>
    BY <1>20 DEF KeyExpires, OrdersSyncJob, OrdersReconciliationJob, Tick, vars, broker
  <2> QED
    BY <1>2, <1>10, <2>1
<1> HIDE DEF Goal
<1>21. ASSUME NEW c \in Consumers, ConsumerStep(c) PROVE Goal
  BY <1>13, <1>14, <1>15, <1>16, <1>17, <1>18, <1>21 DEF ConsumerStep, Taking
<1> QED
  <2>1. Goal
    BY <1>6, <1>11, <1>12, <1>19, <1>20, <1>21 DEF Next
  <2> QED
    BY <2>1 DEF Goal

LEMMA WholeInvariant == Spec => []WholeInv
<1>1. Init => WholeInv
  <2> SUFFICES ASSUME Init PROVE TypeOK /\ AtWork /\ \A o \in Orders : Accounted(o)
    BY DEF WholeInv
  <2>1. TypeOK
    BY InitTypes
  <2>2. \A c \in Consumers : hand[c] = Idle
    BY DEF Init
  <2>3. \A o \in Orders : mirror[o] = Missing /\ hooks[o] = 0
    BY DEF Init
  <2> QED
    BY <2>1, <2>2, <2>3, IdleFields DEF AtWork, Accounted, Storing, Consumers
<1> QED
  BY <1>1, WholeStep, PTL DEF Spec

\* process_order_item commits the row and its items in two transactions, and may
\* die between them: unless a webhook's consumer works beside it or a request fails,
\* an order that Tiny has and nobody works on has the items of its row, once.
THEOREM OrderIsWhole == Spec => []WholeOrder
<1>1. WholeInv => WholeOrder
  BY DEF WholeInv, Undisturbed, Accounted, Matched, WholeOrder
<1> QED
  BY <1>1, WholeInvariant, PTL

---------------------------------------------------------------------------
(* The reconciliation of the next day                                      *)

LEMMA DayParts ==
    ASSUME NEW n \in Nat
    PROVE  n \div StepsPerDay \in Nat /\ n % StepsPerDay \in 0..2
           /\ n = 3 * (n \div StepsPerDay) + (n % StepsPerDay)
<1>1. n \div 3 \in Nat
  OBVIOUS
<1>2. n % 3 \in 0..2
  OBVIOUS
<1>3. n = 3 * (n \div 3) + (n % 3)
  OBVIOUS
<1> QED
  BY <1>1, <1>2, <1>3 DEF StepsPerDay

LEMMA NextPart ==
    ASSUME NEW n \in Nat, NEW d \in Nat, NEW e \in Nat, NEW r \in 0..2, NEW q \in 0..2,
           n = 3 * d + r, n + 1 = 3 * e + q
    PROVE  \/ e = d /\ r = 0 /\ q = 1
           \/ e = d /\ r = 1 /\ q = 2
           \/ e = d + 1 /\ r = 2 /\ q = 0
<1>1. CASE r = 0
  <2>1. 3 * e + q = 3 * d + 1
    BY <1>1
  <2>2. e = d /\ q = 1
    BY <2>1
  <2> QED
    BY <1>1, <2>2
<1>2. CASE r = 1
  <2>1. 3 * e + q = 3 * d + 2
    BY <1>2
  <2>2. e = d /\ q = 2
    BY <2>1
  <2> QED
    BY <1>2, <2>2
<1>3. CASE r = 2
  <2>1. 3 * e + q = 3 * (d + 1)
    BY <1>3
  <2>2. e = d + 1 /\ q = 0
    BY <2>1
  <2> QED
    BY <1>3, <2>2
<1> QED
  BY <1>1, <1>2, <1>3

\* The clock moves within a day, or from its last part to the next night.
LEMMA DayTicks ==
    ASSUME now \in Nat, now' = now + 1
    PROVE  \/ Day' = Day /\ Night /\ Morning'
           \/ Day' = Day /\ Morning /\ ~Morning' /\ ~Night'
           \/ Day' = Day + 1 /\ ~Morning /\ ~Night /\ Night'
<1>1. now + 1 \in Nat
  OBVIOUS
<1> DEFINE d == now \div StepsPerDay
           r == now % StepsPerDay
           e == (now + 1) \div StepsPerDay
           q == (now + 1) % StepsPerDay
<1>2. d \in Nat /\ r \in 0..2 /\ now = 3 * d + r
  BY DayParts
<1>3. e \in Nat /\ q \in 0..2 /\ now + 1 = 3 * e + q
  BY <1>1, DayParts, Zenon
<1>4. /\ Day = d /\ Day' = e /\ (Night <=> r = 0) /\ (Morning <=> r = 1)
      /\ (Night' <=> q = 0) /\ (Morning' <=> q = 1)
  BY DEF Day, Night, Morning
<1> HIDE DEF d, r, e, q
<1>5. \/ e = d /\ r = 0 /\ q = 1
      \/ e = d /\ r = 1 /\ q = 2
      \/ e = d + 1 /\ r = 2 /\ q = 0
  BY <1>2, <1>3, NextPart
<1> QED
  BY <1>4, <1>5

LEMMA DayNow ==
    ASSUME now \in Nat
    PROVE  /\ Day \in Nat /\ 3 * Day <= now /\ now <= 3 * Day + 2
           /\ Morning => now = 3 * Day + 1
           /\ ~Night => now >= 3 * Day + 1
<1> DEFINE d == now \div StepsPerDay
           r == now % StepsPerDay
<1>1. d \in Nat /\ r \in 0..2 /\ now = 3 * d + r
  BY DayParts
<1>2. Day = d /\ (Night <=> r = 0) /\ (Morning <=> r = 1)
  BY DEF Day, Night, Morning
<1> HIDE DEF d, r
<1> QED
  BY <1>1, <1>2

\* The job of a day has run once its morning is over, and only since that morning.
DaysKept ==
    /\ reconciled <= Day
    /\ reconciled > 0 => 3 * reconciled + 1 <= now
    /\ ~Night /\ ~Morning => reconciled = Day

\* A copy that is about to be stored was fetched at most one step ago, and is
\* Tiny's last unless it was fetched by the end of the day of the last change.
Fresh(c) ==
    hand[c].step \in {"upsert", "delete", "insert"} =>
        /\ hand[c].at <= now /\ now <= hand[c].at + 1
        /\ hand[c].copy # tiny[hand[c].order] => hand[c].at <= 3 * updated[hand[c].order] + 2

\* Somebody will fetch the order, or holds its last version: a reconciliation that
\* covers its day, the fan-out that listed it, or a message.
Covers(m, o) == m # Incremental /\ m <= updated[o]
InFull(o) == \E i \in 1..Len(full) : Covers(full[i], o)
InFan(o) ==
    \/ fan.step = "list" /\ Covers(fan.message, o)
    \/ fan.step \in {"claim", "publish"} /\ \E r \in fan.listed : r.order = o
    \/ AtFan(o)
Bringing(c, o) ==
    /\ hand[c].order = o
    /\ \/ hand[c].step \in {"release", "fetch"}
       \/ hand[c].step = "upsert" /\ hand[c].copy = tiny[o]
Coming(o) ==
    InFull(o) \/ InFan(o) \/ queue[o] > 0 \/ \E c \in Consumers : Bringing(c, o)

\* Once the job of a later day has run, the row is Tiny's or somebody brings it; and
\* the job of the next day is never left out.
Landing(o) ==
    /\ updated[o] <= Day
    /\ tiny[o].situation # Gone /\ updated[o] < Day - 1 => reconciled > updated[o]
    /\ tiny[o].situation # Gone /\ reconciled > updated[o] => mirror[o] = tiny[o] \/ Coming(o)

LandInv ==
    /\ KeyInv /\ DaysKept
    /\ Calm => (\A c \in Consumers : Fresh(c)) /\ \A o \in Orders : Landing(o)

LEMMA CalmKept ==
    ASSUME TypeOK, [Next]_vars, Calm'
    PROVE  Calm /\ ~Failure
<1>1. crashes \in Nat /\ faults \in Nat
  BY DEF TypeOK
<1>2. ~Fault /\ ~Crash
  BY <1>1 DEF Fault, Crash, Calm
<1>3. ~Failure
  BY <1>2 DEF Failure, ReconciliationFails, PublishFails, FanOutFails, ClaimFails,
              ReleaseFails, HandleFails
<1>4. ASSUME NEW c \in Consumers, ConsumerStep(c) PROVE UNCHANGED counts
  BY <1>4 DEF ConsumerStep, DeliverItem, DeliverWebhook, ReleasePending, GetOrder, Upsert,
              DeleteItems, InsertItems
<1>5. FanOutStep => UNCHANGED counts
  BY DEF FanOutStep, StartFanOut, ListOrders, FilterNewOrChanged, ClaimPending,
         PublishItem, EndFanOut
<1>6. UNCHANGED <<crashes, faults>>
  BY <1>3, <1>4, <1>5
     DEF Next, vars, counts, Change, KeyExpires, OrdersSyncJob, OrdersReconciliationJob,
         Tick
<1> QED
  BY <1>3, <1>6 DEF Calm

LEMMA DaysStep ==
    ASSUME TypeOK, DaysKept, [Next]_vars
    PROVE  DaysKept'
<1>1. now \in Nat /\ reconciled \in Nat
  BY DEF TypeOK
<1>2. /\ Day \in Nat /\ 3 * Day <= now /\ now <= 3 * Day + 2
      /\ Morning => now = 3 * Day + 1
  BY <1>1, DayNow
<1>3. CASE UNCHANGED <<now, reconciled>>
  BY <1>3 DEF DaysKept, Day, Night, Morning
<1>4. CASE OrdersReconciliationJob \/ ReconciliationFails
  <2>1. reconciled' = Day /\ Morning /\ UNCHANGED now
    BY <1>4 DEF OrdersReconciliationJob, ReconciliationFails
  <2>2. Day' = Day /\ Night' = Night /\ Morning' = Morning
    BY <2>1 DEF Day, Night, Morning
  <2> QED
    BY <1>1, <1>2, <2>1, <2>2 DEF DaysKept
<1>5. CASE Tick
  <2>1. now' = now + 1 /\ (Morning => reconciled = Day) /\ UNCHANGED reconciled
    BY <1>5 DEF Tick
  <2>2. \/ Day' = Day /\ Night /\ Morning'
        \/ Day' = Day /\ Morning /\ ~Morning' /\ ~Night'
        \/ Day' = Day + 1 /\ ~Morning /\ ~Night /\ Night'
    BY <1>1, <2>1, DayTicks
  <2> QED
    BY <1>1, <1>2, <2>1, <2>2 DEF DaysKept
<1>6. ASSUME NEW c \in Consumers, ConsumerStep(c) PROVE UNCHANGED <<now, reconciled>>
  BY <1>6 DEF ConsumerStep, DeliverItem, DeliverWebhook, ReleasePending, GetOrder, Upsert,
              DeleteItems, InsertItems
<1>7. FanOutStep => UNCHANGED <<now, reconciled>>
  BY DEF FanOutStep, StartFanOut, ListOrders, FilterNewOrChanged, ClaimPending,
         PublishItem, EndFanOut
<1>8. Failure => UNCHANGED <<now, reconciled>> \/ ReconciliationFails
  BY DEF Failure, PublishFails, FanOutFails, ClaimFails, ReleaseFails, HandleFails, Crash
<1>9. (\E o \in Orders : Change(o) \/ KeyExpires(o)) \/ OrdersSyncJob \/ UNCHANGED vars
      => UNCHANGED <<now, reconciled>>
  BY DEF Change, KeyExpires, OrdersSyncJob, vars
<1> QED
  BY <1>3, <1>4, <1>5, <1>6, <1>7, <1>8, <1>9 DEF Next

LEMMA FreshStep ==
    ASSUME TypeOK, [Next]_vars, ~Failure, \A c \in Consumers : Fresh(c),
           NEW d \in Consumers
    PROVE  Fresh(d)'
<1>1. /\ now \in Nat /\ updated \in [Orders -> Nat] /\ hand \in [Consumers -> Hands]
      /\ hand[d].at \in Nat /\ (hand[d].step # "idle" => hand[d].order \in Orders)
  BY DEF TypeOK, HandOK, Hands
<1>2. Day \in Nat /\ now <= 3 * Day + 2
  BY <1>1, DayNow
<1> DEFINE Goal == Fresh(d)'
<1>3. ASSUME UNCHANGED <<hand, now, tiny, updated>> PROVE Goal
  BY <1>3 DEF Fresh
<1>4. ASSUME NEW o \in Orders, Change(o) PROVE Goal
  <2>1. /\ UNCHANGED <<hand, now>> /\ updated' = [updated EXCEPT ![o] = Day]
        /\ \A p \in Orders \ {o} : tiny'[p] = tiny[p]
    BY <1>4 DEF Change, TypeOK
  <2> QED
    BY <1>1, <1>2, <2>1 DEF Fresh
<1>5. ASSUME NEW c \in Consumers, hand'[c].step \in {"release", "fetch", "idle"}, Others(c),
             UNCHANGED <<now, tiny, updated>>
      PROVE  Goal
  BY <1>5 DEF Fresh, Others
<1>6. ASSUME NEW c \in Consumers, GetOrder(c) PROVE Goal
  <2>1. UNCHANGED <<now, tiny, updated>>
    BY <1>6 DEF GetOrder, source
  <2>2. /\ Others(c)
        /\ hand'[c] = Idle \/ /\ hand'[c].order = hand[c].order
                              /\ hand'[c].copy = tiny[hand[c].order] /\ hand'[c].at = now
    BY <1>6, FetchingStep
  <2>3. Idle.step = "idle"
    BY IdleFields
  <2> QED
    BY <1>1, <2>1, <2>2, <2>3 DEF Fresh, Others
<1>7. ASSUME NEW c \in Consumers, Upsert(c) \/ DeleteItems(c) PROVE Goal
  <2>1. UNCHANGED <<now, tiny, updated>>
    BY <1>7 DEF Upsert, DeleteItems, source
  <2>2. /\ Others(c) /\ hand[c].step \in {"upsert", "delete"}
        /\ hand'[c].order = hand[c].order /\ hand'[c].copy = hand[c].copy
        /\ hand'[c].at = hand[c].at
    BY <1>7, UpsertingStep, DeletingStep
  <2> QED
    BY <1>1, <2>1, <2>2 DEF Fresh, Others
<1>8. ASSUME NEW c \in Consumers, ConsumerStep(c) PROVE Goal
  <2>1. ASSUME NEW o \in Orders, Taking(c, o) PROVE Goal
    <3>1. UNCHANGED <<now, tiny, updated>>
      BY <2>1 DEF Taking, DeliverItem, DeliverWebhook, source
    <3> QED
      BY <1>5, <2>1, <3>1, TakingStep
  <2>2. ASSUME ReleasePending(c) PROVE Goal
    <3>1. UNCHANGED <<now, tiny, updated>>
      BY <2>2 DEF ReleasePending, source
    <3> QED
      BY <1>5, <2>2, <3>1, ReleasingStep
  <2>3. ASSUME InsertItems(c) PROVE Goal
    <3>1. UNCHANGED <<now, tiny, updated>>
      BY <2>3 DEF InsertItems, source
    <3>2. Idle.step = "idle"
      BY IdleFields
    <3> QED
      BY <1>5, <2>3, <3>1, <3>2, InsertingStep
  <2> HIDE DEF Goal
  <2> QED
    BY <1>6, <1>7, <1>8, <2>1, <2>2, <2>3 DEF ConsumerStep, Taking
<1>9. ASSUME Tick PROVE Goal
  <2>1. /\ UNCHANGED <<hand, tiny, updated>> /\ now' = now + 1
        /\ hand[d].step \in {"upsert", "delete", "insert"} => hand[d].at = now
    BY <1>9 DEF Tick, source
  <2> QED
    BY <1>1, <2>1 DEF Fresh
<1>10. ASSUME FanOutStep PROVE Goal
  <2>1. UNCHANGED <<hand, now, tiny, updated>>
    BY <1>10 DEF FanOutStep, StartFanOut, ListOrders, FilterNewOrChanged, ClaimPending,
                 PublishItem, EndFanOut, source
  <2> QED
    BY <1>3, <2>1
<1>11. ASSUME \/ \E o \in Orders : KeyExpires(o)
              \/ OrdersSyncJob \/ OrdersReconciliationJob \/ UNCHANGED vars
       PROVE  Goal
  <2>1. UNCHANGED <<hand, now, tiny, updated>>
    BY <1>11 DEF KeyExpires, OrdersSyncJob, OrdersReconciliationJob, vars, source
  <2> QED
    BY <1>3, <2>1
<1> HIDE DEF Goal
<1>12. Goal
  BY <1>4, <1>8, <1>9, <1>10, <1>11 DEF Next
<1> QED
  BY <1>12 DEF Goal

LEMMA LandStep ==
    ASSUME KeyInv, TypeOK', DaysKept, Calm, [Next]_vars, ~Failure,
           \A c \in Consumers : Fresh(c), NEW p \in Orders, Landing(p)
    PROVE  Landing(p)'
<1>1. TypeOK /\ Backed(p)
  BY DEF KeyInv
<1>2. /\ now \in Nat /\ reconciled \in Nat /\ updated \in [Orders -> Nat]
      /\ queue \in [Orders -> Nat] /\ full \in Seq(Nat \cup {Incremental})
      /\ fan \in Fans /\ hand \in [Consumers -> Hands]
  BY <1>1 DEF TypeOK, FanOK, HandOK
<1>3. updated' \in [Orders -> Nat] /\ reconciled' \in Nat /\ queue' \in [Orders -> Nat]
  BY DEF TypeOK
<1>4. /\ Day \in Nat /\ 3 * Day <= now /\ now <= 3 * Day + 2
      /\ Morning => now = 3 * Day + 1
  BY <1>2, DayNow
<1> DEFINE Goal == Landing(p)'
           Due == tiny[p].situation # Gone /\ reconciled > updated[p]
<1>5. ASSUME UNCHANGED <<now, reconciled, tiny, updated>>,
             Due => mirror'[p] = mirror[p] \/ mirror'[p] = tiny[p],
             Due /\ Coming(p) => mirror'[p] = tiny[p] \/ Coming(p)'
      PROVE  Goal
  <2>1. Day' = Day
    BY <1>5 DEF Day
  <2> QED
    BY <1>5, <2>1 DEF Landing
\* What holds the order or its day stays where it is.
<1>6. ASSUME UNCHANGED <<updated, fan>> PROVE InFan(p) => InFan(p)'
  BY <1>6 DEF InFan, AtFan, Covers
<1>7. ASSUME UNCHANGED <<updated, full>> PROVE InFull(p) => InFull(p)'
  BY <1>7 DEF InFull, Covers
<1>8. ASSUME UNCHANGED updated, NEW m \in Nat \cup {Incremental}, full' = Append(full, m)
      PROVE  InFull(p) => InFull(p)'
  <2>1. \A i \in 1..Len(full) : i \in 1..Len(full') /\ full'[i] = full[i]
    BY <1>2, <1>8
  <2> QED
    BY <1>8, <2>1 DEF InFull, Covers
<1>9. ASSUME UNCHANGED <<hand, tiny>> PROVE \A c \in Consumers : Bringing(c, p) => Bringing(c, p)'
  BY <1>9 DEF Bringing
<1>10. ASSUME NEW o \in Orders, Change(o) PROVE Goal
  <2>1. /\ UNCHANGED <<now, reconciled, mirror, queue, full, fan, hand>>
        /\ updated' = [updated EXCEPT ![o] = Day]
        /\ \A q \in Orders \ {o} : tiny'[q] = tiny[q]
    BY <1>1, <1>10 DEF Change, copy, TypeOK
  <2>2. Day' = Day
    BY <2>1 DEF Day
  <2>3. CASE o = p
    BY <1>2, <1>4, <2>1, <2>2, <2>3 DEF Landing, DaysKept
  <2>4. CASE o # p
    <3>1. updated'[p] = updated[p] /\ tiny'[p] = tiny[p]
      BY <1>2, <2>1, <2>4
    <3>2. Coming(p) => Coming(p)'
      BY <2>1, <3>1 DEF Coming, InFull, InFan, Bringing, Covers, AtFan
    <3> QED
      BY <2>1, <2>2, <3>1, <3>2 DEF Landing
  <2> QED
    BY <2>3, <2>4
<1>11. ASSUME OrdersSyncJob PROVE Goal
  <2>1. /\ UNCHANGED <<now, reconciled, tiny, updated, mirror, queue, fan, hand>>
        /\ full' = Append(full, Incremental)
    BY <1>11 DEF OrdersSyncJob, source, copy
  <2> QED
    BY <1>5, <1>6, <1>8, <1>9, <2>1 DEF Coming
<1>12. ASSUME OrdersReconciliationJob PROVE Goal
  <2>1. /\ UNCHANGED <<now, tiny, updated, mirror, queue, fan, hand>>
        /\ reconciled < Day /\ reconciled' = Day /\ full' = Append(full, Day - 1)
    BY <1>12 DEF OrdersReconciliationJob, source, copy
  <2>2. Day' = Day /\ Day - 1 \in Nat
    BY <1>2, <1>4, <2>1 DEF Day
  <2>3. CASE updated[p] = Day - 1
    <3>1. Len(full') = Len(full) + 1 /\ full'[Len(full) + 1] = Day - 1 /\ Len(full) \in Nat
      BY <1>2, <2>1, <2>2
    <3>2. Len(full') \in 1..Len(full') /\ full'[Len(full')] = Day - 1
      BY <3>1
    <3>3. InFull(p)'
      BY <1>2, <2>1, <2>2, <2>3, <3>2, SMTT(30) DEF InFull, Covers, Incremental
    <3> QED
      BY <1>2, <1>4, <2>1, <2>2, <2>3, <3>3 DEF Landing, Coming
  <2>4. CASE updated[p] # Day - 1
    <3>1. Coming(p) => Coming(p)'
      BY <1>6, <1>8, <1>9, <2>1, <2>2 DEF Coming
    <3> QED
      BY <1>2, <1>4, <2>1, <2>2, <2>4, <3>1 DEF Landing
  <2> QED
    BY <2>3, <2>4
<1>13. ASSUME Tick PROVE Goal
  <2>1. /\ UNCHANGED <<reconciled, tiny, updated, mirror, queue, full, fan, hand>>
        /\ now' = now + 1
    BY <1>13 DEF Tick, source, copy, broker
  <2>2. \/ Day' = Day
        \/ Day' = Day + 1 /\ ~Morning /\ ~Night
    BY <1>2, <2>1, DayTicks
  <2>3. Coming(p) => Coming(p)'
    BY <1>6, <1>7, <1>9, <2>1 DEF Coming
  <2> QED
    BY <1>2, <1>4, <2>1, <2>2, <2>3 DEF Landing, DaysKept
<1>14. ASSUME (\E o \in Orders : KeyExpires(o)) \/ UNCHANGED vars PROVE Goal
  <2>1. UNCHANGED <<now, reconciled, tiny, updated, mirror, queue, full, fan, hand>>
    BY <1>14 DEF KeyExpires, vars, source, copy, broker
  <2> QED
    BY <1>5, <1>6, <1>7, <1>9, <2>1 DEF Coming
<1>15. ASSUME StartFanOut PROVE Goal
  <2>1. /\ UNCHANGED <<now, reconciled, tiny, updated, mirror, queue, hand>>
        /\ fan.step = "idle" /\ full # <<>> /\ full' = Tail(full)
        /\ fan' = [FanIdle EXCEPT !.step = "list", !.message = Head(full)]
    BY <1>15 DEF StartFanOut, source, copy
  <2>2. Head(full) = full[1] /\ Head(full) \in Nat \cup {Incremental}
    BY <1>2, <2>1
  <2>3. fan'.step = "list" /\ fan'.message = full[1]
    BY <2>1, <2>2 DEF FanIdle
  <2>4. InFull(p) => InFull(p)' \/ InFan(p)'
    <3>1. ASSUME NEW i \in 1..Len(full), Covers(full[i], p), i # 1 PROVE InFull(p)'
      <4>1. i - 1 \in 1..Len(full') /\ full'[i - 1] = full[i]
        BY <1>2, <2>1, <3>1
      <4> QED
        BY <2>1, <3>1, <4>1 DEF InFull, Covers
    <3>2. Covers(full[1], p) => InFan(p)'
      BY <2>1, <2>3 DEF InFan, Covers
    <3> QED
      BY <3>1, <3>2 DEF InFull
  <2>5. ~InFan(p)
    BY <2>1 DEF InFan, AtFan
  <2> QED
    BY <1>5, <1>9, <2>1, <2>4, <2>5 DEF Coming
<1>16. ASSUME ListOrders PROVE Goal
  <2>1. UNCHANGED <<now, reconciled, tiny, updated, mirror, queue, full, hand>> /\ fan.step = "list"
    BY <1>16 DEF ListOrders, source, copy, broker
  <2>2. ASSUME InFan(p), Due PROVE InFan(p)'
    <3>1. Covers(fan.message, p)
      BY <2>1, <2>2 DEF InFan, AtFan
    <3>2. fan' = Listed(fan, "claim", ListedSince(fan.message))
      BY <1>16, <3>1 DEF ListOrders, UpdatedAfter, Covers
    <3>3. ListedSince(fan.message) \in SUBSET Listings
      BY DEF ListedSince
    <3>4. fan'.step = "claim" /\ fan'.listed = ListedSince(fan.message)
      BY <1>2, <3>2, <3>3 DEF Listed, Fans
    <3>5. tiny[p].situation \in Situations
      <4>1. tiny[p] \in Copies \cup [version : 1..MaxVersion, situation : {Gone}] \cup {Missing}
        BY <1>1 DEF TypeOK
      <4> QED
        BY <2>2, <4>1 DEF Missing, Copies
    <3>6. updated[p] >= fan.message
      <4>1. fan.message \in Nat
        BY <1>2, <3>1 DEF Covers, Fans
      <4> QED
        BY <1>2, <3>1, <4>1 DEF Covers
    <3> DEFINE r == [order |-> p, situation |-> tiny[p].situation]
    <3>7. r \in ListedSince(fan.message) /\ r.order = p
      BY <3>5, <3>6 DEF ListedSince, Listings
    <3> QED
      BY <3>4, <3>7 DEF InFan
  <2> QED
    BY <1>5, <1>7, <1>9, <2>1, <2>2 DEF Coming
<1>17. ASSUME FilterNewOrChanged \/ EndFanOut PROVE Goal
  <2>1. UNCHANGED <<now, reconciled, tiny, updated, mirror, queue, full, hand>>
    BY <1>17 DEF FilterNewOrChanged, EndFanOut, source, copy, broker
  <2>2. ~InFan(p)
    BY <1>17 DEF FilterNewOrChanged, EndFanOut, InFan, AtFan
  <2> QED
    BY <1>5, <1>7, <1>9, <2>1, <2>2 DEF Coming
<1>18. ASSUME NEW o \in Orders, ClaimPending(o) PROVE Goal
  <2>1. UNCHANGED <<now, reconciled, tiny, updated, mirror, queue, full, hand>> /\ fan.step = "claim"
    BY <1>18 DEF ClaimPending, source, copy, broker
  <2>2. /\ Without(o).step = "claim" /\ Without(o).listed = {r \in fan.listed : r.order # o}
        /\ Publishing(o).step = "publish" /\ Publishing(o).order = o
        /\ Publishing(o).listed = Without(o).listed
    BY <1>2 DEF Without, Publishing, Listed, Holding, Fans
  <2>3. CASE o = p
    <3>1. CASE pending[p] = NoKey
      <4>1. fan' = Publishing(p)
        BY <1>18, <2>3, <3>1 DEF ClaimPending
      <4>2. InFan(p)'
        BY <2>2, <2>3, <4>1 DEF InFan, AtFan
      <4> QED
        BY <1>5, <2>1, <4>2 DEF Coming
    <3>2. CASE pending[p] # NoKey
      <4>1. queue[p] > 0 \/ \E c \in Consumers : AtRelease(c, p)
        BY <1>1, <2>1, <3>2 DEF Backed, AtFan
      <4>2. queue[p] > 0 \/ \E c \in Consumers : Bringing(c, p)
        BY <4>1 DEF AtRelease, Bringing
      <4>3. Coming(p)'
        BY <1>9, <2>1, <4>2 DEF Coming
      <4> QED
        BY <1>5, <2>1, <4>3
    <3> QED
      BY <3>1, <3>2
  <2>4. CASE o # p
    <3>1. fan' = Without(o) \/ fan' = Publishing(o)
      BY <1>18 DEF ClaimPending
    <3>2. CASE fan' = Without(o)
      <4>1. InFan(p) => InFan(p)'
        BY <2>1, <2>2, <2>4, <3>2 DEF InFan, AtFan
      <4> QED
        BY <1>5, <1>7, <1>9, <2>1, <4>1 DEF Coming
    <3>3. CASE fan' = Publishing(o) /\ fan' # Without(o)
      <4>1. InFan(p) => InFan(p)'
        BY <2>1, <2>2, <2>4, <3>3 DEF InFan, AtFan
      <4> QED
        BY <1>5, <1>7, <1>9, <2>1, <4>1 DEF Coming
    <3> QED
      BY <3>1, <3>2, <3>3
  <2> QED
    BY <2>3, <2>4
<1>19. ASSUME PublishItem PROVE Goal
  <2>1. /\ UNCHANGED <<now, reconciled, tiny, updated, mirror, full, hand>>
        /\ fan.step = "publish" /\ fan.order \in Orders
    BY <1>1, <1>19 DEF PublishItem, source, copy, TypeOK, FanOK
  <2>2. fan'.step = "claim" /\ fan'.listed = fan.listed
    BY <1>2, <1>19 DEF PublishItem, Holding, Fans
  <2>3. queue' = [queue EXCEPT ![fan.order] = queue[fan.order] + 1]
    BY <1>19 DEF PublishItem
  <2>4. queue'[p] > 0 \/ (queue'[p] = queue[p] /\ fan.order # p)
    BY <1>2, <2>1, <2>3
  <2>5. InFan(p) => InFan(p)' \/ queue'[p] > 0
    BY <2>1, <2>2, <2>4 DEF InFan, AtFan
  <2>6. Coming(p) => Coming(p)'
    BY <1>7, <1>9, <2>1, <2>4, <2>5 DEF Coming
  <2> QED
    BY <1>5, <2>1, <2>6
\* A consumer that no longer brings the order has stored it.
<1>20. ASSUME NEW c \in Consumers, Others(c),
              UNCHANGED <<now, reconciled, tiny, updated, mirror, full, fan>>,
              queue[p] > 0 => queue'[p] > 0 \/ Bringing(c, p)',
              Due /\ Bringing(c, p) => Bringing(c, p)'
       PROVE  Goal
  <2>1. \A d \in Consumers \ {c} : Bringing(d, p) => Bringing(d, p)'
    BY <1>20 DEF Bringing, Others
  <2>2. Due /\ (\E d \in Consumers : Bringing(d, p)) => \E d \in Consumers : Bringing(d, p)'
    BY <1>20, <2>1
  <2>3. Due /\ Coming(p) => Coming(p)'
    BY <1>6, <1>7, <1>20, <2>2 DEF Coming
  <2> QED
    BY <1>5, <1>20, <2>3
<1>21. ASSUME NEW c \in Consumers, NEW o \in Orders, Taking(c, o) PROVE Goal
  <2>1. UNCHANGED <<now, reconciled, tiny, updated, mirror, full, fan>>
    BY <1>21 DEF Taking, DeliverItem, DeliverWebhook, source, copy
  <2>2. /\ hand[c].step = "idle" /\ hand'[c].step = "release" /\ hand'[c].order = o
        /\ Others(c)
    BY <1>1, <1>21, TakingStep
  <2>3. queue'[p] = queue[p] \/ o = p
    <3>1. queue' = queue \/ queue' = [queue EXCEPT ![o] = queue[o] - 1]
      BY <1>21 DEF Taking, DeliverItem, DeliverWebhook
    <3> QED
      BY <1>2, <3>1
  <2>4. ~Bringing(c, p) /\ (o = p => Bringing(c, p)')
    BY <2>2 DEF Bringing
  <2> QED
    BY <1>20, <2>1, <2>2, <2>3, <2>4
<1>22. ASSUME NEW c \in Consumers, ReleasePending(c) PROVE Goal
  <2>1. UNCHANGED <<now, reconciled, tiny, updated, mirror, full, fan, queue>>
    BY <1>22 DEF ReleasePending, source, copy, broker
  <2>2. hand'[c].step = "fetch" /\ hand'[c].order = hand[c].order /\ Others(c)
    BY <1>1, <1>22, ReleasingStep
  <2>3. Bringing(c, p) => Bringing(c, p)'
    BY <2>2 DEF Bringing
  <2> QED
    BY <1>20, <2>1, <2>2, <2>3
<1>23. ASSUME NEW c \in Consumers, GetOrder(c) PROVE Goal
  <2>1. UNCHANGED <<now, reconciled, tiny, updated, mirror, full, fan, queue>>
    BY <1>23 DEF GetOrder, source, copy, broker
  <2>2. /\ Others(c)
        /\ \/ tiny[hand[c].order].situation = Gone
           \/ /\ hand'[c].step = "upsert" /\ hand'[c].order = hand[c].order
              /\ hand'[c].copy = tiny[hand[c].order]
    BY <1>1, <1>23, FetchingStep
  <2>3. Due /\ Bringing(c, p) => Bringing(c, p)'
    BY <2>1, <2>2 DEF Bringing
  <2> QED
    BY <1>20, <2>1, <2>2, <2>3
<1>24. ASSUME NEW c \in Consumers, Upsert(c) PROVE Goal
  <2>1. UNCHANGED <<now, reconciled, tiny, updated, full, fan, queue>>
    BY <1>24 DEF Upsert, source, broker
  <2>2. /\ hand[c].step = "upsert" /\ hand[c].order \in Orders /\ Others(c)
        /\ hand'[c].step = "delete"
    BY <1>1, <1>24, UpsertingStep
  <2>3. mirror' = [mirror EXCEPT ![hand[c].order] = hand[c].copy]
    BY <1>24 DEF Upsert
  <2>4. CASE hand[c].order = p
    <3>1. ASSUME Due PROVE hand[c].copy = tiny[p]
      <4>1. now <= hand[c].at + 1 /\ hand[c].at \in Nat
        BY <1>2, <2>2 DEF Fresh, Hands
      <4>2. 3 * reconciled + 1 <= now /\ reconciled >= updated[p] + 1
        BY <1>2, <3>1 DEF DaysKept
      <4>3. ~(hand[c].at <= 3 * updated[p] + 2)
        BY <1>2, <4>1, <4>2
      <4> QED
        BY <2>2, <2>4, <4>3 DEF Fresh
    <3>2. Due => mirror'[p] = tiny[p]
      BY <1>1, <2>3, <2>4, <3>1 DEF TypeOK
    <3> QED
      BY <1>5, <2>1, <3>2
  <2>5. CASE hand[c].order # p
    <3>1. mirror'[p] = mirror[p]
      BY <1>1, <2>3, <2>5 DEF TypeOK
    <3>2. \A d \in Consumers : Bringing(d, p) => d # c /\ Bringing(d, p)'
      BY <2>1, <2>2, <2>5 DEF Bringing, Others
    <3>3. Coming(p) => Coming(p)'
      BY <1>6, <1>7, <2>1, <3>2 DEF Coming
    <3> QED
      BY <1>5, <2>1, <3>1, <3>3
  <2> QED
    BY <2>4, <2>5
<1>25. ASSUME NEW c \in Consumers, DeleteItems(c) \/ InsertItems(c) PROVE Goal
  <2>1. UNCHANGED <<now, reconciled, tiny, updated, mirror, full, fan, queue>>
    BY <1>25 DEF DeleteItems, InsertItems, source, copy, broker
  <2>2. hand[c].step \in {"delete", "insert"} /\ Others(c)
    BY <1>1, <1>25, DeletingStep, InsertingStep
  <2>3. ~Bringing(c, p)
    BY <2>2 DEF Bringing
  <2> QED
    BY <1>20, <2>1, <2>2, <2>3
<1> HIDE DEF Goal
<1>26. ASSUME NEW c \in Consumers, ConsumerStep(c) PROVE Goal
  BY <1>21, <1>22, <1>23, <1>24, <1>25, <1>26 DEF ConsumerStep, Taking
<1>27. ASSUME FanOutStep PROVE Goal
  BY <1>15, <1>16, <1>17, <1>18, <1>19, <1>27 DEF FanOutStep
<1>28. Goal
  BY <1>10, <1>11, <1>12, <1>13, <1>14, <1>26, <1>27 DEF Next
<1> QED
  BY <1>28 DEF Goal

LEMMA LandInvariant == Spec => []LandInv
<1>1. Init => LandInv
  <2> SUFFICES ASSUME Init PROVE LandInv
    OBVIOUS
  <2>1. KeyInv
    BY InitKeys
  <2>2. now \in Nat /\ \A c \in Consumers : hand[c].step = "idle"
    BY ParametersAssumption, IdleFields DEF Init
  <2>3. \A o \in Orders : tiny[o].situation = Gone /\ updated[o] = 0
    BY DEF Init, Missing
  <2>4. DaysKept /\ Day \in Nat
    BY <2>2, DayNow DEF Init, DaysKept
  <2> QED
    BY <2>1, <2>2, <2>3, <2>4 DEF LandInv, Fresh, Landing
<1>2. LandInv /\ [Next]_vars => LandInv'
  <2> SUFFICES ASSUME LandInv, [Next]_vars PROVE LandInv'
    OBVIOUS
  <2>1. KeyInv' /\ DaysKept'
    BY KeyStep, DaysStep DEF LandInv, KeyInv
  <2>2. ASSUME Calm' PROVE (\A c \in Consumers : Fresh(c)') /\ \A o \in Orders : Landing(o)'
    <3>1. TypeOK /\ TypeOK' /\ KeyInv /\ DaysKept
      BY <2>1 DEF LandInv, KeyInv
    <3>2. Calm /\ ~Failure
      BY <2>2, <3>1, CalmKept
    <3>3. (\A c \in Consumers : Fresh(c)) /\ \A o \in Orders : Landing(o)
      BY <3>2 DEF LandInv
    <3> QED
      BY <3>1, <3>2, <3>3, FreshStep, LandStep
  <2> QED
    BY <2>1, <2>2 DEF LandInv
<1> QED
  BY <1>1, <1>2, PTL DEF Spec

\* "So cancellations and other status drift the incremental cron cannot see still
\* land in the mirror within ~24h": unless the process dies or something fails, the
\* reconciliation of the next day brings the last version of every order, for any
\* number of orders, messages and webhooks, and whatever overtakes what.
THEOREM LandsInTime == Spec => []LandsIfNoCrash
<1>1. LandInv => LandsIfNoCrash
  <2> SUFFICES ASSUME LandInv, Calm, NEW o \in Orders, Settled(o), reconciled > updated[o],
                      tiny[o].situation # Gone
               PROVE  mirror[o] = tiny[o]
    BY DEF LandsIfNoCrash, LandsWithinADay, Calm
  <2>1. mirror[o] = tiny[o] \/ Coming(o)
    BY DEF LandInv, Landing
  <2>2. ~Coming(o)
    BY DEF Settled, Coming, InFull, InFan, Bringing, AtFan
  <2> QED
    BY <2>1, <2>2
<1> QED
  BY <1>1, LandInvariant, PTL
=============================================================================
