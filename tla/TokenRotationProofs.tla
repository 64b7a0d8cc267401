------------------------ MODULE TokenRotationProofs ------------------------
(* Theorems about TokenRotation, for any number of tasks and any bounds,  *)
(* about MLTokenRotation, which implements it, and about Requests.         *)
EXTENDS MCTokenRotation, TLAPS

---------------------------------------------------------------------------
(* The records that steps put in call                                      *)

LEMMA IdleType == Idle \in Calls /\ Bound(Idle)
  BY DEF Idle, Calls, Steps, Ops, Bound, NoToken

LEMMA RefreshWithType ==
  ASSUME NEW c \in Calls, NEW k \in Gens
  PROVE  RefreshWith(c, k) \in Calls /\ Bound(RefreshWith(c, k))
  BY DEF Calls, Steps, RefreshWith, Bound

LEMMA LeaveType ==
  ASSUME NEW c \in Calls, NEW ok \in BOOLEAN, ok => c.hand \in Gens
  PROVE  Leave(c, ok) \in Calls /\ Bound(Leave(c, ok))
  BY DEF Calls, Steps, Leave, Bound

\* Moving on to a step that needs no more than what is already set.
LEMMA GotoType ==
  ASSUME NEW c \in Calls, NEW s \in Steps,
         s \in {"boot_check", "stash", "save", "cache", "unstash", "store"}
           => c.hand \in Gens,
         s \in {"lock", "wait", "load", "post"} => c.given \in Gens,
         s \in {"unlock", "finish"} /\ c.ok => c.hand \in Gens
  PROVE  /\ [c EXCEPT !.step = s] \in Calls
         /\ Bound([c EXCEPT !.step = s])
  BY DEF Calls, Steps, Bound

LEMMA SetType ==
  ASSUME TypeOK, NEW t \in Tasks, NEW c \in Calls, Bound(c), Set(t, c)
  PROVE  call' \in [Tasks -> Calls] /\ \A u \in Tasks : Bound(call'[u])
  BY DEF Set, TypeOK

\* A step of a call that only moves the call keeps every type.
LEMMA MoveType ==
  ASSUME TypeOK, NEW t \in Tasks, NEW c \in Calls, Bound(c), Set(t, c),
         UNCHANGED <<tiny, db, redis, process, replyLost, bounds>>
  PROVE  TypeOK'
  BY SetType DEF TypeOK, tiny, redis, bounds

---------------------------------------------------------------------------
(* Types                                                                   *)

LEMMA InitType == Init => TypeOK
  <1> SUFFICES ASSUME Init PROVE TypeOK OBVIOUS
  <1>1. call \in [Tasks -> Calls] /\ \A t \in Tasks : Bound(call[t])
    BY IdleType DEF Init
  <1>2. live \in Gens /\ age \in [Gens -> Fresh..Dead]
    BY BoundsAssumption DEF Init, Gens, EnvToken, Fresh, Dead
  <1>3. lock \in BOOLEAN /\ replyLost \in BOOLEAN BY DEF Init
  <1>4. crashes \in 0..MaxCrashes /\ lockExpiries \in 0..MaxLockExpiries
    BY BoundsAssumption DEF Init
  <1> QED BY <1>1, <1>2, <1>3, <1>4 DEF Init, TypeOK

LEMMA BeginType ==
  ASSUME TypeOK, NEW t \in Tasks, Begin(t)
  PROVE  TypeOK'
  <1> DEFINE Fr(op, s) == [Idle EXCEPT !.op = op, !.step = s]
  <1>1. ASSUME NEW op \in Ops,
               NEW s \in {"read_cache", "force_read", "drop_cache",
                          "boot_read"}
        PROVE  Fr(op, s) \in Calls /\ Bound(Fr(op, s))
    <2> DEFINE f == Fr(op, s)
    <2>2. f \in Calls BY IdleType DEF Calls, Steps
    <2>3. Bound(f)
      <3>1. f.step = s BY IdleType DEF Calls
      <3> QED BY <3>1 DEF Bound
    <2> QED BY <2>2, <2>3
  <1>2. CASE GetValidAccessToken(t)
    BY <1>1, <1>2, MoveType DEF GetValidAccessToken, Ops
  <1>3. CASE RefreshTokens(t)
    BY <1>1, <1>3, MoveType DEF RefreshTokens, Ops
  <1>4. CASE HandleUnauthorized(t)
    BY <1>1, <1>4, MoveType DEF HandleUnauthorized, Ops
  <1>5. CASE ValidateOnStartup(t)
    <2>1. call' \in [Tasks -> Calls] /\ \A u \in Tasks : Bound(call'[u])
      BY <1>1, <1>5, SetType DEF ValidateOnStartup, Ops
    <2> QED BY <1>5, <2>1 DEF ValidateOnStartup, TypeOK, tiny, redis, bounds
  <1> QED BY <1>2, <1>3, <1>4, <1>5 DEF Begin

LEMMA ReadType ==
  ASSUME TypeOK, NEW t \in Tasks,
         \/ ReadCache(t) \/ ReadDb(t) \/ DropCache(t) \/ ForceRead(t)
         \/ BootRead(t) \/ BootCheck(t)
  PROVE  TypeOK'
  <1>1. call[t] \in Calls /\ Bound(call[t]) BY DEF TypeOK
  <1>2. \A k : ~RefreshDead(k) /\ k \in Gens \cup {NoToken} => k \in Gens
    BY DEF RefreshDead
  <1>3. CASE ReadCache(t)
    <2>1. CASE cache # NoToken
      BY <1>3, <2>1, IdleType, MoveType DEF ReadCache
    <2>2. CASE cache = NoToken
      BY <1>1, <1>3, <2>2, GotoType, MoveType DEF ReadCache, Steps
    <2> QED BY <2>1, <2>2
  <1>4. CASE ReadDb(t)
    <2>1. CASE RefreshDead(db)
      BY <1>4, <2>1, IdleType, MoveType DEF ReadDb
    <2>2. CASE ~RefreshDead(db)
      <3>1. db \in Gens BY <1>2, <2>2 DEF TypeOK
      <3>2. CASE IsExpired(db)
        BY <1>1, <1>4, <2>2, <3>1, <3>2, RefreshWithType, MoveType DEF ReadDb
      <3>3. CASE ~IsExpired(db) /\ IsExpiringSoon(db)
        <4> DEFINE c == [call[t] EXCEPT !.spare = db]
        <4>1. c \in Calls BY <1>1, <3>1 DEF Calls
        <4>2. Set(t, RefreshWith(c, db)) BY <1>4, <2>2, <3>3 DEF ReadDb
        <4> HIDE DEF c
        <4> QED BY <1>4, <3>1, <4>1, <4>2, RefreshWithType, MoveType DEF ReadDb
      <3>4. CASE ~IsExpired(db) /\ ~IsExpiringSoon(db)
        <4> DEFINE c == [call[t] EXCEPT !.step = "store", !.hand = db]
        <4>1. c \in Calls /\ Bound(c) BY <1>1, <3>1 DEF Calls, Steps, Bound
        <4>2. Set(t, c) BY <1>4, <2>2, <3>4 DEF ReadDb
        <4> HIDE DEF c
        <4> QED BY <1>4, <4>1, <4>2, MoveType DEF ReadDb
      <3> QED BY <3>2, <3>3, <3>4
    <2> QED BY <2>1, <2>2
  <1>5. CASE DropCache(t)
    <2>1. call' \in [Tasks -> Calls] /\ \A u \in Tasks : Bound(call'[u])
      BY <1>1, <1>5, GotoType, SetType DEF DropCache, Goto, Steps
    <2> QED BY <1>5, <2>1 DEF DropCache, TypeOK, tiny, bounds
  <1>6. CASE ForceRead(t)
    <2>1. CASE RefreshDead(db)
      BY <1>6, <2>1, IdleType, MoveType DEF ForceRead
    <2>2. CASE ~RefreshDead(db)
      <3>1. db \in Gens BY <1>2, <2>2 DEF TypeOK
      <3> QED BY <1>1, <1>6, <2>2, <3>1, RefreshWithType, MoveType DEF ForceRead
    <2> QED BY <2>1, <2>2
  <1>7. CASE BootRead(t)
    <2>1. CASE db = NoToken
      <3> DEFINE c == [call[t] EXCEPT !.op = "bootstrap", !.step = "load",
                                      !.given = EnvToken]
      <3>1. EnvToken \in Gens BY BoundsAssumption DEF EnvToken, Gens
      <3>a. c \in Calls BY <1>1, <3>1 DEF Calls, Steps, Ops
      <3>b. Bound(c) BY <1>1, <3>1 DEF Calls, Bound
      <3>2. Set(t, c) BY <1>7, <2>1 DEF BootRead
      <3> HIDE DEF c
      <3> QED BY <1>7, <3>a, <3>b, <3>2, MoveType DEF BootRead
    <2>2. CASE db # NoToken
      <3> DEFINE c == [call[t] EXCEPT !.step = "boot_check", !.hand = db]
      <3>1. c \in Calls /\ Bound(c)
        BY <1>1, <2>2 DEF TypeOK, Calls, Steps, Bound
      <3>2. Set(t, c) BY <1>7, <2>2 DEF BootRead
      <3> HIDE DEF c
      <3> QED BY <1>7, <3>1, <3>2, MoveType DEF BootRead
    <2> QED BY <2>1, <2>2
  <1>8. CASE BootCheck(t)
    <2>1. call[t].hand \in Gens BY <1>1, <1>8 DEF BootCheck, At, Bound
    <2>2. call' \in [Tasks -> Calls] /\ \A u \in Tasks : Bound(call'[u])
      <3>1. CASE RefreshDead(call[t].hand)
        BY <1>8, <3>1, IdleType, SetType DEF BootCheck
      <3>2. CASE ~RefreshDead(call[t].hand) /\ IsExpiringSoon(call[t].hand)
        BY <1>1, <1>8, <2>1, <3>2, RefreshWithType, SetType DEF BootCheck
      <3>3. CASE ~RefreshDead(call[t].hand) /\ ~IsExpiringSoon(call[t].hand)
        BY <1>1, <1>8, <2>1, <3>3, GotoType, SetType DEF BootCheck, Steps
      <3> QED BY <3>1, <3>2, <3>3
    <2> QED BY <1>8, <2>2 DEF BootCheck, TypeOK, tiny, redis, bounds
  <1> QED BY <1>3, <1>4, <1>5, <1>6, <1>7, <1>8

LEMMA RefreshType ==
  ASSUME TypeOK, NEW t \in Tasks, Refresh(t)
  PROVE  TypeOK'
  <1>1. call[t] \in Calls /\ Bound(call[t]) BY DEF TypeOK
  <1>2. CASE TryLock(t)
    <2>1. call[t].given \in Gens BY <1>1, <1>2 DEF TryLock, At, Bound
    <2> DEFINE c == [call[t] EXCEPT !.step = "load", !.mine = TRUE]
    <2>2. c \in Calls BY <1>1 DEF Calls, Steps
    <2>3. Bound(c) BY <1>1, <2>1 DEF Calls, Bound
    <2>4. lock => Set(t, [call[t] EXCEPT !.step = "wait"])
      BY <1>2 DEF TryLock
    <2>5. ~lock => Set(t, c) BY <1>2 DEF TryLock
    <2> HIDE DEF c
    <2>6. call' \in [Tasks -> Calls] /\ \A u \in Tasks : Bound(call'[u])
      BY <1>1, <2>1, <2>2, <2>3, <2>4, <2>5, GotoType, SetType DEF Steps
    <2> QED BY <1>2, <2>6 DEF TryLock, TypeOK, tiny, bounds
  <1>3. CASE Reread(t)
    <2>1. call[t].given \in Gens BY <1>1, <1>3 DEF Reread, At, Bound
    <2>2. CASE db # NoToken /\ ~IsExpired(db)
      <3> DEFINE c == [call[t] EXCEPT !.hand = db]
      <3>1. c \in Calls /\ c.hand = db BY <1>1 DEF TypeOK, Calls
      <3>2. Set(t, Leave(c, TRUE)) BY <1>3, <2>2 DEF Reread
      <3>3. db \in Gens BY <2>2 DEF TypeOK
      <3> HIDE DEF c
      <3> QED BY <1>3, <3>1, <3>2, <3>3, LeaveType, MoveType DEF Reread
    <2>3. CASE ~(db # NoToken /\ ~IsExpired(db))
      BY <1>1, <1>3, <2>1, <2>3, GotoType, MoveType DEF Reread, Steps
    <2> QED BY <2>2, <2>3
  <1>4. CASE Unlock(t)
    <2> DEFINE c == [call[t] EXCEPT !.step = "finish", !.mine = FALSE]
    <2>1. c \in Calls BY <1>1 DEF Calls, Steps
    <2>2. Bound(c) BY <1>1, <1>4 DEF Unlock, At, Calls, Bound
    <2>3. Set(t, c) BY <1>4 DEF Unlock
    <2> HIDE DEF c
    <2>4. call' \in [Tasks -> Calls] /\ \A u \in Tasks : Bound(call'[u])
      BY <2>1, <2>2, <2>3, SetType
    <2> QED BY <1>4, <2>4 DEF Unlock, TypeOK, tiny, bounds
  <1>5. CASE LoadStash(t)
    <2>1. call[t].given \in Gens BY <1>1, <1>5 DEF LoadStash, At, Bound
    <2>2. CASE stash # NoToken /\ stash # call[t].given
      <3> DEFINE c == [call[t] EXCEPT !.step = "save", !.hand = stash,
                                      !.recovering = TRUE]
      <3>1. stash \in Gens BY <2>2 DEF TypeOK
      <3>2. c \in Calls BY <1>1, <3>1 DEF Calls, Steps
      <3>3. Bound(c) BY <1>1, <3>1 DEF Calls, Bound
      <3>4. Set(t, c) BY <1>5, <2>2 DEF LoadStash
      <3> HIDE DEF c
      <3> QED BY <1>5, <3>2, <3>3, <3>4, MoveType DEF LoadStash
    <2>3. CASE ~(stash # NoToken /\ stash # call[t].given)
      BY <1>1, <1>5, <2>1, <2>3, GotoType, MoveType DEF LoadStash, Steps
    <2> QED BY <2>2, <2>3
  <1>6. CASE PostGranted(t)
    <2>1. live + 1 \in Gens
      BY <1>6, BoundsAssumption DEF PostGranted, TypeOK, Gens
    <2> DEFINE c == [call[t] EXCEPT !.step = "stash", !.hand = live + 1]
    <2>2. c \in Calls BY <1>1, <2>1 DEF Calls, Steps
    <2>3. Bound(c) BY <1>1, <2>1 DEF Calls, Bound
    <2>4. Set(t, c) BY <1>6 DEF PostGranted
    <2> HIDE DEF c
    <2>5. call' \in [Tasks -> Calls] /\ \A u \in Tasks : Bound(call'[u])
      BY <2>2, <2>3, <2>4, SetType
    <2> QED BY <1>6, <2>1, <2>5 DEF PostGranted, TypeOK, redis, bounds
  <1>7. CASE PostRejected(t)
    BY <1>1, <1>7, LeaveType, MoveType DEF PostRejected
  <1>8. CASE PostFailed(t)
    BY <1>1, <1>8, LeaveType, MoveType DEF PostFailed
  <1>9. CASE PostUnanswered(t)
    <2>1. live + 1 \in Gens
      BY <1>9, BoundsAssumption DEF PostUnanswered, TypeOK, Gens
    <2>2. call' \in [Tasks -> Calls] /\ \A u \in Tasks : Bound(call'[u])
      BY <1>1, <1>9, LeaveType, SetType DEF PostUnanswered
    <2> QED BY <1>9, <2>1, <2>2 DEF PostUnanswered, TypeOK, redis, bounds
  <1>10. CASE StashPending(t)
    <2>1. call[t].hand \in Gens BY <1>1, <1>10 DEF StashPending, At, Bound
    <2>2. call' \in [Tasks -> Calls] /\ \A u \in Tasks : Bound(call'[u])
      BY <1>1, <1>10, <2>1, GotoType, SetType DEF StashPending, Goto, Steps
    <2> QED BY <1>10, <2>1, <2>2 DEF StashPending, TypeOK, tiny, bounds
  <1>11. CASE SaveToken(t)
    <2>1. call[t].hand \in Gens BY <1>1, <1>11 DEF SaveToken, At, Bound
    <2>2. call' \in [Tasks -> Calls] /\ \A u \in Tasks : Bound(call'[u])
      BY <1>1, <1>11, <2>1, GotoType, SetType DEF SaveToken, Goto, Steps
    <2> QED BY <1>11, <2>1, <2>2 DEF SaveToken, TypeOK, tiny, redis, bounds
  <1>12. CASE CacheAccessToken(t)
    <2>1. call[t].hand \in Gens BY <1>1, <1>12 DEF CacheAccessToken, At, Bound
    <2>2. call' \in [Tasks -> Calls] /\ \A u \in Tasks : Bound(call'[u])
      BY <1>1, <1>12, <2>1, GotoType, SetType DEF CacheAccessToken, Goto, Steps
    <2> QED BY <1>12, <2>1, <2>2 DEF CacheAccessToken, TypeOK, tiny, bounds
  <1>13. CASE DeleteStash(t)
    <2>1. call[t].hand \in Gens BY <1>1, <1>13 DEF DeleteStash, At, Bound
    <2> DEFINE p == [call[t] EXCEPT !.step = "post", !.given = call[t].hand,
                                    !.recovering = FALSE]
               d == [call[t] EXCEPT !.recovering = FALSE]
    <2>2. p \in Calls /\ d \in Calls /\ d.hand = call[t].hand
      BY <1>1, <2>1 DEF Calls, Steps
    <2>3. Bound(p) BY <1>1, <2>1 DEF Calls, Bound
    <2>4. Set(t, p) \/ Set(t, Leave(d, TRUE)) BY <1>13 DEF DeleteStash
    <2> HIDE DEF p, d
    <2>5. call' \in [Tasks -> Calls] /\ \A u \in Tasks : Bound(call'[u])
      BY <2>1, <2>2, <2>3, <2>4, LeaveType, SetType
    <2> QED BY <1>13, <2>5 DEF DeleteStash, TypeOK, tiny, bounds
  <1> QED BY <1>2, <1>3, <1>4, <1>5, <1>6, <1>7, <1>8, <1>9, <1>10, <1>11,
             <1>12, <1>13 DEF Refresh

LEMMA FinishType ==
  ASSUME TypeOK, NEW t \in Tasks,
         FinishGet(t) \/ FinishForce(t) \/ FinishStartup(t) \/ Store(t)
  PROVE  TypeOK'
  <1>1. call[t] \in Calls /\ Bound(call[t]) BY DEF TypeOK
  <1>2. CASE FinishGet(t)
    <2>1. CASE call[t].ok
      <3>1. call[t].hand \in Gens BY <1>1, <1>2, <2>1 DEF FinishGet, At, Bound
      <3> QED BY <1>1, <1>2, <2>1, <3>1, GotoType, MoveType DEF FinishGet, Steps
    <2>2. CASE ~call[t].ok /\ call[t].spare # NoToken
      <3> DEFINE c == [call[t] EXCEPT !.step = "store",
                                      !.hand = call[t].spare, !.ok = TRUE]
      <3>1. call[t].spare \in Gens BY <1>1, <2>2 DEF Calls
      <3>2. c \in Calls BY <1>1, <3>1 DEF Calls, Steps
      <3>3. Bound(c) BY <1>1, <3>1 DEF Calls, Bound
      <3>4. Set(t, c) BY <1>2, <2>2 DEF FinishGet
      <3> HIDE DEF c
      <3> QED BY <1>2, <3>2, <3>3, <3>4, MoveType DEF FinishGet
    <2>3. CASE ~call[t].ok /\ call[t].spare = NoToken
      BY <1>2, <2>3, IdleType, MoveType DEF FinishGet
    <2> QED BY <2>1, <2>2, <2>3
  <1>3. CASE FinishForce(t)
    BY <1>3, IdleType, MoveType DEF FinishForce
  <1>4. CASE FinishStartup(t)
    <2>1. CASE ~call[t].ok
      <3>1. call' \in [Tasks -> Calls] /\ \A u \in Tasks : Bound(call'[u])
        BY <1>4, <2>1, IdleType, SetType DEF FinishStartup
      <3> QED BY <1>4, <3>1 DEF FinishStartup, TypeOK, tiny, redis, bounds
    <2>2. CASE call[t].ok
      <3>1. call[t].hand \in Gens
        BY <1>1, <1>4, <2>2 DEF FinishStartup, At, Bound
      <3>2. PICK s \in {"boot_check", "store"} :
              Set(t, [call[t] EXCEPT !.op = "startup", !.step = s])
        BY <1>4, <2>2 DEF FinishStartup
      <3> DEFINE c == [call[t] EXCEPT !.op = "startup", !.step = s]
      <3>3. c \in Calls BY <1>1 DEF Calls, Steps, Ops
      <3>4. c.hand \in Gens /\ c.step = s BY <1>1, <3>1 DEF Calls
      <3>5. Bound(c) BY <3>4 DEF Bound
      <3>6. Set(t, c) BY <3>2
      <3> HIDE DEF c
      <3>7. call' \in [Tasks -> Calls] /\ \A u \in Tasks : Bound(call'[u])
        BY <3>3, <3>5, <3>6, SetType
      <3> QED BY <1>4, <3>7 DEF FinishStartup, TypeOK, tiny, redis, bounds
    <2> QED BY <2>1, <2>2
  <1>5. CASE Store(t)
    <2>1. call' \in [Tasks -> Calls] /\ \A u \in Tasks : Bound(call'[u])
      BY <1>5, IdleType, SetType DEF Store
    <2> QED BY <1>1, <1>5, <2>1 DEF Store, TypeOK, tiny, bounds, Calls
  <1> QED BY <1>2, <1>3, <1>4, <1>5

LEMMA EnvironmentType ==
  ASSUME TypeOK,
         \/ \E k \in Gens : Elapse(k)
         \/ CacheExpires \/ LockExpires \/ Crash
  PROVE  TypeOK'
  <1>1. CASE \E k \in Gens : Elapse(k)
    BY <1>1 DEF Elapse, TypeOK, Fresh, Dead, redis, bounds
  <1>2. CASE CacheExpires
    BY <1>2 DEF CacheExpires, TypeOK, tiny, bounds
  <1>3. CASE LockExpires
    <2>1. lockExpiries' \in 0..MaxLockExpiries
      BY <1>3, BoundsAssumption DEF LockExpires, TypeOK
    <2>2. lock' \in BOOLEAN BY <1>3 DEF LockExpires
    <2> QED BY <1>3, <2>1, <2>2 DEF LockExpires, TypeOK, tiny
  <1>4. CASE Crash
    <2>1. call' \in [Tasks -> Calls] /\ \A u \in Tasks : Bound(call'[u])
      BY <1>4, IdleType DEF Crash
    <2>2. replyLost' \in BOOLEAN BY <1>4 DEF Crash, TypeOK
    <2> QED BY <1>4, <2>1, <2>2, BoundsAssumption DEF Crash, TypeOK, tiny, redis
  <1> QED BY <1>1, <1>2, <1>3, <1>4

LEMMA StutterType == TypeOK /\ UNCHANGED vars => TypeOK'
  BY DEF TypeOK, vars

LEMMA NextType == TypeOK /\ [Next]_vars => TypeOK'
  BY BeginType, ReadType, RefreshType, FinishType, EnvironmentType, StutterType
     DEF Next, Continue

\* No step of any call, whatever the other calls do, reads a pair that nothing
\* has put there: in particular a swallowed refresh failure always has a pair
\* to fall back on.
THEOREM TypeCorrect == Spec => []TypeOK
  BY InitType, NextType, PTL DEF Spec

---------------------------------------------------------------------------
(* Mutual exclusion                                                        *)

\* Inductive form: an owner's lock is set, and only owners release it.
LockInv ==
    /\ \A t \in Tasks : At(t, "unlock") => call[t].mine
    /\ lockExpiries = 0 => \A t \in Tasks : call[t].mine => lock
    /\ MutualExclusion

LEMMA SetEffect ==
  ASSUME TypeOK, NEW t \in Tasks, NEW c, Set(t, c)
  PROVE  call'[t] = c /\ \A u \in Tasks : u # t => call'[u] = call[u]
  BY DEF Set, TypeOK

\* A step of a call that takes no lock and frees none keeps the invariant.
LEMMA KeepsOwnership ==
  ASSUME TypeOK, LockInv, NEW t \in Tasks,
         \A u \in Tasks : u # t => call'[u] = call[u],
         call'[t].mine = call[t].mine \/ call'[t].mine = FALSE,
         call'[t].step = "unlock" => call'[t].mine = TRUE,
         UNCHANGED <<lock, lockExpiries>>
  PROVE  LockInv'
  <1>1. \A u \in Tasks : call'[u].mine => call[u].mine OBVIOUS
  <1>2. \A u \in Tasks : At(u, "unlock")' => call'[u].mine
    BY DEF LockInv, At
  <1> QED BY <1>1, <1>2 DEF LockInv, MutualExclusion

LEMMA LeaveOwnership ==
  ASSUME NEW c \in Calls, NEW ok \in BOOLEAN
  PROVE  /\ Leave(c, ok).mine = c.mine
         /\ Leave(c, ok).step = "unlock" => c.mine = TRUE
  <1>1. Leave(c, ok).mine = c.mine BY DEF Calls, Leave
  <1>2. CASE c.mine = TRUE BY <1>1, <1>2
  <1>3. CASE c.mine = FALSE
    <2>1. Leave(c, ok).step = "finish" BY <1>3 DEF Calls, Leave
    <2> QED BY <1>1, <2>1
  <1> QED BY <1>2, <1>3 DEF Calls

\* Every step of a call but TryLock and Unlock is such a step.
LEMMA MoveOwnership ==
  ASSUME TypeOK, LockInv, NEW t \in Tasks, Begin(t) \/ Continue(t),
         ~TryLock(t), ~Unlock(t)
  PROVE  LockInv'
  <1>1. call[t] \in Calls BY DEF TypeOK
  <1>2. ASSUME NEW c \in Calls, Set(t, c), c.mine = call[t].mine,
               c.step # "unlock", UNCHANGED <<lock, lockExpiries>>
        PROVE  LockInv'
    BY <1>2, SetEffect, KeepsOwnership
  <1>3. ASSUME NEW c \in Calls, NEW ok \in BOOLEAN, Set(t, Leave(c, ok)),
               c.mine = call[t].mine, UNCHANGED <<lock, lockExpiries>>
        PROVE  LockInv'
    <2>1. /\ call'[t] = Leave(c, ok)
          /\ \A u \in Tasks : u # t => call'[u] = call[u]
      BY <1>3, SetEffect
    <2>2. /\ Leave(c, ok).mine = c.mine
          /\ Leave(c, ok).step = "unlock" => Leave(c, ok).mine = TRUE
      BY LeaveOwnership
    <2>3. /\ call'[t].mine = call[t].mine
          /\ call'[t].step = "unlock" => call'[t].mine = TRUE
      BY <1>3, <2>1, <2>2
    <2> QED BY <1>3, <2>1, <2>3, KeepsOwnership
  <1>4. ASSUME NEW c \in Calls, Set(t, c), c.mine = FALSE, c.step # "unlock",
               UNCHANGED <<lock, lockExpiries>>
        PROVE  LockInv'
    <2>1. call'[t] = c /\ \A u \in Tasks : u # t => call'[u] = call[u]
      BY <1>4, SetEffect
    <2>2. call'[t].mine = FALSE BY <1>4, <2>1
    <2>3. call'[t].step = "unlock" => call'[t].mine = TRUE BY <1>4, <2>1
    <2> QED BY <1>4, <2>1, <2>2, <2>3, KeepsOwnership
  <1>5. Idle \in Calls /\ Idle.mine = FALSE /\ Idle.step = "idle"
    BY IdleType DEF Idle
  <1>6. ASSUME NEW op \in Ops, NEW s \in Steps \ {"unlock"},
               Set(t, [Idle EXCEPT !.op = op, !.step = s]),
               UNCHANGED <<lock, lockExpiries>>
        PROVE  LockInv'
    <2> DEFINE c == [Idle EXCEPT !.op = op, !.step = s]
    <2> DEFINE d == [Idle EXCEPT !.op = op]
    <2>a. d \in Calls /\ d.mine = FALSE BY <1>5 DEF Calls
    <2>b. c = [d EXCEPT !.step = s] OBVIOUS
    <2> HIDE DEF d
    <2>c. [d EXCEPT !.step = s].mine = d.mine /\ [d EXCEPT !.step = s].step = s
      BY <2>a DEF Calls
    <2>d. [d EXCEPT !.step = s] \in Calls BY <2>a DEF Calls
    <2>1. c \in Calls /\ c.mine = FALSE /\ c.step = s
      BY <2>a, <2>b, <2>c, <2>d
    <2>2. Set(t, c) /\ s # "unlock" BY <1>6
    <2> HIDE DEF c
    <2> QED BY <1>4, <1>6, <2>1, <2>2
  <1>7. ASSUME NEW s \in Steps \ {"unlock"}, Goto(t, s),
               UNCHANGED <<lock, lockExpiries>>
        PROVE  LockInv'
    <2> DEFINE c == [call[t] EXCEPT !.step = s]
    <2>1. c \in Calls /\ c.mine = call[t].mine /\ c.step = s
      BY <1>1 DEF Calls
    <2>2. Set(t, c) BY <1>7 DEF Goto
    <2> HIDE DEF c
    <2> QED BY <1>2, <1>7, <2>1, <2>2
  <1>8. CASE Begin(t)
    BY <1>6, <1>8 DEF Begin, GetValidAccessToken, RefreshTokens,
       HandleUnauthorized, ValidateOnStartup, Ops, Steps, redis, bounds
  <1>9. ASSUME NEW c \in Calls, NEW k \in Gens, Set(t, RefreshWith(c, k)),
               c.mine = call[t].mine, UNCHANGED <<lock, lockExpiries>>
        PROVE  LockInv'
    <2>1. /\ RefreshWith(c, k) \in Calls
          /\ RefreshWith(c, k).mine = c.mine
          /\ RefreshWith(c, k).step = "lock"
      BY DEF RefreshWith, Calls, Steps
    <2> QED BY <1>2, <1>9, <2>1
  <1>10. CASE ReadCache(t)
    BY <1>4, <1>5, <1>7, <1>10 DEF ReadCache, Goto, Steps, redis, bounds
  <1>11. CASE ReadDb(t)
    <2>1. UNCHANGED <<lock, lockExpiries>> BY <1>11 DEF ReadDb, redis, bounds
    <2>2. CASE RefreshDead(db)
      BY <1>4, <1>5, <1>11, <2>1, <2>2 DEF ReadDb
    <2>3. CASE ~RefreshDead(db)
      <3>1. db \in Gens BY <2>3 DEF RefreshDead, TypeOK
      <3> DEFINE c == [call[t] EXCEPT !.spare = db]
                 d == [call[t] EXCEPT !.step = "store", !.hand = db]
      <3>2. c \in Calls /\ c.mine = call[t].mine BY <1>1, <3>1 DEF Calls
      <3>3. d \in Calls /\ d.mine = call[t].mine /\ d.step = "store"
        BY <1>1, <3>1 DEF Calls, Steps
      <3>4. \/ Set(t, RefreshWith(call[t], db)) \/ Set(t, RefreshWith(c, db))
            \/ Set(t, d)
        BY <1>11, <2>3 DEF ReadDb
      <3> HIDE DEF c, d
      <3> QED BY <1>1, <1>2, <1>9, <2>1, <3>1, <3>2, <3>3, <3>4
    <2> QED BY <2>2, <2>3
  <1>12. CASE DropCache(t)
    BY <1>7, <1>12 DEF DropCache, Steps, bounds
  <1>13. CASE ForceRead(t)
    <2>1. CASE RefreshDead(db)
      BY <1>4, <1>5, <1>13, <2>1 DEF ForceRead, redis, bounds
    <2>2. CASE ~RefreshDead(db)
      <3>1. db \in Gens BY <2>2 DEF RefreshDead, TypeOK
      <3> QED BY <1>1, <1>9, <1>13, <2>2, <3>1 DEF ForceRead, redis, bounds
    <2> QED BY <2>1, <2>2
  <1>14. CASE BootRead(t)
    <2> DEFINE c == [call[t] EXCEPT !.op = "bootstrap", !.step = "load",
                                    !.given = EnvToken]
               d == [call[t] EXCEPT !.step = "boot_check", !.hand = db]
    <2>1. EnvToken \in Gens BY BoundsAssumption DEF EnvToken, Gens
    <2>2. c \in Calls /\ c.mine = call[t].mine /\ c.step = "load"
      BY <1>1, <2>1 DEF Calls, Steps, Ops
    <2>3. d \in Calls /\ d.mine = call[t].mine /\ d.step = "boot_check"
      BY <1>1 DEF TypeOK, Calls, Steps
    <2>4. Set(t, c) \/ Set(t, d) BY <1>14 DEF BootRead
    <2>5. UNCHANGED <<lock, lockExpiries>> BY <1>14 DEF BootRead, redis, bounds
    <2> HIDE DEF c, d
    <2> QED BY <1>2, <2>2, <2>3, <2>4, <2>5
  <1>15. CASE BootCheck(t)
    <2>1. UNCHANGED <<lock, lockExpiries>>
      BY <1>15 DEF BootCheck, redis, bounds
    <2>2. call[t].hand \in Gens BY <1>15 DEF BootCheck, At, TypeOK, Bound
    <2>3. \/ Set(t, Idle) \/ Set(t, RefreshWith(call[t], call[t].hand))
          \/ Goto(t, "store")
      BY <1>15 DEF BootCheck, Goto
    <2>4. "store" \in Steps \ {"unlock"} BY DEF Steps
    <2> QED BY <1>1, <1>4, <1>5, <1>7, <1>9, <2>1, <2>2, <2>3, <2>4
  <1>16. CASE Reread(t)
    <2> DEFINE c == [call[t] EXCEPT !.hand = db]
    <2>1. c \in Calls /\ c.mine = call[t].mine BY <1>1 DEF TypeOK, Calls
    <2>2. Set(t, Leave(c, TRUE)) \/ Goto(t, "load")
      BY <1>16 DEF Reread, Goto
    <2>3. UNCHANGED <<lock, lockExpiries>> BY <1>16 DEF Reread, redis, bounds
    <2>4. "load" \in Steps \ {"unlock"} BY DEF Steps
    <2> HIDE DEF c
    <2> QED BY <1>3, <1>7, <2>1, <2>2, <2>3, <2>4
  <1>17. CASE LoadStash(t)
    <2> DEFINE c == [call[t] EXCEPT !.step = "save", !.hand = stash,
                                    !.recovering = TRUE]
    <2>1. c \in Calls /\ c.mine = call[t].mine /\ c.step = "save"
      BY <1>1 DEF TypeOK, Calls, Steps
    <2>2. Set(t, c) \/ Goto(t, "post") BY <1>17 DEF LoadStash, Goto
    <2>3. UNCHANGED <<lock, lockExpiries>> BY <1>17 DEF LoadStash, redis, bounds
    <2>4. "post" \in Steps \ {"unlock"} BY DEF Steps
    <2> HIDE DEF c
    <2> QED BY <1>2, <1>7, <2>1, <2>2, <2>3, <2>4
  <1>18. CASE PostGranted(t)
    <2> DEFINE c == [call[t] EXCEPT !.step = "stash", !.hand = live + 1]
    <2>1. live + 1 \in Gens
      BY <1>18, BoundsAssumption DEF PostGranted, TypeOK, Gens
    <2>2. c \in Calls /\ c.mine = call[t].mine /\ c.step = "stash"
      BY <1>1, <2>1 DEF Calls, Steps
    <2>3. Set(t, c) BY <1>18 DEF PostGranted
    <2>4. UNCHANGED <<lock, lockExpiries>>
      BY <1>18 DEF PostGranted, redis, bounds
    <2> HIDE DEF c
    <2> QED BY <1>2, <2>2, <2>3, <2>4
  <1>19. CASE PostRejected(t) \/ PostFailed(t) \/ PostUnanswered(t)
    BY <1>1, <1>3, <1>19 DEF PostRejected, PostFailed, PostUnanswered, redis,
       bounds
  <1>20. CASE StashPending(t) \/ SaveToken(t) \/ CacheAccessToken(t)
    BY <1>7, <1>20 DEF StashPending, SaveToken, CacheAccessToken, Steps, redis,
       bounds
  <1>21. CASE DeleteStash(t)
    <2> DEFINE c == [call[t] EXCEPT !.step = "post", !.given = call[t].hand,
                                    !.recovering = FALSE]
               d == [call[t] EXCEPT !.recovering = FALSE]
    <2>1. c \in Calls /\ c.mine = call[t].mine /\ c.step = "post"
      BY <1>1 DEF Calls, Steps
    <2>2. d \in Calls /\ d.mine = call[t].mine BY <1>1 DEF Calls
    <2>3. Set(t, c) \/ Set(t, Leave(d, TRUE)) BY <1>21 DEF DeleteStash
    <2>4. UNCHANGED <<lock, lockExpiries>> BY <1>21 DEF DeleteStash, bounds
    <2> HIDE DEF c, d
    <2> QED BY <1>2, <1>3, <2>1, <2>2, <2>3, <2>4
  <1>22. CASE FinishGet(t)
    <2> DEFINE c == [call[t] EXCEPT !.step = "store", !.hand = call[t].spare,
                                    !.ok = TRUE]
    <2>1. c \in Calls /\ c.mine = call[t].mine /\ c.step = "store"
      BY <1>1 DEF Calls, Steps
    <2>2. Set(t, c) \/ Goto(t, "store") \/ Set(t, Idle)
      BY <1>22 DEF FinishGet, Goto
    <2>3. UNCHANGED <<lock, lockExpiries>> BY <1>22 DEF FinishGet, redis, bounds
    <2>4. "store" \in Steps \ {"unlock"} BY DEF Steps
    <2> HIDE DEF c
    <2> QED BY <1>2, <1>4, <1>5, <1>7, <2>1, <2>2, <2>3, <2>4
  <1>23. CASE FinishForce(t)
    BY <1>4, <1>5, <1>23 DEF FinishForce, redis, bounds
  <1>24. CASE FinishStartup(t)
    <2>1. UNCHANGED <<lock, lockExpiries>>
      BY <1>24 DEF FinishStartup, redis, bounds
    <2>2. CASE Set(t, Idle) BY <1>4, <1>5, <2>1, <2>2
    <2>3. CASE \E s \in {"boot_check", "store"} :
                 Set(t, [call[t] EXCEPT !.op = "startup", !.step = s])
      <3>1. PICK s \in {"boot_check", "store"} :
              Set(t, [call[t] EXCEPT !.op = "startup", !.step = s])
        BY <2>3
      <3> DEFINE c == [call[t] EXCEPT !.op = "startup", !.step = s]
      <3>2. c \in Calls /\ c.mine = call[t].mine /\ c.step = s
        BY <1>1 DEF Calls, Steps, Ops
      <3>3. Set(t, c) BY <3>1
      <3> HIDE DEF c
      <3> QED BY <1>2, <2>1, <3>2, <3>3
    <2> QED BY <1>24, <2>2, <2>3 DEF FinishStartup
  <1>25. CASE Store(t)
    BY <1>4, <1>5, <1>25 DEF Store, bounds
  <1> QED BY <1>8, <1>10, <1>11, <1>12, <1>13, <1>14, <1>15, <1>16, <1>17,
             <1>18, <1>19, <1>20, <1>21, <1>22, <1>23, <1>24, <1>25
          DEF Continue, Refresh
LEMMA NextLock == TypeOK /\ LockInv /\ [Next]_vars => LockInv'
  <1> SUFFICES ASSUME TypeOK, LockInv, [Next]_vars PROVE LockInv'
    OBVIOUS
  <1>1. TypeOK' BY NextType
  <1>2. ASSUME NEW t \in Tasks, TryLock(t) PROVE LockInv'
    <2>1. \A u \in Tasks : u # t => call'[u] = call[u]
      BY <1>2 DEF TryLock, Set, TypeOK
    <2>2. call'[t].step # "unlock"
      BY <1>1, <1>2 DEF TryLock, Set, TypeOK, Calls
    <2>3. lock' = TRUE /\ lockExpiries' = lockExpiries
      BY <1>2 DEF TryLock, bounds
    <2>4. CASE lock
      <3>1. call'[t].mine = call[t].mine
        BY <1>2, <2>4 DEF TryLock, Set, TypeOK, Calls
      <3> QED BY <2>1, <2>2, <2>3, <3>1 DEF LockInv, MutualExclusion, At
    <2>5. CASE ~lock
      <3>1. lockExpiries = 0 => \A u \in Tasks : ~call[u].mine
        BY <2>5 DEF LockInv
      <3> QED BY <2>1, <2>2, <2>3, <3>1 DEF LockInv, MutualExclusion, At
    <2> QED BY <2>4, <2>5
  <1>3. ASSUME NEW t \in Tasks, Unlock(t) PROVE LockInv'
    <2>1. \A u \in Tasks : u # t => call'[u] = call[u]
      BY <1>3 DEF Unlock, Set, TypeOK
    <2>2. call'[t].step = "finish" /\ ~call'[t].mine
      BY <1>1, <1>3 DEF Unlock, Set, TypeOK, Calls
    <2>3. lockExpiries = 0 => \A u \in Tasks : u # t => ~call[u].mine
      BY <1>3 DEF Unlock, LockInv, MutualExclusion
    <2>4. lockExpiries' = lockExpiries BY <1>3 DEF Unlock, bounds
    <2> QED BY <2>1, <2>2, <2>3, <2>4 DEF LockInv, MutualExclusion, At
  <1>4. CASE \E k \in Gens : Elapse(k)
    BY <1>4 DEF Elapse, LockInv, MutualExclusion, At, redis, bounds
  <1>5. CASE CacheExpires
    BY <1>5 DEF CacheExpires, LockInv, MutualExclusion, At, bounds
  <1>6. CASE LockExpires
    BY <1>6 DEF LockExpires, Held, LockInv, MutualExclusion, At, TypeOK
  <1>7. CASE Crash
    BY <1>7 DEF Crash, LockInv, MutualExclusion, At, Idle
  <1>8. CASE UNCHANGED vars
    BY <1>8 DEF vars, LockInv, MutualExclusion, At
  <1> QED BY <1>1, <1>2, <1>3, <1>4, <1>5, <1>6, <1>7, <1>8, MoveOwnership
          DEF Next

\* At most one call at a time is inside the locked part of
\* _refresh_with_lock, for as long as no refresh has outlived the lock's TTL,
\* whatever crashes leave behind.
THEOREM LockExcludes == Spec => []MutualExclusion
  <1>1. Init => LockInv
    BY DEF Init, LockInv, MutualExclusion, At, Idle
  <1>2. LockInv => MutualExclusion BY DEF LockInv
  <1> QED BY <1>1, <1>2, NextLock, TypeCorrect, PTL DEF Spec

---------------------------------------------------------------------------
(* The stash is never older than the row                                   *)

\* Every pair a call holds was issued no later than n, or before n.
UpTo(c, n) == c.given <= n /\ c.hand <= n /\ c.spare <= n
Before(c, n) == c.given < n /\ c.hand < n /\ c.spare < n

\* Inductive form: nothing is ahead of Tiny; a pair just answered is newer than
\* all that is stored or held elsewhere; a call about to write the row writes
\* nothing newer than the stash.
StashInv ==
    /\ db <= live /\ stash <= live /\ \A t \in Tasks : UpTo(call[t], live)
    /\ \A t \in Tasks : At(t, "stash") =>
         /\ call[t].hand = live /\ call[t].given < live /\ call[t].spare < live
         /\ db < live /\ stash < live /\ 0 < live
         /\ \A u \in Tasks : u # t => Before(call[u], live)
    /\ StashNotOlder
    /\ stash # NoToken => \A t \in Tasks : At(t, "save") => call[t].hand <= stash

\* The pairs a call can pass on: those stored, and those it already holds.
Holdings(t) ==
    {call[t].given, call[t].spare, db, stash, NoToken, EnvToken}
      \cup IF At(t, "stash") THEN {} ELSE {call[t].hand}

\* A step that leaves the stored pairs alone, and after which the call is about
\* to write the row only with what it found in the stash.
Quiet(t, c) ==
    /\ c \in Calls /\ Set(t, c)
    /\ {c.given, c.hand, c.spare} \subseteq Holdings(t)
    /\ c.step \in Steps \ {"stash", "save", "cache", "unstash"}
         \/ (c.step = "save" /\ c.hand = stash /\ stash # NoToken)

QuietAction(t) ==
    \/ Begin(t) \/ ReadCache(t) \/ ReadDb(t) \/ DropCache(t) \/ ForceRead(t)
    \/ BootRead(t) \/ BootCheck(t) \/ TryLock(t) \/ Reread(t) \/ Unlock(t)
    \/ LoadStash(t) \/ PostRejected(t) \/ PostFailed(t)
    \/ FinishGet(t) \/ FinishForce(t) \/ FinishStartup(t) \/ Store(t)

LEMMA QuietStep ==
  ASSUME TypeOK, NEW t \in Tasks, QuietAction(t)
  PROVE  /\ \E c : Quiet(t, c)
         /\ UNCHANGED <<live, db, stash, replyLost>>
  <1>1. call[t] \in Calls BY DEF TypeOK
  <1>2. UNCHANGED <<live, db, stash, replyLost>>
    <2>1. CASE Begin(t)
      BY <2>1 DEF Begin, GetValidAccessToken, RefreshTokens,
         HandleUnauthorized, ValidateOnStartup, tiny, redis
    <2>2. CASE ReadCache(t) \/ ReadDb(t) \/ DropCache(t) \/ ForceRead(t)
               \/ BootRead(t) \/ BootCheck(t)
      BY <2>2 DEF ReadCache, ReadDb, DropCache, ForceRead, BootRead, BootCheck,
         tiny, redis
    <2>3. CASE TryLock(t) \/ Reread(t) \/ Unlock(t) \/ LoadStash(t)
               \/ PostRejected(t) \/ PostFailed(t)
      BY <2>3 DEF TryLock, Reread, Unlock, LoadStash, PostRejected, PostFailed,
         tiny, redis
    <2>4. CASE FinishGet(t) \/ FinishForce(t) \/ FinishStartup(t) \/ Store(t)
      BY <2>4 DEF FinishGet, FinishForce, FinishStartup, Store, tiny, redis
    <2> QED BY <2>1, <2>2, <2>3, <2>4 DEF QuietAction
  <1> SUFFICES \E c : Quiet(t, c) BY <1>2
  <1>3. ASSUME NEW s \in Steps \ {"stash", "save", "cache", "unstash"},
               ~At(t, "stash"), Goto(t, s)
        PROVE  \E c : Quiet(t, c)
    <2> DEFINE c == [call[t] EXCEPT !.step = s]
    <2>1. /\ c \in Calls /\ c.step = s /\ c.given = call[t].given
          /\ c.hand = call[t].hand /\ c.spare = call[t].spare
      BY <1>1 DEF Calls
    <2>2. Set(t, c) BY <1>3 DEF Goto
    <2> HIDE DEF c
    <2>3. Quiet(t, c) BY <1>3, <2>1, <2>2 DEF Quiet, Holdings
    <2> QED BY <2>3
  <1>4. ASSUME NEW c \in Calls, Set(t, c),
               {c.given, c.hand, c.spare} \subseteq Holdings(t),
               c.step \in Steps \ {"stash", "save", "cache", "unstash"}
        PROVE  \E d : Quiet(t, d)
    BY <1>4 DEF Quiet
  <1>5. /\ Idle \in Calls /\ Idle.given = NoToken /\ Idle.hand = NoToken
        /\ Idle.spare = NoToken /\ Idle.step = "idle" /\ "idle" \in Steps
    BY IdleType DEF Idle, Steps
  <1>6. Set(t, Idle) => \E c : Quiet(t, c)
    BY <1>4, <1>5 DEF Holdings
  <1>7. ASSUME NEW c \in Calls, NEW ok \in BOOLEAN, Set(t, Leave(c, ok)),
               {c.given, c.hand, c.spare} \subseteq Holdings(t)
        PROVE  \E d : Quiet(t, d)
    <2> DEFINE d == Leave(c, ok)
    <2>1. /\ d \in Calls /\ d.given = c.given /\ d.hand = c.hand
          /\ d.spare = c.spare
      BY DEF Leave, Calls, Steps
    <2>2. d.step \in {"unlock", "finish"} BY DEF Leave, Calls
    <2>3. d.step \in Steps \ {"stash", "save", "cache", "unstash"}
      BY <2>2 DEF Steps
    <2>4. Set(t, d) BY <1>7
    <2> HIDE DEF d
    <2> QED BY <1>4, <1>7, <2>1, <2>3, <2>4
  <1>8. ASSUME NEW c \in Calls, NEW k \in Gens, Set(t, RefreshWith(c, k)),
               {k, c.hand, c.spare} \subseteq Holdings(t)
        PROVE  \E d : Quiet(t, d)
    <2> DEFINE d == RefreshWith(c, k)
    <2>1. /\ d \in Calls /\ d.given = k /\ d.hand = c.hand
          /\ d.spare = c.spare /\ d.step = "lock" /\ "lock" \in Steps
      BY DEF RefreshWith, Calls, Steps
    <2>2. Set(t, d) BY <1>8
    <2> HIDE DEF d
    <2> QED BY <1>4, <1>8, <2>1, <2>2
  <1>9. ~At(t, "stash") => {call[t].given, call[t].hand, call[t].spare, db,
                            stash, NoToken, EnvToken} \subseteq Holdings(t)
    BY DEF Holdings
  <1>10. {"wait", "load", "post", "store", "force_read", "boot_check", "finish",
          "read_db"} \subseteq Steps \ {"stash", "save", "cache", "unstash"}
    BY DEF Steps
  <1>11. CASE Begin(t)
    <2>1. PICK op \in Ops, s \in {"read_cache", "force_read", "drop_cache",
                                  "boot_read"} :
            Set(t, [Idle EXCEPT !.op = op, !.step = s])
      BY <1>11 DEF Begin, GetValidAccessToken, RefreshTokens,
         HandleUnauthorized, ValidateOnStartup, Ops
    <2> DEFINE d == [Idle EXCEPT !.op = op]
               c == [d EXCEPT !.step = s]
    <2>2. /\ d \in Calls /\ d.given = NoToken /\ d.hand = NoToken
          /\ d.spare = NoToken
      BY <1>5 DEF Calls
    <2>3. Set(t, c) BY <2>1
    <2> HIDE DEF d
    <2>4. /\ c \in Calls /\ c.given = NoToken /\ c.hand = NoToken
          /\ c.spare = NoToken /\ c.step = s
      BY <2>2 DEF Calls, Steps
    <2>5. s \in Steps \ {"stash", "save", "cache", "unstash"} BY DEF Steps
    <2> HIDE DEF c
    <2> QED BY <1>4, <2>3, <2>4, <2>5 DEF Holdings
  <1>12. CASE ReadCache(t)
    <2>1. ~At(t, "stash") BY <1>12 DEF ReadCache, At
    <2>2. Set(t, Idle) \/ Goto(t, "read_db") BY <1>12 DEF ReadCache, Goto
    <2> QED BY <1>3, <1>6, <1>10, <2>1, <2>2
  <1>13. CASE ReadDb(t)
    <2>1. ~At(t, "stash") BY <1>13 DEF ReadDb, At
    <2>2. CASE RefreshDead(db) BY <1>6, <1>13, <2>2 DEF ReadDb
    <2>3. CASE ~RefreshDead(db)
      <3>1. db \in Gens BY <2>3 DEF RefreshDead, TypeOK
      <3> DEFINE c == [call[t] EXCEPT !.spare = db]
                 d == [call[t] EXCEPT !.step = "store", !.hand = db]
      <3>2. /\ c \in Calls /\ c.spare = db /\ c.given = call[t].given
            /\ c.hand = call[t].hand
        BY <1>1, <3>1 DEF Calls
      <3>3. /\ d \in Calls /\ d.spare = call[t].spare /\ d.hand = db
            /\ d.given = call[t].given /\ d.step = "store"
        BY <1>1, <3>1 DEF Calls, Steps
      <3>4. \/ Set(t, RefreshWith(call[t], db)) \/ Set(t, RefreshWith(c, db))
            \/ Set(t, d)
        BY <1>13, <2>3 DEF ReadDb
      <3> HIDE DEF c, d
      <3>5. CASE Set(t, RefreshWith(call[t], db))
        BY <1>1, <1>8, <1>9, <2>1, <3>1, <3>5
      <3>6. CASE Set(t, RefreshWith(c, db))
        BY <1>8, <1>9, <2>1, <3>1, <3>2, <3>6
      <3>7. CASE Set(t, d) BY <1>4, <1>9, <1>10, <2>1, <3>3, <3>7
      <3> QED BY <3>4, <3>5, <3>6, <3>7
    <2> QED BY <2>2, <2>3
  <1>14. CASE DropCache(t)
    BY <1>3, <1>10, <1>14 DEF DropCache, At
  <1>15. CASE ForceRead(t)
    <2>1. ~At(t, "stash") BY <1>15 DEF ForceRead, At
    <2>2. CASE RefreshDead(db) BY <1>6, <1>15, <2>2 DEF ForceRead
    <2>3. CASE ~RefreshDead(db)
      <3>1. db \in Gens BY <2>3 DEF RefreshDead, TypeOK
      <3>2. Set(t, RefreshWith(call[t], db)) BY <1>15, <2>3 DEF ForceRead
      <3> QED BY <1>1, <1>8, <1>9, <2>1, <3>1, <3>2
    <2> QED BY <2>2, <2>3
  <1>16. CASE BootRead(t)
    <2>1. ~At(t, "stash") BY <1>16 DEF BootRead, At
    <2> DEFINE c == [call[t] EXCEPT !.op = "bootstrap", !.step = "load",
                                    !.given = EnvToken]
               d == [call[t] EXCEPT !.step = "boot_check", !.hand = db]
    <2>2. EnvToken \in Gens BY BoundsAssumption DEF EnvToken, Gens
    <2>3. /\ c \in Calls /\ c.step = "load" /\ c.given = EnvToken
          /\ c.hand = call[t].hand /\ c.spare = call[t].spare
      BY <1>1, <2>2 DEF Calls, Steps, Ops
    <2>4. /\ d \in Calls /\ d.step = "boot_check" /\ d.hand = db
          /\ d.given = call[t].given /\ d.spare = call[t].spare
      BY <1>1 DEF TypeOK, Calls, Steps
    <2>5. Set(t, c) \/ Set(t, d) BY <1>16 DEF BootRead
    <2> HIDE DEF c, d
    <2> QED BY <1>4, <1>9, <1>10, <2>1, <2>3, <2>4, <2>5
  <1>17. CASE BootCheck(t)
    <2>1. ~At(t, "stash") BY <1>17 DEF BootCheck, At
    <2>2. call[t].hand \in Gens BY <1>17 DEF BootCheck, At, TypeOK, Bound
    <2>3. \/ Set(t, Idle) \/ Set(t, RefreshWith(call[t], call[t].hand))
          \/ Goto(t, "store")
      BY <1>17 DEF BootCheck, Goto
    <2> QED BY <1>1, <1>3, <1>6, <1>8, <1>9, <1>10, <2>1, <2>2, <2>3
  <1>18. CASE TryLock(t)
    <2>1. ~At(t, "stash") BY <1>18 DEF TryLock, At
    <2> DEFINE c == [call[t] EXCEPT !.step = "load", !.mine = TRUE]
    <2>2. /\ c \in Calls /\ c.step = "load" /\ c.given = call[t].given
          /\ c.hand = call[t].hand /\ c.spare = call[t].spare
      BY <1>1 DEF Calls, Steps
    <2>3. Set(t, c) \/ Goto(t, "wait") BY <1>18 DEF TryLock, Goto
    <2> HIDE DEF c
    <2> QED BY <1>3, <1>4, <1>9, <1>10, <2>1, <2>2, <2>3
  <1>19. CASE Reread(t)
    <2>1. ~At(t, "stash") BY <1>19 DEF Reread, At
    <2> DEFINE c == [call[t] EXCEPT !.hand = db]
    <2>2. /\ c \in Calls /\ c.given = call[t].given /\ c.hand = db
          /\ c.spare = call[t].spare
      BY <1>1 DEF TypeOK, Calls
    <2>3. Set(t, Leave(c, TRUE)) \/ Goto(t, "load")
      BY <1>19 DEF Reread, Goto
    <2> HIDE DEF c
    <2> QED BY <1>3, <1>7, <1>9, <1>10, <2>1, <2>2, <2>3
  <1>20. CASE Unlock(t)
    <2>1. ~At(t, "stash") BY <1>20 DEF Unlock, At
    <2> DEFINE c == [call[t] EXCEPT !.step = "finish", !.mine = FALSE]
    <2>2. /\ c \in Calls /\ c.step = "finish" /\ c.given = call[t].given
          /\ c.hand = call[t].hand /\ c.spare = call[t].spare
      BY <1>1 DEF Calls, Steps
    <2>3. Set(t, c) BY <1>20 DEF Unlock
    <2> HIDE DEF c
    <2> QED BY <1>4, <1>9, <1>10, <2>1, <2>2, <2>3
  <1>21. CASE LoadStash(t)
    <2>1. ~At(t, "stash") BY <1>21 DEF LoadStash, At
    <2> DEFINE c == [call[t] EXCEPT !.step = "save", !.hand = stash,
                                    !.recovering = TRUE]
    <2>2. /\ c \in Calls /\ c.step = "save" /\ c.given = call[t].given
          /\ c.hand = stash /\ c.spare = call[t].spare
      BY <1>1 DEF TypeOK, Calls, Steps
    <2>3. (stash # NoToken /\ Set(t, c)) \/ Goto(t, "post")
      BY <1>21 DEF LoadStash, Goto
    <2> HIDE DEF c
    <2>4. stash # NoToken /\ Set(t, c) => Quiet(t, c)
      BY <1>9, <2>1, <2>2 DEF Quiet
    <2> QED BY <1>3, <1>10, <2>1, <2>3, <2>4
  <1>22. CASE PostRejected(t) \/ PostFailed(t)
    <2>1. ~At(t, "stash") /\ Set(t, Leave(call[t], FALSE))
      BY <1>22 DEF PostRejected, PostFailed, At
    <2> QED BY <1>1, <1>7, <1>9, <2>1
  <1>23. CASE FinishGet(t)
    <2>1. ~At(t, "stash") BY <1>23 DEF FinishGet, At
    <2> DEFINE c == [call[t] EXCEPT !.step = "store", !.hand = call[t].spare,
                                    !.ok = TRUE]
    <2>2. /\ c \in Calls /\ c.step = "store" /\ c.given = call[t].given
          /\ c.hand = call[t].spare /\ c.spare = call[t].spare
      BY <1>1 DEF Calls, Steps
    <2>3. Set(t, c) \/ Goto(t, "store") \/ Set(t, Idle)
      BY <1>23 DEF FinishGet, Goto
    <2> HIDE DEF c
    <2> QED BY <1>3, <1>4, <1>6, <1>9, <1>10, <2>1, <2>2, <2>3
  <1>24. CASE FinishForce(t) BY <1>6, <1>24 DEF FinishForce
  <1>25. CASE FinishStartup(t)
    <2>1. ~At(t, "stash") BY <1>25 DEF FinishStartup, At
    <2>2. CASE Set(t, Idle) BY <1>6, <2>2
    <2>3. CASE \E s \in {"boot_check", "store"} :
                 Set(t, [call[t] EXCEPT !.op = "startup", !.step = s])
      <3>1. PICK s \in {"boot_check", "store"} :
              Set(t, [call[t] EXCEPT !.op = "startup", !.step = s])
        BY <2>3
      <3> DEFINE c == [call[t] EXCEPT !.op = "startup", !.step = s]
      <3>2. /\ c \in Calls /\ c.step = s /\ c.given = call[t].given
            /\ c.hand = call[t].hand /\ c.spare = call[t].spare
        BY <1>1 DEF Calls, Steps, Ops
      <3>3. Set(t, c) BY <3>1
      <3> HIDE DEF c
      <3> QED BY <1>4, <1>9, <1>10, <2>1, <3>2, <3>3
    <2> QED BY <1>25, <2>2, <2>3 DEF FinishStartup
  <1>26. CASE Store(t) BY <1>6, <1>26 DEF Store
  <1> QED BY <1>2, <1>11, <1>12, <1>13, <1>14, <1>15, <1>16, <1>17, <1>18,
             <1>19, <1>20, <1>21, <1>22, <1>23, <1>24, <1>25, <1>26
          DEF QuietAction

LEMMA StashMove ==
  ASSUME TypeOK, StashInv, NEW t \in Tasks, NEW c \in Calls, Set(t, c),
         c.given \in Holdings(t), c.hand \in Holdings(t),
         c.spare \in Holdings(t), c.step # "stash",
         c.step = "save" => (stash # NoToken => c.hand <= stash),
         live' = live, stash' \in {stash, NoToken}, db' \in Holdings(t),
         stash # NoToken => db' <= stash
  PROVE  StashInv'
  <1>1. call'[t] = c /\ \A u \in Tasks : u # t => call'[u] = call[u]
    BY SetEffect
  <1>2. /\ live \in Nat /\ db \in Int /\ stash \in Int
        /\ \A u \in Tasks : /\ call[u].given \in Int /\ call[u].hand \in Int
                            /\ call[u].spare \in Int
    BY BoundsAssumption DEF TypeOK, Calls, Gens, NoToken
  <1>3. \A k \in Holdings(t) :
          /\ k <= live
          /\ \A u \in Tasks : u # t /\ At(u, "stash") => k < live
    BY <1>2 DEF StashInv, Holdings, UpTo, Before, NoToken, EnvToken
  <1>4. \A u \in Tasks : UpTo(call'[u], live)
    BY <1>1, <1>3 DEF StashInv, UpTo
  <1>5. ASSUME NEW u \in Tasks, At(u, "stash")'
        PROVE  /\ At(u, "stash") /\ u # t
               /\ \A v \in Tasks : v # u => Before(call'[v], live)
    <2>1. u # t /\ At(u, "stash") BY <1>1, <1>5 DEF At
    <2>2. Before(c, live) BY <1>3, <2>1 DEF Before
    <2>3. \A v \in Tasks : v # u /\ v # t => Before(call[v], live)
      BY <2>1 DEF StashInv
    <2> QED BY <1>1, <2>1, <2>2, <2>3
  <1>6. stash' # NoToken =>
          \A u \in Tasks : At(u, "save")' => call'[u].hand <= stash'
    BY <1>1 DEF StashInv, At
  <1>8. \A u \in Tasks : At(u, "stash")' => db' < live
    BY <1>3, <1>5
  <1>7. \A u \in Tasks : At(u, "stash")' =>
          call'[u] = call[u] /\ At(u, "stash")
    BY <1>1, <1>5
  <1>9. db' <= live BY <1>3
  <1>10. stash' <= live /\ \A u \in Tasks : At(u, "stash") => stash' < live
    BY <1>2 DEF StashInv, NoToken
  <1> QED BY <1>4, <1>5, <1>6, <1>7, <1>8, <1>9, <1>10
          DEF StashInv, StashNotOlder

LEMMA NextStash == TypeOK /\ StashInv /\ [Next]_vars => StashInv'
  <1> SUFFICES ASSUME TypeOK, StashInv, [Next]_vars PROVE StashInv'
    OBVIOUS
  <1>1. /\ live \in Nat /\ db \in Int /\ stash \in Int
        /\ \A u \in Tasks : /\ call[u] \in Calls
                            /\ call[u].given \in Int /\ call[u].hand \in Int
                            /\ call[u].spare \in Int
    BY BoundsAssumption DEF TypeOK, Calls, Gens, NoToken
  <1>2. ASSUME NEW t \in Tasks, QuietAction(t) PROVE StashInv'
    <2>1. PICK c : Quiet(t, c) BY <1>2, QuietStep
    <2>2. UNCHANGED <<live, db, stash>> BY <1>2, QuietStep
    <2>3. c.step # "stash" /\ (c.step = "save" => c.hand = stash)
      BY <2>1 DEF Quiet, Steps
    <2>4. c.step = "save" => (stash # NoToken => c.hand <= stash)
      BY <1>1, <2>3
    <2>5. db \in Holdings(t) /\ (stash # NoToken => db <= stash)
      BY DEF Holdings, StashInv, StashNotOlder
    <2> QED BY <2>1, <2>2, <2>3, <2>4, <2>5, StashMove DEF Quiet
  <1>3. ASSUME NEW t \in Tasks, PostGranted(t) PROVE StashInv'
    <2> DEFINE c == [call[t] EXCEPT !.step = "stash", !.hand = live + 1]
    <2>1. /\ c.step = "stash" /\ c.hand = live + 1 /\ c.given = call[t].given
          /\ c.spare = call[t].spare
      BY <1>1 DEF Calls
    <2>2. Set(t, c) /\ live' = live + 1 /\ UNCHANGED <<db, stash>>
      BY <1>3 DEF PostGranted, redis
    <2> HIDE DEF c
    <2>3. call'[t] = c /\ \A u \in Tasks : u # t => call'[u] = call[u]
      BY <2>2, SetEffect
    <2>4. call[t].given = live BY <1>3 DEF PostGranted, Exchangeable
    <2>5. \A u \in Tasks : ~At(u, "stash")
      BY <1>1, <1>3, <2>4 DEF StashInv, Before, PostGranted, At
    <2>6. \A u \in Tasks : At(u, "stash")' => u = t BY <2>3, <2>5 DEF At
    <2>7. \A u \in Tasks : UpTo(call[u], live) /\ Before(call[u], live')
      BY <1>1, <2>2 DEF StashInv, UpTo, Before
    <2>8. \A u \in Tasks : UpTo(call'[u], live')
      BY <1>1, <2>1, <2>2, <2>3, <2>7 DEF UpTo, Before
    <2>9. stash # NoToken =>
            \A u \in Tasks : At(u, "save")' => call'[u].hand <= stash
      BY <2>1, <2>3 DEF StashInv, At
    <2>10. /\ db <= live' /\ stash <= live' /\ db < live' /\ stash < live'
           /\ 0 < live'
      BY <1>1, <2>2 DEF StashInv
    <2>11. /\ call'[t].hand = live' /\ call'[t].given < live'
           /\ call'[t].spare < live'
      BY <1>1, <2>1, <2>2, <2>3, <2>7 DEF Before
    <2> QED BY <2>2, <2>3, <2>6, <2>7, <2>8, <2>9, <2>10, <2>11
            DEF StashInv, StashNotOlder
  <1>4. ASSUME NEW t \in Tasks, PostUnanswered(t) PROVE StashInv'
    <2>1. live' = live + 1 /\ UNCHANGED <<db, stash>>
      BY <1>4 DEF PostUnanswered, redis
    <2> DEFINE c == Leave(call[t], FALSE)
    <2>2. /\ c.given = call[t].given /\ c.hand = call[t].hand
          /\ c.spare = call[t].spare /\ c.step \in {"unlock", "finish"}
      BY <1>1 DEF Leave, Calls
    <2>3. Set(t, c) BY <1>4 DEF PostUnanswered
    <2> HIDE DEF c
    <2>4. call'[t] = c /\ \A u \in Tasks : u # t => call'[u] = call[u]
      BY <2>3, SetEffect
    <2>5. call[t].given = live BY <1>4 DEF PostUnanswered, Exchangeable
    <2>6. \A u \in Tasks : ~At(u, "stash")
      BY <1>1, <1>4, <2>5 DEF StashInv, Before, PostUnanswered, At
    <2>7. \A u \in Tasks : ~At(u, "stash")' BY <2>2, <2>4, <2>6 DEF At
    <2>8. \A u \in Tasks : UpTo(call'[u], live')
      BY <1>1, <2>1, <2>2, <2>4 DEF StashInv, UpTo
    <2>9. stash # NoToken =>
            \A u \in Tasks : At(u, "save")' => call'[u].hand <= stash
      BY <2>2, <2>4 DEF StashInv, At
    <2>10. db <= live' /\ stash <= live' BY <1>1, <2>1 DEF StashInv
    <2> QED BY <2>1, <2>7, <2>8, <2>9, <2>10 DEF StashInv, StashNotOlder
  <1>5. ASSUME NEW t \in Tasks, StashPending(t) PROVE StashInv'
    <2> DEFINE c == [call[t] EXCEPT !.step = "save"]
    <2>1. /\ c.step = "save" /\ c.hand = call[t].hand
          /\ c.given = call[t].given /\ c.spare = call[t].spare
      BY <1>1 DEF Calls
    <2>2. Set(t, c) BY <1>5 DEF StashPending, Goto
    <2>3. live' = live /\ db' = db /\ stash' = call[t].hand
      BY <1>5 DEF StashPending, tiny
    <2> HIDE DEF c
    <2>4. call'[t] = c /\ \A u \in Tasks : u # t => call'[u] = call[u]
      BY <2>2, SetEffect
    <2>5. /\ call[t].hand = live /\ db < live
          /\ \A u \in Tasks : u # t => Before(call[u], live)
      BY <1>5 DEF StashInv, StashPending, At
    <2>6. \A u \in Tasks : ~At(u, "stash")'
      BY <1>1, <2>1, <2>4, <2>5 DEF StashInv, At, Before
    <2>7. \A u \in Tasks : UpTo(call'[u], live)
      BY <1>1, <2>1, <2>4 DEF StashInv, UpTo
    <2>8. \A u \in Tasks : call'[u].hand <= live BY <2>7 DEF UpTo
    <2> QED BY <1>1, <2>3, <2>5, <2>6, <2>7, <2>8 DEF StashInv, StashNotOlder
  <1>6. ASSUME NEW t \in Tasks, SaveToken(t) \/ CacheAccessToken(t)
        PROVE  StashInv'
    <2>1. PICK s \in {"cache", "unstash"} : Goto(t, s)
      BY <1>6 DEF SaveToken, CacheAccessToken
    <2> DEFINE c == [call[t] EXCEPT !.step = s]
    <2>2. /\ c \in Calls /\ c.step = s /\ c.hand = call[t].hand
          /\ c.given = call[t].given /\ c.spare = call[t].spare
      BY <1>1 DEF Calls, Steps
    <2>3. Set(t, c) BY <2>1 DEF Goto
    <2>4. live' = live /\ stash' = stash /\ ~At(t, "stash")
      BY <1>6 DEF SaveToken, CacheAccessToken, tiny, redis, At
    <2>5. {c.given, c.hand, c.spare, db} \subseteq Holdings(t)
      BY <2>2, <2>4 DEF Holdings
    <2> HIDE DEF c
    <2>6. CASE SaveToken(t)
      <3>1. db' = call[t].hand /\ At(t, "save") BY <2>6 DEF SaveToken
      <3>2. stash # NoToken => db' <= stash BY <3>1 DEF StashInv
      <3> QED BY <2>2, <2>3, <2>4, <2>5, <3>1, <3>2, StashMove
    <2>7. CASE CacheAccessToken(t)
      <3>1. db' = db BY <2>7 DEF CacheAccessToken
      <3>2. stash # NoToken => db' <= stash
        BY <3>1 DEF StashInv, StashNotOlder
      <3> QED BY <2>2, <2>3, <2>4, <2>5, <3>1, <3>2, StashMove
    <2> QED BY <1>6, <2>6, <2>7
  <1>7. ASSUME NEW t \in Tasks, DeleteStash(t) PROVE StashInv'
    <2> DEFINE d == [call[t] EXCEPT !.recovering = FALSE]
               p == [call[t] EXCEPT !.step = "post", !.given = call[t].hand,
                                    !.recovering = FALSE]
               e == Leave(d, TRUE)
    <2>1. /\ d \in Calls /\ d.given = call[t].given /\ d.hand = call[t].hand
          /\ d.spare = call[t].spare
      BY <1>1 DEF Calls
    <2>2. /\ p \in Calls /\ p.given = call[t].hand /\ p.hand = call[t].hand
          /\ p.spare = call[t].spare /\ p.step = "post"
      BY <1>1 DEF Calls, Steps
    <2>3. Set(t, p) \/ Set(t, e) BY <1>7 DEF DeleteStash
    <2> HIDE DEF d
    <2>4. /\ e \in Calls /\ e.given = call[t].given /\ e.hand = call[t].hand
          /\ e.spare = call[t].spare /\ e.step \in {"unlock", "finish"}
      BY <2>1 DEF Leave, Calls, Steps
    <2>5. live' = live /\ db' = db /\ stash' = NoToken /\ ~At(t, "stash")
      BY <1>7 DEF DeleteStash, tiny, At
    <2>6. {call[t].given, call[t].hand, call[t].spare, db} \subseteq Holdings(t)
      BY <2>5 DEF Holdings
    <2>7. stash # NoToken => db' <= stash
      BY <2>5 DEF StashInv, StashNotOlder
    <2> HIDE DEF p, e
    <2> QED BY <2>2, <2>3, <2>4, <2>5, <2>6, <2>7, StashMove
  <1>8. CASE \E k \in Gens : Elapse(k)
    BY <1>8 DEF Elapse, StashInv, StashNotOlder, UpTo, Before, At, redis
  <1>9. CASE CacheExpires
    BY <1>9 DEF CacheExpires, StashInv, StashNotOlder, UpTo, Before, At, tiny
  <1>10. CASE LockExpires
    BY <1>10 DEF LockExpires, StashInv, StashNotOlder, UpTo, Before, At, tiny
  <1>11. CASE Crash
    <2>1. \A u \in Tasks : call'[u] = Idle BY <1>11 DEF Crash
    <2>2. UpTo(Idle, live) /\ Idle.step = "idle"
      BY <1>1 DEF UpTo, Idle, NoToken
    <2>3. UNCHANGED <<live, db, stash>> BY <1>11 DEF Crash, tiny, redis
    <2> QED BY <2>1, <2>2, <2>3 DEF StashInv, StashNotOlder, At, UpTo
  <1>12. CASE UNCHANGED vars
    BY <1>12 DEF vars, StashInv, StashNotOlder, UpTo, Before, At
  <1> QED BY <1>2, <1>3, <1>4, <1>5, <1>6, <1>7, <1>8, <1>9, <1>10, <1>11,
             <1>12 DEF Next, Continue, Refresh, QuietAction

\* However the calls interleave and wherever the process dies, the pending
\* rotation in Redis is at least as new as the row it would replace.
THEOREM StashIsNewer == Spec => []StashNotOlder
  <1>1. Init => StashInv
    <2> SUFFICES ASSUME Init PROVE StashInv OBVIOUS
    <2>1. \A t \in Tasks : UpTo(call[t], 0) /\ call[t].step = "idle"
      <3>1. UpTo(Idle, 0) /\ Idle.step = "idle" BY DEF UpTo, Idle, NoToken
      <3> QED BY <3>1 DEF Init
    <2> QED BY <2>1
            DEF Init, StashInv, StashNotOlder, At, UpTo, NoToken, EnvToken
  <1>2. StashInv => StashNotOlder BY DEF StashInv
  <1> QED BY <1>1, <1>2, NextStash, TypeCorrect, PTL DEF Spec

---------------------------------------------------------------------------
(* Crash recovery                                                          *)

\* Inductive form for a service used by one call at a time: a stash is the
\* live pair, and the row is the live pair whenever there is no stash to say
\* otherwise.
RecoveryInv ==
    ~replyLost => \A t \in Tasks :
        IF At(t, "stash") THEN call[t].hand = live
        ELSE /\ stash # NoToken => stash = live
             /\ stash = NoToken =>
                  db = live \/ (db = NoToken /\ live = EnvToken)
             /\ At(t, "save") => call[t].hand = live /\ stash = live
             /\ At(t, "cache") \/ At(t, "unstash") => db = live

LEMMA QuietFrom ==
  ASSUME NEW t \in Tasks, QuietAction(t)
  PROVE  ~At(t, "stash")
  <1>1. CASE Begin(t)
    BY <1>1 DEF Begin, GetValidAccessToken, RefreshTokens, HandleUnauthorized,
       ValidateOnStartup, At
  <1>2. CASE ReadCache(t) \/ ReadDb(t) \/ DropCache(t) \/ ForceRead(t)
             \/ BootRead(t) \/ BootCheck(t)
    BY <1>2 DEF ReadCache, ReadDb, DropCache, ForceRead, BootRead, BootCheck, At
  <1>3. CASE TryLock(t) \/ Reread(t) \/ Unlock(t) \/ LoadStash(t)
             \/ PostRejected(t) \/ PostFailed(t)
    BY <1>3 DEF TryLock, Reread, Unlock, LoadStash, PostRejected, PostFailed, At
  <1>4. CASE FinishGet(t) \/ FinishForce(t) \/ FinishStartup(t) \/ Store(t)
    BY <1>4 DEF FinishGet, FinishForce, FinishStartup, Store, At
  <1> QED BY <1>1, <1>2, <1>3, <1>4 DEF QuietAction

LEMMA NextRecovery ==
  ASSUME NEW w, Tasks = {w}, TypeOK, RecoveryInv, [Next]_vars
  PROVE  RecoveryInv'
  <1>1. /\ call[w] \in Calls /\ \A t \in Tasks : t = w
        /\ live \in Nat
    BY BoundsAssumption DEF TypeOK, Gens
  <1>2. ASSUME QuietAction(w) PROVE RecoveryInv'
    <2>1. PICK c : Quiet(w, c) BY <1>2, QuietStep
    <2>2. UNCHANGED <<live, db, stash, replyLost>> BY <1>2, QuietStep
    <2>3. ~At(w, "stash") BY <1>2, QuietFrom
    <2>4. call'[w] = c BY <2>1, SetEffect DEF Quiet
    <2>5. c.step # "stash" /\ c.step # "cache" /\ c.step # "unstash"
      BY <2>1 DEF Quiet, Steps
    <2>6. c.step = "save" => c.hand = stash /\ stash # NoToken
      BY <2>1 DEF Quiet, Steps
    <2> QED BY <1>1, <2>2, <2>3, <2>4, <2>5, <2>6 DEF RecoveryInv, At
  <1>3. ASSUME PostGranted(w) PROVE RecoveryInv'
    <2> DEFINE c == [call[w] EXCEPT !.step = "stash", !.hand = live + 1]
    <2>1. c.step = "stash" /\ c.hand = live + 1 BY <1>1 DEF Calls
    <2>2. Set(w, c) /\ live' = live + 1 BY <1>3 DEF PostGranted
    <2> HIDE DEF c
    <2>3. call'[w] = c BY <2>2, SetEffect
    <2> QED BY <1>1, <2>1, <2>2, <2>3 DEF RecoveryInv, At
  <1>4. ASSUME PostUnanswered(w) PROVE RecoveryInv'
    BY <1>4 DEF PostUnanswered, RecoveryInv
  <1>5. ASSUME NEW s \in Steps, Goto(w, s)
        PROVE  call'[w].step = s /\ call'[w].hand = call[w].hand
    <2> DEFINE c == [call[w] EXCEPT !.step = s]
    <2>1. c.step = s /\ c.hand = call[w].hand BY <1>1 DEF Calls
    <2>2. Set(w, c) BY <1>5 DEF Goto
    <2> HIDE DEF c
    <2> QED BY <2>1, <2>2, SetEffect
  <1>6. ASSUME StashPending(w) PROVE RecoveryInv'
    <2>1. call'[w].step = "save" /\ call'[w].hand = call[w].hand
      BY <1>5, <1>6 DEF StashPending, Steps
    <2>2. /\ At(w, "stash") /\ stash' = call[w].hand
          /\ UNCHANGED <<live, replyLost>>
      BY <1>6 DEF StashPending, tiny
    <2> QED BY <1>1, <2>1, <2>2 DEF RecoveryInv, At, NoToken
  <1>7. ASSUME SaveToken(w) PROVE RecoveryInv'
    <2>1. call'[w].step = "cache" /\ call'[w].hand = call[w].hand
      BY <1>5, <1>7 DEF SaveToken, Steps
    <2>2. /\ At(w, "save") /\ db' = call[w].hand
          /\ UNCHANGED <<live, stash, replyLost>>
      BY <1>7 DEF SaveToken, tiny, redis
    <2> QED BY <1>1, <2>1, <2>2 DEF RecoveryInv, At, NoToken
  <1>8. ASSUME CacheAccessToken(w) PROVE RecoveryInv'
    <2>1. call'[w].step = "unstash"
      BY <1>5, <1>8 DEF CacheAccessToken, Steps
    <2>2. At(w, "cache") /\ UNCHANGED <<live, db, stash, replyLost>>
      BY <1>8 DEF CacheAccessToken, tiny
    <2> QED BY <1>1, <2>1, <2>2 DEF RecoveryInv, At
  <1>9. ASSUME DeleteStash(w) PROVE RecoveryInv'
    <2> DEFINE d == [call[w] EXCEPT !.recovering = FALSE]
               p == [call[w] EXCEPT !.step = "post", !.given = call[w].hand,
                                    !.recovering = FALSE]
               e == Leave(d, TRUE)
    <2>1. d \in Calls /\ p.step = "post" BY <1>1 DEF Calls
    <2>2. Set(w, p) \/ Set(w, e) BY <1>9 DEF DeleteStash
    <2> HIDE DEF d
    <2>3. e.step \in {"unlock", "finish"} BY <2>1 DEF Leave, Calls
    <2> HIDE DEF p, e
    <2>4. call'[w].step \in {"post", "unlock", "finish"}
      BY <2>1, <2>2, <2>3, SetEffect
    <2>5. /\ At(w, "unstash") /\ stash' = NoToken
          /\ UNCHANGED <<live, db, replyLost>>
      BY <1>9 DEF DeleteStash, tiny
    <2> QED BY <1>1, <2>4, <2>5 DEF RecoveryInv, At
  <1>10. CASE \E k \in Gens : Elapse(k)
    BY <1>10 DEF Elapse, RecoveryInv, At, redis
  <1>11. CASE CacheExpires
    BY <1>11 DEF CacheExpires, RecoveryInv, At, tiny
  <1>12. CASE LockExpires
    BY <1>12 DEF LockExpires, RecoveryInv, At, tiny
  <1>13. CASE Crash
    <2>1. call'[w] = Idle /\ Idle.step = "idle" BY <1>13 DEF Crash, Idle
    <2>2. ~replyLost' => ~replyLost /\ ~At(w, "stash") BY <1>13 DEF Crash
    <2>3. UNCHANGED <<live, db, stash>> BY <1>13 DEF Crash, tiny, redis
    <2> QED BY <1>1, <2>1, <2>2, <2>3 DEF RecoveryInv, At
  <1>14. CASE UNCHANGED vars
    BY <1>14 DEF vars, RecoveryInv, At
  <1> QED BY <1>1, <1>2, <1>3, <1>4, <1>6, <1>7, <1>8, <1>9, <1>10, <1>11,
             <1>12, <1>13, <1>14 DEF Next, Continue, Refresh, QuietAction

\* With one call at a time the stash protocol is crash-safe: unless the answer
\* of Tiny itself was lost, the live refresh token can always be found again.
THEOREM SerialRecovery ==
  ASSUME NEW CONSTANT w, Tasks = {w}
  PROVE  Spec => []Recoverable
  <1>1. Init => RecoveryInv
    <2>1. Idle.step = "idle" BY DEF Idle
    <2> QED BY <2>1 DEF Init, RecoveryInv, At
  <1>2. TypeOK /\ RecoveryInv /\ [Next]_vars => RecoveryInv'
    BY NextRecovery
  <1>3. RecoveryInv => Recoverable
    BY DEF RecoveryInv, Recoverable, Reachable
  <1> QED BY <1>1, <1>2, <1>3, TypeCorrect, PTL DEF Spec

---------------------------------------------------------------------------
(* MLTokenRotation implements TokenRotation, for any number of tasks and any  *)
(* bounds; what is proved about the latter therefore holds of it too.         *)

\* Why the missing checks do not matter: no refresh token has ended.
NoneDead == \A k \in Gens : age[k] # Dead

\* Where no refresh token has ended, only a missing row counts as dead.
LEMMA OnlyMissing ==
  ASSUME NoneDead, NEW k \in Gens \cup {NoToken}
  PROVE  RefreshDead(k) <=> k = NoToken
  BY DEF RefreshDead, NoneDead

\* A call's step of the Mercado Livre service is one the Tiny service takes.
LEMMA CallStep ==
  ASSUME TypeOK, NoneDead, NEW t \in Tasks, MLCall(t)
  PROVE  Begin(t) \/ Continue(t)
  <1>1. CASE MLReadDb(t)
    <2>1. RefreshDead(db) <=> db = NoToken BY OnlyMissing DEF TypeOK
    <2>2. ReadDb(t) BY <1>1, <2>1 DEF MLReadDb, ReadDb
    <2> QED BY <2>2 DEF Continue
  <1>2. CASE MLForceRead(t)
    <2>1. RefreshDead(db) <=> db = NoToken BY OnlyMissing DEF TypeOK
    <2>2. ForceRead(t) BY <1>2, <2>1 DEF MLForceRead, ForceRead
    <2> QED BY <2>2 DEF Continue
  <1>3. CASE MLBootCheck(t)
    <2>1. call[t].hand \in Gens
      BY <1>3 DEF MLBootCheck, At, TypeOK, Bound
    <2>2. ~RefreshDead(call[t].hand)
      <3>1. call[t].hand # NoToken BY <2>1, BoundsAssumption DEF Gens, NoToken
      <3> QED BY <2>1, <3>1, OnlyMissing
    <2>3. BootCheck(t)
      BY <1>3, <2>2 DEF MLBootCheck, BootCheck
    <2> QED BY <2>3 DEF Continue
  <1>4. CASE ~MLReadDb(t) /\ ~MLForceRead(t) /\ ~MLBootCheck(t)
    BY <1>4 DEF MLCall, MLGetValidAccessToken, MLHandleUnauthorized,
       MLRefreshTokens, MLValidateOnStartup, MLRefreshWithLock,
       MLRefreshWithToken, MLPersistToken, Begin, Continue, Refresh
  <1> QED BY <1>1, <1>2, <1>3, <1>4

\* So is every other step.
LEMMA MLStep ==
  ASSUME TypeOK, NoneDead, [MLNext]_vars
  PROVE  [Next]_vars
  <1>1. CASE \E t \in Tasks : MLCall(t)
    <2>1. PICK t \in Tasks : MLCall(t) BY <1>1
    <2>2. Begin(t) \/ Continue(t) BY <2>1, CallStep
    <2> QED BY <2>2 DEF Next
  <1>2. CASE \E k \in Gens : MLElapse(k) BY <1>2 DEF MLElapse, Next
  <1>3. CASE CacheExpires \/ LockExpires \/ Crash BY <1>3 DEF Next
  <1>4. CASE UNCHANGED vars BY <1>4
  <1> QED BY <1>1, <1>2, <1>3, <1>4 DEF MLNext

\* A call does not move the clock.
LEMMA CallKeepsAge ==
  ASSUME NEW t \in Tasks, MLCall(t)
  PROVE  age' = age
  BY DEF MLCall, MLGetValidAccessToken, MLHandleUnauthorized,
     MLRefreshTokens, MLValidateOnStartup, MLRefreshWithLock,
     MLRefreshWithToken, MLPersistToken, GetValidAccessToken, ReadCache,
     MLReadDb, FinishGet, HandleUnauthorized, DropCache, MLForceRead,
     FinishForce, ValidateOnStartup, BootRead, MLBootCheck, FinishStartup,
     TryLock, Reread, Unlock, LoadStash, PostGranted, PostRejected,
     PostFailed, PostUnanswered, StashPending, SaveToken, CacheAccessToken,
     DeleteStash, Store, tiny

LEMMA NoneDies ==
  ASSUME TypeOK, NoneDead, [MLNext]_vars
  PROVE  NoneDead'
  <1>1. CASE \E k \in Gens : MLElapse(k)
    <2>1. PICK k \in Gens : MLElapse(k) BY <1>1
    <2>2. age[k] < Expired /\ age' = [age EXCEPT ![k] = @ + 1]
      BY <2>1 DEF MLElapse, Elapse
    <2>3. age[k] + 1 # Dead
      BY <2>2 DEF TypeOK, Fresh, Dead, Expired
    <2>4. \A j \in Gens : age'[j] = IF j = k THEN age[k] + 1 ELSE age[j]
      BY <2>2 DEF TypeOK
    <2> QED BY <2>3, <2>4 DEF NoneDead
  <1>2. CASE \E t \in Tasks : MLCall(t)
    BY <1>2, CallKeepsAge DEF NoneDead
  <1>3. CASE CacheExpires \/ LockExpires \/ Crash \/ UNCHANGED vars
    BY <1>3 DEF CacheExpires, LockExpires, Crash, tiny, vars, NoneDead
  <1> QED BY <1>1, <1>2, <1>3 DEF MLNext

\* Every behaviour of the Mercado Livre service is one of TokenRotation.
THEOREM MLImplements == MLSpec => Spec
  <1>1. Init => TypeOK /\ NoneDead
    <2>1. Init => NoneDead BY DEF Init, NoneDead, Fresh, Dead
    <2> QED BY <2>1, InitType
  <1>2. TypeOK /\ NoneDead /\ [MLNext]_vars => (TypeOK /\ NoneDead)'
    BY MLStep, NextType, NoneDies
  <1>3. TypeOK /\ NoneDead /\ [MLNext]_vars => [Next]_vars BY MLStep
  <1> QED BY <1>1, <1>2, <1>3, PTL DEF MLSpec, Spec

\* The Mercado Livre lock excludes, and its stash is never older than its row.
COROLLARY MLSafe == MLSpec => [](MutualExclusion /\ StashNotOlder)
  BY MLImplements, LockExcludes, StashIsNewer, PTL

\* One Mercado Livre call at a time keeps the live refresh token findable.
COROLLARY MLSerialRecovery ==
  ASSUME NEW CONSTANT w, Tasks = {w}
  PROVE  MLSpec => []Recoverable
  <1>1. Spec => []Recoverable BY SerialRecovery
  <1> QED BY <1>1, MLImplements, PTL

\* Whichever service a behaviour shows, the stored tokens and the calls move only as
\* those of Tiny's service do.
COROLLARY ServicesRefine == SerialSpec => MLRefines
  <1> DEFINE Inv == TypeOK /\ (scene = "ml" => NoneDead)
  <1>1. MCInit => Inv
    <2>1. Init => NoneDead BY DEF Init, NoneDead, Fresh, Dead
    <2> QED BY <2>1, InitType DEF MCInit
  <1>2. ASSUME Inv, [MCNext]_allVars PROVE [Next]_vars /\ Inv'
    <2>1. CASE scene = "tiny" /\ Next /\ UNCHANGED scene
      BY <1>2, <2>1, NextType
    <2>2. CASE scene = "ml" /\ MLNext /\ UNCHANGED scene
      BY <1>2, <2>2, MLStep, NextType, NoneDies
    <2>3. CASE UNCHANGED <<scene, vars>>
      <3>1. NoneDead => NoneDead' BY <2>3 DEF vars, NoneDead, tiny
      <3> QED BY <1>2, <2>3, <3>1, NextType
    <2> QED BY <1>2, <2>1, <2>2, <2>3 DEF MCNext, allVars
  <1> QED BY <1>1, <1>2, PTL DEF SerialSpec, MLRefines

---------------------------------------------------------------------------
(* The request pipelines: the records that steps put in sent               *)

RequestSteps == {"idle", "gate", "gate_reset", "wait", "token", "send", "update",
                 "update_reset", "judge", "sleep", "reauth"}

LEMMA RequestIdle ==
  /\ Rq!Idle \in Rq!Calls /\ Rq!Idle.step = "idle" /\ Rq!Idle.answer = "none"
  /\ Rq!Idle.attempt = 0 /\ Rq!Idle.refreshed = FALSE /\ Rq!Idle.sends = 0
  /\ Rq!Idle.pipeline = "tiny"
  BY RequestsAssumption DEF Rq!Idle, Rq!Calls, Rq!Pipelines, Rq!Answers

LEMMA RequestBegun ==
  ASSUME NEW p \in Rq!Pipelines, NEW s \in RequestSteps
  PROVE  LET n == [Rq!Idle EXCEPT !.pipeline = p, !.step = s] IN
         /\ n \in Rq!Calls /\ n.step = s /\ n.answer = "none" /\ n.attempt = 0
         /\ n.refreshed = FALSE /\ n.sends = 0 /\ n.pipeline = p
  <1> DEFINE n == [Rq!Idle EXCEPT !.pipeline = p, !.step = s]
  <1>1. n \in Rq!Calls
    <2>1. \A i \in Rq!Calls : [i EXCEPT !.pipeline = p, !.step = s] \in Rq!Calls
      BY DEF Rq!Calls, RequestSteps
    <2> QED BY <2>1, RequestIdle, Zenon
  <1>2. n.step = s /\ n.pipeline = p
    BY DEF Rq!Idle
  <1>3. n.answer = "none" /\ n.attempt = 0 /\ n.refreshed = FALSE /\ n.sends = 0
    BY DEF Rq!Idle
  <1> QED BY <1>1, <1>2, <1>3

LEMMA RequestMoved ==
  ASSUME NEW r \in Rq!Calls, NEW s \in RequestSteps
  PROVE  LET n == [r EXCEPT !.step = s] IN
         /\ n \in Rq!Calls /\ n.step = s /\ n.answer = r.answer /\ n.attempt = r.attempt
         /\ n.refreshed = r.refreshed /\ n.sends = r.sends /\ n.pipeline = r.pipeline
         /\ n.left = r.left
  BY DEF Rq!Calls, RequestSteps

LEMMA RequestRetried ==
  ASSUME NEW r \in Rq!Calls, NEW s \in RequestSteps, r.attempt < MaxRetries
  PROVE  LET n == [r EXCEPT !.step = s, !.attempt = @ + 1] IN
         /\ n \in Rq!Calls /\ n.step = s /\ n.answer = r.answer /\ n.attempt = r.attempt + 1
         /\ n.refreshed = r.refreshed /\ n.sends = r.sends /\ n.pipeline = r.pipeline
  <1>1. r.attempt + 1 \in 0..MaxRetries
    BY RequestsAssumption DEF Rq!Calls
  <1>2. \A k \in 0..MaxRetries :
          LET n == [r EXCEPT !.step = s, !.attempt = k] IN
          /\ n \in Rq!Calls /\ n.step = s /\ n.answer = r.answer /\ n.attempt = k
          /\ n.refreshed = r.refreshed /\ n.sends = r.sends /\ n.pipeline = r.pipeline
    BY DEF Rq!Calls, RequestSteps
  <1> QED BY <1>1, <1>2, Zenon

LEMMA RequestRefreshed ==
  ASSUME NEW r \in Rq!Calls, NEW s \in RequestSteps
  PROVE  LET n == [r EXCEPT !.refreshed = TRUE, !.step = s] IN
         /\ n \in Rq!Calls /\ n.step = s /\ n.answer = r.answer /\ n.attempt = r.attempt
         /\ n.refreshed = TRUE /\ n.sends = r.sends /\ n.pipeline = r.pipeline
  BY DEF Rq!Calls, RequestSteps

---------------------------------------------------------------------------
(* What one request sends                                                  *)

Tried == {"update", "update_reset", "judge", "reauth"}

\* What a request has sent is covered by its turns: one for the first sending, one
\* for each retry counted, one for the fresh token of a 401.  An answer that tells
\* that it was executed is the last one; only the shared budget has a gate.
Counted(r) ==
  /\ r.step = "reauth" => ~r.refreshed
  /\ r.sends <= r.attempt + (IF r.refreshed THEN 1 ELSE 0) + (IF r.step \in Tried THEN 1 ELSE 0)
  /\ r.answer \in {"ok", "garbled"} => r.step \in {"update", "update_reset", "judge"}
  /\ r.step \in {"gate", "gate_reset", "wait", "update", "update_reset"} => r.pipeline = "tiny"

CountInv ==
  /\ used \in 0..Limit /\ sent \in [Callers -> Rq!Calls]
  /\ \A c \in Callers : Counted(sent[c])

\* One caller's record is replaced by one that is in order.
LEMMA RequestChanges ==
  ASSUME CountInv, NEW c \in Callers, NEW n, Rq!Set(c, n), n \in Rq!Calls, Counted(n),
         used' \in 0..Limit
  PROVE  CountInv'
  BY DEF CountInv, Rq!Set

LEMMA CountStep ==
  ASSUME CountInv, [Rq!Next]_requestVars
  PROVE  CountInv'
  <1>0. /\ \A c \in Callers : sent[c] \in Rq!Calls /\ Counted(sent[c])
        /\ MaxRetries \in Nat /\ Limit \in Nat /\ used \in 0..Limit
    BY RequestsAssumption DEF CountInv
  <1>1. ASSUME NEW c \in Callers, Rq!Set(c, Rq!Idle), UNCHANGED used PROVE CountInv'
    <2>1. Counted(Rq!Idle) BY RequestIdle DEF Counted
    <2> QED BY <1>0, <1>1, <2>1, RequestIdle, RequestChanges
  <1>2. ASSUME NEW c \in Callers, NEW p \in Rq!Pipelines, Rq!Request(c, p) PROVE CountInv'
    <2> DEFINE s == IF p = "tiny" THEN "gate" ELSE "token"
               n == [Rq!Idle EXCEPT !.pipeline = p, !.step = s]
    <2>1. s \in RequestSteps BY DEF RequestSteps
    <2>2. /\ n \in Rq!Calls /\ n.step = s /\ n.answer = "none" /\ n.attempt = 0
          /\ n.refreshed = FALSE /\ n.sends = 0 /\ n.pipeline = p
      BY <2>1, RequestBegun
    <2>3. Rq!Set(c, n) /\ UNCHANGED used BY <1>2 DEF Rq!Request
    <2>4. s \in {"gate", "token"} /\ (s = "gate" => p = "tiny") OBVIOUS
    <2> HIDE DEF s, n
    <2>5. Counted(n) BY <2>2, <2>4 DEF Counted, Tried
    <2> QED BY <1>0, <2>2, <2>3, <2>5, RequestChanges
  \* A step that neither sends nor counts, and asks for no more than it had.
  <1>3. ASSUME NEW c \in Callers, NEW s \in RequestSteps, Rq!Goto(c, s), UNCHANGED used,
               s \in Tried => sent[c].step \in Tried /\ s # "reauth",
               sent[c].step \in Tried => s \in Tried,
               sent[c].answer \in {"ok", "garbled"} =>
                 s \in {"update", "update_reset", "judge"},
               s \in {"gate", "gate_reset", "wait", "update", "update_reset"} =>
                 sent[c].pipeline = "tiny"
        PROVE  CountInv'
    <2> DEFINE n == [sent[c] EXCEPT !.step = s]
    <2>1. /\ n \in Rq!Calls /\ n.step = s /\ n.answer = sent[c].answer
          /\ n.attempt = sent[c].attempt /\ n.refreshed = sent[c].refreshed
          /\ n.sends = sent[c].sends /\ n.pipeline = sent[c].pipeline
      BY <1>0, RequestMoved
    <2>2. Rq!Set(c, n) BY <1>3 DEF Rq!Goto
    <2> HIDE DEF n
    <2>3. Counted(n)
      BY <1>0, <1>3, <2>1 DEF Counted, Tried
    <2> QED BY <1>0, <1>3, <2>1, <2>2, <2>3, RequestChanges
  <1>4. ASSUME NEW c \in Callers, Rq!Gate(c) \/ Rq!GateReset(c) PROVE CountInv'
    <2>1. PICK s \in {"token", "gate_reset", "wait"} : Rq!Goto(c, s) /\ UNCHANGED used
      BY <1>4 DEF Rq!Gate, Rq!GateReset, Rq!Local
    <2>2. sent[c].step \in {"gate", "gate_reset"} BY <1>4 DEF Rq!Gate, Rq!GateReset, Rq!At
    <2>3. sent[c].pipeline = "tiny" /\ sent[c].answer \notin {"ok", "garbled"}
      BY <1>0, <2>2 DEF Counted
    <2> QED BY <1>3, <2>1, <2>2, <2>3 DEF RequestSteps, Tried
  <1>5. ASSUME NEW c \in Callers, Rq!Token(c) PROVE CountInv'
    <2>1. sent[c].step = "token" /\ UNCHANGED used BY <1>5 DEF Rq!Token, Rq!At, Rq!Local
    <2>2. sent[c].answer \notin {"ok", "garbled"} BY <1>0, <2>1 DEF Counted
    <2>3. CASE Rq!Goto(c, "send")
      BY <1>3, <2>1, <2>2, <2>3 DEF RequestSteps, Tried
    <2> QED BY <1>1, <1>5, <2>1, <2>3 DEF Rq!Token
  <1>6. ASSUME NEW c \in Callers, NEW a \in Rq!Answers, NEW counted \in BOOLEAN,
               Rq!Sent(c, a, counted), sent[c].step = "send",
               sent[c].pipeline = "tiny" /\ counted => used < Limit
        PROVE  CountInv'
    <2> DEFINE p == sent[c].pipeline
               spent == IF p = "tiny" /\ counted THEN used + 1 ELSE used
               s == IF p = "tiny" /\ a # "lost" THEN "update" ELSE "judge"
               l == IF p = "tiny" /\ a # "lost" THEN Limit - spent ELSE -1
               n == [sent[c] EXCEPT !.step = s, !.answer = a, !.left = l, !.sends = @ + 1]
    <2>1. s \in RequestSteps BY DEF RequestSteps
    <2>2. l \in -1..Limit BY <1>0, <1>6
    <2>3. sent[c].sends + 1 <= MaxRetries + 3
      BY <1>0, <1>6 DEF Counted, Tried, Rq!Calls
    <2>9. spent \in 0..Limit BY <1>0, <1>6
    <2> HIDE DEF p, spent, s, l
    <2>4. /\ n \in Rq!Calls /\ n.step = s /\ n.answer = a
          /\ n.attempt = sent[c].attempt /\ n.refreshed = sent[c].refreshed
          /\ n.sends = sent[c].sends + 1 /\ n.pipeline = sent[c].pipeline
      <3>1. PICK r \in Rq!Calls : r = sent[c] BY <1>0
      <3>2. PICK k \in 0..(MaxRetries + 3) : k = sent[c].sends + 1
        BY <1>0, <2>3 DEF Rq!Calls
      <3>3. n = [r EXCEPT !.step = s, !.answer = a, !.left = l, !.sends = k]
        BY <3>1, <3>2, Zenon
      <3> HIDE DEF n
      <3>4. /\ n \in Rq!Calls /\ n.step = s /\ n.answer = a
            /\ n.attempt = r.attempt /\ n.refreshed = r.refreshed
            /\ n.sends = k /\ n.pipeline = r.pipeline /\ n.left = l
        BY <2>1, <2>2, <3>3 DEF Rq!Calls, RequestSteps
      <3> QED BY <3>1, <3>2, <3>4
    <2>5. Rq!Set(c, n) /\ used' = spent BY <1>6 DEF Rq!Sent, p, spent, s, l
    <2>6. s \in {"update", "judge"} /\ (s = "update" => sent[c].pipeline = "tiny")
      BY DEF s, p
    <2> HIDE DEF n
    <2>7. Counted(n)
      BY <1>0, <1>6, <2>4, <2>6 DEF Counted, Tried, Rq!Calls
    <2> QED BY <2>4, <2>5, <2>7, <2>9, RequestChanges
  <1>7. ASSUME NEW c \in Callers, Rq!SendOk(c) \/ Rq!SendLimited(c) \/ Rq!SendBadly(c)
        PROVE  CountInv'
    <2>1. sent[c].step = "send"
      BY <1>7 DEF Rq!SendOk, Rq!SendLimited, Rq!SendBadly, Rq!At
    <2>2. PICK a \in Rq!Answers, counted \in BOOLEAN :
            /\ Rq!Sent(c, a, counted)
            /\ sent[c].pipeline = "tiny" /\ counted => used < Limit
      BY <1>7 DEF Rq!SendOk, Rq!SendLimited, Rq!SendBadly, Rq!Room, Rq!Answers
    <2> QED BY <1>6, <2>1, <2>2
  <1>8. ASSUME NEW c \in Callers, Rq!Update(c) PROVE CountInv'
    <2> DEFINE n == [sent[c] EXCEPT !.step = "update_reset", !.left = -1]
    <2>1. sent[c].step = "update" /\ Rq!Set(c, n)
      BY <1>8 DEF Rq!Update, Rq!At
    <2>2. sent[c] \in Rq!Calls /\ "update_reset" \in RequestSteps
      BY <1>0 DEF RequestSteps
    <2>3. -1 \in -1..Limit BY <1>0
    <2>4. /\ n \in Rq!Calls /\ n.step = "update_reset" /\ n.answer = sent[c].answer
          /\ n.attempt = sent[c].attempt /\ n.refreshed = sent[c].refreshed
          /\ n.sends = sent[c].sends /\ n.pipeline = sent[c].pipeline
      <3>1. PICK r \in Rq!Calls : r = sent[c] BY <2>2
      <3>2. PICK l \in -1..Limit : l = -1 BY <2>3
      <3>3. PICK s \in RequestSteps : s = "update_reset" BY <2>2
      <3>4. n = [r EXCEPT !.step = s, !.left = l] BY <3>1, <3>2, <3>3, Zenon
      <3> HIDE DEF n
      <3>5. /\ n \in Rq!Calls /\ n.step = s /\ n.answer = r.answer
            /\ n.attempt = r.attempt /\ n.refreshed = r.refreshed
            /\ n.sends = r.sends /\ n.pipeline = r.pipeline
        BY <3>4 DEF Rq!Calls, RequestSteps
      <3> QED BY <3>1, <3>3, <3>5
    <2> HIDE DEF n
    <2>5. Counted(n) BY <1>0, <2>1, <2>4 DEF Counted, Tried
    <2>6. UNCHANGED used BY <1>8 DEF Rq!Update
    <2> QED BY <1>0, <2>1, <2>4, <2>5, <2>6, RequestChanges
  <1>9. ASSUME NEW c \in Callers, Rq!UpdateReset(c) PROVE CountInv'
    <2>1. sent[c].step = "update_reset" /\ Rq!Goto(c, "judge") /\ UNCHANGED used
      BY <1>9 DEF Rq!UpdateReset, Rq!At
    <2> QED BY <1>3, <2>1 DEF RequestSteps, Tried
  <1>10. ASSUME NEW c \in Callers, Rq!Judge(c) PROVE CountInv'
    <2>1. sent[c].step = "judge" /\ UNCHANGED used /\ sent[c] \in Rq!Calls /\ Counted(sent[c])
      BY <1>0, <1>10 DEF Rq!Judge, Rq!At, Rq!Local
    <2>2. \/ Rq!Set(c, Rq!Idle)
          \/ /\ sent[c].answer = "unauthorized" /\ Rq!Reauthable(sent[c])
             /\ Rq!Goto(c, "reauth")
          \/ /\ Rq!Repeatable(sent[c]) /\ sent[c].attempt < MaxRetries
             /\ Rq!Set(c, [sent[c] EXCEPT !.step = "sleep", !.attempt = @ + 1])
      BY <1>10 DEF Rq!Judge, Rq!Goto
    <2>3. CASE sent[c].answer = "unauthorized" /\ Rq!Reauthable(sent[c]) /\ Rq!Goto(c, "reauth")
      <3> DEFINE n == [sent[c] EXCEPT !.step = "reauth"]
      <3>1. /\ n \in Rq!Calls /\ n.step = "reauth" /\ n.answer = "unauthorized"
            /\ n.attempt = sent[c].attempt /\ n.refreshed = sent[c].refreshed
            /\ n.sends = sent[c].sends /\ n.pipeline = sent[c].pipeline
        BY <2>1, <2>3, RequestMoved DEF RequestSteps
      <3>2. Rq!Set(c, n) /\ ~sent[c].refreshed BY <2>3 DEF Rq!Goto, Rq!Reauthable
      <3> HIDE DEF n
      <3>3. Counted(n) BY <2>1, <3>1, <3>2 DEF Counted, Tried
      <3> QED BY <1>0, <2>1, <3>1, <3>2, <3>3, RequestChanges
    <2>4. CASE /\ Rq!Repeatable(sent[c]) /\ sent[c].attempt < MaxRetries
               /\ Rq!Set(c, [sent[c] EXCEPT !.step = "sleep", !.attempt = @ + 1])
      <3> DEFINE n == [sent[c] EXCEPT !.step = "sleep", !.attempt = @ + 1]
      <3>1. /\ n \in Rq!Calls /\ n.step = "sleep" /\ n.answer = sent[c].answer
            /\ n.attempt = sent[c].attempt + 1 /\ n.refreshed = sent[c].refreshed
            /\ n.sends = sent[c].sends /\ n.pipeline = sent[c].pipeline
        BY <2>1, <2>4, RequestRetried DEF RequestSteps
      <3>2. Rq!Set(c, n) /\ sent[c].answer \notin {"ok", "garbled"}
        BY <2>4 DEF Rq!Repeatable
      <3> HIDE DEF n
      <3>3. Counted(n) BY <2>1, <3>1, <3>2 DEF Counted, Tried, Rq!Calls
      <3> QED BY <1>0, <2>1, <3>1, <3>2, <3>3, RequestChanges
    <2> QED BY <1>1, <2>1, <2>2, <2>3, <2>4
  <1>11. ASSUME NEW c \in Callers, Rq!Wake(c) PROVE CountInv'
    <2>1. sent[c].step = "sleep" /\ Rq!Goto(c, Rq!Again(sent[c].pipeline)) /\ UNCHANGED used
      BY <1>11 DEF Rq!Wake, Rq!At, Rq!Local
    <2>2. sent[c].pipeline \in Rq!Pipelines /\ sent[c].answer \notin {"ok", "garbled"}
      BY <1>0, <2>1 DEF Counted, Rq!Calls
    <2>3. /\ Rq!Again(sent[c].pipeline) \in {"gate", "token", "send"}
          /\ Rq!Again(sent[c].pipeline) = "gate" => sent[c].pipeline = "tiny"
      BY <2>2 DEF Rq!Again, Rq!Pipelines
    <2> QED BY <1>3, <2>1, <2>2, <2>3 DEF RequestSteps, Tried
  <1>12. ASSUME NEW c \in Callers, Rq!Reauth(c) PROVE CountInv'
    <2>1. sent[c].step = "reauth" /\ UNCHANGED used /\ sent[c] \in Rq!Calls /\ Counted(sent[c])
      BY <1>0, <1>12 DEF Rq!Reauth, Rq!At, Rq!Local
    <2>2. CASE Rq!Set(c, [sent[c] EXCEPT !.refreshed = TRUE,
                                          !.step = Rq!Again(sent[c].pipeline)])
      <3> DEFINE s == Rq!Again(sent[c].pipeline)
                 n == [sent[c] EXCEPT !.refreshed = TRUE, !.step = s]
      <3>1. s \in {"gate", "token", "send"} /\ (s = "gate" => sent[c].pipeline = "tiny")
        BY <2>1 DEF Rq!Again, Rq!Pipelines, Rq!Calls
      <3> HIDE DEF s
      <3>2. /\ n \in Rq!Calls /\ n.step = s /\ n.answer = sent[c].answer
            /\ n.attempt = sent[c].attempt /\ n.refreshed = TRUE
            /\ n.sends = sent[c].sends /\ n.pipeline = sent[c].pipeline
        <4>1. s \in RequestSteps BY <3>1 DEF RequestSteps
        <4> QED BY <2>1, <4>1, RequestRefreshed, Zenon
      <3>3. Rq!Set(c, n) BY <2>2 DEF s
      <3> HIDE DEF n
      <3>4. Counted(n) BY <2>1, <3>1, <3>2 DEF Counted, Tried, Rq!Calls
      <3> QED BY <1>0, <2>1, <3>2, <3>3, <3>4, RequestChanges
    <2> QED BY <1>1, <1>12, <2>1, <2>2 DEF Rq!Reauth
  <1>13. ASSUME Rq!WindowEnds PROVE CountInv'
    <2>1. \A c \in Callers : [sent[c] EXCEPT !.step = "token"] \in Rq!Calls
                             /\ (sent[c].step = "wait" =>
                                   Counted([sent[c] EXCEPT !.step = "token"]))
      <3> SUFFICES ASSUME NEW c \in Callers
                   PROVE  /\ [sent[c] EXCEPT !.step = "token"] \in Rq!Calls
                          /\ (sent[c].step = "wait" =>
                                Counted([sent[c] EXCEPT !.step = "token"]))
        OBVIOUS
      <3> DEFINE n == [sent[c] EXCEPT !.step = "token"]
      <3>1. /\ n \in Rq!Calls /\ n.step = "token" /\ n.answer = sent[c].answer
            /\ n.attempt = sent[c].attempt /\ n.refreshed = sent[c].refreshed
            /\ n.sends = sent[c].sends /\ n.pipeline = sent[c].pipeline
        BY <1>0, RequestMoved DEF RequestSteps
      <3> HIDE DEF n
      <3>2. sent[c].step = "wait" => Counted(n) BY <1>0, <3>1 DEF Counted, Tried
      <3> QED BY <3>1, <3>2 DEF n
    <2>2. /\ used' = 0
          /\ sent' = [c \in Callers |-> IF sent[c].step = "wait"
                                        THEN [sent[c] EXCEPT !.step = "token"] ELSE sent[c]]
      BY <1>13 DEF Rq!WindowEnds, Rq!At
    <2>3. \A c \in Callers : sent'[c] \in Rq!Calls /\ Counted(sent'[c])
      BY <1>0, <2>1, <2>2
    <2>4. sent' = [c \in Callers |-> sent'[c]]
      BY <2>2
    <2> QED BY <1>0, <2>2, <2>3, <2>4 DEF CountInv
  <1>14. CASE UNCHANGED sent /\ used' \in 0..Limit
    BY <1>0, <1>14 DEF CountInv
  <1>15. Rq!KeysExpire \/ Rq!OthersUse \/ UNCHANGED requestVars
         => UNCHANGED sent /\ used' \in 0..Limit
    BY <1>0 DEF Rq!KeysExpire, Rq!OthersUse, requestVars
  <1> QED
    BY <1>2, <1>4, <1>5, <1>7, <1>8, <1>9, <1>10, <1>11, <1>12, <1>13, <1>14, <1>15
       DEF Rq!Next, Rq!Continue

---------------------------------------------------------------------------
(* The budget of two coroutines                                            *)

\* What coroutines may still take from the window or bring back: one past the gate
\* sends; an old count, above the headroom, opens the gate again when it is written,
\* a new one closes it; and one whose answer is not all written knows of a request
\* that the keys do not.
Passing(r) == IF r.pipeline = "tiny" /\ r.step \in {"token", "send"} THEN 1 ELSE 0
Old(r) == IF r.step = "update" /\ r.left > Headroom THEN 1 ELSE 0
Recent(r) == IF r.step = "update" /\ r.left <= Headroom THEN 1 ELSE 0
Answering(r) == IF r.step \in {"update", "update_reset"} THEN 1 ELSE 0
SomeOld(x, y) == IF Old(x) = 1 \/ Old(y) = 1 THEN 1 ELSE 0

GateOpen(m) == m = Rq!None \/ m > Headroom

\* For two coroutines in x and y, u requests counted and the keys m and t: before the
\* reset time is known hardly anything is used; while the gate is open there is room
\* for what passes before a new count closes it; and behind a closed gate for those
\* who passed it, and for those whom an old count would let pass.
Budget(x, y, u, m, t) ==
  /\ t # "ahead" => u <= Answering(x) + Answering(y)
  /\ t = "ahead" /\ GateOpen(m) => Limit - u + Recent(x) + Recent(y) >= 2 + SomeOld(x, y)
  /\ t = "ahead" /\ ~GateOpen(m) =>
       Limit - u >= Passing(x) + Passing(y) + Old(x) + Old(y) + SomeOld(x, y)

\* An update carries what its answer said was left.
Told(r) == r.step = "update" => r.left \in 0..(Limit - 1)

LEMMA Weights ==
  ASSUME NEW r
  PROVE  /\ Passing(r) \in 0..1 /\ Old(r) \in 0..1 /\ Recent(r) \in 0..1 /\ Answering(r) \in 0..1
         /\ Passing(r) = 1 => Old(r) = 0 /\ Recent(r) = 0 /\ Answering(r) = 0
  BY DEF Passing, Old, Recent, Answering

LEMMA BudgetSymmetric ==
  ASSUME NEW x, NEW y, NEW u \in Nat, NEW m, NEW t, Limit \in Nat, Budget(x, y, u, m, t)
  PROVE  Budget(y, x, u, m, t)
  <1>1. /\ Passing(x) \in 0..1 /\ Old(x) \in 0..1 /\ Recent(x) \in 0..1
        /\ Passing(y) \in 0..1 /\ Old(y) \in 0..1 /\ Recent(y) \in 0..1
        /\ Answering(x) \in 0..1 /\ Answering(y) \in 0..1
    BY Weights
  <1>2. SomeOld(x, y) = SomeOld(y, x) /\ SomeOld(x, y) \in 0..1
    BY DEF SomeOld
  <1> QED BY <1>1, <1>2 DEF Budget

\* A step that lets nobody pass a closed gate.
LEMMA BudgetSame ==
  ASSUME NEW x, NEW y, NEW n, NEW u \in Nat, NEW m, NEW t, Limit \in Nat,
         Budget(x, y, u, m, t),
         Old(n) = Old(x), Recent(n) = Recent(x), Answering(n) = Answering(x),
         GateOpen(m) \/ t # "ahead" \/ Passing(n) <= Passing(x)
  PROVE  Budget(n, y, u, m, t)
  BY Weights DEF Budget, SomeOld

LEMMA BudgetSent ==
  ASSUME NEW x, NEW y, NEW n, NEW u \in Nat, NEW m, NEW t, Limit \in Nat, Headroom \in Nat,
         Headroom >= 2, u < Limit, Budget(x, y, u, m, t),
         Passing(x) = 1, n.step = "update", n.left = Limit - (u + 1)
  PROVE  Budget(n, y, u + 1, m, t)
  <1>1. Old(x) = 0 /\ Recent(x) = 0 /\ Answering(x) = 0
    BY Weights
  <1>2. /\ Passing(n) = 0 /\ Answering(n) = 1
        /\ \/ Limit - (u + 1) > Headroom /\ Old(n) = 1 /\ Recent(n) = 0
           \/ Limit - (u + 1) <= Headroom /\ Old(n) = 0 /\ Recent(n) = 1
    BY DEF Passing, Answering, Old, Recent
  <1>3. /\ Passing(y) \in 0..1 /\ Old(y) \in 0..1 /\ Recent(y) \in 0..1 /\ Answering(y) \in 0..1
        /\ Passing(y) = 1 => Old(y) = 0
    BY Weights
  <1> QED BY <1>1, <1>2, <1>3 DEF Budget, SomeOld

\* Whoever passed the gate finds room.
LEMMA BudgetRoom ==
  ASSUME NEW x, NEW y, NEW u \in Nat, NEW m, NEW t, Limit \in Nat, Limit >= 4,
         Budget(x, y, u, m, t), Passing(x) = 1
  PROVE  u < Limit
  <1>1. Recent(x) = 0 /\ Answering(x) = 0 /\ Old(x) = 0
    BY Weights
  <1>2. /\ Passing(y) \in 0..1 /\ Old(y) \in 0..1 /\ Recent(y) \in 0..1 /\ Answering(y) \in 0..1
        /\ SomeOld(x, y) \in 0..1
    BY Weights DEF SomeOld
  <1> QED BY <1>1, <1>2 DEF Budget

LEMMA BudgetUpdated ==
  ASSUME NEW x, NEW y, NEW n, NEW u \in Nat, NEW m, NEW t, Limit \in Nat, Headroom \in Nat,
         Budget(x, y, u, m, t), x.step = "update", x.left \in Nat, n.step = "update_reset",
         y.left \in Int
  PROVE  Budget(n, y, u, x.left, t)
  <1>1. /\ Passing(x) = 0 /\ Answering(x) = 1
        /\ \/ x.left > Headroom /\ Old(x) = 1 /\ Recent(x) = 0
           \/ x.left <= Headroom /\ Old(x) = 0 /\ Recent(x) = 1
    BY DEF Passing, Answering, Old, Recent
  <1>2. Passing(n) = 0 /\ Answering(n) = 1 /\ Old(n) = 0 /\ Recent(n) = 0
    BY DEF Passing, Answering, Old, Recent
  <1>3. /\ Passing(y) \in 0..1 /\ Old(y) \in 0..1 /\ Recent(y) \in 0..1 /\ Answering(y) \in 0..1
        /\ Passing(y) = 1 => Old(y) = 0 /\ Recent(y) = 0
        /\ Old(y) = 1 => Recent(y) = 0
    BY DEF Passing, Answering, Old, Recent
  <1>4. GateOpen(x.left) <=> x.left > Headroom
    BY DEF GateOpen, Rq!None
  <1> QED BY <1>1, <1>2, <1>3, <1>4 DEF Budget, SomeOld

LEMMA BudgetReset ==
  ASSUME NEW x, NEW y, NEW n, NEW u \in Nat, NEW m, NEW t, Limit \in Nat,
         Headroom \in Nat, Limit >= 4, Limit + Headroom >= 7, Budget(x, y, u, m, t),
         x.step = "update_reset", n.step = "judge", y.left \in Int, Told(y)
  PROVE  Budget(n, y, u, m, "ahead")
  <1>1. Passing(x) = 0 /\ Answering(x) = 1 /\ Old(x) = 0 /\ Recent(x) = 0
    BY DEF Passing, Answering, Old, Recent
  <1>2. Passing(n) = 0 /\ Answering(n) = 0 /\ Old(n) = 0 /\ Recent(n) = 0
    BY DEF Passing, Answering, Old, Recent
  <1>3. /\ Passing(y) \in 0..1 /\ Old(y) \in 0..1 /\ Recent(y) \in 0..1 /\ Answering(y) \in 0..1
        /\ Passing(y) = 1 => Old(y) = 0 /\ Recent(y) = 0
        /\ Old(y) = 1 => Recent(y) = 0
    BY DEF Passing, Answering, Old, Recent
  <1>4. Old(y) = 1 => Limit >= 5 BY DEF Old, Told
  <1>5. u <= 1 + Answering(y) \/ t = "ahead" BY <1>1 DEF Budget
  <1>6. CASE t = "ahead" BY <1>1, <1>2, <1>3, <1>6 DEF Budget, SomeOld
  <1>7. CASE u <= 1 + Answering(y) BY <1>1, <1>2, <1>3, <1>4, <1>7 DEF Budget, SomeOld
  <1> QED BY <1>5, <1>6, <1>7

\* A coroutine of Tiny's pipeline has not met a refusal.
Unrefused(r) == r.pipeline = "tiny" => r.answer # "limited"

\* A step of one coroutine, as long as every answer is read.
LEMMA CallerStep ==
  ASSUME CountInv, NEW c \in Callers, NEW y, y.left \in Int, Told(y),
         Limit >= 4, Headroom >= 2, Limit + Headroom >= 7,
         Budget(sent[c], y, used, remaining, reset), Told(sent[c]), Unrefused(sent[c]),
         (\E p \in Rq!Pipelines : Rq!Request(c, p)) \/ Rq!Continue(c), ~unseen'
  PROVE  /\ Budget(sent'[c], y, used', remaining', reset')
         /\ Told(sent'[c]) /\ Unrefused(sent'[c])
  <1> DEFINE x == sent[c]
             n == sent'[c]
             Goal == Budget(n, y, used', remaining', reset') /\ Told(n) /\ Unrefused(n)
  <1>0. /\ x \in Rq!Calls /\ Counted(x) /\ used \in Nat /\ used <= Limit
        /\ Limit \in Nat /\ Headroom \in Nat /\ sent \in [Callers -> Rq!Calls]
    BY RequestsAssumption DEF CountInv
  <1> USE DEF Told, Unrefused
  <1>1. ASSUME UNCHANGED <<used, remaining, reset>>, n.step # "update",
               Old(x) = 0, Recent(x) = 0, Answering(x) = Answering(n),
               GateOpen(remaining) \/ reset # "ahead" \/ Passing(n) <= Passing(x),
               Unrefused(n)
        PROVE  Goal
    <2>1. Old(n) = 0 /\ Recent(n) = 0 BY <1>1 DEF Old, Recent
    <2> QED BY <1>0, <1>1, <2>1, BudgetSame
  <1>2. ASSUME n = Rq!Idle, UNCHANGED <<used, remaining, reset>>,
               x.step \notin {"update", "update_reset"}
        PROVE  Goal
    <2>1. /\ Passing(n) = 0 /\ Answering(n) = 0 /\ Answering(x) = 0 /\ Old(x) = 0
          /\ Recent(x) = 0 /\ Passing(x) \in 0..1 /\ n.step # "update" /\ n.answer = "none"
      BY <1>2, RequestIdle, Weights DEF Passing, Answering, Old, Recent
    <2> QED BY <1>1, <1>2, <2>1
  <1>3. ASSUME NEW s \in RequestSteps, Rq!Goto(c, s), UNCHANGED <<used, remaining, reset>>,
               s \notin {"update", "update_reset"},
               x.step \notin {"update", "update_reset"},
               \/ GateOpen(remaining) \/ reset # "ahead"
               \/ s \in {"token", "send"} => x.pipeline # "tiny" \/ x.step \in {"token", "send"}
        PROVE  Goal
    <2>1. n.step = s /\ n.pipeline = x.pipeline /\ n.answer = x.answer
      BY <1>0, <1>3, RequestMoved DEF Rq!Goto, Rq!Set
    <2>2. /\ Answering(n) = 0 /\ Answering(x) = 0 /\ Old(x) = 0 /\ Recent(x) = 0
          /\ n.step # "update"
      BY <1>3, <2>1 DEF Answering, Old, Recent
    <2>3. Passing(x) \in 0..1 /\ Passing(n) \in 0..1
      BY Weights
    <2>4. GateOpen(remaining) \/ reset # "ahead" \/ Passing(n) <= Passing(x)
      BY <1>3, <2>1, <2>3 DEF Passing
    <2> QED BY <1>1, <1>3, <2>1, <2>2, <2>4
  <1>4. ASSUME NEW p \in Rq!Pipelines, Rq!Request(c, p) PROVE Goal
    <2> DEFINE s == IF p = "tiny" THEN "gate" ELSE "token"
    <2>1. s \in RequestSteps BY DEF RequestSteps
    <2>2. /\ x.step = "idle" /\ n = [Rq!Idle EXCEPT !.pipeline = p, !.step = s]
          /\ UNCHANGED <<used, remaining, reset>>
      BY <1>0, <1>4 DEF Rq!Request, Rq!At, Rq!Set, Rq!redis
    <2>3. n.step = s /\ n.answer = "none" /\ n.pipeline = p
      BY <2>2 DEF Rq!Idle
    <2>4. /\ Passing(n) = 0 /\ Answering(n) = 0 /\ Answering(x) = 0 /\ Old(x) = 0
          /\ Recent(x) = 0 /\ Passing(x) = 0 /\ n.step # "update"
      BY <2>2, <2>3 DEF Passing, Answering, Old, Recent
    <2> QED BY <1>1, <2>2, <2>3, <2>4
  <1>5. ASSUME Rq!Gate(c) PROVE Goal
    <2>1. x.step = "gate" /\ UNCHANGED <<used, remaining, reset>>
      BY <1>5 DEF Rq!Gate, Rq!At, Rq!Local, Rq!redis
    <2>2. \/ GateOpen(remaining) /\ Rq!Goto(c, "token")
          \/ Rq!Goto(c, "gate_reset")
      BY <1>5 DEF Rq!Gate, GateOpen
    <2> QED BY <1>3, <2>1, <2>2 DEF RequestSteps
  <1>6. ASSUME Rq!GateReset(c) PROVE Goal
    <2>1. x.step = "gate_reset" /\ UNCHANGED <<used, remaining, reset>>
      BY <1>6 DEF Rq!GateReset, Rq!At, Rq!Local, Rq!redis
    <2>2. \/ reset # "ahead" /\ Rq!Goto(c, "token")
          \/ Rq!Goto(c, "wait")
      BY <1>6 DEF Rq!GateReset
    <2> QED BY <1>3, <2>1, <2>2 DEF RequestSteps
  <1>7. ASSUME Rq!Token(c) PROVE Goal
    <2>1. x.step = "token" /\ UNCHANGED <<used, remaining, reset>>
      BY <1>7 DEF Rq!Token, Rq!At, Rq!Local, Rq!redis
    <2>2. Rq!Goto(c, "send") \/ n = Rq!Idle
      BY <1>0, <1>7 DEF Rq!Token, Rq!Set
    <2> QED BY <1>2, <1>3, <2>1, <2>2 DEF RequestSteps
  <1>8. ASSUME NEW a \in Rq!Answers, NEW counted \in BOOLEAN, Rq!Sent(c, a, counted),
               x.step = "send", x.pipeline = "tiny" => a # "limited",
               x.pipeline = "tiny" => a = "lost" \/ counted
        PROVE  Goal
    <2> DEFINE spent == IF x.pipeline = "tiny" /\ counted THEN used + 1 ELSE used
               s == IF x.pipeline = "tiny" /\ a # "lost" THEN "update" ELSE "judge"
               l == IF x.pipeline = "tiny" /\ a # "lost" THEN Limit - spent ELSE -1
    <2>1. /\ used' = spent /\ UNCHANGED <<remaining, reset>>
          /\ unseen' = (unseen \/ (a = "lost" /\ spent # used))
          /\ n = [x EXCEPT !.step = s, !.answer = a, !.left = l, !.sends = @ + 1]
      BY <1>0, <1>8 DEF Rq!Sent, Rq!Set, Rq!redis
    <2>2. n.step = s /\ n.answer = a /\ n.left = l /\ n.pipeline = x.pipeline
      BY <1>0, <2>1 DEF Rq!Calls
    <2>3. CASE x.pipeline = "tiny" /\ a # "lost"
      <3>1. Passing(x) = 1 BY <1>8, <2>3 DEF Passing
      <3>2. used < Limit BY <1>0, <3>1, BudgetRoom
      <3>3. spent = used + 1 /\ n.step = "update" /\ n.left = Limit - (used + 1)
        BY <1>8, <2>2, <2>3
      <3>4. Budget(n, y, used + 1, remaining, reset)
        BY <1>0, <3>1, <3>2, <3>3, BudgetSent
      <3> QED BY <1>0, <1>8, <2>1, <2>2, <3>2, <3>3, <3>4
    <2>4. CASE ~(x.pipeline = "tiny" /\ a # "lost")
      <3>1. spent = used BY <1>0, <2>1, <2>4
      <3>2. n.step = "judge" /\ n.answer = a /\ n.pipeline = x.pipeline BY <2>2, <2>4
      <3>3. /\ Passing(n) = 0 /\ Answering(n) = 0 /\ Answering(x) = 0 /\ Old(x) = 0
            /\ Recent(x) = 0 /\ Passing(x) \in 0..1
        BY <1>8, <3>2, Weights DEF Passing, Answering, Old, Recent
      <3>4. UNCHANGED <<used, remaining, reset>> BY <2>1, <3>1
      <3>5. Passing(n) <= Passing(x) BY <3>3
      <3>6. n.step # "update" /\ Unrefused(n) BY <1>8, <3>2
      <3>7. Answering(x) = Answering(n) BY <3>3
      <3> HIDE DEF n, x, Unrefused, Told, Goal
      <3> QED BY <1>1, <3>3, <3>4, <3>5, <3>6, <3>7
    <2> QED BY <2>3, <2>4
  <1>9. ASSUME Rq!SendOk(c) \/ Rq!SendLimited(c) \/ Rq!SendBadly(c) PROVE Goal
    <2>1. x.step = "send"
      BY <1>9 DEF Rq!SendOk, Rq!SendLimited, Rq!SendBadly, Rq!At
    <2>2. Rq!Room(c)
      <3>1. x.pipeline = "tiny" => Passing(x) = 1 BY <2>1 DEF Passing
      <3> QED BY <1>0, <3>1, BudgetRoom DEF Rq!Room
    <2>3. PICK a \in Rq!Answers, counted \in BOOLEAN :
            /\ Rq!Sent(c, a, counted)
            /\ x.pipeline = "tiny" => a # "limited"
            /\ x.pipeline = "tiny" => a = "lost" \/ counted
      BY <1>9, <2>2 DEF Rq!SendOk, Rq!SendLimited, Rq!SendBadly, Rq!Answers
    <2> QED BY <1>8, <2>1, <2>3
  <1>10. ASSUME Rq!Update(c) PROVE Goal
    <2>1. /\ x.step = "update" /\ x.left \in Nat /\ remaining' = x.left
          /\ UNCHANGED <<used, reset>>
          /\ n = [x EXCEPT !.step = "update_reset", !.left = -1]
      BY <1>0, <1>10 DEF Rq!Update, Rq!At, Rq!Set
    <2>2. n.step = "update_reset" /\ n.pipeline = x.pipeline /\ n.answer = x.answer
      BY <1>0, <2>1 DEF Rq!Calls
    <2>3. Budget(n, y, used, x.left, reset)
      BY <1>0, <2>1, <2>2, BudgetUpdated
    <2> QED BY <2>1, <2>2, <2>3
  <1>11. ASSUME Rq!UpdateReset(c) PROVE Goal
    <2>1. /\ x.step = "update_reset" /\ reset' = "ahead" /\ UNCHANGED <<used, remaining>>
          /\ n = [x EXCEPT !.step = "judge"]
      BY <1>0, <1>11 DEF Rq!UpdateReset, Rq!At, Rq!Set, Rq!Goto
    <2>2. n.step = "judge" /\ n.pipeline = x.pipeline /\ n.answer = x.answer
      BY <1>0, <2>1 DEF Rq!Calls
    <2>3. Budget(n, y, used, remaining, "ahead")
      BY <1>0, <2>1, <2>2, BudgetReset
    <2> QED BY <2>1, <2>2, <2>3
  <1>12. ASSUME Rq!Judge(c) PROVE Goal
    <2>1. x.step = "judge" /\ UNCHANGED <<used, remaining, reset>>
      BY <1>12 DEF Rq!Judge, Rq!At, Rq!Local, Rq!redis
    <2>2. \/ n = Rq!Idle \/ Rq!Goto(c, "reauth")
          \/ n = [x EXCEPT !.step = "sleep", !.attempt = @ + 1]
      BY <1>0, <1>12 DEF Rq!Judge, Rq!Set, Rq!Goto
    <2>3. CASE n = [x EXCEPT !.step = "sleep", !.attempt = @ + 1]
      <3>1. n.step = "sleep" /\ n.pipeline = x.pipeline /\ n.answer = x.answer
        BY <1>0, <2>3 DEF Rq!Calls
      <3>2. /\ Passing(n) = 0 /\ Answering(n) = 0 /\ Answering(x) = 0 /\ Old(x) = 0
            /\ Recent(x) = 0 /\ Passing(x) \in 0..1
        BY <2>1, <3>1, Weights DEF Passing, Answering, Old, Recent
      <3> QED BY <1>1, <2>1, <3>1, <3>2
    <2> QED BY <1>2, <1>3, <2>1, <2>2, <2>3 DEF RequestSteps
  <1>13. x.pipeline \in Rq!Pipelines
    BY <1>0 DEF Rq!Calls
  <1>14. /\ Rq!Again(x.pipeline) \in {"gate", "token", "send"}
         /\ Rq!Again(x.pipeline) # "gate" => x.pipeline # "tiny"
    BY <1>13 DEF Rq!Again, Rq!Pipelines
  <1>15. ASSUME Rq!Wake(c) PROVE Goal
    <2>1. /\ x.step = "sleep" /\ UNCHANGED <<used, remaining, reset>>
          /\ Rq!Goto(c, Rq!Again(x.pipeline))
      BY <1>15 DEF Rq!Wake, Rq!At, Rq!Local, Rq!redis
    <2> QED BY <1>3, <1>14, <2>1 DEF RequestSteps
  <1>16. ASSUME Rq!Reauth(c) PROVE Goal
    <2>1. x.step = "reauth" /\ UNCHANGED <<used, remaining, reset>>
      BY <1>16 DEF Rq!Reauth, Rq!At, Rq!Local, Rq!redis
    <2>2. n = Rq!Idle \/ n = [x EXCEPT !.refreshed = TRUE, !.step = Rq!Again(x.pipeline)]
      BY <1>0, <1>16 DEF Rq!Reauth, Rq!Set
    <2>3. CASE n = [x EXCEPT !.refreshed = TRUE, !.step = Rq!Again(x.pipeline)]
      <3>1. n.step = Rq!Again(x.pipeline) /\ n.pipeline = x.pipeline /\ n.answer = x.answer
        BY <1>0, <2>3 DEF Rq!Calls
      <3>2. /\ Passing(n) = 0 /\ Answering(n) = 0 /\ Answering(x) = 0 /\ Old(x) = 0
            /\ Recent(x) = 0 /\ Passing(x) \in 0..1 /\ n.step # "update"
        BY <1>14, <2>1, <3>1, Weights DEF Passing, Answering, Old, Recent
      <3> QED BY <1>1, <2>1, <3>1, <3>2
    <2> QED BY <1>2, <2>1, <2>2, <2>3
  <1> HIDE DEF Goal
  <1>17. Goal
    BY <1>4, <1>5, <1>6, <1>7, <1>9, <1>10, <1>11, <1>12, <1>15, <1>16 DEF Rq!Continue
  <1> QED BY <1>17 DEF Goal

\* For two coroutines a and b that read every answer.
BudgetInv(a, b) ==
  ~unseen => /\ Budget(sent[a], sent[b], used, remaining, reset)
             /\ \A c \in Callers : Told(sent[c]) /\ Unrefused(sent[c])

\* One of the two takes a step.
LEMMA OneOfTwo ==
  ASSUME CountInv, CountInv', NEW c \in Callers, NEW d \in Callers, c # d, Callers = {c, d},
         Limit >= 4, Headroom >= 2, Limit + Headroom >= 7, BudgetInv(c, d),
         (\E p \in Rq!Pipelines : Rq!Request(c, p)) \/ Rq!Continue(c)
  PROVE  BudgetInv(c, d)'
  <1>1. unseen => unseen'
    BY DEF Rq!Continue, Rq!Request, Rq!Gate, Rq!GateReset, Rq!Token, Rq!SendOk,
           Rq!SendLimited, Rq!SendBadly, Rq!Sent, Rq!Update, Rq!UpdateReset, Rq!Judge,
           Rq!Wake, Rq!Reauth, Rq!Local
  <1>2. sent[c] \in Rq!Calls /\ sent[d] \in Rq!Calls /\ sent \in [Callers -> Rq!Calls]
    BY DEF CountInv
  <1>3. sent'[d] = sent[d]
    <2>1. ASSUME NEW n, Rq!Set(c, n) PROVE sent'[d] = sent[d]
      BY <1>2, <2>1 DEF Rq!Set
    <2>2. \E n : Rq!Set(c, n)
      BY DEF Rq!Continue, Rq!Request, Rq!Gate, Rq!GateReset, Rq!Token, Rq!SendOk, Rq!Goto,
             Rq!SendLimited, Rq!SendBadly, Rq!Sent, Rq!Update, Rq!UpdateReset, Rq!Judge,
             Rq!Wake, Rq!Reauth
    <2> QED BY <2>1, <2>2
  <1>4. sent[d].left \in Int
    BY <1>2, RequestsAssumption DEF Rq!Calls
  <1>5. ASSUME ~unseen'
        PROVE  /\ Budget(sent'[c], sent[d], used', remaining', reset')
               /\ Told(sent'[c]) /\ Unrefused(sent'[c]) /\ Told(sent[d]) /\ Unrefused(sent[d])
    <2>1. /\ Budget(sent[c], sent[d], used, remaining, reset)
          /\ Told(sent[c]) /\ Unrefused(sent[c]) /\ Told(sent[d]) /\ Unrefused(sent[d])
      BY <1>1, <1>5 DEF BudgetInv
    <2> QED BY <1>4, <1>5, <2>1, CallerStep
  <1> QED BY <1>3, <1>5 DEF BudgetInv

LEMMA BudgetTurned ==
  ASSUME NEW a \in Callers, NEW b \in Callers, CountInv, BudgetInv(a, b)
  PROVE  BudgetInv(b, a)
  <1>1. used \in Nat /\ Limit \in Nat BY RequestsAssumption DEF CountInv
  <1> QED BY <1>1, BudgetSymmetric DEF BudgetInv

LEMMA BudgetStep ==
  ASSUME CountInv, CountInv', NEW a \in Callers, NEW b \in Callers, a # b, Callers = {a, b},
         Limit >= 4, Headroom >= 2, Limit + Headroom >= 7, BudgetInv(a, b), [Rq!Next]_requestVars
  PROVE  BudgetInv(a, b)'
  <1>0. used \in Nat /\ Limit \in Nat /\ sent \in [Callers -> Rq!Calls]
    BY RequestsAssumption DEF CountInv
  <1>1. ASSUME NEW c \in Callers, (\E p \in Rq!Pipelines : Rq!Request(c, p)) \/ Rq!Continue(c)
        PROVE  BudgetInv(a, b)'
    <2>1. CASE c = a BY <1>1, <2>1, OneOfTwo
    <2>2. CASE c = b
      <3>1. BudgetInv(b, a) BY BudgetTurned
      <3>2. BudgetInv(b, a)' BY <1>1, <2>2, <3>1, OneOfTwo
      <3>3. used' \in Nat BY RequestsAssumption DEF CountInv
      <3> QED BY <1>0, <3>2, <3>3, BudgetSymmetric DEF BudgetInv
    <2> QED BY <2>1, <2>2
  <1>2. ASSUME Rq!WindowEnds PROVE BudgetInv(a, b)'
    <2>1. /\ used' = 0 /\ reset' # "ahead" /\ unseen' = unseen
          /\ sent' = [c \in Callers |-> IF sent[c].step = "wait"
                                        THEN [sent[c] EXCEPT !.step = "token"] ELSE sent[c]]
      BY <1>2 DEF Rq!WindowEnds, Rq!At
    <2>2. Budget(sent'[a], sent'[b], used', remaining', reset')
      BY <2>1, Weights DEF Budget
    <2>3. ASSUME NEW c \in Callers, Told(sent[c]), Unrefused(sent[c])
          PROVE  Told(sent'[c]) /\ Unrefused(sent'[c])
      <3>1. sent'[c] = sent[c] \/ sent'[c] = [sent[c] EXCEPT !.step = "token"]
        BY <2>1
      <3>2. sent[c] \in Rq!Calls BY <1>0
      <3> QED BY <2>3, <3>1, <3>2 DEF Told, Unrefused, Rq!Calls
    <2> QED BY <2>1, <2>2, <2>3 DEF BudgetInv
  <1>3. ASSUME Rq!KeysExpire PROVE BudgetInv(a, b)'
    <2>1. reset # "ahead" /\ reset' = "none" /\ UNCHANGED <<used, unseen, sent>>
      BY <1>3 DEF Rq!KeysExpire
    <2> QED BY <2>1 DEF BudgetInv, Budget
  <1>4. ASSUME Rq!OthersUse PROVE BudgetInv(a, b)'
    BY <1>4 DEF Rq!OthersUse, BudgetInv
  <1>5. CASE UNCHANGED requestVars
    BY <1>5 DEF requestVars, BudgetInv
  <1> QED BY <1>1, <1>2, <1>3, <1>4, <1>5 DEF Rq!Next

---------------------------------------------------------------------------
(* What holds of the requests                                              *)

LEMMA RequestsInit ==
  ASSUME MCInit
  PROVE  CountInv /\ \A a, b \in Callers : BudgetInv(a, b)
  <1>1. /\ used = 0 /\ unseen = FALSE /\ remaining = Rq!None /\ reset = "none"
        /\ sent = [c \in Callers |-> Rq!Idle]
    BY DEF MCInit, Rq!Init
  <1>2. Counted(Rq!Idle) /\ Told(Rq!Idle) /\ Unrefused(Rq!Idle)
    BY RequestIdle DEF Counted, Tried, Told, Unrefused
  <1>3. CountInv
    BY <1>1, <1>2, RequestIdle, RequestsAssumption DEF CountInv
  <1>4. \A a, b \in Callers : BudgetInv(a, b)
    BY <1>1, <1>2, Weights DEF BudgetInv, Budget
  <1> QED BY <1>3, <1>4

\* Whatever the scene, the requests take one of their steps or none.
LEMMA RequestsOnly == [MCNext]_allVars => [Rq!Next]_requestVars
  BY DEF MCNext, allVars

LEMMA CountBounds ==
  ASSUME CountInv
  PROVE  Rq!SendsBounded /\ Rq!NotRepeatedOnceDone
  BY RequestsAssumption DEF CountInv, Counted, Tried, Rq!SendsBounded,
     Rq!NotRepeatedOnceDone, Rq!Calls

\* For any number of coroutines, and whatever answers come back: a request is sent
\* MAX_RETRIES + 1 times at most, once more after the fresh token of a 401; and one
\* that was executed, as its answer tells, is not sent again by any turn of the loop.
THEOREM RequestsBounded ==
  SerialSpec => [](Rq!SendsBounded /\ Rq!NotRepeatedOnceDone)
  <1>1. MCInit => CountInv BY RequestsInit
  <1>2. CountInv /\ [MCNext]_allVars => CountInv' BY RequestsOnly, CountStep
  <1>3. CountInv => Rq!SendsBounded /\ Rq!NotRepeatedOnceDone BY CountBounds
  <1> QED BY <1>1, <1>2, <1>3, PTL DEF SerialSpec

\* Two coroutines that read every answer never meet Tiny's 429, for any window of five
\* requests or more and a headroom of two (three in a window of four), although the two keys
\* of the budget are read and written one after the other and a late answer brings
\* back an old count.
THEOREM TwoWithinBudget ==
  ASSUME NEW CONSTANT a, NEW CONSTANT b, a # b, Callers = {a, b},
         Headroom >= 2, Limit >= 4, Limit + Headroom >= 7
  PROVE  SerialSpec => []RequestsHeld
  <1>1. MCInit => CountInv /\ BudgetInv(a, b) BY RequestsInit
  <1>2. CountInv /\ BudgetInv(a, b) /\ [MCNext]_allVars => (CountInv /\ BudgetInv(a, b))'
    BY RequestsOnly, CountStep, BudgetStep
  <1>3. CountInv /\ BudgetInv(a, b) => RequestsHeld
    BY CountBounds DEF RequestsHeld, Rq!NeverLimited, BudgetInv, Unrefused
  <1> QED BY <1>1, <1>2, <1>3, PTL DEF SerialSpec
=============================================================================
