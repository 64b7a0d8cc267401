-------------------------- MODULE MLTokenRotation --------------------------
(***************************************************************************)
(* The Mercado Livre token pair (services/mercadolivre_token_service.py,    *)
(* repositories/ml_token_repository.py): the scheme of TokenRotation with   *)
(* its own row and Redis keys, and two differences.  Mercado Livre names no *)
(* end of a refresh token, so the service never asks whether one has ended; *)
(* and no job refreshes the pair, only a request does that finds it ageing  *)
(* or answered with 401.  TokenRotation is what this service promises:      *)
(* every behaviour of MLSpec is one of Spec.                                *)
(***************************************************************************)
EXTENDS TokenRotation

---------------------------------------------------------------------------
(* The steps that differ: only a missing row stops them                    *)

\* Mutant of MLReadDb: a pair that ends soon is treated as one that has ended,
\* so that a failed refresh fails the request too.
MLReadDbStrict(t) ==
    /\ At(t, "read_db")
    /\ Set(t, IF db = NoToken THEN Idle
              ELSE IF IsExpiringSoon(db) THEN RefreshWith(call[t], db)
              ELSE [call[t] EXCEPT !.step = "store", !.hand = db])
    /\ UNCHANGED <<tiny, db, redis, process, replyLost, bounds>>

MLReadDb(t) ==
    /\ At(t, "read_db")
    /\ Set(t, IF db = NoToken THEN Idle
              ELSE IF IsExpired(db) THEN RefreshWith(call[t], db)
              ELSE IF IsExpiringSoon(db)
                   THEN RefreshWith([call[t] EXCEPT !.spare = db], db)
              ELSE [call[t] EXCEPT !.step = "store", !.hand = db])
    /\ UNCHANGED <<tiny, db, redis, process, replyLost, bounds>>

MLForceRead(t) ==
    /\ At(t, "force_read")
    /\ Set(t, IF db = NoToken THEN Idle ELSE RefreshWith(call[t], db))
    /\ UNCHANGED <<tiny, db, redis, process, replyLost, bounds>>

\* Only a failed refresh ends the start, never the age of the pair itself.
MLBootCheck(t) ==
    /\ At(t, "boot_check")
    /\ LET k == call[t].hand IN
       Set(t, IF IsExpiringSoon(k) THEN RefreshWith(call[t], k)
              ELSE [call[t] EXCEPT !.step = "store"])
    /\ UNCHANGED <<tiny, db, redis, process, replyLost, bounds>>

\* A pair is good for one exchange, whenever that is.
MLElapse(k) == age[k] < Expired /\ Elapse(k)

---------------------------------------------------------------------------
(* The methods                                                             *)

MLGetValidAccessToken(t) ==
    GetValidAccessToken(t) \/ ReadCache(t) \/ MLReadDb(t) \/ FinishGet(t)

MLHandleUnauthorized(t) == HandleUnauthorized(t) \/ DropCache(t)

MLRefreshTokens(t) == MLForceRead(t) \/ FinishForce(t)

MLValidateOnStartup(t) ==
    ValidateOnStartup(t) \/ BootRead(t) \/ MLBootCheck(t) \/ FinishStartup(t)

MLRefreshWithLock(t) == TryLock(t) \/ Reread(t) \/ Unlock(t)

MLRefreshWithToken(t) ==
    \/ LoadStash(t)
    \/ PostGranted(t) \/ PostRejected(t) \/ PostFailed(t) \/ PostUnanswered(t)

MLPersistToken(t) == SaveToken(t) \/ CacheAccessToken(t) \/ DeleteStash(t)

MLCall(t) ==
    \/ MLGetValidAccessToken(t) \/ MLHandleUnauthorized(t)
    \/ MLRefreshTokens(t) \/ MLValidateOnStartup(t)
    \/ MLRefreshWithLock(t) \/ MLRefreshWithToken(t)
    \/ StashPending(t) \/ MLPersistToken(t) \/ Store(t)

MLNext ==
    \/ \E t \in Tasks : MLCall(t)
    \/ \E k \in Gens : MLElapse(k)
    \/ CacheExpires \/ LockExpires \/ Crash

MLSpec == Init /\ [][MLNext]_vars
=============================================================================
