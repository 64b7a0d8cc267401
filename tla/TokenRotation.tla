--------------------------- MODULE TokenRotation ---------------------------
(***************************************************************************)
(* The OAuth token pair of the Tiny API: services/token_service.py over     *)
(* the singleton row of repositories/token_repository.py and three Redis    *)
(* keys (cached access token, refresh lock, pending-rotation stash).        *)
(*                                                                          *)
(* Tiny burns a refresh token when it is exchanged, so the pairs are        *)
(* numbered by the exchange that issued them; 0 is the refresh token of     *)
(* .env.  Every await of the service is a step of its own: between two      *)
(* steps of a call other coroutines run, keys expire and the process may    *)
(* die.                                                                     *)
(***************************************************************************)
EXTENDS Integers

CONSTANTS
    Tasks,            \* coroutines that may be inside the service at once
    MaxGen,           \* bound: exchanges Tiny grants
    MaxCrashes,       \* bound: deaths of the process
    MaxLockExpiries   \* bound: times the lock's TTL runs out under its holder

ASSUME BoundsAssumption ==
    MaxGen \in Nat /\ MaxCrashes \in Nat /\ MaxLockExpiries \in Nat

NoToken == -1
EnvToken == 0
Gens == 0..MaxGen

\* How far the clock has moved past a pair's issue: the access token is valid,
\* within 30 minutes of its end, ended; the refresh token has ended too.
Fresh == 0
Soon == 1
Expired == 2
Dead == 3

VARIABLES
    live,       \* the refresh token Tiny would exchange now
    age,        \* pair -> Fresh | Soon | Expired | Dead
    db,         \* the pair in oauth_tokens
    cache,      \* tiny:access_token
    lock,       \* tiny:token:refresh_lock is set
    stash,      \* tiny:token:pending_rotation
    process,    \* "down" | "starting" | "up"
    call,       \* task -> the call it is in and its local variables
    replyLost,  \* Tiny granted an exchange whose answer nobody kept
    crashes, lockExpiries

tiny == <<live, age>>
redis == <<cache, lock, stash>>
bounds == <<crashes, lockExpiries>>
vars == <<live, age, db, cache, lock, stash, process, call, replyLost,
          crashes, lockExpiries>>

Steps == {"idle", "read_cache", "drop_cache", "read_db", "force_read",
          "boot_read", "boot_check", "lock", "wait", "load", "post", "stash",
          "save", "cache", "unstash", "unlock", "finish", "store"}
Ops == {"get", "force", "bootstrap", "startup"}

\* op: the public method; given: the refresh token passed down; hand: the pair
\* to persist or return; spare: what get_valid_access_token falls back to;
\* mine: this call set the lock; recovering: hand came from the stash;
\* ok: FALSE once TokenExpiredException is in flight.
Calls == [step : Steps, op : Ops, given : Gens \cup {NoToken},
          hand : Gens \cup {NoToken}, spare : Gens \cup {NoToken},
          mine : BOOLEAN, recovering : BOOLEAN, ok : BOOLEAN]

Idle == [step |-> "idle", op |-> "get", given |-> NoToken, hand |-> NoToken,
         spare |-> NoToken, mine |-> FALSE, recovering |-> FALSE, ok |-> TRUE]

\* The local variables a step reads have been set.
Bound(c) ==
    /\ c.step \in {"boot_check", "stash", "save", "cache", "unstash", "store"}
         => c.hand \in Gens
    /\ c.step \in {"lock", "wait", "load", "post"} => c.given \in Gens
    /\ c.step \in {"unlock", "finish"} /\ c.ok => c.hand \in Gens

\* Types, and no step reads a local variable of the call that no step has set.
TypeOK ==
    /\ live \in Gens /\ age \in [Gens -> Fresh..Dead]
    /\ db \in Gens \cup {NoToken}
    /\ cache \in Gens \cup {NoToken}
    /\ lock \in BOOLEAN
    /\ stash \in Gens \cup {NoToken}
    /\ process \in {"down", "starting", "up"}
    /\ call \in [Tasks -> Calls] /\ \A t \in Tasks : Bound(call[t])
    /\ replyLost \in BOOLEAN
    /\ crashes \in 0..MaxCrashes /\ lockExpiries \in 0..MaxLockExpiries

Init ==
    /\ live = EnvToken /\ age = [k \in Gens |-> Fresh]
    /\ db = NoToken /\ cache = NoToken /\ lock = FALSE /\ stash = NoToken
    /\ process = "down" /\ call = [t \in Tasks |-> Idle]
    /\ replyLost = FALSE /\ crashes = 0 /\ lockExpiries = 0

---------------------------------------------------------------------------
(* Helpers                                                                 *)

IsExpired(k) == age[k] >= Expired
IsExpiringSoon(k) == age[k] >= Soon
RefreshDead(k) == k = NoToken \/ age[k] = Dead

At(t, step) == call[t].step = step

\* The refresh is over: an acquired lock is released before the caller resumes.
Leave(c, ok) == [c EXCEPT !.ok = ok,
                          !.step = IF c.mine THEN "unlock" ELSE "finish"]

\* Enter _refresh_with_lock with refresh token k.
RefreshWith(c, k) == [c EXCEPT !.step = "lock", !.given = k]

Set(t, c) == call' = [call EXCEPT ![t] = c]
Goto(t, step) == Set(t, [call[t] EXCEPT !.step = step])

---------------------------------------------------------------------------
(* Entry points                                                            *)

\* The client asks for a token before every request.
GetValidAccessToken(t) ==
    /\ process = "up" /\ At(t, "idle")
    /\ Set(t, [Idle EXCEPT !.op = "get", !.step = "read_cache"])
    /\ UNCHANGED <<tiny, db, redis, process, replyLost, bounds>>

\* The two-hourly job, and each of its retries.
RefreshTokens(t) ==
    /\ process = "up" /\ At(t, "idle")
    /\ Set(t, [Idle EXCEPT !.op = "force", !.step = "force_read"])
    /\ UNCHANGED <<tiny, db, redis, process, replyLost, bounds>>

\* A 401 from Tiny: drop the cached token, then force a refresh.
HandleUnauthorized(t) ==
    /\ process = "up" /\ At(t, "idle")
    /\ Set(t, [Idle EXCEPT !.op = "force", !.step = "drop_cache"])
    /\ UNCHANGED <<tiny, db, redis, process, replyLost, bounds>>

\* The lifespan validates the pair before any consumer or job starts.
ValidateOnStartup(t) ==
    /\ process = "down" /\ At(t, "idle")
    /\ process' = "starting"
    /\ Set(t, [Idle EXCEPT !.op = "startup", !.step = "boot_read"])
    /\ UNCHANGED <<tiny, db, redis, replyLost, bounds>>

---------------------------------------------------------------------------
(* get_valid_access_token, refresh_tokens, validate_on_startup             *)

ReadCache(t) ==
    /\ At(t, "read_cache")
    /\ Set(t, IF cache # NoToken THEN Idle
              ELSE [call[t] EXCEPT !.step = "read_db"])
    /\ UNCHANGED <<tiny, db, redis, process, replyLost, bounds>>

\* The access token ends: refresh or raise; ends soon: refresh or keep it.
ReadDb(t) ==
    /\ At(t, "read_db")
    /\ Set(t, IF RefreshDead(db) THEN Idle
              ELSE IF IsExpired(db) THEN RefreshWith(call[t], db)
              ELSE IF IsExpiringSoon(db)
                   THEN RefreshWith([call[t] EXCEPT !.spare = db], db)
              ELSE [call[t] EXCEPT !.step = "store", !.hand = db])
    /\ UNCHANGED <<tiny, db, redis, process, replyLost, bounds>>

DropCache(t) ==
    /\ At(t, "drop_cache")
    /\ cache' = NoToken
    /\ Goto(t, "force_read")
    /\ UNCHANGED <<tiny, db, lock, stash, process, replyLost, bounds>>

ForceRead(t) ==
    /\ At(t, "force_read")
    /\ Set(t, IF RefreshDead(db) THEN Idle ELSE RefreshWith(call[t], db))
    /\ UNCHANGED <<tiny, db, redis, process, replyLost, bounds>>

\* An empty table is bootstrapped from .env, without the lock.
BootRead(t) ==
    /\ At(t, "boot_read")
    /\ Set(t, IF db = NoToken
              THEN [call[t] EXCEPT !.op = "bootstrap", !.step = "load",
                                   !.given = EnvToken]
              ELSE [call[t] EXCEPT !.step = "boot_check", !.hand = db])
    /\ UNCHANGED <<tiny, db, redis, process, replyLost, bounds>>

\* A dead refresh token ends the process; an ageing pair is refreshed first.
BootCheck(t) ==
    /\ At(t, "boot_check")
    /\ LET k == call[t].hand IN
       \/ /\ RefreshDead(k)
          /\ Set(t, Idle) /\ process' = "down"
       \/ /\ ~RefreshDead(k)
          /\ Set(t, IF IsExpiringSoon(k) THEN RefreshWith(call[t], k)
                    ELSE [call[t] EXCEPT !.step = "store"])
          /\ UNCHANGED process
    /\ UNCHANGED <<tiny, db, redis, replyLost, bounds>>

---------------------------------------------------------------------------
(* _refresh_with_lock                                                      *)

\* Mutant of TryLock: SET without NX.
TryLockAlways(t) ==
    /\ At(t, "lock")
    /\ lock' = TRUE
    /\ Set(t, [call[t] EXCEPT !.step = "load", !.mine = TRUE])
    /\ UNCHANGED <<tiny, db, cache, stash, process, replyLost, bounds>>

\* SET NX: the loser sleeps a second instead.
TryLock(t) ==
    /\ At(t, "lock")
    /\ lock' = TRUE
    /\ Set(t, IF lock THEN [call[t] EXCEPT !.step = "wait"]
              ELSE [call[t] EXCEPT !.step = "load", !.mine = TRUE])
    /\ UNCHANGED <<tiny, db, cache, stash, process, replyLost, bounds>>

\* Mutant of Reread: sleep until the other call has stored a fresh row.
RereadUntilFresh(t) ==
    /\ At(t, "wait")
    /\ Set(t, IF db # NoToken /\ ~IsExpired(db)
              THEN Leave([call[t] EXCEPT !.hand = db], TRUE)
              ELSE call[t])
    /\ UNCHANGED <<tiny, db, redis, process, replyLost, bounds>>

\* After the sleep: a row no longer expired is returned; otherwise refresh
\* anyway, unlocked and with the token read before the wait.
Reread(t) ==
    /\ At(t, "wait")
    /\ Set(t, IF db # NoToken /\ ~IsExpired(db)
              THEN Leave([call[t] EXCEPT !.hand = db], TRUE)
              ELSE [call[t] EXCEPT !.step = "load"])
    /\ UNCHANGED <<tiny, db, redis, process, replyLost, bounds>>

\* The finally clause deletes the key whoever holds it by then.
Unlock(t) ==
    /\ At(t, "unlock")
    /\ lock' = FALSE
    /\ Set(t, [call[t] EXCEPT !.step = "finish", !.mine = FALSE])
    /\ UNCHANGED <<tiny, db, cache, stash, process, replyLost, bounds>>

---------------------------------------------------------------------------
(* _refresh_with_token                                                     *)

\* A stash other than the token in hand is an interrupted rotation to finish.
LoadStash(t) ==
    /\ At(t, "load")
    /\ Set(t, IF stash # NoToken /\ stash # call[t].given
              THEN [call[t] EXCEPT !.step = "save", !.hand = stash,
                                   !.recovering = TRUE]
              ELSE [call[t] EXCEPT !.step = "post"])
    /\ UNCHANGED <<tiny, db, redis, process, replyLost, bounds>>

Exchangeable(k) == k = live /\ age[k] # Dead

\* Mutant of PostGranted: straight to the row, as before the stash existed.
PostGrantedUnstashed(t) ==
    /\ At(t, "post") /\ Exchangeable(call[t].given) /\ live < MaxGen
    /\ live' = live + 1
    /\ Set(t, [call[t] EXCEPT !.step = "save", !.hand = live + 1])
    /\ UNCHANGED <<age, db, redis, process, replyLost, bounds>>

PostGranted(t) ==
    /\ At(t, "post") /\ Exchangeable(call[t].given) /\ live < MaxGen
    /\ live' = live + 1
    /\ Set(t, [call[t] EXCEPT !.step = "stash", !.hand = live + 1])
    /\ UNCHANGED <<age, db, redis, process, replyLost, bounds>>

\* A burned or dead token is answered with an error status.
PostRejected(t) ==
    /\ At(t, "post") /\ ~Exchangeable(call[t].given)
    /\ Set(t, Leave(call[t], FALSE))
    /\ UNCHANGED <<tiny, db, redis, process, replyLost, bounds>>

\* The request never reaches Tiny, or Tiny fails before the exchange.
PostFailed(t) ==
    /\ At(t, "post")
    /\ Set(t, Leave(call[t], FALSE))
    /\ UNCHANGED <<tiny, db, redis, process, replyLost, bounds>>

\* Tiny exchanges the token and the answer is lost or times out.
PostUnanswered(t) ==
    /\ At(t, "post") /\ Exchangeable(call[t].given) /\ live < MaxGen
    /\ live' = live + 1
    /\ replyLost' = TRUE
    /\ Set(t, Leave(call[t], FALSE))
    /\ UNCHANGED <<age, db, redis, process, bounds>>

\* Mutant of StashPending: an older stash is not overwritten.
StashPendingOnce(t) ==
    /\ At(t, "stash")
    /\ stash' = IF stash = NoToken THEN call[t].hand ELSE stash
    /\ Goto(t, "save")
    /\ UNCHANGED <<tiny, db, cache, lock, process, replyLost, bounds>>

StashPending(t) ==
    /\ At(t, "stash")
    /\ stash' = call[t].hand
    /\ Goto(t, "save")
    /\ UNCHANGED <<tiny, db, cache, lock, process, replyLost, bounds>>

\* _persist_token: the row, the cached access token, then the stash goes.
SaveToken(t) ==
    /\ At(t, "save")
    /\ db' = call[t].hand
    /\ Goto(t, "cache")
    /\ UNCHANGED <<tiny, redis, process, replyLost, bounds>>

CacheAccessToken(t) ==
    /\ At(t, "cache")
    /\ cache' = call[t].hand
    /\ Goto(t, "unstash")
    /\ UNCHANGED <<tiny, db, lock, stash, process, replyLost, bounds>>

\* A recovered pair that has expired meanwhile is exchanged at once.
DeleteStash(t) ==
    /\ At(t, "unstash")
    /\ stash' = NoToken
    /\ LET c == call[t] IN
       Set(t, IF c.recovering /\ IsExpired(c.hand)
              THEN [c EXCEPT !.step = "post", !.given = c.hand,
                             !.recovering = FALSE]
              ELSE Leave([c EXCEPT !.recovering = FALSE], TRUE))
    /\ UNCHANGED <<tiny, db, cache, lock, process, replyLost, bounds>>

---------------------------------------------------------------------------
(* Back in the public methods                                              *)

\* Mutant of FinishGet: the failure is swallowed for an expired pair too.
FinishGetSwallows(t) ==
    /\ At(t, "finish") /\ call[t].op = "get"
    /\ Set(t, IF call[t].ok THEN [call[t] EXCEPT !.step = "store"]
              ELSE [call[t] EXCEPT !.step = "store",
                                   !.hand = call[t].spare, !.ok = TRUE])
    /\ UNCHANGED <<tiny, db, redis, process, replyLost, bounds>>

\* A failed refresh is swallowed only for a pair that merely ends soon.
FinishGet(t) ==
    /\ At(t, "finish") /\ call[t].op = "get"
    /\ Set(t, IF call[t].ok THEN [call[t] EXCEPT !.step = "store"]
              ELSE IF call[t].spare # NoToken
                   THEN [call[t] EXCEPT !.step = "store",
                                        !.hand = call[t].spare, !.ok = TRUE]
              ELSE Idle)
    /\ UNCHANGED <<tiny, db, redis, process, replyLost, bounds>>

FinishForce(t) ==
    /\ At(t, "finish") /\ call[t].op = "force"
    /\ Set(t, Idle)
    /\ UNCHANGED <<tiny, db, redis, process, replyLost, bounds>>

\* At startup any failed refresh ends the process.
FinishStartup(t) ==
    /\ At(t, "finish") /\ call[t].op \in {"bootstrap", "startup"}
    /\ \/ /\ ~call[t].ok
          /\ Set(t, Idle) /\ process' = "down"
       \/ /\ call[t].ok
          /\ Set(t, [call[t] EXCEPT
                       !.op = "startup",
                       !.step = IF call[t].op = "bootstrap" THEN "boot_check"
                                ELSE "store"])
          /\ UNCHANGED process
    /\ UNCHANGED <<tiny, db, redis, replyLost, bounds>>

Store(t) ==
    /\ At(t, "store")
    /\ cache' = call[t].hand
    /\ Set(t, Idle)
    /\ process' = "up"
    /\ UNCHANGED <<tiny, db, lock, stash, replyLost, bounds>>

Refresh(t) ==
    \/ TryLock(t) \/ Reread(t) \/ Unlock(t) \/ LoadStash(t)
    \/ PostGranted(t) \/ PostRejected(t) \/ PostFailed(t) \/ PostUnanswered(t)
    \/ StashPending(t) \/ SaveToken(t) \/ CacheAccessToken(t) \/ DeleteStash(t)

Continue(t) ==
    \/ ReadCache(t) \/ ReadDb(t) \/ DropCache(t) \/ ForceRead(t)
    \/ BootRead(t) \/ BootCheck(t) \/ Refresh(t)
    \/ FinishGet(t) \/ FinishForce(t) \/ FinishStartup(t) \/ Store(t)

Begin(t) ==
    \/ GetValidAccessToken(t) \/ RefreshTokens(t) \/ HandleUnauthorized(t)
    \/ ValidateOnStartup(t)

---------------------------------------------------------------------------
(* Environment                                                             *)

\* The clock: pairs issued earlier end no later than later ones.
Elapse(k) ==
    /\ k \in 1..live /\ age[k] < Dead
    /\ \A j \in 1..(k - 1) : age[j] > age[k]
    /\ age' = [age EXCEPT ![k] = @ + 1]
    /\ UNCHANGED <<live, db, redis, process, call, replyLost, bounds>>

CacheExpires ==
    /\ cache # NoToken /\ cache' = NoToken
    /\ UNCHANGED <<tiny, db, lock, stash, process, call, replyLost, bounds>>

\* The 30-second TTL frees a dead process's lock; it can also outrun a holder,
\* whose POST alone may take 30 seconds per phase.
Held == \E t \in Tasks : call[t].mine

\* Mutant of LockExpires: the key is set without a TTL.
LockNeverExpires ==
    /\ lock /\ Held /\ lock' = FALSE
    /\ lockExpiries < MaxLockExpiries /\ lockExpiries' = lockExpiries + 1
    /\ UNCHANGED <<tiny, db, cache, stash, process, call, replyLost, crashes>>

LockExpires ==
    /\ lock /\ lock' = FALSE
    /\ Held => lockExpiries < MaxLockExpiries
    /\ lockExpiries' = IF Held THEN lockExpiries + 1 ELSE lockExpiries
    /\ UNCHANGED <<tiny, db, cache, stash, process, call, replyLost, crashes>>

\* Redis and Postgres outlive the process; an answer in hand does not.
Crash ==
    /\ process # "down" /\ crashes < MaxCrashes
    /\ process' = "down" /\ call' = [t \in Tasks |-> Idle]
    /\ replyLost' = (replyLost \/ \E t \in Tasks : At(t, "stash"))
    /\ crashes' = crashes + 1
    /\ UNCHANGED <<tiny, db, redis, lockExpiries>>

Next ==
    \/ \E t \in Tasks : Begin(t) \/ Continue(t)
    \/ \E k \in Gens : Elapse(k)
    \/ CacheExpires \/ LockExpires \/ Crash

\* A started call is driven by the event loop; an orphaned lock by its TTL.
Fairness ==
    /\ \A t \in Tasks : WF_vars(Continue(t))
    /\ WF_vars(LockExpires)

Spec == Init /\ [][Next]_vars
FairSpec == Spec /\ Fairness

---------------------------------------------------------------------------
(* Properties                                                              *)

\* The lock does what SET NX EX 30 is for: as long as no refresh outlives the
\* TTL, at most one call is inside the locked part of _refresh_with_lock.
MutualExclusion ==
    lockExpiries = 0 =>
        \A t, u \in Tasks : call[t].mine /\ call[u].mine => t = u

\* "The stash holds tokens newer than the DB row" (comment in
\* _refresh_with_token): however the calls interleave, a stash is never older
\* than the row it is about to replace, so preferring it never goes back.
StashNotOlder == stash # NoToken => db <= stash

\* Where the live refresh token can be found again.
Reachable ==
    {db, stash} \cup {call[t].hand : t \in {u \in Tasks : At(u, "stash")}}
        \cup IF db = NoToken THEN {EnvToken} ELSE {}

\* The order stash, row, cache, unstash never loses the live refresh token:
\* unless Tiny's very answer was lost, it is in the row or the stash (or in
\* the hand about to stash it), wherever the process dies.  This is what saves
\* the operator a manual re-authentication.
Recoverable == ~replyLost => live \in Reachable

\* The same without any crash: no interleaving of calls makes the service forget
\* the live refresh token ("losing new_token here would require manual
\* re-authentication"): it is stored, or still in the hand of a call.
LiveTokenKept ==
    crashes = 0 /\ ~replyLost =>
        live \in Reachable \cup {call[t].hand : t \in Tasks}

\* "Staleness is preferable to a deadlock": every call comes back, whatever
\* the other calls, the keys and the process do.
CallsReturn == \A t \in Tasks : ~At(t, "idle") ~> At(t, "idle")

\* A lock never outlives its use, even if its owner died holding it.
LockReleased == lock ~> ~lock
=============================================================================
