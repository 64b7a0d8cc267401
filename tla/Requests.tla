------------------------------ MODULE Requests ------------------------------
(***************************************************************************)
(* The request pipelines: TinyAPIClient._request with the budget that        *)
(* rate_limiter.py shares among all coroutines through two Redis keys,       *)
(* MercadoLivreAPIClient._request without one, and the promotion writes of   *)
(* MLPromotionService._ml_write.  A pipeline sends, waits and sends again    *)
(* until it has an answer to return or a reason to raise.                   *)
(***************************************************************************)
EXTENDS Integers

CONSTANTS
    Callers,        \* coroutines
    Limit,          \* requests the API answers in one window of a minute
    Headroom,       \* RATE_LIMIT_SAFE_THRESHOLD
    MaxRetries,     \* MAX_RETRIES, _ML_WRITE_MAX_RATE_RETRIES
    MaxRequests,    \* bound: requests started
    MaxMishaps      \* bound: answers other than a readable 2xx, and lost ones

None == -1

VARIABLES
    used,       \* requests counted in the API's current window
    unseen,     \* the API counted a request whose answer this service never read
    remaining,  \* tiny:rate_limit:remaining
    reset,      \* tiny:rate_limit:reset_at: "none", "ahead" or "past"
    call,       \* caller -> the request it is in
    started, mishaps

redis == <<remaining, reset>>
vars == <<used, unseen, remaining, reset, call, started, mishaps>>

Pipelines == {"tiny", "ml", "write"}
Answers == {"none", "ok", "garbled", "unauthorized", "refused", "limited",
            "transient", "lost"}

\* answer: the last one; left: its X-RateLimit-Remaining; attempt, refreshed: the
\* local variables; sends: how often the request was sent.
Calls == [step : {"idle", "gate", "gate_reset", "wait", "token", "send",
                  "update", "update_reset", "judge", "sleep", "reauth"},
          pipeline : Pipelines, answer : Answers, left : -1..Limit,
          attempt : 0..MaxRetries, refreshed : BOOLEAN,
          sends : 0..(MaxRetries + 3)]

Idle == [step |-> "idle", pipeline |-> "tiny", answer |-> "none", left |-> -1,
         attempt |-> 0, refreshed |-> FALSE, sends |-> 0]

TypeOK ==
    /\ used \in 0..Limit /\ unseen \in BOOLEAN
    /\ remaining \in {None} \cup 0..Limit /\ reset \in {"none", "ahead", "past"}
    /\ call \in [Callers -> Calls]
    /\ started \in 0..MaxRequests /\ mishaps \in 0..MaxMishaps

Init ==
    /\ used = 0 /\ unseen = FALSE /\ remaining = None /\ reset = "none"
    /\ call = [c \in Callers |-> Idle] /\ started = 0 /\ mishaps = 0

At(c, step) == call[c].step = step
Set(c, r) == call' = [call EXCEPT ![c] = r]
Goto(c, step) == Set(c, [call[c] EXCEPT !.step = step])
Local == UNCHANGED <<used, unseen, redis, started, mishaps>>

\* Where a turn of the loop begins: _ml_write keeps its token.
Again(p) == CASE p = "tiny" -> "gate" [] p = "ml" -> "token" [] p = "write" -> "send"

\* A request on pipeline p.  One that needs no shared budget is followed alone.
Request(c, p) ==
    /\ At(c, "idle") /\ started < MaxRequests
    /\ p # "tiny" => \A d \in Callers : At(d, "idle")
    /\ \A d \in Callers \ {c} : ~At(d, "idle") => call[d].pipeline = "tiny"
    /\ Set(c, [Idle EXCEPT !.pipeline = p,
                           !.step = IF p = "tiny" THEN "gate" ELSE "token"])
    /\ started' = started + 1
    /\ UNCHANGED <<used, unseen, redis, mishaps>>

---------------------------------------------------------------------------
(* RateLimiter.wait_if_needed: two reads                                   *)

\* Mutant of Gate: wait only once nothing is left.
GateAtZero(c) ==
    /\ At(c, "gate")
    /\ Goto(c, IF remaining = None \/ remaining > 0 THEN "token" ELSE "gate_reset")
    /\ Local

Gate(c) ==
    /\ At(c, "gate")
    /\ Goto(c, IF remaining = None \/ remaining > Headroom THEN "token" ELSE "gate_reset")
    /\ Local

GateReset(c) ==
    /\ At(c, "gate_reset")
    /\ Goto(c, IF reset = "ahead" THEN "wait" ELSE "token")
    /\ Local

\* get_valid_access_token, which may raise.
Token(c) ==
    /\ At(c, "token")
    /\ \/ Goto(c, "send") /\ Local
       \/ /\ mishaps < MaxMishaps /\ mishaps' = mishaps + 1
          /\ Set(c, Idle) /\ UNCHANGED <<used, unseen, redis, started>>

---------------------------------------------------------------------------
(* One request on the wire                                                 *)

\* The answer is a, and the window counts the request or not.
Sent(c, a, counted) ==
    LET p == call[c].pipeline
        spent == IF p = "tiny" /\ counted THEN used + 1 ELSE used IN
    /\ used' = spent
    /\ Set(c, [call[c] EXCEPT
                 !.step = IF p = "tiny" /\ a # "lost" THEN "update" ELSE "judge",
                 !.answer = a, !.left = IF p = "tiny" /\ a # "lost" THEN Limit - spent ELSE -1,
                 !.sends = @ + 1])
    /\ unseen' = (unseen \/ (a = "lost" /\ spent # used))
    /\ UNCHANGED <<redis, started>>

Room(c) == call[c].pipeline = "tiny" => used < Limit

SendOk(c) ==
    /\ At(c, "send") /\ Room(c)
    /\ Sent(c, "ok", TRUE) /\ UNCHANGED mishaps

\* The window is used up: Tiny's 429.
SendLimited(c) ==
    /\ At(c, "send") /\ ~Room(c)
    /\ Sent(c, "limited", FALSE) /\ UNCHANGED mishaps

\* Whatever else may come back, or not come back.
SendBadly(c) ==
    /\ At(c, "send") /\ Room(c)
    /\ mishaps < MaxMishaps /\ mishaps' = mishaps + 1
    /\ \/ \E a \in {"garbled", "unauthorized", "refused", "transient"} : Sent(c, a, TRUE)
       \/ call[c].pipeline # "tiny" /\ Sent(c, "limited", FALSE)
       \/ \E counted \in BOOLEAN : Sent(c, "lost", counted)

\* RateLimiter.update_from_headers: two writes.
Update(c) ==
    /\ At(c, "update")
    /\ remaining' = call[c].left
    /\ Set(c, [call[c] EXCEPT !.step = "update_reset", !.left = -1])
    /\ UNCHANGED <<used, unseen, reset, started, mishaps>>

UpdateReset(c) ==
    /\ At(c, "update_reset")
    /\ reset' = "ahead"
    /\ Goto(c, "judge")
    /\ UNCHANGED <<used, unseen, remaining, started, mishaps>>

---------------------------------------------------------------------------
(* What the answer leads to                                                *)

\* 401 is met once with a fresh token; _ml_write meets only its first answer so.
Reauthable(r) == ~r.refreshed /\ (r.pipeline = "write" => r.attempt = 0)

\* Mutant of Repeatable: an unreadable body is repeated as well.
RepeatableOrGarbled(r) == r.answer \in {"limited", "transient", "lost", "garbled"}

\* 429, 5xx and, in the two clients, an answer that never came.
Repeatable(r) ==
    r.answer \in {"limited", "transient"} \cup IF r.pipeline = "write" THEN {} ELSE {"lost"}

\* Mutant of Judge: a refusal for lack of budget is not counted.
JudgeFreely(c) ==
    LET r == call[c] IN
    /\ At(c, "judge")
    /\ Set(c, IF r.answer = "unauthorized" /\ Reauthable(r)
              THEN [r EXCEPT !.step = "reauth"]
              ELSE IF r.answer \in {"limited", "transient", "lost"}
              THEN [r EXCEPT !.step = "sleep"]
              ELSE Idle)
    /\ Local

\* Return the body, raise, or go round again.
Judge(c) ==
    LET r == call[c] IN
    /\ At(c, "judge")
    /\ Set(c, IF r.answer = "unauthorized" /\ Reauthable(r)
              THEN [r EXCEPT !.step = "reauth"]
              ELSE IF Repeatable(r) /\ r.attempt < MaxRetries
              THEN [r EXCEPT !.step = "sleep", !.attempt = @ + 1]
              ELSE Idle)
    /\ Local

\* The backoff is over.
Wake(c) ==
    /\ At(c, "sleep")
    /\ Goto(c, Again(call[c].pipeline))
    /\ Local

\* handle_unauthorized, which may raise.
Reauth(c) ==
    /\ At(c, "reauth")
    /\ \/ Set(c, [call[c] EXCEPT !.refreshed = TRUE,
                                 !.step = Again(call[c].pipeline)]) /\ Local
       \/ /\ mishaps < MaxMishaps /\ mishaps' = mishaps + 1
          /\ Set(c, Idle) /\ UNCHANGED <<used, unseen, redis, started>>

Continue(c) ==
    \/ Gate(c) \/ GateReset(c) \/ Token(c)
    \/ SendOk(c) \/ SendLimited(c) \/ SendBadly(c)
    \/ Update(c) \/ UpdateReset(c) \/ Judge(c) \/ Wake(c) \/ Reauth(c)

---------------------------------------------------------------------------
(* Environment                                                             *)

\* Mutant of WindowEnds: those who wait are not woken.
WindowEndsSilently ==
    /\ used' = 0
    /\ reset' = IF reset = "ahead" THEN "past" ELSE reset
    /\ UNCHANGED <<unseen, remaining, call, started, mishaps>>

\* A minute is over: whoever slept until then goes on, at any later moment.
WindowEnds ==
    /\ used' = 0
    /\ reset' = IF reset = "ahead" THEN "past" ELSE reset
    /\ call' = [c \in Callers |-> IF At(c, "wait") THEN [call[c] EXCEPT !.step = "token"]
                                  ELSE call[c]]
    /\ UNCHANGED <<unseen, remaining, started, mishaps>>

\* The keys live for two windows.
KeysExpire ==
    /\ remaining # None /\ reset # "ahead"
    /\ remaining' = None /\ reset' = "none"
    /\ UNCHANGED <<used, unseen, call, started, mishaps>>

\* Another client of the same account uses the rest of the window.
OthersUse ==
    /\ ~unseen /\ unseen' = TRUE /\ used' = Limit
    /\ UNCHANGED <<redis, call, started, mishaps>>

Next ==
    \/ \E c \in Callers : (\E p \in Pipelines : Request(c, p)) \/ Continue(c)
    \/ WindowEnds \/ KeysExpire \/ OthersUse

\* The event loop drives a request, and minutes pass.
FairSpec ==
    /\ Init /\ [][Next]_vars
    /\ \A c \in Callers : WF_vars(Continue(c))
    /\ WF_vars(WindowEnds)

---------------------------------------------------------------------------
(* Properties                                                              *)

\* One budget of retries bounds every request, whatever mix of timeouts, lost
\* connections, 429s and 5xx it meets; only the fresh token of a 401 adds one.
SendsBounded ==
    \A c \in Callers :
        call[c].sends <= MaxRetries + 1 + (IF call[c].refreshed THEN 1 ELSE 0)

\* A stock movement is a POST: once an answer has told that it was executed,
\* readable or not, no turn of the loop sends it again.
NotRepeatedOnceDone ==
    \A c \in Callers : call[c].answer \in {"ok", "garbled"} =>
        call[c].step \in {"update", "update_reset", "judge"}

\* What the headroom is for ("pauses cooperatively when the window is almost
\* exhausted"): as long as this service has read the answer to whatever the window
\* counts, two coroutines with a headroom of two, three in a window of four requests,
\* never meet Tiny's 429, although reads and writes of the two keys interleave and a
\* late write brings back an old count.  (In larger windows three coroutines need the
\* code's five, and four need nine.)
NeverLimited ==
    ~unseen => \A c \in Callers :
        call[c].pipeline = "tiny" => call[c].answer # "limited"

\* No request waits for ever, neither for a budget nor between retries.
Answered == \A c \in Callers : At(c, "idle")
RequestsEnd == <>[]Answered
=============================================================================
