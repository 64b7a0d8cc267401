-------------------------- MODULE MCTokenRotation --------------------------
(***************************************************************************)
(* Instances for TLC of the two token services and of the pipelines that     *)
(* send requests with their tokens: a behaviour is one of them, chosen at     *)
(* the start, and the others rest.  For the pipelines a token service is      *)
(* what Token and Reauth of Requests say: it gives a token or raises.         *)
(***************************************************************************)
EXTENDS MLTokenRotation, TLC

CONSTANTS Callers, Limit, Headroom, MaxRetries, MaxRequests, MaxMishaps

ASSUME RequestsAssumption == Limit \in Nat /\ Headroom \in Nat /\ MaxRetries \in Nat

VARIABLES
    scene,      \* "tiny" | "ml" | "requests"
    used, unseen, remaining, reset, sent, started, mishaps

Rq == INSTANCE Requests WITH call <- sent

requestVars == <<used, unseen, remaining, reset, sent, started, mishaps>>
allVars == <<scene, vars, requestVars>>

MCInit == Init /\ Rq!Init /\ scene \in {"tiny", "ml", "requests"}

MCNext ==
    \/ scene = "tiny" /\ Next /\ UNCHANGED <<scene, requestVars>>
    \/ scene = "ml" /\ MLNext /\ UNCHANGED <<scene, requestVars>>
    \/ scene = "requests" /\ Rq!Next /\ UNCHANGED <<scene, vars>>

\* One token call at a time needs no fairness; the event loop drives a request, and
\* minutes pass.
SerialSpec ==
    /\ MCInit /\ [][MCNext]_allVars
    /\ \A c \in Callers : WF_requestVars(scene = "requests" /\ Rq!Continue(c))
    /\ WF_requestVars(scene = "requests" /\ Rq!WindowEnds)

\* Concurrent calls of the Tiny service.
ConcurrentInit == MCInit /\ scene = "tiny"

ConcurrentSpec ==
    /\ ConcurrentInit
    /\ [][Next /\ UNCHANGED <<scene, requestVars>>]_allVars
    /\ Fairness

---------------------------------------------------------------------------
\* The Mercado Livre service is a TokenRotation: without the checks for an ended
\* refresh token it still takes no step the Tiny service would not take.
MLRefines == [][Next]_vars

\* Tiny's token: every call returns, and the lock becomes free.
CallsEnd == CallsReturn /\ LockReleased

\* Requests: one budget of retries, no movement sent again once it is done, and no
\* 429 for two coroutines that read every answer.
RequestsHeld == Rq!SendsBounded /\ Rq!NotRepeatedOnceDone /\ Rq!NeverLimited

\* Every request ends, neither waiting for a budget nor between retries for ever.
RequestsEnd == <>[](scene = "requests" => Rq!Answered)
=============================================================================
