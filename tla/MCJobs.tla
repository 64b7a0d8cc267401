------------------------------- MODULE MCJobs -------------------------------
(***************************************************************************)
(* Instances for TLC of two components that a job drives: Resubscribe, the  *)
(* queue of campaigns to enter again, and SaleBuckets, what the stored      *)
(* orders add up to.  A behaviour is one of them, chosen at the start.      *)
(***************************************************************************)
EXTENDS Resubscribe

CONSTANTS Orders, Old, Budgets

ASSUME BucketsAssumption ==
    /\ IsFiniteSet(Orders) /\ Old \subseteq Orders
    /\ Budgets \subseteq [changes : Nat, hooked : Nat, kits : Nat, faults : Nat, losses : Nat,
                          calm : BOOLEAN]

VARIABLES
    scene,      \* "queue" | "buckets"
    tiny, heads, lines, units, due, hooks, queue, hand, run, buckets, silent, left

Buckets == INSTANCE SaleBuckets

bucketVars == <<tiny, heads, lines, units, due, hooks, queue, hand, run, buckets, silent, left>>
allVars == <<scene, vars, bucketVars>>

Budget(c, h, k, f, l) ==
    [changes |-> c, hooked |-> h, kits |-> k, faults |-> f, losses |-> l, calm |-> TRUE]
Nothing == Budget(0, 0, 0, 0, 0)

\* Two changes, one with a webhook; one and the kit's parts; and one with a
\* failure, or with a lost connection or a death.
Plenty == {Budget(1, 1, 0, 0, 0), Budget(0, 1, 1, 0, 0), Budget(0, 1, 0, 1, 0),
           Budget(0, 1, 0, 0, 1), Nothing}

\* The scene that is not chosen rests in one state.
AllListed == \A l \in Listings : offer[l] = Candidate /\ Agrees(l)
MCInit ==
    /\ Init /\ Buckets!Init
    /\ \/ scene = "queue" /\ left = Nothing
       \/ scene = "buckets" /\ left # Nothing /\ AllListed

MCNext ==
    \/ scene = "queue" /\ Next /\ UNCHANGED <<scene, bucketVars>>
    \/ scene = "buckets" /\ Buckets!Next /\ UNCHANGED <<scene, vars>>

\* The fairness of Resubscribe, and the same of what works on the buckets.  The
\* daily job's message is sent whatever waits; the bound that holds it back makes
\* that strong fairness.
MCSpec ==
    /\ MCInit /\ [][MCNext]_allVars
    /\ WF_vars(scene = "queue" /\ Tick) /\ WF_vars(scene = "queue" /\ Poll)
    /\ \A r \in Requests : WF_vars(scene = "queue" /\ Serve(r))
    /\ \A l \in Listings : WF_vars(scene = "queue" /\ Apply(l))
    /\ WF_vars(scene = "queue" /\ Copy)
    /\ WF_bucketVars(scene = "buckets" /\ Buckets!Reconcile)
    /\ SF_bucketVars(scene = "buckets" /\ Buckets!SaleBucketsRefreshJob)
    /\ \A c \in Buckets!Consumers, o \in Orders :
         WF_bucketVars(scene = "buckets" /\ Buckets!Deliver(c, o))
    /\ \A c \in Buckets!Consumers : WF_bucketVars(scene = "buckets" /\ Buckets!Store(c))
    /\ \A p \in SUBSET Buckets!Days : WF_bucketVars(scene = "buckets" /\ Buckets!Take(p))
    /\ \A r \in Buckets!Runs : WF_bucketVars(scene = "buckets" /\ Buckets!Refresh(r))

---------------------------------------------------------------------------
\* What the webhook's consumer stored is shown, or a refresh of its day waits, is
\* at work or is about to be announced.
AnnouncedShown == Buckets!AnnouncedShown

\* What is derived settles: the two copies of a listing's campaign agree with Mercado
\* Livre again and again, and the buckets come to be what Tiny's orders add up to.
DerivedSettles == CopiesSettle /\ <>[](scene = "buckets" => Buckets!AddsUp)
=============================================================================
