----------------------- MODULE MCFulfillmentReception -----------------------
(* Instances of FulfillmentReception for TLC.                               *)
EXTENDS FulfillmentReception

\* The clock stands still while a scan runs (a scan takes
\* minutes, a grace window weeks) and the marketplace shows all that is on its
\* way, so what these runs show owes nothing to either.
QuietSpec ==
    Init /\ [][/\ Next
               /\ now' # now => \A s \in Scans : At(s, "idle")
               /\ \A s \in Scans :
                    At(s, "stock") /\ At(s, "settle")' /\ scan[s].sourced
                        => scan'[s].stock = transit]_vars

\* Every pending row is settled in the end, and a settled one stays as it is.
SettledOnce == FinalStatus /\ PendingSettled
=============================================================================
