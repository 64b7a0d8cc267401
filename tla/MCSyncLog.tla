------------------------------ MODULE MCSyncLog ------------------------------
(* Instances of SyncLog for TLC.                                            *)
EXTENDS SyncLog, TLC

Symmetry == Permutations(Logs)

\* Every run none of whose messages was lost ends, and one that ended stays so.
EndsOnce == FinalStatus /\ EveryRunEnds
=============================================================================
