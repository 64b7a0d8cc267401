--------------------------- MODULE TransferLedger ---------------------------
(***************************************************************************)
(* What every part of the program promises about fulfillment_transfers: a   *)
(* row is booked once, as pending; a pending row is credited up to its      *)
(* quantity, and received when it has it all, or is cancelled; a row that   *)
(* was settled never changes again, and none is deleted.                    *)
(*                                                                         *)
(* One transaction may do so to several rows.  The modules that write the   *)
(* table instantiate this one over their rows.                              *)
(***************************************************************************)
EXTENDS Integers

CONSTANT Ids

VARIABLE ledger   \* id -> [status, qty, got]

Blank == [status |-> "none", qty |-> 0, got |-> 0]

Book(i) ==
    /\ ledger[i] = Blank
    /\ ledger'[i].status = "pending" /\ ledger'[i].qty > 0 /\ ledger'[i].got = 0

Credit(i) ==
    /\ ledger[i].status = "pending"
    /\ ledger'[i].qty = ledger[i].qty
    /\ ledger'[i].got \in (ledger[i].got + 1)..ledger[i].qty
    /\ ledger'[i].status = IF ledger'[i].got = ledger[i].qty THEN "received" ELSE "pending"

Cancel(i) ==
    /\ ledger[i].status = "pending"
    /\ ledger'[i] = [ledger[i] EXCEPT !.status = "cancelled"]

Keep(i) == ledger'[i] = ledger[i]

Init == ledger = [i \in Ids |-> Blank]
Next == \A i \in Ids : Book(i) \/ Credit(i) \/ Cancel(i) \/ Keep(i)

Spec == Init /\ [][Next]_ledger
=============================================================================
