----------------------------- MODULE TpccSerial -----------------------------
(***************************************************************************)
(* What the tpcc transactions promise: each takes effect on the committed  *)
(* database in one step, as if it had run alone.  Order-status and         *)
(* stock-level only read, so they do not appear.                           *)
(*                                                                         *)
(* A delivery is of the oldest order that waits, or once more of an order  *)
(* delivered before: delivery.c does not look at how many rows its DELETE  *)
(* removed.  It never passes over an order that waits.                     *)
(***************************************************************************)
EXTENDS TpccEffects

CONSTANT Jobs   \* the jobs of all threads

VARIABLE store

Init == store = LoadedDb

NewOrder(j) ==
    /\ j.kind = "neword"
    /\ \A n \in DOMAIN j.lines : j.lines[n].ol_i_id \in Items
    /\ store[District(j.w, j.d)].d_next_o_id \in OrderIds
    /\ \E lines \in Processed(j.lines) : store' = Ordering(store, j, lines)

Payment(j) ==
    /\ j.kind = "payment"
    /\ \E c \in IF j.byname THEN MidpointCustomer(j.c_last, j.c) ELSE {j.c} :
         store' = Paying(store, j, c)

Deliver(w, d, o) ==
    /\ OrderExists(store, w, d, o)
    /\ \A p \in OrderIds : store[NewOrders(w, d, p)] => o <= p
    /\ store' = Delivering(store, w, d, o)

Placement == \E j \in Jobs : NewOrder(j) \/ Payment(j)

Next ==
    \/ Placement
    \/ \E w \in Warehouses, d \in Districts, o \in OrderIds : Deliver(w, d, o)

Spec == Init /\ [][Next]_store
=============================================================================
