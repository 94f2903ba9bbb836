----------------------------- MODULE MCTpccTxn -----------------------------
(* Small instances of TpccTxn: the jobs each run draws from. *)
EXTENDS TpccFootprint

CONSTANTS t1, t2, t3    \* the worker threads

MC_Names == {"BAR", "OUGHT"}
MC_LastName == [c \in 1 .. CustPerDist |-> "BAR"]

Ln(i, w, q) == [ol_i_id |-> i, ol_supply_w_id |-> w, ol_quantity |-> q]
NewordJob(d, c, ls) == [kind |-> "neword", w |-> 1, d |-> d, c |-> c, lines |-> ls]
PaymentJob(w, d, c, h) == [kind |-> "payment", w |-> w, d |-> d, c_w |-> 1, c_d |-> 1,
    c |-> c, byname |-> FALSE, c_last |-> "BAR", h_amount |-> h]
PaymentByName(c, h) == [PaymentJob(1, 1, c, h) EXCEPT !.byname = TRUE]
OrdstatJob(c, byname) == [kind |-> "ordstat", w |-> 1, d |-> 1, c |-> c,
    byname |-> byname, c_last |-> "BAR"]
DeliveryJob == [kind |-> "delivery", w |-> 1]
SlevJob == [kind |-> "slev", w |-> 1, d |-> 1]

(* Everything that writes, on every thread. *)
WriterMix == [t \in Threads |->
    {NewordJob(1, 1, <<Ln(1, 1, 3)>>), PaymentJob(1, 1, 1, 7), PaymentByName(1, 5),
     DeliveryJob}]

(* Everything, on every thread: orders of two items in two districts that  *)
(* need the same stock rows, one that is rejected, and deliveries.         *)
EveryKind == [t \in Threads |->
    {NewordJob(1, 1, <<Ln(1, 1, 3), Ln(2, 1, 9)>>),
     NewordJob(2, 1, <<Ln(2, 1, 9), Ln(1, 1, 9)>>),
     NewordJob(1, 1, <<Ln(1, 1, 1), Ln(MaxItems + 1, 1, 1)>>),
     PaymentJob(1, 1, 1, 7), DeliveryJob,
     OrdstatJob(1, FALSE), OrdstatJob(1, TRUE), SlevJob}]
=============================================================================
