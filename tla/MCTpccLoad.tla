----------------------------- MODULE MCTpccLoad -----------------------------
(* Small instances of TpccLoad: how the work is split over loaders. *)
EXTENDS TpccLoad, TLC

MC_Names == {"BAR"}
MC_LastName == [c \in 1 .. CustPerDist |-> "BAR"]

(* Two processes at once, each with two parts.  (load.sh gives a process one *)
(* part; tpcc_load with five arguments gives one process all of them.)       *)
TwoLoaders == "load1" :> <<"items", "ware">> @@ "load2" :> <<"cust", "ord">>

FirstWarehouse == [l \in Loaders |-> 1]
LastWarehouse  == [l \in Loaders |-> NumWare]
=============================================================================
