----------------------------- MODULE MCTpccRun -----------------------------
(* Small instances of TpccRun. *)
EXTENDS TpccRun

(* As many new orders as other transactions. *)
EqualWeights == <<1, 1>>

(* New orders alone. *)
OrdersOnly == <<1>>
=============================================================================
