---------------------------- MODULE TpccFootprint ----------------------------
(***************************************************************************)
(* Why the interleaved transactions act as if they ran alone: the rows a   *)
(* transaction holds at each of its statements, and what it has made of    *)
(* them so far, as a function of the committed rows.  At its commit that   *)
(* is the effect TpccEffects defines, and a commit keeps the database      *)
(* consistent.                                                             *)
(***************************************************************************)
EXTENDS TpccTxn, TpccEffects

(* Labels at which a thread holds no row lock. *)
FreeLabels ==
    {"idle", "done", "neword1", "neword2", "payment1", "delivery1", "delivery2"}
       \cup OrdstatLabels \cup SlevLabels

UnlockedIsCommitted == \A r \in Rows : lock[r] = Null => cur[r] = db[r]

(* What a consistent read of t sees of the rows it has not written. *)
SnapshotOf(t) == IF snap[t] = Null THEN db ELSE snap[t]

----------------------------------------------------------------------------
(* neword(): past NewordInsertNewOrder, NewordInsertOrder,                 *)
(* NewordUpdateDistrict and NewordSelectDistrict.                          *)
Listed   == {"neword6", "neword7", "neword8", "neword9", "neword_commit"}
Inserted == {"neword5"} \cup Listed
Advanced == {"neword4"} \cup Inserted
Numbered == {"neword3"} \cup Advanced

AtLine == {"neword7", "neword8", "neword9"}

(* The order lines t has inserted, and the lines of its job they are. *)
Lines(t) ==
    LET r == OrderLine(job[t].w, job[t].d, loc[t].o)
    IN  IF lock[r] = t THEN cur[r] ELSE <<>>

Passed(t) ==
    {i \in DOMAIN job[t].lines :
        i \notin loc[t].todo /\ (pc[t] \in AtLine => i # loc[t].line)}

(* f says which line of the job each inserted line is. *)
PlacedBy(t, f) ==
    /\ f \in Bijection(DOMAIN Lines(t), Passed(t))
    /\ \A n \in DOMAIN Lines(t) : Lines(t)[n] = job[t].lines[f[n]]
    /\ \A m, n \in DOMAIN Lines(t) :
         m < n => StockKey(Lines(t)[m]) <= StockKey(Lines(t)[n])

(* Lines are taken in the order of their stock rows, each once. *)
LinesInOrder(t) ==
    /\ \E f \in Bijection(DOMAIN Lines(t), Passed(t)) : PlacedBy(t, f)
    /\ \A i \in Passed(t) :
         /\ job[t].lines[i].ol_i_id \in Items
         /\ \A k \in DOMAIN job[t].lines \ Passed(t) :
              StockKey(job[t].lines[i]) <= StockKey(job[t].lines[k])
    /\ pc[t] \in AtLine =>
         /\ loc[t].line \notin loc[t].todo
         /\ \A k \in loc[t].todo : StockKey(CurrentLine(t)) <= StockKey(job[t].lines[k])
    /\ pc[t] = "neword_commit" => loc[t].todo = {}

(* The stock rows of the inserted lines, and of the line being processed,  *)
(* are taken.                                                              *)
StockTaken(t) ==
    /\ \A n \in DOMAIN Lines(t) :
         lock[Stock(Lines(t)[n].ol_supply_w_id, Lines(t)[n].ol_i_id)] = t
    /\ pc[t] \in {"neword8", "neword9"} => lock[StockOfLine(t)] = t
    /\ pc[t] = "neword8" => loc[t].qty = cur[StockOfLine(t)]
    /\ \A w \in Warehouses, i \in Items : lock[Stock(w, i)] = t =>
         LET q == QuantityAfter(db[Stock(w, i)], Lines(t), w, i) IN
         cur[Stock(w, i)] = IF pc[t] = "neword9" /\ Stock(w, i) = StockOfLine(t)
                            THEN Restock(q, CurrentLine(t).ol_quantity) ELSE q

(* The new order of t is order o of district d of warehouse w. *)
NewordAt(t, w, d, o) ==
    /\ \A r \in Rows : lock[r] = t =>
         \/ r = District(w, d)
         \/ r = Orders(w, d, o) /\ pc[t] \in Inserted
         \/ (r \in {NewOrders(w, d, o), OrderLine(w, d, o)} \/ r[1] = "stock")
              /\ pc[t] \in Listed
    /\ lock[District(w, d)] = t
    /\ db[District(w, d)].d_next_o_id = o
    /\ pc[t] = "neword3" => cur[District(w, d)] = db[District(w, d)]
    /\ pc[t] \in Advanced =>
         cur[District(w, d)] = [db[District(w, d)] EXCEPT !.d_next_o_id = o + 1]
    /\ pc[t] \in Inserted =>
         /\ o \in OrderIds
         /\ lock[Orders(w, d, o)] = t
         /\ cur[Orders(w, d, o)] = [o_c_id |-> job[t].c, o_carrier_id |-> 0,
                                    o_ol_cnt |-> Len(job[t].lines)]
    /\ pc[t] \in Listed =>
         /\ lock[NewOrders(w, d, o)] = t /\ cur[NewOrders(w, d, o)] = TRUE
         /\ LinesInOrder(t)
         /\ StockTaken(t)

NewordHolds(t) == pc[t] \in Numbered => NewordAt(t, job[t].w, job[t].d, loc[t].o)

----------------------------------------------------------------------------
(* payment(): past PaymentInsertHistory, ... PaymentUpdateWarehouse.       *)
CustomerRead  == {"payment7", "payment8", "payment9"}
CustomerPaid  == {"payment10", "payment_commit"}
CustomerFound == {"payment6"} \cup CustomerRead \cup CustomerPaid
DistrictPaid  == {"payment4"} \cup CustomerFound
WarehousePaid == {"payment2", "payment3"} \cup DistrictPaid

PayingHistory(t) == History(job[t].c_w, job[t].c_d, loc[t].c)

(* Whom do_payment() may mean. *)
Payers(j) == IF j.byname THEN MidpointCustomer(j.c_last, j.c) ELSE {j.c}

PaymentAt(t, w, d, h) ==
    /\ \A r \in Rows : lock[r] = t =>
         \/ r = Warehouse(w)
         \/ r = District(w, d) /\ pc[t] \in DistrictPaid
         \/ r = PayingCustomer(t) /\ pc[t] \in CustomerRead \cup CustomerPaid
         \/ r = PayingHistory(t) /\ pc[t] = "payment_commit"
    /\ lock[Warehouse(w)] = t
    /\ cur[Warehouse(w)] = [db[Warehouse(w)] EXCEPT !.w_ytd = @ + h]
    /\ pc[t] \in DistrictPaid =>
         /\ lock[District(w, d)] = t
         /\ cur[District(w, d)] = [db[District(w, d)] EXCEPT !.d_ytd = @ + h]
    /\ pc[t] \in CustomerFound => loc[t].c \in Payers(job[t])
    /\ pc[t] \in CustomerRead =>
         /\ lock[PayingCustomer(t)] = t
         /\ cur[PayingCustomer(t)] = db[PayingCustomer(t)]
         /\ loc[t].amt = db[PayingCustomer(t)].c_balance + h
    /\ pc[t] = "payment8" => loc[t].data = 0
    /\ pc[t] \in CustomerPaid =>
         /\ lock[PayingCustomer(t)] = t
         /\ cur[PayingCustomer(t)] = [db[PayingCustomer(t)] EXCEPT !.c_balance = @ + h]
    /\ pc[t] = "payment_commit" =>
         /\ lock[PayingHistory(t)] = t
         /\ cur[PayingHistory(t)] = Append(db[PayingHistory(t)],
              [h_w_id |-> w, h_d_id |-> d, h_amount |-> h])

PaymentHolds(t) ==
    pc[t] \in WarehousePaid => PaymentAt(t, job[t].w, job[t].d, job[t].h_amount)

----------------------------------------------------------------------------
(* delivery(): past DeliverySumLines, ... DeliverySelectOldest.            *)
Summed   == {"delivery7", "delivery_commit"}
Stamped  == {"delivery6"} \cup Summed
Carried  == {"delivery5"} \cup Stamped
Credited == {"delivery4"} \cup Carried
Deleted  == {"delivery3"} \cup Credited

DeliveryAt(t, w, d, o) ==
    /\ OrderExists(SnapshotOf(t), w, d, o)
    /\ \A r \in Rows : lock[r] = t =>
         \/ r = NewOrders(w, d, o) /\ pc[t] \in Deleted
         \/ r = Orders(w, d, o) /\ pc[t] \in Carried
         \/ r = OrderLine(w, d, o) /\ pc[t] \in Stamped
         \/ r = Customer(w, d, loc[t].c) /\ pc[t] = "delivery_commit"
    /\ lock[NewOrders(w, d, o)] = t => cur[NewOrders(w, d, o)] = FALSE
    /\ pc[t] \in Deleted => (db[NewOrders(w, d, o)] => lock[NewOrders(w, d, o)] = t)
    /\ pc[t] \in Credited => loc[t].c = db[Orders(w, d, o)].o_c_id
    /\ pc[t] \in Carried =>
         /\ lock[Orders(w, d, o)] = t
         /\ cur[Orders(w, d, o)] = [db[Orders(w, d, o)] EXCEPT !.o_carrier_id = 1]
    /\ pc[t] \in Stamped =>
         /\ lock[OrderLine(w, d, o)] = t
         /\ cur[OrderLine(w, d, o)] = db[OrderLine(w, d, o)]
    /\ pc[t] \in Summed => loc[t].amt = OrderAmount(db[OrderLine(w, d, o)])
    /\ pc[t] = "delivery_commit" =>
         /\ lock[Customer(w, d, loc[t].c)] = t
         /\ cur[Customer(w, d, loc[t].c)] =
              [db[Customer(w, d, loc[t].c)] EXCEPT !.c_balance = @ + loc[t].amt,
                                                   !.c_delivery_cnt = @ + 1]

DeliveryHolds(t) ==
    pc[t] \in DeliveryLabels \ {"delivery1"} => DeliveryAt(t, job[t].w, loc[t].d, loc[t].o)

----------------------------------------------------------------------------
(* ordstat() and slev(): what their later statements rely on. *)
OrdstatReads(t) ==
    /\ pc[t] = "ordstat8" => OrderExists(SnapshotOf(t), job[t].w, job[t].d, loc[t].o)
    /\ pc[t] = "ordstat_commit" =>
         /\ OrderExists(db, job[t].w, job[t].d, loc[t].o)
         /\ loc[t].rows = db[Orders(job[t].w, job[t].d, loc[t].o)].o_ol_cnt

Recent(t) == {o \in OrderIds : o < loc[t].o /\ o >= loc[t].o - Window}

SlevReads(t) ==
    /\ pc[t] = "slev2" => \A o \in OrderIds : o < loc[t].o =>
         OrderExists(SnapshotOf(t), job[t].w, job[t].d, o)
    /\ pc[t] = "slev3" => loc[t].seen = Recent(t)

----------------------------------------------------------------------------
(* What a thread has to do with the rows at its label. *)
Footprint(t) ==
    /\ pc[t] \in FreeLabels => Held(t) = {}
    /\ ConsistentDb(SnapshotOf(t)) /\ Earlier(SnapshotOf(t), db)
    /\ NewordHolds(t) /\ PaymentHolds(t) /\ DeliveryHolds(t)
    /\ OrdstatReads(t) /\ SlevReads(t)

(* Every transaction leaves a consistent database, and one later than the  *)
(* loader's and than every snapshot still being read.                      *)
FootprintInv ==
    /\ UnlockedIsCommitted
    /\ db = [r \in Rows |-> db[r]]
    /\ ConsistentDb(db) /\ Earlier(LoadedDb, db)
    /\ \A t \in Threads : Footprint(t)
=============================================================================
