------------------------------- MODULE TpccTxn -------------------------------
(***************************************************************************)
(* The five transactions of tpcc-mysql, statement by statement, run by     *)
(* worker threads that share one database.                                 *)
(*                                                                         *)
(* pc[t] names the statement thread t executes next, by the value the      *)
(* source gives its variable proceed ("neword3" is proceed = 3 in          *)
(* neword.c); statements are the steps because between two of them any     *)
(* other connection may run.  A statement that needs a row another         *)
(* connection holds waits (its action is not enabled).                     *)
(*                                                                         *)
(*   job    what do_neword, do_payment, ... drew for the thread, or Null   *)
(*   loc    the C locals of the transaction function                       *)
(*   tries  the attempts of the retry loop that have failed                *)
(*   left   bound: jobs the thread may still draw                          *)
(*   faults bound: statements that may still fail for no modelled reason   *)
(***************************************************************************)
EXTENDS TpccSchema

CONSTANTS
    Threads,        \* the worker threads (num_conn of them)
    Null,
    Jobs,           \* the jobs each thread draws from
    Window,         \* slev looks at the last 20 orders
    MaxRetry,       \* MAX_RETRY
    JobsPerThread,  \* bound on left
    MaxFaults       \* bound on faults

ASSUME TxnAssumption ==
    /\ Null \notin Threads
    /\ Jobs \in [Threads -> SUBSET AllJobs]
    /\ \A t \in Threads : \A j \in Jobs[t] :
         j.kind = "neword" => j.lines # <<>>
    /\ Null \notin AllJobs
    /\ Window \in Nat
    /\ MaxRetry \in Nat \ {0}
    /\ JobsPerThread \in Nat
    /\ MaxFaults \in Nat

AnyJob == UNION {Jobs[t] : t \in Threads}

VARIABLES db, cur, lock, snap, pc, job, loc, tries, left, faults

INSTANCE RowStore WITH InitDb <- LoadedDb

store == <<db, cur, lock, snap>>
control == <<job, tries, left, faults>>
vars == <<db, cur, lock, snap, pc, job, loc, tries, left, faults>>

(* o: an order id; d: the d_id of delivery()'s loop; c: a customer;         *)
(* qty: s_quantity; amt: a balance or an amount; data: c_data;              *)
(* todo: the lines neword()'s loop has not reached; line: the one it is at; *)
(* rows: rows fetched by ordstat(); seen: orders whose lines slev() read.   *)
NoLocals == [o |-> 0, d |-> 1, c |-> 0, qty |-> 0, amt |-> 0, data |-> 0,
             todo |-> {}, line |-> 0, rows |-> 0, seen |-> {}]

Init ==
    /\ StoreInit
    /\ pc = [t \in Threads |-> "idle"]
    /\ job = [t \in Threads |-> Null]
    /\ loc = [t \in Threads |-> NoLocals]
    /\ tries = [t \in Threads |-> 0]
    /\ left = [t \in Threads |-> JobsPerThread]
    /\ faults = MaxFaults

----------------------------------------------------------------------------
(* The worker's loop around its transactions. *)

FirstStatement(j) ==
    CASE j.kind = "neword"   -> "neword1"
      [] j.kind = "payment"  -> "payment1"
      [] j.kind = "ordstat"  -> IF j.byname THEN "ordstat1" ELSE "ordstat6"
      [] j.kind = "delivery" -> "delivery1"
      [] j.kind = "slev"     -> "slev1"

(* driver() draws a transaction and do_* its parameters. *)
Begin(t) ==
    /\ pc[t] = "idle" /\ left[t] > 0
    /\ \E j \in Jobs[t] :
         /\ job' = [job EXCEPT ![t] = j]
         /\ pc' = [pc EXCEPT ![t] = FirstStatement(j)]
    /\ left' = [left EXCEPT ![t] = @ - 1]
    /\ tries' = [tries EXCEPT ![t] = 0]
    /\ loc' = [loc EXCEPT ![t] = NoLocals]
    /\ UNCHANGED <<store, faults>>

(* driver() returned: thread_main commits and disconnects. *)
ThreadEnd(t) ==
    /\ pc[t] = "idle"
    /\ pc' = [pc EXCEPT ![t] = "done"]
    /\ Commit(t)
    /\ UNCHANGED <<control, loc>>

(* One statement of t that leads from one label to another. *)
Step(t, from, to) ==
    /\ pc[t] = from
    /\ pc' = [pc EXCEPT ![t] = to]
    /\ UNCHANGED control

(* The transaction function returns 1 and do_* returns to driver(). *)
Return(t) ==
    /\ pc' = [pc EXCEPT ![t] = "idle"]
    /\ job' = [job EXCEPT ![t] = Null]
    /\ loc' = [loc EXCEPT ![t] = NoLocals]
    /\ tries' = [tries EXCEPT ![t] = 0]
    /\ UNCHANGED <<left, faults>>

(* do_*() tries the transaction again, up to MAX_RETRY times. *)
GiveUp(t) == tries[t] + 1 >= MaxRetry

RetryOrGiveUp(t) ==
    /\ loc' = [loc EXCEPT ![t] = NoLocals]
    /\ tries' = [tries EXCEPT ![t] = IF GiveUp(t) THEN 0 ELSE @ + 1]
    /\ pc' = [pc EXCEPT ![t] = IF GiveUp(t) THEN "idle"
                                            ELSE FirstStatement(job[t])]
    /\ job' = [job EXCEPT ![t] = IF GiveUp(t) THEN Null ELSE @]
    /\ UNCHANGED left

(* Mutants of SqlErr: the ROLLBACK is forgotten; COMMIT for ROLLBACK. *)
SqlErrKeepsWork(t) == UNCHANGED <<db, cur, lock, snap>> /\ RetryOrGiveUp(t)
SqlErrCommits(t)   == Commit(t) /\ RetryOrGiveUp(t)

(* sqlerr: roll back and return 0. *)
SqlErr(t) == Rollback(t) /\ RetryOrGiveUp(t)

(* A statement fails: lock wait timeout, deadlock victim, server error. *)
StatementFails(t) ==
    /\ pc[t] \notin {"idle", "done"}
    /\ faults > 0
    /\ faults' = faults - 1
    /\ SqlErr(t)

----------------------------------------------------------------------------
(* neword(): the new-order transaction. *)

(* SELECT ... FROM customer, warehouse *)
NewordSelectCustomer(t) ==
    /\ Step(t, "neword1", "neword2")
    /\ Select(t)
    /\ UNCHANGED loc

(* Mutant of NewordSelectDistrict: no FOR UPDATE. *)
NewordSelectDistrictUnlocked(t) ==
    /\ Step(t, "neword2", "neword3")
    /\ Select(t)
    /\ loc' = [loc EXCEPT ![t].o =
                 View(t)[District(job[t].w, job[t].d)].d_next_o_id]

(* SELECT d_next_o_id FROM district ... FOR UPDATE *)
NewordSelectDistrict(t) ==
    LET r == District(job[t].w, job[t].d) IN
    /\ Step(t, "neword2", "neword3")
    /\ SelectForUpdate(t, r)
    /\ loc' = [loc EXCEPT ![t].o = cur[r].d_next_o_id]

(* UPDATE district SET d_next_o_id = :d_next_o_id + 1 *)
NewordUpdateDistrict(t) ==
    LET r == District(job[t].w, job[t].d) IN
    /\ Step(t, "neword3", "neword4")
    /\ Write(t, r, [cur[r] EXCEPT !.d_next_o_id = loc[t].o + 1])
    /\ UNCHANGED loc

(* INSERT INTO orders; the carrier is left NULL. *)
NewordInsertOrder(t) ==
    /\ Step(t, "neword4", "neword5")
    /\ loc[t].o \in OrderIds
    /\ ~OrderExists(cur, job[t].w, job[t].d, loc[t].o)
    /\ Write(t, Orders(job[t].w, job[t].d, loc[t].o),
             [o_c_id |-> job[t].c, o_carrier_id |-> 0,
              o_ol_cnt |-> Len(job[t].lines)])
    /\ UNCHANGED loc

(* The insert finds its key taken, or the modelled orders table full. *)
NewordInsertRejected(t) ==
    /\ pc[t] = "neword4"
    /\ loc[t].o \in OrderIds =>
         /\ Available(t, Orders(job[t].w, job[t].d, loc[t].o))
         /\ OrderExists(cur, job[t].w, job[t].d, loc[t].o)
    /\ SqlErr(t)
    /\ UNCHANGED faults

(* Mutant of NewordInsertNewOrder: the loop runs to o_ol_cnt + 1. *)
NewordInsertNewOrderOneMore(t) ==
    /\ Step(t, "neword5", "neword6")
    /\ Write(t, NewOrders(job[t].w, job[t].d, loc[t].o), TRUE)
    /\ loc' = [loc EXCEPT ![t].todo = 1 .. Len(job[t].lines) + 1]

(* INSERT INTO new_orders, then sort the lines by StockKey: the loop below *)
(* takes them in that order.                                               *)
NewordInsertNewOrder(t) ==
    /\ Step(t, "neword5", "neword6")
    /\ Write(t, NewOrders(job[t].w, job[t].d, loc[t].o), TRUE)
    /\ loc' = [loc EXCEPT ![t].todo = DOMAIN job[t].lines]

(* Mutant of NextLines: the sort is left out. *)
NextLinesUnsorted(t) == {i \in loc[t].todo : \A k \in loc[t].todo : i <= k}

(* The lines the loop may come to next. *)
NextLines(t) ==
    {i \in loc[t].todo : \A k \in loc[t].todo :
        StockKey(job[t].lines[i]) <= StockKey(job[t].lines[k])}

(* SELECT ... FROM item *)
NewordSelectItem(t) ==
    /\ Step(t, "neword6", "neword7")
    /\ Select(t)
    /\ \E i \in NextLines(t) :
         /\ job[t].lines[i].ol_i_id \in Items
         /\ loc' = [loc EXCEPT ![t].line = i, ![t].todo = @ \ {i}]

(* Mutant of NewordInvalidItem: COMMIT for ROLLBACK. *)
NewordInvalidItemCommits(t) ==
    /\ pc[t] = "neword6"
    /\ \E i \in NextLines(t) : job[t].lines[i].ol_i_id \notin Items
    /\ Commit(t)
    /\ Return(t)

(* invaliditem: the item does not exist; roll back and return 1. *)
NewordInvalidItem(t) ==
    /\ pc[t] = "neword6"
    /\ \E i \in NextLines(t) : job[t].lines[i].ol_i_id \notin Items
    /\ Rollback(t)
    /\ Return(t)

CurrentLine(t) == job[t].lines[loc[t].line]

StockOfLine(t) == Stock(CurrentLine(t).ol_supply_w_id, CurrentLine(t).ol_i_id)

(* Mutant of NewordSelectStock: no FOR UPDATE. *)
NewordSelectStockUnlocked(t) ==
    /\ Step(t, "neword7", "neword8")
    /\ Select(t)
    /\ loc' = [loc EXCEPT ![t].qty = View(t)[StockOfLine(t)]]

(* SELECT s_quantity FROM stock ... FOR UPDATE *)
NewordSelectStock(t) ==
    /\ Step(t, "neword7", "neword8")
    /\ SelectForUpdate(t, StockOfLine(t))
    /\ loc' = [loc EXCEPT ![t].qty = cur[StockOfLine(t)]]

(* UPDATE stock SET s_quantity *)
NewordUpdateStock(t) ==
    /\ Step(t, "neword8", "neword9")
    /\ Write(t, StockOfLine(t), Restock(loc[t].qty, CurrentLine(t).ol_quantity))
    /\ UNCHANGED loc

(* INSERT INTO order_line, and on to the next line or the commit. *)
NewordInsertLine(t) ==
    LET r == OrderLine(job[t].w, job[t].d, loc[t].o) IN
    /\ Step(t, "neword9", IF loc[t].todo = {} THEN "neword_commit"
                                             ELSE "neword6")
    /\ Write(t, r, Append(cur[r], CurrentLine(t)))
    /\ UNCHANGED loc

NewordCommit(t) ==
    /\ pc[t] = "neword_commit"
    /\ Commit(t)
    /\ Return(t)

Neword(t) ==
    \/ NewordSelectCustomer(t) \/ NewordSelectDistrict(t)
    \/ NewordUpdateDistrict(t) \/ NewordInsertOrder(t)
    \/ NewordInsertRejected(t) \/ NewordInsertNewOrder(t)
    \/ NewordSelectItem(t) \/ NewordInvalidItem(t)
    \/ NewordSelectStock(t) \/ NewordUpdateStock(t)
    \/ NewordInsertLine(t) \/ NewordCommit(t)

----------------------------------------------------------------------------
(* payment(): the payment transaction. *)

(* UPDATE warehouse SET w_ytd = w_ytd + :h_amount *)
PaymentUpdateWarehouse(t) ==
    LET r == Warehouse(job[t].w) IN
    /\ Step(t, "payment1", "payment2")
    /\ Write(t, r, [cur[r] EXCEPT !.w_ytd = @ + job[t].h_amount])
    /\ UNCHANGED loc

(* SELECT w_street_1, ... FROM warehouse *)
PaymentSelectWarehouse(t) ==
    /\ Step(t, "payment2", "payment3")
    /\ Select(t)
    /\ UNCHANGED loc

(* UPDATE district SET d_ytd = d_ytd + :h_amount *)
PaymentUpdateDistrict(t) ==
    LET r == District(job[t].w, job[t].d) IN
    /\ Step(t, "payment3", "payment4")
    /\ Write(t, r, [cur[r] EXCEPT !.d_ytd = @ + job[t].h_amount])
    /\ UNCHANGED loc

(* SELECT d_street_1, ... FROM district, and, by name, the count and the   *)
(* cursor over the customers of that name.                                 *)
PaymentSelectDistrict(t) ==
    /\ Step(t, "payment4", "payment6")
    /\ Select(t)
    /\ \E c \in IF job[t].byname THEN MidpointCustomer(job[t].c_last, job[t].c)
                                  ELSE {job[t].c} :
         loc' = [loc EXCEPT ![t].c = c]

PayingCustomer(t) == Customer(job[t].c_w, job[t].c_d, loc[t].c)

(* Mutant of PaymentSelectCustomer: no FOR UPDATE. *)
PaymentSelectCustomerUnlocked(t) ==
    /\ Step(t, "payment6",
            IF loc[t].c \in BadCredit THEN "payment7" ELSE "payment9")
    /\ Select(t)
    /\ loc' = [loc EXCEPT ![t].amt =
                 View(t)[PayingCustomer(t)].c_balance + job[t].h_amount]

(* SELECT c_balance, c_credit FROM customer ... FOR UPDATE;                *)
(* c_balance += h_amount                                                   *)
PaymentSelectCustomer(t) ==
    /\ Step(t, "payment6",
            IF loc[t].c \in BadCredit THEN "payment7" ELSE "payment9")
    /\ SelectForUpdate(t, PayingCustomer(t))
    /\ loc' = [loc EXCEPT ![t].amt =
                 cur[PayingCustomer(t)].c_balance + job[t].h_amount]

(* SELECT c_data FROM customer: a consistent read. *)
PaymentSelectData(t) ==
    /\ Step(t, "payment7", "payment8")
    /\ Select(t)
    /\ loc' = [loc EXCEPT ![t].data = View(t)[PayingCustomer(t)].c_data]

(* UPDATE customer SET c_balance, c_data; the bound c_data is the text just *)
(* read, not the c_new_data made of it.                                     *)
PaymentUpdateBadCredit(t) ==
    LET r == PayingCustomer(t) IN
    /\ Step(t, "payment8", "payment10")
    /\ Write(t, r, [cur[r] EXCEPT !.c_balance = loc[t].amt,
                                  !.c_data = loc[t].data])
    /\ UNCHANGED loc

(* UPDATE customer SET c_balance *)
PaymentUpdateCustomer(t) ==
    LET r == PayingCustomer(t) IN
    /\ Step(t, "payment9", "payment10")
    /\ Write(t, r, [cur[r] EXCEPT !.c_balance = loc[t].amt])
    /\ UNCHANGED loc

(* INSERT INTO history *)
PaymentInsertHistory(t) ==
    LET r == History(job[t].c_w, job[t].c_d, loc[t].c) IN
    /\ Step(t, "payment10", "payment_commit")
    /\ Write(t, r, Append(cur[r], [h_w_id |-> job[t].w, h_d_id |-> job[t].d,
                                   h_amount |-> job[t].h_amount]))
    /\ UNCHANGED loc

PaymentCommit(t) ==
    /\ pc[t] = "payment_commit"
    /\ Commit(t)
    /\ Return(t)

Payment(t) ==
    \/ PaymentUpdateWarehouse(t) \/ PaymentSelectWarehouse(t)
    \/ PaymentUpdateDistrict(t) \/ PaymentSelectDistrict(t)
    \/ PaymentSelectCustomer(t) \/ PaymentSelectData(t)
    \/ PaymentUpdateBadCredit(t) \/ PaymentUpdateCustomer(t)
    \/ PaymentInsertHistory(t) \/ PaymentCommit(t)

----------------------------------------------------------------------------
(* delivery(): one order of each district of a warehouse. *)

Undelivered(rows, w, d) == {o \in OrderIds : rows[NewOrders(w, d, o)]}

(* The loop moves on to the next district, or the function returns 1       *)
(* without a commit of its own.                                            *)
NextDistrict(t) ==
    IF loc[t].d < DistPerWare
    THEN /\ pc' = [pc EXCEPT ![t] = "delivery1"]
         /\ loc' = [loc EXCEPT ![t].d = @ + 1]
         /\ UNCHANGED control
    ELSE Return(t)

(* Mutant of DeliverySelectOldest: MAX for MIN. *)
DeliverySelectNewest(t) ==
    LET open == Undelivered(View(t), job[t].w, loc[t].d) IN
    /\ Step(t, "delivery1", "delivery2")
    /\ Select(t)
    /\ \E o \in open :
         /\ \A p \in open : p <= o
         /\ loc' = [loc EXCEPT ![t].o = o]

(* SELECT COALESCE(MIN(no_o_id),0) FROM new_orders: a consistent read. *)
DeliverySelectOldest(t) ==
    LET open == Undelivered(View(t), job[t].w, loc[t].d) IN
    /\ Step(t, "delivery1", "delivery2")
    /\ Select(t)
    /\ \E o \in open :
         /\ \A p \in open : o <= p
         /\ loc' = [loc EXCEPT ![t].o = o]

(* No order to deliver: continue. *)
DeliverySkipDistrict(t) ==
    /\ pc[t] = "delivery1"
    /\ Undelivered(View(t), job[t].w, loc[t].d) = {}
    /\ Select(t)
    /\ NextDistrict(t)

(* DELETE FROM new_orders; how many rows went is not looked at. *)
DeliveryDeleteNewOrder(t) ==
    LET r == NewOrders(job[t].w, loc[t].d, loc[t].o) IN
    /\ Step(t, "delivery2", "delivery3")
    /\ Available(t, r)
    /\ IF cur[r] THEN Write(t, r, FALSE) ELSE NoRowMatches
    /\ UNCHANGED loc

DeliveredOrder(t) == Orders(job[t].w, loc[t].d, loc[t].o)

(* SELECT o_c_id FROM orders *)
DeliverySelectCustomer(t) ==
    /\ Step(t, "delivery3", "delivery4")
    /\ Select(t)
    /\ loc' = [loc EXCEPT ![t].c = View(t)[DeliveredOrder(t)].o_c_id]

(* UPDATE orders SET o_carrier_id *)
DeliveryUpdateOrder(t) ==
    LET r == DeliveredOrder(t) IN
    /\ Step(t, "delivery4", "delivery5")
    /\ Write(t, r, [cur[r] EXCEPT !.o_carrier_id = 1])
    /\ UNCHANGED loc

(* UPDATE order_line SET ol_delivery_d *)
DeliveryUpdateLines(t) ==
    LET r == OrderLine(job[t].w, loc[t].d, loc[t].o) IN
    /\ Step(t, "delivery5", "delivery6")
    /\ Write(t, r, cur[r])
    /\ UNCHANGED loc

(* SELECT SUM(ol_amount) FROM order_line *)
DeliverySumLines(t) ==
    /\ Step(t, "delivery6", "delivery7")
    /\ Select(t)
    /\ loc' = [loc EXCEPT ![t].amt =
          OrderAmount(View(t)[OrderLine(job[t].w, loc[t].d, loc[t].o)])]

(* Mutant of DeliveryUpdateCustomer: it adds to the balance it has read. *)
DeliveryUpdateCustomerAsRead(t) ==
    LET r == Customer(job[t].w, loc[t].d, loc[t].c) IN
    /\ Step(t, "delivery7", "delivery_commit")
    /\ Write(t, r, [cur[r] EXCEPT !.c_balance = View(t)[r].c_balance + loc[t].amt,
                                  !.c_delivery_cnt = @ + 1])
    /\ UNCHANGED loc

(* UPDATE customer SET c_balance = c_balance + :ol_total,                  *)
(*                     c_delivery_cnt = c_delivery_cnt + 1                 *)
DeliveryUpdateCustomer(t) ==
    LET r == Customer(job[t].w, loc[t].d, loc[t].c) IN
    /\ Step(t, "delivery7", "delivery_commit")
    /\ Write(t, r, [cur[r] EXCEPT !.c_balance = @ + loc[t].amt,
                                  !.c_delivery_cnt = @ + 1])
    /\ UNCHANGED loc

(* Mutant of DeliveryCommit: the commit is commented out as the last one is. *)
DeliveryNoCommit(t) ==
    /\ pc[t] = "delivery_commit"
    /\ UNCHANGED <<db, cur, lock, snap>>
    /\ NextDistrict(t)

(* Each district is a database transaction of its own. *)
DeliveryCommit(t) ==
    /\ pc[t] = "delivery_commit"
    /\ Commit(t)
    /\ NextDistrict(t)

Delivery(t) ==
    \/ DeliverySelectOldest(t) \/ DeliverySkipDistrict(t)
    \/ DeliveryDeleteNewOrder(t) \/ DeliverySelectCustomer(t)
    \/ DeliveryUpdateOrder(t) \/ DeliveryUpdateLines(t)
    \/ DeliverySumLines(t) \/ DeliveryUpdateCustomer(t)
    \/ DeliveryCommit(t)

----------------------------------------------------------------------------
(* ordstat(): a customer's last order. *)

(* SELECT count(c_id), then the cursor over the customers of the name; the *)
(* balance shown is the middle one's, but c_id is not changed.             *)
OrdstatSelectByName(t) ==
    /\ Step(t, "ordstat1", "ordstat7")
    /\ Select(t)
    /\ \E c \in MidpointCustomer(job[t].c_last, job[t].c) :
         loc' = [loc EXCEPT ![t].c = c]

(* SELECT c_balance, ... FROM customer by number *)
OrdstatSelectCustomer(t) ==
    /\ Step(t, "ordstat6", "ordstat7")
    /\ Select(t)
    /\ loc' = [loc EXCEPT ![t].c = job[t].c]

OrdersOf(rows, w, d, c) ==
    {o \in OrderIds : rows[Orders(w, d, o)].o_c_id = c}

(* Mutant of OrdstatSelectOrder: a dirty read. *)
OrdstatSelectOrderDirty(t) ==
    LET placed == OrdersOf(cur, job[t].w, job[t].d, job[t].c) IN
    /\ Step(t, "ordstat7", "ordstat8")
    /\ Select(t)
    /\ \E o \in placed :
         /\ \A p \in placed : p <= o
         /\ loc' = [loc EXCEPT ![t].o = o]

(* SELECT o_id FROM orders ... o_id = (SELECT MAX(o_id) ...), by c_id *)
OrdstatSelectOrder(t) ==
    LET placed == OrdersOf(View(t), job[t].w, job[t].d, job[t].c) IN
    /\ Step(t, "ordstat7", "ordstat8")
    /\ Select(t)
    /\ \E o \in placed :
         /\ \A p \in placed : p <= o
         /\ loc' = [loc EXCEPT ![t].o = o]

(* SELECT ... FROM order_line, fetched to the end. *)
OrdstatSelectLines(t) ==
    /\ Step(t, "ordstat8", "ordstat_commit")
    /\ Select(t)
    /\ loc' = [loc EXCEPT ![t].rows =
          Len(View(t)[OrderLine(job[t].w, job[t].d, loc[t].o)])]

OrdstatCommit(t) ==
    /\ pc[t] = "ordstat_commit"
    /\ Commit(t)
    /\ Return(t)

Ordstat(t) ==
    \/ OrdstatSelectByName(t) \/ OrdstatSelectCustomer(t)
    \/ OrdstatSelectOrder(t) \/ OrdstatSelectLines(t) \/ OrdstatCommit(t)

----------------------------------------------------------------------------
(* slev(): the stock level of the items of the district's last orders. *)

(* Mutant of SlevSelectDistrict: a dirty read. *)
SlevSelectDistrictDirty(t) ==
    /\ Step(t, "slev1", "slev2")
    /\ Select(t)
    /\ loc' = [loc EXCEPT ![t].o = cur[District(job[t].w, job[t].d)].d_next_o_id]

(* SELECT d_next_o_id FROM district *)
SlevSelectDistrict(t) ==
    /\ Step(t, "slev1", "slev2")
    /\ Select(t)
    /\ loc' = [loc EXCEPT ![t].o =
                 View(t)[District(job[t].w, job[t].d)].d_next_o_id]

(* SELECT DISTINCT ol_i_id FROM order_line ... ol_o_id < :d_next_o_id and  *)
(* ol_o_id >= :d_next_o_id - 20; loc.seen is the orders that had lines.    *)
SlevSelectLines(t) ==
    /\ Step(t, "slev2", "slev3")
    /\ Select(t)
    /\ loc' = [loc EXCEPT ![t].seen =
          {o \in OrderIds :
             /\ o < loc[t].o /\ o >= loc[t].o - Window
             /\ View(t)[OrderLine(job[t].w, job[t].d, o)] # <<>>}]

(* SELECT the count FROM stock, once per item, in the same snapshot. *)
SlevCountStock(t) ==
    /\ Step(t, "slev3", "slev_commit")
    /\ Select(t)
    /\ UNCHANGED loc

SlevCommit(t) ==
    /\ pc[t] = "slev_commit"
    /\ Commit(t)
    /\ Return(t)

Slev(t) ==
    \/ SlevSelectDistrict(t) \/ SlevSelectLines(t)
    \/ SlevCountStock(t) \/ SlevCommit(t)

----------------------------------------------------------------------------
Thread(t) ==
    \/ Begin(t) \/ ThreadEnd(t)
    \/ Neword(t) \/ Payment(t) \/ Delivery(t) \/ Ordstat(t) \/ Slev(t)

Finished == \A t \in Threads : pc[t] = "done"

Terminating == Finished /\ UNCHANGED vars

Next ==
    \/ \E t \in Threads : Thread(t) \/ StatementFails(t)
    \/ Terminating

Spec == Init /\ [][Next]_vars

(* The operating system runs every thread that can run, and the server     *)
(* answers every statement that does not wait; failures need not happen.   *)
FairSpec == Spec /\ \A t \in Threads : WF_vars(Thread(t))

----------------------------------------------------------------------------
(* Properties. *)

NewordLabels == {"neword1", "neword2", "neword3", "neword4", "neword5", "neword6",
                 "neword7", "neword8", "neword9", "neword_commit"}
PaymentLabels == {"payment1", "payment2", "payment3", "payment4", "payment6",
    "payment7", "payment8", "payment9", "payment10", "payment_commit"}
DeliveryLabels == {"delivery1", "delivery2", "delivery3", "delivery4", "delivery5",
    "delivery6", "delivery7", "delivery_commit"}
OrdstatLabels == {"ordstat1", "ordstat6", "ordstat7", "ordstat8", "ordstat_commit"}
SlevLabels == {"slev1", "slev2", "slev3", "slev_commit"}

StoreTypeOK ==
    /\ StoreType(db) /\ StoreType(cur)
    /\ lock \in [Rows -> Threads \cup {Null}]
    /\ DOMAIN snap = Threads
    /\ \A t \in Threads : snap[t] = Null \/ StoreType(snap[t])

(* A thread is inside the transaction function of its job. *)
JobOf(t) ==
    /\ pc[t] \in NewordLabels   => job[t] \in NewOrderJobs
    /\ pc[t] \in PaymentLabels  => job[t] \in PaymentJobs
    /\ pc[t] \in DeliveryLabels => job[t] \in DeliveryJobs
    /\ pc[t] \in OrdstatLabels  => job[t] \in OrdStatJobs
    /\ pc[t] \in SlevLabels     => job[t] \in SlevJobs
    /\ pc[t] \in {"idle", "done"} => job[t] = Null

ControlTypeOK ==
    /\ pc \in [Threads -> {"idle", "done"} \cup NewordLabels \cup PaymentLabels
                  \cup DeliveryLabels \cup OrdstatLabels \cup SlevLabels]
    /\ job \in [Threads -> AnyJob \cup {Null}]
    /\ \A t \in Threads : JobOf(t)
    /\ tries \in [Threads -> 0 .. MaxRetry - 1]
    /\ left \in [Threads -> 0 .. JobsPerThread]
    /\ faults \in 0 .. MaxFaults

(* The locals of t, and what holds of them at the labels that use them. *)
LocalsType(t) ==
    /\ DOMAIN loc[t] = DOMAIN NoLocals
    /\ loc[t].o \in Nat /\ loc[t].d \in Districts /\ loc[t].c \in Nat
    /\ loc[t].qty \in Int /\ loc[t].data \in Nat /\ loc[t].rows \in Nat
    /\ loc[t].todo \subseteq Nat /\ loc[t].line \in Nat
    /\ loc[t].seen \subseteq OrderIds
    /\ pc[t] \in {"neword6", "neword7", "neword8", "neword9"} =>
         loc[t].todo \subseteq DOMAIN job[t].lines
    /\ pc[t] \in {"neword7", "neword8", "neword9"} =>
         /\ loc[t].line \in DOMAIN job[t].lines
         /\ CurrentLine(t).ol_i_id \in Items
    /\ pc[t] \in PaymentLabels \ {"payment1", "payment2", "payment3", "payment4"} =>
         loc[t].c \in Customers
    /\ pc[t] \in (DeliveryLabels \ {"delivery1"}) \cup {"ordstat8", "ordstat_commit"} =>
         loc[t].o \in OrderIds

LocalsTypeOK ==
    /\ DOMAIN loc = Threads
    /\ \A t \in Threads : LocalsType(t)

(* The tables keep their column types, a thread runs the function of its   *)
(* job, and its loop over the order lines stays inside the order (balances *)
(* are left untyped: they are sums).                                       *)
TypeOK == StoreTypeOK /\ ControlTypeOK /\ LocalsTypeOK

(* Committed orders are numbered without gaps or duplicates, whatever      *)
(* attempts failed: d_next_o_id is read and advanced under one row lock    *)
(* (neword.c, proceed 2 to 4).                                             *)
OrdersDense == OrderNumbersDense(db)

(* The order number neword() is about to insert is always free, so the     *)
(* insert never fails on a duplicate key and costs a retry.                *)
OrderIdFresh ==
    \A t \in Threads : pc[t] = "neword4" /\ loc[t].o \in OrderIds =>
        ~OrderExists(cur, job[t].w, job[t].d, loc[t].o)

(* new_orders and o_carrier_id change together (neword.c and delivery.c). *)
UndeliveredListed == NewOrdersAreUndelivered(db)

(* No order is committed with lines missing or doubled, though a failed    *)
(* attempt or an invalid item may stop between two lines.                  *)
OrdersComplete == OrdersHaveTheirLines(db)

(* The three tables payment() adds h_amount to agree. *)
PaymentsAddUp == YtdAddsUp(db)

(* No update of s_quantity is lost and its refill never leaves the range   *)
(* the loader drew it from.                                                *)
StockConsistent == StockAddsUp(db)

(* payment() and delivery() both change c_balance, one by a computed value *)
(* and one by an increment; neither undoes the other.                      *)
NoCreditLost == CreditNotLost(db)

(* A delivery never passes over an order that waits, though its            *)
(* MIN(no_o_id) may be read from an old snapshot, and other deliveries and *)
(* new orders commit before it does (delivery.c, proceed 1 to 7).          *)
NoOrderSkipped ==
    \A t \in Threads : pc[t] \in DeliveryLabels \ {"delivery1"} =>
        \A p \in Undelivered(db, job[t].w, loc[t].d) : loc[t].o <= p

(* ordstat() sees all the lines of the order it reports. *)
OrdstatSeesWholeOrder ==
    \A t \in Threads : pc[t] = "ordstat_commit" =>
        loc[t].rows = db[Orders(job[t].w, job[t].d, loc[t].o)].o_ol_cnt

(* slev() sees lines of every one of the district's last Window orders: its *)
(* two reads agree on what has been ordered.                                *)
SlevSeesEveryOrder ==
    \A t \in Threads : pc[t] = "slev3" =>
        loc[t].seen = {o \in OrderIds : o < loc[t].o /\ o >= loc[t].o - Window}

(* Between transactions a connection holds no lock, and a row nobody holds  *)
(* is as committed: nothing of a failed attempt is left behind.             *)
NothingLeftBehind ==
    /\ \A t \in Threads : pc[t] \in {"idle", "done"} => Held(t) = {}
    /\ \A r \in Rows : lock[r] = Null => cur[r] = db[r]

(* Every thread ends: with no failures no two transactions wait for each    *)
(* other (the lines are sorted "to avoid DeadLock", neword.c:270), and with *)
(* failures the retries end.                                                *)
EveryThreadEnds == <>Finished

(* Every commit is one atomic transaction of TpccSerial on the committed    *)
(* database, and nothing else changes it.                                   *)
Serial == INSTANCE TpccSerial WITH store <- db, Jobs <- AnyJob

SerialSpec == Serial!Spec

(* "UPDATE customer SET c_balance = c_balance + :ol_total , c_delivery_cnt  *)
(* = c_delivery_cnt + 1" (delivery.c:203): the delivery of an order credits *)
(* its customer and counts, once an order.                                  *)
DeliveredOnce == CreditExact(db)

(* "EXEC_SQL COMMIT WORK" (delivery.c:227): a delivery returns with its     *)
(* transaction ended, so the next one does not read its old snapshot.       *)
NoSnapshotBetweenTransactions ==
    \A t \in Threads : pc[t] \in {"idle", "done"} => snap[t] = Null
=============================================================================
