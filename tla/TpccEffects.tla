----------------------------- MODULE TpccEffects -----------------------------
(***************************************************************************)
(* What each tpcc transaction makes of the committed rows s when it        *)
(* commits, and what a consistent database is: functions of s alone, used  *)
(* by TpccSerial and by the invariant of the interleaved transactions.     *)
(***************************************************************************)
EXTENDS TpccSchema

(* The lines of an order as they are processed: ascending by StockKey.     *)
Processed(lines) ==
    {[n \in DOMAIN lines |-> lines[f[n]]] :
        f \in {g \in Bijection(DOMAIN lines, DOMAIN lines) :
               \A i, k \in DOMAIN lines :
                  i < k => StockKey(lines[g[i]]) <= StockKey(lines[g[k]])}}

(* What the lines leave of the s_quantity of item i of warehouse w. *)
QuantityAfter(s_quantity, lines, w, i) ==
    LET left[n \in 0 .. Len(lines)] ==
            IF n = 0 THEN s_quantity
            ELSE IF lines[n].ol_i_id = i /\ lines[n].ol_supply_w_id = w
                 THEN Restock(left[n - 1], lines[n].ol_quantity)
                 ELSE left[n - 1]
    IN  left[Len(lines)]

(* The new order j, its lines processed in the order given. *)
Ordering(s, j, lines) ==
    LET o == s[District(j.w, j.d)].d_next_o_id IN
    [r \in Rows |->
        CASE r = District(j.w, j.d) -> [s[r] EXCEPT !.d_next_o_id = o + 1]
          [] r = Orders(j.w, j.d, o) ->
               [o_c_id |-> j.c, o_carrier_id |-> 0, o_ol_cnt |-> Len(lines)]
          [] r = NewOrders(j.w, j.d, o) -> TRUE
          [] r = OrderLine(j.w, j.d, o) -> lines
          [] r[1] = "stock" -> QuantityAfter(s[r], lines, r[2], r[4])
          [] OTHER -> s[r]]

(* The payment j by customer c. *)
Paying(s, j, c) ==
    [s EXCEPT
        ![Warehouse(j.w)].w_ytd = @ + j.h_amount,
        ![District(j.w, j.d)].d_ytd = @ + j.h_amount,
        ![Customer(j.c_w, j.c_d, c)].c_balance = @ + j.h_amount,
        ![History(j.c_w, j.c_d, c)] =
          Append(@, [h_w_id |-> j.w, h_d_id |-> j.d, h_amount |-> j.h_amount])]

(* The delivery of order o. *)
Delivering(s, w, d, o) ==
    LET c == s[Orders(w, d, o)].o_c_id IN
    [s EXCEPT
        ![NewOrders(w, d, o)] = FALSE,
        ![Orders(w, d, o)].o_carrier_id = 1,
        ![Customer(w, d, c)].c_balance = @ + OrderAmount(s[OrderLine(w, d, o)]),
        ![Customer(w, d, c)].c_delivery_cnt = @ + 1]

----------------------------------------------------------------------------
(* Orders are by customers of their district and have lines, and no        *)
(* transaction records anything in c_data.                                 *)
RowsSound(s) ==
    \A w \in Warehouses, d \in Districts :
        /\ \A c \in Customers : /\ s[Customer(w, d, c)].c_balance \in Int
                                /\ s[Customer(w, d, c)].c_data = 0
        /\ \A o \in OrderIds :
             /\ OrderExists(s, w, d, o) <=> s[Orders(w, d, o)].o_ol_cnt # 0
             /\ OrderExists(s, w, d, o) => s[Orders(w, d, o)].o_c_id \in Customers

(* The four tables an order is spread over agree. *)
OrdersConsistent(s) ==
    /\ OrderNumbersDense(s)
    /\ NewOrdersAreUndelivered(s)
    /\ OrdersHaveTheirLines(s)

(* The totals agree with what they are totals of. *)
TotalsConsistent(s) == YtdAddsUp(s) /\ StockAddsUp(s) /\ CreditNotLost(s)

ConsistentDb(s) ==
    StoreType(s) /\ RowsSound(s) /\ OrdersConsistent(s) /\ TotalsConsistent(s)

(* s is the database at an earlier time than r: every order of s is in r,  *)
(* by the same customer and with the same lines, and waits for delivery no  *)
(* longer if it did not.                                                   *)
Earlier(s, r) ==
    \A w \in Warehouses, d \in Districts, o \in OrderIds : OrderExists(s, w, d, o) =>
        /\ r[Orders(w, d, o)].o_c_id = s[Orders(w, d, o)].o_c_id
        /\ r[Orders(w, d, o)].o_ol_cnt = s[Orders(w, d, o)].o_ol_cnt
        /\ r[OrderLine(w, d, o)] = s[OrderLine(w, d, o)]
        /\ r[NewOrders(w, d, o)] => s[NewOrders(w, d, o)]
=============================================================================
