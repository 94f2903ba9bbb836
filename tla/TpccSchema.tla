----------------------------- MODULE TpccSchema -----------------------------
(***************************************************************************)
(* The tables of the tpcc-mysql database, the state tpcc_load leaves them  *)
(* in, and the jobs the worker threads run against them.                   *)
(*                                                                         *)
(* A row is named by its primary key, <<table, w_id, d_id, key>>, with 0   *)
(* for a column the table does not have.  Two tables are coarser than in   *)
(* the code: the lines of one order are one row (their sequence), and the  *)
(* history of one customer is one row (the sequence of its payments).      *)
(* Prices are 1, taxes and discounts 0, so the amount of a line is its     *)
(* quantity.                                                               *)
(***************************************************************************)
EXTENDS Integers, Sequences, FiniteSets, Functions

CONSTANTS
    NumWare,        \* num_ware, the warehouses
    DistPerWare,    \* DIST_PER_WARE
    CustPerDist,    \* CUST_PER_DIST, also ORD_PER_DIST: one loaded order each
    MaxItems,       \* MAXITEMS
    MaxOrderId,     \* bound: ids above it find the orders table full
    DeliveredInit,  \* loaded orders up to this id have been delivered (2100)
    InitStock,      \* loaded s_quantity
    Names,          \* the last names Lastname() can produce
    LastName,       \* c_last of each customer number
    BadCredit       \* the customer numbers whose c_credit is "BC"

ASSUME SchemaAssumption ==
    /\ NumWare \in Nat \ {0}
    /\ DistPerWare \in Nat \ {0}
    /\ CustPerDist \in Nat \ {0}
    /\ MaxItems \in Nat \ {0}
    /\ MaxOrderId \in Nat
    /\ CustPerDist <= MaxOrderId
    /\ DeliveredInit \in 0 .. CustPerDist
    /\ InitStock \in 10 .. 100
    /\ LastName \in [1 .. CustPerDist -> Names]
    /\ BadCredit \subseteq 1 .. CustPerDist

Warehouses == 1 .. NumWare
Districts  == 1 .. DistPerWare
Customers  == 1 .. CustPerDist
Items      == 1 .. MaxItems
OrderIds   == 1 .. MaxOrderId

----------------------------------------------------------------------------
(* Row names. *)

Warehouse(w)      == <<"warehouse", w, 0, 0>>
District(w, d)    == <<"district", w, d, 0>>
Customer(w, d, c) == <<"customer", w, d, c>>
History(w, d, c)  == <<"history", w, d, c>>
Orders(w, d, o)   == <<"orders", w, d, o>>
NewOrders(w, d, o) == <<"new_orders", w, d, o>>
OrderLine(w, d, o) == <<"order_line", w, d, o>>
Stock(w, i)       == <<"stock", w, 0, i>>

Rows ==
    ({"warehouse"} \X Warehouses \X {0} \X {0})
    \cup ({"district"} \X Warehouses \X Districts \X {0})
    \cup ({"customer", "history"} \X Warehouses \X Districts \X Customers)
    \cup ({"orders", "new_orders", "order_line"}
             \X Warehouses \X Districts \X OrderIds)
    \cup ({"stock"} \X Warehouses \X {0} \X Items)

(* An order row nobody has inserted; customer numbers start at 1. *)
NoOrder == [o_c_id |-> 0, o_carrier_id |-> 0, o_ol_cnt |-> 0]

(* A line of a new order; ol_i_id above MaxItems is the deliberate error.  *)
Line == [ol_i_id : Items \cup {MaxItems + 1}, ol_supply_w_id : Warehouses,
         ol_quantity : 1 .. 10]

(* What tpcc_load inserts.  The history of a customer is counted from the  *)
(* load on, like the sums of payments below.                               *)
LoadedWarehouse == [w_ytd |-> 3000000]

LoadedDistrict == [d_next_o_id |-> CustPerDist + 1, d_ytd |-> 30000]

LoadedCustomer == [c_balance |-> -10, c_delivery_cnt |-> 0, c_data |-> 0]

(* Order o of a district is by the o-th customer of a permutation, here    *)
(* the rotation, one of those the loader draws; o_carrier_id 0 stands for  *)
(* NULL.                                                                   *)
LoadedOrder(o) ==
    IF o > CustPerDist THEN NoOrder
    ELSE [o_c_id |-> (o % CustPerDist) + 1,
          o_carrier_id |-> IF o <= DeliveredInit THEN 1 ELSE 0,
          o_ol_cnt |-> 1]

(* One line each, of amount 0.0: so are the undelivered orders' lines,     *)
(* whose amounts are the only ones ever summed.                            *)
LoadedLines(w, o) ==
    IF o > CustPerDist THEN <<>>
    ELSE <<[ol_i_id |-> 1, ol_supply_w_id |-> w, ol_quantity |-> 0]>>

(* The database as tpcc_load commits it. *)
LoadedRow(r) ==
    CASE r[1] = "warehouse"  -> LoadedWarehouse
      [] r[1] = "district"   -> LoadedDistrict
      [] r[1] = "customer"   -> LoadedCustomer
      [] r[1] = "history"    -> <<>>
      [] r[1] = "orders"     -> LoadedOrder(r[4])
      [] r[1] = "new_orders" -> r[4] \in DeliveredInit + 1 .. CustPerDist
      [] r[1] = "order_line" -> LoadedLines(r[2], r[4])
      [] r[1] = "stock"      -> InitStock

LoadedDb == [r \in Rows |-> LoadedRow(r)]

(* The columns of each table.  c_balance, a sum, is not typed.             *)
RowType(r, v) ==
    /\ r[1] = "warehouse"  => v \in [w_ytd : Int]
    /\ r[1] = "district"   => v \in [d_next_o_id : Nat, d_ytd : Int]
    /\ r[1] = "customer"   =>
         /\ DOMAIN v = {"c_balance", "c_delivery_cnt", "c_data"}
         /\ v.c_delivery_cnt \in Nat /\ v.c_data \in Nat
    /\ r[1] = "history"    => v \in Seq([h_w_id : Warehouses, h_d_id : Districts,
                                         h_amount : Int])
    /\ r[1] = "orders"     => v \in [o_c_id : Nat, o_carrier_id : Nat, o_ol_cnt : Nat]
    /\ r[1] = "new_orders" => v \in BOOLEAN
    /\ r[1] = "order_line" => v \in Seq([ol_i_id : Nat, ol_supply_w_id : Nat,
                                         ol_quantity : Nat])
    /\ r[1] = "stock"      => v \in Int

StoreType(s) ==
    /\ DOMAIN s = Rows
    /\ \A r \in Rows : RowType(r, s[r])

----------------------------------------------------------------------------
(* What do_neword, do_payment, do_ordstat, do_delivery and do_slev pass to *)
(* the transaction they run.                                               *)

(* What a payment may be. *)
Amounts == 1 .. 5000

NewOrderJobs == [kind : {"neword"}, w : Warehouses, d : Districts,
                 c : Customers, lines : Seq(Line)]
PaymentJobs  == [kind : {"payment"}, w : Warehouses, d : Districts,
                 c_w : Warehouses, c_d : Districts, c : Customers,
                 byname : BOOLEAN, c_last : Names, h_amount : Amounts]
OrdStatJobs  == [kind : {"ordstat"}, w : Warehouses, d : Districts,
                 c : Customers, byname : BOOLEAN, c_last : Names]
DeliveryJobs == [kind : {"delivery"}, w : Warehouses]
SlevJobs     == [kind : {"slev"}, w : Warehouses, d : Districts]

AllJobs == NewOrderJobs \cup PaymentJobs \cup OrdStatJobs
             \cup DeliveryJobs \cup SlevJobs

(* The customer in the middle of those called name, ordered by first name  *)
(* (here by number): the ceil(n/2)-th of n; c itself when there is none.   *)
(* One customer, as a set.                                                 *)
MidpointCustomer(name, c) ==
    LET same == {x \in Customers : LastName[x] = name}
        below(x) == {y \in same : y <= x}
    IN  IF same = {} THEN {c}
        ELSE {x \in same :
               Cardinality(below(x)) = (Cardinality(same) + 1) \div 2}

(* New orders visit the stock rows of their lines in ascending order of    *)
(* (MAXITEMS + 1) * supware + itemid.                                      *)
StockKey(l) == (MaxItems + 1) * l.ol_supply_w_id + l.ol_i_id

(* s_quantity after an order for qty of the item. *)
Restock(s_quantity, qty) ==
    IF s_quantity > qty THEN s_quantity - qty ELSE s_quantity - qty + 91

(* SUM(ol_amount) over the lines of an order. *)
OrderAmount(lines) ==
    FoldFunction(LAMBDA l, sum : l.ol_quantity + sum, 0, lines)

----------------------------------------------------------------------------
(* What a consistent database satisfies; s maps the rows to their values. *)

OrderExists(s, w, d, o) == s[Orders(w, d, o)].o_c_id # 0

(* The orders of a district are numbered 1 .. d_next_o_id - 1. *)
OrderNumbersDense(s) ==
    \A w \in Warehouses, d \in Districts, o \in OrderIds :
        OrderExists(s, w, d, o) <=> o < s[District(w, d)].d_next_o_id

(* An order waits in new_orders exactly while it has no carrier. *)
NewOrdersAreUndelivered(s) ==
    \A w \in Warehouses, d \in Districts, o \in OrderIds :
        s[NewOrders(w, d, o)] <=>
            /\ OrderExists(s, w, d, o)
            /\ s[Orders(w, d, o)].o_carrier_id = 0

(* Every order has the o_ol_cnt lines it announces, the others have none. *)
OrdersHaveTheirLines(s) ==
    \A w \in Warehouses, d \in Districts, o \in OrderIds :
        Len(s[OrderLine(w, d, o)]) = s[Orders(w, d, o)].o_ol_cnt

SumOver(S, f(_)) == SumFunction([x \in S |-> f(x)])

CustomerKeys == Warehouses \X Districts \X Customers
OrderKeys    == Warehouses \X Districts \X OrderIds

(* The h_amount of the history rows that satisfy P. *)
Paid(s, P(_)) ==
    SumOver(CustomerKeys, LAMBDA k :
        LET h == s[History(k[1], k[2], k[3])]
        IN  SumOver({i \in DOMAIN h : P(h[i])}, LAMBDA i : h[i].h_amount))

(* The year-to-date totals of warehouses and districts add up to what was  *)
(* paid since the load.                                                    *)
YtdAddsUp(s) ==
    \A w \in Warehouses :
        /\ s[Warehouse(w)].w_ytd - 3000000 = Paid(s, LAMBDA h : h.h_w_id = w)
        /\ \A d \in Districts :
             s[District(w, d)].d_ytd - 30000 =
                 Paid(s, LAMBDA h : h.h_w_id = w /\ h.h_d_id = d)

(* What the stock lost since the load is what was ordered of it, give or   *)
(* take refills of 91; and it never runs out.                              *)
Ordered(s, w, i) ==
    SumOver(OrderKeys, LAMBDA k :
        LET l == s[OrderLine(k[1], k[2], k[3])]
        IN  SumOver({n \in DOMAIN l : l[n].ol_i_id = i /\ l[n].ol_supply_w_id = w},
                    LAMBDA n : l[n].ol_quantity))

StockAddsUp(s) ==
    \A w \in Warehouses, i \in Items :
        /\ s[Stock(w, i)] \in 1 .. 100
        /\ (InitStock - Ordered(s, w, i) - s[Stock(w, i)]) % 91 = 0

(* What customer c has been credited for: the amounts of its delivered     *)
(* orders and (the sign the code uses) its payments.                       *)
DeliveredTo(s, w, d, c) ==
    {o \in OrderIds : /\ s[Orders(w, d, o)].o_c_id = c
                      /\ s[Orders(w, d, o)].o_carrier_id # 0
                      /\ o > DeliveredInit}

DueCredit(s, w, d, c) ==
    LET h == s[History(w, d, c)]
    IN  SumOver(DOMAIN h, LAMBDA i : h[i].h_amount)
        + SumOver(DeliveredTo(s, w, d, c),
                  LAMBDA o : OrderAmount(s[OrderLine(w, d, o)]))

(* No credit is lost ... *)
CreditNotLost(s) ==
    \A w \in Warehouses, d \in Districts, c \in Customers :
        LET cust == s[Customer(w, d, c)] IN
        /\ cust.c_balance + 10 >= DueCredit(s, w, d, c)
        /\ cust.c_delivery_cnt >= Cardinality(DeliveredTo(s, w, d, c))

(* ... and none is given twice. *)
CreditExact(s) ==
    \A w \in Warehouses, d \in Districts, c \in Customers :
        LET cust == s[Customer(w, d, c)] IN
        /\ cust.c_balance + 10 = DueCredit(s, w, d, c)
        /\ cust.c_delivery_cnt = Cardinality(DeliveredTo(s, w, d, c))
=============================================================================
