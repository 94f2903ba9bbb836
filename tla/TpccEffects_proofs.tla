-------------------------- MODULE TpccEffects_proofs --------------------------
(***************************************************************************)
(* The effect of every tpcc transaction on a consistent database is a      *)
(* consistent database, for any number of warehouses, districts,           *)
(* customers, items and order lines.                                       *)
(***************************************************************************)
EXTENDS TpccEffects, SumLemmas

----------------------------------------------------------------------------
(* What the lines of an order leave of the stock.                         *)

(* A non-empty set of natural numbers has a least element. *)
LEMMA LeastNat ==
    ASSUME NEW C, C \subseteq Nat, C # {}
    PROVE  \E m \in C : \A k \in C : m <= k
  <1>1. PICK m \in C : \A k \in C : ~ (<<k, m>> \in OpToRel(<, Nat))
    BY NatLessThanWellFounded, WFMin
  <1>2. \A k \in C : ~ (k < m)
    BY <1>1 DEF OpToRel
  <1> QED BY <1>2

(* g is the quantity left after each of the first n lines. *)
Leaves(g, q, lines, w, i, n) ==
    g = [m \in 0 .. n |->
            IF m = 0 THEN q
            ELSE IF lines[m].ol_i_id = i /\ lines[m].ol_supply_w_id = w
                 THEN Restock(g[m - 1], lines[m].ol_quantity)
                 ELSE g[m - 1]]

(* The recursion of QuantityAfter has a solution of any length.           *)
LEMMA LeavesExists ==
    ASSUME NEW q, NEW lines, NEW w, NEW i, NEW n \in Nat
    PROVE  \E g : Leaves(g, q, lines, w, i, n)
  <1> DEFINE C == {m \in Nat : ~ \E g : Leaves(g, q, lines, w, i, m)}
  <1> SUFFICES ASSUME C # {} PROVE FALSE
    OBVIOUS
  <1>1. PICK m \in C : \A k \in C : m <= k
    <2>1. C \subseteq Nat
      OBVIOUS
    <2> HIDE DEF C
    <2> QED BY <2>1, LeastNat
  <1>2. CASE m = 0
    <2> DEFINE h == [k \in 0 .. 0 |-> q]
    <2>1. Leaves(h, q, lines, w, i, 0)
      BY DEF Leaves
    <2> QED BY <1>1, <1>2, <2>1
  <1>3. CASE m # 0
    <2>1. m - 1 \in Nat /\ m - 1 \notin C
      BY <1>1, <1>3
    <2>2. PICK g : Leaves(g, q, lines, w, i, m - 1)
      BY <2>1
    <2> DEFINE v == IF lines[m].ol_i_id = i /\ lines[m].ol_supply_w_id = w
                    THEN Restock(g[m - 1], lines[m].ol_quantity) ELSE g[m - 1]
               h == [k \in 0 .. m |-> IF k = m THEN v ELSE g[k]]
               e(f, k) == IF k = 0 THEN q
                          ELSE IF lines[k].ol_i_id = i /\ lines[k].ol_supply_w_id = w
                               THEN Restock(f[k - 1], lines[k].ol_quantity)
                               ELSE f[k - 1]
    <2>3. ASSUME NEW k \in 0 .. m PROVE h[k] = e(h, k)
      <3>1. CASE k = m
        <4>1. h[m - 1] = g[m - 1]
          BY <2>1
        <4> QED BY <1>3, <3>1, <4>1
      <3>2. CASE k # m
        <4>1. k \in 0 .. m - 1
          BY <2>1, <3>2
        <4>2. g[k] = e(g, k)
          BY <2>2, <4>1 DEF Leaves
        <4>3. k # 0 => h[k - 1] = g[k - 1]
          BY <2>1, <4>1
        <4> QED BY <3>2, <4>2, <4>3
      <3> QED BY <3>1, <3>2
    <2>4. Leaves(h, q, lines, w, i, m)
      <3>1. h = [k \in 0 .. m |-> h[k]]
        OBVIOUS
      <3> HIDE DEF h
      <3> QED BY <2>3, <3>1 DEF Leaves
    <2> QED BY <1>1, <2>4
  <1> QED BY <1>2, <1>3

(* Two solutions agree as far as the lines do.                            *)
LEMMA LeavesUnique ==
    ASSUME NEW q, NEW a, NEW b, NEW w, NEW i, NEW n \in Nat, NEW m \in Nat, n <= m,
           \A k \in 1 .. n : a[k] = b[k],
           NEW g, NEW h, Leaves(g, q, a, w, i, n), Leaves(h, q, b, w, i, m)
    PROVE  g[n] = h[n]
  <1> DEFINE C == {k \in 0 .. n : g[k] # h[k]}
  <1> SUFFICES ASSUME C # {} PROVE FALSE
    OBVIOUS
  <1>1. PICK k \in C : \A l \in C : k <= l
    <2>1. C \subseteq Nat
      OBVIOUS
    <2> HIDE DEF C
    <2> QED BY <2>1, LeastNat
  <1>2. k \in 0 .. n /\ k \in 0 .. m /\ g[k] # h[k]
    BY <1>1
  <1>3. g[0] = q /\ h[0] = q
    BY DEF Leaves
  <1>4. k # 0 /\ k - 1 \in 0 .. n /\ a[k] = b[k]
    BY <1>2, <1>3
  <1>5. g[k - 1] = h[k - 1]
    BY <1>1, <1>4
  <1>6. g[k] = IF a[k].ol_i_id = i /\ a[k].ol_supply_w_id = w
               THEN Restock(g[k - 1], a[k].ol_quantity) ELSE g[k - 1]
    BY <1>2, <1>4 DEF Leaves
  <1>7. h[k] = IF b[k].ol_i_id = i /\ b[k].ol_supply_w_id = w
               THEN Restock(h[k - 1], b[k].ol_quantity) ELSE h[k - 1]
    BY <1>2, <1>4 DEF Leaves
  <1> QED BY <1>2, <1>4, <1>5, <1>6, <1>7

(* QuantityAfter is the last value of a solution.                         *)
LEMMA QuantityIs ==
    ASSUME NEW q, NEW lines, NEW w, NEW i, Len(lines) \in Nat
    PROVE  \E g : /\ Leaves(g, q, lines, w, i, Len(lines))
                  /\ QuantityAfter(q, lines, w, i) = g[Len(lines)]
  <1> DEFINE g == CHOOSE g : Leaves(g, q, lines, w, i, Len(lines))
  <1>1. Leaves(g, q, lines, w, i, Len(lines))
    BY LeavesExists
  <1>2. QuantityAfter(q, lines, w, i) = g[Len(lines)]
    BY DEF QuantityAfter, Leaves
  <1> QED BY <1>1, <1>2

(* No lines leave the stock as it is.                                     *)
LEMMA QuantityAfterNothing ==
    ASSUME NEW q, NEW w, NEW i
    PROVE  QuantityAfter(q, <<>>, w, i) = q
  <1>1. Len(<<>>) = 0
    OBVIOUS
  <1>2. PICK g : /\ Leaves(g, q, <<>>, w, i, 0)
                 /\ QuantityAfter(q, <<>>, w, i) = g[0]
    BY <1>1, QuantityIs
  <1> QED BY <1>2 DEF Leaves

(* One line more takes its quantity from its own item only. *)
LEMMA QuantityAfterLine ==
    ASSUME NEW q, NEW w, NEW i, NEW T, NEW lines \in Seq(T), NEW l \in T
    PROVE  QuantityAfter(q, Append(lines, l), w, i) =
             IF l.ol_i_id = i /\ l.ol_supply_w_id = w
             THEN Restock(QuantityAfter(q, lines, w, i), l.ol_quantity)
             ELSE QuantityAfter(q, lines, w, i)
  <1> DEFINE n == Len(lines)
             more == Append(lines, l)
  <1>1. /\ n \in Nat /\ Len(more) = n + 1 /\ more[n + 1] = l
        /\ \A k \in 1 .. n : more[k] = lines[k]
    OBVIOUS
  <1> HIDE DEF more, n
  <1>2. PICK g : Leaves(g, q, lines, w, i, n) /\ QuantityAfter(q, lines, w, i) = g[n]
    BY <1>1, QuantityIs DEF n
  <1>3. PICK h : Leaves(h, q, more, w, i, n + 1) /\ QuantityAfter(q, more, w, i) = h[n + 1]
    <2>1. Len(more) \in Nat
      BY <1>1
    <2>2. PICK h : /\ Leaves(h, q, more, w, i, Len(more))
                   /\ QuantityAfter(q, more, w, i) = h[Len(more)]
      BY <2>1, QuantityIs
    <2> QED BY <1>1, <2>2
  <1>4. g[n] = h[n]
    BY <1>1, <1>2, <1>3, LeavesUnique
  <1>5. h[n + 1] = IF more[n + 1].ol_i_id = i /\ more[n + 1].ol_supply_w_id = w
                   THEN Restock(h[n], more[n + 1].ol_quantity) ELSE h[n]
    BY <1>1, <1>3 DEF Leaves
  <1> QED BY <1>1, <1>2, <1>3, <1>4, <1>5 DEF more

----------------------------------------------------------------------------
(* Row names, what their rows hold, and what each effect changes of them. *)

(* The names of rows that exist. *)
LEMMA RowNames ==
    ASSUME NEW w \in Warehouses
    PROVE  /\ Warehouse(w) \in Rows
           /\ \A d \in Districts : District(w, d) \in Rows
           /\ \A d \in Districts, c \in Customers :
                Customer(w, d, c) \in Rows /\ History(w, d, c) \in Rows
           /\ \A d \in Districts, o \in OrderIds :
                /\ Orders(w, d, o) \in Rows /\ NewOrders(w, d, o) \in Rows
                /\ OrderLine(w, d, o) \in Rows
           /\ \A i \in Items : Stock(w, i) \in Rows
  BY DEF Rows, Warehouse, District, Customer, History, Orders, NewOrders,
       OrderLine, Stock

(* The columns of the rows of each table. *)
LEMMA RowTypes ==
    ASSUME NEW w, NEW d, NEW k, NEW v
    PROVE  /\ RowType(Warehouse(w), v) <=> v \in [w_ytd : Int]
           /\ RowType(District(w, d), v) <=> v \in [d_next_o_id : Nat, d_ytd : Int]
           /\ RowType(Customer(w, d, k), v) <=>
                /\ DOMAIN v = {"c_balance", "c_delivery_cnt", "c_data"}
                /\ v.c_delivery_cnt \in Nat /\ v.c_data \in Nat
           /\ RowType(History(w, d, k), v) <=>
                v \in Seq([h_w_id : Warehouses, h_d_id : Districts, h_amount : Int])
           /\ RowType(Orders(w, d, k), v) <=>
                v \in [o_c_id : Nat, o_carrier_id : Nat, o_ol_cnt : Nat]
           /\ RowType(NewOrders(w, d, k), v) <=> v \in BOOLEAN
           /\ RowType(OrderLine(w, d, k), v) <=>
                v \in Seq([ol_i_id : Nat, ol_supply_w_id : Nat, ol_quantity : Nat])
           /\ RowType(Stock(w, k), v) <=> v \in Int
  BY DEF RowType, Warehouse, District, Customer, History, Orders, NewOrders,
       OrderLine, Stock

(* What a well-typed store holds. *)
LEMMA StoredRows ==
    ASSUME NEW s, StoreType(s), NEW w \in Warehouses
    PROVE  /\ s[Warehouse(w)] \in [w_ytd : Int]
           /\ \A d \in Districts :
                s[District(w, d)] \in [d_next_o_id : Nat, d_ytd : Int]
           /\ \A d \in Districts, c \in Customers :
                /\ DOMAIN s[Customer(w, d, c)] = {"c_balance", "c_delivery_cnt", "c_data"}
                /\ s[Customer(w, d, c)].c_delivery_cnt \in Nat
                /\ s[Customer(w, d, c)].c_data \in Nat
                /\ s[History(w, d, c)] \in
                     Seq([h_w_id : Warehouses, h_d_id : Districts, h_amount : Int])
           /\ \A d \in Districts, o \in OrderIds :
                /\ s[Orders(w, d, o)] \in [o_c_id : Nat, o_carrier_id : Nat, o_ol_cnt : Nat]
                /\ s[NewOrders(w, d, o)] \in BOOLEAN
                /\ s[OrderLine(w, d, o)] \in
                     Seq([ol_i_id : Nat, ol_supply_w_id : Nat, ol_quantity : Nat])
           /\ \A i \in Items : s[Stock(w, i)] \in Int
  <1>1. \A r \in Rows : RowType(r, s[r])
    BY DEF StoreType
  <1>2. s[Warehouse(w)] \in [w_ytd : Int]
    BY <1>1, RowNames, RowTypes
  <1>3. ASSUME NEW d \in Districts
        PROVE  s[District(w, d)] \in [d_next_o_id : Nat, d_ytd : Int]
    BY <1>1, RowNames, RowTypes
  <1>4. ASSUME NEW d \in Districts, NEW c \in Customers
        PROVE  /\ DOMAIN s[Customer(w, d, c)] = {"c_balance", "c_delivery_cnt", "c_data"}
               /\ s[Customer(w, d, c)].c_delivery_cnt \in Nat
               /\ s[Customer(w, d, c)].c_data \in Nat
               /\ s[History(w, d, c)] \in
                    Seq([h_w_id : Warehouses, h_d_id : Districts, h_amount : Int])
    BY <1>1, RowNames, RowTypes
  <1>5. ASSUME NEW d \in Districts, NEW o \in OrderIds
        PROVE  /\ s[Orders(w, d, o)] \in [o_c_id : Nat, o_carrier_id : Nat, o_ol_cnt : Nat]
               /\ s[NewOrders(w, d, o)] \in BOOLEAN
               /\ s[OrderLine(w, d, o)] \in
                    Seq([ol_i_id : Nat, ol_supply_w_id : Nat, ol_quantity : Nat])
    BY <1>1, RowNames, RowTypes
  <1>6. ASSUME NEW i \in Items PROVE s[Stock(w, i)] \in Int
    BY <1>1, RowNames, RowTypes
  <1> QED BY <1>2, <1>3, <1>4, <1>5, <1>6

(* The loaded rows have the columns of their tables. *)
LEMMA LoadedTyped == StoreType(LoadedDb)
  <1> SUFFICES ASSUME NEW r \in Rows PROVE RowType(r, LoadedRow(r))
    BY DEF StoreType, LoadedDb
  <1>1. CASE r[1] = "warehouse"
    BY <1>1 DEF RowType, LoadedRow, LoadedWarehouse
  <1>2. CASE r[1] = "district"
    BY <1>2, SchemaAssumption DEF RowType, LoadedRow, LoadedDistrict
  <1>3. CASE r[1] = "customer"
    BY <1>3 DEF RowType, LoadedRow, LoadedCustomer
  <1>4. CASE r[1] = "history"
    BY <1>4 DEF RowType, LoadedRow
  <1>5. CASE r[1] = "orders"
    <2>1. r[4] \in Nat
      BY <1>5 DEF Rows, OrderIds
    <2>2. (r[4] % CustPerDist) + 1 \in Nat
      BY <2>1, SchemaAssumption
    <2>3. LoadedOrder(r[4]) \in [o_c_id : Nat, o_carrier_id : Nat, o_ol_cnt : Nat]
      BY <2>2 DEF LoadedOrder, NoOrder
    <2> QED BY <1>5, <2>3 DEF RowType, LoadedRow
  <1>6. CASE r[1] = "new_orders"
    BY <1>6 DEF RowType, LoadedRow
  <1>7. CASE r[1] = "order_line"
    <2>1. r[2] \in Nat
      BY <1>7 DEF Rows, Warehouses
    <2> DEFINE L == [ol_i_id : Nat, ol_supply_w_id : Nat, ol_quantity : Nat]
               e == [ol_i_id |-> 1, ol_supply_w_id |-> r[2], ol_quantity |-> 0]
    <2>2. e \in L
      BY <2>1
    <2>3. LoadedLines(r[2], r[4]) \in {<<>>, <<e>>}
      BY DEF LoadedLines
    <2> HIDE DEF e, L
    <2>4. LoadedLines(r[2], r[4]) \in Seq(L)
      <3>1. <<>> \in Seq(L) /\ <<e>> \in Seq(L)
        BY <2>2
      <3> QED BY <2>3, <3>1
    <2>5. RowType(r, LoadedLines(r[2], r[4]))
      BY <1>7, <2>4 DEF RowType, L
    <2> QED BY <1>7, <2>5 DEF LoadedRow
  <1>8. CASE r[1] = "stock"
    <2>1. InitStock \in Int
      BY SchemaAssumption
    <2> QED BY <1>8, <2>1 DEF RowType, LoadedRow
  <1> QED
    BY <1>1, <1>2, <1>3, <1>4, <1>5, <1>6, <1>7, <1>8 DEF Rows


PaymentRows == [h_w_id : Warehouses, h_d_id : Districts, h_amount : Int]
LinesType == Seq([ol_i_id : Nat, ol_supply_w_id : Nat, ol_quantity : Nat])

(* What the sequence-valued rows of a well-typed store hold.              *)
LEMMA StoredSequences ==
    ASSUME NEW s, StoreType(s), NEW w \in Warehouses, NEW d \in Districts
    PROVE  /\ \A c \in Customers : s[History(w, d, c)] \in Seq(PaymentRows)
           /\ \A o \in OrderIds : s[OrderLine(w, d, o)] \in LinesType
  <1>1. ASSUME NEW c \in Customers PROVE s[History(w, d, c)] \in Seq(PaymentRows)
    BY StoredRows DEF PaymentRows
  <1>2. ASSUME NEW o \in OrderIds PROVE s[OrderLine(w, d, o)] \in LinesType
    BY StoredRows DEF LinesType
  <1> QED BY <1>1, <1>2

----------------------------------------------------------------------------
(* What each transaction changes, table by table. *)

(* R is s with the order j placed under the number o. *)
AsOrdered(R, s, j, lines, o) ==
    /\ \A w \in Warehouses : R[Warehouse(w)] = s[Warehouse(w)]
    /\ \A w \in Warehouses, i \in Items :
         R[Stock(w, i)] = QuantityAfter(s[Stock(w, i)], lines, w, i)
    /\ \A w \in Warehouses, d \in Districts :
         /\ R[District(w, d)] \in [d_next_o_id : Nat, d_ytd : Int]
         /\ R[District(w, d)].d_ytd = s[District(w, d)].d_ytd
         /\ R[District(w, d)].d_next_o_id =
              IF w = j.w /\ d = j.d THEN o + 1 ELSE s[District(w, d)].d_next_o_id
    /\ \A w \in Warehouses, d \in Districts, c \in Customers :
         /\ R[Customer(w, d, c)] = s[Customer(w, d, c)]
         /\ R[History(w, d, c)] = s[History(w, d, c)]
    /\ R[Orders(j.w, j.d, o)] =
         [o_c_id |-> j.c, o_carrier_id |-> 0, o_ol_cnt |-> Len(lines)]
    /\ R[NewOrders(j.w, j.d, o)] = TRUE
    /\ R[OrderLine(j.w, j.d, o)] = lines
    /\ \A w \in Warehouses, d \in Districts, p \in OrderIds :
         ~ (w = j.w /\ d = j.d /\ p = o) =>
         /\ R[Orders(w, d, p)] = s[Orders(w, d, p)]
         /\ R[NewOrders(w, d, p)] = s[NewOrders(w, d, p)]
         /\ R[OrderLine(w, d, p)] = s[OrderLine(w, d, p)]

(* Ordering changes the rows of its order, its district and the stock.    *)
LEMMA OrderingRows ==
    ASSUME NEW s, StoreType(s), NEW j \in NewOrderJobs, NEW lines,
           NEW o \in OrderIds, o = s[District(j.w, j.d)].d_next_o_id
    PROVE  AsOrdered(Ordering(s, j, lines), s, j, lines, o)
  <1> DEFINE R == Ordering(s, j, lines)
             D == District(j.w, j.d)
             O == Orders(j.w, j.d, o)
             N == NewOrders(j.w, j.d, o)
             L == OrderLine(j.w, j.d, o)
             E == [s[D] EXCEPT !.d_next_o_id = o + 1]
             e == [o_c_id |-> j.c, o_carrier_id |-> 0, o_ol_cnt |-> Len(lines)]
             V(r) == IF r = D THEN E
                     ELSE IF r = O THEN e
                     ELSE IF r = N THEN TRUE
                     ELSE IF r = L THEN lines
                     ELSE IF r[1] = "stock" THEN QuantityAfter(s[r], lines, r[2], r[4])
                     ELSE s[r]
  <1>1. \A r \in Rows : R[r] = V(r)
    <2>1. /\ D # O /\ D # N /\ D # L /\ O # N /\ O # L /\ N # L
          /\ D[1] # "stock" /\ O[1] # "stock" /\ N[1] # "stock" /\ L[1] # "stock"
      BY DEF District, Orders, NewOrders, OrderLine
    <2> HIDE DEF D, O, N, L, e
    <2> QED BY <2>1 DEF Ordering, D, O, N, L, e
  <1>2. j.w \in Warehouses /\ j.d \in Districts /\ o + 1 \in Nat
    BY DEF NewOrderJobs, OrderIds
  <1>3. /\ E \in [d_next_o_id : Nat, d_ytd : Int]
        /\ E.d_ytd = s[D].d_ytd /\ E.d_next_o_id = o + 1
    <2>1. s[D] \in [d_next_o_id : Nat, d_ytd : Int]
      BY <1>2, StoredRows
    <2> HIDE DEF D
    <2> QED BY <1>2, <2>1
  <1> HIDE DEF R, E, e
  <1>4. ASSUME NEW w \in Warehouses PROVE R[Warehouse(w)] = s[Warehouse(w)]
    <2>1. Warehouse(w) \in Rows
      BY RowNames
    <2> QED BY <1>1, <2>1 DEF Warehouse, District, Orders, NewOrders, OrderLine
  <1>5. ASSUME NEW w \in Warehouses, NEW i \in Items
        PROVE  R[Stock(w, i)] = QuantityAfter(s[Stock(w, i)], lines, w, i)
    <2>1. Stock(w, i) \in Rows
      BY RowNames
    <2> QED BY <1>1, <2>1 DEF Stock, District, Orders, NewOrders, OrderLine
  <1>6. ASSUME NEW w \in Warehouses, NEW d \in Districts
        PROVE  /\ R[District(w, d)] \in [d_next_o_id : Nat, d_ytd : Int]
               /\ R[District(w, d)].d_ytd = s[District(w, d)].d_ytd
               /\ R[District(w, d)].d_next_o_id =
                    IF w = j.w /\ d = j.d THEN o + 1 ELSE s[District(w, d)].d_next_o_id
    <2>1. District(w, d) \in Rows
      BY RowNames
    <2>2. R[District(w, d)] = IF w = j.w /\ d = j.d THEN E ELSE s[District(w, d)]
      BY <1>1, <2>1 DEF District, Orders, NewOrders, OrderLine
    <2>3. s[District(w, d)] \in [d_next_o_id : Nat, d_ytd : Int]
      BY StoredRows
    <2>4. CASE w = j.w /\ d = j.d
      BY <1>3, <2>2, <2>4
    <2>5. CASE ~ (w = j.w /\ d = j.d)
      BY <2>2, <2>3, <2>5
    <2> QED BY <2>4, <2>5
  <1>7. ASSUME NEW w \in Warehouses, NEW d \in Districts, NEW c \in Customers
        PROVE  /\ R[Customer(w, d, c)] = s[Customer(w, d, c)]
               /\ R[History(w, d, c)] = s[History(w, d, c)]
    <2>1. Customer(w, d, c) \in Rows /\ History(w, d, c) \in Rows
      BY RowNames
    <2> QED BY <1>1, <2>1 DEF Customer, History, District, Orders, NewOrders, OrderLine
  <1>8. ASSUME NEW w \in Warehouses, NEW d \in Districts, NEW p \in OrderIds
        PROVE  /\ R[Orders(w, d, p)] =
                    IF w = j.w /\ d = j.d /\ p = o THEN e ELSE s[Orders(w, d, p)]
               /\ R[NewOrders(w, d, p)] =
                    IF w = j.w /\ d = j.d /\ p = o THEN TRUE ELSE s[NewOrders(w, d, p)]
               /\ R[OrderLine(w, d, p)] =
                    IF w = j.w /\ d = j.d /\ p = o THEN lines ELSE s[OrderLine(w, d, p)]
    <2>1. NewOrders(w, d, p) \in Rows /\ OrderLine(w, d, p) \in Rows /\ Orders(w, d, p) \in Rows
      BY RowNames
    <2> QED BY <1>1, <2>1 DEF District, Orders, NewOrders, OrderLine
  <1>9. /\ R[Orders(j.w, j.d, o)] = e
        /\ R[NewOrders(j.w, j.d, o)] = TRUE
        /\ R[OrderLine(j.w, j.d, o)] = lines
    BY <1>2, <1>8
  <1>10. AsOrdered(R, s, j, lines, o)
    <2> HIDE DEF V
    <2>1. ASSUME NEW w \in Warehouses, NEW d \in Districts, NEW p \in OrderIds,
                 ~ (w = j.w /\ d = j.d /\ p = o)
          PROVE  /\ R[Orders(w, d, p)] = s[Orders(w, d, p)]
                 /\ R[NewOrders(w, d, p)] = s[NewOrders(w, d, p)]
                 /\ R[OrderLine(w, d, p)] = s[OrderLine(w, d, p)]
      BY <1>8, <2>1
    <2>2. R[Orders(j.w, j.d, o)] =
            [o_c_id |-> j.c, o_carrier_id |-> 0, o_ol_cnt |-> Len(lines)]
      BY <1>9 DEF e
    <2> QED BY <1>4, <1>5, <1>6, <1>7, <1>9, <2>1, <2>2 DEF AsOrdered
  <1> QED BY <1>10 DEF R

(* R is s with the payment j by customer c. *)
AsPaid(R, s, j, c) ==
    /\ \A w \in Warehouses :
         R[Warehouse(w)] = [w_ytd |-> s[Warehouse(w)].w_ytd +
                                        (IF w = j.w THEN j.h_amount ELSE 0)]
    /\ \A w \in Warehouses, i \in Items : R[Stock(w, i)] = s[Stock(w, i)]
    /\ \A w \in Warehouses, d \in Districts :
         /\ R[District(w, d)] \in [d_next_o_id : Nat, d_ytd : Int]
         /\ R[District(w, d)].d_ytd = s[District(w, d)].d_ytd +
              (IF w = j.w /\ d = j.d THEN j.h_amount ELSE 0)
         /\ R[District(w, d)].d_next_o_id = s[District(w, d)].d_next_o_id
    /\ \A w \in Warehouses, d \in Districts, k \in Customers :
         ~ (w = j.c_w /\ d = j.c_d /\ k = c) =>
         /\ R[Customer(w, d, k)] = s[Customer(w, d, k)]
         /\ R[History(w, d, k)] = s[History(w, d, k)]
    /\ R[Customer(j.c_w, j.c_d, c)] =
         [s[Customer(j.c_w, j.c_d, c)] EXCEPT !.c_balance = @ + j.h_amount]
    /\ R[History(j.c_w, j.c_d, c)] =
         Append(s[History(j.c_w, j.c_d, c)],
                [h_w_id |-> j.w, h_d_id |-> j.d, h_amount |-> j.h_amount])
    /\ \A w \in Warehouses, d \in Districts, p \in OrderIds :
         /\ R[Orders(w, d, p)] = s[Orders(w, d, p)]
         /\ R[NewOrders(w, d, p)] = s[NewOrders(w, d, p)]
         /\ R[OrderLine(w, d, p)] = s[OrderLine(w, d, p)]

(* Paying changes the four rows of its payment.                           *)
LEMMA PayingRows ==
    ASSUME NEW s, StoreType(s), NEW j \in PaymentJobs, NEW c \in Customers
    PROVE  AsPaid(Paying(s, j, c), s, j, c)
  <1> DEFINE R == Paying(s, j, c)
             W == Warehouse(j.w)
             D == District(j.w, j.d)
             C == Customer(j.c_w, j.c_d, c)
             H == History(j.c_w, j.c_d, c)
             VW == [s[W] EXCEPT !.w_ytd = @ + j.h_amount]
             VD == [s[D] EXCEPT !.d_ytd = @ + j.h_amount]
             VC == [s[C] EXCEPT !.c_balance = @ + j.h_amount]
             VH == Append(s[H], [h_w_id |-> j.w, h_d_id |-> j.d, h_amount |-> j.h_amount])
             V(r) == IF r = W THEN VW ELSE IF r = D THEN VD
                     ELSE IF r = C THEN VC ELSE IF r = H THEN VH ELSE s[r]
  <1>1. \A r \in Rows : R[r] = V(r)
    <2>1. W # D /\ W # C /\ W # H /\ D # C /\ D # H /\ C # H
      BY DEF Warehouse, District, Customer, History
    <2> HIDE DEF W, D, C, H
    <2>2. DOMAIN s = Rows
      BY DEF StoreType
    <2> QED BY <2>1, <2>2 DEF Paying, W, D, C, H
  <1>2. /\ j.w \in Warehouses /\ j.d \in Districts /\ j.h_amount \in Int
        /\ j.c_w \in Warehouses /\ j.c_d \in Districts
    <2>1. /\ j.w \in Warehouses /\ j.d \in Districts /\ j.h_amount \in Amounts
          /\ j.c_w \in Warehouses /\ j.c_d \in Districts
      BY DEF PaymentJobs
    <2>2. \A x \in Amounts : x \in Int
      BY DEF Amounts
    <2> QED BY <2>1, <2>2
  <1>3. VW = [w_ytd |-> s[W].w_ytd + j.h_amount]
    <2>1. s[W] \in [w_ytd : Int]
      BY <1>2, StoredRows
    <2> HIDE DEF W
    <2> QED BY <1>2, <2>1
  <1>4. /\ VD \in [d_next_o_id : Nat, d_ytd : Int]
        /\ VD.d_ytd = s[D].d_ytd + j.h_amount /\ VD.d_next_o_id = s[D].d_next_o_id
    <2>1. s[D] \in [d_next_o_id : Nat, d_ytd : Int]
      BY <1>2, StoredRows
    <2> HIDE DEF D
    <2> QED BY <1>2, <2>1
  <1> HIDE DEF R, VW, VD, VC, VH
  <1>5. ASSUME NEW w \in Warehouses
        PROVE  R[Warehouse(w)] = [w_ytd |-> s[Warehouse(w)].w_ytd +
                                        (IF w = j.w THEN j.h_amount ELSE 0)]
    <2>1. Warehouse(w) \in Rows
      BY RowNames
    <2>2. R[Warehouse(w)] = IF w = j.w THEN VW ELSE s[Warehouse(w)]
      BY <1>1, <2>1 DEF Warehouse, District, Customer, History
    <2>3. s[Warehouse(w)] \in [w_ytd : Int]
      BY StoredRows
    <2>4. CASE w = j.w
      BY <1>3, <2>2, <2>4
    <2>5. CASE w # j.w
      <3> DEFINE v == s[Warehouse(w)]
      <3>1. v = [w_ytd |-> v.w_ytd + 0]
        <4> HIDE DEF v
        <4>1. v \in [w_ytd : Int]
          BY <2>3 DEF v
        <4> QED BY <4>1
      <3> QED BY <2>2, <2>5, <3>1
    <2> QED BY <2>4, <2>5
  <1>6. ASSUME NEW w \in Warehouses, NEW i \in Items PROVE R[Stock(w, i)] = s[Stock(w, i)]
    <2>1. Stock(w, i) \in Rows
      BY RowNames
    <2> QED BY <1>1, <2>1 DEF Stock, Warehouse, District, Customer, History
  <1>7. ASSUME NEW w \in Warehouses, NEW d \in Districts
        PROVE  /\ R[District(w, d)] \in [d_next_o_id : Nat, d_ytd : Int]
               /\ R[District(w, d)].d_ytd = s[District(w, d)].d_ytd +
                    (IF w = j.w /\ d = j.d THEN j.h_amount ELSE 0)
               /\ R[District(w, d)].d_next_o_id = s[District(w, d)].d_next_o_id
    <2>1. District(w, d) \in Rows
      BY RowNames
    <2>2. R[District(w, d)] = IF w = j.w /\ d = j.d THEN VD ELSE s[District(w, d)]
      BY <1>1, <2>1 DEF Warehouse, District, Customer, History
    <2>3. s[District(w, d)] \in [d_next_o_id : Nat, d_ytd : Int]
      BY StoredRows
    <2>4. CASE w = j.w /\ d = j.d
      BY <1>4, <2>2, <2>4
    <2>5. CASE ~ (w = j.w /\ d = j.d)
      BY <2>2, <2>3, <2>5
    <2> QED BY <2>4, <2>5
  <1>8. ASSUME NEW w \in Warehouses, NEW d \in Districts, NEW k \in Customers
        PROVE  /\ R[Customer(w, d, k)] =
                    IF w = j.c_w /\ d = j.c_d /\ k = c THEN VC ELSE s[Customer(w, d, k)]
               /\ R[History(w, d, k)] =
                    IF w = j.c_w /\ d = j.c_d /\ k = c THEN VH ELSE s[History(w, d, k)]
    <2>1. Customer(w, d, k) \in Rows /\ History(w, d, k) \in Rows
      BY RowNames
    <2> QED BY <1>1, <2>1 DEF Warehouse, District, Customer, History
  <1>9. ASSUME NEW w \in Warehouses, NEW d \in Districts, NEW p \in OrderIds
        PROVE  /\ R[Orders(w, d, p)] = s[Orders(w, d, p)]
               /\ R[NewOrders(w, d, p)] = s[NewOrders(w, d, p)]
               /\ R[OrderLine(w, d, p)] = s[OrderLine(w, d, p)]
    <2>1. NewOrders(w, d, p) \in Rows /\ OrderLine(w, d, p) \in Rows /\ Orders(w, d, p) \in Rows
      BY RowNames
    <2> QED BY <1>1, <2>1
        DEF Warehouse, District, Customer, History, Orders, NewOrders, OrderLine
  <1>10. R[Customer(j.c_w, j.c_d, c)] = VC /\ R[History(j.c_w, j.c_d, c)] = VH
    BY <1>2, <1>8
  <1>11. AsPaid(R, s, j, c)
    BY <1>5, <1>6, <1>7, <1>8, <1>9, <1>10 DEF AsPaid, VC, VH
  <1> QED BY <1>11 DEF R

(* R is s with order o of district x, y delivered. *)
AsDelivered(R, s, x, y, o, c) ==
    /\ c = s[Orders(x, y, o)].o_c_id
    /\ \A w \in Warehouses : R[Warehouse(w)] = s[Warehouse(w)]
    /\ \A w \in Warehouses, i \in Items : R[Stock(w, i)] = s[Stock(w, i)]
    /\ \A w \in Warehouses, d \in Districts : R[District(w, d)] = s[District(w, d)]
    /\ \A w \in Warehouses, d \in Districts, k \in Customers :
         /\ R[History(w, d, k)] = s[History(w, d, k)]
         /\ ~ (w = x /\ d = y /\ k = c) => R[Customer(w, d, k)] = s[Customer(w, d, k)]
    /\ R[Customer(x, y, c)] =
         [s[Customer(x, y, c)] EXCEPT
            !.c_balance = @ + OrderAmount(s[OrderLine(x, y, o)]), !.c_delivery_cnt = @ + 1]
    /\ \A w \in Warehouses, d \in Districts, p \in OrderIds :
         /\ R[OrderLine(w, d, p)] = s[OrderLine(w, d, p)]
         /\ ~ (w = x /\ d = y /\ p = o) => /\ R[Orders(w, d, p)] = s[Orders(w, d, p)]
                                           /\ R[NewOrders(w, d, p)] = s[NewOrders(w, d, p)]
    /\ R[NewOrders(x, y, o)] = FALSE
    /\ R[Orders(x, y, o)] = [o_c_id |-> c, o_carrier_id |-> 1,
                             o_ol_cnt |-> s[Orders(x, y, o)].o_ol_cnt]

(* Delivering changes the rows of its order and its customer.             *)
LEMMA DeliveringRows ==
    ASSUME NEW s, StoreType(s), NEW x \in Warehouses, NEW y \in Districts,
           NEW o \in OrderIds, s[Orders(x, y, o)].o_c_id \in Customers
    PROVE  AsDelivered(Delivering(s, x, y, o), s, x, y, o, s[Orders(x, y, o)].o_c_id)
  <1> DEFINE R == Delivering(s, x, y, o)
             c == s[Orders(x, y, o)].o_c_id
             a == OrderAmount(s[OrderLine(x, y, o)])
             N == NewOrders(x, y, o)
             O == Orders(x, y, o)
             C == Customer(x, y, c)
             VO == [s[O] EXCEPT !.o_carrier_id = 1]
             VC == [s[C] EXCEPT !.c_balance = @ + a, !.c_delivery_cnt = @ + 1]
             V(r) == IF r = N THEN FALSE ELSE IF r = O THEN VO
                     ELSE IF r = C THEN VC ELSE s[r]
  <1>1. \A r \in Rows : R[r] = V(r)
    <2>1. N # O /\ N # C /\ O # C
      BY DEF NewOrders, Orders, Customer
    <2>2. DOMAIN s = Rows /\ C \in Rows
      BY RowNames DEF StoreType
    <2> HIDE DEF N, O, C, a
    <2> QED BY <2>1, <2>2 DEF Delivering, N, O, C, a
  <1>2. VO = [o_c_id |-> c, o_carrier_id |-> 1, o_ol_cnt |-> s[O].o_ol_cnt]
    <2>1. s[O] \in [o_c_id : Nat, o_carrier_id : Nat, o_ol_cnt : Nat]
      BY StoredRows
    <2> QED BY <2>1
  <1> HIDE DEF R, VO, VC, c
  <1>3. ASSUME NEW w \in Warehouses PROVE R[Warehouse(w)] = s[Warehouse(w)]
    <2>1. Warehouse(w) \in Rows
      BY RowNames
    <2> QED BY <1>1, <2>1 DEF Warehouse, NewOrders, Orders, Customer
  <1>4. ASSUME NEW w \in Warehouses, NEW i \in Items PROVE R[Stock(w, i)] = s[Stock(w, i)]
    <2>1. Stock(w, i) \in Rows
      BY RowNames
    <2> QED BY <1>1, <2>1 DEF Stock, NewOrders, Orders, Customer
  <1>5. ASSUME NEW w \in Warehouses, NEW d \in Districts
        PROVE  R[District(w, d)] = s[District(w, d)]
    <2>1. District(w, d) \in Rows
      BY RowNames
    <2> QED BY <1>1, <2>1 DEF District, NewOrders, Orders, Customer
  <1>6. ASSUME NEW w \in Warehouses, NEW d \in Districts, NEW k \in Customers
        PROVE  /\ R[Customer(w, d, k)] =
                    IF w = x /\ d = y /\ k = c THEN VC ELSE s[Customer(w, d, k)]
               /\ R[History(w, d, k)] = s[History(w, d, k)]
    <2>1. Customer(w, d, k) \in Rows /\ History(w, d, k) \in Rows
      BY RowNames
    <2> QED BY <1>1, <2>1 DEF NewOrders, Orders, Customer, History
  <1>7. ASSUME NEW w \in Warehouses, NEW d \in Districts, NEW p \in OrderIds
        PROVE  /\ R[Orders(w, d, p)] =
                    IF w = x /\ d = y /\ p = o THEN VO ELSE s[Orders(w, d, p)]
               /\ R[NewOrders(w, d, p)] =
                    IF w = x /\ d = y /\ p = o THEN FALSE ELSE s[NewOrders(w, d, p)]
               /\ R[OrderLine(w, d, p)] = s[OrderLine(w, d, p)]
    <2>1. NewOrders(w, d, p) \in Rows /\ OrderLine(w, d, p) \in Rows /\ Orders(w, d, p) \in Rows
      BY RowNames
    <2> QED BY <1>1, <2>1 DEF NewOrders, Orders, Customer, OrderLine
  <1>8. R[Customer(x, y, c)] = VC /\ R[NewOrders(x, y, o)] = FALSE /\ R[Orders(x, y, o)] = VO
    BY <1>6, <1>7 DEF c
  <1>9. AsDelivered(R, s, x, y, o, c)
    <2> HIDE DEF V
    <2>1. R[Orders(x, y, o)] = [o_c_id |-> c, o_carrier_id |-> 1,
                                o_ol_cnt |-> s[Orders(x, y, o)].o_ol_cnt]
      BY <1>2, <1>8
    <2>2. R[Customer(x, y, c)] =
            [s[Customer(x, y, c)] EXCEPT
               !.c_balance = @ + OrderAmount(s[OrderLine(x, y, o)]),
               !.c_delivery_cnt = @ + 1]
      BY <1>8 DEF VC
    <2>3. ASSUME NEW w \in Warehouses, NEW d \in Districts, NEW k \in Customers
          PROVE  /\ R[History(w, d, k)] = s[History(w, d, k)]
                 /\ ~ (w = x /\ d = y /\ k = c) => R[Customer(w, d, k)] = s[Customer(w, d, k)]
      BY <1>6
    <2>4. ASSUME NEW w \in Warehouses, NEW d \in Districts, NEW p \in OrderIds
          PROVE  /\ R[OrderLine(w, d, p)] = s[OrderLine(w, d, p)]
                 /\ ~ (w = x /\ d = y /\ p = o) => /\ R[Orders(w, d, p)] = s[Orders(w, d, p)]
                                                   /\ R[NewOrders(w, d, p)] = s[NewOrders(w, d, p)]
      BY <1>7
    <2> QED BY <1>3, <1>4, <1>5, <1>8, <2>1, <2>2, <2>3, <2>4 DEF AsDelivered, c
  <1> QED BY <1>9 DEF R, c

----------------------------------------------------------------------------
(* The sums the consistency conditions are about.                         *)

Quantities(lines) == [n \in DOMAIN lines |-> lines[n].ol_quantity]

(* The amount of an order is the sum of the quantities of its lines. *)
LEMMA AmountIs ==
    ASSUME NEW lines, IsFiniteSet(DOMAIN lines)
    PROVE  OrderAmount(lines) = SumFunctionOnSet(Quantities(lines), DOMAIN lines)
  <1> DEFINE S == DOMAIN lines
             f == Quantities(lines)
             Adds(g) == g = [s \in SUBSET S |->
                IF s = {} THEN 0
                ELSE LET x == CHOOSE x \in s : TRUE IN lines[x].ol_quantity + g[s \ {x}]]
             a == CHOOSE g : Adds(g)
  <1>1. OrderAmount(lines) = a[S]
    BY DEF OrderAmount, FoldFunction, FoldFunctionOnSet, MapThenFoldSet
  <1>2. ASSUME NEW g PROVE Adds(g) <=> AddsUp(g, f, S)
    <2>1. ASSUME NEW s \in SUBSET S, s # {}
          PROVE  LET x == CHOOSE x \in s : TRUE IN lines[x].ol_quantity = f[x]
      BY <2>1 DEF Quantities
    <2> DEFINE l(s) == IF s = {} THEN 0
                       ELSE LET x == CHOOSE x \in s : TRUE
                            IN  lines[x].ol_quantity + g[s \ {x}]
               r(s) == IF s = {} THEN 0
                       ELSE LET x == CHOOSE x \in s : TRUE IN f[x] + g[s \ {x}]
    <2>2. \A s \in SUBSET S : l(s) = r(s)
      BY <2>1
    <2>3. Adds(g) <=> g = [s \in SUBSET S |-> l(s)]
      OBVIOUS
    <2>4. AddsUp(g, f, S) <=> g = [s \in SUBSET S |-> r(s)]
      BY DEF AddsUp
    <2> HIDE DEF l, r, Adds
    <2>5. [s \in SUBSET S |-> l(s)] = [s \in SUBSET S |-> r(s)]
      BY <2>2
    <2> QED BY <2>3, <2>4, <2>5
  <1>3. \E g : Adds(g)
    <2> HIDE DEF Adds
    <2> QED BY <1>2, AddsUpExists
  <1>4. AddsUp(a, f, S)
    <2> HIDE DEF Adds
    <2> QED BY <1>2, <1>3
  <1>5. SumFunctionOnSet(f, S) = a[S]
    BY <1>4, SumOfPart
  <1> QED BY <1>1, <1>5

(* The amount of an order of natural quantities is a natural number.      *)
LEMMA AmountNat ==
    ASSUME NEW T, NEW lines \in Seq(T), \A n \in DOMAIN lines : lines[n].ol_quantity \in Nat
    PROVE  OrderAmount(lines) \in Nat
  <1>1. IsFiniteSet(DOMAIN lines)
    BY FS_Interval
  <1>2. \A n \in DOMAIN lines : Quantities(lines)[n] \in Nat
    BY DEF Quantities
  <1> QED BY <1>1, <1>2, AmountIs, SumNat

(* So is the amount of stored order lines.                                *)
LEMMA LinesAmount ==
    ASSUME NEW lines \in LinesType
    PROVE  OrderAmount(lines) \in Nat
  <1> DEFINE L == [ol_i_id : Nat, ol_supply_w_id : Nat, ol_quantity : Nat]
  <1>1. lines \in Seq(L) /\ \A l \in L : l.ol_quantity \in Nat
    BY DEF LinesType
  <1> HIDE DEF L
  <1>2. \A n \in DOMAIN lines : lines[n] \in L
    BY <1>1
  <1>3. \A n \in DOMAIN lines : lines[n].ol_quantity \in Nat
    BY <1>1, <1>2
  <1> QED BY <1>1, <1>3, AmountNat

(* What is paid is a positive amount.                                     *)
LEMMA PaymentAmount ==
    ASSUME NEW j \in PaymentJobs
    PROVE  j.h_amount \in Int /\ j.h_amount > 0
  <1>1. j.h_amount \in Amounts
    BY DEF PaymentJobs
  <1>2. \A x \in Amounts : x \in Int /\ x > 0
    BY DEF Amounts
  <1> QED BY <1>1, <1>2

----------------------------------------------------------------------------
(* Stock. *)

(* What the lines ask of item i of warehouse w. *)
AskedAt(lines, w, i) == {n \in DOMAIN lines : /\ lines[n].ol_i_id = i
                                              /\ lines[n].ol_supply_w_id = w}
Asked(lines, w, i) ==
    SumFunctionOnSet([n \in AskedAt(lines, w, i) |-> lines[n].ol_quantity],
                     AskedAt(lines, w, i))

(* Ordered as a sum over the orders of what each asks for.                *)
LEMMA OrderedIs ==
    ASSUME NEW s, NEW w, NEW i
    PROVE  Ordered(s, w, i) =
             SumFunctionOnSet([k \in OrderKeys |->
                                 Asked(s[OrderLine(k[1], k[2], k[3])], w, i)], OrderKeys)
  BY DEF Ordered, SumOver, SumFunction, Asked, AskedAt

(* What an order asks for of an item is a natural number, 0 if all its    *)
(* lines ask for 0.                                                       *)
LEMMA AskedNat ==
    ASSUME NEW T, NEW lines \in Seq(T), NEW w, NEW i,
           \A n \in DOMAIN lines : lines[n].ol_quantity \in Nat
    PROVE  /\ Asked(lines, w, i) \in Nat
           /\ (\A n \in DOMAIN lines : lines[n].ol_quantity = 0) => Asked(lines, w, i) = 0
  <1> DEFINE S == AskedAt(lines, w, i)
             f == [n \in S |-> lines[n].ol_quantity]
  <1>1. S \in SUBSET (DOMAIN lines)
    BY DEF AskedAt
  <1>2. IsFiniteSet(S)
    <2>1. IsFiniteSet(DOMAIN lines)
      BY FS_Interval
    <2> QED BY <1>1, <2>1, FS_Subset
  <1>3. \A n \in S : f[n] = lines[n].ol_quantity /\ f[n] \in Nat
    BY <1>1
  <1>4. Asked(lines, w, i) = SumFunctionOnSet(f, S)
    BY DEF Asked
  <1> HIDE DEF f, S
  <1>5. /\ SumFunctionOnSet(f, S) \in Nat
        /\ (\A n \in S : f[n] = 0) => SumFunctionOnSet(f, S) = 0
    BY <1>2, <1>3, SumNat
  <1> QED BY <1>1, <1>3, <1>4, <1>5

(* However many lines ask for an item, its stock stays within 1 .. 100 and *)
(* loses what they ask for, give or take refills of 91.                    *)
LEMMA StockAfterLines ==
    ASSUME NEW T, NEW lines \in Seq(T), NEW w, NEW i, NEW q \in 1 .. 100,
           \A n \in DOMAIN lines : lines[n].ol_quantity \in 1 .. 10
    PROVE  /\ QuantityAfter(q, lines, w, i) \in 1 .. 100
           /\ (q - Asked(lines, w, i) - QuantityAfter(q, lines, w, i)) % 91 = 0
  <1> DEFINE N == Len(lines)
             f == [n \in DOMAIN lines |-> lines[n].ol_quantity]
             Hit(n) == lines[n].ol_i_id = i /\ lines[n].ol_supply_w_id = w
             S(m) == {n \in 1 .. m : Hit(n)}
             A(m) == SumFunctionOnSet(f, S(m))
  <1>1. N \in Nat /\ DOMAIN lines = 1 .. N
    OBVIOUS
  <1>2. \A n \in 1 .. N : f[n] = lines[n].ol_quantity /\ f[n] \in 1 .. 10
    BY <1>1
  <1>3. PICK g : Leaves(g, q, lines, w, i, N) /\ QuantityAfter(q, lines, w, i) = g[N]
    <2> HIDE DEF N
    <2> QED BY <1>1, QuantityIs DEF N
  <1>4. g[0] = q /\ \A m \in 1 .. N : g[m] = IF Hit(m) THEN Restock(g[m - 1], f[m])
                                                      ELSE g[m - 1]
    <2>1. g[0] = q
      BY <1>1, <1>3 DEF Leaves
    <2>2. ASSUME NEW m \in 1 .. N
          PROVE  g[m] = IF Hit(m) THEN Restock(g[m - 1], f[m]) ELSE g[m - 1]
      <3>1. m \in 0 .. N /\ m # 0 /\ f[m] = lines[m].ol_quantity
        BY <1>1, <1>2
      <3> HIDE DEF N, f
      <3> QED BY <1>3, <3>1 DEF Leaves
    <2> HIDE DEF N, f, Hit
    <2> QED BY <2>1, <2>2
  <1>5. Asked(lines, w, i) = A(N)
    <2>1. AskedAt(lines, w, i) = S(N)
      BY <1>1 DEF AskedAt
    <2> DEFINE h == [n \in S(N) |-> lines[n].ol_quantity]
    <2>2. IsFiniteSet(S(N))
      <3>1. IsFiniteSet(1 .. N)
        BY <1>1, FS_Interval
      <3> QED BY <3>1, FS_Subset
    <2>3. \A n \in S(N) : h[n] = f[n]
      BY <1>1
    <2>4. Asked(lines, w, i) = SumFunctionOnSet(h, S(N))
      BY <2>1 DEF Asked
    <2> HIDE DEF h, f, S
    <2> QED BY <2>2, <2>3, <2>4, SumSame
  <1> HIDE DEF f, Hit, N
  <1> DEFINE P(m) == A(m) \in Int /\ g[m] \in 1 .. 100 /\ (q - A(m) - g[m]) % 91 = 0
             C == {m \in 0 .. N : ~ P(m)}
  <1>6. C = {}
    <2> SUFFICES ASSUME C # {} PROVE FALSE
      OBVIOUS
    <2>1. PICK m \in C : \A k \in C : m <= k
      <3>1. C \subseteq Nat
        BY <1>1
      <3> HIDE DEF C
      <3> QED BY <3>1, LeastNat
    <2>2. m \in 0 .. N /\ ~ P(m)
      BY <2>1
    <2>3. CASE m = 0
      <3>1. S(0) = {}
        OBVIOUS
      <3>2. A(0) = 0
        BY <3>1, SumEmpty
      <3> HIDE DEF A
      <3>3. (q - 0 - q) % 91 = 0
        <4>1. \A z \in Int : z - 0 - z = 0
          OBVIOUS
        <4>2. q \in Int /\ 0 % 91 = 0
          OBVIOUS
        <4> QED BY ONLY <4>1, <4>2
      <3>4. P(0)
        BY <1>4, <3>2, <3>3
      <3> QED BY <2>2, <2>3, <3>4
    <2>4. CASE m # 0
      <3>1. PICK p \in Nat : m = p + 1
        <4>1. m - 1 \in Nat /\ m = (m - 1) + 1
          BY <1>1, <2>2, <2>4
        <4> QED BY <4>1
      <3>2. p \in 0 .. N /\ p + 1 \in 1 .. N /\ p < m /\ (p + 1) - 1 = p
        BY <1>1, <2>2, <3>1
      <3>3. P(p)
        <4>1. p \notin C
          <5>1. m \in Nat /\ ~ (m <= p)
            BY <3>1, <3>2
          <5> HIDE DEF C
          <5> QED BY <2>1, <5>1
        <4> HIDE DEF P
        <4> QED BY <3>2, <4>1
      <3>4. /\ S(p) \in SUBSET (1 .. p)
            /\ S(p + 1) = IF Hit(p + 1) THEN S(p) \cup {p + 1} ELSE S(p)
        <4>1. 1 .. p + 1 = (1 .. p) \cup {p + 1}
          OBVIOUS
        <4> QED BY <4>1
      <3>5. A(p + 1) = A(p) + (IF Hit(p + 1) THEN f[p + 1] ELSE 0)
        <4>1. (p + 1 \in S(p + 1)) <=> Hit(p + 1)
          BY <3>4
        <4>2. \A k \in S(p) : f[k] \in Int
          <5>1. ASSUME NEW k \in S(p) PROVE k \in 1 .. N
            BY <1>1, <3>2
          <5> HIDE DEF S
          <5>2. \A k \in 1 .. N : f[k] \in 1 .. 10
            BY <1>2
          <5>3. \A z \in 1 .. 10 : z \in Int
            OBVIOUS
          <5> QED BY ONLY <5>1, <5>2, <5>3
        <4>3. f[p + 1] \in Int
          <5>1. f[p + 1] \in 1 .. 10
            BY <1>2, <3>2
          <5>2. \A z \in 1 .. 10 : z \in Int
            OBVIOUS
          <5> QED BY ONLY <5>1, <5>2
        <4> HIDE DEF S
        <4>4. IsFiniteSet(S(p)) /\ p + 1 \notin S(p)
          <5>1. IsFiniteSet(1 .. p)
            BY FS_Interval
          <5>2. p + 1 \notin 1 .. p
            OBVIOUS
          <5>3. S(p) \in SUBSET (1 .. p)
            BY <3>4
          <5>4. IsFiniteSet(S(p))
            BY <5>1, <5>3, FS_Subset
          <5> QED BY <5>2, <5>3, <5>4
        <4>5. CASE Hit(p + 1)
          <5>1. S(p + 1) = S(p) \cup {p + 1}
            BY <3>4, <4>5
          <5>2. \A k \in S(p) \cup {p + 1} : f[k] \in Int
            BY <4>2, <4>3
          <5> DEFINE m1 == p + 1
          <5>3. SumFunctionOnSet(f, S(p) \cup {m1}) = SumFunctionOnSet(f, S(p)) + f[m1]
            <6>1. m1 \notin S(p) /\ \A k \in S(p) \cup {m1} : f[k] \in Int
              BY <4>4, <5>2
            <6> HIDE DEF m1
            <6> QED BY ONLY <4>4, <6>1, SumAdd
          <5> QED BY <4>5, <5>1, <5>3
        <4>6. CASE ~ Hit(p + 1)
          <5>1. S(p + 1) = S(p)
            BY <3>4, <4>6
          <5>2. SumFunctionOnSet(f, S(p)) \in Int
            BY <4>2, <4>4, SumType
          <5> QED BY <4>6, <5>1, <5>2
        <4> QED BY <4>5, <4>6
      <3> HIDE DEF A
      <3>6. CASE Hit(p + 1)
        <4> DEFINE a == A(p)
                   x == g[p]
                   y == f[p + 1]
        <4>1. g[p + 1] = Restock(x, y) /\ A(p + 1) = a + y
          BY <1>4, <3>2, <3>5, <3>6
        <4>2. a \in Int /\ x \in 1 .. 100 /\ y \in 1 .. 10 /\ (q - a - x) % 91 = 0
          BY <1>2, <3>2, <3>3
        <4> HIDE DEF a, x, y
        <4>3. Restock(x, y) \in 1 .. 100
          BY <4>2 DEF Restock
        <4>4. (q - (a + y) - Restock(x, y)) % 91 = 0
          <5>1. CASE x > y
            <6>1. q - (a + y) - Restock(x, y) = q - a - x
              BY <4>2, <5>1 DEF Restock
            <6> QED BY <4>2, <6>1
          <5>2. CASE ~ (x > y)
            <6>1. q - (a + y) - Restock(x, y) = (q - a - x) - 91
              BY <4>2, <5>2 DEF Restock
            <6> QED BY <4>2, <6>1
          <5> QED BY <5>1, <5>2
        <4>5. a + y \in Int
          BY <4>2
        <4>6. P(p + 1)
          BY <4>1, <4>3, <4>4, <4>5
        <4> QED BY <2>2, <3>1, <4>6
      <3>7. CASE ~ Hit(p + 1)
        <4>1. g[p + 1] = g[p] /\ A(p + 1) = A(p)
          BY <1>4, <3>2, <3>3, <3>5, <3>7
        <4> QED BY <2>2, <3>1, <3>3, <4>1
      <3> QED BY <3>6, <3>7
    <2> QED BY <2>3, <2>4
  <1>7. P(N)
    <2> HIDE DEF P
    <2> QED BY <1>1, <1>6
  <1> HIDE DEF A
  <1> QED BY <1>3, <1>5, <1>7
----------------------------------------------------------------------------
(* Payments. *)

(* The amounts of the payments of a history that are in H. *)
PartOf(h, H) == {i \in DOMAIN h : h[i] \in H}
HistorySum(h, H) ==
    SumFunctionOnSet([i \in PartOf(h, H) |-> h[i].h_amount], PartOf(h, H))

OneMore(more, h, e) == more = Append(h, e)

(* One more payment adds its amount to the sums it belongs to.            *)
LEMMA HistoryAppend ==
    ASSUME NEW h \in Seq(PaymentRows), NEW e \in PaymentRows, NEW H, NEW more,
           OneMore(more, h, e)
    PROVE  /\ HistorySum(h, H) \in Int
           /\ HistorySum(more, H) = HistorySum(h, H) + (IF e \in H THEN e.h_amount ELSE 0)
  <1> DEFINE n == Len(h)
             X == PartOf(h, H)
             Y == PartOf(more, H)
             f == [i \in X |-> h[i].h_amount]
             g == [i \in Y |-> more[i].h_amount]
             y == n + 1
  <1>1. /\ n \in Nat /\ DOMAIN h = 1 .. n /\ DOMAIN more = 1 .. y
        /\ more[y] = e /\ \A i \in 1 .. n : more[i] = h[i] /\ h[i] \in PaymentRows
    BY DEF OneMore
  <1>2. 1 .. y = (1 .. n) \cup {y} /\ y \notin 1 .. n
    BY <1>1
  <1> HIDE DEF n, y
  <1>3. X \subseteq 1 .. n /\ Y = IF e \in H THEN X \cup {y} ELSE X
    BY <1>1, <1>2 DEF PartOf
  <1>4. IsFiniteSet(X) /\ y \notin X
    <2>1. IsFiniteSet(1 .. n)
      BY <1>1, FS_Interval
    <2>2. X \in SUBSET (1 .. n)
      BY <1>3
    <2>3. IsFiniteSet(X)
      BY <2>1, <2>2, FS_Subset
    <2> QED BY <1>2, <1>3, <2>3
  <1>5. HistorySum(h, H) = SumFunctionOnSet(f, X) /\ HistorySum(more, H) = SumFunctionOnSet(g, Y)
    BY DEF HistorySum
  <1>6. \A i \in X : f[i] \in Int /\ g[i] = f[i]
    <2>1. ASSUME NEW i \in X PROVE i \in Y /\ h[i] \in PaymentRows /\ more[i] = h[i]
      BY <1>1, <1>3
    <2> HIDE DEF X, Y
    <2> QED BY <2>1 DEF PaymentRows
  <1>7. e \in H => y \in Y /\ g[y] = e.h_amount /\ g[y] \in Int
    <2>1. e \in H => y \in Y
      BY <1>3
    <2> HIDE DEF X, Y
    <2> QED BY <1>1, <2>1 DEF PaymentRows
  <1> HIDE DEF X, Y, f, g
  <1>8. SumFunctionOnSet(f, X) \in Int
    BY <1>4, <1>6, SumType
  <1>9. SumFunctionOnSet(g, X) = SumFunctionOnSet(f, X)
    BY <1>4, <1>6, SumSame
  <1>10. CASE e \in H
    <2>1. \A i \in X \cup {y} : g[i] \in Int
      BY <1>6, <1>7, <1>10
    <2>2. SumFunctionOnSet(g, X \cup {y}) = SumFunctionOnSet(g, X) + g[y]
      BY <1>4, <2>1, SumAdd
    <2> QED BY <1>3, <1>5, <1>7, <1>8, <1>9, <1>10, <2>2
  <1>11. CASE e \notin H
    BY <1>3, <1>5, <1>8, <1>9, <1>11
  <1> QED BY <1>10, <1>11

(* No payments add up to 0.                                               *)
LEMMA HistoryEmpty == ASSUME NEW H PROVE HistorySum(<<>>, H) = 0
  <1>1. PartOf(<<>>, H) = {}
    BY DEF PartOf
  <1> QED BY <1>1, SumEmpty DEF HistorySum

PaidIn(s, H) ==
    SumFunctionOnSet([k \in CustomerKeys |-> HistorySum(s[History(k[1], k[2], k[3])], H)],
                     CustomerKeys)

AtWarehouse(w) == {p \in PaymentRows : p.h_w_id = w}
AtDistrict(w, d) == {p \in PaymentRows : p.h_w_id = w /\ p.h_d_id = d}

----------------------------------------------------------------------------
(* The effects keep the columns typed. *)

(* A store is well typed when each of its tables is.                      *)
LEMMA TypedByTables ==
    ASSUME NEW s, DOMAIN s = Rows,
           ASSUME NEW w \in Warehouses
           PROVE  /\ s[Warehouse(w)] \in [w_ytd : Int]
                  /\ \A d \in Districts :
                       s[District(w, d)] \in [d_next_o_id : Nat, d_ytd : Int]
                  /\ \A d \in Districts, c \in Customers :
                       /\ DOMAIN s[Customer(w, d, c)] =
                            {"c_balance", "c_delivery_cnt", "c_data"}
                       /\ s[Customer(w, d, c)].c_delivery_cnt \in Nat
                       /\ s[Customer(w, d, c)].c_data \in Nat
                       /\ s[History(w, d, c)] \in Seq(PaymentRows)
                  /\ \A d \in Districts, o \in OrderIds :
                       /\ s[Orders(w, d, o)] \in
                            [o_c_id : Nat, o_carrier_id : Nat, o_ol_cnt : Nat]
                       /\ s[NewOrders(w, d, o)] \in BOOLEAN
                       /\ s[OrderLine(w, d, o)] \in
                            Seq([ol_i_id : Nat, ol_supply_w_id : Nat, ol_quantity : Nat])
                  /\ \A i \in Items : s[Stock(w, i)] \in Int
    PROVE  StoreType(s)
  <1> SUFFICES ASSUME NEW r \in Rows PROVE RowType(r, s[r])
    BY DEF StoreType
  <1>1. CASE \E w \in Warehouses : r = Warehouse(w)
    <2>1. PICK w \in Warehouses : r = Warehouse(w)
      BY <1>1
    <2>2. RowType(Warehouse(w), s[Warehouse(w)])
      BY RowTypes
    <2> QED BY <2>1, <2>2
  <1>2. CASE \E w \in Warehouses, d \in Districts : r = District(w, d)
    <2>1. PICK w \in Warehouses, d \in Districts : r = District(w, d)
      BY <1>2
    <2>2. RowType(District(w, d), s[District(w, d)])
      BY RowTypes
    <2> QED BY <2>1, <2>2
  <1>3. CASE \E w \in Warehouses, d \in Districts, c \in Customers : r = Customer(w, d, c)
    <2>1. PICK w \in Warehouses, d \in Districts, c \in Customers : r = Customer(w, d, c)
      BY <1>3
    <2>2. RowType(Customer(w, d, c), s[Customer(w, d, c)])
      BY RowTypes
    <2> QED BY <2>1, <2>2
  <1>4. CASE \E w \in Warehouses, d \in Districts, c \in Customers : r = History(w, d, c)
    <2>1. PICK w \in Warehouses, d \in Districts, c \in Customers : r = History(w, d, c)
      BY <1>4
    <2>2. RowType(History(w, d, c), s[History(w, d, c)])
      BY RowTypes DEF PaymentRows
    <2> QED BY <2>1, <2>2
  <1>5. CASE \E w \in Warehouses, d \in Districts, o \in OrderIds : r = Orders(w, d, o)
    <2>1. PICK w \in Warehouses, d \in Districts, o \in OrderIds : r = Orders(w, d, o)
      BY <1>5
    <2>2. RowType(Orders(w, d, o), s[Orders(w, d, o)])
      BY RowTypes
    <2> QED BY <2>1, <2>2
  <1>6. CASE \E w \in Warehouses, d \in Districts, o \in OrderIds : r = NewOrders(w, d, o)
    <2>1. PICK w \in Warehouses, d \in Districts, o \in OrderIds : r = NewOrders(w, d, o)
      BY <1>6
    <2>2. RowType(NewOrders(w, d, o), s[NewOrders(w, d, o)])
      BY RowTypes
    <2> QED BY <2>1, <2>2
  <1>7. CASE \E w \in Warehouses, d \in Districts, o \in OrderIds : r = OrderLine(w, d, o)
    <2>1. PICK w \in Warehouses, d \in Districts, o \in OrderIds : r = OrderLine(w, d, o)
      BY <1>7
    <2>2. RowType(OrderLine(w, d, o), s[OrderLine(w, d, o)])
      BY RowTypes
    <2> QED BY <2>1, <2>2
  <1>8. CASE \E w \in Warehouses, i \in Items : r = Stock(w, i)
    <2>1. PICK w \in Warehouses, i \in Items : r = Stock(w, i)
      BY <1>8
    <2>2. RowType(Stock(w, i), s[Stock(w, i)])
      BY RowTypes
    <2> QED BY <2>1, <2>2
  <1> QED
    BY <1>1, <1>2, <1>3, <1>4, <1>5, <1>6, <1>7, <1>8
    DEF Rows, Warehouse, District, Customer, History, Orders, NewOrders, OrderLine, Stock

(* A new order keeps the store well typed ...                             *)
LEMMA OrderingTyped ==
    ASSUME NEW s, StoreType(s), NEW j \in NewOrderJobs, NEW lines \in LinesType,
           NEW o \in OrderIds, NEW R, DOMAIN R = Rows, AsOrdered(R, s, j, lines, o),
           \A w \in Warehouses, i \in Items :
             QuantityAfter(s[Stock(w, i)], lines, w, i) \in Int
    PROVE  StoreType(R)
  <1>1. [o_c_id |-> j.c, o_carrier_id |-> 0, o_ol_cnt |-> Len(lines)] \in
          [o_c_id : Nat, o_carrier_id : Nat, o_ol_cnt : Nat]
    <2>1. j.c \in Nat /\ Len(lines) \in Nat
      BY DEF NewOrderJobs, Customers, LinesType
    <2> QED BY <2>1
  <1>2. ASSUME NEW w \in Warehouses
        PROVE  /\ R[Warehouse(w)] \in [w_ytd : Int]
               /\ \A d \in Districts : R[District(w, d)] \in [d_next_o_id : Nat, d_ytd : Int]
               /\ \A d \in Districts, c \in Customers :
                    /\ DOMAIN R[Customer(w, d, c)] = {"c_balance", "c_delivery_cnt", "c_data"}
                    /\ R[Customer(w, d, c)].c_delivery_cnt \in Nat
                    /\ R[Customer(w, d, c)].c_data \in Nat
                    /\ R[History(w, d, c)] \in Seq(PaymentRows)
               /\ \A d \in Districts, p \in OrderIds :
                    /\ R[Orders(w, d, p)] \in [o_c_id : Nat, o_carrier_id : Nat, o_ol_cnt : Nat]
                    /\ R[NewOrders(w, d, p)] \in BOOLEAN
                    /\ R[OrderLine(w, d, p)] \in LinesType
               /\ \A i \in Items : R[Stock(w, i)] \in Int
    <2>1. R[Warehouse(w)] \in [w_ytd : Int]
      BY StoredRows DEF AsOrdered
    <2>2. \A d \in Districts : R[District(w, d)] \in [d_next_o_id : Nat, d_ytd : Int]
      BY DEF AsOrdered
    <2>3. ASSUME NEW d \in Districts, NEW c \in Customers
          PROVE  /\ DOMAIN R[Customer(w, d, c)] = {"c_balance", "c_delivery_cnt", "c_data"}
                 /\ R[Customer(w, d, c)].c_delivery_cnt \in Nat
                 /\ R[Customer(w, d, c)].c_data \in Nat
                 /\ R[History(w, d, c)] \in Seq(PaymentRows)
      BY StoredRows, StoredSequences DEF AsOrdered
    <2>4. ASSUME NEW d \in Districts, NEW p \in OrderIds
          PROVE  /\ R[Orders(w, d, p)] \in [o_c_id : Nat, o_carrier_id : Nat, o_ol_cnt : Nat]
                 /\ R[NewOrders(w, d, p)] \in BOOLEAN
                 /\ R[OrderLine(w, d, p)] \in LinesType
      <3>1. CASE w = j.w /\ d = j.d /\ p = o
        BY <1>1, <3>1 DEF AsOrdered
      <3>2. CASE ~ (w = j.w /\ d = j.d /\ p = o)
        BY <3>2, StoredRows, StoredSequences DEF AsOrdered
      <3> QED BY <3>1, <3>2
    <2>5. \A i \in Items : R[Stock(w, i)] \in Int
      BY DEF AsOrdered
    <2> QED BY <2>1, <2>2, <2>3, <2>4, <2>5
  <1> QED BY <1>2, TypedByTables DEF LinesType

(* ... and so does a payment ...                                          *)
LEMMA PayingTyped ==
    ASSUME NEW s, StoreType(s), NEW j \in PaymentJobs, NEW c \in Customers,
           NEW R, DOMAIN R = Rows, AsPaid(R, s, j, c)
    PROVE  StoreType(R)
  <1>1. /\ j.w \in Warehouses /\ j.d \in Districts /\ j.h_amount \in Int
        /\ j.c_w \in Warehouses /\ j.c_d \in Districts
    <2>1. /\ j.w \in Warehouses /\ j.d \in Districts /\ j.h_amount \in Amounts
          /\ j.c_w \in Warehouses /\ j.c_d \in Districts
      BY DEF PaymentJobs
    <2>2. \A x \in Amounts : x \in Int
      BY DEF Amounts
    <2> QED BY <2>1, <2>2
  <1>2. [h_w_id |-> j.w, h_d_id |-> j.d, h_amount |-> j.h_amount] \in PaymentRows
    BY <1>1 DEF PaymentRows
  <1>3. ASSUME NEW w \in Warehouses
        PROVE  /\ R[Warehouse(w)] \in [w_ytd : Int]
               /\ \A d \in Districts : R[District(w, d)] \in [d_next_o_id : Nat, d_ytd : Int]
               /\ \A d \in Districts, k \in Customers :
                    /\ DOMAIN R[Customer(w, d, k)] = {"c_balance", "c_delivery_cnt", "c_data"}
                    /\ R[Customer(w, d, k)].c_delivery_cnt \in Nat
                    /\ R[Customer(w, d, k)].c_data \in Nat
                    /\ R[History(w, d, k)] \in Seq(PaymentRows)
               /\ \A d \in Districts, p \in OrderIds :
                    /\ R[Orders(w, d, p)] \in [o_c_id : Nat, o_carrier_id : Nat, o_ol_cnt : Nat]
                    /\ R[NewOrders(w, d, p)] \in BOOLEAN
                    /\ R[OrderLine(w, d, p)] \in LinesType
               /\ \A i \in Items : R[Stock(w, i)] \in Int
    <2>1. R[Warehouse(w)] \in [w_ytd : Int]
      <3>1. s[Warehouse(w)].w_ytd \in Int
        BY StoredRows
      <3>2. s[Warehouse(w)].w_ytd + (IF w = j.w THEN j.h_amount ELSE 0) \in Int
        BY <1>1, <3>1
      <3>3. R[Warehouse(w)] = [w_ytd |-> s[Warehouse(w)].w_ytd +
                                          (IF w = j.w THEN j.h_amount ELSE 0)]
        BY DEF AsPaid
      <3> QED BY <3>2, <3>3
    <2>2. \A d \in Districts : R[District(w, d)] \in [d_next_o_id : Nat, d_ytd : Int]
      BY DEF AsPaid
    <2>3. ASSUME NEW d \in Districts, NEW k \in Customers
          PROVE  /\ DOMAIN R[Customer(w, d, k)] = {"c_balance", "c_delivery_cnt", "c_data"}
                 /\ R[Customer(w, d, k)].c_delivery_cnt \in Nat
                 /\ R[Customer(w, d, k)].c_data \in Nat
                 /\ R[History(w, d, k)] \in Seq(PaymentRows)
      <3> DEFINE v == s[Customer(w, d, k)]
                 h == s[History(w, d, k)]
      <3>1. /\ DOMAIN v = {"c_balance", "c_delivery_cnt", "c_data"}
            /\ v.c_delivery_cnt \in Nat /\ v.c_data \in Nat
            /\ h \in Seq(PaymentRows)
        BY StoredRows, StoredSequences
      <3>2. CASE w = j.c_w /\ d = j.c_d /\ k = c
        <4>1. /\ R[Customer(w, d, k)] = [v EXCEPT !.c_balance = @ + j.h_amount]
              /\ R[History(w, d, k)] = Append(h, [h_w_id |-> j.w, h_d_id |-> j.d,
                                                  h_amount |-> j.h_amount])
          BY <3>2 DEF AsPaid
        <4> HIDE DEF v, h
        <4> QED BY <1>2, <3>1, <4>1
      <3>3. CASE ~ (w = j.c_w /\ d = j.c_d /\ k = c)
        BY <3>1, <3>3 DEF AsPaid
      <3> QED BY <3>2, <3>3
    <2>4. ASSUME NEW d \in Districts, NEW p \in OrderIds
          PROVE  /\ R[Orders(w, d, p)] \in [o_c_id : Nat, o_carrier_id : Nat, o_ol_cnt : Nat]
                 /\ R[NewOrders(w, d, p)] \in BOOLEAN
                 /\ R[OrderLine(w, d, p)] \in LinesType
      BY StoredRows, StoredSequences DEF AsPaid
    <2>5. \A i \in Items : R[Stock(w, i)] \in Int
      BY StoredRows DEF AsPaid
    <2> QED BY <2>1, <2>2, <2>3, <2>4, <2>5
  <1> QED BY <1>3, TypedByTables DEF LinesType

(* ... and a delivery.                                                    *)
LEMMA DeliveringTyped ==
    ASSUME NEW s, StoreType(s), NEW x \in Warehouses, NEW y \in Districts,
           NEW o \in OrderIds, NEW c \in Customers,
           NEW R, DOMAIN R = Rows, AsDelivered(R, s, x, y, o, c)
    PROVE  StoreType(R)
  <1>1. ASSUME NEW w \in Warehouses
        PROVE  /\ R[Warehouse(w)] \in [w_ytd : Int]
               /\ \A d \in Districts : R[District(w, d)] \in [d_next_o_id : Nat, d_ytd : Int]
               /\ \A d \in Districts, k \in Customers :
                    /\ DOMAIN R[Customer(w, d, k)] = {"c_balance", "c_delivery_cnt", "c_data"}
                    /\ R[Customer(w, d, k)].c_delivery_cnt \in Nat
                    /\ R[Customer(w, d, k)].c_data \in Nat
                    /\ R[History(w, d, k)] \in Seq(PaymentRows)
               /\ \A d \in Districts, p \in OrderIds :
                    /\ R[Orders(w, d, p)] \in [o_c_id : Nat, o_carrier_id : Nat, o_ol_cnt : Nat]
                    /\ R[NewOrders(w, d, p)] \in BOOLEAN
                    /\ R[OrderLine(w, d, p)] \in LinesType
               /\ \A i \in Items : R[Stock(w, i)] \in Int
    <2>1. R[Warehouse(w)] \in [w_ytd : Int]
      BY StoredRows DEF AsDelivered
    <2>2. \A d \in Districts : R[District(w, d)] \in [d_next_o_id : Nat, d_ytd : Int]
      BY StoredRows DEF AsDelivered
    <2>3. ASSUME NEW d \in Districts, NEW k \in Customers
          PROVE  /\ DOMAIN R[Customer(w, d, k)] = {"c_balance", "c_delivery_cnt", "c_data"}
                 /\ R[Customer(w, d, k)].c_delivery_cnt \in Nat
                 /\ R[Customer(w, d, k)].c_data \in Nat
                 /\ R[History(w, d, k)] \in Seq(PaymentRows)
      <3> DEFINE v == s[Customer(w, d, k)]
                 a == OrderAmount(s[OrderLine(x, y, o)])
      <3>1. /\ DOMAIN v = {"c_balance", "c_delivery_cnt", "c_data"}
            /\ v.c_delivery_cnt \in Nat /\ v.c_data \in Nat
        BY StoredRows
      <3>2. R[History(w, d, k)] \in Seq(PaymentRows)
        BY StoredSequences DEF AsDelivered
      <3>3. CASE w = x /\ d = y /\ k = c
        <4>1. R[Customer(w, d, k)] = [v EXCEPT !.c_balance = @ + a, !.c_delivery_cnt = @ + 1]
          BY <3>3 DEF AsDelivered
        <4> HIDE DEF v, a
        <4> QED BY <3>1, <3>2, <4>1
      <3>4. CASE ~ (w = x /\ d = y /\ k = c)
        BY <3>1, <3>2, <3>4 DEF AsDelivered
      <3> QED BY <3>3, <3>4
    <2>4. ASSUME NEW d \in Districts, NEW p \in OrderIds
          PROVE  /\ R[Orders(w, d, p)] \in [o_c_id : Nat, o_carrier_id : Nat, o_ol_cnt : Nat]
                 /\ R[NewOrders(w, d, p)] \in BOOLEAN
                 /\ R[OrderLine(w, d, p)] \in LinesType
      <3>1. R[OrderLine(w, d, p)] \in LinesType
        BY StoredSequences DEF AsDelivered
      <3>2. CASE w = x /\ d = y /\ p = o
        <4>1. s[Orders(x, y, o)] \in [o_c_id : Nat, o_carrier_id : Nat, o_ol_cnt : Nat]
          BY StoredRows
        <4>2. c \in Nat /\ s[Orders(x, y, o)].o_ol_cnt \in Nat
          BY <4>1 DEF AsDelivered
        <4>3. /\ R[Orders(x, y, o)] = [o_c_id |-> c, o_carrier_id |-> 1,
                                       o_ol_cnt |-> s[Orders(x, y, o)].o_ol_cnt]
              /\ R[NewOrders(x, y, o)] = FALSE
          BY DEF AsDelivered
        <4>4. [o_c_id |-> c, o_carrier_id |-> 1,
               o_ol_cnt |-> s[Orders(x, y, o)].o_ol_cnt] \in
                 [o_c_id : Nat, o_carrier_id : Nat, o_ol_cnt : Nat]
          BY <4>2
        <4> QED BY <3>1, <3>2, <4>3, <4>4
      <3>3. CASE ~ (w = x /\ d = y /\ p = o)
        BY <3>1, <3>3, StoredRows DEF AsDelivered
      <3> QED BY <3>2, <3>3
    <2>5. ASSUME NEW i \in Items PROVE R[Stock(w, i)] \in Int
      <3>1. R[Stock(w, i)] = s[Stock(w, i)]
        BY DEF AsDelivered
      <3> QED BY <3>1, StoredRows
    <2> QED BY <2>1, <2>2, <2>3, <2>4, <2>5
  <1> QED BY <1>1, TypedByTables DEF LinesType
----------------------------------------------------------------------------
(* The effects keep the four tables of the orders consistent. *)

(* A new order keeps the order tables in agreement ...                    *)
LEMMA OrderingOrders ==
    ASSUME NEW s, StoreType(s), RowsSound(s), OrdersConsistent(s),
           NEW j \in NewOrderJobs, NEW lines \in LinesType, lines # <<>>,
           NEW o \in OrderIds, o = s[District(j.w, j.d)].d_next_o_id,
           NEW R, AsOrdered(R, s, j, lines, o)
    PROVE  RowsSound(R) /\ OrdersConsistent(R) /\ Earlier(s, R)
  <1>1. /\ j.w \in Warehouses /\ j.d \in Districts /\ j.c \in Customers
        /\ Len(lines) \in Nat /\ Len(lines) # 0 /\ o \in Nat
    <2>1. j.w \in Warehouses /\ j.d \in Districts /\ j.c \in Customers
      BY DEF NewOrderJobs
    <2>2. Len(lines) \in Nat /\ Len(lines) # 0
      BY DEF LinesType
    <2>3. o \in Nat
      BY DEF OrderIds
    <2> QED BY <2>1, <2>2, <2>3
  <1>2. j.c # 0
    BY <1>1 DEF Customers
  <1> DEFINE New(w, d, p) == w = j.w /\ d = j.d /\ p = o
  <1>3. ASSUME NEW w \in Warehouses, NEW d \in Districts, NEW p \in OrderIds,
               New(w, d, p)
        PROVE  /\ R[Orders(w, d, p)].o_c_id = j.c /\ R[Orders(w, d, p)].o_carrier_id = 0
               /\ R[Orders(w, d, p)].o_ol_cnt = Len(lines)
               /\ R[NewOrders(w, d, p)] = TRUE /\ R[OrderLine(w, d, p)] = lines
    BY <1>3 DEF AsOrdered
  <1>4. ASSUME NEW w \in Warehouses, NEW d \in Districts, NEW p \in OrderIds,
               ~ New(w, d, p)
        PROVE  /\ R[Orders(w, d, p)] = s[Orders(w, d, p)]
               /\ R[NewOrders(w, d, p)] = s[NewOrders(w, d, p)]
               /\ R[OrderLine(w, d, p)] = s[OrderLine(w, d, p)]
    BY <1>4 DEF AsOrdered
  <1>5. ASSUME NEW w \in Warehouses, NEW d \in Districts
        PROVE  /\ s[District(w, d)].d_next_o_id \in Nat
               /\ R[District(w, d)].d_next_o_id =
                    IF w = j.w /\ d = j.d THEN o + 1 ELSE s[District(w, d)].d_next_o_id
    <2>1. s[District(w, d)] \in [d_next_o_id : Nat, d_ytd : Int]
      BY StoredRows
    <2>2. s[District(w, d)].d_next_o_id \in Nat
      BY <2>1
    <2> QED BY <2>2 DEF AsOrdered
  <1>6. ASSUME NEW w \in Warehouses, NEW d \in Districts, NEW c \in Customers
        PROVE  R[Customer(w, d, c)] = s[Customer(w, d, c)]
    BY DEF AsOrdered
  <1>7. \A w \in Warehouses, d \in Districts, p \in OrderIds :
          OrderExists(s, w, d, p) <=> p < s[District(w, d)].d_next_o_id
    BY DEF OrdersConsistent, OrderNumbersDense
  <1>8. RowsSound(R)
    <2> SUFFICES ASSUME NEW w \in Warehouses, NEW d \in Districts
                 PROVE  /\ \A c \in Customers : /\ R[Customer(w, d, c)].c_balance \in Int
                                                /\ R[Customer(w, d, c)].c_data = 0
                        /\ \A p \in OrderIds :
                             /\ R[Orders(w, d, p)].o_c_id # 0 <=> R[Orders(w, d, p)].o_ol_cnt # 0
                             /\ R[Orders(w, d, p)].o_c_id # 0 =>
                                  R[Orders(w, d, p)].o_c_id \in Customers
      BY DEF RowsSound, OrderExists
    <2>1. ASSUME NEW c \in Customers
          PROVE  R[Customer(w, d, c)].c_balance \in Int /\ R[Customer(w, d, c)].c_data = 0
      BY <1>6 DEF RowsSound
    <2>2. ASSUME NEW p \in OrderIds
          PROVE  /\ R[Orders(w, d, p)].o_c_id # 0 <=> R[Orders(w, d, p)].o_ol_cnt # 0
                 /\ R[Orders(w, d, p)].o_c_id # 0 => R[Orders(w, d, p)].o_c_id \in Customers
      <3>1. CASE New(w, d, p)
        BY <1>1, <1>2, <1>3, <3>1
      <3>2. CASE ~ New(w, d, p)
        BY <1>4, <3>2 DEF RowsSound, OrderExists
      <3> QED BY <3>1, <3>2
    <2> QED BY <2>1, <2>2
  <1>9. ASSUME NEW w \in Warehouses, NEW d \in Districts, NEW p \in OrderIds
        PROVE  /\ OrderExists(R, w, d, p) <=> p < R[District(w, d)].d_next_o_id
               /\ R[NewOrders(w, d, p)] <=>
                    OrderExists(R, w, d, p) /\ R[Orders(w, d, p)].o_carrier_id = 0
               /\ Len(R[OrderLine(w, d, p)]) = R[Orders(w, d, p)].o_ol_cnt
    <2>1. p \in Nat
      BY DEF OrderIds
    <2>2. CASE New(w, d, p)
      <3>1. R[District(w, d)].d_next_o_id = p + 1
        BY <1>5, <2>2
      <3>2. OrderExists(R, w, d, p)
        BY <1>2, <1>3, <2>2 DEF OrderExists
      <3>3. p < R[District(w, d)].d_next_o_id
        BY <2>1, <3>1
      <3> QED BY <1>3, <2>2, <3>2, <3>3
    <2>3. CASE ~ New(w, d, p)
      <3>1. OrderExists(R, w, d, p) <=> OrderExists(s, w, d, p)
        BY <1>4, <2>3 DEF OrderExists
      <3>2. p < R[District(w, d)].d_next_o_id <=> p < s[District(w, d)].d_next_o_id
        BY <1>1, <1>5, <2>1, <2>3
      <3>3. /\ s[NewOrders(w, d, p)] <=>
                 OrderExists(s, w, d, p) /\ s[Orders(w, d, p)].o_carrier_id = 0
            /\ Len(s[OrderLine(w, d, p)]) = s[Orders(w, d, p)].o_ol_cnt
        BY DEF OrdersConsistent, NewOrdersAreUndelivered, OrdersHaveTheirLines
      <3>4. /\ R[Orders(w, d, p)] = s[Orders(w, d, p)]
            /\ R[NewOrders(w, d, p)] = s[NewOrders(w, d, p)]
            /\ R[OrderLine(w, d, p)] = s[OrderLine(w, d, p)]
        BY <1>4, <2>3
      <3>5. OrderExists(R, w, d, p) <=> p < R[District(w, d)].d_next_o_id
        BY <1>7, <3>1, <3>2
      <3>6. R[NewOrders(w, d, p)] <=>
              OrderExists(R, w, d, p) /\ R[Orders(w, d, p)].o_carrier_id = 0
        BY <3>1, <3>3, <3>4
      <3> QED BY <3>3, <3>4, <3>5, <3>6
    <2> QED BY <2>2, <2>3
  <1>10. OrdersConsistent(R)
    BY <1>9 DEF OrdersConsistent, OrderNumbersDense, NewOrdersAreUndelivered,
                OrdersHaveTheirLines
  <1>11. Earlier(s, R)
    <2> SUFFICES ASSUME NEW w \in Warehouses, NEW d \in Districts, NEW p \in OrderIds,
                        OrderExists(s, w, d, p)
                 PROVE  ~ New(w, d, p)
      BY <1>4 DEF Earlier
    <2>1. p < s[District(w, d)].d_next_o_id
      BY <1>7
    <2> QED BY <1>1, <2>1
  <1> QED BY <1>8, <1>10, <1>11

(* ... and so does a payment ...                                          *)
LEMMA PayingOrders ==
    ASSUME NEW s, StoreType(s), RowsSound(s), OrdersConsistent(s),
           NEW j \in PaymentJobs, NEW c \in Customers, NEW R, AsPaid(R, s, j, c)
    PROVE  RowsSound(R) /\ OrdersConsistent(R) /\ Earlier(s, R)
  <1>1. ASSUME NEW w \in Warehouses, NEW d \in Districts, NEW p \in OrderIds
        PROVE  /\ R[Orders(w, d, p)] = s[Orders(w, d, p)]
               /\ R[NewOrders(w, d, p)] = s[NewOrders(w, d, p)]
               /\ R[OrderLine(w, d, p)] = s[OrderLine(w, d, p)]
    BY DEF AsPaid
  <1>2. ASSUME NEW w \in Warehouses, NEW d \in Districts
        PROVE  R[District(w, d)].d_next_o_id = s[District(w, d)].d_next_o_id
    BY DEF AsPaid
  <1>3. ASSUME NEW w \in Warehouses, NEW d \in Districts, NEW k \in Customers
        PROVE  R[Customer(w, d, k)].c_balance \in Int /\ R[Customer(w, d, k)].c_data = 0
    <2> DEFINE v == s[Customer(w, d, k)]
    <2>1. v.c_balance \in Int /\ v.c_data = 0
      BY DEF RowsSound
    <2>2. DOMAIN v = {"c_balance", "c_delivery_cnt", "c_data"}
      BY StoredRows
    <2>3. CASE w = j.c_w /\ d = j.c_d /\ k = c
      <3>1. R[Customer(w, d, k)] = [v EXCEPT !.c_balance = @ + j.h_amount]
        BY <2>3 DEF AsPaid
      <3>2. j.h_amount \in Int
        BY PaymentAmount
      <3> HIDE DEF v
      <3> QED BY <2>1, <2>2, <3>1, <3>2
    <2>4. CASE ~ (w = j.c_w /\ d = j.c_d /\ k = c)
      BY <2>1, <2>4 DEF AsPaid
    <2> QED BY <2>3, <2>4
  <1>4. RowsSound(R)
    BY <1>1, <1>3 DEF RowsSound, OrderExists
  <1>5. OrdersConsistent(R)
    BY <1>1, <1>2 DEF OrdersConsistent, OrderNumbersDense, NewOrdersAreUndelivered,
                      OrdersHaveTheirLines, OrderExists
  <1>6. Earlier(s, R)
    BY <1>1 DEF Earlier
  <1> QED BY <1>4, <1>5, <1>6

(* ... and a delivery.                                                    *)
LEMMA DeliveringOrders ==
    ASSUME NEW s, StoreType(s), RowsSound(s), OrdersConsistent(s),
           NEW x \in Warehouses, NEW y \in Districts, NEW o \in OrderIds,
           NEW c \in Customers, NEW R, AsDelivered(R, s, x, y, o, c)
    PROVE  RowsSound(R) /\ OrdersConsistent(R) /\ Earlier(s, R)
  <1>1. c # 0 /\ c = s[Orders(x, y, o)].o_c_id
    BY DEF Customers, AsDelivered
  <1>2. ASSUME NEW w \in Warehouses, NEW d \in Districts, NEW p \in OrderIds
        PROVE  /\ R[Orders(w, d, p)].o_c_id = s[Orders(w, d, p)].o_c_id
               /\ R[Orders(w, d, p)].o_ol_cnt = s[Orders(w, d, p)].o_ol_cnt
               /\ R[OrderLine(w, d, p)] = s[OrderLine(w, d, p)]
               /\ IF w = x /\ d = y /\ p = o
                  THEN R[Orders(w, d, p)].o_carrier_id = 1 /\ R[NewOrders(w, d, p)] = FALSE
                  ELSE /\ R[Orders(w, d, p)].o_carrier_id = s[Orders(w, d, p)].o_carrier_id
                       /\ R[NewOrders(w, d, p)] = s[NewOrders(w, d, p)]
    <2>1. R[OrderLine(w, d, p)] = s[OrderLine(w, d, p)]
      BY DEF AsDelivered
    <2>2. CASE w = x /\ d = y /\ p = o
      <3>1. /\ R[Orders(w, d, p)] = [o_c_id |-> c, o_carrier_id |-> 1,
                                     o_ol_cnt |-> s[Orders(w, d, p)].o_ol_cnt]
            /\ R[NewOrders(w, d, p)] = FALSE
        BY <2>2 DEF AsDelivered
      <3> QED BY <1>1, <2>1, <2>2, <3>1
    <2>3. CASE ~ (w = x /\ d = y /\ p = o)
      <3>1. R[Orders(w, d, p)] = s[Orders(w, d, p)] /\ R[NewOrders(w, d, p)] = s[NewOrders(w, d, p)]
        BY <2>3 DEF AsDelivered
      <3> QED BY <2>1, <2>3, <3>1
    <2> QED BY <2>2, <2>3
  <1>3. ASSUME NEW w \in Warehouses, NEW d \in Districts
        PROVE  R[District(w, d)] = s[District(w, d)]
    BY DEF AsDelivered
  <1>4. ASSUME NEW w \in Warehouses, NEW d \in Districts, NEW k \in Customers
        PROVE  R[Customer(w, d, k)].c_balance \in Int /\ R[Customer(w, d, k)].c_data = 0
    <2> DEFINE v == s[Customer(w, d, k)]
               a == OrderAmount(s[OrderLine(x, y, o)])
    <2>1. v.c_balance \in Int /\ v.c_data = 0
      BY DEF RowsSound
    <2>2. DOMAIN v = {"c_balance", "c_delivery_cnt", "c_data"}
      BY StoredRows
    <2>3. CASE w = x /\ d = y /\ k = c
      <3>1. R[Customer(w, d, k)] = [v EXCEPT !.c_balance = @ + a, !.c_delivery_cnt = @ + 1]
        BY <2>3 DEF AsDelivered
      <3>2. a \in Int
        <4>1. s[OrderLine(x, y, o)] \in LinesType
          BY StoredSequences
        <4> QED BY <4>1, LinesAmount
      <3> HIDE DEF v, a
      <3> QED BY <2>1, <2>2, <3>1, <3>2
    <2>4. CASE ~ (w = x /\ d = y /\ k = c)
      BY <2>1, <2>4 DEF AsDelivered
    <2> QED BY <2>3, <2>4
  <1>5. RowsSound(R)
    <2>1. ASSUME NEW w \in Warehouses, NEW d \in Districts, NEW p \in OrderIds
          PROVE  /\ R[Orders(w, d, p)].o_c_id # 0 <=> R[Orders(w, d, p)].o_ol_cnt # 0
                 /\ R[Orders(w, d, p)].o_c_id # 0 => R[Orders(w, d, p)].o_c_id \in Customers
      <3>1. /\ s[Orders(w, d, p)].o_c_id # 0 <=> s[Orders(w, d, p)].o_ol_cnt # 0
            /\ s[Orders(w, d, p)].o_c_id # 0 => s[Orders(w, d, p)].o_c_id \in Customers
        BY DEF RowsSound, OrderExists
      <3> QED BY <1>2, <3>1
    <2> QED BY <1>4, <2>1 DEF RowsSound, OrderExists
  <1>6. OrdersConsistent(R)
    <2>1. ASSUME NEW w \in Warehouses, NEW d \in Districts, NEW p \in OrderIds
          PROVE  /\ OrderExists(R, w, d, p) <=> p < R[District(w, d)].d_next_o_id
                 /\ R[NewOrders(w, d, p)] <=>
                      OrderExists(R, w, d, p) /\ R[Orders(w, d, p)].o_carrier_id = 0
                 /\ Len(R[OrderLine(w, d, p)]) = R[Orders(w, d, p)].o_ol_cnt
      <3>1. /\ s[Orders(w, d, p)].o_c_id # 0 <=> p < s[District(w, d)].d_next_o_id
            /\ s[NewOrders(w, d, p)] <=>
                 s[Orders(w, d, p)].o_c_id # 0 /\ s[Orders(w, d, p)].o_carrier_id = 0
            /\ Len(s[OrderLine(w, d, p)]) = s[Orders(w, d, p)].o_ol_cnt
        BY DEF OrdersConsistent, OrderNumbersDense, NewOrdersAreUndelivered,
               OrdersHaveTheirLines, OrderExists
      <3>2. OrderExists(R, w, d, p) <=> s[Orders(w, d, p)].o_c_id # 0
        BY <1>2 DEF OrderExists
      <3>3. R[NewOrders(w, d, p)] <=>
              OrderExists(R, w, d, p) /\ R[Orders(w, d, p)].o_carrier_id = 0
        <4>1. CASE w = x /\ d = y /\ p = o
          <5>1. R[Orders(w, d, p)].o_carrier_id = 1 /\ R[NewOrders(w, d, p)] = FALSE
            BY <1>2, <4>1
          <5>2. R[Orders(w, d, p)].o_carrier_id # 0 /\ ~ R[NewOrders(w, d, p)]
            BY <5>1
          <5> QED BY <5>2
        <4>2. CASE ~ (w = x /\ d = y /\ p = o)
          BY <1>2, <3>1, <3>2, <4>2
        <4> QED BY <4>1, <4>2
      <3> QED BY <1>2, <1>3, <3>1, <3>2, <3>3
    <2> QED BY <2>1 DEF OrdersConsistent, OrderNumbersDense, NewOrdersAreUndelivered,
                        OrdersHaveTheirLines
  <1>7. Earlier(s, R)
    BY <1>2 DEF Earlier
  <1> QED BY <1>5, <1>6, <1>7

(* Earlier is transitive.                                                 *)
LEMMA EarlierTransitive ==
    ASSUME NEW q, NEW r, NEW s, Earlier(q, r), Earlier(r, s)
    PROVE  Earlier(q, s)
  BY DEF Earlier, OrderExists
----------------------------------------------------------------------------
(* The effects keep the totals. *)

(* There are finitely many customers and orders.                          *)
LEMMA KeysFinite == IsFiniteSet(CustomerKeys) /\ IsFiniteSet(OrderKeys)
  <1>1. /\ IsFiniteSet(Warehouses) /\ IsFiniteSet(Districts)
        /\ IsFiniteSet(Customers) /\ IsFiniteSet(OrderIds)
    <2>1. NumWare \in Int /\ DistPerWare \in Int /\ CustPerDist \in Int /\ MaxOrderId \in Int
      BY SchemaAssumption
    <2> QED BY <2>1, FS_Interval DEF Warehouses, Districts, Customers, OrderIds
  <1> DEFINE f(S) == {<<w, d, x>> : w \in Warehouses, d \in Districts, x \in S}
  <1>2. IsFiniteSet(Warehouses \X Districts)
    BY <1>1, FS_Product
  <1>3. ASSUME NEW S, IsFiniteSet(S) PROVE IsFiniteSet(Warehouses \X Districts \X S)
    <2> DEFINE P == (Warehouses \X Districts) \X S
    <2>1. IsFiniteSet(P)
      BY <1>2, <1>3, FS_Product
    <2> DEFINE g == [p \in P |-> <<p[1][1], p[1][2], p[2]>>]
    <2>2. ASSUME NEW w \in Warehouses, NEW d \in Districts, NEW x \in S
          PROVE  \E p \in P : g[p] = <<w, d, x>>
      <3>1. <<<<w, d>>, x>> \in P /\ g[<<<<w, d>>, x>>] = <<w, d, x>>
        OBVIOUS
      <3> QED BY <3>1
    <2>3. g \in Surjection(P, Warehouses \X Districts \X S)
      <3>1. ASSUME NEW t \in Warehouses \X Districts \X S PROVE \E p \in P : g[p] = t
        <4>1. PICK w \in Warehouses, d \in Districts, x \in S : t = <<w, d, x>>
          OBVIOUS
        <4> HIDE DEF g, P
        <4> QED BY <2>2, <4>1
      <3>2. g \in [P -> Warehouses \X Districts \X S]
        OBVIOUS
      <3> HIDE DEF g, P
      <3> QED BY <3>1, <3>2 DEF Surjection
    <2> QED BY <2>1, <2>3, FS_Surjection
  <1> QED BY <1>1, <1>3 DEF CustomerKeys, OrderKeys

(* A payment adds its amount to every total it counts in, and to no       *)
(* other.                                                                 *)
LEMMA PaidAfterPaying ==
    ASSUME NEW s, StoreType(s), NEW j \in PaymentJobs, NEW c \in Customers,
           NEW R, AsPaid(R, s, j, c), NEW H, NEW e,
           e = [h_w_id |-> j.w, h_d_id |-> j.d, h_amount |-> j.h_amount]
    PROVE  /\ PaidIn(s, H) \in Int
           /\ PaidIn(R, H) = PaidIn(s, H) + (IF e \in H THEN j.h_amount ELSE 0)
  <1> DEFINE f == [k \in CustomerKeys |-> HistorySum(s[History(k[1], k[2], k[3])], H)]
             h == [k \in CustomerKeys |-> HistorySum(R[History(k[1], k[2], k[3])], H)]
             y == <<j.c_w, j.c_d, c>>
  <1>1. e \in PaymentRows /\ e.h_amount = j.h_amount /\ j.h_amount \in Int
    <2>1. j.w \in Warehouses /\ j.d \in Districts
      BY DEF PaymentJobs
    <2>2. j.h_amount \in Int
      BY PaymentAmount
    <2> QED BY <2>1, <2>2 DEF PaymentRows
  <1>2. j.c_w \in Warehouses /\ j.c_d \in Districts
    BY DEF PaymentJobs
  <1>3. y \in CustomerKeys /\ y[1] = j.c_w /\ y[2] = j.c_d /\ y[3] = c
    BY <1>2 DEF CustomerKeys
  <1>4. ASSUME NEW k \in CustomerKeys
        PROVE  /\ k[1] \in Warehouses /\ k[2] \in Districts /\ k[3] \in Customers
               /\ s[History(k[1], k[2], k[3])] \in Seq(PaymentRows)
    BY StoredSequences DEF CustomerKeys
  <1>5. ASSUME NEW k \in CustomerKeys, k # y
        PROVE  R[History(k[1], k[2], k[3])] = s[History(k[1], k[2], k[3])]
    <2>1. ~ (k[1] = j.c_w /\ k[2] = j.c_d /\ k[3] = c)
      BY <1>3, <1>5 DEF CustomerKeys
    <2> QED BY <1>4, <2>1 DEF AsPaid
  <1>6. R[History(y[1], y[2], y[3])] = Append(s[History(y[1], y[2], y[3])], e)
    BY <1>3 DEF AsPaid
  <1>7. ASSUME NEW k \in CustomerKeys PROVE f[k] \in Int
    <2> DEFINE q == s[History(k[1], k[2], k[3])]
    <2>1. q \in Seq(PaymentRows) /\ f[k] = HistorySum(q, H)
      BY <1>4
    <2> HIDE DEF q, f
    <2>2. HistorySum(q, H) \in Int
      BY <1>1, <2>1, HistoryAppend DEF OneMore
    <2> QED BY <2>1, <2>2
  <1>8. h[y] \in Int /\ h[y] = f[y] + (IF e \in H THEN j.h_amount ELSE 0)
    <2>1. HistorySum(R[History(y[1], y[2], y[3])], H) =
            HistorySum(s[History(y[1], y[2], y[3])], H) + (IF e \in H THEN e.h_amount ELSE 0)
      <3> DEFINE q == s[History(y[1], y[2], y[3])]
                 r == R[History(y[1], y[2], y[3])]
      <3>1. q \in Seq(PaymentRows) /\ OneMore(r, q, e)
        BY <1>3, <1>4, <1>6 DEF OneMore
      <3> HIDE DEF q, r
      <3>2. e \in PaymentRows
        BY <1>1
      <3>3. HistorySum(r, H) = HistorySum(q, H) + (IF e \in H THEN e.h_amount ELSE 0)
        BY ONLY <3>1, <3>2, HistoryAppend
      <3> QED BY <3>3 DEF q, r
    <2>2. h[y] = f[y] + (IF e \in H THEN j.h_amount ELSE 0)
      BY <1>1, <1>3, <2>1
    <2>3. f[y] \in Int
      BY <1>3, <1>7
    <2> HIDE DEF f, h
    <2> QED BY <1>1, <2>2, <2>3
  <1>9. \A k \in CustomerKeys \ {y} : f[k] = h[k]
    BY <1>5
  <1>10. PaidIn(s, H) = SumFunctionOnSet(f, CustomerKeys)
         /\ PaidIn(R, H) = SumFunctionOnSet(h, CustomerKeys)
    BY DEF PaidIn
  <1> HIDE DEF f, h, y
  <1>11. \A k \in CustomerKeys : f[k] \in Int /\ h[k] \in Int
    BY <1>7, <1>8, <1>9
  <1>12. SumFunctionOnSet(h, CustomerKeys) = SumFunctionOnSet(f, CustomerKeys) + (h[y] - f[y])
    BY <1>3, <1>9, <1>11, KeysFinite, SumChange
  <1>13. SumFunctionOnSet(f, CustomerKeys) \in Int
    BY <1>11, KeysFinite, SumType
  <1>14. f[y] \in Int
    BY <1>3, <1>11
  <1> QED BY <1>1, <1>8, <1>10, <1>12, <1>13, <1>14

(* What is paid depends on the history rows only.                         *)
LEMMA SamePaid ==
    ASSUME NEW s, NEW R, NEW H,
           \A w \in Warehouses, d \in Districts, c \in Customers :
             R[History(w, d, c)] = s[History(w, d, c)]
    PROVE  PaidIn(R, H) = PaidIn(s, H)
  BY DEF PaidIn, CustomerKeys

(* The totals of warehouses and districts in terms of PaidIn. *)
YtdIsPaid(s) ==
    /\ \A w \in Warehouses :
         s[Warehouse(w)].w_ytd - 3000000 = PaidIn(s, AtWarehouse(w))
    /\ \A w \in Warehouses, d \in Districts :
         s[District(w, d)].d_ytd - 30000 = PaidIn(s, AtDistrict(w, d))

(* The year-to-date condition in terms of PaidIn.                         *)
LEMMA YtdIs == ASSUME NEW s, StoreType(s) PROVE YtdAddsUp(s) <=> YtdIsPaid(s)
  <1> DEFINE A(w) == Paid(s, LAMBDA h : h.h_w_id = w)
             B(w, d) == Paid(s, LAMBDA h : h.h_w_id = w /\ h.h_d_id = d)
  <1>1. YtdAddsUp(s) <=>
          \A w \in Warehouses :
            /\ s[Warehouse(w)].w_ytd - 3000000 = A(w)
            /\ \A d \in Districts : s[District(w, d)].d_ytd - 30000 = B(w, d)
    BY SMT DEF YtdAddsUp
  <1>2. ASSUME NEW w \in Warehouses, NEW d \in Districts
        PROVE  A(w) = PaidIn(s, AtWarehouse(w)) /\ B(w, d) = PaidIn(s, AtDistrict(w, d))
    <2> DEFINE P(p) == p.h_w_id = w
               Q(p) == p.h_w_id = w /\ p.h_d_id = d
               h(k) == s[History(k[1], k[2], k[3])]
    <2>1. ASSUME NEW k \in CustomerKeys
          PROVE  /\ {i \in DOMAIN h(k) : P(h(k)[i])} = PartOf(h(k), AtWarehouse(w))
                 /\ {i \in DOMAIN h(k) : Q(h(k)[i])} = PartOf(h(k), AtDistrict(w, d))
      <3>1. h(k) \in Seq(PaymentRows)
        BY StoredRows DEF CustomerKeys, PaymentRows
      <3>2. \A i \in DOMAIN h(k) : h(k)[i] \in PaymentRows
        BY <3>1
      <3> HIDE DEF h
      <3> QED BY <3>2 DEF PartOf, AtWarehouse, AtDistrict
    <2>2. ASSUME NEW k \in CustomerKeys
          PROVE  /\ SumOver({i \in DOMAIN h(k) : P(h(k)[i])}, LAMBDA i : h(k)[i].h_amount)
                      = HistorySum(h(k), AtWarehouse(w))
                 /\ SumOver({i \in DOMAIN h(k) : Q(h(k)[i])}, LAMBDA i : h(k)[i].h_amount)
                      = HistorySum(h(k), AtDistrict(w, d))
      BY <2>1 DEF SumOver, SumFunction, HistorySum
    <2> DEFINE f == [k \in CustomerKeys |->
                  SumOver({i \in DOMAIN h(k) : P(h(k)[i])}, LAMBDA i : h(k)[i].h_amount)]
               g == [k \in CustomerKeys |->
                  SumOver({i \in DOMAIN h(k) : Q(h(k)[i])}, LAMBDA i : h(k)[i].h_amount)]
    <2>3. /\ Paid(s, LAMBDA p : p.h_w_id = w) = SumFunctionOnSet(f, CustomerKeys)
          /\ Paid(s, LAMBDA p : p.h_w_id = w /\ p.h_d_id = d) = SumFunctionOnSet(g, CustomerKeys)
      BY DEF Paid, SumOver, SumFunction
    <2>4. /\ f = [k \in CustomerKeys |-> HistorySum(h(k), AtWarehouse(w))]
          /\ g = [k \in CustomerKeys |-> HistorySum(h(k), AtDistrict(w, d))]
      BY <2>2
    <2> HIDE DEF f, g
    <2> QED BY <2>3, <2>4 DEF PaidIn
  <1> HIDE DEF A, B
  <1>3. ASSUME NEW w \in Warehouses PROVE A(w) = PaidIn(s, AtWarehouse(w))
    <2>1. 1 \in Districts
      BY SchemaAssumption DEF Districts
    <2> QED BY <1>2, <2>1
  <1> QED BY <1>1, <1>2, <1>3 DEF YtdIsPaid

(* A payment adds to the year-to-date totals what it adds to the history. *)
LEMMA PayingYtd ==
    ASSUME NEW s, StoreType(s), YtdAddsUp(s), NEW j \in PaymentJobs, NEW c \in Customers,
           NEW R, StoreType(R), AsPaid(R, s, j, c)
    PROVE  YtdAddsUp(R)
  <1> DEFINE e == [h_w_id |-> j.w, h_d_id |-> j.d, h_amount |-> j.h_amount]
  <1>1. YtdIsPaid(s)
    BY YtdIs
  <1>2. /\ j.w \in Warehouses /\ j.d \in Districts /\ j.h_amount \in Int
        /\ e \in PaymentRows /\ e.h_w_id = j.w /\ e.h_d_id = j.d
    <2>1. j.w \in Warehouses /\ j.d \in Districts
      BY DEF PaymentJobs
    <2>2. j.h_amount \in Int
      BY PaymentAmount
    <2> QED BY <2>1, <2>2 DEF PaymentRows
  <1>3. ASSUME NEW H
        PROVE  /\ PaidIn(s, H) \in Int
               /\ PaidIn(R, H) = PaidIn(s, H) + (IF e \in H THEN j.h_amount ELSE 0)
    BY PaidAfterPaying
  <1>4. ASSUME NEW w \in Warehouses
        PROVE  R[Warehouse(w)].w_ytd - 3000000 = PaidIn(R, AtWarehouse(w))
    <2>1. e \in AtWarehouse(w) <=> w = j.w
      BY <1>2 DEF AtWarehouse
    <2>2. R[Warehouse(w)].w_ytd = s[Warehouse(w)].w_ytd + (IF w = j.w THEN j.h_amount ELSE 0)
      <3>1. R[Warehouse(w)] = [w_ytd |-> s[Warehouse(w)].w_ytd +
                                          (IF w = j.w THEN j.h_amount ELSE 0)]
        BY DEF AsPaid
      <3> QED BY <3>1
    <2>3. s[Warehouse(w)].w_ytd \in Int
      BY StoredRows
    <2>4. s[Warehouse(w)].w_ytd - 3000000 = PaidIn(s, AtWarehouse(w))
      BY <1>1 DEF YtdIsPaid
    <2> HIDE DEF e
    <2> QED BY <1>2, <1>3, <2>1, <2>2, <2>3, <2>4
  <1>5. ASSUME NEW w \in Warehouses, NEW d \in Districts
        PROVE  R[District(w, d)].d_ytd - 30000 = PaidIn(R, AtDistrict(w, d))
    <2>1. e \in AtDistrict(w, d) <=> w = j.w /\ d = j.d
      BY <1>2 DEF AtDistrict
    <2>2. R[District(w, d)].d_ytd =
            s[District(w, d)].d_ytd + (IF w = j.w /\ d = j.d THEN j.h_amount ELSE 0)
      BY DEF AsPaid
    <2>3. s[District(w, d)].d_ytd \in Int
      <3>1. s[District(w, d)] \in [d_next_o_id : Nat, d_ytd : Int]
        BY StoredRows
      <3> QED BY <3>1
    <2>4. s[District(w, d)].d_ytd - 30000 = PaidIn(s, AtDistrict(w, d))
      BY <1>1 DEF YtdIsPaid
    <2> HIDE DEF e
    <2> QED BY <1>2, <1>3, <2>1, <2>2, <2>3, <2>4
  <1>6. YtdIsPaid(R)
    BY <1>4, <1>5 DEF YtdIsPaid
  <1> QED BY <1>6, YtdIs

(* Transactions that touch neither totals nor histories. *)
LEMMA SameYtd ==
    ASSUME NEW s, StoreType(s), YtdAddsUp(s), NEW R, StoreType(R),
           \A w \in Warehouses : R[Warehouse(w)] = s[Warehouse(w)],
           \A w \in Warehouses, d \in Districts :
             R[District(w, d)].d_ytd = s[District(w, d)].d_ytd,
           \A w \in Warehouses, d \in Districts, c \in Customers :
             R[History(w, d, c)] = s[History(w, d, c)]
    PROVE  YtdAddsUp(R)
  <1>1. \A H : PaidIn(R, H) = PaidIn(s, H)
    BY SamePaid
  <1>2. YtdIsPaid(s)
    BY YtdIs
  <1>3. YtdIsPaid(R)
    BY <1>1, <1>2 DEF YtdIsPaid
  <1> QED BY <1>3, YtdIs

(* What a stored order asks for is a natural number, 0 if all its lines   *)
(* ask for 0.                                                             *)
LEMMA AskedOfStored ==
    ASSUME NEW lines \in LinesType, NEW w, NEW i
    PROVE  /\ Asked(lines, w, i) \in Nat
           /\ (\A n \in DOMAIN lines : lines[n].ol_quantity = 0) => Asked(lines, w, i) = 0
  <1> DEFINE L == [ol_i_id : Nat, ol_supply_w_id : Nat, ol_quantity : Nat]
  <1>1. lines \in Seq(L) /\ \A l \in L : l.ol_quantity \in Nat
    BY DEF LinesType
  <1> HIDE DEF L
  <1>2. \A n \in DOMAIN lines : lines[n] \in L
    BY <1>1
  <1>3. \A n \in DOMAIN lines : lines[n].ol_quantity \in Nat
    BY <1>1, <1>2
  <1> QED BY <1>1, <1>3, AskedNat

(* A new order adds what it asks for to what was ordered.                 *)
LEMMA OrderedAfterOrdering ==
    ASSUME NEW s, StoreType(s), NEW j \in NewOrderJobs, NEW lines \in LinesType,
           NEW o \in OrderIds, s[OrderLine(j.w, j.d, o)] = <<>>,
           NEW R, AsOrdered(R, s, j, lines, o), NEW w \in Warehouses, NEW i \in Items
    PROVE  /\ Ordered(s, w, i) \in Int
           /\ Ordered(R, w, i) = Ordered(s, w, i) + Asked(lines, w, i)
  <1> DEFINE f == [k \in OrderKeys |-> Asked(s[OrderLine(k[1], k[2], k[3])], w, i)]
             h == [k \in OrderKeys |-> Asked(R[OrderLine(k[1], k[2], k[3])], w, i)]
             y == <<j.w, j.d, o>>
  <1>1. /\ j.w \in Warehouses /\ j.d \in Districts
        /\ y \in OrderKeys /\ y[1] = j.w /\ y[2] = j.d /\ y[3] = o
    BY DEF NewOrderJobs, OrderKeys
  <1>2. ASSUME NEW k \in OrderKeys
        PROVE  k[1] \in Warehouses /\ k[2] \in Districts /\ k[3] \in OrderIds
    BY DEF OrderKeys
  <1>3. ASSUME NEW k \in OrderKeys PROVE f[k] \in Int
    <2> DEFINE q == s[OrderLine(k[1], k[2], k[3])]
    <2>1. q \in LinesType /\ f[k] = Asked(q, w, i)
      BY <1>2, StoredSequences
    <2> HIDE DEF q, f
    <2>2. Asked(q, w, i) \in Nat
      BY <2>1, AskedOfStored
    <2> QED BY <2>1, <2>2
  <1>4. ASSUME NEW k \in OrderKeys \ {y} PROVE f[k] = h[k]
    <2>1. ~ (k[1] = j.w /\ k[2] = j.d /\ k[3] = o)
      BY <1>1 DEF OrderKeys
    <2>2. R[OrderLine(k[1], k[2], k[3])] = s[OrderLine(k[1], k[2], k[3])]
      BY <1>2, <2>1 DEF AsOrdered
    <2> QED BY <2>2
  <1>5. f[y] = 0 /\ h[y] = Asked(lines, w, i)
    <2>1. s[OrderLine(y[1], y[2], y[3])] = <<>> /\ R[OrderLine(y[1], y[2], y[3])] = lines
      BY <1>1 DEF AsOrdered
    <2>2. Asked(<<>>, w, i) = 0
      <3>1. AskedAt(<<>>, w, i) = {}
        BY DEF AskedAt
      <3> QED BY <3>1, SumEmpty DEF Asked
    <2> QED BY <1>1, <2>1, <2>2
  <1>6. /\ Ordered(s, w, i) = SumFunctionOnSet(f, OrderKeys)
        /\ Ordered(R, w, i) = SumFunctionOnSet(h, OrderKeys)
    BY OrderedIs
  <1>7. Asked(lines, w, i) \in Nat
    BY AskedOfStored
  <1> HIDE DEF f, h, y
  <1>8. \A k \in OrderKeys : f[k] \in Int /\ h[k] \in Int
    BY <1>3, <1>4, <1>5, <1>7
  <1>9. SumFunctionOnSet(h, OrderKeys) = SumFunctionOnSet(f, OrderKeys) + (h[y] - f[y])
    BY <1>1, <1>4, <1>8, KeysFinite, SumChange
  <1>10. SumFunctionOnSet(f, OrderKeys) \in Int
    BY <1>8, KeysFinite, SumType
  <1> QED BY <1>5, <1>6, <1>7, <1>9, <1>10

(* A new order takes from the stock what it adds to what was ordered.     *)
LEMMA OrderingStock ==
    ASSUME NEW s, StoreType(s), StockAddsUp(s), NEW j \in NewOrderJobs,
           NEW lines \in LinesType, \A n \in DOMAIN lines : lines[n].ol_quantity \in 1 .. 10,
           NEW o \in OrderIds, s[OrderLine(j.w, j.d, o)] = <<>>,
           NEW R, AsOrdered(R, s, j, lines, o)
    PROVE  StockAddsUp(R)
  <1> SUFFICES ASSUME NEW w \in Warehouses, NEW i \in Items
               PROVE  /\ R[Stock(w, i)] \in 1 .. 100
                      /\ (InitStock - Ordered(R, w, i) - R[Stock(w, i)]) % 91 = 0
    BY DEF StockAddsUp
  <1> DEFINE q == s[Stock(w, i)]
             p == R[Stock(w, i)]
             a == Ordered(s, w, i)
             b == Asked(lines, w, i)
  <1>1. q \in 1 .. 100 /\ (InitStock - a - q) % 91 = 0
    BY DEF StockAddsUp
  <1>2. p = QuantityAfter(q, lines, w, i)
    BY DEF AsOrdered
  <1>3. p \in 1 .. 100 /\ (q - b - p) % 91 = 0
    <2> HIDE DEF q, p, b
    <2>1. \E T : lines \in Seq(T)
      BY DEF LinesType
    <2> QED BY <1>1, <1>2, <2>1, StockAfterLines DEF b
  <1>4. a \in Int /\ Ordered(R, w, i) = a + b
    BY OrderedAfterOrdering
  <1>5. b \in Nat /\ InitStock \in Int
    BY AskedOfStored, SchemaAssumption
  <1> HIDE DEF q, p, a, b
  <1>6. (InitStock - (a + b) - p) % 91 = 0
    <2>1. InitStock - (a + b) - p = (InitStock - a - q) + (q - b - p)
      BY <1>1, <1>3, <1>4, <1>5
    <2> DEFINE m == InitStock - a - q
               n == q - b - p
    <2>2. m \in Int /\ n \in Int /\ m % 91 = 0 /\ n % 91 = 0
      BY <1>1, <1>3, <1>4, <1>5
    <2>3. (m + n) % 91 = 0
      <3> HIDE DEF m, n
      <3> QED BY <2>2
    <2> QED BY <2>1, <2>3
  <1> QED BY <1>3, <1>4, <1>6 DEF p

(* The stock condition depends on order lines and stock only.             *)
LEMMA SameStock ==
    ASSUME NEW s, StockAddsUp(s), NEW R,
           \A w \in Warehouses, i \in Items : R[Stock(w, i)] = s[Stock(w, i)],
           \A w \in Warehouses, d \in Districts, o \in OrderIds :
             R[OrderLine(w, d, o)] = s[OrderLine(w, d, o)]
    PROVE  StockAddsUp(R)
  <1>1. ASSUME NEW w \in Warehouses, NEW i \in Items
        PROVE  Ordered(R, w, i) = Ordered(s, w, i)
    <2>1. \A k \in OrderKeys : Asked(R[OrderLine(k[1], k[2], k[3])], w, i)
                             = Asked(s[OrderLine(k[1], k[2], k[3])], w, i)
      BY DEF OrderKeys
    <2> QED BY <2>1, OrderedIs
  <1> QED BY <1>1 DEF StockAddsUp
(* DueCredit, with the sums over all payments and over all orders. *)
AmountOf(s, w, d) == [o \in OrderIds |-> OrderAmount(s[OrderLine(w, d, o)])]
CreditOf(s, w, d, c) ==
    HistorySum(s[History(w, d, c)], PaymentRows)
      + SumFunctionOnSet(AmountOf(s, w, d), DeliveredTo(s, w, d, c))

(* Finitely many orders are delivered.                                    *)
LEMMA DeliveredFinite ==
    ASSUME NEW s, NEW w, NEW d, NEW c
    PROVE  IsFiniteSet(DeliveredTo(s, w, d, c)) /\ DeliveredTo(s, w, d, c) \subseteq OrderIds
  <1>1. DeliveredTo(s, w, d, c) \in SUBSET OrderIds
    BY DEF DeliveredTo
  <1>2. IsFiniteSet(OrderIds)
    <2>1. MaxOrderId \in Int
      BY SchemaAssumption
    <2> QED BY <2>1, FS_Interval DEF OrderIds
  <1> QED BY <1>1, <1>2, FS_Subset

(* The credit due to a customer as two sums.                              *)
LEMMA CreditIs ==
    ASSUME NEW s, StoreType(s), NEW w \in Warehouses, NEW d \in Districts, NEW c \in Customers
    PROVE  DueCredit(s, w, d, c) = CreditOf(s, w, d, c)
  <1> DEFINE h == s[History(w, d, c)]
             D == DeliveredTo(s, w, d, c)
             f == [i \in DOMAIN h |-> h[i].h_amount]
             g == [o \in D |-> OrderAmount(s[OrderLine(w, d, o)])]
  <1>1. DueCredit(s, w, d, c) = SumFunctionOnSet(f, DOMAIN h) + SumFunctionOnSet(g, D)
    BY DEF DueCredit, SumOver, SumFunction
  <1>2. HistorySum(h, PaymentRows) = SumFunctionOnSet(f, DOMAIN h)
    <2>1. h \in Seq(PaymentRows)
      BY StoredSequences
    <2> HIDE DEF h
    <2>2. PartOf(h, PaymentRows) = DOMAIN h
      <3>1. \A i \in DOMAIN h : h[i] \in PaymentRows
        BY <2>1
      <3> QED BY <3>1 DEF PartOf
    <2> QED BY <2>2 DEF HistorySum
  <1>3. SumFunctionOnSet(g, D) = SumFunctionOnSet(AmountOf(s, w, d), D)
    <2>1. \A o \in D : g[o] = AmountOf(s, w, d)[o]
      BY DeliveredFinite DEF AmountOf
    <2> HIDE DEF g, D
    <2>2. IsFiniteSet(D)
      BY DeliveredFinite DEF D
    <2> QED BY <2>1, <2>2, SumSame
  <1> QED BY <1>1, <1>2, <1>3 DEF CreditOf

(* Both are integers.                                                     *)
LEMMA CreditInt ==
    ASSUME NEW s, StoreType(s), NEW w \in Warehouses, NEW d \in Districts, NEW c \in Customers
    PROVE  /\ HistorySum(s[History(w, d, c)], PaymentRows) \in Int
           /\ SumFunctionOnSet(AmountOf(s, w, d), DeliveredTo(s, w, d, c)) \in Int
           /\ \A o \in OrderIds : AmountOf(s, w, d)[o] \in Nat
  <1>1. HistorySum(s[History(w, d, c)], PaymentRows) \in Int
    <2> DEFINE h == s[History(w, d, c)]
               e == [h_w_id |-> w, h_d_id |-> d, h_amount |-> 0]
    <2>0. e \in PaymentRows
      BY DEF PaymentRows
    <2>1. h \in Seq(PaymentRows) /\ e \in PaymentRows
      BY <2>0, StoredSequences
    <2> HIDE DEF h, e
    <2>2. HistorySum(h, PaymentRows) \in Int
      BY <2>1, HistoryAppend DEF OneMore
    <2> QED BY <2>2 DEF h
  <1>2. ASSUME NEW o \in OrderIds PROVE AmountOf(s, w, d)[o] \in Nat
    <2>1. s[OrderLine(w, d, o)] \in LinesType
      BY StoredSequences
    <2>2. OrderAmount(s[OrderLine(w, d, o)]) \in Nat
      BY <2>1, LinesAmount
    <2> QED BY <2>2 DEF AmountOf
  <1>3. SumFunctionOnSet(AmountOf(s, w, d), DeliveredTo(s, w, d, c)) \in Int
    <2>1. \A o \in DeliveredTo(s, w, d, c) : AmountOf(s, w, d)[o] \in Int
      BY <1>2, DeliveredFinite
    <2> QED BY <2>1, DeliveredFinite, SumType
  <1> QED BY <1>1, <1>2, <1>3

(* What is due to a customer only depends on its payments, on which orders *)
(* were delivered to it and on their lines.                                *)
LEMMA SameDeliveries ==
    ASSUME NEW s, NEW R, NEW w \in Warehouses, NEW d \in Districts, NEW c \in Customers,
           DeliveredTo(R, w, d, c) = DeliveredTo(s, w, d, c),
           \A o \in DeliveredTo(s, w, d, c) :
             R[OrderLine(w, d, o)] = s[OrderLine(w, d, o)]
    PROVE  SumFunctionOnSet(AmountOf(R, w, d), DeliveredTo(R, w, d, c))
             = SumFunctionOnSet(AmountOf(s, w, d), DeliveredTo(s, w, d, c))
  <1> DEFINE D == DeliveredTo(s, w, d, c)
  <1>1. IsFiniteSet(D) /\ D \subseteq OrderIds
    BY DeliveredFinite
  <1>2. \A o \in D : AmountOf(R, w, d)[o] = AmountOf(s, w, d)[o]
    BY <1>1 DEF AmountOf
  <1> HIDE DEF D
  <1>3. SumFunctionOnSet(AmountOf(R, w, d), D) = SumFunctionOnSet(AmountOf(s, w, d), D)
    BY <1>1, <1>2, SumSame
  <1> QED BY <1>3 DEF D

(* A new order changes nobody's credit ...                                *)
LEMMA OrderingCredit ==
    ASSUME NEW s, StoreType(s), CreditNotLost(s), NEW j \in NewOrderJobs,
           NEW lines, NEW o \in OrderIds, ~ OrderExists(s, j.w, j.d, o),
           NEW R, StoreType(R), AsOrdered(R, s, j, lines, o)
    PROVE  CreditNotLost(R)
  <1>1. ASSUME NEW w \in Warehouses, NEW d \in Districts, NEW c \in Customers
        PROVE  /\ R[Customer(w, d, c)] = s[Customer(w, d, c)]
               /\ DeliveredTo(R, w, d, c) = DeliveredTo(s, w, d, c)
               /\ DueCredit(R, w, d, c) = DueCredit(s, w, d, c)
    <2>1. ASSUME NEW p \in OrderIds, w = j.w, d = j.d, p = o
          PROVE  p \notin DeliveredTo(R, w, d, c) /\ p \notin DeliveredTo(s, w, d, c)
      <3>1. R[Orders(w, d, p)].o_carrier_id = 0
        BY <2>1 DEF AsOrdered
      <3>2. s[Orders(w, d, p)].o_c_id = 0 /\ c # 0
        BY <2>1 DEF OrderExists, Customers
      <3> QED BY <3>1, <3>2 DEF DeliveredTo
    <2>2. ASSUME NEW p \in OrderIds, ~ (w = j.w /\ d = j.d /\ p = o)
          PROVE  R[Orders(w, d, p)] = s[Orders(w, d, p)]
                 /\ R[OrderLine(w, d, p)] = s[OrderLine(w, d, p)]
      BY <2>2 DEF AsOrdered
    <2>3. DeliveredTo(R, w, d, c) = DeliveredTo(s, w, d, c)
      <3>1. ASSUME NEW p \in OrderIds
            PROVE  p \in DeliveredTo(R, w, d, c) <=> p \in DeliveredTo(s, w, d, c)
        <4>1. CASE w = j.w /\ d = j.d /\ p = o
          BY <2>1, <4>1
        <4>2. CASE ~ (w = j.w /\ d = j.d /\ p = o)
          BY <2>2, <4>2 DEF DeliveredTo
        <4> QED BY <4>1, <4>2
      <3> QED BY <3>1, DeliveredFinite
    <2>4. \A p \in DeliveredTo(s, w, d, c) : R[OrderLine(w, d, p)] = s[OrderLine(w, d, p)]
      BY <2>1, <2>2, DeliveredFinite
    <2>5. /\ R[Customer(w, d, c)] = s[Customer(w, d, c)]
          /\ R[History(w, d, c)] = s[History(w, d, c)]
      BY DEF AsOrdered
    <2>6. CreditOf(R, w, d, c) = CreditOf(s, w, d, c)
      BY <2>3, <2>4, <2>5, SameDeliveries DEF CreditOf
    <2> QED BY <2>3, <2>5, <2>6, CreditIs
  <1> QED BY <1>1 DEF CreditNotLost

(* ... a payment gives its amount to its customer ...                     *)
LEMMA PayingCredit ==
    ASSUME NEW s, StoreType(s), RowsSound(s), CreditNotLost(s), NEW j \in PaymentJobs,
           NEW c \in Customers, NEW R, StoreType(R), AsPaid(R, s, j, c)
    PROVE  CreditNotLost(R)
  <1>1. ASSUME NEW w \in Warehouses, NEW d \in Districts, NEW k \in Customers
        PROVE  /\ DeliveredTo(R, w, d, k) = DeliveredTo(s, w, d, k)
               /\ SumFunctionOnSet(AmountOf(R, w, d), DeliveredTo(R, w, d, k))
                    = SumFunctionOnSet(AmountOf(s, w, d), DeliveredTo(s, w, d, k))
    <2>1. \A p \in OrderIds : /\ R[Orders(w, d, p)] = s[Orders(w, d, p)]
                              /\ R[OrderLine(w, d, p)] = s[OrderLine(w, d, p)]
      BY DEF AsPaid
    <2>2. DeliveredTo(R, w, d, k) = DeliveredTo(s, w, d, k)
      BY <2>1 DEF DeliveredTo
    <2>3. \A p \in DeliveredTo(s, w, d, k) : R[OrderLine(w, d, p)] = s[OrderLine(w, d, p)]
      BY <2>1, DeliveredFinite
    <2> QED BY <2>2, <2>3, SameDeliveries
  <1>2. ASSUME NEW w \in Warehouses, NEW d \in Districts, NEW k \in Customers
        PROVE  /\ R[Customer(w, d, k)].c_balance - s[Customer(w, d, k)].c_balance
                    = DueCredit(R, w, d, k) - DueCredit(s, w, d, k)
               /\ R[Customer(w, d, k)].c_delivery_cnt = s[Customer(w, d, k)].c_delivery_cnt
               /\ s[Customer(w, d, k)].c_balance \in Int
               /\ R[Customer(w, d, k)].c_balance \in Int
               /\ DueCredit(s, w, d, k) \in Int /\ DueCredit(R, w, d, k) \in Int
    <2> DEFINE v == s[Customer(w, d, k)]
               h == s[History(w, d, k)]
               r == R[History(w, d, k)]
               e == [h_w_id |-> j.w, h_d_id |-> j.d, h_amount |-> j.h_amount]
               D == SumFunctionOnSet(AmountOf(s, w, d), DeliveredTo(s, w, d, k))
    <2>1. /\ DueCredit(s, w, d, k) = HistorySum(h, PaymentRows) + D
          /\ DueCredit(R, w, d, k) = HistorySum(r, PaymentRows) + D
          /\ HistorySum(h, PaymentRows) \in Int /\ D \in Int
      BY <1>1, CreditIs, CreditInt DEF CreditOf
    <2>2. v.c_balance \in Int
      BY DEF RowsSound
    <2>3. CASE w = j.c_w /\ d = j.c_d /\ k = c
      <3>1. e \in PaymentRows /\ e.h_amount = j.h_amount /\ j.h_amount \in Int
        <4>1. j.w \in Warehouses /\ j.d \in Districts
          BY DEF PaymentJobs
        <4> QED BY <4>1, PaymentAmount DEF PaymentRows
      <3>2. OneMore(r, h, e) /\ h \in Seq(PaymentRows)
        BY <2>3, StoredSequences DEF AsPaid, OneMore
      <3>3. DOMAIN v = {"c_balance", "c_delivery_cnt", "c_data"}
        BY StoredRows
      <3>4. R[Customer(w, d, k)] = [v EXCEPT !.c_balance = @ + j.h_amount]
        BY <2>3 DEF AsPaid
      <3> HIDE DEF v, h, r, e, D
      <3>5. HistorySum(r, PaymentRows) = HistorySum(h, PaymentRows) + j.h_amount
        <4>1. HistorySum(r, PaymentRows) =
                HistorySum(h, PaymentRows) + (IF e \in PaymentRows THEN e.h_amount ELSE 0)
          BY <3>1, <3>2, HistoryAppend
        <4> QED BY <3>1, <4>1
      <3>6. /\ R[Customer(w, d, k)].c_balance = v.c_balance + j.h_amount
            /\ R[Customer(w, d, k)].c_delivery_cnt = v.c_delivery_cnt
        BY <3>3, <3>4
      <3> QED BY <2>1, <2>2, <3>1, <3>5, <3>6 DEF v
    <2>4. CASE ~ (w = j.c_w /\ d = j.c_d /\ k = c)
      <3>1. R[Customer(w, d, k)] = v /\ r = h
        BY <2>4 DEF AsPaid
      <3> HIDE DEF h, r, D
      <3> QED BY <2>1, <2>2, <3>1
    <2> QED BY <2>3, <2>4
  <1> QED BY <1>1, <1>2 DEF CreditNotLost

(* ... and a delivery gives the amount of its order, and counts it.       *)
LEMMA DeliveringCredit ==
    ASSUME NEW s, StoreType(s), RowsSound(s), CreditNotLost(s),
           NEW x \in Warehouses, NEW y \in Districts, NEW o \in OrderIds, NEW c \in Customers,
           NEW R, StoreType(R), AsDelivered(R, s, x, y, o, c)
    PROVE  CreditNotLost(R)
  <1> DEFINE a == AmountOf(s, x, y)[o]
             Fresh == s[Orders(x, y, o)].o_carrier_id = 0 /\ o > DeliveredInit
             Here(w, d, k) == w = x /\ d = y /\ k = c
  <1>1. a \in Nat /\ a = OrderAmount(s[OrderLine(x, y, o)])
    BY CreditInt DEF AmountOf
  <1>2. ASSUME NEW w \in Warehouses, NEW d \in Districts, NEW p \in OrderIds
        PROVE  /\ R[Orders(w, d, p)].o_c_id = s[Orders(w, d, p)].o_c_id
               /\ R[OrderLine(w, d, p)] = s[OrderLine(w, d, p)]
               /\ ~ (w = x /\ d = y /\ p = o) =>
                    R[Orders(w, d, p)].o_carrier_id = s[Orders(w, d, p)].o_carrier_id
               /\ w = x /\ d = y /\ p = o => R[Orders(w, d, p)].o_carrier_id = 1
    <2>1. R[OrderLine(w, d, p)] = s[OrderLine(w, d, p)]
      BY DEF AsDelivered
    <2>2. CASE w = x /\ d = y /\ p = o
      <3>1. /\ R[Orders(w, d, p)] = [o_c_id |-> c, o_carrier_id |-> 1,
                                     o_ol_cnt |-> s[Orders(w, d, p)].o_ol_cnt]
            /\ c = s[Orders(w, d, p)].o_c_id
        BY <2>2 DEF AsDelivered
      <3> QED BY <2>1, <2>2, <3>1
    <2>3. CASE ~ (w = x /\ d = y /\ p = o)
      <3>1. R[Orders(w, d, p)] = s[Orders(w, d, p)]
        BY <2>3 DEF AsDelivered
      <3> QED BY <2>1, <2>3, <3>1
    <2> QED BY <2>2, <2>3
  <1>3. s[Orders(x, y, o)].o_c_id = c
    BY DEF AsDelivered
  <1>4. ASSUME NEW w \in Warehouses, NEW d \in Districts, NEW k \in Customers
        PROVE  DeliveredTo(R, w, d, k) =
                 IF Here(w, d, k) /\ Fresh THEN DeliveredTo(s, w, d, k) \cup {o}
                 ELSE DeliveredTo(s, w, d, k)
    <2>1. ASSUME NEW p \in OrderIds
          PROVE  p \in DeliveredTo(R, w, d, k) <=>
                   p \in DeliveredTo(s, w, d, k) \/ (Here(w, d, k) /\ Fresh /\ p = o)
      <3>1. CASE w = x /\ d = y /\ p = o
        BY <1>2, <1>3, <3>1 DEF DeliveredTo
      <3>2. CASE ~ (w = x /\ d = y /\ p = o)
        BY <1>2, <3>2 DEF DeliveredTo
      <3> QED BY <3>1, <3>2
    <2> HIDE DEF Here, Fresh
    <2>2. DeliveredTo(R, w, d, k) \subseteq OrderIds /\ DeliveredTo(s, w, d, k) \subseteq OrderIds
      BY DeliveredFinite
    <2> QED BY <2>1, <2>2
  <1>5. Fresh => o \notin DeliveredTo(s, x, y, c)
    BY DEF DeliveredTo
  <1> DEFINE Sum(w, d, k) == SumFunctionOnSet(AmountOf(s, w, d), DeliveredTo(s, w, d, k))
             Sum1(w, d, k) == SumFunctionOnSet(AmountOf(R, w, d), DeliveredTo(R, w, d, k))
             B(w, d, k) == s[Customer(w, d, k)].c_balance
             B1(w, d, k) == R[Customer(w, d, k)].c_balance
             N(w, d, k) == s[Customer(w, d, k)].c_delivery_cnt
             N1(w, d, k) == R[Customer(w, d, k)].c_delivery_cnt
             K(w, d, k) == Cardinality(DeliveredTo(s, w, d, k))
             K1(w, d, k) == Cardinality(DeliveredTo(R, w, d, k))
  <1>6. ASSUME NEW w \in Warehouses, NEW d \in Districts, NEW k \in Customers
        PROVE  /\ Sum(w, d, k) \in Int /\ K(w, d, k) \in Nat
               /\ IF Here(w, d, k) /\ Fresh
                  THEN Sum1(w, d, k) = Sum(w, d, k) + a /\ K1(w, d, k) = K(w, d, k) + 1
                  ELSE Sum1(w, d, k) = Sum(w, d, k) /\ K1(w, d, k) = K(w, d, k)
    <2> DEFINE D == DeliveredTo(s, w, d, k)
               D1 == DeliveredTo(R, w, d, k)
               f == AmountOf(s, w, d)
               f1 == AmountOf(R, w, d)
    <2>1. /\ IsFiniteSet(D) /\ D \subseteq OrderIds
          /\ IsFiniteSet(D1) /\ D1 \subseteq OrderIds
      BY DeliveredFinite
    <2>2. \A p \in OrderIds : f[p] \in Nat /\ f1[p] = f[p]
      BY <1>2, CreditInt DEF AmountOf
    <2>3. /\ D1 = IF Here(w, d, k) /\ Fresh THEN D \cup {o} ELSE D
          /\ Here(w, d, k) /\ Fresh => o \notin D /\ f[o] = a
      BY <1>4, <1>5
    <2>4. K(w, d, k) = Cardinality(D) /\ K1(w, d, k) = Cardinality(D1)
          /\ Sum(w, d, k) = SumFunctionOnSet(f, D) /\ Sum1(w, d, k) = SumFunctionOnSet(f1, D1)
      OBVIOUS
    <2> HIDE DEF D, D1, f, f1, a, Here, Fresh, K, K1, Sum, Sum1
    <2>5. /\ SumFunctionOnSet(f, D) \in Int /\ Cardinality(D) \in Nat
          /\ SumFunctionOnSet(f1, D1) = SumFunctionOnSet(f, D1)
      <3>1. \A p \in D : f[p] \in Int
        BY <2>1, <2>2
      <3>2. \A p \in D1 : f1[p] = f[p]
        BY <2>1, <2>2
      <3>3. SumFunctionOnSet(f, D) \in Int
        BY <2>1, <3>1, SumType
      <3>4. SumFunctionOnSet(f1, D1) = SumFunctionOnSet(f, D1)
        BY <2>1, <3>2, SumSame
      <3>5. Cardinality(D) \in Nat
        BY <2>1, FS_CardinalityType
      <3> QED BY <3>3, <3>4, <3>5
    <2>6. CASE Here(w, d, k) /\ Fresh
      <3>1. D1 = D \cup {o} /\ o \notin D /\ f[o] = a
        BY <2>3, <2>6
      <3>2. \A p \in D \cup {o} : f[p] \in Int
        BY <2>1, <2>2
      <3>3. SumFunctionOnSet(f, D \cup {o}) = SumFunctionOnSet(f, D) + f[o]
        BY <2>1, <3>1, <3>2, SumAdd
      <3>4. Cardinality(D \cup {o}) = Cardinality(D) + 1
        BY <2>1, <3>1, FS_AddElement
      <3> QED BY <2>4, <2>5, <2>6, <3>1, <3>3, <3>4
    <2>7. CASE ~ (Here(w, d, k) /\ Fresh)
      BY <2>3, <2>4, <2>5, <2>7
    <2> QED BY <2>6, <2>7
  <1>7. ASSUME NEW w \in Warehouses, NEW d \in Districts, NEW k \in Customers
        PROVE  /\ B(w, d, k) \in Int /\ N(w, d, k) \in Nat
               /\ IF Here(w, d, k)
                  THEN B1(w, d, k) = B(w, d, k) + a /\ N1(w, d, k) = N(w, d, k) + 1
                  ELSE B1(w, d, k) = B(w, d, k) /\ N1(w, d, k) = N(w, d, k)
    <2> DEFINE v == s[Customer(w, d, k)]
    <2>1. v.c_balance \in Int
      BY DEF RowsSound
    <2>2. DOMAIN v = {"c_balance", "c_delivery_cnt", "c_data"} /\ v.c_delivery_cnt \in Nat
      BY StoredRows
    <2>3. CASE Here(w, d, k)
      <3>1. R[Customer(w, d, k)] = [v EXCEPT !.c_balance = @ + a, !.c_delivery_cnt = @ + 1]
        BY <1>1, <2>3 DEF AsDelivered
      <3> HIDE DEF v, a
      <3>2. /\ R[Customer(w, d, k)].c_balance = v.c_balance + a
            /\ R[Customer(w, d, k)].c_delivery_cnt = v.c_delivery_cnt + 1
        BY <2>1, <2>2, <3>1
      <3> QED BY <2>1, <2>2, <2>3, <3>2 DEF v
    <2>4. CASE ~ Here(w, d, k)
      <3>1. R[Customer(w, d, k)] = v
        BY <2>4 DEF AsDelivered
      <3> HIDE DEF a
      <3> QED BY <2>1, <2>2, <2>4, <3>1
    <2> QED BY <2>3, <2>4
  <1> DEFINE H(w, d, k) == HistorySum(s[History(w, d, k)], PaymentRows)
  <1>8. ASSUME NEW w \in Warehouses, NEW d \in Districts, NEW k \in Customers
        PROVE  /\ DueCredit(s, w, d, k) = H(w, d, k) + Sum(w, d, k) /\ H(w, d, k) \in Int
               /\ DueCredit(R, w, d, k) = H(w, d, k) + Sum1(w, d, k)
    <2>1. R[History(w, d, k)] = s[History(w, d, k)]
      BY DEF AsDelivered
    <2> QED BY <2>1, CreditIs, CreditInt DEF CreditOf
  <1>9. CreditNotLost(R)
    <2> SUFFICES ASSUME NEW w \in Warehouses, NEW d \in Districts, NEW k \in Customers
                 PROVE  B1(w, d, k) + 10 >= DueCredit(R, w, d, k) /\ N1(w, d, k) >= K1(w, d, k)
      BY DEF CreditNotLost
    <2>1. B(w, d, k) + 10 >= DueCredit(s, w, d, k) /\ N(w, d, k) >= K(w, d, k)
      BY DEF CreditNotLost
    <2> HIDE DEF Sum, Sum1, K, K1, B, B1, N, N1, Here, Fresh, a, H
    <2> QED BY <1>1, <1>6, <1>7, <1>8, <2>1
  <1> QED BY <1>9
----------------------------------------------------------------------------
(* Each transaction takes a consistent database to a consistent one. *)

(* A new order keeps a database consistent.                               *)
LEMMA OrderingConsistent ==
    ASSUME NEW s, ConsistentDb(s), NEW j \in NewOrderJobs, NEW lines \in LinesType,
           lines # <<>>, \A n \in DOMAIN lines : lines[n].ol_quantity \in 1 .. 10,
           s[District(j.w, j.d)].d_next_o_id \in OrderIds
    PROVE  /\ ConsistentDb(Ordering(s, j, lines))
           /\ Earlier(s, Ordering(s, j, lines))
  <1> DEFINE o == s[District(j.w, j.d)].d_next_o_id
             R == Ordering(s, j, lines)
  <1>1. /\ StoreType(s) /\ RowsSound(s) /\ OrdersConsistent(s)
        /\ YtdAddsUp(s) /\ StockAddsUp(s) /\ CreditNotLost(s)
    BY DEF ConsistentDb, TotalsConsistent
  <1>2. o \in OrderIds /\ j.w \in Warehouses /\ j.d \in Districts
    BY DEF NewOrderJobs
  <1>3. AsOrdered(R, s, j, lines, o) /\ DOMAIN R = Rows
    <2>1. DOMAIN R = Rows
      BY DEF Ordering
    <2> HIDE DEF o
    <2>2. AsOrdered(R, s, j, lines, o)
      BY <1>1, <1>2, OrderingRows DEF o
    <2> QED BY <2>1, <2>2
  <1>4. ~ OrderExists(s, j.w, j.d, o)
    <2>1. OrderExists(s, j.w, j.d, o) <=> o < o
      BY <1>1, <1>2 DEF OrdersConsistent, OrderNumbersDense
    <2>2. o \in Nat
      BY <1>2 DEF OrderIds
    <2> HIDE DEF o
    <2> QED BY <2>1, <2>2
  <1>5. s[OrderLine(j.w, j.d, o)] = <<>>
    <2>1. s[Orders(j.w, j.d, o)].o_ol_cnt = 0
      BY <1>1, <1>2, <1>4 DEF RowsSound
    <2>2. Len(s[OrderLine(j.w, j.d, o)]) = 0
      BY <1>1, <1>2, <2>1 DEF OrdersConsistent, OrdersHaveTheirLines
    <2>3. s[OrderLine(j.w, j.d, o)] \in LinesType
      BY <1>1, <1>2, StoredSequences
    <2> QED BY <2>2, <2>3 DEF LinesType
  <1>6. \A w \in Warehouses, i \in Items : QuantityAfter(s[Stock(w, i)], lines, w, i) \in Int
    <2> SUFFICES ASSUME NEW w \in Warehouses, NEW i \in Items
                 PROVE  QuantityAfter(s[Stock(w, i)], lines, w, i) \in Int
      OBVIOUS
    <2>1. s[Stock(w, i)] \in 1 .. 100
      BY <1>1 DEF StockAddsUp
    <2>2. \E T : lines \in Seq(T)
      BY DEF LinesType
    <2>3. QuantityAfter(s[Stock(w, i)], lines, w, i) \in 1 .. 100
      BY <2>1, <2>2, StockAfterLines
    <2>4. \A x \in 1 .. 100 : x \in Int
      OBVIOUS
    <2> QED BY <2>3, <2>4
  <1> HIDE DEF R, o
  <1>7. StoreType(R)
    BY <1>1, <1>2, <1>3, <1>6, OrderingTyped
  <1>8. RowsSound(R) /\ OrdersConsistent(R) /\ Earlier(s, R)
    BY <1>1, <1>2, <1>3, OrderingOrders DEF o
  <1>9. YtdAddsUp(R)
    <2>1. /\ \A w \in Warehouses : R[Warehouse(w)] = s[Warehouse(w)]
          /\ \A w \in Warehouses, d \in Districts :
               R[District(w, d)].d_ytd = s[District(w, d)].d_ytd
          /\ \A w \in Warehouses, d \in Districts, c \in Customers :
               R[History(w, d, c)] = s[History(w, d, c)]
      BY <1>3 DEF AsOrdered
    <2> QED BY <1>1, <1>7, <2>1, SameYtd
  <1>10. StockAddsUp(R)
    BY <1>1, <1>2, <1>3, <1>5, OrderingStock
  <1>11. CreditNotLost(R)
    BY <1>1, <1>2, <1>3, <1>4, <1>7, OrderingCredit
  <1> QED
    BY <1>7, <1>8, <1>9, <1>10, <1>11 DEF ConsistentDb, TotalsConsistent, R

(* A payment keeps a database consistent.                                 *)
LEMMA PayingConsistent ==
    ASSUME NEW s, ConsistentDb(s), NEW j \in PaymentJobs, NEW c \in Customers
    PROVE  /\ ConsistentDb(Paying(s, j, c))
           /\ Earlier(s, Paying(s, j, c))
  <1> DEFINE R == Paying(s, j, c)
  <1>1. /\ StoreType(s) /\ RowsSound(s) /\ OrdersConsistent(s)
        /\ YtdAddsUp(s) /\ StockAddsUp(s) /\ CreditNotLost(s)
    BY DEF ConsistentDb, TotalsConsistent
  <1>2. AsPaid(R, s, j, c)
    BY <1>1, PayingRows
  <1>3. DOMAIN R = Rows
    BY <1>1 DEF Paying, StoreType
  <1> HIDE DEF R
  <1>4. StoreType(R)
    BY <1>1, <1>2, <1>3, PayingTyped
  <1>5. RowsSound(R) /\ OrdersConsistent(R) /\ Earlier(s, R)
    BY <1>1, <1>2, PayingOrders
  <1>6. YtdAddsUp(R)
    BY <1>1, <1>2, <1>4, PayingYtd
  <1>7. StockAddsUp(R)
    <2>1. /\ \A w \in Warehouses, i \in Items : R[Stock(w, i)] = s[Stock(w, i)]
          /\ \A w \in Warehouses, d \in Districts, o \in OrderIds :
               R[OrderLine(w, d, o)] = s[OrderLine(w, d, o)]
      BY <1>2 DEF AsPaid
    <2> QED BY <1>1, <2>1, SameStock
  <1>8. CreditNotLost(R)
    BY <1>1, <1>2, <1>4, PayingCredit
  <1> QED
    BY <1>4, <1>5, <1>6, <1>7, <1>8 DEF ConsistentDb, TotalsConsistent, R

(* A delivery keeps a database consistent, even when it is not the first  *)
(* of its order.                                                          *)
LEMMA DeliveringConsistent ==
    ASSUME NEW s, ConsistentDb(s), NEW x \in Warehouses, NEW y \in Districts,
           NEW o \in OrderIds, OrderExists(s, x, y, o)
    PROVE  /\ ConsistentDb(Delivering(s, x, y, o))
           /\ Earlier(s, Delivering(s, x, y, o))
  <1> DEFINE R == Delivering(s, x, y, o)
             c == s[Orders(x, y, o)].o_c_id
  <1>1. /\ StoreType(s) /\ RowsSound(s) /\ OrdersConsistent(s)
        /\ YtdAddsUp(s) /\ StockAddsUp(s) /\ CreditNotLost(s)
    BY DEF ConsistentDb, TotalsConsistent
  <1>2. c \in Customers
    BY <1>1 DEF RowsSound
  <1>3. AsDelivered(R, s, x, y, o, c)
    BY <1>1, <1>2, DeliveringRows
  <1>4. DOMAIN R = Rows
    BY <1>1 DEF Delivering, StoreType
  <1> HIDE DEF R, c
  <1>5. StoreType(R)
    BY <1>1, <1>2, <1>3, <1>4, DeliveringTyped
  <1>6. RowsSound(R) /\ OrdersConsistent(R) /\ Earlier(s, R)
    BY <1>1, <1>2, <1>3, DeliveringOrders
  <1>7. YtdAddsUp(R)
    <2>1. \A w \in Warehouses : R[Warehouse(w)] = s[Warehouse(w)]
      BY <1>3 DEF AsDelivered
    <2>2. \A w \in Warehouses, d \in Districts :
            R[District(w, d)].d_ytd = s[District(w, d)].d_ytd
      BY <1>3 DEF AsDelivered
    <2>3. \A w \in Warehouses, d \in Districts, k \in Customers :
            R[History(w, d, k)] = s[History(w, d, k)]
      BY <1>3 DEF AsDelivered
    <2> QED BY <1>1, <1>5, <2>1, <2>2, <2>3, SameYtd
  <1>8. StockAddsUp(R)
    <2>1. /\ \A w \in Warehouses, i \in Items : R[Stock(w, i)] = s[Stock(w, i)]
          /\ \A w \in Warehouses, d \in Districts, p \in OrderIds :
               R[OrderLine(w, d, p)] = s[OrderLine(w, d, p)]
      BY <1>3 DEF AsDelivered
    <2> QED BY <1>1, <2>1, SameStock
  <1>9. CreditNotLost(R)
    BY <1>1, <1>2, <1>3, <1>5, DeliveringCredit
  <1> QED
    BY <1>5, <1>6, <1>7, <1>8, <1>9 DEF ConsistentDb, TotalsConsistent, R

----------------------------------------------------------------------------
(* The loaded database.                                                   *)

(* What tpcc_load leaves in each table. *)
LEMMA LoadedRows ==
    ASSUME NEW w \in Warehouses, NEW d \in Districts
    PROVE  /\ LoadedDb[Warehouse(w)].w_ytd = 3000000
           /\ LoadedDb[District(w, d)] = [d_next_o_id |-> CustPerDist + 1, d_ytd |-> 30000]
           /\ \A c \in Customers :
                /\ LoadedDb[Customer(w, d, c)] =
                     [c_balance |-> -10, c_delivery_cnt |-> 0, c_data |-> 0]
                /\ LoadedDb[History(w, d, c)] = <<>>
           /\ \A o \in OrderIds :
                /\ LoadedDb[Orders(w, d, o)] = LoadedOrder(o)
                /\ LoadedDb[NewOrders(w, d, o)] = (o \in DeliveredInit + 1 .. CustPerDist)
                /\ LoadedDb[OrderLine(w, d, o)] = LoadedLines(w, o)
           /\ \A i \in Items : LoadedDb[Stock(w, i)] = InitStock
  <1>1. \A r \in Rows : LoadedDb[r] = LoadedRow(r)
    BY DEF LoadedDb
  <1>2. LoadedDb[Warehouse(w)].w_ytd = 3000000
    BY <1>1, RowNames DEF LoadedRow, Warehouse, LoadedWarehouse
  <1>3. LoadedDb[District(w, d)] = [d_next_o_id |-> CustPerDist + 1, d_ytd |-> 30000]
    BY <1>1, RowNames DEF LoadedRow, District, LoadedDistrict
  <1>4. ASSUME NEW c \in Customers
        PROVE  /\ LoadedDb[Customer(w, d, c)] =
                    [c_balance |-> -10, c_delivery_cnt |-> 0, c_data |-> 0]
               /\ LoadedDb[History(w, d, c)] = <<>>
    BY <1>1, RowNames DEF LoadedRow, Customer, History, LoadedCustomer
  <1>5. ASSUME NEW o \in OrderIds
        PROVE  /\ LoadedDb[Orders(w, d, o)] = LoadedOrder(o)
               /\ LoadedDb[NewOrders(w, d, o)] = (o \in DeliveredInit + 1 .. CustPerDist)
               /\ LoadedDb[OrderLine(w, d, o)] = LoadedLines(w, o)
    <2>1. Orders(w, d, o) \in Rows /\ NewOrders(w, d, o) \in Rows /\ OrderLine(w, d, o) \in Rows
      BY RowNames
    <2>2. LoadedDb[Orders(w, d, o)] = LoadedOrder(o)
      BY <1>1, <2>1 DEF LoadedRow, Orders
    <2>3. LoadedDb[NewOrders(w, d, o)] = (o \in DeliveredInit + 1 .. CustPerDist)
      BY <1>1, <2>1 DEF LoadedRow, NewOrders
    <2>4. LoadedDb[OrderLine(w, d, o)] = LoadedLines(w, o)
      BY <1>1, <2>1 DEF LoadedRow, OrderLine
    <2> QED BY <2>2, <2>3, <2>4
  <1>6. \A i \in Items : LoadedDb[Stock(w, i)] = InitStock
    BY <1>1, RowNames DEF LoadedRow, Stock
  <1> QED BY <1>2, <1>3, <1>4, <1>5, <1>6

(* The loaded orders are numbered 1 .. CustPerDist, those up to            *)
(* DeliveredInit are delivered, and each has one line of quantity 0.       *)
LEMMA LoadedOrders ==
    ASSUME NEW o \in OrderIds
    PROVE  /\ LoadedOrder(o).o_c_id # 0 <=> o <= CustPerDist
           /\ LoadedOrder(o).o_ol_cnt = IF o <= CustPerDist THEN 1 ELSE 0
           /\ o <= CustPerDist => LoadedOrder(o).o_c_id \in Customers
           /\ LoadedOrder(o).o_carrier_id # 0 => o <= DeliveredInit
           /\ o <= DeliveredInit => LoadedOrder(o).o_carrier_id # 0 /\ o <= CustPerDist
  <1> USE SchemaAssumption
  <1>1. o \in Nat \ {0} /\ CustPerDist \in Nat \ {0} /\ DeliveredInit \in Nat
        /\ DeliveredInit <= CustPerDist
    BY DEF OrderIds
  <1>2. (o % CustPerDist) + 1 \in 1 .. CustPerDist
    BY <1>1
  <1>3. CASE o > CustPerDist
    BY <1>1, <1>3 DEF LoadedOrder, NoOrder
  <1>4. CASE o <= CustPerDist
    BY <1>1, <1>2, <1>4 DEF LoadedOrder, Customers
  <1> QED BY <1>1, <1>3, <1>4

(* The database as it is loaded is consistent. *)
LEMMA LoadedConsistent == ConsistentDb(LoadedDb)
  <1> DEFINE s == LoadedDb
  <1>t. StoreType(s)
    BY LoadedTyped
  <1>n. CustPerDist \in Nat \ {0} /\ DeliveredInit \in Nat /\ DeliveredInit <= CustPerDist
        /\ OrderIds \subseteq Nat \ {0}
    BY SchemaAssumption DEF OrderIds
  <1>1. ASSUME NEW w \in Warehouses, NEW d \in Districts
        PROVE  /\ \A c \in Customers : s[Customer(w, d, c)].c_balance = -10
                                      /\ s[Customer(w, d, c)].c_delivery_cnt = 0
                                      /\ s[Customer(w, d, c)].c_data = 0
                                      /\ s[History(w, d, c)] = <<>>
               /\ s[District(w, d)].d_next_o_id = CustPerDist + 1
               /\ s[District(w, d)].d_ytd = 30000
               /\ s[Warehouse(w)].w_ytd = 3000000
               /\ \A i \in Items : s[Stock(w, i)] = InitStock
    BY LoadedRows
  <1>2. ASSUME NEW w \in Warehouses, NEW d \in Districts, NEW o \in OrderIds
        PROVE  /\ OrderExists(s, w, d, o) <=> o <= CustPerDist
               /\ s[Orders(w, d, o)].o_ol_cnt = IF o <= CustPerDist THEN 1 ELSE 0
               /\ o <= CustPerDist => s[Orders(w, d, o)].o_c_id \in Customers
               /\ s[Orders(w, d, o)].o_carrier_id # 0 => o <= DeliveredInit
               /\ o <= DeliveredInit => s[Orders(w, d, o)].o_carrier_id # 0
               /\ s[NewOrders(w, d, o)] <=> o \in DeliveredInit + 1 .. CustPerDist
               /\ s[OrderLine(w, d, o)] = LoadedLines(w, o)
    <2>1. /\ s[Orders(w, d, o)] = LoadedOrder(o)
          /\ s[NewOrders(w, d, o)] = (o \in DeliveredInit + 1 .. CustPerDist)
          /\ s[OrderLine(w, d, o)] = LoadedLines(w, o)
      BY LoadedRows
    <2> HIDE DEF s
    <2> QED BY <2>1, LoadedOrders DEF OrderExists
  <1>3. ASSUME NEW w \in Warehouses, NEW d \in Districts, NEW o \in OrderIds
        PROVE  /\ Len(s[OrderLine(w, d, o)]) = IF o <= CustPerDist THEN 1 ELSE 0
               /\ \A n \in DOMAIN s[OrderLine(w, d, o)] :
                    s[OrderLine(w, d, o)][n].ol_quantity = 0
    <2> DEFINE e == [ol_i_id |-> 1, ol_supply_w_id |-> w, ol_quantity |-> 0]
    <2>1. e.ol_quantity = 0
      OBVIOUS
    <2>2. LoadedLines(w, o) = IF o > CustPerDist THEN <<>> ELSE <<e>>
      BY DEF LoadedLines
    <2> HIDE DEF e, s
    <2>3. Len(<<e>>) = 1 /\ DOMAIN <<e>> = {1} /\ <<e>>[1] = e
      OBVIOUS
    <2>4. Len(<<>>) = 0 /\ DOMAIN <<>> = {}
      OBVIOUS
    <2>5. o > CustPerDist <=> ~ (o <= CustPerDist)
      BY <1>n
    <2>6. CASE o <= CustPerDist
      BY <1>2, <2>1, <2>2, <2>3, <2>5, <2>6
    <2>7. CASE ~ (o <= CustPerDist)
      BY <1>2, <2>2, <2>4, <2>5, <2>7
    <2> QED BY <2>6, <2>7
  <1> HIDE DEF s
  <1>4. RowsSound(s)
    <2>1. ASSUME NEW w \in Warehouses, NEW d \in Districts, NEW o \in OrderIds
          PROVE  /\ OrderExists(s, w, d, o) <=> s[Orders(w, d, o)].o_ol_cnt # 0
                 /\ OrderExists(s, w, d, o) => s[Orders(w, d, o)].o_c_id \in Customers
      BY <1>2
    <2>2. -10 \in Int
      OBVIOUS
    <2> QED BY <1>1, <2>1, <2>2 DEF RowsSound
  <1>5. OrdersConsistent(s)
    <2>1. ASSUME NEW w \in Warehouses, NEW d \in Districts, NEW o \in OrderIds
          PROVE  /\ OrderExists(s, w, d, o) <=> o < s[District(w, d)].d_next_o_id
                 /\ s[NewOrders(w, d, o)] <=>
                      OrderExists(s, w, d, o) /\ s[Orders(w, d, o)].o_carrier_id = 0
                 /\ Len(s[OrderLine(w, d, o)]) = s[Orders(w, d, o)].o_ol_cnt
      <3>1. s[District(w, d)].d_next_o_id = CustPerDist + 1
        BY <1>1
      <3>2. o \in Nat
        BY <1>n
      <3>3. s[Orders(w, d, o)].o_carrier_id = 0 <=> ~ (o <= DeliveredInit)
        BY <1>2
      <3>4. s[NewOrders(w, d, o)] <=> ~ (o <= DeliveredInit) /\ o <= CustPerDist
        BY <1>2, <1>n, <3>2
      <3> QED BY <1>2, <1>3, <1>n, <3>1, <3>2, <3>3, <3>4
    <2> QED BY <2>1 DEF OrdersConsistent, OrderNumbersDense, NewOrdersAreUndelivered,
                        OrdersHaveTheirLines
  <1>6. YtdAddsUp(s)
    <2>1. ASSUME NEW H PROVE PaidIn(s, H) = 0
      <3> DEFINE f == [k \in CustomerKeys |-> HistorySum(s[History(k[1], k[2], k[3])], H)]
      <3>1. ASSUME NEW k \in CustomerKeys PROVE f[k] = 0
        <4>1. s[History(k[1], k[2], k[3])] = <<>>
          BY <1>1 DEF CustomerKeys
        <4> QED BY <4>1, HistoryEmpty
      <3>2. IsFiniteSet(CustomerKeys)
        BY KeysFinite
      <3>3. PaidIn(s, H) = SumFunctionOnSet(f, CustomerKeys)
        BY DEF PaidIn
      <3> HIDE DEF f
      <3>4. \A k \in CustomerKeys : f[k] \in Nat
        BY <3>1
      <3> QED BY <3>1, <3>2, <3>3, <3>4, SumNat
    <2>3. PICK d0 \in Districts : TRUE
      <3>1. 1 \in Districts
        BY SchemaAssumption DEF Districts
      <3> QED BY <3>1
    <2>4. \A w \in Warehouses : s[Warehouse(w)].w_ytd - 3000000 = 0
      BY <1>1, <2>3
    <2>5. \A w \in Warehouses, d \in Districts : s[District(w, d)].d_ytd - 30000 = 0
      BY <1>1
    <2>6. YtdIsPaid(s)
      BY <2>1, <2>4, <2>5 DEF YtdIsPaid
    <2> QED BY <1>t, <2>6, YtdIs
  <1>7. StockAddsUp(s)
    <2> SUFFICES ASSUME NEW w \in Warehouses, NEW i \in Items
                 PROVE  /\ s[Stock(w, i)] \in 1 .. 100
                        /\ (InitStock - Ordered(s, w, i) - s[Stock(w, i)]) % 91 = 0
      BY DEF StockAddsUp
    <2>1. s[Stock(w, i)] = InitStock
      <3>1. 1 \in Districts
        BY SchemaAssumption DEF Districts
      <3> QED BY <1>1, <3>1
    <2>2. Ordered(s, w, i) = 0
      <3> DEFINE f == [k \in OrderKeys |-> Asked(s[OrderLine(k[1], k[2], k[3])], w, i)]
      <3>1. ASSUME NEW k \in OrderKeys PROVE f[k] = 0
        <4>1. k[1] \in Warehouses /\ k[2] \in Districts /\ k[3] \in OrderIds
          BY DEF OrderKeys
        <4>2. s[OrderLine(k[1], k[2], k[3])] \in LinesType
          BY <1>t, <4>1, StoredSequences
        <4> QED BY <1>3, <4>1, <4>2, AskedOfStored
      <3>2. IsFiniteSet(OrderKeys)
        BY KeysFinite
      <3>3. Ordered(s, w, i) = SumFunctionOnSet(f, OrderKeys)
        BY OrderedIs
      <3> HIDE DEF f
      <3>4. \A k \in OrderKeys : f[k] \in Nat
        BY <3>1
      <3> QED BY <3>1, <3>2, <3>3, <3>4, SumNat
    <2>3. InitStock \in 1 .. 100
      BY SchemaAssumption
    <2>4. (InitStock - 0 - InitStock) % 91 = 0
      BY <2>3
    <2> QED BY <2>1, <2>2, <2>3, <2>4
  <1>8. ASSUME NEW w \in Warehouses, NEW d \in Districts, NEW c \in Customers
        PROVE  DeliveredTo(s, w, d, c) = {} /\ DueCredit(s, w, d, c) = 0
    <2>1. DeliveredTo(s, w, d, c) = {}
      <3> SUFFICES ASSUME NEW o \in OrderIds, s[Orders(w, d, o)].o_carrier_id # 0,
                          o > DeliveredInit
                   PROVE  FALSE
        BY DEF DeliveredTo
      <3> QED BY <1>2, <1>n
    <2>2. HistorySum(s[History(w, d, c)], PaymentRows) = 0
      BY <1>1, HistoryEmpty
    <2>3. SumFunctionOnSet(AmountOf(s, w, d), {}) = 0
      BY SumEmpty
    <2>4. DueCredit(s, w, d, c) = CreditOf(s, w, d, c)
      BY <1>t, CreditIs
    <2>5. CreditOf(s, w, d, c) = 0 + 0
      BY <2>1, <2>2, <2>3 DEF CreditOf
    <2>6. DueCredit(s, w, d, c) = 0
      BY <2>4, <2>5
    <2> QED BY <2>1, <2>6
  <1>9. CreditNotLost(s)
    <2>1. Cardinality({}) = 0
      BY FS_EmptySet
    <2>2. ASSUME NEW w \in Warehouses, NEW d \in Districts, NEW c \in Customers
          PROVE  /\ s[Customer(w, d, c)].c_balance + 10 >= DueCredit(s, w, d, c)
                 /\ s[Customer(w, d, c)].c_delivery_cnt >= Cardinality(DeliveredTo(s, w, d, c))
      <3>1. s[Customer(w, d, c)].c_balance = -10 /\ s[Customer(w, d, c)].c_delivery_cnt = 0
        BY <1>1
      <3>2. -10 + 10 = 0 /\ 0 >= 0
        OBVIOUS
      <3> QED BY <1>8, <2>1, <3>1, <3>2
    <2> QED BY <2>2 DEF CreditNotLost
  <1> QED BY <1>t, <1>4, <1>5, <1>6, <1>7, <1>9 DEF ConsistentDb, TotalsConsistent, s
=============================================================================
