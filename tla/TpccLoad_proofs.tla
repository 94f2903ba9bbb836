-------------------------- MODULE TpccLoad_proofs --------------------------
(***************************************************************************)
(* Theorems about tpcc_load.                                               *)
(*                                                                         *)
(* LoadInv, the inductive invariant, says what every loader has inserted   *)
(* since its last commit, down to the row (Inserted): it is what the       *)
(* statements before its label insert of the unit it is loading, all       *)
(* items, a warehouse, or the customers or orders of a district.  So at a  *)
(* commit the whole unit is there, and a failure leaves nothing of it.     *)
(* No other loader inserts or commits rows of that unit: this follows from *)
(* LoadAssumption, the ranges load.sh gives out (UnitsDiffer).             *)
(***************************************************************************)
EXTENDS TpccLoad, TpccEffects_proofs

(* What one commit of a loader adds: all items, a warehouse, the customers *)
(* or the orders of a district.                                            *)
Units ==
    {<<"items", 0, 0>>} \cup ({"ware"} \X Warehouses \X {0})
        \cup ({"cust", "ord"} \X Warehouses \X Districts)

UnitRows(u) ==
    CASE u[1] = "items" -> {Item(i) : i \in Items}
      [] u[1] = "ware"  -> WarehouseRows(u[2])
      [] u[1] = "cust"  -> CustomerRows(u[2], u[3])
      [] u[1] = "ord"   -> OrderRows(u[2], u[3])

(* The unit a row is of. *)
UnitOf(r) ==
    IF r[1] = "item" THEN <<"items", 0, 0>>
    ELSE IF r[1] \in {"warehouse", "stock", "district"} THEN <<"ware", r[2], 0>>
    ELSE IF r[1] \in {"customer", "history"} THEN <<"cust", r[2], r[3]>>
    ELSE <<"ord", r[2], r[3]>>

ItemLabels == {"item", "item_commit"}
WareLabels == {"warehouse", "stock", "district", "ware_commit"}
CustLabels == {"customer", "history", "cust_commit"}
OrdLabels  == {"permute", "order", "new_order", "line", "ord_commit"}
RestLabels == {"main", "part_commit", "done", "error"}

(* The unit l is loading. *)
Unit(l) ==
    IF pc[l] \in ItemLabels THEN <<"items", 0, 0>>
    ELSE IF pc[l] \in WareLabels THEN <<"ware", loc[l].w, 0>>
    ELSE IF pc[l] \in CustLabels THEN <<"cust", loc[l].w, loc[l].d>>
    ELSE <<"ord", loc[l].w, loc[l].d>>

(* How many of its parts l has loaded: the first of Parts[l].              *)
Finished(l) == Len(Parts[l]) - Len(todo[l])

(* Where l is. *)
Place(l) ==
    /\ pc[l] \in ItemLabels \cup WareLabels \cup CustLabels \cup OrdLabels \cup RestLabels
    /\ loc[l] \in Vars
    /\ todo[l] \in Seq(PartNames) /\ Finished(l) \in Nat
    /\ \A i \in DOMAIN todo[l] : todo[l][i] = Parts[l][Finished(l) + i]
    /\ pc[l] \in ItemLabels => todo[l] # <<>> /\ Head(todo[l]) = "items"
    /\ pc[l] \in WareLabels => todo[l] # <<>> /\ Head(todo[l]) = "ware"
    /\ pc[l] \in CustLabels => todo[l] # <<>> /\ Head(todo[l]) = "cust"
    /\ pc[l] \in OrdLabels  => todo[l] # <<>> /\ Head(todo[l]) = "ord"
    /\ pc[l] = "part_commit" => todo[l] # <<>> /\ Head(todo[l]) \in {"cust", "ord"}
    /\ pc[l] = "done" => todo[l] = <<>>
    /\ pc[l] \in WareLabels \cup CustLabels \cup OrdLabels =>
         MinWare[l] <= loc[l].w /\ loc[l].w <= MaxWare[l]
    /\ pc[l] \in {"item", "stock"} => loc[l].n \in Items
    /\ pc[l] \in {"customer", "history", "order", "new_order", "line"} =>
         loc[l].n \in Customers
    /\ pc[l] \in {"order", "new_order", "line", "ord_commit"} =>
         loc[l].nums \in [Customers -> Customers]
           /\ \A c \in Customers : \E o \in Customers : loc[l].nums[o] = c
    /\ pc[l] = "order" => loc[l].perm_count = loc[l].n - 1
    /\ pc[l] \in {"new_order", "line"} => loc[l].perm_count = loc[l].n
                                          /\ loc[l].ol_cnt \in OlCounts
    /\ pc[l] = "new_order" => ~ Delivered(loc[l].n) /\ loc[l].ol = 1
    /\ pc[l] = "line" => loc[l].ol \in 1 .. loc[l].ol_cnt

(* The units of its part that l has loaded before the one it is at. *)
Before(l, w, d) == w < loc[l].w \/ (w = loc[l].w /\ d < loc[l].d)

Progress(l) ==
    /\ \A i \in 1 .. Finished(l) : \A w \in MinWare[l] .. MaxWare[l] :
         RowsOf(Parts[l][i], w) \subseteq DOMAIN db
    /\ pc[l] \in WareLabels =>
         \A w \in MinWare[l] .. MaxWare[l] : w < loc[l].w => WarehouseRows(w) \subseteq DOMAIN db
    /\ pc[l] \in CustLabels =>
         \A w \in MinWare[l] .. MaxWare[l], d \in Districts :
            Before(l, w, d) => CustomerRows(w, d) \subseteq DOMAIN db
    /\ pc[l] \in OrdLabels =>
         \A w \in MinWare[l] .. MaxWare[l], d \in Districts :
            Before(l, w, d) => OrderRows(w, d) \subseteq DOMAIN db
    /\ pc[l] = "part_commit" =>
         \A w \in MinWare[l] .. MaxWare[l] : RowsOf(Head(todo[l]), w) \subseteq DOMAIN db

CustomersUpTo(w, d, n, h) ==
    {Customer(w, d, c) : c \in 1 .. n} \cup {History(w, d, c) : c \in 1 .. h}

(* The orders 1 .. n, of which k are announced and m have their lines. *)
OrdersUpTo(w, d, n, k, m) ==
    {Orders(w, d, o) : o \in 1 .. n} \cup {OrderLine(w, d, o) : o \in 1 .. m}
      \cup {NewOrders(w, d, o) : o \in DeliveredInit + 1 .. k}

(* S is what l has inserted. *)
Inserted(l, S) ==
    LET v == loc[l] IN
    /\ pc[l] \in RestLabels \cup {"warehouse", "permute"} => S = {}
    /\ pc[l] = "item"     => S = {Item(i) : i \in 1 .. v.n - 1}
    /\ pc[l] = "stock"    => S = {Warehouse(v.w)} \cup {Stock(v.w, i) : i \in 1 .. v.n - 1}
    /\ pc[l] = "district" => S = {Warehouse(v.w)} \cup {Stock(v.w, i) : i \in Items}
                                   \cup {District(v.w, d) : d \in 1 .. v.d - 1}
    /\ pc[l] = "customer" => S = CustomersUpTo(v.w, v.d, v.n - 1, v.n - 1)
    /\ pc[l] = "history"  => S = CustomersUpTo(v.w, v.d, v.n, v.n - 1)
    /\ pc[l] = "order"    => S = OrdersUpTo(v.w, v.d, v.n - 1, v.n - 1, v.n - 1)
    /\ pc[l] = "new_order" => S = OrdersUpTo(v.w, v.d, v.n, v.n - 1, v.n - 1)
    /\ pc[l] = "line"     => S = OrdersUpTo(v.w, v.d, v.n, v.n, IF v.ol = 1 THEN v.n - 1 ELSE v.n)
    /\ pc[l] \in {"item_commit", "ware_commit", "cust_commit", "ord_commit"} =>
         S = UnitRows(Unit(l))

(* What a loader writes in a row. *)
GoodRow(r, v) ==
    /\ RowType(r, v)
    /\ r[1] = "district"   => v = LoadedDistrict
    /\ r[1] = "history"    => Len(v) = 1
    /\ r[1] = "new_orders" => v = TRUE
    /\ r[1] = "orders"     =>
         /\ v.o_c_id \in Customers /\ v.o_ol_cnt \in OlCounts
         /\ v.o_carrier_id = IF Delivered(r[4]) THEN 1 ELSE 0
    /\ r[1] = "order_line" /\ ~ Delivered(r[4]) =>
         \A n \in DOMAIN v : v[n].ol_quantity = 0

(* The orders o of s that have their lines. *)
LinesThere(s, w, d, o) == Len(s[OrderLine(w, d, o)]) = s[Orders(w, d, o)].o_ol_cnt

(* The orders l has inserted are by the customers of its permutation, and  *)
(* have their lines but for the one it is at.                              *)
PendingOrders(l) ==
    LET v == loc[l] IN
    /\ \A o \in Customers : Orders(v.w, v.d, o) \in DOMAIN pending[l] =>
         pending[l][Orders(v.w, v.d, o)].o_c_id = v.nums[o]
    /\ \A o \in Customers : OrderLine(v.w, v.d, o) \in DOMAIN pending[l] =>
         LinesThere(pending[l], v.w, v.d, o) \/ (pc[l] = "line" /\ o = v.n)
    /\ pc[l] \in {"new_order", "line"} =>
         pending[l][Orders(v.w, v.d, v.n)].o_ol_cnt = v.ol_cnt
    /\ pc[l] = "line" /\ v.ol # 1 =>
         Len(pending[l][OrderLine(v.w, v.d, v.n)]) = v.ol - 1

(* What l has inserted. *)
PendingRows(l) ==
    /\ IF up THEN Inserted(l, DOMAIN pending[l]) ELSE DOMAIN pending[l] = {}
    /\ DOMAIN pending[l] \cap DOMAIN db = {}
    /\ \A r \in DOMAIN pending[l] : GoodRow(r, pending[l][r])
    /\ up /\ pc[l] \in OrdLabels => PendingOrders(l)

CommittedRows ==
    /\ \A r \in DOMAIN db : /\ \E u \in Units : r \in UnitRows(u)
                            /\ GoodRow(r, db[r])
    /\ \A u \in Units : AllOrNone(UnitRows(u))
    /\ \A w \in Warehouses, d \in Districts : OrderRows(w, d) \subseteq DOMAIN db =>
         /\ \A c \in Customers : \E o \in Customers : db[Orders(w, d, o)].o_c_id = c
         /\ \A o \in Customers : LinesThere(db, w, d, o)

LoadInv ==
    /\ up \in BOOLEAN /\ faults \in 0 .. MaxFaults
    /\ DOMAIN pc = Loaders /\ DOMAIN loc = Loaders /\ DOMAIN todo = Loaders
    /\ DOMAIN pending = Loaders
    /\ CommittedRows
    /\ \A l \in Loaders : Place(l) /\ Progress(l) /\ PendingRows(l)

----------------------------------------------------------------------------
(* The rows of a unit. *)

(* Each row is of one unit, and is a row of the schema or an item. *)
LEMMA RowsOfUnits ==
    ASSUME NEW u \in Units, NEW r \in UnitRows(u)
    PROVE  UnitOf(r) = u /\ r \in Rows \cup {Item(i) : i \in Items}
  <1>0. /\ Customers \subseteq OrderIds
        /\ DeliveredInit + 1 .. CustPerDist \subseteq OrderIds
        /\ \A d \in Districts : d # 0
    BY SchemaAssumption DEF Customers, OrderIds, Districts
  <1>1. CASE u = <<"items", 0, 0>>
    BY <1>1 DEF UnitRows, UnitOf, Item
  <1>2. ASSUME NEW w \in Warehouses, u = <<"ware", w, 0>>
        PROVE  UnitOf(r) = u /\ r \in Rows
    <2>1. r \in WarehouseRows(w)
      BY <1>2 DEF UnitRows
    <2>2. r \in Rows
      BY <2>1, RowNames DEF WarehouseRows
    <2>3. UnitOf(r) = u
      BY <1>2, <2>1 DEF WarehouseRows, UnitOf, Warehouse, Stock, District
    <2> QED BY <2>2, <2>3
  <1>3. ASSUME NEW w \in Warehouses, NEW d \in Districts, u = <<"cust", w, d>>
        PROVE  UnitOf(r) = u /\ r \in Rows
    <2>1. r \in CustomerRows(w, d)
      BY <1>3 DEF UnitRows
    <2>2. r \in Rows
      BY <2>1, RowNames DEF CustomerRows
    <2>3. UnitOf(r) = u
      BY <1>3, <2>1 DEF CustomerRows, UnitOf, Customer, History
    <2> QED BY <2>2, <2>3
  <1>4. ASSUME NEW w \in Warehouses, NEW d \in Districts, u = <<"ord", w, d>>
        PROVE  UnitOf(r) = u /\ r \in Rows
    <2>1. r \in OrderRows(w, d)
      BY <1>4 DEF UnitRows
    <2>2. r \in Rows
      BY <1>0, <2>1, RowNames DEF OrderRows
    <2>3. UnitOf(r) = u
      BY <1>4, <2>1 DEF OrderRows, UnitOf, Orders, OrderLine, NewOrders
    <2> QED BY <2>2, <2>3
  <1> QED BY <1>1, <1>2, <1>3, <1>4 DEF Units

(* A loader that inserts is at a unit of one of its parts. *)
LEMMA UnitIn ==
    ASSUME LoadInv, NEW l \in Loaders, pc[l] \notin RestLabels
    PROVE  /\ Unit(l) \in Units
           /\ Unit(l)[1] \in Range(Parts[l])
           /\ Unit(l)[1] # "items" =>
                Unit(l)[2] \in Warehouses /\ MinWare[l] <= Unit(l)[2] /\ Unit(l)[2] <= MaxWare[l]
  <1>1. /\ Place(l) /\ loc[l] \in Vars
    BY DEF LoadInv, Place
  <1>2. loc[l].w \in Warehouses /\ loc[l].d \in Districts
    BY <1>1 DEF Vars
  <1>3. /\ todo[l] \in Seq(PartNames) /\ todo[l] # <<>>
        /\ Head(todo[l]) = Unit(l)[1]
    BY <1>1 DEF Place, Unit, RestLabels, ItemLabels, WareLabels, CustLabels, OrdLabels
  <1>4. Head(todo[l]) \in Range(Parts[l])
    <2>1. Parts[l] \in Seq(PartNames)
      BY LoadAssumption
    <2>2. PICK k, P, T : k = Finished(l) /\ P = Parts[l] /\ T = todo[l]
      OBVIOUS
    <2>3. /\ T \in Seq(PartNames) /\ T # <<>> /\ P \in Seq(PartNames)
          /\ k \in Nat /\ k = Len(P) - Len(T) /\ \A i \in DOMAIN T : T[i] = P[k + i]
      BY <1>1, <1>3, <2>1, <2>2 DEF Place, Finished
    <2>4. 1 \in DOMAIN T /\ k + 1 \in DOMAIN P /\ Head(T) = T[1]
      BY <2>3
    <2>5. Head(T) = P[k + 1]
      BY <2>3, <2>4
    <2>6. Head(T) \in Range(P)
      BY <2>4, <2>5 DEF Range
    <2> QED BY <2>2, <2>6
  <1>5. Unit(l) \in Units
    BY <1>2 DEF Unit, Units
  <1>6. Unit(l)[1] # "items" => Unit(l)[2] = loc[l].w
    BY DEF Unit
  <1>7. Unit(l)[1] # "items" => MinWare[l] <= loc[l].w /\ loc[l].w <= MaxWare[l]
    BY <1>1 DEF Place, Unit, RestLabels
  <1> QED BY <1>2, <1>3, <1>4, <1>5, <1>6, <1>7

(* No two loaders are at one unit. *)
LEMMA UnitsDiffer ==
    ASSUME LoadInv, NEW l \in Loaders, NEW m \in Loaders, l # m,
           pc[l] \notin RestLabels, pc[m] \notin RestLabels
    PROVE  Unit(l) # Unit(m)
  <1> SUFFICES ASSUME Unit(l) = Unit(m) PROVE FALSE
    OBVIOUS
  <1>1. PICK p, w : p = Unit(l)[1] /\ w = Unit(l)[2]
    OBVIOUS
  <1>2. p \in Range(Parts[l]) \cap Range(Parts[m])
    BY <1>1, UnitIn
  <1>3. p # "items" /\ (MaxWare[l] < MinWare[m] \/ MaxWare[m] < MinWare[l])
    BY <1>2, LoadAssumption
  <1>4. /\ w \in Warehouses /\ MinWare[l] <= w /\ w <= MaxWare[l]
        /\ MinWare[m] <= w /\ w <= MaxWare[m]
    BY <1>1, <1>3, UnitIn
  <1>5. /\ MinWare[l] \in Int /\ MaxWare[l] \in Int /\ MinWare[m] \in Int
        /\ MaxWare[m] \in Int /\ w \in Int
    BY <1>4, LoadAssumption DEF Warehouses
  <1> QED BY <1>3, <1>4, <1>5

(* What a loader has inserted is of its unit ... *)
LEMMA PendingOfUnit ==
    ASSUME LoadInv, NEW l \in Loaders
    PROVE  /\ pc[l] \in RestLabels => DOMAIN pending[l] = {}
           /\ DOMAIN pending[l] \subseteq UnitRows(Unit(l))
  <1>1. Place(l) /\ PendingRows(l) /\ loc[l] \in Vars
    BY DEF LoadInv, Place
  <1>2. pc[l] \in RestLabels => DOMAIN pending[l] = {}
    BY <1>1 DEF PendingRows, Inserted
  <1>3. ASSUME up, pc[l] \notin RestLabels
        PROVE  DOMAIN pending[l] \subseteq UnitRows(Unit(l))
    <2>1. Inserted(l, DOMAIN pending[l])
      BY <1>1, <1>3 DEF PendingRows
    <2>2. /\ loc[l].n \in Nat /\ loc[l].d \in Districts
          /\ pc[l] \in {"item", "stock"} => loc[l].n \in Items
          /\ pc[l] \in {"customer", "history", "order", "new_order", "line"} =>
               loc[l].n \in Customers
      BY <1>1 DEF Place, Vars
    <2>3. /\ \A n \in Items : \A i \in 1 .. n - 1 : i \in Items
          /\ \A n \in Customers : \A i \in 1 .. n : i \in Customers
          /\ \A n \in Customers : \A i \in 1 .. n - 1 : i \in Customers
          /\ \A n \in Customers : \A i \in DeliveredInit + 1 .. n : i \in DeliveredInit + 1 .. CustPerDist
          /\ \A n \in Customers : \A i \in DeliveredInit + 1 .. n - 1 : i \in DeliveredInit + 1 .. CustPerDist
          /\ \A n \in Districts : \A i \in 1 .. n - 1 : i \in Districts
      BY SchemaAssumption DEF Items, Customers, Districts
    <2>4. CASE pc[l] = "item"
      BY <2>1, <2>2, <2>3, <2>4 DEF Inserted, Unit, UnitRows, ItemLabels
    <2>5. CASE pc[l] \in {"warehouse", "permute"}
      BY <2>1, <2>5 DEF Inserted
    <2>6. CASE pc[l] \in {"stock", "district"}
      <3>1. Unit(l)[1] = "ware" /\ Unit(l)[2] = loc[l].w
        BY <2>6 DEF Unit, ItemLabels, WareLabels
      <3>2. DOMAIN pending[l] \subseteq WarehouseRows(loc[l].w)
        BY <2>1, <2>2, <2>3, <2>6 DEF Inserted, WarehouseRows
      <3> QED BY <3>1, <3>2 DEF UnitRows
    <2>7. CASE pc[l] \in {"customer", "history"}
      <3>1. Unit(l)[1] = "cust" /\ Unit(l)[2] = loc[l].w /\ Unit(l)[3] = loc[l].d
        BY <2>7 DEF Unit, ItemLabels, WareLabels, CustLabels
      <3>2. DOMAIN pending[l] \subseteq CustomerRows(loc[l].w, loc[l].d)
        BY <2>1, <2>2, <2>3, <2>7 DEF Inserted, CustomerRows, CustomersUpTo
      <3> QED BY <3>1, <3>2 DEF UnitRows
    <2>8. CASE pc[l] \in {"order", "new_order", "line"}
      <3>1. Unit(l)[1] = "ord" /\ Unit(l)[2] = loc[l].w /\ Unit(l)[3] = loc[l].d
        BY <2>8 DEF Unit, ItemLabels, WareLabels, CustLabels
      <3>2. DOMAIN pending[l] \subseteq OrderRows(loc[l].w, loc[l].d)
        BY <2>1, <2>2, <2>3, <2>8 DEF Inserted, OrderRows, OrdersUpTo
      <3> QED BY <3>1, <3>2 DEF UnitRows
    <2>9. CASE pc[l] \in {"item_commit", "ware_commit", "cust_commit", "ord_commit"}
      BY <2>1, <2>9 DEF Inserted
    <2> QED
      BY <1>1, <1>3, <2>4, <2>5, <2>6, <2>7, <2>8, <2>9
         DEF Place, RestLabels, ItemLabels, WareLabels, CustLabels, OrdLabels
  <1> QED BY <1>1, <1>2, <1>3 DEF PendingRows

(* ... and nobody else's. *)
LEMMA PendingApart ==
    ASSUME LoadInv, NEW l \in Loaders, NEW m \in Loaders, l # m
    PROVE  DOMAIN pending[l] \cap DOMAIN pending[m] = {}
  <1> SUFFICES ASSUME NEW r \in DOMAIN pending[l] \cap DOMAIN pending[m] PROVE FALSE
    OBVIOUS
  <1>1. pc[l] \notin RestLabels /\ pc[m] \notin RestLabels
    BY PendingOfUnit
  <1>2. r \in UnitRows(Unit(l)) /\ r \in UnitRows(Unit(m))
    BY PendingOfUnit
  <1>3. UnitOf(r) = Unit(l) /\ UnitOf(r) = Unit(m)
    BY <1>1, <1>2, UnitIn, RowsOfUnits
  <1> QED BY <1>1, <1>3, UnitsDiffer

----------------------------------------------------------------------------
(* Steps of one loader. *)

FullLabels == {"item_commit", "ware_commit", "cust_commit", "ord_commit"}

(* A step of l alone; it may commit what l has inserted. *)
StepOf(l) ==
    /\ DOMAIN pc' = Loaders /\ DOMAIN loc' = Loaders /\ DOMAIN todo' = Loaders
    /\ DOMAIN pending' = Loaders
    /\ up' = up /\ faults' \in 0 .. MaxFaults
    /\ \A m \in Loaders \ {l} : /\ pc'[m] = pc[m] /\ loc'[m] = loc[m]
                                /\ todo'[m] = todo[m] /\ pending'[m] = pending[m]
    /\ db' = db \/ (up /\ db' = Seen(l))

(* What the others rely on stays. *)
LEMMA OthersStay ==
    ASSUME LoadInv, NEW l \in Loaders, StepOf(l), NEW m \in Loaders, m # l
    PROVE  Place(m)' /\ Progress(m)' /\ PendingRows(m)'
  <1>1. /\ pc'[m] = pc[m] /\ loc'[m] = loc[m] /\ todo'[m] = todo[m]
        /\ pending'[m] = pending[m] /\ up' = up
    BY DEF StepOf
  <1>2. Place(m) /\ Progress(m) /\ PendingRows(m)
    BY DEF LoadInv
  <1>3. DOMAIN db' = DOMAIN db \/ DOMAIN db' = DOMAIN db \cup DOMAIN pending[l]
    BY DEF StepOf, Seen, Over
  <1>4. DOMAIN db \subseteq DOMAIN db'
    BY <1>3
  <1>5. DOMAIN pending[m] \cap DOMAIN db' = {}
    BY <1>2, <1>3, PendingApart DEF PendingRows
  <1>6. Place(m)'
    BY <1>1, <1>2 DEF Place, Finished
  <1>7. Progress(m)'
    BY <1>1, <1>2, <1>4 DEF Progress, Finished, Before
  <1>8. PendingRows(m)'
    BY <1>1, <1>2, <1>5 DEF PendingRows, Inserted, PendingOrders, Unit
  <1> QED BY <1>6, <1>7, <1>8

(* A commit of a whole unit leaves only whole units. *)
LEMMA CommitWhole ==
    ASSUME LoadInv, NEW l \in Loaders, up, db' = Seen(l),
           pc[l] \in FullLabels \cup RestLabels
    PROVE  CommittedRows'
  <1>1. /\ CommittedRows /\ PendingRows(l) /\ Place(l)
    BY DEF LoadInv
  <1>2. /\ DOMAIN db' = DOMAIN pending[l] \cup DOMAIN db
        /\ \A r \in DOMAIN pending[l] : db'[r] = pending[l][r]
        /\ \A r \in DOMAIN db : db'[r] = db[r]
    BY <1>1 DEF Seen, Over, PendingRows
  <1>3. CASE pc[l] \in RestLabels
    <2>1. DOMAIN pending[l] = {}
      BY <1>3, PendingOfUnit
    <2>2. DOMAIN db' = DOMAIN db
      BY <1>2, <2>1
    <2>3. ASSUME NEW w \in Warehouses, NEW d \in Districts, OrderRows(w, d) \subseteq DOMAIN db
          PROVE  \A o \in Customers : /\ db'[Orders(w, d, o)] = db[Orders(w, d, o)]
                                      /\ db'[OrderLine(w, d, o)] = db[OrderLine(w, d, o)]
      BY <1>2, <2>3 DEF OrderRows
    <2> QED BY <1>1, <1>2, <2>2, <2>3 DEF CommittedRows, AllOrNone, LinesThere
  <1>4. CASE pc[l] \in FullLabels
    <2> DEFINE u == Unit(l)
    <2>1. pc[l] \notin RestLabels /\ u \in Units
      BY <1>4, UnitIn DEF FullLabels, RestLabels
    <2>2. DOMAIN pending[l] = UnitRows(u)
      BY <1>1, <1>4 DEF PendingRows, Inserted, FullLabels
    <2> HIDE DEF u
    <2>3. ASSUME NEW x \in Units, x # u
          PROVE  UnitRows(x) \cap DOMAIN db' = UnitRows(x) \cap DOMAIN db
      <3>1. UnitRows(x) \cap UnitRows(u) = {}
        BY <2>1, <2>3, RowsOfUnits
      <3> QED BY <1>2, <2>2, <3>1
    <2>4. ASSUME NEW r \in DOMAIN db'
          PROVE  (\E x \in Units : r \in UnitRows(x)) /\ GoodRow(r, db'[r])
      BY <1>1, <1>2, <2>1, <2>2, <2>4 DEF CommittedRows, PendingRows
    <2>5. ASSUME NEW x \in Units PROVE AllOrNone(UnitRows(x))'
      <3>1. CASE x = u
        BY <1>2, <2>2, <3>1 DEF AllOrNone
      <3>2. CASE x # u
        BY <1>1, <2>3, <3>2 DEF AllOrNone, CommittedRows
      <3> QED BY <3>1, <3>2
    <2>6. ASSUME NEW w \in Warehouses, NEW d \in Districts, OrderRows(w, d) \subseteq DOMAIN db'
          PROVE  /\ \A c \in Customers : \E o \in Customers : db'[Orders(w, d, o)].o_c_id = c
                 /\ \A o \in Customers : LinesThere(db', w, d, o)
      <3> DEFINE x == <<"ord", w, d>>
      <3>1. x \in Units /\ UnitRows(x) = OrderRows(w, d)
        BY DEF Units, UnitRows
      <3>2. \A o \in Customers : /\ Orders(w, d, o) \in OrderRows(w, d)
                                 /\ OrderLine(w, d, o) \in OrderRows(w, d)
        BY DEF OrderRows
      <3>3. CASE x = u
        <4>1. pc[l] = "ord_commit" /\ loc[l].w = w /\ loc[l].d = d
          BY <1>4, <3>3 DEF u, FullLabels, Unit, ItemLabels, WareLabels, CustLabels
        <4>2. PendingOrders(l)
          BY <1>1, <4>1 DEF PendingRows, OrdLabels
        <4>3. \A o \in Customers : Orders(w, d, o) \in DOMAIN pending[l]
                                     /\ OrderLine(w, d, o) \in DOMAIN pending[l]
          BY <2>2, <3>1, <3>2, <3>3
        <4>4. \A o \in Customers : /\ pending[l][Orders(w, d, o)].o_c_id = loc[l].nums[o]
                                   /\ LinesThere(pending[l], w, d, o)
          BY <4>1, <4>2, <4>3 DEF PendingOrders
        <4>5. \A c \in Customers : \E o \in Customers : loc[l].nums[o] = c
          BY <1>1, <4>1 DEF Place
        <4>6. \A o \in Customers : /\ db'[Orders(w, d, o)] = pending[l][Orders(w, d, o)]
                                   /\ db'[OrderLine(w, d, o)] = pending[l][OrderLine(w, d, o)]
          BY <1>2, <4>3
        <4> QED BY <4>4, <4>5, <4>6 DEF LinesThere
      <3>4. CASE x # u
        <4>1. OrderRows(w, d) \subseteq DOMAIN db
          BY <2>3, <2>6, <3>1, <3>4
        <4>2. \A o \in Customers : /\ db'[Orders(w, d, o)] = db[Orders(w, d, o)]
                                   /\ db'[OrderLine(w, d, o)] = db[OrderLine(w, d, o)]
          BY <1>2, <3>2, <4>1
        <4> QED BY <1>1, <4>1, <4>2 DEF CommittedRows, LinesThere
      <3> QED BY <3>3, <3>4
    <2> QED BY <2>4, <2>5, <2>6 DEF CommittedRows
  <1> QED BY <1>3, <1>4

(* A step of l keeps the invariant if l itself does. *)
LEMMA StepKeeps ==
    ASSUME LoadInv, NEW l \in Loaders, StepOf(l),
           db' = db \/ pc[l] \in FullLabels \cup RestLabels,
           Place(l)', Progress(l)', PendingRows(l)'
    PROVE  LoadInv'
  <1>1. CommittedRows'
    <2>1. CASE db' = db
      BY <2>1 DEF LoadInv, CommittedRows, AllOrNone, LinesThere
    <2>2. CASE db' # db
      BY <2>2, CommitWhole DEF StepOf
    <2> QED BY <2>1, <2>2
  <1>2. \A m \in Loaders : Place(m)' /\ Progress(m)' /\ PendingRows(m)'
    BY OthersStay
  <1>3. /\ up' \in BOOLEAN /\ faults' \in 0 .. MaxFaults
        /\ DOMAIN pc' = Loaders /\ DOMAIN loc' = Loaders /\ DOMAIN todo' = Loaders
        /\ DOMAIN pending' = Loaders
    BY DEF StepOf, LoadInv
  <1> QED BY <1>1, <1>2, <1>3 DEF LoadInv

----------------------------------------------------------------------------
(* Inserts. *)

(* The row is added to those l has inserted. *)
LEMMA InsertPending ==
    ASSUME LoadInv, NEW l \in Loaders, NEW r, NEW v, Inserts(l, r, v)
    PROVE  /\ DOMAIN pending' = Loaders
           /\ DOMAIN pending'[l] = DOMAIN pending[l] \cup {r}
           /\ pending'[l][r] = v
           /\ \A x \in DOMAIN pending[l] \ {r} : pending'[l][x] = pending[l][x]
           /\ \A m \in Loaders \ {l} : pending'[m] = pending[m]
  BY DEF LoadInv, Inserts, Over

(* l goes on. *)
LEMMA GoesTo ==
    ASSUME LoadInv, NEW l \in Loaders, NEW to, NEW x, Goes(l, to, x)
    PROVE  /\ DOMAIN pc' = Loaders /\ DOMAIN loc' = Loaders /\ DOMAIN todo' = Loaders
           /\ pc'[l] = to /\ loc'[l] = x /\ todo' = todo /\ db' = db /\ up' = up
           /\ faults' \in 0 .. MaxFaults
           /\ \A m \in Loaders \ {l} : pc'[m] = pc[m] /\ loc'[m] = loc[m]
  BY DEF LoadInv, Goes

(* An insert keeps the invariant if l knows where it is. *)
LEMMA InsertKeeps ==
    ASSUME LoadInv, NEW l \in Loaders, NEW r, NEW v, NEW to, NEW x,
           up, Inserts(l, r, v), Goes(l, to, x),
           r \notin DOMAIN db, GoodRow(r, v),
           Place(l)', Progress(l)', Inserted(l, DOMAIN pending[l])',
           to \in OrdLabels => PendingOrders(l)'
    PROVE  LoadInv'
  <1>1. PendingRows(l)
    BY DEF LoadInv
  <1>2. /\ DOMAIN pending'[l] = DOMAIN pending[l] \cup {r} /\ pending'[l][r] = v
        /\ \A y \in DOMAIN pending[l] \ {r} : pending'[l][y] = pending[l][y]
        /\ db' = db /\ up' = up /\ pc'[l] = to
    <2>1. /\ DOMAIN pending'[l] = DOMAIN pending[l] \cup {r} /\ pending'[l][r] = v
          /\ \A y \in DOMAIN pending[l] \ {r} : pending'[l][y] = pending[l][y]
      BY InsertPending
    <2>2. db' = db /\ up' = up /\ pc'[l] = to
      BY GoesTo
    <2> QED BY <2>1, <2>2
  <1>3. StepOf(l)
    BY <1>2, InsertPending, GoesTo DEF StepOf
  <1>4. \A y \in DOMAIN pending'[l] : GoodRow(y, pending'[l][y])
    BY <1>1, <1>2 DEF PendingRows
  <1>5. DOMAIN pending'[l] \cap DOMAIN db' = {}
    BY <1>1, <1>2 DEF PendingRows
  <1>6. PendingRows(l)'
    BY <1>2, <1>4, <1>5 DEF PendingRows
  <1> QED BY <1>2, <1>3, <1>6, StepKeeps

(* A loader that stays in its part and its district has loaded as much as  *)
(* before.                                                                 *)
LEMMA ProgressStays ==
    ASSUME NEW l, Progress(l), todo' = todo, db' = db, loc'[l].w = loc[l].w,
           \/ pc[l] \in ItemLabels /\ pc'[l] \in ItemLabels
           \/ pc[l] \in WareLabels /\ pc'[l] \in WareLabels
           \/ pc[l] \in CustLabels /\ pc'[l] \in CustLabels /\ loc'[l].d = loc[l].d
           \/ pc[l] \in OrdLabels /\ pc'[l] \in OrdLabels /\ loc'[l].d = loc[l].d
    PROVE  Progress(l)'
  BY DEF Progress, Finished, Before, ItemLabels, WareLabels, CustLabels, OrdLabels

(* What l knows when it inserts. *)
LEMMA AtInsert ==
    ASSUME LoadInv, NEW l \in Loaders
    PROVE  /\ Place(l) /\ Progress(l) /\ PendingRows(l) /\ loc[l] \in Vars
           /\ loc[l].w \in Warehouses /\ loc[l].d \in Districts
           /\ loc[l].n \in Nat /\ loc[l].ol \in Nat
           /\ up => Inserted(l, DOMAIN pending[l])
           /\ \A r : r \notin DOMAIN Seen(l) =>
                r \notin DOMAIN db /\ r \notin DOMAIN pending[l]
  BY DEF LoadInv, Place, Vars, PendingRows, Seen, Over

(* A loop variable is set, and the others stay. *)
LEMMA SetN ==
    ASSUME NEW v \in Vars, NEW n \in Nat
    PROVE  LET x == [v EXCEPT !.n = n] IN
             /\ x \in Vars /\ x.n = n /\ x.w = v.w /\ x.d = v.d /\ x.nums = v.nums
             /\ x.ol = v.ol /\ x.ol_cnt = v.ol_cnt /\ x.perm_count = v.perm_count
  BY DEF Vars

(* So is the district. *)
LEMMA SetD ==
    ASSUME NEW v \in Vars, NEW d \in Districts
    PROVE  LET x == [v EXCEPT !.d = d] IN
             x \in Vars /\ x.n = v.n /\ x.w = v.w /\ x.d = d
  BY DEF Vars

(* What the inserts write in the rows whose values are constants. *)
LEMMA GoodRows ==
    ASSUME NEW r
    PROVE  /\ r[1] \in {"item", "new_orders"} => GoodRow(r, TRUE)
           /\ r[1] = "warehouse" => GoodRow(r, LoadedWarehouse)
           /\ r[1] = "stock" => GoodRow(r, InitStock)
           /\ r[1] = "district" => GoodRow(r, LoadedDistrict)
           /\ r[1] = "customer" => GoodRow(r, LoadedCustomer)
  <1>1. r[1] \in {"item", "new_orders"} => GoodRow(r, TRUE)
    BY DEF GoodRow, RowType
  <1>2. r[1] = "warehouse" => GoodRow(r, LoadedWarehouse)
    <2>1. LoadedWarehouse \in [w_ytd : Int]
      BY DEF LoadedWarehouse
    <2> QED BY <2>1 DEF GoodRow, RowType
  <1>3. r[1] = "stock" => GoodRow(r, InitStock)
    <2>1. InitStock \in Int
      BY SchemaAssumption
    <2> QED BY <2>1 DEF GoodRow, RowType
  <1>4. r[1] = "district" => GoodRow(r, LoadedDistrict)
    <2>1. LoadedDistrict \in [d_next_o_id : Nat, d_ytd : Int]
      BY SchemaAssumption DEF LoadedDistrict
    <2> QED BY <2>1 DEF GoodRow, RowType
  <1>5. r[1] = "customer" => GoodRow(r, LoadedCustomer)
    <2>1. /\ DOMAIN LoadedCustomer = {"c_balance", "c_delivery_cnt", "c_data"}
          /\ LoadedCustomer.c_delivery_cnt \in Nat /\ LoadedCustomer.c_data \in Nat
      BY DEF LoadedCustomer
    <2> QED BY <2>1 DEF GoodRow, RowType
  <1> QED BY <1>1, <1>2, <1>3, <1>4, <1>5

(* INSERT INTO item *)
LEMMA InsertItemKeeps ==
    ASSUME LoadInv, NEW l \in Loaders, InsertItem(l)
    PROVE  LoadInv'
  <1> DEFINE n == loc[l].n
  <1>1. /\ pc[l] = "item" /\ up /\ Item(n) \notin DOMAIN db
        /\ Inserts(l, Item(n), TRUE)
    BY AtInsert DEF InsertItem, At, Insert
  <1>2. PICK to, x : /\ Goes(l, to, x)
                     /\ \/ n < MaxItems /\ to = "item" /\ x = [loc[l] EXCEPT !.n = n + 1]
                        \/ ~ (n < MaxItems) /\ to = "item_commit" /\ x = loc[l]
    BY DEF InsertItem
  <1>3. /\ pc'[l] = to /\ loc'[l] = x /\ todo' = todo /\ db' = db
    BY <1>2, GoesTo
  <1>4. /\ n \in Items /\ x \in Vars /\ x.w = loc[l].w
        /\ to = "item" => x.n \in Items /\ x.n = n + 1
        /\ to = "item_commit" => n = MaxItems
    <2>1. n \in Items /\ loc[l] \in Vars
      BY <1>1, AtInsert DEF Place
    <2>2. /\ n \in Nat /\ n + 1 \in Nat /\ (n < MaxItems => n + 1 \in Items)
          /\ (~ (n < MaxItems) => n = MaxItems)
      BY <2>1, SchemaAssumption DEF Items
    <2>3. CASE to = "item"
      <3>1. x = [loc[l] EXCEPT !.n = n + 1] /\ n < MaxItems
        BY <1>2, <2>3
      <3>2. x \in Vars /\ x.n = n + 1 /\ x.w = loc[l].w
        BY <2>1, <2>2, <3>1, SetN
      <3> QED BY <2>1, <2>2, <2>3, <3>1, <3>2
    <2>4. CASE to = "item_commit"
      BY <1>2, <2>1, <2>2, <2>4
    <2> QED BY <1>2, <2>3, <2>4
  <1>5. Place(l)'
    BY <1>1, <1>2, <1>3, <1>4, AtInsert
       DEF Place, Finished, ItemLabels, WareLabels, CustLabels, OrdLabels, RestLabels
  <1>6. Progress(l)'
    BY <1>1, <1>2, <1>3, <1>4, AtInsert, ProgressStays DEF ItemLabels
  <1>7. GoodRow(Item(n), TRUE)
    BY GoodRows DEF Item
  <1>8. Inserted(l, DOMAIN pending[l])'
    <2>1. /\ DOMAIN pending[l] = {Item(i) : i \in 1 .. n - 1}
          /\ DOMAIN pending'[l] = DOMAIN pending[l] \cup {Item(n)}
      BY <1>1, AtInsert, InsertPending DEF Inserted
    <2>2. \A i : i \in 1 .. n <=> i \in 1 .. n - 1 \/ i = n
      BY <1>4 DEF Items
    <2>3. DOMAIN pending'[l] = {Item(i) : i \in 1 .. n}
      BY <2>1, <2>2
    <2>4. CASE to = "item"
      <3>1. x.n - 1 = n
        BY <1>4, <2>4 DEF Items
      <3> QED BY <1>3, <2>3, <2>4, <3>1 DEF Inserted, RestLabels
    <2>5. CASE to = "item_commit"
      <3>1. DOMAIN pending'[l] = {Item(i) : i \in Items}
        BY <1>4, <2>3, <2>5 DEF Items
      <3>2. Unit(l)' = <<"items", 0, 0>>
        BY <1>3, <2>5 DEF Unit, ItemLabels
      <3> QED BY <1>3, <2>5, <3>1, <3>2 DEF Inserted, RestLabels, UnitRows
    <2> QED BY <1>2, <2>4, <2>5
  <1> QED BY <1>1, <1>2, <1>5, <1>6, <1>7, <1>8, InsertKeeps DEF OrdLabels

(* INSERT INTO warehouse *)
LEMMA InsertWarehouseKeeps ==
    ASSUME LoadInv, NEW l \in Loaders, InsertWarehouse(l)
    PROVE  LoadInv'
  <1> DEFINE r == Warehouse(loc[l].w)
  <1>0. PICK x : x = [loc[l] EXCEPT !.n = 1]
    OBVIOUS
  <1>1. /\ pc[l] = "warehouse" /\ up /\ r \notin DOMAIN db
        /\ Inserts(l, r, LoadedWarehouse) /\ Goes(l, "stock", x)
    BY <1>0, AtInsert DEF InsertWarehouse, At, Insert
  <1>2. /\ pc'[l] = "stock" /\ loc'[l] = x /\ todo' = todo /\ db' = db
    BY <1>1, GoesTo
  <1>3. /\ x \in Vars /\ x.w = loc[l].w /\ x.n = 1 /\ 1 \in Items
    <2>1. 1 \in Items
      BY SchemaAssumption DEF Items
    <2> QED BY <1>0, <2>1, AtInsert, SetN
  <1>4. Place(l)'
    BY <1>1, <1>2, <1>3, AtInsert
       DEF Place, Finished, ItemLabels, WareLabels, CustLabels, OrdLabels, RestLabels
  <1>5. Progress(l)'
    BY <1>1, <1>2, <1>3, AtInsert, ProgressStays DEF WareLabels
  <1>6. GoodRow(r, LoadedWarehouse)
    BY GoodRows DEF Warehouse
  <1>7. Inserted(l, DOMAIN pending[l])'
    <2>1. DOMAIN pending'[l] = {r}
      BY <1>1, AtInsert, InsertPending DEF Inserted
    <2>2. 1 .. 1 - 1 = {}
      OBVIOUS
    <2> QED BY <1>2, <1>3, <2>1, <2>2 DEF Inserted, RestLabels
  <1> QED BY <1>1, <1>4, <1>5, <1>6, <1>7, InsertKeeps DEF OrdLabels

(* INSERT INTO stock *)
LEMMA InsertStockKeeps ==
    ASSUME LoadInv, NEW l \in Loaders, InsertStock(l)
    PROVE  LoadInv'
  <1> DEFINE n == loc[l].n
             w == loc[l].w
             r == Stock(w, n)
  <1>1. /\ pc[l] = "stock" /\ up /\ r \notin DOMAIN db /\ Inserts(l, r, InitStock)
    BY AtInsert DEF InsertStock, At, Insert
  <1>2. PICK to, x : /\ Goes(l, to, x)
                     /\ \/ n < MaxItems /\ to = "stock" /\ x = [loc[l] EXCEPT !.n = n + 1]
                        \/ ~ (n < MaxItems) /\ to = "district" /\ x = [loc[l] EXCEPT !.d = 1]
    BY DEF InsertStock
  <1>3. /\ pc'[l] = to /\ loc'[l] = x /\ todo' = todo /\ db' = db
    BY <1>2, GoesTo
  <1>4. /\ n \in Items /\ x \in Vars /\ x.w = w
        /\ to = "stock" => x.n \in Items /\ x.n = n + 1
        /\ to = "district" => n = MaxItems /\ x.d = 1
    <2>1. n \in Items /\ loc[l] \in Vars
      BY <1>1, AtInsert DEF Place
    <2>2. /\ n \in Nat /\ n + 1 \in Nat /\ (n < MaxItems => n + 1 \in Items)
          /\ (~ (n < MaxItems) => n = MaxItems) /\ 1 \in Districts
      BY <2>1, SchemaAssumption DEF Items, Districts
    <2>3. CASE to = "stock"
      <3>1. x = [loc[l] EXCEPT !.n = n + 1] /\ n < MaxItems
        BY <1>2, <2>3
      <3>2. x \in Vars /\ x.n = n + 1 /\ x.w = w
        BY <2>1, <2>2, <3>1, SetN
      <3> QED BY <2>1, <2>2, <2>3, <3>1, <3>2
    <2>4. CASE to = "district"
      <3>1. x = [loc[l] EXCEPT !.d = 1] /\ ~ (n < MaxItems)
        BY <1>2, <2>4
      <3>2. x \in Vars /\ x.d = 1 /\ x.w = w
        BY <2>1, <2>2, <3>1, SetD
      <3> QED BY <2>1, <2>2, <2>4, <3>1, <3>2
    <2> QED BY <1>2, <2>3, <2>4
  <1>5. Place(l)'
    BY <1>1, <1>2, <1>3, <1>4, AtInsert
       DEF Place, Finished, ItemLabels, WareLabels, CustLabels, OrdLabels, RestLabels
  <1>6. Progress(l)'
    BY <1>1, <1>2, <1>3, <1>4, AtInsert, ProgressStays DEF WareLabels
  <1>7. GoodRow(r, InitStock)
    BY GoodRows DEF Stock
  <1>8. Inserted(l, DOMAIN pending[l])'
    <2>1. /\ DOMAIN pending[l] = {Warehouse(w)} \cup {Stock(w, i) : i \in 1 .. n - 1}
          /\ DOMAIN pending'[l] = DOMAIN pending[l] \cup {r}
      BY <1>1, AtInsert, InsertPending DEF Inserted
    <2>2. \A i : i \in 1 .. n <=> i \in 1 .. n - 1 \/ i = n
      BY <1>4 DEF Items
    <2>3. DOMAIN pending'[l] = {Warehouse(w)} \cup {Stock(w, i) : i \in 1 .. n}
      BY <2>1, <2>2
    <2>4. CASE to = "stock"
      <3>1. x.n - 1 = n
        BY <1>4, <2>4 DEF Items
      <3> QED BY <1>3, <1>4, <2>3, <2>4, <3>1 DEF Inserted, RestLabels
    <2>5. CASE to = "district"
      <3>1. DOMAIN pending'[l] = {Warehouse(w)} \cup {Stock(w, i) : i \in Items}
        BY <1>4, <2>3, <2>5 DEF Items
      <3>2. 1 .. 1 - 1 = {}
        OBVIOUS
      <3> QED BY <1>3, <1>4, <2>5, <3>1, <3>2 DEF Inserted, RestLabels
    <2> QED BY <1>2, <2>4, <2>5
  <1> QED BY <1>1, <1>2, <1>5, <1>6, <1>7, <1>8, InsertKeeps DEF OrdLabels

(* INSERT INTO district *)
LEMMA InsertDistrictKeeps ==
    ASSUME LoadInv, NEW l \in Loaders, InsertDistrict(l)
    PROVE  LoadInv'
  <1> DEFINE d == loc[l].d
             w == loc[l].w
             r == District(w, d)
  <1>1. /\ pc[l] = "district" /\ up /\ r \notin DOMAIN db /\ Inserts(l, r, LoadedDistrict)
    BY AtInsert DEF InsertDistrict, At, Insert
  <1>2. PICK to, x : /\ Goes(l, to, x)
                     /\ \/ d < DistPerWare /\ to = "district" /\ x = [loc[l] EXCEPT !.d = d + 1]
                        \/ ~ (d < DistPerWare) /\ to = "ware_commit" /\ x = loc[l]
    BY DEF InsertDistrict
  <1>3. /\ pc'[l] = to /\ loc'[l] = x /\ todo' = todo /\ db' = db
    BY <1>2, GoesTo
  <1>4. /\ d \in Districts /\ x \in Vars /\ x.w = w
        /\ to = "district" => x.d = d + 1
        /\ to = "ware_commit" => d = DistPerWare
    <2>1. d \in Districts /\ loc[l] \in Vars
      BY AtInsert
    <2>2. /\ d < DistPerWare => d + 1 \in Districts
          /\ ~ (d < DistPerWare) => d = DistPerWare
      BY <2>1, SchemaAssumption DEF Districts
    <2>3. CASE to = "district"
      <3>1. x = [loc[l] EXCEPT !.d = d + 1] /\ d < DistPerWare
        BY <1>2, <2>3
      <3>2. x \in Vars /\ x.d = d + 1 /\ x.w = w
        BY <2>1, <2>2, <3>1, SetD
      <3> QED BY <2>1, <2>2, <2>3, <3>1, <3>2
    <2>4. CASE to = "ware_commit"
      BY <1>2, <2>1, <2>2, <2>4
    <2> QED BY <1>2, <2>3, <2>4
  <1>5. Place(l)'
    BY <1>1, <1>2, <1>3, <1>4, AtInsert
       DEF Place, Finished, ItemLabels, WareLabels, CustLabels, OrdLabels, RestLabels
  <1>6. Progress(l)'
    BY <1>1, <1>2, <1>3, <1>4, AtInsert, ProgressStays DEF WareLabels
  <1>7. GoodRow(r, LoadedDistrict)
    BY GoodRows DEF District
  <1>8. Inserted(l, DOMAIN pending[l])'
    <2> DEFINE S == {Warehouse(w)} \cup {Stock(w, i) : i \in Items}
    <2>1. /\ DOMAIN pending[l] = S \cup {District(w, e) : e \in 1 .. d - 1}
          /\ DOMAIN pending'[l] = DOMAIN pending[l] \cup {r}
      BY <1>1, AtInsert, InsertPending DEF Inserted
    <2>2. \A i : i \in 1 .. d <=> i \in 1 .. d - 1 \/ i = d
      BY <1>4 DEF Districts
    <2>3. DOMAIN pending'[l] = S \cup {District(w, e) : e \in 1 .. d}
      BY <2>1, <2>2
    <2>4. CASE to = "district"
      <3>1. x.d - 1 = d
        BY <1>4, <2>4 DEF Districts
      <3> QED BY <1>3, <1>4, <2>3, <2>4, <3>1 DEF Inserted, RestLabels
    <2>5. CASE to = "ware_commit"
      <3>1. DOMAIN pending'[l] = WarehouseRows(w)
        BY <1>4, <2>3, <2>5 DEF Districts, WarehouseRows
      <3>2. Unit(l)' = <<"ware", w, 0>>
        BY <1>3, <1>4, <2>5 DEF Unit, ItemLabels, WareLabels
      <3> QED BY <1>3, <2>5, <3>1, <3>2 DEF Inserted, RestLabels, UnitRows
    <2> QED BY <1>2, <2>4, <2>5
  <1> QED BY <1>1, <1>2, <1>5, <1>6, <1>7, <1>8, InsertKeeps DEF OrdLabels

(* INSERT INTO customer *)
LEMMA InsertCustomerKeeps ==
    ASSUME LoadInv, NEW l \in Loaders, InsertCustomer(l)
    PROVE  LoadInv'
  <1> DEFINE n == loc[l].n
             w == loc[l].w
             d == loc[l].d
             r == Customer(w, d, n)
  <1>1. /\ pc[l] = "customer" /\ up /\ r \notin DOMAIN db /\ Inserts(l, r, LoadedCustomer)
        /\ Goes(l, "history", loc[l])
    BY AtInsert DEF InsertCustomer, At, Insert
  <1>2. /\ pc'[l] = "history" /\ loc'[l] = loc[l] /\ todo' = todo /\ db' = db
    BY <1>1, GoesTo
  <1>3. n \in Customers
    BY <1>1, AtInsert DEF Place
  <1>4. Place(l)'
    BY <1>1, <1>2, <1>3, AtInsert
       DEF Place, Finished, ItemLabels, WareLabels, CustLabels, OrdLabels, RestLabels
  <1>5. Progress(l)'
    BY <1>1, <1>2, AtInsert, ProgressStays DEF CustLabels
  <1>6. GoodRow(r, LoadedCustomer)
    BY GoodRows DEF Customer
  <1>7. Inserted(l, DOMAIN pending[l])'
    <2>1. /\ DOMAIN pending[l] = CustomersUpTo(w, d, n - 1, n - 1)
          /\ DOMAIN pending'[l] = DOMAIN pending[l] \cup {r}
      BY <1>1, AtInsert, InsertPending DEF Inserted
    <2>2. \A i : i \in 1 .. n <=> i \in 1 .. n - 1 \/ i = n
      BY <1>3 DEF Customers
    <2>3. DOMAIN pending'[l] = CustomersUpTo(w, d, n, n - 1)
      BY <2>1, <2>2 DEF CustomersUpTo
    <2> QED BY <1>2, <2>3 DEF Inserted, RestLabels
  <1> QED BY <1>1, <1>4, <1>5, <1>6, <1>7, InsertKeeps DEF OrdLabels

(* The history row of a customer l has just inserted is new. *)
LEMMA HistoryIsNew ==
    ASSUME LoadInv, NEW l \in Loaders, pc[l] = "history", up
    PROVE  LET r == History(loc[l].w, loc[l].d, loc[l].n) IN
             r \notin DOMAIN db /\ r \notin DOMAIN pending[l]
  <1> DEFINE n == loc[l].n
             w == loc[l].w
             d == loc[l].d
             r == History(w, d, n)
             u == <<"cust", w, d>>
  <1>1. /\ n \in Customers /\ w \in Warehouses /\ d \in Districts
        /\ PendingRows(l) /\ DOMAIN pending[l] = CustomersUpTo(w, d, n, n - 1)
    BY AtInsert DEF Place, Inserted
  <1>2. Customer(w, d, n) \in DOMAIN pending[l]
    BY <1>1 DEF CustomersUpTo, Customers
  <1>3. u \in Units /\ UnitRows(u) = CustomerRows(w, d)
    BY <1>1 DEF Units, UnitRows
  <1>4. AllOrNone(CustomerRows(w, d))
    BY <1>3 DEF LoadInv, CommittedRows
  <1>5. Customer(w, d, n) \in CustomerRows(w, d) /\ r \in CustomerRows(w, d)
    BY <1>1 DEF CustomerRows
  <1>6. r \notin DOMAIN db
    BY <1>1, <1>2, <1>4, <1>5 DEF PendingRows, AllOrNone
  <1>7. r \notin DOMAIN pending[l]
    <2>1. n \notin 1 .. n - 1
      BY <1>1 DEF Customers
    <2>2. /\ \A c : r # Customer(w, d, c)
          /\ \A c : r = History(w, d, c) => c = n
      BY DEF Customer, History
    <2> QED BY <1>1, <2>1, <2>2 DEF CustomersUpTo
  <1> QED BY <1>6, <1>7

(* INSERT INTO history *)
LEMMA InsertHistoryKeeps ==
    ASSUME LoadInv, NEW l \in Loaders, InsertHistory(l)
    PROVE  LoadInv'
  <1> DEFINE n == loc[l].n
             w == loc[l].w
             d == loc[l].d
             r == History(w, d, n)
             h == [h_w_id |-> w, h_d_id |-> d, h_amount |-> 10]
  <1>1. pc[l] = "history" /\ up
    BY DEF InsertHistory, At
  <1>2. r \notin DOMAIN Seen(l)
    BY <1>1, HistoryIsNew DEF Seen, Over
  <1>3. PICK v : v = Append(<<>>, h)
    OBVIOUS
  <1>4. Inserts(l, r, v)
    BY <1>2, <1>3 DEF InsertHistory
  <1>5. PICK to, x : /\ Goes(l, to, x)
                     /\ \/ n < CustPerDist /\ to = "customer" /\ x = [loc[l] EXCEPT !.n = @ + 1]
                        \/ ~ (n < CustPerDist) /\ to = "cust_commit" /\ x = loc[l]
    BY DEF InsertHistory
  <1>6. /\ pc'[l] = to /\ loc'[l] = x /\ todo' = todo /\ db' = db
    BY <1>5, GoesTo
  <1>7. /\ n \in Customers /\ w \in Warehouses /\ d \in Districts
        /\ x \in Vars /\ x.w = w /\ x.d = d
        /\ to = "customer" => x.n \in Customers /\ x.n = n + 1
        /\ to = "cust_commit" => n = CustPerDist
    <2>1. n \in Customers /\ loc[l] \in Vars /\ w \in Warehouses /\ d \in Districts
      BY <1>1, AtInsert DEF Place
    <2>2. /\ n \in Nat /\ n + 1 \in Nat /\ (n < CustPerDist => n + 1 \in Customers)
          /\ (~ (n < CustPerDist) => n = CustPerDist)
      BY <2>1, SchemaAssumption DEF Customers
    <2>3. CASE to = "customer"
      <3>1. x = [loc[l] EXCEPT !.n = n + 1] /\ n < CustPerDist
        BY <1>5, <2>3
      <3>2. x \in Vars /\ x.n = n + 1 /\ x.w = w /\ x.d = d
        BY <2>1, <2>2, <3>1, SetN
      <3> QED BY <2>1, <2>2, <2>3, <3>1, <3>2
    <2>4. CASE to = "cust_commit"
      BY <1>5, <2>1, <2>2, <2>4
    <2> QED BY <1>5, <2>3, <2>4
  <1>8. Place(l)'
    BY <1>1, <1>5, <1>6, <1>7, AtInsert
       DEF Place, Finished, ItemLabels, WareLabels, CustLabels, OrdLabels, RestLabels
  <1>9. Progress(l)'
    BY <1>1, <1>5, <1>6, <1>7, AtInsert, ProgressStays DEF CustLabels
  <1>10. GoodRow(r, v)
    <2>1. /\ r[1] = "history"
      BY DEF History
    <2>2. /\ Len(v) = 1
          /\ v \in Seq([h_w_id : Warehouses, h_d_id : Districts, h_amount : Int])
      <3>1. h \in [h_w_id : Warehouses, h_d_id : Districts, h_amount : Int]
        BY <1>7
      <3> HIDE DEF h
      <3> QED BY <1>3, <3>1
    <2> QED BY <2>1, <2>2 DEF GoodRow, RowType
  <1>11. Inserted(l, DOMAIN pending[l])'
    <2>1. /\ DOMAIN pending[l] = CustomersUpTo(w, d, n, n - 1)
          /\ DOMAIN pending'[l] = DOMAIN pending[l] \cup {r}
      BY <1>1, <1>4, AtInsert, InsertPending DEF Inserted
    <2>2. \A i : i \in 1 .. n <=> i \in 1 .. n - 1 \/ i = n
      BY <1>7 DEF Customers
    <2>3. DOMAIN pending'[l] = CustomersUpTo(w, d, n, n)
      BY <2>1, <2>2 DEF CustomersUpTo
    <2>4. CASE to = "customer"
      <3>1. x.n - 1 = n
        BY <1>7, <2>4 DEF Customers
      <3> QED BY <1>6, <1>7, <2>3, <2>4, <3>1 DEF Inserted, RestLabels
    <2>5. CASE to = "cust_commit"
      <3>1. DOMAIN pending'[l] = CustomerRows(w, d)
        BY <1>7, <2>3, <2>5 DEF Customers, CustomerRows, CustomersUpTo
      <3>2. Unit(l)' = <<"cust", w, d>>
        BY <1>6, <1>7, <2>5 DEF Unit, ItemLabels, WareLabels, CustLabels
      <3> QED BY <1>6, <2>5, <3>1, <3>2 DEF Inserted, RestLabels, UnitRows
    <2> QED BY <1>5, <2>4, <2>5
  <1>12. r \notin DOMAIN db
    BY <1>1, HistoryIsNew
  <1>13. to \notin OrdLabels
    BY <1>5 DEF OrdLabels
  <1> QED BY <1>1, <1>4, <1>5, <1>8, <1>9, <1>10, <1>11, <1>12, <1>13, InsertKeeps

(* Which rows there are when an order is being loaded. *)
LEMMA OrdersUpToHas ==
    ASSUME NEW w, NEW d, NEW n, NEW k, NEW m, NEW o
    PROVE  /\ Orders(w, d, o) \in OrdersUpTo(w, d, n, k, m) <=> o \in 1 .. n
           /\ OrderLine(w, d, o) \in OrdersUpTo(w, d, n, k, m) <=> o \in 1 .. m
           /\ NewOrders(w, d, o) \in OrdersUpTo(w, d, n, k, m) <=> o \in DeliveredInit + 1 .. k
  BY DEF OrdersUpTo, Orders, OrderLine, NewOrders

(* Rows of different tables, and of different orders, differ. *)
LEMMA OrderRowsDiffer ==
    ASSUME NEW w, NEW d, NEW o, NEW p
    PROVE  /\ Orders(w, d, o) # OrderLine(w, d, p) /\ Orders(w, d, o) # NewOrders(w, d, p)
           /\ OrderLine(w, d, o) # NewOrders(w, d, p)
           /\ Orders(w, d, o) = Orders(w, d, p) => o = p
           /\ OrderLine(w, d, o) = OrderLine(w, d, p) => o = p
  BY DEF Orders, OrderLine, NewOrders

(* An order has at least one line. *)
LEMMA OlCountIs == \A k \in OlCounts : k \in Nat /\ 1 \in 1 .. k
  <1>1. OlCounts \subseteq Nat \ {0}
    BY LoadAssumption
  <1> QED BY <1>1

(* The n-th of the customers, and of the orders. *)
LEMMA CustomerIs ==
    ASSUME NEW n \in Customers
    PROVE  /\ n \in Nat /\ n - 1 \in Nat /\ n - 1 + 1 = n /\ n \in 1 .. n
           /\ n \notin 1 .. n - 1
           /\ \A i : i \in 1 .. n <=> i \in 1 .. n - 1 \/ i = n
           /\ n < CustPerDist => n + 1 \in Customers
           /\ ~ (n < CustPerDist) => n = CustPerDist
           /\ Delivered(n) => DeliveredInit + 1 .. n = {} /\ DeliveredInit + 1 .. n - 1 = {}
  BY SchemaAssumption DEF Customers, Delivered

(* The order just inserted is announced with k lines. *)
LEMMA SetOrder ==
    ASSUME NEW v \in Vars, v.perm_count < CustPerDist, NEW k \in OlCounts
    PROVE  LET x == [v EXCEPT !.perm_count = @ + 1, !.ol_cnt = k, !.ol = 1] IN
             /\ x \in Vars /\ x.n = v.n /\ x.w = v.w /\ x.d = v.d /\ x.nums = v.nums
             /\ x.ol = 1 /\ x.ol_cnt = k /\ x.perm_count = v.perm_count + 1
  <1>1. v.perm_count + 1 \in 0 .. CustPerDist
    BY SchemaAssumption DEF Vars
  <1> QED BY <1>1 DEF Vars

(* The next line. *)
LEMMA SetOl ==
    ASSUME NEW v \in Vars, NEW ol \in Nat
    PROVE  LET x == [v EXCEPT !.ol = ol] IN
             /\ x \in Vars /\ x.n = v.n /\ x.w = v.w /\ x.d = v.d /\ x.nums = v.nums
             /\ x.ol = ol /\ x.ol_cnt = v.ol_cnt /\ x.perm_count = v.perm_count
  BY DEF Vars

(* INSERT INTO orders *)
LEMMA InsertOrderKeeps ==
    ASSUME LoadInv, NEW l \in Loaders, InsertOrder(l)
    PROVE  LoadInv'
  <1> DEFINE n == loc[l].n
             w == loc[l].w
             d == loc[l].d
             r == Orders(w, d, n)
  <1>1. pc[l] = "order" /\ up /\ loc[l].perm_count < CustPerDist
    BY DEF InsertOrder, At
  <1>2. /\ n \in Customers /\ w \in Warehouses /\ d \in Districts /\ loc[l] \in Vars
        /\ loc[l].nums \in [Customers -> Customers]
        /\ loc[l].perm_count = n - 1
        /\ n \in Nat /\ n - 1 \in Nat /\ n - 1 + 1 = n
    <2>1. /\ n \in Customers /\ w \in Warehouses /\ d \in Districts /\ loc[l] \in Vars
          /\ loc[l].nums \in [Customers -> Customers]
          /\ loc[l].perm_count = n - 1
      BY <1>1, AtInsert DEF Place
    <2>2. n \in Nat /\ n - 1 \in Nat /\ n - 1 + 1 = n
      BY <2>1, CustomerIs
    <2> QED BY <2>1, <2>2
  <1>3. PICK k, v, to, x :
          /\ k \in OlCounts
          /\ Insert(l, r, v) /\ Goes(l, to, x)
          /\ v = [o_c_id |-> loc[l].nums[loc[l].perm_count + 1],
                  o_carrier_id |-> IF Delivered(n) THEN 1 ELSE 0,
                  o_ol_cnt |-> k]
          /\ to = (IF Delivered(n) THEN "line" ELSE "new_order")
          /\ x = [loc[l] EXCEPT !.perm_count = @ + 1, !.ol_cnt = k, !.ol = 1]
    BY DEF InsertOrder
  <1>4. Inserts(l, r, v) /\ r \notin DOMAIN db /\ r \notin DOMAIN pending[l]
    BY <1>3, AtInsert DEF Insert
  <1>5. /\ pc'[l] = to /\ loc'[l] = x /\ todo' = todo /\ db' = db
    BY <1>3, GoesTo
  <1>6. /\ x \in Vars /\ x.n = n /\ x.w = w /\ x.d = d /\ x.nums = loc[l].nums
        /\ x.ol = 1 /\ x.ol_cnt = k /\ x.perm_count = n
    <2>1. x.n = n /\ x.w = w /\ x.d = d /\ x.nums = loc[l].nums /\ x \in Vars
      BY <1>1, <1>2, <1>3, SetOrder
    <2>2. x.ol = 1 /\ x.ol_cnt = k /\ x.perm_count = loc[l].perm_count + 1
      BY <1>1, <1>2, <1>3, SetOrder
    <2> QED BY <1>2, <2>1, <2>2
  <1>7. to \in {"line", "new_order"} /\ (to = "new_order" <=> ~ Delivered(n))
    BY <1>3
  <1>8. k \in OlCounts /\ 1 \in 1 .. k
    BY <1>3, OlCountIs
  <1>9. /\ v.o_c_id = loc[l].nums[n] /\ v.o_c_id \in Customers /\ v.o_ol_cnt = k
        /\ v.o_carrier_id = (IF Delivered(n) THEN 1 ELSE 0)
        /\ v \in [o_c_id : Nat, o_carrier_id : Nat, o_ol_cnt : Nat]
    <2>1. loc[l].nums[n] \in Customers /\ loc[l].nums[n] \in Nat /\ k \in Nat
      <3>1. \A c \in Customers : c \in Nat
        BY DEF Customers
      <3>2. k \in Nat
        BY <1>3, OlCountIs
      <3> QED BY <1>2, <3>1, <3>2
    <2> QED BY <1>2, <1>3, <2>1
  <1>10. Place(l)'
    BY <1>1, <1>2, <1>5, <1>6, <1>7, <1>8, AtInsert
       DEF Place, Finished, ItemLabels, WareLabels, CustLabels, OrdLabels, RestLabels
  <1>11. Progress(l)'
    BY <1>1, <1>5, <1>6, <1>7, AtInsert, ProgressStays DEF OrdLabels
  <1>12. GoodRow(r, v)
    <2>1. /\ r[1] = "orders" /\ r[4] = n
      BY DEF Orders
    <2> QED BY <1>8, <1>9, <2>1 DEF GoodRow, RowType
  <1>13. /\ DOMAIN pending[l] = OrdersUpTo(w, d, n - 1, n - 1, n - 1)
         /\ DOMAIN pending'[l] = DOMAIN pending[l] \cup {r}
         /\ pending'[l][r] = v
         /\ \A y \in DOMAIN pending[l] \ {r} : pending'[l][y] = pending[l][y]
    <2>1. DOMAIN pending[l] = OrdersUpTo(w, d, n - 1, n - 1, n - 1)
      BY <1>1, AtInsert DEF Inserted
    <2> QED BY <1>4, <2>1, InsertPending
  <1>14. Inserted(l, DOMAIN pending[l])'
    <2>1. \A i : i \in 1 .. n <=> i \in 1 .. n - 1 \/ i = n
      BY <1>2 DEF Customers
    <2>2. DOMAIN pending'[l] = OrdersUpTo(w, d, n, n - 1, n - 1)
      BY <1>13, <2>1 DEF OrdersUpTo
    <2>3. CASE to = "new_order"
      BY <1>5, <1>6, <2>2, <2>3 DEF Inserted, RestLabels
    <2>4. CASE to = "line"
      <3>1. DeliveredInit + 1 .. n = {} /\ DeliveredInit + 1 .. n - 1 = {}
        BY <1>2, <1>7, <2>4, CustomerIs
      <3>2. DOMAIN pending'[l] = OrdersUpTo(w, d, n, n, n - 1)
        BY <2>2, <3>1 DEF OrdersUpTo
      <3> QED BY <1>5, <1>6, <2>4, <3>2 DEF Inserted, RestLabels
    <2> QED BY <1>7, <2>3, <2>4
  <1>15. PendingOrders(l)'
    <2>1. PendingOrders(l)
      BY <1>1, AtInsert DEF PendingRows, OrdLabels
    <2>2. ASSUME NEW o \in Customers, Orders(w, d, o) \in DOMAIN pending'[l]
          PROVE  pending'[l][Orders(w, d, o)].o_c_id = x.nums[o]
      BY <1>6, <1>9, <1>13, <2>1, <2>2, OrderRowsDiffer DEF PendingOrders
    <2>3. ASSUME NEW o \in Customers, OrderLine(w, d, o) \in DOMAIN pending'[l]
          PROVE  LinesThere(pending'[l], w, d, o)
      <3>1. OrderLine(w, d, o) \in DOMAIN pending[l]
        BY <1>13, <2>3, OrderRowsDiffer
      <3>2. LinesThere(pending[l], w, d, o)
        BY <1>1, <2>1, <3>1 DEF PendingOrders
      <3>3. Orders(w, d, o) \in DOMAIN pending[l]
        BY <1>13, <3>1, OrdersUpToHas
      <3>4. Orders(w, d, o) # r /\ OrderLine(w, d, o) # r
        BY <1>4, <3>3, OrderRowsDiffer
      <3> QED BY <1>13, <3>1, <3>2, <3>3, <3>4 DEF LinesThere
    <2>4. pending'[l][r].o_ol_cnt = x.ol_cnt
      BY <1>6, <1>9, <1>13
    <2> QED BY <1>5, <1>6, <2>2, <2>3, <2>4 DEF PendingOrders
  <1> QED BY <1>1, <1>3, <1>4, <1>10, <1>11, <1>12, <1>14, <1>15, InsertKeeps

(* INSERT INTO new_orders *)
LEMMA InsertNewOrderKeeps ==
    ASSUME LoadInv, NEW l \in Loaders, InsertNewOrder(l)
    PROVE  LoadInv'
  <1> DEFINE n == loc[l].n
             w == loc[l].w
             d == loc[l].d
             r == NewOrders(w, d, n)
  <1>1. /\ pc[l] = "new_order" /\ up /\ r \notin DOMAIN db /\ r \notin DOMAIN pending[l]
        /\ Inserts(l, r, TRUE) /\ Goes(l, "line", loc[l])
    BY AtInsert DEF InsertNewOrder, At, Insert
  <1>2. /\ pc'[l] = "line" /\ loc'[l] = loc[l] /\ todo' = todo /\ db' = db
    BY <1>1, GoesTo
  <1>3. /\ n \in Customers /\ loc[l].ol = 1 /\ loc[l].ol_cnt \in OlCounts
        /\ ~ Delivered(n)
    BY <1>1, AtInsert DEF Place
  <1>4. 1 \in 1 .. loc[l].ol_cnt
    BY <1>3, OlCountIs
  <1>5. Place(l)'
    BY <1>1, <1>2, <1>3, <1>4, AtInsert
       DEF Place, Finished, ItemLabels, WareLabels, CustLabels, OrdLabels, RestLabels
  <1>6. Progress(l)'
    BY <1>1, <1>2, AtInsert, ProgressStays DEF OrdLabels
  <1>7. GoodRow(r, TRUE)
    BY GoodRows DEF NewOrders
  <1>8. /\ DOMAIN pending[l] = OrdersUpTo(w, d, n, n - 1, n - 1)
        /\ DOMAIN pending'[l] = DOMAIN pending[l] \cup {r}
        /\ \A y \in DOMAIN pending[l] \ {r} : pending'[l][y] = pending[l][y]
    <2>1. DOMAIN pending[l] = OrdersUpTo(w, d, n, n - 1, n - 1)
      BY <1>1, AtInsert DEF Inserted
    <2> QED BY <1>1, <2>1, InsertPending
  <1>9. Inserted(l, DOMAIN pending[l])'
    <2>1. \A i : i \in DeliveredInit + 1 .. n <=> i \in DeliveredInit + 1 .. n - 1 \/ i = n
      BY <1>3, SchemaAssumption DEF Delivered, Customers
    <2>2. DOMAIN pending'[l] = OrdersUpTo(w, d, n, n, n - 1)
      BY <1>8, <2>1 DEF OrdersUpTo
    <2> QED BY <1>2, <1>3, <2>2 DEF Inserted, RestLabels
  <1>10. PendingOrders(l)'
    <2>1. PendingOrders(l)
      BY <1>1, AtInsert DEF PendingRows, OrdLabels
    <2>2. ASSUME NEW o \in Customers, Orders(w, d, o) \in DOMAIN pending'[l]
          PROVE  pending'[l][Orders(w, d, o)] = pending[l][Orders(w, d, o)]
                   /\ Orders(w, d, o) \in DOMAIN pending[l]
      BY <1>8, <2>2, OrderRowsDiffer
    <2>3. ASSUME NEW o \in Customers, OrderLine(w, d, o) \in DOMAIN pending'[l]
          PROVE  LinesThere(pending'[l], w, d, o)
      <3>1. /\ OrderLine(w, d, o) \in DOMAIN pending[l]
            /\ pending'[l][OrderLine(w, d, o)] = pending[l][OrderLine(w, d, o)]
        BY <1>8, <2>3, OrderRowsDiffer
      <3>2. LinesThere(pending[l], w, d, o)
        BY <1>1, <2>1, <3>1 DEF PendingOrders
      <3>3. o \in 1 .. n - 1
        BY <1>8, <3>1, OrdersUpToHas
      <3>4. o \in 1 .. n
        BY <1>3, <3>3 DEF Customers
      <3>5. Orders(w, d, o) \in DOMAIN pending[l]
        BY <1>8, <3>4, OrdersUpToHas
      <3>6. pending'[l][Orders(w, d, o)] = pending[l][Orders(w, d, o)]
        BY <1>8, <3>5, OrderRowsDiffer
      <3> QED BY <3>1, <3>2, <3>6 DEF LinesThere
    <2>4. pending'[l][Orders(w, d, n)].o_ol_cnt = loc[l].ol_cnt
      <3>1. Orders(w, d, n) \in DOMAIN pending[l]
        <4>1. n \in 1 .. n
          BY <1>3 DEF Customers
        <4> QED BY <1>8, <4>1, OrdersUpToHas
      <3>2. pending'[l][Orders(w, d, n)] = pending[l][Orders(w, d, n)]
        BY <1>8, <3>1, OrderRowsDiffer
      <3> QED BY <1>1, <2>1, <3>2 DEF PendingOrders
    <2> QED BY <1>2, <1>3, <2>1, <2>2, <2>3, <2>4 DEF PendingOrders
  <1> QED BY <1>1, <1>5, <1>6, <1>7, <1>9, <1>10, InsertKeeps

(* The line of an order: what is written, and where the loader goes next. *)
LEMMA LineWritten ==
    ASSUME LoadInv, NEW l \in Loaders, InsertLine(l)
    PROVE  LET v == loc[l]
               r == OrderLine(v.w, v.d, v.n)
           IN  \E val :
                 /\ Inserts(l, r, val) /\ r \notin DOMAIN db
                 /\ GoodRow(r, val) /\ Len(val) = v.ol
  <1> DEFINE n == loc[l].n
             w == loc[l].w
             d == loc[l].d
             r == OrderLine(w, d, n)
             Lines == [ol_i_id : Nat, ol_supply_w_id : Nat, ol_quantity : Nat]
  <1>1. pc[l] = "line" /\ up /\ loc[l].ol \in Nat
    BY AtInsert DEF InsertLine, At
  <1>2. /\ n \in Customers /\ w \in Warehouses /\ d \in Districts
        /\ loc[l].ol \in 1 .. loc[l].ol_cnt
        /\ PendingRows(l) /\ PendingOrders(l)
        /\ DOMAIN pending[l] = OrdersUpTo(w, d, n, n, IF loc[l].ol = 1 THEN n - 1 ELSE n)
    BY <1>1, AtInsert DEF Place, PendingRows, Inserted, OrdLabels
  <1>3. PICK line : line = [ol_i_id |-> 1, ol_supply_w_id |-> w,
                            ol_quantity |-> IF Delivered(n) THEN 1 ELSE 0]
    OBVIOUS
  <1>4. line \in Lines /\ (~ Delivered(n) => line.ol_quantity = 0)
    <2>1. w \in Nat
      BY <1>2 DEF Warehouses
    <2> QED BY <1>3, <2>1
  <1>5. r[1] = "order_line" /\ r[4] = n
    BY DEF OrderLine
  <1> HIDE DEF Lines
  <1>6. CASE loc[l].ol = 1
    <2>1. Insert(l, r, <<line>>)
      BY <1>3, <1>6 DEF InsertLine
    <2>2. Inserts(l, r, <<line>>) /\ r \notin DOMAIN db
      BY <2>1, AtInsert DEF Insert
    <2>3. /\ Len(<<line>>) = 1 /\ <<line>> \in Seq(Lines)
          /\ \A i \in DOMAIN <<line>> : <<line>>[i] = line
      BY <1>4
    <2>4. GoodRow(r, <<line>>)
      BY <1>4, <1>5, <2>3 DEF GoodRow, RowType, Lines
    <2> QED BY <1>6, <2>2, <2>3, <2>4
  <1>7. CASE loc[l].ol # 1
    <2>1. r \in DOMAIN pending[l]
      BY <1>2, <1>7, CustomerIs, OrdersUpToHas
    <2>2. PICK old : old = pending[l][r]
      OBVIOUS
    <2>3. Inserts(l, r, Append(old, line))
      BY <1>3, <1>7, <2>1, <2>2 DEF InsertLine, Seen, Over
    <2>4. r \notin DOMAIN db
      BY <1>2, <2>1 DEF PendingRows
    <2>5. /\ GoodRow(r, old) /\ Len(old) = loc[l].ol - 1
      BY <1>1, <1>2, <1>7, <2>1, <2>2 DEF PendingRows, PendingOrders
    <2>6. /\ old \in Seq(Lines)
          /\ ~ Delivered(n) => \A i \in DOMAIN old : old[i].ol_quantity = 0
      BY <1>5, <2>5 DEF GoodRow, RowType, Lines
    <2>7. PICK new : new = Append(old, line)
      OBVIOUS
    <2>8. /\ new \in Seq(Lines) /\ Len(new) = Len(old) + 1
          /\ \A i \in DOMAIN new : new[i] = line \/ (i \in DOMAIN old /\ new[i] = old[i])
      BY <1>4, <2>6, <2>7
    <2>9. GoodRow(r, new)
      BY <1>4, <1>5, <2>6, <2>8 DEF GoodRow, RowType, Lines
    <2>10. Len(new) = loc[l].ol
      BY <1>1, <2>5, <2>8
    <2> QED BY <2>3, <2>4, <2>7, <2>9, <2>10
  <1> QED BY <1>6, <1>7

(* INSERT INTO order_line *)
LEMMA InsertLineKeeps ==
    ASSUME LoadInv, NEW l \in Loaders, InsertLine(l)
    PROVE  LoadInv'
  <1> DEFINE n == loc[l].n
             w == loc[l].w
             d == loc[l].d
             r == OrderLine(w, d, n)
  <1>1. pc[l] = "line" /\ up
    BY DEF InsertLine, At
  <1>2. /\ n \in Customers /\ w \in Warehouses /\ d \in Districts /\ loc[l] \in Vars
        /\ loc[l].ol \in 1 .. loc[l].ol_cnt /\ loc[l].ol_cnt \in OlCounts
        /\ loc[l].perm_count = n
        /\ PendingRows(l) /\ PendingOrders(l)
        /\ DOMAIN pending[l] = OrdersUpTo(w, d, n, n, IF loc[l].ol = 1 THEN n - 1 ELSE n)
    BY <1>1, AtInsert DEF Place, PendingRows, Inserted, OrdLabels
  <1>3. PICK v : /\ Inserts(l, r, v) /\ r \notin DOMAIN db
                 /\ GoodRow(r, v) /\ Len(v) = loc[l].ol
    BY LineWritten
  <1>4. PICK to, x :
          /\ Goes(l, to, x)
          /\ \/ MoreLines(loc[l]) /\ to = "line" /\ x = [loc[l] EXCEPT !.ol = @ + 1]
             \/ ~ MoreLines(loc[l]) /\ n < CustPerDist /\ to = "order" /\ x = [loc[l] EXCEPT !.n = @ + 1]
             \/ ~ MoreLines(loc[l]) /\ ~ (n < CustPerDist) /\ to = "ord_commit" /\ x = loc[l]
    BY DEF InsertLine
  <1>5. /\ pc'[l] = to /\ loc'[l] = x /\ todo' = todo /\ db' = db
    BY <1>4, GoesTo
  <1>6. /\ x \in Vars /\ x.w = w /\ x.d = d /\ x.nums = loc[l].nums
        /\ x.ol_cnt = loc[l].ol_cnt /\ x.perm_count = n
        /\ to = "line" => x.n = n /\ x.ol = loc[l].ol + 1 /\ x.ol \in 1 .. x.ol_cnt /\ x.ol # 1
        /\ to = "order" => x.n = n + 1 /\ x.n \in Customers /\ x.n - 1 = n
        /\ to = "ord_commit" => n = CustPerDist
        /\ to # "line" => loc[l].ol = loc[l].ol_cnt
    <2>1. /\ loc[l].ol \in Nat /\ loc[l].ol_cnt \in Nat /\ loc[l].ol + 1 \in Nat
          /\ MoreLines(loc[l]) => loc[l].ol + 1 \in 1 .. loc[l].ol_cnt /\ loc[l].ol + 1 # 1
          /\ ~ MoreLines(loc[l]) => loc[l].ol = loc[l].ol_cnt
      BY <1>2, OlCountIs DEF MoreLines
    <2>2. /\ n \in Nat /\ n + 1 \in Nat
          /\ n < CustPerDist => n + 1 \in Customers
          /\ ~ (n < CustPerDist) => n = CustPerDist
      BY <1>2, CustomerIs
    <2>3. CASE to = "line"
      <3>1. x = [loc[l] EXCEPT !.ol = loc[l].ol + 1] /\ MoreLines(loc[l])
        BY <1>4, <2>3
      <3>2. /\ x \in Vars /\ x.w = w /\ x.d = d /\ x.nums = loc[l].nums
            /\ x.ol_cnt = loc[l].ol_cnt /\ x.n = n /\ x.ol = loc[l].ol + 1
            /\ x.perm_count = loc[l].perm_count
        BY <1>2, <2>1, <3>1, SetOl
      <3> QED BY <1>2, <2>1, <2>3, <3>1, <3>2
    <2>4. CASE to = "order"
      <3>0. ~ MoreLines(loc[l]) /\ n < CustPerDist
        BY <1>4, <2>4
      <3>1. x = [loc[l] EXCEPT !.n = n + 1]
        BY <1>4, <2>4
      <3>2. /\ x \in Vars /\ x.w = w /\ x.d = d /\ x.nums = loc[l].nums
            /\ x.ol_cnt = loc[l].ol_cnt /\ x.n = n + 1
            /\ x.perm_count = loc[l].perm_count
        BY <1>2, <2>2, <3>1, SetN
      <3>3. x.n - 1 = n /\ x.n \in Customers
        <4>1. x.n \in Customers
          BY <2>2, <3>0, <3>2
        <4>2. x.n - 1 = n
          BY <2>2, <3>2
        <4> QED BY <4>1, <4>2
      <3>4. x.perm_count = n /\ loc[l].ol = loc[l].ol_cnt
        BY <1>2, <2>1, <3>0, <3>2
      <3> QED BY <2>4, <3>2, <3>3, <3>4
    <2>5. CASE to = "ord_commit"
      BY <1>2, <1>4, <2>1, <2>2, <2>5
    <2> QED BY <1>4, <2>3, <2>4, <2>5
  <1>7. to \in {"line", "order", "ord_commit"}
    BY <1>4
  <1>8. Place(l)'
    <2>1. Place(l)
      BY AtInsert
    <2>2. x.n - 1 = n => x.perm_count = x.n - 1
      BY <1>6
    <2> QED
      BY <1>1, <1>2, <1>5, <1>6, <1>7, <2>1, <2>2
         DEF Place, Finished, ItemLabels, WareLabels, CustLabels, OrdLabels, RestLabels
  <1>9. Progress(l)'
    BY <1>1, <1>5, <1>6, <1>7, AtInsert, ProgressStays DEF OrdLabels
  <1>10. /\ DOMAIN pending'[l] = OrdersUpTo(w, d, n, n, n)
         /\ pending'[l][r] = v
         /\ \A y \in DOMAIN pending[l] \ {r} : pending'[l][y] = pending[l][y]
    <2>1. /\ DOMAIN pending'[l] = DOMAIN pending[l] \cup {r}
          /\ pending'[l][r] = v
          /\ \A y \in DOMAIN pending[l] \ {r} : pending'[l][y] = pending[l][y]
      BY <1>3, InsertPending
    <2>2. n \in 1 .. n /\ \A i : i \in 1 .. n <=> i \in 1 .. n - 1 \/ i = n
      BY <1>2, CustomerIs
    <2>3. OrdersUpTo(w, d, n, n, n) = OrdersUpTo(w, d, n, n, n - 1) \cup {r}
      BY <2>2 DEF OrdersUpTo
    <2>4. OrdersUpTo(w, d, n, n, n) = OrdersUpTo(w, d, n, n, n) \cup {r}
      BY <2>2 DEF OrdersUpTo
    <2> QED BY <1>2, <2>1, <2>3, <2>4
  <1>11. Inserted(l, DOMAIN pending[l])'
    <2>1. CASE to = "line"
      BY <1>5, <1>6, <1>10, <2>1 DEF Inserted, RestLabels
    <2>2. CASE to = "order"
      BY <1>5, <1>6, <1>10, <2>2 DEF Inserted, RestLabels
    <2>3. CASE to = "ord_commit"
      <3>1. DOMAIN pending'[l] = OrderRows(w, d)
        BY <1>6, <1>10, <2>3 DEF Customers, OrderRows, OrdersUpTo
      <3>2. Unit(l)' = <<"ord", w, d>>
        BY <1>5, <1>6, <2>3 DEF Unit, ItemLabels, WareLabels, CustLabels
      <3> QED BY <1>5, <2>3, <3>1, <3>2 DEF Inserted, RestLabels, UnitRows
    <2> QED BY <1>7, <2>1, <2>2, <2>3
  <1>12. PendingOrders(l)'
    <2>1. ASSUME NEW o \in Customers, Orders(w, d, o) \in DOMAIN pending'[l]
          PROVE  pending'[l][Orders(w, d, o)] = pending[l][Orders(w, d, o)]
                   /\ Orders(w, d, o) \in DOMAIN pending[l]
      <3>1. o \in 1 .. n
        BY <1>10, <2>1, OrdersUpToHas
      <3>2. Orders(w, d, o) \in DOMAIN pending[l]
        BY <1>2, <3>1, OrdersUpToHas
      <3> QED BY <1>10, <3>2, OrderRowsDiffer
    <2>2. /\ Orders(w, d, n) \in DOMAIN pending'[l]
          /\ pending[l][Orders(w, d, n)].o_ol_cnt = loc[l].ol_cnt
      BY <1>1, <1>2, <1>10, CustomerIs, OrdersUpToHas DEF PendingOrders
    <2>3. ASSUME NEW o \in Customers, OrderLine(w, d, o) \in DOMAIN pending'[l]
          PROVE  LinesThere(pending'[l], w, d, o) \/ (to = "line" /\ o = n)
      <3>1. o \in 1 .. n
        BY <1>10, <2>3, OrdersUpToHas
      <3>2. Orders(w, d, o) \in DOMAIN pending'[l]
        BY <1>10, <3>1, OrdersUpToHas
      <3>3. CASE o = n /\ to # "line"
        <4>1. pending'[l][Orders(w, d, n)].o_ol_cnt = loc[l].ol_cnt
          BY <1>2, <2>1, <2>2
        <4> QED BY <1>3, <1>6, <1>10, <3>3, <4>1 DEF LinesThere
      <3>4. CASE o # n
        <4>1. o \in 1 .. n - 1
          BY <1>2, <3>1, <3>4, CustomerIs
        <4>2. OrderLine(w, d, o) \in DOMAIN pending[l]
          BY <1>2, <3>1, <4>1, OrdersUpToHas
        <4>3. pending'[l][OrderLine(w, d, o)] = pending[l][OrderLine(w, d, o)]
          BY <1>10, <3>4, <4>2, OrderRowsDiffer
        <4>4. LinesThere(pending[l], w, d, o)
          BY <1>2, <3>4, <4>2 DEF PendingOrders
        <4> QED BY <2>1, <3>2, <4>3, <4>4 DEF LinesThere
      <3> QED BY <3>3, <3>4
    <2>4. \A o \in Customers : Orders(w, d, o) \in DOMAIN pending'[l] =>
            pending'[l][Orders(w, d, o)].o_c_id = loc[l].nums[o]
      BY <1>2, <2>1 DEF PendingOrders
    <2>5. to = "line" => /\ pending'[l][Orders(w, d, n)].o_ol_cnt = loc[l].ol_cnt
                         /\ Len(pending'[l][r]) = x.ol - 1
      <3>1. pending'[l][Orders(w, d, n)].o_ol_cnt = loc[l].ol_cnt
        BY <1>2, <2>1, <2>2
      <3>2. to = "line" => x.ol - 1 = loc[l].ol
        BY <1>2, <1>6, OlCountIs
      <3> QED BY <1>3, <1>10, <3>1, <3>2
    <2> QED BY <1>5, <1>6, <1>7, <2>3, <2>4, <2>5 DEF PendingOrders
  <1> QED BY <1>1, <1>3, <1>4, <1>8, <1>9, <1>11, <1>12, InsertKeeps

----------------------------------------------------------------------------
(* The permutation of the customers. *)

(* p has every customer once. *)
Permutes(p) ==
    p \in [Customers -> Customers] /\ \A c \in Customers : \E o \in Customers : p[o] = c

(* What the i-th swap makes of the permutations in S. *)
Swaps(S, i) == {Swapped(p, i, k) : p \in S, k \in i + 1 .. CustPerDist}

Unshuffled == {[k \in 1 .. CustPerDist |-> k]}

(* g is what the first n swaps may leave. *)
Shuffles(g, n) ==
    g = [i \in 0 .. n |-> IF i = 0 THEN Unshuffled ELSE Swaps(g[i - 1], i)]

(* The recursion of Shuffled has a solution of any length. *)
LEMMA ShufflesExists ==
    ASSUME NEW n \in Nat
    PROVE  \E g : Shuffles(g, n)
  <1> DEFINE C == {m \in Nat : ~ \E g : Shuffles(g, m)}
  <1> SUFFICES ASSUME C # {} PROVE FALSE
    OBVIOUS
  <1>1. PICK m \in C : \A k \in C : m <= k
    <2>1. C \subseteq Nat
      OBVIOUS
    <2> HIDE DEF C
    <2> QED BY <2>1, LeastNat
  <1>2. CASE m = 0
    <2> DEFINE h == [i \in 0 .. 0 |-> Unshuffled]
    <2>1. Shuffles(h, 0)
      BY DEF Shuffles
    <2> QED BY <1>1, <1>2, <2>1
  <1>3. CASE m # 0
    <2>1. m - 1 \in Nat /\ m - 1 \notin C
      BY <1>1, <1>3
    <2>2. PICK g : Shuffles(g, m - 1)
      BY <2>1
    <2> DEFINE v == Swaps(g[m - 1], m)
               h == [i \in 0 .. m |-> IF i = m THEN v ELSE g[i]]
               e(f, i) == IF i = 0 THEN Unshuffled ELSE Swaps(f[i - 1], i)
    <2>3. ASSUME NEW k \in 0 .. m PROVE h[k] = e(h, k)
      <3>1. CASE k = m
        <4>1. h[m - 1] = g[m - 1]
          BY <2>1
        <4> QED BY <1>3, <3>1, <4>1
      <3>2. CASE k # m
        <4>1. k \in 0 .. m - 1
          BY <2>1, <3>2
        <4>2. g[k] = e(g, k)
          BY <2>2, <4>1 DEF Shuffles
        <4>3. k # 0 => h[k - 1] = g[k - 1]
          BY <2>1, <4>1
        <4> QED BY <3>2, <4>2, <4>3
      <3> QED BY <3>1, <3>2
    <2>4. Shuffles(h, m)
      <3>1. h = [k \in 0 .. m |-> h[k]]
        OBVIOUS
      <3> HIDE DEF h
      <3> QED BY <2>3, <3>1 DEF Shuffles
    <2> QED BY <1>1, <2>4
  <1> QED BY <1>2, <1>3

(* A swap keeps every customer. *)
LEMMA SwapPermutes ==
    ASSUME NEW p, Permutes(p), NEW i \in Customers, NEW k \in Customers
    PROVE  Permutes(Swapped(p, i, k))
  <1>1. PICK q : q = Swapped(p, i, k)
    OBVIOUS
  <1>2. /\ q \in [Customers -> Customers] /\ q[k] = p[i] /\ q[i] = p[k]
        /\ \A o \in Customers : o # i /\ o # k => q[o] = p[o]
    BY <1>1 DEF Swapped, Permutes
  <1>3. ASSUME NEW c \in Customers PROVE \E o \in Customers : q[o] = c
    <2>1. PICK o \in Customers : p[o] = c
      BY DEF Permutes
    <2> QED BY <1>2, <2>1
  <1> QED BY <1>1, <1>2, <1>3 DEF Permutes

(* What InitPermutation leaves in nums has every customer once. *)
LEMMA ShuffledPermutes ==
    ASSUME NEW p \in Shuffled
    PROVE  Permutes(p)
  <1> DEFINE N == CustPerDist - 1
  <1>1. N \in Nat
    BY SchemaAssumption
  <1>2. PICK g : Shuffles(g, N) /\ Shuffled = g[N]
    <2> DEFINE g == CHOOSE g : Shuffles(g, N)
    <2>1. Shuffles(g, N)
      BY <1>1, ShufflesExists
    <2>2. Shuffled = g[N]
      BY DEF Shuffled, Shuffles, Swaps, Unshuffled
    <2> QED BY <2>1, <2>2
  <1>3. ASSUME NEW i \in 0 .. N, NEW q \in g[i] PROVE Permutes(q)
    <2> DEFINE C == {m \in 0 .. N : \E x \in g[m] : ~ Permutes(x)}
    <2> SUFFICES ASSUME C # {} PROVE FALSE
      BY <1>3
    <2>1. PICK m \in C : \A k \in C : m <= k
      <3>1. C \subseteq Nat
        OBVIOUS
      <3> HIDE DEF C
      <3> QED BY <3>1, LeastNat
    <2>2. PICK x \in g[m] : ~ Permutes(x)
      BY <2>1
    <2>3. m \in 0 .. N
      BY <2>1
    <2>4. CASE m = 0
      <3>1. x = [k \in 1 .. CustPerDist |-> k]
        BY <1>2, <2>2, <2>3, <2>4 DEF Shuffles, Unshuffled
      <3> QED BY <2>2, <3>1 DEF Permutes, Customers
    <2>5. CASE m # 0
      <3>1. m - 1 \in 0 .. N /\ m - 1 \notin C /\ m \in Customers
        <4>1. m - 1 \in 0 .. N /\ m - 1 < m
          BY <1>1, <2>3, <2>5
        <4>2. m - 1 \notin C
          <5> HIDE DEF C
          <5>1. m \in Nat /\ m - 1 \in Nat
            BY <1>1, <2>3, <4>1
          <5> QED BY <2>1, <4>1, <5>1
        <4>3. m \in Customers
          <5> HIDE DEF C
          <5> QED BY <2>3, <2>5, SchemaAssumption DEF Customers
        <4> QED BY <4>1, <4>2, <4>3
      <3>2. PICK y \in g[m - 1], k \in m + 1 .. CustPerDist : x = Swapped(y, m, k)
        <4>1. x \in Swaps(g[m - 1], m)
          BY <1>2, <2>2, <2>3, <2>5 DEF Shuffles
        <4> QED BY <4>1 DEF Swaps
      <3>3. Permutes(y)
        BY <3>1, <3>2
      <3>4. k \in Customers
        BY <2>3, <3>2, SchemaAssumption DEF Customers
      <3> QED BY <2>2, <3>1, <3>2, <3>3, <3>4, SwapPermutes
    <2> QED BY <2>4, <2>5
  <1> QED BY <1>1, <1>2, <1>3

----------------------------------------------------------------------------
(* Steps that leave the loader with nothing inserted. *)

(* A step after which l has inserted nothing keeps the invariant. *)
LEMMA EmptyKeeps ==
    ASSUME LoadInv, NEW l \in Loaders, StepOf(l),
           db' = db \/ pc[l] \in FullLabels \cup RestLabels,
           DOMAIN pending'[l] = {}, up => Inserted(l, {})',
           pc'[l] \notin {"new_order", "line"},
           Place(l)', Progress(l)'
    PROVE  LoadInv'
  <1>1. up' = up
    BY DEF StepOf
  <1>2. PendingOrders(l)'
    BY DEF PendingOrders
  <1>3. PendingRows(l)'
    BY <1>1, <1>2 DEF PendingRows
  <1> QED BY <1>3, StepKeeps

(* Nothing is inserted at the start of a unit. *)
LEMMA NothingInserted ==
    ASSUME NEW l, pc'[l] \in RestLabels \cup {"warehouse", "permute"}
                  \/ (pc'[l] \in {"item", "customer", "order"} /\ loc'[l].n = 1)
    PROVE  Inserted(l, {})'
  <1>1. /\ 1 - 1 = 0 /\ 1 .. 0 = {} /\ DeliveredInit + 1 .. 0 = {}
    BY SchemaAssumption
  <1>2. CASE pc'[l] \in RestLabels \cup {"warehouse", "permute"}
    BY <1>2 DEF Inserted, RestLabels
  <1>3. CASE pc'[l] = "item" /\ loc'[l].n = 1
    BY <1>1, <1>3 DEF Inserted, RestLabels
  <1>4. CASE pc'[l] = "customer" /\ loc'[l].n = 1
    BY <1>1, <1>4 DEF Inserted, RestLabels, CustomersUpTo
  <1>5. CASE pc'[l] = "order" /\ loc'[l].n = 1
    BY <1>1, <1>5 DEF Inserted, RestLabels, OrdersUpTo
  <1> QED BY <1>2, <1>3, <1>4, <1>5

(* What a commit commits. *)
LEMMA CommitIs ==
    ASSUME LoadInv, NEW l \in Loaders, Committed(l)
    PROVE  /\ db' = Seen(l)
           /\ DOMAIN db' = DOMAIN db \cup DOMAIN pending[l]
           /\ DOMAIN pending' = Loaders /\ DOMAIN pending'[l] = {}
           /\ \A m \in Loaders \ {l} : pending'[m] = pending[m]
           /\ pc[l] \in FullLabels => UnitRows(Unit(l)) \subseteq DOMAIN db' \/ ~ up
  <1>1. /\ db' = Seen(l)
        /\ DOMAIN pending' = Loaders /\ DOMAIN pending'[l] = {}
        /\ \A m \in Loaders \ {l} : pending'[m] = pending[m]
    BY DEF LoadInv, Committed, NoRows
  <1>2. DOMAIN db' = DOMAIN db \cup DOMAIN pending[l]
    BY <1>1 DEF Seen, Over
  <1>3. up /\ pc[l] \in FullLabels => UnitRows(Unit(l)) = DOMAIN pending[l]
    BY AtInsert DEF Inserted, FullLabels
  <1> QED BY <1>1, <1>2, <1>3

(* The commit of a loader that goes on keeps the invariant. *)
LEMMA CommitKeeps ==
    ASSUME LoadInv, NEW l \in Loaders, NEW to, NEW x, up, Commit(l, to, x),
           pc[l] \in FullLabels \cup RestLabels,
           DOMAIN todo' = Loaders, \A m \in Loaders \ {l} : todo'[m] = todo[m],
           \/ to \in RestLabels \cup {"warehouse", "permute"}
           \/ to = "customer" /\ x.n = 1,
           Place(l)', Progress(l)'
    PROVE  LoadInv'
  <1>1. /\ DOMAIN pc' = Loaders /\ DOMAIN loc' = Loaders /\ pc'[l] = to /\ loc'[l] = x
        /\ up' = up /\ faults' \in 0 .. MaxFaults /\ Committed(l)
        /\ \A m \in Loaders \ {l} : pc'[m] = pc[m] /\ loc'[m] = loc[m]
    BY DEF LoadInv, Commit
  <1>2. StepOf(l)
    BY <1>1, CommitIs DEF StepOf
  <1>3. Inserted(l, {})'
    BY <1>1, NothingInserted
  <1>4. pc'[l] \notin {"new_order", "line"}
    BY <1>1 DEF RestLabels
  <1> QED BY <1>1, <1>2, <1>3, <1>4, CommitIs, EmptyKeeps

(* A part is done: the next one is the first of what is left. *)
LEMMA PartDoneIs ==
    ASSUME LoadInv, NEW l \in Loaders, PartDone(l), todo[l] # <<>>
    PROVE  /\ DOMAIN todo' = Loaders /\ \A m \in Loaders \ {l} : todo'[m] = todo[m]
           /\ todo'[l] \in Seq(PartNames)
           /\ Finished(l) \in Nat /\ Finished(l)' = Finished(l) + 1
           /\ \A i \in DOMAIN todo'[l] : todo'[l][i] = Parts[l][Finished(l)' + i]
           /\ Parts[l][Finished(l) + 1] = Head(todo[l])
  <1>1. /\ DOMAIN todo' = Loaders /\ todo'[l] = Tail(todo[l])
        /\ \A m \in Loaders \ {l} : todo'[m] = todo[m]
    BY DEF LoadInv, PartDone
  <1>2. PICK k, P, T, U : k = Finished(l) /\ P = Parts[l] /\ T = todo[l] /\ U = todo'[l]
    OBVIOUS
  <1>3. /\ T \in Seq(PartNames) /\ T # <<>> /\ P \in Seq(PartNames)
        /\ k \in Nat /\ k = Len(P) - Len(T) /\ \A i \in DOMAIN T : T[i] = P[k + i]
        /\ U = Tail(T)
    BY <1>1, <1>2, AtInsert, LoadAssumption DEF Place, Finished
  <1>4. /\ U \in Seq(PartNames) /\ Len(U) = Len(T) - 1
        /\ 1 \in DOMAIN T /\ Head(T) = T[1]
        /\ \A i \in DOMAIN U : U[i] = T[i + 1] /\ i + 1 \in DOMAIN T /\ i \in Nat
    BY <1>3
  <1>5. Finished(l)' = k + 1
    <2>1. Finished(l)' = Len(P) - Len(U)
      BY <1>2 DEF Finished
    <2>2. Len(P) \in Nat /\ Len(T) \in Nat
      BY <1>3
    <2> QED BY <1>3, <1>4, <2>1, <2>2
  <1>6. \A i \in DOMAIN U : U[i] = P[k + 1 + i]
    <2> TAKE i \in DOMAIN U
    <2>1. U[i] = P[k + (i + 1)]
      BY <1>3, <1>4
    <2>2. k + (i + 1) = k + 1 + i
      BY <1>3, <1>4
    <2> QED BY <2>1, <2>2
  <1>7. P[k + 1] = Head(T)
    BY <1>3, <1>4
  <1> QED BY <1>1, <1>2, <1>3, <1>4, <1>5, <1>6, <1>7

(* The last commit of a part. *)
LEMMA PartDoneKeeps ==
    ASSUME LoadInv, NEW l \in Loaders, up, Commit(l, "main", loc[l]), PartDone(l),
           todo[l] # <<>>, pc[l] \in FullLabels \cup RestLabels,
           \A w \in MinWare[l] .. MaxWare[l] : RowsOf(Head(todo[l]), w) \subseteq DOMAIN db'
    PROVE  LoadInv'
  <1>1. pc'[l] = "main" /\ loc'[l] = loc[l] /\ Committed(l)
    BY DEF LoadInv, Commit
  <1>2. Place(l)'
    BY <1>1, AtInsert, PartDoneIs
       DEF Place, ItemLabels, WareLabels, CustLabels, OrdLabels, RestLabels
  <1>3. DOMAIN db \subseteq DOMAIN db'
    BY <1>1, CommitIs
  <1>4. Progress(l)'
    <2>1. ASSUME NEW i \in 1 .. Finished(l)', NEW w \in MinWare[l] .. MaxWare[l]
          PROVE  RowsOf(Parts[l][i], w) \subseteq DOMAIN db'
      <3>1. Finished(l) \in Nat /\ Finished(l)' = Finished(l) + 1
        BY PartDoneIs
      <3>2. i \in 1 .. Finished(l) \/ i = Finished(l) + 1
        BY <3>1
      <3>3. CASE i \in 1 .. Finished(l)
        BY <1>3, <3>3, AtInsert DEF Progress
      <3>4. CASE i = Finished(l) + 1
        BY <3>4, PartDoneIs
      <3> QED BY <3>2, <3>3, <3>4
    <2> QED BY <1>1, <2>1 DEF Progress, WareLabels, CustLabels, OrdLabels
  <1> QED BY <1>2, <1>4, PartDoneIs, CommitKeeps DEF RestLabels

(* The commit of LoadItems *)
LEMMA ItemCommitKeeps ==
    ASSUME LoadInv, NEW l \in Loaders, ItemCommit(l)
    PROVE  LoadInv'
  <1>1. /\ pc[l] = "item_commit" /\ up /\ Commit(l, "main", loc[l]) /\ PartDone(l)
    BY DEF ItemCommit, At
  <1>2. todo[l] # <<>> /\ Head(todo[l]) = "items"
    BY <1>1, AtInsert DEF Place, ItemLabels
  <1>3. UnitRows(Unit(l)) \subseteq DOMAIN db'
    BY <1>1, CommitIs DEF Commit, FullLabels
  <1>4. \A w : RowsOf(Head(todo[l]), w) \subseteq DOMAIN db'
    BY <1>1, <1>2, <1>3 DEF Unit, UnitRows, RowsOf, ItemLabels
  <1> QED BY <1>1, <1>2, <1>4, PartDoneKeeps DEF FullLabels

(* The commit of main *)
LEMMA MainCommitKeeps ==
    ASSUME LoadInv, NEW l \in Loaders, MainCommit(l)
    PROVE  LoadInv'
  <1>1. /\ pc[l] = "main" /\ up /\ Commit(l, "done", loc[l]) /\ todo[l] = <<>> /\ todo' = todo
    BY DEF MainCommit, At
  <1>2. pc'[l] = "done" /\ loc'[l] = loc[l] /\ Committed(l)
    BY <1>1 DEF LoadInv, Commit
  <1>3. Place(l)'
    BY <1>1, <1>2, AtInsert
       DEF Place, Finished, ItemLabels, WareLabels, CustLabels, OrdLabels, RestLabels
  <1>4. Progress(l)'
    <2>1. DOMAIN db \subseteq DOMAIN db'
      BY <1>2, CommitIs
    <2>2. Finished(l)' = Finished(l)
      BY <1>1 DEF Finished
    <2>3. \A i \in 1 .. Finished(l) : \A w \in MinWare[l] .. MaxWare[l] :
            RowsOf(Parts[l][i], w) \subseteq DOMAIN db'
      BY <2>1, AtInsert DEF Progress
    <2> QED BY <1>2, <2>2, <2>3 DEF Progress, WareLabels, CustLabels, OrdLabels
  <1>5. DOMAIN todo' = Loaders
    BY <1>1 DEF LoadInv
  <1> QED BY <1>1, <1>3, <1>4, <1>5, CommitKeeps DEF RestLabels

(* The next warehouse. *)
LEMMA SetW ==
    ASSUME NEW v \in Vars, NEW w \in Warehouses
    PROVE  LET x == [v EXCEPT !.w = w] IN x \in Vars /\ x.w = w
  BY DEF Vars

(* The warehouses l has still to load are there. *)
LEMMA RangeIs ==
    ASSUME NEW l \in Loaders
    PROVE  /\ MinWare[l] \in Warehouses /\ MaxWare[l] \in Warehouses
           /\ MinWare[l] <= MaxWare[l]
           /\ \A w \in MinWare[l] .. MaxWare[l] : w \in Warehouses /\ w \in Nat
           /\ \A w \in Warehouses : w \in Nat
  <1>1. MinWare[l] \in Warehouses /\ MaxWare[l] \in Warehouses /\ MinWare[l] <= MaxWare[l]
    BY LoadAssumption
  <1>2. NumWare \in Nat
    BY SchemaAssumption
  <1>3. \A w \in Warehouses : w \in Nat
    BY <1>2 DEF Warehouses
  <1>4. \A w \in MinWare[l] .. MaxWare[l] : w \in Warehouses
    BY <1>1, <1>2 DEF Warehouses
  <1> QED BY <1>1, <1>3, <1>4

(* The commit of LoadWare *)
LEMMA WareCommitKeeps ==
    ASSUME LoadInv, NEW l \in Loaders, WareCommit(l)
    PROVE  LoadInv'
  <1> DEFINE w == loc[l].w
  <1>1. pc[l] = "ware_commit" /\ up
    BY DEF WareCommit, At
  <1>2. /\ todo[l] # <<>> /\ Head(todo[l]) = "ware" /\ w \in Warehouses /\ loc[l] \in Vars
        /\ MinWare[l] <= w /\ w <= MaxWare[l]
        /\ \A x \in MinWare[l] .. MaxWare[l] : x < w => WarehouseRows(x) \subseteq DOMAIN db
    BY <1>1, AtInsert DEF Place, Progress, WareLabels
  <1>3. /\ Unit(l)[1] = "ware" /\ Unit(l)[2] = w
    BY <1>1 DEF Unit, ItemLabels, WareLabels
  <1>4. Committed(l)
    BY DEF WareCommit, Commit
  <1>5. DOMAIN db \subseteq DOMAIN db' /\ WarehouseRows(w) \subseteq DOMAIN db'
    BY <1>1, <1>3, <1>4, CommitIs DEF FullLabels, UnitRows
  <1>6. CASE MoreWarehouses(l)
    <2>1. PICK x : x = [loc[l] EXCEPT !.w = w + 1]
      OBVIOUS
    <2>2. Commit(l, "warehouse", x) /\ todo' = todo
      BY <1>6, <2>1 DEF WareCommit
    <2>3. w + 1 \in Warehouses /\ w + 1 <= MaxWare[l] /\ MinWare[l] <= w + 1
      BY <1>2, <1>6, RangeIs DEF MoreWarehouses, Warehouses
    <2>4. x \in Vars /\ x.w = w + 1
      BY <1>2, <2>1, <2>3, SetW
    <2>5. pc'[l] = "warehouse" /\ loc'[l] = x /\ DOMAIN todo' = Loaders
      BY <2>2 DEF LoadInv, Commit
    <2>6. Place(l)'
      BY <1>1, <1>2, <2>2, <2>3, <2>4, <2>5, AtInsert
         DEF Place, Finished, ItemLabels, WareLabels, CustLabels, OrdLabels, RestLabels
    <2>7. Progress(l)'
      <3>1. ASSUME NEW y \in MinWare[l] .. MaxWare[l], y < w + 1
            PROVE  WarehouseRows(y) \subseteq DOMAIN db'
        <4>1. y < w \/ y = w
          BY <1>2, <3>1, RangeIs
        <4> QED BY <1>2, <1>5, <4>1
      <3>2. \A i \in 1 .. Finished(l) : \A y \in MinWare[l] .. MaxWare[l] :
              RowsOf(Parts[l][i], y) \subseteq DOMAIN db'
        BY <1>5, AtInsert DEF Progress
      <3>3. Finished(l)' = Finished(l)
        BY <2>2 DEF Finished
      <3> QED BY <2>4, <2>5, <3>1, <3>2, <3>3 DEF Progress, CustLabels, OrdLabels
    <2> QED BY <1>1, <2>2, <2>5, <2>6, <2>7, CommitKeeps DEF FullLabels
  <1>7. CASE ~ MoreWarehouses(l)
    <2>1. Commit(l, "main", loc[l]) /\ PartDone(l)
      BY <1>7 DEF WareCommit
    <2>2. w = MaxWare[l]
      BY <1>2, <1>7, RangeIs DEF MoreWarehouses
    <2>3. ASSUME NEW y \in MinWare[l] .. MaxWare[l]
          PROVE  RowsOf("ware", y) \subseteq DOMAIN db'
      <3>1. y < w \/ y = w
        BY <1>2, <2>2, RangeIs
      <3>2. WarehouseRows(y) \subseteq DOMAIN db'
        BY <1>2, <1>5, <3>1
      <3> QED BY <3>2 DEF RowsOf
    <2> QED BY <1>1, <1>2, <2>1, <2>3, PartDoneKeeps DEF FullLabels
  <1> QED BY <1>6, <1>7

(* The district after the one l is at. *)
LEMMA NextDistrictIs ==
    ASSUME LoadInv, NEW l \in Loaders, pc[l] \in CustLabels \cup OrdLabels,
           loc[l].d < DistPerWare \/ MoreWarehouses(l)
    PROVE  LET x == NextDistrict(l) IN
             /\ x \in Vars /\ x.n = 1 /\ MinWare[l] <= x.w /\ x.w <= MaxWare[l]
             /\ \A w \in MinWare[l] .. MaxWare[l], d \in Districts :
                  w < x.w \/ (w = x.w /\ d < x.d) =>
                    Before(l, w, d) \/ (w = loc[l].w /\ d = loc[l].d)
  <1> DEFINE v == loc[l]
  <1>1. PICK x : x = NextDistrict(l)
    OBVIOUS
  <1>2. /\ v \in Vars /\ v.w \in Warehouses /\ v.d \in Districts
        /\ MinWare[l] <= v.w /\ v.w <= MaxWare[l]
    BY AtInsert DEF Place
  <1>3. CASE v.d < DistPerWare
    <2>1. x = [v EXCEPT !.n = 1, !.d = @ + 1]
      BY <1>1, <1>3 DEF NextDistrict
    <2>2. v.d + 1 \in Districts
      <3>1. v.d \in Districts /\ v.d < DistPerWare
        BY <1>2, <1>3
      <3> QED BY <3>1, SchemaAssumption DEF Districts
    <2>3. x \in Vars /\ x.n = 1 /\ x.w = v.w /\ x.d = v.d + 1
      BY <1>2, <2>1, <2>2 DEF Vars
    <2>4. ASSUME NEW w \in MinWare[l] .. MaxWare[l], NEW d \in Districts,
                 w < x.w \/ (w = x.w /\ d < x.d)
          PROVE  Before(l, w, d) \/ (w = v.w /\ d = v.d)
      <3>1. w < v.w \/ (w = v.w /\ d < v.d + 1)
        BY <2>3, <2>4
      <3>2. d < v.d + 1 => d < v.d \/ d = v.d
        BY <1>2 DEF Districts
      <3> QED BY <3>1, <3>2 DEF Before
    <2> QED BY <1>1, <1>2, <2>3, <2>4
  <1>4. CASE ~ (v.d < DistPerWare)
    <2>1. x = [v EXCEPT !.n = 1, !.d = 1, !.w = @ + 1]
      BY <1>1, <1>4 DEF NextDistrict
    <2>2. /\ v.w + 1 \in Warehouses /\ v.w + 1 <= MaxWare[l] /\ MinWare[l] <= v.w + 1
          /\ 1 \in Districts
      <3>1. v.w < MaxWare[l]
        BY <1>4 DEF MoreWarehouses
      <3> QED BY <1>2, <3>1, RangeIs, SchemaAssumption DEF Warehouses, Districts
    <2>3. x \in Vars /\ x.n = 1 /\ x.w = v.w + 1 /\ x.d = 1
      BY <1>2, <2>1, <2>2 DEF Vars
    <2>4. ASSUME NEW w \in MinWare[l] .. MaxWare[l], NEW d \in Districts,
                 w < x.w \/ (w = x.w /\ d < x.d)
          PROVE  Before(l, w, d) \/ (w = v.w /\ d = v.d)
      <3>1. w < v.w + 1 \/ (w = v.w + 1 /\ d < 1)
        BY <2>3, <2>4
      <3>2. w < v.w \/ w = v.w
        BY <1>2, <3>1, RangeIs DEF Districts
      <3>3. d < v.d \/ d = v.d
        BY <1>2, <1>4, SchemaAssumption DEF Districts
      <3> QED BY <3>2, <3>3 DEF Before
    <2> QED BY <1>1, <2>2, <2>3, <2>4
  <1> QED BY <1>3, <1>4

(* The last district of the last warehouse. *)
LEMMA LastDistrictIs ==
    ASSUME LoadInv, NEW l \in Loaders, pc[l] \in CustLabels \cup OrdLabels,
           ~ (loc[l].d < DistPerWare \/ MoreWarehouses(l)),
           NEW w \in MinWare[l] .. MaxWare[l], NEW d \in Districts
    PROVE  Before(l, w, d) \/ (w = loc[l].w /\ d = loc[l].d)
  <1>1. /\ loc[l].w \in Warehouses /\ loc[l].d \in Districts
        /\ MinWare[l] <= loc[l].w /\ loc[l].w <= MaxWare[l]
    BY AtInsert DEF Place
  <1>2. w < loc[l].w \/ w = loc[l].w
    BY <1>1, RangeIs DEF MoreWarehouses
  <1>3. d < loc[l].d \/ d = loc[l].d
    BY <1>1, SchemaAssumption DEF Districts
  <1> QED BY <1>2, <1>3 DEF Before

(* The commits of LoadCust *)
LEMMA CustCommitKeeps ==
    ASSUME LoadInv, NEW l \in Loaders, CustCommit(l)
    PROVE  LoadInv'
  <1> DEFINE w == loc[l].w
             d == loc[l].d
  <1>1. pc[l] = "cust_commit" /\ up /\ todo' = todo /\ Committed(l)
    BY DEF CustCommit, DistrictCommit, Commit, At
  <1>2. /\ todo[l] # <<>> /\ Head(todo[l]) = "cust" /\ loc[l] \in Vars
        /\ \A y \in MinWare[l] .. MaxWare[l], e \in Districts :
             Before(l, y, e) => CustomerRows(y, e) \subseteq DOMAIN db
    BY <1>1, AtInsert DEF Place, Progress, CustLabels
  <1>3. Unit(l)[1] = "cust" /\ Unit(l)[2] = w /\ Unit(l)[3] = d
    BY <1>1 DEF Unit, ItemLabels, WareLabels, CustLabels
  <1>4. DOMAIN db \subseteq DOMAIN db' /\ CustomerRows(w, d) \subseteq DOMAIN db'
    BY <1>1, <1>3, CommitIs DEF FullLabels, UnitRows
  <1>5. /\ Finished(l)' = Finished(l)
        /\ \A i \in 1 .. Finished(l) : \A y \in MinWare[l] .. MaxWare[l] :
             RowsOf(Parts[l][i], y) \subseteq DOMAIN db'
    BY <1>1, <1>4, AtInsert DEF Finished, Progress
  <1>6. CASE d < DistPerWare \/ MoreWarehouses(l)
    <2>1. PICK x : x = NextDistrict(l)
      OBVIOUS
    <2>2. Commit(l, "customer", x)
      BY <1>6, <2>1 DEF CustCommit, DistrictCommit
    <2>3. /\ x \in Vars /\ x.n = 1 /\ MinWare[l] <= x.w /\ x.w <= MaxWare[l]
          /\ \A y \in MinWare[l] .. MaxWare[l], e \in Districts :
               y < x.w \/ (y = x.w /\ e < x.d) => Before(l, y, e) \/ (y = w /\ e = d)
      BY <1>1, <1>6, <2>1, NextDistrictIs DEF CustLabels
    <2>4. pc'[l] = "customer" /\ loc'[l] = x /\ DOMAIN todo' = Loaders
      BY <1>1, <2>2 DEF LoadInv, Commit
    <2>5. 1 \in Customers
      BY SchemaAssumption DEF Customers
    <2>6. Place(l)'
      BY <1>1, <1>2, <2>3, <2>4, <2>5, AtInsert
         DEF Place, Finished, ItemLabels, WareLabels, CustLabels, OrdLabels, RestLabels
    <2>7. Progress(l)'
      <3>1. ASSUME NEW y \in MinWare[l] .. MaxWare[l], NEW e \in Districts, Before(l, y, e)'
            PROVE  CustomerRows(y, e) \subseteq DOMAIN db'
        <4>1. Before(l, y, e) \/ (y = w /\ e = d)
          BY <2>3, <2>4, <3>1 DEF Before
        <4> QED BY <1>2, <1>4, <4>1
      <3> QED BY <1>5, <2>4, <3>1 DEF Progress, WareLabels, OrdLabels
    <2> QED BY <1>1, <2>2, <2>3, <2>4, <2>6, <2>7, CommitKeeps DEF FullLabels
  <1>7. CASE ~ (d < DistPerWare \/ MoreWarehouses(l))
    <2>1. Commit(l, "part_commit", loc[l])
      BY <1>7 DEF CustCommit, DistrictCommit
    <2>2. pc'[l] = "part_commit" /\ loc'[l] = loc[l] /\ DOMAIN todo' = Loaders
      BY <1>1, <2>1 DEF LoadInv, Commit
    <2>3. Place(l)'
      BY <1>1, <1>2, <2>2, AtInsert
         DEF Place, Finished, ItemLabels, WareLabels, CustLabels, OrdLabels, RestLabels
    <2>4. Progress(l)'
      <3>1. ASSUME NEW y \in MinWare[l] .. MaxWare[l]
            PROVE  RowsOf("cust", y) \subseteq DOMAIN db'
        <4>1. ASSUME NEW e \in Districts PROVE CustomerRows(y, e) \subseteq DOMAIN db'
          <5>1. Before(l, y, e) \/ (y = w /\ e = d)
            BY <1>1, <1>7, LastDistrictIs DEF CustLabels
          <5> QED BY <1>2, <1>4, <5>1
        <4> QED BY <4>1 DEF RowsOf
      <3> QED BY <1>1, <1>2, <1>5, <2>2, <3>1 DEF Progress, WareLabels, CustLabels, OrdLabels
    <2> QED BY <1>1, <2>1, <2>2, <2>3, <2>4, CommitKeeps DEF FullLabels, RestLabels
  <1> QED BY <1>6, <1>7

(* The commits of LoadOrd *)
LEMMA OrdCommitKeeps ==
    ASSUME LoadInv, NEW l \in Loaders, OrdCommit(l)
    PROVE  LoadInv'
  <1> DEFINE w == loc[l].w
             d == loc[l].d
  <1>1. pc[l] = "ord_commit" /\ up /\ todo' = todo /\ Committed(l)
    BY DEF OrdCommit, DistrictCommit, Commit, At
  <1>2. /\ todo[l] # <<>> /\ Head(todo[l]) = "ord" /\ loc[l] \in Vars
        /\ \A y \in MinWare[l] .. MaxWare[l], e \in Districts :
             Before(l, y, e) => OrderRows(y, e) \subseteq DOMAIN db
    BY <1>1, AtInsert DEF Place, Progress, OrdLabels
  <1>3. Unit(l)[1] = "ord" /\ Unit(l)[2] = w /\ Unit(l)[3] = d
    BY <1>1 DEF Unit, ItemLabels, WareLabels, CustLabels
  <1>4. DOMAIN db \subseteq DOMAIN db' /\ OrderRows(w, d) \subseteq DOMAIN db'
    BY <1>1, <1>3, CommitIs DEF FullLabels, UnitRows
  <1>5. /\ Finished(l)' = Finished(l)
        /\ \A i \in 1 .. Finished(l) : \A y \in MinWare[l] .. MaxWare[l] :
             RowsOf(Parts[l][i], y) \subseteq DOMAIN db'
    BY <1>1, <1>4, AtInsert DEF Finished, Progress
  <1>6. CASE d < DistPerWare \/ MoreWarehouses(l)
    <2>1. PICK x : x = NextDistrict(l)
      OBVIOUS
    <2>2. Commit(l, "permute", x)
      BY <1>6, <2>1 DEF OrdCommit, DistrictCommit
    <2>3. /\ x \in Vars /\ x.n = 1 /\ MinWare[l] <= x.w /\ x.w <= MaxWare[l]
          /\ \A y \in MinWare[l] .. MaxWare[l], e \in Districts :
               y < x.w \/ (y = x.w /\ e < x.d) => Before(l, y, e) \/ (y = w /\ e = d)
      BY <1>1, <1>6, <2>1, NextDistrictIs DEF OrdLabels
    <2>4. pc'[l] = "permute" /\ loc'[l] = x /\ DOMAIN todo' = Loaders
      BY <1>1, <2>2 DEF LoadInv, Commit
    <2>6. Place(l)'
      BY <1>1, <1>2, <2>3, <2>4, AtInsert
         DEF Place, Finished, ItemLabels, WareLabels, CustLabels, OrdLabels, RestLabels
    <2>7. Progress(l)'
      <3>1. ASSUME NEW y \in MinWare[l] .. MaxWare[l], NEW e \in Districts, Before(l, y, e)'
            PROVE  OrderRows(y, e) \subseteq DOMAIN db'
        <4>1. Before(l, y, e) \/ (y = w /\ e = d)
          BY <2>3, <2>4, <3>1 DEF Before
        <4> QED BY <1>2, <1>4, <4>1
      <3> QED BY <1>5, <2>4, <3>1 DEF Progress, WareLabels, CustLabels
    <2> QED BY <1>1, <2>2, <2>3, <2>4, <2>6, <2>7, CommitKeeps DEF FullLabels
  <1>7. CASE ~ (d < DistPerWare \/ MoreWarehouses(l))
    <2>1. Commit(l, "part_commit", loc[l])
      BY <1>7 DEF OrdCommit, DistrictCommit
    <2>2. pc'[l] = "part_commit" /\ loc'[l] = loc[l] /\ DOMAIN todo' = Loaders
      BY <1>1, <2>1 DEF LoadInv, Commit
    <2>3. Place(l)'
      BY <1>1, <1>2, <2>2, AtInsert
         DEF Place, Finished, ItemLabels, WareLabels, CustLabels, OrdLabels, RestLabels
    <2>4. Progress(l)'
      <3>1. ASSUME NEW y \in MinWare[l] .. MaxWare[l]
            PROVE  RowsOf("ord", y) \subseteq DOMAIN db'
        <4>1. ASSUME NEW e \in Districts PROVE OrderRows(y, e) \subseteq DOMAIN db'
          <5>1. Before(l, y, e) \/ (y = w /\ e = d)
            BY <1>1, <1>7, LastDistrictIs DEF OrdLabels
          <5> QED BY <1>2, <1>4, <5>1
        <4> QED BY <4>1 DEF RowsOf
      <3> QED BY <1>1, <1>2, <1>5, <2>2, <3>1 DEF Progress, WareLabels, CustLabels, OrdLabels
    <2> QED BY <1>1, <2>1, <2>2, <2>3, <2>4, CommitKeeps DEF FullLabels, RestLabels
  <1> QED BY <1>6, <1>7

(* "Just in case" *)
LEMMA PartCommitKeeps ==
    ASSUME LoadInv, NEW l \in Loaders, PartCommit(l)
    PROVE  LoadInv'
  <1>1. pc[l] = "part_commit" /\ up /\ Commit(l, "main", loc[l]) /\ PartDone(l)
    BY DEF PartCommit, At
  <1>2. /\ todo[l] # <<>>
        /\ \A w \in MinWare[l] .. MaxWare[l] : RowsOf(Head(todo[l]), w) \subseteq DOMAIN db
    BY <1>1, AtInsert DEF Place, Progress
  <1>3. DOMAIN db \subseteq DOMAIN db'
    BY <1>1, CommitIs DEF Commit
  <1> QED BY <1>1, <1>2, <1>3, PartDoneKeeps DEF RestLabels

(* LoadItems, LoadWare, LoadCust or LoadOrd is called. *)
LEMMA StartPartKeeps ==
    ASSUME LoadInv, NEW l \in Loaders, StartPart(l)
    PROVE  LoadInv'
  <1>1. PICK x : x = [loc[l] EXCEPT !.w = MinWare[l], !.d = 1, !.n = 1]
    OBVIOUS
  <1>2. /\ pc[l] = "main" /\ todo[l] # <<>> /\ loc[l] \in Vars
        /\ DOMAIN pc' = Loaders /\ DOMAIN loc' = Loaders
        /\ DOMAIN todo' = Loaders /\ DOMAIN pending' = Loaders
        /\ pc'[l] = FirstLabel[Head(todo[l])] /\ loc'[l] = x
        /\ \A m \in Loaders \ {l} : pc'[m] = pc[m] /\ loc'[m] = loc[m]
        /\ db' = db /\ pending' = pending /\ todo' = todo /\ up' = up /\ faults' = faults
    BY <1>1, AtInsert DEF LoadInv, StartPart
  <1>3. x \in Vars /\ x.w = MinWare[l] /\ x.d = 1 /\ x.n = 1
    <2>1. MinWare[l] \in Warehouses /\ 1 \in Districts
      BY RangeIs, SchemaAssumption DEF Districts
    <2>2. loc[l] \in Vars
      BY AtInsert
    <2> QED BY <1>1, <2>1, <2>2 DEF Vars
  <1>4. Head(todo[l]) \in PartNames
    <2>1. todo[l] \in Seq(PartNames)
      BY AtInsert DEF Place
    <2> QED BY <1>2, <2>1
  <1>5. \/ Head(todo[l]) = "items" /\ pc'[l] = "item"
        \/ Head(todo[l]) = "ware" /\ pc'[l] = "warehouse"
        \/ Head(todo[l]) = "cust" /\ pc'[l] = "customer"
        \/ Head(todo[l]) = "ord" /\ pc'[l] = "permute"
    BY <1>2, <1>4 DEF PartNames, FirstLabel
  <1>6. 1 \in Items /\ 1 \in Customers
    BY SchemaAssumption DEF Items, Customers
  <1>7. Place(l)'
    <2>1. Place(l)
      BY AtInsert
    <2>2. MinWare[l] <= x.w /\ x.w <= MaxWare[l]
      BY <1>3, RangeIs DEF Warehouses
    <2> QED
      BY <1>2, <1>3, <1>5, <1>6, <2>1, <2>2
         DEF Place, Finished, ItemLabels, WareLabels, CustLabels, OrdLabels, RestLabels
  <1>8. Progress(l)'
    <2>1. \A w \in MinWare[l] .. MaxWare[l], d \in Districts :
             ~ (w < x.w) /\ ~ (w = x.w /\ d < x.d)
      BY <1>3, RangeIs DEF Districts
    <2>2. Progress(l) /\ Finished(l)' = Finished(l)
      BY <1>2, AtInsert DEF Finished
    <2>3. 1 \in Districts
      BY <1>3 DEF Vars
    <2> QED BY <1>2, <1>5, <2>1, <2>2, <2>3 DEF Progress, Before, WareLabels, CustLabels, OrdLabels
  <1>9. DOMAIN pending'[l] = {}
    BY <1>2, PendingOfUnit DEF RestLabels
  <1>10. Inserted(l, {})'
    BY <1>2, <1>3, <1>5, NothingInserted
  <1>11. StepOf(l)
    BY <1>2 DEF StepOf, LoadInv
  <1> QED BY <1>2, <1>5, <1>7, <1>8, <1>9, <1>10, <1>11, EmptyKeeps

(* The permutation of the customers of a district is drawn. *)
LEMMA InitPermutationKeeps ==
    ASSUME LoadInv, NEW l \in Loaders, InitPermutation(l)
    PROVE  LoadInv'
  <1>1. PICK p, x :
          /\ p \in Shuffled
          /\ x = [loc[l] EXCEPT !.nums = p, !.perm_count = 0, !.n = 1]
          /\ loc' = [loc EXCEPT ![l] = x]
    <2>1. PICK p \in Shuffled : loc' = [loc EXCEPT ![l].nums = p, ![l].perm_count = 0, ![l].n = 1]
      BY DEF InitPermutation
    <2>2. PICK x : x = [loc[l] EXCEPT !.nums = p, !.perm_count = 0, !.n = 1]
      OBVIOUS
    <2>3. loc' = [loc EXCEPT ![l] = x]
      BY <2>1, <2>2 DEF LoadInv
    <2> QED BY <2>2, <2>3
  <1>2. /\ pc[l] = "permute" /\ pc'[l] = "order" /\ loc'[l] = x
        /\ DOMAIN pc' = Loaders /\ DOMAIN loc' = Loaders
        /\ DOMAIN todo' = Loaders /\ DOMAIN pending' = Loaders
        /\ \A m \in Loaders \ {l} : pc'[m] = pc[m] /\ loc'[m] = loc[m]
        /\ db' = db /\ pending' = pending /\ todo' = todo /\ up' = up /\ faults' = faults
    BY <1>1 DEF LoadInv, InitPermutation
  <1>3. Permutes(p)
    BY <1>1, ShuffledPermutes
  <1>4. /\ x \in Vars /\ x.w = loc[l].w /\ x.d = loc[l].d /\ x.n = 1 /\ x.nums = p
        /\ x.perm_count = 0
    <2>1. loc[l] \in Vars
      BY AtInsert
    <2>2. p \in Seq(Customers) /\ 0 \in 0 .. CustPerDist
      <3>1. PICK C, N : C = Customers /\ N = CustPerDist
        OBVIOUS
      <3>2. N \in Nat /\ p \in [1 .. N -> C]
        BY <1>3, <3>1, SchemaAssumption DEF Permutes, Customers
      <3>3. p \in Seq(C) /\ 0 \in 0 .. N
        BY <3>2
      <3> QED BY <3>1, <3>3
    <2> HIDE DEF Permutes
    <2> QED BY <1>1, <2>1, <2>2 DEF Vars
  <1>5. 1 \in Customers /\ 0 = 1 - 1
    BY SchemaAssumption DEF Customers
  <1>6. Place(l)'
    BY <1>2, <1>3, <1>4, <1>5, AtInsert
       DEF Place, Finished, Permutes, ItemLabels, WareLabels, CustLabels, OrdLabels, RestLabels
  <1>7. Progress(l)'
    BY <1>2, <1>4, AtInsert, ProgressStays DEF OrdLabels
  <1>8. DOMAIN pending'[l] = {}
    BY <1>2, AtInsert DEF PendingRows, Inserted
  <1>9. Inserted(l, {})'
    BY <1>2, <1>4, NothingInserted
  <1>10. StepOf(l)
    BY <1>2 DEF StepOf, LoadInv
  <1> QED BY <1>2, <1>6, <1>7, <1>8, <1>9, <1>10, EmptyKeeps

(* An insert fails, and the loader starts its unit again. *)
LEMMA InsertFailsKeeps ==
    ASSUME LoadInv, NEW l \in Loaders, InsertFails(l)
    PROVE  LoadInv'
  <1>1. PICK x : x = [loc[l] EXCEPT !.n = 1]
    OBVIOUS
  <1>2. /\ pc[l] \in InsertLabels
        /\ pc'[l] = FirstLabel[Head(todo[l])] /\ loc'[l] = x
        /\ DOMAIN pc' = Loaders /\ DOMAIN loc' = Loaders
        /\ DOMAIN todo' = Loaders /\ DOMAIN pending' = Loaders
        /\ DOMAIN pending'[l] = {}
        /\ \A m \in Loaders \ {l} : /\ pc'[m] = pc[m] /\ loc'[m] = loc[m]
                                    /\ pending'[m] = pending[m]
        /\ db' = db /\ todo' = todo /\ up' = up
    BY <1>1 DEF LoadInv, InsertFails, Retry, RetryLabel, NoRows
  <1>3. faults' \in 0 .. MaxFaults
    <2>1. faults \in 0 .. MaxFaults /\ (faults' = faults \/ (faults > 0 /\ faults' = faults - 1))
      BY DEF LoadInv, InsertFails
    <2> QED BY <2>1, LoadAssumption
  <1>4. /\ x \in Vars /\ x.n = 1 /\ x.w = loc[l].w /\ x.d = loc[l].d
    BY <1>1, AtInsert, SetN
  <1>5. \/ pc[l] \in ItemLabels /\ Head(todo[l]) = "items" /\ pc'[l] = "item"
        \/ pc[l] \in WareLabels /\ Head(todo[l]) = "ware" /\ pc'[l] = "warehouse"
        \/ pc[l] \in CustLabels /\ Head(todo[l]) = "cust" /\ pc'[l] = "customer"
        \/ pc[l] \in OrdLabels /\ Head(todo[l]) = "ord" /\ pc'[l] = "permute"
    BY <1>2, AtInsert
       DEF Place, FirstLabel, InsertLabels, ItemLabels, WareLabels, CustLabels, OrdLabels
  <1>6. 1 \in Items /\ 1 \in Customers
    BY SchemaAssumption DEF Items, Customers
  <1>7. Place(l)'
    BY <1>2, <1>4, <1>5, <1>6, AtInsert
       DEF Place, Finished, ItemLabels, WareLabels, CustLabels, OrdLabels, RestLabels
  <1>8. Progress(l)'
    BY <1>2, <1>4, <1>5, AtInsert, ProgressStays DEF ItemLabels, WareLabels, CustLabels, OrdLabels
  <1>9. Inserted(l, {})'
    BY <1>2, <1>4, <1>5, NothingInserted
  <1>10. StepOf(l)
    BY <1>2, <1>3 DEF StepOf
  <1> QED BY <1>2, <1>5, <1>7, <1>8, <1>9, <1>10, EmptyKeeps

(* A commit fails, carried out or not, and the loader exits. *)
LEMMA CommitFailsKeeps ==
    ASSUME LoadInv, NEW l \in Loaders, CommitFails(l)
    PROVE  LoadInv'
  <1>1. /\ pc[l] \in FullLabels \cup RestLabels
        /\ pc'[l] = "error"
        /\ DOMAIN pc' = Loaders /\ loc' = loc /\ todo' = todo /\ up' = up
        /\ \A m \in Loaders \ {l} : pc'[m] = pc[m]
    BY DEF LoadInv, CommitFails, Exit, CommitLabels, FullLabels, RestLabels
  <1>2. faults' \in 0 .. MaxFaults
    <2>1. faults \in 0 .. MaxFaults /\ (faults' = faults \/ (faults > 0 /\ faults' = faults - 1))
      BY DEF LoadInv, CommitFails
    <2> QED BY <2>1, LoadAssumption
  <1>3. /\ DOMAIN pending' = Loaders /\ DOMAIN pending'[l] = {}
        /\ \A m \in Loaders \ {l} : pending'[m] = pending[m]
        /\ DOMAIN db \subseteq DOMAIN db'
        /\ db' = db \/ (up /\ db' = Seen(l))
    <2>1. CASE up /\ Committed(l)
      BY <2>1, CommitIs
    <2>2. CASE db' = db /\ pending' = [pending EXCEPT ![l] = NoRows]
      BY <2>2 DEF LoadInv, NoRows
    <2> QED BY <2>1, <2>2 DEF CommitFails
  <1>4. Place(l)'
    BY <1>1, AtInsert
       DEF Place, Finished, ItemLabels, WareLabels, CustLabels, OrdLabels, RestLabels
  <1>5. Progress(l)'
    BY <1>1, <1>3, AtInsert DEF Progress, Finished, WareLabels, CustLabels, OrdLabels
  <1>6. Inserted(l, {})'
    BY <1>1, NothingInserted DEF RestLabels
  <1>7. StepOf(l)
    BY <1>1, <1>2, <1>3 DEF StepOf, LoadInv
  <1> QED BY <1>1, <1>3, <1>4, <1>5, <1>6, <1>7, EmptyKeeps

(* The server goes, and takes what is not committed. *)
LEMMA ServerGoneKeeps ==
    ASSUME LoadInv, ServerGone
    PROVE  LoadInv'
  <1>1. /\ up' = FALSE /\ db' = db /\ pc' = pc /\ todo' = todo /\ loc' = loc /\ faults' = faults
        /\ DOMAIN pending' = Loaders /\ \A l \in Loaders : DOMAIN pending'[l] = {}
    BY DEF ServerGone, NoRows
  <1>2. CommittedRows'
    BY <1>1 DEF LoadInv, CommittedRows, AllOrNone, LinesThere
  <1>3. ASSUME NEW l \in Loaders PROVE Place(l)' /\ Progress(l)' /\ PendingRows(l)'
    <2>1. Place(l)' /\ Progress(l)'
      <3>1. Place(l)'
        BY <1>1, AtInsert DEF Place, Finished
      <3>2. Progress(l)'
        BY <1>1, AtInsert DEF Progress, Finished, Before
      <3> QED BY <3>1, <3>2
    <2>2. PendingRows(l)'
      BY <1>1 DEF PendingRows
    <2> QED BY <2>1, <2>2
  <1> QED BY <1>1, <1>2, <1>3 DEF LoadInv

(* Nothing changes. *)
LEMMA StutterKeeps ==
    ASSUME LoadInv, UNCHANGED vars
    PROVE  LoadInv'
  <1>1. /\ up' = up /\ db' = db /\ pc' = pc /\ todo' = todo /\ loc' = loc /\ faults' = faults
        /\ pending' = pending
    BY DEF vars
  <1>2. CommittedRows'
    BY <1>1 DEF LoadInv, CommittedRows, AllOrNone, LinesThere
  <1>3. ASSUME NEW l \in Loaders PROVE Place(l)' /\ Progress(l)' /\ PendingRows(l)'
    <2>1. Place(l)' /\ Progress(l)'
      <3>1. Place(l)'
        BY <1>1, AtInsert DEF Place, Finished
      <3>2. Progress(l)'
        BY <1>1, AtInsert DEF Progress, Finished, Before
      <3> QED BY <3>1, <3>2
    <2>2. PendingRows(l)'
      <3>0. PendingRows(l)
        BY AtInsert
      <3>1. up => Inserted(l, DOMAIN pending[l])'
        BY <1>1, <3>0 DEF PendingRows, Inserted, Unit
      <3>2. up /\ pc[l] \in OrdLabels => PendingOrders(l)'
        BY <1>1, <3>0 DEF PendingRows, PendingOrders
      <3> QED BY <1>1, <3>0, <3>1, <3>2 DEF PendingRows
    <2> QED BY <2>1, <2>2
  <1> QED BY <1>1, <1>2, <1>3 DEF LoadInv

(* Nothing is loaded yet. *)
LEMMA InitEmpty == Init => LoadInv
  <1> SUFFICES ASSUME Init PROVE LoadInv
    OBVIOUS
  <1>1. /\ DOMAIN db = {} /\ up = TRUE /\ faults = MaxFaults /\ todo = Parts
        /\ DOMAIN pc = Loaders /\ DOMAIN loc = Loaders /\ DOMAIN pending = Loaders
        /\ \A l \in Loaders : DOMAIN pending[l] = {} /\ pc[l] = "main"
    BY DEF Init, NoRows
  <1>2. CommittedRows
    <2>1. \A w, d : \A o \in Customers : Orders(w, d, o) \in OrderRows(w, d)
      BY DEF OrderRows
    <2>2. 1 \in Customers
      BY SchemaAssumption DEF Customers
    <2>3. \A w, d : ~ (OrderRows(w, d) \subseteq DOMAIN db)
      BY <1>1, <2>1, <2>2
    <2> QED BY <1>1, <2>3 DEF CommittedRows, AllOrNone
  <1>3. ASSUME NEW l \in Loaders PROVE Place(l) /\ Progress(l) /\ PendingRows(l)
    <2>1. loc[l] \in Vars
      <3>1. MinWare[l] \in Warehouses /\ 1 \in Districts /\ 0 \in 0 .. CustPerDist
        BY RangeIs, SchemaAssumption DEF Districts
      <3> QED BY <3>1 DEF Init, Vars
    <2>2. PICK T, k : T = Parts[l] /\ k = Finished(l)
      OBVIOUS
    <2>3. T \in Seq(PartNames) /\ k = 0
      <3>1. T \in Seq(PartNames) /\ todo[l] = T
        BY <1>1, <2>2, LoadAssumption
      <3>2. Len(T) \in Nat
        BY <3>1
      <3>3. k = Len(T) - Len(T)
        BY <2>2, <3>1 DEF Finished
      <3> QED BY <3>1, <3>2, <3>3
    <2>4. \A i \in DOMAIN T : T[i] = T[0 + i]
      BY <2>3
    <2>5. Place(l)
      BY <1>1, <2>1, <2>2, <2>3, <2>4
         DEF Place, ItemLabels, WareLabels, CustLabels, OrdLabels, RestLabels
    <2>6. Progress(l)
      BY <1>1, <2>2, <2>3 DEF Progress, WareLabels, CustLabels, OrdLabels
    <2>7. PendingRows(l)
      BY <1>1 DEF PendingRows, Inserted, RestLabels, OrdLabels
    <2> QED BY <2>5, <2>6, <2>7
  <1>4. MaxFaults \in 0 .. MaxFaults
    BY LoadAssumption
  <1>5. DOMAIN todo = Loaders
    BY <1>1, LoadAssumption
  <1> QED BY <1>1, <1>2, <1>3, <1>4, <1>5 DEF LoadInv

(* Every step keeps the invariant. *)
LEMMA NextKeeps == LoadInv /\ [Next]_vars => LoadInv'
  <1> SUFFICES ASSUME LoadInv, [Next]_vars PROVE LoadInv'
    OBVIOUS
  <1>1. ASSUME NEW l \in Loaders, Loader(l) PROVE LoadInv'
    <2>1. CASE StartPart(l) \/ MainCommit(l) \/ InitPermutation(l)
      BY <2>1, StartPartKeeps, MainCommitKeeps, InitPermutationKeeps
    <2>2. CASE InsertItem(l) \/ ItemCommit(l)
      BY <2>2, InsertItemKeeps, ItemCommitKeeps
    <2>3. CASE InsertWarehouse(l) \/ InsertStock(l) \/ InsertDistrict(l) \/ WareCommit(l)
      BY <2>3, InsertWarehouseKeeps, InsertStockKeeps, InsertDistrictKeeps, WareCommitKeeps
    <2>4. CASE InsertCustomer(l) \/ InsertHistory(l) \/ CustCommit(l) \/ PartCommit(l)
      BY <2>4, InsertCustomerKeeps, InsertHistoryKeeps, CustCommitKeeps, PartCommitKeeps
    <2>5. CASE InsertOrder(l) \/ InsertNewOrder(l) \/ InsertLine(l) \/ OrdCommit(l)
      BY <2>5, InsertOrderKeeps, InsertNewOrderKeeps, InsertLineKeeps, OrdCommitKeeps
    <2> QED BY <1>1, <2>1, <2>2, <2>3, <2>4, <2>5 DEF Loader
  <1>2. ASSUME NEW l \in Loaders, InsertFails(l) \/ CommitFails(l) PROVE LoadInv'
    BY <1>2, InsertFailsKeeps, CommitFailsKeeps
  <1>3. CASE ServerGone
    BY <1>3, ServerGoneKeeps
  <1>4. CASE UNCHANGED vars
    BY <1>4, StutterKeeps
  <1> QED BY <1>1, <1>2, <1>3, <1>4 DEF Next, Terminating

(* LoadInv holds in every state of every run. *)
THEOREM LoadInvHolds == Spec => []LoadInv
  BY InitEmpty, NextKeeps, PTL DEF Spec

----------------------------------------------------------------------------
(* What the invariant gives. *)

(* The loop variables and rows are typed. *)
LEMMA LoadedTypeOK == LoadInv => TypeOK
  <1> SUFFICES ASSUME LoadInv PROVE TypeOK
    OBVIOUS
  <1> DEFINE All == Rows \cup {Item(i) : i \in Items}
  <1>1. CommittedRows /\ faults \in 0 .. MaxFaults
    BY DEF LoadInv
  <1>2. DOMAIN db \subseteq All
    BY <1>1, RowsOfUnits DEF CommittedRows
  <1>3. \A r \in DOMAIN db \cap Rows : RowType(r, db[r])
    BY <1>1 DEF CommittedRows, GoodRow
  <1>4. ASSUME NEW l \in Loaders
        PROVE  /\ DOMAIN pending[l] \subseteq All
               /\ pc[l] \in InsertLabels \cup CommitLabels
                              \cup {"main", "permute", "done", "error"}
               /\ loc[l] \in Vars
               /\ pc[l] = "item" => loc[l].n \in Items
               /\ pc[l] \in {"customer", "history", "order", "new_order", "line"} =>
                    loc[l].n \in Customers
               /\ pc[l] = "line" => loc[l].ol \in 1 .. loc[l].ol_cnt
               /\ pc[l] \in {"new_order", "line"} => loc[l].perm_count = loc[l].n
    <2>1. Place(l)
      BY AtInsert
    <2>2. DOMAIN pending[l] \subseteq All
      <3>1. CASE pc[l] \in RestLabels
        BY <3>1, PendingOfUnit
      <3>2. CASE pc[l] \notin RestLabels
        BY <3>2, PendingOfUnit, UnitIn, RowsOfUnits
      <3> QED BY <3>1, <3>2
    <2>3. pc[l] \in InsertLabels \cup CommitLabels \cup {"main", "permute", "done", "error"}
      BY <2>1
         DEF Place, ItemLabels, WareLabels, CustLabels, OrdLabels, RestLabels, InsertLabels,
             CommitLabels
    <2>4. /\ loc[l] \in Vars
          /\ pc[l] = "item" => loc[l].n \in Items
          /\ pc[l] \in {"customer", "history", "order", "new_order", "line"} =>
               loc[l].n \in Customers
          /\ pc[l] = "line" => loc[l].ol \in 1 .. loc[l].ol_cnt
          /\ pc[l] \in {"new_order", "line"} => loc[l].perm_count = loc[l].n
      BY <2>1 DEF Place
    <2> QED BY <2>2, <2>3, <2>4
  <1> QED BY <1>1, <1>2, <1>3, <1>4 DEF TypeOK

(* A unit is of one table group. *)
LEMMA UnitsAre ==
    /\ <<"items", 0, 0>> \in Units /\ UnitRows(<<"items", 0, 0>>) = {Item(i) : i \in Items}
    /\ \A w \in Warehouses : /\ <<"ware", w, 0>> \in Units
                             /\ UnitRows(<<"ware", w, 0>>) = WarehouseRows(w)
    /\ \A w \in Warehouses, d \in Districts :
         /\ <<"cust", w, d>> \in Units /\ UnitRows(<<"cust", w, d>>) = CustomerRows(w, d)
         /\ <<"ord", w, d>> \in Units /\ UnitRows(<<"ord", w, d>>) = OrderRows(w, d)
  BY DEF Units, UnitRows

(* What is committed is whole units. *)
LEMMA LoadedWhole == LoadInv => CommittedWhole
  <1> SUFFICES ASSUME LoadInv PROVE CommittedWhole
    OBVIOUS
  <1>1. /\ \A u \in Units : AllOrNone(UnitRows(u))
        /\ \A r \in DOMAIN db : GoodRow(r, db[r])
    BY DEF LoadInv, CommittedRows
  <1>2. ASSUME NEW w, NEW d, NEW c, History(w, d, c) \in DOMAIN db
        PROVE  Len(db[History(w, d, c)]) = 1
    <2>1. History(w, d, c)[1] = "history"
      BY DEF History
    <2> QED BY <1>1, <1>2, <2>1 DEF GoodRow
  <1>3. AllOrNone({Item(i) : i \in Items})
    BY <1>1, UnitsAre
  <1>4. \A w \in Warehouses : AllOrNone(WarehouseRows(w))
    BY <1>1, UnitsAre
  <1>5. \A w \in Warehouses, d \in Districts :
          AllOrNone(CustomerRows(w, d)) /\ AllOrNone(OrderRows(w, d))
    BY <1>1, UnitsAre
  <1> QED BY <1>2, <1>3, <1>4, <1>5 DEF CommittedWhole

(* A loader that is done has no part left to load. *)
LEMMA LoadedDone == LoadInv => DoneIsLoaded
  <1> SUFFICES ASSUME LoadInv, NEW l \in Loaders, pc[l] = "done",
                      NEW part \in Range(Parts[l]), NEW w \in MinWare[l] .. MaxWare[l]
               PROVE  RowsOf(part, w) \subseteq DOMAIN db
    BY DEF DoneIsLoaded
  <1>1. todo[l] = <<>>
    BY AtInsert DEF Place
  <1>2. Parts[l] \in Seq(PartNames)
    BY LoadAssumption
  <1>3. Finished(l) = Len(Parts[l])
    <2>1. PICK T : T = Parts[l]
      OBVIOUS
    <2>2. Len(T) \in Nat /\ Len(<<>>) = 0
      BY <1>2, <2>1
    <2>3. Finished(l) = Len(T) - 0
      BY <1>1, <2>1, <2>2 DEF Finished
    <2> QED BY <2>1, <2>2, <2>3
  <1>4. PICK i \in 1 .. Len(Parts[l]) : part = Parts[l][i]
    BY <1>2 DEF Range
  <1> QED BY <1>3, <1>4, AtInsert DEF Progress

(* The rows of a district's orders that are there. *)
LEMMA OrderRowsThere ==
    ASSUME LoadInv, NEW w \in Warehouses, NEW d \in Districts, NEW o \in OrderIds
    PROVE  /\ Orders(w, d, o) \in DOMAIN db => o \in Customers
           /\ NewOrders(w, d, o) \in DOMAIN db => o \in DeliveredInit + 1 .. CustPerDist
           /\ OrderLine(w, d, o) \in DOMAIN db => o \in Customers
  <1>1. ASSUME NEW r \in DOMAIN db, r[1] \in {"orders", "new_orders", "order_line"},
               r[2] = w, r[3] = d
        PROVE  r \in OrderRows(w, d)
    <2>1. PICK u \in Units : r \in UnitRows(u)
      BY DEF LoadInv, CommittedRows
    <2>2. UnitOf(r) = u
      BY <2>1, RowsOfUnits
    <2>3. UnitOf(r) = <<"ord", w, d>>
      BY <1>1 DEF UnitOf
    <2> QED BY <2>1, <2>2, <2>3, UnitsAre
  <1>2. Orders(w, d, o) \in DOMAIN db => o \in Customers
    <2>1. Orders(w, d, o) \in DOMAIN db => Orders(w, d, o) \in OrderRows(w, d)
      BY <1>1 DEF Orders
    <2> QED BY <2>1 DEF OrderRows, Orders, OrderLine, NewOrders
  <1>3. NewOrders(w, d, o) \in DOMAIN db => o \in DeliveredInit + 1 .. CustPerDist
    <2>1. NewOrders(w, d, o) \in DOMAIN db => NewOrders(w, d, o) \in OrderRows(w, d)
      BY <1>1 DEF NewOrders
    <2> QED BY <2>1 DEF OrderRows, Orders, OrderLine, NewOrders
  <1>4. OrderLine(w, d, o) \in DOMAIN db => o \in Customers
    <2>1. OrderLine(w, d, o) \in DOMAIN db => OrderLine(w, d, o) \in OrderRows(w, d)
      BY <1>1 DEF OrderLine
    <2> QED BY <2>1 DEF OrderRows, Orders, OrderLine, NewOrders
  <1> QED BY <1>2, <1>3, <1>4

(* The order o of a loaded district. *)
LEMMA LoadedOrderIs ==
    ASSUME LoadInv, NEW w \in Warehouses, NEW d \in Districts, NEW o \in OrderIds,
           OrderRows(w, d) \subseteq DOMAIN db
    PROVE  /\ o \notin Customers => /\ Database[Orders(w, d, o)] = NoOrder
                                    /\ Database[NewOrders(w, d, o)] = FALSE
                                    /\ Database[OrderLine(w, d, o)] = <<>>
           /\ o \in Customers =>
                /\ Database[Orders(w, d, o)] = db[Orders(w, d, o)]
                /\ Database[OrderLine(w, d, o)] = db[OrderLine(w, d, o)]
                /\ Database[NewOrders(w, d, o)] <=> ~ Delivered(o)
                /\ db[Orders(w, d, o)].o_c_id \in Customers
                /\ db[Orders(w, d, o)].o_carrier_id = IF Delivered(o) THEN 1 ELSE 0
                /\ LinesThere(db, w, d, o)
                /\ GoodRow(OrderLine(w, d, o), db[OrderLine(w, d, o)])
  <1>1. /\ Orders(w, d, o) \in Rows /\ NewOrders(w, d, o) \in Rows /\ OrderLine(w, d, o) \in Rows
        /\ Orders(w, d, o)[1] = "orders" /\ NewOrders(w, d, o)[1] = "new_orders"
        /\ OrderLine(w, d, o)[1] = "order_line" /\ Orders(w, d, o)[4] = o
    BY RowNames DEF Orders, NewOrders, OrderLine
  <1>2. CASE o \notin Customers
    <2>1. DeliveredInit + 1 .. CustPerDist \subseteq Customers
      BY SchemaAssumption DEF Customers
    <2>2. /\ Orders(w, d, o) \notin DOMAIN db /\ NewOrders(w, d, o) \notin DOMAIN db
          /\ OrderLine(w, d, o) \notin DOMAIN db
      BY <1>2, <2>1, OrderRowsThere
    <2>3. Database[Orders(w, d, o)] = NoOrder
      BY <1>1, <2>2 DEF Database
    <2>4. Database[NewOrders(w, d, o)] = FALSE
      BY <1>1, <2>2 DEF Database
    <2>5. Database[OrderLine(w, d, o)] = <<>>
      BY <1>1, <2>2 DEF Database
    <2> QED BY <1>2, <2>3, <2>4, <2>5
  <1>3. CASE o \in Customers
    <2>1. Orders(w, d, o) \in DOMAIN db /\ OrderLine(w, d, o) \in DOMAIN db
      BY <1>3 DEF OrderRows
    <2>2. /\ \A r \in DOMAIN db : GoodRow(r, db[r])
          /\ \A p \in Customers : LinesThere(db, w, d, p)
      BY DEF LoadInv, CommittedRows
    <2>3. /\ Database[Orders(w, d, o)] = db[Orders(w, d, o)]
          /\ Database[OrderLine(w, d, o)] = db[OrderLine(w, d, o)]
      BY <1>1, <2>1 DEF Database
    <2>4. Database[NewOrders(w, d, o)] <=> ~ Delivered(o)
      <3>1. Delivered(o) <=> o \notin DeliveredInit + 1 .. CustPerDist
        BY <1>3, SchemaAssumption DEF Delivered, Customers
      <3>2. CASE o \in DeliveredInit + 1 .. CustPerDist
        <4>1. NewOrders(w, d, o) \in DOMAIN db
          BY <3>2 DEF OrderRows
        <4>2. db[NewOrders(w, d, o)] = TRUE
          BY <1>1, <2>2, <4>1 DEF GoodRow
        <4>3. Database[NewOrders(w, d, o)] = db[NewOrders(w, d, o)]
          BY <1>1, <4>1 DEF Database
        <4> QED BY <3>1, <3>2, <4>2, <4>3
      <3>3. CASE o \notin DeliveredInit + 1 .. CustPerDist
        <4>1. NewOrders(w, d, o) \notin DOMAIN db
          BY <3>3, OrderRowsThere
        <4>2. Database[NewOrders(w, d, o)] = FALSE
          BY <1>1, <4>1 DEF Database
        <4> QED BY <3>1, <3>3, <4>2
      <3> QED BY <3>2, <3>3
    <2>5. /\ db[Orders(w, d, o)].o_c_id \in Customers
          /\ db[Orders(w, d, o)].o_carrier_id = IF Delivered(o) THEN 1 ELSE 0
      BY <1>1, <2>1, <2>2 DEF GoodRow
    <2> QED BY <1>3, <2>1, <2>2, <2>3, <2>4, <2>5
  <1> QED BY <1>2, <1>3

(* The lines of an order that waits for delivery add up to 0. *)
LEMMA WaitingAmount ==
    ASSUME NEW r, r[1] = "order_line", ~ Delivered(r[4]), NEW v, GoodRow(r, v)
    PROVE  OrderAmount(v) = 0
  <1> DEFINE L == [ol_i_id : Nat, ol_supply_w_id : Nat, ol_quantity : Nat]
  <1>1. v \in Seq(L) /\ \A n \in DOMAIN v : v[n].ol_quantity = 0
    BY DEF GoodRow, RowType
  <1> HIDE DEF L
  <1>2. IsFiniteSet(DOMAIN v)
    BY <1>1, FS_Interval
  <1>3. \A n \in DOMAIN v : Quantities(v)[n] \in Nat /\ Quantities(v)[n] = 0
    BY <1>1 DEF Quantities
  <1> QED BY <1>2, <1>3, AmountIs, SumNat

(* Loaded districts are as LoadedDb has them. *)
LEMMA LoadedConsistently == LoadInv => LoadedIsConsistent
  <1> SUFFICES ASSUME LoadInv,
                      \A w \in Warehouses, part \in {"ware", "cust", "ord"} :
                          RowsOf(part, w) \subseteq DOMAIN db
               PROVE  /\ OrderNumbersDense(Database)
                      /\ NewOrdersAreUndelivered(Database)
                      /\ OrdersHaveTheirLines(Database)
                      /\ \A w \in Warehouses, d \in Districts :
                           /\ {Database[Orders(w, d, o)].o_c_id : o \in Customers} = Customers
                           /\ \A o \in Customers :
                                /\ Database[Orders(w, d, o)].o_carrier_id
                                     = LoadedOrder(o).o_carrier_id
                                /\ o > DeliveredInit =>
                                     OrderAmount(Database[OrderLine(w, d, o)]) = 0
    BY DEF LoadedIsConsistent
  <1>1. /\ Customers \subseteq OrderIds
        /\ \A o \in OrderIds : /\ o \in Nat /\ (o \in Customers <=> o < CustPerDist + 1)
        /\ \A c \in Customers : c # 0 /\ c \in Nat
    BY SchemaAssumption DEF Customers, OrderIds
  <1>2. ASSUME NEW w \in Warehouses, NEW d \in Districts
        PROVE  /\ OrderRows(w, d) \subseteq DOMAIN db
               /\ Database[District(w, d)].d_next_o_id = CustPerDist + 1
    <2>1. RowsOf("ord", w) \subseteq DOMAIN db /\ RowsOf("ware", w) \subseteq DOMAIN db
      OBVIOUS
    <2>2. OrderRows(w, d) \subseteq DOMAIN db
      BY <2>1 DEF RowsOf
    <2>3. District(w, d) \in DOMAIN db
      BY <2>1 DEF RowsOf, WarehouseRows
    <2>4. db[District(w, d)] = LoadedDistrict
      BY <2>3 DEF LoadInv, CommittedRows, GoodRow, District
    <2>5. Database[District(w, d)] = db[District(w, d)]
      BY <2>3, RowNames DEF Database
    <2> QED BY <2>2, <2>4, <2>5 DEF LoadedDistrict
  <1>3. ASSUME NEW w \in Warehouses, NEW d \in Districts, NEW o \in OrderIds
        PROVE  /\ OrderExists(Database, w, d, o) <=> o \in Customers
               /\ Database[NewOrders(w, d, o)] <=>
                    o \in Customers /\ Database[Orders(w, d, o)].o_carrier_id = 0
               /\ LinesThere(Database, w, d, o)
    <2>1. OrderRows(w, d) \subseteq DOMAIN db
      BY <1>2
    <2>2. CASE o \notin Customers
      <3>1. /\ Database[Orders(w, d, o)] = NoOrder /\ Database[NewOrders(w, d, o)] = FALSE
            /\ Database[OrderLine(w, d, o)] = <<>>
        BY <2>1, <2>2, LoadedOrderIs
      <3>2. NoOrder.o_c_id = 0 /\ NoOrder.o_ol_cnt = 0 /\ Len(<<>>) = 0
        BY DEF NoOrder
      <3> QED BY <2>2, <3>1, <3>2 DEF OrderExists, LinesThere
    <2>3. CASE o \in Customers
      <3>1. /\ Database[Orders(w, d, o)] = db[Orders(w, d, o)]
            /\ Database[OrderLine(w, d, o)] = db[OrderLine(w, d, o)]
            /\ Database[NewOrders(w, d, o)] <=> ~ Delivered(o)
            /\ db[Orders(w, d, o)].o_c_id \in Customers
            /\ db[Orders(w, d, o)].o_carrier_id = IF Delivered(o) THEN 1 ELSE 0
            /\ LinesThere(db, w, d, o)
        BY <2>1, <2>3, LoadedOrderIs
      <3>2. OrderExists(Database, w, d, o)
        BY <1>1, <3>1 DEF OrderExists
      <3>3. Database[Orders(w, d, o)].o_carrier_id = 0 <=> ~ Delivered(o)
        BY <3>1
      <3>4. LinesThere(Database, w, d, o)
        BY <3>1 DEF LinesThere
      <3> QED BY <2>3, <3>1, <3>2, <3>3, <3>4
    <2> QED BY <2>2, <2>3
  <1>4. OrderNumbersDense(Database)
    BY <1>1, <1>2, <1>3 DEF OrderNumbersDense
  <1>5. NewOrdersAreUndelivered(Database)
    BY <1>3 DEF NewOrdersAreUndelivered
  <1>6. OrdersHaveTheirLines(Database)
    BY <1>3 DEF OrdersHaveTheirLines, LinesThere
  <1>7. ASSUME NEW w \in Warehouses, NEW d \in Districts
        PROVE  /\ {Database[Orders(w, d, o)].o_c_id : o \in Customers} = Customers
               /\ \A o \in Customers :
                    /\ Database[Orders(w, d, o)].o_carrier_id = LoadedOrder(o).o_carrier_id
                    /\ o > DeliveredInit => OrderAmount(Database[OrderLine(w, d, o)]) = 0
    <2>1. OrderRows(w, d) \subseteq DOMAIN db
      BY <1>2
    <2>2. \A c \in Customers : \E o \in Customers : db[Orders(w, d, o)].o_c_id = c
      BY <2>1 DEF LoadInv, CommittedRows
    <2>3. \A o \in Customers : /\ Database[Orders(w, d, o)] = db[Orders(w, d, o)]
                               /\ db[Orders(w, d, o)].o_c_id \in Customers
                               /\ db[Orders(w, d, o)].o_carrier_id = IF Delivered(o) THEN 1 ELSE 0
      BY <1>1, <2>1, LoadedOrderIs
    <2>4. {Database[Orders(w, d, o)].o_c_id : o \in Customers} = Customers
      BY <2>2, <2>3
    <2>5. ASSUME NEW o \in Customers
          PROVE  /\ Database[Orders(w, d, o)].o_carrier_id = LoadedOrder(o).o_carrier_id
                 /\ o > DeliveredInit => OrderAmount(Database[OrderLine(w, d, o)]) = 0
      <3>1. LoadedOrder(o).o_carrier_id = IF Delivered(o) THEN 1 ELSE 0
        BY SchemaAssumption DEF LoadedOrder, Delivered, Customers
      <3>2. ASSUME o > DeliveredInit PROVE OrderAmount(Database[OrderLine(w, d, o)]) = 0
        <4>1. ~ Delivered(o)
          BY <3>2, SchemaAssumption DEF Delivered, Customers
        <4>2. /\ Database[OrderLine(w, d, o)] = db[OrderLine(w, d, o)]
              /\ GoodRow(OrderLine(w, d, o), db[OrderLine(w, d, o)])
          BY <1>1, <2>1, LoadedOrderIs
        <4>3. OrderLine(w, d, o)[1] = "order_line" /\ OrderLine(w, d, o)[4] = o
          BY DEF OrderLine
        <4> QED BY <4>1, <4>2, <4>3, WaitingAmount
      <3> QED BY <2>3, <3>1, <3>2
    <2> QED BY <2>4, <2>5
  <1> QED BY <1>4, <1>5, <1>6, <1>7

----------------------------------------------------------------------------
(* The loop variables stay inside the tables and only rows of the schema   *)
(* are inserted, for any number of loaders, parts and warehouses.          *)
THEOREM LoadTypeCorrect == Spec => []TypeOK
  BY LoadInvHolds, LoadedTypeOK, PTL

(* However inserts and commits of the loaders fail, interleave or are cut  *)
(* off by the server's end, what is committed is whole warehouses and      *)
(* districts, with one history row for each customer.                      *)
THEOREM CommitsAreWhole == Spec => []CommittedWhole
  BY LoadInvHolds, LoadedWhole, PTL

(* A loader that prints COMPLETED SUCCESSFULLY has committed every row of  *)
(* its parts.                                                              *)
THEOREM DoneHasLoaded == Spec => []DoneIsLoaded
  BY LoadInvHolds, LoadedDone, PTL

(* When all parts are committed the database is as the transactions need   *)
(* it: orders numbered without gaps, by a permutation of the customers,    *)
(* each with its lines, the last of them waiting for delivery.             *)
THEOREM LoadsAreConsistent == Spec => []LoadedIsConsistent
  BY LoadInvHolds, LoadedConsistently, PTL
=============================================================================
