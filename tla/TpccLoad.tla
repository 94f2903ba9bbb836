------------------------------ MODULE TpccLoad ------------------------------
(***************************************************************************)
(* tpcc_load: the programs that fill the tables before the benchmark.      *)
(* Each is a process with one connection; load.sh runs several at once,    *)
(* each with one part of the work and a range of warehouses.               *)
(*                                                                         *)
(* Every INSERT is a step.  When one fails the program rolls back and      *)
(* starts the current warehouse or district again, for ever; when a        *)
(* COMMIT fails it rolls back and exits.                                   *)
(*                                                                         *)
(*   db       the committed rows, a function on the rows that exist        *)
(*   pending  the rows each loader has inserted since its last commit      *)
(*   pc       the statement a loader executes next                         *)
(*   todo     the parts a loader still has to load, the current one first  *)
(*   loc      its loop variables, o_ol_cnt, and the permutation of the     *)
(*            customers with its position                                  *)
(*   up       the server still answers                                     *)
(*   faults   bound: statements that may still fail                        *)
(***************************************************************************)
EXTENDS TpccSchema

CONSTANTS
    Loaders,     \* the loader processes
    Parts,       \* the parts each loads, in order
    MinWare,     \* min_ware of each
    MaxWare,     \* max_ware of each
    OlCounts,    \* what o_ol_cnt may be (5 .. 15)
    MaxFaults    \* bound on faults

PartNames == {"items", "ware", "cust", "ord"}

(* No two loaders load the same rows (load.sh gives each part's ranges out *)
(* once).                                                                  *)
ASSUME LoadAssumption ==
    /\ Parts \in [Loaders -> Seq(PartNames)]
    /\ MinWare \in [Loaders -> Warehouses] /\ MaxWare \in [Loaders -> Warehouses]
    /\ \A l \in Loaders : MinWare[l] <= MaxWare[l]
    /\ \A l \in Loaders : \A i, k \in DOMAIN Parts[l] :
         Parts[l][i] = Parts[l][k] => i = k
    /\ \A l, m \in Loaders : l # m => \A p \in Range(Parts[l]) \cap Range(Parts[m]) :
         p # "items" /\ (MaxWare[l] < MinWare[m] \/ MaxWare[m] < MinWare[l])
    /\ OlCounts # {} /\ OlCounts \subseteq Nat \ {0}
    /\ MaxFaults \in Nat

Item(i) == <<"item", 0, 0, i>>

VARIABLES db, pending, pc, todo, loc, up, faults

vars == <<db, pending, pc, todo, loc, up, faults>>

NoRows == [r \in {} |-> 0]

Init ==
    /\ db = NoRows
    /\ pending = [l \in Loaders |-> NoRows]
    /\ pc = [l \in Loaders |-> "main"]
    /\ todo = Parts
    /\ loc = [l \in Loaders |-> [w |-> MinWare[l], d |-> 1, n |-> 1, ol |-> 1,
                                 ol_cnt |-> 0, nums |-> <<>>, perm_count |-> 0]]
    /\ up = TRUE
    /\ faults = MaxFaults

----------------------------------------------------------------------------
(* What the statements do. *)

(* The rows of f, and those of g that f does not have. *)
Over(f, g) ==
    [r \in DOMAIN f \cup DOMAIN g |-> IF r \in DOMAIN f THEN f[r] ELSE g[r]]

(* The rows l sees. *)
Seen(l) == Over(pending[l], db)

Inserts(l, r, v) == pending' = [pending EXCEPT ![l] = Over([x \in {r} |-> v], @)]

(* l sends the statement of its label to a server that answers. *)
At(l, label) == pc[l] = label /\ up

(* The statement succeeds and l goes on at label to with variables v. *)
Goes(l, to, v) ==
    /\ pc' = [pc EXCEPT ![l] = to]
    /\ loc' = [loc EXCEPT ![l] = v]
    /\ UNCHANGED <<db, todo, up, faults>>

(* Row r, whose key is not taken, is inserted. *)
Insert(l, r, v) == r \notin DOMAIN Seen(l) /\ Inserts(l, r, v)

(* mysql_commit *)
Committed(l) ==
    /\ db' = Seen(l)
    /\ pending' = [pending EXCEPT ![l] = NoRows]

(* A commit succeeds. *)
Commit(l, to, v) ==
    /\ Committed(l)
    /\ pc' = [pc EXCEPT ![l] = to]
    /\ loc' = [loc EXCEPT ![l] = v]
    /\ UNCHANGED <<up, faults>>

----------------------------------------------------------------------------
(* main() *)

FirstLabel == [items |-> "item", ware |-> "warehouse", cust |-> "customer",
               ord |-> "permute"]

(* LoadItems, LoadWare, LoadCust or LoadOrd is called ... *)
StartPart(l) ==
    /\ pc[l] = "main" /\ todo[l] # <<>>
    /\ pc' = [pc EXCEPT ![l] = FirstLabel[Head(todo[l])]]
    /\ loc' = [loc EXCEPT ![l].w = MinWare[l], ![l].d = 1, ![l].n = 1]
    /\ UNCHANGED <<db, pending, todo, up, faults>>

(* ... and returns after its last commit. *)
PartDone(l) == todo' = [todo EXCEPT ![l] = Tail(@)]

(* The last commit of main(), then "COMPLETED SUCCESSFULLY". *)
MainCommit(l) ==
    /\ At(l, "main") /\ todo[l] = <<>>
    /\ Commit(l, "done", loc[l])
    /\ UNCHANGED todo

----------------------------------------------------------------------------
(* LoadItems() *)

InsertItem(l) ==
    LET n == loc[l].n IN
    /\ At(l, "item")
    /\ Insert(l, Item(n), TRUE)
    /\ IF n < MaxItems THEN Goes(l, "item", [loc[l] EXCEPT !.n = n + 1])
                       ELSE Goes(l, "item_commit", loc[l])

ItemCommit(l) ==
    /\ At(l, "item_commit")
    /\ Commit(l, "main", loc[l])
    /\ PartDone(l)

----------------------------------------------------------------------------
(* LoadWare(), with Stock() and District(): one commit per warehouse. *)

InsertWarehouse(l) ==
    /\ At(l, "warehouse")
    /\ Insert(l, Warehouse(loc[l].w), LoadedWarehouse)
    /\ Goes(l, "stock", [loc[l] EXCEPT !.n = 1])

InsertStock(l) ==
    LET n == loc[l].n IN
    /\ At(l, "stock")
    /\ Insert(l, Stock(loc[l].w, n), InitStock)
    /\ IF n < MaxItems THEN Goes(l, "stock", [loc[l] EXCEPT !.n = n + 1])
                       ELSE Goes(l, "district", [loc[l] EXCEPT !.d = 1])

InsertDistrict(l) ==
    LET d == loc[l].d IN
    /\ At(l, "district")
    /\ Insert(l, District(loc[l].w, d), LoadedDistrict)
    /\ IF d < DistPerWare THEN Goes(l, "district", [loc[l] EXCEPT !.d = d + 1])
                          ELSE Goes(l, "ware_commit", loc[l])

(* Mutant of MoreWarehouses: the last warehouse is forgotten. *)
MoreWarehousesButOne(l) == loc[l].w + 1 < MaxWare[l]

MoreWarehouses(l) == loc[l].w < MaxWare[l]

WareCommit(l) ==
    /\ At(l, "ware_commit")
    /\ \/ /\ MoreWarehouses(l)
          /\ Commit(l, "warehouse", [loc[l] EXCEPT !.w = @ + 1])
          /\ UNCHANGED todo
       \/ /\ ~MoreWarehouses(l)
          /\ Commit(l, "main", loc[l])
          /\ PartDone(l)

----------------------------------------------------------------------------
(* LoadCust() with Customer(), and the loop both it and LoadOrd() have over *)
(* the districts: one commit per district.                                  *)

NextDistrict(l) ==
    IF loc[l].d < DistPerWare THEN [loc[l] EXCEPT !.n = 1, !.d = @ + 1]
    ELSE [loc[l] EXCEPT !.n = 1, !.d = 1, !.w = @ + 1]

DistrictCommit(l, from, first) ==
    /\ At(l, from)
    /\ IF loc[l].d < DistPerWare \/ MoreWarehouses(l)
       THEN Commit(l, first, NextDistrict(l))
       ELSE Commit(l, "part_commit", loc[l])
    /\ UNCHANGED todo

InsertCustomer(l) ==
    /\ At(l, "customer")
    /\ Insert(l, Customer(loc[l].w, loc[l].d, loc[l].n), LoadedCustomer)
    /\ Goes(l, "history", loc[l])

(* The table history has no key: the row comes on top of those there are. *)
InsertHistory(l) ==
    LET v == loc[l]
        r == History(v.w, v.d, v.n)
        h == [h_w_id |-> v.w, h_d_id |-> v.d, h_amount |-> 10]
    IN  /\ At(l, "history")
        /\ Inserts(l, r, Append(IF r \in DOMAIN Seen(l) THEN Seen(l)[r] ELSE <<>>, h))
        /\ IF v.n < CustPerDist THEN Goes(l, "customer", [v EXCEPT !.n = @ + 1])
                                ELSE Goes(l, "cust_commit", v)

CustCommit(l) == DistrictCommit(l, "cust_commit", "customer")

(* "Just in case" *)
PartCommit(l) ==
    /\ At(l, "part_commit")
    /\ Commit(l, "main", loc[l])
    /\ PartDone(l)

----------------------------------------------------------------------------
(* LoadOrd() with Orders(). *)

Swapped(p, i, k) == [p EXCEPT ![i] = p[k], ![k] = p[i]]

(* Mutant of Shuffled: the swap is a copy. *)
ShuffledByCopy ==
    LET after[i \in 0 .. CustPerDist - 1] ==
            IF i = 0 THEN {[k \in 1 .. CustPerDist |-> k]}
            ELSE {[p EXCEPT ![i] = p[k]] : p \in after[i - 1], k \in i + 1 .. CustPerDist}
    IN  after[CustPerDist - 1]

(* What InitPermutation() may leave in nums: each element but the last is  *)
(* swapped with a later one.                                               *)
Shuffled ==
    LET after[i \in 0 .. CustPerDist - 1] ==
            IF i = 0 THEN {[k \in 1 .. CustPerDist |-> k]}
            ELSE {Swapped(p, i, k) : p \in after[i - 1], k \in i + 1 .. CustPerDist}
    IN  after[CustPerDist - 1]

InitPermutation(l) ==
    /\ pc[l] = "permute"
    /\ \E nums \in Shuffled :
         loc' = [loc EXCEPT ![l].nums = nums, ![l].perm_count = 0, ![l].n = 1]
    /\ pc' = [pc EXCEPT ![l] = "order"]
    /\ UNCHANGED <<db, pending, todo, up, faults>>

(* The last of the orders have not been delivered. *)
Delivered(o) == o <= DeliveredInit

(* GetPermutation() gives o_c_id.  With no customer left the code aborts,  *)
(* and a loader would stay here for ever: EveryLoadEnds excludes it.       *)
InsertOrder(l) ==
    LET v == loc[l] IN
    /\ At(l, "order") /\ v.perm_count < CustPerDist
    /\ \E o_ol_cnt \in OlCounts :
         /\ Insert(l, Orders(v.w, v.d, v.n),
                   [o_c_id |-> v.nums[v.perm_count + 1],
                    o_carrier_id |-> IF Delivered(v.n) THEN 1 ELSE 0,
                    o_ol_cnt |-> o_ol_cnt])
         /\ Goes(l, IF Delivered(v.n) THEN "line" ELSE "new_order",
                 [v EXCEPT !.perm_count = @ + 1, !.ol_cnt = o_ol_cnt, !.ol = 1])

InsertNewOrder(l) ==
    /\ At(l, "new_order")
    /\ Insert(l, NewOrders(loc[l].w, loc[l].d, loc[l].n), TRUE)
    /\ Goes(l, "line", loc[l])

(* Mutant of MoreLines: one line too many. *)
MoreLinesByOne(v) == v.ol <= v.ol_cnt

MoreLines(v) == v.ol < v.ol_cnt

(* A line; its amount is 0.0 if the order is not delivered. *)
InsertLine(l) ==
    LET v == loc[l]
        r == OrderLine(v.w, v.d, v.n)
        line == [ol_i_id |-> 1, ol_supply_w_id |-> v.w,
                 ol_quantity |-> IF Delivered(v.n) THEN 1 ELSE 0]
    IN  /\ At(l, "line")
        /\ IF v.ol = 1 THEN Insert(l, r, <<line>>)
                       ELSE Inserts(l, r, Append(Seen(l)[r], line))
        /\ IF MoreLines(v) THEN Goes(l, "line", [v EXCEPT !.ol = @ + 1])
           ELSE IF v.n < CustPerDist THEN Goes(l, "order", [v EXCEPT !.n = @ + 1])
           ELSE Goes(l, "ord_commit", v)

OrdCommit(l) == DistrictCommit(l, "ord_commit", "permute")

----------------------------------------------------------------------------
(* Failures. *)

InsertLabels == {"item", "warehouse", "stock", "district", "customer", "history",
                 "order", "new_order", "line"}
CommitLabels == {"item_commit", "ware_commit", "cust_commit", "ord_commit",
                 "part_commit"}

(* The row the insert at l's label makes, where its table has a key. *)
KeyOf(l) ==
    LET v == loc[l] IN
    CASE pc[l] = "item"      -> {Item(v.n)}
      [] pc[l] = "warehouse" -> {Warehouse(v.w)}
      [] pc[l] = "stock"     -> {Stock(v.w, v.n)}
      [] pc[l] = "district"  -> {District(v.w, v.d)}
      [] pc[l] = "customer"  -> {Customer(v.w, v.d, v.n)}
      [] pc[l] = "order"     -> {Orders(v.w, v.d, v.n)}
      [] pc[l] = "new_order" -> {NewOrders(v.w, v.d, v.n)}
      [] pc[l] = "line" /\ v.ol = 1 -> {OrderLine(v.w, v.d, v.n)}
      [] OTHER               -> {}

(* Where "goto retry" leads. *)
RetryLabel(l) == FirstLabel[Head(todo[l])]

(* Mutants of Retry: carry on at the same row; start at min_ware again.    *)
RetryHere(l) ==
    /\ pending' = [pending EXCEPT ![l] = NoRows]
    /\ UNCHANGED <<pc, loc>>
RetryAtMinWare(l) ==
    /\ pending' = [pending EXCEPT ![l] = NoRows]
    /\ pc' = [pc EXCEPT ![l] = RetryLabel(l)]
    /\ loc' = [loc EXCEPT ![l].n = 1, ![l].w = MinWare[l]]

(* try_stmt_execute() rolls back, and the caller starts its warehouse or   *)
(* district again.                                                         *)
Retry(l) ==
    /\ pending' = [pending EXCEPT ![l] = NoRows]
    /\ pc' = [pc EXCEPT ![l] = RetryLabel(l)]
    /\ loc' = [loc EXCEPT ![l].n = 1]

(* An insert fails: its key is taken, the server is gone, or anything else *)
(* (a lock wait, a full disk).                                             *)
InsertFails(l) ==
    /\ pc[l] \in InsertLabels
    /\ \/ ~up /\ UNCHANGED faults
       \/ up /\ KeyOf(l) \cap DOMAIN Seen(l) # {} /\ UNCHANGED faults
       \/ up /\ faults > 0 /\ faults' = faults - 1
    /\ Retry(l)
    /\ UNCHANGED <<db, todo, up>>

(* Error(): rollback and exit(-1). *)
Exit(l) ==
    /\ pc' = [pc EXCEPT ![l] = "error"]
    /\ UNCHANGED <<todo, loc, up>>

(* A commit fails: the server may or may not have carried it out. *)
CommitFails(l) ==
    /\ pc[l] \in CommitLabels \/ (pc[l] = "main" /\ todo[l] = <<>>)
    /\ IF up THEN faults > 0 /\ faults' = faults - 1 ELSE UNCHANGED faults
    /\ \/ up /\ Committed(l)
       \/ UNCHANGED db /\ pending' = [pending EXCEPT ![l] = NoRows]
    /\ Exit(l)

(* The server goes down, with every transaction in progress. *)
ServerGone ==
    /\ up
    /\ up' = FALSE
    /\ pending' = [l \in Loaders |-> NoRows]
    /\ UNCHANGED <<db, pc, todo, loc, faults>>

----------------------------------------------------------------------------
Loader(l) ==
    \/ StartPart(l) \/ MainCommit(l)
    \/ InsertItem(l) \/ ItemCommit(l)
    \/ InsertWarehouse(l) \/ InsertStock(l) \/ InsertDistrict(l) \/ WareCommit(l)
    \/ InsertCustomer(l) \/ InsertHistory(l) \/ CustCommit(l) \/ PartCommit(l)
    \/ InitPermutation(l)
    \/ InsertOrder(l) \/ InsertNewOrder(l) \/ InsertLine(l) \/ OrdCommit(l)

Ended(l) == pc[l] \in {"done", "error"}

Terminating == (\A l \in Loaders : Ended(l)) /\ UNCHANGED vars

Next ==
    \/ \E l \in Loaders : Loader(l) \/ InsertFails(l) \/ CommitFails(l)
    \/ ServerGone
    \/ Terminating

Spec == Init /\ [][Next]_vars

(* The operating system runs every loader, and its statements return, with *)
(* success or without.                                                     *)
FairSpec == Spec /\ \A l \in Loaders :
                WF_vars(Loader(l) \/ InsertFails(l) \/ CommitFails(l))

----------------------------------------------------------------------------
(* Properties. *)

Vars == [w : Warehouses, d : Districts, n : Nat, ol : Nat, ol_cnt : OlCounts \cup {0},
         nums : Seq(Customers) \cup {<<>>}, perm_count : 0 .. CustPerDist]

(* Only rows of the schema are inserted, the loop variables stay inside    *)
(* the tables, and a line is one of the o_ol_cnt of its order.             *)
TypeOK ==
    /\ DOMAIN db \subseteq Rows \cup {Item(i) : i \in Items}
    /\ \A l \in Loaders :
         /\ DOMAIN pending[l] \subseteq Rows \cup {Item(i) : i \in Items}
         /\ pc[l] \in InsertLabels \cup CommitLabels
                        \cup {"main", "permute", "done", "error"}
         /\ loc[l] \in Vars
         /\ pc[l] = "item" => loc[l].n \in Items
         /\ pc[l] \in {"customer", "history", "order", "new_order", "line"} =>
              loc[l].n \in Customers
         /\ pc[l] = "line" => loc[l].ol \in 1 .. loc[l].ol_cnt
         /\ pc[l] \in {"new_order", "line"} => loc[l].perm_count = loc[l].n
    /\ \A r \in DOMAIN db \cap Rows : RowType(r, db[r])
    /\ faults \in 0 .. MaxFaults

(* All of the rows of S have been inserted, or none. *)
AllOrNone(S) == S \subseteq DOMAIN db \/ S \cap DOMAIN db = {}

WarehouseRows(w) ==
    {Warehouse(w)} \cup {Stock(w, i) : i \in Items} \cup {District(w, d) : d \in Districts}

CustomerRows(w, d) ==
    {Customer(w, d, c) : c \in Customers} \cup {History(w, d, c) : c \in Customers}

OrderRows(w, d) ==
    {Orders(w, d, o) : o \in Customers} \cup {OrderLine(w, d, o) : o \in Customers}
    \cup {NewOrders(w, d, o) : o \in DeliveredInit + 1 .. CustPerDist}

(* What is committed is whole, whichever inserts or commits failed and     *)
(* whenever the server went away: all items or none, a warehouse with its  *)
(* stock and districts, a district with all its customers and one history  *)
(* row each, a district with all its orders.                               *)
CommittedWhole ==
    /\ AllOrNone({Item(i) : i \in Items})
    /\ \A w \in Warehouses : AllOrNone(WarehouseRows(w))
    /\ \A w \in Warehouses, d \in Districts :
         /\ AllOrNone(CustomerRows(w, d))
         /\ AllOrNone(OrderRows(w, d))
    /\ \A w \in Warehouses, d \in Districts, c \in Customers :
         History(w, d, c) \in DOMAIN db => Len(db[History(w, d, c)]) = 1

RowsOf(part, w) ==
    CASE part = "items" -> {Item(i) : i \in Items}
      [] part = "ware"  -> WarehouseRows(w)
      [] part = "cust"  -> UNION {CustomerRows(w, d) : d \in Districts}
      [] part = "ord"   -> UNION {OrderRows(w, d) : d \in Districts}

(* A loader that says COMPLETED SUCCESSFULLY has committed all it was asked *)
(* to load (load.c, main).                                                  *)
DoneIsLoaded ==
    \A l \in Loaders : pc[l] = "done" =>
        \A part \in Range(Parts[l]), w \in MinWare[l] .. MaxWare[l] :
            RowsOf(part, w) \subseteq DOMAIN db

(* The rows as the transactions find them: a row of orders, new_orders or  *)
(* order_line that was not inserted is an order nobody has placed.         *)
Database ==
    [r \in Rows |->
        IF r \in DOMAIN db THEN db[r]
        ELSE CASE r[1] = "orders" -> NoOrder
               [] r[1] = "new_orders" -> FALSE
               [] r[1] = "order_line" -> <<>>
               [] OTHER -> LoadedRow(r)]

(* When every part is there, the database is as the worker threads take it *)
(* (LoadedDb of TpccSchema): each customer has placed one order, orders are *)
(* numbered up to d_next_o_id, the last of them wait for delivery and have *)
(* amount 0, and every order has its lines.                                *)
LoadedIsConsistent ==
    (\A w \in Warehouses, part \in {"ware", "cust", "ord"} :
        RowsOf(part, w) \subseteq DOMAIN db) =>
        /\ OrderNumbersDense(Database)
        /\ NewOrdersAreUndelivered(Database)
        /\ OrdersHaveTheirLines(Database)
        /\ \A w \in Warehouses, d \in Districts :
             /\ {Database[Orders(w, d, o)].o_c_id : o \in Customers} = Customers
             /\ \A o \in Customers :
                  /\ Database[Orders(w, d, o)].o_carrier_id = LoadedOrder(o).o_carrier_id
                  /\ o > DeliveredInit => OrderAmount(Database[OrderLine(w, d, o)]) = 0

(* A loader whose server stays up ends: the rows of a failed attempt are   *)
(* gone before the next one, and warehouses committed before it are not    *)
(* loaded again, so a retry does not run into its own rows for ever, nor   *)
(* past the customers of its district ("past end of list!", support.c).    *)
EveryLoadEnds == <>((\A l \in Loaders : Ended(l)) \/ ~up)
=============================================================================
