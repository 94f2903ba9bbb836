--------------------------- MODULE TpccTxn_proofs ---------------------------
(***************************************************************************)
(* Proofs about TpccTxn, for any number of threads, warehouses, districts, *)
(* customers, items and jobs: its type invariant; then that the invariants *)
(* of TpccFootprint hold of the interleaved transactions, and what         *)
(* follows: the promises of the committed database, and that the           *)
(* transactions implement the serial ones of TpccSerial.                   *)
(***************************************************************************)
EXTENDS TpccFootprint, TpccEffects_proofs

----------------------------------------------------------------------------
(* The statements of RowStore keep the tables' types. *)

(* A consistent read returns rows of the right types. *)
LEMMA ViewType ==
    ASSUME StoreTypeOK, NEW t \in Threads
    PROVE  StoreType(View(t))
  BY DEF StoreTypeOK, StoreType, View

(* A plain SELECT keeps the tables' types. *)
LEMMA SelectType ==
    ASSUME StoreTypeOK, NEW t \in Threads, Select(t)
    PROVE  StoreTypeOK'
  BY DEF StoreTypeOK, StoreType, Select

(* SELECT ... FOR UPDATE keeps the tables' types. *)
LEMMA ForUpdateType ==
    ASSUME StoreTypeOK, NEW t \in Threads, NEW r, SelectForUpdate(t, r)
    PROVE  StoreTypeOK'
  BY DEF StoreTypeOK, StoreType, SelectForUpdate

(* A write of a row of the right type keeps the tables' types. *)
LEMMA WriteType ==
    ASSUME StoreTypeOK, NEW t \in Threads, NEW r, NEW v, Write(t, r, v),
           r \in Rows => RowType(r, v)
    PROVE  StoreTypeOK'
  BY DEF StoreTypeOK, StoreType, Write

(* COMMIT keeps the tables' types. *)
LEMMA CommitType ==
    ASSUME StoreTypeOK, NEW t \in Threads, Commit(t)
    PROVE  StoreTypeOK'
  BY DEF StoreTypeOK, StoreType, Commit, Unlock

(* ROLLBACK keeps the tables' types. *)
LEMMA RollbackType ==
    ASSUME StoreTypeOK, NEW t \in Threads, Rollback(t)
    PROVE  StoreTypeOK'
  BY DEF StoreTypeOK, StoreType, Rollback, Unlock

----------------------------------------------------------------------------
(* The control state. *)

Labels == {NewordLabels, PaymentLabels, DeliveryLabels, OrdstatLabels, SlevLabels}

(* A statement that leads to a label of the same function keeps the types  *)
(* of the control state.                                                   *)
LEMMA StepControl ==
    ASSUME ControlTypeOK, NEW t \in Threads, NEW from, NEW to, Step(t, from, to),
           NEW L \in Labels, from \in L, to \in L
    PROVE  ControlTypeOK'
  <1>1. pc' \in [Threads -> {"idle", "done"} \cup NewordLabels \cup PaymentLabels
                  \cup DeliveryLabels \cup OrdstatLabels \cup SlevLabels]
    BY DEF ControlTypeOK, Step, Labels
  <1>2. \A u \in Threads : JobOf(u)'
    <2> SUFFICES ASSUME NEW u \in Threads PROVE JobOf(u)'
      OBVIOUS
    <2>1. CASE u # t
      BY <2>1 DEF ControlTypeOK, Step, JobOf, control
    <2>2. CASE u = t
      <3>1. pc[t] \in L /\ pc'[t] \in L /\ job'[t] = job[t] /\ JobOf(t)
        BY DEF ControlTypeOK, Step, control
      <3> QED
        BY <2>2, <3>1 DEF Labels, JobOf, NewordLabels, PaymentLabels, DeliveryLabels,
             OrdstatLabels, SlevLabels
    <2> QED BY <2>1, <2>2
  <1> QED BY <1>1, <1>2 DEF ControlTypeOK, Step, control

(* So does a return to driver(). *)
LEMMA ReturnControl ==
    ASSUME ControlTypeOK, NEW t \in Threads, Return(t)
    PROVE  ControlTypeOK'
  <1>1. \A u \in Threads : JobOf(u)'
    <2> SUFFICES ASSUME NEW u \in Threads PROVE JobOf(u)'
      OBVIOUS
    <2>1. CASE u # t
      BY <2>1 DEF ControlTypeOK, Return, JobOf
    <2>2. CASE u = t
      BY <2>2 DEF ControlTypeOK, Return, JobOf, NewordLabels, PaymentLabels,
           DeliveryLabels, OrdstatLabels, SlevLabels
    <2> QED BY <2>1, <2>2
  <1> QED BY <1>1, TxnAssumption DEF ControlTypeOK, Return

(* The first statement of a job is one of its function. *)
LEMMA FirstStatementLabel ==
    ASSUME NEW j
    PROVE  /\ j \in NewOrderJobs => FirstStatement(j) = "neword1"
           /\ j \in PaymentJobs  => FirstStatement(j) = "payment1"
           /\ j \in DeliveryJobs => FirstStatement(j) = "delivery1"
           /\ j \in OrdStatJobs  => FirstStatement(j) \in {"ordstat1", "ordstat6"}
           /\ j \in SlevJobs     => FirstStatement(j) = "slev1"
  BY DEF NewOrderJobs, PaymentJobs, DeliveryJobs, OrdStatJobs, SlevJobs, FirstStatement

(* And a job entered at its first statement. *)
LEMMA EntryJob ==
    ASSUME NEW t \in Threads, job'[t] \in AllJobs, pc'[t] = FirstStatement(job'[t])
    PROVE  JobOf(t)' /\ pc'[t] \in NewordLabels \cup PaymentLabels
                  \cup DeliveryLabels \cup OrdstatLabels \cup SlevLabels
  BY FirstStatementLabel DEF AllJobs, JobOf, NewordLabels, PaymentLabels,
       DeliveryLabels, OrdstatLabels, SlevLabels

----------------------------------------------------------------------------
(* The locals. *)

(* A step of t leaves the locals of the other threads as they are typed. *)
LEMMA LocalsFrame ==
    ASSUME LocalsTypeOK, NEW t \in Threads, DOMAIN loc' = Threads,
           \A u \in Threads \ {t} : /\ loc'[u] = loc[u]
                                    /\ pc'[u] = pc[u] /\ job'[u] = job[u],
           LocalsType(t)'
    PROVE  LocalsTypeOK'
  BY DEF LocalsTypeOK, LocalsType, CurrentLine

(* A return to driver() clears the locals. *)
LEMMA ReturnLocals ==
    ASSUME LocalsTypeOK, NEW t \in Threads, Return(t), ControlTypeOK
    PROVE  LocalsTypeOK'
  <1>1. pc'[t] = "idle" /\ loc'[t] = NoLocals
    BY DEF Return, LocalsTypeOK, ControlTypeOK
  <1>2. LocalsType(t)'
    BY <1>1, SchemaAssumption DEF LocalsType, NoLocals, Districts, PaymentLabels,
         DeliveryLabels
  <1> QED BY <1>2, LocalsFrame DEF Return, LocalsTypeOK, ControlTypeOK

(* The error exit keeps the types: it rolls back, and enters the           *)
(* transaction again or gives up.                                          *)
LEMMA SqlErrTyped ==
    ASSUME TypeOK, NEW t \in Threads, SqlErr(t), pc[t] \notin {"idle", "done"},
           faults' \in 0 .. MaxFaults
    PROVE  TypeOK'
  <1> USE DEF TypeOK, SqlErr
  <1>1. StoreTypeOK'
    BY RollbackType
  <1>2. job[t] \in AllJobs
    BY DEF ControlTypeOK, JobOf, AllJobs
  <1>3. /\ JobOf(t)'
        /\ pc'[t] \in {"idle", "done"} \cup NewordLabels \cup PaymentLabels
                        \cup DeliveryLabels \cup OrdstatLabels \cup SlevLabels
    <2>1. CASE GiveUp(t)
      BY <2>1 DEF RetryOrGiveUp, ControlTypeOK, JobOf, NewordLabels, PaymentLabels,
           DeliveryLabels, OrdstatLabels, SlevLabels
    <2>2. CASE ~GiveUp(t)
      BY <2>2, <1>2, EntryJob DEF RetryOrGiveUp, ControlTypeOK
    <2> QED BY <2>1, <2>2
  <1>4. ControlTypeOK'
    <2>1. \A u \in Threads : JobOf(u)'
      BY <1>3 DEF RetryOrGiveUp, ControlTypeOK, JobOf
    <2>2. tries' \in [Threads -> 0 .. MaxRetry - 1]
      BY TxnAssumption DEF RetryOrGiveUp, ControlTypeOK, GiveUp
    <2> QED BY <1>3, <2>1, <2>2 DEF RetryOrGiveUp, ControlTypeOK
  <1>5. LocalsTypeOK'
    <2>1. loc'[t] = NoLocals /\ DOMAIN loc' = Threads
      BY DEF RetryOrGiveUp, LocalsTypeOK
    <2>2. pc'[t] \in {"idle", "neword1", "payment1", "delivery1", "ordstat1",
                      "ordstat6", "slev1"}
      BY <1>2, FirstStatementLabel DEF RetryOrGiveUp, ControlTypeOK, AllJobs
    <2>3. LocalsType(t)'
      BY <2>1, <2>2, SchemaAssumption DEF LocalsType, NoLocals, Districts,
           PaymentLabels, DeliveryLabels
    <2> QED BY <2>1, <2>3, LocalsFrame DEF RetryOrGiveUp, LocalsTypeOK, ControlTypeOK
  <1> QED BY <1>1, <1>4, <1>5

----------------------------------------------------------------------------
(* The new-order transaction keeps the types. *)
LEMMA NewordTyped ==
    ASSUME TypeOK, NEW t \in Threads, Neword(t)
    PROVE  TypeOK'
  <1> USE DEF TypeOK
  <1>j. pc[t] \in NewordLabels /\ job[t] \in NewOrderJobs
    BY DEF Neword, NewordSelectCustomer, NewordSelectDistrict, NewordUpdateDistrict,
         NewordInsertOrder, NewordInsertRejected, NewordInsertNewOrder, NewordSelectItem,
         NewordInvalidItem, NewordSelectStock, NewordUpdateStock, NewordInsertLine,
         NewordCommit, Step, NewordLabels, ControlTypeOK, JobOf
  <1>l. LocalsType(t) /\ DOMAIN loc = Threads
    BY DEF LocalsTypeOK
  <1>d. District(job[t].w, job[t].d) \in Rows
    BY <1>j, RowNames DEF NewOrderJobs
  <1>1. CASE NewordSelectCustomer(t)
    <2>1. StoreTypeOK'
      BY <1>1, SelectType DEF NewordSelectCustomer
    <2>2. ControlTypeOK'
      BY <1>1, StepControl DEF NewordSelectCustomer, Labels, NewordLabels
    <2>3. LocalsTypeOK'
      BY <1>1, <1>l, LocalsFrame DEF NewordSelectCustomer, Step, control, LocalsType,
           CurrentLine, PaymentLabels, DeliveryLabels
    <2> QED BY <2>1, <2>2, <2>3
  <1>2. CASE NewordSelectDistrict(t)
    <2>1. StoreTypeOK'
      BY <1>2, ForUpdateType DEF NewordSelectDistrict
    <2>2. ControlTypeOK'
      BY <1>2, StepControl DEF NewordSelectDistrict, Labels, NewordLabels
    <2>3. cur[District(job[t].w, job[t].d)].d_next_o_id \in Nat
      BY <1>j, StoredRows DEF StoreTypeOK, NewOrderJobs
    <2>4. LocalsTypeOK'
      BY <1>2, <1>l, <2>3, LocalsFrame DEF NewordSelectDistrict, Step, control,
           LocalsType, CurrentLine, NoLocals, PaymentLabels, DeliveryLabels
    <2> QED BY <2>1, <2>2, <2>4
  <1>3. CASE NewordUpdateDistrict(t)
    <2>1. StoreTypeOK'
      <3>1. [cur[District(job[t].w, job[t].d)] EXCEPT !.d_next_o_id = loc[t].o + 1]
              \in [d_next_o_id : Nat, d_ytd : Int]
        <4>1. cur[District(job[t].w, job[t].d)] \in [d_next_o_id : Nat, d_ytd : Int]
          BY <1>j, StoredRows DEF StoreTypeOK, NewOrderJobs
        <4>2. loc[t].o + 1 \in Nat
          BY <1>l DEF LocalsType
        <4> QED BY <4>1, <4>2
      <3> QED
        BY <1>3, <3>1, RowTypes, WriteType DEF NewordUpdateDistrict
    <2>2. ControlTypeOK'
      BY <1>3, StepControl DEF NewordUpdateDistrict, Labels, NewordLabels
    <2>3. LocalsTypeOK'
      BY <1>3, <1>l, LocalsFrame DEF NewordUpdateDistrict, Step, control, LocalsType,
           CurrentLine, PaymentLabels, DeliveryLabels
    <2> QED BY <2>1, <2>2, <2>3
  <1>4. CASE NewordInsertOrder(t)
    <2>1. StoreTypeOK'
      <3>1. [o_c_id |-> job[t].c, o_carrier_id |-> 0, o_ol_cnt |-> Len(job[t].lines)]
              \in [o_c_id : Nat, o_carrier_id : Nat, o_ol_cnt : Nat]
        BY <1>j DEF NewOrderJobs, Customers
      <3> QED
        BY <1>4, <3>1, RowTypes, WriteType DEF NewordInsertOrder
    <2>2. ControlTypeOK'
      BY <1>4, StepControl DEF NewordInsertOrder, Labels, NewordLabels
    <2>3. LocalsTypeOK'
      BY <1>4, <1>l, LocalsFrame DEF NewordInsertOrder, Step, control, LocalsType,
           CurrentLine, PaymentLabels, DeliveryLabels
    <2> QED BY <2>1, <2>2, <2>3
  <1>5. CASE NewordInsertRejected(t)
    BY <1>5, SqlErrTyped DEF NewordInsertRejected, ControlTypeOK
  <1>6. CASE NewordInsertNewOrder(t)
    <2>1. StoreTypeOK'
      BY <1>6, RowTypes, WriteType DEF NewordInsertNewOrder
    <2>2. ControlTypeOK'
      BY <1>6, StepControl DEF NewordInsertNewOrder, Labels, NewordLabels
    <2>3. DOMAIN job[t].lines \subseteq Nat
      BY <1>j DEF NewOrderJobs
    <2>4. LocalsTypeOK'
      BY <1>6, <1>l, <2>3, LocalsFrame DEF NewordInsertNewOrder, Step, control,
           LocalsType, CurrentLine, NoLocals, PaymentLabels, DeliveryLabels
    <2> QED BY <2>1, <2>2, <2>4
  <1>7. CASE NewordSelectItem(t)
    <2>1. StoreTypeOK'
      BY <1>7, SelectType DEF NewordSelectItem
    <2>2. ControlTypeOK'
      BY <1>7, StepControl DEF NewordSelectItem, Labels, NewordLabels
    <2>3. PICK i \in NextLines(t) :
            /\ job[t].lines[i].ol_i_id \in Items
            /\ loc' = [loc EXCEPT ![t].line = i, ![t].todo = @ \ {i}]
      BY <1>7 DEF NewordSelectItem
    <2>4. i \in loc[t].todo /\ pc[t] = "neword6"
      BY <1>7, <2>3 DEF NextLines, NewordSelectItem, Step
    <2>5. i \in Nat /\ i \in DOMAIN job[t].lines
      BY <1>l, <2>4 DEF LocalsType
    <2>6. LocalsTypeOK'
      BY <1>7, <1>l, <2>3, <2>4, <2>5, LocalsFrame DEF NewordSelectItem, Step, control,
           LocalsType, CurrentLine, NoLocals, PaymentLabels, DeliveryLabels
    <2> QED BY <2>1, <2>2, <2>6
  <1>8. CASE NewordInvalidItem(t)
    BY <1>8, RollbackType, ReturnControl, ReturnLocals DEF NewordInvalidItem
  <1>s. pc[t] \in {"neword7", "neword8", "neword9"} =>
          StockOfLine(t) \in Rows /\ CurrentLine(t) \in Line
    <2> SUFFICES ASSUME pc[t] \in {"neword7", "neword8", "neword9"}
                 PROVE  StockOfLine(t) \in Rows /\ CurrentLine(t) \in Line
      OBVIOUS
    <2>1. CurrentLine(t) \in Line /\ CurrentLine(t).ol_i_id \in Items
      BY <1>j, <1>l DEF LocalsType, CurrentLine, NewOrderJobs
    <2> QED BY <2>1, RowNames DEF StockOfLine, Line
  <1>9. CASE NewordSelectStock(t)
    <2>1. StoreTypeOK'
      BY <1>9, ForUpdateType DEF NewordSelectStock
    <2>2. ControlTypeOK'
      BY <1>9, StepControl DEF NewordSelectStock, Labels, NewordLabels
    <2>3. cur[StockOfLine(t)] \in Int
      <3>1. CurrentLine(t) \in Line /\ CurrentLine(t).ol_i_id \in Items
        BY <1>9, <1>s, <1>l DEF NewordSelectStock, Step, LocalsType
      <3> QED BY <3>1, StoredRows DEF StockOfLine, Line, StoreTypeOK
    <2>4. LocalsTypeOK'
      BY <1>9, <1>l, <2>3, LocalsFrame DEF NewordSelectStock, Step, control,
           LocalsType, CurrentLine, NoLocals, PaymentLabels, DeliveryLabels
    <2> QED BY <2>1, <2>2, <2>4
  <1>10. CASE NewordUpdateStock(t)
    <2>1. StoreTypeOK'
      <3>1. Restock(loc[t].qty, CurrentLine(t).ol_quantity) \in Int
        BY <1>10, <1>s, <1>l DEF NewordUpdateStock, Step, LocalsType, Restock, Line
      <3> QED
        BY <1>10, <3>1, RowTypes, WriteType DEF NewordUpdateStock, StockOfLine
    <2>2. ControlTypeOK'
      BY <1>10, StepControl DEF NewordUpdateStock, Labels, NewordLabels
    <2>3. LocalsTypeOK'
      BY <1>10, <1>l, LocalsFrame DEF NewordUpdateStock, Step, control, LocalsType,
           CurrentLine, PaymentLabels, DeliveryLabels
    <2> QED BY <2>1, <2>2, <2>3
  <1>11. CASE NewordInsertLine(t)
    <2>1. StoreTypeOK'
      <3> DEFINE r == OrderLine(job[t].w, job[t].d, loc[t].o)
                 LinesOfOrder == Seq([ol_i_id : Nat, ol_supply_w_id : Nat, ol_quantity : Nat])
      <3>1. CurrentLine(t) \in [ol_i_id : Nat, ol_supply_w_id : Nat, ol_quantity : Nat]
        BY <1>11, <1>s, SchemaAssumption DEF NewordInsertLine, Step, Line, Items, Warehouses
      <3>2. r \in Rows => Append(cur[r], CurrentLine(t)) \in LinesOfOrder
        <4> SUFFICES ASSUME r \in Rows PROVE Append(cur[r], CurrentLine(t)) \in LinesOfOrder
          OBVIOUS
        <4>1. RowType(r, cur[r])
          BY DEF StoreTypeOK, StoreType
        <4>2. cur[r] \in LinesOfOrder
          BY <4>1, RowTypes
        <4> QED BY <3>1, <4>2
      <3>3. r \in Rows => RowType(r, Append(cur[r], CurrentLine(t)))
        BY <3>2, RowTypes
      <3> QED
        BY <1>11, <3>3, WriteType DEF NewordInsertLine
    <2>2. ControlTypeOK'
      BY <1>11, StepControl DEF NewordInsertLine, Labels, NewordLabels
    <2>3. LocalsTypeOK'
      BY <1>11, <1>l, LocalsFrame DEF NewordInsertLine, Step, control, LocalsType,
           CurrentLine, PaymentLabels, DeliveryLabels
    <2> QED BY <2>1, <2>2, <2>3
  <1>12. CASE NewordCommit(t)
    BY <1>12, CommitType, ReturnControl, ReturnLocals DEF NewordCommit
  <1> QED
    BY <1>1, <1>2, <1>3, <1>4, <1>5, <1>6, <1>7, <1>8, <1>9, <1>10, <1>11, <1>12
       DEF Neword

----------------------------------------------------------------------------
(* The customer in the middle is a customer. *)
LEMMA MidpointIsCustomer ==
    ASSUME NEW name, NEW c \in Customers
    PROVE  MidpointCustomer(name, c) \subseteq Customers
  BY DEF MidpointCustomer

(* The payment transaction keeps the types. *)
LEMMA PaymentTyped ==
    ASSUME TypeOK, NEW t \in Threads, Payment(t)
    PROVE  TypeOK'
  <1> USE DEF TypeOK
  <1>j. pc[t] \in PaymentLabels /\ job[t] \in PaymentJobs
    BY DEF Payment, PaymentUpdateWarehouse, PaymentSelectWarehouse, PaymentUpdateDistrict,
         PaymentSelectDistrict, PaymentSelectCustomer, PaymentSelectData,
         PaymentUpdateBadCredit, PaymentUpdateCustomer, PaymentInsertHistory,
         PaymentCommit, Step, PaymentLabels, ControlTypeOK, JobOf
  <1>l. LocalsType(t) /\ DOMAIN loc = Threads
    BY DEF LocalsTypeOK
  <1>w. job[t].w \in Warehouses /\ job[t].d \in Districts /\ job[t].c \in Customers
        /\ job[t].c_w \in Warehouses /\ job[t].c_d \in Districts
        /\ job[t].h_amount \in Nat
    <2>1. job[t].h_amount \in Amounts
      BY <1>j DEF PaymentJobs
    <2>2. Amounts \subseteq Nat
      BY DEF Amounts
    <2>3. job[t].w \in Warehouses /\ job[t].d \in Districts /\ job[t].c \in Customers
          /\ job[t].c_w \in Warehouses /\ job[t].c_d \in Districts
      BY <1>j DEF PaymentJobs
    <2> QED BY <2>1, <2>2, <2>3
  <1>1. CASE PaymentUpdateWarehouse(t)
    <2>1. StoreTypeOK'
      <3>1. cur[Warehouse(job[t].w)] \in [w_ytd : Int]
        BY <1>w, StoredRows DEF StoreTypeOK
      <3>2. [cur[Warehouse(job[t].w)] EXCEPT !.w_ytd = @ + job[t].h_amount] \in [w_ytd : Int]
        BY <3>1, <1>w
      <3> QED BY <1>1, <3>2, RowTypes, WriteType DEF PaymentUpdateWarehouse
    <2>2. ControlTypeOK'
      BY <1>1, StepControl DEF PaymentUpdateWarehouse, Labels, PaymentLabels
    <2>3. LocalsTypeOK'
      BY <1>1, <1>l, LocalsFrame DEF PaymentUpdateWarehouse, Step, control, LocalsType,
           CurrentLine, PaymentLabels, DeliveryLabels
    <2> QED BY <2>1, <2>2, <2>3
  <1>2. CASE PaymentSelectWarehouse(t)
    <2>1. ControlTypeOK'
      BY <1>2, StepControl DEF PaymentSelectWarehouse, Labels, PaymentLabels
    <2>2. LocalsTypeOK'
      BY <1>2, <1>l, LocalsFrame DEF PaymentSelectWarehouse, Step, control, LocalsType,
           CurrentLine, PaymentLabels, DeliveryLabels
    <2> QED BY <1>2, <2>1, <2>2, SelectType DEF PaymentSelectWarehouse
  <1>3. CASE PaymentUpdateDistrict(t)
    <2>1. StoreTypeOK'
      <3>1. cur[District(job[t].w, job[t].d)] \in [d_next_o_id : Nat, d_ytd : Int]
        BY <1>w, StoredRows DEF StoreTypeOK
      <3>2. [cur[District(job[t].w, job[t].d)] EXCEPT !.d_ytd = @ + job[t].h_amount]
              \in [d_next_o_id : Nat, d_ytd : Int]
        BY <3>1, <1>w
      <3> QED BY <1>3, <3>2, RowTypes, WriteType DEF PaymentUpdateDistrict
    <2>2. ControlTypeOK'
      BY <1>3, StepControl DEF PaymentUpdateDistrict, Labels, PaymentLabels
    <2>3. LocalsTypeOK'
      BY <1>3, <1>l, LocalsFrame DEF PaymentUpdateDistrict, Step, control, LocalsType,
           CurrentLine, PaymentLabels, DeliveryLabels
    <2> QED BY <2>1, <2>2, <2>3
  <1>4. CASE PaymentSelectDistrict(t)
    <2>1. ControlTypeOK'
      BY <1>4, StepControl DEF PaymentSelectDistrict, Labels, PaymentLabels
    <2>2. PICK c : /\ c \in IF job[t].byname THEN MidpointCustomer(job[t].c_last, job[t].c)
                                             ELSE {job[t].c}
                   /\ loc' = [loc EXCEPT ![t].c = c]
      BY <1>4 DEF PaymentSelectDistrict
    <2>3. c \in Customers /\ c \in Nat
      BY <2>2, <1>w, MidpointIsCustomer DEF Customers
    <2>4. LocalsTypeOK'
      BY <1>4, <1>l, <2>2, <2>3, LocalsFrame DEF PaymentSelectDistrict, Step, control,
           LocalsType, CurrentLine, NoLocals, PaymentLabels, DeliveryLabels
    <2> QED BY <1>4, <2>1, <2>4, SelectType DEF PaymentSelectDistrict
  <1>5. CASE PaymentSelectCustomer(t)
    <2>1. ControlTypeOK'
      BY <1>5, StepControl DEF PaymentSelectCustomer, Labels, PaymentLabels
    <2>2. LocalsTypeOK'
      BY <1>5, <1>l, LocalsFrame DEF PaymentSelectCustomer, Step, control,
           LocalsType, CurrentLine, NoLocals, PaymentLabels, DeliveryLabels
    <2> QED BY <1>5, <2>1, <2>2, ForUpdateType DEF PaymentSelectCustomer
  <1>6. CASE PaymentSelectData(t)
    <2>1. ControlTypeOK'
      BY <1>6, StepControl DEF PaymentSelectData, Labels, PaymentLabels
    <2>2. loc[t].c \in Customers
      BY <1>6, <1>l DEF PaymentSelectData, Step, LocalsType, PaymentLabels
    <2>3. View(t)[PayingCustomer(t)].c_data \in Nat
      BY <1>w, <2>2, ViewType, StoredRows DEF PayingCustomer
    <2>4. LocalsTypeOK'
      BY <1>6, <1>l, <2>3, LocalsFrame DEF PaymentSelectData, Step, control,
           LocalsType, CurrentLine, NoLocals, PaymentLabels, DeliveryLabels
    <2> QED BY <1>6, <2>1, <2>4, SelectType DEF PaymentSelectData
  <1>c. PayingCustomer(t) \in Rows =>
          /\ DOMAIN cur[PayingCustomer(t)] = {"c_balance", "c_delivery_cnt", "c_data"}
          /\ cur[PayingCustomer(t)].c_delivery_cnt \in Nat
          /\ cur[PayingCustomer(t)].c_data \in Nat
    BY RowTypes DEF StoreTypeOK, StoreType, PayingCustomer
  <1>7. CASE PaymentUpdateBadCredit(t)
    <2>1. StoreTypeOK'
      <3> DEFINE v == [cur[PayingCustomer(t)] EXCEPT !.c_balance = loc[t].amt,
                                                     !.c_data = loc[t].data]
      <3>1. loc[t].data \in Nat
        BY <1>l DEF LocalsType
      <3>2. PayingCustomer(t) \in Rows => RowType(PayingCustomer(t), v)
        <4> SUFFICES ASSUME PayingCustomer(t) \in Rows
                     PROVE  RowType(PayingCustomer(t), v)
          OBVIOUS
        <4>1. /\ DOMAIN v = {"c_balance", "c_delivery_cnt", "c_data"}
              /\ v.c_delivery_cnt \in Nat /\ v.c_data \in Nat
          BY <1>c, <3>1
        <4> QED BY <4>1, RowTypes DEF PayingCustomer
      <3> QED BY <1>7, <3>2, WriteType DEF PaymentUpdateBadCredit
    <2>2. ControlTypeOK'
      BY <1>7, StepControl DEF PaymentUpdateBadCredit, Labels, PaymentLabels
    <2>3. LocalsTypeOK'
      BY <1>7, <1>l, LocalsFrame DEF PaymentUpdateBadCredit, Step, control, LocalsType,
           CurrentLine, PaymentLabels, DeliveryLabels
    <2> QED BY <2>1, <2>2, <2>3
  <1>8. CASE PaymentUpdateCustomer(t)
    <2>1. StoreTypeOK'
      <3> DEFINE v == [cur[PayingCustomer(t)] EXCEPT !.c_balance = loc[t].amt]
      <3>1. PayingCustomer(t) \in Rows => RowType(PayingCustomer(t), v)
        <4> SUFFICES ASSUME PayingCustomer(t) \in Rows
                     PROVE  RowType(PayingCustomer(t), v)
          OBVIOUS
        <4>1. /\ DOMAIN v = {"c_balance", "c_delivery_cnt", "c_data"}
              /\ v.c_delivery_cnt \in Nat /\ v.c_data \in Nat
          BY <1>c
        <4> QED BY <4>1, RowTypes DEF PayingCustomer
      <3> QED BY <1>8, <3>1, WriteType DEF PaymentUpdateCustomer
    <2>2. ControlTypeOK'
      BY <1>8, StepControl DEF PaymentUpdateCustomer, Labels, PaymentLabels
    <2>3. LocalsTypeOK'
      BY <1>8, <1>l, LocalsFrame DEF PaymentUpdateCustomer, Step, control, LocalsType,
           CurrentLine, PaymentLabels, DeliveryLabels
    <2> QED BY <2>1, <2>2, <2>3
  <1>9. CASE PaymentInsertHistory(t)
    <2>1. StoreTypeOK'
      <3> DEFINE r == History(job[t].c_w, job[t].c_d, loc[t].c)
                 Entry == [h_w_id : Warehouses, h_d_id : Districts, h_amount : Int]
                 h == [h_w_id |-> job[t].w, h_d_id |-> job[t].d,
                       h_amount |-> job[t].h_amount]
      <3>1. h \in Entry
        BY <1>w
      <3>2. r \in Rows => cur[r] \in Seq(Entry)
        BY RowTypes DEF StoreTypeOK, StoreType
      <3>3. r \in Rows => Append(cur[r], h) \in Seq(Entry)
        BY <3>1, <3>2
      <3>4. r \in Rows => RowType(r, Append(cur[r], h))
        BY <3>3, RowTypes
      <3> QED BY <1>9, <3>4, WriteType DEF PaymentInsertHistory
    <2>2. ControlTypeOK'
      BY <1>9, StepControl DEF PaymentInsertHistory, Labels, PaymentLabels
    <2>3. LocalsTypeOK'
      BY <1>9, <1>l, LocalsFrame DEF PaymentInsertHistory, Step, control, LocalsType,
           CurrentLine, PaymentLabels, DeliveryLabels
    <2> QED BY <2>1, <2>2, <2>3
  <1>10. CASE PaymentCommit(t)
    BY <1>10, CommitType, ReturnControl, ReturnLocals DEF PaymentCommit
  <1> QED
    BY <1>1, <1>2, <1>3, <1>4, <1>5, <1>6, <1>7, <1>8, <1>9, <1>10 DEF Payment

----------------------------------------------------------------------------
(* The next district keeps the types, given those of the store. *)
LEMMA NextDistrictTyped ==
    ASSUME TypeOK, NEW t \in Threads, pc[t] \in DeliveryLabels, NextDistrict(t)
    PROVE  ControlTypeOK' /\ LocalsTypeOK'
  <1> USE DEF TypeOK
  <1>1. CASE loc[t].d < DistPerWare
    <2>1. /\ pc' = [pc EXCEPT ![t] = "delivery1"]
          /\ loc' = [loc EXCEPT ![t].d = @ + 1]
          /\ UNCHANGED control
      BY <1>1 DEF NextDistrict
    <2>2. Step(t, pc[t], "delivery1")
      BY <2>1 DEF Step
    <2>3. ControlTypeOK'
      BY <2>2, StepControl DEF Labels, DeliveryLabels
    <2>4. loc[t].d + 1 \in Districts
      BY <1>1, SchemaAssumption DEF LocalsTypeOK, LocalsType, Districts
    <2>5. LocalsTypeOK'
      BY <2>1, <2>4, LocalsFrame DEF LocalsTypeOK, LocalsType, ControlTypeOK, control,
           CurrentLine, NoLocals, PaymentLabels, DeliveryLabels
    <2> QED BY <2>3, <2>5
  <1>2. CASE ~(loc[t].d < DistPerWare)
    BY <1>2, ReturnControl, ReturnLocals DEF NextDistrict
  <1> QED BY <1>1, <1>2

(* The delivery transaction keeps the types. *)
LEMMA DeliveryTyped ==
    ASSUME TypeOK, NEW t \in Threads, Delivery(t)
    PROVE  TypeOK'
  <1> USE DEF TypeOK
  <1>j. pc[t] \in DeliveryLabels /\ job[t] \in DeliveryJobs
    BY DEF Delivery, DeliverySelectOldest, DeliverySkipDistrict, DeliveryDeleteNewOrder,
         DeliverySelectCustomer, DeliveryUpdateOrder, DeliveryUpdateLines,
         DeliverySumLines, DeliveryUpdateCustomer, DeliveryCommit, Step,
         DeliveryLabels, ControlTypeOK, JobOf
  <1>l. LocalsType(t) /\ DOMAIN loc = Threads
    BY DEF LocalsTypeOK
  <1>w. job[t].w \in Warehouses /\ loc[t].d \in Districts
    BY <1>j, <1>l DEF DeliveryJobs, LocalsType
  <1>o. pc[t] # "delivery1" => loc[t].o \in OrderIds
    BY <1>j, <1>l DEF LocalsType
  <1>1. CASE DeliverySelectOldest(t)
    <2>1. ControlTypeOK'
      BY <1>1, StepControl DEF DeliverySelectOldest, Labels, DeliveryLabels
    <2>2. PICK o \in OrderIds : loc' = [loc EXCEPT ![t].o = o]
      BY <1>1 DEF DeliverySelectOldest, Undelivered
    <2>3. o \in Nat
      BY DEF OrderIds
    <2>4. LocalsTypeOK'
      BY <1>1, <1>l, <2>2, <2>3, LocalsFrame DEF DeliverySelectOldest, Step, control,
           LocalsType, CurrentLine, NoLocals, PaymentLabels, DeliveryLabels
    <2> QED BY <1>1, <2>1, <2>4, SelectType DEF DeliverySelectOldest
  <1>2. CASE DeliverySkipDistrict(t)
    BY <1>2, <1>j, SelectType, NextDistrictTyped DEF DeliverySkipDistrict
  <1>3. CASE DeliveryDeleteNewOrder(t)
    <2>1. StoreTypeOK'
      <3> DEFINE r == NewOrders(job[t].w, loc[t].d, loc[t].o)
      <3>1. CASE cur[r]
        BY <1>3, <3>1, RowTypes, WriteType DEF DeliveryDeleteNewOrder
      <3>2. CASE ~cur[r]
        BY <1>3, <3>2 DEF DeliveryDeleteNewOrder, NoRowMatches, StoreTypeOK
      <3> QED BY <3>1, <3>2
    <2>2. ControlTypeOK'
      BY <1>3, StepControl DEF DeliveryDeleteNewOrder, Labels, DeliveryLabels
    <2>3. LocalsTypeOK'
      BY <1>3, <1>l, LocalsFrame DEF DeliveryDeleteNewOrder, Step, control, LocalsType,
           CurrentLine, PaymentLabels, DeliveryLabels
    <2> QED BY <2>1, <2>2, <2>3
  <1>4. CASE DeliverySelectCustomer(t)
    <2>1. ControlTypeOK'
      BY <1>4, StepControl DEF DeliverySelectCustomer, Labels, DeliveryLabels
    <2>2. loc[t].o \in OrderIds
      BY <1>4, <1>o DEF DeliverySelectCustomer, Step
    <2>3. View(t)[DeliveredOrder(t)] \in [o_c_id : Nat, o_carrier_id : Nat, o_ol_cnt : Nat]
      BY <1>w, <2>2, ViewType, StoredRows DEF DeliveredOrder
    <2>4. View(t)[DeliveredOrder(t)].o_c_id \in Nat
      BY <2>3
    <2>5. LocalsTypeOK'
      BY <1>4, <1>l, <2>4, LocalsFrame DEF DeliverySelectCustomer, Step, control,
           LocalsType, CurrentLine, NoLocals, PaymentLabels, DeliveryLabels
    <2> QED BY <1>4, <2>1, <2>5, SelectType DEF DeliverySelectCustomer
  <1>5. CASE DeliveryUpdateOrder(t)
    <2>1. StoreTypeOK'
      <3> DEFINE Order == [o_c_id : Nat, o_carrier_id : Nat, o_ol_cnt : Nat]
      <3>1. loc[t].o \in OrderIds
        BY <1>5, <1>o DEF DeliveryUpdateOrder, Step
      <3>2. cur[DeliveredOrder(t)] \in Order
        BY <1>w, <3>1, StoredRows DEF DeliveredOrder, StoreTypeOK
      <3>3. [cur[DeliveredOrder(t)] EXCEPT !.o_carrier_id = 1] \in Order
        BY <3>2
      <3>4. RowType(DeliveredOrder(t), [cur[DeliveredOrder(t)] EXCEPT !.o_carrier_id = 1])
        BY <3>3, RowTypes DEF DeliveredOrder
      <3> QED BY <1>5, <3>4, WriteType DEF DeliveryUpdateOrder
    <2>2. ControlTypeOK'
      BY <1>5, StepControl DEF DeliveryUpdateOrder, Labels, DeliveryLabels
    <2>3. LocalsTypeOK'
      BY <1>5, <1>l, LocalsFrame DEF DeliveryUpdateOrder, Step, control, LocalsType,
           CurrentLine, PaymentLabels, DeliveryLabels
    <2> QED BY <2>1, <2>2, <2>3
  <1>6. CASE DeliveryUpdateLines(t)
    <2>1. StoreTypeOK'
      BY <1>6, WriteType DEF DeliveryUpdateLines, StoreTypeOK, StoreType
    <2>2. ControlTypeOK'
      BY <1>6, StepControl DEF DeliveryUpdateLines, Labels, DeliveryLabels
    <2>3. LocalsTypeOK'
      BY <1>6, <1>l, LocalsFrame DEF DeliveryUpdateLines, Step, control, LocalsType,
           CurrentLine, PaymentLabels, DeliveryLabels
    <2> QED BY <2>1, <2>2, <2>3
  <1>7. CASE DeliverySumLines(t)
    <2>1. ControlTypeOK'
      BY <1>7, StepControl DEF DeliverySumLines, Labels, DeliveryLabels
    <2>2. LocalsTypeOK'
      BY <1>7, <1>l, LocalsFrame DEF DeliverySumLines, Step, control,
           LocalsType, CurrentLine, NoLocals, PaymentLabels, DeliveryLabels
    <2> QED BY <1>7, <2>1, <2>2, SelectType DEF DeliverySumLines
  <1>8. CASE DeliveryUpdateCustomer(t)
    <2>1. StoreTypeOK'
      <3> DEFINE r == Customer(job[t].w, loc[t].d, loc[t].c)
                 v == [cur[r] EXCEPT !.c_balance = @ + loc[t].amt,
                                     !.c_delivery_cnt = @ + 1]
      <3>1. r \in Rows => RowType(r, v)
        <4> SUFFICES ASSUME r \in Rows PROVE RowType(r, v)
          OBVIOUS
        <4>1. /\ DOMAIN cur[r] = {"c_balance", "c_delivery_cnt", "c_data"}
              /\ cur[r].c_delivery_cnt \in Nat /\ cur[r].c_data \in Nat
          BY RowTypes DEF StoreTypeOK, StoreType
        <4>2. /\ DOMAIN v = {"c_balance", "c_delivery_cnt", "c_data"}
              /\ v.c_delivery_cnt \in Nat /\ v.c_data \in Nat
          BY <4>1
        <4> QED BY <4>2, RowTypes
      <3> QED BY <1>8, <3>1, WriteType DEF DeliveryUpdateCustomer
    <2>2. ControlTypeOK'
      BY <1>8, StepControl DEF DeliveryUpdateCustomer, Labels, DeliveryLabels
    <2>3. LocalsTypeOK'
      BY <1>8, <1>l, LocalsFrame DEF DeliveryUpdateCustomer, Step, control, LocalsType,
           CurrentLine, PaymentLabels, DeliveryLabels
    <2> QED BY <2>1, <2>2, <2>3
  <1>9. CASE DeliveryCommit(t)
    BY <1>9, <1>j, CommitType, NextDistrictTyped DEF DeliveryCommit
  <1> QED
    BY <1>1, <1>2, <1>3, <1>4, <1>5, <1>6, <1>7, <1>8, <1>9 DEF Delivery

----------------------------------------------------------------------------
(* The order-status transaction keeps the types. *)
LEMMA OrdstatTyped ==
    ASSUME TypeOK, NEW t \in Threads, Ordstat(t)
    PROVE  TypeOK'
  <1> USE DEF TypeOK
  <1>j. pc[t] \in OrdstatLabels /\ job[t] \in OrdStatJobs
    BY DEF Ordstat, OrdstatSelectByName, OrdstatSelectCustomer, OrdstatSelectOrder,
         OrdstatSelectLines, OrdstatCommit, Step, OrdstatLabels, ControlTypeOK, JobOf
  <1>l. LocalsType(t) /\ DOMAIN loc = Threads
    BY DEF LocalsTypeOK
  <1>w. job[t].w \in Warehouses /\ job[t].d \in Districts /\ job[t].c \in Customers
    BY <1>j DEF OrdStatJobs
  <1>v. StoreType(View(t))
    BY ViewType
  <1>1. CASE OrdstatSelectByName(t)
    <2>1. StoreTypeOK'
      BY <1>1, SelectType DEF OrdstatSelectByName
    <2>2. ControlTypeOK'
      BY <1>1, StepControl DEF OrdstatSelectByName, Labels, OrdstatLabels
    <2>3. PICK c \in Customers : loc' = [loc EXCEPT ![t].c = c]
      BY <1>1, <1>w, MidpointIsCustomer DEF OrdstatSelectByName
    <2>4. c \in Nat
      BY DEF Customers
    <2>5. LocalsTypeOK'
      BY <1>1, <1>l, <2>3, <2>4, LocalsFrame DEF OrdstatSelectByName, Step, control,
           LocalsType, CurrentLine, NoLocals, PaymentLabels, DeliveryLabels
    <2> QED BY <2>1, <2>2, <2>5
  <1>2. CASE OrdstatSelectCustomer(t)
    <2>1. StoreTypeOK'
      BY <1>2, SelectType DEF OrdstatSelectCustomer
    <2>2. ControlTypeOK'
      BY <1>2, StepControl DEF OrdstatSelectCustomer, Labels, OrdstatLabels
    <2>3. job[t].c \in Nat
      BY <1>w DEF Customers
    <2>4. LocalsTypeOK'
      BY <1>2, <1>l, <2>3, LocalsFrame DEF OrdstatSelectCustomer, Step, control,
           LocalsType, CurrentLine, NoLocals, PaymentLabels, DeliveryLabels
    <2> QED BY <2>1, <2>2, <2>4
  <1>3. CASE OrdstatSelectOrder(t)
    <2>1. StoreTypeOK'
      BY <1>3, SelectType DEF OrdstatSelectOrder
    <2>2. ControlTypeOK'
      BY <1>3, StepControl DEF OrdstatSelectOrder, Labels, OrdstatLabels
    <2>3. PICK o \in OrderIds : loc' = [loc EXCEPT ![t].o = o]
      BY <1>3 DEF OrdstatSelectOrder, OrdersOf
    <2>4. o \in Nat
      BY DEF OrderIds
    <2>5. LocalsTypeOK'
      BY <1>3, <1>l, <2>3, <2>4, LocalsFrame DEF OrdstatSelectOrder, Step, control,
           LocalsType, CurrentLine, NoLocals, PaymentLabels, DeliveryLabels
    <2> QED BY <2>1, <2>2, <2>5
  <1>4. CASE OrdstatSelectLines(t)
    <2>1. StoreTypeOK'
      BY <1>4, SelectType DEF OrdstatSelectLines
    <2>2. ControlTypeOK'
      BY <1>4, StepControl DEF OrdstatSelectLines, Labels, OrdstatLabels
    <2> DEFINE n == Len(View(t)[OrderLine(job[t].w, job[t].d, loc[t].o)])
    <2>3. n \in Nat
      <3>1. loc[t].o \in OrderIds
        BY <1>4, <1>l DEF OrdstatSelectLines, Step, LocalsType
      <3> QED BY <1>v, <1>w, <3>1, StoredRows
    <2>4. loc' = [loc EXCEPT ![t].rows = n]
      BY <1>4 DEF OrdstatSelectLines
    <2> HIDE DEF n
    <2>5. LocalsTypeOK'
      BY <1>4, <1>l, <2>3, <2>4, LocalsFrame DEF OrdstatSelectLines, Step, control,
           LocalsType, CurrentLine, NoLocals, PaymentLabels, DeliveryLabels
    <2> QED BY <2>1, <2>2, <2>5
  <1>5. CASE OrdstatCommit(t)
    BY <1>5, CommitType, ReturnControl, ReturnLocals DEF OrdstatCommit
  <1> QED BY <1>1, <1>2, <1>3, <1>4, <1>5 DEF Ordstat

(* The stock-level transaction keeps the types. *)
LEMMA SlevTyped ==
    ASSUME TypeOK, NEW t \in Threads, Slev(t)
    PROVE  TypeOK'
  <1> USE DEF TypeOK
  <1>j. pc[t] \in SlevLabels /\ job[t] \in SlevJobs
    BY DEF Slev, SlevSelectDistrict, SlevSelectLines, SlevCountStock, SlevCommit, Step,
         SlevLabels, ControlTypeOK, JobOf
  <1>l. LocalsType(t) /\ DOMAIN loc = Threads
    BY DEF LocalsTypeOK
  <1>1. CASE SlevSelectDistrict(t)
    <2>1. StoreTypeOK'
      BY <1>1, SelectType DEF SlevSelectDistrict
    <2>2. ControlTypeOK'
      BY <1>1, StepControl DEF SlevSelectDistrict, Labels, SlevLabels
    <2> DEFINE n == View(t)[District(job[t].w, job[t].d)].d_next_o_id
    <2>3. n \in Nat
      BY <1>j, ViewType, StoredRows DEF SlevJobs
    <2>4. loc' = [loc EXCEPT ![t].o = n]
      BY <1>1 DEF SlevSelectDistrict
    <2> HIDE DEF n
    <2>5. LocalsTypeOK'
      BY <1>1, <1>l, <2>3, <2>4, LocalsFrame DEF SlevSelectDistrict, Step, control,
           LocalsType, CurrentLine, NoLocals, PaymentLabels, DeliveryLabels
    <2> QED BY <2>1, <2>2, <2>5
  <1>2. CASE SlevSelectLines(t)
    <2>1. StoreTypeOK'
      BY <1>2, SelectType DEF SlevSelectLines
    <2>2. ControlTypeOK'
      BY <1>2, StepControl DEF SlevSelectLines, Labels, SlevLabels
    <2>3. PICK S \in SUBSET OrderIds : loc' = [loc EXCEPT ![t].seen = S]
      BY <1>2 DEF SlevSelectLines
    <2>4. LocalsTypeOK'
      BY <1>2, <1>l, <2>3, LocalsFrame DEF SlevSelectLines, Step, control,
           LocalsType, CurrentLine, NoLocals, PaymentLabels, DeliveryLabels
    <2> QED BY <2>1, <2>2, <2>4
  <1>3. CASE SlevCountStock(t)
    <2>1. StoreTypeOK'
      BY <1>3, SelectType DEF SlevCountStock
    <2>2. ControlTypeOK'
      BY <1>3, StepControl DEF SlevCountStock, Labels, SlevLabels
    <2>3. LocalsTypeOK'
      BY <1>3, <1>l, LocalsFrame DEF SlevCountStock, Step, control, LocalsType,
           CurrentLine, PaymentLabels, DeliveryLabels
    <2> QED BY <2>1, <2>2, <2>3
  <1>4. CASE SlevCommit(t)
    BY <1>4, CommitType, ReturnControl, ReturnLocals DEF SlevCommit
  <1> QED BY <1>1, <1>2, <1>3, <1>4 DEF Slev

----------------------------------------------------------------------------
(* The worker's loop keeps the types. *)
LEMMA BeginTyped ==
    ASSUME TypeOK, NEW t \in Threads, Begin(t)
    PROVE  TypeOK'
  <1> USE DEF TypeOK
  <1>1. StoreTypeOK'
    BY DEF Begin, StoreTypeOK, StoreType, store
  <1>2. PICK j \in Jobs[t] : /\ job' = [job EXCEPT ![t] = j]
                             /\ pc' = [pc EXCEPT ![t] = FirstStatement(j)]
    BY DEF Begin
  <1>3. j \in AllJobs /\ j \in AnyJob
    BY TxnAssumption DEF AnyJob
  <1>4. job'[t] = j /\ pc'[t] = FirstStatement(j) /\ loc'[t] = NoLocals
    BY <1>2 DEF Begin, ControlTypeOK, LocalsTypeOK
  <1>5. JobOf(t)' /\ pc'[t] \in NewordLabels \cup PaymentLabels
                  \cup DeliveryLabels \cup OrdstatLabels \cup SlevLabels
    BY <1>3, <1>4, EntryJob
  <1>6. ControlTypeOK'
    <2>1. \A u \in Threads : JobOf(u)'
      BY <1>2, <1>5 DEF ControlTypeOK, JobOf
    <2>2. /\ tries' \in [Threads -> 0 .. MaxRetry - 1]
          /\ left' \in [Threads -> 0 .. JobsPerThread]
          /\ faults' \in 0 .. MaxFaults
      BY TxnAssumption DEF Begin, ControlTypeOK
    <2>3. job' \in [Threads -> AnyJob \cup {Null}]
      BY <1>2, <1>3 DEF ControlTypeOK
    <2>4. pc' \in [Threads -> {"idle", "done"} \cup NewordLabels \cup PaymentLabels
                  \cup DeliveryLabels \cup OrdstatLabels \cup SlevLabels]
      BY <1>2, <1>4, <1>5 DEF ControlTypeOK
    <2> QED BY <2>1, <2>2, <2>3, <2>4 DEF ControlTypeOK
  <1>7. LocalsTypeOK'
    <2>1. pc'[t] \in {"neword1", "payment1", "delivery1", "ordstat1", "ordstat6", "slev1"}
      BY <1>3, <1>4, FirstStatementLabel DEF AllJobs
    <2>2. LocalsType(t)'
      BY <1>4, <2>1, SchemaAssumption DEF LocalsType, NoLocals, Districts,
           PaymentLabels, DeliveryLabels
    <2> QED BY <1>2, <2>2, LocalsFrame DEF Begin, LocalsTypeOK, ControlTypeOK
  <1> QED BY <1>1, <1>6, <1>7

(* A thread that ends keeps the state typed (thread_main, main.c). *)
LEMMA ThreadEndTyped ==
    ASSUME TypeOK, NEW t \in Threads, ThreadEnd(t)
    PROVE  TypeOK'
  <1> USE DEF TypeOK
  <1>1. StoreTypeOK'
    BY CommitType DEF ThreadEnd
  <1>2. pc'[t] = "done" /\ pc[t] = "idle" /\ job' = job /\ loc' = loc
    BY DEF ThreadEnd, control, ControlTypeOK
  <1>3. ControlTypeOK'
    <2>1. \A u \in Threads : JobOf(u)'
      BY <1>2 DEF ThreadEnd, ControlTypeOK, JobOf, NewordLabels, PaymentLabels,
           DeliveryLabels, OrdstatLabels, SlevLabels
    <2> QED BY <2>1 DEF ThreadEnd, ControlTypeOK, control
  <1>4. LocalsType(t)'
    BY <1>2 DEF LocalsTypeOK, LocalsType, CurrentLine, PaymentLabels, DeliveryLabels
  <1>5. LocalsTypeOK'
    BY <1>2, <1>4, LocalsFrame DEF ThreadEnd, LocalsTypeOK
  <1> QED BY <1>1, <1>3, <1>5

----------------------------------------------------------------------------
(* The initial state is well typed. *)
LEMMA InitTyped == Init => TypeOK
  <1> SUFFICES ASSUME Init PROVE TypeOK
    OBVIOUS
  <1>1. StoreTypeOK
    BY LoadedTyped DEF Init, StoreInit, StoreTypeOK
  <1>2. ControlTypeOK
    BY TxnAssumption DEF Init, ControlTypeOK, JobOf, NewordLabels, PaymentLabels,
         DeliveryLabels, OrdstatLabels, SlevLabels
  <1>3. LocalsTypeOK
    BY SchemaAssumption DEF Init, LocalsTypeOK, LocalsType, NoLocals, Districts,
         PaymentLabels, DeliveryLabels
  <1> QED BY <1>1, <1>2, <1>3 DEF TypeOK

(* Every step keeps the types. *)
LEMMA NextTyped == TypeOK /\ [Next]_vars => TypeOK'
  <1> SUFFICES ASSUME TypeOK, [Next]_vars PROVE TypeOK'
    OBVIOUS
  <1>1. ASSUME NEW t \in Threads, Thread(t) PROVE TypeOK'
    BY <1>1, BeginTyped, ThreadEndTyped, NewordTyped, PaymentTyped, DeliveryTyped,
       OrdstatTyped, SlevTyped DEF Thread
  <1>2. ASSUME NEW t \in Threads, StatementFails(t) PROVE TypeOK'
    <2>1. faults' \in 0 .. MaxFaults
      BY <1>2, TxnAssumption DEF StatementFails, TypeOK, ControlTypeOK
    <2> QED BY <1>2, <2>1, SqlErrTyped DEF StatementFails
  <1>3. CASE UNCHANGED vars
    BY <1>3 DEF vars, TypeOK, StoreTypeOK, StoreType, ControlTypeOK, JobOf,
         LocalsTypeOK, LocalsType, CurrentLine
  <1> QED BY <1>1, <1>2, <1>3 DEF Next, Terminating

(* The tables keep their column types, every thread is inside the function *)
(* of its job, and the loop of neword() over the sorted lines never leaves *)
(* the order.                                                              *)
THEOREM TypeCorrect == Spec => []TypeOK
  BY InitTyped, NextTyped, PTL DEF Spec

----------------------------------------------------------------------------
(* What a statement of t may do to the rows. *)

OwnRowsOnly(t) ==
    \A r \in Rows :
        \/ lock[r] \in {t, Null} /\ lock'[r] \in {t, Null}
        \/ lock'[r] = lock[r] /\ cur'[r] = cur[r] /\ db'[r] = db[r]

OthersKeep(t) ==
    \A u \in Threads \ {t} :
        pc'[u] = pc[u] /\ job'[u] = job[u] /\ loc'[u] = loc[u] /\ snap'[u] = snap[u]

(* A database is its own earlier version. *)
LEMMA EarlierSame == ASSUME NEW s PROVE Earlier(s, s)
  BY DEF Earlier

(* An order of an earlier database is in the later one. *)
LEMMA OrderStays ==
    ASSUME NEW s, NEW r, Earlier(s, r), NEW w \in Warehouses, NEW d \in Districts,
           NEW o \in OrderIds, OrderExists(s, w, d, o)
    PROVE  /\ OrderExists(r, w, d, o)
           /\ r[Orders(w, d, o)].o_c_id = s[Orders(w, d, o)].o_c_id
           /\ r[Orders(w, d, o)].o_ol_cnt = s[Orders(w, d, o)].o_ol_cnt
           /\ r[OrderLine(w, d, o)] = s[OrderLine(w, d, o)]
           /\ r[NewOrders(w, d, o)] => s[NewOrders(w, d, o)]
  BY DEF Earlier, OrderExists

(* The rows a new order names exist. *)
LEMMA OrderRows ==
    ASSUME TypeOK, NEW t \in Threads, pc[t] \in NewordLabels
    PROVE  /\ job[t] \in NewOrderJobs
           /\ job[t].w \in Warehouses /\ job[t].d \in Districts
           /\ job[t].c \in Customers
           /\ job[t].lines \in Seq(Line)
           /\ District(job[t].w, job[t].d) \in Rows
           /\ loc[t].o \in OrderIds =>
                /\ Orders(job[t].w, job[t].d, loc[t].o) \in Rows
                /\ NewOrders(job[t].w, job[t].d, loc[t].o) \in Rows
                /\ OrderLine(job[t].w, job[t].d, loc[t].o) \in Rows
  <1>1. job[t] \in NewOrderJobs
    BY DEF TypeOK, ControlTypeOK, JobOf
  <1>2. job[t].w \in Warehouses /\ job[t].d \in Districts /\ job[t].c \in Customers
        /\ job[t].lines \in Seq(Line)
    BY <1>1 DEF NewOrderJobs
  <1> QED BY <1>1, <1>2, RowNames

(* The inserted lines are lines of the job, for items that exist.          *)
LEMMA LinesOfJob ==
    ASSUME TypeOK, NEW t \in Threads, pc[t] \in Listed, NewordHolds(t)
    PROVE  /\ loc[t].o \in OrderIds
           /\ Lines(t) \in LinesType
           /\ \A n \in DOMAIN Lines(t) :
                /\ Lines(t)[n].ol_supply_w_id \in Warehouses
                /\ Lines(t)[n].ol_i_id \in Items
                /\ Lines(t)[n].ol_quantity \in 1 .. 10
                /\ Stock(Lines(t)[n].ol_supply_w_id, Lines(t)[n].ol_i_id) \in Rows
  <1>1. /\ job[t].w \in Warehouses /\ job[t].d \in Districts /\ job[t].lines \in Seq(Line)
    BY OrderRows DEF Listed, NewordLabels
  <1>2. loc[t].o \in OrderIds /\ LinesInOrder(t)
    BY DEF NewordHolds, NewordAt, Listed, Inserted, Advanced, Numbered
  <1>3. Lines(t) \in LinesType
    <2>1. cur[OrderLine(job[t].w, job[t].d, loc[t].o)] \in LinesType
      BY <1>1, <1>2, StoredSequences DEF TypeOK, StoreTypeOK
    <2>2. <<>> \in LinesType
      BY DEF LinesType
    <2> QED BY <2>1, <2>2 DEF Lines
  <1>4. PICK f \in Bijection(DOMAIN Lines(t), Passed(t)) : PlacedBy(t, f)
    BY <1>2 DEF LinesInOrder
  <1>5. ASSUME NEW n \in DOMAIN Lines(t)
        PROVE  /\ Lines(t)[n].ol_supply_w_id \in Warehouses
               /\ Lines(t)[n].ol_i_id \in Items
               /\ Lines(t)[n].ol_quantity \in 1 .. 10
    <2>1. f[n] \in Passed(t)
      BY <1>4 DEF Bijection, Injection
    <2>2. f[n] \in DOMAIN job[t].lines
      BY <2>1 DEF Passed
    <2>3. job[t].lines[f[n]] \in Line
      BY <1>1, <2>2
    <2>4. job[t].lines[f[n]].ol_i_id \in Items
      BY <1>2, <2>1 DEF LinesInOrder
    <2>5. Lines(t)[n] = job[t].lines[f[n]]
      BY <1>4 DEF PlacedBy
    <2> QED BY <2>3, <2>4, <2>5 DEF Line
  <1>6. \A n \in DOMAIN Lines(t) :
          Stock(Lines(t)[n].ol_supply_w_id, Lines(t)[n].ol_i_id) \in Rows
    BY <1>5, RowNames
  <1> QED BY <1>2, <1>3, <1>5, <1>6

(* What another thread's new order has taken stays as it is. *)
LEMMA OthersNeword ==
    ASSUME TypeOK, FootprintInv, NEW t \in Threads, OwnRowsOnly(t), OthersKeep(t),
           NEW u \in Threads, u # t
    PROVE  NewordHolds(u)'
  <1>1. pc'[u] = pc[u] /\ job'[u] = job[u] /\ loc'[u] = loc[u]
    BY DEF OthersKeep
  <1>2. \A r \in Rows : lock[r] = u =>
           lock'[r] = u /\ cur'[r] = cur[r] /\ db'[r] = db[r]
    BY TxnAssumption DEF OwnRowsOnly
  <1>3. \A r \in Rows : lock'[r] = u => lock[r] = u
    BY TxnAssumption DEF OwnRowsOnly
  <1> SUFFICES ASSUME pc[u] \in Numbered
               PROVE  NewordAt(u, job[u].w, job[u].d, loc[u].o)'
    BY <1>1 DEF NewordHolds
  <1> DEFINE w == job[u].w
             d == job[u].d
             o == loc[u].o
  <1>4. /\ w \in Warehouses /\ d \in Districts /\ District(w, d) \in Rows
        /\ o \in OrderIds => /\ Orders(w, d, o) \in Rows /\ NewOrders(w, d, o) \in Rows
                             /\ OrderLine(w, d, o) \in Rows
    BY OrderRows DEF Numbered, Advanced, Inserted, Listed, NewordLabels
  <1>5. NewordHolds(u) /\ NewordAt(u, w, d, o)
    BY DEF FootprintInv, Footprint, NewordHolds
  <1>6. ASSUME pc[u] \in Listed
        PROVE  LinesInOrder(u)' /\ StockTaken(u)'
    <2>1. o \in OrderIds /\ LinesInOrder(u) /\ StockTaken(u)
      BY <1>5, <1>6 DEF NewordAt, Inserted
    <2>2. Lines(u)' = Lines(u) /\ Passed(u)' = Passed(u)
      BY <1>1, <1>2, <1>3, <1>4, <2>1 DEF Lines, Passed
    <2>3. CurrentLine(u)' = CurrentLine(u) /\ StockOfLine(u)' = StockOfLine(u)
      BY <1>1 DEF CurrentLine, StockOfLine
    <2>4. LinesInOrder(u)'
      BY <1>1, <2>1, <2>2, <2>3 DEF LinesInOrder, PlacedBy
    <2>5. StockTaken(u)'
      <3>1. \A n \in DOMAIN Lines(u) :
              Stock(Lines(u)[n].ol_supply_w_id, Lines(u)[n].ol_i_id) \in Rows
        BY <1>5, <1>6, LinesOfJob
      <3>2. pc[u] \in {"neword8", "neword9"} => StockOfLine(u) \in Rows
        <4> SUFFICES ASSUME pc[u] \in {"neword8", "neword9"} PROVE StockOfLine(u) \in Rows
          OBVIOUS
        <4>1. /\ loc[u].line \in DOMAIN job[u].lines
              /\ CurrentLine(u).ol_i_id \in Items
          BY DEF TypeOK, LocalsTypeOK, LocalsType
        <4>2. job[u].lines \in Seq(Line)
          BY OrderRows DEF NewordLabels
        <4>3. CurrentLine(u) \in Line
          BY <4>1, <4>2 DEF CurrentLine
        <4> QED BY <4>1, <4>3, RowNames DEF StockOfLine, Line
      <3>3. ASSUME NEW x \in Warehouses, NEW i \in Items, lock'[Stock(x, i)] = u
            PROVE  cur'[Stock(x, i)] =
                     IF pc'[u] = "neword9" /\ Stock(x, i) = StockOfLine(u)'
                     THEN Restock(QuantityAfter(db'[Stock(x, i)], Lines(u)', x, i),
                                  CurrentLine(u)'.ol_quantity)
                     ELSE QuantityAfter(db'[Stock(x, i)], Lines(u)', x, i)
        <4>1. Stock(x, i) \in Rows
          BY RowNames
        <4>2. lock[Stock(x, i)] = u
          BY <1>3, <3>3, <4>1
        <4>3. cur'[Stock(x, i)] = cur[Stock(x, i)] /\ db'[Stock(x, i)] = db[Stock(x, i)]
          BY <1>2, <4>1, <4>2
        <4> QED BY <1>1, <2>1, <2>2, <2>3, <4>2, <4>3 DEF StockTaken
      <3>4. /\ \A n \in DOMAIN Lines(u)' :
                 lock'[Stock(Lines(u)'[n].ol_supply_w_id, Lines(u)'[n].ol_i_id)] = u
        BY <1>2, <2>1, <2>2, <3>1 DEF StockTaken
      <3>5. pc'[u] \in {"neword8", "neword9"} => lock'[StockOfLine(u)'] = u
        BY <1>1, <1>2, <2>1, <2>3, <3>2 DEF StockTaken
      <3>6. pc'[u] = "neword8" => loc'[u].qty = cur'[StockOfLine(u)']
        BY <1>1, <1>2, <2>1, <2>3, <3>2 DEF StockTaken
      <3> QED BY <3>3, <3>4, <3>5, <3>6 DEF StockTaken
    <2> QED BY <2>4, <2>5
  <1>7. \A r \in Rows : lock'[r] = u =>
         \/ r = District(w, d)
         \/ r = Orders(w, d, o) /\ pc[u] \in Inserted
         \/ (r \in {NewOrders(w, d, o), OrderLine(w, d, o)} \/ r[1] = "stock")
              /\ pc[u] \in Listed
    BY <1>3, <1>5 DEF NewordAt
  <1>8. /\ lock'[District(w, d)] = u
        /\ db'[District(w, d)] = db[District(w, d)]
        /\ cur'[District(w, d)] = cur[District(w, d)]
    BY <1>2, <1>4, <1>5 DEF NewordAt
  <1>9. pc[u] \in Inserted =>
         /\ o \in OrderIds
         /\ lock'[Orders(w, d, o)] = u
         /\ cur'[Orders(w, d, o)] = cur[Orders(w, d, o)]
    BY <1>2, <1>4, <1>5 DEF NewordAt
  <1>10. pc[u] \in Listed =>
         /\ lock'[NewOrders(w, d, o)] = u
         /\ cur'[NewOrders(w, d, o)] = cur[NewOrders(w, d, o)]
    BY <1>2, <1>4, <1>5 DEF NewordAt, Inserted
  <1> QED
    BY <1>1, <1>5, <1>6, <1>7, <1>8, <1>9, <1>10 DEF NewordAt

(* The rows a payment names exist. *)
LEMMA PaymentRowsExist ==
    ASSUME TypeOK, NEW t \in Threads, pc[t] \in PaymentLabels
    PROVE  /\ job[t] \in PaymentJobs
           /\ job[t].w \in Warehouses /\ job[t].d \in Districts
           /\ job[t].c_w \in Warehouses /\ job[t].c_d \in Districts
           /\ Warehouse(job[t].w) \in Rows
           /\ District(job[t].w, job[t].d) \in Rows
           /\ pc[t] \in CustomerFound =>
                /\ loc[t].c \in Customers
                /\ PayingCustomer(t) \in Rows /\ PayingHistory(t) \in Rows
  <1>1. job[t] \in PaymentJobs
    BY DEF TypeOK, ControlTypeOK, JobOf
  <1>2. /\ job[t].w \in Warehouses /\ job[t].d \in Districts
        /\ job[t].c_w \in Warehouses /\ job[t].c_d \in Districts
    BY <1>1 DEF PaymentJobs
  <1>3. pc[t] \in CustomerFound => loc[t].c \in Customers
    <2> SUFFICES ASSUME pc[t] \in CustomerFound PROVE loc[t].c \in Customers
      OBVIOUS
    <2>1. pc[t] \in PaymentLabels \ {"payment1", "payment2", "payment3", "payment4"}
      BY DEF CustomerFound, CustomerRead, CustomerPaid, PaymentLabels
    <2> QED BY <2>1 DEF TypeOK, LocalsTypeOK, LocalsType
  <1>4. pc[t] \in CustomerFound => PayingCustomer(t) \in Rows /\ PayingHistory(t) \in Rows
    BY <1>2, <1>3, RowNames DEF PayingCustomer, PayingHistory
  <1> QED BY <1>1, <1>2, <1>3, <1>4, RowNames

(* The rows a delivery names exist. *)
LEMMA DeliveryRowsExist ==
    ASSUME TypeOK, NEW t \in Threads, pc[t] \in DeliveryLabels \ {"delivery1"}
    PROVE  /\ job[t].w \in Warehouses /\ loc[t].d \in Districts /\ loc[t].o \in OrderIds
           /\ NewOrders(job[t].w, loc[t].d, loc[t].o) \in Rows
           /\ Orders(job[t].w, loc[t].d, loc[t].o) \in Rows
           /\ OrderLine(job[t].w, loc[t].d, loc[t].o) \in Rows
           /\ \A c \in Customers : Customer(job[t].w, loc[t].d, c) \in Rows
  <1>1. job[t] \in DeliveryJobs
    BY DEF TypeOK, ControlTypeOK, JobOf
  <1>2. job[t].w \in Warehouses
    BY <1>1 DEF DeliveryJobs
  <1>3. loc[t].d \in Districts /\ loc[t].o \in OrderIds
    BY DEF TypeOK, LocalsTypeOK, LocalsType
  <1> QED BY <1>2, <1>3, RowNames

(* The order a delivery is at exists, and is by a customer. *)
LEMMA DeliveredExists ==
    ASSUME TypeOK, FootprintInv, NEW t \in Threads, pc[t] \in DeliveryLabels \ {"delivery1"}
    PROVE  /\ OrderExists(SnapshotOf(t), job[t].w, loc[t].d, loc[t].o)
           /\ OrderExists(db, job[t].w, loc[t].d, loc[t].o)
           /\ db[Orders(job[t].w, loc[t].d, loc[t].o)].o_c_id \in Customers
           /\ SnapshotOf(t)[Orders(job[t].w, loc[t].d, loc[t].o)].o_c_id =
                db[Orders(job[t].w, loc[t].d, loc[t].o)].o_c_id
           /\ SnapshotOf(t)[OrderLine(job[t].w, loc[t].d, loc[t].o)] =
                db[OrderLine(job[t].w, loc[t].d, loc[t].o)]
           /\ db[NewOrders(job[t].w, loc[t].d, loc[t].o)] =>
                SnapshotOf(t)[NewOrders(job[t].w, loc[t].d, loc[t].o)]
  <1>1. job[t].w \in Warehouses /\ loc[t].d \in Districts /\ loc[t].o \in OrderIds
    BY DeliveryRowsExist
  <1>2. /\ OrderExists(SnapshotOf(t), job[t].w, loc[t].d, loc[t].o)
        /\ Earlier(SnapshotOf(t), db) /\ RowsSound(db)
    BY DEF FootprintInv, Footprint, DeliveryHolds, DeliveryAt, ConsistentDb
  <1>3. /\ OrderExists(db, job[t].w, loc[t].d, loc[t].o)
        /\ SnapshotOf(t)[Orders(job[t].w, loc[t].d, loc[t].o)].o_c_id =
             db[Orders(job[t].w, loc[t].d, loc[t].o)].o_c_id
        /\ SnapshotOf(t)[OrderLine(job[t].w, loc[t].d, loc[t].o)] =
             db[OrderLine(job[t].w, loc[t].d, loc[t].o)]
        /\ db[NewOrders(job[t].w, loc[t].d, loc[t].o)] =>
             SnapshotOf(t)[NewOrders(job[t].w, loc[t].d, loc[t].o)]
    BY <1>1, <1>2, OrderStays
  <1>4. db[Orders(job[t].w, loc[t].d, loc[t].o)].o_c_id \in Customers
    BY <1>1, <1>2, <1>3 DEF RowsSound
  <1> QED BY <1>2, <1>3, <1>4

(* What another thread's payment has taken stays as it is. *)
LEMMA OthersPayment ==
    ASSUME TypeOK, FootprintInv, NEW t \in Threads, OwnRowsOnly(t), OthersKeep(t),
           NEW u \in Threads, u # t
    PROVE  PaymentHolds(u)'
  <1>1. pc'[u] = pc[u] /\ job'[u] = job[u] /\ loc'[u] = loc[u]
    BY DEF OthersKeep
  <1>2. \A r \in Rows : lock[r] = u =>
           lock'[r] = u /\ cur'[r] = cur[r] /\ db'[r] = db[r]
    BY TxnAssumption DEF OwnRowsOnly
  <1>3. \A r \in Rows : lock'[r] = u => lock[r] = u
    BY TxnAssumption DEF OwnRowsOnly
  <1> SUFFICES ASSUME pc[u] \in WarehousePaid
               PROVE  PaymentAt(u, job[u].w, job[u].d, job[u].h_amount)'
    BY <1>1 DEF PaymentHolds
  <1> DEFINE w == job[u].w
             d == job[u].d
             h == job[u].h_amount
  <1>4. /\ Warehouse(w) \in Rows /\ District(w, d) \in Rows
        /\ pc[u] \in CustomerFound => PayingCustomer(u) \in Rows /\ PayingHistory(u) \in Rows
    BY PaymentRowsExist DEF WarehousePaid, DistrictPaid, CustomerFound, CustomerRead,
         CustomerPaid, PaymentLabels
  <1>5. PaymentAt(u, w, d, h)
    BY DEF FootprintInv, Footprint, PaymentHolds
  <1>6. PayingCustomer(u)' = PayingCustomer(u) /\ PayingHistory(u)' = PayingHistory(u)
    BY <1>1 DEF PayingCustomer, PayingHistory
  <1>7. \A r \in Rows : lock'[r] = u =>
         \/ r = Warehouse(w)
         \/ r = District(w, d) /\ pc[u] \in DistrictPaid
         \/ r = PayingCustomer(u) /\ pc[u] \in CustomerRead \cup CustomerPaid
         \/ r = PayingHistory(u) /\ pc[u] = "payment_commit"
    BY <1>3, <1>5 DEF PaymentAt
  <1>8. /\ lock'[Warehouse(w)] = u
        /\ db'[Warehouse(w)] = db[Warehouse(w)]
        /\ cur'[Warehouse(w)] = cur[Warehouse(w)]
    BY <1>2, <1>4, <1>5 DEF PaymentAt
  <1>9. pc[u] \in DistrictPaid =>
        /\ lock'[District(w, d)] = u
        /\ db'[District(w, d)] = db[District(w, d)]
        /\ cur'[District(w, d)] = cur[District(w, d)]
    BY <1>2, <1>4, <1>5 DEF PaymentAt
  <1>10. pc[u] \in CustomerRead \cup CustomerPaid =>
        /\ lock'[PayingCustomer(u)] = u
        /\ db'[PayingCustomer(u)] = db[PayingCustomer(u)]
        /\ cur'[PayingCustomer(u)] = cur[PayingCustomer(u)]
    BY <1>2, <1>4, <1>5 DEF PaymentAt, CustomerFound
  <1>11. pc[u] = "payment_commit" =>
        /\ lock'[PayingHistory(u)] = u
        /\ db'[PayingHistory(u)] = db[PayingHistory(u)]
        /\ cur'[PayingHistory(u)] = cur[PayingHistory(u)]
    BY <1>2, <1>4, <1>5 DEF PaymentAt, CustomerFound, CustomerPaid
  <1> HIDE DEF w, d, h
  <1>12. PaymentAt(u, w, d, h)'
    BY <1>1, <1>5, <1>6, <1>7, <1>8, <1>9, <1>10, <1>11 DEF PaymentAt, w, d, h
  <1> QED BY <1>1, <1>12 DEF w, d, h

(* What another thread's delivery has taken stays as it is. *)
LEMMA OthersDelivery ==
    ASSUME TypeOK, FootprintInv, NEW t \in Threads, OwnRowsOnly(t), OthersKeep(t),
           Earlier(db, db'), NEW u \in Threads, u # t
    PROVE  DeliveryHolds(u)'
  <1>1. pc'[u] = pc[u] /\ job'[u] = job[u] /\ loc'[u] = loc[u] /\ snap'[u] = snap[u]
    BY DEF OthersKeep
  <1>2. \A r \in Rows : lock[r] = u =>
           lock'[r] = u /\ cur'[r] = cur[r] /\ db'[r] = db[r]
    BY TxnAssumption DEF OwnRowsOnly
  <1>3. \A r \in Rows : lock'[r] = u => lock[r] = u
    BY TxnAssumption DEF OwnRowsOnly
  <1> SUFFICES ASSUME pc[u] \in DeliveryLabels \ {"delivery1"}
               PROVE  DeliveryAt(u, job[u].w, loc[u].d, loc[u].o)'
    BY <1>1 DEF DeliveryHolds
  <1> DEFINE w == job[u].w
             d == loc[u].d
             o == loc[u].o
             c == loc[u].c
  <1>4. /\ w \in Warehouses /\ d \in Districts /\ o \in OrderIds
        /\ NewOrders(w, d, o) \in Rows /\ Orders(w, d, o) \in Rows /\ OrderLine(w, d, o) \in Rows
    BY DeliveryRowsExist
  <1>5. DeliveryAt(u, w, d, o)
    BY DEF FootprintInv, Footprint, DeliveryHolds
  <1>6. /\ OrderExists(SnapshotOf(u), w, d, o) /\ OrderExists(db, w, d, o)
        /\ db[Orders(w, d, o)].o_c_id \in Customers
    BY DeliveredExists
  <1>7. /\ OrderExists(db', w, d, o)
        /\ db'[Orders(w, d, o)].o_c_id = db[Orders(w, d, o)].o_c_id
        /\ db'[OrderLine(w, d, o)] = db[OrderLine(w, d, o)]
        /\ db'[NewOrders(w, d, o)] => db[NewOrders(w, d, o)]
    BY <1>4, <1>6, OrderStays
  <1>8. OrderExists(SnapshotOf(u), w, d, o)'
    BY <1>1, <1>6, <1>7 DEF SnapshotOf, OrderExists
  <1>9. \A r \in Rows : lock'[r] = u =>
         \/ r = NewOrders(w, d, o) /\ pc[u] \in Deleted
         \/ r = Orders(w, d, o) /\ pc[u] \in Carried
         \/ r = OrderLine(w, d, o) /\ pc[u] \in Stamped
         \/ r = Customer(w, d, c) /\ pc[u] = "delivery_commit"
    BY <1>3, <1>5 DEF DeliveryAt
  <1>10. lock'[NewOrders(w, d, o)] = u => cur'[NewOrders(w, d, o)] = FALSE
    BY <1>2, <1>3, <1>4, <1>5 DEF DeliveryAt
  <1>11. pc[u] \in Deleted => (db'[NewOrders(w, d, o)] => lock'[NewOrders(w, d, o)] = u)
    BY <1>2, <1>4, <1>5, <1>7 DEF DeliveryAt
  <1>12. pc[u] \in Carried =>
         /\ lock'[Orders(w, d, o)] = u
         /\ db'[Orders(w, d, o)] = db[Orders(w, d, o)]
         /\ cur'[Orders(w, d, o)] = cur[Orders(w, d, o)]
    BY <1>2, <1>4, <1>5 DEF DeliveryAt
  <1>13. pc[u] \in Stamped =>
         /\ lock'[OrderLine(w, d, o)] = u
         /\ cur'[OrderLine(w, d, o)] = cur[OrderLine(w, d, o)]
    BY <1>2, <1>4, <1>5 DEF DeliveryAt
  <1>14. pc[u] = "delivery_commit" =>
         /\ lock'[Customer(w, d, c)] = u
         /\ db'[Customer(w, d, c)] = db[Customer(w, d, c)]
         /\ cur'[Customer(w, d, c)] = cur[Customer(w, d, c)]
    <2> SUFFICES ASSUME pc[u] = "delivery_commit"
                 PROVE  /\ lock'[Customer(w, d, c)] = u
                        /\ db'[Customer(w, d, c)] = db[Customer(w, d, c)]
                        /\ cur'[Customer(w, d, c)] = cur[Customer(w, d, c)]
      OBVIOUS
    <2>1. c \in Customers
      BY <1>5, <1>6 DEF DeliveryAt, Credited, Carried, Stamped, Summed
    <2>2. Customer(w, d, c) \in Rows
      BY <1>4, <2>1, RowNames
    <2> QED BY <1>2, <1>5, <2>2 DEF DeliveryAt
  <1>15. pc[u] \in Credited => c = db'[Orders(w, d, o)].o_c_id
    BY <1>5, <1>7 DEF DeliveryAt
  <1>16. pc[u] \in Carried =>
           cur'[Orders(w, d, o)] = [db'[Orders(w, d, o)] EXCEPT !.o_carrier_id = 1]
    BY <1>5, <1>12 DEF DeliveryAt
  <1>17. pc[u] \in Stamped => cur'[OrderLine(w, d, o)] = db'[OrderLine(w, d, o)]
    BY <1>5, <1>7, <1>13 DEF DeliveryAt
  <1>18. pc[u] \in Summed => loc[u].amt = OrderAmount(db'[OrderLine(w, d, o)])
    BY <1>5, <1>7 DEF DeliveryAt
  <1>19. pc[u] = "delivery_commit" =>
           cur'[Customer(w, d, c)] =
             [db'[Customer(w, d, c)] EXCEPT !.c_balance = @ + loc[u].amt,
                                            !.c_delivery_cnt = @ + 1]
    BY <1>5, <1>14 DEF DeliveryAt
  <1> QED
    BY <1>1, <1>8, <1>9, <1>10, <1>11, <1>12, <1>13, <1>14, <1>15, <1>16, <1>17, <1>18, <1>19
       DEF DeliveryAt

(* What another thread has read is still so. *)
LEMMA OthersReads ==
    ASSUME TypeOK, FootprintInv, NEW t \in Threads, OthersKeep(t),
           ConsistentDb(db'), Earlier(db, db'), NEW u \in Threads, u # t
    PROVE  /\ ConsistentDb(SnapshotOf(u)') /\ Earlier(SnapshotOf(u)', db')
           /\ OrdstatReads(u)' /\ SlevReads(u)'
  <1>1. pc'[u] = pc[u] /\ job'[u] = job[u] /\ loc'[u] = loc[u] /\ snap'[u] = snap[u]
    BY DEF OthersKeep
  <1>2. Footprint(u)
    BY DEF FootprintInv
  <1>3. SnapshotOf(u)' = db' \/ SnapshotOf(u)' = SnapshotOf(u)
    BY <1>1 DEF SnapshotOf
  <1>4. ConsistentDb(SnapshotOf(u)')
    BY <1>2, <1>3 DEF Footprint
  <1>5. Earlier(SnapshotOf(u), db')
    BY <1>2, EarlierTransitive DEF Footprint
  <1>6. Earlier(SnapshotOf(u)', db') /\ Earlier(SnapshotOf(u), SnapshotOf(u)')
    BY <1>3, <1>5, EarlierSame
  <1>7. OrdstatReads(u)'
    <2> SUFFICES ASSUME pc[u] \in {"ordstat8", "ordstat_commit"} PROVE OrdstatReads(u)'
      BY <1>1 DEF OrdstatReads
    <2>1. job[u] \in OrdStatJobs
      BY DEF TypeOK, ControlTypeOK, JobOf, OrdstatLabels
    <2>2. job[u].w \in Warehouses /\ job[u].d \in Districts
      BY <2>1 DEF OrdStatJobs
    <2>3. loc[u].o \in OrderIds
      BY DEF TypeOK, LocalsTypeOK, LocalsType
    <2>4. CASE pc[u] = "ordstat8"
      <3>1. OrderExists(SnapshotOf(u), job[u].w, job[u].d, loc[u].o)
        BY <1>2, <2>4 DEF Footprint, OrdstatReads
      <3>2. OrderExists(SnapshotOf(u)', job[u].w, job[u].d, loc[u].o)
        BY <1>6, <2>2, <2>3, <3>1, OrderStays
      <3> QED BY <1>1, <2>4, <3>2 DEF OrdstatReads, OrderExists
    <2>5. CASE pc[u] = "ordstat_commit"
      <3>1. /\ OrderExists(db, job[u].w, job[u].d, loc[u].o)
            /\ loc[u].rows = db[Orders(job[u].w, job[u].d, loc[u].o)].o_ol_cnt
        BY <1>2, <2>5 DEF Footprint, OrdstatReads
      <3>2. /\ OrderExists(db', job[u].w, job[u].d, loc[u].o)
            /\ loc[u].rows = db'[Orders(job[u].w, job[u].d, loc[u].o)].o_ol_cnt
        BY <2>2, <2>3, <3>1, OrderStays
      <3> QED BY <1>1, <2>5, <3>2 DEF OrdstatReads, OrderExists
    <2> QED BY <2>4, <2>5
  <1>8. SlevReads(u)'
    <2>1. pc'[u] = "slev3" => loc'[u].seen = Recent(u)'
      BY <1>1, <1>2 DEF Footprint, SlevReads, Recent
    <2>2. ASSUME pc[u] = "slev2", NEW o \in OrderIds, o < loc[u].o
          PROVE  OrderExists(SnapshotOf(u)', job[u].w, job[u].d, o)
      <3>1. job[u] \in SlevJobs
        BY <2>2 DEF TypeOK, ControlTypeOK, JobOf, SlevLabels
      <3>2. job[u].w \in Warehouses /\ job[u].d \in Districts
        BY <3>1 DEF SlevJobs
      <3>3. OrderExists(SnapshotOf(u), job[u].w, job[u].d, o)
        BY <1>2, <2>2 DEF Footprint, SlevReads
      <3> QED BY <1>6, <3>2, <3>3, OrderStays
    <2> QED BY <1>1, <2>1, <2>2 DEF SlevReads, OrderExists
  <1> QED BY <1>4, <1>6, <1>7, <1>8

(* No statement of t disturbs another thread. *)
LEMMA OthersFootprint ==
    ASSUME TypeOK, FootprintInv, NEW t \in Threads, OwnRowsOnly(t), OthersKeep(t),
           ConsistentDb(db'), Earlier(db, db'), NEW u \in Threads, u # t
    PROVE  Footprint(u)'
  <1>1. pc'[u] \in FreeLabels => Held(u)' = {}
    <2>1. pc'[u] = pc[u]
      BY DEF OthersKeep
    <2>2. \A r \in Rows : lock'[r] = u => lock[r] = u
      BY TxnAssumption DEF OwnRowsOnly
    <2>3. pc[u] \in FreeLabels => Held(u) = {}
      BY DEF FootprintInv, Footprint
    <2> QED BY <2>1, <2>2, <2>3 DEF Held
  <1> QED
    BY <1>1, OthersNeword, OthersPayment, OthersDelivery, OthersReads DEF Footprint

(* A step keeps the invariant when it changes only rows the thread may     *)
(* have, moves the database forward, and leaves the thread where it is     *)
(* due.                                                                    *)
LEMMA OwnStep ==
    ASSUME TypeOK, FootprintInv, NEW t \in Threads, OwnRowsOnly(t), OthersKeep(t),
           UnlockedIsCommitted', db' = db \/ db' = [r \in Rows |-> db'[r]],
           ConsistentDb(db'), Earlier(db, db'), Footprint(t)'
    PROVE  FootprintInv'
  <1>1. \A u \in Threads \ {t} : Footprint(u)'
    BY OthersFootprint
  <1>2. Earlier(LoadedDb, db')
    BY EarlierTransitive DEF FootprintInv
  <1>3. ConsistentDb(db)' /\ Earlier(LoadedDb, db)'
    <2>1. LoadedDb' = LoadedDb
      BY DEF LoadedDb, LoadedRow, LoadedWarehouse, LoadedDistrict, LoadedCustomer, LoadedOrder, LoadedLines
    <2> QED BY <1>2, <2>1 DEF ConsistentDb
  <1>4. db' = [r \in Rows |-> db'[r]]
    BY DEF FootprintInv
  <1> QED BY <1>1, <1>3, <1>4 DEF FootprintInv

----------------------------------------------------------------------------
(* What each statement of RowStore does to the rows, the labels and the    *)
(* snapshots.                                                              *)

(* The other threads stay where they are. *)
ControlKept(t) ==
    \A u \in Threads \ {t} : pc'[u] = pc[u] /\ job'[u] = job[u] /\ loc'[u] = loc[u]

(* A statement leads from one label to another. *)
LEMMA StepKeeps ==
    ASSUME TypeOK, NEW t \in Threads, NEW from, NEW to, Step(t, from, to),
           \A u \in Threads \ {t} : loc'[u] = loc[u]
    PROVE  /\ ControlKept(t) /\ pc[t] = from /\ pc'[t] = to /\ job'[t] = job[t]
  BY DEF TypeOK, ControlTypeOK, Step, control, ControlKept

(* The function returns. *)
LEMMA ReturnKeeps ==
    ASSUME TypeOK, NEW t \in Threads, Return(t)
    PROVE  ControlKept(t) /\ pc'[t] = "idle"
  BY DEF TypeOK, ControlTypeOK, LocalsTypeOK, Return, ControlKept

(* delivery() goes on to its next district or returns. *)
LEMMA NextDistrictKeeps ==
    ASSUME TypeOK, NEW t \in Threads, NextDistrict(t)
    PROVE  ControlKept(t) /\ pc'[t] \in {"idle", "delivery1"}
  BY ReturnKeeps DEF TypeOK, ControlTypeOK, LocalsTypeOK, NextDistrict, control, ControlKept

(* Labels with nothing held and nothing read to rely on. *)
RestLabels ==
    {"idle", "done", "neword1", "neword2", "payment1", "delivery1", "ordstat1", "ordstat6",
     "ordstat7", "slev1", "slev_commit"}

(* A failed statement is rolled back and retried or given up. *)
LEMMA SqlErrKeeps ==
    ASSUME TypeOK, NEW t \in Threads, SqlErr(t), pc[t] \notin {"idle", "done"}
    PROVE  ControlKept(t) /\ pc'[t] \in RestLabels
  <1>1. ControlKept(t)
    BY DEF TypeOK, ControlTypeOK, LocalsTypeOK, SqlErr, RetryOrGiveUp, ControlKept
  <1>2. job[t] \in AllJobs
    BY DEF TypeOK, ControlTypeOK, JobOf, AllJobs
  <1>3. pc'[t] \in {"idle", FirstStatement(job[t])}
    BY DEF TypeOK, ControlTypeOK, SqlErr, RetryOrGiveUp
  <1>4. pc'[t] \in RestLabels
    BY <1>2, <1>3, FirstStatementLabel DEF AllJobs, RestLabels
  <1> QED BY <1>1, <1>4

(* A consistent read changes no row, and t goes on reading what it read. *)
LEMMA SelectStep ==
    ASSUME TypeOK, FootprintInv, NEW t \in Threads, NEW from, NEW to,
           Step(t, from, to), Select(t), \A u \in Threads \ {t} : loc'[u] = loc[u]
    PROVE  /\ OwnRowsOnly(t) /\ OthersKeep(t) /\ UnlockedIsCommitted'
           /\ db' = db /\ cur' = cur /\ lock' = lock /\ Held(t)' = Held(t)
           /\ SnapshotOf(t)' = SnapshotOf(t)
           /\ pc[t] = from /\ pc'[t] = to /\ job'[t] = job[t]
  <1>1. /\ ControlKept(t) /\ pc[t] = from /\ pc'[t] = to /\ job'[t] = job[t]
    BY StepKeeps
  <1>2. /\ db' = db /\ cur' = cur /\ lock' = lock
        /\ \A u \in Threads \ {t} : snap'[u] = snap[u]
        /\ snap'[t] = IF snap[t] = Null THEN db ELSE snap[t]
    BY DEF Select, TypeOK, StoreTypeOK
  <1> QED
    BY <1>1, <1>2 DEF ControlKept, OthersKeep, OwnRowsOnly, FootprintInv,
         UnlockedIsCommitted, SnapshotOf, Held

(* SELECT ... FOR UPDATE locks its row. *)
LEMMA ForUpdateStep ==
    ASSUME TypeOK, FootprintInv, NEW t \in Threads, NEW from, NEW to,
           Step(t, from, to), \A u \in Threads \ {t} : loc'[u] = loc[u],
           NEW r \in Rows, SelectForUpdate(t, r)
    PROVE  /\ OwnRowsOnly(t) /\ OthersKeep(t) /\ UnlockedIsCommitted'
           /\ db' = db /\ cur' = cur
           /\ \A q \in Rows : lock'[q] = IF q = r THEN t ELSE lock[q]
           /\ lock[r] # t => cur[r] = db[r]
           /\ SnapshotOf(t)' = SnapshotOf(t)
           /\ pc[t] = from /\ pc'[t] = to /\ job'[t] = job[t]
  <1>1. /\ ControlKept(t) /\ pc[t] = from /\ pc'[t] = to /\ job'[t] = job[t]
    BY StepKeeps
  <1>2. /\ db' = db /\ cur' = cur /\ snap' = snap /\ lock[r] \in {t, Null}
        /\ \A q \in Rows : lock'[q] = IF q = r THEN t ELSE lock[q]
    BY DEF SelectForUpdate, Available, TypeOK, StoreTypeOK
  <1>3. lock[r] # t => cur[r] = db[r]
    BY <1>2 DEF FootprintInv, UnlockedIsCommitted
  <1>4. OwnRowsOnly(t) /\ UnlockedIsCommitted'
    BY <1>2, TxnAssumption DEF OwnRowsOnly, FootprintInv, UnlockedIsCommitted
  <1> QED
    BY <1>1, <1>2, <1>3, <1>4 DEF ControlKept, OthersKeep, SnapshotOf

(* A write locks its row and leaves its value there. *)
LEMMA WriteStep ==
    ASSUME TypeOK, FootprintInv, NEW t \in Threads, NEW from, NEW to,
           Step(t, from, to), \A u \in Threads \ {t} : loc'[u] = loc[u],
           NEW r \in Rows, NEW v, Write(t, r, v)
    PROVE  /\ OwnRowsOnly(t) /\ OthersKeep(t) /\ UnlockedIsCommitted'
           /\ db' = db
           /\ \A q \in Rows : /\ lock'[q] = IF q = r THEN t ELSE lock[q]
                              /\ cur'[q] = IF q = r THEN v ELSE cur[q]
           /\ lock[r] # t => cur[r] = db[r]
           /\ SnapshotOf(t)' = SnapshotOf(t)
           /\ pc[t] = from /\ pc'[t] = to /\ job'[t] = job[t]
  <1>1. /\ ControlKept(t) /\ pc[t] = from /\ pc'[t] = to /\ job'[t] = job[t]
    BY StepKeeps
  <1>2. DOMAIN cur = Rows /\ DOMAIN lock = Rows
    BY DEF TypeOK, StoreTypeOK, StoreType
  <1>3. /\ db' = db /\ snap' = snap /\ lock[r] \in {t, Null}
        /\ \A q \in Rows : /\ lock'[q] = IF q = r THEN t ELSE lock[q]
                           /\ cur'[q] = IF q = r THEN v ELSE cur[q]
    BY <1>2 DEF Write, Available
  <1>4. lock[r] # t => cur[r] = db[r]
    BY <1>3 DEF FootprintInv, UnlockedIsCommitted
  <1>5. OwnRowsOnly(t) /\ UnlockedIsCommitted'
    BY <1>3, TxnAssumption DEF OwnRowsOnly, FootprintInv, UnlockedIsCommitted
  <1> QED
    BY <1>1, <1>3, <1>4, <1>5 DEF ControlKept, OthersKeep, SnapshotOf

(* At a label of RestLabels a thread has no more to keep. *)
LEMMA RestFootprint ==
    ASSUME NEW t \in Threads, pc'[t] \in RestLabels, Held(t)' = {},
           ConsistentDb(SnapshotOf(t)'), Earlier(SnapshotOf(t)', db')
    PROVE  Footprint(t)'
  <1> USE DEF RestLabels
  <1>1. NewordHolds(t)'
    BY DEF NewordHolds, Numbered, Advanced, Inserted, Listed
  <1>2. PaymentHolds(t)'
    BY DEF PaymentHolds, WarehousePaid, DistrictPaid, CustomerFound, CustomerRead, CustomerPaid
  <1>3. DeliveryHolds(t)'
    BY DEF DeliveryHolds, DeliveryLabels
  <1>4. OrdstatReads(t)' /\ SlevReads(t)'
    BY DEF OrdstatReads, SlevReads
  <1> QED BY <1>1, <1>2, <1>3, <1>4 DEF Footprint

(* ROLLBACK leaves nothing behind. *)
LEMMA RollbackStep ==
    ASSUME TypeOK, FootprintInv, NEW t \in Threads, Rollback(t), ControlKept(t),
           pc'[t] \in RestLabels
    PROVE  FootprintInv'
  <1>1. /\ db' = db /\ \A r \in Rows : /\ cur'[r] = IF lock[r] = t THEN db[r] ELSE cur[r]
                                       /\ lock'[r] = IF lock[r] = t THEN Null ELSE lock[r]
        /\ \A u \in Threads \ {t} : snap'[u] = snap[u]
        /\ snap'[t] = Null
    BY DEF Rollback, Unlock, TypeOK, StoreTypeOK
  <1>2. OwnRowsOnly(t) /\ OthersKeep(t) /\ Held(t)' = {}
    BY <1>1, TxnAssumption DEF OwnRowsOnly, OthersKeep, ControlKept, Held
  <1>3. UnlockedIsCommitted'
    BY <1>1 DEF FootprintInv, UnlockedIsCommitted
  <1>4. ConsistentDb(db') /\ Earlier(db, db') /\ SnapshotOf(t)' = db'
    BY <1>1, EarlierSame DEF FootprintInv, SnapshotOf
  <1>5. Footprint(t)'
    BY <1>2, <1>4, EarlierSame, RestFootprint
  <1> QED BY <1>1, <1>2, <1>3, <1>4, <1>5, OwnStep

(* COMMIT keeps the invariant when it takes the database to a later        *)
(* consistent one.                                                         *)
LEMMA CommitStep ==
    ASSUME TypeOK, FootprintInv, NEW t \in Threads, Commit(t), ControlKept(t),
           pc'[t] \in RestLabels, ConsistentDb(db'), Earlier(db, db')
    PROVE  FootprintInv'
  <1>1. /\ \A r \in Rows : /\ cur'[r] = cur[r]
                           /\ db'[r] = IF lock[r] = t THEN cur[r] ELSE db[r]
                           /\ lock'[r] = IF lock[r] = t THEN Null ELSE lock[r]
        /\ \A u \in Threads \ {t} : snap'[u] = snap[u]
        /\ snap'[t] = Null
    BY DEF Commit, Unlock, TypeOK, StoreTypeOK
  <1>2. OwnRowsOnly(t) /\ OthersKeep(t) /\ Held(t)' = {}
    BY <1>1, TxnAssumption DEF OwnRowsOnly, OthersKeep, ControlKept, Held
  <1>3. UnlockedIsCommitted'
    BY <1>1 DEF FootprintInv, UnlockedIsCommitted
  <1>4. SnapshotOf(t)' = db'
    BY <1>1 DEF SnapshotOf
  <1>5. Footprint(t)'
    BY <1>2, <1>4, EarlierSame, RestFootprint
  <1>6. db' = [r \in Rows |-> db'[r]]
    BY DEF Commit
  <1> QED BY <1>2, <1>3, <1>5, <1>6, OwnStep

(* Committing nothing changes nothing. *)
LEMMA CommitNothing ==
    ASSUME FootprintInv, NEW t \in Threads, Commit(t), Held(t) = {}
    PROVE  db' = db
  <1>1. \A r \in Rows : db'[r] = db[r]
    BY DEF Commit, Held
  <1>2. db' = [r \in Rows |-> db'[r]]
    BY DEF Commit
  <1>3. db = [r \in Rows |-> db[r]]
    BY DEF FootprintInv
  <1> QED BY <1>1, <1>2, <1>3

(* A read before any lock, to a label where nothing more is due. *)
LEMMA RestSelect ==
    ASSUME TypeOK, FootprintInv, NEW t \in Threads, NEW from \in FreeLabels,
           NEW to \in RestLabels, Step(t, from, to), Select(t),
           \A u \in Threads \ {t} : loc'[u] = loc[u]
    PROVE  FootprintInv'
  <1>1. /\ OwnRowsOnly(t) /\ OthersKeep(t) /\ UnlockedIsCommitted'
        /\ db' = db /\ Held(t)' = Held(t) /\ SnapshotOf(t)' = SnapshotOf(t)
        /\ pc[t] = from /\ pc'[t] = to
    BY SelectStep
  <1>2. ConsistentDb(db') /\ Earlier(db, db')
    BY <1>1, EarlierSame DEF FootprintInv
  <1>3. Held(t)' = {} /\ ConsistentDb(SnapshotOf(t)') /\ Earlier(SnapshotOf(t)', db')
    BY <1>1 DEF FootprintInv, Footprint
  <1>4. Footprint(t)'
    BY <1>1, <1>3, RestFootprint
  <1> QED BY <1>1, <1>2, <1>4, OwnStep

(* A consistent read sees the snapshot where t has changed nothing. *)
LEMMA ViewIs ==
    ASSUME NEW t, NEW r \in Rows, lock[r] = t => cur[r] = db[r]
    PROVE  View(t)[r] = SnapshotOf(t)[r]
  BY DEF View, SnapshotOf

----------------------------------------------------------------------------
(* Rows of different tables are different. *)
LEMMA Tables ==
    ASSUME NEW w, NEW d, NEW k
    PROVE  /\ Warehouse(w)[1] = "warehouse" /\ District(w, d)[1] = "district"
           /\ Customer(w, d, k)[1] = "customer" /\ History(w, d, k)[1] = "history"
           /\ Orders(w, d, k)[1] = "orders" /\ NewOrders(w, d, k)[1] = "new_orders"
           /\ OrderLine(w, d, k)[1] = "order_line" /\ Stock(w, k)[1] = "stock"
  BY DEF Warehouse, District, Customer, History, Orders, NewOrders, OrderLine, Stock

(* The labels of one function say nothing of the others. *)
LEMMA Apart ==
    ASSUME NEW t
    PROVE  /\ pc'[t] \notin Numbered => NewordHolds(t)'
           /\ pc'[t] \notin WarehousePaid => PaymentHolds(t)'
           /\ pc'[t] \notin DeliveryLabels \ {"delivery1"} => DeliveryHolds(t)'
           /\ pc'[t] \notin {"ordstat8", "ordstat_commit"} => OrdstatReads(t)'
           /\ pc'[t] \notin {"slev2", "slev3"} => SlevReads(t)'
  BY DEF NewordHolds, PaymentHolds, DeliveryHolds, OrdstatReads, SlevReads

(* A statement of payment() keeps the invariant when it does what          *)
(* PaymentHolds says.                                                      *)
LEMMA PaymentStep ==
    ASSUME TypeOK, FootprintInv, NEW t \in Threads, OwnRowsOnly(t), OthersKeep(t),
           UnlockedIsCommitted', db' = db, SnapshotOf(t)' = SnapshotOf(t),
           pc'[t] \in WarehousePaid, PaymentHolds(t)'
    PROVE  FootprintInv'
  <1> USE DEF WarehousePaid, DistrictPaid, CustomerFound, CustomerRead, CustomerPaid
  <1>1. pc'[t] \notin FreeLabels
    BY DEF FreeLabels, OrdstatLabels, SlevLabels
  <1>2. NewordHolds(t)' /\ DeliveryHolds(t)' /\ OrdstatReads(t)' /\ SlevReads(t)'
    BY Apart DEF Numbered, Advanced, Inserted, Listed, DeliveryLabels
  <1>3. ConsistentDb(SnapshotOf(t)') /\ Earlier(SnapshotOf(t)', db')
    BY DEF FootprintInv, Footprint
  <1>4. Footprint(t)'
    BY <1>1, <1>2, <1>3 DEF Footprint
  <1>5. ConsistentDb(db') /\ Earlier(db, db')
    BY EarlierSame DEF FootprintInv
  <1> QED BY <1>4, <1>5, OwnStep

(* A statement of neword() keeps the invariant when it does what           *)
(* NewordHolds says.                                                       *)
LEMMA NewordStep ==
    ASSUME TypeOK, FootprintInv, NEW t \in Threads, OwnRowsOnly(t), OthersKeep(t),
           UnlockedIsCommitted', db' = db, SnapshotOf(t)' = SnapshotOf(t),
           pc'[t] \in Numbered, NewordHolds(t)'
    PROVE  FootprintInv'
  <1> USE DEF Numbered, Advanced, Inserted, Listed
  <1>1. pc'[t] \notin FreeLabels
    BY DEF FreeLabels, OrdstatLabels, SlevLabels
  <1>2. PaymentHolds(t)' /\ DeliveryHolds(t)' /\ OrdstatReads(t)' /\ SlevReads(t)'
    BY Apart DEF WarehousePaid, DistrictPaid, CustomerFound, CustomerRead, CustomerPaid,
         DeliveryLabels
  <1>3. ConsistentDb(SnapshotOf(t)') /\ Earlier(SnapshotOf(t)', db')
    BY DEF FootprintInv, Footprint
  <1>4. Footprint(t)'
    BY <1>1, <1>2, <1>3 DEF Footprint
  <1>5. ConsistentDb(db') /\ Earlier(db, db')
    BY EarlierSame DEF FootprintInv
  <1> QED BY <1>4, <1>5, OwnStep

(* A statement of delivery() keeps the invariant when it does what         *)
(* DeliveryHolds says.                                                     *)
LEMMA DeliveryStep ==
    ASSUME TypeOK, FootprintInv, NEW t \in Threads, OwnRowsOnly(t), OthersKeep(t),
           UnlockedIsCommitted', db' = db, SnapshotOf(t)' = SnapshotOf(t),
           pc'[t] \in DeliveryLabels \ {"delivery1"},
           pc'[t] = "delivery2" => Held(t)' = {}, DeliveryHolds(t)'
    PROVE  FootprintInv'
  <1> USE DEF DeliveryLabels
  <1>1. pc'[t] \in FreeLabels => Held(t)' = {}
    BY DEF FreeLabels, OrdstatLabels, SlevLabels
  <1>2. NewordHolds(t)' /\ PaymentHolds(t)' /\ OrdstatReads(t)' /\ SlevReads(t)'
    BY Apart DEF WarehousePaid, DistrictPaid, CustomerFound, CustomerRead, CustomerPaid,
         Numbered, Advanced, Inserted, Listed
  <1>3. ConsistentDb(SnapshotOf(t)') /\ Earlier(SnapshotOf(t)', db')
    BY DEF FootprintInv, Footprint
  <1>4. Footprint(t)'
    BY <1>1, <1>2, <1>3 DEF Footprint
  <1>5. ConsistentDb(db') /\ Earlier(db, db')
    BY EarlierSame DEF FootprintInv
  <1> QED BY <1>4, <1>5, OwnStep

(* A statement of ordstat() or slev() keeps the invariant when what it     *)
(* read is so.                                                             *)
LEMMA ReadStep ==
    ASSUME TypeOK, FootprintInv, NEW t \in Threads, OwnRowsOnly(t), OthersKeep(t),
           UnlockedIsCommitted', db' = db, SnapshotOf(t)' = SnapshotOf(t),
           pc'[t] \in OrdstatLabels \cup SlevLabels, Held(t)' = {},
           OrdstatReads(t)', SlevReads(t)'
    PROVE  FootprintInv'
  <1> USE DEF OrdstatLabels, SlevLabels
  <1>1. NewordHolds(t)' /\ PaymentHolds(t)' /\ DeliveryHolds(t)'
    BY Apart DEF WarehousePaid, DistrictPaid, CustomerFound, CustomerRead, CustomerPaid,
         Numbered, Advanced, Inserted, Listed, DeliveryLabels
  <1>2. ConsistentDb(SnapshotOf(t)') /\ Earlier(SnapshotOf(t)', db')
    BY DEF FootprintInv, Footprint
  <1>3. Footprint(t)'
    BY <1>1, <1>2 DEF Footprint
  <1>4. ConsistentDb(db') /\ Earlier(db, db')
    BY EarlierSame DEF FootprintInv
  <1> QED BY <1>3, <1>4, OwnStep

----------------------------------------------------------------------------
(* payment() *)

(* The payment at its label, and the rows it names. *)
LEMMA PaymentHere ==
    ASSUME TypeOK, FootprintInv, NEW t \in Threads, pc[t] \in WarehousePaid
    PROVE  /\ PaymentAt(t, job[t].w, job[t].d, job[t].h_amount)
           /\ job[t].h_amount \in Int
           /\ pc[t] \in PaymentLabels
  <1>1. pc[t] \in PaymentLabels
    BY DEF PaymentLabels, WarehousePaid, DistrictPaid, CustomerFound, CustomerRead,
         CustomerPaid
  <1>2. job[t].h_amount \in Int
    BY <1>1, PaymentRowsExist, PaymentAmount
  <1> QED BY <1>1, <1>2 DEF FootprintInv, Footprint, PaymentHolds

(* UPDATE warehouse *)
LEMMA PaymentUpdateWarehouseKeeps ==
    ASSUME TypeOK, FootprintInv, NEW t \in Threads, PaymentUpdateWarehouse(t)
    PROVE  FootprintInv'
  <1> DEFINE W == Warehouse(job[t].w)
             v == [cur[W] EXCEPT !.w_ytd = @ + job[t].h_amount]
  <1>1. pc[t] = "payment1" /\ loc' = loc /\ Step(t, "payment1", "payment2") /\ Write(t, W, v)
    BY DEF PaymentUpdateWarehouse, Step
  <1>2. W \in Rows
    BY <1>1, PaymentRowsExist DEF PaymentLabels
  <1> HIDE DEF W, v
  <1>3. /\ OwnRowsOnly(t) /\ OthersKeep(t) /\ UnlockedIsCommitted' /\ db' = db
        /\ \A q \in Rows : /\ lock'[q] = IF q = W THEN t ELSE lock[q]
                           /\ cur'[q] = IF q = W THEN v ELSE cur[q]
        /\ lock[W] # t => cur[W] = db[W]
        /\ SnapshotOf(t)' = SnapshotOf(t)
        /\ pc'[t] = "payment2" /\ job'[t] = job[t]
    BY <1>1, <1>2, WriteStep
  <1>4. \A r \in Rows : lock[r] # t
    BY <1>1 DEF FootprintInv, Footprint, FreeLabels, Held
  <1>5. v = [db[W] EXCEPT !.w_ytd = @ + job[t].h_amount]
    BY <1>2, <1>3, <1>4 DEF v
  <1>6. /\ \A r \in Rows : lock'[r] = t => r = W
        /\ lock'[W] = t /\ cur'[W] = [db'[W] EXCEPT !.w_ytd = @ + job'[t].h_amount]
    BY <1>2, <1>3, <1>4, <1>5
  <1>7. PaymentHolds(t)'
    BY <1>3, <1>6 DEF W, PaymentHolds, PaymentAt, DistrictPaid, CustomerFound, CustomerRead,
         CustomerPaid
  <1> QED BY <1>3, <1>7, PaymentStep DEF WarehousePaid

(* SELECT ... FROM warehouse *)
LEMMA PaymentSelectWarehouseKeeps ==
    ASSUME TypeOK, FootprintInv, NEW t \in Threads, PaymentSelectWarehouse(t)
    PROVE  FootprintInv'
  <1>1. /\ OwnRowsOnly(t) /\ OthersKeep(t) /\ UnlockedIsCommitted'
        /\ db' = db /\ cur' = cur /\ lock' = lock
        /\ SnapshotOf(t)' = SnapshotOf(t)
        /\ pc[t] = "payment2" /\ pc'[t] = "payment3" /\ job'[t] = job[t] /\ loc' = loc
    BY SelectStep DEF PaymentSelectWarehouse
  <1>2. PaymentAt(t, job[t].w, job[t].d, job[t].h_amount)
    BY <1>1, PaymentHere DEF WarehousePaid
  <1>3. PaymentHolds(t)'
    BY <1>1, <1>2 DEF PaymentHolds, PaymentAt, DistrictPaid, CustomerFound, CustomerRead,
         CustomerPaid
  <1> QED BY <1>1, <1>3, PaymentStep DEF WarehousePaid

(* UPDATE district *)
LEMMA PaymentUpdateDistrictKeeps ==
    ASSUME TypeOK, FootprintInv, NEW t \in Threads, PaymentUpdateDistrict(t)
    PROVE  FootprintInv'
  <1> DEFINE W == Warehouse(job[t].w)
             D == District(job[t].w, job[t].d)
             v == [cur[D] EXCEPT !.d_ytd = @ + job[t].h_amount]
  <1>1. pc[t] = "payment3" /\ loc' = loc /\ Step(t, "payment3", "payment4") /\ Write(t, D, v)
    BY DEF PaymentUpdateDistrict, Step
  <1>2. W \in Rows /\ D \in Rows /\ W # D
    BY <1>1, PaymentRowsExist, Tables DEF PaymentLabels
  <1>3. PaymentAt(t, job[t].w, job[t].d, job[t].h_amount)
    BY <1>1, PaymentHere DEF WarehousePaid
  <1>4. /\ \A r \in Rows : lock[r] = t => r = W
        /\ lock[W] = t /\ cur[W] = [db[W] EXCEPT !.w_ytd = @ + job[t].h_amount]
    BY <1>1, <1>3 DEF PaymentAt, DistrictPaid, CustomerFound, CustomerRead, CustomerPaid
  <1> HIDE DEF W, D, v
  <1>5. /\ OwnRowsOnly(t) /\ OthersKeep(t) /\ UnlockedIsCommitted' /\ db' = db
        /\ \A q \in Rows : /\ lock'[q] = IF q = D THEN t ELSE lock[q]
                           /\ cur'[q] = IF q = D THEN v ELSE cur[q]
        /\ lock[D] # t => cur[D] = db[D]
        /\ SnapshotOf(t)' = SnapshotOf(t)
        /\ pc'[t] = "payment4" /\ job'[t] = job[t]
    BY <1>1, <1>2, WriteStep
  <1>6. v = [db[D] EXCEPT !.d_ytd = @ + job[t].h_amount]
    BY <1>2, <1>4, <1>5 DEF v
  <1>7. /\ \A r \in Rows : lock'[r] = t => r = W \/ r = D
        /\ lock'[W] = t /\ cur'[W] = [db'[W] EXCEPT !.w_ytd = @ + job'[t].h_amount]
        /\ lock'[D] = t /\ cur'[D] = [db'[D] EXCEPT !.d_ytd = @ + job'[t].h_amount]
    BY <1>2, <1>4, <1>5, <1>6
  <1>8. PaymentHolds(t)'
    BY <1>5, <1>7 DEF W, D, PaymentHolds, PaymentAt, DistrictPaid, CustomerFound,
         CustomerRead, CustomerPaid
  <1> QED BY <1>5, <1>8, PaymentStep DEF WarehousePaid, DistrictPaid

(* SELECT ... FROM district, and the choice of the customer. *)
LEMMA PaymentSelectDistrictKeeps ==
    ASSUME TypeOK, FootprintInv, NEW t \in Threads, PaymentSelectDistrict(t)
    PROVE  FootprintInv'
  <1>1. PICK c \in Payers(job[t]) : loc' = [loc EXCEPT ![t].c = c]
    BY DEF PaymentSelectDistrict, Payers
  <1>2. loc'[t].c = c /\ \A u \in Threads \ {t} : loc'[u] = loc[u]
    BY <1>1 DEF TypeOK, LocalsTypeOK, LocalsType, NoLocals
  <1>3. /\ OwnRowsOnly(t) /\ OthersKeep(t) /\ UnlockedIsCommitted'
        /\ db' = db /\ cur' = cur /\ lock' = lock
        /\ SnapshotOf(t)' = SnapshotOf(t)
        /\ pc[t] = "payment4" /\ pc'[t] = "payment6" /\ job'[t] = job[t]
    BY <1>2, SelectStep DEF PaymentSelectDistrict
  <1>4. PaymentAt(t, job[t].w, job[t].d, job[t].h_amount)
    BY <1>3, PaymentHere DEF WarehousePaid, DistrictPaid
  <1>5. loc'[t].c \in Payers(job'[t])
    BY <1>2, <1>3
  <1>6. PaymentHolds(t)'
    BY <1>3, <1>4, <1>5 DEF PaymentHolds, PaymentAt, DistrictPaid, CustomerFound,
         CustomerRead, CustomerPaid, Payers
  <1> QED BY <1>3, <1>6, PaymentStep DEF WarehousePaid, DistrictPaid, CustomerFound

(* The rows of one payment are different. *)
LEMMA PaymentRowsDiffer ==
    ASSUME NEW t
    PROVE  /\ PayingCustomer(t) # Warehouse(job[t].w)
           /\ PayingCustomer(t) # District(job[t].w, job[t].d)
           /\ PayingHistory(t) # Warehouse(job[t].w)
           /\ PayingHistory(t) # District(job[t].w, job[t].d)
           /\ PayingHistory(t) # PayingCustomer(t)
           /\ Warehouse(job[t].w) # District(job[t].w, job[t].d)
  BY DEF PayingCustomer, PayingHistory, Warehouse, District, Customer, History

(* SELECT c_balance, ... FROM customer ... FOR UPDATE *)
LEMMA PaymentSelectCustomerKeeps ==
    ASSUME TypeOK, FootprintInv, NEW t \in Threads, PaymentSelectCustomer(t)
    PROVE  FootprintInv'
  <1> DEFINE C == PayingCustomer(t)
             to == IF loc[t].c \in BadCredit THEN "payment7" ELSE "payment9"
             h == job[t].h_amount
  <1>1. /\ pc[t] = "payment6" /\ Step(t, "payment6", to) /\ SelectForUpdate(t, C)
        /\ loc' = [loc EXCEPT ![t].amt = cur[C].c_balance + h]
    BY DEF PaymentSelectCustomer, Step
  <1>2. C \in Rows
    BY <1>1, PaymentRowsExist DEF PaymentLabels, CustomerFound
  <1>3. PaymentAt(t, job[t].w, job[t].d, h)
    BY <1>1, PaymentHere DEF WarehousePaid, DistrictPaid, CustomerFound
  <1>4. /\ \A r \in Rows : lock[r] = t => r = Warehouse(job[t].w) \/ r = District(job[t].w, job[t].d)
        /\ lock[C] # t
    BY <1>1, <1>2, <1>3, PaymentRowsDiffer DEF PaymentAt, CustomerRead, CustomerPaid
  <1>5. /\ loc'[t].amt = cur[C].c_balance + h /\ loc'[t].c = loc[t].c
        /\ \A u \in Threads \ {t} : loc'[u] = loc[u]
    BY <1>1 DEF TypeOK, LocalsTypeOK, LocalsType, NoLocals
  <1>6. to \in {"payment7", "payment9"}
    OBVIOUS
  <1> HIDE DEF C, to, h
  <1>7. /\ OwnRowsOnly(t) /\ OthersKeep(t) /\ UnlockedIsCommitted'
        /\ db' = db /\ cur' = cur
        /\ \A q \in Rows : lock'[q] = IF q = C THEN t ELSE lock[q]
        /\ lock[C] # t => cur[C] = db[C]
        /\ SnapshotOf(t)' = SnapshotOf(t)
        /\ pc'[t] = to /\ job'[t] = job[t]
    BY <1>1, <1>2, <1>5, ForUpdateStep
  <1>8. PayingCustomer(t)' = C /\ PayingHistory(t)' = PayingHistory(t)
    BY <1>5, <1>7 DEF C, PayingCustomer, PayingHistory
  <1>9. /\ \A r \in Rows : lock'[r] = t =>
             r = Warehouse(job[t].w) \/ r = District(job[t].w, job[t].d) \/ r = C
        /\ lock'[C] = t /\ cur'[C] = db'[C] /\ loc'[t].amt = db'[C].c_balance + h
    BY <1>2, <1>4, <1>5, <1>7
  <1>10. /\ lock'[Warehouse(job[t].w)] = t /\ lock'[District(job[t].w, job[t].d)] = t
    <2>1. Warehouse(job[t].w) \in Rows /\ District(job[t].w, job[t].d) \in Rows
      BY <1>1, PaymentRowsExist DEF PaymentLabels
    <2> QED BY <1>1, <1>3, <1>7, <2>1 DEF PaymentAt, DistrictPaid, CustomerFound
  <1>11. /\ cur'[Warehouse(job[t].w)] = [db'[Warehouse(job[t].w)] EXCEPT !.w_ytd = @ + h]
         /\ cur'[District(job[t].w, job[t].d)] =
              [db'[District(job[t].w, job[t].d)] EXCEPT !.d_ytd = @ + h]
         /\ loc'[t].c \in Payers(job'[t])
    BY <1>1, <1>3, <1>5, <1>7 DEF PaymentAt, DistrictPaid, CustomerFound
  <1>12. pc'[t] \in CustomerRead /\ pc'[t] \notin CustomerPaid /\ pc'[t] # "payment8"
         /\ pc'[t] # "payment_commit"
    BY <1>6, <1>7 DEF CustomerRead, CustomerPaid
  <1>13. PaymentHolds(t)'
    <2>1. PaymentAt(t, job[t].w, job[t].d, h)'
      BY <1>7, <1>8, <1>9, <1>10, <1>11, <1>12 DEF PaymentAt, h, DistrictPaid, CustomerFound
    <2> QED BY <1>7, <2>1 DEF PaymentHolds, h
  <1> QED BY <1>7, <1>12, <1>13, PaymentStep DEF WarehousePaid, DistrictPaid, CustomerFound

(* SELECT c_data FROM customer *)
LEMMA PaymentSelectDataKeeps ==
    ASSUME TypeOK, FootprintInv, NEW t \in Threads, PaymentSelectData(t)
    PROVE  FootprintInv'
  <1> DEFINE C == PayingCustomer(t)
  <1>1. /\ pc[t] = "payment7" /\ loc' = [loc EXCEPT ![t].data = View(t)[C].c_data]
    BY DEF PaymentSelectData, Step
  <1>2. /\ loc'[t].data = View(t)[C].c_data
        /\ loc'[t].amt = loc[t].amt /\ loc'[t].c = loc[t].c
        /\ \A u \in Threads \ {t} : loc'[u] = loc[u]
    BY <1>1 DEF TypeOK, LocalsTypeOK, LocalsType, NoLocals
  <1>3. /\ OwnRowsOnly(t) /\ OthersKeep(t) /\ UnlockedIsCommitted'
        /\ db' = db /\ cur' = cur /\ lock' = lock
        /\ SnapshotOf(t)' = SnapshotOf(t)
        /\ pc'[t] = "payment8" /\ job'[t] = job[t]
    BY <1>2, SelectStep DEF PaymentSelectData
  <1>4. PaymentAt(t, job[t].w, job[t].d, job[t].h_amount)
    BY <1>1, PaymentHere DEF WarehousePaid, DistrictPaid, CustomerFound, CustomerRead
  <1>5. loc'[t].data = 0
    <2>1. C \in Rows /\ job[t].c_w \in Warehouses /\ job[t].c_d \in Districts
          /\ loc[t].c \in Customers
      BY <1>1, PaymentRowsExist DEF PaymentLabels, CustomerFound, CustomerRead
    <2>2. cur[C] = db[C]
      BY <1>1, <1>4 DEF PaymentAt, CustomerRead
    <2>3. View(t)[C] = SnapshotOf(t)[C]
      BY <2>1, <2>2, ViewIs
    <2>4. RowsSound(SnapshotOf(t))
      BY DEF FootprintInv, Footprint, ConsistentDb
    <2>5. SnapshotOf(t)[C].c_data = 0
      BY <2>1, <2>4 DEF RowsSound, PayingCustomer
    <2> QED BY <1>2, <2>3, <2>5
  <1>6. PayingCustomer(t)' = PayingCustomer(t) /\ PayingHistory(t)' = PayingHistory(t)
    BY <1>2, <1>3 DEF PayingCustomer, PayingHistory
  <1>7. PaymentHolds(t)'
    <2>1. PaymentAt(t, job[t].w, job[t].d, job[t].h_amount)'
      BY <1>1, <1>2, <1>3, <1>4, <1>5, <1>6
         DEF PaymentAt, DistrictPaid, CustomerFound, CustomerRead, CustomerPaid
    <2> QED BY <1>3, <2>1 DEF PaymentHolds
  <1> QED BY <1>3, <1>7, PaymentStep
          DEF WarehousePaid, DistrictPaid, CustomerFound, CustomerRead

(* The balance is written, from either label. *)
LEMMA PaymentWritesBalance ==
    ASSUME TypeOK, FootprintInv, NEW t \in Threads, NEW from \in {"payment8", "payment9"},
           Step(t, from, "payment10"), loc' = loc, NEW v,
           v = [db[PayingCustomer(t)] EXCEPT !.c_balance = @ + job[t].h_amount],
           Write(t, PayingCustomer(t), v)
    PROVE  FootprintInv'
  <1> DEFINE C == PayingCustomer(t)
             W == Warehouse(job[t].w)
             D == District(job[t].w, job[t].d)
  <1>1. pc[t] = from
    BY DEF Step
  <1>2. C \in Rows /\ W \in Rows /\ D \in Rows /\ C # W /\ C # D
    BY <1>1, PaymentRowsExist, PaymentRowsDiffer
       DEF PaymentLabels, CustomerFound, CustomerRead
  <1>3. PaymentAt(t, job[t].w, job[t].d, job[t].h_amount)
    BY <1>1, PaymentHere DEF WarehousePaid, DistrictPaid, CustomerFound, CustomerRead
  <1>4. /\ \A r \in Rows : lock[r] = t => r = W \/ r = D \/ r = C
        /\ lock[W] = t /\ lock[D] = t
        /\ cur[W] = [db[W] EXCEPT !.w_ytd = @ + job[t].h_amount]
        /\ cur[D] = [db[D] EXCEPT !.d_ytd = @ + job[t].h_amount]
        /\ loc[t].c \in Payers(job[t])
    BY <1>1, <1>3 DEF PaymentAt, DistrictPaid, CustomerFound, CustomerRead, CustomerPaid
  <1>5. v = [db[C] EXCEPT !.c_balance = @ + job[t].h_amount] /\ Write(t, C, v)
    OBVIOUS
  <1>6. PayingCustomer(t) = C
    OBVIOUS
  <1> HIDE DEF C, W, D
  <1>7. /\ OwnRowsOnly(t) /\ OthersKeep(t) /\ UnlockedIsCommitted' /\ db' = db
        /\ \A q \in Rows : /\ lock'[q] = IF q = C THEN t ELSE lock[q]
                           /\ cur'[q] = IF q = C THEN v ELSE cur[q]
        /\ SnapshotOf(t)' = SnapshotOf(t)
        /\ pc'[t] = "payment10" /\ job'[t] = job[t]
    BY <1>2, <1>5, WriteStep
  <1>8. PayingCustomer(t)' = C
    BY <1>6, <1>7 DEF PayingCustomer
  <1>9. /\ \A r \in Rows : lock'[r] = t => r = W \/ r = D \/ r = C
        /\ lock'[W] = t /\ lock'[D] = t /\ lock'[C] = t
        /\ cur'[W] = [db'[W] EXCEPT !.w_ytd = @ + job'[t].h_amount]
        /\ cur'[D] = [db'[D] EXCEPT !.d_ytd = @ + job'[t].h_amount]
        /\ cur'[C] = [db'[C] EXCEPT !.c_balance = @ + job'[t].h_amount]
        /\ loc'[t].c \in Payers(job'[t])
    BY <1>2, <1>4, <1>5, <1>7
  <1>10. PaymentHolds(t)'
    BY <1>7, <1>8, <1>9 DEF W, D, PaymentHolds, PaymentAt, DistrictPaid, CustomerFound,
         CustomerRead, CustomerPaid
  <1> QED BY <1>7, <1>10, PaymentStep
          DEF WarehousePaid, DistrictPaid, CustomerFound, CustomerPaid

(* UPDATE customer SET c_balance, c_data: what it sets c_data to is what   *)
(* it was.                                                                 *)
LEMMA PaymentUpdateBadCreditKeeps ==
    ASSUME TypeOK, FootprintInv, NEW t \in Threads, PaymentUpdateBadCredit(t)
    PROVE  FootprintInv'
  <1> DEFINE C == PayingCustomer(t)
             v == [cur[C] EXCEPT !.c_balance = loc[t].amt, !.c_data = loc[t].data]
  <1>1. /\ pc[t] = "payment8" /\ Step(t, "payment8", "payment10") /\ loc' = loc
        /\ Write(t, C, v)
    BY DEF PaymentUpdateBadCredit, Step
  <1>2. job[t].c_w \in Warehouses /\ job[t].c_d \in Districts /\ loc[t].c \in Customers
    BY <1>1, PaymentRowsExist DEF PaymentLabels, CustomerFound, CustomerRead
  <1>3. PaymentAt(t, job[t].w, job[t].d, job[t].h_amount)
    BY <1>1, PaymentHere DEF WarehousePaid, DistrictPaid, CustomerFound, CustomerRead
  <1>4. cur[C] = db[C] /\ loc[t].amt = db[C].c_balance + job[t].h_amount /\ loc[t].data = 0
    BY <1>1, <1>3 DEF PaymentAt, CustomerRead
  <1>5. /\ StoreType(db) /\ RowsSound(db)
    BY DEF FootprintInv, ConsistentDb
  <1>6. /\ DOMAIN db[C] = {"c_balance", "c_delivery_cnt", "c_data"} /\ db[C].c_data = 0
    BY <1>2, <1>5, StoredRows DEF RowsSound, PayingCustomer
  <1>7. v = [db[C] EXCEPT !.c_balance = @ + job[t].h_amount]
    BY <1>4, <1>6 DEF v
  <1> QED BY <1>1, <1>7, PaymentWritesBalance

(* UPDATE customer SET c_balance *)
LEMMA PaymentUpdateCustomerKeeps ==
    ASSUME TypeOK, FootprintInv, NEW t \in Threads, PaymentUpdateCustomer(t)
    PROVE  FootprintInv'
  <1> DEFINE C == PayingCustomer(t)
             v == [cur[C] EXCEPT !.c_balance = loc[t].amt]
  <1>1. /\ pc[t] = "payment9" /\ Step(t, "payment9", "payment10") /\ loc' = loc
        /\ Write(t, C, v)
    BY DEF PaymentUpdateCustomer, Step
  <1>2. PaymentAt(t, job[t].w, job[t].d, job[t].h_amount)
    BY <1>1, PaymentHere DEF WarehousePaid, DistrictPaid, CustomerFound, CustomerRead
  <1>3. cur[C] = db[C] /\ loc[t].amt = db[C].c_balance + job[t].h_amount
    BY <1>1, <1>2 DEF PaymentAt, CustomerRead
  <1>4. v = [db[C] EXCEPT !.c_balance = @ + job[t].h_amount]
    <2>1. job[t].c_w \in Warehouses /\ job[t].c_d \in Districts /\ loc[t].c \in Customers
      BY <1>1, PaymentRowsExist DEF PaymentLabels, CustomerFound, CustomerRead
    <2>2. StoreType(db)
      BY DEF FootprintInv, ConsistentDb
    <2>3. DOMAIN db[C] = {"c_balance", "c_delivery_cnt", "c_data"}
      BY <2>1, <2>2, StoredRows DEF PayingCustomer
    <2> QED BY <1>3, <2>3 DEF v
  <1> QED BY <1>1, <1>4, PaymentWritesBalance

(* INSERT INTO history *)
LEMMA PaymentInsertHistoryKeeps ==
    ASSUME TypeOK, FootprintInv, NEW t \in Threads, PaymentInsertHistory(t)
    PROVE  FootprintInv'
  <1> DEFINE C == PayingCustomer(t)
             W == Warehouse(job[t].w)
             D == District(job[t].w, job[t].d)
             H == PayingHistory(t)
             e == [h_w_id |-> job[t].w, h_d_id |-> job[t].d, h_amount |-> job[t].h_amount]
             v == Append(cur[H], e)
  <1>1. /\ pc[t] = "payment10" /\ Step(t, "payment10", "payment_commit") /\ loc' = loc
        /\ Write(t, H, v)
    BY DEF PaymentInsertHistory, PayingHistory, Step
  <1>2. /\ C \in Rows /\ W \in Rows /\ D \in Rows /\ H \in Rows
        /\ H # W /\ H # D /\ H # C
    BY <1>1, PaymentRowsExist, PaymentRowsDiffer
       DEF PaymentLabels, CustomerFound, CustomerPaid
  <1>3. PaymentAt(t, job[t].w, job[t].d, job[t].h_amount)
    BY <1>1, PaymentHere DEF WarehousePaid, DistrictPaid, CustomerFound, CustomerPaid
  <1>4. /\ \A r \in Rows : lock[r] = t => r = W \/ r = D \/ r = C
        /\ lock[W] = t /\ lock[D] = t /\ lock[C] = t
        /\ cur[W] = [db[W] EXCEPT !.w_ytd = @ + job[t].h_amount]
        /\ cur[D] = [db[D] EXCEPT !.d_ytd = @ + job[t].h_amount]
        /\ cur[C] = [db[C] EXCEPT !.c_balance = @ + job[t].h_amount]
        /\ loc[t].c \in Payers(job[t])
    BY <1>1, <1>3 DEF PaymentAt, DistrictPaid, CustomerFound, CustomerRead, CustomerPaid
  <1>5. PayingCustomer(t) = C /\ PayingHistory(t) = H
    OBVIOUS
  <1> HIDE DEF C, W, D, H, e, v
  <1>6. /\ OwnRowsOnly(t) /\ OthersKeep(t) /\ UnlockedIsCommitted' /\ db' = db
        /\ \A q \in Rows : /\ lock'[q] = IF q = H THEN t ELSE lock[q]
                           /\ cur'[q] = IF q = H THEN v ELSE cur[q]
        /\ lock[H] # t => cur[H] = db[H]
        /\ SnapshotOf(t)' = SnapshotOf(t)
        /\ pc'[t] = "payment_commit" /\ job'[t] = job[t]
    BY <1>1, <1>2, WriteStep
  <1>7. PayingCustomer(t)' = C /\ PayingHistory(t)' = H
    BY <1>1, <1>5, <1>6 DEF PayingCustomer, PayingHistory
  <1>8. v = Append(db[H], e)
    BY <1>2, <1>4, <1>6 DEF v
  <1>9. /\ \A r \in Rows : lock'[r] = t => r = W \/ r = D \/ r = C \/ r = H
        /\ lock'[W] = t /\ lock'[D] = t /\ lock'[C] = t /\ lock'[H] = t
        /\ cur'[W] = [db'[W] EXCEPT !.w_ytd = @ + job'[t].h_amount]
        /\ cur'[D] = [db'[D] EXCEPT !.d_ytd = @ + job'[t].h_amount]
        /\ cur'[C] = [db'[C] EXCEPT !.c_balance = @ + job'[t].h_amount]
        /\ cur'[H] = Append(db'[H], e)
        /\ loc'[t].c \in Payers(job'[t])
    BY <1>1, <1>2, <1>4, <1>6, <1>8
  <1>10. PaymentHolds(t)'
    BY <1>6, <1>7, <1>9 DEF W, D, e, PaymentHolds, PaymentAt, DistrictPaid, CustomerFound,
         CustomerRead, CustomerPaid
  <1> QED BY <1>6, <1>10, PaymentStep
          DEF WarehousePaid, DistrictPaid, CustomerFound, CustomerPaid

(* What a payment commits is TpccEffects' payment by a customer it may     *)
(* mean.                                                                   *)
LEMMA PaymentCommits ==
    ASSUME TypeOK, FootprintInv, NEW t \in Threads, PaymentCommit(t)
    PROVE  /\ job[t] \in PaymentJobs
           /\ loc[t].c \in Customers /\ loc[t].c \in Payers(job[t])
           /\ db' = Paying(db, job[t], loc[t].c)
  <1> DEFINE C == PayingCustomer(t)
             W == Warehouse(job[t].w)
             D == District(job[t].w, job[t].d)
             H == PayingHistory(t)
             e == [h_w_id |-> job[t].w, h_d_id |-> job[t].d, h_amount |-> job[t].h_amount]
             P == Paying(db, job[t], loc[t].c)
             V(r) == IF r = W THEN [db[W] EXCEPT !.w_ytd = @ + job[t].h_amount]
                     ELSE IF r = D THEN [db[D] EXCEPT !.d_ytd = @ + job[t].h_amount]
                     ELSE IF r = C THEN [db[C] EXCEPT !.c_balance = @ + job[t].h_amount]
                     ELSE IF r = H THEN Append(db[H], e) ELSE db[r]
  <1>1. pc[t] = "payment_commit" /\ Commit(t)
    BY DEF PaymentCommit
  <1>2. /\ C \in Rows /\ W \in Rows /\ D \in Rows /\ H \in Rows
        /\ job[t] \in PaymentJobs /\ loc[t].c \in Customers
    BY <1>1, PaymentRowsExist DEF PaymentLabels, CustomerFound, CustomerPaid
  <1>3. W # D /\ W # C /\ W # H /\ D # C /\ D # H /\ C # H
    BY PaymentRowsDiffer
  <1>4. PaymentAt(t, job[t].w, job[t].d, job[t].h_amount)
    BY <1>1, PaymentHere DEF WarehousePaid, DistrictPaid, CustomerFound, CustomerPaid
  <1>5. /\ \A r \in Rows : lock[r] = t => r = W \/ r = D \/ r = C \/ r = H
        /\ lock[W] = t /\ lock[D] = t /\ lock[C] = t /\ lock[H] = t
        /\ cur[W] = [db[W] EXCEPT !.w_ytd = @ + job[t].h_amount]
        /\ cur[D] = [db[D] EXCEPT !.d_ytd = @ + job[t].h_amount]
        /\ cur[C] = [db[C] EXCEPT !.c_balance = @ + job[t].h_amount]
        /\ cur[H] = Append(db[H], e)
        /\ loc[t].c \in Payers(job[t])
    BY <1>1, <1>4 DEF PaymentAt, DistrictPaid, CustomerFound, CustomerRead, CustomerPaid
  <1>6. /\ db' = [r \in Rows |-> db'[r]]
        /\ \A r \in Rows : db'[r] = IF lock[r] = t THEN cur[r] ELSE db[r]
    BY <1>1 DEF Commit
  <1>7. DOMAIN db = Rows
    BY DEF TypeOK, StoreTypeOK, StoreType
  <1>8. P = [r \in Rows |-> P[r]] /\ \A r \in Rows : P[r] = V(r)
    <2>1. /\ W = Warehouse(job[t].w) /\ D = District(job[t].w, job[t].d)
          /\ C = Customer(job[t].c_w, job[t].c_d, loc[t].c)
          /\ H = History(job[t].c_w, job[t].c_d, loc[t].c)
      BY DEF PayingCustomer, PayingHistory
    <2> HIDE DEF W, D, C, H
    <2> QED BY <1>3, <1>7, <2>1 DEF Paying
  <1> HIDE DEF W, D, C, H, e, P
  <1>9. \A r \in Rows : db'[r] = V(r)
    BY <1>3, <1>5, <1>6
  <1>10. db' = P
    <2> HIDE DEF V
    <2> QED BY <1>6, <1>8, <1>9
  <1> QED BY <1>2, <1>5, <1>10 DEF P

(* COMMIT *)
LEMMA PaymentCommitKeeps ==
    ASSUME TypeOK, FootprintInv, NEW t \in Threads, PaymentCommit(t)
    PROVE  FootprintInv'
  <1>1. /\ job[t] \in PaymentJobs /\ loc[t].c \in Customers
        /\ db' = Paying(db, job[t], loc[t].c)
    BY PaymentCommits
  <1>2. ConsistentDb(db') /\ Earlier(db, db')
    BY <1>1, PayingConsistent DEF FootprintInv
  <1>3. Commit(t) /\ ControlKept(t) /\ pc'[t] \in RestLabels
    BY ReturnKeeps DEF PaymentCommit, RestLabels
  <1> QED BY <1>2, <1>3, CommitStep

(* No statement of payment() breaks the invariant. *)
LEMMA PaymentKeeps ==
    ASSUME TypeOK, FootprintInv, NEW t \in Threads, Payment(t)
    PROVE  FootprintInv'
  BY PaymentUpdateWarehouseKeeps, PaymentSelectWarehouseKeeps, PaymentUpdateDistrictKeeps,
     PaymentSelectDistrictKeeps, PaymentSelectCustomerKeeps, PaymentSelectDataKeeps,
     PaymentUpdateBadCreditKeeps, PaymentUpdateCustomerKeeps, PaymentInsertHistoryKeeps,
     PaymentCommitKeeps DEF Payment

----------------------------------------------------------------------------
(* delivery() *)

(* The rows of the order that the delivery of t is at, and of customer c.  *)
DeliveryNames(t, c, N, O, L, C) ==
    /\ N = NewOrders(job[t].w, loc[t].d, loc[t].o)
    /\ O = Orders(job[t].w, loc[t].d, loc[t].o)
    /\ L = OrderLine(job[t].w, loc[t].d, loc[t].o)
    /\ C = Customer(job[t].w, loc[t].d, c)

(* DeliveryAt, in terms of those rows. *)
DeliveryState(t, N, O, L, C) ==
    /\ \A r \in Rows : lock[r] = t =>
         \/ r = N /\ pc[t] \in Deleted
         \/ r = O /\ pc[t] \in Carried
         \/ r = L /\ pc[t] \in Stamped
         \/ r = C /\ pc[t] = "delivery_commit"
    /\ lock[N] = t => cur[N] = FALSE
    /\ pc[t] \in Deleted => (db[N] => lock[N] = t)
    /\ pc[t] \in Credited => loc[t].c = db[O].o_c_id
    /\ pc[t] \in Carried =>
         lock[O] = t /\ cur[O] = [db[O] EXCEPT !.o_carrier_id = 1]
    /\ pc[t] \in Stamped => lock[L] = t /\ cur[L] = db[L]
    /\ pc[t] \in Summed => loc[t].amt = OrderAmount(db[L])
    /\ pc[t] = "delivery_commit" =>
         /\ lock[C] = t
         /\ cur[C] = [db[C] EXCEPT !.c_balance = @ + loc[t].amt, !.c_delivery_cnt = @ + 1]

(* The rows of a delivery are rows, and different ones. *)
LEMMA DeliveryRowsDiffer ==
    ASSUME TypeOK, FootprintInv, NEW t \in Threads, pc[t] \in DeliveryLabels \ {"delivery1"},
           NEW c, NEW N, NEW O, NEW L, NEW C, DeliveryNames(t, c, N, O, L, C)
    PROVE  /\ N \in Rows /\ O \in Rows /\ L \in Rows
           /\ c = db[O].o_c_id => c \in Customers /\ C \in Rows
           /\ N # O /\ N # L /\ N # C /\ O # L /\ O # C /\ L # C
           /\ SnapshotOf(t)[O].o_c_id = db[O].o_c_id /\ SnapshotOf(t)[L] = db[L]
           /\ db[N] \in BOOLEAN
  <1>1. /\ N \in Rows /\ O \in Rows /\ L \in Rows
        /\ \A k \in Customers : Customer(job[t].w, loc[t].d, k) \in Rows
        /\ job[t].w \in Warehouses /\ loc[t].d \in Districts /\ loc[t].o \in OrderIds
    BY DeliveryRowsExist DEF DeliveryNames
  <1>2. N # O /\ N # L /\ N # C /\ O # L /\ O # C /\ L # C
    BY DEF DeliveryNames, NewOrders, Orders, OrderLine, Customer
  <1>3. /\ db[O].o_c_id \in Customers
        /\ SnapshotOf(t)[O].o_c_id = db[O].o_c_id /\ SnapshotOf(t)[L] = db[L]
    BY DeliveredExists DEF DeliveryNames
  <1>4. c = db[O].o_c_id => c \in Customers /\ C \in Rows
    BY <1>1, <1>3 DEF DeliveryNames
  <1>5. db[N] \in BOOLEAN
    <2>1. StoreType(db)
      BY DEF FootprintInv, ConsistentDb
    <2> QED BY <1>1, <2>1, StoredRows DEF DeliveryNames
  <1> QED BY <1>1, <1>2, <1>3, <1>4, <1>5

(* The delivery at its label. *)
LEMMA DeliveryHere ==
    ASSUME TypeOK, FootprintInv, NEW t \in Threads, pc[t] \in DeliveryLabels \ {"delivery1"},
           NEW N, NEW O, NEW L, NEW C, DeliveryNames(t, loc[t].c, N, O, L, C)
    PROVE  DeliveryState(t, N, O, L, C)
  <1>1. DeliveryAt(t, job[t].w, loc[t].d, loc[t].o)
    BY DEF FootprintInv, Footprint, DeliveryHolds
  <1> QED BY <1>1 DEF DeliveryAt, DeliveryState, DeliveryNames

(* What there is to show of a statement of delivery() that stays with its  *)
(* order.                                                                  *)
LEMMA DeliveryThere ==
    ASSUME TypeOK, FootprintInv, NEW t \in Threads, OwnRowsOnly(t), OthersKeep(t),
           UnlockedIsCommitted', db' = db, SnapshotOf(t)' = SnapshotOf(t),
           pc[t] \in DeliveryLabels \ {"delivery1"}, pc'[t] \in Deleted,
           job'[t] = job[t], loc'[t].d = loc[t].d, loc'[t].o = loc[t].o,
           NEW N, NEW O, NEW L, NEW C, DeliveryNames(t, loc'[t].c, N, O, L, C),
           DeliveryState(t, N, O, L, C)'
    PROVE  FootprintInv'
  <1>1. OrderExists(SnapshotOf(t), job[t].w, loc[t].d, loc[t].o)
    BY DeliveredExists
  <1>2. OrderExists(SnapshotOf(t)', job'[t].w, loc'[t].d, loc'[t].o)
    BY <1>1
  <1>3. DeliveryAt(t, job[t].w, loc[t].d, loc[t].o)'
    BY <1>2 DEF DeliveryAt, DeliveryState, OrderExists, DeliveryNames
  <1>4. DeliveryHolds(t)'
    BY <1>3 DEF DeliveryHolds
  <1>5. pc'[t] \in DeliveryLabels \ {"delivery1"} /\ pc'[t] # "delivery2"
    BY DEF Deleted, Credited, Carried, Stamped, Summed, DeliveryLabels
  <1> QED BY <1>4, <1>5, DeliveryStep

(* SELECT COALESCE(MIN(no_o_id),0) FROM new_orders *)
LEMMA DeliverySelectOldestKeeps ==
    ASSUME TypeOK, FootprintInv, NEW t \in Threads, DeliverySelectOldest(t)
    PROVE  FootprintInv'
  <1>1. PICK o \in Undelivered(View(t), job[t].w, loc[t].d) : loc' = [loc EXCEPT ![t].o = o]
    BY DEF DeliverySelectOldest
  <1>2. /\ loc'[t].o = o /\ loc'[t].d = loc[t].d
        /\ \A u \in Threads \ {t} : loc'[u] = loc[u]
    BY <1>1 DEF TypeOK, LocalsTypeOK, LocalsType, NoLocals
  <1>3. /\ OwnRowsOnly(t) /\ OthersKeep(t) /\ UnlockedIsCommitted'
        /\ db' = db /\ cur' = cur /\ lock' = lock /\ Held(t)' = Held(t)
        /\ SnapshotOf(t)' = SnapshotOf(t)
        /\ pc[t] = "delivery1" /\ pc'[t] = "delivery2" /\ job'[t] = job[t]
    BY <1>2, SelectStep DEF DeliverySelectOldest
  <1>4. Held(t) = {} /\ \A r \in Rows : lock[r] # t
    BY <1>3 DEF FootprintInv, Footprint, FreeLabels, Held
  <1>5. job[t].w \in Warehouses /\ loc[t].d \in Districts /\ o \in OrderIds
    <2>1. job[t] \in DeliveryJobs
      BY <1>3 DEF TypeOK, ControlTypeOK, JobOf, DeliveryLabels
    <2> QED BY <1>1, <2>1 DEF TypeOK, LocalsTypeOK, LocalsType, DeliveryJobs, Undelivered
  <1>6. OrderExists(SnapshotOf(t), job[t].w, loc[t].d, o)
    <2>1. View(t)[NewOrders(job[t].w, loc[t].d, o)]
      BY <1>1 DEF Undelivered
    <2>2. NewOrders(job[t].w, loc[t].d, o) \in Rows
      BY <1>5, RowNames
    <2>3. View(t)[NewOrders(job[t].w, loc[t].d, o)]
            = SnapshotOf(t)[NewOrders(job[t].w, loc[t].d, o)]
      BY <1>4, <2>2, ViewIs
    <2>4. NewOrdersAreUndelivered(SnapshotOf(t))
      BY DEF FootprintInv, Footprint, ConsistentDb, OrdersConsistent
    <2> QED BY <1>5, <2>1, <2>3, <2>4 DEF NewOrdersAreUndelivered
  <1>7. OrderExists(SnapshotOf(t)', job'[t].w, loc'[t].d, loc'[t].o)
    BY <1>2, <1>3, <1>6
  <1>8. \A r \in Rows : lock'[r] # t
    BY <1>3, <1>4
  <1>9. NewOrders(job[t].w, loc[t].d, o) \in Rows
    BY <1>5, RowNames
  <1>10. DeliveryHolds(t)'
    BY <1>2, <1>3, <1>7, <1>8, <1>9 DEF DeliveryHolds, DeliveryAt, OrderExists, Deleted,
         Credited, Carried, Stamped, Summed
  <1> QED BY <1>3, <1>4, <1>10, DeliveryStep DEF DeliveryLabels

(* No order to deliver. *)
LEMMA DeliverySkipDistrictKeeps ==
    ASSUME TypeOK, FootprintInv, NEW t \in Threads, DeliverySkipDistrict(t)
    PROVE  FootprintInv'
  <1>1. pc[t] = "delivery1" /\ Select(t) /\ ControlKept(t) /\ pc'[t] \in RestLabels
    BY NextDistrictKeeps DEF DeliverySkipDistrict, RestLabels
  <1>2. /\ db' = db /\ cur' = cur /\ lock' = lock
        /\ \A u \in Threads \ {t} : snap'[u] = snap[u]
        /\ SnapshotOf(t)' = SnapshotOf(t)
    BY <1>1 DEF Select, TypeOK, StoreTypeOK, SnapshotOf
  <1>3. /\ OwnRowsOnly(t) /\ OthersKeep(t) /\ UnlockedIsCommitted'
    BY <1>1, <1>2 DEF OwnRowsOnly, OthersKeep, ControlKept, FootprintInv, UnlockedIsCommitted
  <1>4. Held(t)' = {}
    BY <1>1, <1>2 DEF FootprintInv, Footprint, FreeLabels, Held
  <1>5. /\ ConsistentDb(SnapshotOf(t)') /\ Earlier(SnapshotOf(t)', db')
        /\ ConsistentDb(db') /\ Earlier(db, db')
    BY <1>2, EarlierSame DEF FootprintInv, Footprint
  <1>6. Footprint(t)'
    BY <1>1, <1>4, <1>5, RestFootprint
  <1> QED BY <1>2, <1>3, <1>5, <1>6, OwnStep

(* DELETE FROM new_orders *)
LEMMA DeliveryDeleteNewOrderKeeps ==
    ASSUME TypeOK, FootprintInv, NEW t \in Threads, DeliveryDeleteNewOrder(t)
    PROVE  FootprintInv'
  <1>0. PICK N, O, L, C : DeliveryNames(t, loc[t].c, N, O, L, C)
    BY DEF DeliveryNames
  <1>1. /\ pc[t] = "delivery2" /\ Step(t, "delivery2", "delivery3") /\ loc' = loc
        /\ Available(t, N)
        /\ IF cur[N] THEN Write(t, N, FALSE) ELSE NoRowMatches
    BY <1>0 DEF DeliveryDeleteNewOrder, DeliveryNames, Step
  <1>2. pc[t] \in DeliveryLabels \ {"delivery1"} /\ pc[t] \notin Deleted
    BY <1>1 DEF DeliveryLabels, Deleted, Credited, Carried, Stamped, Summed
  <1>5. /\ DeliveryNames(t, loc[t].c, N, O, L, C)
        /\ DeliveryNames(t, loc'[t].c, N, O, L, C)
    BY <1>0, <1>1 DEF DeliveryNames
  <1>3. /\ N \in Rows /\ \A r \in Rows : lock[r] # t
    <2>1. DeliveryState(t, N, O, L, C) /\ N \in Rows
      BY <1>2, <1>5, DeliveryHere, DeliveryRowsDiffer
    <2> QED BY <1>1, <2>1 DEF DeliveryState, Deleted, Credited, Carried, Stamped, Summed
  <1>4. cur[N] = db[N]
    BY <1>1, <1>3 DEF Available, FootprintInv, UnlockedIsCommitted
  <1>6. /\ OwnRowsOnly(t) /\ OthersKeep(t) /\ UnlockedIsCommitted' /\ db' = db
        /\ SnapshotOf(t)' = SnapshotOf(t) /\ pc'[t] = "delivery3" /\ job'[t] = job[t]
        /\ \A r \in Rows : lock'[r] = t => r = N
        /\ lock'[N] = t => cur'[N] = FALSE
        /\ db[N] => lock'[N] = t
    <2>1. CASE cur[N]
      <3>1. PICK v : v = FALSE /\ Write(t, N, v)
        BY <1>1, <2>1
      <3>2. /\ OwnRowsOnly(t) /\ OthersKeep(t) /\ UnlockedIsCommitted' /\ db' = db
            /\ \A q \in Rows : /\ lock'[q] = IF q = N THEN t ELSE lock[q]
                               /\ cur'[q] = IF q = N THEN v ELSE cur[q]
            /\ SnapshotOf(t)' = SnapshotOf(t) /\ pc'[t] = "delivery3" /\ job'[t] = job[t]
        BY <1>1, <1>3, <3>1, WriteStep
      <3> QED BY <1>3, <3>1, <3>2
    <2>2. CASE ~ cur[N]
      <3>1. db' = db /\ cur' = cur /\ lock' = lock /\ snap' = snap
        BY <1>1, <2>2 DEF NoRowMatches
      <3>2. ControlKept(t) /\ pc'[t] = "delivery3" /\ job'[t] = job[t]
        BY <1>1, StepKeeps
      <3>3. /\ OwnRowsOnly(t) /\ OthersKeep(t) /\ UnlockedIsCommitted'
            /\ SnapshotOf(t)' = SnapshotOf(t)
        BY <3>1, <3>2 DEF OwnRowsOnly, OthersKeep, ControlKept, FootprintInv,
             UnlockedIsCommitted, SnapshotOf
      <3> QED BY <1>3, <1>4, <2>2, <3>1, <3>2, <3>3
    <2> QED BY <2>1, <2>2
  <1>8. /\ pc'[t] \in Deleted /\ pc'[t] \notin Credited /\ pc'[t] \notin Carried
        /\ pc'[t] \notin Stamped /\ pc'[t] \notin Summed /\ pc'[t] # "delivery_commit"
    BY <1>6 DEF Deleted, Credited, Carried, Stamped, Summed
  <1>9. DeliveryState(t, N, O, L, C)'
    BY <1>6, <1>8 DEF DeliveryState
  <1> QED BY <1>1, <1>2, <1>5, <1>6, <1>8, <1>9, DeliveryThere

(* SELECT o_c_id FROM orders *)
LEMMA DeliverySelectCustomerKeeps ==
    ASSUME TypeOK, FootprintInv, NEW t \in Threads, DeliverySelectCustomer(t)
    PROVE  FootprintInv'
  <1>0. PICK N, O, L, C : DeliveryNames(t, loc[t].c, N, O, L, C)
    BY DEF DeliveryNames
  <1>b. PICK B : B = Customer(job[t].w, loc[t].d, loc'[t].c)
    OBVIOUS
  <1>1. pc[t] = "delivery3" /\ loc' = [loc EXCEPT ![t].c = View(t)[O].o_c_id]
    BY <1>0 DEF DeliverySelectCustomer, DeliveredOrder, DeliveryNames, Step
  <1>2. /\ loc'[t].c = View(t)[O].o_c_id /\ loc'[t].d = loc[t].d /\ loc'[t].o = loc[t].o
        /\ \A u \in Threads \ {t} : loc'[u] = loc[u]
    BY <1>1 DEF TypeOK, LocalsTypeOK, LocalsType, NoLocals
  <1>3. pc[t] \in DeliveryLabels \ {"delivery1"} /\ pc[t] \in Deleted
    BY <1>1 DEF DeliveryLabels, Deleted
  <1>6. /\ DeliveryNames(t, loc[t].c, N, O, L, C)
        /\ DeliveryNames(t, loc'[t].c, N, O, L, B)
    BY <1>0, <1>b DEF DeliveryNames
  <1>4. /\ O \in Rows /\ N # O /\ SnapshotOf(t)[O].o_c_id = db[O].o_c_id
        /\ \A r \in Rows : lock[r] = t => r = N
        /\ lock[N] = t => cur[N] = FALSE
        /\ db[N] => lock[N] = t
    <2>1. /\ DeliveryState(t, N, O, L, C) /\ O \in Rows /\ N # O
          /\ SnapshotOf(t)[O].o_c_id = db[O].o_c_id
      BY <1>3, <1>6, DeliveryHere, DeliveryRowsDiffer
    <2> QED BY <1>1, <2>1 DEF DeliveryState, Deleted, Credited, Carried, Stamped, Summed
  <1>5. loc'[t].c = db[O].o_c_id
    BY <1>2, <1>4, ViewIs
  <1>7. /\ OwnRowsOnly(t) /\ OthersKeep(t) /\ UnlockedIsCommitted'
        /\ db' = db /\ cur' = cur /\ lock' = lock
        /\ SnapshotOf(t)' = SnapshotOf(t)
        /\ pc'[t] = "delivery4" /\ job'[t] = job[t]
    BY <1>2, SelectStep DEF DeliverySelectCustomer
  <1>8. /\ pc'[t] \in Deleted /\ pc'[t] \notin Carried
        /\ pc'[t] \notin Stamped /\ pc'[t] \notin Summed /\ pc'[t] # "delivery_commit"
    BY <1>7 DEF Deleted, Credited, Carried, Stamped, Summed
  <1>9. DeliveryState(t, N, O, L, B)'
    BY <1>4, <1>5, <1>7, <1>8 DEF DeliveryState
  <1> QED BY <1>2, <1>3, <1>6, <1>7, <1>8, <1>9, DeliveryThere

(* UPDATE orders SET o_carrier_id *)
LEMMA DeliveryUpdateOrderKeeps ==
    ASSUME TypeOK, FootprintInv, NEW t \in Threads, DeliveryUpdateOrder(t)
    PROVE  FootprintInv'
  <1>0. PICK N, O, L, C : DeliveryNames(t, loc[t].c, N, O, L, C)
    BY DEF DeliveryNames
  <1>1. PICK v : /\ pc[t] = "delivery4" /\ Step(t, "delivery4", "delivery5") /\ loc' = loc
                 /\ v = [cur[O] EXCEPT !.o_carrier_id = 1] /\ Write(t, O, v)
    BY <1>0 DEF DeliveryUpdateOrder, DeliveredOrder, DeliveryNames, Step
  <1>2. pc[t] \in DeliveryLabels \ {"delivery1"}
    BY <1>1 DEF DeliveryLabels
  <1>3. /\ DeliveryState(t, N, O, L, C) /\ O \in Rows /\ N \in Rows /\ N # O
    BY <1>0, <1>2, DeliveryHere, DeliveryRowsDiffer
  <1>4. /\ \A r \in Rows : lock[r] = t => r = N
        /\ lock[N] = t => cur[N] = FALSE
        /\ db[N] => lock[N] = t
        /\ loc[t].c = db[O].o_c_id
    BY <1>1, <1>3 DEF DeliveryState, Deleted, Credited, Carried, Stamped, Summed
  <1>5. /\ OwnRowsOnly(t) /\ OthersKeep(t) /\ UnlockedIsCommitted' /\ db' = db
        /\ \A q \in Rows : /\ lock'[q] = IF q = O THEN t ELSE lock[q]
                           /\ cur'[q] = IF q = O THEN v ELSE cur[q]
        /\ lock[O] # t => cur[O] = db[O]
        /\ SnapshotOf(t)' = SnapshotOf(t)
        /\ pc'[t] = "delivery5" /\ job'[t] = job[t]
    BY <1>1, <1>3, WriteStep
  <1>6. v = [db[O] EXCEPT !.o_carrier_id = 1]
    BY <1>1, <1>3, <1>4, <1>5
  <1>7. /\ pc'[t] \in Carried /\ pc'[t] \in Deleted /\ pc'[t] \notin Stamped
        /\ pc'[t] \notin Summed /\ pc'[t] # "delivery_commit"
    BY <1>5 DEF Deleted, Credited, Carried, Stamped, Summed
  <1>8. DeliveryState(t, N, O, L, C)'
    BY <1>1, <1>3, <1>4, <1>5, <1>6, <1>7 DEF DeliveryState
  <1>9. DeliveryNames(t, loc'[t].c, N, O, L, C)
    BY <1>0, <1>1
  <1> QED BY <1>1, <1>2, <1>5, <1>7, <1>8, <1>9, DeliveryThere

(* UPDATE order_line SET ol_delivery_d *)
LEMMA DeliveryUpdateLinesKeeps ==
    ASSUME TypeOK, FootprintInv, NEW t \in Threads, DeliveryUpdateLines(t)
    PROVE  FootprintInv'
  <1>0. PICK N, O, L, C : DeliveryNames(t, loc[t].c, N, O, L, C)
    BY DEF DeliveryNames
  <1>1. PICK v : /\ pc[t] = "delivery5" /\ Step(t, "delivery5", "delivery6") /\ loc' = loc
                 /\ v = cur[L] /\ Write(t, L, v)
    BY <1>0 DEF DeliveryUpdateLines, DeliveryNames, Step
  <1>2. pc[t] \in DeliveryLabels \ {"delivery1"}
    BY <1>1 DEF DeliveryLabels
  <1>3. /\ DeliveryState(t, N, O, L, C) /\ O \in Rows /\ N \in Rows /\ L \in Rows
        /\ N # O /\ N # L /\ O # L
    BY <1>0, <1>2, DeliveryHere, DeliveryRowsDiffer
  <1>4. /\ \A r \in Rows : lock[r] = t => r = N \/ r = O
        /\ lock[N] = t => cur[N] = FALSE
        /\ db[N] => lock[N] = t
        /\ loc[t].c = db[O].o_c_id
        /\ lock[O] = t /\ cur[O] = [db[O] EXCEPT !.o_carrier_id = 1]
    BY <1>1, <1>3 DEF DeliveryState, Deleted, Credited, Carried, Stamped, Summed
  <1>5. /\ OwnRowsOnly(t) /\ OthersKeep(t) /\ UnlockedIsCommitted' /\ db' = db
        /\ \A q \in Rows : /\ lock'[q] = IF q = L THEN t ELSE lock[q]
                           /\ cur'[q] = IF q = L THEN v ELSE cur[q]
        /\ lock[L] # t => cur[L] = db[L]
        /\ SnapshotOf(t)' = SnapshotOf(t)
        /\ pc'[t] = "delivery6" /\ job'[t] = job[t]
    BY <1>1, <1>3, WriteStep
  <1>6. v = db[L]
    BY <1>1, <1>3, <1>4, <1>5
  <1>7. /\ pc'[t] \in Carried /\ pc'[t] \in Deleted /\ pc'[t] \in Stamped
        /\ pc'[t] \notin Summed /\ pc'[t] # "delivery_commit"
    BY <1>5 DEF Deleted, Credited, Carried, Stamped, Summed
  <1>8. DeliveryState(t, N, O, L, C)'
    BY <1>1, <1>3, <1>4, <1>5, <1>6, <1>7 DEF DeliveryState
  <1>9. DeliveryNames(t, loc'[t].c, N, O, L, C)
    BY <1>0, <1>1
  <1> QED BY <1>1, <1>2, <1>5, <1>7, <1>8, <1>9, DeliveryThere

(* SELECT SUM(ol_amount) FROM order_line *)
LEMMA DeliverySumLinesKeeps ==
    ASSUME TypeOK, FootprintInv, NEW t \in Threads, DeliverySumLines(t)
    PROVE  FootprintInv'
  <1>0. PICK N, O, L, C : DeliveryNames(t, loc[t].c, N, O, L, C)
    BY DEF DeliveryNames
  <1>1. pc[t] = "delivery6" /\ loc' = [loc EXCEPT ![t].amt = OrderAmount(View(t)[L])]
    BY <1>0 DEF DeliverySumLines, DeliveryNames, Step
  <1>2. /\ loc'[t].amt = OrderAmount(View(t)[L])
        /\ loc'[t].d = loc[t].d /\ loc'[t].o = loc[t].o /\ loc'[t].c = loc[t].c
        /\ \A u \in Threads \ {t} : loc'[u] = loc[u]
    BY <1>1 DEF TypeOK, LocalsTypeOK, LocalsType, NoLocals
  <1>3. pc[t] \in DeliveryLabels \ {"delivery1"}
    BY <1>1 DEF DeliveryLabels
  <1>4. /\ DeliveryState(t, N, O, L, C) /\ L \in Rows /\ SnapshotOf(t)[L] = db[L]
    BY <1>0, <1>3, DeliveryHere, DeliveryRowsDiffer
  <1>5. /\ \A r \in Rows : lock[r] = t => r = N \/ r = O \/ r = L
        /\ lock[N] = t => cur[N] = FALSE
        /\ db[N] => lock[N] = t
        /\ loc[t].c = db[O].o_c_id
        /\ lock[O] = t /\ cur[O] = [db[O] EXCEPT !.o_carrier_id = 1]
        /\ lock[L] = t /\ cur[L] = db[L]
    BY <1>1, <1>4 DEF DeliveryState, Deleted, Credited, Carried, Stamped, Summed
  <1>6. loc'[t].amt = OrderAmount(db[L])
    <2>1. View(t)[L] = db[L]
      BY <1>4, <1>5, ViewIs
    <2> QED BY <1>2, <2>1
  <1>7. /\ OwnRowsOnly(t) /\ OthersKeep(t) /\ UnlockedIsCommitted'
        /\ db' = db /\ cur' = cur /\ lock' = lock
        /\ SnapshotOf(t)' = SnapshotOf(t)
        /\ pc'[t] = "delivery7" /\ job'[t] = job[t]
    BY <1>2, SelectStep DEF DeliverySumLines
  <1>8. /\ pc'[t] \in Carried /\ pc'[t] \in Deleted /\ pc'[t] \in Stamped
        /\ pc'[t] # "delivery_commit"
    BY <1>7 DEF Deleted, Credited, Carried, Stamped, Summed
  <1>9. DeliveryState(t, N, O, L, C)'
    BY <1>2, <1>5, <1>6, <1>7, <1>8 DEF DeliveryState
  <1>10. DeliveryNames(t, loc'[t].c, N, O, L, C)
    BY <1>0, <1>2
  <1> QED BY <1>2, <1>3, <1>7, <1>8, <1>9, <1>10, DeliveryThere

(* UPDATE customer SET c_balance, c_delivery_cnt *)
LEMMA DeliveryUpdateCustomerKeeps ==
    ASSUME TypeOK, FootprintInv, NEW t \in Threads, DeliveryUpdateCustomer(t)
    PROVE  FootprintInv'
  <1>0. PICK N, O, L, C : DeliveryNames(t, loc[t].c, N, O, L, C)
    BY DEF DeliveryNames
  <1>1. PICK v : /\ pc[t] = "delivery7" /\ Step(t, "delivery7", "delivery_commit")
                 /\ loc' = loc
                 /\ v = [cur[C] EXCEPT !.c_balance = @ + loc[t].amt,
                                       !.c_delivery_cnt = @ + 1]
                 /\ Write(t, C, v)
    BY <1>0 DEF DeliveryUpdateCustomer, DeliveryNames, Step
  <1>2. pc[t] \in DeliveryLabels \ {"delivery1"}
    BY <1>1 DEF DeliveryLabels
  <1>3. /\ DeliveryState(t, N, O, L, C) /\ O \in Rows /\ N \in Rows /\ L \in Rows
        /\ loc[t].c = db[O].o_c_id => C \in Rows
        /\ N # C /\ O # C /\ L # C
    BY <1>0, <1>2, DeliveryHere, DeliveryRowsDiffer
  <1>4. /\ \A r \in Rows : lock[r] = t => r = N \/ r = O \/ r = L
        /\ lock[N] = t => cur[N] = FALSE
        /\ db[N] => lock[N] = t
        /\ loc[t].c = db[O].o_c_id
        /\ lock[O] = t /\ cur[O] = [db[O] EXCEPT !.o_carrier_id = 1]
        /\ lock[L] = t /\ cur[L] = db[L]
        /\ loc[t].amt = OrderAmount(db[L])
    BY <1>1, <1>3 DEF DeliveryState, Deleted, Credited, Carried, Stamped, Summed
  <1>5. /\ OwnRowsOnly(t) /\ OthersKeep(t) /\ UnlockedIsCommitted' /\ db' = db
        /\ \A q \in Rows : /\ lock'[q] = IF q = C THEN t ELSE lock[q]
                           /\ cur'[q] = IF q = C THEN v ELSE cur[q]
        /\ lock[C] # t => cur[C] = db[C]
        /\ SnapshotOf(t)' = SnapshotOf(t)
        /\ pc'[t] = "delivery_commit" /\ job'[t] = job[t]
    BY <1>1, <1>3, <1>4, WriteStep
  <1>6. v = [db[C] EXCEPT !.c_balance = @ + loc[t].amt, !.c_delivery_cnt = @ + 1]
    BY <1>1, <1>3, <1>4, <1>5
  <1>7. pc'[t] \in Deleted
    BY <1>5 DEF Deleted, Credited, Carried, Stamped, Summed
  <1>8. DeliveryState(t, N, O, L, C)'
    <2>1. /\ \A r \in Rows : lock'[r] = t => r = N \/ r = O \/ r = L \/ r = C
          /\ lock'[N] = t => cur'[N] = FALSE
          /\ db'[N] => lock'[N] = t
      BY <1>3, <1>4, <1>5
    <2>2. /\ loc'[t].c = db'[O].o_c_id
          /\ lock'[O] = t /\ cur'[O] = [db'[O] EXCEPT !.o_carrier_id = 1]
          /\ lock'[L] = t /\ cur'[L] = db'[L]
          /\ loc'[t].amt = OrderAmount(db'[L])
      BY <1>1, <1>3, <1>4, <1>5
    <2>3. cur'[C] = v /\ lock'[C] = t /\ loc'[t].amt = loc[t].amt /\ db' = db
      BY <1>1, <1>3, <1>4, <1>5
    <2>4. cur'[C] = [db'[C] EXCEPT !.c_balance = @ + loc'[t].amt, !.c_delivery_cnt = @ + 1]
      BY <1>6, <2>3
    <2> QED BY <1>5, <1>7, <2>1, <2>2, <2>3, <2>4 DEF DeliveryState, Carried, Stamped, Summed
  <1>9. DeliveryNames(t, loc'[t].c, N, O, L, C)
    BY <1>0, <1>1
  <1> QED BY <1>1, <1>2, <1>5, <1>7, <1>8, <1>9, DeliveryThere

(* What a delivery commits is TpccEffects' delivery of an order that       *)
(* exists.                                                                 *)
LEMMA DeliveryCommits ==
    ASSUME TypeOK, FootprintInv, NEW t \in Threads, DeliveryCommit(t)
    PROVE  /\ job[t].w \in Warehouses /\ loc[t].d \in Districts /\ loc[t].o \in OrderIds
           /\ OrderExists(db, job[t].w, loc[t].d, loc[t].o)
           /\ db' = Delivering(db, job[t].w, loc[t].d, loc[t].o)
  <1>0. PICK N, O, L, C : DeliveryNames(t, loc[t].c, N, O, L, C)
    BY DEF DeliveryNames
  <1> DEFINE P == Delivering(db, job[t].w, loc[t].d, loc[t].o)
             a == OrderAmount(db[L])
             V(r) == IF r = N THEN FALSE
                     ELSE IF r = O THEN [db[O] EXCEPT !.o_carrier_id = 1]
                     ELSE IF r = C THEN [db[C] EXCEPT !.c_balance = @ + a,
                                                      !.c_delivery_cnt = @ + 1]
                     ELSE db[r]
  <1>1. pc[t] = "delivery_commit" /\ Commit(t)
    BY DEF DeliveryCommit
  <1>2. pc[t] \in DeliveryLabels \ {"delivery1"}
    BY <1>1 DEF DeliveryLabels
  <1>3. /\ DeliveryState(t, N, O, L, C) /\ O \in Rows /\ N \in Rows /\ L \in Rows
        /\ loc[t].c = db[O].o_c_id => C \in Rows
        /\ N # O /\ N # L /\ N # C /\ O # L /\ O # C /\ L # C
        /\ db[N] \in BOOLEAN
    BY <1>0, <1>2, DeliveryHere, DeliveryRowsDiffer
  <1>4. /\ \A r \in Rows : lock[r] = t => r = N \/ r = O \/ r = L \/ r = C
        /\ lock[N] = t => cur[N] = FALSE
        /\ db[N] => lock[N] = t
        /\ loc[t].c = db[O].o_c_id
        /\ lock[O] = t /\ cur[O] = [db[O] EXCEPT !.o_carrier_id = 1]
        /\ lock[L] = t /\ cur[L] = db[L]
        /\ lock[C] = t
        /\ cur[C] = [db[C] EXCEPT !.c_balance = @ + a, !.c_delivery_cnt = @ + 1]
    BY <1>1, <1>3 DEF DeliveryState, Deleted, Credited, Carried, Stamped, Summed
  <1>5. /\ db' = [r \in Rows |-> db'[r]]
        /\ \A r \in Rows : db'[r] = IF lock[r] = t THEN cur[r] ELSE db[r]
    BY <1>1 DEF Commit
  <1>6. DOMAIN db = Rows
    BY DEF TypeOK, StoreTypeOK, StoreType
  <1>7. P = [r \in Rows |-> P[r]] /\ \A r \in Rows : P[r] = V(r)
    <2>1. /\ N = NewOrders(job[t].w, loc[t].d, loc[t].o)
          /\ O = Orders(job[t].w, loc[t].d, loc[t].o)
          /\ L = OrderLine(job[t].w, loc[t].d, loc[t].o)
          /\ C = Customer(job[t].w, loc[t].d, db[O].o_c_id)
      BY <1>0, <1>4 DEF DeliveryNames
    <2> HIDE DEF a
    <2>2. P = [db EXCEPT ![N] = FALSE, ![O].o_carrier_id = 1,
                         ![C].c_balance = @ + a, ![C].c_delivery_cnt = @ + 1]
      BY <2>1 DEF Delivering, a
    <2> HIDE DEF P
    <2> QED BY <1>3, <1>4, <1>6, <2>2
  <1> HIDE DEF P, a
  <1>8. \A r \in Rows : db'[r] = V(r)
    <2>1. db'[N] = FALSE
      BY <1>3, <1>4, <1>5
    <2> QED BY <1>3, <1>4, <1>5, <2>1
  <1>9. db' = P
    <2> HIDE DEF V
    <2> QED BY <1>5, <1>7, <1>8
  <1> QED BY <1>2, <1>9, DeliveryRowsExist, DeliveredExists DEF P

(* Each district's COMMIT *)
LEMMA DeliveryCommitKeeps ==
    ASSUME TypeOK, FootprintInv, NEW t \in Threads, DeliveryCommit(t)
    PROVE  FootprintInv'
  <1>1. /\ job[t].w \in Warehouses /\ loc[t].d \in Districts /\ loc[t].o \in OrderIds
        /\ OrderExists(db, job[t].w, loc[t].d, loc[t].o)
        /\ db' = Delivering(db, job[t].w, loc[t].d, loc[t].o)
    BY DeliveryCommits
  <1>2. ConsistentDb(db') /\ Earlier(db, db')
    BY <1>1, DeliveringConsistent DEF FootprintInv
  <1>3. Commit(t) /\ ControlKept(t) /\ pc'[t] \in RestLabels
    BY NextDistrictKeeps DEF DeliveryCommit, RestLabels
  <1> QED BY <1>2, <1>3, CommitStep

(* No statement of delivery() breaks the invariant. *)
LEMMA DeliveryKeeps ==
    ASSUME TypeOK, FootprintInv, NEW t \in Threads, Delivery(t)
    PROVE  FootprintInv'
  BY DeliverySelectOldestKeeps, DeliverySkipDistrictKeeps, DeliveryDeleteNewOrderKeeps,
     DeliverySelectCustomerKeeps, DeliveryUpdateOrderKeeps, DeliveryUpdateLinesKeeps,
     DeliverySumLinesKeeps, DeliveryUpdateCustomerKeeps, DeliveryCommitKeeps DEF Delivery

----------------------------------------------------------------------------
(* neword() *)

(* The rows of the order numbered o that t places. *)
NewordNames(t, o, D, O, N, L) ==
    /\ D = District(job[t].w, job[t].d)
    /\ O = Orders(job[t].w, job[t].d, o)
    /\ N = NewOrders(job[t].w, job[t].d, o)
    /\ L = OrderLine(job[t].w, job[t].d, o)

(* NewordAt, in terms of those rows. *)
NewordState(t, o, D, O, N, L) ==
    /\ \A r \in Rows : lock[r] = t =>
         \/ r = D
         \/ r = O /\ pc[t] \in Inserted
         \/ (r = N \/ r = L \/ r[1] = "stock") /\ pc[t] \in Listed
    /\ lock[D] = t
    /\ db[D].d_next_o_id = o
    /\ pc[t] = "neword3" => cur[D] = db[D]
    /\ pc[t] \in Advanced => cur[D] = [db[D] EXCEPT !.d_next_o_id = o + 1]
    /\ pc[t] \in Inserted =>
         /\ o \in OrderIds
         /\ lock[O] = t
         /\ cur[O] = [o_c_id |-> job[t].c, o_carrier_id |-> 0, o_ol_cnt |-> Len(job[t].lines)]
    /\ pc[t] \in Listed =>
         /\ lock[N] = t /\ cur[N] = TRUE
         /\ LinesInOrder(t)
         /\ StockTaken(t)

(* The rows of an order are different rows. *)
LEMMA NewordRowsDiffer ==
    ASSUME TypeOK, NEW t \in Threads, pc[t] \in NewordLabels,
           NEW o, NEW D, NEW O, NEW N, NEW L, NewordNames(t, o, D, O, N, L)
    PROVE  /\ D \in Rows
           /\ o \in OrderIds => O \in Rows /\ N \in Rows /\ L \in Rows
           /\ D # O /\ D # N /\ D # L /\ O # N /\ O # L /\ N # L
           /\ D[1] # "stock" /\ O[1] # "stock" /\ N[1] # "stock" /\ L[1] # "stock"
           /\ \A w, i : Stock(w, i) # D /\ Stock(w, i) # O /\ Stock(w, i) # N /\ Stock(w, i) # L
  <1>1. job[t].w \in Warehouses /\ job[t].d \in Districts
    BY OrderRows
  <1>2. D \in Rows /\ (o \in OrderIds => O \in Rows /\ N \in Rows /\ L \in Rows)
    BY <1>1, RowNames DEF NewordNames
  <1>3. /\ D[1] = "district" /\ O[1] = "orders" /\ N[1] = "new_orders" /\ L[1] = "order_line"
        /\ \A w, i : Stock(w, i)[1] = "stock"
    BY DEF NewordNames, District, Orders, NewOrders, OrderLine, Stock
  <1> QED BY <1>2, <1>3

(* The new order at its label. *)
LEMMA NewordHere ==
    ASSUME TypeOK, FootprintInv, NEW t \in Threads, pc[t] \in Numbered,
           NEW D, NEW O, NEW N, NEW L, NewordNames(t, loc[t].o, D, O, N, L)
    PROVE  NewordState(t, loc[t].o, D, O, N, L) /\ pc[t] \in NewordLabels
  <1>1. NewordAt(t, job[t].w, job[t].d, loc[t].o)
    BY DEF FootprintInv, Footprint, NewordHolds
  <1>2. pc[t] \in NewordLabels
    BY DEF Numbered, Advanced, Inserted, Listed, NewordLabels
  <1> QED BY <1>1, <1>2 DEF NewordAt, NewordState, NewordNames

(* What there is to show of a statement of neword(). *)
LEMMA NewordThere ==
    ASSUME TypeOK, FootprintInv, NEW t \in Threads, OwnRowsOnly(t), OthersKeep(t),
           UnlockedIsCommitted', db' = db, SnapshotOf(t)' = SnapshotOf(t),
           pc'[t] \in Numbered, job'[t] = job[t],
           NEW o, loc'[t].o = o,
           NEW D, NEW O, NEW N, NEW L, NewordNames(t, o, D, O, N, L),
           NewordState(t, o, D, O, N, L)'
    PROVE  FootprintInv'
  <1>1. NewordAt(t, job[t].w, job[t].d, o)'
    BY DEF NewordAt, NewordState, NewordNames
  <1>2. NewordHolds(t)'
    BY <1>1 DEF NewordHolds
  <1> QED BY <1>2, NewordStep

(* SELECT ... FROM customer, warehouse *)
LEMMA NewordSelectCustomerKeeps ==
    ASSUME TypeOK, FootprintInv, NEW t \in Threads, NewordSelectCustomer(t)
    PROVE  FootprintInv'
  BY RestSelect DEF NewordSelectCustomer, FreeLabels, RestLabels

(* SELECT d_next_o_id FROM district ... FOR UPDATE *)
LEMMA NewordSelectDistrictKeeps ==
    ASSUME TypeOK, FootprintInv, NEW t \in Threads, NewordSelectDistrict(t)
    PROVE  FootprintInv'
  <1>0. PICK D, o : D = District(job[t].w, job[t].d) /\ o = cur[D].d_next_o_id
    OBVIOUS
  <1>b. PICK O, N, L : NewordNames(t, o, D, O, N, L)
    BY <1>0 DEF NewordNames
  <1>1. /\ pc[t] = "neword2" /\ Step(t, "neword2", "neword3") /\ SelectForUpdate(t, D)
        /\ loc' = [loc EXCEPT ![t].o = o]
    BY <1>0 DEF NewordSelectDistrict, Step
  <1>2. loc'[t].o = o /\ \A u \in Threads \ {t} : loc'[u] = loc[u]
    BY <1>1 DEF TypeOK, LocalsTypeOK, LocalsType, NoLocals
  <1>3. D \in Rows
    BY <1>b, <1>1, NewordRowsDiffer DEF NewordLabels
  <1>4. \A r \in Rows : lock[r] # t
    BY <1>1 DEF FootprintInv, Footprint, FreeLabels, Held
  <1>5. /\ OwnRowsOnly(t) /\ OthersKeep(t) /\ UnlockedIsCommitted'
        /\ db' = db /\ cur' = cur
        /\ \A q \in Rows : lock'[q] = IF q = D THEN t ELSE lock[q]
        /\ lock[D] # t => cur[D] = db[D]
        /\ SnapshotOf(t)' = SnapshotOf(t)
        /\ pc'[t] = "neword3" /\ job'[t] = job[t]
    BY <1>1, <1>2, <1>3, ForUpdateStep
  <1>6. cur[D] = db[D] /\ db[D].d_next_o_id = o
    BY <1>0, <1>3, <1>4, <1>5
  <1>7. NewordState(t, o, D, O, N, L)'
    BY <1>3, <1>4, <1>5, <1>6 DEF NewordState, Advanced, Inserted, Listed
  <1>8. pc'[t] \in Numbered
    BY <1>5 DEF Numbered
  <1> QED BY <1>b, <1>2, <1>5, <1>7, <1>8, NewordThere

(* UPDATE district SET d_next_o_id *)
LEMMA NewordUpdateDistrictKeeps ==
    ASSUME TypeOK, FootprintInv, NEW t \in Threads, NewordUpdateDistrict(t)
    PROVE  FootprintInv'
  <1>0. PICK o, D, O, N, L : o = loc[t].o /\ NewordNames(t, o, D, O, N, L)
    BY DEF NewordNames
  <1>1. PICK v : /\ pc[t] = "neword3" /\ Step(t, "neword3", "neword4") /\ loc' = loc
                 /\ v = [cur[D] EXCEPT !.d_next_o_id = o + 1] /\ Write(t, D, v)
    BY <1>0 DEF NewordUpdateDistrict, NewordNames, Step
  <1>2. pc[t] \in Numbered
    BY <1>1 DEF Numbered
  <1>3. NewordState(t, o, D, O, N, L) /\ D \in Rows
    BY <1>0, <1>2, NewordHere, NewordRowsDiffer
  <1>4. /\ \A r \in Rows : lock[r] = t => r = D
        /\ cur[D] = db[D] /\ db[D].d_next_o_id = o
    BY <1>1, <1>3 DEF NewordState, Inserted, Listed
  <1>5. /\ OwnRowsOnly(t) /\ OthersKeep(t) /\ UnlockedIsCommitted' /\ db' = db
        /\ \A q \in Rows : /\ lock'[q] = IF q = D THEN t ELSE lock[q]
                           /\ cur'[q] = IF q = D THEN v ELSE cur[q]
        /\ SnapshotOf(t)' = SnapshotOf(t)
        /\ pc'[t] = "neword4" /\ job'[t] = job[t]
    BY <1>1, <1>3, WriteStep
  <1>6. v = [db[D] EXCEPT !.d_next_o_id = o + 1]
    BY <1>1, <1>4
  <1>7. pc'[t] \in Numbered /\ pc'[t] \notin Inserted /\ pc'[t] \notin Listed
    BY <1>5 DEF Numbered, Advanced, Inserted, Listed
  <1>8. NewordState(t, o, D, O, N, L)'
    BY <1>3, <1>4, <1>5, <1>6, <1>7 DEF NewordState
  <1> QED BY <1>0, <1>1, <1>5, <1>7, <1>8, NewordThere

(* INSERT INTO orders *)
LEMMA NewordInsertOrderKeeps ==
    ASSUME TypeOK, FootprintInv, NEW t \in Threads, NewordInsertOrder(t)
    PROVE  FootprintInv'
  <1>0. PICK o, D, O, N, L : o = loc[t].o /\ NewordNames(t, o, D, O, N, L)
    BY DEF NewordNames
  <1>1. PICK v : /\ pc[t] = "neword4" /\ Step(t, "neword4", "neword5") /\ loc' = loc
                 /\ v = [o_c_id |-> job[t].c, o_carrier_id |-> 0,
                         o_ol_cnt |-> Len(job[t].lines)]
                 /\ o \in OrderIds /\ Write(t, O, v)
    BY <1>0 DEF NewordInsertOrder, NewordNames, Step
  <1>2. pc[t] \in Numbered
    BY <1>1 DEF Numbered, Advanced
  <1>3. NewordState(t, o, D, O, N, L) /\ D \in Rows /\ O \in Rows /\ O # D
    BY <1>0, <1>1, <1>2, NewordHere, NewordRowsDiffer
  <1>4. /\ \A r \in Rows : lock[r] = t => r = D
        /\ lock[D] = t /\ db[D].d_next_o_id = o
        /\ cur[D] = [db[D] EXCEPT !.d_next_o_id = o + 1]
    BY <1>1, <1>3 DEF NewordState, Advanced, Inserted, Listed
  <1>5. /\ OwnRowsOnly(t) /\ OthersKeep(t) /\ UnlockedIsCommitted' /\ db' = db
        /\ \A q \in Rows : /\ lock'[q] = IF q = O THEN t ELSE lock[q]
                           /\ cur'[q] = IF q = O THEN v ELSE cur[q]
        /\ SnapshotOf(t)' = SnapshotOf(t)
        /\ pc'[t] = "neword5" /\ job'[t] = job[t]
    BY <1>1, <1>3, WriteStep
  <1>6. pc'[t] \in Numbered /\ pc'[t] \in Inserted /\ pc'[t] \notin Listed
    BY <1>5 DEF Numbered, Advanced, Inserted, Listed
  <1>7. NewordState(t, o, D, O, N, L)'
    BY <1>1, <1>3, <1>4, <1>5, <1>6 DEF NewordState
  <1> QED BY <1>0, <1>1, <1>5, <1>6, <1>7, NewordThere

(* INSERT INTO orders, when the key is taken or the table full *)
LEMMA NewordInsertRejectedKeeps ==
    ASSUME TypeOK, FootprintInv, NEW t \in Threads, NewordInsertRejected(t)
    PROVE  FootprintInv'
  <1>1. SqlErr(t) /\ pc[t] \notin {"idle", "done"}
    BY DEF NewordInsertRejected
  <1>2. Rollback(t)
    BY <1>1 DEF SqlErr
  <1> QED BY <1>1, <1>2, SqlErrKeeps, RollbackStep

(* The item does not exist. *)
LEMMA NewordInvalidItemKeeps ==
    ASSUME TypeOK, FootprintInv, NEW t \in Threads, NewordInvalidItem(t)
    PROVE  FootprintInv'
  BY ReturnKeeps, RollbackStep DEF NewordInvalidItem, RestLabels

(* INSERT INTO new_orders *)
LEMMA NewordInsertNewOrderKeeps ==
    ASSUME TypeOK, FootprintInv, NEW t \in Threads, NewordInsertNewOrder(t)
    PROVE  FootprintInv'
  <1>0. PICK o, D, O, N, L : o = loc[t].o /\ NewordNames(t, o, D, O, N, L)
    BY DEF NewordNames
  <1>1. PICK v : /\ pc[t] = "neword5" /\ Step(t, "neword5", "neword6")
                 /\ loc' = [loc EXCEPT ![t].todo = DOMAIN job[t].lines]
                 /\ v = TRUE /\ Write(t, N, v)
    BY <1>0 DEF NewordInsertNewOrder, NewordNames, Step
  <1>2. /\ loc'[t].todo = DOMAIN job[t].lines /\ loc'[t].o = o
        /\ \A u \in Threads \ {t} : loc'[u] = loc[u]
    BY <1>0, <1>1 DEF TypeOK, LocalsTypeOK, LocalsType, NoLocals
  <1>3. pc[t] \in Numbered /\ pc[t] \in Inserted /\ pc[t] \in NewordLabels
    BY <1>1 DEF Numbered, Advanced, Inserted, NewordLabels
  <1>4. NewordState(t, o, D, O, N, L)
    BY <1>0, <1>3, NewordHere
  <1>5. /\ \A r \in Rows : lock[r] = t => r = D \/ r = O
        /\ lock[D] = t /\ db[D].d_next_o_id = o
        /\ cur[D] = [db[D] EXCEPT !.d_next_o_id = o + 1]
        /\ o \in OrderIds /\ lock[O] = t
        /\ cur[O] = [o_c_id |-> job[t].c, o_carrier_id |-> 0, o_ol_cnt |-> Len(job[t].lines)]
    BY <1>1, <1>4 DEF NewordState, Advanced, Inserted, Listed
  <1>6. /\ D \in Rows /\ O \in Rows /\ N \in Rows /\ L \in Rows
        /\ D # N /\ O # N /\ L # D /\ L # O /\ L # N
        /\ D[1] # "stock" /\ O[1] # "stock" /\ N[1] # "stock"
    BY <1>0, <1>3, <1>5, NewordRowsDiffer
  <1>7. /\ OwnRowsOnly(t) /\ OthersKeep(t) /\ UnlockedIsCommitted' /\ db' = db
        /\ \A q \in Rows : /\ lock'[q] = IF q = N THEN t ELSE lock[q]
                           /\ cur'[q] = IF q = N THEN v ELSE cur[q]
        /\ SnapshotOf(t)' = SnapshotOf(t)
        /\ pc'[t] = "neword6" /\ job'[t] = job[t]
    <2>1. Step(t, "neword5", "neword6") /\ Write(t, N, v)
      BY <1>1
    <2> QED BY <1>2, <1>6, <2>1, WriteStep
  <1>8. Lines(t)' = <<>> /\ DOMAIN Lines(t)' = {}
    <2>1. lock'[L] # t
      BY <1>5, <1>6, <1>7
    <2>2. L = OrderLine(job'[t].w, job'[t].d, loc'[t].o)
      BY <1>0, <1>2, <1>7 DEF NewordNames
    <2>3. Lines(t)' = <<>>
      BY <2>1, <2>2 DEF Lines
    <2> QED BY <2>3
  <1>9. Passed(t)' = {}
    BY <1>2, <1>7 DEF Passed
  <1>10. LinesInOrder(t)'
    <2>1. \E f \in Bijection(DOMAIN Lines(t)', Passed(t)') : PlacedBy(t, f)'
      <3>1. <<>> \in Bijection({}, {})
        BY DEF Bijection, Injection, Surjection, IsInjective
      <3>2. PlacedBy(t, <<>>)'
        BY <1>8, <1>9, <3>1 DEF PlacedBy
      <3> QED BY <1>8, <1>9, <3>1, <3>2
    <2> QED BY <1>7, <1>9, <2>1 DEF LinesInOrder, AtLine
  <1>11. StockTaken(t)'
    <2>1. \A w \in Warehouses, i \in Items : Stock(w, i) \in Rows /\ Stock(w, i)[1] = "stock"
      BY RowNames, Tables
    <2>2. \A w \in Warehouses, i \in Items : lock'[Stock(w, i)] # t
      BY <1>5, <1>6, <1>7, <2>1
    <2> QED BY <1>7, <1>8, <2>2 DEF StockTaken
  <1>12. /\ pc'[t] \in Numbered /\ pc'[t] \in Advanced /\ pc'[t] \in Inserted
         /\ pc'[t] \in Listed /\ pc'[t] # "neword3"
    BY <1>7 DEF Numbered, Advanced, Inserted, Listed
  <1>13. NewordState(t, o, D, O, N, L)'
    BY <1>1, <1>5, <1>6, <1>7, <1>10, <1>11, <1>12 DEF NewordState
  <1> QED BY <1>0, <1>2, <1>7, <1>12, <1>13, NewordThere

(* Lines for other stock leave a stock row as it is. *)
LEMMA QuantityAfterOther ==
    ASSUME NEW T, NEW lines \in Seq(T), NEW q, NEW w, NEW i,
           \A n \in DOMAIN lines : ~ (lines[n].ol_i_id = i /\ lines[n].ol_supply_w_id = w)
    PROVE  QuantityAfter(q, lines, w, i) = q
  <1>1. Len(lines) \in Nat /\ DOMAIN lines = 1 .. Len(lines)
    OBVIOUS
  <1>2. PICK g : /\ Leaves(g, q, lines, w, i, Len(lines))
                 /\ QuantityAfter(q, lines, w, i) = g[Len(lines)]
    BY <1>1, QuantityIs
  <1> DEFINE Bad == {n \in 0 .. Len(lines) : g[n] # q}
  <1>3. ASSUME Bad # {} PROVE FALSE
    <2>1. PICK m \in Bad : \A k \in Bad : m <= k
      <3>1. Bad \subseteq Nat
        BY <1>1
      <3> HIDE DEF Bad
      <3> QED BY <1>3, <3>1, LeastNat
    <2>2. g[0] = q
      BY <1>2 DEF Leaves
    <2>3. m \in 1 .. Len(lines) /\ m - 1 \in 0 .. Len(lines) /\ m - 1 < m
      BY <1>1, <2>1, <2>2
    <2>4. g[m - 1] = q
      BY <2>1, <2>3
    <2>5. g[m] = g[m - 1]
      BY <1>1, <1>2, <2>3 DEF Leaves
    <2> QED BY <2>1, <2>4, <2>5
  <1> QED BY <1>1, <1>2, <1>3

(* What there is to show of a statement of neword()'s loop: it touches no  *)
(* row but its lines' or a stock row.                                      *)
LEMMA ListedThere ==
    ASSUME TypeOK, FootprintInv, NEW t \in Threads, OwnRowsOnly(t), OthersKeep(t),
           UnlockedIsCommitted', db' = db, SnapshotOf(t)' = SnapshotOf(t),
           pc[t] \in Listed, pc'[t] \in Listed, job'[t] = job[t], loc'[t].o = loc[t].o,
           NEW S, S = OrderLine(job[t].w, job[t].d, loc[t].o) \/ S[1] = "stock",
           \A r \in Rows : r # S => lock'[r] = lock[r] /\ cur'[r] = cur[r],
           LinesInOrder(t)', StockTaken(t)'
    PROVE  FootprintInv'
  <1>0. PICK o, D, O, N, L : o = loc[t].o /\ NewordNames(t, o, D, O, N, L)
    BY DEF NewordNames
  <1>1. /\ pc[t] \in Numbered /\ pc[t] \in Advanced /\ pc[t] \in Inserted
        /\ pc'[t] \in Numbered /\ pc'[t] \in Advanced /\ pc'[t] \in Inserted
        /\ pc'[t] # "neword3"
    BY DEF Numbered, Advanced, Inserted, Listed
  <1>2. NewordState(t, o, D, O, N, L) /\ pc[t] \in NewordLabels
    BY <1>0, <1>1, NewordHere
  <1>3. /\ \A r \in Rows : lock[r] = t => r \in {D, O, N, L} \/ r[1] = "stock"
        /\ lock[D] = t /\ db[D].d_next_o_id = o
        /\ cur[D] = [db[D] EXCEPT !.d_next_o_id = o + 1]
        /\ o \in OrderIds /\ lock[O] = t
        /\ cur[O] = [o_c_id |-> job[t].c, o_carrier_id |-> 0, o_ol_cnt |-> Len(job[t].lines)]
        /\ lock[N] = t /\ cur[N] = TRUE
    BY <1>1, <1>2 DEF NewordState
  <1>4. /\ D \in Rows /\ O \in Rows /\ N \in Rows /\ L \in Rows
        /\ D # L /\ O # L /\ N # L
        /\ D[1] # "stock" /\ O[1] # "stock" /\ N[1] # "stock"
    BY <1>0, <1>2, <1>3, NewordRowsDiffer
  <1>5. S = L \/ S[1] = "stock"
    BY <1>0 DEF NewordNames
  <1>6. /\ \A r \in Rows : lock'[r] = t => r \in {D, O, N, L} \/ r[1] = "stock"
        /\ lock'[D] = t /\ lock'[O] = t /\ lock'[N] = t
        /\ cur'[D] = cur[D] /\ cur'[O] = cur[O]
    BY <1>3, <1>4, <1>5
  <1>7. cur'[N] = cur[N]
    BY <1>3, <1>4, <1>5
  <1>8. NewordState(t, o, D, O, N, L)'
    BY <1>1, <1>3, <1>6, <1>7 DEF NewordState
  <1> QED BY <1>0, <1>1, <1>8, NewordThere

(* What holds of the lines and the stock at a label of the loop. *)
LEMMA ListedHere ==
    ASSUME TypeOK, FootprintInv, NEW t \in Threads, pc[t] \in Listed
    PROVE  /\ LinesInOrder(t) /\ StockTaken(t)
           /\ loc[t].o \in OrderIds
           /\ OrderLine(job[t].w, job[t].d, loc[t].o) \in Rows
           /\ job[t] \in NewOrderJobs /\ job[t].lines \in Seq(Line)
           /\ Lines(t) \in LinesType
           /\ \A n \in DOMAIN Lines(t) :
                /\ Lines(t)[n].ol_supply_w_id \in Warehouses
                /\ Lines(t)[n].ol_i_id \in Items
                /\ Lines(t)[n].ol_quantity \in 1 .. 10
  <1>1. NewordHolds(t)
    BY DEF FootprintInv, Footprint
  <1>2. NewordAt(t, job[t].w, job[t].d, loc[t].o) /\ pc[t] \in NewordLabels
    BY <1>1 DEF NewordHolds, Numbered, Advanced, Inserted, Listed, NewordLabels
  <1> QED BY <1>1, <1>2, LinesOfJob, OrderRows DEF NewordAt

(* The line the loop is at is a line of the job. *)
LEMMA CurrentLineIs ==
    ASSUME TypeOK, NEW t \in Threads, pc[t] \in AtLine
    PROVE  /\ loc[t].line \in DOMAIN job[t].lines
           /\ CurrentLine(t) \in Line
           /\ CurrentLine(t).ol_supply_w_id \in Warehouses
           /\ CurrentLine(t).ol_i_id \in Items
           /\ CurrentLine(t).ol_quantity \in 1 .. 10
           /\ StockOfLine(t) \in Rows /\ StockOfLine(t)[1] = "stock"
  <1>1. loc[t].line \in DOMAIN job[t].lines /\ CurrentLine(t).ol_i_id \in Items
    BY DEF TypeOK, LocalsTypeOK, LocalsType, AtLine
  <1>2. job[t].lines \in Seq(Line)
    BY OrderRows DEF AtLine, NewordLabels
  <1>3. CurrentLine(t) \in Line
    BY <1>1, <1>2 DEF CurrentLine
  <1>4. CurrentLine(t).ol_supply_w_id \in Warehouses /\ CurrentLine(t).ol_quantity \in 1 .. 10
    BY <1>3 DEF Line
  <1>5. StockOfLine(t) \in Rows /\ StockOfLine(t)[1] = "stock"
    <2>1. StockOfLine(t)[1] = "stock"
      BY DEF StockOfLine, Stock
    <2>2. StockOfLine(t) \in Rows
      BY <1>1, <1>4, RowNames DEF StockOfLine
    <2> QED BY <2>1, <2>2
  <1> QED BY <1>1, <1>3, <1>4, <1>5

(* SELECT ... FROM item *)
LEMMA NewordSelectItemKeeps ==
    ASSUME TypeOK, FootprintInv, NEW t \in Threads, NewordSelectItem(t)
    PROVE  FootprintInv'
  <1>1. PICK i \in NextLines(t) : loc' = [loc EXCEPT ![t].line = i, ![t].todo = @ \ {i}]
    BY DEF NewordSelectItem
  <1>2. /\ loc'[t].line = i /\ loc'[t].todo = loc[t].todo \ {i} /\ loc'[t].o = loc[t].o
        /\ \A u \in Threads \ {t} : loc'[u] = loc[u]
    BY <1>1 DEF TypeOK, LocalsTypeOK, LocalsType, NoLocals
  <1>3. /\ OwnRowsOnly(t) /\ OthersKeep(t) /\ UnlockedIsCommitted'
        /\ db' = db /\ cur' = cur /\ lock' = lock
        /\ SnapshotOf(t)' = SnapshotOf(t)
        /\ pc[t] = "neword6" /\ pc'[t] = "neword7" /\ job'[t] = job[t]
    BY <1>2, SelectStep DEF NewordSelectItem
  <1>4. pc[t] \in Listed /\ pc'[t] \in Listed
    BY <1>3 DEF Listed
  <1>5. LinesInOrder(t) /\ StockTaken(t)
    BY <1>4, ListedHere
  <1>6. /\ i \in loc[t].todo
        /\ \A k \in loc[t].todo : StockKey(job[t].lines[i]) <= StockKey(job[t].lines[k])
    BY DEF NextLines
  <1>7. Lines(t)' = Lines(t)
    BY <1>2, <1>3 DEF Lines
  <1>8. Passed(t)' = Passed(t)
    BY <1>2, <1>3, <1>6 DEF Passed, AtLine
  <1>9. CurrentLine(t)' = job[t].lines[i]
    BY <1>2, <1>3 DEF CurrentLine
  <1>10. LinesInOrder(t)'
    <2>1. \A f : PlacedBy(t, f) => PlacedBy(t, f)'
      BY <1>3, <1>7, <1>8 DEF PlacedBy
    <2> QED BY <1>2, <1>3, <1>5, <1>6, <1>7, <1>8, <1>9, <2>1 DEF LinesInOrder
  <1>11. StockTaken(t)'
    BY <1>3, <1>5, <1>7 DEF StockTaken
  <1>12. PICK S : S[1] = "stock"
    BY Tables
  <1> QED BY <1>2, <1>3, <1>4, <1>10, <1>11, <1>12, ListedThere

(* SELECT s_quantity FROM stock ... FOR UPDATE *)
LEMMA NewordSelectStockKeeps ==
    ASSUME TypeOK, FootprintInv, NEW t \in Threads, NewordSelectStock(t)
    PROVE  FootprintInv'
  <1>0. PICK S : S = StockOfLine(t)
    OBVIOUS
  <1>1. /\ pc[t] = "neword7" /\ Step(t, "neword7", "neword8") /\ SelectForUpdate(t, S)
        /\ loc' = [loc EXCEPT ![t].qty = cur[S]]
    BY <1>0 DEF NewordSelectStock, Step
  <1>2. /\ loc'[t].qty = cur[S] /\ loc'[t].o = loc[t].o
        /\ loc'[t].line = loc[t].line /\ loc'[t].todo = loc[t].todo
        /\ \A u \in Threads \ {t} : loc'[u] = loc[u]
    BY <1>1 DEF TypeOK, LocalsTypeOK, LocalsType, NoLocals
  <1>3. S \in Rows /\ S[1] = "stock"
    BY <1>0, <1>1, CurrentLineIs DEF AtLine
  <1>4. /\ OwnRowsOnly(t) /\ OthersKeep(t) /\ UnlockedIsCommitted'
        /\ db' = db /\ cur' = cur
        /\ \A q \in Rows : lock'[q] = IF q = S THEN t ELSE lock[q]
        /\ lock[S] # t => cur[S] = db[S]
        /\ SnapshotOf(t)' = SnapshotOf(t)
        /\ pc'[t] = "neword8" /\ job'[t] = job[t]
    BY <1>1, <1>2, <1>3, ForUpdateStep
  <1>5. pc[t] \in Listed /\ pc'[t] \in Listed
    BY <1>1, <1>4 DEF Listed
  <1>6. /\ LinesInOrder(t) /\ StockTaken(t) /\ Lines(t) \in LinesType
        /\ OrderLine(job[t].w, job[t].d, loc[t].o) \in Rows
        /\ \A n \in DOMAIN Lines(t) :
             /\ Lines(t)[n].ol_supply_w_id \in Warehouses /\ Lines(t)[n].ol_i_id \in Items
    BY <1>5, ListedHere
  <1>7. Lines(t)' = Lines(t)
    <2>1. OrderLine(job[t].w, job[t].d, loc[t].o)[1] = "order_line"
      BY DEF OrderLine
    <2> QED BY <1>2, <1>3, <1>4, <1>6, <2>1 DEF Lines
  <1>8. Passed(t)' = Passed(t) /\ CurrentLine(t)' = CurrentLine(t) /\ StockOfLine(t)' = S
    BY <1>0, <1>1, <1>2, <1>4 DEF Passed, AtLine, CurrentLine, StockOfLine
  <1>9. LinesInOrder(t)'
    <2>1. \A f : PlacedBy(t, f) => PlacedBy(t, f)'
      BY <1>4, <1>7, <1>8 DEF PlacedBy
    <2> QED BY <1>1, <1>2, <1>4, <1>6, <1>7, <1>8, <2>1 DEF LinesInOrder, AtLine
  <1>10. StockTaken(t)'
    <2>1. \A w \in Warehouses, i \in Items : Stock(w, i) \in Rows
      BY RowNames
    <2>2. \A n \in DOMAIN Lines(t) :
            lock'[Stock(Lines(t)[n].ol_supply_w_id, Lines(t)[n].ol_i_id)] = t
      BY <1>4, <1>6, <2>1 DEF StockTaken
    <2>3. ASSUME NEW w \in Warehouses, NEW i \in Items, lock'[Stock(w, i)] = t
          PROVE  cur'[Stock(w, i)] = QuantityAfter(db'[Stock(w, i)], Lines(t), w, i)
      <3>1. CASE lock[Stock(w, i)] = t
        <4>1. cur[Stock(w, i)] = QuantityAfter(db[Stock(w, i)], Lines(t), w, i)
          BY <1>1, <1>6, <3>1 DEF StockTaken
        <4> QED BY <1>4, <4>1
      <3>2. CASE lock[Stock(w, i)] # t
        <4>1. cur[Stock(w, i)] = db[Stock(w, i)]
          BY <1>4, <2>1, <2>3, <3>2
        <4>2. \A n \in DOMAIN Lines(t) :
                ~ (Lines(t)[n].ol_i_id = i /\ Lines(t)[n].ol_supply_w_id = w)
          BY <1>6, <3>2 DEF StockTaken
        <4>3. QuantityAfter(db[Stock(w, i)], Lines(t), w, i) = db[Stock(w, i)]
          BY <1>6, <4>2, QuantityAfterOther DEF LinesType
        <4> QED BY <1>4, <4>1, <4>3
      <3> QED BY <3>1, <3>2
    <2>4. lock'[S] = t /\ loc'[t].qty = cur'[S]
      BY <1>2, <1>3, <1>4
    <2> QED BY <1>4, <1>7, <1>8, <2>2, <2>3, <2>4 DEF StockTaken
  <1> QED BY <1>2, <1>3, <1>4, <1>5, <1>9, <1>10, ListedThere

(* UPDATE stock SET s_quantity *)
LEMMA NewordUpdateStockKeeps ==
    ASSUME TypeOK, FootprintInv, NEW t \in Threads, NewordUpdateStock(t)
    PROVE  FootprintInv'
  <1>0. PICK S : S = StockOfLine(t)
    OBVIOUS
  <1>1. PICK v : /\ pc[t] = "neword8" /\ Step(t, "neword8", "neword9") /\ loc' = loc
                 /\ v = Restock(loc[t].qty, CurrentLine(t).ol_quantity) /\ Write(t, S, v)
    BY <1>0 DEF NewordUpdateStock, Step
  <1>2. S \in Rows /\ S[1] = "stock"
    BY <1>0, <1>1, CurrentLineIs DEF AtLine
  <1>3. /\ OwnRowsOnly(t) /\ OthersKeep(t) /\ UnlockedIsCommitted' /\ db' = db
        /\ \A q \in Rows : /\ lock'[q] = IF q = S THEN t ELSE lock[q]
                           /\ cur'[q] = IF q = S THEN v ELSE cur[q]
        /\ SnapshotOf(t)' = SnapshotOf(t)
        /\ pc'[t] = "neword9" /\ job'[t] = job[t]
    BY <1>1, <1>2, WriteStep
  <1>4. pc[t] \in Listed /\ pc'[t] \in Listed
    BY <1>1, <1>3 DEF Listed
  <1>5. /\ LinesInOrder(t) /\ StockTaken(t)
        /\ OrderLine(job[t].w, job[t].d, loc[t].o) \in Rows
        /\ \A n \in DOMAIN Lines(t) :
             /\ Lines(t)[n].ol_supply_w_id \in Warehouses /\ Lines(t)[n].ol_i_id \in Items
    BY <1>4, ListedHere
  <1>6. Lines(t)' = Lines(t)
    <2>1. OrderLine(job[t].w, job[t].d, loc[t].o)[1] = "order_line"
      BY DEF OrderLine
    <2> QED BY <1>1, <1>2, <1>3, <1>5, <2>1 DEF Lines
  <1>7. Passed(t)' = Passed(t) /\ CurrentLine(t)' = CurrentLine(t) /\ StockOfLine(t)' = S
    BY <1>0, <1>1, <1>3 DEF Passed, AtLine, CurrentLine, StockOfLine
  <1>8. LinesInOrder(t)'
    <2>1. \A f : PlacedBy(t, f) => PlacedBy(t, f)'
      BY <1>3, <1>6, <1>7 DEF PlacedBy
    <2> QED BY <1>1, <1>3, <1>5, <1>6, <1>7, <2>1 DEF LinesInOrder, AtLine
  <1>9. StockTaken(t)'
    <2>1. \A w \in Warehouses, i \in Items : Stock(w, i) \in Rows
      BY RowNames
    <2>2. \A n \in DOMAIN Lines(t) :
            lock'[Stock(Lines(t)[n].ol_supply_w_id, Lines(t)[n].ol_i_id)] = t
      BY <1>3, <1>5, <2>1 DEF StockTaken
    <2>3. lock[S] = t /\ loc[t].qty = cur[S] /\ lock'[S] = t
      BY <1>0, <1>1, <1>2, <1>3, <1>5 DEF StockTaken
    <2>4. ASSUME NEW w \in Warehouses, NEW i \in Items, lock'[Stock(w, i)] = t
          PROVE  cur'[Stock(w, i)] =
                   IF Stock(w, i) = S
                   THEN Restock(QuantityAfter(db'[Stock(w, i)], Lines(t), w, i),
                                CurrentLine(t).ol_quantity)
                   ELSE QuantityAfter(db'[Stock(w, i)], Lines(t), w, i)
      <3>1. lock[Stock(w, i)] = t
        BY <1>3, <2>1, <2>3, <2>4
      <3>2. cur[Stock(w, i)] = QuantityAfter(db[Stock(w, i)], Lines(t), w, i)
        BY <1>1, <1>5, <3>1 DEF StockTaken
      <3>3. CASE Stock(w, i) = S
        <4>1. cur'[Stock(w, i)] = v /\ cur[Stock(w, i)] = loc[t].qty
          BY <1>2, <1>3, <2>3, <3>3
        <4> QED BY <1>1, <1>3, <3>2, <3>3, <4>1
      <3>4. CASE Stock(w, i) # S
        BY <1>3, <2>1, <3>2, <3>4
      <3> QED BY <3>3, <3>4
    <2> QED BY <1>3, <1>6, <1>7, <2>2, <2>3, <2>4 DEF StockTaken
  <1> QED BY <1>1, <1>2, <1>3, <1>4, <1>8, <1>9, ListedThere

(* The order being placed has no lines in the committed database. *)
LEMMA NoLinesYet ==
    ASSUME TypeOK, FootprintInv, NEW t \in Threads, pc[t] \in Listed
    PROVE  db[OrderLine(job[t].w, job[t].d, loc[t].o)] = <<>>
  <1>1. NewordHolds(t)
    BY DEF FootprintInv, Footprint
  <1>2. NewordAt(t, job[t].w, job[t].d, loc[t].o) /\ pc[t] \in NewordLabels
    BY <1>1 DEF NewordHolds, Numbered, Advanced, Inserted, Listed, NewordLabels
  <1>3. /\ loc[t].o \in OrderIds /\ job[t].w \in Warehouses /\ job[t].d \in Districts
        /\ db[District(job[t].w, job[t].d)].d_next_o_id = loc[t].o
    BY <1>2, OrderRows DEF NewordAt, Inserted
  <1>4. /\ StoreType(db) /\ RowsSound(db) /\ OrderNumbersDense(db) /\ OrdersHaveTheirLines(db)
    BY DEF FootprintInv, ConsistentDb, OrdersConsistent
  <1>5. ~ OrderExists(db, job[t].w, job[t].d, loc[t].o)
    <2>1. loc[t].o \in Nat
      BY DEF TypeOK, LocalsTypeOK, LocalsType
    <2> QED BY <1>3, <1>4, <2>1 DEF OrderNumbersDense
  <1>6. db[Orders(job[t].w, job[t].d, loc[t].o)].o_ol_cnt = 0
    BY <1>3, <1>4, <1>5 DEF RowsSound
  <1>7. Len(db[OrderLine(job[t].w, job[t].d, loc[t].o)]) = 0
    BY <1>3, <1>4, <1>6 DEF OrdersHaveTheirLines
  <1>8. db[OrderLine(job[t].w, job[t].d, loc[t].o)] \in LinesType
    BY <1>3, <1>4, StoredSequences
  <1> QED BY <1>7, <1>8 DEF LinesType

(* A bijection is extended by a pair of new elements. *)
LEMMA BijectionExtended ==
    ASSUME NEW A, NEW B, NEW f \in Bijection(A, B), NEW a, NEW b, a \notin A, b \notin B,
           NEW g, g = [n \in A \cup {a} |-> IF n = a THEN b ELSE f[n]]
    PROVE  g \in Bijection(A \cup {a}, B \cup {b})
  <1>1. /\ f \in [A -> B] /\ \A m, n \in A : f[m] = f[n] => m = n
        /\ \A y \in B : \E n \in A : f[n] = y
    BY DEF Bijection, Injection, Surjection, IsInjective
  <1>2. g \in [A \cup {a} -> B \cup {b}]
    BY <1>1
  <1>3. \A m, n \in A \cup {a} : g[m] = g[n] => m = n
    BY <1>1
  <1>4. \A y \in B \cup {b} : \E n \in A \cup {a} : g[n] = y
    BY <1>1
  <1> QED BY <1>2, <1>3, <1>4 DEF Bijection, Injection, Surjection, IsInjective

(* A line of a job is stored as it is. *)
LEMMA LineTyped ==
    ASSUME NEW l \in Line
    PROVE  l \in [ol_i_id : Nat, ol_supply_w_id : Nat, ol_quantity : Nat]
  <1>1. MaxItems \in Nat /\ NumWare \in Nat
    BY SchemaAssumption
  <1>2. Items \cup {MaxItems + 1} \subseteq Nat /\ Warehouses \subseteq Nat
        /\ 1 .. 10 \subseteq Nat
    BY <1>1 DEF Items, Warehouses
  <1> QED BY <1>2 DEF Line

(* INSERT INTO order_line *)
LEMMA NewordInsertLineKeeps ==
    ASSUME TypeOK, FootprintInv, NEW t \in Threads, NewordInsertLine(t)
    PROVE  FootprintInv'
  <1>0. PICK L, l, x, S : /\ L = OrderLine(job[t].w, job[t].d, loc[t].o)
                          /\ l = CurrentLine(t) /\ x = loc[t].line /\ S = StockOfLine(t)
    OBVIOUS
  <1>1. PICK v, to : /\ pc[t] = "neword9" /\ Step(t, "neword9", to) /\ loc' = loc
                     /\ v = Append(cur[L], l) /\ Write(t, L, v)
                     /\ to = IF loc[t].todo = {} THEN "neword_commit" ELSE "neword6"
    BY <1>0 DEF NewordInsertLine, Step
  <1>2. /\ pc[t] \in Listed /\ pc[t] \in AtLine
        /\ to \in Listed /\ to \notin AtLine /\ to \notin {"neword8", "neword9"}
        /\ to = "neword_commit" => loc[t].todo = {}
    BY <1>1 DEF Listed, AtLine
  <1>3. /\ LinesInOrder(t) /\ StockTaken(t) /\ L \in Rows /\ Lines(t) \in LinesType
        /\ job[t].lines \in Seq(Line)
        /\ \A n \in DOMAIN Lines(t) :
             /\ Lines(t)[n].ol_supply_w_id \in Warehouses /\ Lines(t)[n].ol_i_id \in Items
    BY <1>0, <1>2, ListedHere
  <1>4. /\ x \in DOMAIN job[t].lines /\ l \in Line /\ l = job[t].lines[x]
        /\ l.ol_supply_w_id \in Warehouses /\ l.ol_i_id \in Items
        /\ S = Stock(l.ol_supply_w_id, l.ol_i_id) /\ S \in Rows
    BY <1>0, <1>2, CurrentLineIs DEF CurrentLine, StockOfLine
  <1>5. /\ OwnRowsOnly(t) /\ OthersKeep(t) /\ UnlockedIsCommitted' /\ db' = db
        /\ \A q \in Rows : /\ lock'[q] = IF q = L THEN t ELSE lock[q]
                           /\ cur'[q] = IF q = L THEN v ELSE cur[q]
        /\ lock[L] # t => cur[L] = db[L]
        /\ SnapshotOf(t)' = SnapshotOf(t)
        /\ pc'[t] = to /\ job'[t] = job[t]
    BY <1>1, <1>3, WriteStep
  <1>6. Lines(t)' = Append(Lines(t), l)
    <2>1. Lines(t)' = v
      BY <1>0, <1>1, <1>3, <1>5 DEF Lines
    <2>2. cur[L] = Lines(t)
      <3>1. db[L] = <<>>
        BY <1>0, <1>2, NoLinesYet
      <3> QED BY <1>0, <1>5, <3>1 DEF Lines
    <2> QED BY <1>1, <2>1, <2>2
  <1>7. PICK old, new, m : /\ old = Lines(t) /\ new = Append(old, l) /\ m = Len(old)
    OBVIOUS
  <1>8. /\ m \in Nat /\ DOMAIN old = 1 .. m /\ DOMAIN new = 1 .. m + 1
        /\ 1 .. m + 1 = (1 .. m) \cup {m + 1} /\ m + 1 \notin 1 .. m
        /\ \A n \in 1 .. m : new[n] = old[n] /\ n # m + 1
        /\ new[m + 1] = l
        /\ \A n \in 1 .. m + 1 : n \in Int
    BY <1>3, <1>4, <1>7 DEF LinesType
  <1>9. x \notin Passed(t) /\ Passed(t)' = Passed(t) \cup {x}
    <2>1. x \notin loc[t].todo
      BY <1>0, <1>2, <1>3 DEF LinesInOrder
    <2> QED BY <1>0, <1>1, <1>2, <1>4, <1>5, <2>1 DEF Passed
  <1>10. LinesInOrder(t)'
    <2>1. PICK f : f \in Bijection(DOMAIN old, Passed(t)) /\ PlacedBy(t, f)
      BY <1>3, <1>7 DEF LinesInOrder
    <2>2. PICK g : g = [n \in (1 .. m) \cup {m + 1} |-> IF n = m + 1 THEN x ELSE f[n]]
      OBVIOUS
    <2>3. g \in Bijection(DOMAIN new, Passed(t) \cup {x})
      <3>1. f \in Bijection(1 .. m, Passed(t))
        BY <1>8, <2>1
      <3>2. g \in Bijection((1 .. m) \cup {m + 1}, Passed(t) \cup {x})
        BY <1>8, <1>9, <2>2, <3>1, BijectionExtended
      <3> QED BY <1>8, <3>2
    <2>4. /\ \A n \in 1 .. m : g[n] = f[n] /\ f[n] \in Passed(t)
          /\ g[m + 1] = x
      BY <1>8, <2>1, <2>2 DEF Bijection, Injection
    <2>5. \A n \in 1 .. m : old[n] = job[t].lines[f[n]]
      BY <1>7, <1>8, <2>1 DEF PlacedBy
    <2>6. \A n \in DOMAIN new : new[n] = job[t].lines[g[n]]
      BY <1>4, <1>8, <2>4, <2>5
    <2>7. \A n \in 1 .. m : StockKey(old[n]) <= StockKey(l)
      BY <1>3, <1>4, <1>9, <2>4, <2>5 DEF LinesInOrder
    <2>8. \A i, n \in DOMAIN new : i < n => StockKey(new[i]) <= StockKey(new[n])
      <3>1. \A i, n \in 1 .. m : i < n => StockKey(old[i]) <= StockKey(old[n])
        BY <1>7, <1>8, <2>1 DEF PlacedBy
      <3> SUFFICES ASSUME NEW i \in DOMAIN new, NEW n \in DOMAIN new, i < n
                   PROVE  StockKey(new[i]) <= StockKey(new[n])
        OBVIOUS
      <3>2. i \in 1 .. m
        BY <1>8
      <3> QED BY <1>8, <2>7, <3>1, <3>2
    <2>9. PlacedBy(t, g)'
      BY <1>5, <1>6, <1>7, <1>9, <2>3, <2>6, <2>8 DEF PlacedBy
    <2>10. \E h \in Bijection(DOMAIN Lines(t)', Passed(t)') : PlacedBy(t, h)'
      BY <1>6, <1>7, <1>9, <2>3, <2>9
    <2>11. \A i \in Passed(t) \cup {x} :
             /\ job[t].lines[i].ol_i_id \in Items
             /\ \A k \in DOMAIN job[t].lines \ (Passed(t) \cup {x}) :
                  StockKey(job[t].lines[i]) <= StockKey(job[t].lines[k])
      <3>1. \A k \in DOMAIN job[t].lines \ (Passed(t) \cup {x}) :
              StockKey(l) <= StockKey(job[t].lines[k])
        <4>1. \A k \in loc[t].todo : StockKey(l) <= StockKey(job[t].lines[k])
          BY <1>0, <1>2, <1>3 DEF LinesInOrder
        <4>2. \A k \in DOMAIN job[t].lines \ (Passed(t) \cup {x}) : k \in loc[t].todo
          BY <1>0 DEF Passed
        <4> QED BY <4>1, <4>2
      <3>2. \A i \in Passed(t) :
             /\ job[t].lines[i].ol_i_id \in Items
             /\ \A k \in DOMAIN job[t].lines \ Passed(t) :
                  StockKey(job[t].lines[i]) <= StockKey(job[t].lines[k])
        BY <1>3 DEF LinesInOrder
      <3> QED BY <1>4, <3>1, <3>2
    <2> QED BY <1>1, <1>2, <1>5, <1>9, <2>10, <2>11 DEF LinesInOrder
  <1>11. StockTaken(t)'
    <2>1. /\ \A w \in Warehouses, i \in Items : Stock(w, i) \in Rows /\ Stock(w, i) # L
          /\ S # L
      <3>1. \A w, i : Stock(w, i)[1] = "stock" /\ L[1] = "order_line"
        BY <1>0 DEF Stock, OrderLine
      <3> QED BY <1>4, <3>1, RowNames
    <2>2. \A n \in DOMAIN new : lock'[Stock(new[n].ol_supply_w_id, new[n].ol_i_id)] = t
      <3>1. lock'[S] = t
        BY <1>0, <1>1, <1>3, <1>4, <1>5, <2>1 DEF StockTaken
      <3>2. ASSUME NEW n \in 1 .. m
            PROVE  lock'[Stock(old[n].ol_supply_w_id, old[n].ol_i_id)] = t
        BY <1>3, <1>5, <1>7, <1>8, <2>1 DEF StockTaken
      <3> QED BY <1>4, <1>8, <3>1, <3>2
    <2>3. ASSUME NEW w \in Warehouses, NEW i \in Items, lock'[Stock(w, i)] = t
          PROVE  cur'[Stock(w, i)] = QuantityAfter(db'[Stock(w, i)], new, w, i)
      <3>1. lock[Stock(w, i)] = t /\ cur'[Stock(w, i)] = cur[Stock(w, i)]
        BY <1>5, <2>1, <2>3
      <3>2. cur[Stock(w, i)] =
              IF Stock(w, i) = S
              THEN Restock(QuantityAfter(db[Stock(w, i)], old, w, i), l.ol_quantity)
              ELSE QuantityAfter(db[Stock(w, i)], old, w, i)
        BY <1>0, <1>1, <1>3, <1>7, <3>1 DEF StockTaken
      <3>3. Stock(w, i) = S <=> l.ol_i_id = i /\ l.ol_supply_w_id = w
        BY <1>4 DEF Stock
      <3>4. old \in LinesType /\ l \in [ol_i_id : Nat, ol_supply_w_id : Nat, ol_quantity : Nat]
        BY <1>3, <1>4, <1>7, LineTyped
      <3>5. QuantityAfter(db[Stock(w, i)], new, w, i) =
              IF l.ol_i_id = i /\ l.ol_supply_w_id = w
              THEN Restock(QuantityAfter(db[Stock(w, i)], old, w, i), l.ol_quantity)
              ELSE QuantityAfter(db[Stock(w, i)], old, w, i)
        <4>1. PICK T, q : /\ T = [ol_i_id : Nat, ol_supply_w_id : Nat, ol_quantity : Nat]
                          /\ q = db[Stock(w, i)]
          OBVIOUS
        <4>2. old \in Seq(T) /\ l \in T
          BY <3>4, <4>1 DEF LinesType
        <4>3. QuantityAfter(q, Append(old, l), w, i) =
                IF l.ol_i_id = i /\ l.ol_supply_w_id = w
                THEN Restock(QuantityAfter(q, old, w, i), l.ol_quantity)
                ELSE QuantityAfter(q, old, w, i)
          BY <4>2, QuantityAfterLine
        <4> QED BY <1>7, <4>1, <4>3
      <3> QED BY <1>5, <3>1, <3>2, <3>3, <3>5
    <2> QED BY <1>2, <1>5, <1>6, <1>7, <2>2, <2>3 DEF StockTaken
  <1> QED BY <1>0, <1>1, <1>2, <1>5, <1>10, <1>11, ListedThere

(* A bijection does not change the length of a sequence. *)
LEMMA SameLength ==
    ASSUME NEW m \in Nat, NEW k \in Nat, NEW f \in Bijection(1 .. m, 1 .. k)
    PROVE  m = k
  <1>1. ExistsBijection(1 .. m, 1 .. k)
    BY DEF ExistsBijection
  <1>2. Cardinality(1 .. k) = m
    BY <1>1, FS_CountingElements
  <1>3. Cardinality(1 .. k) = IF 1 > k THEN 0 ELSE k - 1 + 1
    BY FS_Interval
  <1> QED BY <1>2, <1>3

(* At the commit every line of the job is in, in the order of the stock    *)
(* rows.                                                                   *)
LEMMA AllLinesIn ==
    ASSUME TypeOK, FootprintInv, NEW t \in Threads, pc[t] = "neword_commit"
    PROVE  /\ Lines(t) \in Processed(job[t].lines)
           /\ Lines(t) \in LinesType /\ Lines(t) # <<>>
           /\ Len(Lines(t)) = Len(job[t].lines)
           /\ \A n \in DOMAIN Lines(t) : Lines(t)[n].ol_quantity \in 1 .. 10
           /\ \A i \in DOMAIN job[t].lines : job[t].lines[i].ol_i_id \in Items
  <1>1. pc[t] \in Listed
    BY DEF Listed
  <1>2. /\ LinesInOrder(t) /\ Lines(t) \in LinesType
        /\ job[t] \in NewOrderJobs /\ job[t].lines \in Seq(Line)
    BY <1>1, ListedHere
  <1>3. Passed(t) = DOMAIN job[t].lines
    BY <1>2 DEF Passed, LinesInOrder, AtLine
  <1>4. PICK f : f \in Bijection(DOMAIN Lines(t), Passed(t)) /\ PlacedBy(t, f)
    BY <1>2 DEF LinesInOrder
  <1>5. PICK new, jl, m, k : /\ new = Lines(t) /\ jl = job[t].lines
                             /\ m = Len(new) /\ k = Len(jl)
    OBVIOUS
  <1>6. /\ m \in Nat /\ k \in Nat /\ DOMAIN new = 1 .. m /\ DOMAIN jl = 1 .. k
        /\ new = [n \in 1 .. m |-> new[n]]
    BY <1>2, <1>5 DEF LinesType
  <1>7. m = k
    <2>1. f \in Bijection(1 .. m, 1 .. k)
      BY <1>3, <1>4, <1>5, <1>6
    <2> QED BY <1>6, <2>1, SameLength
  <1>8. f \in Bijection(DOMAIN jl, DOMAIN jl)
    BY <1>3, <1>4, <1>5, <1>6, <1>7
  <1>9. \A n \in 1 .. m : f[n] \in 1 .. m /\ new[n] = jl[f[n]]
    <2>1. \A n \in 1 .. m : f[n] \in 1 .. m
      BY <1>6, <1>7, <1>8 DEF Bijection, Injection
    <2> QED BY <1>4, <1>5, <1>6, <2>1 DEF PlacedBy
  <1>10. new = [n \in DOMAIN jl |-> jl[f[n]]]
    BY <1>6, <1>7, <1>9
  <1>11. \A i, n \in DOMAIN jl : i < n => StockKey(jl[f[i]]) <= StockKey(jl[f[n]])
    <2>1. \A i, n \in DOMAIN new : i < n => StockKey(new[i]) <= StockKey(new[n])
      BY <1>4, <1>5 DEF PlacedBy
    <2> QED BY <1>6, <1>7, <1>9, <2>1
  <1>12. new \in Processed(jl)
    BY <1>8, <1>10, <1>11 DEF Processed
  <1>13. new # <<>>
    <2>1. job[t] \in AnyJob
      BY <1>2, TxnAssumption DEF TypeOK, ControlTypeOK, AllJobs, NewOrderJobs
    <2>2. jl # <<>>
      BY <1>2, <1>5, <2>1, TxnAssumption DEF AnyJob, NewOrderJobs
    <2>3. k # 0
      BY <1>2, <1>5, <2>2
    <2> QED BY <1>5, <1>7, <2>3
  <1>14. \A n \in DOMAIN new : new[n].ol_quantity \in 1 .. 10
    <2>1. ASSUME NEW l \in Line PROVE l.ol_quantity \in 1 .. 10
      BY DEF Line
    <2>2. \A n \in 1 .. m : jl[n] \in Line
      BY <1>2, <1>5, <1>6, <1>7
    <2> QED BY <1>6, <1>9, <2>1, <2>2
  <1>15. \A i \in DOMAIN jl : jl[i].ol_i_id \in Items
    BY <1>2, <1>3, <1>5 DEF LinesInOrder
  <1> QED BY <1>2, <1>5, <1>7, <1>12, <1>13, <1>14, <1>15

(* The rows that the new order of j finds and makes. *)
OrderNames(s, j, o, D, O, N, L) ==
    /\ o = s[District(j.w, j.d)].d_next_o_id
    /\ D = District(j.w, j.d)      /\ O = Orders(j.w, j.d, o)
    /\ N = NewOrders(j.w, j.d, o)  /\ L = OrderLine(j.w, j.d, o)

(* What they and the others hold then. *)
OrderedRow(s, j, lines, r, o, D, O, N, L) ==
    IF r = D THEN [s[r] EXCEPT !.d_next_o_id = o + 1]
    ELSE IF r = O THEN [o_c_id |-> j.c, o_carrier_id |-> 0, o_ol_cnt |-> Len(lines)]
    ELSE IF r = N THEN TRUE
    ELSE IF r = L THEN lines
    ELSE IF r[1] = "stock" THEN QuantityAfter(s[r], lines, r[2], r[4])
    ELSE s[r]

(* What a row holds after the new order of j. *)
LEMMA OrderingIs ==
    ASSUME NEW s, NEW j, NEW lines, NEW o, NEW D, NEW O, NEW N, NEW L,
           OrderNames(s, j, o, D, O, N, L)
    PROVE  /\ Ordering(s, j, lines) = [r \in Rows |-> Ordering(s, j, lines)[r]]
           /\ \A r \in Rows :
                Ordering(s, j, lines)[r] = OrderedRow(s, j, lines, r, o, D, O, N, L)
  <1>1. /\ D # O /\ D # N /\ D # L /\ O # N /\ O # L /\ N # L
        /\ D[1] # "stock" /\ O[1] # "stock" /\ N[1] # "stock" /\ L[1] # "stock"
    BY DEF OrderNames, District, Orders, NewOrders, OrderLine
  <1> QED BY <1>1 DEF Ordering, OrderNames, OrderedRow

(* The stock rows at the commit are those the ordering makes. *)
LEMMA StockCommitted ==
    ASSUME TypeOK, FootprintInv, NEW t \in Threads, pc[t] = "neword_commit",
           NEW r \in Rows, r[1] = "stock"
    PROVE  (IF lock[r] = t THEN cur[r] ELSE db[r]) =
              QuantityAfter(db[r], Lines(t), r[2], r[4])
  <1>1. pc[t] \in Listed
    BY DEF Listed
  <1>2. /\ StockTaken(t) /\ Lines(t) \in LinesType
        /\ \A n \in DOMAIN Lines(t) :
             /\ Lines(t)[n].ol_supply_w_id \in Warehouses /\ Lines(t)[n].ol_i_id \in Items
    BY <1>1, ListedHere
  <1>3. PICK w, i : /\ w = r[2] /\ i = r[4]
                    /\ w \in Warehouses /\ i \in Items /\ r = Stock(w, i)
    <2>1. r \in {"stock"} \X Warehouses \X {0} \X Items
      BY DEF Rows
    <2> QED BY <2>1 DEF Stock
  <1>4. PICK new, q : new = Lines(t) /\ q = db[r]
    OBVIOUS
  <1>5. CASE lock[r] = t
    <2>1. cur[r] = QuantityAfter(q, new, w, i)
      BY <1>2, <1>3, <1>4, <1>5 DEF StockTaken
    <2> QED BY <1>3, <1>4, <1>5, <2>1
  <1>6. CASE lock[r] # t
    <2>1. ASSUME NEW n \in DOMAIN new
          PROVE  ~ (new[n].ol_i_id = i /\ new[n].ol_supply_w_id = w)
      <3>1. lock[Stock(new[n].ol_supply_w_id, new[n].ol_i_id)] = t
        BY <1>2, <1>4 DEF StockTaken
      <3> QED BY <1>3, <1>6, <3>1
    <2>2. PICK T : new \in Seq(T)
      BY <1>2, <1>4 DEF LinesType
    <2>3. QuantityAfter(q, new, w, i) = q
      BY <2>1, <2>2, QuantityAfterOther
    <2> QED BY <1>3, <1>4, <1>6, <2>3
  <1> QED BY <1>5, <1>6

(* What a new order commits is TpccEffects' order of the same lines, in    *)
(* the order of their stock rows.                                          *)
LEMMA NewordCommits ==
    ASSUME TypeOK, FootprintInv, NEW t \in Threads, NewordCommit(t)
    PROVE  /\ job[t] \in NewOrderJobs
           /\ db[District(job[t].w, job[t].d)].d_next_o_id \in OrderIds
           /\ db' = Ordering(db, job[t], Lines(t))
  <1>0. PICK o, D, O, N, L : o = loc[t].o /\ NewordNames(t, o, D, O, N, L)
    BY DEF NewordNames
  <1>1. pc[t] = "neword_commit" /\ Commit(t)
    BY DEF NewordCommit
  <1>2. /\ pc[t] \in Numbered /\ pc[t] \in Advanced /\ pc[t] \in Inserted /\ pc[t] \in Listed
    BY <1>1 DEF Numbered, Advanced, Inserted, Listed
  <1>3. NewordState(t, o, D, O, N, L) /\ pc[t] \in NewordLabels
    BY <1>0, <1>2, NewordHere
  <1>4. /\ \A r \in Rows : lock[r] = t => r = D \/ r = O \/ r = N \/ r = L \/ r[1] = "stock"
        /\ lock[D] = t /\ db[D].d_next_o_id = o
        /\ cur[D] = [db[D] EXCEPT !.d_next_o_id = o + 1]
        /\ o \in OrderIds /\ lock[O] = t
        /\ cur[O] = [o_c_id |-> job[t].c, o_carrier_id |-> 0, o_ol_cnt |-> Len(job[t].lines)]
        /\ lock[N] = t
    BY <1>2, <1>3 DEF NewordState
  <1>5. cur[N] = TRUE
    BY <1>2, <1>3 DEF NewordState
  <1>6. /\ D \in Rows /\ O \in Rows /\ N \in Rows /\ L \in Rows
        /\ D # O /\ D # N /\ D # L /\ O # N /\ O # L /\ N # L
        /\ D[1] # "stock" /\ O[1] # "stock" /\ N[1] # "stock" /\ L[1] # "stock"
    BY <1>0, <1>3, <1>4, NewordRowsDiffer
  <1>7. PICK new : /\ new = Lines(t) /\ new # <<>> /\ Len(new) = Len(job[t].lines)
    BY <1>1, AllLinesIn
  <1>8. lock[L] = t /\ cur[L] = new
    BY <1>0, <1>7 DEF Lines, NewordNames
  <1>9. PICK R : R = Ordering(db, job[t], new)
    OBVIOUS
  <1>10. /\ R = [r \in Rows |-> R[r]]
         /\ \A r \in Rows : R[r] =
              IF r = D THEN [db[r] EXCEPT !.d_next_o_id = o + 1]
              ELSE IF r = O
              THEN [o_c_id |-> job[t].c, o_carrier_id |-> 0, o_ol_cnt |-> Len(new)]
              ELSE IF r = N THEN TRUE
              ELSE IF r = L THEN new
              ELSE IF r[1] = "stock" THEN QuantityAfter(db[r], new, r[2], r[4])
              ELSE db[r]
    <2>1. OrderNames(db, job[t], o, D, O, N, L)
      BY <1>0, <1>4 DEF NewordNames, OrderNames
    <2>2. /\ R = [r \in Rows |-> R[r]]
          /\ \A r \in Rows : R[r] = OrderedRow(db, job[t], new, r, o, D, O, N, L)
      BY <1>9, <2>1, OrderingIs
    <2> QED BY <2>2 DEF OrderedRow
  <1>11. /\ db' = [r \in Rows |-> db'[r]]
         /\ \A r \in Rows : db'[r] = IF lock[r] = t THEN cur[r] ELSE db[r]
    BY <1>1 DEF Commit
  <1>12. \A r \in Rows : r[1] = "stock" => db'[r] = QuantityAfter(db[r], new, r[2], r[4])
    BY <1>1, <1>7, <1>11, StockCommitted
  <1>13. ASSUME NEW r \in Rows PROVE db'[r] = R[r]
    <2>1. CASE r = D
      BY <1>4, <1>10, <1>11, <2>1
    <2>2. CASE r = O
      BY <1>4, <1>6, <1>7, <1>10, <1>11, <2>2
    <2>3. CASE r = N
      <3>1. db'[N] = TRUE
        BY <1>4, <1>5, <1>6, <1>11
      <3>2. R[N] = TRUE
        BY <1>6, <1>10
      <3> QED BY <2>3, <3>1, <3>2
    <2>4. CASE r = L
      <3>1. db'[L] = new
        BY <1>6, <1>8, <1>11
      <3>2. R[L] = new
        BY <1>6, <1>10
      <3> QED BY <2>4, <3>1, <3>2
    <2>5. CASE r[1] = "stock"
      BY <1>6, <1>10, <1>12, <2>5
    <2>6. CASE r # D /\ r # O /\ r # N /\ r # L /\ r[1] # "stock"
      <3>1. lock[r] # t
        BY <1>4, <2>6
      <3>2. db'[r] = db[r]
        BY <1>11, <3>1
      <3>3. R[r] = db[r]
        BY <1>10, <2>6
      <3> QED BY <3>2, <3>3
    <2> QED BY <2>1, <2>2, <2>3, <2>4, <2>5, <2>6
  <1>14. db' = R
    BY <1>10, <1>11, <1>13
  <1>15. job[t] \in NewOrderJobs
    BY <1>3, OrderRows
  <1> QED BY <1>0, <1>4, <1>7, <1>9, <1>14, <1>15 DEF NewordNames

(* COMMIT *)
LEMMA NewordCommitKeeps ==
    ASSUME TypeOK, FootprintInv, NEW t \in Threads, NewordCommit(t)
    PROVE  FootprintInv'
  <1>1. /\ job[t] \in NewOrderJobs
        /\ db[District(job[t].w, job[t].d)].d_next_o_id \in OrderIds
        /\ db' = Ordering(db, job[t], Lines(t))
    BY NewordCommits
  <1>2. /\ Lines(t) \in LinesType /\ Lines(t) # <<>>
        /\ \A n \in DOMAIN Lines(t) : Lines(t)[n].ol_quantity \in 1 .. 10
    BY AllLinesIn DEF NewordCommit
  <1>3. ConsistentDb(db)
    BY DEF FootprintInv
  <1>4. ConsistentDb(Ordering(db, job[t], Lines(t)))
        /\ Earlier(db, Ordering(db, job[t], Lines(t)))
    BY <1>1, <1>2, <1>3, OrderingConsistent
  <1>5. ConsistentDb(db') /\ Earlier(db, db')
    BY <1>1, <1>4
  <1>6. Commit(t) /\ ControlKept(t) /\ pc'[t] \in RestLabels
    BY ReturnKeeps DEF NewordCommit, RestLabels
  <1> QED BY <1>5, <1>6, CommitStep

(* No statement of neword() breaks the invariant. *)
LEMMA NewordKeeps ==
    ASSUME TypeOK, FootprintInv, NEW t \in Threads, Neword(t)
    PROVE  FootprintInv'
  BY NewordSelectCustomerKeeps, NewordSelectDistrictKeeps, NewordUpdateDistrictKeeps,
     NewordInsertOrderKeeps, NewordInsertRejectedKeeps, NewordInsertNewOrderKeeps,
     NewordSelectItemKeeps, NewordInvalidItemKeeps, NewordSelectStockKeeps,
     NewordUpdateStockKeeps, NewordInsertLineKeeps, NewordCommitKeeps DEF Neword

----------------------------------------------------------------------------
(* ordstat() and slev() *)

(* What a function that only reads sees of the database. *)
LEMMA ReaderSees ==
    ASSUME TypeOK, FootprintInv, NEW t \in Threads, pc[t] \in OrdstatLabels \cup SlevLabels
    PROVE  /\ job[t].w \in Warehouses /\ job[t].d \in Districts
           /\ Held(t) = {}
           /\ \A r \in Rows : View(t)[r] = SnapshotOf(t)[r]
           /\ ConsistentDb(SnapshotOf(t)) /\ Earlier(SnapshotOf(t), db)
  <1>1. job[t] \in OrdStatJobs \cup SlevJobs
    BY DEF TypeOK, ControlTypeOK, JobOf
  <1>2. job[t].w \in Warehouses /\ job[t].d \in Districts
    BY <1>1 DEF OrdStatJobs, SlevJobs
  <1>3. /\ Held(t) = {} /\ ConsistentDb(SnapshotOf(t)) /\ Earlier(SnapshotOf(t), db)
    BY DEF FootprintInv, Footprint, FreeLabels
  <1>4. \A r \in Rows : lock[r] # t
    BY <1>3 DEF Held
  <1> QED BY <1>2, <1>3, <1>4, ViewIs

(* SELECT o_id FROM orders *)
LEMMA OrdstatSelectOrderKeeps ==
    ASSUME TypeOK, FootprintInv, NEW t \in Threads, OrdstatSelectOrder(t)
    PROVE  FootprintInv'
  <1>1. PICK o \in OrdersOf(View(t), job[t].w, job[t].d, job[t].c) :
          /\ Step(t, "ordstat7", "ordstat8") /\ Select(t)
          /\ loc' = [loc EXCEPT ![t].o = o]
    BY DEF OrdstatSelectOrder
  <1>2. /\ loc'[t].o = o /\ \A u \in Threads \ {t} : loc'[u] = loc[u]
    BY <1>1 DEF TypeOK, LocalsTypeOK, LocalsType, NoLocals
  <1>3. /\ OwnRowsOnly(t) /\ OthersKeep(t) /\ UnlockedIsCommitted'
        /\ db' = db /\ Held(t)' = Held(t)
        /\ SnapshotOf(t)' = SnapshotOf(t)
        /\ pc[t] = "ordstat7" /\ pc'[t] = "ordstat8" /\ job'[t] = job[t]
    BY <1>1, <1>2, SelectStep
  <1>4. /\ job[t].w \in Warehouses /\ job[t].d \in Districts /\ Held(t) = {}
        /\ \A r \in Rows : View(t)[r] = SnapshotOf(t)[r]
    BY <1>3, ReaderSees DEF OrdstatLabels
  <1>5. job[t].c \in Customers /\ 0 \notin Customers
    <2>1. job[t] \in OrdStatJobs
      BY <1>3 DEF TypeOK, ControlTypeOK, JobOf, OrdstatLabels
    <2>2. 0 \notin Customers
      BY SchemaAssumption DEF Customers
    <2> QED BY <2>1, <2>2 DEF OrdStatJobs
  <1>6. OrderExists(SnapshotOf(t), job[t].w, job[t].d, o)
    <2>1. o \in OrderIds /\ View(t)[Orders(job[t].w, job[t].d, o)].o_c_id = job[t].c
      BY <1>1 DEF OrdersOf
    <2>2. Orders(job[t].w, job[t].d, o) \in Rows
      BY <1>4, <2>1, RowNames
    <2> QED BY <1>4, <1>5, <2>1, <2>2 DEF OrderExists
  <1>7. OrdstatReads(t)' /\ SlevReads(t)'
    BY <1>2, <1>3, <1>6 DEF OrdstatReads, SlevReads, OrderExists
  <1> QED BY <1>3, <1>4, <1>7, ReadStep DEF OrdstatLabels

(* SELECT ... FROM order_line *)
LEMMA OrdstatSelectLinesKeeps ==
    ASSUME TypeOK, FootprintInv, NEW t \in Threads, OrdstatSelectLines(t)
    PROVE  FootprintInv'
  <1>0. PICK n : n = Len(View(t)[OrderLine(job[t].w, job[t].d, loc[t].o)])
    OBVIOUS
  <1>1. /\ Step(t, "ordstat8", "ordstat_commit") /\ Select(t)
        /\ loc' = [loc EXCEPT ![t].rows = n]
    BY <1>0 DEF OrdstatSelectLines
  <1>2. /\ loc'[t].rows = n /\ loc'[t].o = loc[t].o
        /\ \A u \in Threads \ {t} : loc'[u] = loc[u]
    BY <1>1 DEF TypeOK, LocalsTypeOK, LocalsType, NoLocals
  <1>3. /\ OwnRowsOnly(t) /\ OthersKeep(t) /\ UnlockedIsCommitted'
        /\ db' = db /\ Held(t)' = Held(t)
        /\ SnapshotOf(t)' = SnapshotOf(t)
        /\ pc[t] = "ordstat8" /\ pc'[t] = "ordstat_commit" /\ job'[t] = job[t]
    BY <1>1, <1>2, SelectStep
  <1>4. /\ job[t].w \in Warehouses /\ job[t].d \in Districts /\ Held(t) = {}
        /\ \A r \in Rows : View(t)[r] = SnapshotOf(t)[r]
        /\ ConsistentDb(SnapshotOf(t)) /\ Earlier(SnapshotOf(t), db)
    BY <1>3, ReaderSees DEF OrdstatLabels
  <1>5. loc[t].o \in OrderIds
    BY <1>3 DEF TypeOK, LocalsTypeOK, LocalsType
  <1>6. OrderExists(SnapshotOf(t), job[t].w, job[t].d, loc[t].o)
    BY <1>3 DEF FootprintInv, Footprint, OrdstatReads
  <1>7. /\ OrderExists(db, job[t].w, job[t].d, loc[t].o)
        /\ db[Orders(job[t].w, job[t].d, loc[t].o)].o_ol_cnt =
             SnapshotOf(t)[Orders(job[t].w, job[t].d, loc[t].o)].o_ol_cnt
    BY <1>4, <1>5, <1>6, OrderStays
  <1>8. n = SnapshotOf(t)[Orders(job[t].w, job[t].d, loc[t].o)].o_ol_cnt
    <2>1. OrderLine(job[t].w, job[t].d, loc[t].o) \in Rows
      BY <1>4, <1>5, RowNames
    <2>2. OrdersHaveTheirLines(SnapshotOf(t))
      BY <1>4 DEF ConsistentDb, OrdersConsistent
    <2>3. Len(SnapshotOf(t)[OrderLine(job[t].w, job[t].d, loc[t].o)]) =
            SnapshotOf(t)[Orders(job[t].w, job[t].d, loc[t].o)].o_ol_cnt
      BY <1>4, <1>5, <2>2 DEF OrdersHaveTheirLines
    <2> QED BY <1>0, <1>4, <2>1, <2>3
  <1>9. OrdstatReads(t)' /\ SlevReads(t)'
    BY <1>2, <1>3, <1>7, <1>8 DEF OrdstatReads, SlevReads, OrderExists
  <1> QED BY <1>3, <1>4, <1>9, ReadStep DEF OrdstatLabels

(* A commit of a thread that has taken no row. *)
LEMMA ReaderCommitKeeps ==
    ASSUME TypeOK, FootprintInv, NEW t \in Threads, pc[t] \in FreeLabels, Commit(t),
           ControlKept(t), pc'[t] \in RestLabels
    PROVE  FootprintInv' /\ db' = db
  <1>1. Held(t) = {}
    BY DEF FootprintInv, Footprint
  <1>2. db' = db
    BY <1>1, CommitNothing
  <1>3. ConsistentDb(db') /\ Earlier(db, db')
    BY <1>2, EarlierSame DEF FootprintInv
  <1> QED BY <1>2, <1>3, CommitStep

(* COMMIT *)
LEMMA OrdstatCommitKeeps ==
    ASSUME TypeOK, FootprintInv, NEW t \in Threads, OrdstatCommit(t)
    PROVE  FootprintInv' /\ db' = db
  BY ReturnKeeps, ReaderCommitKeeps DEF OrdstatCommit, RestLabels, FreeLabels, OrdstatLabels

(* No statement of ordstat() breaks the invariant. *)
LEMMA OrdstatKeeps ==
    ASSUME TypeOK, FootprintInv, NEW t \in Threads, Ordstat(t)
    PROVE  FootprintInv'
  <1>1. CASE OrdstatSelectByName(t)
    <2>1. PICK c : loc' = [loc EXCEPT ![t].c = c]
      BY <1>1 DEF OrdstatSelectByName
    <2>2. \A u \in Threads \ {t} : loc'[u] = loc[u]
      BY <2>1 DEF TypeOK, LocalsTypeOK
    <2> QED BY <1>1, <2>2, RestSelect
            DEF OrdstatSelectByName, FreeLabels, RestLabels, OrdstatLabels
  <1>2. CASE OrdstatSelectCustomer(t)
    <2>2. \A u \in Threads \ {t} : loc'[u] = loc[u]
      BY <1>2 DEF OrdstatSelectCustomer, TypeOK, LocalsTypeOK
    <2> QED BY <1>2, <2>2, RestSelect
            DEF OrdstatSelectCustomer, FreeLabels, RestLabels, OrdstatLabels
  <1> QED BY <1>1, <1>2, OrdstatSelectOrderKeeps, OrdstatSelectLinesKeeps,
             OrdstatCommitKeeps DEF Ordstat

(* SELECT d_next_o_id FROM district *)
LEMMA SlevSelectDistrictKeeps ==
    ASSUME TypeOK, FootprintInv, NEW t \in Threads, SlevSelectDistrict(t)
    PROVE  FootprintInv'
  <1>0. PICK n : n = View(t)[District(job[t].w, job[t].d)].d_next_o_id
    OBVIOUS
  <1>1. /\ Step(t, "slev1", "slev2") /\ Select(t) /\ loc' = [loc EXCEPT ![t].o = n]
    BY <1>0 DEF SlevSelectDistrict
  <1>2. /\ loc'[t].o = n /\ \A u \in Threads \ {t} : loc'[u] = loc[u]
    BY <1>1 DEF TypeOK, LocalsTypeOK, LocalsType, NoLocals
  <1>3. /\ OwnRowsOnly(t) /\ OthersKeep(t) /\ UnlockedIsCommitted'
        /\ db' = db /\ Held(t)' = Held(t)
        /\ SnapshotOf(t)' = SnapshotOf(t)
        /\ pc[t] = "slev1" /\ pc'[t] = "slev2" /\ job'[t] = job[t]
    BY <1>1, <1>2, SelectStep
  <1>4. /\ job[t].w \in Warehouses /\ job[t].d \in Districts /\ Held(t) = {}
        /\ \A r \in Rows : View(t)[r] = SnapshotOf(t)[r]
        /\ ConsistentDb(SnapshotOf(t))
    BY <1>3, ReaderSees DEF SlevLabels
  <1>5. ASSUME NEW o \in OrderIds, o < n
        PROVE  OrderExists(SnapshotOf(t), job[t].w, job[t].d, o)
    <2>1. n = SnapshotOf(t)[District(job[t].w, job[t].d)].d_next_o_id
      BY <1>0, <1>4, RowNames
    <2>2. OrderNumbersDense(SnapshotOf(t))
      BY <1>4 DEF ConsistentDb, OrdersConsistent
    <2> QED BY <1>4, <1>5, <2>1, <2>2 DEF OrderNumbersDense
  <1>6. OrdstatReads(t)' /\ SlevReads(t)'
    BY <1>2, <1>3, <1>5 DEF OrdstatReads, SlevReads, OrderExists
  <1> QED BY <1>3, <1>4, <1>6, ReadStep DEF SlevLabels

(* SELECT DISTINCT ol_i_id FROM order_line *)
LEMMA SlevSelectLinesKeeps ==
    ASSUME TypeOK, FootprintInv, NEW t \in Threads, SlevSelectLines(t)
    PROVE  FootprintInv'
  <1>0. PICK seen : seen = {o \in OrderIds :
                              /\ o < loc[t].o /\ o >= loc[t].o - Window
                              /\ View(t)[OrderLine(job[t].w, job[t].d, o)] # <<>>}
    OBVIOUS
  <1>1. /\ Step(t, "slev2", "slev3") /\ Select(t) /\ loc' = [loc EXCEPT ![t].seen = seen]
    BY <1>0 DEF SlevSelectLines
  <1>2. /\ loc'[t].seen = seen /\ loc'[t].o = loc[t].o
        /\ \A u \in Threads \ {t} : loc'[u] = loc[u]
    BY <1>1 DEF TypeOK, LocalsTypeOK, LocalsType, NoLocals
  <1>3. /\ OwnRowsOnly(t) /\ OthersKeep(t) /\ UnlockedIsCommitted'
        /\ db' = db /\ Held(t)' = Held(t)
        /\ SnapshotOf(t)' = SnapshotOf(t)
        /\ pc[t] = "slev2" /\ pc'[t] = "slev3" /\ job'[t] = job[t]
    BY <1>1, <1>2, SelectStep
  <1>4. /\ job[t].w \in Warehouses /\ job[t].d \in Districts /\ Held(t) = {}
        /\ \A r \in Rows : View(t)[r] = SnapshotOf(t)[r]
        /\ ConsistentDb(SnapshotOf(t))
    BY <1>3, ReaderSees DEF SlevLabels
  <1>5. ASSUME NEW o \in OrderIds, o < loc[t].o
        PROVE  View(t)[OrderLine(job[t].w, job[t].d, o)] # <<>>
    <2>1. OrderExists(SnapshotOf(t), job[t].w, job[t].d, o)
      BY <1>3, <1>5 DEF FootprintInv, Footprint, SlevReads
    <2>2. RowsSound(SnapshotOf(t)) /\ OrdersHaveTheirLines(SnapshotOf(t))
      BY <1>4 DEF ConsistentDb, OrdersConsistent
    <2>3. SnapshotOf(t)[Orders(job[t].w, job[t].d, o)].o_ol_cnt # 0
      BY <1>4, <2>1, <2>2 DEF RowsSound
    <2>4. Len(SnapshotOf(t)[OrderLine(job[t].w, job[t].d, o)]) # 0
      BY <1>4, <2>2, <2>3 DEF OrdersHaveTheirLines
    <2>5. OrderLine(job[t].w, job[t].d, o) \in Rows
      BY <1>4, RowNames
    <2> QED BY <1>4, <2>4, <2>5
  <1>6. seen = Recent(t)
    BY <1>0, <1>5 DEF Recent
  <1>7. Recent(t)' = Recent(t)
    BY <1>2 DEF Recent
  <1>8. OrdstatReads(t)' /\ SlevReads(t)'
    BY <1>2, <1>3, <1>6, <1>7 DEF OrdstatReads, SlevReads
  <1> QED BY <1>3, <1>4, <1>8, ReadStep DEF SlevLabels

(* COMMIT *)
LEMMA SlevCommitKeeps ==
    ASSUME TypeOK, FootprintInv, NEW t \in Threads, SlevCommit(t)
    PROVE  FootprintInv' /\ db' = db
  BY ReturnKeeps, ReaderCommitKeeps DEF SlevCommit, RestLabels, FreeLabels, SlevLabels

(* No statement of slev() breaks the invariant. *)
LEMMA SlevKeeps ==
    ASSUME TypeOK, FootprintInv, NEW t \in Threads, Slev(t)
    PROVE  FootprintInv'
  <1>1. CASE SlevCountStock(t)
    BY <1>1, RestSelect DEF SlevCountStock, FreeLabels, RestLabels, SlevLabels
  <1> QED BY <1>1, SlevSelectDistrictKeeps, SlevSelectLinesKeeps, SlevCommitKeeps DEF Slev

----------------------------------------------------------------------------
(* The worker's loop. *)

(* A transaction is drawn. *)
LEMMA BeginKeeps ==
    ASSUME TypeOK, FootprintInv, NEW t \in Threads, Begin(t)
    PROVE  FootprintInv'
  <1>1. PICK j \in Jobs[t] : /\ job' = [job EXCEPT ![t] = j]
                             /\ pc' = [pc EXCEPT ![t] = FirstStatement(j)]
    BY DEF Begin
  <1>2. pc[t] = "idle" /\ db' = db /\ cur' = cur /\ lock' = lock /\ snap' = snap
    BY DEF Begin, store
  <1>3. pc'[t] \in RestLabels
    <2>1. j \in AllJobs
      BY TxnAssumption
    <2>2. pc'[t] = FirstStatement(j)
      BY <1>1 DEF TypeOK, ControlTypeOK
    <2> QED BY <2>1, <2>2, FirstStatementLabel DEF AllJobs, RestLabels
  <1>4. OthersKeep(t) /\ OwnRowsOnly(t) /\ UnlockedIsCommitted'
    <2>1. \A u \in Threads \ {t} : pc'[u] = pc[u] /\ job'[u] = job[u] /\ loc'[u] = loc[u]
      BY <1>1 DEF Begin, TypeOK, ControlTypeOK, LocalsTypeOK
    <2> QED BY <1>2, <2>1 DEF OthersKeep, OwnRowsOnly, FootprintInv, UnlockedIsCommitted
  <1>5. Held(t)' = Held(t) /\ SnapshotOf(t)' = SnapshotOf(t)
    BY <1>2 DEF Held, SnapshotOf
  <1>6. Held(t)' = {} /\ ConsistentDb(SnapshotOf(t)') /\ Earlier(SnapshotOf(t)', db')
    BY <1>2, <1>5 DEF FootprintInv, Footprint, FreeLabels
  <1>7. Footprint(t)'
    BY <1>3, <1>6, RestFootprint
  <1>8. ConsistentDb(db') /\ Earlier(db, db')
    BY <1>2, EarlierSame DEF FootprintInv
  <1> QED BY <1>2, <1>4, <1>7, <1>8, OwnStep

(* The worker disconnects. *)
LEMMA ThreadEndKeeps ==
    ASSUME TypeOK, FootprintInv, NEW t \in Threads, ThreadEnd(t)
    PROVE  FootprintInv' /\ db' = db
  <1>1. ControlKept(t) /\ pc'[t] = "done"
    BY DEF ThreadEnd, control, ControlKept, TypeOK, ControlTypeOK
  <1> QED BY <1>1, ReaderCommitKeeps DEF ThreadEnd, RestLabels, FreeLabels

(* A statement fails. *)
LEMMA StatementFailsKeeps ==
    ASSUME TypeOK, FootprintInv, NEW t \in Threads, StatementFails(t)
    PROVE  FootprintInv' /\ db' = db
  <1>1. SqlErr(t) /\ pc[t] \notin {"idle", "done"}
    BY DEF StatementFails
  <1> QED BY <1>1, SqlErrKeeps, RollbackStep DEF SqlErr, Rollback

(* A step that changes nothing. *)
LEMMA NothingKeeps ==
    ASSUME FootprintInv, UNCHANGED vars
    PROVE  FootprintInv'
  <1>1. /\ db' = db /\ cur' = cur /\ lock' = lock /\ snap' = snap
        /\ pc' = pc /\ job' = job /\ loc' = loc
    BY DEF vars
  <1>2. UnlockedIsCommitted' /\ ConsistentDb(db)' /\ Earlier(LoadedDb, db)'
        /\ db' = [r \in Rows |-> db'[r]]
    BY <1>1 DEF FootprintInv, UnlockedIsCommitted
  <1>3. ASSUME NEW t \in Threads PROVE Footprint(t)'
    <2>1. Footprint(t)
      BY DEF FootprintInv
    <2>2. Held(t)' = Held(t) /\ SnapshotOf(t)' = SnapshotOf(t)
      BY <1>1 DEF Held, SnapshotOf
    <2>3. NewordHolds(t)'
      <3>1. Lines(t)' = Lines(t) /\ Passed(t)' = Passed(t)
        BY <1>1 DEF Lines, Passed
      <3>2. CurrentLine(t)' = CurrentLine(t) /\ StockOfLine(t)' = StockOfLine(t)
        BY <1>1 DEF CurrentLine, StockOfLine
      <3>3. LinesInOrder(t) => LinesInOrder(t)'
        BY <1>1, <3>1, <3>2 DEF LinesInOrder, PlacedBy
      <3>4. StockTaken(t) => StockTaken(t)'
        BY <1>1, <3>1, <3>2 DEF StockTaken
      <3>5. ASSUME NEW w, NEW d, NEW o, NewordAt(t, w, d, o)
            PROVE  NewordAt(t, w, d, o)'
        BY <1>1, <3>3, <3>4, <3>5 DEF NewordAt
      <3> QED BY <1>1, <2>1, <3>5 DEF Footprint, NewordHolds
    <2>4. PaymentHolds(t)'
      <3>1. PayingCustomer(t)' = PayingCustomer(t) /\ PayingHistory(t)' = PayingHistory(t)
        BY <1>1 DEF PayingCustomer, PayingHistory
      <3>2. ASSUME NEW w, NEW d, NEW h, PaymentAt(t, w, d, h)
            PROVE  PaymentAt(t, w, d, h)'
        BY <1>1, <3>1, <3>2 DEF PaymentAt
      <3> QED BY <1>1, <2>1, <3>2 DEF Footprint, PaymentHolds
    <2>5. DeliveryHolds(t)'
      <3>1. ASSUME NEW w, NEW d, NEW o, DeliveryAt(t, w, d, o)
            PROVE  DeliveryAt(t, w, d, o)'
        BY <1>1, <2>2, <3>1 DEF DeliveryAt, OrderExists
      <3> QED BY <1>1, <2>1, <3>1 DEF Footprint, DeliveryHolds
    <2>6. OrdstatReads(t)' /\ SlevReads(t)'
      BY <1>1, <2>1, <2>2 DEF Footprint, OrdstatReads, SlevReads, Recent, OrderExists
    <2> QED BY <1>1, <2>1, <2>2, <2>3, <2>4, <2>5, <2>6 DEF Footprint
  <1> QED BY <1>2, <1>3 DEF FootprintInv

----------------------------------------------------------------------------
(* The footprint invariant holds. *)

(* The loaded database satisfies it, with every worker idle. *)
LEMMA FootprintInit == Init => FootprintInv
  <1> SUFFICES ASSUME Init PROVE FootprintInv
    OBVIOUS
  <1>1. /\ db = LoadedDb /\ cur = LoadedDb /\ lock = [r \in Rows |-> Null]
        /\ snap = [t \in Threads |-> Null] /\ pc = [t \in Threads |-> "idle"]
    BY DEF Init, StoreInit
  <1>2. UnlockedIsCommitted
    BY <1>1 DEF UnlockedIsCommitted
  <1>3. db = [r \in Rows |-> db[r]]
    BY <1>1 DEF LoadedDb
  <1>4. ConsistentDb(db) /\ Earlier(LoadedDb, db)
    BY <1>1, LoadedConsistent, EarlierSame
  <1>5. ASSUME NEW t \in Threads PROVE Footprint(t)
    <2>1. pc[t] = "idle" /\ SnapshotOf(t) = db
      BY <1>1 DEF SnapshotOf
    <2>2. Held(t) = {}
      BY <1>1, TxnAssumption DEF Held
    <2>3. ConsistentDb(SnapshotOf(t)) /\ Earlier(SnapshotOf(t), db)
      BY <1>4, <2>1, EarlierSame
    <2>4. NewordHolds(t)
      BY <2>1 DEF NewordHolds, Numbered, Advanced, Inserted, Listed
    <2>5. PaymentHolds(t)
      BY <2>1 DEF PaymentHolds, WarehousePaid, DistrictPaid, CustomerFound, CustomerRead,
           CustomerPaid
    <2>6. DeliveryHolds(t) /\ OrdstatReads(t) /\ SlevReads(t)
      BY <2>1 DEF DeliveryHolds, DeliveryLabels, OrdstatReads, SlevReads
    <2> QED BY <2>2, <2>3, <2>4, <2>5, <2>6 DEF Footprint
  <1> QED BY <1>2, <1>3, <1>4, <1>5 DEF FootprintInv

(* Every step keeps it. *)
LEMMA FootprintNext == TypeOK /\ FootprintInv /\ [Next]_vars => FootprintInv'
  <1> SUFFICES ASSUME TypeOK, FootprintInv, [Next]_vars PROVE FootprintInv'
    OBVIOUS
  <1>1. ASSUME NEW t \in Threads, Thread(t) PROVE FootprintInv'
    BY <1>1, BeginKeeps, ThreadEndKeeps, NewordKeeps, PaymentKeeps, DeliveryKeeps,
       OrdstatKeeps, SlevKeeps DEF Thread
  <1>2. ASSUME NEW t \in Threads, StatementFails(t) PROVE FootprintInv'
    BY <1>2, StatementFailsKeeps
  <1>3. CASE UNCHANGED vars
    BY <1>3, NothingKeeps
  <1> QED BY <1>1, <1>2, <1>3 DEF Next, Terminating

(* Whatever the interleaving, the failures and the retries: a thread holds *)
(* just the rows its statements so far have named, they are what a run     *)
(* alone would have made of the committed rows, and the committed          *)
(* database is consistent (neword.c, payment.c, delivery.c).               *)
THEOREM FootprintHolds == Spec => []FootprintInv
  BY FootprintInit, FootprintNext, TypeCorrect, PTL DEF Spec

----------------------------------------------------------------------------
(* What the committed database satisfies. *)

(* Committed orders are numbered without gaps or duplicates (neword.c,     *)
(* proceed 2 to 4).                                                        *)
THEOREM OrdersAreDense == Spec => []OrdersDense
  <1>1. FootprintInv => OrdersDense
    BY DEF FootprintInv, ConsistentDb, OrdersConsistent, OrdersDense
  <1> QED BY <1>1, FootprintHolds, PTL

(* An order waits in new_orders just while it has no carrier (neword.c,    *)
(* proceed 5; delivery.c, proceed 2 and 4).                                *)
THEOREM UndeliveredAreListed == Spec => []UndeliveredListed
  <1>1. FootprintInv => UndeliveredListed
    BY DEF FootprintInv, ConsistentDb, OrdersConsistent, UndeliveredListed
  <1> QED BY <1>1, FootprintHolds, PTL

(* No order is committed with lines missing or doubled (neword.c, the loop *)
(* over ol_number).                                                        *)
THEOREM OrdersAreComplete == Spec => []OrdersComplete
  <1>1. FootprintInv => OrdersComplete
    BY DEF FootprintInv, ConsistentDb, OrdersConsistent, OrdersComplete
  <1> QED BY <1>1, FootprintHolds, PTL

(* w_ytd, d_ytd and history agree on what was paid (payment.c).            *)
THEOREM PaymentsDoAddUp == Spec => []PaymentsAddUp
  <1>1. FootprintInv => PaymentsAddUp
    BY DEF FootprintInv, ConsistentDb, TotalsConsistent, PaymentsAddUp
  <1> QED BY <1>1, FootprintHolds, PTL

(* No update of s_quantity is lost (neword.c, proceed 7 and 8).            *)
THEOREM StockIsConsistent == Spec => []StockConsistent
  <1>1. FootprintInv => StockConsistent
    BY DEF FootprintInv, ConsistentDb, TotalsConsistent, StockConsistent
  <1> QED BY <1>1, FootprintHolds, PTL

(* No credit to a customer is lost (payment.c, proceed 6 to 9;             *)
(* delivery.c, proceed 7).                                                 *)
THEOREM NoCreditIsLost == Spec => []NoCreditLost
  <1>1. FootprintInv => NoCreditLost
    BY DEF FootprintInv, ConsistentDb, TotalsConsistent, NoCreditLost
  <1> QED BY <1>1, FootprintHolds, PTL

----------------------------------------------------------------------------
(* What the threads see. *)

(* An idle connection holds no lock, and a row nobody holds is as          *)
(* committed (the ROLLBACK at every sqlerr label).                         *)
THEOREM NothingIsLeftBehind == Spec => []NothingLeftBehind
  <1>1. FootprintInv => NothingLeftBehind
    BY DEF FootprintInv, Footprint, FreeLabels, UnlockedIsCommitted, NothingLeftBehind
  <1> QED BY <1>1, FootprintHolds, PTL

(* ordstat() sees all the lines of the order it reports (ordstat.c).       *)
THEOREM OrdstatSeesAll == Spec => []OrdstatSeesWholeOrder
  <1>1. FootprintInv => OrdstatSeesWholeOrder
    BY DEF FootprintInv, Footprint, OrdstatReads, OrdstatSeesWholeOrder
  <1> QED BY <1>1, FootprintHolds, PTL

(* slev() sees lines of every recent order of its district (slev.c).       *)
THEOREM SlevSeesAll == Spec => []SlevSeesEveryOrder
  <1>1. FootprintInv => SlevSeesEveryOrder
    BY DEF FootprintInv, Footprint, SlevReads, Recent, SlevSeesEveryOrder
  <1> QED BY <1>1, FootprintHolds, PTL

(* The INSERT INTO orders finds its key free: who could have taken it has  *)
(* the district row.                                                       *)
LEMMA NumberIsFree ==
    ASSUME TypeOK, FootprintInv, NEW t \in Threads, pc[t] = "neword4", loc[t].o \in OrderIds
    PROVE  ~ OrderExists(cur, job[t].w, job[t].d, loc[t].o)
  <1>1. PICK w, d, o, O : /\ w = job[t].w /\ d = job[t].d /\ o = loc[t].o
                          /\ O = Orders(w, d, o)
    OBVIOUS
  <1>2. /\ w \in Warehouses /\ d \in Districts /\ o \in OrderIds /\ o \in Nat
        /\ O \in Rows /\ District(w, d) \in Rows
    BY <1>1, OrderRows, RowNames DEF NewordLabels, TypeOK, LocalsTypeOK, LocalsType
  <1>3. NewordAt(t, w, d, o)
    BY <1>1 DEF FootprintInv, Footprint, NewordHolds, Numbered, Advanced
  <1>4. lock[District(w, d)] = t /\ db[District(w, d)].d_next_o_id = o
    BY <1>3 DEF NewordAt
  <1>5. ~ OrderExists(db, w, d, o)
    <2>1. OrderNumbersDense(db)
      BY DEF FootprintInv, ConsistentDb, OrdersConsistent
    <2> QED BY <1>2, <1>4, <2>1 DEF OrderNumbersDense
  <1>6. CASE lock[O] = Null
    BY <1>1, <1>2, <1>5, <1>6 DEF FootprintInv, UnlockedIsCommitted, OrderExists
  <1>7. lock[O] # t
    <2>1. pc[t] \notin Inserted /\ pc[t] \notin Listed
      BY DEF Inserted, Listed
    <2>2. O # District(w, d)
      BY <1>1 DEF Orders, District
    <2> QED BY <1>2, <1>3, <2>1, <2>2 DEF NewordAt
  <1>8. ASSUME NEW u \in Threads, lock[O] = u, u # t PROVE FALSE
    <2>1. Footprint(u)
      BY DEF FootprintInv
    <2>2. pc[u] \notin FreeLabels
      BY <1>2, <1>8, <2>1 DEF Footprint, Held
    <2>3. pc[u] \in Numbered \cup WarehousePaid \cup (DeliveryLabels \ {"delivery1"})
      BY <2>2 DEF TypeOK, ControlTypeOK, NewordLabels, PaymentLabels, FreeLabels, Numbered,
           Advanced, Inserted, Listed, WarehousePaid, DistrictPaid, CustomerFound,
           CustomerRead, CustomerPaid
    <2>4. CASE pc[u] \in Numbered
      <3>1. NewordAt(u, job[u].w, job[u].d, loc[u].o)
        BY <2>1, <2>4 DEF Footprint, NewordHolds
      <3>2. /\ O # District(job[u].w, job[u].d) /\ O[1] # "stock"
            /\ O # NewOrders(job[u].w, job[u].d, loc[u].o)
            /\ O # OrderLine(job[u].w, job[u].d, loc[u].o)
        BY <1>1 DEF Orders, District, NewOrders, OrderLine
      <3>3. O = Orders(job[u].w, job[u].d, loc[u].o)
        BY <1>2, <1>8, <3>1, <3>2 DEF NewordAt
      <3>4. job[u].w = w /\ job[u].d = d
        BY <1>1, <3>3 DEF Orders
      <3>5. lock[District(w, d)] = u
        BY <3>1, <3>4 DEF NewordAt
      <3> QED BY <1>4, <1>8, <3>5
    <2>5. CASE pc[u] \in WarehousePaid
      <3>1. PaymentAt(u, job[u].w, job[u].d, job[u].h_amount)
        BY <2>1, <2>5 DEF Footprint, PaymentHolds
      <3>2. /\ O # Warehouse(job[u].w) /\ O # District(job[u].w, job[u].d)
            /\ O # PayingCustomer(u) /\ O # PayingHistory(u)
        BY <1>1 DEF Orders, Warehouse, District, PayingCustomer, PayingHistory, Customer,
             History
      <3> QED BY <1>2, <1>8, <3>1, <3>2 DEF PaymentAt
    <2>6. CASE pc[u] \in DeliveryLabels \ {"delivery1"}
      <3>1. DeliveryAt(u, job[u].w, loc[u].d, loc[u].o)
        BY <2>1, <2>6 DEF Footprint, DeliveryHolds
      <3>2. /\ O # NewOrders(job[u].w, loc[u].d, loc[u].o)
            /\ O # OrderLine(job[u].w, loc[u].d, loc[u].o)
            /\ O # Customer(job[u].w, loc[u].d, loc[u].c)
        BY <1>1 DEF Orders, NewOrders, OrderLine, Customer
      <3>3. O = Orders(job[u].w, loc[u].d, loc[u].o)
        BY <1>2, <1>8, <3>1, <3>2 DEF DeliveryAt
      <3>4. job[u].w = w /\ loc[u].d = d /\ loc[u].o = o
        BY <1>1, <3>3 DEF Orders
      <3> QED BY <1>5, <2>6, <3>4, DeliveredExists
    <2> QED BY <2>3, <2>4, <2>5, <2>6
  <1> QED
    <2>1. lock[O] \in Threads \cup {Null}
      BY <1>2 DEF TypeOK, StoreTypeOK
    <2> QED BY <1>1, <1>6, <1>7, <1>8, <2>1

(* The insert of an order never finds its key taken (neword.c, proceed 4). *)
THEOREM OrderIdsAreFresh == Spec => []OrderIdFresh
  <1>1. TypeOK /\ FootprintInv => OrderIdFresh
    BY NumberIsFree DEF OrderIdFresh
  <1> QED BY <1>1, FootprintHolds, TypeCorrect, PTL

----------------------------------------------------------------------------
(* Every commit is one atomic transaction of TpccSerial, whose operators   *)
(* are the ones of TpccEffects.                                            *)
(* The same keys and the same rows. *)
LEMMA SerialSets ==
    /\ Serial!Warehouses = Warehouses /\ Serial!Districts = Districts
    /\ Serial!Customers = Customers /\ Serial!OrderIds = OrderIds
    /\ Serial!Items = Items /\ Serial!Rows = Rows
    /\ \A w, d, k : /\ Serial!District(w, d) = District(w, d)
                    /\ Serial!Orders(w, d, k) = Orders(w, d, k)
                    /\ Serial!NewOrders(w, d, k) = NewOrders(w, d, k)
                    /\ Serial!OrderLine(w, d, k) = OrderLine(w, d, k)
  BY DEF Serial!Warehouses, Warehouses, Serial!Districts, Districts, Serial!Customers,
      Customers, Serial!OrderIds, OrderIds, Serial!Items, Items, Serial!Rows, Rows,
      Serial!District, District, Serial!Orders, Orders, Serial!NewOrders, NewOrders,
      Serial!OrderLine, OrderLine

(* The same load. *)
LEMMA SerialLoaded == Serial!LoadedDb = LoadedDb
  BY DEF Serial!LoadedDb, LoadedDb, Serial!LoadedRow, LoadedRow,
      Serial!LoadedWarehouse, LoadedWarehouse, Serial!LoadedDistrict,
      LoadedDistrict, Serial!LoadedCustomer, LoadedCustomer, Serial!LoadedOrder,
      LoadedOrder, Serial!LoadedLines, LoadedLines, Serial!NoOrder, NoOrder,
      Serial!Rows, Rows, Serial!Warehouses, Warehouses, Serial!Districts, Districts,
      Serial!Customers, Customers, Serial!OrderIds, OrderIds, Serial!Items, Items

(* The same new order. *)
LEMMA SerialOrdering ==
    ASSUME NEW j, NEW lines
    PROVE  Serial!Ordering(db, j, lines) = Ordering(db, j, lines)
  BY DEF Serial!Ordering, Ordering, Serial!District, District, Serial!Orders, Orders,
      Serial!NewOrders, NewOrders, Serial!OrderLine, OrderLine,
      Serial!QuantityAfter, QuantityAfter, Serial!Restock, Restock, Serial!Rows,
      Rows, Serial!Warehouses, Warehouses, Serial!Districts, Districts,
      Serial!Customers, Customers, Serial!OrderIds, OrderIds, Serial!Items, Items

(* The same order of lines. *)
LEMMA SerialProcessed ==
    ASSUME NEW lines
    PROVE  Serial!Processed(lines) = Processed(lines)
  BY DEF Serial!Processed, Processed, Serial!StockKey, StockKey, Serial!Bijection,
      Bijection, Serial!Injection, Injection, Serial!Surjection, Surjection,
      Serial!IsInjective, IsInjective

(* The same payment. *)
LEMMA SerialPaying ==
    ASSUME NEW j, NEW c
    PROVE  Serial!Paying(db, j, c) = Paying(db, j, c)
  BY DEF Serial!Paying, Paying, Serial!Warehouse, Warehouse, Serial!District, District,
      Serial!Customer, Customer, Serial!History, History

(* The same customer of a name. *)
LEMMA SerialMidpoint ==
    ASSUME NEW n, NEW c
    PROVE  Serial!MidpointCustomer(n, c) = MidpointCustomer(n, c)
  <1>1. \A S : Serial!Cardinality(S) = Cardinality(S)
    BY DEF Serial!Cardinality, Cardinality, Serial!IsFiniteSet, IsFiniteSet
  <1> QED BY <1>1 DEF Serial!MidpointCustomer, MidpointCustomer, Serial!Customers, Customers

(* The same amount. *)
LEMMA SerialAmount ==
    ASSUME NEW lines
    PROVE  Serial!OrderAmount(lines) = OrderAmount(lines)
  BY DEF Serial!OrderAmount, OrderAmount, Serial!FoldFunction, FoldFunction,
      Serial!FoldFunctionOnSet, FoldFunctionOnSet, Serial!MapThenFoldSet,
      MapThenFoldSet

(* The same delivery.                                                      *)
LEMMA SerialDelivering ==
    ASSUME NEW w, NEW d, NEW o
    PROVE  Serial!Delivering(db, w, d, o) = Delivering(db, w, d, o)
  BY SerialAmount DEF Serial!Delivering, Delivering, Serial!Customer, Customer, Serial!Orders,
      Orders, Serial!NewOrders, NewOrders, Serial!OrderLine, OrderLine

(* COMMIT in neword.c *)
LEMMA NewordCommitIsSerial ==
    ASSUME TypeOK, FootprintInv, NEW t \in Threads, NewordCommit(t)
    PROVE  Serial!Placement
  <1>1. /\ job[t] \in NewOrderJobs
        /\ db[District(job[t].w, job[t].d)].d_next_o_id \in OrderIds
        /\ db' = Ordering(db, job[t], Lines(t))
    BY NewordCommits
  <1>2. /\ Lines(t) \in Processed(job[t].lines)
        /\ \A i \in DOMAIN job[t].lines : job[t].lines[i].ol_i_id \in Items
    BY AllLinesIn DEF NewordCommit
  <1>3. job[t] \in AnyJob
    BY <1>1, TxnAssumption DEF TypeOK, ControlTypeOK, AllJobs
  <1>4. job[t].kind = "neword"
    BY <1>1 DEF NewOrderJobs
  <1>5. Serial!NewOrder(job[t])
    BY <1>1, <1>2, <1>4, SerialSets, SerialOrdering, SerialProcessed DEF Serial!NewOrder
  <1> QED BY <1>3, <1>5 DEF Serial!Placement

(* COMMIT in payment.c *)
LEMMA PaymentCommitIsSerial ==
    ASSUME TypeOK, FootprintInv, NEW t \in Threads, PaymentCommit(t)
    PROVE  Serial!Placement
  <1>1. /\ job[t] \in PaymentJobs /\ loc[t].c \in Payers(job[t])
        /\ db' = Paying(db, job[t], loc[t].c)
    BY PaymentCommits
  <1>2. job[t] \in AnyJob
    BY <1>1, TxnAssumption DEF TypeOK, ControlTypeOK, AllJobs
  <1>3. job[t].kind = "payment"
    BY <1>1 DEF PaymentJobs
  <1>4. Serial!Payment(job[t])
    BY <1>1, <1>3, SerialPaying, SerialMidpoint DEF Serial!Payment, Payers
  <1> QED BY <1>2, <1>4 DEF Serial!Placement

(* Every other step leaves the committed database as it is. *)
LEMMA OnlyCommitsChangeDb ==
    ASSUME TypeOK, FootprintInv, [Next]_vars,
           \A t \in Threads : ~ NewordCommit(t) /\ ~ PaymentCommit(t) /\ ~ DeliveryCommit(t)
    PROVE  db' = db
  <1> USE DEF Select, SelectForUpdate, Write, Rollback, NoRowMatches, SqlErr
  <1>1. ASSUME NEW t \in Threads, Neword(t) PROVE db' = db
    BY <1>1 DEF Neword, NewordSelectCustomer, NewordSelectDistrict, NewordUpdateDistrict,
       NewordInsertOrder, NewordInsertRejected, NewordInsertNewOrder, NewordSelectItem,
       NewordInvalidItem, NewordSelectStock, NewordUpdateStock, NewordInsertLine
  <1>2. ASSUME NEW t \in Threads, Payment(t) PROVE db' = db
    BY <1>2 DEF Payment, PaymentUpdateWarehouse, PaymentSelectWarehouse,
       PaymentUpdateDistrict, PaymentSelectDistrict, PaymentSelectCustomer,
       PaymentSelectData, PaymentUpdateBadCredit, PaymentUpdateCustomer,
       PaymentInsertHistory
  <1>3. ASSUME NEW t \in Threads, Delivery(t) PROVE db' = db
    BY <1>3 DEF Delivery, DeliverySelectOldest, DeliverySkipDistrict,
       DeliveryDeleteNewOrder, DeliverySelectCustomer, DeliveryUpdateOrder,
       DeliveryUpdateLines, DeliverySumLines, DeliveryUpdateCustomer
  <1>4. ASSUME NEW t \in Threads, Ordstat(t) PROVE db' = db
    BY <1>4, OrdstatCommitKeeps DEF Ordstat, OrdstatSelectByName, OrdstatSelectCustomer,
       OrdstatSelectOrder, OrdstatSelectLines
  <1>5. ASSUME NEW t \in Threads, Slev(t) PROVE db' = db
    BY <1>5, SlevCommitKeeps DEF Slev, SlevSelectDistrict, SlevSelectLines, SlevCountStock
  <1>6. ASSUME NEW t \in Threads, Begin(t) \/ ThreadEnd(t) \/ StatementFails(t)
        PROVE  db' = db
    BY <1>6, ThreadEndKeeps, StatementFailsKeeps DEF Begin, store
  <1>7. CASE UNCHANGED vars
    BY <1>7 DEF vars
  <1> QED BY <1>1, <1>2, <1>3, <1>4, <1>5, <1>6, <1>7 DEF Next, Thread, Terminating

----------------------------------------------------------------------------
(* Deliveries pass over no order that waits.                               *)

(* Past DeliverySelectOldest. *)
Chosen == DeliveryLabels \ {"delivery1"}

(* A step of t touches no other thread, and t settles on an order to       *)
(* deliver only in DeliverySelectOldest.                                   *)
Moved(t) ==
    /\ ControlKept(t)
    /\ pc'[t] \in Chosen =>
         \/ DeliverySelectOldest(t)
         \/ /\ pc[t] \in Chosen /\ job'[t] = job[t]
            /\ loc'[t].d = loc[t].d /\ loc'[t].o = loc[t].o

LocKept(t) == \A u \in Threads \ {t} : loc'[u] = loc[u]

(* A statement of a function other than delivery(). *)
LEMMA OtherStepMoved ==
    ASSUME TypeOK, NEW t \in Threads, NEW from, NEW to, Step(t, from, to), LocKept(t),
           to \notin Chosen
    PROVE  Moved(t)
  BY StepKeeps DEF Moved, LocKept

(* A statement of delivery() on the order chosen. *)
LEMMA ChosenStepMoved ==
    ASSUME TypeOK, NEW t \in Threads, NEW from \in Chosen, NEW to, Step(t, from, to),
           LocKept(t), loc'[t].d = loc[t].d, loc'[t].o = loc[t].o
    PROVE  Moved(t)
  BY StepKeeps DEF Moved, LocKept

(* The function returns, or starts over. *)
LEMMA ReturnMoved ==
    ASSUME TypeOK, NEW t \in Threads,
           Return(t) \/ NextDistrict(t) \/ (SqlErr(t) /\ pc[t] \notin {"idle", "done"})
    PROVE  Moved(t)
  <1>1. ControlKept(t) /\ pc'[t] \in RestLabels \cup {"delivery1"}
    BY ReturnKeeps, NextDistrictKeeps, SqlErrKeeps DEF RestLabels
  <1>2. pc'[t] \notin Chosen
    BY <1>1 DEF RestLabels, Chosen, DeliveryLabels
  <1> QED BY <1>1, <1>2 DEF Moved

(* neword() *)
LEMMA NewordMoved ==
    ASSUME TypeOK, NEW t \in Threads, Neword(t)
    PROVE  Moved(t)
  <1> USE DEF Chosen, DeliveryLabels
  <1>1. DOMAIN loc = Threads
    BY DEF TypeOK, LocalsTypeOK
  <1>2. CASE NewordSelectCustomer(t)
    BY <1>2, OtherStepMoved DEF NewordSelectCustomer, LocKept
  <1>3. CASE NewordSelectDistrict(t)
    BY <1>1, <1>3, OtherStepMoved DEF NewordSelectDistrict, LocKept
  <1>4. CASE NewordUpdateDistrict(t)
    BY <1>4, OtherStepMoved DEF NewordUpdateDistrict, LocKept
  <1>5. CASE NewordInsertOrder(t)
    BY <1>5, OtherStepMoved DEF NewordInsertOrder, LocKept
  <1>6. CASE NewordInsertRejected(t)
    BY <1>6, ReturnMoved DEF NewordInsertRejected
  <1>7. CASE NewordInsertNewOrder(t)
    BY <1>1, <1>7, OtherStepMoved DEF NewordInsertNewOrder, LocKept
  <1>8. CASE NewordSelectItem(t)
    BY <1>1, <1>8, OtherStepMoved DEF NewordSelectItem, LocKept
  <1>9. CASE NewordInvalidItem(t) \/ NewordCommit(t)
    BY <1>9, ReturnMoved DEF NewordInvalidItem, NewordCommit
  <1>10. CASE NewordSelectStock(t)
    BY <1>1, <1>10, OtherStepMoved DEF NewordSelectStock, LocKept
  <1>11. CASE NewordUpdateStock(t)
    BY <1>11, OtherStepMoved DEF NewordUpdateStock, LocKept
  <1>12. CASE NewordInsertLine(t)
    BY <1>12, OtherStepMoved DEF NewordInsertLine, LocKept
  <1> QED BY <1>2, <1>3, <1>4, <1>5, <1>6, <1>7, <1>8, <1>9, <1>10, <1>11, <1>12 DEF Neword

(* payment() *)
LEMMA PaymentMoved ==
    ASSUME TypeOK, NEW t \in Threads, Payment(t)
    PROVE  Moved(t)
  <1> USE DEF Chosen, DeliveryLabels
  <1>1. DOMAIN loc = Threads
    BY DEF TypeOK, LocalsTypeOK
  <1>2. CASE PaymentUpdateWarehouse(t)
    BY <1>2, OtherStepMoved DEF PaymentUpdateWarehouse, LocKept
  <1>3. CASE PaymentSelectWarehouse(t)
    BY <1>3, OtherStepMoved DEF PaymentSelectWarehouse, LocKept
  <1>4. CASE PaymentUpdateDistrict(t)
    BY <1>4, OtherStepMoved DEF PaymentUpdateDistrict, LocKept
  <1>5. CASE PaymentSelectDistrict(t)
    BY <1>1, <1>5, OtherStepMoved DEF PaymentSelectDistrict, LocKept
  <1>6. CASE PaymentSelectCustomer(t)
    BY <1>1, <1>6, OtherStepMoved DEF PaymentSelectCustomer, LocKept
  <1>7. CASE PaymentSelectData(t)
    BY <1>1, <1>7, OtherStepMoved DEF PaymentSelectData, LocKept
  <1>8. CASE PaymentUpdateBadCredit(t)
    BY <1>8, OtherStepMoved DEF PaymentUpdateBadCredit, LocKept
  <1>9. CASE PaymentUpdateCustomer(t)
    BY <1>9, OtherStepMoved DEF PaymentUpdateCustomer, LocKept
  <1>10. CASE PaymentInsertHistory(t)
    BY <1>10, OtherStepMoved DEF PaymentInsertHistory, LocKept
  <1>11. CASE PaymentCommit(t)
    BY <1>11, ReturnMoved DEF PaymentCommit
  <1> QED BY <1>2, <1>3, <1>4, <1>5, <1>6, <1>7, <1>8, <1>9, <1>10, <1>11 DEF Payment

(* delivery() *)
LEMMA DeliveryMoved ==
    ASSUME TypeOK, NEW t \in Threads, Delivery(t)
    PROVE  Moved(t)
  <1> USE DEF Chosen, DeliveryLabels
  <1>1. DOMAIN loc = Threads /\ DOMAIN loc[t] = DOMAIN NoLocals
    BY DEF TypeOK, LocalsTypeOK, LocalsType
  <1>2. CASE DeliverySelectOldest(t)
    <2>1. Step(t, "delivery1", "delivery2") /\ LocKept(t)
      BY <1>1, <1>2 DEF DeliverySelectOldest, LocKept
    <2> QED BY <1>2, <2>1, StepKeeps DEF Moved, LocKept
  <1>3. CASE DeliverySkipDistrict(t) \/ DeliveryCommit(t)
    BY <1>3, ReturnMoved DEF DeliverySkipDistrict, DeliveryCommit
  <1>4. CASE DeliveryDeleteNewOrder(t)
    BY <1>4, ChosenStepMoved DEF DeliveryDeleteNewOrder, LocKept
  <1>5. CASE DeliverySelectCustomer(t)
    BY <1>1, <1>5, ChosenStepMoved DEF DeliverySelectCustomer, LocKept, NoLocals
  <1>6. CASE DeliveryUpdateOrder(t)
    BY <1>6, ChosenStepMoved DEF DeliveryUpdateOrder, LocKept
  <1>7. CASE DeliveryUpdateLines(t)
    BY <1>7, ChosenStepMoved DEF DeliveryUpdateLines, LocKept
  <1>8. CASE DeliverySumLines(t)
    BY <1>1, <1>8, ChosenStepMoved DEF DeliverySumLines, LocKept, NoLocals
  <1>9. CASE DeliveryUpdateCustomer(t)
    BY <1>9, ChosenStepMoved DEF DeliveryUpdateCustomer, LocKept
  <1> QED BY <1>2, <1>3, <1>4, <1>5, <1>6, <1>7, <1>8, <1>9 DEF Delivery

(* ordstat() and slev() *)
LEMMA ReaderMoved ==
    ASSUME TypeOK, NEW t \in Threads, Ordstat(t) \/ Slev(t)
    PROVE  Moved(t)
  <1> USE DEF Chosen, DeliveryLabels
  <1>1. DOMAIN loc = Threads
    BY DEF TypeOK, LocalsTypeOK
  <1>2. CASE OrdstatSelectByName(t)
    BY <1>1, <1>2, OtherStepMoved DEF OrdstatSelectByName, LocKept
  <1>3. CASE OrdstatSelectCustomer(t)
    BY <1>1, <1>3, OtherStepMoved DEF OrdstatSelectCustomer, LocKept
  <1>4. CASE OrdstatSelectOrder(t)
    BY <1>1, <1>4, OtherStepMoved DEF OrdstatSelectOrder, LocKept
  <1>5. CASE OrdstatSelectLines(t)
    BY <1>1, <1>5, OtherStepMoved DEF OrdstatSelectLines, LocKept
  <1>6. CASE SlevSelectDistrict(t)
    BY <1>1, <1>6, OtherStepMoved DEF SlevSelectDistrict, LocKept
  <1>7. CASE SlevSelectLines(t)
    BY <1>1, <1>7, OtherStepMoved DEF SlevSelectLines, LocKept
  <1>8. CASE SlevCountStock(t)
    BY <1>1, <1>8, OtherStepMoved DEF SlevCountStock, LocKept
  <1>9. CASE OrdstatCommit(t) \/ SlevCommit(t)
    BY <1>9, ReturnMoved DEF OrdstatCommit, SlevCommit
  <1> QED BY <1>2, <1>3, <1>4, <1>5, <1>6, <1>7, <1>8, <1>9 DEF Ordstat, Slev

(* The worker's loop, and a failing statement. *)
LEMMA LoopMoved ==
    ASSUME TypeOK, NEW t \in Threads, Begin(t) \/ ThreadEnd(t) \/ StatementFails(t)
    PROVE  Moved(t)
  <1>1. CASE Begin(t)
    <2>1. PICK j \in Jobs[t] : /\ job' = [job EXCEPT ![t] = j]
                               /\ pc' = [pc EXCEPT ![t] = FirstStatement(j)]
      BY <1>1 DEF Begin
    <2>2. j \in AllJobs
      BY TxnAssumption
    <2>3. pc'[t] \in RestLabels
      BY <2>1, <2>2, FirstStatementLabel DEF TypeOK, ControlTypeOK, AllJobs, RestLabels
    <2>4. pc'[t] \notin Chosen
      BY <2>3 DEF RestLabels, Chosen, DeliveryLabels
    <2>5. ControlKept(t) /\ job'[t] = j
      BY <1>1, <2>1 DEF Begin, TypeOK, ControlTypeOK, LocalsTypeOK, ControlKept
    <2> QED BY <2>4, <2>5 DEF Moved
  <1>2. CASE ThreadEnd(t)
    BY <1>2 DEF ThreadEnd, control, TypeOK, ControlTypeOK, Moved, ControlKept, Chosen,
         DeliveryLabels
  <1>3. CASE StatementFails(t)
    BY <1>3, ReturnMoved DEF StatementFails
  <1> QED BY <1>1, <1>2, <1>3

(* Who moves in a step. *)
LEMMA SomeoneMoves ==
    ASSUME TypeOK, [Next]_vars
    PROVE  \/ UNCHANGED vars
           \/ \E t \in Threads : Moved(t) /\ (Thread(t) \/ StatementFails(t))
  BY NewordMoved, PaymentMoved, DeliveryMoved, ReaderMoved, LoopMoved
     DEF Next, Thread, Terminating

(* An order that comes to wait is a new one. *)
LEMMA WaitingOrders ==
    ASSUME TypeOK, FootprintInv, [Next]_vars,
           NEW w \in Warehouses, NEW d \in Districts, NEW o \in OrderIds
    PROVE  db'[NewOrders(w, d, o)] =>
             \/ db[NewOrders(w, d, o)]
             \/ db[District(w, d)].d_next_o_id <= o
  <1>1. StoreType(db)
    BY DEF TypeOK, StoreTypeOK
  <1>2. CASE \A t \in Threads : ~ NewordCommit(t) /\ ~ PaymentCommit(t) /\ ~ DeliveryCommit(t)
    BY <1>2, OnlyCommitsChangeDb
  <1>3. ASSUME NEW t \in Threads, NewordCommit(t)
        PROVE  \/ db'[NewOrders(w, d, o)] = db[NewOrders(w, d, o)]
               \/ db'[NewOrders(w, d, o)] /\ db[District(w, d)].d_next_o_id = o
    <2>1. PICK n : n = db[District(job[t].w, job[t].d)].d_next_o_id
      OBVIOUS
    <2>2. AsOrdered(db', db, job[t], Lines(t), n)
      <3>1. /\ job[t] \in NewOrderJobs /\ n \in OrderIds
            /\ db' = Ordering(db, job[t], Lines(t))
        BY <1>3, <2>1, NewordCommits
      <3>2. AsOrdered(Ordering(db, job[t], Lines(t)), db, job[t], Lines(t), n)
        BY <1>1, <2>1, <3>1, OrderingRows
      <3> QED BY <3>1, <3>2
    <2>3. CASE w = job[t].w /\ d = job[t].d /\ o = n
      <3>1. db'[NewOrders(w, d, o)] = TRUE
        BY <2>2, <2>3 DEF AsOrdered
      <3> QED BY <2>1, <2>3, <3>1
    <2>4. CASE ~ (w = job[t].w /\ d = job[t].d /\ o = n)
      BY <2>2, <2>4 DEF AsOrdered
    <2> QED BY <2>3, <2>4
  <1>4. ASSUME NEW t \in Threads, PaymentCommit(t)
        PROVE  db'[NewOrders(w, d, o)] = db[NewOrders(w, d, o)]
    <2>1. job[t] \in PaymentJobs /\ loc[t].c \in Customers
          /\ db' = Paying(db, job[t], loc[t].c)
      BY <1>4, PaymentCommits
    <2>2. AsPaid(db', db, job[t], loc[t].c)
      BY <1>1, <2>1, PayingRows
    <2> QED BY <2>2 DEF AsPaid
  <1>5. ASSUME NEW t \in Threads, DeliveryCommit(t)
        PROVE  \/ db'[NewOrders(w, d, o)] = db[NewOrders(w, d, o)]
               \/ db'[NewOrders(w, d, o)] = FALSE
    <2>1. PICK x, y, p, c : /\ x = job[t].w /\ y = loc[t].d /\ p = loc[t].o
                            /\ c = db[Orders(x, y, p)].o_c_id
      OBVIOUS
    <2>2. /\ x \in Warehouses /\ y \in Districts /\ p \in OrderIds
          /\ OrderExists(db, x, y, p) /\ db' = Delivering(db, x, y, p)
      BY <1>5, <2>1, DeliveryCommits
    <2>3. c \in Customers
      BY <2>1, <2>2 DEF FootprintInv, ConsistentDb, RowsSound
    <2>4. AsDelivered(db', db, x, y, p, c)
      BY <1>1, <2>1, <2>2, <2>3, DeliveringRows
    <2>5. CASE w = x /\ d = y /\ o = p
      BY <2>1, <2>4, <2>5 DEF AsDelivered
    <2>6. CASE ~ (w = x /\ d = y /\ o = p)
      BY <2>4, <2>6 DEF AsDelivered
    <2> QED BY <2>5, <2>6
  <1>6. CASE \E t \in Threads : NewordCommit(t)
    <2>1. PICK n : n = db[District(w, d)].d_next_o_id
      OBVIOUS
    <2>2. n = o => n <= o
      BY DEF OrderIds
    <2> QED BY <1>3, <1>6, <2>1, <2>2
  <1>7. CASE \E t \in Threads : PaymentCommit(t)
    BY <1>4, <1>7
  <1>8. CASE \E t \in Threads : DeliveryCommit(t)
    BY <1>5, <1>8
  <1> QED BY <1>2, <1>6, <1>7, <1>8

(* No order of district d of warehouse w that waits is older than o. *)
SkipsNone(w, d, o) == \A p \in OrderIds : db[NewOrders(w, d, p)] => o <= p

(* SELECT COALESCE(MIN(no_o_id),0) passes over no order, old as the        *)
(* snapshot may be: what it does not see has been ordered since.           *)
LEMMA OldestSkipsNone ==
    ASSUME TypeOK, FootprintInv, NEW t \in Threads, DeliverySelectOldest(t)
    PROVE  /\ SkipsNone(job[t].w, loc[t].d, loc'[t].o)
           /\ db' = db /\ job'[t] = job[t] /\ loc'[t].d = loc[t].d
  <1>1. PICK o \in Undelivered(View(t), job[t].w, loc[t].d) :
          /\ \A p \in Undelivered(View(t), job[t].w, loc[t].d) : o <= p
          /\ loc' = [loc EXCEPT ![t].o = o]
    BY DEF DeliverySelectOldest
  <1>2. /\ loc'[t].o = o /\ loc'[t].d = loc[t].d /\ LocKept(t)
    BY <1>1 DEF TypeOK, LocalsTypeOK, LocalsType, NoLocals, LocKept
  <1>3. db' = db /\ pc[t] = "delivery1" /\ job'[t] = job[t]
    BY <1>2, SelectStep DEF DeliverySelectOldest, LocKept
  <1>4. PICK w, d, S : w = job[t].w /\ d = loc[t].d /\ S = SnapshotOf(t)
    OBVIOUS
  <1>5. w \in Warehouses /\ d \in Districts /\ o \in OrderIds
    <2>1. job[t] \in DeliveryJobs
      BY <1>3 DEF TypeOK, ControlTypeOK, JobOf, DeliveryLabels
    <2> QED BY <1>1, <1>4, <2>1
            DEF TypeOK, LocalsTypeOK, LocalsType, DeliveryJobs, Undelivered
  <1>6. \A r \in Rows : View(t)[r] = S[r]
    <2>1. \A r \in Rows : lock[r] # t
      BY <1>3 DEF FootprintInv, Footprint, FreeLabels, Held
    <2> QED BY <1>4, <2>1, ViewIs
  <1>7. \A p \in OrderIds : p \in Undelivered(View(t), w, d) <=> S[NewOrders(w, d, p)]
    <2>1. \A p \in OrderIds : NewOrders(w, d, p) \in Rows
      BY <1>5, RowNames
    <2> QED BY <1>6, <2>1 DEF Undelivered
  <1>8. /\ NewOrdersAreUndelivered(S) /\ OrderNumbersDense(S) /\ StoreType(S)
        /\ Earlier(S, db)
    BY <1>4 DEF FootprintInv, Footprint, ConsistentDb, OrdersConsistent
  <1>9. S[NewOrders(w, d, o)] /\ OrderExists(S, w, d, o)
    <2>1. S[NewOrders(w, d, o)]
      BY <1>1, <1>4, <1>5, <1>7
    <2> QED BY <1>5, <1>8, <2>1 DEF NewOrdersAreUndelivered
  <1>10. ASSUME NEW p \in OrderIds, db[NewOrders(w, d, p)]
         PROVE  o <= p
    <2>1. CASE OrderExists(S, w, d, p)
      <3>1. S[NewOrders(w, d, p)]
        BY <1>5, <1>8, <1>10, <2>1 DEF Earlier
      <3> QED BY <1>1, <1>4, <1>7, <3>1
    <2>2. CASE ~ OrderExists(S, w, d, p)
      <3>1. PICK n : n = S[District(w, d)].d_next_o_id
        OBVIOUS
      <3>2. o < n /\ ~ (p < n)
        BY <1>5, <1>8, <1>9, <2>2, <3>1 DEF OrderNumbersDense
      <3>3. n \in Nat /\ o \in Nat /\ p \in Nat
        <4>1. S[District(w, d)] \in [d_next_o_id : Nat, d_ytd : Int]
          BY <1>5, <1>8, StoredRows
        <4> QED BY <1>5, <3>1, <4>1 DEF OrderIds
      <3> QED BY <3>2, <3>3
    <2> QED BY <2>1, <2>2
  <1> QED BY <1>2, <1>3, <1>4, <1>10 DEF SkipsNone

(* Nor does any step make it pass over one: deliveries of other threads    *)
(* only end the waiting of orders, and a new order is the newest.          *)
LEMMA ChosenSkipsNone ==
    ASSUME TypeOK, FootprintInv, NoOrderSkipped, [Next]_vars, NEW t \in Threads,
           pc[t] \in Chosen, job'[t] = job[t], loc'[t].d = loc[t].d, loc'[t].o = loc[t].o
    PROVE  SkipsNone(job[t].w, loc[t].d, loc[t].o)'
  <1>1. PICK w, d, o : w = job[t].w /\ d = loc[t].d /\ o = loc[t].o
    OBVIOUS
  <1>2. /\ w \in Warehouses /\ d \in Districts /\ o \in OrderIds
        /\ OrderExists(db, w, d, o)
    BY <1>1, DeliveryRowsExist, DeliveredExists DEF Chosen
  <1>3. \A p \in OrderIds : db[NewOrders(w, d, p)] => o <= p
    BY <1>1 DEF NoOrderSkipped, Chosen, Undelivered
  <1>4. ASSUME NEW p \in OrderIds, db'[NewOrders(w, d, p)]
        PROVE  o <= p
    <2>1. PICK n : n = db[District(w, d)].d_next_o_id
      OBVIOUS
    <2>2. CASE db[NewOrders(w, d, p)]
      BY <1>3, <2>2
    <2>3. CASE n <= p
      <3>1. o < n
        BY <1>2, <2>1 DEF FootprintInv, ConsistentDb, OrdersConsistent, OrderNumbersDense
      <3>2. n \in Nat /\ o \in Nat /\ p \in Nat
        <4>1. db[District(w, d)] \in [d_next_o_id : Nat, d_ytd : Int]
          BY <1>2, StoredRows DEF TypeOK, StoreTypeOK
        <4> QED BY <1>2, <2>1, <4>1 DEF OrderIds
      <3> QED BY <2>3, <3>1, <3>2
    <2> QED BY <1>2, <1>4, <2>1, <2>2, <2>3, WaitingOrders
  <1> QED BY <1>1, <1>4 DEF SkipsNone

(* Every step keeps it so for every thread. *)
LEMMA SkippedStep ==
    TypeOK /\ FootprintInv /\ NoOrderSkipped /\ [Next]_vars => NoOrderSkipped'
  <1> SUFFICES ASSUME TypeOK, FootprintInv, NoOrderSkipped, [Next]_vars,
                      NEW u \in Threads, pc'[u] \in Chosen
               PROVE  SkipsNone(job[u].w, loc[u].d, loc[u].o)'
    BY DEF NoOrderSkipped, Chosen, SkipsNone, Undelivered
  <1>1. CASE /\ pc[u] \in Chosen /\ job'[u] = job[u]
             /\ loc'[u].d = loc[u].d /\ loc'[u].o = loc[u].o
    BY <1>1, ChosenSkipsNone
  <1>2. CASE DeliverySelectOldest(u)
    <2>1. /\ SkipsNone(job[u].w, loc[u].d, loc'[u].o)
          /\ db' = db /\ job'[u] = job[u] /\ loc'[u].d = loc[u].d
      BY <1>2, OldestSkipsNone
    <2> QED BY <2>1 DEF SkipsNone
  <1>3. CASE UNCHANGED vars
    BY <1>1, <1>3 DEF vars, control
  <1>4. ASSUME NEW t \in Threads, Moved(t), t # u
        PROVE  /\ pc[u] \in Chosen /\ job'[u] = job[u]
               /\ loc'[u].d = loc[u].d /\ loc'[u].o = loc[u].o
    BY <1>4 DEF Moved, ControlKept
  <1>5. Moved(u) => DeliverySelectOldest(u)
                      \/ /\ pc[u] \in Chosen /\ job'[u] = job[u]
                         /\ loc'[u].d = loc[u].d /\ loc'[u].o = loc[u].o
    BY DEF Moved
  <1>6. UNCHANGED vars \/ \E t \in Threads : Moved(t)
    BY SomeoneMoves
  <1> QED BY <1>1, <1>2, <1>3, <1>4, <1>5, <1>6

(* A delivery passes over no order that waits, though its MIN(no_o_id) may *)
(* be of an old snapshot, and other deliveries and new orders commit       *)
(* before it does (delivery.c, proceed 1 to 7).                            *)
THEOREM DeliveriesSkipNoOrder == Spec => []NoOrderSkipped
  <1>1. Init => NoOrderSkipped
    BY DEF Init, NoOrderSkipped, DeliveryLabels
  <1> QED BY <1>1, SkippedStep, TypeCorrect, FootprintHolds, PTL DEF Spec

----------------------------------------------------------------------------
(* The transactions implement the serial ones.                             *)

(* COMMIT in delivery.c *)
LEMMA DeliveryCommitIsSerial ==
    ASSUME TypeOK, FootprintInv, NoOrderSkipped, NEW t \in Threads, DeliveryCommit(t)
    PROVE  Serial!Next
  <1>1. PICK w, d, o : w = job[t].w /\ d = loc[t].d /\ o = loc[t].o
    OBVIOUS
  <1>2. /\ w \in Warehouses /\ d \in Districts /\ o \in OrderIds
        /\ OrderExists(db, w, d, o) /\ db' = Delivering(db, w, d, o)
    BY <1>1, DeliveryCommits
  <1>3. \A p \in OrderIds : db[NewOrders(w, d, p)] => o <= p
    BY <1>1 DEF NoOrderSkipped, DeliveryCommit, DeliveryLabels, Undelivered
  <1>4. Serial!Deliver(w, d, o)
    BY <1>2, <1>3, SerialSets, SerialDelivering
       DEF Serial!Deliver, Serial!OrderExists, OrderExists
  <1> QED BY <1>2, <1>4, SerialSets DEF Serial!Next

(* Every step of the workers is a step of TpccSerial or leaves the         *)
(* committed database alone.                                               *)
LEMMA StepIsSerial ==
    TypeOK /\ FootprintInv /\ NoOrderSkipped /\ [Next]_vars => [Serial!Next]_db
  <1> SUFFICES ASSUME TypeOK, FootprintInv, NoOrderSkipped, [Next]_vars
               PROVE  Serial!Next \/ db' = db
    OBVIOUS
  <1>1. CASE \E t \in Threads : NewordCommit(t) \/ PaymentCommit(t) \/ DeliveryCommit(t)
    BY <1>1, NewordCommitIsSerial, PaymentCommitIsSerial, DeliveryCommitIsSerial
       DEF Serial!Next
  <1>2. CASE \A t \in Threads : ~ NewordCommit(t) /\ ~ PaymentCommit(t) /\ ~ DeliveryCommit(t)
    BY <1>2, OnlyCommitsChangeDb
  <1> QED BY <1>1, <1>2

(* The interleaved transactions implement the serial ones: each commit of  *)
(* neword.c, payment.c and delivery.c takes the committed database where   *)
(* the transaction alone would have taken it.                              *)
THEOREM TransactionsAreSerial == Spec => SerialSpec
  <1>1. Init => Serial!Init
    BY SerialLoaded DEF Init, StoreInit, Serial!Init
  <1> QED
    BY <1>1, StepIsSerial, DeliveriesSkipNoOrder, FootprintHolds, TypeCorrect, PTL
       DEF Spec, SerialSpec, Serial!Spec
=============================================================================
