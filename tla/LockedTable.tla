---------------------------- MODULE LockedTable ----------------------------
(***************************************************************************)
(* A MySQL table as the transactions of LinkBench use it, which write and  *)
(* never read a snapshot: the exclusive row locks are held to the end of   *)
(* the transaction.  (RowStore is the same server with snapshots, for one  *)
(* table of all rows.)                                                     *)
(*                                                                         *)
(*   db    the committed rows                                              *)
(*   cur   the rows as last written, uncommitted writes included           *)
(*   lock  the connection that holds each row, or Null                     *)
(***************************************************************************)
CONSTANTS Rows, Null
VARIABLES db, cur, lock

EmptyTable ==
    /\ db = [r \in Rows |-> Null]
    /\ cur = [r \in Rows |-> Null]
    /\ lock = [r \in Rows |-> Null]

(* t can have row r now; otherwise its statement waits. *)
Available(t, r) == lock[r] \in {t, Null}

Hold(t, r) == lock' = [lock EXCEPT ![r] = t]

(* SELECT ... FOR UPDATE: a row that is not there is not locked.           *)
SelectForUpdate(t, r) ==
    /\ Available(t, r)
    /\ IF cur[r] = Null THEN UNCHANGED lock ELSE Hold(t, r)
    /\ UNCHANGED <<db, cur>>

(* INSERT, UPDATE or DELETE that leaves v in row r.                        *)
Write(t, r, v) ==
    /\ Available(t, r)
    /\ Hold(t, r)
    /\ cur' = [cur EXCEPT ![r] = v]
    /\ UNCHANGED db

(* One statement that leaves new[r] in every row r of its domain.          *)
WriteRows(t, new) ==
    /\ \A r \in DOMAIN new : Available(t, r)
    /\ lock' = [r \in Rows |-> IF r \in DOMAIN new THEN t ELSE lock[r]]
    /\ cur' = [r \in Rows |-> IF r \in DOMAIN new THEN new[r] ELSE cur[r]]
    /\ UNCHANGED db

Unlock(t) == lock' = [r \in Rows |-> IF lock[r] = t THEN Null ELSE lock[r]]

Commit(t) ==
    /\ db' = [r \in Rows |-> IF lock[r] = t THEN cur[r] ELSE db[r]]
    /\ Unlock(t)
    /\ UNCHANGED cur

Rollback(t) ==
    /\ cur' = [r \in Rows |-> IF lock[r] = t THEN db[r] ELSE cur[r]]
    /\ Unlock(t)
    /\ UNCHANGED db
=============================================================================
