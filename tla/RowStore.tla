------------------------------ MODULE RowStore ------------------------------
(***************************************************************************)
(* The MySQL server as the tpcc worker threads use it: one connection per  *)
(* thread with autocommit off, repeatable read, exclusive row locks held   *)
(* to the end of the transaction.                                          *)
(*                                                                         *)
(*   db    the committed rows                                              *)
(*   cur   the rows as last written, uncommitted writes included           *)
(*   lock  the connection that holds each row, or Null                     *)
(*   snap  the rows a connection's consistent read sees, or Null when it   *)
(*         has not read anything in its transaction                        *)
(*                                                                         *)
(* A plain SELECT reads the snapshot and never waits; SELECT ... FOR       *)
(* UPDATE, UPDATE, INSERT and DELETE act on cur and wait for the lock.     *)
(* Gap locks, and the shared locks of foreign-key checks, are left out.    *)
(***************************************************************************)
CONSTANTS Threads, Rows, Null, InitDb
VARIABLES db, cur, lock, snap

StoreInit ==
    /\ db = InitDb
    /\ cur = InitDb
    /\ lock = [r \in Rows |-> Null]
    /\ snap = [t \in Threads |-> Null]

(* What a consistent read of t sees: its own writes over its snapshot,     *)
(* which it takes now if it has none.                                      *)
View(t) ==
    LET base == IF snap[t] = Null THEN db ELSE snap[t]
    IN  [r \in Rows |-> IF lock[r] = t /\ cur[r] # db[r] THEN cur[r]
                                                         ELSE base[r]]

(* A plain SELECT by t. *)
Select(t) ==
    /\ snap' = [snap EXCEPT ![t] = IF @ = Null THEN db ELSE @]
    /\ UNCHANGED <<db, cur, lock>>

(* t can have row r now; otherwise its statement waits. *)
Available(t, r) == lock[r] \in {t, Null}

(* SELECT ... FOR UPDATE of row r. *)
SelectForUpdate(t, r) ==
    /\ Available(t, r)
    /\ lock' = [lock EXCEPT ![r] = t]
    /\ UNCHANGED <<db, cur, snap>>

(* UPDATE, INSERT or DELETE that leaves v in row r. *)
Write(t, r, v) ==
    /\ Available(t, r)
    /\ lock' = [lock EXCEPT ![r] = t]
    /\ cur' = [cur EXCEPT ![r] = v]
    /\ UNCHANGED <<db, snap>>

(* A statement that finds no row to act on: it locks nothing. *)
NoRowMatches == UNCHANGED <<db, cur, lock, snap>>

Held(t) == {r \in Rows : lock[r] = t}

Unlock(t) == lock' = [r \in Rows |-> IF lock[r] = t THEN Null ELSE lock[r]]

Commit(t) ==
    /\ db' = [r \in Rows |-> IF lock[r] = t THEN cur[r] ELSE db[r]]
    /\ Unlock(t)
    /\ snap' = [snap EXCEPT ![t] = Null]
    /\ UNCHANGED cur

Rollback(t) ==
    /\ cur' = [r \in Rows |-> IF lock[r] = t THEN db[r] ELSE cur[r]]
    /\ Unlock(t)
    /\ snap' = [snap EXCEPT ![t] = Null]
    /\ UNCHANGED db
=============================================================================
