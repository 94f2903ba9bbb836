----------------------------- MODULE LinkStore -----------------------------
(***************************************************************************)
(* LinkStoreMysql.java: the store of links and link counts that LinkBench  *)
(* keeps in MySQL.  Each thread has a store of its own, with a connection  *)
(* conn_rw (autocommit off) that writes and a connection conn_ro that only *)
(* reads committed rows.  A call is a transaction of a few statements; one *)
(* step is one statement.                                                  *)
(*                                                                         *)
(*   linkdb, countdb   committed rows of the link table and the count      *)
(*                     table; *cur the rows as last written, *lock the     *)
(*                     thread whose conn_rw holds each row (LockedTable)   *)
(*   open              the connections of t's store are open               *)
(*   call, pc, local   the call t is in, its next statement, its locals    *)
(*   reply             how the call has ended: "none" (not yet), "ok",     *)
(*                     "error" (an exception)                              *)
(*   faults            history: failures so far                            *)
(*   doubted           history: the id1s whose count may be off, because a *)
(*                     transaction was retried without being rolled back,  *)
(*                     or a hidden link expunged                           *)
(*                                                                         *)
(* An id1 stands for a pair (id1, link_type).  Of a link's columns data    *)
(* stands for data, time and version; of a count's there is the count.     *)
(***************************************************************************)
EXTENDS Integers, FiniteSets

CONSTANTS
    Threads,    \* the threads that have a store
    Id1s, Id2s, \* source and target nodes
    Data,       \* payloads
    Null,       \* no row; no thread; no call
    Calls,      \* the calls that requests make
    MaxFaults   \* bound on faults

Links        == Id1s \X Id2s
Visibilities == {"HIDDEN", "DEFAULT"}
LinkRow      == [visibility : Visibilities, data : Data]

AddLink(l, v, d)   == [op |-> "addLink", link |-> l, visibility |-> v, data |-> d]
DeleteLink(l, e)   == [op |-> "deleteLink", link |-> l, expunge |-> e]
GetLink(l)         == [op |-> "getLink", link |-> l]
AddBulkLinks(S, d) == [op |-> "addBulkLinks", links |-> S, data |-> d]
AddBulkCounts(f)   == [op |-> "addBulkCounts", counts |-> f]

LinkCalls ==
    [op : {"addLink"}, link : Links, visibility : Visibilities, data : Data]
    \cup [op : {"deleteLink"}, link : Links, expunge : BOOLEAN]
    \cup [op : {"getLink"}, link : Links]

ASSUME StoreAssumption ==
    /\ IsFiniteSet(Id2s)
    /\ Null \notin Threads /\ Null \notin Nat /\ Null \notin LinkRow
    /\ Calls \subseteq LinkCalls
    /\ MaxFaults \in Nat

VARIABLES linkdb, linkcur, linklock, countdb, countcur, countlock,
          open, call, pc, local, reply, faults, doubted

linktable  == <<linkdb, linkcur, linklock>>
counttable == <<countdb, countcur, countlock>>
progress   == <<pc, reply>>
storevars  == <<linktable, counttable, open, call, progress, local, faults, doubted>>

L == INSTANCE LockedTable WITH Rows <- Links, db <- linkdb, cur <- linkcur, lock <- linklock
C == INSTANCE LockedTable WITH Rows <- Id1s, db <- countdb, cur <- countcur, lock <- countlock

NoLocals == [found |-> FALSE, update_count |-> 0, update_data |-> FALSE]

StoreInit ==
    /\ L!EmptyTable /\ C!EmptyTable
    /\ open = [t \in Threads |-> FALSE]
    /\ call = [t \in Threads |-> Null]
    /\ pc = [t \in Threads |-> "idle"]
    /\ local = [t \in Threads |-> NoLocals]
    /\ reply = [t \in Threads |-> "none"]
    /\ faults = 0 /\ doubted = {}

----------------------------------------------------------------------------
(* The start and the end of a call *)

(* initialize(): connects. *)
Initialize(t) ==
    /\ pc[t] = "idle" /\ ~open[t]
    /\ open' = [open EXCEPT ![t] = TRUE]
    /\ UNCHANGED <<linktable, counttable, call, progress, local, faults, doubted>>

FirstStatement(c) ==
    CASE c.op = "addLink"       -> "insert"
      [] c.op = "deleteLink"    -> "select"
      [] c.op = "getLink"       -> "read"
      [] c.op = "addBulkLinks"  -> "insertAll"
      [] c.op = "addBulkCounts" -> "replaceAll"

Proceed(t, s) == pc' = [pc EXCEPT ![t] = s] /\ UNCHANGED reply
Return(t, r)  == pc' = [pc EXCEPT ![t] = "returned"] /\ reply' = [reply EXCEPT ![t] = r]

(* addBulkCounts() of an empty list returns at once. *)
NothingToDo(c) == c.op = "addBulkCounts" /\ DOMAIN c.counts = {}

(* Without connections (stmt_rw is null) a call throws. *)
Call(t, c) ==
    /\ pc[t] = "idle"
    /\ call' = [call EXCEPT ![t] = c]
    /\ local' = [local EXCEPT ![t] = NoLocals]
    /\ IF NothingToDo(c) THEN Return(t, "ok")
       ELSE IF open[t]   THEN Proceed(t, FirstStatement(c))
                         ELSE Return(t, "error")
    /\ UNCHANGED <<linktable, counttable, open, faults, doubted>>

(* The caller takes the answer ... *)
TakeReply(t) ==
    /\ pc[t] = "returned" /\ reply[t] = "ok"
    /\ pc' = [pc EXCEPT ![t] = "idle"]
    /\ reply' = [reply EXCEPT ![t] = "none"]
    /\ UNCHANGED <<linktable, counttable, open, call, local, faults, doubted>>

(* Mutant of ClearErrors: the connections are kept. *)
ClearNothing(t) ==
    /\ pc[t] = "returned" /\ reply[t] = "error"
    /\ pc' = [pc EXCEPT ![t] = "idle"]
    /\ reply' = [reply EXCEPT ![t] = "none"]
    /\ UNCHANGED <<linktable, counttable, open, call, local, faults, doubted>>

(* ... or, after an exception, calls clearErrors(): the connections are    *)
(* closed, which rolls the transaction back, and opened again, which may   *)
(* fail.  (A server that notices a lost connection sooner only rolls back  *)
(* sooner.)                                                                *)
ClearErrors(t) ==
    /\ pc[t] = "returned" /\ reply[t] = "error"
    /\ L!Rollback(t) /\ C!Rollback(t)
    /\ pc' = [pc EXCEPT ![t] = "idle"]
    /\ reply' = [reply EXCEPT ![t] = "none"]
    /\ \/ open' = [open EXCEPT ![t] = TRUE] /\ UNCHANGED faults
       \/ /\ faults < MaxFaults /\ faults' = faults + 1
          /\ open' = [open EXCEPT ![t] = FALSE]
    /\ UNCHANGED <<call, local, doubted>>

(* close(): the server rolls back what is not committed. *)
Close(t) ==
    /\ pc[t] = "idle"
    /\ L!Rollback(t) /\ C!Rollback(t)
    /\ open' = [open EXCEPT ![t] = FALSE]
    /\ UNCHANGED <<call, progress, local, faults, doubted>>

----------------------------------------------------------------------------
(* addLinkImpl() *)

(* INSERT ... ON DUPLICATE KEY UPDATE visibility = VALUES(visibility) *)
Upserted(row, v, d) ==
    IF row = Null THEN [visibility |-> v, data |-> d] ELSE [row EXCEPT !.visibility = v]

(* Mutant of AffectedRows: rows found, not rows changed. *)
FoundRows(row, v) ==
    IF row = Null THEN 1 ELSE IF row.visibility = v THEN 1 ELSE 2

(* How many rows the server says it has changed (useAffectedRows). *)
AffectedRows(row, v) ==
    IF row = Null THEN 1 ELSE IF row.visibility = v THEN 0 ELSE 2

CountChange(nrows, v) ==
    CASE nrows = 0 -> 0
      [] nrows = 1 -> IF v = "DEFAULT" THEN 1 ELSE 0
      [] nrows = 2 -> IF v = "DEFAULT" THEN 1 ELSE -1

(* The link; a hidden one that was not there returns here, uncommitted.    *)
InsertLink(t) ==
    LET c     == call[t]
        nrows == AffectedRows(linkcur[c.link], c.visibility)
        n     == CountChange(nrows, c.visibility)
    IN  /\ pc[t] = "insert"
        /\ L!Write(t, c.link, Upserted(linkcur[c.link], c.visibility, c.data))
        /\ local' = [local EXCEPT ![t] = [found |-> nrows # 1, update_count |-> n,
                                          update_data |-> nrows # 1]]
        /\ IF n # 0          THEN Proceed(t, "count")
           ELSE IF nrows = 0 THEN Proceed(t, "data")
                             ELSE Return(t, "ok")
        /\ UNCHANGED <<counttable, open, call, faults, doubted>>

(* The count, the last statement before the commit if the link is new; the *)
(* column is unsigned, and out of range is an error.                       *)
UpdateCount(t) ==
    LET k == call[t].link[1]
        n == local[t].update_count
        count == IF countcur[k] = Null THEN (IF n < 0 THEN 0 ELSE 1) ELSE countcur[k] + n
    IN  /\ pc[t] = "count"
        /\ C!Available(t, k)
        /\ IF count < 0
           THEN Return(t, "error") /\ UNCHANGED counttable
           ELSE /\ C!Write(t, k, count)
                /\ Proceed(t, IF local[t].update_data THEN "data" ELSE "commit")
        /\ UNCHANGED <<linktable, open, call, local, faults, doubted>>

(* The data of a link that was found. *)
UpdateData(t) ==
    LET c == call[t] IN
    /\ pc[t] = "data"
    /\ L!Write(t, c.link, [visibility |-> c.visibility, data |-> c.data])
    /\ Proceed(t, "commit")
    /\ UNCHANGED <<counttable, open, call, local, faults, doubted>>

----------------------------------------------------------------------------
(* deleteLinkImpl() *)

(* Mutant of SelectLink: a plain SELECT, which takes no lock. *)
SelectUnlocked(t) ==
    LET c   == call[t]
        row == linkdb[c.link]
    IN  /\ pc[t] = "select"
        /\ local' = [local EXCEPT ![t].found = row # Null]
        /\ IF row = Null \/ (row # Null /\ row.visibility = "HIDDEN" /\ ~c.expunge)
           THEN Proceed(t, "commit") ELSE Proceed(t, "delete")
        /\ UNCHANGED <<linktable, counttable, open, call, faults, doubted>>

(* SELECT visibility ... FOR UPDATE: there is nothing to delete if the     *)
(* link is not there, or is hidden and shall only be hidden.               *)
SelectLink(t) ==
    LET c   == call[t]
        row == linkcur[c.link]
    IN  /\ pc[t] = "select"
        /\ L!SelectForUpdate(t, c.link)
        /\ local' = [local EXCEPT ![t].found = row # Null]
        /\ Proceed(t, IF row = Null THEN "commit"
                      ELSE IF row.visibility = "HIDDEN" /\ ~c.expunge THEN "commit"
                      ELSE "delete")
        /\ UNCHANGED <<counttable, open, call, faults, doubted>>

(* The link is removed or hidden.  Its count will go down even if a link   *)
(* that is removed was hidden before.                                      *)
DeleteRow(t) ==
    LET c == call[t]
        row == linkcur[c.link]
    IN  /\ pc[t] = "delete"
        /\ L!Write(t, c.link, IF c.expunge THEN Null
                              ELSE [row EXCEPT !.visibility = "HIDDEN"])
        /\ Proceed(t, "uncount")
        /\ doubted' = IF c.expunge /\ row.visibility = "HIDDEN"
                  THEN doubted \cup {c.link[1]} ELSE doubted
        /\ UNCHANGED <<counttable, open, call, local, faults>>

(* count = IF (count = 0, 0, count - 1), or a new row with 0. *)
CountDown(t) ==
    LET k == call[t].link[1] IN
    /\ pc[t] = "uncount"
    /\ C!Write(t, k, IF countcur[k] \in {Null, 0} THEN 0 ELSE countcur[k] - 1)
    /\ Proceed(t, "commit")
    /\ UNCHANGED <<linktable, open, call, local, faults, doubted>>

----------------------------------------------------------------------------
(* getLinkImpl(), on conn_ro *)

ReadLink(t) ==
    /\ pc[t] = "read"
    /\ local' = [local EXCEPT ![t].found = linkdb[call[t].link] # Null]
    /\ Return(t, "ok")
    /\ UNCHANGED <<linktable, counttable, open, call, faults, doubted>>

----------------------------------------------------------------------------
(* addBulkLinksImpl(), addBulkCountsImpl(): one statement of many rows.    *)
(* Threads that load have different id1s, so it is taken in one step.      *)

InsertAll(t) ==
    LET c == call[t] IN
    /\ pc[t] = "insertAll"
    /\ L!WriteRows(t, [l \in c.links |-> Upserted(linkcur[l], "DEFAULT", c.data)])
    /\ Proceed(t, "commit")
    /\ UNCHANGED <<counttable, open, call, local, faults, doubted>>

(* REPLACE INTO *)
ReplaceAll(t) ==
    /\ pc[t] = "replaceAll"
    /\ C!WriteRows(t, call[t].counts)
    /\ Proceed(t, "commit")
    /\ UNCHANGED <<linktable, open, call, local, faults, doubted>>

----------------------------------------------------------------------------
(* commit, and what may go wrong *)

CommitAll(t) == L!Commit(t) /\ C!Commit(t)

(* The commit, whose answer may be lost. *)
CommitCall(t) ==
    /\ pc[t] = "commit"
    /\ CommitAll(t)
    /\ \/ Return(t, "ok") /\ UNCHANGED faults
       \/ faults < MaxFaults /\ faults' = faults + 1 /\ Return(t, "error")
    /\ UNCHANGED <<open, call, local, doubted>>

Writing == {"insert", "count", "data", "select", "delete", "uncount", "insertAll", "replaceAll"}

(* ER_LOCK_DEADLOCK: the server has rolled the transaction back, and the   *)
(* call starts again.                                                      *)
Deadlock(t) ==
    /\ pc[t] \in Writing
    /\ faults < MaxFaults /\ faults' = faults + 1
    /\ L!Rollback(t) /\ C!Rollback(t)
    /\ Proceed(t, FirstStatement(call[t]))
    /\ UNCHANGED <<open, call, local, doubted>>

(* The statement t is at waits for a row. *)
Waits(t) ==
    \/ pc[t] \in {"insert", "select", "data", "delete"} /\ ~L!Available(t, call[t].link)
    \/ pc[t] \in {"count", "uncount"} /\ ~C!Available(t, call[t].link[1])

Visible(row) == row # Null /\ row.visibility = "DEFAULT"

(* ER_LOCK_WAIT_TIMEOUT: the server has rolled back this statement alone;  *)
(* the call starts again in the same transaction and meets what it has     *)
(* written itself.                                                         *)
LockWaitTimeout(t) ==
    LET l == call[t].link IN
    /\ Waits(t)
    /\ faults < MaxFaults /\ faults' = faults + 1
    /\ Proceed(t, FirstStatement(call[t]))
    /\ doubted' = IF linklock[l] = t /\ Visible(linkcur[l]) # Visible(linkdb[l])
                  THEN doubted \cup {l[1]} ELSE doubted
    /\ UNCHANGED <<linktable, counttable, open, call, local>>

(* Any other error: the exception leaves the transaction as it is. *)
StatementFails(t) ==
    /\ pc[t] \in Writing \cup {"read", "commit"}
    /\ faults < MaxFaults /\ faults' = faults + 1
    /\ Return(t, "error")
    /\ UNCHANGED <<linktable, counttable, open, call, local, doubted>>

Statement(t) ==
    \/ InsertLink(t) \/ UpdateCount(t) \/ UpdateData(t)
    \/ SelectLink(t) \/ DeleteRow(t) \/ CountDown(t)
    \/ ReadLink(t) \/ InsertAll(t) \/ ReplaceAll(t) \/ CommitCall(t)

Failure(t) == Deadlock(t) \/ LockWaitTimeout(t) \/ StatementFails(t)

----------------------------------------------------------------------------
(* Threads that call as they like. *)

StoreNext ==
    \E t \in Threads :
        \/ Initialize(t)
        \/ \E c \in Calls : Call(t, c)
        \/ Statement(t) \/ Failure(t) \/ TakeReply(t) \/ ClearErrors(t) \/ Close(t)

StoreSpec == StoreInit /\ [][StoreNext]_storevars

----------------------------------------------------------------------------
(* Properties *)

LocalType == [found : BOOLEAN, update_count : {-1, 0, 1}, update_data : BOOLEAN]

(* The batches of a bulk load. *)
IsBulkCall(c) ==
    \/ c.op = "addBulkLinks" /\ c.links \subseteq Links /\ c.data \in Data
    \/ /\ c.op = "addBulkCounts" /\ DOMAIN c.counts \subseteq Id1s
       /\ \A k \in DOMAIN c.counts : c.counts[k] \in Nat

Statements == Writing \cup {"read", "commit"}

(* Every variable of the store has its type. *)
StoreTypeOK ==
    /\ linkdb \in [Links -> LinkRow \cup {Null}] /\ linkcur \in [Links -> LinkRow \cup {Null}]
    /\ linklock \in [Links -> Threads \cup {Null}]
    /\ countdb \in [Id1s -> Nat \cup {Null}] /\ countcur \in [Id1s -> Nat \cup {Null}]
    /\ countlock \in [Id1s -> Threads \cup {Null}]
    /\ open \in [Threads -> BOOLEAN]
    /\ DOMAIN call = Threads
    /\ \A t \in Threads : call[t] # Null => call[t] \in LinkCalls \/ IsBulkCall(call[t])
    /\ pc \in [Threads -> Statements \cup {"idle", "returned"}]
    /\ local \in [Threads -> LocalType]
    /\ reply \in [Threads -> {"none", "ok", "error"}]
    /\ faults \in 0 .. MaxFaults /\ doubted \subseteq Id1s

(* How many links of id1 k getLinkList() finds. *)
NumVisible(k) == Cardinality({j \in Id2s : Visible(linkdb[<<k, j>>])})

(* What countLinks() returns for k. *)
CountOf(row) == IF row = Null THEN 0 ELSE row

(* testCount(): "Data inconsistency between linktable and counttable" is   *)
(* never thrown for k.                                                     *)
Consistent(k) == CountOf(countdb[k]) = NumVisible(k)

(* An addLink or deleteLink that says whether it found its link speaks of  *)
(* the committed link it has changed, not of one read earlier, however     *)
(* often it was retried; short of a lock wait that timed out.  (A link     *)
(* that deleteLink does not find is not locked, and may be added by now.)  *)
FoundIsTrue ==
    [][\A t \in Threads : pc[t] = "commit" /\ reply'[t] = "ok" =>
         LET c == call[t] IN
         /\ c.op = "addLink" /\ c.link[1] \notin doubted
              => (local[t].found <=> linkdb[c.link] # Null)
         /\ c.op = "deleteLink" /\ c.link[1] \notin doubted
              => (local[t].found => linkdb[c.link] # Null)
      ]_storevars

(* A thread between two calls keeps no row locked: every way out of a call *)
(* commits or rolls back (clearErrors).                                    *)
IdleHoldsNothing ==
    \A t \in Threads : pc[t] = "idle" =>
        (\A l \in Links : linklock[l] # t) /\ (\A k \in Id1s : countlock[k] # t)

(* The count of every id1 is the number of its visible links, however the  *)
(* calls of the threads interleave (LinkStoreMysql.java:270).              *)
CountsAlwaysMatch == \A k \in Id1s : Consistent(k)

(* ... unless a lock wait has timed out or a hidden link was expunged.     *)
CountsMatch == \A k \in Id1s \ doubted : Consistent(k)
=============================================================================
