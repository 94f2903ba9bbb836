-------------------------- MODULE LinkStore_proofs --------------------------
(***************************************************************************)
(* Threads that add, hide, expunge and read single links keep the count of *)
(* every id1 equal to the number of its visible links, for any number of   *)
(* threads, nodes, payloads and failures.  The argument follows what each  *)
(* transaction has written and not yet committed: a link it has changed    *)
(* and the count of that link move by the same number.                     *)
(***************************************************************************)
EXTENDS LinkStore, FiniteSetTheorems, TLAPS

----------------------------------------------------------------------------
(* The invariant *)

(* What a link adds to its count. *)
LinkWeight(row) == IF row # Null /\ row.visibility = "DEFAULT" THEN 1 ELSE 0

(* What t has changed and not committed. *)
LinkDelta(t, l) ==
    IF linklock[l] = t THEN LinkWeight(linkcur[l]) - LinkWeight(linkdb[l]) ELSE 0

CountDelta(t, k) ==
    IF countlock[k] = t THEN CountOf(countcur[k]) - CountOf(countdb[k]) ELSE 0

(* A row nobody has locked is committed. *)
UnlockedIsCommitted ==
    /\ \A l \in Links : linklock[l] = Null => linkcur[l] = linkdb[l]
    /\ \A k \in Id1s : countlock[k] = Null => countcur[k] = countdb[k]

AddPoints    == {"insert", "count", "data"}
DeletePoints == {"select", "delete", "uncount"}
LinkPoints   == {"count", "uncount", "data", "commit"}
CountPoints  == {"data", "commit"}

(* The statement t is at belongs to the call t is in. *)
CallOK(t) ==
    /\ pc[t] # "idle" => call[t] \in LinkCalls
    /\ pc[t] \in AddPoints => call[t].op = "addLink"
    /\ pc[t] \in DeletePoints => call[t].op = "deleteLink"
    /\ pc[t] = "read" => call[t].op = "getLink"
    /\ pc[t] = "commit" => call[t].op # "getLink"
    /\ pc[t] \notin {"insertAll", "replaceAll"}

(* ... and what the statements before it have left there. *)
AtOK(t) ==
    LET l == call[t].link IN
    /\ pc[t] = "count" => local[t].update_count # 0
    /\ pc[t] \in {"count", "data"} =>
         /\ linklock[l] = t /\ linkcur[l] # Null
         /\ linkcur[l].visibility = call[t].visibility
    /\ pc[t] = "delete" =>
         /\ linklock[l] = t /\ linkcur[l] # Null
         /\ linkcur[l].visibility = "DEFAULT" \/ call[t].expunge
    /\ pc[t] = "uncount" => linklock[l] = t

(* Short of an exception, t has changed at most the link of its call and   *)
(* the count of it: the link first, then the count by the same number.     *)
OthersUnmoved(t, X) ==
    /\ \A l \in Links : \/ l[1] \in doubted \cup X
                        \/ pc[t] \in LinkPoints /\ l = call[t].link
                        \/ LinkDelta(t, l) = 0
    /\ \A k \in Id1s : \/ k \in doubted \cup X
                       \/ pc[t] \in CountPoints /\ k = call[t].link[1]
                       \/ CountDelta(t, k) = 0

OwnMoved(t, X) ==
    LET l == call[t].link IN
    /\ pc[t] = "count" /\ l[1] \notin doubted \cup X   => LinkDelta(t, l) = local[t].update_count
    /\ pc[t] = "uncount" /\ l[1] \notin doubted \cup X => LinkDelta(t, l) = -1
    /\ pc[t] \in CountPoints /\ l[1] \notin doubted \cup X => LinkDelta(t, l) = CountDelta(t, l[1])

ThreadOK(t, X) ==
    /\ CallOK(t) /\ AtOK(t)
    /\ reply[t] # "error" => OthersUnmoved(t, X) /\ OwnMoved(t, X)
    /\ reply[t] # "none" <=> pc[t] = "returned"

(* The counts are right, but for the id1s in X: those a bulk load leaves in *)
(* its buffers.                                                            *)
CountsMatchBut(X) == \A k \in Id1s \ (doubted \cup X) : Consistent(k)

StoreInv(X) ==
    /\ StoreTypeOK /\ UnlockedIsCommitted
    /\ \A t \in Threads : ThreadOK(t, X)
    /\ CountsMatchBut(X)

----------------------------------------------------------------------------
(* Facts about links and rows *)

(* A link is a pair of nodes, and a row is never Null. *)
LEMMA LinkFacts ==
    /\ \A l \in Links : l[1] \in Id1s /\ l[2] \in Id2s /\ l = <<l[1], l[2]>>
    /\ \A k \in Id1s, j \in Id2s : <<k, j>> \in Links /\ <<k, j>>[1] = k /\ <<k, j>>[2] = j
    /\ Null \notin LinkRow
    /\ \A row \in LinkRow : row.visibility \in {"HIDDEN", "DEFAULT"}
  BY StoreAssumption DEF Links, LinkRow, Visibilities

(* The link of a call. *)
LEMMA CallFacts ==
    ASSUME NEW c \in LinkCalls
    PROVE  /\ c.link \in Links /\ c.link[1] \in Id1s
           /\ c.op \in {"addLink", "deleteLink", "getLink"}
           /\ c.op = "addLink" => c.visibility \in Visibilities /\ c.data \in Data
           /\ c.op = "deleteLink" => c.expunge \in BOOLEAN
  BY LinkFacts DEF LinkCalls

(* An upsert leaves a row with the visibility asked for, and says whether  *)
(* it was there and was changed.                                           *)
LEMMA UpsertFacts ==
    ASSUME NEW row \in LinkRow \cup {Null}, NEW v \in Visibilities, NEW d \in Data
    PROVE  /\ Upserted(row, v, d) \in LinkRow
           /\ Upserted(row, v, d).visibility = v
           /\ AffectedRows(row, v) \in {0, 1, 2}
           /\ CountChange(AffectedRows(row, v), v) \in {-1, 0, 1}
           /\ CountChange(AffectedRows(row, v), v)
                = LinkWeight(Upserted(row, v, d)) - LinkWeight(row)
  <1>1. CASE row = Null
    BY <1>1, StoreAssumption
       DEF Upserted, AffectedRows, CountChange, LinkWeight, LinkRow, Visibilities
  <1>2. CASE row # Null /\ row.visibility = v
    BY <1>2, StoreAssumption
       DEF Upserted, AffectedRows, CountChange, LinkWeight, LinkRow, Visibilities
  <1>3. CASE row # Null /\ row.visibility # v
    BY <1>3, StoreAssumption
       DEF Upserted, AffectedRows, CountChange, LinkWeight, LinkRow, Visibilities
  <1> QED BY <1>1, <1>2, <1>3

----------------------------------------------------------------------------
(* What the statements do to the rows *)

LinksStay  == linkdb' = linkdb /\ linkcur' = linkcur /\ linklock' = linklock
CountsStay == countdb' = countdb /\ countcur' = countcur /\ countlock' = countlock

LinksTyped ==
    /\ linkdb' \in [Links -> LinkRow \cup {Null}] /\ linkcur' \in [Links -> LinkRow \cup {Null}]
    /\ linklock' \in [Links -> Threads \cup {Null}]

CountsTyped ==
    /\ countdb' \in [Id1s -> Nat \cup {Null}] /\ countcur' \in [Id1s -> Nat \cup {Null}]
    /\ countlock' \in [Id1s -> Threads \cup {Null}]

(* A write locks its row for t and changes no other. *)
LinkWritten(t, r, v) ==
    /\ linklock[r] \in {t, Null} /\ linkdb' = linkdb
    /\ \A l \in Links : /\ linklock'[l] = IF l = r THEN t ELSE linklock[l]
                        /\ linkcur'[l] = IF l = r THEN v ELSE linkcur[l]

CountWritten(t, r, v) ==
    /\ countlock[r] \in {t, Null} /\ countdb' = countdb
    /\ \A k \in Id1s : /\ countlock'[k] = IF k = r THEN t ELSE countlock[k]
                       /\ countcur'[k] = IF k = r THEN v ELSE countcur[k]

LEMMA LinkWrite ==
    ASSUME StoreTypeOK, NEW t \in Threads, NEW r \in Links, NEW v \in LinkRow \cup {Null},
           L!Write(t, r, v)
    PROVE  LinkWritten(t, r, v) /\ LinksTyped
  BY DEF StoreTypeOK, L!Write, L!Hold, L!Available, LinkWritten, LinksTyped

LEMMA CountWrite ==
    ASSUME StoreTypeOK, NEW t \in Threads, NEW r \in Id1s, NEW v \in Nat \cup {Null},
           C!Write(t, r, v)
    PROVE  CountWritten(t, r, v) /\ CountsTyped
  BY DEF StoreTypeOK, C!Write, C!Hold, C!Available, CountWritten, CountsTyped

(* A rollback and a commit unlock the rows of t and change no other. *)
LinksRolledBack(t) ==
    /\ linkdb' = linkdb
    /\ \A l \in Links : /\ linklock'[l] = IF linklock[l] = t THEN Null ELSE linklock[l]
                        /\ linkcur'[l] = IF linklock[l] = t THEN linkdb[l] ELSE linkcur[l]

CountsRolledBack(t) ==
    /\ countdb' = countdb
    /\ \A k \in Id1s : /\ countlock'[k] = IF countlock[k] = t THEN Null ELSE countlock[k]
                       /\ countcur'[k] = IF countlock[k] = t THEN countdb[k] ELSE countcur[k]

LEMMA RollbackRows ==
    ASSUME StoreTypeOK, NEW t \in Threads, L!Rollback(t), C!Rollback(t)
    PROVE  LinksRolledBack(t) /\ CountsRolledBack(t) /\ LinksTyped /\ CountsTyped
  <1>1. LinksRolledBack(t) /\ LinksTyped
    BY DEF StoreTypeOK, L!Rollback, L!Unlock, LinksRolledBack, LinksTyped
  <1>2. CountsRolledBack(t) /\ CountsTyped
    BY DEF StoreTypeOK, C!Rollback, C!Unlock, CountsRolledBack, CountsTyped
  <1> QED BY <1>1, <1>2

LinksCommitted(t) ==
    /\ linkcur' = linkcur
    /\ \A l \in Links : /\ linklock'[l] = IF linklock[l] = t THEN Null ELSE linklock[l]
                        /\ linkdb'[l] = IF linklock[l] = t THEN linkcur[l] ELSE linkdb[l]

CountsCommitted(t) ==
    /\ countcur' = countcur
    /\ \A k \in Id1s : /\ countlock'[k] = IF countlock[k] = t THEN Null ELSE countlock[k]
                       /\ countdb'[k] = IF countlock[k] = t THEN countcur[k] ELSE countdb[k]

LEMMA CommitRows ==
    ASSUME StoreTypeOK, NEW t \in Threads, CommitAll(t)
    PROVE  LinksCommitted(t) /\ CountsCommitted(t) /\ LinksTyped /\ CountsTyped
  <1>1. LinksCommitted(t) /\ LinksTyped
    BY DEF StoreTypeOK, CommitAll, L!Commit, L!Unlock, LinksCommitted, LinksTyped
  <1>2. CountsCommitted(t) /\ CountsTyped
    BY DEF StoreTypeOK, CommitAll, C!Commit, C!Unlock, CountsCommitted, CountsTyped
  <1> QED BY <1>1, <1>2

----------------------------------------------------------------------------
(* The other threads *)

(* t touches rows that are its own or nobody's. *)
OwnRowsOnly(t) ==
    /\ \A l \in Links :
         \/ linklock[l] \in {t, Null} /\ linklock'[l] \in {t, Null}
         \/ linklock'[l] = linklock[l] /\ linkcur'[l] = linkcur[l] /\ linkdb'[l] = linkdb[l]
    /\ \A k \in Id1s :
         \/ countlock[k] \in {t, Null} /\ countlock'[k] \in {t, Null}
         \/ countlock'[k] = countlock[k] /\ countcur'[k] = countcur[k] /\ countdb'[k] = countdb[k]

OthersStay(t) ==
    \A u \in Threads \ {t} :
        pc'[u] = pc[u] /\ reply'[u] = reply[u] /\ call'[u] = call[u] /\ local'[u] = local[u]

(* What holds of a thread still holds after a step of another.             *)
LEMMA OthersKeep ==
    ASSUME NEW X, NEW t \in Threads, NEW u \in Threads \ {t},
           OwnRowsOnly(t), OthersStay(t), doubted \subseteq doubted', ThreadOK(u, X)
    PROVE  ThreadOK(u, X)'
  <1>1. u # Null /\ u # t
    BY StoreAssumption
  <1>2. pc'[u] = pc[u] /\ reply'[u] = reply[u] /\ call'[u] = call[u] /\ local'[u] = local[u]
    BY DEF OthersStay
  <1>3. CallOK(u)'
    BY <1>2 DEF ThreadOK, CallOK
  <1>4. pc[u] \in LinkPoints \cup {"delete"} => call[u].link \in Links /\ call[u].link[1] \in Id1s
    BY CallFacts DEF ThreadOK, CallOK, LinkPoints
  <1>5. \A l \in Links :
          /\ linklock'[l] = u <=> linklock[l] = u
          /\ linklock[l] = u => linkcur'[l] = linkcur[l] /\ linkdb'[l] = linkdb[l]
    BY <1>1 DEF OwnRowsOnly
  <1>6. \A k \in Id1s :
          /\ countlock'[k] = u <=> countlock[k] = u
          /\ countlock[k] = u => countcur'[k] = countcur[k] /\ countdb'[k] = countdb[k]
    BY <1>1 DEF OwnRowsOnly
  <1>7. AtOK(u)'
    BY <1>2, <1>4, <1>5 DEF ThreadOK, AtOK, LinkPoints
  <1>8. \A l \in Links : LinkDelta(u, l)' = LinkDelta(u, l)
    BY <1>5 DEF LinkDelta, LinkWeight
  <1>9. \A k \in Id1s : CountDelta(u, k)' = CountDelta(u, k)
    BY <1>6 DEF CountDelta, CountOf
  <1>10. OthersUnmoved(u, X) => OthersUnmoved(u, X)'
    BY <1>2, <1>8, <1>9 DEF OthersUnmoved
  <1>11. OwnMoved(u, X) => OwnMoved(u, X)'
    BY <1>2, <1>4, <1>8, <1>9 DEF OwnMoved, LinkPoints, CountPoints
  <1> QED
    BY <1>2, <1>3, <1>7, <1>10, <1>11 DEF ThreadOK

(* While nothing is committed the counts stay right. *)
LEMMA CountsKeep ==
    ASSUME NEW X, CountsMatchBut(X), linkdb' = linkdb, countdb' = countdb, doubted \subseteq doubted'
    PROVE  CountsMatchBut(X)'
  BY DEF CountsMatchBut, Consistent, NumVisible, CountOf, Visible

(* What is left to show of a step of t that commits nothing.               *)
StepOK(t, X) ==
    /\ StoreTypeOK' /\ UnlockedIsCommitted'
    /\ OwnRowsOnly(t) /\ OthersStay(t) /\ doubted \subseteq doubted'
    /\ linkdb' = linkdb /\ countdb' = countdb
    /\ ThreadOK(t, X)'

LEMMA StepKeeps ==
    ASSUME NEW X, StoreInv(X), NEW t \in Threads, StepOK(t, X)
    PROVE  StoreInv(X)'
  <1>1. \A u \in Threads : ThreadOK(u, X)'
    BY OthersKeep DEF StoreInv, StepOK
  <1> QED
    BY <1>1, CountsKeep DEF StoreInv, StepOK

----------------------------------------------------------------------------
(* Where a step leads *)

LEMMA ProceedFacts ==
    ASSUME StoreTypeOK, NEW t \in Threads, NEW s \in Statements, Proceed(t, s)
    PROVE  /\ pc' \in [Threads -> Statements \cup {"idle", "returned"}]
           /\ reply' = reply /\ pc'[t] = s /\ \A u \in Threads \ {t} : pc'[u] = pc[u]
  BY DEF StoreTypeOK, Proceed

LEMMA ReturnFacts ==
    ASSUME StoreTypeOK, NEW t \in Threads, NEW r \in {"ok", "error"}, Return(t, r)
    PROVE  /\ pc' \in [Threads -> Statements \cup {"idle", "returned"}]
           /\ reply' \in [Threads -> {"none", "ok", "error"}]
           /\ pc'[t] = "returned" /\ reply'[t] = r
           /\ \A u \in Threads \ {t} : pc'[u] = pc[u] /\ reply'[u] = reply[u]
  BY DEF StoreTypeOK, Return

(* Writes of t, as far as other threads and unlocked rows are concerned.   *)
LEMMA WriteOwn ==
    ASSUME UnlockedIsCommitted, NEW t \in Threads,
           \/ LinksStay
           \/ \E r \in Links, v \in LinkRow \cup {Null} : LinkWritten(t, r, v),
           \/ CountsStay
           \/ \E r \in Id1s, v \in Nat \cup {Null} : CountWritten(t, r, v)
    PROVE  OwnRowsOnly(t) /\ UnlockedIsCommitted'
  <1>1. t # Null
    BY StoreAssumption
  <1>2. \A l \in Links :
          /\ \/ linklock[l] \in {t, Null} /\ linklock'[l] \in {t, Null}
             \/ linklock'[l] = linklock[l] /\ linkcur'[l] = linkcur[l] /\ linkdb'[l] = linkdb[l]
          /\ linklock'[l] = Null => linkcur'[l] = linkdb'[l]
    BY <1>1 DEF LinksStay, LinkWritten, UnlockedIsCommitted
  <1>3. \A k \in Id1s :
          /\ \/ countlock[k] \in {t, Null} /\ countlock'[k] \in {t, Null}
             \/ countlock'[k] = countlock[k] /\ countcur'[k] = countcur[k] /\ countdb'[k] = countdb[k]
          /\ countlock'[k] = Null => countcur'[k] = countdb'[k]
    BY <1>1 DEF CountsStay, CountWritten, UnlockedIsCommitted
  <1> QED
    BY <1>2, <1>3 DEF OwnRowsOnly, UnlockedIsCommitted

(* A step that touches no row changes no delta. *)
LEMMA RowsStay ==
    ASSUME NEW X, StoreInv(X), NEW t \in Threads, LinksStay, CountsStay
    PROVE  /\ OwnRowsOnly(t) /\ UnlockedIsCommitted' /\ LinksTyped /\ CountsTyped
           /\ \A l \in Links : LinkDelta(t, l)' = LinkDelta(t, l)
           /\ \A k \in Id1s : CountDelta(t, k)' = CountDelta(t, k)
  <1>1. OwnRowsOnly(t) /\ UnlockedIsCommitted'
    BY WriteOwn DEF StoreInv
  <1>2. LinksTyped /\ CountsTyped
    BY DEF StoreInv, StoreTypeOK, LinksStay, CountsStay, LinksTyped, CountsTyped
  <1>3. \A l \in Links : LinkDelta(t, l)' = LinkDelta(t, l)
    BY DEF LinksStay, LinkDelta, LinkWeight
  <1>4. \A k \in Id1s : CountDelta(t, k)' = CountDelta(t, k)
    BY DEF CountsStay, CountDelta, CountOf
  <1> QED BY <1>1, <1>2, <1>3, <1>4

----------------------------------------------------------------------------
(* The start and the end of a call *)

LEMMA InitializeKeeps ==
    ASSUME NEW X, StoreInv(X), NEW t \in Threads, Initialize(t)
    PROVE  StoreInv(X)'
  <1>1. LinksStay /\ CountsStay
    BY DEF Initialize, LinksStay, CountsStay, linktable, counttable
  <1>2. /\ OwnRowsOnly(t) /\ UnlockedIsCommitted' /\ LinksTyped /\ CountsTyped
        /\ \A l \in Links : LinkDelta(t, l)' = LinkDelta(t, l)
        /\ \A k \in Id1s : CountDelta(t, k)' = CountDelta(t, k)
    BY <1>1, RowsStay
  <1>3. /\ pc[t] = "idle" /\ pc' = pc /\ reply' = reply /\ call' = call /\ local' = local
        /\ doubted' = doubted /\ faults' = faults /\ open' \in [Threads -> BOOLEAN]
    BY DEF Initialize, progress, StoreInv, StoreTypeOK
  <1>4. StoreTypeOK'
    BY <1>2, <1>3 DEF StoreInv, StoreTypeOK, LinksTyped, CountsTyped
  <1>5. CallOK(t)' /\ AtOK(t)'
    BY <1>3 DEF StoreInv, ThreadOK, CallOK, AtOK, AddPoints, DeletePoints
  <1>6. OthersUnmoved(t, X) => OthersUnmoved(t, X)'
    BY <1>2, <1>3 DEF OthersUnmoved, LinkPoints, CountPoints
  <1>7. OwnMoved(t, X)'
    BY <1>3 DEF OwnMoved, CountPoints
  <1>8. ThreadOK(t, X)'
    BY <1>3, <1>5, <1>6, <1>7 DEF StoreInv, ThreadOK
  <1>9. StepOK(t, X)
    BY <1>1, <1>2, <1>3, <1>4, <1>8 DEF StepOK, OthersStay, LinksStay, CountsStay
  <1> QED BY <1>9, StepKeeps

(* A call starts at its first statement, where nothing has moved.          *)
LEMMA CallKeeps ==
    ASSUME NEW X, StoreInv(X), NEW t \in Threads, NEW c \in LinkCalls, Call(t, c)
    PROVE  StoreInv(X)'
  <1>0. c.op \in {"addLink", "deleteLink", "getLink"}
    BY CallFacts
  <1>1. LinksStay /\ CountsStay
    BY DEF Call, LinksStay, CountsStay, linktable, counttable
  <1>2. /\ OwnRowsOnly(t) /\ UnlockedIsCommitted' /\ LinksTyped /\ CountsTyped
        /\ \A l \in Links : LinkDelta(t, l)' = LinkDelta(t, l)
        /\ \A k \in Id1s : CountDelta(t, k)' = CountDelta(t, k)
    BY <1>1, RowsStay
  <1>3. /\ pc[t] = "idle" /\ doubted' = doubted /\ faults' = faults /\ open' = open
        /\ call'[t] = c /\ \A u \in Threads \ {t} : call'[u] = call[u] /\ local'[u] = local[u]
        /\ \A u \in Threads : call'[u] # Null => call'[u] \in LinkCalls \/ IsBulkCall(call'[u])
        /\ DOMAIN call' = Threads /\ local' \in [Threads -> LocalType]
    <2>1. NoLocals \in LocalType
      BY DEF NoLocals, LocalType
    <2>2. DOMAIN call = Threads
      BY DEF StoreInv, StoreTypeOK
    <2> QED BY <2>1, <2>2 DEF Call, StoreInv, StoreTypeOK
  <1>4. /\ pc' \in [Threads -> Statements \cup {"idle", "returned"}]
        /\ reply' \in [Threads -> {"none", "ok", "error"}]
        /\ \A u \in Threads \ {t} : pc'[u] = pc[u] /\ reply'[u] = reply[u]
        /\ \/ pc'[t] = "insert" /\ c.op = "addLink" /\ reply'[t] = reply[t]
           \/ pc'[t] = "select" /\ c.op = "deleteLink" /\ reply'[t] = reply[t]
           \/ pc'[t] = "read" /\ c.op = "getLink" /\ reply'[t] = reply[t]
           \/ pc'[t] = "returned" /\ reply'[t] = "error"
    <2>1. FirstStatement(c) \in Statements
      BY <1>0 DEF FirstStatement, Statements, Writing
    <2>2. CASE Proceed(t, FirstStatement(c))
      BY <1>0, <2>1, <2>2, ProceedFacts DEF FirstStatement, StoreInv, StoreTypeOK
    <2>3. CASE Return(t, "error")
      BY <2>3, ReturnFacts DEF StoreInv
    <2> QED BY <1>0, <2>2, <2>3 DEF Call, NothingToDo
  <1>5. StoreTypeOK'
    BY <1>2, <1>3, <1>4 DEF StoreInv, StoreTypeOK, LinksTyped, CountsTyped
  <1>6. CallOK(t)' /\ AtOK(t)'
    BY <1>3, <1>4 DEF CallOK, AtOK, AddPoints, DeletePoints
  <1>7. reply[t] = "none" /\ OthersUnmoved(t, X)
    BY <1>3 DEF StoreInv, StoreTypeOK, ThreadOK
  <1>8. OthersUnmoved(t, X)'
    BY <1>2, <1>3, <1>4, <1>7 DEF OthersUnmoved, LinkPoints, CountPoints
  <1>9. OwnMoved(t, X)'
    BY <1>4 DEF OwnMoved, CountPoints
  <1>10. ThreadOK(t, X)'
    BY <1>3, <1>4, <1>6, <1>7, <1>8, <1>9 DEF ThreadOK
  <1>11. StepOK(t, X)
    BY <1>1, <1>2, <1>3, <1>4, <1>5, <1>10 DEF StepOK, OthersStay, LinksStay, CountsStay
  <1> QED BY <1>11, StepKeeps

(* A step that touches no row and goes on in the same call.                *)
LEMMA QuietKeeps ==
    ASSUME NEW X, StoreInv(X), NEW t \in Threads, LinksStay, CountsStay,
           pc' \in [Threads -> Statements \cup {"idle", "returned"}],
           reply' \in [Threads -> {"none", "ok", "error"}],
           local' \in [Threads -> LocalType],
           open' = open, call' = call, OthersStay(t), faults' \in 0 .. MaxFaults,
           doubted \subseteq doubted', doubted' \subseteq Id1s,
           CallOK(t)', AtOK(t)', reply'[t] # "none" <=> pc'[t] = "returned",
           reply'[t] # "error" => OthersUnmoved(t, X)' /\ OwnMoved(t, X)'
    PROVE  StoreInv(X)'
  <1>1. OwnRowsOnly(t) /\ UnlockedIsCommitted' /\ LinksTyped /\ CountsTyped
    BY RowsStay
  <1>2. StoreTypeOK'
    BY <1>1 DEF StoreInv, StoreTypeOK, LinksTyped, CountsTyped
  <1>3. StepOK(t, X)
    BY <1>1, <1>2 DEF StepOK, ThreadOK, LinksStay, CountsStay
  <1> QED BY <1>3, StepKeeps

LEMMA TakeReplyKeeps ==
    ASSUME NEW X, StoreInv(X), NEW t \in Threads, TakeReply(t)
    PROVE  StoreInv(X)'
  <1>1. LinksStay /\ CountsStay
    BY DEF TakeReply, LinksStay, CountsStay, linktable, counttable
  <1>2. /\ \A l \in Links : LinkDelta(t, l)' = LinkDelta(t, l)
        /\ \A k \in Id1s : CountDelta(t, k)' = CountDelta(t, k)
    BY <1>1, RowsStay
  <1>3. /\ pc' \in [Threads -> Statements \cup {"idle", "returned"}]
        /\ reply' \in [Threads -> {"none", "ok", "error"}]
        /\ pc[t] = "returned" /\ reply[t] = "ok" /\ pc'[t] = "idle" /\ reply'[t] = "none"
        /\ OthersStay(t) /\ call' = call /\ local' = local /\ open' = open
        /\ doubted' = doubted /\ faults' = faults
    BY DEF TakeReply, StoreInv, StoreTypeOK, OthersStay
  <1>4. OthersUnmoved(t, X)'
    BY <1>2, <1>3 DEF StoreInv, ThreadOK, OthersUnmoved, LinkPoints, CountPoints
  <1>5. CallOK(t)' /\ AtOK(t)' /\ OwnMoved(t, X)'
    BY <1>3 DEF CallOK, AtOK, OwnMoved, AddPoints, DeletePoints, CountPoints
  <1> QED
    BY <1>1, <1>3, <1>4, <1>5, QuietKeeps DEF StoreInv, StoreTypeOK

LEMMA StatementFailsKeeps ==
    ASSUME NEW X, StoreInv(X), NEW t \in Threads, StatementFails(t)
    PROVE  StoreInv(X)'
  <1>1. LinksStay /\ CountsStay
    BY DEF StatementFails, LinksStay, CountsStay, linktable, counttable
  <1>2. Return(t, "error") /\ pc[t] \in Statements
    BY DEF StatementFails, Statements
  <1>3. /\ pc' \in [Threads -> Statements \cup {"idle", "returned"}]
        /\ reply' \in [Threads -> {"none", "ok", "error"}]
        /\ pc'[t] = "returned" /\ reply'[t] = "error"
        /\ \A u \in Threads \ {t} : pc'[u] = pc[u] /\ reply'[u] = reply[u]
    BY <1>2, ReturnFacts DEF StoreInv
  <1>4. /\ call' = call /\ local' = local /\ open' = open /\ doubted' = doubted
        /\ faults' \in 0 .. MaxFaults
    BY StoreAssumption DEF StatementFails, StoreInv, StoreTypeOK
  <1>5. call[t] \in LinkCalls
    BY <1>2 DEF StoreInv, ThreadOK, CallOK, Statements, Writing
  <1>6. CallOK(t)' /\ AtOK(t)'
    BY <1>3, <1>4, <1>5 DEF CallOK, AtOK, AddPoints, DeletePoints
  <1> QED
    BY <1>1, <1>3, <1>4, <1>6, QuietKeeps DEF StoreInv, StoreTypeOK, OthersStay

LEMMA ReadLinkKeeps ==
    ASSUME NEW X, StoreInv(X), NEW t \in Threads, ReadLink(t)
    PROVE  StoreInv(X)'
  <1>1. LinksStay /\ CountsStay
    BY DEF ReadLink, LinksStay, CountsStay, linktable, counttable
  <1>2. /\ \A l \in Links : LinkDelta(t, l)' = LinkDelta(t, l)
        /\ \A k \in Id1s : CountDelta(t, k)' = CountDelta(t, k)
    BY <1>1, RowsStay
  <1>3. /\ pc' \in [Threads -> Statements \cup {"idle", "returned"}]
        /\ reply' \in [Threads -> {"none", "ok", "error"}]
        /\ pc'[t] = "returned" /\ reply'[t] = "ok"
        /\ \A u \in Threads \ {t} : pc'[u] = pc[u] /\ reply'[u] = reply[u]
    BY ReturnFacts DEF ReadLink, StoreInv
  <1>4. /\ call' = call /\ open' = open /\ doubted' = doubted /\ faults' = faults
        /\ pc[t] = "read" /\ \A u \in Threads \ {t} : local'[u] = local[u]
    BY DEF ReadLink, StoreInv, StoreTypeOK
  <1>5. local' \in [Threads -> LocalType]
    BY DEF ReadLink, StoreInv, StoreTypeOK, LocalType
  <1>6. call[t] \in LinkCalls /\ reply[t] # "error" /\ OthersUnmoved(t, X)
    BY <1>4 DEF StoreInv, ThreadOK, CallOK
  <1>7. OthersUnmoved(t, X)'
    BY <1>2, <1>3, <1>4, <1>6 DEF OthersUnmoved, LinkPoints, CountPoints
  <1>8. CallOK(t)' /\ AtOK(t)' /\ OwnMoved(t, X)'
    BY <1>3, <1>4, <1>6 DEF CallOK, AtOK, OwnMoved, AddPoints, DeletePoints, CountPoints
  <1> QED
    BY <1>1, <1>3, <1>4, <1>5, <1>7, <1>8, QuietKeeps DEF StoreInv, StoreTypeOK, OthersStay

----------------------------------------------------------------------------
(* Retries and rollbacks *)

(* The statement a call that writes starts again with.                     *)
LEMMA RestartFacts ==
    ASSUME NEW c \in LinkCalls, c.op # "getLink"
    PROVE  \/ FirstStatement(c) = "insert" /\ c.op = "addLink"
           \/ FirstStatement(c) = "select" /\ c.op = "deleteLink"
  BY CallFacts DEF FirstStatement

LEMMA LockWaitTimeoutKeeps ==
    ASSUME NEW X, StoreInv(X), NEW t \in Threads, LockWaitTimeout(t)
    PROVE  StoreInv(X)'
  <1> DEFINE l == call[t].link
             s == FirstStatement(call[t])
  <1>1. LinksStay /\ CountsStay
    BY DEF LockWaitTimeout, LinksStay, CountsStay, linktable, counttable
  <1>2. /\ \A q \in Links : LinkDelta(t, q)' = LinkDelta(t, q)
        /\ \A k \in Id1s : CountDelta(t, k)' = CountDelta(t, k)
    BY <1>1, RowsStay
  <1>3. ThreadOK(t, X)
    BY DEF StoreInv
  <1>4. /\ pc[t] \in {"insert", "select", "count", "uncount"}
        /\ pc[t] \in {"count", "uncount"} => linklock[l] = t
    BY <1>3 DEF LockWaitTimeout, Waits, ThreadOK, AtOK, L!Available
  <1>5. call[t] \in LinkCalls /\ l \in Links /\ l[1] \in Id1s /\ call[t].op # "getLink"
    BY <1>3, <1>4, CallFacts DEF ThreadOK, CallOK, AddPoints, DeletePoints
  <1>6. \/ s = "insert" /\ call[t].op = "addLink"
        \/ s = "select" /\ call[t].op = "deleteLink"
    BY <1>5, RestartFacts
  <1>7. /\ pc' \in [Threads -> Statements \cup {"idle", "returned"}]
        /\ reply' = reply /\ pc'[t] = s /\ \A u \in Threads \ {t} : pc'[u] = pc[u]
    <2>1. s \in Statements /\ Proceed(t, s)
      BY <1>6 DEF LockWaitTimeout, Statements, Writing
    <2> QED BY <2>1, ProceedFacts DEF StoreInv
  <1>8. /\ call' = call /\ local' = local /\ open' = open /\ doubted \subseteq doubted'
        /\ faults' \in 0 .. MaxFaults /\ doubted' \subseteq Id1s
        /\ l[1] \in doubted' \cup X \/ linklock[l] # t \/ Visible(linkcur[l]) = Visible(linkdb[l])
    BY <1>5, StoreAssumption DEF LockWaitTimeout, StoreInv, StoreTypeOK
  <1>9. reply[t] # "error" /\ OthersUnmoved(t, X)
    BY <1>3, <1>4 DEF ThreadOK, StoreInv, StoreTypeOK
  <1>10. l[1] \in doubted' \cup X \/ LinkDelta(t, l) = 0
    <2>1. CASE pc[t] \in {"insert", "select"}
      BY <2>1, <1>5, <1>8, <1>9 DEF OthersUnmoved, LinkPoints
    <2>2. CASE linklock[l] = t
      BY <2>2, <1>8 DEF LinkDelta, LinkWeight, Visible
    <2> QED BY <1>4, <2>1, <2>2
  <1>11. OthersUnmoved(t, X)'
    <2>1. \A q \in Links : q[1] \in doubted' \cup X \/ LinkDelta(t, q) = 0
      BY <1>8, <1>9, <1>10 DEF OthersUnmoved
    <2>2. \A k \in Id1s : k \in doubted' \cup X \/ CountDelta(t, k) = 0
      BY <1>4, <1>8, <1>9 DEF OthersUnmoved, CountPoints
    <2> QED BY <2>1, <2>2, <1>2 DEF OthersUnmoved
  <1>12. CallOK(t)' /\ AtOK(t)' /\ OwnMoved(t, X)'
    BY <1>5, <1>6, <1>7, <1>8
       DEF CallOK, AtOK, OwnMoved, AddPoints, DeletePoints, CountPoints
  <1>13. reply'[t] # "none" <=> pc'[t] = "returned"
    BY <1>3, <1>4, <1>6, <1>7 DEF ThreadOK
  <1> QED
    BY <1>1, <1>7, <1>8, <1>11, <1>12, <1>13, QuietKeeps
       DEF StoreInv, StoreTypeOK, OthersStay

(* After a rollback t has changed nothing, and its other steps go on.      *)
LEMMA RolledBackKeeps ==
    ASSUME NEW X, StoreInv(X), NEW t \in Threads, L!Rollback(t), C!Rollback(t),
           pc' \in [Threads -> Statements \cup {"idle", "returned"}],
           reply' \in [Threads -> {"none", "ok", "error"}],
           open' \in [Threads -> BOOLEAN], call' = call, local' = local, OthersStay(t),
           faults' \in 0 .. MaxFaults, doubted' = doubted,
           CallOK(t)', pc'[t] \in {"idle", "insert", "select"}, reply'[t] = "none"
    PROVE  StoreInv(X)'
  <1>1. LinksRolledBack(t) /\ CountsRolledBack(t) /\ LinksTyped /\ CountsTyped
    BY RollbackRows DEF StoreInv
  <1>2. t # Null
    BY StoreAssumption
  <1>3. OwnRowsOnly(t) /\ UnlockedIsCommitted'
    <2>1. \A l \in Links :
            /\ \/ linklock[l] \in {t, Null} /\ linklock'[l] \in {t, Null}
               \/ linklock'[l] = linklock[l] /\ linkcur'[l] = linkcur[l] /\ linkdb'[l] = linkdb[l]
            /\ linklock'[l] = Null => linkcur'[l] = linkdb'[l]
      BY <1>1 DEF StoreInv, LinksRolledBack, UnlockedIsCommitted
    <2>2. \A k \in Id1s :
            /\ \/ countlock[k] \in {t, Null} /\ countlock'[k] \in {t, Null}
               \/ countlock'[k] = countlock[k] /\ countcur'[k] = countcur[k] /\ countdb'[k] = countdb[k]
            /\ countlock'[k] = Null => countcur'[k] = countdb'[k]
      BY <1>1 DEF StoreInv, CountsRolledBack, UnlockedIsCommitted
    <2> QED BY <2>1, <2>2 DEF OwnRowsOnly, UnlockedIsCommitted
  <1>4. StoreTypeOK'
    BY <1>1 DEF StoreInv, StoreTypeOK, LinksTyped, CountsTyped
  <1>5. /\ \A l \in Links : LinkDelta(t, l)' = 0
        /\ \A k \in Id1s : CountDelta(t, k)' = 0
    BY <1>1, <1>2 DEF LinkDelta, CountDelta, LinksRolledBack, CountsRolledBack
  <1>6. OthersUnmoved(t, X)' /\ OwnMoved(t, X)' /\ AtOK(t)'
    BY <1>5 DEF OthersUnmoved, OwnMoved, AtOK, CountPoints
  <1>7. StepOK(t, X)
    BY <1>1, <1>3, <1>4, <1>6 DEF StepOK, ThreadOK, LinksRolledBack, CountsRolledBack
  <1> QED BY <1>7, StepKeeps

LEMMA DeadlockKeeps ==
    ASSUME NEW X, StoreInv(X), NEW t \in Threads, Deadlock(t)
    PROVE  StoreInv(X)'
  <1> DEFINE s == FirstStatement(call[t])
  <1>1. /\ pc[t] \in Writing /\ L!Rollback(t) /\ C!Rollback(t) /\ Proceed(t, s)
        /\ open' = open /\ call' = call /\ local' = local /\ doubted' = doubted
        /\ faults' \in 0 .. MaxFaults
    BY StoreAssumption DEF Deadlock, StoreInv, StoreTypeOK
  <1>2. ThreadOK(t, X)
    BY DEF StoreInv
  <1>3. call[t] \in LinkCalls /\ call[t].op # "getLink" /\ reply[t] = "none"
    BY <1>1, <1>2 DEF ThreadOK, CallOK, AddPoints, DeletePoints, Writing, StoreInv, StoreTypeOK
  <1>4. \/ s = "insert" /\ call[t].op = "addLink"
        \/ s = "select" /\ call[t].op = "deleteLink"
    BY <1>3, RestartFacts
  <1>5. /\ pc' \in [Threads -> Statements \cup {"idle", "returned"}]
        /\ reply' = reply /\ pc'[t] = s /\ \A u \in Threads \ {t} : pc'[u] = pc[u]
    <2>1. s \in Statements
      BY <1>4 DEF Statements, Writing
    <2> QED BY <1>1, <2>1, ProceedFacts DEF StoreInv
  <1>6. CallOK(t)'
    BY <1>1, <1>3, <1>4, <1>5 DEF CallOK, AddPoints, DeletePoints
  <1> HIDE DEF s
  <1> QED
    BY <1>1, <1>3, <1>4, <1>5, <1>6, RolledBackKeeps DEF StoreInv, StoreTypeOK, OthersStay

LEMMA ClearErrorsKeeps ==
    ASSUME NEW X, StoreInv(X), NEW t \in Threads, ClearErrors(t)
    PROVE  StoreInv(X)'
  <1>1. /\ L!Rollback(t) /\ C!Rollback(t) /\ pc'[t] = "idle" /\ reply'[t] = "none"
        /\ pc' \in [Threads -> Statements \cup {"idle", "returned"}]
        /\ reply' \in [Threads -> {"none", "ok", "error"}]
        /\ open' \in [Threads -> BOOLEAN]
        /\ call' = call /\ local' = local /\ doubted' = doubted /\ OthersStay(t)
    BY DEF ClearErrors, StoreInv, StoreTypeOK, OthersStay
  <1>2. faults' \in 0 .. MaxFaults
    BY StoreAssumption DEF ClearErrors, StoreInv, StoreTypeOK
  <1>3. CallOK(t)'
    BY <1>1 DEF CallOK, AddPoints, DeletePoints
  <1> QED BY <1>1, <1>2, <1>3, RolledBackKeeps

LEMMA CloseKeeps ==
    ASSUME NEW X, StoreInv(X), NEW t \in Threads, Close(t)
    PROVE  StoreInv(X)'
  <1>1. /\ L!Rollback(t) /\ C!Rollback(t) /\ pc'[t] = "idle" /\ pc' = pc /\ reply' = reply
        /\ open' \in [Threads -> BOOLEAN] /\ faults' = faults
        /\ call' = call /\ local' = local /\ doubted' = doubted /\ OthersStay(t)
    BY DEF Close, progress, StoreInv, StoreTypeOK, OthersStay
  <1>2. reply'[t] = "none"
    BY <1>1 DEF StoreInv, StoreTypeOK, ThreadOK
  <1>3. CallOK(t)'
    BY <1>1 DEF CallOK, AddPoints, DeletePoints
  <1> QED BY <1>1, <1>2, <1>3, RolledBackKeeps DEF StoreInv, StoreTypeOK

----------------------------------------------------------------------------
(* Statements that write *)

(* A write to a link moves the delta of that link alone, by the weight it  *)
(* changes.                                                                *)
LEMMA LinkMoves ==
    ASSUME NEW X, StoreInv(X), NEW t \in Threads, NEW r \in Links, NEW v \in LinkRow \cup {Null},
           L!Write(t, r, v), CountsStay
    PROVE  /\ OwnRowsOnly(t) /\ UnlockedIsCommitted' /\ LinksTyped /\ CountsTyped
           /\ linkdb' = linkdb /\ countdb' = countdb
           /\ linklock'[r] = t /\ linkcur'[r] = v
           /\ \A l \in Links \ {r} : LinkDelta(t, l)' = LinkDelta(t, l)
           /\ LinkDelta(t, r)' = LinkDelta(t, r) + LinkWeight(v) - LinkWeight(linkcur[r])
           /\ \A k \in Id1s : CountDelta(t, k)' = CountDelta(t, k)
  <1>1. LinkWritten(t, r, v) /\ LinksTyped
    BY LinkWrite DEF StoreInv
  <1>2. OwnRowsOnly(t) /\ UnlockedIsCommitted'
    BY <1>1, WriteOwn DEF StoreInv
  <1>3. CountsTyped /\ countdb' = countdb
    BY DEF CountsStay, CountsTyped, StoreInv, StoreTypeOK
  <1>4. linkdb' = linkdb /\ linklock'[r] = t /\ linkcur'[r] = v
    BY <1>1 DEF LinkWritten
  <1>5. \A l \in Links \ {r} : LinkDelta(t, l)' = LinkDelta(t, l)
    BY <1>1 DEF LinkWritten, LinkDelta, LinkWeight
  <1>6. LinkDelta(t, r)' = LinkDelta(t, r) + LinkWeight(v) - LinkWeight(linkcur[r])
    <2>1. LinkWeight(v) \in Int /\ LinkWeight(linkcur[r]) \in Int /\ LinkWeight(linkdb[r]) \in Int
      BY DEF LinkWeight
    <2>2. LinkDelta(t, r)' = LinkWeight(v) - LinkWeight(linkdb[r])
      BY <1>4 DEF LinkDelta, LinkWeight
    <2>3. LinkDelta(t, r) = LinkWeight(linkcur[r]) - LinkWeight(linkdb[r])
      <3>1. CASE linklock[r] = t
        BY <3>1 DEF LinkDelta
      <3>2. CASE linklock[r] = Null
        BY <3>2, <2>1, StoreAssumption DEF LinkDelta, StoreInv, UnlockedIsCommitted
      <3> QED BY <3>1, <3>2, <1>1 DEF LinkWritten
    <2> QED BY <2>1, <2>2, <2>3
  <1>7. \A k \in Id1s : CountDelta(t, k)' = CountDelta(t, k)
    BY DEF CountsStay, CountDelta, CountOf
  <1> QED BY <1>1, <1>2, <1>3, <1>4, <1>5, <1>6, <1>7

(* A write to a count moves the delta of that count alone. *)
LEMMA CountMoves ==
    ASSUME NEW X, StoreInv(X), NEW t \in Threads, NEW r \in Id1s, NEW v \in Nat,
           C!Write(t, r, v), LinksStay
    PROVE  /\ OwnRowsOnly(t) /\ UnlockedIsCommitted' /\ LinksTyped /\ CountsTyped
           /\ linkdb' = linkdb /\ countdb' = countdb
           /\ \A k \in Id1s \ {r} : CountDelta(t, k)' = CountDelta(t, k)
           /\ CountDelta(t, r)' = CountDelta(t, r) + v - CountOf(countcur[r])
           /\ CountOf(countcur[r]) = CountDelta(t, r) + CountOf(countdb[r])
           /\ \A l \in Links : LinkDelta(t, l)' = LinkDelta(t, l)
  <1>1. CountWritten(t, r, v) /\ CountsTyped
    BY CountWrite DEF StoreInv
  <1>2. OwnRowsOnly(t) /\ UnlockedIsCommitted'
    BY <1>1, WriteOwn DEF StoreInv
  <1>3. LinksTyped /\ linkdb' = linkdb
    BY DEF LinksStay, LinksTyped, StoreInv, StoreTypeOK
  <1>4. countdb' = countdb /\ countlock'[r] = t /\ countcur'[r] = v
    BY <1>1 DEF CountWritten
  <1>5. \A k \in Id1s \ {r} : CountDelta(t, k)' = CountDelta(t, k)
    BY <1>1 DEF CountWritten, CountDelta, CountOf
  <1>6. /\ v # Null /\ CountOf(countcur[r]) \in Nat /\ CountOf(countdb[r]) \in Nat
    BY StoreAssumption DEF CountOf, StoreInv, StoreTypeOK
  <1>7. CountDelta(t, r)' = v - CountOf(countdb[r])
    BY <1>4, <1>6 DEF CountDelta, CountOf
  <1>8. CountDelta(t, r) = CountOf(countcur[r]) - CountOf(countdb[r])
    <2>1. CASE countlock[r] = t
      BY <2>1 DEF CountDelta
    <2>2. CASE countlock[r] = Null
      BY <2>2, <1>6, StoreAssumption DEF CountDelta, StoreInv, UnlockedIsCommitted
    <2> QED BY <2>1, <2>2, <1>1 DEF CountWritten
  <1>9. \A l \in Links : LinkDelta(t, l)' = LinkDelta(t, l)
    BY DEF LinksStay, LinkDelta, LinkWeight
  <1> QED BY <1>1, <1>2, <1>3, <1>4, <1>5, <1>6, <1>7, <1>8, <1>9

(* A step that writes within a call.                                       *)
LEMMA MoveKeeps ==
    ASSUME NEW X, StoreInv(X), NEW t \in Threads,
           OwnRowsOnly(t), UnlockedIsCommitted', LinksTyped, CountsTyped,
           linkdb' = linkdb, countdb' = countdb,
           pc' \in [Threads -> Statements \cup {"idle", "returned"}],
           reply' \in [Threads -> {"none", "ok", "error"}],
           local' \in [Threads -> LocalType],
           open' = open, call' = call, faults' = faults, OthersStay(t),
           doubted \subseteq doubted', doubted' \subseteq Id1s,
           CallOK(t)', AtOK(t)', reply'[t] # "none" <=> pc'[t] = "returned",
           reply'[t] # "error" => OthersUnmoved(t, X)' /\ OwnMoved(t, X)'
    PROVE  StoreInv(X)'
  <1>1. StoreTypeOK'
    BY DEF StoreInv, StoreTypeOK, LinksTyped, CountsTyped
  <1>2. StepOK(t, X)
    BY <1>1 DEF StepOK, ThreadOK
  <1> QED BY <1>2, StepKeeps

LEMMA InsertLinkKeeps ==
    ASSUME NEW X, StoreInv(X), NEW t \in Threads, InsertLink(t)
    PROVE  StoreInv(X)'
  <1> DEFINE c == call[t]
             row == linkcur[c.link]
             nrows == AffectedRows(row, c.visibility)
             n == CountChange(nrows, c.visibility)
             v == Upserted(row, c.visibility, c.data)
             loc == [found |-> nrows # 1, update_count |-> n, update_data |-> nrows # 1]
  <1>0. PICK r \in Links : r = c.link
    BY CallFacts DEF InsertLink, StoreInv, ThreadOK, CallOK
  <1>1. /\ pc[t] = "insert" /\ ThreadOK(t, X) /\ c \in LinkCalls /\ c.op = "addLink"
        /\ r[1] \in Id1s
        /\ c.visibility \in Visibilities /\ c.data \in Data /\ c.link = r
    BY <1>0, CallFacts DEF InsertLink, StoreInv, ThreadOK, CallOK, AddPoints
  <1>2. row \in LinkRow \cup {Null}
    BY <1>1 DEF StoreInv, StoreTypeOK
  <1>3. /\ v \in LinkRow /\ v.visibility = c.visibility /\ nrows \in {0, 1, 2}
        /\ n \in {-1, 0, 1} /\ n = LinkWeight(v) - LinkWeight(row)
    BY <1>1, <1>2, UpsertFacts
  <1>4. L!Write(t, r, v) /\ CountsStay
    BY <1>1 DEF InsertLink, CountsStay, counttable
  <1>5. /\ local' = [local EXCEPT ![t] = loc]
        /\ open' = open /\ call' = call /\ faults' = faults /\ doubted' = doubted
        /\ \/ n # 0 /\ Proceed(t, "count")
           \/ n = 0 /\ Proceed(t, "data")
           \/ n = 0 /\ Return(t, "ok")
    BY DEF InsertLink
  <1>6. /\ OwnRowsOnly(t) /\ UnlockedIsCommitted' /\ LinksTyped /\ CountsTyped
        /\ linkdb' = linkdb /\ countdb' = countdb
        /\ linklock'[r] = t /\ linkcur'[r] = v
        /\ \A l \in Links \ {r} : LinkDelta(t, l)' = LinkDelta(t, l)
        /\ LinkDelta(t, r)' = LinkDelta(t, r) + LinkWeight(v) - LinkWeight(row)
        /\ \A k \in Id1s : CountDelta(t, k)' = CountDelta(t, k)
    <2>1. v \in LinkRow \cup {Null} /\ row = linkcur[r] /\ L!Write(t, r, v)
      BY <1>1, <1>3, <1>4
    <2> HIDE DEF v, row
    <2> QED BY <2>1, <1>4, LinkMoves
  <1>7. /\ local'[t].update_count = n /\ local' \in [Threads -> LocalType]
        /\ \A u \in Threads \ {t} : local'[u] = local[u]
    <2>1. loc \in LocalType
      BY <1>3 DEF LocalType
    <2> QED BY <1>5, <2>1 DEF StoreInv, StoreTypeOK
  <1>8. reply[t] = "none" /\ OthersUnmoved(t, X)
    BY <1>1 DEF ThreadOK, StoreInv, StoreTypeOK
  <1>9. r[1] \in doubted \cup X \/ LinkDelta(t, r)' = n
    <2>1. r[1] \in doubted \cup X \/ LinkDelta(t, r) = 0
      BY <1>1, <1>8 DEF OthersUnmoved, LinkPoints
    <2>2. LinkWeight(v) \in Int /\ LinkWeight(row) \in Int
      BY DEF LinkWeight
    <2> QED BY <1>3, <1>6, <2>1, <2>2
  <1>10. \A k \in Id1s : k \in doubted \cup X \/ CountDelta(t, k)' = 0
    BY <1>1, <1>6, <1>8 DEF OthersUnmoved, CountPoints
  <1>11. \A l \in Links \ {r} : l[1] \in doubted \cup X \/ LinkDelta(t, l)' = 0
    BY <1>1, <1>6, <1>8 DEF OthersUnmoved, LinkPoints
  <1>12. v # Null
    BY <1>3, LinkFacts
  <1> HIDE DEF n, nrows, v, row, loc
  <1>13. /\ pc' \in [Threads -> Statements \cup {"idle", "returned"}]
         /\ reply' \in [Threads -> {"none", "ok", "error"}]
         /\ \A u \in Threads \ {t} : pc'[u] = pc[u] /\ reply'[u] = reply[u]
         /\ \/ n # 0 /\ pc'[t] = "count" /\ reply'[t] = "none"
            \/ n = 0 /\ pc'[t] = "data" /\ reply'[t] = "none"
            \/ n = 0 /\ pc'[t] = "returned" /\ reply'[t] = "ok"
    <2>1. {"count", "data"} \subseteq Statements
      BY DEF Statements, Writing
    <2> QED BY <1>5, <1>8, <2>1, ProceedFacts, ReturnFacts DEF StoreInv, StoreTypeOK
  <1>14. CallOK(t)' /\ AtOK(t)'
    BY <1>1, <1>3, <1>5, <1>6, <1>7, <1>12, <1>13
       DEF CallOK, AtOK, AddPoints, DeletePoints
  <1>15. OthersUnmoved(t, X)'
    <2>1. call'[t].link = r /\ doubted' = doubted
      BY <1>1, <1>5
    <2>2. \A l \in Links : l[1] \in doubted \cup X \/ l = r \/ LinkDelta(t, l)' = 0
      BY <1>11
    <2>3. pc'[t] \in LinkPoints \/ n = 0
      BY <1>13 DEF LinkPoints
    <2> QED BY <1>9, <1>10, <2>1, <2>2, <2>3 DEF OthersUnmoved
  <1>16. OwnMoved(t, X)'
    BY <1>1, <1>5, <1>7, <1>9, <1>10, <1>13 DEF OwnMoved, CountPoints
  <1> QED
    BY <1>5, <1>6, <1>7, <1>13, <1>14, <1>15, <1>16, MoveKeeps
       DEF StoreInv, StoreTypeOK, OthersStay

(* A visible link is in the count. *)
LEMMA VisibleCounted ==
    ASSUME NEW X, StoreInv(X), NEW r \in Links, r[1] \notin doubted \cup X, LinkWeight(linkdb[r]) = 1
    PROVE  CountOf(countdb[r[1]]) \in Nat \ {0}
  <1> DEFINE S == {j \in Id2s : Visible(linkdb[<<r[1], j>>])}
  <1>1. r[1] \in Id1s /\ r[2] \in S
    BY LinkFacts DEF LinkWeight, Visible
  <1>2. IsFiniteSet(S) /\ S # {}
    BY <1>1, FS_Subset, StoreAssumption
  <1>3. Cardinality(S) \in Nat \ {0}
    BY <1>2, FS_EmptySet, FS_CardinalityType
  <1>4. CountOf(countdb[r[1]]) = Cardinality(S)
    BY <1>1 DEF StoreInv, CountsMatchBut, Consistent, NumVisible
  <1> QED BY <1>3, <1>4

LEMMA UpdateCountKeeps ==
    ASSUME NEW X, StoreInv(X), NEW t \in Threads, UpdateCount(t)
    PROVE  StoreInv(X)'
  <1>1. /\ pc[t] = "count" /\ ThreadOK(t, X) /\ call[t] \in LinkCalls /\ call[t].op = "addLink"
        /\ call[t].link \in Links /\ call[t].link[1] \in Id1s
    BY CallFacts DEF UpdateCount, StoreInv, ThreadOK, CallOK, AddPoints
  <1>2. PICK r \in Links, k \in Id1s : r = call[t].link /\ k = r[1]
    BY <1>1
  <1> DEFINE n == local[t].update_count
             row == countcur[k]
             count == IF row = Null THEN (IF n < 0 THEN 0 ELSE 1) ELSE row + n
  <1>3. /\ open' = open /\ call' = call /\ local' = local /\ faults' = faults
        /\ doubted' = doubted /\ LinksStay
        /\ \/ Return(t, "error") /\ CountsStay
           \/ /\ ~(count < 0) /\ C!Write(t, k, count)
              /\ Proceed(t, "data") \/ Proceed(t, "commit")
    BY <1>2 DEF UpdateCount, CountsStay, counttable, LinksStay, linktable
  <1>4. /\ n \in {-1, 1} /\ reply[t] = "none" /\ OthersUnmoved(t, X)
        /\ k \in doubted \cup X \/ LinkDelta(t, r) = n
        /\ linklock[r] = t /\ linkcur[r] # Null /\ linkcur[r].visibility = call[t].visibility
    BY <1>1, <1>2 DEF ThreadOK, AtOK, OwnMoved, StoreInv, StoreTypeOK, LocalType
  <1>5. CASE Return(t, "error") /\ CountsStay
    <2>1. /\ pc' \in [Threads -> Statements \cup {"idle", "returned"}]
          /\ reply' \in [Threads -> {"none", "ok", "error"}]
          /\ pc'[t] = "returned" /\ reply'[t] = "error"
          /\ \A u \in Threads \ {t} : pc'[u] = pc[u] /\ reply'[u] = reply[u]
      BY <1>5, ReturnFacts DEF StoreInv
    <2>2. CallOK(t)' /\ AtOK(t)'
      BY <1>1, <1>3, <2>1 DEF CallOK, AtOK, AddPoints, DeletePoints
    <2> QED
      BY <1>3, <1>5, <2>1, <2>2, QuietKeeps DEF StoreInv, StoreTypeOK, OthersStay
  <1>6. CASE ~(count < 0) /\ C!Write(t, k, count) /\ (Proceed(t, "data") \/ Proceed(t, "commit"))
    <2>1. row \in Nat \cup {Null} /\ count \in Nat
      BY <1>4, <1>6, StoreAssumption DEF StoreInv, StoreTypeOK
    <2>2. /\ OwnRowsOnly(t) /\ UnlockedIsCommitted' /\ LinksTyped /\ CountsTyped
          /\ linkdb' = linkdb /\ countdb' = countdb
          /\ \A q \in Id1s \ {k} : CountDelta(t, q)' = CountDelta(t, q)
          /\ CountDelta(t, k)' = CountDelta(t, k) + count - CountOf(row)
          /\ CountOf(row) = CountDelta(t, k) + CountOf(countdb[k])
          /\ \A l \in Links : LinkDelta(t, l)' = LinkDelta(t, l)
      <3> HIDE DEF count
      <3> QED BY <1>3, <1>6, <2>1, CountMoves
    <2>3. k \in doubted \cup X \/ CountDelta(t, k) = 0
      BY <1>1, <1>4 DEF OthersUnmoved, CountPoints
    <2>4. k \in doubted \cup X \/ count - CountOf(row) = n
      <3>1. CASE row # Null
        BY <3>1, <1>4, <2>1 DEF CountOf
      <3>2. CASE row = Null /\ n = 1
        BY <3>2 DEF CountOf
      <3>3. CASE row = Null /\ n = -1 /\ k \notin doubted \cup X
        <4>1. LinkWeight(linkcur[r]) - LinkWeight(linkdb[r]) = -1
          BY <3>3, <1>4 DEF LinkDelta
        <4>2. LinkWeight(linkdb[r]) = 1
          BY <4>1 DEF LinkWeight
        <4>3. CountOf(countdb[k]) # 0
          BY <1>2, <3>3, <4>2, VisibleCounted
        <4>4. CountOf(row) = 0 /\ CountOf(countdb[k]) \in Nat
          BY <3>3 DEF CountOf, StoreInv, StoreTypeOK
        <4> QED BY <2>2, <2>3, <3>3, <4>3, <4>4
      <3> QED BY <1>4, <3>1, <3>2, <3>3
    <2>5. k \in doubted \cup X \/ CountDelta(t, k)' = n
      <3>1. CountOf(row) \in Nat
        BY <2>1 DEF CountOf
      <3> HIDE DEF count, row
      <3> QED BY <2>1, <2>2, <2>3, <2>4, <3>1
    <2>6. /\ pc' \in [Threads -> Statements \cup {"idle", "returned"}]
          /\ reply' = reply /\ pc'[t] \in {"data", "commit"}
          /\ \A u \in Threads \ {t} : pc'[u] = pc[u]
      <3>1. {"data", "commit"} \subseteq Statements
        BY DEF Statements, Writing
      <3> QED BY <1>6, <3>1, ProceedFacts DEF StoreInv
    <2>7. linklock' = linklock /\ linkcur' = linkcur
      BY <1>3 DEF LinksStay
    <2>8. CallOK(t)' /\ AtOK(t)'
      BY <1>1, <1>2, <1>3, <1>4, <2>6, <2>7 DEF CallOK, AtOK, AddPoints, DeletePoints
    <2>9. OthersUnmoved(t, X)'
      <3>1. \A q \in Id1s \ {k} : q \in doubted \cup X \/ CountDelta(t, q)' = 0
        BY <1>1, <1>4, <2>2 DEF OthersUnmoved, CountPoints
      <3>2. \A l \in Links \ {r} : l[1] \in doubted \cup X \/ LinkDelta(t, l)' = 0
        BY <1>1, <1>2, <1>4, <2>2 DEF OthersUnmoved
      <3> QED BY <1>2, <1>3, <2>6, <3>1, <3>2 DEF OthersUnmoved, LinkPoints, CountPoints
    <2>10. OwnMoved(t, X)'
      BY <1>2, <1>3, <1>4, <2>2, <2>5, <2>6 DEF OwnMoved, CountPoints
    <2> QED
      BY <1>3, <1>4, <2>2, <2>6, <2>8, <2>9, <2>10, MoveKeeps
         DEF StoreInv, StoreTypeOK, OthersStay
  <1> QED BY <1>3, <1>5, <1>6

LEMMA UpdateDataKeeps ==
    ASSUME NEW X, StoreInv(X), NEW t \in Threads, UpdateData(t)
    PROVE  StoreInv(X)'
  <1>1. /\ pc[t] = "data" /\ ThreadOK(t, X) /\ call[t] \in LinkCalls /\ call[t].op = "addLink"
        /\ call[t].link \in Links /\ call[t].link[1] \in Id1s
        /\ call[t].visibility \in Visibilities /\ call[t].data \in Data
    BY CallFacts DEF UpdateData, StoreInv, ThreadOK, CallOK, AddPoints
  <1>2. PICK r \in Links, k \in Id1s : r = call[t].link /\ k = r[1]
    BY <1>1
  <1> DEFINE v == [visibility |-> call[t].visibility, data |-> call[t].data]
  <1>3. /\ open' = open /\ call' = call /\ local' = local /\ faults' = faults
        /\ doubted' = doubted /\ CountsStay /\ L!Write(t, r, v) /\ Proceed(t, "commit")
    BY <1>2 DEF UpdateData, CountsStay, counttable
  <1>4. /\ reply[t] = "none" /\ OthersUnmoved(t, X)
        /\ k \in doubted \cup X \/ LinkDelta(t, r) = CountDelta(t, k)
        /\ linkcur[r] # Null /\ linkcur[r].visibility = call[t].visibility
    BY <1>1, <1>2 DEF ThreadOK, AtOK, OwnMoved, CountPoints, StoreInv, StoreTypeOK
  <1>5. v \in LinkRow /\ LinkWeight(v) = LinkWeight(linkcur[r])
    BY <1>1, <1>4, StoreAssumption DEF LinkRow, LinkWeight
  <1>6. /\ OwnRowsOnly(t) /\ UnlockedIsCommitted' /\ LinksTyped /\ CountsTyped
        /\ linkdb' = linkdb /\ countdb' = countdb
        /\ \A l \in Links \ {r} : LinkDelta(t, l)' = LinkDelta(t, l)
        /\ LinkDelta(t, r)' = LinkDelta(t, r) + LinkWeight(v) - LinkWeight(linkcur[r])
        /\ \A q \in Id1s : CountDelta(t, q)' = CountDelta(t, q)
    <2> HIDE DEF v
    <2> QED BY <1>3, <1>5, LinkMoves
  <1>7. LinkDelta(t, r)' = LinkDelta(t, r)
    <2>1. LinkDelta(t, r) \in Int /\ LinkWeight(v) \in Int
      BY DEF LinkDelta, LinkWeight
    <2> QED BY <1>5, <1>6, <2>1
  <1>8. /\ pc' \in [Threads -> Statements \cup {"idle", "returned"}]
        /\ reply' = reply /\ pc'[t] = "commit" /\ \A u \in Threads \ {t} : pc'[u] = pc[u]
    BY <1>3, ProceedFacts DEF StoreInv, Statements
  <1>9. CallOK(t)' /\ AtOK(t)'
    BY <1>1, <1>3, <1>8 DEF CallOK, AtOK, AddPoints, DeletePoints
  <1>10. OthersUnmoved(t, X)' /\ OwnMoved(t, X)'
    BY <1>1, <1>2, <1>3, <1>4, <1>6, <1>7, <1>8
       DEF OthersUnmoved, OwnMoved, LinkPoints, CountPoints
  <1> QED
    BY <1>3, <1>4, <1>6, <1>8, <1>9, <1>10, MoveKeeps DEF StoreInv, StoreTypeOK, OthersStay

(* SELECT ... FOR UPDATE changes no delta. *)
LEMMA SelectMoves ==
    ASSUME NEW X, StoreInv(X), NEW t \in Threads, NEW r \in Links, L!SelectForUpdate(t, r), CountsStay
    PROVE  /\ OwnRowsOnly(t) /\ UnlockedIsCommitted' /\ LinksTyped /\ CountsTyped
           /\ linkdb' = linkdb /\ linkcur' = linkcur /\ countdb' = countdb
           /\ linkcur[r] # Null => linklock'[r] = t
           /\ \A l \in Links : LinkDelta(t, l)' = LinkDelta(t, l)
           /\ \A k \in Id1s : CountDelta(t, k)' = CountDelta(t, k)
  <1>1. CASE linkcur[r] = Null
    <2>1. LinksStay
      BY <1>1 DEF L!SelectForUpdate, LinksStay
    <2> QED BY <1>1, <2>1, RowsStay DEF LinksStay, CountsStay
  <1>2. CASE linkcur[r] # Null
    <2>1. /\ linklock[r] \in {t, Null} /\ linkdb' = linkdb /\ linkcur' = linkcur
          /\ linklock' = [linklock EXCEPT ![r] = t]
      BY <1>2 DEF L!SelectForUpdate, L!Hold, L!Available
    <2>2. linkcur[r] \in LinkRow \cup {Null} /\ LinkWritten(t, r, linkcur[r]) /\ LinksTyped
      BY <2>1 DEF LinkWritten, LinksTyped, StoreInv, StoreTypeOK
    <2>3. OwnRowsOnly(t) /\ UnlockedIsCommitted'
      BY <2>2, WriteOwn DEF StoreInv
    <2>4. CountsTyped /\ countdb' = countdb
      BY DEF CountsStay, CountsTyped, StoreInv, StoreTypeOK
    <2>5. \A l \in Links : LinkDelta(t, l)' = LinkDelta(t, l)
      <3>1. \A l \in Links \ {r} : LinkDelta(t, l)' = LinkDelta(t, l)
        BY <2>2 DEF LinkWritten, LinkDelta, LinkWeight
      <3>2. LinkDelta(t, r)' = LinkWeight(linkcur[r]) - LinkWeight(linkdb[r])
        BY <2>1, <2>2 DEF LinkWritten, LinkDelta, LinkWeight
      <3>3. linklock[r] = Null => LinkWeight(linkcur[r]) - LinkWeight(linkdb[r]) = 0
        BY DEF StoreInv, UnlockedIsCommitted, LinkWeight
      <3>4. LinkDelta(t, r)' = LinkDelta(t, r)
        BY <2>1, <3>2, <3>3 DEF LinkDelta
      <3> QED BY <3>1, <3>4
    <2>6. \A k \in Id1s : CountDelta(t, k)' = CountDelta(t, k)
      BY DEF CountsStay, CountDelta, CountOf
    <2>7. linklock'[r] = t
      BY <2>2 DEF LinkWritten
    <2> QED BY <2>1, <2>2, <2>3, <2>4, <2>5, <2>6, <2>7
  <1> QED BY <1>1, <1>2

LEMMA SelectLinkKeeps ==
    ASSUME NEW X, StoreInv(X), NEW t \in Threads, SelectLink(t)
    PROVE  StoreInv(X)'
  <1>1. /\ pc[t] = "select" /\ ThreadOK(t, X) /\ call[t] \in LinkCalls /\ call[t].op = "deleteLink"
        /\ call[t].link \in Links /\ call[t].link[1] \in Id1s /\ call[t].expunge \in BOOLEAN
    BY CallFacts DEF SelectLink, StoreInv, ThreadOK, CallOK, DeletePoints
  <1>2. PICK r \in Links : r = call[t].link
    BY <1>1
  <1> DEFINE row == linkcur[r]
             s == IF row = Null THEN "commit"
                  ELSE IF row.visibility = "HIDDEN" /\ ~call[t].expunge THEN "commit"
                  ELSE "delete"
  <1>3. /\ open' = open /\ call' = call /\ faults' = faults /\ doubted' = doubted
        /\ CountsStay /\ L!SelectForUpdate(t, r) /\ Proceed(t, s)
        /\ local' = [local EXCEPT ![t].found = row # Null]
    BY <1>2 DEF SelectLink, CountsStay, counttable
  <1>4. /\ OwnRowsOnly(t) /\ UnlockedIsCommitted' /\ LinksTyped /\ CountsTyped
        /\ linkdb' = linkdb /\ linkcur' = linkcur /\ countdb' = countdb
        /\ row # Null => linklock'[r] = t
        /\ \A l \in Links : LinkDelta(t, l)' = LinkDelta(t, l)
        /\ \A k \in Id1s : CountDelta(t, k)' = CountDelta(t, k)
    BY <1>3, SelectMoves
  <1>5. s \in {"commit", "delete"} /\ s \in Statements
    BY DEF Statements, Writing
  <1>6. s = "delete" => row # Null /\ (row.visibility = "DEFAULT" \/ call[t].expunge)
    <2>1. row \in LinkRow \cup {Null}
      BY DEF StoreInv, StoreTypeOK
    <2> QED BY <1>1, <2>1, LinkFacts
  <1>7. /\ pc' \in [Threads -> Statements \cup {"idle", "returned"}]
        /\ reply' = reply /\ pc'[t] = s /\ \A u \in Threads \ {t} : pc'[u] = pc[u]
    <2> HIDE DEF s
    <2> QED BY <1>3, <1>5, ProceedFacts DEF StoreInv
  <1>8. /\ local' \in [Threads -> LocalType]
        /\ \A u \in Threads \ {t} : local'[u] = local[u]
    BY <1>3 DEF LocalType, StoreInv, StoreTypeOK
  <1>9. reply[t] = "none" /\ OthersUnmoved(t, X)
    BY <1>1 DEF ThreadOK, StoreInv, StoreTypeOK
  <1>10. /\ \A l \in Links : l[1] \in doubted \cup X \/ LinkDelta(t, l)' = 0
         /\ \A k \in Id1s : k \in doubted \cup X \/ CountDelta(t, k)' = 0
    BY <1>1, <1>4, <1>9 DEF OthersUnmoved, LinkPoints, CountPoints
  <1> HIDE DEF s
  <1>11. CallOK(t)'
    BY <1>1, <1>3, <1>5, <1>7 DEF CallOK, AddPoints, DeletePoints
  <1>12. AtOK(t)'
    <2>1. CASE s = "commit"
      BY <2>1, <1>7 DEF AtOK
    <2>2. CASE s = "delete"
      <3>1. /\ call'[t] = call[t] /\ call'[t].link = r /\ linkcur'[r] # Null /\ linklock'[r] = t
            /\ linkcur'[r].visibility = "DEFAULT" \/ call'[t].expunge
        BY <2>2, <1>2, <1>3, <1>4, <1>6
      <3> QED BY <2>2, <3>1, <1>7 DEF AtOK
    <2> QED BY <1>5, <2>1, <2>2
  <1>13. OthersUnmoved(t, X)'
    BY <1>3, <1>10 DEF OthersUnmoved
  <1>14. OwnMoved(t, X)'
    BY <1>1, <1>2, <1>3, <1>5, <1>7, <1>10 DEF OwnMoved
  <1> QED
    BY <1>3, <1>4, <1>5, <1>7, <1>8, <1>9, <1>11, <1>12, <1>13, <1>14, MoveKeeps
       DEF StoreInv, StoreTypeOK, OthersStay

LEMMA DeleteRowKeeps ==
    ASSUME NEW X, StoreInv(X), NEW t \in Threads, DeleteRow(t)
    PROVE  StoreInv(X)'
  <1>1. /\ pc[t] = "delete" /\ ThreadOK(t, X) /\ call[t] \in LinkCalls /\ call[t].op = "deleteLink"
        /\ call[t].link \in Links /\ call[t].link[1] \in Id1s /\ call[t].expunge \in BOOLEAN
    BY CallFacts DEF DeleteRow, StoreInv, ThreadOK, CallOK, DeletePoints
  <1>2. PICK r \in Links, k \in Id1s : r = call[t].link /\ k = r[1]
    BY <1>1
  <1> DEFINE row == linkcur[r]
             v == IF call[t].expunge THEN Null ELSE [row EXCEPT !.visibility = "HIDDEN"]
  <1>3. /\ open' = open /\ call' = call /\ local' = local /\ faults' = faults
        /\ CountsStay /\ L!Write(t, r, v) /\ Proceed(t, "uncount")
        /\ doubted' = IF call[t].expunge /\ row.visibility = "HIDDEN"
                      THEN doubted \cup {k} ELSE doubted
    BY <1>2 DEF DeleteRow, CountsStay, counttable
  <1>4. /\ reply[t] = "none" /\ OthersUnmoved(t, X)
        /\ row # Null /\ row \in LinkRow
        /\ row.visibility = "DEFAULT" \/ call[t].expunge
        /\ k \in doubted \cup X \/ LinkDelta(t, r) = 0
    BY <1>1, <1>2 DEF ThreadOK, AtOK, OthersUnmoved, LinkPoints, StoreInv, StoreTypeOK
  <1>5. v \in LinkRow \cup {Null} /\ LinkWeight(v) = 0
    BY <1>4 DEF LinkRow, Visibilities, LinkWeight
  <1>6. /\ OwnRowsOnly(t) /\ UnlockedIsCommitted' /\ LinksTyped /\ CountsTyped
        /\ linkdb' = linkdb /\ countdb' = countdb /\ linklock'[r] = t
        /\ \A l \in Links \ {r} : LinkDelta(t, l)' = LinkDelta(t, l)
        /\ LinkDelta(t, r)' = LinkDelta(t, r) + LinkWeight(v) - LinkWeight(row)
        /\ \A q \in Id1s : CountDelta(t, q)' = CountDelta(t, q)
    <2> HIDE DEF v
    <2> QED BY <1>3, <1>5, LinkMoves
  <1>7. doubted \subseteq doubted' /\ doubted' \subseteq Id1s
    BY <1>3 DEF StoreInv, StoreTypeOK
  <1>8. k \in doubted' \cup X \/ LinkDelta(t, r)' = -1
    <2>1. CASE row.visibility = "DEFAULT"
      <3>1. LinkWeight(row) = 1
        BY <2>1, <1>4 DEF LinkWeight
      <3> QED BY <1>4, <1>5, <1>6, <1>7, <3>1
    <2>2. CASE row.visibility # "DEFAULT"
      BY <2>2, <1>3, <1>4, LinkFacts
    <2> QED BY <2>1, <2>2
  <1>9. /\ pc' \in [Threads -> Statements \cup {"idle", "returned"}]
        /\ reply' = reply /\ pc'[t] = "uncount" /\ \A u \in Threads \ {t} : pc'[u] = pc[u]
    BY <1>3, ProceedFacts DEF StoreInv, Statements, Writing
  <1>10. CallOK(t)' /\ AtOK(t)'
    BY <1>1, <1>2, <1>3, <1>6, <1>9 DEF CallOK, AtOK, AddPoints, DeletePoints
  <1>11. OthersUnmoved(t, X)'
    BY <1>1, <1>2, <1>3, <1>4, <1>6, <1>7, <1>9 DEF OthersUnmoved, LinkPoints, CountPoints
  <1>12. OwnMoved(t, X)'
    BY <1>2, <1>3, <1>8, <1>9 DEF OwnMoved, CountPoints
  <1> QED
    BY <1>3, <1>4, <1>6, <1>7, <1>9, <1>10, <1>11, <1>12, MoveKeeps
       DEF StoreInv, StoreTypeOK, OthersStay

(* The count goes down by one, and not below zero: the link was visible.   *)
LEMMA CountDownKeeps ==
    ASSUME NEW X, StoreInv(X), NEW t \in Threads, CountDown(t)
    PROVE  StoreInv(X)'
  <1>1. /\ pc[t] = "uncount" /\ ThreadOK(t, X) /\ call[t] \in LinkCalls /\ call[t].op = "deleteLink"
        /\ call[t].link \in Links /\ call[t].link[1] \in Id1s
    BY CallFacts DEF CountDown, StoreInv, ThreadOK, CallOK, DeletePoints
  <1>2. PICK r \in Links, k \in Id1s : r = call[t].link /\ k = r[1]
    BY <1>1
  <1> DEFINE row == countcur[k]
             count == IF row \in {Null, 0} THEN 0 ELSE row - 1
  <1>3. /\ open' = open /\ call' = call /\ local' = local /\ faults' = faults
        /\ doubted' = doubted /\ LinksStay /\ C!Write(t, k, count) /\ Proceed(t, "commit")
    BY <1>2 DEF CountDown, LinksStay, linktable
  <1>4. /\ reply[t] = "none" /\ OthersUnmoved(t, X) /\ linklock[r] = t
        /\ k \in doubted \cup X \/ LinkDelta(t, r) = -1
        /\ k \in doubted \cup X \/ CountDelta(t, k) = 0
    BY <1>1, <1>2 DEF ThreadOK, AtOK, OthersUnmoved, OwnMoved, CountPoints, StoreInv, StoreTypeOK
  <1>5. row \in Nat \cup {Null} /\ count \in Nat /\ CountOf(row) \in Nat
    BY DEF CountOf, StoreInv, StoreTypeOK
  <1>6. /\ OwnRowsOnly(t) /\ UnlockedIsCommitted' /\ LinksTyped /\ CountsTyped
        /\ linkdb' = linkdb /\ countdb' = countdb
        /\ \A q \in Id1s \ {k} : CountDelta(t, q)' = CountDelta(t, q)
        /\ CountDelta(t, k)' = CountDelta(t, k) + count - CountOf(row)
        /\ CountOf(row) = CountDelta(t, k) + CountOf(countdb[k])
        /\ \A l \in Links : LinkDelta(t, l)' = LinkDelta(t, l)
    <2> HIDE DEF count
    <2> QED BY <1>3, <1>5, CountMoves
  <1>7. k \in doubted \cup X \/ CountDelta(t, k)' = -1
    <2> SUFFICES ASSUME k \notin doubted \cup X PROVE CountDelta(t, k)' = -1
      OBVIOUS
    <2>1. LinkWeight(linkcur[r]) - LinkWeight(linkdb[r]) = -1
      BY <1>4 DEF LinkDelta
    <2>2. LinkWeight(linkdb[r]) = 1
      BY <2>1 DEF LinkWeight
    <2>3. CountOf(countdb[k]) \in Nat \ {0}
      BY <1>2, <2>2, VisibleCounted
    <2>4. CountOf(row) # 0
      BY <1>4, <1>6, <2>3
    <2>5. row # Null /\ row # 0 /\ CountOf(row) = row
      BY <2>4 DEF CountOf
    <2> QED BY <1>4, <1>5, <1>6, <2>5
  <1>8. /\ pc' \in [Threads -> Statements \cup {"idle", "returned"}]
        /\ reply' = reply /\ pc'[t] = "commit" /\ \A u \in Threads \ {t} : pc'[u] = pc[u]
    BY <1>3, ProceedFacts DEF StoreInv, Statements
  <1>9. CallOK(t)' /\ AtOK(t)'
    BY <1>1, <1>3, <1>8 DEF CallOK, AtOK, AddPoints, DeletePoints
  <1>10. OthersUnmoved(t, X)'
    <2>1. \A q \in Id1s \ {k} : q \in doubted \cup X \/ CountDelta(t, q)' = 0
      BY <1>1, <1>4, <1>6 DEF OthersUnmoved, CountPoints
    <2>2. \A l \in Links \ {r} : l[1] \in doubted \cup X \/ LinkDelta(t, l)' = 0
      BY <1>1, <1>2, <1>4, <1>6 DEF OthersUnmoved
    <2> QED BY <1>2, <1>3, <1>8, <2>1, <2>2 DEF OthersUnmoved, LinkPoints, CountPoints
  <1>11. OwnMoved(t, X)'
    BY <1>2, <1>3, <1>4, <1>6, <1>7, <1>8 DEF OwnMoved, CountPoints
  <1> QED
    BY <1>3, <1>4, <1>6, <1>8, <1>9, <1>10, <1>11, MoveKeeps
       DEF StoreInv, StoreTypeOK, OthersStay

----------------------------------------------------------------------------
(* The commit *)

(* One element that comes or goes moves the number of visible links of k   *)
(* by one.                                                                 *)
LEMMA OneMoves ==
    ASSUME NEW S, NEW T, NEW j, IsFiniteSet(S), NEW n \in {-1, 0, 1},
           n = 1  => j \notin S /\ T = S \cup {j},
           n = 0  => T = S,
           n = -1 => j \in S /\ T = S \ {j}
    PROVE  Cardinality(T) = Cardinality(S) + n
  <1>1. Cardinality(S) \in Nat
    BY FS_CardinalityType
  <1>2. CASE n = 1
    BY <1>1, <1>2, FS_AddElement
  <1>3. CASE n = 0
    BY <1>1, <1>3
  <1>4. CASE n = -1
    BY <1>1, <1>4, FS_RemoveElement
  <1> QED BY <1>2, <1>3, <1>4

LEMMA CommitCallKeeps ==
    ASSUME NEW X, StoreInv(X), NEW t \in Threads, CommitCall(t)
    PROVE  StoreInv(X)'
  <1>1. /\ pc[t] = "commit" /\ ThreadOK(t, X) /\ call[t] \in LinkCalls
        /\ call[t].link \in Links /\ call[t].link[1] \in Id1s
    BY CallFacts DEF CommitCall, StoreInv, ThreadOK, CallOK
  <1>2. PICK r \in Links, k \in Id1s : r = call[t].link /\ k = r[1]
    BY <1>1
  <1>3. LinksCommitted(t) /\ CountsCommitted(t) /\ LinksTyped /\ CountsTyped
    BY CommitRows DEF CommitCall, StoreInv
  <1>4. /\ open' = open /\ call' = call /\ local' = local /\ doubted' = doubted
        /\ faults' \in 0 .. MaxFaults /\ (Return(t, "ok") \/ Return(t, "error"))
    BY StoreAssumption DEF CommitCall, StoreInv, StoreTypeOK
  <1>5. /\ pc' \in [Threads -> Statements \cup {"idle", "returned"}]
        /\ reply' \in [Threads -> {"none", "ok", "error"}]
        /\ pc'[t] = "returned" /\ reply'[t] \in {"ok", "error"}
        /\ \A u \in Threads \ {t} : pc'[u] = pc[u] /\ reply'[u] = reply[u]
    BY <1>4, ReturnFacts DEF StoreInv
  <1>6. OthersUnmoved(t, X) /\ (k \in doubted \cup X \/ LinkDelta(t, r) = CountDelta(t, k))
    BY <1>1, <1>2 DEF ThreadOK, OwnMoved, CountPoints, StoreInv, StoreTypeOK
  <1>7. t # Null
    BY StoreAssumption
  <1>8. OwnRowsOnly(t) /\ UnlockedIsCommitted' /\ OthersStay(t)
    <2>1. \A l \in Links :
            /\ \/ linklock[l] \in {t, Null} /\ linklock'[l] \in {t, Null}
               \/ linklock'[l] = linklock[l] /\ linkcur'[l] = linkcur[l] /\ linkdb'[l] = linkdb[l]
            /\ linklock'[l] = Null => linkcur'[l] = linkdb'[l]
      BY <1>3 DEF StoreInv, LinksCommitted, UnlockedIsCommitted
    <2>2. \A q \in Id1s :
            /\ \/ countlock[q] \in {t, Null} /\ countlock'[q] \in {t, Null}
               \/ countlock'[q] = countlock[q] /\ countcur'[q] = countcur[q] /\ countdb'[q] = countdb[q]
            /\ countlock'[q] = Null => countcur'[q] = countdb'[q]
      BY <1>3 DEF StoreInv, CountsCommitted, UnlockedIsCommitted
    <2> QED BY <1>4, <1>5, <2>1, <2>2 DEF OwnRowsOnly, UnlockedIsCommitted, OthersStay
  <1>9. StoreTypeOK'
    BY <1>3, <1>4, <1>5 DEF StoreInv, StoreTypeOK, LinksTyped, CountsTyped
  <1>10. ThreadOK(t, X)'
    <2>1. /\ \A l \in Links : LinkDelta(t, l)' = 0
          /\ \A q \in Id1s : CountDelta(t, q)' = 0
      BY <1>3, <1>7 DEF LinkDelta, CountDelta, LinksCommitted, CountsCommitted
    <2>2. OthersUnmoved(t, X)'
      BY <2>1 DEF OthersUnmoved
    <2>3. CallOK(t)' /\ AtOK(t)' /\ OwnMoved(t, X)'
      BY <1>1, <1>4, <1>5 DEF CallOK, AtOK, OwnMoved, AddPoints, DeletePoints, CountPoints
    <2> QED BY <1>5, <2>2, <2>3 DEF ThreadOK
  <1>11. \A u \in Threads : ThreadOK(u, X)'
    BY <1>4, <1>8, <1>10, OthersKeep DEF StoreInv
  <1>12. \A l \in Links : LinkWeight(linkdb'[l]) = LinkWeight(linkdb[l]) + LinkDelta(t, l)
    <2>1. \A l \in Links : LinkWeight(linkdb[l]) \in Int /\ LinkWeight(linkcur[l]) \in Int
      BY DEF LinkWeight
    <2> QED BY <1>3, <2>1 DEF LinksCommitted, LinkDelta
  <1>13. \A q \in Id1s : CountOf(countdb'[q]) = CountOf(countdb[q]) + CountDelta(t, q)
    <2>1. \A q \in Id1s : CountOf(countdb[q]) \in Int /\ CountOf(countcur[q]) \in Int
      BY DEF CountOf, StoreInv, StoreTypeOK
    <2> QED BY <1>3, <2>1 DEF CountsCommitted, CountDelta
  <1>14. ASSUME NEW q \in Id1s \ (doubted \cup X) PROVE Consistent(q)'
    <2> DEFINE S == {j \in Id2s : Visible(linkdb[<<q, j>>])}
               T == {j \in Id2s : Visible(linkdb'[<<q, j>>])}
               n == CountDelta(t, q)
    <2>1. \A l \in Links : /\ Visible(linkdb[l]) <=> LinkWeight(linkdb[l]) = 1
                           /\ Visible(linkdb'[l]) <=> LinkWeight(linkdb'[l]) = 1
                           /\ LinkWeight(linkdb[l]) \in {0, 1} /\ LinkWeight(linkdb'[l]) \in {0, 1}
                           /\ LinkDelta(t, l) \in {-1, 0, 1}
      BY DEF Visible, LinkWeight, LinkDelta
    <2>2. \A j \in Id2s : <<q, j>> \in Links /\ <<q, j>>[1] = q
      BY LinkFacts
    <2>3. CountOf(countdb[q]) = Cardinality(S)
      BY DEF StoreInv, CountsMatchBut, Consistent, NumVisible
    <2>4. IsFiniteSet(S)
      BY FS_Subset, StoreAssumption
    <2>5. Cardinality(T) = Cardinality(S) + n
      <3>1. CASE q = k
        <4>1. r[2] \in Id2s /\ r = <<q, r[2]>> /\ LinkDelta(t, r) = n /\ n \in {-1, 0, 1}
          BY <1>2, <1>6, <2>1, <3>1, LinkFacts
        <4>2. \A j \in Id2s \ {r[2]} : j \in T <=> j \in S
          <5> TAKE j \in Id2s \ {r[2]}
          <5>1. <<q, j>> \in Links /\ <<q, j>> # r /\ <<q, j>>[1] \notin doubted \cup X
            BY <2>2, <4>1
          <5>2. LinkDelta(t, <<q, j>>) = 0
            BY <1>2, <1>6, <5>1 DEF OthersUnmoved
          <5> QED BY <1>12, <2>1, <5>1, <5>2
        <4>3. /\ r[2] \in S <=> LinkWeight(linkdb[r]) = 1
              /\ r[2] \in T <=> LinkWeight(linkdb'[r]) = 1
              /\ LinkWeight(linkdb'[r]) = LinkWeight(linkdb[r]) + n
          BY <1>12, <2>1, <4>1
        <4>4. /\ n = 1  => r[2] \notin S /\ r[2] \in T
              /\ n = 0  => (r[2] \in S <=> r[2] \in T)
              /\ n = -1 => r[2] \in S /\ r[2] \notin T
          BY <2>1, <4>3
        <4>5. /\ n = 1  => r[2] \notin S /\ T = S \cup {r[2]}
              /\ n = 0  => T = S
              /\ n = -1 => r[2] \in S /\ T = S \ {r[2]}
          BY <4>1, <4>2, <4>4
        <4> HIDE DEF S, T, n
        <4> QED BY <2>4, <4>1, <4>5, OneMoves
      <3>2. CASE q # k
        <4>1. n = 0
          BY <1>2, <1>6, <3>2 DEF OthersUnmoved
        <4>2. \A j \in Id2s : j \in T <=> j \in S
          <5> TAKE j \in Id2s
          <5>1. <<q, j>> \in Links /\ <<q, j>> # r /\ <<q, j>>[1] \notin doubted \cup X
            BY <1>2, <2>2, <3>2
          <5>2. LinkDelta(t, <<q, j>>) = 0
            BY <1>2, <1>6, <5>1 DEF OthersUnmoved
          <5> QED BY <1>12, <2>1, <5>1, <5>2
        <4>3. T = S /\ Cardinality(S) \in Nat
          BY <2>4, <4>2, FS_CardinalityType
        <4> HIDE DEF S, T, n
        <4> QED BY <4>1, <4>3
      <3> QED BY <3>1, <3>2
    <2> QED
      BY <1>13, <2>3, <2>5 DEF Consistent, NumVisible, CountOf, Visible
  <1>15. CountsMatchBut(X)'
    BY <1>4, <1>14 DEF CountsMatchBut
  <1> QED BY <1>8, <1>9, <1>11, <1>15 DEF StoreInv

----------------------------------------------------------------------------
(* The theorems *)

LEMMA StatementKeeps ==
    ASSUME NEW X, StoreInv(X), NEW t \in Threads, Statement(t)
    PROVE  StoreInv(X)'
  <1>1. ~InsertAll(t) /\ ~ReplaceAll(t)
    BY DEF InsertAll, ReplaceAll, StoreInv, ThreadOK, CallOK
  <1> QED
    BY <1>1, InsertLinkKeeps, UpdateCountKeeps, UpdateDataKeeps, SelectLinkKeeps,
       DeleteRowKeeps, CountDownKeeps, ReadLinkKeeps, CommitCallKeeps DEF Statement

LEMMA FailureKeeps ==
    ASSUME NEW X, StoreInv(X), NEW t \in Threads, Failure(t)
    PROVE  StoreInv(X)'
  BY DeadlockKeeps, LockWaitTimeoutKeeps, StatementFailsKeeps DEF Failure

(* Nothing changes the store but its variables. *)
LEMMA StutterKeeps ==
    ASSUME NEW X, StoreInv(X), UNCHANGED storevars
    PROVE  StoreInv(X)'
  <1>1. /\ linkdb' = linkdb /\ linkcur' = linkcur /\ linklock' = linklock
        /\ countdb' = countdb /\ countcur' = countcur /\ countlock' = countlock
        /\ open' = open /\ call' = call /\ pc' = pc /\ reply' = reply /\ local' = local
        /\ faults' = faults /\ doubted' = doubted
    BY DEF storevars, linktable, counttable, progress
  <1>2. StoreTypeOK' /\ UnlockedIsCommitted'
    BY <1>1 DEF StoreInv, StoreTypeOK, UnlockedIsCommitted
  <1>3. CountsMatchBut(X)'
    BY <1>1, CountsKeep DEF StoreInv
  <1>4. \A t \in Threads : ThreadOK(t, X)'
    BY <1>1 DEF StoreInv, ThreadOK, CallOK, AtOK, OthersUnmoved, OwnMoved, LinkDelta,
       CountDelta, LinkWeight, CountOf
  <1> QED BY <1>2, <1>3, <1>4 DEF StoreInv

(* The empty store: no links, and no counts. *)
LEMMA StoreInitInv ==
    ASSUME NEW X, StoreInit
    PROVE  StoreInv(X)
  <1>1. StoreTypeOK /\ UnlockedIsCommitted
    <2>1. NoLocals \in LocalType
      BY DEF NoLocals, LocalType
    <2> QED BY <2>1, StoreAssumption DEF StoreInit, StoreTypeOK, UnlockedIsCommitted,
         L!EmptyTable, C!EmptyTable
  <1>2. \A t \in Threads : ThreadOK(t, X)
    <2> TAKE t \in Threads
    <2>1. pc[t] = "idle" /\ reply[t] = "none" /\ t # Null
      BY StoreAssumption DEF StoreInit
    <2>2. \A l \in Links : LinkDelta(t, l) = 0
      BY <2>1 DEF StoreInit, L!EmptyTable, LinkDelta
    <2>3. \A k \in Id1s : CountDelta(t, k) = 0
      BY <2>1 DEF StoreInit, C!EmptyTable, CountDelta
    <2> QED BY <2>1, <2>2, <2>3 DEF ThreadOK, CallOK, AtOK, OthersUnmoved, OwnMoved,
         AddPoints, DeletePoints, CountPoints
  <1>3. CountsMatchBut(X)
    <2> SUFFICES ASSUME NEW k \in Id1s PROVE Consistent(k)
      BY DEF CountsMatchBut
    <2>1. \A j \in Id2s : linkdb[<<k, j>>] = Null
      BY LinkFacts DEF StoreInit, L!EmptyTable
    <2>2. {j \in Id2s : Visible(linkdb[<<k, j>>])} = {}
      BY <2>1 DEF Visible
    <2>3. NumVisible(k) = 0
      BY <2>2, FS_EmptySet DEF NumVisible
    <2>4. CountOf(countdb[k]) = 0
      BY DEF CountOf, StoreInit, C!EmptyTable
    <2> QED BY <2>3, <2>4 DEF Consistent
  <1> QED BY <1>1, <1>2, <1>3 DEF StoreInv

LEMMA StoreNextKeeps ==
    ASSUME NEW X, StoreInv(X), [StoreNext]_storevars
    PROVE  StoreInv(X)'
  <1>1. CASE UNCHANGED storevars
    BY <1>1, StutterKeeps
  <1>2. ASSUME NEW t \in Threads,
               \/ Initialize(t)
               \/ \E c \in Calls : Call(t, c)
               \/ Statement(t) \/ Failure(t) \/ TakeReply(t) \/ ClearErrors(t) \/ Close(t)
        PROVE  StoreInv(X)'
    BY <1>2, StoreAssumption, InitializeKeeps, CallKeeps, StatementKeeps, FailureKeeps,
       TakeReplyKeeps, ClearErrorsKeeps, CloseKeeps
  <1> QED BY <1>1, <1>2 DEF StoreNext

(* addLink and deleteLink keep the count of every id1 equal to the number  *)
(* of its visible links, however the calls of any number of threads        *)
(* interleave, fail and are retried, short of a lock wait that timed out.  *)
THEOREM StoreCountsMatch == StoreSpec => [](StoreTypeOK /\ CountsMatch)
  <1>1. StoreInit => StoreInv({})
    BY StoreInitInv
  <1>2. StoreInv({}) /\ [StoreNext]_storevars => StoreInv({})'
    BY StoreNextKeeps
  <1>3. StoreInv({}) => StoreTypeOK /\ CountsMatch
    BY DEF StoreInv, CountsMatchBut, CountsMatch
  <1> QED BY <1>1, <1>2, <1>3, PTL DEF StoreSpec

----------------------------------------------------------------------------
(* Calls of every kind                                                     *)
(*                                                                         *)
(* The types of the store, and which rows are there, whatever calls its    *)
(* threads make, bulk calls and hidden links included.                     *)

CallType(c) == c \in LinkCalls \/ IsBulkCall(c)

(* The statement t is at belongs to the call t is in; a link is deleted    *)
(* that is there and held.                                                 *)
PointOK(t) ==
    /\ pc[t] # "idle" => CallType(call[t])
    /\ pc[t] \in AddPoints => call[t].op = "addLink"
    /\ pc[t] \in DeletePoints => call[t].op = "deleteLink"
    /\ pc[t] = "read" => call[t].op = "getLink"
    /\ pc[t] = "insertAll" => call[t].op = "addBulkLinks"
    /\ pc[t] = "replaceAll" => call[t].op = "addBulkCounts"
    /\ pc[t] = "commit" => call[t].op # "getLink"
    /\ pc[t] = "delete" => linklock[call[t].link] = t /\ linkcur[call[t].link] # Null
    /\ reply[t] # "none" <=> pc[t] = "returned"

TypeInv == StoreTypeOK /\ UnlockedIsCommitted /\ \A t \in Threads : PointOK(t)

(* t does not expunge. *)
Hiding(t) == pc[t] # "idle" /\ call[t].op = "deleteLink" => ~call[t].expunge

HasLink(t, l)  == linklock[l] = t /\ linkcur[l] # Null
HasCount(t, k) == countlock[k] = t /\ countcur[k] # Null

(* What t is about to commit is there, and so is what it says it has added.*)
WroteOK(t) ==
    /\ pc[t] \in {"count", "data"} => HasLink(t, call[t].link)
    /\ pc[t] = "commit" =>
         /\ call[t].op = "addLink" => HasLink(t, call[t].link)
         /\ call[t].op = "addBulkLinks" => \A l \in call[t].links : HasLink(t, l)
         /\ call[t].op = "addBulkCounts" => \A k \in DOMAIN call[t].counts : HasCount(t, k)
    /\ pc[t] = "returned" /\ reply[t] = "ok" =>
         /\ call[t].op = "addLink" /\ call[t].visibility = "DEFAULT" => linkdb[call[t].link] # Null
         /\ call[t].op = "addBulkLinks" => \A l \in call[t].links : linkdb[l] # Null
         /\ call[t].op = "addBulkCounts" => \A k \in DOMAIN call[t].counts : countdb[k] # Null

(* No transaction under way removes a committed row. *)
RowsKept ==
    /\ \A l \in Links : linkdb[l] # Null => linkcur[l] # Null
    /\ \A k \in Id1s : countdb[k] # Null => countcur[k] # Null

RowsInv == RowsKept /\ \A t \in Threads : WroteOK(t) /\ Hiding(t)

(* A step of t leaves a row, writes it, or ends a transaction that holds it.*)
LinksStep(t) ==
    \A l \in Links :
      \/ linklock'[l] = linklock[l] /\ linkcur'[l] = linkcur[l] /\ linkdb'[l] = linkdb[l]
      \/ linklock[l] \in {t, Null} /\ linklock'[l] = t /\ linkdb'[l] = linkdb[l]
      \/ /\ linklock[l] = t /\ linklock'[l] = Null
         /\ linkcur'[l] = linkdb'[l] /\ linkdb'[l] \in {linkdb[l], linkcur[l]}

CountsStep(t) ==
    \A k \in Id1s :
      \/ countlock'[k] = countlock[k] /\ countcur'[k] = countcur[k] /\ countdb'[k] = countdb[k]
      \/ countlock[k] \in {t, Null} /\ countlock'[k] = t /\ countdb'[k] = countdb[k]
      \/ /\ countlock[k] = t /\ countlock'[k] = Null
         /\ countcur'[k] = countdb'[k] /\ countdb'[k] \in {countdb[k], countcur[k]}

LinksLast  == \A l \in Links : linkdb[l] # Null /\ linkcur[l] # Null => linkcur'[l] # Null
CountsLast == \A k \in Id1s : countdb[k] # Null /\ countcur[k] # Null => countcur'[k] # Null

AnyStepOK(t) ==
    /\ StoreTypeOK' /\ LinksStep(t) /\ CountsStep(t) /\ OthersStay(t) /\ PointOK(t)'
    /\ Hiding(t) /\ WroteOK(t) => WroteOK(t)' /\ LinksLast /\ CountsLast

(* The parts of a typed call. *)
LEMMA CallTypeFacts ==
    ASSUME NEW c, CallType(c)
    PROVE  /\ c.op \in {"addLink", "deleteLink", "getLink", "addBulkLinks", "addBulkCounts"}
           /\ c.op \in {"addLink", "deleteLink", "getLink"} =>
                c \in LinkCalls /\ c.link \in Links /\ c.link[1] \in Id1s
           /\ c.op = "addLink" => c.visibility \in Visibilities /\ c.data \in Data
           /\ c.op = "deleteLink" => c.expunge \in BOOLEAN
           /\ c.op = "addBulkLinks" => c.links \subseteq Links /\ c.data \in Data
           /\ c.op = "addBulkCounts" => /\ DOMAIN c.counts \subseteq Id1s
                                        /\ \A k \in DOMAIN c.counts : c.counts[k] \in Nat
  <1>1. CASE c \in LinkCalls
    BY <1>1, CallFacts
  <1>2. CASE IsBulkCall(c)
    BY <1>2 DEF IsBulkCall
  <1> QED BY <1>1, <1>2 DEF CallType

(* The step is one of t: the others' statements stay where they are. *)
LEMMA AnyStepTypes ==
    ASSUME TypeInv, NEW t \in Threads, AnyStepOK(t)
    PROVE  TypeInv'
  <1>1. t # Null
    BY StoreAssumption
  <1>2. UnlockedIsCommitted'
    BY <1>1 DEF TypeInv, UnlockedIsCommitted, AnyStepOK, LinksStep, CountsStep
  <1>3. ASSUME NEW u \in Threads \ {t} PROVE PointOK(u)'
    <2>1. u # Null /\ u # t
      BY StoreAssumption
    <2>2. pc'[u] = pc[u] /\ reply'[u] = reply[u] /\ call'[u] = call[u]
      BY DEF AnyStepOK, OthersStay
    <2>3. PointOK(u)
      BY DEF TypeInv
    <2>4. pc[u] = "delete" => linklock'[call[u].link] = u /\ linkcur'[call[u].link] # Null
      <3> SUFFICES ASSUME pc[u] = "delete"
                   PROVE  linklock'[call[u].link] = u /\ linkcur'[call[u].link] # Null
        OBVIOUS
      <3>1. call[u].link \in Links
        BY <2>3, CallTypeFacts DEF PointOK, DeletePoints
      <3> QED BY <2>1, <2>3, <3>1 DEF PointOK, AnyStepOK, LinksStep
    <2> QED BY <2>2, <2>3, <2>4 DEF PointOK
  <1> QED BY <1>2, <1>3 DEF TypeInv, AnyStepOK

(* ... and unless t expunges, what was there stays there. *)
LEMMA AnyStepRows ==
    ASSUME TypeInv, RowsInv, NEW t \in Threads, AnyStepOK(t), Hiding(t)'
    PROVE  /\ RowsInv'
           /\ \A l \in Links : linkdb[l] # Null => linkdb'[l] # Null
           /\ \A k \in Id1s : countdb[k] # Null => countdb'[k] # Null
  <1>1. WroteOK(t)' /\ LinksLast /\ CountsLast
    BY DEF RowsInv, AnyStepOK
  <1>2. /\ \A l \in Links : linkdb[l] # Null => linkdb'[l] # Null
        /\ \A k \in Id1s : countdb[k] # Null => countdb'[k] # Null
    BY DEF RowsInv, RowsKept, AnyStepOK, LinksStep, CountsStep
  <1>3. RowsKept'
    <2>1. \A l \in Links : linkdb'[l] # Null => linkcur'[l] # Null
      BY <1>1 DEF RowsInv, RowsKept, AnyStepOK, LinksStep, LinksLast
    <2>2. \A k \in Id1s : countdb'[k] # Null => countcur'[k] # Null
      BY <1>1 DEF RowsInv, RowsKept, AnyStepOK, CountsStep, CountsLast
    <2> QED BY <2>1, <2>2 DEF RowsKept
  <1>4. ASSUME NEW u \in Threads \ {t} PROVE WroteOK(u)' /\ Hiding(u)'
    <2>1. u # Null /\ u # t
      BY StoreAssumption
    <2>2. pc'[u] = pc[u] /\ reply'[u] = reply[u] /\ call'[u] = call[u]
      BY DEF AnyStepOK, OthersStay
    <2>3. PointOK(u) /\ WroteOK(u) /\ Hiding(u)
      BY DEF TypeInv, RowsInv
    <2>4. \A l \in Links : HasLink(u, l) => HasLink(u, l)'
      BY <2>1 DEF AnyStepOK, LinksStep, HasLink
    <2>5. \A k \in Id1s : HasCount(u, k) => HasCount(u, k)'
      BY <2>1 DEF AnyStepOK, CountsStep, HasCount
    <2>6. Hiding(u)'
      BY <2>2, <2>3 DEF Hiding
    <2>7. CASE pc[u] \in {"count", "data"}
      <3>1. call[u].link \in Links
        BY <2>3, <2>7, CallTypeFacts DEF PointOK, AddPoints
      <3>2. HasLink(u, call[u].link)
        BY <2>3, <2>7 DEF WroteOK
      <3>3. HasLink(u, call[u].link)'
        BY <2>2, <2>4, <3>1, <3>2 DEF HasLink
      <3> QED BY <2>2, <2>6, <2>7, <3>3 DEF WroteOK
    <2>8. CASE pc[u] = "commit"
      <3>1. CallType(call[u])
        BY <2>3, <2>8 DEF PointOK
      <3>2. call[u].op = "addLink" => HasLink(u, call[u].link)'
        BY <2>2, <2>3, <2>4, <2>8, <3>1, CallTypeFacts DEF WroteOK, HasLink
      <3>3. call[u].op = "addBulkLinks" => \A l \in call[u].links : HasLink(u, l)'
        BY <2>2, <2>3, <2>4, <2>8, <3>1, CallTypeFacts DEF WroteOK, HasLink
      <3>4. call[u].op = "addBulkCounts" => \A k \in DOMAIN call[u].counts : HasCount(u, k)'
        BY <2>2, <2>3, <2>5, <2>8, <3>1, CallTypeFacts DEF WroteOK, HasCount
      <3> QED BY <2>2, <2>6, <2>8, <3>2, <3>3, <3>4 DEF WroteOK
    <2>9. CASE pc[u] = "returned"
      <3>1. CallType(call[u])
        BY <2>3, <2>9 DEF PointOK
      <3>2. call[u].op = "addLink" => call[u].link \in Links
        BY <3>1, CallTypeFacts
      <3>3. call[u].op = "addBulkLinks" => call[u].links \subseteq Links
        BY <3>1, CallTypeFacts
      <3>4. call[u].op = "addBulkCounts" => DOMAIN call[u].counts \subseteq Id1s
        BY <3>1, CallTypeFacts
      <3> QED BY <1>2, <2>2, <2>3, <2>6, <2>9, <3>2, <3>3, <3>4 DEF WroteOK
    <2> QED BY <2>2, <2>6, <2>7, <2>8, <2>9 DEF WroteOK
  <1> QED BY <1>1, <1>2, <1>3, <1>4 DEF RowsInv

(* Rows that no step touches. *)
LEMMA RowsUntouched ==
    ASSUME TypeInv, NEW t \in Threads
    PROVE  /\ LinksStay => LinksStep(t) /\ LinksTyped /\ LinksLast
           /\ CountsStay => CountsStep(t) /\ CountsTyped /\ CountsLast
  BY DEF TypeInv, StoreTypeOK, LinksStay, CountsStay, LinksStep, CountsStep, LinksTyped,
     CountsTyped, LinksLast, CountsLast

LEMMA LinkWriteStep ==
    ASSUME TypeInv, NEW t \in Threads, NEW r \in Links, NEW v \in LinkRow \cup {Null},
           L!Write(t, r, v)
    PROVE  /\ LinksStep(t) /\ LinksTyped /\ linklock'[r] = t /\ linkcur'[r] = v
           /\ v # Null => LinksLast
  <1>1. LinkWritten(t, r, v) /\ LinksTyped
    BY LinkWrite DEF TypeInv
  <1> QED BY <1>1 DEF LinkWritten, LinksStep, LinksLast

LEMMA CountWriteStep ==
    ASSUME TypeInv, NEW t \in Threads, NEW r \in Id1s, NEW v \in Nat, C!Write(t, r, v)
    PROVE  CountsStep(t) /\ CountsTyped /\ CountsLast
  <1>1. CountWritten(t, r, v) /\ CountsTyped
    BY CountWrite DEF TypeInv
  <1>2. v # Null
    BY StoreAssumption
  <1> QED BY <1>1, <1>2 DEF CountWritten, CountsStep, CountsLast

LEMMA RollbackStep ==
    ASSUME TypeInv, NEW t \in Threads, L!Rollback(t), C!Rollback(t)
    PROVE  /\ LinksStep(t) /\ LinksTyped /\ LinksLast
           /\ CountsStep(t) /\ CountsTyped /\ CountsLast
  <1>1. LinksRolledBack(t) /\ CountsRolledBack(t) /\ LinksTyped /\ CountsTyped
    BY RollbackRows DEF TypeInv
  <1>2. LinksStep(t) /\ LinksLast
    BY <1>1 DEF LinksRolledBack, LinksStep, LinksLast
  <1>3. CountsStep(t) /\ CountsLast
    BY <1>1 DEF CountsRolledBack, CountsStep, CountsLast
  <1> QED BY <1>1, <1>2, <1>3

(* What is left to show of the types. *)
LEMMA TypesFrom ==
    ASSUME TypeInv, LinksTyped, CountsTyped, open' \in [Threads -> BOOLEAN], call' = call,
           pc' \in [Threads -> Statements \cup {"idle", "returned"}],
           local' \in [Threads -> LocalType], reply' \in [Threads -> {"none", "ok", "error"}],
           faults' \in 0 .. MaxFaults, doubted' \subseteq Id1s
    PROVE  StoreTypeOK'
  BY DEF TypeInv, StoreTypeOK, LinksTyped, CountsTyped

LEMMA InsertLinkStep ==
    ASSUME TypeInv, NEW t \in Threads, InsertLink(t)
    PROVE  AnyStepOK(t)
  <1> DEFINE c     == call[t]
             nrows == AffectedRows(linkcur[c.link], c.visibility)
             n     == CountChange(nrows, c.visibility)
             v     == Upserted(linkcur[c.link], c.visibility, c.data)
  <1>1. /\ pc[t] = "insert" /\ PointOK(t) /\ CallType(c) /\ c.op = "addLink"
    BY DEF InsertLink, TypeInv, PointOK, AddPoints
  <1>2. c.link \in Links /\ c.visibility \in Visibilities /\ c.data \in Data
    BY <1>1, CallTypeFacts
  <1>3. linkcur[c.link] \in LinkRow \cup {Null}
    BY <1>2 DEF TypeInv, StoreTypeOK
  <1>4. v \in LinkRow /\ nrows \in {0, 1, 2} /\ n \in {-1, 0, 1}
    BY <1>2, <1>3, UpsertFacts
  <1>5. v # Null
    BY <1>4, LinkFacts
  <1>6. LinksStep(t) /\ LinksTyped /\ LinksLast /\ linklock'[c.link] = t /\ linkcur'[c.link] = v
    <2>1. L!Write(t, c.link, v)
      BY DEF InsertLink
    <2> HIDE DEF v, c
    <2> QED BY <1>2, <1>4, <1>5, <2>1, LinkWriteStep
  <1>7. CountsStep(t) /\ CountsTyped /\ CountsLast
    BY RowsUntouched DEF InsertLink, CountsStay, counttable
  <1>8. /\ call' = call /\ open' = open /\ faults' = faults /\ doubted' = doubted
        /\ local' = [local EXCEPT ![t] = [found |-> nrows # 1, update_count |-> n,
                                          update_data |-> nrows # 1]]
        /\ \/ Proceed(t, "count") \/ Proceed(t, "data")
           \/ Return(t, "ok") /\ n = 0 /\ nrows # 0
    BY DEF InsertLink
  <1>9. n = 0 /\ nrows # 0 => c.visibility # "DEFAULT"
    BY <1>2, <1>3 DEF AffectedRows, CountChange
  <1>10. local' \in [Threads -> LocalType] /\ \A u \in Threads \ {t} : local'[u] = local[u]
    <2>1. [found |-> nrows # 1, update_count |-> n, update_data |-> nrows # 1] \in LocalType
      BY <1>4 DEF LocalType
    <2> HIDE DEF nrows, n
    <2> QED BY <1>8, <2>1 DEF TypeInv, StoreTypeOK
  <1>11. /\ pc' \in [Threads -> Statements \cup {"idle", "returned"}]
         /\ reply' \in [Threads -> {"none", "ok", "error"}]
         /\ \A u \in Threads \ {t} : pc'[u] = pc[u] /\ reply'[u] = reply[u]
         /\ \/ pc'[t] \in {"count", "data"} /\ reply' = reply
            \/ pc'[t] = "returned" /\ reply'[t] = "ok" /\ c.visibility # "DEFAULT"
    <2>1. {"count", "data"} \subseteq Statements
      BY DEF Statements, Writing
    <2>2. StoreTypeOK
      BY DEF TypeInv
    <2> HIDE DEF n, nrows, c
    <2> QED BY <1>8, <1>9, <2>1, <2>2, ProceedFacts, ReturnFacts DEF StoreTypeOK
  <1>12. StoreTypeOK'
    <2>1. open' \in [Threads -> BOOLEAN] /\ faults' \in 0 .. MaxFaults /\ doubted' \subseteq Id1s
      BY <1>8 DEF TypeInv, StoreTypeOK
    <2> QED BY <1>6, <1>7, <1>8, <1>10, <1>11, <2>1, TypesFrom
  <1> HIDE DEF v, n, nrows
  <1>13. PointOK(t)'
    BY <1>1, <1>8, <1>11 DEF PointOK, AddPoints, DeletePoints
  <1>14. WroteOK(t)'
    BY <1>1, <1>5, <1>6, <1>8, <1>11 DEF WroteOK, HasLink
  <1>15. OthersStay(t)
    BY <1>8, <1>10, <1>11 DEF OthersStay
  <1> QED BY <1>6, <1>7, <1>12, <1>13, <1>14, <1>15 DEF AnyStepOK

LEMMA UpdateCountStep ==
    ASSUME TypeInv, NEW t \in Threads, UpdateCount(t)
    PROVE  AnyStepOK(t)
  <1> DEFINE c == call[t]
             k == c.link[1]
             n == local[t].update_count
             count == IF countcur[k] = Null THEN (IF n < 0 THEN 0 ELSE 1) ELSE countcur[k] + n
  <1>1. pc[t] = "count" /\ PointOK(t) /\ CallType(c) /\ c.op = "addLink"
    BY DEF UpdateCount, TypeInv, PointOK, AddPoints
  <1>2. c.link \in Links /\ k \in Id1s
    BY <1>1, CallTypeFacts
  <1>3. count \in Int
    <2>1. countcur[k] \in Nat \cup {Null}
      BY <1>2 DEF TypeInv, StoreTypeOK
    <2>2. n \in {-1, 0, 1}
      BY DEF TypeInv, StoreTypeOK, LocalType
    <2> HIDE DEF n, k
    <2> QED BY <2>1, <2>2
  <1>4. /\ call' = call /\ open' = open /\ faults' = faults /\ doubted' = doubted
        /\ local' = local /\ LinksStay
        /\ \/ Return(t, "error") /\ CountsStay
           \/ count >= 0 /\ C!Write(t, k, count) /\ (Proceed(t, "data") \/ Proceed(t, "commit"))
    BY <1>3 DEF UpdateCount, LinksStay, CountsStay, linktable, counttable
  <1>5. LinksStep(t) /\ LinksTyped /\ LinksLast
    BY <1>4, RowsUntouched
  <1>6. CountsStep(t) /\ CountsTyped /\ CountsLast
    <2>1. CASE CountsStay
      BY <2>1, RowsUntouched
    <2>2. CASE count >= 0 /\ C!Write(t, k, count)
      <3>1. count \in Nat
        BY <1>3, <2>2
      <3> HIDE DEF count, k
      <3> QED BY <1>2, <2>2, <3>1, CountWriteStep
    <2> QED BY <1>4, <2>1, <2>2
  <1>7. /\ pc' \in [Threads -> Statements \cup {"idle", "returned"}]
        /\ reply' \in [Threads -> {"none", "ok", "error"}]
        /\ \A u \in Threads \ {t} : pc'[u] = pc[u] /\ reply'[u] = reply[u]
        /\ \/ pc'[t] \in {"data", "commit"} /\ reply' = reply
           \/ pc'[t] = "returned" /\ reply'[t] = "error"
    <2>1. {"data", "commit"} \subseteq Statements
      BY DEF Statements, Writing
    <2>2. StoreTypeOK
      BY DEF TypeInv
    <2> HIDE DEF count
    <2> QED BY <1>4, <2>1, <2>2, ProceedFacts, ReturnFacts DEF StoreTypeOK
  <1>8. StoreTypeOK'
    <2>1. /\ open' \in [Threads -> BOOLEAN] /\ faults' \in 0 .. MaxFaults /\ doubted' \subseteq Id1s
          /\ local' \in [Threads -> LocalType]
      BY <1>4 DEF TypeInv, StoreTypeOK
    <2> QED BY <1>4, <1>5, <1>6, <1>7, <2>1, TypesFrom
  <1>9. PointOK(t)'
    BY <1>1, <1>4, <1>7 DEF PointOK, AddPoints, DeletePoints
  <1>10. WroteOK(t) => WroteOK(t)'
    BY <1>1, <1>4, <1>7 DEF WroteOK, HasLink, LinksStay
  <1>11. OthersStay(t)
    BY <1>4, <1>7 DEF OthersStay
  <1> QED BY <1>5, <1>6, <1>8, <1>9, <1>10, <1>11 DEF AnyStepOK

(* Steps of one statement that leave what t keeps for itself. *)
LEMMA GoesOn ==
    ASSUME TypeInv, NEW t \in Threads, NEW s \in Statements, Proceed(t, s),
           call' = call, open' = open, faults' = faults, local' = local,
           doubted' \subseteq Id1s,
           LinksStep(t), LinksTyped, CountsStep(t), CountsTyped, PointOK(t)',
           Hiding(t) /\ WroteOK(t) => WroteOK(t)' /\ LinksLast /\ CountsLast
    PROVE  AnyStepOK(t)
  <1>1. /\ pc' \in [Threads -> Statements \cup {"idle", "returned"}] /\ reply' = reply
        /\ \A u \in Threads \ {t} : pc'[u] = pc[u]
    BY ProceedFacts DEF TypeInv
  <1>2. StoreTypeOK'
    BY <1>1, TypesFrom DEF TypeInv, StoreTypeOK
  <1> QED BY <1>1, <1>2 DEF AnyStepOK, OthersStay

LEMMA UpdateDataStep ==
    ASSUME TypeInv, NEW t \in Threads, UpdateData(t)
    PROVE  AnyStepOK(t)
  <1> DEFINE c == call[t]
             v == [visibility |-> c.visibility, data |-> c.data]
  <1>1. pc[t] = "data" /\ PointOK(t) /\ CallType(c) /\ c.op = "addLink"
    BY DEF UpdateData, TypeInv, PointOK, AddPoints
  <1>2. c.link \in Links /\ v \in LinkRow /\ v # Null
    BY <1>1, CallTypeFacts, LinkFacts DEF LinkRow
  <1>3. LinksStep(t) /\ LinksTyped /\ LinksLast /\ linklock'[c.link] = t /\ linkcur'[c.link] = v
    <2>1. L!Write(t, c.link, v)
      BY DEF UpdateData
    <2> HIDE DEF v, c
    <2> QED BY <1>2, <2>1, LinkWriteStep
  <1>4. CountsStep(t) /\ CountsTyped /\ CountsLast
    BY RowsUntouched DEF UpdateData, CountsStay, counttable
  <1>5. /\ call' = call /\ open' = open /\ faults' = faults /\ doubted' = doubted
        /\ local' = local /\ Proceed(t, "commit") /\ "commit" \in Statements
    BY DEF UpdateData, Statements
  <1>6. pc'[t] = "commit" /\ reply' = reply
    BY <1>5, ProceedFacts DEF TypeInv
  <1>7. PointOK(t)'
    BY <1>1, <1>5, <1>6 DEF PointOK, AddPoints, DeletePoints
  <1>8. WroteOK(t)'
    BY <1>1, <1>2, <1>3, <1>5, <1>6 DEF WroteOK, HasLink
  <1>9. doubted' \subseteq Id1s
    BY <1>5 DEF TypeInv, StoreTypeOK
  <1> QED BY <1>3, <1>4, <1>5, <1>7, <1>8, <1>9, GoesOn

LEMMA SelectLinkStep ==
    ASSUME TypeInv, NEW t \in Threads, SelectLink(t)
    PROVE  AnyStepOK(t)
  <1> DEFINE c   == call[t]
             row == linkcur[c.link]
  <1>1. pc[t] = "select" /\ PointOK(t) /\ CallType(c) /\ c.op = "deleteLink"
    BY DEF SelectLink, TypeInv, PointOK, DeletePoints
  <1>2. c.link \in Links
    BY <1>1, CallTypeFacts
  <1>3. /\ LinksStep(t) /\ LinksTyped /\ LinksLast /\ linkcur' = linkcur
        /\ row # Null => linklock'[c.link] = t
    <2>1. /\ linklock[c.link] \in {t, Null} /\ linkcur' = linkcur /\ linkdb' = linkdb
          /\ IF row = Null THEN linklock' = linklock
             ELSE linklock' = [linklock EXCEPT ![c.link] = t]
      BY DEF SelectLink, L!SelectForUpdate, L!Hold, L!Available
    <2> HIDE DEF c
    <2> QED BY <1>2, <2>1 DEF LinksStep, LinksTyped, LinksLast, TypeInv, StoreTypeOK
  <1>4. CountsStep(t) /\ CountsTyped /\ CountsLast
    BY RowsUntouched DEF SelectLink, CountsStay, counttable
  <1>5. /\ call' = call /\ open' = open /\ faults' = faults /\ doubted' = doubted
        /\ local' = [local EXCEPT ![t].found = row # Null]
        /\ Proceed(t, "commit") \/ (Proceed(t, "delete") /\ row # Null)
    BY DEF SelectLink
  <1>6. local' \in [Threads -> LocalType] /\ \A u \in Threads \ {t} : local'[u] = local[u]
    <2>1. [local[t] EXCEPT !.found = (row # Null)] \in LocalType
      <3>1. \A b \in BOOLEAN : [local[t] EXCEPT !.found = b] \in LocalType
        BY DEF LocalType, TypeInv, StoreTypeOK
      <3>2. (row # Null) \in BOOLEAN
        OBVIOUS
      <3> QED BY <3>1, <3>2
    <2>2. local' = [local EXCEPT ![t] = [local[t] EXCEPT !.found = (row # Null)]]
      BY <1>5
    <2> QED BY <2>1, <2>2 DEF TypeInv, StoreTypeOK
  <1>7. /\ pc' \in [Threads -> Statements \cup {"idle", "returned"}] /\ reply' = reply
        /\ \A u \in Threads \ {t} : pc'[u] = pc[u]
        /\ pc'[t] = "commit" \/ (pc'[t] = "delete" /\ row # Null)
    <2>1. {"commit", "delete"} \subseteq Statements
      BY DEF Statements, Writing
    <2> HIDE DEF row
    <2> QED BY <1>5, <2>1, ProceedFacts DEF TypeInv
  <1>8. StoreTypeOK'
    <2>1. /\ open' \in [Threads -> BOOLEAN] /\ faults' \in 0 .. MaxFaults /\ doubted' \subseteq Id1s
          /\ reply' \in [Threads -> {"none", "ok", "error"}]
      BY <1>5, <1>7 DEF TypeInv, StoreTypeOK
    <2> QED BY <1>3, <1>4, <1>5, <1>6, <1>7, <2>1, TypesFrom
  <1>9. PointOK(t)'
    BY <1>1, <1>3, <1>5, <1>7 DEF PointOK, AddPoints, DeletePoints
  <1>10. WroteOK(t)'
    BY <1>1, <1>5, <1>7 DEF WroteOK
  <1>11. OthersStay(t)
    BY <1>5, <1>6, <1>7 DEF OthersStay
  <1> QED BY <1>3, <1>4, <1>8, <1>9, <1>10, <1>11 DEF AnyStepOK

LEMMA DeleteRowStep ==
    ASSUME TypeInv, NEW t \in Threads, DeleteRow(t)
    PROVE  AnyStepOK(t)
  <1> DEFINE c   == call[t]
             row == linkcur[c.link]
             v   == IF c.expunge THEN Null ELSE [row EXCEPT !.visibility = "HIDDEN"]
  <1>1. /\ pc[t] = "delete" /\ PointOK(t) /\ CallType(c) /\ c.op = "deleteLink" /\ row # Null
    BY DEF DeleteRow, TypeInv, PointOK, DeletePoints
  <1>2. c.link \in Links /\ c.link[1] \in Id1s /\ c.expunge \in BOOLEAN
    BY <1>1, CallTypeFacts
  <1>3. row \in LinkRow
    BY <1>1, <1>2 DEF TypeInv, StoreTypeOK
  <1>4. v \in LinkRow \cup {Null} /\ (~c.expunge => v # Null)
    BY <1>3, LinkFacts DEF LinkRow, Visibilities
  <1>5. LinksStep(t) /\ LinksTyped /\ (~c.expunge => LinksLast)
    <2>1. L!Write(t, c.link, v)
      BY DEF DeleteRow
    <2> HIDE DEF v, c
    <2> QED BY <1>2, <1>4, <2>1, LinkWriteStep
  <1>6. CountsStep(t) /\ CountsTyped /\ CountsLast
    BY RowsUntouched DEF DeleteRow, CountsStay, counttable
  <1>7. /\ call' = call /\ open' = open /\ faults' = faults /\ local' = local
        /\ doubted' \in {doubted, doubted \cup {c.link[1]}}
        /\ Proceed(t, "uncount") /\ "uncount" \in Statements
    BY DEF DeleteRow, Statements, Writing
  <1>8. pc'[t] = "uncount" /\ reply' = reply
    BY <1>7, ProceedFacts DEF TypeInv
  <1>9. PointOK(t)'
    BY <1>1, <1>7, <1>8 DEF PointOK, AddPoints, DeletePoints
  <1>10. WroteOK(t)'
    BY <1>1, <1>7, <1>8 DEF WroteOK
  <1>11. doubted' \subseteq Id1s
    BY <1>2, <1>7 DEF TypeInv, StoreTypeOK
  <1>12. Hiding(t) => ~c.expunge
    BY <1>1 DEF Hiding
  <1> HIDE DEF c
  <1> QED BY <1>5, <1>6, <1>7, <1>9, <1>10, <1>11, <1>12, GoesOn

LEMMA CountDownStep ==
    ASSUME TypeInv, NEW t \in Threads, CountDown(t)
    PROVE  AnyStepOK(t)
  <1> DEFINE c == call[t]
             k == c.link[1]
             n == IF countcur[k] \in {Null, 0} THEN 0 ELSE countcur[k] - 1
  <1>1. pc[t] = "uncount" /\ PointOK(t) /\ CallType(c) /\ c.op = "deleteLink"
    BY DEF CountDown, TypeInv, PointOK, DeletePoints
  <1>2. k \in Id1s
    BY <1>1, CallTypeFacts
  <1>3. n \in Nat
    <2>1. countcur[k] \in Nat \cup {Null}
      BY <1>2 DEF TypeInv, StoreTypeOK
    <2> HIDE DEF k
    <2> QED BY <2>1
  <1>4. CountsStep(t) /\ CountsTyped /\ CountsLast
    <2>1. C!Write(t, k, n)
      BY DEF CountDown
    <2> HIDE DEF n, k
    <2> QED BY <1>2, <1>3, <2>1, CountWriteStep
  <1>5. LinksStep(t) /\ LinksTyped /\ LinksLast
    BY RowsUntouched DEF CountDown, LinksStay, linktable
  <1>6. /\ call' = call /\ open' = open /\ faults' = faults /\ local' = local
        /\ doubted' = doubted /\ Proceed(t, "commit") /\ "commit" \in Statements
    BY DEF CountDown, Statements
  <1>7. pc'[t] = "commit" /\ reply' = reply
    BY <1>6, ProceedFacts DEF TypeInv
  <1>8. PointOK(t)'
    BY <1>1, <1>6, <1>7 DEF PointOK, AddPoints, DeletePoints
  <1>9. WroteOK(t)'
    BY <1>1, <1>6, <1>7 DEF WroteOK
  <1>10. doubted' \subseteq Id1s
    BY <1>6 DEF TypeInv, StoreTypeOK
  <1> QED BY <1>4, <1>5, <1>6, <1>8, <1>9, <1>10, GoesOn

(* The statements of the bulk load write each row of their batch. *)
LEMMA InsertAllStep ==
    ASSUME TypeInv, NEW t \in Threads, InsertAll(t)
    PROVE  AnyStepOK(t)
  <1> DEFINE c   == call[t]
             new == [l \in c.links |-> Upserted(linkcur[l], "DEFAULT", c.data)]
  <1>1. pc[t] = "insertAll" /\ PointOK(t) /\ CallType(c) /\ c.op = "addBulkLinks"
    BY DEF InsertAll, TypeInv, PointOK
  <1>2. c.links \subseteq Links /\ c.data \in Data
    BY <1>1, CallTypeFacts
  <1>3. DOMAIN new = c.links /\ \A l \in c.links : new[l] \in LinkRow /\ new[l] # Null
    <2>1. "DEFAULT" \in Visibilities
      BY DEF Visibilities
    <2>2. ASSUME NEW l \in c.links
          PROVE  /\ Upserted(linkcur[l], "DEFAULT", c.data) \in LinkRow
                 /\ Upserted(linkcur[l], "DEFAULT", c.data) # Null
      <3>1. linkcur[l] \in LinkRow \cup {Null}
        BY <1>2 DEF TypeInv, StoreTypeOK
      <3> QED BY <1>2, <2>1, <3>1, UpsertFacts, LinkFacts
    <2> QED BY <2>2
  <1>4. L!WriteRows(t, new)
    BY DEF InsertAll
  <1> HIDE DEF new
  <1>5. /\ LinksStep(t) /\ LinksTyped /\ LinksLast
        /\ \A l \in c.links : linklock'[l] = t /\ linkcur'[l] # Null
    <2>1. /\ \A l \in c.links : linklock[l] \in {t, Null}
          /\ linklock' = [l \in Links |-> IF l \in c.links THEN t ELSE linklock[l]]
          /\ linkcur' = [l \in Links |-> IF l \in c.links THEN new[l] ELSE linkcur[l]]
          /\ linkdb' = linkdb
      BY <1>3, <1>4 DEF L!WriteRows, L!Available
    <2> HIDE DEF c
    <2> QED BY <1>2, <1>3, <2>1 DEF LinksStep, LinksTyped, LinksLast, TypeInv, StoreTypeOK
  <1>6. CountsStep(t) /\ CountsTyped /\ CountsLast
    BY RowsUntouched DEF InsertAll, CountsStay, counttable
  <1>7. /\ call' = call /\ open' = open /\ faults' = faults /\ local' = local
        /\ doubted' = doubted /\ Proceed(t, "commit") /\ "commit" \in Statements
    BY DEF InsertAll, Statements
  <1>8. pc'[t] = "commit" /\ reply' = reply
    BY <1>7, ProceedFacts DEF TypeInv
  <1>9. PointOK(t)'
    BY <1>1, <1>7, <1>8 DEF PointOK, AddPoints, DeletePoints
  <1>10. WroteOK(t)'
    BY <1>1, <1>5, <1>7, <1>8 DEF WroteOK, HasLink
  <1>11. doubted' \subseteq Id1s
    BY <1>7 DEF TypeInv, StoreTypeOK
  <1> QED BY <1>5, <1>6, <1>7, <1>9, <1>10, <1>11, GoesOn

LEMMA ReplaceAllStep ==
    ASSUME TypeInv, NEW t \in Threads, ReplaceAll(t)
    PROVE  AnyStepOK(t)
  <1> DEFINE c   == call[t]
             new == c.counts
  <1>1. pc[t] = "replaceAll" /\ PointOK(t) /\ CallType(c) /\ c.op = "addBulkCounts"
    BY DEF ReplaceAll, TypeInv, PointOK
  <1>2. DOMAIN new \subseteq Id1s /\ \A k \in DOMAIN new : new[k] \in Nat /\ new[k] # Null
    BY <1>1, CallTypeFacts, StoreAssumption
  <1>3. C!WriteRows(t, new)
    BY DEF ReplaceAll
  <1>4. /\ CountsStep(t) /\ CountsTyped /\ CountsLast
        /\ \A k \in DOMAIN new : countlock'[k] = t /\ countcur'[k] # Null
    <2>1. /\ \A k \in DOMAIN new : countlock[k] \in {t, Null}
          /\ countlock' = [k \in Id1s |-> IF k \in DOMAIN new THEN t ELSE countlock[k]]
          /\ countcur' = [k \in Id1s |-> IF k \in DOMAIN new THEN new[k] ELSE countcur[k]]
          /\ countdb' = countdb
      BY <1>3 DEF C!WriteRows, C!Available
    <2> HIDE DEF new
    <2> QED BY <1>2, <2>1 DEF CountsStep, CountsTyped, CountsLast, TypeInv, StoreTypeOK
  <1>5. LinksStep(t) /\ LinksTyped /\ LinksLast
    BY RowsUntouched DEF ReplaceAll, LinksStay, linktable
  <1>6. /\ call' = call /\ open' = open /\ faults' = faults /\ local' = local
        /\ doubted' = doubted /\ Proceed(t, "commit") /\ "commit" \in Statements
    BY DEF ReplaceAll, Statements
  <1>7. pc'[t] = "commit" /\ reply' = reply
    BY <1>6, ProceedFacts DEF TypeInv
  <1>8. PointOK(t)'
    BY <1>1, <1>6, <1>7 DEF PointOK, AddPoints, DeletePoints
  <1>9. WroteOK(t)'
    BY <1>1, <1>4, <1>6, <1>7 DEF WroteOK, HasCount
  <1>10. doubted' \subseteq Id1s
    BY <1>6 DEF TypeInv, StoreTypeOK
  <1> QED BY <1>4, <1>5, <1>6, <1>8, <1>9, <1>10, GoesOn

(* A step that touches no row and returns. *)
LEMMA Returns ==
    ASSUME TypeInv, NEW t \in Threads, NEW r \in {"ok", "error"}, Return(t, r), PointOK(t),
           pc[t] # "idle", call' = call, open' = open, local' = local, doubted' = doubted,
           faults' \in 0 .. MaxFaults, LinksStep(t), LinksTyped, LinksLast,
           CountsStep(t), CountsTyped, CountsLast, Hiding(t) /\ WroteOK(t) => WroteOK(t)'
    PROVE  AnyStepOK(t) /\ pc'[t] = "returned" /\ reply'[t] = r
  <1>1. /\ pc' \in [Threads -> Statements \cup {"idle", "returned"}]
        /\ reply' \in [Threads -> {"none", "ok", "error"}]
        /\ pc'[t] = "returned" /\ reply'[t] = r
        /\ \A u \in Threads \ {t} : pc'[u] = pc[u] /\ reply'[u] = reply[u]
    BY ReturnFacts DEF TypeInv
  <1>2. StoreTypeOK'
    BY <1>1, TypesFrom DEF TypeInv, StoreTypeOK
  <1>3. PointOK(t)'
    BY <1>1 DEF PointOK, AddPoints, DeletePoints
  <1> QED BY <1>1, <1>2, <1>3 DEF AnyStepOK, OthersStay

LEMMA ReadLinkStep ==
    ASSUME TypeInv, NEW t \in Threads, ReadLink(t)
    PROVE  AnyStepOK(t)
  <1>1. /\ pc[t] = "read" /\ PointOK(t) /\ CallType(call[t]) /\ call[t].op = "getLink"
        /\ Return(t, "ok") /\ call' = call /\ open' = open /\ doubted' = doubted
        /\ faults' = faults /\ LinksStay /\ CountsStay
        /\ \E b \in BOOLEAN : local' = [local EXCEPT ![t] = [local[t] EXCEPT !.found = b]]
    BY DEF ReadLink, TypeInv, PointOK, LinksStay, CountsStay, linktable, counttable
  <1>2. local' \in [Threads -> LocalType] /\ \A u \in Threads \ {t} : local'[u] = local[u]
    <2>1. PICK b \in BOOLEAN : local' = [local EXCEPT ![t] = [local[t] EXCEPT !.found = b]]
      BY <1>1
    <2>2. [local[t] EXCEPT !.found = b] \in LocalType
      BY DEF LocalType, TypeInv, StoreTypeOK
    <2> QED BY <2>1, <2>2 DEF TypeInv, StoreTypeOK
  <1>3. /\ LinksStep(t) /\ LinksTyped /\ LinksLast
        /\ CountsStep(t) /\ CountsTyped /\ CountsLast
    BY <1>1, RowsUntouched
  <1>4. /\ pc' \in [Threads -> Statements \cup {"idle", "returned"}]
        /\ reply' \in [Threads -> {"none", "ok", "error"}]
        /\ pc'[t] = "returned" /\ reply'[t] = "ok"
        /\ \A u \in Threads \ {t} : pc'[u] = pc[u] /\ reply'[u] = reply[u]
    BY <1>1, ReturnFacts DEF TypeInv
  <1>5. StoreTypeOK'
    BY <1>1, <1>2, <1>3, <1>4, TypesFrom DEF TypeInv, StoreTypeOK
  <1>6. PointOK(t)' /\ WroteOK(t)'
    BY <1>1, <1>4 DEF PointOK, WroteOK, AddPoints, DeletePoints
  <1>7. OthersStay(t)
    BY <1>1, <1>2, <1>4 DEF OthersStay
  <1> QED BY <1>3, <1>5, <1>6, <1>7 DEF AnyStepOK

LEMMA StatementFailsStep ==
    ASSUME TypeInv, NEW t \in Threads, StatementFails(t)
    PROVE  AnyStepOK(t)
  <1>1. /\ pc[t] # "idle" /\ PointOK(t) /\ Return(t, "error")
        /\ call' = call /\ open' = open /\ doubted' = doubted /\ local' = local
        /\ faults' \in 0 .. MaxFaults /\ LinksStay /\ CountsStay
    BY StoreAssumption DEF StatementFails, Writing, TypeInv, StoreTypeOK, LinksStay, CountsStay,
       linktable, counttable
  <1>2. /\ LinksStep(t) /\ LinksTyped /\ LinksLast
        /\ CountsStep(t) /\ CountsTyped /\ CountsLast
    BY <1>1, RowsUntouched
  <1>3. pc'[t] = "returned" /\ reply'[t] = "error"
    BY <1>1, ReturnFacts DEF TypeInv
  <1>4. WroteOK(t)'
    BY <1>3 DEF WroteOK
  <1> QED BY <1>1, <1>2, <1>4, Returns

LEMMA CommitCallStep ==
    ASSUME TypeInv, NEW t \in Threads, CommitCall(t)
    PROVE  AnyStepOK(t)
  <1>1. /\ pc[t] = "commit" /\ PointOK(t) /\ CallType(call[t])
        /\ call' = call /\ open' = open /\ doubted' = doubted /\ local' = local
        /\ faults' \in 0 .. MaxFaults /\ \E r \in {"ok", "error"} : Return(t, r)
    BY StoreAssumption DEF CommitCall, TypeInv, StoreTypeOK, PointOK
  <1>2. PICK r \in {"ok", "error"} : Return(t, r)
    BY <1>1
  <1>3. LinksCommitted(t) /\ CountsCommitted(t) /\ LinksTyped /\ CountsTyped
    BY CommitRows DEF CommitCall, TypeInv
  <1>4. LinksStep(t) /\ LinksLast
    BY <1>3 DEF LinksCommitted, LinksStep, LinksLast, TypeInv, UnlockedIsCommitted
  <1>5. CountsStep(t) /\ CountsLast
    BY <1>3 DEF CountsCommitted, CountsStep, CountsLast, TypeInv, UnlockedIsCommitted
  <1>6. pc'[t] = "returned" /\ reply'[t] = r
    BY <1>2, ReturnFacts DEF TypeInv
  <1>7. WroteOK(t) => WroteOK(t)'
    <2>1. \A l \in Links : HasLink(t, l) => linkdb'[l] # Null
      BY <1>3 DEF LinksCommitted, HasLink
    <2>2. \A k \in Id1s : HasCount(t, k) => countdb'[k] # Null
      BY <1>3 DEF CountsCommitted, HasCount
    <2>3. call'[t] = call[t]
      BY <1>1
    <2>4. /\ call[t].op = "addLink" => call[t].link \in Links
          /\ call[t].op = "addBulkLinks" => call[t].links \subseteq Links
          /\ call[t].op = "addBulkCounts" => DOMAIN call[t].counts \subseteq Id1s
      BY <1>1, CallTypeFacts
    <2> QED BY <1>1, <1>6, <2>1, <2>2, <2>3, <2>4 DEF WroteOK
  <1> QED BY <1>1, <1>2, <1>3, <1>4, <1>5, <1>7, Returns

(* Where a call starts. *)
LEMMA FirstAt ==
    ASSUME NEW c
    PROVE  /\ c.op = "addLink"       => FirstStatement(c) = "insert"
           /\ c.op = "deleteLink"    => FirstStatement(c) = "select"
           /\ c.op = "getLink"       => FirstStatement(c) = "read"
           /\ c.op = "addBulkLinks"  => FirstStatement(c) = "insertAll"
           /\ c.op = "addBulkCounts" => FirstStatement(c) = "replaceAll"
  BY DEF FirstStatement

LEMMA FirstPoint ==
    ASSUME NEW c, CallType(c)
    PROVE  /\ FirstStatement(c) \in Statements
           /\ \/ FirstStatement(c) = "insert" /\ c.op = "addLink"
              \/ FirstStatement(c) = "select" /\ c.op = "deleteLink"
              \/ FirstStatement(c) = "read" /\ c.op = "getLink"
              \/ FirstStatement(c) = "insertAll" /\ c.op = "addBulkLinks"
              \/ FirstStatement(c) = "replaceAll" /\ c.op = "addBulkCounts"
  <1>1. c.op \in {"addLink", "deleteLink", "getLink", "addBulkLinks", "addBulkCounts"}
    BY CallTypeFacts
  <1>2. \/ FirstStatement(c) = "insert" /\ c.op = "addLink"
        \/ FirstStatement(c) = "select" /\ c.op = "deleteLink"
        \/ FirstStatement(c) = "read" /\ c.op = "getLink"
        \/ FirstStatement(c) = "insertAll" /\ c.op = "addBulkLinks"
        \/ FirstStatement(c) = "replaceAll" /\ c.op = "addBulkCounts"
    BY <1>1, FirstAt
  <1> QED BY <1>2 DEF Statements, Writing

LEMMA RestartsStep ==
    ASSUME TypeInv, NEW t \in Threads, Deadlock(t) \/ LockWaitTimeout(t)
    PROVE  AnyStepOK(t)
  <1> DEFINE s == FirstStatement(call[t])
  <1>1. /\ pc[t] \in Writing /\ Proceed(t, s) /\ faults' \in 0 .. MaxFaults
        /\ open' = open /\ call' = call /\ local' = local
    BY StoreAssumption DEF Deadlock, LockWaitTimeout, Waits, Writing, TypeInv, StoreTypeOK
  <1>2. PointOK(t) /\ CallType(call[t])
    BY <1>1 DEF TypeInv, PointOK, Writing
  <1>3. /\ LinksStep(t) /\ LinksTyped /\ LinksLast
        /\ CountsStep(t) /\ CountsTyped /\ CountsLast
    <2>1. CASE Deadlock(t)
      BY <2>1, RollbackStep DEF Deadlock
    <2>2. CASE LockWaitTimeout(t)
      <3>1. LinksStay /\ CountsStay
        BY <2>2 DEF LockWaitTimeout, LinksStay, CountsStay, linktable, counttable
      <3> QED BY <3>1, RowsUntouched
    <2> QED BY <2>1, <2>2
  <1>4. doubted' \subseteq Id1s
    <2>1. CASE Deadlock(t)
      BY <2>1 DEF Deadlock, TypeInv, StoreTypeOK
    <2>2. CASE LockWaitTimeout(t)
      <3>1. pc[t] \in AddPoints \cup DeletePoints
        BY <2>2 DEF LockWaitTimeout, Waits, AddPoints, DeletePoints
      <3>2. call[t].link[1] \in Id1s
        BY <1>2, <3>1, CallTypeFacts DEF PointOK
      <3> QED BY <2>2, <3>2 DEF LockWaitTimeout, TypeInv, StoreTypeOK
    <2> QED BY <2>1, <2>2
  <1>5. /\ pc' \in [Threads -> Statements \cup {"idle", "returned"}] /\ reply' = reply
        /\ pc'[t] = s /\ \A u \in Threads \ {t} : pc'[u] = pc[u]
    <2>1. s \in Statements
      BY <1>2, FirstPoint
    <2> QED BY <1>1, <2>1, ProceedFacts DEF TypeInv
  <1>6. StoreTypeOK'
    BY <1>1, <1>3, <1>4, <1>5, TypesFrom DEF TypeInv, StoreTypeOK
  <1>7. PointOK(t)' /\ WroteOK(t)'
    <2>1. call'[t] = call[t] /\ reply'[t] = reply[t] /\ pc[t] # "returned"
      BY <1>1, <1>5 DEF Writing
    <2> QED BY <1>2, <1>5, <2>1, FirstPoint DEF PointOK, WroteOK, AddPoints, DeletePoints
  <1>8. OthersStay(t)
    BY <1>1, <1>5 DEF OthersStay
  <1> QED BY <1>3, <1>6, <1>7, <1>8 DEF AnyStepOK

(* Every statement and every failure of t is such a step. *)
LEMMA AnyStatementStep ==
    ASSUME TypeInv, NEW t \in Threads, Statement(t) \/ Failure(t)
    PROVE  AnyStepOK(t) /\ call' = call /\ pc[t] # "idle" /\ pc'[t] # "idle"
  <1>1. AnyStepOK(t)
    BY InsertLinkStep, UpdateCountStep, UpdateDataStep, SelectLinkStep, DeleteRowStep,
       CountDownStep, ReadLinkStep, InsertAllStep, ReplaceAllStep, CommitCallStep,
       StatementFailsStep, RestartsStep DEF Statement, Failure
  <1>2. call' = call
    BY DEF Statement, Failure, InsertLink, UpdateCount, UpdateData, SelectLink, DeleteRow,
       CountDown, ReadLink, InsertAll, ReplaceAll, CommitCall, StatementFails, Deadlock,
       LockWaitTimeout
  <1>3. pc[t] # "idle"
    BY DEF Statement, Failure, InsertLink, UpdateCount, UpdateData, SelectLink, DeleteRow,
       CountDown, ReadLink, InsertAll, ReplaceAll, CommitCall, StatementFails, Deadlock,
       LockWaitTimeout, Waits, Writing
  <1>4. pc'[t] # "idle"
    <2>1. \/ Return(t, "ok") \/ Return(t, "error")
          \/ \E s \in Statements : Proceed(t, s)
      <3>1. Writing \subseteq Statements /\ "commit" \in Statements
        BY DEF Statements
      <3>2. Deadlock(t) \/ LockWaitTimeout(t) => \E s \in Statements : Proceed(t, s)
        <4>1. Deadlock(t) \/ LockWaitTimeout(t) => Proceed(t, FirstStatement(call[t]))
          BY DEF Deadlock, LockWaitTimeout
        <4>2. CallType(call[t])
          BY <1>3 DEF TypeInv, PointOK
        <4> QED BY <4>1, <4>2, FirstPoint
      <3>3. InsertLink(t) => Return(t, "ok") \/ Proceed(t, "count") \/ Proceed(t, "data")
        BY DEF InsertLink
      <3>4. UpdateCount(t) => Return(t, "error") \/ Proceed(t, "data") \/ Proceed(t, "commit")
        BY DEF UpdateCount
      <3>5. UpdateData(t) \/ CountDown(t) \/ InsertAll(t) \/ ReplaceAll(t) => Proceed(t, "commit")
        BY DEF UpdateData, CountDown, InsertAll, ReplaceAll
      <3>6. SelectLink(t) => Proceed(t, "commit") \/ Proceed(t, "delete")
        BY DEF SelectLink
      <3>7. DeleteRow(t) => Proceed(t, "uncount")
        BY DEF DeleteRow
      <3>8. ReadLink(t) \/ CommitCall(t) \/ StatementFails(t) => Return(t, "ok") \/ Return(t, "error")
        BY DEF ReadLink, CommitCall, StatementFails
      <3>9. {"count", "data", "delete", "uncount"} \subseteq Statements
        BY DEF Statements, Writing
      <3> QED BY <3>1, <3>2, <3>3, <3>4, <3>5, <3>6, <3>7, <3>8, <3>9 DEF Statement, Failure
    <2>2. "idle" \notin Statements
      BY DEF Statements, Writing
    <2>3. DOMAIN pc = Threads
      BY DEF TypeInv, StoreTypeOK
    <2> QED BY <2>1, <2>2, <2>3 DEF Return, Proceed
  <1> QED BY <1>1, <1>2, <1>3, <1>4

----------------------------------------------------------------------------
(* The start and the end of a call *)

LEMMA InitializeStep ==
    ASSUME TypeInv, NEW t \in Threads, Initialize(t)
    PROVE  AnyStepOK(t)
  <1>1. LinksStay /\ CountsStay
    BY DEF Initialize, LinksStay, CountsStay, linktable, counttable
  <1>2. /\ LinksStep(t) /\ LinksTyped /\ LinksLast
        /\ CountsStep(t) /\ CountsTyped /\ CountsLast
    BY <1>1, RowsUntouched
  <1>3. /\ pc[t] = "idle" /\ pc' = pc /\ reply' = reply /\ call' = call /\ local' = local
        /\ doubted' = doubted /\ faults' = faults /\ open' \in [Threads -> BOOLEAN]
    BY DEF Initialize, progress, TypeInv, StoreTypeOK
  <1>4. StoreTypeOK'
    BY <1>2, <1>3, TypesFrom DEF TypeInv, StoreTypeOK
  <1>5. PointOK(t)' /\ WroteOK(t)'
    BY <1>3 DEF TypeInv, PointOK, WroteOK, AddPoints, DeletePoints
  <1> QED BY <1>2, <1>3, <1>4, <1>5 DEF AnyStepOK, OthersStay

(* A call starts at its first statement, or is over at once. *)
LEMMA CallStep ==
    ASSUME TypeInv, NEW t \in Threads, NEW c, CallType(c), Call(t, c)
    PROVE  AnyStepOK(t) /\ call'[t] = c /\ pc[t] = "idle" /\ pc'[t] # "idle"
  <1>1. LinksStay /\ CountsStay
    BY DEF Call, LinksStay, CountsStay, linktable, counttable
  <1>2. /\ LinksStep(t) /\ LinksTyped /\ LinksLast
        /\ CountsStep(t) /\ CountsTyped /\ CountsLast
    BY <1>1, RowsUntouched
  <1>3. /\ pc[t] = "idle" /\ doubted' = doubted /\ faults' = faults /\ open' = open
        /\ call'[t] = c /\ \A u \in Threads \ {t} : call'[u] = call[u] /\ local'[u] = local[u]
        /\ \A u \in Threads : call'[u] # Null => call'[u] \in LinkCalls \/ IsBulkCall(call'[u])
        /\ DOMAIN call' = Threads /\ local' \in [Threads -> LocalType]
    <2>1. NoLocals \in LocalType
      BY DEF NoLocals, LocalType
    <2>2. DOMAIN call = Threads
      BY DEF TypeInv, StoreTypeOK
    <2>3. c \in LinkCalls \/ IsBulkCall(c)
      BY DEF CallType
    <2>4. call' = [call EXCEPT ![t] = c] /\ local' = [local EXCEPT ![t] = NoLocals]
      BY DEF Call
    <2>5. \A u \in Threads : call'[u] # Null => call'[u] \in LinkCalls \/ IsBulkCall(call'[u])
      BY <2>2, <2>3, <2>4 DEF TypeInv, StoreTypeOK
    <2> QED BY <2>1, <2>2, <2>4, <2>5 DEF Call, TypeInv, StoreTypeOK
  <1>4. /\ pc' \in [Threads -> Statements \cup {"idle", "returned"}]
        /\ reply' \in [Threads -> {"none", "ok", "error"}]
        /\ \A u \in Threads \ {t} : pc'[u] = pc[u] /\ reply'[u] = reply[u]
        /\ \/ pc'[t] = FirstStatement(c) /\ reply'[t] = reply[t]
           \/ pc'[t] = "returned" /\ reply'[t] = "error"
           \/ pc'[t] = "returned" /\ reply'[t] = "ok" /\ NothingToDo(c)
    <2>1. CASE Proceed(t, FirstStatement(c))
      <3>1. FirstStatement(c) \in Statements
        BY FirstPoint
      <3> QED BY <2>1, <3>1, ProceedFacts DEF TypeInv, StoreTypeOK
    <2>2. CASE Return(t, "error")
      BY <2>2, ReturnFacts DEF TypeInv
    <2>3. CASE Return(t, "ok") /\ NothingToDo(c)
      BY <2>3, ReturnFacts DEF TypeInv
    <2> QED BY <2>1, <2>2, <2>3 DEF Call
  <1>5. StoreTypeOK'
    BY <1>2, <1>3, <1>4 DEF TypeInv, StoreTypeOK, LinksTyped, CountsTyped
  <1>6. reply[t] = "none"
    BY <1>3 DEF TypeInv, StoreTypeOK, PointOK
  <1>7. PointOK(t)' /\ pc'[t] # "idle"
    <2>1. CASE pc'[t] = FirstStatement(c) /\ reply'[t] = reply[t]
      BY <1>3, <1>6, <2>1, FirstPoint DEF PointOK, AddPoints, DeletePoints
    <2>2. CASE pc'[t] = "returned" /\ reply'[t] \in {"ok", "error"}
      BY <1>3, <2>2 DEF PointOK, AddPoints, DeletePoints
    <2> QED BY <1>4, <2>1, <2>2
  <1>8. WroteOK(t)'
    <2>1. CASE pc'[t] = FirstStatement(c)
      BY <2>1, FirstPoint DEF WroteOK
    <2>2. CASE pc'[t] = "returned" /\ reply'[t] = "error"
      BY <2>2 DEF WroteOK
    <2>3. CASE pc'[t] = "returned" /\ NothingToDo(c)
      BY <1>3, <2>3 DEF WroteOK, NothingToDo
    <2> QED BY <1>4, <2>1, <2>2, <2>3
  <1>9. OthersStay(t)
    BY <1>3, <1>4 DEF OthersStay
  <1> QED BY <1>2, <1>3, <1>5, <1>7, <1>8, <1>9 DEF AnyStepOK

(* t is between two calls after the step. *)
LEMMA EndsIdle ==
    ASSUME TypeInv, NEW t \in Threads, pc[t] \in {"idle", "returned"},
           pc' = [pc EXCEPT ![t] = "idle"], reply' = [reply EXCEPT ![t] = "none"],
           call' = call, local' = local, doubted' = doubted,
           faults' \in 0 .. MaxFaults, open' \in [Threads -> BOOLEAN],
           LinksStep(t), LinksTyped, LinksLast, CountsStep(t), CountsTyped, CountsLast
    PROVE  AnyStepOK(t) /\ pc'[t] = "idle"
  <1>1. /\ pc' \in [Threads -> Statements \cup {"idle", "returned"}]
        /\ reply' \in [Threads -> {"none", "ok", "error"}]
        /\ pc'[t] = "idle" /\ reply'[t] = "none"
        /\ \A u \in Threads \ {t} : pc'[u] = pc[u] /\ reply'[u] = reply[u]
    BY DEF TypeInv, StoreTypeOK
  <1>2. StoreTypeOK'
    BY <1>1, TypesFrom DEF TypeInv, StoreTypeOK
  <1>3. PointOK(t)' /\ WroteOK(t)'
    BY <1>1 DEF PointOK, WroteOK, AddPoints, DeletePoints
  <1> QED BY <1>1, <1>2, <1>3 DEF AnyStepOK, OthersStay

LEMMA TakeReplyStep ==
    ASSUME TypeInv, NEW t \in Threads, TakeReply(t)
    PROVE  AnyStepOK(t) /\ pc'[t] = "idle"
  <1>1. LinksStay /\ CountsStay
    BY DEF TakeReply, LinksStay, CountsStay, linktable, counttable
  <1>2. /\ LinksStep(t) /\ LinksTyped /\ LinksLast
        /\ CountsStep(t) /\ CountsTyped /\ CountsLast
    BY <1>1, RowsUntouched
  <1>3. /\ pc[t] = "returned" /\ pc' = [pc EXCEPT ![t] = "idle"]
        /\ reply' = [reply EXCEPT ![t] = "none"] /\ call' = call /\ local' = local
        /\ doubted' = doubted /\ faults' \in 0 .. MaxFaults /\ open' \in [Threads -> BOOLEAN]
    BY DEF TakeReply, TypeInv, StoreTypeOK
  <1> QED BY <1>2, <1>3, EndsIdle

LEMMA ClearErrorsStep ==
    ASSUME TypeInv, NEW t \in Threads, ClearErrors(t)
    PROVE  AnyStepOK(t) /\ pc'[t] = "idle"
  <1>1. L!Rollback(t) /\ C!Rollback(t)
    BY DEF ClearErrors
  <1>2. /\ LinksStep(t) /\ LinksTyped /\ LinksLast
        /\ CountsStep(t) /\ CountsTyped /\ CountsLast
    BY <1>1, RollbackStep
  <1>3. /\ pc[t] = "returned" /\ pc' = [pc EXCEPT ![t] = "idle"]
        /\ reply' = [reply EXCEPT ![t] = "none"] /\ call' = call /\ local' = local
        /\ doubted' = doubted
    BY DEF ClearErrors
  <1>4. faults' \in 0 .. MaxFaults /\ open' \in [Threads -> BOOLEAN]
    <2>1. /\ MaxFaults \in Nat /\ faults \in 0 .. MaxFaults /\ open \in [Threads -> BOOLEAN]
          /\ faults' = faults \/ (faults < MaxFaults /\ faults' = faults + 1)
      BY StoreAssumption DEF ClearErrors, TypeInv, StoreTypeOK
    <2>2. \E b \in BOOLEAN : open' = [open EXCEPT ![t] = b]
      BY DEF ClearErrors
    <2>3. faults' \in 0 .. MaxFaults
      BY <2>1
    <2>4. open' \in [Threads -> BOOLEAN]
      BY <2>1, <2>2
    <2> QED BY <2>3, <2>4
  <1> QED BY <1>2, <1>3, <1>4, EndsIdle

LEMMA CloseStep ==
    ASSUME TypeInv, NEW t \in Threads, Close(t)
    PROVE  AnyStepOK(t) /\ pc'[t] = "idle"
  <1>1. L!Rollback(t) /\ C!Rollback(t)
    BY DEF Close
  <1>2. /\ LinksStep(t) /\ LinksTyped /\ LinksLast
        /\ CountsStep(t) /\ CountsTyped /\ CountsLast
    BY <1>1, RollbackStep
  <1>3. /\ pc[t] = "idle" /\ pc' = pc /\ reply' = reply /\ call' = call /\ local' = local
        /\ doubted' = doubted /\ faults' = faults /\ open' \in [Threads -> BOOLEAN]
    BY DEF Close, progress, TypeInv, StoreTypeOK
  <1>4. pc' = [pc EXCEPT ![t] = "idle"] /\ reply' = [reply EXCEPT ![t] = "none"]
    <2>1. reply[t] = "none"
      BY <1>3 DEF TypeInv, StoreTypeOK, PointOK
    <2> QED BY <1>3, <2>1 DEF TypeInv, StoreTypeOK
  <1> QED BY <1>2, <1>3, <1>4, EndsIdle DEF TypeInv, StoreTypeOK

(* A step that leaves the store as it is, or only counts a fault. *)
LEMMA NoStep ==
    ASSUME TypeInv, LinksStay, CountsStay, open' = open, call' = call, pc' = pc, reply' = reply,
           local' = local, doubted' = doubted, faults' \in 0 .. MaxFaults
    PROVE  TypeInv' /\ (RowsInv => RowsInv')
  <1>1. StoreTypeOK' /\ UnlockedIsCommitted'
    BY DEF TypeInv, StoreTypeOK, UnlockedIsCommitted, LinksStay, CountsStay
  <1>2. \A t \in Threads : PointOK(t)'
    BY DEF TypeInv, PointOK, LinksStay
  <1>3. ASSUME RowsInv PROVE RowsInv'
    <2>1. RowsKept'
      BY <1>3 DEF RowsInv, RowsKept, LinksStay, CountsStay
    <2>2. \A t \in Threads : WroteOK(t)' /\ Hiding(t)'
      BY <1>3 DEF RowsInv, WroteOK, Hiding, HasLink, HasCount, LinksStay, CountsStay
    <2> QED BY <2>1, <2>2 DEF RowsInv
  <1> QED BY <1>1, <1>2, <1>3 DEF TypeInv

LEMMA StoreInitTypes ==
    ASSUME StoreInit
    PROVE  TypeInv /\ RowsInv
  <1>1. StoreTypeOK /\ UnlockedIsCommitted
    BY StoreInitInv DEF StoreInv
  <1>2. \A t \in Threads : PointOK(t) /\ WroteOK(t) /\ Hiding(t)
    BY DEF StoreInit, PointOK, WroteOK, Hiding, AddPoints, DeletePoints
  <1>3. RowsKept
    BY DEF StoreInit, L!EmptyTable, C!EmptyTable, RowsKept
  <1> QED BY <1>1, <1>2, <1>3 DEF TypeInv, RowsInv

=============================================================================
