----------------------------- MODULE LinkBench -----------------------------
(***************************************************************************)
(* A run of LinkBench (LinkBenchDriver.java): loaders fill the store of    *)
(* LinkStore in bulk or link by link (LinkBenchLoad.java), then requesters *)
(* send requests to it (LinkBenchRequest.java).                            *)
(*                                                                         *)
(*   phase         "load", "requests", "done", or "halted" by the driver   *)
(*   batch         bulkInsertSize, 0 for no bulk load                      *)
(*   chunk_q       the queue of chunks, Null for SHUTDOWN                  *)
(*   task          what each thread's run() does next                      *)
(*   at            in the loop of a loader: the id1 it is at, the end of   *)
(*                 its chunk, the links of id1 it has made                 *)
(*   loadBuffer, countLoadBuffer   links, and the id1s of counts, that are *)
(*                 not yet stored                                          *)
(*   linksloaded   the number of links a loader reports                    *)
(*   requestsDone, errors   of a requester                                 *)
(*   timeup        the time limit of the request phase is over             *)
(*                                                                         *)
(* The j-th link of id1 goes to id1 + j (randomid2max is 0), so Id2s are   *)
(* counted from id1.                                                       *)
(***************************************************************************)
EXTENDS LinkStore, Sequences, FiniteSetsExt, Functions

CONSTANTS
    Loaders, Requesters,  \* the threads of each phase
    NLinks,               \* calcLinkCount(): the links of each id1
    BatchSizes,           \* the values of bulkInsertSize
    ChunkSize,            \* loader_chunk_size
    LoadData,             \* the payload of loaded links
    NumRequests,          \* requests per requester
    MaxFailed             \* maxFailedRequests, -1 for no limit

StartId == Min(Id1s)
EndId   == Max(Id1s) + 1  \* maxid1

ASSUME BenchAssumption ==
    /\ Loaders \subseteq Threads /\ Requesters \subseteq Threads /\ IsFiniteSet(Loaders)
    /\ Id1s = StartId .. EndId - 1
    /\ StartId \in Nat \ {0} /\ EndId \in Nat /\ StartId < EndId
    /\ NLinks \in [Id1s -> Nat] /\ \A k \in Id1s : 0 .. NLinks[k] - 1 \subseteq Id2s
    /\ BatchSizes \subseteq Nat /\ ChunkSize \in Nat \ {0}
    /\ LoadData \in Data /\ Null \notin [start : Int, end : Int]
    /\ NumRequests \in Nat /\ MaxFailed \in Nat \cup {-1}

VARIABLES phase, batch, chunk_q, task, at, loadBuffer, countLoadBuffer,
          linksloaded, requestsDone, errors, timeup

loading  == <<chunk_q, at, loadBuffer, countLoadBuffer, linksloaded>>
requests == <<requestsDone, errors, timeup>>
vars     == <<storevars, phase, batch, task, loading, requests>>

(* enqueueLoadWork(): the chunks, the last one first, and a SHUTDOWN for   *)
(* each loader.                                                            *)
Chunks ==
    LET n == (EndId - StartId + ChunkSize - 1) \div ChunkSize
    IN  [i \in 1 .. n |-> LET start == StartId + (n - i) * ChunkSize
                          IN  [start |-> start, end |-> Min({start + ChunkSize, EndId})]]

(* The counts of the id1s in S, as they were made. *)
LinkCounts(S) == [k \in S |-> NLinks[k]]

NotLoading == [id1 |-> EndId, end |-> EndId, made |-> 0]

Init ==
    /\ StoreInit
    /\ phase = "load"
    /\ batch \in BatchSizes
    /\ chunk_q = Chunks \o [i \in 1 .. Cardinality(Loaders) |-> Null]
    /\ task = [t \in Threads |-> IF t \in Loaders THEN "initialize" ELSE "ended"]
    /\ at = [t \in Loaders |-> NotLoading]
    /\ loadBuffer = [t \in Loaders |-> {}]
    /\ countLoadBuffer = [t \in Loaders |-> {}]
    /\ linksloaded = [t \in Loaders |-> 0]
    /\ requestsDone = [t \in Requesters |-> 0]
    /\ errors = [t \in Requesters |-> 0]
    /\ timeup = FALSE

(* t runs on, and is not in a call of its store. *)
Runs(t, state) == phase # "halted" /\ task[t] = state /\ pc[t] = "idle"

GoesTo(t, state) == task' = [task EXCEPT ![t] = state]

(* initialize(); an exception there halts the program (concurrentExec).    *)
InitializeStore(t) ==
    /\ Runs(t, "initialize")
    /\ Initialize(t)
    /\ GoesTo(t, IF phase = "load" THEN "take" ELSE "request")
    /\ UNCHANGED <<phase, batch, loading, requests>>

InitializeFails(t) ==
    /\ Runs(t, "initialize")
    /\ faults < MaxFaults /\ faults' = faults + 1
    /\ phase' = "halted"
    /\ UNCHANGED <<linktable, counttable, open, call, progress, local, doubted,
                   task, batch, loading, requests>>

(* store.close(), at the end of run(). *)
CloseStore(t) ==
    /\ Runs(t, "close")
    /\ Close(t)
    /\ GoesTo(t, "ended")
    /\ UNCHANGED <<phase, batch, loading, requests>>

----------------------------------------------------------------------------
(* LinkBenchLoad.run() *)

TakeChunk(t) ==
    LET chunk == Head(chunk_q) IN
    /\ Runs(t, "take") /\ chunk_q # <<>>
    /\ chunk_q' = Tail(chunk_q)
    /\ IF chunk = Null
       THEN GoesTo(t, IF batch > 0 THEN "flushLinks" ELSE "close") /\ UNCHANGED at
       ELSE /\ GoesTo(t, "load")
            /\ at' = [at EXCEPT ![t] = [id1 |-> chunk.start, end |-> chunk.end, made |-> 0]]
    /\ UNCHANGED <<storevars, phase, batch, loadBuffer, countLoadBuffer, linksloaded, requests>>

(* createOutLinks(): the next link, stored at once or when the buffer is   *)
(* full ...                                                                *)
CreateLink(t) ==
    LET l == <<at[t].id1, at[t].made>>
        b == loadBuffer[t] \cup {l}
    IN  /\ Runs(t, "load") /\ at[t].made < NLinks[at[t].id1]
        /\ at' = [at EXCEPT ![t].made = @ + 1]
        /\ loadBuffer' = IF batch = 0 THEN loadBuffer ELSE [loadBuffer EXCEPT ![t] = b]
        /\ IF batch = 0 THEN Call(t, AddLink(l, "DEFAULT", LoadData))
           ELSE IF Cardinality(b) >= batch THEN Call(t, AddBulkLinks(b, LoadData))
           ELSE UNCHANGED storevars
        /\ UNCHANGED <<phase, batch, task, chunk_q, countLoadBuffer, linksloaded, requests>>

(* ... and, after the last link of id1, its count; on to the next id1.     *)
CountLinks(t) ==
    LET k == at[t].id1
        counted == batch > 0 /\ NLinks[k] > 0
        b == IF counted THEN countLoadBuffer[t] \cup {k} ELSE countLoadBuffer[t]
    IN  /\ Runs(t, "load") /\ at[t].made = NLinks[k]
        /\ IF k + 1 < at[t].end
           THEN at' = [at EXCEPT ![t].id1 = k + 1, ![t].made = 0] /\ UNCHANGED task
           ELSE at' = [at EXCEPT ![t] = NotLoading] /\ GoesTo(t, "take")
        /\ countLoadBuffer' = [countLoadBuffer EXCEPT ![t] = b]
        /\ IF counted /\ Cardinality(b) >= batch
           THEN Call(t, AddBulkCounts(LinkCounts(b))) ELSE UNCHANGED storevars
        /\ UNCHANGED <<phase, batch, chunk_q, loadBuffer, linksloaded, requests>>

(* What is left in the buffers after SHUTDOWN is tried once. *)
FlushLinks(t) ==
    /\ Runs(t, "flushLinks")
    /\ Call(t, AddBulkLinks(loadBuffer[t], LoadData))
    /\ GoesTo(t, "flushCounts")
    /\ UNCHANGED <<phase, batch, loading, requests>>

FlushCounts(t) ==
    /\ Runs(t, "flushCounts")
    /\ Call(t, AddBulkCounts(LinkCounts(countLoadBuffer[t])))
    /\ GoesTo(t, "close")
    /\ UNCHANGED <<phase, batch, loading, requests>>

(* Mutant of LoadCallDone: the buffers are not emptied. *)
KeepBatch(t) ==
    LET c == call[t] IN
    /\ phase # "halted" /\ task[t] # "request"
    /\ TakeReply(t)
    /\ linksloaded' = IF c.op = "addBulkCounts" THEN linksloaded
                      ELSE [linksloaded EXCEPT ![t] =
                              @ + IF c.op = "addLink" THEN 1 ELSE Cardinality(c.links)]
    /\ UNCHANGED <<phase, batch, chunk_q, task, at, loadBuffer, countLoadBuffer, requests>>

(* loadLink(), loadLinks(), loadCounts(): what was stored leaves the       *)
(* buffer; ...                                                             *)
LoadCallDone(t) ==
    LET c == call[t] IN
    /\ phase # "halted" /\ task[t] # "request"
    /\ TakeReply(t)
    /\ \/ /\ c.op = "addLink"
          /\ linksloaded' = [linksloaded EXCEPT ![t] = @ + 1]
          /\ UNCHANGED <<loadBuffer, countLoadBuffer>>
       \/ /\ c.op = "addBulkLinks"
          /\ linksloaded' = [linksloaded EXCEPT ![t] = @ + Cardinality(c.links)]
          /\ loadBuffer' = [loadBuffer EXCEPT ![t] = {}]
          /\ UNCHANGED countLoadBuffer
       \/ /\ c.op = "addBulkCounts"
          /\ countLoadBuffer' = [countLoadBuffer EXCEPT ![t] = {}]
          /\ UNCHANGED <<linksloaded, loadBuffer>>
    /\ UNCHANGED <<phase, batch, chunk_q, task, at, requests>>

(* Mutant of LoadCallFailed: a batch that fails is dropped. *)
DropBatch(t) ==
    /\ phase # "halted" /\ task[t] # "request"
    /\ ClearErrors(t)
    /\ loadBuffer' = [loadBuffer EXCEPT ![t] = {}]
    /\ UNCHANGED <<phase, batch, task, chunk_q, at, countLoadBuffer, linksloaded, requests>>

(* ... after an exception it stays there for the next call.  A link that   *)
(* was to be stored at once is given up.                                   *)
LoadCallFailed(t) ==
    /\ phase # "halted" /\ task[t] # "request"
    /\ ClearErrors(t)
    /\ UNCHANGED <<phase, batch, task, loading, requests>>

Load(t) ==
    \/ TakeChunk(t) \/ CreateLink(t) \/ CountLinks(t) \/ FlushLinks(t) \/ FlushCounts(t)
    \/ LoadCallDone(t) \/ LoadCallFailed(t)

----------------------------------------------------------------------------
(* LinkBenchRequest.run(), without warm-up *)

(* Mutant of Request: one request too many. *)
RequestOneMore(t) ==
    /\ Runs(t, "request") /\ requestsDone[t] <= NumRequests
    /\ \E c \in Calls : Call(t, c)
    /\ UNCHANGED <<phase, batch, task, loading, requests>>

Request(t) ==
    /\ Runs(t, "request") /\ requestsDone[t] < NumRequests
    /\ \E c \in Calls : Call(t, c)
    /\ UNCHANGED <<phase, batch, task, loading, requests>>

(* Mutant of Done: a request is not counted. *)
NotDone(t) ==
    /\ GoesTo(t, IF timeup THEN "close" ELSE "request")
    /\ UNCHANGED requestsDone

(* A request that has been served or has failed is done; after it the time *)
(* limit is looked at.                                                     *)
Done(t) ==
    /\ requestsDone' = [requestsDone EXCEPT ![t] = @ + 1]
    /\ GoesTo(t, IF timeup THEN "close" ELSE "request")

Served(t) ==
    /\ phase # "halted" /\ task[t] = "request"
    /\ TakeReply(t)
    /\ Done(t)
    /\ UNCHANGED <<phase, batch, loading, errors, timeup>>

(* Too many failures end the requester. *)
Failed(t) ==
    /\ phase # "halted" /\ task[t] = "request"
    /\ ClearErrors(t)
    /\ errors' = [errors EXCEPT ![t] = @ + 1]
    /\ IF MaxFailed >= 0 /\ errors[t] + 1 > MaxFailed
       THEN GoesTo(t, "close") /\ UNCHANGED requestsDone
       ELSE Done(t)
    /\ UNCHANGED <<phase, batch, loading, timeup>>

RequestsOver(t) ==
    /\ Runs(t, "request") /\ requestsDone[t] >= NumRequests
    /\ GoesTo(t, "close")
    /\ UNCHANGED <<storevars, phase, batch, loading, requests>>

TimeUp ==
    /\ phase = "requests" /\ ~timeup /\ timeup' = TRUE
    /\ UNCHANGED <<storevars, phase, batch, task, loading, requestsDone, errors>>

Requester(t) == Request(t) \/ Served(t) \/ Failed(t) \/ RequestsOver(t)

----------------------------------------------------------------------------
(* LinkBenchDriver.drive() *)

AllEnded(S) == \A t \in S : task[t] = "ended"

(* Mutant of SendRequests: the latch counts down for the first loader.     *)
SendRequestsEarly ==
    /\ phase = "load" /\ \E t \in Loaders : task[t] = "ended"
    /\ phase' = "requests"
    /\ task' = [t \in Threads |-> IF t \in Requesters /\ task[t] = "ended" THEN "initialize" ELSE task[t]]
    /\ UNCHANGED <<storevars, batch, loading, requests>>

(* concurrentExec(loaders) has waited for all of them; now the requesters. *)
SendRequests ==
    /\ phase = "load" /\ AllEnded(Loaders)
    /\ phase' = "requests"
    /\ task' = [t \in Threads |-> IF t \in Requesters THEN "initialize" ELSE "ended"]
    /\ UNCHANGED <<storevars, batch, loading, requests>>

Complete ==
    /\ phase = "requests" /\ AllEnded(Requesters)
    /\ phase' = "done"
    /\ UNCHANGED <<storevars, task, batch, loading, requests>>

Works(t) ==
    \/ InitializeStore(t) \/ Load(t) \/ Requester(t) \/ CloseStore(t)
    \/ phase # "halted" /\ Statement(t) /\ UNCHANGED <<phase, batch, task, loading, requests>>

Fails(t) ==
    \/ InitializeFails(t)
    \/ phase # "halted" /\ Failure(t) /\ UNCHANGED <<phase, batch, task, loading, requests>>

Over == phase \in {"done", "halted"} /\ UNCHANGED vars

Next ==
    \/ \E t \in Threads : Works(t) \/ Fails(t)
    \/ SendRequests \/ Complete \/ TimeUp \/ Over

Spec == Init /\ [][Next]_vars

(* The threads and the driver run; nothing need fail, and the time need    *)
(* not be up.                                                              *)
FairSpec == Spec /\ (\A t \in Threads : WF_vars(Works(t))) /\ WF_vars(SendRequests \/ Complete)

----------------------------------------------------------------------------
(* Properties *)

(* Every variable has its type. *)
TypeOK ==
    /\ StoreTypeOK
    /\ phase \in {"load", "requests", "done", "halted"}
    /\ batch \in BatchSizes
    /\ task \in [Threads -> {"initialize", "take", "load", "flushLinks", "flushCounts", "request",
                             "close", "ended"}]
    /\ at \in [Loaders -> [id1 : StartId .. EndId, end : StartId .. EndId, made : Nat]]
    /\ loadBuffer \in [Loaders -> SUBSET Links]
    /\ countLoadBuffer \in [Loaders -> SUBSET Id1s]
    /\ linksloaded \in [Loaders -> Nat]
    /\ requestsDone \in [Requesters -> 0 .. NumRequests]
    /\ errors \in [Requesters -> 0 .. NumRequests + 1]
    /\ timeup \in BOOLEAN

(* Links or the count of k are still to be stored by a bulk load, or were  *)
(* in a buffer when its loader ended.                                      *)
Buffered(k) ==
    \E t \in Loaders :
        \/ \E l \in loadBuffer[t] : l[1] = k
        \/ k \in countLoadBuffer[t]
        \/ batch > 0 /\ task[t] = "load" /\ at[t].id1 = k /\ at[t].made > 0

(* The count of every id1 is the number of its visible links, as soon as   *)
(* what was loaded of it has been stored and from then on: a bulk load     *)
(* stores links and counts apart, and requests add to what it has left.    *)
LoadedCountsMatch == \A k \in Id1s \ doubted : Buffered(k) \/ Consistent(k)

(* The links a loader has not come to: in a chunk of the queue, or of a    *)
(* chunk that is being loaded.                                             *)
Ahead(k, j) ==
    \/ \E c \in Range(chunk_q) \ {Null} : k \in c.start .. c.end - 1
    \/ \E t \in Loaders : k \in at[t].id1 + 1 .. at[t].end - 1
    \/ \E t \in Loaders : k = at[t].id1 /\ at[t].made <= j

(* A bulk load drops nothing on an error: a link is in the table or still  *)
(* in a buffer, and so is the count of an id1 all of whose links are made. *)
NothingDropped ==
    batch > 0 => \A k \in Id1s :
        /\ \A j \in 0 .. NLinks[k] - 1 :
              \/ Ahead(k, j)
              \/ linkdb[<<k, j>>] # Null
              \/ \E t \in Loaders : <<k, j>> \in loadBuffer[t]
        /\ \/ NLinks[k] = 0 \/ Ahead(k, NLinks[k])
           \/ countdb[k] # Null
           \/ \E t \in Loaders : k \in countLoadBuffer[t]

(* The "Loaded ... links" of the driver's report are in the table, each    *)
(* counted once even if it was stored twice (LinkBenchDriver.java:286).    *)
LoadedAreStored ==
    SumFunction(linksloaded) <= Cardinality({l \in Links : linkdb[l] # Null})

(* The run ends: no call waits for ever for a row, and a failed request is *)
(* not asked for ever.                                                     *)
BenchEnds == <>(phase \in {"done", "halted"})

(* What the stores keep is a graph of links whose counts follow.           *)
Graph == INSTANCE LinkGraph WITH links <- linkdb, counts <- countdb,
                                 loading <- (phase = "load")

GraphImplemented == Graph!Spec
=============================================================================
