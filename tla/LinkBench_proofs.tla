-------------------------- MODULE LinkBench_proofs --------------------------
(***************************************************************************)
(* A run of LinkBench: what its threads are at, what the load has stored,  *)
(* and what its steps mean to the stores of LinkStore.                     *)
(***************************************************************************)
EXTENDS LinkBench, LinkStore_proofs, SumLemmas

----------------------------------------------------------------------------
(* The chunks *)

ChunkType == {c \in [start : Id1s, end : StartId .. EndId] : c.start < c.end}

Span(c) == c.start .. c.end - 1

(* The smaller of two integers. *)
LEMMA MinOfTwo ==
    ASSUME NEW a \in Int, NEW b \in Int
    PROVE  Min({a, b}) \in {a, b} /\ Min({a, b}) <= a /\ Min({a, b}) <= b
  <1>1. \E x \in {a, b} : \A y \in {a, b} : x <= y
    OBVIOUS
  <1> QED BY <1>1 DEF Min

LEMMA GraphFacts ==
    /\ StartId \in Nat \ {0} /\ EndId \in Nat /\ StartId < EndId
    /\ Id1s = StartId .. EndId - 1 /\ ChunkSize \in Nat \ {0}
    /\ NLinks \in [Id1s -> Nat] /\ EndId \notin Id1s
    /\ \A c \in ChunkType : c # Null
  <1>1. /\ StartId \in Nat \ {0} /\ EndId \in Nat /\ StartId < EndId
        /\ Id1s = StartId .. EndId - 1 /\ ChunkSize \in Nat \ {0}
        /\ NLinks \in [Id1s -> Nat] /\ Null \notin [start : Int, end : Int]
    BY BenchAssumption
  <1> HIDE DEF StartId, EndId
  <1>2. ChunkType \subseteq [start : Int, end : Int]
    BY <1>1 DEF ChunkType
  <1> QED BY <1>1, <1>2

(* Multiples of c. *)
LEMMA TimesMonotone ==
    ASSUME NEW x \in Nat, NEW y \in Nat, NEW c \in Nat, x <= y
    PROVE  x * c \in Nat /\ y * c \in Nat /\ x * c <= y * c
  <1>1. y - x \in Nat /\ (y - x) * c \in Nat
    OBVIOUS
  <1>2. x * c \in Nat /\ y * c = x * c + (y - x) * c
    BY <1>1
  <1> QED BY <1>1, <1>2

LEMMA Times1 ==
    ASSUME NEW x \in Nat, NEW c \in Nat
    PROVE  (x + 1) * c = x * c + c /\ x * c \in Nat
  OBVIOUS

(* The i-th of the n chunks starts n - i chunks after the first id1. *)
LEMMA ChunksAre ==
    \E n \in Nat :
      /\ EndId - StartId <= n * ChunkSize
      /\ Chunks \in [1 .. n -> ChunkType]
      /\ \A i \in 1 .. n :
           /\ (n - i) * ChunkSize \in Nat
           /\ Chunks[i].start = StartId + (n - i) * ChunkSize
           /\ Chunks[i].end <= StartId + (n - i) * ChunkSize + ChunkSize
           /\ Chunks[i].end < StartId + (n - i) * ChunkSize + ChunkSize => Chunks[i].end = EndId
  <1> DEFINE n == (EndId - StartId + ChunkSize - 1) \div ChunkSize
             w == EndId - StartId
             first(i) == StartId + (n - i) * ChunkSize
  <1>1. /\ w \in Nat \ {0} /\ ChunkSize \in Nat \ {0} /\ StartId \in Nat /\ EndId \in Nat
        /\ EndId = StartId + w /\ Id1s = StartId .. EndId - 1
    BY GraphFacts
  <1>2. n \in Nat /\ n * ChunkSize <= w + ChunkSize - 1 /\ w <= n * ChunkSize
    <2> HIDE DEF w
    <2>1. w + ChunkSize - 1 \in Nat
      BY <1>1
    <2>2. n = (w + ChunkSize - 1) \div ChunkSize
      BY DEF w
    <2> HIDE DEF n
    <2>3. n \in Nat /\ n * ChunkSize <= w + ChunkSize - 1
      BY <1>1, <2>1, <2>2
    <2>4. w + ChunkSize - 1 < n * ChunkSize + ChunkSize
      BY <1>1, <2>1, <2>2
    <2>5. n * ChunkSize \in Nat
      BY <1>1, <2>3
    <2> QED BY <1>1, <2>3, <2>4, <2>5
  <1> HIDE DEF n, w
  <1>3. ASSUME NEW i \in 1 .. n
        PROVE  (n - i) * ChunkSize \in Nat /\ (n - i) * ChunkSize < w
    <2>1. n - i \in Nat /\ n - 1 \in Nat /\ n - i <= n - 1
      BY <1>2
    <2>2. (n - i) * ChunkSize <= (n - 1) * ChunkSize /\ (n - i) * ChunkSize \in Nat
      BY <1>1, <2>1, TimesMonotone
    <2>3. (n - 1) * ChunkSize + ChunkSize = n * ChunkSize /\ (n - 1) * ChunkSize \in Nat
      <3>1. ((n - 1) + 1) * ChunkSize = (n - 1) * ChunkSize + ChunkSize
        BY <1>1, <2>1, Times1
      <3>2. (n - 1) + 1 = n
        BY <1>2
      <3> QED BY <1>1, <2>1, <3>1, <3>2, Times1
    <2> QED BY <1>1, <1>2, <2>2, <2>3
  <1>4. Chunks = [i \in 1 .. n |-> [start |-> first(i),
                                     end |-> Min({first(i) + ChunkSize, EndId})]]
    BY DEF Chunks, n
  <1>5. ASSUME NEW i \in 1 .. n
        PROVE  LET c == [start |-> first(i), end |-> Min({first(i) + ChunkSize, EndId})]
               IN  /\ c \in ChunkType /\ c.end <= first(i) + ChunkSize
                   /\ c.end < first(i) + ChunkSize => c.end = EndId
    <2> DEFINE p == (n - i) * ChunkSize
               e == Min({first(i) + ChunkSize, EndId})
    <2>1. p \in Nat /\ p < w
      BY <1>3
    <2>2. first(i) = StartId + p
      OBVIOUS
    <2> HIDE DEF p, first
    <2>3. first(i) \in Id1s /\ first(i) \in Nat
      BY <1>1, <2>1, <2>2
    <2>4. e \in {first(i) + ChunkSize, EndId} /\ e <= first(i) + ChunkSize /\ e <= EndId
      <3>1. first(i) + ChunkSize \in Int /\ EndId \in Int
        BY <1>1, <2>3
      <3> QED BY <3>1, MinOfTwo
    <2> HIDE DEF e
    <2>5. first(i) < EndId /\ first(i) >= StartId
      BY <1>1, <2>3
    <2>6. e \in StartId .. EndId /\ first(i) < e
      BY <1>1, <2>3, <2>4, <2>5
    <2>7. [start |-> first(i), end |-> e] \in ChunkType
      BY <2>3, <2>6 DEF ChunkType
    <2>8. e < first(i) + ChunkSize => e = EndId
      BY <1>1, <2>3, <2>4, <2>6
    <2> QED BY <2>4, <2>7, <2>8 DEF e
  <1> DEFINE chunk(i) == [start |-> first(i), end |-> Min({first(i) + ChunkSize, EndId})]
  <1>6. \A i \in 1 .. n : /\ chunk(i) \in ChunkType /\ chunk(i).start = first(i)
                          /\ chunk(i).end <= first(i) + ChunkSize
                          /\ chunk(i).end < first(i) + ChunkSize => chunk(i).end = EndId
    BY <1>5
  <1>7. Chunks = [i \in 1 .. n |-> chunk(i)]
    BY <1>4
  <1>8. \A i \in 1 .. n : (n - i) * ChunkSize \in Nat
    BY <1>3
  <1> HIDE DEF chunk, first
  <1>9. Chunks \in [1 .. n -> ChunkType] /\ \A i \in 1 .. n : Chunks[i] = chunk(i)
    BY <1>6, <1>7
  <1>10. \A i \in 1 .. n : first(i) = StartId + (n - i) * ChunkSize
    BY DEF first
  <1> QED BY <1>1, <1>2, <1>6, <1>8, <1>9, <1>10 DEF w

(* Every id1 is in one chunk. *)
LEMMA ChunksDivide ==
    \E n \in Nat :
      /\ Chunks \in [1 .. n -> ChunkType]
      /\ \A i, j \in 1 .. n : i # j => Span(Chunks[i]) \cap Span(Chunks[j]) = {}
      /\ \A k \in Id1s : \E i \in 1 .. n : k \in Span(Chunks[i])
  <1>1. PICK n \in Nat :
          /\ EndId - StartId <= n * ChunkSize
          /\ Chunks \in [1 .. n -> ChunkType]
          /\ \A i \in 1 .. n :
               /\ (n - i) * ChunkSize \in Nat
               /\ Chunks[i].start = StartId + (n - i) * ChunkSize
               /\ Chunks[i].end <= StartId + (n - i) * ChunkSize + ChunkSize
               /\ Chunks[i].end < StartId + (n - i) * ChunkSize + ChunkSize => Chunks[i].end = EndId
    BY ChunksAre
  <1>2. /\ StartId \in Nat /\ EndId \in Nat /\ StartId < EndId
        /\ Id1s = StartId .. EndId - 1 /\ ChunkSize \in Nat \ {0}
    BY GraphFacts
  <1> HIDE DEF StartId, EndId, Chunks
  <1>3. \A i \in 1 .. n : Chunks[i].end \in Int
    BY <1>1, <1>2 DEF ChunkType
  <1>4. ASSUME NEW i \in 1 .. n, NEW j \in 1 .. n, i < j
        PROVE  Span(Chunks[i]) \cap Span(Chunks[j]) = {}
    <2>1. n - j \in Nat /\ n - i \in Nat /\ (n - j) + 1 <= n - i /\ (n - j) + 1 \in Nat
      BY <1>1, <1>4
    <2>2. ((n - j) + 1) * ChunkSize <= (n - i) * ChunkSize
      BY <1>2, <2>1, TimesMonotone
    <2>3. ((n - j) + 1) * ChunkSize = (n - j) * ChunkSize + ChunkSize
      BY <1>2, <2>1, Times1
    <2>4. (n - i) * ChunkSize \in Nat /\ (n - j) * ChunkSize \in Nat
      BY <1>1
    <2>5. Chunks[j].end <= Chunks[i].start
      <3> DEFINE p == (n - i) * ChunkSize
                 r == (n - j) * ChunkSize
      <3>1. /\ p \in Nat /\ r \in Nat /\ r + ChunkSize <= p
            /\ Chunks[i].start = StartId + p /\ Chunks[j].end <= StartId + r + ChunkSize
        BY <1>1, <2>2, <2>3, <2>4
      <3>2. Chunks[j].end \in Int
        BY <1>3
      <3> HIDE DEF p, r
      <3> QED BY <1>2, <3>1, <3>2
    <2>6. Chunks[i].start \in Int /\ Chunks[j].start \in Int
      BY <1>1, <1>2, <2>4
    <2> QED BY <1>3, <2>5, <2>6 DEF Span
  <1>5. ASSUME NEW k \in Id1s PROVE \E i \in 1 .. n : k \in Span(Chunks[i])
    <2> DEFINE a == k - StartId
               q == a \div ChunkSize
    <2>1. a \in Nat /\ a < EndId - StartId /\ k = StartId + a
      BY <1>2
    <2> HIDE DEF a
    <2>2. q \in Nat /\ q * ChunkSize <= a /\ a < q * ChunkSize + ChunkSize
      <3>1. q \in Nat
        BY <1>2, <2>1
      <3>2. q * ChunkSize <= a
        BY <1>2, <2>1
      <3>3. a < q * ChunkSize + ChunkSize
        BY <1>2, <2>1
      <3> QED BY <3>1, <3>2, <3>3
    <2> HIDE DEF q
    <2>3. q < n
      <3> SUFFICES ASSUME n <= q PROVE FALSE
        BY <1>1, <2>2
      <3>1. n * ChunkSize <= q * ChunkSize /\ n * ChunkSize \in Nat /\ q * ChunkSize \in Nat
        BY <1>1, <1>2, <2>2, TimesMonotone
      <3> DEFINE p == n * ChunkSize
                 r == q * ChunkSize
      <3>2. p <= r /\ r <= a /\ EndId - StartId <= p /\ p \in Nat /\ r \in Nat
        BY <1>1, <2>2, <3>1
      <3> HIDE DEF p, r
      <3> QED BY <1>2, <2>1, <3>2
    <2>4. n - q \in 1 .. n /\ n - (n - q) = q
      BY <1>1, <2>2, <2>3
    <2>5. PICK i \in 1 .. n : n - i = q
      BY <2>4
    <2>6. /\ q * ChunkSize \in Nat /\ Chunks[i].start = StartId + q * ChunkSize
          /\ Chunks[i].end <= StartId + q * ChunkSize + ChunkSize
          /\ Chunks[i].end < StartId + q * ChunkSize + ChunkSize => Chunks[i].end = EndId
      BY <1>1, <2>5
    <2>7. Chunks[i].start <= k /\ k < Chunks[i].end
      <3> DEFINE r == q * ChunkSize
                 e == Chunks[i].end
      <3>1. r \in Nat /\ r <= a /\ a < r + ChunkSize /\ Chunks[i].start = StartId + r
        BY <2>2, <2>6
      <3>2. e \in Int /\ e <= StartId + r + ChunkSize /\ (e < StartId + r + ChunkSize => e = EndId)
        BY <1>3, <2>6
      <3> HIDE DEF r, e
      <3>3. Chunks[i].start <= k
        BY <1>2, <2>1, <3>1
      <3>4. k < e
        BY <1>2, <2>1, <3>1, <3>2
      <3> QED BY <3>3, <3>4 DEF e
    <2>8. k \in Int /\ Chunks[i].start \in Int
      BY <1>2, <2>6
    <2> QED BY <1>3, <2>7, <2>8 DEF Span
  <1>6. \A i, j \in 1 .. n : i # j => Span(Chunks[i]) \cap Span(Chunks[j]) = {}
    <2> SUFFICES ASSUME NEW i \in 1 .. n, NEW j \in 1 .. n, i # j
                 PROVE  Span(Chunks[i]) \cap Span(Chunks[j]) = {}
      OBVIOUS
    <2>1. i < j \/ j < i
      BY <1>1
    <2> QED BY <1>4, <2>1
  <1> QED BY <1>1, <1>5, <1>6

----------------------------------------------------------------------------
(* What the threads of a run are at *)

LoadTasks == {"take", "load", "flushLinks", "flushCounts"}

(* The id1s of its chunk that a loader has not come to, and the one it is  *)
(* at.                                                                     *)
Rest(t) == at[t].id1 .. at[t].end - 1

(* No two loaders are given the same id1. *)
SpansDiffer ==
    /\ \A i, j \in DOMAIN chunk_q :
         i # j /\ chunk_q[i] # Null /\ chunk_q[j] # Null => Span(chunk_q[i]) \cap Span(chunk_q[j]) = {}
    /\ \A i \in DOMAIN chunk_q, t \in Loaders :
         chunk_q[i] # Null => Span(chunk_q[i]) \cap Rest(t) = {}
    /\ \A t, u \in Loaders : t # u => Rest(t) \cap Rest(u) = {}

(* What a loader is storing: a link, or what is in one of its buffers.     *)
LoadCall(t) ==
    IF batch = 0 THEN \E l \in Links : call[t] = AddLink(l, "DEFAULT", LoadData)
    ELSE \/ call[t] = AddBulkLinks(loadBuffer[t], LoadData)
         \/ call[t] = AddBulkCounts(LinkCounts(countLoadBuffer[t]))

LoaderOK(t) ==
    /\ task[t] = "load" => /\ at[t].id1 \in Id1s /\ at[t].id1 < at[t].end
                           /\ at[t].made <= NLinks[at[t].id1]
    /\ task[t] # "load" => at[t] = NotLoading
    /\ batch = 0 => loadBuffer[t] = {} /\ countLoadBuffer[t] = {}

RequesterOK(t) ==
    /\ phase = "load" => requestsDone[t] = 0 /\ errors[t] = 0
    /\ task[t] = "request" /\ pc[t] # "idle" => requestsDone[t] < NumRequests
    /\ errors[t] <= requestsDone[t] + (IF task[t] \in {"close", "ended"} THEN 1 ELSE 0)

(* A thread loads, then sends requests, and has no other calls. *)
TaskOK(t) ==
    /\ task[t] \in LoadTasks => t \in Loaders /\ phase \in {"load", "halted"}
    /\ task[t] \in {"flushLinks", "flushCounts"} => batch > 0
    /\ task[t] = "initialize" => /\ phase = "load" => t \in Loaders
                                 /\ phase \in {"requests", "done"} => t \in Requesters
    /\ task[t] = "request" => t \in Requesters /\ phase # "load"
    /\ phase = "load" /\ t \notin Loaders => task[t] = "ended"
    /\ task[t] \in {"initialize", "ended", "flushLinks"} => pc[t] = "idle"
    /\ pc[t] # "idle" /\ task[t] # "request" =>
         t \in Loaders /\ phase \in {"load", "halted"} /\ LoadCall(t)
    /\ pc[t] # "idle" /\ task[t] = "request" => call[t] \in Calls

ThreadIsAt(t) ==
    /\ TaskOK(t)
    /\ t \in Loaders => LoaderOK(t)
    /\ t \in Requesters => RequesterOK(t)

AtType == [id1 : StartId .. EndId, end : StartId .. EndId, made : Nat]

BookTypes ==
    /\ phase \in {"load", "requests", "done", "halted"}
    /\ batch \in BatchSizes
    /\ chunk_q \in Seq(ChunkType \cup {Null})
    /\ task \in [Threads -> LoadTasks \cup {"initialize", "request", "close", "ended"}]
    /\ at \in [Loaders -> AtType]
    /\ loadBuffer \in [Loaders -> SUBSET Links]
    /\ countLoadBuffer \in [Loaders -> SUBSET Id1s]
    /\ linksloaded \in [Loaders -> Nat]
    /\ requestsDone \in [Requesters -> 0 .. NumRequests]
    /\ errors \in [Requesters -> Nat]
    /\ timeup \in BOOLEAN

BookInv == BookTypes /\ SpansDiffer /\ \A t \in Threads : ThreadIsAt(t)

(* The queue at the start: the chunks, and a SHUTDOWN for each loader.     *)
LEMMA QueueFacts ==
    ASSUME NEW n \in Nat, NEW m \in Nat, NEW f \in [1 .. n -> ChunkType],
           NEW tail \in [1 .. m -> {Null}]
    PROVE  /\ f \o tail \in Seq(ChunkType \cup {Null}) /\ DOMAIN (f \o tail) = 1 .. n + m
           /\ \A i \in 1 .. n + m : (f \o tail)[i] = IF i <= n THEN f[i] ELSE Null
           /\ \A i \in 1 .. n + m : (f \o tail)[i] # Null <=> i <= n
  <1> DEFINE S == ChunkType \cup {Null}
             q == f \o tail
  <1>1. /\ f \in Seq(S) /\ tail \in Seq(S)
        /\ Len(f) = n /\ Len(tail) = m /\ \A i \in 1 .. m : tail[i] = Null
    OBVIOUS
  <1>2. \A i \in 1 .. n : f[i] # Null
    BY GraphFacts
  <1> HIDE DEF S
  <1>3. q \in Seq(S) /\ Len(q) = n + m
    BY <1>1
  <1>4. \A i \in 1 .. n + m : q[i] = IF i <= n THEN f[i] ELSE tail[i - n]
    BY <1>1
  <1> HIDE DEF q
  <1>5. \A i \in 1 .. n + m : q[i] = IF i <= n THEN f[i] ELSE Null
    BY <1>1, <1>4
  <1>6. DOMAIN q = 1 .. n + m
    BY <1>3
  <1> QED BY <1>2, <1>3, <1>5, <1>6 DEF S, q

LEMMA InitBook ==
    ASSUME Init
    PROVE  /\ BookInv
           /\ \A k \in Id1s : \E i \in DOMAIN chunk_q : chunk_q[i] # Null /\ k \in Span(chunk_q[i])
  <1> DEFINE m == Cardinality(Loaders)
             tail == [i \in 1 .. m |-> Null]
  <1>1. PICK n \in Nat :
          /\ Chunks \in [1 .. n -> ChunkType]
          /\ \A i, j \in 1 .. n : i # j => Span(Chunks[i]) \cap Span(Chunks[j]) = {}
          /\ \A k \in Id1s : \E i \in 1 .. n : k \in Span(Chunks[i])
    BY ChunksDivide
  <1>2. m \in Nat
    BY BenchAssumption, FS_CardinalityType
  <1>3. chunk_q = Chunks \o tail /\ tail \in [1 .. m -> {Null}]
    BY DEF Init
  <1> HIDE DEF m, tail
  <1>4. /\ chunk_q \in Seq(ChunkType \cup {Null}) /\ DOMAIN chunk_q = 1 .. n + m
        /\ \A i \in 1 .. n + m : chunk_q[i] = IF i <= n THEN Chunks[i] ELSE Null
        /\ \A i \in 1 .. n + m : chunk_q[i] # Null <=> i <= n
    BY <1>1, <1>2, <1>3, QueueFacts
  <1>5. /\ EndId \in Nat /\ StartId \in Nat /\ StartId < EndId /\ EndId \notin Id1s
        /\ Id1s = StartId .. EndId - 1
    BY GraphFacts
  <1>6. \A t \in Loaders : at[t] = NotLoading /\ Rest(t) = {}
    <2> SUFFICES ASSUME NEW t \in Loaders PROVE at[t] = NotLoading /\ Rest(t) = {}
      OBVIOUS
    <2>1. at[t] = NotLoading
      BY DEF Init
    <2>2. Rest(t) = EndId .. EndId - 1
      BY <2>1 DEF Rest, NotLoading
    <2> QED BY <1>5, <2>1, <2>2
  <1>7. SpansDiffer
    <2>1. ASSUME NEW i \in DOMAIN chunk_q, NEW j \in DOMAIN chunk_q,
                 i # j, chunk_q[i] # Null, chunk_q[j] # Null
          PROVE  Span(chunk_q[i]) \cap Span(chunk_q[j]) = {}
      <3>1. i \in 1 .. n /\ j \in 1 .. n /\ chunk_q[i] = Chunks[i] /\ chunk_q[j] = Chunks[j]
        BY <1>1, <1>2, <1>4, <2>1
      <3> QED BY <1>1, <2>1, <3>1
    <2> QED BY <1>6, <2>1 DEF SpansDiffer
  <1>8. BookTypes
    <2>1. NotLoading \in AtType
      BY <1>5 DEF NotLoading, AtType
    <2>2. NumRequests \in Nat
      BY BenchAssumption
    <2>3. task \in [Threads -> {"initialize", "ended"}]
      BY DEF Init
    <2>4. at \in [Loaders -> AtType]
      BY <2>1 DEF Init
    <2>5. requestsDone \in [Requesters -> 0 .. NumRequests] /\ errors \in [Requesters -> Nat]
      BY <2>2 DEF Init
    <2>6. /\ loadBuffer \in [Loaders -> SUBSET Links] /\ countLoadBuffer \in [Loaders -> SUBSET Id1s]
          /\ linksloaded \in [Loaders -> Nat] /\ timeup \in BOOLEAN
          /\ phase = "load" /\ batch \in BatchSizes
      BY DEF Init
    <2> QED BY <1>4, <2>3, <2>4, <2>5, <2>6 DEF BookTypes
  <1>9. ASSUME NEW t \in Threads PROVE ThreadIsAt(t)
    <2>1. /\ phase = "load" /\ pc[t] = "idle"
          /\ task[t] = IF t \in Loaders THEN "initialize" ELSE "ended"
      BY DEF Init, StoreInit
    <2>2. TaskOK(t)
      BY <2>1 DEF TaskOK, LoadTasks
    <2>3. t \in Loaders => LoaderOK(t)
      BY <2>1, <1>6 DEF LoaderOK, Init
    <2>4. t \in Requesters => RequesterOK(t)
      <3> SUFFICES ASSUME t \in Requesters PROVE RequesterOK(t)
        OBVIOUS
      <3>1. requestsDone[t] = 0 /\ errors[t] = 0
        BY DEF Init
      <3> QED BY <2>1, <3>1 DEF RequesterOK
    <2> QED BY <2>2, <2>3, <2>4 DEF ThreadIsAt
  <1>10. ASSUME NEW k \in Id1s
         PROVE  \E i \in DOMAIN chunk_q : chunk_q[i] # Null /\ k \in Span(chunk_q[i])
    <2>1. PICK i \in 1 .. n : k \in Span(Chunks[i])
      BY <1>1
    <2>2. i \in 1 .. n + m /\ chunk_q[i] # Null /\ chunk_q[i] = Chunks[i]
      BY <1>2, <1>4
    <2> QED BY <1>4, <2>1, <2>2
  <1> QED BY <1>7, <1>8, <1>9, <1>10 DEF BookInv

----------------------------------------------------------------------------
(* The steps of a run are steps of its stores *)

LEMMA LoaderFacts ==
    ASSUME BookInv, NEW t \in Threads, task[t] = "load"
    PROVE  /\ t \in Loaders /\ at[t] \in AtType /\ at[t].id1 \in Id1s
           /\ at[t].id1 \in Int /\ at[t].id1 >= StartId /\ at[t].id1 < at[t].end
           /\ at[t].end \in Int /\ at[t].end <= EndId /\ StartId \in Int /\ EndId \in Int
           /\ at[t].made \in Nat /\ NLinks[at[t].id1] \in Nat /\ at[t].made <= NLinks[at[t].id1]
  <1>1. /\ StartId \in Nat /\ EndId \in Nat /\ Id1s = StartId .. EndId - 1
        /\ NLinks \in [Id1s -> Nat]
    BY GraphFacts
  <1> HIDE DEF StartId, EndId
  <1>2. t \in Loaders /\ LoaderOK(t)
    BY DEF BookInv, ThreadIsAt, TaskOK, LoadTasks
  <1>3. at[t] \in AtType
    BY <1>2 DEF BookInv, BookTypes
  <1> QED BY <1>1, <1>2, <1>3 DEF LoaderOK, AtType

(* The next link of a loader is a link of the graph.                       *)
LEMMA NextLink ==
    ASSUME BookInv, NEW t \in Threads, task[t] = "load", at[t].made < NLinks[at[t].id1]
    PROVE  <<at[t].id1, at[t].made>> \in Links
  <1>1. /\ at[t].id1 \in Id1s /\ at[t].made \in Nat /\ NLinks[at[t].id1] \in Nat
        /\ \A k \in Id1s : 0 .. NLinks[k] - 1 \subseteq Id2s
    BY LoaderFacts, BenchAssumption
  <1>2. at[t].made \in 0 .. NLinks[at[t].id1] - 1
    BY <1>1
  <1>3. at[t].made \in Id2s
    BY <1>1, <1>2
  <1> QED BY <1>1, <1>3 DEF Links

LEMMA LoadCallTypes ==
    /\ \A l \in Links : LET c == AddLink(l, "DEFAULT", LoadData) IN
         CallType(c) /\ c \in LinkCalls /\ c.op = "addLink"
    /\ \A S \in SUBSET Links : LET c == AddBulkLinks(S, LoadData) IN
         CallType(c) /\ c.op = "addBulkLinks"
    /\ \A S \in SUBSET Id1s : LET c == AddBulkCounts(LinkCounts(S)) IN
         CallType(c) /\ c.op = "addBulkCounts"
  <1>1. LoadData \in Data /\ NLinks \in [Id1s -> Nat]
    BY BenchAssumption
  <1>2. ASSUME NEW l \in Links
        PROVE  LET c == AddLink(l, "DEFAULT", LoadData) IN
               CallType(c) /\ c \in LinkCalls /\ c.op = "addLink"
    BY <1>1 DEF CallType, AddLink, LinkCalls, Visibilities
  <1>3. ASSUME NEW S \in SUBSET Links
        PROVE  LET c == AddBulkLinks(S, LoadData) IN CallType(c) /\ c.op = "addBulkLinks"
    BY <1>1 DEF CallType, AddBulkLinks, IsBulkCall
  <1>4. ASSUME NEW S \in SUBSET Id1s
        PROVE  LET c == AddBulkCounts(LinkCounts(S)) IN CallType(c) /\ c.op = "addBulkCounts"
    <2>1. DOMAIN LinkCounts(S) = S /\ \A k \in S : LinkCounts(S)[k] \in Nat
      BY <1>1 DEF LinkCounts
    <2> QED BY <2>1 DEF CallType, AddBulkCounts, IsBulkCall
  <1> QED BY <1>2, <1>3, <1>4

StoreStays ==
    /\ LinksStay /\ CountsStay /\ open' = open /\ call' = call /\ pc' = pc /\ reply' = reply
    /\ local' = local /\ doubted' = doubted /\ faults' \in 0 .. MaxFaults

LEMMA StoreStutters ==
    ASSUME TypeInv, UNCHANGED storevars
    PROVE  StoreStays
  BY DEF StoreStays, storevars, linktable, counttable, progress, LinksStay, CountsStay, TypeInv,
     StoreTypeOK

(* The call that t makes, if it makes one. *)
LoadersCall(t) ==
    \E c : /\ CallType(c) /\ Call(t, c) /\ c.op # "deleteLink"
           /\ batch = 0 => c \in LinkCalls
           /\ c.op = "addLink" => c.visibility = "DEFAULT"

StoreStep(t) ==
    \/ Statement(t) \/ Failure(t)
    \/ Initialize(t) \/ TakeReply(t) \/ ClearErrors(t) \/ Close(t)
    \/ \E c \in Calls : Call(t, c)
    \/ LoadersCall(t)
    \/ StoreStays

LEMMA LoadIsStoreStep ==
    ASSUME TypeInv, BookInv, NEW t \in Threads, Load(t)
    PROVE  StoreStep(t)
  <1>1. CASE CreateLink(t)
    <2> DEFINE l == <<at[t].id1, at[t].made>>
    <2>1. /\ task[t] = "load" /\ at[t].made < NLinks[at[t].id1]
          /\ \/ batch = 0 /\ Call(t, AddLink(l, "DEFAULT", LoadData))
             \/ batch # 0 /\ Call(t, AddBulkLinks(loadBuffer[t] \cup {l}, LoadData))
             \/ UNCHANGED storevars
      BY <1>1 DEF CreateLink, Runs
    <2>2. l \in Links
      BY <2>1, NextLink
    <2>3. loadBuffer[t] \in SUBSET Links
      BY <2>1, LoaderFacts DEF BookInv, BookTypes
    <2> HIDE DEF l
    <2>4. CASE batch = 0 /\ Call(t, AddLink(l, "DEFAULT", LoadData))
      <3>1. AddLink(l, "DEFAULT", LoadData).visibility = "DEFAULT"
        BY DEF AddLink
      <3> QED BY <2>2, <2>4, <3>1, LoadCallTypes DEF StoreStep, LoadersCall
    <2>5. CASE batch # 0 /\ Call(t, AddBulkLinks(loadBuffer[t] \cup {l}, LoadData))
      <3>1. loadBuffer[t] \cup {l} \in SUBSET Links
        BY <2>2, <2>3
      <3> QED BY <2>5, <3>1, LoadCallTypes DEF StoreStep, LoadersCall
    <2> QED BY <2>1, <2>4, <2>5, StoreStutters DEF StoreStep
  <1>2. CASE CountLinks(t)
    <2> DEFINE b == countLoadBuffer[t] \cup {at[t].id1}
    <2>1. /\ task[t] = "load"
          /\ \/ batch > 0 /\ Call(t, AddBulkCounts(LinkCounts(b)))
             \/ UNCHANGED storevars
      BY <1>2 DEF CountLinks, Runs
    <2>2. b \in SUBSET Id1s
      BY <2>1, LoaderFacts DEF BookInv, BookTypes
    <2> HIDE DEF b
    <2> QED BY <2>1, <2>2, LoadCallTypes, StoreStutters DEF StoreStep, LoadersCall
  <1>3. CASE FlushLinks(t) \/ FlushCounts(t)
    <2>1. /\ task[t] \in {"flushLinks", "flushCounts"}
          /\ \/ Call(t, AddBulkLinks(loadBuffer[t], LoadData))
             \/ Call(t, AddBulkCounts(LinkCounts(countLoadBuffer[t])))
      BY <1>3 DEF FlushLinks, FlushCounts, Runs
    <2>2. t \in Loaders /\ batch # 0
      BY <2>1 DEF BookInv, ThreadIsAt, TaskOK, LoadTasks
    <2>3. loadBuffer[t] \in SUBSET Links /\ countLoadBuffer[t] \in SUBSET Id1s
      BY <2>2 DEF BookInv, BookTypes
    <2> QED BY <2>1, <2>2, <2>3, LoadCallTypes DEF StoreStep, LoadersCall
  <1>4. CASE TakeChunk(t)
    BY <1>4, StoreStutters DEF TakeChunk, StoreStep
  <1>5. CASE LoadCallDone(t) \/ LoadCallFailed(t)
    BY <1>5 DEF LoadCallDone, LoadCallFailed, StoreStep
  <1> QED BY <1>1, <1>2, <1>3, <1>4, <1>5 DEF Load

LEMMA IsStoreStep ==
    ASSUME TypeInv, BookInv, NEW t \in Threads, Works(t) \/ Fails(t)
    PROVE  StoreStep(t)
  <1>1. CASE Requester(t)
    BY <1>1, StoreStutters DEF Requester, Request, Served, Failed, RequestsOver, StoreStep
  <1>2. CASE InitializeStore(t) \/ CloseStore(t)
    BY <1>2 DEF InitializeStore, CloseStore, StoreStep
  <1>3. CASE InitializeFails(t)
    <2>1. faults' \in 0 .. MaxFaults
      BY <1>3, StoreAssumption DEF InitializeFails, TypeInv, StoreTypeOK
    <2>2. StoreStays
      BY <1>3, <2>1 DEF InitializeFails, StoreStays, linktable, counttable, progress, LinksStay,
         CountsStay
    <2> QED BY <2>2 DEF StoreStep
  <1>4. CASE Statement(t) \/ Failure(t)
    BY <1>4 DEF StoreStep
  <1> QED BY <1>1, <1>2, <1>3, <1>4, LoadIsStoreStep DEF Works, Fails

(* The driver leaves the stores alone. *)
LEMMA DriverLeavesStores ==
    ASSUME SendRequests \/ Complete \/ TimeUp \/ Over \/ UNCHANGED vars
    PROVE  UNCHANGED storevars
  BY DEF SendRequests, Complete, TimeUp, Over, vars

(* Requests hide links and do not expunge them (LinkBenchRequest.java). *)
HidingCalls == \A c \in Calls : c.op = "deleteLink" => ~c.expunge

(* What a step of a store does to the tables. *)
LEMMA StoreStepKeeps ==
    ASSUME TypeInv, NEW t \in Threads, StoreStep(t)
    PROVE  TypeInv' /\ (AnyStepOK(t) \/ StoreStays)
  <1>1. CASE StoreStays
    BY <1>1, NoStep DEF StoreStays
  <1>2. CASE \E c \in Calls : Call(t, c)
    <2>1. PICK c \in Calls : Call(t, c)
      BY <1>2
    <2>2. CallType(c)
      BY StoreAssumption DEF CallType
    <2> QED BY <2>1, <2>2, CallStep, AnyStepTypes
  <1>3. CASE LoadersCall(t)
    BY <1>3, CallStep, AnyStepTypes DEF LoadersCall
  <1> QED BY <1>1, <1>2, <1>3, AnyStatementStep, InitializeStep, TakeReplyStep, ClearErrorsStep,
       CloseStep, AnyStepTypes DEF StoreStep

RowsGrow ==
    /\ \A l \in Links : linkdb[l] # Null => linkdb'[l] # Null
    /\ \A k \in Id1s : countdb[k] # Null => countdb'[k] # Null

LEMMA StoreStepRows ==
    ASSUME TypeInv, RowsInv, NEW t \in Threads, StoreStep(t), Hiding(t)'
    PROVE  RowsInv' /\ RowsGrow
  <1>1. CASE StoreStays
    <2>1. RowsInv'
      BY <1>1, NoStep DEF StoreStays
    <2>2. RowsGrow
      BY <1>1 DEF StoreStays, RowsGrow, LinksStay, CountsStay
    <2> QED BY <2>1, <2>2
  <1>2. CASE AnyStepOK(t)
    BY <1>2, AnyStepRows DEF RowsGrow
  <1> QED BY <1>1, <1>2, StoreStepKeeps

LEMMA StoreStepHides ==
    ASSUME HidingCalls, TypeInv, RowsInv, NEW t \in Threads, StoreStep(t)
    PROVE  Hiding(t)'
  <1>1. Hiding(t)
    BY DEF RowsInv
  <1>2. CASE StoreStays
    BY <1>1, <1>2 DEF StoreStays, Hiding
  <1>3. CASE Statement(t) \/ Failure(t)
    BY <1>1, <1>3, AnyStatementStep DEF Hiding
  <1>4. CASE TakeReply(t) \/ ClearErrors(t) \/ Close(t)
    BY <1>4, TakeReplyStep, ClearErrorsStep, CloseStep DEF Hiding
  <1>5. CASE Initialize(t)
    BY <1>1, <1>5 DEF Initialize, progress, Hiding
  <1>6. CASE \E c \in Calls : Call(t, c)
    <2>1. PICK c \in Calls : Call(t, c)
      BY <1>6
    <2>2. CallType(c)
      BY StoreAssumption DEF CallType
    <2>3. call'[t] = c
      BY <2>1, <2>2, CallStep
    <2> QED BY <2>3 DEF Hiding, HidingCalls
  <1>7. CASE LoadersCall(t)
    <2>1. PICK c : CallType(c) /\ Call(t, c) /\ c.op # "deleteLink"
      BY <1>7 DEF LoadersCall
    <2>2. call'[t] = c
      BY <2>1, CallStep
    <2> QED BY <2>1, <2>2 DEF Hiding
  <1> QED BY <1>2, <1>3, <1>4, <1>5, <1>6, <1>7 DEF StoreStep

----------------------------------------------------------------------------
(* ... and keep the book *)

(* The others stay where they are. *)
BookMoves(t) ==
    /\ phase' \in {phase, "halted"} /\ batch' = batch /\ OthersStay(t)
    /\ \A u \in Threads \ {t} :
         /\ task'[u] = task[u]
         /\ u \in Loaders => /\ at'[u] = at[u] /\ loadBuffer'[u] = loadBuffer[u]
                             /\ countLoadBuffer'[u] = countLoadBuffer[u]
         /\ u \in Requesters => requestsDone'[u] = requestsDone[u] /\ errors'[u] = errors[u]

LEMMA BookStep ==
    ASSUME BookInv, NEW t \in Threads, BookMoves(t), BookTypes', SpansDiffer', ThreadIsAt(t)'
    PROVE  BookInv'
  <1>1. ASSUME NEW u \in Threads \ {t} PROVE ThreadIsAt(u)'
    <2>1. /\ phase' \in {phase, "halted"} /\ batch' = batch /\ task'[u] = task[u]
          /\ pc'[u] = pc[u] /\ call'[u] = call[u]
          /\ u \in Loaders => /\ at'[u] = at[u] /\ loadBuffer'[u] = loadBuffer[u]
                              /\ countLoadBuffer'[u] = countLoadBuffer[u]
          /\ u \in Requesters => requestsDone'[u] = requestsDone[u] /\ errors'[u] = errors[u]
      BY DEF BookMoves, OthersStay
    <2>2. ThreadIsAt(u)
      BY DEF BookInv
    <2>3. u \in Loaders => (LoadCall(u) => LoadCall(u)') /\ LoaderOK(u)'
      BY <2>1, <2>2 DEF ThreadIsAt, LoadCall, LoaderOK
    <2>4. TaskOK(u)'
      BY <2>1, <2>2, <2>3 DEF ThreadIsAt, TaskOK
    <2>5. u \in Requesters => RequesterOK(u)'
      BY <2>1, <2>2 DEF ThreadIsAt, RequesterOK
    <2> QED BY <2>3, <2>4, <2>5 DEF ThreadIsAt
  <1> QED BY <1>1 DEF BookInv

(* t has only gone on in its task. *)
LEMMA TaskStep ==
    ASSUME BookInv, NEW t \in Threads, OthersStay(t), phase' \in {phase, "halted"},
           batch' = batch, loading' = loading, timeup' = timeup,
           NEW s \in LoadTasks \cup {"initialize", "request", "close", "ended"},
           task' = [task EXCEPT ![t] = s],
           requestsDone' \in [Requesters -> 0 .. NumRequests], errors' \in [Requesters -> Nat],
           \A u \in Requesters \ {t} : requestsDone'[u] = requestsDone[u] /\ errors'[u] = errors[u],
           TaskOK(t)', t \in Loaders => LoaderOK(t)', t \in Requesters => RequesterOK(t)'
    PROVE  BookInv'
  <1>1. /\ chunk_q' = chunk_q /\ at' = at /\ loadBuffer' = loadBuffer
        /\ countLoadBuffer' = countLoadBuffer /\ linksloaded' = linksloaded
    BY DEF loading
  <1>2. BookMoves(t)
    BY <1>1 DEF BookMoves, BookInv, BookTypes
  <1>3. BookTypes'
    BY <1>1 DEF BookInv, BookTypes
  <1>4. SpansDiffer'
    BY <1>1 DEF BookInv, SpansDiffer, Rest
  <1> QED BY <1>2, <1>3, <1>4, BookStep DEF ThreadIsAt

LEMMA StaysAt ==
    ASSUME BookInv, NEW t \in Threads
    PROVE  /\ task' = task => task' = [task EXCEPT ![t] = task[t]]
           /\ task[t] \in LoadTasks \cup {"initialize", "request", "close", "ended"}
           /\ requests' = requests =>
                /\ timeup' = timeup /\ requestsDone' = requestsDone /\ errors' = errors
                /\ requestsDone' \in [Requesters -> 0 .. NumRequests]
                /\ errors' \in [Requesters -> Nat]
  BY DEF BookInv, BookTypes, requests

LEMMA StatementBook ==
    ASSUME TypeInv, BookInv, NEW t \in Threads, Statement(t) \/ Failure(t),
           UNCHANGED <<phase, batch, task, loading, requests>>
    PROVE  BookInv'
  <1>1. call' = call /\ pc[t] # "idle" /\ pc'[t] # "idle" /\ OthersStay(t)
    BY AnyStatementStep DEF AnyStepOK
  <1>2. ThreadIsAt(t)
    BY DEF BookInv
  <1>3. /\ phase' = phase /\ batch' = batch /\ task' = task /\ at' = at
        /\ loadBuffer' = loadBuffer /\ countLoadBuffer' = countLoadBuffer
        /\ requestsDone' = requestsDone /\ errors' = errors
    BY DEF loading, requests
  <1>4. TaskOK(t)'
    BY <1>1, <1>2, <1>3 DEF ThreadIsAt, TaskOK, LoadCall
  <1>5. t \in Loaders => LoaderOK(t)'
    BY <1>2, <1>3 DEF ThreadIsAt, LoaderOK
  <1>6. t \in Requesters => RequesterOK(t)'
    BY <1>1, <1>2, <1>3 DEF ThreadIsAt, RequesterOK
  <1> QED BY <1>1, <1>3, <1>4, <1>5, <1>6, StaysAt, TaskStep

(* A step of t, between two calls, to another task. *)
LEMMA GoesToBook ==
    ASSUME TypeInv, BookInv, NEW t \in Threads, OthersStay(t), pc'[t] = "idle",
           batch' = batch, loading' = loading, requests' = requests,
           NEW s \in LoadTasks \cup {"initialize", "request", "close", "ended"},
           task' = [task EXCEPT ![t] = s], phase' \in {phase, "halted"},
           s # "load", task[t] # "load",
           task[t] \in {"close", "ended"} => s \in {"close", "ended"},
           s \in LoadTasks => t \in Loaders /\ phase' \in {"load", "halted"},
           s \in {"flushLinks", "flushCounts"} => batch > 0,
           s = "initialize" => task[t] = "initialize",
           s = "request" => t \in Requesters /\ phase' # "load",
           phase' = "load" /\ t \notin Loaders => s = "ended"
    PROVE  BookInv'
  <1>1. /\ at' = at /\ loadBuffer' = loadBuffer /\ countLoadBuffer' = countLoadBuffer
        /\ requestsDone' = requestsDone /\ errors' = errors
    BY DEF loading, requests
  <1>2. ThreadIsAt(t) /\ DOMAIN task = Threads
    BY DEF BookInv, BookTypes
  <1>3. task'[t] = s
    BY <1>2
  <1>4. TaskOK(t)'
    BY <1>2, <1>3 DEF ThreadIsAt, TaskOK
  <1>5. t \in Loaders => LoaderOK(t)'
    BY <1>1, <1>2, <1>3 DEF ThreadIsAt, LoaderOK
  <1>6. t \in Requesters => RequesterOK(t)'
    <2> SUFFICES ASSUME t \in Requesters PROVE RequesterOK(t)'
      OBVIOUS
    <2>1. requestsDone[t] \in Int /\ errors[t] \in Int
      BY DEF BookInv, BookTypes
    <2> QED BY <1>1, <1>2, <1>3, <2>1 DEF ThreadIsAt, RequesterOK
  <1> QED BY <1>4, <1>5, <1>6, StaysAt, TaskStep

LEMMA InitializeBook ==
    ASSUME TypeInv, BookInv, NEW t \in Threads,
           InitializeStore(t) \/ InitializeFails(t) \/ CloseStore(t)
    PROVE  BookInv'
  <1>1. ThreadIsAt(t) /\ task \in [Threads -> LoadTasks \cup {"initialize", "request", "close", "ended"}]
        /\ phase \in {"load", "requests", "done", "halted"}
    BY DEF BookInv, BookTypes
  <1>2. CASE InitializeStore(t)
    <2> DEFINE s == IF phase = "load" THEN "take" ELSE "request"
    <2>1. /\ OthersStay(t) /\ pc'[t] = "idle" /\ task[t] = "initialize" /\ phase # "halted"
          /\ phase' = phase /\ batch' = batch /\ loading' = loading /\ requests' = requests
          /\ task' = [task EXCEPT ![t] = s]
      BY <1>2, InitializeStep DEF InitializeStore, Runs, AnyStepOK, Initialize, progress, GoesTo
    <2>2. /\ phase = "load" => t \in Loaders /\ s = "take"
          /\ phase # "load" => t \in Requesters /\ s = "request"
      BY <1>1, <2>1 DEF ThreadIsAt, TaskOK
    <2> HIDE DEF s
    <2>3. s \in LoadTasks \cup {"request"} /\ s \notin {"load", "initialize", "flushLinks", "flushCounts", "ended"}
          /\ (s \in LoadTasks => phase = "load") /\ (s = "request" => phase # "load")
      BY <2>2 DEF LoadTasks
    <2> QED BY <2>1, <2>2, <2>3, GoesToBook
  <1>3. CASE InitializeFails(t)
    <2>1. /\ pc' = pc /\ reply' = reply /\ call' = call /\ local' = local /\ task' = task
          /\ phase' = "halted" /\ batch' = batch /\ loading' = loading /\ requests' = requests
          /\ task[t] = "initialize" /\ pc[t] = "idle"
      BY <1>3 DEF InitializeFails, Runs, progress
    <2>2. OthersStay(t) /\ task' = [task EXCEPT ![t] = "initialize"]
      BY <1>1, <2>1 DEF OthersStay
    <2>3. "initialize" \notin LoadTasks
      BY DEF LoadTasks
    <2> QED BY <2>1, <2>2, <2>3, GoesToBook
  <1>4. CASE CloseStore(t)
    <2>1. /\ OthersStay(t) /\ pc'[t] = "idle" /\ task[t] = "close"
          /\ phase' = phase /\ batch' = batch /\ loading' = loading /\ requests' = requests
          /\ task' = [task EXCEPT ![t] = "ended"]
      BY <1>4, CloseStep DEF CloseStore, Runs, AnyStepOK, GoesTo
    <2>2. "ended" \notin LoadTasks
      BY DEF LoadTasks
    <2> QED BY <2>1, <2>2, GoesToBook
  <1> QED BY <1>2, <1>3, <1>4

LEMMA DoneFacts ==
    ASSUME BookInv, NEW t \in Requesters, Done(t), requestsDone[t] < NumRequests
    PROVE  /\ requestsDone' \in [Requesters -> 0 .. NumRequests]
           /\ requestsDone'[t] = requestsDone[t] + 1
           /\ \A u \in Requesters \ {t} : requestsDone'[u] = requestsDone[u]
           /\ \E s \in {"close", "request"} : GoesTo(t, s)
  <1>1. requestsDone \in [Requesters -> 0 .. NumRequests] /\ NumRequests \in Nat
    BY BenchAssumption DEF BookInv, BookTypes
  <1>2. requestsDone' = [requestsDone EXCEPT ![t] = @ + 1]
    BY DEF Done
  <1>3. requestsDone[t] + 1 \in 0 .. NumRequests
    BY <1>1
  <1>4. \E s \in {"close", "request"} : GoesTo(t, s)
    BY DEF Done
  <1> QED BY <1>1, <1>2, <1>3, <1>4

(* A request of t is over. *)
LEMMA RequestOver ==
    ASSUME TypeInv, BookInv, NEW t \in Threads, task[t] = "request", phase # "halted",
           pc[t] # "idle", pc'[t] = "idle", OthersStay(t),
           phase' = phase, batch' = batch, loading' = loading, timeup' = timeup,
           \/ Done(t) /\ (errors' = errors \/ errors' = [errors EXCEPT ![t] = @ + 1])
           \/ /\ GoesTo(t, "close") /\ requestsDone' = requestsDone
              /\ errors' = [errors EXCEPT ![t] = @ + 1]
    PROVE  BookInv'
  <1>1. ThreadIsAt(t) /\ t \in Requesters /\ requestsDone[t] < NumRequests /\ RequesterOK(t)
    BY DEF BookInv, ThreadIsAt, TaskOK, RequesterOK
  <1>2. /\ task \in [Threads -> LoadTasks \cup {"initialize", "request", "close", "ended"}]
        /\ requestsDone \in [Requesters -> 0 .. NumRequests] /\ errors \in [Requesters -> Nat]
        /\ NumRequests \in Nat
    BY BenchAssumption DEF BookInv, BookTypes
  <1>3. /\ requestsDone' \in [Requesters -> 0 .. NumRequests]
        /\ \A u \in Requesters \ {t} : requestsDone'[u] = requestsDone[u]
        /\ requestsDone'[t] \in {requestsDone[t], requestsDone[t] + 1}
        /\ \E s \in {"close", "request"} : GoesTo(t, s)
    BY <1>1, <1>2, DoneFacts
  <1>4. PICK s \in {"close", "request"} : GoesTo(t, s)
    BY <1>3
  <1>5. task' = [task EXCEPT ![t] = s] /\ task'[t] = s
    BY <1>2, <1>4 DEF GoesTo
  <1>6. /\ errors' \in [Requesters -> Nat] /\ errors'[t] \in {errors[t], errors[t] + 1}
        /\ \A u \in Requesters \ {t} : errors'[u] = errors[u]
    <2>1. errors[t] + 1 \in Nat
      BY <1>1, <1>2
    <2> QED BY <1>1, <1>2, <2>1
  <1>7. errors'[t] <= requestsDone'[t] + (IF s = "close" THEN 1 ELSE 0)
    <2>1. errors[t] <= requestsDone[t] /\ errors[t] \in Int /\ requestsDone[t] \in Int
      BY <1>1, <1>2 DEF RequesterOK
    <2>2. CASE Done(t)
      BY <1>1, <1>6, <2>1, <2>2, DoneFacts
    <2>3. CASE GoesTo(t, "close") /\ requestsDone' = requestsDone
      <3>1. s = "close"
        BY <1>2, <1>4, <2>3 DEF GoesTo
      <3> QED BY <1>6, <2>1, <2>3, <3>1
    <2> QED BY <2>2, <2>3
  <1>8. phase # "load"
    BY <1>1 DEF ThreadIsAt, TaskOK
  <1>9. TaskOK(t)'
    BY <1>1, <1>5, <1>8 DEF TaskOK, LoadTasks
  <1>10. RequesterOK(t)'
    BY <1>5, <1>7, <1>8 DEF RequesterOK
  <1>11. t \in Loaders => LoaderOK(t)'
    BY <1>1, <1>5 DEF ThreadIsAt, LoaderOK, loading
  <1> QED BY <1>3, <1>5, <1>6, <1>9, <1>10, <1>11, TaskStep

LEMMA RequesterBook ==
    ASSUME TypeInv, BookInv, NEW t \in Threads, Requester(t)
    PROVE  BookInv'
  <1>1. CASE Request(t)
    <2>1. PICK c \in Calls : Call(t, c)
      BY <1>1 DEF Request
    <2>2. CallType(c)
      BY StoreAssumption DEF CallType
    <2>3. OthersStay(t) /\ call'[t] = c /\ pc'[t] # "idle"
      BY <2>1, <2>2, CallStep DEF AnyStepOK
    <2>4. /\ task[t] = "request" /\ requestsDone[t] < NumRequests
          /\ phase' = phase /\ batch' = batch /\ task' = task
          /\ loading' = loading /\ requests' = requests
      BY <1>1 DEF Request, Runs
    <2>5. ThreadIsAt(t)
      BY DEF BookInv
    <2>6. TaskOK(t)'
      BY <2>3, <2>4, <2>5 DEF ThreadIsAt, TaskOK, LoadTasks
    <2>7. t \in Loaders => LoaderOK(t)'
      BY <2>4, <2>5 DEF ThreadIsAt, LoaderOK, loading
    <2>8. t \in Requesters => RequesterOK(t)'
      BY <2>4, <2>5 DEF ThreadIsAt, RequesterOK, requests
    <2> QED BY <2>3, <2>4, <2>6, <2>7, <2>8, StaysAt, TaskStep
  <1>2. CASE Served(t)
    <2>1. OthersStay(t) /\ pc'[t] = "idle" /\ pc[t] = "returned"
      BY <1>2, TakeReplyStep DEF Served, AnyStepOK, TakeReply
    <2>2. /\ task[t] = "request" /\ phase # "halted" /\ phase' = phase /\ batch' = batch
          /\ loading' = loading /\ timeup' = timeup /\ Done(t) /\ errors' = errors
      BY <1>2 DEF Served
    <2> QED BY <2>1, <2>2, RequestOver
  <1>3. CASE Failed(t)
    <2>1. OthersStay(t) /\ pc'[t] = "idle" /\ pc[t] = "returned"
      BY <1>3, ClearErrorsStep DEF Failed, AnyStepOK, ClearErrors
    <2>2. /\ task[t] = "request" /\ phase # "halted" /\ phase' = phase /\ batch' = batch
          /\ loading' = loading /\ timeup' = timeup
          /\ errors' = [errors EXCEPT ![t] = @ + 1]
          /\ Done(t) \/ (GoesTo(t, "close") /\ requestsDone' = requestsDone)
      BY <1>3 DEF Failed
    <2> QED BY <2>1, <2>2, RequestOver
  <1>4. CASE RequestsOver(t)
    <2>1. /\ task[t] = "request" /\ pc[t] = "idle" /\ pc' = pc /\ reply' = reply
          /\ call' = call /\ local' = local /\ phase' = phase /\ batch' = batch
          /\ loading' = loading /\ requests' = requests /\ task' = [task EXCEPT ![t] = "close"]
      BY <1>4 DEF RequestsOver, Runs, storevars, progress, GoesTo
    <2>2. OthersStay(t) /\ "close" \notin LoadTasks
      BY <2>1 DEF OthersStay, LoadTasks
    <2>3. phase # "load"
      BY <2>1 DEF BookInv, ThreadIsAt, TaskOK
    <2> QED BY <2>1, <2>2, <2>3, GoesToBook
  <1> QED BY <1>1, <1>2, <1>3, <1>4 DEF Requester

LEMMA DriverBook ==
    ASSUME TypeInv, BookInv, SendRequests \/ Complete \/ TimeUp \/ Over \/ UNCHANGED vars
    PROVE  BookInv'
  <1>1. /\ batch' = batch /\ chunk_q' = chunk_q /\ at' = at /\ loadBuffer' = loadBuffer
        /\ countLoadBuffer' = countLoadBuffer /\ linksloaded' = linksloaded
        /\ requestsDone' = requestsDone /\ errors' = errors /\ pc' = pc /\ call' = call
        /\ timeup' \in BOOLEAN
    <2>1. loading' = loading /\ batch' = batch /\ pc' = pc /\ call' = call
      BY DEF SendRequests, Complete, TimeUp, Over, vars, storevars, progress
    <2>2. requestsDone' = requestsDone /\ errors' = errors /\ timeup' \in BOOLEAN
      BY DEF SendRequests, Complete, TimeUp, Over, vars, requests, BookInv, BookTypes
    <2> QED BY <2>1, <2>2 DEF loading
  <1>2. SpansDiffer'
    BY <1>1 DEF BookInv, SpansDiffer, Rest
  <1>3. CASE SendRequests
    <2>1. /\ phase = "load" /\ phase' = "requests" /\ \A t \in Loaders : task[t] = "ended"
          /\ task' = [t \in Threads |-> IF t \in Requesters THEN "initialize" ELSE "ended"]
      BY <1>3 DEF SendRequests, AllEnded
    <2>2. ASSUME NEW t \in Threads PROVE ThreadIsAt(t)'
      <3>1. ThreadIsAt(t)
        BY DEF BookInv
      <3>2. task[t] = "ended" /\ pc[t] = "idle"
        BY <2>1, <3>1 DEF ThreadIsAt, TaskOK
      <3>3. task'[t] = IF t \in Requesters THEN "initialize" ELSE "ended"
        BY <2>1
      <3>4. TaskOK(t)'
        BY <1>1, <2>1, <3>2, <3>3 DEF TaskOK, LoadTasks
      <3>5. t \in Loaders => LoaderOK(t)'
        BY <1>1, <3>1, <3>2, <3>3 DEF ThreadIsAt, LoaderOK
      <3>6. t \in Requesters => RequesterOK(t)'
        <4> SUFFICES ASSUME t \in Requesters PROVE RequesterOK(t)'
          OBVIOUS
        <4>1. requestsDone[t] = 0 /\ errors[t] = 0
          BY <2>1, <3>1 DEF ThreadIsAt, RequesterOK
        <4> QED BY <1>1, <2>1, <3>3, <4>1 DEF RequesterOK
      <3> QED BY <3>4, <3>5, <3>6 DEF ThreadIsAt
    <2>3. BookTypes'
      BY <1>1, <2>1 DEF BookInv, BookTypes
    <2> QED BY <1>2, <2>2, <2>3 DEF BookInv
  <1>4. CASE Complete \/ TimeUp \/ Over \/ UNCHANGED vars
    <2>1. task' = task /\ (phase' = phase \/ (phase = "requests" /\ phase' = "done"))
      BY <1>4 DEF Complete, TimeUp, Over, vars
    <2>2. ASSUME NEW t \in Threads PROVE ThreadIsAt(t)'
      <3>1. ThreadIsAt(t)
        BY DEF BookInv
      <3>2. TaskOK(t)'
        BY <1>1, <2>1, <3>1 DEF ThreadIsAt, TaskOK, LoadCall
      <3>3. t \in Loaders => LoaderOK(t)'
        BY <1>1, <2>1, <3>1 DEF ThreadIsAt, LoaderOK
      <3>4. t \in Requesters => RequesterOK(t)'
        BY <1>1, <2>1, <3>1 DEF ThreadIsAt, RequesterOK
      <3> QED BY <3>2, <3>3, <3>4 DEF ThreadIsAt
    <2>3. BookTypes'
      BY <1>1, <2>1 DEF BookInv, BookTypes
    <2> QED BY <1>2, <2>2, <2>3 DEF BookInv
  <1> QED BY <1>3, <1>4

LEMMA LoadCallIs ==
    ASSUME NEW t, LoadCall(t)
    PROVE  \/ /\ batch = 0 /\ call[t].op = "addLink" /\ call[t].visibility = "DEFAULT"
              /\ call[t].link \in Links
           \/ /\ batch # 0 /\ call[t].op = "addBulkLinks" /\ call[t].links = loadBuffer[t]
           \/ /\ batch # 0 /\ call[t].op = "addBulkCounts"
              /\ call[t].counts = LinkCounts(countLoadBuffer[t])
              /\ DOMAIN call[t].counts = countLoadBuffer[t]
  <1>1. CASE batch = 0
    <2>1. PICK l \in Links : call[t] = AddLink(l, "DEFAULT", LoadData)
      BY <1>1 DEF LoadCall
    <2>2. call[t].op = "addLink" /\ call[t].visibility = "DEFAULT" /\ call[t].link = l
      BY <2>1 DEF AddLink
    <2> QED BY <1>1, <2>2
  <1>2. CASE batch # 0 /\ call[t] = AddBulkLinks(loadBuffer[t], LoadData)
    BY <1>2 DEF AddBulkLinks
  <1>3. CASE batch # 0 /\ call[t] = AddBulkCounts(LinkCounts(countLoadBuffer[t]))
    <2>1. DOMAIN LinkCounts(countLoadBuffer[t]) = countLoadBuffer[t]
      BY DEF LinkCounts
    <2> QED BY <1>3, <2>1 DEF AddBulkCounts
  <1> QED BY <1>1, <1>2, <1>3 DEF LoadCall

(* The loader that makes a call is at its end or starts it.                *)
LEMMA FlushBook ==
    ASSUME TypeInv, BookInv, NEW t \in Threads, FlushLinks(t) \/ FlushCounts(t)
    PROVE  BookInv'
  <1>1. /\ task[t] \in {"flushLinks", "flushCounts"}
        /\ phase' = phase /\ batch' = batch /\ loading' = loading /\ requests' = requests
        /\ \E s \in {"flushCounts", "close"} : GoesTo(t, s)
        /\ \E c \in {AddBulkLinks(loadBuffer[t], LoadData),
                     AddBulkCounts(LinkCounts(countLoadBuffer[t]))} : Call(t, c)
    BY DEF FlushLinks, FlushCounts, Runs
  <1>2. ThreadIsAt(t) /\ t \in Loaders /\ batch > 0 /\ phase \in {"load", "halted"}
    BY <1>1 DEF BookInv, ThreadIsAt, TaskOK, LoadTasks
  <1>3. /\ loadBuffer[t] \in SUBSET Links /\ countLoadBuffer[t] \in SUBSET Id1s
        /\ DOMAIN task = Threads /\ batch # 0
    BY <1>2 DEF BookInv, BookTypes
  <1>4. PICK s \in {"flushCounts", "close"} : GoesTo(t, s)
    BY <1>1
  <1>5. PICK c \in {AddBulkLinks(loadBuffer[t], LoadData),
                    AddBulkCounts(LinkCounts(countLoadBuffer[t]))} : Call(t, c)
    BY <1>1
  <1>6. CallType(c)
    BY <1>3, LoadCallTypes
  <1>7. OthersStay(t) /\ call'[t] = c
    BY <1>5, <1>6, CallStep DEF AnyStepOK
  <1>8. task' = [task EXCEPT ![t] = s] /\ task'[t] = s
    BY <1>3, <1>4 DEF GoesTo
  <1>9. LoadCall(t)'
    BY <1>1, <1>3, <1>7 DEF LoadCall, loading
  <1>10. TaskOK(t)'
    BY <1>1, <1>2, <1>8, <1>9 DEF TaskOK, LoadTasks
  <1>11. LoaderOK(t)'
    BY <1>1, <1>2, <1>8 DEF ThreadIsAt, LoaderOK, loading
  <1>12. t \in Requesters => RequesterOK(t)'
    <2> SUFFICES ASSUME t \in Requesters PROVE RequesterOK(t)'
      OBVIOUS
    <2>1. requestsDone[t] \in Int /\ errors[t] \in Int
      BY DEF BookInv, BookTypes
    <2> QED BY <1>1, <1>2, <1>8, <2>1 DEF ThreadIsAt, RequesterOK, requests
  <1>13. s \in LoadTasks \cup {"initialize", "request", "close", "ended"}
    BY DEF LoadTasks
  <1> QED BY <1>1, <1>2, <1>7, <1>8, <1>10, <1>11, <1>12, <1>13, StaysAt, TaskStep

LEMMA ReturnBook ==
    ASSUME TypeInv, BookInv, NEW t \in Threads, LoadCallDone(t) \/ LoadCallFailed(t)
    PROVE  /\ BookInv' /\ t \in Loaders /\ LoadCall(t) /\ task[t] # "request" /\ pc[t] = "returned"
           /\ phase \in {"load", "halted"}
  <1>1. OthersStay(t) /\ pc'[t] = "idle" /\ pc[t] = "returned"
    BY TakeReplyStep, ClearErrorsStep DEF LoadCallDone, LoadCallFailed, AnyStepOK, TakeReply,
       ClearErrors
  <1>2. /\ task[t] # "request" /\ phase' = phase /\ batch' = batch /\ task' = task
        /\ chunk_q' = chunk_q /\ at' = at /\ requests' = requests
    BY DEF LoadCallDone, LoadCallFailed, loading
  <1>3. t \in Loaders /\ LoadCall(t) /\ ThreadIsAt(t) /\ phase \in {"load", "halted"}
    BY <1>1, <1>2 DEF BookInv, ThreadIsAt, TaskOK
  <1>4. /\ loadBuffer' \in [Loaders -> SUBSET Links] /\ countLoadBuffer' \in [Loaders -> SUBSET Id1s]
        /\ linksloaded' \in [Loaders -> Nat]
        /\ \A u \in Threads \ {t} :
             u \in Loaders => loadBuffer'[u] = loadBuffer[u] /\ countLoadBuffer'[u] = countLoadBuffer[u]
        /\ loadBuffer'[t] \in {loadBuffer[t], {}} /\ countLoadBuffer'[t] \in {countLoadBuffer[t], {}}
    <2>1. CASE LoadCallFailed(t)
      BY <1>3, <2>1 DEF LoadCallFailed, loading, BookInv, BookTypes
    <2>2. CASE LoadCallDone(t)
      <3>1. call[t].op = "addBulkLinks" => Cardinality(call[t].links) \in Nat
        <4> SUFFICES ASSUME call[t].op = "addBulkLinks" PROVE Cardinality(call[t].links) \in Nat
          OBVIOUS
        <4>1. call[t].links = loadBuffer[t] /\ batch # 0
          BY <1>3, LoadCallIs
        <4>2. loadBuffer[t] \subseteq Links
          BY <1>3 DEF BookInv, BookTypes
        <4>3. IsFiniteSet(Links)
          <5>1. IsFiniteSet(Id1s)
            BY GraphFacts, FS_Interval
          <5> QED BY <5>1, StoreAssumption, FS_Product DEF Links
        <4> QED BY <4>1, <4>2, <4>3, FS_Subset, FS_CardinalityType
      <3>2. linksloaded \in [Loaders -> Nat] /\ linksloaded[t] \in Nat
        BY <1>3 DEF BookInv, BookTypes
      <3>3. \/ linksloaded' = linksloaded
            \/ linksloaded' = [linksloaded EXCEPT ![t] = @ + 1]
            \/ /\ call[t].op = "addBulkLinks"
               /\ linksloaded' = [linksloaded EXCEPT ![t] = @ + Cardinality(call[t].links)]
        BY <2>2 DEF LoadCallDone
      <3>4. linksloaded' \in [Loaders -> Nat]
        <4>1. CASE linksloaded' = [linksloaded EXCEPT ![t] = @ + 1]
          <5>1. linksloaded[t] + 1 \in Nat
            BY <3>2
          <5> QED BY <3>2, <4>1, <5>1
        <4>2. CASE /\ call[t].op = "addBulkLinks"
                   /\ linksloaded' = [linksloaded EXCEPT ![t] = @ + Cardinality(call[t].links)]
          <5>1. linksloaded[t] + Cardinality(call[t].links) \in Nat
            BY <3>1, <3>2, <4>2
          <5> QED BY <3>2, <4>2, <5>1
        <4> QED BY <3>2, <3>3, <4>1, <4>2
      <3>5. /\ loadBuffer' \in {loadBuffer, [loadBuffer EXCEPT ![t] = {}]}
            /\ countLoadBuffer' \in {countLoadBuffer, [countLoadBuffer EXCEPT ![t] = {}]}
        BY <2>2 DEF LoadCallDone
      <3> QED BY <1>3, <3>4, <3>5 DEF BookInv, BookTypes
    <2> QED BY <2>1, <2>2
  <1>5. BookTypes'
    BY <1>2, <1>4 DEF BookInv, BookTypes, requests
  <1>6. SpansDiffer'
    BY <1>2 DEF BookInv, SpansDiffer, Rest
  <1>7. BookMoves(t)
    BY <1>1, <1>2, <1>4 DEF BookMoves, requests
  <1>8. TaskOK(t)'
    BY <1>1, <1>2, <1>3 DEF ThreadIsAt, TaskOK
  <1>9. LoaderOK(t)'
    BY <1>2, <1>3, <1>4 DEF ThreadIsAt, LoaderOK
  <1>10. t \in Requesters => RequesterOK(t)'
    BY <1>1, <1>2, <1>3 DEF ThreadIsAt, RequesterOK, requests
  <1> QED BY <1>1, <1>2, <1>3, <1>5, <1>6, <1>7, <1>8, <1>9, <1>10, BookStep DEF ThreadIsAt

(* While loaders only go on in their chunks, these stay apart. *)
LEMMA RestShrinks ==
    ASSUME SpansDiffer, chunk_q' = chunk_q, \A u \in Loaders : Rest(u)' \subseteq Rest(u)
    PROVE  SpansDiffer'
  <1>1. ASSUME NEW i \in DOMAIN chunk_q, NEW t \in Loaders, chunk_q[i] # Null
        PROVE  Span(chunk_q[i]) \cap Rest(t)' = {}
    <2>1. Span(chunk_q[i]) \cap Rest(t) = {} /\ Rest(t)' \subseteq Rest(t)
      BY <1>1 DEF SpansDiffer
    <2> QED BY <2>1
  <1>2. ASSUME NEW t \in Loaders, NEW u \in Loaders, t # u
        PROVE  Rest(t)' \cap Rest(u)' = {}
    <2>1. Rest(t) \cap Rest(u) = {} /\ Rest(t)' \subseteq Rest(t) /\ Rest(u)' \subseteq Rest(u)
      BY <1>2 DEF SpansDiffer
    <2> QED BY <2>1
  <1> QED BY <1>1, <1>2 DEF SpansDiffer

(* What CreateLink does to the loader. *)
LEMMA CreateLinkFacts ==
    ASSUME BookInv, NEW t \in Threads, CreateLink(t)
    PROVE  /\ task[t] = "load" /\ t \in Loaders /\ at[t].made < NLinks[at[t].id1]
           /\ <<at[t].id1, at[t].made>> \in Links
           /\ at' \in [Loaders -> AtType] /\ \A u \in Loaders \ {t} : at'[u] = at[u]
           /\ at'[t].id1 = at[t].id1 /\ at'[t].end = at[t].end /\ at'[t].made = at[t].made + 1
           /\ loadBuffer' \in [Loaders -> SUBSET Links]
           /\ \A u \in Loaders \ {t} : loadBuffer'[u] = loadBuffer[u]
           /\ batch = 0 => loadBuffer' = loadBuffer
           /\ batch # 0 => loadBuffer'[t] = loadBuffer[t] \cup {<<at[t].id1, at[t].made>>}
  <1> DEFINE l == <<at[t].id1, at[t].made>>
  <1>1. /\ task[t] = "load" /\ at[t].made < NLinks[at[t].id1]
        /\ at' = [at EXCEPT ![t].made = @ + 1]
        /\ loadBuffer' = IF batch = 0 THEN loadBuffer
                         ELSE [loadBuffer EXCEPT ![t] = loadBuffer[t] \cup {l}]
    BY DEF CreateLink, Runs
  <1>2. /\ t \in Loaders /\ l \in Links /\ at[t] \in AtType /\ at[t].made + 1 \in Nat
        /\ at \in [Loaders -> AtType] /\ loadBuffer \in [Loaders -> SUBSET Links]
    BY <1>1, LoaderFacts, NextLink DEF BookInv, BookTypes
  <1>3. /\ at' \in [Loaders -> AtType] /\ \A u \in Loaders \ {t} : at'[u] = at[u]
        /\ at'[t].id1 = at[t].id1 /\ at'[t].end = at[t].end /\ at'[t].made = at[t].made + 1
    <2> DEFINE new == [at[t] EXCEPT !.made = at[t].made + 1]
    <2>1. new \in AtType /\ new.id1 = at[t].id1 /\ new.end = at[t].end /\ new.made = at[t].made + 1
      BY <1>2 DEF AtType
    <2>2. at' = [at EXCEPT ![t] = new]
      BY <1>1
    <2> HIDE DEF new
    <2> QED BY <1>2, <2>1, <2>2
  <1> HIDE DEF l
  <1>4. /\ loadBuffer' \in [Loaders -> SUBSET Links]
        /\ \A u \in Loaders \ {t} : loadBuffer'[u] = loadBuffer[u]
        /\ batch = 0 => loadBuffer' = loadBuffer
        /\ batch # 0 => loadBuffer'[t] = loadBuffer[t] \cup {l}
    BY <1>1, <1>2
  <1> QED BY <1>1, <1>2, <1>3, <1>4 DEF l

LEMMA CreateLinkBook ==
    ASSUME TypeInv, BookInv, NEW t \in Threads, CreateLink(t)
    PROVE  BookInv'
  <1> DEFINE l == <<at[t].id1, at[t].made>>
             c == IF batch = 0 THEN AddLink(l, "DEFAULT", LoadData)
                  ELSE AddBulkLinks(loadBuffer'[t], LoadData)
  <1>1. /\ task[t] = "load" /\ t \in Loaders /\ at[t].made < NLinks[at[t].id1] /\ l \in Links
        /\ at' \in [Loaders -> AtType] /\ \A u \in Loaders \ {t} : at'[u] = at[u]
        /\ at'[t].id1 = at[t].id1 /\ at'[t].end = at[t].end /\ at'[t].made = at[t].made + 1
        /\ loadBuffer' \in [Loaders -> SUBSET Links]
        /\ \A u \in Loaders \ {t} : loadBuffer'[u] = loadBuffer[u]
        /\ batch = 0 => loadBuffer' = loadBuffer
        /\ batch # 0 => loadBuffer'[t] = loadBuffer[t] \cup {l}
    BY CreateLinkFacts
  <1>2. /\ phase' = phase /\ batch' = batch /\ task' = task /\ chunk_q' = chunk_q
        /\ countLoadBuffer' = countLoadBuffer /\ linksloaded' = linksloaded
        /\ requests' = requests /\ pc[t] = "idle"
        /\ Call(t, c) \/ UNCHANGED storevars
    BY <1>1 DEF CreateLink, Runs
  <1>3. CallType(c)
    <2>1. loadBuffer'[t] \in SUBSET Links
      BY <1>1
    <2> QED BY <1>1, <2>1, LoadCallTypes
  <1>4. OthersStay(t) /\ (pc'[t] = "idle" \/ call'[t] = c)
    <2>1. CASE Call(t, c)
      BY <1>3, <2>1, CallStep DEF AnyStepOK
    <2>2. CASE UNCHANGED storevars
      BY <1>2, <2>2 DEF storevars, progress, OthersStay
    <2> QED BY <1>2, <2>1, <2>2
  <1>5. ThreadIsAt(t)
    BY DEF BookInv
  <1>6. call'[t] = c => LoadCall(t)'
    BY <1>1, <1>2 DEF LoadCall
  <1> HIDE DEF l, c
  <1>7. TaskOK(t)'
    BY <1>1, <1>2, <1>4, <1>5, <1>6 DEF ThreadIsAt, TaskOK, LoadTasks
  <1>8. LoaderOK(t)'
    BY <1>1, <1>2, <1>5, LoaderFacts DEF ThreadIsAt, LoaderOK
  <1>9. t \in Requesters => RequesterOK(t)'
    BY <1>1, <1>2, <1>5 DEF ThreadIsAt, RequesterOK, requests
  <1>10. SpansDiffer'
    <2>1. \A u \in Loaders : Rest(u)' = Rest(u)
      BY <1>1 DEF Rest
    <2> QED BY <1>2, <2>1, RestShrinks DEF BookInv
  <1>11. BookTypes'
    BY <1>1, <1>2 DEF BookInv, BookTypes, requests
  <1>12. BookMoves(t)
    BY <1>1, <1>2, <1>4 DEF BookMoves, requests
  <1> QED BY <1>1, <1>7, <1>8, <1>9, <1>10, <1>11, <1>12, BookStep DEF ThreadIsAt

(* What CountLinks does to the loader. *)
LEMMA CountLinksFacts ==
    ASSUME BookInv, NEW t \in Threads, CountLinks(t)
    PROVE  /\ task[t] = "load" /\ t \in Loaders /\ at[t].made = NLinks[at[t].id1]
           /\ at' \in [Loaders -> AtType] /\ \A u \in Loaders \ {t} : at'[u] = at[u]
           /\ \/ /\ at[t].id1 + 1 < at[t].end /\ at[t].id1 + 1 \in Id1s /\ task' = task
                 /\ at'[t].id1 = at[t].id1 + 1 /\ at'[t].end = at[t].end /\ at'[t].made = 0
              \/ /\ at[t].id1 + 1 >= at[t].end /\ at'[t] = NotLoading
                 /\ task' = [task EXCEPT ![t] = "take"]
           /\ countLoadBuffer' \in [Loaders -> SUBSET Id1s]
           /\ \A u \in Loaders \ {t} : countLoadBuffer'[u] = countLoadBuffer[u]
           /\ countLoadBuffer'[t] = IF batch > 0 /\ NLinks[at[t].id1] > 0
                                    THEN countLoadBuffer[t] \cup {at[t].id1}
                                    ELSE countLoadBuffer[t]
           /\ UNCHANGED storevars \/ (batch > 0 /\ Call(t, AddBulkCounts(LinkCounts(countLoadBuffer'[t]))))
  <1> DEFINE k == at[t].id1
             b == IF batch > 0 /\ NLinks[k] > 0 THEN countLoadBuffer[t] \cup {k}
                  ELSE countLoadBuffer[t]
  <1>1. /\ task[t] = "load" /\ at[t].made = NLinks[k]
        /\ IF k + 1 < at[t].end
           THEN at' = [at EXCEPT ![t].id1 = k + 1, ![t].made = 0] /\ UNCHANGED task
           ELSE at' = [at EXCEPT ![t] = NotLoading] /\ GoesTo(t, "take")
        /\ countLoadBuffer' = [countLoadBuffer EXCEPT ![t] = b]
        /\ UNCHANGED storevars \/ (batch > 0 /\ Call(t, AddBulkCounts(LinkCounts(b))))
    BY DEF CountLinks, Runs
  <1>2. /\ t \in Loaders /\ at[t] \in AtType /\ k \in Id1s /\ k \in Int /\ k >= StartId
        /\ at[t].end \in Int /\ at[t].end <= EndId /\ StartId \in Int /\ EndId \in Int
        /\ at \in [Loaders -> AtType] /\ countLoadBuffer \in [Loaders -> SUBSET Id1s]
        /\ Id1s = StartId .. EndId - 1 /\ StartId < EndId
    BY <1>1, LoaderFacts, GraphFacts DEF BookInv, BookTypes
  <1> HIDE DEF k, StartId, EndId
  <1>3. /\ at' \in [Loaders -> AtType] /\ \A u \in Loaders \ {t} : at'[u] = at[u]
        /\ \/ /\ k + 1 < at[t].end /\ k + 1 \in Id1s /\ task' = task
              /\ at'[t].id1 = k + 1 /\ at'[t].end = at[t].end /\ at'[t].made = 0
           \/ /\ k + 1 >= at[t].end /\ at'[t] = NotLoading
              /\ task' = [task EXCEPT ![t] = "take"]
    <2>1. CASE k + 1 < at[t].end
      <3> DEFINE new == [at[t] EXCEPT !.id1 = k + 1, !.made = 0]
      <3>1. k + 1 \in StartId .. EndId /\ k + 1 \in Id1s
        BY <1>2, <2>1
      <3>2. new \in AtType /\ new.id1 = k + 1 /\ new.end = at[t].end /\ new.made = 0
        BY <1>2, <3>1 DEF AtType
      <3>3. at' = [at EXCEPT ![t] = new] /\ task' = task
        BY <1>1, <2>1
      <3> HIDE DEF new
      <3> QED BY <1>2, <2>1, <3>1, <3>2, <3>3
    <2>2. CASE ~(k + 1 < at[t].end)
      <3>1. NotLoading \in AtType
        BY <1>2 DEF NotLoading, AtType
      <3>2. at' = [at EXCEPT ![t] = NotLoading] /\ task' = [task EXCEPT ![t] = "take"]
        BY <1>1, <2>2 DEF GoesTo
      <3> QED BY <1>2, <2>2, <3>1, <3>2
    <2> QED BY <2>1, <2>2
  <1>4. b \in SUBSET Id1s
    BY <1>2
  <1> HIDE DEF b
  <1>5. /\ countLoadBuffer' \in [Loaders -> SUBSET Id1s] /\ countLoadBuffer'[t] = b
        /\ \A u \in Loaders \ {t} : countLoadBuffer'[u] = countLoadBuffer[u]
    BY <1>1, <1>2, <1>4
  <1> QED BY <1>1, <1>2, <1>3, <1>5 DEF k, b

LEMMA CountLinksBook ==
    ASSUME TypeInv, BookInv, NEW t \in Threads, CountLinks(t)
    PROVE  BookInv'
  <1> DEFINE c == AddBulkCounts(LinkCounts(countLoadBuffer'[t]))
  <1>1. /\ task[t] = "load" /\ t \in Loaders /\ at[t].made = NLinks[at[t].id1]
        /\ at' \in [Loaders -> AtType] /\ \A u \in Loaders \ {t} : at'[u] = at[u]
        /\ \/ /\ at[t].id1 + 1 < at[t].end /\ at[t].id1 + 1 \in Id1s /\ task' = task
              /\ at'[t].id1 = at[t].id1 + 1 /\ at'[t].end = at[t].end /\ at'[t].made = 0
           \/ /\ at[t].id1 + 1 >= at[t].end /\ at'[t] = NotLoading
              /\ task' = [task EXCEPT ![t] = "take"]
        /\ countLoadBuffer' \in [Loaders -> SUBSET Id1s]
        /\ \A u \in Loaders \ {t} : countLoadBuffer'[u] = countLoadBuffer[u]
        /\ countLoadBuffer'[t] = IF batch > 0 /\ NLinks[at[t].id1] > 0
                                 THEN countLoadBuffer[t] \cup {at[t].id1}
                                 ELSE countLoadBuffer[t]
        /\ UNCHANGED storevars \/ (batch > 0 /\ Call(t, c))
    BY CountLinksFacts
  <1>2. /\ phase' = phase /\ batch' = batch /\ chunk_q' = chunk_q /\ loadBuffer' = loadBuffer
        /\ linksloaded' = linksloaded /\ requests' = requests /\ pc[t] = "idle"
    BY DEF CountLinks, Runs
  <1>3. CallType(c)
    <2>1. countLoadBuffer'[t] \in SUBSET Id1s
      BY <1>1
    <2> QED BY <2>1, LoadCallTypes
  <1>4. OthersStay(t) /\ (pc'[t] = "idle" \/ (call'[t] = c /\ batch > 0))
    <2>1. CASE batch > 0 /\ Call(t, c)
      BY <1>3, <2>1, CallStep DEF AnyStepOK
    <2>2. CASE UNCHANGED storevars
      BY <1>2, <2>2 DEF storevars, progress, OthersStay
    <2> QED BY <1>1, <2>1, <2>2
  <1>5. ThreadIsAt(t) /\ task \in [Threads -> LoadTasks \cup {"initialize", "request", "close", "ended"}]
    BY DEF BookInv, BookTypes
  <1>6. call'[t] = c /\ batch > 0 => LoadCall(t)'
    BY <1>1, <1>2 DEF LoadCall
  <1> HIDE DEF c
  <1>7. task'[t] \in {"take", "load"} /\ (task'[t] = "load" => task' = task)
    BY <1>1, <1>5
  <1>8. TaskOK(t)'
    BY <1>1, <1>2, <1>4, <1>5, <1>6, <1>7 DEF ThreadIsAt, TaskOK, LoadTasks
  <1>9. LoaderOK(t)'
    <2>1. CASE /\ at[t].id1 + 1 < at[t].end /\ at[t].id1 + 1 \in Id1s /\ task' = task
               /\ at'[t].id1 = at[t].id1 + 1 /\ at'[t].end = at[t].end /\ at'[t].made = 0
      <3>1. NLinks[at[t].id1 + 1] \in Nat
        BY <2>1, GraphFacts
      <3> QED BY <1>1, <1>2, <1>5, <2>1, <3>1 DEF ThreadIsAt, LoaderOK
    <2>2. CASE at'[t] = NotLoading /\ task' = [task EXCEPT ![t] = "take"]
      <3>1. task'[t] = "take" /\ batch' = batch
        BY <1>2, <1>5, <2>2
      <3>2. batch = 0 => loadBuffer'[t] = {} /\ countLoadBuffer'[t] = {}
        BY <1>1, <1>2, <1>5 DEF ThreadIsAt, LoaderOK
      <3> QED BY <2>2, <3>1, <3>2 DEF LoaderOK, NotLoading
    <2> QED BY <1>1, <2>1, <2>2
  <1>10. t \in Requesters => RequesterOK(t)'
    BY <1>1, <1>2, <1>5, <1>7 DEF ThreadIsAt, RequesterOK, requests
  <1>11. SpansDiffer'
    <2>1. at[t].id1 \in Int /\ at[t].end \in Int /\ EndId \in Int
      BY <1>1, LoaderFacts
    <2>2. Rest(t)' \subseteq Rest(t)
      <3>1. CASE at'[t] = NotLoading
        <4>1. Rest(t)' = EndId .. EndId - 1
          BY <3>1 DEF Rest, NotLoading
        <4> QED BY <2>1, <4>1
      <3>2. CASE at'[t].id1 = at[t].id1 + 1 /\ at'[t].end = at[t].end
        <4>1. Rest(t)' = at[t].id1 + 1 .. at[t].end - 1
          BY <3>2 DEF Rest
        <4>2. Rest(t) = at[t].id1 .. at[t].end - 1
          BY DEF Rest
        <4>3. at[t].id1 + 1 .. at[t].end - 1 \subseteq at[t].id1 .. at[t].end - 1
          BY <2>1
        <4> QED BY <4>1, <4>2, <4>3
      <3> QED BY <1>1, <3>1, <3>2
    <2>3. \A u \in Loaders \ {t} : Rest(u)' = Rest(u)
      BY <1>1 DEF Rest
    <2> QED BY <1>2, <2>2, <2>3, RestShrinks DEF BookInv
  <1>12. BookTypes'
    <2>1. task' \in [Threads -> LoadTasks \cup {"initialize", "request", "close", "ended"}]
      BY <1>1, <1>5 DEF LoadTasks
    <2> QED BY <1>1, <1>2, <2>1 DEF BookInv, BookTypes, requests
  <1>13. BookMoves(t)
    <2>1. \A u \in Threads \ {t} : task'[u] = task[u]
      BY <1>1, <1>5
    <2> QED BY <1>1, <1>2, <1>4, <2>1 DEF BookMoves, requests
  <1> QED BY <1>1, <1>8, <1>9, <1>10, <1>11, <1>12, <1>13, BookStep DEF ThreadIsAt

(* The rest of the queue. *)
LEMMA TailFacts ==
    ASSUME NEW S, NEW q \in Seq(S), q # <<>>
    PROVE  /\ Tail(q) \in Seq(S) /\ 1 \in DOMAIN q /\ Head(q) = q[1] /\ Head(q) \in S
           /\ \A i \in DOMAIN Tail(q) : i + 1 \in DOMAIN q /\ i + 1 # 1 /\ Tail(q)[i] = q[i + 1]
           /\ \A i \in DOMAIN q \ {1} : i - 1 \in DOMAIN Tail(q) /\ Tail(q)[i - 1] = q[i]
           /\ \A i, j \in DOMAIN Tail(q) : i # j => i + 1 # j + 1
  OBVIOUS

(* What TakeChunk does to the loader. *)
LEMMA TakeChunkFacts ==
    ASSUME BookInv, NEW t \in Threads, TakeChunk(t)
    PROVE  /\ task[t] = "take" /\ t \in Loaders /\ at[t] = NotLoading /\ chunk_q # <<>>
           /\ chunk_q' = Tail(chunk_q) /\ at' \in [Loaders -> AtType]
           /\ \A u \in Loaders \ {t} : at'[u] = at[u]
           /\ \/ /\ chunk_q[1] = Null /\ at' = at
                 /\ \E s \in {"flushLinks", "close"} :
                      task' = [task EXCEPT ![t] = s] /\ (s = "flushLinks" => batch > 0)
              \/ /\ chunk_q[1] \in ChunkType /\ task' = [task EXCEPT ![t] = "load"]
                 /\ at'[t].id1 = chunk_q[1].start /\ at'[t].end = chunk_q[1].end /\ at'[t].made = 0
  <1>1. /\ task[t] = "take" /\ chunk_q # <<>> /\ chunk_q' = Tail(chunk_q)
        /\ IF Head(chunk_q) = Null
           THEN GoesTo(t, IF batch > 0 THEN "flushLinks" ELSE "close") /\ at' = at
           ELSE /\ GoesTo(t, "load")
                /\ at' = [at EXCEPT ![t] = [id1 |-> Head(chunk_q).start, end |-> Head(chunk_q).end,
                                            made |-> 0]]
    BY DEF TakeChunk, Runs
  <1>2. t \in Loaders /\ LoaderOK(t) /\ chunk_q \in Seq(ChunkType \cup {Null}) /\ at \in [Loaders -> AtType]
    BY <1>1 DEF BookInv, ThreadIsAt, TaskOK, LoadTasks, BookTypes
  <1>3. at[t] = NotLoading
    BY <1>1, <1>2 DEF LoaderOK
  <1>4. Head(chunk_q) = chunk_q[1] /\ chunk_q[1] \in ChunkType \cup {Null}
    BY <1>1, <1>2, TailFacts
  <1>5. CASE chunk_q[1] = Null
    BY <1>1, <1>2, <1>3, <1>4, <1>5 DEF GoesTo
  <1>6. CASE chunk_q[1] # Null
    <2> DEFINE new == [id1 |-> chunk_q[1].start, end |-> chunk_q[1].end, made |-> 0]
    <2>1. /\ chunk_q[1] \in ChunkType /\ task' = [task EXCEPT ![t] = "load"]
          /\ at' = [at EXCEPT ![t] = new]
      BY <1>1, <1>4, <1>6 DEF GoesTo
    <2>2. new \in AtType
      <3>1. Id1s = StartId .. EndId - 1 /\ StartId \in Int /\ EndId \in Int
        BY GraphFacts
      <3>2. chunk_q[1].start \in Id1s /\ chunk_q[1].end \in StartId .. EndId
        BY <2>1 DEF ChunkType
      <3> HIDE DEF StartId, EndId
      <3> QED BY <3>1, <3>2 DEF AtType
    <2>3. new.id1 = chunk_q[1].start /\ new.end = chunk_q[1].end /\ new.made = 0
      OBVIOUS
    <2> HIDE DEF new
    <2>4. /\ at' \in [Loaders -> AtType] /\ at'[t] = new
          /\ \A u \in Loaders \ {t} : at'[u] = at[u]
      BY <1>2, <2>1, <2>2
    <2> QED BY <1>1, <1>2, <1>3, <2>1, <2>3, <2>4
  <1> QED BY <1>5, <1>6

LEMMA TakeChunkBook ==
    ASSUME TypeInv, BookInv, NEW t \in Threads, TakeChunk(t)
    PROVE  BookInv'
  <1>1. /\ task[t] = "take" /\ t \in Loaders /\ at[t] = NotLoading /\ chunk_q # <<>>
        /\ chunk_q' = Tail(chunk_q) /\ at' \in [Loaders -> AtType]
        /\ \A u \in Loaders \ {t} : at'[u] = at[u]
        /\ \/ /\ chunk_q[1] = Null /\ at' = at
              /\ \E s \in {"flushLinks", "close"} :
                   task' = [task EXCEPT ![t] = s] /\ (s = "flushLinks" => batch > 0)
           \/ /\ chunk_q[1] \in ChunkType /\ task' = [task EXCEPT ![t] = "load"]
              /\ at'[t].id1 = chunk_q[1].start /\ at'[t].end = chunk_q[1].end /\ at'[t].made = 0
    BY TakeChunkFacts
  <1>2. /\ phase' = phase /\ batch' = batch /\ loadBuffer' = loadBuffer
        /\ countLoadBuffer' = countLoadBuffer /\ linksloaded' = linksloaded
        /\ requests' = requests /\ pc[t] = "idle" /\ UNCHANGED storevars
    BY DEF TakeChunk, Runs
  <1>3. OthersStay(t) /\ pc'[t] = "idle"
    BY <1>2 DEF storevars, progress, OthersStay
  <1>4. /\ ThreadIsAt(t) /\ SpansDiffer /\ chunk_q \in Seq(ChunkType \cup {Null})
        /\ task \in [Threads -> LoadTasks \cup {"initialize", "request", "close", "ended"}]
    BY DEF BookInv, BookTypes
  <1>5. /\ chunk_q' \in Seq(ChunkType \cup {Null}) /\ 1 \in DOMAIN chunk_q
        /\ \A i \in DOMAIN chunk_q' : i + 1 \in DOMAIN chunk_q /\ i + 1 # 1 /\ chunk_q'[i] = chunk_q[i + 1]
        /\ \A i, j \in DOMAIN chunk_q' : i # j => i + 1 # j + 1
    BY <1>1, <1>4, TailFacts
  <1>6. /\ task'[t] \in {"load", "flushLinks", "close"} /\ (task'[t] = "flushLinks" => batch > 0)
        /\ \A u \in Threads \ {t} : task'[u] = task[u]
        /\ task' \in [Threads -> LoadTasks \cup {"initialize", "request", "close", "ended"}]
        /\ task'[t] = "load" => chunk_q[1] # Null
        /\ task'[t] # "load" => at' = at
    <2>1. chunk_q[1] \in ChunkType => chunk_q[1] # Null
      BY GraphFacts
    <2> QED BY <1>1, <1>4, <2>1 DEF LoadTasks
  <1>7. TaskOK(t)'
    BY <1>1, <1>2, <1>3, <1>4, <1>6 DEF ThreadIsAt, TaskOK, LoadTasks
  <1>8. LoaderOK(t)'
    <2>1. CASE chunk_q[1] \in ChunkType /\ at'[t].id1 = chunk_q[1].start
               /\ at'[t].end = chunk_q[1].end /\ at'[t].made = 0 /\ task'[t] = "load"
      <3>1. chunk_q[1].start \in Id1s /\ chunk_q[1].start < chunk_q[1].end
        BY <2>1 DEF ChunkType
      <3>2. NLinks[chunk_q[1].start] \in Nat
        BY <3>1, GraphFacts
      <3> QED BY <1>1, <1>2, <1>4, <2>1, <3>1, <3>2 DEF ThreadIsAt, LoaderOK
    <2>2. CASE at' = at /\ task'[t] # "load"
      BY <1>1, <1>2, <1>4, <2>2 DEF ThreadIsAt, LoaderOK
    <2> QED BY <1>1, <1>4, <1>6, <2>1, <2>2
  <1>9. t \in Requesters => RequesterOK(t)'
    <2> SUFFICES ASSUME t \in Requesters PROVE RequesterOK(t)'
      OBVIOUS
    <2>1. requestsDone[t] \in Int /\ errors[t] \in Int
      BY DEF BookInv, BookTypes
    <2> QED BY <1>1, <1>2, <1>4, <1>6, <2>1 DEF ThreadIsAt, RequesterOK, requests
  <1>10. SpansDiffer'
    <2>1. Rest(t)' = {} \/ (chunk_q[1] # Null /\ Rest(t)' = Span(chunk_q[1]))
      <3>1. CASE task'[t] = "load"
        BY <1>1, <1>4, <1>6, <3>1 DEF Rest, Span
      <3>2. CASE task'[t] # "load"
        <4>1. at'[t] = NotLoading
          BY <1>1, <1>6, <3>2
        <4>2. Rest(t)' = EndId .. EndId - 1 /\ EndId \in Int
          BY <4>1, GraphFacts DEF Rest, NotLoading
        <4> QED BY <4>2
      <3> QED BY <3>1, <3>2
    <2>2. \A u \in Loaders \ {t} : Rest(u)' = Rest(u)
      BY <1>1 DEF Rest
    <2>3. ASSUME NEW i \in DOMAIN chunk_q', NEW j \in DOMAIN chunk_q',
                 i # j, chunk_q'[i] # Null, chunk_q'[j] # Null
          PROVE  Span(chunk_q'[i]) \cap Span(chunk_q'[j]) = {}
      BY <1>4, <1>5, <2>3 DEF SpansDiffer
    <2>4. ASSUME NEW i \in DOMAIN chunk_q', NEW u \in Loaders, chunk_q'[i] # Null
          PROVE  Span(chunk_q'[i]) \cap Rest(u)' = {}
      <3>1. i + 1 \in DOMAIN chunk_q /\ i + 1 # 1 /\ chunk_q'[i] = chunk_q[i + 1]
        BY <1>5
      <3>2. CASE u = t
        BY <1>4, <1>5, <2>1, <2>4, <3>1, <3>2 DEF SpansDiffer
      <3>3. CASE u # t
        BY <1>4, <2>2, <2>4, <3>1, <3>3 DEF SpansDiffer
      <3> QED BY <3>2, <3>3
    <2>5. ASSUME NEW u \in Loaders, NEW v \in Loaders, u # v
          PROVE  Rest(u)' \cap Rest(v)' = {}
      <3>1. CASE u = t
        BY <1>4, <1>5, <2>1, <2>2, <2>5, <3>1 DEF SpansDiffer
      <3>2. CASE v = t
        BY <1>4, <1>5, <2>1, <2>2, <2>5, <3>2 DEF SpansDiffer
      <3>3. CASE u # t /\ v # t
        BY <1>4, <2>2, <2>5, <3>3 DEF SpansDiffer
      <3> QED BY <3>1, <3>2, <3>3
    <2> QED BY <2>3, <2>4, <2>5 DEF SpansDiffer
  <1>11. BookTypes'
    BY <1>1, <1>2, <1>5, <1>6 DEF BookInv, BookTypes, requests
  <1>12. BookMoves(t)
    BY <1>1, <1>2, <1>3, <1>6 DEF BookMoves, requests
  <1> QED BY <1>1, <1>7, <1>8, <1>9, <1>10, <1>11, <1>12, BookStep DEF ThreadIsAt

LEMMA NextBook ==
    ASSUME TypeInv, BookInv, [Next]_vars
    PROVE  TypeInv' /\ BookInv'
  <1>1. ASSUME NEW t \in Threads, Works(t) \/ Fails(t)
        PROVE  TypeInv' /\ BookInv'
    <2>1. TypeInv'
      BY <1>1, IsStoreStep, StoreStepKeeps
    <2>2. BookInv'
      BY <1>1, StatementBook, InitializeBook, RequesterBook, FlushBook, ReturnBook, CreateLinkBook,
         CountLinksBook, TakeChunkBook DEF Works, Fails, Load
    <2> QED BY <2>1, <2>2
  <1>2. CASE SendRequests \/ Complete \/ TimeUp \/ Over \/ UNCHANGED vars
    <2>1. TypeInv'
      BY <1>2, DriverLeavesStores, StoreStutters, NoStep DEF StoreStays
    <2> QED BY <1>2, <2>1, DriverBook
  <1> QED BY <1>1, <1>2 DEF Next

(* Every variable of a run has its type: the loaders stay in their chunks, *)
(* a bulk call stores what is in the buffer of its loader, requests go to  *)
(* the stores in the request phase alone, and no requester has more errors *)
(* than requests, but for the one that ends it.                            *)
THEOREM BenchTypeCorrect == Spec => []TypeOK
  <1>1. Init => TypeInv /\ BookInv
    BY StoreInitTypes, InitBook DEF Init
  <1>2. (TypeInv /\ BookInv) /\ [Next]_vars => (TypeInv /\ BookInv)'
    BY NextBook
  <1>3. TypeInv /\ BookInv => TypeOK
    <2> SUFFICES ASSUME TypeInv, BookInv PROVE TypeOK
      OBVIOUS
    <2>1. /\ StoreTypeOK /\ BookTypes /\ \A t \in Requesters : RequesterOK(t)
          /\ NumRequests \in Nat
      BY BenchAssumption DEF TypeInv, BookInv, ThreadIsAt
    <2>2. errors \in [Requesters -> 0 .. NumRequests + 1]
      <3>1. ASSUME NEW t \in Requesters PROVE errors[t] \in 0 .. NumRequests + 1
        <4>1. /\ errors[t] \in Nat /\ requestsDone[t] \in 0 .. NumRequests /\ NumRequests \in Nat
              /\ errors[t] <= requestsDone[t] \/ errors[t] <= requestsDone[t] + 1
          BY <2>1 DEF BookTypes, RequesterOK
        <4> QED BY <4>1
      <3> QED BY <2>1, <3>1 DEF BookTypes
    <2>3. task \in [Threads -> {"initialize", "take", "load", "flushLinks", "flushCounts", "request",
                                "close", "ended"}]
      BY <2>1 DEF BookTypes, LoadTasks
    <2> QED BY <2>1, <2>2, <2>3 DEF TypeOK, BookTypes, AtType
  <1> QED BY <1>1, <1>2, <1>3, PTL DEF Spec

----------------------------------------------------------------------------
(* What a load has stored *)

(* The links that shall be loaded. *)
LoadLinks == {l \in Links : l[2] \in 0 .. NLinks[l[1]] - 1}

(* t is storing a single link. *)
Pending(t) == pc[t] # "idle" /\ task[t] # "request" /\ call[t].op = "addLink"

(* The links t has made and not yet stored. *)
InFlight(t) == loadBuffer[t] \cup (IF Pending(t) THEN {call[t].link} ELSE {})

FlightInv ==
    /\ \A t \in Loaders : \A l \in InFlight(t) : l \in LoadLinks /\ ~Ahead(l[1], l[2])
    /\ \A t, u \in Loaders : t # u => InFlight(t) \cap InFlight(u) = {}

(* The links that have been stored and will not be stored again. *)
Loaded ==
    {l \in LoadLinks : linkdb[l] # Null /\ ~Ahead(l[1], l[2]) /\ \A t \in Loaders : l \notin InFlight(t)}

LoadedInv == SumFunction(linksloaded) <= Cardinality(Loaded)

LoadInv == FlightInv /\ NothingDropped /\ LoadedInv

LEMMA LoadLinkFacts ==
    /\ \A l \in LoadLinks : l \in Links /\ l[1] \in Id1s /\ l[2] \in Nat /\ l = <<l[1], l[2]>>
    /\ \A k \in Id1s : \A j \in 0 .. NLinks[k] - 1 : <<k, j>> \in LoadLinks /\ j \in Nat
    /\ IsFiniteSet(Links)
    /\ \A S \in SUBSET Links : IsFiniteSet(S) /\ Cardinality(S) \in Nat
  <1>1. NLinks \in [Id1s -> Nat] /\ \A k \in Id1s : 0 .. NLinks[k] - 1 \subseteq Id2s
    BY BenchAssumption
  <1>2. \A l \in LoadLinks : l \in Links /\ l[1] \in Id1s /\ l[2] \in Nat /\ l = <<l[1], l[2]>>
    BY <1>1 DEF LoadLinks, Links
  <1>3. ASSUME NEW k \in Id1s, NEW j \in 0 .. NLinks[k] - 1
        PROVE  <<k, j>> \in LoadLinks /\ j \in Nat
    <2>1. j \in Nat /\ j \in Id2s
      BY <1>1
    <2> QED BY <2>1 DEF LoadLinks, Links
  <1>4. IsFiniteSet(Links)
    <2>1. IsFiniteSet(Id1s)
      BY GraphFacts, FS_Interval
    <2> QED BY <2>1, StoreAssumption, FS_Product DEF Links
  <1>5. \A S \in SUBSET Links : IsFiniteSet(S) /\ Cardinality(S) \in Nat
    BY <1>4, FS_Subset, FS_CardinalityType
  <1> QED BY <1>2, <1>3, <1>4, <1>5

LEMMA LoadedFacts ==
    /\ Loaded \subseteq Links /\ IsFiniteSet(Loaded) /\ Cardinality(Loaded) \in Nat
    /\ Loaded' \subseteq Links /\ IsFiniteSet(Loaded') /\ Cardinality(Loaded') \in Nat
  <1>1. Loaded \subseteq Links /\ Loaded' \subseteq Links
    BY DEF Loaded, LoadLinks
  <1> QED BY <1>1, LoadLinkFacts

LEMMA LoadedSum ==
    ASSUME NEW f \in [Loaders -> Nat]
    PROVE  /\ SumFunction(f) = SumFunctionOnSet(f, Loaders) /\ SumFunction(f) \in Int
           /\ IsFiniteSet(Loaders)
  <1>1. IsFiniteSet(Loaders) /\ DOMAIN f = Loaders /\ \A x \in Loaders : f[x] \in Int
    BY BenchAssumption
  <1>2. SumFunction(f) = SumFunctionOnSet(f, DOMAIN f)
    BY DEF SumFunction
  <1>3. SumFunctionOnSet(f, Loaders) \in Int
    BY <1>1, SumType
  <1> QED BY <1>1, <1>2, <1>3

SameAhead == \A k \in Id1s : \A j \in Nat : Ahead(k, j)' <=> Ahead(k, j)

(* A step after which no more links are in flight, and that leaves the     *)
(* buffers. *)
QuietLoad ==
    /\ batch' = batch /\ loadBuffer' = loadBuffer /\ countLoadBuffer' = countLoadBuffer
    /\ linksloaded' = linksloaded
    /\ \A t \in Loaders : Pending(t)' => Pending(t) /\ call'[t] = call[t]

LEMMA QuietKeepsLoad ==
    ASSUME BookInv, LoadInv, RowsGrow, SameAhead, QuietLoad
    PROVE  LoadInv'
  <1>1. \A t \in Loaders : InFlight(t)' \subseteq InFlight(t)
    BY DEF QuietLoad, InFlight
  <1>2. FlightInv'
    <2>1. ASSUME NEW t \in Loaders, NEW l \in InFlight(t)'
          PROVE  l \in LoadLinks /\ ~Ahead(l[1], l[2])'
      <3>1. l \in LoadLinks /\ ~Ahead(l[1], l[2])
        BY <1>1 DEF LoadInv, FlightInv
      <3> QED BY <3>1, LoadLinkFacts DEF SameAhead
    <2>2. ASSUME NEW t \in Loaders, NEW u \in Loaders, t # u
          PROVE  InFlight(t)' \cap InFlight(u)' = {}
      BY <1>1, <2>2 DEF LoadInv, FlightInv
    <2> QED BY <2>1, <2>2 DEF FlightInv
  <1>3. NothingDropped'
    <2> SUFFICES ASSUME batch > 0, NEW k \in Id1s
                 PROVE  /\ \A j \in 0 .. NLinks[k] - 1 :
                             \/ Ahead(k, j)'
                             \/ linkdb'[<<k, j>>] # Null
                             \/ \E t \in Loaders : <<k, j>> \in loadBuffer'[t]
                        /\ \/ NLinks[k] = 0 \/ Ahead(k, NLinks[k])'
                           \/ countdb'[k] # Null
                           \/ \E t \in Loaders : k \in countLoadBuffer'[t]
      BY DEF NothingDropped, QuietLoad
    <2>1. ASSUME NEW j \in 0 .. NLinks[k] - 1
          PROVE  \/ Ahead(k, j)'
                 \/ linkdb'[<<k, j>>] # Null
                 \/ \E t \in Loaders : <<k, j>> \in loadBuffer'[t]
      <3>1. <<k, j>> \in Links /\ j \in Nat
        BY LoadLinkFacts
      <3>2. \/ Ahead(k, j)
            \/ linkdb[<<k, j>>] # Null
            \/ \E t \in Loaders : <<k, j>> \in loadBuffer[t]
        BY DEF LoadInv, NothingDropped
      <3> QED BY <3>1, <3>2 DEF SameAhead, RowsGrow, QuietLoad
    <2>2. NLinks[k] \in Nat
      BY BenchAssumption
    <2>3. \/ NLinks[k] = 0 \/ Ahead(k, NLinks[k])
          \/ countdb[k] # Null
          \/ \E t \in Loaders : k \in countLoadBuffer[t]
      BY DEF LoadInv, NothingDropped
    <2> QED BY <2>1, <2>2, <2>3 DEF SameAhead, RowsGrow, QuietLoad
  <1>4. LoadedInv'
    <2>1. Loaded \subseteq Loaded'
      <3> SUFFICES ASSUME NEW l \in Loaded PROVE l \in Loaded'
        OBVIOUS
      <3>1. l \in LoadLinks /\ linkdb[l] # Null /\ ~Ahead(l[1], l[2])
            /\ \A t \in Loaders : l \notin InFlight(t)
        BY DEF Loaded
      <3>2. l \in Links /\ l[1] \in Id1s /\ l[2] \in Nat
        BY <3>1, LoadLinkFacts
      <3>3. linkdb'[l] # Null /\ ~Ahead(l[1], l[2])' /\ \A t \in Loaders : l \notin InFlight(t)'
        BY <1>1, <3>1, <3>2 DEF RowsGrow, SameAhead
      <3> QED BY <3>1, <3>3 DEF Loaded
    <2>2. Cardinality(Loaded) <= Cardinality(Loaded')
      BY <2>1, LoadedFacts, FS_Subset
    <2>3. SumFunction(linksloaded)' = SumFunction(linksloaded)
      BY DEF QuietLoad
    <2>4. SumFunction(linksloaded) <= Cardinality(Loaded)
      BY DEF LoadInv, LoadedInv
    <2>5. SumFunction(linksloaded) \in Int
      BY LoadedSum DEF BookInv, BookTypes
    <2> QED BY <2>2, <2>3, <2>4, <2>5, LoadedFacts DEF LoadedInv
  <1> QED BY <1>2, <1>3, <1>4 DEF LoadInv

----------------------------------------------------------------------------
(* The links that are ahead *)

Queued(k) == \E i \in DOMAIN chunk_q : chunk_q[i] # Null /\ k \in Span(chunk_q[i])

AheadOf(t, k, j) ==
    k \in at[t].id1 + 1 .. at[t].end - 1 \/ (k = at[t].id1 /\ at[t].made <= j)

Elsewhere(t, k, j) == Queued(k) \/ \E u \in Loaders \ {t} : AheadOf(u, k, j)

LEMMA AheadIs ==
    ASSUME NEW t \in Loaders, NEW k, NEW j
    PROVE  /\ Ahead(k, j) <=> Elsewhere(t, k, j) \/ AheadOf(t, k, j)
           /\ Ahead(k, j)' <=> Elsewhere(t, k, j)' \/ AheadOf(t, k, j)'
  <1>1. /\ Queued(k) <=> \E c \in Range(chunk_q) \ {Null} : k \in c.start .. c.end - 1
        /\ Queued(k)' <=> \E c \in Range(chunk_q') \ {Null} : k \in c.start .. c.end - 1
    BY DEF Queued, Span, Range
  <1>2. /\ (\E u \in Loaders : AheadOf(u, k, j)) <=>
             \/ \E u \in Loaders : k \in at[u].id1 + 1 .. at[u].end - 1
             \/ \E u \in Loaders : k = at[u].id1 /\ at[u].made <= j
        /\ (\E u \in Loaders : AheadOf(u, k, j)') <=>
             \/ \E u \in Loaders : k \in at'[u].id1 + 1 .. at'[u].end - 1
             \/ \E u \in Loaders : k = at'[u].id1 /\ at'[u].made <= j
    BY DEF AheadOf
  <1>3. /\ Ahead(k, j) <=> Queued(k) \/ \E u \in Loaders : AheadOf(u, k, j)
        /\ Ahead(k, j)' <=> Queued(k)' \/ \E u \in Loaders : AheadOf(u, k, j)'
    BY <1>1, <1>2 DEF Ahead
  <1> QED BY <1>3 DEF Elsewhere

(* What is left to t is left to no other loader. *)
LEMMA OnlyHere ==
    ASSUME BookInv, NEW t \in Threads, task[t] = "load", NEW k \in Rest(t), NEW j
    PROVE  ~Elsewhere(t, k, j) /\ k \in Id1s
  <1>1. /\ t \in Loaders /\ at[t].id1 \in Int /\ at[t].id1 >= StartId /\ at[t].end \in Int
        /\ at[t].end <= EndId
    BY LoaderFacts
  <1>2. Id1s = StartId .. EndId - 1 /\ EndId \notin Id1s /\ StartId \in Int /\ EndId \in Int
    BY GraphFacts
  <1> HIDE DEF StartId, EndId
  <1>3. k \in Id1s
    BY <1>1, <1>2 DEF Rest
  <1>4. ~Queued(k)
    BY <1>1 DEF BookInv, SpansDiffer, Queued
  <1>5. ASSUME NEW u \in Loaders \ {t}, AheadOf(u, k, j)
        PROVE  FALSE
    <2>1. Rest(t) \cap Rest(u) = {}
      BY <1>1 DEF BookInv, SpansDiffer
    <2>2. at[u] \in AtType /\ LoaderOK(u)
      BY BenchAssumption DEF BookInv, BookTypes, ThreadIsAt
    <2>3. at[u].id1 \in Int /\ at[u].end \in Int
      BY <1>2, <2>2 DEF AtType
    <2>4. k \in Rest(u)
      <3>1. CASE k \in at[u].id1 + 1 .. at[u].end - 1
        BY <2>3, <3>1 DEF Rest
      <3>2. CASE k = at[u].id1
        <4>1. at[u] # NotLoading
          BY <1>2, <1>3, <3>2 DEF NotLoading
        <4>2. at[u].id1 < at[u].end
          BY <2>2, <4>1 DEF LoaderOK
        <4> QED BY <2>3, <3>2, <4>2 DEF Rest
      <3> QED BY <1>5, <3>1, <3>2 DEF AheadOf
    <2> QED BY <2>1, <2>4
  <1> QED BY <1>3, <1>4, <1>5 DEF Elsewhere

LEMMA ElsewhereStays ==
    ASSUME NEW t \in Loaders, chunk_q' = chunk_q, \A u \in Loaders \ {t} : at'[u] = at[u],
           NEW k, NEW j
    PROVE  Elsewhere(t, k, j)' <=> Elsewhere(t, k, j)
  BY DEF Elsewhere, Queued, AheadOf

LEMMA CreateLinkAhead ==
    ASSUME BookInv, NEW t \in Threads, CreateLink(t)
    PROVE  /\ Ahead(at[t].id1, at[t].made)
           /\ \A k \in Id1s : \A j \in Nat :
                Ahead(k, j)' <=> Ahead(k, j) /\ ~(k = at[t].id1 /\ j = at[t].made)
  <1>1. /\ task[t] = "load" /\ t \in Loaders
        /\ \A u \in Loaders \ {t} : at'[u] = at[u]
        /\ at'[t].id1 = at[t].id1 /\ at'[t].end = at[t].end /\ at'[t].made = at[t].made + 1
    BY CreateLinkFacts
  <1>2. chunk_q' = chunk_q
    BY DEF CreateLink
  <1>3. /\ at[t].id1 \in Int /\ at[t].end \in Int /\ at[t].made \in Nat /\ at[t].id1 < at[t].end
        /\ at[t].id1 \in Id1s
    BY <1>1, LoaderFacts
  <1>4. Ahead(at[t].id1, at[t].made)
    BY <1>1, <1>3, AheadIs DEF AheadOf
  <1>5. ASSUME NEW k \in Id1s, NEW j \in Nat
        PROVE  Ahead(k, j)' <=> Ahead(k, j) /\ ~(k = at[t].id1 /\ j = at[t].made)
    <2>1. /\ Ahead(k, j) <=> Elsewhere(t, k, j) \/ AheadOf(t, k, j)
          /\ Ahead(k, j)' <=> Elsewhere(t, k, j)' \/ AheadOf(t, k, j)'
      BY <1>1, AheadIs
    <2>2. Elsewhere(t, k, j)' <=> Elsewhere(t, k, j)
      BY <1>1, <1>2, ElsewhereStays
    <2>3. AheadOf(t, k, j)' <=> AheadOf(t, k, j) /\ ~(k = at[t].id1 /\ j = at[t].made)
      <3>1. AheadOf(t, k, j)' <=>
              k \in at[t].id1 + 1 .. at[t].end - 1 \/ (k = at[t].id1 /\ at[t].made + 1 <= j)
        BY <1>1 DEF AheadOf
      <3> QED BY <1>3, <3>1 DEF AheadOf
    <2>4. k = at[t].id1 => ~Elsewhere(t, k, j)
      <3>1. at[t].id1 \in Rest(t)
        BY <1>3 DEF Rest
      <3> QED BY <1>1, <3>1, OnlyHere
    <2> QED BY <2>1, <2>2, <2>3, <2>4
  <1> QED BY <1>4, <1>5

LEMMA CountLinksAhead ==
    ASSUME BookInv, NEW t \in Threads, CountLinks(t)
    PROVE  /\ \A k \in Id1s : \A j \in Nat : Ahead(k, j)' <=> Ahead(k, j) /\ k # at[t].id1
           /\ \A j \in Nat : j < NLinks[at[t].id1] => ~Ahead(at[t].id1, j)
  <1>1. /\ task[t] = "load" /\ t \in Loaders
        /\ \A u \in Loaders \ {t} : at'[u] = at[u]
        /\ at[t].made = NLinks[at[t].id1]
        /\ \/ /\ at[t].id1 + 1 < at[t].end
              /\ at'[t].id1 = at[t].id1 + 1 /\ at'[t].end = at[t].end /\ at'[t].made = 0
           \/ /\ at[t].id1 + 1 >= at[t].end /\ at'[t] = NotLoading
    BY CountLinksFacts
  <1>2. chunk_q' = chunk_q
    BY DEF CountLinks
  <1>3. /\ at[t].id1 \in Int /\ at[t].end \in Int /\ at[t].made \in Nat /\ at[t].id1 < at[t].end
        /\ at[t].id1 \in Id1s
    BY <1>1, LoaderFacts
  <1>4. Id1s = StartId .. EndId - 1 /\ EndId \notin Id1s /\ StartId \in Int /\ EndId \in Int
    BY GraphFacts
  <1> HIDE DEF StartId, EndId
  <1>5. ASSUME NEW k \in Id1s, NEW j \in Nat
        PROVE  Ahead(k, j)' <=> Ahead(k, j) /\ k # at[t].id1
    <2>1. /\ Ahead(k, j) <=> Elsewhere(t, k, j) \/ AheadOf(t, k, j)
          /\ Ahead(k, j)' <=> Elsewhere(t, k, j)' \/ AheadOf(t, k, j)'
      BY <1>1, AheadIs
    <2>2. Elsewhere(t, k, j)' <=> Elsewhere(t, k, j)
      BY <1>1, <1>2, ElsewhereStays
    <2>3. AheadOf(t, k, j)' <=> k \in at[t].id1 + 1 .. at[t].end - 1
      <3>1. CASE /\ at[t].id1 + 1 < at[t].end
                 /\ at'[t].id1 = at[t].id1 + 1 /\ at'[t].end = at[t].end /\ at'[t].made = 0
        <4>1. AheadOf(t, k, j)' <=>
                k \in (at[t].id1 + 1) + 1 .. at[t].end - 1 \/ (k = at[t].id1 + 1 /\ 0 <= j)
          BY <3>1 DEF AheadOf
        <4> QED BY <1>3, <3>1, <4>1
      <3>2. CASE at[t].id1 + 1 >= at[t].end /\ at'[t] = NotLoading
        <4>1. AheadOf(t, k, j)' <=> k \in EndId + 1 .. EndId - 1 \/ (k = EndId /\ 0 <= j)
          BY <3>2 DEF AheadOf, NotLoading
        <4> QED BY <1>3, <1>4, <3>2, <4>1
      <3> QED BY <1>1, <3>1, <3>2
    <2>4. AheadOf(t, k, j) /\ k # at[t].id1 <=> k \in at[t].id1 + 1 .. at[t].end - 1
      BY <1>3 DEF AheadOf
    <2>5. k = at[t].id1 => ~Elsewhere(t, k, j)
      <3>1. at[t].id1 \in Rest(t)
        BY <1>3 DEF Rest
      <3> QED BY <1>1, <3>1, OnlyHere
    <2>6. k = at[t].id1 => k \notin at[t].id1 + 1 .. at[t].end - 1
      BY <1>3
    <2> QED BY <2>1, <2>2, <2>3, <2>4, <2>5, <2>6
  <1>6. ASSUME NEW j \in Nat, j < NLinks[at[t].id1]
        PROVE  ~Ahead(at[t].id1, j)
    <2>1. at[t].id1 \in Rest(t)
      BY <1>3 DEF Rest
    <2>2. ~AheadOf(t, at[t].id1, j)
      BY <1>1, <1>3, <1>6 DEF AheadOf
    <2> QED BY <1>1, <2>1, <2>2, OnlyHere, AheadIs
  <1> QED BY <1>5, <1>6

LEMMA TakeChunkAhead ==
    ASSUME BookInv, NEW t \in Threads, TakeChunk(t)
    PROVE  SameAhead
  <1>1. /\ t \in Loaders /\ at[t] = NotLoading /\ chunk_q # <<>>
        /\ chunk_q' = Tail(chunk_q)
        /\ \A u \in Loaders \ {t} : at'[u] = at[u]
        /\ \/ chunk_q[1] = Null /\ at' = at
           \/ /\ chunk_q[1] \in ChunkType
              /\ at'[t].id1 = chunk_q[1].start /\ at'[t].end = chunk_q[1].end /\ at'[t].made = 0
    BY TakeChunkFacts
  <1>2. chunk_q \in Seq(ChunkType \cup {Null})
    BY DEF BookInv, BookTypes
  <1>3. /\ 1 \in DOMAIN chunk_q
        /\ \A i \in DOMAIN chunk_q' : i + 1 \in DOMAIN chunk_q /\ chunk_q'[i] = chunk_q[i + 1]
        /\ \A i \in DOMAIN chunk_q \ {1} : i - 1 \in DOMAIN chunk_q' /\ chunk_q'[i - 1] = chunk_q[i]
    BY <1>1, <1>2, TailFacts
  <1>4. Id1s = StartId .. EndId - 1 /\ EndId \notin Id1s /\ StartId \in Int /\ EndId \in Int
    BY GraphFacts
  <1> HIDE DEF StartId, EndId
  <1>5. ASSUME NEW k \in Id1s, NEW j \in Nat
        PROVE  Ahead(k, j)' <=> Ahead(k, j)
    <2>1. /\ Ahead(k, j) <=> Elsewhere(t, k, j) \/ AheadOf(t, k, j)
          /\ Ahead(k, j)' <=> Elsewhere(t, k, j)' \/ AheadOf(t, k, j)'
      BY <1>1, AheadIs
    <2>2. ~AheadOf(t, k, j)
      <3>1. AheadOf(t, k, j) <=> k \in EndId + 1 .. EndId - 1 \/ (k = EndId /\ 0 <= j)
        BY <1>1 DEF AheadOf, NotLoading
      <3> QED BY <1>4, <3>1
    <2>3. Queued(k) <=> Queued(k)' \/ (chunk_q[1] # Null /\ k \in Span(chunk_q[1]))
      BY <1>3 DEF Queued
    <2>4. (\E u \in Loaders \ {t} : AheadOf(u, k, j))' <=> \E u \in Loaders \ {t} : AheadOf(u, k, j)
      BY <1>1 DEF AheadOf
    <2>5. Elsewhere(t, k, j) <=> Elsewhere(t, k, j)' \/ (chunk_q[1] # Null /\ k \in Span(chunk_q[1]))
      BY <2>3, <2>4 DEF Elsewhere
    <2>6. CASE chunk_q[1] = Null /\ at' = at
      <3>1. AheadOf(t, k, j)' <=> AheadOf(t, k, j)
        BY <2>6 DEF AheadOf
      <3> QED BY <2>1, <2>2, <2>5, <2>6, <3>1
    <2>7. CASE /\ chunk_q[1] \in ChunkType
               /\ at'[t].id1 = chunk_q[1].start /\ at'[t].end = chunk_q[1].end /\ at'[t].made = 0
      <3> DEFINE s == chunk_q[1].start
                 e == chunk_q[1].end
      <3>1. s \in Int /\ e \in Int /\ s < e /\ chunk_q[1] # Null
        BY <1>4, <2>7, GraphFacts DEF ChunkType
      <3>2. AheadOf(t, k, j)' <=> k \in s + 1 .. e - 1 \/ (k = s /\ 0 <= j)
        BY <2>7 DEF AheadOf
      <3>3. k \in Span(chunk_q[1]) <=> k \in s .. e - 1
        BY DEF Span
      <3> HIDE DEF s, e
      <3>4. AheadOf(t, k, j)' <=> k \in Span(chunk_q[1])
        BY <3>1, <3>2, <3>3
      <3> QED BY <2>1, <2>2, <2>5, <3>1, <3>4
    <2> QED BY <1>1, <2>6, <2>7
  <1> QED BY <1>5 DEF SameAhead

LEMMA AheadStays ==
    ASSUME chunk_q' = chunk_q, at' = at
    PROVE  SameAhead
  BY DEF SameAhead, Ahead

----------------------------------------------------------------------------
(* The steps of a load *)

(* A step of t that leaves no link of t in flight. *)
LEMMA QuietFrom ==
    ASSUME NEW t \in Threads, OthersStay(t), batch' = batch, loadBuffer' = loadBuffer,
           countLoadBuffer' = countLoadBuffer, linksloaded' = linksloaded,
           \A u \in Threads \ {t} : task'[u] = task[u],
           \/ pc'[t] = "idle" \/ task'[t] = "request" \/ call'[t].op # "addLink"
           \/ pc[t] # "idle" /\ call' = call /\ task' = task
    PROVE  QuietLoad
  <1>1. ASSUME NEW u \in Loaders, Pending(u)'
        PROVE  Pending(u) /\ call'[u] = call[u]
    <2>1. u \in Threads
      BY BenchAssumption
    <2>2. CASE u # t
      BY <1>1, <2>1, <2>2 DEF Pending, OthersStay
    <2>3. CASE u = t
      BY <1>1, <2>3 DEF Pending
    <2> QED BY <2>2, <2>3
  <1> QED BY <1>1 DEF QuietLoad

LEMMA QuietSteps ==
    ASSUME TypeInv, BookInv, NEW t \in Threads,
           \/ InitializeStore(t) \/ InitializeFails(t) \/ CloseStore(t) \/ Requester(t)
           \/ TakeChunk(t) \/ FlushLinks(t) \/ FlushCounts(t) \/ LoadCallFailed(t)
           \/ (Statement(t) \/ Failure(t)) /\ UNCHANGED <<phase, batch, task, loading, requests>>
    PROVE  SameAhead /\ QuietLoad
  <1>1. task \in [Threads -> LoadTasks \cup {"initialize", "request", "close", "ended"}]
    BY DEF BookInv, BookTypes
  <1>2. CASE TakeChunk(t)
    <2>1. /\ pc[t] = "idle" /\ UNCHANGED storevars /\ batch' = batch /\ loadBuffer' = loadBuffer
          /\ countLoadBuffer' = countLoadBuffer /\ linksloaded' = linksloaded
          /\ \E s : task' = [task EXCEPT ![t] = s]
      BY <1>2 DEF TakeChunk, Runs, GoesTo
    <2>2. OthersStay(t) /\ pc'[t] = "idle" /\ \A u \in Threads \ {t} : task'[u] = task[u]
      BY <1>1, <2>1 DEF storevars, progress, OthersStay
    <2> QED BY <1>2, <2>1, <2>2, TakeChunkAhead, QuietFrom
  <1>3. CASE ~TakeChunk(t)
    <2>1. batch' = batch /\ loading' = loading
      BY <1>3 DEF InitializeStore, InitializeFails, CloseStore, Requester, Request, Served, Failed,
         RequestsOver, FlushLinks, FlushCounts, LoadCallFailed
    <2>2. /\ chunk_q' = chunk_q /\ at' = at /\ loadBuffer' = loadBuffer
          /\ countLoadBuffer' = countLoadBuffer /\ linksloaded' = linksloaded
      BY <2>1 DEF loading
    <2>3. \A u \in Threads \ {t} : task'[u] = task[u]
      <3>1. task' = task \/ \E s : task' = [task EXCEPT ![t] = s]
        BY <1>3 DEF InitializeStore, InitializeFails, CloseStore, Requester, Request, Served, Failed,
           RequestsOver, FlushLinks, FlushCounts, LoadCallFailed, GoesTo, Done
      <3> QED BY <1>1, <3>1
    <2>4. /\ OthersStay(t)
          /\ \/ pc'[t] = "idle" \/ task'[t] = "request" \/ call'[t].op # "addLink"
             \/ pc[t] # "idle" /\ call' = call /\ task' = task
      <3>1. CASE (Statement(t) \/ Failure(t)) /\ UNCHANGED <<phase, batch, task, loading, requests>>
        BY <3>1, AnyStatementStep DEF AnyStepOK
      <3>2. CASE InitializeStore(t)
        BY <3>2, InitializeStep DEF InitializeStore, Initialize, progress, AnyStepOK
      <3>3. CASE InitializeFails(t) \/ RequestsOver(t)
        BY <3>3 DEF InitializeFails, RequestsOver, Runs, storevars, progress, OthersStay
      <3>4. CASE CloseStore(t)
        BY <3>4, CloseStep DEF CloseStore, AnyStepOK
      <3>5. CASE LoadCallFailed(t) \/ Failed(t)
        BY <3>5, ClearErrorsStep DEF LoadCallFailed, Failed, AnyStepOK
      <3>6. CASE Served(t)
        BY <3>6, TakeReplyStep DEF Served, AnyStepOK
      <3>7. CASE Request(t)
        <4>1. PICK c \in Calls : Call(t, c)
          BY <3>7 DEF Request
        <4>2. CallType(c)
          BY StoreAssumption DEF CallType
        <4>3. task'[t] = "request"
          BY <3>7 DEF Request, Runs
        <4> QED BY <4>1, <4>2, <4>3, CallStep DEF AnyStepOK
      <3>8. CASE FlushLinks(t) \/ FlushCounts(t)
        <4>1. /\ task[t] \in {"flushLinks", "flushCounts"}
              /\ \E c \in {AddBulkLinks(loadBuffer[t], LoadData),
                           AddBulkCounts(LinkCounts(countLoadBuffer[t]))} : Call(t, c)
          BY <3>8 DEF FlushLinks, FlushCounts, Runs
        <4>2. loadBuffer[t] \in SUBSET Links /\ countLoadBuffer[t] \in SUBSET Id1s
          BY <4>1 DEF BookInv, BookTypes, ThreadIsAt, TaskOK, LoadTasks
        <4>3. PICK c \in {AddBulkLinks(loadBuffer[t], LoadData),
                          AddBulkCounts(LinkCounts(countLoadBuffer[t]))} : Call(t, c)
          BY <4>1
        <4>4. CallType(c) /\ c.op # "addLink"
          BY <4>2, LoadCallTypes
        <4> QED BY <4>3, <4>4, CallStep DEF AnyStepOK
      <3> QED BY <1>3, <3>1, <3>2, <3>3, <3>4, <3>5, <3>6, <3>7, <3>8 DEF Requester
    <2> QED BY <2>1, <2>2, <2>3, <2>4, AheadStays, QuietFrom
  <1> QED BY <1>2, <1>3

LEMMA QuietDriver ==
    ASSUME TypeInv, BookInv, SendRequests \/ Complete \/ TimeUp \/ Over \/ UNCHANGED vars
    PROVE  SameAhead /\ QuietLoad /\ RowsGrow
  <1>1. /\ batch' = batch /\ loading' = loading /\ linkdb' = linkdb /\ countdb' = countdb
        /\ pc' = pc /\ call' = call
    BY DEF SendRequests, Complete, TimeUp, Over, vars, storevars, linktable, counttable, progress
  <1>2. ASSUME NEW t \in Loaders, Pending(t)' PROVE Pending(t)
    <2>1. CASE SendRequests
      <3>1. task[t] = "ended" /\ t \in Threads
        BY <2>1, BenchAssumption DEF SendRequests, AllEnded
      <3>2. pc[t] = "idle"
        BY <3>1 DEF BookInv, ThreadIsAt, TaskOK
      <3> QED BY <1>1, <1>2, <3>2 DEF Pending
    <2>2. CASE task' = task
      BY <1>1, <1>2, <2>2 DEF Pending
    <2> QED BY <2>1, <2>2 DEF Complete, TimeUp, Over, vars
  <1>3. QuietLoad
    BY <1>1, <1>2 DEF QuietLoad, loading
  <1>4. SameAhead
    BY <1>1, AheadStays DEF loading
  <1>5. RowsGrow
    BY <1>1 DEF RowsGrow
  <1> QED BY <1>3, <1>4, <1>5

LEMMA CreateLinkLoad ==
    ASSUME TypeInv, BookInv, RowsGrow, LoadInv, NEW t \in Threads, CreateLink(t)
    PROVE  LoadInv'
  <1> DEFINE l == <<at[t].id1, at[t].made>>
             c == IF batch = 0 THEN AddLink(l, "DEFAULT", LoadData)
                  ELSE AddBulkLinks(loadBuffer'[t], LoadData)
  <1>1. /\ task[t] = "load" /\ t \in Loaders /\ at[t].made < NLinks[at[t].id1] /\ l \in Links
        /\ loadBuffer' \in [Loaders -> SUBSET Links]
        /\ \A u \in Loaders \ {t} : loadBuffer'[u] = loadBuffer[u]
        /\ batch = 0 => loadBuffer' = loadBuffer
        /\ batch # 0 => loadBuffer'[t] = loadBuffer[t] \cup {l}
    BY CreateLinkFacts
  <1>2. /\ batch' = batch /\ task' = task
        /\ countLoadBuffer' = countLoadBuffer /\ linksloaded' = linksloaded /\ pc[t] = "idle"
        /\ Call(t, c) \/ UNCHANGED storevars
    BY <1>1 DEF CreateLink, Runs
  <1>3. CallType(c) /\ (batch = 0 => c.link = l) /\ (batch # 0 => c.op = "addBulkLinks")
    <2>1. loadBuffer'[t] \in SUBSET Links
      BY <1>1
    <2>2. AddLink(l, "DEFAULT", LoadData).link = l
      BY DEF AddLink
    <2> QED BY <1>1, <2>1, <2>2, LoadCallTypes
  <1>4. OthersStay(t) /\ (pc'[t] = "idle" \/ call'[t] = c)
    <2>1. CASE Call(t, c)
      BY <1>3, <2>1, CallStep DEF AnyStepOK
    <2>2. CASE UNCHANGED storevars
      BY <1>2, <2>2 DEF storevars, progress, OthersStay
    <2> QED BY <1>2, <2>1, <2>2
  <1>5. /\ at[t].id1 \in Id1s /\ at[t].made \in Nat /\ NLinks[at[t].id1] \in Nat
        /\ l[1] = at[t].id1 /\ l[2] = at[t].made
    BY <1>1, LoaderFacts
  <1>6. /\ Ahead(l[1], l[2])
        /\ \A k \in Id1s : \A j \in Nat : Ahead(k, j)' <=> Ahead(k, j) /\ <<k, j>> # l
    BY <1>5, CreateLinkAhead
  <1>7. l \in LoadLinks
    BY <1>1, <1>5 DEF LoadLinks
  <1> HIDE DEF l, c
  <1>8. \A u \in Loaders \ {t} : InFlight(u)' = InFlight(u)
    <2> SUFFICES ASSUME NEW u \in Loaders \ {t} PROVE InFlight(u)' = InFlight(u)
      OBVIOUS
    <2>1. u \in Threads \ {t}
      BY BenchAssumption
    <2>2. (Pending(u)' <=> Pending(u)) /\ call'[u] = call[u]
      BY <1>2, <1>4, <2>1 DEF Pending, OthersStay
    <2> QED BY <1>1, <2>2 DEF InFlight
  <1>9. InFlight(t)' \subseteq InFlight(t) \cup {l}
    <2>1. CASE batch = 0
      <3>1. Pending(t)' => call'[t].link = l
        BY <1>3, <1>4, <2>1 DEF Pending
      <3> QED BY <1>1, <2>1, <3>1 DEF InFlight
    <2>2. CASE batch # 0
      <3>1. ~Pending(t)'
        BY <1>3, <1>4, <2>2 DEF Pending
      <3> QED BY <1>1, <2>2, <3>1 DEF InFlight
    <2> QED BY <2>1, <2>2
  <1>10. \A u \in Loaders : l \notin InFlight(u)
    BY <1>6 DEF LoadInv, FlightInv
  <1>11. FlightInv'
    <2>1. ASSUME NEW u \in Loaders, NEW m \in InFlight(u)'
          PROVE  m \in LoadLinks /\ ~Ahead(m[1], m[2])'
      <3>1. m = l \/ m \in InFlight(u)
        BY <1>8, <1>9, <2>1
      <3>2. m = l \/ (m \in LoadLinks /\ ~Ahead(m[1], m[2]))
        BY <3>1 DEF LoadInv, FlightInv
      <3>3. m \in LoadLinks
        BY <1>7, <3>2
      <3>4. m[1] \in Id1s /\ m[2] \in Nat /\ m = <<m[1], m[2]>>
        BY <3>3, LoadLinkFacts
      <3>5. ~Ahead(m[1], m[2])'
        BY <1>6, <3>2, <3>4
      <3> QED BY <3>3, <3>5
    <2>2. ASSUME NEW u \in Loaders, NEW v \in Loaders, u # v
          PROVE  InFlight(u)' \cap InFlight(v)' = {}
      <3>1. InFlight(u) \cap InFlight(v) = {}
        BY <2>2 DEF LoadInv, FlightInv
      <3>2. l \notin InFlight(u) /\ l \notin InFlight(v)
        BY <1>10
      <3>3. CASE u = t
        BY <1>8, <1>9, <2>2, <3>1, <3>2, <3>3
      <3>4. CASE v = t
        BY <1>8, <1>9, <2>2, <3>1, <3>2, <3>4
      <3>5. CASE u # t /\ v # t
        BY <1>8, <3>1, <3>5
      <3> QED BY <3>3, <3>4, <3>5
    <2> QED BY <2>1, <2>2 DEF FlightInv
  <1>12. \A u \in Loaders : loadBuffer[u] \subseteq loadBuffer'[u]
    <2> SUFFICES ASSUME NEW u \in Loaders PROVE loadBuffer[u] \subseteq loadBuffer'[u]
      OBVIOUS
    <2>1. CASE u = t
      BY <1>1, <2>1
    <2>2. CASE u # t
      BY <1>1, <2>2
    <2> QED BY <2>1, <2>2
  <1>13. NothingDropped'
    <2> SUFFICES ASSUME batch > 0, NEW k \in Id1s
                 PROVE  /\ \A j \in 0 .. NLinks[k] - 1 :
                             \/ Ahead(k, j)'
                             \/ linkdb'[<<k, j>>] # Null
                             \/ \E u \in Loaders : <<k, j>> \in loadBuffer'[u]
                        /\ \/ NLinks[k] = 0 \/ Ahead(k, NLinks[k])'
                           \/ countdb'[k] # Null
                           \/ \E u \in Loaders : k \in countLoadBuffer'[u]
      BY <1>2 DEF NothingDropped
    <2>1. ASSUME NEW j \in 0 .. NLinks[k] - 1
          PROVE  \/ Ahead(k, j)'
                 \/ linkdb'[<<k, j>>] # Null
                 \/ \E u \in Loaders : <<k, j>> \in loadBuffer'[u]
      <3>1. <<k, j>> \in Links /\ j \in Nat
        BY LoadLinkFacts
      <3>2. \/ Ahead(k, j)
            \/ linkdb[<<k, j>>] # Null
            \/ \E u \in Loaders : <<k, j>> \in loadBuffer[u]
        BY DEF LoadInv, NothingDropped
      <3>3. CASE Ahead(k, j) /\ <<k, j>> = l
        <4>1. batch # 0
          BY BenchAssumption DEF BookInv, BookTypes
        <4> QED BY <1>1, <3>3, <4>1
      <3>4. CASE Ahead(k, j) /\ <<k, j>> # l
        BY <1>6, <3>1, <3>4
      <3> QED BY <1>12, <3>1, <3>2, <3>3, <3>4 DEF RowsGrow
    <2>2. NLinks[k] \in Nat
      BY BenchAssumption
    <2>3. \/ NLinks[k] = 0 \/ Ahead(k, NLinks[k])
          \/ countdb[k] # Null
          \/ \E u \in Loaders : k \in countLoadBuffer[u]
      BY DEF LoadInv, NothingDropped
    <2>4. <<k, NLinks[k]>> # l
      BY <1>1, <1>5, <2>2 DEF l
    <2> QED BY <1>2, <1>6, <2>1, <2>2, <2>3, <2>4 DEF RowsGrow
  <1>14. LoadedInv'
    <2>1. Loaded \subseteq Loaded'
      <3> SUFFICES ASSUME NEW m \in Loaded PROVE m \in Loaded'
        OBVIOUS
      <3>1. m \in LoadLinks /\ linkdb[m] # Null /\ ~Ahead(m[1], m[2])
            /\ \A u \in Loaders : m \notin InFlight(u)
        BY DEF Loaded
      <3>2. m \in Links /\ m[1] \in Id1s /\ m[2] \in Nat
        BY <3>1, LoadLinkFacts
      <3>3. m # l
        BY <1>6, <3>1
      <3>4. \A u \in Loaders : m \notin InFlight(u)'
        BY <1>8, <1>9, <3>1, <3>3
      <3>5. linkdb'[m] # Null /\ ~Ahead(m[1], m[2])'
        BY <1>6, <3>1, <3>2 DEF RowsGrow
      <3> QED BY <3>1, <3>4, <3>5 DEF Loaded
    <2>2. Cardinality(Loaded) <= Cardinality(Loaded')
      BY <2>1, LoadedFacts, FS_Subset
    <2>3. SumFunction(linksloaded)' = SumFunction(linksloaded) /\ SumFunction(linksloaded) \in Int
      BY <1>2, LoadedSum DEF BookInv, BookTypes
    <2>4. SumFunction(linksloaded) <= Cardinality(Loaded)
      BY DEF LoadInv, LoadedInv
    <2> QED BY <2>2, <2>3, <2>4, LoadedFacts DEF LoadedInv
  <1> QED BY <1>11, <1>13, <1>14 DEF LoadInv

LEMMA CountLinksLoad ==
    ASSUME TypeInv, BookInv, RowsGrow, LoadInv, NEW t \in Threads, CountLinks(t)
    PROVE  LoadInv'
  <1> DEFINE c == AddBulkCounts(LinkCounts(countLoadBuffer'[t]))
             i == at[t].id1
  <1>1. /\ task[t] = "load" /\ t \in Loaders
        /\ task' = task \/ task' = [task EXCEPT ![t] = "take"]
        /\ countLoadBuffer' \in [Loaders -> SUBSET Id1s]
        /\ \A u \in Loaders \ {t} : countLoadBuffer'[u] = countLoadBuffer[u]
        /\ countLoadBuffer'[t] = IF batch > 0 /\ NLinks[i] > 0
                                 THEN countLoadBuffer[t] \cup {i}
                                 ELSE countLoadBuffer[t]
        /\ UNCHANGED storevars \/ (batch > 0 /\ Call(t, c))
    BY CountLinksFacts
  <1>2. /\ batch' = batch /\ loadBuffer' = loadBuffer
        /\ linksloaded' = linksloaded /\ pc[t] = "idle"
    BY DEF CountLinks, Runs
  <1>3. CallType(c) /\ c.op = "addBulkCounts"
    <2>1. countLoadBuffer'[t] \in SUBSET Id1s
      BY <1>1
    <2> QED BY <2>1, LoadCallTypes
  <1>4. OthersStay(t) /\ (pc'[t] = "idle" \/ call'[t] = c)
    <2>1. CASE batch > 0 /\ Call(t, c)
      BY <1>3, <2>1, CallStep DEF AnyStepOK
    <2>2. CASE UNCHANGED storevars
      BY <1>2, <2>2 DEF storevars, progress, OthersStay
    <2> QED BY <1>1, <2>1, <2>2
  <1>5. /\ i \in Id1s
        /\ \A k \in Id1s : \A j \in Nat : Ahead(k, j)' <=> Ahead(k, j) /\ k # i
        /\ \A j \in Nat : j < NLinks[i] => ~Ahead(i, j)
    BY <1>1, LoaderFacts, CountLinksAhead
  <1> HIDE DEF c, i
  <1>6. \A u \in Threads \ {t} : task'[u] = task[u]
    BY <1>1 DEF BookInv, BookTypes
  <1>7. \A u \in Loaders : InFlight(u)' \subseteq InFlight(u)
    <2> SUFFICES ASSUME NEW u \in Loaders PROVE InFlight(u)' \subseteq InFlight(u)
      OBVIOUS
    <2>1. u \in Threads
      BY BenchAssumption
    <2>2. CASE u = t
      <3>1. ~Pending(t)'
        BY <1>3, <1>4 DEF Pending
      <3> QED BY <1>2, <2>2, <3>1 DEF InFlight
    <2>3. CASE u # t
      <3>1. (Pending(u)' <=> Pending(u)) /\ call'[u] = call[u]
        BY <1>4, <1>6, <2>1, <2>3 DEF Pending, OthersStay
      <3> QED BY <1>2, <3>1 DEF InFlight
    <2> QED BY <2>2, <2>3
  <1>8. FlightInv'
    <2>1. ASSUME NEW u \in Loaders, NEW m \in InFlight(u)'
          PROVE  m \in LoadLinks /\ ~Ahead(m[1], m[2])'
      <3>1. m \in LoadLinks /\ ~Ahead(m[1], m[2])
        BY <1>7 DEF LoadInv, FlightInv
      <3> QED BY <1>5, <3>1, LoadLinkFacts
    <2>2. ASSUME NEW u \in Loaders, NEW v \in Loaders, u # v
          PROVE  InFlight(u)' \cap InFlight(v)' = {}
      BY <1>7, <2>2 DEF LoadInv, FlightInv
    <2> QED BY <2>1, <2>2 DEF FlightInv
  <1>9. \A u \in Loaders : countLoadBuffer[u] \subseteq countLoadBuffer'[u]
    <2> SUFFICES ASSUME NEW u \in Loaders PROVE countLoadBuffer[u] \subseteq countLoadBuffer'[u]
      OBVIOUS
    <2>1. CASE u = t
      BY <1>1, <2>1
    <2>2. CASE u # t
      BY <1>1, <2>2
    <2> QED BY <2>1, <2>2
  <1>10. NothingDropped'
    <2> SUFFICES ASSUME batch > 0, NEW k \in Id1s
                 PROVE  /\ \A j \in 0 .. NLinks[k] - 1 :
                             \/ Ahead(k, j)'
                             \/ linkdb'[<<k, j>>] # Null
                             \/ \E u \in Loaders : <<k, j>> \in loadBuffer'[u]
                        /\ \/ NLinks[k] = 0 \/ Ahead(k, NLinks[k])'
                           \/ countdb'[k] # Null
                           \/ \E u \in Loaders : k \in countLoadBuffer'[u]
      BY <1>2 DEF NothingDropped
    <2>1. NLinks[k] \in Nat
      BY BenchAssumption
    <2>2. ASSUME NEW j \in 0 .. NLinks[k] - 1
          PROVE  \/ Ahead(k, j)'
                 \/ linkdb'[<<k, j>>] # Null
                 \/ \E u \in Loaders : <<k, j>> \in loadBuffer'[u]
      <3>1. <<k, j>> \in Links /\ j \in Nat
        BY LoadLinkFacts
      <3>2. \/ Ahead(k, j)
            \/ linkdb[<<k, j>>] # Null
            \/ \E u \in Loaders : <<k, j>> \in loadBuffer[u]
        BY DEF LoadInv, NothingDropped
      <3>3. j < NLinks[k]
        BY <2>1
      <3>4. Ahead(k, j) => Ahead(k, j)'
        BY <1>5, <3>1, <3>3
      <3> QED BY <1>2, <3>1, <3>2, <3>4 DEF RowsGrow
    <2>3. \/ NLinks[k] = 0 \/ Ahead(k, NLinks[k])
          \/ countdb[k] # Null
          \/ \E u \in Loaders : k \in countLoadBuffer[u]
      BY DEF LoadInv, NothingDropped
    <2>4. \/ NLinks[k] = 0 \/ Ahead(k, NLinks[k])'
          \/ countdb'[k] # Null
          \/ \E u \in Loaders : k \in countLoadBuffer'[u]
      <3>1. CASE k = i /\ NLinks[k] # 0
        <4>1. NLinks[i] > 0
          BY <2>1, <3>1
        <4> QED BY <1>1, <3>1, <4>1
      <3>2. CASE k # i
        BY <1>5, <1>9, <2>1, <2>3, <3>2 DEF RowsGrow
      <3> QED BY <3>1, <3>2
    <2> QED BY <2>2, <2>4
  <1>11. LoadedInv'
    <2>1. Loaded \subseteq Loaded'
      <3> SUFFICES ASSUME NEW m \in Loaded PROVE m \in Loaded'
        OBVIOUS
      <3>1. m \in LoadLinks /\ linkdb[m] # Null /\ ~Ahead(m[1], m[2])
            /\ \A u \in Loaders : m \notin InFlight(u)
        BY DEF Loaded
      <3>2. m \in Links /\ m[1] \in Id1s /\ m[2] \in Nat
        BY <3>1, LoadLinkFacts
      <3>3. linkdb'[m] # Null /\ ~Ahead(m[1], m[2])' /\ \A u \in Loaders : m \notin InFlight(u)'
        BY <1>5, <1>7, <3>1, <3>2 DEF RowsGrow
      <3> QED BY <3>1, <3>3 DEF Loaded
    <2>2. Cardinality(Loaded) <= Cardinality(Loaded')
      BY <2>1, LoadedFacts, FS_Subset
    <2>3. SumFunction(linksloaded)' = SumFunction(linksloaded) /\ SumFunction(linksloaded) \in Int
      BY <1>2, LoadedSum DEF BookInv, BookTypes
    <2>4. SumFunction(linksloaded) <= Cardinality(Loaded)
      BY DEF LoadInv, LoadedInv
    <2> QED BY <2>2, <2>3, <2>4, LoadedFacts DEF LoadedInv
  <1> QED BY <1>8, <1>10, <1>11 DEF LoadInv

LEMMA DisjointUnion ==
    ASSUME NEW S, NEW T, IsFiniteSet(S), IsFiniteSet(T), S \cap T = {}
    PROVE  Cardinality(S \cup T) = Cardinality(S) + Cardinality(T)
  <1>1. Cardinality(S \cap T) = 0
    BY FS_EmptySet
  <1>2. Cardinality(S) \in Nat /\ Cardinality(T) \in Nat
    BY FS_CardinalityType
  <1>3. Cardinality(S \cup T) = Cardinality(S) + Cardinality(T) - Cardinality(S \cap T)
    BY FS_Union
  <1> QED BY <1>1, <1>2, <1>3

(* The links of S, in flight until now, have been stored and are reported. *)
LEMMA LandLoad ==
    ASSUME BookInv, BookTypes', LoadInv, RowsGrow, SameAhead, batch' = batch,
           NEW t \in Loaders, NEW S \in SUBSET InFlight(t),
           \A l \in S : linkdb'[l] # Null,
           InFlight(t)' = InFlight(t) \ S,
           \A u \in Loaders \ {t} : InFlight(u)' = InFlight(u) /\ linksloaded'[u] = linksloaded[u],
           linksloaded'[t] = linksloaded[t] + Cardinality(S),
           \A u \in Loaders : \A l \in loadBuffer[u] : l \in loadBuffer'[u] \/ linkdb'[l] # Null,
           \A u \in Loaders : \A k \in countLoadBuffer[u] :
             k \in countLoadBuffer'[u] \/ countdb'[k] # Null
    PROVE  LoadInv'
  <1>1. \A u \in Loaders : InFlight(u)' \subseteq InFlight(u)
    OBVIOUS
  <1>2. FlightInv'
    <2>1. ASSUME NEW u \in Loaders, NEW m \in InFlight(u)'
          PROVE  m \in LoadLinks /\ ~Ahead(m[1], m[2])'
      <3>1. m \in LoadLinks /\ ~Ahead(m[1], m[2])
        BY <1>1 DEF LoadInv, FlightInv
      <3> QED BY <3>1, LoadLinkFacts DEF SameAhead
    <2>2. ASSUME NEW u \in Loaders, NEW v \in Loaders, u # v
          PROVE  InFlight(u)' \cap InFlight(v)' = {}
      BY <1>1, <2>2 DEF LoadInv, FlightInv
    <2> QED BY <2>1, <2>2 DEF FlightInv
  <1>3. NothingDropped'
    <2> SUFFICES ASSUME batch > 0, NEW k \in Id1s
                 PROVE  /\ \A j \in 0 .. NLinks[k] - 1 :
                             \/ Ahead(k, j)'
                             \/ linkdb'[<<k, j>>] # Null
                             \/ \E u \in Loaders : <<k, j>> \in loadBuffer'[u]
                        /\ \/ NLinks[k] = 0 \/ Ahead(k, NLinks[k])'
                           \/ countdb'[k] # Null
                           \/ \E u \in Loaders : k \in countLoadBuffer'[u]
      BY DEF NothingDropped
    <2>1. ASSUME NEW j \in 0 .. NLinks[k] - 1
          PROVE  \/ Ahead(k, j)'
                 \/ linkdb'[<<k, j>>] # Null
                 \/ \E u \in Loaders : <<k, j>> \in loadBuffer'[u]
      <3>1. <<k, j>> \in Links /\ j \in Nat
        BY LoadLinkFacts
      <3>2. \/ Ahead(k, j)
            \/ linkdb[<<k, j>>] # Null
            \/ \E u \in Loaders : <<k, j>> \in loadBuffer[u]
        BY DEF LoadInv, NothingDropped
      <3> QED BY <3>1, <3>2 DEF RowsGrow, SameAhead
    <2>2. NLinks[k] \in Nat
      BY BenchAssumption
    <2>3. \/ NLinks[k] = 0 \/ Ahead(k, NLinks[k])
          \/ countdb[k] # Null
          \/ \E u \in Loaders : k \in countLoadBuffer[u]
      BY DEF LoadInv, NothingDropped
    <2> QED BY <2>1, <2>2, <2>3 DEF RowsGrow, SameAhead
  <1>4. LoadedInv'
    <2>1. Loaded \subseteq Loaded'
      <3> SUFFICES ASSUME NEW m \in Loaded PROVE m \in Loaded'
        OBVIOUS
      <3>1. m \in LoadLinks /\ linkdb[m] # Null /\ ~Ahead(m[1], m[2])
            /\ \A u \in Loaders : m \notin InFlight(u)
        BY DEF Loaded
      <3>2. m \in Links /\ m[1] \in Id1s /\ m[2] \in Nat
        BY <3>1, LoadLinkFacts
      <3>3. linkdb'[m] # Null /\ ~Ahead(m[1], m[2])' /\ \A u \in Loaders : m \notin InFlight(u)'
        BY <1>1, <3>1, <3>2 DEF RowsGrow, SameAhead
      <3> QED BY <3>1, <3>3 DEF Loaded
    <2>2. S \subseteq Loaded' /\ S \cap Loaded = {} /\ S \subseteq Links
      <3>1. S \cap Loaded = {}
        BY DEF Loaded
      <3>2. ASSUME NEW m \in S PROVE m \in Loaded' /\ m \in Links
        <4>1. m \in InFlight(t) /\ m \in LoadLinks /\ ~Ahead(m[1], m[2])
          BY DEF LoadInv, FlightInv
        <4>2. m \in Links /\ m[1] \in Id1s /\ m[2] \in Nat
          BY <4>1, LoadLinkFacts
        <4>3. ~Ahead(m[1], m[2])' /\ linkdb'[m] # Null
          BY <4>1, <4>2 DEF SameAhead
        <4>4. ASSUME NEW u \in Loaders PROVE m \notin InFlight(u)'
          <5>1. CASE u = t
            BY <5>1
          <5>2. CASE u # t
            <6>1. InFlight(u) \cap InFlight(t) = {}
              BY <5>2 DEF LoadInv, FlightInv
            <6> QED BY <1>1, <4>1, <6>1
          <5> QED BY <5>1, <5>2
        <4> QED BY <4>1, <4>2, <4>3, <4>4 DEF Loaded
      <3> QED BY <3>1, <3>2
    <2>3. IsFiniteSet(S) /\ Cardinality(S) \in Nat
      BY <2>2, LoadLinkFacts
    <2>4. Cardinality(Loaded \cup S) = Cardinality(Loaded) + Cardinality(S)
      BY <2>2, <2>3, LoadedFacts, DisjointUnion
    <2>5. Cardinality(Loaded \cup S) <= Cardinality(Loaded')
      <3>1. Loaded \cup S \subseteq Loaded'
        BY <2>1, <2>2
      <3> QED BY <3>1, LoadedFacts, FS_Subset
    <2>6. /\ linksloaded \in [Loaders -> Nat] /\ linksloaded' \in [Loaders -> Nat]
      BY DEF BookInv, BookTypes
    <2>7. /\ SumFunction(linksloaded) = SumFunctionOnSet(linksloaded, Loaders)
          /\ SumFunction(linksloaded') = SumFunctionOnSet(linksloaded', Loaders)
          /\ SumFunction(linksloaded) \in Int /\ IsFiniteSet(Loaders)
      BY <2>6, LoadedSum
    <2>8. SumFunctionOnSet(linksloaded', Loaders)
            = SumFunctionOnSet(linksloaded, Loaders) + (linksloaded'[t] - linksloaded[t])
      <3>1. \A x \in Loaders : linksloaded[x] \in Int /\ linksloaded'[x] \in Int
        BY <2>6
      <3>2. \A x \in Loaders \ {t} : linksloaded[x] = linksloaded'[x]
        OBVIOUS
      <3>3. PICK f, h : f = linksloaded /\ h = linksloaded'
        OBVIOUS
      <3>4. /\ IsFiniteSet(Loaders) /\ \A x \in Loaders : f[x] \in Int /\ h[x] \in Int
            /\ \A x \in Loaders \ {t} : f[x] = h[x]
        BY <2>7, <3>1, <3>2, <3>3
      <3>5. SumFunctionOnSet(h, Loaders) = SumFunctionOnSet(f, Loaders) + (h[t] - f[t])
        BY <3>4, SumChange
      <3> QED BY <3>3, <3>5
    <2>9. linksloaded'[t] - linksloaded[t] = Cardinality(S)
      BY <2>3, <2>6
    <2>10. SumFunction(linksloaded') = SumFunction(linksloaded) + Cardinality(S)
      BY <2>7, <2>8, <2>9
    <2>11. SumFunction(linksloaded) <= Cardinality(Loaded)
      BY DEF LoadInv, LoadedInv
    <2>12. SumFunction(linksloaded') <= Cardinality(Loaded')
      BY <2>3, <2>4, <2>5, <2>7, <2>10, <2>11, LoadedFacts
    <2> QED BY <2>12 DEF LoadedInv
  <1> QED BY <1>2, <1>3, <1>4 DEF LoadInv

LEMMA LoadCallDoneLoad ==
    ASSUME TypeInv, BookInv, RowsInv, RowsGrow, LoadInv, NEW t \in Threads, LoadCallDone(t)
    PROVE  LoadInv'
  <1>1. /\ BookInv' /\ t \in Loaders /\ LoadCall(t) /\ task[t] # "request" /\ pc[t] = "returned"
    BY ReturnBook
  <1>2. /\ reply[t] = "ok" /\ linkdb' = linkdb /\ countdb' = countdb /\ call' = call
        /\ batch' = batch /\ chunk_q' = chunk_q /\ task' = task /\ at' = at
    BY DEF LoadCallDone, TakeReply, linktable, counttable
  <1>3. OthersStay(t) /\ pc'[t] = "idle"
    BY TakeReplyStep DEF LoadCallDone, AnyStepOK
  <1>4. WroteOK(t) /\ SameAhead
    BY <1>2, AheadStays DEF RowsInv
  <1>5. /\ linksloaded \in [Loaders -> Nat] /\ loadBuffer \in [Loaders -> SUBSET Links]
        /\ countLoadBuffer \in [Loaders -> SUBSET Id1s] /\ BookTypes'
    BY <1>1 DEF BookInv, BookTypes
  <1>6. ~Pending(t)' /\ InFlight(t)' = loadBuffer'[t]
    BY <1>3 DEF Pending, InFlight
  <1>7. ASSUME \A u \in Loaders \ {t} : loadBuffer'[u] = loadBuffer[u], NEW u \in Loaders \ {t}
        PROVE  InFlight(u)' = InFlight(u)
    <2>1. u \in Threads \ {t}
      BY BenchAssumption
    <2>2. (Pending(u)' <=> Pending(u)) /\ call'[u] = call[u]
      BY <1>2, <1>3, <2>1 DEF Pending, OthersStay
    <2> QED BY <1>7, <2>2 DEF InFlight
  <1>8. CASE call[t].op = "addLink"
    <2>1. /\ linksloaded' = [linksloaded EXCEPT ![t] = @ + 1]
          /\ loadBuffer' = loadBuffer /\ countLoadBuffer' = countLoadBuffer
      BY <1>8 DEF LoadCallDone
    <2>2. batch = 0 /\ call[t].visibility = "DEFAULT"
      BY <1>1, <1>8, LoadCallIs
    <2>3. linkdb'[call[t].link] # Null
      BY <1>1, <1>2, <1>4, <1>8, <2>2 DEF WroteOK
    <2>4. loadBuffer[t] = {}
      BY <1>1, <2>2 DEF BookInv, ThreadIsAt, LoaderOK
    <2>5. InFlight(t) = {call[t].link}
      BY <1>1, <1>8, <2>4 DEF InFlight, Pending
    <2>6. InFlight(t)' = InFlight(t) \ {call[t].link}
      BY <1>6, <2>1, <2>4, <2>5
    <2>7. linksloaded'[t] = linksloaded[t] + Cardinality({call[t].link})
      BY <1>1, <1>5, <2>1, FS_Singleton
    <2>8. \A u \in Loaders \ {t} : InFlight(u)' = InFlight(u) /\ linksloaded'[u] = linksloaded[u]
      BY <1>5, <1>7, <2>1
    <2>9. /\ \A u \in Loaders : \A l \in loadBuffer[u] : l \in loadBuffer'[u] \/ linkdb'[l] # Null
          /\ \A u \in Loaders : \A k \in countLoadBuffer[u] :
               k \in countLoadBuffer'[u] \/ countdb'[k] # Null
      BY <2>1
    <2>10. {call[t].link} \in SUBSET InFlight(t) /\ \A l \in {call[t].link} : linkdb'[l] # Null
      BY <2>3, <2>5
    <2> QED BY <1>1, <1>2, <1>4, <1>5, <2>6, <2>7, <2>8, <2>9, <2>10, LandLoad
  <1>9. CASE call[t].op = "addBulkLinks"
    <2>1. /\ linksloaded' = [linksloaded EXCEPT ![t] = @ + Cardinality(call[t].links)]
          /\ loadBuffer' = [loadBuffer EXCEPT ![t] = {}] /\ countLoadBuffer' = countLoadBuffer
      BY <1>9 DEF LoadCallDone
    <2>2. call[t].links = loadBuffer[t]
      BY <1>1, <1>9, LoadCallIs
    <2>3. \A l \in loadBuffer[t] : linkdb'[l] # Null
      BY <1>1, <1>2, <1>4, <1>9, <2>2 DEF WroteOK
    <2>4. InFlight(t) = loadBuffer[t]
      BY <1>9 DEF InFlight, Pending
    <2>5. InFlight(t)' = InFlight(t) \ loadBuffer[t]
      BY <1>1, <1>5, <1>6, <2>1, <2>4
    <2>6. linksloaded'[t] = linksloaded[t] + Cardinality(loadBuffer[t])
      BY <1>1, <1>5, <2>1, <2>2
    <2>7. \A u \in Loaders \ {t} : /\ loadBuffer'[u] = loadBuffer[u]
                                   /\ linksloaded'[u] = linksloaded[u]
      BY <1>5, <2>1
    <2>8. \A u \in Loaders \ {t} : InFlight(u)' = InFlight(u) /\ linksloaded'[u] = linksloaded[u]
      BY <1>7, <2>7
    <2>9. ASSUME NEW u \in Loaders, NEW l \in loadBuffer[u]
          PROVE  l \in loadBuffer'[u] \/ linkdb'[l] # Null
      BY <2>3, <2>7
    <2>10. \A u \in Loaders : \A k \in countLoadBuffer[u] :
               k \in countLoadBuffer'[u] \/ countdb'[k] # Null
      BY <2>1
    <2>11. loadBuffer[t] \in SUBSET InFlight(t)
      BY <2>4
    <2> QED BY <1>1, <1>2, <1>4, <1>5, <2>3, <2>5, <2>6, <2>8, <2>9, <2>10, <2>11, LandLoad
  <1>10. CASE call[t].op = "addBulkCounts"
    <2>1. /\ linksloaded' = linksloaded /\ loadBuffer' = loadBuffer
          /\ countLoadBuffer' = [countLoadBuffer EXCEPT ![t] = {}]
      BY <1>10 DEF LoadCallDone
    <2>2. DOMAIN call[t].counts = countLoadBuffer[t]
      BY <1>1, <1>10, LoadCallIs
    <2>3. \A k \in countLoadBuffer[t] : countdb'[k] # Null
      BY <1>1, <1>2, <1>4, <1>10, <2>2 DEF WroteOK
    <2>4. InFlight(t) = loadBuffer[t]
      BY <1>10 DEF InFlight, Pending
    <2>5. InFlight(t)' = InFlight(t) \ {}
      BY <1>6, <2>1, <2>4
    <2>6. linksloaded'[t] = linksloaded[t] + Cardinality({})
      BY <1>1, <1>5, <2>1, FS_EmptySet
    <2>7. \A u \in Loaders \ {t} : InFlight(u)' = InFlight(u) /\ linksloaded'[u] = linksloaded[u]
      BY <1>7, <2>1
    <2>8. \A u \in Loaders : \A l \in loadBuffer[u] : l \in loadBuffer'[u] \/ linkdb'[l] # Null
      BY <2>1
    <2>9. ASSUME NEW u \in Loaders, NEW k \in countLoadBuffer[u]
          PROVE  k \in countLoadBuffer'[u] \/ countdb'[k] # Null
      <3>1. CASE u = t
        BY <2>3, <3>1
      <3>2. CASE u # t
        BY <1>5, <2>1, <3>2
      <3> QED BY <3>1, <3>2
    <2>10. {} \in SUBSET InFlight(t) /\ \A l \in {} : linkdb'[l] # Null
      OBVIOUS
    <2> QED BY <1>1, <1>2, <1>4, <1>5, <2>5, <2>6, <2>7, <2>8, <2>9, <2>10, LandLoad
  <1> QED BY <1>8, <1>9, <1>10 DEF LoadCallDone

LEMMA InitLoad ==
    ASSUME Init
    PROVE  LoadInv
  <1>1. /\ BookInv
        /\ \A k \in Id1s : \E i \in DOMAIN chunk_q : chunk_q[i] # Null /\ k \in Span(chunk_q[i])
    BY InitBook
  <1>2. \A t \in Loaders : InFlight(t) = {}
    <2>1. ASSUME NEW t \in Loaders PROVE InFlight(t) = {}
      <3>1. t \in Threads
        BY BenchAssumption
      <3> QED BY <3>1 DEF Init, StoreInit, InFlight, Pending
    <2> QED BY <2>1
  <1>3. FlightInv
    BY <1>2 DEF FlightInv
  <1>4. \A k \in Id1s : \A j : Ahead(k, j)
    <2> SUFFICES ASSUME NEW k \in Id1s, NEW j PROVE Ahead(k, j)
      OBVIOUS
    <2>1. PICK i \in DOMAIN chunk_q : chunk_q[i] # Null /\ k \in Span(chunk_q[i])
      BY <1>1
    <2>2. chunk_q[i] \in Range(chunk_q) \ {Null} /\ k \in chunk_q[i].start .. chunk_q[i].end - 1
      BY <2>1 DEF Range, Span
    <2> QED BY <2>2 DEF Ahead
  <1>5. NothingDropped
    BY <1>4 DEF NothingDropped
  <1>6. LoadedInv
    <2>1. linksloaded \in [Loaders -> Nat] /\ \A t \in Loaders : linksloaded[t] = 0
      BY <1>1 DEF BookInv, BookTypes, Init
    <2>2. SumFunctionOnSet(linksloaded, Loaders) = 0
      BY <2>1, SumNat, BenchAssumption
    <2>3. SumFunction(linksloaded) = 0
      BY <2>1, <2>2, LoadedSum
    <2> QED BY <2>3, LoadedFacts DEF LoadedInv
  <1> QED BY <1>3, <1>5, <1>6 DEF LoadInv

(* The inductive invariant of a load. *)
RunInv == TypeInv /\ BookInv /\ RowsInv /\ LoadInv

LEMMA LoadStepKeeps ==
    ASSUME TypeInv, BookInv, RowsInv, LoadInv, NEW t \in Threads, Works(t) \/ Fails(t), Hiding(t)'
    PROVE  RowsInv' /\ LoadInv'
  <1>1. RowsInv' /\ RowsGrow
    BY IsStoreStep, StoreStepRows
  <1>2. LoadInv'
    BY <1>1, QuietSteps, QuietKeepsLoad, CreateLinkLoad, CountLinksLoad, LoadCallDoneLoad
       DEF Works, Fails, Load
  <1> QED BY <1>1, <1>2

LEMMA NextLoad ==
    ASSUME HidingCalls, RunInv, [Next]_vars
    PROVE  RunInv'
  <1>1. TypeInv /\ BookInv /\ RowsInv /\ LoadInv
    BY DEF RunInv
  <1>2. TypeInv' /\ BookInv'
    BY <1>1, NextBook
  <1>3. ASSUME NEW t \in Threads, Works(t) \/ Fails(t)
        PROVE  RowsInv' /\ LoadInv'
    BY <1>1, <1>3, IsStoreStep, StoreStepHides, LoadStepKeeps
  <1>4. ASSUME SendRequests \/ Complete \/ TimeUp \/ Over \/ UNCHANGED vars
        PROVE  RowsInv' /\ LoadInv'
    <2>1. RowsInv'
      BY <1>1, <1>4, DriverLeavesStores, StoreStutters, NoStep DEF StoreStays
    <2> QED BY <1>1, <1>4, <2>1, QuietDriver, QuietKeepsLoad
  <1>5. RowsInv' /\ LoadInv'
    BY <1>3, <1>4 DEF Next
  <1> QED BY <1>2, <1>5 DEF RunInv

(* A bulk load drops nothing, however its calls fail: a link a loader has  *)
(* come to is in the table or in its buffer, and so is the count of an id1 *)
(* all of whose links are made.  With requests that expunge no links.      *)
THEOREM NothingIsDropped == ASSUME HidingCalls PROVE Spec => []NothingDropped
  <1>1. Init => RunInv
    BY StoreInitTypes, InitBook, InitLoad DEF Init, RunInv
  <1>2. RunInv /\ [Next]_vars => RunInv'
    BY NextLoad
  <1>3. RunInv => NothingDropped
    BY DEF RunInv, LoadInv
  <1> QED BY <1>1, <1>2, <1>3, PTL DEF Spec

(* The links that the loaders report are in the table: no link is counted  *)
(* twice, although a batch whose commit was not answered is stored again.  *)
THEOREM LoadedLinksAreStored == ASSUME HidingCalls PROVE Spec => []LoadedAreStored
  <1>1. Init => RunInv
    BY StoreInitTypes, InitBook, InitLoad DEF Init, RunInv
  <1>2. RunInv /\ [Next]_vars => RunInv'
    BY NextLoad
  <1>3. RunInv => LoadedAreStored
    <2> SUFFICES ASSUME RunInv PROVE LoadedAreStored
      OBVIOUS
    <2> DEFINE S == {l \in Links : linkdb[l] # Null}
    <2>1. Loaded \subseteq S /\ S \in SUBSET Links
      BY DEF Loaded, LoadLinks
    <2>2. IsFiniteSet(S) /\ Cardinality(S) \in Nat
      BY <2>1, LoadLinkFacts
    <2>3. Cardinality(Loaded) <= Cardinality(S)
      BY <2>1, <2>2, FS_Subset
    <2>4. SumFunction(linksloaded) <= Cardinality(Loaded) /\ SumFunction(linksloaded) \in Int
      BY LoadedSum DEF RunInv, LoadInv, LoadedInv, BookInv, BookTypes
    <2> QED BY <2>2, <2>3, <2>4, LoadedFacts DEF LoadedAreStored
  <1> QED BY <1>1, <1>2, <1>3, PTL DEF Spec

----------------------------------------------------------------------------
(* What calls of single links leave of the counts *)

LEMMA StoreStaysKeeps ==
    ASSUME NEW X, StoreInv(X), StoreStays
    PROVE  StoreInv(X)'
  <1>1. LinksStay /\ CountsStay
    BY DEF StoreStays
  <1>2. /\ open' = open /\ call' = call /\ pc' = pc /\ reply' = reply /\ local' = local
        /\ doubted' = doubted /\ faults' \in 0 .. MaxFaults
    BY DEF StoreStays
  <1>3. StoreTypeOK' /\ UnlockedIsCommitted'
    BY <1>1, <1>2 DEF StoreInv, StoreTypeOK, UnlockedIsCommitted, LinksStay, CountsStay
  <1>4. CountsMatchBut(X)'
    BY <1>1, <1>2, CountsKeep DEF StoreInv, LinksStay, CountsStay
  <1>5. \A u \in Threads : ThreadOK(u, X)'
    BY <1>1, <1>2 DEF StoreInv, ThreadOK, CallOK, AtOK, OthersUnmoved, OwnMoved, LinkDelta,
       CountDelta, LinkWeight, CountOf, LinksStay, CountsStay
  <1> QED BY <1>3, <1>4, <1>5 DEF StoreInv

(* A loader takes a step in the load only. *)
LEMMA LoadPhase ==
    ASSUME BookInv, NEW t \in Threads, Load(t)
    PROVE  phase \in {"load", "halted"}
  <1>1. ThreadIsAt(t)
    BY DEF BookInv
  <1>2. CASE task[t] \in LoadTasks
    BY <1>1, <1>2 DEF ThreadIsAt, TaskOK
  <1>3. CASE LoadCallDone(t) \/ LoadCallFailed(t)
    BY <1>1, <1>3 DEF ThreadIsAt, TaskOK, LoadCallDone, LoadCallFailed, TakeReply, ClearErrors
  <1> QED BY <1>2, <1>3 DEF Load, TakeChunk, CreateLink, CountLinks, FlushLinks, FlushCounts,
       Runs, LoadTasks

(* Requests, and loaders that add one link at a time, keep the counts. *)
LEMMA LinkByLinkKeeps ==
    ASSUME NEW X, StoreInv(X), TypeInv, BookInv, batch = 0 \/ phase \in {"requests", "done"},
           NEW t \in Threads, Works(t) \/ Fails(t)
    PROVE  StoreInv(X)'
  <1> DEFINE Single == \/ Statement(t) \/ Failure(t) \/ Initialize(t) \/ TakeReply(t)
                       \/ ClearErrors(t) \/ Close(t) \/ StoreStays
                       \/ \E c \in LinkCalls : Call(t, c)
  <1>1. Single => StoreInv(X)'
    BY CallKeeps, StatementKeeps, FailureKeeps, InitializeKeeps, TakeReplyKeeps, ClearErrorsKeeps,
       CloseKeeps, StoreStaysKeeps
  <1>2. StoreStep(t) => Single \/ (LoadersCall(t) /\ batch # 0)
    BY StoreAssumption DEF StoreStep, LoadersCall
  <1>3. CASE batch = 0
    BY <1>1, <1>2, <1>3, IsStoreStep
  <1>4. CASE phase \in {"requests", "done"}
    <2>1. ~Load(t)
      BY <1>4, LoadPhase
    <2>2. CASE Requester(t)
      <3>1. Single
        BY <2>2, StoreAssumption, StoreStutters DEF Requester, Request, Served, Failed, RequestsOver
      <3> QED BY <3>1, <1>1
    <2>3. CASE InitializeStore(t) \/ CloseStore(t)
      BY <1>1, <2>3 DEF InitializeStore, CloseStore
    <2>4. CASE InitializeFails(t)
      <3>1. faults' \in 0 .. MaxFaults
        BY <2>4, StoreAssumption DEF InitializeFails, TypeInv, StoreTypeOK
      <3>2. StoreStays
        BY <2>4, <3>1 DEF InitializeFails, StoreStays, linktable, counttable, progress, LinksStay,
           CountsStay
      <3> QED BY <1>1, <3>2
    <2>5. CASE Statement(t) \/ Failure(t)
      BY <1>1, <2>5
    <2> QED BY <2>1, <2>2, <2>3, <2>4, <2>5 DEF Works, Fails
  <1> QED BY <1>3, <1>4

(* The driver's steps. *)
LEMMA DriverKeeps ==
    ASSUME NEW X, StoreInv(X), SendRequests \/ Complete \/ TimeUp \/ Over \/ UNCHANGED vars
    PROVE  StoreInv(X)'
  BY DriverLeavesStores, StutterKeeps

----------------------------------------------------------------------------
(* What a bulk load has stored *)

LinkMade(l)  == l \in LoadLinks /\ ~Ahead(l[1], l[2])
CountMade(k) == NLinks[k] > 0 /\ ~Ahead(k, NLinks[k])

LinkAsMade(l, row) == row # Null => row.visibility = "DEFAULT" /\ LinkMade(l)
CountAsMade(k, n)  == n # Null => n = NLinks[k] /\ CountMade(k)

(* The rows of a bulk load, committed or not, are those it was to store,   *)
(* and no count is there before the last link of its id1 was made.         *)
RowsAsMade ==
    /\ \A l \in Links : LinkAsMade(l, linkdb[l]) /\ LinkAsMade(l, linkcur[l])
    /\ \A k \in Id1s : CountAsMade(k, countdb[k]) /\ CountAsMade(k, countcur[k])
    /\ \A t \in Loaders : \A k \in countLoadBuffer[t] : CountMade(k)

(* What is not ahead stays so. *)
LEMMA AheadShrinks ==
    ASSUME TypeInv, BookInv, NEW t \in Threads, Works(t) \/ Fails(t)
    PROVE  \A k \in Id1s : \A j \in Nat : Ahead(k, j)' => Ahead(k, j)
  <1>1. CASE CreateLink(t)
    BY <1>1, CreateLinkAhead
  <1>2. CASE CountLinks(t)
    BY <1>2, CountLinksAhead
  <1>3. CASE LoadCallDone(t)
    BY <1>3, AheadStays DEF LoadCallDone, SameAhead
  <1>4. ASSUME ~CreateLink(t), ~CountLinks(t), ~LoadCallDone(t)
        PROVE  SameAhead
    BY <1>4, QuietSteps DEF Works, Fails, Load
  <1> QED BY <1>1, <1>2, <1>3, <1>4 DEF SameAhead

LEMMA MadeStays ==
    ASSUME TypeInv, BookInv, NEW t \in Threads, Works(t) \/ Fails(t)
    PROVE  /\ \A l \in Links : LinkMade(l) => LinkMade(l)'
           /\ \A k \in Id1s : CountMade(k) => CountMade(k)'
  <1>1. \A k \in Id1s : \A j \in Nat : Ahead(k, j)' => Ahead(k, j)
    BY AheadShrinks
  <1>2. \A k \in Id1s : NLinks[k] \in Nat
    BY BenchAssumption
  <1>3. \A l \in Links : LinkMade(l) => LinkMade(l)'
    BY <1>1, LoadLinkFacts DEF LinkMade
  <1>4. \A k \in Id1s : CountMade(k) => CountMade(k)'
    BY <1>1, <1>2 DEF CountMade
  <1> QED BY <1>3, <1>4

(* In a bulk load calls are of batches. *)
LEMMA BulkPoint ==
    ASSUME TypeInv, BookInv, batch > 0, phase = "load", NEW t \in Threads, pc[t] # "idle"
    PROVE  /\ t \in Loaders /\ pc[t] \notin AddPoints \cup DeletePoints \cup {"read"}
           /\ call[t].op = "addBulkLinks" => call[t].links = loadBuffer[t]
           /\ call[t].op = "addBulkCounts" =>
                /\ call[t].counts = LinkCounts(countLoadBuffer[t])
                /\ DOMAIN call[t].counts = countLoadBuffer[t]
  <1>1. t \in Loaders /\ LoadCall(t) /\ batch # 0
    BY BenchAssumption DEF BookInv, BookTypes, ThreadIsAt, TaskOK
  <1>2. \/ call[t].op = "addBulkLinks" /\ call[t].links = loadBuffer[t]
        \/ /\ call[t].op = "addBulkCounts" /\ call[t].counts = LinkCounts(countLoadBuffer[t])
           /\ DOMAIN call[t].counts = countLoadBuffer[t]
    BY <1>1, LoadCallIs
  <1>3. PointOK(t)
    BY DEF TypeInv
  <1> QED BY <1>1, <1>2, <1>3 DEF PointOK, AddPoints, DeletePoints

(* Where a row goes in a step of a bulk load. *)
LinkGoes(l) ==
    /\ linkdb'[l] \in {linkdb[l], linkcur[l]}
    /\ \/ linkcur'[l] \in {linkdb[l], linkcur[l]}
       \/ linkcur'[l].visibility = "DEFAULT" /\ LinkMade(l)

CountGoes(k) ==
    /\ countdb'[k] \in {countdb[k], countcur[k]}
    /\ \/ countcur'[k] \in {countdb[k], countcur[k]}
       \/ countcur'[k] = NLinks[k] /\ CountMade(k)

RowsGo == (\A l \in Links : LinkGoes(l)) /\ (\A k \in Id1s : CountGoes(k))

LEMMA RowsStayPut ==
    /\ LinksStay  => \A l \in Links : LinkGoes(l)
    /\ CountsStay => \A k \in Id1s : CountGoes(k)
  BY DEF LinksStay, CountsStay, LinkGoes, CountGoes

LEMMA RowsRollBack ==
    ASSUME TypeInv, NEW t \in Threads, L!Rollback(t), C!Rollback(t)
    PROVE  RowsGo
  <1>1. LinksRolledBack(t) /\ CountsRolledBack(t)
    BY RollbackRows DEF TypeInv
  <1>2. \A l \in Links : linkdb'[l] = linkdb[l] /\ linkcur'[l] \in {linkdb[l], linkcur[l]}
    BY <1>1 DEF LinksRolledBack
  <1>3. \A k \in Id1s : countdb'[k] = countdb[k] /\ countcur'[k] \in {countdb[k], countcur[k]}
    BY <1>1 DEF CountsRolledBack
  <1> QED BY <1>2, <1>3 DEF RowsGo, LinkGoes, CountGoes

LEMMA RowsCommitted ==
    ASSUME TypeInv, NEW t \in Threads, CommitAll(t)
    PROVE  RowsGo
  <1>1. LinksCommitted(t) /\ CountsCommitted(t)
    BY CommitRows DEF TypeInv
  <1>2. \A l \in Links : linkcur'[l] = linkcur[l] /\ linkdb'[l] \in {linkdb[l], linkcur[l]}
    BY <1>1 DEF LinksCommitted
  <1>3. \A k \in Id1s : countcur'[k] = countcur[k] /\ countdb'[k] \in {countdb[k], countcur[k]}
    BY <1>1 DEF CountsCommitted
  <1> QED BY <1>2, <1>3 DEF RowsGo, LinkGoes, CountGoes

LEMMA InsertAllGoes ==
    ASSUME TypeInv, BookInv, LoadInv, batch > 0, phase = "load", NEW t \in Threads, InsertAll(t)
    PROVE  RowsGo
  <1> DEFINE c   == call[t]
             new == [l \in c.links |-> Upserted(linkcur[l], "DEFAULT", c.data)]
  <1>1. pc[t] = "insertAll" /\ CallType(c) /\ c.op = "addBulkLinks"
    BY DEF InsertAll, TypeInv, PointOK
  <1>2. c.links \subseteq Links /\ c.data \in Data
    BY <1>1, CallTypeFacts
  <1>3. t \in Loaders /\ c.links = loadBuffer[t]
    BY <1>1, BulkPoint
  <1>4. \A l \in c.links : LinkMade(l)
    BY <1>3 DEF LoadInv, FlightInv, InFlight, LinkMade
  <1>5. \A l \in c.links : new[l].visibility = "DEFAULT"
    <2> SUFFICES ASSUME NEW l \in c.links
                 PROVE  Upserted(linkcur[l], "DEFAULT", c.data).visibility = "DEFAULT"
      OBVIOUS
    <2>1. linkcur[l] \in LinkRow \cup {Null} /\ "DEFAULT" \in Visibilities
      BY <1>2 DEF TypeInv, StoreTypeOK, Visibilities
    <2> QED BY <1>2, <2>1, UpsertFacts
  <1>6. L!WriteRows(t, new) /\ DOMAIN new = c.links /\ CountsStay
    BY DEF InsertAll, CountsStay, counttable
  <1> HIDE DEF new
  <1>7. /\ linkcur' = [l \in Links |-> IF l \in c.links THEN new[l] ELSE linkcur[l]]
        /\ linkdb' = linkdb
    BY <1>6 DEF L!WriteRows
  <1> HIDE DEF c
  <1>8. \A l \in Links : LinkGoes(l)
    BY <1>4, <1>5, <1>7 DEF LinkGoes
  <1> QED BY <1>6, <1>8, RowsStayPut DEF RowsGo

LEMMA ReplaceAllGoes ==
    ASSUME TypeInv, BookInv, RowsAsMade, batch > 0, phase = "load", NEW t \in Threads,
           ReplaceAll(t)
    PROVE  RowsGo
  <1> DEFINE new == call[t].counts
  <1>1. pc[t] = "replaceAll" /\ call[t].op = "addBulkCounts"
    BY DEF ReplaceAll, TypeInv, PointOK
  <1>2. t \in Loaders /\ new = LinkCounts(countLoadBuffer[t]) /\ DOMAIN new = countLoadBuffer[t]
    BY <1>1, BulkPoint
  <1>3. \A k \in DOMAIN new : new[k] = NLinks[k] /\ CountMade(k)
    BY <1>2 DEF RowsAsMade, LinkCounts
  <1>4. C!WriteRows(t, new) /\ LinksStay
    BY DEF ReplaceAll, LinksStay, linktable
  <1> HIDE DEF new
  <1>5. /\ countcur' = [k \in Id1s |-> IF k \in DOMAIN new THEN new[k] ELSE countcur[k]]
        /\ countdb' = countdb
    BY <1>4 DEF C!WriteRows
  <1>6. \A k \in Id1s : CountGoes(k)
    BY <1>3, <1>5 DEF CountGoes
  <1> QED BY <1>4, <1>6, RowsStayPut DEF RowsGo

LEMMA BulkRowsGo ==
    ASSUME TypeInv, BookInv, LoadInv, RowsAsMade, batch > 0, phase = "load", NEW t \in Threads,
           StoreStep(t)
    PROVE  RowsGo
  <1>1. ASSUME LinksStay, CountsStay PROVE RowsGo
    BY <1>1, RowsStayPut DEF RowsGo
  <1>2. CASE StoreStays \/ Initialize(t) \/ TakeReply(t) \/ ReadLink(t) \/ LockWaitTimeout(t)
             \/ StatementFails(t)
    <2>1. LinksStay /\ CountsStay
      BY <1>2 DEF StoreStays, Initialize, TakeReply, ReadLink, LockWaitTimeout, StatementFails,
         LinksStay, CountsStay, linktable, counttable
    <2> QED BY <2>1, <1>1
  <1>3. CASE \E c : Call(t, c)
    <2>1. LinksStay /\ CountsStay
      BY <1>3 DEF Call, LinksStay, CountsStay, linktable, counttable
    <2> QED BY <2>1, <1>1
  <1>4. CASE ClearErrors(t) \/ Close(t) \/ Deadlock(t)
    BY <1>4, RowsRollBack DEF ClearErrors, Close, Deadlock
  <1>5. CASE CommitCall(t)
    BY <1>5, RowsCommitted DEF CommitCall
  <1>6. CASE InsertAll(t) \/ ReplaceAll(t)
    BY <1>6, InsertAllGoes, ReplaceAllGoes
  <1>7. /\ ~InsertLink(t) /\ ~UpdateCount(t) /\ ~UpdateData(t) /\ ~SelectLink(t)
        /\ ~DeleteRow(t) /\ ~CountDown(t)
    BY BulkPoint DEF InsertLink, UpdateCount, UpdateData, SelectLink, DeleteRow, CountDown,
       AddPoints, DeletePoints
  <1> QED BY <1>2, <1>3, <1>4, <1>5, <1>6, <1>7 DEF StoreStep, Statement, Failure, LoadersCall

(* The counts in the buffers. *)
LEMMA BuffersMade ==
    ASSUME TypeInv, BookInv, RowsAsMade, NEW t \in Threads, Works(t) \/ Fails(t)
    PROVE  \A u \in Loaders : \A k \in countLoadBuffer'[u] : CountMade(k)'
  <1>1. \A u \in Loaders : \A k \in countLoadBuffer[u] : k \in Id1s /\ CountMade(k)'
    BY MadeStays DEF RowsAsMade, BookInv, BookTypes
  <1>2. CASE CountLinks(t)
    <2>1. /\ t \in Loaders /\ task[t] = "load"
          /\ \A u \in Loaders \ {t} : countLoadBuffer'[u] = countLoadBuffer[u]
          /\ countLoadBuffer'[t] = IF batch > 0 /\ NLinks[at[t].id1] > 0
                                   THEN countLoadBuffer[t] \cup {at[t].id1}
                                   ELSE countLoadBuffer[t]
      BY <1>2, CountLinksFacts
    <2>2. at[t].id1 \in Id1s /\ NLinks[at[t].id1] \in Nat
      BY <2>1, LoaderFacts
    <2>3. PICK i \in Id1s : i = at[t].id1
      BY <2>2
    <2>4. ~Ahead(i, NLinks[i])'
      <3>1. \A k \in Id1s : \A j \in Nat : Ahead(k, j)' => k # i
        BY <1>2, <2>3, CountLinksAhead
      <3> QED BY <3>1, <2>2, <2>3
    <2>5. NLinks[i] > 0 => CountMade(i)'
      BY <2>4 DEF CountMade
    <2>6. \A u \in Loaders : \A k \in countLoadBuffer'[u] :
            k \in countLoadBuffer[u] \/ (k = i /\ NLinks[i] > 0)
      BY <2>1, <2>3
    <2> QED BY <1>1, <2>5, <2>6
  <1>3. CASE ~CountLinks(t)
    <2>1. \A u \in Loaders : countLoadBuffer'[u] \subseteq countLoadBuffer[u]
      BY <1>3 DEF Works, Fails, InitializeStore, InitializeFails, Load, TakeChunk, CreateLink,
         FlushLinks, FlushCounts, LoadCallDone, LoadCallFailed, Requester, Request, Served, Failed,
         RequestsOver, CloseStore, loading, BookInv, BookTypes
    <2> QED BY <1>1, <2>1
  <1> QED BY <1>2, <1>3

LEMMA RowsAsMadeStays ==
    ASSUME TypeInv, BookInv, LoadInv, RowsAsMade, batch > 0, phase = "load", NEW t \in Threads,
           Works(t) \/ Fails(t)
    PROVE  RowsAsMade'
  <1>1. RowsGo
    BY IsStoreStep, BulkRowsGo
  <1>2. /\ \A l \in Links : LinkMade(l) => LinkMade(l)'
        /\ \A k \in Id1s : CountMade(k) => CountMade(k)'
    BY MadeStays
  <1>3. ASSUME NEW l \in Links
        PROVE  LinkAsMade(l, linkdb[l])' /\ LinkAsMade(l, linkcur[l])'
    <2>1. LinkAsMade(l, linkdb[l]) /\ LinkAsMade(l, linkcur[l]) /\ LinkGoes(l)
      BY <1>1 DEF RowsAsMade, RowsGo
    <2>2. \A row \in {linkdb[l], linkcur[l]} :
            row # Null => row.visibility = "DEFAULT" /\ LinkMade(l)'
      BY <1>2, <2>1 DEF LinkAsMade
    <2>3. linkdb'[l] # Null => linkdb'[l].visibility = "DEFAULT" /\ LinkMade(l)'
      BY <2>1, <2>2 DEF LinkGoes
    <2>4. linkcur'[l] # Null => linkcur'[l].visibility = "DEFAULT" /\ LinkMade(l)'
      BY <1>2, <2>1, <2>2 DEF LinkGoes
    <2> QED BY <2>3, <2>4 DEF LinkAsMade
  <1>4. ASSUME NEW k \in Id1s
        PROVE  CountAsMade(k, countdb[k])' /\ CountAsMade(k, countcur[k])'
    <2>1. CountAsMade(k, countdb[k]) /\ CountAsMade(k, countcur[k]) /\ CountGoes(k)
      BY <1>1 DEF RowsAsMade, RowsGo
    <2>2. \A n \in {countdb[k], countcur[k]} : n # Null => n = NLinks[k] /\ CountMade(k)'
      BY <1>2, <2>1 DEF CountAsMade
    <2>3. countdb'[k] # Null => countdb'[k] = NLinks[k] /\ CountMade(k)'
      BY <2>1, <2>2 DEF CountGoes
    <2>4. countcur'[k] # Null => countcur'[k] = NLinks[k] /\ CountMade(k)'
      BY <1>2, <2>1, <2>2 DEF CountGoes
    <2> QED BY <2>3, <2>4 DEF CountAsMade
  <1>5. \A u \in Loaders : \A k \in countLoadBuffer'[u] : CountMade(k)'
    BY BuffersMade
  <1> QED BY <1>3, <1>4, <1>5 DEF RowsAsMade

(* The links of k are made from the first on. *)
LEMMA AheadFrom ==
    ASSUME BookInv, NEW k \in Id1s, NEW j \in Nat
    PROVE  /\ \A i \in Nat : i <= j /\ Ahead(k, i) => Ahead(k, j)
           /\ Ahead(k, j) => Buffered(k) \/ batch = 0 \/ \A i \in Nat : Ahead(k, i)
  <1>1. \A t \in Loaders : at[t].made \in Nat
    BY DEF BookInv, BookTypes, AtType
  <1>2. ASSUME NEW i \in Nat, i <= j, Ahead(k, i)
        PROVE  Ahead(k, j)
    <2>1. CASE \E t \in Loaders : k = at[t].id1 /\ at[t].made <= i
      <3>1. PICK t \in Loaders : k = at[t].id1 /\ at[t].made <= i
        BY <2>1
      <3>2. at[t].made <= j
        BY <1>1, <1>2, <3>1
      <3> QED BY <3>1, <3>2 DEF Ahead
    <2> QED BY <1>2, <2>1 DEF Ahead
  <1>3. ASSUME Ahead(k, j), ~Buffered(k), batch # 0, NEW i \in Nat
        PROVE  Ahead(k, i)
    <2>1. CASE \E t \in Loaders : k = at[t].id1 /\ at[t].made <= j
      <3>1. PICK t \in Loaders : k = at[t].id1 /\ at[t].made <= j
        BY <2>1
      <3>2. LoaderOK(t)
        BY BenchAssumption DEF BookInv, ThreadIsAt
      <3>3. k # EndId
        BY GraphFacts
      <3>4. task[t] = "load"
        BY <3>1, <3>2, <3>3 DEF LoaderOK, NotLoading
      <3>5. batch > 0
        BY <1>3, BenchAssumption DEF BookInv, BookTypes
      <3>6. ~(at[t].made > 0)
        BY <1>3, <3>1, <3>4, <3>5 DEF Buffered
      <3>7. at[t].made <= i
        BY <1>1, <3>6
      <3> QED BY <3>1, <3>7 DEF Ahead
    <2> QED BY <1>3, <2>1 DEF Ahead
  <1> QED BY <1>2, <1>3

(* What a bulk load has stored of k, all of it or nothing, is in the count *)
(* of k when nothing of k is in a buffer.                                  *)
LEMMA LoadMatches ==
    ASSUME BookInv, LoadInv, RowsAsMade, batch > 0
    PROVE  LoadedCountsMatch
  <1> SUFFICES ASSUME NEW k \in Id1s, ~Buffered(k) PROVE Consistent(k)
    BY DEF LoadedCountsMatch
  <1> DEFINE n == NLinks[k]
             seen == {j \in Id2s : Visible(linkdb[<<k, j>>])}
  <1>1. n \in Nat /\ 0 .. n - 1 \subseteq Id2s
    BY BenchAssumption
  <1>2. \A j \in Id2s : <<k, j>> \in Links /\ <<k, j>>[1] = k /\ <<k, j>>[2] = j
    BY LinkFacts
  <1>3. \A j \in Id2s : LinkAsMade(<<k, j>>, linkdb[<<k, j>>])
    BY <1>2 DEF RowsAsMade
  <1>4. CountAsMade(k, countdb[k])
    BY DEF RowsAsMade
  <1>5. CASE n = 0 \/ Ahead(k, n)
    <2>1. n = 0 \/ \A i \in Nat : Ahead(k, i)
      BY <1>1, <1>5, AheadFrom
    <2>2. \A j \in Id2s : ~LinkMade(<<k, j>>)
      BY <1>1, <1>2, <2>1 DEF LinkMade, LoadLinks
    <2>3. seen = {}
      BY <1>3, <2>2 DEF LinkAsMade, Visible
    <2>4. countdb[k] = Null
      BY <1>1, <1>4, <2>1 DEF CountAsMade, CountMade
    <2>5. Cardinality(seen) = 0
      BY <2>3, FS_EmptySet
    <2> QED BY <2>4, <2>5 DEF Consistent, CountOf, NumVisible
  <1>6. CASE n # 0 /\ ~Ahead(k, n)
    <2>1. \A j \in 0 .. n - 1 : linkdb[<<k, j>>] # Null
      <3> SUFFICES ASSUME NEW j \in 0 .. n - 1 PROVE linkdb[<<k, j>>] # Null
        OBVIOUS
      <3>1. ~Ahead(k, j)
        BY <1>1, <1>6, AheadFrom
      <3>2. \A t \in Loaders : <<k, j>> \notin loadBuffer[t]
        BY <1>1, <1>2 DEF Buffered
      <3> QED BY <3>1, <3>2 DEF LoadInv, NothingDropped
    <2>2. \A j \in 0 .. n - 1 : Visible(linkdb[<<k, j>>])
      BY <1>1, <1>3, <2>1 DEF LinkAsMade, Visible
    <2>3. \A j \in Id2s \ (0 .. n - 1) : ~LinkMade(<<k, j>>)
      BY <1>2 DEF LinkMade, LoadLinks
    <2>4. \A j \in Id2s \ (0 .. n - 1) : ~Visible(linkdb[<<k, j>>])
      BY <1>3, <2>3 DEF LinkAsMade, Visible
    <2>5. seen = 0 .. n - 1
      BY <1>1, <2>2, <2>4
    <2>6. Cardinality(0 .. n - 1) = n
      BY <1>1, <1>6, FS_Interval
    <2>7. countdb[k] # Null
      BY <1>6 DEF LoadInv, NothingDropped, Buffered
    <2>8. countdb[k] = n
      BY <1>4, <2>7 DEF CountAsMade
    <2>9. CountOf(countdb[k]) = n
      BY <2>7, <2>8 DEF CountOf
    <2>10. NumVisible(k) = n
      BY <2>5, <2>6 DEF NumVisible
    <2> QED BY <2>9, <2>10 DEF Consistent
  <1> QED BY <1>5, <1>6

----------------------------------------------------------------------------
(* From the load to the requests *)

HoldsNothing(t) ==
    /\ \A l \in Links : linklock[l] # t
    /\ \A k \in Id1s : countlock[k] # t

(* A thread that has ended has closed its store, which holds no row. *)
EndedHold == \A t \in Threads : task[t] = "ended" => HoldsNothing(t)

LEMMA TaskMoves ==
    ASSUME TypeInv, BookInv, NEW t \in Threads, Works(t) \/ Fails(t)
    PROVE  /\ task[t] # "ended"
           /\ \A u \in Threads \ {t} : task'[u] = task[u]
           /\ task'[t] = "ended" => Close(t)
  <1>1. DOMAIN task = Threads /\ TaskOK(t)
    BY DEF BookInv, BookTypes, ThreadIsAt
  <1>2. /\ Statement(t) \/ Failure(t) => pc[t] # "idle"
        /\ TakeReply(t) \/ ClearErrors(t) => pc[t] # "idle"
    BY AnyStatementStep DEF TakeReply, ClearErrors
  <1>3. task[t] # "ended"
    BY <1>1, <1>2 DEF TaskOK, Works, Fails, InitializeStore, InitializeFails, CloseStore, Load,
       TakeChunk, CreateLink, CountLinks, FlushLinks, FlushCounts, LoadCallDone, LoadCallFailed,
       Requester, Request, Served, Failed, RequestsOver, Runs
  <1>4. CASE CloseStore(t)
    BY <1>1, <1>3, <1>4 DEF CloseStore, GoesTo
  <1>5. \/ CloseStore(t) \/ task' = task
        \/ \E s \in LoadTasks \cup {"request", "close"} : task' = [task EXCEPT ![t] = s]
    BY DEF Works, Fails, InitializeStore, InitializeFails, Load, TakeChunk, CreateLink, CountLinks,
       FlushLinks, FlushCounts, LoadCallDone, LoadCallFailed, Requester, Request, Served, Failed,
       RequestsOver, Done, GoesTo, LoadTasks
  <1>6. CASE task' = task
    BY <1>3, <1>6
  <1>7. ASSUME NEW s \in LoadTasks \cup {"request", "close"}, task' = [task EXCEPT ![t] = s]
        PROVE  task'[t] # "ended" /\ \A u \in Threads \ {t} : task'[u] = task[u]
    BY <1>1, <1>7 DEF LoadTasks
  <1> QED BY <1>3, <1>4, <1>5, <1>6, <1>7

LEMMA EndedStep ==
    ASSUME TypeInv, BookInv, EndedHold, NEW t \in Threads, Works(t) \/ Fails(t)
    PROVE  EndedHold'
  <1> SUFFICES ASSUME NEW u \in Threads, task'[u] = "ended" PROVE HoldsNothing(u)'
    BY DEF EndedHold
  <1>1. u # Null
    BY StoreAssumption
  <1>2. CASE u = t
    <2>1. LinksRolledBack(t) /\ CountsRolledBack(t)
      BY <1>2, TaskMoves, RollbackRows DEF Close, TypeInv
    <2> QED BY <1>1, <1>2, <2>1 DEF LinksRolledBack, CountsRolledBack, HoldsNothing
  <1>3. CASE u # t
    <2>1. HoldsNothing(u)
      BY <1>3, TaskMoves DEF EndedHold
    <2>2. (LinksStep(t) /\ CountsStep(t)) \/ (LinksStay /\ CountsStay)
      BY IsStoreStep, StoreStepKeeps DEF AnyStepOK, StoreStays
    <2> QED BY <1>1, <1>3, <2>1, <2>2
         DEF HoldsNothing, LinksStep, CountsStep, LinksStay, CountsStay
  <1> QED BY <1>2, <1>3

(* When all loaders have ended, all threads have. *)
LEMMA LoadOver ==
    ASSUME BookInv, phase = "load", AllEnded(Loaders)
    PROVE  \A t \in Threads : task[t] = "ended" /\ pc[t] = "idle"
  BY DEF BookInv, ThreadIsAt, TaskOK, AllEnded

LEMMA EndedDriver ==
    ASSUME BookInv, EndedHold, SendRequests \/ Complete \/ TimeUp \/ Over \/ UNCHANGED vars
    PROVE  EndedHold'
  <1>1. linklock' = linklock /\ countlock' = countlock
    BY DriverLeavesStores DEF storevars, linktable, counttable
  <1>2. task' = task \/ \A t \in Threads : HoldsNothing(t)
    BY LoadOver DEF SendRequests, Complete, TimeUp, Over, vars, EndedHold
  <1> QED BY <1>1, <1>2 DEF EndedHold, HoldsNothing

(* What the loaders have left in their buffers. *)
LeftOver(k) ==
    \E t \in Loaders : (\E l \in loadBuffer[t] : l[1] = k) \/ k \in countLoadBuffer[t]

(* The counts of the id1s of which nothing is left over are right, and the *)
(* requests keep them so.                                                  *)
RequestMatch == \E X : (\A k \in X : LeftOver(k)) /\ StoreInv(X)

LEMMA LeftOverMatches ==
    ASSUME RequestMatch
    PROVE  LoadedCountsMatch
  BY DEF RequestMatch, LeftOver, Buffered, LoadedCountsMatch, StoreInv, CountsMatchBut

LEMMA RequestsBegin ==
    ASSUME TypeInv, BookInv, EndedHold, LoadedCountsMatch, phase = "load", AllEnded(Loaders)
    PROVE  RequestMatch
  <1> DEFINE X == {k \in Id1s : LeftOver(k)}
  <1>1. \A t \in Threads : task[t] = "ended" /\ pc[t] = "idle" /\ HoldsNothing(t)
    BY LoadOver DEF EndedHold
  <1>2. ASSUME NEW t \in Threads PROVE ThreadOK(t, X)
    <2>1. pc[t] = "idle" /\ HoldsNothing(t) /\ PointOK(t)
      BY <1>1 DEF TypeInv
    <2>2. (\A l \in Links : LinkDelta(t, l) = 0) /\ (\A k \in Id1s : CountDelta(t, k) = 0)
      BY <2>1 DEF HoldsNothing, LinkDelta, CountDelta
    <2>3. CallOK(t) /\ AtOK(t)
      BY <2>1 DEF CallOK, AtOK, AddPoints, DeletePoints
    <2>4. OthersUnmoved(t, X) /\ OwnMoved(t, X)
      BY <2>1, <2>2 DEF OthersUnmoved, OwnMoved, CountPoints
    <2> QED BY <2>1, <2>3, <2>4 DEF ThreadOK, PointOK
  <1>3. \A k \in Id1s : Buffered(k) => k \in X
    <2>1. \A t \in Loaders : task[t] # "load"
      BY <1>1, BenchAssumption
    <2> QED BY <2>1 DEF Buffered, LeftOver
  <1>4. CountsMatchBut(X)
    BY <1>3 DEF LoadedCountsMatch, CountsMatchBut
  <1>5. \A k \in X : LeftOver(k)
    OBVIOUS
  <1> HIDE DEF X
  <1>6. StoreInv(X)
    BY <1>2, <1>4 DEF StoreInv, TypeInv
  <1> QED BY <1>5, <1>6 DEF RequestMatch

----------------------------------------------------------------------------
(* The counts in a run *)

LEMMA BatchStays ==
    ASSUME [Next]_vars
    PROVE  batch' = batch
  <1>1. ASSUME NEW t \in Threads, Works(t)
        PROVE  batch' = batch
    BY <1>1 DEF Works, InitializeStore, Load, TakeChunk, CreateLink, CountLinks, FlushLinks,
       FlushCounts, LoadCallDone, LoadCallFailed, Requester, Request, Served, Failed,
       RequestsOver, CloseStore
  <1>2. ASSUME NEW t \in Threads, Fails(t)
        PROVE  batch' = batch
    BY <1>2 DEF Fails, InitializeFails
  <1>3. CASE SendRequests \/ Complete \/ TimeUp \/ Over \/ UNCHANGED vars
    BY <1>3 DEF SendRequests, Complete, TimeUp, Over, vars
  <1> QED BY <1>1, <1>2, <1>3 DEF Next

(* Only an initialize() that fails ends a phase for a thread. *)
LEMMA PhaseMoves ==
    ASSUME BookInv, NEW t \in Threads, Works(t) \/ Fails(t)
    PROVE  /\ phase # "halted"
           /\ phase' = phase \/ InitializeFails(t)
           /\ phase \in {"requests", "done"} => loading' = loading
  <1>1. phase # "halted"
    BY DEF Works, Fails, InitializeStore, InitializeFails, CloseStore, Load, TakeChunk, CreateLink,
       CountLinks, FlushLinks, FlushCounts, LoadCallDone, LoadCallFailed, Requester, Request,
       Served, Failed, RequestsOver, Runs
  <1>2. phase' = phase \/ InitializeFails(t)
    BY DEF Works, Fails, InitializeStore, CloseStore, Load, TakeChunk, CreateLink, CountLinks,
       FlushLinks, FlushCounts, LoadCallDone, LoadCallFailed, Requester, Request, Served, Failed,
       RequestsOver
  <1>3. Load(t) \/ loading' = loading
    BY DEF Works, Fails, InitializeStore, InitializeFails, CloseStore, Requester, Request, Served,
       Failed, RequestsOver
  <1> QED BY <1>1, <1>2, <1>3, LoadPhase

(* The calls of loaders delete nothing. *)
LEMMA LoadHides ==
    ASSUME TypeInv, BookInv, phase = "load", NEW t \in Threads, Works(t) \/ Fails(t)
    PROVE  Hiding(t)'
  <1>1. BookInv'
    BY NextBook DEF Next
  <1>2. TaskOK(t)' /\ batch' \in BatchSizes
    BY <1>1 DEF BookInv, ThreadIsAt, BookTypes
  <1>3. CASE phase' = "load"
    <2> SUFFICES ASSUME pc'[t] # "idle" PROVE call'[t].op # "deleteLink"
      BY DEF Hiding
    <2>1. LoadCall(t)'
      BY <1>2, <1>3 DEF TaskOK
    <2>2. \/ \E l : call'[t] = AddLink(l, "DEFAULT", LoadData)
          \/ \E S : call'[t] = AddBulkLinks(S, LoadData)
          \/ \E f : call'[t] = AddBulkCounts(f)
      BY <2>1 DEF LoadCall
    <2>3. /\ \A l : AddLink(l, "DEFAULT", LoadData).op = "addLink"
          /\ \A S : AddBulkLinks(S, LoadData).op = "addBulkLinks"
          /\ \A f : AddBulkCounts(f).op = "addBulkCounts"
      BY DEF AddLink, AddBulkLinks, AddBulkCounts
    <2> QED BY <2>2, <2>3
  <1>4. CASE InitializeFails(t)
    BY <1>4 DEF InitializeFails, Runs, progress, Hiding
  <1> QED BY <1>3, <1>4, PhaseMoves

(* What holds of the rows in a bulk load. *)
LoadMatch == RowsInv /\ LoadInv /\ RowsAsMade

(* The inductive invariant: link by link the store keeps the counts by     *)
(* itself; a bulk load stores what it was to store; and when all loaders   *)
(* have ended, the store keeps the counts but for what is left over.       *)
MatchInv ==
    /\ TypeInv /\ BookInv /\ EndedHold
    /\ batch = 0 => StoreInv({})
    /\ batch > 0 /\ phase = "load" => LoadMatch
    /\ batch > 0 /\ phase \in {"requests", "done"} => RequestMatch
    /\ batch > 0 /\ phase = "halted" => LoadedCountsMatch

LEMMA MatchedNow ==
    ASSUME MatchInv
    PROVE  LoadedCountsMatch
  <1>1. /\ batch \in Nat /\ phase \in {"load", "requests", "done", "halted"}
    BY BenchAssumption DEF MatchInv, BookInv, BookTypes
  <1>2. CASE batch = 0
    BY <1>2 DEF MatchInv, StoreInv, CountsMatchBut, LoadedCountsMatch
  <1>3. CASE batch > 0
    BY <1>1, <1>3, LoadMatches, LeftOverMatches DEF MatchInv, LoadMatch
  <1> QED BY <1>1, <1>2, <1>3

LEMMA RequestMatchKeeps ==
    ASSUME RequestMatch, TypeInv, BookInv, phase \in {"requests", "done"},
           \/ \E t \in Threads : Works(t) \/ Fails(t)
           \/ SendRequests \/ Complete \/ TimeUp \/ Over \/ UNCHANGED vars
    PROVE  RequestMatch'
  <1>1. PICK X : (\A k \in X : LeftOver(k)) /\ StoreInv(X)
    BY DEF RequestMatch
  <1>2. StoreInv(X)'
    BY <1>1, LinkByLinkKeeps, DriverKeeps
  <1>3. loading' = loading
    BY PhaseMoves DEF SendRequests, Complete, TimeUp, Over, vars
  <1>4. \A k \in X : LeftOver(k)'
    BY <1>1, <1>3 DEF LeftOver, loading
  <1> QED BY <1>2, <1>4 DEF RequestMatch

(* A program that halts leaves the rows and the buffers as they are. *)
LEMMA HaltMatches ==
    ASSUME LoadedCountsMatch, TypeInv, NEW t \in Threads, InitializeFails(t)
    PROVE  LoadedCountsMatch'
  <1>1. /\ linkdb' = linkdb /\ countdb' = countdb /\ doubted' = doubted /\ task' = task
        /\ batch' = batch /\ loadBuffer' = loadBuffer /\ countLoadBuffer' = countLoadBuffer
        /\ at' = at
    BY DEF InitializeFails, linktable, counttable, loading
  <1> QED BY <1>1 DEF LoadedCountsMatch, Buffered, Consistent, CountOf, NumVisible, Visible

LEMMA ThreadMatch ==
    ASSUME MatchInv, NEW t \in Threads, Works(t) \/ Fails(t)
    PROVE  MatchInv'
  <1>1. TypeInv /\ BookInv /\ EndedHold /\ LoadedCountsMatch
    BY MatchedNow DEF MatchInv
  <1>2. TypeInv' /\ BookInv' /\ batch' = batch
    BY <1>1, NextBook, BatchStays DEF Next
  <1>3. EndedHold'
    BY <1>1, EndedStep
  <1>4. batch \in Nat /\ phase \in {"load", "requests", "done", "halted"}
    BY <1>1, BenchAssumption DEF BookInv, BookTypes
  <1>5. phase # "halted" /\ (phase' = phase \/ InitializeFails(t))
    BY <1>1, PhaseMoves
  <1>6. batch = 0 => StoreInv({})'
    BY <1>1, LinkByLinkKeeps DEF MatchInv
  <1>7. batch > 0 /\ phase = "load" => LoadMatch'
    BY <1>1, LoadHides, LoadStepKeeps, RowsAsMadeStays DEF MatchInv, LoadMatch
  <1>8. batch > 0 /\ phase \in {"requests", "done"} => RequestMatch'
    BY <1>1, RequestMatchKeeps DEF MatchInv
  <1>9. InitializeFails(t) => LoadedCountsMatch' /\ phase' = "halted"
    BY <1>1, HaltMatches DEF InitializeFails
  <1> QED BY <1>2, <1>3, <1>4, <1>5, <1>6, <1>7, <1>8, <1>9 DEF MatchInv

LEMMA DriverMatch ==
    ASSUME MatchInv, SendRequests \/ Complete \/ TimeUp \/ Over \/ UNCHANGED vars
    PROVE  MatchInv'
  <1>1. TypeInv /\ BookInv /\ EndedHold /\ LoadedCountsMatch
    BY MatchedNow DEF MatchInv
  <1>2. TypeInv' /\ BookInv' /\ batch' = batch
    BY <1>1, NextBook, BatchStays DEF Next
  <1>3. EndedHold'
    BY <1>1, EndedDriver
  <1>4. batch \in Nat /\ phase \in {"load", "requests", "done", "halted"}
    BY <1>1, BenchAssumption DEF BookInv, BookTypes
  <1>5. batch = 0 => StoreInv({})'
    BY DriverKeeps DEF MatchInv
  <1>6. CASE SendRequests
    <2>1. RequestMatch
      BY <1>1, <1>6, RequestsBegin DEF SendRequests
    <2>2. RequestMatch'
      <3>1. PICK X : (\A k \in X : LeftOver(k)) /\ StoreInv(X)
        BY <2>1 DEF RequestMatch
      <3>2. StoreInv(X)'
        BY <1>6, <3>1, DriverKeeps
      <3>3. \A k \in X : LeftOver(k)'
        BY <1>6, <3>1 DEF SendRequests, loading, LeftOver
      <3> QED BY <3>2, <3>3 DEF RequestMatch
    <2>3. phase' = "requests"
      BY <1>6 DEF SendRequests
    <2> QED BY <1>2, <1>3, <1>5, <2>2, <2>3 DEF MatchInv
  <1>7. CASE Complete
    <2>1. phase = "requests" /\ phase' = "done"
      BY <1>7 DEF Complete
    <2>2. batch > 0 => RequestMatch'
      BY <1>1, <1>7, <2>1, RequestMatchKeeps DEF MatchInv
    <2> QED BY <1>2, <1>3, <1>5, <2>1, <2>2 DEF MatchInv
  <1>8. CASE TimeUp
    <2>1. phase = "requests" /\ phase' = "requests"
      BY <1>8 DEF TimeUp
    <2>2. batch > 0 => RequestMatch'
      BY <1>1, <1>8, <2>1, RequestMatchKeeps DEF MatchInv
    <2> QED BY <1>2, <1>3, <1>5, <2>1, <2>2 DEF MatchInv
  <1>9. CASE UNCHANGED vars
    <2>1. phase' = phase
      BY <1>9 DEF vars
    <2>2. batch > 0 /\ phase \in {"requests", "done"} => RequestMatch'
      BY <1>1, <1>9, RequestMatchKeeps DEF MatchInv
    <2>3. LoadMatch => LoadMatch'
      <3>1. RowsInv => RowsInv'
        BY <1>1, <1>9, DriverLeavesStores, StoreStutters, NoStep DEF StoreStays
      <3>2. RowsInv' /\ LoadInv => LoadInv'
        BY <1>1, <1>9, QuietDriver, QuietKeepsLoad
      <3>3. RowsAsMade => RowsAsMade'
        BY <1>9 DEF vars, storevars, loading, linktable, counttable, RowsAsMade, LinkAsMade,
           CountAsMade, LinkMade, CountMade, LoadLinks, Ahead
      <3> QED BY <3>1, <3>2, <3>3 DEF LoadMatch
    <2>4. LoadedCountsMatch'
      BY <1>1, <1>9 DEF vars, storevars, loading, linktable, counttable, LoadedCountsMatch,
         Buffered, Consistent, CountOf, NumVisible, Visible
    <2> QED BY <1>2, <1>3, <1>5, <2>1, <2>2, <2>3, <2>4 DEF MatchInv
  <1>10. CASE Over
    BY <1>9, <1>10 DEF Over
  <1> QED BY <1>6, <1>7, <1>8, <1>9, <1>10

LEMMA InitMatch ==
    ASSUME Init
    PROVE  MatchInv
  <1>1. TypeInv /\ RowsInv /\ BookInv /\ LoadInv
    BY StoreInitTypes, InitBook, InitLoad DEF Init
  <1>2. StoreInv({})
    BY StoreInitInv DEF Init
  <1>3. phase = "load"
    BY DEF Init
  <1>4. \A t \in Threads : HoldsNothing(t)
    BY StoreAssumption DEF Init, StoreInit, L!EmptyTable, C!EmptyTable, HoldsNothing
  <1>5. RowsAsMade
    BY DEF Init, StoreInit, L!EmptyTable, C!EmptyTable, RowsAsMade, LinkAsMade, CountAsMade
  <1> QED BY <1>1, <1>2, <1>3, <1>4, <1>5 DEF MatchInv, LoadMatch, EndedHold

(* Whatever is loaded, in batches of any size or link by link, and         *)
(* whatever fails, the count of every id1 is the number of its visible     *)
(* links as soon as what was loaded of it is stored, and the requests that *)
(* follow keep it so.                                                      *)
THEOREM LoadedCountsAreRight == Spec => []LoadedCountsMatch
  <1>1. Init => MatchInv
    BY InitMatch
  <1>2. MatchInv /\ [Next]_vars => MatchInv'
    BY ThreadMatch, DriverMatch DEF Next
  <1>3. MatchInv => LoadedCountsMatch
    BY MatchedNow
  <1> QED BY <1>1, <1>2, <1>3, PTL DEF Spec

----------------------------------------------------------------------------
(* A run of LinkBench leaves no row locked between two calls of a store,   *)
(* whatever fails: a call that ends well ends with a commit or has touched *)
(* nothing, and one that does not is followed by clearErrors().            *)

(* Requests add visible links only (LinkBenchRequest.java).                *)
VisibleCalls == \A c \in Calls : c.op = "addLink" => c.visibility = "DEFAULT"

(* t is between two transactions. *)
Settled(t) == pc[t] \in {"idle", "read"} \/ (pc[t] = "returned" /\ reply[t] = "ok")

(* The call of t is one that has the statement t is at. *)
OpAt(t) ==
    /\ pc[t] \in {"insert", "count", "data"}
         => call[t].op = "addLink" /\ call[t].visibility = "DEFAULT"
    /\ pc[t] \in {"select", "delete", "uncount"} => call[t].op = "deleteLink"
    /\ pc[t] = "insertAll"  => call[t].op = "addBulkLinks"
    /\ pc[t] = "replaceAll" => call[t].op = "addBulkCounts"

Domains ==
    /\ DOMAIN linklock = Links /\ DOMAIN countlock = Id1s
    /\ DOMAIN pc = Threads /\ DOMAIN reply = Threads /\ DOMAIN call = Threads

(* The inductive invariant. *)
HoldInv ==
    /\ Domains
    /\ \A t \in Threads : OpAt(t) /\ (Settled(t) => HoldsNothing(t))

(* A step of t takes locks for t alone. *)
LocksOf(t) ==
    /\ \A l \in Links : linklock'[l] \in {linklock[l], t, Null}
    /\ \A k \in Id1s : countlock'[k] \in {countlock[k], t, Null}
    /\ DOMAIN linklock' = Links /\ DOMAIN countlock' = Id1s

(* ... moves t alone ... *)
MovesOf(t) ==
    /\ DOMAIN pc' = Threads /\ DOMAIN reply' = Threads /\ DOMAIN call' = Threads
    /\ \A u \in Threads \ {t} : pc'[u] = pc[u] /\ reply'[u] = reply[u] /\ call'[u] = call[u]

(* ... and, when it ends between two transactions, leaves t without locks. *)
LEMMA HoldStepKeeps ==
    ASSUME HoldInv, NEW t \in Threads, LocksOf(t), MovesOf(t), OpAt(t)',
           Settled(t)' => HoldsNothing(t)'
    PROVE  HoldInv'
  <1>1. ASSUME NEW u \in Threads \ {t}
        PROVE  OpAt(u)' /\ (Settled(u)' => HoldsNothing(u)')
    <2>1. u # t /\ u # Null
      BY StoreAssumption
    <2>2. OpAt(u)'
      BY DEF HoldInv, MovesOf, OpAt
    <2>3. Settled(u)' => HoldsNothing(u)
      BY DEF HoldInv, MovesOf, Settled
    <2>4. HoldsNothing(u) => HoldsNothing(u)'
      BY <2>1 DEF LocksOf, HoldsNothing
    <2> QED BY <2>2, <2>3, <2>4
  <1> QED BY <1>1 DEF HoldInv, Domains, LocksOf, MovesOf

(* The locks of a transaction that goes on ... *)
LEMMA LocksGrow ==
    ASSUME HoldInv, NEW t \in Threads,
           \/ UNCHANGED linktable
           \/ \E r : L!SelectForUpdate(t, r)
           \/ \E r, v : L!Write(t, r, v)
           \/ \E new : L!WriteRows(t, new),
           \/ UNCHANGED counttable
           \/ \E r, v : C!Write(t, r, v)
           \/ \E new : C!WriteRows(t, new)
    PROVE  LocksOf(t)
  <1>1. DOMAIN linklock = Links /\ DOMAIN countlock = Id1s
    BY DEF HoldInv, Domains
  <1>2. (\A l \in Links : linklock'[l] \in {linklock[l], t, Null}) /\ DOMAIN linklock' = Links
    <2>1. CASE UNCHANGED linktable
      BY <1>1, <2>1 DEF linktable
    <2>2. ASSUME NEW r, linklock' = [linklock EXCEPT ![r] = t]
          PROVE  (\A l \in Links : linklock'[l] \in {linklock[l], t, Null})
                 /\ DOMAIN linklock' = Links
      BY <1>1, <2>2
    <2>3. CASE \E new : L!WriteRows(t, new)
      BY <2>3 DEF L!WriteRows
    <2>4. CASE \E r : L!SelectForUpdate(t, r)
      <3>1. PICK r : L!SelectForUpdate(t, r)
        BY <2>4
      <3>2. linklock' = linklock \/ linklock' = [linklock EXCEPT ![r] = t]
        BY <3>1 DEF L!SelectForUpdate, L!Hold
      <3> QED BY <1>1, <3>2, <2>2
    <2>5. CASE \E r, v : L!Write(t, r, v)
      BY <2>2, <2>5 DEF L!Write, L!Hold
    <2> QED BY <2>1, <2>3, <2>4, <2>5
  <1>3. (\A k \in Id1s : countlock'[k] \in {countlock[k], t, Null}) /\ DOMAIN countlock' = Id1s
    <2>1. CASE UNCHANGED counttable
      BY <1>1, <2>1 DEF counttable
    <2>2. ASSUME NEW r, countlock' = [countlock EXCEPT ![r] = t]
          PROVE  (\A k \in Id1s : countlock'[k] \in {countlock[k], t, Null})
                 /\ DOMAIN countlock' = Id1s
      BY <1>1, <2>2
    <2>3. CASE \E new : C!WriteRows(t, new)
      BY <2>3 DEF C!WriteRows
    <2>4. CASE \E r, v : C!Write(t, r, v)
      BY <2>2, <2>4 DEF C!Write, C!Hold
    <2> QED BY <2>1, <2>3, <2>4
  <1> QED BY <1>2, <1>3 DEF LocksOf

(* ... and of one that ends. *)
LEMMA LocksEnd ==
    ASSUME NEW t \in Threads, L!Unlock(t), C!Unlock(t)
    PROVE  LocksOf(t) /\ HoldsNothing(t)'
  <1>1. t # Null
    BY StoreAssumption
  <1>2. /\ \A l \in Links : linklock'[l] = IF linklock[l] = t THEN Null ELSE linklock[l]
        /\ \A k \in Id1s : countlock'[k] = IF countlock[k] = t THEN Null ELSE countlock[k]
        /\ DOMAIN linklock' = Links /\ DOMAIN countlock' = Id1s
    BY DEF L!Unlock, C!Unlock
  <1> QED BY <1>1, <1>2 DEF HoldsNothing, LocksOf

(* Where t is after a statement, and after a call. *)
LEMMA Moved ==
    ASSUME HoldInv, NEW t \in Threads, UNCHANGED call
    PROVE  /\ \A s : Proceed(t, s) => MovesOf(t) /\ pc'[t] = s
           /\ \A r : Return(t, r) => MovesOf(t) /\ pc'[t] = "returned" /\ reply'[t] = r
           /\ call'[t] = call[t]
  BY DEF HoldInv, Domains, Proceed, Return, MovesOf

----------------------------------------------------------------------------
(* The steps of a store *)

(* A statement leads to another one, to the commit or to an exception.     *)
LEMMA GoesOnKeeps ==
    ASSUME HoldInv, NEW t \in Threads, UNCHANGED call, LocksOf(t),
           \/ Return(t, "error")
           \/ Proceed(t, "commit")
           \/ pc[t] \in {"insert", "count"} /\ (Proceed(t, "count") \/ Proceed(t, "data"))
           \/ pc[t] \in {"select", "delete"} /\ (Proceed(t, "delete") \/ Proceed(t, "uncount"))
    PROVE  HoldInv'
  <1>1. /\ MovesOf(t) /\ call'[t] = call[t]
        /\ \/ pc'[t] = "returned" /\ reply'[t] = "error"
           \/ pc'[t] = "commit"
           \/ pc[t] \in {"insert", "count"} /\ pc'[t] \in {"count", "data"}
           \/ pc[t] \in {"select", "delete"} /\ pc'[t] \in {"delete", "uncount"}
    BY Moved
  <1>2. OpAt(t)
    BY DEF HoldInv
  <1>3. OpAt(t)'
    BY <1>1, <1>2 DEF OpAt
  <1>4. ~Settled(t)'
    BY <1>1 DEF Settled
  <1> QED BY <1>1, <1>3, <1>4, HoldStepKeeps

LEMMA AddLinkKeeps ==
    ASSUME HoldInv, NEW t \in Threads, InsertLink(t) \/ UpdateCount(t) \/ UpdateData(t)
    PROVE  HoldInv'
  <1>1. CASE InsertLink(t)
    <2> DEFINE nrows == AffectedRows(linkcur[call[t].link], call[t].visibility)
               n == CountChange(nrows, call[t].visibility)
    <2>1. pc[t] = "insert" /\ UNCHANGED <<counttable, call>>
      BY <1>1 DEF InsertLink
    <2>2. call[t].visibility = "DEFAULT"
      BY <2>1 DEF HoldInv, OpAt
    <2>3. n = 0 => nrows = 0
      BY <2>2 DEF AffectedRows, CountChange
    <2>4. Proceed(t, "count") \/ Proceed(t, "data")
      BY <1>1, <2>3 DEF InsertLink
    <2>5. \E r, v : L!Write(t, r, v)
      BY <1>1 DEF InsertLink
    <2>6. LocksOf(t)
      BY <2>1, <2>5, LocksGrow
    <2> QED BY <2>1, <2>4, <2>6, GoesOnKeeps
  <1>2. CASE UpdateCount(t)
    <2>1. /\ pc[t] = "count" /\ UNCHANGED <<linktable, call>>
          /\ UNCHANGED counttable \/ \E r, v : C!Write(t, r, v)
          /\ Return(t, "error") \/ Proceed(t, "data") \/ Proceed(t, "commit")
      BY <1>2 DEF UpdateCount
    <2>2. LocksOf(t)
      BY <2>1, LocksGrow
    <2> QED BY <2>1, <2>2, GoesOnKeeps
  <1>3. CASE UpdateData(t)
    <2>1. /\ UNCHANGED <<counttable, call>> /\ Proceed(t, "commit")
          /\ \E r, v : L!Write(t, r, v)
      BY <1>3 DEF UpdateData
    <2>2. LocksOf(t)
      BY <2>1, LocksGrow
    <2> QED BY <2>1, <2>2, GoesOnKeeps
  <1> QED BY <1>1, <1>2, <1>3

LEMMA DeleteLinkKeeps ==
    ASSUME HoldInv, NEW t \in Threads, SelectLink(t) \/ DeleteRow(t) \/ CountDown(t)
    PROVE  HoldInv'
  <1>1. CASE SelectLink(t)
    <2>1. /\ pc[t] = "select" /\ UNCHANGED <<counttable, call>>
          /\ Proceed(t, "delete") \/ Proceed(t, "commit")
          /\ \E r : L!SelectForUpdate(t, r)
      BY <1>1 DEF SelectLink
    <2>2. LocksOf(t)
      BY <2>1, LocksGrow
    <2> QED BY <2>1, <2>2, GoesOnKeeps
  <1>2. CASE DeleteRow(t)
    <2>1. /\ pc[t] = "delete" /\ UNCHANGED <<counttable, call>> /\ Proceed(t, "uncount")
          /\ \E r, v : L!Write(t, r, v)
      BY <1>2 DEF DeleteRow
    <2>2. LocksOf(t)
      BY <2>1, LocksGrow
    <2> QED BY <2>1, <2>2, GoesOnKeeps
  <1>3. CASE CountDown(t)
    <2>1. /\ UNCHANGED <<linktable, call>> /\ Proceed(t, "commit")
          /\ \E r, v : C!Write(t, r, v)
      BY <1>3 DEF CountDown
    <2>2. LocksOf(t)
      BY <2>1, LocksGrow
    <2> QED BY <2>1, <2>2, GoesOnKeeps
  <1> QED BY <1>1, <1>2, <1>3

LEMMA BulkKeeps ==
    ASSUME HoldInv, NEW t \in Threads, InsertAll(t) \/ ReplaceAll(t)
    PROVE  HoldInv'
  <1>1. /\ UNCHANGED call /\ Proceed(t, "commit")
        /\ UNCHANGED linktable \/ \E new : L!WriteRows(t, new)
        /\ UNCHANGED counttable \/ \E new : C!WriteRows(t, new)
    BY DEF InsertAll, ReplaceAll
  <1>2. LocksOf(t)
    BY <1>1, LocksGrow
  <1> QED BY <1>1, <1>2, GoesOnKeeps

(* A transaction that ends lets all locks go, wherever t is afterwards.    *)
LEMMA EndKeeps ==
    ASSUME HoldInv, NEW t \in Threads, L!Unlock(t), C!Unlock(t), MovesOf(t), OpAt(t)'
    PROVE  HoldInv'
  BY LocksEnd, HoldStepKeeps


LEMMA CommitKeeps ==
    ASSUME HoldInv, NEW t \in Threads, CommitCall(t)
    PROVE  HoldInv'
  <1>1. /\ UNCHANGED call /\ L!Unlock(t) /\ C!Unlock(t)
        /\ Return(t, "ok") \/ Return(t, "error")
    BY DEF CommitCall, CommitAll, L!Commit, C!Commit
  <1>2. MovesOf(t) /\ pc'[t] = "returned"
    BY <1>1, Moved
  <1>3. OpAt(t)'
    BY <1>2 DEF OpAt
  <1> QED BY <1>1, <1>2, <1>3, EndKeeps

(* What reads or fails touches no row. *)
LEMMA ReadOrFailKeeps ==
    ASSUME HoldInv, NEW t \in Threads, ReadLink(t) \/ StatementFails(t)
    PROVE  HoldInv'
  <1>1. /\ UNCHANGED <<linktable, counttable, call>>
        /\ \/ pc[t] = "read" /\ Return(t, "ok")
           \/ Return(t, "error")
    BY DEF ReadLink, StatementFails
  <1>2. MovesOf(t) /\ pc'[t] = "returned" /\ (pc[t] = "read" \/ reply'[t] = "error")
    BY <1>1, Moved
  <1>3. OpAt(t)'
    BY <1>2 DEF OpAt
  <1>4. LocksOf(t)
    BY <1>1, LocksGrow
  <1>5. Settled(t)' => HoldsNothing(t)'
    BY <1>1, <1>2 DEF HoldInv, Settled, HoldsNothing, linktable, counttable
  <1> QED BY <1>2, <1>3, <1>4, <1>5, HoldStepKeeps

(* Where a call starts again. *)
LEMMA RestartAt ==
    ASSUME HoldInv, NEW t \in Threads, pc[t] \in Writing, UNCHANGED call,
           Proceed(t, FirstStatement(call[t]))
    PROVE  MovesOf(t) /\ OpAt(t)' /\ ~Settled(t)'
  <1>1. MovesOf(t) /\ call'[t] = call[t] /\ pc'[t] = FirstStatement(call[t])
    BY Moved
  <1>2. \/ call[t].op = "addLink" /\ call[t].visibility = "DEFAULT"
        \/ call[t].op \in {"deleteLink", "addBulkLinks", "addBulkCounts"}
    BY DEF HoldInv, OpAt, Writing
  <1>3. CASE call[t].op = "addLink" /\ call[t].visibility = "DEFAULT"
    <2>1. pc'[t] = "insert"
      BY <1>1, <1>3, FirstAt
    <2> QED BY <1>1, <1>3, <2>1 DEF OpAt, Settled
  <1>4. CASE call[t].op \in {"deleteLink", "addBulkLinks", "addBulkCounts"}
    <2>1. pc'[t] = CASE call[t].op = "deleteLink" -> "select"
                     [] call[t].op = "addBulkLinks" -> "insertAll"
                     [] call[t].op = "addBulkCounts" -> "replaceAll"
      BY <1>1, <1>4, FirstAt
    <2> QED BY <1>1, <1>4, <2>1 DEF OpAt, Settled
  <1> QED BY <1>2, <1>3, <1>4

LEMMA RestartKeeps ==
    ASSUME HoldInv, NEW t \in Threads, Deadlock(t) \/ LockWaitTimeout(t)
    PROVE  HoldInv'
  <1>1. CASE Deadlock(t)
    <2>1. /\ pc[t] \in Writing /\ UNCHANGED call /\ Proceed(t, FirstStatement(call[t]))
          /\ L!Unlock(t) /\ C!Unlock(t)
      BY <1>1 DEF Deadlock, L!Rollback, C!Rollback
    <2> QED BY <2>1, RestartAt, EndKeeps
  <1>2. CASE LockWaitTimeout(t)
    <2>1. /\ pc[t] \in Writing /\ Proceed(t, FirstStatement(call[t]))
          /\ UNCHANGED <<linktable, counttable, call>>
      BY <1>2 DEF LockWaitTimeout, Waits, Writing
    <2>2. LocksOf(t)
      BY <2>1, LocksGrow
    <2> QED BY <2>1, <2>2, RestartAt, HoldStepKeeps
  <1> QED BY <1>1, <1>2

LEMMA StatementOrFailureKeeps ==
    ASSUME HoldInv, NEW t \in Threads, Statement(t) \/ Failure(t)
    PROVE  HoldInv'
  BY AddLinkKeeps, DeleteLinkKeeps, BulkKeeps, CommitKeeps, ReadOrFailKeeps, RestartKeeps
     DEF Statement, Failure

(* A call starts without locks. *)
LEMMA CallKeepsLocks ==
    ASSUME HoldInv, NEW t \in Threads, NEW c, Call(t, c),
           c.op \in {"addLink", "deleteLink", "getLink", "addBulkLinks", "addBulkCounts"},
           c.op = "addLink" => c.visibility = "DEFAULT"
    PROVE  HoldInv'
  <1>1. /\ UNCHANGED linktable /\ UNCHANGED counttable /\ pc[t] = "idle"
        /\ call' = [call EXCEPT ![t] = c]
        /\ Return(t, "ok") \/ Return(t, "error") \/ Proceed(t, FirstStatement(c))
    BY DEF Call
  <1>2. MovesOf(t) /\ call'[t] = c /\ pc'[t] \in {"returned", FirstStatement(c)}
    BY <1>1 DEF HoldInv, Domains, Return, Proceed, MovesOf
  <1>3. pc'[t] = "returned" \/
        pc'[t] = CASE c.op = "addLink" -> "insert"
                   [] c.op = "deleteLink" -> "select"
                   [] c.op = "getLink" -> "read"
                   [] c.op = "addBulkLinks" -> "insertAll"
                   [] c.op = "addBulkCounts" -> "replaceAll"
    BY <1>2, FirstAt
  <1>4. OpAt(t)'
    BY <1>2, <1>3 DEF OpAt
  <1>5. HoldsNothing(t)'
    BY <1>1 DEF HoldInv, Settled, HoldsNothing, linktable, counttable
  <1>6. LocksOf(t)
    BY <1>1, LocksGrow
  <1> QED BY <1>2, <1>4, <1>5, <1>6, HoldStepKeeps

(* The end of a call, and of a store. *)
LEMMA EndOfCallKeeps ==
    ASSUME HoldInv, NEW t \in Threads, TakeReply(t) \/ ClearErrors(t) \/ Close(t)
    PROVE  HoldInv'
  <1>1. CASE TakeReply(t)
    <2>1. /\ pc[t] = "returned" /\ reply[t] = "ok" /\ UNCHANGED <<linktable, counttable, call>>
          /\ pc' = [pc EXCEPT ![t] = "idle"] /\ reply' = [reply EXCEPT ![t] = "none"]
      BY <1>1 DEF TakeReply
    <2>2. MovesOf(t) /\ pc'[t] = "idle"
      BY <2>1 DEF HoldInv, Domains, MovesOf
    <2>3. OpAt(t)'
      BY <2>2 DEF OpAt
    <2>4. HoldsNothing(t)'
      BY <2>1 DEF HoldInv, Settled, HoldsNothing, linktable, counttable
    <2>5. LocksOf(t)
      BY <2>1, LocksGrow
    <2> QED BY <2>2, <2>3, <2>4, <2>5, HoldStepKeeps
  <1>2. CASE ClearErrors(t)
    <2>1. /\ L!Unlock(t) /\ C!Unlock(t) /\ UNCHANGED call
          /\ pc' = [pc EXCEPT ![t] = "idle"] /\ reply' = [reply EXCEPT ![t] = "none"]
      BY <1>2 DEF ClearErrors, L!Rollback, C!Rollback
    <2>2. MovesOf(t) /\ pc'[t] = "idle"
      BY <2>1 DEF HoldInv, Domains, MovesOf
    <2>3. OpAt(t)'
      BY <2>2 DEF OpAt
    <2> QED BY <2>1, <2>2, <2>3, EndKeeps
  <1>3. CASE Close(t)
    <2>1. /\ L!Unlock(t) /\ C!Unlock(t) /\ UNCHANGED <<call, pc, reply>> /\ pc[t] = "idle"
      BY <1>3 DEF Close, L!Rollback, C!Rollback, progress
    <2>2. MovesOf(t) /\ pc'[t] = "idle"
      BY <2>1 DEF HoldInv, Domains, MovesOf
    <2>3. OpAt(t)'
      BY <2>2 DEF OpAt
    <2> QED BY <2>1, <2>2, <2>3, EndKeeps
  <1> QED BY <1>1, <1>2, <1>3

(* Nothing that the invariant looks at changes. *)
LEMMA RestKeeps ==
    ASSUME HoldInv, UNCHANGED <<linklock, countlock, pc, reply, call>>
    PROVE  HoldInv'
  BY DEF HoldInv, Domains, OpAt, Settled, HoldsNothing

----------------------------------------------------------------------------
(* The steps of a run *)

LEMMA LoadKeepsLocks ==
    ASSUME HoldInv, NEW t \in Threads, Load(t)
    PROVE  HoldInv'
  <1>1. CASE \E l : Call(t, AddLink(l, "DEFAULT", LoadData))
    BY <1>1, CallKeepsLocks DEF AddLink
  <1>2. CASE \E S : Call(t, AddBulkLinks(S, LoadData))
    BY <1>2, CallKeepsLocks DEF AddBulkLinks
  <1>3. CASE \E f : Call(t, AddBulkCounts(f))
    BY <1>3, CallKeepsLocks DEF AddBulkCounts
  <1>4. CASE UNCHANGED storevars
    BY <1>4, RestKeeps DEF storevars, linktable, counttable, progress
  <1>5. CASE TakeReply(t) \/ ClearErrors(t)
    BY <1>5, EndOfCallKeeps
  <1>6. TakeChunk(t) => UNCHANGED storevars
    BY DEF TakeChunk
  <1>7. CreateLink(t) => \/ \E l : Call(t, AddLink(l, "DEFAULT", LoadData))
                         \/ \E S : Call(t, AddBulkLinks(S, LoadData))
                         \/ UNCHANGED storevars
    BY DEF CreateLink
  <1>8. CountLinks(t) => (\E f : Call(t, AddBulkCounts(f))) \/ UNCHANGED storevars
    BY DEF CountLinks
  <1>9. FlushLinks(t) => \E S : Call(t, AddBulkLinks(S, LoadData))
    BY DEF FlushLinks
  <1>10. FlushCounts(t) => \E f : Call(t, AddBulkCounts(f))
    BY DEF FlushCounts
  <1>11. LoadCallDone(t) \/ LoadCallFailed(t) => TakeReply(t) \/ ClearErrors(t)
    BY DEF LoadCallDone, LoadCallFailed
  <1> QED BY <1>1, <1>2, <1>3, <1>4, <1>5, <1>6, <1>7, <1>8, <1>9, <1>10, <1>11 DEF Load

LEMMA RequesterKeepsLocks ==
    ASSUME VisibleCalls, HoldInv, NEW t \in Threads, Requester(t)
    PROVE  HoldInv'
  <1>1. CASE Request(t)
    <2>1. PICK c \in Calls : Call(t, c)
      BY <1>1 DEF Request
    <2>2. c.op \in {"addLink", "deleteLink", "getLink"}
      BY StoreAssumption DEF LinkCalls
    <2> QED BY <2>1, <2>2, CallKeepsLocks DEF VisibleCalls
  <1>2. CASE Served(t) \/ Failed(t)
    BY <1>2, EndOfCallKeeps DEF Served, Failed
  <1>3. CASE RequestsOver(t)
    BY <1>3, RestKeeps DEF RequestsOver, storevars, linktable, counttable, progress
  <1> QED BY <1>1, <1>2, <1>3 DEF Requester

LEMMA NextKeeps ==
    ASSUME VisibleCalls, HoldInv, [Next]_vars
    PROVE  HoldInv'
  <1>1. ASSUME NEW t \in Threads, Works(t)
        PROVE  HoldInv'
    <2>1. CASE InitializeStore(t)
      BY <2>1, RestKeeps DEF InitializeStore, Initialize, linktable, counttable, progress
    <2>2. CASE CloseStore(t)
      BY <2>2, EndOfCallKeeps DEF CloseStore
    <2> QED BY <1>1, <2>1, <2>2, LoadKeepsLocks, RequesterKeepsLocks, StatementOrFailureKeeps DEF Works
  <1>2. ASSUME NEW t \in Threads, Fails(t)
        PROVE  HoldInv'
    <2>1. CASE InitializeFails(t)
      BY <2>1, RestKeeps DEF InitializeFails, linktable, counttable, progress
    <2> QED BY <1>2, <2>1, StatementOrFailureKeeps DEF Fails
  <1>3. CASE SendRequests \/ Complete \/ TimeUp \/ Over \/ UNCHANGED vars
    <2>1. UNCHANGED storevars
      BY <1>3 DEF SendRequests, Complete, TimeUp, Over, vars
    <2> QED BY <2>1, RestKeeps DEF storevars, linktable, counttable, progress
  <1> QED BY <1>1, <1>2, <1>3 DEF Next

LEMMA InitHold ==
    ASSUME Init
    PROVE  HoldInv
  <1>1. /\ linklock = [r \in Links |-> Null] /\ countlock = [r \in Id1s |-> Null]
        /\ call = [t \in Threads |-> Null] /\ pc = [t \in Threads |-> "idle"]
        /\ reply = [t \in Threads |-> "none"]
    BY DEF Init, StoreInit, L!EmptyTable, C!EmptyTable
  <1>2. \A t \in Threads : t # Null
    BY StoreAssumption
  <1> QED BY <1>1, <1>2 DEF HoldInv, Domains, OpAt, Settled, HoldsNothing

(* A thread between two calls of its store keeps no row of either table    *)
(* locked, so that nobody waits for it: every way out of addLink(),        *)
(* deleteLink() and the bulk calls commits, or throws and is followed by   *)
(* clearErrors().  For any number of threads, id1s, calls and failures and *)
(* for every bulkInsertSize, as long as requests add visible links only.   *)
THEOREM LocksAreReleased ==
    ASSUME VisibleCalls
    PROVE  Spec => []IdleHoldsNothing
  <1>1. Init => HoldInv
    BY InitHold
  <1>2. HoldInv /\ [Next]_vars => HoldInv'
    BY NextKeeps
  <1>3. HoldInv => IdleHoldsNothing
    BY DEF HoldInv, Settled, HoldsNothing, IdleHoldsNothing
  <1> QED BY <1>1, <1>2, <1>3, PTL DEF Spec

----------------------------------------------------------------------------
(* What a call says it has found *)

(* What t has found is what is committed, once its link is locked; a call  *)
(* that starts again in the same transaction meets its own write of a link *)
(* that is committed, or its id1 is in doubt.                              *)
FoundOK(t) ==
    LET l == call[t].link
        sure == l[1] \notin doubted
    IN
    /\ pc[t] \in {"insert", "select"} /\ linklock[l] = t /\ sure => linkdb[l] # Null
    /\ pc[t] = "insert" /\ linklock[l] = t /\ sure => linkcur[l] # Null
    /\ pc[t] \in {"count", "data"} => linkcur[l] # Null /\ Visible(linkcur[l])
    /\ pc[t] \in {"count", "data"} \/ (pc[t] = "commit" /\ call[t].op = "addLink")
         => linklock[l] = t /\ (sure => (local[t].found <=> linkdb[l] # Null))
    /\ (\/ pc[t] \in {"delete", "uncount"}
        \/ pc[t] = "commit" /\ call[t].op = "deleteLink" /\ local[t].found)
         => linklock[l] = t /\ (sure => linkdb[l] # Null)

FoundInv == \A t \in Threads : FoundOK(t)

LEMMA DoubtStays ==
    ASSUME NEW t, StoreStep(t)
    PROVE  doubted \subseteq doubted'
  BY DEF StoreStep, Statement, Failure, Initialize, TakeReply, ClearErrors, Close, Call, LoadersCall,
     StoreStays, InsertLink, UpdateCount, UpdateData, SelectLink, DeleteRow, CountDown, ReadLink,
     InsertAll, ReplaceAll, CommitCall, Deadlock, LockWaitTimeout, StatementFails

(* The links of calls. *)
LEMMA LinkOfCall ==
    ASSUME TypeInv, NEW t \in Threads
    PROVE  /\ (/\ pc[t] # "idle"
               /\ \/ pc[t] \in AddPoints \cup DeletePoints
                  \/ call[t].op \in {"addLink", "deleteLink"})
                => call[t].link \in Links
           /\ pc[t] \in AddPoints => call[t].op = "addLink"
           /\ pc[t] \in DeletePoints => call[t].op = "deleteLink"
  <1>1. PointOK(t)
    BY DEF TypeInv
  <1> QED BY <1>1, CallTypeFacts DEF PointOK, AddPoints, DeletePoints

(* The step of another. *)
LEMMA FoundOther ==
    ASSUME TypeInv, FoundInv, NEW t \in Threads, NEW u \in Threads \ {t},
           LinksStep(t), OthersStay(t), doubted \subseteq doubted'
    PROVE  FoundOK(u)'
  <1>1. FoundOK(u) /\ u # Null
    BY StoreAssumption DEF FoundInv
  <1>2. pc'[u] = pc[u] /\ call'[u] = call[u] /\ local'[u] = local[u]
    BY DEF OthersStay
  <1>3. PICK l : l = call[u].link
    OBVIOUS
  <1>4. /\ pc[u] \in {"insert", "select", "count", "data", "delete", "uncount"} => l \in Links
        /\ pc[u] = "commit" /\ call[u].op \in {"addLink", "deleteLink"} => l \in Links
    BY <1>3, LinkOfCall DEF AddPoints, DeletePoints
  <1>5. l \in Links =>
          \/ linklock'[l] = linklock[l] /\ linkcur'[l] = linkcur[l] /\ linkdb'[l] = linkdb[l]
          \/ linklock[l] # u /\ linklock'[l] # u
    BY <1>1 DEF LinksStep
  <1>6. CASE /\ linklock'[l] = linklock[l] /\ linkcur'[l] = linkcur[l] /\ linkdb'[l] = linkdb[l]
    BY <1>1, <1>2, <1>3, <1>6 DEF FoundOK, Visible
  <1>7. CASE linklock[l] # u /\ linklock'[l] # u
    BY <1>1, <1>2, <1>3, <1>7 DEF FoundOK
  <1>8. CASE l \notin Links
    BY <1>2, <1>4, <1>8 DEF FoundOK
  <1> QED BY <1>5, <1>6, <1>7, <1>8

LEMMA AddFound ==
    ASSUME TypeInv, HoldInv, FoundInv, NEW t \in Threads,
           InsertLink(t) \/ UpdateCount(t) \/ UpdateData(t)
    PROVE  FoundOK(t)'
  <1>1. /\ FoundOK(t) /\ OpAt(t) /\ UnlockedIsCommitted /\ DOMAIN pc = Threads
        /\ DOMAIN local = Threads
    BY DEF FoundInv, HoldInv, Domains, TypeInv, StoreTypeOK
  <1>2. PICK l \in Links : l = call[t].link
    BY LinkOfCall DEF AddPoints, InsertLink, UpdateCount, UpdateData
  <1>3. call' = call /\ doubted' = doubted /\ t # Null
    BY StoreAssumption DEF InsertLink, UpdateCount, UpdateData
  <1>4. call[t].op = "addLink" /\ call[t].visibility = "DEFAULT"
    BY <1>1 DEF OpAt, InsertLink, UpdateCount, UpdateData
  <1>5. linklock[l] = Null => linkcur[l] = linkdb[l]
    BY <1>1 DEF UnlockedIsCommitted
  <1>6. StoreTypeOK /\ CallType(call[t])
    <2>1. pc[t] # "idle" /\ PointOK(t)
      BY DEF TypeInv, InsertLink, UpdateCount, UpdateData
    <2> QED BY <2>1 DEF TypeInv, PointOK
  <1>7. call[t].data \in Data /\ "DEFAULT" \in Visibilities
    BY <1>4, <1>6, CallTypeFacts DEF Visibilities
  <1>8. linkcur[l] \in LinkRow \cup {Null}
    BY <1>6 DEF StoreTypeOK
  <1>9. CASE InsertLink(t)
    <2> DEFINE row == Upserted(linkcur[l], "DEFAULT", call[t].data)
    <2>1. /\ pc[t] = "insert" /\ L!Write(t, l, row)
          /\ pc'[t] \in {"count", "data", "returned"}
          /\ local'[t].found <=> AffectedRows(linkcur[l], "DEFAULT") # 1
      BY <1>1, <1>2, <1>4, <1>9 DEF InsertLink, Proceed, Return
    <2>2. row \in LinkRow /\ row.visibility = "DEFAULT"
      BY <1>7, <1>8, UpsertFacts
    <2>3. AffectedRows(linkcur[l], "DEFAULT") # 1 <=> linkcur[l] # Null
      BY DEF AffectedRows
    <2> HIDE DEF row
    <2>4. LinkWritten(t, l, row)
      BY <1>6, <2>1, <2>2, LinkWrite
    <2>5. /\ linklock'[l] = t /\ linkcur'[l] = row /\ linkdb'[l] = linkdb[l]
          /\ linklock[l] \in {t, Null} /\ row # Null
      BY <2>2, <2>4, StoreAssumption DEF LinkWritten
    <2>6. l[1] \notin doubted => (linkcur[l] # Null <=> linkdb[l] # Null)
      BY <1>1, <1>2, <1>5, <2>1, <2>5 DEF FoundOK
    <2> QED BY <1>2, <1>3, <2>1, <2>2, <2>3, <2>5, <2>6 DEF FoundOK, Visible
  <1>10. CASE UpdateCount(t)
    <2>1. /\ pc[t] = "count" /\ pc'[t] \in {"data", "commit", "returned"} /\ local' = local
          /\ linklock' = linklock /\ linkcur' = linkcur /\ linkdb' = linkdb
      BY <1>1, <1>10 DEF UpdateCount, Proceed, Return, linktable
    <2> QED BY <1>1, <1>2, <1>3, <1>4, <2>1 DEF FoundOK, Visible
  <1>11. CASE UpdateData(t)
    <2> DEFINE row == [visibility |-> "DEFAULT", data |-> call[t].data]
    <2>1. /\ pc[t] = "data" /\ pc'[t] = "commit" /\ local' = local /\ L!Write(t, l, row)
      BY <1>1, <1>2, <1>4, <1>11 DEF UpdateData, Proceed
    <2>2. row \in LinkRow
      BY <1>7 DEF LinkRow
    <2> HIDE DEF row
    <2>3. LinkWritten(t, l, row)
      BY <1>6, <2>1, <2>2, LinkWrite
    <2>4. linklock'[l] = t /\ linkdb'[l] = linkdb[l]
      BY <2>3 DEF LinkWritten
    <2> QED BY <1>1, <1>2, <1>3, <1>4, <2>1, <2>4 DEF FoundOK
  <1> QED BY <1>9, <1>10, <1>11

LEMMA DeleteFound ==
    ASSUME TypeInv, HoldInv, FoundInv, NEW t \in Threads,
           SelectLink(t) \/ DeleteRow(t) \/ CountDown(t)
    PROVE  FoundOK(t)'
  <1>1. /\ FoundOK(t) /\ OpAt(t) /\ UnlockedIsCommitted /\ DOMAIN pc = Threads
        /\ DOMAIN local = Threads /\ DOMAIN linklock = Links /\ DOMAIN linkcur = Links
    BY DEF FoundInv, HoldInv, Domains, TypeInv, StoreTypeOK
  <1>2. PICK l \in Links : l = call[t].link
    BY LinkOfCall DEF DeletePoints, SelectLink, DeleteRow, CountDown
  <1>3. call' = call /\ doubted \subseteq doubted' /\ t # Null
    BY StoreAssumption DEF SelectLink, DeleteRow, CountDown
  <1>4. call[t].op = "deleteLink"
    BY <1>1 DEF OpAt, SelectLink, DeleteRow, CountDown
  <1>5. linklock[l] = Null => linkcur[l] = linkdb[l]
    BY <1>1 DEF UnlockedIsCommitted
  <1>6. CASE SelectLink(t)
    <2>1. /\ pc[t] = "select" /\ L!SelectForUpdate(t, l) /\ pc'[t] \in {"commit", "delete"}
          /\ pc'[t] = "delete" => linkcur[l] # Null
          /\ local' = [local EXCEPT ![t].found = linkcur[l] # Null]
      BY <1>1, <1>2, <1>6 DEF SelectLink, Proceed
    <2>4. local'[t].found = (linkcur[l] # Null)
      <3>1. local \in [Threads -> LocalType]
        BY DEF TypeInv, StoreTypeOK
      <3> QED BY <2>1, <3>1 DEF LocalType
    <2>2. /\ linklock[l] \in {t, Null} /\ linkdb' = linkdb
          /\ linkcur[l] # Null => linklock'[l] = t
      BY <1>1, <2>1 DEF L!SelectForUpdate, L!Available, L!Hold
    <2>3. linkcur[l] # Null /\ l[1] \notin doubted => linkdb[l] # Null
      BY <1>1, <1>2, <1>5, <2>1, <2>2 DEF FoundOK
    <2> QED BY <1>2, <1>3, <1>4, <2>1, <2>2, <2>3, <2>4 DEF FoundOK
  <1>7. CASE DeleteRow(t)
    <2>1. pc[t] = "delete" /\ pc'[t] = "uncount"
      BY <1>1, <1>7 DEF DeleteRow, Proceed
    <2>2. linklock'[l] = t /\ linkdb' = linkdb
      BY <1>1, <1>2, <1>7 DEF DeleteRow, L!Write, L!Hold
    <2> QED BY <1>1, <1>2, <1>3, <2>1, <2>2 DEF FoundOK
  <1>8. CASE CountDown(t)
    <2>1. /\ pc[t] = "uncount" /\ pc'[t] = "commit" /\ linklock' = linklock /\ linkdb' = linkdb
      BY <1>1, <1>8 DEF CountDown, Proceed, linktable
    <2>2. linklock[l] = t /\ (l[1] \notin doubted => linkdb[l] # Null)
      BY <1>1, <1>2, <2>1 DEF FoundOK
    <2> QED BY <1>2, <1>3, <1>4, <2>1, <2>2 DEF FoundOK
  <1> QED BY <1>6, <1>7, <1>8

(* A call that starts again. *)
LEMMA RestartFound ==
    ASSUME TypeInv, HoldInv, FoundInv, NEW t \in Threads, Deadlock(t) \/ LockWaitTimeout(t)
    PROVE  FoundOK(t)'
  <1>1. FoundOK(t) /\ OpAt(t) /\ PointOK(t) /\ DOMAIN pc = Threads
    BY DEF FoundInv, HoldInv, Domains, TypeInv
  <1>2. /\ pc[t] \in Writing /\ pc'[t] = FirstStatement(call[t]) /\ call' = call /\ t # Null
        /\ CallType(call[t])
    BY <1>1, StoreAssumption DEF Deadlock, LockWaitTimeout, Waits, Writing, Proceed, PointOK
  <1>3. /\ pc'[t] \in {"insert", "select", "read", "insertAll", "replaceAll"}
        /\ pc'[t] \in {"insert", "select"} => call[t].op \in {"addLink", "deleteLink"}
        /\ pc'[t] = "insert" => call[t].op = "addLink"
    BY <1>2, CallTypeFacts DEF FirstStatement
  <1>4. CASE Deadlock(t)
    <2>1. LinksRolledBack(t)
      BY <1>4, RollbackRows DEF TypeInv, Deadlock
    <2>2. pc'[t] \in {"insert", "select"} => call[t].link \in Links
      BY <1>2, <1>3, CallTypeFacts
    <2>3. pc'[t] \in {"insert", "select"} => linklock'[call[t].link] # t
      BY <1>2, <2>1, <2>2 DEF LinksRolledBack
    <2> QED BY <1>2, <1>3, <2>3 DEF FoundOK
  <1>5. CASE LockWaitTimeout(t)
    <2> DEFINE l == call[t].link
    <2>1. /\ linklock' = linklock /\ linkcur' = linkcur /\ linkdb' = linkdb /\ Waits(t)
          /\ doubted' = IF linklock[l] = t /\ Visible(linkcur[l]) # Visible(linkdb[l])
                        THEN doubted \cup {l[1]} ELSE doubted
      BY <1>5 DEF LockWaitTimeout, linktable
    <2>2. /\ pc[t] \in {"insert", "select", "data", "delete"} => linklock[l] # t
          /\ pc[t] \in {"insert", "select", "data", "delete", "count", "uncount"}
      BY <2>1 DEF Waits, L!Available
    <2>3. \/ linklock[l] # t
          \/ pc[t] = "count" /\ Visible(linkcur[l]) /\ linkcur[l] # Null
          \/ pc[t] = "uncount" /\ (l[1] \notin doubted => linkdb[l] # Null)
      <3>1. pc[t] = "count" => Visible(linkcur[l]) /\ linkcur[l] # Null
        BY <1>1 DEF FoundOK
      <3>2. pc[t] = "uncount" => (l[1] \notin doubted => linkdb[l] # Null)
        BY <1>1 DEF FoundOK
      <3> HIDE DEF l
      <3>3. pc[t] \in {"count", "uncount"} \/ linklock[l] # t
        BY <2>2
      <3> QED BY <3>1, <3>2, <3>3
    <2>4. CASE pc[t] = "count" /\ Visible(linkcur[l]) /\ linkcur[l] # Null
      <3>1. linklock[l] = t /\ l[1] \notin doubted' => linkdb[l] # Null
        BY <2>1, <2>4 DEF Visible
      <3> QED BY <1>2, <1>3, <2>1, <2>4, <3>1 DEF FoundOK
    <2>5. CASE pc[t] = "uncount" /\ (l[1] \notin doubted => linkdb[l] # Null)
      <3>1. pc'[t] = "select"
        BY <1>1, <1>2, <2>5 DEF OpAt, FirstStatement
      <3>2. doubted \subseteq doubted'
        BY <2>1
      <3> QED BY <1>2, <2>1, <2>5, <3>1, <3>2 DEF FoundOK
    <2>6. CASE linklock[l] # t
      BY <1>2, <1>3, <2>1, <2>6 DEF FoundOK
    <2> QED BY <2>3, <2>4, <2>5, <2>6
  <1> QED BY <1>4, <1>5

(* A call that starts does not yet hold its link. *)
LEMMA CallFound ==
    ASSUME TypeInv, HoldInv, NEW t \in Threads, NEW c, CallType(c), Call(t, c)
    PROVE  FoundOK(t)'
  <1>1. call'[t] = c /\ HoldsNothing(t) /\ linklock' = linklock
    BY CallStep DEF HoldInv, Settled, Call, linktable
  <1>2. pc'[t] \in {FirstStatement(c), "returned"}
    BY DEF Call, Proceed, Return, TypeInv, StoreTypeOK
  <1>3. /\ pc'[t] \in {"insert", "select", "read", "insertAll", "replaceAll", "returned"}
        /\ pc'[t] \in {"insert", "select"} => c.op \in {"addLink", "deleteLink"}
    BY <1>2, CallTypeFacts DEF FirstStatement
  <1>4. pc'[t] \in {"insert", "select"} => c.link \in Links
    BY <1>3, CallTypeFacts
  <1> QED BY <1>1, <1>3, <1>4 DEF HoldsNothing, FoundOK

LEMMA FoundStays ==
    ASSUME FoundInv, StoreStays
    PROVE  FoundInv'
  BY DEF StoreStays, LinksStay, FoundInv, FoundOK, Visible

LEMMA FoundStep ==
    ASSUME TypeInv, HoldInv, FoundInv, NEW t \in Threads, StoreStep(t)
    PROVE  FoundInv'
  <1>1. CASE StoreStays
    BY <1>1, FoundStays
  <1>2. ASSUME ~StoreStays
        PROVE  \A u \in Threads \ {t} : FoundOK(u)'
    BY <1>2, StoreStepKeeps, DoubtStays, FoundOther DEF AnyStepOK
  <1>3. CASE \E c \in Calls : Call(t, c)
    <2>1. PICK c \in Calls : Call(t, c)
      BY <1>3
    <2>2. CallType(c)
      BY StoreAssumption DEF CallType
    <2>3. FoundOK(t)'
      BY <2>1, <2>2, CallFound
    <2> QED BY <1>1, <1>2, <2>3 DEF FoundInv
  <1>4. CASE LoadersCall(t)
    <2>1. FoundOK(t)'
      BY <1>4, CallFound DEF LoadersCall
    <2> QED BY <1>1, <1>2, <2>1 DEF FoundInv
  <1>5. CASE TakeReply(t) \/ ClearErrors(t) \/ Close(t) \/ Initialize(t) \/ ReadLink(t)
             \/ CommitCall(t) \/ StatementFails(t)
    <2>1. pc'[t] \in {"idle", "returned"}
      BY <1>5, TakeReplyStep, ClearErrorsStep DEF Close, Initialize, progress, ReadLink, CommitCall,
         StatementFails, Return, TypeInv, StoreTypeOK
    <2>2. FoundOK(t)'
      BY <2>1 DEF FoundOK
    <2> QED BY <1>1, <1>2, <2>2 DEF FoundInv
  <1>6. CASE InsertAll(t) \/ ReplaceAll(t)
    <2>1. pc'[t] = "commit" /\ call' = call /\ call[t].op \in {"addBulkLinks", "addBulkCounts"}
      BY <1>6 DEF InsertAll, ReplaceAll, Proceed, TypeInv, StoreTypeOK, PointOK
    <2>2. FoundOK(t)'
      BY <2>1 DEF FoundOK
    <2> QED BY <1>1, <1>2, <2>2 DEF FoundInv
  <1>7. CASE InsertLink(t) \/ UpdateCount(t) \/ UpdateData(t) \/ SelectLink(t) \/ DeleteRow(t)
             \/ CountDown(t) \/ Deadlock(t) \/ LockWaitTimeout(t)
    <2>1. FoundOK(t)'
      BY <1>7, AddFound, DeleteFound, RestartFound
    <2> QED BY <1>1, <1>2, <2>1 DEF FoundInv
  <1> QED BY <1>1, <1>3, <1>4, <1>5, <1>6, <1>7 DEF StoreStep, Statement, Failure

(* A call that ends well says truly whether it has found its link: the one *)
(* that was committed when it committed, and not one read before a         *)
(* deadlock or a wait.  (LinkStoreMysql.java:270, :340.)                   *)
THEOREM FoundLinksAreThere ==
    ASSUME VisibleCalls
    PROVE  Spec => FoundIsTrue
  <1> DEFINE Inv == TypeInv /\ BookInv /\ HoldInv /\ FoundInv
  <1>1. Init => Inv
    <2> SUFFICES ASSUME Init PROVE Inv
      OBVIOUS
    <2>1. TypeInv /\ BookInv /\ HoldInv
      BY StoreInitTypes, InitBook, InitHold DEF Init
    <2>2. FoundInv
      BY DEF Init, StoreInit, FoundInv, FoundOK
    <2> QED BY <2>1, <2>2
  <1>2. Inv /\ [Next]_vars => Inv'
    <2> SUFFICES ASSUME Inv, [Next]_vars PROVE Inv'
      OBVIOUS
    <2>1. TypeInv' /\ BookInv' /\ HoldInv'
      BY NextBook, NextKeeps
    <2>2. ASSUME NEW t \in Threads, Works(t) \/ Fails(t) PROVE FoundInv'
      BY <2>2, IsStoreStep, FoundStep
    <2>3. ASSUME SendRequests \/ Complete \/ TimeUp \/ Over \/ UNCHANGED vars PROVE FoundInv'
      BY <2>3, DriverLeavesStores, StoreStutters, FoundStays
    <2> QED BY <2>1, <2>2, <2>3 DEF Next
  <1>3. Inv => [\A t \in Threads : pc[t] = "commit" /\ reply'[t] = "ok" =>
                  LET c == call[t] IN
                  /\ c.op = "addLink" /\ c.link[1] \notin doubted
                       => (local[t].found <=> linkdb[c.link] # Null)
                  /\ c.op = "deleteLink" /\ c.link[1] \notin doubted
                       => (local[t].found => linkdb[c.link] # Null)
               ]_storevars
    BY DEF FoundInv, FoundOK
  <1> QED BY <1>1, <1>2, <1>3, PTL DEF Spec, FoundIsTrue

----------------------------------------------------------------------------
(* The stores keep a graph                                                 *)
(*                                                                         *)
(* A transaction changes committed rows when it commits and not before, so *)
(* it is enough to say of a thread which rows it holds, and how what it    *)
(* has written differs from what is committed.                             *)

Within(t, S, K) ==
    /\ \A l \in Links : linklock[l] = t => l \in S
    /\ \A k \in Id1s : countlock[k] = t => k \in K

Sure(l) == l[1] \notin doubted

HidIt(l) == Visible(linkdb[l]) /\ linkcur[l] = [linkdb[l] EXCEPT !.visibility = "HIDDEN"]

CountMoved(k, n) == countcur[k] = Graph!Moved(countdb[k], n)

(* addLink: the link is visible when it is written; its count has moved if *)
(* it was not before.                                                      *)
AddAt(t) ==
    LET l == call[t].link
        k == l[1]
    IN
    /\ pc[t] \in {"insert", "count"} => Within(t, {l}, {})
    /\ pc[t] = "insert" /\ linklock[l] = t
         => Visible(linkcur[l]) /\ (Sure(l) => Visible(linkdb[l]))
    /\ pc[t] = "count" =>
         /\ linklock[l] = t /\ Visible(linkcur[l]) /\ (Sure(l) => ~Visible(linkdb[l]))
         /\ local[t].update_count = 1
         /\ ~local[t].update_data => linkcur[l].data = call[t].data
    /\ pc[t] = "data" \/ (pc[t] = "commit" /\ call[t].op = "addLink") =>
         /\ linklock[l] = t /\ Within(t, {l}, {k})
         /\ countlock[k] = t => CountMoved(k, 1) /\ (Sure(l) => ~Visible(linkdb[l]))
         /\ countlock[k] # t => (Sure(l) => Visible(linkdb[l]))
    /\ pc[t] = "commit" /\ call[t].op = "addLink"
         => linkcur[l] = [visibility |-> "DEFAULT", data |-> call[t].data]

(* deleteLink: a visible link is hidden, and its count moves unless the    *)
(* call has started again in between.                                      *)
DeleteAt(t) ==
    LET l == call[t].link
        k == l[1]
    IN
    /\ pc[t] \in {"select", "delete", "uncount"} => Within(t, {l}, {})
    /\ pc[t] = "select" /\ linklock[l] = t => HidIt(l) /\ ~Sure(l)
    /\ pc[t] = "delete" => linklock[l] = t /\ Visible(linkdb[l]) /\ linkcur[l] = linkdb[l]
    /\ pc[t] = "uncount" => linklock[l] = t /\ HidIt(l)
    /\ pc[t] = "commit" /\ call[t].op = "deleteLink" =>
         /\ Within(t, {l}, {k})
         /\ \/ /\ linklock[l] = t /\ HidIt(l)
               /\ countlock[k] = t => CountMoved(k, -1)
               /\ countlock[k] # t => ~Sure(l)
            \/ (linklock[l] = t => linkcur[l] = linkdb[l]) /\ countlock[k] # t

BulkAt(t) ==
    LET c == call[t] IN
    /\ pc[t] \in {"insertAll", "replaceAll"} => HoldsNothing(t)
    /\ pc[t] = "commit" /\ c.op = "addBulkLinks" =>
         /\ Within(t, c.links, {})
         /\ \A l \in c.links : /\ linklock[l] = t
                               /\ linkcur[l] = Upserted(linkdb[l], "DEFAULT", c.data)
    /\ pc[t] = "commit" /\ c.op = "addBulkCounts" =>
         /\ Within(t, {}, DOMAIN c.counts)
         /\ \A k \in DOMAIN c.counts : countlock[k] = t /\ countcur[k] \in Nat

GraphInv == \A t \in Threads : AddAt(t) /\ DeleteAt(t) /\ BulkAt(t)

(* The step of another leaves the rows t holds, and takes none of them. *)
LEMMA GraphOther ==
    ASSUME TypeInv, GraphInv, NEW t \in Threads, NEW u \in Threads \ {t},
           LinksStep(t), CountsStep(t), OthersStay(t), doubted \subseteq doubted'
    PROVE  AddAt(u)' /\ DeleteAt(u)' /\ BulkAt(u)'
  <1>1. AddAt(u) /\ DeleteAt(u) /\ BulkAt(u) /\ u # Null
    BY StoreAssumption DEF GraphInv
  <1>2. pc'[u] = pc[u] /\ call'[u] = call[u] /\ local'[u] = local[u]
    BY DEF OthersStay
  <1>3. PICK c : c = call[u]
    OBVIOUS
  <1>4. PICK l : l = c.link
    OBVIOUS
  <1>5. PICK k : k = l[1]
    OBVIOUS
  <1>6. /\ pc[u] \in {"insert", "select", "count", "data", "delete", "uncount"}
             => l \in Links /\ k \in Id1s
        /\ pc[u] = "commit" /\ c.op \in {"addLink", "deleteLink"} => l \in Links /\ k \in Id1s
    BY <1>3, <1>4, <1>5, LinkOfCall, LinkFacts DEF AddPoints, DeletePoints
  <1>7. \A r \in Links :
          /\ linklock'[r] = u <=> linklock[r] = u
          /\ linklock[r] = u => linkcur'[r] = linkcur[r] /\ linkdb'[r] = linkdb[r]
    BY <1>1 DEF LinksStep
  <1>8. \A r \in Id1s :
          /\ countlock'[r] = u <=> countlock[r] = u
          /\ countlock[r] = u => countcur'[r] = countcur[r] /\ countdb'[r] = countdb[r]
    BY <1>1 DEF CountsStep
  <1>9. \A S, K : Within(u, S, K) => Within(u, S, K)'
    BY <1>7, <1>8 DEF Within
  <1>10. HoldsNothing(u) => HoldsNothing(u)'
    BY <1>7, <1>8 DEF HoldsNothing
  <1>11. Sure(l)' => Sure(l)
    BY DEF Sure
  <1>12. AddAt(u)'
    <2>1. CASE pc[u] \in {"insert", "count", "data"} \/ (pc[u] = "commit" /\ c.op = "addLink")
      <3>1. l \in Links /\ k \in Id1s
        BY <1>6, <2>1
      <3>2. linklock[l] = u => (HidIt(l) <=> HidIt(l)') /\ (Visible(linkdb[l]) <=> Visible(linkdb[l])')
                               /\ (Visible(linkcur[l]) <=> Visible(linkcur[l])')
        BY <1>7, <3>1 DEF HidIt, Visible
      <3>3. countlock[k] = u => (CountMoved(k, 1) <=> CountMoved(k, 1)')
        BY <1>8, <3>1 DEF CountMoved
      <3> QED BY <1>1, <1>2, <1>3, <1>4, <1>5, <1>7, <1>8, <1>9, <1>11, <3>1, <3>2, <3>3 DEF AddAt
    <2>2. CASE ~(pc[u] \in {"insert", "count", "data"} \/ (pc[u] = "commit" /\ c.op = "addLink"))
      BY <1>2, <1>3, <2>2 DEF AddAt
    <2> QED BY <2>1, <2>2
  <1>13. DeleteAt(u)'
    <2>1. CASE pc[u] \in {"select", "delete", "uncount"} \/ (pc[u] = "commit" /\ c.op = "deleteLink")
      <3>1. l \in Links /\ k \in Id1s
        BY <1>6, <2>1
      <3>2. linklock[l] = u => /\ HidIt(l) <=> HidIt(l)'
                               /\ Visible(linkdb[l]) <=> Visible(linkdb[l])'
        BY <1>7, <3>1 DEF HidIt, Visible
      <3>3. countlock[k] = u => (CountMoved(k, -1) <=> CountMoved(k, -1)')
        BY <1>8, <3>1 DEF CountMoved
      <3> QED BY <1>1, <1>2, <1>3, <1>4, <1>5, <1>7, <1>8, <1>9, <1>11, <3>1, <3>2, <3>3 DEF DeleteAt
    <2>2. CASE ~(pc[u] \in {"select", "delete", "uncount"} \/ (pc[u] = "commit" /\ c.op = "deleteLink"))
      BY <1>2, <1>3, <2>2 DEF DeleteAt
    <2> QED BY <2>1, <2>2
  <1>14. BulkAt(u)'
    <2>1. CASE pc[u] = "commit" /\ c.op \in {"addBulkLinks", "addBulkCounts"}
      <3>1. /\ c.op = "addBulkLinks" => c.links \subseteq Links
            /\ c.op = "addBulkCounts" => DOMAIN c.counts \subseteq Id1s
        BY <1>3, <2>1, CallTypeFacts DEF TypeInv, PointOK
      <3> QED BY <1>1, <1>2, <1>3, <1>7, <1>8, <1>9, <2>1, <3>1 DEF BulkAt
    <2>2. CASE ~(pc[u] = "commit" /\ c.op \in {"addBulkLinks", "addBulkCounts"})
      BY <1>1, <1>2, <1>3, <1>10, <2>2 DEF BulkAt
    <2> QED BY <2>1, <2>2
  <1> QED BY <1>12, <1>13, <1>14

(* What a step leaves of a thread that is not in a call, or has only       *)
(* looked at where it is.                                                  *)
LEMMA GraphIdle ==
    ASSUME NEW t, pc'[t] \in {"idle", "returned", "read"}
    PROVE  AddAt(t)' /\ DeleteAt(t)' /\ BulkAt(t)'
  BY DEF AddAt, DeleteAt, BulkAt

(* A write of l, the only row t holds, and of a count. *)
LEMMA WithinWrites ==
    ASSUME NEW t \in Threads, NEW l \in Links, NEW K, Within(t, {l}, K)
    PROVE  /\ \A v : LinkWritten(t, l, v) /\ CountsStay => Within(t, {l}, K)'
           /\ \A k \in Id1s : \A v : CountWritten(t, k, v) /\ LinksStay => Within(t, {l}, K \cup {k})'
           /\ LinksStay /\ CountsStay => Within(t, {l}, K)'
  BY StoreAssumption DEF Within, LinkWritten, CountWritten, LinksStay, CountsStay

LEMMA AddGraph ==
    ASSUME TypeInv, HoldInv, GraphInv, NEW t \in Threads,
           InsertLink(t) \/ UpdateCount(t) \/ UpdateData(t)
    PROVE  AddAt(t)' /\ DeleteAt(t)' /\ BulkAt(t)'
  <1>1. /\ AddAt(t) /\ OpAt(t) /\ UnlockedIsCommitted /\ StoreTypeOK /\ DOMAIN pc = Threads
        /\ local \in [Threads -> LocalType] /\ t # Null
    BY StoreAssumption DEF GraphInv, HoldInv, TypeInv, StoreTypeOK
  <1>2. PICK l \in Links : l = call[t].link
    BY LinkOfCall DEF AddPoints, InsertLink, UpdateCount, UpdateData
  <1>3. PICK k \in Id1s : k = l[1]
    BY LinkFacts
  <1>4. call' = call /\ doubted' = doubted
    BY DEF InsertLink, UpdateCount, UpdateData
  <1>5. call[t].op = "addLink" /\ call[t].visibility = "DEFAULT" /\ call[t].data \in Data
    <2>1. call[t].op = "addLink" /\ call[t].visibility = "DEFAULT" /\ pc[t] # "idle" /\ PointOK(t)
      BY <1>1 DEF OpAt, TypeInv, InsertLink, UpdateCount, UpdateData
    <2> QED BY <2>1, CallTypeFacts DEF PointOK
  <1>6. /\ linklock[l] = Null => linkcur[l] = linkdb[l]
        /\ countlock[k] = Null => countcur[k] = countdb[k]
    BY <1>1 DEF UnlockedIsCommitted
  <1>7. linkcur[l] \in LinkRow \cup {Null} /\ "DEFAULT" \in Visibilities
    BY <1>1 DEF StoreTypeOK, Visibilities
  <1>8. Sure(l)' <=> Sure(l)
    BY <1>4 DEF Sure
  <1>9. CASE InsertLink(t)
    <2> DEFINE row == Upserted(linkcur[l], "DEFAULT", call[t].data)
               n   == AffectedRows(linkcur[l], "DEFAULT")
    <2>1. /\ pc[t] = "insert" /\ L!Write(t, l, row) /\ CountsStay
          /\ local' = [local EXCEPT ![t] = [found |-> n # 1,
                                            update_count |-> CountChange(n, "DEFAULT"),
                                            update_data |-> n # 1]]
          /\ pc'[t] = IF CountChange(n, "DEFAULT") # 0 THEN "count"
                      ELSE IF n = 0 THEN "data" ELSE "returned"
      BY <1>1, <1>2, <1>5, <1>9 DEF InsertLink, Proceed, Return, CountsStay, counttable
    <2>2. /\ row \in LinkRow /\ row.visibility = "DEFAULT" /\ row # Null
          /\ linkcur[l] = Null => row.data = call[t].data
      BY <1>5, <1>7, UpsertFacts, StoreAssumption DEF Upserted
    <2>3. /\ n \in {0, 1, 2} /\ (n = 0 <=> Visible(linkcur[l])) /\ (n = 1 <=> linkcur[l] = Null)
      BY <1>7, StoreAssumption DEF AffectedRows, Visible, LinkRow, Visibilities
    <2> HIDE DEF row, n
    <2>4. /\ local'[t].update_count = CountChange(n, "DEFAULT") /\ (local'[t].update_data <=> n # 1)
          /\ CountChange(n, "DEFAULT") = IF n = 0 THEN 0 ELSE 1
      <3>1. local'[t].update_count = CountChange(n, "DEFAULT")
        BY <1>1, <2>1
      <3>2. local'[t].update_data <=> n # 1
        <4>1. local'[t].update_data = (n # 1)
          BY <1>1, <2>1
        <4> QED BY <4>1
      <3>3. CountChange(n, "DEFAULT") = IF n = 0 THEN 0 ELSE 1
        BY <2>3 DEF CountChange
      <3> QED BY <3>1, <3>2, <3>3
    <2>5. LinkWritten(t, l, row)
      BY <1>1, <2>1, <2>2, LinkWrite
    <2>6. /\ linklock'[l] = t /\ linkcur'[l] = row /\ linkdb'[l] = linkdb[l]
          /\ linklock[l] \in {t, Null} /\ Within(t, {l}, {})' /\ countlock'[k] # t
      <3>1. Within(t, {l}, {})
        BY <1>1, <1>2, <2>1 DEF AddAt
      <3>2. Within(t, {l}, {})'
        BY <2>1, <2>5, <3>1, WithinWrites
      <3> QED BY <2>5, <3>2 DEF LinkWritten, Within
    <2>7. /\ linklock[l] = t => n = 0 /\ (Sure(l) => Visible(linkdb[l]))
          /\ linklock[l] = Null => (n = 0 <=> Visible(linkdb[l]))
      BY <1>1, <1>2, <1>6, <2>1, <2>3 DEF AddAt
    <2>8. Visible(linkcur[l])' /\ (Visible(linkdb[l])' <=> Visible(linkdb[l]))
      BY <2>2, <2>6 DEF Visible
    <2>9. Within(t, {l}, {k})'
      BY <2>6 DEF Within
    <2>10. CASE n = 0
      <3>1. pc'[t] = "data" /\ (Sure(l) => Visible(linkdb[l]))
        BY <2>1, <2>4, <2>6, <2>7, <2>10
      <3>2. AddAt(t)'
        BY <1>2, <1>3, <1>4, <1>8, <2>6, <2>8, <2>9, <3>1 DEF AddAt
      <3> QED BY <3>1, <3>2 DEF DeleteAt, BulkAt
    <2>11. CASE n # 0
      <3>1. pc'[t] = "count" /\ ~Visible(linkdb[l]) /\ linklock[l] = Null
        BY <1>1, <2>1, <2>4, <2>6, <2>7, <2>11
      <3>2. ~local'[t].update_data => linkcur'[l].data = call[t].data
        BY <2>2, <2>3, <2>4, <2>6
      <3>3. local'[t].update_count = 1
        BY <2>4, <2>11
      <3>4. AddAt(t)'
        BY <1>2, <1>4, <1>8, <2>6, <2>8, <3>1, <3>2, <3>3 DEF AddAt
      <3> QED BY <3>1, <3>4 DEF DeleteAt, BulkAt
    <2> QED BY <2>10, <2>11
  <1>10. CASE UpdateCount(t)
    <2> DEFINE count == IF countcur[k] = Null THEN 1 ELSE countcur[k] + 1
    <2>1. /\ pc[t] = "count" /\ linklock[l] = t /\ Visible(linkcur[l])
          /\ Sure(l) => ~Visible(linkdb[l])
          /\ local[t].update_count = 1 /\ Within(t, {l}, {})
          /\ ~local[t].update_data => linkcur[l].data = call[t].data
      BY <1>1, <1>2, <1>10 DEF AddAt, UpdateCount
    <2>2. count \in Nat /\ LinksStay /\ local' = local /\ C!Write(t, k, count)
          /\ pc'[t] = IF local[t].update_data THEN "data" ELSE "commit"
      <3>1. countcur[k] \in Nat \cup {Null}
        BY <1>1 DEF StoreTypeOK
      <3>2. LinksStay /\ local' = local
        BY <1>10 DEF UpdateCount, LinksStay, linktable
      <3>3. count \in Nat /\ ~(count < 0)
        BY <3>1
      <3>4. count = IF countcur[k] = Null THEN (IF 1 < 0 THEN 0 ELSE 1) ELSE countcur[k] + 1
        OBVIOUS
      <3> HIDE DEF count
      <3>5. C!Write(t, k, count) /\ Proceed(t, IF local[t].update_data THEN "data" ELSE "commit")
        BY <1>2, <1>3, <1>10, <2>1, <3>3, <3>4 DEF UpdateCount
      <3> QED BY <1>1, <3>2, <3>3, <3>5 DEF Proceed
    <2>3. countlock[k] \in {t, Null} /\ countlock[k] # t
      BY <2>1, <2>2 DEF Within, C!Write, C!Available
    <2>4. count = Graph!Moved(countdb[k], 1)
      <3>1. countcur[k] \in Nat \cup {Null} /\ countcur[k] = countdb[k]
        BY <1>1, <1>6, <2>3 DEF StoreTypeOK
      <3> QED BY <3>1 DEF Graph!Moved
    <2> HIDE DEF count
    <2>5. CountWritten(t, k, count)
      BY <1>1, <2>2, CountWrite
    <2>6. Within(t, {l}, {k})' /\ countlock'[k] = t /\ CountMoved(k, 1)'
      <3>1. Within(t, {l}, {} \cup {k})'
        BY <2>1, <2>2, <2>5, WithinWrites
      <3>2. countlock'[k] = t /\ countcur'[k] = count /\ countdb'[k] = countdb[k]
        BY <2>5 DEF CountWritten
      <3>3. {} \cup {k} = {k}
        OBVIOUS
      <3> QED BY <2>4, <3>1, <3>2, <3>3 DEF CountMoved
    <2>7. /\ linklock'[l] = t /\ linkcur'[l] = linkcur[l]
          /\ Visible(linkcur[l])' /\ (Visible(linkdb[l])' <=> Visible(linkdb[l]))
      BY <2>1, <2>2 DEF LinksStay, Visible
    <2>8. ~local[t].update_data => linkcur[l] = [visibility |-> "DEFAULT", data |-> call[t].data]
      BY <1>7, <2>1 DEF Visible, LinkRow
    <2>9. AddAt(t)'
      BY <1>2, <1>3, <1>4, <1>8, <2>1, <2>2, <2>6, <2>7, <2>8 DEF AddAt
    <2> QED BY <1>4, <1>5, <2>2, <2>9 DEF DeleteAt, BulkAt
  <1>11. CASE UpdateData(t)
    <2> DEFINE row == [visibility |-> "DEFAULT", data |-> call[t].data]
    <2>1. /\ pc[t] = "data" /\ pc'[t] = "commit" /\ L!Write(t, l, row) /\ CountsStay
      BY <1>1, <1>2, <1>5, <1>11 DEF UpdateData, Proceed, CountsStay, counttable
    <2>2. row \in LinkRow
      BY <1>5, <1>7 DEF LinkRow
    <2>3. /\ linklock[l] = t /\ Within(t, {l}, {k})
          /\ countlock[k] = t => CountMoved(k, 1) /\ (Sure(l) => ~Visible(linkdb[l]))
          /\ countlock[k] # t => (Sure(l) => Visible(linkdb[l]))
      BY <1>1, <1>2, <1>3, <2>1 DEF AddAt
    <2> HIDE DEF row
    <2>4. LinkWritten(t, l, row)
      BY <1>1, <2>1, <2>2, LinkWrite
    <2>5. Within(t, {l}, {k})'
      BY <2>1, <2>3, <2>4, WithinWrites
    <2>6. /\ linklock'[l] = t /\ linkcur'[l] = row /\ linkdb'[l] = linkdb[l]
          /\ countlock' = countlock /\ (CountMoved(k, 1)' <=> CountMoved(k, 1))
      BY <2>1, <2>4 DEF LinkWritten, CountsStay, CountMoved
    <2>7. Visible(linkdb[l])' <=> Visible(linkdb[l])
      BY <2>6 DEF Visible
    <2>8. linkcur'[l] = [visibility |-> "DEFAULT", data |-> call[t].data]
      BY <2>6 DEF row
    <2>9. AddAt(t)'
      BY <1>2, <1>3, <1>4, <1>8, <2>1, <2>3, <2>5, <2>6, <2>7, <2>8 DEF AddAt
    <2> QED BY <1>4, <1>5, <2>1, <2>9 DEF DeleteAt, BulkAt
  <1> QED BY <1>9, <1>10, <1>11


LEMMA DeleteGraph ==
    ASSUME TypeInv, HoldInv, GraphInv, NEW t \in Threads, Hiding(t),
           SelectLink(t) \/ DeleteRow(t) \/ CountDown(t)
    PROVE  AddAt(t)' /\ DeleteAt(t)' /\ BulkAt(t)'
  <1>1. /\ DeleteAt(t) /\ OpAt(t) /\ UnlockedIsCommitted /\ StoreTypeOK /\ DOMAIN pc = Threads
        /\ t # Null
    BY StoreAssumption DEF GraphInv, HoldInv, TypeInv, StoreTypeOK
  <1>2. PICK l \in Links : l = call[t].link
    BY LinkOfCall DEF DeletePoints, SelectLink, DeleteRow, CountDown
  <1>3. PICK k \in Id1s : k = l[1]
    BY LinkFacts
  <1>4. call' = call /\ call[t].op = "deleteLink" /\ ~call[t].expunge
    BY <1>1 DEF OpAt, Hiding, SelectLink, DeleteRow, CountDown
  <1>5. /\ linklock[l] = Null => linkcur[l] = linkdb[l]
        /\ countlock[k] = Null => countcur[k] = countdb[k]
    BY <1>1 DEF UnlockedIsCommitted
  <1>6. linkcur[l] \in LinkRow \cup {Null} /\ linkdb[l] \in LinkRow \cup {Null}
    BY <1>1 DEF StoreTypeOK
  <1>7. doubted \subseteq doubted' /\ (Sure(l)' => Sure(l))
    BY DEF Sure, SelectLink, DeleteRow, CountDown
  <1>8. CASE SelectLink(t)
    <2>1. /\ pc[t] = "select" /\ L!SelectForUpdate(t, l) /\ CountsStay
          /\ pc'[t] = IF linkcur[l] = Null THEN "commit"
                      ELSE IF linkcur[l].visibility = "HIDDEN" THEN "commit" ELSE "delete"
      BY <1>1, <1>2, <1>4, <1>8 DEF SelectLink, Proceed, CountsStay, counttable
    <2>2. /\ linklock[l] \in {t, Null} /\ linkdb' = linkdb /\ linkcur' = linkcur
          /\ linkcur[l] # Null => linklock'[l] = t
          /\ linklock'[l] \in {linklock[l], t} /\ (linklock'[l] # t => linklock' = linklock)
          /\ \A r \in Links \ {l} : linklock'[r] = linklock[r]
      <3>1. DOMAIN linklock = Links
        BY <1>1 DEF StoreTypeOK
      <3> QED BY <2>1, <3>1 DEF L!SelectForUpdate, L!Available, L!Hold
    <2>3. Within(t, {l}, {}) /\ (linklock[l] = t => HidIt(l) /\ ~Sure(l))
      BY <1>1, <1>2, <2>1 DEF DeleteAt
    <2>4. Within(t, {l}, {})' /\ Within(t, {l}, {k})' /\ countlock'[k] # t
      BY <2>1, <2>2, <2>3 DEF Within, CountsStay
    <2>5. /\ HidIt(l) => linkcur[l] # Null /\ linkcur[l].visibility = "HIDDEN"
          /\ HidIt(l)' <=> HidIt(l)
      <3>1. HidIt(l) => linkcur[l] \in LinkRow /\ linkcur[l].visibility = "HIDDEN"
        <4> SUFFICES ASSUME HidIt(l)
                     PROVE  linkcur[l] \in LinkRow /\ linkcur[l].visibility = "HIDDEN"
          OBVIOUS
        <4>1. linkdb[l] \in LinkRow /\ linkcur[l] = [linkdb[l] EXCEPT !.visibility = "HIDDEN"]
          BY <1>6 DEF HidIt, Visible
        <4> QED BY <4>1 DEF LinkRow, Visibilities
      <3>2. linkcur[l] \in LinkRow => linkcur[l] # Null
        BY StoreAssumption
      <3>3. HidIt(l)' <=> HidIt(l)
        BY <2>2 DEF HidIt, Visible
      <3> QED BY <3>1, <3>2, <3>3
    <2>6. CASE linkcur[l] # Null /\ linkcur[l].visibility # "HIDDEN"
      <3>1. pc'[t] = "delete" /\ linklock'[l] = t /\ linkcur[l] = linkdb[l]
        BY <1>5, <2>1, <2>2, <2>3, <2>5, <2>6
      <3>2. Visible(linkdb[l])'
        BY <1>6, <2>2, <2>6, <3>1 DEF Visible, LinkRow, Visibilities
      <3>3. DeleteAt(t)'
        BY <1>2, <1>4, <2>2, <2>4, <3>1, <3>2 DEF DeleteAt
      <3> QED BY <3>1, <3>3 DEF AddAt, BulkAt
    <2>7. CASE linkcur[l] = Null \/ linkcur[l].visibility = "HIDDEN"
      <3>1. pc'[t] = "commit"
        BY <2>1, <2>7
      <3>2. \/ linklock'[l] = t /\ HidIt(l) /\ ~Sure(l)
            \/ linklock'[l] = t => linkcur[l] = linkdb[l]
        BY <1>5, <2>2, <2>3
      <3>3. DeleteAt(t)'
        BY <1>2, <1>3, <1>4, <1>7, <2>2, <2>4, <2>5, <3>1, <3>2 DEF DeleteAt
      <3> QED BY <1>4, <3>1, <3>3 DEF AddAt, BulkAt
    <2> QED BY <2>6, <2>7
  <1>9. CASE DeleteRow(t)
    <2> DEFINE row == [linkcur[l] EXCEPT !.visibility = "HIDDEN"]
    <2>1. /\ pc[t] = "delete" /\ pc'[t] = "uncount" /\ L!Write(t, l, row) /\ CountsStay
      BY <1>1, <1>2, <1>4, <1>9 DEF DeleteRow, Proceed, CountsStay, counttable
    <2>2. /\ Within(t, {l}, {}) /\ linklock[l] = t /\ Visible(linkdb[l])
          /\ linkcur[l] = linkdb[l] /\ linkcur[l] # Null
      BY <1>1, <1>2, <2>1 DEF DeleteAt, Visible
    <2>3. row \in LinkRow /\ row = [linkdb[l] EXCEPT !.visibility = "HIDDEN"]
      BY <1>6, <2>2 DEF LinkRow, Visibilities
    <2> HIDE DEF row
    <2>4. LinkWritten(t, l, row)
      BY <1>1, <2>1, <2>3, LinkWrite
    <2>5. Within(t, {l}, {})'
      BY <2>1, <2>2, <2>4, WithinWrites
    <2>6. linklock'[l] = t /\ linkcur'[l] = row /\ linkdb'[l] = linkdb[l]
      BY <2>4 DEF LinkWritten
    <2>7. HidIt(l)'
      BY <2>2, <2>3, <2>6 DEF HidIt, Visible
    <2>8. DeleteAt(t)'
      BY <1>2, <1>4, <2>1, <2>5, <2>6, <2>7 DEF DeleteAt
    <2> QED BY <2>1, <2>8 DEF AddAt, BulkAt
  <1>10. CASE CountDown(t)
    <2> DEFINE count == IF countcur[k] \in {Null, 0} THEN 0 ELSE countcur[k] - 1
    <2>1. /\ pc[t] = "uncount" /\ pc'[t] = "commit" /\ C!Write(t, k, count) /\ LinksStay
      BY <1>1, <1>2, <1>3, <1>10 DEF CountDown, Proceed, LinksStay, linktable
    <2>2. Within(t, {l}, {}) /\ linklock[l] = t /\ HidIt(l)
      BY <1>1, <1>2, <2>1 DEF DeleteAt
    <2>3. countlock[k] \in {t, Null} /\ countlock[k] # t
      BY <2>1, <2>2 DEF Within, C!Write, C!Available
    <2>4. count \in Nat /\ count = Graph!Moved(countdb[k], -1)
      <3>1. countcur[k] \in Nat \cup {Null} /\ countcur[k] = countdb[k]
        BY <1>1, <1>5, <2>3 DEF StoreTypeOK
      <3> QED BY <3>1 DEF Graph!Moved
    <2> HIDE DEF count
    <2>5. CountWritten(t, k, count)
      BY <1>1, <2>1, <2>4, CountWrite
    <2>6. Within(t, {l}, {k})' /\ countlock'[k] = t /\ CountMoved(k, -1)'
      <3>1. Within(t, {l}, {} \cup {k})'
        BY <2>1, <2>2, <2>5, WithinWrites
      <3>2. countlock'[k] = t /\ countcur'[k] = count /\ countdb'[k] = countdb[k]
        BY <2>5 DEF CountWritten
      <3>3. {} \cup {k} = {k}
        OBVIOUS
      <3> QED BY <2>4, <3>1, <3>2, <3>3 DEF CountMoved
    <2>7. linklock'[l] = t /\ HidIt(l)'
      BY <2>1, <2>2 DEF LinksStay, HidIt, Visible
    <2>8. DeleteAt(t)'
      BY <1>2, <1>3, <1>4, <2>1, <2>6, <2>7 DEF DeleteAt
    <2> QED BY <1>4, <2>1, <2>8 DEF AddAt, BulkAt
  <1> QED BY <1>8, <1>9, <1>10

LEMMA BulkGraph ==
    ASSUME TypeInv, HoldInv, GraphInv, NEW t \in Threads, InsertAll(t) \/ ReplaceAll(t)
    PROVE  AddAt(t)' /\ DeleteAt(t)' /\ BulkAt(t)'
  <1>1. /\ BulkAt(t) /\ OpAt(t) /\ UnlockedIsCommitted /\ StoreTypeOK /\ DOMAIN pc = Threads
        /\ t # Null /\ PointOK(t)
    BY StoreAssumption DEF GraphInv, HoldInv, TypeInv, StoreTypeOK
  <1>2. PICK c : c = call[t]
    OBVIOUS
  <1>3. call' = call /\ pc'[t] = "commit" /\ HoldsNothing(t) /\ CallType(c)
    BY <1>1, <1>2 DEF InsertAll, ReplaceAll, Proceed, BulkAt, PointOK
  <1>4. CASE InsertAll(t)
    <2> DEFINE new == [l \in c.links |-> Upserted(linkcur[l], "DEFAULT", c.data)]
    <2>1. L!WriteRows(t, new) /\ CountsStay /\ c.op = "addBulkLinks"
      BY <1>1, <1>2, <1>4 DEF InsertAll, OpAt, CountsStay, counttable
    <2>2. c.links \subseteq Links
      BY <1>3, <2>1, CallTypeFacts
    <2>3. /\ \A l \in c.links : linklock[l] \in {t, Null}
          /\ linklock' = [l \in Links |-> IF l \in c.links THEN t ELSE linklock[l]]
          /\ linkcur' = [l \in Links |-> IF l \in c.links THEN new[l] ELSE linkcur[l]]
          /\ linkdb' = linkdb
      BY <2>1 DEF L!WriteRows, L!Available
    <2>4. ASSUME NEW l \in c.links
          PROVE  linklock'[l] = t /\ linkcur'[l] = Upserted(linkdb'[l], "DEFAULT", c.data)
      <3>1. linklock[l] = Null /\ l \in Links
        BY <1>3, <2>2, <2>3, <2>4 DEF HoldsNothing
      <3>2. linkcur[l] = linkdb[l]
        BY <1>1, <3>1 DEF UnlockedIsCommitted
      <3> QED BY <2>3, <2>4, <3>1, <3>2
    <2>5. Within(t, c.links, {})'
      BY <1>3, <2>1, <2>3 DEF HoldsNothing, Within, CountsStay
    <2>6. BulkAt(t)'
      BY <1>2, <1>3, <2>1, <2>4, <2>5 DEF BulkAt
    <2> QED BY <1>2, <1>3, <2>1, <2>6 DEF AddAt, DeleteAt
  <1>5. CASE ReplaceAll(t)
    <2>1. C!WriteRows(t, c.counts) /\ LinksStay /\ c.op = "addBulkCounts"
      BY <1>1, <1>2, <1>5 DEF ReplaceAll, OpAt, LinksStay, linktable
    <2>2. DOMAIN c.counts \subseteq Id1s /\ \A k \in DOMAIN c.counts : c.counts[k] \in Nat
      BY <1>3, <2>1, CallTypeFacts
    <2>3. /\ countlock' = [k \in Id1s |-> IF k \in DOMAIN c.counts THEN t ELSE countlock[k]]
          /\ countcur' = [k \in Id1s |-> IF k \in DOMAIN c.counts THEN c.counts[k] ELSE countcur[k]]
      BY <2>1 DEF C!WriteRows
    <2>4. \A k \in DOMAIN c.counts : countlock'[k] = t /\ countcur'[k] \in Nat
      BY <2>2, <2>3
    <2>5. Within(t, {}, DOMAIN c.counts)'
      BY <1>3, <2>1, <2>3 DEF HoldsNothing, Within, LinksStay
    <2>6. BulkAt(t)'
      BY <1>2, <1>3, <2>1, <2>4, <2>5 DEF BulkAt
    <2> QED BY <1>2, <1>3, <2>1, <2>6 DEF AddAt, DeleteAt
  <1> QED BY <1>4, <1>5

(* A call that starts again after a deadlock holds nothing; after a wait   *)
(* that has timed out it holds the link it has written.                    *)
LEMMA RestartGraph ==
    ASSUME TypeInv, HoldInv, GraphInv, NEW t \in Threads, Deadlock(t) \/ LockWaitTimeout(t)
    PROVE  AddAt(t)' /\ DeleteAt(t)' /\ BulkAt(t)'
  <1>1. /\ AddAt(t) /\ DeleteAt(t) /\ BulkAt(t) /\ OpAt(t) /\ PointOK(t) /\ DOMAIN pc = Threads
        /\ t # Null
    BY StoreAssumption DEF GraphInv, HoldInv, Domains, TypeInv
  <1>2. /\ pc[t] \in Writing /\ pc'[t] = FirstStatement(call[t]) /\ call' = call
        /\ CallType(call[t])
    BY <1>1 DEF Deadlock, LockWaitTimeout, Waits, Writing, Proceed, PointOK
  <1>3. /\ pc'[t] \in {"insert", "select", "read", "insertAll", "replaceAll"}
        /\ pc'[t] = "insert" => call[t].op = "addLink"
        /\ pc'[t] = "select" => call[t].op = "deleteLink"
    BY <1>2, CallTypeFacts DEF FirstStatement
  <1>4. pc'[t] \in {"insert", "select"} => call[t].link \in Links /\ call[t].link[1] \in Id1s
    BY <1>2, <1>3, CallTypeFacts
  <1>5. CASE Deadlock(t)
    <2>1. HoldsNothing(t)'
      <3>1. LinksRolledBack(t) /\ CountsRolledBack(t)
        BY <1>5, RollbackRows DEF TypeInv, Deadlock
      <3> QED BY <1>1, <3>1 DEF LinksRolledBack, CountsRolledBack, HoldsNothing
    <2>2. (\A S, K : Within(t, S, K)')
      BY <2>1 DEF HoldsNothing, Within
    <2>3. pc'[t] \in {"insert", "select"} => linklock'[call[t].link] # t
      BY <1>4, <2>1 DEF HoldsNothing
    <2> QED BY <1>2, <1>3, <2>1, <2>2, <2>3 DEF AddAt, DeleteAt, BulkAt
  <1>6. CASE LockWaitTimeout(t)
    <2>1. PICK l : l = call[t].link
      OBVIOUS
    <2>2. /\ LinksStay /\ CountsStay /\ Waits(t)
          /\ doubted' = IF linklock[l] = t /\ Visible(linkcur[l]) # Visible(linkdb[l])
                        THEN doubted \cup {l[1]} ELSE doubted
      BY <1>6, <2>1 DEF LockWaitTimeout, linktable, counttable, LinksStay, CountsStay
    <2>3. /\ pc[t] \in {"insert", "select", "data", "delete"} => linklock[l] # t
          /\ pc[t] \in {"insert", "select", "data", "delete", "count", "uncount"}
          /\ pc[t] \notin {"data", "delete"}
      <3>1. /\ pc[t] \in {"insert", "select", "data", "delete"} => linklock[l] # t
            /\ pc[t] \in {"insert", "select", "data", "delete", "count", "uncount"}
        BY <2>1, <2>2 DEF Waits, L!Available
      <3>2. pc[t] \in {"data", "delete"} => linklock[l] = t
        BY <1>1, <2>1 DEF AddAt, DeleteAt
      <3> QED BY <3>1, <3>2
    <2>4. Within(t, {l}, {}) /\ (pc[t] \in {"insert", "count"} \/ pc[t] \in {"select", "uncount"})
      BY <1>1, <2>1, <2>3 DEF AddAt, DeleteAt
    <2>5. Within(t, {l}, {})'
      BY <2>2, <2>4 DEF Within, LinksStay, CountsStay
    <2>6. CASE pc[t] \in {"insert", "count"}
      <3>1. pc'[t] = "insert"
        BY <1>1, <1>2, <2>6 DEF OpAt, FirstStatement
      <3>2. linklock'[l] = t => Visible(linkcur[l])' /\ (Sure(l)' => Visible(linkdb[l])')
        <4>1. linklock[l] = t => Visible(linkcur[l])
          BY <1>1, <2>1, <2>3, <2>6 DEF AddAt
        <4>2. linklock[l] = t /\ ~Visible(linkdb[l]) => ~Sure(l)'
          BY <2>2, <4>1 DEF Sure, Visible
        <4> QED BY <2>2, <4>1, <4>2 DEF LinksStay, Visible
      <3>3. AddAt(t)'
        BY <1>2, <2>1, <2>5, <3>1, <3>2 DEF AddAt
      <3> QED BY <3>1, <3>3 DEF DeleteAt, BulkAt
    <2>7. CASE pc[t] \in {"select", "uncount"}
      <3>1. pc'[t] = "select"
        BY <1>1, <1>2, <2>7 DEF OpAt, FirstStatement
      <3>2. linklock'[l] = t => HidIt(l)' /\ ~Sure(l)'
        <4>1. linklock[l] = t => HidIt(l)
          BY <1>1, <2>1, <2>3, <2>7 DEF DeleteAt
        <4>2. HidIt(l) => Visible(linkdb[l]) /\ ~Visible(linkcur[l])
          <5>1. l \in Links
            BY <1>3, <1>4, <2>1, <3>1
          <5>2. linkdb[l] \in LinkRow \cup {Null}
            BY <5>1 DEF TypeInv, StoreTypeOK
          <5> QED BY <5>2 DEF HidIt, Visible, LinkRow
        <4>3. linklock[l] = t => ~Sure(l)'
          BY <2>2, <4>1, <4>2 DEF Sure
        <4> QED BY <2>2, <4>1, <4>3 DEF LinksStay, HidIt, Visible
      <3>3. DeleteAt(t)'
        BY <1>2, <2>1, <2>5, <3>1, <3>2 DEF DeleteAt
      <3> QED BY <3>1, <3>3 DEF AddAt, BulkAt
    <2> QED BY <2>4, <2>6, <2>7
  <1> QED BY <1>5, <1>6

(* A call that starts holds nothing. *)
LEMMA CallGraph ==
    ASSUME TypeInv, HoldInv, NEW t \in Threads, NEW c, CallType(c), Call(t, c)
    PROVE  AddAt(t)' /\ DeleteAt(t)' /\ BulkAt(t)'
  <1>1. /\ call'[t] = c /\ HoldsNothing(t) /\ linklock' = linklock /\ countlock' = countlock
    BY CallStep DEF HoldInv, Settled, Call, linktable, counttable
  <1>2. pc'[t] \in {FirstStatement(c), "returned"}
    BY DEF Call, Proceed, Return, TypeInv, StoreTypeOK
  <1>3. /\ pc'[t] \in {"insert", "select", "read", "insertAll", "replaceAll", "returned"}
        /\ pc'[t] \in {"insert", "select"} => c.op \in {"addLink", "deleteLink"}
    BY <1>2, CallTypeFacts DEF FirstStatement
  <1>4. pc'[t] \in {"insert", "select"} => c.link \in Links
    BY <1>3, CallTypeFacts
  <1>5. HoldsNothing(t)' /\ \A S, K : Within(t, S, K)'
    BY <1>1 DEF HoldsNothing, Within
  <1>6. pc'[t] \in {"insert", "select"} => linklock'[c.link] # t
    BY <1>4, <1>5 DEF HoldsNothing
  <1> QED BY <1>1, <1>3, <1>5, <1>6 DEF AddAt, DeleteAt, BulkAt

LEMMA GraphStays ==
    ASSUME GraphInv, StoreStays
    PROVE  GraphInv'
  <1>1. /\ linkdb' = linkdb /\ linkcur' = linkcur /\ linklock' = linklock
        /\ countdb' = countdb /\ countcur' = countcur /\ countlock' = countlock
        /\ pc' = pc /\ call' = call /\ local' = local /\ doubted' = doubted
    BY DEF StoreStays, LinksStay, CountsStay
  <1>2. ASSUME NEW t \in Threads, AddAt(t) PROVE AddAt(t)'
    BY <1>1, <1>2 DEF AddAt, Within, Sure, CountMoved, Visible
  <1>3. ASSUME NEW t \in Threads, DeleteAt(t) PROVE DeleteAt(t)'
    BY <1>1, <1>3 DEF DeleteAt, Within, Sure, HidIt, CountMoved, Visible
  <1>4. ASSUME NEW t \in Threads, BulkAt(t) PROVE BulkAt(t)'
    BY <1>1, <1>4 DEF BulkAt, Within, HoldsNothing
  <1> QED BY <1>2, <1>3, <1>4 DEF GraphInv

LEMMA GraphStep ==
    ASSUME TypeInv, HoldInv, GraphInv, NEW t \in Threads, Hiding(t), StoreStep(t)
    PROVE  GraphInv'
  <1> DEFINE Kept(u) == AddAt(u)' /\ DeleteAt(u)' /\ BulkAt(u)'
  <1>1. CASE StoreStays
    BY <1>1, GraphStays
  <1>2. ASSUME ~StoreStays
        PROVE  \A u \in Threads \ {t} : Kept(u)
    BY <1>2, StoreStepKeeps, DoubtStays, GraphOther DEF AnyStepOK
  <1>3. Kept(t) \/ StoreStays
    <2>1. CASE \E c \in Calls : Call(t, c)
      <3>1. PICK c \in Calls : Call(t, c)
        BY <2>1
      <3>2. CallType(c)
        BY StoreAssumption DEF CallType
      <3> QED BY <3>1, <3>2, CallGraph
    <2>2. CASE LoadersCall(t)
      BY <2>2, CallGraph DEF LoadersCall
    <2>3. CASE TakeReply(t) \/ ClearErrors(t) \/ Close(t) \/ Initialize(t) \/ ReadLink(t)
               \/ CommitCall(t) \/ StatementFails(t)
      <3>1. pc'[t] \in {"idle", "returned"}
        BY <2>3, TakeReplyStep, ClearErrorsStep DEF Close, Initialize, progress, ReadLink,
           CommitCall, StatementFails, Return, TypeInv, StoreTypeOK
      <3> QED BY <3>1, GraphIdle
    <2>4. CASE InsertLink(t) \/ UpdateCount(t) \/ UpdateData(t)
      BY <2>4, AddGraph
    <2>5. CASE SelectLink(t) \/ DeleteRow(t) \/ CountDown(t)
      BY <2>5, DeleteGraph
    <2>6. CASE InsertAll(t) \/ ReplaceAll(t)
      BY <2>6, BulkGraph
    <2>7. CASE Deadlock(t) \/ LockWaitTimeout(t)
      BY <2>7, RestartGraph
    <2> QED BY <2>1, <2>2, <2>3, <2>4, <2>5, <2>6, <2>7 DEF StoreStep, Statement, Failure
  <1> QED BY <1>1, <1>2, <1>3 DEF GraphInv

(* A link and its count change together. *)
LEMMA ChangeMapped ==
    ASSUME NEW l \in Links, NEW row, NEW m \in {-1, 0, 1},
           linkdb' = [linkdb EXCEPT ![l] = row],
           countdb' = IF m = 0 THEN countdb ELSE [countdb EXCEPT ![l[1]] = Graph!Moved(@, m)],
           Sure(l) => m = Graph!Weight(row) - Graph!Weight(linkdb[l]),
           doubted' = doubted, phase' = phase
    PROVE  Graph!Change(l, row)
  BY DEF Graph!Change, Sure

(* The commit of a transaction that holds link l and count k, or less. *)
LEMMA OwnCommitted ==
    ASSUME StoreTypeOK, NEW t \in Threads, CommitCall(t),
           NEW l \in Links, NEW k \in Id1s, Within(t, {l}, {k})
    PROVE  /\ linkdb' = IF linklock[l] = t THEN [linkdb EXCEPT ![l] = linkcur[l]] ELSE linkdb
           /\ countdb' = IF countlock[k] = t THEN [countdb EXCEPT ![k] = countcur[k]] ELSE countdb
  <1>1. LinksCommitted(t) /\ CountsCommitted(t) /\ LinksTyped /\ CountsTyped
    BY CommitRows DEF CommitCall
  <1>2. DOMAIN linkdb = Links /\ linkdb' = [r \in Links |-> linkdb'[r]]
    BY <1>1 DEF StoreTypeOK, LinksTyped
  <1>3. DOMAIN countdb = Id1s /\ countdb' = [r \in Id1s |-> countdb'[r]]
    BY <1>1 DEF StoreTypeOK, CountsTyped
  <1>4. linkdb = [r \in Links |-> linkdb[r]] /\ countdb = [r \in Id1s |-> countdb[r]]
    BY DEF StoreTypeOK
  <1>5. /\ \A r \in Links \ {l} : linkdb'[r] = linkdb[r]
        /\ linkdb'[l] = IF linklock[l] = t THEN linkcur[l] ELSE linkdb[l]
    BY <1>1 DEF LinksCommitted, Within
  <1>6. /\ \A r \in Id1s \ {k} : countdb'[r] = countdb[r]
        /\ countdb'[k] = IF countlock[k] = t THEN countcur[k] ELSE countdb[k]
    BY <1>1 DEF CountsCommitted, Within
  <1> QED BY <1>2, <1>3, <1>4, <1>5, <1>6

LEMMA AddCommitted ==
    ASSUME TypeInv, GraphInv, NEW t \in Threads, CommitCall(t), call[t].op = "addLink",
           phase' = phase
    PROVE  \E l \in Links, d \in Data : Graph!AddLink(l, d)
  <1>1. AddAt(t) /\ StoreTypeOK /\ pc[t] = "commit" /\ doubted' = doubted
    BY DEF GraphInv, TypeInv, CommitCall
  <1>2. call[t].link \in Links /\ call[t].data \in Data
    <2>1. CallType(call[t])
      BY <1>1 DEF TypeInv, PointOK
    <2> QED BY <2>1, CallTypeFacts
  <1>3. PICK l \in Links : l = call[t].link
    BY <1>2
  <1>4. PICK k \in Id1s : k = l[1]
    BY LinkFacts
  <1> DEFINE row == [visibility |-> "DEFAULT", data |-> call[t].data]
             m   == IF countlock[k] = t THEN 1 ELSE 0
  <1>5. /\ linklock[l] = t /\ Within(t, {l}, {k}) /\ linkcur[l] = row
        /\ countlock[k] = t => CountMoved(k, 1) /\ (Sure(l) => ~Visible(linkdb[l]))
        /\ countlock[k] # t => (Sure(l) => Visible(linkdb[l]))
    BY <1>1, <1>3, <1>4 DEF AddAt
  <1>6. linkdb' = [linkdb EXCEPT ![l] = row]
    BY <1>1, <1>5, OwnCommitted
  <1>7. countdb' = IF m = 0 THEN countdb ELSE [countdb EXCEPT ![l[1]] = Graph!Moved(@, m)]
    <2>1. countdb' = IF countlock[k] = t THEN [countdb EXCEPT ![k] = countcur[k]] ELSE countdb
      BY <1>1, <1>5, OwnCommitted
    <2>2. countlock[k] = t => countcur[k] = Graph!Moved(countdb[k], 1)
      BY <1>5 DEF CountMoved
    <2>3. DOMAIN countdb = Id1s
      BY <1>1 DEF StoreTypeOK
    <2>4. CASE countlock[k] = t
      <3>1. m = 1 /\ countdb' = [countdb EXCEPT ![l[1]] = Graph!Moved(@, 1)]
        BY <1>4, <2>1, <2>2, <2>3, <2>4
      <3> HIDE DEF m
      <3> QED BY <3>1
    <2>5. CASE countlock[k] # t
      BY <2>1, <2>5
    <2> QED BY <2>4, <2>5
  <1>8. Sure(l) => m = Graph!Weight(row) - Graph!Weight(linkdb[l])
    <2>1. Graph!Weight(row) = 1
      <3>1. row \in LinkRow /\ row.visibility = "DEFAULT"
        BY <1>2 DEF LinkRow, Visibilities
      <3> HIDE DEF row
      <3> QED BY <3>1, StoreAssumption DEF Graph!Weight
    <2>2. Graph!Weight(linkdb[l]) = IF Visible(linkdb[l]) THEN 1 ELSE 0
      BY DEF Graph!Weight, Visible
    <2> QED BY <1>5, <2>1, <2>2
  <1>9. Graph!Change(l, row)
    <2>1. m \in {-1, 0, 1}
      OBVIOUS
    <2> HIDE DEF m, row
    <2> QED BY <1>1, <1>6, <1>7, <1>8, <2>1, ChangeMapped
  <1> QED BY <1>2, <1>9 DEF Graph!AddLink

LEMMA DeleteCommitted ==
    ASSUME TypeInv, GraphInv, NEW t \in Threads, CommitCall(t), call[t].op = "deleteLink",
           phase' = phase
    PROVE  (\E l \in Links : Graph!HideLink(l)) \/ (linkdb' = linkdb /\ countdb' = countdb)
  <1>1. DeleteAt(t) /\ StoreTypeOK /\ pc[t] = "commit" /\ doubted' = doubted
    BY DEF GraphInv, TypeInv, CommitCall
  <1>2. call[t].link \in Links
    <2>1. CallType(call[t])
      BY <1>1 DEF TypeInv, PointOK
    <2> QED BY <2>1, CallTypeFacts
  <1>3. PICK l \in Links : l = call[t].link
    BY <1>2
  <1>4. PICK k \in Id1s : k = l[1]
    BY LinkFacts
  <1>5. /\ Within(t, {l}, {k})
        /\ \/ /\ linklock[l] = t /\ HidIt(l)
              /\ countlock[k] = t => CountMoved(k, -1)
              /\ countlock[k] # t => ~Sure(l)
           \/ (linklock[l] = t => linkcur[l] = linkdb[l]) /\ countlock[k] # t
    BY <1>1, <1>3, <1>4 DEF DeleteAt
  <1>6. /\ linkdb' = IF linklock[l] = t THEN [linkdb EXCEPT ![l] = linkcur[l]] ELSE linkdb
        /\ countdb' = IF countlock[k] = t THEN [countdb EXCEPT ![k] = countcur[k]] ELSE countdb
    BY <1>1, <1>5, OwnCommitted
  <1>7. DOMAIN linkdb = Links /\ DOMAIN countdb = Id1s /\ linkdb[l] \in LinkRow \cup {Null}
    BY <1>1 DEF StoreTypeOK
  <1>8. CASE (linklock[l] = t => linkcur[l] = linkdb[l]) /\ countlock[k] # t
    <2>1. linkdb = [linkdb EXCEPT ![l] = linkdb[l]]
      BY <1>1 DEF StoreTypeOK
    <2> QED BY <1>6, <1>8, <2>1
  <1>9. CASE /\ linklock[l] = t /\ HidIt(l)
             /\ countlock[k] = t => CountMoved(k, -1)
             /\ countlock[k] # t => ~Sure(l)
    <2> DEFINE row == [linkdb[l] EXCEPT !.visibility = "HIDDEN"]
               m   == IF countlock[k] = t THEN -1 ELSE 0
    <2>1. linkdb[l] # Null /\ linkdb[l] \in LinkRow /\ linkcur[l] = row /\ Visible(linkdb[l])
      BY <1>7, <1>9 DEF HidIt, Visible
    <2>2. linkdb' = [linkdb EXCEPT ![l] = row]
      BY <1>6, <1>9, <2>1
    <2>3. countdb' = IF m = 0 THEN countdb ELSE [countdb EXCEPT ![l[1]] = Graph!Moved(@, m)]
      <3>1. countlock[k] = t => countcur[k] = Graph!Moved(countdb[k], -1)
        BY <1>9 DEF CountMoved
      <3>2. CASE countlock[k] = t
        <4>1. m = -1 /\ countdb' = [countdb EXCEPT ![l[1]] = Graph!Moved(@, -1)]
          BY <1>4, <1>6, <1>7, <3>1, <3>2
        <4> HIDE DEF m
        <4> QED BY <4>1
      <3>3. CASE countlock[k] # t
        BY <1>6, <3>3
      <3> QED BY <3>2, <3>3
    <2>4. Sure(l) => m = Graph!Weight(row) - Graph!Weight(linkdb[l])
      <3>1. row.visibility = "HIDDEN"
        BY <2>1 DEF LinkRow
      <3>2. Graph!Weight(row) = 0
        <4> HIDE DEF row
        <4> QED BY <3>1 DEF Graph!Weight
      <3>3. Graph!Weight(linkdb[l]) = 1
        BY <2>1 DEF Graph!Weight, Visible
      <3> QED BY <1>9, <3>2, <3>3
    <2>5. Graph!Change(l, row)
      <3>1. m \in {-1, 0, 1}
        OBVIOUS
      <3> HIDE DEF m, row
      <3> QED BY <1>1, <2>2, <2>3, <2>4, <3>1, ChangeMapped
    <2> QED BY <2>1, <2>5 DEF Graph!HideLink
  <1> QED BY <1>5, <1>8, <1>9

(* The commit of a batch, which only a loader makes. *)
LEMMA BulkCommitted ==
    ASSUME TypeInv, GraphInv, NEW t \in Threads, CommitCall(t),
           call[t].op \in {"addBulkLinks", "addBulkCounts"}, phase = "load", phase' = phase
    PROVE  Graph!AddBulkLinks \/ Graph!AddBulkCounts \/ (linkdb' = linkdb /\ countdb' = countdb)
  <1>1. /\ BulkAt(t) /\ StoreTypeOK /\ pc[t] = "commit" /\ doubted' = doubted
        /\ CallType(call[t])
    BY DEF GraphInv, TypeInv, CommitCall, PointOK
  <1>2. LinksCommitted(t) /\ CountsCommitted(t) /\ LinksTyped /\ CountsTyped
    BY <1>1, CommitRows DEF CommitCall
  <1>3. PICK c : c = call[t]
    OBVIOUS
  <1>4. /\ linkdb = [r \in Links |-> linkdb[r]] /\ linkdb' = [r \in Links |-> linkdb'[r]]
        /\ countdb = [r \in Id1s |-> countdb[r]] /\ countdb' = [r \in Id1s |-> countdb'[r]]
    BY <1>1, <1>2 DEF StoreTypeOK, LinksTyped, CountsTyped
  <1>5. CASE c.op = "addBulkLinks"
    <2>1. /\ Within(t, c.links, {}) /\ c.links \subseteq Links /\ c.data \in Data
          /\ \A l \in c.links : /\ linklock[l] = t
                                /\ linkcur[l] = Upserted(linkdb[l], "DEFAULT", c.data)
      BY <1>1, <1>3, <1>5, CallTypeFacts DEF BulkAt
    <2>2. countdb' = countdb
      BY <1>2, <1>4, <2>1 DEF CountsCommitted, Within
    <2>3. \A l \in Links : linkdb'[l] = IF l \notin c.links THEN linkdb[l]
                                        ELSE Upserted(linkdb[l], "DEFAULT", c.data)
      BY <1>2, <2>1 DEF LinksCommitted, Within
    <2>4. linkdb' = [l \in Links |-> IF l \notin c.links THEN linkdb[l]
                                     ELSE IF linkdb[l] = Null
                                     THEN [visibility |-> "DEFAULT", data |-> c.data]
                                     ELSE [linkdb[l] EXCEPT !.visibility = "DEFAULT"]]
      BY <1>4, <2>3 DEF Upserted
    <2>5. ASSUME linkdb' # linkdb
          PROVE  Graph!AddBulkLinks
      <3>1. c.links \in SUBSET Graph!Links /\ Graph!Links = Links
        BY <2>1 DEF Graph!Links, Links
      <3>2. \E S \in SUBSET Graph!Links, d \in Data :
              linkdb' = [l \in Graph!Links |-> IF l \notin S THEN linkdb[l]
                                               ELSE IF linkdb[l] = Null
                                               THEN [visibility |-> "DEFAULT", data |-> d]
                                               ELSE [linkdb[l] EXCEPT !.visibility = "DEFAULT"]]
        BY <2>1, <2>4, <3>1
      <3> QED BY <1>1, <2>2, <2>5, <3>2 DEF Graph!AddBulkLinks
    <2> QED BY <2>2, <2>5
  <1>6. CASE c.op = "addBulkCounts"
    <2>1. /\ Within(t, {}, DOMAIN c.counts)
          /\ \A k \in DOMAIN c.counts : countlock[k] = t /\ countcur[k] \in Nat
      BY <1>1, <1>3, <1>6 DEF BulkAt
    <2>2. linkdb' = linkdb
      BY <1>2, <1>4, <2>1 DEF LinksCommitted, Within
    <2>3. \A k \in Id1s : countdb'[k] = countdb[k] \/ countdb'[k] \in Nat
      BY <1>2, <2>1 DEF CountsCommitted, Within
    <2> QED BY <1>1, <2>2, <2>3 DEF Graph!AddBulkCounts
  <1> QED BY <1>3, <1>5, <1>6

(* The other steps commit nothing, and at most cast doubt on a count.      *)
LEMMA CommitsNothing ==
    ASSUME TypeInv, NEW t \in Threads, Hiding(t), StoreStep(t), ~CommitCall(t)
    PROVE  /\ linkdb' = linkdb /\ countdb' = countdb
           /\ doubted' = doubted \/ \E k \in Id1s : doubted' = doubted \cup {k}
  <1>1. CASE LockWaitTimeout(t)
    <2>1. call[t].link \in Links
      BY <1>1, LinkOfCall DEF LockWaitTimeout, Waits, AddPoints, DeletePoints
    <2>2. call[t].link[1] \in Id1s
      BY <2>1, LinkFacts
    <2> QED BY <1>1, <2>2 DEF LockWaitTimeout, linktable, counttable
  <1>2. CASE DeleteRow(t)
    <2>1. ~call[t].expunge
      <3>1. pc[t] = "delete" /\ PointOK(t)
        BY <1>2 DEF DeleteRow, TypeInv
      <3> QED BY <3>1 DEF Hiding, PointOK, DeletePoints
    <2> QED BY <1>2, <2>1 DEF DeleteRow, L!Write, counttable
  <1>3. CASE InsertLink(t) \/ UpdateCount(t) \/ UpdateData(t) \/ SelectLink(t) \/ CountDown(t)
             \/ ReadLink(t) \/ InsertAll(t) \/ ReplaceAll(t)
    BY <1>3 DEF InsertLink, UpdateCount, UpdateData, SelectLink, CountDown, ReadLink, InsertAll,
       ReplaceAll, L!Write, C!Write, L!WriteRows, C!WriteRows, L!SelectForUpdate, linktable,
       counttable
  <1>4. CASE Deadlock(t) \/ StatementFails(t) \/ Initialize(t) \/ TakeReply(t) \/ ClearErrors(t)
             \/ Close(t) \/ StoreStays
    BY <1>4 DEF Deadlock, StatementFails, Initialize, TakeReply, ClearErrors, Close, StoreStays,
       LinksStay, CountsStay, L!Rollback, C!Rollback, linktable, counttable
  <1>5. CASE (\E c \in Calls : Call(t, c)) \/ LoadersCall(t)
    BY <1>5 DEF LoadersCall, Call, linktable, counttable
  <1> QED BY <1>1, <1>2, <1>3, <1>4, <1>5 DEF StoreStep, Statement, Failure

(* Every step of a run is one of the graph, or leaves it. *)
LEMMA NextMaps ==
    ASSUME TypeInv, BookInv, RowsInv, GraphInv, [Next]_vars
    PROVE  [Graph!Next]_(Graph!graph)
  <1>1. ASSUME linkdb' = linkdb, countdb' = countdb, doubted' = doubted
        PROVE  phase' = phase \/ phase' # "load"
                 => [Graph!Next]_(Graph!graph)
    BY <1>1 DEF Graph!Next, Graph!EndLoad, Graph!graph
  <1>2. ASSUME NEW t \in Threads, Works(t) \/ Fails(t)
        PROVE  [Graph!Next]_(Graph!graph)
    <2>1. StoreStep(t) /\ phase # "halted" /\ (phase' = phase \/ InitializeFails(t)) /\ Hiding(t)
      BY <1>2, IsStoreStep, PhaseMoves DEF RowsInv
    <2>2. CASE InitializeFails(t)
      BY <1>1, <2>2 DEF InitializeFails, linktable, counttable
    <2>3. CASE phase' = phase /\ CommitCall(t)
      <3>1. /\ CallType(call[t]) /\ call[t].op # "getLink" /\ pc[t] = "commit"
            /\ doubted' = doubted
        BY <2>3 DEF TypeInv, PointOK, CommitCall
      <3>2. CASE call[t].op = "addLink"
        <4>1. \E l \in Graph!Links, d \in Data : Graph!AddLink(l, d)
          BY <2>3, <3>2, AddCommitted DEF Graph!Links, Links
        <4> QED BY <4>1 DEF Graph!Next
      <3>3. CASE call[t].op = "deleteLink"
        <4>1. (\E l \in Graph!Links : Graph!HideLink(l)) \/ (linkdb' = linkdb /\ countdb' = countdb)
          BY <2>3, <3>3, DeleteCommitted DEF Graph!Links, Links
        <4> QED BY <1>1, <2>3, <3>1, <4>1 DEF Graph!Next
      <3>4. CASE call[t].op \in {"addBulkLinks", "addBulkCounts"}
        <4>1. call[t] \notin Calls
          BY <3>4, StoreAssumption, CallFacts
        <4>2. phase = "load"
          BY <2>1, <3>1, <4>1 DEF BookInv, ThreadIsAt, TaskOK
        <4>3. Graph!AddBulkLinks \/ Graph!AddBulkCounts \/ (linkdb' = linkdb /\ countdb' = countdb)
          BY <2>3, <3>4, <4>2, BulkCommitted
        <4> QED BY <1>1, <2>3, <3>1, <4>3 DEF Graph!Next
      <3> QED BY <3>1, <3>2, <3>3, <3>4, CallTypeFacts
    <2>4. CASE phase' = phase /\ ~CommitCall(t)
      <3>1. /\ linkdb' = linkdb /\ countdb' = countdb
            /\ doubted' = doubted \/ \E k \in Id1s : doubted' = doubted \cup {k}
        BY <2>1, <2>4, CommitsNothing
      <3>2. ASSUME NEW k \in Id1s, doubted' = doubted \cup {k}
            PROVE  Graph!Doubt(k)
        BY <2>4, <3>1, <3>2 DEF Graph!Doubt
      <3> QED BY <1>1, <2>4, <3>1, <3>2 DEF Graph!Next
    <2> QED BY <2>1, <2>2, <2>3, <2>4
  <1>3. ASSUME SendRequests \/ Complete \/ TimeUp \/ Over \/ UNCHANGED vars
        PROVE  [Graph!Next]_(Graph!graph)
    <2>1. linkdb' = linkdb /\ countdb' = countdb /\ doubted' = doubted
      BY <1>3, DriverLeavesStores DEF storevars, linktable, counttable
    <2>2. phase' = phase \/ phase' # "load"
      BY <1>3 DEF SendRequests, Complete, TimeUp, Over, vars
    <2> QED BY <1>1, <2>1, <2>2
  <1> QED BY <1>2, <1>3 DEF Next

(* What LinkStoreMysql.java keeps is a graph: however the statements of    *)
(* the threads interleave, fail, are rolled back or tried again, the       *)
(* committed links and counts change as if each addLink(), deleteLink()    *)
(* and batch were one step that moves a link and its count together.  For  *)
(* any number of threads, links, failures and every bulkInsertSize, with   *)
(* the calls LinkBenchRequest.java makes: links are added visible and are  *)
(* hidden, not expunged.                                                   *)
THEOREM GraphIsImplemented ==
    ASSUME VisibleCalls, HidingCalls
    PROVE  Spec => GraphImplemented
  <1> DEFINE Inv == RunInv /\ HoldInv /\ GraphInv
  <1>1. Init => Inv
    <2> SUFFICES ASSUME Init PROVE Inv
      OBVIOUS
    <2>1. TypeInv /\ BookInv /\ RowsInv /\ HoldInv
      BY StoreInitTypes, InitBook, InitHold DEF Init
    <2>2. LoadInv
      BY <2>1, InitLoad
    <2>3. \A t \in Threads : pc[t] = "idle"
      BY DEF Init, StoreInit
    <2>4. GraphInv
      BY <2>3 DEF GraphInv, AddAt, DeleteAt, BulkAt
    <2> QED BY <2>1, <2>2, <2>4 DEF RunInv
  <1>2. Inv /\ [Next]_vars => Inv'
    <2> SUFFICES ASSUME Inv, [Next]_vars PROVE Inv'
      OBVIOUS
    <2>1. RunInv' /\ HoldInv'
      BY NextLoad, NextKeeps
    <2>2. TypeInv /\ BookInv /\ RowsInv
      BY DEF RunInv
    <2>3. ASSUME NEW t \in Threads, Works(t) \/ Fails(t) PROVE GraphInv'
      <3>1. StoreStep(t) /\ Hiding(t)
        BY <2>2, <2>3, IsStoreStep DEF RowsInv
      <3> QED BY <2>2, <3>1, GraphStep
    <2>4. ASSUME SendRequests \/ Complete \/ TimeUp \/ Over \/ UNCHANGED vars PROVE GraphInv'
      BY <2>2, <2>4, DriverLeavesStores, StoreStutters, GraphStays
    <2>5. GraphInv'
      BY <2>3, <2>4 DEF Next
    <2> QED BY <2>1, <2>5
  <1>3. Init => Graph!Init
    BY DEF Init, StoreInit, L!EmptyTable, C!EmptyTable, Graph!Init, Graph!Links, Links
  <1>4. Inv /\ [Next]_vars => [Graph!Next]_(Graph!graph)
    BY NextMaps DEF RunInv
  <1> HIDE DEF Inv
  <1> QED BY <1>1, <1>2, <1>3, <1>4, PTL DEF Spec, GraphImplemented, Graph!Spec
=============================================================================
