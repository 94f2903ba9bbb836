--------------------------- MODULE TpccRun_proofs ---------------------------
(***************************************************************************)
(* The deck, the counters and the report of tpcc_start, for any number of  *)
(* connections, any weights and any limit.                                 *)
(***************************************************************************)
EXTENDS TpccRun, SumLemmas

(* What do_neword() and its like may still have to count. *)
Changes ==
    {<<>>, <<Change("success", 1)>>, <<Change("late", 1)>>, <<Change("retry", 1)>>,
     <<Change("retry", -1), Change("failure", 1)>>, <<Change("failure", 1)>>}

(* The shapes of the variables. *)
Shapes ==
    /\ seq \in [1 .. Total -> Types]
    /\ pc \in [Threads -> WorkerLabels] /\ ty \in [Threads -> Types]
    /\ tries \in [Threads -> 0 .. MaxRetry]
    /\ ops \in [Threads -> Changes]
    /\ reg \in [Threads -> Int] /\ cur \in [Threads -> Nat]
    /\ count \in [Kinds -> [Types -> Int]]
    /\ counting_on \in BOOLEAN

(* success[0] never falls below 0, and what a worker is about to add 1 to  *)
(* is a value it once had.                                                 *)
SuccessInv ==
    /\ \A y \in Types : count["success"][y] \in Nat
    /\ \A t \in Threads :
         pc[t] = "counted" /\ Head(ops[t]).kind = "success" => reg[t] \in Nat

(* No attempt is made after the last one. *)
TriesInv == \A t \in Threads : pc[t] = "attempt" => tries[t] < MaxRetry

(* Main reports when all workers have ended. *)
EndedInv == main \in {"report", "exited"} => \A t \in Threads : pc[t] = "ended"

(* Main waits for an alarm only while there are pauses left. *)
PauseInv == main = "pause" => pauses < Pauses

(* The inductive invariant. *)
RunInv == TypeOK /\ Shapes /\ SuccessInv /\ TriesInv /\ EndedInv /\ PauseInv

(* What is needed of the constants. *)
LEMMA Constants ==
    /\ 0 \in Types
    /\ MaxRetry \in Nat \ {0} /\ Total \in Nat \ {0} /\ MaxAge \in Nat \ {0}
    /\ Pauses \in Nat
    /\ None \notin Threads
  <1>1. Len(Weights) \in Nat /\ Len(Weights) > 0
    BY RunAssumption
  <1>2. MaxAge \in Nat \ {0}
    BY RunAssumption
  <1> QED BY <1>1, <1>2, RunAssumption DEF Types

(* A deck in any order is a sequence of transactions. *)
LEMMA ShuffledIsDeck == Shuffled \subseteq [1 .. Total -> Types]
  BY DEF Shuffled

(* What do_neword() and its like go on to count. *)
LEMMA ChangeLists ==
    /\ <<>> \in Changes
    /\ \A k \in {"success", "late", "retry"} :
         <<Change(k, 1)>> \in Changes /\ <<Change(k, 1)>> # <<>>
    /\ <<Change("retry", -1), Change("failure", 1)>> \in Changes
    /\ <<Change("retry", -1), Change("failure", 1)>> # <<>>
  BY DEF Changes

(* The next change, and those after it. *)
LEMMA NextChange ==
    ASSUME NEW s \in Changes, s # <<>>
    PROVE  /\ Head(s).kind \in Kinds /\ Head(s).delta \in Int
           /\ Head(s).kind = "success" => Head(s).delta = 1
           /\ Tail(s) \in Changes
           /\ Tail(s) # <<>> => Head(Tail(s)).kind # "success"
  <1>1. CASE \E k \in {"success", "late", "retry", "failure"} : s = <<Change(k, 1)>>
    BY <1>1 DEF Changes, Change, Kinds
  <1>2. CASE s = <<Change("retry", -1), Change("failure", 1)>>
    BY <1>2 DEF Changes, Change, Kinds
  <1> QED BY <1>1, <1>2 DEF Changes

(* A worker draws inside the deck and holds the mutex while it does. *)
LEMMA WorkerTypes ==
    ASSUME RunInv, NEW t \in Threads, Worker(t)
    PROVE  TypeOK'
  <1> USE Constants
          DEF RunInv, TypeOK, Shapes, WorkerLabels, Goes, control, deck, rate, counts, worker
  <1>1. CASE LoopAgain(t)
    <2>1. PICK to \in {"interval", "check"} : Goes(t, "loop", to)
      BY <1>1 DEF LoopAgain
    <2>2. age' \in {0, age}
      BY <1>1 DEF LoopAgain
    <2>3. UNCHANGED <<control, deck, rate_last_transactions, counts, worker>>
      BY <1>1 DEF LoopAgain
    <2> QED BY <2>1, <2>2, <2>3
  <1>2. CASE NewInterval(t)
    <2>1. count["success"][0] \in Nat
      BY DEF SuccessInv
    <2> QED BY <1>2, <2>1 DEF NewInterval
  <1>3. CASE LoopEnds(t)
    BY <1>3 DEF LoopEnds
  <1>4. CASE ReadCurrent(t)
    BY <1>4 DEF ReadCurrent
  <1>5. CASE Tarpit(t)
    BY <1>5 DEF Tarpit
  <1>6. CASE Lock(t)
    <2>1. next_num' \in 0 .. Total - 1 /\ seq' \in Shuffled
      BY <1>6 DEF Lock
    <2>2. /\ Goes(t, "lock", "draw") /\ mutex = None /\ mutex' = t
          /\ UNCHANGED <<control, rate, counts, worker>>
      BY <1>6 DEF Lock
    <2> QED BY <2>1, <2>2
  <1>7. CASE OutOfDraws(t)
    BY <1>7 DEF OutOfDraws
  <1>8. CASE Draw(t)
    <2>1. seq[next_num + 1] \in Types
      BY <1>8 DEF Draw
    <2>2. /\ Goes(t, "draw", "attempt") /\ ty' = [ty EXCEPT ![t] = seq[next_num + 1]]
          /\ tries' = [tries EXCEPT ![t] = 0] /\ next_num' = next_num + 1 /\ mutex' = None
          /\ UNCHANGED <<control, seq, rate, counts, cur, ops, reg>>
      BY <1>8 DEF Draw
    <2> QED BY <2>1, <2>2
  <1>9. CASE AttemptSucceeds(t)
    <2> USE <1>9 DEF AttemptSucceeds
    <2>1. CASE ~counting_on
      <3>1. /\ Goes(t, "attempt", "loop") /\ ty' = [ty EXCEPT ![t] = 0] /\ UNCHANGED ops
            /\ tries' = [tries EXCEPT ![t] = 0]
            /\ UNCHANGED <<control, deck, rate, counts, cur, reg, drawn>>
        BY <2>1 DEF Returns
      <3> HIDE <1>9 DEF AttemptSucceeds
      <3> QED BY <3>1
    <2>2. CASE counting_on
      <3>1. PICK c \in Changes \ {<<>>} : ops' = [ops EXCEPT ![t] = c]
        BY <2>2, ChangeLists DEF WillCount
      <3>2. /\ Goes(t, "attempt", "count") /\ UNCHANGED ty
            /\ tries' = [tries EXCEPT ![t] = 0]
            /\ UNCHANGED <<control, deck, rate, counts, cur, reg, drawn>>
        BY <2>2
      <3> HIDE <1>9 DEF AttemptSucceeds
      <3> QED BY <3>1, <3>2
    <2> QED BY <2>1, <2>2
  <1>10. CASE AttemptFails(t)
    <2> USE <1>10 DEF AttemptFails
    <2>1. /\ tries' = [tries EXCEPT ![t] = tries[t] + 1] /\ tries[t] < MaxRetry
          /\ UNCHANGED <<control, deck, rate, counts, ty, cur, reg, drawn>>
      BY DEF TriesInv
    <2>2. CASE ~counting_on
      <3>1. Goes(t, "attempt", "again") /\ UNCHANGED ops
        BY <2>2
      <3> HIDE <1>10 DEF AttemptFails
      <3> QED BY <2>1, <3>1
    <2>3. CASE counting_on
      <3> DEFINE c == <<Change("retry", 1)>>
      <3>1. ops' = [ops EXCEPT ![t] = c] /\ Goes(t, "attempt", "count")
        BY <2>3 DEF WillCount
      <3>2. c \in Changes \ {<<>>}
        BY ChangeLists
      <3> HIDE <1>10 DEF c, AttemptFails
      <3> QED BY <2>1, <3>1, <3>2
    <2> QED BY <2>2, <2>3
  <1>11. CASE TryAgain(t)
    BY <1>11 DEF TryAgain
  <1>12. CASE GiveUp(t)
    <2> USE <1>12 DEF GiveUp
    <2>1. /\ tries' = [tries EXCEPT ![t] = 0]
          /\ UNCHANGED <<control, deck, rate, counts, cur, reg, drawn>>
      OBVIOUS
    <2>2. CASE ~counting_on
      <3>1. Goes(t, "again", "loop") /\ ty' = [ty EXCEPT ![t] = 0] /\ UNCHANGED ops
        BY <2>2 DEF Returns
      <3> HIDE <1>12 DEF GiveUp
      <3> QED BY <2>1, <3>1
    <2>3. CASE counting_on
      <3> DEFINE c == <<Change("retry", -1), Change("failure", 1)>>
      <3>1. ops' = [ops EXCEPT ![t] = c] /\ Goes(t, "again", "count") /\ UNCHANGED ty
        BY <2>3 DEF WillCount
      <3>2. c \in Changes \ {<<>>}
        BY ChangeLists
      <3> HIDE <1>12 DEF c, GiveUp
      <3> QED BY <2>1, <3>1, <3>2
    <2> QED BY <2>2, <2>3
  <1>13. CASE CountRead(t)
    BY <1>13 DEF CountRead
  <1>14. CASE CountWrite(t)
    BY <1>14 DEF CountWrite
  <1>15. CASE CountSlot(t)
    <2> DEFINE more == Tail(ops[t])
    <2>1. more \in Changes
      BY <1>15, NextChange DEF CountSlot, CountsOn
    <2>2. /\ ops' = [ops EXCEPT ![t] = more]
          /\ \/ more # <<>> /\ Goes(t, "slot", "count") /\ UNCHANGED ty
             \/ more = <<>> /\ Goes(t, "slot", "again") /\ UNCHANGED ty
             \/ more = <<>> /\ Goes(t, "slot", "loop") /\ ty' = [ty EXCEPT ![t] = 0]
          /\ UNCHANGED <<control, deck, rate, tries, cur, drawn>>
      BY <1>15 DEF CountSlot, CountsOn, Returns
    <2> HIDE DEF more
    <2>3. CASE more # <<>>
      BY <2>1, <2>2, <2>3
    <2>4. CASE more = <<>>
      BY <2>1, <2>2, <2>4
    <2> QED BY <2>3, <2>4
  <1>16. CASE ReadClock(t)
    BY <1>16 DEF ReadClock
  <1>17. CASE ReadInterval(t)
    BY <1>17 DEF ReadInterval
  <1> QED BY <1>1, <1>2, <1>3, <1>4, <1>5, <1>6, <1>7, <1>8, <1>9, <1>10, <1>11, <1>12, <1>13,
             <1>14, <1>15, <1>16, <1>17 DEF Worker

(* A worker keeps the shapes. *)
LEMMA WorkerShapes ==
    ASSUME RunInv, NEW t \in Threads, Worker(t)
    PROVE  Shapes'
  <1> USE Constants DEF RunInv, Shapes, WorkerLabels, Goes, control, deck, rate, counts, worker
  <1>1. CASE LoopAgain(t)
    BY <1>1 DEF LoopAgain
  <1>2. CASE NewInterval(t)
    BY <1>2 DEF NewInterval
  <1>3. CASE LoopEnds(t)
    BY <1>3 DEF LoopEnds
  <1>4. CASE ReadCurrent(t)
    <2>1. count["success"][0] \in Nat
      BY DEF SuccessInv
    <2> QED BY <1>4, <2>1 DEF ReadCurrent
  <1>5. CASE Tarpit(t)
    BY <1>5 DEF Tarpit
  <1>6. CASE Lock(t)
    BY <1>6, ShuffledIsDeck DEF Lock
  <1>7. CASE OutOfDraws(t)
    BY <1>7 DEF OutOfDraws
  <1>8. CASE Draw(t)
    <2>1. seq[next_num + 1] \in Types
      BY <1>8 DEF Draw, TypeOK
    <2> QED BY <1>8, <2>1 DEF Draw
  <1>9. CASE AttemptSucceeds(t)
    <2> USE <1>9 DEF AttemptSucceeds
    <2>1. CASE ~counting_on
      <3>1. /\ Goes(t, "attempt", "loop") /\ ty' = [ty EXCEPT ![t] = 0] /\ UNCHANGED ops
            /\ tries' = [tries EXCEPT ![t] = 0]
            /\ UNCHANGED <<control, deck, rate, counts, cur, reg, drawn>>
        BY <2>1 DEF Returns
      <3> HIDE <1>9 DEF AttemptSucceeds
      <3> QED BY <3>1
    <2>2. CASE counting_on
      <3>1. PICK c \in Changes \ {<<>>} : ops' = [ops EXCEPT ![t] = c]
        BY <2>2, ChangeLists DEF WillCount
      <3>2. /\ Goes(t, "attempt", "count") /\ UNCHANGED ty
            /\ tries' = [tries EXCEPT ![t] = 0]
            /\ UNCHANGED <<control, deck, rate, counts, cur, reg, drawn>>
        BY <2>2
      <3> HIDE <1>9 DEF AttemptSucceeds
      <3> QED BY <3>1, <3>2
    <2> QED BY <2>1, <2>2
  <1>10. CASE AttemptFails(t)
    <2> USE <1>10 DEF AttemptFails
    <2>1. /\ tries' = [tries EXCEPT ![t] = tries[t] + 1] /\ tries[t] < MaxRetry
          /\ UNCHANGED <<control, deck, rate, counts, ty, cur, reg, drawn>>
      BY DEF TriesInv
    <2>2. CASE ~counting_on
      <3>1. Goes(t, "attempt", "again") /\ UNCHANGED ops
        BY <2>2
      <3> HIDE <1>10 DEF AttemptFails
      <3> QED BY <2>1, <3>1
    <2>3. CASE counting_on
      <3> DEFINE c == <<Change("retry", 1)>>
      <3>1. ops' = [ops EXCEPT ![t] = c] /\ Goes(t, "attempt", "count")
        BY <2>3 DEF WillCount
      <3>2. c \in Changes \ {<<>>}
        BY ChangeLists
      <3> HIDE <1>10 DEF c, AttemptFails
      <3> QED BY <2>1, <3>1, <3>2
    <2> QED BY <2>2, <2>3
  <1>11. CASE TryAgain(t)
    BY <1>11 DEF TryAgain
  <1>12. CASE GiveUp(t)
    <2> USE <1>12 DEF GiveUp
    <2>1. /\ tries' = [tries EXCEPT ![t] = 0]
          /\ UNCHANGED <<control, deck, rate, counts, cur, reg, drawn>>
      OBVIOUS
    <2>2. CASE ~counting_on
      <3>1. Goes(t, "again", "loop") /\ ty' = [ty EXCEPT ![t] = 0] /\ UNCHANGED ops
        BY <2>2 DEF Returns
      <3> HIDE <1>12 DEF GiveUp
      <3> QED BY <2>1, <3>1
    <2>3. CASE counting_on
      <3> DEFINE c == <<Change("retry", -1), Change("failure", 1)>>
      <3>1. ops' = [ops EXCEPT ![t] = c] /\ Goes(t, "again", "count") /\ UNCHANGED ty
        BY <2>3 DEF WillCount
      <3>2. c \in Changes \ {<<>>}
        BY ChangeLists
      <3> HIDE <1>12 DEF c, GiveUp
      <3> QED BY <2>1, <3>1, <3>2
    <2> QED BY <2>2, <2>3
  <1>13. CASE CountRead(t)
    <2>1. ops[t] # <<>> /\ ops[t] \in Changes /\ ty[t] \in Types
      BY <1>13 DEF CountRead, TypeOK
    <2>2. count[Head(ops[t]).kind][ty[t]] \in Int
      BY <2>1, NextChange
    <2> QED BY <1>13, <2>2 DEF CountRead
  <1>14. CASE CountWrite(t)
    <2> DEFINE k == Head(ops[t]).kind
               n == reg[t] + Head(ops[t]).delta
    <2>1. k \in Kinds /\ n \in Int /\ ty[t] \in Types
      BY <1>14, NextChange DEF CountWrite, TypeOK
    <2>2. /\ count' = [count EXCEPT ![k][ty[t]] = n]
          /\ reg' = [reg EXCEPT ![t] = 0] /\ Goes(t, "counted", "slot")
          /\ UNCHANGED <<control, deck, rate, count2, ty, tries, cur, ops, drawn>>
      BY <1>14 DEF CountWrite
    <2> HIDE DEF k, n
    <2>3. count' \in [Kinds -> [Types -> Int]]
      BY <2>1, <2>2
    <2>4. pc' \in [Threads -> WorkerLabels] /\ reg' \in [Threads -> Int]
      BY <2>2
    <2> QED BY <2>2, <2>3, <2>4
  <1>15. CASE CountSlot(t)
    <2> DEFINE more == Tail(ops[t])
    <2>1. more \in Changes
      BY <1>15, NextChange DEF CountSlot, CountsOn, TypeOK
    <2>2. /\ ops' = [ops EXCEPT ![t] = more]
          /\ \/ more # <<>> /\ Goes(t, "slot", "count") /\ UNCHANGED ty
             \/ more = <<>> /\ Goes(t, "slot", "again") /\ UNCHANGED ty
             \/ more = <<>> /\ Goes(t, "slot", "loop") /\ ty' = [ty EXCEPT ![t] = 0]
          /\ UNCHANGED <<control, deck, rate, count, tries, cur, reg, drawn>>
      BY <1>15 DEF CountSlot, CountsOn, Returns
    <2> HIDE DEF more
    <2>3. pc' \in [Threads -> WorkerLabels] /\ ty' \in [Threads -> Types]
      <3>1. CASE Goes(t, "slot", "count") /\ UNCHANGED ty
        BY <3>1
      <3>2. CASE Goes(t, "slot", "again") /\ UNCHANGED ty
        BY <3>2
      <3>3. CASE Goes(t, "slot", "loop") /\ ty' = [ty EXCEPT ![t] = 0]
        BY <3>3
      <3> HIDE DEF Goes
      <3> QED BY <2>2, <3>1, <3>2, <3>3
    <2>4. ops' \in [Threads -> Changes]
      BY <2>1, <2>2
    <2> QED BY <2>2, <2>3, <2>4
  <1>16. CASE ReadClock(t)
    BY <1>16 DEF ReadClock
  <1>17. CASE ReadInterval(t)
    BY <1>17 DEF ReadInterval
  <1> QED BY <1>1, <1>2, <1>3, <1>4, <1>5, <1>6, <1>7, <1>8, <1>9, <1>10, <1>11, <1>12, <1>13,
             <1>14, <1>15, <1>16, <1>17 DEF Worker

(* success[] is only ever counted up. *)
LEMMA WorkerSuccesses ==
    ASSUME RunInv, NEW t \in Threads, Worker(t)
    PROVE  SuccessInv'
  <1> USE Constants
          DEF RunInv, TypeOK, Shapes, SuccessInv, Kinds, Goes, control, deck, rate, counts,
              worker
  <1>1. CASE LoopAgain(t)
    BY <1>1 DEF LoopAgain
  <1>2. CASE NewInterval(t)
    BY <1>2 DEF NewInterval
  <1>3. CASE LoopEnds(t)
    BY <1>3 DEF LoopEnds
  <1>4. CASE ReadCurrent(t)
    BY <1>4 DEF ReadCurrent
  <1>5. CASE Tarpit(t)
    BY <1>5 DEF Tarpit
  <1>6. CASE Lock(t)
    BY <1>6 DEF Lock
  <1>7. CASE OutOfDraws(t)
    BY <1>7 DEF OutOfDraws
  <1>8. CASE Draw(t)
    BY <1>8 DEF Draw
  <1>9. CASE AttemptSucceeds(t)
    BY <1>9 DEF AttemptSucceeds, Returns, WillCount
  <1>10. CASE AttemptFails(t)
    BY <1>10 DEF AttemptFails, WillCount
  <1>11. CASE TryAgain(t)
    BY <1>11 DEF TryAgain
  <1>12. CASE GiveUp(t)
    BY <1>12 DEF GiveUp, Returns, WillCount
  <1>13. CASE CountRead(t)
    BY <1>13 DEF CountRead
  <1>14. CASE CountWrite(t)
    <2> DEFINE k == Head(ops[t]).kind
               n == reg[t] + Head(ops[t]).delta
    <2>1. /\ k \in Kinds /\ ty[t] \in Types
          /\ k = "success" => n \in Nat
      <3>1. ops[t] \in Changes /\ ops[t] # <<>> /\ pc[t] = "counted" /\ reg[t] \in Int
        BY <1>14 DEF CountWrite
      <3>2. k = "success" => n = reg[t] + 1 /\ reg[t] \in Nat
        BY <3>1, NextChange
      <3>3. k \in Kinds /\ ty[t] \in Types
        BY <3>1, NextChange
      <3> HIDE DEF k, n, RunInv
      <3> QED BY <3>2, <3>3
    <2>2. /\ count' = [count EXCEPT ![k][ty[t]] = n]
          /\ ops' = ops /\ reg' = [reg EXCEPT ![t] = 0]
          /\ pc'[t] # "counted" /\ \A u \in Threads \ {t} : pc'[u] = pc[u]
      BY <1>14 DEF CountWrite
    <2> HIDE DEF k, n
    <2> QED BY <2>1, <2>2
  <1>15. CASE CountSlot(t)
    <2>1. /\ ops' = [ops EXCEPT ![t] = Tail(ops[t])] /\ UNCHANGED <<count, reg>>
          /\ pc'[t] # "counted" /\ \A u \in Threads \ {t} : pc'[u] = pc[u]
      BY <1>15 DEF CountSlot, CountsOn, Returns
    <2> QED BY <2>1
  <1>16. CASE ReadClock(t)
    BY <1>16 DEF ReadClock
  <1>17. CASE ReadInterval(t)
    BY <1>17 DEF ReadInterval
  <1> QED BY <1>1, <1>2, <1>3, <1>4, <1>5, <1>6, <1>7, <1>8, <1>9, <1>10, <1>11, <1>12, <1>13,
             <1>14, <1>15, <1>16, <1>17 DEF Worker

(* A worker tries MAX_RETRY times. *)
LEMMA WorkerTries ==
    ASSUME RunInv, NEW t \in Threads, Worker(t)
    PROVE  TriesInv'
  <1> USE Constants DEF RunInv, Shapes, TriesInv, Goes, control, deck, rate, counts, worker
  <1>1. CASE LoopAgain(t)
    BY <1>1 DEF LoopAgain
  <1>2. CASE NewInterval(t)
    BY <1>2 DEF NewInterval
  <1>3. CASE LoopEnds(t)
    BY <1>3 DEF LoopEnds
  <1>4. CASE ReadCurrent(t)
    BY <1>4 DEF ReadCurrent
  <1>5. CASE Tarpit(t)
    BY <1>5 DEF Tarpit
  <1>6. CASE Lock(t)
    BY <1>6 DEF Lock
  <1>7. CASE OutOfDraws(t)
    BY <1>7 DEF OutOfDraws
  <1>8. CASE Draw(t)
    BY <1>8 DEF Draw
  <1>9. CASE AttemptSucceeds(t)
    BY <1>9 DEF AttemptSucceeds, Returns, WillCount
  <1>10. CASE AttemptFails(t)
    BY <1>10 DEF AttemptFails, WillCount
  <1>11. CASE TryAgain(t)
    BY <1>11 DEF TryAgain
  <1>12. CASE GiveUp(t)
    BY <1>12 DEF GiveUp, Returns, WillCount
  <1>13. CASE CountRead(t)
    BY <1>13 DEF CountRead
  <1>14. CASE CountWrite(t)
    BY <1>14 DEF CountWrite
  <1>15. CASE CountSlot(t)
    BY <1>15 DEF CountSlot, CountsOn, Returns
  <1>16. CASE ReadClock(t)
    BY <1>16 DEF ReadClock
  <1>17. CASE ReadInterval(t)
    BY <1>17 DEF ReadInterval
  <1> QED BY <1>1, <1>2, <1>3, <1>4, <1>5, <1>6, <1>7, <1>8, <1>9, <1>10, <1>11, <1>12, <1>13,
             <1>14, <1>15, <1>16, <1>17 DEF Worker

(* A worker that has ended does nothing more. *)
LEMMA WorkerEnds ==
    ASSUME RunInv, NEW t \in Threads, Worker(t)
    PROVE  main \notin {"report", "exited"}
  <1> USE DEF RunInv, Shapes, EndedInv, Goes, control, deck, rate, counts, worker
  <1>1. CASE LoopAgain(t)
    BY <1>1 DEF LoopAgain
  <1>2. CASE NewInterval(t)
    BY <1>2 DEF NewInterval
  <1>3. CASE LoopEnds(t)
    BY <1>3 DEF LoopEnds
  <1>4. CASE ReadCurrent(t)
    BY <1>4 DEF ReadCurrent
  <1>5. CASE Tarpit(t)
    BY <1>5 DEF Tarpit
  <1>6. CASE Lock(t)
    BY <1>6 DEF Lock
  <1>7. CASE OutOfDraws(t)
    BY <1>7 DEF OutOfDraws
  <1>8. CASE Draw(t)
    BY <1>8 DEF Draw
  <1>9. CASE AttemptSucceeds(t)
    BY <1>9 DEF AttemptSucceeds, Returns, WillCount
  <1>10. CASE AttemptFails(t)
    BY <1>10 DEF AttemptFails, WillCount
  <1>11. CASE TryAgain(t)
    BY <1>11 DEF TryAgain
  <1>12. CASE GiveUp(t)
    BY <1>12 DEF GiveUp, Returns, WillCount
  <1>13. CASE CountRead(t)
    BY <1>13 DEF CountRead
  <1>14. CASE CountWrite(t)
    BY <1>14 DEF CountWrite
  <1>15. CASE CountSlot(t)
    BY <1>15 DEF CountSlot, CountsOn, Returns
  <1>16. CASE ReadClock(t)
    BY <1>16 DEF ReadClock
  <1>17. CASE ReadInterval(t)
    BY <1>17 DEF ReadInterval
  <1> QED BY <1>1, <1>2, <1>3, <1>4, <1>5, <1>6, <1>7, <1>8, <1>9, <1>10, <1>11, <1>12, <1>13,
             <1>14, <1>15, <1>16, <1>17 DEF Worker

(* Every step of a worker keeps the invariant; it does not move main. *)
LEMMA WorkerKeeps ==
    ASSUME RunInv, NEW t \in Threads, Worker(t)
    PROVE  RunInv'
  <1>1. main' = main /\ pauses' = pauses
    BY DEF Worker, LoopAgain, NewInterval, LoopEnds, ReadClock, ReadCurrent, ReadInterval, Tarpit,
           Lock, OutOfDraws, Draw, AttemptSucceeds, AttemptFails, TryAgain, GiveUp, CountRead,
           CountWrite, CountSlot, CountsOn, control
  <1>2. EndedInv' /\ PauseInv'
    BY <1>1, WorkerEnds DEF RunInv, EndedInv, PauseInv
  <1> QED BY <1>2, WorkerTypes, WorkerShapes, WorkerSuccesses, WorkerTries DEF RunInv

(* Main and the timer leave the workers alone. *)
LEMMA OthersKeep ==
    ASSUME RunInv, Main \/ Alarm \/ Tick \/ UNCHANGED vars
    PROVE  RunInv'
  <1> USE DEF Main, Alarm, Tick, StartCounting, Pause, StopCounting, StopThreads, Join, Report
  <1>1. /\ UNCHANGED <<deck, rate_last_transactions, counts, pc, worker>>
        /\ counting_on' \in BOOLEAN
    BY DEF RunInv, Shapes, vars, workers, control, rate
  <1>2. pauses' \in 0 .. Pauses /\ age' \in 0 .. MaxAge
    BY Constants DEF RunInv, TypeOK, PauseInv, vars, workers, control, rate
  <1>3. TypeOK'
    BY <1>1, <1>2 DEF RunInv, TypeOK, deck, worker
  <1>4. Shapes'
    BY <1>1 DEF RunInv, Shapes, deck, worker, counts
  <1>5. SuccessInv' /\ TriesInv'
    BY <1>1 DEF RunInv, SuccessInv, TriesInv, worker, counts
  <1>6. EndedInv' /\ PauseInv'
    BY DEF RunInv, TypeOK, EndedInv, PauseInv, vars, workers, control
  <1> QED BY <1>3, <1>4, <1>5, <1>6 DEF RunInv

(* The invariant holds when tpcc_start has set up its workers. *)
LEMMA InitRunInv ==
    ASSUME Init
    PROVE  RunInv
  <1> USE Constants DEF Init
  <1>1. TypeOK
    BY DEF TypeOK, WorkerLabels
  <1>2. Shapes
    <2>1. <<>> \in Changes /\ seq \in [1 .. Total -> Types]
      BY ShuffledIsDeck, ChangeLists
    <2>2. count \in [Kinds -> [Types -> Int]]
      BY DEF Shapes
    <2>3. tries \in [Threads -> 0 .. MaxRetry] /\ reg \in [Threads -> Int] /\ cur \in [Threads -> Nat]
      BY DEF Shapes
    <2>4. pc \in [Threads -> WorkerLabels] /\ ty \in [Threads -> Types] /\ counting_on \in BOOLEAN
      BY DEF WorkerLabels
    <2>5. ops \in [Threads -> Changes]
      BY <2>1
    <2> QED BY <2>1, <2>2, <2>3, <2>4, <2>5 DEF Shapes
  <1>3. SuccessInv
    BY DEF SuccessInv, Kinds
  <1>4. TriesInv /\ EndedInv /\ PauseInv
    BY DEF TriesInv, EndedInv, PauseInv
  <1> QED BY <1>1, <1>2, <1>3, <1>4 DEF RunInv

(* Every step keeps the invariant. *)
LEMMA NextRunInv ==
    ASSUME RunInv, [Next]_vars
    PROVE  RunInv'
  BY WorkerKeeps, OthersKeep DEF Next, Runs, Terminating

(* A worker draws from the shared deck only while it alone holds the       *)
(* mutex, and never past its end; what it has still to count is what its   *)
(* attempt asks for.                                                       *)
THEOREM DeckReadInBounds == Spec => []TypeOK
  <1>1. RunInv => TypeOK
    BY DEF RunInv
  <1> QED BY <1>1, InitRunInv, NextRunInv, PTL DEF Spec

(* The results are printed when no worker can change them any more.        *)
THEOREM ReportsAreFinal == Spec => ReportIsFinal
  <1>1. RunInv /\ [Next]_vars => [main \notin {"report", "exited"}]_counts
    <2> SUFFICES ASSUME RunInv, Next, main \in {"report", "exited"}
                 PROVE  UNCHANGED counts
      BY DEF vars
    <2> QED BY WorkerEnds DEF Next, Runs, Terminating, Main, Alarm, Tick, StartCounting, Pause,
                              StopCounting, StopThreads, Join, Report, vars, workers
  <1> QED BY <1>1, InitRunInv, NextRunInv, PTL DEF Spec, ReportIsFinal

----------------------------------------------------------------------------
(* What the counters add up to. *)

(* The shapes of what is counted for each thread. *)
Slots ==
    /\ count2 \in [Kinds -> [Types -> [Threads -> Int]]]
    /\ drawn \in [Threads -> [Types -> Nat]]

Shared == Kinds \ {"retry"}

(* The sum that there will be when all who have written a counter have     *)
(* written their slot.                                                     *)
Bound(k, y) == Sum2(k, y) + Cardinality(Owing(k, y))

(* A thread's slot of success2[] and its like never falls below 0, and     *)
(* what a worker has read of success[] is not above the sum there will be: *)
(* as it was at the time, and it has not fallen since.                     *)
SharedInv ==
    /\ \A k \in Shared, y \in Types, t \in Threads : count2[k][y][t] \in Nat
    /\ \A k \in Shared, y \in Types : count[k][y] \in 0 .. Bound(k, y)
    /\ \A t \in Threads :
         pc[t] = "counted" /\ Head(ops[t]).kind \in Shared =>
             reg[t] \in 0 .. Bound(Head(ops[t]).kind, ty[t])

(* There are finitely many threads and transactions. *)
LEMMA Finite == IsFiniteSet(Threads) /\ IsFiniteSet(Types)
  <1>1. NumConn \in Nat /\ Len(Weights) \in Nat
    BY RunAssumption
  <1>2. IsFiniteSet(0 .. NumConn - 1) /\ IsFiniteSet(0 .. Len(Weights) - 1)
    BY <1>1, FS_Interval
  <1> QED BY <1>2 DEF Threads, Types

(* The sum that is printed for kind k of transaction y. *)
LEMMA Sum2Is ==
    ASSUME Slots, NEW k \in Kinds, NEW y \in Types
    PROVE  /\ Sum2(k, y) = SumFunctionOnSet(count2[k][y], Threads)
           /\ Sum2(k, y) \in Int
           /\ \A t \in Threads : count2[k][y][t] \in Int
  <1>1. count2[k][y] \in [Threads -> Int]
    BY DEF Slots
  <1>2. DOMAIN count2[k][y] = Threads
    BY <1>1
  <1>3. Sum2(k, y) = SumFunctionOnSet(count2[k][y], Threads)
    BY <1>2 DEF Sum2, SumFunction
  <1>4. SumFunctionOnSet(count2[k][y], Threads) \in Int
    BY <1>1, Finite, SumType
  <1> QED BY <1>1, <1>3, <1>4

(* What CountSlot adds to one slot it adds to one sum. *)
LEMMA CountedOne ==
    ASSUME RunInv, Slots, NEW t \in Threads, CountSlot(t)
    PROVE  LET k == Head(ops[t]).kind
               delta == Head(ops[t]).delta
           IN  /\ ops[t] # <<>> /\ ops[t] \in Changes /\ k \in Kinds /\ delta \in Int
               /\ ty[t] \in Types /\ pc[t] = "slot"
               /\ Slots'
               /\ count2'[k][ty[t]][t] = count2[k][ty[t]][t] + delta
               /\ \A j \in Kinds, y \in Types, u \in Threads :
                    j # k \/ y # ty[t] \/ u # t => count2'[j][y][u] = count2[j][y][u]
               /\ \A j \in Kinds, y \in Types :
                    Sum2(j, y)' = IF j = k /\ y = ty[t] THEN Sum2(j, y) + delta ELSE Sum2(j, y)
               /\ count' = count
               /\ ops' = [ops EXCEPT ![t] = Tail(ops[t])]
  <1>1. PICK k, delta : k = Head(ops[t]).kind /\ delta = Head(ops[t]).delta
    OBVIOUS
  <1>2. /\ ops[t] # <<>> /\ ops[t] \in Changes /\ ty[t] \in Types /\ pc[t] = "slot"
    BY DEF RunInv, TypeOK, Shapes, CountSlot, CountsOn
  <1>3. k \in Kinds /\ delta \in Int
    BY <1>1, <1>2, NextChange
  <1>4. /\ count' = count
        /\ count2' = [count2 EXCEPT ![k][ty[t]][t] = @ + delta]
        /\ ops' = [ops EXCEPT ![t] = Tail(ops[t])]
        /\ drawn' = drawn
    BY <1>1 DEF CountSlot, CountsOn
  <1>5. /\ Slots'
        /\ count2'[k][ty[t]][t] = count2[k][ty[t]][t] + delta
        /\ \A j \in Kinds, y \in Types, u \in Threads :
             j # k \/ y # ty[t] \/ u # t => count2'[j][y][u] = count2[j][y][u]
    BY <1>2, <1>3, <1>4 DEF Slots
  <1>6. ASSUME NEW j \in Kinds, NEW y \in Types
        PROVE  Sum2(j, y)' = IF j = k /\ y = ty[t] THEN Sum2(j, y) + delta ELSE Sum2(j, y)
    <2>1. /\ Sum2(j, y) = SumFunctionOnSet(count2[j][y], Threads) /\ Sum2(j, y) \in Int
          /\ \A u \in Threads : count2[j][y][u] \in Int
      BY Sum2Is
    <2>2. /\ Sum2(j, y)' = SumFunctionOnSet(count2'[j][y], Threads)
          /\ \A u \in Threads : count2'[j][y][u] \in Int
      <3>1. count2'[j][y] \in [Threads -> Int]
        BY <1>5 DEF Slots
      <3>2. DOMAIN count2'[j][y] = Threads
        BY <3>1
      <3>3. Sum2(j, y)' = SumFunctionOnSet(count2'[j][y], Threads)
        BY <3>2 DEF Sum2, SumFunction
      <3> QED BY <3>1, <3>3
    <2>3. CASE j = k /\ y = ty[t]
      <3>1. \A u \in Threads \ {t} : count2[j][y][u] = count2'[j][y][u]
        BY <1>5
      <3>2. count2'[j][y][t] = count2[j][y][t] + delta
        BY <1>5, <2>3
      <3>3. SumFunctionOnSet(count2'[j][y], Threads)
              = SumFunctionOnSet(count2[j][y], Threads) + (count2'[j][y][t] - count2[j][y][t])
        BY <2>1, <2>2, <3>1, Finite, SumChange
      <3>4. Sum2(j, y)' = Sum2(j, y) + delta
        BY <1>3, <2>1, <2>2, <3>2, <3>3
      <3> QED BY <2>3, <3>4
    <2>4. CASE ~ (j = k /\ y = ty[t])
      <3>1. \A u \in Threads : count2[j][y][u] = count2'[j][y][u]
        BY <1>5, <2>4
      <3>2. SumFunctionOnSet(count2[j][y], Threads) = SumFunctionOnSet(count2'[j][y], Threads)
        BY <3>1, Finite, SumSame
      <3> QED BY <2>1, <2>2, <2>4, <3>2
    <2> QED BY <2>3, <2>4
  <1> QED BY <1>1, <1>2, <1>3, <1>4, <1>5, <1>6

(* A worker changes no statement, transaction or counter but its own; and  *)
(* but for the three steps of a counter it changes none, nor does it hold  *)
(* or owe one.                                                             *)
LEMMA WorkerFrame ==
    ASSUME RunInv, NEW t \in Threads, Worker(t)
    PROVE  /\ \A u \in Threads \ {t} :
                pc'[u] = pc[u] /\ ty'[u] = ty[u] /\ ops'[u] = ops[u] /\ reg'[u] = reg[u]
           /\ \/ CountRead(t) \/ CountWrite(t) \/ CountSlot(t)
              \/ counts' = counts /\ pc'[t] # "counted" /\ pc[t] # "slot" /\ pc'[t] # "slot"
           /\ Draw(t) \/ drawn' = drawn
           /\ UNCHANGED control
  <1> USE DEF RunInv, Shapes, Goes, deck, rate, counts, worker
  <1>1. CASE LoopAgain(t)
    BY <1>1 DEF LoopAgain
  <1>2. CASE NewInterval(t)
    BY <1>2 DEF NewInterval
  <1>3. CASE LoopEnds(t)
    BY <1>3 DEF LoopEnds
  <1>4. CASE ReadCurrent(t)
    BY <1>4 DEF ReadCurrent
  <1>5. CASE Tarpit(t)
    BY <1>5 DEF Tarpit
  <1>6. CASE Lock(t)
    BY <1>6 DEF Lock
  <1>7. CASE OutOfDraws(t)
    BY <1>7 DEF OutOfDraws
  <1>8. CASE Draw(t)
    BY <1>8 DEF Draw
  <1>9. CASE AttemptSucceeds(t)
    BY <1>9 DEF AttemptSucceeds, Returns, WillCount
  <1>10. CASE AttemptFails(t)
    BY <1>10 DEF AttemptFails, WillCount
  <1>11. CASE TryAgain(t)
    BY <1>11 DEF TryAgain
  <1>12. CASE GiveUp(t)
    BY <1>12 DEF GiveUp, Returns, WillCount
  <1>13. CASE CountRead(t)
    BY <1>13 DEF CountRead
  <1>14. CASE CountWrite(t)
    BY <1>14 DEF CountWrite
  <1>15. CASE CountSlot(t)
    BY <1>15 DEF CountSlot, CountsOn, Returns
  <1>16. CASE ReadClock(t)
    BY <1>16 DEF ReadClock
  <1>17. CASE ReadInterval(t)
    BY <1>17 DEF ReadInterval
  <1> QED BY <1>1, <1>2, <1>3, <1>4, <1>5, <1>6, <1>7, <1>8, <1>9, <1>10, <1>11, <1>12, <1>13,
             <1>14, <1>15, <1>16, <1>17 DEF Worker

(* Who owes is one of the threads. *)
LEMMA OwingFinite ==
    \A k, y : IsFiniteSet(Owing(k, y)) /\ Cardinality(Owing(k, y)) \in Nat
  <1> SUFFICES ASSUME NEW k, NEW y
               PROVE  IsFiniteSet(Owing(k, y)) /\ Cardinality(Owing(k, y)) \in Nat
    OBVIOUS
  <1>1. Owing(k, y) \subseteq Threads
    BY DEF Owing
  <1>2. IsFiniteSet(Owing(k, y))
    BY <1>1, Finite, FS_Subset
  <1> QED BY <1>2, FS_CardinalityType

(* The write of a counter moves its bound by one, and nothing else does:   *)
(* the write of a slot pays what is owed.                                  *)
LEMMA BoundMoves ==
    ASSUME RunInv, Slots, NEW t \in Threads, Worker(t), NEW j \in Shared, NEW y \in Types
    PROVE  /\ Bound(j, y) \in Int /\ Bound(j, y)' \in Int
           /\ Bound(j, y)' = IF CountWrite(t) /\ j = Head(ops[t]).kind /\ y = ty[t]
                             THEN Bound(j, y) + 1 ELSE Bound(j, y)
  <1>1. /\ j \in Kinds /\ Sum2(j, y) \in Int
        /\ Cardinality(Owing(j, y)) \in Nat /\ IsFiniteSet(Owing(j, y))
    BY Sum2Is, OwingFinite DEF Shared
  <1>2. \A u \in Threads \ {t} : pc'[u] = pc[u] /\ ty'[u] = ty[u] /\ ops'[u] = ops[u]
    BY WorkerFrame
  <1>3. CASE CountWrite(t)
    <2>1. /\ pc[t] = "counted" /\ pc'[t] = "slot" /\ ty' = ty /\ ops' = ops /\ count2' = count2
      BY <1>3 DEF CountWrite, Goes, RunInv, Shapes
    <2>2. Sum2(j, y)' = Sum2(j, y)
      BY <2>1 DEF Sum2
    <2>3. t \notin Owing(j, y)
      BY <2>1 DEF Owing
    <2>4. CASE j = Head(ops[t]).kind /\ y = ty[t]
      <3>1. Owing(j, y)' = Owing(j, y) \cup {t}
        BY <1>2, <2>1, <2>4 DEF Owing
      <3>2. Cardinality(Owing(j, y)') = Cardinality(Owing(j, y)) + 1
        BY <1>1, <2>3, <3>1, FS_AddElement
      <3> QED BY <1>1, <1>3, <2>2, <2>4, <3>2 DEF Bound
    <2>5. CASE ~ (j = Head(ops[t]).kind /\ y = ty[t])
      <3>1. Owing(j, y)' = Owing(j, y)
        BY <1>2, <2>1, <2>5 DEF Owing
      <3> QED BY <1>1, <2>2, <2>5, <3>1 DEF Bound
    <2> QED BY <2>4, <2>5
  <1>4. CASE CountSlot(t)
    <2>1. PICK k, delta : k = Head(ops[t]).kind /\ delta = Head(ops[t]).delta
      OBVIOUS
    <2>2. /\ ops[t] # <<>> /\ ops[t] \in Changes /\ pc[t] = "slot"
          /\ Sum2(j, y)' = IF j = k /\ y = ty[t] THEN Sum2(j, y) + delta ELSE Sum2(j, y)
      BY <1>1, <1>4, <2>1, CountedOne
    <2>3. pc'[t] # "slot"
      BY <1>4 DEF CountSlot, CountsOn, Goes, Returns, RunInv, Shapes
    <2>4. ~ CountWrite(t)
      BY <2>2 DEF CountWrite, Goes
    <2>5. CASE j = k /\ y = ty[t]
      <3>1. delta = 1
        BY <2>1, <2>2, <2>5 DEF Changes, Change, Shared, Kinds
      <3>2. t \in Owing(j, y) /\ Owing(j, y)' = Owing(j, y) \ {t}
        BY <1>2, <2>1, <2>2, <2>3, <2>5 DEF Owing
      <3>3. Cardinality(Owing(j, y)') = Cardinality(Owing(j, y)) - 1
        BY <1>1, <3>2, FS_RemoveElement
      <3> QED BY <1>1, <2>2, <2>4, <2>5, <3>1, <3>3 DEF Bound
    <2>6. CASE ~ (j = k /\ y = ty[t])
      <3>1. Owing(j, y)' = Owing(j, y)
        BY <1>2, <2>1, <2>3, <2>6 DEF Owing
      <3> QED BY <1>1, <2>2, <2>4, <2>6, <3>1 DEF Bound
    <2> QED BY <2>5, <2>6
  <1>5. CASE ~ CountWrite(t) /\ ~ CountSlot(t)
    <2>1. count2' = count2 /\ pc[t] # "slot" /\ pc'[t] # "slot"
      BY <1>5, WorkerFrame DEF CountRead, counts, Goes, RunInv, Shapes
    <2>2. Sum2(j, y)' = Sum2(j, y) /\ Owing(j, y)' = Owing(j, y)
      BY <1>2, <2>1 DEF Sum2, Owing
    <2> QED BY <1>1, <1>5, <2>2 DEF Bound
  <1> QED BY <1>3, <1>4, <1>5

(* The counters stay below their bounds: what a worker writes is one more  *)
(* than a value that was not above the bound, and the bound grows by one.  *)
LEMMA WorkerShared ==
    ASSUME RunInv, Slots, SharedInv, NEW t \in Threads, Worker(t)
    PROVE  SharedInv'
  <1>1. /\ \A u \in Threads \ {t} :
             pc'[u] = pc[u] /\ ty'[u] = ty[u] /\ ops'[u] = ops[u] /\ reg'[u] = reg[u]
        /\ \A u \in Threads :
             pc[u] = "counted" => Head(ops[u]).kind \in Kinds /\ ty[u] \in Types
    BY WorkerFrame, NextChange DEF RunInv, Shapes, TypeOK
  <1>2. \A j \in Shared, y \in Types :
          /\ Bound(j, y) \in Int /\ Bound(j, y)' \in Int /\ Bound(j, y) <= Bound(j, y)'
          /\ count[j][y] \in 0 .. Bound(j, y)
    BY BoundMoves DEF SharedInv
  <1>3. ASSUME NEW j \in Shared, NEW y \in Types, NEW u \in Threads
        PROVE  count2'[j][y][u] \in Nat
    <2>1. j \in Kinds /\ count2[j][y][u] \in Nat
      BY DEF SharedInv, Shared
    <2>2. CASE CountSlot(t)
      <3>1. PICK k, delta : k = Head(ops[t]).kind /\ delta = Head(ops[t]).delta
        OBVIOUS
      <3>2. /\ ops[t] # <<>> /\ ops[t] \in Changes
            /\ count2'[k][ty[t]][t] = count2[k][ty[t]][t] + delta
            /\ j # k \/ y # ty[t] \/ u # t => count2'[j][y][u] = count2[j][y][u]
        BY <2>1, <2>2, <3>1, CountedOne
      <3>3. j = k => delta = 1
        BY <3>1, <3>2 DEF Changes, Change, Shared, Kinds
      <3> QED BY <2>1, <3>2, <3>3
    <2>3. CASE ~ CountSlot(t)
      <3>1. count2' = count2
        BY <2>3, WorkerFrame DEF CountRead, CountWrite, counts
      <3> QED BY <2>1, <3>1
    <2> QED BY <2>2, <2>3
  <1>4. ASSUME NEW j \in Shared, NEW y \in Types
        PROVE  count'[j][y] \in 0 .. Bound(j, y)'
    <2>1. CASE CountWrite(t)
      <3>1. PICK k, delta : k = Head(ops[t]).kind /\ delta = Head(ops[t]).delta
        OBVIOUS
      <3>2. /\ pc[t] = "counted" /\ ops[t] # <<>> /\ ops[t] \in Changes /\ ty[t] \in Types
            /\ count' = [count EXCEPT ![k][ty[t]] = reg[t] + delta]
            /\ count \in [Kinds -> [Types -> Int]] /\ j \in Kinds
        BY <2>1, <3>1 DEF CountWrite, Goes, RunInv, Shapes, TypeOK, Shared
      <3>3. CASE j = k /\ y = ty[t]
        <4>1. delta = 1
          BY <3>1, <3>2, <3>3 DEF Changes, Change, Shared, Kinds
        <4>2. reg[t] \in 0 .. Bound(j, y)
          BY <3>1, <3>2, <3>3 DEF SharedInv
        <4>3. Bound(j, y)' = Bound(j, y) + 1
          BY <2>1, <3>1, <3>3, BoundMoves
        <4>4. count'[j][y] = reg[t] + 1
          BY <3>2, <3>3, <4>1
        <4> QED BY <1>2, <4>2, <4>3, <4>4
      <3>4. CASE ~ (j = k /\ y = ty[t])
        <4>1. count'[j][y] = count[j][y]
          BY <3>2, <3>4
        <4> QED BY <1>2, <4>1
      <3> QED BY <3>3, <3>4
    <2>2. CASE ~ CountWrite(t)
      <3>1. count' = count
        BY <2>2, WorkerFrame DEF CountRead, CountSlot, CountsOn, counts
      <3> QED BY <1>2, <3>1
    <2> QED BY <2>1, <2>2
  <1>5. ASSUME NEW u \in Threads, pc'[u] = "counted", (Head(ops[u]).kind \in Shared)'
        PROVE  reg'[u] \in 0 .. Bound(Head(ops[u]).kind, ty[u])'
    <2>1. PICK j, y : j = Head(ops'[u]).kind /\ y = ty'[u]
      OBVIOUS
    <2>2. Bound(Head(ops[u]).kind, ty[u])' = Bound(j, y)'
      BY <2>1 DEF Bound, Sum2, Owing
    <2>3. CASE u # t
      <3>1. /\ pc[u] = "counted" /\ j = Head(ops[u]).kind /\ y = ty[u] /\ reg'[u] = reg[u]
            /\ j \in Shared /\ y \in Types
        BY <1>1, <1>5, <2>1, <2>3
      <3>2. reg[u] \in 0 .. Bound(j, y)
        BY <3>1 DEF SharedInv
      <3> QED BY <1>2, <2>2, <3>1, <3>2
    <2>4. CASE u = t
      <3>1. CountRead(t)
        BY <1>5, <2>4, WorkerFrame
            DEF CountWrite, CountSlot, CountsOn, Goes, Returns, RunInv, Shapes
      <3>2. reg'[t] = count[j][y] /\ j \in Shared /\ y \in Types
        BY <1>5, <2>1, <2>4, <3>1 DEF CountRead, RunInv, Shapes, worker
      <3> QED BY <1>2, <2>2, <2>4, <3>2
    <2> QED BY <2>3, <2>4
  <1> QED BY <1>3, <1>4, <1>5 DEF SharedInv

----------------------------------------------------------------------------
(* The retries of a worker. *)

Retries(t) == SumFunction([y \in Types |-> count2["retry"][y][t]])

(* t has still to take back the retry of its last attempt. *)
TakesBack(t) == ops[t] # <<>> /\ Head(ops[t]).kind = "retry" /\ Head(ops[t]).delta = -1

Measuring == {"measure", "pause"}

(* A worker is at most one retry short, and while retries are counted it   *)
(* is not short of the one it may have to take back: the last attempt      *)
(* counted it, or it was made in the rampup, when all were still at 0.     *)
RetryInv ==
    /\ counting_on <=> main \in Measuring
    /\ \A t \in Threads :
         /\ Retries(t) >= -1
         /\ main = "rampup" => Retries(t) = 0 /\ ops[t] = <<>>
         /\ pc[t] = "again" /\ main \in {"rampup"} \cup Measuring => Retries(t) >= 0
         /\ TakesBack(t) => Retries(t) >= 0

(* A worker's retries are an integer. *)
LEMMA RetriesInt ==
    ASSUME Slots, NEW t \in Threads
    PROVE  Retries(t) \in Int
  <1> DEFINE f == [y \in Types |-> count2["retry"][y][t]]
  <1>1. \A y \in Types : f[y] \in Int
    BY DEF Slots, Kinds
  <1>2. Retries(t) = SumFunctionOnSet(f, Types)
    BY DEF Retries, SumFunction
  <1> HIDE DEF f
  <1> QED BY <1>1, <1>2, Finite, SumType

(* What CountSlot adds to a slot it adds to the worker's retries. *)
LEMMA CountedRetry ==
    ASSUME RunInv, Slots, NEW t \in Threads, CountSlot(t), NEW u \in Threads
    PROVE  Retries(u)' = IF u = t /\ Head(ops[t]).kind = "retry"
                         THEN Retries(u) + Head(ops[t]).delta ELSE Retries(u)
  <1>1. PICK k, delta, z : k = Head(ops[t]).kind /\ delta = Head(ops[t]).delta /\ z = ty[t]
    OBVIOUS
  <1>2. /\ k \in Kinds /\ delta \in Int /\ z \in Types /\ Slots'
        /\ count2'[k][z][t] = count2[k][z][t] + delta
        /\ \A j \in Kinds, y \in Types, v \in Threads :
             j # k \/ y # z \/ v # t => count2'[j][y][v] = count2[j][y][v]
    <2>1. /\ Head(ops[t]).kind \in Kinds /\ Head(ops[t]).delta \in Int
          /\ ty[t] \in Types /\ Slots'
          /\ count2'[Head(ops[t]).kind][ty[t]][t]
               = count2[Head(ops[t]).kind][ty[t]][t] + Head(ops[t]).delta
          /\ \A j \in Kinds, y \in Types, v \in Threads :
               j # Head(ops[t]).kind \/ y # ty[t] \/ v # t => count2'[j][y][v] = count2[j][y][v]
      BY CountedOne
    <2> QED BY <1>1, <2>1
  <1> DEFINE f == [y \in Types |-> count2["retry"][y][u]]
             g == [y \in Types |-> count2'["retry"][y][u]]
  <1>3. Retries(u) = SumFunctionOnSet(f, Types) /\ Retries(u)' = SumFunctionOnSet(g, Types)
    BY DEF Retries, SumFunction
  <1>4. \A y \in Types : f[y] \in Int /\ g[y] \in Int
    BY <1>2 DEF Slots, Kinds
  <1>5. CASE u = t /\ k = "retry"
    <2>1. g[z] = f[z] + delta /\ \A y \in Types \ {z} : f[y] = g[y]
      BY <1>2, <1>5 DEF Kinds
    <2>2. f[z] \in Int /\ g[z] \in Int
      BY <1>2, <1>4
    <2>3. SumFunctionOnSet(f, Types) \in Int
      <3> HIDE DEF f
      <3> QED BY <1>4, Finite, SumType
    <2> HIDE DEF f, g
    <2>4. SumFunctionOnSet(g, Types) = SumFunctionOnSet(f, Types) + (g[z] - f[z])
      <3>1. z \in Types /\ IsFiniteSet(Types) /\ \A y \in Types \ {z} : f[y] = g[y]
        BY <1>2, <2>1, Finite
      <3> QED BY <1>4, <3>1, SumChange
    <2>5. SumFunctionOnSet(g, Types) = SumFunctionOnSet(f, Types) + delta
      BY <1>2, <2>1, <2>2, <2>3, <2>4
    <2> QED BY <1>1, <1>3, <1>5, <2>5
  <1>6. CASE ~ (u = t /\ k = "retry")
    <2>1. \A y \in Types : f[y] = g[y]
      BY <1>2, <1>6 DEF Kinds
    <2> HIDE DEF f, g
    <2>2. SumFunctionOnSet(f, Types) = SumFunctionOnSet(g, Types)
      BY <2>1, Finite, SumSame
    <2> QED BY <1>1, <1>3, <1>6, <2>2
  <1> QED BY <1>5, <1>6

(* What a worker that changes none of its slots does to what it has     *)
(* still to count.                                                         *)
LEMMA WorkerPlans ==
    ASSUME RunInv, NEW t \in Threads, Worker(t), ~ CountSlot(t)
    PROVE  \/ ops'[t] = ops[t] /\ pc'[t] # "again"
           \/ ops'[t] = ops[t] /\ pc'[t] = "again" /\ ~ counting_on
           \/ counting_on /\ ops'[t] # <<>> /\ Head(ops'[t]).delta = 1 /\ pc'[t] # "again"
           \/ counting_on /\ ops'[t] # <<>> /\ pc[t] = "again" /\ pc'[t] # "again"
  <1> USE DEF RunInv, Shapes, Goes, deck, rate, counts, worker
  <1>1. CASE LoopAgain(t)
    BY <1>1 DEF LoopAgain
  <1>2. CASE NewInterval(t)
    BY <1>2 DEF NewInterval
  <1>3. CASE LoopEnds(t)
    BY <1>3 DEF LoopEnds
  <1>4. CASE ReadCurrent(t)
    BY <1>4 DEF ReadCurrent
  <1>5. CASE Tarpit(t)
    BY <1>5 DEF Tarpit
  <1>6. CASE Lock(t)
    BY <1>6 DEF Lock
  <1>7. CASE OutOfDraws(t)
    BY <1>7 DEF OutOfDraws
  <1>8. CASE Draw(t)
    BY <1>8 DEF Draw
  <1>9. CASE AttemptSucceeds(t)
    BY <1>9 DEF AttemptSucceeds, Returns, WillCount, Change
  <1>10. CASE AttemptFails(t)
    BY <1>10 DEF AttemptFails, WillCount, Change
  <1>11. CASE TryAgain(t)
    BY <1>11 DEF TryAgain
  <1>12. CASE GiveUp(t)
    BY <1>12, ChangeLists DEF GiveUp, Returns, WillCount
  <1>13. CASE CountRead(t)
    BY <1>13 DEF CountRead
  <1>14. CASE CountWrite(t)
    BY <1>14 DEF CountWrite
  <1>16. CASE ReadClock(t)
    BY <1>16 DEF ReadClock
  <1>17. CASE ReadInterval(t)
    BY <1>17 DEF ReadInterval
  <1> QED BY <1>1, <1>2, <1>3, <1>4, <1>5, <1>6, <1>7, <1>8, <1>9, <1>10, <1>11, <1>12, <1>13,
             <1>14, <1>16, <1>17 DEF Worker

(* A worker takes back no retry it did not count, but one of the rampup. *)
LEMMA WorkerRetries ==
    ASSUME RunInv, Slots, RetryInv, NEW t \in Threads, Worker(t)
    PROVE  RetryInv'
  <1>1. /\ main' = main /\ counting_on' = counting_on
        /\ \A u \in Threads \ {t} : pc'[u] = pc[u] /\ ops'[u] = ops[u]
    BY WorkerFrame DEF control
  <1>2. CASE CountSlot(t)
    <2>1. PICK k, delta, more :
            k = Head(ops[t]).kind /\ delta = Head(ops[t]).delta /\ more = Tail(ops[t])
      OBVIOUS
    <2>2. /\ ops[t] # <<>> /\ ops[t] \in Changes /\ ops'[t] = more
      BY <1>2, <2>1, CountedOne DEF RunInv, Shapes
    <2>3. /\ k = "retry" => delta \in {-1, 1}
          /\ k = "retry" /\ delta = -1 => more # <<>>
          /\ more # <<>> => Head(more).kind # "retry"
      <3>1. CASE \E j \in {"success", "late", "retry", "failure"} : ops[t] = <<Change(j, 1)>>
        BY <2>1, <3>1 DEF Change
      <3>2. CASE ops[t] = <<Change("retry", -1), Change("failure", 1)>>
        BY <2>1, <3>2 DEF Change
      <3> QED BY <2>2, <3>1, <3>2 DEF Changes
    <2>4. \A u \in Threads :
            Retries(u)' = IF u = t /\ k = "retry" THEN Retries(u) + delta ELSE Retries(u)
      BY <1>2, <2>1, CountedRetry
    <2>5. pc'[t] = "again" => k = "retry" /\ more = <<>>
      BY <1>2, <2>1 DEF CountSlot, CountsOn, Goes, Returns, RunInv, Shapes
    <2>6. \A u \in Threads : Retries(u) \in Int
      BY RetriesInt
    <2>7. k = "retry" /\ delta = -1 => Retries(t) >= 0
      BY <2>1, <2>2 DEF RetryInv, TakesBack
    <2>8. main # "rampup"
      BY <2>2 DEF RetryInv
    <2>9. Retries(t) >= -1 /\ Retries(t) \in Int
      BY <2>6 DEF RetryInv
    <2>10. Retries(t)' >= -1 /\ (pc'[t] = "again" => Retries(t)' >= 0)
      BY <2>3, <2>4, <2>5, <2>7, <2>9
    <2>11. ~ TakesBack(t)'
      BY <2>2, <2>3 DEF TakesBack
    <2>12. ASSUME NEW u \in Threads \ {t}
           PROVE  /\ Retries(u)' >= -1
                  /\ pc'[u] = "again" /\ main' \in {"rampup"} \cup Measuring => Retries(u)' >= 0
                  /\ TakesBack(u)' => Retries(u)' >= 0
      <3>1. Retries(u)' = Retries(u)
        BY <2>4
      <3>2. TakesBack(u)' = TakesBack(u)
        BY <1>1 DEF TakesBack
      <3> QED BY <1>1, <3>1, <3>2 DEF RetryInv
    <2> QED BY <1>1, <2>8, <2>10, <2>11, <2>12 DEF RetryInv
  <1>3. CASE ~ CountSlot(t)
    <2>1. count2' = count2
      BY <1>3, WorkerFrame DEF CountRead, CountWrite, counts
    <2>2. \A u \in Threads : Retries(u)' = Retries(u)
      BY <2>1 DEF Retries
    <2>3. \A u \in Threads \ {t} : TakesBack(u)' = TakesBack(u)
      BY <1>1 DEF TakesBack
    <2>4. CASE ops'[t] = ops[t] /\ pc'[t] # "again"
      BY <1>1, <2>2, <2>3, <2>4 DEF RetryInv, TakesBack
    <2>5. CASE ops'[t] = ops[t] /\ pc'[t] = "again" /\ ~ counting_on
      <3>1. main \notin Measuring /\ (main = "rampup" => Retries(t) >= 0)
        BY <2>5 DEF RetryInv
      <3> QED BY <1>1, <2>2, <2>3, <2>5, <3>1 DEF RetryInv, TakesBack
    <2>6. CASE counting_on /\ ops'[t] # <<>> /\ Head(ops'[t]).delta = 1 /\ pc'[t] # "again"
      <3>1. main # "rampup" /\ ~ TakesBack(t)'
        BY <2>6 DEF RetryInv, Measuring, TakesBack
      <3> QED BY <1>1, <2>2, <2>3, <2>6, <3>1 DEF RetryInv
    <2>7. CASE counting_on /\ ops'[t] # <<>> /\ pc[t] = "again" /\ pc'[t] # "again"
      <3>1. main # "rampup" /\ Retries(t) >= 0
        BY <2>7 DEF RetryInv, Measuring
      <3> QED BY <1>1, <2>2, <2>3, <2>7, <3>1 DEF RetryInv
    <2> QED BY <1>3, <2>4, <2>5, <2>6, <2>7, WorkerPlans
  <1> QED BY <1>2, <1>3

----------------------------------------------------------------------------
(* The deck. *)

(* What the present deck has dealt of y. *)
Dealt(y) == {i \in 1 .. next_num : seq[i] = y}

(* So many decks have been dealt out in full, and then the beginning of    *)
(* the present one.                                                        *)
DeckInv ==
    \E n \in Nat :
        /\ AllDrawn = n * Total + next_num
        /\ \A y \in Types : DrawnOf(y) = n * Weight(y) + Cardinality(Dealt(y))

(* What was drawn, as sums of natural numbers. *)
LEMMA DrawnIs ==
    ASSUME Slots
    PROVE  /\ \A y \in Types : DrawnOf(y) \in Nat
           /\ AllDrawn = SumFunctionOnSet([y \in Types |-> DrawnOf(y)], Types)
           /\ AllDrawn \in Nat
  <1>1. ASSUME NEW y \in Types PROVE DrawnOf(y) \in Nat
    <2> DEFINE f == [t \in Threads |-> drawn[t][y]]
    <2>1. \A t \in Threads : f[t] \in Nat
      BY DEF Slots
    <2>2. DrawnOf(y) = SumFunctionOnSet(f, Threads)
      BY DEF DrawnOf, SumFunction
    <2> HIDE DEF f
    <2> QED BY <2>1, <2>2, Finite, SumNat
  <1> DEFINE g == [y \in Types |-> DrawnOf(y)]
  <1>2. \A y \in Types : g[y] \in Nat
    BY <1>1
  <1>3. AllDrawn = SumFunctionOnSet(g, Types)
    BY DEF AllDrawn, SumFunction
  <1> HIDE DEF g
  <1>4. AllDrawn \in Nat
    BY <1>2, <1>3, Finite, SumNat
  <1> QED BY <1>1, <1>3, <1>4 DEF g

(* A card is drawn once. *)
LEMMA DrawnOne ==
    ASSUME RunInv, Slots, NEW t \in Threads, NEW z \in Types,
           drawn' = [drawn EXCEPT ![t][z] = @ + 1]
    PROVE  /\ \A y \in Types : DrawnOf(y)' = IF y = z THEN DrawnOf(y) + 1 ELSE DrawnOf(y)
           /\ AllDrawn' = AllDrawn + 1
  <1>1. drawn' \in [Threads -> [Types -> Nat]]
    BY DEF Slots
  <1>2. ASSUME NEW y \in Types
        PROVE  /\ DrawnOf(y)' = IF y = z THEN DrawnOf(y) + 1 ELSE DrawnOf(y)
               /\ DrawnOf(y)' \in Int
    <2> DEFINE f == [u \in Threads |-> drawn[u][y]]
               g == [u \in Threads |-> drawn'[u][y]]
    <2>1. DrawnOf(y) = SumFunctionOnSet(f, Threads) /\ DrawnOf(y)' = SumFunctionOnSet(g, Threads)
      BY DEF DrawnOf, SumFunction
    <2>2. /\ \A u \in Threads : f[u] \in Int /\ g[u] \in Int
          /\ \A u \in Threads \ {t} : f[u] = g[u]
          /\ g[t] = IF y = z THEN f[t] + 1 ELSE f[t]
      BY <1>1 DEF Slots
    <2>3. DrawnOf(y) \in Nat
      BY DrawnIs
    <2> HIDE DEF f, g
    <2>4. PICK F, G : F = f /\ G = g
      OBVIOUS
    <2>5. /\ \A u \in Threads : F[u] \in Int /\ G[u] \in Int
          /\ \A u \in Threads \ {t} : F[u] = G[u]
          /\ G[t] = IF y = z THEN F[t] + 1 ELSE F[t]
      BY <2>2, <2>4
    <2>6. SumFunctionOnSet(G, Threads) = SumFunctionOnSet(F, Threads) + (G[t] - F[t])
      BY <2>5, Finite, SumChange
    <2>7. F[t] \in Int /\ G[t] \in Int
      BY <2>5
    <2> QED BY <2>1, <2>3, <2>4, <2>5, <2>6, <2>7
  <1> DEFINE f == [y \in Types |-> DrawnOf(y)]
             g == [y \in Types |-> DrawnOf(y)']
  <1>3. AllDrawn = SumFunctionOnSet(f, Types) /\ AllDrawn \in Nat
    BY DrawnIs
  <1>4. AllDrawn' = SumFunctionOnSet(g, Types)
    BY DEF AllDrawn, SumFunction
  <1>5. /\ \A y \in Types : f[y] \in Int /\ g[y] \in Int
        /\ \A y \in Types \ {z} : f[y] = g[y]
        /\ g[z] = f[z] + 1
    BY <1>2, DrawnIs
  <1> HIDE DEF f, g
  <1>6. SumFunctionOnSet(g, Types) = SumFunctionOnSet(f, Types) + (g[z] - f[z])
    <2>1. IsFiniteSet(Types) /\ \A y \in Types \ {z} : f[y] = g[y]
      BY <1>5, Finite
    <2>2. \A y \in Types : f[y] \in Int /\ g[y] \in Int
      BY <1>5
    <2> QED BY <2>1, <2>2, SumChange
  <1>7. f[z] \in Int /\ g[z] \in Int
    BY <1>5
  <1>8. AllDrawn' = AllDrawn + 1
    BY <1>3, <1>4, <1>5, <1>6, <1>7
  <1> QED BY <1>2, <1>8

(* What is dealt of y is a part of what the deck holds of it. *)
LEMMA DealtIs ==
    ASSUME TypeOK, NEW y \in Types
    PROVE  /\ IsFiniteSet(Dealt(y)) /\ Cardinality(Dealt(y)) \in Nat
           /\ Cardinality(Dealt(y)) <= Weight(y) /\ Weight(y) \in Nat
           /\ next_num = Total => Cardinality(Dealt(y)) = Weight(y)
  <1> DEFINE D == {i \in 1 .. Total : seq[i] = y}
  <1>1. Cardinality(D) = Weight(y) /\ Total \in Nat /\ next_num \in 0 .. Total
    BY Constants DEF TypeOK, Shuffled
  <1>2. IsFiniteSet(1 .. Total)
    BY <1>1, FS_Interval
  <1>3. IsFiniteSet(D)
    BY <1>2, FS_Subset
  <1>4. Dealt(y) \in SUBSET D /\ (next_num = Total => Dealt(y) = D)
    BY <1>1 DEF Dealt
  <1>5. IsFiniteSet(Dealt(y)) /\ Cardinality(Dealt(y)) <= Cardinality(D)
    BY <1>3, <1>4, FS_Subset
  <1>6. Cardinality(Dealt(y)) \in Nat /\ Cardinality(D) \in Nat
    BY <1>3, <1>5, FS_CardinalityType
  <1> QED BY <1>1, <1>4, <1>5, <1>6

(* Products. *)
LEMMA NextMultiple ==
    ASSUME NEW n \in Nat, NEW m \in Nat
    PROVE  (n + 1) * m = n * m + m /\ n * m \in Nat
  OBVIOUS

(* Division: what it gives for a whole number of decks and a rest. *)
LEMMA QuotientIs ==
    ASSUME NEW n \in Nat, NEW m \in Nat \ {0}, NEW r \in 0 .. m - 1
    PROVE  (n * m + r) \div m = n
  <1>1. PICK a \in Nat, q \in Nat : a = n * m + r /\ q = a \div m
    <2>1. n * m + r \in Nat
      BY NextMultiple
    <2>2. (n * m + r) \div m \in Nat
      BY <2>1
    <2> QED BY <2>1, <2>2
  <1>2. m * q <= a /\ a < m * (q + 1)
    <2>1. a % m \in 0 .. m - 1 /\ a = m * q + (a % m)
      BY <1>1
    <2>2. m * (q + 1) = m * q + m /\ m * q \in Nat
      OBVIOUS
    <2> QED BY <2>1, <2>2
  <1>3. ASSUME q < n PROVE FALSE
    <2>1. PICK d \in Nat : n = q + 1 + d
      <3>1. n - q - 1 \in Nat
        BY <1>3
      <3> QED BY <3>1
    <2>2. m * n = m * (q + 1) + m * d /\ m * d \in Nat /\ m * (q + 1) \in Nat
      BY <2>1
    <2> QED BY <1>1, <1>2, <2>2
  <1>4. ASSUME q > n PROVE FALSE
    <2>1. PICK d \in Nat : q = n + 1 + d
      <3>1. q - n - 1 \in Nat
        BY <1>4
      <3> QED BY <3>1
    <2>2. m * q = m * n + m + m * d /\ m * d \in Nat /\ m * n \in Nat
      BY <2>1
    <2> QED BY <1>1, <1>2, <2>2
  <1> QED BY <1>1, <1>3, <1>4

(* Each card of a deck is dealt once, and a deck is shuffled when all its  *)
(* cards are dealt.                                                        *)
LEMMA WorkerDeals ==
    ASSUME RunInv, Slots, DeckInv, NEW t \in Threads, Worker(t)
    PROVE  DeckInv'
  <1>1. PICK n \in Nat : /\ AllDrawn = n * Total + next_num
                         /\ \A y \in Types : DrawnOf(y) = n * Weight(y) + Cardinality(Dealt(y))
    BY DEF DeckInv
  <1>2. Total \in Nat /\ next_num \in 0 .. Total /\ n * Total \in Nat
    BY Constants, NextMultiple DEF RunInv, TypeOK
  <1>3. CASE Draw(t)
    <2>1. PICK z : z = seq[next_num + 1]
      OBVIOUS
    <2>2. /\ drawn' = [drawn EXCEPT ![t][z] = @ + 1] /\ next_num' = next_num + 1 /\ seq' = seq
          /\ pc[t] = "draw"
      BY <1>3, <2>1 DEF Draw, Goes
    <2>3. next_num < Total /\ seq \in [1 .. Total -> Types]
      BY <2>2 DEF RunInv, TypeOK, Shapes
    <2>4. z \in Types
      BY <1>2, <2>1, <2>3
    <2>5. /\ \A y \in Types : DrawnOf(y)' = IF y = z THEN DrawnOf(y) + 1 ELSE DrawnOf(y)
          /\ AllDrawn' = AllDrawn + 1
      BY <2>2, <2>4, DrawnOne
    <2>6. AllDrawn' = n * Total + next_num'
      BY <1>1, <1>2, <2>2, <2>5
    <2>7. ASSUME NEW y \in Types
          PROVE  DrawnOf(y)' = n * Weight(y) + Cardinality(Dealt(y)')
      <3>1. /\ IsFiniteSet(Dealt(y)) /\ Cardinality(Dealt(y)) \in Nat /\ Weight(y) \in Nat
            /\ n * Weight(y) \in Nat /\ DrawnOf(y) = n * Weight(y) + Cardinality(Dealt(y))
        BY <1>1, DealtIs, NextMultiple DEF RunInv
      <3>2. CASE y = z
        <4>1. Dealt(y)' = Dealt(y) \cup {next_num + 1} /\ next_num + 1 \notin Dealt(y)
          BY <1>2, <2>1, <2>2, <3>2 DEF Dealt
        <4>2. Cardinality(Dealt(y)') = Cardinality(Dealt(y)) + 1
          BY <3>1, <4>1, FS_AddElement
        <4>3. DrawnOf(y)' = DrawnOf(y) + 1
          BY <2>5, <3>2
        <4> QED BY <3>1, <4>2, <4>3
      <3>3. CASE y # z
        <4>1. Dealt(y)' = Dealt(y)
          BY <1>2, <2>1, <2>2, <3>3 DEF Dealt
        <4>2. DrawnOf(y)' = DrawnOf(y)
          BY <2>5, <3>3
        <4> QED BY <3>1, <4>1, <4>2
      <3> QED BY <3>2, <3>3
    <2> QED BY <2>6, <2>7 DEF DeckInv
  <1>4. CASE ~ Draw(t)
    <2>1. drawn' = drawn
      BY <1>4, WorkerFrame
    <2>2. AllDrawn' = AllDrawn /\ \A y : DrawnOf(y)' = DrawnOf(y)
      BY <2>1 DEF AllDrawn, DrawnOf
    <2>3. CASE UNCHANGED <<seq, next_num>>
      <3>1. \A y : Dealt(y)' = Dealt(y)
        BY <2>3 DEF Dealt
      <3> QED BY <1>1, <2>2, <2>3, <3>1 DEF DeckInv
    <2>4. CASE next_num >= Total /\ next_num' = 0
      <3>1. next_num = Total
        BY <1>2, <2>4
      <3>2. AllDrawn' = (n + 1) * Total + next_num'
        <4>1. (n + 1) * Total = n * Total + Total
          BY <1>2, NextMultiple
        <4> QED BY <1>1, <1>2, <2>2, <2>4, <3>1, <4>1
      <3>3. ASSUME NEW y \in Types
            PROVE  DrawnOf(y)' = (n + 1) * Weight(y) + Cardinality(Dealt(y)')
        <4>1. /\ Weight(y) \in Nat /\ Cardinality(Dealt(y)) = Weight(y)
              /\ DrawnOf(y) = n * Weight(y) + Cardinality(Dealt(y))
          BY <1>1, <3>1, DealtIs DEF RunInv
        <4>2. (n + 1) * Weight(y) = n * Weight(y) + Weight(y) /\ n * Weight(y) \in Nat
          BY <4>1, NextMultiple
        <4>3. Dealt(y)' = {}
          BY <2>4 DEF Dealt
        <4>4. Cardinality(Dealt(y)') = 0
          BY <4>3, FS_EmptySet
        <4> QED BY <2>2, <4>1, <4>2, <4>4
      <3>4. n + 1 \in Nat
        OBVIOUS
      <3> QED BY <3>2, <3>3, <3>4 DEF DeckInv
    <2>5. UNCHANGED <<seq, next_num>> \/ (next_num >= Total /\ next_num' = 0)
      BY <1>4 DEF Worker, LoopAgain, NewInterval, LoopEnds, ReadClock, ReadCurrent, ReadInterval,
                  Tarpit, Lock, OutOfDraws, AttemptSucceeds, AttemptFails, TryAgain, GiveUp,
                  CountRead, CountWrite, CountSlot, CountsOn, deck
    <2> QED BY <2>3, <2>4, <2>5
  <1> QED BY <1>3, <1>4

(* The counts of the threads keep their shapes. *)
LEMMA WorkerSlots ==
    ASSUME RunInv, Slots, NEW t \in Threads, Worker(t)
    PROVE  Slots'
  <1>1. CASE CountSlot(t)
    BY <1>1, CountedOne
  <1>2. CASE ~ CountSlot(t)
    <2>1. count2' = count2
      BY <1>2, WorkerFrame DEF CountRead, CountWrite, counts
    <2>2. drawn' \in [Threads -> [Types -> Nat]]
      <3>1. CASE Draw(t)
        <4>1. seq[next_num + 1] \in Types
          <5>1. pc[t] = "draw"
            BY <3>1 DEF Draw, Goes
          <5>2. next_num \in 0 .. Total /\ next_num < Total /\ seq \in [1 .. Total -> Types]
            BY <5>1 DEF RunInv, TypeOK, Shapes
          <5>3. next_num + 1 \in 1 .. Total
            BY <5>2, Constants
          <5> QED BY <5>2, <5>3
        <4>2. PICK z \in Types : drawn' = [drawn EXCEPT ![t][z] = @ + 1]
          BY <3>1, <4>1 DEF Draw
        <4> QED BY <4>2 DEF Slots
      <3>2. CASE ~ Draw(t)
        BY <3>2, WorkerFrame DEF Slots
      <3> QED BY <3>1, <3>2
    <2> QED BY <2>1, <2>2 DEF Slots
  <1> QED BY <1>1, <1>2

(* The inductive invariant of what is counted and dealt. *)
CountInv == Slots /\ SharedInv /\ RetryInv /\ DeckInv

(* Main and the timer count and deal nothing; retries are not taken back   *)
(* in the rampup, nor counted after the measurement.                       *)
LEMMA OthersCount ==
    ASSUME RunInv, CountInv, Main \/ Alarm \/ Tick \/ UNCHANGED vars
    PROVE  CountInv'
  <1> USE DEF Main, Alarm, Tick, StartCounting, Pause, StopCounting, StopThreads, Join, Report
  <1>1. UNCHANGED <<deck, counts, pc, worker>>
    BY DEF vars, workers, rate
  <1>2. UNCHANGED <<seq, next_num, count, count2, pc, ty, ops, reg, drawn>>
    BY <1>1 DEF deck, counts, worker
  <1>3. /\ main = "rampup" \/ main' # "rampup"
        /\ main' \in Measuring => main \in {"rampup"} \cup Measuring
        /\ (counting_on <=> main \in Measuring) => (counting_on' <=> main' \in Measuring)
    BY DEF vars, control, Measuring
  <1> HIDE DEF Main, Alarm, Tick, StartCounting, Pause, StopCounting, StopThreads, Join, Report
  <1>4. /\ \A k, y : Sum2(k, y)' = Sum2(k, y) /\ Bound(k, y)' = Bound(k, y)
        /\ \A t : Retries(t)' = Retries(t) /\ TakesBack(t)' = TakesBack(t)
        /\ \A y : DrawnOf(y)' = DrawnOf(y) /\ Dealt(y)' = Dealt(y)
        /\ AllDrawn' = AllDrawn
    BY <1>2 DEF Sum2, Bound, Owing, Retries, TakesBack, DrawnOf, AllDrawn, Dealt
  <1>5. Slots'
    BY <1>2 DEF CountInv, Slots
  <1>6. SharedInv'
    BY <1>2, <1>4 DEF CountInv, SharedInv
  <1>7. RetryInv'
    BY <1>2, <1>3, <1>4 DEF CountInv, RetryInv
  <1>8. DeckInv'
    BY <1>2, <1>4 DEF CountInv, DeckInv
  <1> QED BY <1>5, <1>6, <1>7, <1>8 DEF CountInv

(* At first nothing is counted or dealt. *)
LEMMA InitCount ==
    ASSUME Init
    PROVE  CountInv
  <1> USE DEF Init
  <1>1. Slots
    BY DEF Slots
  <1>2. \A k \in Kinds, y \in Types, t \in Threads : count2[k][y][t] = 0
    OBVIOUS
  <1>3. ASSUME NEW k \in Kinds, NEW y \in Types PROVE Sum2(k, y) = 0
    <2>1. Sum2(k, y) = SumFunctionOnSet(count2[k][y], Threads)
      BY <1>1, Sum2Is
    <2> QED BY <1>2, <2>1, Finite, SumNat
  <1>4. SharedInv
    <2>1. ASSUME NEW k \in Kinds, NEW y \in Types PROVE Bound(k, y) = 0
      <3>1. Owing(k, y) = {}
        BY DEF Owing
      <3>2. Cardinality(Owing(k, y)) = 0
        BY <3>1, FS_EmptySet
      <3> QED BY <1>3, <3>2 DEF Bound
    <2> QED BY <1>2, <2>1 DEF SharedInv, Shared
  <1>5. ASSUME NEW t \in Threads PROVE Retries(t) = 0
    <2> DEFINE f == [y \in Types |-> count2["retry"][y][t]]
    <2>1. \A y \in Types : f[y] = 0
      BY DEF Kinds
    <2>2. Retries(t) = SumFunctionOnSet(f, Types)
      BY DEF Retries, SumFunction
    <2> HIDE DEF f, Init
    <2> QED BY <2>1, <2>2, Finite, SumNat
  <1>6. RetryInv
    BY <1>5 DEF RetryInv, TakesBack, Measuring
  <1>7. ASSUME NEW y \in Types PROVE DrawnOf(y) = 0
    <2> DEFINE f == [t \in Threads |-> drawn[t][y]]
    <2>1. \A t \in Threads : f[t] = 0
      OBVIOUS
    <2>2. DrawnOf(y) = SumFunctionOnSet(f, Threads)
      BY DEF DrawnOf, SumFunction
    <2> HIDE DEF f, Init
    <2> QED BY <2>1, <2>2, Finite, SumNat
  <1>8. AllDrawn = 0
    <2> DEFINE f == [y \in Types |-> DrawnOf(y)]
    <2>1. \A y \in Types : f[y] = 0
      BY <1>7
    <2>2. AllDrawn = SumFunctionOnSet(f, Types)
      BY DEF AllDrawn, SumFunction
    <2> HIDE DEF f, Init
    <2> QED BY <2>1, <2>2, Finite, SumNat
  <1>9. DeckInv
    <2>1. ASSUME NEW y \in Types PROVE Cardinality(Dealt(y)) = 0 /\ Weight(y) \in Nat
      <3>1. Dealt(y) = {}
        BY DEF Dealt
      <3>2. Weight(y) \in Nat
        BY InitRunInv, DealtIs DEF RunInv
      <3> QED BY <3>1, <3>2, FS_EmptySet
    <2>2. AllDrawn = 0 * Total + next_num
      BY <1>8, Constants
    <2>3. \A y \in Types : DrawnOf(y) = 0 * Weight(y) + Cardinality(Dealt(y))
      BY <1>7, <2>1
    <2> HIDE DEF Init
    <2> QED BY <2>2, <2>3 DEF DeckInv
  <1> QED BY <1>1, <1>4, <1>6, <1>9 DEF CountInv

(* The invariant holds of every run. *)
LEMMA CountInvHolds == Spec => [](RunInv /\ CountInv)
  <1>1. Init => RunInv /\ CountInv
    BY InitRunInv, InitCount
  <1>2. RunInv /\ CountInv /\ [Next]_vars => (RunInv /\ CountInv)'
    <2> SUFFICES ASSUME RunInv, CountInv, [Next]_vars PROVE CountInv'
      BY NextRunInv
    <2>1. ASSUME NEW t \in Threads, Worker(t) PROVE CountInv'
      BY <2>1, WorkerSlots, WorkerShared, WorkerRetries, WorkerDeals DEF CountInv
    <2> QED BY <2>1, OthersCount DEF Next, Runs, Terminating
  <1> QED BY <1>1, <1>2, PTL DEF Spec

(* Threads that count at once may lose increments of success[], late[] and *)
(* failure[], but make up none: they exceed the sums of the threads' slots *)
(* at most by the threads that are between the two writes, and the raw     *)
(* results that are printed exceed those below them by nothing.            *)
THEOREM CountsAreLost == Spec => []SharedNotAboveSum
  <1>1. RunInv /\ CountInv => SharedNotAboveSum
    BY DEF RunInv, EndedInv, Owing, CountInv, SharedInv, Shared, Bound, SharedNotAboveSum
  <1> QED BY <1>1, CountInvHolds, PTL

(* A worker takes back at most one retry that it did not count, that of a  *)
(* transaction whose last attempt failed before the measurement began.     *)
THEOREM RetriesAreTakenBackOnce == Spec => []RetriesTakenBackOnce
  <1>1. CountInv => RetriesTakenBackOnce
    BY DEF CountInv, RetryInv, Retries, RetriesTakenBackOnce
  <1> QED BY <1>1, CountInvHolds, PTL

(* Whoever draws, the transactions come in the ratio of the deck.          *)
THEOREM DecksAreDealtEvenly == Spec => []DeckDealtEvenly
  <1>1. ASSUME RunInv, CountInv PROVE DeckDealtEvenly
    <2>1. PICK n \in Nat : /\ AllDrawn = n * Total + next_num
                           /\ \A y \in Types :
                                DrawnOf(y) = n * Weight(y) + Cardinality(Dealt(y))
      BY <1>1 DEF CountInv, DeckInv
    <2>2. Total \in Nat \ {0} /\ next_num \in 0 .. Total /\ n * Total \in Nat
      BY <1>1, Constants, NextMultiple DEF RunInv, TypeOK
    <2>3. CASE next_num < Total
      <3>1. AllDrawn \div Total = n
        BY <2>1, <2>2, <2>3, QuotientIs
      <3>2. ASSUME NEW y \in Types
            PROVE  DrawnOf(y) \in n * Weight(y) .. (n + 1) * Weight(y)
        <4>1. /\ Weight(y) \in Nat /\ Cardinality(Dealt(y)) \in 0 .. Weight(y)
              /\ DrawnOf(y) = n * Weight(y) + Cardinality(Dealt(y))
          BY <1>1, <2>1, DealtIs DEF RunInv
        <4>2. (n + 1) * Weight(y) = n * Weight(y) + Weight(y) /\ n * Weight(y) \in Nat
          BY <4>1, NextMultiple
        <4> QED BY <4>1, <4>2
      <3> QED BY <3>1, <3>2 DEF DeckDealtEvenly
    <2>4. CASE next_num = Total
      <3>1. AllDrawn \div Total = n + 1
        <4>1. AllDrawn = (n + 1) * Total + 0
          BY <2>1, <2>2, <2>4, NextMultiple
        <4> QED BY <2>2, <4>1, QuotientIs
      <3>2. ASSUME NEW y \in Types
            PROVE  DrawnOf(y) \in (n + 1) * Weight(y) .. (n + 1 + 1) * Weight(y)
        <4>1. /\ Weight(y) \in Nat /\ Cardinality(Dealt(y)) = Weight(y)
              /\ DrawnOf(y) = n * Weight(y) + Cardinality(Dealt(y))
          BY <1>1, <2>1, <2>4, DealtIs DEF RunInv
        <4>2. /\ (n + 1) * Weight(y) = n * Weight(y) + Weight(y) /\ n * Weight(y) \in Nat
              /\ (n + 1 + 1) * Weight(y) = (n + 1) * Weight(y) + Weight(y)
          BY <4>1, NextMultiple
        <4> QED BY <4>1, <4>2
      <3> QED BY <3>1, <3>2 DEF DeckDealtEvenly
    <2> QED BY <2>2, <2>3, <2>4
  <1> QED BY <1>1, CountInvHolds, PTL
=============================================================================
