------------------------------ MODULE TpccRun ------------------------------
(***************************************************************************)
(* How tpcc_start runs its worker threads: the deck of transactions they   *)
(* share, the rate limiter, the counters, and the main thread that starts  *)
(* and ends the measurement.  What a transaction does to the database is   *)
(* in TpccTxn; here an attempt succeeds, in time or late, or fails.        *)
(*                                                                         *)
(* The counters success[], late[], retry[] and failure[] are plain ints    *)
(* that all threads change without a lock: an increment is a read and a    *)
(* write.  success2[] and its like are written by one thread each.         *)
(*                                                                         *)
(*   main    what the main thread does next; pauses: its loop variable i   *)
(*   timer   the interval timer is set                                     *)
(*   seq, next_num, mutex   the deck (sequence.c)                          *)
(*   age     seconds since rate_last_seconds, at most MaxAge (a bound)     *)
(*   rate_last_transactions (driver.c)                                     *)
(*   now     of each worker, current_seconds - rate_last_seconds           *)
(*   count   success, late, retry and failure; count2: success2 ... failure2 *)
(*   pc, ty, tries, cur, ops, reg   of each worker: its statement, its     *)
(*           transaction, failed attempts, current_transactions, counter   *)
(*           changes still to make, and the value read for the first       *)
(*   drawn   what each worker has drawn; MaxDraws bounds the sum           *)
(***************************************************************************)
EXTENDS Integers, Sequences, FiniteSets, Functions

CONSTANTS
    NumConn,    \* num_conn
    Weights,    \* how often the deck holds each transaction
    Limit,      \* num_neword_per_10_sec
    Interval,   \* transaction_interval
    MaxRetry,   \* MAX_RETRY
    Pauses,     \* measure_time / PRINT_INTERVAL
    MaxAge,     \* bound on age
    MaxDraws,   \* bound on what the workers draw
    None

Threads == 0 .. NumConn - 1
Types   == 0 .. Len(Weights) - 1
Kinds   == {"success", "late", "retry", "failure"}

Weight(y) == Weights[y + 1]
Total == SumFunction(Weights)

(* With Limit = 0 a worker that has counted one order never runs again.    *)
(* age is capped where the workers' orders are no longer above the limit.  *)
ASSUME RunAssumption ==
    /\ NumConn \in Nat \ {0}
    /\ Weights \in Seq(Nat) /\ Weights # <<>> /\ Total \in Nat \ {0}
    /\ Limit \in Nat \ {0} /\ Interval \in Nat \ {0} /\ MaxRetry \in Nat \ {0}
    /\ Pauses \in Nat /\ MaxDraws \in Nat
    /\ MaxAge \in Nat /\ MaxAge > Interval
    /\ MaxAge * Limit >= MaxDraws * Interval
    /\ None \notin Threads

VARIABLES main, pauses, timer, counting_on, activate_transaction,
          seq, next_num, mutex, age, rate_last_transactions, now, count, count2,
          pc, ty, tries, cur, ops, reg, drawn

control == <<main, pauses, timer, counting_on, activate_transaction>>
deck    == <<seq, next_num, mutex>>
rate    == <<age, rate_last_transactions, now>>
counts  == <<count, count2>>
worker  == <<ty, tries, cur, ops, reg, drawn>>
vars    == <<control, deck, rate, counts, pc, worker>>

(* What shuffle() may leave in seq: the deck in any order. *)
Shuffled ==
    {s \in [1 .. Total -> Types] :
        \A y \in Types : Cardinality({i \in 1 .. Total : s[i] = y}) = Weight(y)}

Init ==
    /\ main = "rampup" /\ pauses = 0
    /\ timer = FALSE
    /\ counting_on = FALSE /\ activate_transaction = TRUE
    /\ seq \in Shuffled /\ next_num = 0 /\ mutex = None
    /\ age = MaxAge /\ rate_last_transactions = 0 /\ now = [t \in Threads |-> 0]
    /\ count = [k \in Kinds |-> [y \in Types |-> 0]]
    /\ count2 = [k \in Kinds |-> [y \in Types |-> [t \in Threads |-> 0]]]
    /\ pc = [t \in Threads |-> "loop"]
    /\ ty = [t \in Threads |-> 0]
    /\ tries = [t \in Threads |-> 0]
    /\ cur = [t \in Threads |-> 0]
    /\ ops = [t \in Threads |-> <<>>]
    /\ reg = [t \in Threads |-> 0]
    /\ drawn = [t \in Threads |-> [y \in Types |-> 0]]

Goes(t, from, to) == pc[t] = from /\ pc' = [pc EXCEPT ![t] = to]

----------------------------------------------------------------------------
(* driver(): the loop of a worker. *)

(* while( activate_transaction ); thread 0 starts a new interval when the  *)
(* old one is over: first its time, which is then also what a worker that  *)
(* has read the clock but not rate_last_seconds compares with ...          *)
LoopAgain(t) ==
    /\ activate_transaction
    /\ IF t = 0 /\ age > Interval
       THEN /\ Goes(t, "loop", "interval") /\ age' = 0
            /\ now' = [u \in Threads |->
                          IF pc[u] \in {"clock", "current"} THEN now[u] - age ELSE now[u]]
       ELSE Goes(t, "loop", "check") /\ UNCHANGED <<age, now>>
    /\ UNCHANGED <<control, deck, rate_last_transactions, counts, worker>>

(* ... then its count. *)
NewInterval(t) ==
    /\ Goes(t, "interval", "check")
    /\ rate_last_transactions' = count["success"][0]
    /\ UNCHANGED <<control, deck, age, now, counts, worker>>

LoopEnds(t) ==
    /\ ~activate_transaction
    /\ Goes(t, "loop", "ended")
    /\ UNCHANGED <<control, deck, rate, counts, worker>>

(* gettimeofday() *)
ReadClock(t) ==
    /\ Goes(t, "check", "clock")
    /\ now' = [now EXCEPT ![t] = age]
    /\ UNCHANGED <<control, deck, age, rate_last_transactions, counts, worker>>

(* current_transactions = success[0] *)
ReadCurrent(t) ==
    /\ Goes(t, "clock", "current")
    /\ cur' = [cur EXCEPT ![t] = count["success"][0]]
    /\ UNCHANGED <<control, deck, rate, counts, ty, tries, ops, reg, drawn>>

(* rate_last_seconds is read: now[t] no longer depends on it. *)
ReadInterval(t) ==
    /\ Goes(t, "current", "compare")
    /\ UNCHANGED <<control, deck, rate, counts, worker>>

(* Mutant of TooFast: the time does not count. *)
TooFastByCount(t) == cur[t] - rate_last_transactions > Limit

(* current_tps > num_neword_per_10_sec, in doubles: x / 0 is infinite or,  *)
(* for 0 / 0, a NaN, which is not greater; and the divisor is negative if  *)
(* thread 0 has begun an interval since the clock was read.                *)
(* rate_last_transactions is read last; read first, it is what it still is *)
(* when rate_last_seconds is already new.                                  *)
TooFast(t) ==
    LET x == (cur[t] - rate_last_transactions) * Interval IN
    IF now[t] >= 0 THEN x > Limit * now[t] ELSE x < Limit * now[t]

(* usleep() and look again, whatever activate_transaction says; or go on.  *)
Tarpit(t) ==
    /\ Goes(t, "compare", IF TooFast(t) THEN "check" ELSE "lock")
    /\ cur' = [cur EXCEPT ![t] = 0]
    /\ now' = [now EXCEPT ![t] = 0]
    /\ UNCHANGED <<control, deck, age, rate_last_transactions, counts,
                   ty, tries, ops, reg, drawn>>

----------------------------------------------------------------------------
(* seq_get() *)

DrawnOf(y) == SumFunction([t \in Threads |-> drawn[t][y]])
AllDrawn   == SumFunction([y \in Types |-> DrawnOf(y)])

(* Mutant of Lock: the last card is never dealt. *)
LockShuffleEarly(t) ==
    /\ AllDrawn < MaxDraws
    /\ Goes(t, "lock", "draw")
    /\ mutex = None /\ mutex' = t
    /\ IF next_num >= Total - 1
       THEN seq' \in Shuffled /\ next_num' = 0
       ELSE UNCHANGED <<seq, next_num>>
    /\ UNCHANGED <<control, rate, counts, worker>>

(* Mutant of Lock: next_num > total. *)
LockShuffleLate(t) ==
    /\ AllDrawn < MaxDraws
    /\ Goes(t, "lock", "draw")
    /\ mutex = None /\ mutex' = t
    /\ IF next_num > Total
       THEN seq' \in Shuffled /\ next_num' = 0
       ELSE UNCHANGED <<seq, next_num>>
    /\ UNCHANGED <<control, rate, counts, worker>>

(* Lock, and if( next_num >= total ) shuffle. *)
Lock(t) ==
    /\ AllDrawn < MaxDraws
    /\ Goes(t, "lock", "draw")
    /\ mutex = None /\ mutex' = t
    /\ IF next_num >= Total
       THEN seq' \in Shuffled /\ next_num' = 0
       ELSE UNCHANGED <<seq, next_num>>
    /\ UNCHANGED <<control, rate, counts, worker>>

(* Bound: workers that may draw no more wait for the end of the run. *)
OutOfDraws(t) ==
    /\ AllDrawn >= MaxDraws /\ ~activate_transaction
    /\ Goes(t, "lock", "loop")
    /\ UNCHANGED <<control, deck, rate, counts, worker>>

(* retval = seq[next_num]; ++next_num; unlock *)
Draw(t) ==
    LET y == seq[next_num + 1] IN
    /\ Goes(t, "draw", "attempt")
    /\ ty' = [ty EXCEPT ![t] = y]
    /\ drawn' = [drawn EXCEPT ![t][y] = @ + 1]
    /\ tries' = [tries EXCEPT ![t] = 0]
    /\ next_num' = next_num + 1
    /\ mutex' = None
    /\ UNCHANGED <<control, seq, rate, counts, cur, ops, reg>>

----------------------------------------------------------------------------
(* do_neword() and its like: the attempts and what they count. *)

Change(k, delta) == [kind |-> k, delta |-> delta]

(* t goes on to make the changes, then to label next. *)
WillCount(t, changes) == ops' = [ops EXCEPT ![t] = changes]

(* do_neword() and its like return to driver(). *)
Returns(t, from) ==
    /\ Goes(t, from, "loop")
    /\ ty' = [ty EXCEPT ![t] = 0]

(* The attempt returns 1: success or late if counting_on. *)
AttemptSucceeds(t) ==
    /\ tries' = [tries EXCEPT ![t] = 0]
    /\ IF counting_on
       THEN /\ Goes(t, "attempt", "count") /\ UNCHANGED ty
            /\ \E k \in {"success", "late"} : WillCount(t, <<Change(k, 1)>>)
       ELSE Returns(t, "attempt") /\ UNCHANGED ops
    /\ UNCHANGED <<control, deck, rate, counts, cur, reg, drawn>>

(* The attempt returns 0: a retry if counting_on. *)
AttemptFails(t) ==
    /\ tries' = [tries EXCEPT ![t] = @ + 1]
    /\ IF counting_on
       THEN Goes(t, "attempt", "count") /\ WillCount(t, <<Change("retry", 1)>>)
       ELSE Goes(t, "attempt", "again") /\ UNCHANGED ops
    /\ UNCHANGED <<control, deck, rate, counts, ty, cur, reg, drawn>>

(* for (i = 0; i < MAX_RETRY; i++) *)
TryAgain(t) ==
    /\ tries[t] < MaxRetry
    /\ Goes(t, "again", "attempt")
    /\ UNCHANGED <<control, deck, rate, counts, worker>>

(* Mutant of GiveUp: it counts whether counting_on or not. *)
GiveUpCounting(t) ==
    /\ tries[t] >= MaxRetry
    /\ Goes(t, "again", "count")
    /\ WillCount(t, <<Change("retry", -1), Change("failure", 1)>>)
    /\ tries' = [tries EXCEPT ![t] = 0]
    /\ UNCHANGED <<control, deck, rate, counts, ty, cur, reg, drawn>>

(* The last attempt has failed: it is a failure, not a retry. *)
GiveUp(t) ==
    /\ tries[t] >= MaxRetry
    /\ IF counting_on
       THEN /\ Goes(t, "again", "count") /\ UNCHANGED ty
            /\ WillCount(t, <<Change("retry", -1), Change("failure", 1)>>)
       ELSE Returns(t, "again") /\ UNCHANGED ops
    /\ tries' = [tries EXCEPT ![t] = 0]
    /\ UNCHANGED <<control, deck, rate, counts, cur, reg, drawn>>

(* success[0]++ and its like: the read ... *)
CountRead(t) ==
    /\ Goes(t, "count", "counted")
    /\ reg' = [reg EXCEPT ![t] = count[Head(ops[t]).kind][ty[t]]]
    /\ UNCHANGED <<control, deck, rate, counts, ty, tries, cur, ops, drawn>>

(* ... and the write. *)
CountWrite(t) ==
    /\ Goes(t, "counted", "slot")
    /\ count' = [count EXCEPT ![Head(ops[t]).kind][ty[t]] = reg[t] + Head(ops[t]).delta]
    /\ reg' = [reg EXCEPT ![t] = 0]
    /\ UNCHANGED <<control, deck, rate, count2, ty, tries, cur, ops, drawn>>

(* What is counted next, in the order of do_neword(). *)
CountsOn(t) ==
    LET more == Tail(ops[t]) IN
    /\ pc[t] = "slot"
    /\ \/ more # <<>> /\ Goes(t, "slot", "count") /\ UNCHANGED ty
       \/ more = <<>> /\ Head(ops[t]).kind = "retry" /\ Goes(t, "slot", "again") /\ UNCHANGED ty
       \/ more = <<>> /\ Head(ops[t]).kind # "retry" /\ Returns(t, "slot")
    /\ ops' = [ops EXCEPT ![t] = more]
    /\ UNCHANGED <<control, deck, rate, count, tries, cur, reg, drawn>>

(* Mutant of CountSlot: failure2 is forgotten. *)
CountSlotNoFailure2(t) ==
    /\ CountsOn(t)
    /\ count2' = IF Head(ops[t]).kind = "failure" THEN count2
                 ELSE [count2 EXCEPT ![Head(ops[t]).kind][ty[t]][t] = @ + Head(ops[t]).delta]

(* success2[0][t_num]++ and its like: nobody but t writes that slot. *)
CountSlot(t) ==
    /\ CountsOn(t)
    /\ count2' = [count2 EXCEPT ![Head(ops[t]).kind][ty[t]][t] = @ + Head(ops[t]).delta]

----------------------------------------------------------------------------
(* main() and the timer. *)

workers == <<deck, rate, counts, pc, worker>>

(* sleep(lampup_time); setitimer(); counting_on = 1: the timer is nothing to *)
(* the workers.                                                             *)
StartCounting ==
    /\ main = "rampup" /\ main' = "measure"
    /\ timer' = TRUE /\ counting_on' = TRUE
    /\ UNCHANGED <<pauses, activate_transaction, workers>>

(* for(i = 0; i < (measure_time / PRINT_INTERVAL); i++ ) pause() *)
Pause ==
    /\ main = "measure" /\ pauses < Pauses /\ main' = "pause"
    /\ UNCHANGED <<pauses, timer, counting_on, activate_transaction, workers>>

(* SIGALRM ends the pause.  One that comes at another moment is handled and *)
(* ends none: the measurement takes an interval longer.                     *)
Alarm ==
    /\ timer
    /\ main = "pause" /\ main' = "measure"
    /\ pauses' = pauses + 1
    /\ UNCHANGED <<timer, counting_on, activate_transaction, workers>>

StopCounting ==
    /\ main = "measure" /\ pauses >= Pauses /\ main' = "stop"
    /\ counting_on' = FALSE /\ timer' = FALSE
    /\ UNCHANGED <<pauses, activate_transaction, workers>>

StopThreads ==
    /\ main = "stop" /\ main' = "join"
    /\ activate_transaction' = FALSE
    /\ UNCHANGED <<pauses, timer, counting_on, workers>>

(* Mutant of Join: it does not wait for the last thread. *)
JoinAllButOne ==
    /\ main = "join" /\ main' = "report"
    /\ \A t \in Threads \ {NumConn - 1} : pc[t] = "ended"
    /\ UNCHANGED <<pauses, timer, counting_on, activate_transaction, workers>>

Join ==
    /\ main = "join" /\ main' = "report"
    /\ \A t \in Threads : pc[t] = "ended"
    /\ UNCHANGED <<pauses, timer, counting_on, activate_transaction, workers>>

(* The results are printed. *)
Report ==
    /\ main = "report" /\ main' = "exited"
    /\ UNCHANGED <<pauses, timer, counting_on, activate_transaction, workers>>

Main ==
    \/ StartCounting \/ Pause \/ StopCounting \/ StopThreads \/ Join \/ Report

(* A second passes. *)
Tick ==
    /\ age < MaxAge /\ age' = age + 1
    /\ UNCHANGED <<control, deck, rate_last_transactions, now, counts, pc, worker>>

----------------------------------------------------------------------------
Worker(t) ==
    \/ LoopAgain(t) \/ NewInterval(t) \/ LoopEnds(t)
    \/ ReadClock(t) \/ ReadCurrent(t) \/ ReadInterval(t) \/ Tarpit(t)
    \/ Lock(t) \/ OutOfDraws(t) \/ Draw(t)
    \/ AttemptSucceeds(t) \/ AttemptFails(t) \/ TryAgain(t) \/ GiveUp(t)
    \/ CountRead(t) \/ CountWrite(t) \/ CountSlot(t)

Terminating == main = "exited" /\ UNCHANGED vars

(* exit() ends what is left of the workers. *)
Runs(t) == main # "exited" /\ Worker(t)

Next ==
    \/ \E t \in Threads : Runs(t)
    \/ Main \/ Alarm \/ Tick
    \/ Terminating

Spec == Init /\ [][Next]_vars

(* Threads that can run do; time passes; the timer keeps expiring.         *)
FairSpec ==
    /\ Spec
    /\ \A t \in Threads : WF_vars(Runs(t))
    /\ WF_vars(Main \/ Alarm) /\ WF_vars(Tick)

----------------------------------------------------------------------------
(* Properties. *)

WorkerLabels == {"loop", "interval", "check", "clock", "current", "compare", "lock", "draw",
                 "attempt", "again", "count", "counted", "slot", "ended"}

(* A worker's counter changes are those of its attempt, and the deck is    *)
(* read inside its bounds: by the holder of the mutex, after it has been   *)
(* shuffled if it was used up.                                             *)
TypeOK ==
    /\ pauses \in 0 .. Pauses
    /\ seq \in Shuffled /\ next_num \in 0 .. Total /\ mutex \in Threads \cup {None}
    /\ age \in 0 .. MaxAge /\ rate_last_transactions \in Nat
    /\ \A t \in Threads :
         /\ pc[t] \in WorkerLabels /\ ty[t] \in Types
         /\ tries[t] \in 0 .. MaxRetry
         /\ pc[t] = "draw" <=> mutex = t
         /\ pc[t] = "draw" => next_num < Total
         /\ pc[t] \in {"count", "counted", "slot"} <=> ops[t] # <<>>

(* Whoever draws, the transactions come in the ratio of the deck ("normal  *)
(* ratio", main.c): every Total draws hold each transaction Weight times   *)
(* (sequence.c).                                                           *)
DeckDealtEvenly ==
    LET full == AllDrawn \div Total IN
    \A y \in Types : DrawnOf(y) \in full * Weight(y) .. (full + 1) * Weight(y)

Sum2(k, y) == SumFunction(count2[k][y])

(* The workers that have written success[] and its like, and not yet their *)
(* slot of success2[].                                                     *)
Owing(k, y) == {t \in Threads : pc[t] = "slot" /\ Head(ops[t]).kind = k /\ ty[t] = y}

(* Threads that change success[], late[] or failure[] at once may lose     *)
(* increments, but never make up any: they exceed the sums of success2[]   *)
(* and its like at most by the workers that are between the two; and when  *)
(* they are printed there is none, so that the "Raw Results" do not exceed *)
(* the "sum ver." below them.                                              *)
SharedNotAboveSum ==
    \A k \in Kinds \ {"retry"}, y \in Types :
        /\ count[k][y] \in 0 .. Sum2(k, y) + Cardinality(Owing(k, y))
        /\ main \in {"report", "exited"} => Owing(k, y) = {}

(* A transaction given up takes back the retry of its last attempt.  The   *)
(* attempt may have failed before counting_on was set, but for one         *)
(* transaction of each worker at most.                                     *)
RetriesTakenBackOnce ==
    \A t \in Threads :
        SumFunction([y \in Types |-> count2["retry"][y][t]]) >= -1

(* The results are printed when no worker can change them any more.        *)
ReportIsFinal == [][main \notin {"report", "exited"}]_counts

(* The run ends: a worker in the rate limiter's pause does not look at     *)
(* activate_transaction, but its rate falls while it waits.                *)
RunEnds == <>(main = "exited")
=============================================================================
