---------------------------- MODULE SysbenchRun ----------------------------
(***************************************************************************)
(* A run of sysbench 0.5, rate limited, with a Lua script as its test      *)
(* (sysbench.c, db_driver.c, script_lua.c): the main thread, the runner    *)
(* threads, the thread of intermediate reports, the thread of checkpoint   *)
(* reports, and SIGALRM.                                                   *)
(*                                                                         *)
(*   opt             the options, constant during a run                    *)
(*   main, created   what the main thread does next; runners it created    *)
(*   start_locked    main holds thread_start_mutex, the barrier            *)
(*   timer, secs     state of exec_timer and the two cumulative timers,    *)
(*                   which start and stop together; seconds, up to MaxSecs *)
(*   age             seconds since rate_last_seconds, up to MaxAge         *)
(*   error, silenced sb_globals.error; sb_globals.report_interval = 0      *)
(*   exec_mutex      who holds it, or Free or Destroyed                    *)
(*   tx              thread_stats[t].transactions                          *)
(*   asleep          threads that wait for a stat_mutex although it is free: *)
(*                   nobody woke them                                      *)
(*   last_transactions (db_driver.c)                                       *)
(*   rate_last_transactions (sysbench.c)                                   *)
(*   nevents         (script_lua.c)                                        *)
(*   pc, null, reg, now   of each runner: its statement, request.type is   *)
(*                   NULL, a counter or a sum it has read, and             *)
(*                   current_seconds, counted from rate_last_seconds       *)
(*   report, checkpoint   the two reporting threads                        *)
(*   given, late, faults  history: requests given out, requests a runner   *)
(*                   took after the error flag was up, failures so far     *)
(***************************************************************************)
EXTENDS Integers, Sequences, FiniteSets, Functions

CONSTANTS
    Options,        \* the options a run may be started with
    MaxThreads,     \* bound on --num-threads
    RateWindow,     \* the 10 seconds after which thread 0 counts anew
    MaxSecs,        \* bound on secs
    MaxAge,         \* bound on age
    MaxFaults,      \* bound on faults
    Free, Destroyed \* states of exec_mutex when nobody holds it

(* --num-threads, --max-requests, --max-time (0 for none), the seconds that *)
(* --forced-shutdown waits after it, --tx-rate, --report-interval (0 for   *)
(* none), and the list --report-checkpoints, sorted.  init() sets          *)
(* force_shutdown only if there is a max_time (sysbench.c:863-884).        *)
OptionsType ==
    [num_threads : 1 .. MaxThreads, max_requests : Nat, max_time : Nat, force_shutdown : BOOLEAN, timeout : Nat,
     tx_rate : Nat, report_interval : Nat, checkpoints : Seq(Nat)]

Threads == 0 .. MaxThreads - 1

(* The threads that are not runners. *)
Reporter     == -1
Checkpointer == -2
MainThread   == -3

ASSUME RunAssumption ==
    /\ MaxThreads \in Nat \ {0}
    /\ Options \subseteq OptionsType
    /\ \A o \in Options : o.force_shutdown => o.max_time > 0
    /\ RateWindow \in Nat
    /\ MaxSecs \in Nat /\ MaxAge \in Nat /\ MaxAge > RateWindow /\ MaxFaults \in Nat
    /\ Free # Destroyed /\ "checkpoint" \notin {Free, Destroyed}

VARIABLES opt, main, created, start_locked, timer, secs, age, error, silenced,
          exec_mutex, tx, asleep, last_transactions, rate_last_transactions, nevents, pc, null, reg, now,
          report, checkpoint, given, late, faults

control == <<main, created, start_locked, silenced>>
clock   == <<timer, secs, age>>
stats   == <<tx, asleep, last_transactions>>
runner  == <<nevents, null, reg, now, rate_last_transactions>>
others  == <<report, checkpoint>>
history == <<given, late, faults>>
vars    == <<control, opt, clock, error, exec_mutex, stats, runner, pc, others, history>>

NumThreads     == opt.num_threads
MaxRequests    == opt.max_requests
MaxTime        == opt.max_time
TxRate         == opt.tx_rate
ReportInterval == opt.report_interval
Checkpoints    == opt.checkpoints

Init ==
    /\ opt \in Options
    /\ main = "create" /\ created = 0 /\ start_locked = TRUE
    /\ timer = "initialized" /\ secs = 0 /\ age = 0
    /\ error = FALSE /\ silenced = FALSE
    /\ exec_mutex = Free
    /\ tx = [t \in Threads |-> 0] /\ asleep = {} /\ last_transactions = 0
    /\ rate_last_transactions = 0
    /\ nevents = 0
    /\ pc = [t \in Threads |-> "none"]
    /\ null = [t \in Threads |-> FALSE]
    /\ reg = [t \in Threads |-> 0]
    /\ now = [t \in Threads |-> 0]
    /\ report = [pc |-> IF ReportInterval > 0 THEN "new" ELSE "ended",
                 interval |-> 0, prev |-> 0, wake |-> 0, sum |-> 0, cancelled |-> FALSE]
    /\ checkpoint = [pc |-> IF Checkpoints # <<>> THEN "barrier" ELSE "ended",
                     i |-> 1, cancelled |-> FALSE]
    /\ given = 0 /\ late = [t \in Threads |-> 0] /\ faults = 0

----------------------------------------------------------------------------
(* Counters of db_driver.c. *)

(* The sum over thread_stats[].transactions.  The counters are read one by *)
(* one; as they grow by ones, what is read is their sum at some moment in  *)
(* between, and that is when this step is taken.                           *)
Total == SumFunction(tx)

(* Who locks a stat_mutex: the threads that sum, one after the other, and  *)
(* the runners, their own for each statement of event() they count.        *)
Summing ==
    {t \in Threads : pc[t] \in {"newtps", "tps"}}
      \cup {x \in {Reporter} : report.pc = "sum"}
      \cup {x \in {Checkpointer} : checkpoint.pc = "print"}
      \cup {x \in {MainThread} : main \in {"final", "handler"}}

Counting == {t \in Threads : pc[t] \in {"event", "count1", "count2"}}

(* When me wipes the locks with their holders' and waiters' marks, S sleeps *)
(* on: the holders find no mark of a waiter when they unlock.              *)
Forgets(me, S) ==
    LET holders == (Summing \cup Counting) \ (asleep \cup S \cup {me}) IN
    /\ S \subseteq Summing \cup {t \in Counting : pc[t] # "count2"}
    /\ me \notin S
    /\ \A x \in S : \E h \in holders : x \in Summing \/ h \in Summing

Wipe(me) ==
    \E S \in SUBSET (Summing \cup Counting) : Forgets(me, S) /\ asleep' = asleep \cup S

(* Mutant of ResetCounters: what the last report counted is subtracted. *)
ResetByReport(me) == Wipe(me) /\ tx' = [t \in Threads |-> tx[t] - last_transactions]

(* memset() of thread_stats, the counters and the stat_mutex of each        *)
(* runner; it takes none of the locks.                                     *)
ResetCounters(me) == Wipe(me) /\ tx' = [t \in Threads |-> 0]

(* A later holder of the lock that has another waiter wakes the sleeper.   *)
Woken ==
    /\ main # "exited"
    /\ \E x \in asleep : asleep' = asleep \ {x}
    /\ UNCHANGED <<control, opt, clock, error, exec_mutex, tx, last_transactions, runner, pc,
                   others, history>>

----------------------------------------------------------------------------
(* runner_thread() *)

Goes(t, from, to) ==
    main # "exited" /\ pc[t] = from /\ pc' = [pc EXCEPT ![t] = to]

(* thread_init(): connects to the database. *)
ThreadInit(t) ==
    /\ \/ Goes(t, "init", "barrier") /\ UNCHANGED <<error, faults>>
       \/ /\ faults < MaxFaults /\ faults' = faults + 1
          /\ Goes(t, "init", "ended") /\ error' = TRUE
    /\ UNCHANGED <<control, opt, clock, exec_mutex, stats, runner, others,
                   given, late>>

(* Locks and unlocks thread_start_mutex, which main holds until the start. *)
PassBarrier(t) ==
    /\ ~start_locked
    /\ Goes(t, "barrier", "get")
    /\ UNCHANGED <<control, opt, clock, error, exec_mutex, stats, runner,
                   others, history>>

(* Mutant of GetRequest: one request too few. *)
GetRequestShort(t) ==
    /\ IF MaxRequests # 0 /\ nevents + 1 >= MaxRequests
       THEN Goes(t, "get", "limit") /\ null' = [null EXCEPT ![t] = TRUE]
       ELSE Goes(t, "get", "take") /\ UNCHANGED null
    /\ UNCHANGED <<control, opt, clock, error, exec_mutex, stats, nevents, reg, now,
                   rate_last_transactions, others, history>>

(* sb_lua_get_request(): nevents is read, without a lock, ... *)
GetRequest(t) ==
    /\ IF MaxRequests # 0 /\ nevents >= MaxRequests
       THEN Goes(t, "get", "limit") /\ null' = [null EXCEPT ![t] = TRUE]
       ELSE Goes(t, "get", "take") /\ UNCHANGED null
    /\ UNCHANGED <<control, opt, clock, error, exec_mutex, stats, nevents, reg,
                   now, rate_last_transactions, others, history>>

(* ... and nevents++ reads it again ... *)
TakeRequest(t) ==
    /\ Goes(t, "take", "taken")
    /\ reg' = [reg EXCEPT ![t] = nevents]
    /\ UNCHANGED <<control, opt, clock, error, exec_mutex, stats, nevents, null,
                   now, rate_last_transactions, others, history>>

(* ... and writes it. *)
TakenRequest(t) ==
    /\ Goes(t, "taken", "event")
    /\ nevents' = reg[t] + 1
    /\ reg' = [reg EXCEPT ![t] = 0]
    /\ given' = given + 1
    /\ late' = [late EXCEPT ![t] = @ + IF error THEN 1 ELSE 0]
    /\ UNCHANGED <<control, opt, clock, error, exec_mutex, stats, null, now,
                   rate_last_transactions, others, faults>>

(* sb_lua_op_execute_request(): the script's event() commits, is restarted *)
(* after a deadlock, or fails, which ends this thread and sets the flag.   *)
Event(t) ==
    /\ \/ Goes(t, "event", "count1") /\ UNCHANGED <<error, faults>>
       \/ /\ faults < MaxFaults /\ faults' = faults + 1
          /\ \/ Goes(t, "event", "event") /\ UNCHANGED error
             \/ Goes(t, "event", "done") /\ error' = TRUE
    /\ UNCHANGED <<control, opt, clock, exec_mutex, stats, runner, others,
                   given, late>>

(* db_update_thread_stats() for the COMMIT: the lock, the read, ... *)
CountRead(t) ==
    /\ Goes(t, "count1", "count2")
    /\ reg' = [reg EXCEPT ![t] = tx[t]]
    /\ UNCHANGED <<control, opt, clock, error, exec_mutex, stats, nevents, null,
                   now, rate_last_transactions, others, history>>

(* ... the write, the unlock. *)
CountWrite(t) ==
    /\ Goes(t, "count2", "limit")
    /\ tx' = [tx EXCEPT ![t] = reg[t] + 1]
    /\ reg' = [reg EXCEPT ![t] = 0]
    /\ UNCHANGED <<control, opt, clock, error, exec_mutex, asleep, last_transactions,
                   nevents, null, now, rate_last_transactions, others, history>>

(* --max-time *)
OverTime(t) ==
    /\ MaxTime # 0 /\ secs >= MaxTime
    /\ Goes(t, "limit", "done")
    /\ UNCHANGED <<control, opt, clock, error, exec_mutex, stats, runner, others, history>>

(* Thread 0 starts a new interval when the old one is over: its time ...   *)
CheckInterval(t) ==
    /\ ~(MaxTime # 0 /\ secs >= MaxTime)
    /\ IF t = 0 /\ age > RateWindow
       THEN /\ Goes(t, "limit", "newtps")
            /\ age' = 0
            /\ now' = [u \in Threads |-> IF pc[u] = "compare" THEN now[u] ELSE now[u] - age]
       ELSE Goes(t, "limit", "rate") /\ UNCHANGED <<age, now>>
    /\ UNCHANGED <<control, opt, timer, secs, error, exec_mutex, stats, nevents, null, reg,
                   rate_last_transactions, others, history>>

(* ... get_tps(), the sum of the counters, ... *)
SumInterval(t) ==
    /\ Goes(t, "newtps", "newbase")
    /\ reg' = [reg EXCEPT ![t] = Total]
    /\ UNCHANGED <<control, opt, clock, error, exec_mutex, stats, nevents, null,
                   now, rate_last_transactions, others, history>>

(* ... and its count. *)
NewInterval(t) ==
    /\ Goes(t, "newbase", "rate")
    /\ rate_last_transactions' = reg[t]
    /\ reg' = [reg EXCEPT ![t] = 0]
    /\ UNCHANGED <<control, opt, clock, error, exec_mutex, stats, nevents, null,
                   now, others, history>>

ReadClock(t) ==
    /\ Goes(t, "rate", "tps")
    /\ now' = [now EXCEPT ![t] = age]
    /\ UNCHANGED <<control, opt, clock, error, exec_mutex, stats, nevents, null,
                   reg, rate_last_transactions, others, history>>

(* Doubles: x / d > TxRate, where d may be 0 (infinity, or a NaN for 0 / 0) *)
(* or, if thread 0 has just started an interval, negative.                 *)
Exceeds(x, d) == IF d >= 0 THEN x > TxRate * d ELSE x < TxRate * d

(* get_tps() *)
SumCounters(t) ==
    /\ Goes(t, "tps", "since")
    /\ reg' = [reg EXCEPT ![t] = Total]
    /\ UNCHANGED <<control, opt, clock, error, exec_mutex, stats, nevents, null,
                   now, rate_last_transactions, others, history>>

(* rate_last_seconds is read: now[t] no longer depends on it. *)
ReadInterval(t) ==
    /\ Goes(t, "since", "compare")
    /\ UNCHANGED <<control, opt, clock, error, exec_mutex, stats, runner, others, history>>

(* Mutant of TooFast: each thread holds its own counter to the rate of all. *)
TooFastOwn(t) == Exceeds(tx[t] - rate_last_transactions, now[t])

(* rate_last_transactions is read last; read first, it is what it still is  *)
(* in a state in which rate_last_seconds is already new.                   *)
TooFast(t) == Exceeds(reg[t] - rate_last_transactions, now[t])

(* Mutant of LoopAgain: the flag is not looked at. *)
LoopAgainOnError(t) == IF null[t] THEN "done" ELSE "get"

(* What the loop goes on to: it ends at a NULL request or on an error. *)
LoopAgain(t) == IF null[t] \/ error THEN "done" ELSE "get"

(* The rate so far; above the target the thread pauses and looks again,    *)
(* whatever else has happened.                                             *)
CompareRate(t) ==
    /\ Goes(t, "compare", IF TooFast(t) THEN "tarpit" ELSE LoopAgain(t))
    /\ now' = IF TooFast(t) THEN now ELSE [now EXCEPT ![t] = 0]
    /\ reg' = [reg EXCEPT ![t] = 0]
    /\ UNCHANGED <<control, opt, clock, error, exec_mutex, stats, nevents, null,
                   rate_last_transactions, others, history>>

(* Mutant of Tarpit: the loop does not ask for the time again. *)
TarpitStale(t) ==
    /\ Goes(t, "tarpit", "tps")
    /\ UNCHANGED <<control, opt, clock, error, exec_mutex, stats, runner, others, history>>

(* usleep(100000) *)
Tarpit(t) ==
    /\ Goes(t, "tarpit", "rate")
    /\ UNCHANGED <<control, opt, clock, error, exec_mutex, stats, runner,
                   others, history>>

(* thread_done(), and num_running-- under thread_start_mutex. *)
RunnerEnds(t) ==
    /\ ~start_locked
    /\ Goes(t, "done", "ended")
    /\ UNCHANGED <<control, opt, clock, error, exec_mutex, stats, runner,
                   others, history>>

Runner(t) ==
    /\ t \notin asleep
    /\ \/ ThreadInit(t) \/ PassBarrier(t) \/ GetRequest(t) \/ TakeRequest(t) \/ TakenRequest(t)
       \/ Event(t) \/ CountRead(t) \/ CountWrite(t) \/ OverTime(t) \/ CheckInterval(t)
       \/ SumInterval(t) \/ NewInterval(t) \/ ReadClock(t) \/ SumCounters(t) \/ ReadInterval(t)
       \/ CompareRate(t) \/ Tarpit(t) \/ RunnerEnds(t)

----------------------------------------------------------------------------
(* report_thread_proc() *)

ReportGoes(from, to) ==
    main # "exited" /\ report.pc = from /\ report' = [report EXCEPT !.pc = to]

ReportUnchanged ==
    UNCHANGED <<control, opt, clock, error, runner, pc, checkpoint, history, tx, asleep>>

(* interval_ns is read when the thread gets to run. *)
ReportStarts ==
    /\ main # "exited" /\ report.pc = "new"
    /\ report' = [report EXCEPT !.pc = "barrier",
                                !.interval = IF silenced THEN 0 ELSE ReportInterval]
    /\ ReportUnchanged /\ UNCHANGED <<exec_mutex, last_transactions>>

ReportPassesBarrier ==
    /\ main # "exited" /\ report.pc = "barrier" /\ ~start_locked
    /\ report' = [report EXCEPT !.pc = "sleep", !.prev = secs + report.interval,
                                !.wake = secs + report.interval]
    /\ ReportUnchanged /\ UNCHANGED <<exec_mutex, last_transactions>>

(* usleep(); when the timers are stopped the model no longer tells time,   *)
(* and only the sleep the thread is in then may end (a bound).             *)
(* A report is printed unless main has set report_interval to 0.           *)
ReportWakes ==
    /\ secs >= report.wake \/ (timer = "stopped" /\ report.wake <= secs + report.interval)
    /\ ~report.cancelled
    /\ ReportGoes("sleep", IF silenced THEN "time" ELSE "sum")
    /\ ReportUnchanged /\ UNCHANGED <<exec_mutex, last_transactions>>

(* db_print_stats(SB_STAT_INTERMEDIATE): the sums, what it prints, ... *)
ReportSums ==
    /\ main # "exited" /\ report.pc = "sum"
    /\ report' = [report EXCEPT !.pc = "print", !.sum = Total]
    /\ ReportUnchanged /\ UNCHANGED <<exec_mutex, last_transactions>>

ReportPrints ==
    /\ ~report.cancelled
    /\ ReportGoes("print", "store")
    /\ ReportUnchanged /\ UNCHANGED <<exec_mutex, last_transactions>>

(* ... and, under exec_mutex (a lock that was destroyed does not lock),    *)
(* last_transactions = transactions.                                       *)
ReportStores ==
    /\ exec_mutex \in {Free, Destroyed}
    /\ main # "exited" /\ report.pc = "store"
    /\ report' = [report EXCEPT !.pc = "time", !.sum = 0]
    /\ last_transactions' = report.sum
    /\ ReportUnchanged /\ UNCHANGED exec_mutex

(* The next multiple of the interval; with an interval of 0, which it can  *)
(* only have read after the end of the test, the loop never ends.          *)
ReportTimes ==
    /\ main # "exited" /\ report.pc = "time"
    /\ IF report.interval = 0
       THEN report' = [report EXCEPT !.pc = "spin"]
       ELSE LET next == IF secs < report.prev + report.interval
                        THEN report.prev + report.interval
                        ELSE secs + report.interval - ((secs - report.prev) % report.interval)
            IN report' = [report EXCEPT !.pc = "sleep", !.prev = next, !.wake = next]
    /\ ReportUnchanged /\ UNCHANGED <<exec_mutex, last_transactions>>

(* pthread_cancel() takes effect in usleep() or while it prints. *)
ReportCancelled ==
    /\ report.cancelled /\ report.pc \in {"sleep", "print"}
    /\ ReportGoes(report.pc, "ended")
    /\ ReportUnchanged /\ UNCHANGED <<exec_mutex, last_transactions>>

(* The loop at the end of ReportTimes, which has no cancellation point. *)
ReportSpins == report.pc = "spin" /\ main # "exited" /\ UNCHANGED vars

Report ==
    /\ Reporter \notin asleep
    /\ \/ ReportStarts \/ ReportPassesBarrier \/ ReportWakes \/ ReportSums \/ ReportPrints
       \/ ReportStores \/ ReportTimes \/ ReportSpins \/ ReportCancelled

----------------------------------------------------------------------------
(* checkpoints_thread_proc() *)

CheckpointGoes(from, to) ==
    main # "exited" /\ checkpoint.pc = from /\ checkpoint' = [checkpoint EXCEPT !.pc = to]

CheckpointUnchanged ==
    UNCHANGED <<control, opt, clock, error, runner, pc, report, history>>

CheckpointPassesBarrier ==
    /\ ~start_locked
    /\ CheckpointGoes("barrier", "next")
    /\ CheckpointUnchanged /\ UNCHANGED <<exec_mutex, stats>>

(* The next checkpoint that is not over already. *)
CheckpointNext ==
    /\ main # "exited" /\ checkpoint.pc = "next"
    /\ LET i == checkpoint.i IN
       checkpoint' = CASE i > Len(Checkpoints)  -> [checkpoint EXCEPT !.pc = "ended"]
                       [] i <= Len(Checkpoints) ->
                            IF Checkpoints[i] <= secs THEN [checkpoint EXCEPT !.i = i + 1]
                            ELSE [checkpoint EXCEPT !.pc = "sleep"]
    /\ CheckpointUnchanged /\ UNCHANGED <<exec_mutex, stats>>

CheckpointWakes ==
    /\ CheckpointGoes("sleep", "lock")
    /\ secs >= Checkpoints[checkpoint.i] \/ timer = "stopped"
    /\ ~checkpoint.cancelled
    /\ CheckpointUnchanged /\ UNCHANGED <<exec_mutex, stats>>

(* SB_THREAD_MUTEX_LOCK() *)
CheckpointLocks ==
    /\ exec_mutex \in {Free, Destroyed}
    /\ CheckpointGoes("lock", "print")
    /\ exec_mutex' = IF exec_mutex = Free THEN "checkpoint" ELSE exec_mutex
    /\ CheckpointUnchanged /\ UNCHANGED <<stats>>

(* db_print_stats(SB_STAT_CUMULATIVE): what it prints, ... *)
CheckpointPrints ==
    /\ ~checkpoint.cancelled
    /\ CheckpointGoes("print", "reset1")
    /\ CheckpointUnchanged /\ UNCHANGED <<exec_mutex, stats>>

(* ... and db_reset_stats(), in two steps. *)
CheckpointResets ==
    /\ \/ /\ CheckpointGoes("reset1", "reset2")
          /\ ResetCounters(Checkpointer) /\ UNCHANGED last_transactions
       \/ /\ CheckpointGoes("reset2", "unlock")
          /\ last_transactions' = 0 /\ UNCHANGED <<tx, asleep>>
    /\ CheckpointUnchanged /\ UNCHANGED <<exec_mutex>>

(* print_global_stats() and SB_THREAD_MUTEX_UNLOCK() *)
CheckpointUnlocks ==
    /\ ~checkpoint.cancelled
    /\ main # "exited" /\ checkpoint.pc = "unlock"
    /\ checkpoint' = [checkpoint EXCEPT !.pc = "next", !.i = @ + 1]
    /\ exec_mutex' = IF exec_mutex = "checkpoint" THEN Free ELSE exec_mutex
    /\ CheckpointUnchanged /\ UNCHANGED <<stats>>

(* Cancelled while it prints, it leaves exec_mutex locked. *)
CheckpointCancelled ==
    /\ checkpoint.cancelled /\ checkpoint.pc \in {"sleep", "print", "unlock"}
    /\ CheckpointGoes(checkpoint.pc, "ended")
    /\ CheckpointUnchanged /\ UNCHANGED <<exec_mutex, stats>>

Checkpoint ==
    /\ Checkpointer \notin asleep
    /\ \/ CheckpointPassesBarrier \/ CheckpointNext \/ CheckpointWakes \/ CheckpointLocks
       \/ CheckpointPrints \/ CheckpointResets \/ CheckpointUnlocks
       \/ CheckpointCancelled

----------------------------------------------------------------------------
(* run_test() *)

MainGoes(from, to) == main = from /\ main' = to

(* The loop that creates the runners; an error it sees, or a failing       *)
(* pthread_create(), ends the process.                                     *)
CreateThread ==
    /\ created < NumThreads
    /\ \/ MainGoes("create", "create") /\ ~error
          /\ Goes(created, "none", "init") /\ created' = created + 1
          /\ UNCHANGED faults
       \/ MainGoes("create", "exited") /\ error
          /\ UNCHANGED <<created, pc, faults>>
       \/ MainGoes("create", "exited") /\ ~error
          /\ faults < MaxFaults /\ faults' = faults + 1
          /\ UNCHANGED <<created, pc>>
    /\ UNCHANGED <<start_locked, silenced, opt, clock, error, exec_mutex, stats,
                   runner, others, given, late>>

(* Mutant of StartTimers: the barrier is opened and no timer started. *)
StartTimersLate ==
    /\ created = NumThreads
    /\ MainGoes("create", "start")
    /\ start_locked' = FALSE
    /\ UNCHANGED <<created, silenced, opt, clock, error, exec_mutex, stats,
                   runner, pc, others, history>>

(* The three timers are started (and the alarm set), ... *)
StartTimers ==
    /\ created = NumThreads
    /\ MainGoes("create", "start")
    /\ timer' = "running"
    /\ UNCHANGED <<created, start_locked, silenced, opt, secs, age, error, exec_mutex,
                   stats, runner, pc, others, history>>

(* ... and the barrier is opened. *)
OpenBarrier ==
    /\ MainGoes("start", "join")
    /\ start_locked' = FALSE
    /\ UNCHANGED <<created, silenced, opt, clock, error, exec_mutex, stats,
                   runner, pc, others, history>>

(* The runners are joined, the timers stopped. *)
JoinRunners ==
    /\ \A t \in 0 .. NumThreads - 1 : pc[t] = "ended"
    /\ MainGoes("join", "silence")
    /\ timer' = "stopped"
    /\ UNCHANGED <<created, start_locked, silenced, opt, secs, age, error, exec_mutex,
                   stats, runner, pc, others, history>>

(* report_interval = 0; alarm(0) *)
SilenceReports ==
    /\ MainGoes("silence", "final")
    /\ silenced' = TRUE
    /\ UNCHANGED <<created, start_locked, opt, clock, error, exec_mutex, stats,
                   runner, pc, others, history>>

(* The statistics of the test, unless there was an error: printed, reset. *)
FinalStats ==
    /\ \/ MainGoes("final", "destroy") /\ error /\ UNCHANGED stats
       \/ /\ MainGoes("final", "zero") /\ ~error
          /\ ResetCounters(MainThread) /\ UNCHANGED last_transactions
       \/ MainGoes("zero", "destroy") /\ last_transactions' = 0 /\ UNCHANGED <<tx, asleep>>
    /\ UNCHANGED <<created, start_locked, silenced, opt, clock, error, exec_mutex,
                   runner, pc, others, history>>

(* pthread_mutex_destroy() fails, unnoticed, on a mutex somebody holds. *)
DestroyMutexes ==
    /\ MainGoes("destroy", "cancel1")
    /\ exec_mutex' = IF exec_mutex = Free THEN Destroyed ELSE exec_mutex
    /\ UNCHANGED <<created, start_locked, silenced, opt, clock, error, stats,
                   runner, pc, others, history>>

(* The report thread is cancelled and joined, ... *)
CancelReport ==
    /\ MainGoes("cancel1", "join1")
    /\ report' = [report EXCEPT !.cancelled = TRUE]
    /\ UNCHANGED <<created, start_locked, silenced, opt, clock, error, exec_mutex,
                   stats, runner, pc, checkpoint, history>>

(* ... and then the checkpoints thread. *)
CancelCheckpoint ==
    /\ report.pc = "ended"
    /\ MainGoes("join1", "join2")
    /\ checkpoint' = [checkpoint EXCEPT !.cancelled = TRUE]
    /\ UNCHANGED <<created, start_locked, silenced, opt, clock, error, exec_mutex,
                   stats, runner, pc, report, history>>

JoinCheckpoint ==
    /\ checkpoint.pc = "ended"
    /\ MainGoes("join2", "exited")
    /\ UNCHANGED <<created, start_locked, silenced, opt, clock, error, exec_mutex,
                   stats, runner, pc, others, history>>

(* sigalrm_handler(), in the main thread, until alarm(0): the timers are   *)
(* stopped, ...                                                            *)
Alarm ==
    /\ opt.force_shutdown /\ secs >= MaxTime + opt.timeout
    /\ main \in {"join", "silence"} /\ main' = "handler"
    /\ timer' = "stopped"
    /\ UNCHANGED <<created, start_locked, silenced, opt, secs, age, error, exec_mutex,
                   stats, runner, pc, others, history>>

(* ... the statistics printed and reset, and the process ends. *)
ForcedStats ==
    /\ MainGoes("handler", "exited")
    /\ UNCHANGED <<created, start_locked, silenced, opt, clock, error, exec_mutex,
                   stats, runner, pc, others, history>>

Main ==
    /\ MainThread \notin asleep
    /\ \/ CreateThread \/ StartTimers \/ OpenBarrier \/ JoinRunners \/ SilenceReports
       \/ FinalStats \/ DestroyMutexes \/ CancelReport \/ CancelCheckpoint \/ JoinCheckpoint
       \/ ForcedStats

(* A second passes. *)
Tick ==
    /\ timer = "running" /\ main # "exited"
    /\ secs < MaxSecs \/ age < MaxAge
    /\ secs' = IF secs < MaxSecs THEN secs + 1 ELSE secs
    /\ age' = IF age < MaxAge THEN age + 1 ELSE age
    /\ UNCHANGED <<control, opt, timer, error, exec_mutex, stats, runner, pc, others,
                   history>>

Exited == main = "exited" /\ UNCHANGED vars

Next ==
    \/ \E t \in Threads : Runner(t)
    \/ Report \/ Checkpoint \/ Main \/ Alarm \/ Tick \/ Woken \/ Exited

Spec == Init /\ [][Next]_vars

(* The threads are run, time passes, the alarm rings; nobody need ever      *)
(* contend for a lock again and wake a sleeper.                            *)
Fairness ==
    /\ \A t \in Threads : WF_vars(Runner(t))
    /\ WF_vars(Report) /\ WF_vars(Checkpoint) /\ WF_vars(Main)
    /\ WF_vars(Alarm) /\ WF_vars(Tick)

FairSpec == Spec /\ Fairness

----------------------------------------------------------------------------
(* Properties. *)

(* One type invariant, of every variable. *)
TypeOK ==
    /\ main \in {"create", "start", "join", "silence", "final", "zero", "destroy", "cancel1",
                  "join1", "join2", "handler", "exited"}
    /\ created \in 0 .. NumThreads
    /\ opt \in Options /\ start_locked \in BOOLEAN
    /\ timer \in {"initialized", "running", "stopped"} /\ secs \in Nat /\ age \in Nat
    /\ error \in BOOLEAN /\ silenced \in BOOLEAN
    /\ exec_mutex \in {Free, Destroyed, "checkpoint"}
    /\ tx \in [Threads -> Nat] /\ last_transactions \in Nat
    /\ asleep \subseteq Threads \cup {Reporter, Checkpointer, MainThread}
    /\ rate_last_transactions \in Nat
    /\ nevents \in Nat
    /\ pc \in [Threads -> {"none", "init", "barrier", "get", "take", "taken", "event",
                           "count1", "count2", "limit", "newtps", "newbase", "rate", "tps",
                           "since", "compare", "tarpit", "done", "ended"}]
    /\ null \in [Threads -> BOOLEAN]
    /\ reg \in [Threads -> Nat] /\ now \in [Threads -> Int]
    /\ report \in [pc : {"new", "barrier", "sleep", "sum", "print", "store", "time", "spin",
                         "ended"},
                   interval : Nat, prev : Nat, wake : Nat, sum : Nat, cancelled : BOOLEAN]
    /\ checkpoint \in [pc : {"barrier", "next", "sleep", "lock", "print", "reset1",
                             "reset2", "unlock", "ended"},
                       i : Nat, cancelled : BOOLEAN]
    /\ given \in Nat /\ late \in [Threads -> Nat] /\ faults \in Nat

(* No runner and no reporting thread gets past the barrier before all      *)
(* runners exist and the timers they ask for the time run (or ran):        *)
(* thread_start_mutex, sysbench.c:474-480, 596, 644.                       *)
BarrierHolds ==
    /\ \A t \in Threads : pc[t] \notin {"none", "init", "barrier", "ended"} =>
           created = NumThreads /\ timer # "initialized"
    /\ report.pc \notin {"new", "barrier", "ended"} => timer # "initialized"
    /\ checkpoint.pc \notin {"barrier", "ended"} => timer # "initialized"

(* nevents is changed without a lock, so a run may serve more than         *)
(* --max-requests; but no thread is told to stop before that many requests *)
(* were given out (script_lua.c:249-256).                                  *)
RequestsServed == \A t \in Threads : null[t] => given >= MaxRequests

(* After an error a runner takes at most the one request it was about to   *)
(* take: "global error - everyone exit" (sysbench.h:195, sysbench.c:562).  *)
ErrorStops == \A t \in Threads : late[t] <= 1

(* Without checkpoint reports: since thread 0 last began an interval, the  *)
(* transactions counted are at most what --tx-rate allows, and one for     *)
(* each thread, which may all pass the comparison before any counts        *)
(* (sysbench.c:519-544).                                                   *)
RateHeld ==
    Checkpoints = <<>> /\ pc[0] \notin {"newtps", "newbase"} =>
        Total - rate_last_transactions <= TxRate * age + NumThreads

(* What may keep a run from its end: a report thread that first runs after *)
(* the test and reads an interval of 0; a thread that sleeps on at a lock  *)
(* a checkpoint's memset() has wiped; and, with the default --tx-rate of 0 *)
(* and no forced shutdown, a runner in its pause.                          *)
Stuck ==
    \/ report.pc = "spin"
    \/ asleep # {}
    \/ /\ TxRate = 0 /\ ~opt.force_shutdown
       /\ \E t \in Threads : pc[t] \in {"rate", "tps", "since", "compare", "tarpit"}

(* Nothing else does: with a --tx-rate no runner stays in its pause, no    *)
(* thread waits for a mutex that a cancelled thread took along, whoever    *)
(* fails and whenever the alarm rings, and main joins all                  *)
(* (sysbench.c:534-544, 780-831).                                          *)
RunEnds == <>[](main = "exited" \/ Stuck)

(* "sb_globals.report_interval may be set to 0 by the master thread to     *)
(* silence report at the end of the test" (sysbench.c:605): then the       *)
(* report thread can be ended.                                             *)
SilencedReportEnds == silenced ~> report.pc = "ended"

(* "So that intermediate stats are calculated from the current moment      *)
(* rather than from the previous intermediate report" (db_driver.c:1021):  *)
(* while the test runs and no reset is under way, the transactions up to   *)
(* the last report are not more than there are.                            *)
IntermediateFromReset ==
    timer = "running" /\ checkpoint.pc # "reset2" => last_transactions <= Total
=============================================================================
