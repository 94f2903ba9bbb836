------------------------- MODULE SysbenchRun_proofs -------------------------
(***************************************************************************)
(* The types, the barrier, the request counter, the error flag and the     *)
(* rate of sysbench, for any options and any number of threads.            *)
(***************************************************************************)
EXTENDS SysbenchRun, SumLemmas

Points == {"none", "init", "barrier", "get", "take", "taken", "event", "count1", "count2",
           "limit", "newtps", "newbase", "rate", "tps", "since", "compare", "tarpit", "done",
           "ended"}

(* The types of what the three properties speak of. *)
Types ==
    /\ opt \in OptionsType
    /\ pc \in [Threads -> Points]
    /\ null \in [Threads -> BOOLEAN]
    /\ reg \in [Threads -> Nat] /\ tx \in [Threads -> Nat]
    /\ nevents \in Nat /\ given \in Nat
    /\ late \in [Threads -> Nat]
    /\ error \in BOOLEAN /\ start_locked \in BOOLEAN
    /\ "pc" \in DOMAIN report

BeforeBarrier == {"none", "init", "barrier", "ended"}

(* While main holds thread_start_mutex nobody is past it; when it lets go, *)
(* all runners are created and the timers run.                             *)
BarrierInv ==
    /\ start_locked =>
         /\ \A t \in Threads : pc[t] \in BeforeBarrier
         /\ report.pc \in {"new", "barrier", "ended"}
         /\ checkpoint.pc \in {"barrier", "ended"}
    /\ ~start_locked => main # "create"
    /\ ~start_locked \/ main = "start" => created = NumThreads /\ timer # "initialized"

(* nevents may miss increments and never has one too many. *)
RequestInv ==
    /\ nevents <= given
    /\ \A t \in Threads : pc[t] = "taken" => reg[t] <= given
    /\ \A t \in Threads : null[t] => given >= MaxRequests

(* A runner that took a request after the error takes no other. *)
ErrorInv ==
    \A t \in Threads :
        \/ late[t] = 0
        \/ late[t] = 1 /\ error /\ pc[t] \notin {"none", "init", "barrier", "get", "take", "taken"}

(* The inductive invariant. *)
SysInv == Types /\ BarrierInv /\ RequestInv /\ ErrorInv

(* The sum of the counters is a natural number. *)
LEMMA TotalIs ==
    ASSUME tx \in [Threads -> Nat]
    PROVE  /\ IsFiniteSet(Threads) /\ Total = SumFunctionOnSet(tx, Threads) /\ Total \in Nat
           /\ (\A t \in Threads : tx[t] = 0) => Total = 0
  <1>1. MaxThreads \in Nat
    BY RunAssumption
  <1>2. IsFiniteSet(0 .. MaxThreads - 1)
    BY <1>1, FS_Interval
  <1>3. IsFiniteSet(Threads)
    BY <1>2 DEF Threads
  <1>4. Total = SumFunctionOnSet(tx, Threads)
    BY DEF Total, SumFunction
  <1>5. \A t \in Threads : tx[t] \in Nat
    OBVIOUS
  <1> QED BY <1>3, <1>4, <1>5, SumNat

(* What creates a runner keeps the invariant: the new one is not past the  *)
(* barrier, which is still closed.                                         *)
LEMMA CreateThreadKeeps ==
    ASSUME SysInv, CreateThread
    PROVE  SysInv'
  <1> USE DEF SysInv, CreateThread, MainGoes, Goes, runner, stats, others, clock
  <1>1. Types'
    BY DEF Types, Points
  <1>2. BarrierInv'
    BY DEF BarrierInv, Types, BeforeBarrier, NumThreads
  <1>3. RequestInv'
    BY DEF RequestInv, Types, MaxRequests
  <1>4. ErrorInv'
    BY DEF ErrorInv, Types
  <1> QED BY <1>1, <1>2, <1>3, <1>4

(* Each action of a runner keeps the types: an increment is of a natural.  *)
LEMMA RunnerTypes ==
    ASSUME SysInv, NEW t \in Threads, Runner(t)
    PROVE  Types'
  <1> USE DEF SysInv, Types, Points, Goes, control, clock, stats, runner, others, history
  <1>1. CASE ThreadInit(t)
    BY <1>1 DEF ThreadInit
  <1>2. CASE PassBarrier(t)
    BY <1>2 DEF PassBarrier
  <1>3. CASE GetRequest(t)
    BY <1>3 DEF GetRequest
  <1>4. CASE TakeRequest(t)
    BY <1>4 DEF TakeRequest
  <1>5. CASE TakenRequest(t)
    BY <1>5 DEF TakenRequest
  <1>6. CASE Event(t)
    BY <1>6 DEF Event
  <1>7. CASE CountRead(t)
    BY <1>7 DEF CountRead
  <1>8. CASE CountWrite(t)
    BY <1>8 DEF CountWrite
  <1>9. CASE OverTime(t)
    BY <1>9 DEF OverTime
  <1>10. CASE CheckInterval(t)
    BY <1>10 DEF CheckInterval
  <1>11. CASE NewInterval(t)
    BY <1>11 DEF NewInterval
  <1>12. CASE ReadClock(t)
    BY <1>12 DEF ReadClock
  <1>13. CASE CompareRate(t)
    BY <1>13 DEF CompareRate, LoopAgain
  <1>14. CASE Tarpit(t)
    BY <1>14 DEF Tarpit
  <1>15. CASE RunnerEnds(t)
    BY <1>15 DEF RunnerEnds
  <1>16. CASE SumInterval(t)
    BY <1>16, TotalIs DEF SumInterval
  <1>17. CASE SumCounters(t)
    BY <1>17, TotalIs DEF SumCounters
  <1>18. CASE ReadInterval(t)
    BY <1>18 DEF ReadInterval
  <1> QED BY <1>1, <1>2, <1>3, <1>4, <1>5, <1>6, <1>7, <1>8, <1>9, <1>10, <1>11, <1>12, <1>13,
             <1>14, <1>15, <1>16, <1>17, <1>18 DEF Runner

(* A runner gets past the barrier only when main has opened it. *)
LEMMA RunnerBarrier ==
    ASSUME SysInv, NEW t \in Threads, Runner(t)
    PROVE  BarrierInv'
  <1> USE DEF SysInv, Types, BarrierInv, BeforeBarrier, NumThreads, Goes, control, clock, stats, runner, others, history
  <1>1. CASE ThreadInit(t)
    BY <1>1 DEF ThreadInit
  <1>2. CASE PassBarrier(t)
    BY <1>2 DEF PassBarrier
  <1>3. CASE GetRequest(t)
    BY <1>3 DEF GetRequest
  <1>4. CASE TakeRequest(t)
    BY <1>4 DEF TakeRequest
  <1>5. CASE TakenRequest(t)
    BY <1>5 DEF TakenRequest
  <1>6. CASE Event(t)
    BY <1>6 DEF Event
  <1>7. CASE CountRead(t)
    BY <1>7 DEF CountRead
  <1>8. CASE CountWrite(t)
    BY <1>8 DEF CountWrite
  <1>9. CASE OverTime(t)
    BY <1>9 DEF OverTime
  <1>10. CASE CheckInterval(t)
    BY <1>10 DEF CheckInterval
  <1>11. CASE NewInterval(t)
    BY <1>11 DEF NewInterval
  <1>12. CASE ReadClock(t)
    BY <1>12 DEF ReadClock
  <1>13. CASE CompareRate(t)
    BY <1>13 DEF CompareRate, LoopAgain
  <1>14. CASE Tarpit(t)
    BY <1>14 DEF Tarpit
  <1>15. CASE RunnerEnds(t)
    BY <1>15 DEF RunnerEnds
  <1>16. CASE SumInterval(t)
    BY <1>16 DEF SumInterval
  <1>17. CASE SumCounters(t)
    BY <1>17 DEF SumCounters
  <1>18. CASE ReadInterval(t)
    BY <1>18 DEF ReadInterval
  <1> QED BY <1>1, <1>2, <1>3, <1>4, <1>5, <1>6, <1>7, <1>8, <1>9, <1>10, <1>11, <1>12, <1>13,
             <1>14, <1>15, <1>16, <1>17, <1>18 DEF Runner

(* A request is given out with every write of nevents. *)
LEMMA RunnerRequests ==
    ASSUME SysInv, NEW t \in Threads, Runner(t)
    PROVE  RequestInv'
  <1> USE DEF SysInv, Types, RequestInv, OptionsType, MaxRequests, Goes, control, clock, stats, runner, others, history
  <1>1. CASE ThreadInit(t)
    BY <1>1 DEF ThreadInit
  <1>2. CASE PassBarrier(t)
    BY <1>2 DEF PassBarrier
  <1>3. CASE GetRequest(t)
    BY <1>3 DEF GetRequest
  <1>4. CASE TakeRequest(t)
    BY <1>4 DEF TakeRequest
  <1>5. CASE TakenRequest(t)
    BY <1>5 DEF TakenRequest
  <1>6. CASE Event(t)
    BY <1>6 DEF Event
  <1>7. CASE CountRead(t)
    BY <1>7 DEF CountRead
  <1>8. CASE CountWrite(t)
    BY <1>8 DEF CountWrite
  <1>9. CASE OverTime(t)
    BY <1>9 DEF OverTime
  <1>10. CASE CheckInterval(t)
    BY <1>10 DEF CheckInterval
  <1>11. CASE NewInterval(t)
    BY <1>11 DEF NewInterval
  <1>12. CASE ReadClock(t)
    BY <1>12 DEF ReadClock
  <1>13. CASE CompareRate(t)
    BY <1>13 DEF CompareRate, LoopAgain
  <1>14. CASE Tarpit(t)
    BY <1>14 DEF Tarpit
  <1>15. CASE RunnerEnds(t)
    BY <1>15 DEF RunnerEnds
  <1>16. CASE SumInterval(t)
    BY <1>16 DEF SumInterval
  <1>17. CASE SumCounters(t)
    BY <1>17 DEF SumCounters
  <1>18. CASE ReadInterval(t)
    BY <1>18 DEF ReadInterval
  <1> QED BY <1>1, <1>2, <1>3, <1>4, <1>5, <1>6, <1>7, <1>8, <1>9, <1>10, <1>11, <1>12, <1>13,
             <1>14, <1>15, <1>16, <1>17, <1>18 DEF Runner

(* Past its first request after the error a runner leaves its loop. *)
LEMMA RunnerErrors ==
    ASSUME SysInv, NEW t \in Threads, Runner(t)
    PROVE  ErrorInv'
  <1> USE DEF SysInv, Types, ErrorInv, Goes, control, clock, stats, runner, others, history
  <1>1. CASE ThreadInit(t)
    BY <1>1 DEF ThreadInit
  <1>2. CASE PassBarrier(t)
    BY <1>2 DEF PassBarrier
  <1>3. CASE GetRequest(t)
    BY <1>3 DEF GetRequest
  <1>4. CASE TakeRequest(t)
    BY <1>4 DEF TakeRequest
  <1>5. CASE TakenRequest(t)
    BY <1>5 DEF TakenRequest
  <1>6. CASE Event(t)
    BY <1>6 DEF Event
  <1>7. CASE CountRead(t)
    BY <1>7 DEF CountRead
  <1>8. CASE CountWrite(t)
    BY <1>8 DEF CountWrite
  <1>9. CASE OverTime(t)
    BY <1>9 DEF OverTime
  <1>10. CASE CheckInterval(t)
    BY <1>10 DEF CheckInterval
  <1>11. CASE NewInterval(t)
    BY <1>11 DEF NewInterval
  <1>12. CASE ReadClock(t)
    BY <1>12 DEF ReadClock
  <1>13. CASE CompareRate(t)
    BY <1>13 DEF CompareRate, LoopAgain
  <1>14. CASE Tarpit(t)
    BY <1>14 DEF Tarpit
  <1>15. CASE RunnerEnds(t)
    BY <1>15 DEF RunnerEnds
  <1>16. CASE SumInterval(t)
    BY <1>16 DEF SumInterval
  <1>17. CASE SumCounters(t)
    BY <1>17 DEF SumCounters
  <1>18. CASE ReadInterval(t)
    BY <1>18 DEF ReadInterval
  <1> QED BY <1>1, <1>2, <1>3, <1>4, <1>5, <1>6, <1>7, <1>8, <1>9, <1>10, <1>11, <1>12, <1>13,
             <1>14, <1>15, <1>16, <1>17, <1>18 DEF Runner

(* Nothing else touches the runners. *)
LEMMA OthersKeep ==
    ASSUME SysInv, BarrierInv', tx' \in [Threads -> Nat],
           UNCHANGED <<opt, pc, null, reg, nevents, given, late, error>>,
           start_locked' \in BOOLEAN, "pc" \in DOMAIN report'
    PROVE  SysInv'
  BY DEF SysInv, Types, RequestInv, ErrorInv, MaxRequests

(* The report thread waits at the barrier, too, and changes no counter. *)
LEMMA ReportKeeps ==
    ASSUME SysInv, Report
    PROVE  SysInv'
  <1> USE DEF SysInv, Types
  <1>1. /\ UNCHANGED <<control, opt, clock, error, runner, pc, checkpoint, history, tx>>
        /\ "pc" \in DOMAIN report'
        /\ report.pc \in {"new", "barrier", "ended"} => report'.pc \in {"new", "barrier", "ended"} \/ ~start_locked
    BY DEF Report, ReportStarts, ReportPassesBarrier, ReportWakes, ReportSums, ReportPrints,
           ReportStores, ReportTimes, ReportSpins, ReportCancelled, ReportGoes, ReportUnchanged,
           vars, control, clock, runner, stats, others, history
  <1>2. BarrierInv'
    BY <1>1 DEF BarrierInv, control, clock, NumThreads
  <1> QED
    BY <1>1, <1>2, OthersKeep DEF control, runner, history

(* So does the checkpoints thread, which only resets the counters. *)
LEMMA CheckpointKeeps ==
    ASSUME SysInv, Checkpoint
    PROVE  SysInv'
  <1> USE DEF SysInv, Types
  <1>1. /\ UNCHANGED <<control, opt, clock, error, runner, pc, report, history>>
        /\ checkpoint.pc \in {"barrier", "ended"} => checkpoint'.pc \in {"barrier", "ended"} \/ ~start_locked
    BY DEF Checkpoint, CheckpointPassesBarrier, CheckpointNext, CheckpointWakes, CheckpointLocks,
           CheckpointPrints, CheckpointResets, CheckpointUnlocks, CheckpointCancelled,
           CheckpointGoes, CheckpointUnchanged, control, clock, runner, stats, others, history
  <1>2. tx' \in [Threads -> Nat]
    BY DEF Checkpoint, CheckpointPassesBarrier, CheckpointNext, CheckpointWakes, CheckpointLocks,
           CheckpointPrints, CheckpointResets, CheckpointUnlocks, CheckpointCancelled,
           ResetCounters, stats
  <1>3. BarrierInv'
    BY <1>1 DEF BarrierInv, control, clock, NumThreads
  <1> QED
    BY <1>1, <1>2, <1>3, OthersKeep DEF control, runner, history

(* Main opens the barrier when it has created all runners and started the  *)
(* timers, and never again creates one or resets a timer to "initialized". *)
LEMMA MainKeeps ==
    ASSUME SysInv, Main
    PROVE  SysInv'
  <1> USE DEF SysInv, Types, MainGoes, control, clock, runner, stats, others, history
  <1>1. CASE CreateThread
    BY <1>1, CreateThreadKeeps
  <1>2. CASE StartTimers
    <2>1. BarrierInv'
      BY <1>2 DEF StartTimers, BarrierInv, NumThreads
    <2> QED BY <1>2, <2>1, OthersKeep DEF StartTimers
  <1>3. CASE OpenBarrier
    <2>1. BarrierInv'
      BY <1>3 DEF OpenBarrier, BarrierInv, NumThreads
    <2> QED BY <1>3, <2>1, OthersKeep DEF OpenBarrier
  <1>4. CASE JoinRunners
    <2>1. BarrierInv'
      BY <1>4 DEF JoinRunners, BarrierInv, NumThreads
    <2> QED BY <1>4, <2>1, OthersKeep DEF JoinRunners
  <1>5. CASE SilenceReports
    <2>1. BarrierInv'
      BY <1>5 DEF SilenceReports, BarrierInv, NumThreads
    <2> QED BY <1>5, <2>1, OthersKeep DEF SilenceReports
  <1>6. CASE FinalStats
    <2>1. BarrierInv'
      BY <1>6 DEF FinalStats, BarrierInv, NumThreads
    <2> QED BY <1>6, <2>1, OthersKeep DEF FinalStats, ResetCounters
  <1>7. CASE DestroyMutexes
    <2>1. BarrierInv'
      BY <1>7 DEF DestroyMutexes, BarrierInv, NumThreads
    <2> QED BY <1>7, <2>1, OthersKeep DEF DestroyMutexes
  <1>8. CASE CancelReport
    <2>1. BarrierInv'
      BY <1>8 DEF CancelReport, BarrierInv, NumThreads
    <2> QED BY <1>8, <2>1, OthersKeep DEF CancelReport
  <1>9. CASE CancelCheckpoint
    <2>1. BarrierInv'
      BY <1>9 DEF CancelCheckpoint, BarrierInv, NumThreads
    <2> QED BY <1>9, <2>1, OthersKeep DEF CancelCheckpoint
  <1>10. CASE JoinCheckpoint
    <2>1. BarrierInv'
      BY <1>10 DEF JoinCheckpoint, BarrierInv, NumThreads
    <2> QED BY <1>10, <2>1, OthersKeep DEF JoinCheckpoint
  <1>11. CASE ForcedStats
    <2>1. BarrierInv'
      BY <1>11 DEF ForcedStats, BarrierInv, NumThreads
    <2> QED BY <1>11, <2>1, OthersKeep DEF ForcedStats
  <1> QED BY <1>1, <1>2, <1>3, <1>4, <1>5, <1>6, <1>7, <1>8, <1>9, <1>10, <1>11 DEF Main

(* Time, the alarm and who is woken move no runner. *)
LEMMA ClockKeeps ==
    ASSUME SysInv, Alarm \/ Tick \/ Woken \/ UNCHANGED vars
    PROVE  SysInv'
  <1> USE DEF SysInv, Types, control, clock, runner, stats, others, history
  <1>1. BarrierInv'
    BY DEF Alarm, Tick, Woken, vars, BarrierInv, NumThreads
  <1> QED
    BY <1>1, OthersKeep DEF Alarm, Tick, Woken, vars

(* The invariant holds of every run. *)
LEMMA SysInvHolds == Spec => []SysInv
  <1>1. Init => SysInv
    <2> SUFFICES ASSUME Init PROVE SysInv
      OBVIOUS
    <2>1. Types
      BY RunAssumption DEF Init, Types, Points
    <2>2. BarrierInv
      BY DEF Init, BarrierInv, BeforeBarrier
    <2>3. RequestInv /\ ErrorInv
      BY DEF Init, RequestInv, ErrorInv
    <2> QED BY <2>1, <2>2, <2>3 DEF SysInv
  <1>2. SysInv /\ [Next]_vars => SysInv'
    <2> SUFFICES ASSUME SysInv, [Next]_vars PROVE SysInv'
      OBVIOUS
    <2>1. CASE \E t \in Threads : Runner(t)
      BY <2>1, RunnerTypes, RunnerBarrier, RunnerRequests, RunnerErrors DEF SysInv
    <2> QED
      BY <2>1, ReportKeeps, CheckpointKeeps, MainKeeps, ClockKeeps DEF Next, Exited
  <1> QED BY <1>1, <1>2, PTL DEF Spec

(* No runner and no reporting thread gets past thread_start_mutex before   *)
(* all runners exist and the timers run.                                   *)
THEOREM StartBarrierHolds == Spec => []BarrierHolds
  <1>1. SysInv => BarrierHolds
    BY DEF SysInv, BarrierInv, BarrierHolds, BeforeBarrier
  <1> QED BY <1>1, SysInvHolds, PTL

(* No runner stops for want of requests before --max-requests were given   *)
(* out, though nevents is counted without a lock.                          *)
THEOREM RequestsAreServed == Spec => []RequestsServed
  <1>1. SysInv => RequestsServed
    BY DEF SysInv, RequestInv, RequestsServed
  <1> QED BY <1>1, SysInvHolds, PTL

(* After an error a runner takes at most the one request it was about to   *)
(* take.                                                                   *)
THEOREM ErrorsStop == Spec => []ErrorStops
  <1>1. SysInv => ErrorStops
    BY DEF SysInv, ErrorInv, ErrorStops
  <1> QED BY <1>1, SysInvHolds, PTL

----------------------------------------------------------------------------
(* The types of all variables. *)

ReportType ==
    [pc : {"new", "barrier", "sleep", "sum", "print", "store", "time", "spin", "ended"},
     interval : Nat, prev : Nat, wake : Nat, sum : Nat, cancelled : BOOLEAN]

CheckpointType ==
    [pc : {"barrier", "next", "sleep", "lock", "print", "reset1", "reset2", "unlock", "ended"},
     i : Nat, cancelled : BOOLEAN]

MainPoints ==
    {"create", "start", "join", "silence", "final", "zero", "destroy", "cancel1", "join1",
     "join2", "handler", "exited"}

(* Main, its options and the clock. *)
MainTypes ==
    /\ main \in MainPoints /\ created \in 0 .. NumThreads
    /\ opt \in Options /\ start_locked \in BOOLEAN /\ error \in BOOLEAN /\ silenced \in BOOLEAN
    /\ timer \in {"initialized", "running", "stopped"} /\ secs \in Nat /\ age \in Nat
    /\ exec_mutex \in {Free, Destroyed, "checkpoint"}

(* The runners and what they count. *)
RunnersTypes ==
    /\ tx \in [Threads -> Nat] /\ last_transactions \in Nat /\ rate_last_transactions \in Nat
    /\ nevents \in Nat /\ pc \in [Threads -> Points]
    /\ null \in [Threads -> BOOLEAN] /\ reg \in [Threads -> Nat] /\ now \in [Threads -> Int]
    /\ given \in Nat /\ late \in [Threads -> Nat] /\ faults \in Nat
    /\ asleep \subseteq Threads \cup {Reporter, Checkpointer, MainThread}

(* TypeOK, in three parts. *)
LEMMA TypeParts ==
    TypeOK <=> MainTypes /\ RunnersTypes /\ report \in ReportType /\ checkpoint \in CheckpointType
  BY DEF TypeOK, MainTypes, RunnersTypes, ReportType, CheckpointType, MainPoints, Points

(* ... and after a step. *)
LEMMA TypePartsNext ==
    TypeOK' <=> MainTypes' /\ RunnersTypes'
                /\ report' \in ReportType /\ checkpoint' \in CheckpointType
  BY DEF TypeOK, MainTypes, RunnersTypes, ReportType, CheckpointType, MainPoints, Points,
         NumThreads

(* The options of a run. *)
LEMMA OptionsIs ==
    ASSUME opt \in Options
    PROVE  /\ opt \in OptionsType /\ NumThreads \in 1 .. MaxThreads /\ MaxThreads \in Nat
           /\ MaxRequests \in Nat /\ MaxTime \in Nat /\ TxRate \in Nat /\ ReportInterval \in Nat
           /\ Checkpoints \in Seq(Nat)
  BY RunAssumption DEF OptionsType, NumThreads, MaxRequests, MaxTime, TxRate, ReportInterval,
                       Checkpoints

(* A runner keeps the types. *)
LEMMA RunnerTypeOK ==
    ASSUME TypeOK, NEW t \in Threads, Runner(t)
    PROVE  TypeOK'
  <1>0. MainTypes /\ RunnersTypes /\ report \in ReportType /\ checkpoint \in CheckpointType
    BY TypeParts
  <1> SUFFICES MainTypes' /\ RunnersTypes'
               /\ report' \in ReportType /\ checkpoint' \in CheckpointType
    BY TypePartsNext
  <1> USE <1>0 DEF MainTypes, RunnersTypes, Points, NumThreads, Goes, control, clock, stats, runner,
                   others, history
  <1>1. CASE ThreadInit(t)
    <2>1. PICK to \in {"barrier", "ended"} : Goes(t, "init", to)
      BY <1>1 DEF ThreadInit
    <2>2. error' \in BOOLEAN /\ faults' \in Nat
      <3>1. faults' = faults \/ faults' = faults + 1
        BY <1>1 DEF ThreadInit
      <3>2. error' = error \/ error' = TRUE
        BY <1>1 DEF ThreadInit
      <3>3. faults' \in Nat
        BY <3>1
      <3>4. error \in BOOLEAN
        OBVIOUS
      <3> HIDE <1>0
      <3>5. error' \in BOOLEAN
        BY <3>2, <3>4, Zenon
      <3> QED BY <3>3, <3>5
    <2>3. UNCHANGED <<control, opt, clock, exec_mutex, stats, runner, others, given, late>>
      BY <1>1 DEF ThreadInit
    <2> QED BY <2>1, <2>2, <2>3
  <1>2. CASE PassBarrier(t)
    BY <1>2 DEF PassBarrier
  <1>3. CASE GetRequest(t)
    BY <1>3 DEF GetRequest
  <1>4. CASE TakeRequest(t)
    BY <1>4 DEF TakeRequest
  <1>5. CASE TakenRequest(t)
    BY <1>5 DEF TakenRequest
  <1>6. CASE Event(t)
    <2>1. PICK to \in {"count1", "event", "done"} : Goes(t, "event", to)
      BY <1>6 DEF Event
    <2>2. error' \in BOOLEAN /\ faults' \in Nat
      <3>1. faults' = faults \/ faults' = faults + 1
        BY <1>6 DEF Event
      <3>2. error' = error \/ error' = TRUE
        BY <1>6 DEF Event
      <3>3. faults' \in Nat
        BY <3>1
      <3>4. error \in BOOLEAN
        OBVIOUS
      <3> HIDE <1>0
      <3>5. error' \in BOOLEAN
        BY <3>2, <3>4, Zenon
      <3> QED BY <3>3, <3>5
    <2>3. UNCHANGED <<control, opt, clock, exec_mutex, stats, runner, others, given, late>>
      BY <1>6 DEF Event
    <2> QED BY <2>1, <2>2, <2>3
  <1>7. CASE CountRead(t)
    BY <1>7 DEF CountRead
  <1>8. CASE CountWrite(t)
    BY <1>8 DEF CountWrite
  <1>9. CASE OverTime(t)
    BY <1>9 DEF OverTime
  <1>10. CASE CheckInterval(t)
    BY <1>10 DEF CheckInterval
  <1>11. CASE NewInterval(t)
    BY <1>11 DEF NewInterval
  <1>12. CASE ReadClock(t)
    BY <1>12 DEF ReadClock
  <1>13. CASE CompareRate(t)
    BY <1>13 DEF CompareRate, LoopAgain
  <1>14. CASE Tarpit(t)
    BY <1>14 DEF Tarpit
  <1>15. CASE RunnerEnds(t)
    BY <1>15 DEF RunnerEnds
  <1>16. CASE SumInterval(t)
    BY <1>16, TotalIs DEF SumInterval
  <1>17. CASE SumCounters(t)
    BY <1>17, TotalIs DEF SumCounters
  <1>18. CASE ReadInterval(t)
    BY <1>18 DEF ReadInterval
  <1> QED BY <1>1, <1>2, <1>3, <1>4, <1>5, <1>6, <1>7, <1>8, <1>9, <1>10, <1>11, <1>12, <1>13,
             <1>14, <1>15, <1>16, <1>17, <1>18 DEF Runner


(* So does the report thread: the next moment it waits for is not in the   *)
(* past of the timer's start, as the rest of a division is smaller than    *)
(* the interval.                                                           *)
LEMMA ReportTypeOK ==
    ASSUME TypeOK, Report
    PROVE  TypeOK'
  <1>0. MainTypes /\ RunnersTypes /\ report \in ReportType /\ checkpoint \in CheckpointType
    BY TypeParts
  <1>s. UNCHANGED <<control, opt, clock, error, runner, pc, checkpoint, history, tx, asleep, exec_mutex>>
    BY DEF Report, ReportStarts, ReportPassesBarrier, ReportWakes, ReportSums, ReportPrints,
           ReportStores, ReportTimes, ReportSpins, ReportCancelled, ReportUnchanged,
           vars, stats, others
  <1>m. MainTypes' /\ checkpoint' \in CheckpointType
    BY <1>0, <1>s DEF MainTypes, control, clock, NumThreads
  <1>n. last_transactions' \in Nat => RunnersTypes'
    BY <1>0, <1>s DEF RunnersTypes, runner, history
  <1>q. ReportInterval \in Nat
    BY <1>0, OptionsIs DEF MainTypes
  <1> SUFFICES last_transactions' \in Nat /\ report' \in ReportType
    BY <1>m, <1>n, TypePartsNext
  <1>r. /\ report \in ReportType /\ last_transactions \in Nat /\ secs \in Nat
        /\ report.interval \in Nat /\ report.prev \in Nat /\ report.sum \in Nat
    BY <1>0 DEF ReportType, MainTypes, RunnersTypes
  <1> USE <1>r DEF ReportType, ReportGoes, ReportUnchanged
  <1>1. CASE ReportStarts
    BY <1>1, <1>q DEF ReportStarts
  <1>2. CASE ReportPassesBarrier
    <2>1. PICK n \in Nat : n = secs + report.interval
      OBVIOUS
    <2>2. /\ report' = [report EXCEPT !.pc = "sleep", !.prev = n, !.wake = n]
          /\ UNCHANGED last_transactions
      BY <1>2, <2>1 DEF ReportPassesBarrier
    <2> QED BY <2>2
  <1>3. CASE ReportWakes
    BY <1>3 DEF ReportWakes
  <1>4. CASE ReportSums
    <2>1. Total \in Nat
      BY <1>0, TotalIs DEF RunnersTypes
    <2> QED BY <1>4, <2>1 DEF ReportSums
  <1>5. CASE ReportPrints
    BY <1>5 DEF ReportPrints
  <1>6. CASE ReportStores
    BY <1>6 DEF ReportStores
  <1>7. CASE ReportTimes
    <2>1. CASE report.interval = 0
      BY <1>7, <2>1 DEF ReportTimes
    <2>2. CASE report.interval # 0
      <3>1. PICK next : next = IF secs < report.prev + report.interval
                               THEN report.prev + report.interval
                               ELSE secs + report.interval
                                      - ((secs - report.prev) % report.interval)
        OBVIOUS
      <3>2. report' = [report EXCEPT !.pc = "sleep", !.prev = next, !.wake = next]
            /\ UNCHANGED last_transactions
        BY <1>7, <2>2, <3>1 DEF ReportTimes
      <3>3. next \in Nat
        <4>1. (secs - report.prev) % report.interval \in 0 .. report.interval - 1
          BY <2>2
        <4> QED BY <3>1, <4>1
      <3> QED BY <3>2, <3>3
    <2> QED BY <2>1, <2>2
  <1>8. CASE ReportSpins
    BY <1>8 DEF ReportSpins, vars, stats, others
  <1>9. CASE ReportCancelled
    BY <1>9 DEF ReportCancelled
  <1> QED BY <1>1, <1>2, <1>3, <1>4, <1>5, <1>6, <1>7, <1>8, <1>9 DEF Report

(* Whom a reset leaves asleep. *)
LEMMA WipeIs ==
    ASSUME NEW me, Wipe(me), asleep \subseteq Threads \cup {Reporter, Checkpointer, MainThread}
    PROVE  asleep' \subseteq Threads \cup {Reporter, Checkpointer, MainThread}
  <1>1. Summing \cup Counting \subseteq Threads \cup {Reporter, Checkpointer, MainThread}
    BY DEF Summing, Counting
  <1>2. PICK S \in SUBSET (Summing \cup Counting) : asleep' = asleep \cup S
    BY DEF Wipe
  <1> QED BY <1>1, <1>2

(* The checkpoints thread keeps the types, ... *)
LEMMA CheckpointTypeOK ==
    ASSUME TypeOK, Checkpoint
    PROVE  TypeOK'
  <1>0. MainTypes /\ RunnersTypes /\ report \in ReportType /\ checkpoint \in CheckpointType
    BY TypeParts
  <1>s. UNCHANGED <<control, opt, clock, error, runner, pc, report, history>>
    BY DEF Checkpoint, CheckpointPassesBarrier, CheckpointNext, CheckpointWakes, CheckpointLocks,
           CheckpointPrints, CheckpointResets, CheckpointUnlocks, CheckpointCancelled,
           CheckpointUnchanged
  <1>m. exec_mutex' \in {Free, Destroyed, "checkpoint"} => MainTypes'
    BY <1>0, <1>s DEF MainTypes, control, clock, NumThreads
  <1> DEFINE All == Threads \cup {Reporter, Checkpointer, MainThread}
  <1>n. /\ last_transactions' \in Nat /\ tx' \in [Threads -> Nat] /\ asleep' \subseteq All
        => RunnersTypes'
    BY <1>0, <1>s DEF RunnersTypes, runner, history
  <1>w. Wipe(Checkpointer) => asleep' \subseteq All
    BY <1>0, WipeIs DEF RunnersTypes
  <1> SUFFICES /\ last_transactions' \in Nat /\ tx' \in [Threads -> Nat] /\ asleep' \subseteq All
               /\ exec_mutex' \in {Free, Destroyed, "checkpoint"}
               /\ checkpoint' \in CheckpointType
    BY <1>0, <1>s, <1>m, <1>n, TypePartsNext
  <1>r. /\ checkpoint \in CheckpointType /\ last_transactions \in Nat
        /\ tx \in [Threads -> Nat] /\ exec_mutex \in {Free, Destroyed, "checkpoint"}
        /\ checkpoint.i \in Nat /\ asleep \subseteq All
    BY <1>0 DEF CheckpointType, MainTypes, RunnersTypes
  <1> HIDE DEF All
  <1> USE <1>r DEF CheckpointType, CheckpointGoes, stats
  <1>1. CASE CheckpointPassesBarrier
    BY <1>1 DEF CheckpointPassesBarrier
  <1>2. CASE CheckpointNext
    <2>1. \/ checkpoint' = [checkpoint EXCEPT !.pc = "ended"]
          \/ checkpoint' = [checkpoint EXCEPT !.i = checkpoint.i + 1]
          \/ checkpoint' = [checkpoint EXCEPT !.pc = "sleep"]
      <3>1. Len(Checkpoints) \in Nat
        BY <1>0, OptionsIs DEF MainTypes
      <3> QED BY <1>2, <3>1 DEF CheckpointNext
    <2> QED BY <1>2, <2>1 DEF CheckpointNext
  <1>3. CASE CheckpointWakes
    BY <1>3 DEF CheckpointWakes
  <1>4. CASE CheckpointLocks
    BY <1>4 DEF CheckpointLocks
  <1>5. CASE CheckpointPrints
    BY <1>5 DEF CheckpointPrints
  <1>6. CASE CheckpointResets
    BY <1>6, <1>w DEF CheckpointResets, ResetCounters
  <1>7. CASE CheckpointUnlocks
    <2>1. PICK i \in Nat : i = checkpoint.i + 1
      OBVIOUS
    <2>2. /\ checkpoint' = [checkpoint EXCEPT !.pc = "next", !.i = i]
          /\ exec_mutex' \in {exec_mutex, Free} /\ UNCHANGED stats
      BY <1>7, <2>1 DEF CheckpointUnlocks
    <2> QED BY <2>2
  <1>8. CASE CheckpointCancelled
    BY <1>8 DEF CheckpointCancelled
  <1> QED BY <1>1, <1>2, <1>3, <1>4, <1>5, <1>6, <1>7, <1>8 DEF Checkpoint

(* ... and so do main, the alarm and the clock. *)
LEMMA MainTypeOK ==
    ASSUME TypeOK, Main \/ Alarm \/ Tick \/ Woken \/ UNCHANGED vars
    PROVE  TypeOK'
  <1>0. MainTypes /\ RunnersTypes /\ report \in ReportType /\ checkpoint \in CheckpointType
    BY TypeParts
  <1> SUFFICES MainTypes' /\ RunnersTypes'
               /\ report' \in ReportType /\ checkpoint' \in CheckpointType
    BY TypePartsNext
  <1>t. NumThreads \in 1 .. MaxThreads /\ MaxThreads \in Nat
    BY <1>0, OptionsIs DEF MainTypes
  <1> USE <1>0 DEF MainTypes, MainPoints, RunnersTypes, MainGoes, NumThreads, control, clock, stats,
                   runner, others, history
  <1>1. CASE CreateThread
    <2>1. created' \in 0 .. NumThreads /\ main' \in MainPoints
      BY <1>1, <1>t DEF CreateThread
    <2>2. pc' \in [Threads -> Points]
      <3>1. pc' = pc \/ pc' = [pc EXCEPT ![created] = "init"]
        BY <1>1 DEF CreateThread, Goes
      <3> QED BY <3>1 DEF Points
    <2>3. faults' \in Nat
      BY <1>1 DEF CreateThread
    <2>4. UNCHANGED <<start_locked, silenced, opt, clock, error, exec_mutex, stats, runner, others,
                      given, late>>
      BY <1>1 DEF CreateThread
    <2> QED BY <2>1, <2>2, <2>3, <2>4
  <1>2. CASE StartTimers
    BY <1>2 DEF StartTimers
  <1>3. CASE OpenBarrier
    BY <1>3 DEF OpenBarrier
  <1>4. CASE JoinRunners
    BY <1>4 DEF JoinRunners
  <1>5. CASE SilenceReports
    BY <1>5 DEF SilenceReports
  <1>6. CASE FinalStats
    <2>1. Wipe(MainThread) => asleep' \subseteq Threads \cup {Reporter, Checkpointer, MainThread}
      BY WipeIs
    <2> QED BY <1>6, <2>1 DEF FinalStats, ResetCounters
  <1>7. CASE DestroyMutexes
    BY <1>7 DEF DestroyMutexes
  <1>8. CASE CancelReport
    BY <1>8 DEF CancelReport, ReportType
  <1>9. CASE CancelCheckpoint
    BY <1>9 DEF CancelCheckpoint, CheckpointType
  <1>10. CASE JoinCheckpoint
    BY <1>10 DEF JoinCheckpoint
  <1>11. CASE ForcedStats
    BY <1>11 DEF ForcedStats
  <1>12. CASE Alarm
    BY <1>12 DEF Alarm
  <1>13. CASE Tick
    BY <1>13 DEF Tick
  <1>14. CASE UNCHANGED vars
    BY <1>14 DEF vars
  <1>15. CASE Woken
    BY <1>15 DEF Woken
  <1> QED BY <1>1, <1>2, <1>3, <1>4, <1>5, <1>6, <1>7, <1>8, <1>9, <1>10, <1>11, <1>12,
             <1>13, <1>14, <1>15 DEF Main

(* At first everything has its type. *)
LEMMA InitTypeOK == Init => TypeOK
  <1> SUFFICES ASSUME Init PROVE TypeOK
    OBVIOUS
  <1>1. opt \in Options /\ NumThreads \in Nat /\ ReportInterval \in Nat
    BY OptionsIs DEF Init
  <1>2. MainTypes
    <2>1. main \in MainPoints /\ created \in 0 .. NumThreads
      BY <1>1 DEF Init, MainPoints
    <2>2. start_locked \in BOOLEAN /\ error \in BOOLEAN /\ silenced \in BOOLEAN
      BY DEF Init
    <2>3. /\ timer \in {"initialized", "running", "stopped"} /\ secs \in Nat /\ age \in Nat
          /\ exec_mutex \in {Free, Destroyed, "checkpoint"}
      BY DEF Init
    <2> QED BY <1>1, <2>1, <2>2, <2>3 DEF MainTypes
  <1>3. RunnersTypes
    BY DEF Init, RunnersTypes, Points
  <1>4. report \in ReportType
    BY DEF Init, ReportType
  <1>5. checkpoint \in CheckpointType
    BY DEF Init, CheckpointType
  <1> QED BY <1>2, <1>3, <1>4, <1>5, TypeParts

(* Every step keeps the types. *)
LEMMA NextTypeOK == TypeOK /\ [Next]_vars => TypeOK'
  BY RunnerTypeOK, ReportTypeOK, CheckpointTypeOK, MainTypeOK DEF Next, Exited

(* Every variable keeps its type, and with it every thread its statements. *)
THEOREM SysbenchTypeCorrect == Spec => []TypeOK
  BY InitTypeOK, NextTypeOK, PTL DEF Spec

----------------------------------------------------------------------------
(* The rate. *)

(* From what the interval counts: once thread 0 has taken the sum, from    *)
(* that, though the others still see the old count.                        *)
Base == IF pc[0] = "newbase" THEN reg[0] ELSE rate_last_transactions

(* The sum t has taken is one the rate allows. *)
Passes(t) == reg[t] - Base <= TxRate * now[t]

(* The runners that may count a transaction without another look at the    *)
(* rate: on their way from the comparison (or the start) to the counter,   *)
(* or about to pass the comparison, or with a time of before the interval. *)
Going ==
    {t \in 0 .. NumThreads - 1 :
        \/ pc[t] \in {"none", "init", "barrier", "get", "take", "taken", "event", "count1",
                      "count2"}
        \/ pc[t] \in {"tps", "since", "compare"} /\ now[t] < 0
        \/ pc[t] \in {"since", "compare"} /\ Passes(t)}

(* Where main is when all runners have been joined. *)
AfterJoin == {"silence", "final", "zero", "destroy", "cancel1", "join1", "join2"}

(* Where main is until it resets the counters. *)
Unreset == {"create", "start", "join", "silence", "handler"}

(* Where the runners are: those not created, those joined; a runner counts *)
(* from the value the counter has, its time is not ahead of the clock, and *)
(* only thread 0 begins an interval.                                       *)
PlacesInv ==
    /\ checkpoint.pc = "ended"
    /\ \A t \in Threads : t >= created => pc[t] = "none"
    /\ main \in AfterJoin => \A t \in Threads : pc[t] \in {"none", "ended"}
    /\ \A t \in Threads : pc[t] = "count2" => reg[t] = tx[t]
    /\ \A t \in Threads : pc[t] = "tps" => now[t] <= age
    /\ \A t \in Threads : pc[t] \in {"newtps", "newbase"} => t = 0

(* The counters only grow: an interval counts from no more than there is,  *)
(* and a new one from no less than the old one.                            *)
BaseInv ==
    main \in Unreset =>
        /\ rate_last_transactions <= Total
        /\ pc[0] = "newbase" => rate_last_transactions <= reg[0] /\ reg[0] <= Total

(* What was counted since the interval began, and may still be counted by  *)
(* those going, is what the rate allows, and one for each runner.          *)
BoundInv ==
    pc[0] # "newtps" => Total - Base + Cardinality(Going) <= TxRate * age + NumThreads

(* Without checkpoint reports. *)
RateInv == Checkpoints = <<>> => PlacesInv /\ BaseInv /\ BoundInv

(* The base is a natural number. *)
LEMMA BaseIs ==
    ASSUME TypeOK
    PROVE  Base \in Nat
  <1>1. 0 \in Threads
    BY RunAssumption DEF Threads
  <1> QED BY <1>1 DEF Base, TypeOK

(* Products of natural numbers. *)
LEMMA ProductIs ==
    ASSUME NEW r \in Nat, NEW b \in Nat
    PROVE  /\ r * b \in Nat
           /\ \A a \in Nat : a <= b => r * a <= r * b
  <1>1. \A x \in Nat : r * x \in Nat
    OBVIOUS
  <1>2. ASSUME NEW a \in Nat, a <= b PROVE r * a <= r * b
    <2>1. PICK c \in Nat : b = a + c
      <3>1. b - a \in Nat
        BY <1>2
      <3> QED BY <3>1
    <2>2. r * b = r * a + r * c
      BY <2>1
    <2> QED BY <1>1, <2>2
  <1> QED BY <1>1, <1>2

(* How many can be going. *)
LEMMA GoingIs ==
    ASSUME TypeOK
    PROVE  /\ IsFiniteSet(Going) /\ Cardinality(Going) \in Nat /\ Cardinality(Going) <= NumThreads
           /\ \A t \in 0 .. NumThreads - 1 : t \notin Going => Cardinality(Going) + 1 <= NumThreads
           /\ NumThreads \in Nat /\ 0 .. NumThreads - 1 \subseteq Threads /\ 0 \in Threads
  <1>1. NumThreads \in 1 .. MaxThreads /\ MaxThreads \in Nat
    BY OptionsIs DEF TypeOK
  <1>2. 0 .. NumThreads - 1 \subseteq Threads /\ 0 \in Threads
    BY <1>1 DEF Threads
  <1> DEFINE N == 0 .. NumThreads - 1
  <1>3. IsFiniteSet(N) /\ Cardinality(N) = NumThreads
    BY <1>1, FS_Interval
  <1>4. Going \subseteq N
    BY DEF Going
  <1> HIDE DEF N
  <1>5. IsFiniteSet(Going) /\ Cardinality(Going) <= NumThreads /\ Cardinality(Going) \in Nat
    BY <1>3, <1>4, FS_Subset, FS_CardinalityType
  <1>6. ASSUME NEW t \in N, t \notin Going PROVE Cardinality(Going) + 1 <= NumThreads
    <2>1. Cardinality(Going \cup {t}) = Cardinality(Going) + 1
      BY <1>5, <1>6, FS_AddElement
    <2>2. Going \cup {t} \subseteq N
      BY <1>4
    <2>3. Cardinality(Going \cup {t}) <= Cardinality(N)
      BY <1>3, <2>2, FS_Subset
    <2> QED BY <1>3, <2>1, <2>3
  <1> QED BY <1>1, <1>2, <1>5, <1>6 DEF N

(* A step that counts nothing and lets none go keeps the bound. *)
LEMMA QuietRate ==
    ASSUME TypeOK, TypeOK', BoundInv, Going' \subseteq Going,
           UNCHANGED <<tx, opt>>, Base' = Base, age <= age',
           pc'[0] # "newtps" => pc[0] # "newtps"
    PROVE  BoundInv'
  <1>1. /\ IsFiniteSet(Going) /\ Cardinality(Going) \in Nat /\ NumThreads \in Nat
        /\ TxRate \in Nat /\ age \in Nat /\ age' \in Nat /\ Total \in Nat /\ Base \in Nat
    BY GoingIs, OptionsIs, TotalIs, BaseIs DEF TypeOK
  <1>2. Cardinality(Going') <= Cardinality(Going) /\ Cardinality(Going') \in Nat
    BY <1>1, FS_Subset, FS_CardinalityType
  <1>3. TxRate * age <= TxRate * age' /\ TxRate * age \in Nat /\ TxRate * age' \in Nat
    BY <1>1, ProductIs
  <1>4. /\ Total' = Total /\ TxRate' = TxRate /\ NumThreads' = NumThreads
        /\ Cardinality(Going)' = Cardinality(Going')
    BY DEF Total, TxRate, NumThreads
  <1>5. CASE pc'[0] # "newtps"
    <2>1. Total - Base + Cardinality(Going) <= TxRate * age + NumThreads
      BY <1>5 DEF BoundInv
    <2>2. Total' - Base' + Cardinality(Going)' <= TxRate' * age' + NumThreads'
      BY <1>1, <1>2, <1>3, <1>4, <2>1
    <2> QED BY <2>2 DEF BoundInv
  <1> QED BY <1>5 DEF BoundInv

(* A runner that has been created is one of the run's. *)
LEMMA RunnerIsOne ==
    ASSUME TypeOK, PlacesInv, NEW t \in Threads, pc[t] # "none"
    PROVE  t \in 0 .. NumThreads - 1
  <1>1. NumThreads \in 1 .. MaxThreads /\ MaxThreads \in Nat /\ created \in 0 .. NumThreads
    BY OptionsIs DEF TypeOK
  <1>2. ~ (t >= created)
    BY DEF PlacesInv
  <1> QED BY <1>1, <1>2 DEF Threads


(* A step of a runner is its own: it moves from a statement of its loop to *)
(* another, and the times it changes are those of a new interval.          *)
LEMMA RunnerFrame ==
    ASSUME TypeOK, NEW t \in Threads, Runner(t)
    PROVE  /\ \A u \in Threads \ {t} : pc'[u] = pc[u] /\ reg'[u] = reg[u] /\ tx'[u] = tx[u]
           /\ pc[t] \notin {"none", "ended"}
           /\ UNCHANGED <<main, created, opt, checkpoint>>
  <1> USE DEF TypeOK, Goes, control, clock, stats, runner, others
  <1>1. CASE ThreadInit(t)
    BY <1>1 DEF ThreadInit
  <1>2. CASE PassBarrier(t)
    BY <1>2 DEF PassBarrier
  <1>3. CASE GetRequest(t)
    BY <1>3 DEF GetRequest
  <1>4. CASE TakeRequest(t)
    BY <1>4 DEF TakeRequest
  <1>5. CASE TakenRequest(t)
    BY <1>5 DEF TakenRequest
  <1>6. CASE Event(t)
    BY <1>6 DEF Event
  <1>7. CASE CountRead(t)
    BY <1>7 DEF CountRead
  <1>8. CASE CountWrite(t)
    BY <1>8 DEF CountWrite
  <1>9. CASE OverTime(t)
    BY <1>9 DEF OverTime
  <1>10. CASE CheckInterval(t)
    BY <1>10 DEF CheckInterval
  <1>11. CASE NewInterval(t)
    BY <1>11 DEF NewInterval
  <1>12. CASE ReadClock(t)
    BY <1>12 DEF ReadClock
  <1>13. CASE CompareRate(t)
    BY <1>13 DEF CompareRate, LoopAgain
  <1>14. CASE Tarpit(t)
    BY <1>14 DEF Tarpit
  <1>15. CASE RunnerEnds(t)
    BY <1>15 DEF RunnerEnds
  <1>16. CASE SumInterval(t)
    BY <1>16 DEF SumInterval
  <1>17. CASE SumCounters(t)
    BY <1>17 DEF SumCounters
  <1>18. CASE ReadInterval(t)
    BY <1>18 DEF ReadInterval
  <1> QED BY <1>1, <1>2, <1>3, <1>4, <1>5, <1>6, <1>7, <1>8, <1>9, <1>10, <1>11, <1>12, <1>13,
             <1>14, <1>15, <1>16, <1>17, <1>18 DEF Runner

(* What a runner's step does to its own place, and to the times.           *)
LEMMA RunnerOwn ==
    ASSUME TypeOK, NEW t \in Threads, Runner(t), PlacesInv
    PROVE  /\ pc'[t] = "count2" => reg'[t] = tx'[t]
           /\ pc'[t] = "tps" => now'[t] <= age'
           /\ pc'[t] \in {"newtps", "newbase"} => t = 0
           /\ \/ age' = age /\ \A u \in Threads \ {t} : now'[u] = now[u]
              \/ /\ age' = 0 /\ pc'[0] = "newtps" /\ t = 0
                 /\ \A u \in Threads : pc[u] # "compare" => now'[u] = now[u] - age
  <1> USE DEF TypeOK, PlacesInv, Goes, clock, stats, runner
  <1>1. CASE ThreadInit(t)
    BY <1>1 DEF ThreadInit
  <1>2. CASE PassBarrier(t)
    BY <1>2 DEF PassBarrier
  <1>3. CASE GetRequest(t)
    BY <1>3 DEF GetRequest
  <1>4. CASE TakeRequest(t)
    BY <1>4 DEF TakeRequest
  <1>5. CASE TakenRequest(t)
    BY <1>5 DEF TakenRequest
  <1>6. CASE Event(t)
    BY <1>6 DEF Event
  <1>7. CASE CountRead(t)
    BY <1>7 DEF CountRead
  <1>8. CASE CountWrite(t)
    BY <1>8 DEF CountWrite
  <1>9. CASE OverTime(t)
    BY <1>9 DEF OverTime
  <1>10. CASE CheckInterval(t)
    BY <1>10 DEF CheckInterval
  <1>11. CASE NewInterval(t)
    BY <1>11 DEF NewInterval
  <1>12. CASE ReadClock(t)
    BY <1>12 DEF ReadClock
  <1>13. CASE CompareRate(t)
    BY <1>13 DEF CompareRate, LoopAgain
  <1>14. CASE Tarpit(t)
    BY <1>14 DEF Tarpit
  <1>15. CASE RunnerEnds(t)
    BY <1>15 DEF RunnerEnds
  <1>16. CASE SumInterval(t)
    BY <1>16 DEF SumInterval
  <1>17. CASE SumCounters(t)
    BY <1>17 DEF SumCounters
  <1>18. CASE ReadInterval(t)
    BY <1>18 DEF ReadInterval
  <1> QED BY <1>1, <1>2, <1>3, <1>4, <1>5, <1>6, <1>7, <1>8, <1>9, <1>10, <1>11, <1>12, <1>13,
             <1>14, <1>15, <1>16, <1>17, <1>18 DEF Runner

(* The runners keep their places. *)
LEMMA RunnerPlaces ==
    ASSUME TypeOK, NEW t \in Threads, Runner(t), PlacesInv
    PROVE  PlacesInv'
  <1>1. /\ \A u \in Threads \ {t} : pc'[u] = pc[u] /\ reg'[u] = reg[u] /\ tx'[u] = tx[u]
        /\ pc[t] \notin {"none", "ended"}
        /\ UNCHANGED <<main, created, opt, checkpoint>>
    BY RunnerFrame
  <1>2. main \notin AfterJoin /\ ~ (t >= created)
    BY <1>1 DEF PlacesInv
  <1>3. /\ pc'[t] = "count2" => reg'[t] = tx'[t]
        /\ pc'[t] = "tps" => now'[t] <= age'
        /\ pc'[t] \in {"newtps", "newbase"} => t = 0
        /\ \/ age' = age /\ \A u \in Threads \ {t} : now'[u] = now[u]
           \/ age' = 0 /\ \A u \in Threads : pc[u] # "compare" => now'[u] = now[u] - age
    BY RunnerOwn
  <1>4. ASSUME NEW u \in Threads \ {t}, pc'[u] = "tps" PROVE now'[u] <= age'
    <2>1. now[u] <= age /\ now[u] \in Int /\ age \in Nat /\ pc[u] = "tps"
      BY <1>1, <1>4 DEF PlacesInv, TypeOK
    <2> QED BY <1>3, <2>1
  <1> QED BY <1>1, <1>2, <1>3, <1>4 DEF PlacesInv

(* Nobody else's going changes but by a new interval. *)
LEMMA OthersGoing ==
    ASSUME TypeOK, PlacesInv, NEW t \in Threads, Runner(t), pc'[0] # "newtps", Base' = Base
    PROVE  Going' \subseteq Going \cup {t}
  <1>1. /\ \A u \in Threads \ {t} : pc'[u] = pc[u] /\ now'[u] = now[u] /\ reg'[u] = reg[u]
        /\ opt' = opt
    BY RunnerFrame, RunnerOwn
  <1>2. 0 .. NumThreads - 1 \subseteq Threads /\ NumThreads' = NumThreads /\ TxRate' = TxRate
    BY <1>1, GoingIs DEF NumThreads, TxRate
  <1>3. ASSUME NEW u \in Threads \ {t} PROVE Passes(u)' <=> Passes(u)
    BY <1>1, <1>2 DEF Passes
  <1> QED BY <1>1, <1>2, <1>3 DEF Going

(* The transactions a runner counts are counted from then on. *)
LEMMA CountWriteTotal ==
    ASSUME TypeOK, PlacesInv, NEW t \in Threads, CountWrite(t)
    PROVE  Total' = Total + 1
  <1>1. /\ tx' = [tx EXCEPT ![t] = tx[t] + 1] /\ tx \in [Threads -> Nat] /\ tx[t] \in Nat
    BY DEF CountWrite, Goes, PlacesInv, TypeOK
  <1>2. PICK f, g : f = tx /\ g = tx'
    OBVIOUS
  <1>3. /\ \A u \in Threads : f[u] \in Int /\ g[u] \in Int
        /\ \A u \in Threads \ {t} : f[u] = g[u]
        /\ g[t] = f[t] + 1 /\ f[t] \in Nat
        /\ f \in [Threads -> Nat] /\ g \in [Threads -> Nat]
    BY <1>1, <1>2
  <1>4. /\ Total = SumFunctionOnSet(f, Threads) /\ IsFiniteSet(Threads)
        /\ SumFunctionOnSet(f, Threads) \in Nat
    BY <1>1, <1>2, TotalIs
  <1>5. Total' = SumFunctionOnSet(g, Threads)
    BY <1>2, <1>3 DEF Total, SumFunction
  <1>6. SumFunctionOnSet(g, Threads) = SumFunctionOnSet(f, Threads) + (g[t] - f[t])
    BY <1>3, <1>4, SumChange
  <1> QED BY <1>3, <1>4, <1>5, <1>6

(* What the steps do to the counters and to the base, those aside that     *)
(* count, or take the sum and begin to count from it.                      *)
LEMMA RunnerCounts ==
    ASSUME TypeOK, PlacesInv, NEW t \in Threads, Runner(t),
           ~ CountWrite(t), ~ SumInterval(t), ~ NewInterval(t)
    PROVE  /\ UNCHANGED <<tx, rate_last_transactions>>
           /\ pc[t] # "newbase" /\ pc'[t] # "newbase"
           /\ pc'[0] # "newtps" => pc[0] # "newtps"
           /\ Base' = Base
  <1>1. /\ UNCHANGED <<tx, rate_last_transactions>>
        /\ pc[t] \notin {"newtps", "newbase"} /\ pc'[t] # "newbase"
    <2> USE DEF TypeOK, Goes, stats, runner
    <2>1. CASE ThreadInit(t)
      BY <2>1 DEF ThreadInit
    <2>2. CASE PassBarrier(t)
      BY <2>2 DEF PassBarrier
    <2>3. CASE GetRequest(t)
      BY <2>3 DEF GetRequest
    <2>4. CASE TakeRequest(t)
      BY <2>4 DEF TakeRequest
    <2>5. CASE TakenRequest(t)
      BY <2>5 DEF TakenRequest
    <2>6. CASE Event(t)
      BY <2>6 DEF Event
    <2>7. CASE CountRead(t)
      BY <2>7 DEF CountRead
    <2>8. CASE OverTime(t)
      BY <2>8 DEF OverTime
    <2>9. CASE CheckInterval(t)
      BY <2>9 DEF CheckInterval
    <2>10. CASE ReadClock(t)
      BY <2>10 DEF ReadClock
    <2>11. CASE SumCounters(t)
      BY <2>11 DEF SumCounters
    <2>12. CASE ReadInterval(t)
      BY <2>12 DEF ReadInterval
    <2>13. CASE CompareRate(t)
      BY <2>13 DEF CompareRate, LoopAgain
    <2>14. CASE Tarpit(t)
      BY <2>14 DEF Tarpit
    <2>15. CASE RunnerEnds(t)
      BY <2>15 DEF RunnerEnds
    <2> QED BY <2>1, <2>2, <2>3, <2>4, <2>5, <2>6, <2>7, <2>8, <2>9, <2>10, <2>11, <2>12, <2>13,
               <2>14, <2>15 DEF Runner
  <1>2. \A u \in Threads \ {t} : pc'[u] = pc[u] /\ reg'[u] = reg[u]
    BY RunnerFrame
  <1>3. 0 \in Threads
    BY GoingIs
  <1>4. CASE t = 0
    BY <1>1, <1>4 DEF Base
  <1>5. CASE t # 0
    BY <1>1, <1>2, <1>3, <1>5 DEF Base
  <1> QED BY <1>1, <1>4, <1>5

(* A runner steps only while main has not reset the counters. *)
LEMMA RunnerUnreset ==
    ASSUME TypeOK, PlacesInv, NEW t \in Threads, Runner(t)
    PROVE  main \in Unreset
  <1>1. main # "exited"
    BY DEF Runner, ThreadInit, PassBarrier, GetRequest, TakeRequest, TakenRequest, Event, CountRead,
           CountWrite, OverTime, CheckInterval, SumInterval, NewInterval, ReadClock, SumCounters,
           ReadInterval, CompareRate, Tarpit, RunnerEnds, Goes
  <1>2. main \notin AfterJoin
    BY RunnerFrame DEF PlacesInv
  <1> QED BY <1>1, <1>2 DEF TypeOK, AfterJoin, Unreset

(* No runner's step makes the counters less, or the base more. *)
LEMMA RunnerBase ==
    ASSUME TypeOK, PlacesInv, BaseInv, NEW t \in Threads, Runner(t)
    PROVE  BaseInv'
  <1>1. /\ rate_last_transactions <= Total
        /\ pc[0] = "newbase" => rate_last_transactions <= reg[0] /\ reg[0] <= Total
    BY RunnerUnreset DEF BaseInv
  <1>2. /\ rate_last_transactions \in Nat /\ Total \in Nat /\ reg[0] \in Nat
        /\ reg \in [Threads -> Nat] /\ pc \in [Threads -> Points] /\ 0 \in Threads
    BY TotalIs, GoingIs DEF TypeOK, Points
  <1>3. \A u \in Threads \ {t} : pc'[u] = pc[u] /\ reg'[u] = reg[u]
    BY RunnerFrame
  <1>4. CASE CountWrite(t)
    <2>1. Total' = Total + 1 /\ rate_last_transactions' = rate_last_transactions
      BY <1>4, CountWriteTotal DEF CountWrite
    <2>2. pc'[0] = "newbase" => pc[0] = "newbase" /\ reg'[0] = reg[0]
      BY <1>2, <1>3, <1>4 DEF CountWrite, Goes
    <2> QED BY <1>1, <1>2, <2>1, <2>2 DEF BaseInv
  <1>5. CASE SumInterval(t)
    <2>1. t = 0
      BY <1>5 DEF SumInterval, Goes, PlacesInv
    <2>2. Total' = Total /\ rate_last_transactions' = rate_last_transactions /\ reg'[0] = Total
      BY <1>2, <1>5, <2>1 DEF SumInterval, stats, Total
    <2> QED BY <1>1, <1>2, <2>2 DEF BaseInv
  <1>6. CASE NewInterval(t)
    <2>1. t = 0 /\ pc[0] = "newbase"
      BY <1>6 DEF NewInterval, Goes, PlacesInv
    <2>2. Total' = Total /\ rate_last_transactions' = reg[0] /\ pc'[0] = "rate"
      BY <1>2, <1>6, <2>1 DEF NewInterval, Goes, stats, Total
    <2> QED BY <1>1, <1>2, <2>1, <2>2 DEF BaseInv
  <1>7. CASE ~ CountWrite(t) /\ ~ SumInterval(t) /\ ~ NewInterval(t)
    <2>1. UNCHANGED <<tx, rate_last_transactions>> /\ pc[t] # "newbase" /\ pc'[t] # "newbase"
      BY <1>7, RunnerCounts
    <2>2. pc'[0] = "newbase" => pc[0] = "newbase" /\ reg'[0] = reg[0]
      BY <1>2, <1>3, <2>1
    <2>3. Total' = Total
      BY <2>1 DEF Total
    <2> QED BY <1>1, <1>2, <2>1, <2>2, <2>3 DEF BaseInv
  <1> QED BY <1>4, <1>5, <1>6, <1>7

(* A step that lets its runner go only if it was going already. *)
LEMMA NotGoneRate ==
    ASSUME TypeOK, TypeOK', PlacesInv, BoundInv, NEW t \in Threads, Runner(t),
           tx' = tx, Base' = Base, pc'[0] # "newtps" => pc[0] # "newtps", t \in Going' => t \in Going
    PROVE  BoundInv'
  <1>1. SUFFICES ASSUME pc'[0] # "newtps" PROVE BoundInv'
    BY DEF BoundInv
  <1>2. Going' \subseteq Going
    BY <1>1, OthersGoing
  <1>3. opt' = opt /\ age <= age'
    <2>1. age' = age /\ age \in Nat
      BY <1>1, RunnerOwn DEF TypeOK
    <2> QED BY <2>1, RunnerFrame
  <1> QED BY <1>1, <1>2, <1>3, QuietRate

(* The steps that count nothing and let no runner go.                      *)
LEMMA QuietRunner ==
    ASSUME TypeOK, TypeOK', PlacesInv, BoundInv, NEW t \in Threads, Runner(t),
           ~ CountWrite(t), ~ SumInterval(t), ~ NewInterval(t), ~ SumCounters(t), ~ CompareRate(t)
    PROVE  BoundInv'
  <1>1. SUFFICES ASSUME pc'[0] # "newtps" PROVE BoundInv'
    BY DEF BoundInv
  <1>2. UNCHANGED <<tx, rate_last_transactions>> /\ Base' = Base /\ pc[0] # "newtps"
    BY <1>1, RunnerCounts
  <1>3. t \in 0 .. NumThreads - 1 /\ opt' = opt
    BY RunnerFrame, RunnerIsOne
  <1>4. /\ pc \in [Threads -> Points] /\ now \in [Threads -> Int] /\ age \in Nat
        /\ NumThreads' = NumThreads /\ TxRate' = TxRate
    BY <1>3 DEF TypeOK, Points, NumThreads, TxRate
  <1>5. \/ pc[t] \in {"init", "barrier", "get", "take", "taken", "event", "count1"}
        \/ pc'[t] \in {"newtps", "rate", "done", "ended"}
        \/ pc'[t] = "tps" /\ ~ (now'[t] < 0)
        \/ pc[t] = "since" /\ pc'[t] = "compare" /\ now' = now /\ reg' = reg
    <2> USE <1>4 DEF Goes, runner
    <2>1. CASE ThreadInit(t)
      BY <2>1 DEF ThreadInit
    <2>2. CASE PassBarrier(t)
      BY <2>2 DEF PassBarrier
    <2>3. CASE GetRequest(t)
      BY <2>3 DEF GetRequest
    <2>4. CASE TakeRequest(t)
      BY <2>4 DEF TakeRequest
    <2>5. CASE TakenRequest(t)
      BY <2>5 DEF TakenRequest
    <2>6. CASE Event(t)
      BY <2>6 DEF Event
    <2>7. CASE CountRead(t)
      BY <2>7 DEF CountRead
    <2>8. CASE OverTime(t)
      BY <2>8 DEF OverTime
    <2>9. CASE CheckInterval(t)
      BY <2>9 DEF CheckInterval
    <2>10. CASE ReadClock(t)
      BY <2>10 DEF ReadClock
    <2>11. CASE Tarpit(t)
      BY <2>11 DEF Tarpit
    <2>12. CASE RunnerEnds(t)
      BY <2>12 DEF RunnerEnds
    <2>13. CASE ReadInterval(t)
      BY <2>13 DEF ReadInterval
    <2> QED BY <2>1, <2>2, <2>3, <2>4, <2>5, <2>6, <2>7, <2>8, <2>9, <2>10, <2>11, <2>12, <2>13
            DEF Runner
  <1>6. t \in Going' => t \in Going
    <2>1. reg' = reg /\ now' = now => (Passes(t)' <=> Passes(t))
      BY <1>2, <1>4 DEF Passes
    <2> QED BY <1>3, <1>4, <1>5, <2>1 DEF Going
  <1> QED BY <1>2, <1>6, NotGoneRate

(* A count of one is what one runner less can still count. *)
LEMMA CountWriteRate ==
    ASSUME TypeOK, TypeOK', PlacesInv, BoundInv, NEW t \in Threads, CountWrite(t), Runner(t)
    PROVE  BoundInv'
  <1>1. SUFFICES ASSUME pc'[0] # "newtps" PROVE BoundInv'
    BY DEF BoundInv
  <1>2. /\ pc[t] = "count2" /\ pc' = [pc EXCEPT ![t] = "limit"]
        /\ pc \in [Threads -> Points]
        /\ UNCHANGED <<age, rate_last_transactions, opt>>
    BY DEF CountWrite, Goes, TypeOK, Points, clock
  <1>3. t \in 0 .. NumThreads - 1 /\ 0 \in Threads /\ NumThreads' = NumThreads
    BY <1>2, RunnerIsOne, GoingIs DEF NumThreads
  <1>4. Base' = Base
    <2>1. pc[0] = "newbase" => t # 0 /\ reg'[0] = reg[0]
      BY <1>2, <1>3, RunnerFrame
    <2>2. pc[0] = "newbase" <=> pc'[0] = "newbase"
      BY <1>2, <1>3
    <2> QED BY <1>2, <2>1, <2>2 DEF Base
  <1>5. t \in Going /\ t \notin Going'
    BY <1>2, <1>3 DEF Going
  <1>6. /\ IsFiniteSet(Going) /\ Cardinality(Going) \in Nat /\ NumThreads \in Nat
        /\ TxRate \in Nat /\ age \in Nat /\ Total \in Nat /\ Base \in Nat
        /\ TxRate * age \in Nat
    BY GoingIs, OptionsIs, TotalIs, ProductIs, BaseIs DEF TypeOK
  <1>7. Cardinality(Going') <= Cardinality(Going) - 1 /\ Cardinality(Going') \in Nat
    <2>1. Going' \subseteq Going \ {t}
      BY <1>1, <1>4, <1>5, OthersGoing
    <2>2. IsFiniteSet(Going \ {t}) /\ Cardinality(Going \ {t}) = Cardinality(Going) - 1
      BY <1>5, <1>6, FS_RemoveElement
    <2> QED BY <2>1, <2>2, FS_Subset, FS_CardinalityType
  <1>8. Total' = Total + 1
    BY CountWriteTotal
  <1>9. Total - Base + Cardinality(Going) <= TxRate * age + NumThreads
    BY <1>1, <1>2, <1>3 DEF BoundInv
  <1>10. TxRate' = TxRate /\ age' = age /\ Cardinality(Going)' = Cardinality(Going')
    BY <1>2 DEF TxRate
  <1>11. Total' - Base' + Cardinality(Going)' <= TxRate' * age' + NumThreads'
    BY <1>3, <1>4, <1>6, <1>7, <1>8, <1>9, <1>10
  <1> QED BY <1>11 DEF BoundInv

(* A new interval has nothing counted. *)
LEMMA SumIntervalRate ==
    ASSUME TypeOK, TypeOK', PlacesInv, NEW t \in Threads, SumInterval(t)
    PROVE  BoundInv'
  <1>1. Base' = Total /\ UNCHANGED <<tx, age, opt>>
    <2>1. t = 0 /\ 0 \in Threads
      BY GoingIs DEF SumInterval, Goes, PlacesInv
    <2>2. pc'[0] = "newbase" /\ reg'[0] = Total
      BY <2>1 DEF SumInterval, Goes, TypeOK
    <2> QED BY <2>2 DEF SumInterval, Base, stats, clock
  <1>2. /\ NumThreads \in Nat /\ TxRate \in Nat /\ age \in Nat /\ Total \in Nat
        /\ TxRate * age \in Nat
    BY GoingIs, OptionsIs, TotalIs, ProductIs DEF TypeOK
  <1>3. Cardinality(Going') \in Nat /\ Cardinality(Going') <= NumThreads
    <2> DEFINE N == 0 .. NumThreads - 1
    <2>1. IsFiniteSet(N) /\ Cardinality(N) = NumThreads
      BY <1>2, FS_Interval
    <2>2. Going' \subseteq N
      BY <1>1 DEF Going, NumThreads
    <2> HIDE DEF N
    <2> QED BY <2>1, <2>2, FS_Subset, FS_CardinalityType
  <1>4. /\ TxRate' = TxRate /\ NumThreads' = NumThreads /\ age' = age /\ Total' = Total
        /\ Cardinality(Going)' = Cardinality(Going')
    BY <1>1 DEF TxRate, NumThreads, Total
  <1>5. Total' - Base' + Cardinality(Going)' <= TxRate' * age' + NumThreads'
    BY <1>1, <1>2, <1>3, <1>4
  <1> QED BY <1>5 DEF BoundInv

(* That the others see it changes nothing. *)
LEMMA NewIntervalRate ==
    ASSUME TypeOK, TypeOK', PlacesInv, BoundInv, NEW t \in Threads, NewInterval(t), Runner(t)
    PROVE  BoundInv'
  <1>1. t = 0 /\ 0 \in Threads
    BY GoingIs DEF NewInterval, Goes, PlacesInv
  <1>2. /\ pc[0] = "newbase" /\ pc'[0] = "rate" /\ rate_last_transactions' = reg[0]
        /\ tx' = tx
    BY <1>1 DEF NewInterval, Goes, TypeOK, stats
  <1>3. Base' = Base
    BY <1>2 DEF Base
  <1>4. t \notin Going'
    BY <1>1, <1>2 DEF Going
  <1> QED BY <1>2, <1>3, <1>4, NotGoneRate

(* A runner that takes the sum goes only when the rate allows, or when it  *)
(* was going already.                                                      *)
LEMMA SumCountersRate ==
    ASSUME TypeOK, TypeOK', PlacesInv, BoundInv, NEW t \in Threads, SumCounters(t), Runner(t)
    PROVE  BoundInv'
  <1>1. SUFFICES ASSUME pc'[0] # "newtps" PROVE BoundInv'
    BY DEF BoundInv
  <1>2. /\ pc[t] = "tps" /\ pc' = [pc EXCEPT ![t] = "since"]
        /\ pc \in [Threads -> Points] /\ now \in [Threads -> Int]
        /\ reg' = [reg EXCEPT ![t] = Total] /\ reg \in [Threads -> Nat]
        /\ UNCHANGED <<tx, age, now, opt>>
    BY DEF SumCounters, Goes, TypeOK, Points, clock, stats
  <1>3. t \in 0 .. NumThreads - 1 /\ NumThreads' = NumThreads /\ TxRate' = TxRate
    BY <1>2, RunnerIsOne DEF NumThreads, TxRate
  <1>4. Base' = Base /\ pc[0] # "newtps"
    <2>1. ~ CountWrite(t) /\ ~ SumInterval(t) /\ ~ NewInterval(t)
      BY <1>2 DEF CountWrite, SumInterval, NewInterval, Goes
    <2> QED BY <1>1, <2>1, RunnerCounts
  <1>5. CASE t \in Going' => t \in Going
    BY <1>2, <1>4, <1>5, NotGoneRate
  <1>6. CASE t \in Going' /\ t \notin Going
    <2>1. Passes(t)' /\ now[t] \in Nat
      <3>1. ~ (now[t] < 0)
        BY <1>2, <1>3, <1>6 DEF Going
      <3>2. now'[t] = now[t] /\ now[t] \in Int /\ pc'[t] = "since"
        BY <1>2
      <3> QED BY <1>6, <3>1, <3>2 DEF Going
    <2>2. /\ IsFiniteSet(Going) /\ Cardinality(Going) \in Nat /\ NumThreads \in Nat
          /\ TxRate \in Nat /\ age \in Nat /\ Total \in Nat /\ Base \in Nat
      BY GoingIs, OptionsIs, TotalIs, BaseIs DEF TypeOK
    <2>3. /\ TxRate * age \in Nat /\ TxRate * now[t] \in Nat
          /\ TxRate * now[t] <= TxRate * age
      <3>1. now[t] <= age
        BY <1>2 DEF PlacesInv
      <3> QED BY <2>1, <2>2, <3>1, ProductIs
    <2>4. Total - Base <= TxRate * now[t]
      <3>1. reg'[t] = Total /\ now'[t] = now[t]
        BY <1>2
      <3> QED BY <1>3, <1>4, <2>1, <3>1 DEF Passes
    <2>5. Cardinality(Going) + 1 <= NumThreads
      BY <1>3, <1>6, GoingIs
    <2>6. Going' \subseteq Going \cup {t}
      BY <1>1, <1>4, OthersGoing
    <2>7. Cardinality(Going') <= Cardinality(Going) + 1 /\ Cardinality(Going') \in Nat
      <3>1. IsFiniteSet(Going \cup {t}) /\ Cardinality(Going \cup {t}) = Cardinality(Going) + 1
        BY <1>6, <2>2, FS_AddElement
      <3> QED BY <2>6, <3>1, FS_Subset, FS_CardinalityType
    <2>8. age' = age /\ Total' = Total /\ Cardinality(Going)' = Cardinality(Going')
      BY <1>2 DEF Total
    <2>9. Total' - Base' + Cardinality(Going)' <= TxRate' * age' + NumThreads'
      BY <1>3, <1>4, <2>2, <2>3, <2>4, <2>5, <2>7, <2>8
    <2> QED BY <2>9 DEF BoundInv
  <1> QED BY <1>5, <1>6

(* A runner that passes the comparison was about to: what it counts from   *)
(* is not more than the base.                                              *)
LEMMA CompareRateRate ==
    ASSUME TypeOK, TypeOK', PlacesInv, BaseInv, BoundInv, NEW t \in Threads, CompareRate(t), Runner(t)
    PROVE  BoundInv'
  <1>1. /\ pc[t] = "compare" /\ pc' = [pc EXCEPT ![t] = IF TooFast(t) THEN "tarpit" ELSE LoopAgain(t)]
        /\ pc \in [Threads -> Points] /\ now[t] \in Int /\ reg[t] \in Nat
    BY DEF CompareRate, Goes, TypeOK, Points
  <1>2. t \in 0 .. NumThreads - 1
    BY <1>1, RunnerIsOne
  <1>3. tx' = tx /\ Base' = Base /\ (pc'[0] # "newtps" => pc[0] # "newtps")
    <2>1. ~ CountWrite(t) /\ ~ SumInterval(t) /\ ~ NewInterval(t)
      BY <1>1 DEF CountWrite, SumInterval, NewInterval, Goes
    <2> QED BY <2>1, RunnerCounts
  <1>4. ASSUME t \in Going' PROVE t \in Going
    <2>1. ~ TooFast(t)
      BY <1>1, <1>4 DEF Going
    <2>2. CASE now[t] < 0
      BY <1>1, <1>2, <2>2 DEF Going
    <2>3. CASE ~ (now[t] < 0)
      <3>1. /\ rate_last_transactions \in Nat /\ Base \in Nat /\ now[t] \in Nat
            /\ TxRate \in Nat
        <4>1. now[t] \in Nat
          BY <1>1, <2>3
        <4> QED BY <4>1, BaseIs, OptionsIs DEF TypeOK
      <3>2. rate_last_transactions <= Base
        BY <3>1, RunnerUnreset DEF BaseInv, Base
      <3>3. TxRate * now[t] \in Nat
        BY <3>1, ProductIs
      <3>4. reg[t] - rate_last_transactions <= TxRate * now[t]
        BY <1>1, <2>1, <3>1, <3>3 DEF TooFast, Exceeds
      <3>5. Passes(t)
        BY <1>1, <3>1, <3>2, <3>3, <3>4 DEF Passes
      <3> QED BY <1>1, <1>2, <3>5 DEF Going
    <2> QED BY <2>2, <2>3
  <1> QED BY <1>3, <1>4, NotGoneRate

(* No runner's step breaks the rate. *)
LEMMA RunnerRate ==
    ASSUME TypeOK, RateInv, NEW t \in Threads, Runner(t)
    PROVE  RateInv'
  <1>1. opt' = opt /\ TypeOK'
    BY RunnerFrame, RunnerTypeOK
  <1>2. CASE Checkpoints # <<>>
    BY <1>1, <1>2 DEF RateInv, Checkpoints
  <1>3. CASE Checkpoints = <<>>
    <2>1. PlacesInv /\ BaseInv /\ BoundInv
      BY <1>3 DEF RateInv
    <2>2. PlacesInv' /\ BaseInv'
      BY <2>1, RunnerPlaces, RunnerBase
    <2>3. BoundInv'
      BY <1>1, <2>1, QuietRunner, CountWriteRate, SumIntervalRate, NewIntervalRate, SumCountersRate,
         CompareRateRate
    <2> QED BY <2>2, <2>3 DEF RateInv
  <1> QED BY <1>2, <1>3

(* Nor does a step of another thread that moves no runner and counts       *)
(* nothing.                                                                *)
LEMMA StillRate ==
    ASSUME TypeOK, TypeOK', BaseInv, BoundInv,
           UNCHANGED <<opt, pc, now, reg, tx, rate_last_transactions>>, age <= age',
           main' \in Unreset => main \in Unreset
    PROVE  BaseInv' /\ BoundInv'
  <1>1. Base' = Base /\ Total' = Total /\ NumThreads' = NumThreads /\ TxRate' = TxRate
    BY DEF Base, Total, NumThreads, TxRate
  <1>2. \A t \in 0 .. NumThreads - 1 : Passes(t)' <=> Passes(t)
    BY <1>1 DEF Passes
  <1>3. Going' \subseteq Going
    BY <1>1, <1>2 DEF Going
  <1>4. BaseInv'
    BY <1>1 DEF BaseInv
  <1> QED BY <1>1, <1>3, <1>4, QuietRate

(* The report thread counts nothing. *)
LEMMA ReportRate ==
    ASSUME TypeOK, RateInv, Report
    PROVE  RateInv'
  <1>1. UNCHANGED <<control, opt, clock, runner, pc, checkpoint, tx>>
    BY DEF Report, ReportStarts, ReportPassesBarrier, ReportWakes, ReportSums, ReportPrints,
           ReportStores, ReportTimes, ReportSpins, ReportCancelled, ReportUnchanged,
           vars, stats, others
  <1>2. UNCHANGED <<main, created, opt, age, pc, now, reg, rate_last_transactions, checkpoint, tx>>
    BY <1>1 DEF control, clock, runner
  <1>3. TypeOK' /\ age <= age'
    BY <1>2, ReportTypeOK DEF TypeOK
  <1>4. PlacesInv => PlacesInv'
    BY <1>2 DEF PlacesInv
  <1> QED BY <1>2, <1>3, <1>4, StillRate DEF RateInv, Checkpoints

(* A checkpoints thread that has nothing to wait for does nothing. *)
LEMMA CheckpointRate ==
    ASSUME TypeOK, RateInv, Checkpoint
    PROVE  RateInv'
  <1>1. opt' = opt
    BY DEF Checkpoint, CheckpointPassesBarrier, CheckpointNext, CheckpointWakes, CheckpointLocks,
           CheckpointPrints, CheckpointResets, CheckpointUnlocks, CheckpointCancelled,
           CheckpointUnchanged
  <1>2. checkpoint.pc # "ended"
    BY DEF Checkpoint, CheckpointPassesBarrier, CheckpointNext, CheckpointWakes, CheckpointLocks,
           CheckpointPrints, CheckpointResets, CheckpointUnlocks, CheckpointCancelled,
           CheckpointGoes
  <1>3. Checkpoints # <<>>
    BY <1>2 DEF RateInv, PlacesInv
  <1> QED BY <1>1, <1>3 DEF RateInv, Checkpoints

(* Main creates runners that may go once, and resets the counters when the *)
(* runners have been joined.                                               *)
LEMMA MainRate ==
    ASSUME TypeOK, RateInv, Main \/ Alarm \/ Tick \/ Woken \/ UNCHANGED vars
    PROVE  RateInv'
  <1>1. TypeOK'
    BY MainTypeOK
  <1>2. opt' = opt
    BY DEF Main, Alarm, Tick, Woken, vars, CreateThread, StartTimers, OpenBarrier, JoinRunners,
           SilenceReports, FinalStats, DestroyMutexes, CancelReport, CancelCheckpoint,
           JoinCheckpoint, ForcedStats
  <1>3. CASE Checkpoints # <<>>
    BY <1>2, <1>3 DEF RateInv, Checkpoints
  <1>4. CASE Checkpoints = <<>>
    <2>0. PlacesInv /\ BaseInv /\ BoundInv
      BY <1>4 DEF RateInv
    <2> SUFFICES PlacesInv' /\ BaseInv' /\ BoundInv'
      BY DEF RateInv
    <2>n. /\ NumThreads \in 1 .. MaxThreads /\ MaxThreads \in Nat /\ created \in 0 .. NumThreads
          /\ age \in Nat
      BY OptionsIs DEF TypeOK
    <2>1. CASE CreateThread
      <3>1. UNCHANGED <<opt, age, now, reg, rate_last_transactions, checkpoint, tx>>
        BY <2>1 DEF CreateThread, clock, runner, stats, others
      <3>2. CASE main' = "create"
        <4>1. /\ created' = created + 1 /\ pc[created] = "none"
              /\ pc' = [pc EXCEPT ![created] = "init"] /\ created < NumThreads
          BY <2>1, <3>2 DEF CreateThread, MainGoes, Goes
        <4>2. created \in Threads /\ pc \in [Threads -> Points]
          BY <2>n, <4>1 DEF Threads, TypeOK, Points
        <4>3. PlacesInv'
          <5>1. \A t \in Threads : t \in Int
            BY <2>n DEF Threads
          <5>2. /\ pc'[created] = "init"
                /\ \A t \in Threads : t # created => pc'[t] = pc[t]
            BY <4>1, <4>2
          <5>3. \A t \in Threads : t >= created' => pc'[t] = "none"
            <6> SUFFICES ASSUME NEW t \in Threads, t >= created'
                         PROVE  pc'[t] = "none"
              OBVIOUS
            <6>1. t >= created /\ t # created
              BY <2>n, <4>1, <5>1
            <6> QED BY <2>0, <5>2, <6>1 DEF PlacesInv
          <5>4. main' \notin AfterJoin
            BY <3>2 DEF AfterJoin
          <5>5. \A t \in Threads :
                    /\ pc'[t] = "count2" => reg'[t] = tx'[t]
                    /\ pc'[t] = "tps" => now'[t] <= age'
                    /\ pc'[t] \in {"newtps", "newbase"} => t = 0
            <6> SUFFICES ASSUME NEW t \in Threads
                         PROVE  /\ pc'[t] = "count2" => reg'[t] = tx'[t]
                                /\ pc'[t] = "tps" => now'[t] <= age'
                                /\ pc'[t] \in {"newtps", "newbase"} => t = 0
              OBVIOUS
            <6>1. CASE t = created
              BY <5>2, <6>1
            <6>2. CASE t # created
              BY <2>0, <3>1, <5>2, <6>2 DEF PlacesInv
            <6> QED BY <6>1, <6>2
          <5>6. checkpoint'.pc = "ended"
            BY <2>0, <3>1 DEF PlacesInv
          <5> QED BY <5>3, <5>4, <5>5, <5>6 DEF PlacesInv
        <4>4. /\ pc'[0] = "newtps" <=> pc[0] = "newtps"
              /\ pc'[0] = "newbase" <=> pc[0] = "newbase"
              /\ age <= age'
          BY <2>n, <3>1, <4>1, <4>2
        <4>5. /\ Base' = Base /\ Total' = Total /\ NumThreads' = NumThreads /\ TxRate' = TxRate
              /\ main = "create"
          BY <2>1, <3>1, <4>4 DEF Base, Total, NumThreads, TxRate, CreateThread, MainGoes
        <4>6. BaseInv'
          BY <2>0, <3>1, <4>4, <4>5 DEF BaseInv, Unreset
        <4>7. \A t \in 0 .. NumThreads - 1 : Passes(t)' <=> Passes(t)
          BY <3>1, <4>5 DEF Passes
        <4>8. Going' \subseteq Going
          BY <2>n, <3>1, <4>1, <4>2, <4>5, <4>7 DEF Going
        <4> QED BY <1>1, <2>0, <3>1, <4>3, <4>4, <4>5, <4>6, <4>8, QuietRate
      <3>3. CASE main' # "create"
        <4>1. main' = "exited" /\ UNCHANGED <<created, pc>>
          BY <2>1, <3>3 DEF CreateThread, MainGoes
        <4>2. PlacesInv' /\ age <= age'
          BY <2>0, <2>n, <3>1, <4>1 DEF PlacesInv, AfterJoin
        <4>3. main' \notin Unreset
          BY <4>1 DEF Unreset
        <4> QED BY <1>1, <2>0, <3>1, <4>1, <4>2, <4>3, StillRate
      <3> QED BY <3>2, <3>3
    <2>2. CASE FinalStats
      <3>1. /\ UNCHANGED <<created, opt, age, pc, now, reg, rate_last_transactions, checkpoint>>
            /\ main \in AfterJoin /\ main' \in AfterJoin /\ main' \notin Unreset
        BY <2>2 DEF FinalStats, MainGoes, AfterJoin, Unreset, clock, runner, others
      <3>2. \A t \in Threads : pc[t] \in {"none", "ended"}
        BY <2>0, <3>1 DEF PlacesInv
      <3>3. PlacesInv' /\ age <= age'
        BY <2>0, <2>n, <3>1, <3>2 DEF PlacesInv
      <3>4. CASE tx' = tx
        BY <1>1, <2>0, <3>1, <3>3, <3>4, StillRate
      <3>5. CASE tx' # tx
        <4>1. tx' = [t \in Threads |-> 0]
          BY <2>2, <3>5 DEF FinalStats, ResetCounters, stats
        <4>2. /\ NumThreads \in Nat /\ TxRate \in Nat /\ Base \in Nat
              /\ TxRate * age \in Nat
          BY <2>n, OptionsIs, ProductIs, BaseIs DEF TypeOK
        <4>3. Total' = 0
          <5>1. PICK g : g = tx'
            OBVIOUS
          <5>2. /\ \A t \in Threads : g[t] \in Nat /\ g[t] = 0
                /\ DOMAIN g = Threads
            BY <4>1, <5>1
          <5>3. Total' = SumFunctionOnSet(g, Threads)
            BY <5>1, <5>2 DEF Total, SumFunction
          <5>4. IsFiniteSet(Threads)
            BY TotalIs DEF TypeOK
          <5> QED BY <5>2, <5>3, <5>4, SumNat
        <4>4. /\ TxRate' = TxRate /\ NumThreads' = NumThreads /\ age' = age /\ Base' = Base
              /\ Cardinality(Going)' = Cardinality(Going')
          BY <3>1 DEF TxRate, NumThreads, Base
        <4>5. \A t \in 0 .. NumThreads - 1 : Passes(t)' <=> Passes(t)
          BY <3>1, <4>4 DEF Passes
        <4>6. Cardinality(Going) <= NumThreads /\ Cardinality(Going) \in Nat /\ Going' = Going
          BY <3>1, <4>4, <4>5, GoingIs DEF Going
        <4>7. Total' - Base' + Cardinality(Going)' <= TxRate' * age' + NumThreads'
          BY <4>2, <4>3, <4>4, <4>6
        <4>8. BaseInv'
          BY <3>1 DEF BaseInv
        <4> QED BY <3>3, <4>7, <4>8 DEF BoundInv
      <3> QED BY <3>4, <3>5
    <2>3. CASE JoinRunners
      <3>1. /\ UNCHANGED <<created, opt, age, pc, now, reg, rate_last_transactions, checkpoint, tx>>
            /\ (\A t \in 0 .. NumThreads - 1 : pc[t] = "ended") /\ main \in Unreset
        BY <2>3 DEF JoinRunners, MainGoes, Unreset, clock, runner, stats, others
      <3>2. \A t \in Threads : pc[t] \in {"none", "ended"}
        BY <2>0, <3>1, RunnerIsOne
      <3>3. PlacesInv' /\ age <= age'
        BY <2>0, <2>n, <3>1, <3>2 DEF PlacesInv
      <3> QED BY <1>1, <2>0, <3>1, <3>3, StillRate
    <2>4. CASE Tick
      <3>1. UNCHANGED <<main, created, opt, pc, now, reg, rate_last_transactions, checkpoint, tx>>
        BY <2>4 DEF Tick, control, runner, stats, others
      <3>2. age <= age' /\ age' \in Nat
        BY <2>4, <2>n DEF Tick
      <3>3. \A t \in Threads : now[t] \in Int
        BY DEF TypeOK
      <3>4. PlacesInv'
        BY <2>0, <2>n, <3>1, <3>2, <3>3 DEF PlacesInv
      <3> QED BY <1>1, <2>0, <3>1, <3>2, <3>4, StillRate
    <2>5. CASE ~ CreateThread /\ ~ FinalStats /\ ~ JoinRunners /\ ~ Tick
      <3>1. /\ UNCHANGED <<created, opt, age, pc, now, reg, rate_last_transactions, tx>>
            /\ checkpoint'.pc = checkpoint.pc
            /\ (main' \in AfterJoin => main \in AfterJoin) /\ (main' \in Unreset => main \in Unreset)
        BY <2>5 DEF Main, Alarm, Woken, Unreset, vars, StartTimers, OpenBarrier, SilenceReports, DestroyMutexes,
                    CancelReport, CancelCheckpoint, JoinCheckpoint, ForcedStats, MainGoes, AfterJoin,
                    control, clock, runner, stats, others, TypeOK
      <3>2. PlacesInv' /\ age <= age'
        BY <2>0, <2>n, <3>1 DEF PlacesInv
      <3> QED BY <1>1, <2>0, <3>1, <3>2, StillRate
    <2> QED BY <2>1, <2>2, <2>3, <2>4, <2>5
  <1> QED BY <1>3, <1>4

(* At first no runner is there. *)
LEMMA InitRate == Init => RateInv
  <1> SUFFICES ASSUME Init, Checkpoints = <<>> PROVE PlacesInv /\ BaseInv /\ BoundInv
    BY DEF RateInv
  <1>1. TypeOK
    BY InitTypeOK
  <1>2. PlacesInv
    BY <1>1 DEF Init, PlacesInv, AfterJoin
  <1>3. /\ Cardinality(Going) \in Nat /\ Cardinality(Going) <= NumThreads /\ NumThreads \in Nat
        /\ TxRate * age \in Nat
    BY <1>1, GoingIs, OptionsIs, ProductIs DEF TypeOK
  <1>4. Total = 0 /\ rate_last_transactions = 0 /\ pc[0] # "newbase"
    <2>1. tx \in [Threads -> Nat] /\ \A t \in Threads : tx[t] = 0
      BY DEF Init
    <2>2. 0 \in Threads
      BY <1>1, GoingIs
    <2> QED BY <2>1, <2>2, TotalIs DEF Init
  <1>5. BaseInv
    BY <1>4 DEF BaseInv
  <1> QED BY <1>2, <1>3, <1>4, <1>5 DEF BoundInv, Base

(* Without checkpoint reports: since thread 0 last began an interval, the  *)
(* transactions counted are at most what --tx-rate allows, and one for     *)
(* each thread.                                                            *)
THEOREM RateIsHeld == Spec => []RateHeld
  <1>1. Init => TypeOK /\ RateInv
    BY InitTypeOK, InitRate
  <1>2. TypeOK /\ RateInv /\ [Next]_vars => (TypeOK /\ RateInv)'
    <2> SUFFICES ASSUME TypeOK, RateInv, [Next]_vars PROVE RateInv'
      BY NextTypeOK
    <2> QED BY RunnerRate, ReportRate, CheckpointRate, MainRate DEF Next, Exited
  <1>3. TypeOK /\ RateInv => RateHeld
    <2> SUFFICES ASSUME TypeOK, BoundInv, pc[0] \notin {"newtps", "newbase"}
                 PROVE  Total - rate_last_transactions <= TxRate * age + NumThreads
      BY DEF RateInv, RateHeld
    <2>1. /\ Cardinality(Going) \in Nat /\ NumThreads \in Nat /\ TxRate * age \in Nat
          /\ Total \in Nat /\ rate_last_transactions \in Nat
      BY GoingIs, OptionsIs, ProductIs, TotalIs DEF TypeOK
    <2> QED BY <2>1 DEF BoundInv, Base
  <1> QED BY <1>1, <1>2, <1>3, PTL DEF Spec
=============================================================================
