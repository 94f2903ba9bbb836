# A verification of the benchmark clients of Percona-QA/toku-qa

`toku-qa` is a collection of benchmark and test programs for TokuDB, MySQL and MongoDB, most of
them shell around third-party code. Three of its programs have logic of their own that a test hardly
reaches, and this directory models them in TLA+, checks them with TLC and proves central invariants
with TLAPS:

* **tpcc-mysql** (`src/tokudb/software/tpcc-percona/tpcc-mysql/`): a C client that loads the TPC-C
  tables and runs the five TPC-C transactions from many threads against a MySQL server;
* **sysbench 0.5, rate limited** (`src/tokudb/software/sysbench/sysbench-0.5-rate-limited/`): its run
  control, which Percona's rate limiter and checkpoint reports were added to;
* **LinkBench** (`src/tokudb/software/linkbench/`): a Java client that keeps a social graph in MySQL,
  with a count of the links of each node in a second table.

A file name below stands for the file of that name in the program under discussion; `neword.c:165` is
line 165 of `src/neword.c`.

## 1. Inventory

### tpcc-mysql

| Part | State | Operations | Interacts with | What is hard | What makes it correct |
|---|---|---|---|---|---|
| The five transactions (`neword.c`, `payment.c`, `delivery.c`, `ordstat.c`, `slev.c`) | rows in the database; C locals read by one statement and written back by a later one | `neword()`, `payment()`, `delivery()`, `ordstat()`, `slev()` | the server, by prepared statements on one connection per thread | interleaved statements of several connections, row locks, snapshots, failures half way through | order numbers dense and unique, orders whole, no update lost, each transaction atomic, readers see whole orders, no endless wait |
| Worker loop (`driver.c`) | parameters of the transaction, attempts, global counters | `driver()`, `do_neword()` ... `do_slev()` | transactions (calls), deck (mutex), main thread (two flags) | retries after failures, counters changed without a lock, the rate limiter's pause | every transaction ends; counters never make up successes |
| Run control (`main.c`, `sequence.c`, `rthist.c`) | `activate_transaction`, `counting_on`, the interval timer, the shared deck, histograms | ramp-up, measurement, stop, join, report; `seq_get()`; the alarm handler | workers (flags, counters, deck), the kernel (SIGALRM) | lost signals, threads that stop late, the end of the deck | the mix is that of the weights, the report is of final counters, the run ends |
| Loader (`load.c`, `support.c`, `load.sh`) | loop variables, the permutation of customers | `LoadItems`, `LoadWare`, `LoadCust`, `LoadOrd` and what they call | the server; other loader processes only through their results | retries that roll back, a server that goes away, parts loaded by separate processes | what is committed is whole; success means loaded; the parts fit together |
| MySQL server (external) | committed rows, uncommitted rows, row locks, snapshots | statements, commit, rollback | all of the above | | modelled from how `thread_main()` sets up its connections (autocommit off) |
| Flat-file generator (`gen.c`) | none | writes the loader's rows to files | none | none | not modelled: output only |

### sysbench 0.5, rate limited

| Part | State | Operations | Interacts with | What is hard | What makes it correct |
|---|---|---|---|---|---|
| Run control (`sysbench.c`) | `thread_start_mutex`, `thread_exec_mutex`, three timers, `sb_globals.error`, `rate_last_seconds`, `rate_last_transactions` | `run_test()`, `runner_thread()`, `report_thread_proc()`, `checkpoints_thread_proc()`, `sigalrm_handler()` | the test's requests, the statistics, the kernel (SIGALRM, `pthread_cancel`) | a start barrier, a pause that looks at nothing but the rate, threads cancelled while they print or hold a lock, an alarm beside running threads | nobody starts early, an error stops all, the rate is held, the run ends |
| Request source (`script_lua.c`) | `nevents` | `sb_lua_get_request()`, `sb_lua_op_execute_request()` | all runners, without a lock | lost increments, the limit passed by several threads | no thread stops before `--max-requests` were given out |
| Statistics (`db_driver.c`) | `thread_stats[]` with a mutex each, `last_transactions` | `db_update_thread_stats()`, `db_print_stats()`, `db_reset_stats()`, `get_tps()` | runners, both reporting threads, main | sums and resets taken without the locks of the counters | an intermediate report counts from the last one or the last reset |
| Built-in tests, Lua interpreter, drivers | | | | | not modelled (section 8) |

### LinkBench

| Part | State | Operations | Interacts with | What is hard | What makes it correct |
|---|---|---|---|---|---|
| Link store (`LinkStoreMysql.java`) | rows of the link and the count table; two connections per store | `addLink`, `deleteLink`, `getLink`, `addBulkLinks`, `addBulkCounts`, `clearErrors`, `close` | the server, other stores through its row locks | several statements per call, what the server says of affected rows, retries after deadlocks and lock wait timeouts, errors half way | the count of a node is the number of its visible links; answers are true; no lock outlives its call |
| Loader (`LinkBenchLoad.java`) | queue of chunks, buffers of links and counts | `run()`, `createOutLinks()`, `loadLinks()`, `loadCounts()` | the driver (queue), its store | links and counts fail apart; a batch is tried again although it may be stored | nothing is dropped; what is reported as loaded is there |
| Requester (`LinkBenchRequest.java`) | requests done, errors | `run()`, `oneRequest()` | the driver, its store | failures, the time limit | it ends |
| Driver (`LinkBenchDriver.java`) | the phases, two latches | `load()`, `sendrequests()`, `concurrentExec()` | loaders and requesters | requests must not meet a load | requests start when all loaders have ended |
| Node store, list queries, other stores, distributions, statistics, MapReduce driver | | | | | not modelled (section 8) |

### The rest of the repository

| Part | Status |
|---|---|
| iiBench, iibench-java, jtest programs, MongoDB benchmarks: insert, query and delete threads that share counters and a rate | candidates (section 9) |
| Earlier copies of tpcc-mysql, sysbench and LinkBench | not modelled: older versions of the same programs |
| DeepTools, fd-monitor, atc, generator, archiving, ft, mysql-test, sql-bench, ycsb, `src/bin`, `src/graph_template` | not modelled: sequential scripts around other programs, log parsers; no state of their own |
| randgen, dbt2, open-sharding, fast-updates, downloads, result files | not modelled: third-party code and data |

`PROJECT.json` has the same list with the sources of each part, and under `hazards` every place
where the code is hard to test, with the properties that watch it.

## 2. Modules

```
tpcc-mysql
  TpccSchema        the tables, what the jobs of the five transactions are, what the
     |              loader leaves, and the consistency conditions (operators)
     +-- TpccEffects    what each transaction makes of the committed rows, and what a
     |     |            consistent database is (operators)
     |     +-- TpccEffects_proofs        each effect keeps a database consistent
     |     +-- TpccSerial      each transaction as one atomic step: the abstract specification
     +-- TpccTxn        the worker threads running the transactions   (uses RowStore)
     |     +-- TpccFootprint   the inductive invariants (TpccTxn with TpccEffects)
     |           +-- MCTpccTxn             small instances
     |           +-- TpccTxn_proofs        theorems (uses lemmas of TpccEffects_proofs)
     +-- TpccLoad       the loader processes
           +-- MCTpccLoad                small instances
           +-- TpccLoad_proofs           theorems (uses lemmas of TpccEffects_proofs)
  TpccRun               the run around the transactions: deck, rate limiter, counters, main
     +-- MCTpccRun                       small instances
     +-- TpccRun_proofs                  theorems
sysbench
  SysbenchRun           main, runners, reporting threads, alarm
     +-- MCSysbenchRun                   small instances
     +-- SysbenchRun_proofs              theorems
LinkBench
  LinkStore             the calls of the store, statement by statement  (uses LockedTable twice)
     +-- MCLinkStore                     small instances
     +-- LinkStore_proofs                theorems
     +-- LinkBench      loaders, requesters and driver around the store
           +-- MCLinkBench               small instances
           +-- LinkBench_proofs          theorems (uses those of LinkStore_proofs)
  LinkGraph             what the stores promise: the abstract specification
SumLemmas               what sums over finite sets compute (used by TpccEffects_proofs,
                        TpccRun_proofs and SysbenchRun_proofs)
```

**RowStore** is the server as tpcc-mysql uses it. `db` holds the committed rows, `cur` the rows as
last written, `lock` the connection holding each row, and `snap` the snapshot of each connection. A
plain `SELECT` takes a snapshot if there is none and never waits. `SELECT ... FOR UPDATE`, `UPDATE`,
`INSERT` and `DELETE` act on current rows and need the lock; when another connection holds it the
action is not enabled, which is the wait. Commit publishes, rollback restores. **LockedTable** is the
same for one table and connections that never use a snapshot, as LinkBench's writing connections.

**TpccTxn** has one action per statement. A label `neword3` is the statement the source numbers
`proceed = 3`. The values a thread carries from one statement to a later one are in `loc`:
`d_next_o_id` (`o`), `s_quantity` (`qty`), `c_balance` (`amt`) and so on, because stale values are
what can go wrong. `SqlErr` is the `sqlerr:` exit (rollback, return 0), `StatementFails` is any
statement failing for a reason outside the model, and `RetryOrGiveUp` is the loop of `do_*()`
(`MAX_RETRY`). A statement on an existing unique key, an item that does not exist
(`NewordInvalidItem`) and a district with nothing to deliver (`DeliverySkipDistrict`) are actions
of their own.

**TpccSerial** says what all this promises: the committed database changes only by a whole new
order, a whole payment or a whole delivery *of one district* (`delivery()` commits after each).
A delivery never passes over a waiting order, but it may be of one that was delivered before:
`delivery()` finds the order by a consistent read and does not look at how many rows its `DELETE`
removed, so two deliveries of one warehouse may credit the same order twice. Every thread delivers for
every warehouse, so that this happens (run `TpccDeliveredTwice`).

**TpccLoad** has an action per `INSERT` of `tpcc_load`, an action per commit, `Retry` for
`goto retry` after `try_stmt_execute()` rolled back, and `Exit` for `Error()`. Loaders are processes
with a list of parts and a range of warehouses. `ServerGone` stops the server at any moment. A commit
that fails may or may not have been carried out.

**TpccRun** has an action per step of `driver()`, `seq_get()`, the counting code of `do_*()` and
`main()`. An increment of a shared counter is two actions, the read and the write, and the thread's own
slot (`success2[][]`) is written by a third, after them. The clock, `success[0]` and the interval a worker
compares them with are read by steps of their own. What a transaction does to the database is left to
TpccTxn: here it succeeds in time, succeeds late, or fails.

**SysbenchRun** has a set of actions per thread: a runner's (`ThreadInit` ... `RunnerEnds`), the report
thread's, the checkpoint thread's and main's, and `Alarm`. Every unlocked read and write of shared
data is a step of its own; a thread may be cancelled only where `pthread_cancel()` takes effect, in a
sleep or while it prints. `opt`, chosen at the start, is the command line. A checkpoint resets the counters by
`memset()`, and with them the `stat_mutex` of each runner, whoever holds or waits for it: a thread that waits
may then sleep on (`asleep`) until another one contends for the lock again (`Woken`).

**LinkStore** has an action per SQL statement of a call (`InsertLink`, `UpdateCount`, ...), the commit
whose answer may be lost (`CommitCall`), the three kinds of failure the code tells apart (`Deadlock`
and `LockWaitTimeout`, after which the call starts again, with and without a rollback by the server;
`StatementFails`, an exception), and `ClearErrors`. `StoreSpec` lets every thread make any call in any
order. `doubted` collects the id1s for which the code itself gives up the count: a call on them was
retried without a rollback (section 6), or a hidden link of them was expunged.

**LinkBench** composes the stores with the loops that call them: loaders take chunks from the queue
and store links at once or in batches, requesters send their requests, the driver separates the
phases. A step of LinkBench is a step of one store together with what its caller does, or a step of
the callers alone. **LinkGraph** is what it promises: a request changes a link and its count in one
step; only while the graph is loaded may they come apart.

### Where the code is, in the model

| Code | Model |
|---|---|
| one statement of `neword.c` ... `slev.c` | an action `Neword...`, `Payment...`, `Delivery...`, `Ordstat...`, `Slev...` of TpccTxn |
| a row of a tpcc table | an element of `Rows`; `db[r]` and `cur[r]` its columns |
| `driver.c:156-182` and its like (parameters) | `Begin`, choosing from `Jobs[t]` |
| `activate_transaction`, `counting_on`, `success[]`, `success2[][]` | variables of the same names in TpccRun (`count`, `count2`) |
| `gettimeofday()`, `rate_last_seconds` | `age`, the seconds since the interval began, and `now[t]`, those up to the time a thread has read; `Tick` |
| `seq[]`, `next_num`, `mutex` | the same in TpccRun |
| `nums[]`, `perm_count` (`support.c`) | `loc[l].nums`, `loc[l].perm_count` in TpccLoad |
| `thread_start_mutex`, `thread_exec_mutex` (sysbench) | `start_locked`, `exec_mutex` |
| `thread_stats[].transactions`, `last_transactions`, `nevents` | `tx`, `last_transactions`, `nevents` |
| link table, count table of LinkBench | `linkdb`, `linkcur`, `linklock`; `countdb`, `countcur`, `countlock` |
| `nrows`, `update_count`, `update_data`, the result `found` | `AffectedRows`, and the fields of `local[t]` |
| `chunk_q`, `loadBuffer`, `countLoadBuffer`, `linksloaded` | the same in LinkBench |

`PROJECT.json` ("map") gives the lines of every definition.

## 3. Runs

| Run | What is in it | What it shows |
|---|---|---|
| `TpccTxn` (37,488 states) | two threads, one transaction each out of all five kinds; two districts, the same two stock rows in opposite order, an item that does not exist, up to three failing statements | `OrdersDense`, `OrderIdFresh`: order numbers have no gap and no duplicate, though the number is read and written back in two statements and attempts fail. `OrdersComplete`: no order is committed with lines missing. `StockConsistent`: no update of `s_quantity` is lost. `OrdstatSeesWholeOrder`, `SlevSeesEveryOrder`: readers see whole orders. `EveryThreadEnds`: no two transactions wait for each other for ever, and retries end |
| `TpccWriters` (420,444) | new orders, payments (by id and by name) and deliveries, two on each of two threads, one failing statement | `SerialSpec`: every commit is one transaction of TpccSerial. `UndeliveredListed`, `PaymentsAddUp`, `NoCreditLost`: the tables agree after every commit. `NoOrderSkipped`: no delivery passes over an older waiting order, though it found its own in an old snapshot and others deliver too. `NothingLeftBehind`: no lock and no uncommitted row outlives a transaction |
| `TpccLoad` (626,982) | two loader processes at once, each with two parts over two warehouses of two districts, two failing statements, a server that may go away | `CommittedWhole`: a committed warehouse or district is never partial. `DoneIsLoaded`: "COMPLETED SUCCESSFULLY" is true. `LoadedIsConsistent`: orders, customers and warehouses loaded by processes that never talk fit together as the transactions assume. `EveryLoadEnds`: the endless `goto retry` loops end while the server is up |
| `TpccRun` (453,680) | two workers, one transaction type, a limit they exceed, measurement begun and ended | `SharedNotAboveSum`: the first result table may fall short of the second, never exceed it; and during the run it is ahead by no more than the workers that have still to write their own slot. `RetriesTakenBackOnce`: `retry2` of a thread goes to -1 at worst. `ReportIsFinal`: nothing changes under the report. `RunEnds`: a worker in the pause, which looks at no flag, comes out of it, and main joins all |
| `TpccRunDeck` (6,603,368) | two workers, two types in a deck of two cards, three draws | `DeckDealtEvenly`: the mix is that of the weights whoever draws |
| `SysbenchRun` (1,243,349) | six command lines: by number and by time, with a target rate and with the default of none, with and without `--forced-shutdown`, with intermediate and checkpoint reports; up to two runners and one failure anywhere | `BarrierHolds`: no thread is past the barrier before all runners exist and the timers run. `RequestsServed`: lost increments of `nevents` never make a run too short. `ErrorStops`: after an error a thread takes at most the request it was about to take. `RateHeld`: in an interval the counted transactions exceed the target by one per thread at most. `RunEnds`: the run ends, whoever is cancelled where, or is `Stuck` for one of three reasons: a runner pauses without a rate and without a forced shutdown, the report thread loops over an interval of 0, or a thread sleeps at a lock that was wiped |
| `LinkBench` (1,023,104) | two threads that load two id1s, in bulk or link by link, and then send requests; two failures of any kind anywhere | `LoadedCountsMatch`: every count is the number of visible links once they are stored. `NothingDropped`, `LoadedAreStored`: batches that fail are kept, batches stored twice are counted once. `IdleHoldsNothing`: no lock outlives its call. `FoundIsTrue`: an answer is about the committed link. `GraphImplemented`: the refinement of LinkGraph. `BenchEnds`: the run ends |
| `TpccDeliveredTwice`, `TpccDeliverySnapshot`, `SysbenchReportReset`, `SysbenchReportLate`, `LinkCountTimeout` | | the five findings, section 6 |

Every property has a mutant in the modules, a small change of one definition that a slip in the
code could make (named "Mutant of ..."), which makes TLC report the property violated.

### Bounds, and why they are enough

* Two threads. The properties about transactions and calls are about pairs: a value read by one and
  changed by another. The proofs have no bound on threads.
* tpcc-mysql: two districts, one customer per district (two for names), two items, up to three orders
  a district (`MaxOrderId`; inserting a fourth fails like any statement, so the failure path is also
  exercised there). Two items and two lines are what a wrong lock order needs. `Window` 2 for the 20
  orders `slev()` looks back at: one order inside and one outside.
* `MaxRetry` 2 for 2000: both the "again" and the "give up" branch. `MaxFaults`, 1 to 3, things go wrong
  for no modelled reason, at any place; retries after one failure start from a fresh transaction, so a
  second failure meets the same states as the first. Two in TpccLoad and LinkBench, where what a
  failed call has left is met by the next; three in `TpccTxn`, so that a thread gives up and the other still fails. What a second transaction of a thread adds, a snapshot
  kept from the first, is in `TpccWriters`, with two of each thread.
* TpccRun: `MaxDraws` transactions, after which a worker waits for the end of the run (`OutOfDraws`): two in
  the run `TpccRun`, which is enough for both workers to count at once, and three from a deck of two cards
  in `TpccRunDeck`, which reach the end of the deck, whoever comes to it. `age` stops at
  `MaxAge`, where no worker is above the limit any more (`RunAssumption`).
* SysbenchRun: `secs` stops at `MaxSecs` 2 (time limit and alarm are at most 2), `age` at `MaxAge` 4, where two
  or three requests are below the rate of one a second. `RateWindow` 1 second for 10, so that intervals end
  within a run. With two requests and two threads the increments of `nevents` already race.
* LinkBench: id1s 1 and 2 with two links and one, `ChunkSize` 1 (so that a loader takes several chunks
  and both loaders get one), `BatchSizes` 0 (no bulk load) and 2 (a batch that fills in the middle of an
  id1 and one that is flushed at the end), one request per requester, of a few that meet on one id1.

### Fairness

Liveness assumes that each thread's next step is taken when it can be (weak fairness per thread): the
operating system runs the thread, and the server answers a statement that does not wait. A statement
that waits for a lock is not enabled, so nothing is assumed about waits that never end: absence of
deadlock is what is checked. Failures are never assumed to happen or to stop; they are bounded by
`faults`. `EveryLoadEnds` has the failing and the succeeding outcome under one condition so that
neither is forced; so has `SysbenchRun` in `ThreadInit` and `Event`. `RunEnds` assumes also that time
passes, that the timer keeps expiring (an interval timer), and that main goes on; the attempts of a
transaction return, which is what `EveryThreadEnds` shows. `RunEnds` of SysbenchRun assumes the same, and
that the alarm rings. `ReportSpins`, the report thread's endless loop, is a step that changes nothing, so
fairness gives no way out of it; and `Woken` has no fairness, since nobody need ever contend for the lock
again. Both cases are in `Stuck`, the exceptions of the property, beside the pause of a run without a rate, which lasts
by itself; the run `SysbenchReportLate` shows the first. `BenchEnds`
assumes weak fairness of each thread (`Works`) and of the driver; a failure is never forced, and the
time of the request phase need not be up.

## 4. What is proved

`tlapm` proves these for any values of the constants that satisfy the assumptions of the modules: any
number of threads, rows and failures.

**tpcc-mysql** (from `SchemaAssumption`, the sizes are positive naturals, and `TxnAssumption`, `Null` is
not a thread or a job, an order has a line):

* `TpccTxn_proofs!TypeCorrect`: `Spec => []TypeOK`. Besides column types it says that a thread is in
  the function of its job and that the loop over the sorted lines stays inside the order. There is
  a lemma for each action, and `NextTypeOK` puts them together.
* `TpccTxn_proofs!FootprintHolds`: `Spec => []FootprintInv`, the inductive invariant.
* From it, everything the runs check of the committed rows and of the readers: `OrdersAreDense`,
  `UndeliveredAreListed`, `OrdersAreComplete`, `PaymentsDoAddUp`, `StockIsConsistent`, `NoCreditIsLost`,
  `OrderIdsAreFresh`, `NothingIsLeftBehind`, `OrdstatSeesAll`, `SlevSeesAll`.
* `TransactionsAreSerial`: `Spec => SerialSpec`, the refinement of TpccSerial.
* `DeliveriesSkipNoOrder`: `Spec => []NoOrderSkipped`. No theorem says that an order is delivered once:
  it is not so (run `TpccDeliveredTwice`).

The argument has two halves, one about data and one about interleaving.

*Data* (`TpccEffects_proofs`). TpccEffects defines what a whole transaction makes of the committed rows
(`Ordering`, `Paying`, `Delivering`), and `ConsistentDb`: the types, dense order numbers, `new_orders`
against `o_carrier_id`, `o_ol_cnt` against the lines, and the three sums (payments against
year-to-date totals, stock against lines ordered, balances against deliveries and payments). None of
the conditions on the sums is preserved alone: the lines of a new order count as ordered only because
their row was empty before, which `OrdersConsistent` says. `OrderingConsistent`, `PayingConsistent` and
`DeliveringConsistent` show that each effect keeps all of them, `LoadedConsistent` that they hold after
the load. A sum is a fold of the community modules; `SumIs`, `SumChange` and `SumAdd` (of `SumLemmas`) and
`QuantityIs` give the few facts about sums and about the stock after several lines of one item, and are
themselves proved from the existence of a smallest counterexample among finite sets or numbers, since the induction
theorems of the library cannot be applied. `Earlier` relates an old database to a later one:
orders do not change customer or lines and do not begin to wait again.

*Interleaving* (`TpccTxn_proofs`). `Footprint(t)` says for each label which rows thread t holds and
what it has made of them, as a function of the *committed* rows: at `neword5` to `neword_commit` the
district row is the committed one with `d_next_o_id` advanced from `o` to `o + 1`, the order row is
there, and so on up to the stock rows, which are `QuantityAfter` of the lines inserted so far. That is
stable under the steps of others, because a committed row changes only under its lock. The lines are
inserted in the order of their stock rows and each once (`LinesInOrder`, which has the bijection from
the lines inserted to the lines of the job). At the commit the rows held are then exactly the effect
of TpccEffects (`NewordCommits`, `PaymentCommits`, `DeliveryCommits`), which gives both the consistency of
the database and the step of TpccSerial. What a consistent read finds is of the snapshot, which is
consistent and `Earlier` than the committed rows; that is why a delivery or an order-status that found
its order in an old snapshot finds the same order in the current rows. `OnlyCommitsChangeDb` does the rest
of the refinement.

*Deliveries*. `DELIVERY` finds the oldest order in a snapshot that may be older than its own previous
transaction (`delivery.c:228`), and others may have delivered that order since. `NoOrderSkipped` is inductive
beside `TypeOK` and `FootprintInv`. An order that waits now either existed in the snapshot, and then it waited there
(`Earlier`: none begins to wait again), so that the smallest was taken of it too; or it came later, and then
its number is higher, as the orders of the snapshot are dense (`OldestSkipsNone`). From there on every commit
either ends the waiting of an order or adds the newest one (`ChosenSkipsNone`). So at its commit the order delivered
is at or below every one that waits, which is what `TpccSerial` asks of a delivery.

The loader of tpcc-mysql (from `SchemaAssumption` and `LoadAssumption`, for any number of loader processes):

* `TpccLoad_proofs!LoadTypeCorrect`, `CommitsAreWhole`, `DoneHasLoaded`, `LoadsAreConsistent`: `Spec` implies
  `[]TypeOK`, `[]CommittedWhole`, `[]DoneIsLoaded` and `[]LoadedIsConsistent`. The invariant `LoadInv` says
  for each loader where it is (`Place`), what it has committed before (`Progress`: the parts it has done and
  the warehouses and districts before its own) and exactly which rows it has inserted since
  (`Inserted`), a function of its label and loop variables. At a commit these are the rows of one unit,
  no more and no less; a retry leaves none of them. Two loaders are never at one unit
  (`UnitsDiffer`), from the ranges `load.sh` gives out; so nobody completes or spoils another's. That
  the orders of a district are by all its customers rests on `ShuffledPermutes`: what
  `InitPermutation` leaves is a permutation, whatever it draws. TLC checked `LoadInv` on the
  configuration of the run `TpccLoad` before it was proved.

The run of tpcc-mysql (from `RunAssumption`):

* `TpccRun_proofs!DeckReadInBounds`: `Spec => []TypeOK`, which holds the deck's mutual exclusion: a worker
  is at the read of `seq[next_num]` just when it holds `mutex`, and then `next_num` is inside the deck.
  The invariant adds the shapes of the lists of counter changes, that a worker about to add 1 to
  `success[]` has read a natural number, and that no attempt follows the last one.
* `TpccRun_proofs!ReportsAreFinal`: `Spec => ReportIsFinal`, since main reports when all workers have
  ended and an ended worker takes no step.
* `TpccRun_proofs!CountsAreLost`, `RetriesAreTakenBackOnce`, `DecksAreDealtEvenly`: `Spec` implies
  `[]SharedNotAboveSum`, `[]RetriesTakenBackOnce` and `[]DeckDealtEvenly`. None is inductive; `CountInv`
  adds what makes them so. `SharedInv` bounds a shared counter by the sum of the threads' own slots and the
  number of workers that have written the one and not yet the other (`Bound`), and so also what a worker has
  *read* of it to add 1: that bound only grows, as a worker that writes its slot moves from one part of
  it to the other. In the report no worker is between the two. `RetryInv`: in the rampup every worker's retries are 0 and none is to be taken back; between two
  attempts they are not negative until the measurement is over, nor for a worker that still has to take
  one back; so the step that takes it back ends at -1 at the lowest. `DeckInv`: for some number `n` of decks, the draws are `n * Total + next_num`, and those
  of each transaction `n` times its weight and its cards among the first `next_num` of the deck. A shuffle
  keeps the cards, and so a full deck adds exactly the weight. TLC checked `CountInv` on the
  configurations of the runs `TpccRun` and `TpccRunDeck`.

**LinkBench** (from `StoreAssumption` and `BenchAssumption`):

* `LinkStore_proofs!StoreCountsMatch`: in `StoreSpec`, the count of every id1 outside `doubted` is the
  number of its visible links. The invariant `StoreInv` has the types, that a row nobody holds is as
  committed, and for each thread (`ThreadOK`) what its statement's place says of the difference between
  written and committed rows: after `InsertLink` the number of visible links of the id1 as written
  differs from the committed one by `update_count`, on rows this thread holds, and the count has not
  moved; after `UpdateCount` both have moved by it. Rows of other threads' links do not matter since
  the count row is taken by one thread at a time. So a commit moves the number and the count alike, and
  a rollback neither. The one place that breaks it is a lock wait that times out, which puts the id1
  into `doubted`. `StoreInv(X)` leaves out the id1s of a set `X` besides; here `X` is empty.
* `LinkBench_proofs!BenchTypeCorrect`: `Spec => []TypeOK`, from two invariants. `TypeInv` has the types of
  the stores, which every call keeps whatever it is (`AnyStepTypes`). `BookInv` says where each thread
  is: what it is at agrees with its task and with the call its store serves, a loader's place is inside
  a chunk, and the chunks of the queue and those under way share no id1 (`SpansDiffer`), so that
  `getTask()` never gives the same links to two loaders.
* `LinkBench_proofs!NothingIsDropped`, `LoadedLinksAreStored`: `Spec` implies `[]NothingDropped` and
  `[]LoadedAreStored`, if no `deleteLink` expunges (`HidingCalls`; LinkBench's requester always hides,
  `LinkBenchRequest.java:512`). `RunInv` adds to the two above that rows are never removed (`RowsInv`: no
  transaction under way has taken away a committed row, so neither its commit nor its rollback
  does; and one that is about to commit an insert has written all its rows), and `LoadInv`. That one says
  which links are in flight of each loader, in its buffer or in the call of its store, that those of two
  loaders differ, and the two properties themselves. A batch that fails goes back into the buffer it came from, whether or not its rows
  are stored; so nothing is lost. `linksloaded` is bounded not by the rows in the table but by those that
  are there and *not in flight* (`LoadedInv`): a batch that was stored and is tried again is not counted until
  it leaves the buffer. TLC checked `RunInv` on the configuration of the run `LinkBench`.
* `LinkBench_proofs!LoadedCountsAreRight`: `Spec => []LoadedCountsMatch`, for link by link and for every
  batch size, whatever calls the requesters make. Link by link, every step is a step of the stores and
  `StoreInv({})` holds throughout. In a bulk load it does not, as links and counts are stored apart. There
  `RowsAsMade` says that a row, committed or not, is one the loader made: a link is visible and
  not ahead of its loader, and a count is the number of links of its id1, all of them made.
  With `NothingDropped`, an id1 of which nothing is in a buffer then has either nothing in the tables
  or all its links and its count (`LoadMatches`). When the loaders have ended they hold no row
  (`EndedHold`: `close()` rolls back what a failed batch left), so `StoreInv(X)` begins to hold
  with `X` the id1s of which something was left over in a buffer (`RequestsBegin`), and requests keep it.
  A run that is halted by an `initialize()` that fails keeps its rows and buffers. `MatchInv` puts
  these together; TLC checked its parts on the configuration of the run `LinkBench`.
* `LinkBench_proofs!LocksAreReleased`: `Spec => []IdleHoldsNothing`, for bulk loads too, if requests
  make only visible links (`VisibleCalls`), as LinkBench's do; a hidden link that is new is not
  committed (hazard `LinkStoreMysql.java:323`). `HoldInv` says which rows a thread may hold at which
  statement.
* `LinkBench_proofs!FoundLinksAreThere`: `Spec => FoundIsTrue`, under `VisibleCalls`. `FoundOK` says of a
  thread that has locked its link that what it says it has found is what is *committed*. A call that was
  rolled back by a deadlock starts again without its lock and looks anew; one whose wait has timed out
  keeps the lock and meets its own write, which says nothing of the committed link unless that was
  there: then its id1 is in `doubted`, or the committed link is there indeed.
* `LinkBench_proofs!GraphIsImplemented`: `Spec => GraphImplemented`, the refinement of LinkGraph, under
  `VisibleCalls` and `HidingCalls`. A committed row changes only in the commit of the thread that holds it
  (`CommitsNothing`), so `GraphInv` is about what a thread holds and how
  what it has written differs from what is committed. `AddAt`: at its commit an `addLink` holds its link
  and at most the count of its id1; the link is as asked for, and, unless the id1 is
  in doubt, the count has moved by 1 just when the committed link is not visible. `DeleteAt`: a `deleteLink` has hidden a visible link and moved the count
  by -1, or changed nothing. `BulkAt`: a batch is of links alone or of counts alone. Those are the
  operations of LinkGraph (`AddCommitted`, `DeleteCommitted`, `BulkCommitted`). A call that starts again
  in its transaction after a wait that timed out has its link written and its count not moved, and
  will not move it: so its id1 is then in `doubted`, where LinkGraph leaves the count open. A batch is committed
  only while the graph is being loaded (`TaskOK`).

**sysbench** (from `RunAssumption`, for any options and any number of runners):

* `SysbenchRun_proofs!StartBarrierHolds`, `RequestsAreServed`, `ErrorsStop`: `Spec` implies
  `[]BarrierHolds`, `[]RequestsServed` and `[]ErrorStops`. `SysInv` adds that nobody is past the barrier
  while main holds `thread_start_mutex` and that main never again creates a runner once it has let go;
  that `nevents`, and what a runner has read of it to add 1, never exceed the requests given out; and
  that a runner that took a request after the error is past the point where it could take another.
* `SysbenchRun_proofs!SysbenchTypeCorrect`: `Spec => []TypeOK`.
* `SysbenchRun_proofs!RateIsHeld`: `Spec => []RateHeld`. A runner compares a sum of counters that others are
  changing with a time, an interval and a base it has read or will read at other moments; so the property says nothing of the
  moment at which it does. `BoundInv` counts, besides the transactions since the interval began, the runners in
  `Going`: those that may still count one before they compare again, or whose comparison is already
  bound to pass (`Passes`). The two together stay at or below `TxRate * age + NumThreads`. A runner
  that counts leaves `Going` as the sum grows, and comes back only by a comparison that found the sum at most
  `TxRate` times an age the interval has reached. A time from before the interval makes that comparison
  say nothing, so a runner that holds one is in `Going` already. A new interval starts from the sum that thread 0
  has read (`Base`: it is the base from then on, before it is written to `rate_last_transactions`),
  with at most every thread in `Going`. `PlacesInv` has
  where the runners are when main joins them, and that a runner writes back what it read plus 1,
  as nobody else writes its counter. TLC checked `RateInv` on the configuration of the run `SysbenchRun`.

## 5. What is only model-checked

* Liveness (`EveryThreadEnds`, `EveryLoadEnds`, `RunEnds` of both runs, `BenchEnds`) is
  outside the prover.

## 6. Findings

* **`delivery.c:81`**: every thread delivers for every warehouse (`num_node` is 0, `main.c:139`, and no option
  changes it). Two of them may find the same oldest order; the `DELETE` of the second removes no row, which is not
  looked at, and the customer is credited and `c_delivery_cnt` increased twice (run `TpccDeliveredTwice`).
* **`delivery.c:228`**: `delivery()` returns without the `COMMIT WORK` its comment announces. When the
  last district has nothing to deliver its `SELECT` leaves a transaction open, and the next
  transaction of the thread reads from that old snapshot (run `TpccDeliverySnapshot`).
* **`db_driver.c:844`** (sysbench): the report thread stores the sum it took before a checkpoint reset the
  counters, and the next intermediate report subtracts more than there is, in unsigned numbers (run
  `SysbenchReportReset`).
* **`sysbench.c:583`** (sysbench): the report thread reads the interval when it first runs. After the end of the
  test that is 0, and its loop over the next report time neither ends nor can be cancelled; main waits for it
  for ever (run `SysbenchReportLate`).
* **`LinkStoreMysql.java:282`**: after `ER_LOCK_WAIT_TIMEOUT` a call starts again without a rollback;
  `addLink()` then finds the link it has inserted itself, takes it for an old one and commits it without
  counting it, so that `testCount()`'s assertion fails (run `LinkCountTimeout`).

Seen while modelling, and not the subject of a run:

* tpcc-mysql: a bad-credit customer's new `c_data` is computed and then not stored, since the old text is bound to
  the `UPDATE` (`payment.c:448`; the comment at 438 says `c_data = :c_new_data`). By last name, order-status shows the
  balance of the middle customer of that name but the last order of the customer number drawn at random, because
  `c_id` is not fetched (`ordstat.c:138`). Both happen whatever else runs, and `PaymentUpdateBadCredit` and
  `OrdstatSelectByName` do the same.
* tpcc-mysql: `-n 0` makes the pause of the rate limiter endless (`driver.c:98`; `RunAssumption` asks for
  a positive limit); weights that are all 0 make an empty deck (`sequence.c:75`); the alarm handler moves
  `cur_hist` to `total_hist` while workers increment it (`rthist.c:63`).
* sysbench: with the default `--tx-rate` of 0 the loop of the rate limiter, which looks at no time limit, is not left
  once a transaction was counted (but by a thread whose interval is 0 or negative for a moment), so that
  `--max-time` limits nothing (`sysbench.c:534`; the test of the rate at line 511 is commented out). `memset()` clears the
  locks of the counters with the counters (`db_driver.c:1014`), and a thread that waits for one may never be
  woken. Both are modelled, and are in `Stuck`, the exceptions of `RunEnds`.
* sysbench: after a checkpoint `rate_last_transactions` is above the counters that were reset, so the limiter lets more through until thread 0 begins the next
  interval (why `RateHeld` excepts checkpoints).
* LinkBench: `updateLink()` says "true if updated instead of added" and returns the opposite, since `addLink()` returns
  whether the link was found (`LinkStoreMysql.java:576`, `402`); what is
  left in the buffers after `SHUTDOWN` is tried once and then dropped with the loader
  (`LinkBenchLoad.java:226`); `NodeLoader` drops a batch that fails (`NodeLoader.java:212`); with
  `randomid2max` > 0 two links of an id1 may have one id2, and the bulk count counts both
  (`ID2Chooser.java:102`). The model has `randomid2max` 0, the default.

## 7. Abstractions

The server and the transactions:

* Locks are on rows that exist or are about to; gap locks and the shared locks foreign keys take are
  left out. So `EveryThreadEnds` and `BenchEnds` show that the order of row locks is safe, not that
  InnoDB never reports a deadlock; a reported one is a failing statement (in LinkBench, `Deadlock`).
* A commit that fails in TpccTxn counts as rolled back; in TpccLoad and LinkStore both outcomes are
  possible.
* Prices are 1 and taxes and discounts 0, so an amount is a quantity. `history` and `order_line` are
  kept as one row per customer and order, holding the sequence of rows. Names, addresses and texts
  are left out; `c_data` is the number of payments recorded in it.
* The loader sets `w_ytd` to 3,000,000, which is not the sum of the `d_ytd` it sets, so
  `PaymentsAddUp` compares what has been added since. `history` counts payments since the load.
* In `LoadedDb` the orders of a district are given to customers by a rotation, one of the
  permutations the loader can draw; `TpccLoad` draws any of them.
* `num_node` is always 0 (`main.c:48`, `139`), so that every thread draws from all warehouses; its other branches
  (`driver.c:159-162` and the like) are dead and left out.

The loader of tpcc-mysql:

* One failed insert is a rollback and a retry; a server that stays away makes the loops retry for
  ever, so `EveryLoadEnds` asks for a server that stays up.
* `load.sh` gives each process its own warehouses (`LoadAssumption`); that it lets the last range
  run past the number of warehouses is not modelled.
* `UNIQUE_CHECKS=0` is not modelled: a duplicate key is reported.

The run of tpcc-mysql:

* A second of the clock is a `Tick`. Starting the timer and setting `counting_on` are one step, as
  are stopping it and clearing the flag.
* The interval timer's signal is handled by the main thread; one that comes while main is not in
  `pause()` ends no pause. The histograms (`rthist.c`), `max_rt` and the progress lines feed output
  only and are left out.

The run of sysbench:

* A sum over the counters is read in one step: they grow by ones, so what is read one by one is their
  sum at some moment in between. Of the counters there is `transactions`, the one the rate and the
  reports compare.
* The three timers start and stop together and are one clock. When they are stopped the model no longer
  tells time, and a reporting thread finishes the sleep it is in.
* The alarm is handled by the main thread. A `stat_mutex` is not modelled as a lock, since what it protects is one
  counter of one writer, read in one step; only what `memset()` does to those who wait for one is: any
  of them may be left asleep beside somebody who holds it (`Forgets`). That a thread may find such a lock free that
  another still holds is no difference here. `num_running` is printed only and left out. An event that is restarted after a deadlock counts
  as a failure, so restarts are bounded.

LinkBench:

* An id1 stands for a pair (id1, link type); `data` stands for data, time and version. The j-th link of
  an id1 goes to id1 + j, so id2s are counted from id1.
* A statement of many rows is one step: loaders have different id1s. The latch at the start of each
  phase is folded into `SendRequests`.
* The server rolls a lost connection back at the latest when `clearErrors()` closes it. Reads of the
  second connection see committed rows.
* `LockWaitTimeout` happens only to a statement that waits. A retry is bounded by `faults`.

## 8. Not modelled

* tpcc-mysql: the flat-file generator, histograms and progress lines; its other copies.
* sysbench: the built-in tests (cpu, memory, threads, mutex, fileio), which have no shared state beyond
  the request counter; the Lua interpreter (third party); option parsing; the statements of the database
  drivers and the percentiles; the copies without a rate limiter.
* LinkBench: the node store and `NodeLoader`; `getLinkList` and `countLinks` and the requesters' history
  of lists, which change no rows; warm-up and the request rate; `singleAssoc`; the stores in memory and
  over HBase and RocksDB; the MapReduce driver; statistics; the random distributions, which the model
  takes as any choice.
* The rest of the repository (section 1): much the largest part of it is third-party code in several
  copies (three Lua interpreters, five sysbenches, three tpcc-mysqls), shell, and data, with no behaviour of
  its own that a model of states and steps would tell anything about.

## 9. Plan

Done, in this order: the schema and the transactions of tpcc-mysql, their abstract specification, the
proofs about them, the loader and the proofs about it, the run control; the run control of sysbench; the link
store and the two phases of LinkBench, its abstract specification, the proofs about counts, locks and
answers and that of the refinement. Every safety property of a run is now a theorem.

Left: more of the repository. The requesters' history of lists and the node store of LinkBench; the
insert, delete and status threads of the jtest programs and of iiBench, with their common rate.

To check everything, run `tlc -config X.cfg M` for the runs of `PROJECT.json` (the name of a
configuration is that of its run) and `tlapm` on `SumLemmas` and each `_proofs` module.
