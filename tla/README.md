# A TLA+ model of mini-infra-orchestration-lab

The repository runs small jobs on two machines.  **node1** serves an HTTP API
(Flask under gunicorn, SQLite, Redis), a load-test API and monitoring data;
**node2** runs a Go worker that consumes node1's Redis stream over the network and
keeps a Redis of its own and a fallback file for the times when node1 cannot be
reached.  What is hard about it is not what any one handler computes but that a job
passes through five stores (the `jobs` table, `jobs:stream`, a goroutine's memory,
the worker's local list or file, `jobs:status`) and seven concurrent activities, each
of which may be refused, stopped or killed between any two of its steps.  This
project models those steps, checks small instances with TLC, and proves the most
important facts for instances of every size with TLAPS.

Paths below are relative to the repository's root (`src/` here).

## 1. Inventory

| Component | Code | State it keeps | Operations |
|---|---|---|---|
| job API | `node1_api/app.py`, `models.py` | a row per job in SQLite | `POST /api/v1/jobs` (validate, insert, commit, XADD, on error mark `publish_failed`), `POST .../status`, reads and summaries |
| stuck-job checker | `node1_api/publish_failed_checker.py` (cron, hourly) | a snapshot of stuck rows | XADD again, then UPDATE to `queued` |
| `jobs:stream`, `jobs:status` | Redis on node1 | entries, group position, pending entries, MAXLEN ~ 50000 | XADD, XREADGROUP `>`, XACK |
| worker: job goroutines | `node2_worker/cmd/worker/worker.go` 46-118, `main.go` | a batch per goroutine | XREADGROUP, XACK, publish `processing`, then `done`, a push to the local list, or `dead` |
| worker: retry goroutine | `worker.go` 123-175 | local Redis list `jobs:status:failed`, the popped entry | LPOP, RPUSH with one more retry, or `dead` |
| worker: fallback file | `fallback.go` | the file, `fallbackMu` | append; replay every 30 s: publish each line, rewrite the file with what is left |
| status consumer | `node1_api/status_consumer.py` | the batch, the open SQLite transaction, `worker:stats` | UPDATE, commit, XACK, HINCRBY |
| load-test API | `node1_api/loadtest_server.py` | the dictionary `_runs` under `_lock`, one thread per run | start a run, look at it |
| SNMP collector and endpoint | `snmp_collector.py`, `app.py` 203-239 | a sorted set per node and metric, with an expiry | collect a round; latest values, history |
| dashboard, configuration, logging, deployment | `app.py` 338-, `config.*`, `log.go`, `ansible/` | none a property is about | |

How they interact.  The API and the checker write `jobs:stream`, the worker
reads it; the worker's three kinds of goroutine write `jobs:status`, the consumer
reads it; API, checker and consumer write the same SQLite rows, under one write
lock.  Inside the worker the goroutines share the fallback file (under a mutex) and
the local list.  Nobody reads a stream's pending entries back: every read uses `>`.
The load-test server runs k6, which posts jobs with the run's id; the summaries of a
run are computed from the rows.  The collector and `get_snmp` meet in Redis only.

What is hard, and what makes each part correct:

* *Worker.*  A message is acknowledged **before** it is worked on, so from then on
  the worker alone must not forget it: not on a refused command, not at a
  shutdown, not while the file is being replayed.  A line must not leave the file
  before node1 has it.  A rejected message is acknowledged after it was reported.
  The last status of a job on `jobs:status` should be its end.  Everything received
  is reported some day.
* *Status consumer.*  Commit, acknowledgement and count are three steps; a failed
  commit may leave a transaction that the next message joins, and the lock with it.
  An acknowledged status must be in the table, a row must show the latest one, a
  counter must not count twice, a status must be applied some day.
* *API and checker.*  Two stores written one after the other; a checker that works
  through an old snapshot beside everyone else; a table that the consumer may keep
  locked.  The row must exist before anyone can report on the job; every row must
  end; an ended row should stay ended.
* *Job message.*  Three languages and a database each have their own idea of an
  integer and a string.  What the API accepts the worker should run, as it was
  posted, whoever built the message.
* *Load-test API.*  An entry is read after its lock was given back.  What is shown as
  ended must be whole, and every client must get an answer.
* *SNMP.*  Sets are written in rounds, read one after the other, and expire.  No
  sample may vanish from a history, no row be torn, and no dead value be shown for ever.

`PROJECT.json` lists every hazard at its line with the properties that cover it.

## 2. Modules

| Module | Content |
|---|---|
| `RedisStream` | a stream with its group, as operators: `XAdd` (with the evictions `MAXLEN ~` may make), `Reply` / `Delivered` (XREADGROUP), `XAck`.  External: modelled from how both programs use it |
| `JobsTable` | the `jobs` table as a function, and what a transaction of UPDATEs does to it |
| `Worker` | the worker process: `Goroutine(g)`, `Retry`, `Replay`, `Process` (SIGTERM, exit, crash, restart), and `Enqueue` for node1 |
| `JobLedger` | the abstract specification of the worker: every job it takes is held until it is settled or lost, one at a time but for a crash; what is settled was held, and stays settled |
| `StatusConsumer` | the consumer process, with `Arrive` for the worker |
| `StatusWriter` | the abstract specification of the consumer: some statuses are written, each once, in their order, and a row shows the newest |
| `JobApi` | requests, admin updates and the checker on the table and `jobs:stream`, and the way of a status back to the row: the worker's reports, its fallback file and replay, the consumer's commits, failures and lock, and the death of either |
| `JobMessage` | one job's fields from the body through validation, row, message and the worker's parser |
| `Loadtest` | the load-test server with its threads and clients; the rows of a run and the computations of its summary |
| `SnmpStore` | the collector, the sorted sets with their expiry, one request |
| `MCx` | the instance of module `x` that TLC checks |
| `x_proofs` | theorems about module `x` |
| `WorkerOrder_proofs` | theorems about the order of the statuses that the worker publishes |
| `Stores_proofs` | the lemmas on streams, sequences and the table that they share |

**Composition.**  `Worker` and `StatusConsumer` share `RedisStream`; `StatusConsumer`,
`JobApi` and `Loadtest` share `JobsTable`.  Each process is modelled in full once.  `JobApi`
has the whole loop that a job goes through, with the worker and the consumer seen from
outside: what they may do to the statuses, not which of their goroutines does it.
A run of the worker reports `processing` and then its end, or its end at once if the
message does not parse (`WorkerTakes`, `WorkerReports`).  A report is published; or it is
refused and saved in the file, whether or not Redis has it after all; or it is lost.
The replay publishes the lines of the file in any order, once or again (`Replay`).  A worker
that dies loses its runs, but not the file or, if Redis has them, the failed jobs of the
local list (`WorkerDies`).  The consumer commits, fails, or is never given a status again
that was in its batch when it died or whose reply was lost (`ConsumerCommits`,
`ConsumerFails`, `ConsumerForgets`).  This is coarser than `Worker` and allows more: the order
in the file, and who holds the mutex, are left out.

**Grain.**  One command to a Redis server, one SQL transaction (in `StatusConsumer` one
statement or commit), one file append or rewrite, and one critical section or
dictionary access is one step; everything else a handler does happens in the step that
precedes or follows it.  `pc`, `rpc`, `ppc`, `cpc`, `request`, `checker`, `post`, `thread`
and `get` say between which two such steps an activity is; the comments name the
functions.  Sleeps take no step, because any other step may come between two steps;
only `SnmpStore`, whose subject is time, has a clock.

**State in `Worker`.**  `batch[g]` is the slice `runWorker` ranges over, its head the
message being processed; `hand` is the entry `retryFailedStatus` has popped; `todo`
and `remaining` are the lines `replayOnce` has not reached and those it will write
back; `fallback` is the file; `ppc = "scan"` is the time `fallbackMu` is held by the
replay.  An append holds the mutex for one step only.  `taken` is a history
variable: the jobs whose message a goroutine has received.

**State in `StatusConsumer`.**  `txn` has the ids of the entries whose UPDATE is in
SQLite's open transaction, in order; it is empty when none is open.  `committed` is a
history variable.  In `JobApi` the same transaction is `open`; while it is not empty
every other transaction fails (`Locked`).  Five history variables of `JobApi` say what has
happened to a job: the checker has added its message (`resent`), its XADD took effect but
seemed refused to its request (`misled`), an administrator has written its row (`posted`),
its `processing` went to the fallback file (`delayed`), an end of it was lost (`lost`).  The
worker's runs (`working`) and the lines of its file (`saved`) are bags of reports.

**Data.**  In `Worker` a job is one of three kinds: it succeeds, its `payload.action`
contains `force_fail`, or its message does not parse (a rejected message still has its
`job_id`, which both writers of `jobs:stream` always set); `JobMessage` says which
messages do not.  There a JSON value has a kind, and a number or boolean its value;
strings are told apart only where the code does (blank, with `force_fail`, with an
unpaired surrogate, any other).  A status line is a pair of a job and a status.  A run's
result is its exit code, 0 or another.  A sample is its time stamp.

**Faults.**  A command to node1 may be refused at any time (`LinkFails` in the worker),
always once the worker's context is cancelled (go-redis then fails before it sends).
Besides, each fault kind has a `Budget` (in `JobApi`, `Kinds` names those that may
happen), and `MaxFaults` bounds their sum: a crash, a
shutdown, a failing disk, a failing local Redis, a failing statement or commit, a trim
that drops an unread message, and a *lost reply*: the server executed the command, but
the client is told it failed, or retries and executes it twice.  A blocked XREADGROUP is
not interrupted by the cancelled context and may still deliver a batch: `ReadBatch` has
no guard on `phase`.  `Loadtest` has `MaxRestarts`; in `SnmpStore` samples, pipelines and
the process may fail as often as they like.

**`D_x` operators.**  Beside an operator `D` there may be `D_x`, the same operator with
one plausible mistake (`MuFree_NoLock`: the replay does not take the mutex).  No action
uses it.  It documents what a property is sensitive to: with `D_x` in `D`'s place TLC
finds the property violated.  `PROJECT.json` pairs each property of a passing run with one.

## 3. Runs

All of them finish within about two minutes with two TLC workers.

| Run (cfg) | Shows |
|---|---|
| `worker_faults` (`MCWorker_faults`) | one goroutine, jobs that fail on purpose or do not parse, refused commands and one fault of any kind anywhere: `TypeOK`, `Shape`, `JobsKept`, `FailingJobsKept`, `RejectedAreReported`, `SavedUntilPublished`, `LossesAreSingle`, the refinement `KeepsLedger` |
| `worker_order` (`MCWorker_order`) | two goroutines, any two of a crash, a shutdown and a disk error, streams trimmed to one entry, commands refused by the shutdown only: `EndIsLast`, `StatusOrder`, `DeadRecorded`, `LiveWritesSaved` |
| `worker_live` (`MCWorker_live`) | a job of each kind, two goroutines, a link that fails now and then and one shutdown: `JobsKept`, `JobsReported` |
| `worker_reorder` | **violated**: with refused commands `EndIsLast` fails |
| `worker_shutdown` | **violated**: with a shutdown `FailedWritesSaved` fails |
| `consumer` (`MCStatusConsumer_faults`) | a trimmed stream and one fault of any kind: `TypeOK`, `AckedIsCommitted`, `CountedOnce`, the refinement `Writes`, and `EveryReportApplied`, `LockEnds` |
| `consumer_pending` | **violated**: after a database error `UnackedIsRetried` fails |
| `api` (`MCJobApi_faults`) | one job whose message may be added twice, all five processes, and any two of eleven kinds of fault: `TypeOK`, `RowBeforeMessage`, `EveryRowEnds`, `StatusFlow` |
| `api_checker` | **violated**: `EndIsFinal` fails without any fault |
| `job_message` (`MCJobMessage`) | every body that differs from a good one in at most two fields: `TypeOK`, `DeadOnArrival`, `RunAsPosted` |
| `loadtest` (`MCLoadtest`) | two runs, two jobs, clients that post any `run_id`, a restart: `TypeOK`, `FinishedIsWhole`, `RowsOfKnownRuns`, `SummariesAgree`, `EveryRunAnswered` |
| `snmp` (`MCSnmpStore`) | failing samples, pipelines and processes against one request: `TypeOK`, `HistoryComplete`, `LatestIsRecent`, `RowsWhole` |

The four violated runs are disagreements between the code and what it or its
documentation says:

1. *A job shown as `processing` for ever* (`worker_reorder`).  `processing` is refused
   and saved in the file; `done` is published directly; the replay then publishes
   `processing`.  The consumer applies statuses in stream order.
2. *A `dead` that reaches neither node1 nor the file* (`worker_shutdown`).  `main` waits
   for the `runWorker` goroutines only; the retry goroutine may end after a refused
   publish and before its append, and the entry has already left the local list.
   `LiveWritesSaved` says that this is the only way: while the process lives no
   interleaving loses one.
3. *The retry that nobody makes* (`consumer_pending`).  A status whose UPDATE failed is
   left in the PEL "for the retry", but every read uses `>`.
4. *An ended job that is queued again* (`api_checker`).  The checker's UPDATE comes after
   its XADD and is unconditional, on a snapshot taken earlier.

`StatusFlow` says which ways there are for an ended row to change again, and that there is
no fifth: the checker sends the job a second time (4), an administrator writes the row,
the job's `processing` goes to the fallback file and is replayed after its end (1), or the
reply of the request's XADD is lost and `enqueue_job` marks the job `publish_failed` while
the worker and the consumer finish it.  A crash of any process, a refused or repeated end,
and a transaction that a failed commit leaves open do not turn a row back.

What the passing runs say about the code that its documents do not:

* *What a fault costs* (`LossesAreSingle`).  Of all faults only a crash loses several jobs
  at once, those of the batches in memory, and a retry's entry with them.  A lost reply of
  LPOP, a refused RPUSH, a disk error and a retry goroutine that ends at a shutdown cost
  the one job in hand.
* *The table can stay locked* (`LockEnds`, `EveryRowEnds`).  A commit that fails may leave
  the consumer's transaction open.  The next status releases the lock; but while it is
  held the API cannot insert, so no job and no status may follow, and the checker
  cannot mark what it has sent.  `EveryRowEnds` excepts this wait.
* *Rows that stay `processing`* (`EveryRowEnds`).  The checker looks for `queued` and
  `publish_failed` only.  A job whose end is lost (the worker dies with it or cannot save
  it, the consumer fails to write it, dies with it in its batch or never gets it) keeps
  `processing` for ever; one whose loss comes before `processing` was written is found and
  sent again.  The property excepts the former (`lost`, `delayed`), an administrator's rows
  and the wait for the lock; without any one of the first three the run `api` fails.
* *What the API accepts and the worker cannot read* (`DeadOnArrival`): `true` or an integer
  wider than 64 bits as `priority` or `user_id` is answered 202 and ends as `dead`.  An
  integer, non-empty list or non-empty object that SQLite cannot bind as `run_id`, or an
  unpaired surrogate in a string, is answered 500 (`or None` makes an empty one `None`).
* *A history's newest row may be torn* (`RowsWhole` excepts it), as the round may be
  written between two reads.  The "latest snapshot" of `node1_api/README.md:165` may mix
  rounds for the same reason, under the time stamp of the newest.
* *A restart of the load-test service forgets its runs*: 404 for a run that was answered 202.
* *A `run_id` in the table says nothing of the server* (`RowsOfKnownRuns`): `app.py:92` stores
  whatever a client posts, and `loadtest/api_stress.js` may be run by hand with a `RUN_ID` of
  its own.  Only the rows of jobs that the server's k6 has sent name runs that it knows.

Divergences that need no model checker: `POST .../status` answers 400 for `dead`, which
`node1_api/README.md:96` lists; it answers 503 "Redis write failed" for an XADD whose reply
was lost; failed status writes go to a file, not to node2's Redis as `README.md:8` says;
a run's result has no `snmp` field, which `README.md:179` shows; samples are never removed
from a sorted set while its expiry is renewed.

**Bounds, and why they are enough.**  *Jobs*: one of each kind; kinds do not
interact except through the stores, and two of them are in flight together
(`MaxQueued` 2, the same job twice included; 1 for liveness).  `worker_faults` leaves out
the kind that succeeds, whose path is the shortest (`worker_live` and `worker_order` have
it): mixing it in makes the run almost five times as large.  *Goroutines*: two where
their interleaving matters; they share nothing but the file, the stores and the
mutex, and the theorems below cover any number.  *`BatchSize`* 2 puts a message
behind another one in a batch, 1 (`worker_order`) hands two messages to two goroutines.
*`MaxRetries`* 2 gives one push back and one escalation.  *`StreamMaxLen`* is 9 (no
trim) where trims do not touch the property, 1 or 2 where they do.  *Faults*: the
scenarios of interest need one fault at a particular point; `worker_order` has two.
*`StatusConsumer`*: three entries (`MaxReports`), so that an update left behind in a
transaction has one before and one after it.  *`JobApi`*: one job, a backlog of two
messages of which one may be evicted, two runs or statuses under way (a job that the
checker sends again runs twice beside itself), and two faults in all, so that a second one
may meet what the first has left; an administrator posts one status, and this counts as a
fault.  Jobs meet in the streams' order and in the consumer's transaction only; two of
them make the liveness run several times too large, and the theorems cover any
number.  The exception `[]Locked` of `EveryRowEnds` matters between jobs: a single job
whose status has opened a transaction is excepted by `lost` already, or has another
status to come.  *`JobMessage`*: `IntMax` 1 stands
for 2^63 - 1, with numbers one past it on either side; two fields at a time, because
the checks look at one field each and only their order relates two.  *`Loadtest`*: two
runs and two jobs, a status that counts as in flight and one that does not (`Shown`; the
theorem has all six), one restart.  *`SnmpStore`*: one node with two metrics (`Order`), because a row has the
metrics of one node; a window of 2, retention 4, pause 2, `RoundTime` and `ReadTime` 1 keep
the order of the real 7200 s, 3 h, 5 s and the timeouts (a round takes at most 5 s per
sample, a request 30 s); `MaxTime` 7 lets a set expire while a request reads.  The runs of
`JobApi`, `JobMessage`, `Loadtest` and `SnmpStore` may end (all requests answered, all jobs
ended, the clock stopped), so they do not check deadlock; `Worker` and `StatusConsumer`
are checked for deadlock.

**Fairness.**  Goroutines, threads and processes are scheduled and systemd restarts them
(`Restart=always`), hence weak fairness for every step of theirs.  `sync.Mutex` does not
starve a waiter, hence strong fairness for the steps that take `fallbackMu`.  The link
does not fail for ever: strong fairness for a read that keeps finding messages
and for publishing a replayed line (`ReplayLine(TRUE)`).  Refused commands elsewhere get
no fairness, and no fault is ever required to happen.  In `JobApi` cron starts the
checker again and again and `updated_at` falls behind its cutoff; a SELECT that a lock
keeps out gets no fairness.  The worker takes messages, each job's runs go on to their
end, its saved lines are replayed, and the consumer commits: weak fairness per job, as
goroutines and the replay's ticker come round and systemd restarts what died.  That
Redis is not down for ever is in the bound on the faults there.  In `Loadtest` k6, whose script has an end, ends, and a client
goes on asking.

## 4. Proofs

Checked with TLAPS, for any values of the constants that satisfy the modules'
assumptions: `JobsAssumption` and `ConfigAssumption` (kinds of jobs are disjoint subsets
of `Jobs`; sizes are positive; budgets are naturals), `ConsumerAssumption`, `ApiAssumption`,
`LoadtestAssumption` (the jobs are finitely many), `MessageAssumption` (bodies have JSON values),
and `SnmpAssumption` (every set is visited, there is a pause, and the retention is longer than the window and
a request together).

| Theorem | Statement |
|---|---|
| `Worker_proofs!TypeAndShape`, `TypeCorrect` | `Spec => [](TypeOK /\ Shape)`, `Spec => []TypeOK` |
| `Worker_proofs!SavedIsSafe` | `Spec => SavedUntilPublished` |
| `Worker_proofs!NoJobForgotten` | `Spec => []JobsKept` |
| `Worker_proofs!NoFailingJobForgotten` | `Spec => []FailingJobsKept` |
| `Worker_proofs!DeadIsRecorded` | `Spec => []DeadRecorded` |
| `Worker_proofs!FailedWritesReachTheFile` | `Spec => LiveWritesSaved` |
| `Worker_proofs!NoSilentReject` | `Spec => []RejectedAreReported` |
| `Worker_proofs!LossesComeSingly` | `Spec => LossesAreSingle` |
| `Worker_proofs!WorkerImplementsLedger` | `Spec => KeepsLedger` |
| `WorkerOrder_proofs!StatusesStayInOrder`, `EndsStayLast` | `OnlyShutdownRefuses => (Spec => []StatusOrder)`, the same for `[]EndIsLast` |
| `StatusConsumer_proofs!ConsumerTypeCorrect` | `Spec => []TypeOK` |
| `StatusConsumer_proofs!AckedAreCommitted` | `Spec => []AckedIsCommitted` |
| `StatusConsumer_proofs!ConsumerImplementsWriter` | `Spec => Writes` |
| `StatusConsumer_proofs!NothingCountedTwice` | `Spec => []CountedOnce` |
| `JobApi_proofs!ApiTypeCorrect`, `RowsComeFirst` | `Spec => []TypeOK`, `Spec => []RowBeforeMessage` |
| `JobApi_proofs!SentOnceFlows` | `Spec => StatusFlow` |
| `Loadtest_proofs!LoadtestTypeCorrect`, `ResultsAreWhole`, `RunsComeFirst` | `Spec => []TypeOK`, `[]FinishedIsWhole`, `[]RowsOfKnownRuns` |
| `Loadtest_proofs!StatsAgree` | `Spec => []SummariesAgree` |
| `SnmpStore_proofs!SnmpTypeCorrect`, `NoSampleExpiresEarly`, `NothingStaleIsLatest` | `Spec => []TypeOK`, `[]HistoryComplete`, `[]LatestIsRecent` |
| `SnmpStore_proofs!RowsAreWhole` | `Spec => []RowsWhole` |
| `JobMessage_proofs!MessageTypeCorrect`, `OnlyNumbersKill`, `RunsWhatWasPosted` | `Spec => []TypeOK`, `[]DeadOnArrival`, `[]RunAsPosted` |

**Worker.**  `TypeOK` alone is not inductive: `Head(batch[g])` has a type only because a
goroutine that is at a message has a non-empty batch, and `Head(hand)` only because
the retry goroutine holds an entry while it handles one.  `Shape` states these two facts
and two more: a process that is down has no goroutine at work, and (`ScanShape`) while a
replay holds the mutex, every line of the file is in `todo`, in `remaining`, or published.
`ScanShape` is where the mutex matters: an append between the first line and the
rewrite would add a line that is in none of the three.  It gives `SavedUntilPublished`
directly, because the rewrite, when `todo` is empty, drops only published lines.
`JobsKept` needs one more invariant, `DeadRecorded`: a goroutine about to acknowledge a
rejected message has its `dead` on node1 or in the file.  A job leaves a batch only by
`Finish`, in four actions; in each the job's end has been recorded, or it fails on purpose.
What is recorded stays recorded by `SavedStays`.  `Exit` is allowed only when every goroutine
has stopped, so (`BatchShape`) with empty batches: this is what the wait in `main` is for.
`FailingJobsKept` adds two invariants: the process leaves "running" only by a counted
fault (`StopCounted`), so a push is not refused, and the retry goroutine holds one
entry at a time (`HandSingle`), so that clearing `hand` forgets no other.
`LiveWritesSaved` follows from `Shape` step by step: a goroutine leaves the place where it
holds an unsaved status only by the append.  `RejectedAreReported` adds `QueueShape`: the
group never gets ahead of the stream, and a message in a batch is the stream's entry with
its id.  Hence XACK settles exactly the message in hand, which `DeadRecorded` says is
recorded, or one that does parse; and a delivery puts every entry it passes, trimmed
ones excepted, into the PEL.  For `LossesAreSingle` the job that a step forgets is traced
back to the one thing that the step takes away (`BatchLosesOne`, `RetryLosesOne`): the head
of one batch, or the entry at the front of the list or in hand (`AtHand`); everything else
is kept, and what is taken without a fault is recorded.

**The worker implements `JobLedger`.**  The mapping reads `settled` as the jobs whose end is
recorded, `lost` as `Forgotten`, `crashes` as the count of crashes.  `ReadBatch` is a `Take`,
`Crash` a `Crash`; every other step leaves all jobs but one as they are (`Same`), and that
one is held: the job of a goroutine's message (`GoroutineRecords`, `GoroutineHolds`), of the
retry's entry (`RetryWorksOnOne`), or of the entry in hand at an exit.  So it is a `Settle`,
a `Lose` or a stutter (`OneChanged`).  A replay changes none (`ReplayChangesNone`): what it
publishes is a line of the file (`LeftShape`) and so recorded before, what it drops is
published (`ScanShape`).  The inductive invariant `KnownShape` says that what is held or
recorded was received.

**The order of the worker's statuses.**  `EndIsLast` is far from inductive: it speaks of
node1 alone, and what may break it waits in the file, in a replay, in a batch or in a
list.  `StatusOrder` covers these places: a job whose message was added once is
untraced until a goroutine begins with it (`BegunOnce`); whoever may publish its end finds
no beginning of it in the file (`BeganFirst`); neither in the file nor in what a replay has
left and will write back does a beginning stand behind an end (`LinesOrdered`); and if a
beginning is, or will come, behind a published end, a saved end comes behind that
(`EndFollows`).  `EndIsLast` is `EndFollows` with an empty file.  Its induction
needs in turn that a message is in one batch, once (`HeldOnce`, by stream ids, with
`QueueShape`), that the replay works on lines of the file (`LeftShape`), and that a status
was refused only if the process is stopping (`RefusedLate`): so a `processing` that goes to
the file is followed by an end that is refused too and goes there behind it, and a replay
of a running process leaves nothing behind.  That is the condition `OnlyShutdownRefuses`
(`LinkFails = FALSE` and no lost reply).  It cannot be dropped: `worker_reorder` is the
counterexample with refused commands, and a lost reply publishes a status of which the
worker thinks it was refused, and publishes it again later.  Crashes, shutdowns, disk
and local errors are allowed.

**Status consumer.**  The invariant orders the three places an entry can be in: what is
committed is older than what is in the open transaction (`TxnShape`), which is older than
what the batch still has to write (`BatchIsNewer`), although entries are skipped by errors,
crashes and trims.  With `AckShape` (a commit includes the message it is made for) it gives
`AckedIsCommitted`.  For the refinement, `log` is the stream's log and `written` is
`committed`; a commit is a `Write`, an arrival an `Arrive`, everything else stutters.  That
a `Write` makes each row show its newest status (`LatestShown`, itself invariant) is where
the order is used: the last UPDATE of the transaction is the newest entry of its row.
`CountedOnce` rests on `CountShape`: all messages of the batch but one being counted are
pending, so an acknowledgement makes room for exactly one count.

**Job API.**  `InHandPresent`: a request that is past its INSERT, and the checker, work on
rows that are there; no statement removes one (`SetStatusKeeps`, and `CommittedKeeps` of
`Stores_proofs`).  So a job goes abroad with its row.  `StatusFlow` follows a job that is
sent once from its request to its row: nothing is heard of it before the request is
answered (`RequestShape`), its message is there once and before any status of it
(`MessageShape`), and the statuses on their way, in the open transaction and behind it in
`jobs:status`, continue from what the row shows, `processing` before any end
(`ReportShape`).  `WorkShape` says the same of what the worker has: while a run has yet to
report `processing` nothing else of the job is anywhere and its row is queued, and only
ends are in the file.  So the replay, whenever it runs and however often it repeats a
line, adds an end behind the beginning, and a worker or a consumer that dies only takes
statuses away (`LessOfIt`).  All this holds of a job to which none of the four things has
happened (`SentOnce`): the histories only grow (`SentEarlier`), and by `MarkShape` the checker
does not mark what it has not sent.

**Load-test server.**  `EntryShape`: status and exit code of an entry agree, as they are set
together; `ThreadShape` and `GetShape`: an entry that was seen ended does not change again,
because the one thread that writes it is gone.  This is why reading it after the lock was
given back is harmless.  `JobShape`: a thread's k6 sends jobs of an entry that is there, and
no later step gives their rows another run.  `SummariesAgree` compares `Total`, the sum of the six counts as
`app.py` adds them, with the number of the run's rows: these are partitioned by status
(`OfStatus`), a row's status is one of the six (`RowShape`), and a finite set's parts
add up.

**SNMP.**  `StoreShape`: a sample younger than the retention is in its set, whose deadline is
not before the sample's own; so a request that is not too slow finds it, and `RequestShape`
keeps this set by set.  `RoundShape`: the newest sample of a set is at most `RoundTime` older
than the last EXPIRE, which bounds the age of what is shown.  For `RowsWhole`, `WrittenShape`
says that a round without a failed sample is written for all sets at once, and `LateShape`
that once a round was written after the request came, every later one is younger than the
request: so a row that is not the newest was written before, and `HistoryComplete` has it.

**Job message.**  `Way`: row and message are what validation let through (`Accepted`), the API
and the checker build the same message from it, and the worker has done what it parses to.

**Only model-checked**: liveness (outside the prover's reach: `JobsReported`,
`EveryReportApplied`, `LockEnds`, `EveryRowEnds`, `EveryRunAnswered`) and the violated runs.

## 5. What is not modelled, and why

* Wording of logs, HTML, JSON layout; environment variables; provisioning.
* `healthz` and `get_stats`, which read single values; the dashboard's HTML.
* In `JobApi`, requests that validation rejects: they leave no trace; they are in `JobMessage`.
* A failed append to the fallback file writes nothing here; a torn last line, which
  `replayOnce` would drop as unparsable, is left out.
* The file, the SQLite database and both Redis servers do not lose committed data.
  The consumer group exists (the code creates it at start and never again).
* Two overlapping runs of the hourly checker.
* In `JobApi` the worker's goroutines, mutex and batches, and the consumer's counters: they
  are in `Worker` and `StatusConsumer`.
* A status dropped from `jobs:status` by a trim is lost; `StatusConsumer`'s properties except
  it, `JobApi` counts it among the statuses that nobody reads (`ConsumerForgets`).
* The dashboard's own loop over the grouped rows (`app.py:356-370`), which repeats that of
  `get_jobs_stats`.
* A system clock that is set back, k6 scripts without an end, and the values of samples.
