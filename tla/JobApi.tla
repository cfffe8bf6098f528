------------------------------- MODULE JobApi -------------------------------
(***************************************************************************)
(* node1's job API (node1_api/app.py: enqueue_job and update_job_status)   *)
(* and the cron job that enqueues stuck jobs again                         *)
(* (node1_api/publish_failed_checker.py).  Requests run in several         *)
(* gunicorn workers, the checker in a process of its own; they share the   *)
(* jobs table and jobs:stream with each other and with the status          *)
(* consumer.                                                               *)
(*                                                                         *)
(* Every SQL transaction and every command sent to Redis is one step.  The *)
(* worker and the status consumer are here with all they may do to the     *)
(* statuses between jobs:stream and the table: the modules Worker and      *)
(* StatusConsumer have their insides.  A status that node1 refuses the     *)
(* worker goes to its fallback file and is published later, whatever was   *)
(* published meanwhile; what either process had in hand when it died is    *)
(* never read again.  A commit of the consumer that failed may leave its   *)
(* transaction open: until the next commit it holds the write lock, and    *)
(* every other transaction fails.                                          *)
(*                                                                         *)
(* An operator named D_x is a plausible mistake in D.  No action uses it:  *)
(* put in D's place it must make a property below fail.                    *)
(***************************************************************************)
EXTENDS JobsTable, SequencesExt

CONSTANTS
  Jobs,         \* the ids of the jobs clients post, one request each
  Dying,        \* those the worker reports dead instead of done
  Posted,       \* the statuses an administrator posts
  StreamMaxLen, \* the MAXLEN of every XADD (50000 in the code)
  Kinds,        \* the kinds of fault that may happen (a bound)
  MaxFaults,    \* how many faults may happen in all (a bound)
  MaxBacklog,   \* how many messages may wait in jobs:stream (a bound)
  MaxUnderWay   \* with how many runs and statuses under way the worker takes
                \* another message (a bound)

\* What may go wrong:
\*   link       an XADD fails without effect
\*   api        a gunicorn worker dies in the middle of a request
\*   checker    the checker dies, or is killed
\*   db         a transaction raises sqlite3.Error
\*   lostReply  an XADD took effect on the server, but its reply was lost
\*   evict      the trim of an XADD drops the oldest message, unread
\*   report     an XADD of the worker fails, with or without effect, or the
\*              command that puts a failed job on its local list does
\*   worker     the worker dies
\*   commit     a transaction of the status consumer raises sqlite3.Error
\*   consumer   the consumer dies, or the reply with its batch is lost
\*   admin      not a fault: a client overwrites a job's status
FaultKind ==
  {"link", "api", "checker", "db", "lostReply", "evict", "report", "worker", "commit", "consumer",
   "admin"}

ASSUME ApiAssumption ==
  /\ Dying \subseteq Jobs
  /\ Posted \subseteq STRING
  /\ StreamMaxLen \in Nat \ {0}
  /\ Kinds \subseteq FaultKind
  /\ MaxFaults \in Nat
  /\ MaxBacklog \in Nat /\ MaxUnderWay \in Nat

VARIABLES
  db,        \* the jobs table: the status of every row
  old,       \* the rows whose updated_at is older than the checker's cutoff
  queue,     \* the messages of jobs:stream the worker has not read
  request,   \* where the POST of each job is, or how it was answered
  checker,   \* where the checker is: "idle" between two runs
  snapshot,  \* the rows its SELECT returned and it has not handled
  current,   \* the row whose message it has just added
  working,   \* how many runs of a job the worker has that report a status next
  saved,     \* how many lines of its fallback file hold a status
  reports,   \* the statuses of jobs:status the consumer has not handled
  open,      \* the updates in the consumer's open transaction
  faults,    \* how many faults have happened
  resent,    \* history: the jobs whose message the checker has added
  misled,    \* history: the jobs whose XADD took effect and seemed refused to its request
  posted,    \* history: the jobs whose row an administrator has written
  delayed,   \* history: the jobs whose `processing' went to the fallback file
  lost       \* history: the jobs of which an end was lost on its way to the row

requestVars  == <<request, misled, posted>>
checkerVars  == <<checker, snapshot, current, resent>>
workerVars   == <<working, saved, delayed>>
consumerVars == <<reports, open>>
restVars     == <<workerVars, consumerVars, lost>>
vars == <<db, old, queue, requestVars, checkerVars, restVars, faults>>

Terminal == {"done", "failed", "dead"}

\* What the worker reports of a job: the statuses it publishes to jobs:status.
Report == [job : Jobs, status : {"processing", "done", "dead"}]

Start(j) == [job |-> j, status |-> "processing"]
EndOf(j) == [job |-> j, status |-> IF j \in Dying THEN "dead" ELSE "done"]

\* A request ends in one of the HTTP codes, or without an answer.
Answered == {"202", "503", "500", "dropped"}

TypeOK ==
  /\ db \in [Jobs -> Status \cup {"absent"}]
  /\ old \subseteq Jobs
  /\ queue \in Seq(Jobs)
  /\ request \in [Jobs -> {"new", "inserted", "failed"} \cup Answered]
  /\ checker \in {"idle", "scan", "mark"}
  /\ snapshot \subseteq Jobs
  /\ current \subseteq Jobs
  /\ working \in [Report -> Nat]
  /\ saved \in [Report -> Nat]
  /\ reports \in Seq(Report)
  /\ open \in Seq(Report)
  /\ resent \subseteq Jobs /\ misled \subseteq Jobs /\ posted \subseteq Jobs
  /\ delayed \subseteq Jobs /\ lost \subseteq Jobs
  /\ faults \in Nat

Init ==
  /\ db = [j \in Jobs |-> "absent"]
  /\ old = {}
  /\ queue = <<>>
  /\ request = [j \in Jobs |-> "new"]
  /\ checker = "idle"
  /\ snapshot = {}
  /\ current = {}
  /\ working = [r \in Report |-> 0]
  /\ saved = [r \in Report |-> 0]
  /\ reports = <<>>
  /\ open = <<>>
  /\ resent = {} /\ misled = {} /\ posted = {} /\ delayed = {} /\ lost = {}
  /\ faults = 0

-----------------------------------------------------------------------------
Suffer(kind) ==
  /\ kind \in Kinds
  /\ faults < MaxFaults
  /\ faults' = faults + 1

Present(j) == db[j] # "absent"

Locked == open # <<>>

\* A transaction of the API or the checker fails: "database is locked", once
\* it has waited for the lock for five seconds, or another sqlite3.Error.
DbFails == (Locked /\ UNCHANGED faults) \/ Suffer("db")

\* UPDATE jobs SET status = ?, updated_at = now WHERE id = ?
SetStatus(j, s) ==
  /\ ~ Locked
  /\ db' = Committed(db, <<[job |-> j, status |-> s]>>)
  /\ old' = old \ {j}

\* XADD.  Its trim is the step Evict.
AddMessage(j) ==
  /\ Len(queue) < MaxBacklog
  /\ queue' = Append(queue, j)

Move(j, label) == request' = [request EXCEPT ![j] = label]

-----------------------------------------------------------------------------
(***************************************************************************)
(* POST /api/v1/jobs.  A body that parse_job_request rejects is answered   *)
(* 400 and leaves no trace; it is not modelled.                            *)
(***************************************************************************)

Insert(j) ==
  /\ request[j] = "new"
  /\ \/ /\ ~ Locked
        /\ db' = [db EXCEPT ![j] = "queued"]
        /\ Move(j, "inserted")
        /\ UNCHANGED faults
     \/ DbFails /\ Move(j, "500") /\ UNCHANGED db
  /\ UNCHANGED <<old, queue, misled, posted, checkerVars, restVars>>

Publish_BeforeInsert(j) ==
  /\ request[j] = "new"
  /\ AddMessage(j)
  /\ Move(j, "202")
  /\ UNCHANGED <<db, old, misled, posted, checkerVars, restVars, faults>>

Publish_LateError(j) ==
  /\ request[j] = "inserted"
  /\ AddMessage(j)
  /\ \/ Move(j, "202") /\ UNCHANGED faults
     \/ Suffer("link") /\ Move(j, "failed")
  /\ UNCHANGED <<db, old, misled, posted, checkerVars, restVars>>

Publish(j) ==
  /\ request[j] = "inserted"
  /\ \/ AddMessage(j) /\ Move(j, "202") /\ UNCHANGED <<misled, faults>>
     \/ Suffer("link") /\ Move(j, "failed") /\ UNCHANGED <<queue, misled>>
     \/ Suffer("lostReply") /\ AddMessage(j) /\ Move(j, "failed") /\ misled' = misled \cup {j}
  /\ UNCHANGED <<db, old, posted, checkerVars, restVars>>

MarkPublishFailed_Misspelt(j) ==
  /\ request[j] = "failed"
  /\ SetStatus(j, "publishfailed") /\ Move(j, "503")
  /\ UNCHANGED <<queue, misled, posted, checkerVars, restVars, faults>>

MarkPublishFailed(j) ==
  /\ request[j] = "failed"
  /\ \/ SetStatus(j, "publish_failed") /\ Move(j, "503") /\ UNCHANGED faults
     \/ DbFails /\ Move(j, "500") /\ UNCHANGED <<db, old>>
  /\ UNCHANGED <<queue, misled, posted, checkerVars, restVars>>

\* The gunicorn worker dies; the client gets no answer.
ApiDies(j) ==
  /\ request[j] \in {"inserted", "failed"}
  /\ Suffer("api")
  /\ Move(j, "dropped")
  /\ UNCHANGED <<db, old, queue, misled, posted, checkerVars, restVars>>

-----------------------------------------------------------------------------
(***************************************************************************)
(* POST /api/v1/jobs/<job_id>/status                                       *)
(***************************************************************************)

AllowedStatuses == {"queued", "processing", "done", "failed", "publish_failed"}

\* Any other status is answered 400, a job without a row 404: no effect.
UpdateJobStatus(j, s) ==
  /\ s \in AllowedStatuses
  /\ Present(j)
  /\ Suffer("admin")
  /\ SetStatus(j, s)
  /\ posted' = posted \cup {j}
  /\ UNCHANGED <<queue, request, misled, checkerVars, restVars>>

-----------------------------------------------------------------------------
(***************************************************************************)
(* publish_failed_checker                                                  *)
(***************************************************************************)

Stuck_FailedOnly(j) == db[j] = "publish_failed"

Stuck(j) == db[j] = "publish_failed" \/ (db[j] = "queued" /\ j \in old)

\* The SELECT.  No row: nothing to do.  It may fail while the table is locked,
\* when the lock keeps readers out as well: then nothing happens.
CheckerStart ==
  /\ checker = "idle"
  /\ \E j \in Jobs : Stuck(j)
  /\ snapshot' = {j \in Jobs : Stuck(j)}
  /\ checker' = "scan"
  /\ UNCHANGED <<db, old, queue, requestVars, current, resent, restVars, faults>>

\* One row of the snapshot, whatever its status is by now.
CheckerPublish(j) ==
  /\ checker = "scan"
  /\ j \in snapshot
  /\ snapshot' = snapshot \ {j}
  /\ AddMessage(j)
  /\ resent' = resent \cup {j}
  /\ \/ checker' = "mark" /\ current' = {j} /\ UNCHANGED faults
     \/ Suffer("lostReply") /\ UNCHANGED <<checker, current>>
  /\ UNCHANGED <<db, old, requestVars, restVars>>

CheckerSkip(j) ==
  /\ checker = "scan"
  /\ j \in snapshot
  /\ Suffer("link")
  /\ snapshot' = snapshot \ {j}
  /\ UNCHANGED <<db, old, queue, requestVars, checker, current, resent, restVars>>

CheckerMark ==
  /\ checker = "mark"
  /\ \E j \in current : SetStatus(j, "queued")
  /\ checker' = "scan"
  /\ current' = {}
  /\ UNCHANGED <<queue, requestVars, snapshot, resent, restVars, faults>>

CheckerEnd ==
  /\ checker' = "idle"
  /\ snapshot' = {}
  /\ current' = {}
  /\ UNCHANGED <<db, old, queue, requestVars, resent, restVars>>

CheckerDone == checker = "scan" /\ snapshot = {} /\ CheckerEnd /\ UNCHANGED faults

\* An sqlite3.Error of the UPDATE is not caught.
CheckerFails == checker = "mark" /\ DbFails /\ CheckerEnd

CheckerDies == checker # "idle" /\ Suffer("checker") /\ CheckerEnd

-----------------------------------------------------------------------------
(***************************************************************************)
(* The worker                                                              *)
(***************************************************************************)

UnderWay == FoldFunction(+, 0, working) + FoldFunction(+, 0, saved) + Len(reports)

\* What is reported first: of a message that does not parse, its end.
First(j) == {Start(j)} \cup {EndOf(i) : i \in Dying \cap {j}}

\* A message is read, once and for all, and acknowledged.
WorkerTakes ==
  /\ queue # <<>>
  /\ UnderWay < MaxUnderWay
  /\ \E r \in First(Head(queue)) : working' = [working EXCEPT ![r] = @ + 1]
  /\ queue' = Tail(queue)
  /\ UNCHANGED <<db, old, requestVars, checkerVars, saved, delayed, consumerVars, lost, faults>>

\* A job runs once it has reported `processing', and ends with its last report.
GoesOn(r) ==
  LET others == [working EXCEPT ![r] = @ - 1]
  IN  working' = IF r.status = "processing" THEN [others EXCEPT ![EndOf(r.job)] = @ + 1] ELSE others

AddReport(r) == reports' = Append(reports, r)

Ends(rs) == {r.job : r \in {r \in rs : r.status # "processing"}}

Delays(r) == IF r.status = "processing" THEN {r.job} ELSE {}

\* The status that was refused, or seems to have been, is saved.
Save(r) ==
  /\ saved' = [saved EXCEPT ![r] = @ + 1]
  /\ delayed' = delayed \cup Delays(r)

\* Each of the runs reports its next status: it is published; it is refused,
\* or seems to be, and saved; or it is neither published nor saved, when the
\* disk fails or a failed job's entry does not reach the local list.
WorkerReports(r) ==
  /\ working[r] > 0
  /\ GoesOn(r)
  /\ \/ AddReport(r) /\ UNCHANGED <<saved, delayed, lost, faults>>
     \/ Suffer("report") /\ Save(r) /\ (AddReport(r) \/ UNCHANGED reports) /\ UNCHANGED lost
     \/ Suffer("report") /\ lost' = lost \cup Ends({r}) /\ UNCHANGED <<saved, delayed, reports>>
  /\ UNCHANGED <<db, old, queue, requestVars, checkerVars, open>>

\* The replay publishes a line and takes it out of the file, unless the reply
\* is lost or the file cannot be rewritten: then it publishes the line again,
\* as it does with a line that is refused.
Replay(r) ==
  /\ saved[r] > 0
  /\ \/ saved' = [saved EXCEPT ![r] = @ - 1] /\ UNCHANGED faults
     \/ Suffer("report") /\ UNCHANGED saved
  /\ AddReport(r)
  /\ UNCHANGED <<db, old, queue, requestVars, checkerVars, working, delayed, open, lost>>

\* The worker dies and is started again.  It never asks for a message again;
\* the file is still there, and so are failed jobs on the local list.
WorkerDies ==
  /\ Suffer("worker")
  /\ \E kept \in SUBSET {r \in Report : r.status = "dead"} :
       /\ working' = [r \in Report |-> IF r \in kept THEN working[r] ELSE 0]
       /\ lost' = lost \cup Ends({r \in Report \ kept : working[r] > 0})
  /\ UNCHANGED <<db, old, queue, requestVars, checkerVars, saved, delayed, consumerVars>>

-----------------------------------------------------------------------------
(***************************************************************************)
(* The status consumer                                                     *)
(***************************************************************************)

\* The next status joins the open transaction, whose commit ends the lock.
ConsumerCommits ==
  /\ reports # <<>>
  /\ LET txn == Append(open, Head(reports))
     IN  /\ db' = Committed(db, txn)
         /\ old' = {j \in old : ~ Updated(j, txn)}
  /\ reports' = Tail(reports)
  /\ open' = <<>>
  /\ UNCHANGED <<queue, requestVars, checkerVars, workerVars, lost, faults>>

\* The UPDATE or the commit fails, and nobody reads the status again; the
\* transaction is rolled back or stays open.
ConsumerFails ==
  /\ reports # <<>>
  /\ Suffer("commit")
  /\ open' \in {<<>>, open, Append(open, Head(reports))}
  /\ lost' = lost \cup Ends({Head(reports)})
  /\ reports' = Tail(reports)
  /\ UNCHANGED <<db, old, queue, requestVars, checkerVars, workerVars>>

\* The statuses of a batch that nobody reads again: the consumer dies, which
\* rolls an open transaction back, or the reply of its XREADGROUP is lost.
\* Statuses that MAXLEN drops unread are lost like the latter.
ConsumerForgets ==
  /\ Suffer("consumer")
  /\ \E n \in 0 .. Len(reports) :
       /\ reports' = SubSeq(reports, n + 1, Len(reports))
       /\ lost' = lost \cup Ends({reports[m] : m \in 1 .. n})
  /\ open' \in {<<>>, open}
  /\ UNCHANGED <<db, old, queue, requestVars, checkerVars, workerVars>>

-----------------------------------------------------------------------------
(***************************************************************************)
(* Time, and Redis                                                         *)
(***************************************************************************)

\* updated_at falls behind the cutoff; only of a queued row does anyone ask.
Age(j) ==
  /\ db[j] = "queued"
  /\ j \notin old
  /\ old' = old \cup {j}
  /\ UNCHANGED <<db, queue, requestVars, checkerVars, restVars, faults>>

\* MAXLEN ~: once there are more messages than that, the oldest may go.
Evict ==
  /\ Len(queue) > StreamMaxLen
  /\ Suffer("evict")
  /\ queue' = Tail(queue)
  /\ UNCHANGED <<db, old, requestVars, checkerVars, restVars>>

-----------------------------------------------------------------------------
Request(j) == Insert(j) \/ Publish(j) \/ MarkPublishFailed(j) \/ ApiDies(j)

Checker ==
  \/ CheckerStart \/ CheckerMark \/ CheckerDone \/ CheckerFails \/ CheckerDies
  \/ \E j \in Jobs : CheckerPublish(j) \/ CheckerSkip(j)

Next ==
  \/ \E j \in Jobs : Request(j) \/ Age(j)
  \/ \E j \in Jobs, s \in Posted : UpdateJobStatus(j, s)
  \/ Checker
  \/ Evict
  \/ WorkerTakes \/ WorkerDies
  \/ \E r \in Report : WorkerReports(r) \/ Replay(r)
  \/ ConsumerCommits \/ ConsumerFails \/ ConsumerForgets

Spec == Init /\ [][Next]_vars

(***************************************************************************)
(* Fairness: a started request goes on, time passes, cron runs the checker *)
(* and the checker goes on, the worker and the consumer work.  A SELECT    *)
(* that the lock keeps out need not ever succeed.  That Redis does not     *)
(* refuse a status or a stuck job's message for ever is in MaxFaults.      *)
(***************************************************************************)
CheckerGoesOn ==
  \/ CheckerStart /\ ~ Locked
  \/ CheckerMark \/ CheckerDone \/ CheckerFails
  \/ \E j \in Jobs : CheckerPublish(j) \/ CheckerSkip(j)

Fairness ==
  /\ \A j \in Jobs :
       /\ WF_vars(Publish(j) \/ MarkPublishFailed(j))
       /\ WF_vars(Age(j))
       /\ WF_vars(WorkerReports(Start(j)) \/ WorkerReports(EndOf(j)))
       /\ WF_vars(Replay(Start(j)) \/ Replay(EndOf(j)))
  /\ WF_vars(CheckerGoesOn)
  /\ WF_vars(WorkerTakes) /\ WF_vars(ConsumerCommits)

FairSpec == Spec /\ Fairness

-----------------------------------------------------------------------------
(***************************************************************************)
(* Properties                                                              *)
(***************************************************************************)

(***************************************************************************)
(* Whatever carries a job's id outside the table finds its row there: the  *)
(* INSERT is committed before the message is added (enqueue_job), so no    *)
(* status of a job is lost on an UPDATE that matches no row.               *)
(***************************************************************************)
InWork == {r \in Report : working[r] + saved[r] > 0}

Abroad == ToSet(queue) \cup {r.job : r \in InWork \cup ToSet(reports) \cup ToSet(open)}

RowBeforeMessage == \A j \in Abroad : Present(j)

(***************************************************************************)
(* Every job that has a row is one day seen ended: when its message was    *)
(* refused, was evicted by MAXLEN, was never sent because the API died, or *)
(* was in the hands of a worker that died before `processing' was written, *)
(* the checker finds it and enqueues it (publish_failed_checker.main).     *)
(* Excepted are                                                            *)
(*   - a job whose end was lost: it ran in a worker that died, its end     *)
(*     could not be saved, or the consumer failed to write it, died with   *)
(*     it in its batch, or never saw it because its reply was lost or      *)
(*     MAXLEN dropped it (no one looks for rows that stay `processing');   *)
(*   - a job whose `processing' went to the fallback file, for the replay  *)
(*     may undo its end (worker.go:62-66, fallback.go:70);                 *)
(*   - an intervention of an administrator;                                *)
(*   - other jobs, when the consumer's failed commit leaves the table      *)
(*     locked and no status ever comes to release it: then API, checker    *)
(*     and consumer wait for each other.                                   *)
(***************************************************************************)
EveryRowEnds ==
  \A j \in Jobs :
    [](Present(j) => <>(\/ db[j] \in Terminal
                        \/ j \in delayed \cup lost \cup posted
                        \/ []Locked))

(***************************************************************************)
(* A job whose message was added once, by its request, and whose           *)
(* `processing' node1 did not refuse goes through its statuses as          *)
(* node1_api/README.md:82 says: queued -> processing -> done or dead, a    *)
(* status that was lost left out; or from queued to publish_failed, when   *)
(* its message was refused.  A crash of any process, an end that is        *)
(* refused, or published twice, or left in an open transaction does not    *)
(* turn a row back.  So there are four ways to an ended job's change: the  *)
(* checker has sent it a second time, an administrator has intervened,     *)
(* enqueue_job marks a job whose XADD took effect after all                *)
(* (app.py:118-135), or its `processing' was saved, and replayed after its *)
(* end (worker.go:62-66, fallback.go:70).                                  *)
(***************************************************************************)
Flow ==
  {<<"absent", "queued">>, <<"queued", "publish_failed">>, <<"queued", "processing">>}
    \cup {"queued", "processing"} \X {"done", "dead"}

SentOnce(j) == j \notin resent \cup misled \cup posted \cup delayed

StatusFlow ==
  [][\A j \in Jobs : SentOnce(j)' => db'[j] = db[j] \/ <<db[j], db'[j]>> \in Flow]_vars

(***************************************************************************)
(* A job that was seen ended stays ended (node1_api/README.md:82: queued   *)
(* -> processing -> done / failed / dead).                                 *)
(***************************************************************************)
EndIsFinal ==
  [][\A j \in Jobs : db[j] \in Terminal => db'[j] \in Terminal]_vars

=============================================================================
