--------------------------- MODULE StatusConsumer ---------------------------
(***************************************************************************)
(* node1's status consumer (node1_api/status_consumer.py): a process that  *)
(* reads jobs:status in batches, writes each status to the jobs table,     *)
(* acknowledges the entry and counts it in the hash worker:stats.          *)
(*                                                                         *)
(* Every command sent to Redis and every SQL statement is one step.  An    *)
(* UPDATE opens a transaction, which holds the database's write lock until *)
(* it is committed; a failing commit may leave it open, and the next       *)
(* message's UPDATE then joins it.                                         *)
(*                                                                         *)
(* An operator named D_x is a plausible mistake in D.  No action uses it:  *)
(* put in D's place it must make a property below fail.                    *)
(***************************************************************************)
EXTENDS RedisStream, JobsTable, SequencesExt

CONSTANTS
  Jobs,       \* job ids the table has a row for
  Strangers,  \* job ids it has none for
  BatchSize,  \* the COUNT of XREADGROUP (10 in the code)
  StreamMaxLen, \* the MAXLEN of the worker's XADD (50000 in the code)
  Budget,     \* how often each fault may happen (a bound)
  MaxFaults,  \* how many faults may happen in all (a bound)
  MaxReports  \* how many entries jobs:status may ever hold (a bound)

\* What may go wrong:
\*   link       a command to Redis fails without effect
\*   crash      the process dies at once
\*   stop       SIGTERM or SIGINT: handle_signal clears `running'
\*   db         an UPDATE or a commit raises sqlite3.Error
\*   lostReply  a command took effect on the server, but its reply was lost
FaultKind == {"link", "crash", "stop", "db", "lostReply"}

ASSUME ConsumerAssumption ==
  /\ Jobs \cap Strangers = {}
  /\ BatchSize \in Nat \ {0}
  /\ StreamMaxLen \in Nat \ {0}
  /\ Budget \in [FaultKind -> Nat]
  /\ MaxFaults \in Nat
  /\ MaxReports \in Nat

ALLOWED_STATUSES == {"queued", "processing", "done", "failed", "publish_failed", "dead"}

STAT_MAP == [done |-> "processed", failed |-> "failed", dead |-> "dead"]

\* What others add to jobs:status: the worker's statuses, and one the
\* consumer does not know.
Report == [job : Jobs \cup Strangers, status : {"processing", "done", "dead", "unknown"}]

VARIABLES
  status,     \* jobs:status with the consumer's group
  db,         \* the committed status of every row
  txn,        \* the entries (ids) whose UPDATE is in the open transaction
  batch,      \* the entries of the current batch still to handle
  cpc,        \* where the process is
  running,    \* the loop's flag
  stats,      \* the hash worker:stats
  faults,     \* how often each fault has happened
  committed   \* history: the entries whose UPDATE was committed

consumerVars == <<txn, batch, cpc, running>>
vars == <<status, db, consumerVars, stats, faults, committed>>

Message == [id : Nat, body : Report]

TypeOK ==
  /\ status \in Stream(Report)
  /\ db \in [Jobs -> ALLOWED_STATUSES]
  /\ txn \in Seq(Nat)
  /\ batch \in Seq(Message)
  /\ cpc \in {"poll", "reading", "message", "commit", "ack", "count", "down"}
  /\ running \in BOOLEAN
  /\ stats \in [{"processed", "failed", "dead"} -> Nat]
  /\ faults \in [FaultKind -> Nat]
  /\ committed \subseteq Nat

Init ==
  /\ status = EmptyStream
  /\ db = [j \in Jobs |-> "queued"]
  /\ txn = <<>>
  /\ batch = <<>>
  /\ cpc = "poll"
  /\ running = TRUE
  /\ stats = [f \in {"processed", "failed", "dead"} |-> 0]
  /\ faults = [k \in FaultKind |-> 0]
  /\ committed = {}

-----------------------------------------------------------------------------
FaultsSoFar == FoldFunction(+, 0, faults)

Suffer(kind) ==
  /\ faults[kind] < Budget[kind]
  /\ FaultsSoFar < MaxFaults
  /\ faults' = [faults EXCEPT ![kind] = @ + 1]

Current == Head(batch)

NextMessage_DropsBatch == batch' = <<>> /\ cpc' = "poll"

\* Back to the for loop: the next message, or the next turn of the while.
NextMessage ==
  /\ batch' = Tail(batch)
  /\ cpc' = IF Len(batch) = 1 THEN "poll" ELSE "message"

\* An exception nobody catches, a kill, or the end of main: the interpreter
\* closes the connection, which rolls the open transaction back.
Halt ==
  /\ cpc' = "down"
  /\ batch' = <<>>
  /\ txn' = <<>>

Poll ==
  /\ cpc = "poll"
  /\ IF running THEN cpc' = "reading" /\ UNCHANGED <<batch, txn>> ELSE Halt
  /\ UNCHANGED <<status, db, running, stats, faults, committed>>

ReadBatch ==
  /\ cpc = "reading"
  /\ HasUnread(status)
  /\ status' = Delivered(status, BatchSize)
  /\ batch' = Reply(status, BatchSize)
  /\ cpc' = "message"
  /\ UNCHANGED <<db, txn, running, stats, faults, committed>>

\* BLOCK ran out, or a RedisError: back to the top either way.
ReadNothing ==
  /\ cpc = "reading"
  /\ \/ ~ HasUnread(status) /\ UNCHANGED faults
     \/ Suffer("link")
  /\ cpc' = "poll"
  /\ UNCHANGED <<status, db, txn, batch, running, stats, committed>>

\* The server delivered a batch whose reply never arrived.
ReadLost ==
  /\ cpc = "reading"
  /\ HasUnread(status)
  /\ Suffer("lostReply")
  /\ status' = Delivered(status, BatchSize)
  /\ cpc' = "poll"
  /\ UNCHANGED <<db, txn, batch, running, stats, committed>>

\* XACK.  Its error is not caught: the process dies, and the rest of the
\* batch stays in the PEL.
Acknowledge(done) ==
  \/ status' = XAck(status, Current.id) /\ done /\ UNCHANGED <<txn, faults>>
  \/ Suffer("link") /\ Halt /\ UNCHANGED status
  \/ Suffer("lostReply") /\ status' = XAck(status, Current.id) /\ Halt

SkipUnknown ==
  /\ cpc = "message"
  /\ Current.body.status \notin ALLOWED_STATUSES
  /\ Acknowledge(NextMessage)
  /\ UNCHANGED <<db, running, stats, committed>>

Update_AckFirst ==
  /\ cpc = "message"
  /\ Current.body.status \in ALLOWED_STATUSES
  /\ status' = XAck(status, Current.id)
  /\ txn' = Append(txn, Current.id)
  /\ cpc' = "commit"
  /\ UNCHANGED <<db, batch, running, stats, faults, committed>>

Update_Begins ==
  /\ cpc = "message"
  /\ Current.body.status \in ALLOWED_STATUSES
  /\ IF txn = <<>> THEN txn' = <<Current.id>> /\ cpc' = "commit" /\ UNCHANGED batch
                   ELSE NextMessage /\ UNCHANGED txn
  /\ UNCHANGED <<status, db, running, stats, faults, committed>>

\* The UPDATE joins the open transaction, or opens one.
Update ==
  /\ cpc = "message"
  /\ Current.body.status \in ALLOWED_STATUSES
  /\ txn' = Append(txn, Current.id)
  /\ cpc' = "commit"
  /\ UNCHANGED <<status, db, batch, running, stats, faults, committed>>

\* The statements of the transaction, by the entries they stand for.
Statements(ids) == [n \in DOMAIN ids |-> status.log[ids[n]]]

Applied_Upsert(rows, ids) ==
  [j \in DOMAIN rows \cup {r.job : r \in ToSet(Statements(ids))} |->
     IF Updated(j, Statements(ids)) THEN LastUpdate(j, Statements(ids)) ELSE rows[j]]

Applied(rows, ids) == Committed(rows, Statements(ids))

Commit ==
  /\ cpc = "commit"
  /\ db' = Applied(db, txn)
  /\ committed' = committed \cup ToSet(txn)
  /\ txn' = <<>>
  /\ cpc' = "ack"
  /\ UNCHANGED <<status, batch, running, stats, faults>>

DbError_Retried ==
  /\ cpc = "commit"
  /\ Suffer("db")
  /\ batch' = Append(Tail(batch), Current)
  /\ cpc' = "message"
  /\ txn' = <<>>
  /\ UNCHANGED <<status, db, running, stats, committed>>

\* sqlite3.Error: the message is neither acknowledged nor tried again, and
\* the transaction is rolled back or left open with its lock.
DbError ==
  /\ \/ cpc = "message" /\ Current.body.status \in ALLOWED_STATUSES
     \/ cpc = "commit"
  /\ Suffer("db")
  /\ txn' \in {txn, <<>>}
  /\ NextMessage
  /\ UNCHANGED <<status, db, running, stats, committed>>

Ack_Missing ==
  /\ cpc = "ack"
  /\ IF Current.body.status \in DOMAIN STAT_MAP
       THEN cpc' = "count" /\ UNCHANGED batch
       ELSE NextMessage
  /\ UNCHANGED <<status, db, txn, running, stats, faults, committed>>

Ack ==
  /\ cpc = "ack"
  /\ Acknowledge(IF Current.body.status \in DOMAIN STAT_MAP
                   THEN cpc' = "count" /\ UNCHANGED batch
                   ELSE NextMessage)
  /\ UNCHANGED <<db, running, stats, committed>>

\* HINCRBY.  Its error is caught, so a lost reply leaves no trace.
Count ==
  /\ cpc = "count"
  /\ LET field == STAT_MAP[Current.body.status]
     IN  \/ stats' = [stats EXCEPT ![field] = @ + 1] /\ UNCHANGED faults
         \/ Suffer("link") /\ UNCHANGED stats
  /\ NextMessage
  /\ UNCHANGED <<status, db, txn, running, committed>>

Signal ==
  /\ cpc # "down"
  /\ running
  /\ Suffer("stop")
  /\ running' = FALSE
  /\ UNCHANGED <<status, db, txn, batch, cpc, stats, committed>>

Crash ==
  /\ cpc # "down"
  /\ Suffer("crash")
  /\ Halt
  /\ UNCHANGED <<status, db, running, stats, committed>>

\* systemd's Restart=always.
Restart ==
  /\ cpc = "down"
  /\ cpc' = "poll"
  /\ running' = TRUE
  /\ UNCHANGED <<status, db, txn, batch, stats, faults, committed>>

\* The worker adds a status.
Arrive(r) ==
  /\ Len(status.log) < MaxReports
  /\ status' \in XAdd(status, r, 1, StreamMaxLen)
  /\ UNCHANGED <<db, consumerVars, stats, faults, committed>>

Consumer ==
  \/ Poll \/ ReadBatch \/ ReadNothing \/ ReadLost
  \/ SkipUnknown \/ Update \/ Commit \/ DbError \/ Ack \/ Count
  \/ Signal \/ Crash \/ Restart

Next == Consumer \/ \E r \in Report : Arrive(r)

Spec == Init /\ [][Next]_vars

(***************************************************************************)
(* Fairness: the process is scheduled and systemd restarts it.             *)
(***************************************************************************)
Fairness ==
  /\ WF_vars(Poll) /\ WF_vars(ReadBatch) /\ WF_vars(ReadNothing)
  /\ WF_vars(SkipUnknown) /\ WF_vars(Update) /\ WF_vars(Commit)
  /\ WF_vars(Ack) /\ WF_vars(Count) /\ WF_vars(Restart)

FairSpec == Spec /\ Fairness

-----------------------------------------------------------------------------
(***************************************************************************)
(* Properties                                                              *)
(***************************************************************************)

Known(i) == status.log[i].status \in ALLOWED_STATUSES

(***************************************************************************)
(* XACK comes after the commit: whatever dies, refuses or fails between    *)
(* two steps, a status the group no longer owes the consumer is in the     *)
(* table (main, status_consumer.py:90-103).                                *)
(***************************************************************************)
AckedIsCommitted ==
  \A i \in status.trimmed + 1 .. status.read :
    i \notin status.pel /\ Known(i) => i \in committed

Writer == INSTANCE StatusWriter WITH log <- status.log, written <- committed

(***************************************************************************)
(* The consumer writes statuses as StatusWriter promises: a row shows the  *)
(* newest of its statuses that were committed, and only newer ones follow. *)
(* An update left behind in a failed transaction never overtakes a later   *)
(* one, and no crash, refused command or restart brings an entry back over *)
(* a newer one (main, status_consumer.py:80-103).                          *)
(***************************************************************************)
Writes == Writer!Spec

(***************************************************************************)
(* worker:stats counts an entry at most once, and only one it has          *)
(* acknowledged: restarts and failed commits never inflate a counter.      *)
(***************************************************************************)
CountedOnce ==
  \A s \in DOMAIN STAT_MAP :
    stats[STAT_MAP[s]] <=
      Cardinality({i \in 1 .. status.read : i \notin status.pel /\ status.log[i].status = s})

(***************************************************************************)
(* Every status with a name the consumer knows gets into the table,        *)
(* whenever the process is asked to stop: it finishes its batch and goes   *)
(* on after the restart.  Any other fault may cost an entry, and so may a  *)
(* trim of the stream.                                                     *)
(***************************************************************************)
EveryReportApplied ==
  \A i \in 1 .. MaxReports :
    i \in DOMAIN status.log /\ Known(i) ~>
      \/ i \in committed
      \/ i <= status.trimmed
      \/ \E k \in FaultKind \ {"stop"} : faults[k] > 0

(***************************************************************************)
(* A failed commit may leave the transaction open and with it the table's  *)
(* write lock, on which every write of the API and of the checker fails.   *)
(* Nobody rolls it back; but the next status that arrives is written in    *)
(* the same transaction, and its commit releases the lock (main,           *)
(* status_consumer.py:90-98).                                              *)
(***************************************************************************)
LockEnds ==
  \A i \in 1 .. MaxReports :
    txn # <<>> /\ i \in DOMAIN status.log /\ i > status.read /\ Known(i) ~>
      \/ txn = <<>>
      \/ i <= status.trimmed
      \/ faults.db > 1 \/ faults.link > 0 \/ faults.lostReply > 0

(***************************************************************************)
(* status_consumer.py:98 leaves a message it could not write unacknowledged *)
(* "and lets the PEL wait for the retry": it is written one day.           *)
(***************************************************************************)
UnackedIsRetried ==
  \A i \in 1 .. MaxReports :
    (i \in status.pel /\ Known(i)) ~> i \in committed

=============================================================================
