------------------------------- MODULE Worker -------------------------------
(***************************************************************************)
(* node2's worker process (node2_worker/cmd/worker): the goroutines that   *)
(* consume jobs:stream (runWorker, processMessage), the retry goroutine    *)
(* that drains the local Redis list jobs:status:failed                     *)
(* (retryFailedStatus), the replay goroutine that drains the fallback file *)
(* (replayFallbackFile), and the process that runs and restarts them       *)
(* (main, systemd).                                                        *)
(*                                                                         *)
(* Every command sent to a Redis server is one step; the steps of the      *)
(* goroutines interleave freely.  Sleeps take no step: any other step may  *)
(* come between two steps of a goroutine.                                  *)
(*                                                                         *)
(* An operator named D_x is a plausible mistake in D.  No action uses it:  *)
(* put in D's place it must make a property below fail.                    *)
(***************************************************************************)
EXTENDS RedisStream, SequencesExt

CONSTANTS
  Jobs,         \* job ids
  Malformed,    \* jobs whose stream message parseStreamMessage rejects
  ForceFail,    \* jobs whose payload.action contains "force_fail"
  Goroutines,   \* runWorker goroutines (WORKER_GOROUTINES)
  BatchSize,    \* QUEUE_BATCH_SIZE, the COUNT of XREADGROUP
  MaxRetries,   \* maxRetries
  StreamMaxLen, \* the MAXLEN of every XADD (50000 in the code)
  LinkFails,    \* whether commands to node1's Redis may fail without effect
  Budget,       \* how often each fault may happen (a bound)
  MaxFaults,    \* how many faults may happen in all (a bound)
  MaxQueued     \* how many messages jobs:stream may ever hold (a bound)

\* What may go wrong besides a refused command to node1:
\*   crash      the process dies at once (SIGKILL, panic, power)
\*   stop       SIGTERM: the context is cancelled, the process winds down
\*   disk       an append to the fallback file, or its rewrite, fails
\*   local      an RPUSH to node2's own Redis fails
\*   lostReply  a command took effect on the server, but its reply was lost
FaultKind == {"crash", "stop", "disk", "local", "lostReply"}

ASSUME JobsAssumption ==
  /\ Malformed \subseteq Jobs
  /\ ForceFail \subseteq Jobs
  /\ Malformed \cap ForceFail = {}

ASSUME ConfigAssumption ==
  /\ BatchSize \in Nat \ {0}
  /\ MaxRetries \in Nat \ {0}
  /\ StreamMaxLen \in Nat \ {0}
  /\ LinkFails \in BOOLEAN
  /\ Budget \in [FaultKind -> Nat]
  /\ MaxFaults \in Nat
  /\ MaxQueued \in Nat

VARIABLES
  queue,        \* jobs:stream on node1, with the workers' group
  status,       \* jobs:status on node1
  pc,           \* where each runWorker goroutine is
  batch,        \* the messages each goroutine has read and not finished
  failedList,   \* jobs:status:failed, the list on node2's own Redis
  rpc,          \* where the retry goroutine is
  hand,         \* what the retry goroutine has popped, as a sequence
  fallback,     \* the lines of the fallback file (empty: no file)
  ppc,          \* where the replay goroutine is
  todo,         \* the lines the replay has still to publish
  remaining,    \* the lines the replay could not publish
  phase,        \* the process: "running", "stopping" or "down"
  faults,       \* how often each fault has happened
  taken         \* history: the jobs whose message a goroutine received

goroutineVars == <<pc, batch>>
retryVars     == <<failedList, rpc, hand>>
replayVars    == <<ppc, todo, remaining>>
processVars   == <<phase, faults>>
vars == <<queue, status, goroutineVars, retryVars, fallback, replayVars,
          processVars, taken>>

-----------------------------------------------------------------------------
(***************************************************************************)
(* Data                                                                    *)
(***************************************************************************)

Report  == [job : Jobs, status : {"processing", "done", "dead"}]
Message == [id : Nat, body : Jobs]
Entry   == [job : Jobs, retries : 0 .. MaxRetries - 1]

Terminal == {"done", "dead"}

\* What a goroutine that waits for fallbackMu is about to append.
SavedStatus == [saveProcessing |-> "processing",
                saveDone       |-> "done",
                saveDead       |-> "dead"]

GoroutinePc == {"poll", "reading", "message", "announce", "work", "ackDead",
                "stopped"} \cup DOMAIN SavedStatus

TypeOK ==
  /\ queue \in Stream(Jobs)
  /\ status \in Stream(Report)
  /\ pc \in [Goroutines -> GoroutinePc]
  /\ batch \in [Goroutines -> Seq(Message)]
  /\ failedList \in Seq(Entry)
  /\ rpc \in {"idle", "drain", "handle", "saveDead"}
  /\ hand \in Seq(Entry)
  /\ fallback \in Seq(Report)
  /\ ppc \in {"idle", "scan"}
  /\ todo \in Seq(Report)
  /\ remaining \in Seq(Report)
  /\ phase \in {"running", "stopping", "down"}
  /\ faults \in [FaultKind -> Nat]
  /\ taken \subseteq Jobs

Init ==
  /\ queue = EmptyStream
  /\ status = EmptyStream
  /\ pc = [g \in Goroutines |-> "poll"]
  /\ batch = [g \in Goroutines |-> <<>>]
  /\ failedList = <<>>
  /\ rpc = "idle"
  /\ hand = <<>>
  /\ fallback = <<>>
  /\ ppc = "idle"
  /\ todo = <<>>
  /\ remaining = <<>>
  /\ phase = "running"
  /\ faults = [k \in FaultKind |-> 0]
  /\ taken = {}

-----------------------------------------------------------------------------
(***************************************************************************)
(* Commands and their outcomes                                             *)
(***************************************************************************)

Alive == phase # "down"

FaultsSoFar == FoldFunction(+, 0, faults)

Suffer(kind) ==
  /\ faults[kind] < Budget[kind]
  /\ FaultsSoFar < MaxFaults
  /\ faults' = [faults EXCEPT ![kind] = @ + 1]

\* Once the context is cancelled the client refuses every command before it
\* reaches the connection; until then a command is refused when the link is.
MayRefuse == LinkFails \/ phase = "stopping"

\* The outcomes of an XADD to jobs:status.  `ok' is the error the code sees.
\* A lost reply makes the client retry, so the entry is there twice, or give
\* up, so the entry is there although the caller is told it is not.
Accepted(report) ==
  /\ phase = "running"
  /\ status' \in XAdd(status, report, 1, StreamMaxLen)
  /\ UNCHANGED faults

Refused ==
  /\ MayRefuse
  /\ UNCHANGED <<status, faults>>

AddedTwice(report) ==
  /\ phase = "running"
  /\ Suffer("lostReply")
  /\ status' \in XAdd(status, report, 2, StreamMaxLen)

AddedUnseen(report) ==
  /\ phase = "running"
  /\ Suffer("lostReply")
  /\ status' \in XAdd(status, report, 1, StreamMaxLen)

PublishStatus_ErrorIgnored(report, ok) == ok /\ (Accepted(report) \/ Refused)
PublishStatus(report, ok) ==
  IF ok THEN Accepted(report) \/ AddedTwice(report)
        ELSE Refused \/ AddedUnseen(report)

\* XACK: its error is logged and nothing else, so all that matters is
\* whether the server executed it.
Acknowledge(id) ==
  \/ phase = "running" /\ queue' = XAck(queue, id)
  \/ MayRefuse /\ UNCHANGED queue

MuFree_NoLock == TRUE

\* fallbackMu is held by the replay from its first line to its rewrite; an
\* append takes it, writes one line and releases it.
MuFree == ppc = "idle"

AppendFallbackFile_TryLock(report) ==
  /\ fallback' = IF MuFree THEN Append(fallback, report) ELSE fallback
  /\ UNCHANGED faults

AppendFallbackFile(report) ==
  /\ MuFree
  /\ \/ fallback' = Append(fallback, report) /\ UNCHANGED faults
     \/ Suffer("disk") /\ UNCHANGED fallback

\* RPUSH to the local list, refused once the context is cancelled.
PushLocal(entry) ==
  \/ phase = "running" /\ failedList' = Append(failedList, entry) /\ UNCHANGED faults
  \/ phase = "stopping" /\ UNCHANGED <<failedList, faults>>
  \/ Suffer("local") /\ UNCHANGED failedList
  \/ phase = "running" /\ Suffer("lostReply")
       /\ failedList' = Append(Append(failedList, entry), entry)

-----------------------------------------------------------------------------
(***************************************************************************)
(* runWorker and processMessage                                            *)
(***************************************************************************)

Current(g) == Head(batch[g])
Job(g)     == Current(g).body

Goto(g, label) == pc' = [pc EXCEPT ![g] = label]

Finish_SameMessage(g) == Goto(g, "message") /\ UNCHANGED batch

Finish_WholeBatch(g) ==
  /\ batch' = [batch EXCEPT ![g] = <<>>]
  /\ Goto(g, "poll")

\* Done with the current message: on to the next one of the batch, or back
\* to the top of the loop.
Finish(g) ==
  /\ batch' = [batch EXCEPT ![g] = Tail(@)]
  /\ Goto(g, IF Len(batch[g]) = 1 THEN "poll" ELSE "message")

\* The context is looked at only here, between two batches.
Poll(g) ==
  /\ Alive
  /\ pc[g] = "poll"
  /\ Goto(g, IF phase = "running" THEN "reading" ELSE "stopped")
  /\ UNCHANGED <<queue, status, batch, retryVars, fallback, replayVars,
                 processVars, taken>>

\* A read that was blocked when the context was cancelled is not interrupted
\* and may still return a batch.
ReadBatch(g) ==
  /\ Alive
  /\ pc[g] = "reading"
  /\ HasUnread(queue)
  /\ queue' = Delivered(queue, BatchSize)
  /\ batch' = [batch EXCEPT ![g] = Reply(queue, BatchSize)]
  /\ taken' = taken \cup {m.body : m \in ToSet(Reply(queue, BatchSize))}
  /\ Goto(g, "message")
  /\ UNCHANGED <<status, retryVars, fallback, replayVars, processVars>>

\* BLOCK ran out, or the command failed: both go back to the top.
ReadNothing(g) ==
  /\ Alive
  /\ pc[g] = "reading"
  /\ ~ HasUnread(queue) \/ MayRefuse
  /\ Goto(g, "poll")
  /\ UNCHANGED <<queue, status, batch, retryVars, fallback, replayVars,
                 processVars, taken>>

\* The server delivered a batch whose reply never arrived.
ReadLost(g) ==
  /\ Alive
  /\ pc[g] = "reading"
  /\ HasUnread(queue)
  /\ Suffer("lostReply")
  /\ queue' = Delivered(queue, BatchSize)
  /\ Goto(g, "poll")
  /\ UNCHANGED <<status, batch, retryVars, fallback, replayVars, phase, taken>>

\* A message that parses is acknowledged before anything is done with it.
AckMessage(g) ==
  /\ Alive
  /\ pc[g] = "message"
  /\ Job(g) \notin Malformed
  /\ Acknowledge(Current(g).id)
  /\ Goto(g, "announce")
  /\ UNCHANGED <<status, batch, retryVars, fallback, replayVars, processVars,
                 taken>>

RejectMessage_AckFirst(g) ==
  /\ Alive
  /\ pc[g] = "message"
  /\ Job(g) \in Malformed
  /\ Acknowledge(Current(g).id)
  /\ Goto(g, "saveDead")
  /\ UNCHANGED <<status, batch, retryVars, fallback, replayVars, processVars,
                 taken>>

\* A message that does not parse is reported dead first and acknowledged
\* afterwards.
RejectMessage(g) ==
  /\ Alive
  /\ pc[g] = "message"
  /\ Job(g) \in Malformed
  /\ \E ok \in BOOLEAN :
       /\ PublishStatus([job |-> Job(g), status |-> "dead"], ok)
       /\ Goto(g, IF ok THEN "ackDead" ELSE "saveDead")
  /\ UNCHANGED <<queue, batch, retryVars, fallback, replayVars, phase, taken>>

AckDead(g) ==
  /\ Alive
  /\ pc[g] = "ackDead"
  /\ Acknowledge(Current(g).id)
  /\ Finish(g)
  /\ UNCHANGED <<status, retryVars, fallback, replayVars, processVars, taken>>

Announce(g) ==
  /\ Alive
  /\ pc[g] = "announce"
  /\ \E ok \in BOOLEAN :
       /\ PublishStatus([job |-> Job(g), status |-> "processing"], ok)
       /\ Goto(g, IF ok THEN "work" ELSE "saveProcessing")
  /\ UNCHANGED <<queue, batch, retryVars, fallback, replayVars, phase, taken>>

\* The simulated failure: the job goes to the local list and the goroutine
\* moves on, whether or not the push succeeded.
FailJob(g) ==
  /\ Alive
  /\ pc[g] = "work"
  /\ Job(g) \in ForceFail
  /\ PushLocal([job |-> Job(g), retries |-> 0])
  /\ Finish(g)
  /\ UNCHANGED <<queue, status, rpc, hand, fallback, replayVars, phase, taken>>

CompleteJob(g) ==
  /\ Alive
  /\ pc[g] = "work"
  /\ Job(g) \notin ForceFail
  /\ \E ok \in BOOLEAN :
       /\ PublishStatus([job |-> Job(g), status |-> "done"], ok)
       /\ IF ok THEN Finish(g) ELSE Goto(g, "saveDone") /\ UNCHANGED batch
  /\ UNCHANGED <<queue, retryVars, fallback, replayVars, phase, taken>>

\* A status that could not be published is appended to the fallback file.
SaveStatus(g) ==
  /\ Alive
  /\ pc[g] \in DOMAIN SavedStatus
  /\ AppendFallbackFile([job |-> Job(g), status |-> SavedStatus[pc[g]]])
  /\ \/ pc[g] = "saveProcessing" /\ Goto(g, "work") /\ UNCHANGED batch
     \/ pc[g] = "saveDead" /\ Goto(g, "ackDead") /\ UNCHANGED batch
     \/ pc[g] = "saveDone" /\ Finish(g)
  /\ UNCHANGED <<queue, status, retryVars, replayVars, phase, taken>>

Goroutine(g) ==
  \/ Poll(g) \/ ReadBatch(g) \/ ReadNothing(g) \/ ReadLost(g)
  \/ AckMessage(g) \/ RejectMessage(g) \/ AckDead(g)
  \/ Announce(g) \/ FailJob(g) \/ CompleteJob(g) \/ SaveStatus(g)

-----------------------------------------------------------------------------
(***************************************************************************)
(* retryFailedStatus                                                       *)
(***************************************************************************)

RetryTick ==
  /\ Alive
  /\ rpc = "idle"
  /\ rpc' = "drain"
  /\ UNCHANGED <<queue, status, goroutineVars, failedList, hand, fallback,
                 replayVars, processVars, taken>>

RetryPop ==
  /\ phase = "running"
  /\ rpc = "drain"
  /\ failedList # <<>>
  /\ failedList' = Tail(failedList)
  /\ \/ /\ hand' = <<Head(failedList)>>
        /\ rpc' = "handle"
        /\ UNCHANGED faults
     \/ /\ Suffer("lostReply")
        /\ UNCHANGED <<hand, rpc>>
  /\ UNCHANGED <<queue, status, goroutineVars, fallback, replayVars, phase, taken>>

\* The list is empty or LPOP fails: wait for the next tick.
RetryPause ==
  /\ Alive
  /\ rpc = "drain"
  /\ \/ (failedList = <<>> \/ phase = "stopping") /\ UNCHANGED faults
     \/ Suffer("local")
  /\ rpc' = "idle"
  /\ UNCHANGED <<queue, status, goroutineVars, failedList, hand, fallback,
                 replayVars, phase, taken>>

Attempted_NotCounted(entry) == entry
Attempted(entry) == [entry EXCEPT !.retries = @ + 1]
Exhausted_OffByOne(entry) == entry.retries >= MaxRetries
Exhausted(entry) == Attempted(entry).retries >= MaxRetries

RetryAgain ==
  /\ Alive
  /\ rpc = "handle"
  /\ ~ Exhausted(Head(hand))
  /\ PushLocal(Attempted(Head(hand)))
  /\ hand' = <<>>
  /\ rpc' = "drain"
  /\ UNCHANGED <<queue, status, goroutineVars, fallback, replayVars, phase, taken>>

RetryGiveUp ==
  /\ Alive
  /\ rpc = "handle"
  /\ Exhausted(Head(hand))
  /\ \E ok \in BOOLEAN :
       /\ PublishStatus([job |-> Head(hand).job, status |-> "dead"], ok)
       /\ IF ok THEN hand' = <<>> /\ rpc' = "drain"
                ELSE rpc' = "saveDead" /\ UNCHANGED hand
  /\ UNCHANGED <<queue, goroutineVars, failedList, fallback, replayVars, phase,
                 taken>>

RetrySave ==
  /\ Alive
  /\ rpc = "saveDead"
  /\ AppendFallbackFile([job |-> Head(hand).job, status |-> "dead"])
  /\ hand' = <<>>
  /\ rpc' = "drain"
  /\ UNCHANGED <<queue, status, goroutineVars, failedList, replayVars, phase,
                 taken>>

Retry == RetryTick \/ RetryPop \/ RetryPause \/ RetryAgain \/ RetryGiveUp \/ RetrySave

-----------------------------------------------------------------------------
(***************************************************************************)
(* replayFallbackFile: replayOnce, under fallbackMu                        *)
(***************************************************************************)

ReplayStart ==
  /\ Alive
  /\ MuFree
  /\ fallback # <<>>
  /\ ppc' = "scan"
  /\ todo' = fallback
  /\ remaining' = <<>>
  /\ UNCHANGED <<queue, status, goroutineVars, retryVars, fallback, processVars,
                 taken>>

Unpublished_Dropped(line, ok) == <<>>

\* A line stays for the next replay unless it was published.
Unpublished(line, ok) == IF ok THEN <<>> ELSE <<line>>

ReplayLine(ok) ==
  /\ Alive
  /\ ppc = "scan"
  /\ todo # <<>>
  /\ PublishStatus(Head(todo), ok)
  /\ todo' = Tail(todo)
  /\ remaining' = remaining \o Unpublished(Head(todo), ok)
  /\ UNCHANGED <<queue, goroutineVars, retryVars, fallback, ppc, phase, taken>>

\* What could not be published replaces the file, by a rename (no line left:
\* the file is removed).  A failing rewrite leaves the old file.
ReplayRewrite ==
  /\ Alive
  /\ ppc = "scan"
  /\ todo = <<>>
  /\ \/ fallback' = remaining /\ UNCHANGED faults
     \/ Suffer("disk") /\ UNCHANGED fallback
  /\ ppc' = "idle"
  /\ remaining' = <<>>
  /\ UNCHANGED <<queue, status, goroutineVars, retryVars, todo, phase, taken>>

Replay == ReplayStart \/ (\E ok \in BOOLEAN : ReplayLine(ok)) \/ ReplayRewrite

-----------------------------------------------------------------------------
(***************************************************************************)
(* The process: main and systemd's Restart=always                          *)
(***************************************************************************)

\* Everything in memory is gone; node1's streams, the local list and the
\* fallback file stay.
Halt ==
  /\ phase' = "down"
  /\ pc' = [g \in Goroutines |-> "stopped"]
  /\ batch' = [g \in Goroutines |-> <<>>]
  /\ rpc' = "idle"
  /\ hand' = <<>>
  /\ ppc' = "idle"
  /\ todo' = <<>>
  /\ remaining' = <<>>
  /\ UNCHANGED <<queue, status, failedList, fallback, taken>>

Stop ==
  /\ phase = "running"
  /\ Suffer("stop")
  /\ phase' = "stopping"
  /\ UNCHANGED <<queue, status, goroutineVars, retryVars, fallback, replayVars,
                 taken>>

\* main waits for the runWorker goroutines only: the retry and the replay
\* goroutines end wherever they are.
Exit ==
  /\ phase = "stopping"
  /\ \A g \in Goroutines : pc[g] = "stopped"
  /\ Halt
  /\ UNCHANGED faults

Crash ==
  /\ Alive
  /\ Suffer("crash")
  /\ Halt

Restart ==
  /\ phase = "down"
  /\ phase' = "running"
  /\ pc' = [g \in Goroutines |-> "poll"]
  /\ UNCHANGED <<queue, status, batch, retryVars, fallback, replayVars, faults,
                 taken>>

Process == Stop \/ Exit \/ Crash \/ Restart

-----------------------------------------------------------------------------
(***************************************************************************)
(* The component with its environment: node1 adds jobs to jobs:stream      *)
(* (POST /api/v1/jobs, publish_failed_checker), the same job again when    *)
(* the checker enqueues it anew.                                           *)
(***************************************************************************)

Enqueue(j) ==
  /\ Len(queue.log) < MaxQueued
  /\ queue' \in XAdd(queue, j, 1, StreamMaxLen)
  /\ UNCHANGED <<status, goroutineVars, retryVars, fallback, replayVars,
                 processVars, taken>>

WorkerNext ==
  \/ \E g \in Goroutines : Goroutine(g)
  \/ Retry
  \/ Replay
  \/ Process

Next == WorkerNext \/ \E j \in Jobs : Enqueue(j)

Spec == Init /\ [][Next]_vars

(***************************************************************************)
(* Fairness.  Goroutines are scheduled, tickers tick, systemd restarts the *)
(* process.  A mutex does not starve a waiter (sync.Mutex), hence strong   *)
(* fairness where fallbackMu is taken.  node1 is not refused for ever:     *)
(* a read that keeps finding messages, and a replayed line that keeps      *)
(* being sent, succeed some time.                                          *)
(***************************************************************************)
Fairness ==
  /\ \A g \in Goroutines :
       /\ WF_vars(Poll(g)) /\ SF_vars(ReadBatch(g)) /\ WF_vars(ReadNothing(g))
       /\ WF_vars(AckMessage(g)) /\ WF_vars(RejectMessage(g)) /\ WF_vars(AckDead(g))
       /\ WF_vars(Announce(g)) /\ WF_vars(FailJob(g)) /\ WF_vars(CompleteJob(g))
       /\ SF_vars(SaveStatus(g))
  /\ WF_vars(RetryTick) /\ SF_vars(RetryPop) /\ WF_vars(RetryPause)
  /\ WF_vars(RetryAgain) /\ WF_vars(RetryGiveUp) /\ SF_vars(RetrySave)
  /\ SF_vars(ReplayStart) /\ SF_vars(ReplayLine(TRUE))
  /\ WF_vars(\E ok \in BOOLEAN : ReplayLine(ok)) /\ WF_vars(ReplayRewrite)
  /\ WF_vars(Exit) /\ WF_vars(Restart)

FairSpec == Spec /\ Fairness

-----------------------------------------------------------------------------
(***************************************************************************)
(* Properties                                                              *)
(***************************************************************************)

Published == ToSet(status.log)

\* j's last word is on node1, or in the file that the replay publishes.
Recorded(j) == \E s \in Terminal : [job |-> j, status |-> s] \in Published \cup ToSet(fallback)

InBatch(j) == \E g \in Goroutines : \E m \in ToSet(batch[g]) : m.body = j
Awaiting(j) == \E e \in ToSet(failedList) \cup ToSet(hand) : e.job = j

(***************************************************************************)
(* The shape of a state: who holds what, where, and with how much of the   *)
(* file a replay is through.  A goroutine has messages exactly while it    *)
(* works on one, the retry goroutine an entry exactly while it handles it; *)
(* a process that is down has no goroutine; and while a replay holds       *)
(* fallbackMu every line of the file is still to be sent, has been kept    *)
(* for the rewrite, or is published (runWorker, retryFailedStatus,         *)
(* replayOnce).                                                            *)
(***************************************************************************)
BatchShape == \A g \in Goroutines : batch[g] = <<>> <=> pc[g] \in {"poll", "reading", "stopped"}
HandShape  == hand = <<>> <=> rpc \in {"idle", "drain"}
DownShape  == phase = "down" => \A g \in Goroutines : pc[g] = "stopped"
ScanShape  == ppc = "scan" => ToSet(fallback) \subseteq ToSet(todo) \cup ToSet(remaining) \cup Published

Shape == BatchShape /\ HandShape /\ DownShape /\ ScanShape

(***************************************************************************)
(* A job a goroutine has received is acknowledged at once, so from then on *)
(* only the worker can bring it to an end.  Unless the process dies or the *)
(* file cannot be written, a job that does not fail on purpose is never    *)
(* forgotten: it is in a goroutine's batch, or its last word is on node1   *)
(* or in the fallback file -- through a shutdown, refused commands and     *)
(* lost replies alike (processMessage, publishTerminal, replayOnce).       *)
(***************************************************************************)
JobsKept ==
  faults.crash = 0 /\ faults.disk = 0 =>
    \A j \in taken \ ForceFail : InBatch(j) \/ Recorded(j)

(***************************************************************************)
(* A goroutine that is about to acknowledge a message it rejected has the  *)
(* job's end on node1 or in the file already (processMessage,              *)
(* worker.go:47-56): what JobsKept rests on when the message is dropped.   *)
(***************************************************************************)
DeadRecorded ==
  faults.disk = 0 => \A g \in Goroutines : pc[g] = "ackDead" => Recorded(Job(g))

(***************************************************************************)
(* A job that fails on purpose also lives in the local Redis list and in   *)
(* the hands of the retry goroutine.  It is kept as long as, besides, the  *)
(* process is not stopped and the local Redis answers every command        *)
(* (processMessage's force_fail branch, retryFailedStatus).                *)
(***************************************************************************)
FailingJobsKept ==
  (\A k \in FaultKind : faults[k] = 0) =>
    \A j \in taken \cap ForceFail : InBatch(j) \/ Awaiting(j) \/ Recorded(j)

\* Received, and nobody will ever bring it to an end.
Forgotten == {j \in taken : ~ InBatch(j) /\ ~ Awaiting(j) /\ ~ Recorded(j)}

(***************************************************************************)
(* Jobs are handled one by one: only a crash makes the worker forget       *)
(* several at once.  A refused push, a lost reply of LPOP, which has       *)
(* removed the entry, a failing disk and the end of the retry goroutine at *)
(* a shutdown cost one job each; and a worker that runs, with a file that  *)
(* can be written, forgets none without a fault of that very step          *)
(* (processMessage, retryFailedStatus, main.go:54).                        *)
(***************************************************************************)
LossesAreSingle ==
  [][faults'.crash = faults.crash =>
       /\ \A i, j \in Forgotten' \ Forgotten : i = j
       /\ faults' = faults /\ faults.disk = 0 /\ phase = "running"
            => Forgotten' \subseteq Forgotten]_vars

Settled == {j \in Jobs : Recorded(j)}

Ledger ==
  INSTANCE JobLedger WITH settled <- Settled, lost <- Forgotten, crashes <- faults.crash

(***************************************************************************)
(* The worker deals with its jobs as JobLedger promises: whatever is       *)
(* reported was received and not given up, only held jobs get lost, and an *)
(* end, once recorded, stays, although a replay drops the line it was in   *)
(* (processMessage, retryFailedStatus, replayOnce).                        *)
(***************************************************************************)
KeepsLedger == Ledger!Spec

(***************************************************************************)
(* A message that does not parse is acknowledged only after it was         *)
(* reported dead: no crash between the two leaves it acknowledged and      *)
(* unreported (processMessage, worker.go:47-56).                           *)
(***************************************************************************)
RejectedAreReported ==
  faults.disk = 0 =>
    \A i \in queue.trimmed + 1 .. queue.read :
      queue.log[i] \in Malformed /\ i \notin queue.pel => Recorded(queue.log[i])

(***************************************************************************)
(* A status saved in the file leaves it only when node1 has it, whatever   *)
(* dies or fails between the first line of a replay and its rewrite        *)
(* (appendFallbackFile, replayOnce, rewriteFallbackFile, fallbackMu).      *)
(***************************************************************************)
SavedUntilPublished ==
  [][ToSet(fallback) \subseteq ToSet(fallback') \cup Published']_vars

\* The reports whose publication failed and that are on their way into the
\* fallback file.
Unsaved ==
  {[job |-> Job(g), status |-> SavedStatus[pc[g]]] :
      g \in {h \in Goroutines : pc[h] \in DOMAIN SavedStatus}}
  \cup {[job |-> e.job, status |-> "dead"] : e \in {e \in ToSet(hand) : rpc = "saveDead"}}

(***************************************************************************)
(* A status that could not be published reaches the file: README.md:8 says *)
(* of node2 that failed status writes are stored and retried.              *)
(***************************************************************************)
FailedWritesSaved ==
  [][faults' = faults => Unsaved \subseteq Unsaved' \cup ToSet(fallback')]_vars

(***************************************************************************)
(* As long as the process lives, the shutdown included, no other goroutine,*)
(* replay or refused command makes a failed status write miss the file     *)
(* (publishTerminal, retryFailedStatus).                                   *)
(***************************************************************************)
LiveWritesSaved ==
  [][faults' = faults /\ phase' # "down" => Unsaved \subseteq Unsaved' \cup ToSet(fallback')]_vars

\* j was added to jobs:stream once at most.
EnqueuedOnce(j) ==
  \A i, k \in DOMAIN queue.log : queue.log[i] = j /\ queue.log[k] = j => i = k

Beginning(j) == [job |-> j, status |-> "processing"]
Ends(j)      == {[job |-> j, status |-> s] : s \in Terminal}

\* The places of j's statuses on node1; the consumer applies them in order.
Reports(j) == {p \in DOMAIN status.log : status.log[p].job = j}

Ended(j) == \E p \in Reports(j) : status.log[p] \in Ends(j)

\* What node1 will show of j in the end.
Reopened(j) ==
  \E p \in Reports(j) : status.log[p] = Beginning(j) /\ \A q \in Reports(j) : q <= p

(***************************************************************************)
(* The last status of a job on jobs:status is its end, once an end has     *)
(* been published and no saved line of the job waits for its replay: node1 *)
(* applies them in stream order and would show the job as processing for   *)
(* ever (node1_api/README.md:82: queued -> processing -> done / dead).     *)
(***************************************************************************)
EndIsLast ==
  \A j \in Jobs :
    EnqueuedOnce(j) /\ Ended(j) /\ (\A r \in ToSet(fallback) : r.job # j) => ~ Reopened(j)

\* No goroutine has begun with j: its message is still in the stream, or in
\* a batch and not announced on node1 or in the file.
Pending(j) ==
  \/ \A i \in DOMAIN queue.log : queue.log[i] = j => i > queue.read
  \/ \E g \in Goroutines : \E n \in DOMAIN batch[g] :
       /\ batch[g][n].body = j
       /\ n = 1 => pc[g] \in {"message", "announce", "saveProcessing"}

Untraced(j) == Reports(j) = {} /\ (\A r \in ToSet(fallback) : r.job # j) /\ ~ Awaiting(j)

\* A goroutine may still publish j's end.
Working(j) == phase = "running" /\ \E g \in Goroutines : pc[g] = "work" /\ Job(g) = j

InOrder(first, second, j) == first \in Ends(j) => second # Beginning(j)
Ordered(lines, j) == \A a, b \in DOMAIN lines : a < b => InOrder(lines[a], lines[b], j)

(***************************************************************************)
(* What keeps a job's statuses in order while node1's link fails only at a *)
(* shutdown and no reply is lost.  A job is untraced until a goroutine     *)
(* begins with it; who may publish its end has no beginning in the file;   *)
(* no beginning is behind an end in the file or in what a replay has left; *)
(* and once an end is on node1, a beginning that was published or is still *)
(* to be published after it is followed by a saved end.                    *)
(***************************************************************************)
BegunOnce(j)  == Pending(j) => Untraced(j)
BeganFirst(j) == Working(j) \/ Awaiting(j) => Beginning(j) \notin ToSet(fallback)
LinesOrdered(j) ==
  /\ Ordered(fallback, j) /\ Ordered(todo, j) /\ Ordered(remaining, j)
  /\ \A r \in ToSet(remaining), t \in ToSet(todo) : InOrder(r, t, j)
EndSaved(j, lines) == Reopened(j) \/ Beginning(j) \in lines => lines \cap Ends(j) # {}
EndFollows(j) ==
  Ended(j) => /\ EndSaved(j, ToSet(fallback))
              /\ ppc = "scan" => EndSaved(j, ToSet(todo) \cup ToSet(remaining))

StatusOrder ==
  \A j \in Jobs : EnqueuedOnce(j) => BegunOnce(j) /\ BeganFirst(j) /\ LinesOrdered(j) /\ EndFollows(j)

(***************************************************************************)
(* Every job a goroutine has received is one day reported done or dead on  *)
(* node1, when node1's link fails now and then and the process is stopped; *)
(* a job that fails on purpose may be forgotten by a stop.                 *)
(***************************************************************************)
JobsReported ==
  \A j \in Jobs :
    j \in taken ~> \/ Ended(j)
                   \/ j \in ForceFail /\ faults.stop > 0

=============================================================================
