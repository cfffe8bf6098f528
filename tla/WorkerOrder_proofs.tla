--------------------------- MODULE WorkerOrder_proofs ---------------------------
(***************************************************************************)
(* Worker keeps the statuses of a job in order while node1's link fails    *)
(* only at a shutdown and no reply is lost: for any jobs, any number of    *)
(* goroutines, any batch size, and any crashes, shutdowns, disk errors and *)
(* local errors.  (With refused commands or lost replies it does not: the  *)
(* run worker_reorder.)                                                    *)
(***************************************************************************)
EXTENDS Worker_proofs

-----------------------------------------------------------------------------
(***************************************************************************)
(* Publishing, and the history of a job                                    *)
(***************************************************************************)

\* node1's link fails only once the context is cancelled, and every reply
\* arrives.
OnlyShutdownRefuses == LinkFails = FALSE /\ Budget["lostReply"] = 0

\* A message is in one batch, once.
HeldOnce ==
  \A g, h \in Goroutines : \A n \in DOMAIN batch[g], k \in DOMAIN batch[h] :
    batch[g][n].id = batch[h][k].id => g = h /\ n = k

\* A status has been refused only if the context is cancelled.
RefusedLate ==
  phase # "stopping" => remaining = <<>> /\ \A g \in Goroutines : pc[g] # "saveProcessing"

HoldShape == QueueShape /\ HeldOnce /\ RefusedLate /\ LeftShape

JobOrder(j) == BegunOnce(j) /\ BeganFirst(j) /\ LinesOrdered(j) /\ EndFollows(j)

\* A status is published once and only while the process runs; it is
\* refused, without effect, only when the process is being stopped.
LEMMA PublishOnce ==
  ASSUME OnlyShutdownRefuses, TypeOK, NEW r \in Report, NEW ok \in BOOLEAN, PublishStatus(r, ok)
  PROVE  /\ UNCHANGED faults
         /\ ok => phase = "running" /\ status' \in XAdd(status, r, 1, StreamMaxLen)
         /\ ~ ok => phase = "stopping" /\ status' = status
<1>1. ~ Suffer("lostReply")
  <2>1. faults["lostReply"] \in Nat
    BY DEF TypeOK, FaultKind
  <2> QED BY <2>1 DEF OnlyShutdownRefuses, Suffer
<1>2. CASE ok
  BY <1>1, <1>2 DEF PublishStatus, Accepted, AddedTwice
<1>3. CASE ~ ok
  BY <1>1, <1>3 DEF PublishStatus, Refused, AddedUnseen, MayRefuse, OnlyShutdownRefuses
<1> QED BY <1>2, <1>3

\* What j's statuses on node1 show is as before.
SameHistory(j) ==
  /\ Reports(j)' = Reports(j)
  /\ Ended(j)' <=> Ended(j)
  /\ Reopened(j)' <=> Reopened(j)

LEMMA UnchangedHistory ==
  ASSUME UNCHANGED status, NEW j
  PROVE  SameHistory(j)
  BY DEF SameHistory, Reports, Ended, Reopened

\* What one more status on node1 does to the history of a job.
LEMMA HistoryGrows ==
  ASSUME TypeOK, NEW r \in Report, status' \in XAdd(status, r, 1, StreamMaxLen), NEW j
  PROVE  /\ r.job # j => SameHistory(j)
         /\ r \in Ends(j) => ~ Reopened(j)'
         /\ r = Beginning(j) /\ Reports(j) = {} => ~ Ended(j)'
         /\ r = Beginning(j) => (Ended(j)' <=> Ended(j))
<1> DEFINE n == Len(status.log)
<1>1. n \in Nat /\ DOMAIN status.log = 1 .. n
  BY LenProperties DEF TypeOK, Stream
<1>2. /\ DOMAIN status'.log = 1 .. n + 1
      /\ \A i \in 1 .. n : status'.log[i] = status.log[i]
      /\ status'.log[n + 1] = r
  <2>1. status \in Stream(Report) /\ status' \in Stream(Report)
    BY XAddKeeps, ConfigAssumption DEF TypeOK
  <2>2. status'.log \in Seq(Report)
    BY <2>1 DEF Stream
  <2>3. DOMAIN status'.log = 1 .. Len(status'.log)
    BY <2>2, LenProperties
  <2> QED BY <2>1, <2>3, XAddOnce, ConfigAssumption
<1> HIDE DEF n
<1>3. n + 1 \notin 1 .. n /\ 1 .. n + 1 = (1 .. n) \cup {n + 1}
  BY <1>1
<1>4. /\ Reports(j) \subseteq 1 .. n
      /\ Reports(j)' = Reports(j) \cup {i \in {n + 1} : r.job = j}
  BY <1>1, <1>2, <1>3 DEF Reports
<1>5. \A p \in Reports(j) : status'.log[p] = status.log[p]
  BY <1>2, <1>4
<1>6. CASE r.job # j
  <2>1. Reports(j)' = Reports(j)
    BY <1>4, <1>6
  <2>2. r \notin Ends(j) /\ r # Beginning(j)
    BY <1>6 DEF Ends, Beginning
  <2> QED BY <1>5, <1>6, <2>1, <2>2 DEF SameHistory, Ended, Reopened, Ends, Beginning
<1>7. CASE r.job = j
  <2>1. Reports(j)' = Reports(j) \cup {n + 1}
    BY <1>4, <1>7
  <2>2. ASSUME r \in Ends(j)
        PROVE  ~ Reopened(j)'
    <3>1. r # Beginning(j)
      BY <2>2 DEF Ends, Beginning, Terminal
    <3>2. \A p \in Reports(j) : ~ (n + 1 <= p)
      BY <1>1, <1>4
    <3> QED BY <1>2, <2>1, <3>1, <3>2 DEF Reopened, Beginning
  <2>3. ASSUME r = Beginning(j)
        PROVE  Ended(j)' <=> Ended(j)
    <3>1. r \notin Ends(j)
      BY <2>3 DEF Ends, Beginning, Terminal
    <3> QED BY <1>2, <1>5, <2>1, <3>1 DEF Ended, Ends
  <2>4. Reports(j) = {} => ~ Ended(j)
    BY DEF Ended
  <2> QED BY <1>7, <2>2, <2>3, <2>4
<1> QED BY <1>6, <1>7

\* The file says of j what it said before.
SameLines(j) ==
  /\ (\A r \in ToSet(fallback) : r.job # j) => (\A r \in ToSet(fallback') : r.job # j)
  /\ Beginning(j) \in ToSet(fallback') <=> Beginning(j) \in ToSet(fallback)
  /\ ToSet(fallback) \cap Ends(j) # {} => ToSet(fallback') \cap Ends(j) # {}
  /\ Ordered(fallback, j) => Ordered(fallback', j)

\* A step that leaves a job's statuses alone, begins with no job and hands
\* nobody the right to publish an end keeps the job's statuses in order.
LEMMA OrderKept ==
  ASSUME NEW j, JobOrder(j), SameHistory(j), SameLines(j), UNCHANGED replayVars,
         Pending(j)' => Pending(j) /\ (Awaiting(j)' => Awaiting(j)),
         Working(j)' \/ Awaiting(j)' => Working(j) \/ Awaiting(j)
  PROVE  JobOrder(j)'
<1>1. BegunOnce(j)'
  BY DEF JobOrder, BegunOnce, Untraced, SameHistory, SameLines
<1>2. BeganFirst(j)'
  BY DEF JobOrder, BeganFirst, SameLines, Beginning
<1>3. LinesOrdered(j)'
  <2>1. Ordered(fallback, j)' /\ Ordered(todo, j)' /\ Ordered(remaining, j)'
    BY DEF JobOrder, LinesOrdered, SameLines, Ordered, InOrder, Beginning, Ends, replayVars
  <2>2. (\A r \in ToSet(remaining), t \in ToSet(todo) : InOrder(r, t, j))'
    BY DEF JobOrder, LinesOrdered, InOrder, Beginning, Ends, replayVars
  <2> QED BY <2>1, <2>2 DEF LinesOrdered
<1>4. EndFollows(j)'
  <2> SUFFICES ASSUME Ended(j)'
               PROVE  /\ EndSaved(j, ToSet(fallback))'
                      /\ ppc' = "scan" => EndSaved(j, ToSet(todo) \cup ToSet(remaining))'
    BY DEF EndFollows
  <2>1. Ended(j) /\ (Reopened(j)' <=> Reopened(j))
    BY DEF SameHistory
  <2>2. EndSaved(j, ToSet(fallback))'
    BY <2>1 DEF JobOrder, EndFollows, EndSaved, SameLines, Ends, Beginning
  <2>3. ppc' = "scan" => EndSaved(j, ToSet(todo) \cup ToSet(remaining))'
    BY <2>1 DEF JobOrder, EndFollows, EndSaved, Ends, Beginning, replayVars
  <2> QED BY <2>2, <2>3
<1> QED BY <1>1, <1>2, <1>3, <1>4 DEF JobOrder

-----------------------------------------------------------------------------
\* A goroutine's message that nothing has been said of yet.
Unannounced == {"message", "announce", "saveProcessing"}

\* The places of a tail's elements.
LEMMA TailShifts ==
  ASSUME NEW S, NEW s \in Seq(S), s # <<>>, NEW n \in DOMAIN Tail(s)
  PROVE  n \in Nat /\ n + 1 \in DOMAIN s /\ n + 1 # 1 /\ Tail(s)[n] = s[n + 1]
<1>1. /\ DOMAIN s = 1 .. Len(s) /\ Len(s) \in Nat \ {0}
      /\ DOMAIN Tail(s) = 1 .. Len(s) - 1
      /\ \A i \in 1 .. Len(s) - 1 : Tail(s)[i] = s[i + 1]
  BY HeadTailProperties, LenProperties, EmptySeq
<1> QED BY <1>1

\* A step of a goroutine other than a read leaves a batch as it is, and what
\* was announced stays announced, or takes its first message out.
LEMMA BatchMoves ==
  ASSUME TypeOK, Shape, NEW g \in Goroutines, Goroutine(g), ~ ReadBatch(g),
         NEW h \in Goroutines
  PROVE  \/ /\ batch'[h] = batch[h]
            /\ batch[h] # <<>> /\ pc'[h] \in Unannounced => pc[h] \in Unannounced
         \/ /\ h = g /\ batch[h] # <<>> /\ batch'[h] = Tail(batch[h])
<1>1. CASE h # g
  BY <1>1, OthersUntouched
<1>2. ASSUME h = g
      PROVE  /\ pc \in [Goroutines -> GoroutinePc] /\ batch \in [Goroutines -> Seq(Message)]
             /\ pc[h] \in {"poll", "reading", "stopped"} => batch[h] = <<>>
             /\ pc[h] \notin {"poll", "reading", "stopped"} => batch[h] # <<>>
  BY DEF TypeOK, Shape, BatchShape
<1>3. CASE h = g /\ (Poll(g) \/ ReadNothing(g) \/ ReadLost(g))
  BY <1>2, <1>3 DEF Poll, ReadNothing, ReadLost
<1>4. CASE h = g /\ (AckMessage(g) \/ RejectMessage(g) \/ Announce(g))
  BY <1>2, <1>4 DEF AckMessage, RejectMessage, Announce, Unannounced
<1>5. ASSUME h = g, Finish(g), pc[g] \notin {"poll", "reading", "stopped"}
      PROVE  batch[h] # <<>> /\ batch'[h] = Tail(batch[h])
  BY <1>2, <1>5 DEF Finish
<1>6. CASE h = g /\ (AckDead(g) \/ FailJob(g))
  BY <1>5, <1>6 DEF AckDead, FailJob
<1>7. CASE h = g /\ CompleteJob(g)
  <2>1. CASE Finish(g)
    BY <1>5, <1>7, <2>1 DEF CompleteJob
  <2>2. CASE Goto(g, "saveDone") /\ UNCHANGED batch
    BY <1>2, <1>7, <2>2 DEF Goto, Unannounced
  <2> QED BY <1>7, <2>1, <2>2 DEF CompleteJob
<1>8. CASE h = g /\ SaveStatus(g)
  <2>1. CASE Finish(g)
    BY <1>5, <1>8, <2>1 DEF SaveStatus, SavedStatus
  <2>2. CASE (Goto(g, "work") \/ Goto(g, "ackDead")) /\ UNCHANGED batch
    BY <1>2, <1>8, <2>2 DEF Goto, Unannounced
  <2> QED BY <1>8, <2>1, <2>2 DEF SaveStatus
<1> QED BY <1>1, <1>3, <1>4, <1>6, <1>7, <1>8 DEF Goroutine

\* No step but a read makes a job pending.
LEMMA PendingShrinks ==
  ASSUME TypeOK, Shape, NEW g \in Goroutines, Goroutine(g), ~ ReadBatch(g), NEW j, Pending(j)'
  PROVE  Pending(j)
<1>1. queue \in Stream(Jobs) /\ queue.read \in Nat /\ Len(queue.log) \in Nat
      /\ DOMAIN queue.log = 1 .. Len(queue.log)
  BY LenProperties DEF TypeOK, Stream
<1>2. queue'.log = queue.log /\ queue'.read \in Nat /\ queue.read <= queue'.read
  <2>1. CASE ReadLost(g)
    <3>1. queue'.log = queue.log /\ queue'.read \in queue.read .. Len(queue.log)
      BY <1>1, <2>1, DeliveredKeeps, DeliveredTruth, ConfigAssumption DEF ReadLost
    <3> QED BY <1>1, <3>1
  <2>2. ASSUME NEW id, queue' = XAck(queue, id)
        PROVE  queue'.log = queue.log /\ queue'.read = queue.read
    BY <1>1, <2>2, XAckKeeps
  <2>3. ReadLost(g) \/ queue' = queue \/ \E id : queue' = XAck(queue, id)
    BY DEF Goroutine, Poll, ReadNothing, AckMessage, RejectMessage, AckDead, Announce,
       FailJob, CompleteJob, SaveStatus, Acknowledge
  <2> QED BY <1>1, <2>1, <2>2, <2>3
<1>3. CASE \A i \in DOMAIN queue'.log : queue'.log[i] = j => i > queue'.read
  BY <1>1, <1>2, <1>3 DEF Pending
<1>4. ASSUME NEW h \in Goroutines, NEW n \in DOMAIN batch'[h], batch'[h][n].body = j,
             n = 1 => pc'[h] \in Unannounced
      PROVE  Pending(j)
  <2>1. batch[h] \in Seq(Message)
    BY DEF TypeOK
  <2>2. CASE /\ batch'[h] = batch[h]
             /\ batch[h] # <<>> /\ pc'[h] \in Unannounced => pc[h] \in Unannounced
    <3>1. n \in DOMAIN batch[h] /\ batch[h] # <<>>
      BY <1>4, <2>1, <2>2, EmptySeq
    <3> QED BY <1>4, <2>2, <3>1 DEF Pending, Unannounced
  <2>3. CASE batch[h] # <<>> /\ batch'[h] = Tail(batch[h])
    <3>1. n + 1 \in DOMAIN batch[h] /\ n + 1 # 1 /\ batch[h][n + 1].body = j
      BY <1>4, <2>1, <2>3, TailShifts
    <3> QED BY <3>1 DEF Pending
  <2> QED BY <2>2, <2>3, BatchMoves
<1> QED BY <1>3, <1>4 DEF Pending, Unannounced

\* A job added once is in a batch only where a goroutine has it in hand.
LEMMA OneHolder ==
  ASSUME TypeOK, Shape, QueueShape, HeldOnce, NEW g \in Goroutines, batch[g] # <<>>,
         NEW j, j = Job(g), EnqueuedOnce(j),
         NEW h \in Goroutines, NEW k \in DOMAIN batch[h], batch[h][k].body = j
  PROVE  h = g /\ k = 1
<1>1. batch[g] \in Seq(Message) /\ batch[h] \in Seq(Message)
  BY DEF TypeOK
<1>2. 1 \in DOMAIN batch[g] /\ batch[g][1] = Current(g)
  BY <1>1, HeadTailProperties, LenProperties, EmptySeq DEF Current
<1>3. batch[g][1] \in ToSet(batch[g]) /\ batch[h][k] \in ToSet(batch[h])
  BY <1>2 DEF ToSet
<1>4. /\ batch[g][1].id \in 1 .. queue.read /\ queue.log[batch[g][1].id] = j
      /\ batch[h][k].id \in 1 .. queue.read /\ queue.log[batch[h][k].id] = j
  BY <1>2, <1>3 DEF QueueShape, Job
<1>5. 1 .. queue.read \subseteq DOMAIN queue.log
  BY LenProperties DEF TypeOK, Stream, QueueShape
<1>6. batch[g][1].id = batch[h][k].id
  BY <1>4, <1>5 DEF EnqueuedOnce
<1> QED BY <1>2, <1>6 DEF HeldOnce

\* A goroutine that has announced the job of its message, or is done with it,
\* leaves it pending nowhere.
LEMMA Begun ==
  ASSUME TypeOK, Shape, QueueShape, HeldOnce, NEW g \in Goroutines, batch[g] # <<>>,
         NEW j, j = Job(g), EnqueuedOnce(j), UNCHANGED <<queue.log, queue.read>>,
         \/ Finish(g)
         \/ (UNCHANGED batch /\ \E l \in {"work", "ackDead"} : Goto(g, l))
  PROVE  ~ Pending(j)'
<1>1. /\ pc \in [Goroutines -> GoroutinePc] /\ batch \in [Goroutines -> Seq(Message)]
      /\ queue.read \in Nat /\ Len(queue.log) \in Nat /\ DOMAIN queue.log = 1 .. Len(queue.log)
  BY LenProperties DEF TypeOK, Stream
<1>2. Current(g) \in ToSet(batch[g])
  BY <1>1, HeadTailProperties, ToSetHeadTail DEF Current
<1>3. Current(g).id \in 1 .. queue.read /\ queue.log[Current(g).id] = j
  BY <1>2 DEF QueueShape, Job
<1>4. Current(g).id \in DOMAIN queue.log /\ ~ (Current(g).id > queue.read)
  BY <1>1, <1>3 DEF QueueShape
<1>5. ~ (\A i \in DOMAIN queue'.log : queue'.log[i] = j => i > queue'.read)
  BY <1>3, <1>4
<1>6. ASSUME NEW h \in Goroutines, NEW n \in DOMAIN batch'[h], batch'[h][n].body = j,
             n = 1 => pc'[h] \in Unannounced
      PROVE  FALSE
  <2>1. CASE batch'[h] = batch[h]
    <3>1. h = g /\ n = 1
      BY <1>6, <2>1, OneHolder
    <3>2. CASE Finish(g)
      <4>1. batch[g] = Tail(batch[g])
        BY <1>1, <2>1, <3>1, <3>2 DEF Finish
      <4>2. Len(Tail(batch[g])) = Len(batch[g]) - 1 /\ Len(batch[g]) \in Nat
        BY <1>1, HeadTailProperties, LenProperties
      <4>3. Len(batch[g]) = Len(batch[g]) - 1
        BY <4>1, <4>2
      <4> QED BY <4>2, <4>3
    <3>3. CASE \E l \in {"work", "ackDead"} : Goto(g, l)
      BY <1>1, <1>6, <3>1, <3>3 DEF Goto, Unannounced
    <3> QED BY <3>2, <3>3
  <2>2. CASE batch'[h] # batch[h]
    <3>1. h = g /\ batch'[h] = Tail(batch[h])
      BY <1>1, <2>2 DEF Finish
    <3>2. n \in Nat /\ n + 1 \in DOMAIN batch[h] /\ n + 1 # 1 /\ batch[h][n + 1].body = j
      BY <1>1, <1>6, <3>1, TailShifts
    <3> QED BY <3>2, OneHolder
  <2> QED BY <2>1, <2>2
<1> QED BY <1>5, <1>6 DEF Pending, Unannounced

\* The messages a read returns were in no batch and began with no job.
LEMMA ReadPending ==
  ASSUME TypeOK, Shape, QueueShape, NEW g \in Goroutines, ReadBatch(g),
         NEW j, EnqueuedOnce(j), Pending(j)'
  PROVE  Pending(j)
<1>1. queue \in Stream(Jobs) /\ queue.read \in Nat /\ Len(queue.log) \in Nat
      /\ DOMAIN queue.log = 1 .. Len(queue.log)
      /\ batch \in [Goroutines -> Seq(Message)] /\ pc \in [Goroutines -> GoroutinePc]
  BY LenProperties DEF TypeOK, Stream
<1>2. /\ queue'.log = queue.log /\ queue'.read \in queue.read .. Len(queue.log)
      /\ \A m \in ToSet(Reply(queue, BatchSize)) :
           m.id \in 1 .. queue'.read /\ m.body = queue.log[m.id] /\ m.id > queue.read
  BY <1>1, DeliveredKeeps, DeliveredTruth, ConfigAssumption DEF ReadBatch
<1>3. /\ batch'[g] = Reply(queue, BatchSize)
      /\ \A h \in Goroutines \ {g} : batch'[h] = batch[h] /\ pc'[h] = pc[h]
  BY <1>1 DEF ReadBatch, Goto
<1>4. CASE \A i \in DOMAIN queue'.log : queue'.log[i] = j => i > queue'.read
  BY <1>1, <1>2, <1>4 DEF Pending
<1>5. ASSUME NEW h \in Goroutines, NEW n \in DOMAIN batch'[h], batch'[h][n].body = j,
             n = 1 => pc'[h] \in Unannounced
      PROVE  Pending(j)
  <2>1. CASE h # g
    BY <1>3, <1>5, <2>1 DEF Pending, Unannounced
  <2>2. CASE h = g
    <3>1. batch'[g][n] \in ToSet(Reply(queue, BatchSize))
      BY <1>3, <1>5, <2>2 DEF ToSet
    <3>2. PICK x : x = batch'[g][n].id
      OBVIOUS
    <3>3. x \in 1 .. queue'.read /\ queue.log[x] = j /\ x > queue.read
      BY <1>2, <1>5, <2>2, <3>1, <3>2
    <3>4. x \in DOMAIN queue.log
      BY <1>1, <1>2, <3>3
    <3>5. \A i \in DOMAIN queue.log : queue.log[i] = j => i = x
      BY <3>3, <3>4 DEF EnqueuedOnce
    <3> QED BY <3>3, <3>5 DEF Pending
  <2> QED BY <2>1, <2>2
<1> QED BY <1>4, <1>5 DEF Pending, Unannounced

-----------------------------------------------------------------------------
\* No step puts a message into two batches.
LEMMA StepHeld ==
  ASSUME TypeOK, Shape, QueueShape, HeldOnce, Next
  PROVE  HeldOnce'
<1>0. queue \in Stream(Jobs) /\ batch \in [Goroutines -> Seq(Message)]
  BY DEF TypeOK
<1>1. ASSUME \A h \in Goroutines :
               \/ batch'[h] = batch[h]
               \/ batch[h] # <<>> /\ batch'[h] = Tail(batch[h])
      PROVE  HeldOnce'
  <2> SUFFICES ASSUME NEW g \in Goroutines, NEW h \in Goroutines,
                      NEW n \in DOMAIN batch'[g], NEW k \in DOMAIN batch'[h],
                      batch'[g][n].id = batch'[h][k].id
               PROVE  g = h /\ n = k
    BY DEF HeldOnce
  <2>1. ASSUME NEW x \in Goroutines, NEW i \in DOMAIN batch'[x]
        PROVE  \/ batch'[x] = batch[x] /\ i \in DOMAIN batch[x]
               \/ /\ batch'[x] # batch[x]
                  /\ i \in Nat /\ i + 1 \in DOMAIN batch[x] /\ batch'[x][i] = batch[x][i + 1]
    <3>1. batch[x] \in Seq(Message)
      BY <1>0
    <3> QED BY <1>1, <2>1, <3>1, TailShifts
  <2>2. g = h
    BY <2>1 DEF HeldOnce
  <2>3. CASE batch'[g] = batch[g]
    BY <2>1, <2>2, <2>3 DEF HeldOnce
  <2>4. CASE batch'[g] # batch[g]
    <3>1. n \in Nat /\ k \in Nat /\ n + 1 = k + 1
      BY <2>1, <2>2, <2>4 DEF HeldOnce
    <3> QED BY <2>2, <3>1
  <2> QED BY <2>3, <2>4
<1>2. ASSUME NEW g \in Goroutines, ReadBatch(g)
      PROVE  HeldOnce'
  <2>1. /\ batch'[g] = Reply(queue, BatchSize) /\ HasUnread(queue)
        /\ \A h \in Goroutines \ {g} : batch'[h] = batch[h]
    BY <1>0, <1>2 DEF ReadBatch
  <2>2. ASSUME NEW h \in Goroutines \ {g}, NEW n \in DOMAIN batch'[g], NEW k \in DOMAIN batch'[h]
        PROVE  batch'[g][n].id # batch'[h][k].id
    <3>1. batch'[g][n] \in ToSet(Reply(queue, BatchSize)) /\ batch[h][k] \in ToSet(batch[h])
      BY <2>1, <2>2 DEF ToSet
    <3>2. batch[h][k].id \in 1 .. queue.read
      BY <3>1 DEF QueueShape
    <3>3. batch'[g][n].id > queue.read /\ batch'[g][n].id \in Nat
      <4>1. batch'[g][n].id > queue.read /\ batch'[g][n].id \in 1 .. Delivered(queue, BatchSize).read
        BY <1>0, <2>1, <3>1, DeliveredTruth, ConfigAssumption
      <4>2. Delivered(queue, BatchSize).read \in Nat
        BY <1>0, <2>1, DeliveredKeeps, ConfigAssumption DEF Stream
      <4> QED BY <4>1, <4>2
    <3>4. queue.read \in Nat
      BY <1>0 DEF Stream
    <3>5. batch'[h][k] = batch[h][k]
      BY <2>1
    <3> QED BY <3>2, <3>3, <3>4, <3>5
  <2>3. ASSUME NEW n \in DOMAIN batch'[g], NEW k \in DOMAIN batch'[g],
               batch'[g][n].id = batch'[g][k].id
        PROVE  n = k
    BY <1>0, <2>1, <2>3, ReplyIds, ConfigAssumption
  <2>4. ASSUME NEW x \in Goroutines, NEW y \in Goroutines,
               NEW n \in DOMAIN batch'[x], NEW k \in DOMAIN batch'[y],
               batch'[x][n].id = batch'[y][k].id
        PROVE  x = y /\ n = k
    <3>1. CASE x = g /\ y = g
      BY <2>3, <2>4, <3>1
    <3>2. CASE x = g /\ y # g
      BY <2>2, <2>4, <3>2
    <3>3. CASE x # g /\ y = g
      BY <2>2, <2>4, <3>3
    <3>4. CASE x # g /\ y # g
      BY <2>1, <2>4, <3>4 DEF HeldOnce
    <3> QED BY <3>1, <3>2, <3>3, <3>4
  <2> QED BY <2>4 DEF HeldOnce
<1>3. ASSUME NEW g \in Goroutines, Goroutine(g), ~ ReadBatch(g)
      PROVE  HeldOnce'
  BY <1>1, <1>3, BatchMoves
<1>4. CASE Retry \/ Replay \/ Stop \/ Restart \/ \E j \in Jobs : Enqueue(j)
  <2>1. batch' = batch
    BY <1>4 DEF Retry, RetryTick, RetryPop, RetryPause, RetryAgain, RetryGiveUp, RetrySave,
       Replay, ReplayStart, ReplayLine, ReplayRewrite, Stop, Restart, Enqueue, goroutineVars
  <2> QED BY <1>1, <2>1
<1>5. CASE Exit \/ Crash
  <2>1. \A h \in Goroutines : DOMAIN batch'[h] = {}
    BY <1>5 DEF Exit, Crash, Halt
  <2> QED BY <2>1 DEF HeldOnce
<1> QED BY <1>2, <1>3, <1>4, <1>5 DEF Next, WorkerNext, Process

\* Nothing is refused before the shutdown.
LEMMA StepRefused ==
  ASSUME OnlyShutdownRefuses, TypeOK, Shape, RefusedLate, Next
  PROVE  RefusedLate'
<1>0. pc \in [Goroutines -> GoroutinePc]
  BY DEF TypeOK
<1>1. ASSUME NEW g \in Goroutines, Goroutine(g)
      PROVE  RefusedLate'
  <2>1. phase' = phase /\ remaining' = remaining
    BY <1>1 DEF Goroutine, Poll, ReadBatch, ReadNothing, ReadLost, AckMessage, RejectMessage,
       AckDead, Announce, FailJob, CompleteJob, SaveStatus, processVars, replayVars
  <2>2. ASSUME NEW h \in Goroutines \ {g}
        PROVE  pc'[h] = pc[h]
    BY <1>1, <2>2, OthersUntouched
  <2>3. ASSUME pc'[g] = "saveProcessing", ~ Announce(g)
        PROVE  FALSE
    <3>1. ASSUME NEW l, Goto(g, l)
          PROVE  pc'[g] = l
      BY <1>0, <3>1 DEF Goto
    <3>2. CASE Finish(g)
      BY <2>3, <3>1, <3>2 DEF Finish
    <3>3. CASE Poll(g) \/ ReadBatch(g) \/ ReadNothing(g) \/ ReadLost(g)
      BY <2>3, <3>1, <3>3 DEF Poll, ReadBatch, ReadNothing, ReadLost
    <3>4. CASE AckMessage(g) \/ RejectMessage(g) \/ AckDead(g) \/ FailJob(g)
      BY <2>3, <3>1, <3>2, <3>4 DEF AckMessage, RejectMessage, AckDead, FailJob
    <3>5. CASE CompleteJob(g) \/ SaveStatus(g)
      BY <2>3, <3>1, <3>2, <3>5 DEF CompleteJob, SaveStatus
    <3> QED BY <1>1, <2>3, <3>3, <3>4, <3>5 DEF Goroutine
  <2>4. ASSUME Announce(g), pc'[g] = "saveProcessing"
        PROVE  phase = "stopping"
    <3>1. PICK ok \in BOOLEAN :
            /\ PublishStatus([job |-> Job(g), status |-> "processing"], ok)
            /\ Goto(g, IF ok THEN "work" ELSE "saveProcessing")
      BY <2>4 DEF Announce
    <3>2. ~ ok
      BY <1>0, <2>4, <3>1 DEF Goto
    <3>3. [job |-> Job(g), status |-> "processing"] \in Report
      BY <2>4, CurrentTyped DEF Announce, Shape
    <3> QED BY <3>1, <3>2, <3>3, PublishOnce
  <2> QED BY <2>1, <2>2, <2>3, <2>4 DEF RefusedLate
<1>2. CASE Retry
  BY <1>2 DEF Retry, RetryTick, RetryPop, RetryPause, RetryAgain, RetryGiveUp, RetrySave,
     RefusedLate, goroutineVars, replayVars, processVars
<1>3. ASSUME NEW ok \in BOOLEAN, ReplayLine(ok)
      PROVE  RefusedLate'
  <2>1. Head(todo) \in Report
    BY <1>3, LineTyped DEF ReplayLine
  <2>2. IF ok THEN remaining' = remaining ELSE phase = "stopping"
    BY <1>3, <2>1, KeptAfter, PublishOnce DEF ReplayLine
  <2> QED BY <1>3, <2>2 DEF ReplayLine, RefusedLate, goroutineVars
<1>4. CASE ReplayStart \/ ReplayRewrite
  BY <1>4 DEF ReplayStart, ReplayRewrite, RefusedLate, goroutineVars, processVars
<1>5. CASE Process \/ \E j \in Jobs : Enqueue(j)
  BY <1>5 DEF Process, Stop, Exit, Crash, Restart, Halt, Enqueue, RefusedLate, goroutineVars,
     replayVars, processVars
<1> QED BY <1>1, <1>2, <1>3, <1>4, <1>5 DEF Next, WorkerNext, Replay

-----------------------------------------------------------------------------
LEMMA UnchangedLines ==
  ASSUME UNCHANGED fallback, NEW j
  PROVE  SameLines(j)
  BY DEF SameLines, Ordered, InOrder, Beginning, Ends

\* A line that is in order with every line before it can be appended.
LEMMA OrderedAppend ==
  ASSUME NEW s \in Seq(Report), NEW r \in Report, NEW j,
         Ordered(s, j), \A x \in ToSet(s) : InOrder(x, r, j)
  PROVE  Ordered(Append(s, r), j)
<1>1. /\ DOMAIN s = 1 .. Len(s) /\ Len(s) \in Nat
      /\ DOMAIN Append(s, r) = 1 .. Len(s) + 1
      /\ \A i \in 1 .. Len(s) : Append(s, r)[i] = s[i]
      /\ Append(s, r)[Len(s) + 1] = r
  BY AppendProperties, LenProperties
<1> SUFFICES ASSUME NEW a \in 1 .. Len(s) + 1, NEW b \in 1 .. Len(s) + 1, a < b
             PROVE  InOrder(Append(s, r)[a], Append(s, r)[b], j)
  BY <1>1 DEF Ordered
<1>2. a \in DOMAIN s
  BY <1>1
<1>3. s[a] \in ToSet(s) /\ Append(s, r)[a] = s[a]
  BY <1>1, <1>2 DEF ToSet
<1>4. CASE b = Len(s) + 1
  BY <1>1, <1>3, <1>4
<1>5. CASE b # Len(s) + 1
  <2>1. b \in DOMAIN s /\ Append(s, r)[b] = s[b]
    BY <1>1, <1>5
  <2> QED BY <1>2, <1>3, <2>1 DEF Ordered
<1> QED BY <1>4, <1>5

\* What is behind the first line is in order, with it and within itself.
LEMMA OrderedTail ==
  ASSUME NEW s \in Seq(Report), s # <<>>, NEW j, Ordered(s, j)
  PROVE  /\ Ordered(Tail(s), j)
         /\ \A x \in ToSet(Tail(s)) : InOrder(Head(s), x, j)
<1>1. \A n \in DOMAIN Tail(s) : n \in Nat /\ n + 1 \in DOMAIN s /\ Tail(s)[n] = s[n + 1]
  BY TailShifts
<1>2. Ordered(Tail(s), j)
  <2> SUFFICES ASSUME NEW a \in DOMAIN Tail(s), NEW b \in DOMAIN Tail(s), a < b
               PROVE  InOrder(Tail(s)[a], Tail(s)[b], j)
    BY DEF Ordered
  <2>1. a + 1 < b + 1 /\ a + 1 \in DOMAIN s /\ b + 1 \in DOMAIN s
    BY <1>1
  <2> QED BY <1>1, <2>1 DEF Ordered
<1>3. ASSUME NEW x \in ToSet(Tail(s))
      PROVE  InOrder(Head(s), x, j)
  <2>1. PICK n \in DOMAIN Tail(s) : x = Tail(s)[n]
    BY <1>3 DEF ToSet
  <2>2. n + 1 \in DOMAIN s /\ x = s[n + 1] /\ n \in Nat
    BY <1>1, <2>1
  <2>3. DOMAIN s = 1 .. Len(s) /\ Len(s) \in Nat
    BY LenProperties
  <2>4. 1 \in DOMAIN s /\ 1 < n + 1 /\ Head(s) = s[1]
    BY <2>2, <2>3, HeadTailProperties
  <2> QED BY <2>2, <2>4 DEF Ordered
<1> QED BY <1>2, <1>3

\* What one more line does to the file's lines of a job.
LEMMA LinesGrow ==
  ASSUME TypeOK, NEW r \in Report, fallback' = Append(fallback, r), NEW j
  PROVE  /\ ToSet(fallback') = ToSet(fallback) \cup {r}
         /\ r # Beginning(j) \/ (\A x \in ToSet(fallback) : x.job # j) =>
              (Ordered(fallback, j) => Ordered(fallback', j))
         /\ r.job # j => SameLines(j)
<1>1. ToSet(fallback') = ToSet(fallback) \cup {r}
  BY ToSetAppend DEF TypeOK
<1>2. ASSUME r # Beginning(j) \/ (\A x \in ToSet(fallback) : x.job # j), Ordered(fallback, j)
      PROVE  Ordered(fallback', j)
  <2>1. \A x \in ToSet(fallback) : InOrder(x, r, j)
    BY <1>2 DEF InOrder, Ends
  <2> QED BY <1>2, <2>1, OrderedAppend DEF TypeOK
<1>3. ASSUME r.job # j
      PROVE  SameLines(j)
  <2>1. r # Beginning(j)
    BY <1>3 DEF Beginning
  <2> QED BY <1>1, <1>2, <1>3, <2>1 DEF SameLines, Beginning, Ends
<1> QED BY <1>1, <1>2, <1>3

\* Publishing an end keeps the order: no beginning is left that could follow.
LEMMA EndPublished ==
  ASSUME TypeOK, LeftShape, NEW j, JobOrder(j), NEW r \in Report, r \in Ends(j),
         status' \in XAdd(status, r, 1, StreamMaxLen), UNCHANGED <<fallback, replayVars>>,
         Beginning(j) \notin ToSet(fallback), ~ Pending(j)'
  PROVE  JobOrder(j)'
<1>1. BegunOnce(j)'
  BY DEF BegunOnce
<1>2. BeganFirst(j)'
  BY DEF BeganFirst, Beginning
<1>3. LinesOrdered(j)'
  BY DEF JobOrder, LinesOrdered, Ordered, InOrder, Beginning, Ends, replayVars
<1>4. EndFollows(j)'
  <2>1. ~ Reopened(j)'
    BY HistoryGrows
  <2>2. Beginning(j) \notin ToSet(fallback) \cup ToSet(todo) \cup ToSet(remaining)
    BY DEF LeftShape
  <2> QED BY <2>1, <2>2 DEF EndFollows, EndSaved, Beginning, replayVars
<1> QED BY <1>1, <1>2, <1>3, <1>4 DEF JobOrder

\* Announcing a job that nothing has been said of keeps the order.
LEMMA BeginningPublished ==
  ASSUME TypeOK, LeftShape, NEW j \in Jobs, JobOrder(j), Untraced(j),
         status' \in XAdd(status, Beginning(j), 1, StreamMaxLen),
         UNCHANGED <<fallback, replayVars>>, ~ Pending(j)'
  PROVE  JobOrder(j)'
<1>1. BegunOnce(j)'
  BY DEF BegunOnce
<1>2. BeganFirst(j)'
  BY DEF BeganFirst, Untraced, Beginning
<1>3. LinesOrdered(j)'
  BY DEF JobOrder, LinesOrdered, Ordered, InOrder, Beginning, Ends, replayVars
<1>4. EndFollows(j)'
  <2>1. Beginning(j) \in Report
    BY DEF Beginning, Report
  <2>2. ~ Ended(j)'
    BY <2>1, HistoryGrows DEF Untraced
  <2> QED BY <2>2 DEF EndFollows
<1> QED BY <1>1, <1>2, <1>3, <1>4 DEF JobOrder

\* So does saving an end,
LEMMA EndSavedInOrder ==
  ASSUME TypeOK, LeftShape, ppc = "idle", NEW j, JobOrder(j), NEW r \in Report, r \in Ends(j),
         fallback' = Append(fallback, r), UNCHANGED <<status, replayVars>>,
         ~ Pending(j)', Working(j)' \/ Awaiting(j)' => Working(j) \/ Awaiting(j)
  PROVE  JobOrder(j)'
<1>0. /\ ToSet(fallback') = ToSet(fallback) \cup {r} /\ r # Beginning(j)
      /\ Ordered(fallback, j) => Ordered(fallback', j)
  <2>1. r # Beginning(j)
    BY DEF Ends, Beginning, Terminal
  <2> QED BY <2>1, LinesGrow
<1>1. BegunOnce(j)'
  BY DEF BegunOnce
<1>2. BeganFirst(j)'
  BY <1>0 DEF JobOrder, BeganFirst, Beginning
<1>3. LinesOrdered(j)'
  BY <1>0 DEF JobOrder, LinesOrdered, Ordered, InOrder, Beginning, Ends, replayVars
<1>4. EndFollows(j)'
  BY <1>0 DEF EndFollows, EndSaved, Ends, replayVars
<1> QED BY <1>1, <1>2, <1>3, <1>4 DEF JobOrder

\* and saving the beginning of a job that nothing has been said of.
LEMMA BeginningSavedInOrder ==
  ASSUME TypeOK, LeftShape, ppc = "idle", NEW j \in Jobs, JobOrder(j), Untraced(j),
         fallback' = Append(fallback, Beginning(j)), UNCHANGED <<status, replayVars>>,
         ~ Pending(j)', ~ Working(j)', ~ Awaiting(j)'
  PROVE  JobOrder(j)'
<1>0. /\ Ordered(fallback, j) => Ordered(fallback', j)
  <2>1. Beginning(j) \in Report
    BY DEF Beginning, Report
  <2> QED BY <2>1, LinesGrow DEF Untraced
<1>1. BegunOnce(j)' /\ BeganFirst(j)'
  BY DEF BegunOnce, BeganFirst
<1>3. LinesOrdered(j)'
  BY <1>0 DEF JobOrder, LinesOrdered, Ordered, InOrder, Beginning, Ends, replayVars
<1>4. EndFollows(j)'
  BY UnchangedHistory DEF SameHistory, EndFollows, Untraced, Ended
<1> QED BY <1>1, <1>3, <1>4 DEF JobOrder

-----------------------------------------------------------------------------
\* Only who announces a job, while the process runs, comes to work on it.
LEMMA WorkBegins ==
  ASSUME TypeOK, Shape, RefusedLate, NEW g \in Goroutines, Goroutine(g), NEW j,
         Working(j)', ~ Working(j)
  PROVE  Announce(g) /\ Job(g) = j /\ pc'[g] = "work"
<1>0. /\ pc \in [Goroutines -> GoroutinePc] /\ batch \in [Goroutines -> Seq(Message)]
  BY DEF TypeOK
<1>1. PICK h \in Goroutines : pc'[h] = "work" /\ Job(h)' = j /\ phase' = "running"
  BY DEF Working
<1>2. phase = "running"
  BY <1>1 DEF Goroutine, Poll, ReadBatch, ReadNothing, ReadLost, AckMessage, RejectMessage,
     AckDead, Announce, FailJob, CompleteJob, SaveStatus, processVars
<1>3. h = g
  <2>1. ASSUME h # g
        PROVE  FALSE
    <3>1. pc[h] = "work" /\ Job(h) = j
      BY <1>1, <2>1, OthersUntouched DEF Job, Current
    <3> QED BY <1>2, <3>1 DEF Working
  <2> QED BY <2>1
<1>4. ASSUME NEW l, Goto(g, l)
      PROVE  l = "work"
  BY <1>0, <1>1, <1>3, <1>4 DEF Goto
<1>5. ~ Finish(g)
  BY <1>4 DEF Finish
<1>6. ~ SaveStatus(g)
  <2>1. pc[g] # "saveProcessing"
    BY <1>2 DEF RefusedLate
  <2> QED BY <1>4, <1>5, <2>1 DEF SaveStatus
<1>7. Announce(g)
  BY <1>4, <1>5, <1>6 DEF Goroutine, Poll, ReadBatch, ReadNothing, ReadLost, AckMessage,
     RejectMessage, AckDead, FailJob, CompleteJob
<1> QED BY <1>1, <1>3, <1>7 DEF Announce, Job, Current

\* A goroutine's step keeps a job's statuses in order.
LEMMA GoroutineOrder ==
  ASSUME OnlyShutdownRefuses, TypeOK, Shape, HoldShape, NEW j \in Jobs, EnqueuedOnce(j),
         JobOrder(j), NEW g \in Goroutines, Goroutine(g)
  PROVE  JobOrder(j)'
<1> USE DEF HoldShape
<1>0. /\ pc \in [Goroutines -> GoroutinePc] /\ batch \in [Goroutines -> Seq(Message)]
      /\ UNCHANGED replayVars
  BY DEF TypeOK, Goroutine, Poll, ReadBatch, ReadNothing, ReadLost, AckMessage, RejectMessage,
     AckDead, Announce, FailJob, CompleteJob, SaveStatus
<1>1. Pending(j)' => Pending(j)
  BY PendingShrinks, ReadPending
<1>2. ASSUME pc[g] \notin {"poll", "reading", "stopped"}
      PROVE  /\ batch[g] # <<>>
             /\ \A s \in {"processing", "done", "dead"} : [job |-> Job(g), status |-> s] \in Report
  BY <1>2, CurrentTyped DEF Shape, BatchShape
<1>3. ASSUME SameHistory(j), UNCHANGED <<fallback, failedList, hand>>, ~ Announce(g)
      PROVE  JobOrder(j)'
  <2>1. Awaiting(j)' <=> Awaiting(j)
    BY <1>3 DEF Awaiting
  <2>2. Working(j)' => Working(j)
    BY <1>3, WorkBegins
  <2> QED BY <1>0, <1>1, <1>3, <2>1, <2>2, UnchangedLines, OrderKept
<1>4. CASE \/ Poll(g) \/ ReadBatch(g) \/ ReadNothing(g) \/ ReadLost(g) \/ AckMessage(g)
           \/ AckDead(g)
  <2>1. UNCHANGED <<status, fallback, failedList, hand>> /\ ~ Announce(g)
    BY <1>4 DEF Poll, ReadBatch, ReadNothing, ReadLost, AckMessage, AckDead, Announce, retryVars
  <2> QED BY <1>3, <2>1, UnchangedHistory
<1>5. ASSUME NEW s \in {"done", "dead"}, NEW ok \in BOOLEAN,
             PublishStatus([job |-> Job(g), status |-> s], ok), ~ Announce(g),
             pc[g] \notin {"poll", "reading", "stopped"},
             UNCHANGED <<queue, fallback, failedList, hand>>,
             ok /\ Job(g) = j => /\ Beginning(j) \notin ToSet(fallback)
                                 /\ Finish(g) \/ (Goto(g, "ackDead") /\ UNCHANGED batch)
      PROVE  JobOrder(j)'
  <2> DEFINE r == [job |-> Job(g), status |-> s]
  <2>1. r \in Report /\ r.job = Job(g)
    BY <1>2, <1>5
  <2>2. CASE ~ ok
    BY <1>3, <1>5, <2>1, <2>2, PublishOnce, UnchangedHistory
  <2>3. CASE ok /\ Job(g) # j
    BY <1>3, <1>5, <2>1, <2>3, PublishOnce, HistoryGrows
  <2>4. CASE ok /\ Job(g) = j
    <3>1. status' \in XAdd(status, r, 1, StreamMaxLen)
      BY <1>5, <2>1, <2>4, PublishOnce
    <3>2. ~ Pending(j)'
      BY <1>2, <1>5, <2>4, Begun
    <3>3. r \in Ends(j)
      BY <2>4 DEF Ends, Terminal
    <3> HIDE DEF r
    <3> QED BY <1>0, <1>5, <2>1, <2>4, <3>1, <3>2, <3>3, EndPublished
  <2> QED BY <2>2, <2>3, <2>4
<1>6. CASE RejectMessage(g)
  <2>1. PICK ok \in BOOLEAN :
          /\ PublishStatus([job |-> Job(g), status |-> "dead"], ok)
          /\ Goto(g, IF ok THEN "ackDead" ELSE "saveDead")
    BY <1>6 DEF RejectMessage
  <2>2. pc[g] = "message" /\ UNCHANGED <<queue, batch, fallback, failedList, hand>> /\ ~ Announce(g)
    BY <1>6 DEF RejectMessage, Announce, retryVars
  <2>3. Job(g) = j => Beginning(j) \notin ToSet(fallback)
    <3>1. Job(g) = j => Pending(j)
      <4>1. 1 \in DOMAIN batch[g] /\ batch[g][1] = Current(g)
        BY <1>0, <1>2, <2>2, HeadTailProperties, LenProperties, EmptySeq DEF Current
      <4> QED BY <2>2, <4>1 DEF Pending, Job
    <3> QED BY <3>1 DEF JobOrder, BegunOnce, Untraced, Beginning
  <2> QED BY <1>5, <2>1, <2>2, <2>3
<1>7. CASE CompleteJob(g)
  <2>1. PICK ok \in BOOLEAN :
          /\ PublishStatus([job |-> Job(g), status |-> "done"], ok)
          /\ IF ok THEN Finish(g) ELSE Goto(g, "saveDone") /\ UNCHANGED batch
    BY <1>7 DEF CompleteJob
  <2>2. pc[g] = "work" /\ UNCHANGED <<queue, fallback, failedList, hand>> /\ ~ Announce(g)
    BY <1>7 DEF CompleteJob, Announce, retryVars
  <2>3. ok /\ Job(g) = j => Beginning(j) \notin ToSet(fallback)
    <3>1. ok => phase = "running"
      BY <1>2, <2>1, <2>2, PublishOnce
    <3> QED BY <2>2, <3>1 DEF JobOrder, BeganFirst, Working
  <2> QED BY <1>5, <2>1, <2>2, <2>3
<1>8. CASE Announce(g)
  <2>1. PICK ok \in BOOLEAN :
          /\ PublishStatus([job |-> Job(g), status |-> "processing"], ok)
          /\ Goto(g, IF ok THEN "work" ELSE "saveProcessing")
    BY <1>8 DEF Announce
  <2>2. pc[g] = "announce" /\ UNCHANGED <<queue, batch, fallback, failedList, hand>>
    BY <1>8 DEF Announce, retryVars
  <2> DEFINE r == [job |-> Job(g), status |-> "processing"]
  <2>3. r \in Report /\ r.job = Job(g)
    BY <1>2, <2>2
  <2>4. Awaiting(j)' <=> Awaiting(j)
    BY <2>2 DEF Awaiting
  <2>5. CASE ~ ok \/ Job(g) # j
    <3>1. SameHistory(j)
      BY <2>1, <2>3, <2>5, PublishOnce, UnchangedHistory, HistoryGrows
    <3>2. Working(j)' => Working(j)
      <4>1. ~ ok => pc'[g] # "work"
        BY <1>0, <2>1 DEF Goto
      <4> QED BY <2>5, <4>1, WorkBegins
    <3> QED BY <1>0, <1>1, <2>2, <2>4, <3>1, <3>2, UnchangedLines, OrderKept
  <2>6. CASE ok /\ Job(g) = j
    <3>1. status' \in XAdd(status, Beginning(j), 1, StreamMaxLen)
      BY <2>1, <2>3, <2>6, PublishOnce DEF Beginning
    <3>2. ~ Pending(j)'
      BY <1>2, <2>1, <2>2, <2>6, Begun
    <3>3. Untraced(j)
      <4>1. 1 \in DOMAIN batch[g] /\ batch[g][1] = Current(g)
        BY <1>0, <1>2, <2>2, HeadTailProperties, LenProperties, EmptySeq DEF Current
      <4>2. Pending(j)
        BY <2>2, <2>6, <4>1 DEF Pending, Job
      <4> QED BY <4>2 DEF JobOrder, BegunOnce
    <3> QED BY <1>0, <2>2, <3>1, <3>2, <3>3, BeginningPublished
  <2> QED BY <2>5, <2>6
<1>9. CASE FailJob(g)
  <2> DEFINE e == [job |-> Job(g), retries |-> 0]
  <2>1. /\ pc[g] = "work" /\ Finish(g) /\ ~ Announce(g)
        /\ UNCHANGED <<queue, status, hand, fallback>>
        /\ failedList' = failedList \/ (phase = "running" /\ failedList' = Append(failedList, e))
    <3>1. ~ Suffer("lostReply")
      <4>1. faults["lostReply"] \in Nat
        BY DEF TypeOK, FaultKind
      <4> QED BY <4>1 DEF OnlyShutdownRefuses, Suffer
    <3> QED BY <1>9, <3>1 DEF FailJob, PushLocal, Announce
  <2>2. CASE failedList' = failedList
    BY <1>3, <2>1, <2>2, UnchangedHistory
  <2>3. CASE phase = "running" /\ failedList' = Append(failedList, e)
    <3>1. e \in Entry
      <4>1. Job(g) \in Jobs
        BY <2>1, CurrentTyped DEF Shape
      <4>2. 0 \in 0 .. MaxRetries - 1
        BY ConfigAssumption
      <4> QED BY <4>1, <4>2 DEF Entry
    <3>2. ToSet(failedList') = ToSet(failedList) \cup {e}
      BY <2>3, <3>1, ToSetAppend DEF TypeOK
    <3>3. Awaiting(j)' => Awaiting(j) \/ Job(g) = j
      BY <2>1, <3>2 DEF Awaiting
    <3>4. Job(g) = j => Working(j) /\ ~ Pending(j)'
      <4>1. Job(g) = j => ~ Pending(j)'
        BY <1>2, <2>1, Begun
      <4> QED BY <2>1, <2>3, <4>1 DEF Working
    <3>5. Working(j)' => Working(j)
      BY <2>1, WorkBegins
    <3> QED BY <1>0, <1>1, <2>1, <3>3, <3>4, <3>5, UnchangedHistory, UnchangedLines, OrderKept
  <2> QED BY <2>1, <2>2, <2>3
<1>10. CASE SaveStatus(g)
  <2> DEFINE s == SavedStatus[pc[g]]
             r == [job |-> Job(g), status |-> s]
  <2>1. /\ pc[g] \in {"saveProcessing", "saveDone", "saveDead"}
        /\ s = IF pc[g] = "saveProcessing" THEN "processing"
               ELSE IF pc[g] = "saveDone" THEN "done" ELSE "dead"
    BY <1>10 DEF SaveStatus, SavedStatus
  <2>2. /\ UNCHANGED <<queue, status, failedList, hand>> /\ ~ Announce(g)
        /\ AppendFallbackFile(r)
        /\ Finish(g) \/ (UNCHANGED batch /\ \E l \in {"work", "ackDead"} : Goto(g, l))
    BY <1>10, <2>1 DEF SaveStatus, Announce, retryVars
  <2>3. r \in Report /\ r.job = Job(g) /\ batch[g] # <<>>
    BY <1>2, <2>1
  <2>4. Awaiting(j)' <=> Awaiting(j)
    BY <2>2 DEF Awaiting
  <2>5. Working(j)' => Working(j)
    BY <2>2, WorkBegins
  <2> HIDE DEF r, s
  <2>6. CASE fallback' = fallback
    BY <1>3, <2>2, <2>6, UnchangedHistory
  <2>7. CASE fallback' = Append(fallback, r) /\ Job(g) # j
    BY <1>0, <1>1, <2>2, <2>3, <2>4, <2>5, <2>7, UnchangedHistory, LinesGrow, OrderKept
  <2>8. CASE fallback' = Append(fallback, r) /\ Job(g) = j
    <3>1. ~ Pending(j)' /\ ppc = "idle"
      BY <2>2, <2>3, <2>8, Begun DEF AppendFallbackFile, MuFree
    <3>2. CASE pc[g] # "saveProcessing"
      <4>1. r \in Ends(j)
        BY <2>1, <2>8, <3>2 DEF r, Ends, Terminal
      <4> QED BY <1>0, <2>2, <2>3, <2>4, <2>5, <2>8, <3>1, <4>1, EndSavedInOrder
    <3>3. CASE pc[g] = "saveProcessing"
      <4>1. r = Beginning(j)
        BY <2>1, <2>8, <3>3 DEF r, Beginning
      <4>2. Untraced(j)
        <5>1. 1 \in DOMAIN batch[g] /\ batch[g][1] = Current(g)
          BY <1>0, <2>3, HeadTailProperties, LenProperties, EmptySeq DEF Current
        <5>2. Pending(j)
          BY <2>8, <3>3, <5>1 DEF Pending, Job
        <5> QED BY <5>2 DEF JobOrder, BegunOnce
      <4>3. ~ Working(j)
        BY <3>3 DEF RefusedLate, Working
      <4> QED BY <1>0, <2>2, <2>4, <2>5, <2>8, <3>1, <4>1, <4>2, <4>3,
                 BeginningSavedInOrder DEF Untraced
    <3> QED BY <3>2, <3>3
  <2> QED BY <2>2, <2>6, <2>7, <2>8 DEF AppendFallbackFile
<1> QED BY <1>4, <1>6, <1>7, <1>8, <1>9, <1>10 DEF Goroutine

\* A step that leaves stream and goroutines alone changes neither who waits
\* nor who works.
LEMMA HoldersKept ==
  ASSUME UNCHANGED <<queue, goroutineVars, phase>>, NEW j
  PROVE  (Pending(j)' <=> Pending(j)) /\ (Working(j)' <=> Working(j))
  BY DEF Pending, Working, Job, Current, goroutineVars

\* A job with an entry in the list or in hand is pending nowhere, and has no
\* beginning in the file.
LEMMA HandClean ==
  ASSUME NEW j, JobOrder(j), Awaiting(j)
  PROVE  ~ Pending(j) /\ Beginning(j) \notin ToSet(fallback)
  BY DEF JobOrder, BegunOnce, BeganFirst, Untraced

\* A step of the retry goroutine keeps a job's statuses in order.
LEMMA RetryOrder ==
  ASSUME OnlyShutdownRefuses, TypeOK, Shape, HoldShape, NEW j \in Jobs, JobOrder(j), Retry
  PROVE  JobOrder(j)'
<1> USE DEF HoldShape
<1>0. UNCHANGED <<queue, goroutineVars, phase, replayVars>>
  BY DEF Retry, RetryTick, RetryPop, RetryPause, RetryAgain, RetryGiveUp, RetrySave, processVars
<1>1. (Pending(j)' <=> Pending(j)) /\ (Working(j)' <=> Working(j))
  BY <1>0, HoldersKept
<1>2. ~ Suffer("lostReply")
  <2>1. faults["lostReply"] \in Nat
    BY DEF TypeOK, FaultKind
  <2> QED BY <2>1 DEF OnlyShutdownRefuses, Suffer
<1>3. failedList \in Seq(Entry) /\ hand \in Seq(Entry)
  BY DEF TypeOK
<1>4. ASSUME SameHistory(j), SameLines(j), Awaiting(j)' => Awaiting(j)
      PROVE  JobOrder(j)'
  BY <1>0, <1>1, <1>4, OrderKept
<1>5. ASSUME UNCHANGED <<status, fallback>>, Awaiting(j)' => Awaiting(j)
      PROVE  JobOrder(j)'
  BY <1>4, <1>5, UnchangedHistory, UnchangedLines
<1>6. ASSUME rpc \in {"handle", "saveDead"}
      PROVE  /\ Head(hand) \in Entry /\ Head(hand) \in ToSet(hand)
             /\ [job |-> Head(hand).job, status |-> "dead"] \in Report
  <2>1. Head(hand) \in Entry /\ Head(hand) \in ToSet(hand)
    BY <1>3, <1>6, HeadTailProperties, ToSetHeadTail DEF Shape, HandShape
  <2> QED BY <2>1 DEF Entry, Report
<1>7. CASE RetryTick \/ RetryPause
  BY <1>5, <1>7 DEF RetryTick, RetryPause, Awaiting
<1>8. CASE RetryPop
  <2>1. ToSet(failedList) = {Head(failedList)} \cup ToSet(Tail(failedList))
    BY <1>3, <1>8, ToSetHeadTail DEF RetryPop
  <2>2. ToSet(<<Head(failedList)>>) = {Head(failedList)}
    BY ToSetOne
  <2>3. /\ failedList' = Tail(failedList)
        /\ hand' = hand \/ hand' = <<Head(failedList)>>
        /\ UNCHANGED <<status, fallback>>
    BY <1>8 DEF RetryPop
  <2> QED BY <1>5, <2>1, <2>2, <2>3 DEF Awaiting
<1>9. CASE RetryAgain
  <2> DEFINE e == Attempted(Head(hand))
  <2>1. e \in Entry /\ e.job = Head(hand).job
    BY <1>6, <1>9, AttemptedTyped DEF RetryAgain
  <2>2. failedList' = failedList \/ failedList' = Append(failedList, e)
    BY <1>2, <1>9 DEF RetryAgain, PushLocal
  <2> HIDE DEF e
  <2>3. ToSet(Append(failedList, e)) = ToSet(failedList) \cup {e}
    BY <1>3, <2>1, ToSetAppend
  <2>4. Head(hand) \in ToSet(hand) /\ hand' = <<>> /\ UNCHANGED <<status, fallback>>
    BY <1>6, <1>9 DEF RetryAgain
  <2>5. Awaiting(j)' => Awaiting(j)
    BY <2>1, <2>2, <2>3, <2>4, ToSetEmpty DEF Awaiting
  <2> QED BY <1>5, <2>4, <2>5
<1>10. CASE RetryGiveUp
  <2> DEFINE r == [job |-> Head(hand).job, status |-> "dead"]
  <2>1. PICK ok \in BOOLEAN : PublishStatus(r, ok)
    BY <1>10 DEF RetryGiveUp
  <2>2. /\ UNCHANGED <<failedList, fallback>>
        /\ hand' = <<>> \/ hand' = hand
        /\ Head(hand) \in ToSet(hand) /\ r \in Report
    BY <1>6, <1>10 DEF RetryGiveUp
  <2>3. Awaiting(j)' => Awaiting(j)
    BY <2>2, ToSetEmpty DEF Awaiting
  <2>4. CASE ~ ok \/ Head(hand).job # j
    <3>1. SameHistory(j)
      BY <2>1, <2>2, <2>4, PublishOnce, UnchangedHistory, HistoryGrows
    <3> QED BY <1>4, <2>2, <2>3, <3>1, UnchangedLines
  <2>5. CASE ok /\ Head(hand).job = j
    <3>1. Awaiting(j)
      BY <2>2, <2>5 DEF Awaiting
    <3>2. r \in Ends(j)
      BY <2>5 DEF Ends, Terminal
    <3>3. status' \in XAdd(status, r, 1, StreamMaxLen)
      BY <2>1, <2>2, <2>5, PublishOnce
    <3> HIDE DEF r
    <3> QED BY <1>0, <1>1, <2>2, <3>1, <3>2, <3>3, HandClean, EndPublished
  <2> QED BY <2>4, <2>5
<1>11. CASE RetrySave
  <2> DEFINE r == [job |-> Head(hand).job, status |-> "dead"]
  <2>1. /\ UNCHANGED <<status, failedList>> /\ hand' = <<>>
        /\ AppendFallbackFile(r)
        /\ Head(hand) \in ToSet(hand) /\ r \in Report
    BY <1>6, <1>11 DEF RetrySave
  <2>2. Awaiting(j)' => Awaiting(j)
    BY <2>1, ToSetEmpty DEF Awaiting
  <2>3. CASE fallback' = fallback
    BY <1>5, <2>1, <2>2, <2>3
  <2>4. CASE fallback' = Append(fallback, r) /\ Head(hand).job # j
    BY <1>4, <2>1, <2>2, <2>4, UnchangedHistory, LinesGrow
  <2>5. CASE fallback' = Append(fallback, r) /\ Head(hand).job = j
    <3>1. Awaiting(j)
      BY <2>1, <2>5 DEF Awaiting
    <3>2. r \in Ends(j)
      BY <2>5 DEF Ends, Terminal
    <3>3. ppc = "idle"
      BY <2>1 DEF AppendFallbackFile, MuFree
    <3> HIDE DEF r
    <3> QED BY <1>0, <1>1, <2>1, <2>2, <2>5, <3>1, <3>2, <3>3, HandClean, EndSavedInOrder
  <2> QED BY <2>1, <2>3, <2>4, <2>5 DEF AppendFallbackFile
<1> QED BY <1>7, <1>8, <1>9, <1>10, <1>11 DEF Retry

\* So does a line that a replay sends or keeps.
LEMMA LineOrder ==
  ASSUME OnlyShutdownRefuses, TypeOK, Shape, HoldShape, NEW j \in Jobs, JobOrder(j),
         NEW ok \in BOOLEAN, ReplayLine(ok)
  PROVE  JobOrder(j)'
<1> USE DEF HoldShape
<1> DEFINE r == Head(todo)
<1>0. /\ todo \in Seq(Report) /\ remaining \in Seq(Report) /\ todo # <<>>
      /\ r \in Report /\ r \in ToSet(todo) /\ r \in ToSet(fallback)
      /\ ToSet(todo) = {r} \cup ToSet(Tail(todo))
  BY LineTyped, ToSetHeadTail DEF ReplayLine, TypeOK, LeftShape
<1>1. /\ UNCHANGED <<queue, goroutineVars, failedList, hand, fallback, ppc, phase>>
      /\ ppc = "scan" /\ todo' = Tail(todo)
      /\ remaining' = IF ok THEN remaining ELSE Append(remaining, r)
      /\ ok => phase = "running" /\ remaining = <<>> /\ status' \in XAdd(status, r, 1, StreamMaxLen)
      /\ ~ ok => status' = status
  <2>1. remaining' = IF ok THEN remaining ELSE Append(remaining, r)
    BY <1>0, KeptAfter DEF ReplayLine
  <2>2. /\ ok => phase = "running" /\ status' \in XAdd(status, r, 1, StreamMaxLen)
        /\ ~ ok => status' = status
    BY <1>0, PublishOnce DEF ReplayLine
  <2>3. phase = "running" => remaining = <<>>
    BY DEF RefusedLate
  <2> QED BY <2>1, <2>2, <2>3 DEF ReplayLine, retryVars
<1> HIDE DEF r
<1>2. (Pending(j)' <=> Pending(j)) /\ (Working(j)' <=> Working(j)) /\ (Awaiting(j)' <=> Awaiting(j))
  BY <1>1, HoldersKept DEF Awaiting
<1>3. ToSet(remaining') = ToSet(remaining) \cup (IF ok THEN {} ELSE {r})
  <2>1. ToSet(Append(remaining, r)) = ToSet(remaining) \cup {r}
    BY <1>0, ToSetAppend
  <2> QED BY <1>1, <2>1
<1>4. BegunOnce(j)'
  <2>1. ~ ok \/ r.job # j => SameHistory(j)
    BY <1>0, <1>1, HistoryGrows, UnchangedHistory
  <2>2. r.job = j => ~ Pending(j)
    BY <1>0 DEF JobOrder, BegunOnce, Untraced
  <2> QED BY <1>1, <1>2, <2>1, <2>2 DEF JobOrder, BegunOnce, Untraced, SameHistory
<1>5. BeganFirst(j)'
  BY <1>1, <1>2 DEF JobOrder, BeganFirst, Beginning
<1>6. LinesOrdered(j)'
  <2>1. Ordered(Tail(todo), j) /\ \A x \in ToSet(Tail(todo)) : InOrder(r, x, j)
    BY <1>0, OrderedTail DEF JobOrder, LinesOrdered, r
  <2>2. \A x \in ToSet(remaining), t \in ToSet(todo) : InOrder(x, t, j)
    BY DEF JobOrder, LinesOrdered
  <2>3. Ordered(remaining', j)
    <3>1. CASE ok
      BY <1>1, <3>1 DEF JobOrder, LinesOrdered
    <3>2. CASE ~ ok
      BY <1>0, <1>1, <2>2, <3>2, OrderedAppend DEF JobOrder, LinesOrdered
    <3> QED BY <3>1, <3>2
  <2>4. \A x \in ToSet(remaining'), t \in ToSet(todo') : InOrder(x, t, j)
    BY <1>0, <1>1, <1>3, <2>1, <2>2
  <2>5. Ordered(fallback', j) /\ Ordered(todo', j)
    BY <1>1, <2>1 DEF JobOrder, LinesOrdered
  <2> QED BY <2>3, <2>4, <2>5 DEF LinesOrdered, Ordered, InOrder, Beginning, Ends
<1>7. EndFollows(j)'
  <2> DEFINE left  == ToSet(todo) \cup ToSet(remaining)
             left2 == ToSet(todo') \cup ToSet(remaining')
  <2>0. Beginning(j) \notin Ends(j)
    BY DEF Beginning, Ends, Terminal
  <2>1. Ended(j) => /\ Reopened(j) \/ Beginning(j) \in ToSet(fallback) => ToSet(fallback) \cap Ends(j) # {}
                    /\ Reopened(j) \/ Beginning(j) \in left => left \cap Ends(j) # {}
    BY <1>1 DEF JobOrder, EndFollows, EndSaved
  <2>2. ASSUME \/ ~ Ended(j)'
               \/ /\ Reopened(j)' \/ Beginning(j) \in ToSet(fallback) => ToSet(fallback) \cap Ends(j) # {}
                  /\ Reopened(j)' \/ Beginning(j) \in left2 => left2 \cap Ends(j) # {}
        PROVE  EndFollows(j)'
    BY <1>1, <2>2 DEF EndFollows, EndSaved, Beginning, Ends
  <2>3. CASE ~ ok
    <3>1. left2 = left
      BY <1>0, <1>1, <1>3, <2>3
    <3>2. SameHistory(j)
      BY <1>1, <2>3, UnchangedHistory
    <3> QED BY <2>1, <2>2, <3>1, <3>2 DEF SameHistory
  <2>4. CASE ok /\ r.job # j
    <3>1. left = {r} \cup left2
      BY <1>0, <1>1, <1>3, <2>4
    <3>2. SameHistory(j)
      BY <1>0, <1>1, <2>4, HistoryGrows
    <3>3. r # Beginning(j) /\ r \notin Ends(j)
      BY <2>4 DEF Beginning, Ends
    <3>4. (Beginning(j) \in left2 <=> Beginning(j) \in left)
          /\ (left2 \cap Ends(j) # {} <=> left \cap Ends(j) # {})
      BY <3>1, <3>3
    <3> QED BY <2>1, <2>2, <3>2, <3>4 DEF SameHistory
  <2>5. CASE ok /\ r \in Ends(j)
    <3>1. ~ Reopened(j)'
      BY <1>0, <1>1, <2>5, HistoryGrows
    <3>2. Beginning(j) \notin left2
      <4>1. \A x \in ToSet(Tail(todo)) : InOrder(r, x, j)
        BY <1>0, OrderedTail DEF JobOrder, LinesOrdered, r
      <4>2. ToSet(remaining') = {}
        BY <1>1, <2>5, ToSetEmpty
      <4> QED BY <1>1, <2>5, <4>1, <4>2 DEF InOrder
    <3>3. ToSet(fallback) \cap Ends(j) # {}
      BY <1>0, <2>5
    <3> QED BY <2>2, <3>1, <3>2, <3>3
  <2>6. CASE ok /\ r = Beginning(j)
    <3>1. Ended(j)' <=> Ended(j)
      BY <1>0, <1>1, <2>6, HistoryGrows
    <3>2. left = {r} \cup left2
      BY <1>0, <1>1, <1>3, <2>6
    <3>3. Ended(j) => left2 \cap Ends(j) # {} /\ ToSet(fallback) \cap Ends(j) # {}
      BY <1>0, <2>0, <2>1, <2>6, <3>2
    <3> QED BY <2>2, <3>1, <3>3
  <2>7. r.job = j => r = Beginning(j) \/ r \in Ends(j)
    BY <1>0 DEF Report, Beginning, Ends, Terminal
  <2> QED BY <2>3, <2>4, <2>5, <2>6, <2>7
<1> QED BY <1>4, <1>5, <1>6, <1>7 DEF JobOrder

\* A replay starts on the file as it is, and its rewrite leaves what it kept.
LEMMA ScanOrder ==
  ASSUME TypeOK, Shape, HoldShape, NEW j \in Jobs, JobOrder(j), ReplayStart \/ ReplayRewrite
  PROVE  JobOrder(j)'
<1> USE DEF HoldShape
<1>0. UNCHANGED <<queue, status, goroutineVars, failedList, hand, phase>>
  BY DEF ReplayStart, ReplayRewrite, retryVars, processVars
<1>1. /\ Pending(j)' <=> Pending(j)
      /\ Working(j)' <=> Working(j)
      /\ Awaiting(j)' <=> Awaiting(j)
      /\ SameHistory(j)
  BY <1>0, HoldersKept, UnchangedHistory DEF Awaiting
<1>2. CASE ReplayStart
  <2>1. fallback' = fallback /\ todo' = fallback /\ remaining' = <<>> /\ ToSet(remaining') = {}
    BY <1>2, ToSetEmpty DEF ReplayStart
  <2>2. BegunOnce(j)' /\ BeganFirst(j)'
    BY <1>1, <2>1 DEF JobOrder, BegunOnce, BeganFirst, Untraced, SameHistory, Beginning
  <2>3. LinesOrdered(j)'
    BY <2>1 DEF JobOrder, LinesOrdered, Ordered, InOrder, Beginning, Ends
  <2>4. EndFollows(j)'
    BY <1>1, <2>1 DEF JobOrder, EndFollows, EndSaved, SameHistory, Beginning, Ends
  <2> QED BY <2>2, <2>3, <2>4 DEF JobOrder
<1>3. CASE ReplayRewrite
  <2>1. /\ fallback' = fallback \/ fallback' = remaining
        /\ todo' = <<>> /\ remaining' = <<>> /\ ppc' = "idle" /\ ppc = "scan"
        /\ ToSet(todo) = {} /\ ToSet(todo') = {} /\ ToSet(remaining') = {}
    BY <1>3, ToSetEmpty DEF ReplayRewrite
  <2>2. ToSet(fallback') \subseteq ToSet(fallback)
    BY <2>1 DEF LeftShape
  <2>3. BegunOnce(j)' /\ BeganFirst(j)'
    BY <1>1, <2>2 DEF JobOrder, BegunOnce, BeganFirst, Untraced, SameHistory, Beginning
  <2>4. LinesOrdered(j)'
    BY <2>1 DEF JobOrder, LinesOrdered, Ordered, InOrder, Beginning, Ends
  <2>5. EndFollows(j)'
    BY <1>1, <2>1 DEF JobOrder, EndFollows, EndSaved, SameHistory, Beginning, Ends
  <2> QED BY <2>3, <2>4, <2>5 DEF JobOrder
<1> QED BY <1>2, <1>3

\* A death of the process leaves the file and node1 as they are; nothing is
\* begun while it is down.
LEMMA ProcessOrder ==
  ASSUME TypeOK, Shape, HoldShape, NEW j \in Jobs, JobOrder(j), Process
  PROVE  JobOrder(j)'
<1>0. UNCHANGED <<queue, status, fallback, failedList>>
  BY DEF Process, Stop, Exit, Crash, Restart, Halt, retryVars
<1>1. CASE Stop
  <2>1. UNCHANGED <<goroutineVars, hand, replayVars>> /\ phase' # "running"
    BY <1>1 DEF Stop, retryVars
  <2>2. Pending(j)' <=> Pending(j)
    BY <1>0, <2>1 DEF Pending, goroutineVars
  <2>3. ~ Working(j)' /\ (Awaiting(j)' <=> Awaiting(j))
    BY <1>0, <2>1 DEF Working, Awaiting
  <2> QED BY <1>0, <2>1, <2>2, <2>3, UnchangedHistory, UnchangedLines, OrderKept
<1>2. CASE Restart
  <2>1. /\ UNCHANGED <<batch, hand, replayVars>>
        /\ \A g \in Goroutines : pc'[g] = "poll"
    BY <1>2 DEF Restart, retryVars
  <2>2. Pending(j)' => Pending(j)
    BY <1>0, <2>1 DEF Pending
  <2>3. ~ Working(j)' /\ (Awaiting(j)' <=> Awaiting(j))
    BY <1>0, <2>1 DEF Working, Awaiting
  <2> QED BY <1>0, <2>1, <2>2, <2>3, UnchangedHistory, UnchangedLines, OrderKept
<1>3. CASE Exit \/ Crash
  <2>1. /\ hand' = <<>> /\ todo' = <<>> /\ remaining' = <<>> /\ ppc' = "idle"
        /\ phase' = "down" /\ \A g \in Goroutines : batch'[g] = <<>>
        /\ ToSet(todo') = {} /\ ToSet(remaining') = {} /\ ToSet(hand') = {}
    BY <1>3, ToSetEmpty DEF Exit, Crash, Halt
  <2>2. SameHistory(j)
    BY <1>0, UnchangedHistory
  <2>3. ~ Working(j)' /\ (Awaiting(j)' => Awaiting(j))
    BY <1>0, <2>1 DEF Working, Awaiting
  <2>4. Pending(j)' => Pending(j)
    BY <1>0, <2>1 DEF Pending
  <2>5. BegunOnce(j)' /\ BeganFirst(j)'
    BY <1>0, <2>2, <2>3, <2>4 DEF JobOrder, BegunOnce, BeganFirst, Untraced, SameHistory, Beginning
  <2>6. LinesOrdered(j)'
    BY <1>0, <2>1 DEF JobOrder, LinesOrdered, Ordered, InOrder, Beginning, Ends
  <2>7. EndFollows(j)'
    BY <1>0, <2>1, <2>2 DEF JobOrder, EndFollows, EndSaved, SameHistory, Beginning, Ends
  <2> QED BY <2>5, <2>6, <2>7 DEF JobOrder
<1> QED BY <1>1, <1>2, <1>3 DEF Process

\* A job that is added to the stream had not begun; one that is there once
\* was never there twice.
LEMMA EnqueueOrder ==
  ASSUME TypeOK, NEW x \in Jobs, Enqueue(x), NEW j \in Jobs
  PROVE  /\ EnqueuedOnce(j)' => EnqueuedOnce(j)
         /\ JobOrder(j) => JobOrder(j)'
<1>1. queue \in Stream(Jobs) /\ queue' \in Stream(Jobs)
  <2>1. queue \in Stream(Jobs) /\ queue' \in XAdd(queue, x, 1, StreamMaxLen)
    BY DEF TypeOK, Enqueue
  <2> QED BY <2>1, XAddKeeps, ConfigAssumption
<1>2. /\ DOMAIN queue.log = 1 .. Len(queue.log) /\ Len(queue.log) \in Nat
      /\ DOMAIN queue'.log = 1 .. Len(queue'.log)
  BY <1>1, LenProperties DEF Stream
<1>3. /\ Len(queue'.log) = Len(queue.log) + 1
      /\ \A i \in 1 .. Len(queue.log) : queue'.log[i] = queue.log[i]
      /\ queue'.read = queue.read
  BY <1>1, XAddOnce, ConfigAssumption DEF Enqueue
<1>4. \A i \in DOMAIN queue.log : i \in DOMAIN queue'.log /\ queue'.log[i] = queue.log[i]
  BY <1>2, <1>3
<1>5. EnqueuedOnce(j)' => EnqueuedOnce(j)
  BY <1>4 DEF EnqueuedOnce
<1>6. ASSUME JobOrder(j)
      PROVE  JobOrder(j)'
  <2>1. UNCHANGED <<status, pc, batch, failedList, hand, fallback, replayVars, phase>>
    BY DEF Enqueue, goroutineVars, retryVars, processVars
  <2>2. Pending(j)' => Pending(j)
    BY <1>3, <1>4, <2>1 DEF Pending
  <2>3. (Working(j)' <=> Working(j)) /\ (Awaiting(j)' <=> Awaiting(j))
    BY <2>1 DEF Working, Awaiting, Job, Current
  <2> QED BY <1>6, <2>1, <2>2, <2>3, UnchangedHistory, UnchangedLines, OrderKept
<1> QED BY <1>5, <1>6

\* No step but a request adds to the stream.
LEMMA LogKept ==
  ASSUME TypeOK, WorkerNext, NEW j
  PROVE  EnqueuedOnce(j)' <=> EnqueuedOnce(j)
<1>0. queue \in Stream(Jobs)
  BY DEF TypeOK
<1>1. \/ queue' = queue
      \/ HasUnread(queue) /\ queue' = Delivered(queue, BatchSize)
      \/ \E id : queue' = XAck(queue, id)
  BY DEF WorkerNext, Goroutine, Poll, ReadBatch, ReadNothing, ReadLost, AckMessage, RejectMessage,
     AckDead, Announce, FailJob, CompleteJob, SaveStatus, Retry, RetryTick, RetryPop, RetryPause,
     RetryAgain, RetryGiveUp, RetrySave, Replay, ReplayStart, ReplayLine, ReplayRewrite, Process,
     Stop, Exit, Crash, Restart, Halt, Acknowledge
<1>2. queue'.log = queue.log
  <2>1. HasUnread(queue) => Delivered(queue, BatchSize).log = queue.log
    BY <1>0, DeliveredKeeps, ConfigAssumption
  <2>2. \A id : XAck(queue, id).log = queue.log
    BY <1>0, XAckKeeps
  <2> QED BY <1>1, <2>1, <2>2
<1> QED BY <1>2 DEF EnqueuedOnce

\* Every step keeps the statuses of every job in order.
LEMMA StepOrder ==
  ASSUME OnlyShutdownRefuses, TypeOK, Shape, HoldShape, StatusOrder, Next
  PROVE  StatusOrder'
<1> SUFFICES ASSUME NEW j \in Jobs, EnqueuedOnce(j)'
             PROVE  JobOrder(j)'
  BY DEF StatusOrder, JobOrder
<1>1. CASE WorkerNext
  <2>1. EnqueuedOnce(j)
    BY <1>1, LogKept
  <2>2. JobOrder(j)
    BY <2>1 DEF StatusOrder, JobOrder
  <2>3. CASE \E g \in Goroutines : Goroutine(g)
    BY <2>1, <2>2, <2>3, GoroutineOrder
  <2>4. CASE Retry
    BY <2>2, <2>4, RetryOrder
  <2>5. CASE Replay
    BY <2>2, <2>5, LineOrder, ScanOrder DEF Replay
  <2>6. CASE Process
    BY <2>2, <2>6, ProcessOrder
  <2> QED BY <1>1, <2>3, <2>4, <2>5, <2>6 DEF WorkerNext
<1>2. ASSUME NEW x \in Jobs, Enqueue(x)
      PROVE  JobOrder(j)'
  <2>1. EnqueuedOnce(j)
    BY <1>2, EnqueueOrder
  <2>2. JobOrder(j)
    BY <2>1 DEF StatusOrder, JobOrder
  <2> QED BY <1>2, <2>2, EnqueueOrder
<1> QED BY <1>1, <1>2 DEF Next

(***************************************************************************)
(* While node1's link fails only at a shutdown and no reply is lost, the   *)
(* statuses of a job that was enqueued once stay in order, on node1, in    *)
(* the file and in what a replay has left, whatever crashes, shutdowns and *)
(* disk errors come between (publishTerminal, replayOnce).                 *)
(***************************************************************************)
THEOREM StatusesStayInOrder == OnlyShutdownRefuses => (Spec => []StatusOrder)
<1> SUFFICES ASSUME OnlyShutdownRefuses
             PROVE  Spec => []StatusOrder
  OBVIOUS
<1>1. Init => HoldShape /\ StatusOrder
  <2> SUFFICES ASSUME Init PROVE HoldShape /\ StatusOrder
    OBVIOUS
  <2> USE DEF Init
  <2>1. /\ queue.log = <<>> /\ queue.read = 0 /\ status.log = <<>> /\ ToSet(fallback) = {}
        /\ ToSet(todo) = {} /\ ToSet(remaining) = {} /\ ToSet(failedList) = {} /\ ToSet(hand) = {}
    BY ToSetEmpty DEF EmptyStream
  <2>2. QueueShape
    BY <2>1, ToSetEmpty DEF QueueShape
  <2>3. HeldOnce /\ RefusedLate /\ LeftShape
    BY <2>1 DEF HeldOnce, RefusedLate, LeftShape
  <2>4. StatusOrder
    BY <2>1 DEF StatusOrder, BegunOnce, BeganFirst, LinesOrdered, EndFollows, Untraced, Reports,
       Awaiting, Working, Ended, Ordered
  <2> QED BY <2>2, <2>3, <2>4 DEF HoldShape
<1>2. TypeOK /\ Shape /\ HoldShape /\ StatusOrder /\ [Next]_vars => HoldShape' /\ StatusOrder'
  <2> SUFFICES ASSUME TypeOK, Shape, HoldShape, StatusOrder, [Next]_vars
               PROVE  HoldShape' /\ StatusOrder'
    OBVIOUS
  <2>1. CASE Next
    BY <2>1, StepQueue, StepHeld, StepRefused, StepLeft, StepOrder DEF HoldShape
  <2>2. CASE UNCHANGED vars
    <3>0. UNCHANGED <<queue, status, goroutineVars, fallback, failedList, hand, replayVars, phase>>
      BY <2>2 DEF vars, retryVars, processVars
    <3>1. HoldShape'
      <4>1. QueueShape' /\ HeldOnce'
        BY <3>0 DEF HoldShape, QueueShape, HeldOnce, goroutineVars
      <4>2. RefusedLate' /\ LeftShape'
        BY <3>0 DEF HoldShape, RefusedLate, LeftShape, goroutineVars, replayVars
      <4> QED BY <4>1, <4>2 DEF HoldShape
    <3>2. StatusOrder'
      <4> SUFFICES ASSUME NEW j \in Jobs, EnqueuedOnce(j)'
                   PROVE  JobOrder(j)'
        BY DEF StatusOrder, JobOrder
      <4>1. JobOrder(j)
        BY <3>0 DEF EnqueuedOnce, StatusOrder, JobOrder
      <4>2. Awaiting(j)' <=> Awaiting(j)
        BY <3>0 DEF Awaiting
      <4> QED BY <3>0, <4>1, <4>2, HoldersKept, UnchangedHistory, UnchangedLines, OrderKept
    <3> QED BY <3>1, <3>2
  <2> QED BY <2>1, <2>2
<1> QED BY TypeAndShape, <1>1, <1>2, PTL DEF Spec

(***************************************************************************)
(* And so the last status of a job on jobs:status is its end, once an end  *)
(* is published and no line of the job waits in the file                   *)
(* (node1_api/README.md:82: queued -> processing -> done / dead).          *)
(***************************************************************************)
THEOREM EndsStayLast == OnlyShutdownRefuses => (Spec => []EndIsLast)
<1>1. StatusOrder => EndIsLast
  BY DEF StatusOrder, EndIsLast, EndFollows, EndSaved, Ends
<1> QED BY <1>1, StatusesStayInOrder, PTL
=============================================================================
