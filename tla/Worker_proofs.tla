----------------------------- MODULE Worker_proofs -----------------------------
(***************************************************************************)
(* Theorems about Worker, for any jobs, any number of goroutines, any      *)
(* batch size, any bounds and any faults: types and shape, and that the    *)
(* worker forgets neither a saved status nor a job.                        *)
(***************************************************************************)
EXTENDS Worker, Stores_proofs

-----------------------------------------------------------------------------
(***************************************************************************)
(* What a command may change                                               *)
(***************************************************************************)

\* A fault is counted and no count goes down.
LEMMA SufferCounts ==
  ASSUME faults \in [FaultKind -> Nat], NEW k \in FaultKind, Suffer(k)
  PROVE  /\ faults' \in [FaultKind -> Nat]
         /\ faults'[k] > 0
         /\ \A x \in FaultKind : faults'[x] >= faults[x]
         /\ \A x \in FaultKind \ {k} : faults'[x] = faults[x]
  BY DEF Suffer

\* Publishing keeps what is published and, if it reports success, adds the
\* report.
LEMMA PublishKeeps ==
  ASSUME status \in Stream(Report), faults \in [FaultKind -> Nat],
         NEW r \in Report, NEW ok \in BOOLEAN, PublishStatus(r, ok)
  PROVE  /\ status' \in Stream(Report)
         /\ faults' \in [FaultKind -> Nat]
         /\ \A x \in FaultKind : faults'[x] >= faults[x]
         /\ Published \subseteq Published' /\ Published' \subseteq Published \cup {r}
         /\ ok => r \in Published'
<1> USE ConfigAssumption
<1>1. ASSUME NEW n \in {1, 2}, status' \in XAdd(status, r, n, StreamMaxLen)
      PROVE  /\ status' \in Stream(Report)
             /\ Published \subseteq Published' /\ Published' \subseteq Published \cup {r}
             /\ r \in Published'
  <2>1. status' \in Stream(Report) /\ Published \subseteq Published' /\ r \in Published'
    BY <1>1, XAddKeeps DEF Published
  <2>2. Published' \subseteq Published \cup {r}
    BY <1>1, XAddAdds DEF Published
  <2> QED BY <2>1, <2>2
<1>2. "lostReply" \in FaultKind
  BY DEF FaultKind
<1>3. CASE Accepted(r)
  BY <1>1, <1>3 DEF Accepted
<1>4. CASE AddedTwice(r)
  BY <1>1, <1>2, <1>4, SufferCounts DEF AddedTwice
<1>5. CASE ~ ok /\ Refused
  BY <1>5 DEF Refused, Published
<1>6. CASE ~ ok /\ AddedUnseen(r)
  BY <1>1, <1>2, <1>6, SufferCounts DEF AddedUnseen
<1> QED BY <1>3, <1>4, <1>5, <1>6 DEF PublishStatus

\* XACK leaves a stream with the log it had.
LEMMA AcknowledgeKeeps ==
  ASSUME queue \in Stream(Jobs), NEW id, Acknowledge(id)
  PROVE  queue' \in Stream(Jobs)
  BY XAckKeeps DEF Acknowledge

\* An append keeps the file's lines and adds one, unless the disk failed.
LEMMA AppendKeeps ==
  ASSUME fallback \in Seq(Report), faults \in [FaultKind -> Nat],
         NEW r \in Report, AppendFallbackFile(r)
  PROVE  /\ fallback' \in Seq(Report)
         /\ faults' \in [FaultKind -> Nat]
         /\ \A x \in FaultKind : faults'[x] >= faults[x]
         /\ ToSet(fallback) \subseteq ToSet(fallback')
         /\ ToSet(fallback') \subseteq ToSet(fallback) \cup {r}
         /\ r \in ToSet(fallback') \/ faults'["disk"] > 0
         /\ ppc = "idle"
<1>1. CASE fallback' = Append(fallback, r) /\ UNCHANGED faults
  BY <1>1, ToSetAppend, AppendProperties DEF AppendFallbackFile, MuFree
<1>2. CASE Suffer("disk") /\ UNCHANGED fallback
  BY <1>2, SufferCounts DEF AppendFallbackFile, MuFree, FaultKind
<1> QED BY <1>1, <1>2 DEF AppendFallbackFile

\* A push keeps the list's entries and adds one, unless the process is being
\* stopped or the local Redis failed.
LEMMA PushKeeps ==
  ASSUME failedList \in Seq(Entry), faults \in [FaultKind -> Nat],
         NEW e \in Entry, PushLocal(e)
  PROVE  /\ failedList' \in Seq(Entry)
         /\ faults' \in [FaultKind -> Nat]
         /\ \A x \in FaultKind : faults'[x] >= faults[x]
         /\ ToSet(failedList) \subseteq ToSet(failedList')
         /\ ToSet(failedList') \subseteq ToSet(failedList) \cup {e}
         /\ e \in ToSet(failedList') \/ phase = "stopping" \/ faults'["local"] > 0
<1>0. {"local", "lostReply"} \subseteq FaultKind
  BY DEF FaultKind
<1>1. /\ Append(failedList, e) \in Seq(Entry)
      /\ ToSet(Append(failedList, e)) = ToSet(failedList) \cup {e}
  BY ToSetAppend, AppendProperties
<1>2. /\ Append(Append(failedList, e), e) \in Seq(Entry)
      /\ ToSet(Append(Append(failedList, e), e)) = ToSet(Append(failedList, e)) \cup {e}
  <2>1. \A u \in Seq(Entry) : /\ Append(u, e) \in Seq(Entry)
                             /\ ToSet(Append(u, e)) = ToSet(u) \cup {e}
    BY ToSetAppend, AppendProperties
  <2> QED BY <1>1, <2>1
<1>3. CASE failedList' = Append(failedList, e) /\ UNCHANGED faults
  BY <1>1, <1>3
<1>4. CASE phase = "stopping" /\ UNCHANGED <<failedList, faults>>
  BY <1>4
<1>5. CASE Suffer("local") /\ UNCHANGED failedList
  BY <1>0, <1>5, SufferCounts
<1>6. CASE Suffer("lostReply") /\ failedList' = Append(Append(failedList, e), e)
  BY <1>0, <1>1, <1>2, <1>6, SufferCounts
<1> QED BY <1>3, <1>4, <1>5, <1>6 DEF PushLocal

-----------------------------------------------------------------------------
(***************************************************************************)
(* Types and shape                                                         *)
(***************************************************************************)

\* In every initial state the variables have their types and shape.
LEMMA InitShape == Init => TypeOK /\ Shape
<1> SUFFICES ASSUME Init PROVE TypeOK /\ Shape
  OBVIOUS
<1> USE DEF Init
<1>1. TypeOK
  <2>1. EmptyStream \in Stream(Jobs) /\ EmptyStream \in Stream(Report)
    BY DEF EmptyStream, Stream
  <2>2. pc \in [Goroutines -> GoroutinePc]
    BY DEF GoroutinePc
  <2>3. faults \in [FaultKind -> Nat]
    OBVIOUS
  <2> QED BY <2>1, <2>2, <2>3 DEF TypeOK
<1>2. Shape
  BY DEF Shape, BatchShape, HandShape, DownShape, ScanShape
<1> QED BY <1>1, <1>2

\* The message a goroutine is at, and the report it makes of it.
LEMMA CurrentTyped ==
  ASSUME TypeOK, BatchShape, NEW g \in Goroutines,
         pc[g] \notin {"poll", "reading", "stopped"}
  PROVE  /\ Current(g) \in Message /\ Job(g) \in Jobs
         /\ Current(g) \in ToSet(batch[g])
         /\ \A s \in {"processing", "done", "dead"} : [job |-> Job(g), status |-> s] \in Report
<1>1. batch[g] \in Seq(Message) /\ batch[g] # <<>>
  BY DEF TypeOK, BatchShape
<1>2. Current(g) \in Message /\ Current(g) \in ToSet(batch[g])
  BY <1>1, HeadTailProperties, ToSetHeadTail DEF Current
<1> QED BY <1>2 DEF Job, Message, Report

\* Finishing a message takes it, and nothing else, out of the goroutine's
\* batch.
LEMMA FinishKeeps ==
  ASSUME TypeOK, BatchShape, NEW g \in Goroutines,
         pc[g] \notin {"poll", "reading", "stopped"}, Finish(g)
  PROVE  /\ batch' \in [Goroutines -> Seq(Message)]
         /\ pc' \in [Goroutines -> GoroutinePc]
         /\ BatchShape'
         /\ ToSet(batch[g]) = {Current(g)} \cup ToSet(batch'[g])
         /\ \A h \in Goroutines \ {g} : batch'[h] = batch[h]
<1>1. batch \in [Goroutines -> Seq(Message)] /\ pc \in [Goroutines -> GoroutinePc]
  BY DEF TypeOK
<1>2. batch[g] # <<>>
  BY DEF BatchShape
<1>3. /\ Tail(batch[g]) \in Seq(Message)
      /\ Len(batch[g]) \in Nat \ {0}
      /\ Tail(batch[g]) = <<>> <=> Len(batch[g]) = 1
  <2>1. Tail(batch[g]) \in Seq(Message) /\ Len(Tail(batch[g])) = Len(batch[g]) - 1
    BY <1>1, <1>2, HeadTailProperties
  <2>2. Len(batch[g]) \in Nat \ {0}
    BY <1>1, <1>2, EmptySeq
  <2>3. Tail(batch[g]) = <<>> <=> Len(Tail(batch[g])) = 0
    BY <2>1, EmptySeq
  <2> QED BY <2>1, <2>2, <2>3
<1>4. {"poll", "message"} \subseteq GoroutinePc
  BY DEF GoroutinePc
<1>5. /\ batch' = [batch EXCEPT ![g] = Tail(batch[g])]
      /\ pc' = [pc EXCEPT ![g] = IF Len(batch[g]) = 1 THEN "poll" ELSE "message"]
  BY DEF Finish, Goto
<1>6. /\ batch' \in [Goroutines -> Seq(Message)]
      /\ pc' \in [Goroutines -> GoroutinePc]
  BY <1>1, <1>3, <1>4, <1>5
<1>7. BatchShape'
  BY <1>1, <1>3, <1>5 DEF BatchShape
<1>8. ToSet(batch[g]) = {Current(g)} \cup ToSet(batch'[g])
  BY <1>1, <1>2, <1>5, ToSetHeadTail DEF Current
<1> QED BY <1>1, <1>5, <1>6, <1>7, <1>8

\* A move of the goroutine within the handling of its message.
LEMMA GotoKeeps ==
  ASSUME TypeOK, BatchShape, NEW g \in Goroutines,
         pc[g] \notin {"poll", "reading", "stopped"},
         NEW l \in GoroutinePc \ {"poll", "reading", "stopped"},
         Goto(g, l), UNCHANGED batch
  PROVE  /\ pc' \in [Goroutines -> GoroutinePc]
         /\ batch' \in [Goroutines -> Seq(Message)]
         /\ BatchShape'
  BY DEF TypeOK, BatchShape, Goto

\* An entry that is not exhausted has one retry more after the next attempt.
LEMMA AttemptedTyped ==
  ASSUME NEW e \in Entry, ~ Exhausted(e)
  PROVE  Attempted(e) \in Entry /\ Attempted(e).job = e.job
<1>1. e.job \in Jobs /\ e.retries \in Nat
  BY ConfigAssumption DEF Entry
<1>2. Attempted(e) = [job |-> e.job, retries |-> e.retries + 1]
  BY DEF Attempted, Entry
<1>3. ~ (e.retries + 1 >= MaxRetries)
  BY <1>2 DEF Exhausted
<1>4. e.retries + 1 \in 0 .. MaxRetries - 1
  BY <1>1, <1>3, ConfigAssumption
<1> QED BY <1>1, <1>2, <1>4 DEF Entry

\* What a replay holds stays enough for the file while the file is left
\* alone and nothing is unpublished.
LEMMA ScanKept ==
  ASSUME ScanShape, UNCHANGED <<fallback, replayVars>>, Published \subseteq Published'
  PROVE  ScanShape'
  BY DEF ScanShape, replayVars

\* One step of a goroutine preserves types and shape.
LEMMA GoroutineShape ==
  ASSUME TypeOK, Shape, NEW g \in Goroutines, Goroutine(g)
  PROVE  TypeOK' /\ Shape'
<1> USE DEF Shape
<1>0. Alive /\ phase' = phase
  BY DEF Goroutine, Poll, ReadBatch, ReadNothing, ReadLost, AckMessage, RejectMessage,
         AckDead, Announce, FailJob, CompleteJob, SaveStatus, processVars
<1>1. CASE Poll(g)
  <2>1. TypeOK'
    BY <1>1 DEF Poll, Goto, TypeOK, GoroutinePc, retryVars, replayVars, processVars
  <2>2. BatchShape'
    BY <1>1 DEF Poll, Goto, TypeOK, BatchShape
  <2>3. HandShape' /\ DownShape'
    BY <1>0, <1>1 DEF Poll, Alive, HandShape, DownShape, retryVars
  <2>4. ScanShape'
    BY <1>1, ScanKept DEF Poll, Published
  <2> QED BY <2>1, <2>2, <2>3, <2>4
<1>2. CASE ReadBatch(g)
  <2>1. /\ Delivered(queue, BatchSize) \in Stream(Jobs)
        /\ Reply(queue, BatchSize) \in Seq(Message)
        /\ Reply(queue, BatchSize) # <<>>
    BY <1>2, DeliveredKeeps, ConfigAssumption DEF ReadBatch, TypeOK, Message
  <2>2. taken' \subseteq Jobs
    <3>1. ToSet(Reply(queue, BatchSize)) \subseteq Message
      BY <2>1, ToSetOf
    <3> QED BY <1>2, <3>1 DEF ReadBatch, TypeOK, Message
  <2>3. TypeOK'
    BY <1>2, <2>1, <2>2 DEF ReadBatch, Goto, TypeOK, GoroutinePc, retryVars, replayVars, processVars
  <2>4. BatchShape'
    BY <1>2, <2>1 DEF ReadBatch, Goto, TypeOK, BatchShape
  <2>5. HandShape' /\ DownShape'
    BY <1>0, <1>2 DEF ReadBatch, Alive, HandShape, DownShape, retryVars
  <2>6. ScanShape'
    BY <1>2, ScanKept DEF ReadBatch, Published
  <2> QED BY <2>3, <2>4, <2>5, <2>6
<1>3. CASE ReadNothing(g)
  <2>1. TypeOK'
    BY <1>3 DEF ReadNothing, Goto, TypeOK, GoroutinePc, retryVars, replayVars, processVars
  <2>2. BatchShape'
    BY <1>3 DEF ReadNothing, Goto, TypeOK, BatchShape
  <2>3. HandShape' /\ DownShape'
    BY <1>0, <1>3 DEF ReadNothing, Alive, HandShape, DownShape, retryVars
  <2>4. ScanShape'
    BY <1>3, ScanKept DEF ReadNothing, Published
  <2> QED BY <2>1, <2>2, <2>3, <2>4
<1>4. CASE ReadLost(g)
  <2>1. Delivered(queue, BatchSize) \in Stream(Jobs)
    BY <1>4, DeliveredKeeps, ConfigAssumption DEF ReadLost, TypeOK
  <2>2. faults' \in [FaultKind -> Nat]
    BY <1>4, SufferCounts DEF ReadLost, TypeOK, FaultKind
  <2>3. TypeOK'
    BY <1>4, <2>1, <2>2 DEF ReadLost, Goto, TypeOK, GoroutinePc, retryVars, replayVars
  <2>4. BatchShape'
    BY <1>4 DEF ReadLost, Goto, TypeOK, BatchShape
  <2>5. HandShape' /\ DownShape'
    BY <1>0, <1>4 DEF ReadLost, Alive, HandShape, DownShape, retryVars
  <2>6. ScanShape'
    BY <1>4, ScanKept DEF ReadLost, Published
  <2> QED BY <2>3, <2>4, <2>5, <2>6
<1>5. CASE AckMessage(g)
  <2>1. queue' \in Stream(Jobs)
    BY <1>5, AcknowledgeKeeps DEF AckMessage, TypeOK
  <2>2. pc' \in [Goroutines -> GoroutinePc] /\ BatchShape'
    BY <1>5, GotoKeeps DEF AckMessage, GoroutinePc
  <2>3. TypeOK'
    BY <1>5, <2>1, <2>2 DEF AckMessage, TypeOK, retryVars, replayVars, processVars
  <2>4. HandShape' /\ DownShape'
    BY <1>0, <1>5 DEF AckMessage, Alive, HandShape, DownShape, retryVars
  <2>5. ScanShape'
    BY <1>5, ScanKept DEF AckMessage, Published
  <2> QED BY <2>2, <2>3, <2>4, <2>5
<1>6. CASE RejectMessage(g)
  <2>0. [job |-> Job(g), status |-> "dead"] \in Report
    BY <1>6, CurrentTyped DEF RejectMessage
  <2>1. /\ status' \in Stream(Report) /\ faults' \in [FaultKind -> Nat]
        /\ Published \subseteq Published'
    BY <1>6, <2>0, PublishKeeps DEF RejectMessage, TypeOK
  <2>2. pc' \in [Goroutines -> GoroutinePc] /\ BatchShape'
    BY <1>6, GotoKeeps DEF RejectMessage, GoroutinePc, SavedStatus
  <2>3. TypeOK'
    BY <1>6, <2>1, <2>2 DEF RejectMessage, TypeOK, retryVars, replayVars
  <2>4. HandShape' /\ DownShape'
    BY <1>0, <1>6 DEF RejectMessage, Alive, HandShape, DownShape, retryVars
  <2>5. ScanShape'
    BY <1>6, <2>1, ScanKept DEF RejectMessage
  <2> QED BY <2>2, <2>3, <2>4, <2>5
<1>7. CASE AckDead(g)
  <2>1. queue' \in Stream(Jobs)
    BY <1>7, AcknowledgeKeeps DEF AckDead, TypeOK
  <2>2. /\ pc' \in [Goroutines -> GoroutinePc] /\ BatchShape'
        /\ batch' \in [Goroutines -> Seq(Message)]
    BY <1>7, FinishKeeps DEF AckDead
  <2>3. TypeOK'
    BY <1>7, <2>1, <2>2 DEF AckDead, TypeOK, retryVars, replayVars, processVars
  <2>4. HandShape' /\ DownShape'
    BY <1>0, <1>7 DEF AckDead, Alive, HandShape, DownShape, retryVars
  <2>5. ScanShape'
    BY <1>7, ScanKept DEF AckDead, Published
  <2> QED BY <2>2, <2>3, <2>4, <2>5
<1>8. CASE Announce(g)
  <2>0. [job |-> Job(g), status |-> "processing"] \in Report
    BY <1>8, CurrentTyped DEF Announce
  <2>1. /\ status' \in Stream(Report) /\ faults' \in [FaultKind -> Nat]
        /\ Published \subseteq Published'
    BY <1>8, <2>0, PublishKeeps DEF Announce, TypeOK
  <2>2. pc' \in [Goroutines -> GoroutinePc] /\ BatchShape'
    BY <1>8, GotoKeeps DEF Announce, GoroutinePc, SavedStatus
  <2>3. TypeOK'
    BY <1>8, <2>1, <2>2 DEF Announce, TypeOK, retryVars, replayVars
  <2>4. HandShape' /\ DownShape'
    BY <1>0, <1>8 DEF Announce, Alive, HandShape, DownShape, retryVars
  <2>5. ScanShape'
    BY <1>8, <2>1, ScanKept DEF Announce
  <2> QED BY <2>2, <2>3, <2>4, <2>5
<1>9. CASE FailJob(g)
  <2>0. [job |-> Job(g), retries |-> 0] \in Entry
    <3>1. Job(g) \in Jobs
      BY <1>9, CurrentTyped DEF FailJob
    <3>2. 0 \in 0 .. MaxRetries - 1
      BY ConfigAssumption
    <3> QED BY <3>1, <3>2 DEF Entry
  <2>1. failedList' \in Seq(Entry) /\ faults' \in [FaultKind -> Nat]
    BY <1>9, <2>0, PushKeeps DEF FailJob, TypeOK
  <2>2. /\ pc' \in [Goroutines -> GoroutinePc] /\ BatchShape'
        /\ batch' \in [Goroutines -> Seq(Message)]
    BY <1>9, FinishKeeps DEF FailJob
  <2>3. TypeOK'
    BY <1>9, <2>1, <2>2 DEF FailJob, TypeOK, replayVars
  <2>4. HandShape' /\ DownShape'
    BY <1>0, <1>9 DEF FailJob, Alive, HandShape, DownShape
  <2>5. ScanShape'
    BY <1>9, ScanKept DEF FailJob, Published
  <2> QED BY <2>2, <2>3, <2>4, <2>5
<1>10. CASE CompleteJob(g)
  <2>0. [job |-> Job(g), status |-> "done"] \in Report
    BY <1>10, CurrentTyped DEF CompleteJob
  <2>1. /\ status' \in Stream(Report) /\ faults' \in [FaultKind -> Nat]
        /\ Published \subseteq Published'
    BY <1>10, <2>0, PublishKeeps DEF CompleteJob, TypeOK
  <2>2. /\ pc' \in [Goroutines -> GoroutinePc] /\ BatchShape'
        /\ batch' \in [Goroutines -> Seq(Message)]
    BY <1>10, FinishKeeps, GotoKeeps DEF CompleteJob, GoroutinePc, SavedStatus
  <2>3. TypeOK'
    BY <1>10, <2>1, <2>2 DEF CompleteJob, TypeOK, retryVars, replayVars
  <2>4. HandShape' /\ DownShape'
    BY <1>0, <1>10 DEF CompleteJob, Alive, HandShape, DownShape, retryVars
  <2>5. ScanShape'
    BY <1>10, <2>1, ScanKept DEF CompleteJob
  <2> QED BY <2>2, <2>3, <2>4, <2>5
<1>11. CASE SaveStatus(g)
  <2>0. [job |-> Job(g), status |-> SavedStatus[pc[g]]] \in Report
    <3>1. SavedStatus[pc[g]] \in {"processing", "done", "dead"}
      BY <1>11 DEF SaveStatus, SavedStatus
    <3>2. pc[g] \notin {"poll", "reading", "stopped"}
      BY <1>11 DEF SaveStatus, SavedStatus
    <3> QED BY <3>1, <3>2, CurrentTyped
  <2>1. /\ fallback' \in Seq(Report) /\ faults' \in [FaultKind -> Nat]
        /\ ppc = "idle"
    BY <1>11, <2>0, AppendKeeps DEF SaveStatus, TypeOK
  <2>2. /\ pc' \in [Goroutines -> GoroutinePc] /\ BatchShape'
        /\ batch' \in [Goroutines -> Seq(Message)]
    BY <1>11, FinishKeeps, GotoKeeps DEF SaveStatus, GoroutinePc, SavedStatus
  <2>3. TypeOK'
    BY <1>11, <2>1, <2>2 DEF SaveStatus, TypeOK, retryVars, replayVars
  <2>4. HandShape' /\ DownShape'
    BY <1>0, <1>11 DEF SaveStatus, Alive, HandShape, DownShape, retryVars
  <2>5. ScanShape'
    BY <1>11, <2>1 DEF SaveStatus, ScanShape, replayVars
  <2> QED BY <2>2, <2>3, <2>4, <2>5
<1> QED BY <1>1, <1>2, <1>3, <1>4, <1>5, <1>6, <1>7, <1>8, <1>9, <1>10, <1>11 DEF Goroutine

\* One step of the retry goroutine preserves types and shape.
LEMMA RetryShape ==
  ASSUME TypeOK, Shape, Retry
  PROVE  TypeOK' /\ Shape'
<1> USE DEF Shape
<1>0. UNCHANGED <<queue, goroutineVars, replayVars, phase, taken>>
  BY DEF Retry, RetryTick, RetryPop, RetryPause, RetryAgain, RetryGiveUp, RetrySave,
         processVars
<1>1. BatchShape' /\ DownShape'
  BY <1>0 DEF BatchShape, DownShape, goroutineVars
<1>2. ASSUME failedList' \in Seq(Entry), rpc' \in {"idle", "drain", "handle", "saveDead"},
             hand' \in Seq(Entry), faults' \in [FaultKind -> Nat],
             status' \in Stream(Report), fallback' \in Seq(Report)
      PROVE  TypeOK'
  BY <1>0, <1>2 DEF TypeOK, goroutineVars, replayVars
<1>3. /\ rpc \in {"handle", "saveDead"} => hand \in Seq(Entry) /\ hand # <<>>
      /\ hand # <<>> => Head(hand) \in Entry
  BY HeadTailProperties DEF TypeOK, HandShape
<1>4. CASE RetryTick
  <2>1. TypeOK'
    BY <1>2, <1>4 DEF RetryTick, TypeOK, processVars
  <2>2. HandShape'
    BY <1>4 DEF RetryTick, HandShape
  <2>3. ScanShape'
    BY <1>0, <1>4, ScanKept DEF RetryTick, Published
  <2> QED BY <1>1, <2>1, <2>2, <2>3
<1>5. CASE RetryPop
  <2>1. faults' \in [FaultKind -> Nat]
    BY <1>5, SufferCounts DEF RetryPop, TypeOK, FaultKind
  <2>2. /\ failedList' \in Seq(Entry)
        /\ <<Head(failedList)>> \in Seq(Entry) /\ <<Head(failedList)>> # <<>>
    BY <1>5, HeadTailProperties DEF RetryPop, TypeOK
  <2>3. hand' \in Seq(Entry) /\ rpc' \in {"drain", "handle"} /\ HandShape'
    BY <1>5, <2>2 DEF RetryPop, TypeOK, HandShape
  <2>4. TypeOK'
    BY <1>2, <1>5, <2>1, <2>2, <2>3 DEF RetryPop, TypeOK
  <2>5. ScanShape'
    BY <1>0, <1>5, ScanKept DEF RetryPop, Published
  <2> QED BY <1>1, <2>3, <2>4, <2>5
<1>6. CASE RetryPause
  <2>1. faults' \in [FaultKind -> Nat]
    BY <1>6, SufferCounts DEF RetryPause, TypeOK, FaultKind
  <2>2. TypeOK'
    BY <1>2, <1>6, <2>1 DEF RetryPause, TypeOK
  <2>3. HandShape'
    BY <1>6 DEF RetryPause, HandShape
  <2>4. ScanShape'
    BY <1>0, <1>6, ScanKept DEF RetryPause, Published
  <2> QED BY <1>1, <2>2, <2>3, <2>4
<1>7. CASE RetryAgain
  <2>1. Attempted(Head(hand)) \in Entry
    BY <1>3, <1>7, AttemptedTyped DEF RetryAgain
  <2>2. failedList' \in Seq(Entry) /\ faults' \in [FaultKind -> Nat]
    BY <1>7, <2>1, PushKeeps DEF RetryAgain, TypeOK
  <2>3. TypeOK'
    BY <1>2, <1>7, <2>2 DEF RetryAgain, TypeOK
  <2>4. HandShape'
    BY <1>7 DEF RetryAgain, HandShape
  <2>5. ScanShape'
    BY <1>0, <1>7, ScanKept DEF RetryAgain, Published
  <2> QED BY <1>1, <2>3, <2>4, <2>5
<1>8. CASE RetryGiveUp
  <2>1. [job |-> Head(hand).job, status |-> "dead"] \in Report
    BY <1>3, <1>8 DEF RetryGiveUp, Entry, Report
  <2>2. /\ status' \in Stream(Report) /\ faults' \in [FaultKind -> Nat]
        /\ Published \subseteq Published'
    BY <1>8, <2>1, PublishKeeps DEF RetryGiveUp, TypeOK
  <2>3. /\ hand' \in Seq(Entry) /\ rpc' \in {"drain", "saveDead"} /\ HandShape'
    <3>1. \/ hand' = <<>> /\ rpc' = "drain"
          \/ hand' = hand /\ rpc' = "saveDead"
      BY <1>8, Zenon DEF RetryGiveUp
    <3>2. hand # <<>> /\ hand \in Seq(Entry)
      BY <1>3, <1>8 DEF RetryGiveUp
    <3>3. hand' \in Seq(Entry) /\ rpc' \in {"drain", "saveDead"}
      <4>1. <<>> \in Seq(Entry)
        OBVIOUS
      <4> QED BY <3>1, <3>2, <4>1, Zenon
    <3>4. hand' = <<>> <=> rpc' \in {"idle", "drain"}
      BY <3>1, <3>2
    <3> QED BY <3>3, <3>4 DEF HandShape
  <2>4. TypeOK'
    BY <1>2, <1>8, <2>2, <2>3 DEF RetryGiveUp, TypeOK
  <2>5. ScanShape'
    BY <1>0, <1>8, <2>2, ScanKept DEF RetryGiveUp
  <2> QED BY <1>1, <2>3, <2>4, <2>5
<1>9. CASE RetrySave
  <2>1. [job |-> Head(hand).job, status |-> "dead"] \in Report
    BY <1>3, <1>9 DEF RetrySave, Entry, Report
  <2>2. /\ fallback' \in Seq(Report) /\ faults' \in [FaultKind -> Nat]
        /\ ppc = "idle"
    BY <1>9, <2>1, AppendKeeps DEF RetrySave, TypeOK
  <2>3. TypeOK'
    BY <1>2, <1>9, <2>2 DEF RetrySave, TypeOK
  <2>4. HandShape'
    BY <1>9 DEF RetrySave, HandShape
  <2>5. ScanShape'
    BY <1>0, <2>2 DEF ScanShape, replayVars
  <2> QED BY <1>1, <2>3, <2>4, <2>5
<1> QED BY <1>4, <1>5, <1>6, <1>7, <1>8, <1>9 DEF Retry

\* One step of the replay goroutine preserves types and shape.
LEMMA ReplayShape ==
  ASSUME TypeOK, Shape, Replay
  PROVE  TypeOK' /\ Shape'
<1> USE DEF Shape
<1>0. UNCHANGED <<queue, goroutineVars, retryVars, phase, taken>>
  BY DEF Replay, ReplayStart, ReplayLine, ReplayRewrite, processVars
<1>1. BatchShape' /\ HandShape' /\ DownShape'
  BY <1>0 DEF BatchShape, HandShape, DownShape, goroutineVars, retryVars
<1>2. ASSUME status' \in Stream(Report), fallback' \in Seq(Report), ppc' \in {"idle", "scan"},
             todo' \in Seq(Report), remaining' \in Seq(Report), faults' \in [FaultKind -> Nat]
      PROVE  TypeOK'
  BY <1>0, <1>2 DEF TypeOK, goroutineVars, retryVars
<1>3. CASE ReplayStart
  <2>1. TypeOK'
    BY <1>2, <1>3 DEF ReplayStart, TypeOK, processVars
  <2>2. ScanShape'
    BY <1>3 DEF ReplayStart, ScanShape
  <2> QED BY <1>1, <2>1, <2>2
<1>4. ASSUME NEW ok \in BOOLEAN, ReplayLine(ok)
      PROVE  TypeOK' /\ ScanShape'
  <2> DEFINE line == Head(todo)
  <2>1. /\ todo \in Seq(Report) /\ todo # <<>> /\ remaining \in Seq(Report)
        /\ line \in Report /\ Tail(todo) \in Seq(Report)
        /\ ToSet(todo) = {line} \cup ToSet(Tail(todo))
    BY <1>4, HeadTailProperties, ToSetHeadTail DEF ReplayLine, TypeOK
  <2>2. /\ status' \in Stream(Report) /\ faults' \in [FaultKind -> Nat]
        /\ Published \subseteq Published'
        /\ ok => line \in Published'
    BY <1>4, <2>1, PublishKeeps DEF ReplayLine, TypeOK
  <2>3. /\ remaining' \in Seq(Report)
        /\ ToSet(remaining) \subseteq ToSet(remaining')
        /\ ~ ok => line \in ToSet(remaining')
    <3>1. remaining' = remaining \o Unpublished(line, ok)
      BY <1>4 DEF ReplayLine
    <3>2. CASE ok
      BY <2>1, <3>1, <3>2, ConcatEmptySeq DEF Unpublished
    <3>3. CASE ~ ok
      <4>1. remaining' = Append(remaining, line)
        BY <2>1, <3>1, <3>3, AppendIsConcat DEF Unpublished
      <4> QED BY <2>1, <3>3, <4>1, ToSetAppend, AppendProperties
    <3> QED BY <3>2, <3>3
  <2>4. TypeOK'
    BY <1>2, <1>4, <2>1, <2>2, <2>3 DEF ReplayLine, TypeOK
  <2>5. ScanShape'
    BY <1>4, <2>1, <2>2, <2>3 DEF ReplayLine, ScanShape
  <2> QED BY <2>4, <2>5
<1>5. CASE ReplayRewrite
  <2>1. faults' \in [FaultKind -> Nat] /\ fallback' \in Seq(Report)
    BY <1>5, SufferCounts DEF ReplayRewrite, TypeOK, FaultKind
  <2>2. TypeOK'
    BY <1>2, <1>5, <2>1 DEF ReplayRewrite, TypeOK
  <2>3. ScanShape'
    BY <1>5 DEF ReplayRewrite, ScanShape
  <2> QED BY <1>1, <2>2, <2>3
<1> QED BY <1>1, <1>3, <1>4, <1>5 DEF Replay

\* A step of the process preserves types and shape.
LEMMA ProcessShape ==
  ASSUME TypeOK, Shape, Process
  PROVE  TypeOK' /\ Shape'
<1> USE DEF Shape
<1>1. UNCHANGED <<queue, status, failedList, fallback, taken>> /\ faults' \in [FaultKind -> Nat]
  BY SufferCounts DEF Process, Stop, Exit, Crash, Restart, Halt, retryVars, TypeOK, FaultKind
<1>2. CASE Halt
  <2>1. TypeOK'
    BY <1>1, <1>2 DEF Halt, TypeOK, GoroutinePc
  <2>2. Shape'
    BY <1>2 DEF Halt, BatchShape, HandShape, DownShape, ScanShape
  <2> QED BY <2>1, <2>2
<1>3. CASE Stop
  <2>1. TypeOK'
    BY <1>1, <1>3 DEF Stop, TypeOK, goroutineVars, retryVars, replayVars
  <2>2. Shape'
    BY <1>3 DEF Stop, BatchShape, HandShape, DownShape, ScanShape, Published,
                goroutineVars, retryVars, replayVars
  <2> QED BY <2>1, <2>2
<1>4. CASE Restart
  <2>1. TypeOK'
    BY <1>1, <1>4 DEF Restart, TypeOK, GoroutinePc, retryVars, replayVars
  <2>2. BatchShape'
    BY <1>4 DEF Restart, BatchShape, DownShape
  <2>3. HandShape' /\ DownShape' /\ ScanShape'
    BY <1>4 DEF Restart, HandShape, DownShape, ScanShape, Published, retryVars, replayVars
  <2> QED BY <2>1, <2>2, <2>3
<1> QED BY <1>2, <1>3, <1>4 DEF Process, Exit, Crash

\* Every step preserves types and shape.
LEMMA StepShape ==
  ASSUME TypeOK, Shape, [Next]_vars
  PROVE  TypeOK' /\ Shape'
<1>1. CASE WorkerNext
  BY <1>1, GoroutineShape, RetryShape, ReplayShape, ProcessShape DEF WorkerNext
<1>2. ASSUME NEW j \in Jobs, Enqueue(j)
      PROVE  TypeOK' /\ Shape'
  <2>1. queue' \in Stream(Jobs)
    BY <1>2, XAddKeeps, ConfigAssumption DEF Enqueue, TypeOK
  <2>2. TypeOK'
    BY <1>2, <2>1 DEF Enqueue, TypeOK, goroutineVars, retryVars, replayVars, processVars
  <2>3. Shape'
    BY <1>2 DEF Enqueue, Shape, BatchShape, HandShape, DownShape, ScanShape, Published,
                goroutineVars, retryVars, replayVars, processVars
  <2> QED BY <2>2, <2>3
<1>3. CASE UNCHANGED vars
  <2>1. TypeOK'
    BY <1>3 DEF vars, TypeOK, goroutineVars, retryVars, replayVars, processVars
  <2>2. Shape'
    BY <1>3 DEF vars, Shape, BatchShape, HandShape, DownShape, ScanShape, Published,
                goroutineVars, retryVars, replayVars, processVars
  <2> QED BY <2>1, <2>2
<1> QED BY <1>1, <1>2, <1>3 DEF Next

(***************************************************************************)
(* In every reachable state the variables have their types and the state   *)
(* its shape: the goroutines, the retry and the replay hold messages,      *)
(* entries and lines exactly where the code has them in hand, and while a  *)
(* replay holds fallbackMu every line of the file is still to be sent, is  *)
(* kept for the rewrite, or is published (worker.go, fallback.go).         *)
(***************************************************************************)
THEOREM TypeAndShape == Spec => [](TypeOK /\ Shape)
<1>1. TypeOK /\ Shape /\ [Next]_vars => (TypeOK /\ Shape)'
  BY StepShape
<1> QED BY InitShape, <1>1, PTL DEF Spec

(***************************************************************************)
(* The variables keep their types; among others, no entry of the local     *)
(* list ever has as many attempts as are allowed (retryFailedStatus).      *)
(***************************************************************************)
THEOREM TypeCorrect == Spec => []TypeOK
  BY TypeAndShape, PTL

-----------------------------------------------------------------------------
(***************************************************************************)
(* What no step undoes                                                     *)
(***************************************************************************)

\* Published statuses stay published, and no fault is uncounted.
LEMMA NothingUndone ==
  ASSUME TypeOK, Shape, Next
  PROVE  /\ Published \subseteq Published'
         /\ \A k \in FaultKind : faults'[k] >= faults[k]
<1>0. status \in Stream(Report) /\ faults \in [FaultKind -> Nat] /\ fallback \in Seq(Report)
      /\ failedList \in Seq(Entry)
  BY DEF TypeOK
<1>1. ASSUME UNCHANGED status
      PROVE  Published \subseteq Published'
  BY <1>1 DEF Published
<1>2. ASSUME UNCHANGED faults
      PROVE  \A k \in FaultKind : faults'[k] >= faults[k]
  BY <1>0, <1>2
<1>3. ASSUME NEW g \in Goroutines, Goroutine(g)
      PROVE  /\ Published \subseteq Published'
             /\ \A k \in FaultKind : faults'[k] >= faults[k]
  <2>0. /\ pc[g] \notin {"poll", "reading", "stopped"} =>
             /\ Job(g) \in Jobs
             /\ \A s \in {"processing", "done", "dead"} :
                  [job |-> Job(g), status |-> s] \in Report
    BY CurrentTyped DEF Shape
  <2>1. CASE Poll(g) \/ ReadBatch(g) \/ ReadNothing(g) \/ AckMessage(g) \/ AckDead(g)
    BY <1>1, <1>2, <2>1 DEF Poll, ReadBatch, ReadNothing, AckMessage, AckDead, processVars
  <2>2. CASE ReadLost(g)
    BY <1>0, <1>1, <2>2, SufferCounts DEF ReadLost, FaultKind
  <2>3. CASE RejectMessage(g)
    BY <1>0, <2>0, <2>3, PublishKeeps DEF RejectMessage
  <2>4. CASE Announce(g)
    BY <1>0, <2>0, <2>4, PublishKeeps DEF Announce
  <2>5. CASE FailJob(g)
    <3>1. [job |-> Job(g), retries |-> 0] \in Entry
      <4>1. Job(g) \in Jobs
        BY <2>0, <2>5 DEF FailJob
      <4>2. 0 \in 0 .. MaxRetries - 1
        BY ConfigAssumption
      <4> QED BY <4>1, <4>2 DEF Entry
    <3> QED BY <1>0, <1>1, <2>5, <3>1, PushKeeps DEF FailJob
  <2>6. CASE CompleteJob(g)
    BY <1>0, <2>0, <2>6, PublishKeeps DEF CompleteJob
  <2>7. CASE SaveStatus(g)
    <3>1. [job |-> Job(g), status |-> SavedStatus[pc[g]]] \in Report
      <4>1. SavedStatus[pc[g]] \in {"processing", "done", "dead"}
        BY <2>7 DEF SaveStatus, SavedStatus
      <4>2. pc[g] \notin {"poll", "reading", "stopped"}
        BY <2>7 DEF SaveStatus, SavedStatus
      <4> QED BY <2>0, <4>1, <4>2
    <3> QED BY <1>0, <1>1, <2>7, <3>1, AppendKeeps DEF SaveStatus
  <2> QED BY <1>3, <2>1, <2>2, <2>3, <2>4, <2>5, <2>6, <2>7 DEF Goroutine
<1>4. CASE Retry
  <2>0. rpc \in {"handle", "saveDead"} =>
          /\ Head(hand) \in Entry
          /\ [job |-> Head(hand).job, status |-> "dead"] \in Report
    <3>1. rpc \in {"handle", "saveDead"} => Head(hand) \in Entry
      BY HeadTailProperties DEF TypeOK, Shape, HandShape
    <3> QED BY <3>1 DEF Entry, Report
  <2>1. CASE RetryTick
    BY <1>1, <1>2, <2>1 DEF RetryTick, processVars
  <2>2. CASE RetryPop \/ RetryPause
    BY <1>0, <1>1, <1>2, <2>2, SufferCounts DEF RetryPop, RetryPause, FaultKind
  <2>3. CASE RetryAgain
    <3>1. Attempted(Head(hand)) \in Entry
      BY <2>0, <2>3, AttemptedTyped DEF RetryAgain
    <3> QED BY <1>0, <1>1, <2>3, <3>1, PushKeeps DEF RetryAgain
  <2>4. CASE RetryGiveUp
    BY <1>0, <2>0, <2>4, PublishKeeps DEF RetryGiveUp
  <2>5. CASE RetrySave
    BY <1>0, <1>1, <2>0, <2>5, AppendKeeps DEF RetrySave
  <2> QED BY <1>4, <2>1, <2>2, <2>3, <2>4, <2>5 DEF Retry
<1>5. CASE Replay
  <2>1. CASE ReplayStart
    BY <1>1, <1>2, <2>1 DEF ReplayStart, processVars
  <2>2. ASSUME NEW ok \in BOOLEAN, ReplayLine(ok)
        PROVE  /\ Published \subseteq Published'
               /\ \A k \in FaultKind : faults'[k] >= faults[k]
    <3>1. Head(todo) \in Report
      BY <2>2, HeadTailProperties DEF ReplayLine, TypeOK
    <3> QED BY <1>0, <2>2, <3>1, PublishKeeps DEF ReplayLine
  <2>3. CASE ReplayRewrite
    BY <1>0, <1>1, <1>2, <2>3, SufferCounts DEF ReplayRewrite, FaultKind
  <2> QED BY <1>5, <2>1, <2>2, <2>3 DEF Replay
<1>6. CASE Process
  BY <1>0, <1>1, <1>2, <1>6, SufferCounts
     DEF Process, Stop, Exit, Crash, Restart, Halt, FaultKind
<1>7. ASSUME NEW j \in Jobs, Enqueue(j)
      PROVE  /\ Published \subseteq Published'
             /\ \A k \in FaultKind : faults'[k] >= faults[k]
  BY <1>1, <1>2, <1>7 DEF Enqueue, processVars
<1> QED BY <1>3, <1>4, <1>5, <1>6, <1>7 DEF Next, WorkerNext

\* A line leaves the file only in a replay's rewrite, and by then it was kept
\* for the rewrite or published.
LEMMA SavedStays ==
  ASSUME TypeOK, Shape, Next
  PROVE  ToSet(fallback) \subseteq ToSet(fallback') \cup Published'
<1>1. CASE UNCHANGED fallback
  BY <1>1
<1>2. ASSUME NEW g \in Goroutines, SaveStatus(g)
      PROVE  ToSet(fallback) \subseteq ToSet(fallback')
  <2>1. SavedStatus[pc[g]] \in {"processing", "done", "dead"}
        /\ pc[g] \notin {"poll", "reading", "stopped"}
    BY <1>2 DEF SaveStatus, SavedStatus
  <2>2. [job |-> Job(g), status |-> SavedStatus[pc[g]]] \in Report
    BY <2>1, CurrentTyped DEF Shape
  <2> QED BY <1>2, <2>2, AppendKeeps DEF SaveStatus, TypeOK
<1>3. CASE RetrySave
  <2>1. Head(hand) \in Entry
    BY <1>3, HeadTailProperties DEF RetrySave, TypeOK, Shape, HandShape
  <2>2. [job |-> Head(hand).job, status |-> "dead"] \in Report
    BY <2>1 DEF Entry, Report
  <2> QED BY <1>3, <2>2, AppendKeeps DEF RetrySave, TypeOK
<1>4. CASE ReplayRewrite
  <2>1. ToSet(fallback) \subseteq ToSet(remaining) \cup Published
    BY <1>4, ToSetEmpty DEF ReplayRewrite, Shape, ScanShape
  <2>2. Published \subseteq Published'
    BY NothingUndone
  <2> QED BY <1>4, <2>1, <2>2 DEF ReplayRewrite
<1>5. ASSUME Next, ~ RetrySave, ~ ReplayRewrite, \A g \in Goroutines : ~ SaveStatus(g)
      PROVE  UNCHANGED fallback
  BY <1>5 DEF Next, WorkerNext, Goroutine, Poll, ReadBatch, ReadNothing, ReadLost, AckMessage,
       RejectMessage, AckDead, Announce, FailJob, CompleteJob, Retry, RetryTick, RetryPop,
       RetryPause, RetryAgain, RetryGiveUp, Replay, ReplayStart, ReplayLine, Process, Stop,
       Exit, Crash, Restart, Halt, Enqueue
<1> QED BY <1>1, <1>2, <1>3, <1>4, <1>5

(***************************************************************************)
(* A status saved in the fallback file leaves it only when node1 has it,   *)
(* whatever dies or fails during a replay (fallback.go).                   *)
(***************************************************************************)
THEOREM SavedIsSafe == Spec => SavedUntilPublished
<1>1. TypeOK /\ Shape /\ [Next]_vars
        => [ToSet(fallback) \subseteq ToSet(fallback') \cup Published']_vars
  BY SavedStays
<1> QED BY TypeAndShape, <1>1, PTL DEF Spec, SavedUntilPublished

-----------------------------------------------------------------------------
(***************************************************************************)
(* No job is forgotten                                                     *)
(***************************************************************************)

\* A job whose end is on node1 or in the file stays so.
LEMMA RecordedStays ==
  ASSUME TypeOK, Shape, Next, NEW j, Recorded(j)
  PROVE  Recorded(j)'
  BY NothingUndone, SavedStays DEF Recorded

\* A goroutine's step leaves the other goroutines alone.
LEMMA OthersUntouched ==
  ASSUME TypeOK, NEW g \in Goroutines, Goroutine(g), NEW h \in Goroutines \ {g}
  PROVE  pc'[h] = pc[h] /\ batch'[h] = batch[h]
<1>1. pc \in [Goroutines -> GoroutinePc] /\ batch \in [Goroutines -> Seq(Message)]
  BY DEF TypeOK
<1>2. \A l : Goto(g, l) => pc'[h] = pc[h]
  BY <1>1 DEF Goto
<1>3. Finish(g) => pc'[h] = pc[h] /\ batch'[h] = batch[h]
  BY <1>1, <1>2 DEF Finish
<1>4. CASE Poll(g) \/ ReadNothing(g) \/ ReadLost(g) \/ AckMessage(g) \/ RejectMessage(g) \/ Announce(g)
  BY <1>2, <1>4 DEF Poll, ReadNothing, ReadLost, AckMessage, RejectMessage, Announce
<1>5. CASE ReadBatch(g)
  BY <1>1, <1>2, <1>5 DEF ReadBatch
<1>6. CASE AckDead(g) \/ FailJob(g)
  BY <1>3, <1>6 DEF AckDead, FailJob
<1>7. CASE CompleteJob(g) \/ SaveStatus(g)
  BY <1>2, <1>3, <1>7 DEF CompleteJob, SaveStatus
<1> QED BY <1>4, <1>5, <1>6, <1>7 DEF Goroutine

\* A job that is in a batch when a goroutine finishes a message is still in
\* a batch, or it is the finished one.
LEMMA FinishedOnly ==
  ASSUME TypeOK, BatchShape, NEW g \in Goroutines,
         pc[g] \notin {"poll", "reading", "stopped"}, Finish(g),
         NEW j, InBatch(j)
  PROVE  InBatch(j)' \/ j = Job(g)
<1>1. /\ ToSet(batch[g]) = {Current(g)} \cup ToSet(batch'[g])
      /\ \A h \in Goroutines \ {g} : batch'[h] = batch[h]
  BY FinishKeeps
<1>2. PICK h \in Goroutines : \E m \in ToSet(batch[h]) : m.body = j
  BY DEF InBatch
<1>3. CASE h = g
  BY <1>1, <1>2, <1>3 DEF InBatch, Job
<1>4. CASE h # g
  BY <1>1, <1>2, <1>4 DEF InBatch
<1> QED BY <1>3, <1>4

\* A published status or a saved one is an end if it says so.
LEMMA EndRecorded ==
  ASSUME NEW j, NEW s \in Terminal,
         [job |-> j, status |-> s] \in Published' \cup ToSet(fallback')
  PROVE  Recorded(j)'
  BY DEF Recorded

\* What a goroutine is about to acknowledge as dead stays recorded.
LEMMA StepDead ==
  ASSUME TypeOK, Shape, Next, DeadRecorded
  PROVE  DeadRecorded'
<1> SUFFICES ASSUME faults'.disk = 0, NEW h \in Goroutines, pc'[h] = "ackDead",
                    NEW j, j = Job(h)'
             PROVE  Recorded(j)'
  BY DEF DeadRecorded, Recorded
<1>0. /\ faults.disk = 0
      /\ pc \in [Goroutines -> GoroutinePc] /\ batch \in [Goroutines -> Seq(Message)]
  <2>1. "disk" \in FaultKind /\ faults["disk"] \in Nat
    BY DEF FaultKind, TypeOK
  <2>2. faults'["disk"] >= faults["disk"]
    BY <2>1, NothingUndone
  <2> QED BY <2>1, <2>2 DEF TypeOK
<1>1. ASSUME pc[h] = "ackDead", batch'[h] = batch[h]
      PROVE  Recorded(j)'
  <2>1. j = Job(h)
    BY <1>1 DEF Job, Current
  <2>2. Recorded(j)
    BY <1>0, <1>1, <2>1 DEF DeadRecorded
  <2> QED BY <2>2, RecordedStays
<1>2. ASSUME NEW g \in Goroutines, Goroutine(g), g # h
      PROVE  Recorded(j)'
  BY <1>1, <1>2, OthersUntouched
<1>3. ASSUME Goroutine(h)
      PROVE  Recorded(j)'
  <2>1. \A l : Goto(h, l) => l = "ackDead"
    BY <1>0 DEF Goto
  <2>2. ~ Finish(h)
    BY <1>0 DEF Finish, Goto
  <2>3. RejectMessage(h) \/ SaveStatus(h)
    BY <1>3, <2>1, <2>2 DEF Goroutine, Poll, ReadBatch, ReadNothing, ReadLost, AckMessage,
       AckDead, Announce, FailJob, CompleteJob
  <2>4. CASE RejectMessage(h)
    <3>1. PublishStatus([job |-> Job(h), status |-> "dead"], TRUE) /\ j = Job(h)
      BY <2>1, <2>4 DEF RejectMessage, Job, Current
    <3>2. [job |-> Job(h), status |-> "dead"] \in Report
      BY <2>4, CurrentTyped DEF RejectMessage, Shape
    <3>3. [job |-> j, status |-> "dead"] \in Published'
      BY <3>1, <3>2, PublishKeeps DEF TypeOK
    <3> QED BY <3>3, EndRecorded DEF Terminal
  <2>5. CASE SaveStatus(h)
    <3>1. pc[h] = "saveDead" /\ j = Job(h)
      BY <2>1, <2>2, <2>5 DEF SaveStatus, Job, Current
    <3>2. AppendFallbackFile([job |-> j, status |-> "dead"])
      BY <2>5, <3>1 DEF SaveStatus, SavedStatus
    <3>3. [job |-> j, status |-> "dead"] \in Report
      BY <3>1, CurrentTyped DEF Shape
    <3>4. [job |-> j, status |-> "dead"] \in ToSet(fallback')
      <4>1. [job |-> j, status |-> "dead"] \in ToSet(fallback') \/ faults'["disk"] > 0
        BY <3>2, <3>3, AppendKeeps DEF TypeOK
      <4> QED BY <4>1
    <3> QED BY <3>4, EndRecorded DEF Terminal
  <2> QED BY <2>3, <2>4, <2>5
<1>4. ASSUME UNCHANGED goroutineVars
      PROVE  Recorded(j)'
  BY <1>1, <1>4 DEF goroutineVars
<1>5. CASE Retry
  BY <1>4, <1>5 DEF Retry, RetryTick, RetryPop, RetryPause, RetryAgain, RetryGiveUp, RetrySave
<1>6. CASE Replay
  BY <1>4, <1>6 DEF Replay, ReplayStart, ReplayLine, ReplayRewrite
<1>7. CASE Process
  BY <1>0, <1>4, <1>7 DEF Process, Stop, Exit, Crash, Restart, Halt
<1>8. CASE \E x \in Jobs : Enqueue(x)
  BY <1>4, <1>8 DEF Enqueue
<1> QED BY <1>2, <1>3, <1>5, <1>6, <1>7, <1>8 DEF Next, WorkerNext

\* Without a disk error, a step of a goroutine takes a job out of its batch
\* only when the job's end is recorded, or to push it to the local list.
LEMMA BatchKept ==
  ASSUME TypeOK, Shape, Next, DeadRecorded, faults.disk = 0, faults'.disk = 0,
         NEW g \in Goroutines, Goroutine(g), NEW j, InBatch(j)
  PROVE  InBatch(j)' \/ Recorded(j)' \/ (FailJob(g) /\ j = Job(g))
<1>1. CASE UNCHANGED batch
  BY <1>1 DEF InBatch
<1>2. ASSUME pc[g] \notin {"poll", "reading", "stopped"}, Finish(g)
      PROVE  InBatch(j)' \/ j = Job(g)
  BY <1>2, FinishedOnly DEF Shape
<1>3. ASSUME pc[g] \notin {"poll", "reading", "stopped"}
      PROVE  [job |-> Job(g), status |-> "done"] \in Report
  BY <1>3, CurrentTyped DEF Shape
<1>4. CASE Poll(g) \/ ReadNothing(g) \/ ReadLost(g) \/ AckMessage(g) \/ RejectMessage(g) \/ Announce(g)
  BY <1>1, <1>4 DEF Poll, ReadNothing, ReadLost, AckMessage, RejectMessage, Announce
<1>5. CASE ReadBatch(g)
  <2>1. batch[g] = <<>> /\ \A h \in Goroutines \ {g} : batch'[h] = batch[h]
    BY <1>5 DEF ReadBatch, Shape, BatchShape, TypeOK
  <2> QED BY <2>1, ToSetEmpty DEF InBatch
<1>6. CASE AckDead(g)
  <2>1. j = Job(g) => Recorded(j)'
    BY <1>6, RecordedStays DEF AckDead, DeadRecorded
  <2> QED BY <1>2, <1>6, <2>1 DEF AckDead
<1>7. CASE FailJob(g)
  BY <1>2, <1>7 DEF FailJob
<1>8. CASE CompleteJob(g) /\ ~ UNCHANGED batch
  <2>1. pc[g] = "work" /\ Finish(g) /\ PublishStatus([job |-> Job(g), status |-> "done"], TRUE)
    BY <1>8 DEF CompleteJob
  <2>2. [job |-> Job(g), status |-> "done"] \in Published'
    BY <1>3, <2>1, PublishKeeps DEF TypeOK
  <2>3. j = Job(g) => Recorded(j)'
    BY <2>2, EndRecorded DEF Terminal
  <2> QED BY <1>2, <2>1, <2>3
<1>9. CASE SaveStatus(g) /\ ~ UNCHANGED batch
  <2>1. Finish(g) /\ pc[g] = "saveDone"
    BY <1>9 DEF SaveStatus
  <2>2. AppendFallbackFile([job |-> Job(g), status |-> "done"])
    BY <1>9, <2>1 DEF SaveStatus, SavedStatus
  <2>3. [job |-> Job(g), status |-> "done"] \in ToSet(fallback') \/ faults'["disk"] > 0
    BY <1>3, <2>1, <2>2, AppendKeeps DEF TypeOK
  <2>4. [job |-> Job(g), status |-> "done"] \in ToSet(fallback')
    BY <2>3
  <2>5. j = Job(g) => Recorded(j)'
    BY <2>4, EndRecorded DEF Terminal
  <2> QED BY <1>2, <2>1, <2>5
<1> QED BY <1>1, <1>4, <1>5, <1>6, <1>7, <1>8, <1>9 DEF Goroutine

\* A job a goroutine receives by a step is in its batch after the step.
LEMMA TakenInBatch ==
  ASSUME TypeOK, NEW g \in Goroutines, Goroutine(g), NEW j \in taken'
  PROVE  j \in taken \/ InBatch(j)'
<1>1. CASE ReadBatch(g)
  <2>1. batch'[g] = Reply(queue, BatchSize)
    BY <1>1 DEF ReadBatch, TypeOK
  <2>2. j \in taken \/ \E m \in ToSet(Reply(queue, BatchSize)) : m.body = j
    BY <1>1 DEF ReadBatch
  <2> QED BY <2>1, <2>2 DEF InBatch
<1>2. CASE ~ ReadBatch(g)
  BY <1>2 DEF Goroutine, Poll, ReadNothing, ReadLost, AckMessage, RejectMessage, AckDead,
     Announce, FailJob, CompleteJob, SaveStatus
<1> QED BY <1>1, <1>2

\* Every step keeps every job: a step that drops a job from a batch has just
\* recorded its end.
LEMMA StepKept ==
  ASSUME TypeOK, Shape, Next, DeadRecorded, JobsKept
  PROVE  JobsKept'
<1> SUFFICES ASSUME faults'.crash = 0, faults'.disk = 0, NEW j \in taken' \ ForceFail
             PROVE  InBatch(j)' \/ Recorded(j)'
  BY DEF JobsKept
<1>0. faults.crash = 0 /\ faults.disk = 0
  <2>1. {"crash", "disk"} \subseteq FaultKind /\ faults \in [FaultKind -> Nat]
    BY DEF FaultKind, TypeOK
  <2>2. faults'["disk"] >= faults["disk"] /\ faults'["crash"] >= faults["crash"]
    BY <2>1, NothingUndone
  <2> QED BY <2>1, <2>2
<1>1. ASSUME j \in taken, InBatch(j) => InBatch(j)' \/ Recorded(j)'
      PROVE  InBatch(j)' \/ Recorded(j)'
  BY <1>0, <1>1, RecordedStays DEF JobsKept
<1>2. ASSUME NEW g \in Goroutines, Goroutine(g)
      PROVE  InBatch(j)' \/ Recorded(j)'
  <2>1. InBatch(j) => InBatch(j)' \/ Recorded(j)' \/ (FailJob(g) /\ j = Job(g))
    BY <1>0, <1>2, BatchKept
  <2>2. ~ (FailJob(g) /\ j = Job(g))
    BY DEF FailJob
  <2> QED BY <1>1, <1>2, <2>1, <2>2, TakenInBatch
<1>3. CASE Retry \/ Replay \/ Stop \/ Restart \/ \E x \in Jobs : Enqueue(x)
  <2>1. UNCHANGED <<batch, taken>>
    BY <1>3 DEF Retry, RetryTick, RetryPop, RetryPause, RetryAgain, RetryGiveUp, RetrySave,
       Replay, ReplayStart, ReplayLine, ReplayRewrite, Stop, Restart, Enqueue, goroutineVars
  <2> QED BY <1>1, <2>1 DEF InBatch
<1>4. CASE Exit
  <2>1. \A g \in Goroutines : batch[g] = <<>>
    BY <1>4 DEF Exit, Shape, BatchShape
  <2>2. ~ InBatch(j)
    BY <2>1, ToSetEmpty DEF InBatch
  <2> QED BY <1>1, <1>4, <2>2 DEF Exit, Halt
<1>5. CASE Crash
  BY <1>5, SufferCounts DEF Crash, FaultKind, TypeOK
<1> QED BY <1>2, <1>3, <1>4, <1>5 DEF Next, WorkerNext, Process

(***************************************************************************)
(* Unless the process dies or the fallback file cannot be written, a job a *)
(* goroutine has received, and that does not fail on purpose, is in a      *)
(* batch, or its end is on node1 or in the file: for any number of         *)
(* goroutines and through shutdowns, refused commands and lost replies     *)
(* (processMessage, publishTerminal).                                      *)
(***************************************************************************)
THEOREM NoJobForgotten == Spec => []JobsKept
<1>1. Init => DeadRecorded /\ JobsKept
  BY DEF Init, DeadRecorded, JobsKept
<1>2. TypeOK /\ Shape /\ DeadRecorded /\ JobsKept /\ [Next]_vars => (DeadRecorded /\ JobsKept)'
  <2>1. CASE UNCHANGED vars
    BY <2>1 DEF vars, goroutineVars, processVars, retryVars, DeadRecorded, JobsKept, InBatch, Recorded,
                Published, Job, Current
  <2> QED BY <2>1, StepDead, StepKept
<1> QED BY TypeAndShape, <1>1, <1>2, PTL DEF Spec

-----------------------------------------------------------------------------
(***************************************************************************)
(* No failing job is forgotten                                             *)
(***************************************************************************)

\* Only a SIGTERM or a crash, both counted, takes the process out of "running".
StopCounted == phase # "running" => faults.stop > 0 \/ faults.crash > 0

\* The retry goroutine holds one entry at a time.
HandSingle == hand # <<>> => ToSet(hand) = {Head(hand)}

\* The process does not stop unseen.
LEMMA StepStopCounted ==
  ASSUME TypeOK, Shape, Next, StopCounted
  PROVE  StopCounted'
<1>0. {"stop", "crash"} \subseteq FaultKind /\ faults \in [FaultKind -> Nat]
  BY DEF FaultKind, TypeOK
<1>1. /\ faults' \in [FaultKind -> Nat]
      /\ faults'["stop"] >= faults["stop"] /\ faults'["crash"] >= faults["crash"]
  BY <1>0, NothingUndone, StepShape DEF TypeOK
<1>2. CASE UNCHANGED phase
  BY <1>0, <1>1, <1>2 DEF StopCounted
<1>3. CASE Stop
  BY <1>0, <1>3, SufferCounts DEF Stop, StopCounted
<1>4. CASE Exit
  BY <1>0, <1>1, <1>4 DEF Exit, StopCounted
<1>5. CASE Crash
  BY <1>0, <1>5, SufferCounts DEF Crash, StopCounted
<1>6. CASE Restart
  BY <1>6 DEF Restart, StopCounted
<1>7. ASSUME NEW g \in Goroutines, Goroutine(g)
      PROVE  UNCHANGED phase
  BY <1>7 DEF Goroutine, Poll, ReadBatch, ReadNothing, ReadLost, AckMessage, RejectMessage,
     AckDead, Announce, FailJob, CompleteJob, SaveStatus, processVars
<1>8. CASE Retry \/ Replay \/ \E x \in Jobs : Enqueue(x)
  <2>1. UNCHANGED phase
    BY <1>8 DEF Retry, RetryTick, RetryPop, RetryPause, RetryAgain, RetryGiveUp, RetrySave,
       Replay, ReplayStart, ReplayLine, ReplayRewrite, Enqueue, processVars
  <2> QED BY <1>2, <2>1
<1> QED BY <1>2, <1>3, <1>4, <1>5, <1>6, <1>7, <1>8 DEF Next, WorkerNext, Process

\* Without faults a step of the retry goroutine takes a job out of the local
\* list and out of its hand only when the job's end is recorded.
LEMMA RetryKeeps ==
  ASSUME TypeOK, Shape, Next, StopCounted, HandSingle,
         \A k \in FaultKind : faults'[k] = 0, Retry, NEW j, Awaiting(j)
  PROVE  Awaiting(j)' \/ Recorded(j)'
<1>0. /\ failedList \in Seq(Entry) /\ hand \in Seq(Entry)
      /\ fallback \in Seq(Report) /\ status \in Stream(Report)
      /\ faults \in [FaultKind -> Nat]
      /\ {"stop", "crash", "local", "lostReply", "disk"} = FaultKind
  BY DEF TypeOK, FaultKind
<1>1. \A k \in FaultKind : ~ Suffer(k)
  BY <1>0, SufferCounts
<1>2. phase # "stopping"
  <2>1. faults.stop = 0 /\ faults.crash = 0
    <3>1. faults'["stop"] >= faults["stop"] /\ faults'["crash"] >= faults["crash"]
      BY <1>0, NothingUndone
    <3> QED BY <1>0, <3>1
  <2> QED BY <2>1 DEF StopCounted
<1>3. PICK e \in ToSet(failedList) \cup ToSet(hand) : e.job = j
  BY DEF Awaiting
<1>4. CASE ToSet(failedList) \cup ToSet(hand) \subseteq ToSet(failedList') \cup ToSet(hand')
  BY <1>3, <1>4 DEF Awaiting
<1>5. ASSUME rpc \in {"handle", "saveDead"}
      PROVE  /\ ToSet(hand) = {Head(hand)} /\ Head(hand) \in Entry
             /\ [job |-> Head(hand).job, status |-> "dead"] \in Report
  <2>1. hand # <<>> /\ Head(hand) \in Entry
    BY <1>0, <1>5, HeadTailProperties DEF Shape, HandShape
  <2> QED BY <2>1 DEF HandSingle, Entry, Report
<1>6. CASE RetryTick \/ RetryPause
  BY <1>4, <1>6 DEF RetryTick, RetryPause
<1>7. CASE RetryPop
  <2>1. hand = <<>> /\ hand' = <<Head(failedList)>> /\ failedList' = Tail(failedList)
    BY <1>0, <1>1, <1>7 DEF RetryPop, Shape, HandShape
  <2>2. ToSet(failedList) = {Head(failedList)} \cup ToSet(Tail(failedList))
    BY <1>0, <1>7, ToSetHeadTail DEF RetryPop
  <2> QED BY <1>4, <2>1, <2>2, ToSetEmpty, ToSetOne
<1>8. CASE RetryAgain
  <2>1. ToSet(hand) = {Head(hand)} /\ Head(hand) \in Entry
    BY <1>5, <1>8 DEF RetryAgain
  <2>2. Attempted(Head(hand)) \in Entry /\ Attempted(Head(hand)).job = Head(hand).job
    BY <1>8, <2>1, AttemptedTyped DEF RetryAgain
  <2>3. /\ ToSet(failedList) \subseteq ToSet(failedList')
        /\ Attempted(Head(hand)) \in ToSet(failedList') \/ phase = "stopping" \/ faults'["local"] > 0
    BY <1>0, <1>8, <2>2, PushKeeps DEF RetryAgain
  <2>4. Attempted(Head(hand)) \in ToSet(failedList')
    BY <1>0, <1>2, <2>3
  <2> QED BY <1>3, <2>1, <2>2, <2>3, <2>4 DEF Awaiting
<1>9. CASE RetryGiveUp
  <2>1. CASE UNCHANGED hand
    BY <1>4, <1>9, <2>1 DEF RetryGiveUp
  <2>2. CASE ~ UNCHANGED hand
    <3>1. PublishStatus([job |-> Head(hand).job, status |-> "dead"], TRUE)
      BY <1>9, <2>2 DEF RetryGiveUp
    <3>2. [job |-> Head(hand).job, status |-> "dead"] \in Published'
      BY <1>0, <1>5, <1>9, <3>1, PublishKeeps DEF RetryGiveUp
    <3>3. e = Head(hand) => Recorded(j)'
      BY <1>3, <3>2, EndRecorded DEF Terminal
    <3>4. e \in ToSet(failedList) => Awaiting(j)'
      BY <1>3, <1>9 DEF RetryGiveUp, Awaiting
    <3> QED BY <1>3, <1>5, <1>9, <3>3, <3>4 DEF RetryGiveUp
  <2> QED BY <2>1, <2>2
<1>10. CASE RetrySave
  <2>1. /\ [job |-> Head(hand).job, status |-> "dead"] \in ToSet(fallback') \/ faults'["disk"] > 0
    BY <1>0, <1>5, <1>10, AppendKeeps DEF RetrySave
  <2>2. [job |-> Head(hand).job, status |-> "dead"] \in ToSet(fallback')
    BY <1>0, <2>1
  <2>3. e = Head(hand) => Recorded(j)'
    BY <1>3, <2>2, EndRecorded DEF Terminal
  <2>4. e \in ToSet(failedList) => Awaiting(j)'
    BY <1>3, <1>10 DEF RetrySave, Awaiting
  <2> QED BY <1>3, <1>5, <1>10, <2>3, <2>4 DEF RetrySave
<1> QED BY <1>6, <1>7, <1>8, <1>9, <1>10 DEF Retry

\* The retry goroutine goes on holding one entry at most.
LEMMA StepHand ==
  ASSUME TypeOK, Shape, Next, HandSingle
  PROVE  HandSingle'
<1>1. CASE UNCHANGED hand
  BY <1>1 DEF HandSingle
<1>2. CASE hand' = <<>>
  BY <1>2 DEF HandSingle
<1>3. ASSUME NEW x, hand' = <<x>>
      PROVE  HandSingle'
  BY <1>3, ToSetOne DEF HandSingle
<1>4. CASE Retry
  <2>1. UNCHANGED hand \/ hand' = <<>> \/ hand' = <<Head(failedList)>>
    BY <1>4 DEF Retry, RetryTick, RetryPop, RetryPause, RetryAgain, RetryGiveUp, RetrySave
  <2> QED BY <1>1, <1>2, <1>3, <2>1
<1>5. ASSUME NEW g \in Goroutines, Goroutine(g)
      PROVE  UNCHANGED hand
  BY <1>5 DEF Goroutine, Poll, ReadBatch, ReadNothing, ReadLost, AckMessage, RejectMessage,
     AckDead, Announce, FailJob, CompleteJob, SaveStatus, retryVars
<1>6. CASE Replay \/ Process \/ \E x \in Jobs : Enqueue(x)
  <2>1. UNCHANGED hand \/ hand' = <<>>
    BY <1>6 DEF Replay, ReplayStart, ReplayLine, ReplayRewrite, Process, Stop, Exit, Crash,
       Restart, Halt, Enqueue, retryVars
  <2> QED BY <1>1, <1>2, <2>1
<1> QED BY <1>1, <1>4, <1>5, <1>6 DEF Next, WorkerNext

\* Without faults every step keeps every job that fails on purpose.
LEMMA StepFailing ==
  ASSUME TypeOK, Shape, Next, DeadRecorded, StopCounted, HandSingle, FailingJobsKept
  PROVE  FailingJobsKept'
<1> SUFFICES ASSUME \A k \in FaultKind : faults'[k] = 0, NEW j \in taken' \cap ForceFail
             PROVE  InBatch(j)' \/ Awaiting(j)' \/ Recorded(j)'
  BY DEF FailingJobsKept
<1>0. /\ \A k \in FaultKind : faults[k] = 0 /\ ~ Suffer(k)
      /\ {"stop", "crash", "local", "lostReply", "disk"} = FaultKind
  <2>1. faults \in [FaultKind -> Nat]
    BY DEF TypeOK
  <2>2. \A k \in FaultKind : faults'[k] >= faults[k]
    BY NothingUndone
  <2> QED BY <2>1, <2>2, SufferCounts DEF FaultKind
<1>1. phase = "running"
  BY <1>0 DEF StopCounted
<1>2. ASSUME j \in taken,
             InBatch(j) => InBatch(j)' \/ Awaiting(j)' \/ Recorded(j)',
             Awaiting(j) => Awaiting(j)' \/ Recorded(j)'
      PROVE  InBatch(j)' \/ Awaiting(j)' \/ Recorded(j)'
  BY <1>0, <1>2, RecordedStays DEF FailingJobsKept
<1>3. ASSUME NEW g \in Goroutines, Goroutine(g)
      PROVE  InBatch(j)' \/ Awaiting(j)' \/ Recorded(j)'
  <2>1. InBatch(j) => InBatch(j)' \/ Recorded(j)' \/ (FailJob(g) /\ j = Job(g))
    <3>1. faults.disk = 0 /\ faults'.disk = 0
      BY <1>0
    <3> QED BY <1>3, <3>1, BatchKept
  <2>2. ASSUME FailJob(g)
        PROVE  /\ ToSet(failedList) \subseteq ToSet(failedList')
               /\ [job |-> Job(g), retries |-> 0] \in ToSet(failedList')
               /\ hand' = hand
    <3>1. [job |-> Job(g), retries |-> 0] \in Entry
      <4>1. Job(g) \in Jobs
        BY <2>2, CurrentTyped DEF FailJob, Shape
      <4>2. 0 \in 0 .. MaxRetries - 1
        BY ConfigAssumption
      <4> QED BY <4>1, <4>2 DEF Entry
    <3>2. /\ ToSet(failedList) \subseteq ToSet(failedList')
          /\ \/ [job |-> Job(g), retries |-> 0] \in ToSet(failedList')
             \/ phase = "stopping" \/ faults'["local"] > 0
      BY <2>2, <3>1, PushKeeps DEF FailJob, TypeOK
    <3> QED BY <1>0, <1>1, <2>2, <3>2 DEF FailJob
  <2>3. FailJob(g) /\ j = Job(g) => Awaiting(j)'
    BY <2>2 DEF Awaiting
  <2>4. Awaiting(j) => Awaiting(j)'
    <3>1. CASE FailJob(g)
      BY <2>2, <3>1 DEF Awaiting
    <3>2. CASE ~ FailJob(g)
      <4>1. UNCHANGED <<failedList, hand>>
        BY <1>3, <3>2 DEF Goroutine, Poll, ReadBatch, ReadNothing, ReadLost, AckMessage,
           RejectMessage, AckDead, Announce, CompleteJob, SaveStatus, retryVars
      <4> QED BY <4>1 DEF Awaiting
    <3> QED BY <3>1, <3>2
  <2> QED BY <1>2, <1>3, <2>1, <2>3, <2>4, TakenInBatch
<1>4. CASE Retry
  <2>1. UNCHANGED <<batch, taken>>
    BY <1>4 DEF Retry, RetryTick, RetryPop, RetryPause, RetryAgain, RetryGiveUp, RetrySave,
       goroutineVars
  <2>2. InBatch(j) => InBatch(j)'
    BY <2>1 DEF InBatch
  <2>3. Awaiting(j) => Awaiting(j)' \/ Recorded(j)'
    BY <1>4, RetryKeeps
  <2> QED BY <1>2, <2>1, <2>2, <2>3
<1>5. CASE Replay \/ Stop \/ Restart \/ \E x \in Jobs : Enqueue(x)
  <2>1. UNCHANGED <<batch, taken, failedList, hand>>
    BY <1>5 DEF Replay, ReplayStart, ReplayLine, ReplayRewrite, Stop, Restart, Enqueue,
       goroutineVars, retryVars
  <2> QED BY <1>2, <2>1 DEF InBatch, Awaiting
<1>6. ~ Exit /\ ~ Crash
  BY <1>0, <1>1 DEF Exit, Crash
<1> QED BY <1>3, <1>4, <1>5, <1>6 DEF Next, WorkerNext, Process

(***************************************************************************)
(* Without faults, refused commands excepted, a received job that fails on *)
(* purpose is in a batch, in the local list, in the retry goroutine's      *)
(* hand, or its end is on node1 or in the file (retryFailedStatus).        *)
(***************************************************************************)
THEOREM NoFailingJobForgotten == Spec => []FailingJobsKept
<1> DEFINE Inv == DeadRecorded /\ StopCounted /\ HandSingle /\ FailingJobsKept
<1>1. Init => Inv
  BY DEF Init, DeadRecorded, StopCounted, HandSingle, FailingJobsKept
<1>2. TypeOK /\ Shape /\ Inv /\ [Next]_vars => Inv'
  <2>1. CASE UNCHANGED vars
    BY <2>1 DEF vars, goroutineVars, processVars, retryVars, DeadRecorded, StopCounted, HandSingle,
       FailingJobsKept, InBatch, Awaiting, Recorded, Published, Job, Current
  <2> QED BY <2>1, StepDead, StepStopCounted, StepHand, StepFailing
<1> QED BY TypeAndShape, <1>1, <1>2, PTL DEF Spec

-----------------------------------------------------------------------------
(***************************************************************************)
(* One job at a time                                                       *)
(***************************************************************************)

\* A step that suffers nothing counts nothing.
LEMMA NotSuffered ==
  ASSUME TypeOK, NEW k \in FaultKind, UNCHANGED faults
  PROVE  ~ Suffer(k)
<1>1. faults \in [FaultKind -> Nat]
  BY DEF TypeOK
<1> QED BY <1>1 DEF Suffer

\* A goroutine's step takes at most the job of its message out of a batch.
LEMMA BatchLosesOne ==
  ASSUME TypeOK, Shape, NEW g \in Goroutines, Goroutine(g), NEW j, InBatch(j)
  PROVE  InBatch(j)' \/ j = Job(g)
<1>1. CASE UNCHANGED batch
  BY <1>1 DEF InBatch
<1>2. CASE pc[g] \notin {"poll", "reading", "stopped"} /\ Finish(g)
  BY <1>2, FinishedOnly DEF Shape
<1>3. CASE ReadBatch(g)
  <2>1. batch[g] = <<>> /\ \A h \in Goroutines \ {g} : batch'[h] = batch[h]
    BY <1>3 DEF ReadBatch, Shape, BatchShape, TypeOK
  <2> QED BY <2>1, ToSetEmpty DEF InBatch
<1>4. UNCHANGED batch \/ Finish(g) \/ ReadBatch(g)
  BY DEF Goroutine, Poll, ReadNothing, ReadLost, AckMessage, RejectMessage, Announce, AckDead, FailJob,
     CompleteJob, SaveStatus
<1>5. Finish(g) => pc[g] \notin {"poll", "reading", "stopped"} \/ UNCHANGED batch \/ ReadBatch(g)
  BY DEF Goroutine, Poll, ReadNothing, ReadLost, AckMessage, RejectMessage, Announce, AckDead, FailJob,
     CompleteJob, SaveStatus, SavedStatus
<1> QED BY <1>1, <1>2, <1>3, <1>4, <1>5

\* A push takes nothing off the local list.
LEMMA PushGrows ==
  ASSUME TypeOK, NEW e \in Entry, PushLocal(e)
  PROVE  /\ ToSet(failedList) \subseteq ToSet(failedList')
         /\ UNCHANGED faults /\ phase = "running" => e \in ToSet(failedList')
<1>1. failedList \in Seq(Entry)
  BY DEF TypeOK
<1>2. /\ Append(failedList, e) \in Seq(Entry)
      /\ ToSet(Append(failedList, e)) = ToSet(failedList) \cup {e}
      /\ ToSet(Append(Append(failedList, e), e)) = ToSet(failedList) \cup {e}
  <2> DEFINE one == Append(failedList, e)
  <2>1. one \in Seq(Entry) /\ ToSet(one) = ToSet(failedList) \cup {e}
    BY <1>1, ToSetAppend, AppendProperties
  <2> HIDE DEF one
  <2>2. ToSet(Append(one, e)) = ToSet(one) \cup {e}
    BY <2>1, ToSetAppend
  <2> QED BY <2>1, <2>2 DEF one
<1>3. ToSet(failedList) \subseteq ToSet(failedList')
  BY <1>2 DEF PushLocal
<1>4. ASSUME UNCHANGED faults, phase = "running"
      PROVE  e \in ToSet(failedList')
  <2>1. ~ Suffer("local") /\ ~ Suffer("lostReply")
    BY <1>4, NotSuffered DEF FaultKind
  <2> QED BY <1>2, <1>4, <2>1 DEF PushLocal
<1> QED BY <1>3, <1>4

\* What a goroutine that fails a job pushes.
LEMMA FirstEntry ==
  ASSUME TypeOK, Shape, NEW g \in Goroutines, FailJob(g)
  PROVE  [job |-> Job(g), retries |-> 0] \in Entry
<1>1. Job(g) \in Jobs
  BY CurrentTyped DEF FailJob, Shape
<1>2. 0 \in 0 .. MaxRetries - 1
  BY ConfigAssumption
<1> QED BY <1>1, <1>2 DEF Entry

\* A goroutine's step takes no entry off the local list or the retry's hand.
LEMMA GoroutineAwaits ==
  ASSUME TypeOK, Shape, NEW g \in Goroutines, Goroutine(g), NEW j, Awaiting(j)
  PROVE  Awaiting(j)'
<1>1. CASE FailJob(g)
  <2>1. ToSet(failedList) \subseteq ToSet(failedList') /\ UNCHANGED hand
    BY <1>1, FirstEntry, PushGrows DEF FailJob
  <2> QED BY <2>1 DEF Awaiting
<1>2. CASE ~ FailJob(g)
  <2>1. UNCHANGED <<failedList, hand>>
    BY <1>2 DEF Goroutine, Poll, ReadBatch, ReadNothing, ReadLost, AckMessage,
       RejectMessage, AckDead, Announce, CompleteJob, SaveStatus, retryVars
  <2> QED BY <2>1 DEF Awaiting
<1> QED BY <1>1, <1>2

\* The entry the retry goroutine works on: the first of the list, or its own.
AtHand == IF rpc = "drain" THEN Head(failedList) ELSE Head(hand)

\* What the retry goroutine holds while it handles an entry.
LEMMA HandIs ==
  ASSUME TypeOK, Shape, HandSingle, rpc \in {"handle", "saveDead"}
  PROVE  /\ ToSet(hand) = {Head(hand)} /\ Head(hand) \in Entry
         /\ [job |-> Head(hand).job, status |-> "dead"] \in Report
<1>1. hand # <<>> /\ hand \in Seq(Entry)
  BY DEF Shape, HandShape, TypeOK
<1>2. Head(hand) \in Entry
  BY <1>1, HeadTailProperties
<1> QED BY <1>1, <1>2 DEF HandSingle, Entry, Report

\* A step of the retry goroutine takes away its entry at most, and not that
\* one either without a fault while the process runs.
LEMMA RetryLosesOne ==
  ASSUME TypeOK, Shape, HandSingle, Retry, NEW j, Awaiting(j), ~ Awaiting(j)'
  PROVE  /\ j = AtHand.job
         /\ UNCHANGED faults /\ phase = "running" => Recorded(j)'
<1>0. /\ failedList \in Seq(Entry) /\ hand \in Seq(Entry)
      /\ fallback \in Seq(Report) /\ status \in Stream(Report)
      /\ {"local", "lostReply", "disk"} \subseteq FaultKind
      /\ faults \in [FaultKind -> Nat]
  BY DEF TypeOK, FaultKind
<1>1. PICK e \in ToSet(failedList) \cup ToSet(hand) : e.job = j
  BY DEF Awaiting
<1>2. e \notin ToSet(failedList') \cup ToSet(hand')
  BY <1>1 DEF Awaiting
<1>3. ~ RetryTick /\ ~ RetryPause
  BY <1>1, <1>2 DEF RetryTick, RetryPause
<1>4. CASE RetryPop
  <2>1. /\ rpc = "drain" /\ failedList # <<>> /\ failedList' = Tail(failedList) /\ hand = <<>>
        /\ hand' = <<Head(failedList)>> \/ Suffer("lostReply")
    BY <1>0, <1>4 DEF RetryPop, Shape, HandShape
  <2>2. ToSet(failedList) = {Head(failedList)} \cup ToSet(Tail(failedList)) /\ ToSet(hand) = {}
    BY <1>0, <2>1, ToSetHeadTail, ToSetEmpty
  <2>3. e = Head(failedList)
    BY <1>1, <1>2, <2>1, <2>2
  <2>4. hand' # <<Head(failedList)>>
    BY <1>2, <2>3, ToSetOne
  <2>5. UNCHANGED faults => ~ Suffer("lostReply")
    BY <1>0, NotSuffered
  <2> QED BY <1>1, <2>1, <2>3, <2>4, <2>5 DEF AtHand
<1>5. CASE RetryAgain
  <2>1. /\ ToSet(hand) = {Head(hand)} /\ Head(hand) \in Entry /\ rpc = "handle"
    BY <1>5, HandIs DEF RetryAgain
  <2>2. Attempted(Head(hand)) \in Entry /\ Attempted(Head(hand)).job = Head(hand).job
    BY <1>5, <2>1, AttemptedTyped DEF RetryAgain
  <2>3. /\ ToSet(failedList) \subseteq ToSet(failedList')
        /\ UNCHANGED faults /\ phase = "running" => Attempted(Head(hand)) \in ToSet(failedList')
    BY <1>5, <2>2, PushGrows DEF RetryAgain
  <2>4. e = Head(hand)
    BY <1>1, <1>2, <2>1, <2>3
  <2>5. Attempted(Head(hand)) \notin ToSet(failedList')
    BY <1>1, <2>2, <2>4 DEF Awaiting
  <2> QED BY <1>1, <2>1, <2>3, <2>4, <2>5 DEF AtHand
<1>6. CASE RetryGiveUp
  <2>1. ToSet(hand) = {Head(hand)} /\ rpc = "handle" /\ UNCHANGED failedList
    BY <1>6, HandIs DEF RetryGiveUp
  <2>2. e = Head(hand) /\ hand' # hand
    BY <1>1, <1>2, <2>1
  <2>3. PublishStatus([job |-> Head(hand).job, status |-> "dead"], TRUE)
    BY <1>6, <2>2 DEF RetryGiveUp
  <2>4. [job |-> Head(hand).job, status |-> "dead"] \in Published'
    <3> DEFINE r == [job |-> Head(hand).job, status |-> "dead"]
    <3>1. r \in Report
      BY <2>1, HandIs
    <3>2. PublishStatus(r, TRUE)
      BY <2>3
    <3> HIDE DEF r
    <3>3. r \in Published'
      BY <1>0, <3>1, <3>2, PublishKeeps
    <3> QED BY <3>3 DEF r
  <2>5. Recorded(j)'
    BY <1>1, <2>2, <2>4, EndRecorded DEF Terminal
  <2> QED BY <1>1, <2>1, <2>2, <2>5 DEF AtHand
<1>7. CASE RetrySave
  <2>1. ToSet(hand) = {Head(hand)} /\ rpc = "saveDead" /\ UNCHANGED failedList
    BY <1>7, HandIs DEF RetrySave
  <2>2. e = Head(hand)
    BY <1>1, <1>2, <2>1
  <2>3. ASSUME UNCHANGED faults
        PROVE  Recorded(j)'
    <3> DEFINE r == [job |-> Head(hand).job, status |-> "dead"]
    <3>1. r \in Report
      BY <2>1, HandIs
    <3>2. AppendFallbackFile(r)
      BY <1>7 DEF RetrySave
    <3> HIDE DEF r
    <3>3. fallback' = Append(fallback, r)
      BY <1>0, <2>3, <3>2, NotSuffered DEF AppendFallbackFile
    <3>4. r \in ToSet(fallback')
      BY <1>0, <3>1, <3>3, ToSetAppend
    <3> QED BY <1>1, <2>2, <3>4, EndRecorded DEF Terminal, r
  <2> QED BY <1>1, <2>1, <2>2, <2>3 DEF AtHand
<1> QED BY <1>3, <1>4, <1>5, <1>6, <1>7 DEF Retry

\* A job that a step forgets was received, and was in a batch or awaiting.
LEMMA ForgottenWas ==
  ASSUME TypeOK, Shape, Next, NEW j \in Forgotten', j \notin Forgotten, j \in taken
  PROVE  /\ InBatch(j) \/ Awaiting(j)
         /\ ~ InBatch(j)' /\ ~ Awaiting(j)' /\ ~ Recorded(j)'
<1>1. ~ InBatch(j)' /\ ~ Awaiting(j)' /\ ~ Recorded(j)'
  BY DEF Forgotten
<1>2. ~ Recorded(j)
  BY <1>1, RecordedStays
<1> QED BY <1>1, <1>2 DEF Forgotten

\* What one step but a crash may forget.
LEMMA StepForgets ==
  ASSUME TypeOK, Shape, Next, DeadRecorded, HandSingle, faults'.crash = faults.crash
  PROVE  /\ \A i, j \in Forgotten' \ Forgotten : i = j
         /\ faults' = faults /\ faults.disk = 0 /\ phase = "running"
              => Forgotten' \subseteq Forgotten
<1>1. ASSUME NEW g \in Goroutines, Goroutine(g), NEW j \in Forgotten' \ Forgotten
      PROVE  /\ j = Job(g)
             /\ ~ (faults' = faults /\ faults.disk = 0 /\ phase = "running")
  <2>1. j \in taken
    BY <1>1, TakenInBatch DEF Forgotten
  <2>2. /\ InBatch(j) \/ Awaiting(j)
        /\ ~ InBatch(j)' /\ ~ Awaiting(j)' /\ ~ Recorded(j)'
    BY <2>1, ForgottenWas
  <2>3. InBatch(j)
    BY <1>1, <2>2, GoroutineAwaits
  <2>4. j = Job(g)
    BY <1>1, <2>2, <2>3, BatchLosesOne
  <2>5. ASSUME faults' = faults, faults.disk = 0, phase = "running"
        PROVE  FALSE
    <3>1. FailJob(g)
      BY <1>1, <2>2, <2>3, <2>5, BatchKept
    <3>2. [job |-> Job(g), retries |-> 0] \in ToSet(failedList')
      BY <2>5, <3>1, FirstEntry, PushGrows DEF FailJob
    <3>3. Awaiting(j)'
      BY <2>4, <3>2 DEF Awaiting
    <3> QED BY <2>2, <3>3
  <2> QED BY <2>4, <2>5
<1>2. ASSUME Retry, NEW j \in Forgotten' \ Forgotten
      PROVE  /\ j = AtHand.job
             /\ ~ (faults' = faults /\ phase = "running")
  <2>1. UNCHANGED <<batch, taken>>
    BY <1>2 DEF Retry, RetryTick, RetryPop, RetryPause, RetryAgain, RetryGiveUp, RetrySave,
       goroutineVars
  <2>2. j \in taken
    BY <2>1 DEF Forgotten
  <2>3. Awaiting(j) /\ ~ Awaiting(j)' /\ ~ Recorded(j)'
    BY <2>1, <2>2, ForgottenWas DEF InBatch
  <2> QED BY <1>2, <2>3, RetryLosesOne
<1>3. ASSUME Replay \/ Stop \/ Restart \/ \E x \in Jobs : Enqueue(x)
      PROVE  Forgotten' \subseteq Forgotten
  <2>1. UNCHANGED <<batch, taken, failedList, hand>>
    BY <1>3 DEF Replay, ReplayStart, ReplayLine, ReplayRewrite, Stop, Restart, Enqueue,
       goroutineVars, retryVars
  <2> SUFFICES ASSUME NEW j \in Forgotten', j \notin Forgotten
               PROVE  FALSE
    OBVIOUS
  <2>2. j \in taken
    BY <2>1 DEF Forgotten
  <2> QED BY <2>1, <2>2, ForgottenWas DEF InBatch, Awaiting
<1>4. ASSUME Exit, NEW j \in Forgotten' \ Forgotten
      PROVE  j = Head(hand).job /\ phase # "running"
  <2>1. /\ \A g \in Goroutines : batch[g] = <<>>
        /\ UNCHANGED <<failedList, taken>> /\ phase # "running"
    BY <1>4 DEF Exit, Halt, Shape, BatchShape
  <2>2. j \in taken
    BY <2>1 DEF Forgotten
  <2>3. Awaiting(j) /\ ~ Awaiting(j)'
    BY <2>1, <2>2, ForgottenWas, ToSetEmpty DEF InBatch
  <2>4. PICK e \in ToSet(failedList) \cup ToSet(hand) : e.job = j
    BY <2>3 DEF Awaiting
  <2>5. e \in ToSet(hand)
    BY <2>1, <2>3, <2>4 DEF Awaiting
  <2>6. hand # <<>>
    BY <2>5, ToSetEmpty
  <2> QED BY <2>1, <2>4, <2>5, <2>6 DEF HandSingle
<1>5. ~ Crash
  <2>1. faults \in [FaultKind -> Nat] /\ "crash" \in FaultKind
    BY DEF TypeOK, FaultKind
  <2> QED BY <2>1 DEF Crash, Suffer
<1>6. CASE \E g \in Goroutines : Goroutine(g)
  BY <1>1, <1>6
<1>7. CASE Retry
  BY <1>2, <1>7
<1>8. CASE Exit
  BY <1>4, <1>8
<1> QED BY <1>3, <1>5, <1>6, <1>7, <1>8 DEF Next, WorkerNext, Process

(***************************************************************************)
(* A step other than a crash makes the worker forget one job at most, and  *)
(* none when it runs, the file can be written, and the step is no fault:   *)
(* for any number of goroutines, any batches and any retry limit           *)
(* (processMessage, retryFailedStatus, main.go:54).                        *)
(***************************************************************************)
THEOREM LossesComeSingly == Spec => LossesAreSingle
<1>1. Init => DeadRecorded /\ HandSingle
  BY DEF Init, DeadRecorded, HandSingle
<1>2. TypeOK /\ Shape /\ DeadRecorded /\ HandSingle /\ [Next]_vars => (DeadRecorded /\ HandSingle)'
  <2>1. CASE UNCHANGED vars
    BY <2>1 DEF vars, goroutineVars, processVars, retryVars, DeadRecorded, HandSingle, Recorded,
       Published, Job, Current
  <2> QED BY <2>1, StepDead, StepHand
<1>3. TypeOK /\ Shape /\ DeadRecorded /\ HandSingle /\ [Next]_vars
        => [faults'.crash = faults.crash =>
              /\ \A i, j \in Forgotten' \ Forgotten : i = j
              /\ faults' = faults /\ faults.disk = 0 /\ phase = "running"
                   => Forgotten' \subseteq Forgotten]_vars
  BY StepForgets
<1> QED BY TypeAndShape, <1>1, <1>2, <1>3, PTL DEF Spec, LossesAreSingle

(***************************************************************************)
(* A goroutine that is about to acknowledge a rejected message has the     *)
(* job's end on node1 or in the file, unless the file could not be         *)
(* written (processMessage, worker.go:47-56).                              *)
(***************************************************************************)
THEOREM DeadIsRecorded == Spec => []DeadRecorded
<1>1. Init => DeadRecorded
  BY DEF Init, DeadRecorded
<1>2. TypeOK /\ Shape /\ DeadRecorded /\ [Next]_vars => DeadRecorded'
  <2>1. CASE UNCHANGED vars
    BY <2>1 DEF vars, goroutineVars, processVars, DeadRecorded, Recorded, Published, Job, Current
  <2> QED BY <2>1, StepDead
<1> QED BY TypeAndShape, <1>1, <1>2, PTL DEF Spec

-----------------------------------------------------------------------------
(***************************************************************************)
(* Failed status writes                                                    *)
(***************************************************************************)

\* A report on its way into the file is a goroutine's or the retry's.
LEMMA UnsavedIs ==
  ASSUME NEW r \in Unsaved
  PROVE  \/ \E g \in Goroutines : /\ pc[g] \in DOMAIN SavedStatus
                                 /\ r = [job |-> Job(g), status |-> SavedStatus[pc[g]]]
         \/ rpc = "saveDead" /\ \E e \in ToSet(hand) : r = [job |-> e.job, status |-> "dead"]
  BY DEF Unsaved

\* An append that reports no fault has put the line into the file.
LEMMA AppendSaves ==
  ASSUME TypeOK, NEW r \in Report, AppendFallbackFile(r), faults' = faults
  PROVE  r \in ToSet(fallback')
<1>1. ASSUME Suffer("disk") PROVE FALSE
  <2>1. faults["disk"] \in Nat /\ faults'["disk"] = faults["disk"] + 1
    BY <1>1 DEF Suffer, TypeOK, FaultKind
  <2> QED BY <2>1
<1>2. fallback' = Append(fallback, r) /\ fallback \in Seq(Report)
  BY <1>1 DEF AppendFallbackFile, TypeOK
<1> QED BY <1>2, ToSetAppend

\* A goroutine's saved report is a report.
LEMMA SavedReport ==
  ASSUME TypeOK, BatchShape, NEW g \in Goroutines, pc[g] \in DOMAIN SavedStatus
  PROVE  [job |-> Job(g), status |-> SavedStatus[pc[g]]] \in Report
<1>1. pc[g] \in {"saveProcessing", "saveDone", "saveDead"}
  BY DEF SavedStatus
<1>2. Job(g) \in Jobs
  BY <1>1, CurrentTyped
<1>3. SavedStatus[pc[g]] \in {"processing", "done", "dead"}
  BY <1>1 DEF SavedStatus
<1> QED BY <1>2, <1>3 DEF Report

\* A goroutine's report stays on its way, or gets into the file.
LEMMA GoroutineSaves ==
  ASSUME TypeOK, Shape, Next, faults' = faults, phase' # "down",
         NEW g \in Goroutines, pc[g] \in DOMAIN SavedStatus,
         NEW r, r = [job |-> Job(g), status |-> SavedStatus[pc[g]]]
  PROVE  r \in Unsaved' \cup ToSet(fallback')
<1>0. /\ pc \in [Goroutines -> GoroutinePc] /\ batch \in [Goroutines -> Seq(Message)]
      /\ pc[g] \in {"saveProcessing", "saveDone", "saveDead"}
  BY DEF TypeOK, SavedStatus
<1>1. ASSUME pc'[g] = pc[g], batch'[g] = batch[g]
      PROVE  r \in Unsaved'
  <2>1. pc'[g] \in DOMAIN SavedStatus /\ r = [job |-> Job(g)', status |-> SavedStatus[pc'[g]]]
    BY <1>1 DEF Job, Current
  <2> QED BY <2>1 DEF Unsaved
<1>2. CASE SaveStatus(g)
  <2>1. AppendFallbackFile(r)
    BY <1>2 DEF SaveStatus
  <2>2. r \in Report
    BY SavedReport DEF Shape
  <2> QED BY <2>1, <2>2, AppendSaves
<1>3. ASSUME NEW h \in Goroutines, Goroutine(h), ~ SaveStatus(g)
      PROVE  r \in Unsaved'
  <2>1. CASE h # g
    BY <1>1, <1>3, <2>1, OthersUntouched
  <2>2. CASE h = g
    BY <1>0, <1>3, <2>2 DEF Goroutine, Poll, ReadBatch, ReadNothing, ReadLost, AckMessage,
       RejectMessage, AckDead, Announce, FailJob, CompleteJob
  <2> QED BY <2>1, <2>2
<1>4. CASE Retry \/ Replay \/ \E j \in Jobs : Enqueue(j)
  <2>1. UNCHANGED goroutineVars
    BY <1>4 DEF Retry, RetryTick, RetryPop, RetryPause, RetryAgain, RetryGiveUp, RetrySave,
       Replay, ReplayStart, ReplayLine, ReplayRewrite, Enqueue
  <2> QED BY <1>1, <2>1 DEF goroutineVars
<1>5. CASE Process
  <2>1. CASE Stop
    BY <1>1, <2>1 DEF Stop, goroutineVars
  <2>2. CASE Exit \/ Crash
    BY <2>2 DEF Exit, Crash, Halt
  <2>3. CASE Restart
    BY <1>0, <2>3 DEF Restart, Shape, DownShape
  <2> QED BY <1>5, <2>1, <2>2, <2>3 DEF Process
<1> QED BY <1>2, <1>3, <1>4, <1>5 DEF Next, WorkerNext

\* So does the retry goroutine's.
LEMMA RetrySaves ==
  ASSUME TypeOK, Shape, Next, faults' = faults, phase' # "down",
         rpc = "saveDead", NEW e \in ToSet(hand),
         NEW r, r = [job |-> e.job, status |-> "dead"], e = Head(hand)
  PROVE  r \in Unsaved' \cup ToSet(fallback')
<1>0. e \in Entry
  BY ToSetOf DEF TypeOK
<1>1. ASSUME rpc' = rpc, hand' = hand
      PROVE  r \in Unsaved'
  BY <1>1 DEF Unsaved
<1>2. CASE RetrySave
  <2>1. AppendFallbackFile(r)
    BY <1>2 DEF RetrySave
  <2>2. r \in Report
    BY <1>0 DEF Entry, Report
  <2> QED BY <2>1, <2>2, AppendSaves
<1>3. CASE Retry /\ ~ RetrySave
  BY <1>3 DEF Retry, RetryTick, RetryPop, RetryPause, RetryAgain, RetryGiveUp
<1>4. ASSUME NEW h \in Goroutines, Goroutine(h)
      PROVE  rpc' = rpc /\ hand' = hand
  BY <1>4 DEF Goroutine, Poll, ReadBatch, ReadNothing, ReadLost, AckMessage, RejectMessage,
     AckDead, Announce, FailJob, CompleteJob, SaveStatus, retryVars
<1>5. CASE Replay \/ \E j \in Jobs : Enqueue(j)
  BY <1>1, <1>5 DEF Replay, ReplayStart, ReplayLine, ReplayRewrite, Enqueue, retryVars
<1>6. CASE Process
  <2>1. CASE Stop \/ Restart
    BY <1>1, <2>1 DEF Stop, Restart, retryVars
  <2> QED BY <1>6, <2>1 DEF Process, Exit, Crash, Halt
<1> QED BY <1>1, <1>2, <1>3, <1>4, <1>5, <1>6 DEF Next, WorkerNext

(***************************************************************************)
(* A step that leaves the process alive and suffers no fault loses no      *)
(* status write that has failed: the report is still on its way into the   *)
(* fallback file, or it is in it (publishTerminal, retryFailedStatus,      *)
(* appendFallbackFile).                                                    *)
(***************************************************************************)
THEOREM FailedWritesReachTheFile == Spec => LiveWritesSaved
<1> DEFINE Saved == faults' = faults /\ phase' # "down" => Unsaved \subseteq Unsaved' \cup ToSet(fallback')
<1>1. Init => HandSingle
  BY DEF Init, HandSingle
<1>2. TypeOK /\ Shape /\ HandSingle /\ [Next]_vars => HandSingle'
  <2>1. CASE UNCHANGED vars
    BY <2>1 DEF vars, retryVars, HandSingle
  <2> QED BY <2>1, StepHand
<1>3. ASSUME TypeOK, Shape, HandSingle, Next, faults' = faults, phase' # "down", NEW r \in Unsaved
      PROVE  r \in Unsaved' \cup ToSet(fallback')
  <2>1. CASE \E g \in Goroutines : /\ pc[g] \in DOMAIN SavedStatus
                                  /\ r = [job |-> Job(g), status |-> SavedStatus[pc[g]]]
    BY <1>3, <2>1, GoroutineSaves
  <2>2. ASSUME NEW e \in ToSet(hand), rpc = "saveDead", r = [job |-> e.job, status |-> "dead"]
        PROVE  r \in Unsaved' \cup ToSet(fallback')
    <3>1. hand # <<>>
      BY <1>3, <2>2 DEF Shape, HandShape
    <3>2. e = Head(hand)
      BY <1>3, <2>2, <3>1 DEF HandSingle
    <3> QED BY <1>3, <2>2, <3>2, RetrySaves
  <2> QED BY <1>3, <2>1, <2>2, UnsavedIs
<1>4. TypeOK /\ Shape /\ HandSingle /\ [Next]_vars => [Saved]_vars
  <2>1. TypeOK /\ Shape /\ HandSingle /\ Next => Saved
    BY <1>3
  <2> QED BY <2>1
<1> QED BY TypeAndShape, <1>1, <1>2, <1>4, PTL DEF Spec, LiveWritesSaved

-----------------------------------------------------------------------------
(***************************************************************************)
(* Rejected messages                                                       *)
(***************************************************************************)


(***************************************************************************)
(* What a goroutine holds is what the stream says: the group never gets    *)
(* ahead of the stream, and a message in a batch is the entry with its id, *)
(* so that XACK of that id settles that job (runWorker).                   *)
(***************************************************************************)
QueueShape ==
  /\ queue.read <= Len(queue.log)
  /\ \A g \in Goroutines : \A m \in ToSet(batch[g]) :
       m.id \in 1 .. queue.read /\ m.body = queue.log[m.id]

\* No step but a read puts a message into a batch.
LEMMA BatchShrinks ==
  ASSUME TypeOK, Shape, NEW g \in Goroutines, Goroutine(g), ~ ReadBatch(g),
         NEW h \in Goroutines
  PROVE  ToSet(batch'[h]) \subseteq ToSet(batch[h])
<1>1. CASE h # g
  BY <1>1, OthersUntouched
<1>2. CASE UNCHANGED batch
  BY <1>2
<1>3. ASSUME pc[g] \notin {"poll", "reading", "stopped"}, Finish(g), h = g
      PROVE  ToSet(batch'[h]) \subseteq ToSet(batch[h])
  BY <1>3, FinishKeeps DEF Shape
<1>4. CASE Poll(g) \/ ReadNothing(g) \/ ReadLost(g) \/ AckMessage(g) \/ RejectMessage(g) \/ Announce(g)
  BY <1>2, <1>4 DEF Poll, ReadNothing, ReadLost, AckMessage, RejectMessage, Announce
<1>5. CASE AckDead(g) \/ FailJob(g)
  BY <1>1, <1>3, <1>5 DEF AckDead, FailJob
<1>6. CASE CompleteJob(g)
  BY <1>1, <1>2, <1>3, <1>6 DEF CompleteJob
<1>7. CASE SaveStatus(g)
  BY <1>1, <1>2, <1>3, <1>7 DEF SaveStatus
<1> QED BY <1>4, <1>5, <1>6, <1>7 DEF Goroutine

\* What a goroutine holds stays what the stream says.
LEMMA StepQueue ==
  ASSUME TypeOK, Shape, Next, QueueShape
  PROVE  QueueShape'
<1>0. queue \in Stream(Jobs) /\ queue.read \in Nat /\ Len(queue.log) \in Nat
  BY LenProperties DEF TypeOK, Stream
<1>1. ASSUME UNCHANGED <<queue.log, queue.read>>,
             \A h \in Goroutines : ToSet(batch'[h]) \subseteq ToSet(batch[h])
      PROVE  QueueShape'
  BY <1>1 DEF QueueShape
<1>2. ASSUME UNCHANGED <<queue, batch>>
      PROVE  QueueShape'
  BY <1>2 DEF QueueShape
<1>3. ASSUME NEW g \in Goroutines, ReadBatch(g)
      PROVE  QueueShape'
  <2>1. /\ queue'.log = queue.log /\ queue'.read \in queue.read .. Len(queue.log)
        /\ \A m \in ToSet(Reply(queue, BatchSize)) :
             m.id \in 1 .. queue'.read /\ m.body = queue.log[m.id]
    BY <1>0, <1>3, DeliveredKeeps, DeliveredTruth, ConfigAssumption DEF ReadBatch
  <2>2. \A h \in Goroutines : batch'[h] = IF h = g THEN Reply(queue, BatchSize) ELSE batch[h]
    BY <1>3 DEF ReadBatch, TypeOK
  <2>3. 1 .. queue.read \subseteq 1 .. queue'.read
    BY <1>0, <2>1
  <2> QED BY <1>0, <2>1, <2>2, <2>3 DEF QueueShape
<1>4. ASSUME NEW g \in Goroutines, ReadLost(g)
      PROVE  QueueShape'
  <2>1. queue'.log = queue.log /\ queue'.read \in queue.read .. Len(queue.log) /\ batch' = batch
    BY <1>0, <1>4, DeliveredKeeps, DeliveredTruth, ConfigAssumption DEF ReadLost
  <2>2. 1 .. queue.read \subseteq 1 .. queue'.read
    BY <1>0, <2>1
  <2> QED BY <1>0, <2>1, <2>2 DEF QueueShape
<1>5. ASSUME NEW g \in Goroutines, Goroutine(g), ~ ReadBatch(g), ~ ReadLost(g)
      PROVE  QueueShape'
  <2>1. queue' = queue \/ \E id : queue' = XAck(queue, id)
    BY <1>5 DEF Goroutine, Poll, ReadNothing, AckMessage, RejectMessage, AckDead, Announce,
       FailJob, CompleteJob, SaveStatus, Acknowledge
  <2>2. queue'.log = queue.log /\ queue'.read = queue.read
    BY <1>0, <2>1, XAckKeeps
  <2> QED BY <1>1, <1>5, <2>2, BatchShrinks
<1>6. CASE Retry \/ Replay \/ Stop \/ Restart
  BY <1>2, <1>6 DEF Retry, RetryTick, RetryPop, RetryPause, RetryAgain, RetryGiveUp, RetrySave,
     Replay, ReplayStart, ReplayLine, ReplayRewrite, Stop, Restart, goroutineVars
<1>7. CASE Exit \/ Crash
  <2>1. queue' = queue /\ \A h \in Goroutines : batch'[h] = <<>>
    BY <1>7 DEF Exit, Crash, Halt
  <2> QED BY <1>1, <2>1, ToSetEmpty
<1>8. ASSUME NEW j \in Jobs, Enqueue(j)
      PROVE  QueueShape'
  <2>1. /\ Len(queue'.log) = Len(queue.log) + 1
        /\ \A i \in 1 .. Len(queue.log) : queue'.log[i] = queue.log[i]
        /\ queue'.read = queue.read
    BY <1>0, <1>8, XAddOnce, ConfigAssumption DEF Enqueue
  <2>2. batch' = batch
    BY <1>8 DEF Enqueue, goroutineVars
  <2>3. queue'.read <= Len(queue'.log)
    BY <1>0, <2>1 DEF QueueShape
  <2>4. 1 .. queue.read \subseteq 1 .. Len(queue.log)
    BY <1>0 DEF QueueShape
  <2>5. ASSUME NEW g \in Goroutines, NEW m \in ToSet(batch[g])
        PROVE  m.id \in 1 .. queue'.read /\ m.body = queue'.log[m.id]
    BY <2>1, <2>4, <2>5 DEF QueueShape
  <2> QED BY <2>2, <2>3, <2>5 DEF QueueShape
<1> QED BY <1>3, <1>4, <1>5, <1>6, <1>7, <1>8 DEF Next, WorkerNext, Process

\* No step acknowledges a rejected message whose job has no end yet.
LEMMA StepRejected ==
  ASSUME TypeOK, Shape, QueueShape, DeadRecorded, RejectedAreReported, Next
  PROVE  RejectedAreReported'
<1> SUFFICES ASSUME faults'.disk = 0,
                    NEW i \in queue'.trimmed + 1 .. queue'.read, i \notin queue'.pel,
                    NEW j, j = queue'.log[i], j \in Malformed
             PROVE  Recorded(j)'
  BY DEF RejectedAreReported, Recorded
<1>0. /\ queue \in Stream(Jobs) /\ queue.read \in Nat /\ queue.trimmed \in Nat
      /\ Len(queue.log) \in Nat
      /\ queue'.trimmed \in Nat /\ queue'.read \in Nat
      /\ faults.disk = 0
  <2>1. "disk" \in FaultKind /\ faults["disk"] \in Nat /\ faults'["disk"] >= faults["disk"]
    BY NothingUndone DEF FaultKind, TypeOK
  <2>2. faults.disk = 0
    BY <2>1
  <2>3. queue \in Stream(Jobs) /\ queue' \in Stream(Jobs)
    <3>1. TypeOK'
      BY StepShape
    <3> QED BY <3>1 DEF TypeOK
  <2>4. \A s \in Stream(Jobs) : s.read \in Nat /\ s.trimmed \in Nat /\ Len(s.log) \in Nat
    BY LenProperties DEF Stream
  <2> QED BY <2>2, <2>3, <2>4
<1>1. ASSUME queue'.log[i] = queue.log[i], i \in queue.trimmed + 1 .. queue.read, i \notin queue.pel
      PROVE  Recorded(j)'
  <2>1. Recorded(j)
    BY <1>0, <1>1 DEF RejectedAreReported
  <2> QED BY <2>1, RecordedStays
<1>2. ASSUME UNCHANGED queue
      PROVE  Recorded(j)'
  BY <1>1, <1>2
<1>3. ASSUME HasUnread(queue), queue' = Delivered(queue, BatchSize)
      PROVE  Recorded(j)'
  <2>1. /\ queue'.log = queue.log /\ queue'.trimmed = queue.trimmed
        /\ queue.pel \subseteq queue'.pel
        /\ i > queue.read => i \in queue'.pel
    BY <1>0, <1>3, DeliveredKeeps, DeliveredTruth, ConfigAssumption
  <2>2. i \in queue.trimmed + 1 .. queue.read /\ i \notin queue.pel
    BY <1>0, <2>1
  <2> QED BY <1>1, <2>1, <2>2
<1>4. ASSUME NEW g \in Goroutines, pc[g] \in {"message", "ackDead"},
             queue' = XAck(queue, Current(g).id),
             Job(g) \in Malformed => Recorded(Job(g))
      PROVE  Recorded(j)'
  <2>1. /\ queue'.log = queue.log /\ queue'.read = queue.read /\ queue'.trimmed = queue.trimmed
        /\ queue'.pel = queue.pel \ {Current(g).id}
    BY <1>0, <1>4 DEF XAck, Stream
  <2>2. CASE i # Current(g).id
    BY <1>1, <2>1, <2>2
  <2>3. CASE i = Current(g).id
    <3>1. Current(g) \in ToSet(batch[g])
      BY <1>4, CurrentTyped DEF Shape
    <3>2. Job(g) = j
      BY <2>1, <2>3, <3>1 DEF QueueShape, Job
    <3>3. Recorded(j)
      BY <1>4, <3>2
    <3> QED BY <3>3, RecordedStays
  <2> QED BY <2>2, <2>3
<1>5. ASSUME NEW g \in Goroutines, AckMessage(g)
      PROVE  Recorded(j)'
  BY <1>2, <1>4, <1>5 DEF AckMessage, Acknowledge
<1>6. ASSUME NEW g \in Goroutines, AckDead(g)
      PROVE  Recorded(j)'
  <2>1. Recorded(Job(g))
    BY <1>0, <1>6 DEF AckDead, DeadRecorded
  <2> QED BY <1>2, <1>4, <1>6, <2>1 DEF AckDead, Acknowledge
<1>7. ASSUME NEW g \in Goroutines, Goroutine(g)
      PROVE  Recorded(j)'
  <2>1. CASE ReadBatch(g) \/ ReadLost(g)
    BY <1>3, <2>1 DEF ReadBatch, ReadLost
  <2>2. CASE ~ ReadBatch(g) /\ ~ ReadLost(g) /\ ~ AckMessage(g) /\ ~ AckDead(g)
    BY <1>2, <1>7, <2>2 DEF Goroutine, Poll, ReadNothing, RejectMessage, Announce, FailJob,
       CompleteJob, SaveStatus
  <2> QED BY <1>5, <1>6, <2>1, <2>2
<1>8. CASE Retry \/ Replay \/ Process
  BY <1>2, <1>8 DEF Retry, RetryTick, RetryPop, RetryPause, RetryAgain, RetryGiveUp, RetrySave,
     Replay, ReplayStart, ReplayLine, ReplayRewrite, Process, Stop, Exit, Crash, Restart, Halt
<1>9. ASSUME NEW x \in Jobs, Enqueue(x)
       PROVE  Recorded(j)'
  <2>1. /\ \A k \in 1 .. Len(queue.log) : queue'.log[k] = queue.log[k]
        /\ queue'.trimmed >= queue.trimmed
        /\ queue'.read = queue.read /\ queue'.pel = queue.pel
    BY <1>0, <1>9, XAddOnce, ConfigAssumption DEF Enqueue
  <2>2. i \in queue.trimmed + 1 .. queue.read
    BY <1>0, <2>1
  <2>3. i \in 1 .. Len(queue.log)
    BY <1>0, <2>2 DEF QueueShape
  <2> QED BY <1>1, <2>1, <2>2, <2>3
<1> QED BY <1>7, <1>8, <1>9 DEF Next, WorkerNext

(***************************************************************************)
(* Unless the fallback file cannot be written, a message that does not     *)
(* parse is acknowledged only after its job was reported dead, to node1 or *)
(* to the file: whatever crash or shutdown comes between the two           *)
(* (processMessage, worker.go:47-56).                                      *)
(***************************************************************************)
THEOREM NoSilentReject == Spec => []RejectedAreReported
<1> DEFINE Inv == QueueShape /\ DeadRecorded /\ RejectedAreReported
<1>1. Init => Inv
  <2> SUFFICES ASSUME Init PROVE Inv
    OBVIOUS
  <2>1. DeadRecorded
    BY DEF Init, DeadRecorded
  <2>2. queue.read = 0 /\ queue.trimmed = 0 /\ Len(queue.log) = 0
        /\ \A g \in Goroutines : batch[g] = <<>>
    BY DEF Init, EmptyStream
  <2> QED BY <2>1, <2>2, ToSetEmpty DEF QueueShape, RejectedAreReported
<1>2. TypeOK /\ Shape /\ Inv /\ [Next]_vars => Inv'
  <2>1. CASE UNCHANGED vars
    BY <2>1 DEF vars, goroutineVars, processVars, QueueShape, DeadRecorded,
       RejectedAreReported, Recorded, Published, Job, Current
  <2> QED BY <2>1, StepDead, StepQueue, StepRejected
<1> QED BY TypeAndShape, <1>1, <1>2, PTL DEF Spec

-----------------------------------------------------------------------------
(***************************************************************************)
(* What a replay works on                                                  *)
(***************************************************************************)

\* A replay works on lines of the file, and nobody else changes the file.
LeftShape ==
  /\ ToSet(todo) \subseteq ToSet(fallback)
  /\ ToSet(remaining) \subseteq ToSet(fallback)
  /\ ppc = "idle" => todo = <<>> /\ remaining = <<>>

\* What a replay keeps for the rewrite after one line more.
LEMMA KeptAfter ==
  ASSUME TypeOK, NEW r \in Report, NEW ok \in BOOLEAN, remaining' = remaining \o Unpublished(r, ok)
  PROVE  IF ok THEN remaining' = remaining ELSE remaining' = Append(remaining, r)
<1>1. remaining \in Seq(Report)
  BY DEF TypeOK
<1>2. CASE ok
  BY <1>1, <1>2 DEF Unpublished
<1>3. CASE ~ ok
  BY <1>1, <1>3 DEF Unpublished
<1> QED BY <1>2, <1>3

\* The line a replay is at.
LEMMA LineTyped ==
  ASSUME TypeOK, todo # <<>>
  PROVE  Head(todo) \in Report /\ Head(todo) \in ToSet(todo)
  BY HeadTailProperties, ToSetHeadTail DEF TypeOK

\* A step of a goroutine or of the retry goroutine that writes the file does
\* so between two replays.
LEMMA WrittenBetweenReplays ==
  ASSUME TypeOK, Shape, Next, fallback' # fallback, ~ ReplayRewrite
  PROVE  /\ ppc = "idle" /\ UNCHANGED replayVars
         /\ ToSet(fallback) \subseteq ToSet(fallback')
<1>1. ASSUME NEW r \in Report, AppendFallbackFile(r)
      PROVE  ppc = "idle" /\ ToSet(fallback) \subseteq ToSet(fallback')
  BY <1>1, AppendKeeps DEF TypeOK
<1>2. ASSUME NEW g \in Goroutines, SaveStatus(g)
      PROVE  ppc = "idle" /\ ToSet(fallback) \subseteq ToSet(fallback') /\ UNCHANGED replayVars
  <2>1. SavedStatus[pc[g]] \in {"processing", "done", "dead"}
        /\ pc[g] \notin {"poll", "reading", "stopped"}
    BY <1>2 DEF SaveStatus, SavedStatus
  <2>2. [job |-> Job(g), status |-> SavedStatus[pc[g]]] \in Report
    BY <2>1, CurrentTyped DEF Shape
  <2> QED BY <1>1, <1>2, <2>2 DEF SaveStatus
<1>3. CASE RetrySave
  <2>1. Head(hand) \in Entry
    BY <1>3, HeadTailProperties DEF RetrySave, TypeOK, Shape, HandShape
  <2>2. [job |-> Head(hand).job, status |-> "dead"] \in Report
    BY <2>1 DEF Entry, Report
  <2> QED BY <1>1, <1>3, <2>2 DEF RetrySave
<1>4. ASSUME ~ RetrySave, \A g \in Goroutines : ~ SaveStatus(g)
      PROVE  FALSE
  BY <1>4 DEF Next, WorkerNext, Goroutine, Poll, ReadBatch, ReadNothing, ReadLost, AckMessage,
     RejectMessage, AckDead, Announce, FailJob, CompleteJob, Retry, RetryTick, RetryPop,
     RetryPause, RetryAgain, RetryGiveUp, Replay, ReplayStart, ReplayLine, Process, Stop,
     Exit, Crash, Restart, Halt, Enqueue
<1> QED BY <1>2, <1>3, <1>4

\* A replay goes on with lines of the file.
LEMMA StepLeft ==
  ASSUME TypeOK, Shape, LeftShape, Next
  PROVE  LeftShape'
<1>1. CASE fallback' # fallback /\ ~ ReplayRewrite
  BY <1>1, WrittenBetweenReplays DEF LeftShape, replayVars
<1>2. CASE fallback' = fallback /\ UNCHANGED replayVars
  BY <1>2 DEF LeftShape, replayVars
<1>3. CASE ReplayStart
  BY <1>3, ToSetEmpty DEF ReplayStart, LeftShape
<1>4. ASSUME NEW ok \in BOOLEAN, ReplayLine(ok)
      PROVE  LeftShape'
  <2>1. Head(todo) \in Report /\ Head(todo) \in ToSet(todo)
    BY <1>4, LineTyped DEF ReplayLine
  <2>2. ToSet(todo') \subseteq ToSet(todo)
    BY <1>4, ToSetHeadTail DEF ReplayLine, TypeOK
  <2>3. ToSet(remaining') \subseteq ToSet(remaining) \cup {Head(todo)}
    <3>1. remaining' = remaining \/ remaining' = Append(remaining, Head(todo))
      BY <1>4, <2>1, KeptAfter DEF ReplayLine
    <3>2. ToSet(Append(remaining, Head(todo))) = ToSet(remaining) \cup {Head(todo)}
      BY <2>1, ToSetAppend DEF TypeOK
    <3> QED BY <3>1, <3>2
  <2> QED BY <1>4, <2>1, <2>2, <2>3 DEF ReplayLine, LeftShape
<1>5. CASE ReplayRewrite
  BY <1>5, ToSetEmpty DEF ReplayRewrite, LeftShape
<1>6. CASE Exit \/ Crash
  BY <1>6, ToSetEmpty DEF Exit, Crash, Halt, LeftShape
<1>7. CASE (\E g \in Goroutines : Goroutine(g)) \/ Retry \/ Stop \/ Restart \/ \E j \in Jobs : Enqueue(j)
  <2>1. UNCHANGED replayVars
    BY <1>7 DEF Goroutine, Poll, ReadBatch, ReadNothing, ReadLost, AckMessage,
       RejectMessage, AckDead, Announce, FailJob, CompleteJob, SaveStatus, Retry, RetryTick,
       RetryPop, RetryPause, RetryAgain, RetryGiveUp, RetrySave, Stop, Restart, Enqueue
  <2>2. ReplayRewrite => LeftShape'
    BY <1>5
  <2> QED BY <1>1, <1>2, <2>1, <2>2
<1> QED BY <1>3, <1>4, <1>5, <1>6, <1>7 DEF Next, WorkerNext, Replay, Process

-----------------------------------------------------------------------------
(***************************************************************************)
(* The worker keeps the ledger                                             *)
(***************************************************************************)

Held(j) == InBatch(j) \/ Awaiting(j)

\* What is held or reported was received.
KnownShape == \A j : Held(j) \/ Recorded(j) => j \in taken

\* What a step does to a job that it does not work on.
Same(j) == (Held(j)' <=> Held(j)) /\ (Recorded(j)' <=> Recorded(j))

\* No fault but a crash counts as one.
LEMMA CrashesCounted ==
  ASSUME TypeOK, Next, ~ Crash
  PROVE  faults'.crash = faults.crash
<1>1. ASSUME NEW k \in {"stop", "disk", "local", "lostReply"}, Suffer(k)
      PROVE  faults'.crash = faults.crash
  BY <1>1 DEF Suffer, TypeOK, FaultKind
<1>2. ASSUME NEW r, NEW ok, PublishStatus(r, ok)
      PROVE  faults'.crash = faults.crash
  BY <1>1, <1>2 DEF PublishStatus, Accepted, AddedTwice, AddedUnseen, Refused
<1>3. ASSUME NEW r, AppendFallbackFile(r)
      PROVE  faults'.crash = faults.crash
  BY <1>1, <1>3 DEF AppendFallbackFile
<1>4. ASSUME NEW e, PushLocal(e)
      PROVE  faults'.crash = faults.crash
  BY <1>1, <1>4 DEF PushLocal
<1>5. ASSUME NEW g \in Goroutines, Goroutine(g)
      PROVE  faults'.crash = faults.crash
  <2>1. CASE Poll(g) \/ ReadBatch(g) \/ ReadNothing(g) \/ AckMessage(g) \/ AckDead(g)
    BY <2>1 DEF Poll, ReadBatch, ReadNothing, AckMessage, AckDead, processVars
  <2>2. CASE ReadLost(g)
    BY <1>1, <2>2 DEF ReadLost
  <2>3. CASE RejectMessage(g) \/ Announce(g) \/ CompleteJob(g)
    BY <1>2, <2>3 DEF RejectMessage, Announce, CompleteJob
  <2>4. CASE FailJob(g)
    BY <1>4, <2>4 DEF FailJob
  <2>5. CASE SaveStatus(g)
    BY <1>3, <2>5 DEF SaveStatus
  <2> QED BY <1>5, <2>1, <2>2, <2>3, <2>4, <2>5 DEF Goroutine
<1>6. CASE Retry
  <2>1. CASE RetryTick
    BY <2>1 DEF RetryTick, processVars
  <2>2. CASE RetryPop \/ RetryPause
    BY <1>1, <2>2 DEF RetryPop, RetryPause
  <2>3. CASE RetryAgain
    BY <1>4, <2>3 DEF RetryAgain
  <2>4. CASE RetryGiveUp
    BY <1>2, <2>4 DEF RetryGiveUp
  <2>5. CASE RetrySave
    BY <1>3, <2>5 DEF RetrySave
  <2> QED BY <1>6, <2>1, <2>2, <2>3, <2>4, <2>5 DEF Retry
<1>7. CASE Replay
  BY <1>1, <1>2, <1>7 DEF Replay, ReplayStart, ReplayLine, ReplayRewrite, processVars
<1>8. CASE Process \/ \E j \in Jobs : Enqueue(j)
  BY <1>1, <1>8 DEF Process, Stop, Exit, Restart, Enqueue, processVars
<1> QED BY <1>5, <1>6, <1>7, <1>8 DEF Next, WorkerNext

\* Publishing or appending a report records its job at most.
LEMMA PublishRecordsOne ==
  ASSUME TypeOK, NEW r \in Report, NEW ok \in BOOLEAN, PublishStatus(r, ok), UNCHANGED fallback,
         NEW j, Recorded(j)', ~ Recorded(j)
  PROVE  j = r.job
<1>1. Published' \subseteq Published \cup {r}
  BY PublishKeeps DEF TypeOK
<1>2. PICK s \in Terminal : [job |-> j, status |-> s] \in Published' \cup ToSet(fallback)
  BY DEF Recorded
<1>3. [job |-> j, status |-> s] = r
  BY <1>1, <1>2 DEF Recorded
<1> QED BY <1>3

LEMMA AppendRecordsOne ==
  ASSUME TypeOK, NEW r \in Report, AppendFallbackFile(r), UNCHANGED status,
         NEW j, Recorded(j)', ~ Recorded(j)
  PROVE  j = r.job
<1>1. ToSet(fallback') \subseteq ToSet(fallback) \cup {r}
  BY AppendKeeps DEF TypeOK
<1>2. PICK s \in Terminal : [job |-> j, status |-> s] \in Published \cup ToSet(fallback')
  BY DEF Recorded, Published
<1>3. [job |-> j, status |-> s] = r
  BY <1>1, <1>2 DEF Recorded
<1> QED BY <1>3

\* A goroutine records the job of its message at most,
LEMMA GoroutineRecords ==
  ASSUME TypeOK, Shape, NEW g \in Goroutines, Goroutine(g), NEW j, Recorded(j)', ~ Recorded(j)
  PROVE  j = Job(g) /\ pc[g] \notin {"poll", "reading", "stopped"}
<1>1. ~ UNCHANGED <<status, fallback>>
  BY DEF Recorded, Published
<1>2. CASE RejectMessage(g) \/ Announce(g) \/ CompleteJob(g)
  <2>1. /\ UNCHANGED fallback /\ pc[g] \notin {"poll", "reading", "stopped"}
        /\ \E ok \in BOOLEAN, s \in {"processing", "done", "dead"} :
             PublishStatus([job |-> Job(g), status |-> s], ok)
    BY <1>2 DEF RejectMessage, Announce, CompleteJob
  <2>2. PICK ok \in BOOLEAN, s \in {"processing", "done", "dead"} :
          PublishStatus([job |-> Job(g), status |-> s], ok)
    BY <2>1
  <2> DEFINE r == [job |-> Job(g), status |-> s]
  <2>3. r \in Report /\ r.job = Job(g)
    BY <2>1, CurrentTyped DEF Shape
  <2>4. PublishStatus(r, ok)
    BY <2>2
  <2> HIDE DEF r
  <2> QED BY <2>1, <2>3, <2>4, PublishRecordsOne
<1>3. CASE SaveStatus(g)
  <2> DEFINE r == [job |-> Job(g), status |-> SavedStatus[pc[g]]]
  <2>1. /\ UNCHANGED status /\ pc[g] \notin {"poll", "reading", "stopped"}
        /\ AppendFallbackFile(r)
    BY <1>3 DEF SaveStatus, SavedStatus
  <2>2. r \in Report /\ r.job = Job(g)
    BY <1>3, SavedReport DEF SaveStatus, Shape
  <2> HIDE DEF r
  <2> QED BY <2>1, <2>2, AppendRecordsOne
<1> QED BY <1>1, <1>2, <1>3 DEF Goroutine, Poll, ReadBatch, ReadNothing, ReadLost, AckMessage,
     AckDead, FailJob

\* and takes or drops no other job, unless it reads a batch.
LEMMA GoroutineHolds ==
  ASSUME TypeOK, Shape, NEW g \in Goroutines, Goroutine(g), ~ ReadBatch(g), NEW j,
         ~ (Held(j)' <=> Held(j))
  PROVE  j = Job(g) /\ pc[g] \notin {"poll", "reading", "stopped"}
<1>1. CASE pc[g] \in {"poll", "reading", "stopped"}
  <2>1. UNCHANGED <<batch, failedList, hand>>
    BY <1>1 DEF Goroutine, Poll, ReadNothing, ReadLost, AckMessage, RejectMessage, Announce,
       AckDead, FailJob, CompleteJob, SaveStatus, SavedStatus, retryVars
  <2> QED BY <2>1 DEF Held, InBatch, Awaiting
<1>2. CASE Held(j)
  BY <1>1, <1>2, BatchLosesOne, GoroutineAwaits DEF Held
<1>3. CASE ~ Held(j)
  <2>1. ~ InBatch(j)'
    BY <1>3, BatchShrinks DEF Held, InBatch
  <2>2. Awaiting(j)' /\ ~ Awaiting(j)
    BY <1>3, <2>1 DEF Held
  <2>3. FailJob(g)
    BY <2>2 DEF Awaiting, Goroutine, Poll, ReadNothing, ReadLost, AckMessage, RejectMessage,
       Announce, AckDead, CompleteJob, SaveStatus, retryVars
  <2> DEFINE e == [job |-> Job(g), retries |-> 0]
  <2>4. e \in Entry /\ e.job = Job(g) /\ PushLocal(e) /\ UNCHANGED hand
    BY <2>3, FirstEntry DEF FailJob
  <2> HIDE DEF e
  <2>5. ToSet(failedList') \subseteq ToSet(failedList) \cup {e}
    BY <2>4, PushKeeps DEF TypeOK
  <2>6. j = e.job
    BY <2>2, <2>4, <2>5 DEF Awaiting
  <2> QED BY <1>1, <2>4, <2>6
<1> QED BY <1>2, <1>3

\* The retry goroutine takes, drops and records the job of its entry only.
LEMMA RetryWorksOnOne ==
  ASSUME TypeOK, Shape, HandSingle, Retry, NEW j,
         ~ Same(j)
  PROVE  j = AtHand.job /\ Held(j)
<1>0. /\ failedList \in Seq(Entry) /\ hand \in Seq(Entry) /\ UNCHANGED batch
  BY DEF TypeOK, Retry, RetryTick, RetryPop, RetryPause, RetryAgain, RetryGiveUp, RetrySave,
     goroutineVars
<1>1. ~ RetryTick /\ ~ RetryPause
  BY DEF RetryTick, RetryPause, Same, Held, InBatch, Awaiting, Recorded, Published, goroutineVars
<1>2. CASE RetryPop
  <2>1. /\ failedList # <<>> /\ failedList' = Tail(failedList) /\ UNCHANGED <<status, fallback>>
        /\ rpc = "drain" /\ hand = <<>>
        /\ hand' = <<Head(failedList)>> \/ hand' = hand
    BY <1>2 DEF RetryPop, Shape, HandShape
  <2>2. /\ ToSet(failedList) = {Head(failedList)} \cup ToSet(failedList')
        /\ ToSet(hand) = {} /\ ToSet(<<Head(failedList)>>) = {Head(failedList)}
    BY <1>0, <2>1, ToSetHeadTail, ToSetEmpty, ToSetOne
  <2>3. ~ (Awaiting(j)' <=> Awaiting(j))
    BY <1>0, <2>1 DEF Same, Held, InBatch, Recorded, Published
  <2>4. j = Head(failedList).job /\ Awaiting(j)
    BY <2>1, <2>2, <2>3 DEF Awaiting
  <2> QED BY <2>1, <2>4 DEF AtHand, Held
<1>3. CASE RetryAgain \/ RetryGiveUp \/ RetrySave
  <2>1. rpc \in {"handle", "saveDead"} /\ hand' \in {hand, <<>>}
    BY <1>3 DEF RetryAgain, RetryGiveUp, RetrySave
  <2>2. /\ ToSet(hand) = {Head(hand)} /\ Head(hand) \in Entry
        /\ [job |-> Head(hand).job, status |-> "dead"] \in Report
    BY <2>1, HandIs
  <2>3. ToSet(hand') \subseteq {Head(hand)}
    BY <2>1, <2>2, ToSetEmpty
  <2>4. Awaiting(Head(hand).job) /\ AtHand = Head(hand)
    BY <2>1, <2>2 DEF Awaiting, AtHand
  <2>5. ASSUME ~ (Held(j)' <=> Held(j))
        PROVE  j = Head(hand).job
    <3>1. ~ (Awaiting(j)' <=> Awaiting(j))
      BY <1>0, <2>5 DEF Held, InBatch
    <3>2. CASE RetryAgain
      <4>1. /\ Attempted(Head(hand)) \in Entry /\ Attempted(Head(hand)).job = Head(hand).job
            /\ PushLocal(Attempted(Head(hand)))
        BY <2>2, <3>2, AttemptedTyped DEF RetryAgain
      <4>2. /\ ToSet(failedList) \subseteq ToSet(failedList')
            /\ ToSet(failedList') \subseteq ToSet(failedList) \cup {Attempted(Head(hand))}
        BY <4>1, PushKeeps DEF TypeOK
      <4> QED BY <2>2, <2>3, <3>1, <4>1, <4>2 DEF Awaiting
    <3>3. CASE UNCHANGED failedList
      BY <2>2, <2>3, <3>1, <3>3 DEF Awaiting
    <3> QED BY <1>3, <3>2, <3>3 DEF RetryGiveUp, RetrySave
  <2>6. ASSUME ~ (Recorded(j)' <=> Recorded(j))
        PROVE  j = Head(hand).job
    <3> DEFINE r == [job |-> Head(hand).job, status |-> "dead"]
    <3>0. r \in Report /\ r.job = Head(hand).job
      BY <2>2
    <3>1. ~ Recorded(j) /\ Recorded(j)'
      BY <2>6, RecordedStays DEF Next, WorkerNext
    <3>2. CASE RetryAgain
      BY <2>6, <3>2 DEF RetryAgain, Recorded, Published
    <3>3. CASE RetryGiveUp
      <4>1. PICK ok \in BOOLEAN : PublishStatus(r, ok)
        BY <3>3 DEF RetryGiveUp
      <4>2. UNCHANGED fallback
        BY <3>3 DEF RetryGiveUp
      <4> HIDE DEF r
      <4> QED BY <3>0, <3>1, <4>1, <4>2, PublishRecordsOne
    <3>4. CASE RetrySave
      <4>1. AppendFallbackFile(r) /\ UNCHANGED status
        BY <3>4 DEF RetrySave
      <4> HIDE DEF r
      <4> QED BY <3>0, <3>1, <4>1, AppendRecordsOne
    <3> QED BY <1>3, <3>2, <3>3, <3>4
  <2> QED BY <2>4, <2>5, <2>6 DEF Same, Held
<1> QED BY <1>1, <1>2, <1>3 DEF Retry

\* A replay publishes lines that are recorded already, and drops published ones.
LEMMA ReplayChangesNone ==
  ASSUME TypeOK, Shape, LeftShape, Replay, NEW j
  PROVE  Same(j)
<1>1. Held(j)' <=> Held(j)
  BY DEF Replay, ReplayStart, ReplayLine, ReplayRewrite, goroutineVars, retryVars, Held,
     InBatch, Awaiting
<1>2. ASSUME Recorded(j)', ~ Recorded(j)
      PROVE  FALSE
  <2>1. CASE ReplayStart
    BY <1>2, <2>1 DEF ReplayStart, Recorded, Published
  <2>2. ASSUME NEW ok \in BOOLEAN, ReplayLine(ok)
        PROVE  FALSE
    <3>1. Head(todo) \in Report /\ Head(todo) \in ToSet(fallback)
      BY <2>2, LineTyped DEF ReplayLine, LeftShape
    <3>2. Published' \subseteq Published \cup {Head(todo)} /\ UNCHANGED fallback
      BY <2>2, <3>1, PublishKeeps DEF ReplayLine, TypeOK
    <3> QED BY <1>2, <3>1, <3>2 DEF Recorded
  <2>3. CASE ReplayRewrite
    <3>1. ToSet(fallback') \subseteq ToSet(fallback) /\ Published' = Published
      BY <2>3 DEF ReplayRewrite, LeftShape, Published
    <3> QED BY <1>2, <3>1 DEF Recorded
  <2> QED BY <2>1, <2>2, <2>3 DEF Replay
<1>3. Recorded(j) => Recorded(j)'
  BY RecordedStays DEF Next, WorkerNext
<1> QED BY <1>1, <1>2, <1>3 DEF Same

\* A step that changes no job leaves the ledger as it is,
LEMMA NoneChanged ==
  ASSUME KnownShape, UNCHANGED taken, faults'.crash = faults.crash, \A j : Same(j)
  PROVE  UNCHANGED Ledger!vars /\ KnownShape'
<1>1. Settled' = Settled
  BY DEF Settled, Same
<1>2. Forgotten' = Forgotten
  BY DEF Forgotten, Same, Held
<1>3. KnownShape'
  BY DEF KnownShape, Same
<1> QED BY <1>1, <1>2, <1>3 DEF Ledger!vars

\* and one that changes a held job only settles or loses it, or neither.
LEMMA OneChanged ==
  ASSUME TypeOK, Shape, Next, KnownShape, UNCHANGED taken, faults'.crash = faults.crash,
         NEW k, Held(k), \A j : j # k => Same(j)
  PROVE  [Ledger!Next]_(Ledger!vars) /\ KnownShape'
<1>0. k \in taken /\ k \in Jobs
  BY DEF KnownShape, TypeOK
<1>1. KnownShape'
  BY <1>0 DEF KnownShape, Same
<1>2. /\ Settled \ {k} = Settled' \ {k} /\ Forgotten \ {k} = Forgotten' \ {k}
      /\ k \notin Forgotten
  BY DEF Settled, Forgotten, Same, Held
<1>3. Recorded(k) => Recorded(k)'
  BY RecordedStays
<1>4. CASE Recorded(k) \/ (Held(k)' /\ ~ Recorded(k)')
  <2>1. (k \in Settled' <=> k \in Settled) /\ k \notin Forgotten'
    BY <1>3, <1>4 DEF Settled, Forgotten, Held
  <2>2. Settled' = Settled /\ Forgotten' = Forgotten
    BY <1>2, <2>1
  <2> QED BY <1>1, <2>2 DEF Ledger!vars
<1>5. CASE ~ Recorded(k)
  <2>1. k \in Ledger!Held
    BY <1>0, <1>2, <1>5 DEF Ledger!Held, Settled
  <2>2. CASE Recorded(k)'
    <3>1. k \in Settled' /\ k \notin Forgotten'
      BY <1>0, <2>2 DEF Settled, Forgotten
    <3>2. Settled' = Settled \cup {k} /\ Forgotten' = Forgotten
      BY <1>2, <3>1
    <3>3. Ledger!Settle(k)
      BY <2>1, <3>2 DEF Ledger!Settle
    <3> QED BY <1>1, <2>1, <3>3 DEF Ledger!Next
  <2>3. CASE ~ Recorded(k)' /\ ~ Held(k)'
    <3>1. k \notin Settled' /\ k \notin Settled /\ k \in Forgotten'
      BY <1>0, <1>5, <2>3 DEF Settled, Forgotten, Held
    <3>2. Settled' = Settled /\ Forgotten' = Forgotten \cup {k}
      BY <1>2, <3>1
    <3>3. Ledger!Lose(k)
      BY <2>1, <3>2 DEF Ledger!Lose
    <3> QED BY <1>1, <2>1, <3>3 DEF Ledger!Next
  <2> QED BY <1>4, <2>2, <2>3
<1> QED BY <1>4, <1>5

\* A read takes the jobs of a batch.
LEMMA ReadTakes ==
  ASSUME TypeOK, Shape, KnownShape, NEW g \in Goroutines, ReadBatch(g)
  PROVE  [Ledger!Next]_(Ledger!vars) /\ KnownShape'
<1> DEFINE received == {m.body : m \in ToSet(Reply(queue, BatchSize))}
<1>1. /\ taken' = taken \cup received /\ UNCHANGED <<status, fallback, failedList, hand, faults>>
  BY DEF ReadBatch, retryVars, processVars
<1>2. received \subseteq Jobs
  <2>1. Reply(queue, BatchSize) \in Seq([id : Nat, body : Jobs])
    BY DeliveredKeeps, ConfigAssumption DEF ReadBatch, TypeOK
  <2> QED BY <2>1, ToSetOf
<1>3. \A j : InBatch(j)' <=> InBatch(j) \/ j \in received
  <2>1. /\ batch[g] = <<>> /\ batch'[g] = Reply(queue, BatchSize)
        /\ \A h \in Goroutines \ {g} : batch'[h] = batch[h]
    BY DEF ReadBatch, Shape, BatchShape, TypeOK
  <2>2. ToSet(batch[g]) = {}
    BY <2>1, ToSetEmpty
  <2> QED BY <2>1, <2>2 DEF InBatch
<1> HIDE DEF received
<1>4. \A j : /\ Held(j)' <=> Held(j) \/ j \in received
             /\ Recorded(j)' <=> Recorded(j)
  BY <1>1, <1>3 DEF Held, Awaiting, Recorded, Published
<1>5. KnownShape'
  BY <1>1, <1>4 DEF KnownShape
<1>6. Settled' = Settled
  BY <1>4 DEF Settled
<1>7. Forgotten' = Forgotten \ received
  BY <1>1, <1>4 DEF Forgotten, Held
<1>8. Ledger!Take(received)
  BY <1>1, <1>6, <1>7 DEF Ledger!Take
<1> QED BY <1>2, <1>5, <1>8 DEF Ledger!Next

\* Every step is a step of the ledger.
LEMMA StepLedger ==
  ASSUME TypeOK, Shape, HandSingle, LeftShape, KnownShape, Next
  PROVE  [Ledger!Next]_(Ledger!vars) /\ KnownShape'
<1>1. ~ Crash => faults'.crash = faults.crash
  BY CrashesCounted
<1>2. ASSUME NEW g \in Goroutines, Goroutine(g), ~ ReadBatch(g), ~ Crash
      PROVE  [Ledger!Next]_(Ledger!vars) /\ KnownShape'
  <2>1. UNCHANGED taken
    BY <1>2 DEF Goroutine, Poll, ReadNothing, ReadLost, AckMessage, RejectMessage, Announce,
       AckDead, FailJob, CompleteJob, SaveStatus
  <2>2. \A j : ~ Same(j) => j = Job(g) /\ pc[g] \notin {"poll", "reading", "stopped"}
    BY <1>2, GoroutineRecords, GoroutineHolds, RecordedStays DEF Same
  <2>3. CASE pc[g] \in {"poll", "reading", "stopped"}
    BY <1>1, <1>2, <2>1, <2>2, <2>3, NoneChanged
  <2>4. CASE pc[g] \notin {"poll", "reading", "stopped"}
    <3>1. Held(Job(g))
      BY <2>4, CurrentTyped DEF Shape, Held, InBatch, Job
    <3> QED BY <1>1, <1>2, <2>1, <2>2, <3>1, OneChanged
  <2> QED BY <2>3, <2>4
<1>3. CASE Retry /\ ~ Crash
  <2>1. UNCHANGED taken
    BY <1>3 DEF Retry, RetryTick, RetryPop, RetryPause, RetryAgain, RetryGiveUp, RetrySave
  <2>2. \A j : ~ Same(j) => j = AtHand.job /\ Held(j)
    BY <1>3, RetryWorksOnOne
  <2>3. CASE \A j : Same(j)
    BY <1>1, <1>3, <2>1, <2>3, NoneChanged
  <2>4. CASE ~ \A j : Same(j)
    <3>1. Held(AtHand.job)
      BY <2>2, <2>4
    <3> HIDE DEF AtHand
    <3> QED BY <1>1, <1>3, <2>1, <2>2, <3>1, OneChanged
  <2> QED BY <2>3, <2>4
<1>4. CASE Replay /\ ~ Crash
  <2>1. UNCHANGED taken
    BY <1>4 DEF Replay, ReplayStart, ReplayLine, ReplayRewrite
  <2> QED BY <1>1, <1>4, <2>1, ReplayChangesNone, NoneChanged
<1>5. CASE (Stop \/ Restart \/ \E j \in Jobs : Enqueue(j)) /\ ~ Crash
  <2>1. UNCHANGED <<taken, batch, failedList, hand, status, fallback>>
    BY <1>5 DEF Stop, Restart, Enqueue, goroutineVars, retryVars
  <2>2. \A j : Same(j)
    BY <2>1 DEF Same, Held, InBatch, Awaiting, Recorded, Published
  <2> QED BY <1>1, <1>5, <2>1, <2>2, NoneChanged
<1>6. CASE Exit /\ ~ Crash
  <2>1. /\ \A g \in Goroutines : batch[g] = <<>> /\ batch'[g] = <<>>
        /\ UNCHANGED <<failedList, taken, status, fallback>> /\ hand' = <<>>
    BY <1>6 DEF Exit, Halt, Shape, BatchShape
  <2>2. \A j : ~ InBatch(j) /\ ~ InBatch(j)' /\ (Recorded(j)' <=> Recorded(j))
    BY <2>1, ToSetEmpty DEF InBatch, Recorded, Published
  <2>3. ToSet(hand') = {} /\ (hand = <<>> => ToSet(hand) = {})
    BY <2>1, ToSetEmpty
  <2>4. CASE hand = <<>>
    <3>1. \A j : Same(j)
      BY <2>1, <2>2, <2>3, <2>4 DEF Same, Held, Awaiting
    <3> QED BY <1>1, <1>6, <2>1, <3>1, NoneChanged
  <2>5. CASE hand # <<>>
    <3>1. ToSet(hand) = {Head(hand)}
      BY <2>5 DEF HandSingle
    <3>2. \A j : j # Head(hand).job => Same(j)
      BY <2>1, <2>2, <2>3, <3>1 DEF Same, Held, Awaiting
    <3>3. Held(Head(hand).job)
      BY <3>1 DEF Held, Awaiting
    <3> QED BY <1>1, <1>6, <2>1, <3>2, <3>3, OneChanged
  <2> QED BY <2>4, <2>5
<1>7. CASE Crash
  <2>1. /\ \A g \in Goroutines : batch'[g] = <<>>
        /\ UNCHANGED <<failedList, taken, status, fallback>> /\ hand' = <<>>
    BY <1>7 DEF Crash, Halt
  <2>2. \A j : /\ Held(j)' => Held(j)
               /\ Recorded(j)' <=> Recorded(j)
    BY <2>1, ToSetEmpty DEF Held, InBatch, Awaiting, Recorded, Published
  <2>3. KnownShape'
    BY <2>1, <2>2 DEF KnownShape
  <2>4. Settled' = Settled /\ Forgotten \subseteq Forgotten'
    BY <2>1, <2>2 DEF Settled, Forgotten, Held
  <2>5. Forgotten' \ Forgotten \subseteq Ledger!Held
    BY <2>1, <2>2 DEF Ledger!Held, Forgotten, Settled
  <2>6. faults'.crash = faults.crash + 1
    BY <1>7 DEF Crash, Suffer, TypeOK, FaultKind
  <2>7. Ledger!Crash
    <3>1. Forgotten' = Forgotten \cup (Forgotten' \ Forgotten)
      BY <2>4
    <3> QED BY <2>1, <2>4, <2>5, <2>6, <3>1 DEF Ledger!Crash
  <2> QED BY <2>3, <2>7 DEF Ledger!Next
<1>8. ASSUME NEW g \in Goroutines, ReadBatch(g)
      PROVE  [Ledger!Next]_(Ledger!vars) /\ KnownShape'
  BY <1>8, ReadTakes
<1> QED BY <1>2, <1>3, <1>4, <1>5, <1>6, <1>7, <1>8 DEF Next, WorkerNext, Process

(***************************************************************************)
(* The worker implements JobLedger, for any number of jobs and goroutines, *)
(* any batches, any retry limit and any faults: only what was received is  *)
(* ever reported, nothing that was given up comes back but by a new        *)
(* message, and a recorded end is never lost (processMessage,              *)
(* retryFailedStatus, replayOnce, main).                                   *)
(***************************************************************************)
THEOREM WorkerImplementsLedger == Spec => KeepsLedger
<1> DEFINE Inv == HandSingle /\ LeftShape /\ KnownShape
<1>1. Init => Inv /\ Ledger!Init
  <2> SUFFICES ASSUME Init
               PROVE  Inv /\ Ledger!Init
    OBVIOUS
  <2>1. /\ failedList = <<>> /\ hand = <<>> /\ fallback = <<>> /\ status.log = <<>>
        /\ \A g \in Goroutines : batch[g] = <<>>
    BY DEF Init, EmptyStream
  <2>2. \A j : ~ Held(j) /\ ~ Recorded(j)
    BY <2>1, ToSetEmpty DEF Held, InBatch, Awaiting, Recorded, Published
  <2>3. HandSingle /\ LeftShape /\ KnownShape
    BY <2>1, <2>2 DEF HandSingle, LeftShape, KnownShape, Init
  <2>4. Settled = {} /\ Forgotten = {} /\ taken = {} /\ faults.crash = 0
    BY <2>2 DEF Settled, Forgotten, Init, FaultKind
  <2> QED BY <2>3, <2>4 DEF Ledger!Init
<1>2. TypeOK /\ Shape /\ Inv /\ [Next]_vars => Inv' /\ [Ledger!Next]_(Ledger!vars)
  <2> SUFFICES ASSUME TypeOK, Shape, Inv, [Next]_vars
               PROVE  Inv' /\ [Ledger!Next]_(Ledger!vars)
    OBVIOUS
  <2>1. CASE UNCHANGED vars
    <3>1. /\ UNCHANGED <<hand, todo, remaining, fallback, ppc, status, failedList, batch, taken, faults>>
      BY <2>1 DEF vars, goroutineVars, processVars, retryVars, replayVars
    <3>2. \A j : Same(j)
      BY <3>1 DEF Same, Held, InBatch, Awaiting, Recorded, Published
    <3>3. HandSingle' /\ LeftShape'
      BY <3>1 DEF HandSingle, LeftShape
    <3> QED BY <3>1, <3>2, <3>3, NoneChanged
  <2>2. CASE Next
    BY <2>2, StepHand, StepLeft, StepLedger
  <2> QED BY <2>1, <2>2
<1> QED BY TypeAndShape, <1>1, <1>2, PTL DEF Spec, KeepsLedger, Ledger!Spec
=============================================================================
