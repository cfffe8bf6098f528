---------------------------- MODULE JobApi_proofs ----------------------------
(***************************************************************************)
(* Theorems about JobApi, for any jobs, any posted statuses, any bounds    *)
(* and any faults.                                                         *)
(***************************************************************************)
EXTENDS JobApi, Stores_proofs

-----------------------------------------------------------------------------
(***************************************************************************)
(* The invariant                                                           *)
(***************************************************************************)

\* A request that has come past its INSERT, and the checker, only ever work
\* on rows that are there.
InHandPresent ==
  /\ \A j \in Jobs : request[j] \in {"inserted", "failed", "202", "503", "dropped"} => Present(j)
  /\ \A j \in snapshot \cup current : Present(j)
  /\ old \subseteq {j \in Jobs : Present(j)}

-----------------------------------------------------------------------------
(***************************************************************************)
(* What a step may change                                                  *)
(***************************************************************************)

\* A fault is counted.
LEMMA SufferCounts ==
  ASSUME faults \in Nat, NEW k, Suffer(k)
  PROVE  faults' \in Nat
  BY DEF Suffer

\* A transaction that fails may be a fault.
LEMMA DbFailsCounts ==
  ASSUME faults \in Nat, DbFails
  PROVE  faults' \in Nat
  BY SufferCounts DEF DbFails

\* What the worker reports is an update of the table.
LEMMA ReportsUpdate ==
  ASSUME NEW s \in Seq(Report)
  PROVE  s \in Seq([job : Jobs, status : Status])
<1>1. Report \subseteq [job : Jobs, status : Status]
  BY DEF Report, Status
<1> QED BY <1>1, SeqMonotonic

\* The two reports of a job's run.
LEMMA RunReports ==
  ASSUME NEW j \in Jobs
  PROVE  /\ Start(j) \in Report /\ Start(j).job = j /\ Start(j).status = "processing"
         /\ EndOf(j) \in Report /\ EndOf(j).job = j /\ EndOf(j).status \in {"done", "dead"}
         /\ Start(j) # EndOf(j)
         /\ \A r \in First(j) : r \in {Start(j), EndOf(j)}
  BY DEF Start, EndOf, Report, First

\* Some of the statuses, without the first of them.
LEMMA SuffixOf ==
  ASSUME NEW s \in Seq(Report), NEW n \in 0 .. Len(s)
  PROVE  LET t == SubSeq(s, n + 1, Len(s))
         IN  /\ t \in Seq(Report)
             /\ DOMAIN t = 1 .. Len(s) - n
             /\ \A m \in DOMAIN t : t[m] = s[m + n] /\ m + n \in DOMAIN s
             /\ ToSet(t) \subseteq ToSet(s)
<1> DEFINE t == SubSeq(s, n + 1, Len(s))
<1>1. Len(s) \in Nat /\ DOMAIN s = 1 .. Len(s)
  OBVIOUS
<1>2. /\ t \in Seq(Report) /\ Len(t) = Len(s) - n
      /\ \A m \in 1 .. Len(s) - n : t[m] = s[m + n]
  <2>1. \A i \in n + 1 .. Len(s) : s[i] \in Report
    BY <1>1
  <2>2. n + 1 \in Int /\ Len(s) \in Int
    BY <1>1
  <2>3. /\ t \in Seq(Report)
        /\ Len(t) = IF n + 1 <= Len(s) THEN Len(s) - (n + 1) + 1 ELSE 0
        /\ \A i \in 1 .. Len(s) - (n + 1) + 1 : t[i] = s[n + 1 + i - 1]
    BY <2>1, <2>2, SubSeqProperties
  <2> HIDE DEF t
  <2> DEFINE l == Len(s)
  <2> HIDE DEF l
  <2>6. n \in 0 .. l /\ l \in Nat /\ Len(t) = IF n + 1 <= l THEN l - (n + 1) + 1 ELSE 0
    BY <1>1, <2>3 DEF l
  <2>7. Len(t) = l - n
    <3>1. CASE n + 1 <= l
      BY <2>6, <3>1
    <3>2. CASE n = l
      BY <2>6, <3>2
    <3> QED BY <2>6, <3>1, <3>2
  <2>4. Len(t) = Len(s) - n
    BY <2>7 DEF l
  <2>5. ASSUME NEW m \in 1 .. Len(s) - n
        PROVE  t[m] = s[m + n]
    <3>1. m \in 1 .. Len(s) - (n + 1) + 1 /\ n + 1 + m - 1 = m + n
      BY <1>1
    <3> QED BY <2>3, <3>1
  <2> QED BY <2>3, <2>4, <2>5
<1> HIDE DEF t
<1>3. DOMAIN t = 1 .. Len(s) - n
  BY <1>2
<1>4. \A m \in DOMAIN t : t[m] = s[m + n] /\ m + n \in DOMAIN s
  BY <1>1, <1>2, <1>3
<1>5. ToSet(t) \subseteq ToSet(s)
  BY <1>4 DEF ToSet
<1> QED BY <1>2, <1>3, <1>4, <1>5 DEF t

\* The jobs of ends are jobs.
LEMMA EndsJobs ==
  ASSUME NEW rs \in SUBSET Report
  PROVE  Ends(rs) \subseteq Jobs
  BY DEF Ends, Report

\* An UPDATE writes a status to a row that is there, or nothing.
LEMMA SetStatusKeeps ==
  ASSUME TypeOK, NEW j \in Jobs, NEW s \in Status, SetStatus(j, s)
  PROVE  /\ db' \in [Jobs -> Status \cup {"absent"}]
         /\ \A i \in Jobs : Present(i) <=> Present(i)'
         /\ old' \subseteq old
<1> DEFINE txn == <<[job |-> j, status |-> s]>>
<1>1. txn \in Seq([job : Jobs, status : Status])
  OBVIOUS
<1>2. db' = Committed(db, txn) /\ old' = old \ {j}
  BY DEF SetStatus
<1>3. db \in [Jobs -> Status \cup {"absent"}]
  BY DEF TypeOK
<1> HIDE DEF txn
<1> QED BY <1>1, <1>2, <1>3, CommittedKeeps DEF Present

\* Where a request goes.
LEMMA MoveTyped ==
  ASSUME TypeOK, NEW j \in Jobs, NEW l \in {"inserted", "failed"} \cup Answered, Move(j, l)
  PROVE  /\ request' \in [Jobs -> {"new", "inserted", "failed"} \cup Answered]
         /\ request'[j] = l
         /\ \A i \in Jobs \ {j} : request'[i] = request[i]
  BY DEF Move, TypeOK

\* An XADD puts one message behind the others.
LEMMA AddMessageKeeps ==
  ASSUME TypeOK, NEW j \in Jobs, AddMessage(j)
  PROVE  queue' \in Seq(Jobs) /\ ToSet(queue') = ToSet(queue) \cup {j}
  BY ToSetAppend, AppendProperties DEF AddMessage, TypeOK

\* Whatever is abroad is a job.
LEMMA AbroadJobs ==
  ASSUME TypeOK
  PROVE  Abroad \subseteq Jobs
<1>1. ToSet(queue) \subseteq Jobs /\ ToSet(reports) \subseteq Report /\ ToSet(open) \subseteq Report
  BY ToSetOf DEF TypeOK
<1>2. \A r \in InWork \cup ToSet(reports) \cup ToSet(open) : r.job \in Jobs
  BY <1>1 DEF Report, InWork
<1> QED BY <1>1, <1>2 DEF Abroad

\* No row is taken away, so what was abroad before goes on finding its row.
LEMMA AbroadKept ==
  ASSUME TypeOK, RowBeforeMessage,
         \A j \in Jobs : Present(j) => Present(j)',
         \A j \in Abroad' : j \in Abroad \/ (j \in Jobs /\ Present(j))
  PROVE  RowBeforeMessage'
  BY AbroadJobs DEF RowBeforeMessage

-----------------------------------------------------------------------------
(***************************************************************************)
(* Every step                                                              *)
(***************************************************************************)

\* The invariant: what may come abroad next is in the table too.
Inv == TypeOK /\ InHandPresent /\ RowBeforeMessage

\* Nothing is abroad at first.
LEMMA InitInv == Init => Inv
<1>1. Init => TypeOK
  BY DEF Init, TypeOK
<1>2. Init => InHandPresent
  BY DEF Init, InHandPresent
<1>3. Init => RowBeforeMessage
  <2>1. Init => InWork = {}
    BY DEF Init, InWork
  <2> QED BY <2>1, ToSetEmpty DEF Init, RowBeforeMessage, Abroad
<1> QED BY <1>1, <1>2, <1>3 DEF Inv

\* A POST commits its row before it sends the message.
LEMMA RequestKeeps ==
  ASSUME Inv, NEW j \in Jobs, Request(j)
  PROVE  Inv'
<1>0. /\ TypeOK /\ InHandPresent /\ RowBeforeMessage
      /\ faults \in Nat
      /\ {"202", "503", "500", "dropped"} = Answered
  BY DEF Inv, TypeOK, FaultKind, Answered
<1>1. CASE Insert(j)
  <2>0. UNCHANGED <<old, queue, misled, posted, checkerVars, restVars>>
    BY <1>1 DEF Insert
  <2>1. /\ faults' \in Nat
        /\ db' \in [Jobs -> Status \cup {"absent"}]
        /\ \A i \in Jobs : Present(i) => Present(i)'
        /\ (Move(j, "inserted") /\ Present(j)') \/ Move(j, "500")
    BY <1>0, <1>1, DbFailsCounts DEF Insert, TypeOK, Present, Status
  <2>2. /\ request' \in [Jobs -> {"new", "inserted", "failed"} \cup Answered]
        /\ \A i \in Jobs \ {j} : request'[i] = request[i]
        /\ (request'[j] = "inserted" /\ Present(j)') \/ request'[j] = "500"
    BY <1>0, <2>1, MoveTyped
  <2>3. TypeOK'
    BY <1>0, <2>0, <2>1, <2>2 DEF TypeOK, checkerVars, restVars, workerVars, consumerVars
  <2>4. InHandPresent'
    BY <1>0, <2>0, <2>1, <2>2 DEF InHandPresent, TypeOK, checkerVars
  <2>5. \A i \in Abroad' : i \in Abroad
    BY <2>0 DEF Abroad, InWork, restVars, workerVars, consumerVars
  <2>6. RowBeforeMessage'
    BY <1>0, <2>1, <2>5, AbroadKept
  <2> QED BY <2>3, <2>4, <2>6 DEF Inv
<1>2. CASE Publish(j)
  <2>0. /\ Present(j)
        /\ UNCHANGED <<db, old, posted, checkerVars, restVars>>
        /\ misled' \subseteq misled \cup {j}
    BY <1>0, <1>2 DEF Publish, InHandPresent
  <2>1. /\ faults' \in Nat
        /\ AddMessage(j) \/ UNCHANGED queue
        /\ Move(j, "202") \/ Move(j, "failed")
    BY <1>0, <1>2, SufferCounts DEF Publish
  <2>2. /\ request' \in [Jobs -> {"new", "inserted", "failed"} \cup Answered]
        /\ \A i \in Jobs \ {j} : request'[i] = request[i]
    BY <1>0, <2>1, MoveTyped
  <2>3. queue' \in Seq(Jobs) /\ ToSet(queue') \subseteq ToSet(queue) \cup {j}
    BY <1>0, <2>1, AddMessageKeeps DEF TypeOK
  <2>4. TypeOK'
    BY <1>0, <2>0, <2>1, <2>2, <2>3 DEF TypeOK, checkerVars, restVars, workerVars, consumerVars
  <2>5. InHandPresent'
    BY <1>0, <2>0, <2>2 DEF InHandPresent, Present, checkerVars
  <2>6. \A i \in Abroad' : i \in Abroad \/ i = j
    BY <2>0, <2>3 DEF Abroad, InWork, restVars, workerVars, consumerVars
  <2>7. \A i \in Jobs : Present(i) => Present(i)'
    BY <2>0 DEF Present
  <2>8. RowBeforeMessage'
    BY <1>0, <2>0, <2>6, <2>7, AbroadKept
  <2> QED BY <2>4, <2>5, <2>8 DEF Inv
<1>3. CASE MarkPublishFailed(j) \/ ApiDies(j)
  <2>0. /\ Present(j)
        /\ UNCHANGED <<queue, misled, posted, checkerVars, restVars>>
    BY <1>0, <1>3 DEF MarkPublishFailed, ApiDies, InHandPresent
  <2>1. /\ faults' \in Nat
        /\ SetStatus(j, "publish_failed") \/ UNCHANGED <<db, old>>
        /\ Move(j, "503") \/ Move(j, "500") \/ Move(j, "dropped")
    BY <1>0, <1>3, SufferCounts, DbFailsCounts DEF MarkPublishFailed, ApiDies
  <2>2. /\ request' \in [Jobs -> {"new", "inserted", "failed"} \cup Answered]
        /\ \A i \in Jobs \ {j} : request'[i] = request[i]
    BY <1>0, <2>1, MoveTyped
  <2>3. /\ db' \in [Jobs -> Status \cup {"absent"}] /\ old' \subseteq old
        /\ \A i \in Jobs : Present(i) => Present(i)'
    <3>1. CASE SetStatus(j, "publish_failed")
      BY <1>0, <3>1, SetStatusKeeps DEF Status
    <3>2. CASE UNCHANGED <<db, old>>
      BY <1>0, <3>2 DEF TypeOK, Present
    <3> QED BY <2>1, <3>1, <3>2
  <2>4. TypeOK'
    BY <1>0, <2>0, <2>1, <2>2, <2>3 DEF TypeOK, checkerVars, restVars, workerVars, consumerVars
  <2>5. InHandPresent'
    BY <1>0, <2>0, <2>2, <2>3 DEF InHandPresent, TypeOK, checkerVars
  <2>6. \A i \in Abroad' : i \in Abroad
    BY <2>0 DEF Abroad, InWork, restVars, workerVars, consumerVars
  <2>7. RowBeforeMessage'
    BY <1>0, <2>3, <2>6, AbroadKept
  <2> QED BY <2>4, <2>5, <2>7 DEF Inv
<1> QED BY <1>1, <1>2, <1>3 DEF Request

\* The checker sends only messages of rows it has read.
LEMMA CheckerKeeps ==
  ASSUME Inv, Checker
  PROVE  Inv'
<1>0. /\ TypeOK /\ InHandPresent /\ RowBeforeMessage
      /\ faults \in Nat
  BY DEF Inv, TypeOK
<1>1. UNCHANGED <<requestVars, restVars>>
  BY DEF Checker, CheckerStart, CheckerMark, CheckerDone, CheckerFails, CheckerDies, CheckerPublish,
     CheckerSkip, CheckerEnd
<1>2. /\ faults' \in Nat
      /\ checker' \in {"idle", "scan", "mark"}
      /\ snapshot' \subseteq Jobs /\ current' \subseteq Jobs
      /\ \A j \in snapshot' \cup current' : Present(j)
  <2>1. CASE CheckerStart
    BY <1>0, <2>1 DEF CheckerStart, TypeOK, InHandPresent, Stuck, Present
  <2>2. ASSUME NEW j \in Jobs, CheckerPublish(j) \/ CheckerSkip(j)
        PROVE  /\ faults' \in Nat
               /\ checker' \in {"idle", "scan", "mark"}
               /\ snapshot' \subseteq snapshot /\ current' \subseteq current \cup {j}
               /\ j \in snapshot
    BY <1>0, <2>2, SufferCounts DEF CheckerPublish, CheckerSkip, TypeOK
  <2>3. CASE CheckerMark
    BY <1>0, <2>3 DEF CheckerMark, TypeOK, InHandPresent
  <2>4. CASE CheckerDone \/ CheckerFails \/ CheckerDies
    BY <1>0, <2>4, SufferCounts, DbFailsCounts DEF CheckerDone, CheckerFails, CheckerDies, CheckerEnd
  <2> QED BY <1>0, <2>1, <2>2, <2>3, <2>4 DEF Checker, TypeOK, InHandPresent
<1>3. /\ db' \in [Jobs -> Status \cup {"absent"}] /\ old' \subseteq old
      /\ \A i \in Jobs : Present(i) => Present(i)'
  <2>1. CASE CheckerMark
    <3>1. PICK j \in current : SetStatus(j, "queued")
      BY <2>1 DEF CheckerMark
    <3>2. j \in Jobs /\ "queued" \in Status
      BY <1>0 DEF TypeOK, Status
    <3> QED BY <1>0, <3>1, <3>2, SetStatusKeeps
  <2>2. CASE ~ CheckerMark
    <3>1. UNCHANGED <<db, old>>
      BY <2>2 DEF Checker, CheckerStart, CheckerDone, CheckerFails, CheckerDies, CheckerPublish,
         CheckerSkip, CheckerEnd
    <3> QED BY <1>0, <3>1 DEF TypeOK, Present
  <2> QED BY <2>1, <2>2
<1>4. queue' \in Seq(Jobs) /\ ToSet(queue') \subseteq ToSet(queue) \cup snapshot
  <2>1. ASSUME NEW j \in Jobs, CheckerPublish(j)
        PROVE  queue' \in Seq(Jobs) /\ ToSet(queue') \subseteq ToSet(queue) \cup snapshot
    BY <1>0, <2>1, AddMessageKeeps DEF CheckerPublish
  <2>2. CASE ~ \E j \in Jobs : CheckerPublish(j)
    <3>1. queue' = queue
      BY <2>2 DEF Checker, CheckerStart, CheckerMark, CheckerDone, CheckerFails, CheckerDies,
         CheckerSkip, CheckerEnd
    <3> QED BY <1>0, <3>1 DEF TypeOK
  <2> QED BY <2>1, <2>2
<1>10. resent' \subseteq Jobs
  BY <1>0 DEF TypeOK, Checker, CheckerStart, CheckerMark, CheckerDone, CheckerFails, CheckerDies,
     CheckerPublish, CheckerSkip, CheckerEnd
<1>5. TypeOK'
  BY <1>0, <1>1, <1>2, <1>3, <1>4, <1>10 DEF TypeOK, requestVars, restVars, workerVars, consumerVars
<1>6. InHandPresent'
  BY <1>0, <1>1, <1>2, <1>3 DEF InHandPresent, TypeOK, requestVars
<1>7. Abroad' \subseteq Abroad \cup snapshot
  BY <1>1, <1>4 DEF Abroad, InWork, restVars, workerVars, consumerVars
<1>8. \A j \in Abroad' : j \in Abroad \/ (j \in Jobs /\ Present(j))
  BY <1>0, <1>7 DEF TypeOK, InHandPresent
<1>9. RowBeforeMessage'
  BY <1>0, <1>3, <1>8, AbroadKept
<1> QED BY <1>5, <1>6, <1>9 DEF Inv

\* A step that brings no other job abroad.
LEMMA OthersKeep ==
  ASSUME Inv,
         db' \in [Jobs -> Status \cup {"absent"}], old' \subseteq {j \in Jobs : Present(j)},
         \A i \in Jobs : Present(i) => Present(i)', UNCHANGED <<request, misled, checkerVars>>,
         queue' \in Seq(Jobs), reports' \in Seq(Report), open' \in Seq(Report),
         working' \in [Report -> Nat], saved' \in [Report -> Nat],
         posted' \subseteq Jobs, delayed' \subseteq Jobs, lost' \subseteq Jobs, faults' \in Nat,
         Abroad' \subseteq Abroad
  PROVE  Inv'
<1>0. TypeOK /\ InHandPresent /\ RowBeforeMessage
  BY DEF Inv
<1>1. TypeOK'
  BY <1>0 DEF TypeOK, checkerVars
<1>2. InHandPresent'
  BY <1>0 DEF InHandPresent, TypeOK, checkerVars
<1>3. \A i \in Abroad' : i \in Abroad
  OBVIOUS
<1>4. RowBeforeMessage'
  BY <1>0, <1>3, AbroadKept
<1> QED BY <1>1, <1>2, <1>4 DEF Inv

\* An administrator, time and trims.
LEMMA RestKeeps ==
  ASSUME Inv,
         \/ \E j \in Jobs, s \in Posted : UpdateJobStatus(j, s)
         \/ \E j \in Jobs : Age(j)
         \/ Evict
  PROVE  Inv'
<1>0. /\ TypeOK /\ InHandPresent /\ RowBeforeMessage
      /\ faults \in Nat
      /\ queue \in Seq(Jobs) /\ reports \in Seq(Report) /\ open \in Seq(Report)
      /\ UNCHANGED <<request, misled, checkerVars, restVars>>
  BY DEF Inv, TypeOK, UpdateJobStatus, Age, Evict, requestVars
<1>1. /\ reports' \in Seq(Report) /\ open' \in Seq(Report)
      /\ working' \in [Report -> Nat] /\ saved' \in [Report -> Nat]
      /\ delayed' \subseteq Jobs /\ lost' \subseteq Jobs
  BY <1>0 DEF TypeOK, restVars, workerVars, consumerVars
<1>2. CASE \E j \in Jobs, s \in Posted : UpdateJobStatus(j, s)
  <2>1. PICK j \in Jobs, s \in Posted : UpdateJobStatus(j, s)
    BY <1>2
  <2>2. s \in Status /\ SetStatus(j, s) /\ faults' \in Nat
        /\ UNCHANGED queue /\ posted' = posted \cup {j}
    BY <1>0, <2>1, SufferCounts DEF UpdateJobStatus, AllowedStatuses, Status
  <2>3. /\ db' \in [Jobs -> Status \cup {"absent"}] /\ old' \subseteq old
        /\ \A i \in Jobs : Present(i) => Present(i)'
    BY <1>0, <2>2, SetStatusKeeps
  <2>4. Abroad' = Abroad
    BY <1>0, <2>2 DEF Abroad, InWork, restVars, workerVars, consumerVars
  <2>5. old' \subseteq {i \in Jobs : Present(i)} /\ posted' \subseteq Jobs
    BY <1>0, <2>2, <2>3 DEF TypeOK, InHandPresent
  <2>6. queue' \in Seq(Jobs)
    BY <1>0, <2>2
  <2> QED BY <1>0, <1>1, <2>2, <2>3, <2>4, <2>5, <2>6, OthersKeep
<1>3. CASE \E j \in Jobs : Age(j)
  <2>1. /\ old' \subseteq {j \in Jobs : Present(j)}
        /\ UNCHANGED <<db, queue, posted, faults>>
    BY <1>0, <1>3 DEF Age, InHandPresent, Present, requestVars
  <2>2. Abroad' = Abroad /\ \A i \in Jobs : Present(i) => Present(i)'
    BY <1>0, <2>1 DEF Abroad, InWork, Present, restVars, workerVars, consumerVars
  <2>3. db' \in [Jobs -> Status \cup {"absent"}] /\ posted' \subseteq Jobs
    BY <1>0, <2>1 DEF TypeOK
  <2> QED BY <1>0, <1>1, <2>1, <2>2, <2>3, OthersKeep
<1>4. CASE Evict
  <2>1. /\ queue # <<>> /\ queue' = Tail(queue) /\ faults' \in Nat
        /\ UNCHANGED <<db, old, posted>>
    <3>1. queue # <<>>
      BY <1>4, ApiAssumption DEF Evict
    <3> QED BY <1>0, <1>4, <3>1, SufferCounts DEF Evict, requestVars
  <2>2. queue' \in Seq(Jobs) /\ ToSet(queue') \subseteq ToSet(queue)
    BY <1>0, <2>1, ToSetHeadTail, HeadTailProperties
  <2>3. Abroad' \subseteq Abroad /\ \A i \in Jobs : Present(i) => Present(i)'
    BY <1>0, <2>1, <2>2 DEF Abroad, InWork, Present, restVars, workerVars, consumerVars
  <2>4. /\ db' \in [Jobs -> Status \cup {"absent"}] /\ posted' \subseteq Jobs
        /\ old' \subseteq {i \in Jobs : Present(i)}
    BY <1>0, <2>1 DEF TypeOK, InHandPresent
  <2> QED BY <1>0, <1>1, <2>1, <2>2, <2>3, <2>4, OthersKeep
<1> QED BY <1>2, <1>3, <1>4

Worker == WorkerTakes \/ WorkerDies \/ \E r \in Report : WorkerReports(r) \/ Replay(r)

\* The worker has jobs whose messages it has read.
LEMMA WorkerKeeps ==
  ASSUME Inv, Worker
  PROVE  Inv'
<1>0. /\ TypeOK /\ InHandPresent
      /\ faults \in Nat /\ lost \subseteq Jobs /\ delayed \subseteq Jobs
      /\ queue \in Seq(Jobs) /\ reports \in Seq(Report) /\ open \in Seq(Report)
      /\ working \in [Report -> Nat] /\ saved \in [Report -> Nat]
      /\ UNCHANGED <<db, old, request, misled, posted, checkerVars, open>>
  BY DEF Inv, TypeOK, Worker, WorkerTakes, WorkerDies, WorkerReports, Replay, requestVars, consumerVars
<1>1. /\ db' \in [Jobs -> Status \cup {"absent"}] /\ old' \subseteq {j \in Jobs : Present(j)}
      /\ \A i \in Jobs : Present(i) => Present(i)'
      /\ posted' \subseteq Jobs /\ open' \in Seq(Report)
  BY <1>0 DEF TypeOK, InHandPresent, Present
<1>2. CASE WorkerTakes
  <2> DEFINE h == Head(queue)
  <2>1. /\ queue # <<>> /\ queue' = Tail(queue)
        /\ \E r \in First(h) : working' = [working EXCEPT ![r] = @ + 1]
        /\ UNCHANGED <<saved, delayed, reports, lost, faults>>
    BY <1>2 DEF WorkerTakes, consumerVars
  <2>2. /\ h \in Jobs /\ queue' \in Seq(Jobs) /\ ToSet(queue) = {h} \cup ToSet(queue')
    BY <1>0, <2>1, ToSetHeadTail, HeadTailProperties
  <2> HIDE DEF h
  <2>3. PICK r \in First(h) : working' = [working EXCEPT ![r] = @ + 1]
    BY <2>1
  <2>4. r \in Report /\ r.job = h
    BY <2>2, <2>3, RunReports
  <2>5. working' \in [Report -> Nat] /\ InWork' \subseteq InWork \cup {r}
    <3>1. working[r] + 1 \in Nat /\ \A q \in Report \ {r} : working'[q] = working[q]
      BY <1>0, <2>3, <2>4
    <3>2. working' \in [Report -> Nat]
      BY <1>0, <2>3, <3>1
    <3> QED BY <2>1, <3>1, <3>2 DEF InWork
  <2>6. Abroad' \subseteq Abroad
    BY <1>0, <2>1, <2>2, <2>4, <2>5 DEF Abroad
  <2> QED BY <1>0, <1>1, <2>1, <2>2, <2>5, <2>6, OthersKeep
<1>3. CASE WorkerDies
  <2>1. PICK kept \in SUBSET {r \in Report : r.status = "dead"} :
          /\ working' = [r \in Report |-> IF r \in kept THEN working[r] ELSE 0]
          /\ lost' = lost \cup Ends({r \in Report \ kept : working[r] > 0})
    BY <1>3 DEF WorkerDies
  <2>2. faults' \in Nat /\ UNCHANGED <<queue, saved, delayed, reports>>
    BY <1>0, <1>3, SufferCounts DEF WorkerDies, consumerVars
  <2>3. working' \in [Report -> Nat] /\ InWork' \subseteq InWork
    BY <1>0, <2>1, <2>2 DEF InWork
  <2>4. lost' \subseteq Jobs
    BY <1>0, <2>1, EndsJobs
  <2>5. Abroad' \subseteq Abroad
    BY <1>0, <2>2, <2>3 DEF Abroad
  <2> QED BY <1>0, <1>1, <2>2, <2>3, <2>4, <2>5, OthersKeep
<1>4. ASSUME NEW r \in Report, WorkerReports(r) \/ Replay(r)
      PROVE  Inv'
  <2> DEFINE e == EndOf(r.job)
  <2>1. r.job \in Jobs /\ e \in Report /\ e.job = r.job
    BY RunReports DEF Report
  <2> HIDE DEF e
  <2>2. r \in InWork /\ UNCHANGED queue
    BY <1>0, <1>4 DEF WorkerReports, Replay, InWork
  <2>3. /\ working' \in [Report -> Nat]
        /\ \A q \in Report : working'[q] > 0 => working[q] > 0 \/ q = e
    <3>1. CASE WorkerReports(r)
      <4>1. working[r] - 1 \in Nat
        BY <1>0, <3>1 DEF WorkerReports
      <4> QED BY <1>0, <2>1, <3>1, <4>1 DEF WorkerReports, GoesOn, e
    <3>2. CASE Replay(r)
      BY <1>0, <3>2 DEF Replay
    <3> QED BY <1>4, <3>1, <3>2
  <2>4. /\ saved' \in [Report -> Nat]
        /\ \A q \in Report : saved'[q] > 0 => saved[q] > 0 \/ q = r
        /\ faults' \in Nat /\ lost' \subseteq Jobs /\ delayed' \subseteq Jobs
        /\ AddReport(r) \/ UNCHANGED reports
    <3>1. CASE WorkerReports(r)
      <4>1. /\ saved' \in {saved, [saved EXCEPT ![r] = @ + 1]}
            /\ delayed' \in {delayed, delayed \cup Delays(r)}
            /\ lost' \in {lost, lost \cup Ends({r})}
        BY <3>1 DEF WorkerReports, Save
      <4>2. faults' \in Nat /\ (AddReport(r) \/ UNCHANGED reports)
        BY <1>0, <3>1, SufferCounts DEF WorkerReports
      <4>3. /\ saved' \in [Report -> Nat]
            /\ \A q \in Report : saved'[q] > 0 => saved[q] > 0 \/ q = r
        <5>1. CASE saved' = saved
          BY <1>0, <5>1
        <5>2. CASE saved' = [saved EXCEPT ![r] = @ + 1]
          BY <1>0, <5>2
        <5> QED BY <4>1, <5>1, <5>2
      <4>4. Delays(r) \subseteq Jobs
        BY <2>1 DEF Delays
      <4>5. lost' \subseteq Jobs /\ delayed' \subseteq Jobs
        BY <1>0, <4>1, <4>4, EndsJobs
      <4> QED BY <4>2, <4>3, <4>5
    <3>2. CASE Replay(r)
      <4>1. saved[r] - 1 \in Nat
        BY <1>0, <3>2 DEF Replay
      <4> QED BY <1>0, <3>2, <4>1, SufferCounts DEF Replay
    <3> QED BY <1>4, <3>1, <3>2
  <2>5. reports' \in Seq(Report) /\ ToSet(reports') \subseteq ToSet(reports) \cup {r}
    <3>1. Append(reports, r) \in Seq(Report) /\ ToSet(Append(reports, r)) = ToSet(reports) \cup {r}
      BY <1>0, ToSetAppend, AppendProperties
    <3> QED BY <1>0, <2>4, <3>1 DEF AddReport
  <2>6. InWork' \subseteq InWork \cup {r, e}
    BY <1>0, <2>3, <2>4 DEF InWork
  <2>7. Abroad' \subseteq Abroad
    BY <1>0, <2>1, <2>2, <2>5, <2>6 DEF Abroad
  <2>8. queue' \in Seq(Jobs)
    BY <1>0, <2>2
  <2> QED BY <1>0, <1>1, <2>3, <2>4, <2>5, <2>7, <2>8, OthersKeep
<1> QED BY <1>2, <1>3, <1>4 DEF Worker

Consumer == ConsumerCommits \/ ConsumerFails \/ ConsumerForgets

\* The status consumer has statuses it has read.
LEMMA ConsumerKeeps ==
  ASSUME Inv, Consumer
  PROVE  Inv'
<1>0. /\ TypeOK /\ InHandPresent
      /\ faults \in Nat /\ lost \subseteq Jobs
      /\ db \in [Jobs -> Status \cup {"absent"}]
      /\ queue \in Seq(Jobs) /\ reports \in Seq(Report) /\ open \in Seq(Report)
      /\ UNCHANGED <<queue, request, misled, posted, checkerVars, working, saved, delayed>>
  BY DEF Inv, TypeOK, Consumer, ConsumerCommits, ConsumerFails, ConsumerForgets, requestVars, workerVars
<1>1. /\ queue' \in Seq(Jobs) /\ posted' \subseteq Jobs /\ delayed' \subseteq Jobs
      /\ working' \in [Report -> Nat] /\ saved' \in [Report -> Nat]
  BY <1>0 DEF TypeOK
<1>2. InWork' = InWork
  BY <1>0 DEF InWork
<1>3. CASE ConsumerCommits \/ ConsumerFails
  <2> DEFINE r == Head(reports)
  <2>1. reports # <<>> /\ reports' = Tail(reports)
    BY <1>3 DEF ConsumerCommits, ConsumerFails
  <2>2. /\ r \in ToSet(reports) /\ r \in Report
        /\ reports' \in Seq(Report) /\ ToSet(reports') \subseteq ToSet(reports)
    BY <1>0, <2>1, ToSetHeadTail, HeadTailProperties
  <2> HIDE DEF r
  <2>3. /\ Append(open, r) \in Seq(Report) /\ ToSet(Append(open, r)) = ToSet(open) \cup {r}
        /\ <<>> \in Seq(Report) /\ ToSet(<<>>) = {}
    BY <1>0, <2>2, ToSetAppend, ToSetEmpty, AppendProperties
  <2>4. /\ open' \in {<<>>, open, Append(open, r)}
        /\ faults' \in Nat
    BY <1>0, <1>3, SufferCounts DEF ConsumerCommits, ConsumerFails, r
  <2>5. lost' \subseteq Jobs
    BY <1>0, <1>3, <2>2, EndsJobs DEF ConsumerCommits, ConsumerFails, r
  <2>6. open' \in Seq(Report) /\ ToSet(open') \subseteq ToSet(open) \cup {r}
    BY <1>0, <2>3, <2>4
  <2>7. Abroad' \subseteq Abroad
    BY <1>0, <1>2, <2>2, <2>6 DEF Abroad
  <2>8. /\ db' \in [Jobs -> Status \cup {"absent"}] /\ old' \subseteq old
        /\ \A i \in Jobs : Present(i) => Present(i)'
    <3>1. CASE ConsumerCommits
      <4>1. db' = Committed(db, Append(open, r)) /\ old' \subseteq old
        BY <3>1 DEF ConsumerCommits, r
      <4>2. Append(open, r) \in Seq([job : Jobs, status : Status])
        BY <2>3, ReportsUpdate
      <4>3. /\ Committed(db, Append(open, r)) \in [Jobs -> Status \cup {"absent"}]
            /\ \A i \in Jobs : db[i] # "absent" <=> Committed(db, Append(open, r))[i] # "absent"
        BY <1>0, <4>2, CommittedKeeps
      <4> QED BY <4>1, <4>3 DEF Present
    <3>2. CASE ConsumerFails
      BY <1>0, <3>2 DEF ConsumerFails, Present
    <3> QED BY <1>3, <3>1, <3>2
  <2>9. old' \subseteq {i \in Jobs : Present(i)}
    BY <1>0, <2>8 DEF InHandPresent
  <2> QED BY <1>0, <1>1, <2>2, <2>4, <2>5, <2>6, <2>7, <2>8, <2>9, OthersKeep
<1>4. CASE ConsumerForgets
  <2>1. PICK n \in 0 .. Len(reports) :
          /\ reports' = SubSeq(reports, n + 1, Len(reports))
          /\ lost' = lost \cup Ends({reports[m] : m \in 1 .. n})
    BY <1>4 DEF ConsumerForgets
  <2>2. reports' \in Seq(Report) /\ ToSet(reports') \subseteq ToSet(reports)
    BY <1>0, <2>1, SuffixOf
  <2>3. {reports[m] : m \in 1 .. n} \subseteq Report
    BY <1>0
  <2>4. lost' \subseteq Jobs
    BY <1>0, <2>1, <2>3, EndsJobs
  <2>5. /\ UNCHANGED <<db, old>> /\ faults' \in Nat
        /\ open' \in Seq(Report) /\ ToSet(open') \subseteq ToSet(open)
    <3>1. open' \in {<<>>, open} /\ <<>> \in Seq(Report)
      BY <1>4 DEF ConsumerForgets
    <3>2. UNCHANGED <<db, old>> /\ faults' \in Nat
      BY <1>0, <1>4, SufferCounts DEF ConsumerForgets
    <3> QED BY <1>0, <3>1, <3>2, ToSetEmpty
  <2>6. Abroad' \subseteq Abroad
    BY <1>0, <1>2, <2>2, <2>5 DEF Abroad
  <2>7. /\ db' \in [Jobs -> Status \cup {"absent"}] /\ old' \subseteq {i \in Jobs : Present(i)}
        /\ \A i \in Jobs : Present(i) => Present(i)'
    BY <1>0, <2>5 DEF InHandPresent, Present
  <2> QED BY <1>0, <1>1, <2>2, <2>4, <2>5, <2>6, <2>7, OthersKeep
<1> QED BY <1>3, <1>4 DEF Consumer

\* Every step keeps the invariant.
LEMMA StepInv ==
  ASSUME Inv, [Next]_vars
  PROVE  Inv'
<1>1. CASE UNCHANGED vars
  BY <1>1 DEF vars, requestVars, checkerVars, restVars, workerVars, consumerVars, Inv, TypeOK,
     InHandPresent, RowBeforeMessage, Abroad, InWork, Present
<1> QED BY <1>1, RequestKeeps, CheckerKeeps, RestKeeps, WorkerKeeps, ConsumerKeeps
        DEF Next, Worker, Consumer

(***************************************************************************)
(* The variables keep their types; among others, a row only ever shows a   *)
(* status the table knows.                                                 *)
(***************************************************************************)
THEOREM ApiTypeCorrect == Spec => []TypeOK
<1>1. Inv => TypeOK
  BY DEF Inv
<1> QED BY InitInv, StepInv, <1>1, PTL DEF Spec

(***************************************************************************)
(* Whatever carries a job's id outside the table finds its row there       *)
(* (enqueue_job, publish_failed_checker.main).                             *)
(***************************************************************************)
THEOREM RowsComeFirst == Spec => []RowBeforeMessage
<1>1. Inv => RowBeforeMessage
  BY DEF Inv
<1> QED BY InitInv, StepInv, <1>1, PTL DEF Spec

-----------------------------------------------------------------------------
(***************************************************************************)
(* The way of a job that is sent once                                      *)
(***************************************************************************)

\* Where the statuses of such a job are on their way to its row.
Reported(j) == {r \in ToSet(open) \cup ToSet(reports) : r.job = j}

\* The worker has nothing of the job, and nothing of it is on its way.
Quiet(j) ==
  /\ Reported(j) = {}
  /\ \A r \in Report : r.job = j => working[r] = 0 /\ saved[r] = 0

\* `processing' is only ever the first of a job's statuses.
InLine(j, seq) ==
  \A m, n \in DOMAIN seq : m < n /\ seq[m].job = j /\ seq[n].job = j => seq[n].status # "processing"

QueuedOnce(j, seq) == \A m, n \in DOMAIN seq : seq[m] = j /\ seq[n] = j => m = n

\* Nothing is heard of the job before its request is answered 202, and an
\* unanswered request finds the row as it left it.
RequestShape(j) ==
  /\ request[j] = "new" => db[j] = "absent"
  /\ request[j] \in {"inserted", "failed"} => db[j] = "queued"
  /\ request[j] # "202" => j \notin ToSet(queue) /\ Quiet(j)
  /\ request[j] = "202" => db[j] \in {"queued", "processing", EndOf(j).status}

\* Its message is there once, and before any of its statuses.
MessageShape(j) ==
  /\ QueuedOnce(j, queue)
  /\ j \in ToSet(queue) => db[j] = "queued" /\ Quiet(j)

\* It runs once, and reports `processing', if at all, before any of its ends.
WorkShape(j) ==
  /\ \A r \in Report : r.job = j /\ working[r] > 0 => r \in {Start(j), EndOf(j)}
  /\ \A r \in Report : r.job = j /\ saved[r] > 0 => r = EndOf(j)
  /\ working[Start(j)] > 0 =>
       /\ working[Start(j)] = 1 /\ db[j] = "queued" /\ Reported(j) = {}
       /\ working[EndOf(j)] = 0 /\ saved[EndOf(j)] = 0

\* Each status on its way may follow what the row shows, and what is before it.
ReportShape(j) ==
  /\ \A r \in Reported(j) : r \in {Start(j), EndOf(j)} /\ (r = Start(j) => db[j] = "queued")
  /\ \A r \in ToSet(open), q \in ToSet(reports) :
       r.job = j /\ q.job = j => q.status # "processing"
  /\ InLine(j, reports)

OnceShape(j) == RequestShape(j) /\ MessageShape(j) /\ WorkShape(j) /\ ReportShape(j)

\* The checker marks only what it has sent.
MarkShape == current \subseteq resent

FlowInv == Inv /\ MarkShape /\ \A j \in Jobs : SentOnce(j) => OnceShape(j)

\* What a step may do to a row.
Flows(j) == db'[j] = db[j] \/ <<db[j], db'[j]>> \in Flow

\* A status behind the others.
LEMMA InLineAppend ==
  ASSUME NEW j, NEW s \in Seq(Report), NEW x \in Report, InLine(j, s),
         x.job = j => x.status # "processing" \/ \A r \in ToSet(s) : r.job # j
  PROVE  InLine(j, Append(s, x))
<1>1. /\ DOMAIN s = 1 .. Len(s) /\ Len(s) \in Nat
      /\ DOMAIN Append(s, x) = 1 .. Len(s) + 1
      /\ \A i \in 1 .. Len(s) : Append(s, x)[i] = s[i]
      /\ Append(s, x)[Len(s) + 1] = x
  BY AppendProperties
<1>2. \A i \in 1 .. Len(s) : s[i] \in ToSet(s)
  BY <1>1 DEF ToSet
<1> DEFINE t == Append(s, x)
<1> HIDE DEF t
<1> SUFFICES ASSUME NEW m \in DOMAIN t, NEW n \in DOMAIN t, m < n, t[m].job = j, t[n].job = j
             PROVE  t[n].status # "processing"
  BY DEF InLine, t
<1>3. m \in 1 .. Len(s) /\ t[m] = s[m]
  BY <1>1 DEF t
<1>4. CASE n \in 1 .. Len(s)
  BY <1>1, <1>3, <1>4 DEF InLine, t
<1>5. CASE n = Len(s) + 1
  <2>1. t[n] = x
    BY <1>1, <1>5 DEF t
  <2> QED BY <1>2, <1>3, <2>1
<1> QED BY <1>1, <1>4, <1>5 DEF t

\* One report, or none, behind the others.
LEMMA OneMore ==
  ASSUME NEW j, NEW s \in Seq(Report), NEW x \in Report, NEW t, t \in {s, Append(s, x)},
         InLine(j, s),
         x.job = j => x.status # "processing" \/ \A r \in ToSet(s) : r.job # j
  PROVE  ToSet(t) \subseteq ToSet(s) \cup {x} /\ InLine(j, t)
<1>1. CASE t = s
  BY <1>1
<1>2. CASE t = Append(s, x)
  <2>1. ToSet(Append(s, x)) = ToSet(s) \cup {x}
    BY ToSetAppend
  <2>2. InLine(j, Append(s, x))
    BY InLineAppend
  <2> QED BY <1>2, <2>1, <2>2
<1> QED BY <1>1, <1>2

\* Without the first of them.
LEMMA InLineSuffix ==
  ASSUME NEW j, NEW s \in Seq(Report), NEW n \in 0 .. Len(s), InLine(j, s)
  PROVE  InLine(j, SubSeq(s, n + 1, Len(s)))
<1> DEFINE t == SubSeq(s, n + 1, Len(s))
<1>1. DOMAIN t = 1 .. Len(s) - n /\ \A m \in DOMAIN t : t[m] = s[m + n] /\ m + n \in DOMAIN s
  BY SuffixOf
<1> HIDE DEF t
<1> SUFFICES ASSUME NEW k \in DOMAIN t, NEW m \in DOMAIN t, k < m, t[k].job = j, t[m].job = j
             PROVE  t[m].status # "processing"
  BY DEF InLine, t
<1>2. k + n < m + n /\ k + n \in DOMAIN s /\ m + n \in DOMAIN s
  BY <1>1
<1> QED BY <1>1, <1>2 DEF InLine

\* Without its first element: the rest are behind that.
LEMMA InLineTail ==
  ASSUME NEW j, NEW s \in Seq(Report), s # <<>>, InLine(j, s)
  PROVE  /\ InLine(j, Tail(s))
         /\ \A q \in ToSet(Tail(s)) : Head(s).job = j /\ q.job = j => q.status # "processing"
<1>1. /\ DOMAIN s = 1 .. Len(s) /\ Len(s) \in Nat /\ Len(s) > 0
      /\ DOMAIN Tail(s) = 1 .. Len(s) - 1
      /\ \A i \in 1 .. Len(s) - 1 : Tail(s)[i] = s[i + 1]
      /\ Head(s) = s[1]
  BY HeadTailProperties
<1> DEFINE t == Tail(s)
<1> HIDE DEF t
<1>2. ASSUME NEW m \in DOMAIN t, NEW n \in DOMAIN t, m < n, t[m].job = j, t[n].job = j
      PROVE  t[n].status # "processing"
  <2>1. /\ t[m] = s[m + 1] /\ t[n] = s[n + 1]
        /\ m + 1 \in DOMAIN s /\ n + 1 \in DOMAIN s /\ m + 1 < n + 1
    BY <1>1, <1>2 DEF t
  <2> QED BY <1>2, <2>1 DEF InLine
<1>3. ASSUME NEW q \in ToSet(t), s[1].job = j, q.job = j
      PROVE  q.status # "processing"
  <2>1. PICK n \in DOMAIN t : q = t[n]
    BY DEF ToSet
  <2>2. q = s[n + 1] /\ n + 1 \in DOMAIN s /\ 1 \in DOMAIN s /\ 1 < n + 1
    BY <1>1, <2>1 DEF t
  <2> QED BY <1>3, <2>2 DEF InLine
<1> QED BY <1>1, <1>2, <1>3 DEF InLine, t

\* A message behind the others.
LEMMA QueuedAppend ==
  ASSUME NEW j \in Jobs, NEW i \in Jobs, NEW s \in Seq(Jobs), QueuedOnce(j, s),
         i # j \/ j \notin ToSet(s)
  PROVE  QueuedOnce(j, Append(s, i))
<1>1. /\ DOMAIN s = 1 .. Len(s) /\ Len(s) \in Nat
      /\ DOMAIN Append(s, i) = 1 .. Len(s) + 1
      /\ \A k \in 1 .. Len(s) : Append(s, i)[k] = s[k]
      /\ Append(s, i)[Len(s) + 1] = i
  BY AppendProperties
<1>2. \A k \in 1 .. Len(s) : s[k] \in ToSet(s)
  BY <1>1 DEF ToSet
<1> DEFINE t == Append(s, i)
<1> HIDE DEF t
<1> SUFFICES ASSUME NEW m \in DOMAIN t, NEW n \in DOMAIN t, t[m] = j, t[n] = j
             PROVE  m = n
  BY DEF QueuedOnce, t
<1>3. CASE i = j
  <2>1. \A k \in 1 .. Len(s) : t[k] # j
    BY <1>1, <1>2, <1>3 DEF t
  <2> QED BY <1>1, <2>1 DEF t
<1>4. CASE i # j
  <2>1. m \in 1 .. Len(s) /\ n \in 1 .. Len(s)
    BY <1>1, <1>4 DEF t
  <2> QED BY <1>1, <2>1 DEF QueuedOnce, t
<1> QED BY <1>3, <1>4

\* The first message taken: it was the only one of its job.
LEMMA QueuedTail ==
  ASSUME NEW j \in Jobs, NEW s \in Seq(Jobs), s # <<>>, QueuedOnce(j, s)
  PROVE  /\ QueuedOnce(j, Tail(s))
         /\ Head(s) = j => j \notin ToSet(Tail(s))
<1>1. /\ DOMAIN s = 1 .. Len(s) /\ Len(s) \in Nat /\ Len(s) > 0
      /\ DOMAIN Tail(s) = 1 .. Len(s) - 1
      /\ \A i \in 1 .. Len(s) - 1 : Tail(s)[i] = s[i + 1]
      /\ Head(s) = s[1]
  BY HeadTailProperties
<1> DEFINE t == Tail(s)
<1> HIDE DEF t
<1>2. ASSUME NEW m \in DOMAIN t, NEW n \in DOMAIN t, t[m] = j, t[n] = j
      PROVE  m = n
  <2>1. /\ s[m + 1] = j /\ s[n + 1] = j
        /\ m + 1 \in DOMAIN s /\ n + 1 \in DOMAIN s
    BY <1>1, <1>2 DEF t
  <2>2. m + 1 = n + 1
    BY <2>1 DEF QueuedOnce
  <2> QED BY <1>1, <2>2 DEF t
<1>3. ASSUME s[1] = j, j \in ToSet(t)
      PROVE  FALSE
  <2>1. PICK n \in DOMAIN t : t[n] = j
    BY <1>3 DEF ToSet
  <2>2. s[n + 1] = j /\ n + 1 \in DOMAIN s /\ 1 \in DOMAIN s /\ n + 1 # 1
    BY <1>1, <2>1 DEF t
  <2> QED BY <1>3, <2>2 DEF QueuedOnce
<1> QED BY <1>1, <1>2, <1>3 DEF QueuedOnce, t

\* What a transaction of a program may do to a row.
Update == [job : Jobs, status : Status]

\* A transaction gives a row it updates a status it contains.
LEMMA CommittedOne ==
  ASSUME NEW rows \in [Jobs -> Status \cup {"absent"}], NEW txn \in Seq(Update), NEW j \in Jobs
  PROVE  \/ Committed(rows, txn)[j] = rows[j]
         \/ \E r \in ToSet(txn) : r.job = j /\ Committed(rows, txn)[j] = r.status
<1> DEFINE S == {n \in DOMAIN txn : txn[n].job = j}
<1>1. S \in SUBSET (1 .. Len(txn)) /\ Len(txn) \in Nat /\ DOMAIN txn = 1 .. Len(txn)
  OBVIOUS
<1>2. CASE Updated(j, txn) /\ rows[j] # "absent"
  <2>1. S # {}
    BY <1>2 DEF Updated
  <2> DEFINE n == Max(S)
  <2>2. n \in S
    BY <1>1, <2>1, LastOf
  <2>3. Committed(rows, txn)[j] = txn[n].status
    BY <1>2 DEF Committed, LastUpdate
  <2> HIDE DEF n
  <2>4. txn[n] \in ToSet(txn) /\ txn[n].job = j
    BY <2>2 DEF ToSet
  <2> QED BY <2>3, <2>4
<1>3. CASE ~ (Updated(j, txn) /\ rows[j] # "absent")
  BY <1>3 DEF Committed
<1> QED BY <1>2, <1>3

\* An UPDATE of another row.
LEMMA SetStatusOther ==
  ASSUME TypeOK, NEW i \in Jobs, NEW j \in Jobs, i # j, NEW s, SetStatus(i, s)
  PROVE  db'[j] = db[j]
<1> DEFINE txn == <<[job |-> i, status |-> s]>>
<1>1. ~ Updated(j, txn)
  BY DEF Updated
<1> HIDE DEF txn
<1>2. db' = Committed(db, txn)
  BY DEF SetStatus, txn
<1> QED BY <1>1, <1>2 DEF Committed, TypeOK

\* An UPDATE of a row.
LEMMA SetStatusOwn ==
  ASSUME TypeOK, NEW j \in Jobs, NEW s \in Status, SetStatus(j, s)
  PROVE  db'[j] \in {db[j], s}
<1> DEFINE r == [job |-> j, status |-> s]
<1>1. r \in Update /\ r.status = s
  BY DEF Update
<1>2. db' = Committed(db, <<r>>)
  BY DEF SetStatus
<1> HIDE DEF r
<1>3. <<r>> \in Seq(Update) /\ ToSet(<<r>>) = {r}
  BY <1>1, ToSetOne
<1>4. db \in [Jobs -> Status \cup {"absent"}]
  BY DEF TypeOK
<1>5. \/ db'[j] = db[j]
      \/ \E x \in ToSet(<<r>>) : x.job = j /\ db'[j] = x.status
  BY <1>2, <1>3, <1>4, CommittedOne
<1> QED BY <1>1, <1>3, <1>5

\* What happened to a job is remembered.
LEMMA SentEarlier ==
  ASSUME Next, NEW j \in Jobs, SentOnce(j)'
  PROVE  SentOnce(j)
<1>1. ASSUME NEW i \in Jobs, Request(i)
      PROVE  misled \subseteq misled' /\ UNCHANGED <<posted, resent, delayed>>
  BY <1>1 DEF Request, Insert, Publish, MarkPublishFailed, ApiDies, checkerVars, restVars, workerVars
<1>2. CASE Checker
  <2>1. resent \subseteq resent' /\ UNCHANGED <<requestVars, restVars>>
    BY <1>2 DEF Checker, CheckerStart, CheckerPublish, CheckerSkip, CheckerMark, CheckerDone,
       CheckerFails, CheckerDies, CheckerEnd
  <2> QED BY <2>1 DEF SentOnce, requestVars, restVars, workerVars
<1>3. CASE Worker
  <2>1. delayed \subseteq delayed' /\ UNCHANGED <<requestVars, checkerVars>>
    BY <1>3 DEF Worker, WorkerTakes, WorkerReports, Replay, WorkerDies, Save
  <2> QED BY <2>1 DEF SentOnce, requestVars, checkerVars
<1>4. CASE Consumer
  BY <1>4 DEF Consumer, ConsumerCommits, ConsumerFails, ConsumerForgets, SentOnce, requestVars,
     checkerVars, workerVars
<1>5. CASE \E i \in Jobs, s \in Posted : UpdateJobStatus(i, s)
  <2>1. posted \subseteq posted' /\ UNCHANGED <<misled, checkerVars, restVars>>
    BY <1>5 DEF UpdateJobStatus
  <2> QED BY <2>1 DEF SentOnce, checkerVars, restVars, workerVars
<1>6. CASE Evict \/ \E i \in Jobs : Age(i)
  BY <1>6 DEF Evict, Age, SentOnce, requestVars, checkerVars, restVars, workerVars
<1>7. CASE \E i \in Jobs : Request(i)
  BY <1>1, <1>7 DEF SentOnce
<1> QED BY <1>2, <1>3, <1>4, <1>5, <1>6, <1>7 DEF Next, Worker, Consumer

\* Nothing new of the job: what is left of what was there has the shape still.
LEMMA LessOfIt ==
  ASSUME NEW j \in Jobs, OnceShape(j), db'[j] = db[j], request'[j] = request[j],
         QueuedOnce(j, queue)', j \in ToSet(queue') => j \in ToSet(queue),
         \A r \in Report : r.job = j =>
           working'[r] \in {0, working[r]} /\ saved'[r] = saved[r],
         Reported(j)' \subseteq Reported(j), InLine(j, reports)',
         \A r \in ToSet(open'), q \in ToSet(reports') :
           r.job = j /\ q.job = j => q.status # "processing"
  PROVE  OnceShape(j)'
<1>0. /\ RequestShape(j) /\ MessageShape(j) /\ WorkShape(j) /\ ReportShape(j)
      /\ Start(j) \in Report /\ Start(j).job = j /\ EndOf(j) \in Report /\ EndOf(j).job = j
  BY RunReports DEF OnceShape
<1>1. Quiet(j) => Quiet(j)'
  BY DEF Quiet
<1>2. RequestShape(j)'
  BY <1>0, <1>1 DEF RequestShape, EndOf
<1>3. MessageShape(j)'
  BY <1>0, <1>1 DEF MessageShape
<1>4. WorkShape(j)'
  BY <1>0 DEF WorkShape, Start, EndOf
<1>5. ReportShape(j)'
  BY <1>0 DEF ReportShape, Start, EndOf
<1> QED BY <1>2, <1>3, <1>4, <1>5 DEF OnceShape

\* Whoever leaves the job and what is on its way alone leaves its shape alone.
LEMMA Untouched ==
  ASSUME NEW j \in Jobs, OnceShape(j), db'[j] = db[j], request'[j] = request[j],
         UNCHANGED <<queue, working, saved, reports, open>>
  PROVE  OnceShape(j)'
<1>1. InLine(j, reports)' /\ QueuedOnce(j, queue)'
  BY DEF OnceShape, MessageShape, ReportShape, InLine, QueuedOnce
<1>2. Reported(j)' = Reported(j)
  BY DEF Reported
<1>3. \A r \in ToSet(open'), q \in ToSet(reports') :
        r.job = j /\ q.job = j => q.status # "processing"
  BY DEF OnceShape, ReportShape
<1> QED BY <1>1, <1>2, <1>3, LessOfIt

\* So does a message of another job.
LEMMA OtherMessage ==
  ASSUME TypeOK, NEW j \in Jobs, NEW i \in Jobs, i # j, OnceShape(j), AddMessage(i),
         db'[j] = db[j], request'[j] = request[j], UNCHANGED <<working, saved, reports, open>>
  PROVE  OnceShape(j)'
<1>1. ToSet(queue') = ToSet(queue) \cup {i}
  BY AddMessageKeeps
<1>2. QueuedOnce(j, queue)'
  <2>1. QueuedOnce(j, queue) /\ queue \in Seq(Jobs)
    BY DEF OnceShape, MessageShape, TypeOK
  <2>2. QueuedOnce(j, Append(queue, i))
    BY <2>1, QueuedAppend
  <2>3. queue' = Append(queue, i)
    BY DEF AddMessage
  <2> QED BY <2>2, <2>3 DEF QueuedOnce
<1>3. InLine(j, reports)'
  BY DEF OnceShape, ReportShape, InLine
<1>4. Reported(j)' = Reported(j)
  BY DEF Reported
<1>5. \A r \in ToSet(open'), q \in ToSet(reports') :
        r.job = j /\ q.job = j => q.status # "processing"
  BY DEF OnceShape, ReportShape
<1> QED BY <1>1, <1>2, <1>3, <1>4, <1>5, LessOfIt

\* A request sends the message of its job once.
LEMMA RequestFlows ==
  ASSUME FlowInv, NEW i \in Jobs, Request(i), NEW j \in Jobs, OnceShape(j), SentOnce(j)'
  PROVE  OnceShape(j)' /\ Flows(j)
<1>0. /\ TypeOK /\ InHandPresent
      /\ RequestShape(j) /\ MessageShape(j) /\ WorkShape(j) /\ ReportShape(j)
      /\ db \in [Jobs -> Status \cup {"absent"}]
      /\ UNCHANGED <<working, saved, reports, open>>
  BY DEF FlowInv, Inv, OnceShape, TypeOK, Request, Insert, Publish, MarkPublishFailed, ApiDies,
     restVars, workerVars, consumerVars
<1>1. ASSUME i # j
      PROVE  OnceShape(j)' /\ Flows(j)
  <2>1. request'[j] = request[j]
    BY <1>0, <1>1 DEF Request, Insert, Publish, MarkPublishFailed, ApiDies, Move, TypeOK
  <2>2. db'[j] = db[j]
    <3>1. CASE \E s : SetStatus(i, s)
      BY <1>0, <1>1, <3>1, SetStatusOther
    <3>2. CASE ~ \E s : SetStatus(i, s)
      BY <1>0, <1>1, <3>2 DEF Request, Insert, Publish, MarkPublishFailed, ApiDies
    <3> QED BY <3>1, <3>2
  <2>3. UNCHANGED queue \/ AddMessage(i)
    BY DEF Request, Insert, Publish, MarkPublishFailed, ApiDies
  <2> QED BY <1>0, <1>1, <2>1, <2>2, <2>3, Untouched, OtherMessage DEF Flows
<1>2. CASE i = j
  <2>1. Quiet(j) => Quiet(j)'
    BY <1>0 DEF Quiet, Reported
  <2>2. Quiet(j) => WorkShape(j)' /\ ReportShape(j)'
    <3> SUFFICES ASSUME Quiet(j) PROVE WorkShape(j)' /\ ReportShape(j)'
      OBVIOUS
    <3>1. Quiet(j)' /\ Start(j) \in Report /\ Start(j).job = j
      BY <2>1, RunReports
    <3>2. WorkShape(j)'
      BY <3>1 DEF WorkShape, Quiet, Start
    <3>3. ReportShape(j)'
      BY <1>0, <3>1 DEF ReportShape, Quiet, InLine
    <3> QED BY <3>2, <3>3
  <2>3. CASE Insert(j)
    <3>1. /\ request[j] = "new" /\ db[j] = "absent"
          /\ j \notin ToSet(queue) /\ Quiet(j)
          /\ UNCHANGED queue
      BY <1>0, <2>3 DEF Insert, RequestShape
    <3>2. \/ db'[j] = "queued" /\ request'[j] = "inserted"
          \/ db'[j] = "absent" /\ request'[j] = "500"
      BY <1>0, <2>3, <3>1 DEF Insert, Move, TypeOK
    <3>3. RequestShape(j)' /\ MessageShape(j)'
      BY <1>0, <2>1, <3>1, <3>2 DEF RequestShape, MessageShape, QueuedOnce
    <3> QED BY <2>2, <3>1, <3>2, <3>3 DEF OnceShape, Flows, Flow
  <2>4. CASE Publish(j)
    <3>1. /\ request[j] = "inserted" /\ db[j] = "queued" /\ db' = db
          /\ j \notin ToSet(queue) /\ Quiet(j)
      BY <1>0, <2>4 DEF Publish, RequestShape
    <3>2. j \notin misled'
      BY DEF SentOnce
    <3>3. CASE AddMessage(j) /\ Move(j, "202")
      <4>1. request'[j] = "202"
        BY <1>0, <3>3 DEF Move, TypeOK
      <4>2. QueuedOnce(j, Append(queue, j)) /\ queue' = Append(queue, j)
        BY <1>0, <3>1, <3>3, QueuedAppend DEF MessageShape, TypeOK, AddMessage
      <4>3. MessageShape(j)'
        BY <2>1, <3>1, <4>2 DEF MessageShape, QueuedOnce
      <4>4. RequestShape(j)'
        BY <3>1, <4>1 DEF RequestShape
      <4> QED BY <2>2, <3>1, <4>3, <4>4 DEF OnceShape, Flows
    <3>4. CASE Move(j, "failed") /\ UNCHANGED queue
      <4>1. request'[j] = "failed"
        BY <1>0, <3>4 DEF Move, TypeOK
      <4>2. MessageShape(j)' /\ RequestShape(j)'
        BY <1>0, <2>1, <3>1, <3>4, <4>1 DEF MessageShape, RequestShape, QueuedOnce
      <4> QED BY <2>2, <3>1, <4>2 DEF OnceShape, Flows
    <3> QED BY <2>4, <3>2, <3>3, <3>4 DEF Publish
  <2>5. CASE MarkPublishFailed(j) \/ ApiDies(j)
    <3>1. /\ request[j] \in {"inserted", "failed"} /\ db[j] = "queued" /\ UNCHANGED queue
          /\ j \notin ToSet(queue) /\ Quiet(j)
      BY <1>0, <2>5 DEF MarkPublishFailed, ApiDies, RequestShape
    <3>2. request'[j] \in {"503", "500", "dropped"}
      BY <1>0, <2>5 DEF MarkPublishFailed, ApiDies, Move, TypeOK
    <3>3. db'[j] \in {"queued", "publish_failed"}
      BY <1>0, <2>5, <3>1, SetStatusOwn DEF MarkPublishFailed, ApiDies, Status
    <3>4. MessageShape(j)' /\ RequestShape(j)'
      BY <1>0, <2>1, <3>1, <3>2 DEF MessageShape, RequestShape, QueuedOnce
    <3> QED BY <2>2, <3>1, <3>3, <3>4 DEF OnceShape, Flows, Flow
  <2> QED BY <1>2, <2>3, <2>4, <2>5 DEF Request
<1> QED BY <1>1, <1>2

\* The checker sends, and marks, other jobs.
LEMMA CheckerFlows ==
  ASSUME FlowInv, Checker, NEW j \in Jobs, OnceShape(j), SentOnce(j)'
  PROVE  OnceShape(j)' /\ Flows(j)
<1>0. /\ TypeOK /\ MarkShape
      /\ UNCHANGED <<request, working, saved, reports, open>>
      /\ current \subseteq Jobs /\ j \notin resent'
  BY DEF FlowInv, Inv, TypeOK, Checker, CheckerStart, CheckerPublish, CheckerSkip, CheckerMark,
     CheckerDone, CheckerFails, CheckerDies, CheckerEnd, requestVars, restVars, workerVars, consumerVars,
     SentOnce
<1>1. CASE CheckerMark
  <2>1. PICK i \in current : SetStatus(i, "queued")
    BY <1>1 DEF CheckerMark
  <2>2. i # j /\ i \in Jobs /\ UNCHANGED queue
    BY <1>0, <1>1 DEF CheckerMark, MarkShape
  <2>3. db'[j] = db[j]
    BY <1>0, <2>1, <2>2, SetStatusOther
  <2> QED BY <1>0, <2>2, <2>3, Untouched DEF Flows
<1>2. ASSUME NEW i \in Jobs, CheckerPublish(i)
      PROVE  OnceShape(j)' /\ Flows(j)
  <2>1. i # j /\ AddMessage(i) /\ UNCHANGED db
    BY <1>0, <1>2 DEF CheckerPublish
  <2> QED BY <1>0, <2>1, OtherMessage DEF Flows
<1>3. CASE ~ CheckerMark /\ ~ \E i \in Jobs : CheckerPublish(i)
  <2>1. UNCHANGED <<db, queue>>
    BY <1>3 DEF Checker, CheckerStart, CheckerSkip, CheckerDone, CheckerFails, CheckerDies, CheckerEnd
  <2> QED BY <1>0, <2>1, Untouched DEF Flows
<1> QED BY <1>1, <1>2, <1>3

\* The end of the job's only run is reported, saved, or reported again.
LEMMA EndReported ==
  ASSUME TypeOK, NEW j \in Jobs, OnceShape(j), request[j] = "202", j \notin ToSet(queue),
         working[Start(j)] = 0, working' \in [Report -> Nat], saved' \in [Report -> Nat],
         \A r \in Report \ {EndOf(j)} : r.job = j => working'[r] = working[r] /\ saved'[r] = saved[r],
         UNCHANGED <<db, request, queue, open>>,
         reports' \in {reports, Append(reports, EndOf(j))}
  PROVE  OnceShape(j)'
<1>0. /\ RequestShape(j) /\ MessageShape(j) /\ WorkShape(j) /\ ReportShape(j)
      /\ reports \in Seq(Report)
  BY DEF OnceShape, TypeOK
<1>1. /\ Start(j) \in Report /\ Start(j).job = j /\ EndOf(j) \in Report /\ EndOf(j).job = j
      /\ Start(j) # EndOf(j) /\ EndOf(j).status # "processing"
  BY RunReports
<1>2. working'[Start(j)] = 0
  BY <1>1
<1>3. RequestShape(j)' /\ MessageShape(j)'
  BY <1>0 DEF RequestShape, MessageShape, EndOf, QueuedOnce
<1>4. WorkShape(j)'
  <2>1. \A r \in Report : r.job = j /\ working'[r] > 0 => r \in {Start(j), EndOf(j)}
    BY <1>0 DEF WorkShape
  <2>2. \A r \in Report : r.job = j /\ saved'[r] > 0 => r = EndOf(j)
    BY <1>0 DEF WorkShape
  <2>3. ~ (working'[Start(j)] > 0)
    BY <1>2
  <2> QED BY <2>1, <2>2, <2>3 DEF WorkShape, Start, EndOf
<1>5. ToSet(reports') \subseteq ToSet(reports) \cup {EndOf(j)} /\ InLine(j, reports')
  <2>1. InLine(j, reports)
    BY <1>0 DEF ReportShape
  <2>2. PICK t : t = reports'
    OBVIOUS
  <2>3. t \in {reports, Append(reports, EndOf(j))}
    BY <1>0, <2>2
  <2>4. ToSet(t) \subseteq ToSet(reports) \cup {EndOf(j)} /\ InLine(j, t)
    BY <1>0, <1>1, <2>1, <2>3, OneMore
  <2> QED BY <2>2, <2>4
<1>6. \A r \in Reported(j)' : r \in Reported(j) \cup {EndOf(j)}
  BY <1>5 DEF Reported
<1>7. /\ \A r \in Reported(j)' : r \in {Start(j), EndOf(j)} /\ (r = Start(j) => db[j] = "queued")
      /\ \A r \in ToSet(open), q \in ToSet(reports') :
           r.job = j /\ q.job = j => q.status # "processing"
  BY <1>0, <1>1, <1>5, <1>6 DEF ReportShape
<1>8. ReportShape(j)'
  <2>1. /\ \A r \in Reported(j)' :
             r \in {Start(j)', EndOf(j)'} /\ (r = Start(j)' => db'[j] = "queued")
        /\ \A r \in ToSet(open'), q \in ToSet(reports') :
             r.job = j /\ q.job = j => q.status # "processing"
        /\ InLine(j, reports)'
    BY <1>5, <1>7 DEF Start, EndOf, InLine
  <2> QED BY <2>1 DEF ReportShape
<1> QED BY <1>3, <1>4, <1>8 DEF OnceShape

\* The worker takes a message: that of the job is the only one.
LEMMA TakesFlows ==
  ASSUME FlowInv, WorkerTakes, NEW j \in Jobs, OnceShape(j)
  PROVE  OnceShape(j)'
<1>0. /\ RequestShape(j) /\ MessageShape(j) /\ WorkShape(j) /\ ReportShape(j)
      /\ queue \in Seq(Jobs) /\ working \in [Report -> Nat]
      /\ queue # <<>> /\ queue' = Tail(queue)
      /\ UNCHANGED <<db, request, saved, reports, open>>
  BY DEF FlowInv, Inv, TypeOK, OnceShape, WorkerTakes, requestVars, consumerVars
<1>1. PICK i : i = Head(queue)
  OBVIOUS
<1>2. /\ i \in Jobs /\ ToSet(queue) = {i} \cup ToSet(queue')
      /\ QueuedOnce(j, queue')
      /\ i = j => j \notin ToSet(queue')
  BY <1>0, <1>1, ToSetHeadTail, HeadTailProperties, QueuedTail DEF MessageShape
<1>3. PICK x \in First(i) : working' = [working EXCEPT ![x] = @ + 1]
  BY <1>1 DEF WorkerTakes
<1>4. /\ Start(i) \in Report /\ Start(i).job = i /\ EndOf(i) \in Report /\ EndOf(i).job = i
      /\ Start(i) # EndOf(i) /\ x \in {Start(i), EndOf(i)}
  BY <1>2, RunReports
<1>5. /\ InLine(j, reports)' /\ QueuedOnce(j, queue)' /\ Reported(j)' = Reported(j)
      /\ \A r \in ToSet(open'), q \in ToSet(reports') :
           r.job = j /\ q.job = j => q.status # "processing"
  BY <1>0, <1>2 DEF ReportShape, InLine, QueuedOnce, Reported
<1>6. CASE i # j
  <2>1. \A r \in Report : r.job = j => working'[r] = working[r] /\ saved'[r] = saved[r]
    BY <1>0, <1>3, <1>4, <1>6
  <2> QED BY <1>0, <1>2, <1>5, <2>1, LessOfIt
<1>7. CASE i = j
  <2>1. /\ db[j] = "queued" /\ request[j] = "202" /\ Quiet(j) /\ j \notin ToSet(queue')
    BY <1>0, <1>2, <1>7 DEF MessageShape, RequestShape
  <2>2. /\ Reported(j) = {}
        /\ \A r \in Report : r.job = j => working[r] = 0 /\ saved[r] = 0
    BY <2>1 DEF Quiet
  <2>3. /\ x \in Report /\ working'[x] = 1
        /\ \A r \in Report \ {x} : working'[r] = working[r]
    BY <1>0, <1>3, <1>4, <1>7, <2>2
  <2>4. RequestShape(j)' /\ MessageShape(j)'
    BY <1>0, <1>5, <2>1 DEF RequestShape, MessageShape
  <2>5. WorkShape(j)'
    <3>1. /\ \A r \in Report : r.job = j /\ working'[r] > 0 => r = x
          /\ \A r \in Report : r.job = j => saved'[r] = 0
      BY <1>0, <2>2, <2>3
    <3>2. /\ \A r \in Report : r.job = j /\ working'[r] > 0 => r \in {Start(j), EndOf(j)}
          /\ \A r \in Report : r.job = j /\ saved'[r] > 0 => r = EndOf(j)
      BY <1>4, <1>7, <3>1
    <3>3. working'[Start(j)] > 0 =>
            working'[Start(j)] = 1 /\ working'[EndOf(j)] = 0 /\ saved'[EndOf(j)] = 0
      <4>1. CASE x = Start(j)
        <5>1. working'[EndOf(j)] = 0 /\ saved'[EndOf(j)] = 0
          BY <1>4, <1>7, <2>2, <2>3, <3>1, <4>1
        <5> QED BY <2>3, <4>1, <5>1
      <4>2. CASE x = EndOf(j)
        <5>1. working'[Start(j)] = 0
          BY <1>4, <1>7, <2>2, <2>3, <4>2
        <5> QED BY <5>1
      <4> QED BY <1>4, <1>7, <4>1, <4>2
    <3> QED BY <1>0, <1>5, <2>1, <2>2, <3>2, <3>3 DEF WorkShape, Start, EndOf
  <2>6. ReportShape(j)'
    BY <1>5, <2>2 DEF ReportShape
  <2> QED BY <2>4, <2>5, <2>6 DEF OnceShape
<1> QED BY <1>6, <1>7

\* A run or a line of the file of another job.
LEMMA OtherReport ==
  ASSUME TypeOK, NEW j \in Jobs, OnceShape(j), NEW x \in Report, x.job # j,
         UNCHANGED <<db, request, queue, open>>,
         \A r \in Report : r.job = j => working'[r] = working[r] /\ saved'[r] = saved[r],
         reports' \in {reports, Append(reports, x)}
  PROVE  OnceShape(j)'
<1>0. /\ RequestShape(j) /\ MessageShape(j) /\ WorkShape(j) /\ ReportShape(j)
      /\ reports \in Seq(Report)
  BY DEF OnceShape, TypeOK
<1>1. ToSet(reports') \subseteq ToSet(reports) \cup {x} /\ InLine(j, reports')
  <2>1. InLine(j, reports)
    BY <1>0 DEF ReportShape
  <2>2. PICK t : t = reports'
    OBVIOUS
  <2>3. t \in {reports, Append(reports, x)}
    BY <1>0, <2>2
  <2>4. ToSet(t) \subseteq ToSet(reports) \cup {x} /\ InLine(j, t)
    BY <1>0, <2>1, <2>3, OneMore
  <2> QED BY <2>2, <2>4
<1>2. Reported(j)' \subseteq Reported(j)
  BY <1>1 DEF Reported
<1>3. \A r \in ToSet(open'), q \in ToSet(reports') :
        r.job = j /\ q.job = j => q.status # "processing"
  BY <1>0, <1>1 DEF ReportShape
<1>4. InLine(j, reports)' /\ QueuedOnce(j, queue)'
  BY <1>0, <1>1 DEF InLine, QueuedOnce, MessageShape
<1> QED BY <1>2, <1>3, <1>4, LessOfIt

\* What a run of the worker does with its report: what it leaves of the runs.
LEMMA GoesOnTyped ==
  ASSUME working \in [Report -> Nat], NEW x \in Report, working[x] > 0, GoesOn(x)
  PROVE  /\ working' \in [Report -> Nat]
         /\ working'[x] = working[x] - 1
         /\ \A r \in Report : r.job # x.job => working'[r] = working[r]
         /\ x.status = "processing" => working'[EndOf(x.job)] = working[EndOf(x.job)] + 1
         /\ \A r \in Report \ {x} :
              x.status # "processing" \/ r # EndOf(x.job) => working'[r] = working[r]
<1>1. x.job \in Jobs
  BY DEF Report
<1>2. EndOf(x.job) \in Report /\ EndOf(x.job).job = x.job /\ EndOf(x.job).status # "processing"
  BY <1>1, RunReports
<1> DEFINE others == [working EXCEPT ![x] = @ - 1]
<1>3. others \in [Report -> Nat] /\ others[x] = working[x] - 1
  OBVIOUS
<1>4. \A r \in Report \ {x} : others[r] = working[r]
  OBVIOUS
<1>5. working' = IF x.status = "processing" THEN [others EXCEPT ![EndOf(x.job)] = @ + 1] ELSE others
  BY DEF GoesOn
<1> HIDE DEF others
<1>6. CASE x.status = "processing"
  <2>1. working' = [others EXCEPT ![EndOf(x.job)] = @ + 1] /\ EndOf(x.job) # x
    BY <1>2, <1>5, <1>6
  <2>2. /\ working' \in [Report -> Nat]
        /\ working'[EndOf(x.job)] = others[EndOf(x.job)] + 1
        /\ \A r \in Report : r # EndOf(x.job) => working'[r] = others[r]
    BY <1>2, <1>3, <2>1
  <2> QED BY <1>2, <1>3, <1>4, <1>6, <2>1, <2>2
<1>7. CASE x.status # "processing"
  BY <1>3, <1>4, <1>5, <1>7
<1> QED BY <1>6, <1>7

\* The worker reports of a run: `processing', which is refused only to a job
\* that is not sent once, or the end.
LEMMA ReportsFlows ==
  ASSUME FlowInv, NEW x \in Report, WorkerReports(x), NEW j \in Jobs, OnceShape(j), SentOnce(j)'
  PROVE  OnceShape(j)'
<1>0. /\ TypeOK
      /\ RequestShape(j) /\ MessageShape(j) /\ WorkShape(j) /\ ReportShape(j)
      /\ working \in [Report -> Nat] /\ saved \in [Report -> Nat] /\ reports \in Seq(Report)
      /\ working[x] > 0 /\ GoesOn(x)
      /\ UNCHANGED <<db, request, queue, open>>
      /\ reports' \in {reports, Append(reports, x)}
  BY DEF FlowInv, Inv, TypeOK, OnceShape, WorkerReports, AddReport, requestVars
<1>1. /\ Start(j) \in Report /\ Start(j).job = j /\ EndOf(j) \in Report /\ EndOf(j).job = j
      /\ Start(j).status = "processing" /\ EndOf(j).status # "processing" /\ Start(j) # EndOf(j)
  BY RunReports
<1>2. \/ saved' = saved
      \/ saved' = [saved EXCEPT ![x] = @ + 1] /\ delayed' = delayed \cup Delays(x)
  BY DEF WorkerReports, Save
<1>3. saved' \in [Report -> Nat] /\ \A r \in Report \ {x} : saved'[r] = saved[r]
  <2>1. CASE saved' = saved
    BY <1>0, <2>1
  <2>2. CASE saved' = [saved EXCEPT ![x] = @ + 1]
    <3>1. saved[x] \in Nat /\ saved[x] + 1 \in Nat
      BY <1>0
    <3>2. \A r \in Report : saved'[r] = IF r = x THEN saved[x] + 1 ELSE saved[r]
      BY <1>0, <2>2
    <3>3. saved' \in [Report -> Nat]
      BY <1>0, <2>2, <3>1
    <3> QED BY <3>2, <3>3
  <2> QED BY <1>2, <2>1, <2>2
<1>4. /\ working' \in [Report -> Nat]
      /\ working'[x] = working[x] - 1
      /\ \A r \in Report : r.job # x.job => working'[r] = working[r]
      /\ x.status = "processing" => working'[EndOf(x.job)] = working[EndOf(x.job)] + 1
      /\ \A r \in Report \ {x} :
           x.status # "processing" \/ r # EndOf(x.job) => working'[r] = working[r]
  BY <1>0, GoesOnTyped
<1>5. CASE x.job # j
  <2>1. \A r \in Report : r.job = j => working'[r] = working[r] /\ saved'[r] = saved[r]
    BY <1>3, <1>4, <1>5
  <2> QED BY <1>0, <1>5, <2>1, OtherReport
<1>6. CASE x.job = j
  <2>1. request[j] = "202" /\ j \notin ToSet(queue) /\ x \in {Start(j), EndOf(j)}
    BY <1>0, <1>6 DEF RequestShape, MessageShape, WorkShape, Quiet
  <2>2. CASE x = EndOf(j)
    <3>1. working[Start(j)] = 0
      BY <1>0, <1>1, <2>2 DEF WorkShape
    <3>2. \A r \in Report \ {EndOf(j)} : r.job = j => working'[r] = working[r] /\ saved'[r] = saved[r]
      BY <1>1, <1>3, <1>4, <2>2
    <3> QED BY <1>0, <1>3, <1>4, <2>1, <2>2, <3>1, <3>2, EndReported
  <2>3. CASE x = Start(j)
    <3>1. saved' = saved
      BY <1>1, <1>2, <1>6, <2>3 DEF Delays, SentOnce
    <3>2. /\ working[Start(j)] = 1 /\ db[j] = "queued" /\ Reported(j) = {}
          /\ working[EndOf(j)] = 0 /\ saved[EndOf(j)] = 0
      BY <1>0, <2>3 DEF WorkShape
    <3>3. /\ working'[Start(j)] = 0
          /\ \A r \in Report \ {Start(j), EndOf(j)} : working'[r] = working[r]
      BY <1>4, <1>6, <2>3, <3>2
    <3>4. RequestShape(j)' /\ MessageShape(j)'
      BY <1>0, <2>1 DEF RequestShape, MessageShape, EndOf, QueuedOnce
    <3>5. WorkShape(j)'
      <4>1. \A r \in Report : r.job = j /\ working'[r] > 0 => r \in {Start(j), EndOf(j)}
        BY <1>0, <3>3 DEF WorkShape
      <4>2. \A r \in Report : r.job = j /\ saved'[r] > 0 => r = EndOf(j)
        BY <1>0, <3>1 DEF WorkShape
      <4>3. ~ (working'[Start(j)] > 0)
        BY <3>3
      <4> QED BY <4>1, <4>2, <4>3 DEF WorkShape, Start, EndOf
    <3>6. /\ \A r \in ToSet(open) : r.job # j
          /\ \A r \in ToSet(reports) : r.job # j
      BY <3>2 DEF Reported
    <3>7. ToSet(reports') \subseteq ToSet(reports) \cup {Start(j)} /\ InLine(j, reports')
      <4>1. InLine(j, reports)
        BY <1>0 DEF ReportShape
      <4>2. PICK t : t = reports'
        OBVIOUS
      <4>3. t \in {reports, Append(reports, Start(j))}
        BY <1>0, <2>3, <4>2
      <4>4. ToSet(t) \subseteq ToSet(reports) \cup {Start(j)} /\ InLine(j, t)
        <5>1. reports \in Seq(Report) /\ Start(j) \in Report /\ \A r \in ToSet(reports) : r.job # j
          BY <1>0, <1>1, <3>6
        <5> QED BY <4>1, <4>3, <5>1, OneMore
      <4> QED BY <4>2, <4>4
    <3>8. Reported(j)' \subseteq {Start(j)}
      BY <1>0, <3>6, <3>7 DEF Reported
    <3>9. ReportShape(j)'
      BY <1>0, <3>2, <3>6, <3>7, <3>8 DEF ReportShape, Start, InLine
    <3> QED BY <3>4, <3>5, <3>9 DEF OnceShape
  <2> QED BY <2>1, <2>2, <2>3
<1> QED BY <1>5, <1>6

\* The replay publishes an end, if it is a job that is sent once.
LEMMA ReplayFlows ==
  ASSUME FlowInv, NEW x \in Report, Replay(x), NEW j \in Jobs, OnceShape(j)
  PROVE  OnceShape(j)'
<1>0. /\ TypeOK
      /\ RequestShape(j) /\ MessageShape(j) /\ WorkShape(j) /\ ReportShape(j)
      /\ working \in [Report -> Nat] /\ saved \in [Report -> Nat] /\ reports \in Seq(Report)
      /\ saved[x] > 0 /\ reports' = Append(reports, x)
      /\ UNCHANGED <<db, request, queue, open, working>>
  BY DEF FlowInv, Inv, TypeOK, OnceShape, Replay, AddReport, requestVars
<1>1. /\ Start(j) \in Report /\ EndOf(j) \in Report /\ Start(j).job = j
  BY RunReports
<1>2. saved' = saved \/ saved' = [saved EXCEPT ![x] = @ - 1]
  BY DEF Replay
<1>3. saved' \in [Report -> Nat] /\ \A r \in Report \ {x} : saved'[r] = saved[r]
  <2>1. CASE saved' = saved
    BY <1>0, <2>1
  <2>2. CASE saved' = [saved EXCEPT ![x] = @ - 1]
    <3>1. saved[x] \in Nat /\ saved[x] - 1 \in Nat
      BY <1>0
    <3>2. \A r \in Report : saved'[r] = IF r = x THEN saved[x] - 1 ELSE saved[r]
      BY <1>0, <2>2
    <3>3. saved' \in [Report -> Nat]
      BY <1>0, <2>2, <3>1
    <3> QED BY <3>2, <3>3
  <2> QED BY <1>2, <2>1, <2>2
<1>4. CASE x.job # j
  <2>1. \A r \in Report : r.job = j => working'[r] = working[r] /\ saved'[r] = saved[r]
    BY <1>0, <1>3, <1>4
  <2> QED BY <1>0, <1>4, <2>1, OtherReport
<1>5. CASE x.job = j
  <2>1. request[j] = "202" /\ j \notin ToSet(queue) /\ x = EndOf(j)
    BY <1>0, <1>5 DEF RequestShape, MessageShape, WorkShape, Quiet
  <2>2. working[Start(j)] = 0
    BY <1>0, <1>1, <2>1 DEF WorkShape
  <2>3. \A r \in Report \ {EndOf(j)} : r.job = j => working'[r] = working[r] /\ saved'[r] = saved[r]
    BY <1>0, <1>3, <2>1
  <2> QED BY <1>0, <1>3, <2>1, <2>2, <2>3, EndReported
<1> QED BY <1>4, <1>5

\* The worker dies, and has nothing more of the job afterwards than before.
LEMMA DiesFlows ==
  ASSUME FlowInv, WorkerDies, NEW j \in Jobs, OnceShape(j)
  PROVE  OnceShape(j)'
<1>0. /\ MessageShape(j) /\ ReportShape(j)
      /\ UNCHANGED <<db, request, queue, saved, reports, open>>
  BY DEF OnceShape, WorkerDies, requestVars, consumerVars
<1>1. \A r \in Report : working'[r] \in {0, working[r]}
  BY DEF WorkerDies
<1>2. /\ InLine(j, reports)' /\ QueuedOnce(j, queue)' /\ Reported(j)' = Reported(j)
      /\ \A r \in ToSet(open'), q \in ToSet(reports') :
           r.job = j /\ q.job = j => q.status # "processing"
  BY <1>0 DEF MessageShape, ReportShape, InLine, QueuedOnce, Reported
<1> QED BY <1>0, <1>1, <1>2, LessOfIt

\* Every step of the worker; none of them touches a row.
LEMMA WorkerFlows ==
  ASSUME FlowInv, Worker, NEW j \in Jobs, OnceShape(j), SentOnce(j)'
  PROVE  OnceShape(j)' /\ Flows(j)
<1>1. OnceShape(j)'
  BY TakesFlows, ReportsFlows, ReplayFlows, DiesFlows DEF Worker
<1>2. db' = db
  BY DEF Worker, WorkerTakes, WorkerReports, Replay, WorkerDies
<1> QED BY <1>1, <1>2 DEF Flows

\* The next status is committed, or fails: it may follow what the row shows,
\* and what is behind it may follow it.
LEMMA NextFlows ==
  ASSUME FlowInv, ConsumerCommits \/ ConsumerFails, NEW j \in Jobs, OnceShape(j)
  PROVE  OnceShape(j)' /\ Flows(j)
<1> DEFINE h == Head(reports)
           txn == Append(open, h)
<1>0. /\ RequestShape(j) /\ MessageShape(j) /\ WorkShape(j) /\ ReportShape(j)
      /\ reports \in Seq(Report) /\ open \in Seq(Report)
      /\ db \in [Jobs -> Status \cup {"absent"}]
      /\ reports # <<>> /\ reports' = Tail(reports)
      /\ UNCHANGED <<queue, request, working, saved>>
      /\ open' \in {<<>>, open, txn}
  BY DEF FlowInv, Inv, TypeOK, OnceShape, ConsumerCommits, ConsumerFails, requestVars, workerVars
<1>1. ToSet(reports) = {h} \cup ToSet(reports') /\ h \in Report /\ reports' \in Seq(Report)
  BY <1>0, ToSetHeadTail, HeadTailProperties
<1>2. /\ InLine(j, reports')
      /\ \A q \in ToSet(reports') : h.job = j /\ q.job = j => q.status # "processing"
  BY <1>0, InLineTail DEF ReportShape
<1>3. /\ ConsumerCommits => db' = Committed(db, txn) /\ open' = <<>>
      /\ ConsumerFails => db' = db
  BY DEF ConsumerCommits, ConsumerFails
<1> HIDE DEF h
<1>4. txn \in Seq(Report) /\ ToSet(txn) = ToSet(open) \cup {h}
  BY <1>0, <1>1, ToSetAppend, AppendProperties
<1> HIDE DEF txn
\* What was in the transaction, or would have joined it, precedes the rest.
<1>5. \A r \in ToSet(txn), q \in ToSet(reports') : r.job = j /\ q.job = j => q.status # "processing"
  BY <1>0, <1>1, <1>2, <1>4 DEF ReportShape
<1>6. ToSet(open') \subseteq ToSet(txn)
  BY <1>0, <1>4, ToSetEmpty
<1>7. Reported(j)' \subseteq Reported(j)
  BY <1>1, <1>4, <1>6 DEF Reported
<1>8. /\ \A r \in ToSet(open'), q \in ToSet(reports') :
           r.job = j /\ q.job = j => q.status # "processing"
      /\ InLine(j, reports)' /\ QueuedOnce(j, queue)'
  BY <1>0, <1>2, <1>5, <1>6 DEF InLine, QueuedOnce, MessageShape
<1>9. CASE db'[j] = db[j]
  <2>1. \A r \in Report : working'[r] = working[r] /\ saved'[r] = saved[r]
    BY <1>0
  <2>2. OnceShape(j)'
    BY <1>0, <1>7, <1>8, <1>9, <2>1, LessOfIt
  <2> QED BY <1>9, <2>2 DEF Flows
<1>10. ASSUME db'[j] # db[j]
       PROVE  OnceShape(j)' /\ Flows(j)
  <2>1. db' = Committed(db, txn) /\ open' = <<>>
    BY <1>3, <1>10
  <2>2. txn \in Seq(Update)
    BY <1>4, ReportsUpdate DEF Update
  <2>3. PICK r \in ToSet(txn) : r.job = j /\ db'[j] = r.status
    BY <1>0, <1>10, <2>1, <2>2, CommittedOne
  <2>4. r \in Reported(j)
    BY <1>1, <1>4, <2>3 DEF Reported
  <2>5. r \in {Start(j), EndOf(j)} /\ (r = Start(j) => db[j] = "queued")
    BY <1>0, <2>4 DEF ReportShape
  <2>6. /\ Start(j) \in Report /\ Start(j).job = j /\ Start(j).status = "processing"
        /\ EndOf(j).status \in {"done", "dead"}
    BY RunReports
  <2>7. /\ request[j] = "202" /\ j \notin ToSet(queue) /\ working[Start(j)] = 0
        /\ db[j] \in {"queued", "processing", EndOf(j).status}
    <3>1. ~ Quiet(j)
      BY <2>4 DEF Quiet
    <3>2. request[j] = "202" /\ j \notin ToSet(queue)
      BY <1>0, <3>1 DEF RequestShape, MessageShape
    <3>3. working[Start(j)] \in Nat /\ ~ (working[Start(j)] > 0)
      BY <1>0, <2>4, <2>6 DEF WorkShape, FlowInv, Inv, TypeOK
    <3> QED BY <1>0, <3>2, <3>3 DEF RequestShape
  <2>8. <<db[j], db'[j]>> \in Flow
    BY <1>10, <2>3, <2>5, <2>6, <2>7 DEF Flow
  <2>9. RequestShape(j)' /\ MessageShape(j)'
    BY <1>0, <2>3, <2>5, <2>6, <2>7 DEF RequestShape, MessageShape, EndOf, QueuedOnce
  <2>10. WorkShape(j)'
    BY <1>0, <2>7 DEF WorkShape, Start, EndOf
  <2>11. \A q \in Reported(j)' : q = EndOf(j)
    <3> SUFFICES ASSUME NEW q \in Reported(j)' PROVE q = EndOf(j)
      OBVIOUS
    <3>1. q \in ToSet(reports') /\ q.job = j
      BY <2>1, ToSetEmpty DEF Reported
    <3>2. q.status # "processing" /\ q \in {Start(j), EndOf(j)}
      BY <1>0, <1>5, <1>7, <2>3, <3>1 DEF ReportShape
    <3> QED BY <2>6, <3>2
  <2>12. ReportShape(j)'
    <3>1. Start(j) # EndOf(j)
      BY RunReports
    <3> QED BY <1>8, <2>11, <3>1 DEF ReportShape, Start, EndOf
  <2> QED BY <2>8, <2>9, <2>10, <2>12 DEF OnceShape, Flows
<1> QED BY <1>9, <1>10

\* Statuses that nobody reads again.
LEMMA ForgetsFlows ==
  ASSUME FlowInv, ConsumerForgets, NEW j \in Jobs, OnceShape(j)
  PROVE  OnceShape(j)' /\ Flows(j)
<1>0. /\ MessageShape(j) /\ ReportShape(j)
      /\ reports \in Seq(Report)
      /\ UNCHANGED <<db, queue, request, working, saved>>
      /\ open' \in {<<>>, open}
  BY DEF FlowInv, Inv, TypeOK, OnceShape, ConsumerForgets, requestVars, workerVars
<1>1. PICK n \in 0 .. Len(reports) : reports' = SubSeq(reports, n + 1, Len(reports))
  BY DEF ConsumerForgets
<1>2. ToSet(reports') \subseteq ToSet(reports)
  BY <1>0, <1>1, SuffixOf
<1>3. InLine(j, reports')
  BY <1>0, <1>1, InLineSuffix DEF ReportShape
<1>4. ToSet(open') \subseteq ToSet(open)
  BY <1>0, ToSetEmpty
<1>5. /\ InLine(j, reports)' /\ QueuedOnce(j, queue)' /\ Reported(j)' \subseteq Reported(j)
      /\ \A r \in ToSet(open'), q \in ToSet(reports') :
           r.job = j /\ q.job = j => q.status # "processing"
  BY <1>0, <1>2, <1>3, <1>4 DEF MessageShape, ReportShape, InLine, QueuedOnce, Reported
<1>6. OnceShape(j)'
  BY <1>0, <1>5, LessOfIt
<1> QED BY <1>0, <1>6 DEF Flows

\* Every step of the consumer.
LEMMA ConsumerFlows ==
  ASSUME FlowInv, Consumer, NEW j \in Jobs, OnceShape(j)
  PROVE  OnceShape(j)' /\ Flows(j)
  BY NextFlows, ForgetsFlows DEF Consumer

\* Time, trims, and an administrator, whose intervention is remembered.
LEMMA RestFlows ==
  ASSUME FlowInv, NEW j \in Jobs, OnceShape(j), SentOnce(j)',
         \/ \E i \in Jobs, s \in Posted : UpdateJobStatus(i, s)
         \/ \E i \in Jobs : Age(i)
         \/ Evict
  PROVE  OnceShape(j)' /\ Flows(j)
<1>1. CASE \E i \in Jobs, s \in Posted : UpdateJobStatus(i, s)
  <2>1. PICK i \in Jobs, s \in Posted : UpdateJobStatus(i, s)
    BY <1>1
  <2>2. i # j /\ TypeOK /\ SetStatus(i, s) /\ UNCHANGED <<queue, request, working, saved, reports, open>>
    BY <2>1 DEF UpdateJobStatus, SentOnce, FlowInv, Inv, restVars, workerVars, consumerVars
  <2>3. db'[j] = db[j]
    BY <2>2, SetStatusOther
  <2> QED BY <2>2, <2>3, Untouched DEF Flows
<1>2. CASE \E i \in Jobs : Age(i)
  BY <1>2, Untouched DEF Age, Flows, requestVars, restVars, workerVars, consumerVars
<1>3. CASE Evict
  <2>0. /\ MessageShape(j) /\ ReportShape(j) /\ queue \in Seq(Jobs)
    BY DEF FlowInv, Inv, TypeOK, OnceShape
  <2>1. queue # <<>>
    BY <1>3, ApiAssumption DEF Evict
  <2>2. queue' = Tail(queue) /\ UNCHANGED <<db, request, working, saved, reports, open>>
    BY <1>3 DEF Evict, requestVars, restVars, workerVars, consumerVars
  <2>3. QueuedOnce(j, Tail(queue)) /\ ToSet(Tail(queue)) \subseteq ToSet(queue)
    BY <2>0, <2>1, QueuedTail, ToSetHeadTail DEF MessageShape
  <2>4. /\ InLine(j, reports)' /\ QueuedOnce(j, queue)' /\ Reported(j)' = Reported(j)
        /\ j \in ToSet(queue') => j \in ToSet(queue)
        /\ \A r \in ToSet(open'), q \in ToSet(reports') :
             r.job = j /\ q.job = j => q.status # "processing"
    BY <2>0, <2>2, <2>3 DEF ReportShape, InLine, QueuedOnce, Reported
  <2>5. OnceShape(j)'
    BY <2>2, <2>4, LessOfIt
  <2> QED BY <2>2, <2>5 DEF Flows
<1> QED BY <1>1, <1>2, <1>3

\* Every step of a job that is sent once.
LEMMA StepFlows ==
  ASSUME FlowInv, Next, NEW j \in Jobs, SentOnce(j)'
  PROVE  OnceShape(j)' /\ Flows(j)
<1>1. OnceShape(j)
  BY SentEarlier DEF FlowInv
<1> QED BY <1>1, RequestFlows, CheckerFlows, WorkerFlows, ConsumerFlows, RestFlows
        DEF Next, Worker, Consumer

\* The checker remembers what it sends before it marks it.
LEMMA StepMark ==
  ASSUME MarkShape, [Next]_vars
  PROVE  MarkShape'
<1>1. CASE Checker
  BY <1>1 DEF MarkShape, Checker, CheckerStart, CheckerPublish, CheckerSkip, CheckerMark, CheckerDone,
     CheckerFails, CheckerDies, CheckerEnd
<1>2. CASE UNCHANGED checkerVars
  BY <1>2 DEF MarkShape, checkerVars
<1>3. Checker \/ UNCHANGED checkerVars
  BY DEF Next, vars, Request, Insert, Publish, MarkPublishFailed, ApiDies, Age, UpdateJobStatus, Evict,
     WorkerTakes, WorkerReports, Replay, WorkerDies, ConsumerCommits, ConsumerFails, ConsumerForgets
<1> QED BY <1>1, <1>2, <1>3

\* At first no job has been sent.
LEMMA InitFlow == Init => FlowInv
<1> SUFFICES ASSUME Init PROVE FlowInv
  OBVIOUS
<1>1. Inv
  BY InitInv
<1>2. MarkShape
  BY DEF Init, MarkShape
<1>3. ASSUME NEW j \in Jobs PROVE OnceShape(j)
  <2>1. ToSet(queue) = {} /\ ToSet(open) = {} /\ ToSet(reports) = {} /\ Reported(j) = {}
    BY ToSetEmpty DEF Init, Reported
  <2>2. DOMAIN queue = {} /\ DOMAIN reports = {}
    BY DEF Init
  <2>3. /\ \A r \in Report : working[r] = 0 /\ saved[r] = 0
        /\ Start(j) \in Report
    BY RunReports DEF Init
  <2>4. Quiet(j)
    BY <2>1, <2>3 DEF Quiet
  <2>5. RequestShape(j) /\ MessageShape(j)
    BY <2>1, <2>2, <2>4 DEF Init, RequestShape, MessageShape, QueuedOnce
  <2>6. WorkShape(j)
    BY <2>3 DEF WorkShape
  <2>7. ReportShape(j)
    BY <2>1, <2>2 DEF ReportShape, InLine
  <2> QED BY <2>5, <2>6, <2>7 DEF OnceShape
<1> QED BY <1>1, <1>2, <1>3 DEF FlowInv

\* Every step keeps it.
LEMMA StepFlow ==
  ASSUME FlowInv, [Next]_vars
  PROVE  FlowInv'
<1>1. Inv' /\ MarkShape'
  BY StepInv, StepMark DEF FlowInv
<1>2. ASSUME NEW j \in Jobs, SentOnce(j)' PROVE OnceShape(j)'
  <2>1. CASE Next
    BY <1>2, <2>1, StepFlows
  <2>2. CASE UNCHANGED vars
    <3>1. SentOnce(j)
      BY <1>2, <2>2 DEF vars, requestVars, checkerVars, restVars, workerVars, SentOnce
    <3>2. OnceShape(j)
      BY <3>1 DEF FlowInv
    <3> QED BY <2>2, <3>2, Untouched DEF vars, requestVars, restVars, workerVars, consumerVars
  <2> QED BY <2>1, <2>2
<1> QED BY <1>1, <1>2 DEF FlowInv

(***************************************************************************)
(* A job whose message was added once, by its request, and whose           *)
(* `processing' did not go to the fallback file goes through its statuses  *)
(* as node1_api/README.md:82 says, whatever dies, fails, is trimmed or is  *)
(* left in an open transaction, and however often its end is published.    *)
(* So one of four things has happened to a job that goes another way: the  *)
(* checker has sent it (the checker's main), an administrator has written  *)
(* its row (update_job_status), the reply of its XADD was lost             *)
(* (enqueue_job), or its `processing' was saved and may be replayed after  *)
(* its end (processMessage, replayFallback).                               *)
(***************************************************************************)
THEOREM SentOnceFlows == Spec => StatusFlow
<1>1. ASSUME FlowInv, [Next]_vars
      PROVE  [\A j \in Jobs : SentOnce(j)' => db'[j] = db[j] \/ <<db[j], db'[j]>> \in Flow]_vars
  <2>1. CASE Next
    BY <1>1, <2>1, StepFlows DEF Flows
  <2>2. CASE UNCHANGED vars
    BY <2>2
  <2> QED BY <1>1, <2>1, <2>2
<1> QED BY InitFlow, StepFlow, <1>1, PTL DEF Spec, StatusFlow
=============================================================================
