------------------------ MODULE StatusConsumer_proofs ------------------------
(***************************************************************************)
(* Theorems about StatusConsumer, for any jobs, any batch size, any bounds *)
(* and any faults.                                                         *)
(***************************************************************************)
EXTENDS StatusConsumer, Stores_proofs, FiniteSetTheorems

-----------------------------------------------------------------------------
(***************************************************************************)
(* The invariant                                                           *)
(***************************************************************************)

\* What the consumer has read is in the stream, and only that is written.
ReadShape ==
  /\ status.read <= Len(status.log)
  /\ committed \subseteq 1 .. status.read

\* A batch holds entries that were read, as they are in the stream, in
\* stream order, while the loop over it runs.
BatchShape ==
  /\ batch = <<>> <=> cpc \in {"poll", "reading", "down"}
  /\ \A n \in DOMAIN batch :
       /\ batch[n].id \in 1 .. status.read
       /\ batch[n].body = status.log[batch[n].id]
       /\ \A m \in 1 .. n - 1 : batch[m].id < batch[n].id

\* The open transaction has known entries that were read, in stream order
\* and all of them newer than what is committed.
TxnShape ==
  \A n \in DOMAIN txn :
    /\ txn[n] \in 1 .. status.read
    /\ Known(txn[n])
    /\ \A m \in 1 .. n - 1 : txn[m] < txn[n]
    /\ \A i \in committed : i < txn[n]

\* Nothing in the batch is older than what was written, and a message that
\* is still to be written is newer.
BatchIsNewer ==
  \A n \in DOMAIN batch : \A i \in ToSet(txn) \cup committed :
    /\ i <= batch[n].id
    /\ n > 1 \/ cpc = "message" => i < batch[n].id

\* A commit includes the message it is made for, which is acknowledged
\* afterwards.
AckShape ==
  /\ cpc = "commit" => Current.id \in ToSet(txn)
  /\ cpc = "ack" => Current.id \in committed

Shape == ReadShape /\ BatchShape /\ TxnShape /\ BatchIsNewer /\ AckShape

-----------------------------------------------------------------------------
(***************************************************************************)
(* What a step may change                                                  *)
(***************************************************************************)

\* A fault is counted.
LEMMA SufferCounts ==
  ASSUME faults \in [FaultKind -> Nat], NEW k \in FaultKind, Suffer(k)
  PROVE  faults' \in [FaultKind -> Nat]
  BY DEF Suffer

\* A reply holds unread entries in stream order; a delivery moves the group
\* past them and no further back.
LEMMA ReplyAscends ==
  ASSUME NEW E, NEW s \in Stream(E), NEW n \in Nat \ {0}, HasUnread(s)
  PROVE  /\ Delivered(s, n).read \in Nat
         /\ Delivered(s, n).read >= s.read
         /\ Delivered(s, n).read <= Len(s.log)
         /\ \A i \in 1 .. s.read : i \in Delivered(s, n).pel => i \in s.pel
         /\ \A k \in DOMAIN Reply(s, n) :
              /\ Reply(s, n)[k].id \in s.read + 1 .. Delivered(s, n).read
              /\ Reply(s, n)[k].body = s.log[Reply(s, n)[k].id]
              /\ Reply(s, n)[k].id \in Delivered(s, n).pel
              /\ \A m \in 1 .. k - 1 : Reply(s, n)[m].id < Reply(s, n)[k].id
<1> DEFINE first == FirstUnread(s)
           last  == UpTo(s, n)
<1>1. s.log \in Seq(E) /\ s.trimmed \in Nat /\ s.read \in Nat /\ Len(s.log) \in Nat
  BY LenProperties DEF Stream
<1>2. first \in Nat \ {0} /\ first <= Len(s.log) /\ first > s.read
  BY <1>1 DEF FirstUnread, HasUnread
<1>3. last \in Nat /\ last <= Len(s.log) /\ last >= first
  BY <1>1, <1>2 DEF UpTo
<1>4. Reply(s, n) = [k \in 1 .. last + 1 - first |->
                       [id |-> first + k - 1, body |-> s.log[first + k - 1]]]
  BY DEF Reply
<1> HIDE DEF first, last
<1>5. Delivered(s, n).read = last /\ Delivered(s, n).pel = s.pel \cup first .. last
  <2>1. Delivered(s, n) = [s EXCEPT !.read = last, !.pel = s.pel \cup first .. last]
    BY DEF Delivered, first, last
  <2> QED BY <2>1 DEF Stream
<1>6. ASSUME NEW k \in 1 .. last + 1 - first
      PROVE  /\ first + k - 1 \in s.read + 1 .. last
             /\ first + k - 1 \in first .. last
             /\ \A m \in 1 .. k - 1 : m \in 1 .. last + 1 - first /\ first + m - 1 < first + k - 1
  BY <1>1, <1>2, <1>3, <1>6
<1>7. ASSUME NEW k \in 1 .. last + 1 - first
      PROVE  /\ Reply(s, n)[k].id = first + k - 1
             /\ Reply(s, n)[k].body = s.log[first + k - 1]
  BY <1>4, <1>7
<1>8. DOMAIN Reply(s, n) = 1 .. last + 1 - first
  BY <1>4
<1>9. last >= s.read /\ \A i \in 1 .. s.read : i \notin first .. last
  BY <1>1, <1>2, <1>3
<1> QED BY <1>3, <1>5, <1>6, <1>7, <1>8, <1>9

\* The rest of a batch.
LEMMA TailOf ==
  ASSUME NEW S, NEW s \in Seq(S), s # <<>>
  PROVE  /\ Tail(s) \in Seq(S)
         /\ DOMAIN Tail(s) = 1 .. Len(s) - 1
         /\ DOMAIN s = 1 .. Len(s)
         /\ Len(s) \in Nat \ {0}
         /\ \A i \in 1 .. Len(s) - 1 : Tail(s)[i] = s[i + 1]
         /\ Tail(s) = <<>> <=> Len(s) = 1
         /\ Head(s) = s[1]
         /\ Head(s) \in S
<1>1. /\ DOMAIN s = 1 .. Len(s) /\ Len(s) \in Nat /\ Len(s) # 0
  BY LenProperties, EmptySeq
<1>2. /\ Head(s) \in S /\ Head(s) = s[1] /\ Tail(s) \in Seq(S)
      /\ Len(Tail(s)) = Len(s) - 1
      /\ \A i \in 1 .. Len(s) - 1 : Tail(s)[i] = s[i + 1]
  BY HeadTailProperties
<1>3. DOMAIN Tail(s) = 1 .. Len(s) - 1 /\ (Tail(s) = <<>> <=> Len(s) - 1 = 0)
  BY <1>2, LenProperties, EmptySeq
<1> QED BY <1>1, <1>2, <1>3

\* Appending an entry to the transaction.
LEMMA AppendOf ==
  ASSUME NEW S, NEW s \in Seq(S), NEW x \in S
  PROVE  /\ Append(s, x) \in Seq(S)
         /\ DOMAIN Append(s, x) = 1 .. Len(s) + 1
         /\ DOMAIN s = 1 .. Len(s)
         /\ Len(s) \in Nat
         /\ \A i \in 1 .. Len(s) : Append(s, x)[i] = s[i]
         /\ Append(s, x)[Len(s) + 1] = x
  BY AppendProperties, LenProperties

\* A process that ends has neither a batch nor a transaction.
LEMMA HaltShape ==
  ASSUME TypeOK, Shape, Halt, status'.log = status.log, status'.read = status.read,
         committed' = committed
  PROVE  txn' \in Seq(Nat) /\ batch' \in Seq(Message) /\ cpc' = "down" /\ Shape'
<1>1. /\ cpc' = "down" /\ batch' = <<>> /\ txn' = <<>>
      /\ DOMAIN <<>> = {} /\ <<>> \in Seq(Nat) /\ <<>> \in Seq(Message)
  BY DEF Halt
<1>2. ReadShape' /\ AckShape'
  BY <1>1 DEF Shape, ReadShape, AckShape
<1>3. BatchShape' /\ TxnShape' /\ BatchIsNewer'
  BY <1>1 DEF BatchShape, TxnShape, BatchIsNewer
<1> QED BY <1>1, <1>2, <1>3 DEF Shape

\* The next message is newer than what was written.
LEMMA NextShape ==
  ASSUME TypeOK, Shape, NextMessage, cpc \in {"message", "commit", "ack", "count"},
         status'.log = status.log, status'.read = status.read,
         committed' = committed, txn' \in {txn, <<>>}
  PROVE  /\ txn' \in Seq(Nat) /\ batch' \in Seq(Message) /\ cpc' \in {"poll", "message"}
         /\ Shape'
<1>0. /\ batch \in Seq(Message) /\ batch # <<>> /\ txn \in Seq(Nat) /\ <<>> \in Seq(Nat)
      /\ DOMAIN <<>> = {} /\ ToSet(<<>>) = {} /\ status \in Stream(Report)
  BY ToSetEmpty DEF TypeOK, Shape, BatchShape
<1>1. /\ batch' = Tail(batch) /\ batch' \in Seq(Message)
      /\ Len(batch) \in Nat \ {0}
      /\ DOMAIN batch' = 1 .. Len(batch) - 1
      /\ DOMAIN batch = 1 .. Len(batch)
      /\ \A n \in 1 .. Len(batch) - 1 : batch'[n] = batch[n + 1]
      /\ batch' = <<>> <=> Len(batch) = 1
      /\ cpc' = IF Len(batch) = 1 THEN "poll" ELSE "message"
  BY <1>0, TailOf DEF NextMessage
<1>2. ReadShape' /\ AckShape'
  BY <1>1 DEF Shape, ReadShape, AckShape
<1>3. BatchShape'
  <2>1. batch' = <<>> <=> cpc' \in {"poll", "reading", "down"}
    BY <1>1
  <2>2. ASSUME NEW n \in DOMAIN batch'
        PROVE  /\ batch'[n].id \in 1 .. status'.read
               /\ batch'[n].body = status'.log[batch'[n].id]
               /\ \A m \in 1 .. n - 1 : batch'[m].id < batch'[n].id
    <3>1. n + 1 \in DOMAIN batch /\ batch'[n] = batch[n + 1]
      BY <1>1
    <3>2. \A m \in 1 .. n - 1 : m + 1 \in 1 .. (n + 1) - 1 /\ batch'[m] = batch[m + 1]
      BY <1>1
    <3>3. /\ batch[n + 1].id \in 1 .. status.read
          /\ batch[n + 1].body = status.log[batch[n + 1].id]
          /\ \A m \in 1 .. (n + 1) - 1 : batch[m].id < batch[n + 1].id
      BY <3>1 DEF Shape, BatchShape
    <3>4. \A m \in 1 .. n - 1 : batch'[m].id < batch'[n].id
      BY <3>1, <3>2, <3>3
    <3> QED BY <3>1, <3>3, <3>4
  <2> QED BY <2>1, <2>2 DEF BatchShape
<1>4. TxnShape'
  BY <1>0 DEF Shape, TxnShape, Known
<1>5. BatchIsNewer'
  <2> SUFFICES ASSUME NEW n \in DOMAIN batch', NEW i \in ToSet(txn') \cup committed'
               PROVE  i < batch'[n].id /\ i <= batch'[n].id
    BY DEF BatchIsNewer
  <2>1. n + 1 \in DOMAIN batch /\ n + 1 > 1 /\ batch'[n] = batch[n + 1]
    BY <1>1
  <2>2. i \in ToSet(txn) \cup committed
    BY <1>0
  <2>3. i < batch[n + 1].id /\ i <= batch[n + 1].id
    BY <2>1, <2>2 DEF Shape, BatchIsNewer
  <2> QED BY <2>1, <2>3
<1> QED BY <1>0, <1>1, <1>2, <1>3, <1>4, <1>5 DEF Shape

\* A step that leaves the stream, the batch, the transaction and what is
\* committed alone, and does not turn to another message.
LEMMA SameShape ==
  ASSUME TypeOK, Shape, status'.log = status.log, status'.read = status.read,
         UNCHANGED <<batch, txn, committed>>,
         \/ cpc' = cpc
         \/ cpc' \in {"poll", "reading", "down"} /\ cpc \in {"poll", "reading", "down"}
         \/ cpc = "ack" /\ cpc' = "count"
  PROVE  Shape'
<1>1. ReadShape' /\ AckShape'
  BY DEF Shape, ReadShape, AckShape, Current
<1>2. BatchShape'
  BY DEF Shape, BatchShape
<1>3. TxnShape'
  BY DEF Shape, TxnShape, Known
<1>4. BatchIsNewer'
  BY DEF Shape, BatchIsNewer
<1> QED BY <1>1, <1>2, <1>3, <1>4 DEF Shape

\* Acknowledging leaves the stream's entries alone; it succeeds, or the
\* process dies.
LEMMA AcknowledgeOutcomes ==
  ASSUME TypeOK, NEW ACTION done, Acknowledge(done)
  PROVE  /\ status' \in Stream(Report)
         /\ status'.log = status.log /\ status'.read = status.read
         /\ status'.trimmed = status.trimmed
         /\ status'.pel = status.pel \/ status'.pel = status.pel \ {Current.id}
         /\ faults' \in [FaultKind -> Nat]
         /\ (done /\ UNCHANGED txn) \/ Halt
<1>0. status \in Stream(Report) /\ faults \in [FaultKind -> Nat] /\ {"link", "lostReply"} \subseteq FaultKind
  BY DEF TypeOK, FaultKind
<1>1. /\ XAck(status, Current.id) \in Stream(Report)
      /\ XAck(status, Current.id).log = status.log
      /\ XAck(status, Current.id).read = status.read
      /\ XAck(status, Current.id).trimmed = status.trimmed
      /\ XAck(status, Current.id).pel = status.pel \ {Current.id}
  BY <1>0, XAckKeeps DEF XAck, Stream
<1>2. ASSUME Suffer("link") \/ Suffer("lostReply")
      PROVE  faults' \in [FaultKind -> Nat]
  BY <1>0, <1>2, SufferCounts
<1> QED BY <1>0, <1>1, <1>2 DEF Acknowledge

\* A commit gives a row its newest status in the transaction, if there is
\* one, and leaves it alone otherwise.
LEMMA AppliedIs ==
  ASSUME TypeOK, Shape, NEW j \in Jobs
  PROVE  \/ /\ \E i \in ToSet(txn) :
                 /\ status.log[i].job = j
                 /\ \A k \in ToSet(txn) : status.log[k].job = j => k <= i
                 /\ Applied(db, txn)[j] = status.log[i].status
         \/ /\ \A i \in ToSet(txn) : status.log[i].job # j
            /\ Applied(db, txn)[j] = db[j]
<1> DEFINE stmts == Statements(txn)
           S     == {n \in DOMAIN stmts : stmts[n].job = j}
<1>1. /\ DOMAIN txn = 1 .. Len(txn) /\ Len(txn) \in Nat
      /\ db \in [Jobs -> ALLOWED_STATUSES] /\ DOMAIN db = Jobs
      /\ db[j] \in ALLOWED_STATUSES
  BY LenProperties DEF TypeOK
<1>2. DOMAIN stmts = 1 .. Len(txn) /\ \A n \in DOMAIN txn : stmts[n] = status.log[txn[n]]
  BY <1>1 DEF Statements
<1>3. Applied(db, txn)[j] =
        IF db[j] # "absent" /\ Updated(j, stmts) THEN LastUpdate(j, stmts) ELSE db[j]
  BY <1>1 DEF Applied, Committed
<1>4. db[j] # "absent"
  BY <1>1 DEF ALLOWED_STATUSES
<1> HIDE DEF stmts
<1>5. CASE S = {}
  <2>1. ~ Updated(j, stmts)
    BY <1>5 DEF Updated
  <2>2. \A i \in ToSet(txn) : status.log[i].job # j
    BY <1>1, <1>2, <1>5 DEF ToSet
  <2> QED BY <1>3, <2>1, <2>2
<1>6. CASE S # {}
  <2>1. Max(S) \in S /\ \A n \in S : n <= Max(S)
    <3>1. S \in SUBSET (1 .. Len(txn))
      BY <1>2
    <3> QED BY <1>1, <1>6, <3>1, LastOf
  <2>2. Updated(j, stmts) /\ LastUpdate(j, stmts) = stmts[Max(S)].status
    BY <1>6 DEF Updated, LastUpdate
  <2>3. PICK n \in 1 .. Len(txn) : n = Max(S)
    BY <1>2, <2>1
  <2>4. /\ status.log[txn[n]].job = j /\ txn[n] \in ToSet(txn)
        /\ Applied(db, txn)[j] = status.log[txn[n]].status
    BY <1>1, <1>2, <1>3, <1>4, <2>1, <2>2, <2>3 DEF ToSet
  <2>5. ASSUME NEW k \in ToSet(txn), status.log[k].job = j
        PROVE  k <= txn[n]
    <3>1. PICK m \in 1 .. Len(txn) : txn[m] = k
      BY <1>1, <2>5 DEF ToSet
    <3>2. m \in S
      BY <1>1, <1>2, <2>5, <3>1
    <3>3. m <= n
      BY <2>1, <2>3, <3>2
    <3>4. /\ \A x \in 1 .. n - 1 : txn[x] < txn[n]
          /\ txn[n] \in 1 .. status.read /\ txn[m] \in 1 .. status.read
      BY <1>1 DEF Shape, TxnShape
    <3>5. m \in 1 .. n - 1 \/ m = n
      BY <3>3
    <3>6. txn[m] <= txn[n]
      <4>1. txn[m] \in Nat /\ txn[n] \in Nat
        BY <1>1 DEF TypeOK
      <4> QED BY <3>4, <3>5, <4>1
    <3> QED BY <3>1, <3>6
  <2> QED BY <2>4, <2>5
<1> QED BY <1>5, <1>6

\* What the entries of the transaction and of the batch are.
LEMMA EntriesRead ==
  ASSUME TypeOK, Shape
  PROVE  /\ \A i \in ToSet(txn) : i \in DOMAIN status.log /\ i \in 1 .. status.read /\ Known(i)
         /\ status.read \in Nat /\ DOMAIN status.log = 1 .. Len(status.log)
         /\ Len(status.log) \in Nat
<1>1. status.read \in Nat /\ DOMAIN status.log = 1 .. Len(status.log) /\ Len(status.log) \in Nat
  BY LenProperties DEF TypeOK, Stream
<1>2. ASSUME NEW i \in ToSet(txn)
      PROVE  i \in 1 .. status.read /\ Known(i)
  BY DEF Shape, TxnShape, ToSet
<1> QED BY <1>1, <1>2 DEF Shape, ReadShape

\* The rows keep showing statuses.
LEMMA AppliedTyped ==
  ASSUME TypeOK, Shape
  PROVE  Applied(db, txn) \in [Jobs -> ALLOWED_STATUSES]
<1>1. \A j \in Jobs : Applied(db, txn)[j] \in ALLOWED_STATUSES
  BY AppliedIs, EntriesRead DEF TypeOK, Known
<1>2. Applied(db, txn) = [j \in Jobs |-> Applied(db, txn)[j]]
  BY DEF Applied, Committed, TypeOK
<1> QED BY <1>1, <1>2

-----------------------------------------------------------------------------
(***************************************************************************)
(* Types and shape                                                         *)
(***************************************************************************)

\* In every initial state the variables have their types and shape.
LEMMA InitShape == Init => TypeOK /\ Shape
<1> SUFFICES ASSUME Init PROVE TypeOK /\ Shape
  OBVIOUS
<1>1. TypeOK
  <2>1. EmptyStream \in Stream(Report)
    BY DEF EmptyStream, Stream
  <2>2. db \in [Jobs -> ALLOWED_STATUSES] /\ faults \in [FaultKind -> Nat]
    BY DEF Init, ALLOWED_STATUSES
  <2> QED BY <2>1, <2>2 DEF Init, TypeOK
<1>2. Shape
  BY DEF Init, EmptyStream, Shape, ReadShape, BatchShape, TxnShape, BatchIsNewer, AckShape
<1> QED BY <1>1, <1>2

\* A read turns to a batch that is newer than all that was written.
LEMMA ReadBatchShape ==
  ASSUME TypeOK, Shape, ReadBatch
  PROVE  TypeOK' /\ Shape'
<1>0. /\ status \in Stream(Report) /\ BatchSize \in Nat \ {0} /\ HasUnread(status)
      /\ status' = Delivered(status, BatchSize) /\ batch' = Reply(status, BatchSize)
      /\ cpc' = "message"
      /\ UNCHANGED <<db, txn, running, stats, faults, committed>>
  BY ConsumerAssumption DEF ReadBatch, TypeOK
<1>1. /\ status' \in Stream(Report) /\ status'.log = status.log
      /\ batch' \in Seq(Message) /\ batch' # <<>>
  BY <1>0, DeliveredKeeps DEF Message
<1>2. /\ status'.read \in Nat /\ status'.read >= status.read
      /\ status'.read <= Len(status.log)
      /\ \A n \in DOMAIN batch' :
           /\ batch'[n].id \in status.read + 1 .. status'.read
           /\ batch'[n].body = status.log[batch'[n].id]
           /\ \A m \in 1 .. n - 1 : batch'[m].id < batch'[n].id
  BY <1>0, ReplyAscends
<1>3. status.read \in Nat
  BY EntriesRead
<1>4. TypeOK'
  BY <1>0, <1>1 DEF TypeOK
<1>5. ReadShape'
  BY <1>0, <1>1, <1>2, <1>3 DEF Shape, ReadShape
<1>6. BatchShape'
  BY <1>0, <1>1, <1>2, <1>3 DEF BatchShape
<1>7. TxnShape'
  BY <1>0, <1>1, <1>2, <1>3 DEF Shape, TxnShape, Known
<1>8. BatchIsNewer'
  <2> SUFFICES ASSUME NEW n \in DOMAIN batch', NEW i \in ToSet(txn) \cup committed
               PROVE  i < batch'[n].id /\ i <= batch'[n].id
    BY <1>0 DEF BatchIsNewer
  <2>1. i \in 1 .. status.read
    BY EntriesRead DEF Shape, ReadShape
  <2> QED BY <1>2, <1>3, <2>1
<1>9. AckShape'
  BY <1>0 DEF AckShape
<1> QED BY <1>4, <1>5, <1>6, <1>7, <1>8, <1>9 DEF Shape

\* An update adds the newest entry to the transaction.
LEMMA UpdateShape ==
  ASSUME TypeOK, Shape, Update
  PROVE  TypeOK' /\ Shape'
<1>0. /\ batch \in Seq(Message) /\ txn \in Seq(Nat) /\ batch # <<>> /\ cpc = "message"
      /\ Current.body.status \in ALLOWED_STATUSES
      /\ txn' = Append(txn, Current.id) /\ cpc' = "commit"
      /\ UNCHANGED <<status, db, batch, running, stats, faults, committed>>
  BY DEF Update, TypeOK, Shape, BatchShape
<1>1. Current = batch[1] /\ 1 \in DOMAIN batch /\ Current.id \in Nat
  <2>1. Current \in Message /\ Current = batch[1] /\ DOMAIN batch = 1 .. Len(batch) /\ Len(batch) \in Nat \ {0}
    BY <1>0, TailOf DEF Current
  <2> QED BY <2>1 DEF Message
<1>2. /\ Current.id \in 1 .. status.read /\ Known(Current.id)
      /\ \A i \in ToSet(txn) \cup committed : i < Current.id
  BY <1>0, <1>1 DEF Shape, BatchShape, BatchIsNewer, Known
<1>3. /\ txn' \in Seq(Nat) /\ DOMAIN txn' = 1 .. Len(txn) + 1
      /\ DOMAIN txn = 1 .. Len(txn) /\ Len(txn) \in Nat
      /\ \A n \in 1 .. Len(txn) : txn'[n] = txn[n]
      /\ txn'[Len(txn) + 1] = Current.id
      /\ ToSet(txn') = ToSet(txn) \cup {Current.id}
  <2> DEFINE id == Current.id
  <2> HIDE DEF id
  <2>1. /\ Append(txn, id) \in Seq(Nat) /\ DOMAIN Append(txn, id) = 1 .. Len(txn) + 1
        /\ DOMAIN txn = 1 .. Len(txn) /\ Len(txn) \in Nat
        /\ \A n \in 1 .. Len(txn) : Append(txn, id)[n] = txn[n]
        /\ Append(txn, id)[Len(txn) + 1] = id
    BY <1>0, <1>1, AppendOf DEF id
  <2>2. ToSet(Append(txn, id)) = ToSet(txn) \cup {id}
    BY <1>0, <1>1, ToSetAppend DEF id
  <2> QED BY <1>0, <2>1, <2>2 DEF id
<1>4. TypeOK'
  BY <1>0, <1>3 DEF TypeOK
<1>5. ReadShape' /\ BatchShape' /\ AckShape'
  BY <1>0, <1>3 DEF Shape, ReadShape, BatchShape, AckShape, Current
<1>6. TxnShape'
  <2> SUFFICES ASSUME NEW n \in 1 .. Len(txn) + 1
               PROVE  /\ txn'[n] \in 1 .. status.read
                      /\ Known(txn'[n])
                      /\ \A m \in 1 .. n - 1 : txn'[m] < txn'[n]
                      /\ \A i \in committed : i < txn'[n]
    BY <1>0, <1>3 DEF TxnShape, Known
  <2>1. CASE n = Len(txn) + 1
    <3>1. \A m \in 1 .. n - 1 : txn'[m] = txn[m] /\ txn[m] \in ToSet(txn)
      BY <1>3, <2>1 DEF ToSet
    <3> QED BY <1>2, <1>3, <2>1, <3>1
  <2>2. CASE n \in 1 .. Len(txn)
    <3>1. txn'[n] = txn[n] /\ \A m \in 1 .. n - 1 : txn'[m] = txn[m]
      BY <1>3, <2>2
    <3> QED BY <1>3, <2>2, <3>1 DEF Shape, TxnShape
  <2> QED BY <1>3, <2>1, <2>2
<1>7. BatchIsNewer'
  <2> SUFFICES ASSUME NEW n \in DOMAIN batch, NEW i \in ToSet(txn) \cup committed \cup {Current.id}
               PROVE  i <= batch[n].id /\ (n > 1 => i < batch[n].id)
    BY <1>0, <1>3 DEF BatchIsNewer
  <2>1. CASE i = Current.id
    <3>1. n \in Nat /\ n >= 1
      BY <1>0, TailOf
    <3>2. n > 1 => batch[1].id < batch[n].id
      BY <3>1 DEF Shape, BatchShape
    <3>3. batch[n].id \in Nat /\ batch[1].id \in Nat
      BY <1>1, EntriesRead DEF Shape, BatchShape
    <3> QED BY <1>1, <2>1, <3>1, <3>2, <3>3
  <2>2. CASE i \in ToSet(txn) \cup committed
    BY <2>2 DEF Shape, BatchIsNewer
  <2> QED BY <2>1, <2>2
<1> QED BY <1>4, <1>5, <1>6, <1>7 DEF Shape

\* A commit writes the transaction's entries, the current one among them.
LEMMA CommitShape ==
  ASSUME TypeOK, Shape, Commit
  PROVE  TypeOK' /\ Shape'
<1>0. /\ db' = Applied(db, txn) /\ committed' = committed \cup ToSet(txn)
      /\ txn' = <<>> /\ <<>> \in Seq(Nat) /\ DOMAIN <<>> = {} /\ ToSet(<<>>) = {}
      /\ cpc = "commit" /\ cpc' = "ack"
      /\ UNCHANGED <<status, batch, running, stats, faults>>
  BY ToSetEmpty DEF Commit
<1>1. ToSet(txn) \subseteq 1 .. status.read /\ status.read \in Nat
  BY EntriesRead
<1>2. TypeOK'
  <2>1. db' \in [Jobs -> ALLOWED_STATUSES]
    BY <1>0, AppliedTyped, Zenon
  <2>2. committed' \subseteq Nat
    <3>1. committed \subseteq Nat /\ ToSet(txn) \subseteq Nat
      BY <1>1 DEF TypeOK
    <3> QED BY <1>0, <3>1
  <2> QED BY <1>0, <2>1, <2>2 DEF TypeOK
<1>3. ReadShape' /\ BatchShape' /\ AckShape'
  BY <1>0, <1>1 DEF Shape, ReadShape, BatchShape, AckShape, Current
<1>4. TxnShape' /\ BatchIsNewer'
  BY <1>0 DEF Shape, TxnShape, BatchIsNewer
<1> QED BY <1>2, <1>3, <1>4 DEF Shape

\* A status that arrives comes behind all the others.
LEMMA ArriveShape ==
  ASSUME TypeOK, Shape, NEW r \in Report, Arrive(r)
  PROVE  TypeOK' /\ Shape'
<1>0. /\ status \in Stream(Report) /\ StreamMaxLen \in Nat
      /\ status' \in XAdd(status, r, 1, StreamMaxLen)
      /\ UNCHANGED <<db, txn, batch, cpc, running, stats, faults, committed>>
  BY ConsumerAssumption DEF Arrive, TypeOK, consumerVars
<1>1. /\ status' \in Stream(Report) /\ status'.read = status.read
      /\ Len(status'.log) = Len(status.log) + 1
      /\ \A i \in 1 .. Len(status.log) : status'.log[i] = status.log[i]
  BY <1>0, XAddKeeps, XAddOnce
<1>2. /\ status.read \in Nat /\ Len(status.log) \in Nat /\ status.read <= Len(status.log)
      /\ \A i \in 1 .. status.read : status'.log[i] = status.log[i]
  BY <1>1, EntriesRead DEF Shape, ReadShape
<1>3. TypeOK'
  BY <1>0, <1>1 DEF TypeOK
<1>4. ReadShape' /\ AckShape'
  BY <1>0, <1>1, <1>2 DEF Shape, ReadShape, AckShape, Current
<1>5. BatchShape'
  BY <1>0, <1>1, <1>2 DEF Shape, BatchShape
<1>6. TxnShape'
  BY <1>0, <1>1, <1>2 DEF Shape, TxnShape, Known
<1>7. BatchIsNewer'
  BY <1>0 DEF Shape, BatchIsNewer
<1> QED BY <1>3, <1>4, <1>5, <1>6, <1>7 DEF Shape

\* Every step keeps types and shape.
LEMMA StepShape ==
  ASSUME TypeOK, Shape, [Next]_vars
  PROVE  TypeOK' /\ Shape'
<1>0. /\ status \in Stream(Report) /\ faults \in [FaultKind -> Nat]
      /\ FaultKind = {"link", "crash", "stop", "db", "lostReply"}
      /\ status' = status => status'.log = status.log /\ status'.read = status.read
  BY DEF TypeOK, FaultKind
<1>1. ASSUME NEW k \in FaultKind, Suffer(k)
      PROVE  faults' \in [FaultKind -> Nat]
  BY <1>0, <1>1, SufferCounts
<1>2. CASE UNCHANGED vars
  <2>1. TypeOK'
    BY <1>2 DEF TypeOK, vars, consumerVars
  <2> QED BY <1>0, <1>2, <2>1, SameShape DEF vars, consumerVars
<1>3. CASE Poll
  <2>1. CASE running
    BY <1>0, <1>3, <2>1, SameShape DEF Poll, TypeOK
  <2>2. CASE ~ running
    BY <1>0, <1>3, <2>2, HaltShape DEF Poll, TypeOK
  <2> QED BY <2>1, <2>2
<1>4. CASE ReadNothing
  BY <1>0, <1>1, <1>4, SameShape DEF ReadNothing, TypeOK
<1>5. CASE ReadLost
  <2>0. /\ HasUnread(status) /\ BatchSize \in Nat \ {0} /\ status' = Delivered(status, BatchSize)
        /\ faults' \in [FaultKind -> Nat]
        /\ cpc = "reading" /\ cpc' = "poll"
        /\ UNCHANGED <<db, txn, batch, running, stats, committed>>
    BY <1>0, <1>1, <1>5, ConsumerAssumption DEF ReadLost
  <2>1. /\ status' \in Stream(Report) /\ status'.log = status.log
        /\ status'.read \in Nat /\ status'.read >= status.read
        /\ status'.read <= Len(status.log)
    BY <1>0, <2>0, DeliveredKeeps, ReplyAscends
  <2>2. TypeOK'
    BY <2>0, <2>1 DEF TypeOK
  <2>3. ReadShape' /\ AckShape'
    BY <2>0, <2>1, EntriesRead DEF Shape, ReadShape, AckShape
  <2>4. batch = <<>>
    BY <2>0 DEF Shape, BatchShape
  <2>5. BatchShape' /\ BatchIsNewer'
    BY <2>0, <2>4 DEF BatchShape, BatchIsNewer
  <2>6. TxnShape'
    BY <2>0, <2>1, EntriesRead DEF Shape, TxnShape, Known
  <2> QED BY <2>2, <2>3, <2>5, <2>6 DEF Shape
<1>6. CASE SkipUnknown
  <2>1. Acknowledge(NextMessage)
    BY <1>6 DEF SkipUnknown
  <2>2. CASE NextMessage /\ UNCHANGED txn
    BY <1>6, <2>1, <2>2, AcknowledgeOutcomes, NextShape DEF SkipUnknown, TypeOK
  <2>3. CASE Halt
    BY <1>6, <2>1, <2>3, AcknowledgeOutcomes, HaltShape DEF SkipUnknown, TypeOK
  <2> QED BY <2>1, <2>2, <2>3, AcknowledgeOutcomes
<1>7. CASE DbError
  BY <1>0, <1>1, <1>7, NextShape DEF DbError, TypeOK
<1>8. CASE Ack
  <2> DEFINE Onward == IF Current.body.status \in DOMAIN STAT_MAP
                         THEN cpc' = "count" /\ UNCHANGED batch
                         ELSE NextMessage
  <2>1. Acknowledge(Onward)
    BY <1>8 DEF Ack
  <2> HIDE DEF Onward
  <2>2. /\ status' \in Stream(Report)
        /\ status'.log = status.log /\ status'.read = status.read
        /\ faults' \in [FaultKind -> Nat]
        /\ (Onward /\ UNCHANGED txn) \/ Halt
    BY <2>1, AcknowledgeOutcomes
  <2>3. CASE NextMessage /\ UNCHANGED txn
    BY <1>8, <2>2, <2>3, NextShape DEF Ack, TypeOK
  <2>4. CASE cpc' = "count" /\ UNCHANGED <<batch, txn>>
    BY <1>8, <2>2, <2>4, SameShape DEF Ack, TypeOK
  <2>5. CASE Halt
    BY <1>8, <2>2, <2>5, HaltShape DEF Ack, TypeOK
  <2> QED BY <2>2, <2>3, <2>4, <2>5 DEF Onward
<1>9. CASE Count
  <2>1. stats' \in [{"processed", "failed", "dead"} -> Nat]
    <3> DEFINE field == STAT_MAP[Current.body.status]
    <3>1. stats' = [stats EXCEPT ![field] = @ + 1] \/ UNCHANGED stats
      BY <1>9 DEF Count
    <3> HIDE DEF field
    <3> QED BY <3>1 DEF TypeOK
  <2>2. faults' \in [FaultKind -> Nat]
    BY <1>0, <1>1, <1>9 DEF Count
  <2> QED BY <1>0, <1>9, <2>1, <2>2, NextShape DEF Count, TypeOK
<1>10. CASE Signal
  BY <1>0, <1>1, <1>10, SameShape DEF Signal, TypeOK
<1>11. CASE Crash
  BY <1>0, <1>1, <1>11, HaltShape DEF Crash, TypeOK
<1>12. CASE Restart
  BY <1>0, <1>12, SameShape DEF Restart, TypeOK
<1> QED BY <1>2, <1>3, <1>4, <1>5, <1>6, <1>7, <1>8, <1>9, <1>10, <1>11, <1>12,
          ReadBatchShape, UpdateShape, CommitShape, ArriveShape DEF Next, Consumer

(***************************************************************************)
(* The variables keep their types, and what was read, is being written and *)
(* was written is ordered as in the stream (main).                         *)
(***************************************************************************)
THEOREM ConsumerShape == Spec => [](TypeOK /\ Shape)
<1>1. TypeOK /\ Shape /\ [Next]_vars => (TypeOK /\ Shape)'
  BY StepShape
<1> QED BY InitShape, <1>1, PTL DEF Spec

(***************************************************************************)
(* The variables keep their types; among others, the process never goes on *)
(* without a message, and a row only ever shows a status the consumer      *)
(* knows.                                                                  *)
(***************************************************************************)
THEOREM ConsumerTypeCorrect == Spec => []TypeOK
  BY ConsumerShape, PTL

-----------------------------------------------------------------------------
(***************************************************************************)
(* Acknowledged after committed                                            *)
(***************************************************************************)

\* How a step may change the stream.
LEMMA StreamSteps ==
  ASSUME TypeOK, Shape, Next
  PROVE  \/ status' = status
         \/ HasUnread(status) /\ status' = Delivered(status, BatchSize)
         \/ /\ status'.log = status.log /\ status'.read = status.read
            /\ status'.trimmed = status.trimmed
            /\ status'.pel = status.pel \/ status'.pel = status.pel \ {Current.id}
            /\ SkipUnknown \/ Ack
         \/ \E r \in Report : Arrive(r)
<1>1. CASE SkipUnknown
  BY <1>1, AcknowledgeOutcomes DEF SkipUnknown
<1>2. CASE Ack
  <2> DEFINE Onward == IF Current.body.status \in DOMAIN STAT_MAP
                         THEN cpc' = "count" /\ UNCHANGED batch
                         ELSE NextMessage
  <2>1. Acknowledge(Onward)
    BY <1>2 DEF Ack
  <2> HIDE DEF Onward
  <2> QED BY <1>2, <2>1, AcknowledgeOutcomes
<1>3. CASE ReadBatch \/ ReadLost
  BY <1>3 DEF ReadBatch, ReadLost
<1>4. CASE \/ Poll \/ ReadNothing \/ Update \/ Commit \/ DbError \/ Count
           \/ Signal \/ Crash \/ Restart
  BY <1>4 DEF Poll, ReadNothing, Update, Commit, DbError, Count, Signal, Crash, Restart
<1> QED BY <1>1, <1>2, <1>3, <1>4 DEF Next, Consumer

\* No step takes an entry out of what is committed.
LEMMA CommittedStays ==
  ASSUME Next
  PROVE  committed \subseteq committed'
<1>1. CASE Commit
  BY <1>1 DEF Commit
<1>2. CASE ~ Commit
  BY <1>2 DEF Next, Consumer, Poll, ReadBatch, ReadNothing, ReadLost, SkipUnknown, Update, DbError,
     Ack, Count, Signal, Crash, Restart, Arrive
<1> QED BY <1>1, <1>2

\* A step acknowledges only what is committed or unknown.
LEMMA StepAcked ==
  ASSUME TypeOK, Shape, AckedIsCommitted, Next
  PROVE  AckedIsCommitted'
<1> SUFFICES ASSUME NEW i \in status'.trimmed + 1 .. status'.read,
                    i \notin status'.pel, Known(i)'
             PROVE  i \in committed'
  BY DEF AckedIsCommitted
<1>0. /\ status \in Stream(Report) /\ status.read \in Nat /\ status.trimmed \in Nat
      /\ BatchSize \in Nat \ {0} /\ StreamMaxLen \in Nat
      /\ Len(status.log) \in Nat /\ status.read <= Len(status.log)
  BY ConsumerAssumption, EntriesRead DEF TypeOK, Stream, Shape, ReadShape
<1>1. ASSUME i \in status.trimmed + 1 .. status.read, i \notin status.pel, Known(i)
      PROVE  i \in committed'
  BY <1>1, CommittedStays DEF AckedIsCommitted
<1>2. CASE status' = status
  BY <1>1, <1>2 DEF Known
<1>3. CASE HasUnread(status) /\ status' = Delivered(status, BatchSize)
  <2>1. /\ status'.trimmed = status.trimmed /\ status'.log = status.log
        /\ status.pel \subseteq status'.pel
        /\ \A k \in status.trimmed + 1 .. status'.read : k > status.read => k \in status'.pel
        /\ status'.read \in Nat
    <3>1. Delivered(status, BatchSize).read \in Nat
      BY <1>0, <1>3, ReplyAscends
    <3>2. Delivered(status, BatchSize).log = status.log
      BY <1>0, <1>3, DeliveredKeeps
    <3> QED BY <1>0, <1>3, <3>1, <3>2, DeliveredTruth
  <2>2. i <= status.read
    BY <1>0, <2>1
  <2> QED BY <1>0, <1>1, <2>1, <2>2 DEF Known
<1>4. ASSUME status'.log = status.log, status'.read = status.read, status'.trimmed = status.trimmed,
             status'.pel = status.pel \/ status'.pel = status.pel \ {Current.id},
             SkipUnknown \/ Ack
      PROVE  i \in committed'
  <2>1. CASE i = Current.id
    <3>1. CASE Ack
      BY <2>1, <3>1, CommittedStays DEF Ack, Shape, AckShape
    <3>2. CASE SkipUnknown
      <4>1. batch \in Seq(Message) /\ batch # <<>>
        BY <3>2 DEF SkipUnknown, TypeOK, Shape, BatchShape
      <4>2. Current = batch[1] /\ 1 \in DOMAIN batch
        BY <4>1, TailOf DEF Current
      <4>3. ~ Known(Current.id)
        BY <3>2, <4>2 DEF SkipUnknown, Shape, BatchShape, Known
      <4> QED BY <1>4, <2>1, <4>3 DEF Known
    <3> QED BY <1>4, <3>1, <3>2
  <2>2. CASE i # Current.id
    BY <1>1, <1>4, <2>2 DEF Known
  <2> QED BY <2>1, <2>2
<1>5. CASE \E r \in Report : Arrive(r)
  <2>1. PICK r \in Report : Arrive(r)
    BY <1>5
  <2>2. /\ status'.read = status.read /\ status'.pel = status.pel
        /\ status'.trimmed \in Nat /\ status'.trimmed >= status.trimmed
        /\ \A k \in 1 .. Len(status.log) : status'.log[k] = status.log[k]
    BY <1>0, <2>1, XAddOnce DEF Arrive
  <2>3. i \in status.trimmed + 1 .. status.read /\ i \in 1 .. Len(status.log)
    BY <1>0, <2>2
  <2> QED BY <1>1, <2>2, <2>3 DEF Known
<1> QED BY <1>2, <1>3, <1>4, <1>5, StreamSteps

(***************************************************************************)
(* What the group no longer owes the consumer is in the table, whatever    *)
(* dies, refuses or fails: XACK comes after the commit (main,              *)
(* status_consumer.py:90-103).                                             *)
(***************************************************************************)
THEOREM AckedAreCommitted == Spec => []AckedIsCommitted
<1>1. Init => AckedIsCommitted
  BY DEF Init, EmptyStream, AckedIsCommitted
<1>2. TypeOK /\ Shape /\ AckedIsCommitted /\ [Next]_vars => AckedIsCommitted'
  <2>1. CASE UNCHANGED vars
    BY <2>1 DEF vars, AckedIsCommitted, Known
  <2> QED BY <2>1, StepAcked
<1> QED BY ConsumerShape, <1>1, <1>2, PTL DEF Spec

-----------------------------------------------------------------------------
(***************************************************************************)
(* The consumer implements StatusWriter                                    *)
(***************************************************************************)

\* Steps that neither add a status nor commit are invisible to the writer.
LEMMA OthersStutter ==
  ASSUME TypeOK, Shape, Next, ~ Commit, ~ \E r \in Report : Arrive(r)
  PROVE  status'.log = status.log /\ UNCHANGED <<db, committed>>
<1>1. status'.log = status.log
  BY StreamSteps, DeliveredKeeps, ConsumerAssumption DEF TypeOK
<1>2. UNCHANGED <<db, committed>>
  BY DEF Next, Consumer, Poll, ReadBatch, ReadNothing, ReadLost, SkipUnknown, Update, DbError,
     Ack, Count, Signal, Crash, Restart
<1> QED BY <1>1, <1>2

\* A status that arrives is one more in the writer's log, and no row changes
\* what it shows.
LEMMA ArriveImplements ==
  ASSUME TypeOK, Shape, Writer!LatestShown, NEW r \in Report, Arrive(r)
  PROVE  Writer!Arrive /\ Writer!LatestShown'
<1>0. /\ status \in Stream(Report) /\ StreamMaxLen \in Nat
      /\ status' \in XAdd(status, r, 1, StreamMaxLen)
      /\ UNCHANGED <<db, committed>>
  BY ConsumerAssumption DEF Arrive, TypeOK
<1>1. status'.log = Append(status.log, r)
  <2>1. Appended(status.log, r, 1) = Append(status.log, r)
    BY DEF Appended
  <2>2. PICK t \in Evictions(status, Len(Append(status.log, r)), StreamMaxLen) :
          status' = [status EXCEPT !.log = Append(status.log, r), !.trimmed = t]
    BY <1>0, <2>1 DEF XAdd
  <2> QED BY <1>0, <2>2 DEF Stream
<1>2. Writer!Arrive
  BY <1>0, <1>1 DEF Writer!Arrive
<1>3. \A i \in 1 .. Len(status.log) : status'.log[i] = status.log[i]
  BY <1>0, XAddOnce
<1>4. \A i \in committed : status'.log[i] = status.log[i]
  <2>1. \A i \in committed : i \in 1 .. Len(status.log)
    BY EntriesRead DEF Shape, ReadShape
  <2> QED BY <1>3, <2>1
<1>5. ASSUME NEW j \in Jobs
      PROVE  Writer!Shows(j)'
  <2>1. Writer!Shows(j)
    BY DEF Writer!LatestShown
  <2> QED BY <1>0, <1>4, <2>1 DEF Writer!Shows
<1> QED BY <1>2, <1>5 DEF Writer!LatestShown

\* A commit is a write: of newer statuses than those written before, after
\* which every row shows the newest one written.
LEMMA CommitImplements ==
  ASSUME TypeOK, Shape, Writer!LatestShown, Commit
  PROVE  Writer!Write /\ Writer!LatestShown'
<1>0. /\ db' = Applied(db, txn) /\ committed' = committed \cup ToSet(txn)
      /\ UNCHANGED status
      /\ db \in [Jobs -> ALLOWED_STATUSES]
  BY DEF Commit, TypeOK
<1>1. committed' \subseteq DOMAIN status.log
  <2>1. committed \subseteq DOMAIN status.log
    BY EntriesRead DEF Shape, ReadShape
  <2>2. ToSet(txn) \subseteq DOMAIN status.log
    BY EntriesRead
  <2> QED BY <1>0, <2>1, <2>2
<1>2. \A k \in committed, i \in ToSet(txn) : k < i
  BY DEF Shape, TxnShape, ToSet
<1>3. db' = [j \in Jobs |-> db'[j]]
  BY <1>0, AppliedTyped
<1>4. \A i \in committed' : i \in Nat
  <2>1. DOMAIN status.log \subseteq Nat
    BY EntriesRead
  <2> QED BY <1>1, <2>1
<1>5. ASSUME NEW j \in Jobs
      PROVE  Writer!Shows(j)'
  <2>0. Writer!Shows(j)
    BY DEF Writer!LatestShown
  <2>1. ASSUME NEW i \in ToSet(txn), status.log[i].job = j,
               \A k \in ToSet(txn) : status.log[k].job = j => k <= i,
               Applied(db, txn)[j] = status.log[i].status
        PROVE  Writer!Shows(j)'
    <3>1. i \in committed' /\ db'[j] = status'.log[i].status /\ status'.log[i].job = j
      BY <1>0, <2>1
    <3>2. \A k \in committed' : status'.log[k].job = j => k <= i
      BY <1>0, <1>2, <1>4, <2>1
    <3> QED BY <3>1, <3>2 DEF Writer!Shows
  <2>2. ASSUME \A i \in ToSet(txn) : status.log[i].job # j, Applied(db, txn)[j] = db[j]
        PROVE  Writer!Shows(j)'
    <3>1. \A i : i \in committed' /\ status'.log[i].job = j <=> i \in committed /\ status.log[i].job = j
      BY <1>0, <2>2
    <3>2. db'[j] = db[j] /\ status' = status
      BY <1>0, <2>2
    <3> QED BY <2>0, <3>1, <3>2 DEF Writer!Shows
  <2> QED BY <2>1, <2>2, AppliedIs
<1>6. Writer!LatestShown'
  BY <1>5 DEF Writer!LatestShown
<1>7. Writer!Write
  BY <1>0, <1>1, <1>2, <1>3, <1>6 DEF Writer!Write
<1> QED BY <1>6, <1>7

\* Every step is a step of the writer, or one it does not see.
LEMMA StepImplements ==
  ASSUME TypeOK, Shape, Writer!LatestShown, [Next]_vars
  PROVE  [Writer!Next]_(Writer!vars) /\ Writer!LatestShown'
<1>1. CASE \E r \in Report : Arrive(r)
  BY <1>1, ArriveImplements DEF Writer!Next
<1>2. CASE Commit
  BY <1>2, CommitImplements DEF Writer!Next
<1>3. CASE status'.log = status.log /\ UNCHANGED <<db, committed>>
  BY <1>3 DEF Writer!vars, Writer!LatestShown, Writer!Shows
<1> QED BY <1>1, <1>2, <1>3, OthersStutter DEF vars

(***************************************************************************)
(* The consumer implements StatusWriter: some statuses are written, each   *)
(* once and none after a newer one, and a row always shows the newest      *)
(* written; through failed commits whose transaction stays open, crashes,  *)
(* refused commands, trims and restarts.                                   *)
(***************************************************************************)
THEOREM ConsumerImplementsWriter == Spec => Writes
<1>1. Init => Writer!Init /\ Writer!LatestShown
  BY DEF Init, EmptyStream, Writer!Init, Writer!LatestShown, Writer!Shows
<1>2. TypeOK /\ Shape /\ Writer!LatestShown /\ [Next]_vars => Writer!LatestShown'
  BY StepImplements
<1>3. TypeOK /\ Shape /\ Writer!LatestShown /\ [Next]_vars => [Writer!Next]_(Writer!vars)
  BY StepImplements
<1> QED BY ConsumerShape, <1>1, <1>2, <1>3, PTL DEF Spec, Writes, Writer!Spec

-----------------------------------------------------------------------------
(***************************************************************************)
(* Counted once                                                            *)
(***************************************************************************)

\* The entries with status s that were acknowledged, and the one among them
\* that HINCRBY is about to count.
AckedOf(s) == {i \in 1 .. status.read : i \notin status.pel /\ status.log[i].status = s}
Due(s)     == IF cpc = "count" /\ Current.body.status = s THEN 1 ELSE 0

\* Every message that is not yet acknowledged is still pending, and what was
\* counted, with what is about to be, was acknowledged.
CountShape ==
  /\ cpc = "count" => Current.body.status \in DOMAIN STAT_MAP
  /\ \A n \in DOMAIN batch : n > 1 \/ cpc # "count" => batch[n].id \in status.pel
  /\ \A s \in DOMAIN STAT_MAP : stats[STAT_MAP[s]] + Due(s) <= Cardinality(AckedOf(s))

\* There are finitely many positions up to one.
LEMMA UpToFinite ==
  ASSUME NEW n \in Nat
  PROVE  IsFiniteSet(1 .. n)
<1>1. 1 \in Int /\ n \in Int
  OBVIOUS
<1> QED BY <1>1, FS_Interval

\* What was acknowledged stays acknowledged.
LEMMA AckedGrows ==
  ASSUME TypeOK, Shape, Next, NEW s
  PROVE  /\ AckedOf(s) \subseteq AckedOf(s)'
         /\ IsFiniteSet(AckedOf(s)) /\ IsFiniteSet(AckedOf(s)')
         /\ Cardinality(AckedOf(s)) \in Nat /\ Cardinality(AckedOf(s)') \in Nat
         /\ Cardinality(AckedOf(s)) <= Cardinality(AckedOf(s)')
<1>0. /\ status \in Stream(Report) /\ status.read \in Nat
      /\ BatchSize \in Nat \ {0} /\ StreamMaxLen \in Nat
      /\ Len(status.log) \in Nat /\ status.read <= Len(status.log)
  BY ConsumerAssumption, EntriesRead DEF TypeOK, Shape, ReadShape
<1>1. status'.read \in Nat
  BY StepShape DEF TypeOK, Stream
<1>2. AckedOf(s) \subseteq AckedOf(s)'
  <2>1. CASE status' = status
    BY <2>1 DEF AckedOf
  <2>2. CASE HasUnread(status) /\ status' = Delivered(status, BatchSize)
    <3>1. /\ status'.log = status.log /\ status'.read >= status.read /\ status'.read \in Nat
          /\ \A i \in 1 .. status.read : i \in status'.pel => i \in status.pel
      BY <1>0, <2>2, DeliveredKeeps, ReplyAscends
    <3>2. 1 .. status.read \subseteq 1 .. status'.read
      BY <1>0, <3>1
    <3> QED BY <3>1, <3>2 DEF AckedOf
  <2>3. CASE /\ status'.log = status.log /\ status'.read = status.read
             /\ status'.pel = status.pel \/ status'.pel = status.pel \ {Current.id}
    BY <2>3 DEF AckedOf
  <2>4. CASE \E r \in Report : Arrive(r)
    <3>1. PICK r \in Report : Arrive(r)
      BY <2>4
    <3>2. /\ status'.read = status.read /\ status'.pel = status.pel
          /\ \A k \in 1 .. Len(status.log) : status'.log[k] = status.log[k]
      BY <1>0, <3>1, XAddOnce DEF Arrive
    <3>3. 1 .. status.read \subseteq 1 .. Len(status.log)
      BY <1>0
    <3> QED BY <3>2, <3>3 DEF AckedOf
  <2> QED BY <2>1, <2>2, <2>3, <2>4, StreamSteps
<1>3. IsFiniteSet(AckedOf(s))
  <2>1. AckedOf(s) \in SUBSET (1 .. status.read)
    BY DEF AckedOf
  <2>2. IsFiniteSet(1 .. status.read)
    BY <1>0, UpToFinite
  <2> QED BY <2>1, <2>2, FS_Subset
<1>4. IsFiniteSet(AckedOf(s)')
  <2>1. AckedOf(s)' \in SUBSET (1 .. status'.read)
    BY DEF AckedOf
  <2>2. IsFiniteSet(1 .. status'.read)
    BY <1>1, UpToFinite
  <2> QED BY <2>1, <2>2, FS_Subset
<1> QED BY <1>2, <1>3, <1>4, FS_Subset, FS_CardinalityType

\* The messages that are left of a batch are still pending.
LEMMA TailPending ==
  ASSUME TypeOK, Shape, CountShape, NextMessage, batch # <<>>,
         status'.pel = status.pel \/ status'.pel = status.pel \ {Current.id}
  PROVE  \A n \in DOMAIN batch' : batch'[n].id \in status'.pel
<1>1. /\ DOMAIN batch' = 1 .. Len(batch) - 1 /\ DOMAIN batch = 1 .. Len(batch)
      /\ Len(batch) \in Nat \ {0}
      /\ \A n \in 1 .. Len(batch) - 1 : batch'[n] = batch[n + 1]
      /\ Current = batch[1]
  BY TailOf DEF NextMessage, TypeOK, Current
<1> TAKE n \in DOMAIN batch'
<1>2. /\ n + 1 \in DOMAIN batch /\ n + 1 > 1 /\ batch'[n] = batch[n + 1]
      /\ 1 \in 1 .. (n + 1) - 1 /\ 1 \in DOMAIN batch
  BY <1>1
<1>3. batch[n + 1].id \in status.pel
  BY <1>2 DEF CountShape
<1>4. batch[1].id < batch[n + 1].id
  BY <1>2 DEF Shape, BatchShape
<1>5. batch[1].id \in Nat /\ batch[n + 1].id \in Nat
  BY <1>2, EntriesRead DEF Shape, BatchShape
<1>6. batch[n + 1].id # Current.id
  BY <1>1, <1>4, <1>5
<1> QED BY <1>2, <1>3, <1>6

\* A step that counts nothing, and is not about to.
LEMMA NothingDue ==
  ASSUME TypeOK, Shape, CountShape, Next, stats' = stats, cpc' # "count"
  PROVE  \A s \in DOMAIN STAT_MAP : stats'[STAT_MAP[s]] + Due(s)' <= Cardinality(AckedOf(s)')
<1> TAKE s \in DOMAIN STAT_MAP
<1>1. STAT_MAP[s] \in {"processed", "failed", "dead"}
  BY DEF STAT_MAP
<1>2. stats[STAT_MAP[s]] \in Nat
  BY <1>1 DEF TypeOK
<1>3. Due(s) \in Nat /\ Due(s)' = 0
  BY DEF Due
<1>4. stats[STAT_MAP[s]] + Due(s) <= Cardinality(AckedOf(s))
  BY DEF CountShape
<1>5. /\ Cardinality(AckedOf(s)) \in Nat /\ Cardinality(AckedOf(s)') \in Nat
      /\ Cardinality(AckedOf(s)) <= Cardinality(AckedOf(s)')
  BY AckedGrows
<1>6. stats[STAT_MAP[s]] + 0 <= Cardinality(AckedOf(s)')
  BY <1>2, <1>3, <1>4, <1>5
<1> QED BY <1>3, <1>6

\* The acknowledgement of an entry that is to be counted.
LEMMA AckDue ==
  ASSUME TypeOK, Shape, CountShape, Next, Ack, cpc' = "count", UNCHANGED batch,
         status'.log = status.log, status'.read = status.read,
         status'.pel = status.pel \ {Current.id}, Current.body.status \in DOMAIN STAT_MAP
  PROVE  CountShape'
<1>0. /\ batch # <<>> /\ cpc = "ack" /\ stats' = stats /\ Current' = Current
  BY DEF Ack, Shape, BatchShape, Current
<1>1. Current = batch[1] /\ DOMAIN batch = 1 .. Len(batch) /\ Len(batch) \in Nat \ {0}
  BY <1>0, TailOf DEF TypeOK, Current
<1>2. /\ Current.id \in 1 .. status.read /\ Current.body = status.log[Current.id]
      /\ Current.id \in status.pel
  BY <1>0, <1>1 DEF Shape, BatchShape, CountShape
<1>3. \A n \in DOMAIN batch' : n > 1 => batch'[n].id \in status'.pel
  <2> SUFFICES ASSUME NEW n \in DOMAIN batch, n > 1
               PROVE  batch[n].id \in status.pel /\ batch[n].id # Current.id
    OBVIOUS
  <2>1. batch[n].id \in status.pel
    BY DEF CountShape
  <2>2. 1 \in 1 .. n - 1
    BY <1>1
  <2>3. batch[1].id < batch[n].id
    BY <2>2 DEF Shape, BatchShape
  <2>4. batch[1].id \in Nat /\ batch[n].id \in Nat
    BY <1>1, EntriesRead DEF Shape, BatchShape
  <2> QED BY <1>1, <2>1, <2>3, <2>4
<1>4. ASSUME NEW s \in DOMAIN STAT_MAP
      PROVE  stats'[STAT_MAP[s]] + Due(s)' <= Cardinality(AckedOf(s)')
  <2>1. STAT_MAP[s] \in {"processed", "failed", "dead"}
    BY DEF STAT_MAP
  <2>2. stats[STAT_MAP[s]] \in Nat /\ Due(s) = 0
    BY <1>0, <2>1 DEF TypeOK, Due
  <2>3. stats[STAT_MAP[s]] + Due(s) <= Cardinality(AckedOf(s))
    BY DEF CountShape
  <2>4. /\ Cardinality(AckedOf(s)) \in Nat /\ Cardinality(AckedOf(s)') \in Nat
        /\ Cardinality(AckedOf(s)) <= Cardinality(AckedOf(s)')
        /\ IsFiniteSet(AckedOf(s))
    BY AckedGrows
  <2>5. CASE s = Current.body.status
    <3>1. Current.id \notin AckedOf(s) /\ AckedOf(s)' = AckedOf(s) \cup {Current.id}
      BY <1>2, <2>5 DEF AckedOf
    <3>2. Cardinality(AckedOf(s)') = Cardinality(AckedOf(s)) + 1
      BY <2>4, <3>1, FS_AddElement
    <3>3. Due(s)' = 1
      BY <1>0, <2>5 DEF Due
    <3>4. stats[STAT_MAP[s]] + 1 <= Cardinality(AckedOf(s)')
      BY <2>2, <2>3, <2>4, <3>2
    <3> QED BY <1>0, <3>3, <3>4
  <2>6. CASE s # Current.body.status
    <3>1. Due(s)' = 0
      BY <1>0, <2>6 DEF Due
    <3>2. stats[STAT_MAP[s]] + 0 <= Cardinality(AckedOf(s)')
      BY <2>2, <2>3, <2>4
    <3> QED BY <1>0, <3>1, <3>2
  <2> QED BY <2>5, <2>6
<1> QED BY <1>0, <1>3, <1>4 DEF CountShape

\* HINCRBY counts what was acknowledged for it.
LEMMA CountDue ==
  ASSUME TypeOK, Shape, CountShape, Next, Count
  PROVE  CountShape'
<1> DEFINE field == STAT_MAP[Current.body.status]
<1>0. /\ batch # <<>> /\ cpc = "count" /\ NextMessage /\ UNCHANGED <<status, txn, committed>>
      /\ Current.body.status \in DOMAIN STAT_MAP
      /\ stats' = [stats EXCEPT ![field] = @ + 1] \/ stats' = stats
      /\ cpc' # "count"
  BY DEF Count, Shape, BatchShape, CountShape, NextMessage
<1>1. \A n \in DOMAIN batch' : batch'[n].id \in status'.pel
  BY <1>0, TailPending
<1>2. ASSUME NEW s \in DOMAIN STAT_MAP
      PROVE  stats'[STAT_MAP[s]] + Due(s)' <= Cardinality(AckedOf(s)')
  <2>1. /\ STAT_MAP[s] \in {"processed", "failed", "dead"}
        /\ STAT_MAP[s] = field <=> s = Current.body.status
    BY <1>0 DEF STAT_MAP
  <2>2. stats \in [{"processed", "failed", "dead"} -> Nat]
    BY DEF TypeOK
  <2>3. stats[STAT_MAP[s]] + Due(s) <= Cardinality(AckedOf(s))
    BY DEF CountShape
  <2>4. AckedOf(s)' = AckedOf(s) /\ Cardinality(AckedOf(s)) \in Nat
    <3>1. Cardinality(AckedOf(s)) \in Nat
      BY AckedGrows
    <3>2. status' = status
      BY <1>0
    <3> QED BY <3>1, <3>2 DEF AckedOf
  <2>5. Due(s)' = 0 /\ Due(s) = IF s = Current.body.status THEN 1 ELSE 0
    BY <1>0 DEF Due
  <2> HIDE DEF field
  <2>6. stats'[STAT_MAP[s]] \in {stats[STAT_MAP[s]], stats[STAT_MAP[s]] + Due(s)}
    BY <1>0, <2>1, <2>2, <2>5
  <2>7. stats[STAT_MAP[s]] \in Nat /\ Due(s) \in Nat
    BY <2>1, <2>2, <2>5
  <2>8. stats'[STAT_MAP[s]] + 0 <= Cardinality(AckedOf(s))
    BY <2>3, <2>4, <2>6, <2>7
  <2> QED BY <2>4, <2>5, <2>8
<1> QED BY <1>0, <1>1, <1>2 DEF CountShape

\* Every step counts at most what it has acknowledged.
LEMMA StepCounted ==
  ASSUME TypeOK, Shape, CountShape, Next
  PROVE  CountShape'
<1>0. status \in Stream(Report) /\ BatchSize \in Nat \ {0}
  BY ConsumerAssumption DEF TypeOK
<1>1. ASSUME stats' = stats, cpc' # "count",
             \A n \in DOMAIN batch' : batch'[n].id \in status'.pel
      PROVE  CountShape'
  BY <1>1, NothingDue DEF CountShape
<1>2. ASSUME stats' = stats, cpc' # "count", batch' = <<>>
      PROVE  CountShape'
  BY <1>1, <1>2
<1>3. ASSUME stats' = stats, cpc' # "count", cpc # "count", batch' = batch, status.pel \subseteq status'.pel
      PROVE  CountShape'
  BY <1>1, <1>3 DEF CountShape
<1>4. CASE Poll \/ ReadNothing \/ Update \/ Commit \/ Crash \/ Restart
  BY <1>2, <1>3, <1>4 DEF Poll, ReadNothing, Update, Commit, Crash, Restart, Halt
<1>5. CASE DbError
  <2>1. batch # <<>> /\ NextMessage /\ status' = status /\ stats' = stats /\ cpc' # "count"
    BY <1>5 DEF DbError, NextMessage, Shape, BatchShape
  <2> QED BY <1>1, <2>1, TailPending
<1>6. CASE ReadBatch
  BY <1>0, <1>1, <1>6, ReplyAscends DEF ReadBatch
<1>7. CASE ReadLost
  <2>1. batch' = <<>> /\ stats' = stats /\ cpc' # "count"
    BY <1>7 DEF ReadLost, Shape, BatchShape
  <2> QED BY <1>2, <2>1
<1>8. ASSUME SkipUnknown \/ Ack, NextMessage \/ Halt,
             status'.pel = status.pel \/ status'.pel = status.pel \ {Current.id}
      PROVE  CountShape'
  <2>1. batch # <<>> /\ stats' = stats /\ cpc' # "count"
    BY <1>8 DEF SkipUnknown, Ack, Shape, BatchShape, NextMessage, Halt
  <2> QED BY <1>1, <1>2, <1>8, <2>1, TailPending DEF Halt
<1>9. CASE SkipUnknown
  <2>1. Acknowledge(NextMessage)
    BY <1>9 DEF SkipUnknown
  <2> QED BY <1>8, <1>9, <2>1, AcknowledgeOutcomes
<1>10. CASE Ack
  <2> DEFINE Onward == IF Current.body.status \in DOMAIN STAT_MAP
                         THEN cpc' = "count" /\ UNCHANGED batch
                         ELSE NextMessage
  <2>1. Acknowledge(Onward)
    BY <1>10 DEF Ack
  <2>2. (Onward /\ status' = XAck(status, Current.id)) \/ Halt
    BY <2>1 DEF Acknowledge
  <2> HIDE DEF Onward
  <2>3. status'.pel = status.pel \/ status'.pel = status.pel \ {Current.id}
    BY <2>1, AcknowledgeOutcomes
  <2>4. CASE Halt
    BY <1>8, <1>10, <2>3, <2>4
  <2>5. CASE Onward /\ status' = XAck(status, Current.id) /\ Current.body.status \notin DOMAIN STAT_MAP
    BY <1>8, <1>10, <2>3, <2>5 DEF Onward
  <2>6. CASE Onward /\ status' = XAck(status, Current.id) /\ Current.body.status \in DOMAIN STAT_MAP
    <3>1. cpc' = "count" /\ UNCHANGED batch
      BY <2>6 DEF Onward
    <3>2. /\ status'.log = status.log /\ status'.read = status.read
          /\ status'.pel = status.pel \ {Current.id}
      BY <1>0, <2>6 DEF XAck, Stream
    <3> QED BY <1>10, <2>6, <3>1, <3>2, AckDue
  <2> QED BY <2>2, <2>4, <2>5, <2>6
<1>11. CASE Signal \/ \E r \in Report : Arrive(r)
  <2>1. /\ stats' = stats /\ cpc' = cpc /\ batch' = batch /\ Current' = Current
        /\ status'.pel = status.pel
    <3>1. CASE Signal
      BY <3>1 DEF Signal, Current
    <3>2. CASE \E r \in Report : Arrive(r)
      <4>1. PICK r \in Report : Arrive(r)
        BY <3>2
      <4>2. status'.pel = status.pel
        BY <1>0, <4>1, XAddOnce, ConsumerAssumption DEF Arrive
      <4> QED BY <4>1, <4>2 DEF Arrive, consumerVars, Current
    <3> QED BY <1>11, <3>1, <3>2
  <2>2. ASSUME NEW s \in DOMAIN STAT_MAP
        PROVE  stats'[STAT_MAP[s]] + Due(s)' <= Cardinality(AckedOf(s)')
    <3>1. Due(s)' = Due(s) /\ Due(s) \in Nat
      BY <2>1 DEF Due
    <3>2. stats[STAT_MAP[s]] \in Nat
      <4>1. STAT_MAP[s] \in {"processed", "failed", "dead"}
        BY DEF STAT_MAP
      <4> QED BY <4>1 DEF TypeOK
    <3>3. stats[STAT_MAP[s]] + Due(s) <= Cardinality(AckedOf(s))
      BY DEF CountShape
    <3>4. /\ Cardinality(AckedOf(s)) \in Nat /\ Cardinality(AckedOf(s)') \in Nat
          /\ Cardinality(AckedOf(s)) <= Cardinality(AckedOf(s)')
      BY AckedGrows
    <3>5. stats[STAT_MAP[s]] + Due(s) <= Cardinality(AckedOf(s)')
      BY <3>1, <3>2, <3>3, <3>4
    <3> QED BY <2>1, <3>1, <3>5
  <2> QED BY <2>1, <2>2 DEF CountShape
<1> QED BY <1>4, <1>5, <1>6, <1>7, <1>9, <1>10, <1>11, CountDue DEF Next, Consumer

(***************************************************************************)
(* worker:stats counts an entry at most once and only after its            *)
(* acknowledgement, whatever crashes and restarts (main,                   *)
(* status_consumer.py:100-107).                                            *)
(***************************************************************************)
THEOREM NothingCountedTwice == Spec => []CountedOnce
<1>1. Init => CountShape
  <2> SUFFICES ASSUME Init PROVE CountShape
    OBVIOUS
  <2>1. ASSUME NEW s \in DOMAIN STAT_MAP
        PROVE  stats[STAT_MAP[s]] + Due(s) <= Cardinality(AckedOf(s))
    <3>1. STAT_MAP[s] \in {"processed", "failed", "dead"}
      BY DEF STAT_MAP
    <3>2. AckedOf(s) = {}
      BY DEF Init, EmptyStream, AckedOf
    <3> QED BY <3>1, <3>2, FS_EmptySet DEF Init, Due
  <2> QED BY <2>1 DEF Init, CountShape
<1>2. TypeOK /\ Shape /\ CountShape /\ [Next]_vars => CountShape'
  <2>1. CASE UNCHANGED vars
    BY <2>1 DEF vars, consumerVars, CountShape, Due, AckedOf, Current
  <2> QED BY <2>1, StepCounted
<1>3. TypeOK /\ Shape /\ CountShape => CountedOnce
  <2> SUFFICES ASSUME TypeOK, Shape, CountShape, NEW s \in DOMAIN STAT_MAP
               PROVE  stats[STAT_MAP[s]] <= Cardinality(AckedOf(s))
    BY DEF CountedOnce, AckedOf
  <2>1. STAT_MAP[s] \in {"processed", "failed", "dead"}
    BY DEF STAT_MAP
  <2>2. stats[STAT_MAP[s]] \in Nat /\ Due(s) \in {0, 1}
    BY <2>1 DEF TypeOK, Due
  <2>3. Cardinality(AckedOf(s)) \in Nat
    <3>1. AckedOf(s) \in SUBSET (1 .. status.read)
      BY DEF AckedOf
    <3>2. IsFiniteSet(1 .. status.read)
      <4>1. status.read \in Nat
        BY EntriesRead
      <4> QED BY <4>1, UpToFinite
    <3> QED BY <3>1, <3>2, FS_Subset, FS_CardinalityType
  <2>4. stats[STAT_MAP[s]] + Due(s) <= Cardinality(AckedOf(s))
    BY DEF CountShape
  <2> QED BY <2>2, <2>3, <2>4
<1> QED BY ConsumerShape, <1>1, <1>2, <1>3, PTL DEF Spec
=============================================================================
