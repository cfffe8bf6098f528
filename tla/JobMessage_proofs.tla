-------------------------- MODULE JobMessage_proofs --------------------------
(***************************************************************************)
(* Theorems about JobMessage, for any bodies of JSON values and any width  *)
(* of an integer.                                                          *)
(***************************************************************************)
EXTENDS JobMessage, Stores_proofs

-----------------------------------------------------------------------------
(***************************************************************************)
(* The invariant                                                           *)
(***************************************************************************)

\* What validation and the row's statement let through.
Accepted ==
  /\ \A f \in {"priority", "user_id"} : body[f].kind \in {"int", "bool"}
  /\ \A f \in {"type", "action", "data"} : body[f].kind \in {"text", "force"}

\* The row has the request, the message is the one built from it, whoever
\* built it, and the worker has done with it what it parses to.
Way ==
  /\ body \in [Fields -> Value]
  /\ answer \in {"none", "stored", "202", "503", "500"} \cup Fields
  /\ row = <<>> \/ (row = <<JobRequest(body)>> /\ Accepted)
  /\ answer \in {"stored", "202", "503"} => row # <<>>
  /\ message = <<>> \/ (message = <<FirstMessage(JobRequest(body))>> /\ row # <<>>)
  /\ work = "none" \/ (/\ message # <<>>
                       /\ work = IF Parses(FirstMessage(JobRequest(body))) THEN "run" ELSE "dead")

-----------------------------------------------------------------------------
(***************************************************************************)
(* Every step                                                              *)
(***************************************************************************)

\* The first check that fails is one of a field's.
LEMMA ErrorIsField ==
  ASSUME Errors(body) # {}
  PROVE  Checked[Min(Errors(body))] \in Fields
<1>1. DOMAIN Checked = 1 .. 7 /\ Errors(body) \in SUBSET Nat
  BY DEF Checked, Errors
<1>2. PICK x \in Errors(body) : \A y \in Errors(body) : x <= y
  BY <1>1, LeastOf
<1>3. Min(Errors(body)) \in Errors(body)
  BY <1>2 DEF Min
<1>4. Min(Errors(body)) \in 1 .. 7
  BY <1>1, <1>3 DEF Errors
<1> QED BY <1>4 DEF Checked, Fields

\* A body without errors that the statement takes is accepted.
LEMMA StoredIsAccepted ==
  ASSUME body \in [Fields -> Value], Errors(body) = {}, Bindable(body)
  PROVE  Accepted
<1>1. \A n \in 1 .. 7 : Valid(body, Checked[n])
  BY DEF Errors, Checked
<1>2. \A f \in Kept : Valid(body, f)
  <2>1. /\ Checked[2] = "type" /\ Checked[3] = "priority" /\ Checked[5] = "user_id"
        /\ Checked[6] = "action" /\ Checked[7] = "data"
    BY DEF Checked
  <2>2. 2 \in 1 .. 7 /\ 3 \in 1 .. 7 /\ 5 \in 1 .. 7 /\ 6 \in 1 .. 7 /\ 7 \in 1 .. 7
    OBVIOUS
  <2> QED BY <1>1, <2>1, <2>2 DEF Kept
<1>3. \A f \in {"priority", "user_id"} : IsInt(body[f])
  BY <1>2 DEF Valid, Kept
<1>4. \A f \in {"type", "action", "data"} : IsText(body[f]) /\ body[f].kind # "unpaired"
  BY <1>2 DEF Valid, Kept, Bindable
<1> QED BY <1>3, <1>4 DEF Accepted, IsInt, IsText

\* Both senders build the same message from the same fields.
LEMMA SameMessage == Requeued(JobRequest(body)) = FirstMessage(JobRequest(body))
BY DEF Requeued, FirstMessage

\* Nothing is answered, stored or sent at first.
LEMMA InitWay == Init => Way
BY MessageAssumption DEF Init, Way

\* Every step keeps a job on its way.
LEMMA StepWay == ASSUME Way, [Next]_vars PROVE Way'
<1>1. CASE Reject
  <2>1. answer' \in Fields /\ UNCHANGED <<body, row, message, work>>
    BY <1>1, ErrorIsField DEF Reject
  <2>2. answer' \notin {"stored", "202", "503"}
    BY <2>1 DEF Fields
  <2> QED BY <2>1, <2>2 DEF Way, Accepted
<1>2. CASE Insert
  <2>1. UNCHANGED <<body, message, work>> /\ body \in [Fields -> Value] /\ Errors(body) = {}
    BY <1>2 DEF Insert, Way
  <2>2. CASE Bindable(body)
    <3>1. Accepted /\ answer' = "stored" /\ row' = <<JobRequest(body)>> /\ row' # <<>>
      BY <1>2, <2>1, <2>2, StoredIsAccepted DEF Insert
    <3>2. Accepted' /\ JobRequest(body)' = JobRequest(body)
      BY <2>1, <3>1 DEF Accepted, JobRequest
    <3> QED BY <2>1, <3>1, <3>2 DEF Way
  <2>3. CASE ~ Bindable(body)
    BY <1>2, <2>1, <2>3 DEF Insert, Way, Accepted
  <2> QED BY <2>2, <2>3
<1>3. CASE Publish
  BY <1>3 DEF Publish, Way, Accepted
<1>4. CASE Requeue
  <2>1. row # <<>> /\ row = <<JobRequest(body)>>
    BY <1>4 DEF Requeue, Way
  <2>2. message' = <<FirstMessage(JobRequest(body))>>
    BY <1>4, <2>1, SameMessage DEF Requeue
  <2> QED BY <1>4, <2>1, <2>2 DEF Requeue, Way, Accepted
<1>5. CASE Work
  <2>1. message = <<FirstMessage(JobRequest(body))>>
    BY <1>5 DEF Work, Way
  <2> QED BY <1>5, <2>1 DEF Work, Way, Accepted
<1>6. CASE UNCHANGED vars
  BY <1>6 DEF vars, Way, Accepted
<1> QED BY <1>1, <1>2, <1>3, <1>4, <1>5, <1>6 DEF Next

-----------------------------------------------------------------------------
(***************************************************************************)
(* What the worker makes of an accepted job                                *)
(***************************************************************************)

\* The fields of the message of an accepted job.
LEMMA MessageFields ==
  ASSUME Accepted, NEW m, m = FirstMessage(JobRequest(body))
  PROVE  /\ m.type = body["type"] /\ m.priority = Str(body["priority"])
         /\ Decoded(m.payload["user_id"], [kind |-> "int", n |-> 0]) = body["user_id"]
         /\ \A f \in {"action", "data"} : Decoded(m.payload[f], [kind |-> "blank", n |-> 0]) = body[f]
<1>1. /\ m.type = body["type"] /\ m.priority = Str(body["priority"])
      /\ \A f \in {"user_id", "action", "data"} : m.payload[f] = body[f]
  BY DEF FirstMessage, Payload, JobRequest, Kept
<1>2. \A f \in {"user_id", "action", "data"} : body[f].kind \notin {"missing", "null"}
  BY DEF Accepted
<1> QED BY <1>1, <1>2 DEF Decoded

\* A number parses if it fits; a boolean does not parse.
LEMMA ParsesIf ==
  ASSUME body \in [Fields -> Value], Accepted
  PROVE  Parses(FirstMessage(JobRequest(body))) <=>
           \A f \in {"priority", "user_id"} :
             body[f].kind = "int" /\ body[f].n \in - IntMax - 1 .. IntMax
<1> DEFINE m == FirstMessage(JobRequest(body))
<1>1. /\ m.priority = Str(body["priority"])
      /\ Decoded(m.payload["user_id"], [kind |-> "int", n |-> 0]) = body["user_id"]
  BY MessageFields
<1> HIDE DEF m
<1>2. Parses(m) <=> ParsesAsInt(Str(body["priority"])) /\ ParsesAsInt(body["user_id"])
  BY <1>1 DEF Parses
<1>3. ASSUME NEW v \in Value
      PROVE  /\ ParsesAsInt(Str(v)) <=> ParsesAsInt(v)
             /\ ParsesAsInt(v) <=> v.kind = "int" /\ v.n \in - IntMax - 1 .. IntMax
  <2>1. ParsesAsInt(Str(v)) <=> ParsesAsInt(v)
    BY DEF ParsesAsInt, Str
  <2>2. v.kind = "int" => v.n \in Int
    BY DEF Value, Number, Boolean, Opaque
  <2>3. v.kind = "int" => (FitsInt64(v.n) <=> v.n \in - IntMax - 1 .. IntMax)
    BY <2>2, MessageAssumption DEF FitsInt64
  <2> QED BY <2>1, <2>3 DEF ParsesAsInt
<1>4. body["priority"] \in Value /\ body["user_id"] \in Value
  BY DEF Fields
<1> QED BY <1>2, <1>3, <1>4 DEF m

-----------------------------------------------------------------------------
(***************************************************************************)
(* Theorems                                                                *)
(***************************************************************************)

\* A job keeps to its way through row, message and worker (JobMessage's whole
\* next-state relation).
THEOREM AllOnTheWay == Spec => []Way
BY InitWay, StepWay, PTL DEF Spec

\* The row never has a value of a kind that validation excludes.
THEOREM MessageTypeCorrect == Spec => []TypeOK
<1>1. Way => TypeOK
  <2> SUFFICES ASSUME Way PROVE TypeOK
    OBVIOUS
  <2>1. ASSUME NEW s, s = <<>> \/ \E x : s = <<x>>
        PROVE  Len(s) <= 1
    <3>1. CASE s = <<>>
      BY <3>1
    <3>2. CASE \E x : s = <<x>>
      <4>1. PICK x : s = <<x>>
        BY <3>2
      <4> QED BY <4>1
    <3> QED BY <2>1, <3>1, <3>2
  <2>2. (row = <<>> \/ \E x : row = <<x>>) /\ (message = <<>> \/ \E x : message = <<x>>)
    BY DEF Way
  <2>3. Len(row) <= 1 /\ Len(message) <= 1
    BY <2>1, <2>2, Zenon
  <2>4. work \in {"none", "run", "dead"}
    BY Zenon DEF Way
  <2>5. ASSUME NEW n \in DOMAIN row, NEW f \in Kept
        PROVE  row[n][f].kind \in StoredKinds(f)
    <3>1. row = <<JobRequest(body)>> /\ Accepted /\ n = 1
      BY <2>5 DEF Way
    <3>2. row[n][f] = body[f]
      BY <3>1 DEF JobRequest
    <3> QED BY <3>1, <3>2 DEF Accepted, StoredKinds, Kept
  <2> QED BY <2>3, <2>4, <2>5 DEF Way, TypeOK
<1> QED BY <1>1, AllOnTheWay, PTL

\* An accepted job dies of its fields in the worker exactly when one of its
\* numbers is a boolean or too wide: for every body of any values, however
\* often the checker sends it again (parse_job_request, parseStreamMessage).
THEOREM OnlyNumbersKill == Spec => []DeadOnArrival
<1>1. Way => DeadOnArrival
  <2> SUFFICES ASSUME Way, work # "none"
               PROVE  work = "dead" <=>
                        \E f \in {"priority", "user_id"} :
                          body[f].kind = "bool" \/ body[f].n \notin - IntMax - 1 .. IntMax
    BY DEF DeadOnArrival
  <2>1. /\ body \in [Fields -> Value] /\ Accepted
        /\ work = IF Parses(FirstMessage(JobRequest(body))) THEN "run" ELSE "dead"
    BY DEF Way
  <2>2. work = "dead" <=> ~ Parses(FirstMessage(JobRequest(body)))
    BY <2>1
  <2>3. \A f \in {"priority", "user_id"} : body[f].kind = "int" <=> body[f].kind # "bool"
    BY <2>1 DEF Accepted
  <2> QED BY <2>1, <2>2, <2>3, ParsesIf
<1> QED BY <1>1, AllOnTheWay, PTL

\* What the worker runs is what was posted, field by field (enqueue_job,
\* the checker's main, parseStreamMessage).
THEOREM RunsWhatWasPosted == Spec => []RunAsPosted
<1>1. Way => RunAsPosted
  <2> SUFFICES ASSUME Way, work = "run", NEW f \in Kept
               PROVE  StreamMessage(Head(message))[f] = body[f]
    BY DEF RunAsPosted
  <2>1. PICK m : m = FirstMessage(JobRequest(body))
    OBVIOUS
  <2>2. body \in [Fields -> Value] /\ Accepted /\ Head(message) = m /\ Parses(m)
    BY <2>1 DEF Way
  <2>3. Str(body["priority"]) = body["priority"]
    BY <2>1, <2>2, ParsesIf DEF Str
  <2>4. /\ m.type = body["type"] /\ m.priority = body["priority"]
        /\ Decoded(m.payload["user_id"], [kind |-> "int", n |-> 0]) = body["user_id"]
        /\ \A g \in {"action", "data"} : Decoded(m.payload[g], [kind |-> "blank", n |-> 0]) = body[g]
    BY <2>1, <2>2, <2>3, MessageFields
  <2>5. f \in {"type", "priority", "user_id", "action", "data"}
    BY DEF Kept
  <2> QED BY <2>2, <2>4, <2>5 DEF StreamMessage
<1> QED BY <1>1, AllOnTheWay, PTL

=============================================================================
