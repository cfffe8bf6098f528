----------------------------- MODULE JobMessage -----------------------------
(***************************************************************************)
(* What becomes of the fields of one job on their way from the client to   *)
(* the worker: the JSON body of POST /api/v1/jobs (node1_api/app.py and    *)
(* models.py), the row's payload column, the message on jobs:stream, built *)
(* by the API from the request or by publish_failed_checker.py from the    *)
(* row, and what the worker parses out of it (node2's models.go).  Each    *)
(* language has its own idea of an integer and of a string: Python's bool  *)
(* is an int and its ints have no width, SQLite takes no unpaired          *)
(* surrogate, and Go parses a decimal number of 64 bits.                   *)
(*                                                                         *)
(* An operator named D_x is a plausible mistake in D.  No action uses it:  *)
(* put in D's place it must make a property below fail.                    *)
(***************************************************************************)
EXTENDS Integers, Sequences, FiniteSetsExt

CONSTANTS
  IntMax,   \* the largest Go int and SQLite integer (2^63 - 1 in the code)
  Bodies    \* the bodies a client may post (a bound)

\* A JSON value.  A number has its value, a boolean the value Python gives it,
\* a blank string is empty or white space, an unpaired one holds a surrogate
\* without its other half; "force" is a string with "force_fail" in it.  A list
\* has an element, and so has an object that is a run_id: `or None' makes an
\* empty one, like anything false, None, which is what "null" stands for there.
Number  == [kind : {"int"}, n : Int]
Boolean == [kind : {"bool"}, n : {0, 1}]
Opaque  == [kind : {"float", "blank", "text", "force", "unpaired", "null",
                    "list", "object", "missing"}, n : {0}]
Value   == Number \cup Boolean \cup Opaque

\* "body" is the body as a whole; an empty one counts as an object.
Fields == {"body", "type", "priority", "payload", "user_id", "action", "data", "run_id"}

ASSUME MessageAssumption ==
  /\ IntMax \in Nat
  /\ Bodies \subseteq [Fields -> Value]

VARIABLES
  body,     \* the body posted; user_id, action and data are payload's fields
  answer,   \* the answer: "none" so far, the error of a 400, or the HTTP code
  row,      \* the payload column of the job's row, decoded
  message,  \* the newest message with this job on jobs:stream
  work      \* what the worker makes of it: "none" yet, "run" or "dead"

vars == <<body, answer, row, message, work>>

-----------------------------------------------------------------------------
(***************************************************************************)
(* models.py: parse_job_request                                            *)
(***************************************************************************)

\* isinstance(v, int)
IsInt(v) == v.kind \in {"int", "bool"}

IsText_Unstripped(v) == v.kind \in {"text", "force", "unpaired", "blank"}

\* isinstance(v, str) and v.strip()
IsText(v) == v.kind \in {"text", "force", "unpaired"}

Valid(b, f) ==
  CASE f \in {"type", "action", "data"}  -> IsText(b[f])
    [] f \in {"priority", "user_id"}     -> IsInt(b[f])
    [] f \in {"body", "payload"}         -> b[f].kind = "object"

Checked == <<"body", "type", "priority", "payload", "user_id", "action", "data">>

\* The checks that fail: the first of them is reported.
Errors(b) == {n \in DOMAIN Checked : ~ Valid(b, Checked[n])}

\* The JobRequest, as asdict gives it.
Kept == {"type", "priority", "user_id", "action", "data"}

JobRequest(b) == [f \in Kept |-> b[f]]

-----------------------------------------------------------------------------
(***************************************************************************)
(* app.py: the row and the first message                                   *)
(***************************************************************************)

FitsInt64(n) == n >= - IntMax - 1 /\ n <= IntMax

\* body.get("run_id") or None is bound as it is (a list or an object cannot be),
\* and so is the request's JSON, which leaves an unpaired surrogate in the string.
Bindable(b) ==
  /\ b["run_id"].kind \notin {"list", "object", "unpaired"}
  /\ b["run_id"].kind = "int" => FitsInt64(b["run_id"].n)
  /\ \A f \in Kept : b[f].kind # "unpaired"

\* str(v) of an int is its decimal form, of a bool the word True or False.
Str(v) == IF v.kind = "int" THEN v ELSE [kind |-> "text", n |-> 0]

Payload(req) == [f \in {"user_id", "action", "data"} |-> req[f]]

FirstMessage(req) ==
  [type |-> req["type"], priority |-> Str(req["priority"]), payload |-> Payload(req)]

(***************************************************************************)
(* publish_failed_checker.py: the message of a stuck job.  No row of this  *)
(* program lacks one of the fields that the script has defaults for.       *)
(***************************************************************************)

Requeued_WholeRow(column) ==
  [type |-> column["type"], priority |-> Str(column["priority"]),
   payload |-> [f \in {"user_id", "action", "data"} |-> [kind |-> "missing", n |-> 0]]]

Requeued(column) ==
  [type |-> column["type"], priority |-> Str(column["priority"]), payload |-> Payload(column)]

-----------------------------------------------------------------------------
(***************************************************************************)
(* models.go: parseStreamMessage                                           *)
(***************************************************************************)

ParsesAsInt_RangeIgnored(v) == v.kind = "int"

\* strconv.Atoi, and a JSON number for a field of type int.
ParsesAsInt(v) == v.kind = "int" /\ FitsInt64(v.n)

\* A Go field that the JSON object lacks or has null for keeps its zero value.
Decoded(v, zero) == IF v.kind \in {"missing", "null"} THEN zero ELSE v

Parses(m) ==
  /\ ParsesAsInt(m.priority)
  /\ ParsesAsInt(Decoded(m.payload["user_id"], [kind |-> "int", n |-> 0]))

StreamMessage(m) ==
  [f \in Kept |->
     CASE f = "type"     -> m.type
       [] f = "priority" -> m.priority
       [] f = "user_id"  -> Decoded(m.payload[f], [kind |-> "int", n |-> 0])
       [] OTHER          -> Decoded(m.payload[f], [kind |-> "blank", n |-> 0])]

-----------------------------------------------------------------------------
(***************************************************************************)
(* One job's way.  A sequence of at most one element is there or not.      *)
(***************************************************************************)

StoredKinds(f) == IF f \in {"priority", "user_id"} THEN {"int", "bool"} ELSE {"text", "force"}

TypeOK ==
  /\ body \in [Fields -> Value]
  /\ answer \in {"none", "stored", "202", "503", "500"} \cup Fields
  /\ Len(row) <= 1 /\ Len(message) <= 1
  /\ \A n \in DOMAIN row, f \in Kept : row[n][f].kind \in StoredKinds(f)
  /\ work \in {"none", "run", "dead"}

Init ==
  /\ body \in Bodies
  /\ answer = "none"
  /\ row = <<>>
  /\ message = <<>>
  /\ work = "none"

Reject ==
  /\ answer = "none"
  /\ Errors(body) # {}
  /\ answer' = Checked[Min(Errors(body))]
  /\ UNCHANGED <<body, row, message, work>>

\* Nobody catches what execute() raises: it ends the request.
Insert ==
  /\ answer = "none"
  /\ Errors(body) = {}
  /\ IF Bindable(body) THEN answer' = "stored" /\ row' = <<JobRequest(body)>>
                       ELSE answer' = "500" /\ UNCHANGED row
  /\ UNCHANGED <<body, message, work>>

\* A refused XADD leaves the job to the checker.
Publish ==
  /\ answer = "stored"
  /\ \/ answer' = "202" /\ message' = <<FirstMessage(JobRequest(body))>>
     \/ answer' = "503" /\ UNCHANGED message
  /\ UNCHANGED <<body, row, work>>

\* The checker finds the row publish_failed, or queued for too long.
Requeue ==
  /\ answer \in {"202", "503"}
  /\ message' = <<Requeued(Head(row))>>
  /\ work' = "none"
  /\ UNCHANGED <<body, answer, row>>

Work ==
  /\ message # <<>>
  /\ work' = IF Parses(Head(message)) THEN "run" ELSE "dead"
  /\ UNCHANGED <<body, answer, row, message>>

Next == Reject \/ Insert \/ Publish \/ Requeue \/ Work

Spec == Init /\ [][Next]_vars

-----------------------------------------------------------------------------
(***************************************************************************)
(* Properties                                                              *)
(***************************************************************************)

(***************************************************************************)
(* A job the API accepted is refused by the worker, and reported dead,     *)
(* exactly when one of its two numbers is a JSON boolean or does not fit   *)
(* into 64 bits; whether the API or the checker sent it makes no           *)
(* difference (parse_job_request's isinstance checks against Atoi and      *)
(* json.Unmarshal in parseStreamMessage).                                  *)
(***************************************************************************)
DeadOnArrival ==
  work # "none" =>
    (work = "dead" <=>
       \E f \in {"priority", "user_id"} :
         body[f].kind = "bool" \/ body[f].n \notin - IntMax - 1 .. IntMax)

(***************************************************************************)
(* The worker runs the job that was posted: no field is lost, defaulted or *)
(* changed on the way through row and message, whoever sent it             *)
(* (app.py:102-109, publish_failed_checker.py:55-67, models.go:26-50).     *)
(***************************************************************************)
RunAsPosted ==
  work = "run" => \A f \in Kept : StreamMessage(Head(message))[f] = body[f]

=============================================================================
