------------------------------ MODULE Loadtest ------------------------------
(***************************************************************************)
(* The load-test server (node1_api/loadtest_server.py) and what the job    *)
(* API tells about a run (get_jobs_stats and the dashboard in              *)
(* node1_api/app.py).  POST starts a run: a thread runs k6, which posts    *)
(* jobs with the run's id, and records the result in the dictionary _runs; *)
(* GET shows it.  Flask runs every request in a thread of its own, and a   *)
(* restart of the service (systemd, the renewal of the certificates)       *)
(* empties the dictionary and kills k6.                                    *)
(*                                                                         *)
(* A step is one critical section of _lock, or one operation on a          *)
(* dictionary outside: CPython's global lock makes update() and the        *)
(* copy that jsonify encodes atomic.  The jobs table is the environment's: *)
(* its rows come from k6 or from other clients, who may post any run_id,   *)
(* and everyone who writes a status may change them (the module JobApi     *)
(* says how).                                                              *)
(*                                                                         *)
(* An operator named D_x is a plausible mistake in D.  No action uses it:  *)
(* put in D's place it must make a property below fail.                    *)
(***************************************************************************)
EXTENDS JobsTable, TLC

CONSTANTS
  Runs,        \* the ids of the runs, one POST each
  Jobs,        \* the ids of the jobs posted
  Shown,       \* the statuses a row may take (a bound)
  NoRun,       \* the run of a job posted without run_id
  MaxRestarts  \* how often the service may restart (a bound)

ASSUME LoadtestAssumption ==
  /\ NoRun \notin Runs
  /\ Shown \subseteq Status
  /\ IsFiniteSet(Jobs)
  /\ MaxRestarts \in Nat

VARIABLES
  runs,      \* _runs
  post,      \* where the POST of a run is, or how it was answered
  thread,    \* where the run's thread is
  exitCode,  \* its local exit_code: 0, or anything else
  get,       \* where a client's GET of the run is, or how the last one was answered
  shown,     \* what the last GET answered with 200 said
  sent,      \* the run whose k6 sent a job to the API
  rows,      \* the jobs table: run_id and status of every row
  restarts   \* how often the service restarted

serverVars == <<runs, post, thread, exitCode, get, shown>>
tableVars  == <<sent, rows>>
vars == <<serverVars, tableVars, restarts>>

\* An entry's status with exit_code and finished_at, which are set together.
Entry == [status : {"absent", "running", "done", "failed"}, result : {"none", "0", "other"}]

NoEntry == [status |-> "absent", result |-> "none"]
Running == [status |-> "running", result |-> "none"]

NoRow == [run |-> NoRun, status |-> "absent"]

TypeOK ==
  /\ runs \in [Runs -> Entry]
  /\ post \in [Runs -> {"new", "inserted", "202", "400", "500", "dropped"}]
  /\ thread \in [Runs -> {"none", "k6", "record"}]
  /\ exitCode \in [Runs -> {"none", "0", "other"}]
  /\ get \in [Runs -> {"idle", "found", "ended", "200", "202", "404"}]
  /\ shown \in [Runs -> Entry]
  /\ sent \in [Jobs -> Runs \cup {NoRun}]
  /\ rows \in [Jobs -> [run : Runs \cup {NoRun}, status : Shown \cup {"absent"}]]
  /\ restarts \in Nat

Init ==
  /\ runs = [r \in Runs |-> NoEntry]
  /\ post = [r \in Runs |-> "new"]
  /\ thread = [r \in Runs |-> "none"]
  /\ exitCode = [r \in Runs |-> "none"]
  /\ get = [r \in Runs |-> "idle"]
  /\ shown = [r \in Runs |-> NoEntry]
  /\ sent = [j \in Jobs |-> NoRun]
  /\ rows = [j \in Jobs |-> NoRow]
  /\ restarts = 0

-----------------------------------------------------------------------------
(***************************************************************************)
(* POST /api/v1/loadtest/runs                                              *)
(***************************************************************************)

\* A script outside the directory or not there: 400.  A `vus' that is no
\* number: 500.  Neither leaves a trace.
Refuse(r) ==
  /\ post[r] = "new"
  /\ \E code \in {"400", "500"} : post' = [post EXCEPT ![r] = code]
  /\ UNCHANGED <<runs, thread, exitCode, get, shown, tableVars, restarts>>

Register_ThreadFirst(r) ==
  \/ /\ post[r] = "new"
     /\ thread[r] = "none"
     /\ thread' = [thread EXCEPT ![r] = "k6"]
     /\ UNCHANGED <<runs, post, exitCode, get, shown, tableVars, restarts>>
  \/ /\ post[r] = "new"
     /\ thread[r] # "none" \/ exitCode[r] # "none"
     /\ runs' = [runs EXCEPT ![r] = Running]
     /\ post' = [post EXCEPT ![r] = "202"]
     /\ UNCHANGED <<thread, exitCode, get, shown, tableVars, restarts>>

Register(r) ==
  /\ post[r] = "new"
  /\ runs' = [runs EXCEPT ![r] = Running]
  /\ post' = [post EXCEPT ![r] = "inserted"]
  /\ UNCHANGED <<thread, exitCode, get, shown, tableVars, restarts>>

\* Thread.start() may fail: 500, and the entry stays.
StartThread(r) ==
  /\ post[r] = "inserted"
  /\ \/ thread' = [thread EXCEPT ![r] = "k6"] /\ post' = [post EXCEPT ![r] = "202"]
     \/ post' = [post EXCEPT ![r] = "500"] /\ UNCHANGED thread
  /\ UNCHANGED <<runs, exitCode, get, shown, tableVars, restarts>>

-----------------------------------------------------------------------------
(***************************************************************************)
(* _execute                                                                *)
(***************************************************************************)

\* k6 exits with 0 or another code, or cannot be run at all: -1.
K6Ends(r) ==
  /\ thread[r] = "k6"
  /\ \E code \in {"0", "other"} : exitCode' = [exitCode EXCEPT ![r] = code]
  /\ thread' = [thread EXCEPT ![r] = "record"]
  /\ UNCHANGED <<runs, post, get, shown, tableVars, restarts>>

StatusOf_Raw(code) == IF code = "0" THEN "done" ELSE code

StatusOf(code) == IF code = "0" THEN "done" ELSE "failed"

Record_StatusFirst(r) ==
  /\ thread[r] = "record"
  /\ IF runs[r].status = "running"
       THEN /\ runs' = [runs EXCEPT ![r].status = StatusOf(exitCode[r])]
            /\ UNCHANGED thread
       ELSE /\ runs' = [runs EXCEPT ![r].result = exitCode[r]]
            /\ thread' = [thread EXCEPT ![r] = "none"]
  /\ UNCHANGED <<post, exitCode, get, shown, tableVars, restarts>>

\* The update, under _lock, if the run is there.
Record(r) ==
  /\ thread[r] = "record"
  /\ runs' = IF runs[r] = NoEntry THEN runs
             ELSE [runs EXCEPT ![r] = [status |-> StatusOf(exitCode[r]), result |-> exitCode[r]]]
  /\ thread' = [thread EXCEPT ![r] = "none"]
  /\ UNCHANGED <<post, exitCode, get, shown, tableVars, restarts>>

-----------------------------------------------------------------------------
(***************************************************************************)
(* GET /api/v1/loadtest/runs/<run_id>, from the client that was told the   *)
(* id, one after the other until it gets another answer than 202           *)
(***************************************************************************)

\* Under _lock.
LookUp(r) ==
  /\ post[r] = "202"
  /\ get[r] \in {"idle", "202"}
  /\ get' = [get EXCEPT ![r] = IF runs[r] = NoEntry THEN "404" ELSE "found"]
  /\ UNCHANGED <<runs, post, thread, exitCode, shown, tableVars, restarts>>

\* Without it: run["status"].
CheckStatus(r) ==
  /\ get[r] = "found"
  /\ get' = [get EXCEPT ![r] = IF runs[r].status = "running" THEN "202" ELSE "ended"]
  /\ UNCHANGED <<runs, post, thread, exitCode, shown, tableVars, restarts>>

\* And then jsonify(run).
Show(r) ==
  /\ get[r] = "ended"
  /\ shown' = [shown EXCEPT ![r] = runs[r]]
  /\ get' = [get EXCEPT ![r] = "200"]
  /\ UNCHANGED <<runs, post, thread, exitCode, tableVars, restarts>>

-----------------------------------------------------------------------------
(***************************************************************************)
(* The environment                                                         *)
(***************************************************************************)

\* The service restarts: the dictionary, the threads, k6 and the requests
\* under way are gone.
Restart ==
  /\ restarts < MaxRestarts
  /\ restarts' = restarts + 1
  /\ runs' = [r \in Runs |-> NoEntry]
  /\ post' = [r \in Runs |-> IF post[r] = "inserted" THEN "dropped" ELSE post[r]]
  /\ thread' = [r \in Runs |-> "none"]
  /\ exitCode' = [r \in Runs |-> "none"]
  /\ get' = [r \in Runs |-> IF get[r] \in {"found", "ended"} THEN "idle" ELSE get[r]]
  /\ UNCHANGED <<shown, tableVars>>

\* k6 sends a job; the API may handle it after k6 has ended.
Send(r, j) ==
  /\ thread[r] = "k6"
  /\ rows[j] = NoRow /\ sent[j] = NoRun
  /\ sent' = [sent EXCEPT ![j] = r]
  /\ UNCHANGED <<serverVars, rows, restarts>>

\* enqueue_job stores whatever run_id the body has, or none: that of its run
\* if k6 sent the job, any at all if another client did.
Insert(j) ==
  /\ rows[j] = NoRow
  /\ \E s \in Shown, r \in Runs \cup {NoRun} :
       /\ sent[j] # NoRun => r = sent[j]
       /\ rows' = [rows EXCEPT ![j] = [run |-> r, status |-> s]]
  /\ UNCHANGED <<serverVars, sent, restarts>>

SetStatus(j) ==
  /\ rows[j] # NoRow
  /\ \E s \in Shown : rows' = [rows EXCEPT ![j].status = s]
  /\ UNCHANGED <<serverVars, sent, restarts>>

Server(r) ==
  \/ Refuse(r) \/ Register(r) \/ StartThread(r)
  \/ K6Ends(r) \/ Record(r)
  \/ LookUp(r) \/ CheckStatus(r) \/ Show(r)

Next ==
  \/ \E r \in Runs : Server(r)
  \/ Restart
  \/ \E r \in Runs, j \in Jobs : Send(r, j)
  \/ \E j \in Jobs : Insert(j) \/ SetStatus(j)

Spec == Init /\ [][Next]_vars

(***************************************************************************)
(* Fairness: requests and threads are scheduled, the client goes on        *)
(* asking, and k6, whose script has an end, ends.                          *)
(***************************************************************************)
Fairness ==
  \A r \in Runs :
    /\ WF_vars(StartThread(r)) /\ WF_vars(K6Ends(r)) /\ WF_vars(Record(r))
    /\ WF_vars(LookUp(r)) /\ WF_vars(CheckStatus(r)) /\ WF_vars(Show(r))

FairSpec == Spec /\ Fairness

-----------------------------------------------------------------------------
(***************************************************************************)
(* The summary of a run: /api/v1/jobs/stats and the dashboard              *)
(***************************************************************************)

OfRun(r) == {j \in Jobs : rows[j] # NoRow /\ rows[j].run = r}

\* SELECT run_id, status, COUNT( * ) ... GROUP BY
Groups ==
  {[run |-> r, status |-> s, cnt |-> Cardinality({j \in OfRun(r) : rows[j].status = s})] :
      r \in Runs, s \in Shown}

Counted == {g \in Groups : g.cnt > 0}

\* The status counts of one run, asked for by its id.
ByStatus(r) ==
  [s \in {rows[j].status : j \in OfRun(r)} |-> Cardinality({j \in OfRun(r) : rows[j].status = s})]

\* dict.get(s, 0)
CountOf(bs, s) == IF s \in DOMAIN bs THEN bs[s] ELSE 0

\* sum(by_status.values()): its keys are statuses, and one without a key counts 0.
Total(bs) ==
  CountOf(bs, "queued") + CountOf(bs, "processing") + CountOf(bs, "done") +
  CountOf(bs, "failed") + CountOf(bs, "publish_failed") + CountOf(bs, "dead")

Summary(r, bs) ==
  LET total    == Total(bs)
      inFlight == CountOf(bs, "queued") + CountOf(bs, "processing")
  IN  [run_id |-> r, total |-> total, in_flight |-> inFlight,
       is_complete |-> inFlight = 0 /\ total > 0, by_status |-> bs]

Aggregated_LastOnly(r) ==
  LET g == CHOOSE g \in Counted : g.run = r IN g.status :> g.cnt

\* agg[rid], filled row by row.
Aggregated(r) ==
  [s \in {g.status : g \in {g \in Counted : g.run = r}} |->
     (CHOOSE g \in Counted : g.run = r /\ g.status = s).cnt]

\* The answer without run_id: a run without a row is not in it.
AllRuns == {Summary(r, Aggregated(r)) : r \in {g.run : g \in Counted}}

OneRun(r) == Summary(r, ByStatus(r))

-----------------------------------------------------------------------------
(***************************************************************************)
(* Properties                                                              *)
(***************************************************************************)

(***************************************************************************)
(* A run that GET shows as ended is shown with its exit code, and `done'   *)
(* means 0, although get_run reads the entry twice after it has given the  *)
(* lock back, while _execute may be writing it (loadtest_server.py:39-46   *)
(* and 96-104).                                                            *)
(***************************************************************************)
FinishedIsWhole ==
  \A r \in Runs :
    get[r] = "200" =>
      /\ shown[r].result # "none"
      /\ shown[r].status = "done" <=> shown[r].result = "0"

(***************************************************************************)
(* The row of a job that a run's k6 has sent names a run the server knows, *)
(* as long as it has not restarted: the entry is there before k6 can send  *)
(* a job, and stays (start_run, _execute).  Of other rows nothing is said: *)
(* a client may post the id of a run that is not there (app.py:92).        *)
(***************************************************************************)
RowsOfKnownRuns ==
  \A j \in Jobs :
    sent[j] # NoRun /\ rows[j] # NoRow => runs[rows[j].run] # NoEntry \/ restarts > 0

(***************************************************************************)
(* A client that was answered 202 and keeps asking gets the result of its  *)
(* run one day, or a 404 when the service has restarted meanwhile: no run  *)
(* is left `running' by a k6 that fails or cannot be started, nor by a k6  *)
(* that ends before its run is in the dictionary (start_run, _execute).    *)
(***************************************************************************)
EveryRunAnswered ==
  \A r \in Runs :
    post[r] = "202" ~> get[r] = "200" \/ (get[r] = "404" /\ restarts > 0)

(***************************************************************************)
(* The two computations of a run's summary agree with each other and with  *)
(* the table: asked for by its id, or in the list of all runs, a run has   *)
(* as many jobs as rows, and is complete when it has rows and none is      *)
(* queued or processing; a run without rows is in no list and never        *)
(* complete (app.py:241-287).  The dashboard's own copy of the list's      *)
(* loop (app.py:356-370) is not modelled apart from it.                    *)
(***************************************************************************)
SummariesAgree ==
  /\ AllRuns = {OneRun(r) : r \in {r \in Runs : OfRun(r) # {}}}
  /\ \A r \in Runs :
       LET open == {j \in OfRun(r) : rows[j].status \in {"queued", "processing"}}
       IN  /\ OneRun(r).total = Cardinality(OfRun(r))
           /\ OneRun(r).in_flight = Cardinality(open)
           /\ OneRun(r).is_complete <=> OfRun(r) # {} /\ open = {}
=============================================================================
