--------------------------- MODULE Loadtest_proofs ---------------------------
(***************************************************************************)
(* Theorems about Loadtest, for any runs, any jobs and any number of       *)
(* restarts.                                                               *)
(***************************************************************************)
EXTENDS Loadtest, FiniteSetTheorems, TLAPS

-----------------------------------------------------------------------------
(***************************************************************************)
(* The invariant                                                           *)
(***************************************************************************)

\* An entry is running without a result, or ended with the one that says so.
Ended == {[status |-> "done", result |-> "0"], [status |-> "failed", result |-> "other"]}

EntryShape == \A r \in Runs : runs[r] \in {NoEntry, Running} \cup Ended

\* A thread that is about to record the result has one, and the entry of a
\* run that is started, or runs, is there.
ThreadShape ==
  \A r \in Runs :
    /\ thread[r] = "record" => exitCode[r] \in {"0", "other"}
    /\ thread[r] # "none" \/ post[r] = "inserted" => runs[r] # NoEntry
    /\ post[r] \in {"new", "inserted"} => thread[r] = "none"

\* A GET asks for a run that was answered, whose entry stays while the GET
\* looks at it, and stays ended once it was seen ended.
GetShape ==
  \A r \in Runs :
    /\ get[r] # "idle" => post[r] = "202"
    /\ get[r] = "found" => runs[r] # NoEntry
    /\ get[r] = "ended" => runs[r] \in Ended
    /\ get[r] = "200" => shown[r] \in Ended

\* k6 sends jobs of runs that are there, until the service restarts, and
\* their rows have the ids of these runs.
JobShape ==
  \A j \in Jobs :
    sent[j] # NoRun =>
      /\ runs[sent[j]] # NoEntry \/ restarts > 0
      /\ rows[j] # NoRow => rows[j].run = sent[j]

\* A row has a status that a row may take.
RowShape == \A j \in Jobs : rows[j] # NoRow => rows[j].status \in Shown

\* All of it.
Inv == TypeOK /\ EntryShape /\ ThreadShape /\ GetShape /\ JobShape /\ RowShape

-----------------------------------------------------------------------------
(***************************************************************************)
(* Every step                                                              *)
(***************************************************************************)

\* Nothing is running, sent or asked for at first.
LEMMA InitInv == Init => Inv
<1>1. Init => TypeOK
  BY LoadtestAssumption DEF Init, TypeOK, Entry, NoEntry, NoRow
<1>2. Init => EntryShape /\ ThreadShape /\ GetShape /\ JobShape /\ RowShape
  BY DEF Init, EntryShape, ThreadShape, GetShape, JobShape, RowShape, NoEntry, NoRow
<1> QED BY <1>1, <1>2 DEF Inv

\* The server's steps keep the variables' types.
LEMMA ServerTyped ==
  ASSUME TypeOK, EntryShape, ThreadShape, NEW r \in Runs, Server(r)
  PROVE  /\ runs' \in [Runs -> Entry]
         /\ post' \in [Runs -> {"new", "inserted", "202", "400", "500", "dropped"}]
         /\ thread' \in [Runs -> {"none", "k6", "record"}]
         /\ exitCode' \in [Runs -> {"none", "0", "other"}]
         /\ get' \in [Runs -> {"idle", "found", "ended", "200", "202", "404"}]
         /\ shown' \in [Runs -> Entry]
         /\ UNCHANGED <<tableVars, restarts>>
<1>1. CASE Refuse(r) \/ StartThread(r) \/ K6Ends(r) \/ LookUp(r) \/ CheckStatus(r)
  BY <1>1 DEF Refuse, StartThread, K6Ends, LookUp, CheckStatus, TypeOK
<1>2. CASE Register(r)
  BY <1>2 DEF Register, TypeOK, Entry, Running
<1>3. CASE Record(r)
  <2>1. [status |-> StatusOf(exitCode[r]), result |-> exitCode[r]] \in Entry
    BY DEF StatusOf, Entry, TypeOK
  <2> QED BY <1>3, <2>1 DEF Record, TypeOK
<1>4. CASE Show(r)
  BY <1>4 DEF Show, TypeOK
<1> QED BY <1>1, <1>2, <1>3, <1>4 DEF Server

\* A step of the server for one run leaves the other runs alone.
LEMMA OtherRuns ==
  ASSUME TypeOK, NEW r \in Runs, Server(r), NEW x \in Runs, x # r
  PROVE  /\ runs'[x] = runs[x] /\ post'[x] = post[x] /\ thread'[x] = thread[x]
         /\ exitCode'[x] = exitCode[x] /\ get'[x] = get[x] /\ shown'[x] = shown[x]
<1>1. CASE Refuse(r) \/ StartThread(r) \/ K6Ends(r) \/ LookUp(r) \/ CheckStatus(r)
  BY <1>1 DEF Refuse, StartThread, K6Ends, LookUp, CheckStatus, TypeOK
<1>2. CASE Register(r) \/ Record(r) \/ Show(r)
  BY <1>2 DEF Register, Record, Show, TypeOK
<1> QED BY <1>1, <1>2 DEF Server

\* What a step of the server does to its run: an entry that is there stays,
\* and one that has ended stays ended.
LEMMA OwnRun ==
  ASSUME Inv, NEW r \in Runs, Server(r)
  PROVE  /\ runs'[r] \in {NoEntry, Running} \cup Ended
         /\ runs[r] # NoEntry => runs'[r] # NoEntry
         /\ thread'[r] = "record" => exitCode'[r] \in {"0", "other"}
         /\ thread'[r] # "none" \/ post'[r] = "inserted" => runs'[r] # NoEntry
         /\ post'[r] \in {"new", "inserted"} => thread'[r] = "none"
         /\ get'[r] # "idle" => post'[r] = "202"
         /\ get'[r] = "found" => runs'[r] # NoEntry
         /\ get'[r] = "ended" => runs'[r] \in Ended
         /\ get'[r] = "200" => shown'[r] \in Ended
<1>0. /\ TypeOK
      /\ runs[r] \in {NoEntry, Running} \cup Ended
      /\ thread[r] = "record" => exitCode[r] \in {"0", "other"}
      /\ thread[r] # "none" \/ post[r] = "inserted" => runs[r] # NoEntry
      /\ post[r] \in {"new", "inserted"} => thread[r] = "none"
      /\ get[r] # "idle" => post[r] = "202"
      /\ get[r] = "found" => runs[r] # NoEntry
      /\ get[r] = "ended" => runs[r] \in Ended
      /\ get[r] = "200" => shown[r] \in Ended
      /\ Running # NoEntry /\ NoEntry \notin Ended /\ Running \notin Ended
  BY DEF Inv, EntryShape, ThreadShape, GetShape, Running, NoEntry, Ended
<1> HIDE DEF Running, NoEntry, Ended
<1>1. CASE Refuse(r)
  BY <1>0, <1>1 DEF Refuse, TypeOK
<1>2. CASE Register(r)
  BY <1>0, <1>2 DEF Register, TypeOK
<1>3. CASE StartThread(r)
  BY <1>0, <1>3 DEF StartThread, TypeOK
<1>4. CASE K6Ends(r)
  BY <1>0, <1>4 DEF K6Ends, TypeOK
<1>5. CASE Record(r)
  <2>1. [status |-> StatusOf(exitCode[r]), result |-> exitCode[r]] \in Ended
    BY <1>0, <1>5 DEF Record, StatusOf, Ended
  <2> QED BY <1>0, <1>5, <2>1 DEF Record, TypeOK
<1>6. CASE LookUp(r)
  BY <1>0, <1>6 DEF LookUp, TypeOK
<1>7. CASE CheckStatus(r)
  <2>1. runs[r].status = "running" \/ runs[r] \in Ended
    BY <1>0, <1>7 DEF CheckStatus, Running, NoEntry, Ended
  <2> QED BY <1>0, <1>7, <2>1 DEF CheckStatus, TypeOK
<1>8. CASE Show(r)
  BY <1>0, <1>8 DEF Show, TypeOK
<1> QED BY <1>1, <1>2, <1>3, <1>4, <1>5, <1>6, <1>7, <1>8 DEF Server

\* The server keeps the invariant.
LEMMA ServerKeeps ==
  ASSUME Inv, NEW r \in Runs, Server(r)
  PROVE  Inv'
<1>0. TypeOK /\ EntryShape /\ ThreadShape /\ GetShape /\ JobShape /\ RowShape
  BY DEF Inv
<1>1. TypeOK'
  BY <1>0, ServerTyped DEF TypeOK, tableVars
<1>2. EntryShape' /\ ThreadShape' /\ GetShape'
  BY <1>0, OwnRun, OtherRuns DEF EntryShape, ThreadShape, GetShape
<1>3. JobShape'
  <2>1. \A x \in Runs : runs[x] # NoEntry => runs'[x] # NoEntry
    BY <1>0, OwnRun, OtherRuns
  <2>2. UNCHANGED <<sent, rows, restarts>>
    BY <1>0, ServerTyped DEF tableVars
  <2>3. \A j \in Jobs : sent[j] \in Runs \cup {NoRun} /\ rows[j].run \in Runs \cup {NoRun}
    BY <1>0 DEF TypeOK
  <2> QED BY <1>0, <2>1, <2>2, <2>3 DEF JobShape
<1>4. RowShape'
  BY <1>0, ServerTyped DEF RowShape, tableVars
<1> QED BY <1>1, <1>2, <1>3, <1>4 DEF Inv

\* A restart forgets every run.
LEMMA RestartKeeps ==
  ASSUME Inv, Restart
  PROVE  Inv'
<1>0. TypeOK /\ EntryShape /\ ThreadShape /\ GetShape /\ JobShape /\ RowShape
  BY DEF Inv
<1>1. TypeOK'
  BY <1>0 DEF Restart, TypeOK, Entry, NoEntry, tableVars
<1>2. EntryShape' /\ ThreadShape' /\ GetShape'
  BY <1>0 DEF Restart, EntryShape, ThreadShape, GetShape, TypeOK
<1>3. JobShape'
  <2>1. restarts' > 0
    BY <1>0 DEF Restart, TypeOK
  <2>2. UNCHANGED <<sent, rows>>
    BY DEF Restart, tableVars
  <2> QED BY <1>0, <2>1, <2>2 DEF JobShape
<1>4. RowShape'
  BY <1>0 DEF Restart, RowShape, tableVars
<1> QED BY <1>1, <1>2, <1>3, <1>4 DEF Inv

\* Jobs come from runs that are there.
LEMMA JobsKeep ==
  ASSUME Inv, \/ \E r \in Runs, j \in Jobs : Send(r, j)
              \/ \E j \in Jobs : Insert(j) \/ SetStatus(j)
  PROVE  Inv'
<1>0. /\ TypeOK /\ EntryShape /\ ThreadShape /\ GetShape /\ JobShape /\ RowShape
      /\ UNCHANGED <<serverVars, restarts>>
  BY DEF Inv, Send, Insert, SetStatus
<1>1. EntryShape' /\ ThreadShape' /\ GetShape'
  BY <1>0 DEF EntryShape, ThreadShape, GetShape, serverVars
<1>2. CASE \E r \in Runs, j \in Jobs : Send(r, j)
  <2>1. TypeOK'
    BY <1>0, <1>2 DEF Send, TypeOK, serverVars
  <2>2. JobShape'
    BY <1>0, <1>2 DEF Send, JobShape, ThreadShape, TypeOK, serverVars
  <2>3. RowShape'
    BY <1>0, <1>2 DEF Send, RowShape
  <2> QED BY <1>1, <2>1, <2>2, <2>3 DEF Inv
<1>3. ASSUME NEW j \in Jobs, Insert(j) \/ SetStatus(j)
      PROVE  Inv'
  <2>1. /\ rows' \in [Jobs -> [run : Runs \cup {NoRun}, status : Shown \cup {"absent"}]]
        /\ \A x \in Jobs : sent[x] # NoRun /\ rows'[x] # NoRow =>
             rows'[x].run = sent[x] \/ (rows[x] # NoRow /\ rows'[x].run = rows[x].run)
        /\ UNCHANGED sent
    <3>1. CASE Insert(j)
      <4>1. PICK s \in Shown, r \in Runs \cup {NoRun} :
              /\ sent[j] # NoRun => r = sent[j]
              /\ rows' = [rows EXCEPT ![j] = [run |-> r, status |-> s]]
        BY <3>1 DEF Insert
      <4>2. rows'[j].run = r /\ \A x \in Jobs \ {j} : rows'[x] = rows[x]
        BY <1>0, <4>1 DEF TypeOK
      <4>3. UNCHANGED sent
        BY <3>1 DEF Insert
      <4>4. rows' \in [Jobs -> [run : Runs \cup {NoRun}, status : Shown \cup {"absent"}]]
        BY <1>0, <4>1 DEF TypeOK
      <4> QED BY <4>1, <4>2, <4>3, <4>4
    <3>2. CASE SetStatus(j)
      <4>1. \A x \in Jobs : rows'[x] # NoRow => rows[x] # NoRow /\ rows'[x].run = rows[x].run
        BY <1>0, <3>2 DEF SetStatus, TypeOK
      <4> QED BY <1>0, <3>2, <4>1 DEF SetStatus, TypeOK
    <3> QED BY <1>3, <3>1, <3>2
  <2>2. TypeOK'
    BY <1>0, <2>1 DEF TypeOK, serverVars
  <2>3. JobShape'
    BY <1>0, <2>1 DEF JobShape, serverVars
  <2>4. \A x \in Jobs : rows'[x] = rows[x] \/ rows'[x].status \in Shown
    BY <1>0, <1>3 DEF Insert, SetStatus, TypeOK
  <2>5. RowShape'
    BY <1>0, <2>4 DEF RowShape
  <2> QED BY <1>1, <2>2, <2>3, <2>5 DEF Inv
<1> QED BY <1>2, <1>3

\* Every step keeps the invariant.
LEMMA StepInv ==
  ASSUME Inv, [Next]_vars
  PROVE  Inv'
<1>1. CASE UNCHANGED vars
  BY <1>1 DEF vars, serverVars, tableVars, Inv, TypeOK, EntryShape, ThreadShape, GetShape, JobShape, RowShape
<1> QED BY <1>1, ServerKeeps, RestartKeeps, JobsKeep DEF Next

(***************************************************************************)
(* The variables keep their types: among others, a run is absent, running, *)
(* done or failed (loadtest_server.py:39-46 and 77-83).                    *)
(***************************************************************************)
THEOREM LoadtestTypeCorrect == Spec => []TypeOK
<1>1. Inv => TypeOK
  BY DEF Inv
<1> QED BY InitInv, StepInv, <1>1, PTL DEF Spec

(***************************************************************************)
(* A run shown as ended is shown with its exit code, and `done' means 0,   *)
(* whatever _execute writes between the reads of a GET                     *)
(* (loadtest_server.py:39-46 and 96-104).                                  *)
(***************************************************************************)
THEOREM ResultsAreWhole == Spec => []FinishedIsWhole
<1>1. Inv => FinishedIsWhole
  BY DEF Inv, GetShape, Ended, FinishedIsWhole
<1> QED BY InitInv, StepInv, <1>1, PTL DEF Spec

(***************************************************************************)
(* The row of a job that a run's k6 has sent names a run the server knows, *)
(* as long as it has not restarted, whatever rows other clients add with   *)
(* whatever run_id (start_run, _execute, enqueue_job).                     *)
(***************************************************************************)
THEOREM RunsComeFirst == Spec => []RowsOfKnownRuns
<1>1. Inv => RowsOfKnownRuns
  BY DEF Inv, TypeOK, JobShape, RowsOfKnownRuns
<1> QED BY InitInv, StepInv, <1>1, PTL DEF Spec

-----------------------------------------------------------------------------
(***************************************************************************)
(* The summary of a run                                                    *)
(***************************************************************************)

\* The rows of a run with a status.
OfStatus(r, s) == {j \in OfRun(r) : rows[j].status = s}

\* Sets of rows are finite.
LEMMA RowsFinite ==
  ASSUME NEW r, NEW s
  PROVE  /\ IsFiniteSet(OfRun(r)) /\ Cardinality(OfRun(r)) \in Nat
         /\ IsFiniteSet(OfStatus(r, s)) /\ Cardinality(OfStatus(r, s)) \in Nat
<1>1. OfRun(r) \in SUBSET Jobs /\ OfStatus(r, s) \in SUBSET Jobs
  BY DEF OfRun, OfStatus
<1>2. IsFiniteSet(Jobs)
  BY LoadtestAssumption
<1>3. IsFiniteSet(OfRun(r)) /\ IsFiniteSet(OfStatus(r, s))
  BY <1>1, <1>2, FS_Subset
<1> QED BY <1>3, FS_CardinalityType

\* A count is positive where there is something to count.
LEMMA SomeCounted ==
  ASSUME NEW r, NEW s
  PROVE  /\ Cardinality(OfStatus(r, s)) > 0 <=> OfStatus(r, s) # {}
         /\ Cardinality(OfRun(r)) > 0 <=> OfRun(r) # {}
<1>1. \A S : IsFiniteSet(S) => (Cardinality(S) = 0 <=> S = {})
  BY FS_EmptySet
<1> QED BY <1>1, RowsFinite

\* Taking a part away.
LEMMA TakeAway ==
  ASSUME NEW S, IsFiniteSet(S), NEW T, T \subseteq S
  PROVE  /\ IsFiniteSet(S \ T)
         /\ Cardinality(S) \in Nat /\ Cardinality(T) \in Nat
         /\ Cardinality(S) = Cardinality(T) + Cardinality(S \ T)
<1>1. IsFiniteSet(S \ T) /\ Cardinality(S \ T) = Cardinality(S) - Cardinality(S \cap T)
  BY FS_Difference
<1>2. S \cap T = T
  OBVIOUS
<1>3. IsFiniteSet(T)
  BY FS_Subset
<1>4. Cardinality(S) \in Nat /\ Cardinality(T) \in Nat
  BY <1>3, FS_CardinalityType
<1>5. Cardinality(S \ T) = Cardinality(S) - Cardinality(T)
  BY <1>1, <1>2
<1> QED BY <1>1, <1>4, <1>5

\* The six statuses divide the rows of a run.
LEMMA RowsByStatus ==
  ASSUME Inv, NEW r \in Runs
  PROVE  Cardinality(OfRun(r)) =
           Cardinality(OfStatus(r, "queued")) + Cardinality(OfStatus(r, "processing")) +
           Cardinality(OfStatus(r, "done")) + Cardinality(OfStatus(r, "failed")) +
           Cardinality(OfStatus(r, "publish_failed")) + Cardinality(OfStatus(r, "dead"))
<1> DEFINE A == OfStatus(r, "queued")         B == OfStatus(r, "processing")
           C == OfStatus(r, "done")           D == OfStatus(r, "failed")
           E == OfStatus(r, "publish_failed") F == OfStatus(r, "dead")
           S1 == OfRun(r) \ A   S2 == S1 \ B   S3 == S2 \ C   S4 == S3 \ D   S5 == S4 \ E
<1>1. \A j \in OfRun(r) : rows[j].status \in Status
  BY LoadtestAssumption DEF Inv, RowShape, OfRun
<1>2. /\ A \subseteq OfRun(r) /\ B \subseteq S1 /\ C \subseteq S2
      /\ D \subseteq S3 /\ E \subseteq S4
  BY DEF OfStatus
<1>3. S5 = F
  BY <1>1 DEF OfStatus, Status
<1>4. IsFiniteSet(OfRun(r))
  BY RowsFinite
<1> HIDE DEF A, B, C, D, E, F
<1>5. IsFiniteSet(S1) /\ Cardinality(OfRun(r)) = Cardinality(A) + Cardinality(S1)
  BY <1>2, <1>4, TakeAway
<1>6. IsFiniteSet(S2) /\ Cardinality(S1) = Cardinality(B) + Cardinality(S2)
  BY <1>2, <1>5, TakeAway
<1>7. IsFiniteSet(S3) /\ Cardinality(S2) = Cardinality(C) + Cardinality(S3)
  BY <1>2, <1>6, TakeAway
<1>8. IsFiniteSet(S4) /\ Cardinality(S3) = Cardinality(D) + Cardinality(S4)
  BY <1>2, <1>7, TakeAway
<1>9. Cardinality(S4) = Cardinality(E) + Cardinality(F)
  BY <1>2, <1>3, <1>8, TakeAway
<1>10. /\ Cardinality(A) \in Nat /\ Cardinality(B) \in Nat /\ Cardinality(C) \in Nat
       /\ Cardinality(D) \in Nat /\ Cardinality(E) \in Nat /\ Cardinality(F) \in Nat
  BY RowsFinite DEF A, B, C, D, E, F
<1> HIDE DEF S1, S2, S3, S4, S5
<1>11. Cardinality(OfRun(r)) =
         Cardinality(A) + Cardinality(B) + Cardinality(C) +
         Cardinality(D) + Cardinality(E) + Cardinality(F)
  BY <1>5, <1>6, <1>7, <1>8, <1>9, <1>10
<1> QED BY <1>11 DEF A, B, C, D, E, F

\* A status counts the rows that have it, also when its key is missing.
LEMMA CountOfStatus ==
  ASSUME NEW r, NEW s
  PROVE  CountOf(ByStatus(r), s) = Cardinality(OfStatus(r, s))
<1>1. CASE OfStatus(r, s) = {}
  <2>1. s \notin DOMAIN ByStatus(r)
    BY <1>1 DEF ByStatus, OfStatus
  <2>2. Cardinality(OfStatus(r, s)) = 0
    BY <1>1, FS_EmptySet
  <2> QED BY <2>1, <2>2 DEF CountOf
<1>2. CASE OfStatus(r, s) # {}
  <2>1. s \in {rows[j].status : j \in OfRun(r)}
    BY <1>2 DEF OfStatus
  <2> QED BY <2>1 DEF CountOf, ByStatus, OfStatus
<1> QED BY <1>1, <1>2

\* A group counts the rows of a run that have its status.
LEMMA GroupShape ==
  /\ \A x \in Runs, s \in Shown :
       [run |-> x, status |-> s, cnt |-> Cardinality(OfStatus(x, s))] \in Groups
  /\ \A g \in Groups :
       g.run \in Runs /\ g.status \in Shown /\ g.cnt = Cardinality(OfStatus(g.run, g.status))
<1> DEFINE G(x, s) == [run |-> x, status |-> s, cnt |-> Cardinality(OfStatus(x, s))]
<1>1. Groups = {G(x, s) : x \in Runs, s \in Shown}
  BY DEF Groups, OfStatus
<1>2. ASSUME NEW x \in Runs, NEW s \in Shown PROVE G(x, s) \in Groups
  <2> HIDE DEF G
  <2> QED BY <1>1
<1>3. ASSUME NEW g \in Groups
      PROVE  /\ g.run \in Runs /\ g.status \in Shown
             /\ g.cnt = Cardinality(OfStatus(g.run, g.status))
  <2>1. PICK x \in Runs, s \in Shown : g = G(x, s)
    <3> HIDE DEF G
    <3> QED BY <1>1, <1>3
  <2> QED BY <2>1
<1> QED BY <1>2, <1>3

\* The groups of a run are its statuses that have rows.
LEMMA GroupsOfRun ==
  ASSUME Inv, NEW r \in Runs, NEW s
  PROVE  /\ OfStatus(r, s) # {} =>
              \E g \in Counted : g.run = r /\ g.status = s
         /\ \A g \in Counted : g.run = r /\ g.status = s =>
              OfStatus(r, s) # {} /\ g.cnt = Cardinality(OfStatus(r, s))
<1>1. ASSUME OfStatus(r, s) # {}
      PROVE  \E g \in Counted : g.run = r /\ g.status = s
  <2>1. s \in Shown
    BY <1>1 DEF Inv, RowShape, OfStatus, OfRun
  <2> DEFINE g == [run |-> r, status |-> s, cnt |-> Cardinality(OfStatus(r, s))]
  <2>2. g \in Groups
    BY <2>1, GroupShape
  <2>3. g.cnt > 0
    BY <1>1, SomeCounted
  <2>4. g \in Counted /\ g.run = r /\ g.status = s
    BY <2>2, <2>3 DEF Counted
  <2> QED BY <2>4
<1>2. ASSUME NEW g \in Counted, g.run = r, g.status = s
      PROVE  OfStatus(r, s) # {} /\ g.cnt = Cardinality(OfStatus(r, s))
  <2>1. g.cnt = Cardinality(OfStatus(r, s)) /\ g.cnt > 0
    BY <1>2, GroupShape DEF Counted
  <2> QED BY <2>1, SomeCounted
<1> QED BY <1>1, <1>2

\* agg[rid] is what asking for the run gives.
LEMMA AggregatedIsByStatus ==
  ASSUME Inv, NEW r \in Runs
  PROVE  Aggregated(r) = ByStatus(r)
<1> DEFINE K == {g.status : g \in {g \in Counted : g.run = r}}
           L == {rows[j].status : j \in OfRun(r)}
<1>1. \A s : s \in K <=> OfStatus(r, s) # {}
  <2>1. ASSUME NEW s PROVE s \in K <=> \E g \in Counted : g.run = r /\ g.status = s
    OBVIOUS
  <2> QED BY <2>1, GroupsOfRun
<1>2. \A s : s \in L <=> OfStatus(r, s) # {}
  BY DEF OfStatus
<1>3. K = L
  BY <1>1, <1>2
<1>4. ASSUME NEW s \in K
      PROVE  (CHOOSE g \in Counted : g.run = r /\ g.status = s).cnt = Cardinality(OfStatus(r, s))
  <2>1. \E g \in Counted : g.run = r /\ g.status = s
    OBVIOUS
  <2> QED BY <2>1, GroupsOfRun
<1> HIDE DEF K, L
<1>5. Aggregated(r) = [s \in K |-> Cardinality(OfStatus(r, s))]
  BY <1>4 DEF Aggregated, K
<1>6. ByStatus(r) = [s \in L |-> Cardinality(OfStatus(r, s))]
  BY DEF ByStatus, OfStatus, L
<1> QED BY <1>3, <1>5, <1>6

\* The runs of the list are those with rows.
LEMMA ListedRuns ==
  ASSUME Inv
  PROVE  {g.run : g \in Counted} = {r \in Runs : OfRun(r) # {}}
<1>1. ASSUME NEW g \in Counted PROVE g.run \in Runs /\ OfRun(g.run) # {}
  <2>1. g.run \in Runs
    BY GroupShape DEF Counted
  <2>2. OfStatus(g.run, g.status) # {}
    BY <2>1, GroupsOfRun
  <2> QED BY <2>1, <2>2 DEF OfStatus
<1>2. ASSUME NEW r \in Runs, OfRun(r) # {} PROVE \E g \in Counted : g.run = r
  <2>1. PICK j \in OfRun(r) : TRUE
    BY <1>2
  <2>2. OfStatus(r, rows[j].status) # {}
    BY <2>1 DEF OfStatus
  <2> QED BY <2>2, GroupsOfRun
<1> QED BY <1>1, <1>2

\* The totals of a run asked for by its id.
LEMMA OneRunCounts ==
  ASSUME Inv, NEW r \in Runs
  PROVE  LET open == {j \in OfRun(r) : rows[j].status \in {"queued", "processing"}}
         IN  /\ OneRun(r).total = Cardinality(OfRun(r))
             /\ OneRun(r).in_flight = Cardinality(open)
             /\ OneRun(r).is_complete <=> OfRun(r) # {} /\ open = {}
<1> DEFINE open == {j \in OfRun(r) : rows[j].status \in {"queued", "processing"}}
           A == OfStatus(r, "queued")
           B == OfStatus(r, "processing")
           flight == CountOf(ByStatus(r), "queued") + CountOf(ByStatus(r), "processing")
<1>1. Total(ByStatus(r)) = Cardinality(OfRun(r))
  BY RowsByStatus, CountOfStatus DEF Total
<1>2. flight = Cardinality(open)
  <2>1. IsFiniteSet(open)
    <3>1. open \in SUBSET OfRun(r)
      OBVIOUS
    <3> QED BY <3>1, RowsFinite, FS_Subset
  <2>2. A \subseteq open /\ open \ A = B
    BY DEF OfStatus
  <2>3. flight = Cardinality(A) + Cardinality(B)
    BY CountOfStatus
  <2> HIDE DEF open, A, B, flight
  <2>4. Cardinality(open) = Cardinality(A) + Cardinality(open \ A)
    BY <2>1, <2>2, TakeAway
  <2> QED BY <2>2, <2>3, <2>4
<1>3. /\ OneRun(r).total = Total(ByStatus(r))
      /\ OneRun(r).in_flight = flight
      /\ OneRun(r).is_complete <=> flight = 0 /\ Total(ByStatus(r)) > 0
  BY DEF OneRun, Summary
<1>4. Cardinality(open) = 0 <=> open = {}
  <2>1. open \in SUBSET OfRun(r)
    OBVIOUS
  <2>2. IsFiniteSet(open)
    BY <2>1, RowsFinite, FS_Subset
  <2> HIDE DEF open
  <2> QED BY <2>2, FS_EmptySet
<1>5. Cardinality(OfRun(r)) > 0 <=> OfRun(r) # {}
  BY SomeCounted
<1> HIDE DEF open, flight
<1>6. OneRun(r).is_complete <=> OfRun(r) # {} /\ open = {}
  BY <1>1, <1>2, <1>3, <1>4, <1>5
<1>7. OneRun(r).total = Cardinality(OfRun(r)) /\ OneRun(r).in_flight = Cardinality(open)
  BY <1>1, <1>2, <1>3
<1> QED BY <1>6, <1>7 DEF open

(***************************************************************************)
(* However many jobs a run has and whatever statuses they take, the list   *)
(* of all runs and the summary of a run agree with each other and with the *)
(* table (get_jobs_stats and the dashboard, app.py:241-287 and 356-370).   *)
(***************************************************************************)
THEOREM StatsAgree == Spec => []SummariesAgree
<1>1. ASSUME Inv PROVE SummariesAgree
  <2>1. AllRuns = {OneRun(r) : r \in {r \in Runs : OfRun(r) # {}}}
    <3>1. AllRuns = {Summary(r, Aggregated(r)) : r \in {r \in Runs : OfRun(r) # {}}}
      BY <1>1, ListedRuns DEF AllRuns
    <3>2. \A r \in Runs : Summary(r, Aggregated(r)) = OneRun(r)
      BY <1>1, AggregatedIsByStatus DEF OneRun
    <3> QED BY <3>1, <3>2
  <2> QED BY <1>1, <2>1, OneRunCounts DEF SummariesAgree
<1> QED BY InitInv, StepInv, <1>1, PTL DEF Spec
=============================================================================
