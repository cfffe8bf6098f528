---------------------------- MODULE StatusWriter ----------------------------
(***************************************************************************)
(* What the status consumer promises to everyone who reads the jobs table: *)
(* some of the statuses added to jobs:status are written, each once, never *)
(* an older one after a newer one, and a row shows the newest written.     *)
(* Which statuses are written, and in how many at a time, is left open:    *)
(* the process may fail, skip and lose some.  StatusConsumer implements    *)
(* this.                                                                   *)
(***************************************************************************)
EXTENDS Naturals, Sequences

CONSTANTS Jobs, Report  \* the rows; what jobs:status may hold: job, status

VARIABLES
  log,      \* the statuses ever added, in their order
  db,       \* what every row shows
  written   \* the positions of those that were written

vars == <<log, db, written>>

\* A row shows "queued", or the newest of its statuses that were written.
Shows(j) ==
  IF \E i \in written : log[i].job = j
    THEN \E i \in written :
           /\ log[i].job = j
           /\ \A k \in written : log[k].job = j => k <= i
           /\ db[j] = log[i].status
    ELSE db[j] = "queued"

LatestShown == \A j \in Jobs : Shows(j)

Init ==
  /\ log = <<>>
  /\ db = [j \in Jobs |-> "queued"]
  /\ written = {}

Arrive ==
  /\ \E r \in Report : log' = Append(log, r)
  /\ UNCHANGED <<db, written>>

Write ==
  /\ written \subseteq written' /\ written' \subseteq DOMAIN log
  /\ \A k \in written, i \in written' \ written : k < i
  /\ db' = [j \in Jobs |-> db'[j]]
  /\ LatestShown'
  /\ UNCHANGED log

Next == Arrive \/ Write

Spec == Init /\ [][Next]_vars
=============================================================================
