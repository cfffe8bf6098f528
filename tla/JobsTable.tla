----------------------------- MODULE JobsTable -----------------------------
(***************************************************************************)
(* The jobs table of node1's SQLite database (app.py, init_db), as a       *)
(* function from job ids to statuses.  "absent" is a job without a row.    *)
(***************************************************************************)
EXTENDS Naturals, FiniteSetsExt

Status == {"queued", "processing", "done", "failed", "publish_failed", "dead"}

\* A transaction is a sequence of statements
\*   UPDATE jobs SET status = ?, updated_at = ? WHERE id = ?
\* each a record of a job and a status.
Updated(j, txn) == \E n \in DOMAIN txn : txn[n].job = j

LastUpdate(j, txn) == txn[Max({n \in DOMAIN txn : txn[n].job = j})].status

\* The table once a transaction is committed: of several updates of a row
\* the last one counts, an update of a row that is not there changes nothing.
Committed(rows, txn) ==
  [j \in DOMAIN rows |->
     IF rows[j] # "absent" /\ Updated(j, txn) THEN LastUpdate(j, txn) ELSE rows[j]]
=============================================================================
