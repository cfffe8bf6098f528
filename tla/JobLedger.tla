----------------------------- MODULE JobLedger -----------------------------
(***************************************************************************)
(* What the worker promises to node1, whose messages it acknowledges       *)
(* before it works on them: every job it takes is held until it is settled *)
(* (its end is on node1 or safely on its way there) or lost.  Jobs are     *)
(* settled and lost one by one, but for a crash; only a held job is        *)
(* settled, so none that was never taken, and a settled job stays settled  *)
(* and is never lost.  A lost job comes back only if node1 sends it again. *)
(* Worker implements this.                                                 *)
(***************************************************************************)
EXTENDS Naturals

CONSTANT Jobs

VARIABLES
  taken,    \* the jobs that were ever received
  settled,  \* those whose end is recorded
  lost,     \* those that nobody will bring to an end
  crashes   \* how often the process has died

vars == <<taken, settled, lost, crashes>>

Held == taken \ (settled \cup lost)

Init ==
  /\ taken = {}
  /\ settled = {}
  /\ lost = {}
  /\ crashes = 0

\* Jobs are received, some of them again.
Take(received) ==
  /\ taken' = taken \cup received
  /\ lost' = lost \ received
  /\ UNCHANGED <<settled, crashes>>

Settle(j) ==
  /\ j \in Held
  /\ settled' = settled \cup {j}
  /\ UNCHANGED <<taken, lost, crashes>>

Lose(j) ==
  /\ j \in Held
  /\ lost' = lost \cup {j}
  /\ UNCHANGED <<taken, settled, crashes>>

\* Some of what was held was held in memory.
Crash ==
  /\ \E some \in SUBSET Held : lost' = lost \cup some
  /\ crashes' = crashes + 1
  /\ UNCHANGED <<taken, settled>>

Next ==
  \/ \E received \in SUBSET Jobs : Take(received)
  \/ \E j \in Held : Settle(j) \/ Lose(j)
  \/ Crash

Spec == Init /\ [][Next]_vars
=============================================================================
