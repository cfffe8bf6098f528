----------------------------- MODULE SnmpStore -----------------------------
(***************************************************************************)
(* The monitoring data: node1_api/snmp_collector.py asks every node for    *)
(* every metric in turn, one sample each, and writes a round's samples in  *)
(* one pipeline to Redis; GET /api/v1/snmp (node1_api/app.py, get_snmp)    *)
(* reads them back, one sorted set after the other, while the collector    *)
(* goes on writing.                                                        *)
(*                                                                         *)
(* The clock is a number that grows; it is the same for all, as all run on *)
(* node1.  A sorted set holds the time stamps of its samples: the values   *)
(* themselves do not matter.  Redis drops a set when the clock reaches its *)
(* deadline; until then nothing is removed from it.                        *)
(*                                                                         *)
(* An operator named D_x is a plausible mistake in D.  No action uses it:  *)
(* put in D's place it must make a property below fail.                    *)
(***************************************************************************)
EXTENDS Naturals, Sequences

CONSTANTS
  Nodes, Metrics,
  Order,        \* the sorted sets, one per node and metric, as they are visited
  Window,       \* how far the history goes back (7200 s in the code)
  Retention,    \* the expiry of a sorted set (3 h)
  PollInterval, \* the pause after a round (5 s)
  RoundTime,    \* how long a round may take: snmpget is given 5 s per sample
  ReadTime,     \* how long a request may take: gunicorn gives it 30 s
  MaxTime       \* when the clock stops (a bound)

Keys == Nodes \X Metrics

ASSUME SnmpAssumption ==
  /\ Order \in Seq(Keys) /\ Order # <<>>
  /\ \A k \in Keys : \E i \in DOMAIN Order : Order[i] = k
  /\ Window \in Nat /\ RoundTime \in Nat /\ ReadTime \in Nat /\ MaxTime \in Nat
  /\ PollInterval \in Nat \ {0}
  /\ Retention \in Nat /\ Retention > Window + ReadTime

VARIABLES
  now,       \* the clock
  cpc,       \* where the collector is
  wake,      \* when its pause ends
  ts,        \* the time stamp of the current round
  toGet,     \* the sets the round has not come to
  pipe,      \* the sets it has a sample for in the pipeline
  zsets,     \* the sorted sets
  deadline,  \* when they expire
  rpc,       \* where the request is
  mode,      \* "latest" or "history"
  asked,     \* the request's `now'
  toRead,    \* the sets it has not read
  answer,    \* what it read
  written,   \* history: every sample ever written
  due,       \* history: those written before the request came
  partial    \* history: the rounds in which some snmpget failed

collectorVars == <<cpc, wake, ts, toGet, pipe>>
requestVars   == <<rpc, mode, asked, toRead, answer, due>>
vars == <<now, collectorVars, zsets, deadline, requestVars, written, partial>>

TypeOK ==
  /\ now \in Nat /\ wake \in Nat
  /\ ts \in 0 .. now
  /\ cpc \in {"pause", "get", "execute"}
  /\ toGet \in Seq(Keys) /\ pipe \subseteq Keys
  /\ zsets \in [Keys -> SUBSET (0 .. now)]
  /\ deadline \in [Keys -> 0 .. now + Retention]
  /\ rpc \in {"idle", "read", "answered"}
  /\ mode \in {"latest", "history"}
  /\ asked \in 0 .. now
  /\ toRead \in Seq(Keys)
  /\ answer \in [Keys -> SUBSET (0 .. now)]
  /\ due \subseteq written
  /\ written \subseteq [key : Keys, ts : 0 .. now]
  /\ partial \subseteq 0 .. now

Init ==
  /\ now = 0
  /\ cpc = "pause"
  /\ wake = 0
  /\ ts = 0
  /\ toGet = <<>>
  /\ pipe = {}
  /\ zsets = [k \in Keys |-> {}]
  /\ deadline = [k \in Keys |-> 0]
  /\ rpc = "idle"
  /\ mode = "latest"
  /\ asked = 0
  /\ toRead = <<>>
  /\ answer = [k \in Keys |-> {}]
  /\ written = {}
  /\ due = {}
  /\ partial = {}

-----------------------------------------------------------------------------
(***************************************************************************)
(* snmp_collector.py: collect and main                                     *)
(***************************************************************************)

StartRound_Ahead ==
  /\ cpc = "pause"
  /\ now >= wake
  /\ ts' = now + PollInterval
  /\ toGet' = Order
  /\ pipe' = {}
  /\ cpc' = "get"
  /\ UNCHANGED <<now, wake, zsets, deadline, requestVars, written, partial>>

StartRound ==
  /\ cpc = "pause"
  /\ now >= wake
  /\ ts' = now
  /\ toGet' = Order
  /\ pipe' = {}
  /\ cpc' = "get"
  /\ UNCHANGED <<now, wake, zsets, deadline, requestVars, written, partial>>

GetDone ==
  /\ toGet' = Tail(toGet)
  /\ cpc' = IF Len(toGet) = 1 THEN "execute" ELSE "get"

Get_OwnStamp ==
  /\ cpc = "get"
  /\ \/ pipe' = pipe \cup {Head(toGet)} /\ ts' = now /\ UNCHANGED partial
     \/ partial' = partial \cup {ts} /\ UNCHANGED <<pipe, ts>>
  /\ GetDone
  /\ UNCHANGED <<now, wake, zsets, deadline, requestVars, written>>

\* snmpget answers with a number, or the sample is left out.
Get ==
  /\ cpc = "get"
  /\ \/ pipe' = pipe \cup {Head(toGet)} /\ UNCHANGED partial
     \/ partial' = partial \cup {ts} /\ UNCHANGED pipe
  /\ GetDone
  /\ UNCHANGED <<now, wake, ts, zsets, deadline, requestVars, written>>

Held(k) == IF now < deadline[k] THEN zsets[k] ELSE {}

Refreshed_Once(k) == IF Held(k) = {} THEN now + Retention ELSE deadline[k]

Refreshed_Never(k) == now + Retention + MaxTime

\* EXPIRE
Refreshed(k) == now + Retention

Pause ==
  /\ cpc' = "pause"
  /\ wake' = now + PollInterval
  /\ pipe' = {}

\* ZADD and EXPIRE for every sample, in one MULTI; or an error, which main
\* logs, and nothing is written.
Execute ==
  /\ cpc = "execute"
  /\ \/ /\ zsets' = [k \in Keys |-> IF k \in pipe THEN Held(k) \cup {ts} ELSE zsets[k]]
        /\ deadline' = [k \in Keys |-> IF k \in pipe THEN Refreshed(k) ELSE deadline[k]]
        /\ written' = written \cup {[key |-> k, ts |-> ts] : k \in pipe}
     \/ UNCHANGED <<zsets, deadline, written>>
  /\ Pause
  /\ UNCHANGED <<now, ts, toGet, requestVars, partial>>

\* The process dies and systemd starts it again.
Restart ==
  /\ cpc # "pause"
  /\ Pause
  /\ toGet' = <<>>
  /\ UNCHANGED <<now, ts, zsets, deadline, requestVars, written, partial>>

-----------------------------------------------------------------------------
(***************************************************************************)
(* app.py: get_snmp                                                        *)
(***************************************************************************)

\* One request is enough: it changes nothing that another one sees.
Ask ==
  /\ rpc = "idle"
  /\ mode' \in {"latest", "history"}
  /\ asked' = now
  /\ toRead' = Order
  /\ answer' = [k \in Keys |-> {}]
  /\ rpc' = "read"
  /\ due' = written
  /\ UNCHANGED <<now, collectorVars, zsets, deadline, written, partial>>

\* ZREVRANGEBYSCORE key +inf -inf LIMIT 0 1, or ZRANGEBYSCORE key start now.
Scan(k) ==
  IF mode = "latest"
    THEN {t \in Held(k) : \A u \in Held(k) : u <= t}
    ELSE {t \in Held(k) : t + Window >= asked /\ t <= asked}

Read ==
  /\ rpc = "read"
  /\ toRead # <<>>
  /\ answer' = [answer EXCEPT ![Head(toRead)] = Scan(Head(toRead))]
  /\ toRead' = Tail(toRead)
  /\ rpc' = IF Len(toRead) = 1 THEN "answered" ELSE "read"
  /\ UNCHANGED <<now, collectorVars, zsets, deadline, mode, asked, due, written, partial>>

-----------------------------------------------------------------------------
\* A round and a request take no longer than they are given.
Tick ==
  /\ now < MaxTime
  /\ cpc # "pause" => now < ts + RoundTime
  /\ rpc = "read" => now < asked + ReadTime
  /\ now' = now + 1
  /\ UNCHANGED <<collectorVars, zsets, deadline, requestVars, written, partial>>

Collector == StartRound \/ Get \/ Execute \/ Restart

Request == Ask \/ Read

Next == Collector \/ Request \/ Tick

Spec == Init /\ [][Next]_vars

-----------------------------------------------------------------------------
(***************************************************************************)
(* Properties                                                              *)
(***************************************************************************)

Answered(m) == rpc = "answered" /\ mode = m

(***************************************************************************)
(* The history has every sample of its window that was written before the  *)
(* request came, however the collector fared since then: a set does not    *)
(* expire as long as the window reaches into it (collect's EXPIRE against  *)
(* get_snmp's 7200 s).                                                     *)
(***************************************************************************)
HistoryComplete ==
  Answered("history") =>
    \A w \in due : w.ts + Window >= asked => w.ts \in answer[w.key]

(***************************************************************************)
(* The latest value of a metric is not older than the retention and one    *)
(* round: what a node last said before it fell silent is not shown as its  *)
(* latest for ever (collect's EXPIRE).                                     *)
(***************************************************************************)
LatestIsRecent ==
  Answered("latest") =>
    \A k \in Keys : \A t \in answer[k] : asked <= t + RoundTime + Retention

RowsOf(n) == UNION {answer[<<n, m>>] : m \in Metrics}

(***************************************************************************)
(* A row of a node's history has all of its metrics, unless an snmpget     *)
(* failed in its round.  The newest row is excepted: the request may have  *)
(* read one set before the round was written and the next one after it,    *)
(* as the round's time stamp is older than the request (collect's single   *)
(* `ts' and pipeline, get_snmp's single `now').                            *)
(***************************************************************************)
RowsWhole ==
  Answered("history") =>
    \A n \in Nodes : \A t \in RowsOf(n) :
      t \notin partial /\ (\E u \in RowsOf(n) : u > t) =>
        \A m \in Metrics : t \in answer[<<n, m>>]

=============================================================================
