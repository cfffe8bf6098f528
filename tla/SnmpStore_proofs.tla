--------------------------- MODULE SnmpStore_proofs ---------------------------
(***************************************************************************)
(* Theorems about SnmpStore, for any nodes and metrics, visited in any     *)
(* order, and any window, retention and durations its assumption allows.   *)
(***************************************************************************)
EXTENDS SnmpStore, Stores_proofs

-----------------------------------------------------------------------------
(***************************************************************************)
(* The invariant                                                           *)
(***************************************************************************)

\* A sample younger than the retention is in its set, which does not expire
\* before the sample is as old.
StoreShape ==
  \A w \in written : now < w.ts + Retention =>
    w.ts \in zsets[w.key] /\ deadline[w.key] >= w.ts + Retention

\* Only sets that a round and a request visit are written.
VisitShape ==
  /\ \A w \in written : w.key \in ToSet(Order)
  /\ pipe \subseteq ToSet(Order) /\ ToSet(toGet) \subseteq ToSet(Order)

\* No sample is newer than the current round, which has not taken too long,
\* and no set is kept longer than its newest sample is worth.
RoundShape ==
  /\ cpc # "pause" => now <= ts + RoundTime
  /\ cpc = "get" => toGet # <<>>
  /\ \A w \in written : w.ts <= ts
  /\ \A k \in Keys : \A t \in zsets[k] : t <= ts
  /\ \A k \in Keys : zsets[k] # {} =>
       \E t \in zsets[k] : /\ \A u \in zsets[k] : u <= t
                           /\ deadline[k] <= t + RoundTime + Retention

\* A request that has not taken too long has found what it has come to.
RequestShape ==
  /\ rpc = "read" => now <= asked + ReadTime
  /\ rpc = "answered" => toRead = <<>>
  /\ \A w \in due : w.ts <= asked
  /\ rpc # "idle" /\ mode = "history" =>
       \A w \in due : w.ts + Window >= asked =>
         w.key \in ToSet(toRead) \/ w.ts \in answer[w.key]
  /\ rpc # "idle" /\ mode = "latest" =>
       \A k \in Keys : \A t \in answer[k] : asked <= t + RoundTime + Retention

\* All of it.
Inv == TypeOK /\ StoreShape /\ VisitShape /\ RoundShape /\ RequestShape

-----------------------------------------------------------------------------
(***************************************************************************)
(* Every step                                                              *)
(***************************************************************************)

\* Nothing is written or asked for at first.
LEMMA InitInv == ASSUME Init PROVE Inv
<1> USE SnmpAssumption
<1>1. TypeOK
  BY DEF Init, TypeOK
<1>2. StoreShape /\ VisitShape /\ RoundShape /\ RequestShape
  BY ToSetEmpty DEF Init, StoreShape, VisitShape, RoundShape, RequestShape
<1> QED BY <1>1, <1>2 DEF Inv

\* The rest of a sequence of sets.
LEMMA TailKeys ==
  ASSUME NEW s \in Seq(Keys), s # <<>>
  PROVE  /\ Tail(s) \in Seq(Keys) /\ Head(s) \in Keys
         /\ ToSet(s) = {Head(s)} \cup ToSet(Tail(s))
         /\ Tail(s) = <<>> <=> Len(s) = 1
<1>1. Tail(s) \in Seq(Keys) /\ Head(s) \in Keys /\ Len(Tail(s)) = Len(s) - 1 /\ Len(s) \in Nat
  BY HeadTailProperties, LenProperties
<1>2. ToSet(s) = {Head(s)} \cup ToSet(Tail(s))
  BY ToSetHeadTail
<1>3. Tail(s) = <<>> <=> Len(s) - 1 = 0
  BY <1>1, EmptySeq
<1> QED BY <1>1, <1>2, <1>3

\* The conjuncts that mention neither the collector's variables nor the store.
LEMMA RequestKept ==
  ASSUME RequestShape, UNCHANGED <<now, requestVars>>
  PROVE  RequestShape'
BY DEF RequestShape, requestVars

\* A step of the collector that writes nothing.
LEMMA QuietCollector ==
  ASSUME Inv, StartRound \/ Get \/ Restart
  PROVE  Inv'
<1>0. /\ TypeOK /\ StoreShape /\ VisitShape /\ RoundShape /\ RequestShape
      /\ Order \in Seq(Keys) /\ Order # <<>> /\ PollInterval \in Nat
      /\ UNCHANGED <<now, zsets, deadline, requestVars, written>>
  BY SnmpAssumption DEF Inv, StartRound, Get, Restart
<1>1. /\ now \in Nat /\ ts \in 0 .. now /\ wake \in Nat /\ partial \subseteq 0 .. now
      /\ RoundTime \in Nat
  BY <1>0, SnmpAssumption DEF TypeOK
<1>2. /\ ts' \in 0 .. now /\ ts' >= ts
      /\ wake' \in Nat /\ partial' \subseteq 0 .. now
      /\ cpc' \in {"pause", "get", "execute"}
      /\ cpc' # "pause" => now <= ts' + RoundTime
  <2>1. CASE StartRound
    BY <1>1, <2>1 DEF StartRound
  <2>2. CASE Get
    <3>1. ts' = ts /\ wake' = wake /\ cpc' \in {"get", "execute"} /\ cpc # "pause"
      BY <2>2 DEF Get, GetDone
    <3>2. partial' \subseteq 0 .. now
      BY <1>1, <2>2 DEF Get
    <3>3. now <= ts + RoundTime
      BY <1>0, <3>1 DEF RoundShape
    <3> QED BY <1>1, <3>1, <3>2, <3>3
  <2>3. CASE Restart
    BY <1>0, <1>1, <2>3 DEF Restart, Pause
  <2> QED BY <1>0, <2>1, <2>2, <2>3
<1>3. /\ toGet' \in Seq(Keys) /\ pipe' \subseteq Keys
      /\ pipe' \subseteq ToSet(Order) /\ ToSet(toGet') \subseteq ToSet(Order)
      /\ cpc' = "get" => toGet' # <<>>
  <2>1. CASE StartRound
    BY <1>0, <2>1 DEF StartRound
  <2>2. CASE Get
    <3>1. toGet \in Seq(Keys) /\ toGet # <<>>
      BY <1>0, <2>2 DEF Get, TypeOK, RoundShape
    <3>2. /\ Tail(toGet) \in Seq(Keys) /\ Head(toGet) \in Keys
          /\ ToSet(toGet) = {Head(toGet)} \cup ToSet(Tail(toGet))
          /\ Tail(toGet) = <<>> <=> Len(toGet) = 1
      BY <3>1, TailKeys
    <3> QED BY <1>0, <2>2, <3>2 DEF Get, GetDone, TypeOK, VisitShape
  <2>3. CASE Restart
    <3>1. <<>> \in Seq(Keys)
      BY EmptySeq
    <3> QED BY <2>3, <3>1, ToSetEmpty DEF Restart, Pause
  <2> QED BY <1>0, <2>1, <2>2, <2>3
<1>4. TypeOK'
  BY <1>0, <1>2, <1>3 DEF TypeOK, requestVars
<1>5. StoreShape' /\ VisitShape'
  BY <1>0, <1>3 DEF StoreShape, VisitShape
<1>6. RoundShape'
  <2>1. \A k \in Keys : \A t \in zsets[k] : t <= ts'
    BY <1>0, <1>1, <1>2 DEF RoundShape, TypeOK
  <2>2. \A w \in written : w.ts <= ts'
    BY <1>0, <1>1, <1>2 DEF RoundShape, TypeOK
  <2> QED BY <1>0, <1>2, <1>3, <2>1, <2>2 DEF RoundShape
<1>7. RequestShape'
  BY <1>0, RequestKept
<1> QED BY <1>4, <1>5, <1>6, <1>7 DEF Inv

\* The end of a round.
LEMMA ExecuteInv == ASSUME Inv, Execute PROVE Inv'
<1>0. /\ TypeOK /\ StoreShape /\ VisitShape /\ RoundShape /\ RequestShape
      /\ cpc' = "pause" /\ wake' = now + PollInterval /\ pipe' = {}
      /\ UNCHANGED <<now, ts, toGet, requestVars, partial>>
  BY DEF Inv, Execute, Pause
<1>1. /\ now \in Nat /\ ts \in 0 .. now /\ pipe \subseteq Keys
      /\ zsets \in [Keys -> SUBSET (0 .. now)]
      /\ deadline \in [Keys -> 0 .. now + Retention]
      /\ written \subseteq [key : Keys, ts : 0 .. now]
      /\ RoundTime \in Nat /\ Retention \in Nat /\ PollInterval \in Nat
      /\ now <= ts + RoundTime
  BY <1>0, SnmpAssumption DEF TypeOK, RoundShape, Execute
<1>2. /\ TypeOK' /\ StoreShape' /\ (\A w \in written' : w.key \in ToSet(Order) /\ w.ts <= ts)
      /\ (\A k \in Keys : \A t \in zsets'[k] : t <= ts)
      /\ \A k \in Keys : zsets'[k] # {} =>
           \E t \in zsets'[k] : /\ \A u \in zsets'[k] : u <= t
                                /\ deadline'[k] <= t + RoundTime + Retention
  <2>1. CASE UNCHANGED <<zsets, deadline, written>>
    <3>1. StoreShape'
      BY <1>0, <2>1 DEF StoreShape
    <3>2. TypeOK'
      BY <1>0, <1>1, <2>1 DEF TypeOK, requestVars
    <3> QED BY <1>0, <2>1, <3>1, <3>2 DEF VisitShape, RoundShape
  <2>2. CASE
      /\ zsets' = [k \in Keys |-> IF k \in pipe THEN Held(k) \cup {ts} ELSE zsets[k]]
      /\ deadline' = [k \in Keys |-> IF k \in pipe THEN Refreshed(k) ELSE deadline[k]]
      /\ written' = written \cup {[key |-> k, ts |-> ts] : k \in pipe}
    <3>1. ASSUME NEW k \in Keys
          PROVE  /\ Held(k) \subseteq zsets[k]
                 /\ now < deadline[k] => Held(k) = zsets[k]
                 /\ k \in pipe => /\ zsets'[k] = Held(k) \cup {ts}
                                  /\ deadline'[k] = now + Retention
                 /\ k \notin pipe => zsets'[k] = zsets[k] /\ deadline'[k] = deadline[k]
      BY <2>2 DEF Held, Refreshed
    <3>2. /\ zsets' \in [Keys -> SUBSET (0 .. now)]
          /\ deadline' \in [Keys -> 0 .. now + Retention]
      BY <1>1, <2>2, <3>1
    <3>3. /\ written' \subseteq [key : Keys, ts : 0 .. now] /\ written \subseteq written'
      BY <1>1, <2>2
    <3>4. TypeOK'
      BY <1>0, <1>1, <3>2, <3>3 DEF TypeOK, requestVars
    <3>5. ASSUME NEW w \in written', now < w.ts + Retention
          PROVE  w.ts \in zsets'[w.key] /\ deadline'[w.key] >= w.ts + Retention
      <4>0. w.key \in Keys /\ w.ts \in 0 .. now
        BY <3>3
      <4>1. CASE w \in written
        <5>1. w.ts \in zsets[w.key] /\ deadline[w.key] >= w.ts + Retention
          BY <1>0, <3>5, <4>1 DEF StoreShape
        <5>2. now < deadline[w.key] /\ now + Retention >= w.ts + Retention
          BY <1>1, <3>5, <4>0, <5>1
        <5> QED BY <3>1, <4>0, <5>1, <5>2
      <4>2. CASE w \notin written
        <5>1. w.key \in pipe /\ w.ts = ts
          BY <2>2, <4>2
        <5>2. now + Retention >= ts + Retention
          BY <1>1
        <5> QED BY <3>1, <4>0, <5>1, <5>2
      <4> QED BY <4>1, <4>2
    <3>6. \A w \in written' : w.key \in ToSet(Order) /\ w.ts <= ts
      BY <1>0, <1>1, <2>2 DEF VisitShape, RoundShape
    <3>7. \A k \in Keys : \A t \in zsets[k] : t <= ts
      BY <1>0 DEF RoundShape
    <3>8. \A k \in Keys : \A t \in zsets'[k] : t <= ts
      BY <1>1, <3>1, <3>7
    <3>9. ASSUME NEW k \in Keys, zsets'[k] # {}
          PROVE  \E t \in zsets'[k] : /\ \A u \in zsets'[k] : u <= t
                                      /\ deadline'[k] <= t + RoundTime + Retention
      <4>1. CASE k \in pipe
        <5>1. ts \in zsets'[k] /\ deadline'[k] = now + Retention
          BY <3>1, <4>1
        <5>2. now + Retention <= ts + RoundTime + Retention
          BY <1>1
        <5> QED BY <3>8, <5>1, <5>2
      <4>2. CASE k \notin pipe
        BY <1>0, <3>1, <3>9, <4>2 DEF RoundShape
      <4> QED BY <4>1, <4>2
    <3>10. StoreShape'
      BY <1>0, <3>5 DEF StoreShape
    <3> QED BY <3>4, <3>6, <3>8, <3>9, <3>10
  <2> QED BY <2>1, <2>2 DEF Execute
<1>3. VisitShape' /\ RoundShape'
  BY <1>0, <1>2 DEF VisitShape, RoundShape
<1>4. RequestShape'
  BY <1>0, RequestKept
<1> QED BY <1>2, <1>3, <1>4 DEF Inv

\* A new request.
LEMMA AskInv == ASSUME Inv, Ask PROVE Inv'
<1>0. /\ TypeOK /\ StoreShape /\ VisitShape /\ RoundShape /\ RequestShape
      /\ Order \in Seq(Keys) /\ ReadTime \in Nat
      /\ mode' \in {"latest", "history"} /\ asked' = now /\ toRead' = Order
      /\ answer' = [k \in Keys |-> {}] /\ rpc' = "read" /\ due' = written
      /\ UNCHANGED <<now, collectorVars, zsets, deadline, written, partial>>
  BY SnmpAssumption DEF Inv, Ask
<1>1. now \in Nat /\ written \subseteq [key : Keys, ts : 0 .. now]
  BY <1>0 DEF TypeOK
<1>2. TypeOK'
  BY <1>0, <1>1 DEF TypeOK, collectorVars
<1>3. StoreShape' /\ VisitShape' /\ RoundShape'
  BY <1>0 DEF StoreShape, VisitShape, RoundShape, collectorVars
<1>4. now <= now + ReadTime /\ \A w \in written : w.ts <= now
  BY <1>0, <1>1
<1>5. RequestShape'
  BY <1>0, <1>4 DEF RequestShape, VisitShape
<1> QED BY <1>2, <1>3, <1>5 DEF Inv

\* One set is read.
LEMMA ReadInv == ASSUME Inv, Read PROVE Inv'
<1> DEFINE k == Head(toRead)
<1>0. /\ TypeOK /\ StoreShape /\ VisitShape /\ RoundShape /\ RequestShape
      /\ rpc = "read" /\ toRead # <<>>
      /\ answer' = [answer EXCEPT ![k] = Scan(k)] /\ toRead' = Tail(toRead)
      /\ rpc' = IF Len(toRead) = 1 THEN "answered" ELSE "read"
      /\ UNCHANGED <<now, collectorVars, zsets, deadline, mode, asked, due, written, partial>>
  BY DEF Inv, Read
<1>1. /\ now \in Nat /\ asked \in 0 .. now /\ due \subseteq written /\ toRead \in Seq(Keys)
      /\ written \subseteq [key : Keys, ts : 0 .. now]
      /\ zsets \in [Keys -> SUBSET (0 .. now)]
      /\ deadline \in [Keys -> 0 .. now + Retention]
      /\ answer \in [Keys -> SUBSET (0 .. now)]
      /\ mode \in {"latest", "history"}
      /\ Window \in Nat /\ ReadTime \in Nat /\ Retention \in Nat /\ RoundTime \in Nat
      /\ Retention > Window + ReadTime
      /\ now <= asked + ReadTime
  BY <1>0, SnmpAssumption DEF TypeOK, RequestShape
<1>2. /\ Tail(toRead) \in Seq(Keys) /\ k \in Keys
      /\ ToSet(toRead) = {k} \cup ToSet(Tail(toRead))
      /\ Tail(toRead) = <<>> <=> Len(toRead) = 1
  BY <1>0, <1>1, TailKeys
<1> HIDE DEF k
<1>3. Held(k) \subseteq zsets[k] /\ (now < deadline[k] => Held(k) = zsets[k])
      /\ (Held(k) # {} => now < deadline[k])
  BY DEF Held
<1>4. Scan(k) \subseteq zsets[k]
  BY <1>3 DEF Scan
<1>5. \A l \in Keys : answer'[l] = IF l = k THEN Scan(k) ELSE answer[l]
  BY <1>0, <1>1, <1>2
<1>6. answer' \in [Keys -> SUBSET (0 .. now)]
  BY <1>0, <1>1, <1>2, <1>4
<1>7. TypeOK'
  BY <1>0, <1>1, <1>2, <1>6 DEF TypeOK, collectorVars
<1>8. StoreShape' /\ VisitShape' /\ RoundShape'
  BY <1>0 DEF StoreShape, VisitShape, RoundShape, collectorVars
<1>9. ASSUME mode = "history", NEW w \in due, w.ts + Window >= asked
      PROVE  w.key \in ToSet(Tail(toRead)) \/ w.ts \in answer'[w.key]
  <2>0. w \in written /\ w.key \in Keys /\ w.ts \in 0 .. now /\ w.ts <= asked
    BY <1>0, <1>1 DEF RequestShape
  <2>1. CASE w.key = k
    <3>1. now < w.ts + Retention
      BY <1>1, <1>9, <2>0
    <3>2. w.ts \in zsets[k] /\ deadline[k] >= w.ts + Retention
      BY <1>0, <2>0, <2>1, <3>1 DEF StoreShape
    <3>3. now < deadline[k]
      BY <1>1, <1>2, <2>0, <3>1, <3>2
    <3>4. w.ts \in Scan(k)
      BY <1>3, <1>9, <2>0, <3>2, <3>3 DEF Scan
    <3> QED BY <1>2, <1>5, <2>1, <3>4
  <2>2. CASE w.key # k
    <3>1. w.key \in ToSet(toRead) \/ w.ts \in answer[w.key]
      BY <1>0, <1>9 DEF RequestShape
    <3> QED BY <1>2, <1>5, <2>0, <2>2, <3>1
  <2> QED BY <2>1, <2>2
<1>10. ASSUME mode = "latest", NEW l \in Keys, NEW t \in answer'[l]
       PROVE  asked <= t + RoundTime + Retention
  <2>1. CASE l = k
    <3>1. t \in Held(k) /\ \A u \in Held(k) : u <= t
      BY <1>2, <1>5, <1>10, <2>1 DEF Scan
    <3>2. now < deadline[k] /\ Held(k) = zsets[k]
      BY <1>3, <3>1
    <3>3. PICK n \in zsets[k] : /\ \A u \in zsets[k] : u <= n
                                /\ deadline[k] <= n + RoundTime + Retention
      BY <1>0, <1>2, <3>1, <3>2 DEF RoundShape
    <3>4. n <= t /\ n \in 0 .. now /\ t \in 0 .. now /\ deadline[k] \in 0 .. now + Retention
      BY <1>1, <1>2, <3>1, <3>2, <3>3
    <3> QED BY <1>1, <3>2, <3>3, <3>4
  <2>2. CASE l # k
    BY <1>0, <1>5, <1>10, <2>2 DEF RequestShape
  <2> QED BY <2>1, <2>2
<1>11. RequestShape'
  <2>1. /\ rpc' = "read" => now <= asked + ReadTime
        /\ rpc' = "answered" => toRead' = <<>>
        /\ \A w \in due : w.ts <= asked
    BY <1>0, <1>1, <1>2 DEF RequestShape
  <2> QED BY <1>0, <1>9, <1>10, <2>1 DEF RequestShape
<1> QED BY <1>7, <1>8, <1>11 DEF Inv

\* The clock.
LEMMA TickInv == ASSUME Inv, Tick PROVE Inv'
<1>0. /\ TypeOK /\ StoreShape /\ VisitShape /\ RoundShape /\ RequestShape
      /\ cpc # "pause" => now < ts + RoundTime
      /\ rpc = "read" => now < asked + ReadTime
      /\ now' = now + 1
      /\ UNCHANGED <<collectorVars, zsets, deadline, requestVars, written, partial>>
  BY DEF Inv, Tick
<1>1. /\ now \in Nat /\ ts \in 0 .. now /\ asked \in 0 .. now
      /\ Retention \in Nat /\ RoundTime \in Nat /\ ReadTime \in Nat
      /\ written \subseteq [key : Keys, ts : 0 .. now]
  BY <1>0, SnmpAssumption DEF TypeOK
<1>2. 0 .. now \subseteq 0 .. now' /\ 0 .. now + Retention \subseteq 0 .. now' + Retention
  BY <1>0, <1>1
<1>3. TypeOK'
  <2>1. /\ zsets' \in [Keys -> SUBSET (0 .. now')]
        /\ deadline' \in [Keys -> 0 .. now' + Retention]
        /\ answer' \in [Keys -> SUBSET (0 .. now')]
        /\ written' \subseteq [key : Keys, ts : 0 .. now']
        /\ partial' \subseteq 0 .. now'
    <3>1. /\ zsets' = zsets /\ deadline' = deadline /\ answer' = answer
          /\ written' = written /\ partial' = partial
      BY <1>0 DEF requestVars
    <3>2. /\ zsets \in [Keys -> SUBSET (0 .. now)]
          /\ deadline \in [Keys -> 0 .. now + Retention]
          /\ answer \in [Keys -> SUBSET (0 .. now)]
          /\ written \subseteq [key : Keys, ts : 0 .. now]
          /\ partial \subseteq 0 .. now
      BY <1>0 DEF TypeOK
    <3> QED BY <1>2, <3>1, <3>2
  <2>2. now' \in Nat /\ ts' \in 0 .. now' /\ asked' \in 0 .. now'
    BY <1>0, <1>1 DEF collectorVars, requestVars
  <2> QED BY <1>0, <2>1, <2>2 DEF TypeOK, collectorVars, requestVars
<1>4. StoreShape'
  <2>1. \A w \in written : now + 1 < w.ts + Retention => now < w.ts + Retention
    BY <1>1
  <2> QED BY <1>0, <2>1 DEF StoreShape
<1>5. VisitShape'
  BY <1>0 DEF VisitShape, collectorVars
<1>6. RoundShape'
  <2>1. cpc # "pause" => now + 1 <= ts + RoundTime
    BY <1>0, <1>1
  <2> QED BY <1>0, <2>1 DEF RoundShape, collectorVars
<1>7. RequestShape'
  <2>1. rpc = "read" => now + 1 <= asked + ReadTime
    BY <1>0, <1>1
  <2> QED BY <1>0, <2>1 DEF RequestShape, requestVars
<1> QED BY <1>3, <1>4, <1>5, <1>6, <1>7 DEF Inv

-----------------------------------------------------------------------------
(***************************************************************************)
(* Theorems                                                                *)
(***************************************************************************)

\* The store, the round and the request keep their shape (SnmpStore's whole
\* next-state relation).
THEOREM SnmpInv == Spec => []Inv
<1>1. Init => Inv
  BY InitInv
<1>2. Inv /\ [Next]_vars => Inv'
  <2> SUFFICES ASSUME Inv, [Next]_vars PROVE Inv'
    OBVIOUS
  <2>1. CASE Collector
    BY <2>1, QuietCollector, ExecuteInv DEF Collector
  <2>2. CASE Request
    BY <2>2, AskInv, ReadInv DEF Request
  <2>3. CASE Tick
    BY <2>3, TickInv
  <2>4. CASE UNCHANGED vars
    BY <2>4 DEF vars, collectorVars, requestVars, Inv, TypeOK, StoreShape, VisitShape,
      RoundShape, RequestShape
  <2> QED BY <2>1, <2>2, <2>3, <2>4 DEF Next
<1> QED BY <1>1, <1>2, PTL DEF Spec

\* The variables keep their types.
THEOREM SnmpTypeCorrect == Spec => []TypeOK
<1>1. Inv => TypeOK
  BY DEF Inv
<1> QED BY <1>1, SnmpInv, PTL

\* A request that has read all sets has found every sample due to it.
LEMMA InvComplete == ASSUME Inv PROVE HistoryComplete
<1> SUFFICES ASSUME rpc = "answered", mode = "history", NEW w \in due, w.ts + Window >= asked
             PROVE  w.ts \in answer[w.key]
  BY DEF HistoryComplete, Answered
<1>1. toRead = <<>> /\ (w.key \in ToSet(toRead) \/ w.ts \in answer[w.key])
  BY DEF Inv, RequestShape
<1> QED BY <1>1, ToSetEmpty

\* No sample is missing from a history: for any window and any retention that
\* outlasts it by the time a request may take (collect's EXPIRE, get_snmp).
THEOREM NoSampleExpiresEarly == Spec => []HistoryComplete
<1>1. Inv => HistoryComplete
  BY InvComplete
<1> QED BY <1>1, SnmpInv, PTL

\* What a silent node last said is forgotten (collect's EXPIRE, get_snmp).
THEOREM NothingStaleIsLatest == Spec => []LatestIsRecent
<1>1. Inv => LatestIsRecent
  BY DEF Inv, RequestShape, LatestIsRecent, Answered
<1> QED BY <1>1, SnmpInv, PTL

-----------------------------------------------------------------------------
(***************************************************************************)
(* Whole rows                                                              *)
(***************************************************************************)

\* What is in a set was written, and a round in which nothing failed is
\* written for all sets.
WrittenShape ==
  /\ \A k \in Keys : \A t \in zsets[k] : [key |-> k, ts |-> t] \in written
  /\ \A w \in written : w.ts \notin partial =>
       \A k \in Keys : [key |-> k, ts |-> w.ts] \in written
  /\ cpc = "get" /\ ts \notin partial => Keys \subseteq pipe \cup ToSet(toGet)
  /\ cpc = "execute" /\ ts \notin partial => Keys \subseteq pipe

\* Once something was written after the request came, every further round is
\* younger than the request; and an answer has written samples of its window.
LateShape ==
  rpc # "idle" =>
    /\ \A w \in written \ due : IF cpc = "pause" THEN wake > asked ELSE ts > asked
    /\ \A w \in written \ due, v \in written : v.ts > w.ts => v.ts > asked
    /\ mode = "history" => \A k \in Keys : \A t \in answer[k] :
         [key |-> k, ts |-> t] \in written /\ t + Window >= asked /\ t <= asked

\* Nothing is written at first.
LEMMA InitRows == ASSUME Init PROVE WrittenShape /\ LateShape
BY DEF Init, WrittenShape, LateShape

\* A step of the collector that writes nothing.
LEMMA QuietRows ==
  ASSUME Inv, WrittenShape, LateShape, StartRound \/ Get \/ Restart
  PROVE  WrittenShape' /\ LateShape'
<1>0. /\ TypeOK /\ RoundShape /\ Order \in Seq(Keys) /\ PollInterval \in Nat \ {0}
      /\ UNCHANGED <<now, zsets, deadline, requestVars, written>>
      /\ now \in Nat /\ asked \in 0 .. now /\ wake \in Nat
  BY SnmpAssumption DEF Inv, StartRound, Get, Restart, TypeOK
<1>1. /\ partial \subseteq partial'
      /\ cpc' = "get" /\ ts' \notin partial' => Keys \subseteq pipe' \cup ToSet(toGet')
      /\ cpc' = "execute" /\ ts' \notin partial' => Keys \subseteq pipe'
  <2>1. CASE StartRound
    <3>1. Keys \subseteq ToSet(Order)
      BY SnmpAssumption DEF ToSet
    <3> QED BY <2>1, <3>1 DEF StartRound
  <2>2. CASE Get
    <3>1. toGet \in Seq(Keys) /\ toGet # <<>> /\ cpc = "get" /\ ts' = ts
      BY <1>0, <2>2 DEF Get, TypeOK, RoundShape
    <3>2. /\ ToSet(toGet) = {Head(toGet)} \cup ToSet(Tail(toGet))
          /\ Tail(toGet) = <<>> <=> Len(toGet) = 1
      BY <3>1, TailKeys
    <3>3. /\ toGet' = Tail(toGet)
          /\ cpc' = "execute" => Len(toGet) = 1
          /\ \/ pipe' = pipe \cup {Head(toGet)} /\ partial' = partial
             \/ partial' = partial \cup {ts}
      BY <2>2 DEF Get, GetDone
    <3>4. ts \notin partial => Keys \subseteq pipe \cup ToSet(toGet)
      BY <3>1 DEF WrittenShape
    <3>5. ts' \notin partial' => Keys \subseteq pipe' \cup ToSet(toGet')
      BY <3>1, <3>2, <3>3, <3>4
    <3>6. cpc' = "execute" => ToSet(toGet') = {}
      BY <3>2, <3>3, ToSetEmpty
    <3> QED BY <3>3, <3>5, <3>6
  <2>3. CASE Restart
    BY <2>3 DEF Restart, Pause
  <2> QED BY <2>1, <2>2, <2>3
<1>2. WrittenShape'
  BY <1>0, <1>1 DEF WrittenShape
<1>3. (IF cpc = "pause" THEN wake > asked ELSE ts > asked) =>
        IF cpc' = "pause" THEN wake' > asked ELSE ts' > asked
  <2>1. CASE StartRound
    BY <1>0, <2>1 DEF StartRound
  <2>2. CASE Get
    BY <2>2 DEF Get, GetDone
  <2>3. CASE Restart
    BY <1>0, <2>3 DEF Restart, Pause
  <2> QED BY <2>1, <2>2, <2>3
<1>4. LateShape'
  BY <1>0, <1>3 DEF LateShape, requestVars
<1> QED BY <1>2, <1>4

\* The end of a round.
LEMMA ExecuteRows ==
  ASSUME Inv, WrittenShape, LateShape, Execute
  PROVE  WrittenShape' /\ LateShape'
<1>0. /\ TypeOK /\ RoundShape /\ PollInterval \in Nat \ {0}
      /\ cpc = "execute" /\ cpc' = "pause" /\ wake' = now + PollInterval
      /\ UNCHANGED <<now, ts, requestVars, partial>>
      /\ now \in Nat /\ asked \in 0 .. now /\ ts \in 0 .. now /\ pipe \subseteq Keys
      /\ written \subseteq [key : Keys, ts : 0 .. now]
  BY SnmpAssumption DEF Inv, Execute, Pause, TypeOK
<1>1. wake' > asked
  BY <1>0
<1>2. CASE UNCHANGED <<zsets, deadline, written>>
  <2>1. WrittenShape'
    BY <1>0, <1>2 DEF WrittenShape
  <2>2. LateShape'
    BY <1>0, <1>1, <1>2 DEF LateShape, requestVars
  <2> QED BY <2>1, <2>2
<1>3. CASE
    /\ zsets' = [k \in Keys |-> IF k \in pipe THEN Held(k) \cup {ts} ELSE zsets[k]]
    /\ written' = written \cup {[key |-> k, ts |-> ts] : k \in pipe}
  <2>1. ASSUME NEW k \in Keys, NEW t \in zsets'[k]
        PROVE  [key |-> k, ts |-> t] \in written'
    <3>1. t \in zsets[k] \/ (k \in pipe /\ t = ts)
      BY <1>3, <2>1 DEF Held
    <3> QED BY <1>3, <3>1 DEF WrittenShape
  <2>2. ASSUME NEW w \in written', w.ts \notin partial, NEW k \in Keys
        PROVE  [key |-> k, ts |-> w.ts] \in written'
    <3>1. CASE w \in written
      BY <1>3, <2>2, <3>1 DEF WrittenShape
    <3>2. CASE w \notin written
      <4>1. w.ts = ts
        BY <1>3, <3>2
      <4>2. k \in pipe
        BY <1>0, <2>2, <4>1 DEF WrittenShape
      <4> QED BY <1>3, <4>1, <4>2
    <3> QED BY <3>1, <3>2
  <2>3. WrittenShape'
    BY <1>0, <2>1, <2>2 DEF WrittenShape
  <2>4. \A w \in written' : w \in written \/ w.ts = ts
    BY <1>3
  <2>5. \A w \in written : w.ts <= ts
    BY DEF Inv, RoundShape
  <2>6. ASSUME rpc # "idle", NEW w \in written' \ due, NEW v \in written', v.ts > w.ts
        PROVE  v.ts > asked
    <3>1. CASE w \in written
      <4>1. ts > asked
        BY <1>0, <2>6, <3>1 DEF LateShape
      <4>2. CASE v \in written
        BY <2>6, <3>1, <4>2 DEF LateShape
      <4>3. CASE v \notin written
        BY <2>4, <4>1, <4>3
      <4> QED BY <4>2, <4>3
    <3>2. CASE w \notin written
      <4>1. w.ts = ts /\ v.ts <= ts /\ v.ts \in Nat
        BY <1>0, <2>4, <2>5, <3>2
      <4> QED BY <1>0, <2>6, <4>1
    <3> QED BY <3>1, <3>2
  <2>7. written \subseteq written'
    BY <1>3
  <2>8. LateShape'
    BY <1>0, <1>1, <2>6, <2>7 DEF LateShape, requestVars
  <2> QED BY <2>3, <2>8
<1> QED BY <1>2, <1>3 DEF Execute

\* A new request, or one set is read.
LEMMA RequestRows ==
  ASSUME Inv, WrittenShape, LateShape, Request
  PROVE  WrittenShape' /\ LateShape'
<1>0. /\ TypeOK /\ UNCHANGED <<now, collectorVars, zsets, deadline, written, partial>>
  BY DEF Inv, Request, Ask, Read
<1>1. WrittenShape'
  BY <1>0 DEF WrittenShape, collectorVars
<1>2. LateShape'
  <2>1. CASE Ask
    BY <1>0, <2>1 DEF Ask, LateShape
  <2>2. CASE Read
    <3>1. /\ rpc = "read" /\ UNCHANGED <<mode, asked, due>>
          /\ answer' = [answer EXCEPT ![Head(toRead)] = Scan(Head(toRead))]
          /\ answer \in [Keys -> SUBSET (0 .. now)]
      BY <1>0, <2>2 DEF Read, TypeOK
    <3>2. ASSUME mode = "history", NEW k \in Keys, NEW t \in answer'[k]
          PROVE  [key |-> k, ts |-> t] \in written /\ t + Window >= asked /\ t <= asked
      <4>1. t \in answer[k] \/ t \in Scan(k)
        BY <3>1, <3>2
      <4>2. CASE t \in answer[k]
        BY <3>1, <3>2, <4>2 DEF LateShape
      <4>3. CASE t \in Scan(k)
        BY <3>2, <4>3 DEF Scan, Held, WrittenShape
      <4> QED BY <4>1, <4>2, <4>3
    <3> QED BY <1>0, <3>1, <3>2 DEF LateShape, collectorVars
  <2> QED BY <2>1, <2>2 DEF Request
<1> QED BY <1>1, <1>2

\* A row of a node's history has all of its metrics unless one of its round's
\* samples failed or it is the newest row: for any nodes and metrics, however
\* rounds, restarts and reads interleave (collect, get_snmp).
THEOREM RowsAreWhole == Spec => []RowsWhole
<1>1. Init => WrittenShape /\ LateShape
  BY InitRows
<1>2. Inv /\ (WrittenShape /\ LateShape) /\ [Next]_vars => (WrittenShape /\ LateShape)'
  <2> SUFFICES ASSUME Inv, WrittenShape, LateShape, [Next]_vars
               PROVE  WrittenShape' /\ LateShape'
    OBVIOUS
  <2>1. CASE Collector
    BY <2>1, QuietRows, ExecuteRows DEF Collector
  <2>2. CASE Request
    BY <2>2, RequestRows
  <2>3. CASE Tick \/ UNCHANGED vars
    BY <2>3 DEF Tick, vars, collectorVars, requestVars, WrittenShape, LateShape
  <2> QED BY <2>1, <2>2, <2>3 DEF Next
<1>3. Inv /\ WrittenShape /\ LateShape => RowsWhole
  <2> SUFFICES ASSUME Inv, WrittenShape, LateShape, rpc = "answered", mode = "history",
                      NEW n \in Nodes, NEW t \in RowsOf(n), t \notin partial,
                      NEW u \in RowsOf(n), u > t, NEW m \in Metrics
               PROVE  t \in answer[<<n, m>>]
    BY DEF RowsWhole, Answered
  <2>1. PICK mt \in Metrics : t \in answer[<<n, mt>>]
    BY DEF RowsOf
  <2>2. PICK mu \in Metrics : u \in answer[<<n, mu>>]
    BY DEF RowsOf
  <2>3. <<n, mt>> \in Keys /\ <<n, mu>> \in Keys /\ <<n, m>> \in Keys
    BY DEF Keys
  <2>4. /\ [key |-> <<n, mt>>, ts |-> t] \in written /\ t + Window >= asked
        /\ [key |-> <<n, mu>>, ts |-> u] \in written /\ u <= asked
    BY <2>1, <2>2, <2>3 DEF LateShape
  <2>5. [key |-> <<n, m>>, ts |-> t] \in written
    BY <2>3, <2>4 DEF WrittenShape
  <2>6. u \in Nat /\ asked \in Nat
    BY <2>4 DEF Inv, TypeOK
  <2>7. [key |-> <<n, m>>, ts |-> t] \in due
    BY <2>4, <2>5, <2>6 DEF LateShape
  <2>8. Inv => HistoryComplete
    BY InvComplete
  <2> QED BY <2>4, <2>7, <2>8 DEF HistoryComplete, Answered
<1> QED BY <1>1, <1>2, <1>3, SnmpInv, PTL DEF Spec

=============================================================================
