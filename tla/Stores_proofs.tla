---------------------------- MODULE Stores_proofs ----------------------------
(***************************************************************************)
(* Lemmas about the data that the components share: what the operators on  *)
(* streams preserve, how the set of a sequence's elements changes with the *)
(* sequence, and what a transaction may do to the jobs table.  The         *)
(* components' proofs cite these facts and never look inside a stream, a   *)
(* sequence or a transaction.                                              *)
(***************************************************************************)
EXTENDS RedisStream, JobsTable, SequencesExt, SequenceTheorems,
        NaturalsInduction, WellFoundedInduction, TLAPS

\* Every element of a sequence over S is in S.
LEMMA ToSetOf ==
  ASSUME NEW S, NEW s \in Seq(S)
  PROVE  ToSet(s) \subseteq S
  BY DEF ToSet

\* The empty sequence has no element.
LEMMA ToSetEmpty == ToSet(<<>>) = {}
  BY DEF ToSet

\* A sequence of one element has that element.
LEMMA ToSetOne ==
  ASSUME NEW x
  PROVE  ToSet(<<x>>) = {x}
  BY DEF ToSet

\* Appending an element adds it and keeps the others.
LEMMA ToSetAppend ==
  ASSUME NEW S, NEW s \in Seq(S), NEW x \in S
  PROVE  ToSet(Append(s, x)) = ToSet(s) \cup {x}
<1>1. /\ DOMAIN s = 1 .. Len(s) /\ Len(s) \in Nat
      /\ DOMAIN Append(s, x) = 1 .. Len(s) + 1
      /\ \A i \in 1 .. Len(s) : Append(s, x)[i] = s[i]
      /\ Append(s, x)[Len(s) + 1] = x
  BY AppendProperties, LenProperties
<1>2. ToSet(Append(s, x)) \subseteq ToSet(s) \cup {x}
  <2> SUFFICES ASSUME NEW i \in 1 .. Len(s) + 1
               PROVE  Append(s, x)[i] \in ToSet(s) \cup {x}
    BY <1>1 DEF ToSet
  <2>1. CASE i \in 1 .. Len(s)
    BY <1>1, <2>1 DEF ToSet
  <2>2. CASE i = Len(s) + 1
    BY <1>1, <2>2
  <2> QED BY <1>1, <2>1, <2>2
<1>3. ToSet(s) \subseteq ToSet(Append(s, x))
  <2> SUFFICES ASSUME NEW i \in 1 .. Len(s)
               PROVE  s[i] \in ToSet(Append(s, x))
    BY <1>1 DEF ToSet
  <2>1. i \in DOMAIN Append(s, x) /\ Append(s, x)[i] = s[i]
    BY <1>1
  <2> QED BY <2>1 DEF ToSet
<1>4. x \in ToSet(Append(s, x))
  <2>1. Len(s) + 1 \in DOMAIN Append(s, x)
    BY <1>1
  <2> QED BY <1>1, <2>1 DEF ToSet
<1> QED BY <1>2, <1>3, <1>4

\* A sequence's elements are its head and those of its tail.
LEMMA ToSetHeadTail ==
  ASSUME NEW S, NEW s \in Seq(S), s # <<>>
  PROVE  ToSet(s) = {Head(s)} \cup ToSet(Tail(s))
<1>1. /\ DOMAIN s = 1 .. Len(s) /\ Len(s) \in Nat \ {0}
      /\ DOMAIN Tail(s) = 1 .. Len(s) - 1
      /\ \A i \in 1 .. Len(s) - 1 : Tail(s)[i] = s[i + 1]
      /\ Head(s) = s[1]
  BY HeadTailProperties, LenProperties, EmptySeq
<1>2. ToSet(s) \subseteq {Head(s)} \cup ToSet(Tail(s))
  <2> SUFFICES ASSUME NEW i \in 1 .. Len(s)
               PROVE  s[i] \in {Head(s)} \cup ToSet(Tail(s))
    BY <1>1 DEF ToSet
  <2>1. CASE i = 1
    BY <1>1, <2>1
  <2>2. CASE i # 1
    <3>1. i - 1 \in DOMAIN Tail(s) /\ Tail(s)[i - 1] = s[i]
      BY <1>1, <2>2
    <3> QED BY <3>1 DEF ToSet
  <2> QED BY <2>1, <2>2
<1>3. {Head(s)} \cup ToSet(Tail(s)) \subseteq ToSet(s)
  <2>1. Head(s) \in ToSet(s)
    <3>1. 1 \in DOMAIN s
      BY <1>1
    <3> QED BY <1>1, <3>1 DEF ToSet
  <2>2. ASSUME NEW i \in 1 .. Len(s) - 1
        PROVE  Tail(s)[i] \in ToSet(s)
    <3>1. i + 1 \in DOMAIN s /\ Tail(s)[i] = s[i + 1]
      BY <1>1
    <3> QED BY <3>1 DEF ToSet
  <2> QED BY <1>1, <2>1, <2>2 DEF ToSet
<1> QED BY <1>2, <1>3

\* However often the client repeats an XADD, the log keeps its entries, and
\* it has the new one, and no other, if the server executed the command at all.
LEMMA AppendedKeeps ==
  ASSUME NEW E, NEW s \in Seq(E), NEW e \in E, NEW n \in {0, 1, 2}
  PROVE  /\ Appended(s, e, n) \in Seq(E)
         /\ ToSet(s) \subseteq ToSet(Appended(s, e, n))
         /\ ToSet(Appended(s, e, n)) \subseteq ToSet(s) \cup {e}
         /\ n # 0 => e \in ToSet(Appended(s, e, n))
<1>1. Append(s, e) \in Seq(E) /\ ToSet(Append(s, e)) = ToSet(s) \cup {e}
  BY ToSetAppend, AppendProperties
<1>2. /\ Append(Append(s, e), e) \in Seq(E)
      /\ ToSet(Append(Append(s, e), e)) = ToSet(Append(s, e)) \cup {e}
  <2>1. \A u \in Seq(E) : /\ Append(u, e) \in Seq(E)
                         /\ ToSet(Append(u, e)) = ToSet(u) \cup {e}
    BY ToSetAppend, AppendProperties
  <2> QED BY <1>1, <2>1
<1>3. CASE n = 0
  BY <1>3 DEF Appended
<1>4. CASE n = 1
  BY <1>1, <1>4 DEF Appended
<1>5. CASE n = 2
  BY <1>1, <1>2, <1>5 DEF Appended
<1> QED BY <1>3, <1>4, <1>5

\* XADD leaves a stream, loses nothing of its log, and adds what it says.
LEMMA XAddKeeps ==
  ASSUME NEW E, NEW s \in Stream(E), NEW e \in E, NEW n \in {0, 1, 2},
         NEW m \in Nat, NEW t \in XAdd(s, e, n, m)
  PROVE  /\ t \in Stream(E)
         /\ ToSet(s.log) \subseteq ToSet(t.log)
         /\ n # 0 => e \in ToSet(t.log)
         /\ t.pel = s.pel /\ t.read = s.read
<1> DEFINE log == Appended(s.log, e, n)
<1>0. s.log \in Seq(E) /\ s.trimmed \in Nat
  BY DEF Stream
<1>1. /\ log \in Seq(E) /\ ToSet(s.log) \subseteq ToSet(log)
      /\ n # 0 => e \in ToSet(log)
  BY <1>0, AppendedKeeps
<1>2. Len(log) \in Nat
  BY <1>1, LenProperties
<1> HIDE DEF log
<1>3. PICK v \in Evictions(s, Len(log), m) : t = [s EXCEPT !.log = log, !.trimmed = v]
  BY DEF XAdd, log
<1>4. v \in Nat
  BY <1>0, <1>2, <1>3 DEF Evictions
<1>5. /\ t \in Stream(E) /\ t.log = log /\ t.pel = s.pel /\ t.read = s.read
  BY <1>1, <1>3, <1>4 DEF Stream
<1> QED BY <1>1, <1>5

\* XADD adds nothing else.
LEMMA XAddAdds ==
  ASSUME NEW E, NEW s \in Stream(E), NEW e \in E, NEW n \in {0, 1, 2},
         NEW m \in Nat, NEW t \in XAdd(s, e, n, m)
  PROVE  ToSet(t.log) \subseteq ToSet(s.log) \cup {e}
<1> DEFINE log == Appended(s.log, e, n)
<1>1. ToSet(log) \subseteq ToSet(s.log) \cup {e}
  BY AppendedKeeps DEF Stream
<1> HIDE DEF log
<1>2. t.log = log
  BY DEF XAdd, Stream, log
<1> QED BY <1>1, <1>2

\* A reply holds entries of the stream with their ids, at least one of them
\* when something is unread; the delivery changes neither log nor trim.
LEMMA DeliveredKeeps ==
  ASSUME NEW E, NEW s \in Stream(E), NEW n \in Nat \ {0}, HasUnread(s)
  PROVE  /\ Delivered(s, n) \in Stream(E)
         /\ Delivered(s, n).log = s.log
         /\ Reply(s, n) \in Seq([id : Nat, body : E])
         /\ Reply(s, n) # <<>>
<1> DEFINE first == FirstUnread(s)
           last  == UpTo(s, n)
           reply == Reply(s, n)
<1>1. s.log \in Seq(E) /\ s.trimmed \in Nat /\ s.read \in Nat /\ s.pel \in SUBSET Nat
  BY DEF Stream
<1>2. Len(s.log) \in Nat /\ s.log \in [1 .. Len(s.log) -> E]
  BY <1>1, LenProperties
<1>3. first \in Nat \ {0} /\ first <= Len(s.log)
  BY <1>1 DEF FirstUnread, HasUnread
<1>4. last \in Nat /\ first <= last /\ last <= Len(s.log)
  BY <1>2, <1>3 DEF UpTo
<1> HIDE DEF first, last
<1>5. reply = [k \in 1 .. last + 1 - first |->
                 [id |-> first + k - 1, body |-> s.log[first + k - 1]]]
  BY DEF Reply, first, last
<1>6. \A k \in 1 .. last + 1 - first :
        first + k - 1 \in Nat /\ s.log[first + k - 1] \in E
  BY <1>2, <1>3, <1>4
<1>7. reply \in [1 .. last + 1 - first -> [id : Nat, body : E]]
  BY <1>5, <1>6
<1>8. last + 1 - first \in Nat /\ 1 \in 1 .. last + 1 - first
  BY <1>3, <1>4
<1>9. reply \in Seq([id : Nat, body : E]) /\ reply # <<>>
  <2>1. reply \in Seq([id : Nat, body : E])
    <3>1. reply \in UNION {[1 .. k -> [id : Nat, body : E]] : k \in Nat}
      BY <1>7, <1>8
    <3> QED BY <3>1, SeqDef, Zenon
  <2>2. DOMAIN reply # DOMAIN <<>>
    BY <1>7, <1>8
  <2> QED BY <2>1, <2>2
<1>10. Delivered(s, n) = [s EXCEPT !.read = last, !.pel = s.pel \cup first .. last]
  BY DEF Delivered, first, last
<1>11. first .. last \subseteq Nat
  BY <1>3, <1>4
<1>12. Delivered(s, n) \in Stream(E) /\ Delivered(s, n).log = s.log
  BY <1>1, <1>4, <1>10, <1>11 DEF Stream
<1> QED BY <1>9, <1>12

\* XACK only takes an id out of the PEL.
LEMMA XAckKeeps ==
  ASSUME NEW E, NEW s \in Stream(E), NEW id
  PROVE  /\ XAck(s, id) \in Stream(E)
         /\ XAck(s, id).log = s.log
         /\ XAck(s, id).read = s.read
  BY DEF XAck, Stream

\* One executed XADD puts the entry behind the others; it may trim, and moves
\* neither the group nor its pending entries.
LEMMA XAddOnce ==
  ASSUME NEW E, NEW s \in Stream(E), NEW e \in E, NEW m \in Nat, NEW t \in XAdd(s, e, 1, m)
  PROVE  /\ Len(t.log) = Len(s.log) + 1
         /\ \A i \in 1 .. Len(s.log) : t.log[i] = s.log[i]
         /\ t.log[Len(s.log) + 1] = e
         /\ t.trimmed \in Nat /\ t.trimmed >= s.trimmed
         /\ t.read = s.read /\ t.pel = s.pel
<1>1. s.log \in Seq(E) /\ s.trimmed \in Nat /\ Len(s.log) \in Nat
  BY LenProperties DEF Stream
<1>2. /\ Len(Append(s.log, e)) = Len(s.log) + 1
      /\ \A i \in 1 .. Len(s.log) : Append(s.log, e)[i] = s.log[i]
      /\ Append(s.log, e)[Len(s.log) + 1] = e
  BY <1>1, AppendProperties
<1>3. PICK v \in Evictions(s, Len(Append(s.log, e)), m) :
        t = [s EXCEPT !.log = Append(s.log, e), !.trimmed = v]
  <2>1. Appended(s.log, e, 1) = Append(s.log, e)
    BY DEF Appended
  <2> QED BY <2>1, Zenon DEF XAdd
<1>4. v \in Nat /\ v >= s.trimmed
  BY <1>1, <1>2, <1>3 DEF Evictions
<1>5. t.log = Append(s.log, e) /\ t.trimmed = v /\ t.read = s.read /\ t.pel = s.pel
  BY <1>3 DEF Stream
<1> QED BY <1>2, <1>4, <1>5

\* A delivery tells the truth about the stream, stays within it, and leaves
\* every entry it passes that was not trimmed in the PEL.
LEMMA DeliveredTruth ==
  ASSUME NEW E, NEW s \in Stream(E), NEW n \in Nat \ {0}, HasUnread(s)
  PROVE  /\ Delivered(s, n).trimmed = s.trimmed
         /\ Delivered(s, n).read \in s.read .. Len(s.log)
         /\ s.pel \subseteq Delivered(s, n).pel
         /\ \A i \in s.trimmed + 1 .. Delivered(s, n).read :
              i > s.read => i \in Delivered(s, n).pel
         /\ \A m \in ToSet(Reply(s, n)) :
              /\ m.id \in 1 .. Delivered(s, n).read /\ m.body = s.log[m.id]
              /\ m.id > s.read
<1> DEFINE first == FirstUnread(s)
           last  == UpTo(s, n)
<1>1. s.log \in Seq(E) /\ s.trimmed \in Nat /\ s.read \in Nat /\ Len(s.log) \in Nat
  BY LenProperties DEF Stream
<1>2. first \in Nat \ {0} /\ first <= Len(s.log)
  BY <1>1 DEF FirstUnread, HasUnread
<1>3. last \in Nat /\ last <= Len(s.log) /\ last >= first
  BY <1>1, <1>2 DEF UpTo
<1>4. \A i \in Nat : i > s.read /\ i > s.trimmed => i >= first
  BY <1>1 DEF FirstUnread
<1>9. first > s.read
  BY <1>1 DEF FirstUnread
<1> HIDE DEF first, last
<1>5. Delivered(s, n) = [s EXCEPT !.read = last, !.pel = s.pel \cup first .. last]
  BY DEF Delivered, first, last
<1>6. /\ Delivered(s, n).trimmed = s.trimmed /\ Delivered(s, n).read = last
      /\ Delivered(s, n).pel = s.pel \cup first .. last
  BY <1>5 DEF Stream
<1>7. ASSUME NEW i \in s.trimmed + 1 .. last, i > s.read
      PROVE  i \in first .. last
  BY <1>1, <1>2, <1>3, <1>4, <1>7
<1>8. ASSUME NEW m \in ToSet(Reply(s, n))
      PROVE  m.id \in 1 .. last /\ m.body = s.log[m.id] /\ m.id > s.read
  <2>1. Reply(s, n) = [k \in 1 .. last + 1 - first |->
                         [id |-> first + k - 1, body |-> s.log[first + k - 1]]]
    BY DEF Reply, first, last
  <2>2. PICK k \in 1 .. last + 1 - first :
          m = [id |-> first + k - 1, body |-> s.log[first + k - 1]]
    BY <2>1 DEF ToSet
  <2>3. first + k - 1 \in 1 .. last /\ first + k - 1 > s.read
    BY <1>1, <1>2, <1>3, <1>9
  <2> QED BY <2>2, <2>3
<1>10. last \in s.read .. Len(s.log)
  BY <1>1, <1>2, <1>3, <1>9
<1> QED BY <1>6, <1>7, <1>8, <1>10

\* No two messages of a reply have the same id.
LEMMA ReplyIds ==
  ASSUME NEW E, NEW s \in Stream(E), NEW n \in Nat \ {0}, HasUnread(s),
         NEW a \in DOMAIN Reply(s, n), NEW b \in DOMAIN Reply(s, n),
         Reply(s, n)[a].id = Reply(s, n)[b].id
  PROVE  a = b
<1> DEFINE first == FirstUnread(s)
           last  == UpTo(s, n)
<1>1. first \in Nat /\ last \in Nat
  BY LenProperties DEF Stream, FirstUnread, UpTo
<1>2. Reply(s, n) = [k \in 1 .. last + 1 - first |->
                       [id |-> first + k - 1, body |-> s.log[first + k - 1]]]
  BY DEF Reply
<1> HIDE DEF first, last
<1>3. a \in 1 .. last + 1 - first /\ b \in 1 .. last + 1 - first
  BY <1>2
<1>4. Reply(s, n)[a].id = first + a - 1 /\ Reply(s, n)[b].id = first + b - 1
  BY <1>2, <1>3
<1>5. first + a - 1 = first + b - 1
  BY <1>4
<1> QED BY <1>1, <1>3, <1>5

-----------------------------------------------------------------------------
(***************************************************************************)
(* The jobs table                                                          *)
(***************************************************************************)

\* A set of natural numbers that has an element has a least one.
LEMMA LeastOf ==
  ASSUME NEW S \in SUBSET Nat, S # {}
  PROVE  \E x \in S : \A y \in S : x <= y
<1> DEFINE R == OpToRel(<, Nat)
<1>1. PICK x \in S : \A y \in S : <<y, x>> \notin R
  BY NatLessThanWellFounded, WFMin, Zenon
<1>2. \A y \in S : <<y, x>> \in R <=> y < x
  BY <1>1 DEF OpToRel
<1>3. \A y \in S : ~ (y < x)
  BY <1>1, <1>2
<1>4. x \in Nat /\ \A y \in S : y \in Nat
  OBVIOUS
<1>5. \A y \in S : x <= y
  BY <1>3, <1>4
<1> QED BY <1>5

\* The positions of a sequence that fulfil a condition have a last one.
LEMMA LastOf ==
  ASSUME NEW n \in Nat, NEW S \in SUBSET (1 .. n), S # {}
  PROVE  Max(S) \in S /\ \A y \in S : y <= Max(S)
<1>1. PICK t \in {n - x : x \in S} : \A u \in {n - x : x \in S} : t <= u
  <2>1. \A x \in S : x \in Nat /\ n - x \in Nat
    OBVIOUS
  <2>2. {n - x : x \in S} \in SUBSET Nat /\ {n - x : x \in S} # {}
    BY <2>1
  <2> QED BY <2>2, LeastOf
<1>2. PICK x \in S : \A y \in S : n - x <= n - y
  BY <1>1
<1>3. \A y \in S : x >= y
  BY <1>2
<1>4. Max(S) \in S /\ \A y \in S : Max(S) >= y
  BY <1>3 DEF Max
<1> QED BY <1>4

\* A transaction of updates writes statuses, and neither adds a row nor takes
\* one away.
LEMMA CommittedKeeps ==
  ASSUME NEW J, NEW rows \in [J -> Status \cup {"absent"}],
         NEW txn \in Seq([job : J, status : Status])
  PROVE  /\ Committed(rows, txn) \in [J -> Status \cup {"absent"}]
         /\ \A j \in J : rows[j] # "absent" <=> Committed(rows, txn)[j] # "absent"
<1>1. DOMAIN txn = 1 .. Len(txn) /\ Len(txn) \in Nat /\ DOMAIN rows = J
  BY LenProperties
<1>2. ASSUME NEW j \in J, Updated(j, txn)
      PROVE  LastUpdate(j, txn) \in Status
  <2> DEFINE S == {n \in DOMAIN txn : txn[n].job = j}
  <2>1. S \in SUBSET (1 .. Len(txn)) /\ S # {}
    BY <1>1, <1>2 DEF Updated
  <2>2. Max(S) \in S
    BY <1>1, <2>1, LastOf
  <2> HIDE DEF S
  <2>3. PICK n \in DOMAIN txn : n = Max(S)
    BY <2>2 DEF S
  <2>4. txn[n].status \in Status
    <3>1. txn[n] \in [job : J, status : Status]
      BY ElementOfSeq, <1>1
    <3> QED BY <3>1
  <2>5. LastUpdate(j, txn) = txn[n].status
    BY <2>3 DEF LastUpdate, S
  <2> QED BY <2>4, <2>5
<1>3. "absent" \notin Status
  BY DEF Status
<1> QED BY <1>1, <1>2, <1>3 DEF Committed

=============================================================================
