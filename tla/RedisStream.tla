----------------------------- MODULE RedisStream -----------------------------
(***************************************************************************)
(* A Redis stream with its single consumer group, as this system uses it:  *)
(* XADD with MAXLEN ~, XREADGROUP with the id ">", and XACK.  Redis itself *)
(* is external: the operators below give the state a stream may be in      *)
(* after one command, and the components decide when commands are sent.    *)
(*                                                                         *)
(*   log      every entry ever added; an entry's id is its position        *)
(*   trimmed  the entries 1..trimmed were evicted by MAXLEN                *)
(*   read     the group's last-delivered-id                                *)
(*   pel      ids delivered to a consumer and not acknowledged             *)
(*                                                                         *)
(* Nobody in this system reads its pending entries back: XREADGROUP is     *)
(* only ever called with ">", and XCLAIM / XAUTOCLAIM never.  The PEL is   *)
(* therefore written by deliveries and acknowledgements and read by none.  *)
(***************************************************************************)
EXTENDS Naturals, Sequences

Stream(Entry) ==
  [log : Seq(Entry), trimmed : Nat, read : Nat, pel : SUBSET Nat]

\* XGROUP CREATE ... MKSTREAM with start id 0: an empty stream and a group
\* that has read nothing.
EmptyStream == [log |-> <<>>, trimmed |-> 0, read |-> 0, pel |-> {}]

-----------------------------------------------------------------------------
(***************************************************************************)
(* XADD                                                                    *)
(***************************************************************************)

\* The log after `copies' executions of the same XADD: a client that lost a
\* reply and retried has executed the command more than once.
Appended(seq, e, copies) ==
  CASE copies = 0 -> seq
    [] copies = 1 -> Append(seq, e)
    [] copies = 2 -> Append(Append(seq, e), e)

\* MAXLEN ~ n: Redis evicts whole nodes of old entries, so it may keep more
\* than n entries and never keeps fewer because of the trim.
Evictions(s, len, maxLen) == {t \in s.trimmed .. len : t = s.trimmed \/ t + maxLen <= len}

XAdd(s, e, copies, maxLen) ==
  LET log == Appended(s.log, e, copies)
  IN  {[s EXCEPT !.log = log, !.trimmed = t] : t \in Evictions(s, Len(log), maxLen)}

-----------------------------------------------------------------------------
(***************************************************************************)
(* XREADGROUP ... COUNT n ... >  and  XACK                                 *)
(***************************************************************************)

\* The oldest entry the group has not been given, the evicted ones excepted.
FirstUnread(s) == 1 + (IF s.read < s.trimmed THEN s.trimmed ELSE s.read)

HasUnread(s) == FirstUnread(s) <= Len(s.log)

\* The last entry of a reply: as many as there are, up to COUNT.
UpTo(s, count) ==
  IF FirstUnread(s) + count - 1 < Len(s.log) THEN FirstUnread(s) + count - 1 ELSE Len(s.log)

\* The reply, in stream order.
Reply(s, count) ==
  [n \in 1 .. UpTo(s, count) + 1 - FirstUnread(s) |->
     [id |-> FirstUnread(s) + n - 1, body |-> s.log[FirstUnread(s) + n - 1]]]

\* The stream after the delivery: the group moves past the entries it was
\* given, which stay in the PEL until they are acknowledged.
Delivered(s, count) ==
  [s EXCEPT !.read = UpTo(s, count),
            !.pel  = @ \cup FirstUnread(s) .. UpTo(s, count)]

XAck(s, id) == [s EXCEPT !.pel = @ \ {id}]
=============================================================================
