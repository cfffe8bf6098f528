---------------------------- MODULE MCJobMessage ----------------------------
\* Instances of JobMessage for TLC.
EXTENDS JobMessage

\* A body that is fine, and all that differ from it in at most two fields.
Good ==
  [f \in Fields |->
     CASE f \in {"body", "payload"}         -> [kind |-> "object", n |-> 0]
       [] f \in {"priority", "user_id"}     -> [kind |-> "int", n |-> 1]
       [] f \in {"type", "action", "data"}  -> [kind |-> "text", n |-> 0]
       [] f = "run_id"                      -> [kind |-> "missing", n |-> 0]]

Values == [kind : {"int"}, n : - IntMax - 2 .. IntMax + 1] \cup Boolean \cup Opaque

\* A request's body is an object, or something else that is not empty.
Posted(f) == IF f = "body" THEN {v \in Values : v.kind \in {"object", "list", "text"}} ELSE Values

MCBodies ==
  UNION {{[Good EXCEPT ![f] = v, ![g] = w] : v \in Posted(f), w \in Posted(g)} :
           f \in Fields, g \in Fields}
=============================================================================
