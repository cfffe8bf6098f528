-------------------------- MODULE MCStatusConsumer --------------------------
\* Instances of StatusConsumer for TLC.
EXTENDS StatusConsumer

CONSTANTS j1, ghost

Allow(kinds) == [k \in FaultKind |-> IF k \in kinds THEN 1 ELSE 0]

AnyFault == Allow(FaultKind)
DbOnly   == Allow({"db"})
=============================================================================
