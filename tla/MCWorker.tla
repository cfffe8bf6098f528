------------------------------ MODULE MCWorker ------------------------------
\* Instances of Worker for TLC.
EXTENDS Worker

CONSTANTS ok1, fail1, bad1, g1, g2

\* One job of each kind: it succeeds, it fails on purpose, it does not parse.
EachKind == {ok1, fail1, bad1}

Allow(kinds) == [k \in FaultKind |-> IF k \in kinds THEN 1 ELSE 0]

NoFault     == Allow({})
AnyFault    == Allow(FaultKind)
StopOrDisk  == Allow({"crash", "stop", "disk"})
StopOnly    == Allow({"stop"})
=============================================================================
