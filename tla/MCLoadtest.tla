----------------------------- MODULE MCLoadtest -----------------------------
\* Instances of Loadtest for TLC.
EXTENDS Loadtest

CONSTANTS r1, r2, j1, j2, none
=============================================================================
