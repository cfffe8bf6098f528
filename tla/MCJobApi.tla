------------------------------ MODULE MCJobApi ------------------------------
\* Instances of JobApi for TLC.
EXTENDS JobApi

CONSTANTS j1, j2
=============================================================================
