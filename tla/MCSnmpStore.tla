---------------------------- MODULE MCSnmpStore ----------------------------
\* Instances of SnmpStore for TLC.
EXTENDS SnmpStore

CONSTANTS n1, cpu, mem

MCOrder == <<<<n1, cpu>>, <<n1, mem>>>>
=============================================================================
