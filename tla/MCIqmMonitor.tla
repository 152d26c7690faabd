---------------------------- MODULE MCIqmMonitor ----------------------------
(* Instances of IqmMonitor for TLC: n1 is submitted, r1 is resumed.         *)
EXTENDS IqmMonitor

CONSTANTS n1, r1

=============================================================================
