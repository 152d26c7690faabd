--------------------------- MODULE MCNotifyWorker ---------------------------
(* Two registrations of the name and two subjects: constants are given in   *)
(* the .cfg alone.                                                          *)
EXTENDS NotifyWorker
=============================================================================
