---------------------------- MODULE MCReconfig ------------------------------
(* An instance of Reconfig for TLC: a task p1 of a project, and a session   *)
(* s1 with its task q1.                                                     *)
EXTENDS Reconfig

CONSTANTS p1, q1, s1, u1

MCParent == [t \in Task |-> IF t = q1 THEN s1 ELSE Project]
MCOwner  == [t \in Task |-> u1]
MCMay    == [cancel |-> {p1, s1}, reject |-> {}, evict |-> {}, exceed |-> {}]

(* Also the task of the session is cancelled. *)
MCMayAll == [cancel |-> Item, reject |-> {}, evict |-> {}, exceed |-> {}]

=============================================================================
