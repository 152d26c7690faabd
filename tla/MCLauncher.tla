----------------------------- MODULE MCLauncher -----------------------------
(* Instances of Launcher for TLC.  Tasks p1 and p2 belong to a project and *)
(* q1 to the session s1; u1 owns all but p2.                               *)
EXTENDS Launcher

CONSTANTS p1, p2, q1, s1, s2, u1, u2

MCParent == [t \in Task |-> IF t = q1 THEN s1 ELSE Project]
MCOwner  == [t \in Task |-> IF t = p2 THEN u2 ELSE u1]

(* Everything may happen to every item. *)
MayAll == [cancel |-> Item, reject |-> Item, evict |-> Item, exceed |-> Task]

(* Suspensions meet cancels and tasks over their limit.                     *)
MaySuspend == [cancel |-> {p1, s1}, reject |-> {}, evict |-> {}, exceed |-> {q1}]

(* Liveness: everything but limits. *)
MayLive == [cancel |-> Item, reject |-> {}, evict |-> {}, exceed |-> {}]

=============================================================================
