----------------------------- MODULE MCProjects -----------------------------
(* Two tasks of one project, on two machines, and a session on the first.   *)
EXTENDS Projects

CONSTANTS t1, t2, s1, m1, m2

MCOf         == [i \in Item |-> IF i = t2 THEN m2 ELSE m1]
MCTimeLimit  == [i \in Item |-> IF i = t2 THEN 2 ELSE 1]
=============================================================================
