------------------------------ MODULE MCUsers -------------------------------
(* An instance of Users for TLC: the task t1 on one machine, the session s1 *)
(* and its task q1 on another, all of one user; any two of them are within  *)
(* the limit of items, and t1 with q1 exceed the limit of payloads.         *)
EXTENDS Users

CONSTANTS t1, s1, q1, alice, ma, mb

MCParent == [t \in {q1} |-> s1]
MCOwner  == [i \in Item |-> alice]
MCOf     == [i \in Item |-> IF i = t1 THEN ma ELSE mb]
MCSize   == [i \in Item |-> IF i = t1 THEN 1 ELSE IF i = q1 THEN 2 ELSE 0]

=============================================================================
