---------------------------- MODULE TaskOutcome -----------------------------
(* What the runner promises about the outcome of a task (task.rs, db.rs):   *)
(* a task gets at most one final state; the final state is reported first   *)
(* (to the API and the notifier) and recorded in the database later; what   *)
(* is recorded is what was reported and never changes.  A crash forgets     *)
(* what was reported and not recorded.  A restart may give up tasks that    *)
(* have no final state.                                                     *)
EXTENDS Naturals

CONSTANT Task

VARIABLES
  reported,   \* [Task -> Outcome], as the service shows it
  durable     \* [Task -> Outcome], as recorded

vars == <<reported, durable>>

Final   == {"finished", "failed", "cancelled"}
Outcome == Final \cup {"none"}

TypeOK == reported \in [Task -> Outcome] /\ durable \in [Task -> Outcome]

Init ==
  /\ reported = [t \in Task |-> "none"]
  /\ durable = [t \in Task |-> "none"]

Report(T, outcome) ==
  /\ T # {} /\ \A t \in T : reported[t] = "none"
  /\ reported' = [t \in Task |-> IF t \in T THEN outcome ELSE reported[t]]
  /\ UNCHANGED durable

Record(T) ==
  /\ T # {} /\ \A t \in T : reported[t] # "none" /\ durable[t] = "none"
  /\ durable' = [t \in Task |-> IF t \in T THEN reported[t] ELSE durable[t]]
  /\ UNCHANGED reported

Crash ==
  /\ reported' = durable
  /\ UNCHANGED durable

GiveUp(T) ==
  /\ T # {} /\ \A t \in T : reported[t] = "none"
  /\ reported' = [t \in Task |-> IF t \in T THEN "cancelled" ELSE reported[t]]
  /\ durable' = [t \in Task |-> IF t \in T THEN "cancelled" ELSE durable[t]]

Next ==
  \/ \E T \in SUBSET Task : \/ \E outcome \in Final : Report(T, outcome)
                            \/ Record(T) \/ GiveUp(T)
  \/ Crash

Spec == Init /\ [][Next]_vars

-----------------------------------------------------------------------------
(* A recorded outcome is what the service shows, and never changes. *)
RecordedIsShown == \A t \in Task : durable[t] # "none" => reported[t] = durable[t]

RecordedForever ==
  [][\A t \in Task : durable[t] # "none" => durable'[t] = durable[t]]_vars

=============================================================================
