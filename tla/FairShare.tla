------------------------------ MODULE FairShare ------------------------------
(***************************************************************************)
(* The order in which a machine serves its users (machine.rs): each has a  *)
(* queue, a decaying usage and a moving average of task times, and the     *)
(* user with the lowest usage, estimates of its tasks in the backend       *)
(* included, is served next.                                               *)
(*                                                                         *)
(* Times are whole units and rounded down.  Queued items are known by      *)
(* their kind only, so that ties, which the code breaks by age, are broken *)
(* either way.  Tasks of a session are not under fair share and left out.  *)
(***************************************************************************)
EXTENDS Integers, Sequences, SequencesExt, FiniteSets, FiniteSetsExt

CONSTANTS
  User,
  queue_size,
  TASK_AVERAGE_PLACEHOLDER,
  Weight,          \* 1 / TASK_AVERAGE_ALPHA
  ExecTime,        \* true times of tasks and of sessions
  DecayBy,         \* what usage may be divided by between two updates
  MaxQueue,        \* bound: items of a user
  MaxUsage         \* bound

ASSUME FairShareAssumption ==
  /\ IsFiniteSet(User) /\ queue_size \in Nat \ {0} /\ Weight \in Nat \ {0}
  /\ TASK_AVERAGE_PLACEHOLDER \in Nat \ {0}
  /\ ExecTime \subseteq Nat /\ \E longest \in ExecTime : \A e \in ExecTime : e <= longest
  /\ DecayBy \subseteq Nat \ {0} /\ MaxQueue \in Nat /\ MaxUsage \in Nat

VARIABLES
  queues,          \* users with an entry
  usage, average_usage, submitted_tasks, queue,   \* UserQueue, of these users
  session_owner,   \* owner of the running session, if any: {} or {u}
  busy             \* history: users whose queue was never empty

entry == <<usage, average_usage, submitted_tasks>>
vars  == <<queues, entry, queue, session_owner, busy>>

-----------------------------------------------------------------------------
Kind == {"task", "session"}
Unknown == -1      \* no average yet

TypeOK ==
  /\ queues \subseteq User
  /\ usage \in [User -> 0..MaxUsage]
  /\ average_usage \in [User -> Nat \cup {Unknown}]
  /\ submitted_tasks \in [User -> 0..queue_size]
  /\ queue \in [User -> Seq(Kind)] /\ \A u \in User : Len(queue[u]) <= MaxQueue
  /\ session_owner \in {{}} \cup {{u} : u \in User}
  /\ busy \subseteq User

EffectiveUsage(u) ==
  usage[u] + submitted_tasks[u]
             * (IF average_usage[u] = Unknown THEN TASK_AVERAGE_PLACEHOLDER
                                              ELSE average_usage[u])

(* The tasks at the backend, of each user numbered. *)
Assigned(users) == UNION {{u} \X (1..submitted_tasks[u]) : u \in users}
SubmittedTasks  == Cardinality(Assigned(User))
NoAssignments   == SubmittedTasks = 0

(* The history of every step.                                               *)
StayBusy == busy' = {u \in busy : queue'[u] # <<>>}

-----------------------------------------------------------------------------
(* Queueing *)

Queue(u, kind) ==
  /\ Len(queue[u]) < MaxQueue
  /\ queue' = [queue EXCEPT ![u] = Append(@, kind)]
  /\ queues' = queues \cup {u}
  /\ UNCHANGED <<entry, session_owner>>

RemoveQueued(u, i) ==
  /\ queue' = [queue EXCEPT ![u] = RemoveAt(@, i)]
  /\ UNCHANGED <<queues, entry, session_owner>>

(* By a suspension. *)
TakeQueuedItems ==
  /\ queue' = [u \in User |-> <<>>]
  /\ UNCHANGED <<queues, entry, session_owner>>

-----------------------------------------------------------------------------
(* Dispatch *)

Waiting == {u \in User : queue[u] # <<>>}

(* Mutant: users are served in the order of submission. *)
IsNextOfAny(u) == u \in Waiting

(* pop_queue_item: the lowest usage; tasks before sessions.                 *)
IsNext(u) ==
  /\ u \in Waiting
  /\ \A v \in Waiting :
       \/ EffectiveUsage(u) < EffectiveUsage(v)
       \/ /\ EffectiveUsage(u) = EffectiveUsage(v)
          /\ Head(queue[u]) = "task" \/ Head(queue[v]) = "session"

(* The loop of the launcher and pick_task.                                  *)
Pop(u) ==
  /\ session_owner = {} /\ SubmittedTasks < queue_size
  /\ IsNext(u)
  /\ queue' = [queue EXCEPT ![u] = Tail(@)]

(* record_new_task_in_backend *)
SubmitTask(u) ==
  /\ Pop(u) /\ Head(queue[u]) = "task"
  /\ submitted_tasks' = [submitted_tasks EXCEPT ![u] = @ + 1]
  /\ UNCHANGED <<queues, usage, average_usage, session_owner>>

(* The project of the task is over its limit.                               *)
FailTask(u) ==
  /\ Pop(u) /\ Head(queue[u]) = "task"
  /\ UNCHANGED <<queues, entry, session_owner>>

(* A session that is next waits for the backend to be empty, and everyone   *)
(* else with it.                                                            *)
OpenSession(u) ==
  /\ Pop(u) /\ Head(queue[u]) = "session" /\ NoAssignments
  /\ session_owner' = {u}
  /\ UNCHANGED <<queues, entry>>

-----------------------------------------------------------------------------
(* Usage *)

(* decay_factor, of the time since the last update.                         *)
Decayed(d) == [u \in User |-> usage[u] \div d]

(* Mutant: users with tasks in the backend are dropped. *)
KeptIfQueued(d) == {u \in queues : queue[u] # <<>> \/ Decayed(d)[u] > 0}

(* The users decay_update retains.                                          *)
Kept(d) ==
  {u \in queues : queue[u] # <<>> \/ submitted_tasks[u] > 0 \/ Decayed(d)[u] > 0}

(* What a user without an entry starts from again.                          *)
Default(f, zero, d) == [u \in User |-> IF u \in Kept(d) THEN f[u] ELSE zero]

(* TASK_AVERAGE_ALPHA of the new time and the rest of the old.              *)
Averaged(u, e) ==
  IF average_usage[u] = Unknown THEN e
  ELSE (e + (Weight - 1) * average_usage[u]) \div Weight

(* decay_update and record_finished_task_in_backend; a task that was never  *)
(* executed costs nothing.                                                  *)
FinishTask(u, e, d) ==
  /\ submitted_tasks[u] > 0
  /\ Decayed(d)[u] + e <= MaxUsage
  /\ queues' = Kept(d)
  /\ usage' = [Decayed(d) EXCEPT ![u] = @ + e]
  /\ average_usage' = [Default(average_usage, Unknown, d) EXCEPT ![u] =
                         IF e > 0 THEN Averaged(u, e) ELSE @]
  /\ submitted_tasks' = [submitted_tasks EXCEPT ![u] = @ - 1]
  /\ UNCHANGED <<queue, session_owner>>

(* decay_update and record_closed_session, which makes an entry if needed.  *)
CloseSession(u, e, d) ==
  /\ session_owner = {u} /\ session_owner' = {}
  /\ Decayed(d)[u] + e <= MaxUsage
  /\ queues' = Kept(d) \cup {u}
  /\ usage' = [Decayed(d) EXCEPT ![u] = @ + e]
  /\ average_usage' = Default(average_usage, Unknown, d)
  /\ UNCHANGED <<submitted_tasks, queue>>

-----------------------------------------------------------------------------
(* Restoration *)

(* Core::restore queues sessions first and then tasks.                      *)
Requeued(q) ==
  LET sessions == Cardinality({i \in DOMAIN q : q[i] = "session"})
  IN [i \in DOMAIN q |-> IF i <= sessions THEN "session" ELSE "task"]

(* restart_machine: usage and averages are inherited, counts and queues are *)
(* rebuilt from the rows, an open session is charged for what it held.      *)
Reconfigure(e, d) ==
  /\ \A u \in session_owner : Decayed(d)[u] + e <= MaxUsage
  /\ session_owner' = {}
  /\ queues' = Kept(d) \cup session_owner
  /\ usage' = [u \in User |-> Decayed(d)[u] + (IF u \in session_owner THEN e ELSE 0)]
  /\ average_usage' = Default(average_usage, Unknown, d)
  /\ queue' = [u \in User |-> Requeued(queue[u])]
  /\ UNCHANGED submitted_tasks

(* A start of the service knows no usage but that of the session it closes. *)
Restart(e) ==
  /\ session_owner' = {}
  /\ queues' = session_owner
       \cup {u \in User : submitted_tasks[u] > 0 \/ queue[u] # <<>>}
  /\ usage' = [u \in User |-> IF u \in session_owner THEN e ELSE 0]
  /\ average_usage' = [u \in User |-> Unknown]
  /\ queue' = [u \in User |-> Requeued(queue[u])]
  /\ UNCHANGED submitted_tasks

-----------------------------------------------------------------------------
(* Any work may be queued when the observation begins.                      *)
Init ==
  /\ queue \in [User -> {<<>>, <<"task">>, <<"task", "session">>}]
  /\ queues = {u \in User : queue[u] # <<>>}
  /\ usage = [u \in User |-> 0] /\ average_usage = [u \in User |-> Unknown]
  /\ submitted_tasks = [u \in User |-> 0]
  /\ session_owner = {}
  /\ busy = queues

ByUser(u) ==
  \/ \E kind \in Kind : Queue(u, kind)
  \/ \E i \in DOMAIN queue[u] : RemoveQueued(u, i)
  \/ SubmitTask(u) \/ FailTask(u) \/ OpenSession(u)
  \/ \E e \in ExecTime \cup {0}, d \in DecayBy :
       FinishTask(u, e, d) \/ CloseSession(u, e, d)

Next ==
  /\ \/ \E u \in User : ByUser(u)
     \/ TakeQueuedItems
     \/ \E e \in ExecTime \cup {0}, d \in DecayBy : Reconfigure(e, d)
     \/ \E e \in ExecTime \cup {0} : Restart(e)
  /\ StayBusy

Spec == Init /\ [][Next]_vars

-----------------------------------------------------------------------------
(* Properties *)

(* A user with work in a queue or in the backend keeps its entry, which     *)
(* record_finished_task_in_backend unwraps and counts down, through decay,  *)
(* reconfiguration and restart.                                             *)
EntryIsKept ==
  \A u \in User : (submitted_tasks[u] > 0 \/ queue[u] # <<>>) => u \in queues

(* The most a slot of the machine is worth, or is taken to be worth.        *)
Slot == Max(ExecTime \cup {TASK_AVERAGE_PLACEHOLDER})

(* Of two users who have always had work waiting neither gets ahead by more *)
(* than the slots of the machine are worth, whatever their tasks and        *)
(* sessions took, however usage decayed, and although it is charged only    *)
(* when a task ends (pop_queue_item, effective_usage).                      *)
BoundedLag == \A u, v \in busy : usage[u] - usage[v] <= queue_size * Slot

=============================================================================
