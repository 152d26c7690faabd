------------------------------ MODULE Launcher ------------------------------
(***************************************************************************)
(* One machine of the runner: the requests of the service (reactor.rs),    *)
(* the machine's queues and pending requests (machine.rs), the launcher    *)
(* loop that owns the work handed to the backend (launcher.rs), the rows   *)
(* of the database, and the restoration of the state from those rows       *)
(* (core.rs).                                                              *)
(*                                                                         *)
(* The core mutex is held from the moment the launcher takes an event      *)
(* until it starts writing its pending updates to the database.  The work  *)
(* done in that section is split into small steps, told apart by `pc`; no  *)
(* request of the service takes effect in between.  The writes themselves  *)
(* happen one by one without the mutex, so requests, backend reports and   *)
(* crashes come between them.                                              *)
(*                                                                         *)
(* Left to other modules: the order in which fair share picks queued       *)
(* items (any queued item may be next here), the accounting of time (any   *)
(* submitted task may turn out to be over a limit), the per-user limits    *)
(* (any request may be rejected).                                          *)
(*                                                                         *)
(* Steps that do not take the mutex (the backend's, and writes of requests *)
(* to the database) commute with the steps of a section that holds it:     *)
(* they touch no variable the section reads.  They are taken only outside  *)
(* of such sections.  A crash inside a section loses what the section did, *)
(* so it is the crash before the section.                                  *)
(***************************************************************************)
EXTENDS Integers, FiniteSets, Sequences

CONSTANTS
  Task,            \* tasks that may be submitted to the machine
  Session,         \* sessions that may be created on the machine
  User,            \* users
  Parent,          \* Parent[t]: the session of task t, or Project
  Owner,           \* Owner[t]: the user of task t
  Project,         \* the parent of a task outside a session
  NoSession,       \* "no running session"
  QueueSize,       \* most tasks handed to the backend at a time
  MaxCrashes,      \* bound: crashes of the service
  MaxShutdowns,    \* bound: graceful shutdowns of the service
  MaxSuspensions,  \* bound: suspensions of the machine
  May,             \* bound: what may happen to which items (MayAssumption)
  JobReports       \* bound: what a job's monitoring may report

ASSUME ParentAssumption == Parent \in [Task -> Session \cup {Project}]
ASSUME OwnerAssumption == Owner \in [Task -> User]
ASSUME NamesAssumption ==
  Project \notin Session /\ NoSession \notin Session /\ Task \cap Session = {}
ASSUME TaskAssumption == IsFiniteSet(Task)
ASSUME QueueSizeAssumption == QueueSize \in Nat \ {0}
ASSUME BoundsAssumption ==
  /\ MaxCrashes \in Nat /\ MaxShutdowns \in Nat /\ MaxSuspensions \in Nat
  /\ JobReports \subseteq {"running", "finished", "failed", "cancelled"}
(* Items a user may cancel, items rejected after their row was inserted     *)
(* for a limit of their user, tasks that may exceed a limit, and items that *)
(* may be evicted from memory.                                              *)
ASSUME MayAssumption ==
  /\ {May.cancel, May.reject, May.evict} \subseteq SUBSET (Task \cup Session)
  /\ May.exceed \subseteq Task

VARIABLES
  (* memory, guarded by the core mutex *)
  task_map,                 \* [Task -> MemState]
  backend_id,               \* tasks whose backend job id is known in memory
  session_map,              \* [Session -> SessionState]
  queues,                   \* queued tasks and sessions
  running_session,          \* the open session, or NoSession
  session_queue,            \* queued tasks of the open session
  task_cancel_requests,     \* accepted cancels the launcher has not taken yet
  session_cancel_requests,
  suspend_cancel_requests,  \* policies of suspensions not applied yet
  suspension,               \* policy of the active suspension, or "off"
  tasks_in_backend,         \* [User -> Int], fair share's count
  notifier,                 \* the permit of the Notify that wakes the launcher
  (* the launcher *)
  pc,
  submitted_tasks,          \* tasks handed to the backend and not final yet
  cancelling,               \* those of them that are being cancelled
  fail_reasons,             \* those cancelled for exceeding a limit
  db_updates,               \* updates to be written, in order
  shutting_down,
  (* requests of the service in progress *)
  request,                  \* [Item -> RequestStep], a submission or creation
  suspend_request,          \* the suspension or resumption in progress
  (* the database *)
  db_task,                  \* [Task -> DbTaskState]
  db_backend_id,            \* tasks whose row has a backend id
  db_session,               \* [Session -> DbSessionState]
  db_suspension,
  (* the backend *)
  job,                      \* [Task -> JobState]
  cancel_sent,              \* tasks whose job was asked to cancel
  messages,                 \* [Task -> Seq(Message)], reports not received yet
  (* bounds and history *)
  crashes, shutdowns, suspensions,
  notified                  \* [Task -> Nat], completion events sent in this life

requestVars == <<task_cancel_requests, session_cancel_requests,
                 suspend_cancel_requests>>
serviceVars == <<request, suspend_request>>
dbVars      == <<db_task, db_backend_id, db_session, db_suspension>>
backendVars == <<job, cancel_sent, messages>>
boundVars   == <<crashes, shutdowns, suspensions>>
queueVars   == <<queues, running_session, session_queue>>
trackVars   == <<submitted_tasks, cancelling, fail_reasons>>
memVars     == <<task_map, backend_id, session_map, tasks_in_backend>>

machineVars  == <<memVars, queueVars, requestVars, suspension, notifier>>
launcherVars == <<pc, trackVars, db_updates, shutting_down>>
outsideVars  == <<serviceVars, dbVars, backendVars, boundVars>>

vars == <<machineVars, launcherVars, outsideVars, notified>>

-----------------------------------------------------------------------------
(* Types *)

Item         == Task \cup Session
Active       == {"waiting", "running"}
Final        == {"finished", "failed", "cancelled"}
MemState     == {"absent"} \cup Active \cup Final
DbTaskState  == {"absent", "waiting"} \cup Final
SessionState == {"absent", "queued", "open", "closed"}
(* Rows of sessions: "closed" has opened_at set, "dropped" has not.        *)
DbSessionState == SessionState \cup {"dropped"}
Policy       == {"none", "waiting", "all"}
RequestStep  == {"idle", "inserted", "rejected", "done"}
JobState     == {"none", "submitting", "accepted", "executing", "ended"}
Message      == {"submitted", "running"} \cup Final
Pc           == {"select", "section", "flush", "stopped", "down",
                 "restoring", "starting"}
DbUpdate     == [op : {"backend_id"}, of : Task]
           \cup [op : {"opened"}, of : Session]
           \cup [op : {"outcome"}, of : Task, state : Final]
           \cup [op : {"closed"}, of : Session, tasks : SUBSET Task]

TypeOK ==
  /\ task_map \in [Task -> MemState]
  /\ backend_id \subseteq Task
  /\ session_map \in [Session -> SessionState]
  /\ queues \subseteq Item
  /\ running_session \in Session \cup {NoSession}
  /\ session_queue \subseteq Task
  /\ task_cancel_requests \subseteq Task
  /\ session_cancel_requests \subseteq Session
  /\ suspend_cancel_requests \subseteq Policy
  /\ suspension \in Policy \cup {"off"}
  /\ tasks_in_backend \in [User -> Int]
  /\ notifier \in BOOLEAN
  /\ pc \in Pc
  /\ submitted_tasks \subseteq Task
  /\ cancelling \subseteq submitted_tasks
  /\ fail_reasons \subseteq submitted_tasks
  /\ db_updates \in Seq(DbUpdate)
  /\ shutting_down \in BOOLEAN
  /\ request \in [Item -> RequestStep]
  /\ suspend_request \in Policy \cup {"idle", "resume"}
  /\ db_task \in [Task -> DbTaskState]
  /\ db_backend_id \subseteq Task
  /\ db_session \in [Session -> DbSessionState]
  /\ db_suspension \in Policy \cup {"off"}
  /\ job \in [Task -> JobState]
  /\ cancel_sent \subseteq Task
  /\ messages \in [Task -> Seq(Message)]
  /\ crashes \in Nat /\ shutdowns \in Nat /\ suspensions \in Nat
  /\ notified \in [Task -> Nat]

-----------------------------------------------------------------------------
(* The service starts on an empty database. *)
Init ==
  /\ task_map = [t \in Task |-> "absent"]
  /\ backend_id = {}
  /\ session_map = [s \in Session |-> "absent"]
  /\ queues = {} /\ running_session = NoSession /\ session_queue = {}
  /\ task_cancel_requests = {}
  /\ session_cancel_requests = {}
  /\ suspend_cancel_requests = {}
  /\ suspension = "off"
  /\ tasks_in_backend = [u \in User |-> 0]
  /\ notifier = FALSE
  /\ pc = "select"
  /\ submitted_tasks = {} /\ cancelling = {} /\ fail_reasons = {}
  /\ db_updates = <<>>
  /\ shutting_down = FALSE
  /\ request = [i \in Item |-> "idle"]
  /\ suspend_request = "idle"
  /\ db_task = [t \in Task |-> "absent"]
  /\ db_backend_id = {}
  /\ db_session = [s \in Session |-> "absent"]
  /\ db_suspension = "off"
  /\ job = [t \in Task |-> "none"]
  /\ cancel_sent = {}
  /\ messages = [t \in Task |-> <<>>]
  /\ crashes = 0 /\ shutdowns = 0 /\ suspensions = 0
  /\ notified = [t \in Task |-> 0]

-----------------------------------------------------------------------------
(* Requests of the service.  The HTTP server has stopped before the        *)
(* launchers are told to shut down (reactor::shutdown).                    *)

Serving  == pc \in {"select", "section", "flush"} /\ ~shutting_down
Unlocked == pc # "section"

SessionTask(t) == Parent[t] # Project

(* Mutant: a suspended machine goes on accepting work. *)
AcceptsSuspended(i) ==
  i \in Task => ~SessionTask(i) \/ running_session = Parent[i]

(* A new item the machine would accept, as far as the machine decides. *)
Accepts(i) ==
  /\ suspension = "off"
  /\ i \in Task => \/ ~SessionTask(i)
                   \/ running_session = Parent[i]

(* Mutant: nobody wakes the launcher. *)
NoWake == UNCHANGED notifier

WakeLauncher == notifier' = TRUE

(* Validation and insertion: what happens between the two cannot tell      *)
(* whether the row is there yet.                                           *)
InsertRow(i) ==
  /\ Serving /\ Unlocked
  /\ request[i] = "idle"
  /\ Accepts(i)
  /\ request' = [request EXCEPT ![i] = "inserted"]
  /\ IF i \in Task
     THEN /\ db_task' = [db_task EXCEPT ![i] = "waiting"]
          /\ UNCHANGED db_session
     ELSE /\ db_session' = [db_session EXCEPT ![i] = "queued"]
          /\ UNCHANGED db_task
  /\ UNCHANGED <<machineVars, launcherVars, suspend_request, db_backend_id,
                 db_suspension, backendVars, boundVars, notified>>

AddTask(t) ==
  /\ Serving /\ Unlocked
  /\ request[t] = "inserted"
  /\ Accepts(t)
  /\ request' = [request EXCEPT ![t] = "done"]
  /\ task_map' = [task_map EXCEPT ![t] = "waiting"]
  /\ IF SessionTask(t)
     THEN session_queue' = session_queue \cup {t} /\ UNCHANGED queues
     ELSE queues' = queues \cup {t} /\ UNCHANGED session_queue
  /\ WakeLauncher
  /\ UNCHANGED <<backend_id, session_map, tasks_in_backend, running_session,
                 requestVars, suspension, launcherVars, suspend_request,
                 dbVars, backendVars, boundVars, notified>>

AddSession(s) ==
  /\ Serving /\ Unlocked
  /\ request[s] = "inserted"
  /\ Accepts(s)
  /\ request' = [request EXCEPT ![s] = "done"]
  /\ session_map' = [session_map EXCEPT ![s] = "queued"]
  /\ queues' = queues \cup {s}
  /\ WakeLauncher
  /\ UNCHANGED <<task_map, backend_id, tasks_in_backend, running_session,
                 session_queue, requestVars, suspension, launcherVars,
                 suspend_request, dbVars, backendVars, boundVars, notified>>

(* add_task or add_session fails. *)
RejectRequest(i) ==
  /\ Serving /\ Unlocked
  /\ request[i] = "inserted"
  /\ ~Accepts(i) \/ i \in May.reject
  /\ request' = [request EXCEPT ![i] = "rejected"]
  /\ UNCHANGED <<machineVars, launcherVars, suspend_request, dbVars,
                 backendVars, boundVars, notified>>

DeleteRow(i) ==
  /\ Serving /\ Unlocked
  /\ request[i] = "rejected"
  /\ request' = [request EXCEPT ![i] = "done"]
  /\ IF i \in Task
     THEN /\ db_task' = [db_task EXCEPT ![i] = "absent"]
          /\ UNCHANGED db_session
     ELSE /\ db_session' = [db_session EXCEPT ![i] = "absent"]
          /\ UNCHANGED db_task
  /\ UNCHANGED <<machineVars, launcherVars, suspend_request, db_backend_id,
                 db_suspension, backendVars, boundVars, notified>>

(* Mutant: a cancel of a final task is accepted. *)
CancellableInMemory(t) == task_map[t] # "absent"

Cancellable(t) == task_map[t] \in Active

CancelTask(t) ==
  /\ Serving /\ Unlocked
  /\ Cancellable(t)
  /\ t \in May.cancel \ task_cancel_requests
  /\ task_cancel_requests' = task_cancel_requests \cup {t}
  /\ WakeLauncher
  /\ UNCHANGED <<memVars, queueVars, session_cancel_requests,
                 suspend_cancel_requests, suspension, launcherVars,
                 outsideVars, notified>>

CancelSession(s) ==
  /\ Serving /\ Unlocked
  /\ session_map[s] \in {"queued", "open"}
  /\ s \in May.cancel \ session_cancel_requests
  /\ session_cancel_requests' = session_cancel_requests \cup {s}
  /\ WakeLauncher
  /\ UNCHANGED <<memVars, queueVars, task_cancel_requests,
                 suspend_cancel_requests, suspension, launcherVars,
                 outsideVars, notified>>

(* suspend_machine and resume_machine hold the suspension lock from before *)
(* they write the database until memory follows.                           *)
InsertSuspension(p) ==
  /\ Serving /\ Unlocked
  /\ suspend_request = "idle" /\ suspension = "off"
  /\ suspensions < MaxSuspensions
  /\ suspensions' = suspensions + 1
  /\ db_suspension' = p
  /\ suspend_request' = p
  /\ UNCHANGED <<machineVars, launcherVars, request, db_task, db_backend_id,
                 db_session, backendVars, crashes, shutdowns, notified>>

SuspendMachine ==
  /\ Serving /\ Unlocked
  /\ suspend_request \in Policy
  /\ suspension' = suspend_request
  /\ suspend_request' = "idle"
  /\ IF suspend_request = "none"
     THEN UNCHANGED <<suspend_cancel_requests, notifier>>
     ELSE /\ suspend_cancel_requests' = suspend_cancel_requests \cup {suspend_request}
          /\ WakeLauncher
  /\ UNCHANGED <<memVars, queueVars, task_cancel_requests,
                 session_cancel_requests, launcherVars, request, dbVars,
                 backendVars, boundVars, notified>>

EndSuspension ==
  /\ Serving /\ Unlocked
  /\ suspend_request = "idle" /\ db_suspension # "off"
  /\ db_suspension' = "off"
  /\ suspend_request' = "resume"
  /\ UNCHANGED <<machineVars, launcherVars, request, db_task, db_backend_id,
                 db_session, backendVars, boundVars, notified>>

ResumeMachine ==
  /\ Serving /\ Unlocked
  /\ suspend_request = "resume"
  /\ suspension' = "off"
  /\ suspend_request' = "idle"
  /\ UNCHANGED <<memVars, queueVars, requestVars, notifier, launcherVars,
                 request, dbVars, backendVars, boundVars, notified>>

(* Eviction of terminal tasks and closed sessions from memory.  Assumed:   *)
(* the retention period outlasts the write of the final state.             *)
EvictTask(t) ==
  /\ Serving /\ Unlocked
  /\ t \in May.evict
  /\ task_map[t] \in Final /\ db_task[t] \in Final
  /\ task_map' = [task_map EXCEPT ![t] = "absent"]
  /\ backend_id' = backend_id \ {t}
  /\ UNCHANGED <<session_map, tasks_in_backend, queueVars, requestVars,
                 suspension, notifier, launcherVars, outsideVars, notified>>

EvictSession(s) ==
  /\ Serving /\ Unlocked
  /\ s \in May.evict
  /\ session_map[s] = "closed" /\ db_session[s] \in {"closed", "dropped"}
  /\ session_map' = [session_map EXCEPT ![s] = "absent"]
  /\ UNCHANGED <<task_map, backend_id, tasks_in_backend, queueVars,
                 requestVars, suspension, notifier, launcherVars, outsideVars,
                 notified>>

-----------------------------------------------------------------------------
(* Helpers of the launcher. *)

(* Mutant: the flag is set before it is looked at. *)
RequestBackendCancelFlagged(T) ==
  /\ cancelling' = cancelling \cup T
  /\ cancel_sent' = cancel_sent \cup ((T \ cancelling') \cap backend_id)

(* The `cancelling` flag of the tasks of T: those not flagged yet whose     *)
(* backend id is known are cancelled at the backend, the others once their  *)
(* submission is confirmed.                                                 *)
RequestBackendCancel(T) ==
  /\ cancelling' = cancelling \cup T
  /\ cancel_sent' = cancel_sent \cup ((T \ cancelling) \cap backend_id)

SetTasks(T, state) ==
  /\ task_map' = [t \in Task |-> IF t \in T THEN state ELSE task_map[t]]
  /\ notified' = [t \in Task |-> IF t \in T THEN notified[t] + 1 ELSE notified[t]]

Outcome(t, state) == [op |-> "outcome", of |-> t, state |-> state]

SettleTask(t, state) ==
  /\ SetTasks({t}, state)
  /\ db_updates' = Append(db_updates, Outcome(t, state))

(* Mutant: the task stays flagged as being cancelled. *)
UntrackFlagged(t) ==
  /\ submitted_tasks' = submitted_tasks \ {t}
  /\ fail_reasons' = fail_reasons \ {t}
  /\ UNCHANGED cancelling
  /\ tasks_in_backend' =
       IF SessionTask(t) THEN tasks_in_backend
       ELSE [tasks_in_backend EXCEPT ![Owner[t]] = @ - 1]

(* Mutant: session tasks are under fair share too, but only when they leave. *)
UntrackSession(t) ==
  /\ submitted_tasks' = submitted_tasks \ {t}
  /\ fail_reasons' = fail_reasons \ {t}
  /\ cancelling' = cancelling \ {t}
  /\ tasks_in_backend' = [tasks_in_backend EXCEPT ![Owner[t]] = @ - 1]

Untrack(t) ==
  /\ submitted_tasks' = submitted_tasks \ {t}
  /\ fail_reasons' = fail_reasons \ {t}
  /\ cancelling' = cancelling \ {t}
  /\ tasks_in_backend' =
       IF SessionTask(t) THEN tasks_in_backend
       ELSE [tasks_in_backend EXCEPT ![Owner[t]] = @ - 1]

CloseRunningSession ==
  /\ RequestBackendCancel(submitted_tasks)
  /\ session_map' = [session_map EXCEPT ![running_session] = "closed"]
  /\ SetTasks(session_queue, "cancelled")
  /\ running_session' = NoSession
  /\ session_queue' = {}
  /\ db_updates' = Append(db_updates, [op |-> "closed", of |-> running_session,
                                       tasks |-> session_queue])
  /\ UNCHANGED <<backend_id, tasks_in_backend, queues, submitted_tasks,
                 fail_reasons, job, messages>>

CloseQueuedSession(s) ==
  /\ queues' = queues \ {s}
  /\ session_map' = [session_map EXCEPT ![s] = "closed"]
  /\ db_updates' = Append(db_updates, [op |-> "closed", of |-> s, tasks |-> {}])
  /\ UNCHANGED <<task_map, backend_id, tasks_in_backend, running_session,
                 session_queue, trackVars, backendVars, notified>>

(* Mutant: only the machine's queues are searched. *)
RemoveQueuedOutsideSession(t) ==
  queues' = queues \ {t} /\ UNCHANGED session_queue

RemoveQueued(t) ==
  queues' = queues \ {t} /\ session_queue' = session_queue \ {t}

(* A queued task, of the machine or of its session, gets a final state.    *)
SettleQueuedTask(t, state) ==
  /\ RemoveQueued(t)
  /\ SettleTask(t, state)
  /\ UNCHANGED <<backend_id, session_map, tasks_in_backend, running_session,
                 trackVars, backendVars>>

(* Mutant: the backend is not asked to cancel the job. *)
FailSubmittedTaskOnly(t) ==
  /\ Untrack(t)
  /\ SettleTask(t, "failed")
  /\ UNCHANGED <<backend_id, session_map, queueVars, backendVars>>

FailSubmittedTask(t) ==
  /\ Untrack(t)
  /\ cancel_sent' = IF t \in backend_id \ cancelling
                    THEN cancel_sent \cup {t} ELSE cancel_sent
  /\ SettleTask(t, "failed")
  /\ UNCHANGED <<backend_id, session_map, queueVars, job, messages>>

-----------------------------------------------------------------------------
(* Events of the launcher.  Each starts a section that holds the mutex.    *)

Select(next) == pc = "select" /\ pc' = next

Notified ==
  /\ Select("section")
  /\ notifier
  /\ notifier' = FALSE
  /\ UNCHANGED <<memVars, queueVars, requestVars, suspension, trackVars,
                 db_updates, shutting_down, outsideVars, notified>>

(* The server answers the requests in progress before it stops.            *)
Shutdown ==
  /\ Select("section")
  /\ shutdowns < MaxShutdowns
  /\ \A i \in Item : request[i] \in {"idle", "done"}
  /\ suspend_request = "idle"
  /\ shutdowns' = shutdowns + 1
  /\ shutting_down' = TRUE
  /\ UNCHANGED <<machineVars, trackVars, db_updates, serviceVars, dbVars,
                 backendVars, crashes, suspensions, notified>>

(* The session's deadline, or a periodic check that finds its project over *)
(* the limit.  All submitted tasks are being cancelled then, so the check  *)
(* of running tasks that follows finds none to fail.                       *)
SessionEnd ==
  /\ Select("section")
  /\ running_session # NoSession
  /\ CloseRunningSession
  /\ UNCHANGED <<requestVars, suspension, notifier, shutting_down,
                 serviceVars, dbVars, boundVars>>

(* The tasks of `over` exceed their time limit or their project's limit.   *)
PeriodicCheck(over) ==
  /\ Select("section")
  /\ running_session # NoSession \/ submitted_tasks # {}
  /\ over \subseteq (submitted_tasks \ cancelling) \cap May.exceed
  /\ fail_reasons' = fail_reasons \cup over
  /\ RequestBackendCancel(over)
  /\ UNCHANGED <<machineVars, submitted_tasks, db_updates, shutting_down,
                 serviceVars, dbVars, job, messages, boundVars, notified>>

Receive(t) == messages' = [messages EXCEPT ![t] = Tail(@)]

(* Mutant: a late confirmation is ignored. *)
IgnoreLateSubmission(t) == UNCHANGED <<backend_id, db_updates, cancel_sent>>

(* The task ended on our side, or is being cancelled.                      *)
LateSubmission(t) ==
  /\ cancel_sent' = cancel_sent \cup {t}
  /\ UNCHANGED <<backend_id, db_updates>>

TaskSubmitted(t) ==
  /\ Select("section")
  /\ messages[t] # <<>> /\ Head(messages[t]) = "submitted"
  /\ Receive(t)
  /\ IF t \in submitted_tasks \ cancelling
     THEN /\ backend_id' = backend_id \cup {t}
          /\ db_updates' = Append(db_updates, [op |-> "backend_id", of |-> t])
          /\ UNCHANGED cancel_sent
     ELSE LateSubmission(t)
  /\ UNCHANGED <<task_map, session_map, tasks_in_backend, queueVars,
                 requestVars, suspension, notifier, trackVars, shutting_down,
                 serviceVars, dbVars, job, boundVars, notified>>

IgnoreStateChange(t) ==
  /\ Select("section")
  /\ messages[t] # <<>> /\ Head(messages[t]) # "submitted"
  /\ t \notin submitted_tasks
  /\ Receive(t)
  /\ UNCHANGED <<machineVars, trackVars, db_updates, shutting_down,
                 serviceVars, dbVars, job, cancel_sent, boundVars, notified>>

(* The launcher goes on to the next event: no request is looked at.        *)
TaskRunning(t) ==
  /\ Select("select")
  /\ messages[t] # <<>> /\ Head(messages[t]) = "running"
  /\ t \in submitted_tasks
  /\ Receive(t)
  /\ task_map' = [task_map EXCEPT ![t] = "running"]
  /\ UNCHANGED <<backend_id, session_map, tasks_in_backend, queueVars,
                 requestVars, suspension, notifier, trackVars, db_updates,
                 shutting_down, serviceVars, dbVars, job, cancel_sent,
                 boundVars, notified>>

(* The cancellation of a task over a limit is recorded as its failure.     *)
RecordedState(t, state) ==
  IF state = "cancelled" /\ t \in fail_reasons THEN "failed" ELSE state

TaskEnded(t) ==
  /\ Select("section")
  /\ messages[t] # <<>> /\ Head(messages[t]) \in Final
  /\ t \in submitted_tasks
  /\ Receive(t)
  /\ Untrack(t)
  /\ SettleTask(t, RecordedState(t, Head(messages[t])))
  /\ UNCHANGED <<backend_id, session_map, queueVars, requestVars, suspension,
                 notifier, shutting_down, serviceVars, dbVars, job,
                 cancel_sent, boundVars>>

-----------------------------------------------------------------------------
(* The section that holds the mutex, after the event: session cancels,     *)
(* then task cancels, suspensions, and last new submissions.  The requests *)
(* cannot grow meanwhile, so each part goes on until none is left.         *)

InSection ==
  /\ pc = "section" /\ pc' = "section"
  /\ UNCHANGED <<suspension, notifier, shutting_down, serviceVars, dbVars,
                 boundVars>>

TakeSessionCancel(s) ==
  /\ s \in session_cancel_requests
  /\ session_cancel_requests' = session_cancel_requests \ {s}
  /\ UNCHANGED <<task_cancel_requests, suspend_cancel_requests>>

CancelRunningSession(s) ==
  /\ InSection
  /\ TakeSessionCancel(s)
  /\ running_session = s
  /\ CloseRunningSession

CancelQueuedSession(s) ==
  /\ InSection
  /\ TakeSessionCancel(s)
  /\ s \in queues
  /\ CloseQueuedSession(s)

DropSessionCancel(s) ==
  /\ InSection
  /\ TakeSessionCancel(s)
  /\ running_session # s /\ s \notin queues
  /\ UNCHANGED <<memVars, queueVars, trackVars, db_updates, backendVars,
                 notified>>

TakeTaskCancel(t) ==
  /\ session_cancel_requests = {}
  /\ t \in task_cancel_requests
  /\ task_cancel_requests' = task_cancel_requests \ {t}
  /\ UNCHANGED <<session_cancel_requests, suspend_cancel_requests>>

CancelSubmittedTask(t) ==
  /\ InSection
  /\ TakeTaskCancel(t)
  /\ t \in submitted_tasks
  /\ RequestBackendCancel({t})
  /\ UNCHANGED <<memVars, queueVars, submitted_tasks, fail_reasons,
                 db_updates, job, messages, notified>>

CancelQueuedTask(t) ==
  /\ InSection
  /\ TakeTaskCancel(t)
  /\ t \in (queues \cup session_queue) \ submitted_tasks
  /\ SettleQueuedTask(t, "cancelled")

DropTaskCancel(t) ==
  /\ InSection
  /\ TakeTaskCancel(t)
  /\ t \notin submitted_tasks \cup queues \cup session_queue
  /\ UNCHANGED <<memVars, queueVars, trackVars, db_updates, backendVars,
                 notified>>

(* The policies "waiting" and "all" fail the queued tasks, close the queued *)
(* sessions, then fail the tasks of the open session and close it; "all"    *)
(* fails the remaining submitted tasks as well.                             *)
Suspending ==
  /\ InSection
  /\ session_cancel_requests = {} /\ task_cancel_requests = {}
  /\ suspend_cancel_requests # {}

FailQueuedTask(t) ==
  /\ Suspending /\ UNCHANGED requestVars
  /\ t \in queues
  /\ SettleQueuedTask(t, "failed")

DropQueuedSession(s) ==
  /\ Suspending /\ UNCHANGED requestVars
  /\ queues \cap Task = {} /\ s \in queues
  /\ CloseQueuedSession(s)

FailSessionQueue(t) ==
  /\ Suspending /\ UNCHANGED requestVars
  /\ queues = {} /\ t \in session_queue
  /\ SettleQueuedTask(t, "failed")

FailSessionTask(t) ==
  /\ Suspending /\ UNCHANGED requestVars
  /\ queues = {} /\ session_queue = {}
  /\ running_session # NoSession
  /\ t \in submitted_tasks /\ Parent[t] = running_session
  /\ FailSubmittedTask(t)

CloseSuspendedSession ==
  /\ Suspending /\ UNCHANGED requestVars
  /\ queues = {} /\ session_queue = {}
  /\ running_session # NoSession
  /\ \A t \in submitted_tasks : Parent[t] # running_session
  /\ CloseRunningSession

FailSuspendedTask(t) ==
  /\ Suspending /\ UNCHANGED requestVars
  /\ queues = {} /\ running_session = NoSession
  /\ "all" \in suspend_cancel_requests
  /\ t \in submitted_tasks
  /\ FailSubmittedTask(t)

SuspensionApplied ==
  /\ Suspending
  /\ queues = {} /\ running_session = NoSession
  /\ "all" \in suspend_cancel_requests => submitted_tasks = {}
  /\ suspend_cancel_requests' = {}
  /\ UNCHANGED <<memVars, queueVars, task_cancel_requests,
                 session_cancel_requests, trackVars, db_updates, backendVars,
                 notified>>

(* pick_task: tasks of the open session, else any item first in its user's *)
(* queue.  A session opens only when nothing is handed to the backend; one *)
(* that is first and cannot open holds back the tasks behind it.           *)
NoRequests == session_cancel_requests \cup task_cancel_requests
                \cup suspend_cancel_requests = {}

HasRoom == Cardinality(submitted_tasks) < QueueSize

(* Mutant: a session opens beside submitted tasks. *)
AnyAssignments == TRUE

NoAssignments == submitted_tasks = {}

Dispatching ==
  /\ InSection /\ NoRequests
  /\ ~shutting_down
  /\ HasRoom
  /\ UNCHANGED requestVars

Picked(t) == t \in IF running_session = NoSession THEN queues ELSE session_queue

SubmitTask(t) ==
  /\ Dispatching
  /\ Picked(t)
  /\ RemoveQueued(t)
  /\ submitted_tasks' = submitted_tasks \cup {t}
  /\ tasks_in_backend' =
       IF SessionTask(t) THEN tasks_in_backend
       ELSE [tasks_in_backend EXCEPT ![Owner[t]] = @ + 1]
  /\ job' = [job EXCEPT ![t] = "submitting"]
  /\ UNCHANGED <<task_map, backend_id, session_map, running_session,
                 cancelling, fail_reasons, db_updates, cancel_sent, messages,
                 notified>>

FailOverLimit(t) ==
  /\ Dispatching
  /\ Picked(t) /\ ~SessionTask(t) /\ t \in May.exceed
  /\ SettleQueuedTask(t, "failed")

OpenSession(s) ==
  /\ Dispatching
  /\ running_session = NoSession /\ NoAssignments
  /\ s \in queues
  /\ queues' = queues \ {s}
  /\ running_session' = s
  /\ session_map' = [session_map EXCEPT ![s] = "open"]
  /\ db_updates' = Append(db_updates, [op |-> "opened", of |-> s])
  /\ UNCHANGED <<task_map, backend_id, tasks_in_backend, session_queue,
                 trackVars, backendVars, notified>>

(* Once its updates are written, the launcher waits for the next event. *)
NextIteration == IF shutting_down THEN "stopped" ELSE "select"

(* Mutant: the last updates are dropped. *)
AfterLastSection ==
  IF shutting_down THEN "stopped"
  ELSE IF db_updates = <<>> THEN "select" ELSE "flush"

AfterSection == IF db_updates = <<>> THEN NextIteration ELSE "flush"

SectionDone ==
  /\ pc = "section" /\ NoRequests
  /\ \/ shutting_down
     \/ ~HasRoom
     \/ running_session # NoSession /\ session_queue = {}
     \/ running_session = NoSession /\ queues = {}
     \/ /\ running_session = NoSession /\ ~NoAssignments
        /\ queues \cap Session # {}
  /\ pc' = AfterSection
  /\ UNCHANGED <<machineVars, trackVars, db_updates, shutting_down,
                 outsideVars, notified>>

-----------------------------------------------------------------------------
(* The launcher writes its updates one by one, without the mutex.          *)

Settle(T, state) ==
  db_task' = [t \in Task |-> IF t \in T THEN state ELSE db_task[t]]

WriteUpdate ==
  /\ pc = "flush" /\ db_updates # <<>>
  /\ db_updates' = Tail(db_updates)
  /\ pc' = IF db_updates' = <<>> THEN NextIteration ELSE "flush"
  /\ LET u == Head(db_updates) IN
       \/ /\ u.op = "backend_id"
          /\ db_backend_id' = db_backend_id \cup {u.of}
          /\ UNCHANGED <<db_task, db_session>>
       \/ /\ u.op = "outcome"
          /\ Settle({u.of}, u.state)
          /\ UNCHANGED <<db_backend_id, db_session>>
       \/ /\ u.op = "opened"
          /\ db_session' = [db_session EXCEPT ![u.of] = "open"]
          /\ UNCHANGED <<db_task, db_backend_id>>
       \/ /\ u.op = "closed"
          /\ db_session' = [db_session EXCEPT ![u.of] =
                              IF @ = "open" THEN "closed" ELSE "dropped"]
          /\ Settle(u.tasks, "cancelled")
          /\ UNCHANGED db_backend_id
  /\ UNCHANGED <<machineVars, trackVars, shutting_down, serviceVars,
                 db_suspension, backendVars, boundVars, notified>>

-----------------------------------------------------------------------------
(* The backend, as the launcher sees it through the Backend trait.         *)

Report(t, from, to, message) ==
  /\ Unlocked
  /\ job[t] \in from
  /\ job' = [job EXCEPT ![t] = to]
  /\ messages' = [messages EXCEPT ![t] = Append(@, message)]
  /\ UNCHANGED <<machineVars, launcherVars, serviceVars, dbVars, cancel_sent,
                 boundVars, notified>>

JobAccepted(t) == Report(t, {"submitting"}, "accepted", "submitted")

JobRejected(t) == Report(t, {"submitting"}, "ended", "failed")

JobRuns(t) ==
  /\ "running" \in JobReports
  /\ Report(t, {"accepted"}, "executing", "running")

JobEnds(t, outcome) ==
  /\ outcome \in JobReports
  /\ Report(t, {"accepted", "executing"}, "ended", outcome)

-----------------------------------------------------------------------------
(* Crash and restart.  Memory is lost, and the monitoring of jobs with it; *)
(* a job whose id was not recorded is never heard of again.                *)

Lost ==
  /\ task_map' = [t \in Task |-> "absent"]
  /\ backend_id' = {}
  /\ session_map' = [s \in Session |-> "absent"]
  /\ tasks_in_backend' = [u \in User |-> 0]
  /\ queues' = {} /\ running_session' = NoSession /\ session_queue' = {}
  /\ task_cancel_requests' = {}
  /\ session_cancel_requests' = {}
  /\ suspend_cancel_requests' = {}
  /\ suspension' = "off"
  /\ notifier' = FALSE
  /\ submitted_tasks' = {} /\ cancelling' = {} /\ fail_reasons' = {}
  /\ db_updates' = <<>>
  /\ shutting_down' = FALSE
  /\ request' = [i \in Item |->
                  IF request[i] = "idle" THEN "idle" ELSE "done"]
  /\ suspend_request' = "idle"
  /\ job' = [t \in Task |-> "none"]
  /\ cancel_sent' = {}
  /\ messages' = [t \in Task |-> <<>>]
  /\ notified' = [t \in Task |-> 0]
  /\ pc' = "down"
  /\ UNCHANGED <<dbVars, shutdowns, suspensions>>

Crash ==
  /\ Unlocked /\ pc \notin {"down", "stopped"}
  /\ crashes < MaxCrashes
  /\ crashes' = crashes + 1
  /\ Lost

Exit == pc = "stopped" /\ Lost /\ UNCHANGED crashes

(* Mutant: tasks of every state are loaded. *)
AnyRow(t) == db_task[t] # "absent"

LiveRow(t)  == db_task[t] = "waiting"
Resumed     == {t \in Task : LiveRow(t) /\ t \in db_backend_id}
(* Mutant: tasks of sessions that never reached the backend are left. *)
NoOrphan(t) == FALSE

Orphan(t)   == LiveRow(t) /\ t \notin db_backend_id /\ SessionTask(t)
HasLiveTask(s) == \E t \in Task : LiveRow(t) /\ Parent[t] = s

(* Mutant: recorded jobs are not told apart. *)
RequeuedTask(t) ==
  IF LiveRow(t) /\ ~SessionTask(t) THEN "waiting" ELSE "absent"

RestoredTask(t) ==
  IF t \in Resumed THEN "running"
  ELSE IF LiveRow(t) /\ ~SessionTask(t) THEN "waiting"
  ELSE "absent"

(* A closed session is loaded only for the sake of its live tasks.  Without *)
(* opened_at a session is queued again, whatever else its row says.         *)
RestoredSession(s) ==
  CASE db_session[s] = "queued"                     -> "queued"
    [] db_session[s] = "open"                       -> "closed"
    [] db_session[s] = "dropped" /\ HasLiveTask(s)  -> "queued"
    [] db_session[s] = "closed" /\ HasLiveTask(s)   -> "closed"
    [] OTHER                                        -> "absent"

Restore ==
  /\ pc = "down" /\ pc' = "restoring"
  /\ task_map' = [t \in Task |-> RestoredTask(t)]
  /\ backend_id' = Resumed
  /\ session_map' = [s \in Session |-> RestoredSession(s)]
  /\ queues' = {t \in Task : RestoredTask(t) = "waiting"}
          \cup {s \in Session : RestoredSession(s) = "queued"}
  /\ notifier' = (queues' # {})
  /\ suspension' = db_suspension
  /\ tasks_in_backend' = [u \in User |->
       Cardinality({t \in Resumed : ~SessionTask(t) /\ Owner[t] = u})]
  /\ UNCHANGED <<running_session, session_queue, requestVars, trackVars,
                 db_updates, shutting_down, outsideVars, notified>>

DeadSessions == {s \in Session : session_map[s] = "closed" /\ db_session[s] = "open"}

CloseDeadSession(s) ==
  /\ pc = "restoring"
  /\ s \in DeadSessions
  /\ db_session' = [db_session EXCEPT ![s] = "closed"]
  /\ UNCHANGED <<machineVars, launcherVars, serviceVars, db_task,
                 db_backend_id, db_suspension, backendVars, boundVars,
                 notified>>

CancelOrphans ==
  /\ pc = "restoring" /\ DeadSessions = {}
  /\ pc' = "starting"
  /\ Settle({t \in Task : Orphan(t)}, "cancelled")
  /\ UNCHANGED <<machineVars, trackVars, db_updates, shutting_down,
                 serviceVars, db_backend_id, db_session, db_suspension,
                 backendVars, boundVars, notified>>

(* The launcher attaches to the restored jobs, and cancels those of        *)
(* sessions, all of which are closed.                                      *)
StartLauncher ==
  LET ended == {t \in backend_id : SessionTask(t)} IN
  /\ pc = "starting" /\ pc' = "select"
  /\ submitted_tasks' = backend_id
  /\ cancelling' = ended
  /\ cancel_sent' = ended
  /\ job' = [t \in Task |-> IF t \in backend_id THEN "accepted" ELSE "none"]
  /\ UNCHANGED <<machineVars, fail_reasons, db_updates, shutting_down,
                 serviceVars, dbVars, messages, boundVars, notified>>

-----------------------------------------------------------------------------
Request ==
  \/ \E i \in Item : InsertRow(i) \/ RejectRequest(i) \/ DeleteRow(i)
  \/ \E t \in Task : AddTask(t) \/ CancelTask(t) \/ EvictTask(t)
  \/ \E s \in Session : AddSession(s) \/ CancelSession(s) \/ EvictSession(s)
  \/ \E p \in Policy : InsertSuspension(p)
  \/ SuspendMachine \/ EndSuspension \/ ResumeMachine

BackendMessage(t) == \/ TaskSubmitted(t) \/ IgnoreStateChange(t)
                     \/ TaskRunning(t) \/ TaskEnded(t)

Event ==
  \/ Notified \/ Shutdown \/ SessionEnd
  \/ \E over \in SUBSET Task : PeriodicCheck(over)
  \/ \E t \in Task : BackendMessage(t)

Section ==
  \/ \E s \in Session : CancelRunningSession(s) \/ CancelQueuedSession(s)
                          \/ DropSessionCancel(s) \/ DropQueuedSession(s)
                          \/ OpenSession(s)
  \/ \E t \in Task : CancelSubmittedTask(t) \/ CancelQueuedTask(t)
                       \/ DropTaskCancel(t) \/ FailQueuedTask(t)
                       \/ FailSessionQueue(t) \/ FailSessionTask(t)
                       \/ FailSuspendedTask(t) \/ SubmitTask(t) \/ FailOverLimit(t)
  \/ CloseSuspendedSession \/ SuspensionApplied \/ SectionDone

Backend ==
  \E t \in Task : \/ JobAccepted(t) \/ JobRejected(t) \/ JobRuns(t)
                  \/ \E outcome \in Final : JobEnds(t, outcome)

Restart ==
  \/ Crash \/ Exit \/ Restore \/ CancelOrphans \/ StartLauncher
  \/ \E s \in Session : CloseDeadSession(s)

Next == Request \/ Event \/ Section \/ WriteUpdate \/ Backend \/ Restart

Spec == Init /\ [][Next]_vars

-----------------------------------------------------------------------------
(* Safety *)

Up == pc \in {"select", "section", "flush", "stopped"}

Queued == queues \cup session_queue

(* An active task is in exactly one place: a queue of the machine, the queue *)
(* of the open session, or among the submitted tasks; a final one in none.   *)
(* A queued session is in a queue and the open one is the running one, so    *)
(* none is closed twice (SessionState::close would panic).  (queue_task,     *)
(* pick_task, remove_queued_task, take_queued_items, close_running_session   *)
(* and restore move items between these places.)                             *)
Placed ==
  Up => /\ \A t \in Task : task_map[t] \in Active <=> t \in Queued \cup submitted_tasks
        /\ queues \cap session_queue = {}
        /\ Queued \cap submitted_tasks = {}
        /\ \A s \in Session : /\ session_map[s] = "queued" <=> s \in queues
                              /\ session_map[s] = "open" <=> s = running_session

(* While a session is open the machine works for it alone, and what remains  *)
(* at the backend of a closed session is being cancelled                     *)
(* (pop_queue_item's allow_sessions, close_running_session, ResumeTask).     *)
SessionExclusive ==
  /\ running_session # NoSession =>
       \A t \in submitted_tasks \cup session_queue : Parent[t] = running_session
  /\ running_session = NoSession => session_queue = {}
  /\ \A t \in submitted_tasks : SessionTask(t) /\ Parent[t] # running_session
                                  => t \in cancelling

(* Fair share's count of a user's tasks at the backend is exact: it never    *)
(* underflows, whichever way a task leaves (record_finished_task_in_backend).*)
SlotCount ==
  Up => \A u \in User : tasks_in_backend[u] =
          Cardinality({t \in submitted_tasks : ~SessionTask(t) /\ Owner[t] = u})

(* The launcher never sleeps on work it could do: a request, or an item it   *)
(* could hand to the backend.  The queue may have been filled while it wrote *)
(* to the database.                                                          *)
CanDispatch ==
  /\ HasRoom
  /\ IF running_session # NoSession
     THEN session_queue # {}
     ELSE queues # {} /\ (NoAssignments \/ queues \subseteq Task)

NoLostWakeup ==
  pc = "select" /\ ~shutting_down /\ (~NoRequests \/ CanDispatch) => notifier

(* A job that may run is tracked, or has been asked to cancel, or will be    *)
(* when its submission is confirmed: fail_submitted_task stops tracking a    *)
(* task at once, also one that has no backend id yet.                        *)
UnconfirmedJob(t) ==
  job[t] = "submitting" \/ \E k \in DOMAIN messages[t] : messages[t][k] = "submitted"

JobsAccountedFor ==
  Up => \A t \in Task :
          job[t] \in {"submitting", "accepted", "executing"} =>
            t \in submitted_tasks \cup cancel_sent \/ UnconfirmedJob(t)

(* A task being cancelled is cancelled at the backend, once and for all,     *)
(* whenever its submission is confirmed.                                     *)
CancelReachesJob ==
  \A t \in cancelling : t \in cancel_sent \/ UnconfirmedJob(t) \/ job[t] = "ended"

(* The launcher finds in memory what accepted cancel requests name: neither  *)
(* eviction nor an earlier event may have removed it (get_task_mut and       *)
(* get_session_mut would panic with the core mutex held).                    *)
RequestsInMemory ==
  /\ \A t \in task_cancel_requests : task_map[t] # "absent"
  /\ \A s \in session_cancel_requests : session_map[s] # "absent"
  /\ \A t \in submitted_tasks : task_map[t] # "absent"

OutcomePending(t) ==
  \E k \in DOMAIN db_updates :
    LET u == db_updates[k] IN
      \/ u.op = "outcome" /\ u.of = t
      \/ u.op = "closed" /\ t \in u.tasks

(* A row without a final state belongs to a task in memory, to a submission  *)
(* in progress, or to an outcome about to be written; an active task has     *)
(* such a row.  ("Every non-terminal task is in memory", reactor.rs.)        *)
RowsAgree ==
  Up => \A t \in Task :
          /\ task_map[t] \in Active => LiveRow(t)
          /\ LiveRow(t) => \/ task_map[t] \in Active
                           \/ request[t] \in {"inserted", "rejected"}
                           \/ OutcomePending(t)

(* An end is reported once in a life of the service, and only while the row  *)
(* shows none: so a later life repeats nothing that was recorded.  What a    *)
(* life reported is recorded when it exits, so a later life repeats an end   *)
(* only if a crash came before the end was recorded.                         *)
ReportedOnce ==
  [][\A t \in Task :
       /\ notified'[t] > notified[t] =>
            notified[t] = 0 /\ notified'[t] = 1 /\ LiveRow(t)
       /\ task_map'[t] \in Final => notified'[t] = 1
       /\ Exit /\ notified[t] > 0 => ~LiveRow(t)]_vars

(* A task whose job was recorded is never handed to the backend again.       *)
RecordedJobIsNotRepeated ==
  [][\A t \in Task : job'[t] = "submitting" /\ job[t] # "submitting"
                       => t \notin db_backend_id]_vars

(* Once the launcher has applied a suspension's policy, nothing it covers    *)
(* remains: no queued work, and with "all" nothing at the backend.           *)
SuspensionIsApplied ==
  pc = "select" /\ suspension \in {"waiting", "all"} /\ suspend_cancel_requests = {} =>
    /\ Queued = {} /\ running_session = NoSession
    /\ suspension = "all" => submitted_tasks = {}

(* Three statements of the sources and documents that the code departs from. *)

(* "Cancel requests already accepted are still applied" (reactor.rs,         *)
(* shutdown): at the exit each task outside a session that is being          *)
(* cancelled has been cancelled at the backend.                              *)
CancelsAreAppliedAtShutdown ==
  pc = "stopped" =>
    \A t \in cancelling : SessionTask(t) \/ job[t] = "ended" \/ t \in cancel_sent

(* "Never opened (and therefore has no tasks yet): re-queue it" (core.rs,    *)
(* restore).                                                                 *)
NeverOpenedHasNoTask ==
  pc = "restoring" =>
    \A s \in Session : session_map[s] = "queued" => ~HasLiveTask(s)

(* An event is sent "for a task once it reaches a terminal state"            *)
(* (api_description.md): no task ends in the database without one.           *)
EveryEndIsNotified ==
  [][\A t \in Task : LiveRow(t) /\ db_task'[t] \in Final => notified[t] >= 1]_vars

(* What the rows and memory show of the outcomes of tasks (TaskOutcome.tla). *)
DurableOutcome == [t \in Task |-> IF db_task[t] \in Final THEN db_task[t] ELSE "none"]
ReportedOutcome ==
  [t \in Task |-> IF task_map[t] \in Final THEN task_map[t] ELSE DurableOutcome[t]]

Abstract == INSTANCE TaskOutcome WITH reported <- ReportedOutcome,
                                      durable <- DurableOutcome
ImplementsTaskOutcome == Abstract!Spec

-----------------------------------------------------------------------------
(* Liveness *)

(* select! picks at random among the events that are ready, so one that is  *)
(* ready again and again is taken.  That the backend answers submissions    *)
(* and ends the jobs it was asked to cancel is an assumption about it: the  *)
(* requests that submit have no timeout.  It never stops doing so, but only *)
(* outside of sections here, hence strong fairness.                         *)
Fairness ==
  /\ WF_vars(Section) /\ WF_vars(WriteUpdate)
  /\ SF_vars(Notified) /\ SF_vars(SessionEnd)
  /\ SF_vars(\E t \in Task : BackendMessage(t))
  /\ SF_vars(\E t \in Task : JobAccepted(t) \/ JobRejected(t))
  /\ SF_vars(\E t \in cancel_sent, outcome \in Final : JobEnds(t, outcome))

FairSpec == Spec /\ Fairness

(* An accepted cancel takes effect: the task reaches a final state, whether *)
(* it was queued, being submitted, running or already ending.               *)
CancelTakesEffect ==
  \A t \in Task : t \in task_cancel_requests ~> task_map[t] \notin Active

(* An accepted cancel of a session closes it, and all its tasks end. *)
SessionCancelTakesEffect ==
  \A s \in Session : s \in session_cancel_requests ~>
    /\ session_map[s] \notin {"queued", "open"}
    /\ \A t \in Task : Parent[t] = s => task_map[t] \notin Active

(* A session that opened gives the machine back: it is closed and nothing   *)
(* of it is left at the backend.                                            *)
SessionReleasesMachine ==
  \A s \in Session : running_session = s ~>
    /\ running_session # s
    /\ \A t \in submitted_tasks : Parent[t] # s

=============================================================================
