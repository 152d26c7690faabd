--------------------------- MODULE LauncherProofs ---------------------------
(* Theorems about one machine of the runner, for every number of tasks,     *)
(* sessions and users, every queue size and every bound: its types, wakeups *)
(* and sessions, where its items are, fair share's counts, and what the     *)
(* requests of the service find in memory.                                  *)
EXTENDS Launcher, FiniteSetTheorems, TLAPS

USE DEF machineVars, launcherVars, outsideVars, memVars, queueVars,
        requestVars, trackVars, serviceVars, dbVars, backendVars, boundVars

-----------------------------------------------------------------------------
(* Type correctness.  StartLauncher keeps the types only because a launcher *)
(* that has not started tracks nothing.                                     *)

NotStarted ==
  pc \in {"down", "restoring", "starting"} =>
    /\ submitted_tasks = {} /\ cancelling = {} /\ fail_reasons = {}
    /\ running_session = NoSession /\ session_queue = {}

(* The updates the launcher makes are updates.                              *)
LEMMA UpdateTypes ==
  /\ \A t \in Task, state \in Final : Outcome(t, state) \in DbUpdate
  /\ \A t \in Task : [op |-> "backend_id", of |-> t] \in DbUpdate
  /\ \A s \in Session : [op |-> "opened", of |-> s] \in DbUpdate
  /\ \A s \in Session, T \in SUBSET Task :
       [op |-> "closed", of |-> s, tasks |-> T] \in DbUpdate
  BY DEF Outcome, DbUpdate

LEMMA AppendType ==
  ASSUME NEW S, NEW q \in Seq(S), NEW e \in S
  PROVE  Append(q, e) \in Seq(S)
  OBVIOUS

LEMMA ReceiveType ==
  ASSUME TypeOK, NEW t \in Task, messages[t] # <<>>, Receive(t)
  PROVE  messages' \in [Task -> Seq(Message)] /\ Head(messages[t]) \in Message
  BY DEF TypeOK, Receive

(* A final state given to tasks keeps the types of task_map and notified.   *)
LEMMA SetTasksType ==
  ASSUME TypeOK, NEW T \in SUBSET Task, NEW state \in Final, SetTasks(T, state)
  PROVE  task_map' \in [Task -> MemState] /\ notified' \in [Task -> Nat]
  BY DEF SetTasks, TypeOK, MemState

LEMMA SettleType ==
  ASSUME TypeOK, NEW t \in Task, NEW state \in Final, SettleTask(t, state)
  PROVE  /\ task_map' \in [Task -> MemState] /\ notified' \in [Task -> Nat]
         /\ db_updates' \in Seq(DbUpdate)
  <1>1. db_updates' \in Seq(DbUpdate)
    BY UpdateTypes, AppendType DEF SettleTask, TypeOK
  <1>. QED  BY <1>1, SetTasksType DEF SettleTask

LEMMA CloseRunningType ==
  ASSUME TypeOK, running_session # NoSession, CloseRunningSession
  PROVE  /\ task_map' \in [Task -> MemState] /\ notified' \in [Task -> Nat]
         /\ db_updates' \in Seq(DbUpdate)
         /\ session_map' \in [Session -> SessionState]
         /\ running_session' \in Session \cup {NoSession}
         /\ session_queue' \subseteq Task
         /\ cancelling' \subseteq submitted_tasks' /\ cancel_sent' \subseteq Task
  <1>1. running_session \in Session /\ session_queue \in SUBSET Task
    BY DEF TypeOK
  <1>2. db_updates' \in Seq(DbUpdate)
    BY <1>1, UpdateTypes, AppendType DEF CloseRunningSession, TypeOK
  <1>3. task_map' \in [Task -> MemState] /\ notified' \in [Task -> Nat]
    BY <1>1, SetTasksType DEF CloseRunningSession, Final
  <1>. QED
    BY <1>2, <1>3 DEF CloseRunningSession, RequestBackendCancel, TypeOK, SessionState

LEMMA CloseQueuedType ==
  ASSUME TypeOK, NEW s \in Session, CloseQueuedSession(s)
  PROVE  /\ db_updates' \in Seq(DbUpdate)
         /\ session_map' \in [Session -> SessionState]
         /\ queues' \subseteq Item
  <1>1. db_updates' \in Seq(DbUpdate)
    BY UpdateTypes, AppendType DEF CloseQueuedSession, TypeOK
  <1>. QED  BY <1>1 DEF CloseQueuedSession, TypeOK, SessionState

LEMMA TypeInit == Init => TypeOK
  <1>. SUFFICES ASSUME Init PROVE TypeOK
    OBVIOUS
  <1>1. db_updates \in Seq(DbUpdate) /\ messages \in [Task -> Seq(Message)]
    BY DEF Init
  <1>2. /\ task_map \in [Task -> MemState] /\ session_map \in [Session -> SessionState]
        /\ tasks_in_backend \in [User -> Int]
    BY DEF Init, MemState, SessionState
  <1>3. /\ db_task \in [Task -> DbTaskState] /\ db_session \in [Session -> DbSessionState]
        /\ request \in [Item -> RequestStep]
    BY DEF Init, DbTaskState, DbSessionState, SessionState, RequestStep
  <1>4. job \in [Task -> JobState] /\ notified \in [Task -> Nat]
    BY DEF Init, JobState
  <1>. QED
    BY <1>1, <1>2, <1>3, <1>4 DEF Init, TypeOK, Pc

LEMMA TypeRequest ==
  ASSUME TypeOK, Request PROVE TypeOK'
  <1>. USE DEF TypeOK, Item
  <1>1. ASSUME NEW i \in Item, InsertRow(i) PROVE TypeOK'
    BY <1>1 DEF InsertRow, RequestStep, DbTaskState, DbSessionState, SessionState
  <1>2. ASSUME NEW i \in Item, RejectRequest(i) PROVE TypeOK'
    BY <1>2 DEF RejectRequest, RequestStep
  <1>3. ASSUME NEW i \in Item, DeleteRow(i) PROVE TypeOK'
    BY <1>3 DEF DeleteRow, RequestStep, DbTaskState, DbSessionState, SessionState
  <1>4. ASSUME NEW t \in Task, AddTask(t) PROVE TypeOK'
    BY <1>4 DEF AddTask, WakeLauncher, MemState, Active, RequestStep
  <1>5. ASSUME NEW t \in Task, CancelTask(t) PROVE TypeOK'
    BY <1>5 DEF CancelTask, WakeLauncher
  <1>6. ASSUME NEW t \in Task, EvictTask(t) PROVE TypeOK'
    BY <1>6 DEF EvictTask, MemState
  <1>7. ASSUME NEW s \in Session, AddSession(s) PROVE TypeOK'
    BY <1>7 DEF AddSession, WakeLauncher, SessionState, RequestStep
  <1>8. ASSUME NEW s \in Session, CancelSession(s) PROVE TypeOK'
    BY <1>8 DEF CancelSession, WakeLauncher
  <1>9. ASSUME NEW s \in Session, EvictSession(s) PROVE TypeOK'
    BY <1>9 DEF EvictSession, SessionState
  <1>10. ASSUME NEW p \in Policy, InsertSuspension(p) PROVE TypeOK'
    BY <1>10 DEF InsertSuspension
  <1>11. CASE SuspendMachine
    BY <1>11 DEF SuspendMachine, WakeLauncher
  <1>12. CASE EndSuspension
    BY <1>12 DEF EndSuspension
  <1>13. CASE ResumeMachine
    BY <1>13 DEF ResumeMachine
  <1>. QED
    BY <1>1, <1>2, <1>3, <1>4, <1>5, <1>6, <1>7, <1>8, <1>9, <1>10, <1>11,
       <1>12, <1>13 DEF Request

LEMMA TypeEvent ==
  ASSUME TypeOK, Event PROVE TypeOK'
  <1>. USE DEF Select, Pc
  <1>1. CASE Notified
    BY <1>1 DEF Notified, TypeOK
  <1>2. CASE Shutdown
    BY <1>2, BoundsAssumption DEF Shutdown, TypeOK
  <1>3. CASE SessionEnd
    <2>1. running_session # NoSession /\ CloseRunningSession
      BY <1>3 DEF SessionEnd
    <2>. QED
      BY <1>3, <2>1, CloseRunningType DEF SessionEnd, CloseRunningSession, TypeOK
  <1>4. ASSUME NEW over \in SUBSET Task, PeriodicCheck(over) PROVE TypeOK'
    BY <1>4 DEF PeriodicCheck, RequestBackendCancel, TypeOK
  <1>5. ASSUME NEW t \in Task, TaskSubmitted(t) PROVE TypeOK'
    <2>1. messages' \in [Task -> Seq(Message)]
      BY <1>5, ReceiveType DEF TaskSubmitted
    <2>2. [op |-> "backend_id", of |-> t] \in DbUpdate
      BY UpdateTypes
    <2>3. db_updates' \in Seq(DbUpdate)
      <3>1. db_updates \in Seq(DbUpdate)
        BY DEF TypeOK
      <3>2. \/ db_updates' = db_updates
            \/ db_updates' = Append(db_updates, [op |-> "backend_id", of |-> t])
        BY <1>5 DEF TaskSubmitted, LateSubmission
      <3>. QED  BY <2>2, <3>1, <3>2, AppendType
    <2>4. backend_id' \subseteq Task /\ cancel_sent' \subseteq Task
      BY <1>5 DEF TaskSubmitted, LateSubmission, TypeOK
    <2>. QED
      BY <1>5, <2>1, <2>3, <2>4 DEF TaskSubmitted, TypeOK
  <1>6. ASSUME NEW t \in Task, IgnoreStateChange(t) PROVE TypeOK'
    <2>1. messages' \in [Task -> Seq(Message)]
      BY <1>6, ReceiveType DEF IgnoreStateChange
    <2>. QED  BY <1>6, <2>1 DEF IgnoreStateChange, TypeOK
  <1>7. ASSUME NEW t \in Task, TaskRunning(t) PROVE TypeOK'
    <2>1. messages' \in [Task -> Seq(Message)]
      BY <1>7, ReceiveType DEF TaskRunning
    <2>. QED  BY <1>7, <2>1 DEF TaskRunning, TypeOK, MemState, Active
  <1>8. ASSUME NEW t \in Task, TaskEnded(t) PROVE TypeOK'
    <2>1. messages' \in [Task -> Seq(Message)]
      BY <1>8, ReceiveType DEF TaskEnded
    <2>2. RecordedState(t, Head(messages[t])) \in Final
      BY <1>8 DEF TaskEnded, RecordedState, Final
    <2>3. /\ task_map' \in [Task -> MemState] /\ notified' \in [Task -> Nat]
          /\ db_updates' \in Seq(DbUpdate)
      BY <1>8, <2>2, SettleType DEF TaskEnded
    <2>. QED
      BY <1>8, <2>1, <2>3, OwnerAssumption DEF TaskEnded, Untrack, TypeOK
  <1>. QED
    BY <1>1, <1>2, <1>3, <1>4, <1>5, <1>6, <1>7, <1>8 DEF Event, BackendMessage

LEMMA TypeSection ==
  ASSUME TypeOK, Section PROVE TypeOK'
  <1>. USE DEF InSection, Suspending, Dispatching
  <1>1. ASSUME NEW s \in Session, CancelRunningSession(s) PROVE TypeOK'
    <2>1. running_session # NoSession /\ CloseRunningSession
      BY <1>1, NamesAssumption DEF CancelRunningSession
    <2>. QED
      BY <1>1, <2>1, CloseRunningType
         DEF CancelRunningSession, TakeSessionCancel, CloseRunningSession, TypeOK
  <1>2. ASSUME NEW s \in Session, CancelQueuedSession(s) PROVE TypeOK'
    BY <1>2, CloseQueuedType
       DEF CancelQueuedSession, TakeSessionCancel, CloseQueuedSession, TypeOK
  <1>3. ASSUME NEW s \in Session, DropSessionCancel(s) PROVE TypeOK'
    BY <1>3 DEF DropSessionCancel, TakeSessionCancel, TypeOK
  <1>4. ASSUME NEW s \in Session, DropQueuedSession(s) PROVE TypeOK'
    BY <1>4, CloseQueuedType DEF DropQueuedSession, CloseQueuedSession, TypeOK
  <1>5. ASSUME NEW s \in Session, OpenSession(s) PROVE TypeOK'
    <2>1. [op |-> "opened", of |-> s] \in DbUpdate
      BY UpdateTypes
    <2>2. db_updates' \in Seq(DbUpdate)
      BY <1>5, <2>1, AppendType DEF OpenSession, TypeOK
    <2>. QED  BY <1>5, <2>2 DEF OpenSession, TypeOK, SessionState
  <1>6. ASSUME NEW t \in Task, CancelSubmittedTask(t) PROVE TypeOK'
    BY <1>6 DEF CancelSubmittedTask, TakeTaskCancel, RequestBackendCancel, TypeOK
  <1>7. ASSUME NEW t \in Task, NEW state \in Final, SettleQueuedTask(t, state),
               UNCHANGED <<suspension, notifier, shutting_down, serviceVars,
                           dbVars, boundVars, pc, session_cancel_requests,
                           suspend_cancel_requests>>,
               task_cancel_requests' \subseteq task_cancel_requests
        PROVE  TypeOK'
    <2>1. /\ task_map' \in [Task -> MemState] /\ notified' \in [Task -> Nat]
          /\ db_updates' \in Seq(DbUpdate)
      BY <1>7, SettleType DEF SettleQueuedTask
    <2>2. queues' \subseteq queues /\ session_queue' \subseteq session_queue
      BY <1>7 DEF SettleQueuedTask, RemoveQueued
    <2>. QED  BY <1>7, <2>1, <2>2 DEF SettleQueuedTask, TypeOK
  <1>8. ASSUME NEW t \in Task, CancelQueuedTask(t) PROVE TypeOK'
    BY <1>7, <1>8 DEF CancelQueuedTask, TakeTaskCancel, Final
  <1>9. ASSUME NEW t \in Task, DropTaskCancel(t) PROVE TypeOK'
    BY <1>9 DEF DropTaskCancel, TakeTaskCancel, TypeOK
  <1>10. ASSUME NEW t \in Task, FailQueuedTask(t) \/ FailSessionQueue(t)
                                  \/ FailOverLimit(t)
         PROVE  TypeOK'
    BY <1>7, <1>10 DEF FailQueuedTask, FailSessionQueue, FailOverLimit, Final
  <1>11. ASSUME NEW t \in Task, FailSessionTask(t) \/ FailSuspendedTask(t)
         PROVE  TypeOK'
    <2>1. /\ Untrack(t) /\ SettleTask(t, "failed")
          /\ cancel_sent' \subseteq cancel_sent \cup {t}
          /\ UNCHANGED <<backend_id, session_map, queueVars, requestVars, job,
                         messages, suspension, notifier, shutting_down, pc,
                         serviceVars, dbVars, boundVars>>
      BY <1>11 DEF FailSessionTask, FailSuspendedTask, FailSubmittedTask
    <2>2. /\ task_map' \in [Task -> MemState] /\ notified' \in [Task -> Nat]
          /\ db_updates' \in Seq(DbUpdate)
      BY <2>1, SettleType DEF Final
    <2>. QED  BY <2>1, <2>2, OwnerAssumption DEF Untrack, TypeOK
  <1>12. ASSUME NEW t \in Task, SubmitTask(t) PROVE TypeOK'
    <2>1. tasks_in_backend' \in [User -> Int]
      <3>1. tasks_in_backend \in [User -> Int] /\ Owner[t] \in User
        BY OwnerAssumption DEF TypeOK
      <3>2. \/ tasks_in_backend' = tasks_in_backend
            \/ tasks_in_backend' = [tasks_in_backend EXCEPT ![Owner[t]] = @ + 1]
        BY <1>12 DEF SubmitTask
      <3>. QED  BY <3>1, <3>2
    <2>2. job' \in [Task -> JobState]
      BY <1>12 DEF SubmitTask, TypeOK, JobState
    <2>. QED  BY <1>12, <2>1, <2>2 DEF SubmitTask, RemoveQueued, TypeOK
  <1>13. CASE CloseSuspendedSession
    <2>1. running_session # NoSession /\ CloseRunningSession
      BY <1>13 DEF CloseSuspendedSession
    <2>. QED
      BY <1>13, <2>1, CloseRunningType
         DEF CloseSuspendedSession, CloseRunningSession, TypeOK
  <1>14. CASE SuspensionApplied
    BY <1>14 DEF SuspensionApplied, TypeOK
  <1>15. CASE SectionDone
    BY <1>15 DEF SectionDone, AfterSection, NextIteration, TypeOK, Pc
  <1>. QED
    BY <1>1, <1>2, <1>3, <1>4, <1>5, <1>6, <1>8, <1>9, <1>10, <1>11, <1>12,
       <1>13, <1>14, <1>15 DEF Section

LEMMA TypeWrite ==
  ASSUME TypeOK, WriteUpdate PROVE TypeOK'
  <1>. DEFINE u == Head(db_updates)
  <1>1. u \in DbUpdate /\ db_updates' \in Seq(DbUpdate)
    BY DEF WriteUpdate, TypeOK
  <1>2. pc' \in Pc
    BY DEF WriteUpdate, NextIteration, Pc
  <1>3. /\ u.op = "backend_id" => u.of \in Task
        /\ u.op = "outcome" => u.of \in Task /\ u.state \in Final
        /\ u.op = "opened" => u.of \in Session
        /\ u.op = "closed" => u.of \in Session /\ u.tasks \subseteq Task
    BY <1>1 DEF DbUpdate
  <1>4. db_backend_id' \subseteq Task
    BY <1>3 DEF WriteUpdate, TypeOK
  <1>5. \A T \in SUBSET Task, state \in Final :
          Settle(T, state) => db_task' \in [Task -> DbTaskState]
    BY DEF Settle, TypeOK, DbTaskState
  <1>6. db_task' \in [Task -> DbTaskState]
    <2>1. db_task \in [Task -> DbTaskState] /\ "cancelled" \in Final
      BY DEF TypeOK, Final
    <2>2. \/ db_task' = db_task
          \/ u.op = "outcome" /\ Settle({u.of}, u.state)
          \/ u.op = "closed" /\ Settle(u.tasks, "cancelled")
      BY DEF WriteUpdate
    <2>. QED  BY <1>3, <1>5, <2>1, <2>2
  <1>7. db_session' \in [Session -> DbSessionState]
    BY <1>3 DEF WriteUpdate, TypeOK, DbSessionState, SessionState
  <1>. QED  BY <1>1, <1>2, <1>4, <1>6, <1>7 DEF WriteUpdate, TypeOK

LEMMA TypeBackend ==
  ASSUME TypeOK, Backend PROVE TypeOK'
  <1>1. ASSUME NEW t \in Task, NEW from, NEW to \in JobState,
               NEW message \in Message, Report(t, from, to, message)
        PROVE  TypeOK'
    <2>1. messages[t] \in Seq(Message)
      BY DEF TypeOK
    <2>2. Append(messages[t], message) \in Seq(Message)
      BY <2>1, AppendType
    <2>3. messages' \in [Task -> Seq(Message)] /\ job' \in [Task -> JobState]
      BY <1>1, <2>2 DEF Report, TypeOK
    <2>. QED  BY <1>1, <2>3 DEF Report, TypeOK
  <1>. QED
    BY <1>1 DEF Backend, JobAccepted, JobRejected, JobRuns, JobEnds, JobState,
                Message, Final

LEMMA TypeRestart ==
  ASSUME TypeOK, NotStarted, Restart PROVE TypeOK'
  <1>1. ASSUME Lost, crashes' \in Nat PROVE TypeOK'
    <2>1. db_updates' \in Seq(DbUpdate) /\ messages' \in [Task -> Seq(Message)]
      BY <1>1 DEF Lost
    <2>2. request' \in [Item -> RequestStep]
      BY <1>1 DEF Lost, RequestStep
    <2>3. /\ task_map' \in [Task -> MemState] /\ session_map' \in [Session -> SessionState]
          /\ tasks_in_backend' \in [User -> Int] /\ job' \in [Task -> JobState]
      BY <1>1 DEF Lost, MemState, SessionState, JobState
    <2>. QED
      BY <1>1, <2>1, <2>2, <2>3 DEF Lost, TypeOK, Pc
  <1>2. CASE Crash
    BY <1>1, <1>2 DEF Crash, TypeOK
  <1>3. CASE Exit
    BY <1>1, <1>3 DEF Exit, TypeOK
  <1>4. CASE Restore
    <2>1. \A t \in Task : RestoredTask(t) \in MemState
      BY DEF RestoredTask, MemState, Active
    <2>2. \A s \in Session : RestoredSession(s) \in SessionState
      BY DEF RestoredSession, SessionState
    <2>3. \A u \in User :
            Cardinality({t \in Resumed : ~SessionTask(t) /\ Owner[t] = u}) \in Int
      BY TaskAssumption, FS_Subset, FS_CardinalityType DEF Resumed
    <2>4. /\ task_map' \in [Task -> MemState] /\ session_map' \in [Session -> SessionState]
          /\ tasks_in_backend' \in [User -> Int]
      BY <1>4, <2>1, <2>2, <2>3 DEF Restore
    <2>5. queues' \subseteq Item /\ backend_id' \subseteq Task /\ notifier' \in BOOLEAN
      BY <1>4 DEF Restore, Resumed, Item
    <2>. QED  BY <1>4, <2>4, <2>5 DEF Restore, TypeOK, Pc
  <1>5. CASE CancelOrphans
    BY <1>5 DEF CancelOrphans, Settle, TypeOK, DbTaskState, Final, Pc
  <1>6. CASE StartLauncher
    <2>1. job' \in [Task -> JobState]
      BY <1>6 DEF StartLauncher, JobState
    <2>2. submitted_tasks' \subseteq Task /\ cancelling' \subseteq submitted_tasks'
      BY <1>6 DEF StartLauncher, TypeOK
    <2>3. fail_reasons' \subseteq submitted_tasks'
      BY <1>6 DEF StartLauncher, NotStarted
    <2>. QED  BY <1>6, <2>1, <2>2, <2>3 DEF StartLauncher, TypeOK, Pc
  <1>7. ASSUME NEW s \in Session, CloseDeadSession(s) PROVE TypeOK'
    BY <1>7 DEF CloseDeadSession, TypeOK, DbSessionState, SessionState
  <1>. QED  BY <1>2, <1>3, <1>4, <1>5, <1>6, <1>7 DEF Restart

LEMMA NotStartedStep ==
  ASSUME NotStarted, [Next]_vars PROVE NotStarted'
  <1>. USE DEF NotStarted
  <1>1. CASE Request
    <2>1. Serving /\ pc' = pc
      BY <1>1 DEF Request, InsertRow, RejectRequest, DeleteRow, AddTask, CancelTask,
                  EvictTask, AddSession, CancelSession, EvictSession, InsertSuspension,
                  SuspendMachine, EndSuspension, ResumeMachine
    <2>. QED  BY <2>1 DEF Serving
  <1>2. CASE Event
    <2>1. pc' \in {"section", "select"}
      BY <1>2 DEF Event, BackendMessage, Notified, Shutdown, SessionEnd, PeriodicCheck,
                  TaskSubmitted, IgnoreStateChange, TaskRunning, TaskEnded, Select
    <2>. QED  BY <2>1
  <1>3. CASE Section
    <2>1. pc' = "section" \/ pc' = AfterSection
      BY <1>3 DEF Section, CancelRunningSession, CancelQueuedSession,
                  DropSessionCancel, DropQueuedSession, OpenSession,
                  CancelSubmittedTask, CancelQueuedTask, DropTaskCancel,
                  FailQueuedTask, FailSessionQueue, FailSessionTask,
                  FailSuspendedTask, SubmitTask, FailOverLimit,
                  CloseSuspendedSession, SuspensionApplied, SectionDone,
                  InSection, Suspending, Dispatching
    <2>. QED  BY <2>1 DEF AfterSection, NextIteration
  <1>4. CASE WriteUpdate
    <2>1. pc' = NextIteration \/ pc' = "flush"
      BY <1>4 DEF WriteUpdate
    <2>. QED  BY <2>1 DEF NextIteration
  <1>5. CASE Backend
    BY <1>5 DEF Backend, JobAccepted, JobRejected, JobRuns, JobEnds, Report
  <1>6. CASE Restart
    BY <1>6 DEF Restart, Crash, Exit, Lost, Restore, CloseDeadSession, CancelOrphans,
                StartLauncher
  <1>7. CASE UNCHANGED vars
    BY <1>7 DEF vars
  <1>. QED
    BY <1>1, <1>2, <1>3, <1>4, <1>5, <1>6, <1>7 DEF Next

LEMMA TypeStep ==
  ASSUME TypeOK, NotStarted, [Next]_vars PROVE TypeOK'
  <1>1. CASE UNCHANGED vars
    BY <1>1 DEF vars, TypeOK
  <1>. QED
    BY <1>1, TypeRequest, TypeEvent, TypeSection, TypeWrite, TypeBackend,
       TypeRestart DEF Next

(* Every variable keeps its type, whatever the tasks, sessions, users and   *)
(* bounds are.                                                              *)
THEOREM TypeCorrect == Spec => []TypeOK
  <1>1. Init => TypeOK /\ NotStarted
    BY TypeInit DEF Init, NotStarted
  <1>2. TypeOK /\ NotStarted /\ [Next]_vars => (TypeOK /\ NotStarted)'
    BY TypeStep, NotStartedStep
  <1>. QED  BY <1>1, <1>2, PTL DEF Spec

-----------------------------------------------------------------------------
(* Sessions have the machine for themselves. *)

(* Tasks of sessions are never in the machine's queues.                     *)
QueuesAreForTheProject == \A t \in queues \cap Task : ~SessionTask(t)

Exclusive == SessionExclusive /\ QueuesAreForTheProject

(* Steps that open no session and give the launcher nothing new, which is   *)
(* most of them, cannot mix sessions.                                       *)
LEMMA NothingNew ==
  ASSUME Exclusive,
         running_session' = running_session,
         session_queue' \subseteq session_queue,
         queues' \cap Task \subseteq queues,
         submitted_tasks' \subseteq submitted_tasks,
         submitted_tasks' \cap cancelling \subseteq cancelling'
  PROVE  Exclusive'
  BY DEF Exclusive, SessionExclusive, QueuesAreForTheProject, SessionTask

(* A session is closed with everything it has at the backend cancelled.     *)
LEMMA ClosingIsExclusive ==
  ASSUME Exclusive, CloseRunningSession PROVE Exclusive'
  BY DEF CloseRunningSession, RequestBackendCancel, Exclusive, SessionExclusive,
         QueuesAreForTheProject, SessionTask

LEMMA ExclusiveRequest ==
  ASSUME TypeOK, Exclusive, Request PROVE Exclusive'
  <1>1. ASSUME NEW t \in Task, AddTask(t) PROVE Exclusive'
    <2>1. CASE SessionTask(t)
      <3>1. running_session = Parent[t] /\ running_session # NoSession
        BY <1>1, <2>1, ParentAssumption, NamesAssumption
           DEF AddTask, Accepts, SessionTask
      <3>. QED
        BY <1>1, <2>1, <3>1 DEF AddTask, Exclusive, SessionExclusive,
           QueuesAreForTheProject, SessionTask
    <2>2. CASE ~SessionTask(t)
      BY <1>1, <2>2 DEF AddTask, Exclusive, SessionExclusive,
         QueuesAreForTheProject, SessionTask
    <2>. QED  BY <2>1, <2>2
  <1>2. ASSUME NEW s \in Session, AddSession(s) PROVE Exclusive'
    BY <1>2, NothingNew, NamesAssumption DEF AddSession
  <1>3. ASSUME UNCHANGED <<queueVars, trackVars>> PROVE Exclusive'
    BY <1>3, NothingNew
  <1>4. \/ \E t \in Task : AddTask(t)
        \/ \E s \in Session : AddSession(s)
        \/ UNCHANGED <<queueVars, trackVars>>
    BY DEF Request, InsertRow, RejectRequest, DeleteRow, CancelTask, EvictTask,
           CancelSession, EvictSession, InsertSuspension, SuspendMachine,
           EndSuspension, ResumeMachine
  <1>. QED  BY <1>1, <1>2, <1>3, <1>4

LEMMA ExclusiveEvent ==
  ASSUME TypeOK, Exclusive, Event PROVE Exclusive'
  <1>1. CASE SessionEnd
    BY <1>1, ClosingIsExclusive DEF SessionEnd
  <1>2. ASSUME NEW over \in SUBSET Task, PeriodicCheck(over) PROVE Exclusive'
    BY <1>2, NothingNew DEF PeriodicCheck, RequestBackendCancel
  <1>3. ASSUME NEW t \in Task, TaskEnded(t) PROVE Exclusive'
    BY <1>3, NothingNew DEF TaskEnded, Untrack
  <1>4. ASSUME UNCHANGED <<queueVars, trackVars>> PROVE Exclusive'
    BY <1>4, NothingNew
  <1>5. \/ SessionEnd \/ \E over \in SUBSET Task : PeriodicCheck(over)
        \/ \E t \in Task : TaskEnded(t)
        \/ UNCHANGED <<queueVars, trackVars>>
    BY DEF Event, BackendMessage, Notified, Shutdown, TaskSubmitted,
           IgnoreStateChange, TaskRunning
  <1>. QED  BY <1>1, <1>2, <1>3, <1>4, <1>5

LEMMA ExclusiveSection ==
  ASSUME TypeOK, Exclusive, Section PROVE Exclusive'
  <1>1. ASSUME NEW t \in Task, SubmitTask(t) PROVE Exclusive'
    <2>1. CASE running_session = NoSession
      BY <1>1, <2>1 DEF SubmitTask, Picked, RemoveQueued, Exclusive,
         SessionExclusive, QueuesAreForTheProject, SessionTask
    <2>2. CASE running_session # NoSession
      BY <1>1, <2>2 DEF SubmitTask, Picked, RemoveQueued, Exclusive,
         SessionExclusive, QueuesAreForTheProject, SessionTask
    <2>. QED  BY <2>1, <2>2
  <1>2. ASSUME NEW s \in Session, OpenSession(s) PROVE Exclusive'
    BY <1>2 DEF OpenSession, NoAssignments, Exclusive, SessionExclusive,
                QueuesAreForTheProject, SessionTask
  <1>3. ASSUME CloseRunningSession PROVE Exclusive'
    BY <1>3, ClosingIsExclusive
  <1>4. ASSUME NEW s \in Session, CloseQueuedSession(s) PROVE Exclusive'
    BY <1>4, NothingNew DEF CloseQueuedSession
  <1>5. ASSUME NEW t \in Task, NEW state, SettleQueuedTask(t, state) PROVE Exclusive'
    BY <1>5, NothingNew DEF SettleQueuedTask, RemoveQueued
  <1>6. ASSUME NEW t \in Task, FailSubmittedTask(t) PROVE Exclusive'
    BY <1>6, NothingNew DEF FailSubmittedTask, Untrack
  <1>7. ASSUME NEW t \in Task, CancelSubmittedTask(t) PROVE Exclusive'
    BY <1>7, NothingNew DEF CancelSubmittedTask, RequestBackendCancel
  <1>8. ASSUME UNCHANGED <<queueVars, trackVars>> PROVE Exclusive'
    BY <1>8, NothingNew
  <1>9. \/ CloseRunningSession
        \/ \E s \in Session : CloseQueuedSession(s) \/ OpenSession(s)
        \/ \E t \in Task : \/ SubmitTask(t) \/ CancelSubmittedTask(t)
                            \/ FailSubmittedTask(t)
                            \/ \E state \in Final : SettleQueuedTask(t, state)
        \/ UNCHANGED <<queueVars, trackVars>>
    BY DEF Section, CancelRunningSession, CancelQueuedSession, DropSessionCancel,
           DropQueuedSession, CancelQueuedTask, DropTaskCancel, FailQueuedTask,
           FailSessionQueue, FailSessionTask, FailSuspendedTask, FailOverLimit,
           CloseSuspendedSession, SuspensionApplied, SectionDone, Final
  <1>. QED  BY <1>1, <1>2, <1>3, <1>4, <1>5, <1>6, <1>7, <1>8, <1>9

LEMMA ExclusiveRestart ==
  ASSUME TypeOK, NotStarted, Exclusive, Restart PROVE Exclusive'
  <1>1. ASSUME Lost PROVE Exclusive'
    BY <1>1 DEF Lost, Exclusive, SessionExclusive, QueuesAreForTheProject
  <1>2. CASE Restore
    <2>1. \A t \in queues' \cap Task : ~SessionTask(t)
      BY <1>2, NamesAssumption DEF Restore, RestoredTask, Resumed
    <2>. QED
      BY <1>2, <2>1 DEF Restore, Exclusive, SessionExclusive, QueuesAreForTheProject
  <1>3. CASE StartLauncher
    BY <1>3 DEF StartLauncher, NotStarted, Exclusive, SessionExclusive,
                QueuesAreForTheProject, SessionTask
  <1>4. ASSUME UNCHANGED <<queueVars, trackVars>> PROVE Exclusive'
    BY <1>4, NothingNew
  <1>5. Lost \/ Restore \/ StartLauncher \/ UNCHANGED <<queueVars, trackVars>>
    BY DEF Restart, Crash, Exit, CloseDeadSession, CancelOrphans
  <1>. QED  BY <1>1, <1>2, <1>3, <1>4, <1>5

(* While a session is open only its tasks are at the backend or queued for  *)
(* it, and what is left of a closed session is being cancelled: for every   *)
(* interleaving of requests, events and restarts.                           *)
THEOREM SessionsAreExclusive == Spec => []SessionExclusive
  <1>. DEFINE IInv == TypeOK /\ NotStarted /\ Exclusive
  <1>1. Init => IInv
    BY TypeInit DEF Init, NotStarted, Exclusive, SessionExclusive,
                    QueuesAreForTheProject
  <1>2. IInv /\ [Next]_vars => IInv'
    <2>. SUFFICES ASSUME IInv, [Next]_vars PROVE Exclusive'
      BY TypeStep, NotStartedStep
    <2>1. ASSUME UNCHANGED <<queueVars, trackVars>> PROVE Exclusive'
      BY <2>1, NothingNew
    <2>2. CASE WriteUpdate \/ Backend \/ UNCHANGED vars
      BY <2>1, <2>2 DEF WriteUpdate, Backend, JobAccepted, JobRejected, JobRuns,
                        JobEnds, Report, vars
    <2>. QED
      BY <2>2, ExclusiveRequest, ExclusiveEvent, ExclusiveSection,
         ExclusiveRestart DEF Next
  <1>3. IInv => SessionExclusive
    BY DEF Exclusive
  <1>. QED  BY <1>1, <1>2, <1>3, PTL DEF Spec

-----------------------------------------------------------------------------
(* The launcher never sleeps on work it could do. *)

(* The permit is there whenever the launcher comes to wait with something    *)
(* to do, already while it writes to the database, and restoration leaves    *)
(* it where it leaves queued items.                                          *)
Awake ==
  /\ pc \in {"select", "flush"} /\ ~shutting_down /\ (~NoRequests \/ CanDispatch)
       => notifier
  /\ pc \in {"restoring", "starting"} /\ queues # {} => notifier
  /\ pc \in {"down", "restoring", "starting"} => NoRequests

(* What Awake looks at. *)
dispatchVars == <<queueVars, requestVars, submitted_tasks, shutting_down, notifier>>

LEMMA AwakeStutter ==
  ASSUME Awake, pc' = pc, UNCHANGED dispatchVars PROVE Awake'
  BY DEF dispatchVars, Awake, NoRequests, CanDispatch, HasRoom, NoAssignments

(* Requests that bring work leave the permit. *)
LEMMA AwakeRequest ==
  ASSUME Awake, Request PROVE Awake'
  <1>1. ASSUME Serving, notifier', pc' = pc PROVE Awake'
    BY <1>1 DEF Serving, Awake
  <1>2. /\ Serving /\ pc' = pc
        /\ notifier' \/ UNCHANGED dispatchVars
    BY DEF Request, InsertRow, RejectRequest, DeleteRow, AddTask, CancelTask,
           EvictTask, AddSession, CancelSession, EvictSession, InsertSuspension,
           SuspendMachine, EndSuspension, ResumeMachine, WakeLauncher, dispatchVars
  <1>. QED  BY <1>1, <1>2, AwakeStutter

LEMMA AwakeEvent ==
  ASSUME Awake, Event PROVE Awake'
  <1>1. ASSUME pc' = "section" PROVE Awake'
    BY <1>1 DEF Awake
  <1>2. ASSUME NEW t \in Task, TaskRunning(t) PROVE Awake'
    BY <1>2, AwakeStutter DEF TaskRunning, Select, dispatchVars
  <1>3. pc' = "section" \/ \E t \in Task : TaskRunning(t)
    BY DEF Event, BackendMessage, Notified, Shutdown, SessionEnd, PeriodicCheck,
           TaskSubmitted, IgnoreStateChange, TaskEnded, Select
  <1>. QED  BY <1>1, <1>2, <1>3

(* A section ends when there is nothing more to hand out. *)
LEMMA AwakeSection ==
  ASSUME Awake, Section PROVE Awake'
  <1>1. CASE SectionDone
    <2>1. NoRequests /\ (shutting_down \/ ~CanDispatch)
      BY <1>1, NamesAssumption DEF SectionDone, CanDispatch
    <2>2. UNCHANGED dispatchVars /\ pc' \in {"select", "flush", "stopped"}
      BY <1>1 DEF SectionDone, dispatchVars, AfterSection, NextIteration
    <2>. QED
      BY <2>1, <2>2 DEF dispatchVars, Awake, NoRequests, CanDispatch, HasRoom,
                        NoAssignments
  <1>2. pc' = "section" \/ SectionDone
    BY DEF Section, CancelRunningSession, CancelQueuedSession, DropSessionCancel,
           DropQueuedSession, OpenSession, CancelSubmittedTask, CancelQueuedTask,
           DropTaskCancel, FailQueuedTask, FailSessionQueue, FailSessionTask,
           FailSuspendedTask, SubmitTask, FailOverLimit, CloseSuspendedSession,
           SuspensionApplied, InSection, Suspending, Dispatching
  <1>. QED  BY <1>1, <1>2 DEF Awake

LEMMA AwakeRestart ==
  ASSUME NotStarted, Awake, Restart PROVE Awake'
  <1>1. CASE Crash \/ Exit
    BY <1>1 DEF Crash, Exit, Lost, Awake, NoRequests
  <1>2. CASE Restore
    BY <1>2 DEF Restore, Awake, NoRequests
  <1>3. CASE CancelOrphans
    BY <1>3 DEF CancelOrphans, Awake, NoRequests
  <1>4. CASE StartLauncher
    BY <1>4 DEF StartLauncher, NotStarted, Awake, NoRequests, CanDispatch
  <1>5. ASSUME NEW s \in Session, CloseDeadSession(s) PROVE Awake'
    BY <1>5, AwakeStutter DEF CloseDeadSession, dispatchVars
  <1>. QED  BY <1>1, <1>2, <1>3, <1>4, <1>5 DEF Restart

(* A launcher that waits with a request to apply, or with an item it could  *)
(* hand to the backend, has been woken: also when the request came while it *)
(* wrote to the database, and after a restart.                              *)
THEOREM NoWakeupIsLost == Spec => []NoLostWakeup
  <1>. DEFINE IInv == NotStarted /\ Awake
  <1>1. Init => IInv
    BY DEF Init, NotStarted, Awake, NoRequests, CanDispatch
  <1>2. IInv /\ [Next]_vars => IInv'
    <2>. SUFFICES ASSUME IInv, [Next]_vars PROVE Awake'
      BY NotStartedStep
    <2>1. CASE WriteUpdate
      <3>1. /\ pc = "flush" /\ pc' \in {"flush", "select", "stopped"}
            /\ UNCHANGED dispatchVars
        BY <2>1 DEF WriteUpdate, NextIteration, dispatchVars
      <3>. QED
        BY <3>1 DEF dispatchVars, Awake, NoRequests, CanDispatch, HasRoom,
                    NoAssignments
    <2>2. CASE Backend \/ UNCHANGED vars
      BY <2>2, AwakeStutter DEF Backend, JobAccepted, JobRejected, JobRuns,
                                JobEnds, Report, vars, dispatchVars
    <2>. QED
      BY <2>1, <2>2, AwakeRequest, AwakeEvent, AwakeSection, AwakeRestart DEF Next
  <1>3. IInv => NoLostWakeup
    BY DEF Awake, NoLostWakeup
  <1>. QED  BY <1>1, <1>2, <1>3, PTL DEF Spec

-----------------------------------------------------------------------------
(* Where the items are. *)

(* The tasks handed to the backend: until the launcher has started, those   *)
(* that it will attach to.                                                  *)
Handed == IF Up THEN submitted_tasks ELSE backend_id

(* What Placed says, of restoration as well. *)
EachInItsPlace ==
  /\ \A t \in Task : task_map[t] \in Active <=> t \in Queued \cup Handed
  /\ queues \cap session_queue = {}
  /\ Queued \cap Handed = {}
  /\ \A s \in Session : /\ session_map[s] = "queued" <=> s \in queues
                        /\ session_map[s] = "open" <=> s = running_session

(* An item whose submission has not been answered with success is not in    *)
(* memory, so that add_task and add_session add it once.                    *)
NewIsAbsent ==
  /\ \A t \in Task : request[t] # "done" => task_map[t] = "absent"
  /\ \A s \in Session : request[s] # "done" => session_map[s] = "absent"

(* A restart finds no submission in progress, and no row of an item that    *)
(* was never submitted.                                                     *)
NewHasNoRow ==
  /\ \A t \in Task : request[t] = "idle" => db_task[t] = "absent"
  /\ \A s \in Session : request[s] = "idle" => db_session[s] = "absent"
  /\ ~Up => \A i \in Item : request[i] \in {"idle", "done"}

(* The items an update changes the rows of. *)
Named(u) == {u.of} \cup IF u.op = "closed" THEN u.tasks ELSE {}

UpdatesNameKnown ==
  \A k \in DOMAIN db_updates : \A i \in Named(db_updates[k]) : request[i] = "done"

Placement ==
  EachInItsPlace /\ NewIsAbsent /\ NewHasNoRow /\ UpdatesNameKnown

-----------------------------------------------------------------------------
(* Which steps are taken by a launcher that has started. *)

LEMMA WhileUp ==
  /\ Request => Serving /\ Up /\ Up' /\ pc' = pc
  /\ Event => Up /\ Up' /\ pc = "select"
  /\ Section => Up /\ Up' /\ pc = "section"
  /\ WriteUpdate => Up /\ Up' /\ pc = "flush"
  <1>1. Request => Serving /\ pc' = pc
    BY DEF Request, InsertRow, RejectRequest, DeleteRow, AddTask, CancelTask,
           EvictTask, AddSession, CancelSession, EvictSession, InsertSuspension,
           SuspendMachine, EndSuspension, ResumeMachine
  <1>2. Event => pc = "select" /\ pc' \in {"section", "select"}
    BY DEF Event, BackendMessage, Notified, Shutdown, SessionEnd, PeriodicCheck,
           TaskSubmitted, IgnoreStateChange, TaskRunning, TaskEnded, Select
  <1>3. Section => pc = "section" /\ (pc' = "section" \/ pc' = AfterSection)
    BY DEF Section, CancelRunningSession, CancelQueuedSession, DropSessionCancel,
           DropQueuedSession, OpenSession, CancelSubmittedTask, CancelQueuedTask,
           DropTaskCancel, FailQueuedTask, FailSessionQueue, FailSessionTask,
           FailSuspendedTask, SubmitTask, FailOverLimit, CloseSuspendedSession,
           SuspensionApplied, SectionDone, InSection, Suspending, Dispatching
  <1>4. WriteUpdate => pc = "flush" /\ (pc' = NextIteration \/ pc' = "flush")
    BY DEF WriteUpdate
  <1>. QED
    BY <1>1, <1>2, <1>3, <1>4 DEF Serving, Up, AfterSection, NextIteration

(* The places of the items, and the classes of steps that move them. *)
placeVars == <<task_map, session_map, queueVars>>

LEMMA NothingMoves ==
  ASSUME EachInItsPlace, UNCHANGED placeVars, Handed' = Handed
  PROVE  EachInItsPlace'
  BY DEF placeVars, EachInItsPlace, Queued

(* A session that closes takes its queued tasks with it. *)
LEMMA ClosingRunningMoves ==
  ASSUME TypeOK, EachInItsPlace, CloseRunningSession, running_session # NoSession,
         Up, Up'
  PROVE  EachInItsPlace'
  <1>. USE DEF CloseRunningSession, SetTasks
  <1>1. Handed' = Handed /\ Handed = submitted_tasks
    BY DEF Handed
  <1>2. running_session \in Session /\ running_session \notin queues
    BY DEF TypeOK, EachInItsPlace
  <1>3. \A t \in Task : task_map'[t] \in Active <=> t \in Queued' \cup Handed'
    BY <1>1, <1>2 DEF EachInItsPlace, Queued, Active
  <1>4. queues' \cap session_queue' = {} /\ Queued' \cap Handed' = {}
    BY <1>1 DEF EachInItsPlace, Queued
  <1>5. \A s \in Session : /\ session_map'[s] = "queued" <=> s \in queues'
                           /\ session_map'[s] = "open" <=> s = running_session'
    BY <1>2, NamesAssumption DEF EachInItsPlace, TypeOK
  <1>. QED  BY <1>3, <1>4, <1>5 DEF EachInItsPlace

LEMMA ClosingQueuedMoves ==
  ASSUME TypeOK, EachInItsPlace, NEW s \in Session, s \in queues,
         CloseQueuedSession(s), Up, Up'
  PROVE  EachInItsPlace'
  <1>. USE DEF CloseQueuedSession
  <1>1. Handed' = Handed
    BY DEF Handed
  <1>2. s # running_session /\ s \notin Task
    BY NamesAssumption DEF EachInItsPlace
  <1>. QED
    BY <1>1, <1>2, NamesAssumption DEF EachInItsPlace, Queued, TypeOK

LEMMA SettlingMoves ==
  ASSUME TypeOK, EachInItsPlace, NEW t \in Queued \cap Task, NEW state \in Final,
         SettleQueuedTask(t, state), Up, Up'
  PROVE  EachInItsPlace'
  <1>. USE DEF SettleQueuedTask, RemoveQueued, SettleTask, SetTasks
  <1>1. Handed' = Handed /\ t \notin Session /\ t \notin Handed
    BY NamesAssumption DEF Handed, EachInItsPlace
  <1>2. \A r \in Task : task_map'[r] \in Active <=> r \in Queued' \cup Handed'
    BY <1>1 DEF EachInItsPlace, Queued, Active, Final
  <1>. QED
    BY <1>1, <1>2 DEF EachInItsPlace, Queued

(* A task leaves the backend with a final state. *)
LEMMA EndingMoves ==
  ASSUME TypeOK, EachInItsPlace, NEW t \in submitted_tasks, NEW state \in Final,
         Untrack(t), SettleTask(t, state), UNCHANGED <<session_map, queueVars>>,
         Up, Up'
  PROVE  EachInItsPlace'
  <1>. USE DEF Untrack, SettleTask, SetTasks
  <1>1. Handed' = Handed \ {t} /\ t \in Handed /\ t \notin Queued /\ Queued' = Queued
    BY DEF Handed, EachInItsPlace, Queued
  <1>2. \A r \in Task : task_map'[r] \in Active <=> r \in Queued' \cup Handed'
    BY <1>1 DEF EachInItsPlace, Active, Final, TypeOK
  <1>. QED
    BY <1>1, <1>2 DEF EachInItsPlace

LEMMA PlacedRequest ==
  ASSUME TypeOK, EachInItsPlace, NewIsAbsent, Request PROVE EachInItsPlace'
  <1>0. Up /\ Up' /\ Handed' = submitted_tasks' /\ Handed = submitted_tasks
    BY WhileUp DEF Handed
  <1>1. ASSUME NEW t \in Task, AddTask(t) PROVE EachInItsPlace'
    <2>1. t \notin Queued \cup Handed /\ Handed' = Handed
      BY <1>0, <1>1 DEF AddTask, NewIsAbsent, EachInItsPlace, Active
    <2>2. /\ queues' \cap session_queue' = {} /\ Queued' = Queued \cup {t}
      BY <1>1, <2>1 DEF AddTask, EachInItsPlace, Queued
    <2>3. \A s \in Session : s \in queues' <=> s \in queues
      BY <1>1, NamesAssumption DEF AddTask
    <2>. QED
      BY <1>1, <2>1, <2>2, <2>3 DEF AddTask, EachInItsPlace, TypeOK, Active
  <1>2. ASSUME NEW s \in Session, AddSession(s) PROVE EachInItsPlace'
    <2>1. /\ Handed' = Handed /\ s \notin Task /\ s \notin queues
          /\ s # running_session /\ session_queue \subseteq Task /\ Handed \subseteq Task
      BY <1>0, <1>2, NamesAssumption DEF AddSession, NewIsAbsent, EachInItsPlace, TypeOK
    <2>2. queues' \cap session_queue' = {} /\ Queued' = Queued \cup {s}
      BY <1>2, <2>1 DEF AddSession, EachInItsPlace, Queued
    <2>3. Queued' \cap Handed' = {}
      BY <2>1, <2>2 DEF EachInItsPlace
    <2>4. \A t \in Task : task_map'[t] \in Active <=> t \in Queued' \cup Handed'
      BY <1>2, <2>1, <2>2 DEF AddSession, EachInItsPlace
    <2>5. \A r \in Session : /\ session_map'[r] = "queued" <=> r \in queues'
                             /\ session_map'[r] = "open" <=> r = running_session'
      BY <1>2, <2>1 DEF AddSession, EachInItsPlace, TypeOK
    <2>. QED  BY <2>2, <2>3, <2>4, <2>5 DEF EachInItsPlace
  <1>3. ASSUME NEW t \in Task, EvictTask(t) PROVE EachInItsPlace'
    BY <1>0, <1>3 DEF EvictTask, EachInItsPlace, Queued, TypeOK, Active, Final
  <1>4. ASSUME NEW s \in Session, EvictSession(s) PROVE EachInItsPlace'
    BY <1>0, <1>4 DEF EvictSession, EachInItsPlace, Queued, TypeOK
  <1>5. \/ \E t \in Task : AddTask(t) \/ EvictTask(t)
        \/ \E s \in Session : AddSession(s) \/ EvictSession(s)
        \/ UNCHANGED <<placeVars, submitted_tasks>>
    BY DEF Request, InsertRow, RejectRequest, DeleteRow, CancelTask, CancelSession,
           InsertSuspension, SuspendMachine, EndSuspension, ResumeMachine, placeVars
  <1>. QED  BY <1>0, <1>1, <1>2, <1>3, <1>4, <1>5, NothingMoves

LEMMA PlacedEvent ==
  ASSUME TypeOK, EachInItsPlace, Event PROVE EachInItsPlace'
  <1>0. Up /\ Up' /\ Handed' = submitted_tasks' /\ Handed = submitted_tasks
    BY WhileUp DEF Handed
  <1>1. CASE SessionEnd
    BY <1>0, <1>1, ClosingRunningMoves DEF SessionEnd
  <1>2. ASSUME NEW t \in Task, TaskRunning(t) PROVE EachInItsPlace'
    BY <1>0, <1>2 DEF TaskRunning, EachInItsPlace, Queued, TypeOK, Active
  <1>3. ASSUME NEW t \in Task, TaskEnded(t) PROVE EachInItsPlace'
    <2>1. RecordedState(t, Head(messages[t])) \in Final
      BY <1>3 DEF TaskEnded, RecordedState, Final
    <2>. QED  BY <1>0, <1>3, <2>1, EndingMoves DEF TaskEnded
  <1>4. \/ SessionEnd \/ \E t \in Task : TaskRunning(t) \/ TaskEnded(t)
        \/ UNCHANGED <<placeVars, submitted_tasks>>
    BY DEF Event, BackendMessage, Notified, Shutdown, PeriodicCheck, TaskSubmitted,
           IgnoreStateChange, placeVars
  <1>. QED  BY <1>0, <1>1, <1>2, <1>3, <1>4, NothingMoves

(* What a section does to the items, apart from their places. *)
LEMMA SectionClasses ==
  ASSUME Section
  PROVE  \/ CloseRunningSession /\ running_session # NoSession
         \/ \E s \in Session : \/ s \in queues /\ CloseQueuedSession(s)
                               \/ OpenSession(s)
         \/ \E t \in Task :
              \/ SubmitTask(t)
              \/ t \in submitted_tasks /\ FailSubmittedTask(t)
              \/ t \in Queued /\ \E state \in Final : SettleQueuedTask(t, state)
         \/ /\ UNCHANGED <<memVars, queueVars, submitted_tasks, fail_reasons,
                           db_updates, job, messages, notified>>
            /\ \/ UNCHANGED <<cancelling, cancel_sent>>
               \/ \E t \in submitted_tasks : RequestBackendCancel({t})
  <1>1. ASSUME NEW s \in Session, CancelRunningSession(s)
        PROVE  CloseRunningSession /\ running_session # NoSession
    BY <1>1, NamesAssumption DEF CancelRunningSession
  <1>2. ASSUME NEW s \in Session, CancelQueuedSession(s) \/ DropQueuedSession(s)
        PROVE  s \in queues /\ CloseQueuedSession(s)
    BY <1>2 DEF CancelQueuedSession, DropQueuedSession
  <1>3. ASSUME NEW t \in Task, CancelQueuedTask(t) \/ FailQueuedTask(t)
                                 \/ FailSessionQueue(t) \/ FailOverLimit(t)
        PROVE  t \in Queued /\ \E state \in Final : SettleQueuedTask(t, state)
    BY <1>3 DEF CancelQueuedTask, FailQueuedTask, FailSessionQueue, FailOverLimit,
                Picked, Queued, Final
  <1>4. ASSUME NEW t \in Task, FailSessionTask(t) \/ FailSuspendedTask(t)
        PROVE  t \in submitted_tasks /\ FailSubmittedTask(t)
    BY <1>4 DEF FailSessionTask, FailSuspendedTask
  <1>5. ASSUME NEW t \in Task, CancelSubmittedTask(t)
        PROVE  /\ t \in submitted_tasks /\ RequestBackendCancel({t})
               /\ UNCHANGED <<memVars, queueVars, submitted_tasks, fail_reasons,
                              db_updates, job, messages, notified>>
    BY <1>5 DEF CancelSubmittedTask
  <1>6. CASE CloseSuspendedSession
    BY <1>6 DEF CloseSuspendedSession
  <1>7. CASE \/ SuspensionApplied \/ SectionDone \/ \E s \in Session : DropSessionCancel(s)
             \/ \E t \in Task : DropTaskCancel(t)
    BY <1>7 DEF SuspensionApplied, SectionDone, DropSessionCancel, DropTaskCancel
  <1>. QED  BY <1>1, <1>2, <1>3, <1>4, <1>5, <1>6, <1>7 DEF Section

LEMMA PlacedSection ==
  ASSUME TypeOK, EachInItsPlace, Section PROVE EachInItsPlace'
  <1>0. Up /\ Up' /\ Handed' = submitted_tasks' /\ Handed = submitted_tasks
    BY WhileUp DEF Handed
  <1>1. ASSUME NEW t \in Task, SubmitTask(t) PROVE EachInItsPlace'
    <2>1. t \in Queued /\ t \notin Session
      BY <1>1, NamesAssumption DEF SubmitTask, Picked, Queued
    <2>2. Queued' = Queued \ {t} /\ Handed' = Handed \cup {t}
      BY <1>0, <1>1 DEF SubmitTask, RemoveQueued, Queued
    <2>. QED
      BY <1>1, <2>1, <2>2 DEF SubmitTask, RemoveQueued, EachInItsPlace
  <1>2. ASSUME NEW s \in Session, OpenSession(s) PROVE EachInItsPlace'
    <2>1. /\ s \notin Task /\ \A r \in Session : session_map[r] # "open"
      BY <1>2, NamesAssumption DEF OpenSession, EachInItsPlace
    <2>. QED
      BY <1>0, <1>2, <2>1 DEF OpenSession, EachInItsPlace, Queued, TypeOK
  <1>3. ASSUME NEW t \in submitted_tasks, FailSubmittedTask(t) PROVE EachInItsPlace'
    BY <1>0, <1>3, EndingMoves DEF FailSubmittedTask, Final
  <1>. QED
    BY <1>0, <1>1, <1>2, <1>3, SectionClasses, ClosingRunningMoves,
       ClosingQueuedMoves, SettlingMoves, NothingMoves DEF placeVars

LEMMA PlacedRestart ==
  ASSUME TypeOK, NotStarted, EachInItsPlace, Restart PROVE EachInItsPlace'
  <1>1. ASSUME Lost PROVE EachInItsPlace'
    BY <1>1, NamesAssumption DEF Lost, EachInItsPlace, Queued, Handed, Up, Active
  <1>2. CASE Restore
    <2>1. Handed' = Resumed /\ session_queue' = {} /\ running_session' = NoSession
      BY <1>2 DEF Restore, NotStarted, Handed, Up
    <2>2. \A t \in Task : t \in queues' <=> RestoredTask(t) = "waiting"
      BY <1>2, NamesAssumption DEF Restore
    <2>3. \A s \in Session : s \in queues' <=> RestoredSession(s) = "queued"
      BY <1>2, NamesAssumption DEF Restore
    <2>4. \A t \in Task : /\ RestoredTask(t) \in Active <=> t \in queues' \cup Resumed
                          /\ t \in queues' => t \notin Resumed
      BY <2>2 DEF RestoredTask, Active
    <2>5. \A s \in Session : RestoredSession(s) # "open" /\ s # NoSession
      BY NamesAssumption DEF RestoredSession
    <2>6. Queued' \cap Handed' = {}
      BY <2>1, <2>4 DEF Queued, Resumed
    <2>. QED
      BY <1>2, <2>1, <2>3, <2>4, <2>5, <2>6 DEF Restore, EachInItsPlace, Queued
  <1>3. CASE StartLauncher
    <2>1. Handed' = Handed
      BY <1>3 DEF StartLauncher, Handed, Up
    <2>. QED  BY <1>3, <2>1, NothingMoves DEF StartLauncher, placeVars
  <1>4. CASE CancelOrphans \/ \E s \in Session : CloseDeadSession(s)
    <2>1. Handed' = Handed
      BY <1>4 DEF CancelOrphans, CloseDeadSession, Handed, Up
    <2>. QED  BY <1>4, <2>1, NothingMoves DEF CancelOrphans, CloseDeadSession, placeVars
  <1>. QED  BY <1>1, <1>2, <1>3, <1>4 DEF Restart, Crash, Exit

-----------------------------------------------------------------------------
(* New items: submissions and creations that have not succeeded yet. *)

New == NewIsAbsent /\ NewHasNoRow /\ UpdatesNameKnown

(* What is queued or handed to the backend was submitted with success.      *)
LEMMA PlacedIsKnown ==
  ASSUME EachInItsPlace, NewIsAbsent
  PROVE  /\ \A t \in Task : t \in Queued \cup Handed => request[t] = "done"
         /\ \A s \in Session : s \in queues \/ s = running_session
                                 => request[s] = "done"
  BY DEF EachInItsPlace, NewIsAbsent, Active

(* An update added at the end. *)
LEMMA AppendedUpdate ==
  ASSUME NEW S, NEW q \in Seq(S), NEW u
  PROVE  /\ DOMAIN Append(q, u) = DOMAIN q \cup {Len(q) + 1}
         /\ \A k \in DOMAIN q : Append(q, u)[k] = q[k]
         /\ Append(q, u)[Len(q) + 1] = u
         /\ Len(q) + 1 \notin DOMAIN q
  OBVIOUS

(* The update at the head taken away. *)
LEMMA RemainingUpdates ==
  ASSUME NEW S, NEW q \in Seq(S), q # <<>>
  PROVE  /\ 1 \in DOMAIN q /\ Head(q) = q[1]
         /\ \A k \in DOMAIN Tail(q) :
              k + 1 \in DOMAIN q /\ k + 1 # 1 /\ Tail(q)[k] = q[k + 1]
         /\ \A k \in DOMAIN q : k # 1 => k - 1 \in DOMAIN Tail(q)
                                         /\ Tail(q)[k - 1] = q[k]
  OBVIOUS

(* The updates an event or a section may add: to the rows of items that are *)
(* queued or handed to the backend.                                         *)
UpdateOf(u) ==
  \/ u.op = "outcome" /\ u.of \in Task /\ u.of \in Queued \cup Handed
  \/ u.op = "backend_id" /\ u.of \in Task /\ u.of \in Handed
  \/ /\ u.op = "opened" /\ u.of \in Session /\ u.of \in queues
  \/ /\ u.op = "closed" /\ u.of \in Session
     /\ u.of \in queues \/ u.of = running_session
     /\ u.tasks \subseteq session_queue

(* A step of the launcher changes what is placed, and records it.           *)
OnlyPlaced ==
  /\ UNCHANGED <<request, dbVars>>
  /\ \A t \in Task : task_map'[t] = task_map[t] \/ t \in Queued \cup Handed
  /\ \A s \in Session : \/ session_map'[s] = session_map[s]
                        \/ s \in queues \/ s = running_session
  /\ \/ db_updates' = db_updates
     \/ \E u : db_updates' = Append(db_updates, u) /\ UpdateOf(u)

LEMMA EventOnlyPlaced ==
  ASSUME TypeOK, EachInItsPlace, Event PROVE OnlyPlaced
  <1>0. Handed = submitted_tasks
    BY WhileUp DEF Handed
  <1>1. CASE SessionEnd
    <2>1. UpdateOf([op |-> "closed", of |-> running_session, tasks |-> session_queue])
      BY <1>1 DEF SessionEnd, UpdateOf, TypeOK
    <2>. QED
      BY <1>1, <2>1 DEF SessionEnd, CloseRunningSession, SetTasks, OnlyPlaced, Queued,
                        TypeOK
  <1>2. ASSUME NEW t \in Task, TaskSubmitted(t) PROVE OnlyPlaced
    <2>1. t \in submitted_tasks => UpdateOf([op |-> "backend_id", of |-> t])
      BY <1>0 DEF UpdateOf
    <2>. QED
      BY <1>2, <2>1 DEF TaskSubmitted, LateSubmission, OnlyPlaced
  <1>3. ASSUME NEW t \in Task, TaskRunning(t) PROVE OnlyPlaced
    BY <1>0, <1>3 DEF TaskRunning, OnlyPlaced, TypeOK
  <1>4. ASSUME NEW t \in Task, TaskEnded(t) PROVE OnlyPlaced
    <2>1. t \in submitted_tasks /\ \A state : UpdateOf(Outcome(t, state))
      BY <1>0, <1>4 DEF TaskEnded, UpdateOf, Outcome
    <2>. QED
      BY <1>0, <1>4, <2>1 DEF TaskEnded, SettleTask, SetTasks, OnlyPlaced
  <1>5. \/ SessionEnd
        \/ \E t \in Task : TaskSubmitted(t) \/ TaskRunning(t) \/ TaskEnded(t)
        \/ UNCHANGED <<task_map, session_map, request, dbVars, db_updates>>
    BY DEF Event, BackendMessage, Notified, Shutdown, PeriodicCheck, IgnoreStateChange
  <1>. QED  BY <1>1, <1>2, <1>3, <1>4, <1>5 DEF OnlyPlaced

LEMMA SectionOnlyPlaced ==
  ASSUME TypeOK, EachInItsPlace, Section PROVE OnlyPlaced
  <1>0. Handed = submitted_tasks /\ UNCHANGED <<request, dbVars>>
    <2>1. UNCHANGED <<request, dbVars>>
      BY DEF Section, CancelRunningSession, CancelQueuedSession,
             DropSessionCancel, DropQueuedSession, OpenSession, CancelSubmittedTask,
             CancelQueuedTask, DropTaskCancel, FailQueuedTask, FailSessionQueue,
             FailSessionTask, FailSuspendedTask, SubmitTask, FailOverLimit,
             CloseSuspendedSession, SuspensionApplied, SectionDone, InSection,
             Suspending, Dispatching
    <2>. QED  BY <2>1, WhileUp DEF Handed
  <1>1. ASSUME CloseRunningSession, running_session # NoSession PROVE OnlyPlaced
    <2>1. UpdateOf([op |-> "closed", of |-> running_session, tasks |-> session_queue])
      BY <1>1 DEF UpdateOf, TypeOK
    <2>. QED
      BY <1>0, <1>1, <2>1 DEF CloseRunningSession, SetTasks, OnlyPlaced, Queued, TypeOK
  <1>2. ASSUME NEW s \in Session, s \in queues, CloseQueuedSession(s) PROVE OnlyPlaced
    <2>1. UpdateOf([op |-> "closed", of |-> s, tasks |-> {}])
      BY <1>2 DEF UpdateOf
    <2>. QED  BY <1>0, <1>2, <2>1 DEF CloseQueuedSession, OnlyPlaced, TypeOK
  <1>3. ASSUME NEW s \in Session, OpenSession(s) PROVE OnlyPlaced
    <2>1. UpdateOf([op |-> "opened", of |-> s])
      BY <1>3 DEF OpenSession, UpdateOf
    <2>. QED  BY <1>0, <1>3, <2>1 DEF OpenSession, OnlyPlaced, TypeOK
  <1>4. ASSUME NEW t \in Task, SubmitTask(t) PROVE OnlyPlaced
    BY <1>0, <1>4 DEF SubmitTask, OnlyPlaced
  <1>5. ASSUME NEW t \in Task, t \in Queued \cup submitted_tasks, NEW state,
               SettleTask(t, state), UNCHANGED session_map
        PROVE  OnlyPlaced
    <2>1. UpdateOf(Outcome(t, state))
      BY <1>0, <1>5 DEF UpdateOf, Outcome
    <2>. QED
      BY <1>0, <1>5, <2>1 DEF SettleTask, SetTasks, OnlyPlaced
  <1>6. ASSUME UNCHANGED <<memVars, db_updates>> PROVE OnlyPlaced
    BY <1>0, <1>6 DEF OnlyPlaced
  <1>. QED
    BY <1>1, <1>2, <1>3, <1>4, <1>5, <1>6, SectionClasses
       DEF FailSubmittedTask, SettleQueuedTask

LEMMA NewWhenOnlyPlaced ==
  ASSUME TypeOK, Placement, OnlyPlaced, Up, Up' PROVE New'
  <1>1. NewIsAbsent'
    BY PlacedIsKnown DEF OnlyPlaced, Placement, NewIsAbsent
  <1>2. NewHasNoRow'
    BY DEF OnlyPlaced, Placement, NewHasNoRow
  <1>3. ASSUME NEW u, UpdateOf(u) PROVE \A i \in Named(u) : request[i] = "done"
    BY <1>3, PlacedIsKnown DEF UpdateOf, Named, Placement, Queued, TypeOK
  <1>4. UpdatesNameKnown'
    <2>1. ASSUME NEW u, db_updates' = Append(db_updates, u), UpdateOf(u)
          PROVE  UpdatesNameKnown'
      <3>. SUFFICES ASSUME NEW k \in DOMAIN db_updates', NEW i \in Named(db_updates'[k])
                    PROVE  request'[i] = "done"
        BY DEF UpdatesNameKnown
      <3>1. db_updates \in Seq(DbUpdate)
        BY DEF TypeOK
      <3>2. \/ k \in DOMAIN db_updates /\ db_updates'[k] = db_updates[k]
            \/ db_updates'[k] = u
        BY <2>1, <3>1, AppendedUpdate
      <3>. QED
        BY <1>3, <2>1, <3>2 DEF OnlyPlaced, Placement, UpdatesNameKnown
    <2>2. CASE db_updates' = db_updates
      BY <2>2 DEF OnlyPlaced, Placement, UpdatesNameKnown
    <2>. QED  BY <2>1, <2>2 DEF OnlyPlaced
  <1>. QED  BY <1>1, <1>2, <1>4 DEF New

LEMMA NewRequest ==
  ASSUME TypeOK, New, Request PROVE New'
  <1>0. Up /\ Up' /\ UNCHANGED db_updates
    BY WhileUp DEF Request, InsertRow, RejectRequest, DeleteRow, AddTask, CancelTask,
           EvictTask, AddSession, CancelSession, EvictSession, InsertSuspension,
           SuspendMachine, EndSuspension, ResumeMachine
  <1>1. \A i \in Item : request[i] = "done" => request'[i] = "done"
    BY DEF Request, InsertRow, RejectRequest, DeleteRow, AddTask, CancelTask,
           EvictTask, AddSession, CancelSession, EvictSession, InsertSuspension,
           SuspendMachine, EndSuspension, ResumeMachine, TypeOK, Item
  <1>2. UpdatesNameKnown'
    <2>1. \A k \in DOMAIN db_updates : Named(db_updates[k]) \subseteq Item
      BY DEF TypeOK, Named, DbUpdate, Item
    <2>. QED  BY <1>0, <1>1, <2>1 DEF New, UpdatesNameKnown
  <1>3. ASSUME NEW i \in Item, InsertRow(i) PROVE NewIsAbsent' /\ NewHasNoRow'
    BY <1>0, <1>3, NamesAssumption DEF InsertRow, New, NewIsAbsent, NewHasNoRow, Item, TypeOK
  <1>4. ASSUME NEW i \in Item, RejectRequest(i) PROVE NewIsAbsent' /\ NewHasNoRow'
    BY <1>0, <1>4 DEF RejectRequest, New, NewIsAbsent, NewHasNoRow, Item, TypeOK
  <1>5. ASSUME NEW i \in Item, DeleteRow(i) PROVE NewIsAbsent' /\ NewHasNoRow'
    BY <1>0, <1>5 DEF DeleteRow, New, NewIsAbsent, NewHasNoRow, Item, TypeOK
  <1>6. ASSUME NEW t \in Task, AddTask(t) PROVE NewIsAbsent' /\ NewHasNoRow'
    BY <1>0, <1>6, NamesAssumption
       DEF AddTask, New, NewIsAbsent, NewHasNoRow, Item, TypeOK
  <1>7. ASSUME NEW s \in Session, AddSession(s) PROVE NewIsAbsent' /\ NewHasNoRow'
    BY <1>0, <1>7, NamesAssumption
       DEF AddSession, New, NewIsAbsent, NewHasNoRow, Item, TypeOK
  <1>8. ASSUME NEW t \in Task, EvictTask(t) PROVE NewIsAbsent' /\ NewHasNoRow'
    BY <1>0, <1>8 DEF EvictTask, New, NewIsAbsent, NewHasNoRow, Item, TypeOK
  <1>9. ASSUME NEW s \in Session, EvictSession(s) PROVE NewIsAbsent' /\ NewHasNoRow'
    BY <1>0, <1>9 DEF EvictSession, New, NewIsAbsent, NewHasNoRow, Item, TypeOK
  <1>10. ASSUME UNCHANGED <<request, task_map, session_map, db_task, db_session>>
         PROVE  NewIsAbsent' /\ NewHasNoRow'
    BY <1>0, <1>10 DEF New, NewIsAbsent, NewHasNoRow
  <1>11. \/ \E i \in Item : InsertRow(i) \/ RejectRequest(i) \/ DeleteRow(i)
         \/ \E t \in Task : AddTask(t) \/ EvictTask(t)
         \/ \E s \in Session : AddSession(s) \/ EvictSession(s)
         \/ UNCHANGED <<request, task_map, session_map, db_task, db_session>>
    BY DEF Request, CancelTask, CancelSession, InsertSuspension, SuspendMachine,
           EndSuspension, ResumeMachine
  <1>. QED
    BY <1>2, <1>3, <1>4, <1>5, <1>6, <1>7, <1>8, <1>9, <1>10, <1>11 DEF New

LEMMA NewWrite ==
  ASSUME TypeOK, New, WriteUpdate PROVE New'
  <1>. DEFINE u == Head(db_updates)
  <1>0. /\ Up /\ Up' /\ UNCHANGED <<request, task_map, session_map>>
        /\ db_updates # <<>> /\ db_updates' = Tail(db_updates)
        /\ db_updates \in Seq(DbUpdate)
    BY WhileUp DEF WriteUpdate, TypeOK
  <1>1. \A i \in Named(u) : request[i] = "done"
    BY <1>0, RemainingUpdates DEF New, UpdatesNameKnown
  <1>2. UpdatesNameKnown'
    BY <1>0, RemainingUpdates DEF New, UpdatesNameKnown
  <1>3. NewIsAbsent'
    BY <1>0 DEF New, NewIsAbsent
  <1>4. /\ \A t \in Task : db_task'[t] = db_task[t] \/ t \in Named(u)
        /\ \A s \in Session : db_session'[s] = db_session[s] \/ s \in Named(u)
    BY DEF WriteUpdate, Settle, Named, TypeOK
  <1>5. NewHasNoRow'
    BY <1>0, <1>1, <1>4 DEF New, NewHasNoRow
  <1>. QED  BY <1>2, <1>3, <1>5 DEF New

LEMMA NewRestart ==
  ASSUME TypeOK, New, Restart PROVE New'
  <1>1. ASSUME Lost PROVE New'
    <2>1. NewIsAbsent' /\ UpdatesNameKnown'
      BY <1>1 DEF Lost, NewIsAbsent, UpdatesNameKnown
    <2>2. NewHasNoRow'
      BY <1>1 DEF Lost, New, NewHasNoRow, Item
    <2>. QED  BY <2>1, <2>2 DEF New
  <1>2. CASE Restore
    <2>1. ~Up /\ ~Up'
      BY <1>2 DEF Restore, Up
    <2>2. \A i \in Item : request[i] # "done" => request[i] = "idle"
      BY <2>1 DEF New, NewHasNoRow
    <2>3. NewIsAbsent'
      BY <1>2, <2>2 DEF Restore, RestoredTask, RestoredSession, Resumed, LiveRow,
         New, NewHasNoRow, NewIsAbsent, Item
    <2>. QED
      BY <1>2, <2>1, <2>3 DEF Restore, New, NewHasNoRow, UpdatesNameKnown
  <1>3. CASE StartLauncher
    BY <1>3 DEF StartLauncher, New, NewIsAbsent, NewHasNoRow, UpdatesNameKnown, Up
  <1>4. CASE CancelOrphans
    BY <1>4 DEF CancelOrphans, Settle, Orphan, LiveRow, New, NewIsAbsent,
                NewHasNoRow, UpdatesNameKnown, Up
  <1>5. ASSUME NEW s \in Session, CloseDeadSession(s) PROVE New'
    BY <1>5 DEF CloseDeadSession, DeadSessions, New, NewIsAbsent, NewHasNoRow,
                UpdatesNameKnown, Up, TypeOK
  <1>. QED  BY <1>1, <1>2, <1>3, <1>4, <1>5 DEF Restart, Crash, Exit

LEMMA PlacementStep ==
  ASSUME TypeOK, NotStarted, Placement, [Next]_vars PROVE Placement'
  <1>1. CASE Request
    BY <1>1, PlacedRequest, NewRequest DEF Placement, New
  <1>2. CASE Event
    BY <1>2, PlacedEvent, EventOnlyPlaced, NewWhenOnlyPlaced, WhileUp DEF Placement, New
  <1>3. CASE Section
    BY <1>3, PlacedSection, SectionOnlyPlaced, NewWhenOnlyPlaced, WhileUp
       DEF Placement, New
  <1>4. CASE WriteUpdate
    <2>1. UNCHANGED placeVars /\ Handed' = Handed
      BY <1>4, WhileUp DEF WriteUpdate, placeVars, Handed
    <2>. QED  BY <1>4, <2>1, NothingMoves, NewWrite DEF Placement, New
  <1>5. CASE Restart
    BY <1>5, PlacedRestart, NewRestart DEF Placement, New
  <1>6. CASE Backend \/ UNCHANGED vars
    <2>1. UNCHANGED <<placeVars, submitted_tasks, backend_id, pc, request, db_task,
                      db_session, db_updates>>
      BY <1>6 DEF Backend, JobAccepted, JobRejected, JobRuns, JobEnds, Report, vars,
                  placeVars
    <2>2. Handed' = Handed
      BY <2>1 DEF Handed, Up
    <2>3. New => New'
      BY <2>1 DEF placeVars, New, NewIsAbsent, NewHasNoRow, UpdatesNameKnown, Up
    <2>. QED  BY <2>1, <2>2, <2>3, NothingMoves DEF Placement, New
  <1>. QED
    BY <1>1, <1>2, <1>3, <1>4, <1>5, <1>6 DEF Next

LEMMA PlacementInit == Init => Placement
  BY NamesAssumption
     DEF Init, Placement, EachInItsPlace, Queued, Handed, Up, Active, NewIsAbsent,
         NewHasNoRow, UpdatesNameKnown, Item

(* What the theorems of this module and of those that extend it stand on.   *)
MachineInv == TypeOK /\ NotStarted /\ Placement

LEMMA MachineInvariant == Spec => []MachineInv
  <1>1. Init => MachineInv
    BY TypeInit, PlacementInit DEF Init, NotStarted, MachineInv
  <1>2. MachineInv /\ [Next]_vars => MachineInv'
    BY TypeStep, NotStartedStep, PlacementStep DEF MachineInv
  <1>. QED  BY <1>1, <1>2, PTL DEF Spec

(* An active task is in exactly one place, a queue of the machine, the queue *)
(* of the open session or the submitted tasks, and a queued or open session  *)
(* likewise: across submission, cancellation, suspension, the closing of     *)
(* sessions, eviction, crashes and restoration.                              *)
THEOREM ItemsArePlaced == Spec => []Placed
  <1>1. MachineInv => Placed
    BY DEF MachineInv, Placement, EachInItsPlace, Placed, Handed
  <1>. QED  BY <1>1, MachineInvariant, PTL

-----------------------------------------------------------------------------
(* Fair share's counts. *)

(* The tasks of T that take a slot of user u. *)
Slots(T, u) == {t \in T : ~SessionTask(t) /\ Owner[t] = u}

SlotsAreExact ==
  \A u \in User : tasks_in_backend[u] = Cardinality(Slots(Handed, u))

LEMMA SlotTaken ==
  ASSUME NEW T \in SUBSET Task, NEW t \in Task, t \notin T, NEW u \in User
  PROVE  Cardinality(Slots(T \cup {t}, u)) =
           IF ~SessionTask(t) /\ Owner[t] = u THEN Cardinality(Slots(T, u)) + 1
           ELSE Cardinality(Slots(T, u))
  <1>1. IsFiniteSet(Slots(T, u)) /\ t \notin Slots(T, u)
    BY TaskAssumption, FS_Subset DEF Slots
  <1>2. Slots(T \cup {t}, u) = IF ~SessionTask(t) /\ Owner[t] = u
                               THEN Slots(T, u) \cup {t} ELSE Slots(T, u)
    BY DEF Slots
  <1>. QED  BY <1>1, <1>2, FS_AddElement

LEMMA SlotFreed ==
  ASSUME NEW T \in SUBSET Task, NEW t \in T, NEW u \in User
  PROVE  Cardinality(Slots(T, u)) =
           IF ~SessionTask(t) /\ Owner[t] = u THEN Cardinality(Slots(T \ {t}, u)) + 1
           ELSE Cardinality(Slots(T \ {t}, u))
  <1>1. (T \ {t}) \cup {t} = T /\ t \in Task
    OBVIOUS
  <1>. QED  BY <1>1, SlotTaken

LEMMA SlotCountIsInt ==
  \A T \in SUBSET Task, u \in User : Cardinality(Slots(T, u)) \in Nat
  BY TaskAssumption, FS_Subset, FS_CardinalityType DEF Slots

LEMMA SlotOfUntracked ==
  ASSUME TypeOK, SlotsAreExact, Up, Up', NEW t \in submitted_tasks, Untrack(t)
  PROVE  SlotsAreExact'
  <1>1. Handed = submitted_tasks /\ Handed' = submitted_tasks \ {t} /\ t \in Task
    BY DEF Handed, Untrack, TypeOK
  <1>2. \A u \in User : tasks_in_backend'[u] =
          IF ~SessionTask(t) /\ Owner[t] = u THEN tasks_in_backend[u] - 1
          ELSE tasks_in_backend[u]
    BY OwnerAssumption DEF Untrack, TypeOK
  <1>3. \A u \in User : Cardinality(Slots(submitted_tasks, u)) =
          IF ~SessionTask(t) /\ Owner[t] = u
          THEN Cardinality(Slots(submitted_tasks \ {t}, u)) + 1
          ELSE Cardinality(Slots(submitted_tasks \ {t}, u))
    BY SlotFreed DEF TypeOK
  <1>4. \A u \in User : Cardinality(Slots(submitted_tasks \ {t}, u)) \in Nat
    BY SlotCountIsInt DEF TypeOK
  <1>. QED
    BY <1>1, <1>2, <1>3, <1>4 DEF SlotsAreExact

LEMMA SlotOfSubmitted ==
  ASSUME TypeOK, EachInItsPlace, SlotsAreExact, Up, Up', NEW t \in Task, SubmitTask(t)
  PROVE  SlotsAreExact'
  <1>1. /\ Handed = submitted_tasks /\ Handed' = submitted_tasks \cup {t}
        /\ t \notin submitted_tasks
    BY DEF Handed, SubmitTask, Picked, EachInItsPlace, Queued
  <1>2. \A u \in User : tasks_in_backend'[u] =
          IF ~SessionTask(t) /\ Owner[t] = u THEN tasks_in_backend[u] + 1
          ELSE tasks_in_backend[u]
    BY OwnerAssumption DEF SubmitTask, TypeOK
  <1>3. \A u \in User : Cardinality(Slots(submitted_tasks \cup {t}, u)) =
          IF ~SessionTask(t) /\ Owner[t] = u
          THEN Cardinality(Slots(submitted_tasks, u)) + 1
          ELSE Cardinality(Slots(submitted_tasks, u))
    BY <1>1, SlotTaken DEF TypeOK
  <1>. QED
    BY <1>1, <1>2, <1>3 DEF SlotsAreExact

LEMMA SlotsStep ==
  ASSUME MachineInv, SlotsAreExact, [Next]_vars PROVE SlotsAreExact'
  <1>. USE DEF MachineInv, Placement
  <1>1. ASSUME UNCHANGED tasks_in_backend, Handed' = Handed PROVE SlotsAreExact'
    BY <1>1 DEF SlotsAreExact
  <1>2. CASE Request \/ WriteUpdate
    <2>1. UNCHANGED <<tasks_in_backend, submitted_tasks>>
      BY <1>2 DEF Request, InsertRow, RejectRequest, DeleteRow, AddTask, CancelTask,
           EvictTask, AddSession, CancelSession, EvictSession, InsertSuspension,
           SuspendMachine, EndSuspension, ResumeMachine, WriteUpdate
    <2>. QED  BY <1>1, <1>2, <2>1, WhileUp DEF Handed
  <1>3. CASE Event
    <2>1. \/ \E t \in submitted_tasks : Untrack(t)
          \/ UNCHANGED <<tasks_in_backend, submitted_tasks>>
      BY <1>3 DEF Event, BackendMessage, Notified, Shutdown, SessionEnd,
         CloseRunningSession, PeriodicCheck, TaskSubmitted, IgnoreStateChange,
         TaskRunning, TaskEnded
    <2>. QED  BY <1>1, <1>3, <2>1, WhileUp, SlotOfUntracked DEF Handed
  <1>4. CASE Section
    <2>1. \/ \E t \in submitted_tasks : Untrack(t)
          \/ \E t \in Task : SubmitTask(t)
          \/ UNCHANGED <<tasks_in_backend, submitted_tasks>>
      BY <1>4, SectionClasses DEF CloseRunningSession, CloseQueuedSession, OpenSession,
         FailSubmittedTask, SettleQueuedTask
    <2>. QED  BY <1>1, <1>4, <2>1, WhileUp, SlotOfUntracked, SlotOfSubmitted DEF Handed
  <1>5. CASE Backend \/ UNCHANGED vars
    <2>1. UNCHANGED <<tasks_in_backend, submitted_tasks, backend_id, pc>>
      BY <1>5 DEF Backend, JobAccepted, JobRejected, JobRuns, JobEnds, Report, vars
    <2>. QED  BY <1>1, <2>1 DEF Handed, Up
  <1>6. CASE Restart
    <2>1. ASSUME Lost PROVE SlotsAreExact'
      <3>1. Handed' = {} /\ \A u \in User : Slots({}, u) = {}
        BY <2>1 DEF Lost, Handed, Up, Slots
      <3>. QED  BY <2>1, <3>1, FS_EmptySet DEF Lost, SlotsAreExact
    <2>2. CASE Restore
      <3>1. Handed' = Resumed
        BY <2>2 DEF Restore, Handed, Up
      <3>. QED  BY <2>2, <3>1 DEF Restore, SlotsAreExact, Slots
    <2>3. CASE StartLauncher \/ CancelOrphans \/ \E s \in Session : CloseDeadSession(s)
      <3>1. UNCHANGED tasks_in_backend /\ Handed' = Handed
        BY <2>3 DEF StartLauncher, CancelOrphans, CloseDeadSession, Handed, Up
      <3>. QED  BY <1>1, <3>1
    <2>. QED  BY <1>6, <2>1, <2>2, <2>3 DEF Restart, Crash, Exit
  <1>. QED  BY <1>2, <1>3, <1>4, <1>5, <1>6 DEF Next

(* Fair share counts for each user exactly the tasks of that user that are  *)
(* at the backend outside of sessions, however a task gets there and        *)
(* whichever way it leaves, so that the count never underflows.             *)
THEOREM SlotsAreCounted == Spec => []SlotCount
  <1>1. Init => SlotsAreExact
    <2>. SUFFICES ASSUME Init, NEW u \in User
                  PROVE  tasks_in_backend[u] = Cardinality(Slots(Handed, u))
      BY DEF SlotsAreExact
    <2>1. Slots(Handed, u) = {} /\ tasks_in_backend[u] = 0
      BY DEF Init, Handed, Slots
    <2>. QED  BY <2>1, FS_EmptySet
  <1>2. MachineInv /\ SlotsAreExact /\ [Next]_vars => SlotsAreExact'
    BY SlotsStep
  <1>3. SlotsAreExact => SlotCount
    BY DEF SlotsAreExact, SlotCount, Handed, Slots
  <1>. QED  BY <1>1, <1>2, <1>3, MachineInvariant, PTL DEF Spec

-----------------------------------------------------------------------------
(* What requests find in memory. *)

(* Accepted cancels name active items until a section looks at them, and     *)
(* items in memory while it does: no section ends before it has taken them.  *)
CancelsNameActive ==
  /\ \A t \in task_cancel_requests :
       IF pc = "section" THEN task_map[t] # "absent" ELSE task_map[t] \in Active
  /\ \A s \in session_cancel_requests :
       IF pc = "section" THEN session_map[s] # "absent"
       ELSE session_map[s] \in {"queued", "open"}
  /\ ~Up => NoRequests

LEMMA CancelsStep ==
  ASSUME MachineInv, CancelsNameActive, [Next]_vars PROVE CancelsNameActive'
  <1>. USE DEF MachineInv, Placement
  <1>0. task_cancel_requests \subseteq Task /\ session_cancel_requests \subseteq Session
    BY DEF TypeOK
  <1>1. ASSUME UNCHANGED <<task_map, session_map, pc, suspend_cancel_requests>>,
               task_cancel_requests' \subseteq task_cancel_requests,
               session_cancel_requests' \subseteq session_cancel_requests
        PROVE  CancelsNameActive'
    BY <1>1 DEF CancelsNameActive, NoRequests, Up
  <1>2. CASE Request
    <2>0. Up' /\ pc' = pc /\ pc # "section"
      BY <1>2, WhileUp DEF Request, InsertRow, RejectRequest, DeleteRow, AddTask,
         CancelTask, EvictTask, AddSession, CancelSession, EvictSession,
         InsertSuspension, SuspendMachine, EndSuspension, ResumeMachine, Unlocked
    <2>1. ASSUME NEW t \in Task, AddTask(t) \/ CancelTask(t) \/ EvictTask(t)
          PROVE  CancelsNameActive'
      BY <1>0, <2>0, <2>1 DEF AddTask, CancelTask, EvictTask, Cancellable,
         CancelsNameActive, Active, Final, TypeOK
    <2>2. ASSUME NEW s \in Session, AddSession(s) \/ CancelSession(s) \/ EvictSession(s)
          PROVE  CancelsNameActive'
      BY <1>0, <2>0, <2>2 DEF AddSession, CancelSession, EvictSession,
         CancelsNameActive, TypeOK
    <2>3. ASSUME UNCHANGED <<task_map, session_map, task_cancel_requests,
                             session_cancel_requests>>
          PROVE  CancelsNameActive'
      BY <2>0, <2>3 DEF CancelsNameActive
    <2>4. \/ \E t \in Task : AddTask(t) \/ CancelTask(t) \/ EvictTask(t)
          \/ \E s \in Session : AddSession(s) \/ CancelSession(s) \/ EvictSession(s)
          \/ UNCHANGED <<task_map, session_map, task_cancel_requests,
                         session_cancel_requests>>
      BY <1>2 DEF Request, InsertRow, RejectRequest, DeleteRow, InsertSuspension,
         SuspendMachine, EndSuspension, ResumeMachine
    <2>. QED  BY <2>1, <2>2, <2>3, <2>4
  <1>3. CASE Event
    <2>0. Up'
      BY <1>3, WhileUp
    <2>1. /\ UNCHANGED <<task_cancel_requests, session_cancel_requests>>
          /\ pc = "select" /\ (pc' = "section" \/ \E t \in Task : TaskRunning(t))
      BY <1>3 DEF Event, BackendMessage, Notified, Shutdown, SessionEnd,
         PeriodicCheck, TaskSubmitted, IgnoreStateChange, TaskEnded, Select, TaskRunning
    <2>2. ASSUME NEW t \in Task, TaskRunning(t) PROVE CancelsNameActive'
      BY <1>0, <2>0, <2>1, <2>2 DEF TaskRunning, Select, CancelsNameActive, Active, TypeOK
    <2>3. \A t \in Task : task_map[t] # "absent" => task_map'[t] # "absent"
      BY <1>3 DEF Event, BackendMessage, Notified, Shutdown, SessionEnd,
         PeriodicCheck, TaskSubmitted, IgnoreStateChange, TaskRunning, TaskEnded,
         CloseRunningSession, SettleTask, SetTasks, RecordedState, Final, TypeOK
    <2>4. \A s \in Session : session_map[s] # "absent" => session_map'[s] # "absent"
      BY <1>3 DEF Event, BackendMessage, Notified, Shutdown, SessionEnd,
         PeriodicCheck, TaskSubmitted, IgnoreStateChange, TaskRunning, TaskEnded,
         CloseRunningSession, TypeOK
    <2>. QED
      BY <1>0, <2>0, <2>1, <2>2, <2>3, <2>4 DEF CancelsNameActive, Active
  <1>4. CASE Section
    <2>0. pc = "section" /\ Up'
      BY <1>4, WhileUp
    <2>1. /\ task_cancel_requests' \subseteq task_cancel_requests
          /\ session_cancel_requests' \subseteq session_cancel_requests
          /\ pc' = "section" \/ SectionDone
      BY <1>4 DEF Section, CancelRunningSession, CancelQueuedSession,
           DropSessionCancel, DropQueuedSession, OpenSession, CancelSubmittedTask,
           CancelQueuedTask, DropTaskCancel, FailQueuedTask, FailSessionQueue,
           FailSessionTask, FailSuspendedTask, SubmitTask, FailOverLimit,
           CloseSuspendedSession, SuspensionApplied, SectionDone, InSection,
           Suspending, Dispatching, TakeSessionCancel, TakeTaskCancel
    <2>2. CASE SectionDone
      BY <2>0, <2>2 DEF SectionDone, NoRequests, CancelsNameActive
    <2>3. \A t \in Task : task_map[t] # "absent" => task_map'[t] # "absent"
      BY <1>4, SectionClasses DEF CloseRunningSession, CloseQueuedSession,
         OpenSession, SubmitTask, FailSubmittedTask, SettleQueuedTask, SettleTask,
         SetTasks, Final
    <2>4. \A s \in Session : session_map[s] # "absent" => session_map'[s] # "absent"
      BY <1>4, SectionClasses DEF CloseRunningSession, CloseQueuedSession,
         OpenSession, SubmitTask, FailSubmittedTask, SettleQueuedTask, TypeOK
    <2>. QED
      BY <1>0, <2>0, <2>1, <2>2, <2>3, <2>4 DEF CancelsNameActive
  <1>5. CASE WriteUpdate
    <2>1. UNCHANGED <<task_map, session_map, task_cancel_requests,
                      session_cancel_requests>>
          /\ pc = "flush" /\ pc' # "section" /\ Up'
      BY <1>5, WhileUp DEF WriteUpdate, NextIteration
    <2>. QED  BY <2>1 DEF CancelsNameActive
  <1>6. CASE Backend \/ UNCHANGED vars
    BY <1>1, <1>6 DEF Backend, JobAccepted, JobRejected, JobRuns, JobEnds, Report, vars
  <1>7. CASE Restart
    <2>1. CASE Crash \/ Exit
      BY <2>1 DEF Crash, Exit, Lost, NoRequests, CancelsNameActive
    <2>2. CASE Restore \/ StartLauncher \/ CancelOrphans
               \/ \E s \in Session : CloseDeadSession(s)
      <3>1. ~Up /\ UNCHANGED requestVars
        BY <2>2 DEF Restore, StartLauncher, CancelOrphans, CloseDeadSession, Up
      <3>. QED  BY <3>1 DEF CancelsNameActive, NoRequests
    <2>. QED  BY <1>7, <2>1, <2>2 DEF Restart
  <1>. QED  BY <1>2, <1>3, <1>4, <1>5, <1>6, <1>7 DEF Next

(* The launcher finds in memory what accepted cancel requests name and what *)
(* it tracks at the backend: eviction takes only what is final, and nothing *)
(* becomes final between the acceptance of a cancel and the section that    *)
(* applies it.                                                              *)
THEOREM RequestsFindTheirItems == Spec => []RequestsInMemory
  <1>1. Init => CancelsNameActive
    BY DEF Init, CancelsNameActive, NoRequests, Up
  <1>2. MachineInv /\ CancelsNameActive /\ [Next]_vars => CancelsNameActive'
    BY CancelsStep
  <1>3. MachineInv /\ CancelsNameActive => RequestsInMemory
    BY DEF MachineInv, TypeOK, NotStarted, Pc, Placement, EachInItsPlace, Handed, Up,
           CancelsNameActive, RequestsInMemory, Active
  <1>. QED  BY <1>1, <1>2, <1>3, MachineInvariant, PTL DEF Spec

=============================================================================
