--------------------------- MODULE ReconfigProofs ---------------------------
(* Theorems about a machine that is updated and removed while the service   *)
(* goes on, whatever the tasks, sessions, bounds and numbers of updates: no *)
(* accepted work and no accepted cancel is lost, no end is reported twice,  *)
(* and an unforced removal finds nothing that was accepted.                 *)
(*                                                                          *)
(* What a step of the launcher does is the same with and without            *)
(* reconfigurations: its lemmas (LauncherProofs, LauncherRecords) are used  *)
(* as they are.  The steps of the service and of the administration, which  *)
(* are taken whatever the launcher is doing, are gone through here.         *)
EXTENDS Reconfig, LauncherRecords

USE DEF machineVars, launcherVars, outsideVars, memVars, queueVars,
        requestVars, trackVars, serviceVars, dbVars, backendVars, boundVars,
        adminVars

(* How far an update or a removal is, the launcher and the machine agree.   *)
StepsAgree ==
  /\ admin # "idle" => machine = "unavailable"
  /\ admin \in {"replace", "purge"} => Stopped
  /\ admin = "load" => pc = "down"
  /\ admin = "rebuild" => /\ pc \in {"down", "restoring", "starting"}
                          /\ \A i \in Item : request[i] \in {"idle", "done"}
  /\ pc \in {"restoring", "starting"} => admin = "rebuild"
  /\ admin = "update" => removal = "none"
  /\ machine = "absent" => pc = "down"

(* What was never submitted has no row. *)
IdleHasNoRow == \A i \in Item : request[i] = "idle" => ~HasRow(i)

(* The rows of the machine are gone, and nothing of it is in memory or will *)
(* soon be.                                                                 *)
Gone == admin = "purge" \/ machine = "absent"

NothingIsLeft == (\A i \in Item : ~HasRow(i)) /\ db_updates = <<>>

(* A session in memory, or one whose creation is in progress, has a row, and *)
(* so has each session an update is about.                                   *)
SessionsHaveRows ==
  /\ \A s \in Session :
       session_map[s] # "absent" \/ request[s] \in {"inserted", "rejected"}
         => db_session[s] # "absent"
  /\ \A k \in DOMAIN db_updates :
       db_updates[k].op \in {"opened", "closed"}
         => db_session[db_updates[k].of] # "absent"

ReconfigInv ==
  /\ ReconfigTypeOK /\ NotStarted
  /\ EachInItsPlace /\ NewIsAbsent /\ UpdatesNameKnown
  /\ StepsAgree /\ IdleHasNoRow
  /\ Gone => NothingIsLeft
  /\ ~Gone => Rows /\ SessionsHaveRows
  /\ ReportsAreCounted /\ RemovalKeepsWork

-----------------------------------------------------------------------------
(* Types. *)

USE DEF Client!machineVars, Client!launcherVars, Client!outsideVars,
        Client!memVars, Client!queueVars, Client!requestVars, Client!trackVars,
        Client!serviceVars, Client!dbVars, Client!backendVars, Client!boundVars

(* What no request of the service changes. *)
LEMMA ServiceFrame ==
  ASSUME Service
  PROVE  /\ Unlocked
         /\ UNCHANGED <<pc, backend_id, running_session, trackVars, db_updates,
                        shutting_down, tasks_in_backend, db_backend_id, backendVars,
                        crashes, shutdowns, notified, adminVars>>
  BY DEF Service, Served, Insert, InsertLate, Add, Refuse, Delete, Cancel, Suspend,
         Client!InsertRow, Client!AddTask, Client!AddSession, Client!DeleteRow,
         Client!CancelTask, Client!CancelSession, Client!InsertSuspension,
         Client!SuspendMachine, Client!EndSuspension, Client!ResumeMachine

(* The row of a new item is inserted. *)
RowAppears(i) ==
  /\ request[i] = "idle" /\ machine # "absent" /\ admin \notin {"rebuild", "purge"}
  /\ request' = [request EXCEPT ![i] = "inserted"]
  /\ IF i \in Task
     THEN db_task' = [db_task EXCEPT ![i] = "waiting"] /\ UNCHANGED db_session
     ELSE db_session' = [db_session EXCEPT ![i] = "queued"] /\ UNCHANGED db_task
  /\ UNCHANGED <<task_map, session_map, queues, session_queue>>

(* A new item gets into memory. *)
TaskAppears(t) ==
  /\ machine = "available" /\ request[t] = "inserted"
  /\ SessionTask(t) => running_session = Parent[t]
  /\ request' = [request EXCEPT ![t] = "done"]
  /\ task_map' = [task_map EXCEPT ![t] = "waiting"]
  /\ IF SessionTask(t)
     THEN session_queue' = session_queue \cup {t} /\ UNCHANGED queues
     ELSE queues' = queues \cup {t} /\ UNCHANGED session_queue
  /\ UNCHANGED <<session_map, db_task, db_session>>

SessionAppears(s) ==
  /\ machine = "available" /\ request[s] = "inserted"
  /\ request' = [request EXCEPT ![s] = "done"]
  /\ session_map' = [session_map EXCEPT ![s] = "queued"]
  /\ queues' = queues \cup {s}
  /\ UNCHANGED <<task_map, session_queue, db_task, db_session>>

IsRefused(i) ==
  /\ request[i] = "inserted"
  /\ request' = [request EXCEPT ![i] = "rejected"]
  /\ UNCHANGED <<task_map, session_map, queues, session_queue, db_task, db_session>>

RowDisappears(i) ==
  /\ request[i] = "rejected"
  /\ request' = [request EXCEPT ![i] = "done"]
  /\ IF i \in Task
     THEN db_task' = [db_task EXCEPT ![i] = "absent"] /\ UNCHANGED db_session
     ELSE db_session' = [db_session EXCEPT ![i] = "absent"] /\ UNCHANGED db_task
  /\ UNCHANGED <<task_map, session_map, queues, session_queue>>

itemVars == <<request, task_map, session_map, queues, session_queue, db_task, db_session>>

(* What the requests of the service do to the items. *)
LEMMA ServiceClasses ==
  ASSUME Service, StepsAgree
  PROVE  \/ \E i \in Item : RowAppears(i) \/ IsRefused(i) \/ RowDisappears(i)
         \/ \E t \in Task : TaskAppears(t)
         \/ \E s \in Session : SessionAppears(s)
         \/ UNCHANGED itemVars
  <1>1. ASSUME NEW i \in Item, Insert(i) PROVE RowAppears(i)
    BY <1>1 DEF Insert, Client!InsertRow, RowAppears, StepsAgree
  <1>2. ASSUME NEW i \in Item, InsertLate(i) PROVE RowAppears(i)
    BY <1>2 DEF InsertLate, RowAppears
  <1>3. ASSUME NEW i \in Item, Add(i)
        PROVE  IF i \in Task THEN TaskAppears(i) ELSE i \in Session /\ SessionAppears(i)
    BY <1>3 DEF Add, Usable, Client!AddTask, Client!AddSession, Client!Accepts,
                Client!SessionTask, SessionTask, TaskAppears, SessionAppears, Item
  <1>4. ASSUME NEW i \in Item, Refuse(i) PROVE IsRefused(i)
    BY <1>4 DEF Refuse, IsRefused
  <1>5. ASSUME NEW i \in Item, Delete(i) PROVE RowDisappears(i)
    BY <1>5 DEF Delete, Client!DeleteRow, RowDisappears
  <1>6. ASSUME Cancel \/ Suspend PROVE UNCHANGED itemVars
    BY <1>6 DEF Cancel, Suspend, itemVars, Client!CancelTask, Client!CancelSession,
       Client!InsertSuspension, Client!SuspendMachine, Client!EndSuspension,
       Client!ResumeMachine
  <1>. QED  BY <1>1, <1>2, <1>3, <1>4, <1>5, <1>6 DEF Service

LEMMA ReconfigTypeInit == ReconfigInit => ReconfigTypeOK
  BY TypeInit, AdminAssumption DEF ReconfigInit, ReconfigTypeOK, AdminStep

LEMMA TypeService ==
  ASSUME ReconfigTypeOK, Service PROVE ReconfigTypeOK'
  <1>. USE DEF ReconfigTypeOK, TypeOK, Item
  <1>1. ASSUME NEW i \in Item, Insert(i) PROVE TypeOK'
    BY <1>1, ServiceFrame
       DEF Insert, Client!InsertRow, RequestStep, DbTaskState, DbSessionState, SessionState
  <1>2. ASSUME NEW i \in Item, InsertLate(i) PROVE TypeOK'
    BY <1>2, ServiceFrame
       DEF InsertLate, RequestStep, DbTaskState, DbSessionState, SessionState
  <1>3. ASSUME NEW t \in Task, Add(t) PROVE TypeOK'
    <2>1. /\ Client!AddTask(t) /\ UNCHANGED <<pc, shutting_down>>
      BY <1>3, ServiceFrame DEF Add
    <2>2. /\ request' \in [Item -> RequestStep] /\ task_map' \in [Task -> MemState]
          /\ session_queue' \subseteq Task /\ queues' \subseteq Item /\ notifier' = TRUE
      BY <2>1 DEF Client!AddTask, Client!WakeLauncher, MemState, Active, RequestStep
    <2>. QED  BY <1>3, <2>1, <2>2, ServiceFrame DEF Client!AddTask
  <1>4. ASSUME NEW s \in Session, Add(s) PROVE TypeOK'
    BY <1>4, ServiceFrame, NamesAssumption
       DEF Add, Client!AddSession, Client!WakeLauncher, SessionState, RequestStep
  <1>5. ASSUME NEW i \in Item, Refuse(i) PROVE TypeOK'
    BY <1>5, ServiceFrame DEF Refuse, RequestStep
  <1>6. ASSUME NEW i \in Item, Delete(i) PROVE TypeOK'
    BY <1>6, ServiceFrame
       DEF Delete, Client!DeleteRow, RequestStep, DbTaskState, DbSessionState, SessionState
  <1>7. ASSUME Cancel PROVE TypeOK'
    BY <1>7, ServiceFrame
       DEF Cancel, Client!CancelTask, Client!CancelSession, Client!WakeLauncher
  <1>8. ASSUME Suspend PROVE TypeOK'
    <2>1. /\ UNCHANGED <<memVars, queueVars, task_cancel_requests,
                         session_cancel_requests, request, db_task, db_session>>
          /\ suspensions' \in Nat
          /\ db_suspension' \in Policy \cup {"off"}
      BY <1>8, AdminAssumption
         DEF Suspend, Client!InsertSuspension, Client!SuspendMachine,
             Client!EndSuspension, Client!ResumeMachine
    <2>2. /\ suspend_request' \in Policy \cup {"idle", "resume"}
          /\ suspension' \in Policy \cup {"off"}
          /\ suspend_cancel_requests' \subseteq Policy
          /\ notifier' \in BOOLEAN
      BY <1>8, AdminAssumption
         DEF Suspend, Client!InsertSuspension, Client!SuspendMachine,
             Client!EndSuspension, Client!ResumeMachine, Client!WakeLauncher,
             Client!Policy, Policy
    <2>. QED  BY <1>8, <2>1, <2>2, ServiceFrame
  <1>. QED
    BY <1>1, <1>2, <1>3, <1>4, <1>5, <1>6, <1>7, <1>8, ServiceFrame DEF Service

LEMMA PurgedTypes ==
  ASSUME TypeOK, Purged,
         task_cancel_requests' \subseteq task_cancel_requests,
         session_cancel_requests' \subseteq session_cancel_requests,
         UNCHANGED <<serviceVars, dbVars, boundVars, notified>>
  PROVE  TypeOK'
  <1>1. db_updates' \in Seq(DbUpdate) /\ messages' \in [Task -> Seq(Message)]
    BY DEF Purged
  <1>2. /\ task_map' \in [Task -> MemState] /\ session_map' \in [Session -> SessionState]
        /\ tasks_in_backend' \in [User -> Int] /\ job' \in [Task -> JobState]
    BY DEF Purged, MemState, SessionState, JobState
  <1>. QED
    BY <1>1, <1>2 DEF Purged, TypeOK, Pc

(* What is restored from the rows. *)
LEMMA RestoredTypes ==
  ASSUME TypeOK
  PROVE  /\ \A t \in Task : RestoredTask(t) \in MemState
         /\ \A s \in Session : RestoredSession(s) \in SessionState
         /\ \A u \in User :
              Cardinality({t \in Resumed : ~SessionTask(t) /\ Owner[t] = u}) \in Int
  <1>1. \A t \in Task : RestoredTask(t) \in MemState
    BY DEF RestoredTask, MemState, Active
  <1>2. \A s \in Session : RestoredSession(s) \in SessionState
    BY DEF RestoredSession, SessionState
  <1>3. \A u \in User :
          Cardinality({t \in Resumed : ~SessionTask(t) /\ Owner[t] = u}) \in Int
    BY TaskAssumption, FS_Subset, FS_CardinalityType DEF Resumed
  <1>. QED  BY <1>1, <1>2, <1>3

LEMMA TypeAdministration ==
  ASSUME ReconfigTypeOK, NotStarted, Administration PROVE ReconfigTypeOK'
  <1>. USE DEF ReconfigTypeOK, Admin, AdminStep
  <1>1. ASSUME NEW step \in {"update", "remove"}, NEW kind \in {"none", "unforced", "forced"},
               Begin(step, kind)
        PROVE  ReconfigTypeOK'
    BY <1>1, AdminAssumption DEF Begin, TypeOK
  <1>2. ASSUME NEW step, GiveUp(step) PROVE ReconfigTypeOK'
    BY <1>2 DEF GiveUp, TypeOK
  <1>3. CASE Record \/ Load \/ LoadFails
    BY <1>3 DEF Record, Load, LoadFails, TypeOK
  <1>4. CASE Count
    BY <1>4 DEF Count, TypeOK
  <1>5. CASE Stop
    BY <1>5 DEF Stop, Select, TypeOK, Pc
  <1>6. CASE Replace
    <2>1. TypeOK'
      BY <1>6, PurgedTypes DEF Replace, InheritCancelRequests
    <2>. QED  BY <1>6, <2>1 DEF Replace
  <1>7. CASE Rebuild
    <2>1. /\ task_map' \in [Task -> MemState] /\ session_map' \in [Session -> SessionState]
          /\ tasks_in_backend' \in [User -> Int]
      BY <1>7, RestoredTypes DEF Rebuild, Rebuilt
    <2>2. /\ queues' \subseteq Item /\ backend_id' \subseteq Task
          /\ suspension' \in Policy \cup {"off"} /\ notifier' \in BOOLEAN
      BY <1>7 DEF Rebuild, Resumed, Item, TypeOK
    <2>. QED  BY <1>7, <2>1, <2>2 DEF Rebuild, TypeOK, Pc
  <1>8. CASE RecordRebuilt
    <2>1. Restart
      BY <1>8 DEF RecordRebuilt, Restart
    <2>. QED  BY <1>8, <2>1, TypeRestart DEF RecordRebuilt
  <1>9. CASE Restarted
    <2>1. Restart
      BY <1>9 DEF Restarted, Restart
    <2>. QED  BY <1>9, <2>1, TypeRestart DEF Restarted
  <1>10. CASE RemoveRows
    BY <1>10 DEF RemoveRows, TypeOK, DbTaskState, DbSessionState, SessionState
  <1>11. CASE RemovalFails
    BY <1>11 DEF RemovalFails, TypeOK
  <1>12. CASE Purge
    <2>1. TypeOK'
      BY <1>12, PurgedTypes DEF Purge
    <2>. QED  BY <1>12, <2>1 DEF Purge
  <1>. QED
    BY <1>1, <1>2, <1>3, <1>4, <1>5, <1>6, <1>7, <1>8, <1>9, <1>10, <1>11, <1>12
       DEF Administration, BeginUpdate, BeginRemoval

(* The launcher's part of a reconfigured machine takes its events, steps and *)
(* writes, and the backend's.                                                *)
LEMMA LaunchClasses ==
  Launch => (Event \/ Section \/ WriteUpdate \/ Backend) /\ UNCHANGED adminVars
  BY DEF Launch, Event

LEMMA ReconfigTypeStep ==
  ASSUME ReconfigTypeOK, NotStarted, [ReconfigNext]_allVars PROVE ReconfigTypeOK'
  <1>1. CASE Launch
    BY <1>1, LaunchClasses, TypeEvent, TypeSection, TypeWrite, TypeBackend
       DEF ReconfigTypeOK
  <1>2. CASE UNCHANGED allVars
    BY <1>2 DEF allVars, vars, ReconfigTypeOK, TypeOK
  <1>. QED
    BY <1>1, <1>2, TypeService, TypeAdministration DEF ReconfigNext

-----------------------------------------------------------------------------
(* Cancels. *)

(* "Cancels accepted during a reconfiguration are not lost": whatever       *)
(* happens to the machine, a pending cancel of a task is only taken by a    *)
(* launcher in its section, or gone with a removed machine                  *)
(* (inherit_cancel_requests, restart_machine).                              *)
THEOREM CancelsOutliveReconfigurations == ReconfigSpec => CancelsAreInherited
  <1>. DEFINE Taken == task_cancel_requests \ task_cancel_requests'
              Justified == \A t \in Taken : pc = "section" \/ machine' = "absent"
  <1>1. ASSUME Service PROVE task_cancel_requests \subseteq task_cancel_requests'
    BY <1>1 DEF Service, Insert, InsertLate, Add, Refuse, Delete, Cancel, Suspend,
         Client!InsertRow, Client!AddTask, Client!AddSession, Client!DeleteRow,
         Client!CancelTask, Client!CancelSession, Client!InsertSuspension,
         Client!SuspendMachine, Client!EndSuspension, Client!ResumeMachine
  <1>2. ASSUME Administration, ~Purge PROVE UNCHANGED task_cancel_requests
    BY <1>2 DEF Administration, BeginUpdate, BeginRemoval, Begin, GiveUp, Record,
         Count, Stop, Replace, InheritCancelRequests, Load, LoadFails, Rebuild,
         RecordRebuilt, CancelOrphans, CloseDeadSession, Restarted, StartLauncher,
         RemoveRows, RemovalFails
  <1>3. ASSUME Purge PROVE machine' = "absent"
    BY <1>3 DEF Purge
  <1>4. ASSUME Launch PROVE pc = "section" \/ UNCHANGED task_cancel_requests
    <2>1. Section => pc = "section"
      BY WhileUp
    <2>2. Event \/ WriteUpdate \/ Backend => UNCHANGED task_cancel_requests
      BY DEF Event, BackendMessage, Notified, Shutdown, SessionEnd, PeriodicCheck,
             TaskSubmitted, IgnoreStateChange, TaskRunning, TaskEnded, WriteUpdate,
             Backend, JobAccepted, JobRejected, JobRuns, JobEnds, Report
    <2>. QED  BY <1>4, <2>1, <2>2, LaunchClasses
  <1>5. [ReconfigNext]_allVars => [Justified]_allVars
    BY <1>1, <1>2, <1>3, <1>4 DEF ReconfigNext
  <1>. QED  BY <1>5, PTL DEF ReconfigSpec, CancelsAreInherited

-----------------------------------------------------------------------------
(* Where the items are. *)

(* Unless the machine is being restored, its restoration will look at every *)
(* submission that is in progress.                                          *)
LEMMA KnownWhileUp ==
  IdleHasNoRow /\ Up => NewHasNoRow
  BY NamesAssumption DEF IdleHasNoRow, NewHasNoRow, HasRow, Item

Places == NotStarted /\ EachInItsPlace /\ NewIsAbsent /\ UpdatesNameKnown /\ IdleHasNoRow

LEMMA PlacesService ==
  ASSUME TypeOK, StepsAgree, Places, Service PROVE Places'
  <1>. USE DEF Places
  <1>0. /\ UNCHANGED <<pc, backend_id, running_session, trackVars, db_updates>>
        /\ Handed' = Handed
    BY ServiceFrame DEF Handed, Up
  <1>1. ASSUME NEW i \in Item, RowAppears(i) \/ IsRefused(i) \/ RowDisappears(i)
        PROVE  Places'
    <2>1. /\ UNCHANGED <<task_map, session_map, queues, session_queue>>
          /\ request[i] # "done" /\ request'[i] # "idle"
          /\ \A j \in Item \ {i} : request'[j] = request[j] /\ (HasRow(j)' <=> HasRow(j))
      BY <1>1 DEF RowAppears, IsRefused, RowDisappears, HasRow, Item, TypeOK
    <2>2. EachInItsPlace' /\ NotStarted'
      BY <1>0, <2>1, NothingMoves DEF placeVars, NotStarted
    <2>3. NewIsAbsent'
      BY <2>1 DEF NewIsAbsent, Item
    <2>4. UpdatesNameKnown'
      <3>1. \A k \in DOMAIN db_updates : Named(db_updates[k]) \subseteq Item
        BY DEF TypeOK, Named, DbUpdate, Item
      <3>. QED  BY <1>0, <2>1, <3>1 DEF UpdatesNameKnown
    <2>5. IdleHasNoRow'
      BY <2>1 DEF IdleHasNoRow
    <2>. QED  BY <2>2, <2>3, <2>4, <2>5
  <1>2. ASSUME NEW t \in Task, TaskAppears(t) PROVE Places'
    <2>1. /\ \A i \in Item : request'[i] = IF i = t THEN "done" ELSE request[i]
          /\ \A r \in Task : task_map'[r] = IF r = t THEN "waiting" ELSE task_map[r]
          /\ UNCHANGED <<session_map, db_task, db_session>>
          /\ t \notin Session /\ task_map[t] = "absent"
      BY <1>2, NamesAssumption DEF TaskAppears, NewIsAbsent, TypeOK, Item
    <2>2. NotStarted'
      <3>1. SessionTask(t) => running_session # NoSession
        BY <1>2, ParentAssumption, NamesAssumption DEF TaskAppears, SessionTask
      <3>. QED  BY <1>0, <1>2, <3>1 DEF TaskAppears, NotStarted
    <2>3. t \notin Queued \cup Handed
      BY <2>1 DEF EachInItsPlace, Active
    <2>4. queues' \cap session_queue' = {} /\ Queued' = Queued \cup {t}
      BY <1>2, <2>3 DEF TaskAppears, EachInItsPlace, Queued
    <2>5. \A s \in Session : s \in queues' <=> s \in queues
      BY <1>2, <2>1 DEF TaskAppears
    <2>6. EachInItsPlace'
      BY <1>0, <2>1, <2>3, <2>4, <2>5 DEF EachInItsPlace, Active
    <2>7. NewIsAbsent' /\ UpdatesNameKnown' /\ IdleHasNoRow'
      <3>1. \A k \in DOMAIN db_updates : Named(db_updates[k]) \subseteq Item
        BY DEF TypeOK, Named, DbUpdate, Item
      <3>. QED
        BY <1>0, <2>1, <3>1 DEF NewIsAbsent, UpdatesNameKnown, IdleHasNoRow, HasRow, Item
    <2>. QED  BY <2>2, <2>6, <2>7
  <1>3. ASSUME NEW s \in Session, SessionAppears(s) PROVE Places'
    <2>1. /\ \A i \in Item : request'[i] = IF i = s THEN "done" ELSE request[i]
          /\ \A r \in Session : session_map'[r] = IF r = s THEN "queued" ELSE session_map[r]
          /\ UNCHANGED <<task_map, db_task, db_session, session_queue>>
          /\ queues' = queues \cup {s}
          /\ s \notin Task /\ session_map[s] = "absent"
      BY <1>3, NamesAssumption DEF SessionAppears, NewIsAbsent, TypeOK, Item
    <2>2. NotStarted'
      BY <1>0, <2>1 DEF NotStarted
    <2>3. /\ session_queue \subseteq Task /\ Handed \subseteq Task
          /\ s \notin queues /\ s # running_session
      BY <2>1 DEF EachInItsPlace, TypeOK, Handed
    <2>4. queues' \cap session_queue' = {} /\ Queued' \cap Handed' = {}
      BY <1>0, <2>1, <2>3 DEF EachInItsPlace, Queued
    <2>5. \A t \in Task : task_map'[t] \in Active <=> t \in Queued' \cup Handed'
      BY <1>0, <2>1 DEF EachInItsPlace, Queued
    <2>6. \A r \in Session : /\ session_map'[r] = "queued" <=> r \in queues'
                             /\ session_map'[r] = "open" <=> r = running_session'
      BY <1>0, <2>1, <2>3 DEF EachInItsPlace
    <2>7. NewIsAbsent' /\ UpdatesNameKnown' /\ IdleHasNoRow'
      <3>1. \A k \in DOMAIN db_updates : Named(db_updates[k]) \subseteq Item
        BY DEF TypeOK, Named, DbUpdate, Item
      <3>. QED
        BY <1>0, <2>1, <3>1 DEF NewIsAbsent, UpdatesNameKnown, IdleHasNoRow, HasRow, Item
    <2>. QED  BY <2>2, <2>4, <2>5, <2>6, <2>7 DEF EachInItsPlace
  <1>4. ASSUME UNCHANGED itemVars PROVE Places'
    <2>1. EachInItsPlace'
      BY <1>0, <1>4, NothingMoves DEF itemVars, placeVars
    <2>. QED
      BY <1>0, <1>4, <2>1 DEF itemVars, NotStarted, NewIsAbsent, UpdatesNameKnown,
                              IdleHasNoRow, HasRow
  <1>. QED  BY <1>1, <1>2, <1>3, <1>4, ServiceClasses

(* The steps of an update or a removal that leave memory and rows alone. *)
Formal ==
  \/ BeginUpdate \/ BeginRemoval \/ GiveUp("update") \/ GiveUp("remove")
  \/ Record \/ Count \/ Stop \/ Load \/ LoadFails \/ RemovalFails

LEMMA FormalFrame ==
  ASSUME Formal
  PROVE  /\ UNCHANGED <<itemVars, backend_id, running_session, trackVars, db_updates,
                        db_backend_id, notified>>
         /\ pc' = pc \/ (pc = "select" /\ pc' = "section")
         /\ Unlocked
  BY DEF Formal, BeginUpdate, BeginRemoval, Begin, GiveUp, Record, Count, Stop,
         Select, Load, LoadFails, RemovalFails, Admin, itemVars, Unlocked

LEMMA PurgedPlaces ==
  ASSUME Purged PROVE NotStarted' /\ EachInItsPlace' /\ UpdatesNameKnown'
  <1>1. NotStarted' /\ UpdatesNameKnown'
    BY DEF Purged, NotStarted, UpdatesNameKnown
  <1>2. EachInItsPlace'
    BY NamesAssumption DEF Purged, EachInItsPlace, Queued, Handed, Up, Active
  <1>. QED  BY <1>1, <1>2

LEMMA PlacesRebuild ==
  ASSUME TypeOK, StepsAgree, Places, Rebuild PROVE Places'
  <1>. USE DEF Places
  <1>1. /\ Handed' = Resumed /\ session_queue' = {} /\ running_session' = NoSession
        /\ UNCHANGED <<submitted_tasks, cancelling, fail_reasons, request, db_task,
                       db_session, db_updates>>
        /\ pc' = "restoring"
    BY DEF Rebuild, NotStarted, Handed, Up
  <1>2. \A t \in Task : t \in queues' <=> RestoredTask(t) = "waiting"
    BY NamesAssumption DEF Rebuild, Rebuilt
  <1>3. \A s \in Session : s \in queues' <=> RestoredSession(s) = "queued"
    BY NamesAssumption DEF Rebuild
  <1>4. \A t \in Task : /\ RestoredTask(t) \in Active <=> t \in queues' \cup Resumed
                        /\ t \in queues' => t \notin Resumed
    BY <1>2 DEF RestoredTask, Active
  <1>5. \A s \in Session : RestoredSession(s) # "open" /\ s # NoSession
    BY NamesAssumption DEF RestoredSession
  <1>6. Queued' \cap Handed' = {}
    BY <1>1, <1>4 DEF Queued, Resumed
  <1>7. /\ \A t \in Task : task_map'[t] = RestoredTask(t)
        /\ \A s \in Session : session_map'[s] = RestoredSession(s)
    BY DEF Rebuild, Rebuilt
  <1>8. EachInItsPlace'
    BY <1>1, <1>3, <1>4, <1>5, <1>6, <1>7 DEF EachInItsPlace, Queued
  <1>9. NotStarted'
    BY <1>1 DEF Rebuild, NotStarted
  <1>10. NewIsAbsent'
    <2>1. \A i \in Item : request[i] # "done" => ~HasRow(i)
      BY DEF Rebuild, StepsAgree, IdleHasNoRow
    <2>2. /\ \A t \in Task : request[t] # "done" => RestoredTask(t) = "absent"
      BY <2>1 DEF RestoredTask, Resumed, LiveRow, HasRow, Item
    <2>3. /\ \A s \in Session : request[s] # "done" => RestoredSession(s) = "absent"
      BY <2>1, NamesAssumption DEF RestoredSession, HasRow, Item
    <2>. QED  BY <1>1, <1>7, <2>2, <2>3 DEF NewIsAbsent
  <1>11. UpdatesNameKnown' /\ IdleHasNoRow'
    BY <1>1 DEF UpdatesNameKnown, IdleHasNoRow, HasRow
  <1>. QED  BY <1>8, <1>9, <1>10, <1>11

LEMMA PlacesAdministration ==
  ASSUME TypeOK, StepsAgree, Places, Administration PROVE Places'
  <1>. USE DEF Places
  <1>1. CASE Formal
    <2>1. Handed' = Handed
      BY <1>1, FormalFrame DEF Handed, Up
    <2>2. EachInItsPlace'
      BY <1>1, <2>1, FormalFrame, NothingMoves DEF itemVars, placeVars
    <2>. QED
      BY <1>1, <2>2, FormalFrame DEF itemVars, NotStarted, NewIsAbsent,
         UpdatesNameKnown, IdleHasNoRow, HasRow
  <1>2. CASE Replace \/ Purge
    <2>1. /\ Purged /\ UNCHANGED <<request, db_task, db_session>>
      BY <1>2 DEF Replace, Purge, Admin
    <2>2. NewIsAbsent'
      BY <2>1 DEF Purged, NewIsAbsent
    <2>. QED
      BY <2>1, <2>2, PurgedPlaces DEF IdleHasNoRow, HasRow
  <1>3. CASE Rebuild
    BY <1>3, PlacesRebuild
  <1>4. CASE RecordRebuilt \/ Restarted
    <2>1. /\ Restart /\ UNCHANGED <<placeVars, request, db_updates>>
          /\ pc \in {"restoring", "starting"}
          /\ running_session' = NoSession /\ session_queue' = {}
      BY <1>4 DEF RecordRebuilt, Restarted, Restart, StartLauncher, CancelOrphans,
         CloseDeadSession, placeVars, NotStarted
    <2>2. EachInItsPlace'
      BY <2>1, PlacedRestart
    <2>3. NotStarted'
      BY <1>4 DEF RecordRebuilt, Restarted, StartLauncher, CancelOrphans,
         CloseDeadSession, NotStarted
    <2>4. \A i \in Item : HasRow(i)' => HasRow(i)
      BY <1>4, NamesAssumption DEF RecordRebuilt, Restarted, StartLauncher,
         CancelOrphans, Settle, Orphan, LiveRow, CloseDeadSession, DeadSessions, HasRow,
         TypeOK, Item
    <2>. QED
      BY <2>1, <2>2, <2>3, <2>4 DEF placeVars, NewIsAbsent, UpdatesNameKnown, IdleHasNoRow
  <1>5. CASE RemoveRows
    <2>1. UNCHANGED <<placeVars, pc, trackVars, backend_id, request, db_updates>>
      BY <1>5 DEF RemoveRows, Admin, placeVars
    <2>2. \A i \in Item : ~HasRow(i)'
      BY <1>5, NamesAssumption DEF RemoveRows, HasRow, Item
    <2>3. Handed' = Handed
      BY <2>1 DEF Handed, Up
    <2>. QED
      BY <2>1, <2>2, <2>3, NothingMoves DEF placeVars, NotStarted, NewIsAbsent,
         UpdatesNameKnown, IdleHasNoRow
  <1>. QED
    BY <1>1, <1>2, <1>3, <1>4, <1>5 DEF Administration, Formal

(* The steps of the launcher keep items where they belong, as they do       *)
(* without reconfigurations.                                                *)
LEMMA PlacesLaunch ==
  ASSUME TypeOK, Places, Launch PROVE Places'
  <1>. USE DEF Places
  <1>1. CASE Event \/ Section
    <2>1. Up /\ Up' /\ EachInItsPlace' /\ OnlyPlaced
      BY <1>1, WhileUp, PlacedEvent, PlacedSection, EventOnlyPlaced, SectionOnlyPlaced
    <2>2. Placement
      BY <2>1, KnownWhileUp DEF Placement
    <2>3. NewIsAbsent' /\ UpdatesNameKnown'
      BY <2>1, <2>2, NewWhenOnlyPlaced DEF New
    <2>4. IdleHasNoRow'
      BY <2>1 DEF OnlyPlaced, IdleHasNoRow, HasRow
    <2>. QED  BY <2>1, <2>3, <2>4 DEF NotStarted, Up
  <1>2. CASE WriteUpdate
    <2>1. UNCHANGED placeVars /\ Handed' = Handed /\ Up /\ Up'
      BY <1>2, WhileUp DEF WriteUpdate, placeVars, Handed
    <2>2. New'
      BY <1>2, <2>1, NewWrite, KnownWhileUp DEF New
    <2>3. IdleHasNoRow'
      BY <2>2, NamesAssumption DEF New, NewHasNoRow, IdleHasNoRow, HasRow, Item
    <2>. QED  BY <2>1, <2>2, <2>3, NothingMoves DEF New, NotStarted, Up
  <1>3. CASE Backend
    <2>1. UNCHANGED <<placeVars, trackVars, backend_id, pc, request, db_task,
                      db_session, db_updates>>
      BY <1>3 DEF Backend, JobAccepted, JobRejected, JobRuns, JobEnds, Report, placeVars
    <2>2. Handed' = Handed
      BY <2>1 DEF Handed, Up
    <2>. QED
      BY <2>1, <2>2, NothingMoves DEF placeVars, NotStarted, NewIsAbsent,
         UpdatesNameKnown, IdleHasNoRow, HasRow
  <1>. QED  BY <1>1, <1>2, <1>3, LaunchClasses

-----------------------------------------------------------------------------
(* The steps of updates and removals. *)

LEMMA LaunchSteps ==
  ASSUME Launch
  PROVE  /\ UNCHANGED adminVars
         /\ pc' = pc \/ (pc \in {"select", "section", "flush"} /\ pc' \notin {"restoring", "starting"})
         /\ pc \in {"down", "stopped", "restoring", "starting"} => UNCHANGED <<request, pc>>
  <1>1. /\ Event => pc = "select" /\ pc' \in {"select", "section"}
        /\ Section => pc = "section" /\ (pc' = "section" \/ pc' = AfterSection)
        /\ WriteUpdate => pc = "flush" /\ (pc' = NextIteration \/ pc' = "flush")
        /\ Backend => UNCHANGED <<pc, request>>
    BY DEF Event, BackendMessage, Notified, Shutdown, SessionEnd, PeriodicCheck,
           TaskSubmitted, IgnoreStateChange, TaskRunning, TaskEnded, Select,
           Section, CancelRunningSession, CancelQueuedSession, DropSessionCancel,
           DropQueuedSession, OpenSession, CancelSubmittedTask, CancelQueuedTask,
           DropTaskCancel, FailQueuedTask, FailSessionQueue, FailSessionTask,
           FailSuspendedTask, SubmitTask, FailOverLimit, CloseSuspendedSession,
           SuspensionApplied, SectionDone, InSection, Suspending, Dispatching,
           WriteUpdate, Backend, JobAccepted, JobRejected, JobRuns, JobEnds, Report
  <1>. QED
    BY <1>1, LaunchClasses DEF AfterSection, NextIteration

LEMMA StepsAgreeStep ==
  ASSUME TypeOK, StepsAgree, ReconfigNext PROVE StepsAgree'
  <1>. USE DEF StepsAgree, Stopped
  <1>1. CASE Service
    <2>1. UNCHANGED <<pc, adminVars>>
      BY <1>1, ServiceFrame
    <2>2. admin = "rebuild" => \A i \in Item : request'[i] \in {"idle", "done"}
      BY <1>1, ServiceClasses DEF RowAppears, IsRefused, RowDisappears, TaskAppears,
         SessionAppears, itemVars, Item
    <2>. QED  BY <2>1, <2>2
  <1>2. CASE Formal
    BY <1>2 DEF Formal, BeginUpdate, BeginRemoval, Begin, GiveUp, Record, Count, Stop,
       Select, Load, LoadFails, RemovalFails, Admin
  <1>3. CASE Administration /\ ~Formal
    BY <1>3 DEF Administration, Formal, Replace, Purge, Purged, Rebuild, RecordRebuilt,
       CancelOrphans, CloseDeadSession, Restarted, StartLauncher, RemoveRows, Admin
  <1>4. CASE Launch
    BY <1>4, LaunchSteps
  <1>. QED  BY <1>1, <1>2, <1>3, <1>4 DEF ReconfigNext

-----------------------------------------------------------------------------
(* Rows. *)

LEMMA RowsService ==
  ASSUME TypeOK, StepsAgree, Places, Rows, Service PROVE Rows'
  <1>. USE DEF Places
  <1>0. UNCHANGED <<pc, db_updates, db_backend_id>> /\ (Up' <=> Up)
    BY ServiceFrame DEF Up
  <1>1. /\ \A t : OutcomePending(t)' <=> OutcomePending(t)
        /\ Flushed'
    BY <1>0, PendingSame DEF Rows, Flushed
  <1>2. \A k \in DOMAIN db_updates : Ends(db_updates[k]) \subseteq Named(db_updates[k])
    BY DEF Ends, Named
  <1>3. \A t \in Task : request[t] # "done" => ~OutcomePending(t)
    BY <1>2, PendingEnds DEF UpdatesNameKnown
  <1>4. ASSUME \A t \in Task : OutcomePending(t) =>
                 task_map'[t] = task_map[t] /\ db_task'[t] = db_task[t]
        PROVE  PendingIsReported' /\ PendingOnce'
    <2>1. \A k \in DOMAIN db_updates : Ends(db_updates[k]) \subseteq Task
      BY EndTypes DEF TypeOK
    <2>. QED
      BY <1>0, <1>4, <2>1, PendingEnds DEF Rows, PendingIsReported, PendingOnce, LiveRow
  <1>5. ASSUME NEW i \in Item, RowAppears(i) PROVE Rows'
    <2>1. /\ \A t \in Task : db_task'[t] = IF t = i THEN "waiting" ELSE db_task[t]
          /\ \A t \in Task : request'[t] = IF t = i THEN "inserted" ELSE request[t]
          /\ i \in Task => task_map[i] = "absent" /\ ~OutcomePending(i)
          /\ task_map' = task_map /\ request[i] = "idle"
          /\ pc \notin {"restoring", "starting"}
      BY <1>3, <1>5 DEF RowAppears, NewIsAbsent, TypeOK, Item, StepsAgree
    <2>2. PendingIsReported' /\ PendingOnce'
      BY <1>4, <2>1
    <2>3. ActiveIsLive' /\ NewIsLive' /\ ShownIsRecorded'
      BY <1>0, <1>1, <2>1 DEF Rows, ActiveIsLive, NewIsLive, ShownIsRecorded, LiveRow,
                              Active, Final
    <2>4. LiveIsKept'
      BY <1>0, <1>1, <2>1 DEF Rows, LiveIsKept, LiveRow
    <2>. QED  BY <1>1, <2>2, <2>3, <2>4 DEF Rows
  <1>6. ASSUME NEW i \in Item, IsRefused(i) PROVE Rows'
    <2>1. /\ \A t \in Task : request'[t] = IF t = i THEN "rejected" ELSE request[t]
          /\ request[i] = "inserted" /\ UNCHANGED <<task_map, db_task>>
          /\ pc \notin {"restoring", "starting"}
      BY <1>6 DEF IsRefused, TypeOK, Item, StepsAgree
    <2>2. PendingIsReported' /\ PendingOnce'
      BY <1>4, <2>1
    <2>. QED
      BY <1>0, <1>1, <2>1, <2>2 DEF Rows, ActiveIsLive, NewIsLive, LiveIsKept,
         ShownIsRecorded, LiveRow
  <1>7. ASSUME NEW i \in Item, RowDisappears(i) PROVE Rows'
    <2>1. /\ \A t \in Task : db_task'[t] = IF t = i THEN "absent" ELSE db_task[t]
          /\ \A t \in Task : request'[t] = IF t = i THEN "done" ELSE request[t]
          /\ i \in Task => task_map[i] = "absent" /\ ~OutcomePending(i)
          /\ task_map' = task_map
          /\ pc \notin {"restoring", "starting"}
      BY <1>3, <1>7 DEF RowDisappears, NewIsAbsent, TypeOK, Item, StepsAgree
    <2>2. PendingIsReported' /\ PendingOnce'
      BY <1>4, <2>1
    <2>3. ActiveIsLive' /\ NewIsLive' /\ ShownIsRecorded'
      BY <1>0, <1>1, <2>1 DEF Rows, ActiveIsLive, NewIsLive, ShownIsRecorded, LiveRow,
                              Active, Final
    <2>4. LiveIsKept'
      BY <1>0, <1>1, <2>1 DEF Rows, LiveIsKept, LiveRow
    <2>. QED  BY <1>1, <2>2, <2>3, <2>4 DEF Rows
  <1>8. ASSUME NEW t \in Task, TaskAppears(t) PROVE Rows'
    <2>1. /\ \A r \in Task : task_map'[r] = IF r = t THEN "waiting" ELSE task_map[r]
          /\ \A r \in Task : request'[r] = IF r = t THEN "done" ELSE request[r]
          /\ LiveRow(t) /\ ~OutcomePending(t) /\ UNCHANGED db_task
          /\ pc \notin {"restoring", "starting"}
      BY <1>3, <1>8 DEF TaskAppears, TypeOK, Item, Rows, NewIsLive, StepsAgree
    <2>2. PendingIsReported' /\ PendingOnce'
      BY <1>4, <2>1
    <2>3. ActiveIsLive' /\ NewIsLive' /\ ShownIsRecorded'
      BY <1>0, <1>1, <2>1 DEF Rows, ActiveIsLive, NewIsLive, ShownIsRecorded, LiveRow,
                              Active, Final
    <2>4. LiveIsKept'
      BY <1>0, <1>1, <2>1 DEF Rows, LiveIsKept, LiveRow, Active
    <2>. QED  BY <1>1, <2>2, <2>3, <2>4 DEF Rows
  <1>9. ASSUME UNCHANGED <<task_map, db_task>>,
               \A t \in Task : request'[t] = request[t]
        PROVE  Rows'
    <2>1. PendingIsReported' /\ PendingOnce'
      BY <1>4, <1>9
    <2>. QED
      BY <1>0, <1>1, <1>9, <2>1 DEF Rows, ActiveIsLive, NewIsLive, LiveIsKept,
         ShownIsRecorded, LiveRow, Orphan
  <1>10. ASSUME \/ \E s \in Session : SessionAppears(s)
                \/ UNCHANGED itemVars
         PROVE  UNCHANGED <<task_map, db_task>> /\ \A t \in Task : request'[t] = request[t]
    BY <1>10, NamesAssumption DEF SessionAppears, itemVars, TypeOK, Item
  <1>. QED  BY <1>5, <1>6, <1>7, <1>8, <1>9, <1>10, ServiceClasses

(* Dropping the old incarnation forgets nothing that is not in the rows.    *)
LEMMA RowsReplace ==
  ASSUME TypeOK, Rows, Replace PROVE Rows'
  <1>1. /\ \A t \in Task : task_map'[t] = "absent"
        /\ db_updates' = <<>> /\ pc' = "down" /\ UNCHANGED <<request, db_task>>
    BY DEF Replace, Purged, Admin
  <1>2. PendingIsReported' /\ PendingOnce'
    BY <1>1 DEF PendingIsReported, PendingOnce
  <1>3. ActiveIsLive' /\ ShownIsRecorded' /\ Flushed' /\ LiveIsKept'
    BY <1>1 DEF ActiveIsLive, ShownIsRecorded, Flushed, LiveIsKept, Up, Active, Final
  <1>4. NewIsLive'
    BY <1>1 DEF Rows, NewIsLive, LiveRow
  <1>. QED  BY <1>2, <1>3, <1>4 DEF Rows

(* What the rows say is in memory afterwards. *)
LEMMA RowsRebuild ==
  ASSUME TypeOK, StepsAgree, Rows, Rebuild PROVE Rows'
  <1>1. /\ UNCHANGED <<request, db_updates, db_task, db_backend_id>>
        /\ pc = "down" /\ pc' = "restoring" /\ admin = "rebuild"
        /\ \A t \in Task : task_map'[t] = RestoredTask(t)
    BY DEF Rebuild, Rebuilt
  <1>2. \A t \in Task : /\ LiveRow(t)' <=> LiveRow(t)
                        /\ Orphan(t)' <=> Orphan(t)
    BY <1>1 DEF LiveRow, Orphan
  <1>3. \A t \in Task : /\ RestoredTask(t) \in Active => LiveRow(t)
                        /\ RestoredTask(t) \notin Final
                        /\ LiveRow(t) => (RestoredTask(t) \in Active <=> ~Orphan(t))
    BY DEF RestoredTask, Resumed, Orphan, Active, Final
  <1>4. db_updates' = <<>> /\ \A t : ~OutcomePending(t)'
    BY <1>1, NonePending DEF Rows, Flushed
  <1>5. PendingIsReported' /\ PendingOnce'
    BY <1>4 DEF PendingIsReported, PendingOnce
  <1>6. \A t \in Task : request'[t] \notin {"inserted", "rejected"}
    BY <1>1 DEF StepsAgree, Item
  <1>7. ActiveIsLive' /\ NewIsLive' /\ ShownIsRecorded' /\ Flushed'
    BY <1>1, <1>2, <1>3, <1>4, <1>6
       DEF ActiveIsLive, NewIsLive, ShownIsRecorded, Flushed
  <1>8. LiveIsKept'
    BY <1>1, <1>2, <1>3 DEF LiveIsKept, Up
  <1>. QED  BY <1>5, <1>7, <1>8 DEF Rows

LEMMA RowsAdministration ==
  ASSUME TypeOK, StepsAgree, Places, Rows, Administration, ~RemoveRows, ~Purge
  PROVE  Rows'
  <1>1. CASE Formal
    <2>1. /\ UNCHANGED <<task_map, db_task, db_backend_id, request, db_updates>>
          /\ pc' = pc \/ (pc = "select" /\ pc' = "section")
      BY <1>1, FormalFrame DEF itemVars
    <2>2. /\ \A t \in Task : LiveRow(t)' <=> LiveRow(t)
          /\ \A t \in Task : Orphan(t)' <=> Orphan(t)
          /\ \A t : OutcomePending(t)' <=> OutcomePending(t)
          /\ Up' <=> Up
      BY <2>1, PendingSame DEF LiveRow, Orphan, Up
    <2>3. PendingIsReported' /\ PendingOnce'
      BY <2>1 DEF Rows, PendingIsReported, PendingOnce, LiveRow
    <2>4. LiveIsKept' /\ Flushed'
      BY <2>1, <2>2 DEF Rows, LiveIsKept, Flushed
    <2>. QED
      BY <2>1, <2>2, <2>3, <2>4 DEF Rows, ActiveIsLive, NewIsLive, ShownIsRecorded
  <1>2. CASE RecordRebuilt \/ Restarted
    <2>1. Restart /\ pc \in {"restoring", "starting"}
      BY <1>2 DEF RecordRebuilt, Restarted, Restart, StartLauncher, CancelOrphans,
         CloseDeadSession
    <2>2. NewHasNoRow
      BY <2>1, NamesAssumption DEF StepsAgree, Places, IdleHasNoRow, NewHasNoRow, HasRow, Item
    <2>. QED  BY <2>1, <2>2, RowsRestart DEF Places, Placement
  <1>. QED
    BY <1>1, <1>2, RowsReplace, RowsRebuild DEF Administration, Formal

LEMMA RowsLaunch ==
  ASSUME TypeOK, Places, Rows, Launch PROVE Rows'
  <1>1. CASE Event \/ Section
    <2>1. Up /\ Up' /\ UNCHANGED <<request, db_task>> /\ SettledOrNot
      BY <1>1, WhileUp, EventOnlyPlaced, SectionOnlyPlaced, EventSettles, SectionSettles
         DEF Places, OnlyPlaced
    <2>2. Flushed'
      <3>1. CASE Event
        <4>1. pc = "select" /\ (pc' = "section" \/ UNCHANGED <<pc, db_updates>>)
          BY <3>1 DEF Event, BackendMessage, Notified, Shutdown, SessionEnd,
             PeriodicCheck, TaskSubmitted, IgnoreStateChange, TaskRunning, TaskEnded,
             Select
        <4>. QED  BY <4>1 DEF Rows, Flushed
      <3>2. CASE Section
        <4>1. pc' = "section" \/ (pc' = AfterSection /\ UNCHANGED db_updates)
          BY <3>2 DEF Section, CancelRunningSession, CancelQueuedSession,
             DropSessionCancel, DropQueuedSession, OpenSession, CancelSubmittedTask,
             CancelQueuedTask, DropTaskCancel, FailQueuedTask, FailSessionQueue,
             FailSessionTask, FailSuspendedTask, SubmitTask, FailOverLimit,
             CloseSuspendedSession, SuspensionApplied, SectionDone, InSection,
             Suspending, Dispatching
        <4>. QED  BY <4>1 DEF AfterSection, Flushed
      <3>. QED  BY <1>1, <3>1, <3>2
    <2>. QED
      BY <2>1, <2>2, RowsWhenSettled, RowsWhenNoneSettled DEF SettledOrNot, Places
  <1>2. CASE WriteUpdate
    <2>1. Placement
      BY <1>2, WhileUp, KnownWhileUp DEF Places, Placement
    <2>. QED  BY <1>2, <2>1, RowsWrite
  <1>3. CASE Backend
    <2>1. UNCHANGED <<task_map, db_task, db_backend_id, request, db_updates, pc>>
      BY <1>3 DEF Backend, JobAccepted, JobRejected, JobRuns, JobEnds, Report
    <2>2. /\ \A t \in Task : LiveRow(t)' <=> LiveRow(t)
          /\ \A t \in Task : Orphan(t)' <=> Orphan(t)
          /\ \A t : OutcomePending(t)' <=> OutcomePending(t)
          /\ Up' <=> Up
      BY <2>1, PendingSame DEF LiveRow, Orphan, Up
    <2>3. PendingIsReported'
      BY <2>1 DEF Rows, PendingIsReported, LiveRow
    <2>. QED
      BY <2>1, <2>2, <2>3 DEF Rows, ActiveIsLive, NewIsLive, PendingOnce, LiveIsKept,
         ShownIsRecorded, Flushed
  <1>. QED  BY <1>1, <1>2, <1>3, LaunchClasses

LEMMA SessionsService ==
  ASSUME TypeOK, StepsAgree, Places, SessionsHaveRows, Service PROVE SessionsHaveRows'
  <1>. USE DEF Places
  <1>0. UNCHANGED db_updates
    BY ServiceFrame
  <1>1. \A k \in DOMAIN db_updates : /\ db_updates[k] \in DbUpdate
                                     /\ request[db_updates[k].of] = "done"
    BY DEF TypeOK, UpdatesNameKnown, Named
  <1>2. \A k \in DOMAIN db_updates :
          db_updates[k].op \in {"opened", "closed"} => db_updates[k].of \in Session
    BY <1>1 DEF DbUpdate
  <1>3. ASSUME \A s \in Session : request[s] # "rejected" /\ db_session[s] # "absent"
                                    => db_session'[s] # "absent",
               \A s \in Session :
                 session_map'[s] # "absent" \/ request'[s] \in {"inserted", "rejected"}
                   => db_session'[s] # "absent"
        PROVE  SessionsHaveRows'
    BY <1>0, <1>1, <1>2, <1>3 DEF SessionsHaveRows
  <1>4. ASSUME NEW i \in Item, RowAppears(i) \/ IsRefused(i) \/ RowDisappears(i)
        PROVE  SessionsHaveRows'
    BY <1>3, <1>4, NamesAssumption DEF RowAppears, IsRefused, RowDisappears, SessionsHaveRows,
       NewIsAbsent, Item, TypeOK
  <1>5. ASSUME NEW t \in Task, TaskAppears(t) PROVE SessionsHaveRows'
    BY <1>3, <1>5, NamesAssumption DEF TaskAppears, SessionsHaveRows, Item, TypeOK
  <1>6. ASSUME NEW s \in Session, SessionAppears(s) PROVE SessionsHaveRows'
    BY <1>3, <1>6, NamesAssumption DEF SessionAppears, SessionsHaveRows, Item, TypeOK
  <1>7. ASSUME UNCHANGED itemVars PROVE SessionsHaveRows'
    BY <1>0, <1>7 DEF itemVars, SessionsHaveRows
  <1>. QED  BY <1>4, <1>5, <1>6, <1>7, ServiceClasses

LEMMA SessionsAdministration ==
  ASSUME TypeOK, StepsAgree, Rows, SessionsHaveRows, Administration, ~RemoveRows, ~Purge
  PROVE  SessionsHaveRows'
  <1>1. CASE Formal
    BY <1>1, FormalFrame DEF itemVars, SessionsHaveRows
  <1>2. CASE Replace
    BY <1>2 DEF Replace, Purged, Admin, SessionsHaveRows
  <1>3. CASE Rebuild
    <2>1. /\ \A s \in Session : session_map'[s] = RestoredSession(s)
          /\ UNCHANGED <<db_session, request>>
          /\ db_updates' = <<>>
      BY <1>3 DEF Rebuild, Rows, Flushed
    <2>2. \A s \in Session : RestoredSession(s) # "absent" => db_session[s] # "absent"
      BY DEF RestoredSession
    <2>. QED  BY <2>1, <2>2 DEF SessionsHaveRows
  <1>4. CASE RecordRebuilt \/ Restarted
    <2>1. UNCHANGED <<session_map, request, db_updates>>
      BY <1>4 DEF RecordRebuilt, Restarted, StartLauncher, CancelOrphans, CloseDeadSession
    <2>2. db_updates = <<>>
      BY <1>4 DEF RecordRebuilt, Restarted, StartLauncher, CancelOrphans,
         CloseDeadSession, Rows, Flushed
    <2>3. \A s \in Session : db_session[s] # "absent" => db_session'[s] # "absent"
      BY <1>4 DEF RecordRebuilt, Restarted, StartLauncher, CancelOrphans,
         CloseDeadSession, TypeOK
    <2>. QED  BY <2>1, <2>2, <2>3 DEF SessionsHaveRows
  <1>. QED
    BY <1>1, <1>2, <1>3, <1>4 DEF Administration, Formal

(* No write to the rows inserts one. *)
LEMMA WriteInsertsNothing ==
  ASSUME TypeOK, Rows, SessionsHaveRows, WriteUpdate
  PROVE  \A i \in Item : HasRow(i)' <=> HasRow(i)
  <1>. DEFINE u == Head(db_updates)
  <1>1. /\ db_updates # <<>> /\ db_updates \in Seq(DbUpdate) /\ u \in DbUpdate
        /\ 1 \in DOMAIN db_updates /\ u = db_updates[1]
    BY RemainingUpdates DEF WriteUpdate, TypeOK
  <1>2. \A t \in Task : db_task'[t] = IF t \in Ends(u) THEN EndState(u) ELSE db_task[t]
    BY DEF WriteUpdate, Settle, Ends, EndState, TypeOK
  <1>3. \A t \in Ends(u) : t \in Task /\ LiveRow(t) /\ EndState(u) \in Final
    BY <1>1, EndTypes DEF Rows, PendingIsReported
  <1>4. \A t \in Task : HasRow(t)' <=> HasRow(t)
    BY <1>2, <1>3 DEF HasRow, LiveRow, Final
  <1>5. u.op \in {"opened", "closed"} => u.of \in Session /\ db_session[u.of] # "absent"
    BY <1>1 DEF SessionsHaveRows, DbUpdate
  <1>6. \A s \in Session : db_session'[s] # "absent" <=> db_session[s] # "absent"
    BY <1>5 DEF WriteUpdate, TypeOK
  <1>7. \A s \in Session : HasRow(s)' <=> HasRow(s)
    BY <1>6, NamesAssumption DEF HasRow
  <1>. QED  BY <1>4, <1>7 DEF Item

LEMMA SessionsLaunch ==
  ASSUME TypeOK, Places, Rows, SessionsHaveRows, Launch PROVE SessionsHaveRows'
  <1>. USE DEF Places
  <1>1. CASE Event \/ Section
    <2>1. OnlyPlaced
      BY <1>1, EventOnlyPlaced, SectionOnlyPlaced
    <2>2. \A s \in Session : s \in queues \/ s = running_session => db_session[s] # "absent"
      BY DEF EachInItsPlace, SessionsHaveRows
    <2>3. \A s \in Session :
            session_map'[s] # "absent" \/ request'[s] \in {"inserted", "rejected"}
              => db_session'[s] # "absent"
      BY <2>1, <2>2 DEF OnlyPlaced, SessionsHaveRows
    <2>4. ASSUME NEW u, UpdateOf(u), u.op \in {"opened", "closed"}
          PROVE  db_session[u.of] # "absent"
      BY <2>2, <2>4 DEF UpdateOf
    <2>5. ASSUME NEW k \in DOMAIN db_updates', db_updates'[k].op \in {"opened", "closed"}
          PROVE  db_session'[db_updates'[k].of] # "absent"
      <3>1. db_updates \in Seq(DbUpdate) /\ UNCHANGED db_session
        BY <2>1 DEF TypeOK, OnlyPlaced
      <3>2. ASSUME NEW u, UpdateOf(u), db_updates' = Append(db_updates, u)
            PROVE  db_session[db_updates'[k].of] # "absent"
        <4>1. \/ k \in DOMAIN db_updates /\ db_updates'[k] = db_updates[k]
              \/ db_updates'[k] = u
          BY <3>1, <3>2, AppendedUpdate
        <4>. QED  BY <2>4, <2>5, <3>2, <4>1 DEF SessionsHaveRows
      <3>3. ASSUME UNCHANGED db_updates PROVE db_session[db_updates'[k].of] # "absent"
        BY <2>5, <3>3 DEF SessionsHaveRows
      <3>4. \/ UNCHANGED db_updates
            \/ \E u : UpdateOf(u) /\ db_updates' = Append(db_updates, u)
        BY <2>1 DEF OnlyPlaced
      <3>5. db_session[db_updates'[k].of] # "absent"
        BY <3>2, <3>3, <3>4
      <3>. QED  BY <3>1, <3>5
    <2>. QED  BY <2>3, <2>5 DEF SessionsHaveRows
  <1>2. CASE WriteUpdate
    <2>1. /\ db_updates # <<>> /\ db_updates' = Tail(db_updates)
          /\ db_updates \in Seq(DbUpdate) /\ UNCHANGED <<session_map, request>>
      BY <1>2 DEF WriteUpdate, TypeOK
    <2>2. \A s \in Session : db_session'[s] # "absent" <=> db_session[s] # "absent"
      BY <1>2, WriteInsertsNothing, NamesAssumption DEF HasRow, Item
    <2>3. \A k \in DOMAIN db_updates :
            db_updates[k].op \in {"opened", "closed"} => db_updates[k].of \in Session
      BY <2>1 DEF DbUpdate
    <2>4. \A k \in DOMAIN db_updates' :
            k + 1 \in DOMAIN db_updates /\ db_updates'[k] = db_updates[k + 1]
      BY <2>1, RemainingUpdates
    <2>. QED  BY <2>1, <2>2, <2>3, <2>4 DEF SessionsHaveRows
  <1>3. CASE Backend
    BY <1>3 DEF Backend, JobAccepted, JobRejected, JobRuns, JobEnds, Report,
                SessionsHaveRows
  <1>. QED  BY <1>1, <1>2, <1>3, LaunchClasses

-----------------------------------------------------------------------------
(* How often an end is reported. *)

(* Without the reports of a launcher, the counts stay as they were. *)
LEMMA SameReports ==
  ASSUME TypeOK, ReportsAreCounted, UNCHANGED notified,
         \A t \in Task : OutcomePending(t) /\ LiveRow(t)' => OutcomePending(t)',
         \A t \in Task : /\ request'[t] = "idle" => request[t] = "idle"
                         /\ task_map'[t] \in Final => task_map[t] \in Final
                         /\ LiveRow(t)' => LiveRow(t) \/ request[t] = "idle"
  PROVE  ReportsAreCounted'
  <1>1. \A t \in Task : notified[t] \in Nat
    BY DEF TypeOK
  <1>. QED  BY <1>1 DEF ReportsAreCounted

LEMMA ReportsService ==
  ASSUME TypeOK, StepsAgree, ReportsAreCounted, Service PROVE ReportsAreCounted'
  <1>1. /\ UNCHANGED <<notified, db_updates>>
        /\ \A t : OutcomePending(t)' <=> OutcomePending(t)
    BY ServiceFrame, PendingSame
  <1>2. ASSUME NEW t \in Task
        PROVE  /\ request'[t] = "idle" => request[t] = "idle"
               /\ task_map'[t] \in Final => task_map[t] \in Final
               /\ LiveRow(t)' => LiveRow(t) \/ request[t] = "idle"
    BY ServiceClasses DEF RowAppears, IsRefused, RowDisappears, TaskAppears,
       SessionAppears, itemVars, LiveRow, TypeOK, Item, Final
  <1>. QED  BY <1>1, <1>2, SameReports

LEMMA ReportsAdministration ==
  ASSUME TypeOK, StepsAgree, Gone => NothingIsLeft, ~Gone => Rows, ReportsAreCounted,
         Administration
  PROVE  ReportsAreCounted'
  <1>0. Stopped => db_updates = <<>>
    BY DEF NothingIsLeft, Rows, Flushed, Stopped
  <1>1. CASE Formal
    BY <1>1, FormalFrame, PendingSame, SameReports DEF itemVars, LiveRow
  <1>2. CASE Replace \/ Purge \/ RemoveRows
    <2>1. /\ UNCHANGED <<notified, request>>
          /\ \A t \in Task : /\ task_map'[t] \in Final => task_map[t] \in Final
                             /\ LiveRow(t)' => LiveRow(t)
      BY <1>2 DEF Replace, Purge, Purged, RemoveRows, Admin, LiveRow, Final
    <2>2. db_updates = <<>>
      BY <1>0, <1>2 DEF Replace, Purge, RemoveRows, Admin, StepsAgree
    <2>. QED  BY <2>1, <2>2, NonePending, SameReports
  <1>3. CASE Rebuild \/ RecordRebuilt \/ Restarted
    <2>1. UNCHANGED <<request, notified, db_updates>>
      BY <1>3 DEF Rebuild, RecordRebuilt, Restarted, StartLauncher, CancelOrphans,
         CloseDeadSession, Admin
    <2>2. \A t \in Task : /\ task_map'[t] \in Final => task_map[t] \in Final
                          /\ LiveRow(t)' => LiveRow(t)
      BY <1>3 DEF Rebuild, Rebuilt, RestoredTask, RecordRebuilt, Restarted, StartLauncher,
         CancelOrphans, Settle, CloseDeadSession, LiveRow, Final
    <2>. QED  BY <2>1, <2>2, PendingSame, SameReports
  <1>. QED
    BY <1>1, <1>2, <1>3 DEF Administration, Formal

LEMMA ReportsLaunch ==
  ASSUME TypeOK, Places, Rows, ReportsAreCounted, Launch PROVE ReportsAreCounted'
  <1>1. CASE Event \/ Section
    <2>1. Placement
      BY <1>1, WhileUp, KnownWhileUp DEF Places, Placement
    <2>. QED  BY <1>1, <2>1, ReportsLauncher
  <1>2. CASE WriteUpdate
    <2>1. /\ UNCHANGED <<task_map, request, notified>>
          /\ db_updates # <<>> /\ db_updates' = Tail(db_updates)
      BY <1>2 DEF WriteUpdate
    <2>2. \A t : OutcomePending(t) <=> OutcomePending(t)' \/ t \in Ends(Head(db_updates))
      BY <2>1, PendingRemains
    <2>3. \A t \in Task : LiveRow(t)' => LiveRow(t) /\ t \notin Ends(Head(db_updates))
      <3>1. Head(db_updates) \in DbUpdate
        BY <2>1 DEF TypeOK
      <3>. QED
        BY <1>2, <3>1, EndTypes DEF WriteUpdate, Settle, LiveRow, Ends, EndState, Final,
           DbUpdate
    <2>. QED  BY <2>1, <2>2, <2>3, SameReports
  <1>3. CASE Backend
    <2>1. UNCHANGED <<task_map, request, notified, db_updates, db_task>>
      BY <1>3 DEF Backend, JobAccepted, JobRejected, JobRuns, JobEnds, Report
    <2>. QED  BY <2>1, PendingSame, SameReports DEF LiveRow
  <1>. QED  BY <1>1, <1>2, <1>3, LaunchClasses

-----------------------------------------------------------------------------
(* Removals. *)

(* A launcher that is at work has its machine. *)
LEMMA WorkingIsNotGone ==
  ASSUME StepsAgree, Event \/ Section \/ WriteUpdate PROVE ~Gone
  BY WhileUp DEF StepsAgree, Stopped, Gone

(* The rows of a machine that is removed stay removed. *)
LEMMA GoneStep ==
  ASSUME TypeOK, StepsAgree, Gone => NothingIsLeft, ~Gone => Rows, ReconfigNext
  PROVE  /\ Gone' => NothingIsLeft'
         /\ ~Gone' => ~Gone /\ ~Purge /\ ~RemoveRows
  <1>1. CASE Service
    <2>1. (Gone' <=> Gone) /\ UNCHANGED db_updates
      BY <1>1, ServiceFrame DEF Gone
    <2>2. Gone => \A i \in Item : HasRow(i)' => HasRow(i)
      BY <1>1, ServiceClasses, NamesAssumption
         DEF RowAppears, IsRefused, RowDisappears, TaskAppears, SessionAppears, itemVars,
             HasRow, Gone, TypeOK, Item
    <2>3. ~Purge /\ ~RemoveRows
      BY <1>1, ServiceFrame DEF Purge, RemoveRows, Admin
    <2>. QED  BY <2>1, <2>2, <2>3 DEF NothingIsLeft
  <1>2. CASE RemoveRows
    <2>1. db_updates' = <<>>
      BY <1>2 DEF RemoveRows, Admin, StepsAgree, Stopped, NothingIsLeft, Rows, Flushed, Gone
    <2>2. \A i \in Item : ~HasRow(i)'
      BY <1>2, NamesAssumption DEF RemoveRows, HasRow, Item
    <2>3. Gone'
      BY <1>2 DEF RemoveRows, Admin, Gone
    <2>. QED  BY <2>1, <2>2, <2>3 DEF NothingIsLeft
  <1>3. CASE Purge
    <2>1. Gone /\ Gone' /\ db_updates' = <<>> /\ UNCHANGED <<db_task, db_session>>
      BY <1>3 DEF Purge, Purged, Admin, Gone
    <2>. QED  BY <2>1 DEF NothingIsLeft, HasRow
  <1>4. ASSUME Administration, ~RemoveRows, ~Purge PROVE ~Gone /\ ~Gone'
    BY <1>4 DEF Administration, BeginUpdate, BeginRemoval, Begin, GiveUp, Record,
       Count, Stop, Replace, Load, LoadFails, Rebuild, RecordRebuilt, Restarted,
       RemovalFails, Admin, StepsAgree, Gone, CancelOrphans, CloseDeadSession
  <1>5. CASE Launch
    <2>1. (Gone' <=> Gone) /\ UNCHANGED adminVars
      BY <1>5, LaunchSteps DEF Gone
    <2>2. Gone => Backend
      BY <1>5, LaunchClasses, WorkingIsNotGone
    <2>3. Backend => UNCHANGED <<db_task, db_session, db_updates>>
      BY DEF Backend, JobAccepted, JobRejected, JobRuns, JobEnds, Report
    <2>4. ~Purge /\ ~RemoveRows
      BY <2>1 DEF Purge, RemoveRows, Admin
    <2>. QED  BY <2>1, <2>2, <2>3, <2>4 DEF NothingIsLeft, HasRow
  <1>. QED  BY <1>1, <1>2, <1>3, <1>4, <1>5 DEF ReconfigNext

LEMMA RemovalStep ==
  ASSUME TypeOK, StepsAgree, ~Gone => Rows /\ SessionsHaveRows, RemovalKeepsWork,
         ReconfigNext
  PROVE  RemovalKeepsWork'
  <1>. USE DEF RemovalKeepsWork
  <1>1. CASE Service
    <2>1. UNCHANGED adminVars
      BY <1>1, ServiceFrame
    <2>2. ASSUME admin = "stop", removal = "unforced"
          PROVE  \A i \in Item : HasRow(i)' => request'[i] \in {"inserted", "rejected"}
      <3>1. machine # "available"
        BY <2>2 DEF StepsAgree
      <3>2. ASSUME NEW j \in Item, RowAppears(j) \/ IsRefused(j) \/ RowDisappears(j)
            PROVE  \A i \in Item :
                     \/ i = j /\ (HasRow(i)' => request'[i] \in {"inserted", "rejected"})
                     \/ request'[i] = request[i] /\ (HasRow(i)' => HasRow(i))
        BY <3>2 DEF RowAppears, IsRefused, RowDisappears, HasRow, TypeOK, Item
      <3>3. ASSUME UNCHANGED itemVars
            PROVE  UNCHANGED request /\ \A i \in Item : HasRow(i)' <=> HasRow(i)
        BY <3>3 DEF itemVars, HasRow
      <3>4. \/ \E i \in Item : RowAppears(i) \/ IsRefused(i) \/ RowDisappears(i)
            \/ UNCHANGED itemVars
        BY <1>1, <3>1, ServiceClasses DEF TaskAppears, SessionAppears
      <3>5. \A i \in Item : HasRow(i) => request[i] \in {"inserted", "rejected"}
        BY <2>2
      <3>6. CASE UNCHANGED itemVars
        BY <3>3, <3>5, <3>6
      <3>7. ASSUME NEW j \in Item, RowAppears(j) \/ IsRefused(j) \/ RowDisappears(j),
                   NEW i \in Item, HasRow(i)'
            PROVE  request'[i] \in {"inserted", "rejected"}
        <4>1. \/ i = j /\ (HasRow(i)' => request'[i] \in {"inserted", "rejected"})
              \/ request'[i] = request[i] /\ (HasRow(i)' => HasRow(i))
          BY <3>2, <3>7
        <4>. QED  BY <3>5, <3>7, <4>1
      <3>. QED  BY <3>4, <3>6, <3>7
    <2>. QED  BY <2>1, <2>2
  <1>2. CASE Count
    BY <1>2 DEF Count, Admin, HasDependents, HasRow
  <1>3. CASE Record
    BY <1>3 DEF Record, Admin, StepsAgree
  <1>4. CASE Stop
    BY <1>4 DEF Stop, HasRow
  <1>5. ASSUME Administration, ~Count, ~Record, ~Stop PROVE admin' # "stop"
    BY <1>5 DEF Administration, BeginUpdate, BeginRemoval, Begin, GiveUp, Replace,
       Load, LoadFails, Rebuild, RecordRebuilt, CancelOrphans, CloseDeadSession,
       Restarted, RemoveRows, RemovalFails, Purge, Admin, StepsAgree
  <1>6. CASE Launch
    <2>1. UNCHANGED adminVars
      BY <1>6, LaunchSteps
    <2>2. ASSUME admin = "stop" PROVE Rows /\ SessionsHaveRows
      BY <2>2 DEF Gone, StepsAgree
    <2>3. ASSUME admin = "stop"
          PROVE  UNCHANGED request /\ \A i \in Item : HasRow(i)' => HasRow(i)
      <3>1. CASE WriteUpdate
        BY <2>2, <2>3, <3>1, WriteInsertsNothing DEF WriteUpdate
      <3>2. CASE Event \/ Section \/ Backend
        <4>1. UNCHANGED <<request, db_task, db_session>>
          BY <3>2 DEF Event, BackendMessage, Notified, Shutdown, SessionEnd, PeriodicCheck,
             TaskSubmitted, IgnoreStateChange, TaskRunning, TaskEnded,
             Section, CancelRunningSession, CancelQueuedSession, DropSessionCancel,
             DropQueuedSession, OpenSession, CancelSubmittedTask, CancelQueuedTask,
             DropTaskCancel, FailQueuedTask, FailSessionQueue, FailSessionTask,
             FailSuspendedTask, SubmitTask, FailOverLimit, CloseSuspendedSession,
             SuspensionApplied, SectionDone, InSection, Suspending, Dispatching,
             Backend, JobAccepted, JobRejected, JobRuns, JobEnds, Report
        <4>. QED  BY <4>1 DEF HasRow
      <3>. QED  BY <1>6, <3>1, <3>2, LaunchClasses
    <2>. QED  BY <2>1, <2>3
  <1>. QED  BY <1>1, <1>2, <1>3, <1>4, <1>5, <1>6 DEF ReconfigNext

-----------------------------------------------------------------------------
(* The invariant, and what follows from it. *)

LEMMA ReconfigInvInit == ReconfigInit => ReconfigInv
  <1>. SUFFICES ASSUME ReconfigInit PROVE ReconfigInv
    OBVIOUS
  <1>1. Init /\ machine = "available" /\ admin = "idle" /\ removal = "none"
    BY DEF ReconfigInit
  <1>2. ReconfigTypeOK /\ NotStarted /\ Placement
    BY <1>1, ReconfigTypeInit, PlacementInit DEF Init, NotStarted
  <1>3. Rows
    BY <1>1 DEF Init, Rows, ActiveIsLive, NewIsLive, PendingIsReported, PendingOnce,
           LiveIsKept, ShownIsRecorded, Flushed, LiveRow, Active, Final, Item, Up
  <1>4. SessionsHaveRows /\ ReportsAreCounted /\ StepsAgree /\ RemovalKeepsWork /\ ~Gone
    BY <1>1 DEF Init, SessionsHaveRows, ReportsAreCounted, LiveRow, Final, StepsAgree,
       RemovalKeepsWork, Gone, Item
  <1>5. IdleHasNoRow
    BY <1>1 DEF Init, IdleHasNoRow, HasRow, Item
  <1>. QED  BY <1>2, <1>3, <1>4, <1>5 DEF Placement, ReconfigInv

LEMMA ReconfigInvStep ==
  ASSUME ReconfigInv, [ReconfigNext]_allVars PROVE ReconfigInv'
  <1>. USE DEF ReconfigInv
  <1>0. TypeOK /\ Places
    BY DEF ReconfigTypeOK, Places
  <1>1. ReconfigTypeOK'
    BY ReconfigTypeStep
  <1>2. CASE ReconfigNext
    <2>1. StepsAgree' /\ RemovalKeepsWork'
      BY <1>0, <1>2, StepsAgreeStep, RemovalStep
    <2>2. /\ Gone' => NothingIsLeft'
          /\ ~Gone' => ~Gone /\ ~Purge /\ ~RemoveRows
      BY <1>0, <1>2, GoneStep
    <2>3. Places'
      BY <1>0, <1>2, PlacesService, PlacesAdministration, PlacesLaunch DEF ReconfigNext
    <2>4. ~Gone' => Rows' /\ SessionsHaveRows'
      BY <1>0, <1>2, <2>2, RowsService, RowsAdministration, RowsLaunch, SessionsService,
         SessionsAdministration, SessionsLaunch DEF ReconfigNext
    <2>5. ReportsAreCounted'
      <3>1. ASSUME Launch, Gone PROVE ReportsAreCounted'
        <4>1. Backend
          BY <3>1, LaunchClasses, WorkingIsNotGone
        <4>2. UNCHANGED <<task_map, request, notified, db_updates, db_task>>
          BY <4>1 DEF Backend, JobAccepted, JobRejected, JobRuns, JobEnds, Report
        <4>. QED  BY <1>0, <4>2, PendingSame, SameReports DEF LiveRow
      <3>. QED
        BY <1>0, <1>2, <3>1, ReportsService, ReportsAdministration, ReportsLaunch
           DEF ReconfigNext
    <2>. QED  BY <1>1, <2>1, <2>2, <2>3, <2>4, <2>5 DEF Places
  <1>3. CASE UNCHANGED allVars
    <2>1. UNCHANGED <<placeVars, submitted_tasks, backend_id, pc, request, db_updates,
                      cancelling, fail_reasons, db_task, db_session, db_backend_id,
                      notified, adminVars>>
      BY <1>3 DEF allVars, vars, placeVars
    <2>2. /\ Handed' = Handed /\ (Up' <=> Up)
          /\ \A i \in Item : HasRow(i)' <=> HasRow(i)
          /\ \A t \in Task : (LiveRow(t)' <=> LiveRow(t)) /\ (Orphan(t)' <=> Orphan(t))
          /\ \A t : OutcomePending(t)' <=> OutcomePending(t)
      BY <2>1, PendingSame DEF Handed, Up, HasRow, LiveRow, Orphan
    <2>3. Places' /\ StepsAgree' /\ RemovalKeepsWork' /\ (Gone' <=> Gone)
      BY <2>1, <2>2, NothingMoves DEF Places, placeVars, NotStarted, NewIsAbsent,
         UpdatesNameKnown, IdleHasNoRow, StepsAgree, Stopped, RemovalKeepsWork, Gone
    <2>4. NothingIsLeft => NothingIsLeft'
      BY <2>1, <2>2 DEF NothingIsLeft
    <2>5. SessionsHaveRows => SessionsHaveRows'
      BY <2>1 DEF SessionsHaveRows, placeVars
    <2>6. Rows => Rows'
      <3>1. PendingIsReported => PendingIsReported'
        BY <2>1 DEF PendingIsReported, LiveRow, placeVars
      <3>. QED
        BY <2>1, <2>2, <3>1 DEF Rows, ActiveIsLive, NewIsLive, PendingOnce, LiveIsKept,
           ShownIsRecorded, Flushed, placeVars
    <2>7. ReportsAreCounted'
      BY <2>1, <2>2 DEF ReportsAreCounted, placeVars
    <2>. QED  BY <1>1, <2>3, <2>4, <2>5, <2>6, <2>7 DEF Places
  <1>. QED  BY <1>2, <1>3

LEMMA ReconfigInvariant == ReconfigSpec => []ReconfigInv
  BY ReconfigInvInit, ReconfigInvStep, PTL DEF ReconfigSpec

(* "Queued work is kept" (update_machine): whenever a launcher is at work,  *)
(* each task that was accepted, by this or an earlier incarnation of the    *)
(* machine, and has no outcome, is queued or at the backend.                *)
THEOREM AcceptedWorkIsKept == ReconfigSpec => []WorkIsKept
  <1>1. ReconfigInv => WorkIsKept
    <2>. SUFFICES ASSUME ReconfigInv, pc \in {"select", "section"}, NEW t \in Task,
                         request[t] = "done", LiveRow(t), ~OutcomePending(t)
                  PROVE  t \in Queued \cup submitted_tasks
      BY DEF WorkIsKept
    <2>1. ~Gone /\ Up
      BY DEF ReconfigInv, StepsAgree, Gone, Stopped, Up
    <2>2. task_map[t] \in Active
      BY <2>1 DEF ReconfigInv, Rows, LiveIsKept
    <2>. QED  BY <2>1, <2>2 DEF ReconfigInv, EachInItsPlace, Handed
  <1>. QED  BY <1>1, ReconfigInvariant, PTL

(* However often the machine is updated, no end of a task is reported twice: *)
(* the launcher that is stopped writes its updates before the rows are read  *)
(* back, so that what ended is not run again (stop_machine_launcher).        *)
THEOREM EndsAreReportedOnce == ReconfigSpec => []EndedOnce
  <1>1. ReconfigInv => EndedOnce
    BY DEF ReconfigInv, ReconfigTypeOK, TypeOK, ReportsAreCounted, EndedOnce
  <1>. QED  BY <1>1, ReconfigInvariant, PTL

(* From the count of its rows to their deletion, a machine that is removed   *)
(* without force only has rows of requests that are about to be refused      *)
(* (remove_machine, check_not_suspended in add_task).                        *)
THEOREM RemovalFindsNoWork == ReconfigSpec => []RemovalKeepsWork
  <1>1. ReconfigInv => RemovalKeepsWork
    BY DEF ReconfigInv
  <1>. QED  BY <1>1, ReconfigInvariant, PTL

=============================================================================
