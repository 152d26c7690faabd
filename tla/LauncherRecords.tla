-------------------------- MODULE LauncherRecords ---------------------------
(* Theorems about one machine of the runner: what the rows of its tasks say  *)
(* and what is reported of them, that both implement TaskOutcome, and what   *)
(* becomes of the jobs of its backend and of suspensions.                    *)
EXTENDS LauncherProofs

USE DEF machineVars, launcherVars, outsideVars, memVars, queueVars,
        requestVars, trackVars, serviceVars, dbVars, backendVars, boundVars

(* The tasks that an update gives a final state, and the state.             *)
Ends(u) == CASE u.op = "outcome" -> {u.of}
             [] u.op = "closed"  -> u.tasks
             [] OTHER            -> {}
EndState(u) == IF u.op = "outcome" THEN u.state ELSE "cancelled"

(* A task in memory that is not final has a row without a final state, and  *)
(* nothing is about to give it one; nor has a submission in progress.       *)
ActiveIsLive ==
  \A t \in Task : task_map[t] \in Active => LiveRow(t) /\ ~OutcomePending(t)

NewIsLive ==
  \A t \in Task : request[t] \in {"inserted", "rejected"} => LiveRow(t)

(* What is about to be written was reported, is written to a row without a  *)
(* final state, and once.                                                   *)
PendingIsReported ==
  \A k \in DOMAIN db_updates : \A t \in Ends(db_updates[k]) :
    LiveRow(t) /\ task_map[t] = EndState(db_updates[k])

PendingOnce ==
  \A k, l \in DOMAIN db_updates :
    Ends(db_updates[k]) \cap Ends(db_updates[l]) # {} => k = l

(* Rows without a final state belong to something, at every stage of a      *)
(* restart too.                                                             *)
LiveIsKept ==
  \A t \in Task : LiveRow(t) =>
    /\ Up => \/ task_map[t] \in Active
             \/ request[t] \in {"inserted", "rejected"}
             \/ OutcomePending(t)
    /\ pc = "restoring" => (task_map[t] \in Active <=> ~Orphan(t))
    /\ pc = "starting" => task_map[t] \in Active

(* Memory and rows show the same final state; a service that starts shows   *)
(* none.                                                                    *)
ShownIsRecorded ==
  \A t \in Task : task_map[t] \in Final => Up /\ db_task[t] \in {"waiting", task_map[t]}

Flushed == pc \notin {"section", "flush"} => db_updates = <<>>

Rows == /\ ActiveIsLive /\ NewIsLive /\ PendingIsReported /\ PendingOnce
        /\ LiveIsKept /\ ShownIsRecorded /\ Flushed

(* What this life has reported: each end once, and each is recorded or about *)
(* to be.                                                                   *)
ReportsAreCounted ==
  \A t \in Task :
    /\ notified[t] <= 1
    /\ LiveRow(t) /\ ~OutcomePending(t) => notified[t] = 0
    /\ request[t] = "idle" => notified[t] = 0
    /\ task_map[t] \in Final => notified[t] >= 1

(* No backend id is recorded of what is yet to be handed to the backend.    *)
QueuedIsUnrecorded ==
  /\ \A t \in Task : t \in Queued \/ request[t] # "done" => t \notin db_backend_id
  /\ \A k \in DOMAIN db_updates :
       db_updates[k].op = "backend_id" => db_updates[k].of \notin Queued

-----------------------------------------------------------------------------
(* Updates that wait to be written. *)

LEMMA PendingEnds ==
  /\ \A t : OutcomePending(t) <=> \E k \in DOMAIN db_updates : t \in Ends(db_updates[k])
  /\ \A t : OutcomePending(t)' <=> \E k \in DOMAIN db_updates' : t \in Ends(db_updates'[k])
  BY DEF OutcomePending, Ends

LEMMA PendingAppended ==
  ASSUME TypeOK, NEW u, db_updates' = Append(db_updates, u)
  PROVE  \A t : OutcomePending(t)' <=> OutcomePending(t) \/ t \in Ends(u)
  <1>1. db_updates \in Seq(DbUpdate)
    BY DEF TypeOK
  <1>. QED  BY <1>1, AppendedUpdate, PendingEnds

LEMMA PendingRemains ==
  ASSUME TypeOK, db_updates # <<>>, db_updates' = Tail(db_updates)
  PROVE  \A t : OutcomePending(t) <=> OutcomePending(t)' \/ t \in Ends(Head(db_updates))
  <1>1. db_updates \in Seq(DbUpdate)
    BY DEF TypeOK
  <1>2. /\ 1 \in DOMAIN db_updates /\ Head(db_updates) = db_updates[1]
        /\ \A k \in DOMAIN db_updates' :
             k + 1 \in DOMAIN db_updates /\ db_updates'[k] = db_updates[k + 1]
        /\ \A k \in DOMAIN db_updates :
             k # 1 => k - 1 \in DOMAIN db_updates' /\ db_updates'[k - 1] = db_updates[k]
    BY <1>1, RemainingUpdates
  <1>3. ASSUME NEW t, OutcomePending(t)
        PROVE  OutcomePending(t)' \/ t \in Ends(Head(db_updates))
    BY <1>2, <1>3, PendingEnds
  <1>4. ASSUME NEW t, OutcomePending(t)' \/ t \in Ends(Head(db_updates))
        PROVE  OutcomePending(t)
    BY <1>2, <1>4, PendingEnds
  <1>. QED  BY <1>3, <1>4

LEMMA PendingSame ==
  ASSUME UNCHANGED db_updates PROVE \A t : OutcomePending(t)' <=> OutcomePending(t)
  BY DEF OutcomePending

LEMMA NonePending ==
  /\ db_updates = <<>> => \A t : ~OutcomePending(t)
  /\ db_updates' = <<>> => \A t : ~OutcomePending(t)'
  BY DEF OutcomePending

LEMMA EndTypes ==
  \A u \in DbUpdate : Ends(u) \subseteq Task /\ (Ends(u) # {} => EndState(u) \in Final)
  BY DEF DbUpdate, Ends, EndState, Final

(* A step of the launcher gives the tasks T, active until then, a final     *)
(* state and adds the update that records it, or it ends no task.           *)
Settled(T, state) ==
  /\ \A t \in T : task_map[t] \in Active
  /\ SetTasks(T, state)
  /\ \E u \in DbUpdate : /\ db_updates' = Append(db_updates, u)
                         /\ Ends(u) = T /\ EndState(u) = state

NoneSettled ==
  /\ UNCHANGED notified
  /\ \A t \in Task : \/ task_map'[t] = task_map[t]
                     \/ task_map[t] \in Active /\ task_map'[t] \in Active
  /\ \/ UNCHANGED db_updates
     \/ \E u \in DbUpdate : db_updates' = Append(db_updates, u) /\ Ends(u) = {}

SettledOrNot == NoneSettled \/ \E T \in SUBSET Task, state \in Final : Settled(T, state)

LEMMA SettlesOne ==
  ASSUME NEW t \in Task, NEW state \in Final, SettleTask(t, state), task_map[t] \in Active
  PROVE  SettledOrNot
  <1>1. Outcome(t, state) \in DbUpdate
    BY UpdateTypes
  <1>2. Ends(Outcome(t, state)) = {t} /\ EndState(Outcome(t, state)) = state
    BY DEF Outcome, Ends, EndState
  <1>3. Settled({t}, state)
    BY <1>1, <1>2 DEF SettleTask, Settled
  <1>. QED  BY <1>3 DEF SettledOrNot

LEMMA SettlesQueue ==
  ASSUME TypeOK, EachInItsPlace, CloseRunningSession, running_session # NoSession
  PROVE  SettledOrNot
  <1>. DEFINE u == [op |-> "closed", of |-> running_session, tasks |-> session_queue]
  <1>1. u \in DbUpdate /\ session_queue \in SUBSET Task
    BY UpdateTypes DEF TypeOK
  <1>2. Ends(u) = session_queue /\ EndState(u) = "cancelled" /\ "cancelled" \in Final
    BY DEF Ends, EndState, Final
  <1>3. \A t \in session_queue : task_map[t] \in Active
    BY <1>1 DEF EachInItsPlace, Queued
  <1>4. Settled(session_queue, "cancelled")
    BY <1>1, <1>2, <1>3 DEF CloseRunningSession, Settled
  <1>. QED  BY <1>1, <1>2, <1>4 DEF SettledOrNot

LEMMA EventSettles ==
  ASSUME TypeOK, EachInItsPlace, Event PROVE SettledOrNot
  <1>0. Handed = submitted_tasks /\ submitted_tasks \subseteq Task
    BY WhileUp DEF Handed, TypeOK
  <1>1. CASE SessionEnd
    BY <1>1, SettlesQueue DEF SessionEnd
  <1>2. ASSUME NEW t \in Task, TaskSubmitted(t) PROVE NoneSettled
    <2>1. [op |-> "backend_id", of |-> t] \in DbUpdate
      BY UpdateTypes
    <2>2. Ends([op |-> "backend_id", of |-> t]) = {}
      BY DEF Ends
    <2>. QED
      BY <1>2, <2>1, <2>2 DEF TaskSubmitted, LateSubmission, NoneSettled
  <1>3. ASSUME NEW t \in Task, TaskRunning(t) PROVE NoneSettled
    BY <1>0, <1>3 DEF TaskRunning, NoneSettled, EachInItsPlace, Active, TypeOK
  <1>4. ASSUME NEW t \in Task, TaskEnded(t) PROVE SettledOrNot
    <2>1. RecordedState(t, Head(messages[t])) \in Final
      BY <1>4 DEF TaskEnded, RecordedState, Final
    <2>2. task_map[t] \in Active
      BY <1>0, <1>4 DEF TaskEnded, EachInItsPlace
    <2>. QED  BY <1>4, <2>1, <2>2, SettlesOne DEF TaskEnded
  <1>5. \/ SessionEnd
        \/ \E t \in Task : TaskSubmitted(t) \/ TaskRunning(t) \/ TaskEnded(t)
        \/ UNCHANGED <<task_map, notified, db_updates>>
    BY DEF Event, BackendMessage, Notified, Shutdown, PeriodicCheck, IgnoreStateChange
  <1>. QED  BY <1>1, <1>2, <1>3, <1>4, <1>5 DEF NoneSettled, SettledOrNot

LEMMA SectionSettles ==
  ASSUME TypeOK, EachInItsPlace, Section PROVE SettledOrNot
  <1>0. Handed = submitted_tasks /\ submitted_tasks \subseteq Task
    BY WhileUp DEF Handed, TypeOK
  <1>1. ASSUME CloseRunningSession, running_session # NoSession PROVE SettledOrNot
    BY <1>1, SettlesQueue
  <1>2. ASSUME NEW s \in Session, CloseQueuedSession(s) PROVE NoneSettled
    <2>1. [op |-> "closed", of |-> s, tasks |-> {}] \in DbUpdate
      BY UpdateTypes
    <2>2. Ends([op |-> "closed", of |-> s, tasks |-> {}]) = {}
      BY DEF Ends
    <2>. QED  BY <1>2, <2>1, <2>2 DEF CloseQueuedSession, NoneSettled
  <1>3. ASSUME NEW s \in Session, OpenSession(s) PROVE NoneSettled
    <2>1. [op |-> "opened", of |-> s] \in DbUpdate
      BY UpdateTypes
    <2>2. Ends([op |-> "opened", of |-> s]) = {}
      BY DEF Ends
    <2>. QED  BY <1>3, <2>1, <2>2 DEF OpenSession, NoneSettled
  <1>4. ASSUME NEW t \in submitted_tasks, FailSubmittedTask(t) PROVE SettledOrNot
    BY <1>0, <1>4, SettlesOne DEF FailSubmittedTask, EachInItsPlace, Final
  <1>5. ASSUME NEW t \in Task, t \in Queued, NEW state \in Final,
               SettleQueuedTask(t, state)
        PROVE  SettledOrNot
    BY <1>5, SettlesOne DEF SettleQueuedTask, EachInItsPlace
  <1>6. ASSUME UNCHANGED <<task_map, notified, db_updates>> PROVE NoneSettled
    BY <1>6 DEF NoneSettled
  <1>. QED
    BY <1>0, <1>1, <1>2, <1>3, <1>4, <1>5, <1>6, SectionClasses
       DEF SubmitTask, SettledOrNot

-----------------------------------------------------------------------------
(* Rows and memory agree. *)

(* The update added by a step of the launcher ends only active tasks, and   *)
(* those it does end now have their final state in memory.                  *)
LEMMA AppendKeepsPending ==
  ASSUME TypeOK, Rows, NEW u \in DbUpdate, db_updates' = Append(db_updates, u),
         UNCHANGED db_task,
         \A t \in Ends(u) : task_map[t] \in Active /\ task_map'[t] = EndState(u),
         \A t \in Task \ Ends(u) : task_map[t] \in Final => task_map'[t] = task_map[t]
  PROVE  PendingIsReported' /\ PendingOnce'
  <1>1. /\ db_updates \in Seq(DbUpdate)
        /\ \A k \in DOMAIN db_updates : Ends(db_updates[k]) \subseteq Task
        /\ \A k \in DOMAIN db_updates :
             Ends(db_updates[k]) # {} => EndState(db_updates[k]) \in Final
    BY EndTypes DEF TypeOK
  <1>2. /\ DOMAIN db_updates' = DOMAIN db_updates \cup {Len(db_updates) + 1}
        /\ \A k \in DOMAIN db_updates : db_updates'[k] = db_updates[k]
        /\ db_updates'[Len(db_updates) + 1] = u
    BY <1>1, AppendedUpdate
  <1>3. \A t \in Ends(u) : LiveRow(t) /\ ~OutcomePending(t) /\ t \in Task
    BY EndTypes DEF Rows, ActiveIsLive
  <1>4. \A k \in DOMAIN db_updates : Ends(db_updates[k]) \cap Ends(u) = {}
    BY <1>3, PendingEnds
  <1>5. PendingIsReported'
    <2>1. ASSUME NEW k \in DOMAIN db_updates, NEW t \in Ends(db_updates[k])
          PROVE  LiveRow(t)' /\ task_map'[t] = EndState(db_updates[k])
      BY <1>1, <1>4, <2>1 DEF Rows, PendingIsReported, LiveRow
    <2>2. \A t \in Ends(u) : LiveRow(t)' /\ task_map'[t] = EndState(u)
      BY <1>3 DEF LiveRow
    <2>. QED  BY <1>2, <2>1, <2>2 DEF PendingIsReported
  <1>6. PendingOnce'
    BY <1>2, <1>4 DEF Rows, PendingOnce
  <1>. QED  BY <1>5, <1>6

LEMMA RowsWhenSettled ==
  ASSUME TypeOK, NewIsAbsent, Rows, NEW T \in SUBSET Task, NEW state \in Final,
         Settled(T, state), UNCHANGED <<request, db_task>>, Up, Up', Flushed'
  PROVE  Rows'
  <1>1. /\ \A t \in T : task_map'[t] = state /\ LiveRow(t) /\ ~OutcomePending(t)
        /\ \A t \in Task \ T : task_map'[t] = task_map[t]
        /\ \A t \in Task : OutcomePending(t)' <=> OutcomePending(t) \/ t \in T
    BY PendingAppended DEF Settled, SetTasks, Rows, ActiveIsLive
  <1>2. ActiveIsLive'
    BY <1>1 DEF Rows, ActiveIsLive, LiveRow, Active, Final
  <1>3. NewIsLive'
    BY DEF Rows, NewIsLive, LiveRow
  <1>4. PendingIsReported' /\ PendingOnce'
    BY <1>1, AppendKeepsPending DEF Settled
  <1>5. LiveIsKept'
    BY <1>1 DEF Rows, LiveIsKept, LiveRow, Up
  <1>6. ShownIsRecorded'
    BY <1>1 DEF Rows, ShownIsRecorded, LiveRow
  <1>. QED  BY <1>2, <1>3, <1>4, <1>5, <1>6 DEF Rows

LEMMA RowsWhenNoneSettled ==
  ASSUME TypeOK, Rows, NoneSettled, UNCHANGED <<request, db_task>>, Up, Up', Flushed'
  PROVE  Rows'
  <1>1. \A t \in Task : OutcomePending(t)' <=> OutcomePending(t)
    BY PendingAppended, PendingSame DEF NoneSettled
  <1>2. \A t \in Task : /\ task_map'[t] \in Active <=> task_map[t] \in Active
                        /\ task_map[t] \in Final => task_map'[t] = task_map[t]
                        /\ task_map'[t] \in Final => task_map'[t] = task_map[t]
    BY DEF NoneSettled, Active, Final
  <1>3. ActiveIsLive' /\ NewIsLive' /\ LiveIsKept' /\ ShownIsRecorded'
    BY <1>1, <1>2 DEF Rows, ActiveIsLive, NewIsLive, LiveIsKept, ShownIsRecorded, LiveRow, Up
  <1>4. PendingIsReported' /\ PendingOnce'
    <2>1. ASSUME NEW u \in DbUpdate, db_updates' = Append(db_updates, u), Ends(u) = {}
          PROVE  PendingIsReported' /\ PendingOnce'
      BY <1>2, <2>1, AppendKeepsPending
    <2>2. ASSUME UNCHANGED db_updates PROVE PendingIsReported' /\ PendingOnce'
      <3>1. \A k \in DOMAIN db_updates : /\ Ends(db_updates[k]) \subseteq Task
                                         /\ Ends(db_updates[k]) # {} =>
                                              EndState(db_updates[k]) \in Final
        BY EndTypes DEF TypeOK
      <3>. QED
        BY <1>2, <2>2, <3>1 DEF Rows, PendingIsReported, PendingOnce, LiveRow
    <2>. QED  BY <2>1, <2>2 DEF NoneSettled
  <1>. QED  BY <1>3, <1>4 DEF Rows

LEMMA RowsRequest ==
  ASSUME TypeOK, Placement, Rows, Request PROVE Rows'
  <1>. USE DEF Placement
  <1>0. Up /\ Up' /\ pc' = pc /\ UNCHANGED db_updates
    BY WhileUp DEF Request, InsertRow, RejectRequest, DeleteRow, AddTask, CancelTask,
           EvictTask, AddSession, CancelSession, EvictSession, InsertSuspension,
           SuspendMachine, EndSuspension, ResumeMachine
  <1>1. /\ \A t : OutcomePending(t)' <=> OutcomePending(t)
        /\ Flushed'
    BY <1>0, PendingSame DEF Rows, Flushed
  <1>2. \A k \in DOMAIN db_updates : Ends(db_updates[k]) \subseteq Named(db_updates[k])
    BY DEF Ends, Named
  <1>3. \A t \in Task : request[t] # "done" => ~OutcomePending(t)
    BY <1>2, PendingEnds DEF UpdatesNameKnown
  <1>4. ASSUME \A t \in Task : OutcomePending(t) =>
                 task_map'[t] = task_map[t] /\ db_task'[t] = db_task[t]
        PROVE  PendingIsReported' /\ PendingOnce'
    <2>1. \A k \in DOMAIN db_updates : Ends(db_updates[k]) \subseteq Task
      BY EndTypes DEF TypeOK
    <2>. QED
      BY <1>0, <1>4, <2>1, PendingEnds DEF Rows, PendingIsReported, PendingOnce, LiveRow
  <1>5. ASSUME NEW i \in Item, InsertRow(i) PROVE Rows'
    <2>1. /\ \A t \in Task : db_task'[t] = IF t = i THEN "waiting" ELSE db_task[t]
          /\ \A t \in Task : request'[t] = IF t = i THEN "inserted" ELSE request[t]
          /\ i \in Task => task_map[i] = "absent" /\ ~OutcomePending(i)
          /\ task_map' = task_map /\ request[i] = "idle"
      BY <1>3, <1>5 DEF InsertRow, NewIsAbsent, TypeOK, Item
    <2>2. PendingIsReported' /\ PendingOnce'
      BY <1>4, <2>1
    <2>3. ActiveIsLive' /\ NewIsLive' /\ ShownIsRecorded'
      BY <1>0, <1>1, <2>1 DEF Rows, ActiveIsLive, NewIsLive, ShownIsRecorded, LiveRow,
                              Active, Final
    <2>4. LiveIsKept'
      BY <1>0, <1>1, <2>1 DEF Rows, LiveIsKept, LiveRow, Up
    <2>. QED  BY <1>1, <2>2, <2>3, <2>4 DEF Rows
  <1>6. ASSUME NEW i \in Item, RejectRequest(i) PROVE Rows'
    <2>1. /\ \A t \in Task : request'[t] = IF t = i THEN "rejected" ELSE request[t]
          /\ request[i] = "inserted" /\ UNCHANGED <<task_map, db_task>>
      BY <1>6 DEF RejectRequest, TypeOK, Item
    <2>2. PendingIsReported' /\ PendingOnce'
      BY <1>4, <2>1
    <2>. QED
      BY <1>0, <1>1, <2>1, <2>2 DEF Rows, ActiveIsLive, NewIsLive, LiveIsKept,
         ShownIsRecorded, LiveRow, Up
  <1>7. ASSUME NEW i \in Item, DeleteRow(i) PROVE Rows'
    <2>1. /\ \A t \in Task : db_task'[t] = IF t = i THEN "absent" ELSE db_task[t]
          /\ \A t \in Task : request'[t] = IF t = i THEN "done" ELSE request[t]
          /\ i \in Task => task_map[i] = "absent" /\ ~OutcomePending(i)
          /\ task_map' = task_map
      BY <1>3, <1>7 DEF DeleteRow, NewIsAbsent, TypeOK, Item
    <2>2. PendingIsReported' /\ PendingOnce'
      BY <1>4, <2>1
    <2>3. ActiveIsLive' /\ NewIsLive' /\ ShownIsRecorded'
      BY <1>0, <1>1, <2>1 DEF Rows, ActiveIsLive, NewIsLive, ShownIsRecorded, LiveRow,
                              Active, Final
    <2>4. LiveIsKept'
      BY <1>0, <1>1, <2>1 DEF Rows, LiveIsKept, LiveRow, Up
    <2>. QED  BY <1>1, <2>2, <2>3, <2>4 DEF Rows
  <1>8. ASSUME NEW t \in Task, AddTask(t) PROVE Rows'
    <2>1. /\ \A r \in Task : task_map'[r] = IF r = t THEN "waiting" ELSE task_map[r]
          /\ \A r \in Task : request'[r] = IF r = t THEN "done" ELSE request[r]
          /\ LiveRow(t) /\ ~OutcomePending(t) /\ UNCHANGED db_task
      BY <1>3, <1>8 DEF AddTask, TypeOK, Item, Rows, NewIsLive
    <2>2. PendingIsReported' /\ PendingOnce'
      BY <1>4, <2>1
    <2>3. ActiveIsLive' /\ NewIsLive' /\ ShownIsRecorded'
      BY <1>0, <1>1, <2>1 DEF Rows, ActiveIsLive, NewIsLive, ShownIsRecorded, LiveRow,
                              Active, Final
    <2>4. LiveIsKept'
      BY <1>0, <1>1, <2>1 DEF Rows, LiveIsKept, LiveRow, Up, Active
    <2>. QED  BY <1>1, <2>2, <2>3, <2>4 DEF Rows
  <1>9. ASSUME NEW t \in Task, EvictTask(t) PROVE Rows'
    <2>1. /\ \A r \in Task : task_map'[r] = IF r = t THEN "absent" ELSE task_map[r]
          /\ task_map[t] \in Final /\ db_task[t] \in Final /\ UNCHANGED <<request, db_task>>
      BY <1>9 DEF EvictTask, TypeOK
    <2>2. ~OutcomePending(t)
      BY <2>1, PendingEnds DEF Rows, PendingIsReported, LiveRow, Final
    <2>3. PendingIsReported' /\ PendingOnce'
      BY <1>4, <2>1, <2>2
    <2>. QED
      BY <1>0, <1>1, <2>1, <2>3 DEF Rows, ActiveIsLive, NewIsLive, LiveIsKept,
         ShownIsRecorded, LiveRow, Up, Active, Final
  <1>10. ASSUME UNCHANGED <<task_map, db_task>>,
                \A t \in Task : request'[t] = request[t]
         PROVE  Rows'
    <2>1. PendingIsReported' /\ PendingOnce'
      BY <1>4, <1>10
    <2>. QED
      BY <1>0, <1>1, <1>10, <2>1 DEF Rows, ActiveIsLive, NewIsLive, LiveIsKept,
         ShownIsRecorded, LiveRow, Up
  <1>11. \/ \E i \in Item : InsertRow(i) \/ RejectRequest(i) \/ DeleteRow(i)
         \/ \E t \in Task : AddTask(t) \/ EvictTask(t)
         \/ /\ UNCHANGED <<task_map, db_task>>
            /\ \A t \in Task : request'[t] = request[t]
    BY NamesAssumption DEF Request, CancelTask, CancelSession, InsertSuspension,
       SuspendMachine, EndSuspension, ResumeMachine, AddSession, EvictSession, TypeOK, Item
  <1>. QED  BY <1>5, <1>6, <1>7, <1>8, <1>9, <1>10, <1>11

LEMMA RowsWrite ==
  ASSUME TypeOK, Placement, Rows, WriteUpdate PROVE Rows'
  <1>. DEFINE u == Head(db_updates)
  <1>0. /\ Up /\ Up' /\ UNCHANGED <<request, task_map>>
        /\ db_updates # <<>> /\ db_updates' = Tail(db_updates)
        /\ db_updates \in Seq(DbUpdate) /\ u \in DbUpdate
    BY WhileUp DEF WriteUpdate, TypeOK
  <1>1. \A t \in Task : db_task'[t] = IF t \in Ends(u) THEN EndState(u) ELSE db_task[t]
    BY DEF WriteUpdate, Settle, Ends, EndState, TypeOK
  <1>2. \A t : OutcomePending(t) <=> OutcomePending(t)' \/ t \in Ends(u)
    BY <1>0, PendingRemains
  <1>3. /\ 1 \in DOMAIN db_updates /\ u = db_updates[1]
        /\ \A k \in DOMAIN db_updates' :
             k + 1 \in DOMAIN db_updates /\ k + 1 # 1 /\ db_updates'[k] = db_updates[k + 1]
        /\ DOMAIN db_updates' \subseteq Int
    BY <1>0, RemainingUpdates
  <1>4. \A t \in Ends(u) : /\ t \in Task /\ LiveRow(t) /\ EndState(u) \in Final
                           /\ task_map[t] = EndState(u)
    BY <1>0, <1>3, EndTypes DEF Rows, PendingIsReported
  <1>5. \A t \in Task : request[t] # "done" => ~OutcomePending(t)
    <2>1. \A k \in DOMAIN db_updates : Ends(db_updates[k]) \subseteq Named(db_updates[k])
      BY DEF Ends, Named
    <2>. QED  BY <2>1, PendingEnds DEF Placement, UpdatesNameKnown
  <1>6. ActiveIsLive'
    BY <1>0, <1>1, <1>2 DEF Rows, ActiveIsLive, LiveRow
  <1>7. NewIsLive'
    BY <1>0, <1>1, <1>2, <1>5 DEF Rows, NewIsLive, LiveRow
  <1>8. PendingIsReported'
    <2>. SUFFICES ASSUME NEW k \in DOMAIN db_updates', NEW t \in Ends(db_updates'[k])
                  PROVE  LiveRow(t)' /\ task_map'[t] = EndState(db_updates'[k])
      BY DEF PendingIsReported
    <2>1. /\ k + 1 \in DOMAIN db_updates /\ k + 1 # 1
          /\ t \in Ends(db_updates[k + 1]) /\ db_updates'[k] = db_updates[k + 1]
      BY <1>3
    <2>2. LiveRow(t) /\ task_map[t] = EndState(db_updates[k + 1])
      BY <2>1 DEF Rows, PendingIsReported
    <2>3. t \notin Ends(u)
      BY <1>3, <2>1 DEF Rows, PendingOnce
    <2>4. t \in Task
      BY <1>0, <2>1, EndTypes
    <2>. QED  BY <1>0, <1>1, <2>1, <2>2, <2>3, <2>4 DEF LiveRow
  <1>9. PendingOnce'
    <2>. SUFFICES ASSUME NEW k \in DOMAIN db_updates', NEW l \in DOMAIN db_updates',
                         Ends(db_updates'[k]) \cap Ends(db_updates'[l]) # {}
                  PROVE  k = l
      BY DEF PendingOnce
    <2>1. k + 1 = l + 1
      BY <1>3 DEF Rows, PendingOnce
    <2>. QED  BY <1>3, <2>1
  <1>10. LiveIsKept'
    BY <1>0, <1>1, <1>2, <1>4 DEF Rows, LiveIsKept, LiveRow, Up, Final
  <1>11. ShownIsRecorded'
    BY <1>0, <1>1, <1>4 DEF Rows, ShownIsRecorded
  <1>12. Flushed'
    BY DEF WriteUpdate, Flushed
  <1>. QED  BY <1>6, <1>7, <1>8, <1>9, <1>10, <1>11, <1>12 DEF Rows

LEMMA RowsRestart ==
  ASSUME TypeOK, Placement, Rows, Restart PROVE Rows'
  <1>1. ASSUME Lost PROVE Rows'
    <2>1. /\ \A t \in Task : task_map'[t] = "absent"
          /\ \A t \in Task : request'[t] \in {"idle", "done"}
          /\ db_updates' = <<>> /\ pc' = "down"
      BY <1>1 DEF Lost, Item
    <2>2. PendingIsReported' /\ PendingOnce'
      BY <2>1 DEF PendingIsReported, PendingOnce
    <2>. QED
      BY <2>1, <2>2 DEF Rows, ActiveIsLive, NewIsLive, LiveIsKept, ShownIsRecorded,
                        Flushed, Up, Active, Final
  <1>2. ASSUME ~Up, UNCHANGED <<request, db_updates>>,
               pc' \in {"restoring", "starting", "select"},
               \A t \in Task : task_map'[t] \in Active => LiveRow(t)',
               \A t \in Task : task_map'[t] \notin Final,
               \A t \in Task : LiveRow(t)' =>
                 \/ pc' = "restoring" /\ (task_map'[t] \in Active <=> ~Orphan(t)')
                 \/ pc' # "restoring" /\ task_map'[t] \in Active
        PROVE  Rows'
    <2>1. db_updates' = <<>> /\ \A t : ~OutcomePending(t)'
      BY <1>2, NonePending DEF Rows, Flushed, Up
    <2>2. PendingIsReported' /\ PendingOnce'
      BY <2>1 DEF PendingIsReported, PendingOnce
    <2>3. \A t \in Task : request'[t] \notin {"inserted", "rejected"}
      BY <1>2 DEF Placement, NewHasNoRow, Item
    <2>4. ActiveIsLive' /\ NewIsLive' /\ ShownIsRecorded' /\ Flushed'
      BY <1>2, <2>1, <2>3 DEF ActiveIsLive, NewIsLive, ShownIsRecorded, Flushed
    <2>5. LiveIsKept'
      BY <1>2 DEF LiveIsKept, Up
    <2>. QED  BY <2>2, <2>4, <2>5 DEF Rows
  <1>3. CASE Restore
    <2>1. /\ ~Up /\ UNCHANGED <<request, db_updates, db_task, db_backend_id>>
          /\ pc' = "restoring" /\ \A t \in Task : task_map'[t] = RestoredTask(t)
      BY <1>3 DEF Restore, Up
    <2>2. \A t \in Task : /\ LiveRow(t)' <=> LiveRow(t)
                          /\ Orphan(t)' <=> Orphan(t)
      BY <2>1 DEF LiveRow, Orphan
    <2>3. \A t \in Task : /\ RestoredTask(t) \in Active => LiveRow(t)
                          /\ RestoredTask(t) \notin Final
                          /\ LiveRow(t) => (RestoredTask(t) \in Active <=> ~Orphan(t))
      BY DEF RestoredTask, Resumed, Orphan, Active, Final
    <2>. QED  BY <1>2, <2>1, <2>2, <2>3
  <1>4. CASE CancelOrphans
    <2>1. /\ ~Up /\ UNCHANGED <<request, db_updates, task_map, db_backend_id>>
          /\ pc = "restoring" /\ pc' = "starting"
          /\ \A t \in Task : db_task'[t] = IF Orphan(t) THEN "cancelled" ELSE db_task[t]
      BY <1>4 DEF CancelOrphans, Settle, Up
    <2>2. \A t \in Task : /\ LiveRow(t)' <=> LiveRow(t) /\ ~Orphan(t)
                          /\ LiveRow(t)' => ~Orphan(t)'
      BY <2>1 DEF LiveRow, Orphan
    <2>3. \A t \in Task : /\ task_map[t] \in Active => LiveRow(t) /\ ~Orphan(t)
                          /\ task_map[t] \notin Final
      BY <2>1 DEF Rows, ActiveIsLive, LiveIsKept, ShownIsRecorded
    <2>4. \A t \in Task : LiveRow(t) /\ ~Orphan(t) => task_map[t] \in Active
      BY <2>1 DEF Rows, LiveIsKept
    <2>. QED  BY <1>2, <2>1, <2>2, <2>3, <2>4
  <1>5. CASE StartLauncher
    <2>1. /\ ~Up /\ UNCHANGED <<request, db_updates, task_map, db_task, db_backend_id>>
          /\ pc = "starting" /\ pc' = "select"
      BY <1>5 DEF StartLauncher, Up
    <2>2. \A t \in Task : /\ LiveRow(t)' <=> LiveRow(t)
                          /\ Orphan(t)' <=> Orphan(t)
      BY <2>1 DEF LiveRow, Orphan
    <2>. QED
      BY <1>2, <2>1, <2>2 DEF Rows, ActiveIsLive, LiveIsKept, ShownIsRecorded
  <1>6. ASSUME NEW s \in Session, CloseDeadSession(s) PROVE Rows'
    <2>1. /\ ~Up /\ UNCHANGED <<request, db_updates, task_map, db_task, db_backend_id>>
          /\ pc = "restoring" /\ pc' = "restoring"
      BY <1>6 DEF CloseDeadSession, Up
    <2>2. \A t \in Task : /\ LiveRow(t)' <=> LiveRow(t)
                          /\ Orphan(t)' <=> Orphan(t)
      BY <2>1 DEF LiveRow, Orphan
    <2>. QED
      BY <1>2, <2>1, <2>2 DEF Rows, ActiveIsLive, LiveIsKept, ShownIsRecorded
  <1>. QED  BY <1>1, <1>3, <1>4, <1>5, <1>6 DEF Restart, Crash, Exit

LEMMA RowsStep ==
  ASSUME MachineInv, Rows, [Next]_vars PROVE Rows'
  <1>. USE DEF MachineInv
  <1>1. CASE Request
    BY <1>1, RowsRequest
  <1>2. CASE Event \/ Section
    <2>1. Up /\ Up' /\ UNCHANGED <<request, db_task>>
      BY <1>2, WhileUp, EventOnlyPlaced, SectionOnlyPlaced DEF Placement, OnlyPlaced
    <2>2. SettledOrNot
      BY <1>2, EventSettles, SectionSettles DEF Placement
    <2>3. Flushed'
      <3>1. CASE Event
        <4>1. pc = "select" /\ (pc' = "section" \/ UNCHANGED <<pc, db_updates>>)
          BY <3>1 DEF Event, BackendMessage, Notified, Shutdown, SessionEnd,
             PeriodicCheck, TaskSubmitted, IgnoreStateChange, TaskRunning, TaskEnded,
             Select
        <4>. QED  BY <4>1 DEF Rows, Flushed
      <3>2. CASE Section
        <4>1. pc' = "section" \/ (pc' = AfterSection /\ UNCHANGED db_updates)
          BY <3>2 DEF Section, CancelRunningSession, CancelQueuedSession,
             DropSessionCancel, DropQueuedSession, OpenSession, CancelSubmittedTask,
             CancelQueuedTask, DropTaskCancel, FailQueuedTask, FailSessionQueue,
             FailSessionTask, FailSuspendedTask, SubmitTask, FailOverLimit,
             CloseSuspendedSession, SuspensionApplied, SectionDone, InSection,
             Suspending, Dispatching
        <4>. QED  BY <4>1 DEF AfterSection, Flushed
      <3>. QED  BY <1>2, <3>1, <3>2
    <2>. QED
      BY <2>1, <2>2, <2>3, RowsWhenSettled, RowsWhenNoneSettled
         DEF SettledOrNot, Placement
  <1>3. CASE WriteUpdate
    BY <1>3, RowsWrite
  <1>4. CASE Restart
    BY <1>4, RowsRestart
  <1>5. CASE Backend \/ UNCHANGED vars
    <2>1. UNCHANGED <<task_map, db_task, db_backend_id, request, db_updates, pc>>
      BY <1>5 DEF Backend, JobAccepted, JobRejected, JobRuns, JobEnds, Report, vars
    <2>2. /\ \A t \in Task : LiveRow(t)' <=> LiveRow(t)
          /\ \A t \in Task : Orphan(t)' <=> Orphan(t)
          /\ \A t : OutcomePending(t)' <=> OutcomePending(t)
          /\ Up' <=> Up
      BY <2>1, PendingSame DEF LiveRow, Orphan, Up
    <2>3. PendingIsReported'
      BY <2>1 DEF Rows, PendingIsReported, LiveRow
    <2>. QED
      BY <2>1, <2>2, <2>3 DEF Rows, ActiveIsLive, NewIsLive, PendingOnce, LiveIsKept,
         ShownIsRecorded, Flushed
  <1>. QED  BY <1>1, <1>2, <1>3, <1>4, <1>5 DEF Next

LEMMA RowsInvariant == Spec => [](MachineInv /\ Rows)
  <1>1. Init => Rows
    BY DEF Init, Rows, ActiveIsLive, NewIsLive, PendingIsReported, PendingOnce,
           LiveIsKept, ShownIsRecorded, Flushed, LiveRow, Active, Final, Item, Up
  <1>2. MachineInv /\ Rows /\ [Next]_vars => Rows'
    BY RowsStep
  <1>. QED  BY <1>1, <1>2, MachineInvariant, PTL DEF Spec

(* An active task has a row without a final state; such a row belongs to a  *)
(* task in memory, to a submission in progress, or to an outcome about to   *)
(* be written, so that no task is left behind in the database.              *)
THEOREM RowsAlwaysAgree == Spec => []RowsAgree
  <1>1. Rows => RowsAgree
    BY DEF Rows, ActiveIsLive, LiveIsKept, RowsAgree
  <1>. QED  BY <1>1, RowsInvariant, PTL

-----------------------------------------------------------------------------
(* How often an end is reported. *)

LEMMA ReportsRequest ==
  ASSUME TypeOK, Placement, Rows, ReportsAreCounted, Request PROVE ReportsAreCounted'
  <1>0. UNCHANGED <<db_updates, notified>>
    BY DEF Request, InsertRow, RejectRequest, DeleteRow, AddTask, CancelTask,
           EvictTask, AddSession, CancelSession, EvictSession, InsertSuspension,
           SuspendMachine, EndSuspension, ResumeMachine
  <1>1. /\ \A t : OutcomePending(t)' <=> OutcomePending(t)
        /\ \A t \in Task : notified[t] \in Nat
    BY <1>0, PendingSame DEF TypeOK
  <1>2. ASSUME NEW t \in Task
        PROVE  /\ request'[t] = "idle" => request[t] = "idle"
               /\ task_map'[t] \in Final => task_map[t] \in Final
               /\ LiveRow(t)' => LiveRow(t) \/ request[t] = "idle"
    <2>1. \/ \E i \in Item : InsertRow(i) \/ RejectRequest(i) \/ DeleteRow(i)
          \/ \E r \in Task : AddTask(r) \/ EvictTask(r)
          \/ \E s \in Session : AddSession(s)
          \/ UNCHANGED <<request, task_map, db_task>>
      BY DEF Request, CancelTask, CancelSession, EvictSession, InsertSuspension,
             SuspendMachine, EndSuspension, ResumeMachine
    <2>. QED
      BY <2>1 DEF InsertRow, RejectRequest, DeleteRow, AddTask, EvictTask, AddSession,
                  LiveRow, TypeOK, Item, Final
  <1>. QED  BY <1>0, <1>1, <1>2 DEF ReportsAreCounted

LEMMA ReportsLauncher ==
  ASSUME TypeOK, Placement, Rows, ReportsAreCounted, Event \/ Section
  PROVE  ReportsAreCounted'
  <1>0. UNCHANGED <<request, db_task>>
    BY EventOnlyPlaced, SectionOnlyPlaced DEF Placement, OnlyPlaced
  <1>1. \A t \in Task : notified[t] \in Nat
    BY DEF TypeOK
  <1>2. ASSUME NEW T \in SUBSET Task, NEW state \in Final, Settled(T, state)
        PROVE  ReportsAreCounted'
    <2>1. /\ \A t \in T : LiveRow(t) /\ ~OutcomePending(t) /\ request[t] = "done"
          /\ \A t : OutcomePending(t)' <=> OutcomePending(t) \/ t \in T
      BY <1>2, PendingAppended DEF Settled, Rows, ActiveIsLive, Placement, NewIsAbsent,
         Active
    <2>2. \A t \in Task : /\ notified'[t] = IF t \in T THEN notified[t] + 1 ELSE notified[t]
                          /\ t \notin T => task_map'[t] = task_map[t]
      BY <1>2 DEF Settled, SetTasks
    <2>. QED
      BY <1>0, <1>1, <2>1, <2>2 DEF ReportsAreCounted, LiveRow
  <1>3. CASE NoneSettled
    <2>1. \A t : OutcomePending(t)' <=> OutcomePending(t)
      BY <1>3, PendingAppended, PendingSame DEF NoneSettled
    <2>2. \A t \in Task : task_map'[t] \in Final => task_map[t] \in Final
      BY <1>3 DEF NoneSettled, Active, Final
    <2>. QED
      BY <1>0, <1>3, <2>1, <2>2 DEF NoneSettled, ReportsAreCounted, LiveRow
  <1>. QED
    BY <1>2, <1>3, EventSettles, SectionSettles DEF SettledOrNot, Placement

LEMMA ReportsStep ==
  ASSUME MachineInv, Rows, ReportsAreCounted, [Next]_vars PROVE ReportsAreCounted'
  <1>. USE DEF MachineInv
  <1>0. \A t \in Task : notified[t] \in Nat
    BY DEF TypeOK
  <1>1. CASE Request
    BY <1>1, ReportsRequest
  <1>2. CASE Event \/ Section
    BY <1>2, ReportsLauncher
  <1>3. CASE WriteUpdate
    <2>1. /\ UNCHANGED <<task_map, request, notified>>
          /\ db_updates # <<>> /\ db_updates' = Tail(db_updates)
      BY <1>3 DEF WriteUpdate
    <2>2. \A t : OutcomePending(t) <=> OutcomePending(t)' \/ t \in Ends(Head(db_updates))
      BY <2>1, PendingRemains
    <2>3. \A t \in Task : LiveRow(t)' => LiveRow(t) /\ t \notin Ends(Head(db_updates))
      <3>1. Head(db_updates) \in DbUpdate
        BY <2>1 DEF TypeOK
      <3>. QED
        BY <1>3, <3>1, EndTypes DEF WriteUpdate, Settle, LiveRow, Ends, EndState, Final,
           DbUpdate
    <2>. QED  BY <2>1, <2>2, <2>3 DEF ReportsAreCounted
  <1>4. CASE Crash \/ Exit
    BY <1>4 DEF Crash, Exit, Lost, ReportsAreCounted, Final
  <1>5. CASE Restore \/ StartLauncher \/ CancelOrphans
             \/ \E s \in Session : CloseDeadSession(s)
    <2>1. UNCHANGED <<request, notified, db_updates>>
      BY <1>5 DEF Restore, StartLauncher, CancelOrphans, CloseDeadSession
    <2>2. \A t \in Task : /\ task_map'[t] \in Final => task_map[t] \in Final
                          /\ LiveRow(t)' => LiveRow(t)
      BY <1>5 DEF Restore, RestoredTask, StartLauncher, CancelOrphans, Settle,
                  CloseDeadSession, LiveRow, Final
    <2>. QED  BY <2>1, <2>2, PendingSame DEF ReportsAreCounted
  <1>6. CASE Backend \/ UNCHANGED vars
    <2>1. UNCHANGED <<task_map, request, notified, db_updates, db_task>>
      BY <1>6 DEF Backend, JobAccepted, JobRejected, JobRuns, JobEnds, Report, vars
    <2>. QED  BY <2>1, PendingSame DEF ReportsAreCounted, LiveRow
  <1>. QED
    BY <1>1, <1>2, <1>3, <1>4, <1>5, <1>6 DEF Next, Restart

LEMMA OnlyNewEndsAreReported ==
  ASSUME MachineInv, Rows, ReportsAreCounted, [Next]_vars, NEW t \in Task,
         notified'[t] > notified[t]
  PROVE  notified[t] = 0 /\ notified'[t] = 1 /\ LiveRow(t)
  <1>. USE DEF MachineInv
  <1>0. notified[t] \in Nat
    BY DEF TypeOK
  <1>1. ASSUME notified'[t] \in {notified[t], 0} PROVE FALSE
    BY <1>0, <1>1
  <1>2. CASE Event \/ Section
    <2>1. PICK T \in SUBSET Task, state \in Final : Settled(T, state)
      BY <1>1, <1>2, EventSettles, SectionSettles
         DEF SettledOrNot, NoneSettled, Placement
    <2>2. t \in T /\ notified'[t] = notified[t] + 1
      BY <1>1, <2>1 DEF Settled, SetTasks
    <2>3. LiveRow(t) /\ ~OutcomePending(t)
      BY <2>1, <2>2 DEF Settled, Rows, ActiveIsLive
    <2>. QED  BY <2>2, <2>3 DEF ReportsAreCounted
  <1>3. CASE Crash \/ Exit
    BY <1>1, <1>3 DEF Crash, Exit, Lost
  <1>4. CASE ~(Event \/ Section \/ Crash \/ Exit)
    <2>1. UNCHANGED notified
      BY <1>4 DEF Next, Request, InsertRow, RejectRequest, DeleteRow, AddTask, CancelTask,
         EvictTask, AddSession, CancelSession, EvictSession, InsertSuspension,
         SuspendMachine, EndSuspension, ResumeMachine, WriteUpdate, Backend, JobAccepted,
         JobRejected, JobRuns, JobEnds, Report, Restart, Restore, StartLauncher,
         CancelOrphans, CloseDeadSession, vars
    <2>. QED  BY <1>1, <2>1
  <1>. QED  BY <1>2, <1>3, <1>4

(* A life of the service reports an end once, and only of a task whose row  *)
(* shows none; what it reported is recorded when it exits.  Only a crash    *)
(* between the report and the row lets a later life report an end again.    *)
THEOREM ReportsAreNotRepeated == Spec => ReportedOnce
  <1>1. Init => ReportsAreCounted
    BY DEF Init, ReportsAreCounted, LiveRow, Final
  <1>2. MachineInv /\ Rows /\ ReportsAreCounted /\ [Next]_vars => ReportsAreCounted'
    BY ReportsStep
  <1>3. ASSUME MachineInv, Rows, ReportsAreCounted, [Next]_vars, ReportsAreCounted',
               NEW t \in Task
        PROVE  /\ notified'[t] > notified[t] =>
                    notified[t] = 0 /\ notified'[t] = 1 /\ LiveRow(t)
               /\ task_map'[t] \in Final => notified'[t] = 1
               /\ Exit /\ notified[t] > 0 => ~LiveRow(t)
    <2>1. notified'[t] > notified[t] =>
            notified[t] = 0 /\ notified'[t] = 1 /\ LiveRow(t)
      BY <1>3, OnlyNewEndsAreReported
    <2>2. task_map'[t] \in Final => notified'[t] = 1
      <3>1. notified'[t] \in Nat
        BY <1>3, TypeStep DEF MachineInv, TypeOK
      <3>. QED  BY <1>3, <3>1 DEF ReportsAreCounted
    <2>3. Exit /\ notified[t] > 0 => ~LiveRow(t)
      <3>1. Exit => ~OutcomePending(t)
        BY <1>3, NonePending DEF Exit, Rows, Flushed
      <3>. QED  BY <1>3, <3>1 DEF ReportsAreCounted
    <2>. QED  BY <2>1, <2>2, <2>3
  <1>4. MachineInv /\ Rows /\ ReportsAreCounted /\ [Next]_vars /\ ReportsAreCounted' =>
          [\A t \in Task :
             /\ notified'[t] > notified[t] =>
                  notified[t] = 0 /\ notified'[t] = 1 /\ LiveRow(t)
             /\ task_map'[t] \in Final => notified'[t] = 1
             /\ Exit /\ notified[t] > 0 => ~LiveRow(t)]_vars
    BY <1>3
  <1>. QED  BY <1>1, <1>2, <1>4, RowsInvariant, PTL DEF Spec, ReportedOnce

-----------------------------------------------------------------------------
(* Recorded jobs. *)

LEMMA QueuedRequest ==
  ASSUME TypeOK, Placement, QueuedIsUnrecorded, Request PROVE QueuedIsUnrecorded'
  <1>0. UNCHANGED <<db_updates, db_backend_id>>
    BY DEF Request, InsertRow, RejectRequest, DeleteRow, AddTask, CancelTask,
           EvictTask, AddSession, CancelSession, EvictSession, InsertSuspension,
           SuspendMachine, EndSuspension, ResumeMachine
  <1>1. \A k \in DOMAIN db_updates : db_updates[k].op = "backend_id" =>
          db_updates[k].of \in Task /\ request[db_updates[k].of] = "done"
    <2>1. \A u \in DbUpdate : u.op = "backend_id" => u.of \in Task
      BY DEF DbUpdate
    <2>2. \A k \in DOMAIN db_updates : db_updates[k] \in DbUpdate
      BY DEF TypeOK
    <2>3. \A k \in DOMAIN db_updates : request[db_updates[k].of] = "done"
      BY DEF Placement, UpdatesNameKnown, Named
    <2>. QED  BY <2>1, <2>2, <2>3
  <1>2. ASSUME NEW t \in Task
        PROVE  /\ t \in Queued' => t \in Queued \/ request[t] # "done"
               /\ request'[t] # "done" => request[t] # "done"
    <2>1. \/ \E i \in Item : InsertRow(i) \/ RejectRequest(i) \/ DeleteRow(i)
          \/ \E r \in Task : AddTask(r)
          \/ \E s \in Session : AddSession(s)
          \/ UNCHANGED <<request, queues, session_queue>>
      BY DEF Request, CancelTask, EvictTask, CancelSession, EvictSession,
             InsertSuspension, SuspendMachine, EndSuspension, ResumeMachine
    <2>. QED
      BY <2>1, NamesAssumption DEF InsertRow, RejectRequest, DeleteRow, AddTask,
         AddSession, Queued, TypeOK, Item
  <1>. QED  BY <1>0, <1>1, <1>2 DEF QueuedIsUnrecorded

LEMMA QueuedLauncher ==
  ASSUME TypeOK, Placement, QueuedIsUnrecorded, Event \/ Section
  PROVE  QueuedIsUnrecorded'
  <1>0. OnlyPlaced
    BY EventOnlyPlaced, SectionOnlyPlaced DEF Placement
  <1>1. Queued' \subseteq Queued
    <2>1. Event => Queued' \subseteq Queued
      BY DEF Event, BackendMessage, Notified, Shutdown, SessionEnd,
             CloseRunningSession, PeriodicCheck, TaskSubmitted, IgnoreStateChange,
             TaskRunning, TaskEnded, Queued
    <2>2. Section => Queued' \subseteq Queued
      BY SectionClasses DEF CloseRunningSession, CloseQueuedSession, OpenSession,
         SubmitTask, FailSubmittedTask, SettleQueuedTask, RemoveQueued, Queued
    <2>. QED  BY <2>1, <2>2
  <1>2. \A u : UpdateOf(u) /\ u.op = "backend_id" => u.of \notin Queued
    BY DEF UpdateOf, Placement, EachInItsPlace
  <1>3. ASSUME NEW k \in DOMAIN db_updates', db_updates'[k].op = "backend_id"
        PROVE  db_updates'[k].of \notin Queued'
    <2>1. db_updates \in Seq(DbUpdate)
      BY DEF TypeOK
    <2>2. \/ k \in DOMAIN db_updates /\ db_updates'[k] = db_updates[k]
          \/ UpdateOf(db_updates'[k])
      BY <1>0, <2>1, AppendedUpdate DEF OnlyPlaced
    <2>. QED  BY <1>1, <1>2, <1>3, <2>2 DEF QueuedIsUnrecorded
  <1>. QED  BY <1>0, <1>1, <1>3 DEF OnlyPlaced, QueuedIsUnrecorded

LEMMA QueuedStep ==
  ASSUME MachineInv, Rows, QueuedIsUnrecorded, [Next]_vars PROVE QueuedIsUnrecorded'
  <1>. USE DEF MachineInv
  <1>1. CASE Request
    BY <1>1, QueuedRequest
  <1>2. CASE Event \/ Section
    BY <1>2, QueuedLauncher
  <1>3. CASE WriteUpdate
    <2>. DEFINE u == Head(db_updates)
    <2>1. /\ UNCHANGED <<queueVars, request>>
          /\ db_updates \in Seq(DbUpdate)
          /\ db_updates # <<>> /\ db_updates' = Tail(db_updates)
      BY <1>3 DEF WriteUpdate, TypeOK
    <2>2. \/ UNCHANGED db_backend_id
          \/ u.op = "backend_id" /\ db_backend_id' = db_backend_id \cup {u.of}
      BY <1>3 DEF WriteUpdate
    <2>3. u.op = "backend_id" => u.of \notin Queued /\ request[u.of] = "done"
      BY <2>1, RemainingUpdates DEF QueuedIsUnrecorded, Placement, UpdatesNameKnown, Named
    <2>4. Queued' = Queued
      BY <2>1 DEF Queued
    <2>5. \A t \in Task : t \in Queued' \/ request'[t] # "done" => t \notin db_backend_id'
      BY <2>1, <2>2, <2>3, <2>4 DEF QueuedIsUnrecorded
    <2>6. \A k \in DOMAIN db_updates' :
            db_updates'[k].op = "backend_id" => db_updates'[k].of \notin Queued'
      BY <2>1, <2>4, RemainingUpdates DEF QueuedIsUnrecorded
    <2>. QED  BY <2>5, <2>6 DEF QueuedIsUnrecorded
  <1>4. CASE Crash \/ Exit
    BY <1>4 DEF Crash, Exit, Lost, QueuedIsUnrecorded, Queued, Item
  <1>5. CASE Restore
    <2>1. /\ UNCHANGED <<request, db_backend_id>> /\ db_updates' = <<>>
          /\ session_queue' = {}
      BY <1>5 DEF Restore, NotStarted, Rows, Flushed
    <2>2. \A t \in Task : t \in Queued' => t \notin db_backend_id
      BY <1>5, <2>1, NamesAssumption DEF Restore, RestoredTask, Resumed, LiveRow, Queued
    <2>. QED  BY <2>1, <2>2 DEF QueuedIsUnrecorded
  <1>6. CASE \/ StartLauncher \/ CancelOrphans \/ \E s \in Session : CloseDeadSession(s)
             \/ Backend \/ UNCHANGED vars
    <2>1. UNCHANGED <<queueVars, request, db_updates, db_backend_id>>
      BY <1>6 DEF StartLauncher, CancelOrphans, CloseDeadSession, Backend,
                  JobAccepted, JobRejected, JobRuns, JobEnds, Report, vars
    <2>. QED  BY <2>1 DEF QueuedIsUnrecorded, Queued
  <1>. QED  BY <1>1, <1>2, <1>3, <1>4, <1>5, <1>6 DEF Next, Restart

(* Only SubmitTask hands a task to the backend. *)
LEMMA OnlySubmitTaskSubmits ==
  ASSUME TypeOK, [Next]_vars, NEW t \in Task, job'[t] = "submitting", job[t] # "submitting"
  PROVE  SubmitTask(t)
  <1>1. CASE Request \/ WriteUpdate \/ UNCHANGED vars
    BY <1>1 DEF Request, InsertRow, RejectRequest, DeleteRow, AddTask, CancelTask,
           EvictTask, AddSession, CancelSession, EvictSession, InsertSuspension,
           SuspendMachine, EndSuspension, ResumeMachine, WriteUpdate, vars
  <1>2. CASE Event
    BY <1>2 DEF Event, BackendMessage, Notified, Shutdown, SessionEnd,
       CloseRunningSession, PeriodicCheck, TaskSubmitted, IgnoreStateChange,
       TaskRunning, TaskEnded
  <1>3. CASE Section
    BY <1>3, SectionClasses DEF CloseRunningSession, CloseQueuedSession, OpenSession,
       SubmitTask, FailSubmittedTask, SettleQueuedTask, TypeOK
  <1>4. CASE Backend
    BY <1>4 DEF Backend, JobAccepted, JobRejected, JobRuns, JobEnds, Report, TypeOK
  <1>5. CASE Restart
    BY <1>5 DEF Restart, Crash, Exit, Lost, Restore, StartLauncher, CancelOrphans,
       CloseDeadSession
  <1>. QED  BY <1>1, <1>2, <1>3, <1>4, <1>5 DEF Next

(* A task whose backend id was recorded is never handed to the backend      *)
(* again, whatever restarts come between: the job it names is attached to.  *)
THEOREM RecordedJobsRunOnce == Spec => RecordedJobIsNotRepeated
  <1>1. Init => QueuedIsUnrecorded
    BY DEF Init, QueuedIsUnrecorded, Queued
  <1>2. MachineInv /\ Rows /\ QueuedIsUnrecorded /\ [Next]_vars => QueuedIsUnrecorded'
    BY QueuedStep
  <1>3. MachineInv /\ QueuedIsUnrecorded /\ [Next]_vars =>
          [\A t \in Task : job'[t] = "submitting" /\ job[t] # "submitting"
                             => t \notin db_backend_id]_vars
    BY OnlySubmitTaskSubmits
       DEF MachineInv, SubmitTask, Picked, QueuedIsUnrecorded, Queued
  <1>. QED
    BY <1>1, <1>2, <1>3, RowsInvariant, PTL DEF Spec, RecordedJobIsNotRepeated

-----------------------------------------------------------------------------
(* The rows and memory implement TaskOutcome. *)

LEMMA Outcomes ==
  /\ \A t \in Task :
       /\ DurableOutcome[t] = IF db_task[t] \in Final THEN db_task[t] ELSE "none"
       /\ ReportedOutcome[t] = IF task_map[t] \in Final THEN task_map[t]
                               ELSE DurableOutcome[t]
       /\ DurableOutcome'[t] = IF db_task'[t] \in Final THEN db_task'[t] ELSE "none"
       /\ ReportedOutcome'[t] = IF task_map'[t] \in Final THEN task_map'[t]
                                ELSE DurableOutcome'[t]
  /\ DurableOutcome = [t \in Task |-> DurableOutcome[t]]
  /\ ReportedOutcome = [t \in Task |-> ReportedOutcome[t]]
  /\ DurableOutcome' = [t \in Task |-> DurableOutcome'[t]]
  /\ ReportedOutcome' = [t \in Task |-> ReportedOutcome'[t]]
  BY DEF DurableOutcome, ReportedOutcome

LEMMA OutcomesStutter ==
  ASSUME \A t \in Task : /\ DurableOutcome'[t] = DurableOutcome[t]
                         /\ ReportedOutcome'[t] = ReportedOutcome[t]
  PROVE  UNCHANGED Abstract!vars
  <1>1. DurableOutcome' = DurableOutcome
    BY Outcomes
  <1>2. ReportedOutcome' = ReportedOutcome
    BY Outcomes
  <1>. QED  BY <1>1, <1>2 DEF Abstract!vars

LEMMA SettledReports ==
  ASSUME TypeOK, Rows, NEW T \in SUBSET Task, NEW state \in Final, Settled(T, state),
         UNCHANGED db_task
  PROVE  [Abstract!Next]_(Abstract!vars)
  <1>1. /\ \A t \in T : /\ db_task[t] = "waiting" /\ task_map[t] \notin Final
                        /\ task_map'[t] = state
        /\ \A t \in Task \ T : task_map'[t] = task_map[t]
    BY DEF Settled, SetTasks, Rows, ActiveIsLive, LiveRow, Active, Final
  <1>2. \A t \in Task : DurableOutcome'[t] = DurableOutcome[t]
    BY Outcomes
  <1>3. /\ \A t \in T : ReportedOutcome[t] = "none" /\ ReportedOutcome'[t] = state
        /\ \A t \in Task \ T : ReportedOutcome'[t] = ReportedOutcome[t]
    BY <1>1, <1>2, Outcomes DEF Final
  <1>4. CASE T = {}
    BY <1>2, <1>3, <1>4, OutcomesStutter
  <1>5. CASE T # {}
    <2>1. ReportedOutcome' =
            [t \in Task |-> IF t \in T THEN state ELSE ReportedOutcome[t]]
      BY <1>3, Outcomes
    <2>2. DurableOutcome' = DurableOutcome
      BY <1>2, Outcomes
    <2>3. Abstract!Report(T, state)
      BY <1>3, <1>5, <2>1, <2>2 DEF Abstract!Report
    <2>4. state \in Abstract!Final
      BY DEF Final, Abstract!Final
    <2>. QED  BY <2>3, <2>4 DEF Abstract!Next
  <1>. QED  BY <1>4, <1>5

LEMMA WriteRecords ==
  ASSUME TypeOK, Rows, WriteUpdate
  PROVE  [Abstract!Next]_(Abstract!vars)
  <1>. DEFINE u == Head(db_updates)
              T == Ends(u)
  <1>0. /\ UNCHANGED task_map /\ u \in DbUpdate
        /\ 1 \in DOMAIN db_updates /\ u = db_updates[1]
    <2>1. db_updates \in Seq(DbUpdate) /\ db_updates # <<>>
      BY DEF WriteUpdate, TypeOK
    <2>. QED  BY <2>1, RemainingUpdates DEF WriteUpdate
  <1>1. \A t \in Task : db_task'[t] = IF t \in T THEN EndState(u) ELSE db_task[t]
    BY DEF WriteUpdate, Settle, Ends, EndState, TypeOK
  <1>2. \A t \in T : /\ t \in Task /\ db_task[t] = "waiting"
                     /\ task_map[t] = EndState(u) /\ EndState(u) \in Final
    BY <1>0, EndTypes DEF Rows, PendingIsReported, LiveRow
  <1>3. /\ \A t \in T : /\ DurableOutcome[t] = "none"
                        /\ ReportedOutcome[t] = EndState(u)
                        /\ DurableOutcome'[t] = EndState(u)
        /\ \A t \in Task \ T : DurableOutcome'[t] = DurableOutcome[t]
    BY <1>1, <1>2, Outcomes DEF Final
  <1>4. \A t \in Task : ReportedOutcome'[t] = ReportedOutcome[t]
    BY <1>0, <1>2, <1>3, Outcomes
  <1>5. CASE T = {}
    BY <1>3, <1>4, <1>5, OutcomesStutter
  <1>6. CASE T # {}
    <2>1. DurableOutcome' =
            [t \in Task |-> IF t \in T THEN ReportedOutcome[t] ELSE DurableOutcome[t]]
      BY <1>3, Outcomes
    <2>2. ReportedOutcome' = ReportedOutcome
      BY <1>4, Outcomes
    <2>3. Abstract!Record(T) /\ T \in SUBSET Task
      BY <1>2, <1>3, <1>6, <2>1, <2>2 DEF Abstract!Record, Final
    <2>. QED  BY <2>3 DEF Abstract!Next
  <1>. QED  BY <1>5, <1>6

LEMMA LostForgets ==
  ASSUME Lost PROVE Abstract!Next
  <1>1. \A t \in Task : /\ DurableOutcome'[t] = DurableOutcome[t]
                        /\ ReportedOutcome'[t] = DurableOutcome[t]
    BY Outcomes DEF Lost, Final
  <1>2. DurableOutcome' = DurableOutcome
    BY <1>1, Outcomes
  <1>3. ReportedOutcome' = DurableOutcome
    BY <1>1, Outcomes
  <1>. QED  BY <1>2, <1>3 DEF Abstract!Next, Abstract!Crash

LEMMA OrphansAreGivenUp ==
  ASSUME TypeOK, Rows, CancelOrphans
  PROVE  [Abstract!Next]_(Abstract!vars)
  <1>. DEFINE T == {t \in Task : Orphan(t)}
  <1>1. \A t \in Task : /\ task_map'[t] = task_map[t] /\ task_map[t] \notin Final
                        /\ db_task'[t] = IF t \in T THEN "cancelled" ELSE db_task[t]
                        /\ t \in T => db_task[t] = "waiting"
    BY DEF CancelOrphans, Settle, Orphan, LiveRow, Rows, ShownIsRecorded, Up
  <1>2. /\ \A t \in T : /\ ReportedOutcome[t] = "none"
                        /\ ReportedOutcome'[t] = "cancelled"
                        /\ DurableOutcome'[t] = "cancelled"
        /\ \A t \in Task \ T : /\ ReportedOutcome'[t] = ReportedOutcome[t]
                               /\ DurableOutcome'[t] = DurableOutcome[t]
    BY <1>1, Outcomes DEF Final
  <1>3. CASE T = {}
    BY <1>2, <1>3, OutcomesStutter
  <1>4. CASE T # {}
    <2>1. DurableOutcome' =
            [t \in Task |-> IF t \in T THEN "cancelled" ELSE DurableOutcome[t]]
      BY <1>2, Outcomes
    <2>2. ReportedOutcome' =
            [t \in Task |-> IF t \in T THEN "cancelled" ELSE ReportedOutcome[t]]
      BY <1>2, Outcomes
    <2>3. Abstract!GiveUp(T) /\ T \in SUBSET Task
      BY <1>2, <1>4, <2>1, <2>2 DEF Abstract!GiveUp
    <2>. QED  BY <2>3 DEF Abstract!Next
  <1>. QED  BY <1>3, <1>4

(* All other steps leave the outcomes as they are. *)
LEMMA NoOutcome ==
  ASSUME \A t \in Task : /\ task_map'[t] \in Final <=> task_map[t] \in Final
                         /\ task_map[t] \in Final => task_map'[t] = task_map[t]
                         /\ \/ db_task'[t] = db_task[t]
                            \/ db_task[t] \notin Final /\ db_task'[t] \notin Final
  PROVE  UNCHANGED Abstract!vars
  <1>1. \A t \in Task : /\ DurableOutcome'[t] = DurableOutcome[t]
                        /\ ReportedOutcome'[t] = ReportedOutcome[t]
    BY Outcomes
  <1>. QED  BY <1>1, OutcomesStutter

LEMMA RequestsStutter ==
  ASSUME TypeOK, Placement, Rows, Request PROVE UNCHANGED Abstract!vars
  <1>1. ASSUME NEW i \in Item, InsertRow(i) \/ DeleteRow(i) PROVE UNCHANGED Abstract!vars
    <2>1. UNCHANGED task_map
      BY <1>1 DEF InsertRow, DeleteRow
    <2>2. \A t \in Task : \/ db_task'[t] = db_task[t]
                          \/ db_task[t] \notin Final /\ db_task'[t] \notin Final
      BY <1>1 DEF InsertRow, DeleteRow, TypeOK, Item, Rows, NewIsLive, LiveRow,
                  Placement, NewHasNoRow, Final
    <2>. QED  BY <2>1, <2>2, NoOutcome
  <1>2. ASSUME NEW t \in Task, AddTask(t) PROVE UNCHANGED Abstract!vars
    <2>1. UNCHANGED db_task
      BY <1>2 DEF AddTask
    <2>2. \A r \in Task : /\ task_map'[r] \in Final <=> task_map[r] \in Final
                          /\ task_map[r] \in Final => task_map'[r] = task_map[r]
      BY <1>2 DEF AddTask, TypeOK, Placement, NewIsAbsent, Final
    <2>. QED  BY <2>1, <2>2, NoOutcome
  <1>3. ASSUME NEW t \in Task, EvictTask(t) PROVE UNCHANGED Abstract!vars
    <2>1. /\ UNCHANGED db_task /\ task_map[t] = db_task[t]
          /\ db_task[t] \in Final
          /\ \A r \in Task : task_map'[r] = IF r = t THEN "absent" ELSE task_map[r]
      BY <1>3 DEF EvictTask, TypeOK, Rows, ShownIsRecorded, Final
    <2>2. \A r \in Task : /\ DurableOutcome'[r] = DurableOutcome[r]
                          /\ ReportedOutcome'[r] = ReportedOutcome[r]
      BY <2>1, Outcomes DEF Final
    <2>. QED  BY <2>2, OutcomesStutter
  <1>4. ASSUME UNCHANGED <<task_map, db_task>> PROVE UNCHANGED Abstract!vars
    BY <1>4, NoOutcome
  <1>5. \/ \E i \in Item : InsertRow(i) \/ DeleteRow(i)
        \/ \E t \in Task : AddTask(t) \/ EvictTask(t)
        \/ UNCHANGED <<task_map, db_task>>
    BY DEF Request, RejectRequest, CancelTask, AddSession, CancelSession, EvictSession,
           InsertSuspension, SuspendMachine, EndSuspension, ResumeMachine
  <1>. QED  BY <1>1, <1>2, <1>3, <1>4, <1>5

LEMMA OutcomeStep ==
  ASSUME MachineInv, Rows, [Next]_vars
  PROVE  [Abstract!Next]_(Abstract!vars)
  <1>. USE DEF MachineInv
  <1>1. CASE Request
    BY <1>1, RequestsStutter
  <1>2. CASE Event \/ Section
    <2>1. UNCHANGED db_task
      BY <1>2, EventOnlyPlaced, SectionOnlyPlaced DEF Placement, OnlyPlaced
    <2>2. ASSUME NoneSettled PROVE UNCHANGED Abstract!vars
      <3>1. \A t \in Task : /\ task_map'[t] \in Final <=> task_map[t] \in Final
                            /\ task_map[t] \in Final => task_map'[t] = task_map[t]
        BY <2>2 DEF NoneSettled, Active, Final
      <3>. QED  BY <2>1, <3>1, NoOutcome
    <2>. QED
      BY <1>2, <2>1, <2>2, EventSettles, SectionSettles, SettledReports
         DEF SettledOrNot, Placement
  <1>3. CASE WriteUpdate
    BY <1>3, WriteRecords
  <1>4. CASE Crash \/ Exit
    BY <1>4, LostForgets DEF Crash, Exit
  <1>5. CASE CancelOrphans
    BY <1>5, OrphansAreGivenUp
  <1>6. CASE Restore
    <2>1. \A t \in Task : /\ task_map'[t] \notin Final /\ task_map[t] \notin Final
                          /\ db_task'[t] = db_task[t]
      BY <1>6 DEF Restore, RestoredTask, Rows, ShownIsRecorded, Up, Final
    <2>. QED  BY <2>1, NoOutcome
  <1>7. CASE StartLauncher \/ (\E s \in Session : CloseDeadSession(s))
             \/ Backend \/ UNCHANGED vars
    <2>1. UNCHANGED <<task_map, db_task>>
      BY <1>7 DEF StartLauncher, CloseDeadSession, Backend, JobAccepted, JobRejected,
                  JobRuns, JobEnds, Report, vars
    <2>. QED  BY <2>1, NoOutcome
  <1>. QED  BY <1>1, <1>2, <1>3, <1>4, <1>5, <1>6, <1>7 DEF Next, Restart

(* The machine implements TaskOutcome: a task gets one final state, which   *)
(* is shown first and recorded later, a crash forgets only what was not     *)
(* recorded, and what is recorded is what was shown and stays.              *)
THEOREM OutcomesAreImplemented == Spec => ImplementsTaskOutcome
  <1>1. Init => Abstract!Init
    BY DEF Init, Abstract!Init, ReportedOutcome, DurableOutcome, Final
  <1>2. MachineInv /\ Rows /\ [Next]_vars => [Abstract!Next]_(Abstract!vars)
    BY OutcomeStep
  <1>. QED
    BY <1>1, <1>2, RowsInvariant, PTL DEF Spec, ImplementsTaskOutcome, Abstract!Spec

-----------------------------------------------------------------------------
(* The jobs of the backend, and suspensions. *)

(* A job that may run can be reached. *)
JobsAreKept ==
  \A t \in Task : job[t] \in {"submitting", "accepted", "executing"} =>
    t \in submitted_tasks \cup cancel_sent \/ UnconfirmedJob(t)

(* So can the job of each tracked task, when it is to be cancelled.         *)
TrackedIsReachable ==
  \A t \in submitted_tasks :
    t \in backend_id \cup cancel_sent \/ UnconfirmedJob(t) \/ job[t] = "ended"

(* A job that reported its end has ended, and one that was not handed over  *)
(* reports nothing.                                                         *)
ReportsAreTrue ==
  \A t \in Task :
    /\ \A k \in DOMAIN messages[t] : messages[t][k] \in Final => job[t] = "ended"
    /\ job[t] = "none" => messages[t] = <<>>

(* What is queued or not yet submitted has no job, nor has anything in a    *)
(* service that has not attached to the restored ones.                      *)
QueuedHasNoJob ==
  \A t \in Task : t \in Queued \/ request[t] # "done" \/ ~Up => job[t] = "none"

Jobs == /\ JobsAreKept /\ CancelReachesJob /\ TrackedIsReachable
        /\ ReportsAreTrue /\ QueuedHasNoJob

-----------------------------------------------------------------------------
(* Messages of jobs. *)

(* The launcher takes the first message of a job. *)
LEMMA Received ==
  ASSUME TypeOK, NEW t \in Task, messages[t] # <<>>, Receive(t), UNCHANGED job
  PROVE  /\ \A r \in Task \ {t} : messages'[r] = messages[r]
         /\ \A r \in Task \ {t} : UnconfirmedJob(r)' <=> UnconfirmedJob(r)
         /\ Head(messages[t]) # "submitted" => (UnconfirmedJob(t)' <=> UnconfirmedJob(t))
         /\ Head(messages[t]) \in Final =>
              \E k \in DOMAIN messages[t] : messages[t][k] \in Final
         /\ \A k \in DOMAIN messages'[t] :
              \E l \in DOMAIN messages[t] : messages'[t][k] = messages[t][l]
  <1>1. /\ messages[t] \in Seq(Message)
        /\ \A r \in Task : messages'[r] = IF r = t THEN Tail(messages[t]) ELSE messages[r]
    BY DEF TypeOK, Receive
  <1>2. /\ 1 \in DOMAIN messages[t] /\ Head(messages[t]) = messages[t][1]
        /\ \A k \in DOMAIN messages'[t] :
             k + 1 \in DOMAIN messages[t] /\ messages'[t][k] = messages[t][k + 1]
        /\ \A k \in DOMAIN messages[t] :
             k # 1 => k - 1 \in DOMAIN messages'[t] /\ messages'[t][k - 1] = messages[t][k]
    <2>. DEFINE q == messages[t]
    <2>1. q \in Seq(Message) /\ q # <<>> /\ messages'[t] = Tail(q)
      BY <1>1
    <2>. HIDE DEF q
    <2>2. /\ 1 \in DOMAIN q /\ Head(q) = q[1]
          /\ \A k \in DOMAIN Tail(q) : k + 1 \in DOMAIN q /\ Tail(q)[k] = q[k + 1]
          /\ \A k \in DOMAIN q : k # 1 => k - 1 \in DOMAIN Tail(q)
                                          /\ Tail(q)[k - 1] = q[k]
      BY <2>1, RemainingUpdates
    <2>. QED  BY <2>1, <2>2 DEF q
  <1>3. \A r \in Task \ {t} : UnconfirmedJob(r)' <=> UnconfirmedJob(r)
    BY <1>1 DEF UnconfirmedJob
  <1>4. ASSUME Head(messages[t]) # "submitted", UnconfirmedJob(t) PROVE UnconfirmedJob(t)'
    BY <1>2, <1>4 DEF UnconfirmedJob
  <1>5. ASSUME UnconfirmedJob(t)' PROVE UnconfirmedJob(t)
    BY <1>2, <1>5 DEF UnconfirmedJob
  <1>. QED  BY <1>1, <1>2, <1>3, <1>4, <1>5

(* The monitoring of a job adds a message. *)
LEMMA Reported ==
  ASSUME TypeOK, NEW t \in Task, NEW from, NEW to, NEW message, Report(t, from, to, message)
  PROVE  /\ \A r \in Task \ {t} : messages'[r] = messages[r] /\ job'[r] = job[r]
         /\ \A r \in Task \ {t} : UnconfirmedJob(r)' <=> UnconfirmedJob(r)
         /\ job[t] \in from /\ job'[t] = to
         /\ (\E k \in DOMAIN messages[t] : messages[t][k] = "submitted")
              => UnconfirmedJob(t)'
         /\ message = "submitted" => UnconfirmedJob(t)'
         /\ \A k \in DOMAIN messages'[t] :
              \/ messages'[t][k] = message
              \/ \E l \in DOMAIN messages[t] : messages'[t][k] = messages[t][l]
  <1>1. /\ messages[t] \in Seq(Message)
        /\ \A r \in Task : messages'[r] = IF r = t THEN Append(messages[t], message)
                                          ELSE messages[r]
        /\ \A r \in Task : job'[r] = IF r = t THEN to ELSE job[r]
        /\ job[t] \in from
    BY DEF TypeOK, Report
  <1>2. /\ DOMAIN messages'[t] = DOMAIN messages[t] \cup {Len(messages[t]) + 1}
        /\ \A k \in DOMAIN messages[t] : messages'[t][k] = messages[t][k]
        /\ messages'[t][Len(messages[t]) + 1] = message
    <2>. DEFINE q == messages[t]
    <2>1. q \in Seq(Message) /\ messages'[t] = Append(q, message)
      BY <1>1
    <2>. HIDE DEF q
    <2>2. /\ DOMAIN Append(q, message) = DOMAIN q \cup {Len(q) + 1}
          /\ \A k \in DOMAIN q : Append(q, message)[k] = q[k]
          /\ Append(q, message)[Len(q) + 1] = message
      BY <2>1, AppendedUpdate
    <2>. QED  BY <2>1, <2>2 DEF q
  <1>. QED  BY <1>1, <1>2 DEF UnconfirmedJob

LEMMA UnconfirmedSame ==
  ASSUME UNCHANGED <<job, messages>> PROVE \A t : UnconfirmedJob(t)' <=> UnconfirmedJob(t)
  BY DEF UnconfirmedJob

-----------------------------------------------------------------------------
(* Jobs are kept, by classes of steps. *)

(* Steps that do not concern jobs. *)
LEMMA JobsUntouched ==
  ASSUME Jobs, UNCHANGED <<submitted_tasks, cancelling, cancel_sent, job, messages>>,
         \A t \in submitted_tasks : t \in backend_id => t \in backend_id',
         \A t \in Task : t \in Queued' => t \in Queued \/ request[t] # "done",
         \A t \in Task : request'[t] # "done" => request[t] # "done",
         Up' \/ ~Up
  PROVE  Jobs'
  BY UnconfirmedSame DEF Jobs, JobsAreKept, CancelReachesJob, TrackedIsReachable,
                         ReportsAreTrue, QueuedHasNoJob

(* Tracked tasks are flagged as being cancelled. *)
LEMMA JobsCancelled ==
  ASSUME TypeOK, Jobs, NEW T \in SUBSET submitted_tasks, RequestBackendCancel(T),
         UNCHANGED <<submitted_tasks, backend_id, job, messages, request>>,
         Queued' \subseteq Queued, Up, Up'
  PROVE  Jobs'
  <1>. USE DEF RequestBackendCancel, UnconfirmedSame
  <1>1. CancelReachesJob' /\ TrackedIsReachable' /\ JobsAreKept'
    BY UnconfirmedSame DEF Jobs, JobsAreKept, CancelReachesJob, TrackedIsReachable
  <1>2. ReportsAreTrue' /\ QueuedHasNoJob'
    BY DEF Jobs, ReportsAreTrue, QueuedHasNoJob
  <1>. QED  BY <1>1, <1>2 DEF Jobs

(* A tracked task is given up before its job has ended. *)
LEMMA JobGivenUp ==
  ASSUME TypeOK, Jobs, NEW t \in submitted_tasks, FailSubmittedTask(t),
         UNCHANGED request, Up, Up'
  PROVE  Jobs'
  <1>. USE DEF FailSubmittedTask, Untrack
  <1>1. \A r \in Task : UnconfirmedJob(r)' <=> UnconfirmedJob(r)
    BY UnconfirmedSame
  <1>2. t \in Task /\ (t \in cancel_sent' \/ UnconfirmedJob(t) \/ job[t] = "ended")
    BY DEF Jobs, CancelReachesJob, TrackedIsReachable, TypeOK
  <1>3. JobsAreKept'
    BY <1>1, <1>2 DEF Jobs, JobsAreKept
  <1>4. CancelReachesJob' /\ TrackedIsReachable'
    BY <1>1 DEF Jobs, CancelReachesJob, TrackedIsReachable, TypeOK
  <1>5. ReportsAreTrue' /\ QueuedHasNoJob'
    BY DEF Jobs, ReportsAreTrue, QueuedHasNoJob, Queued
  <1>. QED  BY <1>3, <1>4, <1>5 DEF Jobs

LEMMA JobSubmitted ==
  ASSUME TypeOK, Placement, Jobs, NEW t \in Task, SubmitTask(t), UNCHANGED request, Up, Up'
  PROVE  Jobs'
  <1>. USE DEF SubmitTask
  <1>1. t \in Queued /\ t \notin Queued' /\ Queued' \subseteq Queued
    BY DEF Picked, RemoveQueued, Queued
  <1>2. request[t] = "done" /\ job[t] = "none" /\ messages[t] = <<>>
    BY <1>1, PlacedIsKnown DEF Placement, Jobs, QueuedHasNoJob, ReportsAreTrue
  <1>3. /\ job'[t] = "submitting" /\ \A r \in Task \ {t} : job'[r] = job[r]
        /\ messages' = messages
    BY DEF TypeOK
  <1>4. /\ UnconfirmedJob(t)'
        /\ \A r \in Task \ {t} : UnconfirmedJob(r)' <=> UnconfirmedJob(r)
    BY <1>3 DEF UnconfirmedJob
  <1>5. JobsAreKept' /\ CancelReachesJob' /\ TrackedIsReachable'
    BY <1>3, <1>4 DEF Jobs, JobsAreKept, CancelReachesJob, TrackedIsReachable, TypeOK
  <1>6. ReportsAreTrue' /\ QueuedHasNoJob'
    BY <1>1, <1>2, <1>3 DEF Jobs, ReportsAreTrue, QueuedHasNoJob
  <1>. QED  BY <1>5, <1>6 DEF Jobs

LEMMA JobsRequest ==
  ASSUME TypeOK, Placement, Jobs, Request PROVE Jobs'
  <1>0. Up' /\ UNCHANGED <<submitted_tasks, cancelling, cancel_sent, job, messages>>
    BY WhileUp DEF Request, InsertRow, RejectRequest, DeleteRow, AddTask, CancelTask,
           EvictTask, AddSession, CancelSession, EvictSession, InsertSuspension,
           SuspendMachine, EndSuspension, ResumeMachine
  <1>1. \A t \in submitted_tasks : t \in backend_id => t \in backend_id'
    <2>1. \A t \in submitted_tasks : task_map[t] \in Active
      BY WhileUp DEF Placement, EachInItsPlace, Handed, TypeOK
    <2>2. UNCHANGED backend_id \/ \E t \in Task : EvictTask(t)
      BY DEF Request, InsertRow, RejectRequest, DeleteRow, AddTask, CancelTask,
           AddSession, CancelSession, EvictSession, InsertSuspension,
           SuspendMachine, EndSuspension, ResumeMachine
    <2>. QED  BY <2>1, <2>2 DEF EvictTask, Active, Final
  <1>2. ASSUME NEW t \in Task
        PROVE  /\ t \in Queued' => t \in Queued \/ request[t] # "done"
               /\ request'[t] # "done" => request[t] # "done"
    <2>1. \/ \E i \in Item : InsertRow(i) \/ RejectRequest(i) \/ DeleteRow(i)
          \/ \E r \in Task : AddTask(r)
          \/ \E s \in Session : AddSession(s)
          \/ UNCHANGED <<request, queues, session_queue>>
      BY DEF Request, CancelTask, EvictTask, CancelSession, EvictSession,
             InsertSuspension, SuspendMachine, EndSuspension, ResumeMachine
    <2>. QED
      BY <2>1, NamesAssumption DEF InsertRow, RejectRequest, DeleteRow, AddTask,
         AddSession, Queued, TypeOK, Item
  <1>. QED  BY <1>0, <1>1, <1>2, JobsUntouched

LEMMA JobsEvent ==
  ASSUME TypeOK, Placement, Jobs, Event PROVE Jobs'
  <1>0. Up /\ Up' /\ UNCHANGED request
    BY WhileUp, EventOnlyPlaced DEF Placement, OnlyPlaced
  <1>1. CASE SessionEnd
    BY <1>0, <1>1, JobsCancelled DEF SessionEnd, CloseRunningSession, Queued
  <1>2. ASSUME NEW over \in SUBSET Task, PeriodicCheck(over) PROVE Jobs'
    <2>1. over \in SUBSET submitted_tasks
      BY <1>2 DEF PeriodicCheck
    <2>. QED
      BY <1>0, <1>2, <2>1, JobsCancelled DEF PeriodicCheck, Queued
  <1>3. ASSUME NEW t \in Task, TaskSubmitted(t) PROVE Jobs'
    <2>1. /\ messages[t] # <<>> /\ Receive(t)
          /\ UNCHANGED <<job, submitted_tasks, cancelling, queueVars>>
          /\ cancel_sent \subseteq cancel_sent' /\ backend_id \subseteq backend_id'
          /\ t \in submitted_tasks \ cancelling => t \in backend_id'
          /\ t \notin submitted_tasks \ cancelling => t \in cancel_sent'
      BY <1>3 DEF TaskSubmitted, LateSubmission
    <2>2. cancelling \subseteq submitted_tasks /\ submitted_tasks \subseteq Task
      BY DEF TypeOK
    <2>3. CancelReachesJob' /\ TrackedIsReachable' /\ JobsAreKept'
      BY <2>1, <2>2, Received DEF Jobs, JobsAreKept, CancelReachesJob, TrackedIsReachable
    <2>4. ReportsAreTrue'
      BY <2>1, Received DEF Jobs, ReportsAreTrue
    <2>5. QueuedHasNoJob'
      BY <1>0, <2>1 DEF Jobs, QueuedHasNoJob, Queued
    <2>. QED  BY <2>3, <2>4, <2>5 DEF Jobs
  <1>4. ASSUME NEW t \in Task, IgnoreStateChange(t) \/ TaskRunning(t) \/ TaskEnded(t)
        PROVE  Jobs'
    <2>1. /\ messages[t] # <<>> /\ Head(messages[t]) # "submitted" /\ Receive(t)
          /\ UNCHANGED <<job, cancel_sent, backend_id, queueVars>>
          /\ submitted_tasks' \subseteq submitted_tasks /\ cancelling' \subseteq cancelling
          /\ submitted_tasks \ {t} \subseteq submitted_tasks'
          /\ t \in submitted_tasks \ submitted_tasks' => Head(messages[t]) \in Final
      BY <1>4 DEF IgnoreStateChange, TaskRunning, TaskEnded, Untrack, Final
    <2>2. \A r \in Task : UnconfirmedJob(r)' <=> UnconfirmedJob(r)
      BY <2>1, Received
    <2>3. Head(messages[t]) \in Final => job[t] = "ended"
      BY <2>1, Received DEF Jobs, ReportsAreTrue
    <2>4. cancelling \subseteq submitted_tasks /\ submitted_tasks \subseteq Task
      BY DEF TypeOK
    <2>5. CancelReachesJob' /\ TrackedIsReachable' /\ JobsAreKept'
      BY <2>1, <2>2, <2>3, <2>4
         DEF Jobs, JobsAreKept, CancelReachesJob, TrackedIsReachable
    <2>6. ReportsAreTrue'
      BY <2>1, Received DEF Jobs, ReportsAreTrue
    <2>7. QueuedHasNoJob'
      BY <1>0, <2>1 DEF Jobs, QueuedHasNoJob, Queued
    <2>. QED  BY <2>5, <2>6, <2>7 DEF Jobs
  <1>5. CASE Notified \/ Shutdown
    BY <1>0, <1>5, JobsUntouched DEF Notified, Shutdown, Queued
  <1>. QED
    BY <1>1, <1>2, <1>3, <1>4, <1>5 DEF Event, BackendMessage

(* The backend reports on a job that was handed to it.                      *)
LEMMA JobsReported ==
  ASSUME TypeOK, Placement, Jobs, NEW t \in Task, NEW from, NEW to, NEW message,
         Report(t, from, to, message), "none" \notin from, to # "none",
         message \in Final => to = "ended" /\ "ended" \notin from,
         "submitting" \in from => to = "ended" \/ message = "submitted",
         to = "submitting" => FALSE, "ended" \notin from
  PROVE  Jobs'
  <1>1. /\ UNCHANGED <<submitted_tasks, cancelling, cancel_sent, backend_id,
                       queueVars, request, pc>>
        /\ job[t] # "none"
    BY Reported DEF Report
  <1>2. \A r \in Task \ {t} : /\ job'[r] = job[r] /\ messages'[r] = messages[r]
                              /\ UnconfirmedJob(r)' <=> UnconfirmedJob(r)
    BY Reported
  <1>3. job'[t] = to /\ job[t] \in from
    BY Reported
  <1>4. UnconfirmedJob(t) => UnconfirmedJob(t)' \/ job'[t] = "ended"
    BY Reported, <1>3 DEF UnconfirmedJob
  <1>5. JobsAreKept' /\ CancelReachesJob' /\ TrackedIsReachable'
    <2>1. cancelling \subseteq Task /\ submitted_tasks \subseteq Task /\ job[t] \in JobState
      BY DEF TypeOK
    <2>2. job[t] # "ended"
      BY <1>3
    <2>3. job[t] \in {"submitting", "accepted", "executing"}
      BY <2>1, <2>2, <1>1 DEF JobState
    <2>. QED
      BY <1>1, <1>2, <1>3, <1>4, <2>1, <2>2, <2>3
         DEF Jobs, JobsAreKept, CancelReachesJob, TrackedIsReachable
  <1>6. ReportsAreTrue'
    <2>1. \A k \in DOMAIN messages'[t] : messages'[t][k] \in Final => to = "ended"
      BY <1>3, Reported DEF Jobs, ReportsAreTrue
    <2>. QED  BY <1>2, <1>3, <2>1 DEF Jobs, ReportsAreTrue
  <1>7. QueuedHasNoJob'
    BY <1>1, <1>2 DEF Jobs, QueuedHasNoJob, Queued, Up
  <1>. QED  BY <1>5, <1>6, <1>7 DEF Jobs

LEMMA JobsBackend ==
  ASSUME TypeOK, Placement, Jobs, Backend PROVE Jobs'
  <1>. PICK t \in Task : \/ JobAccepted(t) \/ JobRejected(t) \/ JobRuns(t)
                         \/ \E outcome \in Final : JobEnds(t, outcome)
    BY DEF Backend
  <1>1. CASE JobAccepted(t)
    BY <1>1, JobsReported DEF JobAccepted, Final
  <1>2. CASE JobRejected(t)
    BY <1>2, JobsReported DEF JobRejected, Final
  <1>3. CASE JobRuns(t)
    BY <1>3, JobsReported DEF JobRuns, Final
  <1>4. ASSUME NEW outcome \in Final, JobEnds(t, outcome) PROVE Jobs'
    BY <1>4, JobsReported DEF JobEnds, Final
  <1>. QED  BY <1>1, <1>2, <1>3, <1>4

LEMMA JobsSection ==
  ASSUME TypeOK, Placement, Jobs, Section PROVE Jobs'
  <1>0. Up /\ Up' /\ UNCHANGED request
    BY WhileUp, SectionOnlyPlaced DEF Placement, OnlyPlaced
  <1>1. CASE CloseRunningSession /\ running_session # NoSession
    BY <1>0, <1>1, JobsCancelled DEF CloseRunningSession, Queued
  <1>2. ASSUME NEW s \in Session, CloseQueuedSession(s) \/ OpenSession(s) PROVE Jobs'
    <2>1. /\ UNCHANGED <<submitted_tasks, cancelling, cancel_sent, job, messages, backend_id>>
          /\ Queued' \subseteq Queued
      BY <1>2 DEF CloseQueuedSession, OpenSession, Queued
    <2>. QED  BY <1>0, <2>1, JobsUntouched
  <1>3. ASSUME NEW t \in Task, SubmitTask(t) PROVE Jobs'
    BY <1>0, <1>3, JobSubmitted
  <1>4. ASSUME NEW t \in submitted_tasks, FailSubmittedTask(t) PROVE Jobs'
    BY <1>0, <1>4, JobGivenUp
  <1>5. ASSUME NEW t \in Task, NEW state, SettleQueuedTask(t, state) PROVE Jobs'
    <2>1. /\ UNCHANGED <<submitted_tasks, cancelling, cancel_sent, job, messages, backend_id>>
          /\ Queued' \subseteq Queued
      BY <1>5 DEF SettleQueuedTask, RemoveQueued, Queued
    <2>. QED  BY <1>0, <2>1, JobsUntouched
  <1>6. ASSUME UNCHANGED <<memVars, queueVars, submitted_tasks, job, messages>>
        PROVE  /\ UNCHANGED <<cancelling, cancel_sent>> => Jobs'
               /\ \A t \in submitted_tasks : RequestBackendCancel({t}) => Jobs'
    BY <1>0, <1>6, JobsUntouched, JobsCancelled DEF Queued
  <1>. QED
    BY <1>1, <1>2, <1>3, <1>4, <1>5, <1>6, SectionClasses

(* A service that has gone down, or restores its state, has no job; it      *)
(* attaches to the jobs whose ids are recorded.                             *)
LEMMA JobsRestart ==
  ASSUME MachineInv, MachineInv', Jobs, Restart PROVE Jobs'
  <1>1. ASSUME Lost PROVE Jobs'
    BY <1>1 DEF Lost, Jobs, JobsAreKept, CancelReachesJob, TrackedIsReachable,
                ReportsAreTrue, QueuedHasNoJob, Final
  <1>2. CASE Restore \/ CancelOrphans \/ \E s \in Session : CloseDeadSession(s)
    <2>1. /\ UNCHANGED <<submitted_tasks, cancelling, cancel_sent, job, messages, request>>
          /\ ~Up /\ ~Up' /\ submitted_tasks = {}
      BY <1>2 DEF Restore, CancelOrphans, CloseDeadSession, Up, MachineInv, NotStarted
    <2>2. \A t \in Task : job[t] = "none"
      BY <2>1 DEF Jobs, QueuedHasNoJob
    <2>. QED
      BY <2>1, <2>2, UnconfirmedSame
         DEF Jobs, JobsAreKept, CancelReachesJob, TrackedIsReachable, ReportsAreTrue,
             QueuedHasNoJob
  <1>3. CASE StartLauncher
    <2>1. /\ \A t \in Task : messages'[t] = <<>>
          /\ \A t \in Task : job'[t] = IF t \in backend_id THEN "accepted" ELSE "none"
          /\ submitted_tasks' = backend_id /\ cancelling' \subseteq cancel_sent'
          /\ UNCHANGED <<queueVars, request, backend_id>> /\ backend_id \subseteq Task /\ Up'
      <3>1. \A t \in Task : messages[t] = <<>>
        BY <1>3 DEF StartLauncher, Jobs, QueuedHasNoJob, ReportsAreTrue, Up
      <3>. QED  BY <1>3, <3>1 DEF StartLauncher, MachineInv, TypeOK, Up
    <2>2. JobsAreKept' /\ CancelReachesJob' /\ TrackedIsReachable' /\ ReportsAreTrue'
      BY <2>1 DEF JobsAreKept, CancelReachesJob, TrackedIsReachable, ReportsAreTrue
    <2>3. \A t \in Task : t \in Queued' \/ request'[t] # "done" => t \notin backend_id
      <3>1. Handed = backend_id /\ Queued' = Queued /\ request' = request
        BY <1>3 DEF StartLauncher, Handed, Up, Queued
      <3>2. /\ Queued \cap Handed = {}
            /\ \A t \in Task : t \in Handed => request[t] = "done"
        BY PlacedIsKnown DEF MachineInv, Placement, EachInItsPlace
      <3>. QED  BY <3>1, <3>2
    <2>4. QueuedHasNoJob'
      BY <2>1, <2>3 DEF QueuedHasNoJob
    <2>. QED  BY <2>2, <2>4 DEF Jobs
  <1>. QED  BY <1>1, <1>2, <1>3 DEF Restart, Crash, Exit

LEMMA JobsStep ==
  ASSUME MachineInv, MachineInv', Jobs, [Next]_vars PROVE Jobs'
  <1>1. CASE WriteUpdate \/ UNCHANGED vars
    <2>1. UNCHANGED <<submitted_tasks, cancelling, cancel_sent, job, messages, request,
                      queueVars, backend_id>>
      BY <1>1 DEF WriteUpdate, vars
    <2>2. Up' \/ ~Up
      BY <1>1, WhileUp DEF vars, Up
    <2>. QED  BY <2>1, <2>2, JobsUntouched DEF Queued
  <1>. QED
    BY <1>1, JobsRequest, JobsEvent, JobsSection, JobsBackend, JobsRestart
       DEF Next, MachineInv

LEMMA JobsInvariant == Spec => [](MachineInv /\ Jobs)
  <1>1. Init => Jobs
    BY DEF Init, Jobs, JobsAreKept, CancelReachesJob, TrackedIsReachable,
           ReportsAreTrue, QueuedHasNoJob
  <1>2. MachineInv /\ MachineInv' /\ Jobs /\ [Next]_vars => Jobs'
    BY JobsStep
  <1>. QED  BY <1>1, <1>2, MachineInvariant, PTL DEF Spec

(* No job is left at the backend unattended: one that may still run belongs *)
(* to a tracked task, or was asked to cancel, or will be asked when its     *)
(* submission is confirmed; whatever closed its session, exceeded its limit *)
(* or suspended its machine.                                                *)
THEOREM JobsStayAccountedFor == Spec => []JobsAccountedFor
  <1>1. Jobs => JobsAccountedFor
    BY DEF Jobs, JobsAreKept, JobsAccountedFor
  <1>. QED  BY <1>1, JobsInvariant, PTL

(* The flag of a task that is being cancelled is never a dead letter: its   *)
(* job has been asked to cancel, or has ended, or its submission is yet to  *)
(* be confirmed to the launcher, which then asks.                           *)
THEOREM CancelsReachTheirJobs == Spec => []CancelReachesJob
  <1>1. Jobs => CancelReachesJob
    BY DEF Jobs
  <1>. QED  BY <1>1, JobsInvariant, PTL

-----------------------------------------------------------------------------
(* Suspensions, in the first life of the service.  A restart restores the   *)
(* suspension without its policy (core.rs, restore), so none of this holds  *)
(* of a later life.                                                         *)

FirstLife == crashes + shutdowns = 0

(* The policy in force is a request the launcher has not taken, or leaves   *)
(* nothing.                                                                 *)
PolicyIsKept ==
  suspension \in {"waiting", "all"} =>
    \/ suspension \in suspend_cancel_requests
    \/ /\ Queued = {} /\ running_session = NoSession
       /\ suspension = "all" => submitted_tasks = {}

(* A service that stops, or has stopped, is not in its first life.          *)
PolicyInv ==
  FirstLife => Up /\ ~shutting_down /\ pc # "stopped" /\ PolicyIsKept

(* Steps that add no work to a suspended machine. *)
LEMMA PolicyKept ==
  ASSUME PolicyIsKept, UNCHANGED suspension,
         suspend_cancel_requests \subseteq suspend_cancel_requests',
         Queued' \subseteq Queued,
         running_session' \in {running_session, NoSession},
         submitted_tasks' \subseteq submitted_tasks
  PROVE  PolicyIsKept'
  BY DEF PolicyIsKept

LEMMA PolicyRequest ==
  ASSUME PolicyIsKept, Request PROVE PolicyIsKept'
  <1>1. ASSUME NEW i, AddTask(i) \/ AddSession(i) PROVE PolicyIsKept'
    BY <1>1 DEF AddTask, AddSession, Accepts, PolicyIsKept
  <1>2. CASE SuspendMachine
    BY <1>2 DEF SuspendMachine, PolicyIsKept, Policy
  <1>3. CASE ResumeMachine
    BY <1>3 DEF ResumeMachine, PolicyIsKept
  <1>4. ASSUME UNCHANGED <<suspension, suspend_cancel_requests, queueVars, submitted_tasks>>
        PROVE  PolicyIsKept'
    BY <1>4, PolicyKept DEF Queued
  <1>. QED
    BY <1>1, <1>2, <1>3, <1>4
       DEF Request, InsertRow, RejectRequest, DeleteRow, CancelTask, EvictTask,
           CancelSession, EvictSession, InsertSuspension, EndSuspension

LEMMA PolicyEvent ==
  ASSUME PolicyIsKept, Event PROVE PolicyIsKept'
  <1>1. /\ UNCHANGED <<suspension, suspend_cancel_requests>>
        /\ Queued' \subseteq Queued
        /\ running_session' \in {running_session, NoSession}
        /\ submitted_tasks' \subseteq submitted_tasks
    BY DEF Event, BackendMessage, Notified, Shutdown, SessionEnd, PeriodicCheck,
           TaskSubmitted, IgnoreStateChange, TaskRunning, TaskEnded, Untrack,
           CloseRunningSession, Queued
  <1>. QED  BY <1>1, PolicyKept

(* The section applies a policy before it hands anything to the backend.    *)
LEMMA PolicySection ==
  ASSUME SessionExclusive, PolicyIsKept, Section PROVE PolicyIsKept'
  <1>0. suspension' = suspension
    BY DEF Section, CancelRunningSession, CancelQueuedSession, DropSessionCancel,
           DropQueuedSession, OpenSession, CancelSubmittedTask, CancelQueuedTask,
           DropTaskCancel, FailQueuedTask, FailSessionQueue, FailSessionTask,
           FailSuspendedTask, SubmitTask, FailOverLimit, CloseSuspendedSession,
           SuspensionApplied, SectionDone, InSection, Suspending, Dispatching
  <1>1. CASE SuspensionApplied
    BY <1>0, <1>1 DEF SuspensionApplied, Suspending, SessionExclusive, PolicyIsKept, Queued
  <1>2. ASSUME NEW t \in Task, SubmitTask(t) PROVE PolicyIsKept'
    BY <1>0, <1>2 DEF SubmitTask, Dispatching, NoRequests, Picked, RemoveQueued, Queued,
                      PolicyIsKept
  <1>3. ASSUME NEW s \in Session, OpenSession(s) PROVE PolicyIsKept'
    BY <1>0, <1>3 DEF OpenSession, Dispatching, NoRequests, Queued, PolicyIsKept
  <1>4. ASSUME NEW t, FailSubmittedTask(t), UNCHANGED suspend_cancel_requests
        PROVE  PolicyIsKept'
    BY <1>0, <1>4, PolicyKept DEF FailSubmittedTask, Untrack, Queued
  <1>5. ASSUME NEW t, NEW state, SettleQueuedTask(t, state),
               UNCHANGED suspend_cancel_requests
        PROVE  PolicyIsKept'
    BY <1>0, <1>5, PolicyKept DEF SettleQueuedTask, RemoveQueued, Queued
  <1>6. ASSUME UNCHANGED suspend_cancel_requests,
               CloseRunningSession \/ \E s : CloseQueuedSession(s)
        PROVE  PolicyIsKept'
    BY <1>0, <1>6, PolicyKept DEF CloseRunningSession, CloseQueuedSession, Queued
  <1>7. ASSUME UNCHANGED <<suspend_cancel_requests, queueVars, submitted_tasks>>
        PROVE  PolicyIsKept'
    BY <1>0, <1>7, PolicyKept DEF Queued
  <1>. QED
    BY <1>1, <1>2, <1>3, <1>4, <1>5, <1>6, <1>7
       DEF Section, CancelRunningSession, CancelQueuedSession, DropSessionCancel,
           DropQueuedSession, CancelSubmittedTask, CancelQueuedTask,
           DropTaskCancel, FailQueuedTask, FailSessionQueue, FailSessionTask,
           FailSuspendedTask, FailOverLimit, CloseSuspendedSession,
           SectionDone, Suspending, Dispatching, TakeSessionCancel, TakeTaskCancel

LEMMA PolicyStep ==
  ASSUME MachineInv, MachineInv', SessionExclusive, PolicyInv, [Next]_vars
  PROVE  PolicyInv'
  <1>. SUFFICES ASSUME FirstLife'
                PROVE  Up' /\ ~shutting_down' /\ pc' # "stopped" /\ PolicyIsKept'
    BY DEF PolicyInv
  <1>1. FirstLife /\ UNCHANGED <<crashes, shutdowns>>
    <2>1. crashes \in Nat /\ shutdowns \in Nat /\ crashes' \in Nat /\ shutdowns' \in Nat
      BY DEF MachineInv, TypeOK
    <2>2. /\ crashes' = crashes \/ crashes' = crashes + 1
          /\ shutdowns' = shutdowns \/ shutdowns' = shutdowns + 1
      BY DEF Next, vars, Request, InsertRow, RejectRequest, DeleteRow, AddTask, CancelTask,
             EvictTask, AddSession, CancelSession, EvictSession, InsertSuspension,
             SuspendMachine, EndSuspension, ResumeMachine, Event, BackendMessage,
             Notified, Shutdown, SessionEnd, PeriodicCheck, TaskSubmitted,
             IgnoreStateChange, TaskRunning, TaskEnded, Section, CancelRunningSession,
             CancelQueuedSession, DropSessionCancel, DropQueuedSession, OpenSession,
             CancelSubmittedTask, CancelQueuedTask, DropTaskCancel, FailQueuedTask,
             FailSessionQueue, FailSessionTask, FailSuspendedTask, SubmitTask,
             FailOverLimit, CloseSuspendedSession, SuspensionApplied, SectionDone,
             InSection, Suspending, Dispatching, WriteUpdate, Backend, JobAccepted,
             JobRejected, JobRuns, JobEnds, Report, Restart, Crash, Exit, Lost, Restore,
             CancelOrphans, StartLauncher, CloseDeadSession
    <2>3. crashes' + shutdowns' = 0
      BY DEF FirstLife
    <2>4. crashes' = 0 /\ shutdowns' = 0
      <3>1. \A m, n \in Nat : m + n = 0 => m = 0 /\ n = 0
        OBVIOUS
      <3>. QED  BY <2>1, <2>3, <3>1
    <2>5. crashes = 0 /\ shutdowns = 0
      BY <2>1, <2>2, <2>4
    <2>. QED  BY <2>4, <2>5 DEF FirstLife
  <1>2. Up /\ ~shutting_down /\ pc # "stopped" /\ PolicyIsKept
    BY <1>1 DEF PolicyInv
  <1>3. CASE Request
    BY <1>2, <1>3, PolicyRequest, WhileUp DEF Up, Request, InsertRow, RejectRequest,
       DeleteRow, AddTask, CancelTask, EvictTask, AddSession, CancelSession, EvictSession,
       InsertSuspension, SuspendMachine, EndSuspension, ResumeMachine
  <1>4. CASE Event
    <2>1. ~Shutdown
      BY <1>1 DEF Shutdown, MachineInv, TypeOK
    <2>2. shutting_down' = shutting_down /\ pc' # "stopped"
      BY <1>4, <2>1 DEF Event, BackendMessage, Notified, SessionEnd, PeriodicCheck,
                        TaskSubmitted, IgnoreStateChange, TaskRunning, TaskEnded, Select
    <2>. QED  BY <1>2, <1>4, <2>2, PolicyEvent, WhileUp
  <1>5. CASE Section
    <2>1. shutting_down' = shutting_down /\ pc' \in {"section", AfterSection}
      BY <1>5 DEF Section, CancelRunningSession, CancelQueuedSession, DropSessionCancel,
           DropQueuedSession, OpenSession, CancelSubmittedTask, CancelQueuedTask,
           DropTaskCancel, FailQueuedTask, FailSessionQueue, FailSessionTask,
           FailSuspendedTask, SubmitTask, FailOverLimit, CloseSuspendedSession,
           SuspensionApplied, SectionDone, InSection, Suspending, Dispatching
    <2>. QED
      BY <1>2, <1>5, <2>1, PolicySection, WhileUp DEF AfterSection, NextIteration
  <1>6. CASE WriteUpdate \/ Backend \/ UNCHANGED vars
    <2>1. /\ UNCHANGED <<suspension, suspend_cancel_requests, queueVars, submitted_tasks,
                         shutting_down>>
          /\ pc' \in {pc, "flush", NextIteration}
      BY <1>6 DEF WriteUpdate, Backend, JobAccepted, JobRejected, JobRuns, JobEnds, Report,
                  vars
    <2>. QED  BY <1>2, <2>1, PolicyKept DEF NextIteration, Up, Queued
  <1>7. CASE Restart
    <2>1. ~Crash
      BY <1>1 DEF Crash, MachineInv, TypeOK
    <2>. QED
      BY <1>2, <1>7, <2>1 DEF Restart, Exit, Restore, CancelOrphans, StartLauncher,
                              CloseDeadSession, Up
  <1>. QED  BY <1>3, <1>4, <1>5, <1>6, <1>7 DEF Next

(* In the first life of the service an applied suspension has left nothing  *)
(* it covers: whenever the launcher waits with no policy to apply, a machine *)
(* suspended with "waiting" or "all" has no queued work and no open session, *)
(* and with "all" nothing at the backend.                                   *)
THEOREM SuspensionsAreApplied == Spec => [](FirstLife => SuspensionIsApplied)
  <1>1. Init => PolicyInv
    BY DEF Init, PolicyInv, FirstLife, Up, PolicyIsKept
  <1>2. /\ MachineInv /\ MachineInv' /\ SessionExclusive /\ PolicyInv /\ [Next]_vars
        => PolicyInv'
    BY PolicyStep
  <1>3. PolicyInv => (FirstLife => SuspensionIsApplied)
    BY DEF PolicyInv, PolicyIsKept, SuspensionIsApplied
  <1>. QED  BY <1>1, <1>2, <1>3, MachineInvariant, SessionsAreExclusive, PTL DEF Spec

=============================================================================
