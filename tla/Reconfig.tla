------------------------------ MODULE Reconfig ------------------------------
(***************************************************************************)
(* The reconfiguration and the removal of a machine while the service goes *)
(* on (reactor.rs: update_machine, remove_machine, restart_machine), put   *)
(* together with the machine and its launcher (Launcher.tla).              *)
(*                                                                         *)
(* The machine is marked unavailable, its launcher is told to stop and     *)
(* flushes its updates, its state is dropped from memory and rebuilt from  *)
(* the rows for a new incarnation, and a launcher is started for that.     *)
(* The mutex is free in between, and requests of the service that were     *)
(* validated before go on: rows are inserted, submissions are answered,    *)
(* cancels are accepted, the machine is suspended or resumed.              *)
(*                                                                         *)
(* Left to other modules: crashes, graceful shutdowns and eviction         *)
(* (Launcher, Users), limits and time (Users, Projects).                   *)
(***************************************************************************)
EXTENDS Launcher

CONSTANTS
  MaxAdmins,   \* bound: updates and removals of the machine
  MaySuspend   \* bound: policies of the suspensions that may be requested

ASSUME AdminAssumption == MaxAdmins \in Nat /\ MaySuspend \subseteq Policy

VARIABLES
  machine,            \* "available", "unavailable" or "absent"
  admin,              \* the step of the update or removal that has admin_lock
  removal,            \* whether it is a removal, and forced
  late,               \* requests that passed their validation just before it
  loaded_suspension,  \* the suspension restore has read
  admins              \* bound

adminVars == <<machine, admin, removal, late, loaded_suspension, admins>>
allVars   == <<vars, adminVars>>

AdminStep == {"idle", "update", "remove", "stop", "replace", "load", "rebuild", "purge"}

ReconfigTypeOK ==
  /\ TypeOK
  /\ machine \in {"available", "unavailable", "absent"}
  /\ admin \in AdminStep
  /\ removal \in {"none", "unforced", "forced"}
  /\ late \subseteq Item
  /\ loaded_suspension \in Policy \cup {"off"}
  /\ admins \in 0..MaxAdmins

ReconfigInit ==
  /\ Init
  /\ machine = "available" /\ admin = "idle" /\ removal = "none"
  /\ late = {} /\ loaded_suspension = "off" /\ admins = 0

-----------------------------------------------------------------------------
(* Requests of the service only need the mutex, whatever the launcher is    *)
(* doing: as far as they see it is running, until the service itself shuts  *)
(* down.                                                                    *)
Client == INSTANCE Launcher WITH pc <- IF Unlocked THEN "select" ELSE "section",
                                 shutting_down <- (shutdowns > 0)

Served == Unlocked /\ UNCHANGED <<pc, shutting_down, shutdowns, adminVars>>

Insert(i) == Served /\ machine = "available" /\ Client!InsertRow(i)

(* Validated before the machine became unavailable.  The row of a removed   *)
(* machine cannot be inserted.  Rows inserted while restore works are not   *)
(* looked at by it: they might as well come later.                          *)
InsertLate(i) ==
  /\ Served
  /\ i \in late /\ request[i] = "idle"
  /\ machine # "absent" /\ admin \notin {"rebuild", "purge"}
  /\ request' = [request EXCEPT ![i] = "inserted"]
  /\ IF i \in Task
     THEN db_task' = [db_task EXCEPT ![i] = "waiting"] /\ UNCHANGED db_session
     ELSE db_session' = [db_session EXCEPT ![i] = "queued"] /\ UNCHANGED db_task
  /\ UNCHANGED <<machineVars, launcherVars, suspend_request, db_backend_id,
                 db_suspension, backendVars, boundVars, notified>>

(* Mutant: add_task and add_session do not look at the machine again. *)
StillThere == machine # "absent"

Usable == machine = "available"

Add(i) ==
  /\ Served /\ Usable
  /\ IF i \in Task THEN Client!AddTask(i) ELSE Client!AddSession(i)

Refuse(i) ==
  /\ Served
  /\ request[i] = "inserted"
  /\ ~Usable \/ ~Accepts(i)
  /\ request' = [request EXCEPT ![i] = "rejected"]
  /\ UNCHANGED <<machineVars, launcherVars, suspend_request, dbVars,
                 backendVars, boundVars, notified>>

Delete(i) == Served /\ Client!DeleteRow(i)

(* A cancel finds its task or session in memory, or is refused.             *)
Cancel ==
  /\ Served
  /\ \/ \E t \in Task : Client!CancelTask(t)
     \/ \E s \in Session : Client!CancelSession(s)

(* suspension_lock, not admin_lock, orders these.  A suspension recorded    *)
(* before the removal finds no machine after it and panics                  *)
(* (get_machine_mut): nothing more is modelled of that.                     *)
Suspend ==
  /\ Served /\ machine # "absent"
  /\ \/ \E p \in MaySuspend : Client!InsertSuspension(p)
     \/ Client!SuspendMachine \/ Client!EndSuspension \/ Client!ResumeMachine

Service ==
  \/ \E i \in Item : Insert(i) \/ InsertLate(i) \/ Add(i) \/ Refuse(i) \/ Delete(i)
  \/ Cancel \/ Suspend

-----------------------------------------------------------------------------
(* Updates and removals. *)

Admin(from, to) ==
  /\ Unlocked
  /\ admin = from /\ admin' = to
  /\ UNCHANGED <<serviceVars, boundVars, notified>>

(* set_machine_unavailable *)
Begin(step, kind) ==
  /\ Admin("idle", step)
  /\ machine # "absent"
  /\ admins < MaxAdmins /\ admins' = admins + 1
  /\ machine' = "unavailable"
  /\ removal' = kind
  /\ late' = {i \in Item : request[i] = "idle" /\ Accepts(i)}
  /\ UNCHANGED <<machineVars, launcherVars, dbVars, backendVars,
                 loaded_suspension>>

BeginUpdate == Begin("update", "none")
BeginRemoval == \E kind \in {"unforced", "forced"} : Begin("remove", kind)

HasRow(i) == IF i \in Task THEN db_task[i] # "absent" ELSE db_session[i] # "absent"
HasDependents == \E i \in Item : HasRow(i)

(* The update cannot be recorded, the rows cannot be counted, or there are  *)
(* some: set_machine_available.                                             *)
GiveUp(step) ==
  /\ Admin(step, "idle")
  /\ machine' = "available"
  /\ UNCHANGED <<machineVars, launcherVars, dbVars, backendVars, removal, late,
                 loaded_suspension, admins>>

Record ==
  /\ Admin("update", "stop")
  /\ UNCHANGED <<machineVars, launcherVars, dbVars, backendVars, machine,
                 removal, late, loaded_suspension, admins>>

(* A forced removal asks the backend to cancel the machine's jobs. *)
Count ==
  /\ Admin("remove", "stop")
  /\ removal = "unforced" => ~HasDependents
  /\ cancel_sent' = IF removal = "unforced" THEN cancel_sent
                    ELSE cancel_sent \cup {t \in backend_id : task_map[t] \in Active}
  /\ UNCHANGED <<machineVars, launcherVars, dbVars, job, messages, machine,
                 removal, late, loaded_suspension, admins>>

(* The event that ends the launcher; the section it starts goes on as any.  *)
Stop ==
  /\ Select("section")
  /\ admin = "stop" /\ ~shutting_down
  /\ shutting_down' = TRUE
  /\ UNCHANGED <<machineVars, trackVars, db_updates, outsideVars, notified,
                 adminVars>>

(* Mutant: nobody waits for the launcher's updates. *)
StoppedOrFlushing ==
  pc \in {"stopped", "down"} \/ (pc = "flush" /\ shutting_down)

(* A machine whose restoration failed has no launcher to wait for. *)
Stopped == pc \in {"stopped", "down"}

(* purge_machine; the old incarnation's backend is stopped.                 *)
Purged ==
  /\ task_map' = [t \in Task |-> "absent"]
  /\ backend_id' = {}
  /\ session_map' = [s \in Session |-> "absent"]
  /\ tasks_in_backend' = [u \in User |-> 0]
  /\ queues' = {} /\ running_session' = NoSession /\ session_queue' = {}
  /\ suspend_cancel_requests' = {} /\ suspension' = "off" /\ notifier' = FALSE
  /\ submitted_tasks' = {} /\ cancelling' = {} /\ fail_reasons' = {}
  /\ db_updates' = <<>> /\ shutting_down' = FALSE
  /\ job' = [t \in Task |-> "none"] /\ cancel_sent' = {}
  /\ messages' = [t \in Task |-> <<>>]
  /\ pc' = "down"

(* Mutant: cancels accepted meanwhile are forgotten. *)
InheritNothing == task_cancel_requests' = {} /\ session_cancel_requests' = {}

InheritCancelRequests == UNCHANGED <<task_cancel_requests, session_cancel_requests>>

(* The first section of restart_machine. *)
Replace ==
  /\ \/ Admin("stop", "load") /\ removal = "none" /\ Stopped
     \/ Admin("replace", "load")
  /\ Purged /\ InheritCancelRequests
  /\ UNCHANGED <<dbVars, machine, removal, late, loaded_suspension, admins>>

(* restore reads the rows.  Bound: a submission between its row and the     *)
(* answer is answered first (Users shows what comes of it otherwise).       *)
Load ==
  /\ Admin("load", "rebuild")
  /\ \A i \in Item : request[i] \in {"idle", "done"}
  /\ loaded_suspension' = db_suspension
  /\ UNCHANGED <<machineVars, launcherVars, dbVars, backendVars, machine,
                 removal, late, admins>>

(* The machine stays unavailable, without a launcher. *)
LoadFails ==
  /\ Admin("load", "idle")
  /\ UNCHANGED <<machineVars, launcherVars, dbVars, backendVars, machine,
                 removal, late, loaded_suspension, admins>>

(* Mutant: only jobs the backend confirmed are kept. *)
RebuiltResumed(t) == IF t \in Resumed THEN "running" ELSE "absent"

Rebuilt(t) == RestoredTask(t)

(* The section of restore.  A suspension is only ever set by it. *)
Rebuild ==
  /\ Unlocked /\ admin = "rebuild" /\ pc = "down" /\ pc' = "restoring"
  /\ task_map' = [t \in Task |-> Rebuilt(t)]
  /\ backend_id' = Resumed
  /\ session_map' = [s \in Session |-> RestoredSession(s)]
  /\ queues' = {t \in Task : Rebuilt(t) = "waiting"}
          \cup {s \in Session : RestoredSession(s) = "queued"}
  /\ notifier' = (notifier \/ queues' # {})
  /\ suspension' = IF loaded_suspension = "off" THEN suspension ELSE loaded_suspension
  /\ tasks_in_backend' = [u \in User |->
       Cardinality({t \in Resumed : ~SessionTask(t) /\ Owner[t] = u})]
  /\ UNCHANGED <<running_session, session_queue, requestVars, trackVars,
                 db_updates, shutting_down, outsideVars, notified, adminVars>>

(* What restore writes, as at a restart of the service. *)
RecordRebuilt ==
  /\ CancelOrphans \/ \E s \in Session : CloseDeadSession(s)
  /\ UNCHANGED adminVars

Restarted ==
  /\ Admin("rebuild", "idle")
  /\ StartLauncher
  /\ machine' = "available"
  /\ UNCHANGED <<removal, late, loaded_suspension, admins>>

(* The rows of the machine go with it, or none does. *)
RemoveRows ==
  /\ Admin("stop", "purge") /\ removal # "none" /\ Stopped
  /\ db_task' = [t \in Task |-> "absent"] /\ db_backend_id' = {}
  /\ db_session' = [s \in Session |-> "absent"] /\ db_suspension' = "off"
  /\ UNCHANGED <<machineVars, launcherVars, backendVars, machine, removal,
                 late, loaded_suspension, admins>>

RemovalFails ==
  /\ Admin("stop", "replace") /\ removal # "none" /\ Stopped
  /\ removal' = "none"
  /\ UNCHANGED <<machineVars, launcherVars, dbVars, backendVars, machine,
                 late, loaded_suspension, admins>>

Purge ==
  /\ Admin("purge", "idle")
  /\ Purged
  /\ task_cancel_requests' = {} /\ session_cancel_requests' = {}
  /\ machine' = "absent"
  /\ UNCHANGED <<dbVars, removal, late, loaded_suspension, admins>>

Administration ==
  \/ BeginUpdate \/ BeginRemoval \/ GiveUp("update") \/ GiveUp("remove")
  \/ Record \/ Count \/ Stop \/ Replace \/ Load \/ LoadFails
  \/ Rebuild \/ RecordRebuilt \/ Restarted
  \/ RemoveRows \/ RemovalFails \/ Purge

-----------------------------------------------------------------------------
(* The launcher's own events, sections and writes, and the backend's.       *)
Launch ==
  /\ \/ Notified \/ SessionEnd
     \/ \E over \in SUBSET Task : PeriodicCheck(over)
     \/ \E t \in Task : BackendMessage(t)
     \/ Section \/ WriteUpdate \/ Backend
  /\ UNCHANGED adminVars

(* The launcher takes a cancel of a task that is not in memory: it panics   *)
(* with the mutex held (get_task_mut), and nobody gets the mutex again.     *)
Panicked ==
  /\ pc = "section" /\ session_cancel_requests = {}
  /\ \E t \in task_cancel_requests : task_map[t] = "absent"

ReconfigNext == ~Panicked /\ (Service \/ Administration \/ Launch)

ReconfigSpec == ReconfigInit /\ [][ReconfigNext]_allVars

-----------------------------------------------------------------------------
(* "Queued work is kept" (update_machine): while a launcher runs, each task *)
(* that was accepted and has no outcome is queued or at the backend, also   *)
(* when it was accepted by an earlier incarnation of the machine.           *)
WorkIsKept ==
  pc \in {"select", "section"} =>
    \A t \in Task : request[t] = "done" /\ LiveRow(t) /\ ~OutcomePending(t)
                      => t \in Queued \cup submitted_tasks

(* No end of a task is reported twice: stopping the launcher, writing its   *)
(* last updates and reading them back lose none, so what ended is not run   *)
(* again by the next incarnation (stop_machine_launcher waits).             *)
EndedOnce == \A t \in Task : notified[t] <= 1

(* An unforced removal only deletes rows of requests that are about to be   *)
(* refused: whatever was accepted, also after the rows were counted, keeps  *)
(* its machine (remove_machine, check_not_suspended in add_task).           *)
RemovalKeepsWork ==
  admin = "stop" /\ removal = "unforced" =>
    \A i \in Item : HasRow(i) => request[i] \in {"inserted", "rejected"}

(* A pending cancel of a task is only ever taken by a launcher, or gone     *)
(* with a removed machine (inherit_cancel_requests: "cancels accepted       *)
(* during a reconfiguration are not lost").                                 *)
CancelsAreInherited ==
  [][\A t \in task_cancel_requests \ task_cancel_requests' :
       pc = "section" \/ machine' = "absent"]_allVars

-----------------------------------------------------------------------------
(* What the code departs from. *)

(* Cancels accepted during a reconfiguration are inherited (machine.rs,      *)
(* inherit_cancel_requests), and the launcher finds what they name           *)
(* (get_task_mut, get_session_mut).                                          *)
CancelFindsItsTask == Up => RequestsInMemory

(* "If the restoration fails, it stays unavailable (a service restart       *)
(* recovers it)" (restart_machine): a machine that takes work has a         *)
(* launcher.                                                                *)
AvailableIsLaunched == machine = "available" => Up

(* A resumed machine accepts work again: memory follows the rows whenever   *)
(* no suspension, resumption or reconfiguration is in progress.             *)
SuspensionIsRow ==
  suspend_request = "idle" /\ machine = "available" /\ Up => suspension = db_suspension

(* A suspension finds its machine when it is applied in memory. *)
SuspendedMachineExists == suspend_request # "idle" => machine # "absent"

=============================================================================
