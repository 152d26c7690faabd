------------------------------ MODULE Projects ------------------------------
(***************************************************************************)
(* A project's time (project.rs): what its tasks and sessions have used,   *)
(* what is estimated of those that run, and its limit, which requests read *)
(* and change.  The entry in memory (`cached` and its fields) is charged   *)
(* by the launchers of all machines; the row in the database follows, and  *)
(* memory is filled from the row on demand (reactor.rs).                   *)
(*                                                                         *)
(* One project, as projects share nothing.  Its `active` flag is read and  *)
(* written with its limit by the same statements and is left out.  A       *)
(* launcher holds the mutex of the core in a "section", which begins with  *)
(* an event and ends with the requests it has to apply and the dispatch;   *)
(* afterwards it writes `updates` one by one.                              *)
(***************************************************************************)
EXTENDS Integers, FiniteSets

CONSTANTS
  Task, Session,
  Machine, Of,       \* [Task \cup Session -> Machine]
  time_limit,        \* [Task \cup Session -> Nat]
  Admin,             \* requests that create, update or read the project
  Limit,             \* limits they ask for
  InitialLimit,      \* limit of a project that was there before
  MaxItems,          \* bound: items submitted in a behaviour
  MaxTime,           \* bound: ticks of the clock
  MaxFaults,         \* bound: crashes, reconfigurations of machines and
                     \* suspensions with policy `all`, together
  MayOverlap,        \* whether a request may overlap one that writes the row
  MayStopSuspended   \* whether a launcher may be stopped while it has a
                     \* suspension to apply, and suspended while it stops

Item   == Task \cup Session
Client == Task \cup Admin

ASSUME ProjectsAssumption ==
  /\ IsFiniteSet(Item) /\ Task \cap Session = {} /\ Item \cap Admin = {}
  /\ Of \in [Item -> Machine] /\ time_limit \in [Item -> Nat \ {0}]
  /\ Limit \subseteq Nat /\ Limit # {} /\ InitialLimit \in Nat
  /\ MaxItems \in Nat /\ MaxTime \in Nat /\ MaxFaults \in Nat
  /\ MayOverlap \in BOOLEAN /\ MayStopSuspended \in BOOLEAN

VARIABLES
  cached,                    \* the project is in project_map
  limit, consumed, in_flight,   \* Project, 0 if not cached
  row_exists, row_limit, row_consumed,   \* the row of the project
  offered,                   \* bound: the items submitted in this behaviour
  request,                   \* [Client -> RequestState]
  asked,                     \* [Client -> limit to write]
  seen,                      \* [Client -> row read]
  place,                     \* [Item -> where the launcher has it]
  ran,                       \* [Item -> true time of the job, or held by the session]
  job,                       \* [Task -> state of its job]
  late,                      \* [Task -> time since its end until recorded]
  running_tasks,             \* tasks with an entry
  elapsed, charged,          \* [Task -> Nat], of these
  cancelling,                \* flags of submitted_tasks
  exec_time,                 \* [Item -> last value to be recorded]
  updates,                   \* DbUpdates not yet written
  row_exec, row_started, row_final,  \* rows of items
  pc,                        \* [Machine -> LauncherState]
  stop,                      \* machines whose launcher is to stop
  suspended,                 \* machines with a pending request_suspend_cancel
  now, faults

projectVars == <<cached, limit, consumed, in_flight>>
rowVars     == <<row_exists, row_limit, row_consumed>>
requestVars == <<offered, request, asked, seen>>
taskVars    == <<running_tasks, elapsed, charged, cancelling>>
jobVars     == <<ran, job, late>>
itemRows    == <<row_exec, row_started, row_final>>
controlVars == <<stop, suspended>>
counters    == <<now, faults>>

vars == <<projectVars, rowVars, requestVars, place, jobVars, taskVars, exec_time,
          updates, itemRows, pc, controlVars, counters>>

-----------------------------------------------------------------------------
Limits        == Limit \cup {InitialLimit, 0}
Time          == 0..MaxTime
NoRow         == [limit |-> 0, consumed |-> 0]
RequestState  == {"idle", "inserted", "written", "missed", "fetched", "done"}
(* "submitted" is an open session as well.                                  *)
Place         == {"new", "queued", "submitted", "final"}
JobState      == {"none", "waiting", "running", "ended", "dropped"}
(* "stopping" is the section of the event Shutdown.                         *)
LauncherState == {"select", "section", "stopping", "stopped"}
Update        == {"started", "exec", "final"} \X Item

TypeOK ==
  /\ cached \in BOOLEAN /\ limit \in Limits /\ consumed \in Nat /\ in_flight \in Nat
  /\ row_exists \in BOOLEAN /\ row_limit \in Limits /\ row_consumed \in Nat
  /\ offered \subseteq Item /\ request \in [Client -> RequestState] /\ asked \in [Client -> Limits]
  /\ seen \in [Client -> [limit : Limits, consumed : Nat]]
  /\ place \in [Item -> Place] /\ ran \in [Item -> Time] /\ job \in [Task -> JobState]
  /\ late \in [Task -> Time]
  /\ running_tasks \subseteq {t \in Task : place[t] = "submitted"}
  /\ elapsed \in [Task -> Time] /\ charged \in [Task -> Time]
  /\ cancelling \subseteq {t \in Task : place[t] = "submitted"}
  /\ exec_time \in [Item -> Time] /\ updates \subseteq Update
  /\ row_exec \in [Item -> Time] /\ row_started \subseteq Item /\ row_final \subseteq Item
  /\ pc \in [Machine -> LauncherState]
  /\ stop \subseteq Machine /\ suspended \subseteq Machine
  /\ now \in Time /\ faults \in 0..MaxFaults

-----------------------------------------------------------------------------
(* Helpers *)

(* Units(f, items) has f[i] units of time of each item.                     *)
Units(f, items)   == UNION {{i} \X (1..f[i]) : i \in items}
SumOver(f, items) == Cardinality(Units(f, items))
Min2(a, b) == IF a < b THEN a ELSE b
Max2(a, b) == IF a > b THEN a ELSE b

(* Mutexes: no launcher is in a section; a launcher has written everything. *)
Unlocked   == \A m \in Machine : pc[m] \notin {"section", "stopping"}
Flushed(m) == \A u \in updates : Of[u[2]] # m

On(m, items) == {i \in items : Of[i] = m}
Submitted(m) == {t \in On(m, Task) : place[t] = "submitted"}
Open(m)      == {s \in On(m, Session) : place[s] = "submitted"}

IsOverLimit(used, flight) == used + flight >= limit

(* Project::settle_in_flight, for several tasks at once.                    *)
SettleInFlight(dropped, actual) ==
  /\ in_flight' = Max2(in_flight - dropped, 0)
  /\ consumed' = consumed + actual

-----------------------------------------------------------------------------
(* Requests on the project (reactor.rs).  A task is submitted once its      *)
(* project's id is known (get_project_id_by_name).                          *)

UnderWay(c) == request[c] \notin {"idle", "done"}
Writes(c)   == request[c] \in {"inserted", "written"}
                 \/ (asked[c] # 0 /\ UnderWay(c))
MayWrite    == MayOverlap \/ \A c \in Client : ~UnderWay(c)
MayRead     == MayOverlap \/ \A c \in Client : ~Writes(c)

(* create_project: the row is inserted, ...                                 *)
InsertProject(c, l) ==
  /\ request[c] = "idle" /\ MayWrite /\ ~row_exists
  /\ row_exists' = TRUE /\ row_limit' = l /\ UNCHANGED row_consumed
  /\ request' = [request EXCEPT ![c] = "inserted"]
  /\ asked' = [asked EXCEPT ![c] = l]
  /\ UNCHANGED <<projectVars, offered, seen, place, jobVars, taskVars, exec_time, updates,
                 itemRows, pc, controlVars, counters>>

(* ... then the project is added unless someone else has loaded it.         *)
CacheCreated(c) ==
  /\ request[c] = "inserted" /\ Unlocked
  /\ request' = [request EXCEPT ![c] = "done"]
  /\ asked' = [asked EXCEPT ![c] = 0]
  /\ cached' = TRUE
  /\ limit' = IF cached THEN limit ELSE asked[c]
  /\ UNCHANGED <<consumed, in_flight, rowVars, offered, seen, place, jobVars, taskVars,
                 exec_time, updates, itemRows, pc, controlVars, counters>>

(* update_project: the row is written, ...                                  *)
UpdateRow(c, l) ==
  /\ request[c] = "idle" /\ MayWrite /\ row_exists
  /\ row_limit' = l /\ UNCHANGED <<row_exists, row_consumed>>
  /\ request' = [request EXCEPT ![c] = "written"]
  /\ asked' = [asked EXCEPT ![c] = l]
  /\ UNCHANGED <<projectVars, offered, seen, place, jobVars, taskVars, exec_time, updates,
                 itemRows, pc, controlVars, counters>>

(* Mutant: the entry in memory keeps its limit. *)
UpdateCachedNothing(c) ==
  /\ request[c] = "written" /\ Unlocked
  /\ request' = [request EXCEPT ![c] = IF cached THEN "done" ELSE "missed"]
  /\ UNCHANGED <<projectVars, rowVars, offered, asked, seen, place, jobVars, taskVars, exec_time,
                 updates, itemRows, pc, controlVars, counters>>

(* ... then the entry in memory, or else it is looked up.                   *)
UpdateCached(c) ==
  /\ request[c] = "written" /\ Unlocked
  /\ limit' = IF cached THEN asked[c] ELSE limit
  /\ request' = [request EXCEPT ![c] = IF cached THEN "done" ELSE "missed"]
  /\ asked' = [asked EXCEPT ![c] = IF cached THEN 0 ELSE @]
  /\ UNCHANGED <<cached, consumed, in_flight, rowVars, offered, seen, place, jobVars, taskVars,
                 exec_time, updates, itemRows, pc, controlVars, counters>>

(* get_project_by_name, get_project_id_by_name: memory, ...                 *)
Lookup(c) ==
  /\ request[c] = "idle" /\ c \in Admin \cup offered /\ MayRead /\ Unlocked
  /\ request' = [request EXCEPT ![c] = IF cached THEN "done" ELSE "missed"]
  /\ UNCHANGED <<projectVars, rowVars, offered, asked, seen, place, jobVars, taskVars, exec_time,
                 updates, itemRows, pc, controlVars, counters>>

(* ... the row (none is an error of a task, which is then not submitted),   *)
Fetch(c) ==
  /\ request[c] = "missed"
  /\ row_exists \/ c \notin Task
  /\ request' = [request EXCEPT ![c] = IF row_exists THEN "fetched" ELSE "done"]
  /\ seen' = [seen EXCEPT ![c] = IF row_exists
                THEN [limit |-> row_limit, consumed |-> row_consumed] ELSE NoRow]
  /\ UNCHANGED <<projectVars, rowVars, offered, asked, place, jobVars, taskVars, exec_time,
                 updates, itemRows, pc, controlVars, counters>>

(* Mutant: the row read replaces the entry in memory. *)
FillAlways(c) ==
  /\ request[c] = "fetched" /\ Unlocked
  /\ request' = [request EXCEPT ![c] = "done"]
  /\ asked' = [asked EXCEPT ![c] = 0] /\ seen' = [seen EXCEPT ![c] = NoRow]
  /\ cached' = TRUE /\ limit' = seen[c].limit /\ consumed' = seen[c].consumed
  /\ UNCHANGED <<in_flight, rowVars, offered, place, jobVars, taskVars, exec_time, updates,
                 itemRows, pc, controlVars, counters>>

(* ... and memory again, which is filled if there is still no entry.        *)
Fill(c) ==
  /\ request[c] = "fetched" /\ Unlocked
  /\ request' = [request EXCEPT ![c] = "done"]
  /\ asked' = [asked EXCEPT ![c] = 0] /\ seen' = [seen EXCEPT ![c] = NoRow]
  /\ cached' = TRUE
  /\ limit' = IF cached THEN limit ELSE seen[c].limit
  /\ consumed' = IF cached THEN consumed ELSE seen[c].consumed
  /\ UNCHANGED <<in_flight, rowVars, offered, place, jobVars, taskVars, exec_time, updates,
                 itemRows, pc, controlVars, counters>>

(* submit_task, create_session: validation, the row and the queue as one    *)
(* step, since Launcher has them apart.  A session needs all its time.      *)
Submit(i) ==
  /\ i \in offered /\ place[i] = "new" /\ Unlocked /\ cached
  /\ i \in Task => request[i] = "done" /\ ~IsOverLimit(consumed, in_flight)
  /\ i \in Session => consumed + in_flight + time_limit[i] < limit
  /\ place' = [place EXCEPT ![i] = "queued"]
  /\ UNCHANGED <<projectVars, rowVars, requestVars, jobVars, taskVars, exec_time, updates,
                 itemRows, pc, controlVars, counters>>


-----------------------------------------------------------------------------
(* Launchers.  An event begins a section, ...                               *)

Event(m, section) ==
  /\ pc[m] = "select" /\ Unlocked /\ Flushed(m)
  /\ pc' = [pc EXCEPT ![m] = section]

Used(s)  == ran[s] - exec_time[s]
UsedIn(m) == SumOver([s \in Session |-> Used(s)], Open(m))

(* A session's time until now is confirmed, and recorded.                   *)
Checkpoint(m) ==
  /\ exec_time' = [i \in Item |-> IF i \in Open(m) THEN ran[i] ELSE exec_time[i]]
  /\ updates' = updates \cup ({"exec"} \X Open(m))

Notified(m) ==
  /\ Event(m, "section")
  /\ m \in suspended \/ \E i \in On(m, Item) : place[i] = "queued"
  /\ UNCHANGED <<projectVars, rowVars, requestVars, place, jobVars, taskVars, exec_time,
                 updates, itemRows, controlVars, counters>>

ChargedIn(m) == SumOver(charged, On(m, running_tasks))

(* Mutant: the estimates of the tasks that run are kept. *)
ShutdownUnsettled(m) ==
  /\ Event(m, "stopping") /\ m \in stop
  /\ SettleInFlight(0, UsedIn(m))
  /\ Checkpoint(m)
  /\ UNCHANGED <<cached, limit, rowVars, requestVars, place, jobVars, taskVars, itemRows,
                 controlVars, counters>>

(* Estimates are dropped, since restored tasks are charged from scratch.    *)
Shutdown(m) ==
  /\ Event(m, "stopping") /\ m \in stop
  /\ SettleInFlight(ChargedIn(m), UsedIn(m))
  /\ Checkpoint(m)
  /\ UNCHANGED <<cached, limit, rowVars, requestVars, place, jobVars, taskVars, itemRows,
                 controlVars, counters>>

Estimate(t) == Min2(elapsed[t], time_limit[t])

(* Mutant: the estimate is charged again by every check. *)
ChargeAgain(m) ==
  /\ in_flight' = in_flight + SumOver([t \in Task |-> Estimate(t)], On(m, running_tasks))
  /\ charged' = [t \in Task |-> IF t \in On(m, running_tasks) THEN charged[t] + Estimate(t)
                                                            ELSE charged[t]]
  /\ cancelling' = cancelling \cup
       {t \in Submitted(m) : \/ t \in running_tasks /\ elapsed[t] >= time_limit[t]
                             \/ IsOverLimit(consumed', in_flight')}

(* check_running_tasks: estimates are charged, and then every task over its *)
(* own limit is cancelled, or all of them if the project is over its limit. *)
ChargeEstimates(m) ==
  LET Grown(t) == Max2(Estimate(t) - charged[t], 0)
      running  == On(m, running_tasks)
  IN /\ in_flight' = in_flight + SumOver([t \in Task |-> Grown(t)], running)
     /\ charged' = [t \in Task |-> IF t \in running THEN Max2(charged[t], Estimate(t))
                                                    ELSE charged[t]]
     /\ cancelling' = cancelling \cup
          {t \in Submitted(m) : \/ t \in running_tasks /\ elapsed[t] >= time_limit[t]
                                \/ IsOverLimit(consumed', in_flight')}

(* The end of a session, whose consumed time is recorded a last time.       *)
Close(m) ==
  /\ place' = [i \in Item |-> IF i \in Open(m) THEN "final" ELSE place[i]]
  /\ exec_time' = [i \in Item |-> IF i \in Open(m) THEN ran[i] ELSE exec_time[i]]
  /\ updates' = updates \cup ({"final"} \X Open(m))

(* Only while something is submitted.  An open session is charged and       *)
(* checkpointed, or closed if the project has no time left.                 *)
PeriodicCheck(m) ==
  /\ Event(m, "section") /\ Submitted(m) \cup Open(m) # {}
  /\ consumed' = consumed + UsedIn(m)
  /\ IF IsOverLimit(consumed', in_flight) THEN Close(m)
                                          ELSE Checkpoint(m) /\ UNCHANGED place
  /\ ChargeEstimates(m)
  /\ UNCHANGED <<cached, limit, rowVars, requestVars, jobVars, running_tasks, elapsed,
                 itemRows, controlVars, counters>>

(* The deadline of the session; also a cancel of it that a request asked    *)
(* for, which is applied in a section of its own here.                      *)
SessionEnd(m) ==
  /\ Event(m, "section") /\ Open(m) # {}
  /\ consumed' = consumed + UsedIn(m)
  /\ Close(m)
  /\ UNCHANGED <<cached, limit, in_flight, rowVars, requestVars, jobVars, taskVars,
                 itemRows, controlVars, counters>>

(* ExecutionStarted: a lower bound e of the running time, from the report's *)
(* time or the backend's clock, raises the estimate or begins it.           *)
ExecutionStarted(t, e) ==
  LET m == Of[t] IN
  /\ Event(m, "section") /\ t \in Submitted(m)
  /\ job[t] \in {"running", "ended"} /\ e <= ran[t] + late[t]
  /\ t \in running_tasks \/ t \notin cancelling
  /\ running_tasks' = running_tasks \cup {t}
  /\ elapsed' = [elapsed EXCEPT ![t] = Max2(@, e)]
  /\ updates' = IF t \notin cancelling /\ t \notin row_started
                THEN updates \cup {<<"started", t>>} ELSE updates
  /\ UNCHANGED <<projectVars, rowVars, requestVars, place, jobVars, charged, cancelling,
                 exec_time, itemRows, controlVars, counters>>

(* Mutant: the entry in running_tasks is left behind. *)
UntrackSubmitted(tasks) ==
  /\ UNCHANGED <<running_tasks, elapsed, charged>>
  /\ cancelling' = cancelling \ tasks

(* Tasks stop being tracked.                                                *)
Untrack(tasks) ==
  /\ running_tasks' = running_tasks \ tasks
  /\ elapsed' = [t \in Task |-> IF t \in tasks THEN 0 ELSE elapsed[t]]
  /\ charged' = [t \in Task |-> IF t \in tasks THEN 0 ELSE charged[t]]
  /\ cancelling' = cancelling \ tasks

(* TaskStateChange to a final state: the true time replaces the estimate.   *)
TaskEnded(t) ==
  LET m == Of[t] IN
  /\ Event(m, "section") /\ t \in Submitted(m) /\ job[t] \in {"ended", "dropped"}
  /\ SettleInFlight(charged[t], ran[t])
  /\ place' = [place EXCEPT ![t] = "final"]
  /\ exec_time' = [exec_time EXCEPT ![t] = ran[t]]
  /\ updates' = updates \cup {<<"final", t>>}
  /\ Untrack({t})
  /\ UNCHANGED <<cached, limit, rowVars, requestVars, jobVars, itemRows, controlVars,
                 counters>>

-----------------------------------------------------------------------------
(* ... and ends with what requests ask for and the dispatch.                *)

EndSection(m) ==
  pc' = [pc EXCEPT ![m] = IF @ = "stopping" THEN "stopped" ELSE "select"]
(* What a launcher that ends forgets.                                       *)
Forget(m) ==
  IF pc[m] = "stopping" THEN Untrack(On(m, Task)) ELSE UNCHANGED taskVars

(* A suspension with policy `all`: the queue is emptied, the session is     *)
(* closed and submitted tasks fail at once with their estimate.             *)
ApplySuspension(m) ==
  LET tasks  == Submitted(m)
      failed == {i \in On(m, Item) : place[i] \in {"queued", "submitted"}}
      Final(i) == IF i \in tasks \cap running_tasks THEN Estimate(i)
                  ELSE IF i \in Open(m) THEN ran[i] ELSE 0
  IN /\ pc[m] \in {"section", "stopping"} /\ m \in suspended
     /\ EndSection(m)
     /\ suspended' = suspended \ {m}
     /\ place' = [i \in Item |-> IF i \in failed THEN "final" ELSE place[i]]
     /\ exec_time' = [i \in Item |-> IF i \in failed THEN Final(i) ELSE exec_time[i]]
     /\ updates' = updates \cup ({"final"} \X failed)
     /\ SettleInFlight(SumOver(charged, tasks),
                       SumOver([i \in Item |-> Final(i)], tasks) + UsedIn(m))
     /\ Untrack(On(m, Task))
     /\ UNCHANGED <<cached, limit, rowVars, requestVars, jobVars, itemRows, stop, counters>>

(* Tasks taken from the queue, which ones is the machine's choice (pick_task),  *)
(* go to the backend, or fail if the project is over its limit.             *)
Dispatch(m, tasks) ==
  LET over == IsOverLimit(consumed, in_flight) IN
  /\ pc[m] = "stopping" => tasks = {}
  /\ pc[m] \in {"section", "stopping"} /\ m \notin suspended
  /\ tasks # {} => Open(m) = {}
  /\ \A t \in tasks : place[t] = "queued" /\ Of[t] = m
  /\ EndSection(m) /\ Forget(m)
  /\ place' = [i \in Item |-> IF i \notin tasks THEN place[i]
                              ELSE IF over THEN "final" ELSE "submitted"]
  /\ job' = [t \in Task |-> IF t \in tasks /\ ~over THEN "waiting" ELSE job[t]]
  /\ updates' = IF over THEN updates \cup ({"final"} \X tasks) ELSE updates
  /\ stop' = IF pc[m] = "stopping" THEN stop \ {m} ELSE stop
  /\ UNCHANGED <<projectVars, rowVars, requestVars, ran, late, exec_time, itemRows,
                 suspended, counters>>

(* A session at the head of the queue opens when nothing is submitted.      *)
OpenSession(m, s) ==
  /\ pc[m] = "section" /\ m \notin suspended
  /\ place[s] = "queued" /\ Of[s] = m
  /\ Submitted(m) \cup Open(m) = {}
  /\ EndSection(m)
  /\ place' = [place EXCEPT ![s] = "submitted"]
  /\ updates' = updates \cup {<<"started", s>>}
  /\ UNCHANGED <<projectVars, rowVars, requestVars, jobVars, taskVars, exec_time, itemRows,
                 controlVars, counters>>

(* db_updates, one by one; those of an item in their order.  A trigger adds *)
(* the change of an item's time to that of the project.                     *)
WriteUpdate(u) ==
  LET i == u[2]
      written == IF u[1] = "started" THEN row_exec[i] ELSE exec_time[i]
  IN /\ u \in updates /\ pc[Of[i]] \in {"select", "stopped"}
     /\ u[1] = "final" => <<"exec", i>> \notin updates
     /\ u[1] # "started" => <<"started", i>> \notin updates
     /\ updates' = updates \ {u}
     /\ row_exec' = [row_exec EXCEPT ![i] = written]
     /\ row_consumed' = row_consumed + written - row_exec[i]
     /\ row_started' = IF u[1] = "started" THEN row_started \cup {i} ELSE row_started
     /\ row_final' = IF u[1] = "final" THEN row_final \cup {i} ELSE row_final
     /\ UNCHANGED <<projectVars, row_exists, row_limit, requestVars, place, jobVars, taskVars,
                    exec_time, pc, controlVars, counters>>

-----------------------------------------------------------------------------
(* Restoration and the end of launchers *)

RequestStop(m) ==
  /\ faults < MaxFaults /\ pc[m] = "select" /\ m \notin stop
  /\ MayStopSuspended \/ m \notin suspended
  /\ stop' = stop \cup {m} /\ faults' = faults + 1
  /\ UNCHANGED <<projectVars, rowVars, requestVars, place, jobVars, taskVars, exec_time,
                 updates, itemRows, pc, suspended, now>>

(* Stands for the resumption as well: the policy is applied all the same.   *)
Suspend(m) ==
  /\ faults < MaxFaults /\ m \notin suspended /\ Unlocked
  /\ pc[m] # "stopped" /\ (MayStopSuspended \/ m \notin stop)
  /\ suspended' = suspended \cup {m} /\ faults' = faults + 1
  /\ UNCHANGED <<projectVars, rowVars, requestVars, place, jobVars, taskVars, exec_time,
                 updates, itemRows, pc, stop, now>>

(* What Core::restore makes of an item whose row is not final: a session    *)
(* that was opened is closed, a task with a job resumes.  The backend id is *)
(* taken as recorded at dispatch (Launcher has it apart).                   *)
Restored(i) ==
  IF i \in row_final \/ place[i] = "new" THEN place[i]
  ELSE IF i \in Session THEN (IF i \in row_started THEN "final" ELSE "queued")
  ELSE IF job[i] # "none" THEN "submitted" ELSE "queued"

(* estimates, one for each task that had started: e[t] at most the time     *)
(* since, less the clock skew.                                              *)
Resume(items, e) ==
  LET resumed == {t \in items \cap Task : Restored(t) = "submitted"}
      tracked == resumed \cap row_started
  IN /\ \A t \in Task : e[t] <= IF t \in tracked THEN ran[t] + late[t] ELSE 0
     /\ running_tasks' = (running_tasks \ items) \cup tracked
     /\ elapsed' = [t \in Task |-> IF t \in items THEN e[t] ELSE elapsed[t]]
     /\ charged' = [t \in Task |-> IF t \in items THEN 0 ELSE charged[t]]
     /\ cancelling' = cancelling \ items
     /\ place' = [i \in Item |-> IF i \in items THEN Restored(i) ELSE place[i]]
     /\ row_final' = row_final \cup {s \in items \cap Session : s \in row_started}
     /\ exec_time' = [i \in Item |-> IF i \in items THEN row_exec[i] ELSE exec_time[i]]
     /\ ran' = [i \in Item |-> IF i \in items \cap Session THEN row_exec[i] ELSE ran[i]]
     /\ UNCHANGED <<row_exec, row_started, job, late>>

(* restart_machine, once the launcher has stopped: the project stays.       *)
Restart(m, e) ==
  /\ pc[m] = "stopped" /\ Flushed(m) /\ Unlocked
  /\ pc' = [pc EXCEPT ![m] = "select"]
  /\ suspended' = suspended \ {m} /\ stop' = stop \ {m}
  /\ Resume(On(m, Item), e)
  /\ UNCHANGED <<projectVars, rowVars, requestVars, updates, counters>>

(* The service dies and starts again.  The project is loaded with the rows  *)
(* that need it; nothing in it is in flight.                                *)
Crash(e) ==
  LET needed == \E i \in Item : Restored(i) \in {"queued", "submitted"} IN
  /\ faults < MaxFaults /\ faults' = faults + 1
  /\ cached' = needed /\ in_flight' = 0
  /\ limit' = IF needed THEN row_limit ELSE 0
  /\ consumed' = IF needed THEN row_consumed ELSE 0
  /\ request' = [c \in Client |-> IF c \in Task /\ place[c] = "new" THEN "idle" ELSE "done"]
  /\ asked' = [c \in Client |-> 0] /\ seen' = [c \in Client |-> NoRow]
  /\ Resume(Item, e)
  /\ updates' = {}
  /\ pc' = [m \in Machine |-> "select"] /\ suspended' = {} /\ stop' = {}
  /\ UNCHANGED <<rowVars, offered, now>>

-----------------------------------------------------------------------------
(* The backend's jobs, and time *)

JobStarts(t) ==
  /\ job[t] = "waiting"
  /\ job' = [job EXCEPT ![t] = "running"]
  /\ UNCHANGED <<projectVars, rowVars, requestVars, place, ran, late, taskVars, exec_time,
                 updates, itemRows, pc, controlVars, counters>>

(* By itself or because it was cancelled, maybe before it started. *)
JobEnds(t) ==
  /\ job[t] \in {"waiting", "running"}
  /\ job' = [job EXCEPT ![t] = IF @ = "running" THEN "ended" ELSE "dropped"]
  /\ UNCHANGED <<projectVars, rowVars, requestVars, place, ran, late, taskVars, exec_time,
                 updates, itemRows, pc, controlVars, counters>>

(* A tick: of the jobs and sessions that run, and of every estimate.        *)
Tick ==
  /\ now < MaxTime /\ Unlocked
  /\ now' = now + 1
  /\ ran' = [i \in Item |-> IF (i \in Task /\ job[i] = "running")
                              \/ (i \in Session /\ place[i] = "submitted" /\ pc[Of[i]] = "select")
                           THEN ran[i] + 1 ELSE ran[i]]
  /\ late' = [t \in Task |-> IF job[t] = "ended" /\ t \notin row_final
                              THEN late[t] + 1 ELSE late[t]]
  /\ elapsed' = [t \in Task |-> IF t \in running_tasks THEN elapsed[t] + 1 ELSE elapsed[t]]
  /\ UNCHANGED <<projectVars, rowVars, requestVars, place, job, running_tasks,
                 charged, cancelling, exec_time, updates, itemRows, pc, controlVars, faults>>

-----------------------------------------------------------------------------
Init ==
  /\ cached = FALSE /\ limit = 0 /\ consumed = 0 /\ in_flight = 0
  /\ \/ row_exists = FALSE /\ row_limit = 0
     \/ row_exists = TRUE /\ row_limit = InitialLimit
  /\ row_consumed = 0
  /\ offered \in {items \in SUBSET Item : Cardinality(items) = MaxItems}
  /\ request = [c \in Client |-> "idle"] /\ asked = [c \in Client |-> 0]
  /\ seen = [c \in Client |-> NoRow]
  /\ place = [i \in Item |-> "new"] /\ ran = [i \in Item |-> 0]
  /\ job = [t \in Task |-> "none"] /\ late = [t \in Task |-> 0]
  /\ running_tasks = {} /\ cancelling = {}
  /\ elapsed = [t \in Task |-> 0] /\ charged = [t \in Task |-> 0]
  /\ exec_time = [i \in Item |-> 0] /\ updates = {}
  /\ row_exec = [i \in Item |-> 0] /\ row_started = {} /\ row_final = {}
  /\ pc = [m \in Machine |-> "select"] /\ stop = {} /\ suspended = {}
  /\ now = 0 /\ faults = 0

Request(c) ==
  \/ c \in Admin /\ \E l \in Limit : InsertProject(c, l) \/ UpdateRow(c, l)
  \/ CacheCreated(c) \/ UpdateCached(c) \/ Lookup(c) \/ Fetch(c) \/ Fill(c)

Section(m) ==
  \/ Notified(m) \/ Shutdown(m) \/ PeriodicCheck(m) \/ SessionEnd(m)
  \/ ApplySuspension(m)
  \/ \E tasks \in SUBSET On(m, Task) : Dispatch(m, tasks)
  \/ \E s \in Session : OpenSession(m, s)

Next ==
  \/ \E c \in Client : Request(c)
  \/ \E i \in Item : Submit(i)
  \/ \E m \in Machine : \/ Section(m) \/ RequestStop(m) \/ Suspend(m)
                        \/ \E e \in [Task -> Time] : Restart(m, e)
  \/ \E t \in Task : \/ TaskEnded(t) \/ JobStarts(t) \/ JobEnds(t)
                     \/ \E e \in Time : ExecutionStarted(t, e)
  \/ \E u \in updates : WriteUpdate(u)
  \/ \E e \in [Task -> Time] : Crash(e)
  \/ Tick

Spec == Init /\ [][Next]_vars

-----------------------------------------------------------------------------
(* Properties *)

(* Project::in_flight is what has been charged for tasks that run, on all   *)
(* machines: nothing of a task that was reported, failed by a suspension or *)
(* lost to a restart stays, and nothing is dropped twice (settle_in_flight, *)
(* the event Shutdown).                                                     *)
InFlightIsRunning == Unlocked => in_flight = SumOver(charged, running_tasks)

(* The confirmed time in memory is the row's with what launchers still have *)
(* to write ("what the DB holds (or is about to)", project.rs:12), whoever  *)
(* fills the cache, from whichever row, and after restarts.                 *)
ConsumedIsRecorded ==
  Unlocked /\ cached =>
    LET unwritten == {i \in Item : \E u \in updates : u[2] = i /\ u[1] # "started"}
    IN consumed + SumOver(row_exec, unwritten) = row_consumed + SumOver(exec_time, unwritten)

(* The project is never held to have used more than its jobs and sessions   *)
(* did, but for the time that passed between the end of a job and its       *)
(* record, through reports, restored estimates, suspensions and restarts    *)
(* (RunningTask's lower bounds, check_running_tasks).                       *)
NoOvercharge ==
  Unlocked => consumed + in_flight <= SumOver(ran, Item) + SumOver(late, Task)

(* What has been confirmed was used: the estimate "must never exceed the    *)
(* true time" (launcher.rs:62), and a task failed by a suspension is charged *)
(* "a lower bound of the true time".                                        *)
ConfirmedIsTrue == Unlocked => consumed <= SumOver(ran, Item)

(* Without requests under way the limit in memory is that of the row, so    *)
(* that no task runs on a limit that an administrator has taken back        *)
(* (get_project_by_name, create_project, update_project).                   *)
CacheIsCurrent ==
  cached /\ (\A c \in Client : ~UnderWay(c)) => limit = row_limit

=============================================================================
