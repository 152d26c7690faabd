# A verification of the QScheduler runner

QScheduler queues tasks and sessions of users' projects for quantum machines
and runs them on backends. All of its own state and concurrency are in the
`runner` crate (`src/runner/src`); the `service` crate translates HTTP requests
to calls of `runner::Reactor`. This directory holds TLA+ modules translated from
the runner, the TLC configurations that check them on small instances, and
TLAPS proofs of the properties that matter most for every instance.

## The system

| Component | State | Operations | Works with |
|---|---|---|---|
| Reactor (`reactor.rs`) | none of its own; the core behind one mutex, the database, the notify worker's channel | `submit_task`, `create_session`, `cancel_task`, `cancel_session`, `suspend_machine`, `resume_machine`, administration of machines, projects and notifiers, `shutdown` | takes the core mutex for short sections, awaits the database outside of them |
| Core (`core.rs`) | maps of machines, tasks, sessions, users; the project cache; notifiers | admission (`add_task`, `add_session`, `check_limits`), `restore` at the start, eviction of terminal items, `insert_machine`, `purge_machine`, `start_launcher`, `shutdown` | read and changed by requests and launchers under the mutex |
| Machine (`machine.rs`, `suspension.rs`) | queue of each user, the running session and its queue, cancel requests, suspension requests, fair share's usage and count of tasks at the backend | `queue_task`, `pick_task`, `remove_queued_task`, `take_*`, `record_*`, `inherit_*` | a part of the core; a `Notify` wakes its launcher |
| Launcher (`launcher.rs`), one per machine | submitted tasks with their flags (`cancelling`, fail reason, estimated time), pending database updates, the deadline of the session | `launcher_main`: select an event, apply it, apply requests, dispatch, write updates | core mutex, backend handle, task reports, database, notify worker |
| Backends (`backend.rs`, `backend_iqm.rs`, `backend_test.rs`) | monitored jobs, pending cancels, back-off of polling | submit, cancel, resume, polling | one channel of reports to the launcher, HTTP to the IQM server |
| Rows (`db.rs`) | tasks, sessions, suspensions, projects, users, machines, notifiers | one SQL statement or transaction per operation | called without the mutex |
| Users (`user.rs`) | numbers of active tasks and sessions, time of the last use | `touch_by_name`, `task_activated`, `evict_idle`, ... | core |
| Projects (`project.rs`, parts of `reactor.rs` and `machine.rs`) | remaining time, time in flight, the cache of rows | charging, limits, `update_project`, `get_project_by_name` | core, database |
| Notifiers (`callback.rs`) | a queue of events per notifier, the attempt under way | delivery with up to 16 attempts and back-off, removal | HTTP to the user's server |
| Service (`src/service`) | authentication tokens | HTTP in and out | reactor |

How they interact, and what is hard about it:

* **Mutex sections and awaits.** A request checks, awaits the database, and
  takes the mutex again to act. In between the session may close, the machine
  may be suspended, and the launcher may run any number of iterations.
* **Memory first, rows later.** The launcher changes memory and tells the
  backend and the notifiers at once, and writes the rows after it released the
  mutex, one by one. A crash loses memory and leaves whichever rows were
  written; `restore` must rebuild a consistent machine from them.
* **Unconfirmed submissions.** A task may be cancelled, its session closed or
  the machine suspended while the backend has not answered its submission yet;
  there is no job id to cancel. The cancel has to follow the answer, even when
  the task has ended on our side.
* **Sleeping.** The launcher waits in `select!` for reports, deadlines and one
  `Notify` permit. Work queued while it writes to the database must wake it.
* **Terminal items leave memory** after a retention period while requests may
  still name them; several lookups panic, with the mutex held, if they fail.
* **Queues and counters.** `queue_size`, the per-user count of tasks at the
  backend (an unchecked decrement) and the limits of users.
* **Time is estimated, then corrected.** A project is charged an estimate while
  a task runs, by launchers of several machines, and the true time at its end;
  estimates must be dropped exactly once on each way out. The row follows later.
* **Machines change under the service.** A launcher is stopped, its state is
  dropped and rebuilt from the rows while validated requests go on and cancels
  are accepted.
* **Delivery.** Events of a notifier are retried in order while the notifier may
  be removed, by the service or beside it by the command line tool.

What makes each part correct is listed as properties below, and what is hard to
test as `hazards` in `PROJECT.json`, each at its line.

## Modules

| Module | Contents |
|---|---|
| `Launcher.tla` | One machine: the service's requests on it, its queues and requests, its launcher, its rows, its backend as the launcher sees it, crash, exit and restoration. |
| `TaskOutcome.tla` | What the runner promises about the outcome of a task, without machines, launchers or rows: at most one outcome, reported first, recorded later, never changed. `Launcher` implements it. |
| `MCLauncher.tla` | Values of `Launcher`'s constants for TLC. |
| `LauncherProofs.tla`, `LauncherRecords.tla` | The theorems about `Launcher`: the machine's own state; the rows, the jobs, and the refinement of `TaskOutcome`. |
| `IqmProofs.tla`, `UsersProofs.tla`, `ProjectsProofs.tla`, `FairShareProofs.tla`, `NotifyProofs.tla`, `ReconfigProofs.tla` | The theorems about `IqmMonitor`, `Users`, `Projects`, `FairShare`, `NotifyWorker`, `Reconfig`. |
| `IqmMonitor.tla` | The backend of an IQM server: submissions, the monitor that polls jobs, retried cancels. What it reports is what `Launcher`'s backend actions put into `messages`. |
| `Users.tla` | The users in memory: their counters and limits, eviction, and what crashes and machine administration do to them. |
| `Projects.tla` | The time of a project: estimates in flight, confirmed time, its row, and the cache that requests fill and change. |
| `FairShare.tla` | The order a machine serves its users in: usage, decay, averages, the choice of the next user. |
| `NotifyWorker.tla` | Notifiers: registration by the service and by the command line tool, their workers, retries. |
| `Reconfig.tla` | The update and removal of a machine while the service goes on. It extends `Launcher` and uses its requests, launcher and backend. |
| `MCIqmMonitor.tla`, `MCUsers.tla`, `MCProjects.tla`, `MCFairShare.tla`, `MCNotifyWorker.tla`, `MCReconfig.tla` | Instances for TLC. |

How they fit together: `Reconfig` composes the machine and launcher of `Launcher` with the administration of
machines. `Users`, `Projects` and `FairShare` each take one kind of count that `Launcher` leaves open (who is over a
limit, what a task is charged, who is next) and follow it through everything that changes it; `IqmMonitor` is
behind `Launcher`'s backend actions and `NotifyWorker` behind its counts of notifications.

### How `Launcher` corresponds to the code

State: `task_map`, `session_map`, `queues`, `running_session`, `session_queue`,
the three `*_cancel_requests`, `suspension`, `tasks_in_backend` and `notifier`
are the fields of the core and the machine; `submitted_tasks`, `cancelling`,
`fail_reasons`, `db_updates` and `shutting_down` are the locals of
`launcher_main` and the fields of `SubmittedTask`; the `db_*` variables are the
rows. `request` and `suspend_request` are the requests that have been begun,
`job`, `cancel_sent` and `messages` the backend. `notified` is a history variable that only
properties read: the completion events of a task in this life of the service.

Control: `pc` says where the launcher is.

* `select`: it waits. `Notified`, `Shutdown`, `SessionEnd`, `PeriodicCheck`,
  `TaskSubmitted`, `TaskRunning`, `TaskEnded`, `IgnoreStateChange` are the arms
  of its `select!` and the messages they receive; each takes the mutex.
  `TaskRunning` ends in `continue`, the others go on with the section.
* `section`: it holds the mutex. Session cancels first, then task cancels, then
  suspensions (queued tasks, queued sessions, the open session's queue, its
  submitted tasks, the session itself, with `all` the remaining submitted
  tasks), then dispatch until the backend is full or nothing may be picked.
  One item is one step; the guards give the order of the code's loops.
  `SectionDone` releases the mutex.
* `flush`: it writes one update after another (`WriteUpdate`) without the mutex.
* `stopped`, `down`, `restoring`, `starting`: after the last iteration of a
  shutdown; without a process; in `restore` after the rows are loaded; before
  the launcher's task is spawned.

A submission is `InsertRow` (validation and insertion of the row), then
`AddTask` or `RejectRequest` followed by `DeleteRow`; a session likewise. A
suspension is `InsertSuspension` then `SuspendMachine`, a resumption
`EndSuspension` then `ResumeMachine`; the suspension lock, held across, allows
one of them at a time.

### Abstractions, and why they are sound

* The section of the launcher is many steps, yet nothing else happens
  during it: requests need the mutex (`Unlocked`). Steps that do not take it (a
  backend report put in the channel, the insertion of a row) touch no variable
  the section reads, so taking them before or after it loses no behaviour. A
  crash within a section loses all it did and is the crash before it; the
  submissions it made are lost jobs, which is what the crash makes of all
  jobs whose id is not recorded.
* Validation and insertion are one step. Between them only the row is missing,
  which no other part looks for; the checks are repeated by `add_task` and
  `add_session` after the insertion, and everything may happen in between.
* The queues are sets. Which of the queued items fair share picks is left open,
  so any queued task may be next, and any queued session may hold back the
  rest. Every order the code can choose is among them.
* Whether a task or project exceeds its time is left open (`PeriodicCheck`,
  `FailOverLimit`), and so is whether a user is over a limit
  (`RejectRequest`). `May` bounds to which items it happens.
* An item leaves memory only after its final state is recorded: the retention
  period outlasts the writing of an update.
* Jobs are not heard of again after a crash unless restored; a restored job is
  attached to whatever it has become.
* Not in the model: failed database writes (the code logs them and goes on),
  events for sessions, times and usage, task payloads, batches of rows.

### How `IqmMonitor` corresponds to the code

`monitored_tasks`, `early_cancels`, `to_delete`, `monitor_receiver` are the
locals of `iqm_main`; `cancel`, `start_reported`, `failing` the fields of
`MonitoredTask` (the number of failures only sets a delay, so a task whose last
poll failed is due at any later tick). Each arm of the `select!` is an action per
command; a tick is `Tick`, then `BeginPoll` and `PollAnswered` or `PollFails` of each
task that is due, then `EndTick`. The monitor takes no command during a tick; submissions
(`ServerAccepts`, `ReportSubmitted`, `RegisterTask`, `SubmissionFails`) and cancel
attempts (`CancelAttempted`) are tasks of their own and interleave with everything. A cancel or a submission may
have reached the server although it failed on our side. `reports` is
everything sent to the launcher; repeated `Running` reports are left out, the launcher ignores
them.

### How `Users` corresponds to the code

`user_map` with the counters and `idle_since` is `UserMap`; `Touched`, `Activated`,
`Uncounted`, `Deactivated`, `Loaded` are its operations, applied to sets of items. A submission is `ResolveUser`, `InsertUser`
(`get_or_create_user`), `InsertRow`, `AddItem` or `Refuse` and `DeleteRow`. `Evict` is the
eviction of items and users with one `now`. The administration of a
machine goes `BeginUpdate`, `PurgeMachine`, `LoadRows`, `RestoreMachine`, or ends with
`CancelUpdate` or `RemoveMachine`. Items end at any time (`EndItem`): the ways they end are
those of `Launcher`. Refusals for other reasons than the user's limits are `Refuse` as
well. A crash and the restoration of all machines are one step, since no request is served in between.
An update of a machine does not begin while a submission to it is
between its row and `add_task`, unless `MayStraddle`: what happens then is the subject of the run
`finding_users`.

### How `Projects` corresponds to the code

`cached`, `limit`, `consumed`, `in_flight` are the entry of `ProjectMap`, the `row_*` variables the rows of the
project and its items, `running_tasks`, `elapsed`, `charged` the `RunningTask`s of all launchers, `updates` their
`DbUpdates`. A request that creates, changes or reads the project is `InsertProject`, `CacheCreated`; `UpdateRow`, `UpdateCached`; `Lookup`,
`Fetch`, `Fill`: the row and the memory are apart, and a task goes the same way to find its project. A launcher's
section begins with an event (`Notified`, `Shutdown`, `PeriodicCheck`, `SessionEnd`, `ExecutionStarted`, `TaskEnded`) and ends
with `ApplySuspension`, `Dispatch` or `OpenSession`; `WriteUpdate` writes an
update and does what the trigger of the migration does with the project's row. `Resume` is what a restoration and the launcher it
starts make of a task. `ran` is the true time of a job, or how long a session held the machine; `late` is the time since a job
ended until that is recorded, in which its estimate goes on growing (`RunningTask::elapsed`).

Submission is one step here and dispatch chooses freely, since `Launcher` and `FairShare` have these; a job's id is
recorded at dispatch. `MayOverlap` and `MayStopSuspended` are off in the passing run: what
overlapping requests, and a suspension of a stopping launcher, lead to is under "Observations".

### How `FairShare` corresponds to the code

`queues` is the set of users with an entry in `Machine::queues`; `usage`, `average_usage`, `submitted_tasks`, `queue` are the
fields of `UserQueue`. `IsNext` is `pop_queue_item`: the lowest effective usage, tasks before sessions at equal usage, then age, which is
left open. Every operation that decays usage takes what it is divided by (`DecayBy`), and keeps the entries
`decay_update` keeps. `Reconfigure` is `inherit_usage` and the restoration after it, `Restart` a start of the service. Times are whole
units, rounded down, where the code has fractions; `busy` is a history variable, the users who have always had work queued.

### How `NotifyWorker` corresponds to the code

`notifiers` and `notifiers_by_name` are `NotifierMap`; `row` is the notifier of the name in the database, which the command line
tool changes without the service (`CmdNotifierAdd`, `CmdNotifierRemove`). Each registration is a notifier of its own, with the channel
`events`, the event `evt` that its worker delivers and `fail_count`. A task is `Resolve` (the name, in memory), `Submit` (its row, with the
foreign key), `End` and `Record`. An attempt fails before or after the receiver has taken the event. A crash
loses the channels and loads the notifiers again.

### How `Reconfig` corresponds to the code

`machine` says whether the machine is available, `admin` is the step of `update_machine` or `remove_machine`, which `admin_lock`
orders. `Begin` is `set_machine_unavailable`, `Stop` the `Shutdown` event of the launcher, whose section and writes go on as
any others, `Replace` the first section of `restart_machine`, `Load` and `Rebuild` are the reading and the section of
`restore`, `RecordRebuilt` what it writes, `Restarted` the rest. Each of the steps that can fail does (`GiveUp`, `LoadFails`, `RemovalFails`). Requests are those of `Launcher`,
instantiated so that they see a launcher that runs whatever it is doing (`Client`); requests that passed their validation just
before the machine became unavailable may still insert their rows (`InsertLate`).

## Runs

All `Launcher` instances have two or three tasks: `p1`, `p2` of a project and `q1` of the
session `s1`, on a machine of two slots. Two tasks and a session are the least
with which a session competes with project work, a session task outlives its
session, and a slot frees while another task waits. Queues, requests and
messages need no bounds of their own: a task is submitted and cancelled once
per life of the service. Crashes, shutdowns and suspensions are bounded by `MaxCrashes`,
`MaxShutdowns`, `MaxSuspensions`; which items are cancelled, rejected, evicted
or over a limit by `May`; what jobs report by `JobReports`. Deadlock is not
checked: when everything submitted has ended the system waits for requests, and
the bounded instance has none left.

| Run | Instance | Shows |
|---|---|---|
| `launcher_work` | 3 tasks, 1 session, 2 users, cancels, a task over its limit, a suspension of any policy | types; an open session has the machine to itself (`SessionExclusive`); fair share's count is exact (`SlotCount`); no wake-up is lost (`NoLostWakeup`); once a policy is applied nothing it covers is left (`SuspensionIsApplied`); no job runs untracked (`JobsAccountedFor`); a cancel follows a late confirmation (`CancelReachesJob`) |
| `launcher_crash` | 2 tasks, 1 session, a crash and a shutdown, everything else allowed | each active item is in exactly one place (`Placed`); rows and memory agree (`RowsAgree`); requests name items in memory (`RequestsInMemory`); a life reports an end once, only while the row shows none, and has recorded it when it exits, so that only a crash repeats an event (`ReportedOnce`); a recorded job is not run again (`RecordedJobIsNotRepeated`); outcomes are as `TaskOutcome` promises (`ImplementsTaskOutcome`) |
| `launcher_live` | 2 tasks, 1 session, fairness | accepted cancels end tasks and sessions (`CancelTakesEffect`, `SessionCancelTakesEffect`); a session gives the machine back (`SessionReleasesMachine`) |
| `reconfig` | 2 tasks, 1 session, an update or removal that may fail, a suspension that cancels nothing | accepted work is queued or at the backend in each incarnation (`WorkIsKept`); nothing ends twice (`EndedOnce`); an unforced removal drops no accepted work (`RemovalKeepsWork`); cancels accepted meanwhile are kept (`CancelsAreInherited`) |
| `users` | a task, a session and its task of one user on two machines; a crash, a reconfiguration or removal | the counters are those of the items (`CountersExact`); the user of an item or of a fresh submission is in memory (`OwnersLoaded`, `KeptForSubmission`); limits hold under concurrent submissions (`LimitsHold`) |
| `projects` | any 2 of two tasks, on two machines, and a session; a request on the project; a crash, reconfiguration or suspension | what is in flight is charged for tasks that run (`InFlightIsRunning`); confirmed time is the row's with what is to be written (`ConsumedIsRecorded`); nothing is charged beyond the true time but for late reports (`NoOvercharge`); the limit in memory is the row's (`CacheIsCurrent`) |
| `fair_share` | 2 users, 2 slots, queues of 2, at most a half-time between events | a user with work has an entry (`EntryIsKept`); no user who waits falls behind by more than the slots are worth (`BoundedLag`) |
| `notify` | 2 registrations, 2 tasks, 2 attempts, a crash | events are received in order and at most as often as they are tried (`InOrder`); a registered notifier is loaded (`RegisteredIsLoaded`); events are delivered or given up (`EventIsHandled`) |
| `iqm_monitor` | one submitted and one resumed job, a stop | reports come once and in order (`ReportsAreInOrder`); every job the launcher knows is polled until its end (`EveryJobIsMonitored`); a cancel is kept until the server has accepted it (`CancelIsNotLost`) |
| `iqm_live` | one submitted job, fairness | ends are reported (`EndIsReported`); cancelled jobs end (`CancelEndsJob`) |

The type invariants of `IqmMonitor`, `NotifyWorker`, `FairShare` and `Reconfig` (`ReconfigTypeOK`) hold on these instances as well; the
runs leave them out, as they say nothing the other properties do not.

In `iqm_monitor` the two jobs share the monitor's loop and its channel; more of
them add nothing, as no step relates two jobs except a tick. Each job is
cancelled once, and failed polls and attempts are unbounded. Liveness is checked
with one job, since its check with two takes too long. In `users` all items have one user, as
users do not affect each other; any two items are within the limit of items, the two tasks together exceed the limit of
payloads, and time ends after three ticks with a retention of two: long enough to
be idle, touched and evicted.

In `projects` any two of the three items share the project, on one machine or on two, with limits of 2 and 3 units and two units of
time, so that a project runs out while tasks run; one fault of any kind. A third item or a second fault adds states
and no new kind of charge. In `fair_share` a slot is worth 3 units and usage ends at 9, beyond the lag of 6 that
`BoundedLag` allows. In `notify` two attempts stand for the 16 of the code, and two registrations are a removal and an addition of the
same name. In `reconfig` there is one administration, which may be given up, fail, or succeed; no crash falls into it, since what a crash leaves of the rows is the
subject of `launcher_crash`; a submission between its row and its answer is answered before the rows are loaded, since `finding_users` shows what
comes of it otherwise; suspensions have the policy `none`, since the others are not inherited (below). The next administration
starts from a machine like the first's.

### Disagreements between the code and what it says

Each of these runs checks a statement of a comment, and TLC finds a
behaviour of the code that violates it. `PROJECT.json` quotes the statements.

| Run | Behaviour |
|---|---|
| `finding_users` | a task whose submission overlaps the reconfiguration of its machine is restored from its row and added again; its user counts it twice until the next restart (and the machine queues it twice) |
| `finding_reconfig` | a cancel of a queued session task is accepted while its machine is reconfigured and inherited by the new launcher, but the restoration gave the task up; the launcher's lookup panics with the core's mutex held, and with the mutex poisoned every later request panics |

### Fairness

`FairSpec` is used by `launcher_live` alone. Weak fairness of the section and of
the writes: the launcher's task is scheduled and never blocks there. Strong
fairness of `Notified`, `SessionEnd` and the backend's messages: `select!` picks at
random among the ready arms, and an arm may stop being ready while another is
served, so an arm ready again and again is taken. A session has a
deadline, hence `SessionEnd`. That submissions are answered and that jobs asked to cancel
end are assumptions about the backend, which the code does not enforce by a timeout;
both can happen only outside of sections in the model, hence strong fairness. Nothing is assumed of requests, of the completion of other
jobs, or of `PeriodicCheck`. Shutdowns, crashes and suspensions are left out of this
run: each of them ends the promise (a crash forgets accepted cancels).

`IqmMonitor` has its own `FairSpec`, used by `iqm_live`. Polls and attempts to cancel are tasks of the runtime with a timeout
(`IQM_REQUEST_TIMEOUT`, `backend_iqm.rs:508`, `:598`), so each ends: weak fairness. A submission is such a task too, but neither its request
(`backend_iqm.rs:192-194`) nor the client (`:447`) has a timeout: its weak fairness is an assumption about the server, which must answer or break
the connection. A submission that is never answered may keep its slot for good, and a cancel of its task waits for the confirmation; what `launcher_live`
assumes of submissions is the same assumption, seen through the `Backend` trait, and all three of its properties rest on it. `select!` takes a tick or
a command at random, so both are taken again and again: strong fairness. A task whose poll failed is due again at the latest after
`MAX_POLL_BACKOFF`, hence strong fairness of the tick that polls all tasks. That the server, asked again and again, answers some poll and accepts
some cancel is an assumption about it. A stopped backend promises nothing, so it is not stopped in this run.

`NotifyWorker`'s `Spec` has weak fairness of each notifier's worker, which is a task of its own that only awaits its channel, the
attempt under way and a bounded sleep. That an attempt ends is an assumption about the receiver: the client sets no timeout
(`callback.rs:158`), and a receiver that keeps a connection open without an answer holds its notifier's later events back.

### Observations

Further behaviours that a comment or document excludes, each with a configuration that reproduces it:
`tlc -config observation_X.cfg M` ends with the violation of the property named here.

| `observation_` | Module, property | Behaviour |
|---|---|---|
| `suspension` | `MCLauncher`, `SuspensionIsApplied` | a suspension is recorded, then applied later by the launcher; a crash in between leaves the machine suspended with the work that should have been failed, which then runs (`core.rs:214`: "its `cancel` policy was applied to existing work when the suspension started") |
| `shutdown` | `MCLauncher`, `CancelsAreAppliedAtShutdown` | a task is cancelled while its submission is unconfirmed; the launcher exits before the confirmation, and the next start queues the task again (`reactor.rs:27`: "Cancel requests already accepted are still applied") |
| `restore` | `MCLauncher`, `NeverOpenedHasNoTask` | a session opens in memory and receives a task before its opening is recorded; after a crash it is queued again as "Never opened (and therefore has no tasks yet)" (`core.rs:277`) |
| `notify` | `MCLauncher`, `EveryEndIsNotified` | the tasks of ended sessions that `restore` cancels (`core.rs:421`) get no event, which `src/service/src/api_description.md:47` promises |
| `inflight` | `MCProjects`, `InFlightIsRunning` | the event `Shutdown` drops the estimates of running tasks (`launcher.rs:659-668`), and a suspension applied in the same section drops them again (`fail_submitted_task`): the estimates of tasks on other machines are lost, and the project may run over its limit |
| `estimate` | `MCProjects`, `ConfirmedIsTrue` | a job has ended, its end is not reported yet and its estimate grows on (`launcher.rs:87`: "never more than the true time"); a suspension then confirms and records the estimate |
| `cache` | `MCProjects`, `CacheIsCurrent` | two overlapping updates of a project, or an update and a lookup, apply to the row and to memory in different orders; memory keeps a limit that the row does not have until the next restart or update (`reactor.rs:354-366`) |
| `available` | `MCReconfig`, `AvailableIsLaunched` | the restoration of a machine fails and leaves it unavailable without a launcher ("a service restart recovers it", `reactor.rs:733-734`); the removal of that machine is refused, which makes it available again: it takes work that nobody runs |
| `resumed` | `MCReconfig`, `SuspensionIsRow` | `restore` reads a suspension (`core.rs:180`), the machine is resumed, `restore` applies what it read: the machine refuses work though its suspension has ended, until it is suspended and resumed again |
| `removed` | `MCReconfig`, `SuspendedMachineExists` | a suspension is recorded, the machine is removed, and `get_machine_mut` (`reactor.rs:512`) panics with the mutex held |
| `policy` | `MCReconfig`, `SuspensionIsApplied` | a machine is suspended while its launcher is stopped for a reconfiguration; the policy is dropped with the old incarnation, and the work it covers is restored and runs |

Without a configuration:

* `LimitsHold` is conditional: restored items are counted but not checked, so a
  user can exceed the limits of `README.md:61` of the repository after a crash
  between the row and `add_task` of a submission, or by submitting to one machine while another is being
  restored.
* The cancel of a task the monitor has removed stays in `early_cancels` until the
  backend stops.
* A submission accepted by the IQM server whose answer is lost is reported as
  failed while its job runs.
* A notifier that the command line tool removes stays loaded; submissions that name it are refused by the foreign key of their row
  until the service is restarted, or the notifier is removed or added through it.
* A restoration queues all sessions of a user before its tasks, whatever their age.

## Proofs

Eight modules hold the theorems, one for each component's module and a second one for `Launcher`. They hold for all
values of the constants that satisfy the named assumptions of the modules (`Launcher`, `Reconfig`, `IqmMonitor`, `Users`,
`Projects`, `FairShare`, `NotifyWorker`): finitely many items, bounds that are numbers, a task's parent is a session or
`Project`, and the like. TLC evaluates them on every run. Some theorems have a condition of their own, named with them below;
in each case a run or an observation shows the property violated without it.

An invariant the runs check is seldom inductive. Each module defines the strengthening as a conjunction of named parts, shows for each
part which actions can disturb it, and treats those one by one.

### `LauncherProofs`: the machine and its launcher

* `TypeCorrect`: `Spec => []TypeOK`. `TypeOK` is not inductive: `StartLauncher`
  replaces `submitted_tasks` and keeps `fail_reasons`, which must be among
  them. `NotStarted` adds that a launcher that has not started tracks nothing.
* `SessionsAreExclusive`: `Spec => []SessionExclusive`. The strengthening
  `Exclusive` adds that the machine's queues hold no task of a session, without which
  `SubmitTask` could hand one to the backend beside other work after its session closed.
  Most steps open no session and give the launcher nothing new; the lemma
  `NothingNew` settles them together.
* `NoWakeupIsLost`: `Spec => []NoLostWakeup`. The strengthening `Awake` extends
  the property to the writing of updates, where requests arrive unseen, and to
  restoration, which leaves the permit with the queued items.
* `ItemsArePlaced`: `Spec => []Placed`, every item in memory is in the one place its state says. `MachineInv` adds to it
  that an item whose submission is not complete is not in memory (`NewIsAbsent`), that one never submitted has no row and a restart finds
  no submission in progress (`NewHasNoRow`), and that updates are about items whose submission is complete (`UpdatesNameKnown`).
  `Handed` names what holds the backend's slots; `MachineInv` is what most later theorems start from.
* `SlotsAreCounted`: `Spec => []SlotCount`. `SlotsAreExact` says the count of each user *is* the number of its tasks handed over, from which
  it follows that the decrement of the code, which is unchecked, never passes zero.
* `RequestsFindTheirItems`: `Spec => []RequestsInMemory`, by `CancelsNameActive`: outside of a section
  a pending cancel names an active item. Within one the item may have ended by the event that began it, but is still in memory.

### `LauncherRecords`: memory against the rows, the backend, and `TaskOutcome`

* `RowsAlwaysAgree`: `Spec => []RowsAgree`. The strengthening `Rows` has what each order of writes keeps: an active item has a live row
  (`ActiveIsLive`) and so has one in submission (`NewIsLive`); an end that is not written has been reported (`PendingIsReported`), once
  (`PendingOnce`); a live row has its item in memory or its end in the pending updates (`LiveIsKept`); a terminal state shown is recorded or pending
  (`ShownIsRecorded`); a launcher that waits has written everything (`Flushed`).
* `ReportsAreNotRepeated`: `Spec => ReportedOnce`, an action property. `ReportsAreCounted` strengthens it: in a life of the service `notified[t] <= 1`,
  and a task whose row is live has been reported only if its end is pending. A step reports active tasks alone, whose row is live and which have no
  pending end (`ActiveIsLive`); a launcher that exits has no pending ends (`Flushed`), so what it reported is recorded.
* `RecordedJobsRunOnce`: `Spec => RecordedJobIsNotRepeated`, an action property. A queued task has no recorded job (`QueuedIsUnrecorded`).
* `OutcomesAreImplemented`: `Spec => ImplementsTaskOutcome`, where `TaskOutcome` is instantiated with the reported and the durable outcome of each task.
  The initial states map to the abstract one's, and each step of `Launcher` maps to one of `TaskOutcome` or to a stutter. `Settled` and `NoneSettled`
  are the two shapes of a step's effect on outcomes: a few actions report or record one, all others leave them alone.
* `JobsStayAccountedFor`, `CancelsReachTheirJobs`: `Spec => []JobsAccountedFor`, `Spec => []CancelReachesJob`. `Jobs` relates the launcher's
  view to the backend's: jobs are tracked or recorded (`JobsAreKept`), a tracked task without a job id has its confirmation on the way
  (`TrackedIsReachable`), messages tell the truth about the job (`ReportsAreTrue`), a queued task has no job (`QueuedHasNoJob`).
  This is the argument for the most delicate code of the launcher: a task that was cancelled before its submission was confirmed stays
  tracked until the confirmation, and the cancel follows it.
* `SuspensionsAreApplied`: `Spec => [](FirstLife => SuspensionIsApplied)`, where `FirstLife` says that there was no crash and no shutdown. A restart
  restores the suspension and does not apply its policy again (`observation_suspension`). The proof shows that nothing a suspended machine
  does adds work to it.

### The other components

* `ReconfigProofs`: `ReconfigInv` uses the lemmas on the launcher's steps as they are, since `Reconfig` extends `Launcher`,
  and adds where the administration stands (`StepsAgree`) and what a removed machine leaves (`NothingIsLeft`). It gives
  `AcceptedWorkIsKept` (`WorkIsKept`: what was accepted is queued or submitted whenever the launcher runs, also after it was rebuilt from rows),
  `EndsAreReportedOnce`, `RemovalFindsNoWork` (a removal that is not forced takes no rows but those of submissions that are being refused), and the action property
  `CancelsOutliveReconfigurations`: only the launcher's section, or the disappearance of the machine, takes a cancel away.
* `IqmProofs`: `IqmInv` follows a job through the submission, the two channels and the monitor's maps (`Registration`, `Watched`), what
  has been reported of it (`History`), and a cancel through its attempts (`CancelSteps`, `CancelsInProgress`). It gives `ReportsStayInOrder`,
  `JobsStayMonitored`, and `CancelsAreNotLost`: a cancel that arrives before its job, during a poll, or while another attempt fails is
  in the monitor's hands until the server has accepted it.
* `UsersProofs`, if no update of a machine overlaps a submission to it (`~MayStraddle`; otherwise `finding_users`): `UsersInv`
  counts, for each user, the active items it owns (`CountersAre`), with sizes as numbers of units so that the
  sums are cardinalities. `UserTypes`, `CountersStayExact`, `OwnersStayLoaded`, `UsersAreKeptForSubmission` (a user that a submission has
  resolved is not evicted before `add_task` looks for it: `IdleSince`), and `LimitsAlwaysHold`.
* `ProjectsProofs`: estimates, confirmed and true times are sums over tasks, taken as numbers of units. `TimeInv`, without a condition,
  gives `ProjectTypes` and `ConfirmedTimeIsRecorded` (memory and the row differ by exactly what is to be written). `ChargeInv`, if no suspension is
  applied by a launcher that stops (`~MayStopSuspended`; otherwise `observation_inflight`), gives `EstimatesAreOfRunningTasks` (the time in
  flight is the sum of what the running tasks of all launchers are charged: every way out drops an estimate once) and from
  it `NothingIsOvercharged`, item by item. `LimitFollows`, if requests for the project do not
  overlap (`~MayOverlap`; otherwise `observation_cache`), gives `CacheStaysCurrent`.
* `FairShareProofs`: `EntriesAreKept`: `Spec => []EntryIsKept`. The property is inductive once the functions
  it speaks of are known to be functions of users (`Shape`); what matters is that decay keeps users with work (`KeptHasWork`) and
  that a restoration queues nothing for a user without queued work (`RequeuedEmpty`).
  `LagIsBounded`: `Spec => []BoundedLag`, for any number of users, slots, times and decays. `LagInv` charges what a user has at the
  backend in advance, each task with what a slot is worth at most: even so no user that always waits is ahead of another by more than all
  slots (`Ahead`). A task is given to the user that is next, which is ahead of another by no more than that one has at the backend
  (`NextIsNotAhead`), and two users have no more tasks there than there are slots (`SlotsOfTwo`); decay makes no lag larger (`DecayOfLag`), rounding
  included; the owner of a session opens it when all slots are free and it is ahead of nobody.
* `NotifyProofs`: `RegisteredAreLoaded`: `Spec => []RegisteredIsLoaded`. The invariant adds that ids only
  grow (`Numbered`), that rows of tasks refer to the notifier that has the row now (`Referenced`, the foreign key), that the
  same holds in advance for submissions that have resolved the name (`ResolvedIsLoaded`), and that while an addition or removal is between
  database and memory nothing loaded has a row (`UnloadedMeanwhile`): this is why dropping the old entry of the name,
  which the second half of both does, takes nothing away from a task whose row is still valid. `EventsAreInOrder`: `Spec => []InOrder`, by
  `DeliveryInv`: an event is sent once (`SentOnce`); the attempt under way and the channel are the end of what was sent (`Channel`); what was received is of
  what came before, in the same order (`ReceivedInOrder`), and of the event under way no more often than it failed (`ReceivedCount`).

### Only model-checked

All liveness (`launcher_live`, `iqm_live`, `EventIsHandled`), which is out of the prover's reach as are ENABLED and fairness. The findings and
observations are violations that TLC reports.

## Plan

In the order of importance; what is done is marked.

1. `Launcher`, `TaskOutcome`, the runs above. **Done.**
2. `LauncherProofs` and `LauncherRecords`: every safety invariant and action property of `Launcher`, and the refinement of `TaskOutcome`. **Done.**
3. `IqmMonitor`, `Users`, with their invariants as theorems. **Done.**
4. `Reconfig`, with its invariants and the inheritance of cancels as theorems. **Done.**
5. `Projects`, with its invariants as theorems. **Done.**
6. `FairShare`, with its invariants as theorems. **Done.**
7. `NotifyWorker`, with `RegisteredIsLoaded` and `InOrder` as theorems. **Done.**

## Not modelled

Configuration parsing (`config.rs`), identifiers, error
types and API views (no state), the test backend (a fixture), the HTTP service and its authentication
(input and output), the command line tool's machine commands beside a running service (they ask for a restart), the SQL of history queries (reads), and failed
database writes of a launcher, which the code logs and goes on from.
