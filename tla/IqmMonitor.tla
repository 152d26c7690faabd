----------------------------- MODULE IqmMonitor -----------------------------
(***************************************************************************)
(* The backend of one machine that runs its jobs on an IQM server          *)
(* (backend_iqm.rs): submissions, the monitor that polls every job until   *)
(* its final state, and cancels, retried until the server accepts one.     *)
(*                                                                         *)
(* It is what Launcher sees as its backend: the sequence of reports of a   *)
(* task here is what Launcher's JobAccepted, JobRejected, JobRuns and      *)
(* JobEnds put into `messages`.  The monitor is one loop that takes        *)
(* commands from a channel, or polls the jobs that are due one after the   *)
(* other; meanwhile submissions and cancel attempts run on their own.      *)
(*                                                                         *)
(* Time is abstracted: a job whose last poll failed is due at any later    *)
(* tick (poll_backoff delays it by at most MAX_POLL_BACKOFF), any other is *)
(* due at the next.                                                        *)
(***************************************************************************)
EXTENDS Naturals, Sequences

CONSTANTS
  Task,       \* tasks the launcher hands to the backend
  Resumable,  \* those whose jobs exist already when the backend starts
  NoTask,     \* "no poll under way"
  MayStop     \* bound: whether the backend may be stopped

ASSUME IqmAssumption ==
  Resumable \subseteq Task /\ NoTask \notin Task /\ MayStop \in BOOLEAN

VARIABLES
  (* the server *)
  job,              \* [Task -> JobState]
  executed,         \* jobs whose execution has started
  (* submissions and cancel attempts *)
  submission,       \* [Task -> SubmissionStep]
  attempts,         \* [Task -> Nat], cancel requests not answered yet
  (* the monitor *)
  monitored_tasks,
  cancel,           \* [Task -> CancelState]
  start_reported,
  failing,          \* tasks whose last poll failed
  early_cancels,    \* cancels of tasks not monitored
  due,              \* tasks to be polled in this tick
  polled,           \* the task whose poll is under way
  to_delete,        \* tasks found final in this tick
  monitor_receiver, \* commands to the monitor
  running,          \* the monitor has not exited
  (* the launcher *)
  reports,          \* [Task -> Seq(Report)], all messages sent to it
  cancel_requested, \* tasks it asked to cancel
  stopped           \* it stopped the backend

serverVars     == <<job, executed>>
pollVars       == <<due, polled, to_delete>>
monitorVars    == <<monitored_tasks, cancel, start_reported, failing,
                    early_cancels>>
launcherVars   == <<cancel_requested, stopped>>

vars == <<serverVars, submission, attempts, monitorVars, pollVars,
          monitor_receiver, running, reports, launcherVars>>

-----------------------------------------------------------------------------
ActiveJob      == {"waiting", "processing"}
FinalJob       == {"completed", "failed", "cancelled"}
JobState       == {"none"} \cup ActiveJob \cup FinalJob
SubmissionStep == {"none", "sending", "accepted", "reported", "over"}
CancelState    == {"none", "pending", "inflight", "sent"}
Report         == {"submitted", "started", "running"} \cup FinalJob
Command        == [op : {"new", "cancel", "stop"}, of : Task \cup {NoTask}]
             \cup [op : {"cancel_done"}, of : Task, ok : BOOLEAN]

TypeOK ==
  /\ job \in [Task -> JobState] /\ executed \subseteq Task
  /\ submission \in [Task -> SubmissionStep]
  /\ attempts \in [Task -> Nat]
  /\ monitored_tasks \subseteq Task
  /\ cancel \in [Task -> CancelState]
  /\ start_reported \subseteq monitored_tasks
  /\ failing \subseteq monitored_tasks
  /\ early_cancels \subseteq Task \ monitored_tasks
  /\ due \subseteq monitored_tasks
  /\ polled \in due \cup {NoTask}
  /\ to_delete \subseteq monitored_tasks \ due
  /\ monitor_receiver \in Seq(Command)
  /\ running \in BOOLEAN
  /\ reports \in [Task -> Seq(Report)]
  /\ cancel_requested \subseteq Task
  /\ stopped \in BOOLEAN

(* A resumable job is in any state: nobody watched it since the last start. *)
Init ==
  /\ job \in {j \in [Task -> JobState] :
                \A t \in Task : j[t] = "none" <=> t \notin Resumable}
  /\ executed \in {e \in SUBSET Resumable : \A t \in Resumable :
                     /\ job[t] = "waiting" => t \notin e
                     /\ job[t] \in {"processing", "completed"} => t \in e}
  /\ submission = [t \in Task |-> "none"]
  /\ attempts = [t \in Task |-> 0]
  /\ monitored_tasks = {} /\ start_reported = {} /\ failing = {}
  /\ cancel = [t \in Task |-> "none"]
  /\ early_cancels = {}
  /\ due = {} /\ polled = NoTask /\ to_delete = {}
  /\ monitor_receiver = <<>> /\ running = TRUE
  /\ reports = [t \in Task |-> IF t \in Resumable THEN <<"submitted">> ELSE <<>>]
  /\ cancel_requested = {} /\ stopped = FALSE

-----------------------------------------------------------------------------
(* A command sent to a monitor that has exited is lost. *)
SendAll(commands) ==
  monitor_receiver' =
    IF running THEN monitor_receiver \o commands ELSE monitor_receiver

Cmd(op, t) == [op |-> op, of |-> t]

(* What a poll of task t tells: further "running" reports are left out,     *)
(* they repeat the one before.                                              *)
SendReports(t, news) ==
  reports' = [reports EXCEPT ![t] =
    @ \o (IF news # <<>> /\ news[Len(news)] = "running"
             /\ @ # <<>> /\ @[Len(@)] = "running"
          THEN <<>> ELSE news)]

-----------------------------------------------------------------------------
(* Calls of the launcher. *)

SubmitTask(t) ==
  /\ ~stopped /\ t \notin Resumable
  /\ submission[t] = "none"
  /\ submission' = [submission EXCEPT ![t] = "sending"]
  /\ UNCHANGED <<serverVars, attempts, monitorVars, pollVars,
                 monitor_receiver, running, reports, launcherVars>>

ResumeTask(t, cancelled) ==
  /\ ~stopped /\ t \in Resumable
  /\ submission[t] = "none"
  /\ submission' = [submission EXCEPT ![t] = "over"]
  /\ cancel_requested' = IF cancelled THEN cancel_requested \cup {t}
                         ELSE cancel_requested
  /\ SendAll(IF cancelled THEN <<Cmd("new", t), Cmd("cancel", t)>>
             ELSE <<Cmd("new", t)>>)
  /\ UNCHANGED <<serverVars, attempts, monitorVars, pollVars, running, reports,
                 stopped>>

Reported(t, report) == \E k \in DOMAIN reports[t] : reports[t][k] = report

(* The launcher cancels a task once, when it knows its job.  It need not    *)
(* have received the later reports.                                         *)
CancelTask(t) ==
  /\ ~stopped
  /\ t \notin cancel_requested
  /\ Reported(t, "submitted")
  /\ t \in Resumable => submission[t] = "over"
  /\ cancel_requested' = cancel_requested \cup {t}
  /\ SendAll(<<Cmd("cancel", t)>>)
  /\ UNCHANGED <<serverVars, submission, attempts, monitorVars, pollVars,
                 running, reports, stopped>>

Stop ==
  /\ MayStop /\ ~stopped
  /\ stopped' = TRUE
  /\ SendAll(<<Cmd("stop", NoTask)>>)
  /\ UNCHANGED <<serverVars, submission, attempts, monitorVars, pollVars,
                 running, reports, cancel_requested>>

-----------------------------------------------------------------------------
(* A submission: the request, its answer, the report to the launcher, and   *)
(* the registration with the monitor, which a cancel may overtake.          *)

ServerAccepts(t) ==
  /\ submission[t] = "sending"
  /\ submission' = [submission EXCEPT ![t] = "accepted"]
  /\ job' = [job EXCEPT ![t] = "waiting"]
  /\ UNCHANGED <<executed, attempts, monitorVars, pollVars, monitor_receiver,
                 running, reports, launcherVars>>

(* The request, its answer, or the reading of the answer fails.             *)
SubmissionFails(t) ==
  /\ submission[t] \in {"sending", "accepted"}
  /\ submission' = [submission EXCEPT ![t] = "over"]
  /\ SendReports(t, <<"failed">>)
  /\ UNCHANGED <<serverVars, attempts, monitorVars, pollVars,
                 monitor_receiver, running, launcherVars>>

ReportSubmitted(t) ==
  /\ submission[t] = "accepted"
  /\ submission' = [submission EXCEPT ![t] = "reported"]
  /\ SendReports(t, <<"submitted">>)
  /\ UNCHANGED <<serverVars, attempts, monitorVars, pollVars,
                 monitor_receiver, running, launcherVars>>

RegisterTask(t) ==
  /\ submission[t] = "reported"
  /\ submission' = [submission EXCEPT ![t] = "over"]
  /\ SendAll(<<Cmd("new", t)>>)
  /\ UNCHANGED <<serverVars, attempts, monitorVars, pollVars, running, reports,
                 launcherVars>>

-----------------------------------------------------------------------------
(* A cancel attempt: accepted by the server or not, and its answer received *)
(* in time or not.                                                          *)

CancelAttempted(t, ok) ==
  /\ attempts[t] > 0
  /\ attempts' = [attempts EXCEPT ![t] = @ - 1]
  /\ \/ job[t] \in ActiveJob /\ job' = [job EXCEPT ![t] = "cancelled"]
     \/ (job[t] \in ActiveJob => ~ok) /\ UNCHANGED job
  /\ SendAll(<<[op |-> "cancel_done", of |-> t, ok |-> ok]>>)
  /\ UNCHANGED <<executed, submission, monitorVars, pollVars, running, reports,
                 launcherVars>>

-----------------------------------------------------------------------------
(* The monitor takes a command. *)

(* Between polls. *)
Idle == running /\ due = {} /\ to_delete = {}

Take(op, t) ==
  /\ Idle
  /\ monitor_receiver # <<>>
  /\ Head(monitor_receiver).op = op /\ Head(monitor_receiver).of = t
  /\ monitor_receiver' = Tail(monitor_receiver)

(* Mutant: a cancel that came first is forgotten. *)
NewTaskForgetsCancel(t) ==
  /\ Take("new", t)
  /\ monitored_tasks' = monitored_tasks \cup {t}
  /\ early_cancels' = early_cancels \ {t}
  /\ UNCHANGED <<serverVars, submission, attempts, cancel, start_reported,
                 failing, pollVars, running, reports, launcherVars>>

(* Mutant: the early cancel is looked up and not removed. *)
NewTaskKeepsCancel(t) ==
  /\ Take("new", t)
  /\ monitored_tasks' = monitored_tasks \cup {t}
  /\ cancel' = [cancel EXCEPT ![t] =
                  IF t \in early_cancels THEN "pending" ELSE "none"]
  /\ UNCHANGED <<serverVars, submission, attempts, early_cancels,
                 start_reported, failing, pollVars, running, reports,
                 launcherVars>>

NewTask(t) ==
  /\ Take("new", t)
  /\ IF t \in monitored_tasks
     THEN UNCHANGED <<monitored_tasks, cancel, early_cancels>>
     ELSE /\ monitored_tasks' = monitored_tasks \cup {t}
          /\ early_cancels' = early_cancels \ {t}
          /\ cancel' = [cancel EXCEPT ![t] =
                          IF t \in early_cancels THEN "pending" ELSE "none"]
  /\ UNCHANGED <<serverVars, submission, attempts, start_reported, failing,
                 pollVars, running, reports, launcherVars>>

SpawnCancelAttempt(t) == attempts' = [attempts EXCEPT ![t] = @ + 1]

(* Mutant: the cancel of a task not monitored starts its monitoring.        *)
CancelStartsMonitoring(t) ==
  /\ Take("cancel", t)
  /\ cancel' = [cancel EXCEPT ![t] = "inflight"]
  /\ SpawnCancelAttempt(t)
  /\ monitored_tasks' = monitored_tasks \cup {t}
  /\ UNCHANGED <<serverVars, submission, start_reported, failing,
                 early_cancels, pollVars, running, reports, launcherVars>>

Cancel(t) ==
  /\ Take("cancel", t)
  /\ \/ /\ t \in monitored_tasks /\ cancel[t] \in {"none", "pending"}
        /\ cancel' = [cancel EXCEPT ![t] = "inflight"]
        /\ SpawnCancelAttempt(t)
        /\ UNCHANGED early_cancels
     \/ /\ t \in monitored_tasks /\ cancel[t] \notin {"none", "pending"}
        /\ UNCHANGED <<cancel, attempts, early_cancels>>
     \/ /\ t \notin monitored_tasks
        /\ early_cancels' = early_cancels \cup {t}
        /\ SpawnCancelAttempt(t)
        /\ UNCHANGED cancel
  /\ UNCHANGED <<serverVars, submission, monitored_tasks, start_reported,
                 failing, pollVars, running, reports, launcherVars>>

CancelDone(t) ==
  /\ Take("cancel_done", t)
  /\ cancel' = [cancel EXCEPT ![t] =
       IF t \notin monitored_tasks \/ @ # "inflight" THEN @
       ELSE IF Head(monitor_receiver).ok THEN "sent" ELSE "pending"]
  /\ UNCHANGED <<serverVars, submission, attempts, monitored_tasks,
                 start_reported, failing, early_cancels, pollVars, running,
                 reports, launcherVars>>

StopMonitor ==
  /\ Take("stop", NoTask)
  /\ running' = FALSE
  /\ UNCHANGED <<serverVars, submission, attempts, monitorVars, pollVars,
                 reports, launcherVars>>

-----------------------------------------------------------------------------
(* A tick: the tasks that are due are polled one by one, and those found    *)
(* final are removed at the end.                                            *)

Tick(tasks) ==
  /\ Idle
  /\ tasks # {} /\ monitored_tasks \ failing \subseteq tasks
  /\ due' = tasks
  /\ UNCHANGED <<serverVars, submission, attempts, monitorVars, polled,
                 to_delete, monitor_receiver, running, reports, launcherVars>>

(* Mutant: a poll does not retry the cancel. *)
BeginPollOnly(t) ==
  /\ polled = NoTask /\ t \in due
  /\ polled' = t
  /\ UNCHANGED <<serverVars, submission, attempts, monitorVars, due,
                 to_delete, monitor_receiver, running, reports, launcherVars>>

BeginPoll(t) ==
  /\ polled = NoTask /\ t \in due
  /\ polled' = t
  /\ IF cancel[t] = "pending"
     THEN cancel' = [cancel EXCEPT ![t] = "inflight"] /\ SpawnCancelAttempt(t)
     ELSE UNCHANGED <<cancel, attempts>>
  /\ UNCHANGED <<serverVars, submission, monitored_tasks, start_reported,
                 failing, early_cancels, due, to_delete, monitor_receiver,
                 running, reports, launcherVars>>

(* What an answer to a poll tells, in the order the reports are sent.       *)
News(t) ==
  (IF t \in executed \ start_reported THEN <<"started">> ELSE <<>>)
  \o CASE job[t] = "waiting"    -> <<>>
       [] job[t] = "processing" -> <<"running">>
       [] OTHER                 -> <<job[t]>>

PollAnswered(t) ==
  /\ polled = t
  /\ polled' = NoTask /\ due' = due \ {t}
  /\ failing' = failing \ {t}
  /\ SendReports(t, News(t))
  /\ start_reported' = start_reported \cup (executed \cap {t})
  /\ to_delete' = IF job[t] \in FinalJob THEN to_delete \cup {t} ELSE to_delete
  /\ UNCHANGED <<serverVars, submission, attempts, monitored_tasks, cancel,
                 early_cancels, monitor_receiver, running, launcherVars>>

(* Mutant: the monitor gives up. *)
PollFailsForGood(t) ==
  /\ polled = t
  /\ polled' = NoTask /\ due' = due \ {t}
  /\ to_delete' = to_delete \cup {t}
  /\ UNCHANGED <<serverVars, submission, attempts, monitorVars,
                 monitor_receiver, running, reports, launcherVars>>

(* The server cannot be reached, or its answer cannot be used.              *)
PollFails(t) ==
  /\ polled = t
  /\ polled' = NoTask /\ due' = due \ {t}
  /\ failing' = failing \cup {t}
  /\ UNCHANGED <<serverVars, submission, attempts, monitored_tasks, cancel,
                 start_reported, early_cancels, to_delete, monitor_receiver,
                 running, reports, launcherVars>>

EndTick ==
  /\ due = {} /\ to_delete # {}
  /\ to_delete' = {}
  /\ monitored_tasks' = monitored_tasks \ to_delete
  /\ failing' = failing \ to_delete
  /\ start_reported' = start_reported \ to_delete
  /\ cancel' = [t \in Task |-> IF t \in to_delete THEN "none" ELSE cancel[t]]
  /\ UNCHANGED <<serverVars, submission, attempts, early_cancels, due, polled,
                 monitor_receiver, running, reports, launcherVars>>

-----------------------------------------------------------------------------
(* The jobs at the server. *)

JobStarts(t) ==
  /\ job[t] = "waiting"
  /\ job' = [job EXCEPT ![t] = "processing"]
  /\ executed' = executed \cup {t}
  /\ UNCHANGED <<submission, attempts, monitorVars, pollVars,
                 monitor_receiver, running, reports, launcherVars>>

(* A status the code does not know counts as a failure. *)
JobEnds(t, state) ==
  /\ job[t] \in ActiveJob
  /\ state = "completed" => job[t] = "processing"
  /\ job' = [job EXCEPT ![t] = state]
  /\ UNCHANGED <<executed, submission, attempts, monitorVars, pollVars,
                 monitor_receiver, running, reports, launcherVars>>

-----------------------------------------------------------------------------
LauncherCall ==
  \/ \E t \in Task : \/ SubmitTask(t) \/ CancelTask(t)
                      \/ \E cancelled \in BOOLEAN : ResumeTask(t, cancelled)
  \/ Stop

Submission ==
  \E t \in Task : SubmissionFails(t) \/ ReportSubmitted(t) \/ RegisterTask(t)

MonitorCommand ==
  \/ \E t \in Task : NewTask(t) \/ Cancel(t) \/ CancelDone(t)
  \/ StopMonitor

Poll(t) == BeginPoll(t) \/ PollAnswered(t) \/ PollFails(t)

Server ==
  \E t \in Task : \/ ServerAccepts(t) \/ JobStarts(t)
                  \/ \E state \in FinalJob : JobEnds(t, state)
                  \/ \E ok \in BOOLEAN : CancelAttempted(t, ok)

Next ==
  \/ LauncherCall \/ Submission \/ MonitorCommand \/ Server
  \/ \E tasks \in SUBSET monitored_tasks : Tick(tasks)
  \/ \E t \in Task : Poll(t)
  \/ EndTick

Spec == Init /\ [][Next]_vars

-----------------------------------------------------------------------------
(* Safety *)

(* The launcher is told of a job first that it exists, then at most once    *)
(* that it started, and last, once, how it ended; a refused submission is   *)
(* the only end without a job.  However cancels, retries and the removal    *)
(* from the monitor interleave ("a cancel for an already-finished task      *)
(* can't produce a second final state").                                    *)
ReportsAreInOrder ==
  \A t \in Task :
    \A k \in DOMAIN reports[t] :
      /\ reports[t][k] \in FinalJob => k = Len(reports[t])
      /\ k = 1 => reports[t][k] \in {"submitted", "failed"}
      /\ k > 1 => reports[t][k] # "submitted"
      /\ \A l \in DOMAIN reports[t] :
           reports[t][k] = "started" /\ reports[t][l] = "started" => k = l

Ended(t) == reports[t] # <<>> /\ reports[t][Len(reports[t])] \in FinalJob

OnItsWay(command) ==
  \E k \in DOMAIN monitor_receiver : monitor_receiver[k] = command

(* A job the launcher knows of and waits for is polled, or about to be:     *)
(* failed polls never end the monitoring.                                   *)
EveryJobIsMonitored ==
  ~stopped =>
    \A t \in Task :
      Reported(t, "submitted") /\ ~Ended(t) =>
        \/ t \in monitored_tasks \ to_delete
        \/ submission[t] = "reported" \/ OnItsWay(Cmd("new", t))
        \/ t \in Resumable /\ submission[t] = "none"

(* A cancel the launcher asked for is never lost: until the server has      *)
(* accepted it or the job has ended, it is in the channel, in an attempt,   *)
(* or kept for the next poll.  In particular an attempt whose failure comes *)
(* late, or that overtook the registration of the task, is made again.      *)
CancelIsNotLost ==
  ~stopped =>
    \A t \in cancel_requested :
      job[t] \in ActiveJob =>
        \/ OnItsWay(Cmd("cancel", t))
        \/ t \in monitored_tasks /\ cancel[t] = "pending"
        \/ t \in monitored_tasks /\ cancel[t] = "inflight" /\
             \/ attempts[t] > 0
             \/ OnItsWay([op |-> "cancel_done", of |-> t, ok |-> FALSE])
        \/ t \in early_cancels /\ (submission[t] = "reported" \/ OnItsWay(Cmd("new", t)))

-----------------------------------------------------------------------------
(* Liveness *)

(* The monitor and the submissions are tasks of the runtime.  select! takes *)
(* a tick or a command at random, so both are taken again and again; a task *)
(* whose poll failed is due again at the latest after MAX_POLL_BACKOFF.     *)
(* Polls and attempts to cancel time out; that a submission is answered is  *)
(* an assumption about the server, as its request has no timeout.           *)
(* The server answers requests made again and again, also with success.     *)
Fairness ==
  /\ WF_vars(Submission) /\ SF_vars(MonitorCommand)
  /\ WF_vars(EndTick) /\ SF_vars(Tick(monitored_tasks))
  /\ \A t \in Task :
       /\ WF_vars(Poll(t)) /\ SF_vars(PollAnswered(t))
       /\ WF_vars(\E ok \in BOOLEAN : CancelAttempted(t, ok))
       /\ SF_vars(CancelAttempted(t, TRUE))

FairSpec == Spec /\ Fairness

(* The launcher learns how every job of its ended, and that every job it    *)
(* cancelled has ended, however often polls and attempts fail.              *)
EndIsReported ==
  \A t \in Task :
    Reported(t, "submitted") /\ submission[t] = "over" /\ job[t] \in FinalJob ~> Ended(t)

CancelEndsJob == \A t \in Task : t \in cancel_requested ~> Ended(t)

=============================================================================
