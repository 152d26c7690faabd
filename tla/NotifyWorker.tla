---------------------------- MODULE NotifyWorker ----------------------------
(***************************************************************************)
(* Notifiers: their registration under a name, in the database and in      *)
(* memory, by the service (reactor.rs) and beside it by the command line   *)
(* tool, and the worker each of them has, which delivers its events in     *)
(* their order with a bounded number of attempts (callback.rs).            *)
(*                                                                         *)
(* One name; every registration is a notifier of its own.  A subject is a  *)
(* task that asks for the name and sends one event, when it ends.  Delays  *)
(* between attempts are left out.                                          *)
(***************************************************************************)
EXTENDS Naturals, FiniteSets, Sequences, SequencesExt

CONSTANTS
  Subject,
  NoSubject,
  MaxNotifiers,        \* bound: registrations
  MAX_NOTIFY_FAILS,
  MaxCrashes           \* bound

NotifierId == 1..MaxNotifiers
None       == 0

ASSUME NotifyAssumption ==
  /\ MaxNotifiers \in Nat /\ MAX_NOTIFY_FAILS \in Nat \ {0} /\ MaxCrashes \in Nat
  /\ NoSubject \notin Subject

VARIABLES
  row,               \* the notifier of the name in the database, or None
  used,              \* the last id
  admin,             \* what the holder of admin_lock has done, to which notifier
  notifiers,         \* NotifierMap::notifiers, by id
  notifiers_by_name, \* the id of the name, or None
  state,             \* [Subject -> SubjectState]
  notifier,          \* [Subject -> its notifier, or None]
  row_notifier,      \* [Subject -> the same in its row]
  recorded,          \* subjects whose end is in the database
  events,            \* [NotifierId -> queue of its channel]
  evt,               \* [NotifierId -> the event being delivered]
  fail_count,        \* [NotifierId -> failed attempts of it]
  sent,              \* [NotifierId -> events sent in this life of the service]
  received,          \* [NotifierId -> what the receiver got of them]
  discarded,         \* events given up
  crashes

adminVars   == <<row, used, admin, notifiers, notifiers_by_name>>
subjectVars == <<state, notifier, row_notifier, recorded>>
workerVars  == <<evt, fail_count, received, discarded>>
vars        == <<adminVars, subjectVars, workerVars, events, sent, crashes>>

-----------------------------------------------------------------------------
Idle == [step |-> "idle", id |-> None]
SubjectState == {"new", "resolved", "active", "ended", "refused"}

TypeOK ==
  /\ row \in NotifierId \cup {None} /\ used \in NotifierId \cup {None}
  /\ admin \in [step : {"idle", "inserted", "deleted"}, id : NotifierId \cup {None}]
  /\ notifiers \subseteq NotifierId /\ notifiers_by_name \in notifiers \cup {None}
  /\ state \in [Subject -> SubjectState]
  /\ notifier \in [Subject -> NotifierId \cup {None}]
  /\ row_notifier \in [Subject -> {row, None}] /\ recorded \subseteq Subject
  /\ events \in [NotifierId -> Seq(Subject)]
  /\ evt \in [NotifierId -> Subject \cup {NoSubject}]
  /\ fail_count \in [NotifierId -> 0..(MAX_NOTIFY_FAILS - 1)]
  /\ sent \in [NotifierId -> Seq(Subject)] /\ received \in [NotifierId -> Seq(Subject)]
  /\ discarded \subseteq Subject /\ crashes \in 0..MaxCrashes

-----------------------------------------------------------------------------
(* Registration *)

InsertRow ==
  /\ row = None /\ used < MaxNotifiers
  /\ row' = used + 1 /\ used' = used + 1

(* What rows refer to is set to null with the notifier.                     *)
DeleteRow ==
  /\ row' = None
  /\ row_notifier' = [s \in Subject |-> None]

(* db::insert_notifier of add_notifier; the lock is held to the end of it.  *)
AddNotifier ==
  /\ admin = Idle /\ InsertRow
  /\ admin' = [step |-> "inserted", id |-> used']
  /\ UNCHANGED <<notifiers, notifiers_by_name, subjectVars, workerVars, events, sent, crashes>>

Removed == notifiers \ {notifiers_by_name}

(* NotifierMap::remove and NotifierMap::add: the channel of one that was    *)
(* still loaded closes, and the new one gets a worker.                      *)
AddLoaded ==
  /\ admin.step = "inserted" /\ admin' = Idle
  /\ notifiers' = Removed \cup {admin.id} /\ notifiers_by_name' = admin.id
  /\ UNCHANGED <<row, used, subjectVars, workerVars, events, sent, crashes>>

(* Mutant: the row is kept. *)
RemoveLoadedOnly ==
  /\ admin = Idle /\ {row, notifiers_by_name} # {None}
  /\ admin' = [step |-> "deleted", id |-> None]
  /\ UNCHANGED <<row, used, notifiers, notifiers_by_name, subjectVars, workerVars, events,
                 sent, crashes>>

(* db::remove_notifier, ...                                                 *)
RemoveNotifier ==
  /\ admin = Idle /\ {row, notifiers_by_name} # {None}
  /\ admin' = [step |-> "deleted", id |-> None] /\ DeleteRow
  /\ UNCHANGED <<used, notifiers, notifiers_by_name, state, notifier, recorded, workerVars,
                 events, sent, crashes>>

(* ... and then the entry in memory. *)
RemoveLoaded ==
  /\ admin.step = "deleted" /\ admin' = Idle
  /\ notifiers' = Removed /\ notifiers_by_name' = None
  /\ UNCHANGED <<row, used, subjectVars, workerVars, events, sent, crashes>>

(* `qscheduler notifier add`, `remove`: in the database only, at any time.  *)
CmdNotifierAdd ==
  /\ InsertRow
  /\ UNCHANGED <<admin, notifiers, notifiers_by_name, subjectVars, workerVars, events, sent,
                 crashes>>
CmdNotifierRemove ==
  /\ row # None /\ DeleteRow
  /\ UNCHANGED <<used, admin, notifiers, notifiers_by_name, state, notifier, recorded,
                 workerVars, events, sent, crashes>>

-----------------------------------------------------------------------------
(* Subjects *)

(* resolve_notifier: the name, in memory.                                   *)
Resolve(s) ==
  /\ state[s] = "new" /\ notifiers_by_name # None
  /\ state' = [state EXCEPT ![s] = "resolved"]
  /\ notifier' = [notifier EXCEPT ![s] = notifiers_by_name]
  /\ UNCHANGED <<adminVars, row_notifier, recorded, workerVars, events, sent, crashes>>

(* insert_task: a notifier without a row is an error of the submission.     *)
Submit(s) ==
  /\ state[s] = "resolved"
  /\ state' = [state EXCEPT ![s] = IF notifier[s] = row THEN "active" ELSE "refused"]
  /\ row_notifier' = [row_notifier EXCEPT ![s] = IF notifier[s] = row THEN row ELSE None]
  /\ UNCHANGED <<adminVars, notifier, recorded, workerVars, events, sent, crashes>>

(* notify_task, send_notify: an event for the notifier if it is loaded.     *)
End(s) ==
  /\ state[s] = "active"
  /\ state' = [state EXCEPT ![s] = "ended"]
  /\ LET n == notifier[s] IN
     IF n \in notifiers
       THEN /\ events' = [events EXCEPT ![n] = Append(@, s)]
            /\ sent' = [sent EXCEPT ![n] = Append(@, s)]
       ELSE UNCHANGED <<events, sent>>
  /\ UNCHANGED <<adminVars, notifier, row_notifier, recorded, workerVars, crashes>>

Record(s) ==
  /\ state[s] = "ended" /\ s \notin recorded
  /\ recorded' = recorded \cup {s}
  /\ UNCHANGED <<adminVars, state, notifier, row_notifier, workerVars, events, sent, crashes>>

-----------------------------------------------------------------------------
(* notify_worker *)

(* Mutant: the worker stops with its notifier. *)
RecvLoaded(n) ==
  /\ n \in notifiers /\ evt[n] = NoSubject /\ events[n] # <<>>
  /\ evt' = [evt EXCEPT ![n] = Head(events[n])]
  /\ events' = [events EXCEPT ![n] = Tail(@)]
  /\ UNCHANGED <<adminVars, subjectVars, fail_count, received, discarded, sent,
                 crashes>>

(* A closed channel still gives the events in it.                           *)
Recv(n) ==
  /\ evt[n] = NoSubject /\ events[n] # <<>>
  /\ evt' = [evt EXCEPT ![n] = Head(events[n])]
  /\ events' = [events EXCEPT ![n] = Tail(@)]
  /\ UNCHANGED <<adminVars, subjectVars, fail_count, received, discarded, sent,
                 crashes>>

Got(n) == received' = [received EXCEPT ![n] = Append(@, evt[n])]
Done(n) ==
  /\ evt' = [evt EXCEPT ![n] = NoSubject]
  /\ fail_count' = [fail_count EXCEPT ![n] = 0]

Deliver(n) ==
  /\ evt[n] # NoSubject /\ Got(n) /\ Done(n)
  /\ UNCHANGED <<adminVars, subjectVars, discarded, events, sent, crashes>>

(* Mutant: a failed event makes room for the next one. *)
RetryLater(n) ==
  /\ evt' = [evt EXCEPT ![n] = NoSubject]
  /\ fail_count' = [fail_count EXCEPT ![n] = 0]
  /\ events' = [events EXCEPT ![n] = Append(@, evt[n])]
  /\ UNCHANGED discarded

Retry(n) ==
  /\ fail_count' = [fail_count EXCEPT ![n] = @ + 1]
  /\ UNCHANGED <<evt, discarded, events>>

(* An attempt fails, before or after the receiver has taken the event.      *)
Fail(n) ==
  /\ evt[n] # NoSubject
  /\ Got(n) \/ UNCHANGED received
  /\ IF fail_count[n] + 1 >= MAX_NOTIFY_FAILS
       THEN Done(n) /\ discarded' = discarded \cup {evt[n]} /\ UNCHANGED events
       ELSE Retry(n)
  /\ UNCHANGED <<adminVars, subjectVars, sent, crashes>>

-----------------------------------------------------------------------------
(* The service dies with its workers and starts again (load_notifiers,      *)
(* NotifierMap::start); what ended and is not recorded ends again.          *)
Crash ==
  /\ crashes < MaxCrashes /\ crashes' = crashes + 1
  /\ admin' = Idle
  /\ notifiers' = {row} \ {None} /\ notifiers_by_name' = row
  /\ state' = [s \in Subject |->
        IF state[s] = "resolved" THEN "refused"
        ELSE IF state[s] = "ended" /\ s \notin recorded THEN "active" ELSE state[s]]
  /\ notifier' = row_notifier
  /\ events' = [n \in NotifierId |-> <<>>] /\ evt' = [n \in NotifierId |-> NoSubject]
  /\ fail_count' = [n \in NotifierId |-> 0]
  /\ sent' = [n \in NotifierId |-> <<>>] /\ received' = [n \in NotifierId |-> <<>>]
  /\ discarded' = {}
  /\ UNCHANGED <<row, used, row_notifier, recorded>>

Init ==
  /\ row = None /\ used = None /\ admin = Idle
  /\ notifiers = {} /\ notifiers_by_name = None
  /\ state = [s \in Subject |-> "new"] /\ notifier = [s \in Subject |-> None]
  /\ row_notifier = [s \in Subject |-> None] /\ recorded = {}
  /\ events = [n \in NotifierId |-> <<>>] /\ evt = [n \in NotifierId |-> NoSubject]
  /\ fail_count = [n \in NotifierId |-> 0]
  /\ sent = [n \in NotifierId |-> <<>>] /\ received = [n \in NotifierId |-> <<>>]
  /\ discarded = {} /\ crashes = 0

Admin   == AddNotifier \/ AddLoaded \/ RemoveNotifier \/ RemoveLoaded
Cli     == CmdNotifierAdd \/ CmdNotifierRemove
Work(n) == Recv(n) \/ Deliver(n) \/ Fail(n)

Next ==
  \/ Admin \/ Cli \/ Crash
  \/ \E s \in Subject : Resolve(s) \/ Submit(s) \/ End(s) \/ Record(s)
  \/ \E n \in NotifierId : Work(n)

(* The worker goes on.  Assumed of the receiver: it answers, or its         *)
(* connection breaks; the client itself sets no timeout.                    *)
Spec == Init /\ [][Next]_vars /\ \A n \in NotifierId : WF_vars(Work(n))

-----------------------------------------------------------------------------
(* Properties *)

Position(n, s) == CHOOSE i \in DOMAIN sent[n] : sent[n][i] = s

(* A receiver gets the events of a notifier in the order in which they      *)
(* were sent; only an event whose answer was lost is received again, at     *)
(* once and at most MAX_NOTIFY_FAILS times (notify_worker).                 *)
InOrder ==
  \A n \in NotifierId :
    /\ \A i, j \in DOMAIN received[n] :
         i < j => Position(n, received[n][i]) <= Position(n, received[n][j])
    /\ \A s \in Subject :
         Cardinality({i \in DOMAIN received[n] : received[n][i] = s}) <= MAX_NOTIFY_FAILS

(* A subject in the service with a notifier that is registered in the       *)
(* database will find it loaded when it ends, whatever the command line     *)
(* tool and the administrator have done to the name, and after a restart    *)
(* (add_notifier, remove_notifier, NotifierMap::add, remove).               *)
RegisteredIsLoaded ==
  \A s \in Subject : state[s] = "active" /\ row_notifier[s] # None
                       => notifier[s] = row /\ row \in notifiers

(* Events sent are delivered or given up after their attempts, also when    *)
(* the notifier is removed meanwhile: "events already queued for it are     *)
(* still delivered" (remove_notifier), unless the service dies.             *)
EventIsHandled ==
  \A n \in NotifierId, s \in Subject :
    Contains(sent[n], s) ~> \/ Contains(received[n], s) \/ s \in discarded
                            \/ ~Contains(sent[n], s)

=============================================================================
