------------------------------- MODULE Users --------------------------------
(***************************************************************************)
(* The users in memory (user.rs): how many active items each has, how much *)
(* their payloads take, and when an idle user is dropped.  The counters    *)
(* limit what a user may submit (core.rs, check_user_limits) and are       *)
(* released on every path an item ends or leaves memory by: its end, the   *)
(* removal of its machine, the restart of its machine's launcher.          *)
(*                                                                         *)
(* An item is a task or a session.  Queues, backend and launcher are those *)
(* of Launcher: here an item that was added may end at any time.  A step   *)
(* is a section under the mutex of the core, or a statement of the         *)
(* database; a submission is several.                                      *)
(***************************************************************************)
EXTENDS Integers, FiniteSets

CONSTANTS
  Item, Session,     \* tasks and sessions, and which are sessions
  Parent,            \* [tasks of sessions -> Session]
  User, Owner,       \* [Item -> User]
  Machine, Of,       \* [Item -> Machine]
  Size,              \* [Item -> Nat], 0 for sessions
  max_user_active_items, max_user_active_payload,
  retention,
  MaxTime,           \* bound: the time at the end
  MaxCrashes,        \* bound
  MaxUpdates,        \* bound: reconfigurations and removals of machines
  MayStraddle        \* bound: whether a submission may be between its row and
                     \* add_task when the reconfiguration of its machine begins

ASSUME UsersAssumption ==
  /\ IsFiniteSet(Item) /\ Session \subseteq Item
  /\ DOMAIN Parent \subseteq Item \ Session
  /\ \A t \in DOMAIN Parent : Parent[t] \in Session
  /\ Owner \in [Item -> User] /\ Of \in [Item -> Machine]
  /\ Size \in [Item -> Nat] /\ \A s \in Session : Size[s] = 0
  /\ max_user_active_items \in Nat /\ max_user_active_payload \in Nat
  /\ retention \in Nat \ {0}
  /\ MaxTime \in Nat /\ MaxCrashes \in Nat /\ MaxUpdates \in Nat
  /\ MayStraddle \in BOOLEAN

VARIABLES
  user_map,             \* users in memory
  active_items, active_payload_bytes, idle_since,  \* of each of them
  item,                 \* [Item -> ItemState], items in memory
  finished,             \* [Item -> Time], when a final item ended
  row,                  \* [Item -> RowState]
  request,              \* [Item -> RequestState], the submission of an item
  resolved_at,          \* [Item -> Time], when it got the id of its user
  machine,              \* [Machine -> MachineState]
  snapshot,             \* rows read by the restoration under way
  now, crashes, updates

userVars    == <<user_map, active_items, active_payload_bytes, idle_since>>
itemVars    == <<item, finished>>
requestVars == <<request, resolved_at>>
counters    == <<crashes, updates>>

vars == <<userVars, itemVars, row, requestVars, machine, snapshot, now, counters>>

-----------------------------------------------------------------------------
Time         == 0..MaxTime
ItemState    == {"absent", "active", "final"}
(* "begun": the backend id of a task or the opening of a session is known.  *)
RowState     == {"none", "waiting", "begun", "final"}
RequestState == {"idle", "loading", "resolved", "inserted", "refused", "done"}
(* From "stopping" on the machine is unavailable; its launcher is stopped   *)
(* when it is purged.                                                       *)
MachineState == {"up", "stopping", "purged", "loaded", "removed"}

TypeOK ==
  /\ user_map \subseteq User
  /\ active_items \in [User -> Nat] /\ active_payload_bytes \in [User -> Nat]
  /\ idle_since \in [User -> Time]
  /\ item \in [Item -> ItemState] /\ finished \in [Item -> Time]
  /\ row \in [Item -> RowState]
  /\ request \in [Item -> RequestState] /\ resolved_at \in [Item -> Time]
  /\ machine \in [Machine -> MachineState]
  /\ snapshot \in [Item -> RowState]
  /\ now \in Time /\ crashes \in 0..MaxCrashes /\ updates \in 0..MaxUpdates

(* The payloads of items, byte by byte, and the sum of their sizes.         *)
Payload(items) == UNION {{i} \X (1..Size[i]) : i \in items}
SumSize(items) == Cardinality(Payload(items))
OwnedBy(u, items) == {i \in items : Owner[i] = u}
LiveItems(rows) == {i \in Item : rows[i] \in {"waiting", "begun"}}

-----------------------------------------------------------------------------
(* The operations of UserMap.  Zeroes stand for a user not in memory.       *)

(* touch_by_name, and insert of a user that may be in memory already.       *)
Touched(users) ==
  idle_since' = [u \in User |->
    IF u \in users /\ active_items[u] = 0 THEN now ELSE idle_since[u]]

Activated(items) ==
  /\ active_items' =
       [u \in User |-> active_items[u] + Cardinality(OwnedBy(u, items))]
  /\ active_payload_bytes' =
       [u \in User |-> active_payload_bytes[u] + SumSize(OwnedBy(u, items))]

(* Mutant: the payload is dropped before its size is given back. *)
UncountedWithoutPayload(items) ==
  /\ active_items' =
       [u \in User |-> active_items[u] - Cardinality(OwnedBy(u, items))]
  /\ UNCHANGED active_payload_bytes

Uncounted(items) ==
  /\ active_items' =
       [u \in User |-> active_items[u] - Cardinality(OwnedBy(u, items))]
  /\ active_payload_bytes' =
       [u \in User |-> active_payload_bytes[u] - SumSize(OwnedBy(u, items))]

(* Mutant: the idle period is not started. *)
DeactivatedOnly(items) == Uncounted(items) /\ UNCHANGED idle_since

(* The idle period of a user starts when its last active item ends.         *)
Deactivated(items) ==
  /\ Uncounted(items)
  /\ idle_since' = [u \in User |->
       IF OwnedBy(u, items) # {} /\ active_items'[u] = 0 THEN now ELSE idle_since[u]]

Loaded(users) == user_map' = user_map \cup users

-----------------------------------------------------------------------------
(* Admission *)

WithinLimits(i) ==
  Owner[i] \in user_map =>
    /\ active_payload_bytes[Owner[i]] + Size[i] <= max_user_active_payload \/ i \in Session
    /\ active_items[Owner[i]] < max_user_active_items

(* A task of a session is accepted while that is open; here also while it   *)
(* waits, as items do not tell the two apart.                               *)
ParentIsOpen(i) == i \in DOMAIN Parent => item[Parent[i]] = "active"

(* Mutant: a user in memory is not marked as used. *)
ResolveUserUnmarked(i) ==
  /\ request[i] = "idle"
  /\ request' = [request EXCEPT ![i] =
                   IF Owner[i] \in user_map THEN "resolved" ELSE "loading"]
  /\ resolved_at' = [resolved_at EXCEPT ![i] =
                       IF Owner[i] \in user_map THEN now ELSE @]
  /\ UNCHANGED <<userVars, itemVars, row, machine, snapshot, now, counters>>

(* get_or_create_user: a user in memory is marked as used, any other is     *)
(* looked up in the database.                                               *)
ResolveUser(i) ==
  /\ request[i] = "idle"
  /\ \/ /\ Owner[i] \in user_map
        /\ Touched({Owner[i]})
        /\ request' = [request EXCEPT ![i] = "resolved"]
        /\ resolved_at' = [resolved_at EXCEPT ![i] = now]
     \/ /\ Owner[i] \notin user_map
        /\ request' = [request EXCEPT ![i] = "loading"]
        /\ UNCHANGED <<idle_since, resolved_at>>
  /\ UNCHANGED <<user_map, active_items, active_payload_bytes, itemVars, row,
                 machine, snapshot, now, counters>>

InsertUser(i) ==
  /\ request[i] = "loading"
  /\ request' = [request EXCEPT ![i] = "resolved"]
  /\ resolved_at' = [resolved_at EXCEPT ![i] = now]
  /\ Loaded({Owner[i]}) /\ Touched({Owner[i]})
  /\ UNCHANGED <<active_items, active_payload_bytes, itemVars, row, machine,
                 snapshot, now, counters>>

(* Validation and the insertion of the row; a user not in memory passes.    *)
InsertRow(i) ==
  /\ request[i] = "resolved"
  /\ machine[Of[i]] = "up" /\ ParentIsOpen(i) /\ WithinLimits(i)
  /\ request' = [request EXCEPT ![i] = "inserted"]
  /\ row' = [row EXCEPT ![i] = "waiting"]
  /\ UNCHANGED <<userVars, itemVars, resolved_at, machine, snapshot, now, counters>>

(* Mutant: the limits are not checked again. *)
AddItemUnchecked(i) ==
  /\ request[i] = "inserted"
  /\ machine[Of[i]] = "up" /\ ParentIsOpen(i)
  /\ Owner[i] \in user_map
  /\ request' = [request EXCEPT ![i] = "done"]
  /\ item' = [item EXCEPT ![i] = "active"]
  /\ Activated({i})
  /\ UNCHANGED <<user_map, idle_since, finished, row, resolved_at, machine,
                 snapshot, now, counters>>

(* add_task, add_session: everything is checked again.                      *)
AddItem(i) ==
  /\ request[i] = "inserted"
  /\ machine[Of[i]] = "up" /\ ParentIsOpen(i) /\ WithinLimits(i)
  /\ Owner[i] \in user_map
  /\ request' = [request EXCEPT ![i] = "done"]
  /\ item' = [item EXCEPT ![i] = "active"]
  /\ Activated({i})
  /\ UNCHANGED <<user_map, idle_since, finished, row, resolved_at, machine,
                 snapshot, now, counters>>

(* A refusal, for a limit or for another reason (a suspension, a project).  *)
Refuse(i) ==
  /\ request[i] \in {"resolved", "inserted"}
  /\ request' = [request EXCEPT ![i] =
                   IF @ = "resolved" THEN "done" ELSE "refused"]
  /\ UNCHANGED <<userVars, itemVars, row, resolved_at, machine, snapshot, now,
                 counters>>

DeleteRow(i) ==
  /\ request[i] = "refused"
  /\ request' = [request EXCEPT ![i] = "done"]
  /\ row' = [row EXCEPT ![i] = "none"]
  /\ UNCHANGED <<userVars, itemVars, resolved_at, machine, snapshot, now, counters>>

-----------------------------------------------------------------------------
(* The end of an item, by whatever way (Task::set_state, Session::close).   *)

EndItem(i) ==
  /\ item[i] = "active" /\ machine[Of[i]] \in {"up", "stopping"}
  /\ item' = [item EXCEPT ![i] = "final"]
  /\ finished' = [finished EXCEPT ![i] = now]
  /\ Deactivated({i})
  /\ UNCHANGED <<user_map, row, requestVars, machine, snapshot, now, counters>>

(* A write of the launcher; rows deleted meanwhile stay so.                 *)
RecordState(i) ==
  /\ \/ item[i] = "active" /\ row[i] = "waiting" /\ row' = [row EXCEPT ![i] = "begun"]
     \/ item[i] = "final" /\ i \in LiveItems(row) /\ row' = [row EXCEPT ![i] = "final"]
  /\ UNCHANGED <<userVars, itemVars, requestVars, machine, snapshot, now, counters>>

(* The eviction of items and of users, with one `now`.                      *)
Evict ==
  LET old == {i \in Item : item[i] = "final" /\ now - finished[i] >= retention}
      idle == {u \in user_map : active_items[u] = 0 /\ now - idle_since[u] >= retention}
  IN /\ old # {} \/ idle # {}
     /\ item' = [i \in Item |-> IF i \in old THEN "absent" ELSE item[i]]
     /\ finished' = [i \in Item |-> IF i \in old THEN 0 ELSE finished[i]]
     /\ user_map' = user_map \ idle
     /\ idle_since' = [u \in User |-> IF u \in idle THEN 0 ELSE idle_since[u]]
     /\ UNCHANGED <<active_items, active_payload_bytes, row, requestVars,
                    machine, snapshot, now, counters>>

(* A state is recorded long before its item is evicted. *)
Tick ==
  /\ now < MaxTime
  /\ \A i \in LiveItems(row) : item[i] = "final" => now + 1 - finished[i] < retention
  /\ now' = now + 1
  /\ UNCHANGED <<userVars, itemVars, row, requestVars, machine, snapshot, counters>>

-----------------------------------------------------------------------------
(* Restoration *)

(* An opened session is restored as closed, and so is a closed one with a   *)
(* task that has not ended; a task of a session whose job is not known is   *)
(* cancelled and not kept.                                                  *)
RestoredClosed(rows) ==
  {s \in Session : \/ rows[s] = "begun"
                   \/ /\ rows[s] = "final"
                      /\ \E t \in LiveItems(rows) \cap DOMAIN Parent : Parent[t] = s}

Orphans(rows) == {t \in DOMAIN Parent : rows[t] = "waiting"}

Kept(rows) == LiveItems(rows) \ (RestoredClosed(rows) \cup Orphans(rows))

EndedByRestore(rows) == (RestoredClosed(rows) \cup Orphans(rows)) \cap LiveItems(row)

Owners(items) == {Owner[i] : i \in items}

RowsOf(m) == [i \in Item |-> IF Of[i] = m THEN row[i] ELSE "none"]

(* The crash of the service and its restart: memory and the submissions     *)
(* under way are lost.                                                      *)
Crash ==
  /\ crashes < MaxCrashes
  /\ crashes' = crashes + 1
  /\ LET rows == row
     IN /\ user_map' = Owners(RestoredClosed(rows) \cup Kept(rows))
        /\ active_items' =
             [u \in User |-> Cardinality(OwnedBy(u, Kept(rows)))]
        /\ active_payload_bytes' = [u \in User |-> SumSize(OwnedBy(u, Kept(rows)))]
        /\ idle_since' = [u \in User |-> IF u \in user_map' THEN now ELSE 0]
        /\ item' = [i \in Item |-> IF i \in Kept(rows) THEN "active"
                                   ELSE IF i \in RestoredClosed(rows) THEN "final"
                                   ELSE "absent"]
        /\ finished' = [i \in Item |-> IF i \in RestoredClosed(rows) THEN now ELSE 0]
        /\ row' = [i \in Item |-> IF i \in EndedByRestore(rows) THEN "final" ELSE row[i]]
  /\ request' = [i \in Item |-> IF request[i] = "idle" THEN "idle" ELSE "done"]
  /\ machine' = [m \in Machine |-> IF machine[m] = "removed" THEN "removed" ELSE "up"]
  /\ snapshot' = [i \in Item |-> "none"]
  /\ UNCHANGED <<resolved_at, now, updates>>

-----------------------------------------------------------------------------
(* Administration of a machine, one at a time (admin_lock).                 *)

(* set_machine_unavailable; the launcher then writes what it has left.      *)
BeginUpdate(m) ==
  /\ updates < MaxUpdates
  /\ \A n \in Machine : machine[n] \in {"up", "removed"}
  /\ machine[m] = "up"
  /\ MayStraddle \/ \A i \in Item : Of[i] = m => request[i] \notin {"inserted", "refused"}
  /\ updates' = updates + 1
  /\ machine' = [machine EXCEPT ![m] = "stopping"]
  /\ UNCHANGED <<userVars, itemVars, row, requestVars, snapshot, now, crashes>>

(* The statement failed, or the machine has work and is not to be forced.   *)
CancelUpdate(m) ==
  /\ machine[m] = "stopping"
  /\ machine' = [machine EXCEPT ![m] = "up"]
  /\ UNCHANGED <<userVars, itemVars, row, requestVars, snapshot, now, counters>>

ItemsOf(m) == {i \in Item : Of[i] = m /\ item[i] # "absent"}
LauncherStopped(m) == \A i \in ItemsOf(m) : item[i] = "final" => i \notin LiveItems(row)

(* Mutant: items that have ended are uncounted again. *)
PurgeAll(m) ==
  /\ Deactivated(ItemsOf(m))
  /\ item' = [i \in Item |-> IF Of[i] = m THEN "absent" ELSE item[i]]
  /\ finished' = [i \in Item |-> IF Of[i] = m THEN 0 ELSE finished[i]]
  /\ UNCHANGED user_map

(* purge_machine: its items leave memory, active ones are uncounted.        *)
Purge(m) ==
  /\ Deactivated({i \in ItemsOf(m) : item[i] = "active"})
  /\ item' = [i \in Item |-> IF Of[i] = m THEN "absent" ELSE item[i]]
  /\ finished' = [i \in Item |-> IF Of[i] = m THEN 0 ELSE finished[i]]
  /\ UNCHANGED user_map

PurgeMachine(m) ==
  /\ machine[m] = "stopping" /\ LauncherStopped(m)
  /\ machine' = [machine EXCEPT ![m] = "purged"]
  /\ Purge(m)
  /\ UNCHANGED <<row, requestVars, snapshot, now, counters>>

LoadRows(m) ==
  /\ machine[m] = "purged"
  /\ machine' = [machine EXCEPT ![m] = "loaded"]
  /\ snapshot' = RowsOf(m)
  /\ UNCHANGED <<userVars, itemVars, row, requestVars, now, counters>>

(* restore of one machine, which then becomes available.                    *)
RestoreMachine(m) ==
  /\ machine[m] = "loaded"
  /\ machine' = [machine EXCEPT ![m] = "up"]
  /\ LET closed == RestoredClosed(snapshot)
         kept == Kept(snapshot)
     IN /\ Loaded(Owners(closed \cup kept)) /\ Touched(Owners(closed \cup kept))
        /\ Activated(kept)
        /\ item' = [i \in Item |-> IF i \in kept THEN "active"
                                   ELSE IF i \in closed THEN "final" ELSE item[i]]
        /\ finished' = [i \in Item |-> IF i \in closed THEN now ELSE finished[i]]
        /\ row' = [i \in Item |-> IF i \in EndedByRestore(snapshot) THEN "final" ELSE row[i]]
  /\ snapshot' = [i \in Item |-> "none"]
  /\ UNCHANGED <<requestVars, now, counters>>

(* The rows of its tasks and sessions are deleted with the machine.         *)
RemoveMachine(m) ==
  /\ machine[m] = "stopping" /\ LauncherStopped(m)
  /\ machine' = [machine EXCEPT ![m] = "removed"]
  /\ Purge(m)
  /\ row' = [i \in Item |-> IF Of[i] = m THEN "none" ELSE row[i]]
  /\ UNCHANGED <<requestVars, snapshot, now, counters>>

-----------------------------------------------------------------------------
Init ==
  /\ user_map = {}
  /\ active_items = [u \in User |-> 0] /\ active_payload_bytes = [u \in User |-> 0]
  /\ idle_since = [u \in User |-> 0]
  /\ item = [i \in Item |-> "absent"] /\ finished = [i \in Item |-> 0]
  /\ row = [i \in Item |-> "none"]
  /\ request = [i \in Item |-> "idle"] /\ resolved_at = [i \in Item |-> 0]
  /\ machine = [m \in Machine |-> "up"]
  /\ snapshot = [i \in Item |-> "none"]
  /\ now = 0 /\ crashes = 0 /\ updates = 0

Submission(i) ==
  \/ ResolveUser(i) \/ InsertUser(i) \/ InsertRow(i) \/ AddItem(i)
  \/ Refuse(i) \/ DeleteRow(i)

Administration(m) ==
  \/ BeginUpdate(m) \/ CancelUpdate(m) \/ PurgeMachine(m) \/ LoadRows(m)
  \/ RestoreMachine(m) \/ RemoveMachine(m)

Next ==
  \/ \E i \in Item : Submission(i) \/ EndItem(i) \/ RecordState(i)
  \/ \E m \in Machine : Administration(m)
  \/ Evict \/ Tick \/ Crash

Spec == Init /\ [][Next]_vars

-----------------------------------------------------------------------------
InMemory(state) == {i \in Item : item[i] = state}

(* The counters of a user are those of its active items in memory, whatever *)
(* restored, purged, ended or evicted them; a user not in memory has none.  *)
CountersExact ==
  \A u \in User :
    LET active == OwnedBy(u, InMemory("active"))
    IN active_items[u] = Cardinality(active) /\ active_payload_bytes[u] = SumSize(active)

(* The user of every item in memory is in memory: its name is looked up     *)
(* without a check (get_user), and its counters are released at the end.    *)
OwnersLoaded ==
  \A i \in Item : item[i] # "absent" => Owner[i] \in user_map

(* "The user stays in memory at least until a task submitted right after    *)
(* this call is added": right after is within the retention period.         *)
KeptForSubmission ==
  \A i \in Item :
    request[i] \in {"resolved", "inserted"} /\ now - resolved_at[i] < retention
      => Owner[i] \in user_map

(* Concurrent submissions cannot exceed the limits together.  After a crash *)
(* or the restart of a launcher they may be exceeded: what is restored is   *)
(* not checked.                                                             *)
LimitsHold ==
  crashes = 0 /\ updates = 0 =>
    \A u \in User :
      LET active == OwnedBy(u, InMemory("active"))
      IN /\ Cardinality(active) <= max_user_active_items
         /\ SumSize(active) <= max_user_active_payload

=============================================================================
