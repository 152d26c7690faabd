----------------------------- MODULE UsersProofs -----------------------------
(* Theorems about the users in memory: their counters are exact, their       *)
(* limits hold, and a user is in memory as long as it is needed.             *)
(*                                                                           *)
(* All of them are about services in which no submission is between its row  *)
(* and add_task when the reconfiguration of its machine begins: otherwise    *)
(* that task is restored and then added again, and its user counted twice.   *)
EXTENDS Users, FiniteSetTheorems, TLAPS

USE DEF userVars, itemVars, requestVars, counters

Active == InMemory("active")

(* The counters, of whatever is active. *)
CountersAre(items) ==
  \A u \in User : /\ active_items[u] = Cardinality(OwnedBy(u, items))
                  /\ active_payload_bytes[u] = SumSize(OwnedBy(u, items))

-----------------------------------------------------------------------------
(* The invariant. *)

CountersBecome(items) ==
  \A u \in User : /\ active_items'[u] = Cardinality(OwnedBy(u, items))
                  /\ active_payload_bytes'[u] = SumSize(OwnedBy(u, items))

(* One machine at a time is reconfigured or removed. *)
OneUpdate ==
  \A m, n \in Machine :
    machine[m] \notin {"up", "removed"} /\ machine[n] \notin {"up", "removed"} => m = n

(* An item is in memory, or among the rows read by a restoration, only after *)
(* its submission was answered; and none is being submitted while its        *)
(* machine is not available.                                                 *)
Submissions ==
  \A i \in Item :
    /\ request[i] # "done" => item[i] = "absent" /\ snapshot[i] = "none"
    /\ request[i] \in {"idle", "loading", "resolved"} => row[i] = "none"
    /\ request[i] \in {"inserted", "refused"} =>
         machine[Of[i]] \notin {"stopping", "purged", "loaded"}

(* A machine that was purged has nothing in memory until it is restored, and *)
(* the rows read are its own; the rows of a removed one are gone.            *)
PurgedIsEmpty ==
  \A i \in Item :
    /\ machine[Of[i]] \in {"purged", "loaded", "removed"} => item[i] = "absent"
    /\ snapshot[i] # "none" => machine[Of[i]] = "loaded"
    /\ machine[Of[i]] = "removed" => row[i] = "none"

(* The idle period of a user begins no earlier than its last item ended, or  *)
(* the last submission under way asked for it.                               *)
IdleSince ==
  \A i \in Item :
    /\ finished[i] <= now /\ resolved_at[i] <= now
    /\ item[i] # "absent" => Owner[i] \in user_map
    /\ item[i] = "final" /\ active_items[Owner[i]] = 0
         => finished[i] <= idle_since[Owner[i]]
    /\ request[i] \in {"resolved", "inserted"} /\ now - resolved_at[i] < retention =>
         /\ Owner[i] \in user_map
         /\ active_items[Owner[i]] = 0 => resolved_at[i] <= idle_since[Owner[i]]

(* Only admission activates items in a service that neither crashed nor      *)
(* reconfigured a machine.                                                   *)
Admitted ==
  crashes = 0 /\ updates = 0 =>
    /\ \A m \in Machine : machine[m] = "up"
    /\ \A u \in User : /\ active_items[u] <= max_user_active_items
                       /\ active_payload_bytes[u] <= max_user_active_payload

UsersInv == /\ TypeOK /\ CountersAre(Active) /\ OneUpdate /\ Submissions /\ PurgedIsEmpty
            /\ IdleSince /\ Admitted

-----------------------------------------------------------------------------
(* Numbers of items, and sums of their sizes. *)

LEMMA UpTo ==
  ASSUME NEW n \in Nat PROVE IsFiniteSet(1..n) /\ Cardinality(1..n) = n
  <1>1. 1 \in Int /\ n \in Int /\ (IF 1 > n THEN 0 ELSE n - 1 + 1) = n
    OBVIOUS
  <1>2. /\ IsFiniteSet(1..n)
        /\ Cardinality(1..n) = IF 1 > n THEN 0 ELSE n - 1 + 1
    BY <1>1, FS_Interval, Zenon
  <1>. QED  BY <1>1, <1>2

LEMMA PayloadIsFinite ==
  ASSUME NEW items \in SUBSET Item
  PROVE  IsFiniteSet(items) /\ IsFiniteSet(Payload(items))
  <1>. DEFINE of == [i \in items |-> {i} \X (1..Size[i])]
              all == {of[i] : i \in items}
  <1>1. IsFiniteSet(items)
    BY FS_Subset, UsersAssumption
  <1>2. of \in Surjection(items, all)
    BY DEF Surjection
  <1>3. IsFiniteSet(all)
    BY <1>1, <1>2, FS_Surjection
  <1>4. ASSUME NEW i \in items PROVE IsFiniteSet(of[i])
    <2>1. Size[i] \in Nat
      BY UsersAssumption
    <2>2. IsFiniteSet({i}) /\ IsFiniteSet(1..Size[i])
      BY <2>1, FS_Singleton, UpTo, Zenon
    <2>. DEFINE one == {i}
                bytes == 1..Size[i]
    <2>3. IsFiniteSet(one \X bytes)
      <3>1. IsFiniteSet(one) /\ IsFiniteSet(bytes)
        BY <2>2
      <3>. HIDE DEF one, bytes
      <3>. QED  BY <3>1, FS_Product
    <2>. QED  BY <2>3
  <1>5. IsFiniteSet(UNION all)
    BY <1>3, <1>4, FS_UNION
  <1>6. Payload(items) = UNION all
    BY DEF Payload
  <1>. QED  BY <1>1, <1>5, <1>6

LEMMA NumbersAreNatural ==
  ASSUME NEW items \in SUBSET Item
  PROVE  Cardinality(items) \in Nat /\ SumSize(items) \in Nat
  BY PayloadIsFinite, FS_CardinalityType DEF SumSize

(* Nothing counts for nothing. *)
LEMMA NothingSums == Cardinality({}) = 0 /\ SumSize({}) = 0
  BY FS_EmptySet DEF SumSize, Payload

(* Numbers and sizes add up. *)
LEMMA Sums ==
  ASSUME NEW A \in SUBSET Item, NEW B \in SUBSET Item, A \cap B = {}
  PROVE  /\ Cardinality(A \cup B) = Cardinality(A) + Cardinality(B)
         /\ SumSize(A \cup B) = SumSize(A) + SumSize(B)
  <1>1. /\ IsFiniteSet(A) /\ IsFiniteSet(B)
        /\ IsFiniteSet(Payload(A)) /\ IsFiniteSet(Payload(B))
        /\ Cardinality(A) \in Nat /\ Cardinality(B) \in Nat
        /\ Cardinality(Payload(A)) \in Nat /\ Cardinality(Payload(B)) \in Nat
    BY PayloadIsFinite, FS_CardinalityType
  <1>2. Payload(A \cup B) = Payload(A) \cup Payload(B)
    BY DEF Payload
  <1>3. Payload(A) \cap Payload(B) = {}
    BY DEF Payload
  <1>4. Cardinality(A \cup B) = Cardinality(A) + Cardinality(B) - Cardinality(A \cap B)
    BY <1>1, FS_Union
  <1>5. Cardinality(Payload(A) \cup Payload(B)) =
          Cardinality(Payload(A)) + Cardinality(Payload(B))
            - Cardinality(Payload(A) \cap Payload(B))
    BY <1>1, FS_Union
  <1>6. Cardinality({}) = 0
    BY FS_EmptySet
  <1>7. /\ SumSize(A \cup B) = Cardinality(Payload(A) \cup Payload(B))
        /\ SumSize(A) = Cardinality(Payload(A)) /\ SumSize(B) = Cardinality(Payload(B))
    BY <1>2 DEF SumSize
  <1>8. Cardinality(A \cap B) = 0 /\ Cardinality(Payload(A) \cap Payload(B)) = 0
    BY <1>3, <1>6
  <1>. QED  BY <1>1, <1>4, <1>5, <1>7, <1>8

(* One item. *)
LEMMA OneItem ==
  ASSUME NEW i \in Item PROVE Cardinality({i}) = 1 /\ SumSize({i}) = Size[i]
  <1>1. Size[i] \in Nat
    BY UsersAssumption
  <1>2. Payload({i}) = {i} \X (1..Size[i])
    BY DEF Payload
  <1>3. /\ IsFiniteSet({i}) /\ Cardinality({i}) = 1
        /\ IsFiniteSet(1..Size[i]) /\ Cardinality(1..Size[i]) = Size[i]
    BY <1>1, FS_Singleton, UpTo, Zenon
  <1>4. Cardinality({i} \X (1..Size[i])) = 1 * Size[i]
    <2>. DEFINE one == {i}
                bytes == 1..Size[i]
    <2>1. /\ IsFiniteSet(one) /\ IsFiniteSet(bytes)
          /\ Cardinality(one) = 1 /\ Cardinality(bytes) = Size[i]
      BY <1>3
    <2>. HIDE DEF one, bytes
    <2>2. Cardinality(one \X bytes) = Cardinality(one) * Cardinality(bytes)
      BY <2>1, FS_Product
    <2>3. Cardinality(one \X bytes) = 1 * Size[i]
      BY <2>1, <2>2
    <2>. QED  BY <2>3 DEF one, bytes
  <1>5. SumSize({i}) = Cardinality({i} \X (1..Size[i]))
    BY <1>2 DEF SumSize
  <1>6. SumSize({i}) = 1 * Size[i]
    BY <1>4, <1>5
  <1>. QED  BY <1>1, <1>3, <1>6

(* The same, user by user. *)
LEMMA OwnedSums ==
  ASSUME NEW A \in SUBSET Item, NEW B \in SUBSET Item, A \cap B = {}, NEW u
  PROVE  /\ Cardinality(OwnedBy(u, A \cup B)) =
              Cardinality(OwnedBy(u, A)) + Cardinality(OwnedBy(u, B))
         /\ SumSize(OwnedBy(u, A \cup B)) = SumSize(OwnedBy(u, A)) + SumSize(OwnedBy(u, B))
         /\ Cardinality(OwnedBy(u, A)) \in Nat /\ Cardinality(OwnedBy(u, B)) \in Nat
         /\ SumSize(OwnedBy(u, A)) \in Nat /\ SumSize(OwnedBy(u, B)) \in Nat
         /\ Cardinality(OwnedBy(u, B)) = 0 <=> OwnedBy(u, B) = {}
  <1>1. /\ OwnedBy(u, A \cup B) = OwnedBy(u, A) \cup OwnedBy(u, B)
        /\ OwnedBy(u, A) \in SUBSET Item /\ OwnedBy(u, B) \in SUBSET Item
        /\ OwnedBy(u, A) \cap OwnedBy(u, B) = {}
    BY DEF OwnedBy
  <1>. QED  BY <1>1, Sums, NumbersAreNatural, PayloadIsFinite, FS_EmptySet

(* Counting more items, and fewer. *)
LEMMA CountMore ==
  ASSUME TypeOK, NEW A \in SUBSET Item, NEW B \in SUBSET Item, A \cap B = {},
         CountersAre(A), Activated(B)
  PROVE  /\ active_items' \in [User -> Nat] /\ active_payload_bytes' \in [User -> Nat]
         /\ CountersBecome(A \cup B)
         /\ \A u \in User : active_items'[u] = 0 => active_items[u] = 0
  <1>1. \A u \in User :
          /\ active_items'[u] = active_items[u] + Cardinality(OwnedBy(u, B))
          /\ active_payload_bytes'[u] = active_payload_bytes[u] + SumSize(OwnedBy(u, B))
          /\ Cardinality(OwnedBy(u, B)) \in Nat /\ SumSize(OwnedBy(u, B)) \in Nat
          /\ active_items[u] \in Nat /\ active_payload_bytes[u] \in Nat
    BY OwnedSums DEF Activated, TypeOK
  <1>2. active_items' \in [User -> Nat] /\ active_payload_bytes' \in [User -> Nat]
    BY <1>1 DEF Activated
  <1>3. \A u \in User :
          /\ active_items[u] = Cardinality(OwnedBy(u, A))
          /\ active_payload_bytes[u] = SumSize(OwnedBy(u, A))
    BY DEF CountersAre
  <1>4. CountersBecome(A \cup B)
    <2>1. ASSUME NEW u \in User
          PROVE  /\ active_items'[u] = Cardinality(OwnedBy(u, A \cup B))
                 /\ active_payload_bytes'[u] = SumSize(OwnedBy(u, A \cup B))
      <3>1. /\ Cardinality(OwnedBy(u, A \cup B)) =
                  Cardinality(OwnedBy(u, A)) + Cardinality(OwnedBy(u, B))
            /\ SumSize(OwnedBy(u, A \cup B)) =
                  SumSize(OwnedBy(u, A)) + SumSize(OwnedBy(u, B))
        BY OwnedSums
      <3>. QED  BY <1>1, <1>3, <3>1
    <2>. QED  BY <2>1 DEF CountersBecome
  <1>5. \A u \in User : active_items'[u] = 0 => active_items[u] = 0
    BY <1>1
  <1>. QED  BY <1>2, <1>4, <1>5

LEMMA CountFewer ==
  ASSUME TypeOK, NEW A \in SUBSET Item, NEW B \in SUBSET A,
         CountersAre(A), Uncounted(B)
  PROVE  /\ active_items' \in [User -> Nat] /\ active_payload_bytes' \in [User -> Nat]
         /\ CountersBecome(A \ B)
         /\ \A u \in User : /\ active_items'[u] <= active_items[u]
                            /\ active_payload_bytes'[u] <= active_payload_bytes[u]
                            /\ OwnedBy(u, B) = {} => active_items'[u] = active_items[u]
  <1>1. /\ A = (A \ B) \cup B /\ (A \ B) \cap B = {}
        /\ A \ B \in SUBSET Item /\ B \in SUBSET Item
    OBVIOUS
  <1>2. \A u \in User :
          /\ active_items'[u] = active_items[u] - Cardinality(OwnedBy(u, B))
          /\ active_payload_bytes'[u] = active_payload_bytes[u] - SumSize(OwnedBy(u, B))
    BY DEF Uncounted
  <1>3. ASSUME NEW u \in User
        PROVE  /\ active_items'[u] = Cardinality(OwnedBy(u, A \ B))
               /\ active_items'[u] \in Nat
               /\ active_payload_bytes'[u] = SumSize(OwnedBy(u, A \ B))
               /\ active_payload_bytes'[u] \in Nat
               /\ active_items'[u] <= active_items[u]
               /\ active_payload_bytes'[u] <= active_payload_bytes[u]
               /\ OwnedBy(u, B) = {} => active_items'[u] = active_items[u]
    <2>. DEFINE c == Cardinality(OwnedBy(u, A \ B))
                d == Cardinality(OwnedBy(u, B))
                x == SumSize(OwnedBy(u, A \ B))
                y == SumSize(OwnedBy(u, B))
    <2>1. /\ Cardinality(OwnedBy(u, (A \ B) \cup B)) = c + d
          /\ SumSize(OwnedBy(u, (A \ B) \cup B)) = x + y
          /\ c \in Nat /\ d \in Nat /\ x \in Nat /\ y \in Nat
          /\ OwnedBy(u, B) = {} => d = 0
      BY <1>1, OwnedSums
    <2>2. /\ active_items[u] = Cardinality(OwnedBy(u, A))
          /\ active_payload_bytes[u] = SumSize(OwnedBy(u, A))
      BY DEF CountersAre
    <2>3. active_items[u] = c + d /\ active_payload_bytes[u] = x + y
      BY <1>1, <2>1, <2>2
    <2>4. active_items'[u] = active_items[u] - d
          /\ active_payload_bytes'[u] = active_payload_bytes[u] - y
      BY <1>2
    <2>. HIDE DEF c, d, x, y
    <2>5. active_items'[u] = c /\ active_payload_bytes'[u] = x
      BY <2>1, <2>3, <2>4
    <2>6. /\ c <= c + d /\ x <= x + y /\ (d = 0 => c = c + d)
      BY <2>1
    <2>7. /\ active_items'[u] \in Nat /\ active_payload_bytes'[u] \in Nat
          /\ active_items'[u] <= active_items[u]
          /\ active_payload_bytes'[u] <= active_payload_bytes[u]
          /\ OwnedBy(u, B) = {} => active_items'[u] = active_items[u]
      BY <2>1, <2>3, <2>5, <2>6
    <2>. QED  BY <2>5, <2>7 DEF c, x
  <1>5. active_items' \in [User -> Nat] /\ active_payload_bytes' \in [User -> Nat]
    BY <1>3 DEF Uncounted
  <1>. QED  BY <1>3, <1>5 DEF CountersBecome

(* What Deactivated does. *)
LEMMA CountEnded ==
  ASSUME TypeOK, NEW A \in SUBSET Item, NEW B \in SUBSET A,
         CountersAre(A), Deactivated(B)
  PROVE  /\ active_items' \in [User -> Nat] /\ active_payload_bytes' \in [User -> Nat]
         /\ idle_since' \in [User -> Time]
         /\ CountersBecome(A \ B)
         /\ \A u \in User :
              /\ active_items'[u] <= active_items[u]
              /\ active_payload_bytes'[u] <= active_payload_bytes[u]
              /\ active_items'[u] = 0 =>
                   \/ idle_since'[u] = now
                   \/ /\ OwnedBy(u, B) = {} /\ active_items[u] = 0
                      /\ idle_since'[u] = idle_since[u]
  <1>1. Uncounted(B)
    BY DEF Deactivated
  <1>2. idle_since' = [u \in User |->
          IF OwnedBy(u, B) # {} /\ active_items'[u] = 0 THEN now ELSE idle_since[u]]
    BY DEF Deactivated
  <1>3. idle_since' \in [User -> Time]
    BY <1>2 DEF TypeOK
  <1>. QED  BY <1>1, <1>2, <1>3, CountFewer

-----------------------------------------------------------------------------
(* What the steps keep. *)

LEMMA CountersSame ==
  ASSUME CountersAre(Active), UNCHANGED <<active_items, active_payload_bytes>>,
         \A i \in Item : item'[i] = "active" <=> item[i] = "active"
  PROVE  CountersAre(Active)'
  <1>1. Active' = Active
    BY DEF Active, InMemory
  <1>. QED  BY <1>1 DEF CountersAre

LEMMA CountersFollow ==
  ASSUME NEW items, CountersBecome(items), Active' = items
  PROVE  CountersAre(Active)'
  BY DEF CountersAre, CountersBecome

(* Steps within a machine's normal work leave the administration alone.     *)
LEMMA AdmittedSame ==
  ASSUME TypeOK, Admitted, UNCHANGED <<machine, counters>>,
         active_items' \in [User -> Nat], active_payload_bytes' \in [User -> Nat],
         \A u \in User : /\ active_items'[u] <= active_items[u]
                         /\ active_payload_bytes'[u] <= active_payload_bytes[u]
  PROVE  Admitted'
  <1>. SUFFICES ASSUME crashes = 0, updates = 0, NEW u \in User
                PROVE  /\ active_items'[u] <= max_user_active_items
                       /\ active_payload_bytes'[u] <= max_user_active_payload
    BY DEF Admitted
  <1>1. /\ active_items[u] <= max_user_active_items
        /\ active_payload_bytes[u] <= max_user_active_payload
        /\ active_items[u] \in Nat /\ active_payload_bytes[u] \in Nat
        /\ active_items'[u] \in Nat /\ active_payload_bytes'[u] \in Nat
        /\ max_user_active_items \in Nat /\ max_user_active_payload \in Nat
    BY UsersAssumption DEF Admitted, TypeOK
  <1>. QED  BY <1>1

(* The idle periods follow the items and the submissions. *)
LEMMA IdleFollows ==
  ASSUME TypeOK, IdleSince, user_map \subseteq user_map', UNCHANGED now,
         \A u \in User : active_items'[u] = 0 =>
           \/ idle_since'[u] = now
           \/ active_items[u] = 0 /\ idle_since'[u] = idle_since[u],
         \A i \in Item :
           \/ item'[i] = item[i] /\ finished'[i] = finished[i]
           \/ item'[i] = "absent" /\ finished'[i] = 0
           \/ item'[i] = "active" /\ finished'[i] = finished[i] /\ Owner[i] \in user_map'
           \/ /\ item'[i] = "final" /\ finished'[i] = now /\ Owner[i] \in user_map'
              /\ active_items'[Owner[i]] = 0 => idle_since'[Owner[i]] = now,
         \A i \in Item :
           \/ /\ request'[i] \in {"resolved", "inserted"} =>
                   request[i] \in {"resolved", "inserted"}
              /\ resolved_at'[i] = resolved_at[i]
           \/ /\ resolved_at'[i] = now /\ Owner[i] \in user_map'
              /\ active_items'[Owner[i]] = 0 => idle_since'[Owner[i]] = now
  PROVE  IdleSince'
  <1>. SUFFICES ASSUME NEW i \in Item
                PROVE  /\ finished'[i] <= now /\ resolved_at'[i] <= now
                       /\ item'[i] # "absent" => Owner[i] \in user_map'
                       /\ item'[i] = "final" /\ active_items'[Owner[i]] = 0
                            => finished'[i] <= idle_since'[Owner[i]]
                       /\ /\ request'[i] \in {"resolved", "inserted"}
                          /\ now - resolved_at'[i] < retention
                          => /\ Owner[i] \in user_map'
                             /\ active_items'[Owner[i]] = 0
                                  => resolved_at'[i] <= idle_since'[Owner[i]]
    BY DEF IdleSince
  <1>. DEFINE u == Owner[i]
  <1>1. /\ u \in User /\ now \in Nat /\ finished[i] \in Nat /\ resolved_at[i] \in Nat
        /\ idle_since[u] \in Nat
    BY UsersAssumption DEF TypeOK, Time
  <1>2. /\ finished[i] <= now /\ resolved_at[i] <= now
        /\ item[i] # "absent" => u \in user_map
        /\ item[i] = "final" /\ active_items[u] = 0 => finished[i] <= idle_since[u]
        /\ request[i] \in {"resolved", "inserted"} /\ now - resolved_at[i] < retention =>
             /\ u \in user_map
             /\ active_items[u] = 0 => resolved_at[i] <= idle_since[u]
    BY DEF IdleSince
  <1>3. finished'[i] <= now /\ resolved_at'[i] <= now
    BY <1>1, <1>2
  <1>4. item'[i] # "absent" => u \in user_map'
    BY <1>2
  <1>5. item'[i] = "final" /\ active_items'[u] = 0 => finished'[i] <= idle_since'[u]
    BY <1>1, <1>2
  <1>6. /\ request'[i] \in {"resolved", "inserted"}
        /\ now - resolved_at'[i] < retention
        => /\ u \in user_map'
           /\ active_items'[u] = 0 => resolved_at'[i] <= idle_since'[u]
    BY <1>1, <1>2
  <1>. QED  BY <1>3, <1>4, <1>5, <1>6

-----------------------------------------------------------------------------
(* The steps of a submission. *)

LEMMA ResolveKeeps ==
  ASSUME UsersInv, NEW i \in Item, ResolveUser(i) \/ InsertUser(i) PROVE UsersInv'
  <1>. USE DEF UsersInv
  <1>0. /\ request[i] \in {"idle", "loading"} /\ Owner[i] \in User
        /\ user_map \subseteq user_map' /\ user_map' \subseteq User
        /\ UNCHANGED <<active_items, active_payload_bytes, itemVars, row, machine,
                       snapshot, now, counters>>
        /\ \/ /\ request'[i] = "loading" /\ UNCHANGED <<idle_since, resolved_at>>
           \/ /\ request'[i] = "resolved" /\ resolved_at'[i] = now
              /\ Owner[i] \in user_map' /\ Touched({Owner[i]})
        /\ \A r \in Item \ {i} : request'[r] = request[r] /\ resolved_at'[r] = resolved_at[r]
        /\ request' \in [Item -> RequestState] /\ resolved_at' \in [Item -> Time]
    BY UsersAssumption DEF ResolveUser, InsertUser, Loaded, TypeOK, RequestState
  <1>1. idle_since' \in [User -> Time]
    BY <1>0 DEF Touched, TypeOK
  <1>2. TypeOK'
    BY <1>0, <1>1 DEF TypeOK
  <1>3. CountersAre(Active)'
    BY <1>0, CountersSame
  <1>4. \A u \in User : idle_since'[u] = now \/ idle_since'[u] = idle_since[u]
    BY <1>0 DEF Touched
  <1>5. /\ request'[i] = "resolved"
        /\ active_items'[Owner[i]] = 0 => idle_since'[Owner[i]] = now
    \/ request'[i] = "loading"
    BY <1>0 DEF Touched
  <1>6. IdleSince'
    BY <1>0, <1>4, <1>5, IdleFollows
  <1>7. Submissions'
    BY <1>0 DEF Submissions
  <1>8. OneUpdate' /\ PurgedIsEmpty' /\ Admitted'
    BY <1>0 DEF OneUpdate, PurgedIsEmpty, Admitted
  <1>. QED  BY <1>2, <1>3, <1>6, <1>7, <1>8

(* Steps of a submission that only change its row.                          *)
LEMMA RowKeeps ==
  ASSUME UsersInv, NEW i \in Item, InsertRow(i) \/ Refuse(i) \/ DeleteRow(i)
  PROVE  UsersInv'
  <1>. USE DEF UsersInv
  <1>0. /\ UNCHANGED <<userVars, itemVars, resolved_at, machine, snapshot, now, counters>>
        /\ \A r \in Item \ {i} : request'[r] = request[r] /\ row'[r] = row[r]
        /\ request' \in [Item -> RequestState] /\ row' \in [Item -> RowState]
        /\ \/ request[i] = "resolved" /\ request'[i] = "inserted" /\ machine[Of[i]] = "up"
           \/ request[i] = "resolved" /\ request'[i] = "done" /\ row'[i] = row[i]
           \/ request[i] = "inserted" /\ request'[i] = "refused" /\ row'[i] = row[i]
           \/ request[i] = "refused" /\ request'[i] = "done" /\ row'[i] = "none"
    BY DEF InsertRow, Refuse, DeleteRow, TypeOK, RequestState, RowState
  <1>1. TypeOK'
    BY <1>0 DEF TypeOK
  <1>2. CountersAre(Active)'
    BY <1>0, CountersSame
  <1>3. IdleSince'
    BY <1>0, IdleFollows
  <1>4. Submissions'
    BY <1>0 DEF Submissions
  <1>5. OneUpdate' /\ PurgedIsEmpty' /\ Admitted'
    BY <1>0 DEF OneUpdate, PurgedIsEmpty, Admitted
  <1>. QED  BY <1>1, <1>2, <1>3, <1>4, <1>5

LEMMA AddKeeps ==
  ASSUME UsersInv, NEW i \in Item, AddItem(i) PROVE UsersInv'
  <1>. USE DEF UsersInv
  <1>. DEFINE u == Owner[i]
  <1>0. /\ request[i] = "inserted" /\ item[i] = "absent" /\ snapshot[i] = "none"
        /\ machine[Of[i]] = "up" /\ u \in user_map /\ u \in User
        /\ active_items[u] < max_user_active_items
        /\ active_payload_bytes[u] + Size[i] <= max_user_active_payload \/ Size[i] = 0
        /\ UNCHANGED <<user_map, idle_since, finished, row, resolved_at, machine,
                       snapshot, now, counters>>
        /\ \A r \in Item : /\ request'[r] = IF r = i THEN "done" ELSE request[r]
                           /\ item'[r] = IF r = i THEN "active" ELSE item[r]
        /\ request' \in [Item -> RequestState] /\ item' \in [Item -> ItemState]
    BY UsersAssumption
       DEF AddItem, Submissions, WithinLimits, TypeOK, RequestState, ItemState
  <1>1. Active' = Active \cup {i} /\ Active \cap {i} = {} /\ Active \in SUBSET Item
    BY <1>0 DEF Active, InMemory
  <1>. HIDE DEF Active
  <1>2. /\ active_items' \in [User -> Nat] /\ active_payload_bytes' \in [User -> Nat]
        /\ CountersBecome(Active \cup {i})
        /\ \A v \in User : active_items'[v] = 0 => active_items[v] = 0
    <2>. DEFINE A == Active
    <2>1. A \in SUBSET Item /\ {i} \in SUBSET Item /\ A \cap {i} = {}
          /\ CountersAre(A) /\ Activated({i})
      BY <1>1 DEF AddItem
    <2>. HIDE DEF A
    <2>2. /\ active_items' \in [User -> Nat] /\ active_payload_bytes' \in [User -> Nat]
          /\ CountersBecome(A \cup {i})
          /\ \A v \in User : active_items'[v] = 0 => active_items[v] = 0
      BY <2>1, CountMore
    <2>. QED  BY <2>2 DEF A
  <1>3. TypeOK'
    BY <1>0, <1>2 DEF TypeOK
  <1>4. CountersAre(Active)'
    BY <1>1, <1>2, CountersFollow
  <1>5. IdleSince'
    BY <1>0, <1>2, IdleFollows
  <1>6. Submissions' /\ OneUpdate' /\ PurgedIsEmpty'
    BY <1>0 DEF Submissions, OneUpdate, PurgedIsEmpty
  <1>7. Admitted'
    <2>1. \A v \in User :
            /\ active_items'[v] = active_items[v] + (IF v = u THEN 1 ELSE 0)
            /\ active_payload_bytes'[v] =
                 active_payload_bytes[v] + (IF v = u THEN Size[i] ELSE 0)
      <3>1. \A v \in User : OwnedBy(v, {i}) = IF v = u THEN {i} ELSE {}
        BY DEF OwnedBy
      <3>2. Cardinality({i}) = 1 /\ SumSize({i}) = Size[i]
            /\ Cardinality({}) = 0 /\ SumSize({}) = 0
        BY OneItem, NothingSums
      <3>. QED  BY <3>1, <3>2 DEF AddItem, Activated
    <2>2. ASSUME crashes = 0, updates = 0, NEW v \in User
          PROVE  /\ active_items'[v] <= max_user_active_items
                 /\ active_payload_bytes'[v] <= max_user_active_payload
      <3>1. /\ active_items[v] <= max_user_active_items
            /\ active_payload_bytes[v] <= max_user_active_payload
            /\ active_items[v] \in Nat /\ active_payload_bytes[v] \in Nat
            /\ max_user_active_items \in Nat /\ max_user_active_payload \in Nat
            /\ Size[i] \in Nat
        BY <2>2, UsersAssumption DEF Admitted, TypeOK
      <3>. QED  BY <1>0, <2>1, <3>1
    <2>. QED  BY <1>0, <2>2 DEF Admitted
  <1>. QED  BY <1>3, <1>4, <1>5, <1>6, <1>7

-----------------------------------------------------------------------------
(* The end of an item, eviction and time. *)

LEMMA EndKeeps ==
  ASSUME UsersInv, NEW i \in Item, EndItem(i) PROVE UsersInv'
  <1>. USE DEF UsersInv
  <1>0. /\ item[i] = "active" /\ machine[Of[i]] \in {"up", "stopping"}
        /\ UNCHANGED <<user_map, row, requestVars, machine, snapshot, now, counters>>
        /\ \A r \in Item : /\ item'[r] = IF r = i THEN "final" ELSE item[r]
                           /\ finished'[r] = IF r = i THEN now ELSE finished[r]
        /\ item' \in [Item -> ItemState] /\ finished' \in [Item -> Time]
        /\ Owner[i] \in user_map /\ Owner[i] \in User
    BY UsersAssumption DEF EndItem, TypeOK, ItemState, IdleSince
  <1>1. Active' = Active \ {i} /\ {i} \in SUBSET Active /\ Active \in SUBSET Item
    BY <1>0 DEF Active, InMemory
  <1>2. /\ active_items' \in [User -> Nat] /\ active_payload_bytes' \in [User -> Nat]
        /\ idle_since' \in [User -> Time]
        /\ CountersBecome(Active \ {i})
        /\ \A u \in User :
              /\ active_items'[u] <= active_items[u]
              /\ active_payload_bytes'[u] <= active_payload_bytes[u]
              /\ active_items'[u] = 0 =>
                   \/ idle_since'[u] = now
                   \/ /\ OwnedBy(u, {i}) = {} /\ active_items[u] = 0
                      /\ idle_since'[u] = idle_since[u]
    <2>. DEFINE A == Active
    <2>1. A \in SUBSET Item /\ {i} \in SUBSET A /\ CountersAre(A) /\ Deactivated({i})
      BY <1>1 DEF EndItem
    <2>. HIDE DEF A
    <2>2. /\ active_items' \in [User -> Nat] /\ active_payload_bytes' \in [User -> Nat]
          /\ idle_since' \in [User -> Time]
          /\ CountersBecome(A \ {i})
          /\ \A u \in User :
                /\ active_items'[u] <= active_items[u]
                /\ active_payload_bytes'[u] <= active_payload_bytes[u]
                /\ active_items'[u] = 0 =>
                     \/ idle_since'[u] = now
                     \/ /\ OwnedBy(u, {i}) = {} /\ active_items[u] = 0
                        /\ idle_since'[u] = idle_since[u]
      BY <2>1, CountEnded
    <2>. QED  BY <2>2 DEF A
  <1>3. TypeOK'
    BY <1>0, <1>2 DEF TypeOK
  <1>4. CountersAre(Active)'
    BY <1>1, <1>2, CountersFollow
  <1>5. active_items'[Owner[i]] = 0 => idle_since'[Owner[i]] = now
    BY <1>0, <1>2 DEF OwnedBy
  <1>6. IdleSince'
    BY <1>0, <1>2, <1>5, IdleFollows
  <1>7. Submissions' /\ OneUpdate' /\ PurgedIsEmpty'
    BY <1>0 DEF Submissions, OneUpdate, PurgedIsEmpty
  <1>8. Admitted'
    BY <1>0, <1>2, AdmittedSame
  <1>. QED  BY <1>3, <1>4, <1>6, <1>7, <1>8

LEMMA RecordKeeps ==
  ASSUME UsersInv, NEW i \in Item, RecordState(i) PROVE UsersInv'
  <1>. USE DEF UsersInv
  <1>0. /\ item[i] # "absent"
        /\ UNCHANGED <<userVars, itemVars, requestVars, machine, snapshot, now, counters>>
        /\ \A r \in Item \ {i} : row'[r] = row[r]
        /\ row' \in [Item -> RowState]
    BY DEF RecordState, TypeOK, RowState
  <1>1. TypeOK'
    BY <1>0 DEF TypeOK
  <1>2. CountersAre(Active)'
    BY <1>0, CountersSame
  <1>3. IdleSince'
    BY <1>0, IdleFollows
  <1>4. Submissions' /\ PurgedIsEmpty'
    BY <1>0 DEF Submissions, PurgedIsEmpty
  <1>5. OneUpdate' /\ Admitted'
    BY <1>0 DEF OneUpdate, Admitted
  <1>. QED  BY <1>1, <1>2, <1>3, <1>4, <1>5

(* A user with an active item is not idle. *)
LEMMA ActiveIsCounted ==
  ASSUME TypeOK, CountersAre(Active), NEW i \in Item, item[i] = "active"
  PROVE  active_items[Owner[i]] # 0
  <1>1. i \in OwnedBy(Owner[i], Active) /\ OwnedBy(Owner[i], Active) \in SUBSET Item
    BY DEF OwnedBy, Active, InMemory
  <1>2. Owner[i] \in User
    BY UsersAssumption
  <1>. DEFINE owned == OwnedBy(Owner[i], Active)
  <1>3. active_items[Owner[i]] = Cardinality(owned)
    BY <1>2 DEF CountersAre
  <1>. HIDE DEF owned
  <1>4. IsFiniteSet(owned) /\ owned # {}
    BY <1>1, PayloadIsFinite DEF owned
  <1>. QED  BY <1>3, <1>4, FS_EmptySet

LEMMA EvictKeeps ==
  ASSUME UsersInv, Evict PROVE UsersInv'
  <1>. USE DEF UsersInv
  <1>. DEFINE old == {i \in Item : item[i] = "final" /\ now - finished[i] >= retention}
              idle == {u \in user_map : active_items[u] = 0 /\ now - idle_since[u] >= retention}
  <1>0. /\ \A i \in Item : /\ item'[i] = IF i \in old THEN "absent" ELSE item[i]
                           /\ finished'[i] = IF i \in old THEN 0 ELSE finished[i]
        /\ user_map' = user_map \ idle
        /\ \A u \in User : idle_since'[u] = IF u \in idle THEN 0 ELSE idle_since[u]
        /\ UNCHANGED <<active_items, active_payload_bytes, row, requestVars,
                       machine, snapshot, now, counters>>
        /\ item' = [i \in Item |-> IF i \in old THEN "absent" ELSE item[i]]
        /\ finished' = [i \in Item |-> IF i \in old THEN 0 ELSE finished[i]]
        /\ idle_since' = [u \in User |-> IF u \in idle THEN 0 ELSE idle_since[u]]
    BY DEF Evict
  <1>1. TypeOK'
    <2>1. 0 \in Time /\ "absent" \in ItemState
      BY UsersAssumption DEF Time, ItemState
    <2>2. /\ item' \in [Item -> ItemState] /\ finished' \in [Item -> Time]
          /\ idle_since' \in [User -> Time]
      BY <1>0, <2>1 DEF TypeOK
    <2>. QED  BY <1>0, <2>2 DEF TypeOK
  <1>2. CountersAre(Active)'
    <2>1. \A i \in Item : item'[i] = "active" <=> item[i] = "active"
      BY <1>0
    <2>. QED  BY <1>0, <2>1, CountersSame
  <1>3. IdleSince'
    <2>. SUFFICES ASSUME NEW i \in Item
                  PROVE  /\ finished'[i] <= now /\ resolved_at[i] <= now
                         /\ item'[i] # "absent" => Owner[i] \in user_map'
                         /\ item'[i] = "final" /\ active_items[Owner[i]] = 0
                              => finished'[i] <= idle_since'[Owner[i]]
                         /\ /\ request[i] \in {"resolved", "inserted"}
                            /\ now - resolved_at[i] < retention
                            => /\ Owner[i] \in user_map'
                               /\ active_items[Owner[i]] = 0
                                    => resolved_at[i] <= idle_since'[Owner[i]]
      BY <1>0 DEF IdleSince
    <2>. DEFINE u == Owner[i]
    <2>1. /\ u \in User /\ now \in Nat /\ finished[i] \in Nat /\ resolved_at[i] \in Nat
          /\ idle_since[u] \in Nat /\ retention \in Nat
          /\ item[i] \in ItemState
      BY UsersAssumption DEF TypeOK, Time
    <2>2. /\ finished[i] <= now /\ resolved_at[i] <= now
          /\ item[i] # "absent" => u \in user_map
          /\ item[i] = "final" /\ active_items[u] = 0 => finished[i] <= idle_since[u]
          /\ request[i] \in {"resolved", "inserted"} /\ now - resolved_at[i] < retention =>
               /\ u \in user_map
               /\ active_items[u] = 0 => resolved_at[i] <= idle_since[u]
      BY DEF IdleSince
    <2>3. item[i] = "active" => active_items[u] # 0
      BY ActiveIsCounted
    <2>4. i \notin old /\ item[i] # "absent" => u \notin idle
      BY <2>1, <2>2, <2>3 DEF ItemState
    <2>5. request[i] \in {"resolved", "inserted"} /\ now - resolved_at[i] < retention
            => u \notin idle
      BY <2>1, <2>2
    <2>6. /\ i \in old => item'[i] = "absent" /\ finished'[i] = 0
          /\ i \notin old => item'[i] = item[i] /\ finished'[i] = finished[i]
          /\ u \notin idle => idle_since'[u] = idle_since[u]
          /\ u \in user_map /\ u \notin idle => u \in user_map'
      BY <1>0, <2>1
    <2>. HIDE DEF old, idle, u
    <2>7. finished'[i] <= now /\ resolved_at[i] <= now
      BY <2>1, <2>2, <2>6
    <2>8. /\ item'[i] # "absent" => u \in user_map'
          /\ item'[i] = "final" /\ active_items[u] = 0 => finished'[i] <= idle_since'[u]
      BY <2>2, <2>4, <2>6
    <2>9. /\ request[i] \in {"resolved", "inserted"}
          /\ now - resolved_at[i] < retention
          => /\ u \in user_map'
             /\ active_items[u] = 0 => resolved_at[i] <= idle_since'[u]
      BY <2>2, <2>5, <2>6
    <2>. QED  BY <2>7, <2>8, <2>9 DEF u
  <1>4. Submissions' /\ OneUpdate' /\ PurgedIsEmpty' /\ Admitted'
    BY <1>0 DEF Submissions, OneUpdate, PurgedIsEmpty, Admitted
  <1>. QED  BY <1>1, <1>2, <1>3, <1>4

LEMMA TickKeeps ==
  ASSUME UsersInv, Tick PROVE UsersInv'
  <1>. USE DEF UsersInv
  <1>0. /\ now' = now + 1 /\ now \in Nat /\ now' \in Time
        /\ UNCHANGED <<userVars, itemVars, row, requestVars, machine, snapshot, counters>>
    BY UsersAssumption DEF Tick, TypeOK, Time
  <1>1. TypeOK'
    BY <1>0 DEF TypeOK
  <1>2. CountersAre(Active)'
    BY <1>0, CountersSame
  <1>3. IdleSince'
    <2>. SUFFICES ASSUME NEW i \in Item
                  PROVE  /\ finished[i] <= now' /\ resolved_at[i] <= now'
                         /\ now' - resolved_at[i] < retention
                              => now - resolved_at[i] < retention
      BY <1>0 DEF IdleSince
    <2>1. /\ now \in Nat /\ finished[i] \in Nat /\ resolved_at[i] \in Nat
          /\ retention \in Nat /\ finished[i] <= now /\ resolved_at[i] <= now
      BY UsersAssumption DEF TypeOK, Time, IdleSince
    <2>. QED  BY <1>0, <2>1
  <1>4. Submissions' /\ OneUpdate' /\ PurgedIsEmpty' /\ Admitted'
    BY <1>0 DEF Submissions, OneUpdate, PurgedIsEmpty, Admitted
  <1>. QED  BY <1>1, <1>2, <1>3, <1>4

-----------------------------------------------------------------------------
(* The administration of machines. *)

LEMMA AdministeredAdmits ==
  ASSUME Admitted, NEW m \in Machine, machine[m] # "up", UNCHANGED counters
  PROVE  Admitted'
  BY DEF Admitted

LEMMA BeginKeeps ==
  ASSUME UsersInv, ~MayStraddle, NEW m \in Machine,
         BeginUpdate(m) \/ CancelUpdate(m) \/ LoadRows(m)
  PROVE  UsersInv'
  <1>. USE DEF UsersInv
  <1>0. /\ UNCHANGED <<userVars, itemVars, row, requestVars, now, crashes>>
        /\ \A n \in Machine \ {m} : machine'[n] = machine[n]
        /\ machine' \in [Machine -> MachineState]
        /\ \A i \in Item : Of[i] \in Machine
    BY UsersAssumption DEF BeginUpdate, CancelUpdate, LoadRows, TypeOK, MachineState
  <1>1. /\ CountersAre(Active)' /\ IdleSince'
    BY <1>0, CountersSame, IdleFollows
  <1>2. CASE BeginUpdate(m)
    <2>1. /\ machine'[m] = "stopping" /\ updates' = updates + 1
          /\ \A n \in Machine : machine[n] \in {"up", "removed"}
          /\ machine[m] = "up" /\ UNCHANGED snapshot
          /\ updates \in 0..MaxUpdates /\ updates < MaxUpdates
          /\ \A i \in Item : Of[i] = m => request[i] \notin {"inserted", "refused"}
      BY <1>2 DEF BeginUpdate, TypeOK
    <2>2. updates' \in 0..MaxUpdates /\ updates' # 0
      BY <2>1, UsersAssumption
    <2>3. TypeOK'
      BY <1>0, <2>1, <2>2 DEF TypeOK
    <2>4. OneUpdate' /\ Submissions' /\ PurgedIsEmpty'
      BY <1>0, <2>1 DEF OneUpdate, Submissions, PurgedIsEmpty
    <2>5. Admitted'
      BY <2>2 DEF Admitted
    <2>. QED  BY <1>1, <2>3, <2>4, <2>5
  <1>3. CASE CancelUpdate(m)
    <2>1. /\ machine'[m] = "up" /\ machine[m] = "stopping"
          /\ UNCHANGED <<snapshot, updates>>
      BY <1>3 DEF CancelUpdate, TypeOK
    <2>2. TypeOK'
      BY <1>0, <2>1 DEF TypeOK
    <2>3. OneUpdate' /\ Submissions' /\ PurgedIsEmpty'
      BY <1>0, <2>1 DEF OneUpdate, Submissions, PurgedIsEmpty
    <2>. QED  BY <1>0, <1>1, <2>1, <2>2, <2>3, AdministeredAdmits
  <1>4. CASE LoadRows(m)
    <2>1. /\ machine'[m] = "loaded" /\ machine[m] = "purged"
          /\ \A i \in Item : snapshot'[i] = IF Of[i] = m THEN row[i] ELSE "none"
          /\ snapshot' \in [Item -> RowState]
          /\ UNCHANGED updates
      BY <1>4 DEF LoadRows, RowsOf, TypeOK, RowState
    <2>2. TypeOK'
      BY <1>0, <2>1 DEF TypeOK
    <2>3. OneUpdate'
      BY <1>0, <2>1 DEF OneUpdate
    <2>4. Submissions'
      <3>1. \A i \in Item : request[i] \in RequestState
        BY DEF TypeOK
      <3>. QED  BY <1>0, <2>1, <3>1 DEF Submissions, RequestState
    <2>5. PurgedIsEmpty'
      BY <1>0, <2>1 DEF PurgedIsEmpty
    <2>. QED  BY <1>0, <1>1, <2>1, <2>2, <2>3, <2>4, <2>5, AdministeredAdmits
  <1>. QED  BY <1>2, <1>3, <1>4

(* A machine's items leave memory. *)
LEMMA Purges ==
  ASSUME UsersInv, NEW m \in Machine, Purge(m), UNCHANGED <<requestVars, now>>
  PROVE  /\ active_items' \in [User -> Nat] /\ active_payload_bytes' \in [User -> Nat]
         /\ idle_since' \in [User -> Time] /\ user_map' = user_map
         /\ item' \in [Item -> ItemState] /\ finished' \in [Item -> Time]
         /\ CountersAre(Active)' /\ IdleSince'
         /\ \A i \in Item : item'[i] = IF Of[i] = m THEN "absent" ELSE item[i]
  <1>. USE DEF UsersInv
  <1>. DEFINE ended == {i \in ItemsOf(m) : item[i] = "active"}
              A == Active
  <1>0. /\ \A i \in Item : /\ item'[i] = IF Of[i] = m THEN "absent" ELSE item[i]
                           /\ finished'[i] = IF Of[i] = m THEN 0 ELSE finished[i]
        /\ user_map' = user_map /\ Deactivated(ended)
    BY DEF Purge
  <1>1. item' \in [Item -> ItemState] /\ finished' \in [Item -> Time]
    <2>1. 0 \in Time /\ "absent" \in ItemState
      BY UsersAssumption DEF Time, ItemState
    <2>. QED  BY <2>1 DEF Purge, TypeOK
  <1>2. Active' = A \ ended /\ ended \in SUBSET A /\ A \in SUBSET Item
    BY <1>0 DEF Active, InMemory, ItemsOf
  <1>3. CountersAre(A)
    OBVIOUS
  <1>. HIDE DEF A, ended
  <1>4. /\ active_items' \in [User -> Nat] /\ active_payload_bytes' \in [User -> Nat]
        /\ idle_since' \in [User -> Time]
        /\ CountersBecome(A \ ended)
        /\ \A u \in User : active_items'[u] = 0 =>
                   \/ idle_since'[u] = now
                   \/ /\ OwnedBy(u, ended) = {} /\ active_items[u] = 0
                      /\ idle_since'[u] = idle_since[u]
    BY <1>0, <1>2, <1>3, CountEnded
  <1>5. CountersAre(Active)'
    BY <1>2, <1>4, CountersFollow
  <1>6. IdleSince'
    BY <1>0, <1>4, IdleFollows
  <1>. QED  BY <1>0, <1>1, <1>4, <1>5, <1>6

LEMMA PurgeKeeps ==
  ASSUME UsersInv, NEW m \in Machine, PurgeMachine(m) \/ RemoveMachine(m) PROVE UsersInv'
  <1>. USE DEF UsersInv
  <1>0. /\ machine[m] = "stopping" /\ machine'[m] \in {"purged", "removed"}
        /\ \A n \in Machine \ {m} : machine'[n] = machine[n]
        /\ machine' \in [Machine -> MachineState]
        /\ Purge(m) /\ UNCHANGED <<requestVars, snapshot, now, counters>>
        /\ \A i \in Item : \/ row'[i] = row[i] /\ (machine'[m] = "removed" => Of[i] # m)
                           \/ row'[i] = "none"
        /\ row' \in [Item -> RowState]
        /\ \A i \in Item : Of[i] \in Machine
    <2>1. CASE PurgeMachine(m)
      BY <2>1, UsersAssumption DEF PurgeMachine, TypeOK, MachineState
    <2>2. CASE RemoveMachine(m)
      BY <2>2, UsersAssumption DEF RemoveMachine, TypeOK, MachineState, RowState
    <2>. QED  BY <2>1, <2>2
  <1>1. /\ active_items' \in [User -> Nat] /\ active_payload_bytes' \in [User -> Nat]
        /\ idle_since' \in [User -> Time] /\ user_map' = user_map
        /\ item' \in [Item -> ItemState] /\ finished' \in [Item -> Time]
        /\ CountersAre(Active)' /\ IdleSince'
        /\ \A i \in Item : item'[i] = IF Of[i] = m THEN "absent" ELSE item[i]
    BY <1>0, Purges
  <1>2. TypeOK'
    BY <1>0, <1>1 DEF TypeOK
  <1>3. OneUpdate'
    BY <1>0 DEF OneUpdate
  <1>4. Submissions'
    BY <1>0, <1>1 DEF Submissions
  <1>5. PurgedIsEmpty'
    BY <1>0, <1>1 DEF PurgedIsEmpty
  <1>6. Admitted'
    BY <1>0, AdministeredAdmits
  <1>. QED  BY <1>1, <1>2, <1>3, <1>4, <1>5, <1>6

(* What a restoration keeps and closes has a row. *)
LEMMA RestoredHaveRows ==
  ASSUME NEW rows
  PROVE  /\ Kept(rows) \in SUBSET Item /\ RestoredClosed(rows) \in SUBSET Item
         /\ Kept(rows) \cap RestoredClosed(rows) = {}
         /\ \A i \in Kept(rows) \cup RestoredClosed(rows) : rows[i] # "none"
  BY UsersAssumption DEF Kept, RestoredClosed, LiveItems

LEMMA EndedWereLive ==
  ASSUME NEW rows
  PROVE  EndedByRestore(rows) \subseteq {i \in Item : row[i] # "none"}
  BY DEF EndedByRestore, LiveItems

LEMMA RestoreKeeps ==
  ASSUME UsersInv, NEW m \in Machine, RestoreMachine(m) PROVE UsersInv'
  <1>. USE DEF UsersInv
  <1>. DEFINE closed == RestoredClosed(snapshot)
              kept == Kept(snapshot)
              users == Owners(closed \cup kept)
              ended == EndedByRestore(snapshot)
              A == Active
  <1>0. /\ machine[m] = "loaded" /\ machine' = [machine EXCEPT ![m] = "up"]
        /\ user_map' = user_map \cup users /\ Touched(users) /\ Activated(kept)
        /\ item' = [i \in Item |-> IF i \in kept THEN "active"
                                   ELSE IF i \in closed THEN "final" ELSE item[i]]
        /\ finished' = [i \in Item |-> IF i \in closed THEN now ELSE finished[i]]
        /\ row' = [i \in Item |-> IF i \in ended THEN "final" ELSE row[i]]
        /\ snapshot' = [i \in Item |-> "none"]
        /\ UNCHANGED <<requestVars, now, counters>>
    BY DEF RestoreMachine, Loaded
  <1>1. /\ kept \in SUBSET Item /\ closed \in SUBSET Item /\ kept \cap closed = {}
        /\ \A i \in kept \cup closed : snapshot[i] # "none"
        /\ \A i \in ended : i \in Item /\ row[i] # "none"
    BY RestoredHaveRows, EndedWereLive
  <1>2. /\ users \in SUBSET User
        /\ \A i \in kept \cup closed : Owner[i] \in users
    BY <1>1, UsersAssumption DEF Owners
  <1>3. CountersAre(A)
    OBVIOUS
  <1>. HIDE DEF closed, kept, users, ended, A
  <1>4. \A i \in kept \cup closed :
          item[i] = "absent" /\ Of[i] = m /\ request[i] = "done"
    <2>1. \A i \in Item : Of[i] \in Machine
      BY UsersAssumption
    <2>. QED  BY <1>0, <1>1, <2>1 DEF Submissions, PurgedIsEmpty, OneUpdate
  <1>5. Active' = A \cup kept /\ A \in SUBSET Item
    BY <1>0, <1>1, <1>4 DEF A, Active, InMemory
  <1>6. A \cap kept = {}
    BY <1>4 DEF A, Active, InMemory
  <1>7. /\ active_items' \in [User -> Nat] /\ active_payload_bytes' \in [User -> Nat]
        /\ CountersBecome(A \cup kept)
        /\ \A u \in User : active_items'[u] = 0 => active_items[u] = 0
    BY <1>0, <1>1, <1>5, <1>3, <1>6, CountMore
  <1>8. TypeOK'
    <2>1. /\ item' \in [Item -> ItemState] /\ row' \in [Item -> RowState]
          /\ snapshot' \in [Item -> RowState] /\ machine' \in [Machine -> MachineState]
          /\ finished' \in [Item -> Time]
      BY <1>0 DEF TypeOK, ItemState, RowState, MachineState
    <2>2. idle_since' \in [User -> Time]
      BY <1>0 DEF Touched, TypeOK
    <2>3. user_map' \subseteq User
      BY <1>0, <1>2 DEF TypeOK
    <2>. QED  BY <1>0, <1>7, <2>1, <2>2, <2>3 DEF TypeOK
  <1>9. CountersAre(Active)'
    BY <1>5, <1>7, CountersFollow
  <1>10. IdleSince'
    <2>1. \A u \in User :
            /\ u \in users /\ active_items[u] = 0 => idle_since'[u] = now
            /\ idle_since'[u] = now \/ idle_since'[u] = idle_since[u]
      BY <1>0 DEF Touched
    <2>2. \A u \in User : active_items'[u] = 0 =>
            \/ idle_since'[u] = now
            \/ active_items[u] = 0 /\ idle_since'[u] = idle_since[u]
      BY <1>7, <2>1
    <2>3. ASSUME NEW i \in Item
          PROVE
           \/ item'[i] = item[i] /\ finished'[i] = finished[i]
           \/ item'[i] = "active" /\ finished'[i] = finished[i] /\ Owner[i] \in user_map'
           \/ /\ item'[i] = "final" /\ finished'[i] = now /\ Owner[i] \in user_map'
              /\ active_items'[Owner[i]] = 0 => idle_since'[Owner[i]] = now
      <3>1. CASE i \in kept
        BY <1>0, <1>1, <1>2, <3>1
      <3>2. CASE i \in closed
        <4>1. /\ item'[i] = "final" /\ finished'[i] = now /\ Owner[i] \in user_map'
              /\ Owner[i] \in users /\ Owner[i] \in User
          BY <1>0, <1>1, <1>2, <3>2
        <4>. QED  BY <1>7, <2>1, <4>1
      <3>3. CASE i \notin kept \cup closed
        BY <1>0, <3>3
      <3>. QED  BY <3>1, <3>2, <3>3
    <2>. QED  BY <1>0, <2>2, <2>3, IdleFollows
  <1>11. OneUpdate'
    BY <1>0 DEF OneUpdate, TypeOK
  <1>12. \A n \in Machine : machine'[n] = IF n = m THEN "up" ELSE machine[n]
    BY <1>0 DEF TypeOK
  <1>13. \A i \in Item : /\ i \notin kept \cup closed => item'[i] = item[i]
                         /\ row[i] = "none" => row'[i] = "none"
                         /\ snapshot'[i] = "none" /\ Of[i] \in Machine
    BY <1>0, <1>1, UsersAssumption
  <1>14. Submissions'
    BY <1>0, <1>4, <1>12, <1>13 DEF Submissions
  <1>15. PurgedIsEmpty'
    BY <1>4, <1>12, <1>13 DEF PurgedIsEmpty
  <1>16. Admitted'
    BY <1>0, AdministeredAdmits
  <1>. QED  BY <1>8, <1>9, <1>10, <1>11, <1>14, <1>15, <1>16

LEMMA CrashKeeps ==
  ASSUME UsersInv, Crash PROVE UsersInv'
  <1>. USE DEF UsersInv
  <1>. DEFINE closed == RestoredClosed(row)
              kept == Kept(row)
              ended == EndedByRestore(row)
              users == Owners(closed \cup kept)
  <1>0. /\ user_map' = users
        /\ active_items' = [u \in User |-> Cardinality(OwnedBy(u, kept))]
        /\ active_payload_bytes' = [u \in User |-> SumSize(OwnedBy(u, kept))]
        /\ idle_since' = [u \in User |-> IF u \in user_map' THEN now ELSE 0]
        /\ item' = [i \in Item |-> IF i \in kept THEN "active"
                                   ELSE IF i \in closed THEN "final" ELSE "absent"]
        /\ finished' = [i \in Item |-> IF i \in closed THEN now ELSE 0]
        /\ row' = [i \in Item |-> IF i \in ended THEN "final" ELSE row[i]]
        /\ request' = [i \in Item |-> IF request[i] = "idle" THEN "idle" ELSE "done"]
        /\ machine' = [m \in Machine |-> IF machine[m] = "removed" THEN "removed" ELSE "up"]
        /\ snapshot' = [i \in Item |-> "none"]
        /\ crashes < MaxCrashes /\ crashes' = crashes + 1
        /\ UNCHANGED <<resolved_at, now, updates>>
    BY Zenon DEF Crash
  <1>1. /\ kept \in SUBSET Item /\ closed \in SUBSET Item /\ kept \cap closed = {}
        /\ \A i \in kept \cup closed : row[i] # "none"
        /\ \A i \in ended : i \in Item /\ row[i] # "none"
    BY RestoredHaveRows, EndedWereLive
  <1>2. /\ users \in SUBSET User
        /\ \A i \in kept \cup closed : Owner[i] \in users
    BY <1>1, UsersAssumption DEF Owners
  <1>. HIDE DEF closed, kept, ended, users
  <1>3. \A u \in User : /\ Cardinality(OwnedBy(u, kept)) \in Nat
                        /\ SumSize(OwnedBy(u, kept)) \in Nat
    <2>1. \A u : OwnedBy(u, kept) \in SUBSET Item
      BY <1>1 DEF OwnedBy
    <2>. QED  BY <2>1, NumbersAreNatural
  <1>4. crashes' \in 0..MaxCrashes /\ crashes' # 0 /\ now \in Time /\ 0 \in Time
    BY <1>0, UsersAssumption DEF TypeOK, Time
  <1>5. TypeOK'
    <2>1. /\ active_items' \in [User -> Nat] /\ active_payload_bytes' \in [User -> Nat]
      BY <1>0, <1>3
    <2>2. /\ idle_since' \in [User -> Time] /\ finished' \in [Item -> Time]
      BY <1>0, <1>4
    <2>3. /\ item' \in [Item -> ItemState] /\ row' \in [Item -> RowState]
          /\ snapshot' \in [Item -> RowState] /\ machine' \in [Machine -> MachineState]
          /\ request' \in [Item -> RequestState]
      BY <1>0 DEF TypeOK, ItemState, RowState, MachineState, RequestState
    <2>. QED  BY <1>0, <1>2, <1>4, <2>1, <2>2, <2>3 DEF TypeOK
  <1>6. CountersAre(Active)'
    <2>1. CountersBecome(kept)
      BY <1>0 DEF CountersBecome
    <2>2. Active' = kept
      BY <1>0, <1>1 DEF Active, InMemory
    <2>. QED  BY <2>1, <2>2, CountersFollow
  <1>7. IdleSince'
    <2>. SUFFICES ASSUME NEW i \in Item
                  PROVE  /\ finished'[i] <= now /\ resolved_at[i] <= now
                         /\ item'[i] # "absent" => Owner[i] \in user_map'
                         /\ item'[i] = "final" => finished'[i] <= idle_since'[Owner[i]]
                         /\ request'[i] \notin {"resolved", "inserted"}
      BY <1>0 DEF IdleSince
    <2>1. /\ Owner[i] \in User /\ now \in Nat /\ resolved_at[i] <= now
          /\ finished'[i] = now \/ finished'[i] = 0
      BY <1>0, UsersAssumption DEF TypeOK, Time, IdleSince
    <2>2. item'[i] # "absent" => Owner[i] \in user_map' /\ idle_since'[Owner[i]] = now
      BY <1>0, <1>2, <2>1
    <2>3. finished'[i] <= now
      BY <2>1
    <2>. QED  BY <1>0, <2>1, <2>2, <2>3
  <1>8. OneUpdate'
    BY <1>0 DEF OneUpdate
  <1>9. Submissions'
    BY <1>0, <1>1 DEF Submissions
  <1>10. PurgedIsEmpty'
    <2>1. \A i \in Item : Of[i] \in Machine
      BY UsersAssumption
    <2>. QED  BY <1>0, <1>1, <2>1 DEF PurgedIsEmpty
  <1>11. Admitted'
    BY <1>4 DEF Admitted
  <1>. QED  BY <1>5, <1>6, <1>7, <1>8, <1>9, <1>10, <1>11

-----------------------------------------------------------------------------
(* The theorems. *)

LEMMA UsersInit == Init => UsersInv
  <1>. SUFFICES ASSUME Init PROVE UsersInv
    OBVIOUS
  <1>1. /\ user_map = {} /\ now = 0 /\ crashes = 0 /\ updates = 0
        /\ \A u \in User : active_items[u] = 0 /\ active_payload_bytes[u] = 0
        /\ \A i \in Item : /\ item[i] = "absent" /\ finished[i] = 0 /\ row[i] = "none"
                           /\ request[i] = "idle" /\ resolved_at[i] = 0
                           /\ snapshot[i] = "none"
        /\ \A m \in Machine : machine[m] = "up"
        /\ \A i \in Item : Of[i] \in Machine
    BY UsersAssumption DEF Init
  <1>2. TypeOK
    <2>1. 0 \in Time /\ 0 \in 0..MaxCrashes /\ 0 \in 0..MaxUpdates /\ 0 \in Nat
      BY UsersAssumption DEF Time
    <2>. QED
      BY <2>1 DEF Init, TypeOK, ItemState, RowState, RequestState, MachineState
  <1>3. CountersAre(Active)
    <2>1. \A u : OwnedBy(u, Active) = {}
      BY <1>1 DEF OwnedBy, Active, InMemory
    <2>. QED  BY <1>1, <2>1, NothingSums DEF CountersAre
  <1>4. OneUpdate /\ Submissions /\ PurgedIsEmpty
    BY <1>1 DEF OneUpdate, Submissions, PurgedIsEmpty
  <1>5. IdleSince /\ Admitted
    BY <1>1, UsersAssumption DEF IdleSince, Admitted
  <1>. QED  BY <1>2, <1>3, <1>4, <1>5 DEF UsersInv

LEMMA UsersStep ==
  ASSUME ~MayStraddle, UsersInv, [Next]_vars PROVE UsersInv'
  <1>1. CASE UNCHANGED vars
    <2>1. UNCHANGED <<userVars, itemVars, row, requestVars, machine, snapshot, now, counters>>
      BY <1>1 DEF vars
    <2>2. CountersAre(Active)'
      BY <2>1, CountersSame DEF UsersInv
    <2>. QED
      BY <2>1, <2>2 DEF UsersInv, TypeOK, OneUpdate, Submissions, PurgedIsEmpty, IdleSince,
                        Admitted
  <1>2. ASSUME NEW i \in Item, Submission(i) PROVE UsersInv'
    BY <1>2, ResolveKeeps, RowKeeps, AddKeeps DEF Submission
  <1>3. ASSUME NEW m \in Machine, Administration(m) PROVE UsersInv'
    BY <1>3, BeginKeeps, PurgeKeeps, RestoreKeeps DEF Administration
  <1>. QED
    BY <1>1, <1>2, <1>3, EndKeeps, RecordKeeps, EvictKeeps, TickKeeps, CrashKeeps DEF Next

LEMMA UsersInvariant ==
  ASSUME ~MayStraddle PROVE Spec => []UsersInv
  BY UsersInit, UsersStep, PTL DEF Spec

(* The counters and times of users have their types: no counter is released *)
(* below zero (task_deactivated, session_closed).                           *)
THEOREM UserTypes ==
  ASSUME ~MayStraddle PROVE Spec => []TypeOK
  BY UsersInvariant, PTL DEF UsersInv

(* The counters of a user are those of its active items in memory: every    *)
(* item is counted once when it is added or restored, and uncounted once,   *)
(* by its end, the purge of its machine or a restart of the service.        *)
THEOREM CountersStayExact ==
  ASSUME ~MayStraddle PROVE Spec => []CountersExact
  <1>1. UsersInv => CountersExact
    BY DEF UsersInv, CountersAre, CountersExact, Active
  <1>. QED  BY <1>1, UsersInvariant, PTL

(* The user of an item in memory is in memory: eviction drops a user a      *)
(* retention after its last item ended, and that item is dropped no later.  *)
THEOREM OwnersStayLoaded ==
  ASSUME ~MayStraddle PROVE Spec => []OwnersLoaded
  <1>1. UsersInv => OwnersLoaded
    BY DEF UsersInv, IdleSince, OwnersLoaded
  <1>. QED  BY <1>1, UsersInvariant, PTL

(* The user a submission asked for stays in memory for the retention        *)
(* (get_or_create_user, touch_by_name).                                     *)
THEOREM UsersAreKeptForSubmission ==
  ASSUME ~MayStraddle PROVE Spec => []KeptForSubmission
  <1>1. UsersInv => KeptForSubmission
    BY DEF UsersInv, IdleSince, KeptForSubmission
  <1>. QED  BY <1>1, UsersInvariant, PTL

(* Concurrent submissions cannot exceed a user's limits together, as        *)
(* add_task and add_session check them again (check_user_limits).           *)
THEOREM LimitsAlwaysHold ==
  ASSUME ~MayStraddle PROVE Spec => []LimitsHold
  <1>1. UsersInv => LimitsHold
    BY DEF UsersInv, Admitted, CountersAre, LimitsHold, Active
  <1>. QED  BY <1>1, UsersInvariant, PTL

=============================================================================
