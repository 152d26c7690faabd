--------------------------- MODULE FairShareProofs ---------------------------
(* Theorems about FairShare, for any users, machine size and times.         *)
EXTENDS FairShare, FiniteSetTheorems, TLAPS

(* What the proof needs of the types: EXCEPT is about users, and counts are *)
(* numbers.                                                                 *)
Shape ==
  /\ submitted_tasks \in [User -> Int]
  /\ queue = [u \in User |-> queue[u]]

Inv == Shape /\ EntryIsKept

(* Restoration makes nothing of an empty queue.                             *)
LEMMA RequeuedEmpty == Requeued(<<>>) = <<>>
  BY DEF Requeued

LEMMA InitInv == Init => Inv
  BY SMT DEF Init, Inv, Shape, EntryIsKept

(* Decay keeps the users with work.                                         *)
LEMMA KeptHasWork ==
  ASSUME EntryIsKept, NEW d, NEW u \in User,
         submitted_tasks[u] > 0 \/ queue[u] # <<>>
  PROVE  u \in Kept(d)
  BY DEF EntryIsKept, Kept

LEMMA PopInv ==
  ASSUME Inv, NEW u \in User, Pop(u), UNCHANGED queues,
         submitted_tasks' \in [User -> Int],
         \A v \in User : v # u => submitted_tasks'[v] = submitted_tasks[v]
  PROVE  Inv'
  <1>1. u \in queues
    BY DEF Inv, EntryIsKept, Pop, IsNext, Waiting
  <1>2. Shape'
    BY DEF Inv, Shape, Pop
  <1>3. \A v \in User : v # u => queue'[v] = queue[v]
    BY DEF Inv, Shape, Pop
  <1>4. EntryIsKept'
    BY <1>1, <1>3 DEF Inv, EntryIsKept
  <1> QED
    BY <1>2, <1>4 DEF Inv

LEMMA ByUserInv ==
  ASSUME Inv, NEW u \in User, ByUser(u)
  PROVE  Inv'
  <1>1. CASE \E kind \in Kind : Queue(u, kind)
    BY <1>1 DEF Queue, entry, Inv, Shape, EntryIsKept
  <1>2. CASE \E i \in DOMAIN queue[u] : RemoveQueued(u, i)
    <2>1. PICK i \in DOMAIN queue[u] : RemoveQueued(u, i)
      BY <1>2
    <2>2. queue[u] # <<>>
      BY <2>1
    <2>3. Shape' /\ \A v \in User : v # u => queue'[v] = queue[v]
      BY <2>1 DEF RemoveQueued, entry, Inv, Shape
    <2> QED
      BY <2>1, <2>2, <2>3 DEF RemoveQueued, entry, Inv, EntryIsKept
  <1>3. CASE SubmitTask(u)
    BY <1>3, PopInv DEF SubmitTask, Inv, Shape
  <1>4. CASE FailTask(u)
    BY <1>4, PopInv DEF FailTask, entry, Inv, Shape
  <1>5. CASE OpenSession(u)
    BY <1>5, PopInv DEF OpenSession, entry, Inv, Shape
  <1>6. ASSUME NEW e \in ExecTime \cup {0}, NEW d \in DecayBy, FinishTask(u, e, d)
        PROVE  Inv'
    <2>1. Shape'
      BY <1>6 DEF FinishTask, Inv, Shape
    <2>2. \A v \in User : submitted_tasks'[v] > 0 => submitted_tasks[v] > 0
      BY <1>6 DEF FinishTask, Inv, Shape
    <2>3. queue' = queue /\ queues' = Kept(d)
      BY <1>6 DEF FinishTask
    <2> QED
      BY <2>1, <2>2, <2>3, KeptHasWork DEF Inv, EntryIsKept
  <1>7. ASSUME NEW e \in ExecTime \cup {0}, NEW d \in DecayBy, CloseSession(u, e, d)
        PROVE  Inv'
    <2>1. queues' = Kept(d) \cup {u} /\ UNCHANGED <<submitted_tasks, queue>>
      BY <1>7 DEF CloseSession
    <2> QED
      BY <2>1, KeptHasWork DEF Inv, Shape, EntryIsKept
  <1> QED
    BY <1>1, <1>2, <1>3, <1>4, <1>5, <1>6, <1>7 DEF ByUser

(* A restoration that keeps the entries of users with work.                 *)
LEMMA RequeuedInv ==
  ASSUME Inv, UNCHANGED submitted_tasks,
         queue' = [u \in User |-> Requeued(queue[u])],
         \A u \in User : submitted_tasks[u] > 0 \/ queue[u] # <<>> => u \in queues'
  PROVE  Inv'
  <1>1. Shape'
    BY DEF Inv, Shape
  <1>2. \A u \in User : queue'[u] # <<>> => queue[u] # <<>>
    BY RequeuedEmpty
  <1> QED
    BY <1>1, <1>2 DEF Inv, EntryIsKept

LEMMA NextInv == Inv /\ [Next]_vars => Inv'
  <1> SUFFICES ASSUME Inv, [Next]_vars PROVE Inv'
    OBVIOUS
  <1>1. ASSUME NEW u \in User, ByUser(u) PROVE Inv'
    BY <1>1, ByUserInv
  <1>2. CASE TakeQueuedItems
    BY <1>2 DEF TakeQueuedItems, entry, Inv, Shape, EntryIsKept
  <1>3. ASSUME NEW e, NEW d, Reconfigure(e, d) PROVE Inv'
    <2>1. \A u \in User : submitted_tasks[u] > 0 \/ queue[u] # <<>> => u \in queues'
      BY <1>3, KeptHasWork DEF Reconfigure, Inv
    <2> QED
      BY <1>3, <2>1, RequeuedInv DEF Reconfigure
  <1>4. ASSUME NEW e, Restart(e) PROVE Inv'
    BY <1>4, RequeuedInv DEF Restart
  <1>5. CASE UNCHANGED vars
    BY <1>5 DEF vars, entry, Inv, Shape, EntryIsKept
  <1> QED
    BY <1>1, <1>2, <1>3, <1>4, <1>5 DEF Next

(* A user with work queued or at the backend has an entry, through decay,   *)
(* reconfiguration and restart: record_finished_task_in_backend finds it.   *)
THEOREM EntriesAreKept == Spec => []EntryIsKept
  <1>1. Inv => EntryIsKept
    BY DEF Inv
  <1> QED
    BY InitInv, NextInv, <1>1, PTL DEF Spec

-----------------------------------------------------------------------------
(* The lag of a user. *)

(* The tasks a user has at the backend are charged in advance, each with    *)
(* what a slot is worth at most: of two users that are always waiting, none *)
(* is ahead by more than all slots, even if all it has at the backend takes *)
(* that long.  The owner of a session is not ahead when it opens.           *)
LagTypes ==
  /\ usage \in [User -> Nat] /\ submitted_tasks \in [User -> 0..queue_size]
  /\ average_usage \in [User -> (0..Slot) \cup {Unknown}]
  /\ queue = [u \in User |-> queue[u]]

Alone == session_owner # {} => \A u \in User : submitted_tasks[u] = 0

Ahead(u, v) ==
  usage[u] + submitted_tasks[u] * Slot <= usage[v] + queue_size * Slot

LagInv ==
  /\ LagTypes /\ Alone /\ busy \subseteq Waiting
  /\ \A u, v \in busy : Ahead(u, v)
  /\ \A u \in session_owner \cap busy, v \in busy : usage[u] <= usage[v]

(* All times a machine charges are at most a slot's.                        *)
LEMMA SlotIsLongest ==
  /\ Slot \in Nat \ {0} /\ TASK_AVERAGE_PLACEHOLDER <= Slot
  /\ \A e \in ExecTime \cup {0} : e \in Nat /\ e <= Slot
  <1>. DEFINE times == ExecTime \cup {TASK_AVERAGE_PLACEHOLDER}
  <1>1. times \subseteq Nat
    BY FairShareAssumption DEF FairShareAssumption
  <1>2. PICK longest \in ExecTime : \A e \in ExecTime : e <= longest
    BY FairShareAssumption DEF FairShareAssumption
  <1>3. \E x \in times : \A y \in times : x >= y
    <2>1. CASE longest >= TASK_AVERAGE_PLACEHOLDER
      BY <1>1, <1>2, <2>1
    <2>2. CASE ~(longest >= TASK_AVERAGE_PLACEHOLDER)
      <3>1. \A y \in times : TASK_AVERAGE_PLACEHOLDER >= y
        BY <1>1, <1>2, <2>2
      <3>. QED  BY <3>1
    <2>. QED  BY <2>1, <2>2
  <1>4. Slot = CHOOSE x \in times : \A y \in times : x >= y
    BY DEF Slot, Max
  <1>5. Slot \in times /\ \A y \in times : Slot >= y
    BY <1>3, <1>4
  <1>. QED
    BY <1>1, <1>5, FairShareAssumption DEF FairShareAssumption

LEMMA Product ==
  ASSUME NEW k \in Nat, NEW a \in Nat, NEW b \in Nat
  PROVE  /\ k * b \in Nat /\ (k + 1) * b = k * b + b /\ 0 * b = 0 /\ (a + k) * b = a * b + k * b
         /\ a <= b => k * a <= k * b
         /\ k <= a => k * b <= a * b
  BY SMT

LEMMA Division ==
  ASSUME NEW x \in Nat, NEW d \in Nat \ {0}
  PROVE  x \div d \in Nat /\ d * (x \div d) <= x /\ x < d * (x \div d) + d
  BY SMT

(* Decay never makes a lag larger. *)
LEMMA DecayOfLag ==
  ASSUME NEW x \in Nat, NEW y \in Nat, NEW r \in Nat, NEW d \in Nat \ {0}, x <= y + r
  PROVE  x \div d \in Nat /\ y \div d \in Nat /\ x \div d <= y \div d + r
  <1>. DEFINE p == x \div d
              q == y \div d
  <1>1. p \in Nat /\ q \in Nat /\ d * p <= x /\ y < d * q + d
    BY Division
  <1>. HIDE DEF p, q
  <1>2. ASSUME p > q + r PROVE FALSE
    <2>1. p >= (q + r) + 1
      BY <1>1, <1>2
    <2>2. d * p >= d * ((q + r) + 1)
      BY <1>1, <2>1, Product
    <2>3. d * ((q + r) + 1) = d * q + d * r + d
      BY <1>1
    <2>4. d * r >= r
      BY Product
    <2>5. d * p \in Int /\ d * q \in Int /\ d * r \in Int
      BY <1>1
    <2>. QED  BY <1>1, <2>2, <2>3, <2>4, <2>5
  <1>. QED  BY <1>1, <1>2 DEF p, q

(* A moving average of times within a bound is within it.                   *)
LEMMA AverageInBound ==
  ASSUME LagTypes, NEW u \in User, NEW e \in 0..Slot
  PROVE  Averaged(u, e) \in 0..Slot
  <1>1. CASE average_usage[u] = Unknown
    BY <1>1 DEF Averaged
  <1>2. CASE average_usage[u] # Unknown
    <2>. DEFINE a == average_usage[u]
                x == e + (Weight - 1) * a
                p == x \div Weight
    <2>1. /\ a \in Nat /\ a <= Slot /\ Slot \in Nat /\ Weight \in Nat \ {0} /\ Weight - 1 \in Nat
      BY <1>2, SlotIsLongest, FairShareAssumption DEF LagTypes, FairShareAssumption
    <2>2. Averaged(u, e) = p
      BY <1>2 DEF Averaged
    <2>. HIDE DEF a
    <2>3. x \in Nat /\ x <= Weight * Slot
      <3>1. (Weight - 1) * a \in Nat /\ (Weight - 1) * a <= (Weight - 1) * Slot
        BY <2>1, Product
      <3>2. Weight * Slot = (Weight - 1) * Slot + Slot /\ (Weight - 1) * Slot \in Nat
        BY <2>1
      <3>. QED  BY <2>1, <3>1, <3>2
    <2>. HIDE DEF x
    <2>4. p \in Nat /\ Weight * p <= x
      BY <2>1, <2>3, Division
    <2>. HIDE DEF p
    <2>5. ASSUME p > Slot PROVE FALSE
      <3>1. Weight * p >= Weight * (Slot + 1) /\ Weight * (Slot + 1) = Weight * Slot + Weight
        BY <2>1, <2>4, <2>5, Product
      <3>2. Weight * Slot \in Int /\ Weight * p \in Int
        BY <2>1, <2>4
      <3>. QED  BY <2>1, <2>3, <2>4, <3>1, <3>2
    <2>. QED  BY <2>1, <2>2, <2>4, <2>5
  <1>. QED  BY <1>1, <1>2

-----------------------------------------------------------------------------
(* The tasks at the backend. *)

LEMMA UpTo ==
  ASSUME NEW n \in Nat PROVE IsFiniteSet(1..n) /\ Cardinality(1..n) = n
  <1>1. 1 \in Int /\ n \in Int /\ (IF 1 > n THEN 0 ELSE n - 1 + 1) = n
    OBVIOUS
  <1>2. /\ IsFiniteSet(1..n)
        /\ Cardinality(1..n) = IF 1 > n THEN 0 ELSE n - 1 + 1
    BY <1>1, FS_Interval, Zenon
  <1>. QED  BY <1>1, <1>2

LEMMA AssignedToOne ==
  ASSUME LagTypes, NEW u \in User
  PROVE  /\ IsFiniteSet(Assigned({u}))
         /\ Cardinality(Assigned({u})) = submitted_tasks[u]
  <1>. DEFINE one   == {u}
              tasks == 1..submitted_tasks[u]
  <1>1. submitted_tasks[u] \in Nat
    BY FairShareAssumption DEF LagTypes, FairShareAssumption
  <1>2. /\ IsFiniteSet(one) /\ IsFiniteSet(tasks)
        /\ Cardinality(one) = 1 /\ Cardinality(tasks) = submitted_tasks[u]
    BY <1>1, FS_Singleton, UpTo, Zenon
  <1>3. Assigned({u}) = one \X tasks
    BY DEF Assigned
  <1>. HIDE DEF one, tasks
  <1>4. /\ IsFiniteSet(one \X tasks)
        /\ Cardinality(one \X tasks) = Cardinality(one) * Cardinality(tasks)
    BY <1>2, FS_Product
  <1>5. Cardinality(one \X tasks) = 1 * submitted_tasks[u]
    BY <1>2, <1>4
  <1>6. Cardinality(one \X tasks) = submitted_tasks[u]
    BY <1>1, <1>5
  <1>. QED  BY <1>3, <1>4, <1>6

LEMMA AllAssigned ==
  ASSUME LagTypes
  PROVE  IsFiniteSet(Assigned(User)) /\ SubmittedTasks \in Nat
  <1>. DEFINE of  == [u \in User |-> Assigned({u})]
              all == {of[u] : u \in User}
  <1>1. of \in Surjection(User, all)
    BY DEF Surjection
  <1>2. IsFiniteSet(all)
    BY <1>1, FairShareAssumption, FS_Surjection DEF FairShareAssumption
  <1>3. \A u \in User : IsFiniteSet(of[u])
    BY AssignedToOne
  <1>4. IsFiniteSet(UNION all)
    BY <1>2, <1>3, FS_UNION
  <1>5. Assigned(User) = UNION all
    BY DEF Assigned
  <1>. QED  BY <1>4, <1>5, FS_CardinalityType DEF SubmittedTasks

(* Two users have no more tasks at the backend than there are.              *)
LEMMA SlotsOfTwo ==
  ASSUME LagTypes, NEW u \in User, NEW v \in User, u # v
  PROVE  submitted_tasks[u] + submitted_tasks[v] <= SubmittedTasks
  <1>. DEFINE A == Assigned({u})
              B == Assigned({v})
  <1>1. /\ IsFiniteSet(A) /\ Cardinality(A) = submitted_tasks[u]
        /\ IsFiniteSet(B) /\ Cardinality(B) = submitted_tasks[v]
    BY AssignedToOne
  <1>2. A \cap B = {} /\ A \cup B \in SUBSET Assigned(User)
    BY DEF Assigned
  <1>3. Cardinality(A \cup B) <= SubmittedTasks
    BY <1>2, AllAssigned, FS_Subset DEF SubmittedTasks
  <1>. HIDE DEF A, B
  <1>4. Cardinality(A \cup B) = Cardinality(A) + Cardinality(B) - Cardinality(A \cap B)
    BY <1>1, FS_Union
  <1>5. Cardinality(A \cap B) = 0
    BY <1>2, FS_EmptySet
  <1>6. submitted_tasks[u] \in Nat /\ submitted_tasks[v] \in Nat
    BY FairShareAssumption DEF LagTypes, FairShareAssumption
  <1>. QED  BY <1>1, <1>3, <1>4, <1>5, <1>6

LEMMA SlotsOfOne ==
  ASSUME LagTypes, NEW u \in User
  PROVE  submitted_tasks[u] <= SubmittedTasks
  <1>1. Assigned({u}) \in SUBSET Assigned(User)
    BY DEF Assigned
  <1>. QED  BY <1>1, AssignedToOne, AllAssigned, FS_Subset DEF SubmittedTasks

LEMMA EffectiveAtMost ==
  ASSUME LagTypes, NEW u \in User
  PROVE  /\ usage[u] \in Nat /\ submitted_tasks[u] \in Nat /\ submitted_tasks[u] <= queue_size
         /\ submitted_tasks[u] * Slot \in Nat /\ queue_size * Slot \in Nat
         /\ submitted_tasks[u] * Slot <= queue_size * Slot
         /\ EffectiveUsage(u) \in Nat /\ usage[u] <= EffectiveUsage(u)
         /\ EffectiveUsage(u) <= usage[u] + submitted_tasks[u] * Slot
  <1>. DEFINE k == submitted_tasks[u]
              a == IF average_usage[u] = Unknown THEN TASK_AVERAGE_PLACEHOLDER
                                                 ELSE average_usage[u]
  <1>1. usage[u] \in Nat /\ k \in Nat /\ k <= queue_size /\ Slot \in Nat /\ queue_size \in Nat
    BY SlotIsLongest, FairShareAssumption DEF LagTypes, FairShareAssumption
  <1>2. a \in Nat /\ a <= Slot
    <2>1. CASE average_usage[u] = Unknown
      BY <2>1, SlotIsLongest, FairShareAssumption DEF FairShareAssumption
    <2>2. CASE average_usage[u] # Unknown
      BY <2>2, SlotIsLongest DEF LagTypes
    <2>. QED  BY <2>1, <2>2
  <1>3. EffectiveUsage(u) = usage[u] + k * a
    BY DEF EffectiveUsage
  <1>. HIDE DEF a
  <1>4. k * a \in Nat /\ k * a <= k * Slot /\ k * Slot \in Nat /\ queue_size * Slot \in Nat
        /\ k * Slot <= queue_size * Slot
    BY <1>1, <1>2, Product
  <1>. QED  BY <1>1, <1>3, <1>4

(* Who is served next is ahead of nobody that waits, except by what that    *)
(* one has at the backend.                                                  *)
LEMMA NextIsNotAhead ==
  ASSUME LagInv, NEW u \in User, IsNext(u), NEW v \in busy
  PROVE  v \in User /\ usage[u] <= usage[v] + submitted_tasks[v] * Slot
  <1>1. v \in Waiting /\ v \in User
    BY DEF LagInv, Waiting
  <1>2. EffectiveUsage(u) < EffectiveUsage(v) \/ EffectiveUsage(u) = EffectiveUsage(v)
    BY <1>1 DEF IsNext
  <1>3. /\ usage[u] \in Nat /\ EffectiveUsage(u) \in Nat /\ usage[u] <= EffectiveUsage(u)
        /\ usage[v] \in Nat /\ EffectiveUsage(v) \in Nat /\ submitted_tasks[v] * Slot \in Nat
        /\ EffectiveUsage(v) <= usage[v] + submitted_tasks[v] * Slot
    BY <1>1, EffectiveAtMost DEF LagInv
  <1>. QED  BY <1>1, <1>2, <1>3

(* The users that are always waiting become fewer.                          *)
LEMMA BusyWait ==
  ASSUME LagInv, StayBusy, queue' = [u \in User |-> queue'[u]]
  PROVE  busy' \subseteq busy /\ busy' \subseteq Waiting' /\ busy \subseteq User
  BY DEF LagInv, StayBusy, Waiting

(* Steps that change queues only.                                           *)
LEMMA LagSame ==
  ASSUME LagInv, StayBusy, queue' = [u \in User |-> queue'[u]],
         UNCHANGED <<entry, session_owner>>
  PROVE  LagInv'
  <1>1. busy' \subseteq busy /\ busy' \subseteq Waiting'
    BY BusyWait
  <1>2. UNCHANGED <<usage, average_usage, submitted_tasks>>
    BY DEF entry
  <1>. QED
    BY <1>1, <1>2 DEF LagInv, LagTypes, Alone, Ahead

LEMMA SubmitKeepsLag ==
  ASSUME LagInv, StayBusy, NEW u \in User, SubmitTask(u)
  PROVE  LagInv'
  <1>1. LagTypes /\ Alone /\ busy \subseteq User
    BY DEF LagInv, Waiting
  <1>2. /\ IsNext(u) /\ session_owner = {} /\ SubmittedTasks < queue_size
        /\ queue' = [queue EXCEPT ![u] = Tail(@)]
        /\ submitted_tasks' = [submitted_tasks EXCEPT ![u] = @ + 1]
        /\ UNCHANGED <<usage, average_usage, session_owner>>
    BY DEF SubmitTask, Pop
  <1>3. SubmittedTasks \in Nat /\ queue_size \in Nat /\ Slot \in Nat
    BY <1>1, AllAssigned, SlotIsLongest, FairShareAssumption DEF FairShareAssumption
  <1>4. submitted_tasks[u] \in Nat /\ submitted_tasks[u] < queue_size
    BY <1>1, <1>2, <1>3, SlotsOfOne, EffectiveAtMost
  <1>5. LagTypes'
    <2>1. submitted_tasks' \in [User -> 0..queue_size]
      BY <1>1, <1>2, <1>3, <1>4 DEF LagTypes
    <2>2. queue' = [v \in User |-> queue'[v]]
      BY <1>1, <1>2 DEF LagTypes
    <2>. QED  BY <1>1, <1>2, <2>1, <2>2 DEF LagTypes
  <1>6. busy' \subseteq busy /\ busy' \subseteq Waiting'
    BY <1>5, BusyWait DEF LagTypes
  <1>7. ASSUME NEW v \in busy PROVE Ahead(u, v)'
    <2>. DEFINE k == submitted_tasks[u]
                l == submitted_tasks[v]
    <2>1. /\ usage[u] \in Nat /\ usage[v] \in Nat /\ l \in Nat /\ v \in User
      BY <1>1, EffectiveAtMost
    <2>2. submitted_tasks'[u] = k + 1
      BY <1>1, <1>2 DEF LagTypes
    <2>3. CASE v = u
      <3>1. (k + 1) * Slot <= queue_size * Slot
            /\ (k + 1) * Slot \in Nat /\ queue_size * Slot \in Nat
        BY <1>3, <1>4, Product
      <3>. QED  BY <1>2, <2>1, <2>2, <2>3, <3>1 DEF Ahead
    <2>4. CASE v # u
      <3>1. k + l + 1 <= queue_size
        BY <1>1, <1>2, <1>3, <1>4, <2>1, <2>4, SlotsOfTwo
      <3>2. usage[u] <= usage[v] + l * Slot
        BY <1>2, NextIsNotAhead
      <3>3. /\ l * Slot \in Nat /\ (k + 1) * Slot \in Nat /\ queue_size * Slot \in Nat
            /\ l * Slot + (k + 1) * Slot <= queue_size * Slot
        <4>1. k + 1 \in Nat /\ l + (k + 1) \in Nat /\ l + (k + 1) <= queue_size
          BY <1>4, <2>1, <3>1
        <4>. DEFINE m == k + 1
        <4>. HIDE DEF k, l, m
        <4>2. (l + m) * Slot = l * Slot + m * Slot
          BY <1>3, <2>1, <4>1, Product DEF m
        <4>3. (l + m) * Slot <= queue_size * Slot
          BY <1>3, <4>1, Product DEF m
        <4>4. l * Slot \in Nat /\ m * Slot \in Nat /\ queue_size * Slot \in Nat
          BY <1>3, <2>1, <4>1, Product DEF m
        <4>. QED  BY <4>2, <4>3, <4>4 DEF m
      <3>. QED  BY <1>2, <2>1, <2>2, <3>2, <3>3 DEF Ahead
    <2>. QED  BY <2>3, <2>4
  <1>8. ASSUME NEW w \in busy, NEW v \in busy, w # u PROVE Ahead(w, v)'
    <2>1. submitted_tasks'[w] = submitted_tasks[w]
      BY <1>1, <1>2, <1>8 DEF LagTypes
    <2>. QED  BY <1>2, <2>1 DEF LagInv, Ahead
  <1>. QED
    BY <1>2, <1>5, <1>6, <1>7, <1>8 DEF LagInv, Alone

(* A session opens for a user that is next, when all slots are free.        *)
LEMMA OpenKeepsLag ==
  ASSUME LagInv, StayBusy, NEW u \in User, OpenSession(u)
  PROVE  LagInv'
  <1>1. LagTypes /\ busy \subseteq User /\ Slot \in Nat
    BY SlotIsLongest DEF LagInv, Waiting
  <1>2. /\ IsNext(u) /\ SubmittedTasks = 0 /\ session_owner' = {u}
        /\ queue' = [queue EXCEPT ![u] = Tail(@)]
        /\ UNCHANGED <<usage, average_usage, submitted_tasks>>
    BY DEF OpenSession, Pop, NoAssignments, entry
  <1>3. \A v \in User : submitted_tasks[v] = 0
    BY <1>1, <1>2, SlotsOfOne, EffectiveAtMost
  <1>4. \A v \in busy : usage[u] <= usage[v]
    <2>. SUFFICES ASSUME NEW v \in busy PROVE usage[u] <= usage[v]
      OBVIOUS
    <2>1. v \in User /\ usage[u] <= usage[v] + submitted_tasks[v] * Slot /\ usage[v] \in Nat
      BY <1>1, <1>2, NextIsNotAhead, EffectiveAtMost
    <2>2. submitted_tasks[v] * Slot = 0
      BY <1>1, <1>3, <2>1, Product
    <2>. QED  BY <2>1, <2>2
  <1>5. LagTypes'
    BY <1>1, <1>2 DEF LagTypes
  <1>6. busy' \subseteq busy /\ busy' \subseteq Waiting'
    BY <1>5, BusyWait DEF LagTypes
  <1>. QED
    BY <1>2, <1>3, <1>4, <1>5, <1>6 DEF LagInv, Alone, Ahead

(* Usage decays; the users charged have given a slot or a session back.     *)
LEMMA ChargeKeepsLag ==
  ASSUME LagInv, StayBusy, LagTypes', session_owner' = {},
         NEW d \in DecayBy, NEW e \in ExecTime \cup {0}, NEW charged,
         \A u \in User : usage'[u] = Decayed(d)[u] + (IF u \in charged THEN e ELSE 0),
         \A u \in User : \/ u \notin charged /\ submitted_tasks'[u] = submitted_tasks[u]
                         \/ submitted_tasks[u] = submitted_tasks'[u] + 1
                         \/ u \in session_owner /\ submitted_tasks'[u] = 0
  PROVE  LagInv'
  <1>1. /\ LagTypes /\ busy \subseteq User /\ Slot \in Nat /\ queue_size \in Nat \ {0}
        /\ e \in Nat /\ e <= Slot /\ d \in Nat \ {0}
    BY SlotIsLongest, FairShareAssumption DEF LagInv, Waiting, FairShareAssumption
  <1>2. busy' \subseteq busy /\ busy' \subseteq Waiting'
    BY BusyWait DEF LagTypes
  <1>3. ASSUME NEW u \in busy, NEW v \in busy PROVE Ahead(u, v)'
    <2>. DEFINE k == submitted_tasks[u]
                l == submitted_tasks'[u]
                p == usage[u] \div d
                q == usage[v] \div d
    <2>1. /\ u \in User /\ v \in User /\ usage[u] \in Nat /\ usage[v] \in Nat
          /\ k \in Nat /\ l \in Nat /\ k <= queue_size
      BY <1>1, EffectiveAtMost, FairShareAssumption DEF LagTypes, FairShareAssumption
    <2>2. p \in Nat /\ q \in Nat
      BY <1>1, <2>1, Division
    <2>3. usage'[u] = p + (IF u \in charged THEN e ELSE 0) /\ usage'[v] \in Nat /\ usage'[v] >= q
      BY <1>1, <2>1, <2>2 DEF Decayed
    <2>4. /\ k * Slot \in Nat /\ l * Slot \in Nat /\ queue_size * Slot \in Nat
          /\ k * Slot <= queue_size * Slot /\ Slot <= queue_size * Slot
      <3>. HIDE DEF k, l
      <3>1. k * Slot \in Nat /\ l * Slot \in Nat /\ queue_size * Slot \in Nat
        BY <1>1, <2>1, Product
      <3>2. k * Slot <= queue_size * Slot
        BY <1>1, <2>1, Product
      <3>3. 1 * Slot <= queue_size * Slot /\ 1 * Slot = Slot
        BY <1>1, Product
      <3>. QED  BY <3>1, <3>2, <3>3
    <2>5. p + k * Slot <= q + queue_size * Slot
      <3>. DEFINE r == queue_size * Slot - k * Slot
      <3>1. r \in Nat /\ usage[u] <= usage[v] + r
        BY <1>3, <2>1, <2>4 DEF LagInv, Ahead
      <3>. HIDE DEF r
      <3>2. p <= q + r
        BY <1>1, <2>1, <3>1, DecayOfLag
      <3>. QED  BY <2>2, <2>4, <3>1, <3>2 DEF r
    <2>6. CASE u \notin charged /\ l = k
      BY <2>2, <2>3, <2>4, <2>5, <2>6 DEF Ahead
    <2>7. CASE k = l + 1
      <3>1. k * Slot = l * Slot + Slot
        BY <1>1, <2>1, <2>7, Product
      <3>2. usage'[u] \in Nat /\ usage'[u] <= p + Slot
        BY <1>1, <2>2, <2>3
      <3>. QED  BY <1>1, <2>2, <2>3, <2>4, <2>5, <3>1, <3>2 DEF Ahead
    <2>8. CASE u \in session_owner /\ l = 0
      <3>1. usage[u] <= usage[v] + 0
        BY <1>3, <2>1, <2>8 DEF LagInv
      <3>2. p <= q + 0
        BY <1>1, <2>1, <3>1, DecayOfLag
      <3>3. usage'[u] \in Nat /\ usage'[u] <= p + Slot
        BY <1>1, <2>2, <2>3
      <3>4. l * Slot = 0
        BY <1>1, <2>8, Product
      <3>. QED  BY <1>1, <2>2, <2>3, <2>4, <3>2, <3>3, <3>4 DEF Ahead
    <2>. QED  BY <2>1, <2>6, <2>7, <2>8
  <1>. QED
    BY <1>2, <1>3 DEF LagInv, Alone

LEMMA DecayedTypes ==
  ASSUME LagTypes, NEW d \in DecayBy
  PROVE  /\ Decayed(d) \in [User -> Nat]
         /\ Default(average_usage, Unknown, d) \in [User -> (0..Slot) \cup {Unknown}]
  <1>1. d \in Nat \ {0}
    BY FairShareAssumption DEF FairShareAssumption
  <1>2. Decayed(d) \in [User -> Nat]
    BY <1>1, Division DEF Decayed, LagTypes
  <1>. QED  BY <1>2 DEF Default, LagTypes

LEMMA ChargedOne ==
  ASSUME NEW f \in [User -> Nat], NEW u \in User, NEW e \in ExecTime \cup {0},
         NEW g, g = [f EXCEPT ![u] = @ + e]
  PROVE  /\ g \in [User -> Nat]
         /\ \A v \in User : g[v] = f[v] + (IF v \in {u} THEN e ELSE 0)
  <1>1. e \in Nat
    BY SlotIsLongest
  <1>2. ASSUME NEW v \in User
        PROVE  g[v] \in Nat /\ g[v] = f[v] + (IF v \in {u} THEN e ELSE 0)
    <2>1. CASE v = u
      BY <1>1, <2>1
    <2>2. CASE v # u
      BY <2>2
    <2>. QED  BY <2>1, <2>2
  <1>3. g = [v \in User |-> g[v]]
    OBVIOUS
  <1>. QED  BY <1>2, <1>3

LEMMA FinishKeepsLag ==
  ASSUME LagInv, StayBusy, NEW u \in User, NEW e \in ExecTime \cup {0}, NEW d \in DecayBy,
         FinishTask(u, e, d)
  PROVE  LagInv'
  <1>1. LagTypes /\ submitted_tasks[u] \in Nat /\ e \in 0..Slot
    BY EffectiveAtMost, SlotIsLongest DEF LagInv
  <1>2. /\ submitted_tasks[u] > 0 /\ session_owner' = session_owner /\ queue' = queue
        /\ usage' = [Decayed(d) EXCEPT ![u] = @ + e]
        /\ average_usage' = [Default(average_usage, Unknown, d) EXCEPT ![u] =
                               IF e > 0 THEN Averaged(u, e) ELSE @]
        /\ submitted_tasks' = [submitted_tasks EXCEPT ![u] = @ - 1]
    BY DEF FinishTask
  <1>3. session_owner' = {}
    BY <1>2 DEF LagInv, Alone
  <1>4. /\ Decayed(d) \in [User -> Nat]
        /\ Default(average_usage, Unknown, d) \in [User -> (0..Slot) \cup {Unknown}]
    BY <1>1, DecayedTypes
  <1>5. /\ usage' \in [User -> Nat]
        /\ \A v \in User : usage'[v] = Decayed(d)[v] + (IF v \in {u} THEN e ELSE 0)
    <2>1. usage' = [Decayed(d) EXCEPT ![u] = @ + e]
      BY <1>2
    <2>2. Decayed(d) \in [User -> Nat]
      BY <1>4
    <2>. DEFINE f == Decayed(d)
                g == usage'
    <2>3. f \in [User -> Nat] /\ g = [f EXCEPT ![u] = @ + e]
      BY <2>1, <2>2
    <2>. HIDE DEF f, g
    <2>4. /\ g \in [User -> Nat]
          /\ \A v \in User : g[v] = f[v] + (IF v \in {u} THEN e ELSE 0)
      BY <2>3, ChargedOne
    <2>. QED  BY <2>4 DEF f, g
  <1>6. LagTypes'
    <2>1. average_usage' \in [User -> (0..Slot) \cup {Unknown}]
      BY <1>1, <1>2, <1>4, AverageInBound
    <2>2. submitted_tasks' \in [User -> 0..queue_size]
      BY <1>1, <1>2, FairShareAssumption DEF LagTypes, FairShareAssumption
    <2>. QED  BY <1>1, <1>2, <1>5, <2>1, <2>2 DEF LagTypes
  <1>7. \A v \in User : \/ v \notin {u} /\ submitted_tasks'[v] = submitted_tasks[v]
                        \/ submitted_tasks[v] = submitted_tasks'[v] + 1
    BY <1>1, <1>2 DEF LagTypes
  <1>. DEFINE charged == {u}
  <1>8. /\ \A v \in User : usage'[v] = Decayed(d)[v] + (IF v \in charged THEN e ELSE 0)
        /\ \A v \in User : \/ v \notin charged /\ submitted_tasks'[v] = submitted_tasks[v]
                           \/ submitted_tasks[v] = submitted_tasks'[v] + 1
                           \/ v \in session_owner /\ submitted_tasks'[v] = 0
    BY <1>5, <1>7
  <1>. HIDE DEF charged
  <1>. QED  BY <1>3, <1>6, <1>8, ChargeKeepsLag

(* A session is closed, by its end or by a reconfiguration.                 *)
LEMMA CloseKeepsLag ==
  ASSUME LagInv, StayBusy, NEW e \in ExecTime \cup {0}, NEW d \in DecayBy,
         session_owner' = {}, UNCHANGED submitted_tasks,
         queue' = [u \in User |-> queue'[u]],
         usage' \in [User -> Nat],
         \A u \in User : usage'[u] = Decayed(d)[u] + (IF u \in session_owner THEN e ELSE 0),
         average_usage' = Default(average_usage, Unknown, d)
  PROVE  LagInv'
  <1>1. LagTypes /\ e \in Nat
    BY SlotIsLongest DEF LagInv
  <1>2. /\ Decayed(d) \in [User -> Nat]
        /\ Default(average_usage, Unknown, d) \in [User -> (0..Slot) \cup {Unknown}]
    BY <1>1, DecayedTypes
  <1>3. LagTypes'
    BY <1>1, <1>2 DEF LagTypes
  <1>4. \A u \in User : \/ u \notin session_owner /\ submitted_tasks'[u] = submitted_tasks[u]
                        \/ u \in session_owner /\ submitted_tasks'[u] = 0
    BY DEF LagInv, Alone
  <1>. QED  BY <1>3, <1>4, ChargeKeepsLag

(* A start of the service knows no usage but that of a session it closes.   *)
LEMMA RestartKeepsLag ==
  ASSUME LagInv, StayBusy, NEW e \in ExecTime \cup {0}, Restart(e)
  PROVE  LagInv'
  <1>1. /\ LagTypes /\ busy \subseteq User /\ Slot \in Nat /\ queue_size \in Nat \ {0}
        /\ e \in Nat /\ e <= Slot
    BY SlotIsLongest, FairShareAssumption DEF LagInv, Waiting, FairShareAssumption
  <1>2. /\ session_owner' = {} /\ UNCHANGED submitted_tasks
        /\ usage' = [u \in User |-> IF u \in session_owner THEN e ELSE 0]
        /\ average_usage' = [u \in User |-> Unknown]
        /\ queue' = [u \in User |-> Requeued(queue[u])]
    BY DEF Restart
  <1>3. LagTypes'
    BY <1>1, <1>2 DEF LagTypes
  <1>4. busy' \subseteq busy /\ busy' \subseteq Waiting'
    BY <1>3, BusyWait DEF LagTypes
  <1>5. ASSUME NEW u \in busy, NEW v \in busy PROVE Ahead(u, v)'
    <2>1. /\ u \in User /\ v \in User /\ usage'[v] \in Nat /\ usage'[u] \in Nat
          /\ usage'[u] = IF u \in session_owner THEN e ELSE 0
      BY <1>1, <1>2
    <2>2. /\ submitted_tasks[u] * Slot \in Nat /\ queue_size * Slot \in Nat
          /\ submitted_tasks[u] * Slot <= queue_size * Slot
      BY <1>1, <2>1, EffectiveAtMost
    <2>3. CASE u \in session_owner
      <3>1. submitted_tasks[u] * Slot = 0
        BY <1>1, <2>1, <2>3, Product DEF LagInv, Alone
      <3>2. Slot <= queue_size * Slot
        BY <1>1, Product
      <3>. QED  BY <1>1, <1>2, <2>1, <2>2, <2>3, <3>1, <3>2 DEF Ahead
    <2>4. CASE u \notin session_owner
      BY <1>2, <2>1, <2>2, <2>4 DEF Ahead
    <2>. QED  BY <2>3, <2>4
  <1>. QED
    BY <1>2, <1>3, <1>4, <1>5 DEF LagInv, Alone

LEMMA LagInit == Init => LagInv
  <1>. SUFFICES ASSUME Init PROVE LagInv
    OBVIOUS
  <1>1. Slot \in Nat /\ queue_size \in Nat /\ queue_size * Slot \in Nat /\ 0 * Slot = 0
    BY SlotIsLongest, Product, FairShareAssumption DEF FairShareAssumption
  <1>2. LagTypes
    BY <1>1 DEF Init, LagTypes
  <1>3. Alone /\ busy \subseteq Waiting /\ session_owner = {}
    BY DEF Init, Alone, Waiting
  <1>4. \A u \in busy : u \in User /\ usage[u] = 0 /\ submitted_tasks[u] = 0
    BY DEF Init
  <1>5. \A u, v \in busy : Ahead(u, v)
    BY <1>1, <1>4 DEF Ahead
  <1>. QED  BY <1>2, <1>3, <1>5 DEF LagInv

LEMMA LagStep == LagInv /\ [Next]_vars => LagInv'
  <1>. SUFFICES ASSUME LagInv, [Next]_vars PROVE LagInv'
    OBVIOUS
  <1>1. LagTypes
    BY DEF LagInv
  <1>2. CASE UNCHANGED vars
    BY <1>2 DEF vars, entry, LagInv, LagTypes, Alone, Ahead, Waiting
  <1>3. ASSUME StayBusy, NEW u \in User, ByUser(u) PROVE LagInv'
    <2>1. CASE \E kind \in Kind : Queue(u, kind)
      BY <1>1, <1>3, <2>1, LagSame DEF Queue, LagTypes
    <2>2. CASE \E i \in DOMAIN queue[u] : RemoveQueued(u, i)
      BY <1>1, <1>3, <2>2, LagSame DEF RemoveQueued, LagTypes
    <2>3. CASE SubmitTask(u)
      BY <1>3, <2>3, SubmitKeepsLag
    <2>4. CASE FailTask(u)
      BY <1>1, <1>3, <2>4, LagSame DEF FailTask, Pop, LagTypes
    <2>5. CASE OpenSession(u)
      BY <1>3, <2>5, OpenKeepsLag
    <2>6. ASSUME NEW e \in ExecTime \cup {0}, NEW d \in DecayBy, FinishTask(u, e, d)
          PROVE  LagInv'
      BY <1>3, <2>6, FinishKeepsLag
    <2>7. ASSUME NEW e \in ExecTime \cup {0}, NEW d \in DecayBy, CloseSession(u, e, d)
          PROVE  LagInv'
      <3>1. /\ session_owner = {u} /\ session_owner' = {}
            /\ usage' = [Decayed(d) EXCEPT ![u] = @ + e]
            /\ average_usage' = Default(average_usage, Unknown, d)
            /\ UNCHANGED <<submitted_tasks, queue>>
        BY <2>7 DEF CloseSession
      <3>2. /\ usage' \in [User -> Nat]
            /\ \A v \in User : usage'[v] = Decayed(d)[v] + (IF v \in {u} THEN e ELSE 0)
        BY <1>1, <3>1, DecayedTypes, ChargedOne
      <3>3. queue' = [v \in User |-> queue'[v]]
        BY <1>1, <3>1 DEF LagTypes
      <3>. QED  BY <1>3, <3>1, <3>2, <3>3, CloseKeepsLag
    <2>. QED
      BY <1>3, <2>1, <2>2, <2>3, <2>4, <2>5, <2>6, <2>7 DEF ByUser
  <1>4. CASE StayBusy /\ TakeQueuedItems
    BY <1>4, LagSame DEF TakeQueuedItems
  <1>5. ASSUME StayBusy, NEW e \in ExecTime \cup {0}, NEW d \in DecayBy, Reconfigure(e, d)
        PROVE  LagInv'
    <2>1. /\ session_owner' = {} /\ UNCHANGED submitted_tasks
          /\ usage' = [u \in User |-> Decayed(d)[u] + (IF u \in session_owner THEN e ELSE 0)]
          /\ average_usage' = Default(average_usage, Unknown, d)
          /\ queue' = [u \in User |-> Requeued(queue[u])]
      BY <1>5 DEF Reconfigure
    <2>2. e \in Nat /\ Decayed(d) \in [User -> Nat]
      BY <1>1, SlotIsLongest, DecayedTypes
    <2>3. /\ usage' \in [User -> Nat]
          /\ \A u \in User : usage'[u] = Decayed(d)[u] + (IF u \in session_owner THEN e ELSE 0)
      BY <2>1, <2>2
    <2>. QED  BY <1>5, <2>1, <2>3, CloseKeepsLag
  <1>6. ASSUME StayBusy, NEW e \in ExecTime \cup {0}, Restart(e) PROVE LagInv'
    BY <1>6, RestartKeepsLag
  <1>. QED
    BY <1>2, <1>3, <1>4, <1>5, <1>6 DEF Next

(* Fair share keeps its promise for any number of users, slots and times:   *)
(* of two users that always had work waiting, neither has got ahead by more *)
(* than the slots of the machine are worth, as pop_queue_item charges what  *)
(* is at the backend in advance.                                            *)
THEOREM LagIsBounded == Spec => []BoundedLag
  <1>1. LagInv => BoundedLag
    <2>. SUFFICES ASSUME LagInv, NEW u \in busy, NEW v \in busy
                  PROVE  usage[u] - usage[v] <= queue_size * Slot
      BY DEF BoundedLag
    <2>1. LagTypes /\ u \in User /\ v \in User
      BY DEF LagInv, Waiting
    <2>2. /\ usage[u] \in Nat /\ usage[v] \in Nat /\ submitted_tasks[u] * Slot \in Nat
          /\ queue_size * Slot \in Nat
      BY <2>1, EffectiveAtMost
    <2>3. usage[u] + submitted_tasks[u] * Slot <= usage[v] + queue_size * Slot
      BY DEF LagInv, Ahead
    <2>. QED  BY <2>2, <2>3
  <1>. QED  BY LagInit, LagStep, <1>1, PTL DEF Spec

=============================================================================
