--------------------------- MODULE ProjectsProofs ---------------------------
(* Theorems about the time of a project: what is in flight is charged for   *)
(* tasks that run, what is confirmed is what rows say or are about to, no   *)
(* project is charged more than it used but for late reports, and the limit *)
(* in memory is that of the row.                                            *)
(*                                                                          *)
(* The first three hold in a service in which no launcher stops with a      *)
(* suspension to apply, the last where no request overlaps one that writes  *)
(* the row; what happens otherwise are two of the observations.             *)
EXTENDS Projects, FiniteSetTheorems, TLAPS

USE DEF projectVars, rowVars, requestVars, taskVars, jobVars, itemRows, controlVars, counters

-----------------------------------------------------------------------------
(* The invariant. *)

(* The time an item may be charged for: its own, and of a task what passed   *)
(* since it ended.                                                          *)
Spent(i) == IF i \in Task THEN ran[i] + late[i] ELSE ran[i]

(* Times are behind the clock, and estimates behind the truth.              *)
Clocked ==
  /\ \A i \in Item : /\ Spent(i) <= now
                     /\ exec_time[i] <= Spent(i) /\ row_exec[i] <= Spent(i)
  /\ \A t \in Task : charged[t] <= elapsed[t] /\ elapsed[t] <= Spent(t)

Started(i) == i \in row_started \/ <<"started", i>> \in updates
Closing(i) == <<"final", i>> \in updates

(* Rows of items and what is to be written of them: a final state is of     *)
(* what ended, a time that is not recorded is about to be, and only what    *)
(* started has one.                                                         *)
Recorded ==
  \A i \in Item :
    /\ i \in row_final \/ Closing(i) <=> place[i] = "final"
    /\ exec_time[i] # row_exec[i] => <<"exec", i>> \in updates \/ Closing(i)
    /\ <<"exec", i>> \in updates => i \in Session /\ Started(i)
    /\ i \in Task => /\ exec_time[i] # 0 => place[i] = "final"
                     /\ row_exec[i] # 0 => i \in row_final
    /\ i \in Session => /\ exec_time[i] # 0 \/ place[i] = "submitted" => Started(i)
                        /\ row_exec[i] # 0 => i \in row_started
    /\ place[i] \in {"new", "queued"} => ~Started(i) /\ exec_time[i] = 0 /\ row_exec[i] = 0

(* A task that runs, or is said to have started, has a job that has.        *)
Running ==
  \A t \in Task :
    /\ t \in running_tasks \/ Started(t) => job[t] \in {"running", "ended"}
    /\ place[t] \in {"new", "queued"} => job[t] = "none"
    /\ t \notin running_tasks => charged[t] = 0
    /\ pc[Of[t]] = "stopped" => t \notin running_tasks

(* Confirmed time, in the row and in memory.                                *)
Confirmed ==
  /\ row_consumed = SumOver(row_exec, Item)
  /\ cached => consumed = SumOver(exec_time, Item)
  /\ ~cached => consumed = 0 /\ updates = {} /\ \A i \in Item : place[i] \in {"new", "final"}

(* The requests that may fill the cache know what the row says.             *)
Filling ==
  /\ cached => row_exists
  /\ ~row_exists => \A i \in Item : place[i] = "new"
  /\ \A c \in Client :
       /\ request[c] \in {"inserted", "written", "fetched"} => row_exists
       /\ request[c] = "inserted" /\ ~cached => \A i \in Item : place[i] = "new"
       /\ request[c] = "fetched" /\ ~cached => seen[c].consumed = row_consumed

TimeInv == TypeOK /\ Clocked /\ Recorded /\ Running /\ Confirmed /\ Filling

(* A launcher that stops has no suspension to apply.                        *)
Stopping ==
  /\ \A m \in Machine : pc[m] = "stopping" => m \in stop
  /\ stop \cap suspended = {}

(* What is in flight; a launcher that stops has dropped its part before it  *)
(* forgets its tasks.                                                       *)
Counted  == {t \in running_tasks : pc[Of[t]] # "stopping"}
InFlight == in_flight = SumOver(charged, Counted)

ChargeInv == Stopping /\ InFlight

(* The limit, of which the row is ahead while a request writes it.          *)
Writing(c) == request[c] \in {"inserted", "written"}
LimitFollows ==
  /\ \A c, d \in Client : Writing(c) /\ UnderWay(d) => c = d
  /\ \A c \in Client : /\ Writing(c) => asked[c] = row_limit
                       /\ request[c] = "inserted" => ~cached
                       /\ request[c] = "fetched" => seen[c].limit = row_limit
  /\ cached /\ (\A c \in Client : ~Writing(c)) => limit = row_limit

-----------------------------------------------------------------------------
(* Sums, as numbers of units. *)

LEMMA UpTo ==
  ASSUME NEW n \in Nat PROVE IsFiniteSet(1..n) /\ Cardinality(1..n) = n
  <1>1. 1 \in Int /\ n \in Int /\ (IF 1 > n THEN 0 ELSE n - 1 + 1) = n
    OBVIOUS
  <1>2. /\ IsFiniteSet(1..n)
        /\ Cardinality(1..n) = IF 1 > n THEN 0 ELSE n - 1 + 1
    BY <1>1, FS_Interval, Zenon
  <1>. QED  BY <1>1, <1>2

LEMMA UnitsAreFinite ==
  ASSUME NEW A \in SUBSET Item, NEW f, \A i \in A : f[i] \in Nat
  PROVE  IsFiniteSet(A) /\ IsFiniteSet(Units(f, A)) /\ SumOver(f, A) \in Nat
  <1>. DEFINE of == [i \in A |-> {i} \X (1..f[i])]
              all == {of[i] : i \in A}
  <1>1. IsFiniteSet(A)
    BY FS_Subset, ProjectsAssumption DEF ProjectsAssumption
  <1>2. of \in Surjection(A, all)
    BY DEF Surjection
  <1>3. IsFiniteSet(all)
    BY <1>1, <1>2, FS_Surjection
  <1>4. ASSUME NEW i \in A PROVE IsFiniteSet(of[i])
    <2>1. IsFiniteSet({i}) /\ IsFiniteSet(1..f[i])
      BY FS_Singleton, UpTo, Zenon
    <2>. DEFINE one == {i}
                units == 1..f[i]
    <2>2. IsFiniteSet(one \X units)
      <3>1. IsFiniteSet(one) /\ IsFiniteSet(units)
        BY <2>1
      <3>. HIDE DEF one, units
      <3>. QED  BY <3>1, FS_Product
    <2>. QED  BY <2>2
  <1>5. IsFiniteSet(UNION all)
    BY <1>3, <1>4, FS_UNION
  <1>6. Units(f, A) = UNION all
    BY DEF Units
  <1>7. IsFiniteSet(Units(f, A))
    BY <1>5, <1>6
  <1>. QED  BY <1>1, <1>7, FS_CardinalityType DEF SumOver

LEMMA SumOfNone == ASSUME NEW f PROVE SumOver(f, {}) = 0
  BY FS_EmptySet DEF SumOver, Units

(* Nothing of each is nothing. *)
LEMMA SumOfZeros ==
  ASSUME NEW A, NEW f, \A i \in A : f[i] = 0 PROVE SumOver(f, A) = 0
  <1>1. Units(f, A) = {}
    <2>1. 1..0 = {}
      OBVIOUS
    <2>. QED  BY <2>1 DEF Units
  <1>. QED  BY <1>1, FS_EmptySet DEF SumOver

LEMMA SumOfOne ==
  ASSUME NEW i \in Item, NEW f, f[i] \in Nat PROVE SumOver(f, {i}) = f[i]
  <1>1. Units(f, {i}) = {i} \X (1..f[i])
    BY DEF Units
  <1>2. /\ IsFiniteSet({i}) /\ Cardinality({i}) = 1
        /\ IsFiniteSet(1..f[i]) /\ Cardinality(1..f[i]) = f[i]
    BY FS_Singleton, UpTo, Zenon
  <1>3. Cardinality({i} \X (1..f[i])) = 1 * f[i]
    <2>. DEFINE one == {i}
                units == 1..f[i]
    <2>1. /\ IsFiniteSet(one) /\ IsFiniteSet(units)
          /\ Cardinality(one) = 1 /\ Cardinality(units) = f[i]
      BY <1>2
    <2>. HIDE DEF one, units
    <2>2. Cardinality(one \X units) = Cardinality(one) * Cardinality(units)
      BY <2>1, FS_Product
    <2>3. Cardinality(one \X units) = 1 * f[i]
      BY <2>1, <2>2
    <2>. QED  BY <2>3 DEF one, units
  <1>4. Cardinality({i} \X (1..f[i])) = f[i]
    BY <1>3
  <1>. QED  BY <1>1, <1>4 DEF SumOver

LEMMA SumOfSame ==
  ASSUME NEW A, NEW f, NEW g, \A i \in A : f[i] = g[i]
  PROVE  SumOver(f, A) = SumOver(g, A)
  <1>1. Units(f, A) = Units(g, A)
    BY DEF Units
  <1>. QED  BY <1>1 DEF SumOver

LEMMA SumOfUnion ==
  ASSUME NEW A \in SUBSET Item, NEW B \in SUBSET Item, A \cap B = {}, NEW f,
         \A i \in A \cup B : f[i] \in Nat
  PROVE  SumOver(f, A \cup B) = SumOver(f, A) + SumOver(f, B)
  <1>1. /\ IsFiniteSet(Units(f, A)) /\ IsFiniteSet(Units(f, B))
        /\ Cardinality(Units(f, A)) \in Nat /\ Cardinality(Units(f, B)) \in Nat
    BY UnitsAreFinite DEF SumOver
  <1>2. Units(f, A \cup B) = Units(f, A) \cup Units(f, B)
    BY DEF Units
  <1>3. Units(f, A) \cap Units(f, B) = {}
    BY DEF Units
  <1>4. Cardinality(Units(f, A) \cup Units(f, B)) =
          Cardinality(Units(f, A)) + Cardinality(Units(f, B))
            - Cardinality(Units(f, A) \cap Units(f, B))
    BY <1>1, FS_Union
  <1>5. Cardinality(Units(f, A) \cap Units(f, B)) = 0
    BY <1>3, FS_EmptySet
  <1>. DEFINE a == Cardinality(Units(f, A))
              b == Cardinality(Units(f, B))
              c == Cardinality(Units(f, A) \cup Units(f, B))
              d == Cardinality(Units(f, A) \cap Units(f, B))
  <1>6. c = a + b
    <2>1. a \in Nat /\ b \in Nat /\ d = 0 /\ c = a + b - d
      BY <1>1, <1>4, <1>5
    <2>. HIDE DEF a, b, c, d
    <2>. QED  BY <2>1
  <1>. QED  BY <1>2, <1>6 DEF SumOver

(* Only some of A change. *)
LEMMA SumOfChanged ==
  ASSUME NEW A \in SUBSET Item, NEW B \in SUBSET A, NEW f, NEW g,
         \A i \in A : f[i] \in Nat /\ g[i] \in Nat,
         \A i \in A \ B : f[i] = g[i]
  PROVE  /\ SumOver(f, A) + SumOver(g, B) = SumOver(g, A) + SumOver(f, B)
         /\ SumOver(f, A) \in Nat /\ SumOver(g, B) \in Nat
         /\ SumOver(g, A) \in Nat /\ SumOver(f, B) \in Nat
         /\ SumOver(f, B) <= SumOver(f, A) /\ SumOver(g, B) <= SumOver(g, A)
  <1>. DEFINE rest == A \ B
  <1>1. /\ rest \in SUBSET Item /\ B \in SUBSET Item /\ rest \cap B = {} /\ A = rest \cup B
        /\ \A i \in rest \cup B : f[i] \in Nat /\ g[i] \in Nat
        /\ \A i \in rest : f[i] = g[i]
    OBVIOUS
  <1>. HIDE DEF rest
  <1>2. SumOver(f, A) = SumOver(f, rest) + SumOver(f, B)
    BY <1>1, SumOfUnion
  <1>3. SumOver(g, A) = SumOver(g, rest) + SumOver(g, B)
    BY <1>1, SumOfUnion
  <1>4. SumOver(f, rest) = SumOver(g, rest)
    BY <1>1, SumOfSame
  <1>5. /\ SumOver(f, rest) \in Nat /\ SumOver(f, B) \in Nat /\ SumOver(g, B) \in Nat
    BY <1>1, UnitsAreFinite
  <1>. QED  BY <1>2, <1>3, <1>4, <1>5

LEMMA SumOfLess ==
  ASSUME NEW A \in SUBSET Item, NEW f, NEW g,
         \A i \in A : f[i] \in Nat /\ g[i] \in Nat /\ f[i] <= g[i]
  PROVE  SumOver(f, A) <= SumOver(g, A)
  <1>1. \A i \in A : 1..f[i] \subseteq 1..g[i]
    OBVIOUS
  <1>2. Units(f, A) \in SUBSET Units(g, A)
    BY <1>1 DEF Units
  <1>3. IsFiniteSet(Units(g, A))
    BY UnitsAreFinite
  <1>. QED  BY <1>2, <1>3, FS_Subset DEF SumOver

(* Sums add up item by item. *)
LEMMA SumOfSums ==
  ASSUME NEW A \in SUBSET Item, NEW f, NEW g, NEW h,
         \A i \in A : f[i] \in Nat /\ g[i] \in Nat /\ h[i] = f[i] + g[i]
  PROVE  SumOver(h, A) = SumOver(f, A) + SumOver(g, A)
  <1>. DEFINE F == Units(f, A)
              G == Units(g, A)
              M == UNION {{i} \X ((f[i] + 1)..(f[i] + g[i])) : i \in A}
              move == [u \in G |-> <<u[1], f[u[1]] + u[2]>>]
  <1>1. /\ \A u : u \in G <=> \E i \in A : \E k \in 1..g[i] : u = <<i, k>>
        /\ \A u : u \in F <=> \E i \in A : \E k \in 1..f[i] : u = <<i, k>>
        /\ \A u : u \in M <=> \E i \in A : \E k \in (f[i] + 1)..(f[i] + g[i]) : u = <<i, k>>
        /\ \A u : u \in Units(h, A) <=> \E i \in A : \E k \in 1..h[i] : u = <<i, k>>
    BY DEF Units
  <1>2. Units(h, A) = F \cup M /\ F \cap M = {}
    <2>1. \A i \in A : \A k : k \in 1..h[i] <=> k \in 1..f[i] \/ k \in (f[i] + 1)..(f[i] + g[i])
      OBVIOUS
    <2>2. \A i \in A : (1..f[i]) \cap ((f[i] + 1)..(f[i] + g[i])) = {}
      OBVIOUS
    <2>. HIDE DEF F, M
    <2>3. \A u : u \in Units(h, A) <=> u \in F \/ u \in M
      <3>. SUFFICES ASSUME NEW u PROVE u \in Units(h, A) <=> u \in F \/ u \in M
        OBVIOUS
      <3>1. /\ u \in F <=> \E i \in A : \E k \in 1..f[i] : u = <<i, k>>
            /\ u \in M <=> \E i \in A : \E k \in (f[i] + 1)..(f[i] + g[i]) : u = <<i, k>>
            /\ u \in Units(h, A) <=> \E i \in A : \E k \in 1..h[i] : u = <<i, k>>
        BY <1>1
      <3>. QED  BY <2>1, <3>1, Zenon
    <2>4. F \cap M = {}
      <3>. SUFFICES ASSUME NEW u \in F, u \in M PROVE FALSE
        OBVIOUS
      <3>1a. PICK i \in A : \E k \in 1..f[i] : u = <<i, k>>
        BY <1>1
      <3>1. PICK k \in 1..f[i] : u = <<i, k>>
        BY <3>1a
      <3>2a. PICK j \in A : \E l \in (f[j] + 1)..(f[j] + g[j]) : u = <<j, l>>
        BY <1>1
      <3>2. PICK l \in (f[j] + 1)..(f[j] + g[j]) : u = <<j, l>>
        BY <3>2a
      <3>. QED  BY <3>1, <3>2, <2>2
    <2>. QED  BY <2>3, <2>4
  <1>3. move \in Bijection(G, M)
    <2>1. \A u \in G : u[1] \in A /\ u[2] \in 1..g[u[1]] /\ u = <<u[1], u[2]>>
      BY <1>1
    <2>. HIDE DEF G, M
    <2>2. \A u \in G : move[u] \in M
      <3>. SUFFICES ASSUME NEW u \in G PROVE move[u] \in M
        OBVIOUS
      <3>1. f[u[1]] + u[2] \in (f[u[1]] + 1)..(f[u[1]] + g[u[1]])
        BY <2>1
      <3>. QED  BY <1>1, <2>1, <3>1
    <2>3. \A u, v \in G : move[u] = move[v] => u = v
      <3>. SUFFICES ASSUME NEW u \in G, NEW v \in G, move[u] = move[v] PROVE u = v
        OBVIOUS
      <3>1. u[1] = v[1] /\ f[u[1]] + u[2] = f[v[1]] + v[2]
        OBVIOUS
      <3>2. u[2] = v[2]
        BY <2>1, <3>1
      <3>. QED  BY <2>1, <3>1, <3>2
    <2>4. \A w \in M : \E u \in G : move[u] = w
      <3>. SUFFICES ASSUME NEW w \in M PROVE \E u \in G : move[u] = w
        OBVIOUS
      <3>1a. PICK i \in A : \E k \in (f[i] + 1)..(f[i] + g[i]) : w = <<i, k>>
        BY <1>1
      <3>1. PICK k \in (f[i] + 1)..(f[i] + g[i]) : w = <<i, k>>
        BY <3>1a
      <3>2. k - f[i] \in 1..g[i] /\ f[i] + (k - f[i]) = k
        OBVIOUS
      <3>3. <<i, k - f[i]>> \in G
        BY <1>1, <3>2
      <3>4. move[<<i, k - f[i]>>] = w
        BY <3>1, <3>2, <3>3
      <3>. QED  BY <3>3, <3>4
    <2>5. move \in [G -> M]
      BY <2>2 DEF move
    <2>. HIDE DEF move
    <2>6. move \in Injection(G, M)
      BY <2>3, <2>5 DEF Injection, IsInjective
    <2>7. move \in Surjection(G, M)
      BY <2>4, <2>5 DEF Surjection
    <2>. QED  BY <2>6, <2>7 DEF Bijection
  <1>4. /\ IsFiniteSet(F) /\ IsFiniteSet(G)
        /\ Cardinality(F) \in Nat /\ Cardinality(G) \in Nat
    BY UnitsAreFinite DEF SumOver
  <1>. HIDE DEF F, G, M, move
  <1>5. IsFiniteSet(M) /\ Cardinality(M) = Cardinality(G)
    BY <1>3, <1>4, FS_Bijection DEF ExistsBijection
  <1>6. Cardinality(F \cup M) = Cardinality(F) + Cardinality(M) - Cardinality(F \cap M)
    BY <1>4, <1>5, FS_Union
  <1>7. Cardinality(F \cap M) = 0
    BY <1>2, FS_EmptySet
  <1>8. Cardinality(Units(h, A)) = Cardinality(F) + Cardinality(G)
    BY <1>2, <1>4, <1>5, <1>6, <1>7
  <1>. QED  BY <1>8 DEF SumOver, F, G

(* Some grow, each by its own amount. *)
LEMMA SumOfGrown ==
  ASSUME NEW A \in SUBSET Item, NEW B \in SUBSET A, NEW f, NEW g, NEW d,
         \A i \in A : f[i] \in Nat /\ g[i] \in Nat,
         \A i \in B : d[i] \in Nat /\ g[i] = f[i] + d[i],
         \A i \in A \ B : g[i] = f[i]
  PROVE  SumOver(g, A) = SumOver(f, A) + SumOver(d, B)
  <1>1. /\ SumOver(f, A) + SumOver(g, B) = SumOver(g, A) + SumOver(f, B)
        /\ SumOver(f, A) \in Nat /\ SumOver(g, B) \in Nat
        /\ SumOver(g, A) \in Nat /\ SumOver(f, B) \in Nat
    BY SumOfChanged
  <1>2. /\ B \in SUBSET Item
        /\ \A i \in B : f[i] \in Nat /\ d[i] \in Nat /\ g[i] = f[i] + d[i]
    OBVIOUS
  <1>3. SumOver(g, B) = SumOver(f, B) + SumOver(d, B)
    BY <1>2, SumOfSums
  <1>4. SumOver(d, B) \in Nat
    BY <1>2, UnitsAreFinite
  <1>. QED  BY <1>1, <1>3, <1>4

(* What is nothing need not be counted. *)
LEMMA SumOfPart ==
  ASSUME NEW A \in SUBSET Item, NEW B \in SUBSET A, NEW f, \A i \in A : f[i] \in Nat,
         \A i \in A \ B : f[i] = 0
  PROVE  SumOver(f, A) = SumOver(f, B) /\ SumOver(f, A) \in Nat
  <1>. DEFINE rest == A \ B
  <1>1. /\ rest \in SUBSET Item /\ B \in SUBSET Item /\ rest \cap B = {} /\ A = rest \cup B
        /\ \A i \in rest \cup B : f[i] \in Nat
        /\ \A i \in rest : f[i] = 0
    OBVIOUS
  <1>. HIDE DEF rest
  <1>2. SumOver(f, A) = SumOver(f, rest) + SumOver(f, B)
    BY <1>1, SumOfUnion
  <1>3. SumOver(f, rest) = 0
    BY <1>1, SumOfZeros
  <1>4. SumOver(f, B) \in Nat
    BY <1>1, UnitsAreFinite
  <1>. QED  BY <1>2, <1>3, <1>4

-----------------------------------------------------------------------------
(* The invariant is kept. *)

LEMMA TimeInit == ASSUME Init PROVE TimeInv
  <1>1. TypeOK
    <2>1. 0 \in Time /\ 0 \in Limits /\ InitialLimit \in Limits /\ 0 \in 0..MaxFaults
      BY ProjectsAssumption DEF ProjectsAssumption, Limits, Time
    <2>2. NoRow \in [limit : Limits, consumed : Nat]
      BY <2>1 DEF NoRow
    <2>. HIDE DEF Time, Limits, NoRow, Item, Client
    <2>. QED
      BY <2>1, <2>2 DEF Init, TypeOK, RequestState, Place, JobState, LauncherState
  <1>2. Clocked
    BY <1>1, ProjectsAssumption
    DEF Init, Clocked, Spent, TypeOK, Item, Time, ProjectsAssumption
  <1>3. Recorded /\ Running
    BY DEF Init, Recorded, Running, Started, Closing, Item
  <1>4. Confirmed
    <2>1. SumOver(row_exec, Item) = 0
      BY SumOfZeros DEF Init
    <2>. QED  BY <2>1 DEF Init, Confirmed
  <1>5. Filling
    BY DEF Init, Filling
  <1>. QED  BY <1>1, <1>2, <1>3, <1>4, <1>5 DEF TimeInv

(* Groups that a step leaves alone. *)
LEMMA SameClocked ==
  ASSUME Clocked, UNCHANGED <<ran, late, now, exec_time, row_exec, charged, elapsed>>
  PROVE  Clocked'
  BY DEF Clocked, Spent

LEMMA SameRecorded ==
  ASSUME Recorded, UNCHANGED <<place, updates, exec_time, itemRows>> PROVE Recorded'
  BY DEF Recorded, Started, Closing

LEMMA SameRunning ==
  ASSUME Running, UNCHANGED <<running_tasks, charged, place, job, updates, row_started>>,
         \A t \in Task : pc'[Of[t]] = "stopped" => pc[Of[t]] = "stopped"
  PROVE  Running'
  BY DEF Running, Started

LEMMA SameConfirmed ==
  ASSUME Confirmed, UNCHANGED <<row_consumed, row_exec, cached, consumed, exec_time, updates>>,
         cached \/ UNCHANGED place
  PROVE  Confirmed'
  BY DEF Confirmed

LEMMA SameFilling ==
  ASSUME Filling, UNCHANGED <<cached, row_exists, request, seen, row_consumed>>,
         cached \/ UNCHANGED place
  PROVE  Filling'
  BY DEF Filling

(* Types of the parts, for the provers. *)
LEMMA TypesOf ==
  ASSUME TypeOK
  PROVE  /\ consumed \in Nat /\ in_flight \in Nat /\ row_consumed \in Nat /\ now \in Nat
         /\ \A i \in Item : ran[i] \in Nat /\ exec_time[i] \in Nat /\ row_exec[i] \in Nat
         /\ \A t \in Task : late[t] \in Nat /\ elapsed[t] \in Nat /\ charged[t] \in Nat
         /\ \A i \in Item : Spent(i) \in Nat
  BY ProjectsAssumption DEF TypeOK, ProjectsAssumption, Time, Item, Spent

(* A request leaves items and launchers alone; the cache is filled with     *)
(* what is recorded.                                                        *)
LEMMA RequestKeeps ==
  ASSUME TimeInv, NEW c \in Client, Request(c) PROVE TimeInv'
  <1>. USE DEF TimeInv
  <1>1. UNCHANGED <<offered, place, jobVars, taskVars, exec_time, updates, itemRows, pc,
                    controlVars, counters, row_consumed, in_flight>>
    BY DEF Request, InsertProject, UpdateRow, CacheCreated, UpdateCached, Lookup, Fetch, Fill
  <1>2. /\ cached' \in BOOLEAN /\ limit' \in Limits /\ consumed' \in Nat
        /\ row_exists' \in BOOLEAN /\ row_limit' \in Limits
        /\ request' \in [Client -> RequestState] /\ asked' \in [Client -> Limits]
        /\ seen' \in [Client -> [limit : Limits, consumed : Nat]]
    <2>1. 0 \in Limits /\ Limit \subseteq Limits /\ 0 \in Nat
      BY DEF Limits
    <2>2. NoRow \in [limit : Limits, consumed : Nat]
      BY <2>1 DEF NoRow
    <2>3. [limit |-> row_limit, consumed |-> row_consumed] \in [limit : Limits, consumed : Nat]
      BY DEF TypeOK
    <2>4. {"inserted", "written", "missed", "fetched", "done"} \subseteq RequestState
      BY DEF RequestState
    <2>5. asked[c] \in Limits /\ seen[c].limit \in Limits /\ seen[c].consumed \in Nat
      BY DEF TypeOK
    <2>. HIDE DEF Limits, NoRow, RequestState, Client
    <2>6. CASE \E l \in Limit : InsertProject(c, l) \/ UpdateRow(c, l)
      <3>. PICK l \in Limit : InsertProject(c, l) \/ UpdateRow(c, l)
        BY <2>6
      <3>1. l \in Limits
        BY <2>1
      <3>2. CASE InsertProject(c, l)
        BY <2>4, <3>1, <3>2 DEF TypeOK, InsertProject
      <3>3. CASE UpdateRow(c, l)
        BY <2>4, <3>1, <3>3 DEF TypeOK, UpdateRow
      <3>. QED  BY <3>2, <3>3
    <2>7. CASE CacheCreated(c) \/ UpdateCached(c) \/ Lookup(c)
      BY <2>1, <2>4, <2>5, <2>7 DEF TypeOK, CacheCreated, UpdateCached, Lookup
    <2>8. CASE Fetch(c)
      BY <2>2, <2>3, <2>4, <2>8 DEF TypeOK, Fetch
    <2>9. CASE Fill(c)
      BY <2>1, <2>2, <2>4, <2>5, <2>9 DEF TypeOK, Fill
    <2>. QED  BY <2>6, <2>7, <2>8, <2>9 DEF Request
  <1>3. TypeOK'
    BY <1>1, <1>2 DEF TypeOK
  <1>4. Clocked' /\ Recorded' /\ Running'
    BY <1>1, SameClocked, SameRecorded, SameRunning
  <1>5. Confirmed'
    <2>1. CASE ~cached /\ cached'
      <3>1. consumed' = SumOver(exec_time, Item)
        <4>1. CASE CacheCreated(c)
          <5>1. \A i \in Item : place[i] = "new"
            BY <2>1, <4>1 DEF CacheCreated, Filling
          <5>2. \A i \in Item : exec_time[i] = 0
            BY <5>1 DEF Recorded
          <5>. QED  BY <2>1, <4>1, <5>2, SumOfZeros DEF CacheCreated, Confirmed
        <4>2. CASE Fill(c)
          <5>1. \A i \in Item : row_exec[i] = exec_time[i]
            BY <2>1 DEF Confirmed, Recorded, Closing
          <5>2. SumOver(row_exec, Item) = SumOver(exec_time, Item)
            BY <5>1, SumOfSame
          <5>. QED  BY <2>1, <4>2, <5>2 DEF Fill, Confirmed, Filling
        <4>. QED  BY <2>1, <4>1, <4>2 DEF Request, InsertProject, UpdateRow, UpdateCached,
                                          Lookup, Fetch
      <3>. QED  BY <1>1, <2>1, <3>1 DEF Confirmed
    <2>2. CASE cached' = cached
      <3>1. consumed' = consumed
        BY <2>2, <1>1 DEF Request, InsertProject, UpdateRow, CacheCreated, UpdateCached, Lookup,
                          Fetch, Fill
      <3>. QED  BY <1>1, <2>2, <3>1, SameConfirmed
    <2>. QED  BY <2>1, <2>2 DEF Request, InsertProject, UpdateRow, CacheCreated, UpdateCached,
                                Lookup, Fetch, Fill
  <1>6. Filling'
    <2>. USE DEF Filling
    <2>1. \A d \in Client : request'[d] = IF d = c THEN request'[c] ELSE request[d]
      BY DEF TypeOK, Request, InsertProject, UpdateRow, CacheCreated, UpdateCached, Lookup, Fetch,
             Fill
    <2>2. \A d \in Client : d # c => seen'[d] = seen[d]
      BY DEF TypeOK, Request, InsertProject, UpdateRow, CacheCreated, UpdateCached, Lookup, Fetch,
             Fill
    <2>3. CASE \E l \in Limit : InsertProject(c, l) \/ UpdateRow(c, l)
      <3>1. request'[c] \in {"inserted", "written"} /\ row_exists' /\ UNCHANGED <<cached, seen>>
            /\ (request'[c] = "inserted" => ~row_exists)
        BY <2>3 DEF TypeOK, InsertProject, UpdateRow
      <3>. QED  BY <1>1, <2>1, <3>1
    <2>4. CASE CacheCreated(c) \/ UpdateCached(c) \/ Lookup(c)
      <3>1. request'[c] \in {"done", "missed"} /\ UNCHANGED <<row_exists, seen>>
            /\ (cached => cached') /\ (cached' => row_exists)
        BY <2>4 DEF TypeOK, CacheCreated, UpdateCached, Lookup
      <3>. QED  BY <1>1, <2>1, <3>1
    <2>5. CASE Fetch(c)
      <3>1. request'[c] \in {"fetched", "done"} /\ UNCHANGED <<row_exists, cached>>
            /\ (request'[c] = "fetched" => row_exists /\ seen'[c].consumed = row_consumed)
        BY <2>5 DEF TypeOK, Fetch
      <3>. QED  BY <1>1, <2>1, <2>2, <3>1
    <2>6. CASE Fill(c)
      <3>1. request'[c] = "done" /\ UNCHANGED row_exists /\ cached' /\ row_exists
        BY <2>6 DEF TypeOK, Fill
      <3>. QED  BY <1>1, <2>1, <2>2, <3>1
    <2>. QED  BY <2>3, <2>4, <2>5, <2>6 DEF Request
  <1>. QED  BY <1>3, <1>4, <1>5, <1>6

LEMMA SubmitKeeps ==
  ASSUME TimeInv, NEW i \in Item, Submit(i) PROVE TimeInv'
  <1>. USE DEF TimeInv
  <1>1. /\ UNCHANGED <<projectVars, rowVars, requestVars, jobVars, taskVars, exec_time, updates,
                       itemRows, pc, controlVars, counters>>
        /\ cached /\ place[i] = "new"
        /\ place' \in [Item -> Place]
        /\ \A j \in Item : place'[j] = IF j = i THEN "queued" ELSE place[j]
    BY DEF Submit, TypeOK, Place
  <1>2. TypeOK'
    <2>1. \A t \in Task : t \in running_tasks \cup cancelling => place'[t] = "submitted"
      BY <1>1 DEF TypeOK, Item
    <2>. QED  BY <1>1, <2>1 DEF TypeOK
  <1>3. Clocked'
    BY <1>1, SameClocked
  <1>4. Recorded'
    BY <1>1 DEF Recorded, Started, Closing
  <1>5. Running'
    BY <1>1 DEF Running, Started, Item
  <1>6. Confirmed'
    BY <1>1, SameConfirmed
  <1>7. Filling'
    BY <1>1, SameFilling
  <1>. QED  BY <1>2, <1>3, <1>4, <1>5, <1>6, <1>7

(* Requests to launchers, and the events that only wake them. *)
LEMMA ControlKeeps ==
  ASSUME TimeInv, NEW m \in Machine, Notified(m) \/ RequestStop(m) \/ Suspend(m)
  PROVE  TimeInv'
  <1>. USE DEF TimeInv
  <1>1. UNCHANGED <<projectVars, rowVars, requestVars, place, jobVars, taskVars, exec_time,
                    updates, itemRows, now>>
    BY DEF Notified, RequestStop, Suspend
  <1>2. /\ pc' \in [Machine -> LauncherState] /\ stop' \subseteq Machine
        /\ suspended' \subseteq Machine /\ faults' \in 0..MaxFaults
        /\ \A n \in Machine : pc'[n] = "stopped" => pc[n] = "stopped"
    BY ProjectsAssumption
    DEF Notified, Event, RequestStop, Suspend, TypeOK, LauncherState, ProjectsAssumption
  <1>3. TypeOK'
    BY <1>1, <1>2 DEF TypeOK
  <1>4. \A t \in Task : Of[t] \in Machine
    BY ProjectsAssumption DEF ProjectsAssumption, Item
  <1>5. Clocked' /\ Recorded' /\ Running' /\ Confirmed' /\ Filling'
    BY <1>1, <1>2, <1>4, SameClocked, SameRecorded, SameRunning, SameConfirmed, SameFilling
  <1>. QED  BY <1>3, <1>5

LEMMA JobKeeps ==
  ASSUME TimeInv, NEW t \in Task, JobStarts(t) \/ JobEnds(t) PROVE TimeInv'
  <1>. USE DEF TimeInv
  <1>1. /\ UNCHANGED <<projectVars, rowVars, requestVars, place, ran, late, taskVars, exec_time,
                       updates, itemRows, pc, controlVars, counters>>
        /\ job' \in [Task -> JobState]
        /\ \A r \in Task : /\ job[r] \in {"running", "ended"} => job'[r] \in {"running", "ended"}
                           /\ job[r] = "none" => job'[r] = "none"
    BY DEF JobStarts, JobEnds, TypeOK, JobState
  <1>2. TypeOK'
    BY <1>1 DEF TypeOK
  <1>3. Running'
    BY <1>1 DEF Running, Started
  <1>4. Clocked' /\ Recorded' /\ Confirmed' /\ Filling'
    BY <1>1, SameClocked, SameRecorded, SameConfirmed, SameFilling
  <1>. QED  BY <1>2, <1>3, <1>4

(* A tick is counted for a job or its report; an estimate grows with it     *)
(* only while the job runs or is not reported.                              *)
LEMMA TickKeeps == ASSUME TimeInv, Tick PROVE TimeInv'
  <1>. USE DEF TimeInv
  <1>1. /\ UNCHANGED <<projectVars, rowVars, requestVars, place, job, running_tasks, charged,
                       cancelling, exec_time, updates, itemRows, pc, controlVars, faults>>
        /\ now < MaxTime /\ now' = now + 1 /\ now \in Nat /\ MaxTime \in Nat
    BY TypesOf, ProjectsAssumption DEF Tick, ProjectsAssumption
  <1>2. /\ ran' = [i \in Item |-> ran'[i]] /\ late' = [t \in Task |-> late'[t]]
        /\ elapsed' = [t \in Task |-> elapsed'[t]]
        /\ \A i \in Item : ran'[i] \in {ran[i], ran[i] + 1}
        /\ \A t \in Task : /\ t \in Item
                           /\ ran'[t] = IF job[t] = "running" THEN ran[t] + 1 ELSE ran[t]
                           /\ late'[t] = IF job[t] = "ended" /\ t \notin row_final
                                         THEN late[t] + 1 ELSE late[t]
                           /\ elapsed'[t] = IF t \in running_tasks THEN elapsed[t] + 1
                                                                   ELSE elapsed[t]
    BY ProjectsAssumption DEF Tick, Item, ProjectsAssumption
  <1>3. \A t \in running_tasks : job[t] \in {"running", "ended"} /\ t \notin row_final
    BY DEF Running, Recorded, TypeOK, Item
  <1>4. \A t \in Task : /\ ran'[t] + late'[t] \in {ran[t] + late[t], ran[t] + late[t] + 1}
                        /\ t \in running_tasks => ran'[t] + late'[t] = ran[t] + late[t] + 1
    BY <1>2, <1>3, TypesOf
  <1>5. Clocked'
    <2>1. \A i \in Item : Spent(i)' \in {Spent(i), Spent(i) + 1} /\ Spent(i) \in Nat
      BY <1>2, <1>4, TypesOf DEF Spent
    <2>2. \A i \in Item : /\ Spent(i)' <= now' /\ exec_time'[i] <= Spent(i)'
                          /\ row_exec'[i] <= Spent(i)'
      BY <1>1, <2>1, TypesOf DEF Clocked
    <2>3. \A t \in Task : charged'[t] <= elapsed'[t] /\ elapsed'[t] <= Spent(t)'
      BY <1>1, <1>2, <1>4, TypesOf DEF Clocked, Spent
    <2>. QED  BY <2>2, <2>3 DEF Clocked
  <1>6. TypeOK'
    <2>1. \A i \in Item : ran[i] <= now
      BY TypesOf DEF Clocked, Spent
    <2>2. \A t \in Task : late[t] <= now /\ elapsed[t] <= now
      BY <1>2, TypesOf DEF Clocked, Spent
    <2>3. now' \in Time /\ ran' \in [Item -> Time]
      BY <1>1, <1>2, <2>1, TypesOf DEF Time
    <2>4. late' \in [Task -> Time] /\ elapsed' \in [Task -> Time]
      BY <1>1, <1>2, <2>2, TypesOf DEF Time
    <2>. QED  BY <1>1, <2>3, <2>4 DEF TypeOK
  <1>7. Recorded' /\ Running' /\ Confirmed' /\ Filling'
    BY <1>1, SameRecorded, SameRunning, SameConfirmed, SameFilling
  <1>. QED  BY <1>5, <1>6, <1>7

(* What open sessions have used is confirmed and is to be recorded, with    *)
(* their end if they are closed.                                            *)
LEMMA SessionsAreCharged ==
  ASSUME TimeInv, NEW m \in Machine, (Checkpoint(m) /\ UNCHANGED place) \/ Close(m),
         UNCHANGED <<row_started, row_exec, row_final>>
  PROVE  /\ exec_time' \in [Item -> Time] /\ updates' \subseteq Update
         /\ place' \in [Item -> Place]
         /\ \A i \in Item : exec_time'[i] <= Spent(i)
         /\ UsedIn(m) \in Nat
         /\ SumOver(exec_time', Item) = SumOver(exec_time, Item) + UsedIn(m)
         /\ Recorded'
         /\ \A t \in Task : place'[t] = place[t] /\ Started(t)' = Started(t)
         /\ \A i \in Item : place[i] = "new" => place'[i] = "new"
         /\ ~cached => UNCHANGED <<exec_time, updates, place>> /\ UsedIn(m) = 0
  <1>. USE DEF TimeInv
  <1>1. /\ Open(m) \subseteq Item /\ Open(m) \subseteq Session
        /\ \A i \in Open(m) : place[i] = "submitted" /\ i \notin Task /\ Started(i)
    BY ProjectsAssumption DEF Open, On, Item, ProjectsAssumption, Recorded
  <1>2. /\ exec_time' = [i \in Item |-> IF i \in Open(m) THEN ran[i] ELSE exec_time[i]]
        /\ \A i \in Item : exec_time'[i] = IF i \in Open(m) THEN ran[i] ELSE exec_time[i]
    BY DEF Checkpoint, Close
  <1>3. exec_time' \in [Item -> Time]
    BY <1>2 DEF TypeOK
  <1>4. \A i \in Item : exec_time'[i] <= Spent(i)
    BY <1>1, <1>2, TypesOf DEF Clocked, Spent
  <1>5. updates' \subseteq Update
    BY <1>1 DEF Checkpoint, Close, TypeOK, Update
  <1>6. /\ place' \in [Item -> Place]
        /\ \A i \in Item : place'[i] # place[i] => i \in Open(m) /\ place'[i] = "final"
    BY DEF Checkpoint, Close, TypeOK, Place
  <1>7. \A i \in Item : Started(i)' = Started(i)
    BY DEF Checkpoint, Close, Started
  <1>8. Recorded'
    <2>1. CASE Checkpoint(m) /\ UNCHANGED place
      <3>1. \A i \in Item : /\ Closing(i)' = Closing(i)
                            /\ <<"exec", i>> \in updates' <=>
                                 <<"exec", i>> \in updates \/ i \in Open(m)
        BY <2>1 DEF Checkpoint, Closing
      <3>. QED  BY <1>1, <1>2, <1>7, <2>1, <3>1 DEF Recorded
    <2>2. CASE Close(m)
      <3>1. \A i \in Item : /\ Closing(i)' <=> Closing(i) \/ i \in Open(m)
                            /\ <<"exec", i>> \in updates' <=> <<"exec", i>> \in updates
                            /\ place'[i] = IF i \in Open(m) THEN "final" ELSE place[i]
        BY <2>2 DEF Close, Closing
      <3>. QED  BY <1>1, <1>2, <1>7, <2>2, <3>1 DEF Recorded
    <2>. QED  BY <2>1, <2>2
  <1>9. UsedIn(m) \in Nat /\ SumOver(exec_time', Item) = SumOver(exec_time, Item) + UsedIn(m)
    <2>. DEFINE used == [s \in Session |-> Used(s)]
    <2>1. \A i \in Open(m) : used[i] \in Nat /\ exec_time'[i] = exec_time[i] + used[i]
      BY <1>1, <1>2, TypesOf DEF Used, Clocked, Spent
    <2>2. \A i \in Item : exec_time[i] \in Nat /\ exec_time'[i] \in Nat
      BY <1>2, TypesOf
    <2>3. Item \in SUBSET Item /\ Open(m) \in SUBSET Item
      BY <1>1
    <2>4. UsedIn(m) = SumOver(used, Open(m))
      BY DEF UsedIn
    <2>. HIDE DEF used
    <2>5. SumOver(exec_time', Item) = SumOver(exec_time, Item) + SumOver(used, Open(m))
      BY <1>2, <2>1, <2>2, <2>3, SumOfGrown
    <2>6. SumOver(used, Open(m)) \in Nat
      BY <2>1, <2>3, UnitsAreFinite
    <2>. QED  BY <2>4, <2>5, <2>6
  <1>10. ASSUME ~cached PROVE UNCHANGED <<exec_time, updates, place>> /\ UsedIn(m) = 0
    <2>1. Open(m) = {}
      BY <1>1, <1>10 DEF Confirmed
    <2>2. exec_time' = exec_time
      BY <1>2, <2>1 DEF TypeOK
    <2>3. updates' = updates /\ place' = place
      BY <2>1 DEF Checkpoint, Close, TypeOK
    <2>4. UsedIn(m) = 0
      BY <2>1, SumOfNone DEF UsedIn
    <2>. QED  BY <2>2, <2>3, <2>4
  <1>11. \A t \in Task : t \in Item /\ t \notin Open(m)
    BY <1>1 DEF Item
  <1>. QED  BY <1>1, <1>3, <1>4, <1>5, <1>6, <1>7, <1>8, <1>9, <1>10, <1>11

(* Estimates never exceed the true time, and only what runs is charged.     *)
LEMMA EstimatesAreCharged ==
  ASSUME TimeInv, NEW m \in Machine, ChargeEstimates(m),
         \A t \in Task : place'[t] = place[t]
  PROVE  /\ in_flight' \in Nat /\ charged' \in [Task -> Time]
         /\ \A t \in Task : /\ charged'[t] <= elapsed[t]
                            /\ t \notin On(m, running_tasks) => charged'[t] = charged[t]
         /\ cancelling' \subseteq {t \in Task : place'[t] = "submitted"}
  <1>. USE DEF TimeInv
  <1>. DEFINE running == On(m, running_tasks)
              grown == [t \in Task |-> Max2(Estimate(t) - charged[t], 0)]
  <1>1. running \in SUBSET Item /\ running \subseteq Task
    BY DEF On, TypeOK, Item
  <1>2. \A t \in Task : Estimate(t) \in Nat /\ Estimate(t) <= elapsed[t]
    BY TypesOf, ProjectsAssumption DEF Estimate, Min2, ProjectsAssumption, Item
  <1>3. \A t \in Task : grown[t] \in Nat
    BY <1>2, TypesOf DEF Max2
  <1>4. in_flight' = in_flight + SumOver(grown, running)
    BY DEF ChargeEstimates
  <1>. HIDE DEF grown
  <1>5. SumOver(grown, running) \in Nat
    BY <1>1, <1>3, UnitsAreFinite
  <1>6. \A t \in Task : charged'[t] = IF t \in running THEN Max2(charged[t], Estimate(t))
                                                       ELSE charged[t]
    BY DEF ChargeEstimates
  <1>7. \A t \in Task : charged'[t] \in Nat /\ charged'[t] <= elapsed[t]
    BY <1>2, <1>6, TypesOf DEF Max2, Clocked
  <1>8. charged' \in [Task -> Time]
    <2>1. \A t \in Task : charged'[t] \in Time
      BY <1>7, ProjectsAssumption DEF TypeOK, Time, ProjectsAssumption
    <2>. QED  BY <2>1 DEF ChargeEstimates
  <1>9. cancelling' \subseteq {t \in Task : place'[t] = "submitted"}
    BY DEF ChargeEstimates, TypeOK, Submitted, On
  <1>. QED  BY <1>4, <1>5, <1>6, <1>7, <1>8, <1>9, TypesOf

(* The events that charge the open session and what runs. *)
LEMMA ChargeKeeps ==
  ASSUME TimeInv, NEW m \in Machine, Shutdown(m) \/ PeriodicCheck(m) \/ SessionEnd(m)
  PROVE  TimeInv'
  <1>. USE DEF TimeInv
  <1>1. /\ UNCHANGED <<cached, limit, rowVars, requestVars, jobVars, running_tasks, elapsed,
                       itemRows, controlVars, counters>>
        /\ (Checkpoint(m) /\ UNCHANGED place) \/ Close(m)
        /\ consumed' = consumed + UsedIn(m)
    BY DEF Shutdown, PeriodicCheck, SessionEnd, SettleInFlight
  <1>2. /\ exec_time' \in [Item -> Time] /\ updates' \subseteq Update
        /\ place' \in [Item -> Place]
        /\ \A i \in Item : exec_time'[i] <= Spent(i)
        /\ UsedIn(m) \in Nat
        /\ SumOver(exec_time', Item) = SumOver(exec_time, Item) + UsedIn(m)
        /\ Recorded'
        /\ \A t \in Task : place'[t] = place[t] /\ Started(t)' = Started(t)
        /\ \A i \in Item : place[i] = "new" => place'[i] = "new"
        /\ ~cached => UNCHANGED <<exec_time, updates, place>> /\ UsedIn(m) = 0
    BY <1>1, SessionsAreCharged
  <1>3. /\ in_flight' \in Nat /\ charged' \in [Task -> Time]
        /\ \A t \in Task : /\ charged'[t] <= elapsed[t]
                           /\ t \notin running_tasks => charged'[t] = charged[t]
        /\ cancelling' \subseteq {t \in Task : place'[t] = "submitted"}
    <2>1. CASE PeriodicCheck(m)
      BY <1>2, <2>1, EstimatesAreCharged DEF PeriodicCheck, On
    <2>2. CASE Shutdown(m) \/ SessionEnd(m)
      <3>1. charged' = charged /\ cancelling' = cancelling
        BY <2>2 DEF Shutdown, SessionEnd
      <3>2. in_flight' \in Nat
        <4>1. CASE Shutdown(m)
          <5>1. On(m, running_tasks) \in SUBSET Item /\ On(m, running_tasks) \subseteq Task
            BY DEF On, TypeOK, Item
          <5>2. ChargedIn(m) \in Nat
            BY <5>1, TypesOf, UnitsAreFinite DEF ChargedIn
          <5>. QED  BY <4>1, <5>2, TypesOf DEF Shutdown, SettleInFlight, Max2
        <4>. QED  BY <2>2, <4>1, TypesOf DEF SessionEnd
      <3>. QED  BY <1>2, <3>1, <3>2 DEF Clocked, TypeOK
    <2>. QED  BY <1>1, <2>1, <2>2
  <1>4. pc' \in [Machine -> LauncherState] /\ \A n \in Machine : pc'[n] = "stopped" => pc[n] = "stopped"
    BY DEF Shutdown, PeriodicCheck, SessionEnd, Event, TypeOK, LauncherState
  <1>5. TypeOK'
    <2>1. consumed' \in Nat
      BY <1>1, <1>2, TypesOf
    <2>2. running_tasks' \subseteq {t \in Task : place'[t] = "submitted"}
      BY <1>1, <1>2 DEF TypeOK
    <2>. QED  BY <1>1, <1>2, <1>3, <1>4, <2>1, <2>2 DEF TypeOK
  <1>6. Clocked'
    BY <1>1, <1>2, <1>3 DEF Clocked, Spent
  <1>7. Running'
    <2>1. \A t \in Task : Of[t] \in Machine
      BY ProjectsAssumption DEF ProjectsAssumption, Item
    <2>. QED  BY <1>1, <1>2, <1>3, <1>4, <2>1 DEF Running
  <1>8. Confirmed'
    <2>1. CASE cached
      BY <1>1, <1>2, <2>1 DEF Confirmed
    <2>2. CASE ~cached
      BY <1>1, <1>2, <2>2 DEF Confirmed
    <2>. QED  BY <2>1, <2>2
  <1>9. Filling'
    BY <1>1, <1>2 DEF Filling
  <1>. QED  BY <1>2, <1>5, <1>6, <1>7, <1>8, <1>9

(* A report that a task started begins its estimate, within its true time.  *)
LEMMA StartedKeeps ==
  ASSUME TimeInv, NEW t \in Task, NEW e \in Time, ExecutionStarted(t, e) PROVE TimeInv'
  <1>. USE DEF TimeInv
  <1>1. /\ UNCHANGED <<projectVars, rowVars, requestVars, place, jobVars, charged, cancelling,
                       exec_time, itemRows, controlVars, counters>>
        /\ running_tasks' = running_tasks \cup {t} /\ place[t] = "submitted"
        /\ job[t] \in {"running", "ended"} /\ e <= ran[t] + late[t] /\ pc[Of[t]] = "select"
        /\ pc' = [pc EXCEPT ![Of[t]] = "section"]
        /\ updates' = updates \/ updates' = updates \cup {<<"started", t>>}
        /\ t \in Item /\ Of[t] \in Machine
    BY ProjectsAssumption
    DEF ExecutionStarted, Event, Submitted, On, ProjectsAssumption, Item
  <1>2. /\ elapsed' \in [Task -> Time]
        /\ \A r \in Task : elapsed'[r] = IF r = t THEN Max2(elapsed[t], e) ELSE elapsed[r]
    BY DEF ExecutionStarted, TypeOK, Max2
  <1>3. /\ pc' \in [Machine -> LauncherState]
        /\ \A n \in Machine : pc'[n] = IF n = Of[t] THEN "section" ELSE pc[n]
    BY <1>1 DEF TypeOK, LauncherState
  <1>4. TypeOK'
    <2>1. updates' \subseteq Update
      BY <1>1 DEF TypeOK, Update
    <2>2. running_tasks' \subseteq {r \in Task : place'[r] = "submitted"}
      BY <1>1 DEF TypeOK
    <2>. QED  BY <1>1, <1>2, <1>3, <2>1, <2>2 DEF TypeOK
  <1>5. Clocked'
    <2>1. e \in Nat
      BY ProjectsAssumption DEF Time, ProjectsAssumption
    <2>2. \A r \in Task : /\ elapsed[r] <= elapsed'[r]
                          /\ elapsed'[r] <= Spent(r)
      BY <1>1, <1>2, <2>1, TypesOf DEF Max2, Clocked, Spent
    <2>3. \A r \in Task : /\ charged'[r] <= elapsed'[r] /\ elapsed'[r] <= Spent(r)'
      <3>. SUFFICES ASSUME NEW r \in Task
                    PROVE  charged'[r] <= elapsed'[r] /\ elapsed'[r] <= Spent(r)'
        OBVIOUS
      <3>1. charged[r] <= elapsed[r] /\ elapsed[r] <= elapsed'[r] /\ charged[r] \in Nat
            /\ elapsed[r] \in Nat /\ elapsed'[r] \in Int
        BY <1>2, <2>1, <2>2, TypesOf DEF Clocked, Max2
      <3>. QED  BY <1>1, <2>2, <3>1 DEF Spent
    <2>. QED  BY <1>1, <2>3 DEF Clocked, Spent
  <1>6. Recorded'
    <2>1. \A i \in Item : /\ Closing(i)' = Closing(i)
                          /\ <<"exec", i>> \in updates' <=> <<"exec", i>> \in updates
                          /\ Started(i) => Started(i)'
                          /\ i # t => Started(i)' = Started(i)
      BY <1>1 DEF Closing, Started
    <2>2. t \notin Session
      BY ProjectsAssumption DEF ProjectsAssumption
    <2>. QED  BY <1>1, <2>1, <2>2 DEF Recorded
  <1>7. Running'
    <2>1. \A r \in Task : r # t => Started(r)' = Started(r)
      BY <1>1 DEF Started
    <2>2. \A r \in Task : Of[r] \in Machine
      BY ProjectsAssumption DEF ProjectsAssumption, Item
    <2>. QED  BY <1>1, <1>3, <2>1, <2>2 DEF Running
  <1>8. Confirmed' /\ Filling'
    <2>1. cached
      BY <1>1 DEF Confirmed
    <2>. QED  BY <1>1, <2>1, SameFilling DEF Confirmed
  <1>. QED  BY <1>4, <1>5, <1>6, <1>7, <1>8

(* Tasks that are no longer tracked. *)
LEMMA UntrackKeeps ==
  ASSUME TypeOK, NEW tasks, Untrack(tasks)
  PROVE  /\ elapsed' \in [Task -> Time] /\ charged' \in [Task -> Time]
         /\ \A t \in Task : /\ elapsed'[t] = IF t \in tasks THEN 0 ELSE elapsed[t]
                            /\ charged'[t] = IF t \in tasks THEN 0 ELSE charged[t]
         /\ running_tasks' = running_tasks \ tasks /\ cancelling' = cancelling \ tasks
  <1>1. 0 \in Time
    BY ProjectsAssumption DEF Time, ProjectsAssumption
  <1>. QED  BY <1>1 DEF Untrack, TypeOK

(* The true time of a task that ended is the first it is charged for good.  *)
LEMMA EndedKeeps ==
  ASSUME TimeInv, NEW t \in Task, TaskEnded(t) PROVE TimeInv'
  <1>. USE DEF TimeInv
  <1>1. /\ UNCHANGED <<cached, limit, rowVars, requestVars, jobVars, itemRows, controlVars,
                       counters>>
        /\ place[t] = "submitted" /\ pc[Of[t]] = "select"
        /\ pc' = [pc EXCEPT ![Of[t]] = "section"]
        /\ in_flight' = Max2(in_flight - charged[t], 0) /\ consumed' = consumed + ran[t]
        /\ updates' = updates \cup {<<"final", t>>} /\ Untrack({t})
        /\ t \in Item /\ t \notin Session /\ Of[t] \in Machine
    BY ProjectsAssumption
    DEF TaskEnded, Event, Submitted, On, SettleInFlight, ProjectsAssumption, Item
  <1>2. /\ place' \in [Item -> Place] /\ exec_time' \in [Item -> Time]
        /\ \A i \in Item : /\ place'[i] = IF i = t THEN "final" ELSE place[i]
                           /\ exec_time'[i] = IF i = t THEN ran[t] ELSE exec_time[i]
    BY <1>1 DEF TaskEnded, TypeOK, Place
  <1>3. /\ elapsed' \in [Task -> Time] /\ charged' \in [Task -> Time]
        /\ \A r \in Task : /\ elapsed'[r] = IF r = t THEN 0 ELSE elapsed[r]
                           /\ charged'[r] = IF r = t THEN 0 ELSE charged[r]
        /\ running_tasks' = running_tasks \ {t} /\ cancelling' = cancelling \ {t}
    BY <1>1, UntrackKeeps
  <1>4. /\ pc' \in [Machine -> LauncherState]
        /\ \A n \in Machine : pc'[n] = IF n = Of[t] THEN "section" ELSE pc[n]
    BY <1>1 DEF TypeOK, LauncherState
  <1>5. TypeOK'
    <2>1. in_flight' \in Nat /\ consumed' \in Nat
      BY <1>1, TypesOf DEF Max2
    <2>2. updates' \subseteq Update
      BY <1>1 DEF TypeOK, Update
    <2>3. /\ running_tasks' \subseteq {r \in Task : place'[r] = "submitted"}
          /\ cancelling' \subseteq {r \in Task : place'[r] = "submitted"}
      BY <1>2, <1>3 DEF TypeOK, Item
    <2>. QED  BY <1>1, <1>2, <1>3, <1>4, <2>1, <2>2, <2>3 DEF TypeOK
  <1>6. Clocked'
    <2>1. \A i \in Item : Spent(i)' = Spent(i)
      BY <1>1 DEF Spent
    <2>2. \A i \in Item : exec_time'[i] <= Spent(i)
      BY <1>1, <1>2, TypesOf DEF Clocked, Spent
    <2>3. \A r \in Task : charged'[r] <= elapsed'[r] /\ elapsed'[r] <= Spent(r) /\ r \in Item
      BY <1>1, <1>3, TypesOf DEF Clocked, Item
    <2>. QED  BY <1>1, <2>1, <2>2, <2>3 DEF Clocked
  <1>7. \A i \in Item : /\ Closing(i)' <=> Closing(i) \/ i = t
                        /\ <<"exec", i>> \in updates' <=> <<"exec", i>> \in updates
                        /\ Started(i)' = Started(i)
    BY <1>1 DEF Closing, Started
  <1>8. Recorded'
    BY <1>1, <1>2, <1>7 DEF Recorded
  <1>9. Running'
    <2>1. \A r \in Task : r \in Item /\ Of[r] \in Machine
      BY ProjectsAssumption DEF ProjectsAssumption, Item
    <2>. QED  BY <1>1, <1>2, <1>3, <1>4, <1>7, <2>1 DEF Running
  <1>10. Confirmed' /\ Filling'
    <2>1. cached
      BY <1>1 DEF Confirmed
    <2>2. SumOver(exec_time', Item) = SumOver(exec_time, Item) + SumOver(ran, {t})
      <3>1. exec_time[t] = 0
        BY <1>1 DEF Recorded
      <3>2. \A i \in Item : exec_time[i] \in Nat /\ exec_time'[i] \in Nat
        BY <1>2, TypesOf
      <3>3. \A i \in {t} : ran[i] \in Nat /\ exec_time'[i] = exec_time[i] + ran[i]
        BY <1>1, <1>2, <3>1, TypesOf
      <3>4. Item \in SUBSET Item /\ {t} \in SUBSET Item
        BY <1>1
      <3>. QED  BY <1>2, <3>2, <3>3, <3>4, SumOfGrown
    <2>3. SumOver(ran, {t}) = ran[t]
      BY <1>1, TypesOf, SumOfOne
    <2>4. consumed' = SumOver(exec_time', Item)
      BY <1>1, <2>1, <2>2, <2>3 DEF Confirmed
    <2>. QED  BY <1>1, <2>1, <2>4, SameFilling DEF Confirmed
  <1>. QED  BY <1>5, <1>6, <1>8, <1>9, <1>10

(* A session that opens is the machine's only work. *)
LEMMA OpenKeeps ==
  ASSUME TimeInv, NEW m \in Machine, NEW s \in Session, OpenSession(m, s) PROVE TimeInv'
  <1>. USE DEF TimeInv
  <1>1. /\ UNCHANGED <<projectVars, rowVars, requestVars, jobVars, taskVars, exec_time, itemRows,
                       controlVars, counters>>
        /\ place[s] = "queued" /\ pc[m] = "section" /\ pc' = [pc EXCEPT ![m] = "select"]
        /\ updates' = updates \cup {<<"started", s>>}
        /\ s \in Item /\ s \notin Task
    BY ProjectsAssumption DEF OpenSession, EndSection, ProjectsAssumption, Item, TypeOK
  <1>2. /\ place' \in [Item -> Place]
        /\ \A i \in Item : place'[i] = IF i = s THEN "submitted" ELSE place[i]
    BY <1>1 DEF OpenSession, TypeOK, Place
  <1>3. /\ pc' \in [Machine -> LauncherState]
        /\ \A n \in Machine : pc'[n] = IF n = m THEN "select" ELSE pc[n]
    BY <1>1 DEF TypeOK, LauncherState
  <1>4. TypeOK'
    <2>1. updates' \subseteq Update
      BY <1>1 DEF TypeOK, Update
    <2>2. /\ running_tasks' \subseteq {r \in Task : place'[r] = "submitted"}
          /\ cancelling' \subseteq {r \in Task : place'[r] = "submitted"}
      BY <1>1, <1>2 DEF TypeOK, Item
    <2>. QED  BY <1>1, <1>2, <1>3, <2>1, <2>2 DEF TypeOK
  <1>5. Clocked'
    BY <1>1, SameClocked
  <1>6. \A i \in Item : /\ Closing(i)' = Closing(i)
                        /\ <<"exec", i>> \in updates' <=> <<"exec", i>> \in updates
                        /\ Started(i)' <=> Started(i) \/ i = s
    BY <1>1 DEF Closing, Started
  <1>7. Recorded'
    BY <1>1, <1>2, <1>6 DEF Recorded
  <1>8. Running'
    <2>1. \A r \in Task : r \in Item /\ Of[r] \in Machine
      BY ProjectsAssumption DEF ProjectsAssumption, Item
    <2>. QED  BY <1>1, <1>2, <1>3, <1>6, <2>1 DEF Running
  <1>9. Confirmed' /\ Filling'
    <2>1. cached
      BY <1>1 DEF Confirmed
    <2>. QED  BY <1>1, <2>1, SameFilling DEF Confirmed
  <1>. QED  BY <1>4, <1>5, <1>7, <1>8, <1>9

LEMMA EndKeeps ==
  ASSUME TypeOK, NEW m \in Machine, EndSection(m)
  PROVE  /\ pc' \in [Machine -> LauncherState]
         /\ \A n \in Machine : n # m => pc'[n] = pc[n]
         /\ pc'[m] = IF pc[m] = "stopping" THEN "stopped" ELSE "select"
  BY DEF EndSection, TypeOK, LauncherState

(* What is dispatched has not started; a launcher that ends forgets its     *)
(* tasks.                                                                   *)
LEMMA DispatchKeeps ==
  ASSUME TimeInv, NEW m \in Machine, NEW tasks \in SUBSET On(m, Task), Dispatch(m, tasks)
  PROVE  TimeInv'
  <1>. USE DEF TimeInv
  <1>. DEFINE over == IsOverLimit(consumed, in_flight)
  <1>1. /\ UNCHANGED <<projectVars, rowVars, requestVars, ran, late, exec_time, itemRows,
                       suspended, counters>>
        /\ EndSection(m) /\ Forget(m)
        /\ pc[m] \in {"section", "stopping"} /\ (pc[m] = "stopping" => tasks = {})
        /\ tasks \subseteq Task /\ \A t \in tasks : place[t] = "queued" /\ t \in Item
        /\ updates' = IF over THEN updates \cup ({"final"} \X tasks) ELSE updates
        /\ stop' \subseteq Machine
    BY DEF Dispatch, On, Item, TypeOK
  <1>2. /\ place' \in [Item -> Place] /\ job' \in [Task -> JobState]
        /\ \A i \in Item : place'[i] = IF i \notin tasks THEN place[i]
                                       ELSE IF over THEN "final" ELSE "submitted"
        /\ \A t \in Task : job'[t] = IF t \in tasks /\ ~over THEN "waiting" ELSE job[t]
    BY DEF Dispatch, TypeOK, Place, JobState
  <1>. HIDE DEF over
  <1>3. /\ pc' \in [Machine -> LauncherState]
        /\ \A n \in Machine : n # m => pc'[n] = pc[n]
        /\ pc'[m] = IF pc[m] = "stopping" THEN "stopped" ELSE "select"
    BY <1>1, EndKeeps
  <1>4. /\ elapsed' \in [Task -> Time] /\ charged' \in [Task -> Time]
        /\ running_tasks' \subseteq running_tasks /\ cancelling' \subseteq cancelling
        /\ \A t \in Task :
             \/ elapsed'[t] = elapsed[t] /\ charged'[t] = charged[t]
                  /\ (t \in running_tasks' <=> t \in running_tasks)
             \/ elapsed'[t] = 0 /\ charged'[t] = 0 /\ t \notin running_tasks'
        /\ pc[m] = "stopping" => running_tasks' = running_tasks \ On(m, Task)
    <2>1. CASE pc[m] = "stopping"
      <3>1. Untrack(On(m, Task))
        BY <1>1, <2>1 DEF Forget
      <3>2. /\ elapsed' \in [Task -> Time] /\ charged' \in [Task -> Time]
            /\ \A t \in Task : /\ elapsed'[t] = IF t \in On(m, Task) THEN 0 ELSE elapsed[t]
                               /\ charged'[t] = IF t \in On(m, Task) THEN 0 ELSE charged[t]
            /\ running_tasks' = running_tasks \ On(m, Task)
            /\ cancelling' = cancelling \ On(m, Task)
        BY <3>1, UntrackKeeps
      <3>. QED  BY <3>2
    <2>2. CASE pc[m] # "stopping"
      BY <1>1, <2>2 DEF Forget, TypeOK
    <2>. QED  BY <2>1, <2>2
  <1>5. TypeOK'
    <2>1. updates' \subseteq Update
      BY <1>1 DEF TypeOK, Update
    <2>2. /\ running_tasks' \subseteq {r \in Task : place'[r] = "submitted"}
          /\ cancelling' \subseteq {r \in Task : place'[r] = "submitted"}
      BY <1>1, <1>2, <1>4 DEF TypeOK, Item
    <2>. QED  BY <1>1, <1>2, <1>3, <1>4, <2>1, <2>2 DEF TypeOK
  <1>6. Clocked'
    <2>1. \A i \in Item : Spent(i)' = Spent(i)
      BY <1>1 DEF Spent
    <2>2. \A t \in Task : charged'[t] <= elapsed'[t] /\ elapsed'[t] <= Spent(t)
      <3>. SUFFICES ASSUME NEW t \in Task
                    PROVE  charged'[t] <= elapsed'[t] /\ elapsed'[t] <= Spent(t)
        OBVIOUS
      <3>1. charged[t] <= elapsed[t] /\ elapsed[t] <= Spent(t) /\ Spent(t) \in Nat
        BY TypesOf DEF Clocked, Item
      <3>. QED  BY <1>4, <3>1
    <2>. QED  BY <1>1, <2>1, <2>2 DEF Clocked, Item
  <1>7. \A i \in Item : /\ Closing(i)' <=> Closing(i) \/ (over /\ i \in tasks)
                        /\ <<"exec", i>> \in updates' <=> <<"exec", i>> \in updates
                        /\ Started(i)' = Started(i)
    BY <1>1 DEF Closing, Started
  <1>8. Recorded'
    <2>1. \A i \in tasks : i \in Task /\ i \notin Session /\ place[i] = "queued"
      BY <1>1, ProjectsAssumption DEF ProjectsAssumption
    <2>. QED  BY <1>1, <1>2, <1>7, <2>1 DEF Recorded
  <1>9. Running'
    <2>. SUFFICES ASSUME NEW t \in Task
                  PROVE  /\ t \in running_tasks' \/ Started(t)' => job'[t] \in {"running", "ended"}
                         /\ place'[t] \in {"new", "queued"} => job'[t] = "none"
                         /\ t \notin running_tasks' => charged'[t] = 0
                         /\ pc'[Of[t]] = "stopped" => t \notin running_tasks'
      BY <1>1 DEF Running
    <2>1. t \in Item /\ Of[t] \in Machine
      BY ProjectsAssumption DEF ProjectsAssumption, Item
    <2>2. t \in tasks => ~Started(t) /\ t \notin running_tasks
      BY <1>1, <2>1 DEF Recorded, TypeOK
    <2>3. t \in running_tasks' \/ Started(t)' => job'[t] \in {"running", "ended"}
      BY <1>2, <1>4, <1>7, <2>1, <2>2 DEF Running
    <2>4. place'[t] \in {"new", "queued"} => job'[t] = "none"
      BY <1>2, <2>1 DEF Running
    <2>5. t \notin running_tasks' => charged'[t] = 0
      BY <1>4 DEF Running
    <2>6. pc'[Of[t]] = "stopped" => t \notin running_tasks'
      BY <1>1, <1>3, <1>4, <2>1 DEF Running, On
    <2>. QED  BY <2>3, <2>4, <2>5, <2>6
  <1>10. Confirmed' /\ Filling'
    <2>1. CASE cached
      BY <1>1, <2>1, SameFilling DEF Confirmed
    <2>2. CASE ~cached
      <3>1. tasks = {}
        BY <1>1, <2>2 DEF Confirmed
      <3>2. place' = place /\ updates' = updates
        BY <1>1, <1>2, <3>1 DEF TypeOK
      <3>. QED  BY <1>1, <3>2, SameConfirmed, SameFilling
    <2>. QED  BY <2>1, <2>2
  <1>. QED  BY <1>5, <1>6, <1>8, <1>9, <1>10

(* A write takes an update to the row, and its change to the project's. *)
LEMMA WriteKeeps ==
  ASSUME TimeInv, NEW u \in updates, WriteUpdate(u) PROVE TimeInv'
  <1>. USE DEF TimeInv
  <1>. DEFINE i == u[2]
              written == IF u[1] = "started" THEN row_exec[i] ELSE exec_time[i]
  <1>1. /\ UNCHANGED <<projectVars, row_exists, row_limit, requestVars, place, jobVars, taskVars,
                       exec_time, pc, controlVars, counters>>
        /\ updates' = updates \ {u}
        /\ row_consumed' = row_consumed + written - row_exec[i]
        /\ row_started' = IF u[1] = "started" THEN row_started \cup {i} ELSE row_started
        /\ row_final' = IF u[1] = "final" THEN row_final \cup {i} ELSE row_final
        /\ u[1] = "final" => <<"exec", i>> \notin updates
        /\ u[1] # "started" => <<"started", i>> \notin updates
    BY DEF WriteUpdate
  <1>2. u = <<u[1], i>> /\ u[1] \in {"started", "exec", "final"} /\ i \in Item
    BY DEF TypeOK, Update
  <1>3. written \in Time /\ written \in Nat /\ written <= Spent(i)
    BY <1>2, TypesOf DEF TypeOK, Clocked
  <1>4. /\ row_exec' \in [Item -> Time]
        /\ \A j \in Item : row_exec'[j] = IF j = i THEN written ELSE row_exec[j]
    BY <1>2, <1>3 DEF WriteUpdate, TypeOK
  <1>5. row_consumed' = SumOver(row_exec', Item) /\ row_consumed' \in Nat
    <2>1. /\ SumOver(row_exec, Item) + SumOver(row_exec', {i})
               = SumOver(row_exec', Item) + SumOver(row_exec, {i})
          /\ SumOver(row_exec', Item) \in Nat /\ SumOver(row_exec, Item) \in Nat
      <3>1. \A j \in Item : row_exec[j] \in Nat /\ row_exec'[j] \in Nat
        BY <1>3, <1>4, TypesOf
      <3>2. \A j \in Item \ {i} : row_exec[j] = row_exec'[j]
        BY <1>4
      <3>3. Item \in SUBSET Item /\ {i} \in SUBSET Item
        BY <1>2
      <3>. QED  BY <3>1, <3>2, <3>3, SumOfChanged
    <2>2. SumOver(row_exec, {i}) = row_exec[i] /\ SumOver(row_exec', {i}) = written
      BY <1>2, <1>3, <1>4, TypesOf, SumOfOne
    <2>3. row_exec[i] \in Nat
      BY <1>2, TypesOf
    <2>. HIDE DEF i, written
    <2>. QED  BY <1>1, <1>3, <2>1, <2>2, <2>3 DEF Confirmed
  <1>6. \A j \in Item : /\ <<"started", j>> \in updates' <=>
                             <<"started", j>> \in updates /\ u # <<"started", j>>
                        /\ <<"exec", j>> \in updates' <=>
                             <<"exec", j>> \in updates /\ u # <<"exec", j>>
                        /\ <<"final", j>> \in updates' <=>
                             <<"final", j>> \in updates /\ u # <<"final", j>>
    BY <1>1
  <1>7. \A j \in Item : Started(j)' = Started(j) /\ (j # i => Closing(j)' = Closing(j))
    BY <1>1, <1>2, <1>6 DEF Started, Closing
  <1>8. TypeOK'
    <2>1. updates' \subseteq Update /\ row_started' \subseteq Item /\ row_final' \subseteq Item
      BY <1>1, <1>2 DEF TypeOK
    <2>. QED  BY <1>1, <1>4, <1>5, <2>1 DEF TypeOK
  <1>9. Clocked'
    BY <1>1, <1>3, <1>4 DEF Clocked, Spent
  <1>10. Recorded'
    <2>. SUFFICES ASSUME NEW j \in Item
                  PROVE  /\ j \in row_final' \/ Closing(j)' <=> place[j] = "final"
                         /\ exec_time[j] # row_exec'[j]
                              => <<"exec", j>> \in updates' \/ Closing(j)'
                         /\ <<"exec", j>> \in updates' => j \in Session /\ Started(j)'
                         /\ j \in Task => /\ exec_time[j] # 0 => place[j] = "final"
                                          /\ row_exec'[j] # 0 => j \in row_final'
                         /\ j \in Session =>
                              /\ exec_time[j] # 0 \/ place[j] = "submitted" => Started(j)'
                              /\ row_exec'[j] # 0 => j \in row_started'
                         /\ place[j] \in {"new", "queued"} =>
                              ~Started(j)' /\ exec_time[j] = 0 /\ row_exec'[j] = 0
      BY <1>1 DEF Recorded
    <2>1. CASE j # i
      <3>1. row_exec'[j] = row_exec[j] /\ (j \in row_final' <=> j \in row_final)
            /\ (j \in row_started' <=> j \in row_started)
            /\ (<<"exec", j>> \in updates' <=> <<"exec", j>> \in updates)
        BY <1>1, <1>2, <1>4, <1>6, <2>1
      <3>. QED  BY <1>7, <2>1, <3>1 DEF Recorded
    <2>2. CASE j = i /\ u[1] = "started"
      <3>1. row_exec'[j] = row_exec[j] /\ (j \in row_final' <=> j \in row_final)
            /\ j \in row_started' /\ Closing(j)' = Closing(j)
            /\ (<<"exec", j>> \in updates' <=> <<"exec", j>> \in updates)
        BY <1>1, <1>2, <1>4, <1>6, <2>2 DEF Closing
      <3>. QED  BY <1>7, <3>1 DEF Recorded
    <2>3. CASE j = i /\ u[1] = "exec"
      <3>1. row_exec'[j] = exec_time[j] /\ (j \in row_final' <=> j \in row_final)
            /\ (j \in row_started' <=> j \in row_started) /\ Closing(j)' = Closing(j)
            /\ <<"exec", j>> \notin updates' /\ <<"exec", j>> \in updates
            /\ <<"started", j>> \notin updates
        BY <1>1, <1>2, <1>4, <1>6, <2>3 DEF Closing
      <3>2. j \in Session /\ j \notin Task
        BY <3>1, ProjectsAssumption DEF Recorded, ProjectsAssumption
      <3>. QED  BY <1>7, <3>1, <3>2 DEF Recorded, Started
    <2>4. CASE j = i /\ u[1] = "final"
      <3>1. row_exec'[j] = exec_time[j] /\ j \in row_final'
            /\ (j \in row_started' <=> j \in row_started)
            /\ <<"exec", j>> \notin updates' /\ Closing(j)
            /\ <<"started", j>> \notin updates
        BY <1>1, <1>2, <1>4, <1>6, <2>4 DEF Closing
      <3>. QED  BY <1>7, <3>1 DEF Recorded, Started
    <2>. QED  BY <1>2, <2>1, <2>2, <2>3, <2>4
  <1>11. Running'
    BY <1>1, <1>7 DEF Running, Item
  <1>12. Confirmed' /\ Filling'
    <2>1. cached
      BY DEF Confirmed
    <2>. QED  BY <1>1, <1>5, <2>1 DEF Confirmed, Filling
  <1>. QED  BY <1>8, <1>9, <1>10, <1>11, <1>12

(* A suspension charges what runs with its estimate, which is still within  *)
(* the truth, and what waits with nothing.                                  *)
LEMMA SuspensionKeeps ==
  ASSUME TimeInv, NEW m \in Machine, ApplySuspension(m) PROVE TimeInv'
  <1>. USE DEF TimeInv
  <1>. DEFINE tasks == Submitted(m)
              failed == {i \in On(m, Item) : place[i] \in {"queued", "submitted"}}
              Final(i) == IF i \in tasks \cap running_tasks THEN Estimate(i)
                          ELSE IF i \in Open(m) THEN ran[i] ELSE 0
              final == [i \in Item |-> Final(i)]
  <1>1. /\ UNCHANGED <<cached, limit, rowVars, requestVars, jobVars, itemRows, stop, counters>>
        /\ EndSection(m) /\ pc[m] \in {"section", "stopping"} /\ suspended' = suspended \ {m}
        /\ updates' = updates \cup ({"final"} \X failed)
        /\ in_flight' = Max2(in_flight - SumOver(charged, tasks), 0)
        /\ consumed' = consumed + (SumOver(final, tasks) + UsedIn(m))
        /\ Untrack(On(m, Task))
        /\ place' = [i \in Item |-> IF i \in failed THEN "final" ELSE place[i]]
        /\ exec_time' = [i \in Item |-> IF i \in failed THEN Final(i) ELSE exec_time[i]]
    BY DEF ApplySuspension, SettleInFlight
  <1>2. /\ tasks \subseteq Task /\ Open(m) \subseteq Session /\ tasks \subseteq failed
        /\ Open(m) \subseteq failed /\ failed \subseteq Item
        /\ On(m, Task) \subseteq Task /\ tasks \subseteq On(m, Task)
        /\ tasks \cap Open(m) = {}
        /\ \A i \in failed : place[i] \in {"queued", "submitted"}
        /\ \A i \in failed : i \notin tasks /\ i \notin Open(m) => place[i] = "queued"
        /\ \A i \in tasks \cup Open(m) : place[i] = "submitted"
        /\ \A i \in Item : i \in Task \/ i \in Session
    BY ProjectsAssumption DEF Submitted, Open, On, Item, ProjectsAssumption
  <1>3. \A i \in Item : /\ final[i] = Final(i) /\ final[i] \in Nat /\ final[i] <= Spent(i)
                        /\ i \in Open(m) => final[i] = ran[i]
                        /\ i \notin tasks /\ i \notin Open(m) => final[i] = 0
    <2>1. \A t \in Task : Estimate(t) \in Nat /\ Estimate(t) <= Spent(t)
      BY TypesOf, ProjectsAssumption DEF Estimate, Min2, ProjectsAssumption, Item, Clocked
    <2>2. \A i \in Open(m) : i \in Item /\ ran[i] \in Nat /\ ran[i] <= Spent(i)
                             /\ i \notin tasks
      BY <1>2, TypesOf, ProjectsAssumption DEF Spent, ProjectsAssumption
    <2>3. \A i \in Item : 0 <= Spent(i)
      BY TypesOf
    <2>. QED  BY <1>2, <2>1, <2>2, <2>3
  <1>. HIDE DEF final, tasks, failed
  <1>4. /\ place' \in [Item -> Place]
        /\ \A i \in Item : /\ place'[i] = IF i \in failed THEN "final" ELSE place[i]
                           /\ exec_time'[i] = IF i \in failed THEN final[i] ELSE exec_time[i]
    BY <1>1, <1>3 DEF TypeOK, Place
  <1>5. /\ \A i \in Item : exec_time'[i] \in Nat /\ exec_time'[i] <= Spent(i)
        /\ exec_time' \in [Item -> Time]
    <2>1. \A i \in Item : exec_time'[i] \in Nat /\ exec_time'[i] <= Spent(i)
      BY <1>3, <1>4, TypesOf DEF Clocked
    <2>2. \A i \in Item : Spent(i) <= now /\ now <= MaxTime /\ MaxTime \in Nat
      BY ProjectsAssumption DEF Clocked, TypeOK, Time, ProjectsAssumption
    <2>3. \A i \in Item : exec_time'[i] \in Time
      BY <2>1, <2>2, TypesOf DEF Time
    <2>. QED  BY <1>1, <2>1, <2>3
  <1>6. /\ elapsed' \in [Task -> Time] /\ charged' \in [Task -> Time]
        /\ \A t \in Task : /\ elapsed'[t] = IF t \in On(m, Task) THEN 0 ELSE elapsed[t]
                           /\ charged'[t] = IF t \in On(m, Task) THEN 0 ELSE charged[t]
        /\ running_tasks' = running_tasks \ On(m, Task)
        /\ cancelling' = cancelling \ On(m, Task)
    BY <1>1, UntrackKeeps
  <1>7. /\ pc' \in [Machine -> LauncherState]
        /\ \A n \in Machine : n # m => pc'[n] = pc[n]
        /\ pc'[m] = IF pc[m] = "stopping" THEN "stopped" ELSE "select"
    BY <1>1, EndKeeps
  <1>8. /\ SumOver(charged, tasks) \in Nat /\ SumOver(final, tasks) \in Nat /\ UsedIn(m) \in Nat
        /\ SumOver(exec_time', Item) = SumOver(exec_time, Item) + (SumOver(final, tasks) + UsedIn(m))
    <2>. DEFINE used == [s \in Session |-> Used(s)]
                more == [i \in Item |-> exec_time'[i] - exec_time[i]]
                both == tasks \cup Open(m)
    <2>1. /\ tasks \in SUBSET Item /\ Open(m) \in SUBSET Item /\ both \in SUBSET Item
          /\ tasks \cap Open(m) = {} /\ both \subseteq failed
      BY <1>2 DEF Item
    <2>2. \A i \in tasks : final[i] \in Nat /\ charged[i] \in Nat /\ more[i] = final[i]
      <3>1. \A i \in tasks : exec_time[i] = 0
        BY <1>2, <2>1 DEF Recorded
      <3>. QED  BY <1>2, <1>3, <1>4, <2>1, <3>1, TypesOf
    <2>3. \A i \in Open(m) : used[i] \in Nat /\ more[i] = used[i]
      <3>1. \A i \in Open(m) : i \in Item /\ i \in Session /\ i \notin Task /\ exec_time'[i] = ran[i]
        BY <1>2, <1>3, <1>4, <2>1, ProjectsAssumption DEF ProjectsAssumption
      <3>. QED  BY <3>1, TypesOf DEF Used, Clocked, Spent
    <2>4. \A i \in Item \ both : exec_time'[i] = exec_time[i]
      <3>1. \A i \in failed : i \notin both => exec_time[i] = 0 /\ final[i] = 0
        BY <1>2, <1>3 DEF Recorded
      <3>. QED  BY <1>4, <3>1
    <2>5. \A i \in both : more[i] \in Nat /\ exec_time'[i] = exec_time[i] + more[i]
      <3>1. \A i \in both : more[i] \in Nat /\ i \in Item
        BY <2>1, <2>2, <2>3
      <3>2. \A i \in both : more[i] = exec_time'[i] - exec_time[i]
        BY <3>1
      <3>. HIDE DEF more
      <3>. QED  BY <1>5, <3>1, <3>2, TypesOf
    <2>. HIDE DEF more, used
    <2>6. SumOver(exec_time', Item) = SumOver(exec_time, Item) + SumOver(more, both)
      <3>1. \A i \in Item : exec_time[i] \in Nat /\ exec_time'[i] \in Nat
        BY <1>5, TypesOf
      <3>2. Item \in SUBSET Item
        OBVIOUS
      <3>. HIDE DEF both
      <3>. QED  BY <2>1, <2>4, <2>5, <3>1, <3>2, SumOfGrown
    <2>7. SumOver(more, both) = SumOver(more, tasks) + SumOver(more, Open(m))
      BY <2>1, <2>5, SumOfUnion
    <2>8. SumOver(more, tasks) = SumOver(final, tasks) /\ SumOver(more, Open(m)) = UsedIn(m)
      <3>1. UsedIn(m) = SumOver(used, Open(m))
        BY DEF UsedIn, used
      <3>. QED  BY <2>2, <2>3, <3>1, SumOfSame
    <2>9. SumOver(charged, tasks) \in Nat /\ SumOver(final, tasks) \in Nat
      BY <2>1, <2>2, UnitsAreFinite
    <2>10. SumOver(used, Open(m)) \in Nat
      BY <2>1, <2>3, UnitsAreFinite
    <2>. QED  BY <2>6, <2>7, <2>8, <2>9, <2>10 DEF UsedIn, used
  <1>9. TypeOK'
    <2>1. in_flight' \in Nat /\ consumed' \in Nat
      BY <1>1, <1>8, TypesOf DEF Max2
    <2>2. updates' \subseteq Update /\ suspended' \subseteq Machine
      BY <1>1, <1>2 DEF TypeOK, Update
    <2>3. /\ running_tasks' \subseteq {r \in Task : place'[r] = "submitted"}
          /\ cancelling' \subseteq {r \in Task : place'[r] = "submitted"}
      <3>1. \A r \in Task : r \notin On(m, Task) => r \in Item /\ r \notin failed
        BY DEF On, Item, failed
      <3>. QED  BY <1>4, <1>6, <3>1 DEF TypeOK
    <2>. QED  BY <1>1, <1>4, <1>5, <1>6, <1>7, <2>1, <2>2, <2>3 DEF TypeOK
  <1>10. Clocked'
    <2>1. \A i \in Item : Spent(i)' = Spent(i)
      BY <1>1 DEF Spent
    <2>2. \A t \in Task : charged'[t] <= elapsed'[t] /\ elapsed'[t] <= Spent(t) /\ t \in Item
      BY <1>6, TypesOf DEF Clocked, Item
    <2>. QED  BY <1>1, <1>5, <2>1, <2>2 DEF Clocked
  <1>11. \A i \in Item : /\ Closing(i)' <=> Closing(i) \/ i \in failed
                         /\ <<"exec", i>> \in updates' <=> <<"exec", i>> \in updates
                         /\ Started(i)' = Started(i)
    BY <1>1 DEF Closing, Started
  <1>12. Recorded'
    <2>1. \A i \in failed : i \in Session /\ exec_time'[i] # 0 => Started(i)
      BY <1>2, <1>3, <1>4 DEF Recorded
    <2>. QED  BY <1>1, <1>2, <1>4, <1>11, <2>1 DEF Recorded
  <1>13. Running'
    <2>1. \A r \in Task : r \in Item /\ Of[r] \in Machine /\ (Of[r] = m => r \in On(m, Task))
      BY ProjectsAssumption DEF ProjectsAssumption, Item, On
    <2>. QED  BY <1>1, <1>4, <1>6, <1>7, <1>11, <2>1 DEF Running
  <1>14. Confirmed' /\ Filling'
    <2>1. CASE cached
      BY <1>1, <1>8, <2>1, SameFilling DEF Confirmed
    <2>2. CASE ~cached
      <3>1. failed = {}
        BY <1>2, <2>2 DEF Confirmed
      <3>2. place' = place /\ updates' = updates
        BY <1>1, <1>4, <3>1 DEF TypeOK
      <3>3. tasks = {} /\ Open(m) = {}
        BY <1>2, <3>1
      <3>4. SumOver(final, tasks) = 0 /\ UsedIn(m) = 0
        BY <3>3, SumOfNone DEF UsedIn
      <3>5. consumed' = consumed
        BY <1>1, <3>4, TypesOf
      <3>. QED  BY <1>1, <2>2, <3>2, <3>5, SameFilling DEF Confirmed
    <2>. QED  BY <2>1, <2>2
  <1>. QED  BY <1>9, <1>10, <1>12, <1>13, <1>14

(* What is restored, by one launcher or by all, is what rows say, once      *)
(* nothing is left to be written of it.                                     *)
LEMMA ResumeKeeps ==
  ASSUME TimeInv, NEW items \in SUBSET Item, NEW e \in [Task -> Time], Resume(items, e),
         updates' = {u \in updates : u[2] \notin items}, UNCHANGED now
  PROVE  /\ place' \in [Item -> Place] /\ ran' \in [Item -> Time] /\ exec_time' \in [Item -> Time]
         /\ elapsed' \in [Task -> Time] /\ charged' \in [Task -> Time]
         /\ row_final' \subseteq Item
         /\ running_tasks' \subseteq {t \in Task : place'[t] = "submitted"}
         /\ cancelling' \subseteq {t \in Task : place'[t] = "submitted"}
         /\ UNCHANGED <<row_exec, row_started, job, late>>
         /\ Clocked' /\ Recorded'
         /\ \A i \in Item : exec_time'[i] = IF i \in items THEN row_exec[i] ELSE exec_time[i]
         /\ \A i \in Item : place'[i] = IF i \in items THEN Restored(i) ELSE place[i]
         /\ \A t \in Task : /\ t \in running_tasks' \/ Started(t)' => job[t] \in {"running", "ended"}
                            /\ place'[t] \in {"new", "queued"} => job[t] = "none"
                            /\ charged'[t] = IF t \in items THEN 0 ELSE charged[t]
                            /\ t \notin items => (t \in running_tasks' <=> t \in running_tasks)
  <1>. USE DEF TimeInv
  <1>. DEFINE tracked == {t \in items \cap Task : Restored(t) = "submitted"} \cap row_started
  <1>1. /\ \A t \in Task : e[t] <= IF t \in tracked THEN ran[t] + late[t] ELSE 0
        /\ running_tasks' = (running_tasks \ items) \cup tracked
        /\ elapsed' = [t \in Task |-> IF t \in items THEN e[t] ELSE elapsed[t]]
        /\ charged' = [t \in Task |-> IF t \in items THEN 0 ELSE charged[t]]
        /\ cancelling' = cancelling \ items
        /\ place' = [i \in Item |-> IF i \in items THEN Restored(i) ELSE place[i]]
        /\ row_final' = row_final \cup {s \in items \cap Session : s \in row_started}
        /\ exec_time' = [i \in Item |-> IF i \in items THEN row_exec[i] ELSE exec_time[i]]
        /\ ran' = [i \in Item |-> IF i \in items \cap Session THEN row_exec[i] ELSE ran[i]]
        /\ UNCHANGED <<row_exec, row_started, job, late>>
    BY DEF Resume
  <1>2. \A i \in Item : i \in Task <=> i \notin Session
    BY ProjectsAssumption DEF ProjectsAssumption, Item
  <1>3. \A i \in Item : Restored(i) \in Place
    BY DEF Restored, TypeOK, Place
  <1>4. 0 \in Time
    BY ProjectsAssumption DEF Time, ProjectsAssumption
  <1>5. /\ place' \in [Item -> Place] /\ ran' \in [Item -> Time] /\ exec_time' \in [Item -> Time]
        /\ elapsed' \in [Task -> Time] /\ charged' \in [Task -> Time]
    BY <1>1, <1>3, <1>4 DEF TypeOK
  <1>6. /\ row_final' \subseteq Item
        /\ running_tasks' \subseteq {t \in Task : place'[t] = "submitted"}
        /\ cancelling' \subseteq {t \in Task : place'[t] = "submitted"}
    BY <1>1 DEF TypeOK, Item
  <1>7. \A i \in Item :
          /\ <<"started", i>> \in updates' <=> <<"started", i>> \in updates /\ i \notin items
          /\ <<"exec", i>> \in updates' <=> <<"exec", i>> \in updates /\ i \notin items
          /\ <<"final", i>> \in updates' <=> <<"final", i>> \in updates /\ i \notin items
    OBVIOUS
  <1>8. /\ \A i \in items : (Started(i)' <=> i \in row_started) /\ ~Closing(i)'
        /\ \A i \in Item : i \notin items => Started(i)' = Started(i) /\ Closing(i)' = Closing(i)
    BY <1>1, <1>7 DEF Started, Closing
  <1>9. Clocked'
    <2>1. \A i \in Item : /\ Spent(i)' = IF i \in items \cap Session THEN row_exec[i] ELSE Spent(i)
                          /\ Spent(i)' \in Nat /\ Spent(i)' <= Spent(i) /\ row_exec[i] <= Spent(i)'
                          /\ exec_time'[i] <= Spent(i)'
      <3>. SUFFICES ASSUME NEW i \in Item
                    PROVE  /\ Spent(i)' = IF i \in items \cap Session THEN row_exec[i] ELSE Spent(i)
                           /\ Spent(i)' \in Nat /\ Spent(i)' <= Spent(i)
                           /\ row_exec[i] <= Spent(i)' /\ exec_time'[i] <= Spent(i)'
        OBVIOUS
      <3>1. Spent(i)' = IF i \in items \cap Session THEN row_exec[i] ELSE Spent(i)
        BY <1>1, <1>2 DEF Spent
      <3>2. /\ row_exec[i] <= Spent(i) /\ exec_time[i] <= Spent(i) /\ row_exec[i] \in Nat
            /\ Spent(i) \in Nat /\ exec_time[i] \in Nat
        BY TypesOf DEF Clocked
      <3>3. exec_time'[i] = IF i \in items THEN row_exec[i] ELSE exec_time[i]
        BY <1>1
      <3>. QED  BY <3>1, <3>2, <3>3
    <2>2. \A i \in Item : Spent(i)' <= now
      BY <2>1, TypesOf DEF Clocked
    <2>3. \A t \in Task : charged'[t] <= elapsed'[t] /\ elapsed'[t] <= Spent(t)'
      <3>. SUFFICES ASSUME NEW t \in Task
                    PROVE  charged'[t] <= elapsed'[t] /\ elapsed'[t] <= Spent(t)'
        OBVIOUS
      <3>1. Spent(t)' = ran[t] + late[t] /\ Spent(t) = ran[t] + late[t] /\ t \in Item
            /\ ran[t] \in Nat /\ late[t] \in Nat
        BY <1>1, <1>2, TypesOf DEF Spent, Item
      <3>2. e[t] \in Nat
        BY ProjectsAssumption DEF Time, ProjectsAssumption
      <3>3. CASE t \in items
        <4>1. elapsed'[t] = e[t] /\ charged'[t] = 0 /\ e[t] <= ran[t] + late[t]
          BY <1>1, <3>1, <3>2, <3>3
        <4>. QED  BY <3>1, <3>2, <4>1
      <3>4. CASE t \notin items
        BY <1>1, <3>1, <3>4 DEF Clocked
      <3>. QED  BY <3>3, <3>4
    <2>. QED  BY <1>1, <2>1, <2>2, <2>3 DEF Clocked
  <1>10. Recorded'
    <2>. SUFFICES ASSUME NEW i \in Item
                  PROVE  /\ i \in row_final' \/ Closing(i)' <=> place'[i] = "final"
                         /\ exec_time'[i] # row_exec'[i]
                              => <<"exec", i>> \in updates' \/ Closing(i)'
                         /\ <<"exec", i>> \in updates' => i \in Session /\ Started(i)'
                         /\ i \in Task => /\ exec_time'[i] # 0 => place'[i] = "final"
                                          /\ row_exec'[i] # 0 => i \in row_final'
                         /\ i \in Session =>
                              /\ exec_time'[i] # 0 \/ place'[i] = "submitted" => Started(i)'
                              /\ row_exec'[i] # 0 => i \in row_started'
                         /\ place'[i] \in {"new", "queued"} =>
                              ~Started(i)' /\ exec_time'[i] = 0 /\ row_exec'[i] = 0
      BY DEF Recorded
    <2>1. CASE i \notin items
      <3>1. /\ exec_time'[i] = exec_time[i] /\ place'[i] = place[i] /\ row_exec'[i] = row_exec[i]
            /\ (i \in row_final' <=> i \in row_final) /\ (i \in row_started' <=> i \in row_started)
        BY <1>1, <2>1
      <3>. QED  BY <1>7, <1>8, <2>1, <3>1 DEF Recorded
    <2>2. CASE i \in items
      <3>1. /\ exec_time'[i] = row_exec[i] /\ place'[i] = Restored(i) /\ row_exec'[i] = row_exec[i]
            /\ i \in row_final' <=> i \in row_final \/ (i \in Session /\ i \in row_started)
            /\ row_started' = row_started
        BY <1>1, <2>2
      <3>2. /\ i \in row_final => place[i] = "final"
            /\ place[i] = "new" => i \notin row_started /\ row_exec[i] = 0
            /\ i \in Task => (row_exec[i] # 0 => i \in row_final)
            /\ i \in Session => (row_exec[i] # 0 => i \in row_started)
        BY DEF Recorded, Started
      <3>3. /\ Restored(i) = "final" <=> i \in row_final'
            /\ i \in Session => Restored(i) # "submitted"
            /\ i \in Session /\ Restored(i) \in {"new", "queued"} => i \notin row_started
            /\ i \in Task /\ Restored(i) = "new" => i \notin row_started
            /\ i \in Task /\ Restored(i) = "queued" => job[i] = "none"
        BY <1>2, <3>1, <3>2 DEF Restored
      <3>4. i \in Task /\ i \in row_started => job[i] # "none"
        BY DEF Running, Started
      <3>. QED  BY <1>2, <1>7, <1>8, <2>2, <3>1, <3>2, <3>3, <3>4
    <2>. QED  BY <2>1, <2>2
  <1>11. \A t \in Task :
           /\ t \in running_tasks' \/ Started(t)' => job[t] \in {"running", "ended"}
           /\ place'[t] \in {"new", "queued"} => job[t] = "none"
           /\ charged'[t] = IF t \in items THEN 0 ELSE charged[t]
           /\ t \notin items => (t \in running_tasks' <=> t \in running_tasks)
    <2>. SUFFICES ASSUME NEW t \in Task
                  PROVE  /\ t \in running_tasks' \/ Started(t)' => job[t] \in {"running", "ended"}
                         /\ place'[t] \in {"new", "queued"} => job[t] = "none"
                         /\ charged'[t] = IF t \in items THEN 0 ELSE charged[t]
                         /\ t \notin items => (t \in running_tasks' <=> t \in running_tasks)
      OBVIOUS
    <2>1. t \in Item /\ t \notin Session
      BY <1>2 DEF Item
    <2>2. Started(t)' => Started(t)
      BY <1>8, <2>1 DEF Started
    <2>3. t \in running_tasks' => t \in running_tasks \/ Started(t)
      BY <1>1 DEF Started
    <2>4. place'[t] \in {"new", "queued"} => job[t] = "none"
      <3>1. CASE t \notin items
        BY <1>1, <2>1, <3>1 DEF Running
      <3>2. CASE t \in items
        <4>1. place'[t] = Restored(t)
          BY <1>1, <2>1, <3>2
        <4>2. t \in row_final => place[t] = "final"
          BY <2>1 DEF Recorded
        <4>. QED  BY <2>1, <4>1, <4>2 DEF Restored, Running
      <3>. QED  BY <3>1, <3>2
    <2>. QED  BY <1>1, <2>2, <2>3, <2>4 DEF Running
  <1>. QED  BY <1>1, <1>5, <1>6, <1>9, <1>10, <1>11

LEMMA RestartKeeps ==
  ASSUME TimeInv, NEW m \in Machine, NEW e \in [Task -> Time], Restart(m, e) PROVE TimeInv'
  <1>. USE DEF TimeInv
  <1>. DEFINE items == On(m, Item)
  <1>1. /\ UNCHANGED <<projectVars, rowVars, requestVars, updates, counters>>
        /\ Flushed(m) /\ Resume(items, e) /\ pc[m] = "stopped"
        /\ suspended' \subseteq Machine /\ stop' \subseteq Machine
        /\ items \in SUBSET Item /\ \A i \in items : Of[i] = m
    BY DEF Restart, On, TypeOK
  <1>2. /\ pc' \in [Machine -> LauncherState]
        /\ \A n \in Machine : pc'[n] = IF n = m THEN "select" ELSE pc[n]
    BY DEF Restart, TypeOK, LauncherState
  <1>3. \A u \in updates : u[2] \notin items /\ u[2] \in Item
    BY <1>1 DEF Flushed, TypeOK, Update
  <1>4. updates' = {u \in updates : u[2] \notin items}
    BY <1>1, <1>3
  <1>. HIDE DEF items
  <1>5. /\ place' \in [Item -> Place] /\ ran' \in [Item -> Time] /\ exec_time' \in [Item -> Time]
        /\ elapsed' \in [Task -> Time] /\ charged' \in [Task -> Time]
        /\ row_final' \subseteq Item
        /\ running_tasks' \subseteq {t \in Task : place'[t] = "submitted"}
        /\ cancelling' \subseteq {t \in Task : place'[t] = "submitted"}
        /\ UNCHANGED <<row_exec, row_started, job, late>>
        /\ Clocked' /\ Recorded'
        /\ \A i \in Item : exec_time'[i] = IF i \in items THEN row_exec[i] ELSE exec_time[i]
        /\ \A i \in Item : place'[i] = IF i \in items THEN Restored(i) ELSE place[i]
        /\ \A t \in Task : /\ t \in running_tasks' \/ Started(t)' => job[t] \in {"running", "ended"}
                           /\ place'[t] \in {"new", "queued"} => job[t] = "none"
                           /\ charged'[t] = IF t \in items THEN 0 ELSE charged[t]
                           /\ t \notin items => (t \in running_tasks' <=> t \in running_tasks)
    BY <1>1, <1>4, ResumeKeeps
  <1>6. TypeOK'
    BY <1>1, <1>2, <1>5 DEF TypeOK
  <1>7. Running'
    <2>1. \A t \in Task : t \in Item /\ Of[t] \in Machine /\ (Of[t] = m => t \in items)
      BY ProjectsAssumption DEF ProjectsAssumption, Item, On, items
    <2>2. \A t \in items \cap Task : t \notin running_tasks
      BY <1>1 DEF Running
    <2>. QED  BY <1>1, <1>2, <1>5, <2>1, <2>2 DEF Running
  <1>8. exec_time' = exec_time
    <2>1. \A i \in items : exec_time[i] = row_exec[i]
      BY <1>1, <1>3 DEF Recorded, Closing
    <2>2. \A i \in Item : exec_time'[i] = exec_time[i]
      BY <1>5, <2>1
    <2>. QED  BY <1>5, <2>2 DEF TypeOK
  <1>9. Confirmed' /\ Filling'
    <2>1. ~cached => \A i \in Item : place'[i] \in {"new", "final"}
      <3>1. ~cached => \A i \in Item : place[i] = "new" \/ i \in row_final
        BY DEF Confirmed, Recorded, Closing
      <3>. QED  BY <1>5, <3>1 DEF Confirmed, Restored
    <2>2. \A i \in Item : place[i] = "new" => place'[i] = "new"
      BY <1>5 DEF Restored
    <2>. QED  BY <1>1, <1>5, <1>8, <2>1, <2>2 DEF Confirmed, Filling
  <1>. QED  BY <1>5, <1>6, <1>7, <1>9

LEMMA CrashKeeps ==
  ASSUME TimeInv, NEW e \in [Task -> Time], Crash(e) PROVE TimeInv'
  <1>. USE DEF TimeInv
  <1>. DEFINE needed == \E i \in Item : Restored(i) \in {"queued", "submitted"}
  <1>1. /\ UNCHANGED <<rowVars, offered, now>>
        /\ cached' = needed /\ in_flight' = 0
        /\ limit' = IF needed THEN row_limit ELSE 0
        /\ consumed' = IF needed THEN row_consumed ELSE 0
        /\ request' = [c \in Client |-> IF c \in Task /\ place[c] = "new" THEN "idle" ELSE "done"]
        /\ asked' = [c \in Client |-> 0] /\ seen' = [c \in Client |-> NoRow]
        /\ Resume(Item, e) /\ updates' = {}
        /\ pc' = [m \in Machine |-> "select"] /\ suspended' = {} /\ stop' = {}
        /\ faults' = faults + 1 /\ faults < MaxFaults
    BY DEF Crash
  <1>2. updates' = {u \in updates : u[2] \notin Item}
    BY <1>1 DEF TypeOK, Update
  <1>3. /\ place' \in [Item -> Place] /\ ran' \in [Item -> Time] /\ exec_time' \in [Item -> Time]
        /\ elapsed' \in [Task -> Time] /\ charged' \in [Task -> Time]
        /\ row_final' \subseteq Item
        /\ running_tasks' \subseteq {t \in Task : place'[t] = "submitted"}
        /\ cancelling' \subseteq {t \in Task : place'[t] = "submitted"}
        /\ UNCHANGED <<row_exec, row_started, job, late>>
        /\ Clocked' /\ Recorded'
        /\ \A i \in Item : exec_time'[i] = row_exec[i]
        /\ \A i \in Item : place'[i] = Restored(i)
        /\ \A t \in Task : /\ t \in running_tasks' \/ Started(t)' => job[t] \in {"running", "ended"}
                           /\ place'[t] \in {"new", "queued"} => job[t] = "none"
                           /\ charged'[t] = 0
    <2>. DEFINE items == Item
    <2>1. items \in SUBSET Item /\ \A i \in Item : i \in items
      OBVIOUS
    <2>2. Resume(items, e) /\ updates' = {u \in updates : u[2] \notin items} /\ UNCHANGED now
      BY <1>1, <1>2
    <2>. HIDE DEF items, needed
    <2>3. /\ place' \in [Item -> Place] /\ ran' \in [Item -> Time]
          /\ exec_time' \in [Item -> Time]
          /\ elapsed' \in [Task -> Time] /\ charged' \in [Task -> Time]
          /\ row_final' \subseteq Item
          /\ running_tasks' \subseteq {t \in Task : place'[t] = "submitted"}
          /\ cancelling' \subseteq {t \in Task : place'[t] = "submitted"}
          /\ UNCHANGED <<row_exec, row_started, job, late>>
          /\ Clocked' /\ Recorded'
          /\ \A i \in Item : exec_time'[i] = IF i \in items THEN row_exec[i] ELSE exec_time[i]
          /\ \A i \in Item : place'[i] = IF i \in items THEN Restored(i) ELSE place[i]
          /\ \A t \in Task :
               /\ t \in running_tasks' \/ Started(t)' => job[t] \in {"running", "ended"}
               /\ place'[t] \in {"new", "queued"} => job[t] = "none"
               /\ charged'[t] = IF t \in items THEN 0 ELSE charged[t]
               /\ t \notin items => (t \in running_tasks' <=> t \in running_tasks)
      BY <2>1, <2>2, ResumeKeeps
    <2>4. \A i \in Item : exec_time'[i] = row_exec[i] /\ place'[i] = Restored(i)
      BY <2>1, <2>3
    <2>5. \A t \in Task : charged'[t] = 0
      BY <2>1, <2>3 DEF Item
    <2>. QED  BY <2>3, <2>4, <2>5
  <1>. HIDE DEF needed
  <1>4. TypeOK'
    <2>1. NoRow \in [limit : Limits, consumed : Nat] /\ 0 \in Limits
      BY DEF NoRow, Limits
    <2>2. seen' \in [Client -> [limit : Limits, consumed : Nat]] /\ asked' \in [Client -> Limits]
      BY <1>1, <2>1
    <2>3. request' \in [Client -> RequestState] /\ pc' \in [Machine -> LauncherState]
      BY <1>1 DEF RequestState, LauncherState
    <2>4. /\ cached' \in BOOLEAN /\ limit' \in Limits /\ consumed' \in Nat /\ in_flight' \in Nat
          /\ faults' \in 0..MaxFaults
      BY <1>1, <2>1, ProjectsAssumption DEF TypeOK, needed, ProjectsAssumption
    <2>5. /\ updates' \subseteq Update /\ stop' \subseteq Machine /\ suspended' \subseteq Machine
          /\ row_consumed' \in Nat /\ now' \in Time /\ row_started' \subseteq Item
          /\ row_exec' \in [Item -> Time] /\ job' \in [Task -> JobState] /\ late' \in [Task -> Time]
          /\ offered' \subseteq Item /\ row_exists' \in BOOLEAN /\ row_limit' \in Limits
      BY <1>1, <1>3 DEF TypeOK
    <2>. QED  BY <1>3, <2>2, <2>3, <2>4, <2>5 DEF TypeOK
  <1>5. Running'
    <2>1. \A t \in Task : t \in Item /\ pc'[Of[t]] = "select"
      BY <1>1, ProjectsAssumption DEF ProjectsAssumption, Item
    <2>. QED  BY <1>3, <2>1 DEF Running
  <1>6. Confirmed'
    <2>1. SumOver(exec_time', Item) = SumOver(row_exec, Item)
      BY <1>3, SumOfSame
    <2>2. row_exec' = row_exec /\ row_consumed' = row_consumed
      BY <1>1, <1>3
    <2>3. ~needed => \A i \in Item : place'[i] \in {"new", "final"}
      <3>1. ~needed => \A i \in Item : place'[i] \notin {"queued", "submitted"}
        BY <1>3 DEF needed
      <3>. QED  BY <1>3, <3>1 DEF Place
    <2>. QED  BY <1>1, <2>1, <2>2, <2>3 DEF Confirmed
  <1>7. Filling'
    <2>1. \A i \in Item : place[i] = "new" => place'[i] = "new"
      BY <1>3 DEF Restored
    <2>2. ~row_exists => ~needed
      <3>1. ~row_exists => \A i \in Item : Restored(i) = "new"
        BY DEF Filling, Restored
      <3>. QED  BY <3>1 DEF needed
    <2>3. \A c \in Client : request'[c] \in {"idle", "done"}
      BY <1>1
    <2>. QED  BY <1>1, <2>1, <2>2, <2>3 DEF Filling
  <1>. QED  BY <1>3, <1>4, <1>5, <1>6, <1>7

LEMMA TimeStep == ASSUME TimeInv, [Next]_vars PROVE TimeInv'
  <1>1. CASE \E c \in Client : Request(c)
    BY <1>1, RequestKeeps
  <1>2. CASE \E i \in Item : Submit(i)
    BY <1>2, SubmitKeeps
  <1>3. ASSUME NEW m \in Machine, Section(m) PROVE TimeInv'
    BY <1>3, ControlKeeps, ChargeKeeps, SuspensionKeeps, DispatchKeeps, OpenKeeps DEF Section
  <1>4. ASSUME NEW m \in Machine, RequestStop(m) \/ Suspend(m) PROVE TimeInv'
    BY <1>4, ControlKeeps
  <1>5. ASSUME NEW m \in Machine, NEW e \in [Task -> Time], Restart(m, e) PROVE TimeInv'
    BY <1>5, RestartKeeps
  <1>6. ASSUME NEW t \in Task, TaskEnded(t) \/ JobStarts(t) \/ JobEnds(t) PROVE TimeInv'
    BY <1>6, EndedKeeps, JobKeeps
  <1>7. ASSUME NEW t \in Task, NEW e \in Time, ExecutionStarted(t, e) PROVE TimeInv'
    BY <1>7, StartedKeeps
  <1>8. CASE \E u \in updates : WriteUpdate(u)
    BY <1>8, WriteKeeps
  <1>9. CASE \E e \in [Task -> Time] : Crash(e)
    BY <1>9, CrashKeeps
  <1>10. CASE Tick
    BY <1>10, TickKeeps
  <1>11. CASE UNCHANGED vars
    <2>1. TypeOK'
      BY <1>11 DEF vars, TimeInv, TypeOK
    <2>. QED  BY <1>11, <2>1, SameClocked, SameRecorded, SameRunning, SameConfirmed, SameFilling
              DEF vars, TimeInv
  <1>. QED
    BY <1>1, <1>2, <1>3, <1>4, <1>5, <1>6, <1>7, <1>8, <1>9, <1>10, <1>11 DEF Next

LEMMA TimeAlways == Spec => []TimeInv
  <1>1. Init => TimeInv
    BY TimeInit
  <1>2. TimeInv /\ [Next]_vars => TimeInv'
    BY TimeStep
  <1>. QED  BY <1>1, <1>2, PTL DEF Spec

-----------------------------------------------------------------------------
(* What is in flight. *)

LEMMA ChargeInit == ASSUME Init PROVE ChargeInv
  <1>1. SumOver(charged, Counted) = 0
    BY SumOfZeros DEF Init, Counted
  <1>. QED  BY <1>1 DEF Init, ChargeInv, Stopping, InFlight

(* No launcher stops with a suspension to apply, nor is suspended then.     *)
LEMMA StoppingStep ==
  ASSUME ~MayStopSuspended, TypeOK, Stopping, [Next]_vars PROVE Stopping'
  <1>. USE DEF Stopping
  <1>1. CASE UNCHANGED <<pc, controlVars>>
    BY <1>1
  <1>2. ASSUME NEW m \in Machine, Event(m, "section"), UNCHANGED controlVars PROVE Stopping'
    BY <1>2 DEF Event, TypeOK
  <1>3. ASSUME NEW m \in Machine, Shutdown(m) PROVE Stopping'
    BY <1>3 DEF Shutdown, Event, TypeOK
  <1>4. ASSUME NEW m \in Machine, ApplySuspension(m) PROVE Stopping'
    <2>1. suspended' \subseteq suspended /\ UNCHANGED stop
      BY <1>4 DEF ApplySuspension
    <2>2. \A n \in Machine : pc'[n] = "stopping" => pc[n] = "stopping"
      BY <1>4, EndKeeps DEF ApplySuspension
    <2>. QED  BY <2>1, <2>2
  <1>5. ASSUME NEW m \in Machine, NEW tasks \in SUBSET On(m, Task), Dispatch(m, tasks)
        PROVE  Stopping'
    <2>1. /\ suspended' = suspended /\ EndSection(m)
          /\ stop' = stop \/ (pc[m] = "stopping" /\ stop' = stop \ {m})
      BY <1>5 DEF Dispatch
    <2>2. \A n \in Machine : pc'[n] = "stopping" => pc[n] = "stopping" /\ n # m
      BY <2>1, EndKeeps
    <2>. QED  BY <2>1, <2>2
  <1>6. ASSUME NEW m \in Machine, NEW s \in Session, OpenSession(m, s) PROVE Stopping'
    <2>1. UNCHANGED controlVars /\ EndSection(m)
      BY <1>6 DEF OpenSession
    <2>. QED  BY <2>1, EndKeeps
  <1>7. ASSUME NEW m \in Machine, RequestStop(m) PROVE Stopping'
    BY <1>7 DEF RequestStop
  <1>8. ASSUME NEW m \in Machine, Suspend(m) PROVE Stopping'
    BY <1>8 DEF Suspend
  <1>9. ASSUME NEW m \in Machine, NEW e \in [Task -> Time], Restart(m, e) PROVE Stopping'
    BY <1>9 DEF Restart, TypeOK
  <1>10. ASSUME NEW e \in [Task -> Time], Crash(e) PROVE Stopping'
    BY <1>10 DEF Crash
  <1>11. ASSUME NEW m \in Machine, Notified(m) \/ PeriodicCheck(m) \/ SessionEnd(m)
         PROVE  Stopping'
    BY <1>2, <1>11 DEF Notified, PeriodicCheck, SessionEnd
  <1>12. ASSUME NEW t \in Task, TaskEnded(t) \/ (\E e \in Time : ExecutionStarted(t, e))
         PROVE  Stopping'
    <2>1. Of[t] \in Machine
      BY ProjectsAssumption DEF ProjectsAssumption, Item
    <2>. QED  BY <1>2, <1>12, <2>1 DEF TaskEnded, ExecutionStarted
  <1>13. ASSUME NEW t \in Task, JobStarts(t) \/ JobEnds(t) PROVE Stopping'
    BY <1>1, <1>13 DEF JobStarts, JobEnds
  <1>14. ASSUME NEW c \in Client, Request(c) PROVE Stopping'
    BY <1>1, <1>14 DEF Request, InsertProject, UpdateRow, CacheCreated, UpdateCached, Lookup,
                       Fetch, Fill
  <1>15. ASSUME NEW i \in Item, Submit(i) PROVE Stopping'
    BY <1>1, <1>15 DEF Submit
  <1>16. CASE (\E u \in updates : WriteUpdate(u)) \/ Tick \/ UNCHANGED vars
    BY <1>1, <1>16 DEF WriteUpdate, Tick, vars
  <1>. QED
    BY <1>3, <1>4, <1>5, <1>6, <1>7, <1>8, <1>9, <1>10, <1>11, <1>12, <1>13, <1>14, <1>15, <1>16
    DEF Next, Section

(* Charges of tasks: of which machine, and of none that does not run.       *)
LEMMA CountedTypes ==
  ASSUME TypeOK
  PROVE  /\ Counted \in SUBSET Item /\ running_tasks \in SUBSET Item
         /\ running_tasks \subseteq Task
         /\ \A i \in running_tasks : charged[i] \in Nat
         /\ \A t \in Task : t \in Item /\ Of[t] \in Machine
  BY TypesOf, ProjectsAssumption DEF Counted, TypeOK, Item, ProjectsAssumption

LEMMA SameInFlight ==
  ASSUME InFlight, UNCHANGED in_flight, Counted' = Counted,
         \A t \in Counted : charged'[t] = charged[t]
  PROVE  InFlight'
  <1>1. SumOver(charged', Counted) = SumOver(charged, Counted)
    BY SumOfSame
  <1>. QED  BY <1>1 DEF InFlight

(* The charges of some tasks are dropped with the tasks. *)
LEMMA DropKeeps ==
  ASSUME TimeInv, InFlight, NEW gone \in SUBSET Counted,
         in_flight' = Max2(in_flight - SumOver(charged, gone), 0),
         Counted' = Counted \ gone, \A t \in Counted' : charged'[t] = charged[t]
  PROVE  InFlight'
  <1>. DEFINE rest == Counted \ gone
  <1>1. Counted \in SUBSET Item /\ \A t \in Counted : charged[t] \in Nat
    BY CountedTypes DEF TimeInv, Counted
  <1>2. /\ rest \in SUBSET Item /\ gone \in SUBSET Item /\ rest \cap gone = {}
        /\ rest \cup gone = Counted /\ \A t \in rest \cup gone : charged[t] \in Nat
    BY <1>1
  <1>3. SumOver(charged', rest) = SumOver(charged, rest)
    BY SumOfSame
  <1>4. Counted' = rest
    OBVIOUS
  <1>. HIDE DEF rest
  <1>5. SumOver(charged, Counted) = SumOver(charged, rest) + SumOver(charged, gone)
    BY <1>2, SumOfUnion
  <1>6. SumOver(charged, rest) \in Nat /\ SumOver(charged, gone) \in Nat
    BY <1>2, UnitsAreFinite
  <1>7. in_flight' = SumOver(charged, rest)
    BY <1>5, <1>6 DEF InFlight, Max2
  <1>. QED  BY <1>3, <1>4, <1>7 DEF InFlight

(* Outside of a section everything that runs is counted, and after an event *)
(* all but what is of a launcher that stops.                                *)
LEMMA CountedAfter ==
  ASSUME TypeOK, NEW m \in Machine, NEW section \in {"section", "stopping"}, Event(m, section),
         running_tasks' \subseteq Task
  PROVE  /\ Counted = running_tasks
         /\ Counted' = IF section = "stopping" THEN running_tasks' \ On(m, Task)
                                               ELSE running_tasks'
  <1>1. /\ pc[m] = "select" /\ pc' = [pc EXCEPT ![m] = section]
        /\ \A n \in Machine : pc[n] # "stopping"
    BY DEF Event, Unlocked
  <1>2. \A n \in Machine : pc'[n] = IF n = m THEN section ELSE pc[n]
    BY <1>1 DEF TypeOK
  <1>3. running_tasks \subseteq Task /\ \A t \in Task : Of[t] \in Machine
    BY CountedTypes
  <1>4. Counted = running_tasks
    BY <1>1, <1>3 DEF Counted
  <1>5. \A t \in running_tasks' : t \in Counted' <=> pc'[Of[t]] # "stopping"
    BY DEF Counted
  <1>6. Counted' \subseteq running_tasks'
    BY DEF Counted
  <1>7. \A t \in running_tasks' : pc'[Of[t]] = "stopping" <=>
                                    section = "stopping" /\ t \in On(m, Task)
    BY <1>1, <1>2, <1>3 DEF On
  <1>. QED  BY <1>4, <1>5, <1>6, <1>7

LEMMA InFlightAtEvents ==
  ASSUME TimeInv, InFlight, NEW m \in Machine,
         Notified(m) \/ Shutdown(m) \/ PeriodicCheck(m) \/ SessionEnd(m)
  PROVE  InFlight'
  <1>. USE DEF TimeInv
  <1>1. UNCHANGED running_tasks /\ running_tasks' \subseteq Task
    BY CountedTypes DEF Notified, Shutdown, PeriodicCheck, SessionEnd
  <1>2. CASE Notified(m) \/ SessionEnd(m)
    <2>1. Event(m, "section") /\ UNCHANGED <<in_flight, charged>>
      BY <1>2 DEF Notified, SessionEnd
    <2>2. Counted' = Counted
      BY <1>1, <2>1, CountedAfter
    <2>. QED  BY <2>1, <2>2, SameInFlight
  <1>3. CASE Shutdown(m)
    <2>. DEFINE gone == On(m, running_tasks)
    <2>1. Event(m, "stopping") /\ charged' = charged
          /\ in_flight' = Max2(in_flight - SumOver(charged, gone), 0)
      BY <1>3 DEF Shutdown, SettleInFlight, ChargedIn
    <2>2. Counted = running_tasks /\ Counted' = running_tasks \ On(m, Task)
      BY <1>1, <2>1, CountedAfter
    <2>3. gone \in SUBSET Counted /\ Counted' = Counted \ gone
      BY <2>2, CountedTypes DEF On
    <2>. HIDE DEF gone
    <2>. QED  BY <2>1, <2>3, DropKeeps
  <1>4. CASE PeriodicCheck(m)
    <2>. DEFINE running == On(m, running_tasks)
                grown == [t \in Task |-> Max2(Estimate(t) - charged[t], 0)]
    <2>1. Event(m, "section") /\ ChargeEstimates(m)
      BY <1>4 DEF PeriodicCheck
    <2>2. Counted' = Counted /\ Counted = running_tasks
      BY <1>1, <2>1, CountedAfter
    <2>3. in_flight' = in_flight + SumOver(grown, running)
      BY <2>1 DEF ChargeEstimates
    <2>4. /\ running_tasks \in SUBSET Item /\ running \in SUBSET running_tasks
          /\ \A t \in running : t \in Task
      BY CountedTypes DEF On
    <2>5. \A t \in Task : Estimate(t) \in Nat
      BY TypesOf, ProjectsAssumption DEF Estimate, Min2, ProjectsAssumption, Item
    <2>6. \A t \in running_tasks : charged'[t] = IF t \in running THEN Max2(charged[t], Estimate(t))
                                                                  ELSE charged[t]
      BY <2>1, CountedTypes DEF ChargeEstimates
    <2>7. \A t \in running_tasks : charged[t] \in Nat /\ charged'[t] \in Nat
      BY <2>5, <2>6, CountedTypes DEF Max2
    <2>8. \A t \in running : grown[t] \in Nat /\ charged'[t] = charged[t] + grown[t]
      BY <2>4, <2>5, <2>6, <2>7 DEF Max2
    <2>9. \A t \in running_tasks \ running : charged'[t] = charged[t]
      BY <2>6
    <2>. HIDE DEF running, grown
    <2>10. SumOver(charged', running_tasks) = SumOver(charged, running_tasks) + SumOver(grown, running)
      BY <2>4, <2>7, <2>8, <2>9, SumOfGrown
    <2>. QED  BY <1>1, <2>2, <2>3, <2>10 DEF InFlight
  <1>. QED  BY <1>2, <1>3, <1>4

LEMMA InFlightAtReports ==
  ASSUME TimeInv, InFlight, NEW t \in Task,
         TaskEnded(t) \/ (\E e \in Time : ExecutionStarted(t, e))
  PROVE  InFlight'
  <1>. USE DEF TimeInv
  <1>1. Event(Of[t], "section") /\ Of[t] \in Machine /\ t \in Item
    BY CountedTypes DEF TaskEnded, ExecutionStarted
  <1>2. CASE TaskEnded(t)
    <2>1. /\ in_flight' = Max2(in_flight - charged[t], 0) /\ Untrack({t})
      BY <1>2 DEF TaskEnded, SettleInFlight
    <2>2. /\ running_tasks' = running_tasks \ {t}
          /\ \A r \in Task : charged'[r] = IF r = t THEN 0 ELSE charged[r]
      BY <2>1, UntrackKeeps
    <2>3. running_tasks' \subseteq Task
      BY <2>2, CountedTypes
    <2>4. Counted = running_tasks /\ Counted' = running_tasks \ {t}
      BY <1>1, <2>2, <2>3, CountedAfter
    <2>. DEFINE gone == {t} \cap running_tasks
    <2>5. SumOver(charged, gone) = charged[t]
      <3>1. CASE t \in running_tasks
        <4>1. gone = {t} /\ charged[t] \in Nat
          BY <3>1, CountedTypes
        <4>. QED  BY <1>1, <4>1, SumOfOne
      <3>2. CASE t \notin running_tasks
        <4>1. gone = {} /\ charged[t] = 0
          BY <3>2 DEF Running
        <4>. QED  BY <4>1, SumOfNone
      <3>. QED  BY <3>1, <3>2
    <2>6. gone \in SUBSET Counted /\ Counted' = Counted \ gone
      BY <2>4
    <2>7. \A r \in Counted' : charged'[r] = charged[r]
      BY <2>2, <2>4, CountedTypes
    <2>. HIDE DEF gone
    <2>. QED  BY <2>1, <2>5, <2>6, <2>7, DropKeeps
  <1>3. CASE \E e \in Time : ExecutionStarted(t, e)
    <2>1. /\ UNCHANGED <<in_flight, charged>> /\ running_tasks' = running_tasks \cup {t}
      BY <1>3 DEF ExecutionStarted
    <2>2. running_tasks' \subseteq Task
      BY <2>1, CountedTypes
    <2>3. Counted = running_tasks /\ Counted' = running_tasks \cup {t}
      BY <1>1, <2>1, <2>2, CountedAfter
    <2>4. /\ Counted' \in SUBSET Item /\ Counted \in SUBSET Counted'
          /\ \A r \in Counted' : charged[r] \in Nat
          /\ \A r \in Counted' \ Counted : charged[r] = 0
      BY <1>1, <2>3, TypesOf, CountedTypes DEF Running
    <2>5. SumOver(charged, Counted') = SumOver(charged, Counted)
      BY <2>4, SumOfPart
    <2>. QED  BY <2>1, <2>5 DEF InFlight
  <1>. QED  BY <1>2, <1>3

(* The ends of sections, in which a launcher that stops forgets what it has *)
(* dropped already; a suspension is only applied by one that does not stop. *)
LEMMA InFlightAtEnds ==
  ASSUME TimeInv, Stopping, InFlight, NEW m \in Machine,
         \/ ApplySuspension(m)
         \/ \E tasks \in SUBSET On(m, Task) : Dispatch(m, tasks)
         \/ \E s \in Session : OpenSession(m, s)
  PROVE  InFlight'
  <1>. USE DEF TimeInv
  <1>1. /\ EndSection(m) /\ pc[m] \in {"section", "stopping"}
    BY DEF ApplySuspension, Dispatch, OpenSession
  <1>2. /\ \A n \in Machine : n # m => pc'[n] = pc[n]
        /\ pc'[m] \in {"stopped", "select"}
    BY <1>1, EndKeeps
  <1>3. CASE ApplySuspension(m)
    <2>. DEFINE tasks == Submitted(m)
                gone == On(m, running_tasks)
    <2>1. /\ in_flight' = Max2(in_flight - SumOver(charged, tasks), 0)
          /\ Untrack(On(m, Task)) /\ pc[m] = "section"
      BY <1>3 DEF ApplySuspension, SettleInFlight, Stopping
    <2>2. /\ running_tasks' = running_tasks \ On(m, Task)
          /\ \A r \in Task : charged'[r] = IF r \in On(m, Task) THEN 0 ELSE charged[r]
      BY <2>1, UntrackKeeps
    <2>3. /\ tasks \in SUBSET Item /\ gone \in SUBSET tasks
          /\ \A r \in tasks : charged[r] \in Nat
          /\ \A r \in tasks \ gone : charged[r] = 0
      BY TypesOf, CountedTypes DEF Submitted, On, Running, TypeOK
    <2>4. SumOver(charged, tasks) = SumOver(charged, gone)
      <3>. HIDE DEF tasks, gone
      <3>. QED  BY <2>3, SumOfPart
    <2>5. gone \in SUBSET Counted
      BY <2>1, CountedTypes DEF On, Counted
    <2>6. Counted' = Counted \ gone
      BY <1>2, <2>1, <2>2, CountedTypes DEF On, Counted
    <2>7. \A r \in Counted' : charged'[r] = charged[r]
      BY <2>2, CountedTypes DEF Counted
    <2>. HIDE DEF gone, tasks
    <2>. QED  BY <2>1, <2>4, <2>5, <2>6, <2>7, DropKeeps
  <1>4. ASSUME NEW tasks \in SUBSET On(m, Task), Dispatch(m, tasks) PROVE InFlight'
    <2>1. UNCHANGED in_flight /\ Forget(m)
      BY <1>4 DEF Dispatch
    <2>2. CASE pc[m] = "stopping"
      <3>1. Untrack(On(m, Task))
        BY <2>1, <2>2 DEF Forget
      <3>2. /\ running_tasks' = running_tasks \ On(m, Task)
            /\ \A r \in Task : charged'[r] = IF r \in On(m, Task) THEN 0 ELSE charged[r]
        BY <3>1, UntrackKeeps
      <3>3. Counted' = Counted
        BY <1>2, <2>2, <3>2, CountedTypes DEF Counted, On
      <3>4. \A r \in Counted : charged'[r] = charged[r]
        BY <2>2, <3>2, CountedTypes DEF Counted, On
      <3>. QED  BY <2>1, <3>3, <3>4, SameInFlight
    <2>3. CASE pc[m] # "stopping"
      <3>1. UNCHANGED taskVars
        BY <2>1, <2>3 DEF Forget
      <3>2. Counted' = Counted
        BY <1>2, <2>3, <3>1, CountedTypes DEF Counted
      <3>. QED  BY <2>1, <3>1, <3>2, SameInFlight
    <2>. QED  BY <2>2, <2>3
  <1>5. ASSUME NEW s \in Session, OpenSession(m, s) PROVE InFlight'
    <2>1. UNCHANGED <<in_flight, running_tasks, charged>> /\ pc[m] # "stopping"
      BY <1>5 DEF OpenSession
    <2>2. Counted' = Counted
      BY <1>2, <2>1, CountedTypes DEF Counted
    <2>. QED  BY <2>1, <2>2, SameInFlight
  <1>. QED  BY <1>3, <1>4, <1>5

(* Nothing of what a stopped launcher had is in flight, and what is         *)
(* restored is charged from scratch.                                        *)
LEMMA InFlightAtRestarts ==
  ASSUME TimeInv, InFlight, NEW e \in [Task -> Time],
         Crash(e) \/ \E m \in Machine : Restart(m, e)
  PROVE  InFlight'
  <1>. USE DEF TimeInv
  <1>1. CASE Crash(e)
    <2>1. in_flight' = 0 /\ running_tasks' \subseteq Task /\ \A t \in Task : charged'[t] = 0
      BY <1>1, CountedTypes DEF Crash, Resume, Item
    <2>2. \A t \in Counted' : charged'[t] = 0
      BY <2>1 DEF Counted
    <2>. QED  BY <2>1, <2>2, SumOfZeros DEF InFlight
  <1>2. ASSUME NEW m \in Machine, Restart(m, e) PROVE InFlight'
    <2>1. /\ UNCHANGED in_flight /\ pc[m] = "stopped"
          /\ Resume(On(m, Item), e)
          /\ \A n \in Machine : pc'[n] = IF n = m THEN "select" ELSE pc[n]
      BY <1>2 DEF Restart, TypeOK
    <2>. DEFINE items == On(m, Item)
    <2>2. /\ items \subseteq Item /\ \A t \in items : Of[t] = m
          /\ \A t \in items : t \notin running_tasks
      BY <2>1, CountedTypes DEF On, Running
    <2>3. /\ \A t \in running_tasks : t \in running_tasks'
          /\ \A t \in running_tasks' : t \in Task /\ (t \in items \/ t \in running_tasks)
          /\ \A t \in Task : charged'[t] = IF t \in items THEN 0 ELSE charged[t]
      BY <2>1, <2>2, CountedTypes DEF Resume
    <2>. HIDE DEF items
    <2>4. Counted \in SUBSET Counted' /\ Counted' \ Counted \subseteq items
      BY <2>1, <2>2, <2>3, CountedTypes DEF Counted
    <2>5. /\ Counted' \in SUBSET Item
          /\ \A t \in Counted' : charged'[t] \in Nat
          /\ \A t \in Counted' \ Counted : charged'[t] = 0
          /\ \A t \in Counted : charged'[t] = charged[t]
      <3>1. \A t \in Counted' : t \in Task
        BY <2>3 DEF Counted
      <3>2. \A t \in Counted : t \in Task /\ t \notin items
        BY <2>2, CountedTypes DEF Counted
      <3>. QED  BY <2>3, <2>4, <3>1, <3>2, CountedTypes, TypesOf
    <2>6. SumOver(charged', Counted') = SumOver(charged', Counted)
      BY <2>4, <2>5, SumOfPart
    <2>7. SumOver(charged', Counted) = SumOver(charged, Counted)
      BY <2>5, SumOfSame
    <2>. QED  BY <2>1, <2>6, <2>7 DEF InFlight
  <1>. QED  BY <1>1, <1>2

LEMMA ChargeStep ==
  ASSUME ~MayStopSuspended, TimeInv, ChargeInv, [Next]_vars PROVE ChargeInv'
  <1>. USE DEF ChargeInv
  <1>1. Stopping'
    BY StoppingStep DEF TimeInv
  <1>2. CASE UNCHANGED <<in_flight, running_tasks, charged, pc>>
    <2>1. Counted' = Counted
      BY <1>2 DEF Counted
    <2>. QED  BY <1>1, <1>2, <2>1, SameInFlight
  <1>3. ASSUME NEW c \in Client, Request(c) PROVE ChargeInv'
    BY <1>2, <1>3 DEF Request, InsertProject, UpdateRow, CacheCreated, UpdateCached, Lookup,
                      Fetch, Fill
  <1>4. ASSUME NEW i \in Item, Submit(i) PROVE ChargeInv'
    BY <1>2, <1>4 DEF Submit
  <1>5. ASSUME NEW m \in Machine, Section(m) PROVE ChargeInv'
    <2>1. InFlight'
      BY <1>5, InFlightAtEvents, InFlightAtEnds DEF Section
    <2>. QED  BY <1>1, <2>1
  <1>6. ASSUME NEW m \in Machine, RequestStop(m) \/ Suspend(m) PROVE ChargeInv'
    BY <1>2, <1>6 DEF RequestStop, Suspend
  <1>7. ASSUME NEW e \in [Task -> Time], Crash(e) \/ \E m \in Machine : Restart(m, e)
        PROVE  ChargeInv'
    BY <1>1, <1>7, InFlightAtRestarts
  <1>8. ASSUME NEW t \in Task, TaskEnded(t) \/ (\E e \in Time : ExecutionStarted(t, e))
        PROVE  ChargeInv'
    BY <1>1, <1>8, InFlightAtReports
  <1>9. ASSUME NEW t \in Task, JobStarts(t) \/ JobEnds(t) PROVE ChargeInv'
    BY <1>2, <1>9 DEF JobStarts, JobEnds
  <1>10. CASE (\E u \in updates : WriteUpdate(u)) \/ Tick \/ UNCHANGED vars
    BY <1>2, <1>10 DEF WriteUpdate, Tick, vars
  <1>. QED  BY <1>3, <1>4, <1>5, <1>6, <1>7, <1>8, <1>9, <1>10 DEF Next

LEMMA ChargesAlways == ASSUME ~MayStopSuspended PROVE Spec => [](TimeInv /\ ChargeInv)
  <1>1. Init => TimeInv /\ ChargeInv
    BY TimeInit, ChargeInit
  <1>2. TimeInv /\ ChargeInv /\ [Next]_vars => (TimeInv /\ ChargeInv)'
    BY TimeStep, ChargeStep
  <1>. QED  BY <1>1, <1>2, PTL DEF Spec

-----------------------------------------------------------------------------
(* The limit, where no request overlaps one that writes the row. *)

LEMMA LimitStep ==
  ASSUME ~MayOverlap, TypeOK, Filling, LimitFollows, [Next]_vars PROVE LimitFollows'
  <1>. USE DEF LimitFollows, Writing, UnderWay
  <1>1. CASE UNCHANGED <<cached, limit, row_limit, request, asked, seen>>
    BY <1>1
  <1>2. ASSUME NEW c \in Client, Request(c) PROVE LimitFollows'
    <2>1. ASSUME NEW l \in Limit, InsertProject(c, l) \/ UpdateRow(c, l) PROVE LimitFollows'
      <3>1. /\ \A d \in Client : request[d] \in {"idle", "done"}
            /\ UNCHANGED <<cached, seen>> /\ row_limit' = l
            /\ request'[c] \in {"inserted", "written"} /\ asked'[c] = l
            /\ request'[c] = "inserted" => ~cached
            /\ \A d \in Client : d # c => request'[d] = request[d]
        BY <2>1 DEF InsertProject, UpdateRow, MayWrite, TypeOK, Filling, RequestState
      <3>. QED  BY <3>1
    <2>2. CASE CacheCreated(c)
      <3>1. /\ request[c] = "inserted" /\ limit' = row_limit /\ cached' /\ UNCHANGED <<row_limit, seen>>
            /\ request'[c] = "done" /\ \A d \in Client : d # c => request'[d] = request[d]
            /\ \A d \in Client : d # c => asked'[d] = asked[d]
        BY <2>2 DEF CacheCreated, TypeOK
      <3>. QED  BY <3>1
    <2>3. CASE UpdateCached(c)
      <3>1. /\ request[c] = "written" /\ UNCHANGED <<cached, row_limit, seen>>
            /\ limit' = IF cached THEN row_limit ELSE limit
            /\ request'[c] \in {"done", "missed"}
            /\ \A d \in Client : d # c => request'[d] = request[d]
            /\ \A d \in Client : d # c => asked'[d] = asked[d]
        BY <2>3 DEF UpdateCached, TypeOK
      <3>. QED  BY <3>1
    <2>4. CASE Lookup(c)
      <3>1. /\ \A d \in Client : ~Writing(d)
            /\ UNCHANGED <<cached, limit, row_limit, seen, asked>>
            /\ request'[c] \in {"done", "missed"}
            /\ \A d \in Client : d # c => request'[d] = request[d]
        BY <2>4 DEF Lookup, TypeOK, MayRead, Writes
      <3>. QED  BY <3>1
    <2>5. CASE Fetch(c)
      <3>1. /\ request[c] = "missed" /\ UNCHANGED <<cached, limit, row_limit, asked>>
            /\ request'[c] \in {"fetched", "done"}
            /\ request'[c] = "fetched" => seen'[c].limit = row_limit
            /\ \A d \in Client : d # c => request'[d] = request[d] /\ seen'[d] = seen[d]
        BY <2>5 DEF Fetch, TypeOK
      <3>. QED  BY <3>1
    <2>6. CASE Fill(c)
      <3>1. /\ request[c] = "fetched" /\ cached' /\ UNCHANGED row_limit
            /\ limit' = IF cached THEN limit ELSE seen[c].limit
            /\ request'[c] = "done"
            /\ \A d \in Client : d # c => /\ request'[d] = request[d] /\ seen'[d] = seen[d]
                                          /\ asked'[d] = asked[d]
        BY <2>6 DEF Fill, TypeOK
      <3>2. \A d \in Client : ~Writing(d)
        BY <3>1
      <3>. QED  BY <3>1, <3>2
    <2>. QED  BY <1>2, <2>1, <2>2, <2>3, <2>4, <2>5, <2>6 DEF Request
  <1>3. ASSUME NEW e \in [Task -> Time], Crash(e) PROVE LimitFollows'
    <2>1. /\ \A c \in Client : request'[c] \in {"idle", "done"}
          /\ UNCHANGED row_limit
          /\ cached' => limit' = row_limit
      BY <1>3 DEF Crash
    <2>. QED  BY <2>1
  <1>4. ASSUME NEW i \in Item, Submit(i) PROVE LimitFollows'
    BY <1>1, <1>4 DEF Submit
  <1>5. ASSUME NEW m \in Machine,
               Section(m) \/ RequestStop(m) \/ Suspend(m) \/ \E e \in [Task -> Time] : Restart(m, e)
        PROVE  LimitFollows'
    BY <1>1, <1>5 DEF Section, Notified, Shutdown, PeriodicCheck, SessionEnd, ApplySuspension,
                      Dispatch, OpenSession, RequestStop, Suspend, Restart
  <1>6. ASSUME NEW t \in Task,
               TaskEnded(t) \/ JobStarts(t) \/ JobEnds(t) \/ \E e \in Time : ExecutionStarted(t, e)
        PROVE  LimitFollows'
    BY <1>1, <1>6 DEF TaskEnded, JobStarts, JobEnds, ExecutionStarted
  <1>7. CASE (\E u \in updates : WriteUpdate(u)) \/ Tick \/ UNCHANGED vars
    BY <1>1, <1>7 DEF WriteUpdate, Tick, vars
  <1>. QED  BY <1>2, <1>3, <1>4, <1>5, <1>6, <1>7 DEF Next

-----------------------------------------------------------------------------
(* The theorems. *)

(* Type correctness of the project, its row, its tasks and sessions, and    *)
(* of what launchers keep of them (Project, RunningTask).                   *)
THEOREM ProjectTypes == Spec => []TypeOK
  <1>1. TimeInv => TypeOK
    BY DEF TimeInv
  <1>. QED  BY <1>1, TimeAlways, PTL

(* Whoever fills the cache, and whatever is restored, the confirmed time in *)
(* memory is the row's with what is still to be written (the trigger on     *)
(* exec_time, get_project_by_name, Core::restore).                          *)
THEOREM ConfirmedTimeIsRecorded == Spec => []ConsumedIsRecorded
  <1>1. TimeInv => ConsumedIsRecorded
    <2>. SUFFICES ASSUME TimeInv, cached
                  PROVE  LET unwritten == {i \in Item : \E u \in updates :
                                                          u[2] = i /\ u[1] # "started"}
                         IN consumed + SumOver(row_exec, unwritten)
                              = row_consumed + SumOver(exec_time, unwritten)
      BY DEF ConsumedIsRecorded
    <2>. DEFINE unwritten == {i \in Item : \E u \in updates : u[2] = i /\ u[1] # "started"}
    <2>. USE DEF TimeInv
    <2>1. \A i \in Item \ unwritten : row_exec[i] = exec_time[i]
      <3>. SUFFICES ASSUME NEW i \in Item, row_exec[i] # exec_time[i] PROVE i \in unwritten
        OBVIOUS
      <3>1. <<"exec", i>> \in updates \/ <<"final", i>> \in updates
        BY DEF Recorded, Closing
      <3>. QED  BY <3>1
    <2>2. Item \in SUBSET Item /\ unwritten \in SUBSET Item
      OBVIOUS
    <2>3. \A i \in Item : row_exec[i] \in Nat /\ exec_time[i] \in Nat
      BY TypesOf
    <2>4. consumed = SumOver(exec_time, Item) /\ row_consumed = SumOver(row_exec, Item)
      BY DEF Confirmed
    <2>. HIDE DEF unwritten
    <2>5. /\ SumOver(row_exec, Item) + SumOver(exec_time, unwritten)
               = SumOver(exec_time, Item) + SumOver(row_exec, unwritten)
          /\ SumOver(row_exec, Item) \in Nat /\ SumOver(exec_time, unwritten) \in Nat
          /\ SumOver(exec_time, Item) \in Nat /\ SumOver(row_exec, unwritten) \in Nat
      BY <2>1, <2>2, <2>3, SumOfChanged
    <2>6. consumed + SumOver(row_exec, unwritten) = row_consumed + SumOver(exec_time, unwritten)
      BY <2>4, <2>5
    <2>. QED  BY <2>6 DEF unwritten
  <1>. QED  BY <1>1, TimeAlways, PTL

LEMMA AllIsCounted ==
  ASSUME TimeInv, ChargeInv PROVE InFlightIsRunning
  <1>1. Unlocked => Counted = running_tasks
    BY CountedTypes DEF Unlocked, Counted, TimeInv
  <1>. QED  BY <1>1 DEF ChargeInv, InFlight, InFlightIsRunning

(* Where no launcher stops with a suspension to apply, what is in flight is *)
(* what the running tasks of all machines are charged (check_running_tasks, *)
(* settle_in_flight and its callers).                                       *)
THEOREM EstimatesAreOfRunningTasks ==
  ASSUME ~MayStopSuspended PROVE Spec => []InFlightIsRunning
  <1>1. TimeInv /\ ChargeInv => InFlightIsRunning
    BY AllIsCounted
  <1>. QED  BY <1>1, ChargesAlways, PTL

(* ... and the project is never held to have used more than its jobs and    *)
(* sessions did, but for late reports: item by item, what is confirmed and  *)
(* what is charged is within what was spent.                                *)
THEOREM NothingIsOvercharged ==
  ASSUME ~MayStopSuspended PROVE Spec => []NoOvercharge
  <1>1. TimeInv /\ ChargeInv => NoOvercharge
    <2>. SUFFICES ASSUME TimeInv, ChargeInv, Unlocked
                  PROVE  consumed + in_flight <= SumOver(ran, Item) + SumOver(late, Task)
      BY DEF NoOvercharge
    <2>. USE DEF TimeInv
    <2>. DEFINE flying  == [i \in Item |-> IF i \in running_tasks THEN charged[i] ELSE 0]
                delayed == [i \in Item |-> IF i \in Task THEN late[i] ELSE 0]
                spent   == [i \in Item |-> Spent(i)]
                used    == [i \in Item |-> exec_time[i] + flying[i]]
    <2>1. /\ Item \in SUBSET Item /\ Task \in SUBSET Item
          /\ running_tasks \in SUBSET Item /\ running_tasks \subseteq Task
      BY CountedTypes DEF Item
    <2>2. in_flight = SumOver(charged, running_tasks)
      BY AllIsCounted DEF InFlightIsRunning
    <2>3. SumOver(charged, running_tasks) = SumOver(flying, running_tasks)
      <3>1. \A i \in running_tasks : charged[i] = flying[i]
        BY <2>1
      <3>. HIDE DEF flying
      <3>. QED  BY <3>1, SumOfSame
    <2>4. \A i \in Item : flying[i] \in Nat /\ delayed[i] \in Nat /\ ran[i] \in Nat
                          /\ exec_time[i] \in Nat /\ spent[i] \in Nat
      BY <2>1, TypesOf
    <2>5. \A i \in Item : used[i] = exec_time[i] + flying[i] /\ used[i] \in Nat
      BY <2>4
    <2>6. \A i \in Item : spent[i] = ran[i] + delayed[i]
      BY <2>4 DEF Spent
    <2>7. \A i \in Item : used[i] <= spent[i]
      <3>. SUFFICES ASSUME NEW i \in Item PROVE used[i] <= spent[i]
        OBVIOUS
      <3>1. CASE i \in running_tasks
        <4>1. exec_time[i] = 0 /\ i \in Task
          BY <2>1, <3>1 DEF Recorded, TypeOK
        <4>2. charged[i] <= elapsed[i] /\ elapsed[i] <= Spent(i) /\ charged[i] \in Nat
              /\ elapsed[i] \in Nat /\ Spent(i) \in Nat
          BY <4>1, TypesOf DEF Clocked
        <4>. QED  BY <3>1, <4>1, <4>2
      <3>2. CASE i \notin running_tasks
        BY <3>2, <2>4, TypesOf DEF Clocked
      <3>. QED  BY <3>1, <3>2
    <2>8. \A i \in Item \ running_tasks : flying[i] = 0
      OBVIOUS
    <2>9. \A i \in Item \ Task : delayed[i] = 0
      OBVIOUS
    <2>10. \A t \in Task : delayed[t] = late[t]
      BY <2>1
    <2>. HIDE DEF flying, delayed, spent, used
    <2>11. SumOver(flying, Item) = SumOver(flying, running_tasks) /\ SumOver(flying, Item) \in Nat
      BY <2>1, <2>4, <2>8, SumOfPart
    <2>12. SumOver(delayed, Item) = SumOver(delayed, Task) /\ SumOver(delayed, Item) \in Nat
      BY <2>1, <2>4, <2>9, SumOfPart
    <2>13. SumOver(delayed, Task) = SumOver(late, Task)
      BY <2>10, SumOfSame
    <2>14. SumOver(used, Item) = SumOver(exec_time, Item) + SumOver(flying, Item)
      BY <2>1, <2>4, <2>5, SumOfSums
    <2>15. SumOver(spent, Item) = SumOver(ran, Item) + SumOver(delayed, Item)
      BY <2>1, <2>4, <2>6, SumOfSums
    <2>16. SumOver(used, Item) <= SumOver(spent, Item)
      BY <2>1, <2>4, <2>5, <2>7, SumOfLess
    <2>17. SumOver(exec_time, Item) \in Nat /\ SumOver(ran, Item) \in Nat
      BY <2>1, <2>4, UnitsAreFinite
    <2>18. consumed \in Nat /\ consumed <= SumOver(exec_time, Item)
      BY <2>17, TypesOf DEF Confirmed
    <2>. QED  BY <2>2, <2>3, <2>11, <2>12, <2>13, <2>14, <2>15, <2>16, <2>17, <2>18
  <1>. QED  BY <1>1, ChargesAlways, PTL

(* Where no request overlaps one that writes the row, the limit that tasks  *)
(* are admitted and cancelled by is the row's once requests are done        *)
(* (create_project, update_project, get_project_by_name).                   *)
THEOREM CacheStaysCurrent ==
  ASSUME ~MayOverlap PROVE Spec => []CacheIsCurrent
  <1>1. Init => LimitFollows
    BY DEF Init, LimitFollows, Writing, UnderWay
  <1>2. TimeInv /\ LimitFollows /\ [Next]_vars => LimitFollows'
    BY LimitStep DEF TimeInv
  <1>3. LimitFollows => CacheIsCurrent
    BY DEF LimitFollows, Writing, UnderWay, CacheIsCurrent
  <1>. QED  BY <1>1, <1>2, <1>3, TimeAlways, PTL DEF Spec

=============================================================================
