---------------------------- MODULE NotifyProofs ----------------------------
(* Theorems about NotifyWorker, for any subjects and numbers.               *)
EXTENDS NotifyWorker, FiniteSetTheorems, TLAPS

(* What the proof needs of the types. *)
Shape ==
  /\ row \in Nat /\ used \in Nat
  /\ state = [s \in Subject |-> state[s]]
  /\ notifier = [s \in Subject |-> notifier[s]]
  /\ row_notifier = [s \in Subject |-> row_notifier[s]]

(* Ids grow: what is known, in memory or in a row, is not above the last.   *)
Numbered ==
  /\ row <= used
  /\ \A n \in notifiers : n \in Nat /\ n <= used
  /\ notifiers_by_name \in notifiers \cup {None}
  /\ admin.id \in Nat /\ admin.id <= used
  /\ \A s \in Subject : notifier[s] \in Nat /\ notifier[s] <= used

(* The foreign key of the rows of subjects, and what memory makes of it.    *)
Referenced ==
  \A s \in Subject : row_notifier[s] # None =>
    /\ row_notifier[s] = row
    /\ state[s] = "active" => notifier[s] = row

(* A subject that will find the row of its notifier finds it loaded. *)
ResolvedIsLoaded ==
  \A s \in Subject : state[s] \in {"resolved", "active"} /\ notifier[s] = row /\ row # None
                       => row \in notifiers

(* While an addition or a removal is between database and memory, nothing   *)
(* is loaded that has a row.                                                *)
UnloadedMeanwhile == admin # Idle => row \notin notifiers \ {None}

Inv ==
  Shape /\ Numbered /\ Referenced /\ ResolvedIsLoaded /\ UnloadedMeanwhile

LEMMA InitInv == Init => Inv
  BY DEF Init, Inv, Shape, Numbered, Referenced, ResolvedIsLoaded, UnloadedMeanwhile,
         Idle, None

(* A new row is the row of no subject and not loaded. *)
LEMMA InsertInv ==
  ASSUME Inv, InsertRow, UNCHANGED <<notifiers, notifiers_by_name, subjectVars>>,
         admin'.id \in {admin.id, used'}
  PROVE  Inv'
  <1> USE DEF None
  <1>1. row = 0 /\ row' = used + 1 /\ used' = used + 1 /\ used \in Nat
    BY DEF InsertRow, Inv, Shape
  <1>2. \A s \in Subject : row_notifier[s] = 0
    BY <1>1 DEF Inv, Referenced
  <1>3. row' \notin notifiers /\ \A s \in Subject : notifier[s] # row'
    BY <1>1 DEF Inv, Numbered
  <1>4. Shape' /\ Numbered'
    BY <1>1 DEF Inv, Shape, Numbered, subjectVars
  <1>5. Referenced' /\ ResolvedIsLoaded' /\ UnloadedMeanwhile'
    BY <1>2, <1>3 DEF Referenced, ResolvedIsLoaded, UnloadedMeanwhile, subjectVars
  <1> QED
    BY <1>4, <1>5 DEF Inv

(* Without its row a notifier is nobody's. *)
LEMMA DeleteInv ==
  ASSUME Inv, DeleteRow, UNCHANGED <<used, notifiers, notifiers_by_name, state, notifier>>,
         admin'.id \in {admin.id, None}
  PROVE  Inv'
  BY DEF DeleteRow, Inv, Shape, Numbered, Referenced, ResolvedIsLoaded, UnloadedMeanwhile,
         None

(* The second half of an addition or removal, which unloads what has the    *)
(* name, concerns no subject that still has its row.                        *)
LEMMA LoadInv ==
  ASSUME Inv, admin # Idle, admin' = Idle, UNCHANGED <<row, used, subjectVars>>,
         notifiers' \in {Removed, Removed \cup {admin.id}},
         notifiers_by_name' \in notifiers' \cup {None}
  PROVE  Inv'
  <1> USE DEF None
  <1>1. row \notin notifiers \ {0}
    BY DEF Inv, UnloadedMeanwhile
  <1>2. Shape' /\ Referenced' /\ UnloadedMeanwhile'
    BY DEF Inv, Shape, Referenced, UnloadedMeanwhile, subjectVars
  <1>3. Numbered'
    BY DEF Inv, Shape, Numbered, Removed, Idle, subjectVars
  <1>4. ResolvedIsLoaded'
    BY <1>1 DEF Inv, ResolvedIsLoaded, subjectVars
  <1> QED
    BY <1>2, <1>3, <1>4 DEF Inv

LEMMA AdminInv ==
  ASSUME Inv, Admin \/ Cli
  PROVE  Inv'
  <1>1. CASE AddNotifier
    BY <1>1, InsertInv DEF AddNotifier
  <1>2. CASE RemoveNotifier
    BY <1>2, DeleteInv DEF RemoveNotifier
  <1>3. CASE AddLoaded
    BY <1>3, LoadInv DEF AddLoaded, Idle
  <1>4. CASE RemoveLoaded
    BY <1>4, LoadInv DEF RemoveLoaded, Idle
  <1>5. CASE CmdNotifierAdd
    BY <1>5, InsertInv DEF CmdNotifierAdd
  <1>6. CASE CmdNotifierRemove
    BY <1>6, DeleteInv DEF CmdNotifierRemove
  <1> QED
    BY <1>1, <1>2, <1>3, <1>4, <1>5, <1>6 DEF Admin, Cli

LEMMA SubjectInv ==
  ASSUME Inv, NEW s \in Subject, Resolve(s) \/ Submit(s) \/ End(s) \/ Record(s)
  PROVE  Inv'
  <1> USE DEF None
  <1>1. UNCHANGED adminVars /\ Shape'
    BY DEF Resolve, Submit, End, Record, adminVars, Inv, Shape
  <1>2. UnloadedMeanwhile'
    BY <1>1 DEF Inv, UnloadedMeanwhile, adminVars
  <1>3. CASE Resolve(s)
    <2>1. notifiers_by_name \in notifiers
      BY <1>3 DEF Resolve, Inv, Numbered
    <2>2. state[s] = "new" /\ state'[s] = "resolved" /\ notifier'[s] = notifiers_by_name
      BY <1>3 DEF Resolve, Inv, Shape
    <2>3. \A o \in Subject : o # s => state'[o] = state[o] /\ notifier'[o] = notifier[o]
      BY <1>3 DEF Resolve, Inv, Shape
    <2>4. row_notifier' = row_notifier
      BY <1>3 DEF Resolve
    <2>5. Numbered'
      BY <1>1, <2>1, <2>2, <2>3 DEF Inv, Numbered, adminVars
    <2>6. Referenced'
      BY <1>1, <2>2, <2>3, <2>4 DEF Inv, Referenced, adminVars
    <2>7. ResolvedIsLoaded'
      BY <1>1, <2>1, <2>2, <2>3 DEF Inv, ResolvedIsLoaded, adminVars
    <2> QED
      BY <1>1, <1>2, <2>5, <2>6, <2>7 DEF Inv
  <1>4. CASE Submit(s)
    <2>1. notifier' = notifier /\ state[s] = "resolved"
      BY <1>4 DEF Submit
    <2>2. IF notifier[s] = row THEN state'[s] = "active" /\ row_notifier'[s] = row
                              ELSE state'[s] = "refused" /\ row_notifier'[s] = 0
      BY <1>4 DEF Submit, Inv, Shape
    <2>3. \A o \in Subject :
            o # s => state'[o] = state[o] /\ row_notifier'[o] = row_notifier[o]
      BY <1>4 DEF Submit, Inv, Shape
    <2>4. Numbered'
      BY <1>1, <2>1 DEF Inv, Numbered, adminVars
    <2>5. Referenced'
      BY <1>1, <2>1, <2>2, <2>3 DEF Inv, Referenced, adminVars
    <2>6. ResolvedIsLoaded'
      BY <1>1, <2>1, <2>2, <2>3 DEF Inv, ResolvedIsLoaded, adminVars
    <2> QED
      BY <1>1, <1>2, <2>4, <2>5, <2>6 DEF Inv
  <1>5. CASE End(s) \/ Record(s)
    <2>1. UNCHANGED <<notifier, row_notifier>>
          /\ \A o \in Subject : state'[o] = state[o] \/ state'[o] = "ended"
      BY <1>5 DEF End, Record, Inv, Shape
    <2> QED
      BY <1>1, <1>2, <2>1 DEF Inv, Numbered, Referenced, ResolvedIsLoaded, adminVars
  <1> QED
    BY <1>3, <1>4, <1>5

(* Of what was loaded only the notifier with a row is loaded again, and     *)
(* submissions are lost.                                                    *)
LEMMA CrashInv ==
  ASSUME Inv, Crash
  PROVE  Inv'
  <1> USE DEF None
  <1>1. /\ UNCHANGED <<row, used, row_notifier>> /\ admin' = Idle
        /\ notifiers' = {row} \ {0} /\ notifiers_by_name' = row
        /\ notifier' = row_notifier
        /\ \A s \in Subject : state'[s] # "resolved"
    BY DEF Crash
  <1>2. \A s \in Subject : row_notifier[s] \in {row, 0}
    BY DEF Inv, Referenced
  <1>3. Shape'
    BY DEF Crash, Inv, Shape
  <1>4. Numbered'
    BY <1>1, <1>2 DEF Inv, Shape, Numbered, Idle
  <1>5. Referenced' /\ ResolvedIsLoaded' /\ UnloadedMeanwhile'
    BY <1>1, <1>2 DEF Referenced, ResolvedIsLoaded, UnloadedMeanwhile
  <1> QED
    BY <1>3, <1>4, <1>5 DEF Inv

LEMMA NextInv == Inv /\ [Next]_vars => Inv'
  <1> SUFFICES ASSUME Inv, [Next]_vars PROVE Inv'
    OBVIOUS
  <1>1. ASSUME UNCHANGED <<adminVars, subjectVars>> PROVE Inv'
    BY <1>1 DEF Inv, Shape, Numbered, Referenced, ResolvedIsLoaded, UnloadedMeanwhile,
                adminVars, subjectVars
  <1>2. ASSUME NEW n \in NotifierId, Work(n) PROVE Inv'
    BY <1>1, <1>2 DEF Work, Recv, Deliver, Fail
  <1>3. CASE UNCHANGED vars
    BY <1>1, <1>3 DEF vars
  <1>4. ASSUME NEW s \in Subject, Resolve(s) \/ Submit(s) \/ End(s) \/ Record(s) PROVE Inv'
    BY <1>4, SubjectInv
  <1> QED
    BY <1>2, <1>3, <1>4, AdminInv, CrashInv DEF Next

(* A task that names a registered notifier in its row finds it loaded when  *)
(* it ends, whatever happens to the name meanwhile (add_notifier,           *)
(* remove_notifier, the command line tool, a restart).                      *)
THEOREM RegisteredAreLoaded == Spec => []RegisteredIsLoaded
  <1>1. Inv => RegisteredIsLoaded
    BY DEF Inv, Shape, Referenced, ResolvedIsLoaded, RegisteredIsLoaded, None
  <1> QED
    BY InitInv, NextInv, <1>1, PTL DEF Spec

-----------------------------------------------------------------------------
(* Delivery: how what was sent, what the worker has and what was received   *)
(* are related, for each notifier.                                          *)

DeliveryTypes ==
  /\ events \in [NotifierId -> Seq(Subject)]
  /\ sent \in [NotifierId -> Seq(Subject)] /\ received \in [NotifierId -> Seq(Subject)]
  /\ evt \in [NotifierId -> Subject \cup {NoSubject}]
  /\ fail_count \in [NotifierId -> 0..(MAX_NOTIFY_FAILS - 1)]
  /\ state = [s \in Subject |-> state[s]]

(* How many of the events sent the worker has taken from its channel.       *)
Taken(n) == Len(sent[n]) - Len(events[n])

(* The channel holds what was sent last, and the worker what came before.   *)
Channel(n) ==
  /\ Taken(n) \in Nat
  /\ \A p \in DOMAIN events[n] : events[n][p] = sent[n][Taken(n) + p]
  /\ evt[n] # NoSubject => Taken(n) # 0 /\ evt[n] = sent[n][Taken(n)]

(* A subject ends once in a life of the service, hence is sent once.        *)
SentOnce(n) ==
  /\ \A p \in DOMAIN sent[n] : state[sent[n][p]] = "ended"
  /\ \A p, q \in DOMAIN sent[n] : sent[n][p] = sent[n][q] => p = q

(* What was received is of what was taken, in the order it was sent in.     *)
ReceivedInOrder(n) ==
  /\ \A i \in DOMAIN received[n] : \E p \in 1..Taken(n) : sent[n][p] = received[n][i]
  /\ \A i, j \in DOMAIN received[n], p, q \in DOMAIN sent[n] :
       i < j /\ sent[n][p] = received[n][i] /\ sent[n][q] = received[n][j] => p <= q

(* The event being delivered was received at most as often as it failed.    *)
Copies(n, s) == {i \in DOMAIN received[n] : received[n][i] = s}
ReceivedCount(n) ==
  \A s \in Subject :
    Cardinality(Copies(n, s)) <= IF s = evt[n] THEN fail_count[n] ELSE MAX_NOTIFY_FAILS

Delivered(n) == Channel(n) /\ SentOnce(n) /\ ReceivedInOrder(n) /\ ReceivedCount(n)

DeliveryInv == DeliveryTypes /\ \A n \in NotifierId : Delivered(n)

NotifierSame(n) ==
  UNCHANGED <<events[n], sent[n], received[n], evt[n], fail_count[n]>>
EndedStay == \A s \in Subject : state[s] = "ended" => state'[s] = "ended"

LEMMA CopiesAreFinite ==
  ASSUME DeliveryTypes, NEW n \in NotifierId, NEW s
  PROVE  IsFiniteSet(Copies(n, s)) /\ Cardinality(Copies(n, s)) \in Nat
  <1> DEFINE len == Len(received[n])
  <1>1. 1 \in Int /\ len \in Int /\ DOMAIN received[n] = 1..len
    BY DEF DeliveryTypes
  <1>2. Copies(n, s) \in SUBSET (1..len)
    BY <1>1 DEF Copies
  <1> HIDE DEF len
  <1>3. IsFiniteSet(1..len)
    BY <1>1, FS_Interval
  <1>4. IsFiniteSet(Copies(n, s))
    BY <1>2, <1>3, FS_Subset
  <1> QED
    BY <1>4, FS_CardinalityType

LEMMA TakenWithinSent ==
  ASSUME NEW n, Len(sent[n]) \in Nat, Len(events[n]) \in Nat, Taken(n) \in Nat
  PROVE  /\ Taken(n) + (Len(events[n]) + 1) = Len(sent[n]) + 1
         /\ \A p \in 1..Len(events[n]) : Taken(n) + p \in 1..Len(sent[n])
         /\ Taken(n) # 0 => Taken(n) \in 1..Len(sent[n])
         /\ Len(sent[n]) - (Len(events[n]) - 1) = Taken(n) + 1
  <1> DEFINE s == Len(sent[n])
             e == Len(events[n])
  <1>1. Taken(n) = s - e /\ s \in Nat /\ e \in Nat
    BY DEF Taken
  <1> HIDE DEF s, e
  <1>2. /\ Taken(n) + (e + 1) = s + 1 /\ \A p \in 1..e : Taken(n) + p \in 1..s
        /\ Taken(n) # 0 => Taken(n) \in 1..s
        /\ s - (e - 1) = Taken(n) + 1
    BY <1>1
  <1> QED
    BY <1>2 DEF s, e

LEMMA TakenWasSent ==
  ASSUME NEW n, Len(sent[n]) \in Nat, Len(events[n]) \in Nat, Taken(n) \in Nat
  PROVE  \A p \in 1..Taken(n) : p \in 1..Len(sent[n])
  <1> DEFINE s == Len(sent[n])
             e == Len(events[n])
             k == Taken(n)
  <1>1. k = s - e /\ s \in Nat /\ e \in Nat /\ k \in Nat
    BY DEF Taken
  <1> HIDE DEF s, e, k
  <1>2. \A p \in 1..k : p \in 1..s
    BY <1>1
  <1> QED
    BY <1>2 DEF s, k

(* Nothing new about a notifier. *)
LEMMA DeliveredSame ==
  ASSUME DeliveryTypes, NEW n \in NotifierId, Delivered(n), NotifierSame(n), EndedStay
  PROVE  Delivered(n)'
  <1>1. Channel(n)'
    BY DEF Delivered, Channel, Taken, NotifierSame
  <1>2. SentOnce(n)'
    <2>1. \A p \in DOMAIN sent[n] : sent[n][p] \in Subject
      BY DEF DeliveryTypes
    <2> QED
      BY <2>1 DEF Delivered, SentOnce, NotifierSame, EndedStay
  <1>3. ReceivedInOrder(n)'
    BY DEF Delivered, ReceivedInOrder, Taken, NotifierSame
  <1>4. ReceivedCount(n)'
    BY DEF Delivered, ReceivedCount, Copies, NotifierSame
  <1> QED
    BY <1>1, <1>2, <1>3, <1>4 DEF Delivered

(* An end is sent behind what waits in the channel. *)
LEMMA EndDelivers ==
  ASSUME DeliveryTypes, NEW s \in Subject, End(s), NEW n \in NotifierId, Delivered(n)
  PROVE  Delivered(n)'
  <1>1. state[s] = "active" /\ state'[s] = "ended" /\ EndedStay
    BY DEF End, EndedStay, DeliveryTypes
  <1>2. UNCHANGED <<received, evt, fail_count>>
    BY DEF End, workerVars
  <1>3. CASE n = notifier[s] /\ n \in notifiers
    <2>1. events'[n] = Append(events[n], s) /\ sent'[n] = Append(sent[n], s)
      BY <1>3 DEF End, DeliveryTypes
    <2>2. sent[n] \in Seq(Subject) /\ events[n] \in Seq(Subject)
      BY DEF DeliveryTypes
    <2>3. /\ Len(sent'[n]) = Len(sent[n]) + 1 /\ Len(events'[n]) = Len(events[n]) + 1
          /\ \A p \in DOMAIN sent'[n] : sent'[n][p] = IF p = Len(sent[n]) + 1 THEN s ELSE sent[n][p]
          /\ \A p \in DOMAIN events'[n] :
               events'[n][p] = IF p = Len(events[n]) + 1 THEN s ELSE events[n][p]
          /\ DOMAIN sent'[n] = 1..(Len(sent[n]) + 1) /\ DOMAIN sent[n] = 1..Len(sent[n])
          /\ DOMAIN events'[n] = 1..(Len(events[n]) + 1) /\ DOMAIN events[n] = 1..Len(events[n])
          /\ Len(sent[n]) \in Nat /\ Len(events[n]) \in Nat
      BY <2>1, <2>2
    <2>4. \A p \in DOMAIN sent[n] : sent[n][p] # s /\ sent[n][p] \in Subject
      BY <1>1, <2>2 DEF Delivered, SentOnce
    <2>5. Taken(n)' = Taken(n) /\ Taken(n) \in Nat
      BY <2>3 DEF Taken, Delivered, Channel
    <2>6. Taken(n) = Len(sent[n]) - Len(events[n])
      BY DEF Taken
    <2>14. Len(sent[n]) \in Nat /\ Len(events[n]) \in Nat
      BY <2>2
    <2>7. Channel(n)'
      <3>1. ASSUME NEW p \in DOMAIN events'[n] PROVE events'[n][p] = sent'[n][Taken(n) + p]
        <4>1. CASE p = Len(events[n]) + 1
          <5>1. Taken(n) + p = Len(sent[n]) + 1
            BY <4>1, <2>5, <2>14, TakenWithinSent
          <5>2. Len(sent[n]) + 1 \in DOMAIN sent'[n]
            BY <2>3
          <5> QED
            BY <4>1, <5>1, <5>2, <2>3
        <4>2. CASE p # Len(events[n]) + 1
          <5>3. p \in 1..Len(events[n])
            BY <4>2, <2>3
          <5>4. Taken(n) + p \in 1..Len(sent[n])
            BY <5>3, <2>5, <2>14, TakenWithinSent
          <5>1. p \in DOMAIN events[n] /\ Taken(n) + p \in DOMAIN sent[n]
            BY <5>3, <5>4, <2>3
          <5>5. Taken(n) + p \in DOMAIN sent'[n] /\ Taken(n) + p # Len(sent[n]) + 1
            BY <5>4, <2>3
          <5>2. events[n][p] = sent[n][Taken(n) + p]
            BY <5>1 DEF Delivered, Channel
          <5> QED
            BY <4>2, <5>2, <5>5, <2>3
        <4> QED
          BY <4>1, <4>2
      <3>2. evt'[n] # NoSubject => Taken(n) # 0 /\ evt'[n] = sent'[n][Taken(n)]
        <4>2. Taken(n) # 0 => Taken(n) \in 1..Len(sent[n])
          BY <2>5, <2>14, TakenWithinSent
        <4>1. Taken(n) # 0 => Taken(n) \in DOMAIN sent'[n] /\ Taken(n) # Len(sent[n]) + 1
          BY <4>2, <2>3
        <4> QED
          BY <1>2, <2>3, <4>1 DEF Delivered, Channel
      <3> QED
        BY <2>5, <3>1, <3>2 DEF Channel
    <2>8. SentOnce(n)'
      <3>1. ASSUME NEW p \in DOMAIN sent'[n] PROVE state'[sent'[n][p]] = "ended"
        BY <1>1, <2>3, <2>4 DEF Delivered, SentOnce, EndedStay
      <3>2. ASSUME NEW p \in DOMAIN sent'[n], NEW q \in DOMAIN sent'[n], sent'[n][p] = sent'[n][q]
            PROVE  p = q
        BY <3>2, <2>3, <2>4 DEF Delivered, SentOnce
      <3> QED
        BY <3>1, <3>2 DEF SentOnce
    <2>9. \A i \in DOMAIN received[n] :
            \E p \in 1..Taken(n) : p \in DOMAIN sent[n] /\ sent[n][p] = received[n][i]
      <3>1. \A p \in 1..Taken(n) : p \in DOMAIN sent[n]
        <4>1. \A p \in 1..Taken(n) : p \in 1..Len(sent[n])
          BY <2>5, <2>14, TakenWasSent
        <4> QED
          BY <4>1, <2>3
      <3> QED
        BY <3>1 DEF Delivered, ReceivedInOrder
    <2>13. \A i \in DOMAIN received[n] : received[n][i] # s
      BY <2>4, <2>9
    <2>10. ReceivedInOrder(n)'
      <3>1. \A p \in DOMAIN sent[n] : p \in DOMAIN sent'[n] /\ sent'[n][p] = sent[n][p]
        BY <2>3
      <3>2. \A i \in DOMAIN received[n] : \E p \in 1..Taken(n) : sent'[n][p] = received[n][i]
        BY <2>9, <3>1
      <3>3. \A p \in DOMAIN sent'[n] : p \in DOMAIN sent[n] \/ sent'[n][p] = s
        BY <2>3
      <3>4. \A i, j \in DOMAIN received[n], p, q \in DOMAIN sent'[n] :
              i < j /\ sent'[n][p] = received[n][i] /\ sent'[n][q] = received[n][j] => p <= q
        <4> SUFFICES ASSUME NEW i \in DOMAIN received[n], NEW j \in DOMAIN received[n],
                            NEW p \in DOMAIN sent'[n], NEW q \in DOMAIN sent'[n], i < j,
                            sent'[n][p] = received[n][i], sent'[n][q] = received[n][j]
                     PROVE  p <= q
          OBVIOUS
        <4>1. p \in DOMAIN sent[n] /\ q \in DOMAIN sent[n]
          BY <2>13, <3>3
        <4>2. sent[n][p] = received[n][i] /\ sent[n][q] = received[n][j]
          BY <3>1, <4>1
        <4> QED
          BY <4>1, <4>2 DEF Delivered, ReceivedInOrder
      <3> QED
        BY <1>2, <2>5, <3>2, <3>4 DEF ReceivedInOrder
    <2>11. ReceivedCount(n)'
      BY <1>2 DEF Delivered, ReceivedCount, Copies
    <2> QED
      BY <2>7, <2>8, <2>10, <2>11 DEF Delivered
  <1>4. CASE ~(n = notifier[s] /\ n \in notifiers)
    <2>1. events'[n] = events[n] /\ sent'[n] = sent[n]
      BY <1>4 DEF End, DeliveryTypes
    <2> QED
      BY <1>1, <1>2, <2>1, DeliveredSame DEF NotifierSame
  <1> QED
    BY <1>3, <1>4

(* The worker takes the next event, which was not received before.          *)
LEMMA RecvDelivers ==
  ASSUME NotifyAssumption, DeliveryTypes, NEW n \in NotifierId, Recv(n), Delivered(n)
  PROVE  Delivered(n)'
  <1>1. /\ evt[n] = NoSubject /\ events[n] # <<>> /\ events[n] \in Seq(Subject)
        /\ sent[n] \in Seq(Subject)
        /\ evt'[n] = Head(events[n]) /\ events'[n] = Tail(events[n])
        /\ UNCHANGED <<sent, received, fail_count, state>>
    BY DEF Recv, DeliveryTypes, subjectVars
  <1>2. /\ Len(events[n]) \in Nat \ {0} /\ Len(events'[n]) = Len(events[n]) - 1
        /\ DOMAIN events[n] = 1..Len(events[n]) /\ DOMAIN events'[n] = 1..(Len(events[n]) - 1)
        /\ \A p \in DOMAIN events'[n] : events'[n][p] = events[n][p + 1]
        /\ evt'[n] = events[n][1] /\ Len(sent[n]) \in Nat /\ DOMAIN sent[n] = 1..Len(sent[n])
    BY <1>1
  <1>3. Taken(n)' = Taken(n) + 1 /\ Taken(n) \in Nat /\ Taken(n) + 1 \in DOMAIN sent[n]
    <2>1. Taken(n) = Len(sent[n]) - Len(events[n]) /\ Taken(n) \in Nat
      BY DEF Taken, Delivered, Channel
    <2>2. Taken(n)' = Len(sent[n]) - Len(events'[n])
      BY <1>1 DEF Taken
    <2>3. Len(sent[n]) \in Nat /\ Len(events[n]) \in Nat \ {0}
          /\ Len(events'[n]) = Len(events[n]) - 1
      BY <1>2
    <2>4. Taken(n)' = Taken(n) + 1 /\ Taken(n) + 1 \in 1..Len(sent[n])
      <3>1. 1 \in 1..Len(events[n])
        BY <2>3
      <3> QED
        BY <2>1, <2>2, <2>3, <3>1, TakenWithinSent
    <2> QED
      BY <1>2, <2>1, <2>4
  <1>4. evt'[n] = sent[n][Taken(n) + 1] /\ evt'[n] \in Subject
    <2>1. 1 \in DOMAIN events[n]
      BY <1>2
    <2>2. events[n][1] = sent[n][Taken(n) + 1]
      BY <2>1 DEF Delivered, Channel
    <2> QED
      BY <1>1, <1>2, <1>3, <2>2
  <1>5. Channel(n)'
    <2>1. \A p \in DOMAIN events'[n] : events'[n][p] = sent[n][Taken(n) + (p + 1)]
      <3>1. \A p \in DOMAIN events'[n] : p + 1 \in DOMAIN events[n]
        BY <1>2
      <3> QED
        BY <1>2, <3>1 DEF Delivered, Channel
    <2>2. \A p \in DOMAIN events'[n] : Taken(n) + (p + 1) = (Taken(n) + 1) + p
      BY <1>2, <1>3
    <2>3. \A p \in DOMAIN events'[n] : events'[n][p] = sent[n][(Taken(n) + 1) + p]
      BY <2>1, <2>2
    <2>4. Taken(n)' \in Nat \ {0}
      BY <1>3
    <2> QED
      BY <1>1, <1>3, <1>4, <2>3, <2>4 DEF Channel
  <1>6. SentOnce(n)'
    BY <1>1 DEF Delivered, SentOnce
  <1>7. ReceivedInOrder(n)'
    BY <1>1, <1>3 DEF Delivered, ReceivedInOrder
  <1>8. \A i \in DOMAIN received[n] : received[n][i] # evt'[n]
    <2> SUFFICES ASSUME NEW i \in DOMAIN received[n], received[n][i] = evt'[n] PROVE FALSE
      OBVIOUS
    <2>1. PICK p \in 1..Taken(n) : sent[n][p] = received[n][i]
      BY DEF Delivered, ReceivedInOrder
    <2>2. p \in DOMAIN sent[n] /\ p # Taken(n) + 1
      BY <1>2, <1>3
    <2> QED
      BY <1>3, <1>4, <2>1, <2>2 DEF Delivered, SentOnce
  <1>9. ReceivedCount(n)'
    <2> SUFFICES ASSUME NEW s \in Subject
                 PROVE  Cardinality(Copies(n, s)') <= IF s = evt'[n] THEN fail_count[n]
                                                      ELSE MAX_NOTIFY_FAILS
      BY <1>1 DEF ReceivedCount
    <2>1. CASE s = evt'[n]
      <3>1. Copies(n, s)' = {}
        BY <1>1, <1>8, <2>1 DEF Copies
      <3>2. Cardinality({}) = 0
        BY FS_EmptySet
      <3> QED
        BY <2>1, <3>1, <3>2, <1>1 DEF DeliveryTypes
    <2>2. CASE s # evt'[n]
      <3>1. Copies(n, s)' = Copies(n, s)
        BY <1>1 DEF Copies
      <3>2. s # evt[n]
        BY <1>1 DEF NotifyAssumption
      <3> QED
        BY <2>2, <3>1, <3>2 DEF Delivered, ReceivedCount
    <2> QED
      BY <2>1, <2>2
  <1> QED
    BY <1>5, <1>6, <1>7, <1>9 DEF Delivered

(* The receiver gets the event once more; who counts the attempt is left    *)
(* open.                                                                    *)
LEMMA ReceivedKeepsOrder ==
  ASSUME DeliveryTypes, NEW n \in NotifierId, Delivered(n), evt[n] # NoSubject,
         Got(n), UNCHANGED <<sent, events>>
  PROVE  /\ ReceivedInOrder(n)'
         /\ \A s \in Subject : Cardinality(Copies(n, s)') =
              IF s = evt[n] THEN Cardinality(Copies(n, s)) + 1 ELSE Cardinality(Copies(n, s))
  <1> DEFINE last == Len(received[n]) + 1
  <1>1. /\ received[n] \in Seq(Subject) /\ evt[n] \in Subject /\ sent[n] \in Seq(Subject)
        /\ received'[n] = Append(received[n], evt[n])
    BY DEF Got, DeliveryTypes
  <1>2. /\ last \in Nat /\ Len(received[n]) \in Nat
        /\ DOMAIN received[n] = 1..Len(received[n]) /\ DOMAIN received'[n] = 1..last
        /\ \A i \in DOMAIN received'[n] :
             received'[n][i] = IF i = last THEN evt[n] ELSE received[n][i]
    BY <1>1
  <1>3. \A i \in DOMAIN received'[n] : i # last => i \in DOMAIN received[n] /\ i < last
    BY <1>2
  <1>4. last \in DOMAIN received'[n] /\ last \notin DOMAIN received[n]
        /\ \A i \in DOMAIN received'[n] : i <= last
    BY <1>2
  <1>5. \A i \in DOMAIN received[n] : i \in DOMAIN received'[n]
    BY <1>2
  <1>6. \A i, j \in DOMAIN received'[n] : i < j => i # last
    BY <1>2
  <1> HIDE DEF last
  <1>7. Taken(n)' = Taken(n)
    BY DEF Taken
  <1>8. /\ Len(sent[n]) \in Nat /\ Len(events[n]) \in Nat /\ Taken(n) \in Nat
        /\ Taken(n) # 0 /\ evt[n] = sent[n][Taken(n)] /\ DOMAIN sent[n] = 1..Len(sent[n])
    BY <1>1 DEF DeliveryTypes, Delivered, Channel
  <1>9. Taken(n) \in DOMAIN sent[n] /\ Taken(n) \in 1..Taken(n)
    <2>1. Taken(n) \in 1..Len(sent[n])
      BY <1>8, TakenWithinSent
    <2>2. Taken(n) \in 1..Taken(n)
      BY <1>8
    <2> QED
      BY <1>8, <2>1, <2>2
  <1>10. ASSUME NEW i \in DOMAIN received'[n]
         PROVE  \E p \in 1..Taken(n) : sent[n][p] = received'[n][i]
    <2>1. CASE i = last
      BY <2>1, <1>2, <1>8, <1>9
    <2>2. CASE i # last
      BY <2>2, <1>2, <1>3 DEF Delivered, ReceivedInOrder
    <2> QED
      BY <2>1, <2>2
  <1>11. ASSUME NEW p \in DOMAIN sent[n], NEW i \in DOMAIN received'[n],
                sent[n][p] = received'[n][i]
         PROVE  p <= Taken(n)
    <2>1. PICK r \in 1..Taken(n) : sent[n][r] = received'[n][i]
      BY <1>10
    <2>2. Taken(n) \in 1..Len(sent[n])
      BY <1>8, TakenWithinSent
    <2>3. r \in 1..Len(sent[n])
      BY <1>8, <2>2
    <2>4. p = r
      BY <1>8, <1>11, <2>1, <2>3 DEF Delivered, SentOnce
    <2> QED
      BY <1>8, <2>4
  <1>12. ASSUME NEW i \in DOMAIN received'[n], NEW j \in DOMAIN received'[n],
                NEW p \in DOMAIN sent[n], NEW q \in DOMAIN sent[n], i < j,
                sent[n][p] = received'[n][i], sent[n][q] = received'[n][j]
         PROVE  p <= q
    <2>1. i # last
      BY <1>6, <1>12
    <2>2. CASE j = last
      <3>1. q = Taken(n)
        BY <1>2, <1>8, <1>9, <1>12, <2>2 DEF Delivered, SentOnce
      <3> QED
        BY <1>11, <1>12, <3>1
    <2>3. CASE j # last
      <3>1. i \in DOMAIN received[n] /\ j \in DOMAIN received[n]
        BY <1>3, <2>1, <2>3
      <3>2. sent[n][p] = received[n][i] /\ sent[n][q] = received[n][j]
        BY <1>2, <1>12, <2>1, <2>3
      <3> QED
        BY <1>12, <3>1, <3>2 DEF Delivered, ReceivedInOrder
    <2> QED
      BY <2>2, <2>3
  <1>13. ReceivedInOrder(n)'
    BY <1>7, <1>10, <1>12 DEF ReceivedInOrder
  <1>14. ASSUME NEW s \in Subject
         PROVE  Cardinality(Copies(n, s)') =
                  IF s = evt[n] THEN Cardinality(Copies(n, s)) + 1 ELSE Cardinality(Copies(n, s))
    <2>1. IsFiniteSet(Copies(n, s))
      BY CopiesAreFinite
    <2>2. last \notin Copies(n, s)
      BY <1>4 DEF Copies
    <2>3. CASE s = evt[n]
      <3>1. Copies(n, s)' = Copies(n, s) \cup {last}
        BY <1>2, <1>3, <1>4, <1>5, <2>3 DEF Copies
      <3> QED
        BY <2>1, <2>2, <2>3, <3>1, FS_AddElement
    <2>4. CASE s # evt[n]
      <3>1. Copies(n, s)' = Copies(n, s)
        BY <1>2, <1>3, <1>4, <1>5, <2>4 DEF Copies
      <3> QED
        BY <2>4, <3>1
    <2> QED
      BY <2>3, <2>4
  <1> QED
    BY <1>13, <1>14

(* An attempt, delivered or failed, counted as the worker does.             *)
LEMMA AttemptDelivers ==
  ASSUME NotifyAssumption, DeliveryTypes, NEW n \in NotifierId, Delivered(n),
         Deliver(n) \/ Fail(n)
  PROVE  Delivered(n)'
  <1>1. /\ evt[n] \in Subject /\ evt[n] # NoSubject
        /\ UNCHANGED <<sent, events, state>>
    BY DEF Deliver, Fail, Retry, subjectVars, DeliveryTypes
  <1>2. Got(n) \/ received' = received
    BY DEF Deliver, Fail
  <1>3. fail_count[n] \in Nat /\ fail_count[n] + 1 <= MAX_NOTIFY_FAILS /\ MAX_NOTIFY_FAILS \in Nat
    BY DEF DeliveryTypes, NotifyAssumption
  <1>4. \/ evt'[n] = NoSubject
        \/ evt'[n] = evt[n] /\ fail_count'[n] = fail_count[n] + 1
    <2>1. CASE Deliver(n)
      BY <2>1 DEF Deliver, Done, DeliveryTypes
    <2>2. CASE Fail(n)
      BY <2>2 DEF Fail, Done, Retry, DeliveryTypes
    <2> QED
      BY <2>1, <2>2
  <1>5. Channel(n)' /\ SentOnce(n)'
    <2>1. Taken(n)' = Taken(n)
      BY <1>1 DEF Taken
    <2>2. evt'[n] # NoSubject => evt'[n] = evt[n]
      BY <1>4
    <2> QED
      BY <1>1, <2>1, <2>2 DEF Delivered, Channel, SentOnce
  <1>6. /\ ReceivedInOrder(n)'
        /\ \A s \in Subject : Cardinality(Copies(n, s)') \in
             IF s = evt[n] THEN {Cardinality(Copies(n, s)), Cardinality(Copies(n, s)) + 1}
                           ELSE {Cardinality(Copies(n, s))}
    <2>1. CASE Got(n)
      BY <1>1, <2>1, ReceivedKeepsOrder
    <2>2. CASE received' = received
      <3>1. ReceivedInOrder(n)'
        BY <1>1, <2>2 DEF Delivered, ReceivedInOrder, Taken
      <3>2. \A s \in Subject : Copies(n, s)' = Copies(n, s)
        BY <2>2 DEF Copies
      <3> QED
        BY <3>1, <3>2
    <2> QED
      BY <1>2, <2>1, <2>2
  <1>7. ASSUME NEW s \in Subject
        PROVE  Cardinality(Copies(n, s)') <= IF s = evt'[n] THEN fail_count'[n]
                                             ELSE MAX_NOTIFY_FAILS
    <2>1. Cardinality(Copies(n, s)) \in Nat
      BY CopiesAreFinite
    <2>2. Cardinality(Copies(n, s)) <= IF s = evt[n] THEN fail_count[n] ELSE MAX_NOTIFY_FAILS
      BY DEF Delivered, ReceivedCount
    <2>3. s # NoSubject
      BY DEF NotifyAssumption
    <2>4. CASE s = evt[n]
      <3>1. Cardinality(Copies(n, s)') <= fail_count[n] + 1
        BY <1>3, <1>6, <2>1, <2>2, <2>4
      <3>2. Cardinality(Copies(n, s)') <= MAX_NOTIFY_FAILS
        BY <1>3, <1>6, <2>1, <2>2, <2>4
      <3> QED
        BY <1>4, <2>3, <3>1, <3>2
    <2>5. CASE s # evt[n]
      BY <1>4, <1>6, <2>2, <2>3, <2>5
    <2> QED
      BY <2>4, <2>5
  <1>8. ReceivedCount(n)'
    BY <1>7 DEF ReceivedCount
  <1> QED
    BY <1>5, <1>6, <1>8 DEF Delivered

LEMMA DeliveryTypesStep ==
  ASSUME NotifyAssumption, DeliveryTypes, [Next]_vars
  PROVE  DeliveryTypes'
  <1> USE DEF DeliveryTypes
  <1>1. ASSUME NEW s \in Subject, Resolve(s) \/ Submit(s) \/ End(s) \/ Record(s)
        PROVE  DeliveryTypes'
    <2>1. CASE End(s)
      <3>1. \A n \in NotifierId : events'[n] \in Seq(Subject) /\ sent'[n] \in Seq(Subject)
        <4> SUFFICES ASSUME NEW n \in NotifierId
                     PROVE  events'[n] \in Seq(Subject) /\ sent'[n] \in Seq(Subject)
          OBVIOUS
        <4>1. Append(events[n], s) \in Seq(Subject) /\ Append(sent[n], s) \in Seq(Subject)
          OBVIOUS
        <4>2. events'[n] \in {events[n], Append(events[n], s)}
              /\ sent'[n] \in {sent[n], Append(sent[n], s)}
          <5>1. CASE n = notifier[s] /\ n \in notifiers
            BY <2>1, <5>1 DEF End
          <5>2. CASE ~(n = notifier[s] /\ n \in notifiers)
            <6>1. events'[n] = events[n] /\ sent'[n] = sent[n]
              BY <2>1, <5>2 DEF End
            <6> QED
              BY <6>1
          <5> QED
            BY <5>1, <5>2
        <4> QED
          BY <4>1, <4>2
      <3>2. /\ events' = [n \in NotifierId |-> events'[n]] /\ sent' = [n \in NotifierId |-> sent'[n]]
            /\ UNCHANGED workerVars /\ state' = [x \in Subject |-> state'[x]]
        BY <2>1 DEF End
      <3> QED
        BY <3>1, <3>2 DEF workerVars
    <2>2. CASE Resolve(s) \/ Submit(s) \/ Record(s)
      BY <2>2 DEF Resolve, Submit, Record, workerVars
    <2> QED
      BY <1>1, <2>1, <2>2
  <1>2. ASSUME NEW n \in NotifierId, Work(n) PROVE DeliveryTypes'
    <2>1. CASE Recv(n)
      <3>1. Head(events[n]) \in Subject /\ Tail(events[n]) \in Seq(Subject)
        BY <2>1 DEF Recv
      <3> QED
        BY <2>1, <3>1 DEF Recv, subjectVars
    <2>2. ASSUME Got(n), evt[n] # NoSubject PROVE received' \in [NotifierId -> Seq(Subject)]
      <3>1. Append(received[n], evt[n]) \in Seq(Subject)
        BY <2>2
      <3> QED
        BY <2>2, <3>1 DEF Got
    <2>3. ASSUME Done(n) PROVE /\ evt' \in [NotifierId -> Subject \cup {NoSubject}]
                               /\ fail_count' \in [NotifierId -> 0..(MAX_NOTIFY_FAILS - 1)]
      BY <2>3 DEF Done, NotifyAssumption
    <2>4. CASE Deliver(n)
      BY <2>2, <2>3, <2>4 DEF Deliver, subjectVars
    <2>5. CASE Fail(n)
      <3>1. received' \in [NotifierId -> Seq(Subject)] /\ UNCHANGED <<sent, state, events>>
        BY <2>2, <2>5 DEF Fail, Retry, subjectVars
      <3>2. CASE fail_count[n] + 1 >= MAX_NOTIFY_FAILS
        BY <2>3, <2>5, <3>1, <3>2 DEF Fail
      <3>3. CASE ~(fail_count[n] + 1 >= MAX_NOTIFY_FAILS)
        <4>1. fail_count[n] + 1 \in 0..(MAX_NOTIFY_FAILS - 1)
          BY <3>3 DEF NotifyAssumption
        <4> QED
          BY <2>5, <3>1, <3>3, <4>1 DEF Fail, Retry
      <3> QED
        BY <3>2, <3>3
    <2> QED
      BY <1>2, <2>1, <2>4, <2>5 DEF Work
  <1>3. CASE Admin \/ Cli \/ UNCHANGED vars
    BY <1>3 DEF Admin, Cli, AddNotifier, AddLoaded, RemoveNotifier, RemoveLoaded, CmdNotifierAdd,
                CmdNotifierRemove, vars, subjectVars, workerVars
  <1>4. CASE Crash
    <2>1. <<>> \in Seq(Subject) /\ 0 \in 0..(MAX_NOTIFY_FAILS - 1)
      BY DEF NotifyAssumption
    <2> QED
      BY <1>4, <2>1 DEF Crash
  <1> QED
    BY <1>1, <1>2, <1>3, <1>4 DEF Next

LEMMA DeliveryInit == NotifyAssumption /\ Init => DeliveryInv
  <1> SUFFICES ASSUME NotifyAssumption, Init PROVE DeliveryInv
    OBVIOUS
  <1>1. <<>> \in Seq(Subject) /\ 0 \in 0..(MAX_NOTIFY_FAILS - 1) /\ MAX_NOTIFY_FAILS \in Nat
    BY DEF NotifyAssumption
  <1>2. DeliveryTypes
    BY <1>1 DEF Init, DeliveryTypes
  <1>3. ASSUME NEW n \in NotifierId PROVE Delivered(n)
    <2>1. /\ sent[n] = <<>> /\ events[n] = <<>> /\ received[n] = <<>>
          /\ evt[n] = NoSubject /\ fail_count[n] = 0
      BY DEF Init
    <2>2. Len(<<>>) = 0
      OBVIOUS
    <2>3. Taken(n) = 0
      BY <2>1, <2>2 DEF Taken
    <2>4. DOMAIN sent[n] = {} /\ DOMAIN events[n] = {} /\ DOMAIN received[n] = {}
      BY <2>1
    <2>5. \A s \in Subject : Cardinality(Copies(n, s)) = 0
      BY <2>4, FS_EmptySet DEF Copies
    <2> QED
      BY <1>1, <2>1, <2>3, <2>4, <2>5
      DEF Delivered, Channel, SentOnce, ReceivedInOrder, ReceivedCount
  <1> QED
    BY <1>2, <1>3 DEF DeliveryInv

LEMMA DeliveryStep == NotifyAssumption /\ DeliveryInv /\ [Next]_vars => DeliveryInv'
  <1> SUFFICES ASSUME NotifyAssumption, DeliveryInv, [Next]_vars PROVE DeliveryInv'
    OBVIOUS
  <1>1. DeliveryTypes /\ DeliveryTypes'
    BY DeliveryTypesStep DEF DeliveryInv
  <1>2. SUFFICES ASSUME NEW n \in NotifierId PROVE Delivered(n)'
    BY <1>1 DEF DeliveryInv
  <1>3. Delivered(n)
    BY DEF DeliveryInv
  <1>4. ASSUME NEW s \in Subject, Resolve(s) \/ Submit(s) \/ End(s) \/ Record(s)
        PROVE  Delivered(n)'
    <2>1. CASE End(s)
      BY <1>1, <1>3, <2>1, EndDelivers
    <2>2. CASE Resolve(s) \/ Submit(s) \/ Record(s)
      <3>1. UNCHANGED <<workerVars, events, sent>>
        BY <2>2 DEF Resolve, Submit, Record
      <3>2. EndedStay
        BY <1>1, <2>2 DEF Resolve, Submit, Record, EndedStay, DeliveryTypes
      <3> QED
        BY <1>1, <1>3, <3>1, <3>2, DeliveredSame DEF NotifierSame, workerVars
    <2> QED
      BY <1>4, <2>1, <2>2
  <1>5. ASSUME NEW m \in NotifierId, Work(m) PROVE Delivered(n)'
    <2>1. CASE m = n
      BY <1>1, <1>3, <1>5, <2>1, RecvDelivers, AttemptDelivers DEF Work
    <2>2. CASE m # n
      <3>1. NotifierSame(n)
        BY <1>1, <1>5, <2>2 DEF Work, Recv, Deliver, Fail, Retry, Done, Got, NotifierSame,
                                DeliveryTypes
      <3>2. EndedStay
        BY <1>5 DEF Work, Recv, Deliver, Fail, subjectVars, EndedStay
      <3> QED
        BY <1>1, <1>3, <3>1, <3>2, DeliveredSame
    <2> QED
      BY <2>1, <2>2
  <1>6. CASE Admin \/ Cli \/ UNCHANGED vars
    <2>1. UNCHANGED <<workerVars, events, sent, state>>
      BY <1>6 DEF Admin, Cli, AddNotifier, AddLoaded, RemoveNotifier, RemoveLoaded, CmdNotifierAdd,
                  CmdNotifierRemove, vars, subjectVars
    <2> QED
      BY <1>1, <1>3, <2>1, DeliveredSame DEF NotifierSame, EndedStay, workerVars
  <1>7. CASE Crash
    <2>1. /\ sent'[n] = <<>> /\ events'[n] = <<>> /\ received'[n] = <<>>
          /\ evt'[n] = NoSubject /\ fail_count'[n] = 0
      BY <1>7 DEF Crash
    <2>2. Len(<<>>) = 0
      OBVIOUS
    <2>3. Taken(n)' = 0
      BY <2>1, <2>2 DEF Taken
    <2>4. DOMAIN sent'[n] = {} /\ DOMAIN events'[n] = {} /\ DOMAIN received'[n] = {}
      BY <2>1
    <2>5. \A s \in Subject : Cardinality(Copies(n, s)') = 0
      BY <2>4, FS_EmptySet DEF Copies
    <2> QED
      BY <2>1, <2>3, <2>4, <2>5
      DEF NotifyAssumption, Delivered, Channel, SentOnce, ReceivedInOrder, ReceivedCount
  <1> QED
    BY <1>4, <1>5, <1>6, <1>7 DEF Next

(* The receiver of a notifier gets its events in the order in which their   *)
(* tasks ended, one repeated only by its own failed attempts and at most    *)
(* MAX_NOTIFY_FAILS times in a life of the service, however many tasks end  *)
(* meanwhile and whether or not the notifier is still registered            *)
(* (notify_worker).                                                         *)
THEOREM EventsAreInOrder == Spec => []InOrder
  <1>1. DeliveryInv /\ NotifyAssumption => InOrder
    <2> SUFFICES ASSUME DeliveryInv, NotifyAssumption, NEW n \in NotifierId
                 PROVE  /\ \A i, j \in DOMAIN received[n] : i < j =>
                             Position(n, received[n][i]) <= Position(n, received[n][j])
                        /\ \A s \in Subject : Cardinality(Copies(n, s)) <= MAX_NOTIFY_FAILS
      BY DEF InOrder, Copies
    <2>1. DeliveryTypes /\ Delivered(n)
      BY DEF DeliveryInv
    <2>2. ASSUME NEW i \in DOMAIN received[n]
          PROVE  /\ Position(n, received[n][i]) \in DOMAIN sent[n]
                 /\ sent[n][Position(n, received[n][i])] = received[n][i]
      <3>1. /\ Len(sent[n]) \in Nat /\ Len(events[n]) \in Nat /\ Taken(n) \in Nat
            /\ DOMAIN sent[n] = 1..Len(sent[n])
        BY <2>1 DEF DeliveryTypes, Delivered, Channel
      <3>2. PICK p \in 1..Taken(n) : sent[n][p] = received[n][i]
        BY <2>1 DEF Delivered, ReceivedInOrder
      <3>3. Taken(n) \in 1..Len(sent[n])
        <4>1. Taken(n) # 0
          BY <3>1
        <4> QED
          BY <3>1, <4>1, TakenWithinSent
      <3>4. p \in DOMAIN sent[n]
        BY <3>1, <3>3
      <3> QED
        BY <3>2, <3>4 DEF Position
    <2>3. \A i, j \in DOMAIN received[n] : i < j =>
            Position(n, received[n][i]) <= Position(n, received[n][j])
      BY <2>1, <2>2 DEF Delivered, ReceivedInOrder
    <2>4. ASSUME NEW s \in Subject PROVE Cardinality(Copies(n, s)) <= MAX_NOTIFY_FAILS
      <3>1. Cardinality(Copies(n, s)) \in Nat
        BY <2>1, CopiesAreFinite
      <3>2. Cardinality(Copies(n, s)) <= IF s = evt[n] THEN fail_count[n] ELSE MAX_NOTIFY_FAILS
        BY <2>1 DEF Delivered, ReceivedCount
      <3>3. fail_count[n] \in Nat /\ fail_count[n] <= MAX_NOTIFY_FAILS /\ MAX_NOTIFY_FAILS \in Nat
        BY <2>1 DEF DeliveryTypes, NotifyAssumption
      <3> QED
        BY <3>1, <3>2, <3>3
    <2> QED
      BY <2>3, <2>4
  <1> QED
    BY DeliveryInit, DeliveryStep, <1>1, NotifyAssumption, PTL DEF Spec

=============================================================================
