-------------------------- MODULE LatestTwoProofs --------------------------
(***************************************************************************)
(* Theorems about LatestTwo for every set of readers and writers, every    *)
(* set of items and every MaxSerial: its invariants, and that its steps    *)
(* are steps of RetainedLog.  Then about the lane whose ring is such a     *)
(* log, ScanSubscription, for every set of clients and every limit: its    *)
(* types, and that neither a slot nor a lost frame is forgotten or made up. *)
(***************************************************************************)
EXTENDS LatestTwo, ScanSubscription, Sums, SequenceTheorems, FiniteSetTheorems, TLAPS

USE MaxSerialAssumption, ItemsAssumption

(* The ring's entries under the writer's step: what publish appends to is  *)
(* a sequence of at most one entry, the newest the ring had.               *)
LEMMA MakeRoomShape ==
  ASSUME TypeOK
  PROVE  /\ MakeRoom \in Seq(Entry)
         /\ Len(entries) = 2 => Len(MakeRoom) = 1 /\ MakeRoom[1] = entries[2]
         /\ Len(entries) # 2 => MakeRoom = entries
         /\ Len(MakeRoom) <= 1
<1> entries \in Seq(Entry) /\ Len(entries) <= 2 /\ Len(entries) \in Nat
  BY DEF TypeOK
<1>1. CASE Len(entries) = 2
  <2>1. entries # << >>
    BY <1>1, EmptySeq
  <2>2. /\ Tail(entries) \in Seq(Entry)
        /\ Len(Tail(entries)) = 1
        /\ Tail(entries)[1] = entries[2]
    BY <1>1, <2>1, HeadTailProperties
  <2> QED BY <1>1, <2>2 DEF MakeRoom
<1>2. CASE Len(entries) # 2
  <2>1. MakeRoom = entries
    BY <1>2 DEF MakeRoom
  <2>2. \A n \in Nat : n <= 2 /\ n # 2 => n <= 1
    OBVIOUS
  <2>3. Len(entries) <= 1
    BY <1>2, <2>2
  <2> QED BY <1>2, <2>1, <2>3, Zenon
<1> QED BY <1>1, <1>2

(* A saturating subtraction never leaves the naturals. *)
LEMMA SaturatingSubNat ==
  ASSUME NEW a \in Nat, NEW b \in Nat
  PROVE  SaturatingSub(a, b) \in Nat
BY DEF SaturatingSub

-----------------------------------------------------------------------------
(* Every reachable state is well-typed, and the ring never holds a third   *)
(* entry.                                                                  *)
LEMMA TypeInit == Init => TypeOK
<1> SUFFICES ASSUME Init PROVE TypeOK
  OBVIOUS
<1>1. entries \in Seq(Entry) /\ Len(entries) <= 2 /\ log \in Seq(Items)
  BY DEF Init
<1>2. cursor \in [Readers -> 0..MaxSerial] /\ serial \in 0..MaxSerial
  BY DEF Init
<1>3. /\ lost \in [Readers -> Nat] /\ delivered \in [Readers -> Nat]
      /\ item \in [Readers -> Items \union {NoItem}]
  BY DEF Init
<1> QED BY <1>1, <1>2, <1>3 DEF Init, TypeOK

(* Every step of a writer or a reader keeps the types of State<T> and of   *)
(* the streams.                                                            *)
LEMMA TypeStep == TypeOK /\ [Next]_vars => TypeOK'
<1> SUFFICES ASSUME TypeOK, [Next]_vars PROVE TypeOK'
  OBVIOUS
<1> USE DEF ringVars, streamVars
<1>1. ASSUME NEW w \in Writers, NEW i \in Items, Publish(w, i)
      PROVE  TypeOK'
  <2>1. serial + 1 \in 1..MaxSerial
    BY <1>1 DEF Publish, TypeOK
  <2>2. [serial |-> serial + 1, item |-> i] \in Entry
    BY <2>1 DEF Entry
  <2>3. MakeRoom \in Seq(Entry) /\ Len(MakeRoom) <= 1
    BY MakeRoomShape
  <2>4. entries' \in Seq(Entry) /\ Len(entries') <= 2
    BY <1>1, <2>2, <2>3 DEF Publish
  <2>5. log' \in Seq(Items)
    BY <1>1 DEF Publish, TypeOK
  <2> QED BY <1>1, <2>1, <2>4, <2>5 DEF Publish, TypeOK
<1>2. ASSUME NEW w \in Writers, PublishRefused(w)
      PROVE  TypeOK'
  BY <1>2 DEF PublishRefused, TypeOK
<1>3. ASSUME NEW w \in Writers, Close(w)
      PROVE  TypeOK'
  BY <1>3 DEF Close, TypeOK
<1>4. ASSUME NEW w \in Writers, NotifyWaiters(w)
      PROVE  TypeOK'
  BY <1>4 DEF NotifyWaiters, Listening, TypeOK
<1>5. ASSUME NEW r \in Readers, Call(r)
      PROVE  TypeOK'
  BY <1>5 DEF Call, TypeOK
<1>6. ASSUME NEW r \in Readers, Deliver(r)
      PROVE  TypeOK'
  <2>1. PICK k \in 1..Len(entries) :
          /\ IsFirstUnseen(r, k)
          /\ cursor' = [cursor EXCEPT ![r] = entries[k].serial]
          /\ item' = [item EXCEPT ![r] = entries[k].item]
    BY <1>6 DEF Deliver
  <2>2. entries[k] \in Entry /\ entries[1] \in Entry
    BY <2>1 DEF TypeOK
  <2>3. LostAt(r) \in Nat
    <3>1. entries[1].serial \in Nat /\ cursor[r] \in Nat
      BY <2>2 DEF TypeOK, Entry
    <3> QED BY <3>1, SaturatingSubNat DEF LostAt
  <2>4. cursor' \in [Readers -> 0..MaxSerial] /\ item' \in [Readers -> Items \union {NoItem}]
    BY <2>1, <2>2 DEF TypeOK, Entry
  <2>5. lost' \in [Readers -> Nat] /\ delivered' \in [Readers -> Nat]
    BY <1>6, <2>3 DEF Deliver, TypeOK
  <2> QED BY <1>6, <2>4, <2>5 DEF Deliver, TypeOK
<1>7. ASSUME NEW r \in Readers, End(r)
      PROVE  TypeOK'
  BY <1>7 DEF End, TypeOK
<1>8. ASSUME NEW r \in Readers, LookInVain(r)
      PROVE  TypeOK'
  BY <1>8 DEF LookInVain, TypeOK
<1>9. ASSUME NEW r \in Readers, Sleep(r)
      PROVE  TypeOK'
  BY <1>9 DEF Sleep, TypeOK
<1>10. ASSUME NEW r \in Readers, Wake(r)
       PROVE  TypeOK'
  BY <1>10 DEF Wake, TypeOK
<1>11. ASSUME NEW r \in Readers, Drop(r)
       PROVE  TypeOK'
  BY <1>11 DEF Drop, TypeOK
<1>12. CASE UNCHANGED vars
  BY <1>12 DEF vars, TypeOK
<1> QED
  BY <1>1, <1>2, <1>3, <1>4, <1>5, <1>6, <1>7, <1>8, <1>9, <1>10, <1>11, <1>12
     DEF Next, WriterStep, ReaderStep

(* Type correctness of the ring, for any number of readers and writers.    *)
THEOREM TypeCorrect == Spec => []TypeOK
BY TypeInit, TypeStep, PTL DEF Spec
-----------------------------------------------------------------------------
(* What the ring is known to hold, entry by entry: the state of a publish  *)
(* and of a look at the ring follow from this without sequences.           *)
LEMMA WindowFacts ==
  ASSUME TypeOK, RingIsNewestWindow
  PROVE  /\ serial \in Nat
         /\ serial = 0 => Len(entries) = 0
         /\ serial = 1 => /\ Len(entries) = 1
                         /\ entries[1].serial = 1 /\ entries[1].item = log[1]
         /\ serial >= 2 => /\ Len(entries) = 2
                          /\ entries[1].serial = serial - 1
                          /\ entries[1].item = log[serial - 1]
                          /\ entries[2].serial = serial
                          /\ entries[2].item = log[serial]
<1>1. serial \in Nat
  BY DEF TypeOK
<1>2. CASE serial = 0
  BY <1>2 DEF RingIsNewestWindow
<1>3. CASE serial = 1
  <2>1. Len(entries) = 1 /\ 1 \in 1..Len(entries)
    BY <1>3 DEF RingIsNewestWindow
  <2>2. entries[1].serial = 1 - 1 + 1 /\ entries[1].item = log[entries[1].serial]
    BY <1>3, <2>1 DEF RingIsNewestWindow
  <2> QED BY <1>3, <2>1, <2>2
<1>4. CASE serial >= 2
  <2>1. Len(entries) = 2 /\ 1 \in 1..Len(entries) /\ 2 \in 1..Len(entries)
    BY <1>1, <1>4 DEF RingIsNewestWindow
  <2>2. /\ entries[1].serial = serial - 2 + 1
        /\ entries[1].item = log[entries[1].serial]
        /\ entries[2].serial = serial - 2 + 2
        /\ entries[2].item = log[entries[2].serial]
    BY <2>1 DEF RingIsNewestWindow
  <2> QED BY <1>1, <1>4, <2>1, <2>2
<1> QED BY <1>1, <1>2, <1>3, <1>4

(* The empty ring is the window of an empty log. *)
LEMMA WindowInit == Init => RingIsNewestWindow
BY DEF Init, RingIsNewestWindow

(* publish keeps the window: the entry it keeps is the newest one.          *)
LEMMA WindowPublish ==
  ASSUME TypeOK, RingIsNewestWindow, NEW w \in Writers, NEW i \in Items, Publish(w, i),
         TypeOK'
  PROVE  RingIsNewestWindow'
<1> DEFINE e == [serial |-> serial + 1, item |-> i]
<1>1. e \in Entry
  BY DEF Publish, TypeOK, Entry
<1>2. MakeRoom \in Seq(Entry)
  BY MakeRoomShape
<1>3. entries' = Append(MakeRoom, e) /\ serial' = serial + 1 /\ log' = Append(log, i)
  BY DEF Publish
<1>4. /\ Len(entries') = Len(MakeRoom) + 1
      /\ entries'[Len(MakeRoom) + 1] = e
      /\ \A k \in 1..Len(MakeRoom) : entries'[k] = MakeRoom[k]
  BY <1>1, <1>2, <1>3, AppendProperties
<1>5. /\ Len(log) = serial
      /\ Len(log') = serial + 1
      /\ log'[serial + 1] = i
      /\ \A k \in 1..serial : log'[k] = log[k]
  <2>1. log \in Seq(Items) /\ Len(log) = serial
    BY DEF TypeOK, RingIsNewestWindow
  <2> QED BY <2>1, <1>3, AppendProperties
<1>6. serial \in Nat
  BY WindowFacts
<1>7. CASE serial = 0
  <2>1. Len(MakeRoom) = 0
    BY <1>7, WindowFacts, MakeRoomShape
  <2>2. Len(entries') = 1 /\ entries'[1] = e
    BY <1>4, <2>1
  <2> HIDE DEF e
  <2>3. e.serial = 1 /\ e.item = i
    BY <1>7 DEF e
  <2> QED BY <1>3, <1>5, <1>7, <2>2, <2>3 DEF RingIsNewestWindow
<1>8. CASE serial >= 1
  <2>1. /\ Len(MakeRoom) = 1
        /\ MakeRoom[1].serial = serial
        /\ MakeRoom[1].item = log[serial]
    <3>1. CASE serial = 1
      BY <3>1, WindowFacts, MakeRoomShape
    <3>2. CASE serial >= 2
      BY <3>2, WindowFacts, MakeRoomShape
    <3> QED BY <1>6, <1>8, <3>1, <3>2
  <2>2. Len(entries') = 2 /\ entries'[1] = MakeRoom[1] /\ entries'[2] = e
    BY <1>4, <2>1
  <2>3. log'[serial] = log[serial]
    BY <1>5, <1>6, <1>8
  <2> HIDE DEF e
  <2>4. e.serial = serial + 1 /\ e.item = i
    BY DEF e
  <2>5. serial' >= 2 /\ serial' \in Nat /\ serial' - 1 = serial
    BY <1>3, <1>6, <1>8
  <2>6. /\ entries'[1].serial = serial' - 1 /\ entries'[1].item = log'[serial' - 1]
        /\ entries'[2].serial = serial' /\ entries'[2].item = log'[serial']
    BY <1>3, <1>5, <2>1, <2>2, <2>3, <2>4, <2>5
  <2>7. Len(log') = serial' /\ Len(entries') = IF serial' < 2 THEN serial' ELSE 2
    BY <1>3, <1>5, <2>2, <2>5
  <2>8. ASSUME NEW k \in 1..Len(entries')
        PROVE  /\ entries'[k].serial = serial' - Len(entries') + k
               /\ entries'[k].item = log'[entries'[k].serial]
    <3>1. k = 1 \/ k = 2
      BY <2>2
    <3>2. CASE k = 1
      <4>1. serial' - Len(entries') + k = serial' - 1
        BY <2>2, <2>5, <3>2
      <4> QED BY <2>6, <3>2, <4>1
    <3>3. CASE k = 2
      <4>1. serial' \in Nat /\ Len(entries') = 2
        BY <2>2, <2>5
      <4>2. \A s \in Nat : (s - 2) + 2 = s
        OBVIOUS
      <4>3. serial' - Len(entries') + k = serial'
        BY <3>3, <4>1, <4>2
      <4> QED BY <2>6, <3>3, <4>3
    <3> QED BY <3>1, <3>2, <3>3
  <2> QED BY <2>7, <2>8 DEF RingIsNewestWindow
<1> QED BY <1>6, <1>7, <1>8

(* Only publish changes the ring, and it keeps the window.                 *)
LEMMA WindowStep ==
  TypeOK /\ TypeOK' /\ RingIsNewestWindow /\ [Next]_vars => RingIsNewestWindow'
<1> SUFFICES ASSUME TypeOK, TypeOK', RingIsNewestWindow, [Next]_vars
             PROVE  RingIsNewestWindow'
  OBVIOUS
<1>1. ASSUME NEW w \in Writers, NEW i \in Items, Publish(w, i)
      PROVE  RingIsNewestWindow'
  BY <1>1, WindowPublish
<1>2. ASSUME UNCHANGED <<serial, entries, log>>
      PROVE  RingIsNewestWindow'
  BY <1>2 DEF RingIsNewestWindow
<1>3. ASSUME NEW w \in Writers, PublishRefused(w) \/ Close(w) \/ NotifyWaiters(w)
      PROVE  RingIsNewestWindow'
  BY <1>2, <1>3 DEF PublishRefused, Close, NotifyWaiters, ringVars
<1>4. ASSUME NEW r \in Readers, ReaderStep(r)
      PROVE  RingIsNewestWindow'
  BY <1>2, <1>4 DEF ReaderStep, Call, Deliver, End, LookInVain, Sleep, Wake, Drop, ringVars
<1>5. CASE UNCHANGED vars
  BY <1>2, <1>5 DEF vars, ringVars
<1> QED BY <1>1, <1>3, <1>4, <1>5 DEF Next, WriterStep

(* The ring holds the newest two publications, in order, under their own   *)
(* serials, in every reachable state.                                      *)
THEOREM RingCorrect == Spec => []RingIsNewestWindow
<1>1. Init => TypeOK /\ RingIsNewestWindow
  BY TypeInit, WindowInit
<1>2. TypeOK /\ RingIsNewestWindow /\ [Next]_vars => (TypeOK /\ RingIsNewestWindow)'
  BY TypeStep, WindowStep
<1> QED BY <1>1, <1>2, PTL DEF Spec
-----------------------------------------------------------------------------
(* What a look at the ring finds for a stream that is not ahead of it: the *)
(* entry delivered has the serial RetainedLog gives next, and the loss     *)
(* counted is RetainedLog's.                                               *)
LEMMA DeliverShape ==
  ASSUME TypeOK, RingIsNewestWindow,
         NEW r \in Readers, cursor[r] <= serial,
         NEW k \in 1..Len(entries), IsFirstUnseen(r, k)
  PROVE  /\ cursor[r] < serial
         /\ entries[k].serial = Abstract!NextAfter(cursor[r], serial)
         /\ entries[k].item = log[entries[k].serial]
         /\ LostAt(r) = Abstract!LostBefore(cursor[r], serial)
         /\ entries[k].serial = cursor[r] + LostAt(r) + 1
         /\ entries[k].serial <= serial
<1> USE DEF Abstract!NextAfter, Abstract!LostBefore, Abstract!OldestRetained,
            Abstract!Capacity, LostAt, SaturatingSub
<1>1. serial \in Nat /\ cursor[r] \in Nat
  BY DEF TypeOK
<1>2. k \in Unseen(r) /\ \A j \in Unseen(r) : k <= j
  BY DEF IsFirstUnseen
<1>3. entries[k].serial > cursor[r]
  BY <1>2 DEF Unseen
<1>4. serial # 0
  BY WindowFacts
<1>5. CASE serial = 1
  <2>1. /\ Len(entries) = 1 /\ entries[1].serial = 1 /\ entries[1].item = log[1]
    BY <1>5, WindowFacts
  <2>2. k = 1
    BY <2>1
  <2>3. cursor[r] = 0
    BY <1>1, <1>3, <2>1, <2>2
  <2> QED BY <1>5, <2>1, <2>2, <2>3
<1>6. CASE serial >= 2
  <2>1. /\ Len(entries) = 2
        /\ entries[1].serial = serial - 1 /\ entries[1].item = log[serial - 1]
        /\ entries[2].serial = serial /\ entries[2].item = log[serial]
    BY <1>6, WindowFacts
  <2>2. CASE cursor[r] < serial - 1
    <3>1. 1 \in Unseen(r)
      BY <1>1, <2>1, <2>2 DEF Unseen
    <3>2. k = 1
      BY <1>2, <2>1, <3>1
    <3> QED BY <1>1, <1>6, <2>1, <2>2, <3>2
  <2>3. CASE cursor[r] = serial - 1
    <3>1. k = 2
      BY <1>1, <1>3, <2>1, <2>3
    <3> QED BY <1>1, <1>6, <2>1, <2>3, <3>1
  <2>4. cursor[r] # serial
    <3>1. k = 1 \/ k = 2
      BY <2>1
    <3> QED BY <1>1, <1>3, <1>6, <2>1, <3>1
  <2> QED BY <1>1, <1>6, <2>2, <2>3, <2>4
<1> QED BY <1>1, <1>4, <1>5, <1>6

(* A look that finds nothing means that the stream has been given the      *)
(* newest publication.                                                     *)
LEMMA NothingUnseen ==
  ASSUME TypeOK, RingIsNewestWindow,
         NEW r \in Readers, cursor[r] <= serial, Unseen(r) = {}
  PROVE  cursor[r] = serial
<1>1. serial \in Nat /\ cursor[r] \in Nat
  BY DEF TypeOK
<1> \A j \in 1..Len(entries) : ~(entries[j].serial > cursor[r])
  BY DEF Unseen
<1>2. CASE serial = 0
  BY <1>1, <1>2
<1>3. CASE serial = 1
  <2>1. 1 \in 1..Len(entries) /\ entries[1].serial = 1
    BY <1>3, WindowFacts
  <2> QED BY <1>1, <1>3, <2>1
<1>4. CASE serial >= 2
  <2>1. Len(entries) = 2 /\ entries[2].serial = serial
    BY <1>4, WindowFacts
  <2>2. 2 \in 1..Len(entries)
    BY <2>1
  <2> QED BY <1>1, <2>1, <2>2
<1> QED BY <1>1, <1>2, <1>3, <1>4

-----------------------------------------------------------------------------
(* A new stream has lost nothing. *)
LEMMA LossInit == Init => ExactLoss
<1> SUFFICES ASSUME Init, NEW r \in Readers
             PROVE  delivered[r] + lost[r] = cursor[r] /\ cursor[r] <= serial
  BY DEF ExactLoss
<1>1. delivered[r] = 0 /\ lost[r] = 0 /\ cursor[r] = 0 /\ serial = 0
  BY DEF Init
<1> QED BY <1>1

(* A delivery adds one to delivered and the gap to lost; nothing else      *)
(* moves a cursor.                                                         *)
LEMMA LossStep == TypeOK /\ RingIsNewestWindow /\ ExactLoss /\ [Next]_vars => ExactLoss'
<1> SUFFICES ASSUME TypeOK, RingIsNewestWindow, ExactLoss, [Next]_vars,
                    NEW q \in Readers
             PROVE  delivered'[q] + lost'[q] = cursor'[q] /\ cursor'[q] <= serial'
  BY DEF ExactLoss
<1> USE DEF ringVars, streamVars
<1>1. /\ delivered[q] + lost[q] = cursor[q] /\ cursor[q] <= serial
      /\ serial \in Nat /\ cursor[q] \in Nat /\ lost[q] \in Nat /\ delivered[q] \in Nat
  BY DEF ExactLoss, TypeOK
<1>2. ASSUME UNCHANGED <<cursor, lost, delivered>>, serial' \in {serial, serial + 1}
      PROVE  delivered'[q] + lost'[q] = cursor'[q] /\ cursor'[q] <= serial'
  BY <1>1, <1>2
<1>3. ASSUME NEW w \in Writers, WriterStep(w)
      PROVE  delivered'[q] + lost'[q] = cursor'[q] /\ cursor'[q] <= serial'
  BY <1>2, <1>3 DEF WriterStep, Publish, PublishRefused, Close, NotifyWaiters
<1>4. ASSUME NEW r \in Readers, Deliver(r)
      PROVE  delivered'[q] + lost'[q] = cursor'[q] /\ cursor'[q] <= serial'
  <2>1. CASE q # r
    <3>1. /\ cursor'[q] = cursor[q] /\ lost'[q] = lost[q] /\ delivered'[q] = delivered[q]
          /\ serial' = serial
      BY <1>4, <2>1 DEF Deliver, TypeOK
    <3> QED BY <1>1, <3>1
  <2>2. CASE q = r
    <3>1. PICK k \in 1..Len(entries) :
            /\ IsFirstUnseen(q, k)
            /\ cursor' = [cursor EXCEPT ![q] = entries[k].serial]
      BY <1>4, <2>2 DEF Deliver
    <3>2. entries[k].serial = cursor[q] + LostAt(q) + 1 /\ entries[k].serial <= serial
      BY <1>1, <3>1, DeliverShape
    <3>3. LostAt(q) \in Nat
      <4>1. entries[1] \in Entry
        BY <3>1 DEF TypeOK
      <4>2. entries[1].serial \in Nat
        BY <4>1 DEF Entry
      <4> QED BY <1>1, <4>2, SaturatingSubNat DEF LostAt
    <3>4. /\ cursor'[q] = entries[k].serial
          /\ lost'[q] = lost[q] + LostAt(q)
          /\ delivered'[q] = delivered[q] + 1
          /\ serial' = serial
      BY <1>4, <2>2, <3>1 DEF Deliver, TypeOK
    <3>5. delivered'[q] + lost'[q] = (delivered[q] + 1) + (lost[q] + LostAt(q))
      BY <3>4
    <3>6. @ = (delivered[q] + lost[q]) + LostAt(q) + 1
      BY <1>1, <3>3
    <3>7. @ = cursor'[q]
      BY <1>1, <3>2, <3>4
    <3> QED BY <3>2, <3>4, <3>5, <3>6, <3>7
  <2> QED BY <2>1, <2>2
<1>5. ASSUME NEW r \in Readers, Drop(r)
      PROVE  delivered'[q] + lost'[q] = cursor'[q] /\ cursor'[q] <= serial'
  BY <1>1, <1>5 DEF Drop, TypeOK
<1>6. ASSUME NEW r \in Readers,
             Call(r) \/ End(r) \/ LookInVain(r) \/ Sleep(r) \/ Wake(r)
      PROVE  delivered'[q] + lost'[q] = cursor'[q] /\ cursor'[q] <= serial'
  BY <1>2, <1>6 DEF Call, End, LookInVain, Sleep, Wake
<1>7. CASE UNCHANGED vars
  BY <1>2, <1>7 DEF vars
<1> QED BY <1>3, <1>4, <1>5, <1>6, <1>7 DEF Next, ReaderStep

(* The loss a stream reports is exact: what it was given and what it was   *)
(* told it had lost add up to its cursor, which never passes the ring.     *)
THEOREM LossCorrect == Spec => []ExactLoss
<1>1. Init => TypeOK /\ RingIsNewestWindow /\ ExactLoss
  BY TypeInit, WindowInit, LossInit
<1>2. TypeOK /\ RingIsNewestWindow /\ ExactLoss /\ [Next]_vars
        => (TypeOK /\ RingIsNewestWindow /\ ExactLoss)'
  BY TypeStep, WindowStep, LossStep
<1> QED BY <1>1, <1>2, PTL DEF Spec
-----------------------------------------------------------------------------
(* At the start nobody sleeps. *)
LEMMA WakeupInit == Init => NoLostWakeup
BY DEF Init, NoLostWakeup

(* A reader registers before it looks: a publication or a close after its  *)
(* look finds it listening.                                                *)
LEMMA WakeupStep ==
  TypeOK /\ RingIsNewestWindow /\ ExactLoss /\ NoLostWakeup /\ [Next]_vars => NoLostWakeup'
<1> SUFFICES ASSUME TypeOK, RingIsNewestWindow, ExactLoss, NoLostWakeup, [Next]_vars,
                    NEW q \in Readers,
                    reader'[q] \in {"looked", "asleep"},
                    q \notin notified',
                    closed' \/ cursor'[q] < serial'
             PROVE  \E w \in Writers : writer'[w] = "notify"
  BY DEF NoLostWakeup
<1> USE DEF ringVars, streamVars
<1>1. /\ reader[q] \in {"looked", "asleep"}
      /\ q \notin notified
      /\ closed \/ cursor[q] < serial
      => \E w \in Writers : writer[w] = "notify"
  BY DEF NoLostWakeup
<1>2. ASSUME NEW w \in Writers, writer' = [writer EXCEPT ![w] = "notify"]
      PROVE  \E v \in Writers : writer'[v] = "notify"
  BY <1>2 DEF TypeOK
<1>3. ASSUME NEW w \in Writers, NEW i \in Items, Publish(w, i)
      PROVE  \E v \in Writers : writer'[v] = "notify"
  BY <1>2, <1>3 DEF Publish
<1>4. ASSUME NEW w \in Writers, Close(w)
      PROVE  \E v \in Writers : writer'[v] = "notify"
  BY <1>2, <1>4 DEF Close
<1>5. ASSUME NEW w \in Writers, PublishRefused(w)
      PROVE  \E v \in Writers : writer'[v] = "notify"
  <2>1. PICK v \in Writers : writer[v] = "notify"
    BY <1>1, <1>5 DEF PublishRefused
  <2>2. v # w
    BY <1>5, <2>1 DEF PublishRefused
  <2> QED BY <1>5, <2>1, <2>2 DEF PublishRefused, TypeOK
<1>6. ASSUME NEW w \in Writers, NotifyWaiters(w)
      PROVE  \E v \in Writers : writer'[v] = "notify"
  BY <1>6 DEF NotifyWaiters, Listening
<1>7. ASSUME NEW r \in Readers, LookInVain(r)
      PROVE  \E v \in Writers : writer'[v] = "notify"
  <2>1. CASE q = r
    <3>1. cursor[q] <= serial /\ Unseen(q) = {} /\ ~closed
      BY <1>7, <2>1 DEF LookInVain, ExactLoss
    <3>2. cursor[q] = serial
      BY <3>1, NothingUnseen
    <3>3. serial' = serial /\ closed' = closed /\ cursor' = cursor /\ serial \in Nat
      BY <1>7 DEF LookInVain, TypeOK
    <3> QED BY <3>1, <3>2, <3>3
  <2>2. CASE q # r
    BY <1>1, <1>7, <2>2 DEF LookInVain, TypeOK
  <2> QED BY <2>1, <2>2
<1>8. ASSUME NEW r \in Readers, Sleep(r)
      PROVE  \E v \in Writers : writer'[v] = "notify"
  <2>1. reader[q] \in {"looked", "asleep"}
    BY <1>8 DEF Sleep, TypeOK
  <2> QED BY <1>1, <1>8, <2>1 DEF Sleep
<1>9. ASSUME NEW r \in Readers, Call(r) \/ Deliver(r) \/ End(r) \/ Wake(r) \/ Drop(r)
      PROVE  \E v \in Writers : writer'[v] = "notify"
  <2>1. reader'[r] \notin {"looked", "asleep"}
    BY <1>9 DEF Call, Deliver, End, Wake, Drop, TypeOK
  <2>2. q # r
    BY <2>1
  <2>3. /\ reader'[q] = reader[q] /\ (q \in notified' <=> q \in notified)
        /\ cursor'[q] = cursor[q]
        /\ serial' = serial /\ closed' = closed /\ writer' = writer
    <3>1. CASE Deliver(r)
      BY <2>2, <3>1 DEF Deliver, TypeOK
    <3>2. CASE Drop(r)
      BY <2>2, <3>2 DEF Drop, TypeOK
    <3>3. CASE Call(r) \/ End(r) \/ Wake(r)
      BY <2>2, <3>3 DEF Call, End, Wake, TypeOK
    <3> QED BY <1>9, <3>1, <3>2, <3>3
  <2> QED BY <1>1, <2>3
<1>10. CASE UNCHANGED vars
  BY <1>1, <1>10 DEF vars
<1> QED BY <1>3, <1>4, <1>5, <1>6, <1>7, <1>8, <1>9, <1>10
        DEF Next, WriterStep, ReaderStep

(* A reader never sleeps through a publication or the close: if it has     *)
(* something to learn it has been notified, or a writer is about to do so. *)
THEOREM WakeupCorrect == Spec => []NoLostWakeup
<1>1. Init => TypeOK /\ RingIsNewestWindow /\ ExactLoss /\ NoLostWakeup
  BY TypeInit, WindowInit, LossInit, WakeupInit
<1>2. TypeOK /\ RingIsNewestWindow /\ ExactLoss /\ NoLostWakeup /\ [Next]_vars
        => (TypeOK /\ RingIsNewestWindow /\ ExactLoss /\ NoLostWakeup)'
  BY TypeStep, WindowStep, LossStep, WakeupStep
<1> QED BY <1>1, <1>2, PTL DEF Spec

-----------------------------------------------------------------------------
(* Every step of the ring is a step of RetainedLog, or one it does not see.*)
LEMMA AbstractInit == Init => Abstract!Init
BY DEF Init, Abstract!Init, RequestOf

(* publish appends, close closes, a delivery is the delivery the log       *)
(* allows; registering, looking in vain, sleeping and waking stutter.      *)
LEMMA AbstractStep ==
  TypeOK /\ RingIsNewestWindow /\ ExactLoss /\ [Next]_vars => [Abstract!Next]_(Abstract!vars)
<1> SUFFICES ASSUME TypeOK, RingIsNewestWindow, ExactLoss, [Next]_vars
             PROVE  Abstract!Next \/ UNCHANGED Abstract!vars
  OBVIOUS
<1> USE DEF ringVars, streamVars
<1>0. ASSUME UNCHANGED <<log, closed, cursor, lost, item>>,
             \A q \in Readers : RequestOf(q)' = RequestOf(q)
      PROVE  UNCHANGED Abstract!vars
  BY <1>0 DEF Abstract!vars
<1>1. ASSUME NEW w \in Writers, NEW i \in Items, Publish(w, i)
      PROVE  Abstract!Next
  <2>1. Abstract!AppendItem(i)
    BY <1>1 DEF Publish, Abstract!AppendItem, RequestOf
  <2> QED BY <2>1 DEF Abstract!Next
<1>2. ASSUME NEW w \in Writers, Close(w)
      PROVE  Abstract!Next
  <2>1. Abstract!CloseLog
    BY <1>2 DEF Close, Abstract!CloseLog, RequestOf
  <2> QED BY <2>1 DEF Abstract!Next
<1>3. ASSUME NEW w \in Writers, PublishRefused(w) \/ NotifyWaiters(w)
      PROVE  UNCHANGED Abstract!vars
  BY <1>3, <1>0 DEF PublishRefused, NotifyWaiters, RequestOf
<1>4. ASSUME NEW r \in Readers, Call(r)
      PROVE  Abstract!Next
  <2>1. Abstract!Ask(r)
    BY <1>4 DEF Call, Abstract!Ask, RequestOf, TypeOK
  <2> QED BY <2>1 DEF Abstract!Next
<1>5. ASSUME NEW r \in Readers, Deliver(r)
      PROVE  Abstract!Next
  <2> DEFINE req == [q \in Readers |-> RequestOf(q)]
  <2>1. PICK k \in 1..Len(entries) :
          /\ IsFirstUnseen(r, k)
          /\ cursor' = [cursor EXCEPT ![r] = entries[k].serial]
          /\ item' = [item EXCEPT ![r] = entries[k].item]
    BY <1>5 DEF Deliver
  <2>2. cursor[r] <= serial /\ Len(log) = serial
    BY DEF ExactLoss, RingIsNewestWindow
  <2>3. /\ cursor[r] < Len(log)
        /\ entries[k].serial = Abstract!NextAfter(cursor[r], Len(log))
        /\ entries[k].item = log[Abstract!NextAfter(cursor[r], Len(log))]
        /\ LostAt(r) = Abstract!LostBefore(cursor[r], Len(log))
    BY <2>1, <2>2, DeliverShape
  <2>4. req[r] = "asking" /\ req' = [req EXCEPT ![r] = "idle"]
    BY <1>5 DEF Deliver, RequestOf, TypeOK
  <2>5. lost' = [lost EXCEPT ![r] = @ + LostAt(r)] /\ UNCHANGED <<log, closed>>
    BY <1>5 DEF Deliver
  <2>6. Abstract!Deliver(r)
    BY <2>1, <2>3, <2>4, <2>5 DEF Abstract!Deliver
  <2> QED BY <2>6 DEF Abstract!Next
<1>6. ASSUME NEW r \in Readers, End(r)
      PROVE  Abstract!Next
  <2>1. cursor[r] <= serial /\ Len(log) = serial /\ Unseen(r) = {}
    BY <1>6 DEF End, ExactLoss, RingIsNewestWindow
  <2>2. cursor[r] = Len(log)
    BY <2>1, NothingUnseen
  <2>3. Abstract!End(r)
    BY <1>6, <2>2 DEF End, Abstract!End, RequestOf, TypeOK
  <2> QED BY <2>3 DEF Abstract!Next
<1>7. ASSUME NEW r \in Readers, LookInVain(r) \/ Sleep(r) \/ Wake(r)
      PROVE  UNCHANGED Abstract!vars
  <2>1. \A q \in Readers : RequestOf(q)' = RequestOf(q)
    BY <1>7 DEF LookInVain, Sleep, Wake, RequestOf, TypeOK
  <2> QED BY <1>0, <1>7, <2>1 DEF LookInVain, Sleep, Wake
<1>8. ASSUME NEW r \in Readers, Drop(r)
      PROVE  Abstract!Next
  <2>1. Abstract!Leave(r)
    BY <1>8 DEF Drop, Abstract!Leave, RequestOf, TypeOK
  <2> QED BY <2>1 DEF Abstract!Next
<1>9. CASE UNCHANGED vars
  BY <1>0, <1>9 DEF vars, RequestOf
<1> QED BY <1>1, <1>2, <1>3, <1>4, <1>5, <1>6, <1>7, <1>8, <1>9
        DEF Next, WriterStep, ReaderStep

(* The ring implements the safety part of RetainedLog: every delivery, its *)
(* order, its loss and every end of stream are what the log allows.        *)
THEOREM RingImplementsLog == Spec => Abstract!SafeSpec
<1>1. Init => TypeOK /\ RingIsNewestWindow /\ ExactLoss
  BY TypeInit, WindowInit, LossInit
<1>2. TypeOK /\ RingIsNewestWindow /\ ExactLoss /\ [Next]_vars
        => (TypeOK /\ RingIsNewestWindow /\ ExactLoss)'
  BY TypeStep, WindowStep, LossStep
<1> QED BY <1>1, <1>2, AbstractInit, AbstractStep, PTL DEF Spec, Abstract!SafeSpec

-----------------------------------------------------------------------------
(* ScanSubscription, the subscribers of a lane.                            *)
USE SubscriptionAssumption

(* A cursor moves forward, and never past the ring's serial. *)
LEMMA NextAfterBounds ==
  ASSUME NEW at \in Nat, NEW newest \in Nat, at < newest
  PROVE  /\ NextAfter(at, newest) \in Nat
         /\ at < NextAfter(at, newest) /\ NextAfter(at, newest) <= newest
BY DEF NextAfter, OldestRetained, Capacity

LEMMA ActiveIsFinite == IsFiniteSet(Active)
<1>1. Active \subseteq Clients
  BY DEF Active
<1> QED BY <1>1, FS_Subset

(* What a stream was given, what it was counted to, and what the ring has. *)
CursorsInRing ==
  \A c \in Clients : deliveredTo[c] <= cursorOf[c] /\ cursorOf[c] <= published

Serving == LaneTypeOK /\ CursorsInRing /\ SlotsConserved

(* The slots under the two steps that move one. *)
LEMMA SlotTaken ==
  ASSUME Serving, NEW c \in Clients, Subscribe(c)
  PROVE  SlotsConserved'
<1>1. c \notin Active /\ Active' = Active \union {c}
  BY DEF Subscribe, Active, Serving, LaneTypeOK
<1>2. Cardinality(Active') = Cardinality(Active) + 1
  BY <1>1, ActiveIsFinite, FS_AddElement
<1>3. Cardinality(Active) \in Nat /\ permits \in Nat
  BY ActiveIsFinite, FS_CardinalityType DEF Serving, LaneTypeOK
<1> QED BY <1>2, <1>3 DEF Subscribe, SlotsConserved, Serving

LEMMA SlotReturned ==
  ASSUME Serving, NEW c \in Clients, Depart(c)
  PROVE  SlotsConserved' /\ permits' \in 0..MaxSubscribers
<1>1. c \in Active /\ Active' = Active \ {c}
  BY DEF Depart, Active, Serving, LaneTypeOK
<1>2. Cardinality(Active') = Cardinality(Active) - 1
  BY <1>1, ActiveIsFinite, FS_RemoveElement
<1>3. /\ Cardinality(Active) \in Nat /\ Cardinality(Active') \in Nat
      /\ permits \in Nat
  <2>1. IsFiniteSet(Active')
    BY <1>1, ActiveIsFinite, FS_RemoveElement
  <2> QED BY <2>1, ActiveIsFinite, FS_CardinalityType DEF Serving, LaneTypeOK
<1>4. permits' = permits + 1
  BY DEF Depart
<1> QED BY <1>2, <1>3, <1>4 DEF SlotsConserved, Serving

LEMMA OthersKeepSlots ==
  ASSUME SlotsConserved, Active' = Active, permits' = permits
  PROVE  SlotsConserved'
BY DEF SlotsConserved

(* A delivery moves one cursor within the ring, over at least one frame. *)
LEMMA CursorMoves ==
  ASSUME Serving, NEW c \in Clients, Due(c)
  PROVE  LET n == NextAfter(cursorOf[c], published) IN
         /\ n \in 0..MaxFrames /\ cursorOf[c] < n /\ n <= published
         /\ LostBefore(cursorOf[c], published) \in Nat
         /\ deliveredTo[c] + 1 \in 0..MaxFrames /\ deliveredTo[c] + 1 <= n
<1>1. /\ cursorOf[c] \in Nat /\ published \in Nat /\ cursorOf[c] < published
      /\ deliveredTo[c] \in Nat /\ deliveredTo[c] <= cursorOf[c]
      /\ published <= MaxFrames
  BY DEF Serving, LaneTypeOK, CursorsInRing, Due
<1>2. /\ NextAfter(cursorOf[c], published) \in Nat
      /\ cursorOf[c] < NextAfter(cursorOf[c], published)
      /\ NextAfter(cursorOf[c], published) <= published
  BY <1>1, NextAfterBounds
<1> QED BY <1>1, <1>2 DEF LostBefore

LEMMA ServingTypeStep ==
  ASSUME Serving, [LaneNext]_laneVars
  PROVE  LaneTypeOK' /\ CursorsInRing'
<1> USE DEF Serving
<1>1. CASE PublishFrame
  BY <1>1 DEF PublishFrame, LaneTypeOK, CursorsInRing
<1>2. CASE CloseRing
  BY <1>2 DEF CloseRing, LaneTypeOK, CursorsInRing
<1>3. ASSUME NEW c \in Clients, Subscribe(c) PROVE LaneTypeOK' /\ CursorsInRing'
  BY <1>3 DEF Subscribe, LaneTypeOK, CursorsInRing
<1>4. ASSUME NEW c \in Clients, SubscribeRefused(c) PROVE LaneTypeOK' /\ CursorsInRing'
  BY <1>4 DEF SubscribeRefused, LaneTypeOK, CursorsInRing, laneVars
<1>5. ASSUME NEW c \in Clients, DeliverFrame(c) PROVE LaneTypeOK' /\ CursorsInRing'
  <2> DEFINE n == NextAfter(cursorOf[c], published)
  <2> DEFINE loss == LostBefore(cursorOf[c], published)
  <2>1. /\ n \in 0..MaxFrames /\ n <= published /\ loss \in Nat
        /\ deliveredTo[c] + 1 \in 0..MaxFrames /\ deliveredTo[c] + 1 <= n
    BY <1>5, CursorMoves DEF DeliverFrame
  <2>2. /\ cursorOf' = [cursorOf EXCEPT ![c] = n]
        /\ deliveredTo' = [deliveredTo EXCEPT ![c] = deliveredTo[c] + 1]
        /\ frame_loss' = frame_loss + loss /\ frame_loss + loss <= MaxCount
        /\ UNCHANGED <<published, ringClosed, permits, stream, subscribedAt, opened,
                       missedByDeparted, uncounted>>
    BY <1>5 DEF DeliverFrame
  <2> HIDE DEF n, loss
  <2>3. LaneTypeOK'
    BY <2>1, <2>2 DEF LaneTypeOK
  <2>4. CursorsInRing'
    BY <2>1, <2>2 DEF LaneTypeOK, CursorsInRing
  <2> QED BY <2>3, <2>4
<1>6. ASSUME NEW c \in Clients, DeliverExhausted(c) PROVE LaneTypeOK' /\ CursorsInRing'
  <2> DEFINE n == NextAfter(cursorOf[c], published)
  <2> DEFINE loss == LostBefore(cursorOf[c], published)
  <2>1. /\ n \in 0..MaxFrames /\ n <= published /\ loss \in Nat /\ cursorOf[c] < n
    BY <1>6, CursorMoves DEF DeliverExhausted
  <2>2. /\ cursorOf' = [cursorOf EXCEPT ![c] = n]
        /\ uncounted' = uncounted + loss + 1
        /\ stream' = [stream EXCEPT ![c] = "failed"]
        /\ UNCHANGED <<published, ringClosed, permits, frame_loss, deliveredTo, subscribedAt,
                       opened, missedByDeparted>>
    BY <1>6 DEF DeliverExhausted
  <2> HIDE DEF n, loss
  <2>3. LaneTypeOK'
    BY <2>1, <2>2 DEF LaneTypeOK
  <2>4. CursorsInRing'
    BY <2>1, <2>2 DEF LaneTypeOK, CursorsInRing
  <2> QED BY <2>3, <2>4
<1>7. ASSUME NEW c \in Clients, EndStream(c) PROVE LaneTypeOK' /\ CursorsInRing'
  BY <1>7 DEF EndStream, LaneTypeOK, CursorsInRing
<1>8. ASSUME NEW c \in Clients, Depart(c) PROVE LaneTypeOK' /\ CursorsInRing'
  <2>1. permits' \in 0..MaxSubscribers
    BY <1>8, SlotReturned
  <2>2. cursorOf[c] - deliveredTo[c] \in Nat
    BY DEF LaneTypeOK, CursorsInRing
  <2> QED BY <1>8, <2>1, <2>2 DEF Depart, LaneTypeOK, CursorsInRing
<1>9. CASE UNCHANGED laneVars
  BY <1>9 DEF laneVars, LaneTypeOK, CursorsInRing
<1> QED BY <1>1, <1>2, <1>3, <1>4, <1>5, <1>6, <1>7, <1>8, <1>9 DEF LaneNext

LEMMA SlotsStep ==
  ASSUME Serving, [LaneNext]_laneVars
  PROVE  SlotsConserved'
<1> USE DEF Serving
<1>1. ASSUME NEW c \in Clients, Subscribe(c) PROVE SlotsConserved'
  BY <1>1, SlotTaken
<1>2. ASSUME NEW c \in Clients, Depart(c) PROVE SlotsConserved'
  BY <1>2, SlotReturned
<1>3. ASSUME NEW c \in Clients, DeliverExhausted(c) \/ EndStream(c)
      PROVE  SlotsConserved'
  <2>1. stream[c] = "open" /\ permits' = permits
        /\ \E s \in {"failed", "ended"} : stream' = [stream EXCEPT ![c] = s]
    BY <1>3 DEF DeliverExhausted, EndStream, Due
  <2>2. Active' = Active
    BY <2>1 DEF Active, LaneTypeOK
  <2> QED BY <2>1, <2>2, OthersKeepSlots
<1>4. ASSUME UNCHANGED <<stream, permits>> PROVE SlotsConserved'
  <2>1. Active' = Active
    BY <1>4 DEF Active
  <2> QED BY <1>4, <2>1, OthersKeepSlots
<1>5. [LaneNext]_laneVars => \/ UNCHANGED <<stream, permits>>
                    \/ \E c \in Clients : \/ Subscribe(c) \/ Depart(c)
                                          \/ DeliverExhausted(c) \/ EndStream(c)
  BY DEF LaneNext, PublishFrame, CloseRing, SubscribeRefused, DeliverFrame, laneVars
<1> QED BY <1>1, <1>2, <1>3, <1>4, <1>5

LEMMA Inductive == LaneSpec => []Serving
<1>1. LaneInit => Serving
  <2> SUFFICES ASSUME LaneInit PROVE Serving
    OBVIOUS
  <2>1. Active = {}
    BY DEF LaneInit, Active
  <2>2. Cardinality(Active) = 0
    BY <2>1, FS_EmptySet
  <2>3. LaneTypeOK
    <3>1. /\ 0 \in 0..MaxFrames /\ 0 \in 0..MaxCount /\ 0 \in 0..MaxOpened
          /\ MaxSubscribers \in 0..MaxSubscribers
      OBVIOUS
    <3>2. /\ cursorOf \in [Clients -> 0..MaxFrames]
          /\ deliveredTo \in [Clients -> 0..MaxFrames]
          /\ subscribedAt \in [Clients -> 0..MaxFrames]
          /\ stream \in [Clients -> {"none", "open", "ended", "failed"}]
      BY <3>1 DEF LaneInit
    <3> QED BY <3>1, <3>2 DEF LaneInit, LaneTypeOK
  <2>4. CursorsInRing
    BY DEF LaneInit, CursorsInRing
  <2> QED BY <2>2, <2>3, <2>4 DEF LaneInit, SlotsConserved, Serving
<1>2. Serving /\ [LaneNext]_laneVars => Serving'
  BY ServingTypeStep, SlotsStep DEF Serving
<1> QED BY <1>1, <1>2, PTL DEF LaneSpec

(* The lane's counters never leave their ranges: no permit is returned     *)
(* twice, frame_loss never passes the largest u64, and no cursorOf passes  *)
(* the ring.                                                               *)
THEOREM LaneTypeCorrect == LaneSpec => [](LaneTypeOK /\ CursorsInRing)
<1>1. Serving => LaneTypeOK /\ CursorsInRing
  BY DEF Serving
<1> QED BY <1>1, Inductive, PTL

(* Every slot is free or held by one live stream, for every number of      *)
(* clients and every limit (try_acquire_owned, drop of _permit).           *)
THEOREM SlotsCorrect == LaneSpec => []SlotsConserved
<1>1. Serving => SlotsConserved
  BY DEF Serving
<1> QED BY <1>1, Inductive, PTL

(* The frames a stream passed over. *)
Missed == [c \in Clients |-> cursorOf[c] - deliveredTo[c]]

(* SumFunctionOnSet is the sum of Sums. *)
LEMMA SameSum ==
  ASSUME NEW f, NEW S
  PROVE  SumFunctionOnSet(f, S) = SumOf(f, S)
BY DEF SumFunctionOnSet, FoldFunctionOnSet, MapThenFoldSet, SumOf, MapThenSumSet

LEMMA LossAsSum ==
  /\ LossConserved <=>
       frame_loss + uncounted = missedByDeparted + SumOf(Missed, Active)
  /\ LossConserved' <=>
       frame_loss' + uncounted' = missedByDeparted' + SumOf(Missed', Active')
BY SameSum DEF LossConserved, Missed

(* The sum under a change of one place. *)
LEMMA MissedTypes ==
  ASSUME LaneTypeOK
  PROVE  /\ Missed \in [Clients -> Int] /\ Active \in SUBSET Clients
         /\ SumOf(Missed, Active) \in Int
         /\ frame_loss \in Int /\ uncounted \in Int /\ missedByDeparted \in Int
<1>1. Missed \in [Clients -> Int] /\ Active \in SUBSET Clients
  BY DEF LaneTypeOK, Missed, Active
<1>2. SumOf(Missed, Active) \in Int
  BY <1>1, SumType
<1> QED BY <1>1, <1>2 DEF LaneTypeOK

(* A new stream has missed nothing.                                        *)
LEMMA LossOnSubscribe ==
  ASSUME Serving, LossConserved,
         NEW c \in Clients, Subscribe(c)
  PROVE  LossConserved'
<1>0. LaneTypeOK'
  BY ServingTypeStep DEF LaneNext
<1>1. /\ Missed \in [Clients -> Int] /\ Missed' \in [Clients -> Int]
      /\ Active \in SUBSET Clients /\ IsFiniteSet(Active)
      /\ SumOf(Missed, Active) \in Int
  BY <1>0, MissedTypes, ActiveIsFinite
  DEF Serving, Missed, LaneTypeOK
<1>2. c \notin Active /\ Active' = Active \union {c}
  BY DEF Subscribe, Active, Serving, LaneTypeOK
<1>3. Missed'[c] = 0 /\ \A d \in Active : Missed[d] = Missed'[d]
  BY <1>1, <1>2 DEF Subscribe, Missed, Serving, LaneTypeOK
<1>4. SumOf(Missed', Active) = SumOf(Missed, Active)
  BY <1>1, <1>3, SumAgrees
<1>5. SumOf(Missed', Active') = Missed'[c] + SumOf(Missed', Active' \ {c})
  BY <1>1, <1>2, SumRemove
<1>6. Active' \ {c} = Active
  BY <1>2
<1>7. SumOf(Missed', Active') = SumOf(Missed, Active)
  BY <1>1, <1>3, <1>4, <1>5, <1>6
<1> QED BY <1>7, LossAsSum DEF Subscribe

(* A stream that leaves takes what it missed to those that are gone.       *)
LEMMA LossOnDepart ==
  ASSUME Serving, LossConserved,
         NEW c \in Clients, Depart(c)
  PROVE  LossConserved'
<1>1. /\ Missed \in [Clients -> Int] /\ Active \in SUBSET Clients
      /\ SumOf(Missed, Active) \in Int
      /\ missedByDeparted \in Int
  BY MissedTypes DEF Serving
<1>2. c \in Active /\ Active' = Active \ {c}
  BY DEF Depart, Active, Serving, LaneTypeOK
<1>3. Missed' = Missed /\ missedByDeparted' = missedByDeparted + Missed[c]
  BY DEF Depart, Missed
<1>4. SumOf(Missed, Active) = Missed[c] + SumOf(Missed, Active \ {c})
  BY <1>1, <1>2, SumRemove
<1>5. SumOf(Missed, Active \ {c}) \in Int /\ Missed[c] \in Int
  BY <1>1, SumType
<1>6. missedByDeparted' + SumOf(Missed', Active')
        = missedByDeparted + SumOf(Missed, Active)
  BY <1>1, <1>2, <1>3, <1>4, <1>5
<1> QED BY <1>6, LossAsSum DEF Depart

(* A delivery, or the error in its place, misses as many frames as it      *)
(* counts.                                                                 *)
LEMMA LossOnDelivery ==
  ASSUME Serving, LossConserved,
         NEW c \in Clients, DeliverFrame(c) \/ DeliverExhausted(c)
  PROVE  LossConserved'
<1>1. /\ cursorOf \in [Clients -> Int] /\ deliveredTo \in [Clients -> Int]
      /\ frame_loss \in Int /\ uncounted \in Int /\ missedByDeparted \in Int
      /\ Missed \in [Clients -> Int] /\ Active \in SUBSET Clients
      /\ SumOf(Missed, Active) \in Int
  BY MissedTypes DEF Serving, LaneTypeOK
<1>2. PICK n \in Int :
        /\ stream[c] = "open" /\ missedByDeparted' = missedByDeparted
        /\ cursorOf' = [cursorOf EXCEPT ![c] = n]
        /\ \/ /\ deliveredTo' = [deliveredTo EXCEPT ![c] = deliveredTo[c] + 1] /\ stream' = stream
              /\ frame_loss' = frame_loss + (n - cursorOf[c] - 1)
              /\ uncounted' = uncounted
           \/ /\ deliveredTo' = deliveredTo /\ stream' = [stream EXCEPT ![c] = "failed"]
              /\ frame_loss' = frame_loss
              /\ uncounted' = uncounted + (n - cursorOf[c] - 1) + 1
  <2>1. NextAfter(cursorOf[c], published) \in Int
    BY CursorMoves DEF DeliverFrame, DeliverExhausted
  <2> QED BY <2>1 DEF DeliverFrame, DeliverExhausted, Due, LostBefore
<1>3. c \in Active /\ Active' = Active
  BY <1>2 DEF Active, Serving, LaneTypeOK
<1>4. /\ cursorOf'[c] = n /\ cursorOf' \in [Clients -> Int]
      /\ deliveredTo' \in [Clients -> Int] /\ deliveredTo'[c] \in Int
      /\ \A d \in Clients \ {c} : cursorOf'[d] = cursorOf[d] /\ deliveredTo'[d] = deliveredTo[d]
  BY <1>1, <1>2
<1>5. /\ Missed' \in [Clients -> Int] /\ Missed[c] \in Int /\ Missed'[c] \in Int
      /\ \A d \in Active \ {c} : Missed[d] = Missed'[d]
      /\ Missed[c] = cursorOf[c] - deliveredTo[c] /\ Missed'[c] = n - deliveredTo'[c]
  BY <1>1, <1>4 DEF Missed
<1>6. /\ frame_loss' \in Int /\ uncounted' \in Int
      /\ (frame_loss' + uncounted') - (frame_loss + uncounted) = Missed'[c] - Missed[c]
  BY <1>1, <1>2, <1>5
<1>7. SumOf(Missed', Active) - Missed'[c] = SumOf(Missed, Active) - Missed[c]
  BY <1>1, <1>3, <1>5, SumChanges
<1>8. SumOf(Missed', Active) \in Int
  BY <1>1, <1>5, SumType
<1>9. frame_loss' + uncounted' = missedByDeparted' + SumOf(Missed', Active')
  <2>1. frame_loss + uncounted = missedByDeparted + SumOf(Missed, Active)
    BY LossAsSum
  <2>2. /\ missedByDeparted' = missedByDeparted
        /\ SumOf(Missed', Active') = SumOf(Missed', Active)
    BY <1>2, <1>3
  <2>3. ASSUME NEW a \in Int, NEW b \in Int, NEW d \in Int, NEW v \in Int,
               NEW w \in Int, NEW s \in Int, NEW t \in Int,
               a = d + s, b - a = w - v, t - w = s - v
        PROVE  b = d + t
    BY <2>3
  <2>4. frame_loss + uncounted \in Int /\ frame_loss' + uncounted' \in Int
    BY <1>1, <1>6
  <2> HIDE DEF Missed
  <2> QED BY <2>1, <2>2, <2>3, <2>4, <1>1, <1>5, <1>6, <1>7, <1>8
<1> QED BY <1>9, LossAsSum

LEMMA LaneLossStep ==
  ASSUME Serving, LossConserved, [LaneNext]_laneVars
  PROVE  LossConserved'
<1>1. ASSUME NEW c \in Clients, Subscribe(c) PROVE LossConserved'
  BY <1>1, LossOnSubscribe
<1>2. ASSUME NEW c \in Clients, Depart(c) PROVE LossConserved'
  BY <1>2, LossOnDepart
<1>3. ASSUME NEW c \in Clients, DeliverFrame(c) \/ DeliverExhausted(c)
      PROVE  LossConserved'
  BY <1>3, LossOnDelivery
<1>4. ASSUME UNCHANGED <<cursorOf, deliveredTo, frame_loss, uncounted, missedByDeparted>>,
             Active' = Active
      PROVE  LossConserved'
  <2>1. Missed' = Missed
    BY <1>4 DEF Missed
  <2> QED BY <1>4, <2>1, LossAsSum
<1>5. ASSUME NEW c \in Clients, EndStream(c) PROVE LossConserved'
  <2>1. Active' = Active
    BY <1>5 DEF EndStream, Active, Serving, LaneTypeOK
  <2> QED BY <1>4, <1>5, <2>1 DEF EndStream
<1>6. ASSUME PublishFrame \/ CloseRing \/ UNCHANGED laneVars PROVE LossConserved'
  <2>1. Active' = Active
    BY <1>6 DEF PublishFrame, CloseRing, laneVars, Active
  <2> QED BY <1>4, <1>6, <2>1 DEF PublishFrame, CloseRing, laneVars
<1>7. \/ PublishFrame \/ CloseRing \/ UNCHANGED laneVars
      \/ \E c \in Clients : \/ Subscribe(c) \/ Depart(c) \/ EndStream(c)
                            \/ DeliverFrame(c) \/ DeliverExhausted(c)
  BY DEF LaneNext, SubscribeRefused
<1> QED BY <1>1, <1>2, <1>3, <1>5, <1>6, <1>7

(* The loss the lane counts, with what its counter had no room for, is     *)
(* the loss of its streams, the open and the gone ones, for every number   *)
(* of them, of frames and every size of the counter (add_frame_loss).      *)
THEOREM LaneLossCorrect == LaneSpec => []LossConserved
<1>1. LaneInit => LossConserved
  <2> SUFFICES ASSUME LaneInit PROVE LossConserved
    OBVIOUS
  <2>1. Active = {}
    BY DEF LaneInit, Active
  <2>2. SumOf(Missed, Active) = 0
    BY <2>1, SumUnfolds, FS_EmptySet
  <2> QED BY <2>2, LossAsSum DEF LaneInit
<1>2. Serving /\ LossConserved /\ [LaneNext]_laneVars
        => LossConserved'
  BY LaneLossStep
<1> QED BY <1>1, <1>2, Inductive, PTL DEF LaneSpec
=============================================================================
