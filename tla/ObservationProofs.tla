-------------------------- MODULE ObservationProofs --------------------------
(***************************************************************************)
(* Theorems about Observation for every number of records, failures and    *)
(* retries: no record is lost without a count, none goes out twice or out  *)
(* of order, whenever the owner closes the publisher and wherever the      *)
(* abort finds the task, and the delays between connections follow the     *)
(* failures.  Then the accounts of the program's other bounded, lossy      *)
(* writer, Diagnostics, for every number of sensors and records, every     *)
(* capacity of its queue and every limit of its file.                      *)
(***************************************************************************)
EXTENDS Observation, Diagnostics, Sums

USE ObservationAssumption

(* One for a record, nothing for none. *)
One(record) == IF record = 0 THEN 0 ELSE 1

-----------------------------------------------------------------------------
(* The inductive invariant, in parts.                                      *)

Types ==
  /\ latest \in Nat /\ hand \in Nat /\ next_sequence \in Nat \ {0}
  /\ accepted \in Nat /\ sent \in Nat /\ dropped \in Nat
  /\ handed \in Seq(Nat)
  /\ closed \in BOOLEAN /\ permit \in BOOLEAN

(* A closed publisher has an empty slot, and before close() adds up the    *)
(* counters the task has ended.                                            *)
Closing ==
  /\ closed <=> app \notin {"idle", "notify"}
  /\ closed => latest = 0
  /\ app \in {"reconciling", "closed"} => task = "ended"

(* The task has a record in its hand where it encodes and writes it, and   *)
(* keeps it when the abort reaches it there.                               *)
Holding ==
  /\ task \in {"holding", "writing"} => hand # 0
  /\ hand # 0 => task \in {"holding", "writing", "ended"}
  /\ app = "closed" => hand = 0

Accounted == accepted = sent + dropped + One(latest) + One(hand)

(* What went out is older than what is in the hand, and that is older than *)
(* what is in the slot.                                                    *)
Older(record) == \A i \in 1..Len(handed) : handed[i] < record

Ordered ==
  /\ latest < next_sequence /\ hand < next_sequence
  /\ hand # 0 /\ latest # 0 => hand < latest
  /\ Older(next_sequence)
  /\ hand # 0 => Older(hand)
  /\ latest # 0 => Older(latest)

IInv == Types /\ Closing /\ Holding /\ Accounted /\ Ordered /\ InOrderOnce

-----------------------------------------------------------------------------
(* The number of records in a place for one. *)
LEMMA CountOfOne ==
  ASSUME NEW record
  PROVE  Cardinality({record} \ {0}) = One(record)
<1>1. CASE record = 0
  <2>1. {record} \ {0} = {}
    BY <1>1
  <2> QED BY <1>1, <2>1, FS_EmptySet DEF One
<1>2. CASE record # 0
  <2>1. {record} \ {0} = {record}
    BY <1>2
  <2>2. Cardinality({record}) = 1
    BY FS_Singleton
  <2> QED BY <1>2, <2>1, <2>2 DEF One
<1> QED BY <1>1, <1>2

(* A sequence that a greater number is appended to stays in order. *)
LEMMA AppendGreater ==
  ASSUME NEW s \in Seq(Nat), NEW x \in Nat,
         \A i \in 1..Len(s) : s[i] < x,
         \A i \in 1..Len(s) : \A j \in 1..(i - 1) : s[j] < s[i]
  PROVE  \A i \in 1..Len(Append(s, x)) : \A j \in 1..(i - 1) :
           Append(s, x)[j] < Append(s, x)[i]
<1> DEFINE n == Len(s)
           q == Append(s, x)
<1>1. n \in Nat /\ Len(q) = n + 1 /\ q[n + 1] = x
  OBVIOUS
<1>2. \A i \in 1..n : q[i] = s[i] /\ s[i] \in Nat /\ s[i] < x
  OBVIOUS
<1>3. \A i \in 1..n : \A j \in 1..(i - 1) : s[j] < s[i]
  OBVIOUS
<1> HIDE DEF n, q
<1>4. \A i \in 1..Len(q) : \A j \in 1..(i - 1) : q[j] < q[i]
  <2> TAKE i \in 1..Len(q)
  <2> TAKE j \in 1..(i - 1)
  <2>1. i \in 1..(n + 1) /\ j \in Int /\ 1 <= j /\ j < i
    BY <1>1
  <2>2. j \in 1..n
    BY <1>1, <2>1
  <2>3. CASE i = n + 1
    BY <1>1, <1>2, <2>2, <2>3
  <2>4. CASE i # n + 1
    <3>1. i \in 1..n
      BY <1>1, <2>1, <2>4
    <3> QED BY <1>2, <1>3, <2>2, <3>1
  <2> QED BY <2>3, <2>4
<1> QED BY <1>4 DEF n, q

(* Every step keeps the types.                                             *)
LEMMA TypesStep ==
  ASSUME Types, [Next]_vars
  PROVE  Types'
<1> USE DEF Types, vars, slotVars, counterVars, backoffVars
<1>1. CASE Start
  BY <1>1 DEF Start
<1>2. CASE Publish
  <2>1. Waiting = One(latest) /\ One(latest) \in Nat
    BY CountOfOne DEF Waiting, One
  <2> QED BY <1>2, <2>1 DEF Publish
<1>3. CASE PublishRefused
  BY <1>3 DEF PublishRefused
<1>4. CASE Notify
  BY <1>4 DEF Notify, AfterNotify
<1>5. CASE Close
  <2>1. Waiting = One(latest) /\ One(latest) \in Nat
    BY CountOfOne DEF Waiting, One
  <2> QED BY <1>5, <2>1 DEF Close, CloseShared
<1>6. CASE DropPublisher
  <2>1. Waiting = One(latest) /\ One(latest) \in Nat
    BY CountOfOne DEF Waiting, One
  <2> QED BY <1>6, <2>1 DEF DropPublisher, CloseShared
<1>7. CASE AbortTask
  BY <1>7 DEF AbortTask, AtAwait
<1>8. CASE Reconcile
  BY <1>8 DEF Reconcile
<1>9. CASE LookClosed
  BY <1>9 DEF LookClosed, Looking
<1>10. CASE LookPending
  BY <1>10 DEF LookPending, Looking
<1>11. CASE LookInVain
  BY <1>11 DEF LookInVain, Looking
<1>12. CASE FallAsleep
  BY <1>12 DEF FallAsleep
<1>13. CASE Wake
  BY <1>13 DEF Wake
<1>14. CASE Connect
  BY <1>14 DEF Connect
<1>15. CASE SendHeader
  BY <1>15 DEF SendHeader
<1>16. CASE ConnectOrHeaderFails
  BY <1>16 DEF ConnectOrHeaderFails
<1>17. CASE TakeLatest
  BY <1>17 DEF TakeLatest
<1>18. CASE Encode
  BY <1>18 DEF Encode
<1>19. CASE EncodeFails
  BY <1>19 DEF EncodeFails
<1>20. CASE Write
  BY <1>20 DEF Write
<1>21. CASE WriteFails
  BY <1>21 DEF WriteFails
<1>22. CASE AfterFailure
  BY <1>22 DEF AfterFailure
<1>23. CASE SleepOver
  BY <1>23 DEF SleepOver
<1>24. CASE UNCHANGED vars
  BY <1>24
<1> QED
  BY <1>1, <1>2, <1>3, <1>4, <1>5, <1>6, <1>7, <1>8, <1>9, <1>10, <1>11, <1>12, <1>13,
     <1>14, <1>15, <1>16, <1>17, <1>18, <1>19, <1>20, <1>21, <1>22, <1>23, <1>24 DEF
     Next, Owner, Task

(* Every step keeps the account of the closing.                            *)
LEMMA ClosingStep ==
  ASSUME Types, Closing, [Next]_vars
  PROVE  Closing'
<1> USE DEF Closing, Types, vars, slotVars, counterVars, backoffVars
<1>1. CASE Start
  BY <1>1 DEF Start
<1>2. CASE Publish
  BY <1>2 DEF Publish
<1>3. CASE PublishRefused
  BY <1>3 DEF PublishRefused
<1>4. CASE Notify
  BY <1>4 DEF Notify, AfterNotify
<1>5. CASE Close
  BY <1>5 DEF Close, CloseShared
<1>6. CASE DropPublisher
  BY <1>6 DEF DropPublisher, CloseShared
<1>7. CASE AbortTask
  BY <1>7 DEF AbortTask, AtAwait
<1>8. CASE Reconcile
  BY <1>8 DEF Reconcile
<1>9. CASE LookClosed
  BY <1>9 DEF LookClosed, Looking
<1>10. CASE LookPending
  BY <1>10 DEF LookPending, Looking
<1>11. CASE LookInVain
  BY <1>11 DEF LookInVain, Looking
<1>12. CASE FallAsleep
  BY <1>12 DEF FallAsleep
<1>13. CASE Wake
  BY <1>13 DEF Wake
<1>14. CASE Connect
  BY <1>14 DEF Connect
<1>15. CASE SendHeader
  BY <1>15 DEF SendHeader
<1>16. CASE ConnectOrHeaderFails
  BY <1>16 DEF ConnectOrHeaderFails
<1>17. CASE TakeLatest
  BY <1>17 DEF TakeLatest
<1>18. CASE Encode
  BY <1>18 DEF Encode
<1>19. CASE EncodeFails
  BY <1>19 DEF EncodeFails
<1>20. CASE Write
  BY <1>20 DEF Write
<1>21. CASE WriteFails
  BY <1>21 DEF WriteFails
<1>22. CASE AfterFailure
  BY <1>22 DEF AfterFailure
<1>23. CASE SleepOver
  BY <1>23 DEF SleepOver
<1>24. CASE UNCHANGED vars
  BY <1>24
<1> QED
  BY <1>1, <1>2, <1>3, <1>4, <1>5, <1>6, <1>7, <1>8, <1>9, <1>10, <1>11, <1>12, <1>13,
     <1>14, <1>15, <1>16, <1>17, <1>18, <1>19, <1>20, <1>21, <1>22, <1>23, <1>24 DEF
     Next, Owner, Task

(* Every step keeps the account of the hand.                               *)
LEMMA HoldingStep ==
  ASSUME Types, Closing, Holding, [Next]_vars
  PROVE  Holding'
<1> USE DEF Holding, Closing, Types, vars, slotVars, counterVars, backoffVars
<1>1. CASE Start
  BY <1>1 DEF Start
<1>2. CASE Publish
  BY <1>2 DEF Publish
<1>3. CASE PublishRefused
  BY <1>3 DEF PublishRefused
<1>4. CASE Notify
  BY <1>4 DEF Notify, AfterNotify
<1>5. CASE Close
  BY <1>5 DEF Close, CloseShared
<1>6. CASE DropPublisher
  BY <1>6 DEF DropPublisher, CloseShared
<1>7. CASE AbortTask
  BY <1>7 DEF AbortTask, AtAwait
<1>8. CASE Reconcile
  BY <1>8 DEF Reconcile
<1>9. CASE LookClosed
  BY <1>9 DEF LookClosed, Looking
<1>10. CASE LookPending
  BY <1>10 DEF LookPending, Looking
<1>11. CASE LookInVain
  BY <1>11 DEF LookInVain, Looking
<1>12. CASE FallAsleep
  BY <1>12 DEF FallAsleep
<1>13. CASE Wake
  BY <1>13 DEF Wake
<1>14. CASE Connect
  BY <1>14 DEF Connect
<1>15. CASE SendHeader
  BY <1>15 DEF SendHeader
<1>16. CASE ConnectOrHeaderFails
  BY <1>16 DEF ConnectOrHeaderFails
<1>17. CASE TakeLatest
  BY <1>17 DEF TakeLatest
<1>18. CASE Encode
  BY <1>18 DEF Encode
<1>19. CASE EncodeFails
  BY <1>19 DEF EncodeFails
<1>20. CASE Write
  BY <1>20 DEF Write
<1>21. CASE WriteFails
  BY <1>21 DEF WriteFails
<1>22. CASE AfterFailure
  BY <1>22 DEF AfterFailure
<1>23. CASE SleepOver
  BY <1>23 DEF SleepOver
<1>24. CASE UNCHANGED vars
  BY <1>24
<1> QED
  BY <1>1, <1>2, <1>3, <1>4, <1>5, <1>6, <1>7, <1>8, <1>9, <1>10, <1>11, <1>12, <1>13,
     <1>14, <1>15, <1>16, <1>17, <1>18, <1>19, <1>20, <1>21, <1>22, <1>23, <1>24 DEF
     Next, Owner, Task

(* Every step counts the record it takes from one place to another.        *)
LEMMA AccountedStep ==
  ASSUME Types, Closing, Holding, Accounted, [Next]_vars
  PROVE  Accounted'
<1> USE DEF Accounted, One, Types, Closing, Holding, vars, slotVars, counterVars,
   backoffVars
<1>1. CASE Start
  BY <1>1 DEF Start
<1>2. CASE Publish
  <2>1. Waiting = One(latest) /\ One(latest) \in Nat
    BY CountOfOne DEF Waiting
  <2> QED BY <1>2, <2>1 DEF Publish
<1>3. CASE PublishRefused
  BY <1>3 DEF PublishRefused
<1>4. CASE Notify
  BY <1>4 DEF Notify, AfterNotify
<1>5. CASE Close
  <2>1. Waiting = One(latest) /\ One(latest) \in Nat
    BY CountOfOne DEF Waiting
  <2> QED BY <1>5, <2>1 DEF Close, CloseShared
<1>6. CASE DropPublisher
  <2>1. Waiting = One(latest) /\ One(latest) \in Nat
    BY CountOfOne DEF Waiting
  <2> QED BY <1>6, <2>1 DEF DropPublisher, CloseShared
<1>7. CASE AbortTask
  BY <1>7 DEF AbortTask, AtAwait
<1>8. CASE Reconcile
  BY <1>8 DEF Reconcile
<1>9. CASE LookClosed
  BY <1>9 DEF LookClosed, Looking
<1>10. CASE LookPending
  BY <1>10 DEF LookPending, Looking
<1>11. CASE LookInVain
  BY <1>11 DEF LookInVain, Looking
<1>12. CASE FallAsleep
  BY <1>12 DEF FallAsleep
<1>13. CASE Wake
  BY <1>13 DEF Wake
<1>14. CASE Connect
  BY <1>14 DEF Connect
<1>15. CASE SendHeader
  BY <1>15 DEF SendHeader
<1>16. CASE ConnectOrHeaderFails
  BY <1>16 DEF ConnectOrHeaderFails
<1>17. CASE TakeLatest
  BY <1>17 DEF TakeLatest
<1>18. CASE Encode
  BY <1>18 DEF Encode
<1>19. CASE EncodeFails
  BY <1>19 DEF EncodeFails
<1>20. CASE Write
  BY <1>20 DEF Write
<1>21. CASE WriteFails
  BY <1>21 DEF WriteFails
<1>22. CASE AfterFailure
  BY <1>22 DEF AfterFailure
<1>23. CASE SleepOver
  BY <1>23 DEF SleepOver
<1>24. CASE UNCHANGED vars
  BY <1>24
<1> QED
  BY <1>1, <1>2, <1>3, <1>4, <1>5, <1>6, <1>7, <1>8, <1>9, <1>10, <1>11, <1>12, <1>13,
     <1>14, <1>15, <1>16, <1>17, <1>18, <1>19, <1>20, <1>21, <1>22, <1>23, <1>24 DEF
     Next, Owner, Task

(* Every step keeps the order of the records in their places.              *)
LEMMA OrderedStep ==
  ASSUME Types, Closing, Holding, Ordered, [Next]_vars
  PROVE  Ordered'
<1> USE DEF Ordered, Older, Types, Holding, vars, slotVars, counterVars, backoffVars
<1>1. CASE Start
  BY <1>1 DEF Start
<1>2. CASE Publish
  BY <1>2 DEF Publish
<1>3. CASE PublishRefused
  BY <1>3 DEF PublishRefused
<1>4. CASE Notify
  BY <1>4 DEF Notify, AfterNotify
<1>5. CASE Close
  BY <1>5 DEF Close, CloseShared
<1>6. CASE DropPublisher
  BY <1>6 DEF DropPublisher, CloseShared
<1>7. CASE AbortTask
  BY <1>7 DEF AbortTask, AtAwait
<1>8. CASE Reconcile
  BY <1>8 DEF Reconcile
<1>9. CASE LookClosed
  BY <1>9 DEF LookClosed, Looking
<1>10. CASE LookPending
  BY <1>10 DEF LookPending, Looking
<1>11. CASE LookInVain
  BY <1>11 DEF LookInVain, Looking
<1>12. CASE FallAsleep
  BY <1>12 DEF FallAsleep
<1>13. CASE Wake
  BY <1>13 DEF Wake
<1>14. CASE Connect
  BY <1>14 DEF Connect
<1>15. CASE SendHeader
  BY <1>15 DEF SendHeader
<1>16. CASE ConnectOrHeaderFails
  BY <1>16 DEF ConnectOrHeaderFails
<1>17. CASE TakeLatest
  BY <1>17 DEF TakeLatest
<1>18. CASE Encode
  BY <1>18 DEF Encode
<1>19. CASE EncodeFails
  BY <1>19 DEF EncodeFails
<1>20. CASE Write
  BY <1>20 DEF Write
<1>21. CASE WriteFails
  BY <1>21 DEF WriteFails
<1>22. CASE AfterFailure
  BY <1>22 DEF AfterFailure
<1>23. CASE SleepOver
  BY <1>23 DEF SleepOver
<1>24. CASE UNCHANGED vars
  BY <1>24
<1> QED
  BY <1>1, <1>2, <1>3, <1>4, <1>5, <1>6, <1>7, <1>8, <1>9, <1>10, <1>11, <1>12, <1>13,
     <1>14, <1>15, <1>16, <1>17, <1>18, <1>19, <1>20, <1>21, <1>22, <1>23, <1>24 DEF
     Next, Owner, Task

(* What goes out is counted and goes out in order.                         *)
LEMMA InOrderStep ==
  ASSUME Types, Holding, Ordered, InOrderOnce, [Next]_vars
  PROVE  InOrderOnce'
<1> USE DEF InOrderOnce, vars, slotVars, counterVars, backoffVars
<1>1. CASE Start
  BY <1>1 DEF Start
<1>2. CASE Publish
  BY <1>2 DEF Publish
<1>3. CASE PublishRefused
  BY <1>3 DEF PublishRefused
<1>4. CASE Notify
  BY <1>4 DEF Notify, AfterNotify
<1>5. CASE Close
  BY <1>5 DEF Close, CloseShared
<1>6. CASE DropPublisher
  BY <1>6 DEF DropPublisher, CloseShared
<1>7. CASE AbortTask
  BY <1>7 DEF AbortTask, AtAwait
<1>8. CASE Reconcile
  BY <1>8 DEF Reconcile
<1>9. CASE LookClosed
  BY <1>9 DEF LookClosed, Looking
<1>10. CASE LookPending
  BY <1>10 DEF LookPending, Looking
<1>11. CASE LookInVain
  BY <1>11 DEF LookInVain, Looking
<1>12. CASE FallAsleep
  BY <1>12 DEF FallAsleep
<1>13. CASE Wake
  BY <1>13 DEF Wake
<1>14. CASE Connect
  BY <1>14 DEF Connect
<1>15. CASE SendHeader
  BY <1>15 DEF SendHeader
<1>16. CASE ConnectOrHeaderFails
  BY <1>16 DEF ConnectOrHeaderFails
<1>17. CASE TakeLatest
  BY <1>17 DEF TakeLatest
<1>18. CASE Encode
  BY <1>18 DEF Encode
<1>19. CASE EncodeFails
  BY <1>19 DEF EncodeFails
<1>20. CASE Write
  <2>1. /\ handed' = Append(handed, hand) /\ sent' = sent + 1
        /\ hand # 0 /\ hand \in Nat /\ handed \in Seq(Nat)
    BY <1>20 DEF Write, Holding, Types
  <2>2. \A i \in 1..Len(handed) : handed[i] < hand
    BY <2>1 DEF Ordered, Older
  <2>3. Len(handed') = sent'
    BY <2>1
  <2> QED BY <2>1, <2>2, <2>3, AppendGreater
<1>21. CASE WriteFails
  BY <1>21 DEF WriteFails
<1>22. CASE AfterFailure
  BY <1>22 DEF AfterFailure
<1>23. CASE SleepOver
  BY <1>23 DEF SleepOver
<1>24. CASE UNCHANGED vars
  BY <1>24
<1> QED
  BY <1>1, <1>2, <1>3, <1>4, <1>5, <1>6, <1>7, <1>8, <1>9, <1>10, <1>11, <1>12, <1>13,
     <1>14, <1>15, <1>16, <1>17, <1>18, <1>19, <1>20, <1>21, <1>22, <1>23, <1>24 DEF
     Next, Owner, Task

-----------------------------------------------------------------------------
(* A new publisher satisfies every part. *)
LEMMA InitHolds == Init => IInv
<1> SUFFICES ASSUME Init PROVE IInv
  OBVIOUS
<1> USE DEF Init
<1>1. handed \in Seq(Nat) /\ Len(handed) = 0
  OBVIOUS
<1>2. Types
  <2>1. closed \in BOOLEAN /\ permit \in BOOLEAN
    OBVIOUS
  <2>2. /\ latest \in Nat /\ hand \in Nat /\ next_sequence \in Nat \ {0}
        /\ accepted \in Nat /\ sent \in Nat /\ dropped \in Nat
    OBVIOUS
  <2> QED BY <1>1, <2>1, <2>2 DEF Types
<1>5. Closing
  BY DEF Closing
<1>6. Holding
  BY DEF Holding
<1>3. Accounted
  BY DEF Accounted, One
<1>4. Ordered /\ InOrderOnce
  BY <1>1 DEF Ordered, Older, InOrderOnce
<1> QED BY <1>2, <1>3, <1>4, <1>5, <1>6 DEF IInv

(* The invariant is one, of every behaviour of the publisher. *)
THEOREM Invariant == Spec => []IInv
<1>1. IInv /\ [Next]_vars => IInv'
  <2> SUFFICES ASSUME IInv, [Next]_vars PROVE IInv'
    OBVIOUS
  <2> USE DEF IInv
  <2>1. Types' /\ Closing' /\ Holding'
    BY TypesStep, ClosingStep, HoldingStep
  <2>2. Accounted' /\ Ordered' /\ InOrderOnce'
    BY AccountedStep, OrderedStep, InOrderStep
  <2> QED BY <2>1, <2>2
<1> QED BY <1>1, InitHolds, PTL DEF Spec

(* Every accepted record is sent, dropped, in the slot or in the hand, and *)
(* sent or dropped once close() has returned: reconcile_accepted_records   *)
(* adds exactly the record that the abort found in the task's hand.        *)
THEOREM AccountsHold == Spec => []EveryRecordAccounted
<1>1. IInv => EveryRecordAccounted
  <2> SUFFICES ASSUME IInv PROVE EveryRecordAccounted
    OBVIOUS
  <2>1. accepted = sent + dropped + Waiting + Cardinality({hand} \ {0})
    BY CountOfOne DEF IInv, Accounted, Waiting
  <2>2. ASSUME app = "closed" PROVE accepted = sent + dropped
    <3>1. One(latest) = 0 /\ One(hand) = 0
      BY <2>2 DEF IInv, Closing, Holding, One
    <3> QED BY <3>1 DEF IInv, Accounted, Types
  <2> QED BY <2>1, <2>2 DEF EveryRecordAccounted
<1> QED BY <1>1, Invariant, PTL

(* Over all connections the records go out in the order in which they were *)
(* accepted, none of them twice: the slot and the hand never hold the same *)
(* record, and a record that failed is not put back.                       *)
THEOREM OrderHolds == Spec => []InOrderOnce
<1>1. IInv => InOrderOnce
  BY DEF IInv
<1> QED BY <1>1, Invariant, PTL

-----------------------------------------------------------------------------
(* The delay between connections, a power of two up to its limit.          *)

(* The recursion of Doubled, for all failures and up to the n-th. *)
Doubles(f) == f = [n \in Nat |-> IF n = 0 THEN InitialDelay ELSE 2 * f[n - 1]]

DoublesUpTo(f, k) ==
    /\ f[0] = InitialDelay
    /\ \A n \in Nat : n < k => f[n + 1] = 2 * f[n]

LEMMA DoubledIs == Doubled = CHOOSE f : Doubles(f)
BY DEF Doubled, Doubles

(* The recursion has a solution up to any number of failures.              *)
LEMMA DoublingsReach ==
  ASSUME NEW k \in Nat
  PROVE  \E f : DoublesUpTo(f, k)
<1> DEFINE T == {j \in Nat : ~ \E f : DoublesUpTo(f, j)}
<1> SUFFICES ASSUME T # {} PROVE FALSE
  OBVIOUS
<1>1. T \subseteq Nat
  OBVIOUS
<1> HIDE DEF T
<1>2. PICK m \in T : \A j \in T : m <= j
  BY <1>1, LeastNumber
<1> USE DEF T
<1>3. m # 0
  <2> DEFINE f == [n \in Nat |-> InitialDelay]
  <2>1. DoublesUpTo(f, 0)
    BY DEF DoublesUpTo
  <2> HIDE DEF f
  <2> QED BY <2>1
<1>4. m - 1 \in Nat /\ m - 1 \notin T
  <2>1. m \in Nat /\ m - 1 < m
    BY <1>1
  <2> QED BY <1>2, <1>3, <2>1
<1>5. PICK f : DoublesUpTo(f, m - 1)
  BY <1>4
<1> DEFINE g == [n \in Nat |-> IF n = m THEN 2 * f[n - 1] ELSE f[n]]
<1>6. g[0] = InitialDelay
  BY <1>3, <1>5 DEF DoublesUpTo
<1>7. ASSUME NEW n \in Nat, n < m PROVE g[n + 1] = 2 * g[n]
  <2>1. g[n] = f[n] /\ m \in Nat
    BY <1>7
  <2>2. CASE n + 1 = m
    BY <2>1, <2>2
  <2>3. CASE n + 1 # m
    <3>1. g[n + 1] = f[n + 1] /\ n < m - 1
      BY <1>7, <2>1, <2>3
    <3> QED BY <1>5, <2>1, <3>1 DEF DoublesUpTo
  <2> QED BY <2>2, <2>3
<1>8. DoublesUpTo(g, m)
  BY <1>6, <1>7 DEF DoublesUpTo
<1> HIDE DEF g
<1> QED BY <1>2, <1>8

(* And only one.                                                           *)
LEMMA DoublingsAgree ==
  ASSUME NEW k \in Nat, NEW f, DoublesUpTo(f, k), NEW g, DoublesUpTo(g, k),
         NEW n \in Nat, n <= k
  PROVE  f[n] = g[n]
<1> DEFINE T == {j \in Nat : j <= k /\ f[j] # g[j]}
<1> SUFFICES ASSUME T # {} PROVE FALSE
  OBVIOUS
<1>1. T \subseteq Nat
  OBVIOUS
<1> HIDE DEF T
<1>2. PICK m \in T : \A j \in T : m <= j
  BY <1>1, LeastNumber
<1> USE DEF T
<1>3. m # 0
  BY <1>2 DEF DoublesUpTo
<1>4. m - 1 \in Nat /\ m - 1 < k /\ m - 1 \notin T
  <2>1. m \in Nat /\ m - 1 < m /\ m <= k
    BY <1>2
  <2> QED BY <1>2, <1>3, <2>1
<1>5. f[m - 1] = g[m - 1]
  BY <1>4
<1>6. f[(m - 1) + 1] = 2 * f[m - 1] /\ g[(m - 1) + 1] = 2 * g[m - 1]
  BY <1>4 DEF DoublesUpTo
<1> QED BY <1>2, <1>5, <1>6

(* So that Doubled is what its recursion says.                             *)
LEMMA DoubledUnfolds ==
  /\ Doubled[0] = InitialDelay
  /\ \A n \in Nat : Doubled[n + 1] = 2 * Doubled[n]
<1> DEFINE part(k) == CHOOSE f : DoublesUpTo(f, k)
<1> DEFINE whole == [n \in Nat |-> part(n)[n]]
<1>1. \A k \in Nat : DoublesUpTo(part(k), k)
  BY DoublingsReach
<1> HIDE DEF part
<1>2. whole[0] = InitialDelay
  BY <1>1 DEF DoublesUpTo
<1>3. ASSUME NEW n \in Nat PROVE whole[n + 1] = 2 * whole[n]
  <2>1. /\ DoublesUpTo(part(n), n) /\ DoublesUpTo(part(n + 1), n + 1)
        /\ whole[n] = part(n)[n] /\ whole[n + 1] = part(n + 1)[n + 1]
    BY <1>1
  <2>2. DoublesUpTo(part(n + 1), n)
    BY <2>1 DEF DoublesUpTo
  <2>3. part(n + 1)[n] = part(n)[n]
    BY <2>1, <2>2, DoublingsAgree
  <2>4. part(n + 1)[n + 1] = 2 * part(n + 1)[n]
    BY <2>1 DEF DoublesUpTo
  <2> QED BY <2>1, <2>3, <2>4
<1>4. Doubles(whole)
  <2> DEFINE rule(n) == IF n = 0 THEN InitialDelay ELSE 2 * whole[n - 1]
  <2>1. whole = [n \in Nat |-> whole[n]]
    OBVIOUS
  <2> HIDE DEF whole
  <2>2. ASSUME NEW n \in Nat PROVE whole[n] = rule(n)
    <3>1. CASE n = 0
      BY <1>2, <3>1
    <3>2. CASE n # 0
      <4>1. n - 1 \in Nat /\ (n - 1) + 1 = n
        BY <3>2
      <4>2. whole[(n - 1) + 1] = 2 * whole[n - 1]
        BY <1>3, <4>1
      <4> QED BY <3>2, <4>1, <4>2
    <3> QED BY <3>1, <3>2
  <2>3. whole = [n \in Nat |-> rule(n)]
    <3> HIDE DEF rule
    <3> QED BY <2>1, <2>2
  <2> QED BY <2>3 DEF Doubles
<1> HIDE DEF whole
<1>5. Doubles(Doubled)
  BY <1>4, DoubledIs
<1>6. Doubled[0] = InitialDelay
  BY <1>5 DEF Doubles
<1>7. ASSUME NEW n \in Nat PROVE Doubled[n + 1] = 2 * Doubled[n]
  <2>1. n + 1 \in Nat /\ n + 1 # 0 /\ (n + 1) - 1 = n
    OBVIOUS
  <2>2. Doubled[n + 1] = 2 * Doubled[(n + 1) - 1]
    BY <1>5, <2>1 DEF Doubles
  <2> QED BY <2>1, <2>2
<1> QED BY <1>6, <1>7

LEMMA DoubledType ==
  ASSUME NEW n \in Nat
  PROVE  Doubled[n] \in Nat \ {0}
<1> DEFINE T == {j \in Nat : Doubled[j] \notin Nat \ {0}}
<1> SUFFICES ASSUME T # {} PROVE FALSE
  OBVIOUS
<1>1. T \subseteq Nat
  OBVIOUS
<1> HIDE DEF T
<1>2. PICK m \in T : \A j \in T : m <= j
  BY <1>1, LeastNumber
<1> USE DEF T
<1>3. m # 0
  BY <1>2, DoubledUnfolds
<1>4. m - 1 \in Nat /\ m - 1 \notin T
  <2>1. m \in Nat /\ m - 1 < m
    BY <1>1
  <2> QED BY <1>2, <1>3, <2>1
<1>5. Doubled[m - 1] \in Nat \ {0}
  BY <1>4
<1>6. Doubled[(m - 1) + 1] = 2 * Doubled[m - 1]
  BY <1>4, DoubledUnfolds
<1>7. Doubled[m] \in Nat \ {0}
  BY <1>4, <1>5, <1>6
<1> QED BY <1>2, <1>7

(* The delay is the initial one, doubled for each failure counted, or the  *)
(* largest.  Where the count no longer grows it is the largest already.    *)
Backoff == failures \in 0..MaxCount /\ DelayFollowsFailures

LEMMA BackoffStep ==
  ASSUME Backoff, [Next]_vars
  PROVE  Backoff'
<1>1. CASE UNCHANGED backoffVars
  BY <1>1 DEF Backoff, DelayFollowsFailures, backoffVars
<1>2. CASE Write
  <2>1. cap' = InitialDelay /\ failures' = 0
    BY <1>2 DEF Write
  <2>2. Doubled[0] = InitialDelay
    BY DoubledUnfolds
  <2> QED BY <2>1, <2>2 DEF Backoff, DelayFollowsFailures
<1>3. CASE AfterFailure /\ ~ UNCHANGED backoffVars
  <2>1. /\ failures' = CountUp(failures)
        /\ cap' = IF cap * 2 < MaxDelay THEN cap * 2 ELSE MaxDelay
    BY <1>3 DEF AfterFailure
  <2> DEFINE d == Doubled[failures]
  <2>2. failures \in Nat /\ failures <= MaxCount /\ d \in Nat \ {0}
    BY DoubledType DEF Backoff
  <2>3. cap = IF d < MaxDelay THEN d ELSE MaxDelay
    BY DEF Backoff, DelayFollowsFailures
  <2>4. CASE failures < MaxCount
    <3>1. failures' = failures + 1 /\ Doubled[failures'] = 2 * d
      BY <2>1, <2>2, <2>4, DoubledUnfolds DEF CountUp
    <3> HIDE DEF d
    <3>2. cap' = IF 2 * d < MaxDelay THEN 2 * d ELSE MaxDelay
      BY <2>1, <2>2, <2>3
    <3> QED BY <2>2, <2>4, <3>1, <3>2 DEF Backoff, DelayFollowsFailures
  <2>5. CASE failures = MaxCount
    <3>1. failures' = MaxCount
      BY <2>1, <2>5 DEF CountUp
    <3>2. d >= MaxDelay
      BY <2>2, <2>5
    <3>3. Doubled[failures'] = d
      BY <2>5, <3>1
    <3> HIDE DEF d
    <3>4. cap' = MaxDelay
      BY <2>1, <2>2, <2>3, <3>2
    <3>5. failures' \in 0..MaxCount
      BY <3>1
    <3> QED BY <2>2, <3>2, <3>3, <3>4, <3>5 DEF Backoff, DelayFollowsFailures
  <2> QED BY <2>2, <2>4, <2>5
<1>4. CASE Owner
  BY <1>1, <1>4 DEF Owner, backoffVars, Start, Publish, PublishRefused, Notify, Close,
    DropPublisher, CloseShared, AbortTask, Reconcile, vars
<1>5. CASE Task /\ ~ Write /\ ~ AfterFailure
  BY <1>1, <1>5 DEF Task, backoffVars, LookClosed, LookPending, LookInVain, FallAsleep, Wake,
    Connect, SendHeader, ConnectOrHeaderFails, TakeLatest, Encode, EncodeFails,
    WriteFails, SleepOver
<1>6. CASE UNCHANGED vars
  BY <1>1, <1>6 DEF vars
<1> QED BY <1>1, <1>2, <1>3, <1>4, <1>5, <1>6 DEF Next

(* However often the receiver fails and recovers, the delay is the one its *)
(* number of consecutive failures calls for, within its limit, and a       *)
(* record that gets through restores the shortest (ReconnectBackoff).      *)
THEOREM BackoffHolds == Spec => []DelayFollowsFailures
<1>1. Init => Backoff
  <2> SUFFICES ASSUME Init PROVE Backoff
    OBVIOUS
  <2>1. cap = InitialDelay /\ failures = 0 /\ Doubled[0] = InitialDelay
    BY DoubledUnfolds DEF Init
  <2> QED BY <2>1 DEF Backoff, DelayFollowsFailures
<1>2. Backoff /\ [Next]_vars => Backoff'
  BY BackoffStep
<1>3. Backoff => DelayFollowsFailures
  BY DEF Backoff
<1> QED BY <1>1, <1>2, <1>3, PTL DEF Spec

-----------------------------------------------------------------------------
(* Diagnostics.                                                            *)
USE DiagnosticsAssumption

(* The inductive invariant of the writer, in parts. *)
WriterTypes ==
  /\ selected \in Nat /\ written \in Nat /\ recordsDropped \in Nat
  /\ written_bytes \in Nat
  /\ queue \in Seq(Nat) /\ lines \in Seq(Nat)
  /\ offered \in Nat /\ received \in Nat /\ residue \in Nat

(* Who holds a record, and when the thread and the channel end.            *)
Sides ==
  /\ sender <=> producer \notin {"closing", "gone"}
  /\ producer \in {"selected", "sending"} => offered # None
  /\ offered # None => producer \in {"selected", "sending"}
  /\ worker = "holding" => received # None
  /\ received # None => worker = "holding"
  /\ \A i \in 1..Len(queue) : queue[i] # None
  /\ worker = "ended" /\ ~panicked => queue = << >> /\ ~sender
  /\ outcome = "drained" => worker = "ended"
  /\ residue # None => writer_failed

WriterAccounted ==
  ~panicked => selected = written + recordsDropped + Len(queue)
                                  + Held(offered) + Held(received)

(* Every line is older than the record. *)
Before(record) == \A i \in 1..Len(lines) : lines[i] < record

(* The lines, the residue, the hand, the queue and the offered record, in  *)
(* the order of their selection.                                           *)
WriterOrdered ==
  /\ offered <= selected /\ received <= selected /\ residue <= selected
  /\ \A i \in 1..Len(queue) : /\ queue[i] <= selected
                              /\ offered # None => queue[i] < offered
                              /\ received # None => received < queue[i]
                              /\ Before(queue[i])
  /\ \A i \in 1..Len(queue) : \A j \in 1..(i - 1) : queue[j] < queue[i]
  /\ received # None /\ offered # None => received < offered
  /\ Before(selected + 1)
  /\ offered # None => Before(offered)
  /\ received # None => Before(received)
  /\ residue # None => Before(residue)

(* LinesInOrder, with the time at which a line too many can appear. *)
WriterLines ==
  /\ written_bytes <= MaxFileBytes
  /\ \A i \in 1..Len(lines) : \A j \in 1..(i - 1) : lines[j] < lines[i]
  /\ worker # "ended" => Len(lines) = written
  /\ Len(lines) = written \/ (Len(lines) = written + 1 /\ writer_failed)

WriterInv == WriterTypes /\ Sides /\ WriterAccounted /\ WriterOrdered /\ WriterLines

-----------------------------------------------------------------------------
(* What a record at the end of a sequence does to it. *)
LEMMA AppendedSequence ==
  ASSUME NEW s \in Seq(Nat), NEW x \in Nat
  PROVE  /\ Append(s, x) \in Seq(Nat)
         /\ Len(Append(s, x)) = Len(s) + 1
         /\ \A i \in 1..Len(s) : Append(s, x)[i] = s[i]
         /\ Append(s, x)[Len(s) + 1] = x
         /\ \A i \in 1..Len(Append(s, x)) : i \in 1..Len(s) \/ i = Len(s) + 1
OBVIOUS

(* What is left of a sequence without its head. *)
LEMMA TailShape ==
  ASSUME NEW s \in Seq(Nat), s # << >>
  PROVE  /\ Len(s) \in Nat \ {0} /\ Head(s) = s[1] /\ Head(s) \in Nat
         /\ Tail(s) \in Seq(Nat) /\ Len(Tail(s)) = Len(s) - 1
         /\ \A i \in 1..Len(Tail(s)) : i + 1 \in 2..Len(s) /\ Tail(s)[i] = s[i + 1]
OBVIOUS

(* Every step keeps the types.                                             *)
LEMMA WriterTypesStep ==
  ASSUME WriterTypes, [WriterNext]_writerVars
  PROVE  WriterTypes'
<1> USE DEF WriterTypes, writerVars, countVars,
        channelVars, callVars, workerVars,
        fileVars, None
<1>1. ASSUME NEW s \in Sensors, Select(s) PROVE WriterTypes'
  BY <1>1 DEF Select
<1>2. CASE DropOffered
  BY <1>2 DEF DropOffered
<1>3. CASE PassCheck
  BY <1>3 DEF PassCheck
<1>4. CASE TrySend
  BY <1>4, AppendedSequence DEF TrySend, Receiving
<1>5. CASE CountEnqueued
  BY <1>5 DEF CountEnqueued
<1>6. CASE TrySendFails
  BY <1>6 DEF TrySendFails, Receiving
<1>7. CASE CloseWriter
  BY <1>7 DEF CloseWriter
<1>8. CASE CloseDrained
  BY <1>8 DEF CloseDrained
<1>9. CASE CloseLate
  BY <1>9 DEF CloseLate
<1>10. CASE Receive
  BY <1>10, TailShape DEF Receive
<1>11. CASE EndWorker
  BY <1>11, AppendedSequence DEF EndWorker
<1>12. CASE DropAfterFailure
  BY <1>12 DEF DropAfterFailure, Finish
<1>13. CASE EncodeRecordFails
  BY <1>13 DEF EncodeRecordFails, Finish, Healthy
<1>14. CASE CapacityReached
  BY <1>14 DEF CapacityReached, Finish, Healthy
<1>15. CASE WriteRecord
  BY <1>15, AppendedSequence DEF WriteRecord, Finish, Healthy,
                              Fits
<1>16. CASE WriteRecordFails
  BY <1>16 DEF WriteRecordFails, Finish, Healthy
<1>17. CASE WorkerPanics
  BY <1>17 DEF WorkerPanics, Healthy
<1>18. CASE UNCHANGED writerVars
  BY <1>18
<1> QED
  BY <1>1, <1>2, <1>3, <1>4, <1>5, <1>6, <1>7, <1>8, <1>9, <1>10, <1>11, <1>12, <1>13,
     <1>14, <1>15, <1>16, <1>17, <1>18
  DEF WriterNext, Application, Worker

(* Every step keeps the account of who holds a record.                     *)
LEMMA SidesStep ==
  ASSUME WriterTypes, Sides, [WriterNext]_writerVars
  PROVE  Sides'
<1> USE DEF Sides, WriterTypes, writerVars, countVars,
        channelVars, callVars, workerVars,
        fileVars, None
<1>1. ASSUME NEW s \in Sensors, Select(s) PROVE Sides'
  BY <1>1 DEF Select
<1>2. CASE DropOffered
  BY <1>2 DEF DropOffered
<1>3. CASE PassCheck
  BY <1>3 DEF PassCheck
<1>4. CASE TrySend
  BY <1>4, AppendedSequence DEF TrySend, Receiving
<1>5. CASE CountEnqueued
  BY <1>5 DEF CountEnqueued
<1>6. CASE TrySendFails
  BY <1>6 DEF TrySendFails, Receiving
<1>7. CASE CloseWriter
  BY <1>7 DEF CloseWriter
<1>8. CASE CloseDrained
  BY <1>8 DEF CloseDrained
<1>9. CASE CloseLate
  BY <1>9 DEF CloseLate
<1>10. CASE Receive
  BY <1>10, TailShape DEF Receive
<1>11. CASE EndWorker
  BY <1>11 DEF EndWorker
<1>12. CASE DropAfterFailure
  BY <1>12 DEF DropAfterFailure, Finish
<1>13. CASE EncodeRecordFails
  BY <1>13 DEF EncodeRecordFails, Finish, Healthy
<1>14. CASE CapacityReached
  BY <1>14 DEF CapacityReached, Finish, Healthy
<1>15. CASE WriteRecord
  BY <1>15 DEF WriteRecord, Finish, Healthy,
                              Fits
<1>16. CASE WriteRecordFails
  BY <1>16 DEF WriteRecordFails, Finish, Healthy
<1>17. CASE WorkerPanics
  BY <1>17 DEF WorkerPanics, Healthy
<1>18. CASE UNCHANGED writerVars
  BY <1>18
<1> QED
  BY <1>1, <1>2, <1>3, <1>4, <1>5, <1>6, <1>7, <1>8, <1>9, <1>10, <1>11, <1>12, <1>13,
     <1>14, <1>15, <1>16, <1>17, <1>18
  DEF WriterNext, Application, Worker

(* Every step counts the record it takes from one place to another.        *)
LEMMA WriterAccountedStep ==
  ASSUME WriterTypes, Sides, WriterAccounted,
         [WriterNext]_writerVars
  PROVE  WriterAccounted'
<1> USE DEF WriterAccounted, Held, WriterTypes, Sides, writerVars,
        countVars, channelVars, callVars,
        workerVars, fileVars, None
<1>1. ASSUME NEW s \in Sensors, Select(s) PROVE WriterAccounted'
  BY <1>1 DEF Select
<1>2. CASE DropOffered
  BY <1>2 DEF DropOffered
<1>3. CASE PassCheck
  BY <1>3 DEF PassCheck
<1>4. CASE TrySend
  BY <1>4, AppendedSequence DEF TrySend, Receiving
<1>5. CASE CountEnqueued
  BY <1>5 DEF CountEnqueued
<1>6. CASE TrySendFails
  BY <1>6 DEF TrySendFails, Receiving
<1>7. CASE CloseWriter
  BY <1>7 DEF CloseWriter
<1>8. CASE CloseDrained
  BY <1>8 DEF CloseDrained
<1>9. CASE CloseLate
  BY <1>9 DEF CloseLate
<1>10. CASE Receive
  <2> USE <1>10 DEF Receive
  <2>1. queue # << >> /\ received' = queue[1] /\ Len(queue') = Len(queue) - 1
    BY TailShape
  <2>2. Len(queue) \in Nat \ {0}
    BY <2>1, TailShape
  <2>3. received = None /\ received' # None
    BY <2>1, <2>2
  <2> QED BY <2>1, <2>2, <2>3
<1>11. CASE EndWorker
  BY <1>11 DEF EndWorker
<1>12. CASE DropAfterFailure
  BY <1>12 DEF DropAfterFailure, Finish
<1>13. CASE EncodeRecordFails
  BY <1>13 DEF EncodeRecordFails, Finish, Healthy
<1>14. CASE CapacityReached
  BY <1>14 DEF CapacityReached, Finish, Healthy
<1>15. CASE WriteRecord
  BY <1>15 DEF WriteRecord, Finish, Healthy,
                              Fits
<1>16. CASE WriteRecordFails
  BY <1>16 DEF WriteRecordFails, Finish, Healthy
<1>17. CASE WorkerPanics
  BY <1>17 DEF WorkerPanics, Healthy
<1>18. CASE UNCHANGED writerVars
  BY <1>18
<1> QED
  BY <1>1, <1>2, <1>3, <1>4, <1>5, <1>6, <1>7, <1>8, <1>9, <1>10, <1>11, <1>12, <1>13,
     <1>14, <1>15, <1>16, <1>17, <1>18
  DEF WriterNext, Application, Worker

(* Every step keeps the records in the order of their selection.           *)
LEMMA WriterOrderedStep ==
  ASSUME WriterTypes, Sides, WriterOrdered,
         [WriterNext]_writerVars
  PROVE  WriterOrdered'
<1> USE DEF WriterOrdered, Before, WriterTypes, Sides, writerVars,
        countVars, channelVars, callVars,
        workerVars, fileVars, None
<1>1. ASSUME NEW s \in Sensors, Select(s) PROVE WriterOrdered'
  BY <1>1 DEF Select
<1>2. CASE DropOffered
  BY <1>2 DEF DropOffered
<1>3. CASE PassCheck
  BY <1>3 DEF PassCheck
<1>4. CASE TrySend
  BY <1>4, AppendedSequence, SMTT(30) DEF TrySend, Receiving
<1>5. CASE CountEnqueued
  BY <1>5 DEF CountEnqueued
<1>6. CASE TrySendFails
  BY <1>6 DEF TrySendFails, Receiving
<1>7. CASE CloseWriter
  BY <1>7 DEF CloseWriter
<1>8. CASE CloseDrained
  BY <1>8 DEF CloseDrained
<1>9. CASE CloseLate
  BY <1>9 DEF CloseLate
<1>10. CASE Receive
  BY <1>10, TailShape, SMTT(30) DEF Receive
<1>11. CASE EndWorker
  <2> USE <1>11 DEF EndWorker
  <2>1. CASE lines' = lines
    BY <2>1
  <2>2. CASE residue # 0 /\ lines' = Append(lines, residue)
    <3>1. \A i \in 1..Len(lines') : lines'[i] < selected + 1
      BY <2>2, AppendedSequence
    <3>2. received = 0 /\ Len(queue) = 0
      OBVIOUS
    <3>3. offered = 0
      OBVIOUS
    <3> QED BY <3>1, <3>2, <3>3
  <2> QED BY <2>1, <2>2
<1>12. CASE DropAfterFailure
  BY <1>12 DEF DropAfterFailure, Finish
<1>13. CASE EncodeRecordFails
  BY <1>13 DEF EncodeRecordFails, Finish, Healthy
<1>14. CASE CapacityReached
  BY <1>14 DEF CapacityReached, Finish, Healthy
<1>15. CASE WriteRecord
  BY <1>15, AppendedSequence DEF WriteRecord, Finish, Healthy,
                              Fits
<1>16. CASE WriteRecordFails
  BY <1>16 DEF WriteRecordFails, Finish, Healthy
<1>17. CASE WorkerPanics
  BY <1>17 DEF WorkerPanics, Healthy
<1>18. CASE UNCHANGED writerVars
  BY <1>18
<1> QED
  BY <1>1, <1>2, <1>3, <1>4, <1>5, <1>6, <1>7, <1>8, <1>9, <1>10, <1>11, <1>12, <1>13,
     <1>14, <1>15, <1>16, <1>17, <1>18
  DEF WriterNext, Application, Worker

(* Every step keeps the lines in order and counted.                        *)
LEMMA WriterLinesStep ==
  ASSUME WriterTypes, Sides, WriterOrdered, WriterLines,
         [WriterNext]_writerVars
  PROVE  WriterLines'
<1> USE DEF WriterLines, WriterTypes, writerVars,
        countVars, channelVars, callVars,
        workerVars, fileVars, None
<1>1. ASSUME NEW s \in Sensors, Select(s) PROVE WriterLines'
  BY <1>1 DEF Select
<1>2. CASE DropOffered
  BY <1>2 DEF DropOffered
<1>3. CASE PassCheck
  BY <1>3 DEF PassCheck
<1>4. CASE TrySend
  BY <1>4 DEF TrySend, Receiving
<1>5. CASE CountEnqueued
  BY <1>5 DEF CountEnqueued
<1>6. CASE TrySendFails
  BY <1>6 DEF TrySendFails, Receiving
<1>7. CASE CloseWriter
  BY <1>7 DEF CloseWriter
<1>8. CASE CloseDrained
  BY <1>8 DEF CloseDrained
<1>9. CASE CloseLate
  BY <1>9 DEF CloseLate
<1>10. CASE Receive
  BY <1>10 DEF Receive
<1>11. CASE EndWorker
  <2> USE <1>11 DEF EndWorker
  <2>1. CASE lines' = lines
    BY <2>1
  <2>2. CASE residue # None /\ lines' = Append(lines, residue)
    <3>1. writer_failed /\ \A i \in 1..Len(lines) : lines[i] < residue
      BY <2>2 DEF Sides, WriterOrdered, Before
    <3>2. \A i \in 1..Len(lines') : \A j \in 1..(i - 1) : lines'[j] < lines'[i]
      BY <2>2, <3>1, AppendGreater
    <3>3. Len(lines') = written' + 1
      BY <2>2, AppendedSequence
    <3> QED BY <3>1, <3>2, <3>3
  <2> QED BY <2>1, <2>2
<1>12. CASE DropAfterFailure
  BY <1>12 DEF DropAfterFailure, Finish
<1>13. CASE EncodeRecordFails
  BY <1>13 DEF EncodeRecordFails, Finish, Healthy
<1>14. CASE CapacityReached
  BY <1>14 DEF CapacityReached, Finish, Healthy
<1>15. CASE WriteRecord
  <2> USE <1>15 DEF WriteRecord, Finish, Healthy
  <2>1. written_bytes' <= MaxFileBytes
    BY DEF Fits
  <2>2. \A i \in 1..Len(lines) : lines[i] < received
    BY DEF Sides, WriterOrdered, Before
  <2>3. \A i \in 1..Len(lines') : \A j \in 1..(i - 1) : lines'[j] < lines'[i]
    BY <2>2, AppendGreater
  <2>4. Len(lines') = written'
    BY AppendedSequence
  <2> QED BY <2>1, <2>3, <2>4
<1>16. CASE WriteRecordFails
  BY <1>16 DEF WriteRecordFails, Finish, Healthy
<1>17. CASE WorkerPanics
  BY <1>17 DEF WorkerPanics, Healthy
<1>18. CASE UNCHANGED writerVars
  BY <1>18
<1> QED
  BY <1>1, <1>2, <1>3, <1>4, <1>5, <1>6, <1>7, <1>8, <1>9, <1>10, <1>11, <1>12, <1>13,
     <1>14, <1>15, <1>16, <1>17, <1>18
  DEF WriterNext, Application, Worker

-----------------------------------------------------------------------------
(* A new writer satisfies every part. *)
LEMMA WriterInitHolds == WriterInit => WriterInv
<1> SUFFICES ASSUME WriterInit PROVE WriterInv
  OBVIOUS
<1> USE DEF WriterInit, None
<1>1. /\ queue \in Seq(Nat) /\ Len(queue) = 0
      /\ lines \in Seq(Nat) /\ Len(lines) = 0
  OBVIOUS
<1>2. WriterTypes
  BY <1>1 DEF WriterTypes
<1>3. Sides
  BY <1>1 DEF Sides
<1>4. WriterAccounted
  BY <1>1 DEF WriterAccounted, Held
<1>5. WriterOrdered
  BY <1>1 DEF WriterOrdered, Before
<1>6. WriterLines
  BY <1>1 DEF WriterLines
<1> QED BY <1>2, <1>3, <1>4, <1>5, <1>6 DEF WriterInv

(* The invariant is one, of every behaviour of the writer. *)
THEOREM WriterInvariant == WriterSpec => []WriterInv
<1>1. WriterInv /\ [WriterNext]_writerVars => WriterInv'
  <2> SUFFICES ASSUME WriterInv, [WriterNext]_writerVars PROVE WriterInv'
    OBVIOUS
  <2> USE DEF WriterInv
  <2>1. WriterTypes' /\ Sides' /\ WriterAccounted'
    BY WriterTypesStep, SidesStep, WriterAccountedStep
  <2>2. WriterOrdered' /\ WriterLines'
    BY WriterOrderedStep, WriterLinesStep
  <2> QED BY <2>1, <2>2
<1> QED BY <1>1, WriterInitHolds, PTL DEF WriterSpec

(* While the thread has not panicked every selected record is written,     *)
(* dropped, queued or held, and after a close that was not late it is one  *)
(* of the first two: the thread ends on an empty channel only.             *)
THEOREM WriterAccountsHold == WriterSpec => []EverySelectionAccounted
<1>1. WriterInv => EverySelectionAccounted
  <2> SUFFICES ASSUME WriterInv, ~panicked
               PROVE  /\ selected = written + recordsDropped + Len(queue)
                                    + Held(offered)
                                    + Held(received)
                      /\ outcome = "drained" => selected = written + recordsDropped
    BY DEF EverySelectionAccounted
  <2>1. selected = written + recordsDropped + Len(queue)
                           + Held(offered) + Held(received)
    BY DEF WriterInv, WriterAccounted
  <2>2. ASSUME outcome = "drained" PROVE selected = written + recordsDropped
    <3>1. worker = "ended" /\ queue = << >> /\ ~sender
      BY <2>2 DEF WriterInv, Sides
    <3>2. Held(offered) = 0 /\ Held(received) = 0 /\ Len(queue) = 0
      BY <3>1 DEF WriterInv, Sides, Held
    <3> QED BY <2>1, <3>2 DEF WriterInv, WriterTypes
  <2> QED BY <2>1, <2>2
<1> QED BY <1>1, WriterInvariant, PTL

(* The file holds whole lines in the order of selection, none twice, no    *)
(* more of them than were written but for one that a failed write had left *)
(* in the BufWriter, and no more bytes than its limit.                     *)
THEOREM FileInOrder == WriterSpec => []LinesInOrder
<1>1. WriterInv => LinesInOrder
  BY DEF WriterInv, WriterLines, LinesInOrder
<1> QED BY <1>1, WriterInvariant, PTL
=============================================================================
