----------------------------- MODULE LatestTwo -----------------------------
(***************************************************************************)
(* The serial ring of one sensor lane, src/src/scan_runtime/buffer.rs,     *)
(* with the streams that read it (SubscriberStream of server.rs).          *)
(*                                                                         *)
(* Writers call publish and close; each holds the ring's mutex for one     *)
(* step and calls notify_waiters only after it has let the mutex go.       *)
(* Readers call next_after: they register with the Notify first, then look *)
(* at the ring under the mutex, and sleep if it has nothing for them.      *)
(* Everything between these steps can be interleaved.                      *)
(***************************************************************************)
EXTENDS Naturals, Sequences

CONSTANTS Readers,    \* subscriber streams
          Writers,    \* tasks that publish to or close the ring
          Items,      \* the frames
          NoItem,
          MaxSerial   \* the largest serial a u64 holds, 2^64 - 1 in the code

ASSUME MaxSerialAssumption == MaxSerial \in Nat \ {0}
ASSUME ItemsAssumption == NoItem \notin Items

VARIABLES
  \* State<T>, buffer.rs:23-27
  serial,     \* the last serial given out
  closed,
  entries,    \* the retained items with their serials, oldest first
  \* the calls in progress
  writer,     \* per writer: "idle", "notify" (mutex released), "refused"
  reader,     \* per reader: "idle", "armed", "looked", "asleep", "ended"
  notified,   \* the readers whose Notified future has been completed
  \* SubscriberStream, server.rs:162-167, and what it handed on
  cursor, lost, delivered, item,
  \* history
  log         \* every item published

ringVars   == <<serial, closed, entries, log>>
streamVars == <<cursor, lost, delivered, item>>
vars == <<ringVars, writer, reader, notified, streamVars>>

Entry == [serial : 1..MaxSerial, item : Items]

Init ==
  /\ serial = 0
  /\ closed = FALSE
  /\ entries = << >>
  /\ log = << >>
  /\ writer = [w \in Writers |-> "idle"]
  /\ reader = [r \in Readers |-> "idle"]
  /\ notified = {}
  /\ cursor = [r \in Readers |-> 0]
  /\ lost = [r \in Readers |-> 0]
  /\ delivered = [r \in Readers |-> 0]
  /\ item = [r \in Readers |-> NoItem]

-----------------------------------------------------------------------------
(* Writers                                                                 *)

(* Seeded fault: the oldest entry is not dropped from a full ring. *)
MakeRoomNever == entries

(* Seeded fault: a full ring gives up its newest entry. *)
MakeRoomAtBack == IF Len(entries) = 2 THEN <<entries[1]>> ELSE entries

(* buffer.rs:78-80 *)
MakeRoom == IF Len(entries) = 2 THEN Tail(entries) ELSE entries

(* publish: the step under the mutex.  A reader may look at the ring        *)
(* between this step and the notification.                                 *)
Publish(w, i) ==
  /\ writer[w] = "idle"
  /\ ~closed
  /\ serial < MaxSerial
  /\ serial' = serial + 1
  /\ entries' = Append(MakeRoom, [serial |-> serial + 1, item |-> i])
  /\ log' = Append(log, i)
  /\ writer' = [writer EXCEPT ![w] = "notify"]
  /\ UNCHANGED <<closed, reader, notified, streamVars>>

(* publish: RingError::Closed and RingError::SerialExhausted.  The run loop *)
(* ends on either, so this writer publishes nothing more.                  *)
PublishRefused(w) ==
  /\ writer[w] = "idle"
  /\ closed \/ serial = MaxSerial
  /\ writer' = [writer EXCEPT ![w] = "refused"]
  /\ UNCHANGED <<ringVars, reader, notified, streamVars>>

Close(w) ==
  /\ writer[w] \in {"idle", "refused"}
  /\ closed' = TRUE
  /\ writer' = [writer EXCEPT ![w] = "notify"]
  /\ UNCHANGED <<serial, entries, log, reader, notified, streamVars>>

(* Seeded fault: only futures that are already being awaited are completed,*)
(* as if next_after created its future where it awaits it.                 *)
ListeningAsleep == {r \in Readers : reader[r] = "asleep"}

(* notify_waiters completes every Notified future that exists when it is   *)
(* called, polled or not, and leaves nothing for the ones made later.      *)
Listening == {r \in Readers : reader[r] \in {"armed", "looked", "asleep"}}

NotifyWaiters(w) ==
  /\ writer[w] = "notify"
  /\ notified' = notified \union Listening
  /\ writer' = [writer EXCEPT ![w] = "idle"]
  /\ UNCHANGED <<ringVars, reader, streamVars>>

-----------------------------------------------------------------------------
(* Readers                                                                 *)

(* The stream is polled without a call in progress: next_after(cursor)     *)
(* starts, and creates its Notified future before it looks at the ring.    *)
Call(r) ==
  /\ reader[r] = "idle"
  /\ reader' = [reader EXCEPT ![r] = "armed"]
  /\ UNCHANGED <<ringVars, writer, notified, streamVars>>

Unseen(r) == {k \in 1..Len(entries) : entries[k].serial > cursor[r]}

SaturatingSub(a, b) == IF a > b THEN a - b ELSE 0

(* Seeded fault: the loss is counted up to the newest retained entry. *)
LostToNewest(r) ==
  SaturatingSub(SaturatingSub(entries[Len(entries)].serial, cursor[r]), 1)

(* buffer.rs:95-103: counted from the oldest retained entry. *)
LostAt(r) == SaturatingSub(SaturatingSub(entries[1].serial, cursor[r]), 1)

(* Seeded fault: a reader is handed the newest entry first. *)
TakeNewest(r, k) == k \in Unseen(r) /\ \A j \in Unseen(r) : j <= k

(* `entries.iter().find(..)`: the first entry after the cursor. *)
IsFirstUnseen(r, k) == k \in Unseen(r) /\ \A j \in Unseen(r) : k <= j

(* next_after returns a delivery, and poll_next of the stream moves its    *)
(* cursor and counts the loss.                                             *)
Deliver(r) ==
  /\ reader[r] = "armed"
  /\ \E k \in 1..Len(entries) :
       /\ IsFirstUnseen(r, k)
       /\ cursor' = [cursor EXCEPT ![r] = entries[k].serial]
       /\ item' = [item EXCEPT ![r] = entries[k].item]
  /\ lost' = [lost EXCEPT ![r] = @ + LostAt(r)]
  /\ delivered' = [delivered EXCEPT ![r] = @ + 1]
  /\ reader' = [reader EXCEPT ![r] = "idle"]
  /\ notified' = notified \ {r}
  /\ UNCHANGED <<ringVars, writer>>

(* next_after returns None and the stream ends. *)
End(r) ==
  /\ reader[r] = "armed"
  /\ Unseen(r) = {}
  /\ closed
  /\ reader' = [reader EXCEPT ![r] = "ended"]
  /\ notified' = notified \ {r}
  /\ UNCHANGED <<ringVars, writer, streamVars>>

(* The ring has nothing for the reader, which lets the mutex go ...        *)
LookInVain(r) ==
  /\ reader[r] = "armed"
  /\ Unseen(r) = {}
  /\ ~closed
  /\ reader' = [reader EXCEPT ![r] = "looked"]
  /\ UNCHANGED <<ringVars, writer, notified, streamVars>>

(* ... and then polls its future: it sleeps if that is not complete yet.   *)
Sleep(r) ==
  /\ reader[r] = "looked"
  /\ r \notin notified
  /\ reader' = [reader EXCEPT ![r] = "asleep"]
  /\ UNCHANGED <<ringVars, writer, notified, streamVars>>

(* The future is complete, and the loop registers anew. *)
Wake(r) ==
  /\ reader[r] \in {"looked", "asleep"}
  /\ r \in notified
  /\ reader' = [reader EXCEPT ![r] = "armed"]
  /\ notified' = notified \ {r}
  /\ UNCHANGED <<ringVars, writer, streamVars>>

(* The client disconnects: the stream and its future are dropped, whatever *)
(* they were doing; a new subscription starts at cursor 0 (server.rs:219). *)
Drop(r) ==
  /\ reader' = [reader EXCEPT ![r] = "idle"]
  /\ notified' = notified \ {r}
  /\ cursor' = [cursor EXCEPT ![r] = 0]
  /\ lost' = [lost EXCEPT ![r] = 0]
  /\ delivered' = [delivered EXCEPT ![r] = 0]
  /\ item' = [item EXCEPT ![r] = NoItem]
  /\ UNCHANGED <<ringVars, writer>>

-----------------------------------------------------------------------------
WriterStep(w) ==
  \/ \E i \in Items : Publish(w, i)
  \/ PublishRefused(w)
  \/ Close(w)
  \/ NotifyWaiters(w)

ReaderStep(r) ==
  Call(r) \/ Deliver(r) \/ End(r) \/ LookInVain(r) \/ Sleep(r) \/ Wake(r) \/ Drop(r)

Next == (\E w \in Writers : WriterStep(w)) \/ (\E r \in Readers : ReaderStep(r))

(* What the runtime schedules: a writer that released the mutex goes on to *)
(* notify (there is no await in between), and a polled call goes on until  *)
(* it sleeps or returns.  Nothing obliges a client to poll, or a writer to *)
(* publish or close.                                                       *)
Fairness ==
  /\ \A w \in Writers : WF_vars(NotifyWaiters(w))
  /\ \A r \in Readers : WF_vars(Deliver(r) \/ End(r) \/ LookInVain(r) \/ Wake(r))

Spec == Init /\ [][Next]_vars /\ Fairness

-----------------------------------------------------------------------------
(* The state has the types of State<T> and SubscriberStream, and the ring  *)
(* never holds more than two entries.                                      *)
TypeOK ==
  /\ serial \in 0..MaxSerial
  /\ closed \in BOOLEAN
  /\ entries \in Seq(Entry) /\ Len(entries) <= 2
  /\ log \in Seq(Items)
  /\ writer \in [Writers -> {"idle", "notify", "refused"}]
  /\ reader \in [Readers -> {"idle", "armed", "looked", "asleep", "ended"}]
  /\ notified \in SUBSET Readers
  /\ cursor \in [Readers -> 0..MaxSerial]
  /\ lost \in [Readers -> Nat]
  /\ delivered \in [Readers -> Nat]
  /\ item \in [Readers -> Items \union {NoItem}]

(* The ring holds exactly the newest two publications (or all, when there  *)
(* are fewer), oldest first, each under its own serial: publish never      *)
(* skips, repeats or reorders a serial.                                    *)
RingIsNewestWindow ==
  /\ Len(log) = serial
  /\ Len(entries) = IF serial < 2 THEN serial ELSE 2
  /\ \A k \in 1..Len(entries) :
       /\ entries[k].serial = serial - Len(entries) + k
       /\ entries[k].item = log[entries[k].serial]

(* Of the publications up to a stream's cursor every one was either        *)
(* delivered to it or counted as lost, and none was both: the frame_loss   *)
(* the runtime reports is exact, however publications, polls and           *)
(* disconnections interleave.                                              *)
ExactLoss ==
  \A r \in Readers :
    /\ delivered[r] + lost[r] = cursor[r]
    /\ cursor[r] <= serial

(* A sleeping reader that has an item or the end of the stream to learn of *)
(* has been notified, or a writer is about to notify it: publish and close *)
(* never slip between a reader's look at the ring and its sleep.           *)
NoLostWakeup ==
  \A r \in Readers :
    /\ reader[r] \in {"looked", "asleep"}
    /\ r \notin notified
    /\ closed \/ cursor[r] < serial
    => \E w \in Writers : writer[w] = "notify"

(* Refinement: the ring with its mutex and its Notify does what RetainedLog *)
(* promises, the answer to every call included.                            *)
RequestOf(r) ==
  IF reader[r] \in {"idle", "ended"} THEN reader[r] ELSE "asking"

Abstract == INSTANCE RetainedLog WITH request <- [r \in Readers |-> RequestOf(r)]

ImplementsRetainedLog == Abstract!Spec
=============================================================================
