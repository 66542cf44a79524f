---------------------------- MODULE Observation ----------------------------
(***************************************************************************)
(* TcpObservationPublisher (src/src/observation.rs): the application puts  *)
(* model snapshots into a slot for one record; a task connects to the      *)
(* receiver and sends what the slot holds.  A newer record replaces an     *)
(* unsent one, a failed connection is retried after a growing delay, and   *)
(* nothing of this may hold up or end the scans.                           *)
(*                                                                         *)
(* A record is its sequence; 0 is no record.                               *)
(***************************************************************************)
EXTENDS Naturals, Sequences, FiniteSets

CONSTANTS MaxSequence,   \* MAX_OBSERVATION_SEQUENCE, 2^53 - 1 in the code
          MaxCount,      \* the largest u64, where counters stop counting
          InitialDelay, MaxDelay   \* the reconnect delay caps

(* The delay that n failures in a row call for, were there no largest one. *)
Doubled[n \in Nat] == IF n = 0 THEN InitialDelay ELSE 2 * Doubled[n - 1]

(* The counters hold more failures than it takes to reach the largest      *)
(* delay: some two thousand doublings span the positive doubles.           *)
ASSUME ObservationAssumption ==
  /\ MaxSequence \in Nat \ {0} /\ MaxCount \in Nat
  /\ InitialDelay \in Nat \ {0} /\ MaxDelay \in Nat /\ InitialDelay <= MaxDelay
  /\ MaxDelay <= Doubled[MaxCount]

VARIABLES
  \* PublisherState and the wakeup
  closed, latest, next_sequence, permit,
  \* PublisherCounters
  accepted, sent, dropped, connection_failures,
  \* the owner: "idle", "notify" (published, not yet notified), "closing",
  \* "aborting", "reconciling", "closed", "dropping", "dropped"
  app,
  \* run_publisher: where it is, the stage of wait_for_pending ("look",
  \* "looked", "asleep"), and the record it has taken
  task, wait, hand,
  \* ReconnectBackoff
  cap, failures,
  \* history: the records the operating system has taken, over all connections
  handed

slotVars == <<closed, latest, next_sequence>>
counterVars == <<accepted, sent, dropped, connection_failures>>
backoffVars == <<cap, failures>>
vars == <<slotVars, permit, counterVars, app, task, wait, hand, backoffVars, handed>>

Init ==
  /\ closed = FALSE /\ latest = 0 /\ next_sequence = 1 /\ permit = FALSE
  /\ accepted = 0 /\ sent = 0 /\ dropped = 0 /\ connection_failures = 0
  /\ app = "idle"
  /\ task = "unstarted" /\ wait = "look" /\ hand = 0
  /\ cap = InitialDelay /\ failures = 0
  /\ handed = << >>

Waiting == Cardinality({latest} \ {0})
CountUp(n) == IF n < MaxCount THEN n + 1 ELSE MaxCount

-----------------------------------------------------------------------------
(* The owner                                                               *)

Start ==
  /\ app = "idle" /\ task = "unstarted"
  /\ task' = "outer" /\ wait' = "look"
  /\ UNCHANGED <<slotVars, permit, counterVars, app, hand, backoffVars, handed>>

(* publish, under the state mutex: the new record replaces an unsent one.  *)
Publish ==
  /\ app = "idle" /\ next_sequence <= MaxSequence
  /\ next_sequence' = next_sequence + 1
  /\ latest' = next_sequence
  /\ dropped' = dropped + Waiting
  /\ accepted' = accepted + 1
  /\ app' = "notify"
  /\ UNCHANGED <<closed, permit, sent, connection_failures, task, wait, hand,
                 backoffVars, handed>>

(* SequenceExhausted, or Ok(false) of a closed publisher. *)
PublishRefused ==
  /\ \/ app = "idle" /\ next_sequence > MaxSequence
     \/ app = "closed"
  /\ UNCHANGED vars

(* What the owner goes on to do when it has notified the task. *)
AfterNotify == [notify |-> "idle", closing |-> "aborting", dropping |-> "dropped"]

(* Seeded fault: notify_waiters, which leaves no permit behind. *)
NotifySleeper ==
  /\ app \in DOMAIN AfterNotify
  /\ permit' = (permit \/ wait = "asleep")
  /\ app' = AfterNotify[app]
  /\ UNCHANGED <<slotVars, counterVars, task, wait, hand, backoffVars, handed>>

(* notify_one, after the mutex was let go: wakes the task, or leaves a     *)
(* permit for its next wait.                                               *)
Notify ==
  /\ app \in DOMAIN AfterNotify
  /\ permit' = TRUE
  /\ app' = AfterNotify[app]
  /\ UNCHANGED <<slotVars, counterVars, task, wait, hand, backoffVars, handed>>

(* close_shared, under the state mutex. *)
CloseShared ==
  /\ closed' = TRUE
  /\ latest' = 0
  /\ dropped' = dropped + Waiting
  /\ UNCHANGED <<next_sequence, permit, accepted, sent, connection_failures, task,
                 wait, hand, backoffVars, handed>>

Close == app = "idle" /\ app' = "closing" /\ CloseShared

(* Drop: the task is aborted and not awaited. *)
DropPublisher == app = "idle" /\ app' = "dropping" /\ CloseShared

(* An abort ends the task at an await; between two awaits it goes on.      *)
AtAwait ==
  \/ task \in {"unstarted", "connecting", "header", "writing", "sleeping", "ended"}
  \/ task \in {"outer", "inner"} /\ wait = "asleep"

AbortTask ==
  /\ app = "aborting" \/ (app = "dropped" /\ task # "ended")
  /\ AtAwait
  /\ task' = "ended" /\ wait' = "look"
  /\ app' = IF app = "aborting" THEN "reconciling" ELSE app
  /\ UNCHANGED <<slotVars, permit, counterVars, hand, backoffVars, handed>>

(* Seeded fault: close() trusts the counters of the aborted task. *)
ReconcileNever ==
  /\ app = "reconciling"
  /\ hand' = 0
  /\ app' = "closed"
  /\ UNCHANGED <<slotVars, permit, counterVars, task, wait, backoffVars, handed>>

(* reconcile_accepted_records: what the task had in its hand is dropped.   *)
Reconcile ==
  /\ app = "reconciling"
  /\ dropped' = IF accepted > sent + dropped THEN accepted - sent ELSE dropped
  /\ hand' = 0
  /\ app' = "closed"
  /\ UNCHANGED <<slotVars, permit, accepted, sent, connection_failures, task, wait,
                 backoffVars, handed>>

-----------------------------------------------------------------------------
(* wait_for_pending, called with and without a connection                  *)

Looking == task \in {"outer", "inner"} /\ wait = "look"

LookClosed ==
  /\ Looking /\ closed
  /\ task' = "ended"
  /\ UNCHANGED <<slotVars, permit, counterVars, app, wait, hand, backoffVars, handed>>

LookPending ==
  /\ Looking /\ ~closed /\ latest # 0
  /\ task' = IF task = "outer" THEN "connecting" ELSE "taking"
  /\ UNCHANGED <<slotVars, permit, counterVars, app, wait, hand, backoffVars, handed>>

LookInVain ==
  /\ Looking /\ ~closed /\ latest = 0
  /\ wait' = "looked"
  /\ UNCHANGED <<slotVars, permit, counterVars, app, task, hand, backoffVars, handed>>

(* notified.await: a permit is used up, and the loop looks again. *)
FallAsleep ==
  /\ wait = "looked" /\ ~permit
  /\ wait' = "asleep"
  /\ UNCHANGED <<slotVars, permit, counterVars, app, task, hand, backoffVars, handed>>

Wake ==
  /\ wait \in {"looked", "asleep"} /\ permit
  /\ wait' = "look" /\ permit' = FALSE
  /\ UNCHANGED <<slotVars, counterVars, app, task, hand, backoffVars, handed>>

-----------------------------------------------------------------------------
(* use_next_connection                                                     *)

Connect ==
  /\ task = "connecting"
  /\ task' = "header"
  /\ UNCHANGED <<slotVars, permit, counterVars, app, wait, hand, backoffVars, handed>>

SendHeader ==
  /\ task = "header"
  /\ task' = "inner"
  /\ UNCHANGED <<slotVars, permit, counterVars, app, wait, hand, backoffVars, handed>>

(* Refused, reset or timed out. *)
ConnectOrHeaderFails ==
  /\ task \in {"connecting", "header"}
  /\ task' = "failed"
  /\ UNCHANGED <<slotVars, permit, counterVars, app, wait, hand, backoffVars, handed>>

(* Seeded fault: the record is copied out of the slot. *)
TakeLatestCloning ==
  /\ task = "taking"
  /\ hand' = latest
  /\ task' = IF latest = 0 THEN "inner" ELSE "holding"
  /\ UNCHANGED <<slotVars, permit, counterVars, app, wait, backoffVars, handed>>

(* close() may have emptied the slot since the look; then the loop goes on.*)
TakeLatest ==
  /\ task = "taking"
  /\ hand' = latest /\ latest' = 0
  /\ task' = IF latest = 0 THEN "inner" ELSE "holding"
  /\ UNCHANGED <<closed, next_sequence, permit, counterVars, app, wait, backoffVars,
                 handed>>

Encode ==
  /\ task = "holding"
  /\ task' = "writing"
  /\ UNCHANGED <<slotVars, permit, counterVars, app, wait, hand, backoffVars, handed>>

(* An invalid snapshot or too long a line: the connection is kept. *)
EncodeFails ==
  /\ task = "holding"
  /\ dropped' = dropped + 1
  /\ hand' = 0 /\ task' = "inner"
  /\ UNCHANGED <<slotVars, permit, accepted, sent, connection_failures, app, wait,
                 backoffVars, handed>>

(* Seeded fault: the delays start afresh, the count of failures does not.  *)
WriteKeepingFailures ==
  /\ task = "writing"
  /\ sent' = sent + 1
  /\ handed' = Append(handed, hand)
  /\ hand' = 0 /\ task' = "inner"
  /\ cap' = InitialDelay
  /\ UNCHANGED <<slotVars, permit, accepted, dropped, connection_failures, app, wait,
                 failures>>

Write ==
  /\ task = "writing"
  /\ sent' = sent + 1
  /\ handed' = Append(handed, hand)
  /\ hand' = 0 /\ task' = "inner"
  /\ cap' = InitialDelay /\ failures' = 0
  /\ UNCHANGED <<slotVars, permit, accepted, dropped, connection_failures, app, wait>>

(* Failed or timed out; part of the frame may have gone out, for the       *)
(* receiver to throw away.                                                 *)
WriteFails ==
  /\ task = "writing"
  /\ dropped' = dropped + 1
  /\ hand' = 0 /\ task' = "failed"
  /\ UNCHANGED <<slotVars, permit, accepted, sent, connection_failures, app, wait,
                 backoffVars, handed>>

(* run_publisher: the failure is counted, and the task ends or sleeps.     *)
AfterFailure ==
  /\ task = "failed"
  /\ connection_failures' = CountUp(connection_failures)
  /\ IF closed
     THEN task' = "ended" /\ UNCHANGED backoffVars
     ELSE /\ task' = "sleeping"
          /\ failures' = CountUp(failures)
          /\ cap' = IF cap * 2 < MaxDelay THEN cap * 2 ELSE MaxDelay
  /\ UNCHANGED <<slotVars, permit, accepted, sent, dropped, app, wait, hand, handed>>

SleepOver ==
  /\ task = "sleeping"
  /\ task' = "outer" /\ wait' = "look"
  /\ UNCHANGED <<slotVars, permit, counterVars, app, hand, backoffVars, handed>>

-----------------------------------------------------------------------------
Owner == \/ Start \/ Publish \/ PublishRefused \/ Notify
         \/ Close \/ DropPublisher \/ AbortTask \/ Reconcile

Task == \/ LookClosed \/ LookPending \/ LookInVain \/ FallAsleep \/ Wake
        \/ Connect \/ SendHeader \/ ConnectOrHeaderFails
        \/ TakeLatest \/ Encode \/ EncodeFails \/ Write \/ WriteFails
        \/ AfterFailure \/ SleepOver

Next == Owner \/ Task

(* The runtime polls the task, every wait on the network has a timeout,    *)
(* and the owner does not stop between the mutex and the notification, or  *)
(* within close().  Whether a connection or a write succeeds is open.      *)
Fairness == WF_vars(Task) /\ WF_vars(Notify) /\ WF_vars(AbortTask) /\ WF_vars(Reconcile)

Spec == Init /\ [][Next]_vars /\ Fairness

-----------------------------------------------------------------------------
(* docs/observation.md:63-65: every accepted record is sent, dropped, in   *)
(* the slot or in the task's hand, and after close() it is one of the      *)
(* first two, even one whose write was cut off by the abort.               *)
EveryRecordAccounted ==
  /\ accepted = sent + dropped + Waiting + Cardinality({hand} \ {0})
  /\ app = "closed" => accepted = sent + dropped

(* contracts/observation/v1/README.md: over all connections the records go *)
(* out in the order of their sequences, and none goes out twice.           *)
InOrderOnce ==
  /\ \A i \in 1..Len(handed) : \A j \in 1..(i - 1) : handed[j] < handed[i]
  /\ Len(handed) = sent

(* The delay is the one its number of consecutive failures calls for, and  *)
(* any record that gets through restores the shortest.                     *)
DelayFollowsFailures ==
  cap = IF Doubled[failures] < MaxDelay THEN Doubled[failures] ELSE MaxDelay

(* While a record is in the slot the receiver is called again and again,   *)
(* until the task has taken it or the publisher is closed: the task never  *)
(* sleeps through a record, and no number of failures ends it.             *)
NeverGivesUp ==
  (latest # 0 /\ task # "unstarted") ~> (latest = 0 \/ task = "connecting")
=============================================================================
