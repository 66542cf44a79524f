------------------------- MODULE ScanSubscription --------------------------
(***************************************************************************)
(* The subscribers of one sensor lane: SensorService::subscribe_scans, the *)
(* SubscriberStream it returns, and the two resources of the lane that all *)
(* its streams share, the subscriber permits and the frame_loss counter    *)
(* (src/src/scan_runtime/server.rs:96-224).                                *)
(*                                                                         *)
(* The lane's ring is what RetainedLog promises and LatestTwo implements:  *)
(* the number of frames published, and whether the ring is closed.  A wire *)
(* sequence is a ring serial, because every frame the factory numbers is   *)
(* published or ends the run.                                              *)
(*                                                                         *)
(* A name that LatestTwo has as well is lengthened here, so that a module  *)
(* can extend both.                                                        *)
(***************************************************************************)
EXTENDS Naturals, FiniteSets, Functions, Retention

CONSTANTS Clients,          \* the consumers; each has one call at a time
          MaxSubscribers,   \* MAX_SUBSCRIBERS_PER_SENSOR, 8 in the code
          MaxCount,         \* the largest u64, where frame_loss is exhausted
          MaxFrames,        \* bound: frames published in a run
          MaxOpened         \* bound: streams that are opened in a run

ASSUME SubscriptionAssumption ==
  /\ IsFiniteSet(Clients)
  /\ MaxSubscribers \in Nat \ {0}
  /\ MaxCount \in Nat /\ MaxFrames \in Nat /\ MaxOpened \in Nat

VARIABLES
  published, ringClosed,    \* the lane's ring
  permits,                  \* free permits of the lane's semaphore
  frame_loss,               \* the lane's counter
  stream,                   \* per client: "none", "open", "ended", "failed"
  cursorOf,                 \* per client: SubscriberStream.cursor
  \* history
  deliveredTo,              \* per client: frames its stream has handed on
  subscribedAt,             \* per client: the ring when its call was accepted
  opened,                   \* streams opened so far
  missedByDeparted,         \* frames missed by streams that are gone
  uncounted                 \* frames missed when frame_loss was exhausted

laneVars == <<published, ringClosed, permits, frame_loss, stream, cursorOf, deliveredTo,
              subscribedAt, opened, missedByDeparted, uncounted>>

LaneInit ==
  /\ published = 0 /\ ringClosed = FALSE
  /\ permits = MaxSubscribers
  /\ frame_loss = 0
  /\ stream = [c \in Clients |-> "none"]
  /\ cursorOf = [c \in Clients |-> 0]
  /\ deliveredTo = [c \in Clients |-> 0]
  /\ subscribedAt = [c \in Clients |-> 0]
  /\ opened = 0 /\ missedByDeparted = 0 /\ uncounted = 0

-----------------------------------------------------------------------------
(* The lane's owner: LatestTwo::publish and close. *)
PublishFrame ==
  /\ ~ringClosed
  /\ published < MaxFrames
  /\ published' = published + 1
  /\ UNCHANGED <<ringClosed, permits, frame_loss, stream, cursorOf, deliveredTo,
                 subscribedAt, opened, missedByDeparted, uncounted>>

CloseRing ==
  /\ ringClosed' = TRUE
  /\ UNCHANGED <<published, permits, frame_loss, stream, cursorOf, deliveredTo,
                 subscribedAt, opened, missedByDeparted, uncounted>>

-----------------------------------------------------------------------------
(* INVALID_ARGUMENT for a bad consumer_id, or RESOURCE_EXHAUSTED because   *)
(* try_acquire_owned found no permit: nothing of the lane changes.         *)
SubscribeRefused(c) ==
  /\ stream[c] = "none"
  /\ UNCHANGED laneVars

(* A valid call while a permit is free: the stream starts at cursor 0.     *)
Subscribe(c) ==
  /\ stream[c] = "none"
  /\ permits > 0
  /\ opened < MaxOpened
  /\ permits' = permits - 1
  /\ stream' = [stream EXCEPT ![c] = "open"]
  /\ cursorOf' = [cursorOf EXCEPT ![c] = 0]
  /\ deliveredTo' = [deliveredTo EXCEPT ![c] = 0]
  /\ subscribedAt' = [subscribedAt EXCEPT ![c] = published]
  /\ opened' = opened + 1
  /\ UNCHANGED <<published, ringClosed, frame_loss, missedByDeparted, uncounted>>

Due(c) == stream[c] = "open" /\ cursorOf[c] < published

(* Seeded fault: the cursor is moved first, and the loss measured from it. *)
DeliverMeasuringLate(c) ==
  /\ Due(c)
  /\ cursorOf' = [cursorOf EXCEPT ![c] = NextAfter(@, published)]
  /\ frame_loss + LostBefore(cursorOf'[c], published) <= MaxCount
  /\ deliveredTo' = [deliveredTo EXCEPT ![c] = @ + 1]
  /\ UNCHANGED <<published, ringClosed, permits, frame_loss, stream, subscribedAt,
                 opened, missedByDeparted, uncounted>>

(* poll_next hands on a frame, add_frame_loss having taken its loss. *)
DeliverFrame(c) ==
  /\ Due(c)
  /\ LET loss == LostBefore(cursorOf[c], published)
     IN  /\ frame_loss + loss <= MaxCount
         /\ frame_loss' = frame_loss + loss
  /\ cursorOf' = [cursorOf EXCEPT ![c] = NextAfter(@, published)]
  /\ deliveredTo' = [deliveredTo EXCEPT ![c] = @ + 1]
  /\ UNCHANGED <<published, ringClosed, permits, stream, subscribedAt, opened,
                 missedByDeparted, uncounted>>

(* add_frame_loss refuses to overflow: the stream yields an error in place *)
(* of the frame, with its cursor already moved past it.                    *)
DeliverExhausted(c) ==
  /\ Due(c)
  /\ LET loss == LostBefore(cursorOf[c], published)
     IN  /\ frame_loss + loss > MaxCount
         /\ uncounted' = uncounted + loss + 1
  /\ cursorOf' = [cursorOf EXCEPT ![c] = NextAfter(@, published)]
  /\ stream' = [stream EXCEPT ![c] = "failed"]
  /\ UNCHANGED <<published, ringClosed, permits, frame_loss, deliveredTo, subscribedAt,
                 opened, missedByDeparted>>

(* next_after returns None: the retained frames have been drained. *)
EndStream(c) ==
  /\ stream[c] = "open"
  /\ ringClosed
  /\ cursorOf[c] = published
  /\ stream' = [stream EXCEPT ![c] = "ended"]
  /\ UNCHANGED <<published, ringClosed, permits, frame_loss, cursorOf, deliveredTo,
                 subscribedAt, opened, missedByDeparted, uncounted>>

(* Seeded fault: only a stream that was read to its end releases its permit.*)
DepartReleasingEnded(c) ==
  /\ stream[c] # "none"
  /\ stream' = [stream EXCEPT ![c] = "none"]
  /\ permits' = IF stream[c] = "ended" THEN permits + 1 ELSE permits
  /\ missedByDeparted' = missedByDeparted + (cursorOf[c] - deliveredTo[c])
  /\ UNCHANGED <<published, ringClosed, frame_loss, cursorOf, deliveredTo,
                 subscribedAt, opened, uncounted>>

(* The stream is dropped, because the client went away or because it has   *)
(* ended or failed; _permit goes back with it.                             *)
Depart(c) ==
  /\ stream[c] # "none"
  /\ stream' = [stream EXCEPT ![c] = "none"]
  /\ permits' = permits + 1
  /\ missedByDeparted' = missedByDeparted + (cursorOf[c] - deliveredTo[c])
  /\ UNCHANGED <<published, ringClosed, frame_loss, cursorOf, deliveredTo,
                 subscribedAt, opened, uncounted>>

LaneNext ==
  \/ PublishFrame
  \/ CloseRing
  \/ \E c \in Clients :
       \/ Subscribe(c) \/ SubscribeRefused(c)
       \/ DeliverFrame(c) \/ DeliverExhausted(c) \/ EndStream(c)
       \/ Depart(c)

LaneSpec == LaneInit /\ [][LaneNext]_laneVars

-----------------------------------------------------------------------------
Active == {c \in Clients : stream[c] # "none"}

(* The state has the types of LaneShared and SubscriberStream; frame_loss  *)
(* never passes the largest u64 and permits never the limit.               *)
LaneTypeOK ==
  /\ published \in 0..MaxFrames /\ ringClosed \in BOOLEAN
  /\ permits \in 0..MaxSubscribers
  /\ frame_loss \in 0..MaxCount
  /\ stream \in [Clients -> {"none", "open", "ended", "failed"}]
  /\ cursorOf \in [Clients -> 0..MaxFrames]
  /\ deliveredTo \in [Clients -> 0..MaxFrames]
  /\ subscribedAt \in [Clients -> 0..MaxFrames]
  /\ opened \in 0..MaxOpened
  /\ missedByDeparted \in Nat /\ uncounted \in Nat

(* No slot is lost and none is made up: every permit is free or held by    *)
(* one live stream, however calls are refused, streams fail and clients    *)
(* go away.  With the limit this bounds the live streams.                  *)
SlotsConserved == permits + Cardinality(Active) = MaxSubscribers

(* frame_loss and what it had to refuse account for every frame that some  *)
(* stream, alive or gone, passed over without being given it, and for      *)
(* nothing else: a stream's own gaps in the wire sequence and the lane's   *)
(* counter tell the same story.                                            *)
LossConserved ==
  frame_loss + uncounted
    = missedByDeparted
      + SumFunctionOnSet([c \in Clients |-> cursorOf[c] - deliveredTo[c]], Active)

(* docs/deployment.md:204 says that a container that connects late is      *)
(* given frames from its connection on.                                    *)
OnlyFramesSinceSubscription ==
  \A c \in Active : deliveredTo[c] > 0 => cursorOf[c] > subscribedAt[c]
=============================================================================
