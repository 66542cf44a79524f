---------------------------- MODULE RetainedLog ----------------------------
(***************************************************************************)
(* What a latest-two ring promises, with no ring, lock or wake-up in it.   *)
(*                                                                         *)
(* The owner appends items to one log and may close it; after that nothing *)
(* is appended.  Only the newest Capacity items of the log are retained.   *)
(* A reader asks for the item after the last one it was given: it gets the *)
(* oldest retained item it has not seen, in log order, and the number of   *)
(* items it will never see is added to its loss.  On a closed log a reader *)
(* first gets what is retained and then is told that the log has ended.    *)
(* A reader that goes away and comes back starts again from cursor 0.      *)
(*                                                                         *)
(* LatestTwo (scan_runtime/buffer.rs with the stream of                    *)
(* scan_runtime/server.rs) implements this specification.                  *)
(***************************************************************************)
EXTENDS Naturals, Sequences, Retention

CONSTANTS Readers,   \* the subscriber streams
          Items,     \* what is published
          NoItem     \* what a stream has been given before its first delivery

VARIABLES log,       \* every item ever appended, in order
          closed,    \* has the log been closed?
          request,   \* per reader: no call, a call in progress, told of the end
          cursor,    \* per reader: position of the item it was given last
          lost,      \* per reader: items it was told it had missed
          item       \* per reader: the item it was given last

vars == <<log, closed, request, cursor, lost, item>>

-----------------------------------------------------------------------------
Init ==
  /\ log = << >>
  /\ closed = FALSE
  /\ request = [r \in Readers |-> "idle"]
  /\ cursor = [r \in Readers |-> 0]
  /\ lost = [r \in Readers |-> 0]
  /\ item = [r \in Readers |-> NoItem]

AppendItem(i) ==
  /\ ~closed
  /\ log' = Append(log, i)
  /\ UNCHANGED <<closed, request, cursor, lost, item>>

CloseLog ==
  /\ closed' = TRUE
  /\ UNCHANGED <<log, request, cursor, lost, item>>

Ask(r) ==
  /\ request[r] = "idle"
  /\ request' = [request EXCEPT ![r] = "asking"]
  /\ UNCHANGED <<log, closed, cursor, lost, item>>

Deliver(r) ==
  /\ request[r] = "asking"
  /\ cursor[r] < Len(log)
  /\ LET n == NextAfter(cursor[r], Len(log))
     IN  /\ cursor' = [cursor EXCEPT ![r] = n]
         /\ item' = [item EXCEPT ![r] = log[n]]
  /\ lost' = [lost EXCEPT ![r] = @ + LostBefore(cursor[r], Len(log))]
  /\ request' = [request EXCEPT ![r] = "idle"]
  /\ UNCHANGED <<log, closed>>

End(r) ==
  /\ request[r] = "asking"
  /\ closed
  /\ cursor[r] = Len(log)
  /\ request' = [request EXCEPT ![r] = "ended"]
  /\ UNCHANGED <<log, closed, cursor, lost, item>>

Leave(r) ==
  /\ request' = [request EXCEPT ![r] = "idle"]
  /\ cursor' = [cursor EXCEPT ![r] = 0]
  /\ lost' = [lost EXCEPT ![r] = 0]
  /\ item' = [item EXCEPT ![r] = NoItem]
  /\ UNCHANGED <<log, closed>>

Next ==
  \/ \E i \in Items : AppendItem(i)
  \/ CloseLog
  \/ \E r \in Readers : Ask(r) \/ Deliver(r) \/ End(r) \/ Leave(r)

(* A reader whose call is in progress is answered as soon as there is an   *)
(* item for it or the log has ended; it never has to ask again.            *)
Fairness == \A r \in Readers : WF_vars(Deliver(r)) /\ WF_vars(End(r))

SafeSpec == Init /\ [][Next]_vars

Spec == SafeSpec /\ Fairness
=============================================================================
