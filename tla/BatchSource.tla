---------------------------- MODULE BatchSource ----------------------------
(***************************************************************************)
(* What the generation of scans promises the application, with no sensor   *)
(* thread, schedule or deadline in it.                                     *)
(*                                                                         *)
(* A thread makes numbered batches and sends them through a channel that   *)
(* holds one.  It may fail, but not with a batch in its hands.  The        *)
(* application takes batches, and at some time tells the thread to stop    *)
(* and closes its end of the channel: the thread then ends without an      *)
(* error, a batch in its hands is lost, and so is one that is still in the *)
(* channel.                                                                *)
(*                                                                         *)
(* Generation implements this specification; the generation thread of      *)
(* Application is this specification, with what it does for snapshots.     *)
(***************************************************************************)
EXTENDS Naturals, Sequences

VARIABLES
  thread,    \* "running", "failed" or "ended"
  sent,      \* the number of batches sent
  offering,  \* has it a batch in its hands?
  outbox,    \* the channel, with the number of the batch in it
  receiver,  \* is the application's end of the channel open?
  stop       \* has the thread been told to stop?

vars == <<thread, sent, offering, outbox, receiver, stop>>

Init ==
  /\ thread = "running" /\ sent = 0 /\ offering = FALSE /\ outbox = << >>
  /\ receiver = TRUE /\ stop = FALSE

-----------------------------------------------------------------------------
(* The thread.  A batch it was making when it was told to stop is made.    *)

Make ==
  /\ thread = "running" /\ ~offering
  /\ offering' = TRUE
  /\ UNCHANGED <<thread, sent, outbox, receiver, stop>>

Send ==
  /\ offering /\ outbox = << >> /\ receiver
  /\ outbox' = <<sent + 1>> /\ sent' = sent + 1 /\ offering' = FALSE
  /\ UNCHANGED <<thread, receiver, stop>>

Fail ==
  /\ thread = "running" /\ ~offering
  /\ thread' = "failed"
  /\ UNCHANGED <<sent, offering, outbox, receiver, stop>>

End ==
  /\ thread = "running" /\ stop /\ (offering => ~receiver)
  /\ thread' = "ended" /\ offering' = FALSE
  /\ UNCHANGED <<sent, outbox, receiver, stop>>

-----------------------------------------------------------------------------
(* The application                                                         *)

Take ==
  /\ outbox # << >> /\ ~stop
  /\ outbox' = << >>
  /\ UNCHANGED <<thread, sent, offering, receiver, stop>>

Stop ==
  /\ stop' = TRUE
  /\ UNCHANGED <<thread, sent, offering, outbox, receiver>>

Close ==
  /\ receiver' = FALSE
  /\ UNCHANGED <<thread, sent, offering, outbox, stop>>

-----------------------------------------------------------------------------
Next == Make \/ Send \/ Fail \/ End \/ Take \/ Stop \/ Close

(* A thread that was told to stop does.  It need not make or send a batch, *)
(* and the application need not take one.                                  *)
Spec == Init /\ [][Next]_vars /\ WF_vars(End)
=============================================================================
