----------------------------- MODULE Retention -----------------------------
(***************************************************************************)
(* Which publication a reader of a latest-two ring is given, as arithmetic *)
(* on positions: n items were published, and the reader was last given the *)
(* c-th of them (c = 0 when it was given none).                            *)
(***************************************************************************)
EXTENDS Naturals

(* `entries.len() == 2`, buffer.rs:78 *)
Capacity == 2

(* The position of the oldest item that is still retained; 1 when nothing  *)
(* has been overwritten.                                                   *)
OldestRetained(n) == IF n > Capacity THEN n - Capacity + 1 ELSE 1

(* The position of the item the reader is given next, and the number of    *)
(* items between its last one and that one, which it will never see.       *)
NextAfter(c, n) == IF c + 1 > OldestRetained(n) THEN c + 1 ELSE OldestRetained(n)
LostBefore(c, n) == NextAfter(c, n) - c - 1
=============================================================================
