---------------------------- MODULE MCLatestTwo ----------------------------
(* LatestTwo for TLC: two streams and two writers of one ring, and serials *)
(* that run out after the ring has overwritten its first entries.          *)
EXTENDS LatestTwo
=============================================================================
