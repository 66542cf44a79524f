------------------------ MODULE MCScanSubscription -------------------------
(* ScanSubscription for TLC: three clients compete for two slots while the *)
(* ring overwrites frames, and the loss counter is exhausted after three.  *)
EXTENDS ScanSubscription, TLC

Symmetry == Permutations(Clients)
=============================================================================
