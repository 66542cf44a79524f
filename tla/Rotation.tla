------------------------------ MODULE Rotation ------------------------------
(***************************************************************************)
(* The schedule of the scans of a sensor (src/src/measurement/rotation.rs).*)
(*                                                                         *)
(* Samples are taken at the multiples of SampleTicks and a scan completes  *)
(* at every multiple of RotationTicks.  The rates of the configuration     *)
(* need not divide each other, so a rotation may end between two samples;  *)
(* the scheduler counts with exact ratios, and so does the model.  Angles  *)
(* are left out.                                                           *)
(***************************************************************************)
EXTENDS Integers

CONSTANTS SampleTicks,     \* ticks between two samples: 1 / sample_rate_hz
          RotationTicks    \* ticks of a rotation: 1 / rotation_rate_hz

\* validated_rate_ratios: no fewer samples than rotations.
RatesAssumption ==
    /\ SampleTicks \in Nat \ {0}
    /\ RotationTicks \in Nat
    /\ SampleTicks <= RotationTicks

ASSUME RotationAssumption == RatesAssumption

CeilMultiple(n) == (n * RotationTicks + SampleTicks - 1) \div SampleTicks
Boundary(n) == n * RotationTicks

\* What next_scan returns the n-th time: the samples up to the boundary that
\* the scans before it did not take.
ScheduledScan(n) ==
    [scan_id |-> n,
     rotation_started |-> Boundary(n - 1),
     completed |-> Boundary(n),
     points |-> {SampleTicks * k : k \in CeilMultiple(n - 1)..(CeilMultiple(n) - 1)}]

\* ScheduledScan::new: there are points, all within the rotation.
ValidScan(scan) ==
    /\ scan.rotation_started < scan.completed
    /\ scan.points # {}
    /\ \A t \in scan.points : scan.rotation_started <= t /\ t < scan.completed

\* captured_elapsed_s: the time of the first sample.
Captured(n) == SampleTicks * CeilMultiple(n - 1)
LastPoint(n) == SampleTicks * (CeilMultiple(n) - 1)
=============================================================================
