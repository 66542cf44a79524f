----------------------------- MODULE HeightField -----------------------------
(***************************************************************************)
(* The surface of the scrap heap (src/src/scenario/height_field.rs).       *)
(*                                                                         *)
(* The grid is reduced to a few columns of unit area, the heights to small *)
(* naturals above the floor.  What an update does to single heights is     *)
(* floating-point work; what the rest of the program relies on is how much *)
(* volume it moves, that no height leaves [floor, top], and that a pile    *)
(* grows where its inlet is.  Each update is therefore the set of the      *)
(* surfaces it may lead to.                                                *)
(***************************************************************************)
EXTENDS Integers, FiniteSetsExt

CONSTANTS Columns,      \* the columns of the grid, numbered in a row, an inlet over each
          Top,          \* the height of the boundary's top
          Roughness     \* the largest height that roughness moves

ASSUME HeightFieldAssumption ==
  IsFiniteSet(Columns) /\ Top \in Nat \ {0} /\ Roughness \in Nat

Surfaces == [Columns -> 0..Top]
Flat == [c \in Columns |-> 0]

VolumeOf(h) == MapThenSumSet(LAMBDA c : h[c], Columns)
Capacity == MapThenSumSet(LAMBDA c : Top, Columns)
Distance(a, b) == IF a < b THEN b - a ELSE a - b

\* local_profile: a kernel that falls with the distance from the inlet.  Only
\* the order of its values matters here.
Kernel(inlet) == [c \in Columns |-> 0 - Distance(c, inlet)]
Uniform == [c \in Columns |-> 0]

\* solve_height_delta: the request, or all there is room for, is shared out in
\* proportion to the profile; a column that is exhausted takes no more and the
\* others take its share.  Whole units round equal shares.
HeightDeltas(profile, available, requested) ==
    {delta \in Surfaces :
        /\ VolumeOf(delta) = Min({requested, VolumeOf(available)})
        /\ \A c \in Columns : delta[c] <= available[c]
        /\ \A c, d \in Columns :
             \/ delta[c] = available[c]
             \/ profile[c] < profile[d]
             \/ delta[c] + (IF profile[c] = profile[d] THEN 1 ELSE 0) >= delta[d]}

\* add_volume and change_volume: what exceeds the capacity is not applied.
Poured(h, volume, inlet) ==
    {[c \in Columns |-> h[c] + delta[c]] :
        delta \in HeightDeltas(Kernel(inlet), [c \in Columns |-> Top - h[c]], volume)}

\* remove_volume_uniformly: down to the floor and no further.
Lowered(h, volume) ==
    {[c \in Columns |-> h[c] - delta[c]] : delta \in HeightDeltas(Uniform, h, volume)}

\* apply_local_roughness: heights move up and down, scaled to stay between
\* floor and top, and the volume stays.
Roughened(h) ==
    {g \in Surfaces : /\ VolumeOf(g) = VolumeOf(h)
                      /\ \A c \in Columns : Distance(g[c], h[c]) <= Roughness}

\* relax_slopes: volume slides from higher columns to lower ones, and no
\* column ends outside the range the heights had.
Relaxed(h) ==
    LET heights == {h[c] : c \in Columns} IN
    {g \in Surfaces : /\ VolumeOf(g) = VolumeOf(h)
                      /\ \A c \in Columns : g[c] \in Min(heights)..Max(heights)}

\* mean_height_within the comparison radius, which holds one column.
MeanHeightNear(h, inlet) == h[inlet]
=============================================================================
