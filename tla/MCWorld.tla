------------------------------ MODULE MCWorld -------------------------------
(***************************************************************************)
(* World on a small instance with the program's own distances: one row of  *)
(* the 600 x 600 world, and on it the spawn point (10), a point exactly    *)
(* NearRange from it (85), one exactly VisibleRange from it (160) and one  *)
(* out of its range but within that of the others (230).  Walks end at 10  *)
(* and 230; 85 and 160 are passed on the way.                              *)
(***************************************************************************)
EXTENDS World

MCPoints == {[x |-> x, y |-> 10] : x \in {10, 85, 160, 230}}
MCDestinations == {[x |-> x, y |-> 0] : x \in {0, 11}}

\* All but `calls`, which no action reads: states that differ only in what was
\* sent last have the same futures, and what a step sends is checked on the step.
MCView == <<UseAOI, motion, sight, timers, registry, groupState>>
=============================================================================
