------------------------------ MODULE Geometry ------------------------------
(***************************************************************************)
(* Vector2f (Common/Math/Vector2f.h) as far as the game logic compares     *)
(* positions: a vector is a record of two coordinates, and a distance is   *)
(* compared with a radius through its square, so that no root is taken.    *)
(* Coordinates are integers: one unit is one world unit of the program.    *)
(* Float rounding is not modelled.                                         *)
(***************************************************************************)
EXTENDS Integers

Vector2f == [x : Int, y : Int]

\* magnitudeSquared of the difference of two positions.
DistanceSquared(p, q) ==
  (p.x - q.x) * (p.x - q.x) + (p.y - q.y) * (p.y - q.y)

\* p.distance(q) < radius
Within(p, q, radius) == DistanceSquared(p, q) < radius * radius

\* p.distance(q) <= radius
AtMost(p, q, radius) == DistanceSquared(p, q) <= radius * radius

\* q is the start of the straight way from a to b or lies on it, short of b:
\* the positions `mPosition += unitDirection * moveableDistance` can reach.
OnTheWay(q, a, b) ==
  /\ q # b
  /\ (q.x - a.x) * (b.y - a.y) = (q.y - a.y) * (b.x - a.x)
  /\ (q.x - a.x) * (b.x - q.x) >= 0
  /\ (q.y - a.y) * (b.y - q.y) >= 0
=============================================================================
