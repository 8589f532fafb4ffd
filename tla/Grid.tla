-------------------------------- MODULE Grid --------------------------------
(***************************************************************************)
(* The node grid both programs lay over the square world                   *)
(* (Common/AStar/Grid.cpp).  A Node is named by its grid point.            *)
(***************************************************************************)
EXTENDS Geometry

CONSTANTS WorldSize,  \* side of the world (600)
          NodeSize    \* side of a node (20)

ASSUME GridAssumption ==
  /\ WorldSize \in Nat \ {0}
  /\ NodeSize \in Nat \ {0}
  /\ NodeSize % 2 = 0            \* half a node is a whole number of units
  /\ NodeSize <= WorldSize
  /\ WorldSize % NodeSize = 0    \* 600 / 20

\* lround of the quotient n / d for n >= 0: halves are rounded up.
Round(n, d) == (2 * n + d) \div (2 * d)

GridSize == Round(WorldSize, NodeSize)

Nodes == [x : 0 .. GridSize - 1, y : 0 .. GridSize - 1]

\* The middle of a node, Node::mPosition.
NodePosition(node) ==
  [x |-> node.x * NodeSize + NodeSize \div 2,
   y |-> node.y * NodeSize + NodeSize \div 2]

Clamp(v, lo, hi) == IF v < lo THEN lo ELSE IF v > hi THEN hi ELSE v

\* One coordinate of GetNodeFromPosition: the position is scaled to the
\* GridSize - 1 gaps between nodes and rounded, not cut at the cells' borders.
NodeCoordinate(v) == Round((GridSize - 1) * Clamp(v, 0, WorldSize), WorldSize)

GetNodeFromPosition(p) == [x |-> NodeCoordinate(p.x), y |-> NodeCoordinate(p.y)]
=============================================================================
