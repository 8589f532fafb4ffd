----------------------------- MODULE PathSearch -----------------------------
(***************************************************************************)
(* The search for paths (Common/AStar/PathFinding.cpp, GetNeighbours and   *)
(* GetGridDirection of Grid.cpp).  The costs and parents are fields of the *)
(* nodes, which all searches of a program share: nothing resets them, and  *)
(* a search begins with what earlier ones left, at a start node whose cost *)
(* it never sets.  Every node of the repository's grids is walkable.       *)
(*                                                                         *)
(* One step is one round of the loop of FindPath.  The code takes the      *)
(* oldest of equally good nodes; the model takes any of them.              *)
(***************************************************************************)
EXTENDS Grid, Sequences, FiniteSets

CONSTANTS Ends,        \* the nodes searches begin and end at
          MaxSearches

ASSUME SearchAssumption == Ends \subseteq Nodes /\ MaxSearches \in Nat

NoNode == [x |-> -1, y |-> -1]

VARIABLES
  mActualCost, mHeuristicCost, mParent,   \* of every node, for good
  searching, startNode, targetNode,       \* the arguments of the search, if one runs
  openSet, closedSet,
  path,                                   \* what the last search returned
  searches

kept == <<mActualCost, mHeuristicCost, mParent>>
vars == <<kept, searching, startNode, targetNode, openSet, closedSet, path, searches>>

Abs(n) == IF n < 0 THEN -n ELSE n
Sign(n) == IF n > 0 THEN 1 ELSE IF n < 0 THEN -1 ELSE 0
Lesser(a, b) == IF a < b THEN a ELSE b
Greater(a, b) == IF a < b THEN b ELSE a

\* Variant with a fault: a diagonal step counts as two.
StepsOnly(lhs, rhs) == 10 * (Abs(lhs.x - rhs.x) + Abs(lhs.y - rhs.y))

GetDistance(lhs, rhs) ==
  LET dstX == Abs(lhs.x - rhs.x)
      dstY == Abs(lhs.y - rhs.y)
  IN IF dstX > dstY THEN 14 * dstY + 10 * (dstX - dstY) ELSE 14 * dstX + 10 * (dstY - dstX)

\* GetGridDirection, one of the eight or none.
Direction(from, to) == <<Sign(to.x - from.x), Sign(to.y - from.y)>>

GetNeighbours(node) ==
  {n \in Nodes \ {node} : Abs(n.x - node.x) <= 1 /\ Abs(n.y - node.y) <= 1}

GetTotalCost(node) == mActualCost[node] + mHeuristicCost[node]

\* The costs a node is preferred by: the total, then the rest of the way.
Better(a, b) ==
  \/ GetTotalCost(a) < GetTotalCost(b)
  \/ GetTotalCost(a) = GetTotalCost(b) /\ mHeuristicCost[a] < mHeuristicCost[b]

\* The open nodes a round may take out.
Best == {n \in openSet : \A other \in openSet : ~Better(other, n)}

\* Variant with a fault: closed nodes are looked at again.
AnyNeighbour(current) == GetNeighbours(current)

\* The neighbours a round looks at.
Considered(current) == GetNeighbours(current) \ closedSet

\* Variant with a fault: what earlier searches left is taken for a way found in this one.
IsCheaperAnyway(n, g) == mParent[n] = NoNode \/ GetTotalCost(n) > g + GetDistance(n, targetNode)

\* A way to a node with this cost is the first or a cheaper one.
IsCheaper(n, g) == n \notin openSet \/ GetTotalCost(n) > g + GetDistance(n, targetNode)

-----------------------------------------------------------------------------
(* Operations. *)

FindPath(from, to) ==
  /\ ~searching /\ searches < MaxSearches
  /\ searching' = TRUE
  /\ searches' = searches + 1
  /\ startNode' = from /\ targetNode' = to
  /\ openSet' = {from} /\ closedSet' = {}
  /\ path' = <<>>
  /\ UNCHANGED kept

\* A round that does not end the search.
Expand(current) ==
  /\ searching /\ current \in Best /\ current # targetNode
  /\ LET g(n) == mActualCost[current] + GetDistance(current, n)
         reached == {n \in Considered(current) : IsCheaper(n, g(n))}
     IN /\ mActualCost' = [n \in Nodes |-> IF n \in reached THEN g(n) ELSE mActualCost[n]]
        /\ mHeuristicCost' = [n \in Nodes |-> IF n \in Considered(current) \ openSet
                                              THEN GetDistance(n, targetNode)
                                              ELSE mHeuristicCost[n]]
        /\ mParent' = [n \in Nodes |-> IF n \in reached THEN current ELSE mParent[n]]
  /\ openSet' = (openSet \ {current}) \union Considered(current)
  /\ closedSet' = closedSet \union {current}
  /\ UNCHANGED <<searching, startNode, targetNode, path, searches>>

\* The way back from the target over the parents, which ends at the start.
Back ==
  LET back[i \in 0 .. GridSize * GridSize] ==
        IF i = 0 THEN targetNode
        ELSE LET last == back[i - 1] IN IF last = startNode THEN startNode ELSE mParent[last]
  IN back

\* Variant with a fault: every node of the way is kept.
Everywhere(back, i) == TRUE

\* Variant with a fault: only the horizontal direction is compared.
TurnsSideways(back, i) ==
  i = 0 \/ Direction(back[i], back[i + 1])[1] # Direction(back[i - 1], back[i])[1]

\* The way back leaves its i-th node in another direction than it came there.
Turns(back, i) == i = 0 \/ Direction(back[i], back[i + 1]) # Direction(back[i - 1], back[i])

\* RetracePath over a way of this many steps: its turning points, the target last.
RetracePath(back, steps) ==
  LET corners == {i \in 0 .. steps - 1 : Turns(back, i)}
      Reversed(turns) == \A k, l \in DOMAIN turns : k < l => turns[k] > turns[l]
  IN {[k \in DOMAIN turns |-> back[turns[k]]] :
        turns \in {turns \in [1 .. Cardinality(corners) -> corners] : Reversed(turns)}}

\* The target is the best open node: the loop of RetracePath runs to the start.
Found(current) ==
  /\ searching /\ current \in Best /\ current = targetNode
  /\ \E steps \in DOMAIN Back :
       /\ Back[steps] = startNode /\ (steps > 0 => Back[steps - 1] # startNode)
       /\ path' \in RetracePath(Back, steps)
  /\ searching' = FALSE
  /\ UNCHANGED <<kept, startNode, targetNode, openSet, closedSet, searches>>

Init ==
  /\ mActualCost = [n \in Nodes |-> 0] /\ mHeuristicCost = [n \in Nodes |-> 0]
  /\ mParent = [n \in Nodes |-> NoNode]
  /\ searching = FALSE /\ startNode = NoNode /\ targetNode = NoNode
  /\ openSet = {} /\ closedSet = {} /\ path = <<>> /\ searches = 0

Iteration(current) == Expand(current) \/ Found(current)

Next ==
  \/ \E from, to \in Ends : FindPath(from, to)
  \/ \E current \in openSet : Iteration(current)

\* A search runs to its end on the thread that asked for it.
Spec == Init /\ [][Next]_vars /\ WF_vars(\E current \in openSet : Iteration(current))

-----------------------------------------------------------------------------
(* Properties. *)

Seen == openSet \union closedSet

TypeOK ==
  /\ mActualCost \in [Nodes -> Nat] /\ mHeuristicCost \in [Nodes -> Nat]
  /\ mParent \in [Nodes -> Nodes \union {NoNode}]
  /\ {startNode, targetNode} \subseteq Nodes \union {NoNode}
  /\ openSet \subseteq Nodes /\ closedSet \subseteq Nodes
  /\ openSet \cap closedSet = {}
  /\ searching => startNode \in Seen /\ targetNode \in Nodes
  /\ searching \in BOOLEAN /\ searches \in 0 .. MaxSearches

\* Whatever earlier searches left in the nodes, the parents of the nodes seen in
\* this one lead to the start, over closed nodes beside each other and with the
\* costs decreasing by what the step costs: RetracePath neither wanders into an
\* older search nor in a circle.
ParentsLead ==
  searching =>
    \A n \in Seen \ {startNode} :
      /\ mParent[n] \in closedSet
      /\ Direction(mParent[n], n) = <<n.x - mParent[n].x, n.y - mParent[n].y>>
      /\ mActualCost[n] = mActualCost[mParent[n]] + GetDistance(mParent[n], n)

Octile(a, b) ==
  10 * Greater(Abs(a.x - b.x), Abs(a.y - b.y)) + 4 * Lesser(Abs(a.x - b.x), Abs(a.y - b.y))

Straight(a, b) ==
  a.x = b.x \/ a.y = b.y \/ Abs(a.x - b.x) = Abs(a.y - b.y)

\* The way an entity walks, from the node it starts at.
Walk == <<startNode>> \o path

LengthOfWalk ==
  LET upTo[i \in 1 .. Len(Walk)] ==
        IF i = 1 THEN 0 ELSE upTo[i - 1] + Octile(Walk[i - 1], Walk[i])
  IN upTo[Len(Walk)]

\* A search returns the turning points of a shortest way of straight stretches
\* in the eight directions, although it compares costs that begin at whatever
\* an earlier search left at its start.
ShortestPath ==
  ~searching /\ searches > 0 =>
    /\ Walk[Len(Walk)] = targetNode
    /\ \A i \in DOMAIN path : Walk[i] # Walk[i + 1] /\ Straight(Walk[i], Walk[i + 1])
    /\ LengthOfWalk = Octile(startNode, targetNode)

\* However long the way, a path is one turning point and the target: of equal
\* costs the node nearer to the target is taken, so the diagonal stretch comes
\* first.  PathFind and Update write it to an array of 50 without looking.
PathFits == Len(path) <= 2

\* Costs grow from search to search, since a start keeps its own, but by no more
\* than the longest way of the grid each time: with the 30 x 30 nodes of the
\* repository, int holds them for five million searches.
CostsBounded == \A n \in Nodes : mActualCost[n] <= searches * 14 * (GridSize - 1)

\* Every search ends, with the target.
SearchEnds == searching ~> ~searching
=============================================================================
