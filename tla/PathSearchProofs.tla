-------------------------- MODULE PathSearchProofs --------------------------
(***************************************************************************)
(* What searches do with the nodes they share with all others, for every   *)
(* grid and any number of them: the parents lead back to the start, and    *)
(* the path is a shortest one.                                             *)
(*                                                                         *)
(* That the cost of a start node is left over (PathFinding.cpp:61) does no *)
(* harm, as it is added to every cost of its search alike.  A round then   *)
(* has one best node: the one a step nearer to the target (BestStep).  So  *)
(* a search closes one way, the diagonal first (OneWay), ends after as     *)
(* many rounds as the way has nodes, and what it returns is where the      *)
(* diagonal ends, and the target (Returned).                               *)
(***************************************************************************)
EXTENDS PathSearch, FiniteSetTheorems, SequenceTheorems, SetInduction, TLAPS

Inv == TypeOK /\ ParentsLead

LEMMA NodesAreIntegers ==
  ASSUME NEW n \in Nodes
  PROVE  n.x \in Int /\ n.y \in Int
<1>1. GridSize \in Int
  BY GridAssumption DEF GridSize, Round, GridAssumption
<1> QED BY <1>1 DEF Nodes

LEMMA DistanceNat ==
  ASSUME NEW a \in Nodes, NEW b \in Nodes
  PROVE  GetDistance(a, b) \in Nat
  BY NodesAreIntegers DEF GetDistance, Abs

\* A step to a neighbour goes in its direction and costs something.
LEMMA StepToNeighbour ==
  ASSUME NEW a \in Nodes, NEW b \in GetNeighbours(a)
  PROVE  /\ b \in Nodes /\ b # a
         /\ Direction(a, b) = <<b.x - a.x, b.y - a.y>>
<1>1. b \in Nodes /\ b # a /\ Abs(b.x - a.x) <= 1 /\ Abs(b.y - a.y) <= 1
  BY DEF GetNeighbours
<1>2. a.x \in Int /\ a.y \in Int /\ b.x \in Int /\ b.y \in Int
  BY <1>1, NodesAreIntegers
<1>3. Sign(b.x - a.x) = b.x - a.x /\ Sign(b.y - a.y) = b.y - a.y
  BY <1>1, <1>2 DEF Sign, Abs
<1> QED BY <1>1, <1>3 DEF Direction

LEMMA ConsideredNodes ==
  ASSUME NEW current \in Nodes, NEW n \in Considered(current)
  PROVE  n \in GetNeighbours(current) /\ n \in Nodes /\ n # current /\ n \notin closedSet
  BY DEF Considered, GetNeighbours

LEMMA TypesAtStart == Init => Inv
<1> SUFFICES ASSUME Init PROVE Inv
  OBVIOUS
<1>1. mActualCost \in [Nodes -> Nat] /\ mHeuristicCost \in [Nodes -> Nat]
  BY DEF Init
<1>2. mParent \in [Nodes -> Nodes \union {NoNode}]
  BY DEF Init
<1>3. searches \in 0 .. MaxSearches
  BY SearchAssumption DEF Init, SearchAssumption
<1> QED BY <1>1, <1>2, <1>3 DEF Init, Inv, TypeOK, ParentsLead

LEMMA FindPathKeeps ==
  ASSUME Inv, NEW from \in Ends, NEW to \in Ends, FindPath(from, to)
  PROVE  Inv'
<1>1. from \in Nodes /\ to \in Nodes
  BY SearchAssumption DEF SearchAssumption
<1>2. TypeOK'
  BY <1>1, SearchAssumption DEF Inv, TypeOK, Seen, FindPath, kept, SearchAssumption
<1>3. ParentsLead'
  BY DEF FindPath, ParentsLead, Seen
<1> QED BY <1>2, <1>3 DEF Inv

LEMMA FoundKeeps ==
  ASSUME Inv, NEW current, Found(current)
  PROVE  Inv'
  BY DEF Inv, TypeOK, ParentsLead, Seen, Found, kept

\* A round gives parents only to nodes that are not closed, and the only parent
\* it gives is the node it closes: the parents of all others, and their costs,
\* stay as they are.
LEMMA ExpandKeeps ==
  ASSUME Inv, NEW current \in openSet, Expand(current)
  PROVE  Inv'
<1> DEFINE g(n) == mActualCost[current] + GetDistance(current, n)
           reached == {n \in Considered(current) : IsCheaper(n, g(n))}
<1>0. current \in Nodes /\ current \notin closedSet /\ TypeOK /\ ParentsLead /\ searching
  BY DEF Inv, TypeOK, Expand
<1>1. /\ mActualCost' = [n \in Nodes |-> IF n \in reached THEN g(n) ELSE mActualCost[n]]
      /\ mHeuristicCost' = [n \in Nodes |-> IF n \in Considered(current) \ openSet
                                            THEN GetDistance(n, targetNode)
                                            ELSE mHeuristicCost[n]]
      /\ mParent' = [n \in Nodes |-> IF n \in reached THEN current ELSE mParent[n]]
      /\ openSet' = (openSet \ {current}) \union Considered(current)
      /\ closedSet' = closedSet \union {current}
      /\ UNCHANGED <<searching, startNode, targetNode, path, searches>>
  BY DEF Expand
<1>2. \A n \in Considered(current) :
        n \in GetNeighbours(current) /\ n \in Nodes /\ n # current /\ n \notin closedSet
  BY <1>0, ConsideredNodes
<1>3. \A n \in reached : n \in Considered(current)
  OBVIOUS
<1>4. \A n \in Nodes \ reached : n \in Considered(current) => n \in openSet
  BY DEF IsCheaper
<1> HIDE DEF g, reached
<1>5. TypeOK'
  <2>1. targetNode \in Nodes
    BY <1>0 DEF TypeOK
  <2>2. /\ \A n \in reached : g(n) \in Nat
        /\ \A n \in Considered(current) : GetDistance(n, targetNode) \in Nat
    BY <1>0, <1>2, <1>3, <2>1, DistanceNat DEF TypeOK, g
  <2>3. mActualCost' \in [Nodes -> Nat] /\ mHeuristicCost' \in [Nodes -> Nat]
    BY <1>0, <1>1, <2>2 DEF TypeOK
  <2>4. mParent' \in [Nodes -> Nodes \union {NoNode}]
    BY <1>0, <1>1 DEF TypeOK
  <2>5. startNode' \in Seen' /\ targetNode' \in Nodes
    BY <1>0, <1>1, <2>1 DEF TypeOK, Seen
  <2>6. /\ openSet' \subseteq Nodes /\ closedSet' \subseteq Nodes
        /\ openSet' \cap closedSet' = {}
    BY <1>0, <1>1, <1>2 DEF TypeOK
  <2> QED BY <1>0, <1>1, <2>3, <2>4, <2>5, <2>6 DEF TypeOK
<1>6. ParentsLead'
  <2> SUFFICES ASSUME NEW n \in Seen' \ {startNode}
               PROVE  /\ mParent'[n] \in closedSet'
                      /\ Direction(mParent'[n], n) = <<n.x - mParent'[n].x, n.y - mParent'[n].y>>
                      /\ mActualCost'[n] = mActualCost'[mParent'[n]] + GetDistance(mParent'[n], n)
    BY <1>1 DEF ParentsLead
  <2>1. n \in Nodes
    BY <1>0, <1>1, <1>2 DEF Seen, TypeOK
  <2>2. CASE n \in reached
    <3>1. mParent'[n] = current /\ mActualCost'[n] = g(n)
      BY <1>1, <2>1, <2>2
    <3>2. mActualCost'[current] = mActualCost[current]
      BY <1>0, <1>1, <1>2, <1>3
    <3>3. Direction(current, n) = <<n.x - current.x, n.y - current.y>>
      BY <1>0, <1>2, <1>3, <2>2, StepToNeighbour
    <3> QED BY <1>1, <3>1, <3>2, <3>3 DEF g
  <2>3. CASE n \notin reached
    <3>1. n \in Seen
      BY <1>0, <1>1, <1>4, <2>1, <2>3 DEF Seen
    <3>2. /\ mParent[n] \in closedSet
          /\ Direction(mParent[n], n) = <<n.x - mParent[n].x, n.y - mParent[n].y>>
          /\ mActualCost[n] = mActualCost[mParent[n]] + GetDistance(mParent[n], n)
      BY <1>0, <3>1 DEF ParentsLead
    <3>3. mParent'[n] = mParent[n] /\ mActualCost'[n] = mActualCost[n]
      BY <1>1, <2>1, <2>3
    <3>4. mParent[n] \in Nodes /\ mParent[n] \notin reached
      BY <1>0, <1>2, <1>3, <3>2 DEF TypeOK
    <3>5. mActualCost'[mParent[n]] = mActualCost[mParent[n]]
      BY <1>1, <3>4
    <3> QED BY <1>1, <3>2, <3>3, <3>5
  <2> QED BY <2>2, <2>3
<1> QED BY <1>5, <1>6 DEF Inv

\* The types and the way back hold at every moment of every search.
THEOREM SearchInv == Spec => []Inv
<1>1. Inv /\ [Next]_vars => Inv'
  <2> SUFFICES ASSUME Inv, [Next]_vars PROVE Inv'
    OBVIOUS
  <2>1. ASSUME NEW from \in Ends, NEW to \in Ends, FindPath(from, to) PROVE Inv'
    BY <2>1, FindPathKeeps
  <2>2. ASSUME NEW current \in openSet, Iteration(current) PROVE Inv'
    BY <2>2, ExpandKeeps, FoundKeeps DEF Iteration
  <2>3. CASE UNCHANGED vars
    BY <2>3 DEF vars, kept, Inv, TypeOK, ParentsLead, Seen
  <2> QED BY <2>1, <2>2, <2>3 DEF Next
<1> QED BY TypesAtStart, <1>1, PTL DEF Spec

\* Costs are never negative and parents are nodes of the grid (Node.h:24-33).
THEOREM SearchTypes == Spec => []TypeOK
<1>1. Inv => TypeOK
  BY DEF Inv
<1> QED BY SearchInv, <1>1, PTL

\* Whatever earlier searches left, the parents of the nodes a search has seen lead
\* to its start, one step of one of the eight directions at a time
\* (PathFinding.cpp:54-80, followed by RetracePath).
THEOREM WayBack == Spec => []ParentsLead
<1>1. Inv => ParentsLead
  BY DEF Inv
<1> QED BY SearchInv, <1>1, PTL

-----------------------------------------------------------------------------
(* The way a search takes.  Of the cheapest open nodes only one is nearest  *)
(* to the target: it goes diagonally until it is in line with the target,   *)
(* then straight on, and a round never closes a node beside that way.       *)

\* i steps from u towards v, in one coordinate and in both.
Toward(u, v, i) == IF v > u THEN u + Lesser(i, v - u) ELSE u - Lesser(i, u - v)

OnWay(a, b, i) == [x |-> Toward(a.x, b.x, i), y |-> Toward(a.y, b.y, i)]

StepsBetween(a, b) == Greater(Abs(b.x - a.x), Abs(b.y - a.y))

LEMMA TowardIs ==
  ASSUME NEW u \in Int, NEW v \in Int, NEW i \in Nat
  PROVE  /\ Toward(u, v, i) \in Int
         /\ Abs(Toward(u, v, i) - u) = Lesser(i, Abs(v - u))
         /\ Abs(v - Toward(u, v, i)) = Abs(v - u) - Lesser(i, Abs(v - u))
         /\ Abs(Toward(u, v, i) - v) = Abs(v - u) - Lesser(i, Abs(v - u))
         /\ \/ u <= Toward(u, v, i) /\ Toward(u, v, i) <= v
            \/ v <= Toward(u, v, i) /\ Toward(u, v, i) <= u
         /\ Toward(u, v, 0) = u
  BY DEF Toward, Lesser, Abs

LEMMA WayNodes ==
  ASSUME NEW a \in Nodes, NEW b \in Nodes, NEW i \in Nat
  PROVE  OnWay(a, b, i) \in Nodes
<1>1. a.x \in Int /\ a.y \in Int /\ b.x \in Int /\ b.y \in Int /\ GridSize \in Int
  BY NodesAreIntegers, GridAssumption DEF GridSize, Round
<1>2. a.x \in 0 .. GridSize - 1 /\ a.y \in 0 .. GridSize - 1
      /\ b.x \in 0 .. GridSize - 1 /\ b.y \in 0 .. GridSize - 1
  BY DEF Nodes
<1>3. ASSUME NEW u \in 0 .. GridSize - 1, NEW v \in 0 .. GridSize - 1
      PROVE  Toward(u, v, i) \in 0 .. GridSize - 1
  <2>1. u \in Int /\ v \in Int
    BY <1>1
  <2>2. /\ Toward(u, v, i) \in Int
        /\ \/ u <= Toward(u, v, i) /\ Toward(u, v, i) <= v
           \/ v <= Toward(u, v, i) /\ Toward(u, v, i) <= u
    BY <2>1, TowardIs
  <2> QED
    BY <1>1, <2>2
<1> QED
  BY <1>2, <1>3 DEF Nodes, OnWay

LEMMA WayEnds ==
  ASSUME NEW a \in Nodes, NEW b \in Nodes
  PROVE  /\ StepsBetween(a, b) \in Nat
         /\ OnWay(a, b, 0) = a
         /\ OnWay(a, b, StepsBetween(a, b)) = b
         /\ a # b => StepsBetween(a, b) > 0
<1>1. a.x \in Int /\ a.y \in Int /\ b.x \in Int /\ b.y \in Int
  BY NodesAreIntegers
<1>2. a = [x |-> a.x, y |-> a.y] /\ b = [x |-> b.x, y |-> b.y]
  BY DEF Nodes
<1>3. StepsBetween(a, b) \in Nat
  BY <1>1 DEF StepsBetween, Greater, Abs
<1>4. /\ Toward(a.x, b.x, StepsBetween(a, b)) = b.x
      /\ Toward(a.y, b.y, StepsBetween(a, b)) = b.y
  BY <1>1 DEF StepsBetween, Greater, Abs, Toward, Lesser
<1>5. Toward(a.x, b.x, 0) = a.x /\ Toward(a.y, b.y, 0) = a.y
  BY <1>1, TowardIs
<1>6. a # b => StepsBetween(a, b) > 0
  BY <1>1, <1>2 DEF StepsBetween, Greater, Abs
<1> QED
  BY <1>2, <1>3, <1>4, <1>5, <1>6 DEF OnWay

\* What GetDistance makes of the two distances in each coordinate.
Cost(p, q) == IF p > q THEN 14 * q + 10 * (p - q) ELSE 14 * p + 10 * (q - p)

LEMMA WayCost ==
  ASSUME NEW a \in Nodes, NEW b \in Nodes, NEW i \in 0 .. StepsBetween(a, b)
  PROVE  /\ GetDistance(a, OnWay(a, b, i)) + GetDistance(OnWay(a, b, i), b) = GetDistance(a, b)
         /\ GetDistance(a, OnWay(a, b, i)) <= 14 * i
<1>1. a.x \in Int /\ a.y \in Int /\ b.x \in Int /\ b.y \in Int
  BY NodesAreIntegers
<1>2. PICK p, q : p = Abs(b.x - a.x) /\ q = Abs(b.y - a.y) /\ p \in Nat /\ q \in Nat
  BY <1>1 DEF Abs
<1>3. PICK k, l : k = Lesser(i, p) /\ l = Lesser(i, q)
  OBVIOUS
<1>4. i \in Nat /\ i <= Greater(p, q) /\ StepsBetween(a, b) = Greater(p, q)
  BY <1>1, <1>2 DEF StepsBetween, Greater
<1>5. /\ Abs(a.x - OnWay(a, b, i).x) = k /\ Abs(a.y - OnWay(a, b, i).y) = l
      /\ Abs(OnWay(a, b, i).x - b.x) = p - k /\ Abs(OnWay(a, b, i).y - b.y) = q - l
  <2>1. ASSUME NEW u \in Int, NEW v \in Int
        PROVE  /\ Abs(u - Toward(u, v, i)) = Lesser(i, Abs(v - u))
               /\ Abs(Toward(u, v, i) - v) = Abs(v - u) - Lesser(i, Abs(v - u))
    <3>1. /\ Toward(u, v, i) \in Int
          /\ Abs(Toward(u, v, i) - u) = Lesser(i, Abs(v - u))
          /\ Abs(Toward(u, v, i) - v) = Abs(v - u) - Lesser(i, Abs(v - u))
      BY <1>4, TowardIs
    <3>2. Abs(u - Toward(u, v, i)) = Abs(Toward(u, v, i) - u)
      BY <3>1 DEF Abs
    <3> QED
      BY <3>1, <3>2
  <2>2. OnWay(a, b, i).x = Toward(a.x, b.x, i) /\ OnWay(a, b, i).y = Toward(a.y, b.y, i)
    BY DEF OnWay
  <2> QED
    BY <1>1, <1>2, <1>3, <2>1, <2>2
<1>6. /\ GetDistance(a, OnWay(a, b, i)) = Cost(k, l)
      /\ GetDistance(OnWay(a, b, i), b) = Cost(p - k, q - l)
      /\ GetDistance(a, b) = Cost(p, q)
  <2>1. Abs(a.x - b.x) = p /\ Abs(a.y - b.y) = q
    BY <1>1, <1>2 DEF Abs
  <2> QED
    BY <1>5, <2>1 DEF GetDistance, Cost
<1>7. Cost(k, l) + Cost(p - k, q - l) = Cost(p, q) /\ Cost(k, l) <= 14 * i
  BY <1>2, <1>3, <1>4 DEF Cost, Lesser, Greater
<1> QED
  BY <1>6, <1>7

\* A neighbour is one step away, straight or diagonal.
LEMMA NeighbourCost ==
  ASSUME NEW c \in Nodes, NEW n \in GetNeighbours(c)
  PROVE  GetDistance(c, n) \in 1 .. 14
<1>1. n \in Nodes /\ n # c /\ Abs(n.x - c.x) <= 1 /\ Abs(n.y - c.y) <= 1
  BY DEF GetNeighbours
<1>2. c.x \in Int /\ c.y \in Int /\ n.x \in Int /\ n.y \in Int
  BY <1>1, NodesAreIntegers
<1>3. n.x # c.x \/ n.y # c.y
  BY <1>1 DEF Nodes
<1>4. /\ Abs(c.x - n.x) \in 0 .. 1 /\ Abs(c.y - n.y) \in 0 .. 1
      /\ Abs(c.x - n.x) = 1 \/ Abs(c.y - n.y) = 1
  BY <1>1, <1>2, <1>3 DEF Abs
<1> QED
  BY <1>4 DEF GetDistance

\* The same in numbers: the target is p and q away, a step goes e and f.
LEMMA BestNumbers ==
  ASSUME NEW p \in Int, NEW q \in Int, NEW e \in -1 .. 1, NEW f \in -1 .. 1,
         p # 0 \/ q # 0, e # 0 \/ f # 0
  PROVE  /\ e = Sign(p) /\ f = Sign(q) =>
              Cost(Abs(e), Abs(f)) + Cost(Abs(p - e), Abs(q - f)) = Cost(Abs(p), Abs(q))
         /\ e # Sign(p) \/ f # Sign(q) =>
              \/ Cost(Abs(e), Abs(f)) + Cost(Abs(p - e), Abs(q - f)) > Cost(Abs(p), Abs(q))
              \/ /\ Cost(Abs(e), Abs(f)) + Cost(Abs(p - e), Abs(q - f)) = Cost(Abs(p), Abs(q))
                 /\ Cost(Abs(p - e), Abs(q - f)) > Cost(Abs(p - Sign(p)), Abs(q - Sign(q)))
<1>1. e = -1 \/ e = 0 \/ e = 1
  OBVIOUS
<1>2. f = -1 \/ f = 0 \/ f = 1
  OBVIOUS
<1>3. CASE p > 0
  BY <1>1, <1>2, <1>3 DEF Cost, Abs, Sign
<1>4. CASE p < 0
  BY <1>1, <1>2, <1>4 DEF Cost, Abs, Sign
<1>5. CASE p = 0
  BY <1>1, <1>2, <1>5 DEF Cost, Abs, Sign
<1> QED
  BY <1>3, <1>4, <1>5

\* The step towards the target costs what the way gets shorter by, and any
\* other step more, or as much and leads less near.
LEMMA BestStep ==
  ASSUME NEW c \in Nodes, NEW b \in Nodes, c # b
  PROVE  LET next == OnWay(c, b, 1)
         IN /\ next \in GetNeighbours(c)
            /\ GetDistance(c, next) + GetDistance(next, b) = GetDistance(c, b)
            /\ \A n \in GetNeighbours(c) \ {next} :
                 \/ GetDistance(c, n) + GetDistance(n, b) > GetDistance(c, b)
                 \/ /\ GetDistance(c, n) + GetDistance(n, b) = GetDistance(c, b)
                    /\ GetDistance(n, b) > GetDistance(next, b)
<1> DEFINE next == OnWay(c, b, 1)
<1>1. c.x \in Int /\ c.y \in Int /\ b.x \in Int /\ b.y \in Int
  BY NodesAreIntegers
<1>2. next \in Nodes
  BY WayNodes
<1> DEFINE p == b.x - c.x
           q == b.y - c.y
<1>3. p \in Int /\ q \in Int /\ (p # 0 \/ q # 0)
  BY <1>1 DEF Nodes
<1>4. /\ next.x = c.x + Sign(p) /\ next.y = c.y + Sign(q)
      /\ Sign(p) \in -1 .. 1 /\ Sign(q) \in -1 .. 1 /\ (Sign(p) # 0 \/ Sign(q) # 0)
  BY <1>1, <1>3 DEF OnWay, Toward, Lesser, Sign
<1> HIDE DEF next
<1>5. next \in GetNeighbours(c)
  BY <1>1, <1>2, <1>4 DEF GetNeighbours, Abs
<1>6. ASSUME NEW n \in Nodes, NEW e \in -1 .. 1, NEW f \in -1 .. 1, n.x = c.x + e, n.y = c.y + f
      PROVE  /\ GetDistance(c, n) = Cost(Abs(e), Abs(f))
             /\ GetDistance(n, b) = Cost(Abs(p - e), Abs(q - f))
             /\ GetDistance(c, b) = Cost(Abs(p), Abs(q))
  <2>1. /\ Abs(c.x - n.x) = Abs(e) /\ Abs(c.y - n.y) = Abs(f)
        /\ Abs(c.x - b.x) = Abs(p) /\ Abs(c.y - b.y) = Abs(q)
    BY <1>1, <1>6 DEF Abs
  <2>2. Abs(n.x - b.x) = Abs(p - e) /\ Abs(n.y - b.y) = Abs(q - f)
    BY <1>1, <1>6 DEF Abs
  <2> QED
    BY <2>1, <2>2 DEF GetDistance, Cost
<1> HIDE DEF p, q
<1>7. GetDistance(c, next) + GetDistance(next, b) = GetDistance(c, b)
  BY <1>2, <1>3, <1>4, <1>6, BestNumbers
<1>8. ASSUME NEW n \in GetNeighbours(c) \ {next}
      PROVE  \/ GetDistance(c, n) + GetDistance(n, b) > GetDistance(c, b)
             \/ /\ GetDistance(c, n) + GetDistance(n, b) = GetDistance(c, b)
                /\ GetDistance(n, b) > GetDistance(next, b)
  <2>1. /\ n \in Nodes /\ Abs(n.x - c.x) <= 1 /\ Abs(n.y - c.y) <= 1
        /\ n.x \in Int /\ n.y \in Int /\ n # c /\ n # next
    BY NodesAreIntegers DEF GetNeighbours
  <2>2. PICK e \in -1 .. 1, f \in -1 .. 1 : n.x = c.x + e /\ n.y = c.y + f
    <3>1. n.x - c.x \in -1 .. 1 /\ n.y - c.y \in -1 .. 1
      BY <1>1, <2>1 DEF Abs
    <3>2. n.x = c.x + (n.x - c.x) /\ n.y = c.y + (n.y - c.y)
      BY <1>1, <2>1
    <3> QED
      BY <3>1, <3>2
  <2>3. e # 0 \/ f # 0
    BY <1>1, <2>1, <2>2 DEF Nodes
  <2>4. e # Sign(p) \/ f # Sign(q)
    BY <1>1, <1>2, <1>4, <2>1, <2>2 DEF Nodes
  <2>5. /\ GetDistance(c, n) = Cost(Abs(e), Abs(f))
        /\ GetDistance(n, b) = Cost(Abs(p - e), Abs(q - f))
        /\ GetDistance(c, b) = Cost(Abs(p), Abs(q))
        /\ GetDistance(next, b) = Cost(Abs(p - Sign(p)), Abs(q - Sign(q)))
    BY <1>2, <1>4, <1>6, <2>1, <2>2
  <2>6. \/ Cost(Abs(e), Abs(f)) + Cost(Abs(p - e), Abs(q - f)) > Cost(Abs(p), Abs(q))
        \/ /\ Cost(Abs(e), Abs(f)) + Cost(Abs(p - e), Abs(q - f)) = Cost(Abs(p), Abs(q))
           /\ Cost(Abs(p - e), Abs(q - f)) > Cost(Abs(p - Sign(p)), Abs(q - Sign(q)))
    BY <1>3, <2>3, <2>4, BestNumbers
  <2> QED
    BY <2>5, <2>6
<1> QED
  BY <1>5, <1>7, <1>8 DEF next

\* The way goes on from each of its nodes as it would begin there.
LEMMA WayGoesOn ==
  ASSUME NEW a \in Nodes, NEW b \in Nodes, NEW i \in 0 .. StepsBetween(a, b) - 1
  PROVE  /\ OnWay(a, b, i + 1) = OnWay(OnWay(a, b, i), b, 1)
         /\ OnWay(a, b, i) # b
<1>1. a.x \in Int /\ a.y \in Int /\ b.x \in Int /\ b.y \in Int
  BY NodesAreIntegers
<1>2. StepsBetween(a, b) \in Nat /\ i \in Nat /\ i + 1 \in Nat /\ i < StepsBetween(a, b)
  BY WayEnds
<1>3. ASSUME NEW u \in Int, NEW v \in Int
      PROVE  Toward(u, v, i + 1) = Toward(Toward(u, v, i), v, 1)
  BY <1>2 DEF Toward, Lesser
<1>4. Toward(a.x, b.x, i) # b.x \/ Toward(a.y, b.y, i) # b.y
  BY <1>1, <1>2 DEF Toward, Lesser, StepsBetween, Greater, Abs
<1> QED
  BY <1>1, <1>3, <1>4 DEF OnWay

\* It comes nearer with every step.
LEMMA WayNearer ==
  ASSUME NEW a \in Nodes, NEW b \in Nodes, NEW j \in 0 .. StepsBetween(a, b), NEW i \in 0 .. j - 1
  PROVE  GetDistance(OnWay(a, b, j), b) < GetDistance(OnWay(a, b, i), b)
<1>1. a.x \in Int /\ a.y \in Int /\ b.x \in Int /\ b.y \in Int
  BY NodesAreIntegers
<1>2. PICK p, q : p = Abs(b.x - a.x) /\ q = Abs(b.y - a.y) /\ p \in Nat /\ q \in Nat
  BY <1>1 DEF Abs
<1>3. /\ i \in Nat /\ j \in Nat /\ i < j /\ j <= Greater(p, q)
  BY <1>1, <1>2, WayEnds DEF StepsBetween
<1>4. ASSUME NEW k \in Nat
      PROVE  GetDistance(OnWay(a, b, k), b) = Cost(p - Lesser(k, p), q - Lesser(k, q))
  <2>1. /\ Abs(OnWay(a, b, k).x - b.x) = p - Lesser(k, p)
        /\ Abs(OnWay(a, b, k).y - b.y) = q - Lesser(k, q)
    BY <1>1, <1>2, TowardIs DEF OnWay
  <2> QED
    BY <2>1 DEF GetDistance, Cost
<1>5. Cost(p - Lesser(j, p), q - Lesser(j, q)) < Cost(p - Lesser(i, p), q - Lesser(i, q))
  BY <1>2, <1>3 DEF Cost, Lesser, Greater
<1> QED
  BY <1>3, <1>4, <1>5

\* Two nodes of the way are as many steps apart as their places on it, and the
\* way is not longer than the grid.
LEMMA WayApart ==
  ASSUME NEW a \in Nodes, NEW b \in Nodes, NEW j \in 0 .. StepsBetween(a, b), NEW i \in 0 .. j
  PROVE  /\ StepsBetween(OnWay(a, b, i), OnWay(a, b, j)) = j - i
         /\ StepsBetween(a, b) <= GridSize - 1
<1>1. a.x \in Int /\ a.y \in Int /\ b.x \in Int /\ b.y \in Int
  BY NodesAreIntegers
<1>2. /\ i \in Nat /\ j \in Nat /\ i <= j /\ j <= StepsBetween(a, b)
  BY WayEnds
<1>3. ASSUME NEW u \in Int, NEW v \in Int
      PROVE  /\ Abs(Toward(u, v, j) - Toward(u, v, i)) <= j - i
             /\ Abs(v - u) >= j => Abs(Toward(u, v, j) - Toward(u, v, i)) = j - i
             /\ Abs(Toward(u, v, j) - Toward(u, v, i)) \in Nat
  BY <1>2 DEF Toward, Lesser, Abs
<1>4. Abs(b.x - a.x) >= j \/ Abs(b.y - a.y) >= j
  BY <1>1, <1>2 DEF StepsBetween, Greater, Abs
<1>5. StepsBetween(OnWay(a, b, i), OnWay(a, b, j)) = j - i
  <2> DEFINE dx == Abs(Toward(a.x, b.x, j) - Toward(a.x, b.x, i))
             dy == Abs(Toward(a.y, b.y, j) - Toward(a.y, b.y, i))
  <2>1. StepsBetween(OnWay(a, b, i), OnWay(a, b, j)) = Greater(dx, dy)
    BY DEF StepsBetween, OnWay
  <2>2. dx <= j - i /\ dy <= j - i /\ dx \in Nat /\ dy \in Nat
    BY <1>1, <1>3
  <2>3. dx = j - i \/ dy = j - i
    BY <1>1, <1>3, <1>4
  <2> HIDE DEF dx, dy
  <2> QED
    BY <1>2, <2>1, <2>2, <2>3 DEF Greater
<1>6. GridSize \in Int /\ a.x \in 0 .. GridSize - 1 /\ a.y \in 0 .. GridSize - 1
      /\ b.x \in 0 .. GridSize - 1 /\ b.y \in 0 .. GridSize - 1
  BY GridAssumption DEF GridSize, Round, Nodes
<1>7. StepsBetween(a, b) <= GridSize - 1
  BY <1>6 DEF StepsBetween, Greater, Abs
<1> QED
  BY <1>5, <1>7

LEMMA StepsOfNeighbour ==
  ASSUME NEW c \in Nodes, NEW n \in Nodes
  PROVE  /\ n \in GetNeighbours(c) <=> StepsBetween(c, n) = 1
         /\ n # c /\ Direction(c, n) = <<n.x - c.x, n.y - c.y>> => n \in GetNeighbours(c)
<1>1. c.x \in Int /\ c.y \in Int /\ n.x \in Int /\ n.y \in Int
  BY NodesAreIntegers
<1>2. n = c <=> n.x = c.x /\ n.y = c.y
  BY DEF Nodes
<1>3. n \in GetNeighbours(c) <=> n # c /\ Abs(n.x - c.x) <= 1 /\ Abs(n.y - c.y) <= 1
  BY DEF GetNeighbours
<1>4. n \in GetNeighbours(c) <=> StepsBetween(c, n) = 1
  BY <1>1, <1>2, <1>3 DEF StepsBetween, Greater, Abs
<1>5. ASSUME Direction(c, n) = <<n.x - c.x, n.y - c.y>>
      PROVE  Abs(n.x - c.x) <= 1 /\ Abs(n.y - c.y) <= 1
  <2>1. Sign(n.x - c.x) = n.x - c.x /\ Sign(n.y - c.y) = n.y - c.y
    BY <1>5 DEF Direction
  <2> QED
    BY <1>1, <2>1 DEF Sign, Abs
<1> QED
  BY <1>3, <1>4, <1>5

-----------------------------------------------------------------------------
(* What holds after k rounds of a search. *)

Way(i) == OnWay(startNode, targetNode, i)

Rounds(k) ==
  /\ closedSet = {Way(i) : i \in 0 .. k - 1}
  /\ Way(k) \in openSet
  /\ k = 0 => openSet = {startNode}
  /\ \A i \in 1 .. k : mParent[Way(i)] = Way(i - 1)
  /\ \A i \in 0 .. k :
       mActualCost[Way(i)] = mActualCost[startNode] + GetDistance(startNode, Way(i))
  /\ k > 0 => \A n \in openSet : mHeuristicCost[n] = GetDistance(n, targetNode)

OneWay ==
  searching => /\ startNode \in Nodes
               /\ \E k \in 0 .. StepsBetween(startNode, targetNode) : Rounds(k)

LEMMA WayFacts ==
  ASSUME Inv, searching, startNode \in Nodes
  PROVE  /\ targetNode \in Nodes
         /\ StepsBetween(startNode, targetNode) \in Nat
         /\ \A i \in Nat : Way(i) \in Nodes
         /\ Way(0) = startNode /\ Way(StepsBetween(startNode, targetNode)) = targetNode
  BY WayNodes, WayEnds DEF Inv, TypeOK, Way

\* The only best open node is the next one of the way.
LEMMA BestIsNext ==
  ASSUME Inv, searching, startNode \in Nodes,
         NEW k \in 0 .. StepsBetween(startNode, targetNode), Rounds(k),
         NEW current \in Best
  PROVE  current = Way(k)
<1> DEFINE N == StepsBetween(startNode, targetNode)
<1>1. /\ targetNode \in Nodes /\ N \in Nat /\ k \in Nat /\ k <= N
      /\ \A i \in Nat : Way(i) \in Nodes
      /\ Way(0) = startNode /\ Way(N) = targetNode
  BY WayFacts
<1>2. /\ current \in openSet /\ current \in Nodes /\ ~Better(Way(k), current)
      /\ openSet \cap closedSet = {} /\ openSet \subseteq Nodes
      /\ mActualCost \in [Nodes -> Nat]
  BY DEF Best, Rounds, Inv, TypeOK
<1>3. CASE k = 0
  BY <1>1, <1>2, <1>3 DEF Rounds
<1>4. ASSUME k > 0, current # Way(k) PROVE FALSE
  <2>1. current # startNode
    <3>1. startNode \in closedSet
      BY <1>1, <1>4 DEF Rounds
    <3> QED
      BY <1>2, <3>1
  <2>2. /\ mParent[current] \in closedSet
        /\ Direction(mParent[current], current)
             = <<current.x - mParent[current].x, current.y - mParent[current].y>>
        /\ mActualCost[current] = mActualCost[mParent[current]] + GetDistance(mParent[current], current)
    BY <1>2, <2>1 DEF Inv, ParentsLead, Seen
  <2>3. PICK j \in 0 .. k - 1 : mParent[current] = Way(j)
    BY <2>2 DEF Rounds
  <2>4. j \in Nat /\ j < N /\ j + 1 \in Nat /\ j + 1 <= k /\ j \in 0 .. N /\ j \in 0 .. k
    BY <1>1
  <2>5. Way(j) \in Nodes /\ current \in GetNeighbours(Way(j))
    BY <1>1, <1>2, <2>2, <2>3, <2>4, StepsOfNeighbour
  <2>6. Way(j) # targetNode /\ Way(j + 1) = OnWay(Way(j), targetNode, 1)
    BY <1>1, <2>4, WayGoesOn DEF Way
  <2>7. current # Way(j + 1)
    <3>1. CASE j + 1 = k
      BY <1>4, <3>1
    <3>2. CASE j + 1 < k
      <4>1. Way(j + 1) \in closedSet
        BY <1>1, <2>4, <3>2 DEF Rounds
      <4> QED
        BY <1>2, <4>1
    <3> QED
      BY <1>1, <2>4, <3>1, <3>2
  <2>8. \/ GetDistance(Way(j), current) + GetDistance(current, targetNode)
             > GetDistance(Way(j), targetNode)
        \/ /\ GetDistance(Way(j), current) + GetDistance(current, targetNode)
                = GetDistance(Way(j), targetNode)
           /\ GetDistance(current, targetNode) > GetDistance(Way(j + 1), targetNode)
    BY <1>1, <2>5, <2>6, <2>7, BestStep
  <2>9. GetDistance(Way(k), targetNode) <= GetDistance(Way(j + 1), targetNode)
    <3>1. CASE j + 1 = k
      <4>1. GetDistance(Way(k), targetNode) \in Nat
        BY <1>1, DistanceNat
      <4> QED
        BY <3>1, <4>1
    <3>2. CASE j + 1 < k
      <4>1. GetDistance(Way(k), targetNode) < GetDistance(Way(j + 1), targetNode)
        BY <1>1, <2>4, <3>2, WayNearer DEF Way
      <4> QED
        BY <1>1, <2>4, <4>1, DistanceNat
    <3> QED
      BY <1>1, <2>4, <3>1, <3>2
  <2>10. /\ GetDistance(startNode, Way(j)) + GetDistance(Way(j), targetNode)
              = GetDistance(startNode, targetNode)
         /\ GetDistance(startNode, Way(k)) + GetDistance(Way(k), targetNode)
              = GetDistance(startNode, targetNode)
    BY <1>1, <2>4, WayCost DEF Way
  <2>11. /\ mActualCost[current] = mActualCost[startNode] + GetDistance(startNode, Way(j))
                                     + GetDistance(Way(j), current)
         /\ mActualCost[Way(k)] = mActualCost[startNode] + GetDistance(startNode, Way(k))
         /\ mHeuristicCost[current] = GetDistance(current, targetNode)
         /\ mHeuristicCost[Way(k)] = GetDistance(Way(k), targetNode)
    BY <1>1, <1>2, <1>4, <2>2, <2>3, <2>4 DEF Rounds
  <2>12. /\ mActualCost[startNode] \in Nat
         /\ GetDistance(startNode, Way(j)) \in Nat /\ GetDistance(Way(j), current) \in Nat
         /\ GetDistance(current, targetNode) \in Nat /\ GetDistance(Way(j), targetNode) \in Nat
         /\ GetDistance(startNode, Way(k)) \in Nat /\ GetDistance(Way(k), targetNode) \in Nat
         /\ GetDistance(Way(j + 1), targetNode) \in Nat
         /\ GetDistance(startNode, targetNode) \in Nat
    BY <1>1, <1>2, <2>4, DistanceNat
  <2>13. Better(Way(k), current)
    BY <2>8, <2>9, <2>10, <2>11, <2>12 DEF Better, GetTotalCost
  <2> QED
    BY <1>2, <2>13
<1> QED
  BY <1>1, <1>3, <1>4

\* The round that closes the k-th node of the way opens the next one from there.
LEMMA RoundGoesOn ==
  ASSUME Inv, startNode \in Nodes,
         NEW k \in 0 .. StepsBetween(startNode, targetNode), Rounds(k), Expand(Way(k))
  PROVE  /\ k + 1 \in 0 .. StepsBetween(startNode, targetNode)
         /\ Rounds(k + 1)'
<1> DEFINE N == StepsBetween(startNode, targetNode)
           current == Way(k)
           next == Way(k + 1)
           g(n) == mActualCost[current] + GetDistance(current, n)
           reached == {n \in Considered(current) : IsCheaper(n, g(n))}
<1>1. /\ mActualCost' = [n \in Nodes |-> IF n \in reached THEN g(n) ELSE mActualCost[n]]
      /\ mHeuristicCost' = [n \in Nodes |-> IF n \in Considered(current) \ openSet
                                            THEN GetDistance(n, targetNode)
                                            ELSE mHeuristicCost[n]]
      /\ mParent' = [n \in Nodes |-> IF n \in reached THEN current ELSE mParent[n]]
      /\ openSet' = (openSet \ {current}) \union Considered(current)
      /\ closedSet' = closedSet \union {current}
      /\ UNCHANGED <<searching, startNode, targetNode, path, searches>>
      /\ searching /\ current \in openSet /\ current # targetNode
  BY DEF Expand, Best
<1>2. /\ targetNode \in Nodes /\ N \in Nat /\ k \in Nat /\ k <= N
      /\ \A i \in Nat : Way(i) \in Nodes
      /\ Way(0) = startNode /\ Way(N) = targetNode
  BY <1>1, WayFacts
<1>3. /\ openSet \cap closedSet = {} /\ openSet \subseteq Nodes /\ closedSet \subseteq Nodes
      /\ mActualCost \in [Nodes -> Nat]
  BY DEF Inv, TypeOK
<1>4. k < N /\ k + 1 \in 0 .. N
  BY <1>1, <1>2
<1>5. \A n \in Considered(current) : n \in GetNeighbours(current) /\ n \in Nodes
                                      /\ n # current /\ n \notin closedSet
  BY <1>2, ConsideredNodes
<1>6. next = OnWay(current, targetNode, 1) /\ current # targetNode
  BY <1>2, <1>4, WayGoesOn DEF Way
<1>7. /\ next \in Nodes /\ next \in GetNeighbours(current)
      /\ GetDistance(current, next) + GetDistance(next, targetNode)
           = GetDistance(current, targetNode)
  BY <1>2, <1>4, <1>6, BestStep
<1>8. \A i \in 0 .. k : next # Way(i)
  <2> SUFFICES ASSUME NEW i \in 0 .. k PROVE next # Way(i)
    OBVIOUS
  <2>1. GetDistance(next, targetNode) < GetDistance(Way(i), targetNode)
    BY <1>2, <1>4, WayNearer DEF Way
  <2>2. GetDistance(next, targetNode) \in Nat
    BY <1>2, <1>7, DistanceNat
  <2> QED
    BY <2>1, <2>2
<1>9. next \in Considered(current)
  BY <1>7, <1>8 DEF Considered, Rounds
<1>10. next \notin openSet
  <2> SUFFICES ASSUME next \in openSet PROVE FALSE
    OBVIOUS
  <2>1. k # 0
    BY <1>2, <1>8 DEF Rounds
  <2>2. next # startNode
    BY <1>2, <1>8
  <2>3. /\ mParent[next] \in closedSet
        /\ Direction(mParent[next], next) = <<next.x - mParent[next].x, next.y - mParent[next].y>>
    BY <1>1, <2>2 DEF Inv, ParentsLead, Seen
  <2>4. PICK j \in 0 .. k - 1 : mParent[next] = Way(j)
    BY <2>3 DEF Rounds
  <2>5. j \in Nat /\ j < k /\ j \in 0 .. k + 1 /\ j \in 0 .. k
    BY <1>2
  <2>6. next \in GetNeighbours(Way(j))
    BY <1>2, <1>7, <1>8, <2>3, <2>4, <2>5, StepsOfNeighbour
  <2>7. StepsBetween(Way(j), next) = k + 1 - j
    BY <1>2, <1>4, <2>5, WayApart DEF Way
  <2>8. StepsBetween(Way(j), next) = 1
    BY <1>2, <1>7, <2>5, <2>6, StepsOfNeighbour
  <2> QED
    BY <1>2, <2>5, <2>7, <2>8
<1>11. next \in reached
  BY <1>9, <1>10 DEF IsCheaper
<1>12. \A i \in 0 .. k : Way(i) \notin reached /\ Way(i) \in Nodes
  BY <1>2, <1>5 DEF Rounds
<1> HIDE DEF g, reached
<1>13. \A i \in Nat : Way(i)' = Way(i)
  BY <1>1 DEF Way
<1>14. closedSet' = {Way(i) : i \in 0 .. k}
  BY <1>1, <1>2 DEF Rounds
<1>15. \A i \in 1 .. k + 1 : mParent'[Way(i)] = Way(i - 1)
  <2>1. \A i \in 1 .. k : mParent'[Way(i)] = Way(i - 1)
    BY <1>1, <1>2, <1>12 DEF Rounds
  <2>2. mParent'[next] = current
    BY <1>1, <1>7, <1>11
  <2> QED
    BY <1>2, <2>1, <2>2
<1>16. \A i \in 0 .. k + 1 :
         mActualCost'[Way(i)] = mActualCost'[startNode] + GetDistance(startNode, Way(i))
  <2>1. \A i \in 0 .. k : mActualCost'[Way(i)] = mActualCost[Way(i)]
    BY <1>1, <1>2, <1>12
  <2>2. mActualCost'[startNode] = mActualCost[startNode]
    BY <1>2, <2>1
  <2>3. mActualCost'[next] = mActualCost[current] + GetDistance(current, next)
    BY <1>1, <1>7, <1>11 DEF g
  <2>4. mActualCost[current] = mActualCost[startNode] + GetDistance(startNode, current)
    BY <1>2 DEF Rounds
  <2>5. /\ GetDistance(startNode, current) + GetDistance(current, targetNode)
             = GetDistance(startNode, targetNode)
        /\ GetDistance(startNode, next) + GetDistance(next, targetNode)
             = GetDistance(startNode, targetNode)
    BY <1>2, <1>4, WayCost DEF Way
  <2>6. /\ mActualCost[startNode] \in Nat
        /\ GetDistance(startNode, current) \in Nat /\ GetDistance(current, next) \in Nat
        /\ GetDistance(current, targetNode) \in Nat /\ GetDistance(next, targetNode) \in Nat
        /\ GetDistance(startNode, next) \in Nat
    BY <1>2, <1>3, <1>7, DistanceNat
  <2>7. mActualCost'[next] = mActualCost'[startNode] + GetDistance(startNode, next)
    BY <1>7, <2>2, <2>3, <2>4, <2>5, <2>6
  <2>8. \A i \in 0 .. k : mActualCost'[Way(i)] = mActualCost'[startNode] + GetDistance(startNode, Way(i))
    BY <2>1, <2>2 DEF Rounds
  <2> QED
    BY <1>2, <2>7, <2>8
<1>17. \A n \in openSet' : mHeuristicCost'[n] = GetDistance(n, targetNode)
  <2> SUFFICES ASSUME NEW n \in openSet' PROVE mHeuristicCost'[n] = GetDistance(n, targetNode)
    OBVIOUS
  <2>1. CASE n \in Considered(current) \ openSet
    BY <1>1, <1>5, <2>1
  <2>2. CASE n \in openSet \ {current}
    <3>1. k > 0 /\ n \in Nodes
      BY <1>2, <1>3, <2>2 DEF Rounds
    <3> QED
      BY <1>1, <2>2, <3>1 DEF Rounds
  <2>3. CASE n \in Considered(current) /\ n \in openSet
    BY <1>5, <2>2, <2>3
  <2> QED
    BY <1>1, <2>1, <2>2, <2>3
<1>18. Rounds(k + 1)'
  <2>1. closedSet' = {Way(i)' : i \in 0 .. (k + 1) - 1}
    <3>1. \A i \in 0 .. k : Way(i)' = Way(i)
      BY <1>13
    <3>2. (k + 1) - 1 = k
      BY <1>2
    <3> HIDE DEF Way
    <3> QED
      BY <1>14, <3>1, <3>2
  <2>2. Way(k + 1)' \in openSet'
    BY <1>1, <1>2, <1>9, <1>13
  <2>3. k + 1 # 0
    BY <1>2
  <2>4. \A i \in 1 .. k + 1 : mParent'[Way(i)'] = Way(i - 1)'
    <3>1. \A i \in 1 .. k + 1 : Way(i)' = Way(i) /\ Way(i - 1)' = Way(i - 1)
      BY <1>2, <1>13
    <3> QED
      BY <1>15, <3>1
  <2>5. \A i \in 0 .. k + 1 :
          mActualCost'[Way(i)'] = mActualCost'[startNode'] + GetDistance(startNode', Way(i)')
    BY <1>1, <1>2, <1>13, <1>16
  <2>6. \A n \in openSet' : mHeuristicCost'[n] = GetDistance(n, targetNode')
    BY <1>1, <1>17
  <2> QED
    BY <2>1, <2>2, <2>3, <2>4, <2>5, <2>6 DEF Rounds
<1> QED
  BY <1>4, <1>18

LEMMA OneWayStep == Inv /\ OneWay /\ [Next]_vars => OneWay'
<1> SUFFICES ASSUME Inv, OneWay, [Next]_vars PROVE OneWay'
  OBVIOUS
<1>1. ASSUME NEW from \in Ends, NEW to \in Ends, FindPath(from, to) PROVE OneWay'
  <2>1. from \in Nodes /\ to \in Nodes
    BY SearchAssumption
  <2>2. startNode' = from /\ targetNode' = to /\ openSet' = {from} /\ closedSet' = {}
        /\ mActualCost' = mActualCost
    BY <1>1 DEF FindPath, kept
  <2>3. 0 \in 0 .. StepsBetween(startNode', targetNode')
    BY <2>1, <2>2, WayEnds
  <2>4. Way(0)' = from
    BY <2>1, <2>2, WayEnds DEF Way
  <2>5. GetDistance(from, from) = 0 /\ mActualCost[from] \in Nat
    BY <2>1, NodesAreIntegers DEF GetDistance, Abs, Inv, TypeOK
  <2>6. closedSet' = {Way(i)' : i \in 0 .. 0 - 1}
    BY <2>2
  <2>7. \A i \in 0 .. 0 :
          mActualCost'[Way(i)'] = mActualCost'[startNode'] + GetDistance(startNode', Way(i)')
    BY <2>2, <2>4, <2>5
  <2>8. Rounds(0)'
    BY <2>2, <2>4, <2>6, <2>7 DEF Rounds
  <2> QED
    BY <2>1, <2>2, <2>3, <2>8 DEF OneWay
<1>2. ASSUME NEW current \in openSet, Expand(current) PROVE OneWay'
  <2>1. searching /\ current \in Best /\ UNCHANGED <<startNode, targetNode>>
    BY <1>2 DEF Expand
  <2>2. PICK k \in 0 .. StepsBetween(startNode, targetNode) : Rounds(k)
    BY <2>1 DEF OneWay
  <2>3. startNode \in Nodes /\ current = Way(k)
    BY <2>1, <2>2, BestIsNext DEF OneWay
  <2>4. /\ k + 1 \in 0 .. StepsBetween(startNode, targetNode)
        /\ Rounds(k + 1)'
    BY <1>2, <2>2, <2>3, RoundGoesOn
  <2> QED
    BY <2>1, <2>3, <2>4 DEF OneWay
<1>3. ASSUME NEW current \in openSet, Found(current) PROVE OneWay'
  BY <1>3 DEF Found, OneWay
<1>4. CASE UNCHANGED vars
  BY <1>4 DEF vars, kept, OneWay, Rounds, Way
<1> QED
  BY <1>1, <1>2, <1>3, <1>4 DEF Next, Iteration

\* After k rounds a search has closed the first k nodes of one way to the target
\* and has nothing better to take than the next: whatever earlier searches left,
\* it takes as many rounds as the way has nodes (PathFinding.cpp:23-85).
THEOREM SearchGoesStraight == Spec => []OneWay
<1>1. Init => OneWay
  BY DEF Init, OneWay
<1> QED
  BY <1>1, OneWayStep, SearchInv, PTL DEF Spec

-----------------------------------------------------------------------------
(* How far costs can grow. *)

Longest == 14 * (GridSize - 1)

\* A search begins within what the earlier ones may have reached.
Budget ==
  /\ searching => searches > 0 /\ mActualCost[startNode] <= (searches - 1) * Longest
  /\ \A n \in Nodes : mActualCost[n] <= searches * Longest

LEMMA LongestNat == Longest \in Nat
  BY GridAssumption DEF Longest, GridSize, Round

LEMMA BudgetStep == Inv /\ OneWay /\ Budget /\ [Next]_vars => Budget'
<1> SUFFICES ASSUME Inv, OneWay, Budget, [Next]_vars PROVE Budget'
  OBVIOUS
<1>1. /\ Longest \in Nat /\ Longest' = Longest /\ searches \in Nat
      /\ mActualCost \in [Nodes -> Nat]
  BY LongestNat, SearchAssumption DEF Inv, TypeOK, Longest
<1>2. ASSUME NEW from \in Ends, NEW to \in Ends, FindPath(from, to) PROVE Budget'
  <2>1. from \in Nodes
    BY SearchAssumption
  <2>2. searches' = searches + 1 /\ startNode' = from /\ mActualCost' = mActualCost
    BY <1>2 DEF FindPath, kept
  <2>3. searches * Longest <= (searches + 1) * Longest
    BY <1>1
  <2>4. \A n \in Nodes : mActualCost[n] <= (searches + 1) * Longest
    <3>1. searches * Longest \in Int /\ (searches + 1) * Longest \in Int
      BY <1>1
    <3> QED
      BY <1>1, <2>3, <3>1 DEF Budget
  <2>5. (searches + 1) - 1 = searches /\ searches + 1 > 0
    BY <1>1
  <2> QED
    BY <1>1, <2>1, <2>2, <2>4, <2>5 DEF Budget
<1>3. ASSUME NEW current \in openSet, Expand(current) PROVE Budget'
  <2> DEFINE g(n) == mActualCost[current] + GetDistance(current, n)
             reached == {n \in Considered(current) : IsCheaper(n, g(n))}
  <2>1. /\ searching /\ current \in Best /\ current # targetNode
        /\ mActualCost' = [n \in Nodes |-> IF n \in reached THEN g(n) ELSE mActualCost[n]]
        /\ UNCHANGED <<searching, startNode, targetNode, searches>>
    BY <1>3 DEF Expand
  <2>2. PICK k \in 0 .. StepsBetween(startNode, targetNode) : Rounds(k)
    BY <2>1 DEF OneWay
  <2>3. startNode \in Nodes /\ current = Way(k)
    BY <2>1, <2>2, BestIsNext DEF OneWay
  <2>4. /\ targetNode \in Nodes /\ k \in Nat /\ k + 1 <= StepsBetween(startNode, targetNode)
        /\ k \in 0 .. StepsBetween(startNode, targetNode)
        /\ current \in Nodes
        /\ StepsBetween(startNode, targetNode) \in Nat
    BY <2>1, <2>2, <2>3, WayFacts
  <2>5. StepsBetween(startNode, targetNode) <= GridSize - 1
    BY <2>3, <2>4, WayApart
  <2>6. /\ mActualCost[current] = mActualCost[startNode] + GetDistance(startNode, current)
        /\ GetDistance(startNode, current) <= 14 * k
        /\ GetDistance(startNode, current) \in Nat
    <3>1. mActualCost[current] = mActualCost[startNode] + GetDistance(startNode, current)
      BY <2>2, <2>3, <2>4 DEF Rounds
    <3>2. GetDistance(startNode, current) <= 14 * k
      BY <2>3, <2>4, WayCost DEF Way
    <3> QED
      BY <2>3, <2>4, <3>1, <3>2, DistanceNat
  <2>7. (searches - 1) * Longest + Longest = searches * Longest
    BY <1>1
  <2>8. mActualCost[startNode] \in Nat /\ mActualCost[startNode] <= (searches - 1) * Longest
    BY <1>1, <2>1, <2>3 DEF Budget
  <2>9. ASSUME NEW n \in reached PROVE n \in Nodes /\ g(n) <= searches * Longest
    <3>1. n \in Nodes /\ n \in GetNeighbours(current)
      BY <2>4, <2>9, ConsideredNodes
    <3>2. GetDistance(current, n) \in 1 .. 14
      BY <2>4, <3>1, NeighbourCost
    <3>3. GridSize \in Int /\ 14 * k + 14 <= Longest
      BY <2>4, <2>5, GridAssumption DEF GridSize, Round, Longest
    <3>4. (searches - 1) * Longest \in Int /\ searches * Longest \in Int
      BY <1>1
    <3> HIDE DEF Longest
    <3> QED
      BY <1>1, <2>4, <2>6, <2>7, <2>8, <3>1, <3>2, <3>3, <3>4 DEF g
  <2>10. startNode \notin reached
    <3>1. CASE k = 0
      <4>1. current = startNode
        BY <2>3, <2>4, <3>1, WayEnds DEF Way
      <4> QED
        BY <4>1 DEF Considered, GetNeighbours
    <3>2. CASE k > 0
      <4>1. Way(0) = startNode
        BY <2>3, <2>4, WayEnds DEF Way
      <4>2. startNode \in closedSet
        BY <2>2, <2>4, <3>2, <4>1 DEF Rounds
      <4> QED
        BY <4>2 DEF Considered
    <3> QED
      BY <2>4, <3>1, <3>2
  <2> HIDE DEF reached, g
  <2>11. mActualCost'[startNode] = mActualCost[startNode]
    BY <2>1, <2>3, <2>10
  <2>12. \A n \in Nodes : mActualCost'[n] <= searches * Longest
    BY <2>1, <2>9 DEF Budget
  <2> QED
    BY <1>1, <2>1, <2>11, <2>12 DEF Budget
<1>4. ASSUME NEW current \in openSet, Found(current) PROVE Budget'
  BY <1>1, <1>4 DEF Found, kept, Budget
<1>5. CASE UNCHANGED vars
  BY <1>1, <1>5 DEF vars, kept, Budget
<1> QED
  BY <1>2, <1>3, <1>4, <1>5 DEF Next, Iteration

\* Costs grow by no more than the longest way of the grid with every search, for
\* every grid (PathFinding.cpp:61, Node.h:24-33).
THEOREM CostsStayBounded == Spec => []CostsBounded
<1>1. Init => Budget
  <2>1. 0 * Longest = 0
    BY LongestNat
  <2> QED
    BY <2>1 DEF Init, Budget
<1>2. Inv /\ Budget => CostsBounded
  <2> SUFFICES ASSUME Inv, Budget PROVE CostsBounded
    OBVIOUS
  <2>1. searches \in Nat /\ GridSize \in Int
    BY SearchAssumption, GridAssumption DEF Inv, TypeOK, GridSize, Round
  <2>2. searches * Longest = searches * 14 * (GridSize - 1)
    BY <2>1 DEF Longest
  <2> QED
    BY <2>2 DEF Budget, CostsBounded
<1> QED
  BY <1>1, <1>2, BudgetStep, SearchInv, SearchGoesStraight, PTL DEF Spec

-----------------------------------------------------------------------------
(* What a search returns. *)

\* The equation Back is chosen by.
Follow(f, i) ==
  IF i = 0 THEN targetNode ELSE IF f[i - 1] = startNode THEN startNode ELSE mParent[f[i - 1]]

Most == GridSize * GridSize

LEMMA BackEquation ==
  ASSUME NEW f, f = [i \in 0 .. Most |-> Follow(f, i)]
  PROVE  Back = [i \in 0 .. Most |-> Follow(Back, i)]
<1>1. Back = CHOOSE back : back = [i \in 0 .. Most |-> Follow(back, i)]
  BY DEF Back, Follow, Most
<1> QED
  BY <1>1

\* The nodes of the way are different.
LEMMA WayInjective ==
  ASSUME NEW a \in Nodes, NEW b \in Nodes,
         NEW j \in 0 .. StepsBetween(a, b), NEW i \in 0 .. StepsBetween(a, b),
         OnWay(a, b, i) = OnWay(a, b, j)
  PROVE  i = j
<1>1. i \in Nat /\ j \in Nat /\ OnWay(a, b, i) \in Nodes /\ OnWay(a, b, j) \in Nodes
  BY WayEnds, WayNodes
<1>2. \A c \in Nodes : StepsBetween(c, c) = 0
  BY NodesAreIntegers DEF StepsBetween, Greater, Abs
<1>3. CASE i <= j
  <2>1. StepsBetween(OnWay(a, b, i), OnWay(a, b, j)) = j - i
    BY <1>1, <1>3, WayApart
  <2> QED
    BY <1>1, <1>2, <2>1
<1>4. CASE j <= i
  <2>1. StepsBetween(OnWay(a, b, j), OnWay(a, b, i)) = i - j
    BY <1>1, <1>4, WayApart
  <2> QED
    BY <1>1, <1>2, <2>1
<1> QED
  BY <1>1, <1>3, <1>4

\* Following the parents from the target goes back over the way of the search.
LEMMA BackIsWay ==
  ASSUME Inv, searching, startNode \in Nodes,
         Rounds(StepsBetween(startNode, targetNode))
  PROVE  /\ DOMAIN Back = 0 .. Most
         /\ \A i \in 0 .. Most :
              Back[i] = IF i <= StepsBetween(startNode, targetNode)
                        THEN Way(StepsBetween(startNode, targetNode) - i) ELSE startNode
<1> DEFINE N == StepsBetween(startNode, targetNode)
           Expected(i) == IF i <= N THEN Way(N - i) ELSE startNode
           f == [i \in 0 .. Most |-> Expected(i)]
<1>1. /\ targetNode \in Nodes /\ N \in Nat
      /\ \A i \in Nat : Way(i) \in Nodes
      /\ Way(0) = startNode /\ Way(N) = targetNode
  BY WayFacts
<1>2. Most \in Nat
  BY GridAssumption DEF Most, GridSize, Round
<1>3. Expected(0) = targetNode
  BY <1>1
<1>4. ASSUME NEW i \in Nat, i # 0
      PROVE  Expected(i) = IF Expected(i - 1) = startNode THEN startNode ELSE mParent[Expected(i - 1)]
  <2>1. CASE i <= N
    <3>1. Expected(i - 1) = Way(N - i + 1) /\ Expected(i) = Way(N - i) /\ N - i + 1 \in 1 .. N
      BY <1>1, <1>4, <2>1
    <3>2. Way(N - i + 1) # startNode
      BY <1>1, <3>1, WayInjective DEF Way
    <3>3. mParent[Way(N - i + 1)] = Way(N - i)
      <4>1. mParent[Way(N - i + 1)] = Way((N - i + 1) - 1)
        BY <3>1 DEF Rounds
      <4>2. (N - i + 1) - 1 = N - i
        BY <1>1
      <4> QED
        BY <4>1, <4>2
    <3> QED
      BY <3>1, <3>2, <3>3
  <2>2. CASE i > N
    <3>1. Expected(i - 1) = startNode /\ Expected(i) = startNode
      BY <1>1, <1>4, <2>2
    <3> QED
      BY <3>1
  <2> QED
    BY <1>1, <2>1, <2>2
<1> HIDE DEF Expected
<1>5. f = [i \in 0 .. Most |-> Follow(f, i)]
  <2>1. ASSUME NEW i \in 0 .. Most PROVE Expected(i) = Follow(f, i)
    <3>1. CASE i = 0
      BY <1>3, <3>1 DEF Follow
    <3>2. CASE i # 0
      <4>1. i \in Nat /\ i - 1 \in 0 .. Most
        BY <1>2, <3>2
      <4>2. f[i - 1] = Expected(i - 1)
        BY <4>1
      <4> QED
        BY <1>4, <3>2, <4>1, <4>2 DEF Follow
    <3> QED
      BY <3>1, <3>2
  <2> QED
    BY <2>1
<1>6. Back = [i \in 0 .. Most |-> Follow(Back, i)]
  <2> HIDE DEF f
  <2> QED
    BY <1>5, BackEquation
<1> DEFINE T == {i \in Nat : i \in 0 .. Most => Back[i] = Expected(i)}
<1>7. 0 \in T
  BY <1>2, <1>3, <1>6 DEF Follow
<1>8. ASSUME NEW n \in Nat, n \in T PROVE n + 1 \in T
  <2> SUFFICES ASSUME n + 1 \in 0 .. Most PROVE Back[n + 1] = Expected(n + 1)
    OBVIOUS
  <2>1. n \in 0 .. Most /\ n + 1 # 0 /\ n + 1 \in Nat /\ (n + 1) - 1 = n
    BY <1>2
  <2>2. Back[n] = Expected(n)
    BY <1>8, <2>1
  <2>3. Back[n + 1] = Follow(Back, n + 1)
    BY <1>6
  <2> QED
    BY <1>4, <2>1, <2>2, <2>3 DEF Follow
<1>9. \A n \in Nat : n \in T
  <2> HIDE DEF T
  <2> QED
    BY <1>7, <1>8, Induction
<1>10. DOMAIN Back = 0 .. Most
  BY <1>6
<1> QED
  BY <1>9, <1>10 DEF Expected

Diagonal(a, b) == Lesser(Abs(b.x - a.x), Abs(b.y - a.y))

\* A search that ends has followed the way back to the start in as many steps.
LEMMA FoundAfterAll ==
  ASSUME Inv, OneWay, NEW current, Found(current)
  PROVE  LET N == StepsBetween(startNode, targetNode)
         IN /\ startNode \in Nodes /\ targetNode \in Nodes
            /\ \A i \in 0 .. N : Back[i] = Way(N - i)
            /\ path' \in RetracePath(Back, N)
<1> DEFINE N == StepsBetween(startNode, targetNode)
<1>1. searching /\ current \in Best /\ current = targetNode
  BY DEF Found
<1>2. PICK k \in 0 .. N : Rounds(k)
  BY <1>1 DEF OneWay
<1>3. startNode \in Nodes /\ Way(k) = targetNode
  BY <1>1, <1>2, BestIsNext DEF OneWay
<1>4. /\ targetNode \in Nodes /\ N \in Nat
      /\ \A i \in Nat : Way(i) \in Nodes
      /\ Way(0) = startNode /\ Way(N) = targetNode
  BY <1>1, <1>3, WayFacts
<1>5. k = N
  BY <1>3, <1>4, WayInjective DEF Way
<1>6. /\ DOMAIN Back = 0 .. Most
      /\ \A i \in 0 .. Most : Back[i] = IF i <= N THEN Way(N - i) ELSE startNode
  BY <1>1, <1>2, <1>3, <1>5, BackIsWay
<1>7. PICK steps \in DOMAIN Back :
        /\ Back[steps] = startNode /\ (steps > 0 => Back[steps - 1] # startNode)
        /\ path' \in RetracePath(Back, steps)
  BY DEF Found
<1>8. Most \in Nat /\ steps \in Nat /\ steps <= Most
  <2>1. Most \in Nat
    BY GridAssumption DEF Most, GridSize, Round
  <2> QED
    BY <1>6, <2>1
<1>9. steps = N
  <2>1. CASE steps < N
    <3>1. Way(N - steps) = startNode /\ N - steps \in 0 .. N /\ 0 \in 0 .. N
      BY <1>4, <1>6, <1>7, <1>8, <2>1
    <3>2. N - steps = 0
      BY <1>3, <1>4, <3>1, WayInjective DEF Way
    <3> QED
      BY <1>4, <1>8, <2>1, <3>2
  <2>2. CASE steps > N
    <3>1. steps - 1 \in 0 .. Most /\ steps > 0 /\ steps - 1 >= N
      BY <1>4, <1>8, <2>2
    <3>2. Back[steps - 1] = startNode
      <4>1. CASE steps - 1 = N
        <5>1. N - (steps - 1) = 0
          BY <1>4, <4>1
        <5> QED
          BY <1>4, <1>6, <3>1, <4>1, <5>1
      <4>2. CASE steps - 1 > N
        BY <1>4, <1>6, <3>1, <4>2
      <4> QED
        BY <1>4, <1>8, <3>1, <4>1, <4>2
    <3> QED
      BY <1>7, <3>1, <3>2
  <2> QED
    BY <1>4, <1>8, <2>1, <2>2
<1>10. \A i \in 0 .. N : Back[i] = Way(N - i)
  BY <1>4, <1>6, <1>8, <1>9
<1> QED
  BY <1>3, <1>4, <1>7, <1>9, <1>10

\* Beyond the first step back, the way changes its direction once at most: where
\* it is in line with the target.
LEMMA WayTurns ==
  ASSUME NEW a \in Nodes, NEW b \in Nodes, NEW j \in 1 .. StepsBetween(a, b) - 1
  PROVE  Direction(OnWay(a, b, j), OnWay(a, b, j - 1)) # Direction(OnWay(a, b, j + 1), OnWay(a, b, j))
           <=> j = Diagonal(a, b)
<1>1. a.x \in Int /\ a.y \in Int /\ b.x \in Int /\ b.y \in Int
  BY NodesAreIntegers
<1>2. StepsBetween(a, b) \in Nat /\ j \in Nat /\ j > 0 /\ j < StepsBetween(a, b) /\ j - 1 \in Nat
  BY WayEnds
<1>3. ASSUME NEW u \in Int, NEW v \in Int, NEW i \in Nat
      PROVE  Sign(Toward(u, v, i) - Toward(u, v, i + 1)) = IF i < Abs(v - u) THEN Sign(u - v) ELSE 0
  BY DEF Toward, Lesser, Abs, Sign
<1> DEFINE p == Abs(b.x - a.x)
           q == Abs(b.y - a.y)
<1>4. p \in Nat /\ q \in Nat /\ j < Greater(p, q) /\ Diagonal(a, b) = Lesser(p, q)
  BY <1>1, <1>2 DEF StepsBetween, Diagonal, Abs
<1>5. /\ p > 0 => Sign(a.x - b.x) # 0
      /\ q > 0 => Sign(a.y - b.y) # 0
  BY <1>1 DEF Sign, Abs
<1>6. ASSUME NEW i \in Nat
      PROVE  Direction(OnWay(a, b, i + 1), OnWay(a, b, i)) =
               <<IF i < p THEN Sign(a.x - b.x) ELSE 0, IF i < q THEN Sign(a.y - b.y) ELSE 0>>
  BY <1>1, <1>3 DEF Direction, OnWay
<1>7. (j - 1) + 1 = j
  BY <1>2
<1>8. /\ Direction(OnWay(a, b, j), OnWay(a, b, j - 1)) =
           <<IF j - 1 < p THEN Sign(a.x - b.x) ELSE 0, IF j - 1 < q THEN Sign(a.y - b.y) ELSE 0>>
      /\ Direction(OnWay(a, b, j + 1), OnWay(a, b, j)) =
           <<IF j < p THEN Sign(a.x - b.x) ELSE 0, IF j < q THEN Sign(a.y - b.y) ELSE 0>>
  BY <1>2, <1>6, <1>7
<1> HIDE DEF p, q
<1> QED
  BY <1>2, <1>4, <1>5, <1>8 DEF Greater, Lesser

\* The turning points of the way, the target last.
Corners(a, b) ==
  IF a = b THEN <<>>
  ELSE IF Diagonal(a, b) \in 1 .. StepsBetween(a, b) - 1
       THEN <<OnWay(a, b, Diagonal(a, b)), b>>
       ELSE <<b>>

LEMMA RetracedIs ==
  ASSUME NEW a \in Nodes, NEW b \in Nodes, NEW back,
         \A i \in 0 .. StepsBetween(a, b) : back[i] = OnWay(a, b, StepsBetween(a, b) - i),
         NEW p \in RetracePath(back, StepsBetween(a, b))
  PROVE  p = Corners(a, b)
<1> DEFINE N == StepsBetween(a, b)
           M == Diagonal(a, b)
           corners == {i \in 0 .. N - 1 : Turns(back, i)}
<1>1. /\ N \in Nat /\ (a = b <=> N = 0)
      /\ OnWay(a, b, 0) = a /\ OnWay(a, b, N) = b
  <2>1. a = b => N = 0
    BY NodesAreIntegers DEF StepsBetween, Greater, Abs
  <2> QED
    BY <2>1, WayEnds
<1>2. M \in Nat
  BY NodesAreIntegers DEF Diagonal, Lesser, Abs
<1>3. PICK turns \in [1 .. Cardinality(corners) -> corners] :
        /\ \A k, l \in DOMAIN turns : k < l => turns[k] > turns[l]
        /\ p = [k \in DOMAIN turns |-> back[turns[k]]]
  BY DEF RetracePath
<1>4. ASSUME NEW i \in 1 .. N - 1 PROVE Turns(back, i) <=> i = N - M
  <2>1. N - i \in 1 .. N - 1 /\ i # 0 /\ i - 1 \in 0 .. N /\ i \in 0 .. N /\ i + 1 \in 0 .. N
        /\ N - (i - 1) = (N - i) + 1 /\ N - (i + 1) = (N - i) - 1
    BY <1>1
  <2>2. /\ back[i] = OnWay(a, b, N - i)
        /\ back[i - 1] = OnWay(a, b, (N - i) + 1)
        /\ back[i + 1] = OnWay(a, b, (N - i) - 1)
    BY <2>1
  <2>3. Turns(back, i) <=> N - i = M
    BY <2>1, <2>2, WayTurns DEF Turns
  <2> QED
    BY <1>1, <1>2, <2>1, <2>3
<1>5. 0 \in 0 .. N - 1 => Turns(back, 0)
  BY DEF Turns
<1> HIDE DEF corners, N, M
<1>6. CASE N = 0
  <2>1. corners = {}
    BY <1>6 DEF corners
  <2>2. Cardinality(corners) = 0
    BY <2>1, FS_EmptySet
  <2>3. DOMAIN turns = {}
    BY <1>3, <2>2
  <2>4. p = <<>>
    BY <1>3, <2>3
  <2> QED
    BY <1>1, <1>6, <2>4 DEF Corners
<1>7. CASE N > 0 /\ M \notin 1 .. N - 1
  <2>1. corners = {0}
    <3>1. 0 \in corners
      BY <1>1, <1>5, <1>7 DEF corners
    <3>2. ASSUME NEW i \in corners PROVE i = 0
      <4>1. i \in 0 .. N - 1 /\ Turns(back, i)
        BY DEF corners
      <4> QED
        BY <1>1, <1>2, <1>4, <1>7, <4>1
    <3> QED
      BY <3>1, <3>2
  <2>2. Cardinality(corners) = 1
    BY <2>1, FS_Singleton
  <2>3. DOMAIN turns = 1 .. 1 /\ turns[1] = 0
    BY <1>3, <2>1, <2>2
  <2>4. back[0] = b
    BY <1>1 DEF N
  <2>5. p = [k \in 1 .. 1 |-> b]
    BY <1>3, <2>3, <2>4
  <2>6. p = <<b>>
    BY <2>5
  <2> QED
    BY <1>1, <1>7, <2>6 DEF Corners, M, N
<1>8. CASE M \in 1 .. N - 1
  <2>1. corners = {0, N - M} /\ N - M # 0 /\ N - M \in Nat
    <3>1. 0 \in corners /\ N - M # 0 /\ N - M \in 1 .. N - 1
      BY <1>1, <1>2, <1>5, <1>8 DEF corners
    <3>2. N - M \in corners
      BY <1>1, <1>4, <3>1 DEF corners
    <3>3. ASSUME NEW i \in corners PROVE i = 0 \/ i = N - M
      <4>1. i \in 0 .. N - 1 /\ Turns(back, i)
        BY DEF corners
      <4> QED
        BY <1>1, <1>4, <4>1
    <3> QED
      BY <3>1, <3>2, <3>3
  <2>2. Cardinality(corners) = 2
    <3>1. IsFiniteSet({0}) /\ Cardinality({0}) = 1
      BY FS_Singleton
    <3>2. N - M \notin {0}
      BY <2>1
    <3> HIDE DEF N, M
    <3>3. Cardinality({0} \union {N - M}) = Cardinality({0}) + 1
      BY <3>1, <3>2, FS_AddElement
    <3>4. corners = {0} \union {N - M}
      BY <2>1
    <3> QED
      BY <3>1, <3>3, <3>4
  <2>3. /\ DOMAIN turns = 1 .. 2 /\ turns[1] > turns[2]
        /\ turns[1] \in {0, N - M} /\ turns[2] \in {0, N - M}
    <3>1. turns \in [1 .. 2 -> {0, N - M}]
      BY <1>3, <2>1, <2>2
    <3>2. DOMAIN turns = 1 .. 2
      BY <3>1
    <3>3. 1 \in 1 .. 2 /\ 2 \in 1 .. 2 /\ 1 < 2
      OBVIOUS
    <3>4. turns[1] > turns[2]
      BY <1>3, <3>2, <3>3
    <3> QED
      BY <3>1, <3>2, <3>3, <3>4
  <2>4. turns[1] = N - M /\ turns[2] = 0
    BY <2>1, <2>3
  <2>5. back[0] = b /\ back[N - M] = OnWay(a, b, M)
    <3>1. N - M \in 0 .. N /\ 0 \in 0 .. N /\ N - (N - M) = M /\ N - 0 = N
      BY <1>1, <1>2, <1>8
    <3> QED
      BY <1>1, <3>1 DEF N
  <2>6. p = <<OnWay(a, b, M), b>>
    <3>1. DOMAIN p = 1 .. 2 /\ p[1] = OnWay(a, b, M) /\ p[2] = b /\ p = [k \in 1 .. 2 |-> p[k]]
      BY <1>3, <2>3, <2>4, <2>5
    <3> QED
      BY <3>1
  <2> QED
    BY <1>1, <1>8, <2>6 DEF Corners, M, N
<1> QED
  BY <1>1, <1>6, <1>7, <1>8

\* What the last search returned.
Returned ==
  /\ searching => searches # 0
  /\ searching \/ searches = 0 => path = <<>>
  /\ ~searching /\ searches > 0 =>
       startNode \in Nodes /\ targetNode \in Nodes /\ path = Corners(startNode, targetNode)

LEMMA ReturnedStep == Inv /\ OneWay /\ Returned /\ [Next]_vars => Returned'
<1> SUFFICES ASSUME Inv, OneWay, Returned, [Next]_vars PROVE Returned'
  OBVIOUS
<1>1. ASSUME NEW from \in Ends, NEW to \in Ends, FindPath(from, to) PROVE Returned'
  <2>1. searching' /\ path' = <<>> /\ searches' # 0
    BY <1>1, SearchAssumption DEF FindPath, Inv, TypeOK
  <2> QED
    BY <2>1 DEF Returned
<1>2. ASSUME NEW current \in openSet, Expand(current) PROVE Returned'
  BY <1>2 DEF Expand, Returned
<1>3. ASSUME NEW current \in openSet, Found(current) PROVE Returned'
  <2>1. startNode' = startNode /\ targetNode' = targetNode /\ ~searching'
        /\ searches' # 0
    BY <1>3 DEF Found, Returned
  <2>2. /\ startNode \in Nodes /\ targetNode \in Nodes
        /\ \A i \in 0 .. StepsBetween(startNode, targetNode) :
             Back[i] = OnWay(startNode, targetNode, StepsBetween(startNode, targetNode) - i)
        /\ path' \in RetracePath(Back, StepsBetween(startNode, targetNode))
    BY <1>3, FoundAfterAll DEF Way
  <2>3. path' = Corners(startNode, targetNode)
    BY <2>2, RetracedIs
  <2> QED
    BY <2>1, <2>2, <2>3 DEF Returned
<1>4. CASE UNCHANGED vars
  BY <1>4 DEF vars, Returned
<1> QED
  BY <1>1, <1>2, <1>3, <1>4 DEF Next, Iteration

\* Every search, whatever the ones before it left, returns the point where the
\* diagonal ends, if there is one before the target, and the target
\* (PathFinding.cpp:13-120).
THEOREM SearchReturnsCorners == Spec => []Returned
<1>1. Init => Returned
  BY DEF Init, Returned
<1> QED
  BY <1>1, ReturnedStep, SearchInv, SearchGoesStraight, PTL DEF Spec

\* However large the grid, a path has two points at most and fits the array of 50
\* that PathFind and Update write it to (World.cpp:166, 250).
THEOREM PathsFit == Spec => []PathFits
<1>1. Inv /\ Returned => PathFits
  <2> SUFFICES ASSUME Inv, Returned PROVE PathFits
    OBVIOUS
  <2>1. searching \in BOOLEAN /\ searches \in Nat
    BY SearchAssumption DEF Inv, TypeOK
  <2>2. CASE searching \/ searches = 0
    BY <2>2 DEF Returned, PathFits
  <2>3. CASE ~searching /\ searches > 0
    <3>1. path = Corners(startNode, targetNode)
      BY <2>3 DEF Returned
    <3> QED
      BY <3>1 DEF Corners, PathFits
  <2> QED
    BY <2>1, <2>2, <2>3
<1> QED
  BY <1>1, SearchInv, SearchReturnsCorners, PTL

\* Both ways of counting a straight stretch agree.
LEMMA OctileIsDistance ==
  ASSUME NEW a \in Nodes, NEW b \in Nodes
  PROVE  Octile(a, b) = GetDistance(a, b)
  BY NodesAreIntegers DEF Octile, GetDistance, Greater, Lesser, Abs

\* The way to the corner is a diagonal, the rest is in line.
LEMMA CornerStraight ==
  ASSUME NEW a \in Nodes, NEW b \in Nodes
  PROVE  /\ Straight(a, OnWay(a, b, Diagonal(a, b)))
         /\ Straight(OnWay(a, b, Diagonal(a, b)), b)
         /\ Diagonal(a, b) \in 0 .. StepsBetween(a, b)
         /\ Diagonal(a, b) \notin 1 .. StepsBetween(a, b) - 1 => Straight(a, b)
<1>1. a.x \in Int /\ a.y \in Int /\ b.x \in Int /\ b.y \in Int
  BY NodesAreIntegers
<1> DEFINE p == Abs(b.x - a.x)
           q == Abs(b.y - a.y)
           M == Diagonal(a, b)
           c == OnWay(a, b, M)
<1>2. p \in Nat /\ q \in Nat /\ M = Lesser(p, q) /\ StepsBetween(a, b) = Greater(p, q)
  BY <1>1 DEF Abs, Diagonal, StepsBetween
<1>3. M \in Nat /\ M <= p /\ M <= q /\ M <= Greater(p, q) /\ (M = p \/ M = q)
  BY <1>2 DEF Lesser, Greater
<1>4. /\ Abs(a.x - c.x) = M /\ Abs(a.y - c.y) = M
      /\ M = p => c.x = b.x
      /\ M = q => c.y = b.y
  <2>1. ASSUME NEW u \in Int, NEW v \in Int, M <= Abs(v - u)
        PROVE  /\ Abs(u - Toward(u, v, M)) = M
               /\ M = Abs(v - u) => Toward(u, v, M) = v
    <3> HIDE DEF M
    <3> QED
      BY <1>3, <2>1 DEF Toward, Lesser, Abs
  <2> HIDE DEF M
  <2>2. c.x = Toward(a.x, b.x, M) /\ c.y = Toward(a.y, b.y, M)
    BY DEF OnWay
  <2> HIDE DEF c
  <2> QED
    BY <1>1, <1>3, <2>1, <2>2
<1>5. M \notin 1 .. Greater(p, q) - 1 => Straight(a, b)
  <2>1. M \notin 1 .. Greater(p, q) - 1 => p = 0 \/ q = 0 \/ p = q
    BY <1>2, <1>3 DEF Lesser, Greater
  <2>2. Abs(a.x - b.x) = p /\ Abs(a.y - b.y) = q
    BY <1>1 DEF Abs
  <2>3. (p = 0 => a.x = b.x) /\ (q = 0 => a.y = b.y)
    BY <1>1 DEF Abs
  <2> QED
    BY <2>1, <2>2, <2>3 DEF Straight
<1>6. Straight(a, c)
  BY <1>4 DEF Straight
<1>7. Straight(c, b)
  BY <1>3, <1>4 DEF Straight
<1> QED
  BY <1>2, <1>3, <1>5, <1>6, <1>7

\* The equation the length of the walk is chosen by.
Sofar(f, i) == IF i = 1 THEN 0 ELSE f[i - 1] + Octile(Walk[i - 1], Walk[i])

LEMMA LengthEquation ==
  ASSUME NEW f, f = [i \in 1 .. Len(Walk) |-> Sofar(f, i)]
  PROVE  \E g : g = [i \in 1 .. Len(Walk) |-> Sofar(g, i)] /\ LengthOfWalk = g[Len(Walk)]
<1> DEFINE g == CHOOSE g : g = [i \in 1 .. Len(Walk) |-> Sofar(g, i)]
<1>1. LengthOfWalk = g[Len(Walk)]
  BY DEF LengthOfWalk, Sofar
<1>2. g = [i \in 1 .. Len(Walk) |-> Sofar(g, i)]
  OBVIOUS
<1> QED
  BY <1>1, <1>2

\* A walk of one, two or three nodes is as long as its stretches.
LEMMA LengthIs ==
  ASSUME NEW n \in {1, 2, 3}, Len(Walk) = n
  PROVE  LengthOfWalk = IF n = 1 THEN 0
                        ELSE IF n = 2 THEN 0 + Octile(Walk[1], Walk[2])
                        ELSE 0 + Octile(Walk[1], Walk[2]) + Octile(Walk[2], Walk[3])
<1> DEFINE f1 == 0
           f2 == f1 + Octile(Walk[1], Walk[2])
           f3 == f2 + Octile(Walk[2], Walk[3])
           f == [i \in 1 .. n |-> IF i = 1 THEN f1 ELSE IF i = 2 THEN f2 ELSE f3]
<1>1. ASSUME NEW i \in 1 .. n PROVE f[i] = Sofar(f, i)
  <2>1. i \in {1, 2, 3} /\ 1 \in 1 .. n /\ (i = 3 => 2 \in 1 .. n)
    OBVIOUS
  <2>2. f[1] = f1 /\ (i = 2 => f[2] = f2) /\ (i = 3 => f[2] = f2 /\ f[3] = f3)
    BY <2>1
  <2> HIDE DEF f
  <2> QED
    BY <2>1, <2>2 DEF Sofar
<1>2. f = [i \in 1 .. n |-> Sofar(f, i)]
  BY <1>1
<1>3. PICK g : g = [i \in 1 .. n |-> Sofar(g, i)] /\ LengthOfWalk = g[n]
  <2> HIDE DEF f
  <2> QED
    BY <1>2, LengthEquation
<1>4. \A i \in 1 .. n : g[i] = Sofar(g, i)
  BY <1>3
<1>5. 1 \in 1 .. n /\ (n # 1 => 2 \in 1 .. n) /\ (n = 3 => 3 \in 1 .. n)
  OBVIOUS
<1>6. g[1] = 0
  BY <1>4, <1>5 DEF Sofar
<1>7. n # 1 => g[2] = g[1] + Octile(Walk[1], Walk[2])
  BY <1>4, <1>5 DEF Sofar
<1>8. n = 3 => g[3] = g[2] + Octile(Walk[2], Walk[3])
  BY <1>4, <1>5 DEF Sofar
<1> QED
  BY <1>3, <1>6, <1>7, <1>8

LEMMA ReturnedShortest == Inv /\ Returned => ShortestPath
<1> SUFFICES ASSUME Inv, Returned, ~searching, searches > 0
             PROVE  /\ Walk[Len(Walk)] = targetNode
                    /\ \A i \in DOMAIN path : Walk[i] # Walk[i + 1] /\ Straight(Walk[i], Walk[i + 1])
                    /\ LengthOfWalk = Octile(startNode, targetNode)
  BY DEF ShortestPath
<1> DEFINE a == startNode
           b == targetNode
           N == StepsBetween(a, b)
           M == Diagonal(a, b)
           corner == OnWay(a, b, M)
<1>1. a \in Nodes /\ b \in Nodes /\ path = Corners(a, b)
  BY DEF Returned
<1>2. /\ N \in Nat /\ M \in 0 .. N /\ M \in Nat
      /\ Straight(a, corner) /\ Straight(corner, b)
      /\ M \notin 1 .. N - 1 => Straight(a, b)
      /\ corner \in Nodes
  BY <1>1, WayEnds, CornerStraight, WayNodes
<1>3. Octile(a, b) \in Nat
  BY <1>1, OctileIsDistance, DistanceNat
<1>4. CASE a = b
  <2>1. path = <<>> /\ Walk = <<a>>
    BY <1>1, <1>4 DEF Corners, Walk
  <2>2. Len(Walk) = 1 /\ Walk[1] = b
    BY <1>4, <2>1
  <2>3. LengthOfWalk = 0
    BY <2>2, LengthIs
  <2>4. Octile(a, b) = 0
    BY <1>1, <1>4, NodesAreIntegers DEF Octile, Greater, Lesser, Abs
  <2> QED
    BY <2>1, <2>2, <2>3, <2>4
<1>5. CASE a # b /\ M \notin 1 .. N - 1
  <2>1. path = <<b>> /\ <<b>> \in Seq(Nodes) /\ Len(<<b>>) = 1
    BY <1>1, <1>5 DEF Corners
  <2>2. Len(Walk) = 2 /\ Walk[1] = a /\ Walk[2] = b
    <3>1. <<a>> \in Seq(Nodes) /\ Len(<<a>>) = 1 /\ Walk = <<a>> \o <<b>>
      BY <1>1, <2>1 DEF Walk
    <3> QED
      BY <2>1, <3>1, ConcatProperties
  <2>3. LengthOfWalk = 0 + Octile(a, b)
    BY <2>2, LengthIs
  <2>4. DOMAIN path = {1}
    BY <2>1
  <2> QED
    BY <1>2, <1>3, <1>5, <2>2, <2>3, <2>4
<1>6. CASE a # b /\ M \in 1 .. N - 1
  <2>1. path = <<corner, b>> /\ <<corner, b>> \in Seq(Nodes) /\ Len(<<corner, b>>) = 2
    BY <1>1, <1>2, <1>6 DEF Corners
  <2>2. Len(Walk) = 3 /\ Walk[1] = a /\ Walk[2] = corner /\ Walk[3] = b
    <3>1. <<a>> \in Seq(Nodes) /\ Len(<<a>>) = 1 /\ Walk = <<a>> \o <<corner, b>>
      BY <1>1, <2>1 DEF Walk
    <3> QED
      BY <2>1, <3>1, ConcatProperties
  <2>3. LengthOfWalk = 0 + Octile(a, corner) + Octile(corner, b)
    BY <2>2, LengthIs
  <2>4. Octile(a, corner) + Octile(corner, b) = Octile(a, b)
        /\ Octile(a, corner) \in Nat /\ Octile(corner, b) \in Nat
    BY <1>1, <1>2, WayCost, OctileIsDistance, DistanceNat
  <2>5. corner # a /\ corner # b
    <3>1. /\ 0 \in 0 .. N /\ N \in 0 .. N /\ M # 0 /\ M # N
          /\ OnWay(a, b, 0) = a /\ OnWay(a, b, N) = b
      BY <1>1, <1>2, <1>6, WayEnds
    <3> QED
      BY <1>1, <1>2, <3>1, WayInjective
  <2>6. DOMAIN path = {1, 2}
    BY <2>1
  <2> QED
    BY <1>2, <2>2, <2>3, <2>4, <2>5, <2>6
<1> QED
  BY <1>4, <1>5, <1>6

\* Every search returns a shortest way of straight stretches to the target, for
\* every grid and after any searches before it (PathFinding.cpp:13-120).
THEOREM PathsAreShortest == Spec => []ShortestPath
  BY ReturnedShortest, SearchInv, SearchReturnsCorners, PTL
=============================================================================
