-------------------------------- MODULE AOI ---------------------------------
(***************************************************************************)
(* The AOI component of the server (Server/AOI.cpp): square groups of      *)
(* nodes, each with the ids of the entities placed in it, so that a search *)
(* around a position looks at a few groups and not at every entity.        *)
(***************************************************************************)
EXTENDS Grid

CONSTANT GroupScale   \* nodes along the side of a group (5)

GroupSize == NodeSize * GroupScale
GroupCount == Round(WorldSize, GroupSize)

ASSUME AOIAssumption ==
  /\ GroupScale \in Nat \ {0}
  \* lround must not lose the last, partial group: the code has 600 = 6 * 100
  /\ WorldSize <= GroupCount * GroupSize

GroupIds == 0 .. GroupCount * GroupCount - 1

NoGroup == -1         \* UINT32_MAX in mNodeGroupId

VARIABLES
  mGroups,            \* NodeGroup::mEntityIds of every group
  mNodeGroupId        \* Entity::mNodeGroupId of every entity

\* floorf(coordinate / mGroupSize); \div rounds down.
GroupCoordinate(v) == v \div GroupSize

GroupIdOf(p) == GroupCoordinate(p.y) * GroupCount + GroupCoordinate(p.x)

\* Variant with a fault: the old group is not left.
PlaceWithoutLeaving(position) ==
  /\ mGroups' = [g \in GroupIds |->
       mGroups[g] \union {e \in DOMAIN position : GroupIdOf(position[e]) = g}]
  /\ mNodeGroupId' = [e \in DOMAIN position |-> GroupIdOf(position[e])]

\* PlaceEntityInGroup: an entity missing from the group it stands in leaves
\* the group it was in, if any, and joins that one.  An entity touches only
\* its own membership, so the loop over the entities is one simultaneous step.
PlaceEntityInGroup(position) ==
  LET Entities == DOMAIN position
      Moved == {e \in Entities : e \notin mGroups[GroupIdOf(position[e])]}
      Left(g) == {e \in Moved : mNodeGroupId[e] = g}
      Joined(g) == {e \in Moved : GroupIdOf(position[e]) = g}
  IN /\ mGroups' = [g \in GroupIds |-> (mGroups[g] \ Left(g)) \union Joined(g)]
     /\ mNodeGroupId' =
          [e \in Entities |-> IF e \in Moved THEN GroupIdOf(position[e])
                                             ELSE mNodeGroupId[e]]

\* Variant: the last group of the span is taken for its end.
GroupSpanShort(lo, hi) ==
  {g \in 0 .. GroupCount - 1 : GroupCoordinate(lo) <= g /\ g < GroupCoordinate(hi)}

\* The group coordinates a search over lo .. hi looks at, cut at the world.
GroupSpan(lo, hi) ==
  {g \in 0 .. GroupCount - 1 : GroupCoordinate(lo) <= g /\ g <= GroupCoordinate(hi)}

\* GetNodeGroupInRange: the ids of the groups the square around p touches.
GetNodeGroupInRange(p, range) ==
  {gy * GroupCount + gx : gx \in GroupSpan(p.x - range, p.x + range),
                          gy \in GroupSpan(p.y - range, p.y + range)}
=============================================================================
