---------------------------- MODULE WorldProofs -----------------------------
(***************************************************************************)
(* Sight in the server's world, for any number of entities and clients,    *)
(* any distances and both builds: who is shown to whom is written down     *)
(* consistently and is exactly who stands in range.                        *)
(*                                                                         *)
(* No conjunct of Inv is inductive alone.  An Update finds sight exact     *)
(* because the groups are (GroupsMatch) and the search covers the range    *)
(* (SearchCovers); it finds who must be told of a disappearance because    *)
(* sessions name entities one to one (SessionsMatch, ViewersEntered); and  *)
(* viewers stay dual to monitors because every change is made on both.     *)
(*                                                                         *)
(* On it rest the statements about steps: whom a path or a position is     *)
(* sent to, and that the notices a client gets are those Visibility asks   *)
(* for.                                                                    *)
(***************************************************************************)
EXTENDS World, SequenceTheorems, FiniteSetTheorems, TLAPS

\* Every viewer's session has entered the world.
ViewersEntered == \A e \in Entities : mViewer[e] \subseteq DOMAIN mSessionToEntity

Inv ==
  /\ TypeOK
  /\ SessionsMatch
  /\ ViewersEntered
  /\ ViewerMonitorDual
  /\ SightExact
  /\ GroupsMatch

-----------------------------------------------------------------------------
(* The search through groups misses nobody: for every size of world, node  *)
(* and group, whoever stands within range of a position stands in a group  *)
(* that GetNodeGroupInRange returns.                                       *)

\* The places an entity can be: the world's inside.
Inside == [x : 0 .. WorldSize - 1, y : 0 .. WorldSize - 1]

\* Division by a positive number keeps the order (floorf of a quotient).
LEMMA DivMonotone ==
  ASSUME NEW a \in Int, NEW b \in Int, NEW d \in Nat \ {0}, a <= b
  PROVE  a \div d <= b \div d
  OBVIOUS

\* Groups have a size, and the world a number of them.
LEMMA GroupsExist == GroupSize \in Nat \ {0} /\ GroupCount \in Int
  BY GridAssumption, AOIAssumption DEF GroupSize, GroupCount, Round

\* A coordinate of the world falls in one of the groups.
LEMMA CoordinateInWorld ==
  ASSUME NEW v \in 0 .. WorldSize - 1
  PROVE  GroupCoordinate(v) \in 0 .. GroupCount - 1
  BY GridAssumption, AOIAssumption, GroupsExist DEF GroupCoordinate

\* Within a circle is within the square around it.
LEMMA CircleInSquare ==
  ASSUME NEW p \in Vector2f, NEW q \in Vector2f, NEW r \in Nat, Within(p, q, r)
  PROVE  /\ p.x - r <= q.x /\ q.x <= p.x + r
         /\ p.y - r <= q.y /\ q.y <= p.y + r
  BY DEF Within, DistanceSquared, Vector2f

\* Every position of the world belongs to a group that exists, so
\* PlaceEntityInGroup (AOI.cpp:36) never looks up a group that does not.
THEOREM GroupIdExists ==
  ASSUME NEW p \in Inside
  PROVE  GroupIdOf(p) \in GroupIds
<1> DEFINE gx == GroupCoordinate(p.x)
           gy == GroupCoordinate(p.y)
<1>1. gx \in 0 .. GroupCount - 1 /\ gy \in 0 .. GroupCount - 1
  BY CoordinateInWorld DEF Inside
<1>2. GroupIdOf(p) = gy * GroupCount + gx
  BY DEF GroupIdOf
<1> HIDE DEF gx, gy
<1>3. gy * GroupCount <= (GroupCount - 1) * GroupCount /\ gy * GroupCount >= 0
  BY <1>1, GroupsExist
<1> QED
  BY <1>1, <1>2, <1>3, GroupsExist DEF GroupIds

\* A coordinate no further than `range` from another lies in its span.
LEMMA SpanCovers ==
  ASSUME NEW u \in Int, NEW v \in 0 .. WorldSize - 1, NEW range \in Nat,
         u - range <= v, v <= u + range
  PROVE  GroupCoordinate(v) \in GroupSpan(u - range, u + range)
<1>1. GroupCoordinate(u - range) <= GroupCoordinate(v)
  BY DivMonotone, GroupsExist, GridAssumption DEF GroupCoordinate
<1>2. GroupCoordinate(v) <= GroupCoordinate(u + range)
  BY DivMonotone, GroupsExist, GridAssumption DEF GroupCoordinate
<1> QED
  BY <1>1, <1>2, CoordinateInWorld DEF GroupSpan

\* What stands within range of p stands in a group the search looks at
\* (AOI.cpp:54-86): the dual range build compares every pair that counts.
THEOREM SearchCovers ==
  ASSUME NEW p \in Inside, NEW q \in Inside, NEW range \in Nat, Within(p, q, range)
  PROVE  GroupIdOf(q) \in GetNodeGroupInRange(p, range)
<1>1. p \in Vector2f /\ q \in Vector2f
  BY GridAssumption DEF Inside, Vector2f
<1>2. /\ p.x - range <= q.x /\ q.x <= p.x + range
      /\ p.y - range <= q.y /\ q.y <= p.y + range
  BY <1>1, CircleInSquare
<1>3. /\ GroupCoordinate(q.x) \in GroupSpan(p.x - range, p.x + range)
      /\ GroupCoordinate(q.y) \in GroupSpan(p.y - range, p.y + range)
  BY <1>2, SpanCovers DEF Inside
<1> QED
  BY <1>3 DEF GroupIdOf, GetNodeGroupInRange

-----------------------------------------------------------------------------
(* Facts about the operators. *)

\* Distance is symmetric.
LEMMA WithinSymmetric ==
  ASSUME NEW p \in Vector2f, NEW q \in Vector2f, NEW r \in Nat
  PROVE  Within(p, q, r) <=> Within(q, p, r)
  BY DEF Within, DistanceSquared, Vector2f

\* Positions are places of the world.
LEMMA PointsInside == Points \subseteq Inside /\ Points \subseteq Vector2f
  BY PointsAssumption, GridAssumption DEF Inside, Vector2f

\* The spawn position is a position.
LEMMA SpawnPoint == NodePosition(SpawnNode) \in Points
  BY PointsAssumption

\* The rest of a path is a path.
LEMMA RestOfPath ==
  ASSUME NEW path \in Paths, NEW k \in 0 .. Len(path)
  PROVE  SubSeq(path, k + 1, Len(path)) \in Paths
<1>1. SubSeq(path, k + 1, Len(path)) \in Seq(Destinations)
  <2>1. /\ k + 1 \in Int /\ Len(path) \in Int
        /\ \A i \in k + 1 .. Len(path) : path[i] \in Destinations
    BY DEF Paths
  <2> QED
    BY <2>1, SubSeqProperties
<1>2. Len(SubSeq(path, k + 1, Len(path))) = Len(path) - k
  BY DEF Paths
<1> QED
  BY <1>1, <1>2, WorldAssumption DEF Paths

\* What walking returns: a position and the rest of the path.
LEMMA WalkTypes ==
  ASSUME NEW p \in Points, NEW path \in Paths, NEW m \in MoveTowardsNextPath(p, path)
  PROVE  m.pos \in Points /\ m.path \in Paths
<1>1. PICK k \in 0 .. Len(path) :
        /\ m.path = SubSeq(path, k + 1, Len(path))
        /\ \/ m.pos \in Points
           \/ k = Len(path) /\ m.pos = IF k = 0 THEN p ELSE NodePosition(path[k])
  BY DEF MoveTowardsNextPath
<1>2. \A i \in 1 .. Len(path) : path[i] \in Destinations
  BY DEF Paths
<1>3. Len(path) \in Nat
  BY DEF Paths
<1>4. m.pos \in Points
  BY <1>1, <1>2, <1>3, PointsAssumption
<1> QED
  BY <1>1, <1>4, RestOfPath

\* A search returns a path.
LEMMA FindPathTypes ==
  ASSUME NEW p, NEW node \in Destinations, NEW path \in FindPath(p, node)
  PROVE  path \in Paths
<1>1. CASE path = <<>>
  BY <1>1, WorldAssumption DEF Paths
<1>2. CASE path # <<>>
  <2>1. PICK k \in 0 .. MaxTurns : \E turns \in [1 .. k -> Destinations] :
               path = Append(turns, node)
    BY <1>2 DEF FindPath
  <2>2. PICK turns \in [1 .. k -> Destinations] : path = Append(turns, node)
    BY <2>1
  <2>3. turns \in Seq(Destinations) /\ Len(turns) = k
    BY <2>2, WorldAssumption
  <2> QED
    BY <2>1, <2>2, <2>3, WorldAssumption DEF Paths
<1> QED
  BY <1>1, <1>2

\* What an entity can become in an Update.
LEMMA StepTypes ==
  ASSUME NEW e, NEW p \in Points, NEW path \in Paths, NEW step \in Steps(e, p, path)
  PROVE  step.pos \in Points /\ step.path \in Paths
<1>1. PICK m \in MoveTowardsNextPath(p, path) :
        \/ step = [pos |-> m.pos, path |-> m.path, replan |-> FALSE]
        \/ \E node \in Destinations : \E new \in FindPath(m.pos, node) :
             step = [pos |-> m.pos, path |-> new, replan |-> TRUE]
  BY DEF Steps, WanderNodes
<1>2. m.pos \in Points /\ m.path \in Paths
  BY WalkTypes
<1> QED
  BY <1>1, <1>2, FindPathTypes

-----------------------------------------------------------------------------
(* The initial states: nobody sees anybody, nobody is in a group. *)

LEMMA InitInv == Init => Inv
<1> SUFFICES ASSUME Init PROVE Inv
  OBVIOUS
<1> USE DEF Init
<1>1. NumBots \in Nat /\ FirstBotSession \in Nat
  BY WorldAssumption
<1>2. Entities = 1 .. NumBots
  BY <1>1 DEF Entities
<1>3. /\ nextEntityId \in Nat \ {0}
      /\ mPosition \in [Entities -> Points]
  BY <1>1, PointsAssumption
<1>4. mPath \in [Entities -> Paths]
  BY WorldAssumption DEF Paths
<1>5. /\ mSessionId \in [Entities -> Sessions]
      /\ mSessionToEntity \in [DOMAIN mSessionToEntity -> Entities]
      /\ DOMAIN mSessionToEntity \subseteq Sessions
  BY <1>1, <1>2 DEF Sessions, BotSessions
<1>6. /\ mSingleLastSync \in [Entities -> 0 .. SinglePeriod]
      /\ mLastNearSync \in [Entities -> 0 .. NearPeriod]
      /\ mLastFarSync \in [Entities -> 0 .. FarPeriod]
  BY WorldAssumption
<1>7. TypeOK
  BY <1>3, <1>4, <1>5, <1>6 DEF TypeOK
<1>8. SessionsMatch
  BY <1>1, <1>2 DEF SessionsMatch, BotSessions
<1>9. ViewersEntered /\ ViewerMonitorDual
  BY DEF ViewersEntered, ViewerMonitorDual
<1>10. SightExact
  BY <1>2 DEF SightExact, Sees, IsAI
<1>11. GroupsMatch
  BY GroupsExist DEF GroupsMatch, GroupIds, NoGroup
<1> QED
  BY <1>7, <1>8, <1>9, <1>10, <1>11 DEF Inv

-----------------------------------------------------------------------------
(* A client enters. *)

LEMMA EnterWorldInv ==
  ASSUME Inv, NEW s \in Clients, EnterWorld(s)
  PROVE  Inv'
<1> DEFINE id == nextEntityId
           spawn == NodePosition(SpawnNode)
           InRange == {o \in Entities : Within(spawn, mPosition[o], VisibleRange)}
           Monitored == [o \in Entities |-> IF o \in InRange THEN mMonitor[o] \union {id}
                                                             ELSE mMonitor[o]]
           Viewed == [o \in Entities |-> IF o \in InRange THEN mViewer[o] \union {s}
                                                          ELSE mViewer[o]]
<1> USE DEF Inv
<1>1. /\ id \in Nat \ {0} /\ id \notin Entities
      /\ nextEntityId' = id + 1
      /\ Entities' = Entities \union {id}
  BY DEF EnterWorld, TypeOK, Entities
<1>2. /\ mPosition' \in [Entities' -> Points]
      /\ mPosition'[id] = spawn
      /\ \A o \in Entities : mPosition'[o] = mPosition[o]
  <2>1. mPosition \in [Entities -> Points] /\ mPosition' = Add(mPosition, id, spawn)
    BY DEF EnterWorld, TypeOK
  <2> QED
    BY <1>1, <2>1, SpawnPoint DEF Add
<1>3. mPath' \in [Entities' -> Paths]
  <2>1. mPath \in [Entities -> Paths] /\ mPath' = Add(mPath, id, <<>>) /\ <<>> \in Paths
    BY WorldAssumption DEF EnterWorld, TypeOK, Paths
  <2> QED
    BY <1>1, <2>1 DEF Add
<1>4. /\ s \in Sessions /\ s \notin DOMAIN mSessionToEntity
      /\ mSessionId' \in [Entities' -> Sessions]
      /\ mSessionId'[id] = s
      /\ \A o \in Entities : mSessionId'[o] = mSessionId[o] /\ mSessionId[o] # s
  <2>1. /\ s \in Sessions /\ s \notin DOMAIN mSessionToEntity
        /\ mSessionId \in [Entities -> Sessions] /\ mSessionId' = Add(mSessionId, id, s)
    BY DEF EnterWorld, NotEntered, TypeOK, Sessions
  <2> QED
    BY <1>1, <2>1 DEF Add, SessionsMatch
<1>5. /\ DOMAIN mSessionToEntity' = DOMAIN mSessionToEntity \union {s}
      /\ mSessionToEntity' \in [DOMAIN mSessionToEntity' -> Entities']
      /\ mSessionToEntity'[s] = id
      /\ \A r \in DOMAIN mSessionToEntity : mSessionToEntity'[r] = mSessionToEntity[r]
  <2>1. /\ mSessionToEntity \in [DOMAIN mSessionToEntity -> Entities']
        /\ mSessionToEntity' = Add(mSessionToEntity, s, id) /\ id \in Entities'
    BY <1>1 DEF EnterWorld, TypeOK
  <2> QED
    BY <1>4, <2>1 DEF Add
<1>6. /\ mViewer' \in [Entities' -> SUBSET Sessions]
      /\ mViewer'[id] = {s} \union {mSessionId[o] : o \in InRange}
      /\ \A o \in Entities : mViewer'[o] = IF o \in InRange THEN mViewer[o] \union {s}
                                                           ELSE mViewer[o]
  <2>1. /\ Viewed \in [Entities -> SUBSET Sessions]
        /\ {s} \union {mSessionId[o] : o \in InRange} \in SUBSET Sessions
    BY <1>4 DEF TypeOK
  <2>2. mViewer' = Add(Viewed, id, {s} \union {mSessionId[o] : o \in InRange})
    BY DEF EnterWorld
  <2> QED
    BY <1>1, <2>1, <2>2 DEF Add
<1>7. /\ mMonitor' \in [Entities' -> SUBSET Entities']
      /\ mMonitor'[id] = {id} \union InRange
      /\ \A o \in Entities : mMonitor'[o] = IF o \in InRange THEN mMonitor[o] \union {id}
                                                            ELSE mMonitor[o]
  <2>1. Monitored \in [Entities -> SUBSET Entities'] /\ {id} \union InRange \in SUBSET Entities'
    BY <1>1 DEF TypeOK
  <2>2. mMonitor' = Add(Monitored, id, {id} \union InRange)
    BY DEF EnterWorld
  <2> QED
    BY <1>1, <2>1, <2>2 DEF Add
<1>8. /\ mSingleLastSync' \in [Entities' -> 0 .. SinglePeriod]
      /\ mLastNearSync' \in [Entities' -> 0 .. NearPeriod]
      /\ mLastFarSync' \in [Entities' -> 0 .. FarPeriod]
  <2>1. /\ mSingleLastSync' = Add(mSingleLastSync, id, 0)
        /\ mLastNearSync' = Add(mLastNearSync, id, 0)
        /\ mLastFarSync' = Add(mLastFarSync, id, 0)
    BY DEF EnterWorld
  <2>2. 0 \in 0 .. SinglePeriod /\ 0 \in 0 .. NearPeriod /\ 0 \in 0 .. FarPeriod
    BY WorldAssumption
  <2> QED
    BY <1>1, <2>1, <2>2 DEF Add, TypeOK
<1>9. /\ mGroups' = mGroups
      /\ mNodeGroupId' \in [Entities' -> GroupIds \union {NoGroup}]
      /\ mNodeGroupId'[id] = NoGroup
      /\ \A o \in Entities : mNodeGroupId'[o] = mNodeGroupId[o]
  <2>1. /\ mNodeGroupId \in [Entities -> GroupIds \union {NoGroup}]
        /\ mNodeGroupId' = Add(mNodeGroupId, id, NoGroup)
        /\ mGroups' = mGroups
    BY DEF EnterWorld, TypeOK
  <2> QED
    BY <1>1, <2>1 DEF Add
<1> HIDE DEF id, spawn, InRange, Viewed, Monitored
<1>10. TypeOK'
  <2>1. mGroups' \in [GroupIds -> SUBSET Entities']
    BY <1>1, <1>9 DEF TypeOK
  <2>2. /\ nextEntityId' \in Nat \ {0} /\ DOMAIN mSessionToEntity' \subseteq Sessions
        /\ UseAOI' = UseAOI
    BY <1>1, <1>4, <1>5 DEF TypeOK, EnterWorld
  <2> QED
    BY <1>2, <1>3, <1>4, <1>5, <1>6, <1>7, <1>8, <1>9, <2>1, <2>2 DEF TypeOK
<1>11. SessionsMatch'
  BY <1>1, <1>4, <1>5 DEF SessionsMatch, TypeOK
<1>12. ViewersEntered'
  BY <1>1, <1>4, <1>5, <1>6 DEF ViewersEntered, SessionsMatch, InRange
<1>13. ViewerMonitorDual'
  <2> SUFFICES ASSUME NEW e \in Entities', NEW o \in Entities'
               PROVE  mSessionId'[o] \in mViewer'[e] <=> e \in mMonitor'[o]
    BY DEF ViewerMonitorDual
  <2>1. CASE e \in Entities /\ o \in Entities
    BY <2>1, <1>1, <1>4, <1>6, <1>7 DEF ViewerMonitorDual
  <2>2. CASE e = id /\ o \in Entities
    <3>1. mSessionId'[o] \in mViewer'[e] <=> o \in InRange
      BY <2>2, <1>4, <1>6 DEF SessionsMatch, InRange
    <3>2. id \notin mMonitor[o]
      BY <2>2, <1>1 DEF TypeOK
    <3> QED
      BY <2>2, <3>1, <3>2, <1>7
  <2>3. CASE e \in Entities /\ o = id
    <3>1. s \notin mViewer[e]
      BY <2>3, <1>4 DEF ViewersEntered
    <3> QED
      BY <2>3, <3>1, <1>1, <1>4, <1>6, <1>7
  <2>4. CASE e = id /\ o = id
    BY <2>4, <1>4, <1>6, <1>7
  <2> QED
    BY <1>1, <2>1, <2>2, <2>3, <2>4
<1>14. SightExact'
  <2> SUFFICES ASSUME NEW e \in Entities', NEW o \in Entities', e # o
               PROVE  /\ Sees(o, e)' => Within(mPosition'[e], mPosition'[o], VisibleRange)
                      /\ Sees(o, e)' <=> Sees(e, o)'
                      /\ Within(mPosition'[e], mPosition'[o], VisibleRange)
                           /\ ~(IsAI(e) /\ IsAI(o)) => Sees(o, e)'
    BY DEF SightExact
  <2>1. CASE e \in Entities /\ o \in Entities
    <3>1. Sees(o, e)' <=> Sees(o, e)
      BY <2>1, <1>4, <1>6 DEF Sees
    <3>2. Sees(e, o)' <=> Sees(e, o)
      BY <2>1, <1>4, <1>6 DEF Sees
    <3> QED
      BY <2>1, <3>1, <3>2, <1>2 DEF SightExact
  <2>2. CASE e = id /\ o \in Entities
    <3>1. Sees(o, e)' <=> o \in InRange
      BY <2>2, <1>4, <1>6 DEF Sees, SessionsMatch, InRange
    <3>2. Sees(e, o)' <=> o \in InRange
      BY <2>2, <1>4, <1>6 DEF Sees, ViewersEntered
    <3> QED
      BY <2>2, <3>1, <3>2, <1>2 DEF InRange
  <2>3. CASE e \in Entities /\ o = id
    <3>1. Sees(e, o)' <=> e \in InRange
      BY <2>3, <1>4, <1>6 DEF Sees, SessionsMatch, InRange
    <3>2. Sees(o, e)' <=> e \in InRange
      BY <2>3, <1>4, <1>6 DEF Sees, ViewersEntered
    <3>3. Within(spawn, mPosition[e], VisibleRange) <=> Within(mPosition[e], spawn, VisibleRange)
      BY <2>3, <1>2, PointsInside, SpawnPoint, WithinSymmetric, WorldAssumption DEF TypeOK, spawn
    <3> QED
      BY <2>3, <3>1, <3>2, <3>3, <1>2 DEF InRange
  <2> QED
    BY <1>1, <2>1, <2>2, <2>3
<1>15. GroupsMatch'
  <2>1. id \notin UNION {mGroups[g] : g \in GroupIds}
    BY <1>1 DEF TypeOK
  <2>2. NoGroup \notin GroupIds
    BY GroupsExist DEF NoGroup, GroupIds
  <2> QED
    BY <1>1, <1>9, <2>1, <2>2 DEF GroupsMatch, TypeOK
<1> QED
  BY <1>10, <1>11, <1>12, <1>13, <1>14, <1>15

-----------------------------------------------------------------------------
(* Update. *)

\* PlaceEntityInGroup leaves every entity in the group of its position and in
\* no other.
LEMMA PlaceMatches ==
  ASSUME Inv, NEW position \in [Entities -> Points], PlaceEntityInGroup(position)
  PROVE  /\ mGroups' \in [GroupIds -> SUBSET Entities]
         /\ mNodeGroupId' \in [Entities -> GroupIds \union {NoGroup}]
         /\ \A e \in Entities : mNodeGroupId'[e] = GroupIdOf(position[e])
         /\ \A e \in Entities, g \in GroupIds : e \in mGroups'[g] <=> mNodeGroupId'[e] = g
<1>1. \A e \in Entities : GroupIdOf(position[e]) \in GroupIds
  BY GroupIdExists, PointsInside
<1>2. DOMAIN position = Entities
  OBVIOUS
<1>3. /\ mGroups \in [GroupIds -> SUBSET Entities]
      /\ mNodeGroupId \in [Entities -> GroupIds \union {NoGroup}]
      /\ \A e \in Entities, g \in GroupIds : e \in mGroups[g] <=> mNodeGroupId[e] = g
  BY DEF Inv, TypeOK, GroupsMatch
<1> DEFINE Moved == {e \in Entities : e \notin mGroups[GroupIdOf(position[e])]}
<1>4. /\ mGroups' = [g \in GroupIds |->
                      (mGroups[g] \ {e \in Moved : mNodeGroupId[e] = g})
                        \union {e \in Moved : GroupIdOf(position[e]) = g}]
      /\ mNodeGroupId' = [e \in Entities |->
                             IF e \in Moved THEN GroupIdOf(position[e]) ELSE mNodeGroupId[e]]
  BY <1>2 DEF PlaceEntityInGroup
<1>5. \A e \in Entities : mNodeGroupId'[e] = GroupIdOf(position[e])
  BY <1>1, <1>3, <1>4
<1>6. mNodeGroupId' \in [Entities -> GroupIds \union {NoGroup}]
  BY <1>1, <1>4, <1>5
<1>7. mGroups' \in [GroupIds -> SUBSET Entities]
  BY <1>3, <1>4
<1>8. \A e \in Entities, g \in GroupIds : e \in mGroups'[g] <=> mNodeGroupId'[e] = g
  BY <1>1, <1>3, <1>4, <1>5
<1> QED
  BY <1>5, <1>6, <1>7, <1>8

\* With the groups of this Update, the search finds exactly the others in range.
LEMMA VisibleExact ==
  ASSUME NEW position \in [Entities -> Points], NEW groups \in [GroupIds -> SUBSET Entities],
         UseAOI => \A e \in Entities : e \in groups[GroupIdOf(position[e])],
         NEW e \in Entities
  PROVE  Visible(e, position, groups) =
           {o \in Entities \ {e} : Within(position[e], position[o], VisibleRange)}
<1>1. position[e] \in Inside /\ VisibleRange \in Nat
  BY PointsInside, WorldAssumption
<1>2. CASE ~UseAOI
  BY <1>2 DEF Visible, Candidates
<1>3. CASE UseAOI
  <2> DEFINE found == GetNodeGroupInRange(position[e], VisibleRange)
  <2>1. ASSUME NEW o \in Entities, Within(position[e], position[o], VisibleRange)
        PROVE  o \in UNION {groups[g] : g \in found}
    <3>1. GroupIdOf(position[o]) \in found
      BY <1>1, <2>1, PointsInside, SearchCovers
    <3> QED
      BY <1>3, <3>1
  <2>2. \A g \in found : g \in GroupIds
    <3> SUFFICES ASSUME NEW gx \in 0 .. GroupCount - 1, NEW gy \in 0 .. GroupCount - 1
                 PROVE  gy * GroupCount + gx \in GroupIds
      BY DEF GetNodeGroupInRange, GroupSpan
    <3>1. gy * GroupCount <= (GroupCount - 1) * GroupCount /\ gy * GroupCount >= 0
      BY GroupsExist
    <3> QED
      BY <3>1, GroupsExist DEF GroupIds
  <2>3. UNION {groups[g] : g \in found} \subseteq Entities
    BY <2>2
  <2> QED
    BY <1>3, <2>1, <2>3 DEF Visible, Candidates
<1> QED
  BY <1>2, <1>3

\* Who is newly shown an entity.
LEMMA AppearingExact ==
  ASSUME NEW position \in [Entities -> Points], NEW groups \in [GroupIds -> SUBSET Entities],
         UseAOI => \A e \in Entities : e \in groups[GroupIdOf(position[e])],
         NEW e \in Entities
  PROVE  Appearing(e, position, groups) =
           {o \in Entities \ {e} : /\ Within(position[e], position[o], VisibleRange)
                                   /\ mSessionId[o] \notin mViewer[e]}
<1>1. Visible(e, position, groups) =
        {o \in Entities \ {e} : Within(position[e], position[o], VisibleRange)}
  BY VisibleExact
<1> QED
  BY <1>1 DEF Appearing

\* Both builds hide an entity from the same others: those that saw it and are
\* out of range now.
LEMMA VanishingExact ==
  ASSUME Inv, NEW position \in [Entities -> Points],
         NEW groups \in [GroupIds -> SUBSET Entities],
         UseAOI => \A e \in Entities : e \in groups[GroupIdOf(position[e])],
         NEW e \in Entities
  PROVE  Vanishing(e, position, groups) =
           {o \in Entities \ {e} : /\ ~Within(position[e], position[o], VisibleRange)
                                   /\ mSessionId[o] \in mViewer[e]}
<1>1. CASE ~UseAOI
  BY <1>1 DEF Vanishing
<1>2. CASE UseAOI
  <2>1. Visible(e, position, groups) =
          {o \in Entities \ {e} : Within(position[e], position[o], VisibleRange)}
    BY VisibleExact
  <2>2. \A s \in mViewer[e] : /\ mSessionToEntity[s] \in Entities
                              /\ mSessionId[mSessionToEntity[s]] = s
    BY DEF Inv, TypeOK, SessionsMatch, ViewersEntered
  <2>3. \A o \in Entities : mSessionToEntity[mSessionId[o]] = o
    BY DEF Inv, SessionsMatch
  <2>4. Vanishing(e, position, groups) =
          {mSessionToEntity[s] : s \in mViewer[e] \ ({mSessionId[e]} \union
             {mSessionId[o] : o \in Visible(e, position, groups)})}
    BY <1>2 DEF Vanishing
  <2>5. ASSUME NEW o \in Vanishing(e, position, groups)
        PROVE  /\ o \in Entities \ {e} /\ mSessionId[o] \in mViewer[e]
               /\ ~Within(position[e], position[o], VisibleRange)
    BY <2>1, <2>2, <2>3, <2>4
  <2>6. ASSUME NEW o \in Entities \ {e}, mSessionId[o] \in mViewer[e],
               ~Within(position[e], position[o], VisibleRange)
        PROVE  o \in Vanishing(e, position, groups)
    <3>1. mSessionId[o] # mSessionId[e]
      BY <2>3
    <3>2. mSessionId[o] \notin {mSessionId[q] : q \in Visible(e, position, groups)}
      BY <2>1, <2>3, <2>6
    <3> QED
      BY <2>3, <2>4, <2>6, <3>1, <3>2
  <2> QED
    BY <2>5, <2>6
<1> QED
  BY <1>1, <1>2

\* A timer stays within its period.
LEMMA ElapsedType ==
  ASSUME NEW period \in Nat, NEW timer \in 0 .. period, NEW delta \in Deltas
  PROVE  Elapsed(timer, delta, period) \in 0 .. period
  BY WorldAssumption DEF Elapsed
\* Choices offer a step for every entity.
LEMMA ChoiceTypes ==
  ASSUME TypeOK, NEW step \in Choices([e \in Entities |-> Steps(e, mPosition[e], mPath[e])])
  PROVE  \A e \in Entities : step[e].pos \in Points /\ step[e].path \in Paths
<1> SUFFICES ASSUME NEW e \in Entities
             PROVE  step[e].pos \in Points /\ step[e].path \in Paths
  OBVIOUS
<1>1. step[e] \in Steps(e, mPosition[e], mPath[e])
  BY DEF Choices
<1>2. mPosition[e] \in Points /\ mPath[e] \in Paths
  BY DEF TypeOK
<1> QED
  BY <1>1, <1>2, StepTypes

\* What an Update does, with sight as sets: who newly sees an entity, and who no
\* longer does, in either build.
LEMMA UpdateParts ==
  ASSUME Inv, NEW delta \in Deltas, Update(delta)
  PROVE  /\ Entities' = Entities /\ nextEntityId' = nextEntityId
         /\ mSessionId' = mSessionId /\ mSessionToEntity' = mSessionToEntity
         /\ UseAOI' = UseAOI
         /\ mPosition' \in [Entities -> Points] /\ mPath' \in [Entities -> Paths]
         /\ mGroups' \in [GroupIds -> SUBSET Entities]
         /\ mNodeGroupId' \in [Entities -> GroupIds \union {NoGroup}]
         /\ \A e \in Entities, g \in GroupIds : e \in mGroups'[g] <=> mNodeGroupId'[e] = g
         /\ \E step, appear, vanish :
              /\ mViewer' = ViewersAfter(appear, vanish)
              /\ mMonitor' = MonitorsAfter(appear, vanish)
              /\ calls' = << PathCalls(step), SightCalls(appear, vanish),
                             SyncCalls(delta, mPosition', mViewer', mMonitor') >>
              /\ \A e \in Entities :
                   /\ appear[e] = {o \in Entities \ {e} :
                        /\ Within(mPosition'[e], mPosition'[o], VisibleRange)
                        /\ mSessionId[o] \notin mViewer[e]}
                   /\ vanish[e] = {o \in Entities \ {e} :
                        /\ ~Within(mPosition'[e], mPosition'[o], VisibleRange)
                        /\ mSessionId[o] \in mViewer[e]}
<1>1. PICK step \in Choices([e \in Entities |-> Steps(e, mPosition[e], mPath[e])]) :
        /\ mPosition' = [e \in Entities |-> step[e].pos]
        /\ mPath' = [e \in Entities |-> step[e].path]
        /\ IF UseAOI THEN PlaceEntityInGroup(mPosition') ELSE UNCHANGED groupState
        /\ \E appear \in {[e \in Entities |-> Appearing(e, mPosition', mGroups')]},
              vanish \in {[e \in Entities |-> Vanishing(e, mPosition', mGroups')]} :
                /\ mViewer' = ViewersAfter(appear, vanish)
                /\ mMonitor' = MonitorsAfter(appear, vanish)
                /\ calls' = << PathCalls(step), SightCalls(appear, vanish),
                               SyncCalls(delta, mPosition', mViewer', mMonitor') >>
  BY DEF Update
<1>2. /\ Entities' = Entities /\ nextEntityId' = nextEntityId
      /\ mSessionId' = mSessionId /\ mSessionToEntity' = mSessionToEntity
      /\ UseAOI' = UseAOI
  BY DEF Update, registry, Entities
<1>3. mPosition' \in [Entities -> Points] /\ mPath' \in [Entities -> Paths]
  BY <1>1, ChoiceTypes DEF Inv
<1>4. /\ mGroups' \in [GroupIds -> SUBSET Entities]
      /\ mNodeGroupId' \in [Entities -> GroupIds \union {NoGroup}]
      /\ UseAOI => \A e \in Entities : e \in mGroups'[GroupIdOf(mPosition'[e])]
      /\ \A e \in Entities, g \in GroupIds : e \in mGroups'[g] <=> mNodeGroupId'[e] = g
  <2>1. CASE UseAOI
    <3>1. \A e \in Entities : GroupIdOf(mPosition'[e]) \in GroupIds
      BY <1>3, GroupIdExists, PointsInside
    <3> QED
      BY <1>1, <1>3, <2>1, <3>1, PlaceMatches
  <2>2. CASE ~UseAOI
    BY <1>1, <2>2 DEF groupState, Inv, TypeOK, GroupsMatch
  <2> QED
    BY <2>1, <2>2
<1>5. PICK appear, vanish :
        /\ mViewer' = ViewersAfter(appear, vanish)
        /\ mMonitor' = MonitorsAfter(appear, vanish)
        /\ calls' = << PathCalls(step), SightCalls(appear, vanish),
                       SyncCalls(delta, mPosition', mViewer', mMonitor') >>
        /\ appear = [e \in Entities |-> Appearing(e, mPosition', mGroups')]
        /\ vanish = [e \in Entities |-> Vanishing(e, mPosition', mGroups')]
  BY <1>1
<1>6. \A e \in Entities :
        /\ appear[e] = {o \in Entities \ {e} :
             /\ Within(mPosition'[e], mPosition'[o], VisibleRange)
             /\ mSessionId[o] \notin mViewer[e]}
        /\ vanish[e] = {o \in Entities \ {e} :
             /\ ~Within(mPosition'[e], mPosition'[o], VisibleRange)
             /\ mSessionId[o] \in mViewer[e]}
  BY <1>3, <1>4, <1>5, AppearingExact, VanishingExact
<1> QED
  BY <1>2, <1>3, <1>4, <1>5, <1>6

LEMMA UpdateInv ==
  ASSUME Inv, NEW delta \in Deltas, Update(delta)
  PROVE  Inv'
<1>2. /\ Entities' = Entities /\ nextEntityId' = nextEntityId
      /\ mSessionId' = mSessionId /\ mSessionToEntity' = mSessionToEntity
      /\ UseAOI' = UseAOI
  BY UpdateParts
<1>3. mPosition' \in [Entities -> Points] /\ mPath' \in [Entities -> Paths]
  BY UpdateParts
<1>4. /\ mGroups' \in [GroupIds -> SUBSET Entities]
      /\ mNodeGroupId' \in [Entities -> GroupIds \union {NoGroup}]
      /\ \A e \in Entities, g \in GroupIds : e \in mGroups'[g] <=> mNodeGroupId'[e] = g
  BY UpdateParts
<1> DEFINE InRange(e, o) == Within(mPosition'[e], mPosition'[o], VisibleRange)
<1>5. PICK appear, vanish :
        /\ mViewer' = ViewersAfter(appear, vanish)
        /\ mMonitor' = MonitorsAfter(appear, vanish)
        /\ \A e \in Entities :
             /\ appear[e] = {o \in Entities \ {e} : InRange(e, o) /\ mSessionId[o] \notin mViewer[e]}
             /\ vanish[e] = {o \in Entities \ {e} : ~InRange(e, o) /\ mSessionId[o] \in mViewer[e]}
  BY UpdateParts
<1>6. \A e \in Entities :
        /\ appear[e] = {o \in Entities \ {e} : InRange(e, o) /\ mSessionId[o] \notin mViewer[e]}
        /\ vanish[e] = {o \in Entities \ {e} : ~InRange(e, o) /\ mSessionId[o] \in mViewer[e]}
  BY <1>5
<1>7. \A e, o \in Entities : mSessionId[e] = mSessionId[o] => e = o
  BY DEF Inv, SessionsMatch
<1>8. \A e, o \in Entities :
        mSessionId[o] \in mViewer'[e] <=>
          IF e = o THEN mSessionId[o] \in mViewer[e] ELSE InRange(e, o)
  <2> SUFFICES ASSUME NEW e \in Entities, NEW o \in Entities
               PROVE  mSessionId[o] \in mViewer'[e] <=>
                        IF e = o THEN mSessionId[o] \in mViewer[e] ELSE InRange(e, o)
    OBVIOUS
  <2>1. mViewer'[e] = (mViewer[e] \union {mSessionId[q] : q \in appear[e]})
                        \ {mSessionId[q] : q \in vanish[e]}
    BY <1>5 DEF ViewersAfter
  <2>2. /\ mSessionId[o] \in {mSessionId[q] : q \in appear[e]} <=> o \in appear[e]
        /\ mSessionId[o] \in {mSessionId[q] : q \in vanish[e]} <=> o \in vanish[e]
    BY <1>6, <1>7
  <2> HIDE DEF InRange
  <2> QED
    BY <1>6, <2>1, <2>2
<1>9. \A e, o \in Entities :
        e \in mMonitor'[o] <=> IF e = o THEN e \in mMonitor[o] ELSE InRange(e, o)
  <2> SUFFICES ASSUME NEW e \in Entities, NEW o \in Entities
               PROVE  e \in mMonitor'[o] <=>
                        IF e = o THEN e \in mMonitor[o] ELSE InRange(e, o)
    OBVIOUS
  <2>1. e \in mMonitor'[o] <=> (e \in mMonitor[o] \/ o \in appear[e]) /\ o \notin vanish[e]
    BY <1>5 DEF MonitorsAfter
  <2>2. mSessionId[o] \in mViewer[e] <=> e \in mMonitor[o]
    BY DEF Inv, ViewerMonitorDual
  <2> HIDE DEF InRange
  <2> QED
    BY <1>6, <2>1, <2>2
<1>10. /\ mViewer' \in [Entities -> SUBSET Sessions]
       /\ \A e \in Entities : mViewer'[e] \subseteq DOMAIN mSessionToEntity
  <2>1. \A e \in Entities : mViewer'[e] \subseteq mViewer[e] \union {mSessionId[o] : o \in Entities}
    BY <1>5, <1>6 DEF ViewersAfter
  <2>2. \A o \in Entities : mSessionId[o] \in DOMAIN mSessionToEntity
    BY DEF Inv, SessionsMatch
  <2>3. \A e \in Entities : mViewer'[e] \subseteq DOMAIN mSessionToEntity
    BY <2>1, <2>2 DEF Inv, ViewersEntered
  <2>4. mViewer' = [e \in Entities |-> mViewer'[e]]
    BY <1>5 DEF ViewersAfter
  <2> QED
    BY <2>3, <2>4 DEF Inv, TypeOK
<1>11. mMonitor' \in [Entities -> SUBSET Entities]
  BY <1>5 DEF MonitorsAfter, Inv, TypeOK
<1>12. /\ mSingleLastSync' \in [Entities -> 0 .. SinglePeriod]
       /\ mLastNearSync' \in [Entities -> 0 .. NearPeriod]
       /\ mLastFarSync' \in [Entities -> 0 .. FarPeriod]
  <2>1. /\ mSingleLastSync' = IF UseAOI THEN mSingleLastSync
             ELSE [e \in Entities |-> Elapsed(mSingleLastSync[e], delta, SinglePeriod)]
        /\ mLastNearSync' = IF ~UseAOI THEN mLastNearSync
             ELSE [e \in Entities |-> Elapsed(mLastNearSync[e], delta, NearPeriod)]
        /\ mLastFarSync' = IF ~UseAOI THEN mLastFarSync
             ELSE [e \in Entities |-> Elapsed(mLastFarSync[e], delta, FarPeriod)]
    BY DEF Update
  <2> QED
    BY <2>1, ElapsedType, WorldAssumption DEF Inv, TypeOK
<1> HIDE DEF InRange
<1>13. TypeOK'
  BY <1>2, <1>3, <1>4, <1>10, <1>11, <1>12 DEF TypeOK, Inv
<1>14. SessionsMatch'
  BY <1>2 DEF SessionsMatch, Inv
<1>15. ViewersEntered'
  BY <1>2, <1>10 DEF ViewersEntered
<1>16. ViewerMonitorDual'
  <2>1. \A e \in Entities : mSessionId[e] \in mViewer[e] <=> e \in mMonitor[e]
    BY DEF Inv, ViewerMonitorDual
  <2> QED
    BY <1>2, <1>8, <1>9, <2>1 DEF ViewerMonitorDual
<1>17. SightExact'
  <2>1. \A e, o \in Entities : InRange(e, o) <=> InRange(o, e)
    BY <1>3, PointsInside, WithinSymmetric, WorldAssumption DEF InRange
  <2>2. \A e, o \in Entities : e # o => (Sees(o, e)' <=> InRange(e, o))
    BY <1>2, <1>8 DEF Sees
  <2>3. \A e, o \in Entities : InRange(e, o) <=> Within(mPosition'[e], mPosition'[o], VisibleRange)
    BY DEF InRange
  <2> QED
    BY <1>2, <2>1, <2>2, <2>3 DEF SightExact
<1>18. GroupsMatch'
  BY <1>2, <1>4 DEF GroupsMatch
<1> QED
  BY <1>13, <1>14, <1>15, <1>16, <1>17, <1>18 DEF Inv

-----------------------------------------------------------------------------
(* The other tasks, and the theorems. *)

LEMMA PathFindInv ==
  ASSUME Inv, NEW s \in Clients, NEW node \in Destinations, PathFind(s, node)
  PROVE  Inv'
<1>1. /\ mPath' \in [Entities -> Paths]
      /\ UNCHANGED <<UseAOI, mPosition, sight, timers, registry, groupState>>
  <2>1. PICK path \in FindPath(mPosition[mSessionToEntity[s]], node) :
          mPath' = [mPath EXCEPT ![mSessionToEntity[s]] = path]
    BY DEF PathFind
  <2>2. path \in Paths
    BY FindPathTypes
  <2> QED
    BY <2>1, <2>2 DEF Inv, TypeOK, PathFind
<1> QED
  BY <1>1 DEF Inv, TypeOK, SessionsMatch, ViewersEntered, ViewerMonitorDual, SightExact,
              GroupsMatch, Sees, Entities, sight, timers, registry, groupState

\* A step that leaves all but `calls` alone.
LEMMA QuietInv ==
  ASSUME Inv, UNCHANGED <<UseAOI, motion, sight, timers, registry, groupState>>
  PROVE  Inv'
  BY DEF Inv, TypeOK, SessionsMatch, ViewersEntered, ViewerMonitorDual, SightExact,
         GroupsMatch, Sees, Entities, motion, sight, timers, registry, groupState

\* The invariant holds throughout.
THEOREM WorldInv == Spec => []Inv
<1>1. Init => Inv
  BY InitInv
<1>2. Inv /\ [Next]_vars => Inv'
  <2> SUFFICES ASSUME Inv, [Next]_vars PROVE Inv'
    OBVIOUS
  <2>1. ASSUME NEW s \in Clients, EnterWorld(s) PROVE Inv'
    BY <2>1, EnterWorldInv
  <2>2. ASSUME NEW s \in Clients, NEW node \in Destinations, PathFind(s, node) PROVE Inv'
    BY <2>2, PathFindInv
  <2>3. ASSUME NEW s \in Clients, NEW number \in InfoNumbers, NEW o \in Entities,
               NextEntityInfo(s, number, o)
        PROVE  Inv'
    BY <2>3, QuietInv DEF NextEntityInfo
  <2>4. ASSUME NEW delta \in Deltas, Update(delta) PROVE Inv'
    BY <2>4, UpdateInv
  <2>5. CASE UNCHANGED vars
    BY <2>5, QuietInv DEF vars
  <2> QED
    BY <2>1, <2>2, <2>3, <2>4, <2>5 DEF Next
<1> QED
  BY <1>1, <1>2, PTL DEF Spec

\* Every field keeps its type: in particular every entity always stands inside
\* the world and is in a group that exists.
THEOREM TypeCorrect == Spec => []TypeOK
  BY WorldInv, PTL DEF Inv

\* mViewer and mMonitor always agree (World.cpp:92-106, 307-341, 368-394).
THEOREM ViewersAreMonitors == Spec => []ViewerMonitorDual
  BY WorldInv, PTL DEF Inv

\* Sight is always exactly the entities in range, in both builds.
THEOREM SightIsRange == Spec => []SightExact
  BY WorldInv, PTL DEF Inv

\* A session and its entity always find each other, so the lookup of a vanished
\* viewer's session (World.cpp:331) always finds the viewer.
THEOREM SessionsFindEntities == Spec => []SessionsMatch
  BY WorldInv, PTL DEF Inv

\* The groups of the search never go stale or keep an entity twice.
THEOREM GroupsAreExact == Spec => []GroupsMatch
  BY WorldInv, PTL DEF Inv

-----------------------------------------------------------------------------
(* Who is told what: paths and information, positions. *)

\* The entities an entity is shown are those it is shown to, itself included if
\* it is: hence the dual build may send along mMonitor.
MonitorsAreViewers ==
  \A e \in Entities :
    /\ mViewer[e] = {mSessionId[m] : m \in mMonitor[e]}
    /\ \A s \in mViewer[e] : s \in DOMAIN mSessionToEntity /\ e \in Told(s)
    /\ \A m \in mMonitor[e] : m \in Entities /\ AtMost(mPosition[e], mPosition[m], VisibleRange)

LEMMA InvMonitors == Inv => MonitorsAreViewers
<1> SUFFICES ASSUME Inv, NEW e \in Entities
             PROVE  /\ mViewer[e] = {mSessionId[m] : m \in mMonitor[e]}
                    /\ \A s \in mViewer[e] : s \in DOMAIN mSessionToEntity /\ e \in Told(s)
                    /\ \A m \in mMonitor[e] :
                         m \in Entities /\ AtMost(mPosition[e], mPosition[m], VisibleRange)
  BY DEF MonitorsAreViewers
<1>1. ASSUME NEW m \in Entities
      PROVE  m \in mMonitor[e] <=> mSessionId[m] \in mViewer[e]
  <2>1. m # e => (Sees(m, e) <=> Sees(e, m))
    BY DEF Inv, SightExact
  <2>2. \A o, d \in Entities : Sees(o, d) <=> d \in mMonitor[o]
    BY DEF Inv, ViewerMonitorDual, Sees
  <2> QED
    BY <2>1, <2>2 DEF Sees
<1>2. mMonitor[e] \subseteq Entities
  BY DEF Inv, TypeOK
<1>3. ASSUME NEW s \in mViewer[e]
      PROVE  /\ s \in DOMAIN mSessionToEntity /\ mSessionToEntity[s] \in Entities
             /\ mSessionId[mSessionToEntity[s]] = s
             /\ e \in mMonitor[mSessionToEntity[s]]
  <2>1. s \in DOMAIN mSessionToEntity
    BY DEF Inv, ViewersEntered
  <2>2. mSessionToEntity[s] \in Entities /\ mSessionId[mSessionToEntity[s]] = s
    BY <2>1 DEF Inv, TypeOK, SessionsMatch
  <2> QED
    BY <2>1, <2>2 DEF Inv, ViewerMonitorDual
<1>4. mViewer[e] = {mSessionId[m] : m \in mMonitor[e]}
  BY <1>1, <1>2, <1>3
<1>5. ASSUME NEW m \in mMonitor[e]
      PROVE  AtMost(mPosition[e], mPosition[m], VisibleRange)
  <2>1. m \in Entities /\ mPosition[e] \in Vector2f /\ mPosition[m] \in Vector2f
    BY <1>2, PointsInside DEF Inv, TypeOK
  <2>2. CASE m = e
    <3>1. DistanceSquared(mPosition[e], mPosition[m]) = 0
      BY <2>1, <2>2 DEF DistanceSquared, Vector2f
    <3>2. 0 <= VisibleRange * VisibleRange
      BY WorldAssumption
    <3> QED
      BY <3>1, <3>2 DEF AtMost
  <2>3. CASE m # e
    <3>1. Sees(m, e)
      BY <1>1, <2>1 DEF Sees
    <3>2. Within(mPosition[e], mPosition[m], VisibleRange)
      BY <2>1, <2>3, <3>1 DEF Inv, SightExact
    <3>3. /\ DistanceSquared(mPosition[e], mPosition[m]) \in Int
          /\ VisibleRange * VisibleRange \in Int
      BY <2>1, WorldAssumption DEF DistanceSquared, Vector2f
    <3> QED
      BY <3>2, <3>3 DEF Within, AtMost
  <2> QED
    BY <2>2, <2>3
<1> QED
  BY <1>2, <1>3, <1>4, <1>5 DEF Told

\* The calls of an Update, phase by phase, as to whom they reach.
LEMMA PathCallsReach ==
  ASSUME Inv, NEW step, NEW c \in PathCalls(step)
  PROVE  /\ c.message.type = "PATH_FINDING"
         /\ \A s \in c.to : c.message.ObjectId \in Told(s)
<1>1. PICK e \in Entities : \E position :
         c = Broadcast(IF UseAOI THEN NearViewers(e, position, mMonitor[e]) ELSE mViewer[e],
                       Message("PATH_FINDING", e))
  BY DEF PathCalls
<1>2. c.message = Message("PATH_FINDING", e) /\ c.to \subseteq mViewer[e]
  BY <1>1, InvMonitors DEF NearViewers, MonitorsAreViewers, Broadcast
<1> QED
  BY <1>2, InvMonitors DEF MonitorsAreViewers, Message

LEMMA SyncCallsReach ==
  ASSUME MonitorsAreViewers', Entities' = Entities, mSessionId' = mSessionId, UseAOI' = UseAOI,
         NEW delta, NEW c \in SyncCalls(delta, mPosition', mViewer', mMonitor')
  PROVE  /\ c.message.type = "POSITION_SYNC"
         /\ \A s \in c.to : c.message.ObjectId \in Told(s)'
<1>1. PICK e \in Entities :
         /\ c.message = Message("POSITION_SYNC", e)
         /\ \/ c.to = mViewer'[e]
            \/ c.to = NearViewers(e, mPosition', mMonitor'[e])
            \/ c.to = FarViewers(e, mPosition', mMonitor'[e])
  BY DEF SyncCalls, Due, Broadcast
<1>2. c.to \subseteq mViewer'[e]
  BY <1>1 DEF NearViewers, FarViewers, MonitorsAreViewers
<1> QED
  BY <1>1, <1>2 DEF MonitorsAreViewers, Message

LEMMA SightCallsAre ==
  ASSUME NEW appear, NEW vanish, NEW c
  PROVE  c \in SightCalls(appear, vanish) <=>
           \E e \in Entities :
             \/ \E o \in appear[e] : c = Direct(mSessionId[o], Message("APPEAR_ENTITY", e))
             \/ \E o \in vanish[e] : c = Direct(mSessionId[o], Message("DISAPPEAR_ENTITY", e))
  BY DEF SightCalls

\* Paths and information only of entities told before, positions only of
\* entities told by the end of the step (World.cpp:174, 190, 265, 424-466).
THEOREM PathsOfKnown == Spec => OnlyKnownEntities
<1> DEFINE Rule(c) == \A s \in c.to \cap Clients :
             /\ c.message.type \in {"PATH_FINDING", "ENTITY_INFO"}
                  => c.message.ObjectId \in Told(s)
             /\ c.message.type = "POSITION_SYNC"
                  => c.message.ObjectId \in Told(s)'
           Known == \A k \in DOMAIN calls' : \A c \in calls'[k] : Rule(c)
<1>1. Inv /\ Inv' /\ [Next]_vars => [Known]_vars
  <2> SUFFICES ASSUME Inv, MonitorsAreViewers', Next PROVE Known
    BY InvMonitors, PTL
  <2>1. ASSUME NEW s \in Clients, EnterWorld(s) PROVE Known
    <3> SUFFICES ASSUME NEW k \in DOMAIN calls', NEW c \in calls'[k] PROVE Rule(c)
      OBVIOUS
    <3>1. c.message.type \in {"APPEAR_ENTITY", "SPAWN_ENTITY"}
      BY <2>1 DEF EnterWorld, Direct, Broadcast, Message
    <3> QED
      BY <3>1
  <2>2. ASSUME NEW s \in Clients, NEW node \in Destinations, PathFind(s, node) PROVE Known
    <3> DEFINE e == mSessionToEntity[s]
    <3>1. calls' = << {Broadcast(mViewer[e], Message("PATH_FINDING", e))} >> /\ e \in Entities
      BY <2>2 DEF PathFind, Inv, TypeOK
    <3>2. \A r \in mViewer[e] : e \in Told(r)
      BY <3>1, InvMonitors DEF MonitorsAreViewers
    <3> QED
      BY <3>1, <3>2 DEF Broadcast, Message
  <2>3. ASSUME NEW s \in Clients, NEW number \in InfoNumbers, NEW o \in Entities,
               NextEntityInfo(s, number, o)
        PROVE  Known
    <3> SUFFICES ASSUME NEW k \in DOMAIN calls', NEW c \in calls'[k] PROVE Rule(c)
      OBVIOUS
    <3>1. /\ o \in Told(s)
          /\ c = Direct(s, EntityInfo(number, o)) \/ c = Direct(s, EntityInfo(EntityInfoMax, o))
      BY <2>3 DEF NextEntityInfo, Told
    <3> QED
      BY <3>1 DEF Direct, Broadcast, EntityInfo
  <2>4. ASSUME NEW delta \in Deltas, Update(delta) PROVE Known
    <3>1. PICK step, appear, vanish :
            calls' = << PathCalls(step), SightCalls(appear, vanish),
                        SyncCalls(delta, mPosition', mViewer', mMonitor') >>
      BY <2>4, UpdateParts
    <3>2. Entities' = Entities /\ mSessionId' = mSessionId /\ UseAOI' = UseAOI
      BY <2>4, UpdateParts
    <3>3. \A c \in PathCalls(step) : Rule(c)
      BY PathCallsReach
    <3>4. ASSUME NEW c \in SightCalls(appear, vanish) PROVE Rule(c)
      <4>1. c.message.type \in {"APPEAR_ENTITY", "DISAPPEAR_ENTITY"}
        BY SightCallsAre DEF Direct, Broadcast, Message
      <4> QED
        BY <4>1
    <3>5. \A c \in SyncCalls(delta, mPosition', mViewer', mMonitor') : Rule(c)
      BY <3>2, SyncCallsReach
    <3> HIDE DEF Rule
    <3> QED
      BY <3>1, <3>3, <3>4, <3>5
  <2> HIDE DEF Known
  <2> QED
    BY <2>1, <2>2, <2>3, <2>4 DEF Next
<1> QED
  BY <1>1, WorldInv, PTL DEF Spec, OnlyKnownEntities

\* A timer that was running and is 0 after an Update ran out in it.
LEMMA TimerRanOut ==
  ASSUME NEW period \in Nat, NEW timer \in 0 .. period, NEW delta \in Deltas,
         Elapsed(timer, delta, period) = 0
  PROVE  timer + delta > period
  BY WorldAssumption DEF Elapsed

\* The calls of one phase of an Update that tell the position of e.
LEMMA SyncedByUpdate ==
  ASSUME Inv, NEW delta, NEW e \in Entities, NEW step, NEW appear, NEW vanish,
         calls' = << PathCalls(step), SightCalls(appear, vanish),
                     SyncCalls(delta, mPosition', mViewer', mMonitor') >>
  PROVE  Synced(e)' = UNION {c.to : c \in
           {c \in SyncCalls(delta, mPosition', mViewer', mMonitor') :
              c.message = Message("POSITION_SYNC", e)}}
<1> DEFINE About(c) == c.message = Message("POSITION_SYNC", e)
           sync == SyncCalls(delta, mPosition', mViewer', mMonitor')
<1>1. \A c \in PathCalls(step) : ~About(c)
  BY PathCallsReach DEF Message
<1>2. ASSUME NEW c \in SightCalls(appear, vanish) PROVE ~About(c)
  <2>1. c.message.type \in {"APPEAR_ENTITY", "DISAPPEAR_ENTITY"}
    BY SightCallsAre DEF Direct, Broadcast, Message
  <2> QED
    BY <2>1 DEF Message
<1>3. Synced(e)' = UNION {UNION {c.to : c \in {c \in calls'[k] : About(c)}} : k \in DOMAIN calls'}
  BY DEF Synced, Message
<1> HIDE DEF About, sync
<1>4. DOMAIN calls' = 1 .. 3
  OBVIOUS
<1>5. {c \in calls'[1] : About(c)} = {} /\ {c \in calls'[2] : About(c)} = {}
  BY <1>1, <1>2
<1>6. calls'[3] = sync
  BY DEF sync
<1>7. Synced(e)' = UNION {c.to : c \in {c \in sync : About(c)}}
  BY <1>3, <1>4, <1>5, <1>6
<1> QED
  BY <1>7 DEF sync, About

\* Both bands together are all that an entity is shown to.
BandsCover ==
  \A e \in Entities :
    NearViewers(e, mPosition, mMonitor[e]) \union FarViewers(e, mPosition, mMonitor[e]) = mViewer[e]

LEMMA MonitorsCover == MonitorsAreViewers => BandsCover
  BY DEF NearViewers, FarViewers, MonitorsAreViewers, BandsCover

\* With all its periods over, an entity's position reaches all that see it and
\* nobody else, in either build (World.cpp:418-467).
THEOREM PositionsReachViewers == Spec => SyncReachesViewers
<1> DEFINE RanOut(e) ==
             IF UseAOI THEN /\ mLastFarSync[e] > 0 /\ mLastFarSync'[e] = 0
                            /\ mLastNearSync'[e] = 0
             ELSE mSingleLastSync[e] > 0 /\ mSingleLastSync'[e] = 0
           Reached == \A e \in Entities : RanOut(e) => Synced(e)' = mViewer'[e]
<1>1. Inv /\ Inv' /\ [Next]_vars => [Reached]_vars
  <2> SUFFICES ASSUME Inv, MonitorsAreViewers', BandsCover', Next PROVE Reached
    BY InvMonitors, MonitorsCover, PTL
  <2> SUFFICES ASSUME NEW e \in Entities, RanOut(e) PROVE Synced(e)' = mViewer'[e]
    OBVIOUS
  <2>1. ASSUME NEW s \in Clients, EnterWorld(s) PROVE FALSE
    <3>1. e # nextEntityId
      BY DEF Entities, Inv, TypeOK
    <3>2. /\ mSingleLastSync'[e] = mSingleLastSync[e]
          /\ mLastFarSync'[e] = mLastFarSync[e]
      BY <2>1, <3>1 DEF EnterWorld, Add, Inv, TypeOK
    <3> QED
      BY <3>2
  <2>2. CASE UNCHANGED timers
    BY <2>2 DEF timers
  <2>3. ASSUME NEW delta \in Deltas, Update(delta) PROVE Synced(e)' = mViewer'[e]
    <3>1. PICK step, appear, vanish :
            calls' = << PathCalls(step), SightCalls(appear, vanish),
                        SyncCalls(delta, mPosition', mViewer', mMonitor') >>
      BY <2>3, UpdateParts
    <3>2. Entities' = Entities /\ mSessionId' = mSessionId /\ UseAOI' = UseAOI
      BY <2>3, UpdateParts
    <3> DEFINE calling == {c \in SyncCalls(delta, mPosition', mViewer', mMonitor') :
                             c.message = Message("POSITION_SYNC", e)}
    <3>3. Synced(e)' = UNION {c.to : c \in calling}
      BY <3>1, SyncedByUpdate
    <3>4. CASE ~UseAOI
      <4>1. e \in Due(mSingleLastSync, delta, SinglePeriod)
        <5>1. mSingleLastSync'[e] = Elapsed(mSingleLastSync[e], delta, SinglePeriod)
          BY <2>3, <3>4 DEF Update
        <5> QED
          BY <3>4, <5>1, TimerRanOut, WorldAssumption DEF Due, Inv, TypeOK
      <4>2. calling = {Broadcast(mViewer'[e], Message("POSITION_SYNC", e))}
        BY <3>4, <4>1 DEF SyncCalls, Broadcast, Message
      <4> HIDE DEF calling
      <4> QED
        BY <3>3, <4>2 DEF Broadcast
    <3>5. CASE UseAOI
      <4> DEFINE near == NearViewers(e, mPosition', mMonitor'[e])
                 far == FarViewers(e, mPosition', mMonitor'[e])
      <4>1. /\ e \in Due(mLastNearSync, delta, NearPeriod)
            /\ e \in Due(mLastFarSync, delta, FarPeriod)
        <5>1. /\ mLastNearSync'[e] = Elapsed(mLastNearSync[e], delta, NearPeriod)
              /\ mLastFarSync'[e] = Elapsed(mLastFarSync[e], delta, FarPeriod)
          BY <2>3, <3>5 DEF Update
        <5> QED
          BY <3>5, <5>1, TimerRanOut, WorldAssumption DEF Due, Inv, TypeOK
      <4>2. near \union far = mViewer'[e]
        BY <3>2 DEF BandsCover, NearViewers, FarViewers
      <4> HIDE DEF near, far
      <4>3. calling = {Broadcast(near, Message("POSITION_SYNC", e)),
                       Broadcast(far, Message("POSITION_SYNC", e))}
        BY <3>5, <4>1 DEF SyncCalls, Broadcast, Message, near, far
      <4> HIDE DEF calling
      <4> QED
        BY <3>3, <4>2, <4>3 DEF Broadcast
    <3> QED
      BY <3>4, <3>5
  <2> QED
    BY <2>1, <2>2, <2>3 DEF Next, PathFind, NextEntityInfo
<1> QED
  BY <1>1, WorldInv, PTL DEF Spec, SyncReachesViewers

-----------------------------------------------------------------------------
(* World implements Visibility. *)

\* A client's entity is none of the AI entities, which Initialize makes first,
\* and it sees itself.
ClientsApart ==
  /\ nextEntityId > NumBots
  /\ \A e \in Entities : mSessionId[e] \in Clients => ~IsAI(e) /\ e \in mMonitor[e]

LEMMA InitApart == Init => ClientsApart
<1> SUFFICES ASSUME Init PROVE ClientsApart
  OBVIOUS
<1>1. NumBots \in Nat /\ FirstBotSession \in Nat
  BY WorldAssumption
<1>2. \A e \in Entities : mSessionId[e] \in BotSessions
  BY <1>1 DEF Init, Entities, BotSessions
<1> QED
  BY <1>1, <1>2, SessionAssumption DEF Init, ClientsApart

LEMMA StepApart == Inv /\ ClientsApart /\ [Next]_vars => ClientsApart'
<1> SUFFICES ASSUME Inv, ClientsApart, [Next]_vars PROVE ClientsApart'
  OBVIOUS
<1>1. ASSUME NEW s \in Clients, EnterWorld(s) PROVE ClientsApart'
  <2> DEFINE id == nextEntityId
  <2>1. /\ id \in Nat /\ nextEntityId' = id + 1 /\ id \notin Entities
        /\ Entities' = Entities \union {id} /\ id > NumBots /\ NumBots \in Nat
    BY <1>1, WorldAssumption DEF EnterWorld, Entities, Inv, TypeOK, ClientsApart
  <2>2. \A o \in Entities : mSessionId'[o] = mSessionId[o]
    BY <1>1, <2>1 DEF EnterWorld, Add, Inv, TypeOK
  <2>3. id \in mMonitor'[id]
    BY <1>1, <2>1 DEF EnterWorld, Add
  <2>4. \A o \in Entities : mMonitor[o] \subseteq mMonitor'[o]
    BY <1>1, <2>1 DEF EnterWorld, Add
  <2> QED
    BY <2>1, <2>2, <2>3, <2>4 DEF ClientsApart, IsAI
<1>2. ASSUME NEW delta \in Deltas, Update(delta) PROVE ClientsApart'
  <2>1. PICK appear, vanish :
          /\ mMonitor' = MonitorsAfter(appear, vanish)
          /\ \A e \in Entities :
               vanish[e] = {o \in Entities \ {e} :
                              /\ ~Within(mPosition'[e], mPosition'[o], VisibleRange)
                              /\ mSessionId[o] \in mViewer[e]}
    BY <1>2, UpdateParts
  <2>2. \A e \in Entities : e \in mMonitor[e] => e \in mMonitor'[e]
    BY <2>1 DEF MonitorsAfter
  <2>3. Entities' = Entities /\ mSessionId' = mSessionId /\ nextEntityId' = nextEntityId
    BY <1>2, UpdateParts
  <2> QED
    BY <2>2, <2>3 DEF ClientsApart, IsAI
<1>3. CASE UNCHANGED <<sight, registry>>
  BY <1>3 DEF ClientsApart, sight, registry, Entities, IsAI
<1> QED
  BY <1>1, <1>2, <1>3 DEF Next, PathFind, NextEntityInfo, vars

\* Who the clients' entities are, and what they were told, as Visibility has it.
Avatar == [s \in DOMAIN mSessionToEntity \cap Clients |-> mSessionToEntity[s]]
ToldAll == [s \in Clients |-> Told(s)]

LEMMA AvatarIs ==
  Inv => \A c \in DOMAIN mSessionToEntity \cap Clients :
           Avatar[c] \in Entities /\ mSessionId[Avatar[c]] = c
  BY DEF Avatar, Inv, TypeOK, SessionsMatch

LEMMA SameDistance ==
  ASSUME NEW p, NEW q, NEW r
  PROVE  Promise!Within(p, q, r) <=> Within(p, q, r)
  BY DEF Promise!Within, Promise!DistanceSquared, Within, DistanceSquared

\* In every state a client was told of its own entity and of those in range.
ToldIsArea == \A c \in Clients : Told(c) = Promise!Area(c, mPosition, Avatar)

LEMMA InvArea == Inv /\ ClientsApart => ToldIsArea
<1> SUFFICES ASSUME Inv, ClientsApart, NEW c \in Clients
             PROVE  Told(c) = Promise!Area(c, mPosition, Avatar)
  BY DEF ToldIsArea
<1>1. CASE c \notin DOMAIN mSessionToEntity
  BY <1>1 DEF Told, Promise!Area, Avatar
<1>2. CASE c \in DOMAIN mSessionToEntity
  <2> DEFINE a == Avatar[c]
  <2>1. /\ a \in Entities /\ mSessionId[a] = c /\ a = mSessionToEntity[c]
        /\ c \in DOMAIN Avatar
    BY <1>2, AvatarIs DEF Avatar
  <2>2. Promise!Area(c, mPosition, Avatar) =
          {a} \union {e \in Entities : Within(mPosition[e], mPosition[a], VisibleRange)}
    <3>1. DOMAIN mPosition = Entities
      BY DEF Inv, TypeOK
    <3>2. Promise!Area(c, mPosition, Avatar) =
            {a} \union {e \in Entities : Promise!Within(mPosition[e], mPosition[a], VisibleRange)}
      BY <2>1, <3>1 DEF Promise!Area
    <3> QED
      BY <3>2, SameDistance
  <2>3. Told(c) = mMonitor[a] /\ mMonitor[a] \subseteq Entities
    BY <1>2, <2>1 DEF Told, Inv, TypeOK
  <2>4. a \in mMonitor[a] /\ ~IsAI(a)
    BY <2>1 DEF ClientsApart
  <2>5. ASSUME NEW e \in Entities, e # a
        PROVE  e \in mMonitor[a] <=> Within(mPosition[e], mPosition[a], VisibleRange)
    <3>1. Sees(a, e) <=> e \in mMonitor[a]
      BY <2>1 DEF Sees, Inv, ViewerMonitorDual
    <3> QED
      BY <2>1, <2>4, <2>5, <3>1 DEF Inv, SightExact
  <2> HIDE DEF a
  <2> QED
    BY <2>1, <2>2, <2>3, <2>4, <2>5
<1> QED
  BY <1>1, <1>2

Kinds == {"SPAWN_ENTITY", "APPEAR_ENTITY", "DISAPPEAR_ENTITY"}

\* What the calls of a step tell about sight, and what the change of sight asks
\* to be told, element by element.
LEMMA NoticesAre ==
  ASSUME NEW x
  PROVE  x \in Notices' <=>
           \E k \in DOMAIN calls' : \E c \in calls'[k] : \E s \in c.to \cap Clients :
             c.message.type \in Kinds /\ x = <<s, c.message.type, c.message.ObjectId>>
  BY DEF Notices, Kinds

LEMMA DifferenceIs ==
  ASSUME NEW before, NEW after, NEW avatar, NEW x
  PROVE  x \in Promise!Difference(before, after, avatar) <=>
           \E c \in DOMAIN avatar :
             \/ \E e \in after[c] \ before[c] :
                  x = <<c, IF e = avatar[c] THEN "SPAWN_ENTITY" ELSE "APPEAR_ENTITY", e>>
             \/ \E e \in before[c] \ after[c] : x = <<c, "DISAPPEAR_ENTITY", e>>
  BY DEF Promise!Difference

\* A client's session and its entity name each other.
LEMMA SessionOf ==
  ASSUME Inv, NEW o \in Entities, mSessionId[o] \in Clients
  PROVE  mSessionId[o] \in DOMAIN Avatar /\ Avatar[mSessionId[o]] = o
  BY DEF Inv, SessionsMatch, Avatar

LEMMA EnterTells ==
  ASSUME Inv, ClientsApart, NEW s \in Clients, EnterWorld(s)
  PROVE  /\ s \notin DOMAIN Avatar
         /\ Avatar' = Add(Avatar, s, nextEntityId)
         /\ Notices' = Promise!Difference(ToldAll, ToldAll', Avatar')
<1> DEFINE id == nextEntityId
           InRange == {o \in Entities : Within(NodePosition(SpawnNode), mPosition[o], VisibleRange)}
<1>1. /\ s \notin DOMAIN mSessionToEntity /\ id \notin Entities
      /\ mSessionToEntity' = Add(mSessionToEntity, s, id)
  BY DEF EnterWorld, NotEntered, Entities, Inv, TypeOK
<1>2. /\ DOMAIN Avatar' = DOMAIN Avatar \union {s} /\ s \notin DOMAIN Avatar
      /\ Avatar'[s] = id /\ \A c \in DOMAIN Avatar : Avatar'[c] = Avatar[c]
  BY <1>1 DEF Avatar, Add
<1>3. Avatar' = Add(Avatar, s, id)
  <2>1. Avatar' = [c \in DOMAIN Avatar' |-> Avatar'[c]]
    BY DEF Avatar
  <2> QED
    BY <1>2, <2>1 DEF Add
<1>4. ToldAll[s] = {} /\ ToldAll'[s] = {id} \union InRange
  <2>1. mMonitor'[id] = {id} \union InRange
    BY <1>1 DEF EnterWorld, Add
  <2> QED
    BY <1>1, <2>1 DEF ToldAll, Told, Add
<1>5. ASSUME NEW c \in DOMAIN Avatar
      PROVE  /\ ToldAll'[c] = IF Avatar[c] \in InRange THEN ToldAll[c] \union {id} ELSE ToldAll[c]
             /\ id \notin ToldAll[c] /\ id # Avatar[c] /\ c \in Clients /\ c # s
             /\ mSessionId[Avatar[c]] = c
  <2>1. /\ c \in Clients /\ c \in DOMAIN mSessionToEntity /\ c # s
        /\ Avatar[c] = mSessionToEntity[c] /\ Avatar[c] \in Entities
        /\ mSessionId[Avatar[c]] = c
    BY <1>2, AvatarIs DEF Avatar
  <2>2. mSessionToEntity'[c] = Avatar[c] /\ c \in DOMAIN mSessionToEntity'
    BY <1>1, <2>1 DEF Add
  <2>3. mMonitor'[Avatar[c]] = IF Avatar[c] \in InRange THEN mMonitor[Avatar[c]] \union {id}
                                                        ELSE mMonitor[Avatar[c]]
    BY <1>1, <2>1 DEF EnterWorld, Add
  <2>4. ToldAll[c] = mMonitor[Avatar[c]] /\ ToldAll'[c] = mMonitor'[Avatar[c]]
    BY <2>1, <2>2 DEF ToldAll, Told
  <2>5. mMonitor[Avatar[c]] \subseteq Entities
    BY <2>1 DEF Inv, TypeOK
  <2> QED
    BY <1>1, <2>1, <2>3, <2>4, <2>5
<1>6. \A x : x \in Promise!Difference(ToldAll, ToldAll', Avatar') <=>
        \/ x = <<s, "SPAWN_ENTITY", id>>
        \/ \E o \in InRange : x = <<s, "APPEAR_ENTITY", o>>
        \/ \E c \in DOMAIN Avatar : Avatar[c] \in InRange /\ x = <<c, "APPEAR_ENTITY", id>>
  <2> TAKE x
  <2> DEFINE Part(c) ==
        \/ \E e \in ToldAll'[c] \ ToldAll[c] :
             x = <<c, IF e = Avatar'[c] THEN "SPAWN_ENTITY" ELSE "APPEAR_ENTITY", e>>
        \/ \E e \in ToldAll[c] \ ToldAll'[c] : x = <<c, "DISAPPEAR_ENTITY", e>>
  <2>1. x \in Promise!Difference(ToldAll, ToldAll', Avatar') <=> \E c \in DOMAIN Avatar' : Part(c)
    BY DifferenceIs
  <2>2. Part(s) <=> \/ x = <<s, "SPAWN_ENTITY", id>>
                    \/ \E o \in InRange : x = <<s, "APPEAR_ENTITY", o>>
    <3>1. id \notin InRange
      BY <1>1
    <3> HIDE DEF InRange, id
    <3> QED
      BY <1>2, <1>4, <3>1
  <2>3. ASSUME NEW c \in DOMAIN Avatar
        PROVE  Part(c) <=> Avatar[c] \in InRange /\ x = <<c, "APPEAR_ENTITY", id>>
    <3> HIDE DEF InRange, id
    <3>1. /\ ToldAll'[c] \ ToldAll[c] = IF Avatar[c] \in InRange THEN {id} ELSE {}
          /\ ToldAll[c] \ ToldAll'[c] = {}
          /\ Avatar'[c] # id
      BY <1>2, <1>5
    <3> QED
      BY <3>1
  <2> HIDE DEF Part
  <2> QED
    BY <1>2, <2>1, <2>2, <2>3
<1>7. \A x : x \in Notices' <=>
        \/ x = <<s, "SPAWN_ENTITY", id>>
        \/ \E o \in InRange : x = <<s, "APPEAR_ENTITY", o>>
        \/ \E o \in InRange : mSessionId[o] \in Clients /\ x = <<mSessionId[o], "APPEAR_ENTITY", id>>
  <2> TAKE x
  <2>1. calls' = << {Direct(mSessionId[o], Message("APPEAR_ENTITY", id)) : o \in InRange}
                      \union {Direct(s, Message("APPEAR_ENTITY", o)) : o \in InRange},
                    {Direct(s, Message("SPAWN_ENTITY", id))} >>
    BY DEF EnterWorld
  <2> HIDE DEF InRange, id
  <2> DEFINE Tells(c) == \E r \in c.to \cap Clients :
               c.message.type \in Kinds /\ x = <<r, c.message.type, c.message.ObjectId>>
  <2>2. x \in Notices' <=>
          \/ Tells(Direct(s, Message("SPAWN_ENTITY", id)))
          \/ \E o \in InRange : Tells(Direct(s, Message("APPEAR_ENTITY", o)))
          \/ \E o \in InRange : Tells(Direct(mSessionId[o], Message("APPEAR_ENTITY", id)))
    <3>1. x \in Notices' <=> \E k \in DOMAIN calls' : \E c \in calls'[k] : Tells(c)
      BY NoticesAre
    <3> HIDE DEF Tells
    <3>2. DOMAIN calls' = {1, 2}
      BY <2>1
    <3>3. /\ calls'[1] = {Direct(mSessionId[o], Message("APPEAR_ENTITY", id)) : o \in InRange}
                            \union {Direct(s, Message("APPEAR_ENTITY", o)) : o \in InRange}
          /\ calls'[2] = {Direct(s, Message("SPAWN_ENTITY", id))}
      BY <2>1
    <3> QED
      BY <3>1, <3>2, <3>3
  <2>3. \A r, o : /\ Tells(Direct(r, Message("APPEAR_ENTITY", o)))
                       <=> r \in Clients /\ x = <<r, "APPEAR_ENTITY", o>>
                  /\ Tells(Direct(r, Message("SPAWN_ENTITY", o)))
                       <=> r \in Clients /\ x = <<r, "SPAWN_ENTITY", o>>
    BY DEF Direct, Broadcast, Message, Kinds
  <2> HIDE DEF Tells
  <2> QED
    BY <2>2, <2>3
<1>8. ASSUME NEW x
      PROVE  (\E c \in DOMAIN Avatar : Avatar[c] \in InRange /\ x = <<c, "APPEAR_ENTITY", id>>)
         <=> \E o \in InRange : mSessionId[o] \in Clients /\ x = <<mSessionId[o], "APPEAR_ENTITY", id>>
  BY <1>5, SessionOf
<1> HIDE DEF InRange, id
<1>9. Notices' = Promise!Difference(ToldAll, ToldAll', Avatar')
  BY <1>6, <1>7, <1>8
<1> QED
  BY <1>2, <1>3, <1>9 DEF id

LEMMA UpdateTells ==
  ASSUME Inv, ClientsApart, NEW delta \in Deltas, Update(delta)
  PROVE  Avatar' = Avatar /\ Notices' = Promise!Difference(ToldAll, ToldAll', Avatar')
<1>1. PICK step, appear, vanish :
        /\ mMonitor' = MonitorsAfter(appear, vanish)
        /\ calls' = << PathCalls(step), SightCalls(appear, vanish),
                       SyncCalls(delta, mPosition', mViewer', mMonitor') >>
        /\ \A e \in Entities :
             /\ appear[e] = {o \in Entities \ {e} :
                  /\ Within(mPosition'[e], mPosition'[o], VisibleRange)
                  /\ mSessionId[o] \notin mViewer[e]}
             /\ vanish[e] = {o \in Entities \ {e} :
                  /\ ~Within(mPosition'[e], mPosition'[o], VisibleRange)
                  /\ mSessionId[o] \in mViewer[e]}
  BY UpdateParts
<1>2. /\ Entities' = Entities /\ mSessionId' = mSessionId /\ UseAOI' = UseAOI
      /\ mSessionToEntity' = mSessionToEntity
  BY UpdateParts
<1>3. Avatar' = Avatar
  BY <1>2 DEF Avatar
<1>4. ASSUME NEW c \in DOMAIN Avatar
      PROVE  /\ ToldAll'[c] \ ToldAll[c] = {e \in Entities : Avatar[c] \in appear[e]}
             /\ ToldAll[c] \ ToldAll'[c] = {e \in Entities : Avatar[c] \in vanish[e]}
             /\ Avatar[c] \notin appear[Avatar[c]]
  <2> DEFINE a == Avatar[c]
  <2>1. /\ c \in Clients /\ c \in DOMAIN mSessionToEntity
        /\ a = mSessionToEntity[c] /\ a \in Entities
    BY AvatarIs DEF Avatar
  <2>2. ToldAll[c] = mMonitor[a] /\ ToldAll'[c] = mMonitor'[a]
    BY <1>2, <2>1 DEF ToldAll, Told
  <2> HIDE DEF a
  <2>3. mMonitor'[a] = (mMonitor[a] \union {e \in Entities : a \in appear[e]})
                         \ {e \in Entities : a \in vanish[e]}
    BY <1>1, <2>1 DEF MonitorsAfter
  <2>4. mMonitor[a] \subseteq Entities
        /\ \A e \in Entities : mSessionId[a] \in mViewer[e] <=> e \in mMonitor[a]
    BY <2>1 DEF Inv, TypeOK, ViewerMonitorDual
  <2>5. \A e \in Entities : /\ a \in appear[e] => e \notin mMonitor[a] /\ a \notin vanish[e]
                            /\ a \in vanish[e] => e \in mMonitor[a]
                            /\ a \notin appear[a]
    BY <1>1, <2>1, <2>4
  <2>6. /\ mMonitor'[a] \ mMonitor[a] = {e \in Entities : a \in appear[e]}
        /\ mMonitor[a] \ mMonitor'[a] = {e \in Entities : a \in vanish[e]}
    BY <2>3, <2>4, <2>5
  <2> QED
    BY <2>1, <2>2, <2>5, <2>6 DEF a
<1>5. \A e \in Entities : appear[e] \subseteq Entities /\ vanish[e] \subseteq Entities
  BY <1>1
<1>6. \A x : x \in Promise!Difference(ToldAll, ToldAll', Avatar') <=>
        \E c \in DOMAIN Avatar : \E e \in Entities :
          \/ Avatar[c] \in appear[e] /\ x = <<c, "APPEAR_ENTITY", e>>
          \/ Avatar[c] \in vanish[e] /\ x = <<c, "DISAPPEAR_ENTITY", e>>
  <2> TAKE x
  <2> DEFINE Part(c) ==
        \/ \E e \in ToldAll'[c] \ ToldAll[c] :
             x = <<c, IF e = Avatar'[c] THEN "SPAWN_ENTITY" ELSE "APPEAR_ENTITY", e>>
        \/ \E e \in ToldAll[c] \ ToldAll'[c] : x = <<c, "DISAPPEAR_ENTITY", e>>
  <2>1. x \in Promise!Difference(ToldAll, ToldAll', Avatar') <=> \E c \in DOMAIN Avatar : Part(c)
    BY <1>3, DifferenceIs
  <2>2. ASSUME NEW c \in DOMAIN Avatar
        PROVE  Part(c) <=> \E e \in Entities :
                 \/ Avatar[c] \in appear[e] /\ x = <<c, "APPEAR_ENTITY", e>>
                 \/ Avatar[c] \in vanish[e] /\ x = <<c, "DISAPPEAR_ENTITY", e>>
    <3>1. \A e \in ToldAll'[c] \ ToldAll[c] : e # Avatar'[c]
      BY <1>3, <1>4
    <3>2. Part(c) <=>
            \/ \E e \in ToldAll'[c] \ ToldAll[c] : x = <<c, "APPEAR_ENTITY", e>>
            \/ \E e \in ToldAll[c] \ ToldAll'[c] : x = <<c, "DISAPPEAR_ENTITY", e>>
      BY <3>1
    <3> HIDE DEF Part
    <3> QED
      BY <1>4, <3>2
  <2> HIDE DEF Part
  <2> QED
    BY <2>1, <2>2
<1>7. \A x : x \in Notices' <=>
        \E e \in Entities :
          \/ \E o \in appear[e] : mSessionId[o] \in Clients /\ x = <<mSessionId[o], "APPEAR_ENTITY", e>>
          \/ \E o \in vanish[e] : mSessionId[o] \in Clients /\ x = <<mSessionId[o], "DISAPPEAR_ENTITY", e>>
  <2> TAKE x
  <2> DEFINE Tells(c) == \E r \in c.to \cap Clients :
               c.message.type \in Kinds /\ x = <<r, c.message.type, c.message.ObjectId>>
             sight1 == SightCalls(appear, vanish)
  <2>1. x \in Notices' <=> \E k \in DOMAIN calls' : \E c \in calls'[k] : Tells(c)
    BY NoticesAre
  <2>2. \A c \in PathCalls(step) : ~Tells(c)
    BY PathCallsReach DEF Kinds
  <2>3. \A c \in SyncCalls(delta, mPosition', mViewer', mMonitor') : ~Tells(c)
    BY DEF SyncCalls, Broadcast, Message, Kinds
  <2>4. \A r, e : /\ Tells(Direct(r, Message("APPEAR_ENTITY", e)))
                       <=> r \in Clients /\ x = <<r, "APPEAR_ENTITY", e>>
                  /\ Tells(Direct(r, Message("DISAPPEAR_ENTITY", e)))
                       <=> r \in Clients /\ x = <<r, "DISAPPEAR_ENTITY", e>>
    BY DEF Direct, Broadcast, Message, Kinds
  <2> HIDE DEF Tells
  <2>5. x \in Notices' <=> \E c \in sight1 : Tells(c)
    BY <1>1, <2>1, <2>2, <2>3
  <2>6. (\E c \in sight1 : Tells(c)) <=>
          \E e \in Entities :
            \/ \E o \in appear[e] : Tells(Direct(mSessionId[o], Message("APPEAR_ENTITY", e)))
            \/ \E o \in vanish[e] : Tells(Direct(mSessionId[o], Message("DISAPPEAR_ENTITY", e)))
    BY SightCallsAre
  <2> QED
    BY <2>4, <2>5, <2>6
<1>8. \A c \in DOMAIN Avatar : /\ c \in Clients /\ mSessionId[Avatar[c]] = c
  BY AvatarIs DEF Avatar
<1>9. \A e \in Entities : \A o \in appear[e] \union vanish[e] :
        mSessionId[o] \in Clients => mSessionId[o] \in DOMAIN Avatar /\ Avatar[mSessionId[o]] = o
  BY <1>5, SessionOf
<1>10. ASSUME NEW x
       PROVE  x \in Notices' <=> x \in Promise!Difference(ToldAll, ToldAll', Avatar')
  <2>1. ASSUME x \in Notices' PROVE x \in Promise!Difference(ToldAll, ToldAll', Avatar')
    BY <1>6, <1>7, <1>9, <2>1
  <2>2. ASSUME x \in Promise!Difference(ToldAll, ToldAll', Avatar') PROVE x \in Notices'
    BY <1>6, <1>7, <1>8, <2>2
  <2> QED
    BY <2>1, <2>2
<1> QED
  BY <1>3, <1>10

\* Ids count up without a gap, so the next one is one more than there are.
LEMMA NextId ==
  ASSUME Inv, ClientsApart
  PROVE  /\ DOMAIN mPosition = Entities
         /\ nextEntityId = Cardinality(DOMAIN mPosition) + 1
<1>1. DOMAIN mPosition = Entities /\ nextEntityId \in Nat /\ nextEntityId - 1 \in Nat
  BY WorldAssumption DEF Inv, TypeOK, ClientsApart
<1>2. Cardinality(Entities) = nextEntityId - 1
  <2>1. Cardinality(1 .. nextEntityId - 1) =
          IF 1 > nextEntityId - 1 THEN 0 ELSE (nextEntityId - 1) - 1 + 1
    BY <1>1, FS_Interval
  <2> QED
    BY <1>1, <2>1 DEF Entities
<1>3. Cardinality(DOMAIN mPosition) = nextEntityId - 1
  BY <1>1, <1>2
<1> QED
  BY <1>1, <1>3

\* The promise counts as the world does.
LEMMA SameCount == ASSUME NEW S PROVE Promise!Cardinality(S) = Cardinality(S)
  BY DEF Promise!Cardinality, Cardinality

\* The steps of the world are steps of the promise.
LEMMA InitPromise == Init => Promise!Init
<1> SUFFICES ASSUME Init PROVE Promise!Init
  OBVIOUS
<1>1. Inv /\ ClientsApart
  BY InitInv, InitApart
<1>2. DOMAIN mPosition = 1 .. Cardinality(DOMAIN mPosition)
  <2>1. DOMAIN mPosition = Entities /\ nextEntityId - 1 = Cardinality(DOMAIN mPosition)
    <3>1. nextEntityId \in Nat
      BY <1>1 DEF Inv, TypeOK
    <3>2. nextEntityId = Cardinality(DOMAIN mPosition) + 1 /\ DOMAIN mPosition = Entities
      BY <1>1, NextId
    <3>3. Cardinality(Entities) \in Int
      BY <3>1, FS_Interval DEF Entities
    <3> QED
      BY <3>1, <3>2, <3>3
  <2> QED
    BY <2>1 DEF Entities
<1>3. \A e \in DOMAIN mPosition : mPosition[e] \in Points
  BY <1>1 DEF Inv, TypeOK
<1>4. DOMAIN mSessionToEntity \cap Clients = {}
  BY SessionAssumption DEF Init
<1>5. [s \in DOMAIN mSessionToEntity \cap Clients |-> mSessionToEntity[s]] = [c \in {} |-> 0]
  BY <1>4
<1>6. [s \in Clients |-> Told(s)] = [c \in Clients |-> {}]
  BY <1>4 DEF Told
<1>7. Notices = {}
  BY DEF Init, Notices
<1> QED
  BY <1>2, <1>3, <1>5, <1>6, <1>7, SameCount DEF Promise!Init

LEMMA EnterPromise ==
  ASSUME Inv, ClientsApart, ToldIsArea', NEW s \in Clients, EnterWorld(s)
  PROVE  Promise!Enter(s)
<1>1. /\ s \notin DOMAIN Avatar
      /\ Avatar' = Add(Avatar, s, nextEntityId)
      /\ Notices' = Promise!Difference(ToldAll, ToldAll', Avatar')
  BY EnterTells
<1>2. nextEntityId = Cardinality(DOMAIN mPosition) + 1
  BY NextId
<1>3. mPosition' = Add(mPosition, nextEntityId, NodePosition(SpawnNode))
  BY DEF EnterWorld
<1>4. ToldAll' = [c \in Clients |-> Promise!Area(c, mPosition', Avatar')]
  BY DEF ToldAll, ToldIsArea
<1> QED
  BY <1>1, <1>2, <1>3, <1>4, SameCount DEF Promise!Enter, Promise!Tell, Avatar, ToldAll, Add

LEMMA MovePromise ==
  ASSUME Inv, Inv', ClientsApart, ToldIsArea', NEW delta \in Deltas, Update(delta)
  PROVE  Promise!Move
<1>1. /\ Avatar' = Avatar
      /\ Notices' = Promise!Difference(ToldAll, ToldAll', Avatar')
  BY UpdateTells
<1>2. Entities' = Entities
  BY UpdateParts
<1>3. mPosition' \in [DOMAIN mPosition -> Points]
  BY <1>2 DEF Inv, TypeOK
<1>4. ToldAll' = [c \in Clients |-> Promise!Area(c, mPosition', Avatar')]
  BY DEF ToldAll, ToldIsArea
<1> QED
  BY <1>1, <1>3, <1>4 DEF Promise!Move, Promise!Tell, Avatar, ToldAll

\* A handler that sends nothing about sight and changes none is another step.
LEMMA OtherPromise ==
  ASSUME mPosition' = mPosition, mMonitor' = mMonitor, mSessionToEntity' = mSessionToEntity,
         \A k \in DOMAIN calls' : \A c \in calls'[k] : c.message.type \notin Kinds
  PROVE  Promise!Other
<1>1. Notices' = {}
  BY NoticesAre
<1> QED
  BY <1>1 DEF Promise!Other, Told

\* Both builds implement the promise of Visibility: every client is told, by
\* exactly the notices of EnterWorld and Update, of its own entity and of those
\* in its range, at every moment (World.cpp:70-115, 268-341, 345-399).
THEOREM SightIsPromised == Spec => ImplementsVisibility
<1>1. Spec => []ClientsApart
  <2>1. Init => ClientsApart
    BY InitApart
  <2>2. Inv /\ ClientsApart /\ [Next]_vars => ClientsApart'
    BY StepApart
  <2> QED
    BY <2>1, <2>2, WorldInv, PTL DEF Spec
<1>2. Inv /\ Inv' /\ ClientsApart /\ ClientsApart' /\ [Next]_vars
        => [Promise!Next]_(Promise!vars)
  <2>1. Inv' /\ ClientsApart' => ToldIsArea'
    BY InvArea, PTL
  <2> SUFFICES ASSUME Inv, Inv', ClientsApart, ToldIsArea', [Next]_vars
               PROVE  [Promise!Next]_(Promise!vars)
    BY <2>1
  <2>2. ASSUME NEW s \in Clients, EnterWorld(s) PROVE Promise!Next
    BY <2>2, EnterPromise DEF Promise!Next
  <2>3. ASSUME NEW delta \in Deltas, Update(delta) PROVE Promise!Next
    BY <2>3, MovePromise DEF Promise!Next
  <2>4. ASSUME NEW s \in Clients, NEW node \in Destinations, PathFind(s, node) PROVE Promise!Next
    <3>1. \A k \in DOMAIN calls' : \A c \in calls'[k] : c.message.type \notin Kinds
      BY <2>4 DEF PathFind, Broadcast, Message, Kinds
    <3> QED
      BY <2>4, <3>1, OtherPromise DEF PathFind, sight, registry, Promise!Next
  <2>5. ASSUME NEW s \in Clients, NEW number \in InfoNumbers, NEW o \in Entities,
               NextEntityInfo(s, number, o)
        PROVE  Promise!Next
    <3>1. \A k \in DOMAIN calls' : \A c \in calls'[k] : c.message.type \notin Kinds
      BY <2>5 DEF NextEntityInfo, Direct, Broadcast, EntityInfo, Kinds
    <3> QED
      BY <2>5, <3>1, OtherPromise DEF NextEntityInfo, motion, sight, registry, Promise!Next
  <2>6. CASE UNCHANGED vars
    BY <2>6 DEF vars, motion, sight, registry, Promise!vars, Told, Notices
  <2> QED
    BY <2>2, <2>3, <2>4, <2>5, <2>6 DEF Next
<1> QED
  BY <1>1, <1>2, InitPromise, WorldInv, PTL DEF Spec, ImplementsVisibility, Promise!Spec
=============================================================================
