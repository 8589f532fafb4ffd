------------------------------- MODULE World --------------------------------
(***************************************************************************)
(* The server's world (Server/World.cpp): the entities, where they stand   *)
(* and walk, who sees whom, and the messages every handler hands to the    *)
(* network.  All handlers run one after the other on the game thread and   *)
(* nothing else writes this state, so a handler is one action.             *)
(*                                                                         *)
(* UseAOI is the build switch USE_AOI, chosen once at the start: FALSE is  *)
(* the single range build (pairwise search, one sync period), TRUE the     *)
(* dual range build (search through the groups of AOI, near and far        *)
(* viewers and periods).                                                   *)
(*                                                                         *)
(* Entity ids are 1, 2, ... in order of creation and an entity is never    *)
(* removed (LeaveWorld is empty), so every field of Entity is a function   *)
(* on 1 .. nextEntityId - 1.                                               *)
(***************************************************************************)
EXTENDS AOI, Sequences, FiniteSets

CONSTANTS
  NumBots,         \* AI entities made by Initialize (50)
  FirstBotSession, \* session id of the first of them (1000)
  Clients,         \* session ids the network gives to clients (1, 2, ...)
  Points,          \* positions told apart: node middles and points between
  Destinations,    \* nodes a walk may end or turn at
  MaxTurns,        \* turning points of a path before its destination
  WanderRange,     \* how far, per coordinate, an AI aims (50)
  VisibleRange,    \* 150
  NearRange,       \* 75
  InfoNumbers,     \* pieces of information a client asks for (1 .. 3)
  Deltas,          \* possible times between two Updates, in ticks
  SinglePeriod, NearPeriod, FarPeriod   \* 0.25 s, 0.25 s, 1 s in ticks

BotSessions == FirstBotSession .. FirstBotSession + NumBots - 1

SpawnNode == GetNodeFromPosition([x |-> 10, y |-> 10])

ASSUME WorldAssumption ==
  /\ NumBots \in Nat
  /\ FirstBotSession \in Nat
  /\ MaxTurns \in Nat
  /\ WanderRange \in Nat
  /\ VisibleRange \in Nat \ {0}
  /\ NearRange \in Nat /\ NearRange < VisibleRange
  /\ InfoNumbers \subseteq 1 .. 3
  /\ Deltas \subseteq Nat \ {0}
  /\ SinglePeriod \in Nat /\ NearPeriod \in Nat /\ FarPeriod \in Nat

\* Holds while fewer than 1000 connections were accepted: session ids count
\* up from 1 and the AI entities sit at 1000 .. 1049.
ASSUME SessionAssumption ==
  /\ Clients \subseteq Nat
  /\ Clients \cap BotSessions = {}

\* Positions lie in the world, and the nodes walked to are among them.
ASSUME PointsAssumption ==
  /\ Points \subseteq [x : 0 .. WorldSize - 1, y : 0 .. WorldSize - 1]
  /\ Destinations \subseteq Nodes
  /\ \A node \in Destinations \union {SpawnNode} : NodePosition(node) \in Points

VARIABLES
  UseAOI,          \* the build: USE_AOI
  nextEntityId,    \* ENTITY_ID of GetNextEntityId
  mPosition, mPath, mSessionId,
  mViewer,         \* sessions the entity is shown to
  mMonitor,        \* ids of the entities shown to it
  mSingleLastSync, mLastNearSync, mLastFarSync,
  mSessionToEntity,
  calls            \* what the last handler handed to the network, by phase

motion == <<mPosition, mPath>>
sight == <<mViewer, mMonitor>>
timers == <<mSingleLastSync, mLastNearSync, mLastFarSync>>
registry == <<nextEntityId, mSessionId, mSessionToEntity>>
groupState == <<mGroups, mNodeGroupId>>
vars == <<UseAOI, motion, sight, timers, registry, groupState, calls>>

Entities == 1 .. nextEntityId - 1
IsAI(e) == e \in 1 .. NumBots
Sessions == Clients \union BotSessions
Paths == {path \in Seq(Destinations) : Len(path) <= MaxTurns + 1}

-----------------------------------------------------------------------------
(* Messages.  A call of mDirectMessageHandler or mBoradcastMessageHandler  *)
(* is the set of sessions it names and the message.  `calls` holds the     *)
(* phases of a handler in their order; within a phase a session is told of *)
(* an entity at most once, in an order that does not matter to it.         *)

Message(type, e) == [type |-> type, ObjectId |-> e]
EntityInfoMax == 4    \* ENTITY_INFO_MAX
EntityInfo(number, e) ==
  [type |-> "ENTITY_INFO", ObjectId |-> e, InfoNumber |-> number]

Broadcast(to, message) == [to |-> to, message |-> message]
Direct(session, message) == Broadcast({session}, message)

-----------------------------------------------------------------------------
(* Walking. *)

\* PathFinding::FindPath: no path when both positions fall in one node,
\* otherwise turning points and then the destination.
FindPath(p, node) ==
  IF GetNodeFromPosition(p) = node THEN {<<>>}
  ELSE {Append(turns, node) :
          turns \in UNION {[1 .. k -> Destinations] : k \in 0 .. MaxTurns}}

\* Entity::MoveTowardsNextPath for any elapsed time: k waypoints are reached
\* and popped, then part of the way to the next one is covered.
MoveTowardsNextPath(p, path) ==
  LET From(k) == IF k = 0 THEN p ELSE NodePosition(path[k])
      Reached(k) == IF k = Len(path) THEN {From(k)}
                    ELSE {q \in Points : OnTheWay(q, From(k), NodePosition(path[k + 1]))}
  IN UNION {{[pos |-> q, path |-> SubSeq(path, k + 1, Len(path))] : q \in Reached(k)} :
              k \in 0 .. Len(path)}

\* The nodes of the positions within WanderRange of p in each coordinate;
\* NodeCoordinate is monotonic.
WanderNodes(p) ==
  {node \in Destinations :
     /\ NodeCoordinate(p.x - WanderRange) <= node.x
     /\ node.x <= NodeCoordinate(p.x + WanderRange)
     /\ NodeCoordinate(p.y - WanderRange) <= node.y
     /\ node.y <= NodeCoordinate(p.y + WanderRange)}

\* One turn of Update's first loop: what entity e, at p with this path, can
\* become.  An AI that has no way left to go looks for a new one.
Steps(e, p, path) ==
  LET moved == MoveTowardsNextPath(p, path)
      Replan(m) == {[pos |-> m.pos, path |-> new, replan |-> TRUE] :
                      new \in UNION {FindPath(m.pos, node) : node \in WanderNodes(m.pos)}}
  IN UNION {IF IsAI(e) /\ m.path = <<>> THEN Replan(m)
            ELSE {[pos |-> m.pos, path |-> m.path, replan |-> FALSE]} : m \in moved}

\* One step for every entity out of what is possible for each.
Choices(options) ==
  {step \in [Entities -> UNION {options[e] : e \in Entities}] :
     \A e \in Entities : step[e] \in options[e]}

-----------------------------------------------------------------------------
(* Sight. *)

\* The other entities Update compares e with: those of the groups in range,
\* or all of them.  `position` and `groups` are the values of this Update.
Candidates(e, position, groups) ==
  (IF UseAOI
   THEN UNION {groups[g] : g \in GetNodeGroupInRange(position[e], VisibleRange)}
   ELSE Entities) \ {e}

\* The others that see e.
Visible(e, position, groups) ==
  {o \in Candidates(e, position, groups) :
     Within(position[e], position[o], VisibleRange)}

\* Variants with a fault, for the properties below: the loop over pairs cut to
\* half of them; the test of mViewer dropped.
AppearingInHalfThePairs(e, position, groups) ==
  {o \in Visible(e, position, groups) : e < o /\ mSessionId[o] \notin mViewer[e]}
AppearingAgain(e, position, groups) == Visible(e, position, groups)

\* Those among them that did not see it before.
Appearing(e, position, groups) ==
  {o \in Visible(e, position, groups) : mSessionId[o] \notin mViewer[e]}

\* Those that saw e and no longer do.  The dual build walks the viewers that
\* were not found visible, the single build compares every pair.
Vanishing(e, position, groups) ==
  IF UseAOI
  THEN {mSessionToEntity[s] :
          s \in mViewer[e] \ ({mSessionId[e]} \union
                {mSessionId[o] : o \in Visible(e, position, groups)})}
  ELSE {o \in Entities \ {e} : /\ ~Within(position[e], position[o], VisibleRange)
                               /\ mSessionId[o] \in mViewer[e]}

\* mViewer and mMonitor after the search, where appear[e] and vanish[e] are the
\* entities e is newly shown to and hidden from.
ViewersAfter(appear, vanish) ==
  [e \in Entities |-> (mViewer[e] \union {mSessionId[o] : o \in appear[e]})
                         \ {mSessionId[o] : o \in vanish[e]}]

\* Variant: the erase in mMonitor is forgotten.
MonitorsNeverErased(appear, vanish) ==
  [o \in Entities |-> mMonitor[o] \union {e \in Entities : o \in appear[e]}]

MonitorsAfter(appear, vanish) ==
  [o \in Entities |-> (mMonitor[o] \union {e \in Entities : o \in appear[e]})
                         \ {e \in Entities : o \in vanish[e]}]

-----------------------------------------------------------------------------
(* Position sync. *)

\* Variant: the border of the near area belongs to neither band.
NearViewersBelow(e, position, monitor) ==
  {mSessionId[m] : m \in {m \in monitor : Within(position[e], position[m], NearRange)}}

\* The sessions of the entities shown to e (mMonitor) whose distance is in a
\* band; the dual build takes them for the viewers of e.
NearViewers(e, position, monitor) ==
  {mSessionId[m] : m \in {m \in monitor : AtMost(position[e], position[m], NearRange)}}

FarViewers(e, position, monitor) ==
  {mSessionId[m] : m \in {m \in monitor :
     /\ ~AtMost(position[e], position[m], NearRange)
     /\ AtMost(position[e], position[m], VisibleRange)}}

\* Variant: only walking entities are due.
DueWalking(timer, delta, period) ==
  {e \in Entities : timer[e] + delta > period /\ mPath[e] # <<>>}

\* The entities whose period is over in this Update.
Due(timer, delta, period) == {e \in Entities : timer[e] + delta > period}

\* Variant: the timer is not reset.
ElapsedOn(timer, delta, period) == timer + delta

\* The timer of an entity after this Update.
Elapsed(timer, delta, period) == IF timer + delta > period THEN 0 ELSE timer + delta

-----------------------------------------------------------------------------
(* Actions. *)

\* World::World and Initialize: AI entities on any node, nobody sees anybody.
Init ==
  /\ UseAOI \in BOOLEAN
  /\ nextEntityId = NumBots + 1
  /\ mPosition \in [Entities -> {NodePosition(node) : node \in Destinations}]
  /\ mPath = [e \in Entities |-> <<>>]
  /\ mSessionId = [e \in Entities |-> FirstBotSession + e - 1]
  /\ mViewer = [e \in Entities |-> {}]
  /\ mMonitor = [e \in Entities |-> {}]
  /\ mSingleLastSync = [e \in Entities |-> 0]
  /\ mLastNearSync = [e \in Entities |-> 0]
  /\ mLastFarSync = [e \in Entities |-> 0]
  /\ mSessionToEntity = [s \in BotSessions |-> s - FirstBotSession + 1]
  /\ mGroups = [g \in GroupIds |-> {}]
  /\ mNodeGroupId = [e \in Entities |-> NoGroup]
  /\ calls = <<>>

\* f with one more entity.
Add(f, e, v) == [d \in DOMAIN f \union {e} |-> IF d = e THEN v ELSE f[d]]

\* The connect handler runs once per session.  Variant: it may run again.
EntersAgain(s) == TRUE
NotEntered(s) == s \notin DOMAIN mSessionToEntity

\* EnterWorld, the task of a new connection: an entity at the spawn node that
\* sees itself; it and every entity in range are shown to each other.
EnterWorld(s) ==
  LET id == nextEntityId
      spawn == NodePosition(SpawnNode)
      InRange == {o \in Entities : Within(spawn, mPosition[o], VisibleRange)}
  IN /\ NotEntered(s)
     /\ nextEntityId' = id + 1
     /\ mPosition' = Add(mPosition, id, spawn)
     /\ mPath' = Add(mPath, id, <<>>)
     /\ mSessionId' = Add(mSessionId, id, s)
     /\ mViewer' = Add([o \in Entities |-> IF o \in InRange THEN mViewer[o] \union {s}
                                                            ELSE mViewer[o]],
                       id, {s} \union {mSessionId[o] : o \in InRange})
     /\ mMonitor' = Add([o \in Entities |-> IF o \in InRange THEN mMonitor[o] \union {id}
                                                             ELSE mMonitor[o]],
                        id, {id} \union InRange)
     /\ mSingleLastSync' = Add(mSingleLastSync, id, 0)
     /\ mLastNearSync' = Add(mLastNearSync, id, 0)
     /\ mLastFarSync' = Add(mLastFarSync, id, 0)
     /\ mSessionToEntity' = Add(mSessionToEntity, s, id)
     /\ mNodeGroupId' = Add(mNodeGroupId, id, NoGroup)
     /\ calls' = << {Direct(mSessionId[o], Message("APPEAR_ENTITY", id)) : o \in InRange}
                      \union {Direct(s, Message("APPEAR_ENTITY", o)) : o \in InRange},
                    {Direct(s, Message("SPAWN_ENTITY", id))} >>
     /\ UNCHANGED <<UseAOI, mGroups>>

\* PathFind, the task of a client's PATH_FINDING.
PathFind(s, node) ==
  /\ s \in DOMAIN mSessionToEntity
  /\ LET e == mSessionToEntity[s]
     IN /\ \E path \in FindPath(mPosition[e], node) : mPath' = [mPath EXCEPT ![e] = path]
        /\ calls' = << {Broadcast(mViewer[e], Message("PATH_FINDING", e))} >>
  /\ UNCHANGED <<UseAOI, mPosition, sight, timers, registry, groupState>>

\* NextEntityInfo, the task of a client's ENTITY_INFO about o: nothing once o
\* is out of sight.  The dual build answers with one piece of information, the
\* single build with all of them, each marked as the last.  A client asks only
\* after it was told of an entity, hence after it entered.
NextEntityInfo(s, number, o) ==
  /\ s \in DOMAIN mSessionToEntity
  /\ calls' =
       IF o \notin mMonitor[mSessionToEntity[s]] THEN <<>>
       ELSE IF UseAOI THEN << {Direct(s, EntityInfo(number, o))} >>
       ELSE [n \in 1 .. EntityInfoMax - 1 |-> {Direct(s, EntityInfo(EntityInfoMax, o))}]
  /\ UNCHANGED <<UseAOI, motion, sight, timers, registry, groupState>>

\* Variant: whoever is in range by now is told, not those in sight so far.
PathCallsInRange(step) ==
  {Broadcast({mSessionId[o] : o \in {o \in Entities :
                Within(step[e].pos, step[o].pos, VisibleRange)}},
             Message("PATH_FINDING", e)) : e \in {d \in Entities : step[d].replan}}

\* The first phase of Update: the AI entities that replanned tell their new
\* path.  In the dual build the entities after e have not moved yet.
PathCalls(step) ==
  LET Halfway(e) == [d \in Entities |-> IF d <= e THEN step[d].pos ELSE mPosition[d]]
      To(e) == IF UseAOI THEN NearViewers(e, Halfway(e), mMonitor[e]) ELSE mViewer[e]
  IN {Broadcast(To(e), Message("PATH_FINDING", e)) : e \in {d \in Entities : step[d].replan}}

\* The last phase: the entities whose period is over tell their position.
SyncCalls(delta, position, viewer, monitor) ==
  LET Sync(e, to) == Broadcast(to, Message("POSITION_SYNC", e))
  IN IF UseAOI
     THEN {Sync(e, NearViewers(e, position, monitor[e])) : e \in Due(mLastNearSync, delta, NearPeriod)}
          \union
          {Sync(e, FarViewers(e, position, monitor[e])) : e \in Due(mLastFarSync, delta, FarPeriod)}
     ELSE {Sync(e, viewer[e]) : e \in Due(mSingleLastSync, delta, SinglePeriod)}

\* The second phase: who newly sees an entity, and who no longer does.
SightCalls(appear, vanish) ==
  UNION {{Direct(mSessionId[o], Message("APPEAR_ENTITY", e)) : o \in appear[e]}
         \union
         {Direct(mSessionId[o], Message("DISAPPEAR_ENTITY", e)) : o \in vanish[e]} :
           e \in Entities}

\* Update: every entity moves, sight is brought up to date, positions are sent.
\* (A singleton's element is bound where TLC would evaluate a LET many times.)
Update(delta) ==
  \E options \in {[e \in Entities |-> Steps(e, mPosition[e], mPath[e])]} :
  \E step \in Choices(options) :
    /\ mPosition' = [e \in Entities |-> step[e].pos]
    /\ mPath' = [e \in Entities |-> step[e].path]
    /\ IF UseAOI THEN PlaceEntityInGroup(mPosition') ELSE UNCHANGED groupState
    /\ \E appear \in {[e \in Entities |-> Appearing(e, mPosition', mGroups')]},
          vanish \in {[e \in Entities |-> Vanishing(e, mPosition', mGroups')]} :
          /\ mViewer' = ViewersAfter(appear, vanish)
          /\ mMonitor' = MonitorsAfter(appear, vanish)
          /\ calls' = << PathCalls(step), SightCalls(appear, vanish),
                         SyncCalls(delta, mPosition', mViewer', mMonitor') >>
    /\ mSingleLastSync' = IF UseAOI THEN mSingleLastSync
         ELSE [e \in Entities |-> Elapsed(mSingleLastSync[e], delta, SinglePeriod)]
    /\ mLastNearSync' = IF ~UseAOI THEN mLastNearSync
         ELSE [e \in Entities |-> Elapsed(mLastNearSync[e], delta, NearPeriod)]
    /\ mLastFarSync' = IF ~UseAOI THEN mLastFarSync
         ELSE [e \in Entities |-> Elapsed(mLastFarSync[e], delta, FarPeriod)]
    /\ UNCHANGED <<UseAOI, registry>>

Next ==
  \/ \E s \in Clients : EnterWorld(s)
  \/ \E s \in Clients, node \in Destinations : PathFind(s, node)
  \/ \E s \in Clients, number \in InfoNumbers, o \in Entities :
       NextEntityInfo(s, number, o)
  \/ \E delta \in Deltas : Update(delta)

Spec == Init /\ [][Next]_vars

-----------------------------------------------------------------------------
(* Properties. *)

\* Every field holds what its C++ type and use allow; no timer outlives its
\* period, no path is longer than a search may return.
TypeOK ==
  /\ UseAOI \in BOOLEAN
  /\ nextEntityId \in Nat \ {0}
  /\ mPosition \in [Entities -> Points]
  /\ mPath \in [Entities -> Paths]
  /\ mSessionId \in [Entities -> Sessions]
  /\ mViewer \in [Entities -> SUBSET Sessions]
  /\ mMonitor \in [Entities -> SUBSET Entities]
  /\ mSingleLastSync \in [Entities -> 0 .. SinglePeriod]
  /\ mLastNearSync \in [Entities -> 0 .. NearPeriod]
  /\ mLastFarSync \in [Entities -> 0 .. FarPeriod]
  /\ DOMAIN mSessionToEntity \subseteq Sessions
  /\ mSessionToEntity \in [DOMAIN mSessionToEntity -> Entities]
  /\ mGroups \in [GroupIds -> SUBSET Entities]
  /\ mNodeGroupId \in [Entities -> GroupIds \union {NoGroup}]

\* mSessionToEntity and Entity::mSessionId are inverse: every entity has its own
\* session, and looking a viewer's session up (World.cpp:331) finds that viewer.
SessionsMatch ==
  /\ \A e \in Entities : /\ mSessionId[e] \in DOMAIN mSessionToEntity
                          /\ mSessionToEntity[mSessionId[e]] = e
  /\ \A s \in DOMAIN mSessionToEntity : mSessionId[mSessionToEntity[s]] = s

\* Who an entity is shown to is written down twice, as sessions on the one
\* (mViewer) and as ids on the other (mMonitor): the two always agree.
ViewerMonitorDual ==
  \A e, o \in Entities : mSessionId[o] \in mViewer[e] <=> e \in mMonitor[o]

\* o sees e.
Sees(o, e) == mSessionId[o] \in mViewer[e]

\* However it got there - entering, pairwise search, search through groups - an
\* entity sees only entities less than VisibleRange away, and is seen by those
\* it sees; a client's entity misses none of them.  (Two AI entities see each
\* other from the first Update on: Initialize does not look.)
SightExact ==
  \A e, o \in Entities : e # o =>
    /\ Sees(o, e) => Within(mPosition[e], mPosition[o], VisibleRange)
    /\ Sees(o, e) <=> Sees(e, o)
    /\ Within(mPosition[e], mPosition[o], VisibleRange) /\ ~(IsAI(e) /\ IsAI(o))
         => Sees(o, e)

\* Every entity is a member of the group its mNodeGroupId names and of no other.
GroupsMatch ==
  \A e \in Entities, g \in GroupIds : e \in mGroups[g] <=> mNodeGroupId[e] = g

\* The entities client s has been told of by the messages sent so far.
Told(s) == IF s \in DOMAIN mSessionToEntity THEN mMonitor[mSessionToEntity[s]] ELSE {}

\* A client is sent the path, the position or the information of an entity only
\* while it knows that entity: after it was told of its appearance, which an
\* Update sends between paths and positions, and before its disappearance.
OnlyKnownEntities ==
  [][\A k \in DOMAIN calls' : \A c \in calls'[k] : \A s \in c.to \cap Clients :
       /\ c.message.type \in {"PATH_FINDING", "ENTITY_INFO"}
            => c.message.ObjectId \in Told(s)
       /\ c.message.type = "POSITION_SYNC"
            => c.message.ObjectId \in Told(s)']_vars

\* The sessions sent the position of e.
Synced(e) ==
  UNION {UNION {c.to : c \in {c \in calls[k] : c.message = Message("POSITION_SYNC", e)}} :
           k \in DOMAIN calls}

\* When every period of an entity runs out in an Update, its position reaches
\* all that see it and nobody else - though the dual build sends it to the
\* entities it is shown, in two bands of distance.
SyncReachesViewers ==
  [][\A e \in Entities :
       (IF UseAOI THEN /\ mLastFarSync[e] > 0 /\ mLastFarSync'[e] = 0
                       /\ mLastNearSync'[e] = 0
                  ELSE mSingleLastSync[e] > 0 /\ mSingleLastSync'[e] = 0)
         => Synced(e)' = mViewer'[e]]_vars

\* The notices about sight among the calls of the last handler.
Notices ==
  UNION {{<<s, c.message.type, c.message.ObjectId>> : s \in c.to \cap Clients} :
    c \in {c \in UNION {calls[k] : k \in DOMAIN calls} : c.message.type \in
             {"SPAWN_ENTITY", "APPEAR_ENTITY", "DISAPPEAR_ENTITY"}}}

\* Both builds implement the promise of Visibility.
Promise == INSTANCE Visibility WITH
  Spawn <- NodePosition(SpawnNode),
  place <- mPosition,
  avatar <- [s \in DOMAIN mSessionToEntity \cap Clients |-> mSessionToEntity[s]],
  told <- [s \in Clients |-> Told(s)],
  notices <- Notices

ImplementsVisibility == Promise!Spec

\* README.md:44: in the dual build the near area gets position and path, the far
\* area the position only.  PathFind (World.cpp:174) sends a client's path to every
\* viewer, near or far.  The single build has no areas and does so by design.
FarViewersGetNoPath ==
  [][UseAOI => \A k \in DOMAIN calls' : \A c \in calls'[k] :
       c.message.type = "PATH_FINDING" /\ ~IsAI(c.message.ObjectId)
         => \A s \in c.to \cap Clients : AtMost(mPosition'[c.message.ObjectId],
                                  mPosition'[mSessionToEntity'[s]], NearRange)]_vars
=============================================================================
