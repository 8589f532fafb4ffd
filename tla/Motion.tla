------------------------------- MODULE Motion -------------------------------
(***************************************************************************)
(* Where a walking entity is on the server, and where a client shows it.   *)
(* The server moves it in every Update, tells its path when it takes one   *)
(* and its position when a timer is out (SyncTimers).  The client moves    *)
(* its copy by itself in every frame, and corrects it by what it is told:  *)
(* ClientMessageHandler.cpp (PATH_FINDING, POSITION_SYNC), Entity.cpp      *)
(* (MoveTowardsNextPath, PositionCorrection), Client/World.cpp (Update and *)
(* the click of a player, whose own entity walks before the server knows). *)
(*                                                                         *)
(* One coordinate, a path of one turning point.  The clocks of the two     *)
(* programs are not related: any number of frames falls between Updates.   *)
(***************************************************************************)
EXTENDS SyncTimers, Grid, Sequences, Functions

CONSTANTS
  Targets,        \* nodes, by their coordinate, that players walk to
  Starts,         \* those of them it may be at in the beginning
  Speed,          \* way per tick
  SNAP,           \* SNAP_THRESHOLD (10)
  SMOOTH_PATH,    \* SMOOTH_THRESHOLD of PATH_FINDING (1.5) ...
  SMOOTH_SYNC,    \* ... and of POSITION_SYNC (1.0)
  FrameTicks,     \* possible lengths of a frame of the client
  CorrectionTicks,\* CorrectionDuration: an unfinished correction is shorter
  MaxClicks,      \* clicks of the player whose entity this is
  MaxCrossings,   \* how often the viewer changes its band
  MaxWaiting      \* messages under way when an Update makes another one

ASSUME MotionAssumption ==
  /\ Targets \subseteq 0 .. GridSize - 1
  /\ Starts \subseteq Targets
  /\ Speed \in Nat \ {0}
  /\ SMOOTH_SYNC \in Nat /\ SMOOTH_PATH \in Nat /\ SNAP \in Nat
  /\ SMOOTH_SYNC <= SMOOTH_PATH /\ SMOOTH_PATH <= SNAP
  /\ FrameTicks \subseteq Nat \ {0}
  /\ CorrectionTicks \in Nat /\ MaxClicks \in Nat /\ MaxCrossings \in Nat
  /\ MaxWaiting \in Nat

VARIABLES
  own,         \* the viewer is the player whose entity this is
  mPosition,   \* on the server
  mPath,       \* the node it walks to, or NoPath
  shown,       \* the client's copy: position, path and correction
  requests,    \* PATH_FINDING requests and their tasks, under way to the world
  stream,      \* messages the client has not handled, in the order sent
  clicks, crossings,  \* how many there were
  overtaken    \* history: the path handled last is not the last one sent

motionVars ==
  <<own, mPosition, mPath, shown, requests, stream, clicks, crossings, overtaken>>
vars == <<timersVars, motionVars>>

NoPath == -1
Positions == 0 .. WorldSize - 1

\* Variant with a fault: a node's far border, not its middle.
Border(node) == (node + 1) * NodeSize

Middle(node) == node * NodeSize + NodeSize \div 2

Abs(n) == IF n < 0 THEN -n ELSE n

\* PathFinding::FindPath: no path within a node.
FindPath(position, node) == IF NodeCoordinate(position) = node THEN NoPath ELSE node

\* MoveTowardsNextPath over this way: the position and the path after it.
MoveTowardsNextPath(position, path, way) ==
  IF path = NoPath THEN [at |-> position, path |-> NoPath]
  ELSE LET dest == Middle(path)
       IN IF way >= Abs(dest - position) THEN [at |-> dest, path |-> NoPath]
          ELSE [at |-> IF dest > position THEN position + way ELSE position - way, path |-> path]

-----------------------------------------------------------------------------
(* The server. *)

\* World::PathFind for the entity's player: every viewer is told, near or far.
PathFind(node) ==
  /\ node \in requests
  /\ requests' = requests \ {node}
  /\ mPath' = FindPath(mPosition, node)
  /\ stream' = Append(stream, [type |-> "PATH_FINDING", at |-> mPosition, path |-> mPath'])
  /\ UNCHANGED <<timersVars, own, mPosition, shown, clicks, crossings, overtaken>>

\* World::Update: the entity walks, and the viewer may come nearer or go farther;
\* then the timers.
Update(delta) ==
  /\ Len(stream) < MaxWaiting
  /\ LET moved == MoveTowardsNextPath(mPosition, mPath, Speed * delta)
     IN mPosition' = moved.at /\ mPath' = moved.path
  /\ Sync(delta)
  /\ own => band' = "near"
  /\ crossings' = IF band' = band THEN crossings ELSE crossings + 1
  /\ crossings' <= MaxCrossings
  /\ stream' = IF Sends(delta)
               THEN Append(stream, [type |-> "POSITION_SYNC", at |-> mPosition', path |-> NoPath])
               ELSE stream
  /\ UNCHANGED <<own, shown, requests, clicks, overtaken>>

-----------------------------------------------------------------------------
(* The client. *)

Distance(st, m) == Abs(m.at - st.at)

\* The correction of both handlers: far off is put right at once, a little off
\* is put right over the next frames, unless that is already going on.
Correct(st, m, smooth) ==
  IF Distance(st, m) > SNAP THEN [st EXCEPT !.at = m.at, !.mIsCorrection = FALSE]
  ELSE IF Distance(st, m) > smooth /\ ~st.mIsCorrection
  THEN [st EXCEPT !.from = st.at, !.goal = m.at, !.mIsCorrection = TRUE, !.time = 0]
  ELSE st

\* Variant with a fault: a position never starts a correction.
SyncSnapsOnly(st, m) ==
  IF Distance(st, m) > SNAP THEN [st EXCEPT !.at = m.at, !.mIsCorrection = FALSE] ELSE st

\* Variant with a fault: what is far off is not put right at once.
SyncSmoothsOnly(st, m) ==
  IF Distance(st, m) > SNAP THEN st ELSE Correct(st, m, SMOOTH_SYNC)

\* The position is corrected; the path is not looked at.
PositionSync(st, m) == Correct(st, m, SMOOTH_SYNC)

\* The copy takes the path; the time the message was under way is computed from
\* one time stamp twice, so it is not moved ahead.
FollowPath(st, m) == [Correct(st, m, SMOOTH_PATH) EXCEPT !.path = m.path]

Handle(st, m) == IF m.type = "PATH_FINDING" THEN FollowPath(st, m) ELSE PositionSync(st, m)

\* PositionCorrection: Lerp with a weight between 0 and 1, or the end.
Corrected(st, ticks) ==
  IF ~st.mIsCorrection THEN {st}
  ELSE IF st.time + ticks >= CorrectionTicks
  THEN {[st EXCEPT !.at = st.goal, !.mIsCorrection = FALSE]}
  ELSE {[st EXCEPT !.at = p, !.time = st.time + ticks] :
          p \in {p \in Positions : (p - st.from) * (st.goal - p) >= 0}}

\* The fields of a correction are read only while there is one.
Settled(st) == IF st.mIsCorrection THEN st ELSE [st EXCEPT !.from = 0, !.goal = 0, !.time = 0]

\* World::Update of the client.
Moved(st, ticks) ==
  LET moved == MoveTowardsNextPath(st.at, st.path, Speed * ticks)
  IN [st EXCEPT !.at = moved.at, !.path = moved.path]

\* What the copy (a set of one) is after the k oldest messages, which PollMessage
\* takes out in any order.
Polled(k, order) ==
  LET after[i \in 0 .. k] ==
        IF i = 0 THEN {shown} ELSE {Handle(st, stream[order[i]]) : st \in after[i - 1]}
  IN after[k]

IsPath(m) == m.type = "PATH_FINDING"

\* In this order an older path is handled after the newest one.
Overtakes(k, order) ==
  \E i, j \in 1 .. k :
    /\ i < j /\ order[j] < order[i]
    /\ IsPath(stream[order[i]]) /\ IsPath(stream[order[j]])
    /\ \A h \in 1 .. k : IsPath(stream[h]) => h <= order[i]

\* A frame: the messages that came in since the last one are handled in any
\* order, then the entity moves.
Frame(k, ticks) ==
  /\ k <= Len(stream)
  /\ stream' = SubSeq(stream, k + 1, Len(stream))
  /\ UNCHANGED <<timersVars, own, mPosition, mPath, requests, clicks, crossings>>
  /\ \E order \in Bijection(1 .. k, 1 .. k) :
       \E polled \in Polled(k, order) : \E st \in Corrected(Moved(polled, ticks), ticks) :
         /\ shown' = Settled(st)
         /\ overtaken' = IF \E i \in 1 .. k : IsPath(stream[i]) THEN Overtakes(k, order)
                         ELSE overtaken

\* The player clicks: on its own screen the entity walks at once.
Click(node) ==
  /\ clicks < MaxClicks /\ node \notin requests
  /\ clicks' = clicks + 1
  /\ shown' = IF own THEN [shown EXCEPT !.path = FindPath(shown.at, node)] ELSE shown
  /\ requests' = requests \union {node}
  /\ UNCHANGED <<timersVars, own, mPosition, mPath, stream, crossings, overtaken>>

-----------------------------------------------------------------------------
\* The viewer is told of the entity, standing or walking; not of its path.
Init ==
  /\ TimersInit
  /\ own \in BOOLEAN /\ (own => band = "near")
  /\ mPosition \in {Middle(node) : node \in Starts}
  /\ mPath \in {NoPath} \union {FindPath(mPosition, node) : node \in Targets}
  /\ own => mPath = NoPath
  /\ shown = [at |-> mPosition, path |-> NoPath, mIsCorrection |-> FALSE,
              from |-> 0, goal |-> 0, time |-> 0]
  /\ requests = {} /\ stream = <<>>
  /\ clicks = 0 /\ crossings = 0 /\ overtaken = FALSE

Next ==
  \/ \E node \in Targets : PathFind(node)
  \/ \E delta \in Deltas : Update(delta)
  \/ \E k \in 0 .. Len(stream), ticks \in FrameTicks : Frame(k, ticks)
  \/ \E node \in Targets : Click(node)

\* Both programs loop for ever, the server runs its tasks, and the connection
\* delivers.  Nothing is assumed of the players.
Fairness ==
  /\ WF_vars(\E node \in Targets : PathFind(node))
  /\ WF_vars(\E delta \in Deltas : Update(delta))
  /\ WF_vars(\E k \in 0 .. Len(stream), ticks \in FrameTicks :
               Frame(k, ticks) /\ (k = 0 => stream = <<>>))

Spec == Init /\ [][Next]_vars /\ Fairness

-----------------------------------------------------------------------------
(* Properties. *)

TypeOK ==
  /\ mPosition \in Positions /\ mPath \in {NoPath} \union Targets
  /\ shown.at \in Positions /\ shown.path \in {NoPath} \union Targets
  /\ shown.mIsCorrection \in BOOLEAN /\ shown.goal \in Positions
  /\ shown.time \in 0 .. CorrectionTicks
  /\ requests \subseteq Targets
  /\ crossings <= MaxCrossings

Shows(distance) == Abs(shown.at - mPosition) <= distance

\* Whatever the player clicked and the client predicted, however the messages
\* were delayed and the positions shuffled among them, and although the path was
\* not told when the entity came into sight: once the players are done, the client
\* shows the entity for good where it is, up to what a correction leaves alone.
\* Unless the path it took last was not the last one sent: a position
\* (ClientMessageHandler.cpp:137) leaves the path the client has, so that a copy
\* on an old path may be put right and walk off again, for ever.
Settles == <>[](~overtaken => Shows(SMOOTH_SYNC))

\* Whatever path it follows, the copy is brought back again and again, up to what
\* it walks in a frame: POSITION_SYNC puts right also what is far off.
ComesBack == []<>(Shows(SMOOTH_SYNC) \/ \E ticks \in FrameTicks : Shows(Speed * ticks))
=============================================================================
