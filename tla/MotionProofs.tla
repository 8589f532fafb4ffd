---------------------------- MODULE MotionProofs ----------------------------
(***************************************************************************)
(* How old a viewer's position of an entity gets, for all periods, lengths *)
(* of Updates and speeds: proofs about SyncTimers, alone and as part of    *)
(* Motion.                                                                 *)
(*                                                                         *)
(* The age is compared with the timer that is responsible for it, which is *)
(* never past its period.  A viewer in a band has been sent a position     *)
(* since the timer of the band last ran out, or it came into the band      *)
(* since then; that holds by induction, the claims about periods do not.   *)
(*                                                                         *)
(* The types of Motion (MotionTypes) say that an entity stays within the   *)
(* world on both sides, on paths to nodes: every message under way was     *)
(* made from such a position, and moving towards a place or a Lerp to one  *)
(* does not leave the stretch between.                                     *)
(***************************************************************************)
EXTENDS Motion, FiniteSetTheorems, SequenceTheorems, SetInduction, TLAPS

SincePeriod ==
  /\ ~UseAOI => age <= mSingleLastSync
  /\ UseAOI /\ band = "near" => age <= mLastNearSync \/ inBand <= mLastNearSync
  /\ UseAOI /\ band = "far" => age <= mLastFarSync \/ inBand <= mLastFarSync

TimersOK ==
  /\ UseAOI \in BOOLEAN
  /\ mSingleLastSync \in 0 .. SinglePeriod
  /\ mLastNearSync \in 0 .. NearPeriod
  /\ mLastFarSync \in 0 .. FarPeriod
  /\ band \in Bands
  /\ inBand \in Nat /\ age \in Nat

TimersInv == TimersOK /\ SincePeriod

\* A timer stays within its period: one that would pass it runs out.
LEMMA ElapsedInPeriod ==
  ASSUME NEW period \in Nat, NEW timer \in 0 .. period, NEW delta \in Nat
  PROVE  /\ Elapsed(timer, delta, period) \in 0 .. period
         /\ Due(timer, delta, period) => Elapsed(timer, delta, period) = 0
         /\ ~Due(timer, delta, period) => Elapsed(timer, delta, period) = timer + delta
  BY DEF Elapsed, Due

\* Ages grow with the time, as far as they are told apart.
LEMMA OlderBounds ==
  ASSUME NEW a \in Nat, NEW delta \in Nat
  PROVE  Older(a, delta) \in Nat /\ Older(a, delta) <= a + delta
  BY TimersAssumption DEF Older, TimersAssumption

LEMMA TimersStart == TimersInit => TimersInv
  BY TimersAssumption
     DEF TimersInit, TimersInv, TimersOK, SincePeriod, TimersAssumption

\* An Update of any length keeps the comparison.
LEMMA SyncKeeps ==
  ASSUME TimersInv, NEW delta \in Deltas, Sync(delta)
  PROVE  TimersInv'
<1>0. delta \in Nat /\ delta > 0
  BY TimersAssumption DEF TimersAssumption
<1>1. SinglePeriod \in Nat /\ NearPeriod \in Nat /\ FarPeriod \in Nat
  BY TimersAssumption DEF TimersAssumption
<1>2. /\ Older(age, delta) \in Nat /\ Older(age, delta) <= age + delta
      /\ Older(inBand, delta) \in Nat /\ Older(inBand, delta) <= inBand + delta
  BY <1>0, OlderBounds DEF TimersInv, TimersOK
<1>3. /\ Elapsed(mSingleLastSync, delta, SinglePeriod) \in 0 .. SinglePeriod
      /\ Elapsed(mLastNearSync, delta, NearPeriod) \in 0 .. NearPeriod
      /\ Elapsed(mLastFarSync, delta, FarPeriod) \in 0 .. FarPeriod
  BY <1>0, <1>1, ElapsedInPeriod DEF TimersInv, TimersOK
<1>4. TimersOK'
  BY <1>2, <1>3 DEF TimersInv, TimersOK, Sync, Bands
<1>5. CASE ~UseAOI
  <2>1. CASE Due(mSingleLastSync, delta, SinglePeriod)
    BY <1>5, <2>1, <1>4 DEF Sync, Sends, Elapsed, TimersInv, SincePeriod, TimersOK
  <2>2. CASE ~Due(mSingleLastSync, delta, SinglePeriod)
    <3>1. mSingleLastSync' = mSingleLastSync + delta /\ age' = Older(age, delta)
      BY <1>5, <2>2 DEF Sync, Sends, Elapsed
    <3> QED BY <1>5, <1>0, <1>1, <1>2, <1>4, <3>1 DEF TimersInv, TimersOK, SincePeriod, Sync
  <2> QED BY <2>1, <2>2
<1>6. CASE UseAOI
  <2>1. UseAOI' /\ inBand' \in Nat /\ age' \in Nat
    BY <1>6, <1>4 DEF TimersOK, Sync
  <2>2. ASSUME band' = "near"
        PROVE  age' <= mLastNearSync' \/ inBand' <= mLastNearSync'
    <3>1. CASE band # "near"
      <4>1. inBand' = 0
        BY <2>2, <3>1 DEF Sync
      <4> QED BY <1>1, <1>4, <4>1 DEF TimersOK
    <3>2. CASE Due(mLastNearSync, delta, NearPeriod)
      BY <1>4, <1>6, <2>2, <3>2 DEF Sync, Sends, DualSends, Elapsed, TimersOK
    <3>3. CASE band = "near" /\ ~Due(mLastNearSync, delta, NearPeriod)
      <4>1. /\ mLastNearSync' = mLastNearSync + delta
            /\ inBand' = Older(inBand, delta)
            /\ age' = Older(age, delta)
        BY <1>6, <2>2, <3>3 DEF Sync, Sends, DualSends, Elapsed
      <4> QED BY <1>0, <1>1, <1>2, <1>6, <3>3, <4>1 DEF TimersInv, TimersOK, SincePeriod
    <3> QED BY <3>1, <3>2, <3>3
  <2>3. ASSUME band' = "far"
        PROVE  age' <= mLastFarSync' \/ inBand' <= mLastFarSync'
    <3>1. CASE band # "far"
      <4>1. inBand' = 0
        BY <2>3, <3>1 DEF Sync
      <4> QED BY <1>1, <1>4, <4>1 DEF TimersOK
    <3>2. CASE Due(mLastFarSync, delta, FarPeriod)
      BY <1>4, <1>6, <2>3, <3>2 DEF Sync, Sends, DualSends, Elapsed, TimersOK
    <3>3. CASE band = "far" /\ ~Due(mLastFarSync, delta, FarPeriod)
      <4>1. /\ mLastFarSync' = mLastFarSync + delta
            /\ inBand' = Older(inBand, delta)
            /\ age' = Older(age, delta)
        BY <1>6, <2>3, <3>3 DEF Sync, Sends, DualSends, Elapsed
      <4> QED BY <1>0, <1>1, <1>2, <1>6, <3>3, <4>1 DEF TimersInv, TimersOK, SincePeriod
    <3> QED BY <3>1, <3>2, <3>3
  <2> QED BY <2>1, <2>2, <2>3, <1>4 DEF TimersInv, SincePeriod
<1> QED BY <1>4, <1>5, <1>6 DEF TimersInv

\* Whatever leaves the timers alone keeps it too.
LEMMA TimersStutter ==
  ASSUME TimersInv, UNCHANGED timersVars
  PROVE  TimersInv'
  BY DEF TimersInv, TimersOK, SincePeriod, Bands, timersVars, timers

LEMMA FreshFromInv == TimersInv => BandFresh
  BY TimersAssumption
     DEF TimersInv, TimersOK, SincePeriod, BandFresh, TimersAssumption

\* The comparison holds whatever the world, the players and the client do.
THEOREM MotionInv == Spec => []TimersInv
<1>1. Init => TimersInv
  BY TimersStart DEF Init
<1>2. TimersInv /\ [Next]_vars => TimersInv'
  <2> SUFFICES ASSUME TimersInv, [Next]_vars PROVE TimersInv'
    OBVIOUS
  <2>1. ASSUME NEW delta \in Deltas, Update(delta) PROVE TimersInv'
    BY <2>1, SyncKeeps DEF Update
  <2>2. ASSUME NEW node \in Targets, PathFind(node) \/ Click(node) PROVE TimersInv'
    BY <2>2, TimersStutter DEF PathFind, Click
  <2>3. ASSUME NEW k \in 0 .. Len(stream), NEW ticks \in FrameTicks, Frame(k, ticks)
        PROVE  TimersInv'
    BY <2>3, TimersStutter DEF Frame
  <2>4. CASE UNCHANGED vars
    BY <2>4, TimersStutter DEF vars
  <2> QED BY <2>1, <2>2, <2>3, <2>4 DEF Next
<1> QED BY <1>1, <1>2, PTL DEF Spec

\* In the single build (the timer of World.cpp:484-499) a viewer's position of the
\* entity is never older than the period; in the dual build (412-480) a viewer that has been in
\* a band for longer than its period has a position no older than the period,
\* however often it crossed the border before.
THEOREM BandsStayFresh == Spec => []BandFresh
  BY MotionInv, FreshFromInv, PTL

\* The same of the timers by themselves, without bounds on crossings and messages.
THEOREM TimersStayFresh == TimersSpec => []BandFresh
<1>1. TimersInv /\ [TimersNext]_timersVars => TimersInv'
  BY SyncKeeps, TimersStutter DEF TimersNext
<1> QED BY TimersStart, <1>1, FreshFromInv, PTL DEF TimersSpec

-----------------------------------------------------------------------------
(* What positions, paths and messages are. *)

Paths == {NoPath} \union Targets

Copies == [at : Positions, path : Paths, mIsCorrection : BOOLEAN,
           from : Positions, goal : Positions, time : 0 .. CorrectionTicks]

Messages == [type : {"PATH_FINDING", "POSITION_SYNC"}, at : Positions, path : Paths]

\* TypeOK, and that the messages under way and the start of a correction are
\* positions of the world too: the client goes to both.
MotionOK ==
  /\ mPosition \in Positions /\ mPath \in Paths
  /\ shown \in Copies
  /\ requests \subseteq Targets
  /\ stream \in Seq(Messages)
  /\ crossings <= MaxCrossings

\* The nodes cover the world and end where it ends.
LEMMA GridCovers ==
  /\ GridSize \in Nat \ {0} /\ NodeSize \in Nat \ {0} /\ WorldSize \in Nat \ {0}
  /\ GridSize * NodeSize = WorldSize
  /\ 2 * (NodeSize \div 2) = NodeSize
<1>1. /\ WorldSize \in Nat \ {0} /\ NodeSize \in Nat \ {0} /\ NodeSize <= WorldSize
      /\ WorldSize % NodeSize = 0 /\ NodeSize % 2 = 0
  BY GridAssumption DEF GridAssumption
<1> DEFINE many == WorldSize \div NodeSize
<1>2. many \in Int /\ WorldSize = many * NodeSize
  BY <1>1, Z3
<1>3. 2 * (NodeSize \div 2) = NodeSize
  BY <1>1
<1> HIDE DEF many
<1>4. many > 0
  BY <1>1, <1>2, Z3
<1>5. GridSize = many
  <2>1. 2 * WorldSize + NodeSize = many * (2 * NodeSize) + NodeSize
    BY <1>1, <1>2
  <2> DEFINE wide == 2 * NodeSize
             rounded == (many * wide + NodeSize) \div wide
  <2>2. wide \in Nat \ {0} /\ NodeSize < wide
    BY <1>1
  <2>3. rounded = many
    <3> HIDE DEF wide
    <3> QED BY <1>1, <1>2, <2>2, Z3
  <2> QED BY <2>1, <2>3 DEF GridSize, Round
<1> QED BY <1>1, <1>2, <1>3, <1>4, <1>5

LEMMA MiddleInWorld ==
  ASSUME NEW node \in Targets
  PROVE  node \in Int /\ node # NoPath /\ Middle(node) \in Positions
<1>1. node \in 0 .. GridSize - 1
  BY MotionAssumption DEF MotionAssumption
<1>2. GridSize \in Nat /\ NodeSize \in Nat \ {0} /\ GridSize * NodeSize = WorldSize
  BY GridCovers
<1>3. /\ NodeSize \div 2 \in Nat /\ NodeSize \div 2 < NodeSize
  BY <1>2
<1>4. node * NodeSize \in Nat /\ node * NodeSize + NodeSize <= WorldSize
  <2>1. node \in Nat /\ GridSize - 1 - node \in Nat
    BY <1>1, <1>2
  <2>2. (GridSize - 1 - node) * NodeSize >= 0
    BY <1>2, <2>1, Z3
  <2>3. (GridSize - 1 - node) * NodeSize = GridSize * NodeSize - NodeSize - node * NodeSize
    BY <1>2, <2>1, Z3
  <2> QED BY <1>2, <2>1, <2>2, <2>3, Z3
<1> DEFINE half == NodeSize \div 2
           left == node * NodeSize
<1>5. Middle(node) = left + half
  BY DEF Middle
<1>6. node \in Int /\ node # NoPath
  BY <1>1, <1>2 DEF NoPath
<1> HIDE DEF half, left
<1>7. left + half \in Nat /\ left + half <= WorldSize - 1
  BY <1>2, <1>3, <1>4, GridCovers DEF half, left
<1> QED BY <1>5, <1>6, <1>7, GridCovers DEF Positions

\* Nobody walks past the middle of the node it walks to, so not out of the world.
LEMMA WalksInWorld ==
  ASSUME NEW p \in Positions, NEW path \in Paths, NEW way \in Nat
  PROVE  /\ MoveTowardsNextPath(p, path, way).at \in Positions
         /\ MoveTowardsNextPath(p, path, way).path \in Paths
<1>1. CASE path = NoPath
  BY <1>1 DEF MoveTowardsNextPath, Paths
<1>2. CASE path # NoPath
  <2>1. path \in Targets
    BY <1>2 DEF Paths
  <2>2. Middle(path) \in Positions
    BY <2>1, MiddleInWorld
  <2> DEFINE dest == Middle(path)
  <2>3. dest \in Positions
    BY <2>2
  <2>4. MoveTowardsNextPath(p, path, way)
          = IF way >= Abs(dest - p) THEN [at |-> dest, path |-> NoPath]
            ELSE [at |-> IF dest > p THEN p + way ELSE p - way, path |-> path]
    BY <1>2 DEF MoveTowardsNextPath
  <2> HIDE DEF dest
  <2>5. CASE way >= Abs(dest - p)
    BY <2>3, <2>4, <2>5 DEF Paths
  <2>6. CASE ~(way >= Abs(dest - p))
    <3>1. /\ dest > p => p + way \in Positions
          /\ ~(dest > p) => p - way \in Positions
      BY <2>3, <2>6, GridCovers DEF Positions, Abs
    <3> QED BY <2>4, <2>6, <3>1
  <2> QED BY <2>5, <2>6
<1> QED BY <1>1, <1>2

LEMMA FindPathIsPath ==
  ASSUME NEW p, NEW node \in Targets
  PROVE  FindPath(p, node) \in Paths
  BY DEF FindPath, Paths

-----------------------------------------------------------------------------
(* What the client makes of a copy. *)

LEMMA HandleCopies ==
  ASSUME NEW st \in Copies, NEW m \in Messages
  PROVE  Handle(st, m) \in Copies
<1>1. CorrectionTicks \in Nat
  BY MotionAssumption DEF MotionAssumption
<1>2. ASSUME NEW smooth PROVE Correct(st, m, smooth) \in Copies
  <2>1. [st EXCEPT !.at = m.at, !.mIsCorrection = FALSE] \in Copies
    BY DEF Copies, Messages
  <2>2. [st EXCEPT !.from = st.at, !.goal = m.at, !.mIsCorrection = TRUE, !.time = 0] \in Copies
    <3>1. 0 \in 0 .. CorrectionTicks /\ st.at \in Positions /\ m.at \in Positions
      BY <1>1 DEF Copies, Messages
    <3> QED BY <3>1 DEF Copies
  <2> QED BY <2>1, <2>2 DEF Correct
<1> QED
  BY <1>2 DEF Handle, FollowPath, PositionSync, Copies, Messages

LEMMA MovedCopies ==
  ASSUME NEW st \in Copies, NEW ticks \in FrameTicks
  PROVE  Moved(st, ticks) \in Copies
<1>1. Speed * ticks \in Nat
  BY MotionAssumption DEF MotionAssumption
<1> DEFINE moved == MoveTowardsNextPath(st.at, st.path, Speed * ticks)
<1>2. moved.at \in Positions /\ moved.path \in Paths
  BY <1>1, WalksInWorld DEF Copies
<1>3. Moved(st, ticks) = [st EXCEPT !.at = moved.at, !.path = moved.path]
  BY DEF Moved
<1> HIDE DEF moved
<1> QED BY <1>2, <1>3 DEF Copies

LEMMA CorrectedCopies ==
  ASSUME NEW st \in Copies, NEW ticks \in FrameTicks, NEW corrected \in Corrected(st, ticks)
  PROVE  Settled(corrected) \in Copies
<1>1. CorrectionTicks \in Nat /\ ticks \in Nat /\ 0 \in Positions
  BY MotionAssumption, GridCovers DEF MotionAssumption, Positions
<1>2. corrected \in Copies
  <2>1. CASE ~st.mIsCorrection
    BY <2>1 DEF Corrected
  <2>2. CASE st.mIsCorrection /\ st.time + ticks >= CorrectionTicks
    BY <2>2 DEF Corrected, Copies
  <2>3. CASE st.mIsCorrection /\ ~(st.time + ticks >= CorrectionTicks)
    <3>1. PICK p \in Positions : corrected = [st EXCEPT !.at = p, !.time = st.time + ticks]
      BY <2>3 DEF Corrected
    <3>2. st.time + ticks \in 0 .. CorrectionTicks
      BY <1>1, <2>3 DEF Copies
    <3> QED BY <3>1, <3>2 DEF Copies
  <2> QED BY <2>1, <2>2, <2>3
<1>3. 0 \in 0 .. CorrectionTicks
  BY <1>1
<1>4. [corrected EXCEPT !.from = 0, !.goal = 0, !.time = 0] \in Copies
  BY <1>1, <1>2, <1>3 DEF Copies
<1> QED BY <1>2, <1>4 DEF Settled

\* The copies that Polled goes through, one message after the other: a function
\* that is written with itself, so first that there is one.
Follow(after, i, order) ==
  IF i = 0 THEN {shown} ELSE {Handle(st, stream[order[i]]) : st \in after[i - 1]}

LEMMA PolledEquation ==
  ASSUME NEW k \in Nat, NEW order, NEW f, f = [i \in 0 .. k |-> Follow(f, i, order)]
  PROVE  \E after : /\ after = [i \in 0 .. k |-> Follow(after, i, order)]
                    /\ Polled(k, order) = after[k]
<1> DEFINE after == CHOOSE after : after = [i \in 0 .. k |-> Follow(after, i, order)]
<1>1. Polled(k, order) = after[k]
  BY DEF Polled, Follow
<1> QED
  BY <1>1

LEMMA PolledExists ==
  ASSUME NEW k \in Nat, NEW order
  PROVE  \E f : f = [i \in 0 .. k |-> Follow(f, i, order)]
<1> DEFINE T == {n \in Nat : \E f : f = [i \in 0 .. n |-> Follow(f, i, order)]}
<1>1. 0 \in T
  <2> DEFINE f == [i \in 0 .. 0 |-> {shown}]
  <2>1. f = [i \in 0 .. 0 |-> Follow(f, i, order)]
    BY DEF Follow
  <2> QED BY <2>1
<1>2. ASSUME NEW n \in Nat, n \in T PROVE n + 1 \in T
  <2>1. PICK f : f = [i \in 0 .. n |-> Follow(f, i, order)]
    BY <1>2
  <2> DEFINE g == [i \in 0 .. n + 1 |->
                     IF i = n + 1 THEN {Handle(st, stream[order[n + 1]]) : st \in f[n]}
                     ELSE f[i]]
  <2>2. ASSUME NEW i \in 0 .. n + 1 PROVE g[i] = Follow(g, i, order)
    <3>1. CASE i = 0
      BY <2>1, <3>1 DEF Follow
    <3>2. CASE i = n + 1
      <4>1. i - 1 = n /\ n \in 0 .. n + 1 /\ n # n + 1 /\ i # 0
        BY <3>2
      <4> QED BY <3>2, <4>1 DEF Follow
    <3>3. CASE i \in 1 .. n
      <4>1. /\ i \in 0 .. n /\ i # 0 /\ i # n + 1
            /\ i - 1 \in 0 .. n + 1 /\ i - 1 # n + 1
        BY <3>3
      <4>2. g[i] = f[i] /\ g[i - 1] = f[i - 1]
        BY <4>1
      <4>3. f[i] = Follow(f, i, order)
        BY <2>1, <4>1
      <4> QED BY <4>1, <4>2, <4>3 DEF Follow
    <3> QED BY <3>1, <3>2, <3>3
  <2>3. g = [i \in 0 .. n + 1 |-> Follow(g, i, order)]
    <3>1. g = [i \in 0 .. n + 1 |-> g[i]]
      OBVIOUS
    <3> HIDE DEF g
    <3> QED BY <2>2, <3>1
  <2> HIDE DEF g
  <2> QED BY <2>3
<1>3. \A n \in Nat : n \in T
  <2> HIDE DEF T
  <2> QED BY <1>1, <1>2, Induction
<1> QED BY <1>3

\* In whatever order the messages are taken out, the copy stays one of this world.
LEMMA PolledCopies ==
  ASSUME MotionOK, NEW k \in 0 .. Len(stream), NEW order \in Bijection(1 .. k, 1 .. k)
  PROVE  Polled(k, order) \subseteq Copies
<1>1. k \in Nat /\ Len(stream) \in Nat
  BY DEF MotionOK
<1>2. PICK after : /\ after = [i \in 0 .. k |-> Follow(after, i, order)]
                   /\ Polled(k, order) = after[k]
  <2>1. PICK f : f = [i \in 0 .. k |-> Follow(f, i, order)]
    BY <1>1, PolledExists
  <2> QED BY <1>1, <2>1, PolledEquation
<1>3. ASSUME NEW i \in 1 .. k PROVE stream[order[i]] \in Messages
  <2>1. order[i] \in 1 .. k
    BY DEF Bijection, Injection
  <2> QED BY <1>1, <2>1 DEF MotionOK
<1> DEFINE T == {n \in Nat : n <= k => after[n] \subseteq Copies}
<1>4. 0 \in T
  BY <1>1, <1>2 DEF Follow, MotionOK
<1>5. ASSUME NEW n \in Nat, n \in T PROVE n + 1 \in T
  <2> SUFFICES ASSUME n + 1 <= k PROVE after[n + 1] \subseteq Copies
    OBVIOUS
  <2>1. n <= k /\ n + 1 \in 0 .. k /\ n + 1 \in 1 .. k /\ n + 1 # 0 /\ n + 1 - 1 = n
    BY <1>1
  <2>2. after[n + 1] = {Handle(st, stream[order[n + 1]]) : st \in after[n]}
    BY <1>2, <2>1 DEF Follow
  <2> QED BY <1>3, <1>5, <2>1, <2>2, HandleCopies
<1>6. \A n \in Nat : n \in T
  <2> HIDE DEF T
  <2> QED BY <1>4, <1>5, Induction
<1> QED BY <1>1, <1>2, <1>6

-----------------------------------------------------------------------------

LEMMA MotionStarts == Init => MotionOK
<1> SUFFICES ASSUME Init PROVE MotionOK
  OBVIOUS
<1>1. mPosition \in Positions
  BY MiddleInWorld, MotionAssumption DEF Init, MotionAssumption
<1>2. mPath \in Paths
  BY FindPathIsPath DEF Init, Paths
<1>3. shown \in Copies
  BY <1>1, GridCovers, MotionAssumption DEF Init, Copies, Paths, Positions, MotionAssumption
<1>4. requests \subseteq Targets /\ stream \in Seq(Messages) /\ crossings <= MaxCrossings
  BY MotionAssumption DEF Init, MotionAssumption
<1> QED
  BY <1>1, <1>2, <1>3, <1>4 DEF MotionOK

LEMMA PathFindKeepsMotion ==
  ASSUME MotionOK, NEW node \in Targets, PathFind(node)
  PROVE  MotionOK'
<1>1. mPath' \in Paths
  BY FindPathIsPath DEF PathFind
<1>2. stream' \in Seq(Messages)
  <2>1. [type |-> "PATH_FINDING", at |-> mPosition, path |-> mPath'] \in Messages
    BY <1>1 DEF MotionOK, Messages
  <2> QED BY <2>1 DEF PathFind, MotionOK
<1> QED
  BY <1>1, <1>2 DEF PathFind, MotionOK

LEMMA UpdateKeepsMotion ==
  ASSUME MotionOK, NEW delta \in Deltas, Update(delta)
  PROVE  MotionOK'
<1>1. Speed * delta \in Nat
  BY MotionAssumption, TimersAssumption DEF MotionAssumption, TimersAssumption
<1>2. mPosition' \in Positions /\ mPath' \in Paths
  BY <1>1, WalksInWorld DEF Update, MotionOK
<1>3. stream' \in Seq(Messages)
  <2>1. [type |-> "POSITION_SYNC", at |-> mPosition', path |-> NoPath] \in Messages
    BY <1>2 DEF Messages, Paths
  <2> QED BY <2>1 DEF Update, MotionOK
<1> QED
  BY <1>2, <1>3 DEF Update, MotionOK

LEMMA FrameKeepsMotion ==
  ASSUME MotionOK, NEW k \in 0 .. Len(stream), NEW ticks \in FrameTicks, Frame(k, ticks)
  PROVE  MotionOK'
<1>1. PICK order \in Bijection(1 .. k, 1 .. k) :
        \E polled \in Polled(k, order) : \E st \in Corrected(Moved(polled, ticks), ticks) :
          shown' = Settled(st)
  BY DEF Frame
<1>2. shown' \in Copies
  BY <1>1, PolledCopies, MovedCopies, CorrectedCopies
<1>3. stream' \in Seq(Messages)
  BY SubSeqProperties DEF Frame, MotionOK
<1> QED
  BY <1>2, <1>3 DEF Frame, MotionOK

LEMMA ClickKeepsMotion ==
  ASSUME MotionOK, NEW node \in Targets, Click(node)
  PROVE  MotionOK'
<1>1. shown' \in Copies
  BY FindPathIsPath DEF Click, MotionOK, Copies
<1> QED
  BY <1>1 DEF Click, MotionOK

\* Server and client keep an entity within the world and on paths to nodes
\* players may ask for: MoveTowardsNextPath and PositionCorrection (Entity.cpp)
\* never leave the world, whatever the client predicts, however long its frames
\* are and in whatever order PollMessage takes the messages out.
THEOREM MotionTypes == Spec => []TypeOK
<1>1. MotionOK /\ [Next]_vars => MotionOK'
  <2> SUFFICES ASSUME MotionOK, [Next]_vars PROVE MotionOK'
    OBVIOUS
  <2>1. CASE UNCHANGED vars
    BY <2>1 DEF vars, motionVars, MotionOK
  <2> QED
    BY <2>1, PathFindKeepsMotion, UpdateKeepsMotion, FrameKeepsMotion, ClickKeepsMotion
       DEF Next
<1>2. MotionOK => TypeOK
  BY DEF MotionOK, TypeOK, Copies, Paths
<1> QED BY MotionStarts, <1>1, <1>2, PTL DEF Spec
=============================================================================
