----------------------------- MODULE SyncTimers -----------------------------
(***************************************************************************)
(* How fresh a viewer's knowledge of an entity is: the timers of one       *)
(* entity (the last loop of World::Update) and one viewer that has it in   *)
(* sight all the time, near or far as both walk.                           *)
(*                                                                         *)
(* The single range build has one timer and sends to every viewer.  The    *)
(* dual range build has two; each chooses its viewers by their distance at *)
(* the moment it runs out.                                                 *)
(***************************************************************************)
EXTENDS Integers

CONSTANTS
  SinglePeriod, NearPeriod, FarPeriod,  \* 0.25 s, 0.25 s, 1 s in ticks
  Deltas,                               \* times between two Updates, in ticks
  MaxAge                                \* ages beyond are not told apart

ASSUME TimersAssumption ==
  /\ SinglePeriod \in Nat /\ NearPeriod \in Nat /\ FarPeriod \in Nat
  /\ Deltas \subseteq Nat \ {0}
  /\ MaxAge \in Nat

VARIABLES
  UseAOI,           \* the build
  mSingleLastSync, mLastNearSync, mLastFarSync,
  band,             \* the viewer is "near" or "far"
  inBand,           \* history: time since the first Update in this band
  age               \* history: age of the last position the viewer was sent

timers == <<mSingleLastSync, mLastNearSync, mLastFarSync>>
timersVars == <<UseAOI, timers, band, inBand, age>>

\* The single range build has one band.
Bands == IF UseAOI THEN {"near", "far"} ELSE {"near"}

\* A timer runs out in an Update delta after the last.
Due(timer, delta, period) == timer + delta > period

\* A timer after an Update.
Elapsed(timer, delta, period) == IF Due(timer, delta, period) THEN 0 ELSE timer + delta

\* Variant with a fault: the two bands exchanged.
BandsExchanged(delta) ==
  \/ Due(mLastNearSync, delta, NearPeriod) /\ band' = "far"
  \/ Due(mLastFarSync, delta, FarPeriod) /\ band' = "near"

\* Whether this Update sends the position to the viewer, by its band after moving.
DualSends(delta) ==
  \/ Due(mLastNearSync, delta, NearPeriod) /\ band' = "near"
  \/ Due(mLastFarSync, delta, FarPeriod) /\ band' = "far"

Sends(delta) ==
  IF UseAOI THEN DualSends(delta) ELSE Due(mSingleLastSync, delta, SinglePeriod)

Older(a, delta) == IF a + delta < MaxAge THEN a + delta ELSE MaxAge

\* The viewer is told of the entity, and where it is, while the timers of the
\* build are anywhere in their periods; the others stay 0.
TimersInit ==
  /\ UseAOI \in BOOLEAN
  /\ mSingleLastSync \in IF UseAOI THEN {0} ELSE 0 .. SinglePeriod
  /\ mLastNearSync \in IF UseAOI THEN 0 .. NearPeriod ELSE {0}
  /\ mLastFarSync \in IF UseAOI THEN 0 .. FarPeriod ELSE {0}
  /\ band \in Bands /\ inBand = 0 /\ age = 0

\* The last loop of an Update, for this entity; both may have walked before it.
Sync(delta) ==
  /\ band' \in Bands
  /\ mSingleLastSync' = IF UseAOI THEN mSingleLastSync
                        ELSE Elapsed(mSingleLastSync, delta, SinglePeriod)
  /\ mLastNearSync' = IF UseAOI THEN Elapsed(mLastNearSync, delta, NearPeriod)
                      ELSE mLastNearSync
  /\ mLastFarSync' = IF UseAOI THEN Elapsed(mLastFarSync, delta, FarPeriod)
                     ELSE mLastFarSync
  /\ inBand' = IF band' = band THEN Older(inBand, delta) ELSE 0
  /\ age' = IF Sends(delta) THEN 0 ELSE Older(age, delta)
  /\ UNCHANGED UseAOI

TimersNext == \E delta \in Deltas : Sync(delta)

TimersSpec == TimersInit /\ [][TimersNext]_timersVars

-----------------------------------------------------------------------------
(* Properties. *)

\* In the single build a viewer's position of the entity is never older than the
\* period, whenever it came into sight and however the Updates fall.
\* In the dual build the same holds of each band for a viewer that has been in
\* it for longer than its period: whatever it missed before, by being on the
\* other side of the border whenever a timer ran out, it catches up with.
BandFresh ==
  /\ ~UseAOI => age <= SinglePeriod
  /\ UseAOI /\ band = "near" /\ inBand > NearPeriod => age <= NearPeriod
  /\ UseAOI /\ band = "far" /\ inBand > FarPeriod => age <= FarPeriod

\* README.md:43: positions are sent every 0.25 s to near viewers and every 1 s
\* to far ones.  A viewer in sight, which is always one or the other, would then
\* never wait longer than both periods together.
AlwaysFresh == age <= NearPeriod + FarPeriod
=============================================================================
