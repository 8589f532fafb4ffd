-------------------------- MODULE TaskQueueProofs ---------------------------
(***************************************************************************)
(* The task queue for any number of tasks and addresses, every placement   *)
(* by the allocator and every interleaving of the two threads.             *)
(*                                                                         *)
(* NeverEarly is not inductive: it needs that a node in the queue carries  *)
(* the time its task was pushed for, and that a batch holds nothing meant  *)
(* for later than the time that was read.  ExactlyOnce counts, so the sets *)
(* it counts must be finite.                                               *)
(***************************************************************************)
EXTENDS TaskQueue, FiniteSetTheorems, TLAPS

Clock ==
  /\ now \in 0 .. MaxTime
  /\ pc \in {"loop", "tasks", "execute"} /\ currentTime \in 0 .. now

QueueHolds ==
  /\ Queued \subseteq Addresses /\ IsFiniteSet(Queued)
  /\ \A a \in Queued : /\ mTaskQueue[a].task \in DOMAIN pushed
                       /\ mTaskQueue[a].priority = pushed[mTaskQueue[a].task]

BatchHolds ==
  /\ batch \in Seq([address : Addresses, task : DOMAIN pushed])
  /\ \A i \in DOMAIN batch : pushed[batch[i].task] <= currentTime
  /\ next \in 1 .. Len(batch) + 1
  /\ pc # "execute" => batch = <<>>

PushedOK ==
  /\ DOMAIN pushed \subseteq Tasks /\ IsFiniteSet(DOMAIN pushed)
  /\ \A t \in DOMAIN pushed : pushed[t] \in 0 .. MaxTime

ExecutedOK ==
  /\ executed \in Seq([task : DOMAIN pushed, at : Nat])
  /\ NeverEarly

Inv == Clock /\ QueueHolds /\ BatchHolds /\ PushedOK /\ ExecutedOK /\ ExactlyOnce

NotLeft == {i \in DOMAIN batch : i >= next}

\* Until the clock has run for 24 days, a priority is the time it was made from.
LEMMA AsIntIsTime ==
  ASSUME NEW v \in Nat, v < IntModulus \div 2
  PROVE  AsInt(v) = v
<1>1. IntModulus \in Nat /\ IntModulus > 0 /\ IntModulus \div 2 <= IntModulus
  BY TaskAssumption DEF TaskAssumption
<1>2. v < IntModulus
  BY <1>1
<1>3. v % IntModulus = v
  BY <1>1, <1>2
<1> QED BY <1>3 DEF AsInt

LEMMA SeqWiden ==
  ASSUME NEW S, NEW T, S \subseteq T, NEW s \in Seq(S)
  PROVE  s \in Seq(T)
  OBVIOUS

LEMMA SeqElements ==
  ASSUME NEW S, NEW s \in Seq(S)
  PROVE  Len(s) \in Nat /\ DOMAIN s = 1 .. Len(s) /\ \A i \in DOMAIN s : s[i] \in S
  OBVIOUS

LEMMA SeqFromFunction ==
  ASSUME NEW T, NEW n \in Nat, NEW s \in [1 .. n -> T]
  PROVE  s \in Seq(T) /\ Len(s) = n
  OBVIOUS

\* The nodes of the batch that are left are an interval.
LEMMA LeftInterval ==
  ASSUME NEW T, NEW s \in Seq(T), NEW n \in 1 .. Len(s) + 1
  PROVE  /\ {i \in DOMAIN s : i >= n} = n .. Len(s)
         /\ IsFiniteSet({i \in DOMAIN s : i >= n})
         /\ Cardinality({i \in DOMAIN s : i >= n}) = Len(s) + 1 - n
<1>1. {i \in DOMAIN s : i >= n} = n .. Len(s)
  OBVIOUS
<1>2. n \in Int /\ Len(s) \in Int /\ (n > Len(s) => n = Len(s) + 1)
  BY SeqElements
<1>3. IsFiniteSet(n .. Len(s)) /\ Cardinality(n .. Len(s)) = IF n > Len(s) THEN 0 ELSE Len(s) - n + 1
  BY <1>2, FS_Interval
<1>4. Cardinality(n .. Len(s)) = Len(s) + 1 - n
  BY <1>2, <1>3
<1> QED BY <1>1, <1>3, <1>4

LEMMA InvAtStart == Init => Inv
<1> SUFFICES ASSUME Init PROVE Inv
  OBVIOUS
<1>1. Queued = {} /\ DOMAIN pushed = {} /\ batch = <<>> /\ executed = <<>>
  BY DEF Init, Queued
<1>2. {i \in DOMAIN batch : i >= next} = {} /\ Len(executed) = 0
  BY <1>1
<1>3. Clock
  BY TaskAssumption DEF Init, Clock, TaskAssumption
<1>4. QueueHolds /\ BatchHolds /\ PushedOK /\ ExecutedOK
  BY <1>1, FS_EmptySet DEF Init, QueueHolds, BatchHolds, PushedOK, ExecutedOK, NeverEarly
<1>5. ExactlyOnce
  BY <1>1, <1>2, FS_EmptySet DEF ExactlyOnce, Waiting, Left, Done
<1> QED BY <1>3, <1>4, <1>5 DEF Inv

\* A push adds one task, one node, and changes no other.
LEMMA PushKeeps ==
  ASSUME Inv, NEW t \in Tasks, NEW due \in 0 .. MaxTime, AsInt(due) = due, Push(t, due)
  PROVE  Inv'
<1>1. PICK a \in Addresses \ InUse :
        mTaskQueue' = [b \in Queued \union {a} |->
                         IF b = a THEN [task |-> t, priority |-> due] ELSE mTaskQueue[b]]
  BY DEF Push
<1>2. /\ t \notin DOMAIN pushed
      /\ pushed' = [u \in DOMAIN pushed \union {t} |-> IF u = t THEN due ELSE pushed[u]]
      /\ UNCHANGED <<now, pc, currentTime, batch, next, executed>>
  BY DEF Push
<1>3. /\ a \notin Queued /\ Queued' = Queued \union {a}
      /\ a \notin {batch[i].address : i \in DOMAIN batch}
  BY <1>1 DEF InUse, Queued
<1>4. /\ DOMAIN pushed' = DOMAIN pushed \union {t} /\ pushed'[t] = due
      /\ \A u \in DOMAIN pushed : u # t /\ pushed'[u] = pushed[u]
  BY <1>2
<1>5. /\ mTaskQueue'[a] = [task |-> t, priority |-> due]
      /\ \A b \in Queued : b # a /\ mTaskQueue'[b] = mTaskQueue[b]
  BY <1>1, <1>3
<1>6. Clock'
  BY <1>2 DEF Inv, Clock
<1>7. PushedOK'
  BY <1>4, FS_AddElement DEF Inv, PushedOK
<1>8. QueueHolds'
  <2>1. Queued' \subseteq Addresses /\ IsFiniteSet(Queued')
    BY <1>3, FS_AddElement DEF Inv, QueueHolds
  <2>2. ASSUME NEW b \in Queued'
        PROVE  /\ mTaskQueue'[b].task \in DOMAIN pushed'
               /\ mTaskQueue'[b].priority = pushed'[mTaskQueue'[b].task]
    BY <1>3, <1>4, <1>5, <2>2 DEF Inv, QueueHolds
  <2> QED BY <2>1, <2>2 DEF QueueHolds
<1>9. BatchHolds'
  <2>1. batch \in Seq([address : Addresses, task : DOMAIN pushed])
    BY DEF Inv, BatchHolds
  <2>2. [address : Addresses, task : DOMAIN pushed] \subseteq [address : Addresses, task : DOMAIN pushed']
    BY <1>4
  <2>3. batch \in Seq([address : Addresses, task : DOMAIN pushed'])
    BY <2>1, <2>2, SeqWiden
  <2>4. \A i \in DOMAIN batch : pushed'[batch[i].task] <= currentTime
    <3>1. \A i \in DOMAIN batch : batch[i].task \in DOMAIN pushed
      <4>1. \A i \in DOMAIN batch : batch[i] \in [address : Addresses, task : DOMAIN pushed]
        BY <2>1, SeqElements
      <4> QED BY <4>1
    <3> QED BY <1>4, <3>1 DEF Inv, BatchHolds
  <2> QED BY <1>2, <2>3, <2>4 DEF Inv, BatchHolds
<1>10. ExecutedOK'
  <2>1. executed \in Seq([task : DOMAIN pushed, at : Nat]) /\ NeverEarly
    BY DEF Inv, ExecutedOK
  <2>2. [task : DOMAIN pushed, at : Nat] \subseteq [task : DOMAIN pushed', at : Nat]
    BY <1>4
  <2>3. executed \in Seq([task : DOMAIN pushed', at : Nat])
    BY <2>1, <2>2, SeqWiden
  <2>4. \A i \in DOMAIN executed : executed[i].at >= pushed'[executed[i].task]
    <3>1. \A i \in DOMAIN executed : executed[i].task \in DOMAIN pushed
      <4>1. \A i \in DOMAIN executed : executed[i] \in [task : DOMAIN pushed, at : Nat]
        BY <2>1, SeqElements
      <4> QED BY <4>1
    <3> QED BY <1>4, <2>1, <3>1 DEF NeverEarly
  <2> QED BY <1>2, <2>3, <2>4 DEF ExecutedOK, NeverEarly
<1>11. ExactlyOnce'
  <2>1. ExactlyOnce /\ IsFiniteSet(Queued) /\ IsFiniteSet(DOMAIN pushed)
    BY DEF Inv, QueueHolds, PushedOK
  <2>2. Left' = Left /\ Done' = Done /\ NotLeft' = NotLeft /\ Len(executed') = Len(executed)
    BY <1>2 DEF Left, Done, NotLeft
  <2>3. Waiting' = Waiting \union {t}
    BY <1>3, <1>5 DEF Waiting
  <2>4. Cardinality(Queued') = Cardinality(Queued) + 1
    BY <1>3, <2>1, FS_AddElement
  <2>5. Cardinality(DOMAIN pushed') = Cardinality(DOMAIN pushed) + 1
    BY <1>2, <1>4, <2>1, FS_AddElement
  <2>6. Cardinality(NotLeft) = Len(batch) + 1 - next /\ next \in 1 .. Len(batch) + 1 /\ Len(batch) \in Nat
    <3>1. batch \in Seq([address : Addresses, task : DOMAIN pushed]) /\ next \in 1 .. Len(batch) + 1
      BY DEF Inv, BatchHolds
    <3> QED BY <3>1, LeftInterval, SeqElements DEF NotLeft
  <2>7. Cardinality(Queued) \in Nat /\ Cardinality(DOMAIN pushed) \in Nat /\ Len(executed) \in Nat
    BY <2>1, FS_CardinalityType DEF Inv, ExecutedOK
  <2>8. Cardinality(Queued) + Cardinality(NotLeft) + Len(executed) = Cardinality(DOMAIN pushed)
    BY <2>1 DEF ExactlyOnce, NotLeft
  <2>9. Cardinality(Queued') + Cardinality(NotLeft') + Len(executed') = Cardinality(DOMAIN pushed')
    BY <2>2, <2>4, <2>5, <2>6, <2>7, <2>8
  <2>10. Waiting' \union Left' \union Done' = DOMAIN pushed'
    BY <1>4, <2>1, <2>2, <2>3 DEF ExactlyOnce
  <2>11. Queued' \cap {batch'[i].address : i \in DOMAIN batch'} = {}
    BY <1>2, <1>3, <2>1 DEF ExactlyOnce
  <2> QED BY <2>9, <2>10, <2>11 DEF ExactlyOnce, NotLeft
<1> QED BY <1>6, <1>7, <1>8, <1>9, <1>10, <1>11 DEF Inv

\* A batch is what was taken out of the queue, no more and no less.
LEMMA TakeTasksKeeps ==
  ASSUME Inv, TakeTasks
  PROVE  Inv'
<1> DEFINE taken == Taken(currentTime)
<1>0. Clock /\ QueueHolds /\ BatchHolds /\ PushedOK /\ ExecutedOK /\ ExactlyOnce
  BY DEF Inv
<1>1. PICK order \in Ascending(taken) :
        batch' = [i \in DOMAIN order |->
                    [address |-> order[i], task |-> mTaskQueue[order[i]].task]]
  BY DEF TakeTasks
<1>2. /\ pc = "tasks" /\ pc' = "execute" /\ next' = 1
      /\ mTaskQueue' = [a \in Queued \ taken |-> mTaskQueue[a]]
      /\ UNCHANGED <<now, currentTime, pushed, executed>>
  BY DEF TakeTasks, RestOfQueue
<1>3. taken \subseteq Queued /\ \A a \in taken : mTaskQueue[a].priority <= currentTime
  <2>1. ASSUME NEW a \in taken PROVE a \in Addresses /\ a \in Nat
    BY <1>0, <2>1, TaskAssumption DEF Taken, QueueHolds, TaskAssumption
  <2> QED BY <2>1 DEF Taken
<1>4. IsFiniteSet(taken) /\ Cardinality(taken) \in Nat
  BY <1>0, <1>3, FS_Subset, FS_CardinalityType DEF QueueHolds
<1> HIDE DEF taken
<1>5. /\ order \in [1 .. Cardinality(taken) -> taken]
      /\ \A a \in taken : \E i \in DOMAIN order : order[i] = a
  BY DEF Ascending
<1>6. /\ DOMAIN batch' = 1 .. Cardinality(taken)
      /\ \A i \in 1 .. Cardinality(taken) :
           /\ order[i] \in taken
           /\ batch'[i] = [address |-> order[i], task |-> mTaskQueue[order[i]].task]
  BY <1>1, <1>5
<1>7. batch' \in Seq([address : Addresses, task : DOMAIN pushed]) /\ Len(batch') = Cardinality(taken)
  <2>1. \A i \in 1 .. Cardinality(taken) : batch'[i] \in [address : Addresses, task : DOMAIN pushed]
    BY <1>0, <1>3, <1>6 DEF QueueHolds
  <2>2. batch' \in [1 .. Cardinality(taken) -> [address : Addresses, task : DOMAIN pushed]]
    BY <1>1, <1>5, <2>1
  <2> QED BY <1>4, <2>2, SeqFromFunction
<1>8. Queued' = Queued \ taken /\ \A a \in Queued' : mTaskQueue'[a] = mTaskQueue[a]
  BY <1>2 DEF Queued
<1>9. batch = <<>> /\ next = 1
  BY <1>0, <1>2 DEF BatchHolds
<1>10. Clock' /\ PushedOK' /\ ExecutedOK'
  BY <1>0, <1>2 DEF Clock, PushedOK, ExecutedOK, NeverEarly
<1>11. QueueHolds'
  BY <1>0, <1>2, <1>8, FS_Subset DEF QueueHolds
<1>12. BatchHolds'
  <2>1. \A i \in DOMAIN batch' : pushed'[batch'[i].task] <= currentTime'
    BY <1>0, <1>2, <1>3, <1>6 DEF QueueHolds
  <2> QED BY <1>2, <1>4, <1>7, <2>1 DEF BatchHolds
<1>13. ExactlyOnce'
  <2>1. Waiting = {mTaskQueue[a].task : a \in Queued} /\ Left = {} /\ Done' = Done
    BY <1>2, <1>9 DEF Waiting, Left, Done
  <2>2. Left' = {mTaskQueue[a].task : a \in taken}
    <3>1. Left' = {batch'[i].task : i \in 1 .. Cardinality(taken)}
      BY <1>2, <1>4, <1>6 DEF Left
    <3> QED BY <1>5, <1>6, <3>1
  <2>3. Waiting' = {mTaskQueue[a].task : a \in Queued \ taken}
    BY <1>8 DEF Waiting
  <2>4. Waiting' \union Left' = Waiting
    BY <1>3, <2>1, <2>2, <2>3
  <2>5. Cardinality(Queued \ taken) = Cardinality(Queued) - Cardinality(taken)
    <3>1. Queued = (Queued \ taken) \union taken /\ (Queued \ taken) \cap taken = {}
      BY <1>3
    <3>2. IsFiniteSet(Queued) /\ IsFiniteSet(Queued \ taken)
      BY <1>0, FS_Subset DEF QueueHolds
    <3>3. Cardinality(Queued) = Cardinality(Queued \ taken) + Cardinality(taken) - Cardinality({})
      BY <1>4, <3>1, <3>2, FS_Union
    <3>4. Cardinality(Queued \ taken) \in Nat /\ Cardinality(Queued) \in Nat
      BY <3>2, FS_CardinalityType
    <3> QED BY <1>4, <3>3, <3>4, FS_EmptySet
  <2>6. Cardinality(NotLeft) = 0
    BY <1>0, <1>9, FS_EmptySet DEF NotLeft
  <2>7. Cardinality(NotLeft') = Cardinality(taken)
    <3>1. NotLeft' = 1 .. Cardinality(taken)
      BY <1>2, <1>4, <1>6 DEF NotLeft
    <3> QED BY <1>4, <3>1, FS_Interval
  <2>8. Cardinality(Queued) + Cardinality(NotLeft) + Len(executed) = Cardinality(DOMAIN pushed)
    BY <1>0 DEF ExactlyOnce, NotLeft
  <2>9. Cardinality(Queued) \in Nat /\ Len(executed) \in Nat
    BY <1>0, FS_CardinalityType DEF QueueHolds, ExecutedOK
  <2>10. Cardinality(Queued') + Cardinality(NotLeft') + Len(executed') = Cardinality(DOMAIN pushed')
    BY <1>2, <1>4, <1>8, <2>5, <2>6, <2>7, <2>8, <2>9
  <2>11. Waiting' \union Left' \union Done' = DOMAIN pushed'
    BY <1>0, <1>2, <2>1, <2>4 DEF ExactlyOnce
  <2>12. Queued' \cap {batch'[i].address : i \in DOMAIN batch'} = {}
    BY <1>6, <1>8
  <2> QED BY <2>10, <2>11, <2>12 DEF ExactlyOnce, NotLeft
<1> QED BY <1>10, <1>11, <1>12, <1>13 DEF Inv

\* An execution moves one task from what is left to what is done.
LEMMA ExecuteTaskKeeps ==
  ASSUME Inv, ExecuteTask
  PROVE  Inv'
<1>0. Clock /\ QueueHolds /\ BatchHolds /\ PushedOK /\ ExecutedOK /\ ExactlyOnce
  BY DEF Inv
<1> DEFINE entry == [task |-> batch[next].task, at |-> now]
<1>1. /\ pc = "execute" /\ next \in DOMAIN batch /\ next' = next + 1
      /\ executed' = Append(executed, entry)
      /\ UNCHANGED <<now, pc, currentTime, mTaskQueue, batch, pushed>>
  BY DEF ExecuteTask
<1>2. /\ batch \in Seq([address : Addresses, task : DOMAIN pushed])
      /\ next \in 1 .. Len(batch) /\ Len(batch) \in Nat
  BY <1>0, <1>1 DEF BatchHolds
<1>3. entry \in [task : DOMAIN pushed, at : Nat] /\ pushed[entry.task] <= entry.at
  <2>1. batch[next].task \in DOMAIN pushed
    <3>1. batch[next] \in [address : Addresses, task : DOMAIN pushed]
      BY <1>1, <1>2, SeqElements
    <3> QED BY <3>1
  <2>2. pushed[batch[next].task] <= currentTime /\ pushed[batch[next].task] \in Nat
    BY <1>0, <1>1, <2>1 DEF BatchHolds, PushedOK
  <2>3. currentTime \in Nat /\ now \in Nat /\ currentTime <= now
    BY <1>0, TaskAssumption DEF Clock, TaskAssumption
  <2> QED BY <2>1, <2>2, <2>3
<1> HIDE DEF entry
<1>4. Clock' /\ QueueHolds' /\ PushedOK'
  BY <1>0, <1>1 DEF Clock, QueueHolds, Queued, PushedOK
<1>5. BatchHolds'
  BY <1>0, <1>1, <1>2 DEF BatchHolds
<1>6. executed \in Seq([task : DOMAIN pushed, at : Nat])
  BY <1>0 DEF ExecutedOK
<1>7. /\ executed' \in Seq([task : DOMAIN pushed, at : Nat])
      /\ Len(executed') = Len(executed) + 1 /\ executed'[Len(executed) + 1] = entry
      /\ \A i \in 1 .. Len(executed) : executed'[i] = executed[i]
  BY <1>1, <1>3, <1>6
<1>8. ExecutedOK'
  <2>1. ASSUME NEW i \in 1 .. Len(executed) + 1
        PROVE  executed'[i].at >= pushed[executed'[i].task]
    <3>1. CASE i = Len(executed) + 1
      <4>1. pushed[entry.task] \in Nat /\ entry.at \in Nat
        BY <1>0, <1>3 DEF PushedOK
      <4> QED BY <1>3, <1>7, <3>1, <4>1
    <3>2. CASE i \in 1 .. Len(executed)
      BY <1>0, <1>6, <1>7, <3>2 DEF ExecutedOK, NeverEarly
    <3> QED BY <1>6, <3>1, <3>2
  <2> QED BY <1>1, <1>7, <2>1 DEF ExecutedOK, NeverEarly
<1>9. ExactlyOnce'
  <2>1. NotLeft = next .. Len(batch) /\ NotLeft' = next + 1 .. Len(batch)
    BY <1>1, <1>2 DEF NotLeft
  <2>2. Cardinality(NotLeft) = Len(batch) + 1 - next /\ Cardinality(NotLeft') = Len(batch) - next
    BY <1>2, <2>1, FS_Interval
  <2>3. Left = Left' \union {entry.task}
    <3>1. Left = {batch[i].task : i \in NotLeft} /\ Left' = {batch[i].task : i \in NotLeft'}
      BY <1>1 DEF Left, NotLeft
    <3>2. NotLeft = NotLeft' \union {next}
      BY <1>2, <2>1
    <3> QED BY <3>1, <3>2 DEF entry
  <2>4. Done' = Done \union {entry.task}
    <3>1. DOMAIN executed = 1 .. Len(executed) /\ DOMAIN executed' = 1 .. Len(executed) + 1
      BY <1>6, <1>7
    <3>2. DOMAIN executed' = DOMAIN executed \union {Len(executed) + 1}
      BY <1>6, <3>1
    <3> QED BY <1>7, <3>1, <3>2 DEF Done
  <2>5. Cardinality(Queued) + Cardinality(NotLeft) + Len(executed) = Cardinality(DOMAIN pushed)
    BY <1>0 DEF ExactlyOnce, NotLeft
  <2>6. Cardinality(Queued) \in Nat /\ Len(executed) \in Nat
    BY <1>0, <1>6, FS_CardinalityType DEF QueueHolds
  <2>7. Queued' = Queued
    BY <1>1 DEF Queued
  <2>8. Cardinality(Queued') + Cardinality(NotLeft') + Len(executed') = Cardinality(DOMAIN pushed')
    <3>1. DOMAIN pushed' = DOMAIN pushed /\ Len(executed') = Len(executed) + 1
      BY <1>1, <1>7
    <3>2. next \in Nat
      BY <1>2
    <3> QED BY <1>2, <2>2, <2>5, <2>6, <2>7, <3>1, <3>2
  <2>9. Waiting' = Waiting
    BY <1>1 DEF Waiting, Queued
  <2>10. Waiting' \union Left' \union Done' = DOMAIN pushed'
    BY <1>0, <1>1, <2>3, <2>4, <2>9 DEF ExactlyOnce
  <2>11. Queued' \cap {batch'[i].address : i \in DOMAIN batch'} = {}
    BY <1>0, <1>1, <2>7 DEF ExactlyOnce
  <2> QED BY <2>8, <2>10, <2>11 DEF ExactlyOnce, NotLeft
<1> QED BY <1>4, <1>5, <1>8, <1>9 DEF Inv

\* The end of a batch of which nothing is left changes nothing that is counted.
LEMMA ReturnKeeps ==
  ASSUME Inv, ReturnFromTasks
  PROVE  Inv'
<1>0. Clock /\ QueueHolds /\ BatchHolds /\ PushedOK /\ ExecutedOK /\ ExactlyOnce
  BY DEF Inv
<1>1. /\ pc' = "loop" /\ batch' = <<>> /\ next' = 1 /\ next > Len(batch)
      /\ UNCHANGED <<now, currentTime, mTaskQueue, pushed, executed>>
  BY DEF ReturnFromTasks, AllExecuted
<1>2. NotLeft = {} /\ NotLeft' = {} /\ Left = {} /\ Left' = {}
  BY <1>0, <1>1 DEF NotLeft, Left, BatchHolds
<1>3. Clock' /\ QueueHolds' /\ BatchHolds' /\ PushedOK' /\ ExecutedOK'
  BY <1>0, <1>1
     DEF Clock, QueueHolds, BatchHolds, PushedOK, ExecutedOK, NeverEarly, Queued
<1>4. Waiting' = Waiting /\ Done' = Done /\ Queued' = Queued
  BY <1>1 DEF Waiting, Done, Queued
<1>5. Waiting' \union Left' \union Done' = DOMAIN pushed'
  BY <1>0, <1>1, <1>2, <1>4 DEF ExactlyOnce
<1>6. Cardinality(Queued') + Cardinality(NotLeft') + Len(executed') = Cardinality(DOMAIN pushed')
  BY <1>0, <1>1, <1>2, <1>4 DEF ExactlyOnce, NotLeft
<1>7. Queued' \cap {batch'[i].address : i \in DOMAIN batch'} = {}
  BY <1>1
<1> QED BY <1>3, <1>5, <1>6, <1>7 DEF Inv, ExactlyOnce, NotLeft

\* The clock and the reading of it leave the tasks alone.
LEMMA ClockKeeps ==
  ASSUME Inv, ReadTime \/ Tick \/ UNCHANGED vars
  PROVE  Inv'
<1>0. Clock /\ QueueHolds /\ BatchHolds /\ PushedOK /\ ExecutedOK /\ ExactlyOnce
  BY DEF Inv
<1>1. UNCHANGED <<mTaskQueue, batch, next, pushed, executed>>
  BY DEF ReadTime, Tick, vars
<1>2. Clock'
  BY <1>0, TaskAssumption DEF Clock, ReadTime, Tick, vars, TaskAssumption
<1>3. QueueHolds' /\ PushedOK' /\ ExecutedOK'
  BY <1>0, <1>1 DEF QueueHolds, PushedOK, ExecutedOK, NeverEarly, Queued
<1>4. BatchHolds'
  <2>1. CASE ReadTime
    BY <1>0, <1>1, <2>1 DEF BatchHolds, ReadTime
  <2>2. CASE Tick \/ UNCHANGED vars
    BY <1>0, <1>1, <2>2 DEF BatchHolds, Tick, vars
  <2> QED BY <2>1, <2>2
<1>5. ExactlyOnce'
  BY <1>0, <1>1 DEF ExactlyOnce, Waiting, Left, Done, Queued
<1> QED BY <1>2, <1>3, <1>4, <1>5 DEF Inv

THEOREM QueueInv == Spec => []Inv
<1>1. Inv /\ [Next]_vars => Inv'
  <2> SUFFICES ASSUME Inv, [Next]_vars PROVE Inv'
    OBVIOUS
  <2>0. /\ now \in 0 .. MaxTime /\ MaxTime \in Nat
        /\ IntModulus \in Nat /\ IntModulus > 1 /\ IntModulus \div 2 > 0
    BY TaskAssumption DEF Inv, Clock, TaskAssumption
  <2>1. ASSUME NEW t \in Tasks, PushAtOnce(t) PROVE Inv'
    <3>1. AsInt(0) = 0
      BY <2>0, AsIntIsTime
    <3> QED BY <2>0, <2>1, <3>1, PushKeeps DEF PushAtOnce
  <2>2. ASSUME NEW t \in Tasks, NEW delay \in {d \in Delays : now + d <= MaxTime},
               PushTimed(t, delay)
        PROVE  Inv'
    <3>1. delay \in Nat /\ MaxTime + delay < IntModulus \div 2 /\ now + delay <= MaxTime
      BY TaskAssumption DEF TaskAssumption
    <3>2. now + delay \in 0 .. MaxTime /\ AsInt(now + delay) = now + delay
      <4>1. now + delay \in Nat /\ now + delay < IntModulus \div 2
        BY <2>0, <3>1
      <4> QED BY <2>0, <3>1, <4>1, AsIntIsTime
    <3> QED BY <2>2, <3>2, PushKeeps DEF PushTimed
  <2>3. CASE TakeTasks
    BY <2>3, TakeTasksKeeps
  <2>4. CASE ExecuteTask
    BY <2>4, ExecuteTaskKeeps
  <2>5. CASE ReturnFromTasks
    BY <2>5, ReturnKeeps
  <2>6. CASE ReadTime \/ Tick \/ UNCHANGED vars
    BY <2>6, ClockKeeps
  <2> QED BY <2>1, <2>2, <2>3, <2>4, <2>5, <2>6 DEF Next
<1> QED BY InvAtStart, <1>1, PTL DEF Spec

\* Nodes carry tasks that were pushed and times that are not in the past of 0.
THEOREM QueueTypes == Spec => []TypeOK
<1>1. Inv => TypeOK
  <2> SUFFICES ASSUME Inv PROVE TypeOK
    OBVIOUS
  <2>1. Clock /\ QueueHolds /\ BatchHolds /\ PushedOK
    BY DEF Inv
  <2>2. \A a \in Queued : mTaskQueue[a].task \in Tasks /\ mTaskQueue[a].priority \in 0 .. MaxTime
    BY <2>1 DEF QueueHolds, PushedOK
  <2>3. \A i \in DOMAIN batch : batch[i].task \in Tasks /\ batch[i].address \in Addresses
    <3>1. \A i \in DOMAIN batch : batch[i] \in [address : Addresses, task : DOMAIN pushed]
      BY <2>1, SeqElements DEF BatchHolds
    <3> QED BY <2>1, <3>1 DEF PushedOK
  <2> QED BY <2>1, <2>2, <2>3 DEF TypeOK, Clock, QueueHolds, BatchHolds, PushedOK
<1> QED BY QueueInv, <1>1, PTL

\* A task pushed by the network thread is in the queue, in the batch or done,
\* never in two places and never lost (Task.h:72-101).
THEOREM TasksOnce == Spec => []ExactlyOnce
<1>1. Inv => ExactlyOnce
  BY DEF Inv
<1> QED BY QueueInv, <1>1, PTL

\* No task runs before its time (Task.h:90), whatever the order of addresses.
THEOREM TasksNotEarly == Spec => []NeverEarly
<1>1. Inv => NeverEarly
  BY DEF Inv, ExecutedOK
<1> QED BY QueueInv, <1>1, PTL
=============================================================================
