----------------------------- MODULE TaskQueue ------------------------------
(***************************************************************************)
(* The queue between the network thread, which pushes tasks (Server/Task.h *)
(* and the handlers of Game.cpp and ServerMessageHandler.cpp), and the     *)
(* game thread, which runs them (Game::Run, TaskQueue::ExecuteTasks).      *)
(*                                                                         *)
(* The queue is a multiset of unique_ptr<TaskNode>: its order is that of   *)
(* the nodes' addresses, which the allocator chooses among the free ones.  *)
(* TaskNode::operator<, by priority, is never used.                        *)
(***************************************************************************)
EXTENDS Integers, Sequences, FiniteSets

CONSTANTS
  Tasks,       \* the tasks the network thread will push, each once
  Addresses,   \* where the allocator can put a node
  Delays,      \* delays a handler adds to the server time (0, 100 ms)
  MaxTime,     \* bound of the server's clock
  IntModulus   \* 2^32: uint32_t and int are that wide

ASSUME TaskAssumption ==
  /\ Addresses \subseteq Nat
  /\ Delays \subseteq Nat
  /\ MaxTime \in Nat
  /\ IntModulus \in Nat \ {0} /\ IntModulus % 2 = 0
  \* Until the clock has run for 2^31 ms, 24 days, a priority is a time.
  /\ \A d \in Delays : MaxTime + d < IntModulus \div 2

VARIABLES
  now,         \* GetServerTime
  pc,          \* where the game thread is: "loop", "tasks" or "execute"
  currentTime, \* what it read of the clock before ExecuteTasks (Game.cpp:83)
  mTaskQueue,  \* the queued nodes: address -> [task, priority]
  batch,       \* executeTaskNode: the nodes taken out, in order of execution
  next,        \* index in batch of the next one to execute
  pushed,      \* history: tasks pushed so far, with the time they are meant for
  executed     \* history: tasks executed so far, in order, with the time

vars == <<now, pc, currentTime, mTaskQueue, batch, next, pushed, executed>>

Queued == DOMAIN mTaskQueue

\* A node lives until ExecuteTasks returns; until then its address is taken.
InUse == Queued \union {batch[i].address : i \in DOMAIN batch}

\* Variant with a fault: the priority negated, as for a heap with the largest first.
AsNegative(v) == -(v % IntModulus)

\* static_cast<uint32_t> of the time, plus the delay, as the int inPriority.
AsInt(v) == LET u == v % IntModulus
            IN IF u < IntModulus \div 2 THEN u ELSE u - IntModulus

-----------------------------------------------------------------------------
Init ==
  /\ now = 0
  /\ pc = "loop" /\ currentTime = 0
  /\ mTaskQueue = [a \in {} |-> 0]
  /\ batch = <<>> /\ next = 1
  /\ pushed = [t \in {} |-> 0]
  /\ executed = <<>>

\* PushTask on the network thread, under mTaskQueueMutex.
Push(t, due) ==
  /\ t \notin DOMAIN pushed
  /\ pushed' = [u \in DOMAIN pushed \union {t} |-> IF u = t THEN due ELSE pushed[u]]
  /\ \E a \in Addresses \ InUse :
       mTaskQueue' = [b \in Queued \union {a} |->
                        IF b = a THEN [task |-> t, priority |-> AsInt(due)]
                                 ELSE mTaskQueue[b]]
  /\ UNCHANGED <<now, pc, currentTime, batch, next, executed>>

\* Game.cpp:47,53: a connect or a disconnect, priority 0.
PushAtOnce(t) == Push(t, 0)

\* ServerMessageHandler.cpp:37-38, 55-62: a request, now or after a delay.
PushTimed(t, delay) == Push(t, now + delay)

\* Variant with a fault: nodes before one that is due go with it.
TakenAlong(time) ==
  {a \in Queued : \E b \in Queued : a <= b /\ mTaskQueue[b].priority <= time}

\* The nodes before the first, in address order, that is not due.
Taken(time) == {a \in Queued : \A b \in Queued : b <= a => mTaskQueue[b].priority <= time}

\* The addresses in ascending order.
Ascending(S) ==
  {order \in [1 .. Cardinality(S) -> S] :
     /\ \A a \in S : \E i \in DOMAIN order : order[i] = a
     /\ \A i, j \in DOMAIN order : i < j => order[i] < order[j]}

\* Variant: the nodes are executed but stay in the queue.
KeptQueue(taken) == mTaskQueue

\* The queue without the nodes extracted.
RestOfQueue(taken) == [a \in Queued \ taken |-> mTaskQueue[a]]

\* Game::Run: the clock is read, and ExecuteTasks is called with what it said.
ReadTime ==
  /\ pc = "loop"
  /\ pc' = "tasks" /\ currentTime' = now
  /\ UNCHANGED <<now, mTaskQueue, batch, next, pushed, executed>>

\* ExecuteTasks, first half: under the lock the due nodes are moved to a vector.
TakeTasks ==
  /\ pc = "tasks"
  /\ \E order \in Ascending(Taken(currentTime)) :
       batch' = [i \in DOMAIN order |->
                   [address |-> order[i], task |-> mTaskQueue[order[i]].task]]
  /\ mTaskQueue' = RestOfQueue(Taken(currentTime))
  /\ pc' = "execute" /\ next' = 1
  /\ UNCHANGED <<now, currentTime, pushed, executed>>

\* ExecuteTasks, second half: one node is executed, without the lock.
ExecuteTask ==
  /\ pc = "execute" /\ next \in DOMAIN batch
  /\ executed' = Append(executed, [task |-> batch[next].task, at |-> now])
  /\ next' = next + 1
  /\ UNCHANGED <<now, pc, currentTime, mTaskQueue, batch, pushed>>

\* Variant: the vector is left before its last node was executed.
ReturnsAt(i) == i >= Len(batch)

\* The vector and its nodes are destroyed when all were executed.
AllExecuted(i) == i > Len(batch)

ReturnFromTasks ==
  /\ pc = "execute" /\ AllExecuted(next)
  /\ pc' = "loop" /\ batch' = <<>> /\ next' = 1
  /\ UNCHANGED <<now, currentTime, mTaskQueue, pushed, executed>>

\* Time passes.
Tick ==
  /\ now < MaxTime
  /\ now' = now + 1
  /\ UNCHANGED <<pc, currentTime, mTaskQueue, batch, next, pushed, executed>>

Next ==
  \/ \E t \in Tasks : PushAtOnce(t)
  \/ \E t \in Tasks, delay \in {d \in Delays : now + d <= MaxTime} : PushTimed(t, delay)
  \/ ReadTime
  \/ TakeTasks
  \/ ExecuteTask
  \/ ReturnFromTasks
  \/ Tick

\* Game::Run loops for ever, and the clock runs by itself.
Fairness ==
  /\ WF_vars(ReadTime)
  /\ WF_vars(TakeTasks)
  /\ WF_vars(ExecuteTask)
  /\ WF_vars(ReturnFromTasks)
  /\ WF_vars(Tick)

Spec == Init /\ [][Next]_vars /\ Fairness

-----------------------------------------------------------------------------
(* Properties. *)

TypeOK ==
  /\ now \in 0 .. MaxTime
  /\ Queued \subseteq Addresses
  /\ \A a \in Queued : /\ mTaskQueue[a].task \in Tasks
                       /\ mTaskQueue[a].priority \in 0 .. MaxTime
  /\ \A i \in DOMAIN batch : batch[i].task \in Tasks /\ batch[i].address \in Addresses
  /\ pc \in {"loop", "tasks", "execute"} /\ currentTime \in 0 .. now
  /\ next \in 1 .. Len(batch) + 1
  /\ DOMAIN pushed \subseteq Tasks

\* The tasks waiting in the queue and in the batch, and those executed.
Waiting == {mTaskQueue[a].task : a \in Queued}
Left == {batch[i].task : i \in {i \in DOMAIN batch : i >= next}}
Done == {executed[i].task : i \in DOMAIN executed}

\* However pushes fall between the extraction, the executions and the end of a
\* batch, a task pushed is in exactly one place and is executed at most once,
\* and no two live nodes share an address.
ExactlyOnce ==
  /\ Waiting \union Left \union Done = DOMAIN pushed
  /\ Cardinality(Queued) + Cardinality({i \in DOMAIN batch : i >= next}) + Len(executed)
       = Cardinality(DOMAIN pushed)
  /\ Queued \cap {batch[i].address : i \in DOMAIN batch} = {}

\* No task runs before the time it was pushed for: the delay of an information
\* (ServerMessageHandler.cpp:53) is never cut short.
NeverEarly == \A i \in DOMAIN executed : executed[i].at >= pushed[executed[i].task]

\* A task pushed is executed, though a node that is not due at a lower address
\* holds it up (Task.h:90): the clock makes that node due, and nothing is pushed
\* for ever in its place.  With an endless stream of later tasks at lower
\* addresses this would not hold.
EventuallyExecuted == \A t \in Tasks : t \in DOMAIN pushed ~> t \in Done

\* Task.h:25-28 orders nodes by priority: a batch is in that order, and what it
\* leaves in the queue comes after it.
InPriorityOrder ==
  [][pc = "tasks" /\ pc' = "execute" =>
       LET due(i) == pushed'[batch'[i].task]
       IN \A i \in DOMAIN batch' :
            /\ \A j \in i .. Len(batch') : due(i) <= due(j)
            /\ \A a \in Queued' : due(i) <= pushed'[mTaskQueue'[a].task]]_vars
=============================================================================
