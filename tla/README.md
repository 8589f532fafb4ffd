# Verification of AreaOfInterest

AreaOfInterest is a small MMO server and client in C++. A server keeps walking
entities (50 bots, and one entity per connected client) and tells every client
only of what is near it. The repository compares two ways to do so, chosen by
the build switch `USE_AOI` (Server/World.h:14):

- the *single range* build compares all pairs of entities and sends every
  position to everyone within 150 units, four times a second;
- the *dual range* build looks entities up through square groups of nodes, and
  sends positions four times a second up to 75 units and once a second up to 150.

This directory holds TLA+ modules that model the server and a client of it, TLC configurations that
check them on small instances, and proofs that TLAPS checks for every instance.
`PROJECT.json` lists the parts, runs, mutants, mapped source lines, hazards,
findings and theorems.

## The system

    client process                       server process
    +--------------------------+         +----------------------------------------+
    | main thread              |         | network thread (io_context::run)       |
    |  HandleEvents, Poll,     |   TCP   |  accept, read, write completions       |
    |  Update, Render          | <-----> |        | PushTask         ^ Write      |
    | network thread           |         |        v                  |            |
    |  connect, read, write    |         | game thread (Game::Run)   |            |
    +--------------------------+         |  ExecuteTasks -> Update -> Direct,     |
                                         |                            Broadcast   |
                                         +----------------------------------------+

| Component | State | Operations |
|---|---|---|
| Server world (Server/World.cpp, Common/Game/Entity) | entities with position, path, viewers, monitors and timers; session to entity | Initialize, EnterWorld, LeaveWorld (empty), PathFind, NextEntityInfo, Update |
| Groups (Server/AOI.cpp) | members of every group, group of every entity | PlaceEntityInGroup, GetNodeGroupInRange |
| Grid, vectors (Common/AStar/Grid, Common/Math) | none that changes | node from position, distances, neighbours, directions |
| Path search (Common/AStar/PathFinding) | costs and parents kept in the grid's nodes | FindPath |
| Task queue (Server/Task.h) | multiset of nodes, mutex | PushTask (network thread), ExecuteTasks (game thread) |
| Server network (Server/Network.cpp, Session.cpp) | sessions, write queues, receive buffers | accept, Direct, Broadcast, Write, read, completion handlers |
| Dispatch (Server/ServerMessageHandler.cpp) | none | checks a request, pushes a task |
| Client network (Client/Network.cpp) | received messages, write queue, socket | Connect, Poll, Write, read, Disconnect |
| Client world (Client/World.cpp, ClientMessageHandler.cpp) | the entities it knows | one handler per message, clicks, Update |

The parts meet in three places. The network thread pushes tasks that the game
thread executes (`TaskQueue`). The world hands messages to the network through
two handlers, Direct and Broadcast. The server's messages make a client's world,
and a client's requests make the server's tasks.

### What is hard in it

- Two threads on each side, joined by queues; some tables are shared without a
  lock (the sessions, the world's tables read by the dispatch).
- Sight is stored twice (`mViewer` as sessions on the entity seen, `mMonitor` as
  ids on the one that sees) and changed in three places by loops that visit every
  pair in both orders.
- A step that moves entities, finds paths, recomputes sight and sends positions,
  each phase reading what earlier ones wrote, and some of it halfway.
- Distances on a border, positions on a group's border, two timers and two bands.
- The order of tasks and of received messages, taken from addresses in memory.
- Failing writes, gone clients, which nothing removes.

### What makes each part correct

- World: sight is exactly range; both records of it agree; a client is told of
  every appearance and disappearance once; nothing is said of an entity a client
  does not know; positions reach exactly those who see the entity.
- Groups: an entity is in the group it remembers and in no other; the search
  misses nobody in range.
- Task queue: a task is executed exactly once, not before its time, in the end.
- Server network: the bytes of a session are its messages in order, one write at
  a time, and nothing stays unsent.
- Reading: however TCP cuts a stream, the messages taken out are those sent; what
  has arrived is taken out at once; the buffer always has space.
- Client: it shows what the server told it; its chains of requests end, and end
  with all that there is to know; its predictions give way to the server's paths.
- Movement: a client that follows the newest path shows an entity where it is, in
  the end; what it was told of a position is never older than the period of its band.
- Path search: a shortest path, whatever earlier searches left behind, that fits
  the array it is sent in.

## Modules

| Module | Models |
|---|---|
| `Geometry` | positions and comparisons of distances through squares |
| `Grid` | Common/AStar/Grid.cpp: nodes, positions, node from position |
| `AOI` | Server/AOI.cpp: groups of nodes with their entities |
| `World` | Server/World.cpp with Entity and the outcome of FindPath |
| `Visibility` | abstract: what clients are promised about sight |
| `MCWorld` | the instance of `World` that TLC checks |
| `TaskQueue` | Server/Task.h with its pushers and the game loop |
| `Network` | Server/Network.cpp and the sending side of Session.cpp |
| `Connection` | the reading side of Session.cpp and of Client/Network.cpp, with the client's connecting and quitting |
| `MCConnection` | the messages of the instance of `Connection` |
| `Client` | Client/Network.cpp (PollMessage), World.cpp (clicks), ClientMessageHandler.cpp |
| `ClientServer` | a `Client` with what it sees of the server |
| `SyncTimers` | the timers at the end of World::Update, for one entity and one viewer |
| `Motion` | where an entity is, and where a client shows it: Entity.cpp, ClientMessageHandler.cpp, Client/World.cpp |
| `PathSearch` | Common/AStar/PathFinding.cpp, neighbours and directions of Grid.cpp |
| `MCPathSearch` | the ends of the searches TLC checks |
| `WorldProofs` (with `AOI`), `NetworkProofs`, `ConnectionProofs`, `TaskQueueProofs`, `MotionProofs`, `PathSearchProofs`, `ClientServerProofs` | theorems and their proofs |
| `SetInduction` | induction over the natural numbers, in a form the provers can use |

`World` extends `AOI`, which extends `Grid` and `Geometry`. It refines
`Visibility`. `Motion` extends `SyncTimers` and `Grid`, `PathSearch` extends
`Grid`.

### World

All of the world's handlers run on the game thread, one after another, so each is
one atomic action: `EnterWorld`, `PathFind`, `NextEntityInfo`, `Update`. The build
is a variable, `UseAOI`, chosen in `Init` and never changed, so that every
property and every theorem speaks of both builds. A field
of `Entity` is a function on entity ids; ids are 1, 2, ... and never freed.

`Update` follows the code's phases. Each entity moves (`MoveTowardsNextPath`: any
number of waypoints reached, then part of the way to the next, which is what some
elapsed time does), and a bot without a path finds one. Then, in the dual build,
entities are placed in groups (`PlaceEntityInGroup`). Then sight: the code visits
ordered pairs, and an entity's iteration changes only its own `mViewer` and its
own id in others' `mMonitor`; so all iterations together are the simultaneous
update by `Appearing` and `Vanishing`. At last the timers, and the positions of
the entities that are due. The near viewers of a bot's new path are computed in
the middle of the moving loop; `PathCalls` therefore uses the new positions of
lower ids and the old ones of higher ids, as `std::map` iterates by id.

`calls` holds what the last handler handed to the network, by phase. It is read
by properties only. A time is a number of ticks; a path is a sequence of nodes
whose last is the destination.

Constants give the program's numbers (150, 75, 600, 20, 5) their names. Their
assumptions are what the code has: the world is a whole number of nodes, groups
cover it, bots' session ids differ from clients'. That last one,
`SessionAssumption`, holds until the thousandth connection.

### TaskQueue

Nodes live at addresses the allocator picks freely; the multiset is ordered by
them. `Push` is atomic under the mutex. `ReadTime`, `TakeTasks`, `ExecuteTask`
and `ReturnFromTasks` are the game thread's loop, so pushes and time come between
the clock being read, the extraction, and each execution. Addresses of a batch
are free again after `ReturnFromTasks`. The running tasks of the handlers do not
push tasks themselves. `Update`, between batches, does not touch the queue.

### Network

Direct, Broadcast and Write are atomic: they run under `mClientMutex` and
`mWriteMutex`. Completion handlers run on the one network thread, so none runs
while a connection is being accepted. The insertion into `mClients` takes no lock:
while it lasts, a lookup may find or miss any session (`Found`). Null is the
moved-from `unique_ptr`; a write of it ends the server (`crashed`). Writes finish
or fail at any time. A failed session keeps its place and its queue, as LeaveWorld
is empty. `async_write_some` is assumed to write the whole message or fail, which
holds for the overlapped sends of Windows, the only system the code compiles on
(`windows.h` timers, `__int16`). A client's write queue is, line by line, that of
a session.

### Connection

One end of a connection that reads; `end` says whether it is a session of the
server or a client. A byte is its offset in the stream, so `mRecvBuffer` is given
by the offset of its first byte and `mRecvBufferCount`. `Arrive` is TCP, which
delivers pieces of any size; `ReadCompletes` the completion of
`async_read_some` with any number of bytes up to the space left and up to a
chunk; `FrameMessage` one turn of the framing loop and `EndFrame` what follows
it (the rest moved to the front, the next read). The two ends differ in
`DataLength`: a client counts what its buffer holds, a session the length of the
read that just completed (Session.cpp:54). They also differ in what follows: a
client looks for space before it reads again, a session does not and reads into
none.

The session reads into an array on the stack of the function that starts the
read (Session.cpp:37). `ReadClobbered` is the outcome in which the array holds
something else by then; it leads to `undefined`, of which nothing is said. The
properties of a session are about reads that were lucky.

A client also connects, once, and its main thread writes (`ClientWrite`) and quits
(`Quit`). `Fail` and `Quit` end in `Network::Disconnect`, which joins the network
thread from itself, or waits for a thread that the work guard keeps running:
neither has a successor in the code or in the model.

### Client and ClientServer

`Client` keeps, of every entity it shows, which path the entity follows: the
serial number of the PATH_FINDING it came in, `None`, or `Predicted`. The
handlers are functions from the state to the state after a message, and
`Processed` is the state after one message of a batch after the other. Both `Network::PollMessage` and the loop
over its batch run on the client's main thread, and only the extraction is under
the mutex; messages that come in meanwhile can as well come in after it, so the
whole is one action. `mRecvMessages` is an `unordered_set` of pointers, whose
order the C++ standard leaves open: a batch is any injection of the first
`MaxBatch` numbers into it. `Processed` is a recursive function and `Batches` a set
of functions because proofs can be made about those, not about a fold.

`ClientServer` puts one client, the only one connected, at the end of everything
else. The world is reduced to what `World` and `Visibility` say of it: the
client's sight changes by appearances and disappearances that make the
difference (`Changes`), in the order of the ids (`InOrder`, the order of
`std::map`), and paths told are of entities in sight. `TaskQueue` is
reduced to tasks that run in any order after any time, `Network` to a stream in
order. Requests reach the server in the order they are written. `stream`,
`requests`, `infos` and `crossed` are histories; the code keeps none.
`ENTITY_INFO` is the chain of ClientMessageHandler.cpp:59,
ServerMessageHandler.cpp:42 and Server/World.cpp:177: the client names the last
piece it has, the server answers with the next, each after a delay and only
while the entity is in sight (or, in the single range build, sends the last
piece three times).

Assumed here: whole messages reach both sides, the client stays connected, the
server runs. `Connection` shows the first of the client; a session that once had
a message split hears requests late (`LagNeverShrinks`), which is a delay like
any other here. Positions, and POSITION_SYNC, are left out; they change neither
what is shown nor whose path it follows, and are the subject of `Motion`.

### SyncTimers and Motion

`SyncTimers` is the last loop of `World::Update` for one entity and one viewer
that has it in sight: `Sync` advances the timers of the build and says whether
the position is sent, by the band the viewer is in at that moment. `age` and
`inBand` are histories. Both stop growing at `MaxAge`, a bound of the model that
no period reaches.

`Motion` adds one entity that walks on the server (`Update`, `PathFind`) and is
shown by a client (`Frame`), whose player may be the one it belongs to (`own`).
It is one coordinate with paths of one turning point: `MoveTowardsNextPath` on a
longer path is the same stretch by stretch, and in `World` on the plane. Any
number of frames falls between Updates. A click moves the entity on the player's
own screen at once (Client/World.cpp:125); what comes back is a path with the
position it starts from, and positions. `Correct` is the correction of both
handlers: nothing below a threshold, a jump above another, in between a Lerp over
the next frames, during which further messages neither renew nor end it. `Corrected`
takes any place between the ends for an unfinished Lerp. The time a message was
under way is computed from one time stamp twice (ClientMessageHandler.cpp:92) and
is always zero, so a copy never moves ahead; it is not in the model. The messages
of a frame are handled in any order, as they come out of an `unordered_set`;
`overtaken` is a history that says whether the path handled last is an older one.
A position is corrected and the path left alone, so that one message decides what
path a copy follows until the next path is sent.

### PathSearch

The costs and parents are fields of the grid's nodes, kept from search to search
and never reset; also the cost of a start node is what an earlier search left in
it. `FindPath` begins a search, `Expand` is one round of its loop with all
neighbours of the node it takes, `Found` the round that ends it with
`RetracePath`. Running out of open nodes without finding the target
(PathFinding.cpp:84) is left out: all nodes of a grid are connected. The code searches the open list for the best node by total and
remaining cost and takes the first of equals; the model takes any. Every node
of the repository's grids is walkable, and the test for it is left out. A round is
a step so that what holds between rounds can be stated; `Back` is the way the
parents give, `RetracePath` its corners; the searches of a
program never overlap, since all run on its main or game thread.

## What the runs check

Every property of a passing run has a mutant in `PROJECT.json`: a definition
changed by a plausible bug (a variant kept beside it, named as such), under which
TLC finds the property violated.

| Run | Shows |
|---|---|
| `world` | `World` in both builds: all properties below |
| `far_path` | violation: in the dual build a client's path is sent to a far viewer |
| `taskqueue` | `TaskQueue`: `ExactlyOnce`, `NeverEarly`, `EventuallyExecuted` |
| `task_order` | violation: tasks run in order of address, not of priority |
| `network` | `Network`: `StreamIntact`, `OneWrite`, `EventuallyWritten` |
| `broadcast` | violation: a broadcast gives its message to one session only |
| `connection` | `Connection`, both ends: all properties below |
| `client` | `ClientServer`: `ShowsWhatItWasTold`, `ShowsSight`, `PredictionSettles`, `ChainsEnd`, `InfoArrives` |
| `client_order` | violation: a client does not show an entity in sight |
| `sync_gap` | violation: a viewer in sight gets no position for longer than both periods |
| `motion` | `Motion`: `BandFresh`, `Settles`, `ComesBack` |
| `search` | `PathSearch`: all properties below |

Properties of `World`:

- `SessionsMatch`: session to entity and entity to session are inverse.
- `ViewerMonitorDual`: e is shown to o on one side iff on the other.
- `SightExact`: an entity is seen only from less than 150 away, sight is mutual,
  and a client's entity misses none in range. Two bots only see each other after
  the first Update.
- `GroupsMatch`: membership in groups is what entities remember.
- `OnlyKnownEntities`: paths, positions and information concern entities the
  receiver knows at that point of the handler.
- `SyncReachesViewers`: when all periods end, positions reach exactly the viewers.
- `ImplementsVisibility`: `World` refines `Visibility`; every step of either build
  sends exactly the appearances and disappearances that make the difference
  between what clients knew and what they should know.

Properties of `ClientServer`:

- `ShowsWhatItWasTold`: with everything handled, an entity is shown iff the
  stream says so, on the last path it told, if never two messages about it waited
  together. The condition is needed: `client_order` is what happens without it.
- `ShowsSight`: with everything arrived and handled, it is shown iff it is in sight
  on the server, under the same condition.
- `ChainsEnd`: at most three pieces of information are sent per appearance, also
  when chains overlap because an entity left and returned within a delay.
- `InfoArrives`: of an entity that stays in sight every piece arrives in the end,
  although answers are dropped while it is away and messages are shuffled. It
  rests on AppearEntity asking again for an entity it shows already.
- `PredictionSettles`: when nothing is under way, the client's own entity follows
  a path of the server. It need not be that of the last click.

Properties of `Connection`:

- `InOrder`: the messages taken out are those sent, whole and in order, on both
  ends and however the stream is cut.
- `WithinBuffer`: the framing loop stays within what was read and stands at the
  start of a message.
- `NothingHeldBack`, of a client: between reads no whole message is in the buffer.
- `NeverFull`, of a client: there is space for the next read; the disconnect
  handler is never called for want of it (Client/Network.cpp).
- `AllGiven`, of a client: what arrived reaches the main thread in the end, unless
  the connection fails.
- `NoRequestDropped`: the main thread, which reads `mIsConnected` without a lock,
  never finds it false when it has something to ask.
- `LagNeverShrinks`, of a session: what its buffer holds between reads never gets
  less. A message split over two reads leaves the length of its first part there
  for good; from then on every message is heard only when as many bytes came in
  after it. `AllGiven` and `NothingHeldBack` are not claimed of sessions for this
  reason. No line of the repository says they hold, so this is a hazard with a
  property and not among the findings.

Properties of `SyncTimers` and `Motion`:

- `BandFresh`: in the single range build a viewer's position of an entity is never
  older than the period; in the dual range build this holds of a viewer that has
  been in its band for longer than the period of the band. `sync_gap` is a viewer that has not.
- `Settles`: once the players are done, the client shows the entity for good
  within `SMOOTH_SYNC` of where it is: whatever it predicted, however messages were
  delayed and positions shuffled, although a correction goes to a place the entity
  has left, and although the path of an entity that comes into sight is not told
  (only its position is). The condition, that the path handled last is the newest,
  is needed, in both builds and for a near viewer too: the path is sent once,
  Client/Network.cpp:92 may hand out the older of two paths last, and POSITION_SYNC
  (ClientMessageHandler.cpp:137-181) never touches the path. A copy on the old path
  walks more than `SNAP_THRESHOLD` between two positions, but not to the next node,
  is put back and walks off again, until the player clicks once more. Without the
  condition TLC finds exactly this.
- `ComesBack`: whatever path it follows, the copy is within a frame's walk of the
  entity again and again.

Properties of `PathSearch`:

- `ParentsLead`: parents lead from every node seen to the start over nodes closed
  in this search, costs decreasing by the step; `RetracePath` comes to an end.
- `ShortestPath`: a search returns the turning points of a shortest way in eight
  directions, although the cost of its start is left over.
- `PathFits`: a path is at most two nodes long. World.cpp:169 copies it to an
  array of 50 without looking, so this must not depend on the size of the world.
- `CostsBounded`: costs grow by at most the longest way of the grid per search; with
  30 x 30 nodes `int` holds them for five million searches.
- `SearchEnds`: every search ends.

### Bounds

`MCWorld` is one row of the world with the program's own distances, two clients
and one bot. Its four points are the spawn point (10), the points exactly 75 and
150 from it, and 230, which is out of its range and 145 and 70 from those: every
border of the bands is met from both sides, and an entity can be in sight of one
and out of sight of the other. Walks end at the two ends (`MaxTurns = 0`), with
`WanderRange` so large that the bot can take the whole row; a wider choice of
places only adds states. An Update lasts one tick, and periods are 0 or 1 ticks,
so that near and far periods end both together and apart. The world is 300 x 300
instead of 600 x 600, with nine groups instead of 36, of which the row lies in
three; the single build does not look at groups. `VIEW MCView` leaves out `calls`,
which no action reads; TLC evaluates action properties on every step it
generates, also on those into states it already knows.

`TaskQueue` has three tasks, three addresses, a clock of four values and delays
of 0 and 2, so that a delayed node can hold up others and be overtaken. The bound
on the clock is an assumption (`TaskAssumption`): beyond 2^31 ms the priority
wraps. `Network` has three connections and four messages: a queue can be empty,
hold one message, and hold more, while another session is accepted. Runs of
`Network` do not check deadlock: after `crashed`, or when the messages are used
up and written, nothing happens any more.

`ClientServer` has the client's entity and one other, and two events
(`MaxEvents = 2`): an Update that changes sight or a path, or a click. Two are what
it takes for an entity to leave and return, for two clicks in a row, and for a
click while sight changes; an Update may change several of them at once.
`MaxBatch` is 2 instead of 50, so that messages are left over for the next frame.
The number of pieces is the code's. Nothing happens any more when these are used
up, so deadlock is not checked.

`Connection` has four messages of 3, 2, 4 and 3 bytes with headers of 2, a buffer of 6
and chunks of 4: a message can be split within its header and behind it, a read
can bring two messages or only the end of one, and a session's buffer can fill
up. The proofs cover all sizes. Deadlock is not checked: the stream ends, and
connections that fail or are quit stop.

`sync_gap` has the program's ratio of periods, 2 and 8 ticks for 0.25 s and 1 s.
`motion` has a world of three nodes, with the outer two as targets; the entity starts at
the first, since the world is its own mirror image. One unit stands for about 3.2 and one tick for an eighth of a second, so
that what matters keeps its order: between two positions a copy walks 4 units (12.5
and a frame's way in the code), which is more than `SNAP`, 3 (10), and less than a
node, 6 (20). Far positions come every 3 ticks instead of 8, which is 6 units, still
less than the 12 between the targets. `SMOOTH_PATH` and `SMOOTH_SYNC` are 2 and 1
(1.5 and 1.0) and a correction lasts two frames, both larger than to scale, so that
they can be told apart and a message can come in the middle of a correction. Two
clicks, one change of band and two messages under way when an Update makes another let
a prediction be overtaken by an older path, two paths wait together, a position be
sent before and handled after a path, and a correction be under way when the entity
stops. The tasks of clicks are not held up by that bound. No bound stops either model,
so deadlock is checked.

`search` has 25 nodes and two searches between any two of nine of them: at the
border and inside, in line, on a diagonal and neither. The second search finds
what any first one left. More searches only raise the costs a start begins with;
`SearchInv` covers any number. Nothing happens after the last search.

### Fairness

`TaskQueue`: weak fairness of the game loop's steps and of the clock, since
`Game::Run` loops without waiting for anything but time. None for pushes.
`Network`: weak fairness of the insertion, and of each session's write to finish
or fail, since `io_context::run` runs every ready handler and TCP times out. None
for connections or sends. `ClientServer`: weak fairness of reading and of the
loops on both sides (`Dispatch`, tasks, `Read`, `Poll`); none for Updates, clicks
or entering. A message could stay in the set for ever if more than a batch came
in every frame; the finite stream of the instance rules that out. `Connection`: weak fairness of the completion handlers,
as in `Network`; none for the other end, the player or the connection. `Motion`:
weak fairness of `Update`, of the tasks and of frames that handle something if
there is something, as both programs loop and TCP delivers; none for clicks or
crossings. `PathSearch`: a search runs to its end on the thread that asked for
it. `World` has no liveness property and no fairness.

`EventuallyExecuted` depends on finitely many tasks: a node that is not due in
front of the queue delays those behind, and an endless supply of such nodes could
delay one for ever.

## Findings

1. `far_path`: README.md:44 says of the dual build that the near area gets position and
   path, the far area the position only; World.cpp:174 sends a client's path to all
   viewers there too. The property is about that build only.
2. `task_order`: Task.h:25-28 defines the order of tasks by priority; the multiset
   in Task.h:104 holds `unique_ptr`s and orders by address, and ExecuteTasks stops
   at the first node that is not due.
3. `broadcast`: README.md:42 says viewers are each given the information;
   Network.cpp:65 moves the message into the first session and hands the rest a
   null pointer, which Session.cpp:104 dereferences. One connected client among
   the viewers works, since bots have no session in the network; two do not.
4. `client_order`: README.md:17 says that the large area has the existence and the
   position of a player; Client/Network.cpp:92 takes messages out of an
   `unordered_set` (Network.h:68), so an entity that leaves and returns before the
   client has handled both may stay hidden for as long as it is in sight (or, the
   other way round, stay shown when it has left).

5. `sync_gap`: README.md:43 says that positions are sent every 0.25 s to near and
   every 1 s to far viewers; both timers of an entity run for all viewers at once
   and each chooses by the distance when it ends (World.cpp:436, 461). A viewer
   that is far whenever the near timer ends and near whenever the far one does
   gets none for longer than both periods together.

## What is proved

TLAPS checks, for every value of the constants that meets the assumptions:

- `WorldProofs`: of the groups, `GroupIdExists` (a position in the world has a group
  that exists) and `SearchCovers` (the search returns the group of every position in
  the world within its range). Both rest on lemmas on rounding down (`DivMonotone`)
  and on the square around a circle (`CircleInSquare`). Of the world, `WorldInv`,
  `Spec => []Inv`, and from it `TypeCorrect`, `ViewersAreMonitors`, `SightIsRange`,
  `SessionsFindEntities`, `GroupsAreExact`; of its steps, `PathsOfKnown` and
  `PositionsReachViewers`; and the refinement `SightIsPromised`: `World` implements
  `Visibility`.
- `NetworkProofs`: `NetworkInv`, and from it `NetworkTypes`, `StreamsIntact` and
  `OneWriteEach`.
- `ConnectionProofs`: `ConnectionInv`, and from it `ConnectionTypes`,
  `MessagesInOrder`, `FramingWithinBuffer`, `ClientUpToDate`, `RequestsKept`, and
  of steps `ClientNeverFull` and `LagStays`.
- `TaskQueueProofs`: `QueueInv`, and from it `QueueTypes`, `TasksOnce` and
  `TasksNotEarly`.
- `MotionProofs`: `MotionInv`, and from it
  `BandsStayFresh`; also `TimersStayFresh`, the same of `SyncTimers` alone; and
  `MotionTypes`.
- `PathSearchProofs`: `SearchInv`, and from it `SearchTypes` and `WayBack`; on it
  `SearchGoesStraight` and `SearchReturnsCorners`, and from these `PathsFit` and
  `PathsAreShortest`; and `CostsStayBounded`.
- `ClientServerProofs`: `ClientInv`, and from it `ClientTypes`, `TellingIsShown`,
  `SightIsShown`, `PredictionsSettle` and `ChainsAreFinite`.

With these, every invariant and every action property of the runs, and the one
refinement, is a theorem.

`Inv` of `World` is the conjunction of the checked invariants and `ViewersEntered`
(the sessions in a viewer set have entered). None of the invariants is inductive
alone. The pairwise search decides by `mViewer`, and the change to `mMonitor` is
right only because both agreed before (`ViewerMonitorDual`). The dual build walks
`mViewer` itself and finds the other entity through `mSessionToEntity`
(`World.cpp:331`), which is right only because sessions are those of entities
(`SessionsMatch`, `ViewersEntered`). Its candidates are those of the groups, so
`SightExact` needs `GroupsMatch` and `SearchCovers`. The central lemmas are
`PlaceMatches` (after placing, an entity is in the group of its position),
`VisibleExact` (both builds compare with the same entities), `AppearingExact` and
`VanishingExact` (who newly sees, who no longer does), from which `UpdateInv`
derives the new sight.

The invariant of `Network` is the conjunction of `TypeOK`, `StreamIntact`,
`OneWrite` and `OwnQueues` (a session the game does not know of has nothing
queued, and one with a failed write still has its head). The last is what makes
`OneWrite` inductive: were the queue of a failed session ever empty, the next
Write would begin a write on it.

The invariant of `Connection` adds where the loop stands: it is idle outside of
framing (`LoopIdle`), a session's stays within the last read (`WithinRead`), and
nothing was read before connecting (`Begun`, `ConnectedFirst`). `InOrder` and
`WithinBuffer` need each other: a header is read only where a message starts
(`HeaderSays`), which is so because what was taken out before are whole messages.
`NextMessage` is the step, and from `ClientRest`, what a client's loop leaves is
less than a message, follows that its buffer has space. `ConnectionAssumption`
says that a message fits the buffer (428 bytes of 8192) and has a header.

The invariant of `TaskQueue` says of a node in the queue that it carries the time
its task was pushed for, and of a batch that none of its tasks is for later than
`currentTime`. `ExactlyOnce` counts, so queue and tasks are finite sets in it.
`TaskAssumption` keeps the clock below 2^31 ms (`AsIntIsTime`).

The claims about periods are not inductive. `MotionProofs` compares `age` with the
timer responsible for it: either the viewer was sent a position since that timer
last ended, or it has come into the band since (`SincePeriod`).

The steps of `World` follow from its invariant and from what `UpdateInv` says of the
new sight. For `SightIsPromised` the mapping takes an entity's `mMonitor` for what
its client was told. It is an exact count of messages: a client gets one notice for
every entity that comes or goes and no other, since the messages of one client are
told apart by session (`ClientsApart`) and the viewers whom they are made for are
the monitors on the other side (`MonitorsAreViewers`).

The types of `Motion` need that every message under way was made from a position in
the world (`MotionOK`), and that moving towards a place ends on the stretch to it.

`PathSearch` needs no strengthening beyond its types for `ParentsLead`: a round gives
a new cost and parent only to nodes that are not closed, and the parent is the node
it has just closed, whose cost is final. That paths are shortest is the hard one:
the cost of a start node is whatever an earlier search left, and all other nodes have
costs and parents left over too. The argument (`OneWay`) is that all nodes are
walkable and `GetDistance` is the exact length of a way, so of all open nodes only
the one a step nearer to the target has the least total cost (`BestStep`). After k
rounds a search has closed exactly the first k nodes of one way, the diagonal part
first; everything open was reached in this search, so that leftovers do not matter.
`RetracePath` then returns the end of the diagonal and the target (`Returned`),
whose ways add up to the distance. `CostsBounded` follows by a budget: a node's cost
is the start's leftover and the way walked, which `OneWay` bounds.

`ClientServer` rests on three arguments, each an induction over a batch within the
induction over steps:

- What the client shows. The server tells each change of sight once and the stream
  ends with what is in sight (`StreamTells`). Of an entity that is not crossed at
  most one message waits at a time, so its messages are handled in the order they
  were sent, in whatever order a batch has them (`InTurn`). So what is shown of
  it is what the messages handled so far tell, taken in their order (`ViewMatches`).
  Appearing twice would keep an old path (`Show`), so this needs that between two
  appearances of an entity it disappears.
- Predictions. While the client follows a prediction, a path for its entity is under
  way as a request, a task or a message (`PredictionAnswered`): a click adds a
  request, and every stage passes it on, because a client sees its own entity.
- Chains. For each entity and piece, requests are at most the messages they follow
  (`AskedOnce`), and answers, with those still to be sent, at most the requests read
  (`AnsweredOnce`). The numbers of the pieces grow along a chain, so the counts add up
  to three per appearance; in the single range build the last piece is never asked on
  (`ShortChains`).

On the instance of `client`, TLC finds no state that violates one of these conjuncts.
`FiniteSet` theorems on cardinalities do the counting. The proofs assume no bound on
entities, events or requests, and `MaxBatch` any positive number.

The theorems of the library on induction take an operator as a parameter, which the
installed provers cannot instantiate. `SetInduction` derives from the least element
of a set of numbers a form that takes a set (`Induction`); a proof by induction on k
then defines the set of numbers for which the claim holds. That is how facts about the
recursive functions `Back` and `Processed` are proved here.

### Only model-checked

Liveness (`EventuallyExecuted`, `EventuallyWritten`, `InfoArrives`, `AllGiven`,
`Settles`, `ComesBack`, `SearchEnds`) is out of the prover's reach and is checked by TLC on the
instances above. So are the violations.

## Not modelled

- Drawing, the window, the statistics: output only.
- Start and stop of the processes; `Network::Destroy` and `Session::Close`
  (unreachable: no flag that would end a loop is ever cleared).
- Quantisation (`NetSerialize` is never called), angles and the vector operators
  nothing calls.
- Contents of messages beyond the fields named in properties, their byte layout (a
  copy of a struct between equal builds), float rounding.
- Short writes. On the one system the code compiles on a send is whole or fails.
- The data race of the dispatch's lookups with EnterWorld
  (ServerMessageHandler.cpp:23): every outcome is possible, so nothing would
  hold in a model of it. Without it a lookup only finds or misses, which is a
  request that was not made.
- Overflow: of the clock after 2^31 ms (`TaskAssumption`), of costs after five
  million searches (`CostsBounded`), of session ids into those of bots
  (`SessionAssumption`).
- The client's write queue, as it is that of `Network`.

## Plan

What is left, in order of importance:

1. `Server`: `TaskQueue`, `World` and `Network` composed, with a late session of
   `Connection` at its end: requests and messages from end to end, with an
   abstract specification of what a client observes.
2. An abstract specification of what a client shows that `ClientServer` refines
   outside of the shuffled entities; its step is that of `ViewMatches`.
3. `Motion` with every bound on clicks, messages and crossings lifted in its proofs.
4. Short writes in `Network`, if the code is ported to a system that has them.
