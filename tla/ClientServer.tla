---------------------------- MODULE ClientServer ----------------------------
(***************************************************************************)
(* A client and what it sees of the server, from end to end.  Of the       *)
(* server's world only the client's sight is kept (what World guarantees   *)
(* of it is the module Visibility); of its tasks, that they run in any     *)
(* order and after any time (the module TaskQueue); of the connection,     *)
(* that it keeps messages in order both ways (the module Network).         *)
(*                                                                         *)
(* UseAOI, the server's build, is chosen at the start.                     *)
(***************************************************************************)
EXTENDS Client

CONSTANTS
  Own,         \* the client's own entity
  MaxEvents    \* Updates that change sight or paths, and clicks of the player

Others == Entities \ {Own}

ASSUME ClientServerAssumption ==
  Own \in Entities /\ MaxEvents \in Nat

VARIABLES
  UseAOI,      \* the build
  inSight,     \* mMonitor of the client's entity; {} before it entered
  stream,      \* history: every message sent to the client, in order
  arrived,     \* how many of them the client has read
  dispatched,  \* how many of the requests the server has read
  tasks,       \* tasks of this client in the server's queue
  events,      \* how many of those there were
  crossed      \* history: entities of which two messages were waiting together

vars == <<client, UseAOI, inSight, stream, arrived, dispatched, tasks, events, crossed>>

\* A message about an entity; the number of its piece of information, 0 in the
\* messages that have none; its number in the stream, given when it is sent.
Message(type, e, number) ==
  [type |-> type, ObjectId |-> e, InfoNumber |-> number, serial |-> 0]

\* A list of messages as the next ones of the stream.
Numbered(messages) ==
  [i \in DOMAIN messages |-> [messages[i] EXCEPT !.serial = Len(stream) + i]]
Send(messages) == stream' = stream \o Numbered(messages)

\* The world goes through its tables in the order of the ids: S as a list (the
\* only member of this set).
InOrder(S) ==
  {ids \in [1 .. Cardinality(S) -> S] : \A i, j \in DOMAIN ids : i < j => ids[i] < ids[j]}

ToEach(type, ids) == [i \in DOMAIN ids |-> Message(type, ids[i], 0)]

\* The messages of an Update that changed who of these is in sight.
Changes(ids, now) ==
  [i \in DOMAIN ids |->
     Message(IF ids[i] \in now THEN "APPEAR_ENTITY" ELSE "DISAPPEAR_ENTITY", ids[i], 0)]

-----------------------------------------------------------------------------
Init ==
  /\ ClientInit
  /\ UseAOI \in BOOLEAN
  /\ inSight = {} /\ stream = <<>> /\ arrived = 0
  /\ dispatched = 0 /\ tasks = {}
  /\ events = 0 /\ crossed = {}

\* EnterWorld: those in range appear, then the client's own entity spawns.
EnterWorld ==
  /\ inSight = {}
  /\ \E near \in SUBSET Others :
       /\ inSight' = near \union {Own}
       /\ \E ids \in InOrder(near) :
            Send(ToEach("APPEAR_ENTITY", ids) \o ToEach("SPAWN_ENTITY", <<Own>>))
  /\ UNCHANGED <<client, UseAOI, arrived, dispatched, tasks, events, crossed>>

\* What the server's world has to tell the client of others.  Update: some in
\* sight take a new path, then each may have left or come, in the order of the
\* ids.  PathFind of another player is the case that a single one takes a path,
\* EnterWorld of another one the case that a single one comes.
Update ==
  /\ inSight # {} /\ events < MaxEvents
  /\ \E walking \in SUBSET (inSight \cap Others), near \in SUBSET Others :
       /\ walking # {} \/ inSight # near \union {Own}
       /\ inSight' = near \union {Own}
       /\ \E walkers \in InOrder(walking), changed \in InOrder(SymDiff(inSight, inSight')) :
            Send(ToEach("PATH_FINDING", walkers) \o Changes(changed, inSight'))
  /\ events' = events + 1
  /\ UNCHANGED <<client, UseAOI, arrived, dispatched, tasks, crossed>>

\* Variant with a fault: requests for pieces of information never end.
AnyNumber(number) == TRUE

\* Whether there is a piece of this number.
HasInfo(number) == number < EntityInfoMax

\* The server reads the next request and pushes a task, if there is one to do.
\* Requests are made after EnterWorld only, so the tables know the session.
Dispatch ==
  /\ dispatched < Len(requests)
  /\ dispatched' = dispatched + 1
  /\ LET r == requests[dispatched']
     IN tasks' =
          IF r.type = "PATH_FINDING"
          THEN tasks \union {[type |-> "PathFind", id |-> dispatched']}
          ELSE IF HasInfo(r.InfoNumber + 1)
          THEN tasks \union {[type |-> "NextEntityInfo", id |-> dispatched',
                              number |-> r.InfoNumber + 1, other |-> r.ObjectId]}
          ELSE tasks
  /\ UNCHANGED <<client, UseAOI, inSight, stream, arrived, events, crossed>>

\* Variant with a fault: the viewers of an entity leave out its own session.
OtherViewersOnly == FALSE

\* EnterWorld puts the session among the viewers of its own entity.
SeesItself == TRUE

\* World::PathFind.
PathFind(task) ==
  /\ task.type = "PathFind"
  /\ IF SeesItself THEN Send(ToEach("PATH_FINDING", <<Own>>)) ELSE UNCHANGED stream
  /\ tasks' = tasks \ {task}
  /\ UNCHANGED <<client, UseAOI, inSight, arrived, dispatched, events, crossed>>

\* World::NextEntityInfo.
NextEntityInfo(task) ==
  /\ task.type = "NextEntityInfo"
  /\ LET Info(n) == Message("ENTITY_INFO", task.other, n)
     IN Send(IF task.other \notin inSight THEN <<>>
             ELSE IF UseAOI THEN <<Info(task.number)>>
             ELSE [i \in 1 .. EntityInfoMax - 1 |-> Info(EntityInfoMax)])
  /\ tasks' = tasks \ {task}
  /\ UNCHANGED <<client, UseAOI, inSight, arrived, dispatched, events, crossed>>

\* Messages about what is shown of an entity, of which the order matters.
AboutSight(m) == m.type # "ENTITY_INFO"

Read ==
  \E k \in arrived + 1 .. Len(stream) :
    /\ Receive({stream[i] : i \in arrived + 1 .. k})
    /\ arrived' = k
    /\ crossed' = crossed \union
         {e \in Entities : \E m, n \in mRecvMessages' :
            m # n /\ AboutSight(m) /\ AboutSight(n) /\ m.ObjectId = e /\ n.ObjectId = e}
    /\ UNCHANGED <<UseAOI, inSight, stream, dispatched, tasks, events>>

Poll ==
  /\ PollMessage
  /\ UNCHANGED <<UseAOI, inSight, stream, arrived, dispatched, tasks, events, crossed>>

Walk ==
  /\ events < MaxEvents
  /\ Click
  /\ events' = events + 1
  /\ UNCHANGED <<UseAOI, inSight, stream, arrived, dispatched, tasks, crossed>>

Next ==
  \/ EnterWorld \/ Update \/ Dispatch
  \/ \E task \in tasks : PathFind(task) \/ NextEntityInfo(task)
  \/ Read \/ Poll \/ Walk

\* Both processes loop for ever, and the connection delivers.  Nothing is
\* assumed of the player or of how entities move.
Fairness ==
  /\ WF_vars(Dispatch)
  /\ WF_vars(\E task \in tasks : PathFind(task) \/ NextEntityInfo(task))
  /\ WF_vars(Read)
  /\ WF_vars(Poll)

Spec == Init /\ [][Next]_vars /\ Fairness

-----------------------------------------------------------------------------
(* Properties. *)

\* The types; the client's own entity, once known, is one it shows.
TypeOK ==
  /\ mRecvMessages \subseteq Range(stream)
  /\ mLocalEntityId \in {0} \union ({Own} \cap DOMAIN mEntitys)
  /\ DOMAIN mEntitys \subseteq Entities
  /\ \A e \in DOMAIN mEntitys : mEntitys[e] \in {None, Predicted} \union (1 .. Len(stream))
  /\ infos \subseteq Entities \X (1 .. EntityInfoMax)
  /\ inSight = {} \/ Own \in inSight
  /\ arrived \in 0 .. Len(stream)
  /\ dispatched \in 0 .. Len(requests)

\* The last of the messages that have arrived that is about e and in the set; 0 if none.
LastOf(e, types) ==
  LET serials == {i \in 1 .. arrived : stream[i].ObjectId = e /\ stream[i].type \in types}
  IN IF serials = {} THEN 0 ELSE Max(serials)

Appeared(e) == LastOf(e, {"SPAWN_ENTITY", "APPEAR_ENTITY"})
Disappeared(e) == LastOf(e, {"DISAPPEAR_ENTITY"})

\* e as the messages that have arrived tell it.
Told(e) == Appeared(e) > Disappeared(e)
ToldPath(e) ==
  LET p == LastOf(e, {"PATH_FINDING"}) IN IF p > Appeared(e) THEN p ELSE None

\* As long as never two messages about an entity waited to be handled together,
\* the client shows the entity exactly when the messages it has handled say so,
\* and has it follow the last path they told, or its own prediction - however
\* the messages about other entities were shuffled.
ShowsWhatItWasTold ==
  mRecvMessages = {} =>
    \A e \in Entities \ crossed :
      /\ e \in DOMAIN mEntitys <=> Told(e)
      /\ e \in DOMAIN mEntitys =>
           mEntitys[e] = ToldPath(e) \/ (e = Own /\ mEntitys[e] = Predicted)

\* From end to end: when everything the server sent has arrived and was handled,
\* the client shows exactly those in its entity's sight - again, of the entities
\* of which never two messages waited together (ShowsArea is without that).
ShowsSight ==
  mRecvMessages = {} /\ arrived = Len(stream) =>
    \A e \in Entities \ crossed : e \in DOMAIN mEntitys <=> e \in inSight

\* When everything under way has been dealt with, the client's own entity
\* follows a path of the server, not its prediction.
PredictionSettles ==
  (/\ mRecvMessages = {} /\ arrived = Len(stream)
   /\ dispatched = Len(requests) /\ tasks = {}
   /\ Own \in DOMAIN mEntitys) => mEntitys[Own] # Predicted

HowMany(type, e) ==
  Cardinality({i \in DOMAIN stream : stream[i].type = type /\ stream[i].ObjectId = e})

\* For one appearance of an entity at most three pieces of information are
\* sent, however its chains of requests and delayed answers overlap with it
\* leaving and returning.
ChainsEnd ==
  \A e \in Others :
    HowMany("ENTITY_INFO", e) <= (EntityInfoMax - 1) * HowMany("APPEAR_ENTITY", e)

\* The pieces of information a build sends: each once, or the last three times.
Wanted == IF UseAOI THEN 1 .. EntityInfoMax - 1 ELSE {EntityInfoMax}

\* An entity that stays in sight is known completely in the end, although
\* answers are dropped while it is out of sight and the set shuffles messages.
InfoArrives ==
  \A e \in Others : <>[](e \in inSight) => <>(\A n \in Wanted : <<e, n>> \in infos)

\* README.md:17: in the large area a client has at least the existence and the
\* position of a player.  Once everything has arrived and was handled, it shows
\* everyone in sight.
ShowsArea ==
  mRecvMessages = {} /\ arrived = Len(stream) => inSight \subseteq DOMAIN mEntitys
=============================================================================
