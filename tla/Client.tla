------------------------------- MODULE Client -------------------------------
(***************************************************************************)
(* A client: Client/Network.cpp (receiving), Client/World.cpp (clicks) and *)
(* the handlers of ClientMessageHandler.cpp.                               *)
(*                                                                         *)
(* The network thread adds the messages it read to mRecvMessages, an       *)
(* unordered_set of unique_ptr: the main thread takes them out in an order *)
(* that has nothing to do with the order they came in.                     *)
(*                                                                         *)
(* Of an entity the client keeps which PATH_FINDING its path is from: the  *)
(* message's number in the stream, None, or Predicted for a path of its    *)
(* own.  Positions, and with them POSITION_SYNC, are not modelled here.    *)
(***************************************************************************)
EXTENDS Integers, Sequences, FiniteSetsExt, Functions

CONSTANTS
  Entities,    \* ids of entities
  MaxBatch     \* MAX_BATCH_SIZE (50)

ASSUME ClientAssumption ==
  /\ Entities \subseteq Nat \ {0} /\ IsFiniteSet(Entities)
  /\ MaxBatch \in Nat \ {0}

VARIABLES
  mRecvMessages,   \* messages read and not yet taken out
  mLocalEntityId,  \* the client's own entity, 0 before it is known
  mEntitys,        \* the entities it shows: id -> whose path it follows
  requests,        \* messages given to Write, in order; Write keeps the order
  infos            \* history: the pieces of information received, <<id, number>>

client == <<mRecvMessages, mLocalEntityId, mEntitys, requests, infos>>

None == 0
Predicted == -1
EntityInfoMax == 4    \* ENTITY_INFO_MAX

\* What the handlers read and change.
State == [local |-> mLocalEntityId, shown |-> mEntitys, out |-> requests, got |-> infos]

Show(shown, e) ==
  [d \in DOMAIN shown \union {e} |-> IF d \in DOMAIN shown THEN shown[d] ELSE None]

Ask(out, number, e) ==
  Append(out, [type |-> "ENTITY_INFO", ObjectId |-> e, InfoNumber |-> number])

-----------------------------------------------------------------------------
(* Handlers: the state after a message. *)

\* Variant with a fault: the id is kept, but no entity is made.
SpawnLocalOnly(st, m) == [st EXCEPT !.local = m.ObjectId]

SpawnEntity(st, m) ==
  [st EXCEPT !.local = m.ObjectId, !.shown = Show(@, m.ObjectId)]

\* Variant with a fault: an entity that is shown already is not asked about.
AppearEntityOnce(st, m) ==
  IF m.ObjectId \in DOMAIN st.shown THEN st
  ELSE [st EXCEPT !.shown = Show(@, m.ObjectId), !.out = Ask(@, 0, m.ObjectId)]

AppearEntity(st, m) ==
  [st EXCEPT !.shown = Show(@, m.ObjectId), !.out = Ask(@, 0, m.ObjectId)]

\* Variant with a fault: entities that were told away stay.
KeepEntity(st, m) == st

DisappearEntity(st, m) ==
  [st EXCEPT !.shown = [d \in DOMAIN @ \ {m.ObjectId} |-> @[d]]]

\* The next piece is asked for by naming this one, unless it was the last.
ReceiveInfo(st, m) ==
  [st EXCEPT !.got = @ \union {<<m.ObjectId, m.InfoNumber>>},
             !.out = IF m.InfoNumber >= EntityInfoMax THEN @
                     ELSE Ask(@, m.InfoNumber, m.ObjectId)]

\* Variant with a fault: an entity that has a path keeps it.
FollowFirst(st, m) ==
  IF m.ObjectId \in DOMAIN st.shown /\ st.shown[m.ObjectId] = None
  THEN [st EXCEPT !.shown[m.ObjectId] = m.serial] ELSE st

\* The path replaces the one the client follows; of an unknown entity it is dropped.
FollowPath(st, m) ==
  IF m.ObjectId \notin DOMAIN st.shown THEN st
  ELSE [st EXCEPT !.shown[m.ObjectId] = m.serial]

\* ClientMessageHandler::ProcessMessage.
ProcessMessage(st, m) ==
  CASE m.type = "SPAWN_ENTITY"     -> SpawnEntity(st, m)
    [] m.type = "APPEAR_ENTITY"    -> AppearEntity(st, m)
    [] m.type = "DISAPPEAR_ENTITY" -> DisappearEntity(st, m)
    [] m.type = "ENTITY_INFO"      -> ReceiveInfo(st, m)
    [] m.type = "PATH_FINDING"     -> FollowPath(st, m)

-----------------------------------------------------------------------------
(* Actions. *)

ClientInit ==
  /\ mRecvMessages = {} /\ mLocalEntityId = 0
  /\ mEntitys = [e \in {} |-> None]
  /\ requests = <<>> /\ infos = {}

\* Network::ReadAsync: a read ends with some whole messages in the buffer.
Receive(messages) ==
  /\ mRecvMessages' = mRecvMessages \union messages
  /\ UNCHANGED <<mLocalEntityId, mEntitys, requests, infos>>

\* The batches PollMessage may take: some MaxBatch messages in any order.
Batches ==
  LET size == IF Cardinality(mRecvMessages) < MaxBatch
              THEN Cardinality(mRecvMessages) ELSE MaxBatch
  IN Injection(1 .. size, mRecvMessages)

\* The state after the batch: mMessageHandler for one message after the other.
Processed(batch) ==
  LET st[i \in 0 .. Len(batch)] ==
        IF i = 0 THEN State ELSE ProcessMessage(st[i - 1], batch[i])
  IN st[Len(batch)]

\* Network::PollMessage and the handlers of its batch.
PollMessage ==
  /\ mRecvMessages # {}
  /\ \E batch \in Batches :
       LET after == Processed(batch)
       IN /\ mRecvMessages' = mRecvMessages \ Range(batch)
          /\ mLocalEntityId' = after.local
          /\ mEntitys' = after.shown
          /\ requests' = after.out
          /\ infos' = after.got

\* World::HandleEvents, a left click: the client walks at once, and asks.
Click ==
  /\ mLocalEntityId \in DOMAIN mEntitys
  /\ mEntitys' = [mEntitys EXCEPT ![mLocalEntityId] = Predicted]
  /\ requests' = Append(requests, [type |-> "PATH_FINDING", ObjectId |-> mLocalEntityId])
  /\ UNCHANGED <<mRecvMessages, mLocalEntityId, infos>>
=============================================================================
