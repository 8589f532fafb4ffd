------------------------- MODULE ClientServerProofs -------------------------
(***************************************************************************)
(* A client and what it is told, for any number of entities, size of batch *)
(* and length of a run: proofs about ClientServer.                         *)
(*                                                                         *)
(* None of the properties is inductive.  They follow from three arguments: *)
(*                                                                         *)
(* - The server tells each change of sight once (StreamTells).  Messages   *)
(*   about an entity that is not crossed are handled in the order they     *)
(*   were sent, whatever order a batch has (InTurn), so what is shown of   *)
(*   it is what the messages handled tell, taken in their order            *)
(*   (ViewMatches).  ShowsWhatItWasTold and ShowsSight are the case that   *)
(*   none waits.                                                           *)
(* - A predicted path is always followed by a path under way: as a request *)
(*   that is not read yet, as a task, or as a message that is not handled  *)
(*   yet (PredictionAnswered).                                             *)
(* - Every request has a message of its own that it was made for           *)
(*   (AskedOnce), every piece of information, sent or to be sent, a        *)
(*   request that was read (AnsweredOnce); the chains cannot go round.     *)
(***************************************************************************)
EXTENDS ClientServer, FiniteSetTheorems, SequenceTheorems, SetInduction, TLAPS

-----------------------------------------------------------------------------
(* What the variables hold. *)

Messages ==
  [type : {"SPAWN_ENTITY", "APPEAR_ENTITY", "DISAPPEAR_ENTITY", "PATH_FINDING", "ENTITY_INFO"},
   ObjectId : Entities, InfoNumber : 0 .. EntityInfoMax, serial : Nat]

InfoRequests ==
  [type : {"ENTITY_INFO"}, ObjectId : Entities, InfoNumber : 0 .. EntityInfoMax - 1]

PathRequests == [type : {"PATH_FINDING"}, ObjectId : {Own}]

PathTasks == [type : {"PathFind"}, id : Nat]

InfoTasks ==
  [type : {"NextEntityInfo"}, id : Nat, number : 1 .. EntityInfoMax - 1, other : Entities]

\* What is shown, after so many messages.
Views(sent) == UNION {[S -> {None, Predicted} \union (1 .. sent)] : S \in SUBSET Entities}

States(sent) ==
  {st \in [local : {0, Own}, shown : Views(sent), out : Seq(InfoRequests \union PathRequests),
           got : SUBSET (Entities \X (1 .. EntityInfoMax))] :
     st.local \in {0} \union DOMAIN st.shown}

\* The only messages about the client's own entity are that it spawned and its paths.
Contents(m) ==
  /\ m.type = "SPAWN_ENTITY" => m.ObjectId = Own
  /\ m.type \in {"APPEAR_ENTITY", "DISAPPEAR_ENTITY"} => m.ObjectId # Own
  /\ m.type = "ENTITY_INFO" =>
       IF UseAOI THEN m.InfoNumber \in 1 .. EntityInfoMax - 1 ELSE m.InfoNumber = EntityInfoMax

TypesOK ==
  /\ UseAOI \in BOOLEAN
  /\ stream \in Seq(Messages)
  /\ \A i \in 1 .. Len(stream) : stream[i].serial = i /\ Contents(stream[i])
  /\ arrived \in 0 .. Len(stream)
  /\ mRecvMessages \subseteq {stream[i] : i \in 1 .. arrived}
  /\ State \in States(Len(stream))
  /\ dispatched \in 0 .. Len(requests)
  /\ tasks \subseteq PathTasks \union InfoTasks
  /\ \A task \in tasks : task.id \in 1 .. dispatched
  /\ inSight \subseteq Entities
  /\ inSight # {} => Own \in inSight

-----------------------------------------------------------------------------
(* What the server tells: s is its stream. *)

Appears(s, i, e) ==
  s[i].type \in {"SPAWN_ENTITY", "APPEAR_ENTITY"} /\ s[i].ObjectId = e
Disappears(s, i, e) == s[i].type = "DISAPPEAR_ENTITY" /\ s[i].ObjectId = e
Walks(s, i, e) == s[i].type = "PATH_FINDING" /\ s[i].ObjectId = e
IsAbout(s, i, e) == AboutSight(s[i]) /\ s[i].ObjectId = e

\* The messages of these numbers tell that e is there.
ToldBy(s, H, e) == \E i \in H : Appears(s, i, e) /\ \A j \in H : j > i => ~Disappears(s, j, e)

\* The whole stream tells what is in sight, and nothing twice: between two
\* appearances of an entity it disappears.
StreamTells ==
  /\ \A e \in Entities : ToldBy(stream, 1 .. Len(stream), e) <=> e \in inSight
  /\ \A e \in Entities : \A i, j \in 1 .. Len(stream) :
       Appears(stream, i, e) /\ Appears(stream, j, e) /\ i < j
         => \E d \in i + 1 .. j - 1 : Disappears(stream, d, e)

-----------------------------------------------------------------------------
(* What the client makes of it. *)

\* The numbers of the messages that were handled.
Handled == {i \in 1 .. arrived : stream[i] \notin mRecvMessages}

\* The path that the messages of these numbers tell.
PathBy(s, H, e, path) ==
  \/ path = None /\ \A i \in H : Walks(s, i, e) => \E j \in H : j > i /\ Appears(s, j, e)
  \/ /\ path \in H /\ Walks(s, path, e)
     /\ \A i \in H : i > path => ~Walks(s, i, e) /\ ~Appears(s, i, e)

\* Showing e like this is what the messages of these numbers tell.
Matches(s, shown, H, e) ==
  /\ e \in DOMAIN shown <=> ToldBy(s, H, e)
  /\ e \in DOMAIN shown => PathBy(s, H, e, shown[e]) \/ (e = Own /\ shown[e] = Predicted)

\* A message about an entity that is not crossed waits for none that came before
\* it and is not followed by one that was handled.
InTurn ==
  \A e \in Entities \ crossed : \A i, j \in 1 .. arrived :
    stream[j] \in mRecvMessages /\ IsAbout(stream, i, e) /\ IsAbout(stream, j, e) => i <= j

ViewMatches == \A e \in Entities \ crossed : Matches(stream, mEntitys, Handled, e)

\* A path for a prediction is under way.
PathComes ==
  \/ \E i \in dispatched + 1 .. Len(requests) : requests[i].type = "PATH_FINDING"
  \/ \E task \in tasks : task.type = "PathFind"
  \/ \E i \in 1 .. Len(stream) : i \notin Handled /\ Walks(stream, i, Own)

Predicts(shown) == Own \in DOMAIN shown /\ shown[Own] = Predicted

PredictionAnswered == Predicts(mEntitys) => PathComes

-----------------------------------------------------------------------------
(* The chains of requests for information. *)

\* The requests for what follows piece n of e, and the messages they were made for.
Asked(out, e, n) ==
  {i \in 1 .. Len(out) : /\ out[i].type = "ENTITY_INFO"
                         /\ out[i].ObjectId = e /\ out[i].InfoNumber = n}
IsCause(m, e, n) ==
  /\ m.ObjectId = e
  /\ IF n = 0 THEN m.type = "APPEAR_ENTITY" ELSE m.type = "ENTITY_INFO" /\ m.InfoNumber = n
Causes(s, H, e, n) == {i \in H : IsCause(s[i], e, n)}

TasksFor(e, n) == {task \in tasks : task.type = "NextEntityInfo" /\ task.other = e /\ task.number = n}

\* Every request has a message of its own ...
AskedOnce ==
  \A e \in Entities, n \in 0 .. EntityInfoMax - 1 :
    Cardinality(Asked(requests, e, n)) <= Cardinality(Causes(stream, Handled, e, n))

\* ... and every answer, sent or still to be sent, a request.
AnsweredOnce ==
  \A e \in Entities :
    IF UseAOI
    THEN \A n \in 0 .. EntityInfoMax - 2 :
           Cardinality(Causes(stream, 1 .. Len(stream), e, n + 1)) + Cardinality(TasksFor(e, n + 1))
             <= Cardinality(Asked(requests, e, n) \cap (1 .. dispatched))
    ELSE Cardinality(Causes(stream, 1 .. Len(stream), e, EntityInfoMax))
             + (EntityInfoMax - 1) * Cardinality(TasksFor(e, 1))
           <= (EntityInfoMax - 1) * Cardinality(Asked(requests, e, 0) \cap (1 .. dispatched))

\* The last piece, which is all that the single range build sends, is not asked on.
ShortChains ==
  ~UseAOI => /\ \A i \in 1 .. Len(requests) :
                  requests[i].type = "ENTITY_INFO" => requests[i].InfoNumber = 0
             /\ \A task \in tasks : task.type = "NextEntityInfo" => task.number = 1

Inv ==
  /\ TypesOK /\ StreamTells
  /\ InTurn /\ ViewMatches /\ PredictionAnswered
  /\ AskedOnce /\ AnsweredOnce /\ ShortChains

-----------------------------------------------------------------------------
(* What a handler does to the state it is given. *)

LEMMA ConstantsAre ==
  /\ Entities \subseteq Nat \ {0} /\ IsFiniteSet(Entities) /\ Own \in Entities
  /\ MaxBatch \in Nat \ {0} /\ EntityInfoMax = 4 /\ None = 0 /\ Predicted = -1
  BY ClientAssumption, ClientServerAssumption
     DEF ClientAssumption, ClientServerAssumption, EntityInfoMax, None, Predicted

LEMMA ViewIs ==
  ASSUME NEW k \in Nat, NEW shown
  PROVE  shown \in Views(k) <=>
           /\ DOMAIN shown \subseteq Entities
           /\ shown = [d \in DOMAIN shown |-> shown[d]]
           /\ \A d \in DOMAIN shown : shown[d] \in {None, Predicted} \union (1 .. k)
<1>1. ASSUME shown \in Views(k)
      PROVE  /\ DOMAIN shown \subseteq Entities
             /\ shown = [d \in DOMAIN shown |-> shown[d]]
             /\ \A d \in DOMAIN shown : shown[d] \in {None, Predicted} \union (1 .. k)
  <2>1. PICK S \in SUBSET Entities : shown \in [S -> {None, Predicted} \union (1 .. k)]
    BY <1>1 DEF Views
  <2> QED
    BY <2>1
<1>2. ASSUME DOMAIN shown \subseteq Entities,
             shown = [d \in DOMAIN shown |-> shown[d]],
             \A d \in DOMAIN shown : shown[d] \in {None, Predicted} \union (1 .. k)
      PROVE  shown \in Views(k)
  <2>1. shown \in [DOMAIN shown -> {None, Predicted} \union (1 .. k)]
    BY <1>2
  <2> QED
    BY <1>2, <2>1 DEF Views
<1> QED
  BY <1>1, <1>2

LEMMA ShowView ==
  ASSUME NEW k \in Nat, NEW shown \in Views(k), NEW e \in Entities
  PROVE  /\ Show(shown, e) \in Views(k)
         /\ DOMAIN Show(shown, e) = DOMAIN shown \union {e}
         /\ \A d \in DOMAIN shown : Show(shown, e)[d] = shown[d]
         /\ e \notin DOMAIN shown => Show(shown, e)[e] = None
<1> DEFINE new == Show(shown, e)
<1>1. new = [d \in DOMAIN shown \union {e} |-> IF d \in DOMAIN shown THEN shown[d] ELSE None]
  BY DEF Show
<1>2. /\ DOMAIN shown \subseteq Entities
      /\ \A d \in DOMAIN shown : shown[d] \in {None, Predicted} \union (1 .. k)
  BY ViewIs
<1> HIDE DEF new
<1>3. /\ DOMAIN new = DOMAIN shown \union {e}
      /\ new = [d \in DOMAIN new |-> new[d]]
      /\ \A d \in DOMAIN shown : new[d] = shown[d]
      /\ e \notin DOMAIN shown => new[e] = None
  BY <1>1
<1>4. new \in Views(k)
  <2>1. \A d \in DOMAIN new : new[d] \in {None, Predicted} \union (1 .. k)
    BY <1>2, <1>3
  <2>2. DOMAIN new \subseteq Entities
    BY <1>2, <1>3
  <2> QED
    BY <1>3, <2>1, <2>2, ViewIs
<1> QED
  BY <1>3, <1>4 DEF new

\* What is shown of an entity after a message: nothing changes unless it is about it.
LEMMA ShownAfter ==
  ASSUME NEW k \in Nat, NEW st \in States(k), NEW m \in Messages, m.serial \in 1 .. k,
         NEW e \in Entities
  PROVE  LET old == st.shown  new == ProcessMessage(st, m).shown
         IN /\ new \in Views(k)
            /\ ~(AboutSight(m) /\ m.ObjectId = e) =>
                 /\ e \in DOMAIN new <=> e \in DOMAIN old
                 /\ e \in DOMAIN old => new[e] = old[e]
            /\ m.type \in {"SPAWN_ENTITY", "APPEAR_ENTITY"} /\ m.ObjectId = e =>
                 /\ e \in DOMAIN new
                 /\ new[e] = IF e \in DOMAIN old THEN old[e] ELSE None
            /\ m.type = "DISAPPEAR_ENTITY" /\ m.ObjectId = e => e \notin DOMAIN new
            /\ m.type = "PATH_FINDING" /\ m.ObjectId = e =>
                 /\ e \in DOMAIN new <=> e \in DOMAIN old
                 /\ e \in DOMAIN old => new[e] = m.serial
<1> DEFINE old == st.shown
           new == ProcessMessage(st, m).shown
           id == m.ObjectId
<1>1. old \in Views(k) /\ id \in Entities
  BY DEF States, Messages
<1>2. /\ DOMAIN old \subseteq Entities
      /\ old = [d \in DOMAIN old |-> old[d]]
      /\ \A d \in DOMAIN old : old[d] \in {None, Predicted} \union (1 .. k)
  BY <1>1, ViewIs
<1>3. CASE m.type \in {"SPAWN_ENTITY", "APPEAR_ENTITY"}
  <2>1. new = Show(old, id)
    BY <1>3 DEF ProcessMessage, SpawnEntity, AppearEntity, States
  <2> HIDE DEF new, old, id
  <2>2. /\ new \in Views(k) /\ DOMAIN new = DOMAIN old \union {id}
        /\ \A d \in DOMAIN old : new[d] = old[d]
        /\ id \notin DOMAIN old => new[id] = None
    BY <1>1, <2>1, ShowView
  <2>3. AboutSight(m)
    BY <1>3 DEF AboutSight
  <2>4. CASE id = e
    BY <1>3, <2>2, <2>3, <2>4 DEF id, new, old
  <2>5. CASE id # e
    BY <2>2, <2>5 DEF id, new, old
  <2> QED
    BY <2>4, <2>5
<1>4. CASE m.type = "DISAPPEAR_ENTITY"
  <2>1. new = [d \in DOMAIN old \ {id} |-> old[d]]
    BY <1>4 DEF ProcessMessage, DisappearEntity, States
  <2> HIDE DEF new, old, id
  <2>2. /\ DOMAIN new = DOMAIN old \ {id} /\ new = [d \in DOMAIN new |-> new[d]]
        /\ \A d \in DOMAIN new : new[d] = old[d]
    BY <2>1
  <2>3. new \in Views(k)
    <3>1. \A d \in DOMAIN new : new[d] \in {None, Predicted} \union (1 .. k)
      BY <1>2, <2>2
    <3>2. DOMAIN new \subseteq Entities
      BY <1>2, <2>2
    <3> QED
      BY <2>2, <3>1, <3>2, ViewIs
  <2>4. AboutSight(m)
    BY <1>4 DEF AboutSight
  <2>5. CASE id = e
    BY <1>4, <2>2, <2>3, <2>4, <2>5 DEF id, new, old
  <2>6. CASE id # e
    <3>1. /\ e \in DOMAIN new <=> e \in DOMAIN old
          /\ e \in DOMAIN old => new[e] = old[e]
      BY <2>2, <2>6
    <3> QED
      BY <2>3, <2>6, <3>1 DEF id, new, old
  <2> QED
    BY <2>5, <2>6
<1>5. CASE m.type = "ENTITY_INFO"
  <2>1. new = old
    BY <1>5 DEF ProcessMessage, ReceiveInfo, States
  <2> QED
    BY <1>1, <1>5, <2>1 DEF AboutSight
<1>6. CASE m.type = "PATH_FINDING"
  <2>1. new = IF id \in DOMAIN old THEN [old EXCEPT ![id] = m.serial] ELSE old
    BY <1>6 DEF ProcessMessage, FollowPath, States
  <2> HIDE DEF new, old, id
  <2>2. /\ DOMAIN new = DOMAIN old /\ new = [d \in DOMAIN new |-> new[d]]
        /\ \A d \in DOMAIN old : new[d] = IF d = id THEN m.serial ELSE old[d]
    BY <1>2, <2>1
  <2>3. new \in Views(k)
    <3>1. \A d \in DOMAIN new : new[d] \in {None, Predicted} \union (1 .. k)
      BY <1>2, <2>2
    <3>2. DOMAIN new \subseteq Entities
      BY <1>2, <2>2
    <3> QED
      BY <2>2, <3>1, <3>2, ViewIs
  <2>4. AboutSight(m)
    BY <1>6 DEF AboutSight
  <2>5. CASE id = e
    BY <1>6, <2>2, <2>3, <2>4, <2>5 DEF id, new, old
  <2>6. CASE id # e
    BY <2>2, <2>3, <2>6 DEF id, new, old
  <2> QED
    BY <2>5, <2>6
<1>7. m.type \in {"SPAWN_ENTITY", "APPEAR_ENTITY", "DISAPPEAR_ENTITY", "PATH_FINDING", "ENTITY_INFO"}
  BY DEF Messages
<1> QED
  BY <1>3, <1>4, <1>5, <1>6, <1>7

\* What is asked after a message.
LEMMA OutAfter ==
  ASSUME NEW k \in Nat, NEW st \in States(k), NEW m \in Messages
  PROVE  ProcessMessage(st, m).out =
           IF m.type = "APPEAR_ENTITY" THEN Ask(st.out, 0, m.ObjectId)
           ELSE IF m.type = "ENTITY_INFO" /\ m.InfoNumber < EntityInfoMax
           THEN Ask(st.out, m.InfoNumber, m.ObjectId)
           ELSE st.out
<1> DEFINE out == ProcessMessage(st, m).out
<1>1. m.type \in {"SPAWN_ENTITY", "APPEAR_ENTITY", "DISAPPEAR_ENTITY", "PATH_FINDING", "ENTITY_INFO"}
  BY DEF Messages
<1>2. m.InfoNumber \in Int /\ EntityInfoMax \in Int
  BY DEF Messages, EntityInfoMax
<1>3. m.type = "SPAWN_ENTITY" => out = st.out
  BY DEF ProcessMessage, SpawnEntity, States
<1>4. m.type = "APPEAR_ENTITY" => out = Ask(st.out, 0, m.ObjectId)
  BY DEF ProcessMessage, AppearEntity, States
<1>5. m.type = "DISAPPEAR_ENTITY" => out = st.out
  BY DEF ProcessMessage, DisappearEntity, States
<1>6. m.type = "PATH_FINDING" => out = st.out
  BY DEF ProcessMessage, FollowPath, States
<1>7. m.type = "ENTITY_INFO" => out = IF m.InfoNumber >= EntityInfoMax THEN st.out
                                      ELSE Ask(st.out, m.InfoNumber, m.ObjectId)
  BY DEF ProcessMessage, ReceiveInfo, States
<1> QED
  BY <1>1, <1>2, <1>3, <1>4, <1>5, <1>6, <1>7

LEMMA StateAfter ==
  ASSUME NEW k \in Nat, NEW st \in States(k), NEW m \in Messages, m.serial \in 1 .. k,
         Contents(m)
  PROVE  ProcessMessage(st, m) \in States(k)
<1> DEFINE after == ProcessMessage(st, m)
           fields == [local : {0, Own}, shown : Views(k),
                      out : Seq(InfoRequests \union PathRequests),
                      got : SUBSET (Entities \X (1 .. EntityInfoMax))]
<1>1. m.type \in {"SPAWN_ENTITY", "APPEAR_ENTITY", "DISAPPEAR_ENTITY", "PATH_FINDING", "ENTITY_INFO"}
  BY DEF Messages
<1>2. /\ st = [local |-> st.local, shown |-> st.shown, out |-> st.out, got |-> st.got]
      /\ st.local \in {0, Own} /\ st.shown \in Views(k)
      /\ st.out \in Seq(InfoRequests \union PathRequests)
      /\ st.got \in SUBSET (Entities \X (1 .. EntityInfoMax))
      /\ st.local \in {0} \union DOMAIN st.shown
  BY DEF States
<1>3. m.ObjectId \in Entities /\ m.InfoNumber \in 0 .. EntityInfoMax
  BY DEF Messages
<1>4. after.shown \in Views(k)
  BY <1>3, ShownAfter
<1>5. after.out \in Seq(InfoRequests \union PathRequests)
  <2>1. \A n \in 0 .. EntityInfoMax - 1 :
          Ask(st.out, n, m.ObjectId) \in Seq(InfoRequests \union PathRequests)
    BY <1>2, <1>3 DEF Ask, InfoRequests
  <2>2. m.InfoNumber < EntityInfoMax => m.InfoNumber \in 0 .. EntityInfoMax - 1
    BY <1>3 DEF EntityInfoMax
  <2>3. 0 \in 0 .. EntityInfoMax - 1
    BY DEF EntityInfoMax
  <2> QED
    BY <1>2, <2>1, <2>2, <2>3, OutAfter
<1>6. after.got \in SUBSET (Entities \X (1 .. EntityInfoMax))
  <2>1. CASE m.type = "ENTITY_INFO"
    <3>1. m.InfoNumber \in 1 .. EntityInfoMax
      BY <2>1 DEF Contents, EntityInfoMax
    <3>2. after.got = st.got \union {<<m.ObjectId, m.InfoNumber>>}
      BY <1>2, <2>1 DEF ProcessMessage, ReceiveInfo
    <3> QED
      BY <1>2, <1>3, <3>1, <3>2
  <2>2. CASE m.type # "ENTITY_INFO"
    <3>1. after.got = st.got
      BY <1>1, <1>2, <2>2
         DEF ProcessMessage, SpawnEntity, AppearEntity, DisappearEntity, FollowPath
    <3> QED
      BY <1>2, <3>1
  <2> QED
    BY <2>1, <2>2
<1>7. after.local \in {0, Own} /\ after.local \in {0} \union DOMAIN after.shown
  <2>1. CASE m.type = "SPAWN_ENTITY"
    <3>1. after.local = m.ObjectId /\ m.ObjectId = Own
      BY <1>2, <2>1 DEF ProcessMessage, SpawnEntity, Contents
    <3> QED
      BY <2>1, <3>1, ShownAfter, ConstantsAre
  <2>2. CASE m.type # "SPAWN_ENTITY"
    <3>1. after.local = st.local
      BY <1>1, <1>2, <2>2
         DEF ProcessMessage, AppearEntity, DisappearEntity, FollowPath, ReceiveInfo
    <3>2. CASE st.local = 0
      BY <3>1, <3>2
    <3>3. CASE st.local = Own
      <4>1. Own \in DOMAIN st.shown
        BY <1>2, <3>3, ConstantsAre
      <4>2. ~(m.type = "DISAPPEAR_ENTITY" /\ m.ObjectId = Own)
        BY DEF Contents
      <4>3. Own \in DOMAIN after.shown
        BY <1>1, <4>1, <4>2, ShownAfter, ConstantsAre DEF AboutSight
      <4> QED
        BY <3>1, <3>3, <4>3
    <3> QED
      BY <1>2, <3>2, <3>3
  <2> QED
    BY <2>1, <2>2
<1>8. after = [local |-> after.local, shown |-> after.shown, out |-> after.out, got |-> after.got]
  <2>1. \A l, v, o, g : [local |-> l, shown |-> v, out |-> o, got |-> g]
          = [local |-> [local |-> l, shown |-> v, out |-> o, got |-> g].local,
             shown |-> [local |-> l, shown |-> v, out |-> o, got |-> g].shown,
             out |-> [local |-> l, shown |-> v, out |-> o, got |-> g].out,
             got |-> [local |-> l, shown |-> v, out |-> o, got |-> g].got]
    OBVIOUS
  <2>2. m.type = "SPAWN_ENTITY" =>
        \E l, v, o, g : after = [local |-> l, shown |-> v, out |-> o, got |-> g]
    BY <1>2 DEF ProcessMessage, SpawnEntity
  <2>3. m.type = "APPEAR_ENTITY" =>
        \E l, v, o, g : after = [local |-> l, shown |-> v, out |-> o, got |-> g]
    BY <1>2 DEF ProcessMessage, AppearEntity
  <2>4. m.type = "DISAPPEAR_ENTITY" =>
        \E l, v, o, g : after = [local |-> l, shown |-> v, out |-> o, got |-> g]
    BY <1>2 DEF ProcessMessage, DisappearEntity
  <2>5. m.type = "PATH_FINDING" =>
        \E l, v, o, g : after = [local |-> l, shown |-> v, out |-> o, got |-> g]
    BY <1>2 DEF ProcessMessage, FollowPath
  <2>6. m.type = "ENTITY_INFO" =>
        \E l, v, o, g : after = [local |-> l, shown |-> v, out |-> o, got |-> g]
    BY <1>2 DEF ProcessMessage, ReceiveInfo
  <2> HIDE DEF after
  <2> QED
    BY <1>1, <2>2, <2>3, <2>4, <2>5, <2>6
<1> HIDE DEF after
<1>9. after \in fields
  BY <1>4, <1>5, <1>6, <1>7, <1>8
<1> QED
  BY <1>7, <1>9 DEF States, after

-----------------------------------------------------------------------------
(* A batch is handled message by message: the states in between. *)

\* st are the states that a batch of messages taken out goes through.
IsRun(batch, st) ==
  /\ batch \in Seq(mRecvMessages)
  /\ \A i, j \in 1 .. Len(batch) : batch[i] = batch[j] => i = j
  /\ st[0] = State
  /\ \A i \in 1 .. Len(batch) : st[i] = ProcessMessage(st[i - 1], batch[i])
  /\ \A i \in 0 .. Len(batch) : st[i] \in States(Len(stream))

\* The numbers of the first k messages of a batch.
Done(batch, k) == {batch[i].serial : i \in 1 .. k}

Follow(st, i, batch) == IF i = 0 THEN State ELSE ProcessMessage(st[i - 1], batch[i])

LEMMA ProcessedExists ==
  ASSUME NEW k \in Nat, NEW batch
  PROVE  \E f : f = [i \in 0 .. k |-> Follow(f, i, batch)]
<1> DEFINE T == {n \in Nat : \E f : f = [i \in 0 .. n |-> Follow(f, i, batch)]}
<1>1. 0 \in T
  <2> DEFINE f == [i \in 0 .. 0 |-> State]
  <2>1. f = [i \in 0 .. 0 |-> Follow(f, i, batch)]
    BY DEF Follow
  <2> QED BY <2>1
<1>2. ASSUME NEW n \in Nat, n \in T PROVE n + 1 \in T
  <2>1. PICK f : f = [i \in 0 .. n |-> Follow(f, i, batch)]
    BY <1>2
  <2> DEFINE g == [i \in 0 .. n + 1 |->
                     IF i = n + 1 THEN ProcessMessage(f[n], batch[n + 1]) ELSE f[i]]
  <2>2. ASSUME NEW i \in 0 .. n + 1 PROVE g[i] = Follow(g, i, batch)
    <3>1. CASE i = 0
      BY <2>1, <3>1 DEF Follow
    <3>2. CASE i = n + 1
      <4>1. i - 1 = n /\ n \in 0 .. n + 1 /\ n # n + 1 /\ i # 0
        BY <3>2
      <4> QED BY <3>2, <4>1 DEF Follow
    <3>3. CASE i \in 1 .. n
      <4>1. /\ i \in 0 .. n /\ i # 0 /\ i # n + 1
            /\ i - 1 \in 0 .. n + 1 /\ i - 1 # n + 1
        BY <3>3
      <4>2. g[i] = f[i] /\ g[i - 1] = f[i - 1]
        BY <4>1
      <4>3. f[i] = Follow(f, i, batch)
        BY <2>1, <4>1
      <4> QED BY <4>1, <4>2, <4>3 DEF Follow
    <3> QED BY <3>1, <3>2, <3>3
  <2>3. g = [i \in 0 .. n + 1 |-> Follow(g, i, batch)]
    <3>1. g = [i \in 0 .. n + 1 |-> g[i]]
      OBVIOUS
    <3> HIDE DEF g
    <3> QED BY <2>2, <3>1
  <2> HIDE DEF g
  <2> QED BY <2>3
<1>3. \A n \in Nat : n \in T
  <2> HIDE DEF T
  <2> QED BY <1>1, <1>2, Induction
<1> QED BY <1>3

LEMMA ProcessedIs ==
  ASSUME NEW batch, Len(batch) \in Nat
  PROVE  \E st : /\ st[0] = State
                 /\ \A i \in 1 .. Len(batch) : st[i] = ProcessMessage(st[i - 1], batch[i])
                 /\ Processed(batch) = st[Len(batch)]
<1> DEFINE st == CHOOSE st : st = [i \in 0 .. Len(batch) |-> Follow(st, i, batch)]
<1>1. Processed(batch) = st[Len(batch)]
  BY DEF Processed, Follow
<1>2. st = [i \in 0 .. Len(batch) |-> Follow(st, i, batch)]
  <2>1. PICK f : f = [i \in 0 .. Len(batch) |-> Follow(f, i, batch)]
    BY ProcessedExists
  <2> QED BY <2>1
<1> HIDE DEF st
<1>3. st[0] = State
  BY <1>2 DEF Follow
<1>4. \A i \in 1 .. Len(batch) : st[i] = ProcessMessage(st[i - 1], batch[i])
  BY <1>2 DEF Follow
<1> QED BY <1>1, <1>3, <1>4

\* What is waiting are messages that have arrived.
LEMMA WaitingAre ==
  ASSUME TypesOK, NEW m \in mRecvMessages
  PROVE  /\ m \in Messages /\ Contents(m)
         /\ m.serial \in 1 .. arrived /\ m.serial \in 1 .. Len(stream)
         /\ stream[m.serial] = m
<1>1. arrived \in Nat /\ Len(stream) \in Nat /\ arrived <= Len(stream)
  BY DEF TypesOK
<1>2. PICK i \in 1 .. arrived : m = stream[i]
  BY DEF TypesOK
<1>3. i \in 1 .. Len(stream)
  BY <1>1
<1>4. m.serial = i /\ Contents(m) /\ m \in Messages
  BY <1>2, <1>3 DEF TypesOK
<1> QED BY <1>2, <1>3, <1>4

LEMMA WaitingFinite ==
  ASSUME TypesOK
  PROVE  IsFiniteSet(mRecvMessages) /\ Cardinality(mRecvMessages) \in Nat
<1> DEFINE number == [m \in mRecvMessages |-> m.serial]
<1>1. number \in Injection(mRecvMessages, 1 .. Len(stream))
  <2>1. number \in [mRecvMessages -> 1 .. Len(stream)]
    BY WaitingAre
  <2>2. \A m, n \in mRecvMessages : number[m] = number[n] => m = n
    BY WaitingAre
  <2> HIDE DEF number
  <2> QED BY <2>1, <2>2 DEF Injection, IsInjective
<1>2. IsFiniteSet(1 .. Len(stream))
  BY FS_Interval DEF TypesOK
<1>3. IsFiniteSet(mRecvMessages)
  BY <1>1, <1>2, FS_Injection
<1> QED BY <1>3, FS_CardinalityType

LEMMA PollRuns ==
  ASSUME TypesOK, Poll
  PROVE  \E batch, st :
           /\ IsRun(batch, st)
           /\ mRecvMessages' = mRecvMessages \ {batch[i] : i \in 1 .. Len(batch)}
           /\ State' = st[Len(batch)]
<1>1. PICK batch \in Batches :
        /\ mRecvMessages' = mRecvMessages \ Range(batch)
        /\ mLocalEntityId' = Processed(batch).local
        /\ mEntitys' = Processed(batch).shown
        /\ requests' = Processed(batch).out
        /\ infos' = Processed(batch).got
  BY DEF Poll, PollMessage
<1>2. /\ batch \in Seq(mRecvMessages)
      /\ \A i, j \in 1 .. Len(batch) : batch[i] = batch[j] => i = j
      /\ Range(batch) = {batch[i] : i \in 1 .. Len(batch)}
  <2>1. PICK size \in Nat : batch \in Injection(1 .. size, mRecvMessages)
    BY <1>1, WaitingFinite, ConstantsAre DEF Batches
  <2>2. /\ batch \in [1 .. size -> mRecvMessages]
        /\ \A i, j \in 1 .. size : batch[i] = batch[j] => i = j
    BY <2>1 DEF Injection, IsInjective
  <2>3. batch \in Seq(mRecvMessages) /\ Len(batch) = size
    BY <2>2
  <2> QED BY <2>2, <2>3 DEF Range
<1>3. Len(batch) \in Nat
  BY <1>2
<1>4. PICK st : /\ st[0] = State
                /\ \A i \in 1 .. Len(batch) : st[i] = ProcessMessage(st[i - 1], batch[i])
                /\ Processed(batch) = st[Len(batch)]
  BY <1>3, ProcessedIs
<1> DEFINE T == {k \in Nat : k <= Len(batch) => st[k] \in States(Len(stream))}
<1>5. 0 \in T
  BY <1>4 DEF TypesOK
<1>6. ASSUME NEW k \in Nat, k \in T PROVE k + 1 \in T
  <2> SUFFICES ASSUME k + 1 <= Len(batch) PROVE st[k + 1] \in States(Len(stream))
    OBVIOUS
  <2>1. k <= Len(batch) /\ k + 1 \in 1 .. Len(batch) /\ k + 1 - 1 = k
    BY <1>3
  <2>2. st[k + 1] = ProcessMessage(st[k], batch[k + 1])
    BY <1>4, <2>1
  <2>3. batch[k + 1] \in mRecvMessages
    BY <1>2, <2>1
  <2>4. Len(stream) \in Nat
    BY DEF TypesOK
  <2> QED BY <1>6, <2>1, <2>2, <2>3, <2>4, WaitingAre, StateAfter
<1>7. \A k \in Nat : k \in T
  <2> HIDE DEF T
  <2> QED BY <1>5, <1>6, Induction
<1>8. \A i \in 0 .. Len(batch) : st[i] \in States(Len(stream))
  BY <1>3, <1>7
<1>9. State' = st[Len(batch)]
  <2>1. st[Len(batch)] \in States(Len(stream))
    BY <1>3, <1>8
  <2> DEFINE last == st[Len(batch)]
  <2>2. last = [local |-> last.local, shown |-> last.shown, out |-> last.out, got |-> last.got]
    BY <2>1 DEF States
  <2> QED BY <1>1, <1>4, <2>2 DEF State
<1> QED BY <1>1, <1>2, <1>4, <1>8, <1>9 DEF IsRun

\* What is handled after the batch.
LEMMA HandledAfter ==
  ASSUME TypesOK, Poll, NEW batch, NEW st, IsRun(batch, st),
         mRecvMessages' = mRecvMessages \ {batch[i] : i \in 1 .. Len(batch)}
  PROVE  /\ Handled' = Handled \union Done(batch, Len(batch))
         /\ \A i \in 1 .. Len(batch) : batch[i].serial \in (1 .. arrived) \ Handled
<1>1. stream' = stream /\ arrived' = arrived
  BY DEF Poll
<1>2. \A i \in 1 .. Len(batch) : batch[i] \in mRecvMessages
  BY DEF IsRun
<1>3. \A i \in 1 .. Len(batch) :
        batch[i].serial \in 1 .. arrived /\ stream[batch[i].serial] = batch[i]
  BY <1>2, WaitingAre
<1>4. Handled' = {n \in 1 .. arrived : stream[n] \notin mRecvMessages'}
  BY <1>1 DEF Handled
<1>5. ASSUME NEW n \in 1 .. arrived, NEW i \in 1 .. Len(batch), stream[n] = batch[i]
      PROVE  n = batch[i].serial
  BY <1>5 DEF TypesOK
<1>6. ASSUME NEW n PROVE n \in Handled' <=> n \in Handled \union Done(batch, Len(batch))
  <2>1. n \in Handled' <=> /\ n \in 1 .. arrived
                           /\ \/ stream[n] \notin mRecvMessages
                              \/ \E i \in 1 .. Len(batch) : stream[n] = batch[i]
    BY <1>4
  <2>2. n \in Handled <=> n \in 1 .. arrived /\ stream[n] \notin mRecvMessages
    BY DEF Handled
  <2>3. n \in Done(batch, Len(batch)) <=>
          n \in 1 .. arrived /\ \E i \in 1 .. Len(batch) : stream[n] = batch[i]
    BY <1>3, <1>5 DEF Done
  <2> QED BY <2>1, <2>2, <2>3
<1> QED BY <1>2, <1>3, <1>6 DEF Handled

-----------------------------------------------------------------------------
(* PollMessage keeps the invariant. *)

\* Message k of the batch, and the states around it.
LEMMA RunStep ==
  ASSUME TypesOK, NEW batch, NEW st, IsRun(batch, st), NEW k \in Nat, k + 1 <= Len(batch)
  PROVE  /\ k <= Len(batch) /\ k + 1 \in 1 .. Len(batch)
         /\ st[k] \in States(Len(stream)) /\ st[k + 1] \in States(Len(stream))
         /\ st[k + 1] = ProcessMessage(st[k], batch[k + 1])
         /\ batch[k + 1] \in mRecvMessages
         /\ batch[k + 1] \in Messages /\ Contents(batch[k + 1])
         /\ batch[k + 1].serial \in 1 .. arrived
         /\ batch[k + 1].serial \in 1 .. Len(stream)
         /\ stream[batch[k + 1].serial] = batch[k + 1]
         /\ Done(batch, k + 1) = Done(batch, k) \union {batch[k + 1].serial}
         /\ batch[k + 1].serial \notin Handled \union Done(batch, k)
<1>1. Len(batch) \in Nat
  BY DEF IsRun
<1>2. k <= Len(batch) /\ k + 1 \in 1 .. Len(batch) /\ k + 1 - 1 = k /\ k \in 0 .. Len(batch)
      /\ k + 1 \in 0 .. Len(batch)
  BY <1>1
<1>3. st[k + 1] = ProcessMessage(st[k], batch[k + 1])
  BY <1>2 DEF IsRun
<1>4. \A i \in 1 .. Len(batch) : batch[i] \in mRecvMessages
  BY DEF IsRun
<1>5. \A i \in 1 .. Len(batch) : stream[batch[i].serial] = batch[i]
  BY <1>4, WaitingAre
<1>6. 1 .. k + 1 = (1 .. k) \union {k + 1}
  OBVIOUS
<1>7. Done(batch, k + 1) = Done(batch, k) \union {batch[k + 1].serial}
  BY <1>6 DEF Done
<1>8. batch[k + 1].serial \notin Done(batch, k)
  <2> SUFFICES ASSUME NEW i \in 1 .. k, batch[k + 1].serial = batch[i].serial PROVE FALSE
    BY DEF Done
  <2>1. i \in 1 .. Len(batch) /\ i # k + 1
    BY <1>1, <1>2
  <2>2. batch[i] = batch[k + 1]
    BY <1>2, <1>5, <2>1
  <2> QED BY <1>2, <2>1, <2>2 DEF IsRun
<1>9. batch[k + 1].serial \notin Handled
  BY <1>2, <1>4, <1>5 DEF Handled
<1>10. /\ batch[k + 1] \in mRecvMessages
       /\ batch[k + 1] \in Messages /\ Contents(batch[k + 1])
       /\ batch[k + 1].serial \in 1 .. arrived
       /\ batch[k + 1].serial \in 1 .. Len(stream)
       /\ stream[batch[k + 1].serial] = batch[k + 1]
  BY <1>2, <1>4, WaitingAre
<1>11. st[k] \in States(Len(stream)) /\ st[k + 1] \in States(Len(stream))
  BY <1>2 DEF IsRun
<1> QED BY <1>2, <1>3, <1>7, <1>8, <1>9, <1>10, <1>11

\* The handlers only add requests.
LEMMA RequestsGrow ==
  ASSUME TypesOK, NEW batch, NEW st, IsRun(batch, st), NEW n \in 0 .. Len(batch)
  PROVE  /\ Len(st[n].out) \in Nat /\ Len(requests) \in Nat /\ Len(requests) <= Len(st[n].out)
         /\ \A j \in 1 .. Len(requests) : st[n].out[j] = requests[j]
<1>1. State.out = requests /\ requests \in Seq(InfoRequests \union PathRequests)
  BY DEF State, TypesOK, States
<1> DEFINE T == {k \in Nat : k <= Len(batch) =>
                   /\ Len(st[k].out) \in Nat /\ Len(requests) <= Len(st[k].out)
                   /\ \A j \in 1 .. Len(requests) : st[k].out[j] = requests[j]}
<1>2. 0 \in T
  BY <1>1 DEF IsRun
<1>3. ASSUME NEW k \in Nat, k \in T PROVE k + 1 \in T
  <2> SUFFICES ASSUME k + 1 <= Len(batch)
               PROVE  /\ Len(st[k + 1].out) \in Nat /\ Len(requests) <= Len(st[k + 1].out)
                      /\ \A j \in 1 .. Len(requests) : st[k + 1].out[j] = requests[j]
    OBVIOUS
  <2> DEFINE old == st[k].out
             new == st[k + 1].out
  <2>1. k <= Len(batch) /\ st[k] \in States(Len(stream)) /\ batch[k + 1] \in Messages
        /\ st[k + 1] = ProcessMessage(st[k], batch[k + 1])
    BY RunStep
  <2>0. Len(stream) \in Nat
    BY DEF TypesOK
  <2>2. /\ Len(old) \in Nat /\ Len(requests) <= Len(old)
        /\ \A j \in 1 .. Len(requests) : old[j] = requests[j]
    BY <1>3, <2>1
  <2>3. old \in Seq(InfoRequests \union PathRequests)
    BY <2>1 DEF States
  <2>4. new = old \/ \E r : new = Append(old, r)
    <3> DEFINE m == batch[k + 1]
    <3>1. new \in {old, Ask(old, 0, m.ObjectId), Ask(old, m.InfoNumber, m.ObjectId)}
      <4>1. new = ProcessMessage(st[k], m).out
        BY <2>1
      <4> HIDE DEF new, m
      <4> QED BY <2>0, <2>1, <4>1, OutAfter DEF m
    <3> QED BY <3>1 DEF Ask
  <2>5. Len(requests) \in Nat
    BY <1>1
  <2> HIDE DEF old, new
  <2>6. CASE new = old
    BY <2>2, <2>6 DEF old, new
  <2>7. CASE \E r : new = Append(old, r)
    <3>1. PICK r : new = Append(old, r)
      BY <2>7
    <3>2. Len(new) = Len(old) + 1 /\ \A j \in 1 .. Len(old) : new[j] = old[j]
      BY <2>3, <3>1
    <3>3. \A j \in 1 .. Len(requests) : j \in 1 .. Len(old)
      BY <2>2, <2>5
    <3> QED BY <2>2, <2>5, <3>2, <3>3 DEF old, new
  <2> QED BY <2>4, <2>6, <2>7
<1>4. \A k \in Nat : k \in T
  <2> HIDE DEF T
  <2> QED BY <1>2, <1>3, Induction
<1>5. n \in Nat /\ n <= Len(batch) /\ Len(requests) \in Nat
  BY <1>1 DEF IsRun
<1> QED BY <1>4, <1>5

LEMMA PollTypes ==
  ASSUME TypesOK, Poll
  PROVE  TypesOK'
<1>1. PICK batch, st :
        /\ IsRun(batch, st)
        /\ mRecvMessages' = mRecvMessages \ {batch[i] : i \in 1 .. Len(batch)}
        /\ State' = st[Len(batch)]
  BY PollRuns
<1>2. Len(batch) \in 0 .. Len(batch)
  BY <1>1 DEF IsRun
<1>3. State' \in States(Len(stream))
  BY <1>1, <1>2 DEF IsRun
<1>4. requests' = State'.out
  BY DEF State
<1>5. Len(requests') \in Nat /\ Len(requests) \in Nat /\ Len(requests) <= Len(requests')
  BY <1>1, <1>2, <1>4, RequestsGrow
<1>6. dispatched' \in 0 .. Len(requests')
  BY <1>5 DEF TypesOK, Poll
<1>7. State' \in States(Len(stream'))
  BY <1>3 DEF Poll
<1>8. /\ UseAOI' = UseAOI /\ stream' = stream /\ arrived' = arrived /\ tasks' = tasks
      /\ dispatched' = dispatched /\ inSight' = inSight
  BY DEF Poll
<1>9. mRecvMessages' \subseteq {stream'[i] : i \in 1 .. arrived'}
  BY <1>1, <1>8 DEF TypesOK
<1>10. (\A i \in 1 .. Len(stream) : stream[i].serial = i /\ Contents(stream[i]))'
  BY <1>8 DEF TypesOK, Contents
<1>11. (State \in States(Len(stream)))'
  BY <1>7 DEF States, Views
<1> QED BY <1>6, <1>8, <1>9, <1>10, <1>11 DEF TypesOK

\* One more message in turn, and what is shown of e still matches.
LEMMA MatchesAfter ==
  ASSUME NEW s, NEW H \in SUBSET Nat, NEW k \in Nat, NEW st \in States(k),
         NEW m \in Messages, m.serial \in 1 .. k, s[m.serial] = m, NEW e \in Entities,
         IsAbout(s, m.serial, e) => \A i \in H : IsAbout(s, i, e) => i < m.serial,
         Appears(s, m.serial, e) => ~ToldBy(s, H, e),
         Matches(s, st.shown, H, e)
  PROVE  Matches(s, ProcessMessage(st, m).shown, H \union {m.serial}, e)
<1> DEFINE old == st.shown
           new == ProcessMessage(st, m).shown
           n == m.serial
           G == H \union {n}
<1>1. n \in Nat /\ s[n] = m
  OBVIOUS
<1>2. Matches(s, old, H, e)
  OBVIOUS
<1>3. \A i \in H : i \in Nat
  OBVIOUS
<1>4. \A i : Appears(s, i, e) \/ Disappears(s, i, e) \/ Walks(s, i, e) => IsAbout(s, i, e)
  BY DEF Appears, Disappears, Walks, IsAbout, AboutSight
<1>5. CASE ~IsAbout(s, n, e)
  <2>1. e \in DOMAIN new <=> e \in DOMAIN old
    BY <1>1, <1>5, ShownAfter DEF IsAbout
  <2>2. e \in DOMAIN old => new[e] = old[e]
    BY <1>1, <1>5, ShownAfter DEF IsAbout
  <2>3. ~Appears(s, n, e) /\ ~Disappears(s, n, e) /\ ~Walks(s, n, e)
    BY <1>4, <1>5
  <2> HIDE DEF old, new, n
  <2>4. ToldBy(s, G, e) <=> ToldBy(s, H, e)
    BY <2>3 DEF ToldBy
  <2>5. \A p : PathBy(s, H, e, p) => PathBy(s, G, e, p)
    BY <2>3 DEF PathBy
  <2> QED BY <1>2, <2>1, <2>2, <2>4, <2>5 DEF Matches, old, new, n
<1>6. CASE IsAbout(s, n, e)
  <2>1. \A i \in H : IsAbout(s, i, e) => i < n
    BY <1>6
  <2>2. m.ObjectId = e
    BY <1>1, <1>6 DEF IsAbout
  <2>3. CASE m.type \in {"SPAWN_ENTITY", "APPEAR_ENTITY"}
    <3>1. Appears(s, n, e) /\ ~Walks(s, n, e) /\ ~Disappears(s, n, e)
      BY <1>1, <2>2, <2>3 DEF Appears, Walks, Disappears
    <3>2. e \notin DOMAIN old
      BY <1>2, <3>1 DEF Matches
    <3>3. e \in DOMAIN new /\ new[e] = None
      BY <2>2, <2>3, <3>2, ShownAfter
    <3> HIDE DEF old, new, n
    <3>4. \A i \in H : ~(i > n /\ IsAbout(s, i, e))
      BY <1>1, <1>3, <2>1 DEF n
    <3>5. \A i \in G : i > n => i \in H
      BY <1>1 DEF n
    <3>6. ToldBy(s, G, e)
      BY <1>4, <3>1, <3>4, <3>5 DEF ToldBy
    <3>7. \A i \in G : Walks(s, i, e) => n > i
      BY <1>1, <1>3, <1>4, <2>1, <3>1 DEF n
    <3>8. PathBy(s, G, e, None)
      BY <3>1, <3>7 DEF PathBy
    <3> QED BY <3>3, <3>6, <3>8 DEF Matches, new, n
  <2>4. CASE m.type = "DISAPPEAR_ENTITY"
    <3>1. Disappears(s, n, e) /\ ~Appears(s, n, e)
      BY <1>1, <2>2, <2>4 DEF Disappears, Appears
    <3>2. e \notin DOMAIN new
      BY <2>2, <2>4, ShownAfter
    <3> HIDE DEF old, new, n
    <3>3. \A i \in H : IsAbout(s, i, e) => n > i
      BY <1>1, <1>3, <2>1 DEF n
    <3>4. ~ToldBy(s, G, e)
      BY <1>4, <3>1, <3>3 DEF ToldBy
    <3> QED BY <3>2, <3>4 DEF Matches, new, n
  <2>5. CASE m.type = "PATH_FINDING"
    <3>1. Walks(s, n, e) /\ ~Appears(s, n, e) /\ ~Disappears(s, n, e)
      BY <1>1, <2>2, <2>5 DEF Walks, Appears, Disappears
    <3>2. e \in DOMAIN new <=> e \in DOMAIN old
      BY <2>2, <2>5, ShownAfter
    <3>3. e \in DOMAIN old => new[e] = n
      BY <2>2, <2>5, ShownAfter
    <3> HIDE DEF old, new, n
    <3>4. ToldBy(s, G, e) <=> ToldBy(s, H, e)
      BY <3>1 DEF ToldBy
    <3>5. \A i \in G : ~(i > n /\ IsAbout(s, i, e))
      BY <1>1, <1>3, <2>1 DEF n
    <3>6. PathBy(s, G, e, n)
      BY <1>4, <3>1, <3>5 DEF PathBy
    <3> QED BY <1>2, <3>2, <3>3, <3>4, <3>6 DEF Matches, old, new, n
  <2>6. m.type \in {"SPAWN_ENTITY", "APPEAR_ENTITY", "DISAPPEAR_ENTITY", "PATH_FINDING"}
    BY <1>1, <1>6 DEF IsAbout, AboutSight, Messages
  <2> QED BY <2>3, <2>4, <2>5, <2>6
<1> QED BY <1>5, <1>6

\* A message of an entity that is not crossed comes after all others that were
\* handled, and nothing about the entity is left out before it.
LEMMA BatchInTurn ==
  ASSUME TypesOK, InTurn, NEW batch, NEW st, IsRun(batch, st), NEW k \in Nat,
         k + 1 <= Len(batch), NEW e \in Entities \ crossed,
         IsAbout(stream, batch[k + 1].serial, e)
  PROVE  LET n == batch[k + 1].serial  H == Handled \union Done(batch, k)
         IN /\ \A i \in H : IsAbout(stream, i, e) => i < n
            /\ \A i \in 1 .. n : IsAbout(stream, i, e) /\ i # n => i \in H
<1> DEFINE n == batch[k + 1].serial
           H == Handled \union Done(batch, k)
<1>1. n \in 1 .. arrived /\ stream[n] \in mRecvMessages /\ n \notin H /\ IsAbout(stream, n, e)
  BY RunStep
<1>2. arrived \in Nat
  BY DEF TypesOK
<1>3. H \subseteq 1 .. arrived
  <2>1. \A i \in 1 .. k : batch[i].serial \in 1 .. arrived
    <3>1. \A i \in 1 .. k : i \in 1 .. Len(batch)
      BY DEF IsRun
    <3> QED BY <3>1, WaitingAre DEF IsRun
  <2> QED BY <2>1 DEF Handled, Done
<1> HIDE DEF n, H
<1>4. ASSUME NEW i \in H, IsAbout(stream, i, e) PROVE i < n
  <2>1. i \in 1 .. arrived
    BY <1>3
  <2>2. i <= n
    BY <1>1, <1>4, <2>1 DEF InTurn
  <2>3. i # n
    BY <1>1
  <2> QED BY <1>1, <1>2, <2>1, <2>2, <2>3
<1>5. ASSUME NEW i \in 1 .. n, IsAbout(stream, i, e), i # n PROVE i \in H
  <2>1. i \in 1 .. arrived /\ ~(n <= i)
    BY <1>1, <1>2, <1>5
  <2>2. stream[i] \notin mRecvMessages
    BY <1>1, <1>5, <2>1 DEF InTurn
  <2> QED BY <2>1, <2>2 DEF H, Handled
<1> QED BY <1>4, <1>5 DEF n, H

LEMMA PollMatches ==
  ASSUME Inv, Poll
  PROVE  InTurn' /\ ViewMatches'
<1>0. TypesOK /\ StreamTells /\ InTurn /\ ViewMatches
  BY DEF Inv
<1>1. PICK batch, st :
        /\ IsRun(batch, st)
        /\ mRecvMessages' = mRecvMessages \ {batch[i] : i \in 1 .. Len(batch)}
        /\ State' = st[Len(batch)]
  BY <1>0, PollRuns
<1>2. stream' = stream /\ arrived' = arrived /\ crossed' = crossed
  BY DEF Poll
<1>3. InTurn'
  <2>1. mRecvMessages' \subseteq mRecvMessages
    BY <1>1
  <2> QED BY <1>0, <1>2, <2>1 DEF InTurn, IsAbout, AboutSight
<1> DEFINE H(k) == Handled \union Done(batch, k)
           Good(k) == \A e \in Entities \ crossed : Matches(stream, st[k].shown, H(k), e)
           T == {k \in Nat : k <= Len(batch) => Good(k)}
<1>4. 0 \in T
  <2>1. Done(batch, 0) = {}
    BY DEF Done
  <2>2. st[0].shown = mEntitys
    BY <1>1 DEF IsRun, State
  <2>3. Good(0)
    BY <1>0, <2>1, <2>2 DEF ViewMatches
  <2> HIDE DEF Good
  <2> QED BY <2>3
<1>5. ASSUME NEW k \in Nat, k \in T PROVE k + 1 \in T
  <2> SUFFICES ASSUME k + 1 <= Len(batch), k <= Len(batch) => Good(k) PROVE Good(k + 1)
    <3> HIDE DEF Good
    <3> QED BY <1>5
  <2> SUFFICES ASSUME NEW e \in Entities \ crossed
               PROVE  Matches(stream, st[k + 1].shown, H(k + 1), e)
    OBVIOUS
  <2> DEFINE m == batch[k + 1]
  <2>1. /\ k <= Len(batch) /\ st[k] \in States(Len(stream)) /\ Len(stream) \in Nat
        /\ st[k + 1] = ProcessMessage(st[k], m) /\ m \in Messages
        /\ m.serial \in 1 .. Len(stream) /\ stream[m.serial] = m
        /\ Done(batch, k + 1) = Done(batch, k) \union {m.serial}
    <3>1. Len(stream) \in Nat
      BY <1>0 DEF TypesOK
    <3>2. TypesOK /\ IsRun(batch, st) /\ k + 1 <= Len(batch)
      BY <1>0, <1>1
    <3>3. /\ k <= Len(batch) /\ st[k] \in States(Len(stream))
          /\ st[k + 1] = ProcessMessage(st[k], m) /\ m \in Messages
          /\ m.serial \in 1 .. Len(stream) /\ stream[m.serial] = m
          /\ Done(batch, k + 1) = Done(batch, k) \union {m.serial}
      BY <3>2, RunStep
    <3> QED BY <3>1, <3>3
  <2>2. Matches(stream, st[k].shown, H(k), e)
    BY <2>1
  <2>3. H(k) \in SUBSET Nat
    <3>1. \A i \in 1 .. k : batch[i].serial \in Nat
      <4>1. \A i \in 1 .. k : i \in 1 .. Len(batch)
        BY <1>1 DEF IsRun
      <4> QED BY <1>0, <1>1, <4>1, WaitingAre DEF IsRun, Messages
    <3>2. Handled \subseteq Nat
      BY DEF Handled
    <3> QED BY <3>1, <3>2 DEF Done
  <2>4. IsAbout(stream, m.serial, e) => \A i \in H(k) : IsAbout(stream, i, e) => i < m.serial
    BY <1>0, <1>1, BatchInTurn
  <2>5. Appears(stream, m.serial, e) => ~ToldBy(stream, H(k), e)
    <3> SUFFICES ASSUME Appears(stream, m.serial, e), ToldBy(stream, H(k), e) PROVE FALSE
      OBVIOUS
    <3>1. IsAbout(stream, m.serial, e)
      BY DEF Appears, IsAbout, AboutSight
    <3>2. PICK i \in H(k) : /\ Appears(stream, i, e)
                            /\ \A j \in H(k) : j > i => ~Disappears(stream, j, e)
      BY DEF ToldBy
    <3>3. IsAbout(stream, i, e)
      BY <3>2 DEF Appears, IsAbout, AboutSight
    <3>4. i < m.serial
      BY <2>4, <3>1, <3>3
    <3>5. i \in 1 .. Len(stream)
      <4>1. Handled \subseteq 1 .. Len(stream)
        BY <1>0 DEF Handled, TypesOK
      <4>2. \A d \in 1 .. k : batch[d].serial \in 1 .. Len(stream)
        <5>1. \A d \in 1 .. k : d \in 1 .. Len(batch)
          BY <1>1 DEF IsRun
        <5> QED BY <1>0, <1>1, <5>1, WaitingAre DEF IsRun
      <4> QED BY <4>1, <4>2 DEF Done
    <3>6. PICK d \in i + 1 .. m.serial - 1 : Disappears(stream, d, e)
      BY <1>0, <2>1, <3>2, <3>4, <3>5 DEF StreamTells
    <3>7. IsAbout(stream, d, e)
      BY <3>6 DEF Disappears, IsAbout, AboutSight
    <3>8. d \in 1 .. m.serial /\ d # m.serial /\ d > i
      BY <2>1, <3>5, <3>6
    <3>9. d \in H(k)
      BY <1>0, <1>1, <3>1, <3>7, <3>8, BatchInTurn
    <3> QED BY <3>2, <3>6, <3>8, <3>9
  <2>6. H(k + 1) = H(k) \union {m.serial}
    BY <2>1
  <2>7. e \in Entities
    OBVIOUS
  <2> HIDE DEF H, m, T, Good
  <2>8. \A G \in SUBSET Nat :
          /\ IsAbout(stream, m.serial, e) => \A i \in G : IsAbout(stream, i, e) => i < m.serial
          /\ Appears(stream, m.serial, e) => ~ToldBy(stream, G, e)
          /\ Matches(stream, st[k].shown, G, e)
          => Matches(stream, ProcessMessage(st[k], m).shown, G \union {m.serial}, e)
    BY <2>1, <2>7, MatchesAfter
  <2> QED BY <2>1, <2>2, <2>3, <2>4, <2>5, <2>6, <2>8
<1>6. \A k \in Nat : k \in T
  <2> HIDE DEF T
  <2> QED BY <1>4, <1>5, Induction
<1>7. Good(Len(batch))
  <2>1. Len(batch) \in Nat /\ Len(batch) <= Len(batch)
    BY <1>1 DEF IsRun
  <2> HIDE DEF Good
  <2> QED BY <1>6, <2>1
<1>8. st[Len(batch)].shown = mEntitys'
  <2>1. State'.shown = mEntitys'
    BY DEF State
  <2> QED BY <1>1, <2>1
<1>9. Handled' = H(Len(batch))
  BY <1>0, <1>1, HandledAfter
<1>10. ViewMatches'
  <2>1. \A e \in Entities \ crossed' : Matches(stream', mEntitys', Handled', e)
    BY <1>2, <1>7, <1>8, <1>9
  <2> QED BY <2>1 DEF ViewMatches
<1> QED BY <1>3, <1>10

LEMMA PollAnswered ==
  ASSUME Inv, Poll
  PROVE  PredictionAnswered'
<1>0. TypesOK /\ PredictionAnswered
  BY DEF Inv
<1>1. PICK batch, st :
        /\ IsRun(batch, st)
        /\ mRecvMessages' = mRecvMessages \ {batch[i] : i \in 1 .. Len(batch)}
        /\ State' = st[Len(batch)]
  BY <1>0, PollRuns
<1>2. /\ stream' = stream /\ arrived' = arrived /\ tasks' = tasks /\ dispatched' = dispatched
  BY DEF Poll
<1>3. Len(stream) \in Nat /\ Len(batch) \in Nat
  BY <1>0, <1>1 DEF TypesOK, IsRun
<1> DEFINE IsPath(m) == m.type = "PATH_FINDING" /\ m.ObjectId = Own
           Good(k) == Predicts(st[k].shown) =>
                        Predicts(mEntitys) /\ \A i \in 1 .. k : ~IsPath(batch[i])
           T == {k \in Nat : k <= Len(batch) => Good(k)}
<1>4. 0 \in T
  <2>1. Good(0)
    BY <1>1 DEF IsRun, State
  <2> HIDE DEF Good
  <2> QED BY <2>1
<1>5. ASSUME NEW k \in Nat, k \in T PROVE k + 1 \in T
  <2> SUFFICES ASSUME k + 1 <= Len(batch), k <= Len(batch) => Good(k) PROVE Good(k + 1)
    <3> HIDE DEF Good
    <3> QED BY <1>5
  <2> SUFFICES ASSUME Predicts(st[k + 1].shown)
               PROVE  Predicts(mEntitys) /\ \A i \in 1 .. k + 1 : ~IsPath(batch[i])
    OBVIOUS
  <2> DEFINE m == batch[k + 1]
             old == st[k].shown
             new == st[k + 1].shown
  <2>1. /\ k <= Len(batch) /\ st[k] \in States(Len(stream)) /\ m \in Messages /\ Contents(m)
        /\ st[k + 1] = ProcessMessage(st[k], m) /\ m.serial \in 1 .. Len(stream)
    BY <1>0, <1>1, RunStep
  <2>2. Own \in Entities
    BY ConstantsAre
  <2>3. /\ ~(AboutSight(m) /\ m.ObjectId = Own) =>
             /\ Own \in DOMAIN new <=> Own \in DOMAIN old
             /\ Own \in DOMAIN old => new[Own] = old[Own]
        /\ m.type \in {"SPAWN_ENTITY", "APPEAR_ENTITY"} /\ m.ObjectId = Own =>
             /\ Own \in DOMAIN new
             /\ new[Own] = IF Own \in DOMAIN old THEN old[Own] ELSE None
        /\ m.type = "DISAPPEAR_ENTITY" /\ m.ObjectId = Own => Own \notin DOMAIN new
        /\ m.type = "PATH_FINDING" /\ m.ObjectId = Own =>
             /\ Own \in DOMAIN new <=> Own \in DOMAIN old
             /\ Own \in DOMAIN old => new[Own] = m.serial
    BY <1>3, <2>1, <2>2, ShownAfter
  <2>4. m.type \in {"SPAWN_ENTITY", "APPEAR_ENTITY", "DISAPPEAR_ENTITY",
                    "PATH_FINDING", "ENTITY_INFO"}
        /\ m.serial # Predicted /\ None # Predicted
    BY <2>1, ConstantsAre DEF Messages
  <2>5. Own \in DOMAIN new /\ new[Own] = Predicted
    BY DEF Predicts
  <2> HIDE DEF m, old, new, Good
  <2>6. Own \in DOMAIN old /\ old[Own] = Predicted /\ ~(m.type = "PATH_FINDING" /\ m.ObjectId = Own)
    BY <2>3, <2>4, <2>5 DEF AboutSight
  <2>7. Predicts(st[k].shown)
    BY <2>6 DEF Predicts, old
  <2>8. Predicts(mEntitys) /\ \A i \in 1 .. k : ~IsPath(batch[i])
    BY <2>1, <2>7 DEF Good
  <2>9. ~IsPath(batch[k + 1])
    BY <2>6 DEF m
  <2>10. \A i \in 1 .. k + 1 : i \in 1 .. k \/ i = k + 1
    OBVIOUS
  <2> HIDE DEF IsPath
  <2> QED BY <2>8, <2>9, <2>10
<1>6. \A k \in Nat : k \in T
  <2> HIDE DEF T
  <2> QED BY <1>4, <1>5, Induction
<1>7. Good(Len(batch))
  <2> HIDE DEF Good
  <2> QED BY <1>3, <1>6
<1>8. st[Len(batch)].shown = mEntitys' /\ st[Len(batch)].out = requests'
  BY <1>1 DEF State
<1> SUFFICES ASSUME Predicts(mEntitys') PROVE PathComes'
  BY DEF PredictionAnswered, Predicts
<1>9. PathComes /\ \A i \in 1 .. Len(batch) : ~IsPath(batch[i])
  BY <1>0, <1>7, <1>8 DEF PredictionAnswered
<1>10. /\ Len(requests') \in Nat /\ Len(requests) \in Nat /\ Len(requests) <= Len(requests')
       /\ \A j \in 1 .. Len(requests) : requests'[j] = requests[j]
  BY <1>0, <1>1, <1>3, <1>8, RequestsGrow
<1>11. CASE \E i \in dispatched + 1 .. Len(requests) : requests[i].type = "PATH_FINDING"
  <2>1. PICK i \in dispatched + 1 .. Len(requests) : requests[i].type = "PATH_FINDING"
    BY <1>11
  <2>2. i \in 1 .. Len(requests) /\ i \in dispatched' + 1 .. Len(requests')
    BY <1>0, <1>2, <1>10 DEF TypesOK
  <2>3. requests'[i].type = "PATH_FINDING"
    BY <1>10, <2>1, <2>2
  <2> QED BY <2>2, <2>3 DEF PathComes
<1>12. CASE \E task \in tasks : task.type = "PathFind"
  BY <1>2, <1>12 DEF PathComes
<1>13. CASE \E i \in 1 .. Len(stream) : i \notin Handled /\ Walks(stream, i, Own)
  <2>1. PICK i \in 1 .. Len(stream) : i \notin Handled /\ Walks(stream, i, Own)
    BY <1>13
  <2>2. i \notin Done(batch, Len(batch))
    <3> SUFFICES ASSUME NEW j \in 1 .. Len(batch), i = batch[j].serial PROVE FALSE
      BY DEF Done
    <3>1. stream[i] = batch[j]
      BY <1>0, <1>1, WaitingAre DEF IsRun
    <3> QED BY <1>9, <2>1, <3>1 DEF Walks
  <2>3. i \notin Handled'
    BY <1>0, <1>1, <2>1, <2>2, HandledAfter
  <2>4. \E j \in 1 .. Len(stream') : j \notin Handled' /\ Walks(stream', j, Own)
    BY <1>2, <2>1, <2>3
  <2> QED BY <2>4 DEF PathComes, Walks
<1> QED BY <1>9, <1>11, <1>12, <1>13 DEF PathComes

\* One more request is one more number among the requests that ask for it.
LEMMA AskedMore ==
  ASSUME NEW out \in Seq(InfoRequests \union PathRequests), NEW e, NEW n
  PROVE  /\ IsFiniteSet(Asked(out, e, n))
         /\ \A d, q :
              /\ d = e /\ q = n =>
                   Cardinality(Asked(Ask(out, q, d), e, n)) = Cardinality(Asked(out, e, n)) + 1
              /\ ~(d = e /\ q = n) => Asked(Ask(out, q, d), e, n) = Asked(out, e, n)
<1>0. IsFiniteSet(Asked(out, e, n))
  <2>1. IsFiniteSet(1 .. Len(out)) /\ Asked(out, e, n) \subseteq 1 .. Len(out)
    BY FS_Interval DEF Asked
  <2> QED BY <2>1, FS_Subset
<1> SUFFICES ASSUME NEW d, NEW q
             PROVE  /\ d = e /\ q = n =>
                         Cardinality(Asked(Ask(out, q, d), e, n)) = Cardinality(Asked(out, e, n)) + 1
                    /\ ~(d = e /\ q = n) => Asked(Ask(out, q, d), e, n) = Asked(out, e, n)
  BY <1>0
<1> DEFINE r == [type |-> "ENTITY_INFO", ObjectId |-> d, InfoNumber |-> q]
           new == Append(out, r)
<1>1. Len(out) \in Nat /\ Len(new) = Len(out) + 1 /\ new[Len(out) + 1] = r
      /\ \A i \in 1 .. Len(out) : new[i] = out[i]
  OBVIOUS
<1>2. 1 .. Len(out) + 1 = (1 .. Len(out)) \union {Len(out) + 1} /\ Len(out) + 1 \notin 1 .. Len(out)
  BY <1>1
<1>4. Ask(out, q, d) = new
  BY DEF Ask
<1>5. r.type = "ENTITY_INFO" /\ r.ObjectId = d /\ r.InfoNumber = q
  OBVIOUS
<1> HIDE DEF r, new
<1>6. ASSUME d = e, q = n
      PROVE  Cardinality(Asked(new, e, n)) = Cardinality(Asked(out, e, n)) + 1
  <2>1. Asked(new, e, n) = Asked(out, e, n) \union {Len(out) + 1}
    BY <1>1, <1>2, <1>5, <1>6 DEF Asked
  <2>2. Len(out) + 1 \notin Asked(out, e, n)
    BY <1>2 DEF Asked
  <2> QED BY <1>0, <2>1, <2>2, FS_AddElement
<1>7. ASSUME ~(d = e /\ q = n) PROVE Asked(new, e, n) = Asked(out, e, n)
  BY <1>1, <1>2, <1>5, <1>7 DEF Asked
<1> QED BY <1>4, <1>6, <1>7

\* One more message handled is one more cause, if it is one.
LEMMA CausesMore ==
  ASSUME NEW s, NEW H, IsFiniteSet(H), NEW i, i \notin H, NEW e, NEW n
  PROVE  /\ IsFiniteSet(Causes(s, H, e, n)) /\ Cardinality(Causes(s, H, e, n)) \in Nat
         /\ IsCause(s[i], e, n) =>
              Cardinality(Causes(s, H \union {i}, e, n)) = Cardinality(Causes(s, H, e, n)) + 1
         /\ ~IsCause(s[i], e, n) => Causes(s, H \union {i}, e, n) = Causes(s, H, e, n)
<1>1. IsFiniteSet(Causes(s, H, e, n))
  <2>1. Causes(s, H, e, n) \subseteq H
    BY DEF Causes
  <2> QED BY <2>1, FS_Subset
<1>2. ASSUME IsCause(s[i], e, n)
      PROVE  Cardinality(Causes(s, H \union {i}, e, n)) = Cardinality(Causes(s, H, e, n)) + 1
  <2>1. Causes(s, H \union {i}, e, n) = Causes(s, H, e, n) \union {i}
    BY <1>2 DEF Causes
  <2>2. i \notin Causes(s, H, e, n)
    BY DEF Causes
  <2> QED BY <1>1, <2>1, <2>2, FS_AddElement
<1>3. ASSUME ~IsCause(s[i], e, n) PROVE Causes(s, H \union {i}, e, n) = Causes(s, H, e, n)
  BY <1>3 DEF Causes
<1> QED BY <1>1, <1>2, <1>3, FS_CardinalityType

LEMMA AskedAfter ==
  ASSUME NEW s, NEW H, IsFiniteSet(H), NEW k \in Nat, NEW st \in States(k),
         NEW m \in Messages, Contents(m), m.serial \notin H, s[m.serial] = m,
         NEW e \in Entities, NEW n \in 0 .. EntityInfoMax - 1,
         Cardinality(Asked(st.out, e, n)) <= Cardinality(Causes(s, H, e, n))
  PROVE  Cardinality(Asked(ProcessMessage(st, m).out, e, n))
           <= Cardinality(Causes(s, H \union {m.serial}, e, n))
<1> DEFINE old == st.out
           new == ProcessMessage(st, m).out
           asked == Cardinality(Asked(old, e, n))
           causes == Cardinality(Causes(s, H, e, n))
           after == Cardinality(Causes(s, H \union {m.serial}, e, n))
<1>1. old \in Seq(InfoRequests \union PathRequests)
  BY DEF States
<1>2. asked \in Nat /\ causes \in Nat /\ asked <= causes
  BY <1>1, AskedMore, CausesMore, FS_CardinalityType
<1>3. IF IsCause(m, e, n) THEN after = causes + 1 ELSE after = causes
  BY CausesMore
<1>4. n \in 0 .. 3 /\ EntityInfoMax = 4
  BY DEF EntityInfoMax
<1>8. \A d, q :
        /\ d = e /\ q = n => Cardinality(Asked(Ask(old, q, d), e, n)) = asked + 1
        /\ ~(d = e /\ q = n) => Asked(Ask(old, q, d), e, n) = Asked(old, e, n)
  <2> HIDE DEF old
  <2> QED BY <1>1, AskedMore
<1>5. CASE m.type = "APPEAR_ENTITY"
  <2>1. new = Ask(old, 0, m.ObjectId)
    BY <1>5, OutAfter
  <2>2. CASE m.ObjectId = e /\ n = 0
    <3>1. Cardinality(Asked(new, e, n)) = asked + 1
      BY <1>8, <2>1, <2>2
    <3>2. IsCause(m, e, n)
      BY <1>5, <2>2 DEF IsCause
    <3> QED BY <1>2, <1>3, <3>1, <3>2
  <2>3. CASE ~(m.ObjectId = e /\ n = 0)
    <3>1. Asked(new, e, n) = Asked(old, e, n)
      BY <1>8, <2>1, <2>3
    <3> QED BY <1>2, <1>3, <3>1
  <2> QED BY <2>2, <2>3
<1>6. CASE m.type = "ENTITY_INFO" /\ m.InfoNumber < EntityInfoMax
  <2>1. new = Ask(old, m.InfoNumber, m.ObjectId)
    BY <1>6, OutAfter
  <2>2. CASE m.ObjectId = e /\ m.InfoNumber = n
    <3>1. Cardinality(Asked(new, e, n)) = asked + 1
      BY <1>8, <2>1, <2>2
    <3>2. n # 0
      BY <1>4, <1>6, <2>2 DEF Contents
    <3>3. IsCause(m, e, n)
      BY <1>6, <2>2, <3>2 DEF IsCause
    <3> QED BY <1>2, <1>3, <3>1, <3>3
  <2>3. CASE ~(m.ObjectId = e /\ m.InfoNumber = n)
    <3>1. Asked(new, e, n) = Asked(old, e, n)
      BY <1>8, <2>1, <2>3
    <3> QED BY <1>2, <1>3, <3>1
  <2> QED BY <2>2, <2>3
<1>7. CASE m.type # "APPEAR_ENTITY" /\ ~(m.type = "ENTITY_INFO" /\ m.InfoNumber < EntityInfoMax)
  <2>1. new = old
    BY <1>7, OutAfter
  <2> QED BY <1>2, <1>3, <2>1
<1> QED BY <1>5, <1>6, <1>7

LEMMA PollChains ==
  ASSUME Inv, Poll
  PROVE  AskedOnce' /\ AnsweredOnce' /\ ShortChains'
<1>0. TypesOK /\ AskedOnce /\ AnsweredOnce /\ ShortChains
  BY DEF Inv
<1>1. PICK batch, st :
        /\ IsRun(batch, st)
        /\ mRecvMessages' = mRecvMessages \ {batch[i] : i \in 1 .. Len(batch)}
        /\ State' = st[Len(batch)]
  BY <1>0, PollRuns
<1>2. /\ stream' = stream /\ arrived' = arrived /\ tasks' = tasks /\ dispatched' = dispatched
      /\ UseAOI' = UseAOI
  BY DEF Poll
<1>3. Len(stream) \in Nat /\ Len(batch) \in Nat
  BY <1>0, <1>1 DEF TypesOK, IsRun
<1>4. st[Len(batch)].out = requests' /\ st[0].out = requests
  BY <1>1 DEF State, IsRun
<1>5. AskedOnce'
  <2> DEFINE H(k) == Handled \union Done(batch, k)
             Good(k) == \A e \in Entities, n \in 0 .. EntityInfoMax - 1 :
               Cardinality(Asked(st[k].out, e, n)) <= Cardinality(Causes(stream, H(k), e, n))
             T == {k \in Nat : k <= Len(batch) => Good(k)}
  <2>1. 0 \in T
    <3>1. Done(batch, 0) = {}
      BY DEF Done
    <3>2. Good(0)
      BY <1>0, <1>4, <3>1 DEF AskedOnce
    <3> HIDE DEF Good
    <3> QED BY <3>2
  <2>2. ASSUME NEW k \in Nat, k \in T PROVE k + 1 \in T
    <3> SUFFICES ASSUME k + 1 <= Len(batch), k <= Len(batch) => Good(k) PROVE Good(k + 1)
      <4> HIDE DEF Good
      <4> QED BY <2>2
    <3> DEFINE m == batch[k + 1]
    <3>1. /\ k <= Len(batch) /\ st[k] \in States(Len(stream)) /\ m \in Messages /\ Contents(m)
          /\ st[k + 1] = ProcessMessage(st[k], m) /\ stream[m.serial] = m
          /\ m.serial \notin H(k) /\ Done(batch, k + 1) = Done(batch, k) \union {m.serial}
      BY <1>0, <1>1, RunStep
    <3>2. H(k + 1) = H(k) \union {m.serial}
      BY <3>1
    <3>3. IsFiniteSet(H(k))
      <4>1. arrived \in Nat
        BY <1>0 DEF TypesOK
      <4>2. H(k) \subseteq 1 .. arrived
        <5>1. \A i \in 1 .. k : i \in 1 .. Len(batch)
          BY <1>3, <3>1
        <5>2. \A i \in 1 .. k : batch[i].serial \in 1 .. arrived
          BY <1>0, <1>1, <5>1, WaitingAre DEF IsRun
        <5> QED BY <5>2 DEF Done, Handled
      <4>3. IsFiniteSet(1 .. arrived)
        BY <4>1, FS_Interval
      <4> HIDE DEF H
      <4> QED BY <4>2, <4>3, FS_Subset
    <3>4. Good(k)
      BY <3>1
    <3> SUFFICES ASSUME NEW e \in Entities, NEW n \in 0 .. EntityInfoMax - 1
                 PROVE  Cardinality(Asked(st[k + 1].out, e, n))
                          <= Cardinality(Causes(stream, H(k + 1), e, n))
      OBVIOUS
    <3>5. Cardinality(Asked(st[k].out, e, n)) <= Cardinality(Causes(stream, H(k), e, n))
      BY <3>4
    <3> HIDE DEF H, m, T, Good
    <3> QED BY <1>3, <3>1, <3>2, <3>3, <3>5, AskedAfter
  <2>3. \A k \in Nat : k \in T
    <3> HIDE DEF T
    <3> QED BY <2>1, <2>2, Induction
  <2>4. Good(Len(batch))
    <3> HIDE DEF Good
    <3> QED BY <1>3, <2>3
  <2>5. Handled' = H(Len(batch))
    BY <1>0, <1>1, HandledAfter
  <2>6. \A e \in Entities, n \in 0 .. EntityInfoMax - 1 :
          Cardinality(Asked(requests', e, n)) <= Cardinality(Causes(stream', Handled', e, n))
    BY <1>2, <1>4, <2>4, <2>5
  <2> QED BY <2>6 DEF AskedOnce
<1>6. /\ Len(requests') \in Nat /\ Len(requests) \in Nat /\ Len(requests) <= Len(requests')
      /\ \A j \in 1 .. Len(requests) : requests'[j] = requests[j]
  BY <1>0, <1>1, <1>3, <1>4, RequestsGrow
<1>7. \A e, n : Asked(requests', e, n) \cap (1 .. dispatched)
                  = Asked(requests, e, n) \cap (1 .. dispatched)
  <2>1. dispatched \in Nat /\ dispatched <= Len(requests)
    BY <1>0 DEF TypesOK
  <2>2. \A i \in 1 .. dispatched : i \in 1 .. Len(requests) /\ i \in 1 .. Len(requests')
    BY <1>6, <2>1
  <2> QED BY <1>6, <2>2 DEF Asked
<1>8. AnsweredOnce'
  BY <1>0, <1>2, <1>7 DEF AnsweredOnce, TasksFor
<1>9. ShortChains'
  <2> DEFINE Short(out) == \A i \in 1 .. Len(out) :
                             out[i].type = "ENTITY_INFO" => out[i].InfoNumber = 0
             T == {k \in Nat : k <= Len(batch) => Short(st[k].out)}
  <2> SUFFICES ASSUME ~UseAOI PROVE Short(requests')
    BY <1>0, <1>2 DEF ShortChains
  <2>1. 0 \in T
    BY <1>0, <1>4 DEF ShortChains
  <2>2. ASSUME NEW k \in Nat, k \in T PROVE k + 1 \in T
    <3> SUFFICES ASSUME k + 1 <= Len(batch), k <= Len(batch) => Short(st[k].out)
                 PROVE  Short(st[k + 1].out)
      <4> HIDE DEF Short
      <4> QED BY <2>2
    <3> DEFINE m == batch[k + 1]
               old == st[k].out
               new == st[k + 1].out
    <3>1. /\ k <= Len(batch) /\ st[k] \in States(Len(stream)) /\ m \in Messages /\ Contents(m)
          /\ st[k + 1] = ProcessMessage(st[k], m)
      BY <1>0, <1>1, RunStep
    <3>2. m.type = "ENTITY_INFO" => ~(m.InfoNumber < EntityInfoMax)
      BY <3>1 DEF Contents, EntityInfoMax
    <3>3. old \in Seq(InfoRequests \union PathRequests)
      BY <3>1 DEF States
    <3>4. new \in {old, Ask(old, 0, m.ObjectId)}
      <4>1. new = ProcessMessage(st[k], m).out
        BY <3>1
      <4> HIDE DEF new, m
      <4> QED BY <1>3, <3>1, <3>2, <4>1, OutAfter DEF m
    <3>5. Short(old)
      BY <3>1
    <3> HIDE DEF old, new, m
    <3>6. CASE new = Ask(old, 0, m.ObjectId)
      <4>1. /\ Len(new) = Len(old) + 1 /\ Len(old) \in Nat /\ \A i \in 1 .. Len(old) : new[i] = old[i]
            /\ new[Len(old) + 1].InfoNumber = 0
        BY <3>3, <3>6 DEF Ask
      <4>2. \A i \in 1 .. Len(new) : i \in 1 .. Len(old) \/ i = Len(old) + 1
        BY <4>1
      <4> QED BY <3>5, <4>1, <4>2 DEF new
    <3>7. CASE new = old
      BY <3>5, <3>7 DEF new
    <3> QED BY <3>4, <3>6, <3>7
  <2>3. \A k \in Nat : k \in T
    <3> HIDE DEF T
    <3> QED BY <2>1, <2>2, Induction
  <2> HIDE DEF Short
  <2> QED BY <1>3, <1>4, <2>3
<1> QED BY <1>5, <1>8, <1>9

LEMMA PollKeeps ==
  ASSUME Inv, Poll
  PROVE  Inv'
<1>1. StreamTells'
  BY DEF Inv, StreamTells, Poll
<1>2. TypesOK'
  BY PollTypes DEF Inv
<1> QED BY <1>1, <1>2, PollMatches, PollAnswered, PollChains DEF Inv

-----------------------------------------------------------------------------
(* A click, a request read by the server, and messages read by the client. *)

LEMMA WalkKeeps ==
  ASSUME Inv, Walk
  PROVE  Inv'
<1>0. /\ TypesOK /\ StreamTells /\ InTurn /\ ViewMatches /\ PredictionAnswered
      /\ AskedOnce /\ AnsweredOnce /\ ShortChains
  BY DEF Inv
<1> DEFINE request == [type |-> "PATH_FINDING", ObjectId |-> mLocalEntityId]
<1>1. /\ mLocalEntityId \in DOMAIN mEntitys
      /\ mEntitys' = [mEntitys EXCEPT ![mLocalEntityId] = Predicted]
      /\ requests' = Append(requests, request)
      /\ mRecvMessages' = mRecvMessages /\ mLocalEntityId' = mLocalEntityId /\ infos' = infos
      /\ UseAOI' = UseAOI /\ inSight' = inSight /\ stream' = stream /\ arrived' = arrived
      /\ dispatched' = dispatched /\ tasks' = tasks /\ crossed' = crossed
  BY DEF Walk, Click
<1>2. /\ mLocalEntityId \in {0, Own} /\ mEntitys \in Views(Len(stream))
      /\ requests \in Seq(InfoRequests \union PathRequests)
      /\ infos \in SUBSET (Entities \X (1 .. EntityInfoMax)) /\ Len(stream) \in Nat
  BY <1>0 DEF TypesOK, State, States
<1>3. /\ DOMAIN mEntitys \subseteq Entities
      /\ mEntitys = [d \in DOMAIN mEntitys |-> mEntitys[d]]
      /\ \A d \in DOMAIN mEntitys : mEntitys[d] \in {None, Predicted} \union (1 .. Len(stream))
  BY <1>2, ViewIs
<1>4. mLocalEntityId = Own
  BY <1>1, <1>2, <1>3, ConstantsAre
<1>5. /\ DOMAIN mEntitys' = DOMAIN mEntitys
      /\ mEntitys' = [d \in DOMAIN mEntitys' |-> mEntitys'[d]]
      /\ mEntitys'[Own] = Predicted
      /\ \A d \in DOMAIN mEntitys : d # Own => mEntitys'[d] = mEntitys[d]
  BY <1>1, <1>3, <1>4
<1>6. mEntitys' \in Views(Len(stream))
  <2>1. \A d \in DOMAIN mEntitys' : mEntitys'[d] \in {None, Predicted} \union (1 .. Len(stream))
    BY <1>3, <1>5
  <2>2. DOMAIN mEntitys' \subseteq Entities
    BY <1>3, <1>5
  <2> QED BY <1>2, <1>5, <2>1, <2>2, ViewIs
<1>7. request \in PathRequests /\ request.type = "PATH_FINDING"
  BY <1>4 DEF PathRequests
<1> HIDE DEF request
<1>8. /\ requests' \in Seq(InfoRequests \union PathRequests)
      /\ Len(requests) \in Nat /\ Len(requests') = Len(requests) + 1
      /\ requests'[Len(requests) + 1] = request
      /\ \A i \in 1 .. Len(requests) : requests'[i] = requests[i]
  BY <1>1, <1>2, <1>7
<1>9. TypesOK'
  <2>1. State' \in States(Len(stream))
    BY <1>1, <1>2, <1>4, <1>5, <1>6, <1>8 DEF State, States
  <2>2. (State \in States(Len(stream)))'
    BY <1>1, <2>1 DEF States, Views
  <2>3. (\A i \in 1 .. Len(stream) : stream[i].serial = i /\ Contents(stream[i]))'
    BY <1>0, <1>1 DEF TypesOK, Contents
  <2>4. dispatched' \in 0 .. Len(requests')
    BY <1>0, <1>1, <1>8 DEF TypesOK
  <2> QED BY <1>0, <1>1, <2>2, <2>3, <2>4 DEF TypesOK
<1>10. Handled' = Handled
  BY <1>1 DEF Handled
<1>11. ViewMatches'
  <2>1. ASSUME NEW e \in Entities \ crossed PROVE Matches(stream, mEntitys', Handled, e)
    <3>1. Matches(stream, mEntitys, Handled, e)
      BY <1>0 DEF ViewMatches
    <3> QED BY <1>5, <3>1 DEF Matches
  <2>2. \A e \in Entities \ crossed' : Matches(stream', mEntitys', Handled', e)
    BY <1>1, <1>10, <2>1
  <2> QED BY <2>2 DEF ViewMatches
<1>12. PredictionAnswered'
  <2>1. Len(requests') \in dispatched' + 1 .. Len(requests')
    BY <1>0, <1>1, <1>8 DEF TypesOK
  <2> QED BY <1>7, <1>8, <2>1 DEF PredictionAnswered, PathComes
<1>13. \A e, n : Asked(requests', e, n) = Asked(requests, e, n)
  <2>1. \A i \in 1 .. Len(requests') : i \in 1 .. Len(requests) \/ i = Len(requests) + 1
    BY <1>8
  <2>2. \A i \in 1 .. Len(requests) : i \in 1 .. Len(requests')
    BY <1>8
  <2> QED BY <1>7, <1>8, <2>1, <2>2 DEF Asked
<1>14. AskedOnce'
  <2>1. \A e \in Entities, n \in 0 .. EntityInfoMax - 1 :
          Cardinality(Asked(requests', e, n)) <= Cardinality(Causes(stream', Handled', e, n))
    BY <1>0, <1>1, <1>10, <1>13 DEF AskedOnce
  <2> QED BY <2>1 DEF AskedOnce
<1>15. AnsweredOnce'
  BY <1>0, <1>1, <1>13 DEF AnsweredOnce, TasksFor
<1>16. ShortChains'
  <2>1. \A i \in 1 .. Len(requests') : i \in 1 .. Len(requests) \/ i = Len(requests) + 1
    BY <1>8
  <2> QED BY <1>0, <1>1, <1>7, <1>8, <2>1 DEF ShortChains
<1>17. StreamTells' /\ InTurn'
  BY <1>0, <1>1 DEF StreamTells, InTurn, IsAbout, AboutSight
<1> QED BY <1>9, <1>11, <1>12, <1>14, <1>15, <1>16, <1>17 DEF Inv

LEMMA ReadKeeps ==
  ASSUME Inv, Read
  PROVE  Inv'
<1>0. /\ TypesOK /\ StreamTells /\ InTurn /\ ViewMatches /\ PredictionAnswered
      /\ AskedOnce /\ AnsweredOnce /\ ShortChains
  BY DEF Inv
<1>1. PICK k \in arrived + 1 .. Len(stream) :
        /\ Receive({stream[i] : i \in arrived + 1 .. k})
        /\ arrived' = k
        /\ crossed' = crossed \union
             {e \in Entities : \E m, n \in mRecvMessages' :
                m # n /\ AboutSight(m) /\ AboutSight(n) /\ m.ObjectId = e /\ n.ObjectId = e}
        /\ UNCHANGED <<UseAOI, inSight, stream, dispatched, tasks, events>>
  BY DEF Read
<1>2. /\ mRecvMessages' = mRecvMessages \union {stream[i] : i \in arrived + 1 .. k}
      /\ mLocalEntityId' = mLocalEntityId /\ mEntitys' = mEntitys
      /\ requests' = requests /\ infos' = infos
  BY <1>1 DEF Receive
<1>3. /\ arrived \in Nat /\ Len(stream) \in Nat /\ arrived <= Len(stream)
      /\ \A i, j \in 1 .. Len(stream) : stream[i] = stream[j] => i = j
  BY <1>0 DEF TypesOK
<1>4. 1 .. k = (1 .. arrived) \union (arrived + 1 .. k)
      /\ 1 .. k \subseteq 1 .. Len(stream) /\ k \in 0 .. Len(stream)
  BY <1>1, <1>3
<1>5. Handled' = Handled
  <2>1. \A i \in 1 .. arrived : stream[i] \notin {stream[j] : j \in arrived + 1 .. k}
    <3>1. \A i \in 1 .. arrived, j \in arrived + 1 .. k :
            i \in 1 .. Len(stream) /\ j \in 1 .. Len(stream) /\ i # j
      BY <1>1, <1>3
    <3> QED BY <1>3, <3>1
  <2> QED BY <1>1, <1>2, <1>4, <2>1 DEF Handled
<1>6. TypesOK'
  <2>1. State' = State
    BY <1>2 DEF State
  <2>2. (State \in States(Len(stream)))'
    BY <1>0, <1>1, <2>1 DEF TypesOK, States, Views
  <2>3. (\A i \in 1 .. Len(stream) : stream[i].serial = i /\ Contents(stream[i]))'
    BY <1>0, <1>1 DEF TypesOK, Contents
  <2>4. mRecvMessages' \subseteq {stream'[i] : i \in 1 .. arrived'}
    BY <1>0, <1>1, <1>2, <1>4 DEF TypesOK
  <2>5. arrived' \in 0 .. Len(stream')
    BY <1>1, <1>4
  <2> QED BY <1>0, <1>1, <1>2, <2>2, <2>3, <2>4, <2>5 DEF TypesOK
<1>7. InTurn'
  <2>1. ASSUME NEW e \in Entities, e \notin crossed', NEW i \in 1 .. k, NEW j \in 1 .. k,
               stream[j] \in mRecvMessages', IsAbout(stream, i, e), IsAbout(stream, j, e)
        PROVE  i <= j
    <3>1. CASE i \in 1 .. arrived /\ j \in 1 .. arrived
      <4>1. stream[j] \in mRecvMessages
        <5>1. j \notin Handled'
          BY <1>1, <2>1 DEF Handled
        <5> QED BY <1>5, <3>1, <5>1 DEF Handled
      <4> QED BY <1>0, <1>1, <2>1, <3>1, <4>1 DEF InTurn
    <3>2. CASE i \in arrived + 1 .. k
      <4>1. stream[i] \in mRecvMessages'
        BY <1>2, <3>2
      <4>2. stream[i] = stream[j]
        BY <1>1, <2>1, <4>1 DEF IsAbout
      <4>3. i = j
        BY <1>3, <1>4, <4>2
      <4> QED BY <3>2, <4>3, <1>1, <1>3
    <3>3. CASE i \in 1 .. arrived /\ j \in arrived + 1 .. k
      BY <1>3, <3>3
    <3> QED BY <1>4, <3>1, <3>2, <3>3
  <2>2. \A e \in Entities \ crossed' : \A i, j \in 1 .. arrived' :
          stream'[j] \in mRecvMessages' /\ IsAbout(stream', i, e) /\ IsAbout(stream', j, e)
            => i <= j
    BY <1>1, <2>1
  <2> QED BY <2>2 DEF InTurn
<1>8. ViewMatches'
  <2>1. \A e \in Entities \ crossed' : Matches(stream', mEntitys', Handled', e)
    BY <1>0, <1>1, <1>2, <1>5 DEF ViewMatches
  <2> QED BY <2>1 DEF ViewMatches
<1>9. PredictionAnswered'
  BY <1>0, <1>1, <1>2, <1>5 DEF PredictionAnswered, PathComes, Predicts, Walks
<1>10. AskedOnce'
  <2>1. \A e \in Entities, n \in 0 .. EntityInfoMax - 1 :
          Cardinality(Asked(requests', e, n)) <= Cardinality(Causes(stream', Handled', e, n))
    BY <1>0, <1>1, <1>2, <1>5 DEF AskedOnce
  <2> QED BY <2>1 DEF AskedOnce
<1>11. AnsweredOnce' /\ ShortChains' /\ StreamTells'
  BY <1>0, <1>1, <1>2 DEF AnsweredOnce, TasksFor, ShortChains, StreamTells
<1> QED BY <1>6, <1>7, <1>8, <1>9, <1>10, <1>11 DEF Inv

\* There are no more tasks than requests, so finitely many.
LEMMA TasksFinite ==
  ASSUME TypesOK, NEW e, NEW n
  PROVE  IsFiniteSet(TasksFor(e, n)) /\ Cardinality(TasksFor(e, n)) \in Nat
<1> DEFINE those == TasksFor(e, n)
           id == [task \in those |-> task.id]
<1>1. those \subseteq InfoTasks /\ \A task \in those : task.id \in 1 .. dispatched
  <2>1. \A task \in PathTasks : task.type # "NextEntityInfo"
    BY DEF PathTasks
  <2> QED BY <2>1 DEF TasksFor, TypesOK
<1>2. \A a, b \in those : a.id = b.id => a = b
  <2>1. \A a, b \in InfoTasks :
          a.id = b.id /\ a.number = b.number /\ a.other = b.other => a = b
    BY DEF InfoTasks
  <2>2. \A a \in those : a.number = n /\ a.other = e
    BY DEF TasksFor
  <2> HIDE DEF those
  <2> QED BY <1>1, <2>1, <2>2
<1> HIDE DEF those
<1>3. id \in Injection(those, 1 .. dispatched)
  <2>1. id \in [those -> 1 .. dispatched]
    BY <1>1
  <2>2. \A a, b \in those : id[a] = id[b] => a = b
    BY <1>2
  <2> HIDE DEF id
  <2> QED BY <2>1, <2>2 DEF Injection, IsInjective
<1>4. IsFiniteSet(1 .. dispatched)
  BY FS_Interval DEF TypesOK
<1>5. IsFiniteSet(those)
  BY <1>3, <1>4, FS_Injection
<1> QED BY <1>5, FS_CardinalityType DEF those

\* The server takes the next request: its task waits instead.
LEMMA DispatchKeeps ==
  ASSUME Inv, Dispatch
  PROVE  Inv'
<1>0. /\ TypesOK /\ StreamTells /\ InTurn /\ ViewMatches /\ PredictionAnswered
      /\ AskedOnce /\ AnsweredOnce /\ ShortChains
  BY DEF Inv
<1> DEFINE next == dispatched + 1
           r == requests[next]
           pathTask == [type |-> "PathFind", id |-> next]
           infoTask == [type |-> "NextEntityInfo", id |-> next,
                        number |-> r.InfoNumber + 1, other |-> r.ObjectId]
           asks == r.type # "PATH_FINDING" /\ r.InfoNumber + 1 < EntityInfoMax
<1>1. /\ UNCHANGED <<client, UseAOI, inSight, stream, arrived, events, crossed>>
      /\ dispatched < Len(requests) /\ dispatched' = next
      /\ tasks' = IF r.type = "PATH_FINDING" THEN tasks \union {pathTask}
                  ELSE IF asks THEN tasks \union {infoTask} ELSE tasks
  BY DEF Dispatch, HasInfo
<1>2. /\ mRecvMessages' = mRecvMessages /\ mLocalEntityId' = mLocalEntityId
      /\ mEntitys' = mEntitys /\ requests' = requests /\ infos' = infos
  BY <1>1 DEF client
<1>3. /\ requests \in Seq(InfoRequests \union PathRequests) /\ Len(requests) \in Nat
      /\ dispatched \in Nat /\ dispatched <= Len(requests)
  BY <1>0 DEF TypesOK, State, States
<1>4. /\ next \in 1 .. Len(requests) /\ next \in Nat /\ next \notin 1 .. dispatched
      /\ 1 .. next = (1 .. dispatched) \union {next}
  BY <1>1, <1>3
<1>5. r \in InfoRequests \union PathRequests
  BY <1>3, <1>4
<1>6. /\ pathTask.type = "PathFind" /\ pathTask.id = next
      /\ infoTask.type = "NextEntityInfo" /\ infoTask.id = next
      /\ infoTask.number = r.InfoNumber + 1 /\ infoTask.other = r.ObjectId
  OBVIOUS
<1>7. r.type # "PATH_FINDING" =>
        r.type = "ENTITY_INFO" /\ r.ObjectId \in Entities /\ r.InfoNumber \in 0 .. 3
  BY <1>5 DEF InfoRequests, PathRequests, EntityInfoMax
<1>8. pathTask \in PathTasks
  BY <1>4 DEF PathTasks
<1>9. asks => infoTask \in InfoTasks
  BY <1>4, <1>7 DEF InfoTasks, EntityInfoMax
<1> HIDE DEF next, r, pathTask, infoTask
<1>10. TypesOK'
  <2>1. (State \in States(Len(stream)))'
    BY <1>0, <1>1, <1>2 DEF TypesOK, State, States, Views
  <2>2. (\A i \in 1 .. Len(stream) : stream[i].serial = i /\ Contents(stream[i]))'
    BY <1>0, <1>1 DEF TypesOK, Contents
  <2>3. tasks' \subseteq PathTasks \union InfoTasks
    BY <1>0, <1>1, <1>8, <1>9 DEF TypesOK
  <2>4. \A task \in tasks' : task.id \in 1 .. dispatched'
    BY <1>0, <1>1, <1>4, <1>6 DEF TypesOK
  <2>5. dispatched' \in 0 .. Len(requests')
    BY <1>1, <1>2, <1>3, <1>4
  <2> QED BY <1>0, <1>1, <1>2, <2>1, <2>2, <2>3, <2>4, <2>5 DEF TypesOK
<1>11. Handled' = Handled
  BY <1>1, <1>2 DEF Handled
<1>12. ViewMatches'
  <2>1. \A e \in Entities \ crossed' : Matches(stream', mEntitys', Handled', e)
    BY <1>0, <1>1, <1>2, <1>11 DEF ViewMatches
  <2> QED BY <2>1 DEF ViewMatches
<1>13. PredictionAnswered'
  <2> SUFFICES ASSUME PathComes PROVE PathComes'
    BY <1>0, <1>2 DEF PredictionAnswered, Predicts
  <2>1. CASE \E i \in dispatched + 1 .. Len(requests) : requests[i].type = "PATH_FINDING"
    <3>1. PICK i \in dispatched + 1 .. Len(requests) : requests[i].type = "PATH_FINDING"
      BY <2>1
    <3>2. CASE i = next
      <4>1. r.type = "PATH_FINDING"
        BY <3>1, <3>2 DEF r
      <4>2. pathTask \in tasks'
        BY <1>1, <4>1
      <4> QED BY <1>6, <4>2 DEF PathComes
    <3>3. CASE i # next
      <4>1. i \in dispatched' + 1 .. Len(requests')
        BY <1>1, <1>2, <1>3, <3>1, <3>3 DEF next
      <4> QED BY <1>2, <3>1, <4>1 DEF PathComes
    <3> QED BY <3>2, <3>3
  <2>2. CASE \E task \in tasks : task.type = "PathFind"
    <3>1. tasks \subseteq tasks'
      BY <1>1
    <3> QED BY <2>2, <3>1 DEF PathComes
  <2>3. CASE \E i \in 1 .. Len(stream) : i \notin Handled /\ Walks(stream, i, Own)
    BY <1>1, <1>11, <2>3 DEF PathComes, Walks
  <2> QED BY <2>1, <2>2, <2>3 DEF PathComes
<1>14. AskedOnce'
  <2>1. \A e \in Entities, n \in 0 .. EntityInfoMax - 1 :
          Cardinality(Asked(requests', e, n)) <= Cardinality(Causes(stream', Handled', e, n))
    BY <1>0, <1>1, <1>2, <1>11 DEF AskedOnce
  <2> QED BY <2>1 DEF AskedOnce
<1>15. ShortChains'
  <2> SUFFICES ASSUME ~UseAOI
               PROVE  \A task \in tasks' : task.type = "NextEntityInfo" => task.number = 1
    BY <1>0, <1>1, <1>2 DEF ShortChains
  <2>1. r.type = "ENTITY_INFO" => r.InfoNumber = 0
    BY <1>0, <1>4 DEF ShortChains, r
  <2> QED BY <1>0, <1>1, <1>6, <1>7, <2>1 DEF ShortChains
<1>16. ASSUME NEW e \in Entities, NEW n \in 0 .. EntityInfoMax - 2
       PROVE  LET open == Cardinality(TasksFor(e, n + 1))
                  read == Cardinality(Asked(requests, e, n) \cap (1 .. dispatched))
              IN /\ open \in Nat /\ read \in Nat
                 /\ \/ /\ Cardinality(TasksFor(e, n + 1)') = open + 1
                       /\ Cardinality(Asked(requests, e, n) \cap (1 .. next)) = read + 1
                    \/ /\ TasksFor(e, n + 1)' = TasksFor(e, n + 1)
                       /\ Cardinality(Asked(requests, e, n) \cap (1 .. next)) = read
  <2> DEFINE before == TasksFor(e, n + 1)
             asked == Asked(requests, e, n) \cap (1 .. dispatched)
             askedNow == Asked(requests, e, n) \cap (1 .. next)
  <2>0. n \in 0 .. 2 /\ EntityInfoMax = 4
    BY DEF EntityInfoMax
  <2>1. IsFiniteSet(before)
    BY <1>0, TasksFinite
  <2>2. IsFiniteSet(asked)
    <3>1. IsFiniteSet(1 .. dispatched) /\ asked \subseteq 1 .. dispatched
      BY <1>3, FS_Interval
    <3> QED BY <3>1, FS_Subset
  <2>3. Cardinality(before) \in Nat /\ Cardinality(asked) \in Nat
    BY <2>1, <2>2, FS_CardinalityType
  <2>4. infoTask \notin before
    BY <1>0, <1>4, <1>6 DEF TypesOK, TasksFor
  <2>5. next \notin asked
    BY <1>4
  <2>6. CASE r.type = "ENTITY_INFO" /\ r.ObjectId = e /\ r.InfoNumber = n
    <3>1. asks
      BY <2>0, <2>6
    <3>2. tasks' = tasks \union {infoTask}
      BY <1>1, <3>1
    <3>3. TasksFor(e, n + 1)' = before \union {infoTask}
      BY <1>6, <2>6, <3>2 DEF TasksFor
    <3>4. askedNow = asked \union {next}
      BY <1>4, <2>6 DEF Asked, r
    <3>5. Cardinality(TasksFor(e, n + 1)') = Cardinality(before) + 1
      BY <2>1, <2>4, <3>3, FS_AddElement
    <3>6. Cardinality(askedNow) = Cardinality(asked) + 1
      BY <2>2, <2>5, <3>4, FS_AddElement
    <3> QED BY <2>3, <3>5, <3>6
  <2>7. CASE ~(r.type = "ENTITY_INFO" /\ r.ObjectId = e /\ r.InfoNumber = n)
    <3>1. askedNow = asked
      BY <1>4, <2>7 DEF Asked, r
    <3>2. asks => ~(infoTask.other = e /\ infoTask.number = n + 1)
      BY <1>6, <1>7, <2>0, <2>7
    <3>3. TasksFor(e, n + 1)' = before
      <4>1. CASE r.type = "PATH_FINDING"
        BY <1>1, <1>6, <4>1 DEF TasksFor
      <4>2. CASE r.type # "PATH_FINDING" /\ asks
        BY <1>1, <3>2, <4>2 DEF TasksFor
      <4>3. CASE r.type # "PATH_FINDING" /\ ~asks
        BY <1>1, <4>3 DEF TasksFor
      <4> QED BY <4>1, <4>2, <4>3
    <3> QED BY <2>3, <3>1, <3>3
  <2> QED BY <2>6, <2>7
<1>17. AnsweredOnce'
  <2> SUFFICES ASSUME NEW e \in Entities
               PROVE  IF UseAOI
                      THEN \A n \in 0 .. EntityInfoMax - 2 :
                             Cardinality(Causes(stream, 1 .. Len(stream), e, n + 1))
                               + Cardinality(TasksFor(e, n + 1)')
                               <= Cardinality(Asked(requests, e, n) \cap (1 .. next))
                      ELSE Cardinality(Causes(stream, 1 .. Len(stream), e, EntityInfoMax))
                               + (EntityInfoMax - 1) * Cardinality(TasksFor(e, 1)')
                             <= (EntityInfoMax - 1) * Cardinality(Asked(requests, e, 0) \cap (1 .. next))
    BY <1>1, <1>2 DEF AnsweredOnce, TasksFor
  <2>1. \A n : Cardinality(Causes(stream, 1 .. Len(stream), e, n)) \in Nat
    <3> SUFFICES ASSUME NEW n PROVE Cardinality(Causes(stream, 1 .. Len(stream), e, n)) \in Nat
      OBVIOUS
    <3>1. /\ IsFiniteSet(1 .. Len(stream))
          /\ Causes(stream, 1 .. Len(stream), e, n) \subseteq 1 .. Len(stream)
      BY <1>0, FS_Interval DEF TypesOK, Causes
    <3> QED BY <3>1, FS_Subset, FS_CardinalityType
  <2>2. CASE UseAOI
    <3> SUFFICES ASSUME NEW n \in 0 .. EntityInfoMax - 2
                 PROVE  Cardinality(Causes(stream, 1 .. Len(stream), e, n + 1))
                               + Cardinality(TasksFor(e, n + 1)')
                               <= Cardinality(Asked(requests, e, n) \cap (1 .. next))
      BY <2>2
    <3>1. Cardinality(Causes(stream, 1 .. Len(stream), e, n + 1)) + Cardinality(TasksFor(e, n + 1))
             <= Cardinality(Asked(requests, e, n) \cap (1 .. dispatched))
      BY <1>0, <2>2 DEF AnsweredOnce
    <3> QED BY <1>16, <2>1, <3>1
  <2>3. CASE ~UseAOI
    <3>1. Cardinality(Causes(stream, 1 .. Len(stream), e, EntityInfoMax))
             + (EntityInfoMax - 1) * Cardinality(TasksFor(e, 1))
           <= (EntityInfoMax - 1) * Cardinality(Asked(requests, e, 0) \cap (1 .. dispatched))
      BY <1>0, <2>3 DEF AnsweredOnce
    <3>2. 0 \in 0 .. EntityInfoMax - 2 /\ 0 + 1 = 1 /\ EntityInfoMax - 1 = 3
      BY DEF EntityInfoMax
    <3> DEFINE sent == Cardinality(Causes(stream, 1 .. Len(stream), e, EntityInfoMax))
               open == Cardinality(TasksFor(e, 1))
               openNow == Cardinality(TasksFor(e, 1)')
               read == Cardinality(Asked(requests, e, 0) \cap (1 .. dispatched))
               readNow == Cardinality(Asked(requests, e, 0) \cap (1 .. next))
    <3>3. /\ open \in Nat /\ read \in Nat
          /\ (openNow = open + 1 /\ readNow = read + 1) \/ (openNow = open /\ readNow = read)
      BY <1>16, <3>2
    <3>4. sent \in Nat /\ sent + 3 * open <= 3 * read
      BY <2>1, <3>1, <3>2
    <3> HIDE DEF sent, open, openNow, read, readNow
    <3>5. sent + 3 * openNow <= 3 * readNow
      BY <3>3, <3>4
    <3> QED BY <2>3, <3>2, <3>5 DEF sent, openNow, readNow
  <2> QED BY <2>2, <2>3
<1>18. StreamTells' /\ InTurn'
  BY <1>0, <1>1, <1>2 DEF StreamTells, InTurn, IsAbout, AboutSight
<1> QED BY <1>10, <1>12, <1>13, <1>14, <1>15, <1>17, <1>18 DEF Inv

-----------------------------------------------------------------------------
(* What the server sends. *)

\* A list of messages of this stream, as yet without their numbers.
Lists == {list \in Seq(Messages) : \A j \in 1 .. Len(list) : Contents(list[j])}

LEMMA SendIs ==
  ASSUME TypesOK, NEW list \in Lists, Send(list)
  PROVE  /\ Len(stream) \in Nat /\ Len(list) \in Nat
         /\ stream' \in Seq(Messages) /\ Len(stream') = Len(stream) + Len(list)
         /\ \A i \in 1 .. Len(stream) : stream'[i] = stream[i]
         /\ \A j \in 1 .. Len(list) :
              /\ stream'[Len(stream) + j].type = list[j].type
              /\ stream'[Len(stream) + j].ObjectId = list[j].ObjectId
              /\ stream'[Len(stream) + j].InfoNumber = list[j].InfoNumber
              /\ stream'[Len(stream) + j].serial = Len(stream) + j
         /\ \A i \in 1 .. Len(stream') :
              i \in 1 .. Len(stream) \/ \E j \in 1 .. Len(list) : i = Len(stream) + j
<1> DEFINE N == Len(stream)
           new == [j \in 1 .. Len(list) |-> [list[j] EXCEPT !.serial = N + j]]
<1>1. stream \in Seq(Messages) /\ N \in Nat
  BY DEF TypesOK
<1>2. list \in Seq(Messages) /\ Len(list) \in Nat /\ DOMAIN list = 1 .. Len(list)
  BY DEF Lists
<1>3. stream' = stream \o new
  BY <1>2 DEF Send, Numbered
<1>4. ASSUME NEW j \in 1 .. Len(list)
      PROVE  /\ [list[j] EXCEPT !.serial = N + j] \in Messages
             /\ [list[j] EXCEPT !.serial = N + j].type = list[j].type
             /\ [list[j] EXCEPT !.serial = N + j].ObjectId = list[j].ObjectId
             /\ [list[j] EXCEPT !.serial = N + j].InfoNumber = list[j].InfoNumber
             /\ [list[j] EXCEPT !.serial = N + j].serial = N + j
  <2>1. list[j] \in Messages /\ N + j \in Nat
    BY <1>1, <1>2
  <2> QED BY <2>1 DEF Messages
<1> HIDE DEF N
<1>5. /\ new \in Seq(Messages) /\ Len(new) = Len(list)
      /\ \A j \in 1 .. Len(list) : new[j] = [list[j] EXCEPT !.serial = N + j]
  BY <1>2, <1>4
<1> HIDE DEF new
<1>6. /\ stream' \in Seq(Messages) /\ Len(stream') = N + Len(list)
      /\ \A i \in 1 .. N : stream'[i] = stream[i]
      /\ \A j \in 1 .. Len(list) : stream'[N + j] = new[j]
  <2>1. N = Len(stream)
    BY DEF N
  <2>2. /\ Len(stream \o new) = Len(stream) + Len(new) /\ stream \o new \in Seq(Messages)
        /\ \A i \in 1 .. Len(stream) + Len(new) :
             (stream \o new)[i] = IF i <= Len(stream) THEN stream[i] ELSE new[i - Len(stream)]
    <3>1. stream \in Seq(Messages) /\ new \in Seq(Messages)
      BY <1>1, <1>5
    <3> QED BY <3>1, ConcatProperties, Zenon
  <2>4. \A i \in 1 .. N : i \in 1 .. N + Len(list) /\ i <= N
    BY <1>1, <1>2
  <2> DEFINE joined == stream \o new
  <2>5. /\ Len(joined) = N + Len(list) /\ joined \in Seq(Messages)
        /\ \A i \in 1 .. N + Len(list) :
             joined[i] = IF i <= N THEN stream[i] ELSE new[i - N]
    BY <1>5, <2>1, <2>2
  <2> HIDE DEF joined
  <2>6. /\ \A i \in 1 .. N : joined[i] = stream[i]
        /\ \A j \in 1 .. Len(list) : joined[N + j] = new[j]
    <3>1. \A i \in 1 .. N : joined[i] = stream[i]
      BY <2>4, <2>5
    <3>2. ASSUME NEW j \in 1 .. Len(list) PROVE joined[N + j] = new[j]
      <4> DEFINE k == N + j
      <4>1. k \in 1 .. N + Len(list) /\ ~(k <= N) /\ k - N = j
        BY <1>1, <1>2
      <4> HIDE DEF k
      <4>2. joined[k] = new[k - N]
        BY <2>5, <4>1
      <4> QED BY <4>1, <4>2 DEF k
    <3> QED BY <3>1, <3>2
  <2> QED BY <1>3, <2>5, <2>6 DEF joined
<1>7. \A i \in 1 .. Len(stream') : i \in 1 .. N \/ \E j \in 1 .. Len(list) : i = N + j
  <2> SUFFICES ASSUME NEW i \in 1 .. Len(stream'), i \notin 1 .. N
               PROVE  \E j \in 1 .. Len(list) : i = N + j
    OBVIOUS
  <2>1. i - N \in 1 .. Len(list) /\ i = N + (i - N)
    BY <1>1, <1>2, <1>6
  <2> QED BY <2>1
<1> QED BY <1>1, <1>2, <1>4, <1>5, <1>6, <1>7 DEF N

\* Sending takes nothing from what the client has handled.
LEMMA SendKeeps ==
  ASSUME Inv, NEW list \in Lists, Send(list),
         UNCHANGED <<client, UseAOI, arrived, dispatched, crossed>>,
         tasks' \subseteq tasks, inSight' \subseteq Entities,
         inSight' # {} => Own \in inSight'
  PROVE  TypesOK' /\ InTurn' /\ ViewMatches' /\ AskedOnce' /\ ShortChains' /\ Handled' = Handled
<1>0. /\ TypesOK /\ InTurn /\ ViewMatches /\ AskedOnce /\ ShortChains
  BY DEF Inv
<1>1. /\ Len(stream) \in Nat /\ Len(list) \in Nat
      /\ stream' \in Seq(Messages) /\ Len(stream') = Len(stream) + Len(list)
      /\ \A i \in 1 .. Len(stream) : stream'[i] = stream[i]
      /\ \A j \in 1 .. Len(list) :
           /\ stream'[Len(stream) + j].type = list[j].type
           /\ stream'[Len(stream) + j].ObjectId = list[j].ObjectId
           /\ stream'[Len(stream) + j].InfoNumber = list[j].InfoNumber
           /\ stream'[Len(stream) + j].serial = Len(stream) + j
      /\ \A i \in 1 .. Len(stream') :
           i \in 1 .. Len(stream) \/ \E j \in 1 .. Len(list) : i = Len(stream) + j
  BY <1>0, SendIs
<1>2. /\ mRecvMessages' = mRecvMessages /\ mLocalEntityId' = mLocalEntityId
      /\ mEntitys' = mEntitys /\ requests' = requests /\ infos' = infos
      /\ UseAOI' = UseAOI /\ arrived' = arrived /\ dispatched' = dispatched /\ crossed' = crossed
  BY DEF client
<1>3. arrived \in Nat /\ \A i \in 1 .. arrived : i \in 1 .. Len(stream) /\ stream'[i] = stream[i]
  BY <1>0, <1>1 DEF TypesOK
<1>4. TypesOK'
  <2>1. \A i \in 1 .. Len(stream') : stream'[i].serial = i
    BY <1>0, <1>1 DEF TypesOK
  <2>2. (\A i \in 1 .. Len(stream) : Contents(stream[i]))'
    <3> DEFINE C(m) == /\ m.type = "SPAWN_ENTITY" => m.ObjectId = Own
                       /\ m.type \in {"APPEAR_ENTITY", "DISAPPEAR_ENTITY"} => m.ObjectId # Own
                       /\ m.type = "ENTITY_INFO" =>
                            IF UseAOI THEN m.InfoNumber \in 1 .. EntityInfoMax - 1
                            ELSE m.InfoNumber = EntityInfoMax
    <3>1. \A i \in 1 .. Len(stream) : C(stream[i])
      BY <1>0 DEF TypesOK, Contents
    <3>2. \A j \in 1 .. Len(list) : C(list[j])
      BY DEF Lists, Contents
    <3>3. ASSUME NEW i \in 1 .. Len(stream') PROVE C(stream'[i])
      <4>1. CASE i \in 1 .. Len(stream)
        <5>1. stream'[i] = stream[i]
          BY <1>1, <4>1
        <5> QED BY <3>1, <4>1, <5>1
      <4>2. ASSUME NEW j \in 1 .. Len(list), i = Len(stream) + j PROVE C(stream'[i])
        <5>1. C(list[j])
          BY <3>2
        <5> QED BY <1>1, <4>2, <5>1
      <4> QED BY <1>1, <4>1, <4>2
    <3> QED BY <1>2, <3>3 DEF Contents
  <2>3. (\A i \in 1 .. Len(stream) : stream[i].serial = i /\ Contents(stream[i]))'
    BY <2>1, <2>2
  <2>4. State' \in States(Len(stream'))
    <3>1. State' = State /\ State \in States(Len(stream))
      BY <1>0, <1>2 DEF State, TypesOK
    <3>2. Views(Len(stream)) \subseteq Views(Len(stream'))
      <4> SUFFICES ASSUME NEW v \in Views(Len(stream)) PROVE v \in Views(Len(stream'))
        OBVIOUS
      <4>1. /\ DOMAIN v \subseteq Entities /\ v = [d \in DOMAIN v |-> v[d]]
            /\ \A d \in DOMAIN v : v[d] \in {None, Predicted} \union (1 .. Len(stream))
        BY <1>1, ViewIs
      <4>2. 1 .. Len(stream) \subseteq 1 .. Len(stream') /\ Len(stream') \in Nat
        BY <1>1
      <4> QED BY <4>1, <4>2, ViewIs
    <3> QED BY <3>1, <3>2 DEF States
  <2>5. (State \in States(Len(stream)))'
    BY <2>4 DEF States, Views
  <2>6. mRecvMessages' \subseteq {stream'[i] : i \in 1 .. arrived'}
    BY <1>0, <1>2, <1>3 DEF TypesOK
  <2>7. arrived' \in 0 .. Len(stream')
    BY <1>0, <1>1, <1>2 DEF TypesOK
  <2>8. /\ tasks' \subseteq PathTasks \union InfoTasks
        /\ \A task \in tasks' : task.id \in 1 .. dispatched'
    BY <1>0, <1>2 DEF TypesOK
  <2> QED BY <1>0, <1>1, <1>2, <2>3, <2>5, <2>6, <2>7, <2>8 DEF TypesOK
<1>5. Handled' = Handled
  BY <1>2, <1>3 DEF Handled
<1>6. \A i \in 1 .. arrived : \A e :
        /\ Appears(stream', i, e) <=> Appears(stream, i, e)
        /\ Disappears(stream', i, e) <=> Disappears(stream, i, e)
        /\ Walks(stream', i, e) <=> Walks(stream, i, e)
        /\ IsAbout(stream', i, e) <=> IsAbout(stream, i, e)
  BY <1>3 DEF Appears, Disappears, Walks, IsAbout
<1>7. Handled \subseteq 1 .. arrived
  BY DEF Handled
<1>8. InTurn'
  <2>1. \A e \in Entities \ crossed' : \A i, j \in 1 .. arrived' :
          stream'[j] \in mRecvMessages' /\ IsAbout(stream', i, e) /\ IsAbout(stream', j, e)
            => i <= j
    BY <1>0, <1>2, <1>3, <1>6 DEF InTurn
  <2> QED BY <2>1 DEF InTurn
<1>9. ViewMatches'
  <2>1. ASSUME NEW e \in Entities \ crossed PROVE Matches(stream', mEntitys, Handled, e)
    <3>1. Matches(stream, mEntitys, Handled, e)
      BY <1>0 DEF ViewMatches
    <3>2. ToldBy(stream', Handled, e) <=> ToldBy(stream, Handled, e)
      BY <1>6, <1>7 DEF ToldBy
    <3>3. \A p : PathBy(stream, Handled, e, p) => PathBy(stream', Handled, e, p)
      BY <1>6, <1>7 DEF PathBy
    <3> QED BY <3>1, <3>2, <3>3 DEF Matches
  <2>2. \A e \in Entities \ crossed' : Matches(stream', mEntitys', Handled', e)
    BY <1>2, <1>5, <2>1
  <2> QED BY <2>2 DEF ViewMatches
<1>10. AskedOnce'
  <2>1. \A e, n : Causes(stream', Handled, e, n) = Causes(stream, Handled, e, n)
    BY <1>3, <1>7 DEF Causes
  <2>2. \A e \in Entities, n \in 0 .. EntityInfoMax - 1 :
          Cardinality(Asked(requests', e, n)) <= Cardinality(Causes(stream', Handled', e, n))
    BY <1>0, <1>2, <1>5, <2>1 DEF AskedOnce
  <2> QED BY <2>2 DEF AskedOnce
<1>11. ShortChains'
  BY <1>0, <1>2 DEF ShortChains
<1> QED BY <1>4, <1>5, <1>8, <1>9, <1>10, <1>11

\* A path that is under way stays under way, unless its task is done.
LEMMA SendKeepsPaths ==
  ASSUME Inv, NEW list \in Lists, Send(list), Handled' = Handled,
         UNCHANGED <<client, dispatched>>,
         \/ \A task \in tasks : task.type = "PathFind" => task \in tasks'
         \/ \E j \in 1 .. Len(list) : list[j].type = "PATH_FINDING" /\ list[j].ObjectId = Own
  PROVE  PredictionAnswered'
<1>0. TypesOK /\ PredictionAnswered
  BY DEF Inv
<1>1. /\ Len(stream) \in Nat /\ Len(list) \in Nat
      /\ Len(stream') = Len(stream) + Len(list)
      /\ \A i \in 1 .. Len(stream) : stream'[i] = stream[i]
      /\ \A j \in 1 .. Len(list) :
           /\ stream'[Len(stream) + j].type = list[j].type
           /\ stream'[Len(stream) + j].ObjectId = list[j].ObjectId
  BY <1>0, SendIs
<1>2. requests' = requests /\ mEntitys' = mEntitys /\ dispatched' = dispatched
  BY DEF client
<1>3. \A i \in Handled : i <= Len(stream)
  BY <1>0, <1>1 DEF Handled, TypesOK
<1> SUFFICES ASSUME PathComes PROVE PathComes'
  BY <1>0, <1>2 DEF PredictionAnswered, Predicts
<1>4. CASE \E j \in 1 .. Len(list) : list[j].type = "PATH_FINDING" /\ list[j].ObjectId = Own
  <2>1. PICK j \in 1 .. Len(list) : list[j].type = "PATH_FINDING" /\ list[j].ObjectId = Own
    BY <1>4
  <2>2. Len(stream) + j \in 1 .. Len(stream') /\ ~(Len(stream) + j <= Len(stream))
    BY <1>1
  <2>3. Len(stream) + j \notin Handled'
    BY <1>3, <2>2
  <2>4. stream'[Len(stream) + j].type = "PATH_FINDING" /\ stream'[Len(stream) + j].ObjectId = Own
    BY <1>1, <2>1
  <2> QED BY <2>2, <2>3, <2>4 DEF PathComes, Walks
<1>5. CASE \A task \in tasks : task.type = "PathFind" => task \in tasks'
  <2>1. CASE \E i \in dispatched + 1 .. Len(requests) : requests[i].type = "PATH_FINDING"
    BY <1>2, <2>1 DEF PathComes
  <2>2. CASE \E task \in tasks : task.type = "PathFind"
    BY <1>5, <2>2 DEF PathComes
  <2>3. CASE \E i \in 1 .. Len(stream) : i \notin Handled /\ Walks(stream, i, Own)
    <3>1. PICK i \in 1 .. Len(stream) : i \notin Handled /\ Walks(stream, i, Own)
      BY <2>3
    <3>2. i \in 1 .. Len(stream') /\ i \notin Handled' /\ stream'[i] = stream[i]
      BY <1>1, <3>1
    <3> QED BY <3>1, <3>2 DEF PathComes, Walks
  <2> QED BY <2>1, <2>2, <2>3 DEF PathComes
<1> QED BY <1>4, <1>5

\* Whether message j of a list tells of a change in sight of e.
Changing(list, j, e) == Appears(list, j, e) \/ Disappears(list, j, e)

\* The list tells each change of sight once.
TellsChanges(list, old, now) ==
  \A e \in Entities :
    /\ \A i, j \in 1 .. Len(list) : Changing(list, i, e) /\ Changing(list, j, e) => i = j
    /\ \A j \in 1 .. Len(list) :
         /\ Appears(list, j, e) => e \notin old /\ e \in now
         /\ Disappears(list, j, e) => e \in old /\ e \notin now
    /\ e \in old /\ e \notin now => \E j \in 1 .. Len(list) : Disappears(list, j, e)
    /\ e \notin old /\ e \in now => \E j \in 1 .. Len(list) : Appears(list, j, e)

LEMMA SendTells ==
  ASSUME Inv, NEW list \in Lists, Send(list), TellsChanges(list, inSight, inSight')
  PROVE  StreamTells'
<1>0. TypesOK /\ StreamTells
  BY DEF Inv
<1> DEFINE N == Len(stream)
<1>1. /\ N \in Nat /\ Len(list) \in Nat /\ Len(stream') = N + Len(list)
      /\ \A i \in 1 .. N : stream'[i] = stream[i]
      /\ \A j \in 1 .. Len(list) :
           stream'[N + j].type = list[j].type /\ stream'[N + j].ObjectId = list[j].ObjectId
      /\ \A i \in 1 .. Len(stream') : i \in 1 .. N \/ \E j \in 1 .. Len(list) : i = N + j
  BY <1>0, SendIs
<1> HIDE DEF N
<1>2. \A e : /\ \A i \in 1 .. N : /\ Appears(stream', i, e) <=> Appears(stream, i, e)
                                  /\ Disappears(stream', i, e) <=> Disappears(stream, i, e)
             /\ \A j \in 1 .. Len(list) :
                  /\ Appears(stream', N + j, e) <=> Appears(list, j, e)
                  /\ Disappears(stream', N + j, e) <=> Disappears(list, j, e)
  BY <1>1 DEF Appears, Disappears
<1>3. \A i \in 1 .. N : i \in 1 .. Len(stream') /\ i \in Nat
  BY <1>1
<1>4. \A j \in 1 .. Len(list) :
        N + j \in 1 .. Len(stream') /\ \A i \in 1 .. N : N + j > i /\ ~(i > N + j)
  BY <1>1
<1>5. \A e \in Entities : ToldBy(stream, 1 .. N, e) <=> e \in inSight
  BY <1>0 DEF StreamTells, N
<1>6. ASSUME NEW e \in Entities
      PROVE  ToldBy(stream', 1 .. Len(stream'), e) <=> e \in inSight'
  <2>1. CASE \E j \in 1 .. Len(list) : Appears(list, j, e)
    <3>1. PICK j \in 1 .. Len(list) : Appears(list, j, e)
      BY <2>1
    <3>2. e \in inSight' /\ \A i \in 1 .. Len(list) : ~Disappears(list, i, e)
      <4>1. \A i \in 1 .. Len(list) : Disappears(list, i, e) => e \notin inSight'
        BY DEF TellsChanges
      <4>2. e \in inSight'
        BY <3>1 DEF TellsChanges
      <4> QED BY <4>1, <4>2
    <3>3. \A i \in 1 .. Len(stream') : i > N + j => ~Disappears(stream', i, e)
      BY <1>1, <1>2, <1>4, <3>2
    <3> QED BY <1>2, <1>4, <3>1, <3>2, <3>3 DEF ToldBy
  <2>2. CASE \E j \in 1 .. Len(list) : Disappears(list, j, e)
    <3>1. PICK j \in 1 .. Len(list) : Disappears(list, j, e)
      BY <2>2
    <3>2. e \notin inSight' /\ \A i \in 1 .. Len(list) : ~Appears(list, i, e)
      <4>1. \A i \in 1 .. Len(list) : Appears(list, i, e) => e \in inSight'
        BY DEF TellsChanges
      <4>2. e \notin inSight'
        BY <3>1 DEF TellsChanges
      <4> QED BY <4>1, <4>2
    <3>3. \A i \in 1 .. Len(stream') : Appears(stream', i, e) => N + j > i
      BY <1>1, <1>2, <1>4, <3>2
    <3> QED BY <1>2, <1>4, <3>1, <3>2, <3>3 DEF ToldBy
  <2>3. CASE \A j \in 1 .. Len(list) : ~Appears(list, j, e) /\ ~Disappears(list, j, e)
    <3>1. e \in inSight' <=> e \in inSight
      BY <2>3 DEF TellsChanges
    <3>2. \A i \in 1 .. Len(stream') :
            /\ Appears(stream', i, e) => i \in 1 .. N /\ Appears(stream, i, e)
            /\ Disappears(stream', i, e) => i \in 1 .. N /\ Disappears(stream, i, e)
      BY <1>1, <1>2, <2>3
    <3>3. ToldBy(stream', 1 .. Len(stream'), e) <=> ToldBy(stream, 1 .. N, e)
      BY <1>2, <1>3, <3>2 DEF ToldBy
    <3> QED BY <1>5, <3>1, <3>3
  <2> QED BY <2>1, <2>2, <2>3
<1>7. ASSUME NEW e \in Entities, NEW i \in 1 .. Len(stream'), NEW k \in 1 .. Len(stream'),
             Appears(stream', i, e), Appears(stream', k, e), i < k
      PROVE  \E d \in i + 1 .. k - 1 : Disappears(stream', d, e)
  <2>1. CASE k \in 1 .. N
    <3>1. i \in 1 .. N
      BY <1>1, <1>7, <2>1
    <3>2. PICK d \in i + 1 .. k - 1 : Disappears(stream, d, e)
      BY <1>0, <1>2, <1>7, <2>1, <3>1 DEF StreamTells, N
    <3>3. d \in 1 .. N
      BY <1>1, <2>1, <3>1
    <3> QED BY <1>2, <3>2, <3>3
  <2>2. ASSUME NEW j \in 1 .. Len(list), k = N + j
        PROVE  \E d \in i + 1 .. k - 1 : Disappears(stream', d, e)
    <3>1. Appears(list, j, e)
      BY <1>2, <1>7, <2>2
    <3>2. e \notin inSight
      BY <3>1 DEF TellsChanges
    <3>3. i \in 1 .. N
      <4> SUFFICES ASSUME NEW l \in 1 .. Len(list), i = N + l PROVE FALSE
        BY <1>1
      <4>1. Appears(list, l, e)
        BY <1>2, <1>7
      <4>2. l = j
        BY <3>1, <4>1 DEF TellsChanges, Changing
      <4> QED BY <1>1, <1>7, <2>2, <4>2
    <3>4. Appears(stream, i, e)
      BY <1>2, <1>7, <3>3
    <3>5. PICK d \in 1 .. N : d > i /\ Disappears(stream, d, e)
      BY <1>5, <3>2, <3>3, <3>4 DEF ToldBy
    <3>6. d \in i + 1 .. k - 1
      BY <1>1, <2>2, <3>3, <3>5
    <3> QED BY <1>2, <3>5, <3>6
  <2> QED BY <1>1, <2>1, <2>2
<1>8. (\A e \in Entities : ToldBy(stream, 1 .. Len(stream), e) <=> e \in inSight)'
  <2>1. \A e \in Entities : ToldBy(stream', 1 .. Len(stream'), e) <=> e \in inSight'
    BY <1>6
  <2> QED BY <2>1
<1>9. \A e \in Entities : \A i, k \in 1 .. Len(stream') :
        Appears(stream', i, e) /\ Appears(stream', k, e) /\ i < k
          => \E d \in i + 1 .. k - 1 : Disappears(stream', d, e)
  BY <1>7
<1> QED BY <1>8, <1>9 DEF StreamTells

\* The pieces of information in the stream stay those that they are.
LEMMA SendNoInfo ==
  ASSUME TypesOK, NEW list \in Lists, Send(list),
         \A j \in 1 .. Len(list) : list[j].type # "ENTITY_INFO", NEW e, NEW n, n # 0
  PROVE  Causes(stream', 1 .. Len(stream'), e, n) = Causes(stream, 1 .. Len(stream), e, n)
<1>1. /\ Len(stream) \in Nat /\ Len(list) \in Nat /\ Len(stream') = Len(stream) + Len(list)
      /\ \A i \in 1 .. Len(stream) : stream'[i] = stream[i]
      /\ \A j \in 1 .. Len(list) : stream'[Len(stream) + j].type = list[j].type
      /\ \A i \in 1 .. Len(stream') :
           i \in 1 .. Len(stream) \/ \E j \in 1 .. Len(list) : i = Len(stream) + j
  BY SendIs
<1>2. \A i \in 1 .. Len(stream) : i \in 1 .. Len(stream')
  BY <1>1
<1>3. \A i \in 1 .. Len(stream') : stream'[i].type = "ENTITY_INFO" => i \in 1 .. Len(stream)
  BY <1>1
<1> QED BY <1>1, <1>2, <1>3 DEF Causes, IsCause

-----------------------------------------------------------------------------
(* The lists that the server's world makes. *)

\* The ids in their order: each of them once.
LEMMA Listing ==
  ASSUME NEW S, S \subseteq Entities, NEW ids \in InOrder(S)
  PROVE  /\ ids \in Seq(S) /\ Len(ids) \in Nat /\ DOMAIN ids = 1 .. Len(ids)
         /\ \A i, j \in 1 .. Len(ids) : ids[i] = ids[j] => i = j
         /\ \A e \in S : \E i \in 1 .. Len(ids) : ids[i] = e
<1> DEFINE n == Cardinality(S)
<1>1. IsFiniteSet(S) /\ n \in Nat
  BY ConstantsAre, FS_Subset, FS_CardinalityType
<1>2. /\ ids \in [1 .. n -> S]
      /\ \A i, j \in 1 .. n : i < j => ids[i] < ids[j]
  BY DEF InOrder
<1>3. IsFiniteSet(1 .. n) /\ Cardinality(1 .. n) = n
  BY <1>1, FS_Interval
<1> HIDE DEF n
<1>4. \A i \in 1 .. n : ids[i] \in Nat
  BY <1>2, ConstantsAre
<1>5. \A i, j \in 1 .. n : ids[i] = ids[j] => i = j
  <2> SUFFICES ASSUME NEW i \in 1 .. n, NEW j \in 1 .. n, ids[i] = ids[j] PROVE i = j
    OBVIOUS
  <2>1. ~(i < j) /\ ~(j < i)
    BY <1>2, <1>4
  <2> QED BY <1>1, <2>1
<1>6. ids \in Injection(1 .. n, S)
  BY <1>2, <1>5 DEF Injection, IsInjective
<1>7. ids \in Surjection(1 .. n, S)
  BY <1>1, <1>3, <1>6, FS_Injection DEF n
<1>8. \A e \in S : \E i \in 1 .. n : ids[i] = e
  BY <1>7 DEF Surjection
<1>9. ids \in Seq(S) /\ Len(ids) = n /\ DOMAIN ids = 1 .. n
  BY <1>1, <1>2
<1> QED BY <1>1, <1>5, <1>8, <1>9

LEMMA MessageIs ==
  ASSUME NEW type, NEW e, NEW number
  PROVE  /\ Message(type, e, number).type = type
         /\ Message(type, e, number).ObjectId = e
         /\ Message(type, e, number).InfoNumber = number
         /\ \/ type \notin {"SPAWN_ENTITY", "APPEAR_ENTITY", "DISAPPEAR_ENTITY",
                            "PATH_FINDING", "ENTITY_INFO"}
            \/ e \notin Entities \/ number \notin 0 .. EntityInfoMax
            \/ Message(type, e, number) \in Messages
  BY DEF Message, Messages

\* One list after the other.
LEMMA Joined ==
  ASSUME NEW one \in Lists, NEW two \in Lists
  PROVE  /\ one \o two \in Lists
         /\ Len(one) \in Nat /\ Len(two) \in Nat /\ Len(one \o two) = Len(one) + Len(two)
         /\ \A i \in 1 .. Len(one) : (one \o two)[i] = one[i]
         /\ \A j \in 1 .. Len(two) : (one \o two)[Len(one) + j] = two[j]
         /\ \A k \in 1 .. Len(one \o two) :
              k \in 1 .. Len(one) \/ \E j \in 1 .. Len(two) : k = Len(one) + j
<1>1. one \in Seq(Messages) /\ two \in Seq(Messages)
  BY DEF Lists
<1> DEFINE both == one \o two
           m == Len(one)
           n == Len(two)
<1>2. m \in Nat /\ n \in Nat
  BY <1>1
<1>3. /\ both \in Seq(Messages) /\ Len(both) = m + n
      /\ \A i \in 1 .. m + n : both[i] = IF i <= m THEN one[i] ELSE two[i - m]
  BY <1>1, ConcatProperties, Zenon
<1> HIDE DEF both, m, n
<1>4. \A i \in 1 .. m : both[i] = one[i]
  <2>1. \A i \in 1 .. m : i \in 1 .. m + n /\ i <= m
    BY <1>2
  <2> QED BY <1>3, <2>1
<1>5. ASSUME NEW j \in 1 .. n PROVE both[m + j] = two[j]
  <2> DEFINE k == m + j
  <2>1. k \in 1 .. m + n /\ ~(k <= m) /\ k - m = j
    BY <1>2
  <2> HIDE DEF k
  <2>2. both[k] = two[k - m]
    BY <1>3, <2>1
  <2> QED BY <2>1, <2>2 DEF k
<1>6. ASSUME NEW k \in 1 .. m + n
      PROVE  k \in 1 .. m \/ \E j \in 1 .. n : k = m + j
  <2>1. k \in 1 .. m \/ (k - m \in 1 .. n /\ k = m + (k - m))
    BY <1>2
  <2> QED BY <2>1
<1>7. both \in Lists
  <2>1. \A k \in 1 .. m + n : Contents(both[k])
    BY <1>4, <1>5, <1>6 DEF Lists, m, n
  <2> QED BY <1>3, <2>1 DEF Lists
<1> QED BY <1>2, <1>3, <1>4, <1>5, <1>6, <1>7 DEF both, m, n

\* A message of the type for each.
LEMMA EachIs ==
  ASSUME NEW S, NEW ids \in Seq(S), S \subseteq Entities,
         NEW type \in {"SPAWN_ENTITY", "APPEAR_ENTITY", "PATH_FINDING"},
         type = "SPAWN_ENTITY" => S \subseteq {Own}, type = "APPEAR_ENTITY" => S \subseteq Others
  PROVE  /\ ToEach(type, ids) \in Lists /\ Len(ToEach(type, ids)) = Len(ids)
         /\ \A i \in 1 .. Len(ids) : /\ ToEach(type, ids)[i].type = type
                                     /\ ToEach(type, ids)[i].ObjectId = ids[i]
<1> DEFINE list == [i \in 1 .. Len(ids) |-> Message(type, ids[i], 0)]
<1>1. Len(ids) \in Nat /\ DOMAIN ids = 1 .. Len(ids) /\ \A i \in 1 .. Len(ids) : ids[i] \in S
  OBVIOUS
<1>2. ToEach(type, ids) = list
  BY <1>1 DEF ToEach
<1>3. ASSUME NEW i \in 1 .. Len(ids)
      PROVE  /\ list[i] \in Messages /\ Contents(list[i])
             /\ list[i].type = type /\ list[i].ObjectId = ids[i]
  <2>1. list[i] = Message(type, ids[i], 0)
    OBVIOUS
  <2> HIDE DEF list
  <2>2. list[i].type = type /\ list[i].ObjectId = ids[i] /\ list[i].InfoNumber = 0
    BY <2>1, MessageIs
  <2>3. ids[i] \in Entities /\ 0 \in 0 .. EntityInfoMax
    BY <1>1 DEF EntityInfoMax
  <2>4. list[i] \in Messages
    BY <2>1, <2>3, MessageIs
  <2>5. Contents(list[i])
    BY <1>1, <2>2 DEF Contents, Others
  <2> QED BY <2>2, <2>4, <2>5
<1>4. DOMAIN list = 1 .. Len(ids) /\ list \in [1 .. Len(ids) -> Messages]
  BY <1>3
<1> HIDE DEF list
<1>5. list \in Seq(Messages) /\ Len(list) = Len(ids)
  BY <1>1, <1>4
<1> QED BY <1>2, <1>3, <1>5 DEF Lists

\* What comes to be seen and what no longer is.
LEMMA ChangesAre ==
  ASSUME NEW S, NEW ids \in Seq(S), S \subseteq Others, NEW now
  PROVE  /\ Changes(ids, now) \in Lists /\ Len(Changes(ids, now)) = Len(ids)
         /\ \A i \in 1 .. Len(ids) :
              /\ Changes(ids, now)[i].type =
                   IF ids[i] \in now THEN "APPEAR_ENTITY" ELSE "DISAPPEAR_ENTITY"
              /\ Changes(ids, now)[i].ObjectId = ids[i]
<1> DEFINE kind(i) == IF ids[i] \in now THEN "APPEAR_ENTITY" ELSE "DISAPPEAR_ENTITY"
           list == [i \in 1 .. Len(ids) |-> Message(kind(i), ids[i], 0)]
<1>1. Len(ids) \in Nat /\ DOMAIN ids = 1 .. Len(ids) /\ \A i \in 1 .. Len(ids) : ids[i] \in S
  OBVIOUS
<1>2. Changes(ids, now) = list
  BY <1>1 DEF Changes
<1>3. ASSUME NEW i \in 1 .. Len(ids)
      PROVE  /\ list[i] \in Messages /\ Contents(list[i])
             /\ list[i].type = kind(i) /\ list[i].ObjectId = ids[i]
  <2>1. list[i] = Message(kind(i), ids[i], 0)
    OBVIOUS
  <2> HIDE DEF list
  <2>2. kind(i) \in {"APPEAR_ENTITY", "DISAPPEAR_ENTITY"}
    OBVIOUS
  <2> HIDE DEF kind
  <2>3. list[i].type = kind(i) /\ list[i].ObjectId = ids[i]
    BY <2>1, MessageIs
  <2>4. ids[i] \in Entities /\ ids[i] # Own /\ 0 \in 0 .. EntityInfoMax
    BY <1>1 DEF EntityInfoMax, Others
  <2>5. list[i] \in Messages
    <3>1. kind(i) \in {"SPAWN_ENTITY", "APPEAR_ENTITY", "DISAPPEAR_ENTITY",
                       "PATH_FINDING", "ENTITY_INFO"}
      BY <2>2
    <3> QED BY <2>1, <2>4, <3>1, MessageIs
  <2>6. Contents(list[i])
    BY <2>2, <2>3, <2>4 DEF Contents
  <2> QED BY <2>3, <2>5, <2>6
<1>4. DOMAIN list = 1 .. Len(ids) /\ list \in [1 .. Len(ids) -> Messages]
  BY <1>3
<1> HIDE DEF list
<1>5. list \in Seq(Messages) /\ Len(list) = Len(ids)
  BY <1>1, <1>4
<1> QED BY <1>2, <1>3, <1>5 DEF Lists

\* EnterWorld: those who are near appear, and the client's own entity spawns.
LEMMA EnterWorldTells ==
  ASSUME TypesOK, EnterWorld
  PROVE  \E list \in Lists :
           /\ Send(list) /\ TellsChanges(list, inSight, inSight')
           /\ \A j \in 1 .. Len(list) : list[j].type # "ENTITY_INFO"
           /\ inSight' \subseteq Entities /\ Own \in inSight'
<1>1. PICK near \in SUBSET Others :
        /\ inSight' = near \union {Own}
        /\ \E ids \in InOrder(near) :
             Send(ToEach("APPEAR_ENTITY", ids) \o ToEach("SPAWN_ENTITY", <<Own>>))
  BY DEF EnterWorld
<1>2. PICK ids \in InOrder(near) :
        Send(ToEach("APPEAR_ENTITY", ids) \o ToEach("SPAWN_ENTITY", <<Own>>))
  BY <1>1
<1> DEFINE one == ToEach("APPEAR_ENTITY", ids)
           self == <<Own>>
           two == ToEach("SPAWN_ENTITY", self)
           list == one \o two
<1>3. near \subseteq Entities /\ near \subseteq Others /\ Own \notin near /\ Own \in Entities
  BY ConstantsAre DEF Others
<1>4. /\ ids \in Seq(near) /\ Len(ids) \in Nat
      /\ \A i, j \in 1 .. Len(ids) : ids[i] = ids[j] => i = j
      /\ \A e \in near : \E i \in 1 .. Len(ids) : ids[i] = e
  BY <1>2, <1>3, Listing
<1>5. /\ one \in Lists /\ Len(one) = Len(ids)
      /\ \A i \in 1 .. Len(ids) : one[i].type = "APPEAR_ENTITY" /\ one[i].ObjectId = ids[i]
  BY <1>3, <1>4, EachIs
<1>6. self \in Seq({Own}) /\ Len(self) = 1 /\ self[1] = Own
  OBVIOUS
<1> HIDE DEF self
<1>7. /\ two \in Lists /\ Len(two) = 1
      /\ two[1].type = "SPAWN_ENTITY" /\ two[1].ObjectId = Own
  <2>1. {Own} \subseteq Entities
    BY <1>3
  <2>2. /\ ToEach("SPAWN_ENTITY", self) \in Lists
        /\ Len(ToEach("SPAWN_ENTITY", self)) = Len(self)
        /\ \A i \in 1 .. Len(self) : /\ ToEach("SPAWN_ENTITY", self)[i].type = "SPAWN_ENTITY"
                                     /\ ToEach("SPAWN_ENTITY", self)[i].ObjectId = self[i]
    BY <1>6, <2>1, EachIs
  <2> QED BY <1>6, <2>2
<1> HIDE DEF one, two
<1>8. /\ list \in Lists /\ Len(list) = Len(one) + Len(two)
      /\ \A i \in 1 .. Len(one) : list[i] = one[i]
      /\ \A j \in 1 .. Len(two) : list[Len(one) + j] = two[j]
      /\ \A k \in 1 .. Len(list) :
           k \in 1 .. Len(one) \/ \E j \in 1 .. Len(two) : k = Len(one) + j
  BY <1>5, <1>7, Joined
<1>9. Send(list)
  BY <1>2 DEF one, two, self
<1> HIDE DEF list
<1> DEFINE n == Len(ids)
<1>10. n \in Nat /\ Len(list) = n + 1
  BY <1>4, <1>5, <1>7, <1>8
<1>11. /\ \A i \in 1 .. n : list[i].type = "APPEAR_ENTITY" /\ list[i].ObjectId = ids[i]
       /\ list[n + 1].type = "SPAWN_ENTITY" /\ list[n + 1].ObjectId = Own
  <2>1. 1 \in 1 .. Len(two)
    BY <1>7
  <2>2. list[n + 1] = two[1]
    BY <1>5, <1>8, <2>1
  <2>3. \A i \in 1 .. n : list[i] = one[i]
    BY <1>5, <1>8
  <2> QED BY <1>5, <1>7, <2>2, <2>3
<1>12. \A i \in 1 .. n : ids[i] \in near
  BY <1>4
<1> HIDE DEF n
<1>13. \A k \in 1 .. Len(list) : k \in 1 .. n \/ k = n + 1
  BY <1>10
<1>14. \A k \in 1 .. Len(list) : list[k].type \in {"APPEAR_ENTITY", "SPAWN_ENTITY"}
  BY <1>11, <1>13
<1>15. TellsChanges(list, inSight, inSight')
  <2>1. inSight = {}
    BY DEF EnterWorld
  <2>2. \A i \in 1 .. n : i \in 1 .. Len(list)
    BY <1>10
  <2>3. n + 1 \in 1 .. Len(list)
    BY <1>10
  <2>4. \A k \in 1 .. Len(list) : \A e : ~Disappears(list, k, e)
    BY <1>14 DEF Disappears
  <2>5. \A e : /\ \A i \in 1 .. n : Appears(list, i, e) <=> ids[i] = e
               /\ Appears(list, n + 1, e) <=> e = Own
    BY <1>11 DEF Appears
  <2> SUFFICES ASSUME NEW e \in Entities
               PROVE  /\ \A i, j \in 1 .. Len(list) :
                           Appears(list, i, e) /\ Appears(list, j, e) => i = j
                      /\ \A j \in 1 .. Len(list) : Appears(list, j, e) => e \in inSight'
                      /\ e \in inSight' => \E j \in 1 .. Len(list) : Appears(list, j, e)
    BY <2>1, <2>4 DEF TellsChanges, Changing
  <2>6. \A i \in 1 .. n : Appears(list, i, e) => e # Own
    BY <1>3, <1>12, <2>5
  <2>7. \A i, j \in 1 .. Len(list) : Appears(list, i, e) /\ Appears(list, j, e) => i = j
    <3>1. \A i, j \in 1 .. n : Appears(list, i, e) /\ Appears(list, j, e) => i = j
      <4>1. \A i, j \in 1 .. n : ids[i] = ids[j] => i = j
        BY <1>4 DEF n
      <4> QED BY <2>5, <4>1
    <3> QED BY <1>13, <2>5, <2>6, <3>1
  <2>8. ASSUME NEW j \in 1 .. Len(list), Appears(list, j, e) PROVE e \in inSight'
    <3>1. CASE j \in 1 .. n
      BY <1>1, <1>12, <2>5, <2>8, <3>1
    <3>2. CASE j = n + 1
      BY <1>1, <2>5, <2>8, <3>2
    <3> QED BY <1>13, <3>1, <3>2
  <2>9. e \in inSight' => \E j \in 1 .. Len(list) : Appears(list, j, e)
    <3>1. CASE e = Own
      BY <2>3, <2>5, <3>1
    <3>2. CASE e \in near
      <4>1. PICK i \in 1 .. n : ids[i] = e
        BY <1>4, <3>2 DEF n
      <4> QED BY <2>2, <2>5, <4>1
    <3> QED BY <1>1, <3>1, <3>2
  <2> QED BY <2>7, <2>8, <2>9
<1>16. \A j \in 1 .. Len(list) : list[j].type # "ENTITY_INFO"
  BY <1>14
<1> QED BY <1>1, <1>3, <1>8, <1>9, <1>15, <1>16

\* Update: paths tell nothing of who is in sight, and who came or left is told once.
LEMMA UpdateTells ==
  ASSUME TypesOK, Update
  PROVE  \E list \in Lists :
           /\ Send(list) /\ TellsChanges(list, inSight, inSight')
           /\ \A j \in 1 .. Len(list) : list[j].type # "ENTITY_INFO"
           /\ inSight' \subseteq Entities /\ Own \in inSight'
<1>1. PICK walking \in SUBSET (inSight \cap Others), near \in SUBSET Others :
        /\ inSight' = near \union {Own}
        /\ \E walkers \in InOrder(walking), changed \in InOrder(SymDiff(inSight, inSight')) :
             Send(ToEach("PATH_FINDING", walkers) \o Changes(changed, inSight'))
  BY DEF Update
<1> DEFINE now == inSight'
           differ == SymDiff(inSight, now)
<1> HIDE DEF differ
<1>2. PICK walkers \in InOrder(walking), changed \in InOrder(differ) :
        Send(ToEach("PATH_FINDING", walkers) \o Changes(changed, now))
  BY <1>1 DEF differ
<1> DEFINE one == ToEach("PATH_FINDING", walkers)
           two == Changes(changed, now)
           list == one \o two
<1>3. /\ near \subseteq Entities /\ now \subseteq Entities /\ Own \in inSight /\ Own \in now
      /\ walking \subseteq Entities /\ Own \in Entities /\ inSight \subseteq Entities
  BY <1>1, ConstantsAre DEF Others, TypesOK, Update
<1>4. \A e : e \in differ <=> (e \in inSight /\ e \notin now) \/ (e \in now /\ e \notin inSight)
  BY DEF SymDiff, differ
<1> HIDE DEF now
<1>5. differ \subseteq Others /\ differ \subseteq Entities
  BY <1>3, <1>4 DEF Others
<1>6. walkers \in Seq(walking) /\ Len(walkers) \in Nat
  BY <1>3, Listing
<1>7. /\ changed \in Seq(differ) /\ Len(changed) \in Nat
      /\ \A i, j \in 1 .. Len(changed) : changed[i] = changed[j] => i = j
      /\ \A e \in differ : \E i \in 1 .. Len(changed) : changed[i] = e
  BY <1>5, Listing
<1>8. /\ one \in Lists /\ Len(one) = Len(walkers)
      /\ \A i \in 1 .. Len(walkers) : one[i].type = "PATH_FINDING"
  BY <1>3, <1>6, EachIs
<1>9. /\ two \in Lists /\ Len(two) = Len(changed)
      /\ \A i \in 1 .. Len(changed) :
           /\ two[i].type = IF changed[i] \in now THEN "APPEAR_ENTITY" ELSE "DISAPPEAR_ENTITY"
           /\ two[i].ObjectId = changed[i]
  BY <1>5, <1>7, ChangesAre
<1>10. Send(list)
  BY <1>2 DEF now
<1> HIDE DEF one, two
<1>11. /\ list \in Lists /\ Len(list) = Len(one) + Len(two)
       /\ \A i \in 1 .. Len(one) : list[i] = one[i]
       /\ \A j \in 1 .. Len(two) : list[Len(one) + j] = two[j]
       /\ \A k \in 1 .. Len(list) :
            k \in 1 .. Len(one) \/ \E j \in 1 .. Len(two) : k = Len(one) + j
  BY <1>8, <1>9, Joined
<1> HIDE DEF list
<1> DEFINE m == Len(walkers)
           n == Len(changed)
<1>12. m \in Nat /\ n \in Nat /\ Len(list) = m + n
  BY <1>6, <1>7, <1>8, <1>9, <1>11
<1>13. \A k \in 1 .. Len(list) : k \in 1 .. m \/ \E j \in 1 .. n : k = m + j
  BY <1>8, <1>9, <1>11
<1>14. /\ \A i \in 1 .. m : list[i].type = "PATH_FINDING"
       /\ \A j \in 1 .. n :
            /\ list[m + j].type = IF changed[j] \in now THEN "APPEAR_ENTITY" ELSE "DISAPPEAR_ENTITY"
            /\ list[m + j].ObjectId = changed[j]
  BY <1>8, <1>9, <1>11
<1>15. \A j \in 1 .. n : changed[j] \in differ
  BY <1>7
<1>16. \A i, j \in 1 .. n : changed[i] = changed[j] => i = j
  BY <1>7
<1>17. \A e \in differ : \E j \in 1 .. n : changed[j] = e
  BY <1>7
<1> HIDE DEF m, n
<1>18. \A j \in 1 .. n : m + j \in 1 .. Len(list)
  BY <1>12
<1>19. \A k \in 1 .. Len(list) : list[k].type # "ENTITY_INFO"
  BY <1>13, <1>14
<1>20. \A e : /\ \A i \in 1 .. m : ~Appears(list, i, e) /\ ~Disappears(list, i, e)
              /\ \A j \in 1 .. n :
                   /\ Appears(list, m + j, e) <=> changed[j] = e /\ changed[j] \in now
                   /\ Disappears(list, m + j, e) <=> changed[j] = e /\ changed[j] \notin now
  BY <1>14 DEF Appears, Disappears
<1>21. TellsChanges(list, inSight, now)
  <2> SUFFICES ASSUME NEW e \in Entities
               PROVE  /\ \A i, j \in 1 .. Len(list) :
                           Changing(list, i, e) /\ Changing(list, j, e) => i = j
                      /\ \A j \in 1 .. Len(list) :
                           /\ Appears(list, j, e) => e \notin inSight /\ e \in now
                           /\ Disappears(list, j, e) => e \in inSight /\ e \notin now
                      /\ e \in inSight /\ e \notin now =>
                           \E j \in 1 .. Len(list) : Disappears(list, j, e)
                      /\ e \notin inSight /\ e \in now =>
                           \E j \in 1 .. Len(list) : Appears(list, j, e)
    BY DEF TellsChanges
  <2>1. \A k \in 1 .. Len(list) : Changing(list, k, e) =>
          \E j \in 1 .. n : k = m + j /\ changed[j] = e
    BY <1>13, <1>20 DEF Changing
  <2>2. \A i, j \in 1 .. Len(list) : Changing(list, i, e) /\ Changing(list, j, e) => i = j
    BY <1>16, <2>1
  <2>3. ASSUME NEW k \in 1 .. Len(list)
        PROVE  /\ Appears(list, k, e) => e \notin inSight /\ e \in now
               /\ Disappears(list, k, e) => e \in inSight /\ e \notin now
    <3>1. ASSUME NEW j \in 1 .. n, k = m + j
          PROVE  /\ Appears(list, k, e) => e \notin inSight /\ e \in now
                 /\ Disappears(list, k, e) => e \in inSight /\ e \notin now
      <4>1. /\ Appears(list, k, e) <=> changed[j] = e /\ changed[j] \in now
            /\ Disappears(list, k, e) <=> changed[j] = e /\ changed[j] \notin now
        BY <1>20, <3>1
      <4> QED BY <1>4, <1>15, <4>1
    <3> QED BY <1>13, <1>20, <3>1
  <2>4. ASSUME e \in differ
        PROVE  \E k \in 1 .. Len(list) : IF e \in now THEN Appears(list, k, e)
                                         ELSE Disappears(list, k, e)
    <3>1. PICK j \in 1 .. n : changed[j] = e
      BY <1>17, <2>4
    <3> QED BY <1>18, <1>20, <3>1
  <2> QED BY <1>4, <2>2, <2>3, <2>4
<1> QED BY <1>1, <1>3, <1>10, <1>11, <1>19, <1>21 DEF now

\* Nothing asked, told or done about information.
LEMMA AnswersStay ==
  ASSUME AnsweredOnce, UNCHANGED <<requests, dispatched, UseAOI>>,
         \A e, n : n # 0 => Causes(stream', 1 .. Len(stream'), e, n)
                              = Causes(stream, 1 .. Len(stream), e, n),
         \A e, n : (TasksFor(e, n))' = TasksFor(e, n)
  PROVE  AnsweredOnce'
<1>1. \A n \in 0 .. EntityInfoMax - 2 : n + 1 # 0
  BY DEF EntityInfoMax
<1>2. EntityInfoMax # 0
  BY DEF EntityInfoMax
<1>3. \A e \in Entities :
        IF UseAOI
        THEN \A n \in 0 .. EntityInfoMax - 2 :
               Cardinality(Causes(stream', 1 .. Len(stream'), e, n + 1))
                   + Cardinality(TasksFor(e, n + 1))
                 <= Cardinality(Asked(requests, e, n) \cap (1 .. dispatched))
        ELSE Cardinality(Causes(stream', 1 .. Len(stream'), e, EntityInfoMax))
                 + (EntityInfoMax - 1) * Cardinality(TasksFor(e, 1))
               <= (EntityInfoMax - 1) * Cardinality(Asked(requests, e, 0) \cap (1 .. dispatched))
  <2> SUFFICES ASSUME NEW e \in Entities
               PROVE IF UseAOI
                     THEN \A n \in 0 .. EntityInfoMax - 2 :
                            Cardinality(Causes(stream', 1 .. Len(stream'), e, n + 1))
                                + Cardinality(TasksFor(e, n + 1))
                              <= Cardinality(Asked(requests, e, n) \cap (1 .. dispatched))
                     ELSE Cardinality(Causes(stream', 1 .. Len(stream'), e, EntityInfoMax))
                              + (EntityInfoMax - 1) * Cardinality(TasksFor(e, 1))
                            <= (EntityInfoMax - 1)
                                 * Cardinality(Asked(requests, e, 0) \cap (1 .. dispatched))
    OBVIOUS
  <2>1. CASE UseAOI
    BY <1>1, <2>1 DEF AnsweredOnce
  <2>2. CASE ~UseAOI
    BY <1>2, <2>2 DEF AnsweredOnce
  <2> QED BY <2>1, <2>2
<1>4. \A e \in Entities :
        IF UseAOI'
        THEN \A n \in 0 .. EntityInfoMax - 2 :
               Cardinality(Causes(stream', 1 .. Len(stream'), e, n + 1))
                   + Cardinality((TasksFor(e, n + 1))')
                 <= Cardinality(Asked(requests', e, n) \cap (1 .. dispatched'))
        ELSE Cardinality(Causes(stream', 1 .. Len(stream'), e, EntityInfoMax))
                 + (EntityInfoMax - 1) * Cardinality((TasksFor(e, 1))')
               <= (EntityInfoMax - 1) * Cardinality(Asked(requests', e, 0) \cap (1 .. dispatched'))
  BY <1>3
<1> QED BY <1>4 DEF AnsweredOnce

LEMMA SightKeeps ==
  ASSUME Inv, EnterWorld \/ Update
  PROVE  Inv'
<1>0. TypesOK /\ AnsweredOnce
  BY DEF Inv
<1>1. PICK list \in Lists :
        /\ Send(list) /\ TellsChanges(list, inSight, inSight')
        /\ \A j \in 1 .. Len(list) : list[j].type # "ENTITY_INFO"
        /\ inSight' \subseteq Entities /\ Own \in inSight'
  BY <1>0, EnterWorldTells, UpdateTells
<1>2. UNCHANGED <<client, UseAOI, arrived, dispatched, tasks, crossed>>
  BY DEF EnterWorld, Update
<1>3. TypesOK' /\ InTurn' /\ ViewMatches' /\ AskedOnce' /\ ShortChains' /\ Handled' = Handled
  BY <1>1, <1>2, SendKeeps
<1>4. StreamTells'
  BY <1>1, SendTells
<1>5. PredictionAnswered'
  BY <1>1, <1>2, <1>3, SendKeepsPaths
<1>6. AnsweredOnce'
  <2>1. \A e, n : n # 0 => Causes(stream', 1 .. Len(stream'), e, n)
                             = Causes(stream, 1 .. Len(stream), e, n)
    BY <1>0, <1>1, SendNoInfo
  <2>2. \A e, n : (TasksFor(e, n))' = TasksFor(e, n)
    BY <1>2 DEF TasksFor
  <2>3. requests' = requests /\ dispatched' = dispatched /\ UseAOI' = UseAOI
    BY <1>2 DEF client
  <2> QED BY <1>0, <2>1, <2>2, <2>3, AnswersStay
<1> QED BY <1>3, <1>4, <1>5, <1>6 DEF Inv

\* All messages of a list may be such that requests are made for them, or none.
LEMMA SendCauses ==
  ASSUME TypesOK, NEW list \in Lists, Send(list), NEW e, NEW n
  PROVE  /\ (\A j \in 1 .. Len(list) : IsCause(list[j], e, n)) =>
              Cardinality(Causes(stream', 1 .. Len(stream'), e, n))
                = Cardinality(Causes(stream, 1 .. Len(stream), e, n)) + Len(list)
         /\ (\A j \in 1 .. Len(list) : ~IsCause(list[j], e, n)) =>
              Causes(stream', 1 .. Len(stream'), e, n) = Causes(stream, 1 .. Len(stream), e, n)
<1> DEFINE N == Len(stream)
           L == Len(list)
           old == Causes(stream, 1 .. N, e, n)
           new == Causes(stream', 1 .. Len(stream'), e, n)
<1>1. /\ N \in Nat /\ L \in Nat /\ Len(stream') = N + L
      /\ \A i \in 1 .. N : stream'[i] = stream[i]
      /\ \A j \in 1 .. L : /\ stream'[N + j].type = list[j].type
                           /\ stream'[N + j].ObjectId = list[j].ObjectId
                           /\ stream'[N + j].InfoNumber = list[j].InfoNumber
      /\ \A i \in 1 .. Len(stream') : i \in 1 .. N \/ \E j \in 1 .. L : i = N + j
  BY SendIs
<1> HIDE DEF N, L
<1>2. \A j \in 1 .. L : IsCause(stream'[N + j], e, n) <=> IsCause(list[j], e, n)
  BY <1>1 DEF IsCause
<1>3. \A i \in 1 .. N : i \in 1 .. Len(stream')
  BY <1>1
<1>4. ASSUME \A j \in 1 .. L : IsCause(list[j], e, n)
      PROVE  Cardinality(new) = Cardinality(old) + L
  <2> DEFINE added == N + 1 .. N + L
  <2>1. \A i \in added : i \in 1 .. Len(stream') /\ i \notin 1 .. N
    BY <1>1
  <2>2. \A i \in added : IsCause(stream'[i], e, n)
    <3> SUFFICES ASSUME NEW i \in added PROVE IsCause(stream'[i], e, n)
      OBVIOUS
    <3>1. PICK j \in 1 .. L : i = N + j
      BY <1>1, <2>1
    <3> QED BY <1>2, <1>4, <3>1
  <2>3. \A i \in 1 .. Len(stream') : i \in 1 .. N \/ i \in added
    BY <1>1
  <2>4. new = old \union added
    BY <1>1, <1>3, <2>1, <2>2, <2>3 DEF Causes
  <2>5. IsFiniteSet(added) /\ Cardinality(added) = L
    <3>1. N + 1 \in Int /\ N + L \in Int /\ (IF N + 1 > N + L THEN 0 ELSE (N + L) - (N + 1) + 1) = L
      BY <1>1
    <3> QED BY <3>1, FS_Interval
  <2>6. old \subseteq 1 .. N /\ IsFiniteSet(1 .. N)
    BY <1>1, FS_Interval DEF Causes
  <2>7. IsFiniteSet(old) /\ Cardinality(old) \in Nat
    BY <2>6, FS_Subset, FS_CardinalityType
  <2>8. old \cap added = {}
    BY <2>1, <2>6
  <2> HIDE DEF old, new, added
  <2>9. Cardinality(old \union added)
          = Cardinality(old) + Cardinality(added) - Cardinality(old \cap added)
    BY <2>5, <2>7, FS_Union
  <2>10. Cardinality({}) = 0
    BY FS_EmptySet
  <2>11. Cardinality(new) = Cardinality(old) + L - 0
    <3>1. Cardinality(old \union added) = Cardinality(old) + L - 0
      BY <2>5, <2>8, <2>9, <2>10, Zenon
    <3> QED BY <2>4, <3>1, Zenon
  <2> DEFINE c == Cardinality(old)
  <2>12. c \in Nat /\ Cardinality(new) = c + L - 0
    BY <2>7, <2>11
  <2> HIDE DEF c
  <2>13. c + L - 0 = c + L
    BY <1>1, <2>12
  <2> QED BY <2>12, <2>13 DEF c
<1>5. ASSUME \A j \in 1 .. L : ~IsCause(list[j], e, n)
      PROVE  new = old
  <2>1. \A i \in 1 .. Len(stream') : IsCause(stream'[i], e, n) => i \in 1 .. N
    BY <1>1, <1>2, <1>5
  <2> QED BY <1>1, <1>3, <2>1 DEF Causes
<1> QED BY <1>4, <1>5 DEF N, L

\* A list that tells nothing of who is in sight.
LEMMA SameSightTells ==
  ASSUME NEW list, \A j \in 1 .. Len(list) : list[j].type \in {"PATH_FINDING", "ENTITY_INFO"},
         inSight' = inSight
  PROVE  TellsChanges(list, inSight, inSight')
  BY DEF TellsChanges, Changing, Appears, Disappears

LEMMA PathFindKeeps ==
  ASSUME Inv, NEW task \in tasks, PathFind(task)
  PROVE  Inv'
<1>0. TypesOK /\ AnsweredOnce
  BY DEF Inv
<1> DEFINE self == <<Own>>
           list == ToEach("PATH_FINDING", self)
<1>1. self \in Seq({Own}) /\ Len(self) = 1 /\ self[1] = Own
  OBVIOUS
<1>2. Send(list) /\ task.type = "PathFind" /\ tasks' = tasks \ {task}
  BY DEF PathFind, SeesItself
<1>3. UNCHANGED <<client, UseAOI, inSight, arrived, dispatched, crossed>>
  BY DEF PathFind
<1> HIDE DEF self
<1>4. /\ list \in Lists /\ Len(list) = 1
      /\ list[1].type = "PATH_FINDING" /\ list[1].ObjectId = Own
  <2>1. {Own} \subseteq Entities
    BY ConstantsAre
  <2>2. /\ ToEach("PATH_FINDING", self) \in Lists
        /\ Len(ToEach("PATH_FINDING", self)) = Len(self)
        /\ \A i \in 1 .. Len(self) : /\ ToEach("PATH_FINDING", self)[i].type = "PATH_FINDING"
                                     /\ ToEach("PATH_FINDING", self)[i].ObjectId = self[i]
    BY <1>1, <2>1, EachIs
  <2> QED BY <1>1, <2>2
<1> HIDE DEF list
<1>5. /\ \A j \in 1 .. Len(list) : list[j].type = "PATH_FINDING"
      /\ \E j \in 1 .. Len(list) : list[j].type = "PATH_FINDING" /\ list[j].ObjectId = Own
  <2>1. 1 \in 1 .. Len(list) /\ \A j \in 1 .. Len(list) : j = 1
    BY <1>4
  <2> QED BY <1>4, <2>1
<1>6. TellsChanges(list, inSight, inSight')
  BY <1>3, <1>5, SameSightTells
<1>7. TypesOK' /\ InTurn' /\ ViewMatches' /\ AskedOnce' /\ ShortChains' /\ Handled' = Handled
  <2>1. inSight' \subseteq Entities /\ (inSight' # {} => Own \in inSight') /\ tasks' \subseteq tasks
    BY <1>0, <1>2, <1>3 DEF TypesOK
  <2> QED BY <1>2, <1>3, <1>4, <2>1, SendKeeps
<1>8. StreamTells'
  BY <1>2, <1>4, <1>6, SendTells
<1>9. PredictionAnswered'
  BY <1>2, <1>3, <1>4, <1>5, <1>7, SendKeepsPaths
<1>10. AnsweredOnce'
  <2>1. \A e, n : n # 0 => Causes(stream', 1 .. Len(stream'), e, n)
                             = Causes(stream, 1 .. Len(stream), e, n)
    BY <1>0, <1>2, <1>4, <1>5, SendNoInfo
  <2>2. \A e, n : (TasksFor(e, n))' = TasksFor(e, n)
    BY <1>2 DEF TasksFor
  <2>3. requests' = requests /\ dispatched' = dispatched /\ UseAOI' = UseAOI
    BY <1>3 DEF client
  <2> QED BY <1>0, <2>1, <2>2, <2>3, AnswersStay
<1> QED BY <1>7, <1>8, <1>9, <1>10 DEF Inv

\* NextEntityInfo: nothing, the piece that was asked for, or the last piece three times.
LEMMA InfoSent ==
  ASSUME TypesOK, NEW task \in tasks, NextEntityInfo(task)
  PROVE  /\ task.other \in Entities /\ task.number \in 1 .. 3
         /\ \E list \in Lists :
              /\ Send(list) /\ Len(list) \in {0, IF UseAOI THEN 1 ELSE 3}
              /\ \A j \in 1 .. Len(list) :
                   /\ list[j].type = "ENTITY_INFO" /\ list[j].ObjectId = task.other
                   /\ list[j].InfoNumber = IF UseAOI THEN task.number ELSE 4
<1>1. task.other \in Entities /\ task.number \in 1 .. 3
  <2>1. task.type = "NextEntityInfo" /\ task \in PathTasks \union InfoTasks
    BY DEF NextEntityInfo, TypesOK
  <2>2. task \in InfoTasks
    BY <2>1 DEF PathTasks
  <2> QED BY <2>2 DEF InfoTasks, EntityInfoMax
<1> DEFINE number == IF UseAOI THEN task.number ELSE 4
           info == Message("ENTITY_INFO", task.other, number)
<1>2. number \in 0 .. 4 /\ (UseAOI => number = task.number) /\ (~UseAOI => number = 4)
  BY <1>1
<1> HIDE DEF number
<1>3. info.type = "ENTITY_INFO" /\ info.ObjectId = task.other /\ info.InfoNumber = number
  BY MessageIs
<1>4. info \in Messages
  BY <1>1, <1>2, MessageIs DEF EntityInfoMax
<1>5. Contents(info)
  BY <1>1, <1>2, <1>3 DEF Contents, EntityInfoMax
<1> DEFINE list == IF task.other \notin inSight THEN <<>>
                   ELSE IF UseAOI THEN <<info>> ELSE [i \in 1 .. 3 |-> info]
<1>6. Send(list)
  <2>1. EntityInfoMax = 4 /\ EntityInfoMax - 1 = 3
    BY DEF EntityInfoMax
  <2> QED BY <2>1 DEF NextEntityInfo, number
<1> HIDE DEF info
<1>7. list \in Lists /\ Len(list) \in {0, IF UseAOI THEN 1 ELSE 3}
      /\ \A j \in 1 .. Len(list) : list[j] = info
  <2>1. CASE task.other \notin inSight
    <3>1. list = <<>>
      BY <2>1
    <3> QED BY <3>1 DEF Lists
  <2>2. CASE task.other \in inSight /\ UseAOI
    <3>1. list = <<info>>
      BY <2>2
    <3> HIDE DEF list
    <3>2. list \in Seq(Messages) /\ Len(list) = 1 /\ \A j \in 1 .. 1 : list[j] = info
      BY <1>4, <3>1
    <3> QED BY <1>5, <2>2, <3>2 DEF Lists
  <2>3. CASE task.other \in inSight /\ ~UseAOI
    <3>1. list = [i \in 1 .. 3 |-> info]
      BY <2>3
    <3> HIDE DEF list
    <3>2. list \in Seq(Messages) /\ Len(list) = 3 /\ \A j \in 1 .. 3 : list[j] = info
      BY <1>4, <3>1
    <3> QED BY <1>5, <2>3, <3>2 DEF Lists
  <2> QED BY <2>1, <2>2, <2>3
<1> HIDE DEF list
<1> QED BY <1>1, <1>3, <1>6, <1>7 DEF number

LEMMA NextEntityInfoKeeps ==
  ASSUME Inv, NEW task \in tasks, NextEntityInfo(task)
  PROVE  Inv'
<1>0. TypesOK /\ AnsweredOnce /\ ShortChains
  BY DEF Inv
<1>1. task.other \in Entities /\ task.number \in 1 .. 3
  BY <1>0, InfoSent
<1>2. PICK list \in Lists :
        /\ Send(list) /\ Len(list) \in {0, IF UseAOI THEN 1 ELSE 3}
        /\ \A j \in 1 .. Len(list) :
             /\ list[j].type = "ENTITY_INFO" /\ list[j].ObjectId = task.other
             /\ list[j].InfoNumber = IF UseAOI THEN task.number ELSE 4
  BY <1>0, InfoSent
<1>3. task.type = "NextEntityInfo" /\ tasks' = tasks \ {task}
  BY DEF NextEntityInfo
<1>4. UNCHANGED <<client, UseAOI, inSight, arrived, dispatched, crossed>>
  BY DEF NextEntityInfo
<1>5. TellsChanges(list, inSight, inSight')
  BY <1>2, <1>4, SameSightTells
<1>6. TypesOK' /\ InTurn' /\ ViewMatches' /\ AskedOnce' /\ ShortChains' /\ Handled' = Handled
  <2>1. inSight' \subseteq Entities /\ (inSight' # {} => Own \in inSight') /\ tasks' \subseteq tasks
    BY <1>0, <1>3, <1>4 DEF TypesOK
  <2> QED BY <1>0, <1>2, <1>4, <2>1, SendKeeps
<1>7. StreamTells'
  BY <1>2, <1>5, SendTells
<1>8. PredictionAnswered'
  <2>1. \A other \in tasks : other.type = "PathFind" => other \in tasks'
    BY <1>3
  <2> QED BY <1>2, <1>4, <1>6, <2>1, SendKeepsPaths
<1> DEFINE Sent(e, n) == Cardinality(Causes(stream, 1 .. Len(stream), e, n))
           SentNow(e, n) == Cardinality(Causes(stream', 1 .. Len(stream'), e, n))
           Open(e, n) == Cardinality(TasksFor(e, n))
           OpenNow(e, n) == Cardinality((TasksFor(e, n))')
<1>9. \A e, n : n # 0 =>
        /\ Sent(e, n) \in Nat
        /\ e = task.other /\ n = (IF UseAOI THEN task.number ELSE 4) =>
             SentNow(e, n) = Sent(e, n) + Len(list)
        /\ ~(e = task.other /\ n = (IF UseAOI THEN task.number ELSE 4)) =>
             SentNow(e, n) = Sent(e, n)
  <2> SUFFICES ASSUME NEW e, NEW n, n # 0
               PROVE  /\ Sent(e, n) \in Nat
                      /\ e = task.other /\ n = (IF UseAOI THEN task.number ELSE 4) =>
                           SentNow(e, n) = Sent(e, n) + Len(list)
                      /\ ~(e = task.other /\ n = (IF UseAOI THEN task.number ELSE 4)) =>
                           SentNow(e, n) = Sent(e, n)
    OBVIOUS
  <2>1. Sent(e, n) \in Nat
    <3>1. /\ IsFiniteSet(1 .. Len(stream))
          /\ Causes(stream, 1 .. Len(stream), e, n) \subseteq 1 .. Len(stream)
      BY <1>0, FS_Interval DEF TypesOK, Causes
    <3> QED BY <3>1, FS_Subset, FS_CardinalityType
  <2>2. e = task.other /\ n = (IF UseAOI THEN task.number ELSE 4) =>
          \A j \in 1 .. Len(list) : IsCause(list[j], e, n)
    BY <1>2 DEF IsCause
  <2>3. ~(e = task.other /\ n = (IF UseAOI THEN task.number ELSE 4)) =>
          \A j \in 1 .. Len(list) : ~IsCause(list[j], e, n)
    BY <1>2 DEF IsCause
  <2> QED BY <1>0, <1>2, <2>1, <2>2, <2>3, SendCauses
<1>10. \A e, n :
         /\ Open(e, n) \in Nat
         /\ e = task.other /\ n = task.number => Open(e, n) >= 1 /\ OpenNow(e, n) = Open(e, n) - 1
         /\ ~(e = task.other /\ n = task.number) => OpenNow(e, n) = Open(e, n)
  <2> SUFFICES ASSUME NEW e, NEW n
               PROVE  /\ Open(e, n) \in Nat
                      /\ e = task.other /\ n = task.number =>
                           Open(e, n) >= 1 /\ OpenNow(e, n) = Open(e, n) - 1
                      /\ ~(e = task.other /\ n = task.number) => OpenNow(e, n) = Open(e, n)
    OBVIOUS
  <2>1. IsFiniteSet(TasksFor(e, n)) /\ Open(e, n) \in Nat
    BY <1>0, TasksFinite
  <2>2. (TasksFor(e, n))' = TasksFor(e, n) \ {task}
    BY <1>3 DEF TasksFor
  <2>3. task \in TasksFor(e, n) <=> e = task.other /\ n = task.number
    BY <1>3 DEF TasksFor
  <2>4. OpenNow(e, n) = IF task \in TasksFor(e, n) THEN Open(e, n) - 1 ELSE Open(e, n)
    BY <2>1, <2>2, FS_RemoveElement
  <2>5. task \in TasksFor(e, n) => Open(e, n) >= 1
    <3>1. task \in TasksFor(e, n) => Open(e, n) # 0
      BY <2>1, FS_EmptySet
    <3> QED BY <2>1, <3>1
  <2> QED BY <2>1, <2>3, <2>4, <2>5
<1> HIDE DEF Sent, SentNow, Open, OpenNow
<1>11. AnsweredOnce'
  <2> DEFINE Dealt(e, n) == Cardinality(Asked(requests, e, n) \cap (1 .. dispatched))
  <2>1. \A e \in Entities : \A n : Dealt(e, n) \in Nat
    <3> SUFFICES ASSUME NEW e, NEW n PROVE Dealt(e, n) \in Nat
      OBVIOUS
    <3>1. dispatched \in Nat
      BY <1>0 DEF TypesOK, State, States
    <3>2. /\ IsFiniteSet(1 .. dispatched)
          /\ Asked(requests, e, n) \cap (1 .. dispatched) \subseteq 1 .. dispatched
      BY <3>1, FS_Interval
    <3> QED BY <3>2, FS_Subset, FS_CardinalityType
  <2>2. \A e \in Entities :
          IF UseAOI THEN \A n \in 0 .. 2 : Sent(e, n + 1) + Open(e, n + 1) <= Dealt(e, n)
          ELSE Sent(e, 4) + 3 * Open(e, 1) <= 3 * Dealt(e, 0)
    <3>1. EntityInfoMax = 4 /\ EntityInfoMax - 2 = 2 /\ EntityInfoMax - 1 = 3
      BY DEF EntityInfoMax
    <3> QED BY <1>0, <3>1 DEF AnsweredOnce, Sent, Open
  <2> HIDE DEF Dealt
  <2>3. ASSUME NEW e \in Entities, UseAOI, NEW n \in 0 .. 2
        PROVE  SentNow(e, n + 1) + OpenNow(e, n + 1) <= Dealt(e, n)
    <3>1. n + 1 # 0 /\ Sent(e, n + 1) \in Nat /\ Open(e, n + 1) \in Nat /\ Dealt(e, n) \in Nat
      BY <1>9, <1>10, <2>1, <2>3
    <3>2. Sent(e, n + 1) + Open(e, n + 1) <= Dealt(e, n)
      BY <2>2, <2>3
    <3>3. CASE e = task.other /\ n + 1 = task.number
      <4>1. /\ SentNow(e, n + 1) = Sent(e, n + 1) + Len(list)
            /\ OpenNow(e, n + 1) = Open(e, n + 1) - 1 /\ Len(list) \in {0, 1}
        BY <1>2, <1>9, <1>10, <2>3, <3>1, <3>3
      <4> DEFINE s == Sent(e, n + 1)  o == Open(e, n + 1)  r == Dealt(e, n)  l == Len(list)
      <4>2. s \in Nat /\ o \in Nat /\ r \in Nat /\ s + o <= r /\ (l = 0 \/ l = 1)
        BY <3>1, <3>2, <4>1
      <4> HIDE DEF s, o, r, l
      <4>3. (s + l) + (o - 1) <= r
        BY <4>2
      <4> QED BY <4>1, <4>3 DEF s, o, r, l
    <3>4. CASE ~(e = task.other /\ n + 1 = task.number)
      <4>1. SentNow(e, n + 1) = Sent(e, n + 1) /\ OpenNow(e, n + 1) = Open(e, n + 1)
        BY <1>9, <1>10, <2>3, <3>1, <3>4
      <4> QED BY <3>2, <4>1
    <3> QED BY <3>3, <3>4
  <2>4. ASSUME NEW e \in Entities, ~UseAOI
        PROVE  SentNow(e, 4) + 3 * OpenNow(e, 1) <= 3 * Dealt(e, 0)
    <3>1. Sent(e, 4) \in Nat /\ Open(e, 1) \in Nat /\ Dealt(e, 0) \in Nat
      BY <1>9, <1>10, <2>1
    <3>2. Sent(e, 4) + 3 * Open(e, 1) <= 3 * Dealt(e, 0)
      BY <2>2, <2>4
    <3>3. task.number = 1
      BY <1>0, <1>3, <2>4 DEF ShortChains
    <3>4. CASE e = task.other
      <4>1. /\ SentNow(e, 4) = Sent(e, 4) + Len(list) /\ OpenNow(e, 1) = Open(e, 1) - 1
            /\ Len(list) \in {0, 3}
        BY <1>2, <1>9, <1>10, <2>4, <3>3, <3>4
      <4> DEFINE s == Sent(e, 4)  o == Open(e, 1)  r == Dealt(e, 0)  l == Len(list)
      <4>2. s \in Nat /\ o \in Nat /\ r \in Nat /\ s + 3 * o <= 3 * r /\ (l = 0 \/ l = 3)
        BY <3>1, <3>2, <4>1
      <4> HIDE DEF s, o, r, l
      <4>3. (s + l) + 3 * (o - 1) <= 3 * r
        BY <4>2
      <4> QED BY <4>1, <4>3 DEF s, o, r, l
    <3>5. CASE e # task.other
      <4>1. SentNow(e, 4) = Sent(e, 4) /\ OpenNow(e, 1) = Open(e, 1)
        BY <1>9, <1>10, <3>5
      <4> QED BY <3>2, <4>1
    <3> QED BY <3>4, <3>5
  <2>5. requests' = requests /\ dispatched' = dispatched /\ UseAOI' = UseAOI
    BY <1>4 DEF client
  <2>6. EntityInfoMax = 4 /\ EntityInfoMax - 2 = 2 /\ EntityInfoMax - 1 = 3
    BY DEF EntityInfoMax
  <2>7. \A e \in Entities :
          IF UseAOI' THEN \A n \in 0 .. EntityInfoMax - 2 :
                 SentNow(e, n + 1) + OpenNow(e, n + 1)
                   <= Cardinality(Asked(requests', e, n) \cap (1 .. dispatched'))
          ELSE SentNow(e, EntityInfoMax) + (EntityInfoMax - 1) * OpenNow(e, 1)
                 <= (EntityInfoMax - 1) * Cardinality(Asked(requests', e, 0) \cap (1 .. dispatched'))
    BY <2>3, <2>4, <2>5, <2>6 DEF Dealt
  <2> QED BY <2>7 DEF AnsweredOnce, SentNow, OpenNow
<1> QED BY <1>6, <1>7, <1>8, <1>11 DEF Inv

-----------------------------------------------------------------------------
(* The theorems. *)

LEMMA InitHolds == Init => Inv
<1> SUFFICES ASSUME Init PROVE Inv
  OBVIOUS
<1>1. /\ mRecvMessages = {} /\ mLocalEntityId = 0 /\ mEntitys = [e \in {} |-> None]
      /\ requests = <<>> /\ infos = {}
      /\ UseAOI \in BOOLEAN /\ inSight = {} /\ stream = <<>> /\ arrived = 0
      /\ dispatched = 0 /\ tasks = {}
  BY DEF Init, ClientInit
<1>2. Len(stream) = 0 /\ stream \in Seq(Messages) /\ Len(requests) = 0
      /\ requests \in Seq(InfoRequests \union PathRequests)
      /\ 1 .. 0 = {} /\ 0 \in 0 .. 0 /\ DOMAIN mEntitys = {}
  BY <1>1
<1>3. TypesOK
  <2>1. State.local = mLocalEntityId /\ State.shown = mEntitys /\ State.out = requests
        /\ State.got = infos
        /\ State = [local |-> mLocalEntityId, shown |-> mEntitys, out |-> requests, got |-> infos]
    BY DEF State
  <2>2. mEntitys \in Views(Len(stream))
    <3>1. /\ Len(stream) \in Nat /\ DOMAIN mEntitys \subseteq Entities
          /\ mEntitys = [d \in DOMAIN mEntitys |-> mEntitys[d]]
          /\ \A d \in DOMAIN mEntitys : mEntitys[d] \in {None, Predicted} \union (1 .. Len(stream))
      BY <1>1, <1>2
    <3> QED BY <3>1, ViewIs
  <2>3. State \in States(Len(stream))
    BY <1>1, <1>2, <2>1, <2>2 DEF States
  <2> QED BY <1>1, <1>2, <2>3 DEF TypesOK
<1>4. Handled = {}
  BY <1>1, <1>2 DEF Handled
<1>5. StreamTells
  BY <1>1, <1>2 DEF StreamTells, ToldBy
<1>6. InTurn
  BY <1>1 DEF InTurn
<1>7. ViewMatches
  BY <1>2, <1>4 DEF ViewMatches, Matches, ToldBy
<1>8. PredictionAnswered
  BY <1>2 DEF PredictionAnswered, Predicts
<1>9. \A e, n : /\ Asked(requests, e, n) = {} /\ Causes(stream, {}, e, n) = {}
                /\ Causes(stream, 1 .. Len(stream), e, n) = {} /\ TasksFor(e, n) = {}
                /\ Asked(requests, e, n) \cap (1 .. dispatched) = {}
  BY <1>1, <1>2 DEF Asked, Causes, TasksFor
<1>10. Cardinality({}) = 0 /\ EntityInfoMax = 4
  BY FS_EmptySet DEF EntityInfoMax
<1>11. AskedOnce
  BY <1>4, <1>9, <1>10 DEF AskedOnce
<1>12. AnsweredOnce
  <2>1. 0 + 0 <= 0 /\ 0 + (EntityInfoMax - 1) * 0 <= (EntityInfoMax - 1) * 0
    BY <1>10
  <2> QED BY <1>9, <1>10, <2>1 DEF AnsweredOnce
<1>13. ShortChains
  BY <1>1, <1>2 DEF ShortChains
<1> QED BY <1>3, <1>5, <1>6, <1>7, <1>8, <1>11, <1>12, <1>13 DEF Inv

LEMMA StutterKeeps ==
  ASSUME Inv, UNCHANGED vars
  PROVE  Inv'
<1>1. /\ UNCHANGED client /\ UseAOI' = UseAOI /\ inSight' = inSight /\ stream' = stream
      /\ arrived' = arrived /\ dispatched' = dispatched /\ tasks' = tasks /\ crossed' = crossed
  BY DEF vars
<1>2. /\ mRecvMessages' = mRecvMessages /\ mLocalEntityId' = mLocalEntityId
      /\ mEntitys' = mEntitys /\ requests' = requests /\ infos' = infos
  BY <1>1 DEF client
<1>3. Handled' = Handled /\ State' = State /\ \A e, n : (TasksFor(e, n))' = TasksFor(e, n)
  BY <1>1, <1>2 DEF Handled, State, TasksFor
<1>4. TypesOK'
  BY <1>1, <1>2, <1>3 DEF Inv, TypesOK, States, Views, Contents
<1>5. StreamTells' /\ InTurn'
  BY <1>1, <1>2 DEF Inv, StreamTells, InTurn, IsAbout, AboutSight
<1>6. ViewMatches'
  BY <1>1, <1>2, <1>3 DEF Inv, ViewMatches
<1>7. PredictionAnswered'
  BY <1>1, <1>2, <1>3 DEF Inv, PredictionAnswered, PathComes
<1>8. AskedOnce'
  BY <1>1, <1>2, <1>3 DEF Inv, AskedOnce
<1>9. AnsweredOnce'
  BY <1>1, <1>2, <1>3, AnswersStay DEF Inv
<1>10. ShortChains'
  BY <1>1, <1>2 DEF Inv, ShortChains
<1> QED BY <1>4, <1>5, <1>6, <1>7, <1>8, <1>9, <1>10 DEF Inv

LEMMA NextKeeps ==
  ASSUME Inv, Next
  PROVE  Inv'
<1>1. CASE EnterWorld \/ Update
  BY <1>1, SightKeeps
<1>2. CASE Dispatch
  BY <1>2, DispatchKeeps
<1>3. ASSUME NEW task \in tasks, PathFind(task) PROVE Inv'
  BY <1>3, PathFindKeeps
<1>4. ASSUME NEW task \in tasks, NextEntityInfo(task) PROVE Inv'
  BY <1>4, NextEntityInfoKeeps
<1>5. CASE Read
  BY <1>5, ReadKeeps
<1>6. CASE Poll
  BY <1>6, PollKeeps
<1>7. CASE Walk
  BY <1>7, WalkKeeps
<1> QED BY <1>1, <1>2, <1>3, <1>4, <1>5, <1>6, <1>7 DEF Next

\* The inductive invariant: what the server told, what the client made of it,
\* and what of both is under way.
THEOREM ClientInv == Spec => []Inv
<1>1. Init => Inv
  BY InitHolds
<1>2. Inv /\ [Next]_vars => Inv'
  BY NextKeeps, StutterKeeps
<1> QED BY <1>1, <1>2, PTL DEF Spec

\* Whatever order PollMessage (Client/Network.cpp:80-103) handles messages in,
\* what the handlers keep is well-formed: every path the client follows has been
\* sent, and its own entity, once known, is one it shows.
THEOREM ClientTypes == Spec => []TypeOK
<1>1. Inv => TypeOK
  <2> SUFFICES ASSUME Inv PROVE TypeOK
    OBVIOUS
  <2>0. TypesOK
    BY DEF Inv
  <2>1. /\ State \in States(Len(stream)) /\ stream \in Seq(Messages) /\ Len(stream) \in Nat
        /\ arrived \in 0 .. Len(stream) /\ dispatched \in 0 .. Len(requests)
        /\ inSight = {} \/ Own \in inSight
    BY <2>0 DEF TypesOK
  <2>2. /\ mLocalEntityId \in {0, Own} /\ mLocalEntityId \in {0} \union DOMAIN mEntitys
        /\ mEntitys \in Views(Len(stream)) /\ infos \subseteq Entities \X (1 .. EntityInfoMax)
    BY <2>1 DEF States, State
  <2>3. /\ DOMAIN mEntitys \subseteq Entities
        /\ \A e \in DOMAIN mEntitys : mEntitys[e] \in {None, Predicted} \union (1 .. Len(stream))
    BY <2>1, <2>2, ViewIs
  <2>4. mRecvMessages \subseteq Range(stream)
    <3>1. \A i \in 1 .. arrived : i \in DOMAIN stream
      BY <2>1
    <3> QED BY <2>0, <3>1 DEF TypesOK, Range
  <2> QED BY <2>1, <2>2, <2>3, <2>4 DEF TypeOK
<1> QED BY <1>1, ClientInv, PTL

\* LastOf is the last one, if there is one.
LEMMA LastIs ==
  ASSUME TypesOK, NEW e, NEW types
  PROVE  /\ LastOf(e, types) \in 0 .. arrived
         /\ LastOf(e, types) # 0 =>
              /\ LastOf(e, types) \in 1 .. arrived
              /\ stream[LastOf(e, types)].ObjectId = e /\ stream[LastOf(e, types)].type \in types
         /\ \A i \in 1 .. arrived :
              stream[i].ObjectId = e /\ stream[i].type \in types => i <= LastOf(e, types)
<1> DEFINE serials == {i \in 1 .. arrived : stream[i].ObjectId = e /\ stream[i].type \in types}
           last == LastOf(e, types)
<1>1. last = IF serials = {} THEN 0 ELSE Max(serials)
  BY DEF LastOf
<1>2. arrived \in Nat
  BY DEF TypesOK
<1>3. serials \subseteq 1 .. arrived
  OBVIOUS
<1>4. CASE serials = {}
  BY <1>1, <1>2, <1>4
<1>5. CASE serials # {}
  <2> HIDE DEF serials
  <2> DEFINE back == {arrived - i : i \in serials}
  <2>1. back \subseteq Nat /\ back # {}
    <3>1. \A i \in serials : arrived - i \in Nat
      <4> SUFFICES ASSUME NEW i \in serials PROVE arrived - i \in Nat
        OBVIOUS
      <4>1. i \in 1 .. arrived
        BY <1>3
      <4> QED BY <1>2, <4>1
    <3>2. PICK i \in serials : TRUE
      BY <1>5
    <3> QED BY <3>1, <3>2
  <2>2. PICK n \in back : \A m \in back : n <= m
    <3> HIDE DEF back
    <3> QED BY <2>1, LeastElement
  <2>3. PICK k \in serials : n = arrived - k
    BY <2>2
  <2>4. \A i \in serials : k >= i
    <3> SUFFICES ASSUME NEW i \in serials PROVE k >= i
      OBVIOUS
    <3>1. arrived - k <= arrived - i
      BY <2>2, <2>3
    <3>2. i \in 1 .. arrived /\ k \in 1 .. arrived
      BY <1>3
    <3> QED BY <1>2, <3>1, <3>2
  <2>5. Max(serials) \in serials /\ \A i \in serials : Max(serials) >= i
    BY <2>4 DEF Max
  <2>6. last \in serials /\ \A i \in serials : last >= i
    BY <1>1, <1>5, <2>5
  <2> HIDE DEF last
  <2>7. last \in 1 .. arrived /\ stream[last].ObjectId = e /\ stream[last].type \in types
    BY <2>6 DEF serials
  <2>8. \A i \in serials : i <= last
    <3>1. \A i \in serials : i \in Nat
      BY <1>2, <1>3
    <3> QED BY <1>2, <2>6, <2>7, <3>1
  <2>9. last \in 0 .. arrived
    BY <1>2, <2>7
  <2> QED BY <2>7, <2>8, <2>9 DEF last, serials
<1> QED BY <1>4, <1>5

\* What the last messages say is what all of them say.
LEMMA ToldIs ==
  ASSUME TypesOK, NEW e
  PROVE  /\ Told(e) <=> ToldBy(stream, 1 .. arrived, e)
         /\ \A path : PathBy(stream, 1 .. arrived, e, path) => path = ToldPath(e)
<1> DEFINE A == Appeared(e)
           D == Disappeared(e)
           P == LastOf(e, {"PATH_FINDING"})
<1>1. arrived \in Nat
  BY DEF TypesOK
<1>2. /\ A \in 0 .. arrived
      /\ A # 0 => A \in 1 .. arrived /\ Appears(stream, A, e)
      /\ \A i \in 1 .. arrived : Appears(stream, i, e) => i <= A
  BY LastIs DEF Appeared, Appears
<1>3. /\ D \in 0 .. arrived
      /\ D # 0 => D \in 1 .. arrived /\ Disappears(stream, D, e)
      /\ \A i \in 1 .. arrived : Disappears(stream, i, e) => i <= D
  BY LastIs DEF Disappeared, Disappears
<1>4. /\ P \in 0 .. arrived
      /\ P # 0 => P \in 1 .. arrived /\ Walks(stream, P, e)
      /\ \A i \in 1 .. arrived : Walks(stream, i, e) => i <= P
  BY LastIs DEF Walks
<1>5. \A i : /\ ~(Appears(stream, i, e) /\ Disappears(stream, i, e))
             /\ ~(Appears(stream, i, e) /\ Walks(stream, i, e))
  BY DEF Appears, Disappears, Walks
<1>6. (Told(e) <=> A > D) /\ ToldPath(e) = IF P > A THEN P ELSE None
  BY DEF Told, ToldPath
<1> HIDE DEF A, D, P
<1>7. ASSUME A > D PROVE ToldBy(stream, 1 .. arrived, e)
  <2>1. A \in 1 .. arrived /\ Appears(stream, A, e)
    BY <1>2, <1>3, <1>7
  <2>2. \A j \in 1 .. arrived : j > A => ~Disappears(stream, j, e)
    <3> SUFFICES ASSUME NEW j \in 1 .. arrived, j > A, Disappears(stream, j, e) PROVE FALSE
      OBVIOUS
    <3>1. j <= D /\ j \in Nat /\ A \in Nat /\ D \in Nat
      BY <1>1, <1>2, <1>3
    <3> QED BY <1>7, <3>1
  <2> QED BY <2>1, <2>2 DEF ToldBy
<1>8. ASSUME ToldBy(stream, 1 .. arrived, e) PROVE A > D
  <2>1. PICK i \in 1 .. arrived :
          Appears(stream, i, e) /\ \A j \in 1 .. arrived : j > i => ~Disappears(stream, j, e)
    BY <1>8 DEF ToldBy
  <2>2. i <= A /\ i \in Nat /\ A \in Nat /\ D \in Nat /\ i > 0
    BY <1>1, <1>2, <1>3, <2>1
  <2>3. D < i
    <3>1. CASE D = 0
      BY <2>2, <3>1
    <3>2. CASE D # 0
      <4>1. ~(D > i) /\ D # i
        BY <1>3, <1>5, <2>1, <3>2
      <4> QED BY <2>2, <4>1
    <3> QED BY <3>1, <3>2
  <2> QED BY <2>2, <2>3
<1>9. ASSUME NEW path, PathBy(stream, 1 .. arrived, e, path) PROVE path = IF P > A THEN P ELSE None
  <2>1. CASE path = None /\ \A i \in 1 .. arrived : Walks(stream, i, e) =>
               \E j \in 1 .. arrived : j > i /\ Appears(stream, j, e)
    <3>1. CASE P = 0
      BY <1>1, <1>2, <2>1, <3>1
    <3>2. CASE P # 0
      <4>1. PICK j \in 1 .. arrived : j > P /\ Appears(stream, j, e)
        BY <1>4, <2>1, <3>2
      <4>2. j <= A /\ j \in Nat /\ P \in Nat /\ A \in Nat
        BY <1>1, <1>2, <1>4, <4>1
      <4> QED BY <2>1, <4>1, <4>2
    <3> QED BY <3>1, <3>2
  <2>2. CASE /\ path \in 1 .. arrived /\ Walks(stream, path, e)
             /\ \A i \in 1 .. arrived : i > path => ~Walks(stream, i, e) /\ ~Appears(stream, i, e)
    <3>1. path <= P /\ path \in Nat /\ P \in Nat /\ A \in Nat /\ path > 0
      BY <1>1, <1>2, <1>4, <2>2
    <3>2. ~(P > path)
      BY <1>4, <2>2, <3>1
    <3>3. P = path
      BY <3>1, <3>2
    <3>4. A < path
      <4>1. CASE A = 0
        BY <3>1, <4>1
      <4>2. CASE A # 0
        <5>1. ~(A > path) /\ A # path
          BY <1>2, <1>5, <2>2, <4>2
        <5> QED BY <3>1, <5>1
      <4> QED BY <4>1, <4>2
    <3> QED BY <3>1, <3>3, <3>4
  <2> QED BY <1>9, <2>1, <2>2 DEF PathBy
<1> QED BY <1>6, <1>7, <1>8, <1>9

LEMMA AllHandled ==
  ASSUME TypesOK, mRecvMessages = {}
  PROVE  Handled = 1 .. arrived
  BY DEF Handled

\* That PollMessage takes messages out of an unordered_set (Client/Network.cpp:92)
\* does no harm to entities of which never two messages waited in it together:
\* they are shown as the stream tells, on the last path it told.
THEOREM TellingIsShown == Spec => []ShowsWhatItWasTold
<1>1. Inv => ShowsWhatItWasTold
  <2> SUFFICES ASSUME Inv, mRecvMessages = {}, NEW e \in Entities \ crossed
               PROVE  /\ e \in DOMAIN mEntitys <=> Told(e)
                      /\ e \in DOMAIN mEntitys =>
                           mEntitys[e] = ToldPath(e) \/ (e = Own /\ mEntitys[e] = Predicted)
    BY DEF ShowsWhatItWasTold
  <2>1. TypesOK /\ Matches(stream, mEntitys, Handled, e)
    BY DEF Inv, ViewMatches
  <2>2. Matches(stream, mEntitys, 1 .. arrived, e)
    BY <2>1, AllHandled
  <2> QED BY <2>1, <2>2, ToldIs DEF Matches
<1> QED BY <1>1, ClientInv, PTL

\* With everything handled, the client shows who is in sight of its entity in
\* World::Update on the server, of the same entities.
THEOREM SightIsShown == Spec => []ShowsSight
<1>1. Inv => ShowsSight
  <2> SUFFICES ASSUME Inv, mRecvMessages = {}, arrived = Len(stream), NEW e \in Entities \ crossed
               PROVE  e \in DOMAIN mEntitys <=> e \in inSight
    BY DEF ShowsSight
  <2>1. TypesOK /\ Matches(stream, mEntitys, Handled, e)
    BY DEF Inv, ViewMatches
  <2>2. Matches(stream, mEntitys, 1 .. Len(stream), e)
    BY <2>1, AllHandled
  <2>3. ToldBy(stream, 1 .. Len(stream), e) <=> e \in inSight
    BY DEF Inv, StreamTells
  <2> QED BY <2>2, <2>3 DEF Matches
<1> QED BY <1>1, ClientInv, PTL

\* A click is answered by a path of the server, which is handled after it: the
\* prediction of HandleEvents does not stay.
THEOREM PredictionsSettle == Spec => []PredictionSettles
<1>1. Inv => PredictionSettles
  <2> SUFFICES ASSUME Inv, mRecvMessages = {}, arrived = Len(stream),
                      dispatched = Len(requests), tasks = {}
               PROVE  ~PathComes
    BY DEF Inv, PredictionAnswered, PredictionSettles, Predicts
  <2>1. TypesOK /\ Len(requests) \in Nat
    BY DEF Inv, TypesOK, State, States
  <2>2. Handled = 1 .. Len(stream)
    BY <2>1, AllHandled
  <2>3. dispatched + 1 .. Len(requests) = {}
    BY <2>1
  <2> QED BY <2>2, <2>3 DEF PathComes
<1> QED BY <1>1, ClientInv, PTL

LEMMA UnionBound ==
  ASSUME NEW S, NEW T, IsFiniteSet(S), IsFiniteSet(T)
  PROVE  /\ IsFiniteSet(S \union T) /\ Cardinality(S \union T) \in Nat
         /\ Cardinality(S \union T) <= Cardinality(S) + Cardinality(T)
<1>1. /\ IsFiniteSet(S \union T) /\ IsFiniteSet(S \cap T)
      /\ Cardinality(S \union T) = Cardinality(S) + Cardinality(T) - Cardinality(S \cap T)
  BY FS_Union, FS_Intersection
<1>2. /\ Cardinality(S) \in Nat /\ Cardinality(T) \in Nat /\ Cardinality(S \cap T) \in Nat
      /\ Cardinality(S \union T) \in Nat
  BY <1>1, FS_CardinalityType
<1> DEFINE s == Cardinality(S)  t == Cardinality(T)
           u == Cardinality(S \union T)  b == Cardinality(S \cap T)
<1>3. s \in Nat /\ t \in Nat /\ u \in Nat /\ b \in Nat /\ u = s + t - b
  BY <1>1, <1>2
<1> HIDE DEF s, t, u, b
<1>4. u <= s + t
  BY <1>3
<1> QED BY <1>1, <1>2, <1>4 DEF s, t, u

\* Every request (ClientMessageHandler.cpp:35, 69) and every answer to it
\* (Server/World.cpp:177-210) goes back to an appearance of the entity, so at most
\* three pieces of information are sent for each.
THEOREM ChainsAreFinite == Spec => []ChainsEnd
<1>1. Inv => ChainsEnd
  <2> SUFFICES ASSUME Inv, NEW e \in Others
               PROVE  HowMany("ENTITY_INFO", e) <= (EntityInfoMax - 1) * HowMany("APPEAR_ENTITY", e)
    BY DEF ChainsEnd
  <2>0. TypesOK /\ AskedOnce /\ AnsweredOnce /\ e \in Entities
    BY DEF Inv, Others
  <2> DEFINE all == 1 .. Len(stream)
             C(n) == Causes(stream, all, e, n)
             N(n) == Cardinality(C(n))
             pieces == {i \in DOMAIN stream :
                         stream[i].type = "ENTITY_INFO" /\ stream[i].ObjectId = e}
             first == {i \in DOMAIN stream :
                        stream[i].type = "APPEAR_ENTITY" /\ stream[i].ObjectId = e}
  <2>1. /\ IsFiniteSet(all) /\ DOMAIN stream = all /\ Handled \subseteq all /\ dispatched \in Nat
        /\ requests \in Seq(InfoRequests \union PathRequests) /\ EntityInfoMax = 4
    BY <2>0, FS_Interval DEF TypesOK, Handled, State, States, EntityInfoMax
  <2>2. \A n : IsFiniteSet(C(n)) /\ N(n) \in Nat
    <3> SUFFICES ASSUME NEW n PROVE IsFiniteSet(C(n)) /\ N(n) \in Nat
      OBVIOUS
    <3>1. C(n) \subseteq all
      BY DEF Causes
    <3> QED BY <2>1, <3>1, FS_Subset, FS_CardinalityType
  <2>3. ASSUME NEW n \in 0 .. 3
        PROVE  /\ Cardinality(Asked(requests, e, n) \cap (1 .. dispatched)) \in Nat
               /\ Cardinality(Asked(requests, e, n) \cap (1 .. dispatched)) <= N(n)
    <3> DEFINE asked == Asked(requests, e, n)
               read == asked \cap (1 .. dispatched)
               causes == Causes(stream, Handled, e, n)
    <3>1. IsFiniteSet(asked) /\ read \subseteq asked
      BY <2>1, AskedMore
    <3>2. causes \subseteq C(n)
      BY <2>1 DEF Causes
    <3>3. Cardinality(asked) <= Cardinality(causes)
      BY <2>0, <2>1 DEF AskedOnce
    <3> HIDE DEF asked, read, causes, C
    <3>4. /\ IsFiniteSet(read) /\ Cardinality(read) \in Nat /\ Cardinality(asked) \in Nat
          /\ Cardinality(read) <= Cardinality(asked)
      BY <3>1, FS_Subset, FS_CardinalityType
    <3>5. IsFiniteSet(causes) /\ Cardinality(causes) \in Nat /\ Cardinality(causes) <= N(n)
      BY <2>2, <3>2, FS_Subset, FS_CardinalityType
    <3>6. Cardinality(read) <= N(n)
      BY <2>2, <3>3, <3>4, <3>5
    <3> QED BY <3>4, <3>6 DEF read, asked
  <2>4. HowMany("APPEAR_ENTITY", e) = N(0)
    <3>1. first = C(0)
      BY <2>1 DEF Causes, IsCause
    <3> QED BY <3>1 DEF HowMany
  <2>5. HowMany("ENTITY_INFO", e) = Cardinality(pieces)
    BY DEF HowMany
  <2>6. CASE UseAOI
    <3>1. pieces = (C(1) \union C(2)) \union C(3)
      <4>1. \A i \in all : stream[i].type = "ENTITY_INFO" => stream[i].InfoNumber \in {1, 2, 3}
        BY <2>0, <2>1, <2>6 DEF TypesOK, Contents
      <4> QED BY <2>1, <4>1 DEF Causes, IsCause
    <3>2. \A n \in 0 .. 2 : N(n + 1) <= N(n)
      <4> SUFFICES ASSUME NEW n \in 0 .. 2 PROVE N(n + 1) <= N(n)
        OBVIOUS
      <4> DEFINE read == Cardinality(Asked(requests, e, n) \cap (1 .. dispatched))
                 open == Cardinality(TasksFor(e, n + 1))
      <4>1. N(n + 1) + open <= read
        <5>1. n \in 0 .. EntityInfoMax - 2
          BY <2>1
        <5> QED BY <2>0, <2>6, <5>1 DEF AnsweredOnce
      <4>2. n \in 0 .. 3
        OBVIOUS
      <4>3. open \in Nat /\ read \in Nat /\ read <= N(n)
        BY <2>0, <2>3, <4>2, TasksFinite
      <4>4. N(n + 1) \in Nat /\ N(n) \in Nat
        BY <2>2
      <4> HIDE DEF N, C, read, open
      <4> QED BY <4>1, <4>3, <4>4
    <3> HIDE DEF C
    <3>3. N(1) <= N(0) /\ N(2) <= N(1) /\ N(3) <= N(2)
      <4>1. 0 + 1 = 1 /\ 1 + 1 = 2 /\ 2 + 1 = 3 /\ 0 \in 0 .. 2 /\ 1 \in 0 .. 2 /\ 2 \in 0 .. 2
        OBVIOUS
      <4> QED BY <3>2, <4>1
    <3>4. /\ IsFiniteSet(C(1) \union C(2)) /\ Cardinality(C(1) \union C(2)) \in Nat
          /\ Cardinality(C(1) \union C(2)) <= N(1) + N(2)
      BY <2>2, UnionBound
    <3>5. Cardinality((C(1) \union C(2)) \union C(3)) <= Cardinality(C(1) \union C(2)) + N(3)
      BY <2>2, <3>4, UnionBound
    <3>6. Cardinality(pieces) <= Cardinality(C(1) \union C(2)) + N(3)
      BY <3>1, <3>5
    <3>7. Cardinality(pieces) \in Nat
      BY <2>2, <3>1, <3>4, UnionBound
    <3> DEFINE a == Cardinality(pieces)  b == Cardinality(C(1) \union C(2))
               n0 == N(0)  n1 == N(1)  n2 == N(2)  n3 == N(3)
    <3>8. /\ a \in Nat /\ b \in Nat /\ n0 \in Nat /\ n1 \in Nat /\ n2 \in Nat /\ n3 \in Nat
          /\ a <= b + n3 /\ b <= n1 + n2 /\ n1 <= n0 /\ n2 <= n1 /\ n3 <= n2
      BY <2>2, <3>3, <3>4, <3>6, <3>7
    <3> HIDE DEF a, b, n0, n1, n2, n3
    <3>9. a <= 3 * n0
      BY <3>8
    <3>10. EntityInfoMax - 1 = 3
      BY <2>1
    <3> QED BY <2>4, <2>5, <3>9, <3>10 DEF a, n0
  <2>7. CASE ~UseAOI
    <3>1. pieces = C(4)
      <4>1. \A i \in all : stream[i].type = "ENTITY_INFO" => stream[i].InfoNumber = 4
        BY <2>0, <2>1, <2>7 DEF TypesOK, Contents
      <4> QED BY <2>1, <4>1 DEF Causes, IsCause
    <3> DEFINE read == Cardinality(Asked(requests, e, 0) \cap (1 .. dispatched))
               open == Cardinality(TasksFor(e, 1))
               n0 == N(0)
               n4 == N(4)
    <3>2. n4 + 3 * open <= 3 * read
      <4>1. EntityInfoMax - 1 = 3
        BY <2>1
      <4> QED BY <2>0, <2>1, <2>7, <4>1 DEF AnsweredOnce
    <3>3. open \in Nat /\ read \in Nat /\ n0 \in Nat /\ n4 \in Nat /\ read <= n0
      BY <2>0, <2>2, <2>3, TasksFinite
    <3> HIDE DEF read, open, n0, n4
    <3>4. n4 <= 3 * n0
      BY <3>2, <3>3
    <3>5. EntityInfoMax - 1 = 3
      BY <2>1
    <3> QED BY <2>4, <2>5, <3>1, <3>4, <3>5 DEF n0, n4
  <2> QED BY <2>6, <2>7
<1> QED BY <1>1, ClientInv, PTL
=============================================================================
