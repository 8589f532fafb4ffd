--------------------------- MODULE NetworkProofs ----------------------------
(***************************************************************************)
(* The invariants of Network, for any number of connections and messages.  *)
(***************************************************************************)
EXTENDS Network, SequenceTheorems, TLAPS

\* The session being accepted is one that will be; a session the game thread
\* does not know has nothing queued, and one that failed keeps what it has.
OwnQueues ==
  /\ accept # "idle" => SESSION_ID \in Sessions
  /\ \A s \in Sessions \ Known : mWriteQueue[s] = <<>>
  /\ \A s \in broken : s \in Known /\ mWriteQueue[s] # <<>>

Inv == TypeOK /\ StreamIntact /\ OneWrite /\ OwnQueues

-----------------------------------------------------------------------------
(* Sequences. *)

\* What Session::Write does to the stream of a session.
LEMMA ConcatAppend ==
  ASSUME NEW S, NEW w \in Seq(S), NEW q \in Seq(S), NEW m \in S
  PROVE  w \o Append(q, m) = Append(w \o q, m)
  OBVIOUS

\* What a finished write does to it.
LEMMA ConcatTail ==
  ASSUME NEW S, NEW w \in Seq(S), NEW q \in Seq(S), q # <<>>
  PROVE  Append(w, q[1]) \o Tail(q) = w \o q
  OBVIOUS

\* The head of a sequence that is not empty, and of one with an element appended.
LEMMA Heads ==
  ASSUME NEW S, NEW q \in Seq(S), NEW m \in S
  PROVE  /\ q # <<>> => q[1] \in S /\ Tail(q) \in Seq(S)
         /\ Append(q, m) \in Seq(S) /\ Append(q, m) # <<>>
         /\ q # <<>> => Append(q, m)[1] = q[1]
         /\ q = <<>> => Append(q, m)[1] = m
         /\ Append(<<>>, m) = <<m>>
PROOF
<1>1. q # <<>> => q[1] \in S /\ Tail(q) \in Seq(S)
  OBVIOUS
<1>2. Append(q, m) \in Seq(S) /\ Append(q, m) # <<>>
  BY AppendProperties
<1>3. /\ q # <<>> => Append(q, m)[1] = q[1]
      /\ q = <<>> => Append(q, m)[1] = m
  OBVIOUS
<1>4. Append(<<>>, m) = <<m>>
  OBVIOUS
<1> QED
  BY <1>1, <1>2, <1>3, <1>4

-----------------------------------------------------------------------------
(* The actions. *)

LEMMA InitInv == Init => Inv
PROOF
<1> SUFFICES ASSUME Init PROVE Inv
  OBVIOUS
<1>1. 1 .. 1 - 1 = {} /\ 1 \in 1 .. NumSessions + 1 /\ 0 \in Numbers
  BY NetworkAssumption DEF Numbers
<1>2. <<>> \in Seq(Numbers) /\ <<>> \o <<>> = <<>>
  BY EmptySeq, ConcatEmptySeq
<1>3. TypeOK
  <2>1. [s \in Sessions |-> <<>>] \in [Sessions -> Seq(Numbers)]
    BY <1>2
  <2> QED
    BY <2>1, <1>1 DEF Init, TypeOK
<1>4. StreamIntact
  BY <1>2 DEF Init, StreamIntact
<1>5. OneWrite /\ OwnQueues
  BY DEF Init, OneWrite, OwnQueues
<1> QED
  BY <1>3, <1>4, <1>5 DEF Inv

\* What a lookup finds is a session that the game thread knows.
LEMMA FoundKnown ==
  ASSUME Inv, NEW ids \in SUBSET Known, NEW found \in Found(ids)
  PROVE  found \in SUBSET Known /\ Known \in SUBSET Sessions
PROOF
<1>1. found \subseteq ids
  BY DEF Found
<1>2. Known \subseteq Sessions
  BY NetworkAssumption DEF Inv, TypeOK, OwnQueues, Known, Sessions
<1> QED
  BY <1>1, <1>2

\* Session::Write, however many sessions it is called for, keeps the invariant.
LEMMA WriteInv ==
  ASSUME Inv, ~crashed, NEW S \in SUBSET Known, Known \in SUBSET Sessions,
         NEW message \in [S -> Numbers], Write(S, message),
         built' \in Numbers,
         UNCHANGED <<accept, SESSION_ID, mClients, broken, wire>>
  PROVE  Inv'
PROOF
<1> USE DEF Inv, TypeOK
<1>1. /\ mWriteQueue' \in [Sessions -> Seq(Numbers)]
      /\ \A s \in S : /\ mWriteQueue'[s] = Append(mWriteQueue[s], message[s])
                      /\ mWriteQueue'[s] # <<>>
      /\ \A s \in Sessions \ S : mWriteQueue'[s] = mWriteQueue[s]
  <2>1. \A s \in S : /\ Append(mWriteQueue[s], message[s]) \in Seq(Numbers)
                     /\ Append(mWriteQueue[s], message[s]) # <<>>
    <3> SUFFICES ASSUME NEW s \in S
                 PROVE  /\ Append(mWriteQueue[s], message[s]) \in Seq(Numbers)
                        /\ Append(mWriteQueue[s], message[s]) # <<>>
      OBVIOUS
    <3>1. mWriteQueue[s] \in Seq(Numbers) /\ message[s] \in Numbers
      OBVIOUS
    <3> HIDE DEF Inv, TypeOK
    <3> QED
      BY <3>1, AppendProperties
  <2>2. mWriteQueue' = [s \in Sessions |->
          IF s \in S THEN Append(mWriteQueue[s], message[s]) ELSE mWriteQueue[s]]
    BY DEF Write
  <2> QED
    BY <2>1, <2>2
<1>2. \A s \in Sessions : mWriteQueue'[s] # <<>> => mWriteQueue'[s][1] \in Numbers
  BY <1>1, Heads
<1>3. /\ handed' \in [Sessions -> Seq(Numbers)]
      /\ \A s \in S : handed'[s] = Append(handed[s], message[s])
      /\ \A s \in Sessions \ S : handed'[s] = handed[s]
  BY Heads DEF Write
<1>4. inFlight' \in [Sessions -> Seq(Numbers)]
  BY <1>1, <1>2, Heads DEF Write, Starts
<1>5. crashed' \in BOOLEAN
  BY DEF Write
<1>6. Known' = Known
  BY DEF Known
<1>7. TypeOK'
  BY <1>1, <1>3, <1>4, <1>5
<1>8. StreamIntact'
  <2> SUFFICES ASSUME NEW s \in Sessions
               PROVE  wire[s] \o mWriteQueue'[s] = handed'[s]
    BY DEF StreamIntact
  <2>1. wire[s] \o mWriteQueue[s] = handed[s]
    BY DEF StreamIntact
  <2>2. CASE s \in S
    <3>1. /\ wire[s] \in Seq(Numbers) /\ mWriteQueue[s] \in Seq(Numbers)
          /\ message[s] \in Numbers
      BY <2>2
    <3>2. wire[s] \o Append(mWriteQueue[s], message[s])
            = Append(wire[s] \o mWriteQueue[s], message[s])
      BY <3>1, ConcatAppend
    <3> QED
      BY <2>1, <2>2, <3>2, <1>1, <1>3
  <2>3. CASE s \notin S
    BY <2>1, <2>3, <1>1, <1>3
  <2> QED
    BY <2>2, <2>3
<1>9. OneWrite'
  <2> SUFFICES ASSUME NEW s \in Sessions
               PROVE  inFlight'[s] = IF mWriteQueue'[s] = <<>> \/ s \in broken
                                     THEN <<>> ELSE <<mWriteQueue'[s][1]>>
    BY DEF OneWrite
  <2>1. inFlight[s] = IF mWriteQueue[s] = <<>> \/ s \in broken
                      THEN <<>> ELSE <<mWriteQueue[s][1]>>
    BY DEF OneWrite
  <2>2. CASE s \notin S
    BY <2>1, <2>2, <1>1 DEF Write
  <2>3. CASE s \in S /\ mWriteQueue[s] # <<>>
    <3>1. inFlight'[s] = inFlight[s]
      BY <2>3 DEF Write, Starts
    <3>2. mWriteQueue'[s] # <<>> /\ mWriteQueue'[s][1] = mWriteQueue[s][1]
      <4>1. mWriteQueue[s] \in Seq(Numbers) /\ message[s] \in Numbers
        BY <2>3
      <4>2. Append(mWriteQueue[s], message[s])[1] = mWriteQueue[s][1]
        BY <4>1, <2>3, Heads
      <4> QED
        BY <4>2, <2>3, <1>1
    <3> QED
      BY <3>1, <3>2, <2>1, <2>3
  <2>4. CASE s \in S /\ mWriteQueue[s] = <<>>
    <3>1. s \notin broken
      BY <2>4 DEF OwnQueues
    <3>2. inFlight[s] = <<>>
      BY <2>1, <2>4
    <3>3. inFlight'[s] = Append(inFlight[s], mWriteQueue'[s][1])
      BY <2>4 DEF Write, Starts
    <3>4. inFlight'[s] = <<mWriteQueue'[s][1]>>
      BY <3>2, <3>3, <1>1, <1>2, <2>4, Heads
    <3> QED
      BY <3>1, <3>4, <1>1, <2>4
  <2> QED
    BY <2>2, <2>3, <2>4
<1>10. OwnQueues'
  BY <1>1, <1>6 DEF OwnQueues
<1> QED
  BY <1>7, <1>8, <1>9, <1>10

LEMMA DirectInv ==
  ASSUME Inv, NEW s \in Known, Direct(s)
  PROVE  Inv'
PROOF
<1>1. PICK found \in Found({s}) : Write(found, [t \in found |-> built'])
  BY DEF Direct
<1>2. found \in SUBSET Known /\ Known \in SUBSET Sessions
  BY <1>1, FoundKnown
<1>3. built' \in Numbers
  BY NetworkAssumption DEF Direct, Inv, TypeOK, Numbers
<1>4. [t \in found |-> built'] \in [found -> Numbers]
  BY <1>3
<1> QED
  BY <1>1, <1>2, <1>3, <1>4, WriteInv DEF Direct

LEMMA BroadcastInv ==
  ASSUME Inv, NEW ids \in SUBSET Known, Broadcast(ids)
  PROVE  Inv'
PROOF
<1>1. built' \in Numbers /\ Null \in Numbers
  BY NetworkAssumption DEF Broadcast, Inv, TypeOK, Numbers, Null
<1>2. PICK found \in Found(ids) :
        IF found = {} THEN UNCHANGED <<mWriteQueue, handed, inFlight, crashed>>
        ELSE \E first \in found :
               Write(found, [t \in found |-> IF t = first THEN built' ELSE Null])
  BY DEF Broadcast
<1>3. CASE found = {}
  BY <1>1, <1>2, <1>3
     DEF Broadcast, Inv, TypeOK, StreamIntact, OneWrite, OwnQueues, Known
<1>4. CASE found # {}
  <2>1. PICK first \in found :
          Write(found, [t \in found |-> IF t = first THEN built' ELSE Null])
    BY <1>2, <1>4
  <2>2. found \in SUBSET Known /\ Known \in SUBSET Sessions
    BY FoundKnown
  <2>3. [t \in found |-> IF t = first THEN built' ELSE Null] \in [found -> Numbers]
    BY <1>1
  <2> QED
    BY <2>1, <2>2, <2>3, <1>1, WriteInv DEF Broadcast
<1> QED
  BY <1>3, <1>4

LEMMA WrittenInv ==
  ASSUME Inv, NEW s \in Sessions, Written(s)
  PROVE  Inv'
PROOF
<1> DEFINE q == mWriteQueue[s]
           rest == Tail(q)
<1> USE DEF Inv, TypeOK
<1>1. q \in Seq(Numbers) /\ q # <<>> /\ s \notin broken /\ inFlight[s] = <<q[1]>>
  BY DEF Written, OneWrite
<1>2. q[1] \in Numbers /\ rest \in Seq(Numbers)
  BY <1>1, Heads
<1>3. /\ mWriteQueue' = [mWriteQueue EXCEPT ![s] = rest]
      /\ inFlight' = [inFlight EXCEPT ![s] = IF rest # <<>> THEN Append(Tail(@), rest[1])
                                                            ELSE Tail(@)]
      /\ wire' = [wire EXCEPT ![s] = Append(@, q[1])]
      /\ crashed' \in BOOLEAN
  BY <1>1 DEF Written, AfterPop, GoesOn
<1>4. Tail(inFlight[s]) = <<>>
  BY <1>1, <1>2
<1>5. inFlight'[s] = IF rest = <<>> THEN <<>> ELSE <<rest[1]>>
  <2>1. CASE rest = <<>>
    BY <1>3, <1>4, <2>1
  <2>2. CASE rest # <<>>
    <3>1. rest[1] \in Numbers
      BY <1>2, <2>2, Heads
    <3>2. inFlight'[s] = Append(<<>>, rest[1])
      BY <1>3, <1>4, <2>2
    <3> QED
      BY <3>1, <3>2, <2>2, Heads
  <2> QED
    BY <2>1, <2>2
<1>6. TypeOK'
  <2>1. inFlight' \in [Sessions -> Seq(Numbers)]
    <3>1. rest # <<>> => rest[1] \in Numbers
      BY <1>2, Heads
    <3>2. inFlight'[s] \in Seq(Numbers)
      BY <1>5, <3>1
    <3> QED
      BY <3>2, <1>3
  <2>2. wire' \in [Sessions -> Seq(Numbers)]
    BY <1>2, <1>3, Heads
  <2>3. mWriteQueue' \in [Sessions -> Seq(Numbers)]
    BY <1>2, <1>3
  <2> QED
    BY <2>1, <2>2, <2>3, <1>3 DEF Written
<1>7. StreamIntact'
  <2>1. wire'[s] \o mWriteQueue'[s] = wire[s] \o q
    <3>1. Append(wire[s], q[1]) \o Tail(q) = wire[s] \o q
      BY <1>1, ConcatTail
    <3> QED
      BY <3>1, <1>3
  <2> QED
    BY <2>1, <1>3 DEF StreamIntact, Written
<1>8. OneWrite'
  BY <1>1, <1>3, <1>5 DEF OneWrite, Written
<1>9. OwnQueues'
  BY <1>1, <1>3 DEF OwnQueues, Written, Known
<1> QED
  BY <1>6, <1>7, <1>8, <1>9

LEMMA WriteFailedInv ==
  ASSUME Inv, NEW s \in Sessions, WriteFailed(s)
  PROVE  Inv'
PROOF
<1> USE DEF Inv, TypeOK
<1>1. mWriteQueue[s] # <<>> /\ inFlight[s] = <<mWriteQueue[s][1]>>
  BY DEF WriteFailed, OneWrite
<1>2. mWriteQueue[s][1] \in Numbers
  BY <1>1, Heads
<1>3. Tail(inFlight[s]) = <<>>
  BY <1>1, <1>2
<1>4. inFlight' = [inFlight EXCEPT ![s] = <<>>]
  BY <1>3 DEF WriteFailed
<1>5. s \in mClients \union {SESSION_ID}
  <2>1. s \in Known
    BY <1>1 DEF OwnQueues
  <2> QED
    BY <2>1 DEF Known
<1>6. TypeOK'
  BY <1>4, <1>5, EmptySeq DEF WriteFailed
<1>7. OneWrite'
  BY <1>4 DEF OneWrite, WriteFailed
<1>8. StreamIntact' /\ OwnQueues'
  BY <1>1 DEF StreamIntact, OwnQueues, WriteFailed, Known
<1> QED
  BY <1>6, <1>7, <1>8

\* Accepting a connection changes what the game thread knows, not the queues.
LEMMA AcceptInv ==
  ASSUME Inv, Connect \/ BeginInsert \/ EndInsert
  PROVE  Inv'
PROOF
<1> USE NetworkAssumption DEF Inv, TypeOK, Sessions
<1>1. CASE Connect
  <2>1. TypeOK' /\ StreamIntact' /\ OneWrite'
    BY <1>1 DEF Connect, StreamIntact, OneWrite
  <2>2. Known \subseteq Known'
    BY <1>1 DEF Connect, Known
  <2>3. OwnQueues'
    BY <2>2, <1>1 DEF Connect, OwnQueues
  <2> QED
    BY <2>1, <2>3
<1>2. CASE BeginInsert
  BY <1>2 DEF BeginInsert, StreamIntact, OneWrite, OwnQueues, Known
<1>3. CASE EndInsert
  <2>1. SESSION_ID' \in 1 .. NumSessions + 1 /\ mClients' = 1 .. SESSION_ID' - 1
    BY <1>3 DEF EndInsert, NextId, OwnQueues
  <2>2. Known' = Known
    BY <1>3 DEF EndInsert, NextId, Known
  <2>3. TypeOK'
    BY <2>1, <1>3 DEF EndInsert
  <2> QED
    BY <2>2, <2>3, <1>3 DEF EndInsert, StreamIntact, OneWrite, OwnQueues
<1> QED
  BY <1>1, <1>2, <1>3

LEMMA NextInv == Inv /\ [Next]_vars => Inv'
PROOF
<1> SUFFICES ASSUME Inv, [Next]_vars PROVE Inv'
  OBVIOUS
<1>1. CASE Connect \/ BeginInsert \/ EndInsert
  BY <1>1, AcceptInv
<1>2. CASE \E s \in Known : Direct(s)
  BY <1>2, DirectInv
<1>3. CASE \E ids \in SUBSET Known : Broadcast(ids)
  BY <1>3, BroadcastInv
<1>4. CASE \E s \in Sessions : Written(s) \/ WriteFailed(s)
  BY <1>4, WrittenInv, WriteFailedInv
<1>5. CASE UNCHANGED vars
  BY <1>5 DEF vars, Inv, TypeOK, StreamIntact, OneWrite, OwnQueues, Known
<1> QED
  BY <1>1, <1>2, <1>3, <1>4, <1>5 DEF Next

-----------------------------------------------------------------------------
(* Theorems. *)

\* The invariant holds however the two threads take turns.
THEOREM NetworkInv == Spec => []Inv
PROOF
<1>1. Init => Inv
  BY InitInv
<1>2. Inv /\ [Next]_vars => Inv'
  BY NextInv
<1> QED
  BY <1>1, <1>2, PTL DEF Spec

\* Every part of the network's state stays within its type.
THEOREM NetworkTypes == Spec => []TypeOK
PROOF
<1>1. Inv => TypeOK
  BY DEF Inv
<1> QED
  BY <1>1, NetworkInv, PTL

\* What a session wrote and what it queues is what it was handed, in order: the
\* write queue of Session.cpp loses, repeats and reorders nothing.
THEOREM StreamsIntact == Spec => []StreamIntact
PROOF
<1>1. Inv => StreamIntact
  BY DEF Inv
<1> QED
  BY <1>1, NetworkInv, PTL

\* Deciding by the emptiness of the queue whether to begin a write keeps exactly
\* one write under way while there is something to write.
THEOREM OneWriteEach == Spec => []OneWrite
PROOF
<1>1. Inv => OneWrite
  BY DEF Inv
<1> QED
  BY <1>1, NetworkInv, PTL
=============================================================================
