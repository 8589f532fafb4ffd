------------------------------ MODULE Network -------------------------------
(***************************************************************************)
(* The sending side of the server's connections: Network.cpp (accepting,   *)
(* Direct, Broadcast) and Session.cpp (Write, WriteAsync).                 *)
(*                                                                         *)
(* The game thread hands messages to sessions, under mClientMutex and the  *)
(* session's mWriteMutex.  The network thread runs, one at a time, the     *)
(* completion handlers of boost::asio: accepted connections and finished   *)
(* writes.  It inserts into mClients without mClientMutex, so a lookup of  *)
(* the game thread that falls into an insertion may find any part of it.   *)
(*                                                                         *)
(* Messages are numbered in the order they are built.  A message is a      *)
(* unique_ptr: once moved from, it is Null, and using it ends the server.  *)
(* async_write_some is taken to write all of a message or to fail, as an   *)
(* overlapped send does on Windows, the only system the code compiles on.  *)
(***************************************************************************)
EXTENDS Naturals, Sequences

CONSTANTS
  NumSessions,  \* how many connections are accepted, from SESSION_ID 1 on
  MaxMessages   \* how many messages the game thread builds

ASSUME NetworkAssumption == NumSessions \in Nat /\ MaxMessages \in Nat

Sessions == 1 .. NumSessions
Null == 0

VARIABLES
  accept,       \* the accept handler: "idle", "connected" or "inserting"
  SESSION_ID,   \* id of the next session, or of the one being accepted
  mClients,     \* the sessions in the table
  built,        \* number of messages built so far
  mWriteQueue,  \* session -> messages not known to be written
  inFlight,     \* session -> the messages given to writes still under way
  broken,       \* sessions of which a write failed
  wire,         \* session -> messages written to its socket
  handed,       \* history: session -> messages given to Write
  crashed       \* a Null message was used

vars == <<accept, SESSION_ID, mClients, built, mWriteQueue, inFlight, broken,
          wire, handed, crashed>>

\* The sessions whose connect handler has run: those the game thread knows of.
Known == 1 .. (IF accept = "idle" THEN SESSION_ID - 1 ELSE SESSION_ID)

-----------------------------------------------------------------------------
Init ==
  /\ accept = "idle" /\ SESSION_ID = 1
  /\ mClients = {} /\ built = 0
  /\ mWriteQueue = [s \in Sessions |-> <<>>]
  /\ inFlight = [s \in Sessions |-> <<>>]
  /\ broken = {}
  /\ wire = [s \in Sessions |-> <<>>]
  /\ handed = [s \in Sessions |-> <<>>]
  /\ crashed = FALSE

\* AcceptAsync: a connection; the connect handler pushes EnterWorld.
Connect ==
  /\ ~crashed /\ accept = "idle" /\ SESSION_ID \in Sessions
  /\ accept' = "connected"
  /\ UNCHANGED <<SESSION_ID, mClients, built, mWriteQueue, inFlight, broken, wire,
                 handed, crashed>>

\* The insertion into mClients begins ...
BeginInsert ==
  /\ ~crashed /\ accept = "connected"
  /\ accept' = "inserting"
  /\ UNCHANGED <<SESSION_ID, mClients, built, mWriteQueue, inFlight, broken, wire,
                 handed, crashed>>

\* Variant with a fault: the next session gets the same id.
SameId == SESSION_ID

\* SESSION_ID++.
NextId == SESSION_ID + 1

\* ... and ends; the session starts reading, and the next is waited for.
EndInsert ==
  /\ ~crashed /\ accept = "inserting"
  /\ mClients' = mClients \union {SESSION_ID}
  /\ accept' = "idle" /\ SESSION_ID' = NextId
  /\ UNCHANGED <<built, mWriteQueue, inFlight, broken, wire, handed, crashed>>

\* What lookups of ids in mClients may find.  An insertion links a new element
\* and may rehash the table: in the middle of it any element may be missed.
Found(ids) ==
  IF accept = "inserting" THEN SUBSET (ids \intersect (mClients \union {SESSION_ID}))
                          ELSE {ids \intersect mClients}

\* Variant with a fault: a write is begun for every message.
AlwaysStarts(s) == TRUE

\* Session::Write: a write is begun when none is under way.
Starts(s) == mWriteQueue[s] = <<>>

\* Session::Write of message[s] to every session s in the set.
Write(S, message) ==
  LET started == {s \in S : Starts(s)}
  IN /\ mWriteQueue' = [s \in Sessions |->
          IF s \in S THEN Append(mWriteQueue[s], message[s]) ELSE mWriteQueue[s]]
     /\ handed' = [s \in Sessions |->
          IF s \in S THEN Append(handed[s], message[s]) ELSE handed[s]]
     /\ inFlight' = [s \in Sessions |->
          IF s \in started THEN Append(inFlight[s], mWriteQueue'[s][1]) ELSE inFlight[s]]
     /\ crashed' = \E s \in started : mWriteQueue'[s][1] = Null

\* Network::Direct.
Direct(s) ==
  /\ ~crashed /\ built < MaxMessages
  /\ built' = built + 1
  /\ \E found \in Found({s}) : Write(found, [t \in found |-> built'])
  /\ UNCHANGED <<accept, SESSION_ID, mClients, broken, wire>>

\* Network::Broadcast: the loop moves the message to the first session found,
\* in the order of an unordered_set, and what is left of it to the others.
Broadcast(ids) ==
  /\ ~crashed /\ built < MaxMessages
  /\ built' = built + 1
  /\ \E found \in Found(ids) :
       IF found = {} THEN UNCHANGED <<mWriteQueue, handed, inFlight, crashed>>
       ELSE \E first \in found :
              Write(found, [t \in found |-> IF t = first THEN built' ELSE Null])
  /\ UNCHANGED <<accept, SESSION_ID, mClients, broken, wire>>

\* Variant with a fault: a write that finished leaves its message in the queue
\* when it is the last one.
AfterPopKeepsLast(q) == IF Len(q) = 1 THEN q ELSE Tail(q)

\* The queue after mWriteQueue.pop().
AfterPop(q) == Tail(q)

\* Variant with a fault: the next message waits for the next Write.
NoMore(q) == FALSE

\* Whether the handler of a write goes on with the next message.
GoesOn(q) == q # <<>>

\* Session.cpp:107-115: a write has finished.
Written(s) ==
  /\ ~crashed /\ accept = "idle" /\ inFlight[s] # <<>>
  /\ LET rest == AfterPop(mWriteQueue[s])
         more == GoesOn(rest)
     IN /\ mWriteQueue' = [mWriteQueue EXCEPT ![s] = rest]
        /\ inFlight' = [inFlight EXCEPT ![s] =
                          IF more THEN Append(Tail(@), rest[1]) ELSE Tail(@)]
        /\ crashed' = (more /\ rest[1] = Null)
  /\ wire' = [wire EXCEPT ![s] = Append(@, inFlight[s][1])]
  /\ UNCHANGED <<accept, SESSION_ID, mClients, built, broken, handed>>

\* Session.cpp:116-119: a write has failed.  The disconnect handler only pushes
\* LeaveWorld, which does nothing: the session keeps its place in mClients.
WriteFailed(s) ==
  /\ ~crashed /\ accept = "idle" /\ inFlight[s] # <<>>
  /\ inFlight' = [inFlight EXCEPT ![s] = Tail(@)]
  /\ broken' = broken \union {s}
  /\ UNCHANGED <<accept, SESSION_ID, mClients, built, mWriteQueue, wire, handed, crashed>>

Next ==
  \/ Connect \/ BeginInsert \/ EndInsert
  \/ \E s \in Known : Direct(s)
  \/ \E ids \in SUBSET Known : Broadcast(ids)
  \/ \E s \in Sessions : Written(s) \/ WriteFailed(s)

\* io_context::run runs every handler that is ready, and the operating system
\* finishes or fails every write.  Nothing is assumed of clients or of the game.
Fairness ==
  /\ WF_vars(BeginInsert)
  /\ WF_vars(EndInsert)
  /\ \A s \in Sessions : WF_vars(Written(s) \/ WriteFailed(s))

Spec == Init /\ [][Next]_vars /\ Fairness

-----------------------------------------------------------------------------
(* Properties. *)

Numbers == 0 .. MaxMessages

TypeOK ==
  /\ accept \in {"idle", "connected", "inserting"}
  /\ SESSION_ID \in 1 .. NumSessions + 1
  /\ mClients = 1 .. SESSION_ID - 1
  /\ built \in Numbers
  /\ mWriteQueue \in [Sessions -> Seq(Numbers)]
  /\ inFlight \in [Sessions -> Seq(Numbers)]
  /\ broken \subseteq mClients \union {SESSION_ID}
  /\ wire \in [Sessions -> Seq(Numbers)]
  /\ handed \in [Sessions -> Seq(Numbers)]
  /\ crashed \in BOOLEAN

\* What a session's socket was given, followed by what is queued for it, is what
\* was handed to the session: nothing is lost, repeated or reordered, whatever
\* the order in which writes of the game thread and completions of the network
\* thread come.
StreamIntact == \A s \in Sessions : wire[s] \o mWriteQueue[s] = handed[s]

\* A session has one write under way, of the head of its queue, exactly as long
\* as it has messages and no write of it failed: never two at once, which would
\* mix their bytes, and none missing, which would leave the queue unsent.
OneWrite ==
  ~crashed =>
    \A s \in Sessions :
      inFlight[s] = IF mWriteQueue[s] = <<>> \/ s \in broken
                    THEN <<>> ELSE <<mWriteQueue[s][1]>>

\* Every message handed to a session is written to its socket, unless a write
\* of the session fails or the server ends.
EventuallyWritten ==
  \A s \in Sessions :
    \A n \in 1 .. MaxMessages :
      Len(handed[s]) >= n ~> Len(wire[s]) >= n \/ s \in broken \/ crashed

\* README.md:42 says that the viewers in range are each given the information;
\* Network.cpp:60-66 loops over them: a session that is found is given the
\* message, not what is left of it.
BroadcastReachesAll ==
  [][\A s \in Sessions : handed'[s] # handed[s] => handed'[s][Len(handed'[s])] = built']_vars
=============================================================================
