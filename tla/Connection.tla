----------------------------- MODULE Connection -----------------------------
(***************************************************************************)
(* The reading end of a connection: Session::ReadAsync of the server and   *)
(* Network::ReadAsync of a client, which differ in one line and in what    *)
(* surrounds them.  TCP delivers a stream of bytes in pieces of any size;  *)
(* ReadAsync collects them in mRecvBuffer and takes whole messages out.    *)
(*                                                                         *)
(* A byte is its offset in the stream.  Message k of the stream has the    *)
(* offsets Start[k] .. Start[k + 1] - 1 and begins with a header that      *)
(* holds its size.  mRecvBuffer is always a piece of the stream: the bytes *)
(* from offset `first` on, mRecvBufferCount of them.                       *)
(***************************************************************************)
EXTENDS Integers, Sequences

CONSTANTS
  NumMessages,   \* messages the other end sends
  Start,         \* Start[k] is the offset of the first byte of message k
  HeaderSize,    \* sizeof(MessageHeader)
  MaxBuffer,     \* MAX_BUFFER_SIZE (8192)
  ReadChunk      \* READ_CHUNK_SIZE (1024)

Total == Start[NumMessages + 1]

\* The largest message, a S2C_PATH_FINDING, has 428 bytes.
ASSUME ConnectionAssumption ==
  /\ NumMessages \in Nat
  /\ HeaderSize \in Nat \ {0} /\ MaxBuffer \in Nat \ {0} /\ ReadChunk \in Nat \ {0}
  /\ Start \in [1 .. NumMessages + 1 -> Nat]
  /\ Start[1] = 0
  /\ \A j, k \in 1 .. NumMessages + 1 : j < k => Start[j] + HeaderSize <= Start[k]
  /\ \A k \in 1 .. NumMessages : Start[k + 1] <= Start[k] + MaxBuffer

VARIABLES
  end,               \* which end this is: "client" or "server"
  pc,                \* the network thread, see TypeOK
  main,              \* the client's main thread: "running" or "joining"
  mIsConnected,      \* the client's flag
  dropped,           \* a message given to the client's Write was dropped
  arrived,           \* bytes the connection has delivered so far
  first,             \* offset of mRecvBuffer[0]
  mRecvBufferCount,
  length,            \* bytes of the last read
  processLength,     \* bytes of the buffer already taken out as messages
  taken,             \* history: the messages taken out, <<offset, size>>
  given              \* how many of them were handed on

buffer == <<first, mRecvBufferCount, length, processLength, taken, given>>
lifecycle == <<main, mIsConnected, dropped>>
vars == <<end, pc, lifecycle, arrived, buffer>>

\* The size in the header at this offset.  (Bytes that are no header are read
\* as one of an empty message.)
SizeAt(offset) ==
  IF \E k \in 1 .. NumMessages : Start[k] = offset
  THEN LET k == CHOOSE k \in 1 .. NumMessages : Start[k] = offset
       IN Start[k + 1] - Start[k]
  ELSE HeaderSize

Smaller(m, n) == IF m <= n THEN m ELSE n

-----------------------------------------------------------------------------
\* A session reads as soon as it is accepted, a client once it is connected.
Init ==
  /\ end \in {"client", "server"}
  /\ pc = IF end = "client" THEN "connecting" ELSE "reading"
  /\ main = "running" /\ mIsConnected = FALSE /\ dropped = FALSE
  /\ arrived = 0
  /\ first = 0 /\ mRecvBufferCount = 0 /\ length = 0 /\ processLength = 0
  /\ taken = <<>> /\ given = 0

\* Variant with a fault: the flag is left for later.
NotYetConnected == FALSE

\* mIsConnected = true, before the first read.
ConnectedFlag == TRUE

\* Client/Network.cpp:43-56: connecting ends, well or not; nobody tries again.
ConnectDone ==
  /\ pc = "connecting"
  /\ \/ pc' = "reading" /\ mIsConnected' = ConnectedFlag
     \/ pc' = "failed" /\ UNCHANGED mIsConnected
  /\ UNCHANGED <<end, main, dropped, arrived, buffer>>

\* The other end's bytes come in, in pieces of any size.
Arrive(n) ==
  /\ pc \notin {"connecting", "failed", "stopped"}
  /\ arrived' = n
  /\ UNCHANGED <<end, pc, lifecycle, buffer>>

\* Variant with a fault: a read may always fill a chunk.
WholeChunk == ReadChunk

\* What a read may fill: canReadByte.
CanReadByte == Smaller(MaxBuffer - mRecvBufferCount, ReadChunk)

\* async_read_some completes with n bytes, copied behind what the buffer holds.
\* A read into no space completes at once, with nothing.
ReadCompletes(n) ==
  /\ pc = "reading"
  /\ n <= CanReadByte /\ first + mRecvBufferCount + n <= arrived
  /\ n = 0 => CanReadByte = 0
  /\ pc' = "framing"
  /\ mRecvBufferCount' = mRecvBufferCount + n
  /\ length' = n /\ processLength' = 0
  /\ UNCHANGED <<end, lifecycle, arrived, first, taken, given>>

\* Session.cpp:37: the server reads into an array that is gone by then.  What
\* it copies into mRecvBuffer may be anything, and from there on nothing is said.
ReadClobbered ==
  /\ end = "server" /\ pc = "reading" /\ first + mRecvBufferCount < arrived
  /\ pc' = "undefined"
  /\ UNCHANGED <<end, lifecycle, arrived, buffer>>

\* Variants with a fault: the client counts like the server, or the server like
\* the client.
LengthOfRead == length - processLength
LengthOfBuffer == mRecvBufferCount - processLength

\* dataLength, in which the two ends differ: the client counts what the buffer
\* holds (Client/Network.cpp:138), the server what this read brought (Session.cpp:54).
DataLength ==
  IF end = "client" THEN mRecvBufferCount - processLength ELSE length - processLength

\* Variant with a fault: a header alone is taken for a message.
HeaderThere == DataLength >= HeaderSize

\* The tests of the framing loop.
MessageThere ==
  /\ DataLength >= HeaderSize
  /\ DataLength >= SizeAt(first + processLength)

\* One turn of the framing loop: a message is taken out.  The server hands it on
\* at once, the client keeps it in mTempMessages.
FrameMessage ==
  /\ pc = "framing" /\ MessageThere
  /\ LET offset == first + processLength
     IN /\ taken' = Append(taken, <<offset, SizeAt(offset)>>)
        /\ processLength' = processLength + SizeAt(offset)
  /\ given' = IF end = "server" THEN Len(taken') ELSE given
  /\ UNCHANGED <<end, pc, lifecycle, arrived, first, mRecvBufferCount, length>>

\* Variant with a fault: a rest of a message is thrown away.
NoRest == 0

\* remainingLength.
Rest == mRecvBufferCount - processLength

\* The loop ends; the rest is moved to the front, the client's new messages go
\* to mRecvMessages, and the next read begins - on the client only if there is
\* space, otherwise its disconnect handler is called.
EndFrame ==
  /\ pc = "framing" /\ ~MessageThere
  /\ given' = Len(taken)
  /\ mRecvBufferCount' = Rest
  /\ first' = first + mRecvBufferCount - mRecvBufferCount'
  /\ processLength' = 0 /\ length' = 0
  /\ pc' = IF end = "client" /\ mRecvBufferCount' >= MaxBuffer THEN "stopped" ELSE "reading"
  /\ UNCHANGED <<end, lifecycle, arrived, taken>>

\* A read or a write fails.  The server pushes LeaveWorld and never reads again;
\* the client's handler joins the thread it runs on, which throws and ends it.
Fail ==
  /\ pc = "reading"
  /\ pc' = "stopped"
  /\ UNCHANGED <<end, lifecycle, arrived, buffer>>

ClientLives == end = "client" /\ pc # "stopped"

\* Network::Write of the client's main thread.  It has something to ask only
\* once it was told of an entity.
ClientWrite ==
  /\ ClientLives /\ main = "running" /\ given > 0
  /\ dropped' = (dropped \/ ~mIsConnected)
  /\ UNCHANGED <<end, pc, main, mIsConnected, arrived, buffer>>

\* The window is closed: Game::Run ends in Network::Disconnect, whose join waits
\* for a thread that the work guard keeps running.
Quit ==
  /\ ClientLives /\ main = "running"
  /\ main' = "joining"
  /\ UNCHANGED <<end, pc, mIsConnected, dropped, arrived, buffer>>

Next ==
  \/ ConnectDone
  \/ \E n \in arrived + 1 .. Total : Arrive(n)
  \/ \E n \in 0 .. ReadChunk : ReadCompletes(n)
  \/ ReadClobbered
  \/ FrameMessage
  \/ EndFrame
  \/ Fail
  \/ ClientWrite
  \/ Quit

\* io_context::run runs every completion handler to its end.  Nothing is assumed
\* of the other end, of the player, or of the connection staying up.
Fairness ==
  /\ WF_vars(\E n \in 0 .. ReadChunk : ReadCompletes(n))
  /\ WF_vars(FrameMessage)
  /\ WF_vars(EndFrame)

Spec == Init /\ [][Next]_vars /\ Fairness

-----------------------------------------------------------------------------
(* Properties. *)

TypeOK ==
  /\ end \in {"client", "server"}
  /\ pc \in {"connecting", "failed", "reading", "framing", "stopped", "undefined"}
  /\ main \in {"running", "joining"}
  /\ mIsConnected \in BOOLEAN /\ dropped \in BOOLEAN
  /\ arrived \in 0 .. Total
  /\ first \in 0 .. Total
  /\ mRecvBufferCount \in 0 .. MaxBuffer
  /\ length \in 0 .. ReadChunk
  /\ processLength \in 0 .. MaxBuffer
  /\ taken \in Seq(Nat \X Nat)
  /\ given \in 0 .. Len(taken)

\* However the stream is cut into pieces, the messages taken out are those that
\* were sent, whole and in order, on both ends.
InOrder ==
  /\ Len(taken) <= NumMessages
  /\ \A k \in 1 .. Len(taken) : taken[k] = <<Start[k], Start[k + 1] - Start[k]>>

\* The framing loop never looks past the bytes that were read, and the buffer
\* holds what arrived right after the messages taken out before.
WithinBuffer ==
  /\ processLength <= mRecvBufferCount
  /\ first + mRecvBufferCount <= arrived
  /\ Len(taken) <= NumMessages => first + processLength = Start[Len(taken) + 1]

\* Between reads the client's buffer holds no whole message: it shows what has
\* arrived without waiting for more.  (The server's may.)
NothingHeldBack ==
  end = "client" /\ pc = "reading" /\ Len(taken) < NumMessages =>
    first + mRecvBufferCount < Start[Len(taken) + 2]

\* A client always has space for its next read: its disconnect handler is never
\* called with no_buffer_space, however long it runs.
NeverFull == [][~(end = "client" /\ pc = "framing" /\ pc' = "stopped")]_vars

\* The server counts the length of the last read.  A message is taken out only
\* within as many bytes as the last read brought, and so what the buffer holds
\* between reads never gets less: a message that was split once leaves its first
\* part behind for good, the session hears everything that much later, and one
\* that has collected MaxBuffer bytes this way hears nothing more.
LagNeverShrinks ==
  [][end = "server" =>
       /\ taken' # taken => processLength' <= length
       /\ pc = "framing" /\ pc' = "reading" => mRecvBufferCount' >= mRecvBufferCount - length]_vars

\* The client's main thread never finds itself unconnected when it has something
\* to send, although it reads mIsConnected without a lock: no request is dropped.
NoRequestDropped == ~dropped

\* Every message that arrived at a client is handed to its main thread in the
\* end, unless the connection fails.
AllGiven ==
  end = "client" =>
    \A k \in 1 .. NumMessages : arrived >= Start[k + 1] ~> given >= k \/ pc = "stopped"
=============================================================================
