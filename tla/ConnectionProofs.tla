-------------------------- MODULE ConnectionProofs --------------------------
(***************************************************************************)
(* The reading end of a connection, for any messages, any sizes of buffer  *)
(* and chunk, and any way the stream is cut.                               *)
(*                                                                         *)
(* The invariant ties the buffer to the history: what was taken out is a   *)
(* prefix of the messages (InOrder), and the next byte to look at is where *)
(* the next message starts (WithinBuffer) - so a header is only ever read  *)
(* where there is one (HeaderSays).  Rest bounds what the client's buffer  *)
(* holds between reads, from which follows that it has space.              *)
(***************************************************************************)
EXTENDS Connection, TLAPS

\* What a pc other than "framing" leaves of the loop.
LoopIdle == pc # "framing" => processLength = 0

\* The server's loop stays within the last read.
WithinRead ==
  /\ length <= mRecvBufferCount
  /\ end = "server" => processLength <= length

\* Where the client's thread is before it reads.
Begun ==
  /\ pc = "connecting" => end = "client"
  /\ pc \in {"connecting", "failed"} =>
       /\ given = 0 /\ taken = <<>>
       /\ first = 0 /\ mRecvBufferCount = 0
  /\ ~(end = "client" /\ pc = "undefined")

\* Once it was given something, a client is connected.
ConnectedFirst == end = "client" /\ pc \notin {"connecting", "failed"} => mIsConnected

Inv ==
  /\ TypeOK
  /\ InOrder
  /\ WithinBuffer
  /\ NothingHeldBack
  /\ NoRequestDropped
  /\ LoopIdle
  /\ WithinRead
  /\ Begun
  /\ ConnectedFirst

\* What is known of the constants, with the types.
LEMMA Constants ==
  /\ NumMessages \in Nat /\ Total \in Nat
  /\ HeaderSize \in Nat \ {0} /\ MaxBuffer \in Nat \ {0} /\ ReadChunk \in Nat \ {0}
  /\ \A k \in 1 .. NumMessages + 1 : Start[k] \in Nat /\ Start[k] <= Total
<1>1. NumMessages + 1 \in 1 .. NumMessages + 1
  BY ConnectionAssumption
<1>2. \A k \in 1 .. NumMessages : Start[k] + HeaderSize <= Start[NumMessages + 1]
  BY <1>1, ConnectionAssumption
<1>3. \A k \in 1 .. NumMessages + 1 : Start[k] \in Nat /\ Start[k] <= Start[NumMessages + 1]
  <2> TAKE k \in 1 .. NumMessages + 1
  <2>1. k \in 1 .. NumMessages \/ k = NumMessages + 1
    BY ConnectionAssumption
  <2>2. Start[k] \in Nat /\ Start[NumMessages + 1] \in Nat
    BY <1>1, ConnectionAssumption
  <2> QED
    BY <1>2, <2>1, <2>2, ConnectionAssumption
<1> QED
  BY <1>1, <1>3, ConnectionAssumption DEF Total

\* The header of a message says how long it is.
LEMMA HeaderSays ==
  ASSUME NEW k \in 1 .. NumMessages
  PROVE  /\ SizeAt(Start[k]) = Start[k + 1] - Start[k]
         /\ SizeAt(Start[k]) \in HeaderSize .. MaxBuffer
<1>1. \A j \in 1 .. NumMessages : Start[j] = Start[k] => j = k
  <2> SUFFICES ASSUME NEW j \in 1 .. NumMessages, Start[j] = Start[k], j # k
               PROVE  FALSE
    OBVIOUS
  <2>1. /\ j \in 1 .. NumMessages + 1 /\ k \in 1 .. NumMessages + 1
        /\ Start[j] \in Nat /\ Start[k] \in Nat
    BY Constants
  <2>2. j < k \/ k < j
    BY Constants
  <2> QED
    BY <2>1, <2>2, ConnectionAssumption
<1>2. (CHOOSE j \in 1 .. NumMessages : Start[j] = Start[k]) = k
  BY <1>1
<1>3. SizeAt(Start[k]) = Start[k + 1] - Start[k]
  BY <1>2 DEF SizeAt
<1>4. /\ k \in 1 .. NumMessages + 1 /\ k + 1 \in 1 .. NumMessages + 1 /\ k < k + 1
      /\ Start[k] \in Nat /\ Start[k + 1] \in Nat
  BY Constants
<1>5. Start[k] + HeaderSize <= Start[k + 1] /\ Start[k + 1] <= Start[k] + MaxBuffer
  BY <1>4, ConnectionAssumption
<1> QED
  BY <1>3, <1>4, <1>5, Constants

LEMMA InitInv == Init => Inv
<1> SUFFICES ASSUME Init PROVE Inv
  OBVIOUS
<1>1. TypeOK
  <2>1. taken \in Seq(Nat \X Nat) /\ given \in 0 .. Len(taken)
    BY DEF Init
  <2>2. end \in {"client", "server"} /\ pc \in {"connecting", "reading"}
    BY DEF Init
  <2>3. mIsConnected \in BOOLEAN /\ dropped \in BOOLEAN /\ main = "running"
    BY DEF Init
  <2>4. /\ arrived \in 0 .. Total /\ first \in 0 .. Total /\ mRecvBufferCount \in 0 .. MaxBuffer
        /\ length \in 0 .. ReadChunk /\ processLength \in 0 .. MaxBuffer
    BY Constants DEF Init
  <2> QED
    BY <2>1, <2>2, <2>3, <2>4 DEF TypeOK
<1>2. Start[1] = 0
  BY ConnectionAssumption
<1>3. WithinBuffer
  BY <1>2 DEF Init, WithinBuffer
<1>4. NothingHeldBack
  BY DEF Init, NothingHeldBack
<1> QED
  BY <1>1, <1>3, <1>4, Constants DEF Init, Inv, InOrder, NoRequestDropped, LoopIdle, WithinRead,
                                    Begun, ConnectedFirst

\* A message that passes the tests of the loop is the next one sent, and lies
\* within what arrived: it is never one too many.
LEMMA NextMessage ==
  ASSUME Inv, pc = "framing", MessageThere
  PROVE  LET n == Len(taken) + 1
         IN /\ n \in 1 .. NumMessages
            /\ first + processLength = Start[n]
            /\ SizeAt(first + processLength) = Start[n + 1] - Start[n]
            /\ SizeAt(first + processLength) \in Nat
            /\ SizeAt(first + processLength) <= DataLength
            /\ DataLength <= mRecvBufferCount - processLength
<1> DEFINE n == Len(taken) + 1
<1>1. /\ Len(taken) \in Nat /\ Len(taken) <= NumMessages
      /\ first + processLength = Start[n]
      /\ first \in Nat /\ processLength \in Nat /\ mRecvBufferCount \in Nat /\ length \in Nat
      /\ arrived \in Nat /\ arrived <= Total
      /\ first + mRecvBufferCount <= arrived
      /\ processLength <= mRecvBufferCount /\ length <= mRecvBufferCount
      /\ end \in {"client", "server"}
  BY Constants DEF Inv, TypeOK, InOrder, WithinBuffer, WithinRead
<1>2. DataLength \in Int /\ DataLength <= mRecvBufferCount - processLength
  BY <1>1 DEF DataLength
<1>3. n # NumMessages + 1
  <2> SUFFICES ASSUME n = NumMessages + 1 PROVE FALSE
    OBVIOUS
  <2>1. first + processLength = Total
    BY <1>1 DEF Total
  <2>2. DataLength >= HeaderSize
    BY DEF MessageThere
  <2> QED
    BY <1>1, <1>2, <2>1, <2>2, Constants
<1>4. n \in 1 .. NumMessages
  BY <1>1, <1>3, Constants
<1>5. SizeAt(first + processLength) <= DataLength
  <2>1. SizeAt(first + processLength) \in Nat
    BY <1>1, <1>4, HeaderSays, Constants
  <2> QED
    BY <1>2, <2>1 DEF MessageThere
<1> QED
  BY <1>1, <1>2, <1>4, <1>5, HeaderSays, Constants

LEMMA FrameInv ==
  ASSUME Inv, FrameMessage
  PROVE  Inv'
<1> DEFINE n == Len(taken) + 1
           offset == first + processLength
<1>1. /\ n \in 1 .. NumMessages
      /\ offset = Start[n]
      /\ SizeAt(offset) = Start[n + 1] - Start[n]
      /\ SizeAt(offset) \in Nat
      /\ SizeAt(offset) <= DataLength
      /\ DataLength <= mRecvBufferCount - processLength
  BY NextMessage DEF FrameMessage
<1>2. /\ taken' = Append(taken, <<offset, SizeAt(offset)>>)
      /\ processLength' = processLength + SizeAt(offset)
      /\ given' = IF end = "server" THEN Len(taken') ELSE given
      /\ pc = "framing" /\ pc' = "framing"
      /\ end' = end /\ main' = main /\ mIsConnected' = mIsConnected /\ dropped' = dropped
      /\ arrived' = arrived /\ first' = first /\ mRecvBufferCount' = mRecvBufferCount
      /\ length' = length
  BY DEF FrameMessage, lifecycle
<1>3. /\ taken \in Seq(Nat \X Nat) /\ first \in Nat /\ processLength \in Nat
      /\ mRecvBufferCount \in Nat /\ length \in Nat /\ end \in {"client", "server"}
      /\ mRecvBufferCount <= MaxBuffer
  BY Constants DEF Inv, TypeOK
<1>4. /\ taken' \in Seq(Nat \X Nat) /\ Len(taken') = n
      /\ \A k \in 1 .. Len(taken) : taken'[k] = taken[k]
      /\ taken'[n] = <<offset, SizeAt(offset)>>
  <2>1. <<offset, SizeAt(offset)>> \in Nat \X Nat
    BY <1>1, <1>3
  <2> QED
    BY <1>2, <1>3, <2>1
<1>5. processLength' \in 0 .. mRecvBufferCount
  BY <1>1, <1>2, <1>3 DEF DataLength
<1>6. first' + processLength' = Start[n + 1]
  BY <1>1, <1>2, <1>3, Constants
<1>7. TypeOK'
  BY <1>2, <1>3, <1>4, <1>5, Constants DEF Inv, TypeOK
<1>8. InOrder'
  <2>1. \A k \in 1 .. n : k \in 1 .. Len(taken) \/ k = n
    BY <1>3
  <2>2. taken'[n] = <<Start[n], Start[n + 1] - Start[n]>>
    BY <1>1, <1>4
  <2>3. \A k \in 1 .. Len(taken) : taken'[k] = <<Start[k], Start[k + 1] - Start[k]>>
    BY <1>4 DEF Inv, InOrder
  <2>4. Len(taken') <= NumMessages
    BY <1>1, <1>4
  <2> HIDE DEF n
  <2> QED
    BY <1>4, <2>1, <2>2, <2>3, <2>4 DEF InOrder
<1>9. WithinBuffer'
  BY <1>2, <1>4, <1>5, <1>6 DEF Inv, WithinBuffer
<1>10. WithinRead'
  BY <1>1, <1>2, <1>3 DEF Inv, WithinRead, DataLength
<1> QED
  BY <1>2, <1>7, <1>8, <1>9, <1>10 DEF Inv, NothingHeldBack, NoRequestDropped, LoopIdle, Begun,
                                       ConnectedFirst

\* When the client's loop ends, less than the next message is left, which
\* leaves space in the buffer.
LEMMA ClientRest ==
  ASSUME Inv, EndFrame, end = "client"
  PROVE  /\ Len(taken) < NumMessages => first + mRecvBufferCount < Start[Len(taken) + 2]
         /\ mRecvBufferCount' < MaxBuffer
<1> DEFINE n == Len(taken) + 1
<1>1. /\ Len(taken) \in Nat /\ Len(taken) <= NumMessages
      /\ first + processLength = Start[n]
      /\ first \in Nat /\ processLength \in Nat /\ mRecvBufferCount \in Nat
      /\ first + mRecvBufferCount <= Total
      /\ mRecvBufferCount' = mRecvBufferCount - processLength
      /\ ~MessageThere
  BY Constants DEF Inv, TypeOK, InOrder, WithinBuffer, EndFrame, Rest
<1>2. CASE n = NumMessages + 1
  BY <1>1, <1>2, Constants DEF Total
<1>3. CASE n # NumMessages + 1
  <2>1. n \in 1 .. NumMessages
    BY <1>1, <1>3, Constants
  <2>2. /\ SizeAt(Start[n]) = Start[n + 1] - Start[n]
        /\ SizeAt(Start[n]) \in HeaderSize .. MaxBuffer
    BY <2>1, HeaderSays
  <2>3. mRecvBufferCount - processLength < SizeAt(Start[n])
    BY <1>1, <2>2, Constants DEF MessageThere, DataLength
  <2>4. Start[n] \in Nat /\ Start[n + 1] \in Nat /\ n + 1 = Len(taken) + 2
    BY <1>1, <2>1, Constants
  <2> QED
    BY <1>1, <2>2, <2>3, <2>4, Constants
<1> QED
  BY <1>2, <1>3

LEMMA EndFrameInv ==
  ASSUME Inv, EndFrame
  PROVE  Inv'
<1>1. /\ given' = Len(taken) /\ taken' = taken /\ arrived' = arrived
      /\ mRecvBufferCount' = mRecvBufferCount - processLength
      /\ first' = first + mRecvBufferCount - mRecvBufferCount'
      /\ processLength' = 0 /\ length' = 0
      /\ end' = end /\ main' = main /\ mIsConnected' = mIsConnected /\ dropped' = dropped
      /\ pc = "framing" /\ pc' \in {"reading", "stopped"}
  BY DEF EndFrame, Rest, lifecycle
<1>2. /\ first \in Nat /\ processLength \in Nat /\ mRecvBufferCount \in Nat /\ arrived \in Nat
      /\ mRecvBufferCount <= MaxBuffer /\ arrived <= Total
      /\ processLength <= mRecvBufferCount /\ first + mRecvBufferCount <= arrived
      /\ Len(taken) \in Nat
  BY Constants DEF Inv, TypeOK, WithinBuffer
<1>3. first' = first + processLength /\ mRecvBufferCount' \in 0 .. MaxBuffer /\ first' \in 0 .. Total
  BY <1>1, <1>2, Constants
<1>4. TypeOK'
  BY <1>1, <1>2, <1>3, Constants DEF Inv, TypeOK
<1>5. InOrder'
  BY <1>1 DEF Inv, InOrder
<1>6. WithinBuffer'
  BY <1>1, <1>2, <1>3 DEF Inv, WithinBuffer
<1>7. NothingHeldBack'
  BY <1>1, <1>2, <1>3, ClientRest DEF NothingHeldBack
<1> QED
  BY <1>1, <1>3, <1>4, <1>5, <1>6, <1>7 DEF Inv, NoRequestDropped, LoopIdle, WithinRead, Begun,
                                            ConnectedFirst

LEMMA ReadInv ==
  ASSUME Inv, NEW n \in 0 .. ReadChunk, ReadCompletes(n)
  PROVE  Inv'
<1>1. /\ pc = "reading" /\ pc' = "framing"
      /\ n <= MaxBuffer - mRecvBufferCount /\ first + mRecvBufferCount + n <= arrived
      /\ mRecvBufferCount' = mRecvBufferCount + n /\ length' = n /\ processLength' = 0
      /\ UNCHANGED <<end, main, mIsConnected, dropped, arrived, first, taken, given>>
  BY Constants DEF ReadCompletes, CanReadByte, Smaller, lifecycle, Inv, TypeOK
<1>2. TypeOK'
  BY <1>1, Constants DEF Inv, TypeOK
<1>3. WithinBuffer'
  BY <1>1, Constants DEF Inv, TypeOK, WithinBuffer, LoopIdle
<1>4. WithinRead'
  BY <1>1, Constants DEF Inv, TypeOK, WithinRead
<1> QED
  BY <1>1, <1>2, <1>3, <1>4 DEF Inv, InOrder, NothingHeldBack, NoRequestDropped, LoopIdle, Begun,
                                ConnectedFirst

\* The steps that leave the buffer alone.
LEMMA OtherInv ==
  ASSUME Inv,
         \/ ConnectDone
         \/ \E n \in arrived + 1 .. Total : Arrive(n)
         \/ ReadClobbered \/ Fail \/ ClientWrite \/ Quit
         \/ UNCHANGED vars
  PROVE  Inv'
<1>1. UNCHANGED <<end, buffer>>
  BY DEF ConnectDone, Arrive, ReadClobbered, Fail, ClientWrite, Quit, vars
<1>2. arrived' \in 0 .. Total /\ arrived <= arrived'
  BY Constants DEF Inv, TypeOK, ConnectDone, Arrive, ReadClobbered, Fail, ClientWrite, Quit, vars
<1>3. TypeOK'
  BY <1>1, <1>2 DEF Inv, TypeOK, ConnectDone, ConnectedFlag, Arrive, ReadClobbered, Fail,
                    ClientWrite, Quit, vars, lifecycle, buffer
<1>4. WithinBuffer'
  BY <1>1, <1>2, Constants DEF Inv, TypeOK, WithinBuffer, buffer
<1>5. NothingHeldBack'
  <2>1. pc' = "reading" => pc = "reading" \/ pc = "connecting"
    BY DEF ConnectDone, Arrive, ReadClobbered, Fail, ClientWrite, Quit, vars
  <2>2. CASE pc = "reading"
    BY <1>1, <2>2 DEF Inv, NothingHeldBack, buffer
  <2>3. CASE pc = "connecting"
    <3>1. Len(taken') = 0 /\ first' + mRecvBufferCount' = 0
      BY <1>1, <2>3 DEF Inv, Begun, buffer
    <3>2. 0 < NumMessages => 0 < Start[2]
      BY ConnectionAssumption
    <3> QED
      BY <3>1, <3>2 DEF NothingHeldBack
  <2> QED
    BY <2>1, <2>2, <2>3 DEF NothingHeldBack
<1>6. NoRequestDropped' /\ ConnectedFirst' /\ Begun'
  BY <1>1, Constants DEF Inv, TypeOK, NoRequestDropped, ConnectedFirst, Begun, ConnectDone, ConnectedFlag,
              Arrive, ReadClobbered, Fail, ClientWrite, ClientLives, Quit, vars, lifecycle, buffer
<1>7. LoopIdle'
  BY <1>1 DEF Inv, LoopIdle, ConnectDone, Arrive, ReadClobbered, Fail, ClientWrite, Quit, vars,
              buffer
<1> QED
  BY <1>1, <1>3, <1>4, <1>5, <1>6, <1>7 DEF Inv, InOrder, WithinRead, buffer

\* The invariant holds throughout.
THEOREM ConnectionInv == Spec => []Inv
<1>1. Init => Inv
  BY InitInv
<1>2. Inv /\ [Next]_vars => Inv'
  BY FrameInv, EndFrameInv, ReadInv, OtherInv DEF Next
<1> QED
  BY <1>1, <1>2, PTL DEF Spec

\* The state keeps its type; in particular a read never fills more than there
\* is space for (Session.cpp:38, Client/Network.cpp:114).
THEOREM ConnectionTypes == Spec => []TypeOK
  BY ConnectionInv, PTL DEF Inv

\* What is taken out of the stream is what was sent, whole and in order,
\* however TCP cuts it, on both ends.
THEOREM MessagesInOrder == Spec => []InOrder
  BY ConnectionInv, PTL DEF Inv

\* The framing loop only looks at bytes that were read.
THEOREM FramingWithinBuffer == Spec => []WithinBuffer
  BY ConnectionInv, PTL DEF Inv

\* A client holds no whole message back between two reads.
THEOREM ClientUpToDate == Spec => []NothingHeldBack
  BY ConnectionInv, PTL DEF Inv

\* A client's requests never find it unconnected.
THEOREM RequestsKept == Spec => []NoRequestDropped
  BY ConnectionInv, PTL DEF Inv

\* A client never runs out of buffer.
THEOREM ClientNeverFull == Spec => NeverFull
<1>1. Inv /\ [Next]_vars => [~(end = "client" /\ pc = "framing" /\ pc' = "stopped")]_vars
  <2> SUFFICES ASSUME Inv, Next, end = "client", pc = "framing", pc' = "stopped"
               PROVE  FALSE
    OBVIOUS
  <2>1. EndFrame
    BY DEF Next, ConnectDone, Arrive, ReadCompletes, ReadClobbered, FrameMessage, Fail,
           ClientWrite, Quit
  <2>2. mRecvBufferCount' < MaxBuffer /\ mRecvBufferCount' \in Nat
    BY <2>1, ClientRest, EndFrameInv, Constants DEF Inv, TypeOK
  <2> QED
    BY <2>1, <2>2, Constants DEF EndFrame
<1> QED
  BY <1>1, ConnectionInv, PTL DEF Spec, NeverFull

\* What a server session holds back between two reads never gets less.
THEOREM LagStays == Spec => LagNeverShrinks
<1> DEFINE Step == end = "server" =>
             /\ taken' # taken => processLength' <= length
             /\ pc = "framing" /\ pc' = "reading" =>
                  mRecvBufferCount' >= mRecvBufferCount - length
<1>1. Inv /\ [Next]_vars => [Step]_vars
  <2> SUFFICES ASSUME Inv, Next, end = "server"
               PROVE  /\ taken' # taken => processLength' <= length
                      /\ pc = "framing" /\ pc' = "reading" =>
                           mRecvBufferCount' >= mRecvBufferCount - length
    BY DEF Step
  <2>1. CASE FrameMessage
    <3>1. /\ SizeAt(first + processLength) \in Nat
          /\ SizeAt(first + processLength) <= DataLength
      BY <2>1, NextMessage DEF FrameMessage
    <3> QED
      BY <2>1, <3>1, Constants DEF FrameMessage, DataLength, Inv, TypeOK
  <2>2. CASE EndFrame
    BY <2>2, Constants DEF EndFrame, Rest, Inv, TypeOK, WithinRead
  <2>3. CASE ~FrameMessage /\ ~EndFrame
    BY <2>3 DEF Next, ConnectDone, Arrive, ReadCompletes, ReadClobbered, Fail, ClientWrite, Quit,
                buffer
  <2> QED
    BY <2>1, <2>2, <2>3
<1> QED
  BY <1>1, ConnectionInv, PTL DEF Spec, LagNeverShrinks
=============================================================================
