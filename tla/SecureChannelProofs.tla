-------------------------- MODULE SecureChannelProofs --------------------------
(***************************************************************************)
(* The secure channel delivers in order, and ends only when something went *)
(* wrong, for messages of any size, queues of any length and every way of  *)
(* cutting the streams.                                                    *)
(***************************************************************************)
EXTENDS SecureChannel, SequenceTheorems, FiniteSetTheorems, WellFoundedInduction, TLAPS

\* A byte of a message carries the id its write call took: ids and calls are
\* counted together, whether or not the message was queued.
Fresh(b, calls) == b.of = "message" => b.call = b.id + 1 /\ b.call <= calls
Stream(calls) == {s \in Seq(Byte) : \A i \in 1..Len(s) : Fresh(s[i], calls)}

Streams ==
  /\ {pending, up, buffer} \subseteq Stream(upCalls)
  /\ {received, down, sending} \subseteq Stream(downCalls)
  /\ writeQueue \in Seq(Stream(upCalls))
  /\ readQueue \in Seq(Stream(downCalls))

Counters ==
  /\ writeId = upCalls
  /\ serverWriteId = downCalls
  /\ console # "closed" => readId = Len(downGot)
  /\ serverReadId = Len(upGot)

\* A body is received only after its size.
SizeFirst ==
  /\ pc = "body" => readQueue # <<>>
  /\ server \in {"xx1", "xx3"} => offset = 0
  /\ server = "ready" => Len(buffer) >= Least(offset, Header)

\* What TypeOK adds to Streams.
Scalars ==
  /\ console \in {"connect", "xx1", "xx2", "xx3", "ready", "closed"}
  /\ pc \in {"idle", "head", "body", "read"}
  /\ server \in {"xx1", "xx3", "ready", "closed"}
  /\ lost \in BOOLEAN /\ split \in BOOLEAN
  /\ readId \in Nat /\ serverReadId \in Nat /\ offset \in Nat
  /\ upCalls \in Nat /\ downCalls \in Nat
  /\ dropped \subseteq 1..upCalls
  /\ upGot \in Seq(Nat) /\ downGot \in Seq(Nat)

Bounded ==
  /\ Len(writeQueue) <= QueueCap /\ Len(readQueue) <= QueueCap
  /\ Len(up) <= Wire /\ Len(down) <= Wire

Inv == Scalars /\ Bounded /\ Streams /\ Counters /\ SizeFirst /\ InOrder
-------------------------------------------------------------------------------
\* The sizes as numbers.
LEMMA SizeFacts == Header = 2 /\ Size \in Nat /\ Size > Header /\ Size = Header + Body
BY SizesAssumption DEF Header, Size

\* The first bytes of a stream are a stream,
LEMMA TakeStream ==
  ASSUME NEW c \in Nat, NEW s \in Stream(c), NEW n \in 0..Len(s)
  PROVE  Take(n, s) \in Stream(c) /\ Len(Take(n, s)) = n
<1>1. s \in Seq(Byte) /\ \A i \in 1..Len(s) : Fresh(s[i], c)
  BY DEF Stream
<1>2. /\ Take(n, s) \in Seq(Byte) /\ Len(Take(n, s)) = n
      /\ \A i \in 1..n : Take(n, s)[i] = s[i]
  BY <1>1, SubSeqProperties DEF Take
<1>3. \A i \in 1..n : Fresh(Take(n, s)[i], c)
  BY <1>1, <1>2
<1>. QED  BY <1>2, <1>3 DEF Stream

\* and so are the others.
LEMMA SkipStream ==
  ASSUME NEW c \in Nat, NEW s \in Stream(c), NEW n \in Nat
  PROVE  /\ Skip(n, s) \in Stream(c)
         /\ n <= Len(s) => Len(Skip(n, s)) = Len(s) - n
<1>1. s \in Seq(Byte) /\ \A i \in 1..Len(s) : Fresh(s[i], c)
  BY DEF Stream
<1>2. Len(s) \in Nat
  BY <1>1, LenProperties
<1>3. \A i \in (n + 1)..Len(s) : s[i] \in Byte
  BY <1>1, <1>2, LenProperties
<1>4. /\ Skip(n, s) \in Seq(Byte)
      /\ Len(Skip(n, s)) = IF n + 1 <= Len(s) THEN Len(s) - n ELSE 0
      /\ \A i \in 1..(Len(s) - n) : Skip(n, s)[i] = s[n + i]
  BY <1>2, <1>3, SubSeqProperties DEF Skip
<1>5. ASSUME NEW i \in 1..Len(Skip(n, s)) PROVE Fresh(Skip(n, s)[i], c)
  <2>1. i \in 1..(Len(s) - n) /\ n + i \in 1..Len(s)
    BY <1>2, <1>4
  <2>. QED  BY <1>1, <1>4, <2>1
<1>6. Skip(n, s) \in Stream(c)
  BY <1>4, <1>5 DEF Stream
<1>. QED  BY <1>2, <1>4, <1>6

\* Two streams make one.
LEMMA ConcatStream ==
  ASSUME NEW c \in Nat, NEW s \in Stream(c), NEW t \in Stream(c)
  PROVE  s \o t \in Stream(c) /\ Len(s \o t) = Len(s) + Len(t)
<1>1. /\ s \in Seq(Byte) /\ \A i \in 1..Len(s) : Fresh(s[i], c)
      /\ t \in Seq(Byte) /\ \A i \in 1..Len(t) : Fresh(t[i], c)
  BY DEF Stream
<1>2. /\ s \o t \in Seq(Byte) /\ Len(s \o t) = Len(s) + Len(t)
      /\ \A i \in 1..(Len(s) + Len(t)) :
           (s \o t)[i] = IF i <= Len(s) THEN s[i] ELSE t[i - Len(s)]
  BY <1>1, ConcatProperties
<1>3. \A i \in 1..(Len(s) + Len(t)) : Fresh((s \o t)[i], c)
  BY <1>1, <1>2, LenProperties
<1>. QED  BY <1>2, <1>3 DEF Stream

\* An interval from one gives its end away: what the length of a function is.
LEMMA SameInterval == \A m, n \in Nat : 1..m = 1..n => m = n
<1>. SUFFICES ASSUME NEW m \in Nat, NEW n \in Nat, 1..m = 1..n PROVE m = n
  OBVIOUS
<1>1. m \in 1..n \/ m = 0
  OBVIOUS
<1>2. n \in 1..m \/ n = 0
  OBVIOUS
<1>. QED  BY <1>1, <1>2

\* A packet written by a call that was made is a stream.
LEMMA PacketStream ==
  ASSUME NEW c \in Nat, NEW of \in Packets, NEW id \in Nat, NEW call \in Nat,
         of = "message" => call = id + 1 /\ call <= c
  PROVE  Packet(of, id, call) \in Stream(c)
<1>1. SizeOf(of) \in Nat
  BY SizesAssumption, SizeFacts DEF SizeOf
<1>a. \A i \in 1..SizeOf(of) :
        [of |-> of, at |-> i, id |-> id, call |-> call] \in Byte
  BY <1>1 DEF Byte
<1>b. \A i \in 1..SizeOf(of) :
        Packet(of, id, call)[i] = [of |-> of, at |-> i, id |-> id, call |-> call]
  BY DEF Packet
<1>c. Packet(of, id, call) \in [1..SizeOf(of) -> Byte]
  BY <1>a DEF Packet
<1>d. Packet(of, id, call) \in Seq(Byte)
  BY <1>1, <1>c, SeqDef
<1>e. DOMAIN Packet(of, id, call) = 1..SizeOf(of)
  BY <1>c
<1>2. Len(Packet(of, id, call)) = SizeOf(of)
  BY <1>1, <1>d, <1>e, LenProperties, SameInterval
<1>3. ASSUME NEW i \in 1..SizeOf(of) PROVE Fresh(Packet(of, id, call)[i], c)
  <2>1. /\ Packet(of, id, call)[i].of = of
        /\ Packet(of, id, call)[i].id = id
        /\ Packet(of, id, call)[i].call = call
    <3>1. Packet(of, id, call)[i] = [of |-> of, at |-> i, id |-> id, call |-> call]
      BY <1>b
    <3>. QED  BY <3>1
  <2>. QED  BY <2>1 DEF Fresh
<1>. QED  BY <1>d, <1>2, <1>3 DEF Stream

\* No bytes are a stream.
LEMMA EmptyStream == \A c \in Nat : <<>> \in Stream(c)
BY DEF Stream

\* A stream stays one when more calls are made.
LEMMA MoreCalls ==
  ASSUME NEW c \in Nat
  PROVE  /\ Stream(c) \subseteq Stream(c + 1)
         /\ \A q \in Seq(Stream(c)) : q \in Seq(Stream(c + 1))
<1>1. \A b \in Byte : Fresh(b, c) => Fresh(b, c + 1)
  BY DEF Fresh, Byte
<1>2. ASSUME NEW s \in Stream(c) PROVE s \in Stream(c + 1)
  BY <1>1 DEF Stream
<1>. QED  BY <1>2

\* The invariant gives the types.
LEMMA InvTypes == Inv => TypeOK
<1>. SUFFICES ASSUME Inv PROVE TypeOK
  OBVIOUS
<1>1. Stream(upCalls) \subseteq Seq(Byte) /\ Stream(downCalls) \subseteq Seq(Byte)
  BY DEF Stream
<1>2. writeQueue \in Seq(Seq(Byte)) /\ readQueue \in Seq(Seq(Byte))
  BY <1>1, SeqMonotonic DEF Inv, Streams
<1>. QED  BY <1>1, <1>2 DEF Inv, Scalars, Bounded, Streams, Counters, TypeOK

\* The invariant holds of a new connection.
LEMMA InitInv == Init => Inv
<1>. SUFFICES ASSUME Init PROVE Inv
  OBVIOUS
<1>1. Streams
  BY EmptyStream, EmptySeq DEF Init, Streams
<1>2. Bounded /\ InOrder
  BY SizesAssumption DEF Init, Bounded, InOrder
<1>3. Scalars /\ Counters
  BY EmptySeq DEF Init, Scalars, Counters
<1>4. SizeFirst
  BY DEF Init, SizeFirst
<1>. QED  BY <1>1, <1>2, <1>3, <1>4 DEF Inv

\* What moving n bytes of a stream does to it and to the one they go to.
LEMMA MoveBytes ==
  ASSUME NEW c \in Nat, NEW from \in Stream(c), NEW to \in Stream(c),
         NEW n \in 1..Len(from)
  PROVE  /\ to \o Take(n, from) \in Stream(c)
         /\ Len(to \o Take(n, from)) = Len(to) + n
         /\ Skip(n, from) \in Stream(c)
         /\ Len(Skip(n, from)) = Len(from) - n
<1>1. Len(from) \in Nat /\ Len(to) \in Nat
  BY LenProperties DEF Stream
<1>2. n \in 0..Len(from) /\ n \in Nat /\ n <= Len(from)
  BY <1>1
<1>3. Take(n, from) \in Stream(c) /\ Len(Take(n, from)) = n
  BY <1>2, TakeStream
<1>4. /\ to \o Take(n, from) \in Stream(c)
      /\ Len(to \o Take(n, from)) = Len(to) + n
  BY <1>3, ConcatStream
<1>5. Skip(n, from) \in Stream(c) /\ Len(Skip(n, from)) = Len(from) - n
  BY <1>2, SkipStream
<1>. QED  BY <1>4, <1>5

\* What one call moves is within both its bounds.
LEMMA LeastFacts ==
  \A m, n \in Nat : \A k \in Some(Least(m, n)) : k \in Nat /\ k >= 1 /\ k <= m /\ k <= n
BY DEF Some, Least

\* The lengths are numbers and the wires hold no more than they may.
LEMMA Lengths ==
  ASSUME Inv
  PROVE  /\ \A s \in {pending, up, buffer, received, down, sending} : Len(s) \in Nat
         /\ Len(writeQueue) \in Nat /\ Len(readQueue) \in Nat
         /\ Space(up) \in Nat /\ Space(down) \in Nat
<1>1. \A s \in Stream(upCalls) \cup Stream(downCalls) : Len(s) \in Nat
  BY LenProperties DEF Stream
<1>2. Len(writeQueue) \in Nat /\ Len(readQueue) \in Nat
  BY LenProperties DEF Inv, Streams
<1>3. \A s \in {pending, up, buffer, received, down, sending} : Len(s) \in Nat
  BY <1>1 DEF Inv, Streams
<1>. QED  BY <1>2, <1>3, SizesAssumption DEF Inv, Bounded, Space

\* The streams of the invariant, one by one.
LEMMA Typed ==
  ASSUME Inv
  PROVE  /\ upCalls \in Nat /\ downCalls \in Nat
         /\ pending \in Stream(upCalls) /\ up \in Stream(upCalls)
         /\ buffer \in Stream(upCalls)
         /\ received \in Stream(downCalls) /\ down \in Stream(downCalls)
         /\ sending \in Stream(downCalls)
         /\ writeQueue \in Seq(Stream(upCalls)) /\ readQueue \in Seq(Stream(downCalls))
BY DEF Inv, Scalars, Streams

\* One lemma for each action from here: Connect.
LEMMA ConnectInv == ASSUME Inv, Connect PROVE Inv'
<1>1. Scalars'
  BY DEF Inv, Scalars, Connect, consoleVars, writerVars, readerVars, serverReaderVars, serverWriterVars
<1>2. Bounded'
  BY DEF Inv, Bounded, Connect, consoleVars, writerVars, readerVars, serverReaderVars, serverWriterVars
<1>3. Streams'
  <2>1. Packet("xx1", 0, 0) \in Stream(upCalls)
    BY PacketStream DEF Packets, Inv, Scalars
  <2>. QED  BY <2>1 DEF Inv, Streams, Connect, consoleVars, writerVars, readerVars, serverReaderVars, serverWriterVars
<1>4. Counters'
  BY DEF Inv, Counters, Connect, consoleVars, writerVars, readerVars, serverReaderVars, serverWriterVars
<1>5. SizeFirst'
  BY DEF Inv, SizeFirst, Connect, consoleVars, writerVars, readerVars, serverReaderVars, serverWriterVars
<1>6. InOrder'
  BY DEF Inv, InOrder, Connect, consoleVars, writerVars, readerVars, serverReaderVars, serverWriterVars
<1>. QED  BY <1>1, <1>2, <1>3, <1>4, <1>5, <1>6 DEF Inv

\* ConsoleFails changes only the state of the console.
LEMMA ConsoleFailsInv == ASSUME Inv, ConsoleFails PROVE Inv'
<1>1. Scalars'
  BY DEF Inv, Scalars, ConsoleFails, consoleVars, writerVars, readerVars, serverReaderVars, serverWriterVars
<1>2. Bounded'
  BY DEF Inv, Bounded, ConsoleFails, consoleVars, writerVars, readerVars, serverReaderVars, serverWriterVars
<1>3. Streams'
  BY DEF Inv, Streams, ConsoleFails, consoleVars, writerVars, readerVars, serverReaderVars, serverWriterVars
<1>4. Counters'
  BY DEF Inv, Counters, ConsoleFails, consoleVars, writerVars, readerVars, serverReaderVars, serverWriterVars
<1>5. SizeFirst'
  BY DEF Inv, SizeFirst, ConsoleFails, consoleVars, writerVars, readerVars, serverReaderVars, serverWriterVars
<1>6. InOrder'
  BY DEF Inv, InOrder, ConsoleFails, consoleVars, writerVars, readerVars, serverReaderVars, serverWriterVars
<1>. QED  BY <1>1, <1>2, <1>3, <1>4, <1>5, <1>6 DEF Inv

\* ServerFails changes only the state of the server.
LEMMA ServerFailsInv == ASSUME Inv, ServerFails PROVE Inv'
<1>1. Scalars'
  BY DEF Inv, Scalars, ServerFails, consoleVars, writerVars, readerVars, serverReaderVars, serverWriterVars
<1>2. Bounded'
  BY DEF Inv, Bounded, ServerFails, consoleVars, writerVars, readerVars, serverReaderVars, serverWriterVars
<1>3. Streams'
  BY DEF Inv, Streams, ServerFails, consoleVars, writerVars, readerVars, serverReaderVars, serverWriterVars
<1>4. Counters'
  BY DEF Inv, Counters, ServerFails, consoleVars, writerVars, readerVars, serverReaderVars, serverWriterVars
<1>5. SizeFirst'
  BY DEF Inv, SizeFirst, ServerFails, consoleVars, writerVars, readerVars, serverReaderVars, serverWriterVars
<1>6. InOrder'
  BY DEF Inv, InOrder, ServerFails, consoleVars, writerVars, readerVars, serverReaderVars, serverWriterVars
<1>. QED  BY <1>1, <1>2, <1>3, <1>4, <1>5, <1>6 DEF Inv

\* Lose changes only lost.
LEMMA LoseInv == ASSUME Inv, Lose PROVE Inv'
<1>1. Scalars'
  BY DEF Inv, Scalars, Lose, consoleVars, writerVars, readerVars, serverReaderVars, serverWriterVars
<1>2. Bounded'
  BY DEF Inv, Bounded, Lose, consoleVars, writerVars, readerVars, serverReaderVars, serverWriterVars
<1>3. Streams'
  BY DEF Inv, Streams, Lose, consoleVars, writerVars, readerVars, serverReaderVars, serverWriterVars
<1>4. Counters'
  BY DEF Inv, Counters, Lose, consoleVars, writerVars, readerVars, serverReaderVars, serverWriterVars
<1>5. SizeFirst'
  BY DEF Inv, SizeFirst, Lose, consoleVars, writerVars, readerVars, serverReaderVars, serverWriterVars
<1>6. InOrder'
  BY DEF Inv, InOrder, Lose, consoleVars, writerVars, readerVars, serverReaderVars, serverWriterVars
<1>. QED  BY <1>1, <1>2, <1>3, <1>4, <1>5, <1>6 DEF Inv

\* Bytes of a key exchange packet move to the wire.
LEMMA SendHandshakeInv == ASSUME Inv, SendHandshake PROVE Inv'
<1>a. PICK n \in Some(Least(Len(pending), Space(up))) :
        /\ up' = up \o Take(n, pending)
        /\ pending' = Skip(n, pending)
        /\ console' = IF n < Len(pending) THEN console
                      ELSE IF console = "xx1" THEN "xx2" ELSE "ready"
  BY DEF SendHandshake
<1>b. n \in 1..Len(pending) /\ n <= Space(up)
  BY Lengths, LeastFacts
<1>c. /\ up' \in Stream(upCalls) /\ Len(up') = Len(up) + n
      /\ pending' \in Stream(upCalls)
  BY <1>a, <1>b, Typed, MoveBytes
<1>1. Scalars'
  BY <1>a DEF Inv, Scalars, SendHandshake, consoleVars, writerVars, readerVars, serverReaderVars, serverWriterVars
<1>2. Bounded'
  BY <1>b, <1>c, Lengths, SizesAssumption DEF Inv, Bounded, SendHandshake, Space, consoleVars, writerVars, readerVars, serverReaderVars, serverWriterVars
<1>3. Streams'
  BY <1>c DEF Inv, Streams, SendHandshake, consoleVars, writerVars, readerVars, serverReaderVars, serverWriterVars
<1>4. Counters'
  BY <1>a DEF Inv, Counters, SendHandshake, consoleVars, writerVars, readerVars, serverReaderVars, serverWriterVars
<1>5. SizeFirst'
  BY <1>a DEF Inv, SizeFirst, SendHandshake, consoleVars, writerVars, readerVars, serverReaderVars, serverWriterVars
<1>6. InOrder'
  BY <1>a DEF Inv, InOrder, SendHandshake, consoleVars, writerVars, readerVars, serverReaderVars, serverWriterVars
<1>. QED  BY <1>1, <1>2, <1>3, <1>4, <1>5, <1>6 DEF Inv

\* Bytes of xx2 move from the wire.
LEMMA ReceiveHandshakeInv == ASSUME Inv, ReceiveHandshake PROVE Inv'
<1>a. PICK n \in Some(Least(Handshake - Len(received), Len(down))) :
        /\ received' = received \o Take(n, down)
        /\ down' = Skip(n, down)
  BY DEF ReceiveHandshake
<1>b. n \in 1..Len(down)
  BY Lengths, SizesAssumption DEF Some, Least
<1>c. /\ received' \in Stream(downCalls)
      /\ down' \in Stream(downCalls) /\ Len(down') = Len(down) - n
  <2>1. /\ received \o Take(n, down) \in Stream(downCalls)
        /\ Skip(n, down) \in Stream(downCalls)
        /\ Len(Skip(n, down)) = Len(down) - n
    BY <1>b, Typed, MoveBytes
  <2>. QED  BY <1>a, <2>1
<1>d. Packet("xx3", 0, 0) \in Stream(upCalls)
  BY PacketStream DEF Packets, Inv, Scalars
<1>e. pending' \in {pending, Packet("xx3", 0, 0)}
  BY DEF ReceiveHandshake
<1>f. console = "xx2" /\ console' \in {"xx2", "xx3", "closed"}
  BY DEF ReceiveHandshake
<1>1. Scalars'
  BY <1>f DEF Inv, Scalars, ReceiveHandshake, consoleVars, writerVars, readerVars, serverReaderVars, serverWriterVars
<1>2. Bounded'
  <2>1. UNCHANGED <<writeQueue, readQueue, up>>
    BY DEF ReceiveHandshake, consoleVars, writerVars, readerVars, serverReaderVars, serverWriterVars
  <2>2. Len(down') <= Len(down)
    BY <1>b, <1>c, Lengths
  <2>. QED  BY <2>1, <2>2, <1>c, Lengths, SizesAssumption DEF Inv, Bounded
<1>3. Streams'
  BY <1>c, <1>d, <1>e DEF Inv, Streams, ReceiveHandshake, consoleVars, writerVars, readerVars, serverReaderVars, serverWriterVars
<1>4. Counters'
  BY <1>f DEF Inv, Counters, ReceiveHandshake, consoleVars, writerVars, readerVars, serverReaderVars, serverWriterVars
<1>5. SizeFirst'
  BY DEF Inv, SizeFirst, ReceiveHandshake, consoleVars, writerVars, readerVars, serverReaderVars, serverWriterVars
<1>6. InOrder'
  BY DEF Inv, InOrder, ReceiveHandshake, consoleVars, writerVars, readerVars, serverReaderVars, serverWriterVars
<1>. QED  BY <1>1, <1>2, <1>3, <1>4, <1>5, <1>6 DEF Inv

\* Bytes of the front message move to the wire.
LEMMA SendFrontInv == ASSUME Inv, SendFront PROVE Inv'
<1>a. ASSUME NEW n \in Some(Least(Len(Head(writeQueue)), Space(up))), writeQueue # <<>>
      PROVE  /\ up \o Take(n, Head(writeQueue)) \in Stream(upCalls)
             /\ Len(up \o Take(n, Head(writeQueue))) <= Wire
             /\ Tail(writeQueue) \in Seq(Stream(upCalls))
             /\ Len(Tail(writeQueue)) <= QueueCap
             /\ <<Skip(n, Head(writeQueue))>> \o Tail(writeQueue) \in Seq(Stream(upCalls))
             /\ Len(<<Skip(n, Head(writeQueue))>> \o Tail(writeQueue)) <= QueueCap
  <2>1. /\ Head(writeQueue) \in Stream(upCalls)
        /\ Tail(writeQueue) \in Seq(Stream(upCalls))
        /\ Len(Tail(writeQueue)) = Len(writeQueue) - 1
    BY <1>a, Typed, HeadTailProperties
  <2>2. Len(Head(writeQueue)) \in Nat
    BY <2>1, LenProperties DEF Stream
  <2>3. n \in 1..Len(Head(writeQueue)) /\ n <= Space(up) /\ n \in Nat
    BY <2>2, Lengths, LeastFacts
  <2>4. /\ up \o Take(n, Head(writeQueue)) \in Stream(upCalls)
        /\ Len(up \o Take(n, Head(writeQueue))) = Len(up) + n
        /\ Skip(n, Head(writeQueue)) \in Stream(upCalls)
    BY <2>1, <2>3, Typed, MoveBytes
  <2>5. /\ <<Skip(n, Head(writeQueue))>> \in Seq(Stream(upCalls))
        /\ Len(<<Skip(n, Head(writeQueue))>>) = 1
    BY <2>4
  <2>6. /\ <<Skip(n, Head(writeQueue))>> \o Tail(writeQueue) \in Seq(Stream(upCalls))
        /\ Len(<<Skip(n, Head(writeQueue))>> \o Tail(writeQueue)) = Len(writeQueue)
    BY <2>1, <2>5, ConcatProperties, Lengths
  <2>7. Len(up) + n <= Wire
    BY <2>3, Lengths, SizesAssumption DEF Space
  <2>8. Len(writeQueue) <= QueueCap /\ Len(writeQueue) \in Nat /\ QueueCap \in Nat
    BY Lengths, SizesAssumption DEF Inv, Bounded
  <2>. QED  BY <2>1, <2>4, <2>6, <2>7, <2>8
<1>b. /\ up' \in Stream(upCalls) /\ Len(up') <= Wire
      /\ writeQueue' \in Seq(Stream(upCalls)) /\ Len(writeQueue') <= QueueCap
  <2>1. CASE writeQueue = <<>> \/ Space(up) = 0
    BY <2>1, Typed DEF SendFront, Inv, Bounded
  <2>2. CASE ~(writeQueue = <<>> \/ Space(up) = 0)
    BY <2>2, <1>a DEF SendFront
  <2>. QED  BY <2>1, <2>2
<1>c. UNCHANGED <<console, pending, received, writeId, upCalls, dropped, readerVars, lost,
                  down, server, sending, serverReaderVars, serverWriterVars>>
      /\ pc' = "head"
  BY DEF SendFront
<1>1. Scalars'
  BY <1>b, <1>c DEF Inv, Scalars, readerVars, serverReaderVars, serverWriterVars
<1>2. Bounded'
  BY <1>b, <1>c DEF Inv, Bounded, readerVars, serverReaderVars, serverWriterVars
<1>3. Streams'
  BY <1>b, <1>c DEF Inv, Streams, readerVars, serverReaderVars, serverWriterVars
<1>4. Counters'
  BY <1>b, <1>c DEF Inv, Counters, readerVars, serverReaderVars, serverWriterVars
<1>5. SizeFirst'
  BY <1>b, <1>c DEF Inv, SizeFirst, readerVars, serverReaderVars, serverWriterVars
<1>6. InOrder'
  BY <1>b, <1>c DEF Inv, InOrder, readerVars, serverReaderVars, serverWriterVars
<1>. QED  BY <1>1, <1>2, <1>3, <1>4, <1>5, <1>6 DEF Inv

\* The queue poll receives into is not empty and fits.
LEMMA ReceptionFacts ==
  ASSUME Inv
  PROVE  /\ Reception \in Seq(Stream(downCalls)) /\ Reception # <<>>
         /\ Len(Reception) \in Nat /\ Len(Reception) <= QueueCap
<1>1. /\ Append(readQueue, <<>>) \in Seq(Stream(downCalls))
      /\ Append(readQueue, <<>>) # <<>>
      /\ Len(Append(readQueue, <<>>)) = Len(readQueue) + 1
  BY Typed, EmptyStream, AppendProperties
<1>2. Len(readQueue) \in Nat /\ Len(readQueue) <= QueueCap /\ QueueCap \in Nat \ {0}
  BY Lengths, SizesAssumption DEF Inv, Bounded
<1>3. readQueue = <<>> => Len(readQueue) < QueueCap
  BY <1>2, EmptySeq
<1>. QED  BY <1>1, <1>2, <1>3, Typed DEF Reception

\* What SORecv moves to it are bytes of the stream.
LEMMA ReceiveFacts ==
  ASSUME Inv, NEW queue \in Seq(Stream(downCalls)), queue # <<>>,
         NEW most \in Nat, Receive(queue, most)
  PROVE  /\ readQueue' \in Seq(Stream(downCalls)) /\ Len(readQueue') = Len(queue)
         /\ down' \in Stream(downCalls) /\ Len(down') <= Len(down)
<1>1. CASE down = <<>>
  BY <1>1, Typed, Lengths DEF Receive
<1>2. CASE down # <<>>
  <2>1. PICK n \in Some(Least(most, Len(down))) :
          /\ readQueue' = [queue EXCEPT ![Len(queue)] = @ \o Take(n, down)]
          /\ down' = Skip(n, down)
    BY <1>2 DEF Receive
  <2>2. n \in 1..Len(down)
    BY Lengths, LeastFacts
  <2>3. Len(queue) \in 1..Len(queue)
    BY EmptySeq
  <2>4. queue[Len(queue)] \in Stream(downCalls)
    BY <2>3, ElementOfSeq
  <2>5. /\ queue[Len(queue)] \o Take(n, down) \in Stream(downCalls)
        /\ Skip(n, down) \in Stream(downCalls)
        /\ Len(Skip(n, down)) = Len(down) - n
    <3>1. PICK last \in Stream(downCalls) : last = queue[Len(queue)]
      BY <2>4
    <3>2. downCalls \in Nat /\ down \in Stream(downCalls)
      BY Typed
    <3>3. /\ last \o Take(n, down) \in Stream(downCalls)
          /\ Skip(n, down) \in Stream(downCalls)
          /\ Len(Skip(n, down)) = Len(down) - n
      BY <2>2, <3>2, MoveBytes
    <3>. QED  BY <3>1, <3>3
  <2>6. /\ readQueue' \in Seq(Stream(downCalls)) /\ Len(readQueue') = Len(queue)
    BY <2>1, <2>3, <2>5, ExceptSeq
  <2>7. Len(down) - n <= Len(down)
    BY <2>2, Lengths
  <2>. QED  BY <2>1, <2>5, <2>6, <2>7
<1>. QED  BY <1>1, <1>2

\* A step of poll that receives keeps the invariant.
LEMMA ReceiveKeeps ==
  ASSUME Inv,
         console = "ready", pc' \in {"idle", "head", "body", "read"},
         readQueue' \in Seq(Stream(downCalls)), Len(readQueue') <= QueueCap,
         pc' = "body" => readQueue' # <<>>,
         down' \in Stream(downCalls), Len(down') <= Len(down),
         UNCHANGED <<console, pending, received, writerVars, readId, downGot, lost, up, server,
                     sending, serverReaderVars, serverWriterVars>>
  PROVE  Inv'
<1>1. Len(down') \in Nat /\ Len(down) \in Nat /\ Len(down) <= Wire /\ Wire \in Nat
  BY Lengths, LenProperties, SizesAssumption DEF Stream, Inv, Bounded
<1>2. Bounded'
  BY <1>1 DEF Inv, Bounded, writerVars
<1>3. Scalars'
  BY DEF Inv, Scalars, writerVars, serverReaderVars, serverWriterVars
<1>4. Streams'
  BY DEF Inv, Streams, writerVars, serverReaderVars, serverWriterVars
<1>5. Counters'
  BY DEF Inv, Counters, writerVars, serverReaderVars, serverWriterVars
<1>6. SizeFirst'
  BY DEF Inv, SizeFirst, writerVars, serverReaderVars, serverWriterVars
<1>7. InOrder'
  BY DEF Inv, InOrder, writerVars, serverReaderVars, serverWriterVars
<1>. QED  BY <1>2, <1>3, <1>4, <1>5, <1>6, <1>7 DEF Inv

\* ReceiveSize is such a step,
LEMMA ReceiveSizeInv == ASSUME Inv, ReceiveSize PROVE Inv'
<1>1. /\ readQueue' \in Seq(Stream(downCalls)) /\ Len(readQueue') = Len(Reception)
      /\ down' \in Stream(downCalls) /\ Len(down') <= Len(down)
  <2>1. Len(Reception) \in 1..Len(Reception)
    BY ReceptionFacts, EmptySeq
  <2>2. Len(Reception[Len(Reception)]) \in Nat
    BY <2>1, ReceptionFacts, ElementOfSeq, LenProperties DEF Stream
  <2>3. CASE Len(Reception[Len(Reception)]) < Header
    <3>1. Receive(Reception, Header - Len(Reception[Len(Reception)]))
      BY <2>3 DEF ReceiveSize
    <3>2. Header - Len(Reception[Len(Reception)]) \in Nat
      BY <2>2, <2>3, SizeFacts
    <3>. QED  BY <3>1, <3>2, ReceptionFacts, ReceiveFacts
  <2>4. CASE ~(Len(Reception[Len(Reception)]) < Header)
    BY <2>4, ReceptionFacts, Typed, Lengths DEF ReceiveSize
  <2>. QED  BY <2>3, <2>4
<1>2. readQueue' # <<>>
  BY <1>1, ReceptionFacts, EmptySeq
<1>3. /\ console = "ready" /\ pc' = "body"
      /\ UNCHANGED <<console, pending, received, writerVars, readId, downGot, lost, up, server,
                     sending, serverReaderVars, serverWriterVars>>
  BY DEF ReceiveSize, Polling
<1>. QED  BY <1>1, <1>2, <1>3, ReceptionFacts, ReceiveKeeps

\* and so is ReceiveBody.
LEMMA ReceiveBodyInv == ASSUME Inv, ReceiveBody PROVE Inv'
<1>1. /\ console = "ready" /\ pc = "body" /\ pc' = "read"
      /\ UNCHANGED <<console, pending, received, writerVars, readId, downGot, lost, up, server,
                     sending, serverReaderVars, serverWriterVars>>
  BY DEF ReceiveBody, Polling
<1>2. readQueue # <<>> /\ Len(readQueue) <= QueueCap
  BY <1>1 DEF Inv, SizeFirst, Bounded
<1>3. Len(readQueue[Len(readQueue)]) \in Nat
  <2>1. Len(readQueue) \in 1..Len(readQueue)
    BY <1>2, Typed, EmptySeq
  <2>. QED  BY <2>1, Typed, ElementOfSeq, LenProperties DEF Stream
<1>4. /\ readQueue' \in Seq(Stream(downCalls)) /\ Len(readQueue') = Len(readQueue)
      /\ down' \in Stream(downCalls) /\ Len(down') <= Len(down)
  <2>1. CASE /\ Len(readQueue[Len(readQueue)]) >= Header
             /\ Len(readQueue[Len(readQueue)]) + Header < Body
    <3>1. Receive(readQueue, Size - Len(readQueue[Len(readQueue)]))
      BY <2>1 DEF ReceiveBody
    <3>2. Size - Len(readQueue[Len(readQueue)]) \in Nat
      BY <1>3, <2>1, SizeFacts, SizesAssumption
    <3>. QED  BY <1>2, <3>1, <3>2, Typed, ReceiveFacts
  <2>2. CASE ~(/\ Len(readQueue[Len(readQueue)]) >= Header
               /\ Len(readQueue[Len(readQueue)]) + Header < Body)
    BY <2>2, Typed, Lengths DEF ReceiveBody
  <2>. QED  BY <2>1, <2>2
<1>. QED  BY <1>1, <1>2, <1>4, ReceiveKeeps

\* The next message the counter expects is the next one that was written.
LEMMA NextCall ==
  ASSUME NEW c \in Nat, NEW s \in Stream(c), NEW id \in Nat, Authentic(s, id)
  PROVE  s[Size].call = id + 1 /\ id + 1 <= c
<1>1. Size \in 1..Size /\ Len(s) = Size
  BY SizeFacts DEF Authentic
<1>2. s[Size].of = "message" /\ s[Size].id = id
  BY <1>1 DEF Authentic
<1>. QED  BY <1>1, <1>2 DEF Stream, Fresh

\* The next number continues a list of all the numbers from one.
LEMMA AppendInOrder ==
  ASSUME NEW got \in Seq(Nat), \A i \in 1..Len(got) : got[i] = i
  PROVE  /\ Append(got, Len(got) + 1) \in Seq(Nat)
         /\ Len(Append(got, Len(got) + 1)) = Len(got) + 1
         /\ \A i \in 1..(Len(got) + 1) : Append(got, Len(got) + 1)[i] = i
<1>1. Len(got) \in Nat
  BY LenProperties
<1>2. /\ Append(got, Len(got) + 1) \in Seq(Nat)
      /\ Len(Append(got, Len(got) + 1)) = Len(got) + 1
      /\ \A i \in 1..Len(got) : Append(got, Len(got) + 1)[i] = got[i]
      /\ Append(got, Len(got) + 1)[Len(got) + 1] = Len(got) + 1
  BY <1>1, AppendProperties
<1>3. \A i \in 1..(Len(got) + 1) : i \in 1..Len(got) \/ i = Len(got) + 1
  BY <1>1
<1>. QED  BY <1>2, <1>3

\* read decodes the message with the expected id, which is the next one.
LEMMA ReadInv == ASSUME Inv, Read PROVE Inv'
<1>a. /\ console = "ready" /\ pc' = "idle"
      /\ UNCHANGED <<pending, received, writerVars, lost, up, down, server, sending,
                     serverReaderVars, serverWriterVars>>
  BY DEF Read, Polling
<1>b. CASE UNCHANGED <<console, readerVars>>
  <2>1. Scalars'
    BY <1>a, <1>b DEF Inv, Scalars, consoleVars, writerVars, readerVars, serverReaderVars, serverWriterVars
  <2>2. Bounded'
    BY <1>a, <1>b DEF Inv, Bounded, consoleVars, writerVars, readerVars, serverReaderVars, serverWriterVars
  <2>3. Streams'
    BY <1>a, <1>b DEF Inv, Streams, consoleVars, writerVars, readerVars, serverReaderVars, serverWriterVars
  <2>4. Counters'
    BY <1>a, <1>b DEF Inv, Counters, consoleVars, writerVars, readerVars, serverReaderVars, serverWriterVars
  <2>5. SizeFirst'
    BY <1>a, <1>b DEF Inv, SizeFirst, consoleVars, writerVars, readerVars, serverReaderVars, serverWriterVars
  <2>6. InOrder'
    BY <1>a, <1>b DEF Inv, InOrder, consoleVars, writerVars, readerVars, serverReaderVars, serverWriterVars
  <2>. QED  BY <2>1, <2>2, <2>3, <2>4, <2>5, <2>6 DEF Inv
<1>c. CASE ~(readQueue = <<>> \/ Len(Head(readQueue)) < Size)
  <2>a. PICK message \in Stream(downCalls) : message = Head(readQueue)
    BY <1>c, Typed, HeadTailProperties
  <2>b. /\ Tail(readQueue) \in Seq(Stream(downCalls))
        /\ Len(Tail(readQueue)) <= QueueCap
    BY <1>c, Typed, HeadTailProperties, Lengths, SizesAssumption DEF Inv, Bounded
  <2>c. readId' = readId + 1 /\ readId = Len(downGot) /\ readId \in Nat
    BY <1>a, <1>c DEF Read, Inv, Counters, Scalars
  <2>d. CASE Authentic(message, readId)
    <3>a. /\ downGot' = Append(downGot, message[Size].call)
          /\ readQueue' = Tail(readQueue) /\ UNCHANGED console
      BY <1>c, <2>a, <2>d DEF Read
    <3>b. message[Size].call = Len(downGot) + 1 /\ Len(downGot) + 1 <= downCalls
      BY <2>c, <2>d, Typed, NextCall
    <3>c. /\ downGot' \in Seq(Nat) /\ Len(downGot') = Len(downGot) + 1
          /\ \A i \in 1..(Len(downGot) + 1) : downGot'[i] = i
      BY <3>a, <3>b, AppendInOrder DEF Inv, Scalars, InOrder
    <3>1. Scalars'
      BY <1>a, <2>b, <2>c, <3>a, <3>b, <3>c DEF Inv, Scalars, writerVars, serverReaderVars, serverWriterVars
    <3>2. Bounded'
      BY <1>a, <2>b, <2>c, <3>a, <3>b, <3>c DEF Inv, Bounded, writerVars, serverReaderVars, serverWriterVars
    <3>3. Streams'
      BY <1>a, <2>b, <2>c, <3>a, <3>b, <3>c DEF Inv, Streams, writerVars, serverReaderVars, serverWriterVars
    <3>4. Counters'
      BY <1>a, <2>b, <2>c, <3>a, <3>b, <3>c DEF Inv, Counters, writerVars, serverReaderVars, serverWriterVars
    <3>5. SizeFirst'
      BY <1>a, <2>b, <2>c, <3>a, <3>b, <3>c DEF Inv, SizeFirst, writerVars, serverReaderVars, serverWriterVars
    <3>6. InOrder'
      BY <1>a, <2>b, <2>c, <3>a, <3>b, <3>c DEF Inv, InOrder, writerVars, serverReaderVars, serverWriterVars
    <3>. QED  BY <3>1, <3>2, <3>3, <3>4, <3>5, <3>6 DEF Inv
  <2>e. CASE ~Authentic(message, readId)
    <3>a. console' = "closed" /\ UNCHANGED <<readQueue, downGot>>
      BY <1>c, <2>a, <2>e DEF Read
    <3>1. Scalars'
      BY <1>a, <2>c, <3>a DEF Inv, Scalars, writerVars, serverReaderVars, serverWriterVars
    <3>2. Bounded'
      BY <1>a, <2>c, <3>a DEF Inv, Bounded, writerVars, serverReaderVars, serverWriterVars
    <3>3. Streams'
      BY <1>a, <2>c, <3>a DEF Inv, Streams, writerVars, serverReaderVars, serverWriterVars
    <3>4. Counters'
      BY <1>a, <2>c, <3>a DEF Inv, Counters, writerVars, serverReaderVars, serverWriterVars
    <3>5. SizeFirst'
      BY <1>a, <2>c, <3>a DEF Inv, SizeFirst, writerVars, serverReaderVars, serverWriterVars
    <3>6. InOrder'
      BY <1>a, <2>c, <3>a DEF Inv, InOrder, writerVars, serverReaderVars, serverWriterVars
    <3>. QED  BY <3>1, <3>2, <3>3, <3>4, <3>5, <3>6 DEF Inv
  <2>. QED  BY <2>d, <2>e
<1>. QED  BY <1>b, <1>c DEF Read

\* write gives a message the id of its call.
LEMMA WriteInv == ASSUME Inv, Write PROVE Inv'
<1>a. /\ console = "ready" /\ upCalls' = upCalls + 1 /\ writeId' = writeId + 1
      /\ console' \in {console, "closed"}
      /\ UNCHANGED <<pc, pending, received, readerVars, lost, up, down, server, sending,
                     serverReaderVars, serverWriterVars>>
  BY DEF Write, Polling
<1>b. upCalls \in Nat /\ writeId = upCalls
  BY DEF Inv, Scalars, Counters
<1>c. /\ pending \in Stream(upCalls + 1) /\ up \in Stream(upCalls + 1)
      /\ buffer \in Stream(upCalls + 1) /\ writeQueue \in Seq(Stream(upCalls + 1))
  BY <1>b, Typed, MoreCalls
<1>d. Packet("message", writeId, upCalls + 1) \in Stream(upCalls + 1)
  <2>1. /\ upCalls + 1 \in Nat /\ writeId \in Nat /\ "message" \in Packets
        /\ upCalls + 1 = writeId + 1
    BY <1>b DEF Packets
  <2>. QED  BY <2>1, PacketStream
<1>e. writeQueue' \in Seq(Stream(upCalls')) /\ Len(writeQueue') <= QueueCap
  <2>1. CASE Len(writeQueue) < QueueCap
    <3>1. writeQueue' = Append(writeQueue, Packet("message", writeId, upCalls + 1))
      BY <1>a, <2>1 DEF Write
    <3>2. /\ Append(writeQueue, Packet("message", writeId, upCalls + 1)) \in Seq(Stream(upCalls + 1))
          /\ Len(Append(writeQueue, Packet("message", writeId, upCalls + 1))) = Len(writeQueue) + 1
      BY <1>c, <1>d, AppendProperties
    <3>3. Len(writeQueue) + 1 <= QueueCap
      BY <2>1, Lengths, SizesAssumption
    <3>. QED  BY <1>a, <3>1, <3>2, <3>3
  <2>2. CASE ~(Len(writeQueue) < QueueCap)
    <3>1. writeQueue' = writeQueue
      BY <2>2 DEF Write
    <3>. QED  BY <1>a, <1>c, <3>1 DEF Inv, Bounded
  <2>. QED  BY <2>1, <2>2
<1>f. dropped' \subseteq 1..upCalls'
  <2>1. dropped' \in {dropped, dropped \cup {upCalls + 1}}
    BY <1>a DEF Write
  <2>2. dropped \subseteq 1..(upCalls + 1)
    BY <1>b DEF Inv, Scalars
  <2>. QED  BY <1>a, <1>b, <2>1, <2>2
<1>1. Scalars'
  BY <1>a, <1>b, <1>c, <1>e, <1>f DEF Inv, Scalars, readerVars, serverReaderVars, serverWriterVars
<1>2. Bounded'
  BY <1>a, <1>b, <1>c, <1>e, <1>f DEF Inv, Bounded, readerVars, serverReaderVars, serverWriterVars
<1>3. Streams'
  BY <1>a, <1>b, <1>c, <1>e, <1>f DEF Inv, Streams, readerVars, serverReaderVars, serverWriterVars
<1>4. Counters'
  BY <1>a, <1>b, <1>c, <1>e, <1>f DEF Inv, Counters, readerVars, serverReaderVars, serverWriterVars
<1>5. SizeFirst'
  BY <1>a, <1>b, <1>c, <1>e, <1>f DEF Inv, SizeFirst, readerVars, serverReaderVars, serverWriterVars
<1>6. InOrder'
  <2>1. Len(upGot) \in Nat /\ Len(downGot) \in Nat
    BY LenProperties DEF Inv, Scalars
  <2>. QED  BY <1>a, <1>b, <2>1 DEF Inv, InOrder, readerVars, serverReaderVars, serverWriterVars
<1>. QED  BY <1>1, <1>2, <1>3, <1>4, <1>5, <1>6 DEF Inv

\* Bytes move from write_all to the wire.
LEMMA ServerSendInv == ASSUME Inv, ServerSend PROVE Inv'
<1>a. PICK n \in Some(Least(Len(sending), Space(down))) :
        /\ down' = down \o Take(n, sending)
        /\ sending' = Skip(n, sending)
  BY DEF ServerSend
<1>b. n \in 1..Len(sending) /\ n <= Space(down)
  BY Lengths, LeastFacts
<1>c. /\ down' \in Stream(downCalls) /\ Len(down') <= Wire
      /\ sending' \in Stream(downCalls)
  <2>1. /\ down \o Take(n, sending) \in Stream(downCalls)
        /\ Len(down \o Take(n, sending)) = Len(down) + n
        /\ Skip(n, sending) \in Stream(downCalls)
    BY <1>b, Typed, MoveBytes
  <2>2. Len(down) + n <= Wire
    BY <1>b, Lengths, SizesAssumption DEF Space
  <2>. QED  BY <1>a, <2>1, <2>2
<1>d. UNCHANGED <<consoleVars, writerVars, readerVars, lost, up, server, serverReaderVars,
                  serverWriterVars>>
  BY DEF ServerSend
<1>1. Scalars'
  BY <1>c, <1>d DEF Inv, Scalars, consoleVars, writerVars, readerVars, serverReaderVars, serverWriterVars
<1>2. Bounded'
  BY <1>c, <1>d DEF Inv, Bounded, consoleVars, writerVars, readerVars, serverReaderVars, serverWriterVars
<1>3. Streams'
  BY <1>c, <1>d DEF Inv, Streams, consoleVars, writerVars, readerVars, serverReaderVars, serverWriterVars
<1>4. Counters'
  BY <1>c, <1>d DEF Inv, Counters, consoleVars, writerVars, readerVars, serverReaderVars, serverWriterVars
<1>5. SizeFirst'
  BY <1>c, <1>d DEF Inv, SizeFirst, consoleVars, writerVars, readerVars, serverReaderVars, serverWriterVars
<1>6. InOrder'
  BY <1>c, <1>d DEF Inv, InOrder, consoleVars, writerVars, readerVars, serverReaderVars, serverWriterVars
<1>. QED  BY <1>1, <1>2, <1>3, <1>4, <1>5, <1>6 DEF Inv

\* The server gives a message the id of its call.
LEMMA ServerWriteInv == ASSUME Inv, ServerWrite PROVE Inv'
<1>a. /\ downCalls' = downCalls + 1 /\ serverWriteId' = serverWriteId + 1
      /\ sending' = Packet("message", serverWriteId, downCalls + 1)
      /\ UNCHANGED <<consoleVars, writerVars, readerVars, lost, up, down, server,
                     serverReaderVars>>
  BY DEF ServerWrite
<1>b. downCalls \in Nat /\ serverWriteId = downCalls
  BY DEF Inv, Scalars, Counters
<1>c. /\ received \in Stream(downCalls + 1) /\ down \in Stream(downCalls + 1)
      /\ readQueue \in Seq(Stream(downCalls + 1))
  BY <1>b, Typed, MoreCalls
<1>d. Packet("message", serverWriteId, downCalls + 1) \in Stream(downCalls + 1)
  <2>1. /\ downCalls + 1 \in Nat /\ serverWriteId \in Nat /\ "message" \in Packets
        /\ downCalls + 1 = serverWriteId + 1
    BY <1>b DEF Packets
  <2>. QED  BY <2>1, PacketStream
<1>1. Scalars'
  BY <1>a, <1>b, <1>c, <1>d DEF Inv, Scalars, consoleVars, writerVars, readerVars, serverReaderVars
<1>2. Bounded'
  BY <1>a, <1>b, <1>c, <1>d DEF Inv, Bounded, consoleVars, writerVars, readerVars, serverReaderVars
<1>3. Streams'
  BY <1>a, <1>b, <1>c, <1>d DEF Inv, Streams, consoleVars, writerVars, readerVars, serverReaderVars
<1>4. Counters'
  BY <1>a, <1>b, <1>c, <1>d DEF Inv, Counters, consoleVars, writerVars, readerVars, serverReaderVars
<1>5. SizeFirst'
  BY <1>a, <1>b, <1>c, <1>d DEF Inv, SizeFirst, consoleVars, writerVars, readerVars, serverReaderVars
<1>6. InOrder'
  <2>1. Len(upGot) \in Nat /\ Len(downGot) \in Nat
    BY LenProperties DEF Inv, Scalars
  <2>. QED  BY <1>a, <1>b, <2>1 DEF Inv, InOrder, readerVars, serverReaderVars, writerVars
<1>. QED  BY <1>1, <1>2, <1>3, <1>4, <1>5, <1>6 DEF Inv

\* What every read of the server does to the bytes under way to it.
LEMMA ServerTakes ==
  ASSUME Inv, NEW n \in 1..Len(up)
  PROVE  /\ Take(n, up) \in Stream(upCalls) /\ Len(Take(n, up)) = n /\ n \in Nat
         /\ Skip(n, up) \in Stream(upCalls) /\ Len(Skip(n, up)) <= Wire
<1>1. n \in 0..Len(up) /\ n \in Nat /\ n <= Len(up) /\ Len(up) \in Nat
  BY Lengths
<1>2. Take(n, up) \in Stream(upCalls) /\ Len(Take(n, up)) = n
  BY <1>1, Typed, TakeStream
<1>3. Skip(n, up) \in Stream(upCalls) /\ Len(Skip(n, up)) = Len(up) - n
  BY <1>1, Typed, SkipStream
<1>4. Len(up) - n <= Wire
  BY <1>1, SizesAssumption DEF Inv, Bounded
<1>. QED  BY <1>1, <1>2, <1>3, <1>4

\* Bytes of xx1 or xx3 move from the wire.
LEMMA ServerHandshakeInv == ASSUME Inv, ServerHandshake PROVE Inv'
<1>a. PICK n \in Some(Least(Handshake - Len(buffer), Len(up))) :
        /\ up' = Skip(n, up)
        /\ LET packet == buffer \o Take(n, up) IN
           IF Len(packet) < Handshake
             THEN buffer' = packet /\ UNCHANGED <<server, sending>>
             ELSE /\ buffer' = <<>>
                  /\ IF packet # Packet(server, 0, 0)
                       THEN server' = "closed" /\ UNCHANGED sending
                       ELSE IF server = "xx1"
                       THEN server' = "xx3" /\ sending' = Packet("xx2", 0, 0)
                       ELSE server' = "ready" /\ UNCHANGED sending
  BY DEF ServerHandshake
<1>b. n \in 1..Len(up)
  BY Lengths, SizesAssumption DEF Some, Least
<1>c. up' \in Stream(upCalls) /\ Len(up') <= Wire
  BY <1>a, <1>b, ServerTakes
<1>d. buffer \o Take(n, up) \in Stream(upCalls)
  BY <1>b, ServerTakes, Typed, ConcatStream
<1>e. Packet("xx2", 0, 0) \in Stream(downCalls)
  BY PacketStream DEF Packets, Inv, Scalars
<1>f. /\ buffer' \in Stream(upCalls) /\ sending' \in Stream(downCalls)
      /\ server' \in {"xx1", "xx3", "ready", "closed"}
      /\ server' = "ready" => buffer' = <<>>
  <2>1. server \in {"xx1", "xx3"}
    BY DEF ServerHandshake
  <2>2. CASE Len(buffer \o Take(n, up)) < Handshake
    BY <1>a, <1>d, <2>1, <2>2, Typed
  <2>3. CASE ~(Len(buffer \o Take(n, up)) < Handshake)
    BY <1>a, <1>e, <2>1, <2>3, Typed, EmptyStream
  <2>. QED  BY <2>2, <2>3
<1>g. offset = 0 /\ Len(<<>>) = 0 /\ Least(0, Header) = 0
  BY EmptySeq DEF Inv, SizeFirst, ServerHandshake, Least, Header
<1>h. UNCHANGED <<consoleVars, writerVars, readerVars, lost, down, offset, serverReadId,
                  upGot, split, serverWriterVars>>
  BY DEF ServerHandshake
<1>1. Scalars'
  BY <1>c, <1>f, <1>g, <1>h DEF Inv, Scalars, consoleVars, writerVars, readerVars, serverWriterVars
<1>2. Bounded'
  BY <1>c, <1>f, <1>g, <1>h DEF Inv, Bounded, consoleVars, writerVars, readerVars, serverWriterVars
<1>3. Streams'
  BY <1>c, <1>f, <1>g, <1>h DEF Inv, Streams, consoleVars, writerVars, readerVars, serverWriterVars
<1>4. Counters'
  BY <1>c, <1>f, <1>g, <1>h DEF Inv, Counters, consoleVars, writerVars, readerVars, serverWriterVars
<1>5. SizeFirst'
  BY <1>c, <1>f, <1>g, <1>h DEF Inv, SizeFirst, consoleVars, writerVars, readerVars, serverWriterVars
<1>6. InOrder'
  BY <1>c, <1>f, <1>g, <1>h DEF Inv, InOrder, consoleVars, writerVars, readerVars, serverWriterVars
<1>. QED  BY <1>1, <1>2, <1>3, <1>4, <1>5, <1>6 DEF Inv

\* Bytes of the size move from the wire.
LEMMA ServerReadSizeInv == ASSUME Inv, ServerReadSize PROVE Inv'
<1>a. PICK n \in Some(Least(Header - offset, Len(up))) :
        /\ buffer' = Take(offset, buffer) \o Take(n, up)
        /\ up' = Skip(n, up)
        /\ offset' = offset + n
  BY DEF ServerReadSize
<1>b. offset \in Nat /\ offset < Header /\ server = "ready"
  BY DEF ServerReadSize, ServerReads, Inv, Scalars
<1>c. n \in 1..Len(up) /\ offset + n <= Header /\ n \in Nat
  BY <1>b, SizeFacts, Lengths DEF Some, Least
<1>d. up' \in Stream(upCalls) /\ Len(up') <= Wire
  BY <1>a, <1>c, ServerTakes
<1>e. offset \in 0..Len(buffer)
  BY <1>b, SizeFacts, Lengths DEF Inv, SizeFirst, Least
<1>f. buffer' \in Stream(upCalls) /\ Len(buffer') = offset + n
  <2>1. Take(offset, buffer) \in Stream(upCalls) /\ Len(Take(offset, buffer)) = offset
    BY <1>e, Typed, TakeStream
  <2>2. Take(n, up) \in Stream(upCalls) /\ Len(Take(n, up)) = n
    BY <1>c, ServerTakes
  <2>. QED  BY <1>a, <2>1, <2>2, Typed, ConcatStream
<1>g. Len(buffer') >= Least(offset', Header)
  BY <1>a, <1>b, <1>c, <1>f, SizeFacts DEF Least
<1>h. UNCHANGED <<consoleVars, writerVars, readerVars, lost, down, server, sending,
                  serverReadId, upGot, split, serverWriterVars>>
  BY DEF ServerReadSize
<1>1. Scalars'
  BY <1>a, <1>b, <1>c, <1>d, <1>f, <1>g, <1>h DEF Inv, Scalars, consoleVars, writerVars, readerVars, serverWriterVars
<1>2. Bounded'
  BY <1>a, <1>b, <1>c, <1>d, <1>f, <1>g, <1>h DEF Inv, Bounded, consoleVars, writerVars, readerVars, serverWriterVars
<1>3. Streams'
  BY <1>a, <1>b, <1>c, <1>d, <1>f, <1>g, <1>h DEF Inv, Streams, consoleVars, writerVars, readerVars, serverWriterVars
<1>4. Counters'
  BY <1>a, <1>b, <1>c, <1>d, <1>f, <1>g, <1>h DEF Inv, Counters, consoleVars, writerVars, readerVars, serverWriterVars
<1>5. SizeFirst'
  BY <1>a, <1>b, <1>c, <1>d, <1>f, <1>g, <1>h DEF Inv, SizeFirst, consoleVars, writerVars, readerVars, serverWriterVars
<1>6. InOrder'
  BY <1>a, <1>b, <1>c, <1>d, <1>f, <1>g, <1>h DEF Inv, InOrder, consoleVars, writerVars, readerVars, serverWriterVars
<1>. QED  BY <1>1, <1>2, <1>3, <1>4, <1>5, <1>6 DEF Inv

\* The buffer stays a stream when a piece overwrites its begin.
LEMMA FilledStream ==
  ASSUME Inv, server = "ready", offset >= Header, NEW piece \in Stream(upCalls)
  PROVE  Filled(piece) \in Stream(upCalls) /\ Len(Filled(piece)) >= Header
<1>1. Len(buffer) \in Nat /\ Len(piece) \in Nat
  BY Lengths, LenProperties DEF Stream
<1>2. Header \in 0..Len(buffer)
  BY <1>1, SizeFacts DEF Inv, Scalars, SizeFirst, Least
<1>3. Take(Header, buffer) \in Stream(upCalls) /\ Len(Take(Header, buffer)) = Header
  BY <1>2, Typed, TakeStream
<1>4. Skip(Header + Len(piece), buffer) \in Stream(upCalls)
  <2>1. Header + Len(piece) \in Nat
    BY <1>1, SizeFacts
  <2>. QED  BY <2>1, Typed, SkipStream
<1>5. /\ Take(Header, buffer) \o piece \in Stream(upCalls)
      /\ Len(Take(Header, buffer) \o piece) = Header + Len(piece)
  BY <1>3, Typed, ConcatStream
<1>6. /\ Take(Header, buffer) \o piece \o Skip(Header + Len(piece), buffer) \in Stream(upCalls)
      /\ Len(Take(Header, buffer) \o piece \o Skip(Header + Len(piece), buffer))
           = Header + Len(piece) + Len(Skip(Header + Len(piece), buffer))
  BY <1>4, <1>5, Typed, ConcatStream
<1>7. Len(Skip(Header + Len(piece), buffer)) \in Nat
  BY <1>4, LenProperties DEF Stream
<1>. QED  BY <1>1, <1>6, <1>7, SizeFacts DEF Filled

\* The server decodes the message with the expected id, which is the next one.
LEMMA ServerReadBodyInv == ASSUME Inv, ServerReadBody PROVE Inv'
<1>a. PICK n \in Some(Least(Body, Len(up))) :
       LET packet == Filled(Take(n, up)) IN
       /\ up' = Skip(n, up)
       /\ IF offset + n < Size
            THEN /\ buffer' = packet /\ offset' = offset + n /\ split' = TRUE
                 /\ UNCHANGED <<server, serverReadId, upGot>>
            ELSE /\ buffer' = <<>> /\ offset' = 0 /\ UNCHANGED split
                 /\ IF Authentic(packet, serverReadId)
                      THEN /\ upGot' = Append(upGot, packet[Size].call)
                           /\ serverReadId' = serverReadId + 1
                           /\ UNCHANGED server
                      ELSE server' = "closed" /\ UNCHANGED <<serverReadId, upGot>>
  BY DEF ServerReadBody
<1>b. offset \in Nat /\ offset >= Header /\ server = "ready"
  BY DEF ServerReadBody, ServerReads, Inv, Scalars
<1>c. n \in 1..Len(up) /\ n \in Nat
  BY Lengths, LeastFacts, SizesAssumption
<1>d. up' \in Stream(upCalls) /\ Len(up') <= Wire
  BY <1>a, <1>c, ServerTakes
<1>e. PICK packet \in Stream(upCalls) :
        packet = Filled(Take(n, up)) /\ Len(packet) >= Header
  BY <1>b, <1>c, ServerTakes, FilledStream
<1>f. UNCHANGED <<consoleVars, writerVars, readerVars, lost, down, sending, serverWriterVars>>
  BY DEF ServerReadBody
<1>g. Len(packet) \in Nat /\ Least(offset + n, Header) = Header /\ Least(0, Header) = 0
      /\ Len(<<>>) = 0
  BY <1>b, <1>c, LenProperties, SizeFacts, EmptySeq DEF Stream, Least
<1>h. CASE offset + n < Size
  <2>a. /\ buffer' = packet /\ offset' = offset + n /\ split' = TRUE
        /\ UNCHANGED <<server, serverReadId, upGot>>
    BY <1>a, <1>e, <1>h
  <2>1. Scalars'
    BY <1>b, <1>c, <1>d, <1>e, <1>f, <1>g, <2>a DEF Inv, Scalars, consoleVars, writerVars, readerVars, serverWriterVars
  <2>2. Bounded'
    BY <1>b, <1>c, <1>d, <1>e, <1>f, <1>g, <2>a DEF Inv, Bounded, consoleVars, writerVars, readerVars, serverWriterVars
  <2>3. Streams'
    BY <1>b, <1>c, <1>d, <1>e, <1>f, <1>g, <2>a DEF Inv, Streams, consoleVars, writerVars, readerVars, serverWriterVars
  <2>4. Counters'
    BY <1>b, <1>c, <1>d, <1>e, <1>f, <1>g, <2>a DEF Inv, Counters, consoleVars, writerVars, readerVars, serverWriterVars
  <2>5. SizeFirst'
    BY <1>b, <1>c, <1>d, <1>e, <1>f, <1>g, <2>a DEF Inv, SizeFirst, consoleVars, writerVars, readerVars, serverWriterVars
  <2>6. InOrder'
    BY <1>b, <1>c, <1>d, <1>e, <1>f, <1>g, <2>a DEF Inv, InOrder, consoleVars, writerVars, readerVars, serverWriterVars
  <2>. QED  BY <2>1, <2>2, <2>3, <2>4, <2>5, <2>6 DEF Inv
<1>i. CASE ~(offset + n < Size) /\ Authentic(packet, serverReadId)
  <2>a. /\ buffer' = <<>> /\ offset' = 0 /\ UNCHANGED split
        /\ upGot' = Append(upGot, packet[Size].call)
        /\ serverReadId' = serverReadId + 1 /\ UNCHANGED server
    BY <1>a, <1>e, <1>i
  <2>b. serverReadId = Len(upGot) /\ serverReadId \in Nat
    BY DEF Inv, Counters, Scalars
  <2>c. packet[Size].call = Len(upGot) + 1 /\ Len(upGot) + 1 <= upCalls
    BY <1>i, <2>b, Typed, NextCall
  <2>d. /\ upGot' \in Seq(Nat) /\ Len(upGot') = Len(upGot) + 1
        /\ \A i \in 1..(Len(upGot) + 1) : upGot'[i] = i
    BY <2>a, <2>c, AppendInOrder DEF Inv, Scalars, InOrder
  <2>e. <<>> \in Stream(upCalls)
    BY Typed, EmptyStream
  <2>1. Scalars'
    BY <1>b, <1>d, <1>f, <1>g, <2>a, <2>b, <2>c, <2>d, <2>e DEF Inv, Scalars, consoleVars, writerVars, readerVars, serverWriterVars
  <2>2. Bounded'
    BY <1>b, <1>d, <1>f, <1>g, <2>a, <2>b, <2>c, <2>d, <2>e DEF Inv, Bounded, consoleVars, writerVars, readerVars, serverWriterVars
  <2>3. Streams'
    BY <1>b, <1>d, <1>f, <1>g, <2>a, <2>b, <2>c, <2>d, <2>e DEF Inv, Streams, consoleVars, writerVars, readerVars, serverWriterVars
  <2>4. Counters'
    BY <1>b, <1>d, <1>f, <1>g, <2>a, <2>b, <2>c, <2>d, <2>e DEF Inv, Counters, consoleVars, writerVars, readerVars, serverWriterVars
  <2>5. SizeFirst'
    BY <1>b, <1>d, <1>f, <1>g, <2>a, <2>b, <2>c, <2>d, <2>e DEF Inv, SizeFirst, consoleVars, writerVars, readerVars, serverWriterVars
  <2>6. InOrder'
    BY <1>b, <1>d, <1>f, <1>g, <2>a, <2>b, <2>c, <2>d, <2>e DEF Inv, InOrder, consoleVars, writerVars, readerVars, serverWriterVars
  <2>. QED  BY <2>1, <2>2, <2>3, <2>4, <2>5, <2>6 DEF Inv
<1>j. CASE ~(offset + n < Size) /\ ~Authentic(packet, serverReadId)
  <2>a. /\ buffer' = <<>> /\ offset' = 0 /\ UNCHANGED split
        /\ server' = "closed" /\ UNCHANGED <<serverReadId, upGot>>
    BY <1>a, <1>e, <1>j
  <2>b. <<>> \in Stream(upCalls)
    BY Typed, EmptyStream
  <2>1. Scalars'
    BY <1>d, <1>f, <1>g, <2>a, <2>b DEF Inv, Scalars, consoleVars, writerVars, readerVars, serverWriterVars
  <2>2. Bounded'
    BY <1>d, <1>f, <1>g, <2>a, <2>b DEF Inv, Bounded, consoleVars, writerVars, readerVars, serverWriterVars
  <2>3. Streams'
    BY <1>d, <1>f, <1>g, <2>a, <2>b DEF Inv, Streams, consoleVars, writerVars, readerVars, serverWriterVars
  <2>4. Counters'
    BY <1>d, <1>f, <1>g, <2>a, <2>b DEF Inv, Counters, consoleVars, writerVars, readerVars, serverWriterVars
  <2>5. SizeFirst'
    BY <1>d, <1>f, <1>g, <2>a, <2>b DEF Inv, SizeFirst, consoleVars, writerVars, readerVars, serverWriterVars
  <2>6. InOrder'
    BY <1>d, <1>f, <1>g, <2>a, <2>b DEF Inv, InOrder, consoleVars, writerVars, readerVars, serverWriterVars
  <2>. QED  BY <2>1, <2>2, <2>3, <2>4, <2>5, <2>6 DEF Inv
<1>. QED  BY <1>h, <1>i, <1>j

\* Every step keeps the invariant,
LEMMA NextInv == ASSUME Inv, [Next]_vars PROVE Inv'
<1>1. CASE UNCHANGED vars
  <2>1. Scalars'
    BY <1>1 DEF Inv, Scalars, vars, consoleVars, writerVars, readerVars, serverReaderVars, serverWriterVars
  <2>2. Bounded'
    BY <1>1 DEF Inv, Bounded, vars, consoleVars, writerVars, readerVars, serverReaderVars, serverWriterVars
  <2>3. Streams'
    BY <1>1 DEF Inv, Streams, vars, consoleVars, writerVars, readerVars, serverReaderVars, serverWriterVars
  <2>4. Counters'
    BY <1>1 DEF Inv, Counters, vars, consoleVars, writerVars, readerVars, serverReaderVars, serverWriterVars
  <2>5. SizeFirst'
    BY <1>1 DEF Inv, SizeFirst, vars, consoleVars, writerVars, readerVars, serverReaderVars, serverWriterVars
  <2>6. InOrder'
    BY <1>1 DEF Inv, InOrder, vars, consoleVars, writerVars, readerVars, serverReaderVars, serverWriterVars
  <2>. QED  BY <2>1, <2>2, <2>3, <2>4, <2>5, <2>6 DEF Inv
<1>2. CASE Frame
  BY <1>2, ConnectInv, SendHandshakeInv, ReceiveHandshakeInv, SendFrontInv, ReceiveSizeInv,
     ReceiveBodyInv, ReadInv DEF Frame
<1>3. CASE Write \/ ConsoleFails \/ ServerWrite \/ ServerFails \/ Lose
  BY <1>3, WriteInv, ConsoleFailsInv, ServerWriteInv, ServerFailsInv, LoseInv
<1>4. CASE ServerTask
  BY <1>4, ServerHandshakeInv, ServerSendInv, ServerReadSizeInv, ServerReadBodyInv DEF ServerTask
<1>. QED  BY <1>1, <1>2, <1>3, <1>4 DEF Next

\* so it always holds.
LEMMA AlwaysInv == Spec => []Inv
<1>. QED  BY InitInv, NextInv, PTL DEF Spec

\* TypeOK holds for messages, queues and buffers of any size: in particular no
\* queue outgrows its array.
THEOREM TypeCorrect == Spec => []TypeOK
<1>. QED  BY AlwaysInv, InvTypes, PTL

\* What arrives at either end is a prefix of what the other wrote: the two
\* counters of a direction agree on every message that is ever decoded.
THEOREM DeliversInOrder == Spec => []InOrder
<1>1. Inv => InOrder
  BY DEF Inv
<1>. QED  BY <1>1, AlwaysInv, PTL
-------------------------------------------------------------------------------
(***************************************************************************)
(* As long as nothing is lost, refused or cut, each direction is one run   *)
(* of bytes: what the reader has in its hands, what is under way and what  *)
(* the writer has yet to send follow one another without a gap.            *)
(***************************************************************************)
Start(of, id, call) == [of |-> of, at |-> 1, id |-> id, call |-> call]
Message(id) == Start("message", id, id + 1)

\* The byte after b, of its packet or of the next one.
After(b) ==
  IF b.at < SizeOf(b.of) THEN [b EXCEPT !.at = b.at + 1]
  ELSE IF b.of = "xx1" THEN Start("xx3", 0, 0)
  ELSE IF b.of = "message" THEN Message(b.id + 1)
  ELSE Message(0)

\* The bytes from b up to e, without e.
Run(s, b, e) ==
  /\ s = <<>> => b = e
  /\ s # <<>> => s[1] = b /\ e = After(s[Len(s)])
  /\ \A i \in 1..(Len(s) - 1) : s[i + 1] = After(s[i])

\* The bytes the ends send next, and those they have yet to take.
Queued(queue, next, e) ==
  /\ queue = <<>> => e = Message(next)
  /\ queue # <<>> => e = queue[1][1]
  /\ \A j \in 1..Len(queue) :
       /\ queue[j] # <<>> /\ Run(queue[j], queue[j][1], Message(next + j - Len(queue)))
       /\ j > 1 => queue[j][1] = Message(next + j - Len(queue) - 1)

ConsoleSends(e) ==
  /\ console = "connect" => e = Start("xx1", 0, 0)
  /\ console = "xx1" => pending # <<>> /\ Run(pending, e, Start("xx3", 0, 0))
  /\ console = "xx2" => e = Start("xx3", 0, 0)
  /\ console = "xx3" => pending # <<>> /\ Run(pending, e, Message(0))
  /\ console # "ready" => writeQueue = <<>> /\ writeId = 0
  /\ console = "ready" => Queued(writeQueue, writeId, e)

ServerDue(d) ==
  /\ server \in {"xx1", "xx3"} =>
       /\ Run(buffer, Start(server, 0, 0), d) /\ Len(buffer) < Handshake
       /\ serverReadId = 0 /\ offset = 0
  /\ server = "ready" =>
       Run(buffer, Message(serverReadId), d) /\ Len(buffer) = offset /\ offset <= Header

ServerSends(e) ==
  /\ server = "xx1" => sending = <<>> /\ e = Start("xx2", 0, 0) /\ serverWriteId = 0
  /\ server = "xx3" => Run(sending, e, Message(0)) /\ serverWriteId = 0
  /\ server = "ready" => Run(sending, e, Message(serverWriteId))

Received(queue, id, d) ==
  /\ queue = <<>> => d = Message(id)
  /\ \A j \in 1..(Len(queue) - 1) : queue[j] = Packet("message", id + j - 1, id + j)
  /\ queue # <<>> => /\ Run(queue[Len(queue)], Message(id + Len(queue) - 1), d)
                     /\ Len(queue[Len(queue)]) <= Size

ConsoleDue(d) ==
  /\ console \in {"connect", "xx1"} => received = <<>> /\ d = Start("xx2", 0, 0)
  /\ console = "xx2" => Run(received, Start("xx2", 0, 0), d) /\ Len(received) < Handshake
  /\ console = "xx3" => d = Message(0)
  /\ console # "ready" => readQueue = <<>> /\ readId = 0
  /\ console = "ready" => Received(readQueue, readId, d)

UpWhole == \E d, e : ServerDue(d) /\ ConsoleSends(e) /\ Run(up, d, e)
DownWhole == \E d, e : ConsoleDue(d) /\ ServerSends(e) /\ Run(down, d, e)

Reason == lost \/ split \/ dropped # {}
Whole == ~Reason => console # "closed" /\ server # "closed" /\ UpWhole /\ DownWhole

\* A run of no bytes.
LEMMA RunEmpty == \A b : Run(<<>>, b, b)
BY EmptySeq DEF Run

\* A run can be cut anywhere,
LEMMA RunCut ==
  ASSUME NEW s \in Seq(Byte), NEW b, NEW e, Run(s, b, e), NEW n \in 1..Len(s)
  PROVE  \E m : Run(Take(n, s), b, m) /\ Run(Skip(n, s), m, e)
<1>1. Len(s) \in Nat /\ n \in Nat /\ n >= 1 /\ n <= Len(s)
  BY LenProperties
<1>2. /\ Take(n, s) \in Seq(Byte) /\ Len(Take(n, s)) = n
      /\ \A i \in 1..n : Take(n, s)[i] = s[i]
  BY <1>1, SubSeqProperties DEF Take
<1>3. /\ Skip(n, s) \in Seq(Byte) /\ Len(Skip(n, s)) = Len(s) - n
      /\ \A i \in 1..(Len(s) - n) : Skip(n, s)[i] = s[n + i]
  <2>1. \A i \in (n + 1)..Len(s) : s[i] \in Byte
    BY <1>1, LenProperties
  <2> QED
    BY <1>1, <2>1, SubSeqProperties DEF Skip
<1>4. s # <<>> /\ Take(n, s) # <<>>
  BY <1>1, <1>2, EmptySeq
<1>5. s[1] = b /\ e = After(s[Len(s)]) /\ \A i \in 1..(Len(s) - 1) : s[i + 1] = After(s[i])
  BY <1>4 DEF Run
<1>6. Run(Take(n, s), b, After(s[n]))
  <2>1. Take(n, s)[1] = b /\ Take(n, s)[n] = s[n]
    BY <1>1, <1>2, <1>5
  <2>2. \A i \in 1..(n - 1) : Take(n, s)[i + 1] = After(Take(n, s)[i])
    <3>1. TAKE i \in 1..(n - 1)
    <3>2. i \in 1..n /\ i + 1 \in 1..n /\ i \in 1..(Len(s) - 1)
      BY <1>1
    <3> QED
      BY <1>2, <1>5, <3>2
  <2> QED
    BY <1>2, <1>4, <2>1, <2>2 DEF Run
<1>7. Run(Skip(n, s), After(s[n]), e)
  <2>1. CASE n = Len(s)
    <3>1. Skip(n, s) = <<>>
      BY <1>1, <1>3, <2>1, EmptySeq
    <3> QED
      BY <1>5, <2>1, <3>1, RunEmpty
  <2>2. CASE n < Len(s)
    <3>1. Skip(n, s) # <<>>
      BY <1>1, <1>3, <2>2, EmptySeq
    <3>2. Skip(n, s)[1] = s[n + 1] /\ s[n + 1] = After(s[n])
      BY <1>1, <1>3, <1>5, <2>2
    <3>3. Skip(n, s)[Len(s) - n] = s[Len(s)]
      <4>1. Len(s) - n \in 1..(Len(s) - n) /\ n + (Len(s) - n) = Len(s)
        BY <1>1, <2>2
      <4> QED
        BY <1>3, <4>1
    <3>4. \A i \in 1..(Len(s) - n - 1) : Skip(n, s)[i + 1] = After(Skip(n, s)[i])
      <4>1. TAKE i \in 1..(Len(s) - n - 1)
      <4>2. /\ i \in 1..(Len(s) - n) /\ i + 1 \in 1..(Len(s) - n) /\ n + i \in 1..(Len(s) - 1)
            /\ n + (i + 1) = (n + i) + 1
        BY <1>1
      <4> QED
        BY <1>3, <1>5, <4>2
    <3> QED
      BY <1>3, <1>5, <3>1, <3>2, <3>3, <3>4 DEF Run
  <2> QED
    BY <1>1, <2>1, <2>2
<1> QED
  BY <1>6, <1>7

\* and two runs can be joined where they meet.
LEMMA RunJoin ==
  ASSUME NEW s \in Seq(Byte), NEW t \in Seq(Byte), NEW b, NEW m, NEW e,
         Run(s, b, m), Run(t, m, e)
  PROVE  Run(s \o t, b, e)
<1>1. Len(s) \in Nat /\ Len(t) \in Nat
  BY LenProperties
<1>2. /\ s \o t \in Seq(Byte) /\ Len(s \o t) = Len(s) + Len(t)
      /\ \A i \in 1..(Len(s) + Len(t)) : (s \o t)[i] = IF i <= Len(s) THEN s[i] ELSE t[i - Len(s)]
  BY ConcatProperties
<1>3. CASE s = <<>>
  <2>1. s \o t = t /\ b = m
    BY <1>3, ConcatEmptySeq DEF Run
  <2> QED
    BY <2>1
<1>4. CASE t = <<>>
  <2>1. s \o t = s /\ m = e
    BY <1>4, ConcatEmptySeq DEF Run
  <2> QED
    BY <2>1
<1>5. CASE s # <<>> /\ t # <<>>
  <2>1. Len(s) > 0 /\ Len(t) > 0
    BY <1>1, <1>5, EmptySeq
  <2>2. /\ s[1] = b /\ m = After(s[Len(s)]) /\ \A i \in 1..(Len(s) - 1) : s[i + 1] = After(s[i])
        /\ t[1] = m /\ e = After(t[Len(t)]) /\ \A i \in 1..(Len(t) - 1) : t[i + 1] = After(t[i])
    BY <1>5 DEF Run
  <2>3. s \o t # <<>>
    BY <1>1, <1>2, <2>1, EmptySeq
  <2>4. (s \o t)[1] = b /\ (s \o t)[Len(s) + Len(t)] = t[Len(t)]
    <3>1. /\ 1 \in 1..(Len(s) + Len(t)) /\ 1 <= Len(s)
          /\ Len(s) + Len(t) \in 1..(Len(s) + Len(t)) /\ ~(Len(s) + Len(t) <= Len(s))
          /\ (Len(s) + Len(t)) - Len(s) = Len(t)
      BY <1>1, <2>1
    <3> QED
      BY <1>2, <2>2, <3>1
  <2>5. \A i \in 1..(Len(s) + Len(t) - 1) : (s \o t)[i + 1] = After((s \o t)[i])
    <3>1. TAKE i \in 1..(Len(s) + Len(t) - 1)
    <3>2. i \in 1..(Len(s) + Len(t)) /\ i + 1 \in 1..(Len(s) + Len(t)) /\ i \in Nat
      BY <1>1
    <3>3. CASE i < Len(s)
      <4>1. i <= Len(s) /\ i + 1 <= Len(s) /\ i \in 1..(Len(s) - 1)
        BY <1>1, <3>2, <3>3
      <4> QED
        BY <1>2, <2>2, <3>2, <4>1
    <3>4. CASE i = Len(s)
      <4>1. i <= Len(s) /\ ~(i + 1 <= Len(s)) /\ (i + 1) - Len(s) = 1
        BY <1>1, <3>4
      <4>2. (s \o t)[i] = s[Len(s)] /\ (s \o t)[i + 1] = t[1]
        BY <1>2, <3>2, <3>4, <4>1
      <4> QED
        BY <2>2, <4>2
    <3>5. CASE i > Len(s)
      <4>1. /\ ~(i <= Len(s)) /\ ~(i + 1 <= Len(s)) /\ i - Len(s) \in 1..(Len(t) - 1)
            /\ (i + 1) - Len(s) = (i - Len(s)) + 1
        BY <1>1, <3>2, <3>5
      <4>2. (s \o t)[i] = t[i - Len(s)] /\ (s \o t)[i + 1] = t[(i - Len(s)) + 1]
        BY <1>2, <3>2, <4>1
      <4> QED
        BY <2>2, <4>1, <4>2
    <3> QED
      BY <1>1, <3>2, <3>3, <3>4, <3>5
  <2> QED
    BY <1>2, <2>2, <2>3, <2>4, <2>5 DEF Run
<1> QED
  BY <1>3, <1>4, <1>5

\* The sizes and names of packets.
LEMMA PacketFacts ==
  ASSUME NEW of \in Packets, NEW id \in Nat, NEW call \in Nat
  PROVE  /\ SizeOf(of) \in Nat /\ SizeOf(of) > 0
         /\ Packet(of, id, call) \in Seq(Byte) /\ Len(Packet(of, id, call)) = SizeOf(of)
         /\ \A i \in 1..SizeOf(of) :
              Packet(of, id, call)[i] = [of |-> of, at |-> i, id |-> id, call |-> call]
<1>1. SizeOf(of) \in Nat /\ SizeOf(of) > 0
  BY SizesAssumption, SizeFacts DEF SizeOf
<1>2. \A i \in 1..SizeOf(of) : [of |-> of, at |-> i, id |-> id, call |-> call] \in Byte
  BY <1>1 DEF Byte
<1>3. Packet(of, id, call) \in [1..SizeOf(of) -> Byte]
  BY <1>2 DEF Packet
<1>4. Packet(of, id, call) \in Seq(Byte)
  BY <1>1, <1>3, SeqDef
<1>5. Len(Packet(of, id, call)) = SizeOf(of)
  <2>1. DOMAIN Packet(of, id, call) = 1..SizeOf(of)
    BY <1>3
  <2> QED
    BY <1>1, <1>4, <2>1, LenProperties, SameInterval
<1>6. \A i \in 1..SizeOf(of) :
        Packet(of, id, call)[i] = [of |-> of, at |-> i, id |-> id, call |-> call]
  BY DEF Packet
<1> QED
  BY <1>1, <1>4, <1>5, <1>6

\* What comes after a packet.
Behind(of, id) == IF of = "xx1" THEN Start("xx3", 0, 0)
                  ELSE IF of = "message" THEN Message(id + 1) ELSE Message(0)

\* The byte after one of a packet.
LEMMA AfterByte ==
  ASSUME NEW of \in Packets, NEW i \in Nat, NEW id, NEW call
  PROVE  After([of |-> of, at |-> i, id |-> id, call |-> call]) =
           IF i < SizeOf(of) THEN [of |-> of, at |-> i + 1, id |-> id, call |-> call]
           ELSE Behind(of, id)
BY DEF After, Behind

\* A packet is a run,
LEMMA PacketRuns ==
  ASSUME NEW of \in Packets, NEW id \in Nat, NEW call \in Nat
  PROVE  /\ Run(Packet(of, id, call), Start(of, id, call), Behind(of, id))
         /\ Packet(of, id, call) # <<>> /\ Packet(of, id, call)[1] = Start(of, id, call)
<1> DEFINE p == Packet(of, id, call)
<1>1. /\ SizeOf(of) \in Nat /\ SizeOf(of) > 0 /\ p \in Seq(Byte) /\ Len(p) = SizeOf(of)
      /\ \A i \in 1..SizeOf(of) : p[i] = [of |-> of, at |-> i, id |-> id, call |-> call]
  BY PacketFacts
<1> HIDE DEF p
<1>2. p # <<>>
  BY <1>1, EmptySeq
<1>3. p[1] = Start(of, id, call)
  <2>1. 1 \in 1..SizeOf(of)
    BY <1>1
  <2> QED
    BY <1>1, <2>1 DEF Start
<1>4. After(p[Len(p)]) = Behind(of, id)
  <2>1. SizeOf(of) \in 1..SizeOf(of) /\ ~(SizeOf(of) < SizeOf(of))
    BY <1>1
  <2>2. p[Len(p)] = [of |-> of, at |-> SizeOf(of), id |-> id, call |-> call]
    BY <1>1, <2>1
  <2>3. After([of |-> of, at |-> SizeOf(of), id |-> id, call |-> call]) = Behind(of, id)
    BY <1>1, <2>1, AfterByte
  <2> QED
    BY <2>2, <2>3
<1>5. \A i \in 1..(Len(p) - 1) : p[i + 1] = After(p[i])
  <2>1. TAKE i \in 1..(Len(p) - 1)
  <2>2. i \in 1..SizeOf(of) /\ i + 1 \in 1..SizeOf(of) /\ i < SizeOf(of) /\ i \in Nat
    BY <1>1
  <2> QED
    BY <1>1, <2>2, AfterByte
<1>6. Run(p, Start(of, id, call), Behind(of, id))
  BY <1>2, <1>3, <1>4, <1>5 DEF Run
<1> QED
  BY <1>2, <1>3, <1>6 DEF p

\* A set of natural numbers has a least element.
LEMMA HasLeast ==
  ASSUME NEW S \in SUBSET Nat, S # {}
  PROVE  \E i \in S : \A j \in S : i <= j
<1> DEFINE O == OpToRel(<, Nat)
<1>1. IsWellFoundedOn(O, Nat)
  BY NatLessThanWellFounded
<1>2. PICK i \in S : \A j \in S : <<j, i>> \notin O
  <2> HIDE DEF O
  <2> QED
    BY <1>1, WFMin
<1>3. \A j \in S : i <= j
  <2>1. TAKE j \in S
  <2>2. ~(j < i)
    BY <1>2 DEF OpToRel
  <2> QED
    BY <2>2
<1> QED
  BY <1>3

\* and a run that begins like a packet, and is no longer, is the begin of it.
LEMMA RunWithin ==
  ASSUME NEW of \in Packets, NEW id \in Nat, NEW call \in Nat, NEW s \in Seq(Byte), NEW e,
         Run(s, Start(of, id, call), e), Len(s) <= SizeOf(of)
  PROVE  /\ \A i \in 1..Len(s) : s[i] = [of |-> of, at |-> i, id |-> id, call |-> call]
         /\ Len(s) = SizeOf(of) => s = Packet(of, id, call) /\ e = Behind(of, id)
<1> DEFINE B(i) == [of |-> of, at |-> i, id |-> id, call |-> call]
           Bad == {i \in 1..Len(s) : s[i] # B(i)}
<1>1. SizeOf(of) \in Nat /\ SizeOf(of) > 0 /\ Len(s) \in Nat
  BY PacketFacts, LenProperties
<1>2. \A i \in 1..(Len(s) - 1) : s[i + 1] = After(s[i])
  BY DEF Run
<1>3. Bad = {}
  <2>1. SUFFICES ASSUME Bad # {} PROVE FALSE
    OBVIOUS
  <2>a. Bad \in SUBSET Nat
    BY <1>1
  <2>2. PICK i \in Bad : \A j \in Bad : i <= j
    <3> HIDE DEF Bad
    <3> QED
      BY <2>1, <2>a, HasLeast
  <2>3. i \in 1..Len(s) /\ s[i] # B(i) /\ i \in Nat
    OBVIOUS
  <2>4. i # 1
    <3>1. s # <<>>
      BY <1>1, <2>3, EmptySeq
    <3>2. s[1] = B(1)
      BY <3>1 DEF Run, Start
    <3> QED
      BY <2>3, <3>2
  <2>5. i - 1 \in 1..(Len(s) - 1) /\ (i - 1) + 1 = i /\ i - 1 < SizeOf(of) /\ i - 1 \in Nat
        /\ i - 1 \in 1..Len(s) /\ ~(i <= i - 1)
    BY <1>1, <2>3, <2>4
  <2>6. s[i - 1] = B(i - 1)
    BY <2>2, <2>5
  <2>7. s[i] = After(s[i - 1])
    BY <1>2, <2>5
  <2>8. After(B(i - 1)) = B(i)
    BY <2>5, AfterByte
  <2> QED
    BY <2>3, <2>6, <2>7, <2>8
<1>4. \A i \in 1..Len(s) : s[i] = B(i)
  BY <1>3
<1>5. ASSUME Len(s) = SizeOf(of)
      PROVE  s = Packet(of, id, call) /\ e = Behind(of, id)
  <2>1. /\ Packet(of, id, call) \in Seq(Byte) /\ Len(Packet(of, id, call)) = SizeOf(of)
        /\ \A i \in 1..SizeOf(of) : Packet(of, id, call)[i] = B(i)
    BY PacketFacts
  <2>2. s = Packet(of, id, call)
    <3>1. \A i \in 1..Len(s) : s[i] = Packet(of, id, call)[i]
      BY <1>4, <1>5, <2>1
    <3>2. Len(s) = Len(Packet(of, id, call))
      BY <1>5, <2>1
    <3> HIDE DEF B
    <3> QED
      BY <2>1, <3>1, <3>2, SeqEqual
  <2>3. e = After(s[Len(s)])
    <3>1. s # <<>>
      BY <1>1, <1>5, EmptySeq
    <3> QED
      BY <3>1 DEF Run
  <2>4. s[Len(s)] = B(SizeOf(of))
    BY <1>1, <1>4, <1>5
  <2>5. After(B(SizeOf(of))) = Behind(of, id)
    <3>1. ~(SizeOf(of) < SizeOf(of))
      BY <1>1
    <3> QED
      BY <1>1, <3>1, AfterByte
  <2> QED
    BY <2>2, <2>3, <2>4, <2>5
<1> QED
  BY <1>4, <1>5

-------------------------------------------------------------------------------
\* The shapes of the variables these proofs go through.
LEMMA Parts ==
  ASSUME Inv
  PROVE  /\ {pending, up, buffer, received, down, sending} \subseteq Seq(Byte)
         /\ \A s \in {pending, up, buffer, received, down, sending} : Len(s) \in Nat
         /\ writeQueue \in Seq(Seq(Byte)) /\ readQueue \in Seq(Seq(Byte))
         /\ Len(writeQueue) \in Nat /\ Len(readQueue) \in Nat
         /\ writeId = upCalls /\ serverWriteId = downCalls
         /\ writeId \in Nat /\ readId \in Nat /\ serverReadId \in Nat /\ serverWriteId \in Nat
         /\ offset \in Nat /\ upCalls \in Nat /\ downCalls \in Nat
         /\ Space(up) \in Nat /\ Space(down) \in Nat
BY InvTypes, Lengths DEF TypeOK, Inv, Counters

\* What a move of n bytes does to a run and to the one it goes to.
LEMMA RunMoves ==
  ASSUME NEW from \in Seq(Byte), NEW to \in Seq(Byte), NEW b, NEW m, NEW e,
         Run(to, b, m), Run(from, m, e), NEW n \in 1..Len(from)
  PROVE  \E x :
               /\ Run(to \o Take(n, from), b, x) /\ Run(Skip(n, from), x, e)
               /\ n = Len(from) => x = e /\ Skip(n, from) = <<>>
               /\ n < Len(from) => Skip(n, from) # <<>>
               /\ Len(to \o Take(n, from)) = Len(to) + n
               /\ Skip(n, from) \in Seq(Byte) /\ to \o Take(n, from) \in Seq(Byte)
<1>1. Len(from) \in Nat /\ n \in Nat /\ n >= 1 /\ n <= Len(from)
  BY LenProperties
<1>2. Take(n, from) \in Seq(Byte) /\ Len(Take(n, from)) = n
  BY <1>1, SubSeqProperties DEF Take
<1>3. Skip(n, from) \in Seq(Byte) /\ Len(Skip(n, from)) = Len(from) - n
  <2>1. \A i \in (n + 1)..Len(from) : from[i] \in Byte
    BY <1>1, LenProperties
  <2> QED
    BY <1>1, <2>1, SubSeqProperties DEF Skip
<1>4. PICK x : Run(Take(n, from), m, x) /\ Run(Skip(n, from), x, e)
  BY RunCut
<1>5. Run(to \o Take(n, from), b, x)
  BY <1>2, <1>4, RunJoin
<1>6. n = Len(from) => Skip(n, from) = <<>>
  BY <1>1, <1>3, EmptySeq
<1>7. n < Len(from) => Skip(n, from) # <<>>
  BY <1>1, <1>3, EmptySeq
<1>8. Len(to \o Take(n, from)) = Len(to) + n /\ to \o Take(n, from) \in Seq(Byte)
  BY <1>2, ConcatProperties
<1>9. n = Len(from) => x = e
  BY <1>4, <1>6 DEF Run
<1> QED
  BY <1>3, <1>4, <1>5, <1>6, <1>7, <1>8, <1>9

\* The first Len(s) bytes of s are s.
LEMMA TakeAll == ASSUME NEW s \in Seq(Byte) PROVE Take(Len(s), s) = s
<1>1. Len(s) \in Nat /\ Len(s) <= Len(s)
  BY LenProperties
<1>2. /\ Take(Len(s), s) \in Seq(Byte) /\ Len(Take(Len(s), s)) = Len(s)
      /\ \A i \in 1..Len(s) : Take(Len(s), s)[i] = s[i]
  BY <1>1, SubSeqProperties DEF Take
<1> QED
  BY <1>2, SeqEqual

\* A whole message decrypts under its id.
LEMMA PacketAuthentic ==
  ASSUME NEW id \in Nat
  PROVE  Authentic(Packet("message", id, id + 1), id)
<1> DEFINE p == Packet("message", id, id + 1)
<1>1. "message" \in Packets /\ SizeOf("message") = Size /\ id + 1 \in Nat
  BY DEF Packets, SizeOf
<1>2. /\ p \in Seq(Byte) /\ Len(p) = Size
      /\ \A i \in 1..Size : p[i] = [of |-> "message", at |-> i, id |-> id, call |-> id + 1]
  BY <1>1, PacketFacts
<1> HIDE DEF p
<1>3. Size \in 1..Size
  BY SizeFacts
<1>4. Authentic(p, id)
  BY <1>2, <1>3 DEF Authentic
<1> QED
  BY <1>4 DEF p

\* The bytes of a message received whole are a packet.
LEMMA WholeMessage ==
  ASSUME NEW id \in Nat, NEW n \in Nat, n >= 1, NEW s \in Seq(Byte), NEW d,
         Len(s) = Size, Run(s, Message(id + n - 1), d)
  PROVE  s = Packet("message", id + n - 1, id + n) /\ d = Message(id + n)
<1>1. "message" \in Packets /\ SizeOf("message") = Size
  BY DEF Packets, SizeOf
<1>2. id + n - 1 \in Nat /\ id + n \in Nat /\ (id + n - 1) + 1 = id + n
  OBVIOUS
<1>3. Len(s) <= SizeOf("message") /\ Run(s, Start("message", id + n - 1, id + n), d)
  BY <1>1, <1>2, SizeFacts DEF Message
<1> DEFINE k == id + n - 1  c == id + n
<1>4. k \in Nat /\ c \in Nat /\ k + 1 = c
  BY <1>2
<1>5. Run(s, Start("message", k, c), d)
  BY <1>3
<1> HIDE DEF k, c
<1>6. s = Packet("message", k, c) /\ d = Behind("message", k)
  BY <1>1, <1>3, <1>4, <1>5, RunWithin
<1>7. Behind("message", k) = Message(c)
  BY <1>4 DEF Behind
<1> QED
  BY <1>6, <1>7 DEF k, c

\* A direction nobody touches stays whole.
LEMMA UpStays ==
  ASSUME UpWhole, UNCHANGED <<console, pending, writeQueue, writeId, up, server, buffer, offset,
                              serverReadId>>
  PROVE  UpWhole'
BY DEF UpWhole, ServerDue, ConsoleSends

\* The same for what the server sends.
LEMMA DownStays ==
  ASSUME DownWhole, UNCHANGED <<console, received, readQueue, readId, down, server, sending,
                                serverWriteId>>
  PROVE  DownWhole'
BY DEF DownWhole, ConsoleDue, ServerSends

\* The console begins the key exchange: xx1 is what it sends first.
LEMMA ConnectWhole ==
  ASSUME Inv, Whole, Connect
  PROVE  Whole'
<1>1. SUFFICES ASSUME ~Reason' PROVE (console # "closed" /\ server # "closed" /\ UpWhole /\ DownWhole)'
  BY DEF Whole
<1>2. /\ console = "connect" /\ console' = "xx1" /\ pending' = Packet("xx1", 0, 0)
      /\ UNCHANGED <<received, writeQueue, writeId, readQueue, readId, up, down, server, sending,
                     buffer, offset, serverReadId, serverWriteId, lost, split, dropped>>
  BY DEF Connect, writerVars, readerVars, serverReaderVars, serverWriterVars
<1>3. server # "closed" /\ UpWhole /\ DownWhole
  BY <1>1, <1>2 DEF Whole, Reason
<1>4. UpWhole'
  <2>1. PICK d, e : ServerDue(d) /\ ConsoleSends(e) /\ Run(up, d, e)
    BY <1>3 DEF UpWhole
  <2>2. Run(Packet("xx1", 0, 0), Start("xx1", 0, 0), Start("xx3", 0, 0)) /\ Packet("xx1", 0, 0) # <<>>
    BY PacketRuns DEF Packets, Behind
  <2>3. ServerDue(d)' /\ ConsoleSends(e)'
    BY <1>2, <2>1, <2>2 DEF ServerDue, ConsoleSends
  <2> QED
    BY <1>2, <2>1, <2>3 DEF UpWhole
<1>5. DownWhole'
  BY <1>2, <1>3 DEF DownWhole, ConsoleDue, ServerSends
<1> QED
  BY <1>2, <1>3, <1>4, <1>5

\* A key exchange packet leaves in pieces; after its last byte comes the next packet.
LEMMA SendHandshakeWhole ==
  ASSUME Inv, Whole, SendHandshake
  PROVE  Whole'
<1>1. SUFFICES ASSUME ~Reason' PROVE (console # "closed" /\ server # "closed" /\ UpWhole /\ DownWhole)'
  BY DEF Whole
<1>2. /\ console \in {"xx1", "xx3"}
      /\ UNCHANGED <<received, writeQueue, writeId, readQueue, readId, down, server, sending,
                     buffer, offset, serverReadId, serverWriteId, lost, split, dropped>>
  BY DEF SendHandshake, writerVars, readerVars, serverReaderVars, serverWriterVars
<1>3. server # "closed" /\ UpWhole /\ DownWhole
  BY <1>1, <1>2 DEF Whole, Reason
<1>4. /\ pending \in Seq(Byte) /\ up \in Seq(Byte) /\ Len(pending) \in Nat /\ Space(up) \in Nat
  BY Parts
<1>5. PICK n \in Some(Least(Len(pending), Space(up))) :
        /\ up' = up \o Take(n, pending) /\ pending' = Skip(n, pending)
        /\ console' = IF n < Len(pending) THEN console
                      ELSE IF console = "xx1" THEN "xx2" ELSE "ready"
  BY DEF SendHandshake
<1>6. n \in 1..Len(pending)
  BY <1>4, LeastFacts
<1>7. PICK d, e : ServerDue(d) /\ ConsoleSends(e) /\ Run(up, d, e)
  BY <1>3 DEF UpWhole
<1>8. ServerDue(d)'
  BY <1>2, <1>7 DEF ServerDue
<1>9. DEFINE end == IF console = "xx1" THEN Start("xx3", 0, 0) ELSE Message(0)
<1>10. Run(pending, e, end) /\ writeQueue = <<>> /\ writeId = 0
  BY <1>2, <1>7 DEF ConsoleSends
<1>11. PICK x : /\ Run(up', d, x) /\ Run(pending', x, end)
                /\ n = Len(pending) => x = end /\ pending' = <<>>
                /\ n < Len(pending) => pending' # <<>>
  <2> HIDE DEF end
  <2> QED
    BY <1>4, <1>5, <1>6, <1>7, <1>10, RunMoves
<1>12. n = Len(pending) \/ n < Len(pending)
  BY <1>4, <1>6
<1>13. ConsoleSends(x)'
  <2>1. CASE n < Len(pending)
    BY <1>2, <1>5, <1>10, <1>11, <2>1 DEF ConsoleSends
  <2>2. CASE n = Len(pending)
    <3>1. ~(n < Len(pending)) /\ x = end
      BY <1>4, <1>6, <1>11, <2>2
    <3>2. Len(<<>>) = 0 /\ 1..0 = {}
      BY EmptySeq
    <3> QED
      BY <1>2, <1>5, <1>10, <3>1, <3>2 DEF ConsoleSends, Queued
  <2> QED
    BY <1>12, <2>1, <2>2
<1>14. UpWhole'
  BY <1>8, <1>11, <1>13 DEF UpWhole
<1>15. DownWhole'
  <2>1. PICK d1, e1 : ConsoleDue(d1) /\ ServerSends(e1) /\ Run(down, d1, e1)
    BY <1>3 DEF DownWhole
  <2>2. ServerSends(e1)'
    BY <1>2, <2>1 DEF ServerSends
  <2>3. ConsoleDue(d1)'
    <3>1. CASE console' = console
      BY <1>2, <2>1, <3>1 DEF ConsoleDue
    <3>2. CASE console = "xx1" /\ console' = "xx2"
      <4>1. received' = <<>> /\ d1 = Start("xx2", 0, 0) /\ readQueue' = <<>> /\ readId' = 0
        BY <1>2, <2>1, <3>2 DEF ConsoleDue
      <4>2. Run(received', Start("xx2", 0, 0), d1) /\ Len(received') < Handshake
        BY <4>1, RunEmpty, EmptySeq, SizesAssumption
      <4> QED
        BY <3>2, <4>1, <4>2 DEF ConsoleDue
    <3>3. CASE console = "xx3" /\ console' = "ready"
      <4>1. d1 = Message(0) /\ readQueue' = <<>> /\ readId' = 0
        BY <1>2, <2>1, <3>3 DEF ConsoleDue
      <4>2. Len(<<>>) = 0 /\ 1..(0 - 1) = {}
        BY EmptySeq
      <4> QED
        BY <3>3, <4>1, <4>2 DEF ConsoleDue, Received
    <3> QED
      BY <1>2, <1>5, <3>1, <3>2, <3>3
  <2> QED
    BY <1>2, <2>1, <2>2, <2>3 DEF DownWhole
<1> QED
  BY <1>2, <1>3, <1>5, <1>14, <1>15

\* What the console receives as xx2 is xx2: it does not give up here.
LEMMA ReceiveHandshakeWhole ==
  ASSUME Inv, Whole, ReceiveHandshake
  PROVE  Whole'
<1>1. SUFFICES ASSUME ~Reason' PROVE (console # "closed" /\ server # "closed" /\ UpWhole /\ DownWhole)'
  BY DEF Whole
<1>2. /\ console = "xx2"
      /\ UNCHANGED <<writeQueue, writeId, readQueue, readId, up, server, sending,
                     buffer, offset, serverReadId, serverWriteId, lost, split, dropped>>
  BY DEF ReceiveHandshake, writerVars, readerVars, serverReaderVars, serverWriterVars
<1>3. server # "closed" /\ UpWhole /\ DownWhole
  BY <1>1, <1>2 DEF Whole, Reason
<1>4. /\ received \in Seq(Byte) /\ down \in Seq(Byte) /\ Len(received) \in Nat /\ Len(down) \in Nat
      /\ Handshake \in Nat
  BY Parts, SizesAssumption
<1>5. PICK d, e : ConsoleDue(d) /\ ServerSends(e) /\ Run(down, d, e)
  BY <1>3 DEF DownWhole
<1>6. /\ Run(received, Start("xx2", 0, 0), d) /\ Len(received) < Handshake
      /\ readQueue = <<>> /\ readId = 0
  BY <1>2, <1>5 DEF ConsoleDue
<1>7. PICK n \in Some(Least(Handshake - Len(received), Len(down))) :
        received' = received \o Take(n, down) /\ down' = Skip(n, down)
  BY DEF ReceiveHandshake
<1>8. n \in 1..Len(down) /\ Len(received) + n <= Handshake
  <2>1. Handshake - Len(received) \in Nat
    BY <1>4, <1>6
  <2> QED
    BY <1>4, <2>1, LeastFacts
<1>9. PICK x : /\ Run(received', Start("xx2", 0, 0), x) /\ Run(down', x, e)
               /\ Len(received') = Len(received) + n /\ received' \in Seq(Byte)
  BY <1>4, <1>5, <1>6, <1>7, <1>8, RunMoves
<1>10. ServerSends(e)'
  BY <1>2, <1>5 DEF ServerSends
<1>11. PICK d1, e1 : ServerDue(d1) /\ ConsoleSends(e1) /\ Run(up, d1, e1)
  BY <1>3 DEF UpWhole
<1>12. ServerDue(d1)'
  BY <1>2, <1>11 DEF ServerDue
<1>13. e1 = Start("xx3", 0, 0) /\ writeQueue = <<>> /\ writeId = 0
  BY <1>2, <1>11 DEF ConsoleSends
<1>14. CASE Len(received') < Handshake
  <2>1. UNCHANGED <<console, pending>>
    BY <1>14 DEF ReceiveHandshake
  <2>2. ConsoleDue(x)'
    BY <1>2, <1>6, <1>9, <1>14, <2>1 DEF ConsoleDue
  <2>3. ConsoleSends(e1)'
    BY <1>2, <1>11, <2>1 DEF ConsoleSends
  <2> QED
    BY <1>2, <1>3, <1>9, <1>10, <1>11, <1>12, <2>1, <2>2, <2>3 DEF UpWhole, DownWhole
<1>15. CASE ~(Len(received') < Handshake)
  <2>1. Len(received') = SizeOf("xx2") /\ Len(received') <= SizeOf("xx2")
    BY <1>4, <1>8, <1>9, <1>15 DEF SizeOf
  <2>2. received' = Packet("xx2", 0, 0) /\ x = Message(0)
    <3>1. "xx2" \in Packets /\ 0 \in Nat
      BY DEF Packets
    <3>2. Run(received', Start("xx2", 0, 0), x) /\ received' \in Seq(Byte)
      BY <1>9
    <3>3. received' = Packet("xx2", 0, 0) /\ x = Behind("xx2", 0)
      <4> DEFINE r == received'
      <4>1. r \in Seq(Byte) /\ Run(r, Start("xx2", 0, 0), x) /\ Len(r) = SizeOf("xx2")
            /\ Len(r) <= SizeOf("xx2")
        BY <2>1, <3>2
      <4> HIDE DEF r
      <4>2. r = Packet("xx2", 0, 0) /\ x = Behind("xx2", 0)
        BY <3>1, <4>1, RunWithin
      <4> QED
        BY <4>2 DEF r
    <3> QED
      BY <3>3 DEF Behind
  <2>3. console' = "xx3" /\ pending' = Packet("xx3", 0, 0)
    BY <1>15, <2>2 DEF ReceiveHandshake
  <2>4. ConsoleDue(x)'
    BY <1>2, <1>6, <2>2, <2>3 DEF ConsoleDue
  <2>5. Run(Packet("xx3", 0, 0), Start("xx3", 0, 0), Message(0)) /\ Packet("xx3", 0, 0) # <<>>
    BY PacketRuns DEF Packets, Behind
  <2>6. ConsoleSends(e1)'
    BY <1>2, <1>13, <2>3, <2>5 DEF ConsoleSends
  <2> QED
    BY <1>2, <1>3, <1>9, <1>10, <1>11, <1>12, <2>3, <2>4, <2>6 DEF UpWhole, DownWhole
<1> QED
  BY <1>14, <1>15

\* poll takes from the front message only, and pops it when it is sent whole.
LEMMA SendFrontWhole ==
  ASSUME Inv, Whole, SendFront
  PROVE  Whole'
<1>1. SUFFICES ASSUME ~Reason' PROVE (console # "closed" /\ server # "closed" /\ UpWhole /\ DownWhole)'
  BY DEF Whole
<1>2. /\ console = "ready"
      /\ UNCHANGED <<console, received, writeId, readQueue, readId, down, server, sending,
                     buffer, offset, serverReadId, serverWriteId, lost, split, dropped, pending>>
  BY DEF SendFront, Polling, readerVars, serverReaderVars, serverWriterVars
<1>3. server # "closed" /\ UpWhole /\ DownWhole
  BY <1>1, <1>2 DEF Whole, Reason
<1>4. DownWhole'
  BY <1>2, <1>3, DownStays
<1>5. CASE UNCHANGED <<writeQueue, up>>
  BY <1>2, <1>3, <1>4, <1>5, UpStays
<1>6. CASE ~UNCHANGED <<writeQueue, up>>
  <2> DEFINE front == Head(writeQueue)  left == Len(writeQueue)
  <2>1. /\ writeQueue # <<>>
        /\ \E n \in Some(Least(Len(front), Space(up))) :
             /\ up' = up \o Take(n, front)
             /\ writeQueue' = IF n = Len(front) THEN Tail(writeQueue)
                              ELSE <<Skip(n, front)>> \o Tail(writeQueue)
    BY <1>6 DEF SendFront
  <2>2. /\ writeQueue \in Seq(Seq(Byte)) /\ up \in Seq(Byte) /\ left \in Nat /\ Space(up) \in Nat
        /\ writeId \in Nat
    BY Parts
  <2>3. front = writeQueue[1] /\ front \in Seq(Byte) /\ 1 \in 1..left
    <3>1. left > 0
      BY <2>1, <2>2, EmptySeq
    <3> QED
      BY <2>1, <2>2, <3>1, HeadTailProperties
  <2>4. /\ Tail(writeQueue) \in Seq(Seq(Byte)) /\ Len(Tail(writeQueue)) = left - 1
        /\ \A i \in 1..(left - 1) : Tail(writeQueue)[i] = writeQueue[i + 1]
    BY <2>1, <2>2, HeadTailProperties
  <2>5. PICK d, e : ServerDue(d) /\ ConsoleSends(e) /\ Run(up, d, e)
    BY <1>3 DEF UpWhole
  <2>6. Queued(writeQueue, writeId, e)
    BY <1>2, <2>5 DEF ConsoleSends
  <2>7. ServerDue(d)'
    BY <1>2, <2>5 DEF ServerDue
  <2>8. /\ e = front[1] /\ front # <<>> /\ Run(front, e, Message(writeId + 1 - left))
    BY <2>1, <2>3, <2>6 DEF Queued
  <2> HIDE DEF front, left
  <2>9. PICK n \in Some(Least(Len(front), Space(up))) :
             /\ up' = up \o Take(n, front)
             /\ writeQueue' = IF n = Len(front) THEN Tail(writeQueue)
                              ELSE <<Skip(n, front)>> \o Tail(writeQueue)
    BY <2>1
  <2>10. n \in 1..Len(front) /\ Len(front) \in Nat
    <3>1. Len(front) \in Nat
      BY <2>3, LenProperties
    <3> QED
      BY <2>2, <3>1, LeastFacts
  <2>11. PICK x : /\ Run(up', d, x) /\ Run(Skip(n, front), x, Message(writeId + 1 - left))
                  /\ n = Len(front) => x = Message(writeId + 1 - left)
                  /\ n < Len(front) => Skip(n, front) # <<>>
                  /\ Skip(n, front) \in Seq(Byte)
    <3>1. PICK m : m = Message(writeId + 1 - left)
      OBVIOUS
    <3>2. Run(up, d, e) /\ Run(front, e, m) /\ front \in Seq(Byte) /\ up \in Seq(Byte)
      BY <2>2, <2>3, <2>5, <2>8, <3>1
    <3>3. \E x : /\ Run(up \o Take(n, front), d, x) /\ Run(Skip(n, front), x, m)
                 /\ n = Len(front) => x = m
                 /\ n < Len(front) => Skip(n, front) # <<>>
                 /\ Skip(n, front) \in Seq(Byte)
      BY <2>10, <3>2, RunMoves
    <3> QED
      BY <2>9, <3>1, <3>3
  <2>12. \A j \in 2..left :
          /\ writeQueue[j] # <<>> /\ Run(writeQueue[j], writeQueue[j][1], Message(writeId + j - left))
          /\ writeQueue[j][1] = Message(writeId + j - left - 1)
    <3>1. \A j \in 2..left : j \in 1..left /\ j > 1
      BY <2>2
    <3> QED
      BY <2>6, <3>1 DEF Queued, left
  <2>13. CASE n = Len(front)
    <3>1. writeQueue' = Tail(writeQueue)
      BY <2>9, <2>13
    <3>2. \A j \in 1..(left - 1) :
            /\ j + 1 \in 2..left /\ writeId + j - (left - 1) = writeId + (j + 1) - left
            /\ writeId + j - (left - 1) - 1 = writeId + (j + 1) - left - 1
      BY <2>2
    <3>3. \A j \in 1..(left - 1) :
            /\ writeQueue'[j] # <<>>
            /\ Run(writeQueue'[j], writeQueue'[j][1], Message(writeId + j - (left - 1)))
            /\ writeQueue'[j][1] = Message(writeId + j - (left - 1) - 1)
      BY <2>4, <2>12, <3>1, <3>2
    <3>4. writeQueue' = <<>> => x = Message(writeId)
      <4>a. writeQueue' \in Seq(Seq(Byte)) /\ Len(writeQueue') = left - 1
        BY <2>4, <3>1
      <4>b. writeQueue' = <<>> => Len(writeQueue') = 0
        BY EmptySeq
      <4>1. writeQueue' = <<>> => left = 1
        BY <2>2, <4>a, <4>b
      <4>2. left = 1 => writeId + 1 - left = writeId
        BY <2>2
      <4> QED
        BY <2>11, <2>13, <4>1, <4>2
    <3>5. writeQueue' # <<>> => x = writeQueue'[1][1]
      <4>1. writeQueue' # <<>> => 1 \in 1..(left - 1)
        BY <2>2, <2>4, <3>1, EmptySeq
      <4>2. writeId + 1 - (left - 1) - 1 = writeId + 1 - left
        BY <2>2
      <4> QED
        BY <2>11, <2>13, <3>3, <4>1, <4>2
    <3>6. Queued(writeQueue', writeId, x)
      BY <2>4, <3>1, <3>3, <3>4, <3>5 DEF Queued
    <3>7. ConsoleSends(x)'
      BY <1>2, <3>6 DEF ConsoleSends
    <3> QED
      BY <1>2, <1>3, <1>4, <2>7, <2>11, <3>7 DEF UpWhole
  <2>14. CASE n < Len(front)
    <3> DEFINE s == Skip(n, front)
    <3>1. writeQueue' = <<s>> \o Tail(writeQueue)
      BY <2>9, <2>10, <2>14
    <3>2. Run(s, x, Message(writeId + 1 - left)) /\ s # <<>> /\ s \in Seq(Byte)
      BY <2>11, <2>14
    <3> HIDE DEF s
    <3>3. /\ writeQueue' \in Seq(Seq(Byte)) /\ Len(writeQueue') = left /\ writeQueue'[1] = s
          /\ \A j \in 2..left : writeQueue'[j] = writeQueue[j]
      <4>1. <<s>> \in Seq(Seq(Byte)) /\ Len(<<s>>) = 1 /\ <<s>>[1] = s
        BY <3>2
      <4>2. /\ writeQueue' \in Seq(Seq(Byte)) /\ Len(writeQueue') = 1 + (left - 1)
            /\ \A j \in 1..(1 + (left - 1)) :
                 writeQueue'[j] = IF j <= 1 THEN <<s>>[j] ELSE Tail(writeQueue)[j - 1]
        BY <2>4, <3>1, <4>1, ConcatProperties
      <4>3. \A j \in 2..left : /\ j \in 1..(1 + (left - 1)) /\ ~(j <= 1)
                               /\ j - 1 \in 1..(left - 1) /\ (j - 1) + 1 = j
        BY <2>2
      <4>4. 1 \in 1..(1 + (left - 1)) /\ 1 + (left - 1) = left
        BY <2>2, <2>3 DEF left
      <4>5. \A j \in 2..left : writeQueue'[j] = writeQueue[j]
        BY <2>4, <4>2, <4>3
      <4> QED
        BY <4>1, <4>2, <4>4, <4>5
    <3>4. writeQueue' # <<>>
      BY <2>2, <2>3, <3>3, EmptySeq DEF left
    <3>5. x = s[1]
      BY <3>2 DEF Run
    <3>6. \A j \in 1..left :
            /\ writeQueue'[j] # <<>>
            /\ Run(writeQueue'[j], writeQueue'[j][1], Message(writeId + j - left))
            /\ j > 1 => writeQueue'[j][1] = Message(writeId + j - left - 1)
      <4>1. TAKE j \in 1..left
      <4>2. CASE j = 1
        BY <3>2, <3>3, <3>5, <4>2
      <4>3. CASE j \in 2..left
        BY <2>12, <3>3, <4>3
      <4> QED
        BY <2>2, <4>2, <4>3
    <3>7. Queued(writeQueue', writeId, x)
      BY <3>3, <3>4, <3>5, <3>6 DEF Queued
    <3>8. ConsoleSends(x)'
      BY <1>2, <3>7 DEF ConsoleSends
    <3> QED
      BY <1>2, <1>3, <1>4, <2>7, <2>11, <3>8 DEF UpWhole
  <2> QED
    BY <2>10, <2>13, <2>14
<1> QED
  BY <1>5, <1>6

\* A socket call fails only when the connection is lost or the server gave up.
LEMMA ConsoleFailsWhole ==
  ASSUME Inv, Whole, ConsoleFails
  PROVE  Whole'
<1>1. Reason' <=> Reason
  BY DEF ConsoleFails, Reason, writerVars, serverReaderVars
<1>2. lost \/ server = "closed"
  BY DEF ConsoleFails
<1>3. Reason
  BY <1>2 DEF Whole, Reason
<1> QED
  BY <1>1, <1>3 DEF Whole

\* The same for the server.
LEMMA ServerFailsWhole ==
  ASSUME Inv, Whole, ServerFails
  PROVE  Whole'
<1>1. Reason' <=> Reason
  BY DEF ServerFails, Reason, writerVars, serverReaderVars
<1>2. lost \/ console = "closed"
  BY DEF ServerFails
<1>3. Reason
  BY <1>2 DEF Whole, Reason
<1> QED
  BY <1>1, <1>3 DEF Whole

\* A cut network is a reason.
LEMMA LoseWhole ==
  ASSUME Inv, Whole, Lose
  PROVE  Whole'
BY DEF Lose, Whole, Reason

\* write_all moves bytes from what is left of the packet onto the wire.
LEMMA ServerSendWhole ==
  ASSUME Inv, Whole, ServerSend
  PROVE  Whole'
<1>1. SUFFICES ASSUME ~Reason' PROVE (console # "closed" /\ server # "closed" /\ UpWhole /\ DownWhole)'
  BY DEF Whole
<1>2. /\ server \in {"xx3", "ready"}
      /\ UNCHANGED <<console, received, writeQueue, writeId, readQueue, readId, up, server,
                     buffer, offset, serverReadId, serverWriteId, lost, split, dropped, pending>>
  BY DEF ServerSend, consoleVars, writerVars, readerVars, serverReaderVars, serverWriterVars
<1>3. console # "closed" /\ server # "closed" /\ UpWhole /\ DownWhole
  BY <1>1, <1>2 DEF Whole, Reason
<1>4. UpWhole'
  BY <1>2, <1>3, UpStays
<1>5. /\ sending \in Seq(Byte) /\ down \in Seq(Byte) /\ Len(sending) \in Nat /\ Space(down) \in Nat
  BY Parts
<1>6. PICK n \in Some(Least(Len(sending), Space(down))) :
        down' = down \o Take(n, sending) /\ sending' = Skip(n, sending)
  BY DEF ServerSend
<1>7. n \in 1..Len(sending)
  BY <1>5, LeastFacts
<1>8. PICK d, e : ConsoleDue(d) /\ ServerSends(e) /\ Run(down, d, e)
  BY <1>3 DEF DownWhole
<1>9. ConsoleDue(d)'
  BY <1>2, <1>8 DEF ConsoleDue
<1>10. PICK end : /\ Run(sending, e, end)
                  /\ end = IF server = "xx3" THEN Message(0) ELSE Message(serverWriteId)
                  /\ server = "xx3" => serverWriteId = 0
  BY <1>2, <1>8 DEF ServerSends
<1>11. PICK x : Run(down', d, x) /\ Run(sending', x, end)
  BY <1>5, <1>6, <1>7, <1>8, <1>10, RunMoves
<1>12. ServerSends(x)'
  BY <1>2, <1>10, <1>11 DEF ServerSends
<1>13. DownWhole'
  BY <1>9, <1>11, <1>12 DEF DownWhole
<1> QED
  BY <1>2, <1>3, <1>4, <1>13

\* The server begins a message only after the one before has left.
LEMMA ServerWriteWhole ==
  ASSUME Inv, Whole, ServerWrite
  PROVE  Whole'
<1>1. SUFFICES ASSUME ~Reason' PROVE (console # "closed" /\ server # "closed" /\ UpWhole /\ DownWhole)'
  BY DEF Whole
<1>2. /\ server = "ready" /\ sending = <<>>
      /\ sending' = Packet("message", serverWriteId, downCalls + 1)
      /\ serverWriteId' = serverWriteId + 1
      /\ UNCHANGED <<console, received, writeQueue, writeId, readQueue, readId, up, down, server,
                     buffer, offset, serverReadId, lost, split, dropped, pending>>
  BY DEF ServerWrite, consoleVars, writerVars, readerVars, serverReaderVars
<1>3. console # "closed" /\ server # "closed" /\ UpWhole /\ DownWhole
  BY <1>1, <1>2 DEF Whole, Reason
<1>4. UpWhole'
  BY <1>2, <1>3, UpStays
<1>5. PICK d, e : ConsoleDue(d) /\ ServerSends(e) /\ Run(down, d, e)
  BY <1>3 DEF DownWhole
<1>6. e = Message(serverWriteId)
  BY <1>2, <1>5 DEF ServerSends, Run
<1>7. serverWriteId \in Nat /\ serverWriteId = downCalls
  BY Parts
<1>8. Run(sending', e, Message(serverWriteId + 1))
  <2>1. "message" \in Packets /\ serverWriteId + 1 \in Nat
    BY <1>7 DEF Packets
  <2>2. Run(Packet("message", serverWriteId, serverWriteId + 1),
            Start("message", serverWriteId, serverWriteId + 1), Behind("message", serverWriteId))
    BY <1>7, <2>1, PacketRuns
  <2> QED
    BY <1>2, <1>6, <1>7, <2>2 DEF Message, Behind
<1>9. ServerSends(e)'
  BY <1>2, <1>8 DEF ServerSends
<1>10. ConsoleDue(d)'
  BY <1>2, <1>5 DEF ConsoleDue
<1>11. DownWhole'
  BY <1>2, <1>5, <1>9, <1>10 DEF DownWhole
<1> QED
  BY <1>2, <1>3, <1>4, <1>11

\* A cancelled read of the size goes on where it stopped.
LEMMA ServerReadSizeWhole ==
  ASSUME Inv, Whole, ServerReadSize
  PROVE  Whole'
<1>1. SUFFICES ASSUME ~Reason' PROVE (console # "closed" /\ server # "closed" /\ UpWhole /\ DownWhole)'
  BY DEF Whole
<1>2. /\ server = "ready" /\ offset < Header
      /\ UNCHANGED <<console, received, writeQueue, writeId, readQueue, readId, down, server,
                     serverReadId, serverWriteId, lost, split, dropped, pending, sending>>
  BY DEF ServerReadSize, ServerReads, consoleVars, writerVars, readerVars, serverWriterVars
<1>3. console # "closed" /\ server # "closed" /\ UpWhole /\ DownWhole
  BY <1>1, <1>2 DEF Whole, Reason
<1>4. DownWhole'
  BY <1>2, <1>3, DownStays
<1>5. /\ buffer \in Seq(Byte) /\ up \in Seq(Byte) /\ Len(buffer) \in Nat /\ Len(up) \in Nat
      /\ offset \in Nat /\ Header \in Nat
  BY Parts, SizeFacts
<1>6. PICK n \in Some(Least(Header - offset, Len(up))) :
        /\ buffer' = Take(offset, buffer) \o Take(n, up)
        /\ up' = Skip(n, up) /\ offset' = offset + n
  BY DEF ServerReadSize
<1>7. n \in 1..Len(up) /\ offset + n <= Header /\ n \in Nat
  <2>1. Header - offset \in Nat
    BY <1>2, <1>5
  <2> QED
    BY <1>2, <1>5, <2>1, LeastFacts
<1>8. PICK d, e : ServerDue(d) /\ ConsoleSends(e) /\ Run(up, d, e)
  BY <1>3 DEF UpWhole
<1>9. Run(buffer, Message(serverReadId), d) /\ Len(buffer) = offset
  BY <1>2, <1>8 DEF ServerDue
<1>10. Take(offset, buffer) = buffer
  BY <1>5, <1>9, TakeAll
<1>11. PICK x : /\ Run(buffer', Message(serverReadId), x) /\ Run(up', x, e)
                /\ Len(buffer') = Len(buffer) + n
  <2>a. PICK b : b = Message(serverReadId)
    OBVIOUS
  <2>b. Run(buffer, b, d) /\ Run(up, d, e)
    BY <1>8, <1>9, <2>a
  <2>c. \E x : /\ Run(buffer \o Take(n, up), b, x) /\ Run(Skip(n, up), x, e)
               /\ Len(buffer \o Take(n, up)) = Len(buffer) + n
    BY <1>5, <1>7, <2>b, RunMoves
  <2>1. PICK x : /\ Run(buffer \o Take(n, up), Message(serverReadId), x) /\ Run(Skip(n, up), x, e)
                 /\ Len(buffer \o Take(n, up)) = Len(buffer) + n
    BY <2>a, <2>c
  <2>2. buffer' = buffer \o Take(n, up) /\ up' = Skip(n, up)
    BY <1>6, <1>10
  <2> QED
    BY <2>1, <2>2
<1>12. ServerDue(x)'
  BY <1>2, <1>6, <1>7, <1>9, <1>11 DEF ServerDue
<1>13. ConsoleSends(e)'
  BY <1>2, <1>8 DEF ConsoleSends
<1>14. UpWhole'
  BY <1>11, <1>12, <1>13 DEF UpWhole
<1> QED
  BY <1>2, <1>3, <1>4, <1>14

\* What the server receives as xx1 and xx3 is xx1 and xx3.
LEMMA ServerHandshakeWhole ==
  ASSUME Inv, Whole, ServerHandshake
  PROVE  Whole'
<1>1. SUFFICES ASSUME ~Reason' PROVE (console # "closed" /\ server # "closed" /\ UpWhole /\ DownWhole)'
  BY DEF Whole
<1>2. /\ server \in {"xx1", "xx3"} /\ sending = <<>>
      /\ UNCHANGED <<console, received, writeQueue, writeId, readQueue, readId, down, offset,
                     serverReadId, serverWriteId, lost, split, dropped, pending>>
  BY DEF ServerHandshake, consoleVars, writerVars, readerVars, serverWriterVars
<1>3. console # "closed" /\ server # "closed" /\ UpWhole /\ DownWhole
  BY <1>1, <1>2 DEF Whole, Reason
<1>5. /\ buffer \in Seq(Byte) /\ up \in Seq(Byte) /\ Len(buffer) \in Nat /\ Len(up) \in Nat
      /\ Handshake \in Nat
  BY Parts, SizesAssumption
<1>6. PICK d, e : ServerDue(d) /\ ConsoleSends(e) /\ Run(up, d, e)
  BY <1>3 DEF UpWhole
<1>7. /\ Run(buffer, Start(server, 0, 0), d) /\ Len(buffer) < Handshake
      /\ serverReadId = 0 /\ offset = 0
  BY <1>2, <1>6 DEF ServerDue
<1> DEFINE packet(n) == buffer \o Take(n, up)
<1>8. PICK n \in Some(Least(Handshake - Len(buffer), Len(up))) :
        /\ up' = Skip(n, up)
        /\ IF Len(packet(n)) < Handshake
             THEN buffer' = packet(n) /\ UNCHANGED <<server, sending>>
             ELSE /\ buffer' = <<>>
                  /\ IF packet(n) # Packet(server, 0, 0)
                       THEN server' = "closed" /\ UNCHANGED sending
                       ELSE IF server = "xx1"
                       THEN server' = "xx3" /\ sending' = Packet("xx2", 0, 0)
                       ELSE server' = "ready" /\ UNCHANGED sending
  BY DEF ServerHandshake
<1>9. n \in 1..Len(up) /\ Len(buffer) + n <= Handshake /\ n \in Nat
  <2>1. Handshake - Len(buffer) \in Nat
    BY <1>5, <1>7
  <2> QED
    BY <1>5, <2>1, LeastFacts
<1> DEFINE p == packet(n)
<1>10. PICK x : /\ Run(p, Start(server, 0, 0), x) /\ Run(up', x, e)
                /\ Len(p) = Len(buffer) + n /\ p \in Seq(Byte)
  BY <1>5, <1>6, <1>7, <1>8, <1>9, RunMoves
<1>11. PICK d1, e1 : ConsoleDue(d1) /\ ServerSends(e1) /\ Run(down, d1, e1)
  BY <1>3 DEF DownWhole
<1>12. ConsoleDue(d1)' /\ ConsoleSends(e)'
  BY <1>2, <1>6, <1>11 DEF ConsoleDue, ConsoleSends
<1>13. CASE Len(p) < Handshake
  <2>1. buffer' = p /\ UNCHANGED <<server, sending>>
    BY <1>8, <1>13
  <2> HIDE DEF p, packet
  <2>2. ServerDue(x)'
    BY <1>2, <1>7, <1>10, <1>13, <2>1 DEF ServerDue
  <2>3. ServerSends(e1)'
    BY <1>2, <1>11, <2>1 DEF ServerSends
  <2> QED
    BY <1>2, <1>3, <1>10, <1>11, <1>12, <2>1, <2>2, <2>3 DEF UpWhole, DownWhole
<1>14. CASE ~(Len(p) < Handshake)
  <2>1. buffer' = <<>> /\ Len(buffer') = 0
    BY <1>8, <1>14, EmptySeq
  <2>2. /\ p # Packet(server, 0, 0) => server' = "closed"
        /\ p = Packet(server, 0, 0) /\ server = "xx1" =>
             server' = "xx3" /\ sending' = Packet("xx2", 0, 0)
        /\ p = Packet(server, 0, 0) /\ server = "xx3" => server' = "ready" /\ UNCHANGED sending
    BY <1>2, <1>8, <1>14
  <2> HIDE DEF p, packet
  <2>3. p = Packet(server, 0, 0) /\ x = Behind(server, 0)
    <3>1. server \in Packets /\ SizeOf(server) = Handshake
      BY <1>2 DEF Packets, SizeOf
    <3>2. Len(p) = SizeOf(server) /\ Len(p) <= SizeOf(server)
      BY <1>5, <1>9, <1>10, <1>14, <3>1
    <3> QED
      BY <1>10, <3>1, <3>2, RunWithin
  <2>4. CASE server = "xx1"
    <3>1. server' = "xx3" /\ sending' = Packet("xx2", 0, 0) /\ x = Start("xx3", 0, 0)
      BY <2>2, <2>3, <2>4 DEF Behind
    <3>2. ServerDue(x)'
      <4>1. Run(<<>>, Start("xx3", 0, 0), x) /\ 0 < Handshake
        BY <3>1, RunEmpty, SizesAssumption
      <4> QED
        BY <1>2, <1>7, <2>1, <3>1, <4>1 DEF ServerDue
    <3>3. e1 = Start("xx2", 0, 0) /\ serverWriteId = 0
      BY <1>11, <2>4 DEF ServerSends
    <3>4. Run(Packet("xx2", 0, 0), Start("xx2", 0, 0), Message(0))
      BY PacketRuns DEF Packets, Behind
    <3>5. ServerSends(e1)'
      BY <1>2, <3>1, <3>3, <3>4 DEF ServerSends
    <3> QED
      BY <1>2, <1>3, <1>10, <1>11, <1>12, <3>1, <3>2, <3>5 DEF UpWhole, DownWhole
  <2>5. CASE server = "xx3"
    <3>1. server' = "ready" /\ sending' = <<>> /\ x = Message(0)
      BY <1>2, <2>2, <2>3, <2>5 DEF Behind
    <3>2. ServerDue(x)'
      <4>1. Run(<<>>, Message(0), x) /\ 0 <= Header
        BY <3>1, RunEmpty, SizeFacts
      <4> QED
        BY <1>2, <1>7, <2>1, <3>1, <4>1 DEF ServerDue
    <3>3. Run(sending, e1, Message(0)) /\ serverWriteId = 0
      BY <1>11, <2>5 DEF ServerSends
    <3>4. ServerSends(e1)'
      BY <1>2, <3>1, <3>3 DEF ServerSends
    <3> QED
      BY <1>2, <1>3, <1>10, <1>11, <1>12, <3>1, <3>2, <3>4 DEF UpWhole, DownWhole
  <2> QED
    BY <1>2, <2>4, <2>5
<1> QED
  BY <1>13, <1>14

\* The server receives the body in one piece, and so decrypts it.
LEMMA ServerReadBodyWhole ==
  ASSUME Inv, Whole, ServerReadBody
  PROVE  Whole'
<1>1. SUFFICES ASSUME ~Reason' PROVE (console # "closed" /\ server # "closed" /\ UpWhole /\ DownWhole)'
  BY DEF Whole
<1>2. /\ server = "ready" /\ sending = <<>> /\ offset >= Header
      /\ UNCHANGED <<console, received, writeQueue, writeId, readQueue, readId, down,
                     serverWriteId, lost, dropped, pending, sending>>
  BY DEF ServerReadBody, ServerReads, consoleVars, writerVars, readerVars, serverWriterVars
<1> DEFINE packet(n) == Filled(Take(n, up))
<1>3. PICK n \in Some(Least(Body, Len(up))) :
       /\ up' = Skip(n, up)
       /\ IF offset + n < Size
            THEN /\ buffer' = packet(n) /\ offset' = offset + n /\ split' = TRUE
                 /\ UNCHANGED <<server, serverReadId, upGot>>
            ELSE /\ buffer' = <<>> /\ offset' = 0 /\ UNCHANGED split
                 /\ IF Authentic(packet(n), serverReadId)
                      THEN /\ upGot' = Append(upGot, packet(n)[Size].call)
                           /\ serverReadId' = serverReadId + 1
                           /\ UNCHANGED server
                      ELSE server' = "closed" /\ UNCHANGED <<serverReadId, upGot>>
  BY DEF ServerReadBody
<1> DEFINE p == packet(n)
<1>4. ~(offset + n < Size) /\ split' = split
  BY <1>1, <1>3 DEF Reason
<1>5. /\ buffer' = <<>> /\ offset' = 0 /\ up' = Skip(n, up)
      /\ Authentic(p, serverReadId) => serverReadId' = serverReadId + 1 /\ server' = server
  BY <1>3, <1>4
<1> HIDE DEF p, packet
<1>6. console # "closed" /\ server # "closed" /\ UpWhole /\ DownWhole
  BY <1>1, <1>2, <1>4 DEF Whole, Reason
<1>7. /\ buffer \in Seq(Byte) /\ up \in Seq(Byte) /\ Len(buffer) \in Nat /\ Len(up) \in Nat
      /\ Header \in Nat /\ Body \in Nat /\ Size = Header + Body /\ offset \in Nat
      /\ serverReadId \in Nat
  BY Parts, SizeFacts, SizesAssumption
<1>8. PICK d, e : ServerDue(d) /\ ConsoleSends(e) /\ Run(up, d, e)
  BY <1>6 DEF UpWhole
<1>9. Run(buffer, Message(serverReadId), d) /\ Len(buffer) = Header /\ offset = Header
  <2>1. Run(buffer, Message(serverReadId), d) /\ Len(buffer) = offset /\ offset <= Header
    BY <1>2, <1>8 DEF ServerDue
  <2> QED
    BY <1>2, <1>7, <2>1
<1>10. n \in 1..Len(up) /\ n = Body
  BY <1>4, <1>7, <1>9, LeastFacts
<1>11. PICK x : /\ Run(buffer \o Take(n, up), Message(serverReadId), x) /\ Run(Skip(n, up), x, e)
                /\ Len(buffer \o Take(n, up)) = Len(buffer) + n
                /\ buffer \o Take(n, up) \in Seq(Byte)
  BY <1>7, <1>8, <1>9, <1>10, RunMoves
<1>12. p = buffer \o Take(n, up)
  <2>1. Take(Header, buffer) = buffer
    BY <1>7, <1>9, TakeAll
  <2>2. Take(n, up) \in Seq(Byte) /\ Len(Take(n, up)) = n
    BY <1>7, <1>10, SubSeqProperties DEF Take
  <2>3. Skip(Header + n, buffer) = <<>>
    <3>1. Header + n + 1 > Len(buffer) /\ Header + n + 1 \in Int /\ Len(buffer) \in Int
      BY <1>7, <1>9, <1>10
    <3>2. \A i \in (Header + n + 1)..Len(buffer) : buffer[i] \in Byte
      BY <1>7, <3>1
    <3>3. Skip(Header + n, buffer) \in Seq(Byte) /\ Len(Skip(Header + n, buffer)) = 0
      BY <1>7, <3>1, <3>2, SubSeqProperties DEF Skip
    <3> QED
      BY <3>3, EmptySeq
  <2>4. (buffer \o Take(n, up)) \o <<>> = buffer \o Take(n, up)
    BY <1>11, ConcatEmptySeq
  <2> QED
    BY <2>1, <2>2, <2>3, <2>4 DEF p, packet, Filled
<1>13. p = Packet("message", serverReadId, serverReadId + 1) /\ x = Message(serverReadId + 1)
  <2>1. "message" \in Packets /\ SizeOf("message") = Size /\ serverReadId + 1 \in Nat
    BY <1>7 DEF Packets, SizeOf
  <2>2. Len(p) = SizeOf("message") /\ Len(p) <= SizeOf("message")
    BY <1>7, <1>9, <1>10, <1>11, <1>12, <2>1
  <2>3. Run(p, Start("message", serverReadId, serverReadId + 1), x) /\ p \in Seq(Byte)
    BY <1>11, <1>12 DEF Message
  <2>4. p = Packet("message", serverReadId, serverReadId + 1) /\ x = Behind("message", serverReadId)
    BY <1>7, <2>1, <2>2, <2>3, RunWithin
  <2> QED
    BY <2>4 DEF Behind
<1>14. Authentic(p, serverReadId)
  BY <1>7, <1>13, PacketAuthentic
<1>15. serverReadId' = serverReadId + 1 /\ server' = server
  BY <1>5, <1>14
<1>16. ServerDue(x)'
  <2>1. Run(<<>>, Message(serverReadId + 1), x) /\ Len(<<>>) = 0 /\ 0 <= Header
    BY <1>7, <1>13, RunEmpty, EmptySeq
  <2> QED
    BY <1>2, <1>5, <1>15, <2>1 DEF ServerDue
<1>17. ConsoleSends(e)'
  BY <1>2, <1>8 DEF ConsoleSends
<1>18. UpWhole'
  BY <1>5, <1>11, <1>16, <1>17 DEF UpWhole
<1>19. DownWhole'
  BY <1>2, <1>6, <1>15, DownStays
<1> QED
  BY <1>2, <1>6, <1>15, <1>18, <1>19

\* The console's bytes stay where they belong when it adds an entry,
LEMMA ReceptionWhole ==
  ASSUME Inv, NEW d, Received(readQueue, readId, d)
  PROVE  /\ Received(Reception, readId, d)
         /\ Reception \in Seq(Seq(Byte)) /\ Reception # <<>> /\ Len(Reception) \in Nat
<1> DEFINE q == readQueue  L == Len(q)
<1>1. q \in Seq(Seq(Byte)) /\ L \in Nat /\ readId \in Nat
  BY Parts
<1>2. Reception = q \/ Reception = Append(q, <<>>)
  BY DEF Reception
<1>3. Reception # <<>> /\ Len(Reception) \in Nat
  BY ReceptionFacts
<1>4. CASE Reception = q
  BY <1>1, <1>3, <1>4
<1>5. CASE Reception = Append(q, <<>>) /\ Reception # q
  <2> DEFINE r == Append(q, <<>>)
  <2>1. /\ r \in Seq(Seq(Byte)) /\ Len(r) = L + 1 /\ r[L + 1] = <<>>
        /\ \A i \in 1..L : r[i] = q[i]
    BY <1>1, AppendProperties
  <2>2. q = <<>> \/ Len(q[L]) = Size
    BY <1>5 DEF Reception
  <2>3. d = Message(readId + L)
    <3>1. CASE q = <<>>
      <4>1. L = 0 /\ readId + L = readId
        BY <1>1, <3>1, EmptySeq
      <4>2. d = Message(readId)
        BY <3>1 DEF Received
      <4> QED
        BY <4>1, <4>2
    <3>2. CASE q # <<>>
      <4>1. L \in 1..L
        BY <1>1, <3>2, EmptySeq
      <4>2. q[L] \in Seq(Byte) /\ Len(q[L]) = Size /\ Run(q[L], Message(readId + L - 1), d)
        BY <1>1, <2>2, <3>2, <4>1, ElementOfSeq DEF Received
      <4>3. q[L] = Packet("message", readId + L - 1, readId + L) /\ d = Message(readId + L)
        BY <1>1, <4>1, <4>2, WholeMessage
      <4> QED
        BY <4>3
    <3> QED
      BY <3>1, <3>2
  <2>4. \A j \in 1..L : q[j] = Packet("message", readId + j - 1, readId + j)
    <3>1. TAKE j \in 1..L
    <3>2. CASE j = L
      <4>1. q # <<>> /\ L \in 1..L
        BY <1>1, <3>2, EmptySeq
      <4>2. q[L] \in Seq(Byte) /\ Len(q[L]) = Size /\ Run(q[L], Message(readId + L - 1), d)
        BY <1>1, <2>2, <4>1, ElementOfSeq DEF Received
      <4>3. q[L] = Packet("message", readId + L - 1, readId + L)
        BY <1>1, <4>1, <4>2, WholeMessage
      <4> QED
        BY <3>2, <4>3
    <3>3. CASE j # L
      <4>1. j \in 1..(L - 1)
        BY <1>1, <3>3
      <4> QED
        BY <4>1 DEF Received
    <3> QED
      BY <3>2, <3>3
  <2>5. Run(<<>>, Message(readId + L), d) /\ Len(<<>>) <= Size
    BY <2>3, RunEmpty, EmptySeq, SizeFacts
  <2>6. (L + 1) - 1 = L /\ readId + (L + 1) - 1 = readId + L
    BY <1>1
  <2>7. Reception = r
    BY <1>5
  <2>8. Received(r, readId, d)
    <3>1. r # <<>>
      BY <1>3, <2>7
    <3>2. \A j \in 1..(Len(r) - 1) : r[j] = Packet("message", readId + j - 1, readId + j)
      BY <2>1, <2>4, <2>6
    <3>3. Run(r[Len(r)], Message(readId + Len(r) - 1), d) /\ Len(r[Len(r)]) <= Size
      BY <2>1, <2>5, <2>6
    <3> QED
      BY <3>1, <3>2, <3>3 DEF Received
  <2> QED
    BY <1>3, <2>1, <2>7, <2>8
<1> QED
  BY <1>2, <1>4, <1>5

\* or receives no more than its message needs.
LEMMA ReceiveWhole ==
  ASSUME Inv, NEW queue \in Seq(Seq(Byte)), queue # <<>>, NEW d, NEW e,
         Received(queue, readId, d), Run(down, d, e),
         NEW most \in Nat, Len(queue[Len(queue)]) + most <= Size, Receive(queue, most)
  PROVE  \E x : Received(readQueue', readId, x) /\ Run(down', x, e)
<1>1. CASE down = <<>>
  BY <1>1 DEF Receive
<1>2. CASE down # <<>>
  <2> DEFINE L == Len(queue)  last == queue[L]
  <2>1. PICK n \in Some(Least(most, Len(down))) :
          /\ readQueue' = [queue EXCEPT ![L] = @ \o Take(n, down)]
          /\ down' = Skip(n, down)
    BY <1>2 DEF Receive
  <2>2. down \in Seq(Byte) /\ Len(down) \in Nat /\ L \in Nat /\ readId \in Nat
    BY Parts, LenProperties
  <2>3. n \in 1..Len(down) /\ n \in Nat /\ n <= most
    BY <2>2, LeastFacts
  <2>4. L \in 1..L
    BY <2>2, EmptySeq
  <2>5. last \in Seq(Byte)
    BY <2>4, ElementOfSeq
  <2>6. Run(last, Message(readId + L - 1), d) /\ Len(last) + most <= Size /\ Len(last) \in Nat
    BY <2>5, LenProperties DEF Received
  <2> HIDE DEF last
  <2>7. PICK x : /\ Run(last \o Take(n, down), Message(readId + L - 1), x)
                 /\ Run(Skip(n, down), x, e)
                 /\ Len(last \o Take(n, down)) = Len(last) + n
                 /\ last \o Take(n, down) \in Seq(Byte)
    BY <2>2, <2>3, <2>5, <2>6, RunMoves
  <2> DEFINE r == [queue EXCEPT ![L] = last \o Take(n, down)]
  <2>8. readQueue' = r
    BY <2>1 DEF last
  <2>9. /\ r \in Seq(Seq(Byte)) /\ Len(r) = L /\ r[L] = last \o Take(n, down)
        /\ \A j \in 1..L : j # L => r[j] = queue[j]
    <3> DEFINE new == last \o Take(n, down)
    <3>1. new \in Seq(Byte)
      BY <2>7
    <3> HIDE DEF new
    <3>2. [queue EXCEPT ![L] = new] \in Seq(Seq(Byte)) /\ Len([queue EXCEPT ![L] = new]) = L
      BY <2>4, <3>1, ExceptSeq
    <3>3. L \in DOMAIN queue /\ DOMAIN queue = 1..L
      BY <2>4, LenProperties
    <3>4. /\ [queue EXCEPT ![L] = new][L] = new
          /\ \A j \in 1..L : j # L => [queue EXCEPT ![L] = new][j] = queue[j]
      BY <3>3
    <3> QED
      BY <3>2, <3>4 DEF new
  <2> HIDE DEF r
  <2>10. r # <<>>
    BY <2>2, <2>4, <2>9, EmptySeq
  <2>11. Len(last) + n <= Size
    BY <2>3, <2>6, SizeFacts
  <2>12. \A j \in 1..(L - 1) : r[j] = Packet("message", readId + j - 1, readId + j)
    <3>1. TAKE j \in 1..(L - 1)
    <3>2. j \in 1..L /\ j # L
      BY <2>2
    <3> QED
      BY <2>9, <3>2 DEF Received
  <2>13. Received(r, readId, x)
    BY <2>7, <2>9, <2>10, <2>11, <2>12 DEF Received
  <2> QED
    BY <2>1, <2>7, <2>8, <2>13
<1> QED
  BY <1>1, <1>2

\* poll begins the next message, with no more than its size,
LEMMA ReceiveSizeWhole ==
  ASSUME Inv, Whole, ReceiveSize
  PROVE  Whole'
<1>1. SUFFICES ASSUME ~Reason' PROVE (console # "closed" /\ server # "closed" /\ UpWhole /\ DownWhole)'
  BY DEF Whole
<1>2. /\ console = "ready"
      /\ UNCHANGED <<console, received, writeQueue, writeId, readId, up, server, sending,
                     buffer, offset, serverReadId, serverWriteId, lost, split, dropped, pending>>
  BY DEF ReceiveSize, Polling, writerVars, serverReaderVars, serverWriterVars
<1>3. server # "closed" /\ UpWhole /\ DownWhole
  BY <1>1, <1>2 DEF Whole, Reason
<1>4. UpWhole'
  BY <1>2, <1>3, UpStays
<1>5. PICK d, e : ConsoleDue(d) /\ ServerSends(e) /\ Run(down, d, e)
  BY <1>3 DEF DownWhole
<1>6. ServerSends(e)'
  BY <1>2, <1>5 DEF ServerSends
<1>7. Received(readQueue, readId, d)
  BY <1>2, <1>5 DEF ConsoleDue
<1>8. PICK queue \in Seq(Seq(Byte)) : queue = Reception
  BY <1>7, ReceptionWhole
<1>9. Received(queue, readId, d) /\ queue # <<>> /\ Len(queue) \in Nat
  BY <1>7, <1>8, ReceptionWhole
<1> DEFINE got == Len(queue[Len(queue)])
<1>10. \/ got < Header /\ Receive(queue, Header - got)
       \/ readQueue' = queue /\ UNCHANGED down
  BY <1>8 DEF ReceiveSize
<1>11. got \in Nat
  <2>1. Len(queue) \in 1..Len(queue)
    BY <1>9, EmptySeq
  <2>2. queue[Len(queue)] \in Seq(Byte)
    BY <2>1, ElementOfSeq
  <2> QED
    BY <2>2, LenProperties
<1>12. \E x : Received(readQueue', readId, x) /\ Run(down', x, e)
  <2>1. CASE got < Header /\ Receive(queue, Header - got)
    <3>1. Header - got \in Nat /\ got + (Header - got) <= Size
      BY <1>11, <2>1, SizeFacts
    <3> HIDE DEF got
    <3>2. PICK most \in Nat : most = Header - got
      BY <3>1
    <3>3. Receive(queue, most) /\ Len(queue[Len(queue)]) + most <= Size
      BY <2>1, <3>1, <3>2 DEF got
    <3> QED
      BY <1>5, <1>9, <3>3, ReceiveWhole
  <2>2. CASE readQueue' = queue /\ UNCHANGED down
    BY <1>5, <1>9, <2>2
  <2> QED
    BY <1>10, <2>1, <2>2
<1>13. PICK x : Received(readQueue', readId, x) /\ Run(down', x, e)
  BY <1>12
<1>14. ConsoleDue(x)'
  BY <1>2, <1>13 DEF ConsoleDue
<1>15. DownWhole'
  BY <1>6, <1>13, <1>14 DEF DownWhole
<1> QED
  BY <1>2, <1>3, <1>4, <1>15

\* and goes on with no more than the rest of it.
LEMMA ReceiveBodyWhole ==
  ASSUME Inv, Whole, ReceiveBody
  PROVE  Whole'
<1>1. SUFFICES ASSUME ~Reason' PROVE (console # "closed" /\ server # "closed" /\ UpWhole /\ DownWhole)'
  BY DEF Whole
<1>2. /\ console = "ready" /\ pc = "body"
      /\ UNCHANGED <<console, received, writeQueue, writeId, readId, up, server, sending,
                     buffer, offset, serverReadId, serverWriteId, lost, split, dropped, pending>>
  BY DEF ReceiveBody, Polling, writerVars, serverReaderVars, serverWriterVars
<1>3. server # "closed" /\ UpWhole /\ DownWhole
  BY <1>1, <1>2 DEF Whole, Reason
<1>4. UpWhole'
  BY <1>2, <1>3, UpStays
<1>5. PICK d, e : ConsoleDue(d) /\ ServerSends(e) /\ Run(down, d, e)
  BY <1>3 DEF DownWhole
<1>6. ServerSends(e)'
  BY <1>2, <1>5 DEF ServerSends
<1>7. Received(readQueue, readId, d)
  BY <1>2, <1>5 DEF ConsoleDue
<1>8. readQueue # <<>> /\ readQueue \in Seq(Seq(Byte)) /\ Len(readQueue) \in Nat
  BY <1>2, Parts DEF Inv, SizeFirst
<1> DEFINE got == Len(readQueue[Len(readQueue)])
<1>9. \/ got >= Header /\ got + Header < Body /\ Receive(readQueue, Size - got)
      \/ UNCHANGED <<readQueue, down>>
  BY DEF ReceiveBody
<1>10. got \in Nat
  <2>1. Len(readQueue) \in 1..Len(readQueue)
    BY <1>8, EmptySeq
  <2>2. readQueue[Len(readQueue)] \in Seq(Byte)
    BY <1>8, <2>1, ElementOfSeq
  <2> QED
    BY <2>2, LenProperties
<1>11. \E x : Received(readQueue', readId, x) /\ Run(down', x, e)
  <2>1. CASE got >= Header /\ got + Header < Body /\ Receive(readQueue, Size - got)
    <3>1. Size - got \in Nat /\ got + (Size - got) <= Size
      BY <1>10, <2>1, SizeFacts, SizesAssumption
    <3> HIDE DEF got
    <3>2. PICK most \in Nat : most = Size - got
      BY <3>1
    <3>3. Receive(readQueue, most) /\ Len(readQueue[Len(readQueue)]) + most <= Size
      BY <2>1, <3>1, <3>2 DEF got
    <3> QED
      BY <1>5, <1>7, <1>8, <3>3, ReceiveWhole
  <2>2. CASE UNCHANGED <<readQueue, down>>
    BY <1>5, <1>7, <2>2
  <2> QED
    BY <1>9, <2>1, <2>2
<1>12. PICK x : Received(readQueue', readId, x) /\ Run(down', x, e)
  BY <1>11
<1>13. ConsoleDue(x)'
  BY <1>2, <1>12 DEF ConsoleDue
<1>14. DownWhole'
  BY <1>6, <1>12, <1>13 DEF DownWhole
<1> QED
  BY <1>2, <1>3, <1>4, <1>14

\* What read takes is a whole message with the expected id, which decrypts.
LEMMA ReadWhole ==
  ASSUME Inv, Whole, Read
  PROVE  Whole'
<1>1. SUFFICES ASSUME ~Reason' PROVE (console # "closed" /\ server # "closed" /\ UpWhole /\ DownWhole)'
  BY DEF Whole
<1>2. /\ console = "ready"
      /\ UNCHANGED <<received, writeQueue, writeId, down, up, server, sending, serverWriteId,
                     buffer, offset, serverReadId, lost, split, dropped, pending>>
  BY DEF Read, Polling, writerVars, serverReaderVars, serverWriterVars
<1>3. server # "closed" /\ UpWhole /\ DownWhole
  BY <1>1, <1>2 DEF Whole, Reason
<1>4. CASE UNCHANGED <<console, readQueue, readId>>
  BY <1>2, <1>3, <1>4, UpStays, DownStays
<1>5. CASE ~UNCHANGED <<console, readQueue, readId>>
  <2> DEFINE message == Head(readQueue)  L == Len(readQueue)
  <2>1. /\ readQueue # <<>> /\ ~(Len(message) < Size) /\ readId' = readId + 1
        /\ Authentic(message, readId) => readQueue' = Tail(readQueue) /\ console' = console
    BY <1>5 DEF Read, readerVars
  <2>2. readQueue \in Seq(Seq(Byte)) /\ L \in Nat /\ readId \in Nat
    BY Parts
  <2>3. /\ message = readQueue[1] /\ L >= 1 /\ 1 \in 1..L
        /\ Tail(readQueue) \in Seq(Seq(Byte)) /\ Len(Tail(readQueue)) = L - 1
        /\ \A i \in 1..(L - 1) : Tail(readQueue)[i] = readQueue[i + 1]
    <3>1. L >= 1
      BY <2>1, <2>2, EmptySeq
    <3> QED
      BY <2>1, <2>2, <3>1, HeadTailProperties
  <2>4. PICK d, e : ConsoleDue(d) /\ ServerSends(e) /\ Run(down, d, e)
    BY <1>3 DEF DownWhole
  <2>5. Received(readQueue, readId, d)
    BY <1>2, <2>4 DEF ConsoleDue
  <2>6. /\ \A j \in 1..(L - 1) : readQueue[j] = Packet("message", readId + j - 1, readId + j)
        /\ Run(readQueue[L], Message(readId + L - 1), d) /\ Len(readQueue[L]) <= Size
    BY <2>1, <2>5 DEF Received
  <2>7. L = 1 => message = Packet("message", readId, readId + 1) /\ d = Message(readId + 1)
    <3>1. SUFFICES ASSUME L = 1
                   PROVE  message = Packet("message", readId, readId + 1) /\ d = Message(readId + 1)
      OBVIOUS
    <3>2. message \in Seq(Byte) /\ Len(message) \in Nat
      BY <2>2, <2>3, ElementOfSeq, LenProperties
    <3>3. readId + 1 - 1 = readId
      BY <2>2
    <3>4. Run(message, Message(readId + 1 - 1), d) /\ Len(message) = Size
      <4>1. Len(message) <= Size
        BY <2>3, <2>6, <3>1
      <4>2. Len(message) = Size
        BY <2>1, <3>2, <4>1, SizeFacts
      <4> QED
        BY <2>3, <2>6, <3>1, <4>2
    <3> HIDE DEF message
    <3>5. message = Packet("message", readId + 1 - 1, readId + 1) /\ d = Message(readId + 1)
      <4>1. 1 \in Nat /\ 1 >= 1
        OBVIOUS
      <4> QED
        BY <2>2, <3>2, <3>4, <4>1, WholeMessage
    <3> QED
      BY <3>3, <3>5
  <2>8. L # 1 => message = Packet("message", readId, readId + 1)
    <3>1. L # 1 => 1 \in 1..(L - 1)
      BY <2>2, <2>3
    <3>2. readId + 1 - 1 = readId
      BY <2>2
    <3> QED
      BY <2>3, <2>6, <3>1, <3>2
  <2>9. readQueue' = Tail(readQueue) /\ console' = console
    <3>1. Authentic(message, readId)
      BY <2>2, <2>7, <2>8, PacketAuthentic
    <3> QED
      BY <2>1, <3>1
  <2> HIDE DEF message
  <2>10. UpWhole'
    BY <1>2, <1>3, <2>9, UpStays
  <2>11. Received(Tail(readQueue), readId + 1, d)
    <3> DEFINE t == Tail(readQueue)
    <3>1. t = <<>> => d = Message(readId + 1)
      <4>1. t = <<>> => Len(t) = 0
        BY EmptySeq
      <4>a. Len(t) = L - 1
        BY <2>3
      <4> HIDE DEF t
      <4>2. t = <<>> => L = 1
        BY <2>2, <4>1, <4>a
      <4> QED
        BY <2>7, <4>2
    <3>2. \A j \in 1..(Len(t) - 1) : t[j] = Packet("message", (readId + 1) + j - 1, (readId + 1) + j)
      <4>1. TAKE j \in 1..(Len(t) - 1)
      <4>2. /\ j \in 1..(L - 1) /\ j + 1 \in 1..(L - 1)
            /\ readId + (j + 1) - 1 = (readId + 1) + j - 1 /\ readId + (j + 1) = (readId + 1) + j
        BY <2>2, <2>3
      <4>3. t[j] = readQueue[j + 1]
        BY <2>3, <4>2
      <4>4. readQueue[j + 1] = Packet("message", readId + (j + 1) - 1, readId + (j + 1))
        BY <2>6, <4>2
      <4> QED
        BY <4>2, <4>3, <4>4
    <3>3. t # <<>> => Run(t[Len(t)], Message((readId + 1) + Len(t) - 1), d) /\ Len(t[Len(t)]) <= Size
      <4>1. SUFFICES ASSUME t # <<>>
                     PROVE  Run(t[Len(t)], Message((readId + 1) + Len(t) - 1), d) /\ Len(t[Len(t)]) <= Size
        OBVIOUS
      <4>2. Len(t) # 0
        BY <2>3, <4>1, EmptySeq
      <4>3. L - 1 \in 1..(L - 1) /\ (L - 1) + 1 = L /\ (readId + 1) + (L - 1) - 1 = readId + L - 1
        BY <2>2, <2>3, <4>2
      <4>4. t[L - 1] = readQueue[L]
        BY <2>3, <4>3
      <4> QED
        BY <2>3, <2>6, <4>3, <4>4
    <3> QED
      BY <3>1, <3>2, <3>3 DEF Received
  <2>12. ConsoleDue(d)'
    BY <1>2, <2>1, <2>9, <2>11 DEF ConsoleDue
  <2>13. ServerSends(e)'
    BY <1>2, <2>4 DEF ServerSends
  <2>14. DownWhole'
    BY <1>2, <2>4, <2>12, <2>13 DEF DownWhole
  <2> QED
    BY <1>2, <1>3, <2>9, <2>10, <2>14
<1> QED
  BY <1>4, <1>5

\* A message that is queued follows the one queued before it.
LEMMA WriteWhole ==
  ASSUME Inv, Whole, Write
  PROVE  Whole'
<1>1. SUFFICES ASSUME ~Reason' PROVE (console # "closed" /\ server # "closed" /\ UpWhole /\ DownWhole)'
  BY DEF Whole
<1>2. /\ console = "ready" /\ writeId' = writeId + 1
      /\ UNCHANGED <<received, readQueue, readId, down, up, server, sending, serverWriteId,
                     buffer, offset, serverReadId, lost, split, pending>>
  BY DEF Write, Polling, readerVars, serverReaderVars, serverWriterVars
<1>3. /\ writeQueue' = Append(writeQueue, Packet("message", writeId, upCalls + 1))
      /\ UNCHANGED <<console, dropped>>
  <2>1. CASE Len(writeQueue) < QueueCap
    BY <2>1 DEF Write
  <2>2. CASE ~(Len(writeQueue) < QueueCap)
    <3>1. upCalls + 1 \in dropped'
      BY <2>2 DEF Write
    <3> QED
      BY <1>1, <3>1 DEF Reason
  <2> QED
    BY <2>1, <2>2
<1>4. server # "closed" /\ UpWhole /\ DownWhole
  BY <1>1, <1>2, <1>3 DEF Whole, Reason
<1>5. DownWhole'
  BY <1>2, <1>3, <1>4, DownStays
<1> DEFINE L == Len(writeQueue)  p == Packet("message", writeId, writeId + 1)
           q == Append(writeQueue, p)
<1>6. writeQueue \in Seq(Seq(Byte)) /\ L \in Nat /\ writeId \in Nat /\ writeId = upCalls
  BY Parts
<1>7. /\ p \in Seq(Byte) /\ p # <<>> /\ p[1] = Message(writeId)
      /\ Run(p, Message(writeId), Message(writeId + 1))
  <2>1. "message" \in Packets /\ writeId + 1 \in Nat
    BY <1>6 DEF Packets
  <2>2. /\ Run(p, Start("message", writeId, writeId + 1), Behind("message", writeId))
        /\ p # <<>> /\ p[1] = Start("message", writeId, writeId + 1)
    BY <1>6, <2>1, PacketRuns
  <2>3. p \in Seq(Byte)
    BY <1>6, <2>1, PacketFacts
  <2> QED
    BY <2>2, <2>3 DEF Message, Behind
<1>8. writeQueue' = q
  BY <1>3, <1>6
<1> HIDE DEF p
<1>9. /\ q # <<>> /\ Len(q) = L + 1 /\ q[L + 1] = p
      /\ \A j \in 1..L : q[j] = writeQueue[j]
  BY <1>6, <1>7, AppendProperties
<1> HIDE DEF q
<1>10. PICK d, e : ServerDue(d) /\ ConsoleSends(e) /\ Run(up, d, e)
  BY <1>4 DEF UpWhole
<1>11. ServerDue(d)'
  BY <1>2, <1>10 DEF ServerDue
<1>12. Queued(writeQueue, writeId, e)
  BY <1>2, <1>10 DEF ConsoleSends
<1>13. Queued(q, writeId + 1, e)
  <2>1. e = q[1][1]
    <3>1. CASE writeQueue = <<>>
      <4>1. L + 1 = 1
        BY <1>6, <3>1, EmptySeq
      <4>2. e = Message(writeId)
        BY <1>12, <3>1 DEF Queued
      <4> QED
        BY <1>7, <1>9, <4>1, <4>2
    <3>2. CASE writeQueue # <<>>
      <4>1. 1 \in 1..L
        BY <1>6, <3>2, EmptySeq
      <4>2. e = writeQueue[1][1]
        BY <1>12, <3>2 DEF Queued
      <4> QED
        BY <1>9, <4>1, <4>2
    <3> QED
      BY <3>1, <3>2
  <2>2. \A j \in 1..(L + 1) :
          /\ q[j] # <<>> /\ Run(q[j], q[j][1], Message((writeId + 1) + j - (L + 1)))
          /\ j > 1 => q[j][1] = Message((writeId + 1) + j - (L + 1) - 1)
    <3>1. TAKE j \in 1..(L + 1)
    <3>2. (writeId + 1) + j - (L + 1) = writeId + j - L
      BY <1>6
    <3>3. CASE j \in 1..L
      <4>1. /\ writeQueue[j] # <<>> /\ Run(writeQueue[j], writeQueue[j][1], Message(writeId + j - L))
            /\ j > 1 => writeQueue[j][1] = Message(writeId + j - L - 1)
        BY <1>12, <3>3 DEF Queued
      <4>2. q[j] = writeQueue[j]
        BY <1>9, <3>3
      <4>3. /\ Message((writeId + 1) + j - (L + 1)) = Message(writeId + j - L)
            /\ Message((writeId + 1) + j - (L + 1) - 1) = Message(writeId + j - L - 1)
        <5>1. (writeId + 1) + j - (L + 1) - 1 = writeId + j - L - 1
          BY <1>6
        <5> QED
          BY <3>2, <5>1
      <4> QED
        BY <4>1, <4>2, <4>3
    <3>4. CASE j = L + 1
      <4>1. (writeId + 1) + j - (L + 1) = writeId + 1 /\ (writeId + 1) + j - (L + 1) - 1 = writeId
        BY <1>6, <3>4
      <4>2. q[j] = p
        BY <1>9, <3>4
      <4> QED
        BY <1>7, <4>1, <4>2
    <3> QED
      BY <1>6, <3>3, <3>4
  <2> QED
    BY <1>9, <2>1, <2>2 DEF Queued
<1>14. ConsoleSends(e)'
  BY <1>2, <1>3, <1>8, <1>13 DEF ConsoleSends
<1>15. UpWhole'
  BY <1>2, <1>10, <1>11, <1>14 DEF UpWhole
<1> QED
  BY <1>2, <1>3, <1>4, <1>5, <1>15

\* A new connection is whole.
LEMMA InitWhole == Init => Whole
<1>1. SUFFICES ASSUME Init PROVE Whole
  OBVIOUS
<1>2. ServerDue(Start("xx1", 0, 0)) /\ ConsoleSends(Start("xx1", 0, 0))
  BY <1>1, RunEmpty, EmptySeq, SizesAssumption DEF Init, ServerDue, ConsoleSends
<1>3. ConsoleDue(Start("xx2", 0, 0)) /\ ServerSends(Start("xx2", 0, 0))
  BY <1>1 DEF Init, ConsoleDue, ServerSends
<1>4. UpWhole /\ DownWhole
  BY <1>1, <1>2, <1>3, RunEmpty DEF Init, UpWhole, DownWhole
<1> QED
  BY <1>1, <1>4 DEF Init, Whole

\* Every step keeps the two directions whole until there is a reason.
LEMMA NextWhole == ASSUME Inv, Whole, [Next]_vars PROVE Whole'
<1>1. CASE UNCHANGED vars
  <2>1. UNCHANGED <<console, pending, received, writeQueue, writeId, readQueue, readId, up, down,
                    server, sending, buffer, offset, serverReadId, serverWriteId, lost, split,
                    dropped>>
    BY <1>1 DEF vars, consoleVars, writerVars, readerVars, serverReaderVars, serverWriterVars
  <2> QED
    BY <2>1, UpStays, DownStays DEF Whole, Reason
<1>2. CASE Next
  BY <1>2, ConnectWhole, SendHandshakeWhole, ReceiveHandshakeWhole, SendFrontWhole,
     ReceiveSizeWhole, ReceiveBodyWhole, ReadWhole, WriteWhole, ConsoleFailsWhole,
     ServerHandshakeWhole, ServerSendWhole, ServerReadSizeWhole, ServerReadBodyWhole,
     ServerWriteWhole, ServerFailsWhole, LoseWhole DEF Next, Frame, ServerTask
<1> QED
  BY <1>1, <1>2

\* No end gives up on a connection that lost nothing (poll, read and write of
\* AsyncSocket.cc; read and write of async_stream.rs): whatever TCP does with the
\* bytes, only a cut network, a full m_writeQueue, or a body the server received in
\* two pieces makes it do so.
THEOREM ClosesOnlyForAReason == Spec => []ClosesForAReason
<1>1. Whole => ClosesForAReason
  BY DEF Whole, Reason, ClosesForAReason
<1>2. Inv /\ Whole /\ [Next]_vars => Whole'
  BY NextWhole
<1>3. Spec => []Inv
  BY AlwaysInv
<1> QED
  BY <1>1, <1>2, <1>3, InitWhole, PTL DEF Spec
===============================================================================
