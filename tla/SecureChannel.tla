----------------------------- MODULE SecureChannel -----------------------------
(***************************************************************************)
(* One connection between a console (AsyncSocket.cc, polled once a frame   *)
(* by RoomClient or RaceClient) and the game server (async_stream.rs, read *)
(* in a select! that may cancel a read half way).                          *)
(*                                                                         *)
(* A TCP direction is the sequence of bytes that are under way.  A byte    *)
(* says which packet it is of, its place there, the message id the packet  *)
(* was encrypted with, and the write call it comes from; decryption works  *)
(* exactly on the whole body of one packet with the expected id.  Every    *)
(* message has the same size; how it is cut on its way is left open.       *)
(***************************************************************************)
EXTENDS Naturals, Sequences

CONSTANTS
  Handshake,   \* bytes of each key exchange packet
  Body,        \* bytes of an encrypted message, after the two of its size
  QueueCap,    \* entries of m_readQueue and of m_writeQueue
  Wire,        \* bytes TCP buffers in one direction
  MaxCalls     \* bound: messages the two ends write together

ASSUME SizesAssumption ==
  /\ Handshake \in Nat \ {0}
  /\ Body \in Nat \ {0}
  /\ QueueCap \in Nat \ {0}
  /\ Wire \in Nat \ {0}
  /\ MaxCalls \in Nat

Header == 2
Size == Header + Body

Packets == {"xx1", "xx2", "xx3", "message"}
SizeOf(of) == IF of = "message" THEN Size ELSE Handshake

Byte == [of : Packets, at : Nat, id : Nat, call : Nat]

Packet(of, id, call) ==
  [i \in 1..SizeOf(of) |-> [of |-> of, at |-> i, id |-> id, call |-> call]]

VARIABLES
  console,     \* m_connectTask and m_initTask, then "ready"; "closed" for good
  pc,          \* where poll stands between its calls to SOSend and SORecv
  pending,     \* bytes of the key exchange packet the console has yet to send
  received,    \* bytes of the one it receives
  writeQueue,  \* of each queued message the bytes not sent yet
  writeId,     \* m_writeMessageID
  readQueue,   \* of each message in reception the bytes received so far
  readId,      \* m_readMessageID
  lost,        \* the network has cut the connection
  up, down,    \* the two directions
  server,      \* key exchange, then "ready"; "closed" for good
  sending,     \* bytes write_all has yet to send
  buffer,      \* read_buffer
  offset,      \* read_offset
  serverReadId, serverWriteId,
  upGot,       \* the write calls whose messages the server has decoded
  downGot,     \* the write calls whose messages the console has decoded
  upCalls,     \* calls of AsyncSocket::write
  downCalls,   \* calls of AsyncStream::write
  dropped,     \* calls of AsyncSocket::write that found the queue full
  split        \* a body reached the server in more than one piece

consoleVars == <<console, pc, pending, received>>
writerVars == <<writeQueue, writeId, upCalls, dropped>>
readerVars == <<readQueue, readId, downGot>>
serverReaderVars == <<buffer, offset, serverReadId, upGot, split>>
serverWriterVars == <<serverWriteId, downCalls>>
vars == <<consoleVars, writerVars, readerVars, lost, up, down, server, sending,
          serverReaderVars, serverWriterVars>>

Least(m, n) == IF m < n THEN m ELSE n
Take(n, s) == SubSeq(s, 1, n)
Skip(n, s) == SubSeq(s, n + 1, Len(s))

\* What one call may move: at least a byte if there are any, all at most.
Some(most) == 1..most
Space(wire) == Wire - Len(wire)

\* hydro_secretbox_decrypt on a packet received with its size.
Authentic(s, id) ==
  /\ Len(s) = Size
  /\ \A i \in 1..Size :
       s[i].of = "message" /\ s[i].at = i /\ s[i].id = id /\ s[i].call = s[Size].call

Init ==
  /\ console = "connect" /\ pc = "idle"
  /\ pending = <<>> /\ received = <<>>
  /\ writeQueue = <<>> /\ writeId = 0 /\ upCalls = 0 /\ dropped = {}
  /\ readQueue = <<>> /\ readId = 0 /\ downGot = <<>>
  /\ lost = FALSE /\ up = <<>> /\ down = <<>>
  /\ server = "xx1" /\ sending = <<>>
  /\ buffer = <<>> /\ offset = 0 /\ serverReadId = 0 /\ upGot = <<>> /\ split = FALSE
  /\ serverWriteId = 0 /\ downCalls = 0
-------------------------------------------------------------------------------
(* The console.  Every action is the part of poll around one socket call.  *)

\* SOConnect succeeds; the constructor has prepared xx1.
Connect ==
  /\ console = "connect"
  /\ console' = "xx1"
  /\ pending' = Packet("xx1", 0, 0)
  /\ UNCHANGED <<pc, received, writerVars, readerVars, lost, up, down, server, sending,
                 serverReaderVars, serverWriterVars>>

SendHandshake ==
  /\ console \in {"xx1", "xx3"}
  /\ \E n \in Some(Least(Len(pending), Space(up))) :
       /\ up' = up \o Take(n, pending)
       /\ pending' = Skip(n, pending)
       /\ console' = IF n < Len(pending) THEN console
                     ELSE IF console = "xx1" THEN "xx2" ELSE "ready"
  /\ UNCHANGED <<pc, received, writerVars, readerVars, lost, down, server, sending,
                 serverReaderVars, serverWriterVars>>

ReceiveHandshake ==
  /\ console = "xx2"
  /\ \E n \in Some(Least(Handshake - Len(received), Len(down))) :
       /\ received' = received \o Take(n, down)
       /\ down' = Skip(n, down)
  /\ IF Len(received') < Handshake
       THEN UNCHANGED <<console, pending>>
       ELSE IF received' = Packet("xx2", 0, 0)
       THEN console' = "xx3" /\ pending' = Packet("xx3", 0, 0)
       ELSE console' = "closed" /\ UNCHANGED pending
  /\ UNCHANGED <<pc, writerVars, readerVars, lost, up, server, sending,
                 serverReaderVars, serverWriterVars>>

Polling(where) == console = "ready" /\ pc = where

\* Mutant of SendFront: the task is popped whether or not it was sent whole.
SendFrontPops ==
  /\ Polling("idle")
  /\ pc' = "head"
  /\ IF writeQueue = <<>> \/ Space(up) = 0
       THEN UNCHANGED <<writeQueue, up>>
       ELSE \E n \in Some(Least(Len(Head(writeQueue)), Space(up))) :
              /\ up' = up \o Take(n, Head(writeQueue))
              /\ writeQueue' = Tail(writeQueue)
  /\ UNCHANGED <<console, pending, received, writeId, upCalls, dropped, readerVars, lost,
                 down, server, sending, serverReaderVars, serverWriterVars>>

\* poll sends of the front message what TCP takes, and only of that one.
SendFront ==
  /\ Polling("idle")
  /\ pc' = "head"
  /\ IF writeQueue = <<>> \/ Space(up) = 0
       THEN UNCHANGED <<writeQueue, up>>
       ELSE LET task == Head(writeQueue) IN
            \E n \in Some(Least(Len(task), Space(up))) :
              /\ up' = up \o Take(n, task)
              /\ writeQueue' = IF n = Len(task) THEN Tail(writeQueue)
                               ELSE <<Skip(n, task)>> \o Tail(writeQueue)
  /\ UNCHANGED <<console, pending, received, writeId, upCalls, dropped, readerVars, lost,
                 down, server, sending, serverReaderVars, serverWriterVars>>

\* The message in reception is the last of m_readQueue; a new one is added when
\* that is whole and the queue has room.
Reception ==
  IF /\ readQueue = <<>> \/ Len(readQueue[Len(readQueue)]) = Size
     /\ Len(readQueue) < QueueCap
    THEN Append(readQueue, <<>>)
    ELSE readQueue

\* SORecv of at most most bytes onto the end of the last message of queue.
Receive(queue, most) ==
  IF down = <<>> THEN readQueue' = queue /\ UNCHANGED down ELSE
    \E n \in Some(Least(most, Len(down))) :
      /\ readQueue' = [queue EXCEPT ![Len(queue)] = @ \o Take(n, down)]
      /\ down' = Skip(n, down)

ReceiveSize ==
  /\ Polling("head")
  /\ pc' = "body"
  /\ LET queue == Reception  got == Len(queue[Len(queue)]) IN
       IF got < Header THEN Receive(queue, Header - got)
       ELSE readQueue' = queue /\ UNCHANGED down
  /\ UNCHANGED <<console, pending, received, writerVars, readId, downGot, lost, up, server,
                 sending, serverReaderVars, serverWriterVars>>

\* The body is received while `offset < size - 2`, where offset counts the two
\* bytes of the size and size does not: see Stalled.
ReceiveBody ==
  /\ Polling("body")
  /\ pc' = "read"
  /\ LET got == Len(readQueue[Len(readQueue)]) IN
       IF got >= Header /\ got + Header < Body THEN Receive(readQueue, Size - got)
       ELSE UNCHANGED <<readQueue, down>>
  /\ UNCHANGED <<console, pending, received, writerVars, readId, downGot, lost, up, server,
                 sending, serverReaderVars, serverWriterVars>>

\* AsyncSocket::read, once after each poll.
Read ==
  /\ Polling("read")
  /\ pc' = "idle"
  /\ IF readQueue = <<>> \/ Len(Head(readQueue)) < Size
       THEN UNCHANGED <<console, readerVars>>
       ELSE LET message == Head(readQueue) IN
            /\ readId' = readId + 1
            /\ IF Authentic(message, readId)
                 THEN /\ downGot' = Append(downGot, message[Size].call)
                      /\ readQueue' = Tail(readQueue)
                      /\ UNCHANGED console
                 ELSE console' = "closed" /\ UNCHANGED <<readQueue, downGot>>
  /\ UNCHANGED <<pending, received, writerVars, lost, up, down, server, sending,
                 serverReaderVars, serverWriterVars>>

\* Mutant of Write: a message that is not queued takes no id.
WriteSkipsId ==
  /\ Polling("idle")
  /\ upCalls + downCalls < MaxCalls
  /\ upCalls' = upCalls + 1
  /\ IF Len(writeQueue) < QueueCap
       THEN /\ writeQueue' = Append(writeQueue, Packet("message", writeId, upCalls'))
            /\ writeId' = writeId + 1
            /\ UNCHANGED <<console, dropped>>
       ELSE /\ dropped' = dropped \cup {upCalls'}
            /\ console' \in {console, "closed"}
            /\ UNCHANGED <<writeQueue, writeId>>
  /\ UNCHANGED <<pc, pending, received, readerVars, lost, up, down, server, sending,
                 serverReaderVars, serverWriterVars>>

\* AsyncSocket::write.  The message takes its id before push_back is tried.
\* RoomClient::write ends the connection if that fails; RaceClient goes on.
Write ==
  /\ Polling("idle")
  /\ upCalls + downCalls < MaxCalls
  /\ upCalls' = upCalls + 1
  /\ writeId' = writeId + 1
  /\ IF Len(writeQueue) < QueueCap
       THEN /\ writeQueue' = Append(writeQueue, Packet("message", writeId, upCalls'))
            /\ UNCHANGED <<console, dropped>>
       ELSE /\ dropped' = dropped \cup {upCalls'}
            /\ console' \in {console, "closed"}
            /\ UNCHANGED writeQueue
  /\ UNCHANGED <<pc, pending, received, readerVars, lost, up, down, server, sending,
                 serverReaderVars, serverWriterVars>>

\* A socket call fails: poll returns false and RoomClient gives up.
ConsoleFails ==
  /\ console # "closed"
  /\ lost \/ server = "closed"
  /\ console' = "closed"
  /\ UNCHANGED <<pc, pending, received, writerVars, readerVars, lost, up, down, server,
                 sending, serverReaderVars, serverWriterVars>>
-------------------------------------------------------------------------------
(* The server.  Every action is one await of the client's task.            *)

\* read_exact of xx1 and of xx3; each await may bring a part.
ServerHandshake ==
  /\ server \in {"xx1", "xx3"} /\ sending = <<>>
  /\ \E n \in Some(Least(Handshake - Len(buffer), Len(up))) :
       /\ up' = Skip(n, up)
       /\ LET packet == buffer \o Take(n, up) IN
          IF Len(packet) < Handshake
            THEN buffer' = packet /\ UNCHANGED <<server, sending>>
            ELSE /\ buffer' = <<>>
                 /\ IF packet # Packet(server, 0, 0)
                      THEN server' = "closed" /\ UNCHANGED sending
                      ELSE IF server = "xx1"
                      THEN server' = "xx3" /\ sending' = Packet("xx2", 0, 0)
                      ELSE server' = "ready" /\ UNCHANGED sending
  /\ UNCHANGED <<consoleVars, writerVars, readerVars, lost, down, offset, serverReadId,
                 upGot, split, serverWriterVars>>

\* write_all, of xx2 or of a message, as far as TCP takes it.
ServerSend ==
  /\ server \in {"xx3", "ready"} /\ sending # <<>>
  /\ \E n \in Some(Least(Len(sending), Space(down))) :
       /\ down' = down \o Take(n, sending)
       /\ sending' = Skip(n, sending)
  /\ UNCHANGED <<consoleVars, writerVars, readerVars, lost, up, server, serverReaderVars,
                 serverWriterVars>>

\* select! takes the write branch; its body runs to the end before the next read.
ServerWrite ==
  /\ server = "ready" /\ sending = <<>>
  /\ upCalls + downCalls < MaxCalls
  /\ downCalls' = downCalls + 1
  /\ sending' = Packet("message", serverWriteId, downCalls')
  /\ serverWriteId' = serverWriteId + 1
  /\ UNCHANGED <<consoleVars, writerVars, readerVars, lost, up, down, server,
                 serverReaderVars>>

ServerReads == server = "ready" /\ sending = <<>>

\* The first two bytes of a message; `read_offset` survives a cancelled read.
ServerReadSize ==
  /\ ServerReads /\ offset < Header
  /\ \E n \in Some(Least(Header - offset, Len(up))) :
       /\ buffer' = Take(offset, buffer) \o Take(n, up)
       /\ up' = Skip(n, up)
       /\ offset' = offset + n
  /\ UNCHANGED <<consoleVars, writerVars, readerVars, lost, down, server, sending,
                 serverReadId, upGot, split, serverWriterVars>>

\* What decryption sees: `read_buffer[2..size]` after a piece was put at its start.
Filled(piece) ==
  Take(Header, buffer) \o piece \o Skip(Header + Len(piece), buffer)

\* Mutant of ServerReadBody: the message id does not move on.
ServerReadBodySameId ==
  /\ ServerReads /\ offset >= Header
  /\ \E n \in Some(Least(Body, Len(up))) :
       LET packet == Filled(Take(n, up)) IN
       /\ up' = Skip(n, up)
       /\ IF offset + n < Size
            THEN /\ buffer' = packet /\ offset' = offset + n /\ split' = TRUE
                 /\ UNCHANGED <<server, serverReadId, upGot>>
            ELSE /\ buffer' = <<>> /\ offset' = 0 /\ UNCHANGED split
                 /\ IF Authentic(packet, serverReadId)
                      THEN /\ upGot' = Append(upGot, packet[Size].call)
                           /\ UNCHANGED <<server, serverReadId>>
                      ELSE server' = "closed" /\ UNCHANGED <<serverReadId, upGot>>
  /\ UNCHANGED <<consoleVars, writerVars, readerVars, lost, down, sending, serverWriterVars>>

\* The rest.  The slice is `2..size`, not `read_offset..size`: a second piece
\* overwrites the first, and may take bytes of the next message.  What an earlier
\* message left in the buffer is not kept here: it never decrypts.
ServerReadBody ==
  /\ ServerReads /\ offset >= Header
  /\ \E n \in Some(Least(Body, Len(up))) :
       LET packet == Filled(Take(n, up)) IN
       /\ up' = Skip(n, up)
       /\ IF offset + n < Size
            THEN /\ buffer' = packet /\ offset' = offset + n /\ split' = TRUE
                 /\ UNCHANGED <<server, serverReadId, upGot>>
            ELSE /\ buffer' = <<>> /\ offset' = 0 /\ UNCHANGED split
                 /\ IF Authentic(packet, serverReadId)
                      THEN /\ upGot' = Append(upGot, packet[Size].call)
                           /\ serverReadId' = serverReadId + 1
                           /\ UNCHANGED server
                      ELSE server' = "closed" /\ UNCHANGED <<serverReadId, upGot>>
  /\ UNCHANGED <<consoleVars, writerVars, readerVars, lost, down, sending, serverWriterVars>>

\* End of file or an error: the task of the client ends.
ServerFails ==
  /\ server # "closed"
  /\ lost \/ console = "closed"
  /\ server' = "closed"
  /\ UNCHANGED <<consoleVars, writerVars, readerVars, lost, up, down, sending,
                 serverReaderVars, serverWriterVars>>

Lose ==
  /\ ~lost
  /\ lost' = TRUE
  /\ UNCHANGED <<consoleVars, writerVars, readerVars, up, down, server, sending,
                 serverReaderVars, serverWriterVars>>
-------------------------------------------------------------------------------
Frame ==
  \/ Connect \/ SendHandshake \/ ReceiveHandshake
  \/ SendFront \/ ReceiveSize \/ ReceiveBody \/ Read
ServerTask == ServerHandshake \/ ServerSend \/ ServerReadSize \/ ServerReadBody

Next ==
  \/ Frame \/ Write \/ ConsoleFails
  \/ ServerTask \/ ServerWrite \/ ServerFails
  \/ Lose

\* The console polls and reads every frame, the executor runs the task, and a
\* connection that is gone is noticed.  Nobody has to write, nothing has to fail.
Spec ==
  /\ Init /\ [][Next]_vars
  /\ WF_vars(Frame) /\ WF_vars(ServerTask) /\ WF_vars(ConsoleFails \/ ServerFails)
-------------------------------------------------------------------------------
TypeOK ==
  /\ console \in {"connect", "xx1", "xx2", "xx3", "ready", "closed"}
  /\ pc \in {"idle", "head", "body", "read"}
  /\ server \in {"xx1", "xx3", "ready", "closed"}
  /\ lost \in BOOLEAN /\ split \in BOOLEAN
  /\ writeId \in Nat /\ readId \in Nat /\ serverReadId \in Nat /\ serverWriteId \in Nat
  /\ offset \in Nat
  /\ upCalls \in Nat /\ downCalls \in Nat
  /\ dropped \subseteq 1..upCalls
  /\ {pending, received, up, down, sending, buffer} \subseteq Seq(Byte)
  /\ writeQueue \in Seq(Seq(Byte)) /\ Len(writeQueue) <= QueueCap
  /\ readQueue \in Seq(Seq(Byte)) /\ Len(readQueue) <= QueueCap
  /\ Len(up) <= Wire /\ Len(down) <= Wire
  /\ upGot \in Seq(Nat) /\ downGot \in Seq(Nat)

\* What one end decodes is what the other end wrote, in that order and with
\* nothing left out, however TCP cuts the stream and whatever the full queue or
\* the overwritten buffer lost: rather than skip a message the channel ends.
\* This is what Room assumes of it.
InOrder ==
  /\ \A i \in 1..Len(upGot) : upGot[i] = i
  /\ \A i \in 1..Len(downGot) : downGot[i] = i
  /\ Len(upGot) <= upCalls /\ Len(downGot) <= downCalls

\* No end gives up on a connection that lost nothing: only a cut network, a full
\* m_writeQueue, or a body the server received in two pieces makes it do so.
ClosesForAReason ==
  console = "closed" \/ server = "closed" => lost \/ split \/ dropped # {}

\* poll has stopped receiving inside a message: up to four bytes of its body were
\* missing when the first part arrived, and the loop condition counts without
\* the size.  Nothing the server sends is read any more.
Stalled ==
  /\ console = "ready" /\ readQueue # <<>>
  /\ LET got == Len(readQueue[Len(readQueue)]) IN got + Header >= Body /\ got < Size

Over == console = "closed" /\ server = "closed"

\* What is written arrives, in both directions, unless the connection ends, the
\* console has stalled, or the next message was refused by the full queue.
AllArrives ==
  []<>( \/ Over \/ Stalled
       \/ /\ Len(downGot) = downCalls
          /\ Len(upGot) = upCalls \/ Len(upGot) + 1 \in dropped )
===============================================================================
