--------------------------- MODULE MatchmakingProofs ---------------------------
(***************************************************************************)
(* Proofs about module Matchmaking, for every number of players, of        *)
(* gameservers and of rooms: its state is well typed, each task that       *)
(* awaits a gameserver whose listener has not ended has exactly one answer *)
(* coming, and the list of rooms of the matchmaking server follows the     *)
(* rooms.                                                                  *)
(***************************************************************************)
EXTENDS Matchmaking, FiniteSetTheorems, SequenceTheorems, TLAPS

ConsoleTypes ==
  /\ console \in [Clients -> {"away", "WaitForSearchStart", "WaitForSearchResponse",
                              "FoundMatch", "room"}]
  /\ searches \in [Clients -> 0..MaxSearches]
  /\ search \in [Clients -> {"none", "race", "battle"}]
  /\ token \in [Clients -> (Servers \cup {NoServer}) \X (RoomIds \cup {NoRoom})]

CentralTypes ==
  /\ task \in [Clients -> {"none", "reads", "awaits"}]
  /\ asked \in [Clients -> Servers \cup {NoServer}]
  /\ listener \in [Servers -> {"listens", "locks", "removes", "gone"}]
  /\ listed \in [Servers -> SUBSET RoomIds]
  /\ seen \in [Servers -> [RoomIds -> SUBSET Clients]]
  /\ channel \in [Servers -> Seq(Request)]

SocketTypes ==
  /\ toServer \in [Servers -> Seq(Request)]
  /\ toCentral \in [Servers -> Seq(Message)]

ServerTypes ==
  /\ waiting \in [Servers -> Clients \cup {NoClient}]
  /\ rooms \in [Servers -> SUBSET RoomIds] /\ made \in [Servers -> SUBSET RoomIds]
  /\ queued \in [Servers -> [RoomIds -> SUBSET Clients]]
  /\ members \in [Servers -> [RoomIds -> SUBSET Clients]]
  /\ updates \in [Servers -> Seq(Update)]
  /\ left \in [Servers -> SUBSET RoomIds]

\* A listener that waits for the lock has an update before it.
LockedHasUpdate ==
  \A s \in Servers : listener[s] = "locks" =>
    toCentral[s] # <<>> /\ Head(toCentral[s]).kind # "token"

TypeInv == TypeOK /\ LockedHasUpdate

\* The invariant TypeOK in parts.
LEMMA TypeParts ==
  /\ TypeOK <=> ConsoleTypes /\ CentralTypes /\ SocketTypes /\ ServerTypes
  /\ TypeOK' <=> ConsoleTypes' /\ CentralTypes' /\ SocketTypes' /\ ServerTypes'
BY DEF TypeOK, ConsoleTypes, CentralTypes, SocketTypes, ServerTypes

\* Every choice of request_room is a gameserver that is there, with a room or none.
LEMMA ChoicesTyped ==
  ASSUME NEW mode, NEW choice \in Choices(mode)
  PROVE  choice[1] \in online /\ choice[1] \in Servers /\ choice[2] \in RoomIds \cup {NoRoom}
BY DEF Choices, Fullest, Joinable, Busiest, online

\* The answer to a client, with the room it may join.
TokenTo(c, r) == [kind |-> "token", client |-> c, room |-> r]

\* The answers of central_listener are messages, one to each client.
LEMMA AnswersTyped ==
  ASSUME NEW s, NEW clients \in Seq(Clients), NEW r \in RoomIds
  PROVE  /\ Answers(s, clients, r) \in Seq(Message)
         /\ Len(Answers(s, clients, r)) = Len(clients)
         /\ \A i \in 1..Len(clients) : Answers(s, clients, r)[i] = TokenTo(clients[i], r)
<1>1. Len(clients) \in Nat /\ \A i \in 1..Len(clients) : clients[i] \in Clients
  OBVIOUS
<1> DEFINE A == Answers(s, clients, r)
<1>2. A = [i \in 1..Len(clients) |-> TokenTo(clients[i], r)]
  BY DEF Answers, TokenTo
<1>3. \A i \in 1..Len(clients) : TokenTo(clients[i], r) \in Message
  BY <1>1 DEF Message, TokenTo
<1>4. A \in Seq(Message)
  BY <1>1, <1>2, <1>3
<1> QED BY <1>1, <1>2, <1>4, LenProperties

\* The first of a queue that is not empty is one of its messages, and the rest
\* is a queue again.
LEMMA Queue ==
  ASSUME NEW S, NEW q \in Seq(S), q # <<>>
  PROVE  Head(q) \in S /\ Tail(q) \in Seq(S)
BY HeadTailProperties

\* The initial state is well typed.
LEMMA TypeInit == Init => TypeOK
<1> SUFFICES ASSUME Init PROVE TypeOK
  OBVIOUS
<1>1. \A S : <<>> \in Seq(S)
  OBVIOUS
<1>2. ConsoleTypes
  BY MatchmakingAssumption DEF Init, ConsoleTypes
<1>3. CentralTypes
  BY <1>1 DEF Init, CentralTypes
<1>4. SocketTypes
  BY <1>1 DEF Init, SocketTypes
<1>5. ServerTypes
  BY <1>1 DEF Init, ServerTypes
<1> QED BY <1>2, <1>3, <1>4, <1>5, TypeParts

\* The variables that a step leaves alone keep their types.
LEMMA TypeFrames ==
  ASSUME TypeOK
  PROVE  /\ UNCHANGED consoleVars => ConsoleTypes'
         /\ UNCHANGED centralVars => CentralTypes'
         /\ UNCHANGED <<toServer, toCentral>> => SocketTypes'
         /\ UNCHANGED serverVars => ServerTypes'
<1>1. ConsoleTypes /\ CentralTypes /\ SocketTypes /\ ServerTypes
  BY TypeParts
<1>2. UNCHANGED consoleVars => ConsoleTypes'
  BY <1>1 DEF ConsoleTypes, consoleVars
<1>3. UNCHANGED centralVars => CentralTypes'
  BY <1>1 DEF CentralTypes, centralVars
<1>4. UNCHANGED <<toServer, toCentral>> => SocketTypes'
  BY <1>1 DEF SocketTypes
<1>5. UNCHANGED serverVars => ServerTypes'
  BY <1>1 DEF ServerTypes, serverVars
<1> QED BY <1>2, <1>3, <1>4, <1>5

\* The steps of a console keep the types.
LEMMA ConsoleStepTyped ==
  ASSUME TypeOK, NEW c \in Clients,
         LogIn(c) \/ SendSearchMessage(c) \/ Leave(c) \/ JoinRoom(c) \/ TaskEnds(c)
  PROVE  TypeOK'
<1>1. ConsoleTypes /\ CentralTypes /\ SocketTypes /\ ServerTypes
  BY TypeParts
<1>2. CASE LogIn(c)
  <2>1. SocketTypes' /\ ServerTypes'
    BY <1>2, TypeFrames DEF LogIn
  <2>2. ConsoleTypes'
    BY <1>1, <1>2 DEF LogIn, ConsoleTypes
  <2>3. CentralTypes'
    BY <1>1, <1>2 DEF LogIn, CentralTypes
  <2> QED BY <2>1, <2>2, <2>3, TypeParts
<1>3. CASE SendSearchMessage(c)
  <2>1. SocketTypes' /\ ServerTypes' /\ CentralTypes'
    BY <1>3, TypeFrames DEF SendSearchMessage
  <2>2. searches[c] + 1 \in 0..MaxSearches
    BY <1>1, <1>3, MatchmakingAssumption DEF SendSearchMessage, ConsoleTypes
  <2>3. ConsoleTypes'
    BY <1>1, <1>3, <2>2 DEF SendSearchMessage, ConsoleTypes
  <2> QED BY <2>1, <2>3, TypeParts
<1>4. CASE Leave(c)
  <2>1. SocketTypes' /\ ServerTypes' /\ CentralTypes'
    BY <1>4, TypeFrames DEF Leave
  <2>2. ConsoleTypes'
    BY <1>1, <1>4 DEF Leave, ConsoleTypes
  <2> QED BY <2>1, <2>2, TypeParts
<1>5. CASE JoinRoom(c)
  <2>1. CentralTypes' /\ SocketTypes'
    BY <1>5, TypeFrames DEF JoinRoom
  <2>2. ConsoleTypes'
    BY <1>1, <1>5 DEF JoinRoom, ConsoleTypes
  <2>3. queued \in [Servers -> [RoomIds -> SUBSET Clients]]
    BY <1>1 DEF ServerTypes
  <2>4. queued' \in [Servers -> [RoomIds -> SUBSET Clients]]
    <3>1. CASE queued' = queued
      BY <2>3, <3>1
    <3>2. CASE queued' = [queued EXCEPT ![token[c][1]][token[c][2]] = @ \cup {c}]
      BY <2>3, <3>2
    <3> QED BY <1>5, <3>1, <3>2 DEF JoinRoom
  <2>5. ServerTypes'
    BY <1>1, <1>5, <2>4 DEF JoinRoom, ServerTypes
  <2> QED BY <2>1, <2>2, <2>5, TypeParts
<1>6. CASE TaskEnds(c)
  <2>1. ConsoleTypes' /\ SocketTypes' /\ ServerTypes'
    BY <1>6, TypeFrames DEF TaskEnds
  <2>2. CentralTypes'
    BY <1>1, <1>6 DEF TaskEnds, CentralTypes
  <2> QED BY <2>1, <2>2, TypeParts
<1> QED BY <1>2, <1>3, <1>4, <1>5, <1>6

\* Asking a gameserver for a room keeps the types.
LEMMA RequestRoomTyped ==
  ASSUME TypeOK, NEW c \in Clients, RequestRoom(c)
  PROVE  TypeOK'
<1>1. ConsoleTypes /\ CentralTypes
  BY TypeParts
<1>2. ServerTypes'
  BY TypeFrames DEF RequestRoom
<1>3. ConsoleTypes'
  BY <1>1 DEF RequestRoom, ConsoleTypes
<1>4. SocketTypes'
  BY TypeFrames DEF RequestRoom
<1>5. CASE channel' = channel /\ asked' = asked
  <2>1. CentralTypes'
    BY <1>1, <1>5 DEF RequestRoom, CentralTypes
  <2> QED BY <1>2, <1>3, <1>4, <2>1, TypeParts
<1>6. CASE \E choice \in Choices(search[c]) :
             /\ asked' = [asked EXCEPT ![c] = choice[1]]
             /\ channel' = [channel EXCEPT ![choice[1]] =
                              Append(@, [client |-> c, room |-> choice[2]])]
  <2>1. PICK choice \in Choices(search[c]) :
             /\ asked' = [asked EXCEPT ![c] = choice[1]]
             /\ channel' = [channel EXCEPT ![choice[1]] =
                              Append(@, [client |-> c, room |-> choice[2]])]
    BY <1>6
  <2>2. choice[1] \in Servers /\ choice[2] \in RoomIds \cup {NoRoom}
    BY ChoicesTyped
  <2>3. [client |-> c, room |-> choice[2]] \in Request
    BY <2>2 DEF Request
  <2>4. Append(channel[choice[1]], [client |-> c, room |-> choice[2]]) \in Seq(Request)
    BY <1>1, <2>2, <2>3, AppendProperties DEF CentralTypes
  <2>5. channel' \in [Servers -> Seq(Request)]
    BY <1>1, <2>1, <2>2, <2>4 DEF CentralTypes
  <2>6. asked' \in [Clients -> Servers \cup {NoServer}]
    BY <1>1, <2>1, <2>2 DEF CentralTypes
  <2>7. CentralTypes'
    BY <1>1, <2>5, <2>6 DEF RequestRoom, CentralTypes
  <2> QED BY <1>2, <1>3, <1>4, <2>7, TypeParts
<1> QED BY <1>5, <1>6 DEF RequestRoom

\* What the matchmaking server takes from a gameserver keeps the types.
LEMMA ReceiveTyped ==
  ASSUME TypeInv, NEW s \in Servers, ReceiveTokenResponse(s) \/ ReceiveClientUpdate(s)
  PROVE  TypeOK'
<1>0. TypeOK /\ LockedHasUpdate
  BY DEF TypeInv
<1>1. ConsoleTypes /\ CentralTypes /\ SocketTypes
  BY <1>0, TypeParts
<1>2. ServerTypes'
  BY <1>0, TypeFrames DEF ReceiveTokenResponse, ReceiveClientUpdate
<1>3. CASE ReceiveTokenResponse(s)
  <2>1. Head(toCentral[s]) \in Message /\ Tail(toCentral[s]) \in Seq(Message)
    BY <1>1, <1>3, Queue DEF ReceiveTokenResponse, SocketTypes
  <2>2. Head(toCentral[s]).client \in Clients /\ Head(toCentral[s]).room \in RoomIds
    BY <2>1 DEF Message
  <2>3. PICK c \in Clients, r \in RoomIds : Answered(s, c, r)
    BY <1>3, <2>2 DEF ReceiveTokenResponse
  <2>4. ConsoleTypes'
    <3>1. UNCHANGED <<searches, search>>
      BY <2>3 DEF Answered, consoleVars
    <3>2. \/ UNCHANGED <<console, token>>
          \/ /\ console' = [console EXCEPT ![c] = "FoundMatch"]
             /\ token' = [token EXCEPT ![c] = <<s, r>>]
      BY <2>3 DEF Answered, consoleVars
    <3>3. CASE UNCHANGED <<console, token>>
      BY <1>1, <3>1, <3>3 DEF ConsoleTypes
    <3>4. CASE /\ console' = [console EXCEPT ![c] = "FoundMatch"]
               /\ token' = [token EXCEPT ![c] = <<s, r>>]
      <4>1. <<s, r>> \in (Servers \cup {NoServer}) \X (RoomIds \cup {NoRoom})
        OBVIOUS
      <4>2. token' \in [Clients -> (Servers \cup {NoServer}) \X (RoomIds \cup {NoRoom})]
        BY <1>1, <3>4, <4>1 DEF ConsoleTypes
      <4>3. console' \in [Clients -> {"away", "WaitForSearchStart",
                          "WaitForSearchResponse", "FoundMatch", "room"}]
        BY <1>1, <3>4 DEF ConsoleTypes
      <4> QED BY <1>1, <3>1, <4>2, <4>3 DEF ConsoleTypes
    <3> QED BY <3>2, <3>3, <3>4
  <2>5. /\ task' \in [Clients -> {"none", "reads", "awaits"}]
        /\ asked' \in [Clients -> Servers \cup {NoServer}]
    BY <1>1, <2>3 DEF Answered, CentralTypes
  <2>6. CentralTypes'
    BY <1>1, <1>3, <2>5 DEF ReceiveTokenResponse, CentralTypes
  <2>7. SocketTypes'
    BY <1>1, <1>3, <2>1 DEF ReceiveTokenResponse, SocketTypes
  <2> QED BY <1>2, <2>4, <2>6, <2>7, TypeParts
<1>4. CASE ReceiveClientUpdate(s)
  <2>1. Head(toCentral[s]) \in Message /\ Tail(toCentral[s]) \in Seq(Message)
    <3>1. toCentral[s] # <<>>
      BY <1>0, <1>4 DEF ReceiveClientUpdate, LockedHasUpdate
    <3> QED BY <1>1, <3>1, Queue DEF SocketTypes
  <2>2. PICK u \in Message : u = Head(toCentral[s])
    BY <2>1
  <2>3. u.client \in Clients /\ u.room \in RoomIds
    BY DEF Message
  <2>4. \/ /\ listed' = [listed EXCEPT ![s] = @ \cup {u.room}]
           /\ seen' = [seen EXCEPT ![s][u.room] = @ \cup {u.client}]
        \/ /\ listed' = [listed EXCEPT ![s] = @ \ {u.room}]
           /\ seen' = [seen EXCEPT ![s][u.room] = {}]
    BY <1>4, <2>2 DEF ReceiveClientUpdate
  <2>5. listed' \in [Servers -> SUBSET RoomIds]
    <3>1. listed \in [Servers -> SUBSET RoomIds]
      BY <1>1 DEF CentralTypes
    <3>2. PICK X \in SUBSET RoomIds : listed' = [listed EXCEPT ![s] = X]
      <4>1. /\ listed[s] \cup {u.room} \in SUBSET RoomIds
            /\ listed[s] \ {u.room} \in SUBSET RoomIds
        BY <2>3, <3>1
      <4> QED BY <2>4, <4>1
    <3> QED BY <3>1, <3>2
  <2>6. seen' \in [Servers -> [RoomIds -> SUBSET Clients]]
    <3>1. seen \in [Servers -> [RoomIds -> SUBSET Clients]]
      BY <1>1 DEF CentralTypes
    <3>2. seen[s][u.room] \cup {u.client} \in SUBSET Clients
      BY <2>3, <3>1
    <3>3. PICK X \in SUBSET Clients : seen' = [seen EXCEPT ![s][u.room] = X]
      BY <2>4, <3>2
    <3> QED BY <3>1, <3>3
  <2>7. CentralTypes'
    BY <1>1, <1>4, <2>5, <2>6 DEF ReceiveClientUpdate, CentralTypes
  <2>8. SocketTypes'
    BY <1>1, <1>4, <2>1 DEF ReceiveClientUpdate, SocketTypes
  <2>9. ConsoleTypes'
    BY <1>0, <1>4, TypeFrames DEF ReceiveClientUpdate
  <2> QED BY <1>2, <2>7, <2>8, <2>9, TypeParts
<1> QED BY <1>3, <1>4

\* What else the listener of a gameserver does keeps them too.
LEMMA ListenerTyped ==
  ASSUME TypeOK, NEW s \in Servers,
         Forward(s) \/ TakeUpdate(s) \/ EndListener(s) \/ RemoveServer(s)
  PROVE  TypeOK'
<1>1. CentralTypes /\ SocketTypes
  BY TypeParts
<1>2. ConsoleTypes' /\ ServerTypes'
  BY TypeFrames DEF Forward, TakeUpdate, EndListener, RemoveServer
<1>3. CASE Forward(s)
  <2>1. Head(channel[s]) \in Request /\ Tail(channel[s]) \in Seq(Request)
    BY <1>1, <1>3, Queue DEF Forward, CentralTypes
  <2>2. Append(toServer[s], Head(channel[s])) \in Seq(Request)
    BY <1>1, <2>1, AppendProperties DEF SocketTypes
  <2>3. CentralTypes'
    BY <1>1, <1>3, <2>1 DEF Forward, CentralTypes
  <2>4. SocketTypes'
    BY <1>1, <1>3, <2>2 DEF Forward, SocketTypes
  <2> QED BY <1>2, <2>3, <2>4, TypeParts
<1>4. CASE TakeUpdate(s)
  <2>1. SocketTypes'
    BY <1>4, TypeFrames DEF TakeUpdate
  <2>2. CentralTypes'
    BY <1>1, <1>4 DEF TakeUpdate, CentralTypes
  <2> QED BY <1>2, <2>1, <2>2, TypeParts
<1>5. CASE EndListener(s)
  <2>1. <<>> \in Seq(Request) /\ <<>> \in Seq(Message)
    OBVIOUS
  <2>2. CentralTypes'
    BY <1>1, <1>5, <2>1 DEF EndListener, CentralTypes
  <2>3. SocketTypes'
    BY <1>1, <1>5, <2>1 DEF EndListener, SocketTypes
  <2> QED BY <1>2, <2>2, <2>3, TypeParts
<1>6. CASE RemoveServer(s)
  <2>1. SocketTypes'
    BY <1>6, TypeFrames DEF RemoveServer
  <2>2. CentralTypes'
    BY <1>1, <1>6 DEF RemoveServer, CentralTypes
  <2> QED BY <1>2, <2>1, <2>2, TypeParts
<1> QED BY <1>3, <1>4, <1>5, <1>6

\* One or two answers after the messages of a gameserver.
LEMMA WithAnswers ==
  ASSUME NEW s, NEW q \in Seq(Message), NEW clients \in Seq(Clients), NEW r \in RoomIds
  PROVE  q \o Answers(s, clients, r) \in Seq(Message)
BY AnswersTyped, ConcatProperties

\* Answering a request for a room keeps the types.
LEMMA HandleTyped ==
  ASSUME TypeOK, NEW s \in Servers, HandleTokenRequest(s)
  PROVE  TypeOK'
<1>1. ConsoleTypes /\ CentralTypes /\ SocketTypes /\ ServerTypes
  BY TypeParts
<1>2. ConsoleTypes' /\ CentralTypes'
  BY TypeFrames DEF HandleTokenRequest
<1>3. Head(toServer[s]) \in Request /\ Tail(toServer[s]) \in Seq(Request)
  BY <1>1, Queue DEF HandleTokenRequest, SocketTypes
<1>4. PICK request \in Request : request = Head(toServer[s])
  BY <1>3
<1>5. request.client \in Clients /\ request.room \in RoomIds \cup {NoRoom}
  BY DEF Request
<1>6. toServer' \in [Servers -> Seq(Request)]
  BY <1>1, <1>3 DEF HandleTokenRequest, SocketTypes
<1>7. toCentral \in [Servers -> Seq(Message)] /\ waiting \in [Servers -> Clients \cup {NoClient}]
  BY <1>1 DEF SocketTypes, ServerTypes
<1>8. CASE /\ request.room # NoRoom
           /\ toCentral' = [toCentral EXCEPT ![s] =
                              @ \o Answers(s, <<request.client>>, request.room)]
           /\ UNCHANGED <<waiting, rooms, made>>
  <2>1. <<request.client>> \in Seq(Clients)
    BY <1>5
  <2>2. toCentral[s] \o Answers(s, <<request.client>>, request.room) \in Seq(Message)
    BY <1>5, <1>7, <1>8, <2>1, WithAnswers
  <2>3. SocketTypes'
    BY <1>6, <1>7, <1>8, <2>2 DEF SocketTypes
  <2>4. ServerTypes'
    BY <1>8, TypeFrames DEF HandleTokenRequest, serverVars
  <2> QED BY <1>2, <2>3, <2>4, TypeParts
<1>9. CASE /\ waiting' = [waiting EXCEPT ![s] = request.client]
           /\ UNCHANGED <<toCentral, rooms, made>>
  <2>1. SocketTypes'
    BY <1>6, <1>7, <1>9 DEF SocketTypes
  <2>2. waiting' \in [Servers -> Clients \cup {NoClient}]
    BY <1>5, <1>7, <1>9
  <2>3. ServerTypes'
    BY <1>1, <1>9, <2>2 DEF HandleTokenRequest, ServerTypes
  <2> QED BY <1>2, <2>1, <2>3, TypeParts
<1>10. CASE /\ waiting[s] # NoClient
            /\ \E r \in RoomIds \ made[s] : PairUp(s, request.client, r)
  <2>1. PICK r \in RoomIds : PairUp(s, request.client, r)
    BY <1>10
  <2>2. waiting[s] \in Clients
    BY <1>7, <1>10
  <2>3. <<request.client, waiting[s]>> \in Seq(Clients)
    BY <1>5, <2>2
  <2>4. toCentral[s] \o Answers(s, <<request.client, waiting[s]>>, r) \in Seq(Message)
    BY <1>7, <2>3, WithAnswers
  <2>5. SocketTypes'
    BY <1>6, <1>7, <2>1, <2>4 DEF SocketTypes, PairUp
  <2>6. waiting' \in [Servers -> Clients \cup {NoClient}]
    BY <1>7, <2>1 DEF PairUp
  <2>7. rooms' \in [Servers -> SUBSET RoomIds] /\ made' \in [Servers -> SUBSET RoomIds]
    BY <1>1, <2>1 DEF PairUp, ServerTypes
  <2>8. ServerTypes'
    BY <1>1, <2>6, <2>7 DEF HandleTokenRequest, ServerTypes
  <2> QED BY <1>2, <2>5, <2>8, TypeParts
<1> QED BY <1>4, <1>8, <1>9, <1>10 DEF HandleTokenRequest

\* The steps of a room, and handing its updates on, keep the types.
LEMMA RoomStepTyped ==
  ASSUME TypeOK, NEW s \in Servers, NEW r \in RoomIds, NEW c \in Clients,
         ForwardUpdate(s) \/ RoomJoin(s, r, c) \/ RoomLeave(s, r, c)
  PROVE  TypeOK'
<1>1. SocketTypes /\ ServerTypes
  BY TypeParts
<1>2. ConsoleTypes' /\ CentralTypes'
  BY TypeFrames DEF ForwardUpdate, RoomJoin, RoomLeave
<1>3. CASE ForwardUpdate(s)
  <2>1. Head(updates[s]) \in Update /\ Tail(updates[s]) \in Seq(Update)
    BY <1>1, <1>3, Queue DEF ForwardUpdate, ServerTypes
  <2>2. Head(updates[s]) \in Message
    BY <2>1 DEF Update, Message
  <2>3. Append(toCentral[s], Head(updates[s])) \in Seq(Message)
    BY <1>1, <2>2, AppendProperties DEF SocketTypes
  <2>4. SocketTypes'
    BY <1>1, <1>3, <2>3 DEF ForwardUpdate, SocketTypes
  <2>5. rooms' \in [Servers -> SUBSET RoomIds]
    BY <1>1, <1>3 DEF ForwardUpdate, ServerTypes
  <2>6. updates' \in [Servers -> Seq(Update)]
    BY <1>1, <1>3, <2>1 DEF ForwardUpdate, ServerTypes
  <2>7. ServerTypes'
    BY <1>1, <1>3, <2>5, <2>6 DEF ForwardUpdate, ServerTypes
  <2> QED BY <1>2, <2>4, <2>7, TypeParts
<1>4. CASE RoomJoin(s, r, c) \/ RoomLeave(s, r, c)
  <2>1. SocketTypes'
    BY <1>4, TypeFrames DEF RoomJoin, RoomLeave
  <2>2. PICK u \in Update : updates' = [updates EXCEPT ![s] = Append(@, u)]
    <3>1. /\ [kind |-> "join", client |-> c, room |-> r] \in Update
          /\ [kind |-> "leave", client |-> c, room |-> r] \in Update
      BY DEF Update
    <3> QED BY <1>4, <3>1 DEF RoomJoin, RoomLeave
  <2>3. Append(updates[s], u) \in Seq(Update)
    BY <1>1, AppendProperties DEF ServerTypes
  <2>4. updates' \in [Servers -> Seq(Update)]
    BY <1>1, <2>2, <2>3 DEF ServerTypes
  <2>5. /\ members \in [Servers -> [RoomIds -> SUBSET Clients]]
        /\ queued \in [Servers -> [RoomIds -> SUBSET Clients]]
    BY <1>1 DEF ServerTypes
  <2>6. members' \in [Servers -> [RoomIds -> SUBSET Clients]]
    <3>1. /\ members[s][r] \cup {c} \in SUBSET Clients
          /\ members[s][r] \ {c} \in SUBSET Clients
      BY <2>5
    <3>2. PICK X \in SUBSET Clients : members' = [members EXCEPT ![s][r] = X]
      BY <1>4, <3>1 DEF RoomJoin, RoomLeave
    <3> QED BY <2>5, <3>2
  <2>7. queued' \in [Servers -> [RoomIds -> SUBSET Clients]]
    <3>1. queued[s][r] \ {c} \in SUBSET Clients /\ queued[s][r] \in SUBSET Clients
      BY <2>5
    <3>2. CASE queued' = queued
      BY <2>5, <3>2
    <3>3. CASE RoomJoin(s, r, c)
      <4>1. PICK X \in SUBSET Clients : queued' = [queued EXCEPT ![s][r] = X]
        BY <3>1, <3>3 DEF RoomJoin
      <4> QED BY <2>5, <4>1
    <3> QED BY <1>4, <3>2, <3>3 DEF RoomLeave
  <2>8. left' \in [Servers -> SUBSET RoomIds]
    <3>1. left \in [Servers -> SUBSET RoomIds]
      BY <1>1 DEF ServerTypes
    <3>2. left' = left \/ left' = [left EXCEPT ![s] = @ \cup {r}]
      BY <1>4 DEF RoomJoin, RoomLeave
    <3> QED BY <3>1, <3>2
  <2>9. waiting' = waiting /\ rooms' = rooms /\ made' = made
    BY <1>4 DEF RoomJoin, RoomLeave
  <2>10. ServerTypes'
    BY <1>1, <2>4, <2>6, <2>7, <2>8, <2>9 DEF ServerTypes
  <2> QED BY <1>2, <2>1, <2>10, TypeParts
<1> QED BY <1>3, <1>4

\* Every step keeps the types.
LEMMA TypeStep == TypeInv /\ [Next]_vars => TypeOK'
<1> SUFFICES ASSUME TypeInv, [Next]_vars PROVE TypeOK'
  OBVIOUS
<1>0. TypeOK
  BY DEF TypeInv
<1>1. CASE UNCHANGED vars
  BY <1>0, <1>1, TypeFrames, TypeParts DEF vars
<1>2. CASE \E c \in Clients : \/ LogIn(c) \/ SendSearchMessage(c) \/ Leave(c) \/ JoinRoom(c)
                              \/ RequestRoom(c) \/ TaskEnds(c)
  BY <1>0, <1>2, ConsoleStepTyped, RequestRoomTyped
<1>3. CASE \E s \in Servers : \/ Forward(s) \/ ReceiveTokenResponse(s) \/ TakeUpdate(s)
                              \/ ReceiveClientUpdate(s) \/ EndListener(s) \/ RemoveServer(s)
                              \/ HandleTokenRequest(s)
  BY <1>0, <1>3, ReceiveTyped, ListenerTyped, HandleTyped
<1>4. ASSUME NEW s \in Servers, ForwardUpdate(s) PROVE TypeOK'
  <2>1. updates[s] \in Seq(Update) /\ updates[s] # <<>>
    BY <1>0, <1>4, TypeParts DEF ForwardUpdate, ServerTypes
  <2>2. PICK r \in RoomIds, c \in Clients : TRUE
    <3>1. Head(updates[s]) \in Update
      BY <2>1, Queue
    <3> QED BY <3>1 DEF Update
  <2> QED BY <1>0, <1>4, <2>2, RoomStepTyped
<1>5. CASE \E s \in Servers, r \in RoomIds, c \in Clients : RoomJoin(s, r, c) \/ RoomLeave(s, r, c)
  BY <1>0, <1>5, RoomStepTyped
<1> QED BY <1>1, <1>2, <1>3, <1>4, <1>5 DEF Next

\* What comes behind the first message of a queue leaves it where it is.
LEMMA HeadStays ==
  ASSUME NEW S, NEW q \in Seq(S), NEW a \in Seq(S), q # <<>>
  PROVE  q \o a # <<>> /\ Head(q \o a) = Head(q)
<1>1. Len(q) \in Nat /\ Len(q) # 0 /\ Len(a) \in Nat
  BY EmptySeq
<1>2. /\ q \o a \in Seq(S) /\ Len(q \o a) = Len(q) + Len(a)
      /\ \A i \in 1..(Len(q) + Len(a)) :
           (q \o a)[i] = IF i <= Len(q) THEN q[i] ELSE a[i - Len(q)]
  BY ConcatProperties
<1>3. (q \o a)[1] = q[1]
  BY <1>1, <1>2
<1>4. q \o a # <<>>
  BY <1>1, <1>2, EmptySeq
<1>5. Head(q \o a) = (q \o a)[1] /\ Head(q) = q[1]
  BY <1>2, <1>4, HeadTailProperties
<1> QED BY <1>3, <1>4, <1>5

\* The update a listener waits with is taken by nobody else.
LEMMA LockedStep == TypeInv /\ [Next]_vars => LockedHasUpdate'
<1> SUFFICES ASSUME TypeInv, [Next]_vars, NEW s \in Servers, listener'[s] = "locks"
             PROVE  toCentral'[s] # <<>> /\ Head(toCentral'[s]).kind # "token"
  BY DEF LockedHasUpdate
<1>1. TypeOK /\ LockedHasUpdate
  BY DEF TypeInv
<1>2. /\ toCentral \in [Servers -> Seq(Message)] /\ toCentral[s] \in Seq(Message)
      /\ listener \in [Servers -> {"listens", "locks", "removes", "gone"}]
  BY <1>1 DEF TypeOK
<1>3. ASSUME listener[s] = "locks", toCentral'[s] = toCentral[s]
      PROVE  toCentral'[s] # <<>> /\ Head(toCentral'[s]).kind # "token"
  BY <1>1, <1>3 DEF LockedHasUpdate
<1>4. ASSUME listener[s] = "locks", NEW a \in Seq(Message), toCentral'[s] = toCentral[s] \o a
      PROVE  toCentral'[s] # <<>> /\ Head(toCentral'[s]).kind # "token"
  <2>1. toCentral[s] # <<>> /\ Head(toCentral[s]).kind # "token"
    BY <1>1, <1>4 DEF LockedHasUpdate
  <2> QED BY <1>2, <1>4, <2>1, HeadStays
<1>5. CASE \/ \E c \in Clients : \/ LogIn(c) \/ SendSearchMessage(c) \/ Leave(c) \/ JoinRoom(c)
                                 \/ RequestRoom(c) \/ TaskEnds(c)
           \/ \E t \in Servers, r \in RoomIds, c \in Clients : RoomJoin(t, r, c) \/ RoomLeave(t, r, c)
           \/ \E t \in Servers : Forward(t)
           \/ UNCHANGED vars
  <2>1. listener' = listener /\ toCentral' = toCentral
    BY <1>5 DEF LogIn, SendSearchMessage, Leave, JoinRoom, RequestRoom, TaskEnds, RoomJoin, RoomLeave,
                Forward, vars, centralVars
  <2> QED BY <1>3, <2>1
<1>6. ASSUME NEW t \in Servers, ReceiveTokenResponse(t)
      PROVE  toCentral'[s] # <<>> /\ Head(toCentral'[s]).kind # "token"
  <2>1. listener' = listener /\ s # t
    BY <1>6 DEF ReceiveTokenResponse
  <2>2. toCentral'[s] = toCentral[s]
    BY <1>2, <1>6, <2>1 DEF ReceiveTokenResponse
  <2> QED BY <1>3, <2>1, <2>2
<1>7. ASSUME NEW t \in Servers,
             TakeUpdate(t) \/ ReceiveClientUpdate(t) \/ EndListener(t) \/ RemoveServer(t)
      PROVE  toCentral'[s] # <<>> /\ Head(toCentral'[s]).kind # "token"
  <2>1. CASE s = t
    <3>1. TakeUpdate(s)
      BY <1>2, <1>7, <2>1 DEF ReceiveClientUpdate, EndListener, RemoveServer
    <3> QED BY <3>1 DEF TakeUpdate
  <2>2. CASE s # t
    <3>1. listener'[s] = listener[s] /\ toCentral'[s] = toCentral[s]
      BY <1>2, <1>7, <2>2 DEF TakeUpdate, ReceiveClientUpdate, EndListener, RemoveServer
    <3> QED BY <1>3, <3>1
  <2> QED BY <2>1, <2>2
<1>8. ASSUME NEW t \in Servers, HandleTokenRequest(t)
      PROVE  toCentral'[s] # <<>> /\ Head(toCentral'[s]).kind # "token"
  <2>1. listener' = listener
    BY <1>8 DEF HandleTokenRequest, centralVars
  <2>2. CASE toCentral'[s] = toCentral[s]
    BY <1>3, <2>1, <2>2
  <2>3. CASE toCentral'[s] # toCentral[s]
    <3>1. /\ toServer[t] \in Seq(Request) /\ toServer[t] # <<>>
          /\ waiting[t] \in Clients \cup {NoClient}
      BY <1>1, <1>8 DEF HandleTokenRequest, TypeOK
    <3>2. PICK request \in Request : request = Head(toServer[t])
      BY <3>1, Queue
    <3>3. PICK clients \in Seq(Clients), r \in RoomIds :
            toCentral' = [toCentral EXCEPT ![t] = @ \o Answers(t, clients, r)]
      <4>1. CASE /\ request.room # NoRoom
                 /\ toCentral' = [toCentral EXCEPT ![t] =
                                    @ \o Answers(t, <<request.client>>, request.room)]
        <5>1. <<request.client>> \in Seq(Clients) /\ request.room \in RoomIds
          BY <4>1 DEF Request
        <5> QED BY <4>1, <5>1
      <4>2. CASE waiting[t] # NoClient /\ \E r \in RoomIds : PairUp(t, request.client, r)
        <5>1. <<request.client, waiting[t]>> \in Seq(Clients)
          BY <3>1, <4>2 DEF Request
        <5> QED BY <4>2, <5>1 DEF PairUp
      <4> QED BY <1>8, <2>3, <3>2, <4>1, <4>2 DEF HandleTokenRequest
    <3>4. Answers(t, clients, r) \in Seq(Message)
      BY <3>3, AnswersTyped
    <3>5. s = t /\ toCentral'[s] = toCentral[s] \o Answers(t, clients, r)
      BY <1>2, <2>3, <3>3
    <3> QED BY <1>4, <2>1, <3>4, <3>5
  <2> QED BY <2>2, <2>3
<1>9. ASSUME NEW t \in Servers, ForwardUpdate(t)
      PROVE  toCentral'[s] # <<>> /\ Head(toCentral'[s]).kind # "token"
  <2>1. listener' = listener
    BY <1>9 DEF ForwardUpdate, centralVars
  <2>2. CASE s = t
    <3>1. updates[s] \in Seq(Update) /\ updates[s] # <<>>
      BY <1>1, <1>9, <2>2 DEF ForwardUpdate, TypeOK
    <3>2. PICK u \in Update : u = Head(updates[s])
      BY <3>1, Queue
    <3>3. PICK m \in Message : m = u
      BY DEF Update, Message
    <3>4. toCentral'[s] = Append(toCentral[s], m)
      BY <1>2, <1>9, <2>2, <3>2, <3>3 DEF ForwardUpdate
    <3>5. Append(toCentral[s], m) = toCentral[s] \o <<m>> /\ <<m>> \in Seq(Message)
      BY <1>2, AppendIsConcat
    <3> QED BY <1>4, <2>1, <3>4, <3>5
  <2>3. CASE s # t
    <3>1. toCentral'[s] = toCentral[s]
      BY <1>2, <1>9, <2>3 DEF ForwardUpdate
    <3> QED BY <1>3, <2>1, <3>1
  <2> QED BY <2>2, <2>3
<1> QED BY <1>5, <1>6, <1>7, <1>8, <1>9 DEF Next

\* No listener waits for a lock at the start.
LEMMA TypeInvInit == Init => TypeInv
<1>1. Init => LockedHasUpdate
  BY DEF Init, LockedHasUpdate
<1> QED BY <1>1, TypeInit DEF TypeInv

LEMMA TypeInvStep == TypeInv /\ [Next]_vars => TypeInv'
BY TypeStep, LockedStep DEF TypeInv

\* Type correctness of searching consoles, of both servers and of their messages.
THEOREM MatchmakingTypeCorrect == Spec => []TypeOK
<1>1. TypeInv => TypeOK
  BY DEF TypeInv
<1> QED BY <1>1, TypeInvInit, TypeInvStep, PTL DEF Spec
--------------------------------------------------------------------------------
\* Counting the messages of a queue that belong to a set.

Picks(q, T) == {i \in 1..Len(q) : q[i] \in T}
Count(q, T) == Cardinality(Picks(q, T))

\* Counts are natural numbers.
LEMMA CountIsNatural ==
  ASSUME NEW S, NEW q \in Seq(S), NEW T
  PROVE  IsFiniteSet(Picks(q, T)) /\ Count(q, T) \in Nat
<1>1. IsFiniteSet(1..Len(q)) /\ Picks(q, T) \in SUBSET (1..Len(q))
  BY FS_Interval DEF Picks
<1>2. IsFiniteSet(Picks(q, T))
  BY <1>1, FS_Subset
<1> QED BY <1>2, FS_CardinalityType DEF Count

\* One more message counts or does not.
LEMMA CountAppend ==
  ASSUME NEW S, NEW q \in Seq(S), NEW e \in S, NEW T
  PROVE  Count(Append(q, e), T) = IF e \in T THEN Count(q, T) + 1 ELSE Count(q, T)
<1>1. Len(q) \in Nat
  OBVIOUS
<1>2. Append(q, e) \in Seq(S) /\ Len(Append(q, e)) = Len(q) + 1
      /\ Append(q, e)[Len(q) + 1] = e
      /\ \A i \in 1..Len(q) : Append(q, e)[i] = q[i]
  BY AppendProperties
<1>3. IsFiniteSet(Picks(q, T)) /\ Count(q, T) \in Nat
  BY CountIsNatural
<1>5. Len(q) + 1 \notin Picks(q, T)
  BY <1>1 DEF Picks
<1>6. CASE e \in T
  <2>1. Picks(Append(q, e), T) = Picks(q, T) \cup {Len(q) + 1}
    BY <1>1, <1>2, <1>6 DEF Picks
  <2> QED BY <1>3, <1>5, <1>6, <2>1, FS_AddElement DEF Count
<1>7. CASE e \notin T
  <2>1. Picks(Append(q, e), T) = Picks(q, T)
    BY <1>1, <1>2, <1>7 DEF Picks
  <2> QED BY <1>7, <2>1 DEF Count
<1> QED BY <1>6, <1>7

\* Taking the first message away.
LEMMA CountTail ==
  ASSUME NEW S, NEW q \in Seq(S), q # <<>>, NEW T
  PROVE  Count(q, T) = IF Head(q) \in T THEN Count(Tail(q), T) + 1 ELSE Count(Tail(q), T)
<1>1. Len(q) \in Nat /\ Len(q) # 0
  BY EmptySeq
<1>2. /\ Tail(q) \in Seq(S) /\ Len(Tail(q)) = Len(q) - 1 /\ Head(q) = q[1]
      /\ \A i \in 1..Len(Tail(q)) : Tail(q)[i] = q[i + 1]
  BY <1>1, HeadTailProperties
<1> DEFINE P == Picks(Tail(q), T)
           Q == Picks(q, T) \ {1}
           f == [i \in P |-> i + 1]
<1>3. IsFiniteSet(P)
  <2>1. IsFiniteSet(1..Len(Tail(q))) /\ P \in SUBSET (1..Len(Tail(q)))
    BY <1>1, <1>2, FS_Interval DEF Picks
  <2> QED BY <2>1, FS_Subset
<1>4. f \in Bijection(P, Q)
  <2>1. \A i \in P : i \in Nat /\ i + 1 \in Q
    BY <1>1, <1>2 DEF Picks
  <2>2. f \in [P -> Q]
    BY <2>1
  <2>3. IsInjective(f)
    BY <2>1 DEF IsInjective
  <2>4. ASSUME NEW j \in Q PROVE \E i \in P : f[i] = j
    <3>1. j \in 2..Len(q) /\ q[j] \in T
      BY <1>1 DEF Picks
    <3>2. j - 1 \in 1..Len(Tail(q)) /\ (j - 1) + 1 = j
      BY <1>1, <1>2, <3>1
    <3>3. j - 1 \in P
      BY <1>2, <3>1, <3>2 DEF Picks
    <3> QED BY <3>2, <3>3
  <2> QED BY <2>2, <2>3, <2>4 DEF Bijection, Injection, Surjection
<1>5. IsFiniteSet(Q) /\ Cardinality(Q) = Cardinality(P)
  <2>1. ExistsBijection(P, Q)
    BY <1>4 DEF ExistsBijection
  <2> HIDE DEF P, Q
  <2> QED BY <1>3, <2>1, FS_Bijection
<1>6. Cardinality(P) \in Nat
  BY <1>3, FS_CardinalityType
<1>7. CASE Head(q) \in T
  <2>1. Picks(q, T) = Q \cup {1} /\ 1 \notin Q
    BY <1>1, <1>2, <1>7 DEF Picks
  <2> HIDE DEF Q
  <2> QED BY <1>5, <1>6, <1>7, <2>1, FS_AddElement DEF Count
<1>8. CASE Head(q) \notin T
  <2>1. Picks(q, T) = Q
    BY <1>1, <1>2, <1>8 DEF Picks
  <2> HIDE DEF Q
  <2> QED BY <1>5, <1>6, <1>8, <2>1 DEF Count
<1> QED BY <1>7, <1>8

\* The answer to one client is its message at the end.
LEMMA AnswerOfOne ==
  ASSUME NEW s, NEW q \in Seq(Message), NEW one \in Seq(Clients), Len(one) = 1, NEW r \in RoomIds
  PROVE  q \o Answers(s, one, r) = Append(q, TokenTo(one[1], r))
<1>0. 1 \in 1..Len(one)
  OBVIOUS
<1>1. one[1] \in Clients
  BY <1>0, ElementOfSeq
<1>2. TokenTo(one[1], r) \in Message
  BY <1>1 DEF TokenTo, Message
<1>3. PICK a : a = Answers(s, one, r)
  OBVIOUS
<1>7. /\ a \in Seq(Message) /\ Len(a) = Len(one)
      /\ \A i \in 1..Len(one) : a[i] = TokenTo(one[i], r)
  BY <1>3, AnswersTyped
<1>4. PICK m \in Message : m = TokenTo(one[1], r)
  BY <1>2
<1>5. a = <<m>>
  <2>1. Len(a) = 1 /\ a[1] = m
    BY <1>0, <1>4, <1>7
  <2> QED BY <1>7, <2>1
<1>6. q \o <<m>> = Append(q, m)
  BY AppendIsConcat
<1> QED BY <1>3, <1>4, <1>5, <1>6

\* The answers to two clients are both messages, one after the other.
LEMMA AnswersOfTwo ==
  ASSUME NEW s, NEW q \in Seq(Message), NEW two \in Seq(Clients), Len(two) = 2, NEW r \in RoomIds
  PROVE  \E p \in Seq(Message) : /\ p = Append(q, TokenTo(two[1], r))
                                 /\ q \o Answers(s, two, r) = Append(p, TokenTo(two[2], r))
<1>0. 1 \in 1..Len(two) /\ 2 \in 1..Len(two)
  OBVIOUS
<1>1. two[1] \in Clients /\ two[2] \in Clients
  BY <1>0, ElementOfSeq
<1>2. TokenTo(two[1], r) \in Message /\ TokenTo(two[2], r) \in Message
  BY <1>1 DEF TokenTo, Message
<1>3. PICK a \in Seq(Message) : /\ a = Answers(s, two, r) /\ Len(a) = 2
                                /\ a[1] = TokenTo(two[1], r) /\ a[2] = TokenTo(two[2], r)
  <2>1. PICK a : a = Answers(s, two, r)
    OBVIOUS
  <2>2. /\ a \in Seq(Message) /\ Len(a) = Len(two)
        /\ \A i \in 1..Len(two) : a[i] = TokenTo(two[i], r)
    BY <2>1, AnswersTyped
  <2> QED BY <1>0, <2>1, <2>2
<1>4. PICK m \in Message, n \in Message : m = TokenTo(two[1], r) /\ n = TokenTo(two[2], r)
  BY <1>2
<1>5. PICK p \in Seq(Message) : p = Append(q, m)
  BY AppendProperties
<1>6. Len(p) = Len(q) + 1 /\ p[Len(q) + 1] = m /\ \A i \in 1..Len(q) : p[i] = q[i]
  BY <1>5, AppendProperties
<1>7. /\ Append(p, n) \in Seq(Message) /\ Len(Append(p, n)) = Len(p) + 1
      /\ Append(p, n)[Len(p) + 1] = n /\ \A i \in 1..Len(p) : Append(p, n)[i] = p[i]
  BY AppendProperties
<1>8. /\ q \o a \in Seq(Message) /\ Len(q \o a) = Len(q) + Len(a)
      /\ \A i \in 1..(Len(q) + Len(a)) :
           (q \o a)[i] = IF i <= Len(q) THEN q[i] ELSE a[i - Len(q)]
  BY ConcatProperties
<1>9. Len(q) \in Nat
  OBVIOUS
<1>10. Len(q \o a) = Len(Append(p, n))
  BY <1>3, <1>6, <1>7, <1>8, <1>9
<1>11. ASSUME NEW i \in 1..Len(q \o a) PROVE (q \o a)[i] = Append(p, n)[i]
  <2>1. CASE i \in 1..Len(q)
    BY <1>6, <1>7, <1>8, <1>9, <2>1
  <2>2. CASE i = Len(q) + 1
    <3>1. i - Len(q) = 1 /\ ~(i <= Len(q)) /\ i \in 1..(Len(q) + Len(a)) /\ i \in 1..Len(p)
      BY <1>3, <1>6, <1>9, <2>2
    <3>2. (q \o a)[i] = a[1]
      BY <1>8, <3>1
    <3> QED BY <1>3, <1>4, <1>6, <1>7, <2>2, <3>1, <3>2
  <2>3. CASE i = Len(q) + 2
    <3>1. i - Len(q) = 2 /\ ~(i <= Len(q)) /\ i \in 1..(Len(q) + Len(a)) /\ i = Len(p) + 1
      BY <1>3, <1>6, <1>9, <2>3
    <3>2. (q \o a)[i] = a[2]
      BY <1>8, <3>1
    <3> QED BY <1>3, <1>4, <1>7, <3>1, <3>2
  <2>4. i \in Nat /\ 1 <= i /\ i <= Len(q) + 2
    BY <1>3, <1>8, <1>9
  <2>5. \A k, j \in Nat : 1 <= j /\ j <= k + 2 => j \in 1..k \/ j = k + 1 \/ j = k + 2
    OBVIOUS
  <2> QED BY <1>9, <2>1, <2>2, <2>3, <2>4, <2>5
<1>12. q \o a = Append(p, n)
  BY <1>7, <1>8, <1>10, <1>11, SeqEqual
<1> QED BY <1>3, <1>4, <1>5, <1>12
--------------------------------------------------------------------------------
\* One answer comes.

RequestsOf(c) == {m \in Request : m.client = c}
TokensOf(c) == {m \in Message : m.kind = "token" /\ m.client = c}

Here(s, c) == IF waiting[s] = c THEN 1 ELSE 0
Owed(s, c) == IF asked[c] = s THEN 1 ELSE 0

\* What is coming from a gameserver for a client.
Due(s, c) == Count(channel[s], RequestsOf(c)) + Count(toServer[s], RequestsOf(c))
               + Count(toCentral[s], TokensOf(c)) + Here(s, c)

\* A client whose task awaits nothing has asked no gameserver.
IdleAsksNobody == \A c \in Clients : task[c] # "awaits" => asked[c] = NoServer

AnswerInv == TypeInv /\ IdleAsksNobody /\ OneAnswerComes

\* What OneAnswerComes counts in a queue of requests.
LEMMA RequestsCounted ==
  ASSUME NEW q \in Seq(Request), NEW c
  PROVE  Cardinality(Requests(q, c)) = Count(q, RequestsOf(c))
<1>1. \A i \in 1..Len(q) : q[i] \in Request
  OBVIOUS
<1>2. Requests(q, c) = Picks(q, RequestsOf(c))
  BY <1>1 DEF Requests, Picks, RequestsOf
<1> QED BY <1>2 DEF Count

\* OneAnswerComes in terms of these counts.
LEMMA AnswersCounted ==
  ASSUME TypeOK
  PROVE  OneAnswerComes <=>
           \A s \in Servers, c \in Clients : Runs(s) => Due(s, c) = Owed(s, c)
<1>1. ASSUME NEW s \in Servers, NEW c \in Clients
      PROVE  Cardinality(Requests(channel[s], c)) + Cardinality(Requests(toServer[s], c))
                 + Cardinality(Tokens(s, c)) + (IF waiting[s] = c THEN 1 ELSE 0) = Due(s, c)
  <2>1. /\ channel[s] \in Seq(Request) /\ toServer[s] \in Seq(Request)
        /\ toCentral[s] \in Seq(Message)
    BY DEF TypeOK
  <2>2. \A i \in 1..Len(toCentral[s]) : toCentral[s][i] \in Message
    BY <2>1
  <2>3. Tokens(s, c) = Picks(toCentral[s], TokensOf(c))
    BY <2>2 DEF Tokens, Picks, TokensOf
  <2> QED BY <2>1, <2>3, RequestsCounted DEF Count, Due, Here
<1> QED BY <1>1 DEF OneAnswerComes, Owed

\* The same after a step.
LEMMA AnswersCountedNext ==
  ASSUME TypeOK'
  PROVE  OneAnswerComes' <=>
           \A s \in Servers, c \in Clients : Runs(s)' => Due(s, c)' = Owed(s, c)'
<1>1. ASSUME NEW s \in Servers, NEW c \in Clients
      PROVE  Cardinality(Requests(channel'[s], c)) + Cardinality(Requests(toServer'[s], c))
                 + Cardinality(Tokens(s, c)') + (IF waiting'[s] = c THEN 1 ELSE 0) = Due(s, c)'
  <2>1. /\ channel'[s] \in Seq(Request) /\ toServer'[s] \in Seq(Request)
        /\ toCentral'[s] \in Seq(Message)
    BY DEF TypeOK
  <2>2. \A i \in 1..Len(toCentral'[s]) : toCentral'[s][i] \in Message
    BY <2>1
  <2>3. Tokens(s, c)' = Picks(toCentral'[s], TokensOf(c))
    BY <2>2 DEF Tokens, Picks, TokensOf
  <2> QED BY <2>1, <2>3, RequestsCounted DEF Count, Due, Here
<1> QED BY <1>1 DEF OneAnswerComes, Owed

\* An empty queue counts nothing.
LEMMA CountEmpty == \A T : Count(<<>>, T) = 0
<1>1. ASSUME NEW T PROVE Picks(<<>>, T) = {}
  BY DEF Picks
<1> QED BY <1>1, FS_EmptySet DEF Count

\* At the start nobody has asked, and nothing is coming.
LEMMA AnswerInit == Init => AnswerInv
<1> SUFFICES ASSUME Init PROVE AnswerInv
  OBVIOUS
<1>1. TypeInv
  BY TypeInvInit
<1>2. IdleAsksNobody
  BY DEF Init, IdleAsksNobody
<1>3. ASSUME NEW s \in Servers, NEW c \in Clients PROVE Due(s, c) = Owed(s, c)
  <2>1. channel[s] = <<>> /\ toServer[s] = <<>> /\ toCentral[s] = <<>>
    BY DEF Init
  <2>2. Here(s, c) = 0 /\ Owed(s, c) = 0
    BY MatchmakingAssumption DEF Init, Here, Owed
  <2> QED BY <2>1, <2>2, CountEmpty DEF Due
<1>4. OneAnswerComes
  BY <1>1, <1>3, AnswersCounted DEF TypeInv
<1> QED BY <1>1, <1>2, <1>4 DEF AnswerInv

\* It is enough to look at the gameservers a step is about.
LEMMA OneAnswerFrame ==
  ASSUME AnswerInv, TypeOK',
         \A s \in Servers, c \in Clients : Runs(s)' =>
           \/ Runs(s) /\ Due(s, c)' = Due(s, c) /\ Owed(s, c)' = Owed(s, c)
           \/ Due(s, c)' = Owed(s, c)'
  PROVE  OneAnswerComes'
<1>1. \A s \in Servers, c \in Clients : Runs(s) => Due(s, c) = Owed(s, c)
  BY AnswersCounted DEF AnswerInv, TypeInv
<1> QED BY <1>1, AnswersCountedNext

\* Steps that leave alone who is asked, who waits, and the messages of the
\* gameservers that stay.
LEMMA AnswerFrame ==
  ASSUME AnswerInv, TypeOK', asked' = asked, waiting' = waiting,
         \A c \in Clients : task'[c] = task[c] \/ task[c] # "awaits",
         \A s \in Servers : Runs(s)' =>
           /\ Runs(s) /\ channel'[s] = channel[s]
           /\ toServer'[s] = toServer[s] /\ toCentral'[s] = toCentral[s]
  PROVE  IdleAsksNobody' /\ OneAnswerComes'
<1>1. IdleAsksNobody'
  BY DEF AnswerInv, IdleAsksNobody
<1>2. \A s, c : Here(s, c)' = Here(s, c) /\ Owed(s, c)' = Owed(s, c)
  BY DEF Here, Owed
<1>3. OneAnswerComes'
  BY <1>2, OneAnswerFrame DEF Due
<1> QED BY <1>1, <1>3

\* The steps of a console, and of a room, touch neither requests nor answers.
LEMMA AnswerElsewhere ==
  ASSUME AnswerInv, TypeOK',
         \/ \E c \in Clients : \/ LogIn(c) \/ SendSearchMessage(c) \/ Leave(c) \/ JoinRoom(c)
                               \/ TaskEnds(c)
         \/ \E s \in Servers, r \in RoomIds, c \in Clients : RoomJoin(s, r, c) \/ RoomLeave(s, r, c)
         \/ UNCHANGED vars
  PROVE  IdleAsksNobody' /\ OneAnswerComes'
<1>1. task \in [Clients -> {"none", "reads", "awaits"}]
  BY DEF AnswerInv, TypeInv, TypeOK
<1>2. /\ asked' = asked /\ waiting' = waiting /\ listener' = listener /\ channel' = channel
      /\ toServer' = toServer /\ toCentral' = toCentral
  BY DEF LogIn, TaskEnds, SendSearchMessage, Leave, JoinRoom, RoomJoin, RoomLeave,
         vars, centralVars, serverVars
<1>3. \A s : Runs(s)' => Runs(s)
  BY <1>2 DEF Runs
<1>4. \A d \in Clients : task'[d] = task[d] \/ task[d] # "awaits"
  <2>1. ASSUME NEW c \in Clients, LogIn(c) \/ TaskEnds(c)
        PROVE  task[c] # "awaits" /\ \E x : task' = [task EXCEPT ![c] = x]
    BY <2>1 DEF LogIn, TaskEnds
  <2>2. CASE \E c \in Clients : LogIn(c) \/ TaskEnds(c)
    BY <1>1, <2>1, <2>2
  <2>3. CASE ~ \E c \in Clients : LogIn(c) \/ TaskEnds(c)
    BY <2>3 DEF SendSearchMessage, Leave, JoinRoom, RoomJoin, RoomLeave, vars, centralVars
  <2> QED BY <2>2, <2>3
<1> QED BY <1>2, <1>3, <1>4, AnswerFrame

\* A listener that goes for the lock has what it had; one that ends owes nothing more,
\* and what the others owe stays.
LEMMA AnswerLost ==
  ASSUME AnswerInv, TypeOK', NEW s \in Servers, TakeUpdate(s) \/ EndListener(s) \/ RemoveServer(s)
  PROVE  IdleAsksNobody' /\ OneAnswerComes'
<1>1. TypeOK
  BY DEF AnswerInv, TypeInv
<1>2. asked' = asked /\ waiting' = waiting /\ task' = task
  BY DEF TakeUpdate, EndListener, RemoveServer, serverVars
<1>3. \A t \in Servers : t # s =>
        /\ listener'[t] = listener[t] /\ channel'[t] = channel[t]
        /\ toServer'[t] = toServer[t] /\ toCentral'[t] = toCentral[t]
  BY <1>1 DEF TypeOK, TakeUpdate, EndListener, RemoveServer
<1>4. Runs(s)' => TakeUpdate(s)
  BY <1>1 DEF Runs, EndListener, RemoveServer, TypeOK
<1>5. TakeUpdate(s) => /\ Runs(s) /\ channel' = channel
                       /\ toServer' = toServer /\ toCentral' = toCentral
  BY DEF TakeUpdate, Runs
<1>6. \A t \in Servers : t # s => (Runs(t)' => Runs(t))
  BY <1>3 DEF Runs
<1> QED BY <1>2, <1>3, <1>4, <1>5, <1>6, AnswerFrame

\* A request the listener sends on is on its way as before.
LEMMA AnswerForwarded ==
  ASSUME AnswerInv, TypeOK', NEW s \in Servers, Forward(s)
  PROVE  IdleAsksNobody' /\ OneAnswerComes'
<1>1. TypeOK
  BY DEF AnswerInv, TypeInv
<1>2. /\ asked' = asked /\ waiting' = waiting /\ task' = task /\ toCentral' = toCentral
      /\ listener' = listener
  BY DEF Forward, serverVars
<1>3. IdleAsksNobody'
  BY <1>2 DEF AnswerInv, IdleAsksNobody
<1>4. /\ channel \in [Servers -> Seq(Request)] /\ toServer \in [Servers -> Seq(Request)]
      /\ channel[s] \in Seq(Request) /\ toServer[s] \in Seq(Request) /\ channel[s] # <<>>
      /\ toCentral[s] \in Seq(Message)
  BY <1>1 DEF Forward, TypeOK
<1>5. PICK e \in Request : e = Head(channel[s])
  BY <1>4, Queue
<1>6. channel'[s] = Tail(channel[s]) /\ toServer'[s] = Append(toServer[s], e)
  BY <1>4, <1>5 DEF Forward
<1>7. \A t \in Servers : t # s => channel'[t] = channel[t] /\ toServer'[t] = toServer[t]
  BY <1>4 DEF Forward
<1>8. \A t, c : Here(t, c)' = Here(t, c) /\ Owed(t, c)' = Owed(t, c) /\ (Runs(t)' <=> Runs(t))
  BY <1>2 DEF Here, Owed, Runs
<1>9. ASSUME NEW c \in Clients PROVE Due(s, c)' = Due(s, c)
  <2>1. /\ Count(channel[s], RequestsOf(c)) = IF e \in RequestsOf(c)
                                                THEN Count(channel'[s], RequestsOf(c)) + 1
                                                ELSE Count(channel'[s], RequestsOf(c))
        /\ Count(toServer'[s], RequestsOf(c)) = IF e \in RequestsOf(c)
                                                  THEN Count(toServer[s], RequestsOf(c)) + 1
                                                  ELSE Count(toServer[s], RequestsOf(c))
    BY <1>4, <1>5, <1>6, CountTail, CountAppend
  <2>2. Tail(channel[s]) \in Seq(Request)
    BY <1>4, Queue
  <2>3. /\ Count(channel'[s], RequestsOf(c)) \in Nat /\ Count(toServer[s], RequestsOf(c)) \in Nat
        /\ Count(toCentral[s], TokensOf(c)) \in Nat /\ Here(s, c) \in Nat
    BY <1>4, <1>6, <2>2, CountIsNatural DEF Here
  <2> QED BY <1>2, <1>8, <2>1, <2>3 DEF Due
<1>10. ASSUME NEW t \in Servers, NEW c \in Clients PROVE Due(t, c)' = Due(t, c)
  <2>1. CASE t = s
    BY <1>9, <2>1
  <2>2. CASE t # s
    BY <1>2, <1>7, <1>8, <2>2 DEF Due
  <2> QED BY <2>1, <2>2
<1>11. OneAnswerComes'
  BY <1>8, <1>10, OneAnswerFrame
<1> QED BY <1>3, <1>11

\* Updates of rooms are not answers.
LEMMA AnswerAndUpdates ==
  ASSUME AnswerInv, TypeOK', NEW s \in Servers, ReceiveClientUpdate(s) \/ ForwardUpdate(s)
  PROVE  IdleAsksNobody' /\ OneAnswerComes'
<1>1. TypeOK /\ LockedHasUpdate
  BY DEF AnswerInv, TypeInv
<1>2. /\ asked' = asked /\ waiting' = waiting /\ task' = task
      /\ channel' = channel /\ toServer' = toServer
  BY DEF ReceiveClientUpdate, ForwardUpdate, centralVars, serverVars
<1>3. IdleAsksNobody'
  BY <1>2 DEF AnswerInv, IdleAsksNobody
<1>4. toCentral[s] \in Seq(Message) /\ toCentral \in [Servers -> Seq(Message)]
  BY <1>1 DEF TypeOK
<1>5. \A t \in Servers : t # s => toCentral'[t] = toCentral[t]
  BY <1>4 DEF ReceiveClientUpdate, ForwardUpdate
<1>6. \A c \in Clients : Count(toCentral'[s], TokensOf(c)) = Count(toCentral[s], TokensOf(c))
  <2>1. CASE ReceiveClientUpdate(s)
    <3>1. /\ toCentral[s] # <<>> /\ Head(toCentral[s]).kind # "token"
          /\ toCentral'[s] = Tail(toCentral[s])
      BY <1>1, <1>4, <2>1 DEF ReceiveClientUpdate, LockedHasUpdate
    <3>2. \A c \in Clients : Head(toCentral[s]) \notin TokensOf(c)
      BY <3>1 DEF TokensOf
    <3> QED BY <1>4, <3>1, <3>2, CountTail
  <2>2. CASE ForwardUpdate(s)
    <3>1. updates[s] \in Seq(Update) /\ updates[s] # <<>>
      BY <1>1, <2>2 DEF ForwardUpdate, TypeOK
    <3>2. Head(updates[s]) \in Update
      BY <3>1, Queue
    <3>3. Head(updates[s]) \in Message /\ Head(updates[s]).kind # "token"
      BY <3>2 DEF Update, Message
    <3>4. \A c \in Clients : Head(updates[s]) \notin TokensOf(c)
      BY <3>3 DEF TokensOf
    <3>5. toCentral'[s] = Append(toCentral[s], Head(updates[s]))
      BY <1>4, <2>2 DEF ForwardUpdate
    <3> QED BY <1>4, <3>3, <3>4, <3>5, CountAppend
  <2> QED BY <2>1, <2>2
<1>7. \A t, c : Here(t, c)' = Here(t, c) /\ Owed(t, c)' = Owed(t, c)
  BY <1>2 DEF Here, Owed
<1>8. \A t \in Servers : Runs(t)' => Runs(t)
  <2>1. listener \in [Servers -> {"listens", "locks", "removes", "gone"}]
    BY <1>1 DEF TypeOK
  <2>2. CASE ReceiveClientUpdate(s)
    BY <2>1, <2>2 DEF ReceiveClientUpdate, Runs
  <2>3. CASE ForwardUpdate(s)
    BY <2>3 DEF ForwardUpdate, centralVars, Runs
  <2> QED BY <2>2, <2>3
<1>9. \A t \in Servers, c \in Clients : Due(t, c)' = Due(t, c)
  BY <1>2, <1>5, <1>6, <1>7 DEF Due
<1>10. OneAnswerComes'
  BY <1>7, <1>8, <1>9, OneAnswerFrame
<1> QED BY <1>3, <1>10

\* Who asks a gameserver for a room has asked none before, and is owed one answer.
LEMMA AnswerAsked ==
  ASSUME AnswerInv, TypeOK', NEW c \in Clients, RequestRoom(c)
  PROVE  IdleAsksNobody' /\ OneAnswerComes'
<1>1. TypeOK /\ OneAnswerComes /\ IdleAsksNobody
  BY DEF AnswerInv, TypeInv
<1>2. task[c] = "reads" /\ asked[c] = NoServer
  BY <1>1 DEF RequestRoom, IdleAsksNobody
<1>3. /\ listener' = listener /\ waiting' = waiting /\ toServer' = toServer
      /\ toCentral' = toCentral
  BY DEF RequestRoom, serverVars
<1>4. \A s, d : (Runs(s)' <=> Runs(s)) /\ Here(s, d)' = Here(s, d)
  BY <1>3 DEF Runs, Here
<1>5. CASE channel' = channel /\ asked' = asked /\ \E x : task' = [task EXCEPT ![c] = x]
  <2>1. IdleAsksNobody'
    BY <1>1, <1>2, <1>5 DEF IdleAsksNobody, TypeOK
  <2>2. \A s, d : Owed(s, d)' = Owed(s, d) /\ Due(s, d)' = Due(s, d)
    BY <1>3, <1>4, <1>5 DEF Owed, Due
  <2>3. OneAnswerComes'
    BY <1>4, <2>2, OneAnswerFrame
  <2> QED BY <2>1, <2>3
<1>6. ASSUME NEW choice \in Choices(search[c]),
             /\ asked' = [asked EXCEPT ![c] = choice[1]]
             /\ channel' = [channel EXCEPT ![choice[1]] =
                              Append(@, [client |-> c, room |-> choice[2]])]
             /\ task' = [task EXCEPT ![c] = "awaits"]
      PROVE  IdleAsksNobody' /\ OneAnswerComes'
  <2>1. choice[1] \in Servers /\ choice[2] \in RoomIds \cup {NoRoom}
    BY ChoicesTyped
  <2>2. PICK a \in Servers, e \in Request :
          /\ a = choice[1] /\ e.client = c
          /\ channel' = [channel EXCEPT ![a] = Append(@, e)]
          /\ asked' = [asked EXCEPT ![c] = a]
    <3>1. [client |-> c, room |-> choice[2]] \in Request
      BY <2>1 DEF Request
    <3> QED BY <1>6, <2>1, <3>1
  <2>3. IdleAsksNobody'
    BY <1>1, <1>6 DEF IdleAsksNobody, TypeOK
  <2>4. \A s \in Servers, d \in Clients : Runs(s) => Due(s, d) = Owed(s, d)
    BY <1>1, AnswersCounted
  <2>5. channel \in [Servers -> Seq(Request)] /\ asked \in [Clients -> Servers \cup {NoServer}]
    BY <1>1 DEF TypeOK
  <2>6. \A d \in Clients : e \in RequestsOf(d) <=> d = c
    BY <2>2 DEF RequestsOf
  <2>7. ASSUME NEW s \in Servers, NEW d \in Clients, Runs(s)'
        PROVE  Due(s, d)' = Owed(s, d)'
    <3>1. Due(s, d) = Owed(s, d) /\ s # NoServer
      BY <1>4, <2>4, <2>7, MatchmakingAssumption
    <3>2. CASE s = a /\ d = c
      <4>1. channel'[s] = Append(channel[s], e)
        BY <2>2, <2>5, <3>2
      <4>2. Count(channel'[s], RequestsOf(d)) = Count(channel[s], RequestsOf(d)) + 1
        BY <2>5, <2>6, <3>2, <4>1, CountAppend
      <4>3. Owed(s, d) = 0 /\ Owed(s, d)' = 1
        BY <1>2, <2>2, <2>5, <3>1, <3>2 DEF Owed
      <4>4. /\ Count(channel[s], RequestsOf(d)) \in Nat /\ Count(toServer[s], RequestsOf(d)) \in Nat
            /\ Count(toCentral[s], TokensOf(d)) \in Nat /\ Here(s, d) \in Nat
        <5>1. toCentral[s] \in Seq(Message) /\ toServer[s] \in Seq(Request)
          BY <1>1 DEF TypeOK
        <5> QED BY <2>5, <5>1, CountIsNatural DEF Here
      <4> QED BY <1>3, <1>4, <3>1, <4>2, <4>3, <4>4 DEF Due
    <3>3. CASE ~(s = a /\ d = c)
      <4>1. Count(channel'[s], RequestsOf(d)) = Count(channel[s], RequestsOf(d))
        <5>1. CASE s # a
          BY <2>2, <2>5, <5>1
        <5>2. CASE s = a
          <6>1. channel'[s] = Append(channel[s], e) /\ e \notin RequestsOf(d)
            BY <2>2, <2>5, <2>6, <3>3, <5>2
          <6> QED BY <2>5, <6>1, CountAppend
        <5> QED BY <5>1, <5>2
      <4>2. Owed(s, d)' = Owed(s, d)
        BY <1>2, <2>2, <2>5, <3>1, <3>3 DEF Owed
      <4> QED BY <1>3, <1>4, <3>1, <4>1, <4>2 DEF Due
    <3> QED BY <3>2, <3>3
  <2> QED BY <2>3, <2>7, AnswersCountedNext
<1> QED BY <1>5, <1>6 DEF RequestRoom

\* An answer goes to a client that awaits it, and is then owed no more.
LEMMA AnswerReceived ==
  ASSUME AnswerInv, TypeOK', NEW s \in Servers, ReceiveTokenResponse(s)
  PROVE  IdleAsksNobody' /\ OneAnswerComes'
<1>1. TypeOK /\ OneAnswerComes /\ IdleAsksNobody
  BY DEF AnswerInv, TypeInv
<1>2. /\ toCentral \in [Servers -> Seq(Message)] /\ toServer[s] \in Seq(Request)
      /\ channel[s] \in Seq(Request) /\ toCentral[s] \in Seq(Message)
      /\ toCentral[s] # <<>> /\ Runs(s)
  BY <1>1 DEF ReceiveTokenResponse, TypeOK, Runs
<1>3. PICK m \in Message : m = Head(toCentral[s]) /\ m.kind = "token"
  BY <1>2, Queue DEF ReceiveTokenResponse
<1>4. PICK c \in Clients : c = m.client
  BY DEF Message
<1>5. Tail(toCentral[s]) \in Seq(Message)
  BY <1>2, Queue
<1>6. \A t \in Servers, d \in Clients : Runs(t) => Due(t, d) = Owed(t, d)
  BY <1>1, AnswersCounted
<1>7. \A d \in Clients : m \in TokensOf(d) <=> d = c
  BY <1>3, <1>4 DEF TokensOf
<1>8. \A d \in Clients :
        /\ Count(channel[s], RequestsOf(d)) \in Nat /\ Count(toServer[s], RequestsOf(d)) \in Nat
        /\ Count(Tail(toCentral[s]), TokensOf(d)) \in Nat
        /\ Here(s, d) \in Nat
  BY <1>2, <1>5, CountIsNatural DEF Here
<1>9. \A d \in Clients : Count(toCentral[s], TokensOf(d)) =
        IF d = c THEN Count(Tail(toCentral[s]), TokensOf(d)) + 1
                 ELSE Count(Tail(toCentral[s]), TokensOf(d))
  BY <1>2, <1>3, <1>7, CountTail
<1>10. Owed(s, c) # 0
  BY <1>2, <1>6, <1>8, <1>9 DEF Due
<1>11. asked[c] = s /\ task[c] = "awaits"
  BY <1>1, <1>2, <1>10, MatchmakingAssumption DEF Owed, IdleAsksNobody, TypeOK
<1>12. /\ task' = [task EXCEPT ![c] = "reads"]
       /\ asked' = [asked EXCEPT ![c] = NoServer]
  BY <1>3, <1>4, <1>11 DEF ReceiveTokenResponse, Answered
<1>13. IdleAsksNobody'
  BY <1>1, <1>12 DEF IdleAsksNobody, TypeOK
<1>14. /\ toCentral' = [toCentral EXCEPT ![s] = Tail(@)] /\ toServer' = toServer
       /\ channel' = channel /\ waiting' = waiting /\ listener' = listener
  BY DEF ReceiveTokenResponse, serverVars
<1>15. ASSUME NEW t \in Servers, NEW d \in Clients, Runs(t)'
       PROVE  Due(t, d)' = Owed(t, d)'
  <2>1. Due(t, d) = Owed(t, d) /\ t # NoServer /\ Here(t, d)' = Here(t, d)
    BY <1>6, <1>14, <1>15, MatchmakingAssumption DEF Here, Runs
  <2>2. CASE t = s /\ d = c
    <3>1. toCentral'[t] = Tail(toCentral[s])
      BY <1>2, <1>14, <2>2
    <3>2. Owed(t, d) = 1 /\ Owed(t, d)' = 0
      BY <1>1, <1>11, <1>12, <2>1, <2>2 DEF Owed, TypeOK
    <3> QED BY <1>8, <1>9, <1>14, <2>1, <2>2, <3>1, <3>2 DEF Due
  <2>3. CASE t = s /\ d # c
    <3>1. toCentral'[t] = Tail(toCentral[s])
      BY <1>2, <1>14, <2>3
    <3>2. Owed(t, d)' = Owed(t, d)
      BY <1>1, <1>12, <2>3 DEF Owed, TypeOK
    <3> QED BY <1>9, <1>14, <2>1, <2>3, <3>1, <3>2 DEF Due
  <2>4. CASE t # s
    <3>1. toCentral'[t] = toCentral[t]
      BY <1>2, <1>14, <2>1, <2>4
    <3>2. Owed(t, d)' = Owed(t, d)
      BY <1>1, <1>11, <1>12, <2>1, <2>4 DEF Owed, TypeOK
    <3> QED BY <1>14, <2>1, <3>1, <3>2 DEF Due
  <2> QED BY <2>2, <2>3, <2>4
<1>16. OneAnswerComes'
  BY <1>15, AnswersCountedNext
<1> QED BY <1>13, <1>16

\* A request is turned into an answer, or its client waits for a second one, whose
\* request is turned into the answers of both.
LEMMA AnswerGiven ==
  ASSUME AnswerInv, TypeOK', NEW s \in Servers, HandleTokenRequest(s)
  PROVE  IdleAsksNobody' /\ OneAnswerComes'
<1>1. TypeOK /\ OneAnswerComes /\ IdleAsksNobody
  BY DEF AnswerInv, TypeInv
<1>2. /\ toCentral \in [Servers -> Seq(Message)] /\ toServer \in [Servers -> Seq(Request)]
      /\ waiting \in [Servers -> Clients \cup {NoClient}]
      /\ toServer[s] \in Seq(Request) /\ toCentral[s] \in Seq(Message)
      /\ toServer[s] # <<>>
  BY <1>1 DEF HandleTokenRequest, TypeOK
<1>3. PICK request \in Request : request = Head(toServer[s])
  BY <1>2, Queue
<1>4. PICK c \in Clients : c = request.client
  BY DEF Request
<1>5. Tail(toServer[s]) \in Seq(Request)
  BY <1>2, Queue
<1>6. \A t \in Servers, d \in Clients : Runs(t) => Due(t, d) = Owed(t, d)
  BY <1>1, AnswersCounted
<1>7. \A d \in Clients : request \in RequestsOf(d) <=> d = c
  BY <1>4 DEF RequestsOf
<1>8. \A d \in Clients :
        /\ Count(Tail(toServer[s]), RequestsOf(d)) \in Nat
        /\ Count(toCentral[s], TokensOf(d)) \in Nat
  BY <1>2, <1>5, CountIsNatural
<1>9. \A d \in Clients : Count(toServer[s], RequestsOf(d)) =
        IF d = c THEN Count(Tail(toServer[s]), RequestsOf(d)) + 1
                 ELSE Count(Tail(toServer[s]), RequestsOf(d))
  BY <1>2, <1>3, <1>7, CountTail
<1>10. /\ asked' = asked /\ task' = task /\ listener' = listener /\ channel' = channel
       /\ toServer' = [toServer EXCEPT ![s] = Tail(@)]
  BY DEF HandleTokenRequest, centralVars
<1>11. IdleAsksNobody'
  BY <1>1, <1>10 DEF IdleAsksNobody
<1>12. \A d \in Clients, r \in RoomIds :
         /\ TokenTo(d, r) \in Message
         /\ \A f \in Clients : TokenTo(d, r) \in TokensOf(f) <=> f = d
  BY DEF TokensOf, Message, TokenTo
<1>13. \A d \in Clients : Count(toCentral'[s], TokensOf(d)) + Here(s, d)' =
         IF d = c THEN Count(toCentral[s], TokensOf(d)) + Here(s, d) + 1
                  ELSE Count(toCentral[s], TokensOf(d)) + Here(s, d)
  <2>1. CASE /\ request.room # NoRoom
             /\ toCentral' = [toCentral EXCEPT ![s] =
                                @ \o Answers(s, <<request.client>>, request.room)]
             /\ UNCHANGED <<waiting, rooms, made>>
    <3>1. PICK r \in RoomIds : r = request.room
      BY <2>1 DEF Request
    <3>2. PICK m \in Message : m = TokenTo(c, r)
      BY <1>12
    <3>3. toCentral'[s] = Append(toCentral[s], m)
      <4>1. toCentral'[s] = toCentral[s] \o Answers(s, <<c>>, r)
        BY <1>2, <1>4, <2>1, <3>1
      <4>4. <<c>> \in Seq(Clients) /\ Len(<<c>>) = 1 /\ <<c>>[1] = c
        OBVIOUS
      <4>2. PICK one \in Seq(Clients) : one = <<c>> /\ Len(one) = 1 /\ one[1] = c
        BY <4>4
      <4>3. toCentral[s] \o Answers(s, one, r) = Append(toCentral[s], TokenTo(one[1], r))
        BY <1>2, <4>2, AnswerOfOne
      <4> QED BY <3>2, <4>1, <4>2, <4>3
    <3>4. \A d \in Clients : m \in TokensOf(d) <=> d = c
      BY <1>12, <3>2
    <3>5. \A d \in Clients : Count(toCentral'[s], TokensOf(d)) =
            IF d = c THEN Count(toCentral[s], TokensOf(d)) + 1 ELSE Count(toCentral[s], TokensOf(d))
      BY <1>2, <3>3, <3>4, CountAppend
    <3>6. \A d \in Clients : Here(s, d)' = Here(s, d) /\ Here(s, d) \in Nat
      BY <2>1 DEF Here
    <3> QED BY <1>8, <3>5, <3>6
  <2>2. CASE /\ waiting[s] = NoClient
             /\ waiting' = [waiting EXCEPT ![s] = request.client]
             /\ UNCHANGED <<toCentral, rooms, made>>
    <3>1. \A d \in Clients : Here(s, d) = 0 /\ Here(s, d)' = IF d = c THEN 1 ELSE 0
      BY <1>2, <1>4, <2>2, MatchmakingAssumption DEF Here
    <3> QED BY <1>8, <2>2, <3>1
  <2>3. CASE waiting[s] # NoClient /\ \E r \in RoomIds \ made[s] : PairUp(s, request.client, r)
    <3>1. PICK r \in RoomIds : PairUp(s, c, r)
      BY <1>4, <2>3
    <3>2. PICK w \in Clients : w = waiting[s]
      BY <1>2, <2>3
    <3>3. PICK m \in Message : m = TokenTo(c, r)
      BY <1>12
    <3>4. PICK n \in Message : n = TokenTo(w, r)
      BY <1>12
    <3>5. PICK q \in Seq(Message) : q = Append(toCentral[s], m) /\ toCentral'[s] = Append(q, n)
      <4>1. PICK two \in Seq(Clients) : two = <<c, w>> /\ Len(two) = 2 /\ two[1] = c /\ two[2] = w
        <5>1. Len(<<c, w>>) = 2 /\ <<c, w>>[1] = c /\ <<c, w>>[2] = w
          OBVIOUS
        <5> WITNESS <<c, w>> \in Seq(Clients)
        <5> QED BY <5>1
      <4>2. toCentral'[s] = toCentral[s] \o Answers(s, two, r)
        BY <1>2, <3>1, <3>2, <4>1 DEF PairUp
      <4>3. PICK q \in Seq(Message) :
              /\ q = Append(toCentral[s], TokenTo(two[1], r))
              /\ toCentral[s] \o Answers(s, two, r) = Append(q, TokenTo(two[2], r))
        <5>1. toCentral[s] \in Seq(Message) /\ Len(two) = 2
          BY <1>2, <4>1
        <5> QED BY <5>1, AnswersOfTwo
      <4> QED BY <3>3, <3>4, <4>1, <4>2, <4>3
    <3>6. /\ \A d \in Clients : m \in TokensOf(d) <=> d = c
          /\ \A d \in Clients : n \in TokensOf(d) <=> d = w
      BY <1>12, <3>3, <3>4
    <3>7. \A d \in Clients : Count(q, TokensOf(d)) =
            IF d = c THEN Count(toCentral[s], TokensOf(d)) + 1 ELSE Count(toCentral[s], TokensOf(d))
      BY <1>2, <3>5, <3>6, CountAppend
    <3>8. \A d \in Clients : Count(Append(q, n), TokensOf(d)) =
            IF d = w THEN Count(q, TokensOf(d)) + 1 ELSE Count(q, TokensOf(d))
      BY <3>6, CountAppend
    <3>9. toCentral'[s] = Append(q, n)
      BY <3>5
    <3>10. \A d \in Clients : Here(s, d)' = 0 /\ Here(s, d) = IF d = w THEN 1 ELSE 0
      BY <1>2, <3>1, <3>2, MatchmakingAssumption DEF PairUp, Here
    <3> QED BY <1>8, <3>7, <3>8, <3>9, <3>10
  <2> QED BY <1>3, <2>1, <2>2, <2>3 DEF HandleTokenRequest
<1>14. ASSUME NEW t \in Servers, NEW d \in Clients, Runs(t)'
       PROVE  Due(t, d)' = Owed(t, d)'
  <2>1. Due(t, d) = Owed(t, d) /\ Owed(t, d)' = Owed(t, d)
    BY <1>6, <1>10, <1>14 DEF Owed, Runs
  <2>2. CASE t = s
    <3>1. toServer'[s] = Tail(toServer[s])
      BY <1>2, <1>10
    <3>2. Here(s, d) \in Nat /\ Here(s, d)' \in Nat
      BY DEF Here
    <3>3. Count(channel[s], RequestsOf(d)) \in Nat /\ Count(toCentral'[s], TokensOf(d)) \in Nat
      <4>1. toCentral'[s] \in Seq(Message)
        BY DEF TypeOK
      <4>2. channel[s] \in Seq(Request)
        BY <1>1 DEF TypeOK
      <4> QED BY <4>1, <4>2, CountIsNatural
    <3>4. Due(s, d) = Owed(s, d)
      BY <2>1, <2>2
    <3>5. Due(s, d)' = Due(s, d)
      <4>1. /\ Due(s, d) = Count(channel[s], RequestsOf(d)) + Count(toServer[s], RequestsOf(d))
                             + Count(toCentral[s], TokensOf(d)) + Here(s, d)
            /\ Due(s, d)' = Count(channel[s], RequestsOf(d)) + Count(Tail(toServer[s]), RequestsOf(d))
                              + Count(toCentral'[s], TokensOf(d)) + Here(s, d)'
        BY <1>10, <3>1 DEF Due
      <4>2. CASE d = c
        <5>1. /\ Count(toServer[s], RequestsOf(d)) = Count(Tail(toServer[s]), RequestsOf(d)) + 1
              /\ Count(toCentral'[s], TokensOf(d)) + Here(s, d)'
                   = Count(toCentral[s], TokensOf(d)) + Here(s, d) + 1
          BY <1>9, <1>13, <4>2
        <5> QED BY <1>8, <3>2, <3>3, <4>1, <5>1
      <4>3. CASE d # c
        <5>1. /\ Count(toServer[s], RequestsOf(d)) = Count(Tail(toServer[s]), RequestsOf(d))
              /\ Count(toCentral'[s], TokensOf(d)) + Here(s, d)'
                   = Count(toCentral[s], TokensOf(d)) + Here(s, d)
          BY <1>9, <1>13, <4>3
        <5> QED BY <1>8, <3>2, <3>3, <4>1, <5>1
      <4> QED BY <4>2, <4>3
    <3> QED BY <2>1, <2>2, <3>4, <3>5
  <2>3. CASE t # s
    <3>1. toServer'[t] = toServer[t]
      BY <1>2, <1>10, <2>1, <2>3
    <3>2. toCentral'[t] = toCentral[t] /\ waiting'[t] = waiting[t]
      BY <1>2, <2>1, <2>3 DEF HandleTokenRequest, PairUp
    <3> QED BY <1>10, <2>1, <3>1, <3>2 DEF Here, Due
  <2> QED BY <2>2, <2>3
<1>15. OneAnswerComes'
  BY <1>14, AnswersCountedNext
<1> QED BY <1>11, <1>15

\* Every step keeps the invariant.
LEMMA AnswerStep == AnswerInv /\ [Next]_vars => AnswerInv'
<1> SUFFICES ASSUME AnswerInv, [Next]_vars PROVE AnswerInv'
  OBVIOUS
<1>1. TypeInv' /\ TypeOK'
  BY TypeInvStep DEF AnswerInv, TypeInv
<1>2. IdleAsksNobody' /\ OneAnswerComes'
  BY <1>1, AnswerElsewhere, AnswerLost, AnswerForwarded, AnswerAndUpdates, AnswerAsked,
     AnswerReceived, AnswerGiven DEF Next
<1> QED BY <1>1, <1>2 DEF AnswerInv

\* However many players search at however many gameservers, a task that awaits a
\* gameserver whose listener has not ended has exactly one answer coming, and nobody
\* is answered who does not await it.
THEOREM OneAnswerAlwaysComes == Spec => []OneAnswerComes
<1>1. AnswerInv => OneAnswerComes
  BY DEF AnswerInv
<1> QED BY <1>1, AnswerInit, AnswerStep, PTL DEF Spec
--------------------------------------------------------------------------------
\* The list of rooms follows the rooms.

Has(q, T) == \E i \in 1..Len(q) : q[i] \in T

UpdatesOf(c, r) == {m \in Message : m.kind # "token" /\ m.client = c /\ m.room = r}
LeavesOf(r) == {m \in Message : m.kind = "leave" /\ m.room = r}

\* A message that somebody leaves is about a room that somebody has left.
LeavesAreKnown ==
  \A s \in Servers : \A r \in RoomIds \ left[s] :
    ~Has(toCentral[s], LeavesOf(r)) /\ ~Has(updates[s], LeavesOf(r))

ViewInv == TypeInv /\ LeavesAreKnown /\ ViewFollowsRooms

\* What a queue has with one more message.
LEMMA HasAppend ==
  ASSUME NEW S, NEW q \in Seq(S), NEW e \in S, NEW T
  PROVE  Has(Append(q, e), T) <=> Has(q, T) \/ e \in T
<1>1. Len(q) \in Nat
  OBVIOUS
<1>2. Append(q, e) \in Seq(S) /\ Len(Append(q, e)) = Len(q) + 1
      /\ Append(q, e)[Len(q) + 1] = e
      /\ \A i \in 1..Len(q) : Append(q, e)[i] = q[i]
  BY AppendProperties
<1> QED BY <1>1, <1>2 DEF Has

\* Taking the first message away.
LEMMA HasTail ==
  ASSUME NEW S, NEW q \in Seq(S), q # <<>>, NEW T
  PROVE  Has(q, T) <=> Head(q) \in T \/ Has(Tail(q), T)
<1>1. Len(q) \in Nat /\ Len(q) # 0
  BY EmptySeq
<1>2. /\ Tail(q) \in Seq(S) /\ Len(Tail(q)) = Len(q) - 1 /\ Head(q) = q[1]
      /\ \A i \in 1..Len(Tail(q)) : Tail(q)[i] = q[i + 1]
  BY <1>1, HeadTailProperties
<1>3. ASSUME Has(q, T) PROVE Head(q) \in T \/ Has(Tail(q), T)
  <2>1. PICK i \in 1..Len(q) : q[i] \in T
    BY <1>3 DEF Has
  <2>2. CASE i = 1
    BY <1>2, <2>1, <2>2
  <2>3. CASE i # 1
    <3>1. i - 1 \in 1..Len(Tail(q)) /\ (i - 1) + 1 = i
      BY <1>1, <1>2, <2>3
    <3>2. Tail(q)[i - 1] = q[i]
      BY <1>2, <3>1
    <3> QED BY <2>1, <3>1, <3>2 DEF Has
  <2> QED BY <2>2, <2>3
<1>4. ASSUME Has(Tail(q), T) PROVE Has(q, T)
  <2>1. PICK i \in 1..Len(Tail(q)) : Tail(q)[i] \in T
    BY <1>4 DEF Has
  <2>2. i + 1 \in 1..Len(q) /\ q[i + 1] \in T
    BY <1>1, <1>2, <2>1
  <2> QED BY <2>2 DEF Has
<1>5. ASSUME Head(q) \in T PROVE Has(q, T)
  <2>1. 1 \in 1..Len(q) /\ q[1] \in T
    BY <1>1, <1>2, <1>5
  <2> QED BY <2>1 DEF Has
<1> QED BY <1>3, <1>4, <1>5

\* An empty queue has nothing.
LEMMA HasEmpty == \A T : ~Has(<<>>, T)
BY DEF Has

\* ViewFollowsRooms room by room and client by client, now and after a step.
ViewAt(s, r) ==
  /\ \A c \in Clients :
       c \in members[s][r] <=> \/ c \in seen[s][r]
                               \/ Has(toCentral[s], UpdatesOf(c, r))
                               \/ Has(updates[s], UpdatesOf(c, r))
  /\ r \in listed[s] <=> seen[s][r] # {}

\* Names is about the updates in a queue.
LEMMA NamesAreUpdates ==
  ASSUME NEW q \in Seq(Message), NEW c, NEW r
  PROVE  Names(q, c, r) <=> Has(q, UpdatesOf(c, r))
<1>1. \A i \in 1..Len(q) : q[i] \in Message
  OBVIOUS
<1> QED BY <1>1 DEF Names, Has, UpdatesOf

\* What a room reports can be handed on as it is.
LEMMA UpdatesAreMessages ==
  Update \subseteq Message /\ \A q \in Seq(Update) : q \in Seq(Message)
<1>1. Update \subseteq Message
  BY DEF Update, Message
<1>2. ASSUME NEW q \in Seq(Update) PROVE q \in Seq(Message)
  BY <1>1
<1> QED BY <1>1, <1>2

\* ViewFollowsRooms is ViewAt for every room that nobody has left.
LEMMA ViewByRoom ==
  ASSUME TypeOK
  PROVE  ViewFollowsRooms <=>
           \A s \in Servers : Runs(s) => \A r \in RoomIds \ left[s] : ViewAt(s, r)
<1>1. ASSUME NEW s \in Servers, NEW r \in RoomIds \ left[s]
      PROVE  ViewAt(s, r) <=> /\ seen[s][r] \cup Coming(s, r) = members[s][r]
                              /\ r \in listed[s] <=> seen[s][r] # {}
  <2>1. /\ toCentral[s] \in Seq(Message) /\ updates[s] \in Seq(Message)
        /\ seen[s][r] \subseteq Clients /\ members[s][r] \subseteq Clients
    BY UpdatesAreMessages DEF TypeOK
  <2>2. Coming(s, r) = {c \in Clients : \/ Has(toCentral[s], UpdatesOf(c, r))
                                        \/ Has(updates[s], UpdatesOf(c, r))}
    BY <2>1, NamesAreUpdates DEF Coming
  <2> QED BY <2>1, <2>2 DEF ViewAt
<1> QED BY <1>1 DEF ViewFollowsRooms

\* The same after a step.
LEMMA ViewByRoomNext ==
  ASSUME TypeOK'
  PROVE  ViewFollowsRooms' <=>
           \A s \in Servers : Runs(s)' => \A r \in RoomIds \ left'[s] : ViewAt(s, r)'
<1>1. ASSUME NEW s \in Servers, NEW r \in RoomIds \ left'[s]
      PROVE  ViewAt(s, r)' <=> /\ seen'[s][r] \cup Coming(s, r)' = members'[s][r]
                               /\ r \in listed'[s] <=> seen'[s][r] # {}
  <2>1. /\ toCentral'[s] \in Seq(Message) /\ updates'[s] \in Seq(Message)
        /\ seen'[s][r] \subseteq Clients /\ members'[s][r] \subseteq Clients
    BY UpdatesAreMessages DEF TypeOK
  <2>2. Coming(s, r)' = {c \in Clients : \/ Has(toCentral'[s], UpdatesOf(c, r))
                                         \/ Has(updates'[s], UpdatesOf(c, r))}
    BY <2>1, NamesAreUpdates DEF Coming
  <2> QED BY <2>1, <2>2 DEF ViewAt
<1> QED BY <1>1 DEF ViewFollowsRooms

\* At the start there are no rooms and no updates.
LEMMA ViewInit == Init => ViewInv
<1> SUFFICES ASSUME Init PROVE ViewInv
  OBVIOUS
<1>1. TypeInv /\ TypeOK
  BY TypeInvInit DEF TypeInv
<1>2. LeavesAreKnown
  BY HasEmpty DEF Init, LeavesAreKnown
<1>3. ASSUME NEW s \in Servers, NEW r \in RoomIds PROVE ViewAt(s, r)
  BY HasEmpty DEF Init, ViewAt
<1>4. ViewFollowsRooms
  BY <1>1, <1>3, ViewByRoom
<1> QED BY <1>1, <1>2, <1>4 DEF ViewInv

\* Steps that touch no room, no update and no list.
LEMMA ViewFrame ==
  ASSUME ViewInv, TypeOK', left' = left, members' = members, updates' = updates,
         \A s \in Servers, r \in RoomIds :
           Has(toCentral'[s], LeavesOf(r)) => Has(toCentral[s], LeavesOf(r)),
         \A s \in Servers : Runs(s)' =>
           /\ Runs(s) /\ listed'[s] = listed[s] /\ seen'[s] = seen[s]
           /\ \A c \in Clients, r \in RoomIds :
                Has(toCentral'[s], UpdatesOf(c, r)) <=> Has(toCentral[s], UpdatesOf(c, r))
  PROVE  LeavesAreKnown' /\ ViewFollowsRooms'
<1>1. LeavesAreKnown'
  <2>1. \A s \in Servers : \A r \in RoomIds \ left[s] :
          ~Has(toCentral[s], LeavesOf(r)) /\ ~Has(updates[s], LeavesOf(r))
    BY DEF ViewInv, LeavesAreKnown
  <2>2. \A s \in Servers : \A r \in RoomIds \ left'[s] :
          ~Has(toCentral'[s], LeavesOf(r)) /\ ~Has(updates'[s], LeavesOf(r))
    BY <2>1
  <2> QED BY <2>2 DEF LeavesAreKnown
<1>2. TypeOK
  BY DEF ViewInv, TypeInv
<1>3. \A s \in Servers : Runs(s) => \A r \in RoomIds \ left[s] : ViewAt(s, r)
  BY <1>2, ViewByRoom DEF ViewInv
<1>4. ASSUME NEW s \in Servers, NEW r \in RoomIds \ left'[s], Runs(s)' PROVE ViewAt(s, r)'
  <2>1. ViewAt(s, r)
    BY <1>3, <1>4
  <2>2. \A c \in Clients :
          Has(toCentral'[s], UpdatesOf(c, r)) <=> Has(toCentral[s], UpdatesOf(c, r))
    BY <1>4
  <2> QED BY <1>4, <2>1, <2>2 DEF ViewAt
<1>5. ViewFollowsRooms'
  BY <1>4, ViewByRoomNext
<1> QED BY <1>1, <1>5

\* Steps of a console, and of a listener that takes a request or goes for the lock.
LEMMA ViewElsewhere ==
  ASSUME ViewInv, TypeOK',
         \/ \E c \in Clients : \/ LogIn(c) \/ SendSearchMessage(c) \/ Leave(c) \/ JoinRoom(c)
                               \/ RequestRoom(c) \/ TaskEnds(c)
         \/ \E s \in Servers : Forward(s) \/ TakeUpdate(s)
         \/ UNCHANGED vars
  PROVE  LeavesAreKnown' /\ ViewFollowsRooms'
<1>1. /\ left' = left /\ members' = members /\ updates' = updates
      /\ listed' = listed /\ seen' = seen /\ toCentral' = toCentral
  BY DEF LogIn, SendSearchMessage, Leave, JoinRoom, RequestRoom, TaskEnds, Forward, TakeUpdate,
         vars, centralVars, serverVars
<1>2. TypeOK
  BY DEF ViewInv, TypeInv
<1>3. \A s \in Servers : Runs(s)' => Runs(s)
  <2>1. ASSUME NEW t \in Servers, TakeUpdate(t) PROVE \A s \in Servers : Runs(s)' => Runs(s)
    BY <1>2, <2>1 DEF TakeUpdate, Runs, TypeOK
  <2>2. CASE \E t \in Servers : TakeUpdate(t)
    BY <2>1, <2>2
  <2>3. CASE ~ \E t \in Servers : TakeUpdate(t)
    <3>1. listener' = listener
      BY <2>3 DEF LogIn, SendSearchMessage, Leave, JoinRoom, RequestRoom, TaskEnds, Forward,
                  vars, centralVars
    <3> QED BY <3>1 DEF Runs
  <2> QED BY <2>2, <2>3
<1> QED BY <1>1, <1>3, ViewFrame

\* A gameserver whose listener has ended is out of the property, and is removed from
\* the list later.
LEMMA ViewLost ==
  ASSUME ViewInv, TypeOK', NEW s \in Servers, EndListener(s) \/ RemoveServer(s)
  PROVE  LeavesAreKnown' /\ ViewFollowsRooms'
<1>1. left' = left /\ members' = members /\ updates' = updates
  BY DEF EndListener, RemoveServer, serverVars
<1>2. TypeOK
  BY DEF ViewInv, TypeInv
<1>3. /\ toCentral'[s] = toCentral[s] \/ toCentral'[s] = <<>>
      /\ listener'[s] \in {"removes", "gone"}
  BY <1>2 DEF TypeOK, EndListener, RemoveServer
<1>4. \A t \in Servers : t # s => /\ listener'[t] = listener[t] /\ listed'[t] = listed[t]
                                  /\ seen'[t] = seen[t] /\ toCentral'[t] = toCentral[t]
  BY <1>2 DEF TypeOK, EndListener, RemoveServer
<1>5. \A t \in Servers, r \in RoomIds :
        Has(toCentral'[t], LeavesOf(r)) => Has(toCentral[t], LeavesOf(r))
  BY <1>3, <1>4, HasEmpty
<1>6. \A t \in Servers : Runs(t)' => t # s /\ Runs(t)
  BY <1>3, <1>4 DEF Runs
<1> QED BY <1>1, <1>4, <1>5, <1>6, ViewFrame

\* Answers are not updates.
LEMMA ViewAndAnswers ==
  ASSUME ViewInv, TypeOK', NEW s \in Servers, ReceiveTokenResponse(s) \/ HandleTokenRequest(s)
  PROVE  LeavesAreKnown' /\ ViewFollowsRooms'
<1>1. /\ left' = left /\ members' = members /\ updates' = updates /\ listener' = listener
      /\ listed' = listed /\ seen' = seen
  BY DEF ReceiveTokenResponse, HandleTokenRequest, serverVars, centralVars
<1>2. TypeOK
  BY DEF ViewInv, TypeInv
<1>3. /\ toCentral \in [Servers -> Seq(Message)] /\ toCentral[s] \in Seq(Message)
      /\ toServer[s] \in Seq(Request) /\ waiting[s] \in Clients \cup {NoClient}
  BY <1>2 DEF TypeOK
<1>4. \A t \in Servers : t # s => toCentral'[t] = toCentral[t]
  BY <1>3 DEF ReceiveTokenResponse, HandleTokenRequest, PairUp
<1>5. \A T : (\A m \in Message : m.kind = "token" => m \notin T) =>
        (Has(toCentral'[s], T) <=> Has(toCentral[s], T))
  <2> TAKE T
  <2> HAVE \A m \in Message : m.kind = "token" => m \notin T
  <2>1. \A c, r : \A q \in Seq(Message) : TokenTo(c, r) \in Message =>
          (Has(Append(q, TokenTo(c, r)), T) <=> Has(q, T))
    <3>1. \A c, r : TokenTo(c, r).kind = "token"
      BY DEF TokenTo
    <3> QED BY <3>1, HasAppend
  <2>2. \A c \in Clients, r \in RoomIds : TokenTo(c, r) \in Message
    BY DEF TokenTo, Message
  <2>3. CASE ReceiveTokenResponse(s)
    <3>1. /\ toCentral[s] # <<>> /\ Head(toCentral[s]).kind = "token"
          /\ toCentral'[s] = Tail(toCentral[s])
      BY <1>3, <2>3 DEF ReceiveTokenResponse
    <3>2. Head(toCentral[s]) \notin T
      BY <1>3, <3>1, Queue
    <3> QED BY <1>3, <3>1, <3>2, HasTail
  <2>4. CASE HandleTokenRequest(s)
    <3>1. toServer[s] # <<>>
      BY <2>4 DEF HandleTokenRequest
    <3>2. PICK request \in Request : request = Head(toServer[s])
      BY <1>3, <3>1, Queue
    <3>3. PICK c \in Clients : c = request.client
      BY DEF Request
    <3>4. CASE toCentral' = toCentral
      BY <3>4
    <3>5. ASSUME NEW r \in RoomIds,
                 toCentral' = [toCentral EXCEPT ![s] = @ \o Answers(s, <<c>>, r)]
          PROVE  Has(toCentral'[s], T) <=> Has(toCentral[s], T)
      <4>1. <<c>> \in Seq(Clients) /\ Len(<<c>>) = 1 /\ <<c>>[1] = c
        OBVIOUS
      <4>2. PICK one \in Seq(Clients) : one = <<c>> /\ Len(one) = 1 /\ one[1] = c
        BY <4>1
      <4>3. toCentral[s] \o Answers(s, one, r) = Append(toCentral[s], TokenTo(one[1], r))
        BY <1>3, <4>2, AnswerOfOne
      <4>4. toCentral'[s] = Append(toCentral[s], TokenTo(c, r))
        BY <1>3, <3>5, <4>2, <4>3
      <4> QED BY <1>3, <2>1, <2>2, <4>4
    <3>6. ASSUME NEW r \in RoomIds, NEW w \in Clients,
                 toCentral' = [toCentral EXCEPT ![s] = @ \o Answers(s, <<c, w>>, r)]
          PROVE  Has(toCentral'[s], T) <=> Has(toCentral[s], T)
      <4>1. PICK two \in Seq(Clients) : two = <<c, w>> /\ Len(two) = 2 /\ two[1] = c /\ two[2] = w
        <5>1. Len(<<c, w>>) = 2 /\ <<c, w>>[1] = c /\ <<c, w>>[2] = w
          OBVIOUS
        <5> WITNESS <<c, w>> \in Seq(Clients)
        <5> QED BY <5>1
      <4>2. toCentral'[s] = toCentral[s] \o Answers(s, two, r)
        BY <1>3, <3>6, <4>1
      <4>3. PICK q \in Seq(Message) :
              /\ q = Append(toCentral[s], TokenTo(two[1], r))
              /\ toCentral[s] \o Answers(s, two, r) = Append(q, TokenTo(two[2], r))
        <5>1. toCentral[s] \in Seq(Message) /\ Len(two) = 2
          BY <1>3, <4>1
        <5> QED BY <5>1, AnswersOfTwo
      <4>4. Has(q, T) <=> Has(toCentral[s], T)
        BY <1>3, <2>1, <2>2, <4>1, <4>3
      <4>5. Has(toCentral'[s], T) <=> Has(q, T)
        <5>1. toCentral'[s] = Append(q, TokenTo(w, r))
          BY <4>1, <4>2, <4>3
        <5> QED BY <2>1, <2>2, <5>1
      <4> QED BY <4>4, <4>5
    <3>7. \/ toCentral' = toCentral
          \/ /\ request.room # NoRoom
             /\ toCentral' = [toCentral EXCEPT ![s] = @ \o Answers(s, <<c>>, request.room)]
          \/ /\ waiting[s] # NoClient
             /\ \E r \in RoomIds :
                  toCentral' = [toCentral EXCEPT ![s] = @ \o Answers(s, <<c, waiting[s]>>, r)]
      BY <2>4, <3>2, <3>3 DEF HandleTokenRequest, PairUp
    <3>8. request.room \in RoomIds \cup {NoRoom}
      BY DEF Request
    <3> QED BY <1>3, <3>4, <3>5, <3>6, <3>7, <3>8
  <2> QED BY <2>3, <2>4
<1>6. \A r \in RoomIds : Has(toCentral'[s], LeavesOf(r)) <=> Has(toCentral[s], LeavesOf(r))
  <2> TAKE r \in RoomIds
  <2>1. \A m \in Message : m.kind = "token" => m \notin LeavesOf(r)
    BY DEF LeavesOf
  <2> QED BY <1>5, <2>1
<1>7. \A c \in Clients, r \in RoomIds :
        Has(toCentral'[s], UpdatesOf(c, r)) <=> Has(toCentral[s], UpdatesOf(c, r))
  <2> TAKE c \in Clients, r \in RoomIds
  <2>1. \A m \in Message : m.kind = "token" => m \notin UpdatesOf(c, r)
    BY DEF UpdatesOf
  <2> QED BY <1>5, <2>1
<1>8. \A t \in Servers, r \in RoomIds :
        Has(toCentral'[t], LeavesOf(r)) => Has(toCentral[t], LeavesOf(r))
  BY <1>4, <1>6
<1>9. \A t \in Servers : \A c \in Clients, r \in RoomIds :
        Has(toCentral'[t], UpdatesOf(c, r)) <=> Has(toCentral[t], UpdatesOf(c, r))
  BY <1>4, <1>7
<1>10. \A t \in Servers : Runs(t)' => Runs(t)
  BY <1>1 DEF Runs
<1> QED BY <1>1, <1>8, <1>9, <1>10, ViewFrame

\* An update handed on is under way as before.
LEMMA ViewForwarded ==
  ASSUME ViewInv, TypeOK', NEW s \in Servers, ForwardUpdate(s)
  PROVE  LeavesAreKnown' /\ ViewFollowsRooms'
<1>1. left' = left /\ members' = members /\ listener' = listener /\ listed' = listed /\ seen' = seen
  BY DEF ForwardUpdate, centralVars
<1>2. TypeOK /\ LeavesAreKnown
  BY DEF ViewInv, TypeInv
<1>3. /\ toCentral \in [Servers -> Seq(Message)] /\ updates \in [Servers -> Seq(Update)]
      /\ updates[s] \in Seq(Update) /\ updates[s] # <<>> /\ toCentral[s] \in Seq(Message)
  BY <1>2 DEF TypeOK, ForwardUpdate
<1>4. PICK u \in Update : u = Head(updates[s])
  BY <1>3, Queue
<1>5. u \in Message
  BY UpdatesAreMessages
<1>6. toCentral'[s] = Append(toCentral[s], u) /\ updates'[s] = Tail(updates[s])
  BY <1>3, <1>4 DEF ForwardUpdate
<1>7. \A t \in Servers : t # s => toCentral'[t] = toCentral[t] /\ updates'[t] = updates[t]
  BY <1>3 DEF ForwardUpdate
<1>8. \A T : /\ Has(toCentral'[s], T) <=> Has(toCentral[s], T) \/ u \in T
             /\ Has(updates[s], T) <=> u \in T \/ Has(updates'[s], T)
  BY <1>3, <1>4, <1>5, <1>6, HasAppend, HasTail
<1>9. \A T : \A t \in Servers : Has(toCentral'[t], T) \/ Has(updates'[t], T)
                              <=> Has(toCentral[t], T) \/ Has(updates[t], T)
  BY <1>7, <1>8
<1>10. LeavesAreKnown'
  BY <1>1, <1>2, <1>9 DEF LeavesAreKnown
<1>11. \A t \in Servers : Runs(t) => \A r \in RoomIds \ left[t] : ViewAt(t, r)
  BY <1>2, ViewByRoom DEF ViewInv
<1>12. \A t \in Servers : Runs(t)' => \A r \in RoomIds \ left'[t] : ViewAt(t, r)'
  BY <1>1, <1>9, <1>11 DEF ViewAt, Runs
<1>13. ViewFollowsRooms'
  BY <1>12, ViewByRoomNext
<1> QED BY <1>10, <1>13

\* The matchmaking server takes an update in: who joins is listed, and a room that
\* somebody leaves is one that the list has nothing to say about any more.
LEMMA ViewReceived ==
  ASSUME ViewInv, TypeOK', NEW s \in Servers, ReceiveClientUpdate(s)
  PROVE  LeavesAreKnown' /\ ViewFollowsRooms'
<1>1. left' = left /\ members' = members /\ updates' = updates
  BY DEF ReceiveClientUpdate, serverVars
<1>2. TypeOK /\ LockedHasUpdate /\ LeavesAreKnown
  BY DEF ViewInv, TypeInv
<1>3. /\ toCentral \in [Servers -> Seq(Message)] /\ toCentral[s] \in Seq(Message)
      /\ toCentral[s] # <<>> /\ listed \in [Servers -> SUBSET RoomIds]
      /\ seen \in [Servers -> [RoomIds -> SUBSET Clients]]
  BY <1>2 DEF TypeOK, ReceiveClientUpdate, LockedHasUpdate
<1>4. PICK m \in Message : m = Head(toCentral[s])
  BY <1>3, Queue
<1>5. m.client \in Clients /\ m.room \in RoomIds /\ m.kind \in {"token", "join", "leave"}
  BY DEF Message
<1>6. m.kind # "token" /\ toCentral'[s] = Tail(toCentral[s])
  BY <1>2, <1>3, <1>4 DEF ReceiveClientUpdate, LockedHasUpdate
<1>7. \A t \in Servers : t # s =>
        /\ toCentral'[t] = toCentral[t] /\ listed'[t] = listed[t] /\ seen'[t] = seen[t]
        /\ listener'[t] = listener[t]
  BY <1>2, <1>3 DEF ReceiveClientUpdate, TypeOK
<1>8. \A T : Has(toCentral[s], T) <=> m \in T \/ Has(toCentral'[s], T)
  BY <1>3, <1>4, <1>6, HasTail
<1>9. LeavesAreKnown'
  <2>1. \A t \in Servers : \A T : Has(toCentral'[t], T) => Has(toCentral[t], T)
    BY <1>7, <1>8
  <2> QED BY <1>1, <1>2, <2>1 DEF LeavesAreKnown
<1>10. /\ \A t \in Servers : Runs(t) => \A r \in RoomIds \ left[t] : ViewAt(t, r)
       /\ Runs(s)
  BY <1>2, ViewByRoom DEF ViewInv, ReceiveClientUpdate, Runs
<1>11. ASSUME NEW r \in RoomIds \ left[s] PROVE ViewAt(s, r)'
  <2>1. ViewAt(s, r)
    BY <1>10, <1>11
  <2>2. \A c \in Clients : m \in UpdatesOf(c, r) <=> c = m.client /\ r = m.room
    BY <1>6 DEF UpdatesOf
  <2>3. CASE m.kind = "join"
    <3>1. /\ listed' = [listed EXCEPT ![s] = @ \cup {m.room}]
          /\ seen' = [seen EXCEPT ![s][m.room] = @ \cup {m.client}]
      BY <1>4, <2>3 DEF ReceiveClientUpdate
    <3>2. CASE r = m.room
      <4>1. r \in listed'[s] /\ seen'[s][r] = seen[s][r] \cup {m.client}
        BY <1>3, <1>5, <3>1, <3>2
      <4> QED BY <1>1, <1>5, <1>8, <2>1, <2>2, <3>2, <4>1 DEF ViewAt
    <3>3. CASE r # m.room
      <4>1. (r \in listed'[s] <=> r \in listed[s]) /\ seen'[s][r] = seen[s][r]
        BY <1>3, <1>5, <3>1, <3>3
      <4> QED BY <1>1, <1>8, <2>1, <2>2, <3>3, <4>1 DEF ViewAt
    <3> QED BY <3>2, <3>3
  <2>4. CASE m.kind = "leave"
    <3>1. r # m.room
      <4>1. ~Has(toCentral[s], LeavesOf(r))
        BY <1>2 DEF LeavesAreKnown
      <4>2. m \notin LeavesOf(r)
        BY <1>8, <4>1
      <4> QED BY <2>4, <4>2 DEF LeavesOf
    <3>2. /\ listed' = [listed EXCEPT ![s] = @ \ {m.room}]
          /\ seen' = [seen EXCEPT ![s][m.room] = {}]
      BY <1>4, <2>4 DEF ReceiveClientUpdate
    <3>3. (r \in listed'[s] <=> r \in listed[s]) /\ seen'[s][r] = seen[s][r]
      BY <1>3, <1>5, <3>1, <3>2
    <3> QED BY <1>1, <1>8, <2>1, <2>2, <3>1, <3>3 DEF ViewAt
  <2> QED BY <1>5, <1>6, <2>3, <2>4
<1>12. ASSUME NEW t \in Servers, NEW r \in RoomIds \ left'[t], Runs(t)' PROVE ViewAt(t, r)'
  <2>1. r \in RoomIds \ left[t]
    BY <1>1
  <2>2. CASE t = s
    BY <1>11, <2>1, <2>2
  <2>3. CASE t # s
    <3>1. ViewAt(t, r)
      BY <1>7, <1>10, <1>12, <2>1, <2>3 DEF Runs
    <3> QED BY <1>1, <1>7, <2>3, <3>1 DEF ViewAt
  <2> QED BY <2>2, <2>3
<1>13. ViewFollowsRooms'
  BY <1>12, ViewByRoomNext
<1> QED BY <1>9, <1>13

\* Who joins a room or leaves it is under way at once.
LEMMA ViewAndRooms ==
  ASSUME ViewInv, TypeOK', NEW s \in Servers, NEW r \in RoomIds, NEW c \in Clients,
         RoomJoin(s, r, c) \/ RoomLeave(s, r, c)
  PROVE  LeavesAreKnown' /\ ViewFollowsRooms'
<1>1. listener' = listener /\ listed' = listed /\ seen' = seen /\ toCentral' = toCentral
  BY DEF RoomJoin, RoomLeave, centralVars
<1>2. TypeOK /\ LeavesAreKnown
  BY DEF ViewInv, TypeInv
<1>3. /\ updates \in [Servers -> Seq(Update)] /\ updates[s] \in Seq(Update)
      /\ left \in [Servers -> SUBSET RoomIds]
      /\ members \in [Servers -> [RoomIds -> SUBSET Clients]]
  BY <1>2 DEF TypeOK
<1>4. \A t \in Servers : Runs(t) => \A x \in RoomIds \ left[t] : ViewAt(t, x)
  BY <1>2, ViewByRoom DEF ViewInv
<1>5. PICK u \in Update :
        /\ updates' = [updates EXCEPT ![s] = Append(@, u)] /\ u.client = c /\ u.room = r
        /\ \/ /\ u.kind = "join" /\ left' = left
              /\ members' = [members EXCEPT ![s][r] = @ \cup {c}]
           \/ /\ u.kind = "leave" /\ left' = [left EXCEPT ![s] = @ \cup {r}]
              /\ members' = [members EXCEPT ![s][r] = @ \ {c}]
  <2>1. CASE RoomJoin(s, r, c)
    <3>1. PICK u \in Update : u = [kind |-> "join", client |-> c, room |-> r]
      BY DEF Update
    <3> QED BY <2>1, <3>1 DEF RoomJoin
  <2>2. CASE RoomLeave(s, r, c)
    <3>1. PICK u \in Update : u = [kind |-> "leave", client |-> c, room |-> r]
      BY DEF Update
    <3> QED BY <2>2, <3>1 DEF RoomLeave
  <2> QED BY <2>1, <2>2
<1>6. \A t \in Servers : t # s => /\ updates'[t] = updates[t] /\ members'[t] = members[t]
                                  /\ left'[t] = left[t]
  BY <1>3, <1>5
<1>7. \A x \in RoomIds : x # r => /\ members'[s][x] = members[s][x]
                                  /\ x \in left'[s] <=> x \in left[s]
  BY <1>3, <1>5
<1>8. updates'[s] = Append(updates[s], u)
  BY <1>3, <1>5
<1>9. \A T : Has(updates'[s], T) <=> Has(updates[s], T) \/ u \in T
  BY <1>3, <1>8, HasAppend
<1>10. u \in Message
  BY UpdatesAreMessages
<1>11. u.kind = "leave" => r \in left'[s]
  BY <1>3, <1>5
<1>12. left[s] \subseteq left'[s]
  BY <1>3, <1>5
<1>13. LeavesAreKnown'
  <2>1. \A x \in RoomIds \ left'[s] : u \notin LeavesOf(x)
    BY <1>5, <1>11 DEF LeavesOf
  <2>2. \A x \in RoomIds \ left'[s] :
          ~Has(toCentral'[s], LeavesOf(x)) /\ ~Has(updates'[s], LeavesOf(x))
    BY <1>1, <1>2, <1>9, <1>12, <2>1 DEF LeavesAreKnown
  <2>3. \A t \in Servers : t # s => \A x \in RoomIds \ left'[t] :
          ~Has(toCentral'[t], LeavesOf(x)) /\ ~Has(updates'[t], LeavesOf(x))
    BY <1>1, <1>2, <1>6 DEF LeavesAreKnown
  <2> QED BY <2>2, <2>3 DEF LeavesAreKnown
<1>14. ASSUME NEW x \in RoomIds \ left'[s], Runs(s) PROVE ViewAt(s, x)'
  <2>1. x \in RoomIds \ left[s] /\ ViewAt(s, x)
    BY <1>4, <1>12, <1>14
  <2>2. \A d \in Clients : u \in UpdatesOf(d, x) <=> u.kind # "token" /\ d = c /\ x = r
    BY <1>5, <1>10 DEF UpdatesOf
  <2>3. CASE x # r
    BY <1>1, <1>7, <1>9, <2>1, <2>2, <2>3 DEF ViewAt
  <2>4. CASE x = r
    <3>1. u.kind = "join" /\ members'[s][r] = members[s][r] \cup {c}
      BY <1>3, <1>5, <1>11, <1>14, <2>4
    <3> QED BY <1>1, <1>9, <2>1, <2>2, <2>4, <3>1 DEF ViewAt
  <2> QED BY <2>3, <2>4
<1>15. ASSUME NEW t \in Servers, NEW x \in RoomIds \ left'[t], Runs(t)' PROVE ViewAt(t, x)'
  <2>1. Runs(t)
    BY <1>1, <1>15 DEF Runs
  <2>2. CASE t = s
    BY <1>14, <2>1, <2>2
  <2>3. CASE t # s
    BY <1>1, <1>4, <1>6, <2>1, <2>3 DEF ViewAt
  <2> QED BY <2>2, <2>3
<1>16. ViewFollowsRooms'
  BY <1>15, ViewByRoomNext
<1> QED BY <1>13, <1>16

\* Every step keeps the invariant.
LEMMA ViewStep == ViewInv /\ [Next]_vars => ViewInv'
<1> SUFFICES ASSUME ViewInv, [Next]_vars PROVE ViewInv'
  OBVIOUS
<1>1. TypeInv' /\ TypeOK'
  BY TypeInvStep DEF ViewInv, TypeInv
<1>2. LeavesAreKnown' /\ ViewFollowsRooms'
  BY <1>1, ViewElsewhere, ViewLost, ViewAndAnswers, ViewForwarded, ViewReceived, ViewAndRooms DEF Next
<1> QED BY <1>1, <1>2 DEF ViewInv

\* With the updates under way, the list of the matchmaking server has the members of
\* every room that nobody has left, whatever the rooms, their members and the order in
\* which the two servers take their messages, as long as the gameserver's listener has
\* not ended.
THEOREM TheViewFollowsRooms == Spec => []ViewFollowsRooms
<1>1. ViewInv => ViewFollowsRooms
  BY DEF ViewInv
<1> QED BY <1>1, ViewInit, ViewStep, PTL DEF Spec
================================================================================
