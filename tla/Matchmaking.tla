------------------------------- MODULE Matchmaking -------------------------------
(***************************************************************************)
(* Worldwide matchmaking: the console that searches                        *)
(* (OnlineConnectionManagerPage, RandomMatchingPage), the matchmaking      *)
(* server (Server::request_room and its two listeners) and the gameservers *)
(* (central_listener and handle_client), with the messages between them.   *)
(*                                                                         *)
(* The room of a gameserver is reduced to who is queued at it and who is   *)
(* in it; module Room has the rest.  Room ids are random in the code; here *)
(* an id is not used again.                                                *)
(***************************************************************************)
EXTENDS Naturals, Sequences, FiniteSets

CONSTANTS
  Clients,      \* ClientIds of players who are logged in
  Servers,      \* gameservers
  RoomIds,
  RoomSize,     \* clients of a room that is not full, 12
  Losses,       \* gameservers whose connection may be lost
  Shards,       \* of the DashMap Server::gameservers, the keys of each
  MaxSearches,  \* bound: searches of a client
  NoClient, NoRoom, NoServer

ASSUME MatchmakingAssumption ==
  /\ RoomSize \in Nat \ {0} /\ MaxSearches \in Nat
  /\ Losses \subseteq Servers /\ UNION Shards = Servers
  /\ NoClient \notin Clients /\ NoRoom \notin RoomIds /\ NoServer \notin Servers

VARIABLES
  console,    \* OnlineConnectionManagerPage::m_state, or "room" once the
              \* console has gone on to the room, or "away"
  searches,   \* searches a console has begun
  search,     \* the StartMatchmaking on its way: "none", "race" or "battle"
  token,      \* the login_info the console holds: server and room
  task,       \* the task of client_listener: "none", "reads" or "awaits"
  asked,      \* the gameserver a task awaits the answer of
  listener,   \* gameserver_listener: it "listens", or "locks" the gameserver for an
              \* update, or has ended and "removes" it; "gone" when that is done
  listed,     \* keys of Gameserver::rooms
  seen,       \* Room::clients of the rooms listed
  channel,    \* Gameserver::sender, requests the listener has not taken yet
  toServer,   \* messages to a gameserver
  toCentral,  \* messages from a gameserver
  waiting,    \* waiting_client of central_listener
  rooms,      \* keys of the gameserver's map of rooms
  made,       \* rooms spawned so far
  queued,     \* connections a room has been sent
  members,    \* clients of a room
  updates,    \* ws_recv: updates of the rooms
  left        \* rooms somebody has left

consoleVars == <<console, searches, search, token>>
centralVars == <<task, asked, listener, listed, seen, channel>>
serverVars == <<waiting, rooms, made, queued, members, updates, left>>
vars == <<consoleVars, centralVars, toServer, toCentral, serverVars>>

Request == [client : Clients, room : RoomIds \cup {NoRoom}]
Message == [kind : {"token", "join", "leave"}, client : Clients, room : RoomIds]
Update == [kind : {"join", "leave"}, client : Clients, room : RoomIds]

Init ==
  /\ console = [c \in Clients |-> "away"] /\ searches = [c \in Clients |-> 0]
  /\ search = [c \in Clients |-> "none"]
  /\ token = [c \in Clients |-> <<NoServer, NoRoom>>]
  /\ task = [c \in Clients |-> "none"] /\ asked = [c \in Clients |-> NoServer]
  /\ listener = [s \in Servers |-> "listens"] /\ listed = [s \in Servers |-> {}]
  /\ seen = [s \in Servers |-> [r \in RoomIds |-> {}]]
  /\ channel = [s \in Servers |-> <<>>]
  /\ toServer = [s \in Servers |-> <<>>] /\ toCentral = [s \in Servers |-> <<>>]
  /\ waiting = [s \in Servers |-> NoClient]
  /\ rooms = [s \in Servers |-> {}] /\ made = [s \in Servers |-> {}]
  /\ queued = [s \in Servers |-> [r \in RoomIds |-> {}]]
  /\ members = [s \in Servers |-> [r \in RoomIds |-> {}]]
  /\ updates = [s \in Servers |-> <<>>]
  /\ left = [s \in Servers |-> {}]
-------------------------------------------------------------------------------
\* The console.

\* startLogin to setupRatings, and handle_login_flow; a client that still is in
\* logged_in_clients, because its last task has not ended, is refused.
LogIn(c) ==
  /\ console[c] = "away" /\ task[c] = "none"
  /\ console' = [console EXCEPT ![c] = "WaitForSearchStart"]
  /\ task' = [task EXCEPT ![c] = "reads"]
  /\ UNCHANGED <<searches, search, token, asked, listener, listed, seen, channel,
                 toServer, toCentral, serverVars>>

SendSearchMessage(c) ==
  /\ console[c] = "WaitForSearchStart" /\ searches[c] < MaxSearches
  /\ console' = [console EXCEPT ![c] = "WaitForSearchResponse"]
  /\ searches' = [searches EXCEPT ![c] = @ + 1]
  /\ \E mode \in {"race", "battle"} : search' = [search EXCEPT ![c] = mode]
  /\ UNCHANGED <<token, centralVars, toServer, toCentral, serverVars>>

\* The console is switched off, loses its connection, or leaves the section.
Leave(c) ==
  /\ console[c] # "away"
  /\ console' = [console EXCEPT ![c] = "away"]
  /\ UNCHANGED <<searches, search, token, centralVars, toServer, toCentral, serverVars>>

\* RoomClient joins with its token, and handle_client looks the room up.
JoinRoom(c) ==
  LET s == token[c][1]
      r == token[c][2] IN
  /\ console[c] = "FoundMatch"
  /\ IF r \in rooms[s]
       THEN /\ queued' = [queued EXCEPT ![s][r] = @ \cup {c}]
            /\ console' = [console EXCEPT ![c] = "room"]
       ELSE /\ console' = [console EXCEPT ![c] = "away"]
            /\ UNCHANGED queued
  /\ UNCHANGED <<searches, search, token, centralVars, toServer, toCentral,
                 waiting, rooms, made, members, updates, left>>
-------------------------------------------------------------------------------
\* The matchmaking server.

\* The keys of Server::gameservers.
online == {s \in Servers : listener[s] # "gone"}

\* The websocket and the receiver are there as long as the listener has not ended.
Runs(s) == listener[s] \in {"listens", "locks"}

\* A task that awaits an answer holds the Ref of its gameserver all the while, and
\* with it the lock of the shard, for reading.  Others may read too, even past one who
\* waits to write.
Locked(s) == \E c \in Clients, shard \in Shards : s \in shard /\ asked[c] \in shard

\* No room is ever marked as one for battles.
Joinable(mode) ==
  {p \in online \X RoomIds :
     /\ p[2] \in listed[p[1]] /\ mode # "battle"
     /\ Cardinality(seen[p[1]][p[2]]) < RoomSize}

\* Of the rooms, one with the most members.
Fullest(mode) ==
  {p \in Joinable(mode) : \A q \in Joinable(mode) :
     Cardinality(seen[p[1]][p[2]]) >= Cardinality(seen[q[1]][q[2]])}

\* Of the gameservers, one that no other has more rooms than.
Busiest == {s \in online : \A t \in online : Cardinality(listed[s]) >= Cardinality(listed[t])}

Choices(mode) ==
  IF Joinable(mode) # {} THEN Fullest(mode) ELSE Busiest \X {NoRoom}

\* Without a gameserver, or with one whose listener has ended, the task ends with an
\* error, and with it the connection.
RequestRoom(c) ==
  /\ task[c] = "reads" /\ search[c] # "none"
  /\ search' = [search EXCEPT ![c] = "none"]
  /\ \/ \E choice \in Choices(search[c]) :
          /\ Runs(choice[1])
          /\ asked' = [asked EXCEPT ![c] = choice[1]]
          /\ channel' = [channel EXCEPT ![choice[1]] =
                           Append(@, [client |-> c, room |-> choice[2]])]
          /\ task' = [task EXCEPT ![c] = "awaits"]
          /\ UNCHANGED console
     \/ /\ online = {} \/ \E choice \in Choices(search[c]) : ~Runs(choice[1])
        /\ task' = [task EXCEPT ![c] = "none"]
        /\ console' = [console EXCEPT ![c] =
                         IF @ = "WaitForSearchResponse" THEN "away" ELSE @]
        /\ UNCHANGED <<asked, channel>>
  /\ UNCHANGED <<searches, token, listener, listed, seen, toServer, toCentral, serverVars>>

\* A task notices that its console is gone only when it reads.
TaskEnds(c) ==
  /\ task[c] = "reads" /\ search[c] = "none" /\ console[c] \in {"away", "room"}
  /\ task' = [task EXCEPT ![c] = "none"]
  /\ UNCHANGED <<consoleVars, asked, listener, listed, seen, channel, toServer, toCentral, serverVars>>

\* Nobody waits any more for an answer that comes a second time.
Answered(s, c, r) ==
  IF task[c] = "awaits"
    THEN /\ task' = [task EXCEPT ![c] = "reads"]
         /\ asked' = [asked EXCEPT ![c] = NoServer]
         /\ IF console[c] = "WaitForSearchResponse"
              THEN /\ console' = [console EXCEPT ![c] = "FoundMatch"]
                   /\ token' = [token EXCEPT ![c] = <<s, r>>]
              ELSE UNCHANGED <<console, token>>
         /\ UNCHANGED <<searches, search>>
    ELSE UNCHANGED <<consoleVars, task, asked>>

\* The listener sends on what request_room has sent it.
Forward(s) ==
  /\ listener[s] = "listens" /\ channel[s] # <<>>
  /\ toServer' = [toServer EXCEPT ![s] = Append(@, Head(channel[s]))]
  /\ channel' = [channel EXCEPT ![s] = Tail(@)]
  /\ UNCHANGED <<consoleVars, task, asked, listener, listed, seen, toCentral, serverVars>>

ReceiveTokenResponse(s) ==
  /\ listener[s] = "listens" /\ toCentral[s] # <<>> /\ Head(toCentral[s]).kind = "token"
  /\ Answered(s, Head(toCentral[s]).client, Head(toCentral[s]).room)
  /\ toCentral' = [toCentral EXCEPT ![s] = Tail(@)]
  /\ UNCHANGED <<listener, listed, seen, channel, toServer, serverVars>>

\* get_mut waits for the lock, and the listener with it.
TakeUpdate(s) ==
  /\ listener[s] = "listens" /\ toCentral[s] # <<>> /\ Head(toCentral[s]).kind # "token"
  /\ listener' = [listener EXCEPT ![s] = "locks"]
  /\ UNCHANGED <<consoleVars, task, asked, listed, seen, channel, toServer, toCentral, serverVars>>

\* Mutant of ReceiveClientUpdate: a client that joins is taken for the first.
ReceiveClientUpdateFirst(s) ==
  LET update == Head(toCentral[s]) IN
  /\ listener[s] = "locks" /\ ~Locked(s)
  /\ IF update.kind = "join"
       THEN /\ listed' = [listed EXCEPT ![s] = @ \cup {update.room}]
            /\ seen' = [seen EXCEPT ![s][update.room] = {update.client}]
       ELSE /\ listed' = [listed EXCEPT ![s] = @ \ {update.room}]
            /\ seen' = [seen EXCEPT ![s][update.room] = {}]
  /\ toCentral' = [toCentral EXCEPT ![s] = Tail(@)]
  /\ listener' = [listener EXCEPT ![s] = "listens"]
  /\ UNCHANGED <<consoleVars, task, asked, channel, toServer, serverVars>>

\* Who leaves is taken for the host, and the room is removed with it.
ReceiveClientUpdate(s) ==
  LET update == Head(toCentral[s]) IN
  /\ listener[s] = "locks" /\ ~Locked(s)
  /\ IF update.kind = "join"
       THEN /\ listed' = [listed EXCEPT ![s] = @ \cup {update.room}]
            /\ seen' = [seen EXCEPT ![s][update.room] = @ \cup {update.client}]
       ELSE /\ listed' = [listed EXCEPT ![s] = @ \ {update.room}]
            /\ seen' = [seen EXCEPT ![s][update.room] = {}]
  /\ toCentral' = [toCentral EXCEPT ![s] = Tail(@)]
  /\ listener' = [listener EXCEPT ![s] = "listens"]
  /\ UNCHANGED <<consoleVars, task, asked, channel, toServer, serverVars>>

\* The websocket ends, and what was under way is lost with it and with the receiver.
\* The tasks that await an answer go on waiting.
EndListener(s) ==
  /\ s \in Losses /\ listener[s] = "listens"
  /\ listener' = [listener EXCEPT ![s] = "removes"]
  /\ channel' = [channel EXCEPT ![s] = <<>>]
  /\ toServer' = [toServer EXCEPT ![s] = <<>>]
  /\ toCentral' = [toCentral EXCEPT ![s] = <<>>]
  /\ UNCHANGED <<consoleVars, task, asked, listed, seen, serverVars>>

\* Then the gameserver is removed, if nobody awaits it.
RemoveServer(s) ==
  /\ listener[s] = "removes" /\ ~Locked(s)
  /\ listener' = [listener EXCEPT ![s] = "gone"]
  /\ listed' = [listed EXCEPT ![s] = {}]
  /\ seen' = [seen EXCEPT ![s] = [r \in RoomIds |-> {}]]
  /\ UNCHANGED <<consoleVars, task, asked, channel, toServer, toCentral, serverVars>>
-------------------------------------------------------------------------------
\* The gameserver.

Answers(s, clients, r) == [i \in 1..Len(clients) |->
  [kind |-> "token", client |-> clients[i], room |-> r]]

\* Mutant of PairUp: the one who waited is answered, and waits on.
PairUpKeeps(s, c, r) ==
  /\ rooms' = [rooms EXCEPT ![s] = @ \cup {r}]
  /\ made' = [made EXCEPT ![s] = @ \cup {r}]
  /\ toCentral' = [toCentral EXCEPT ![s] = @ \o Answers(s, <<c, waiting[s]>>, r)]
  /\ UNCHANGED waiting

\* A room for two, the client that asks and the one that waited.
PairUp(s, c, r) ==
  /\ rooms' = [rooms EXCEPT ![s] = @ \cup {r}]
  /\ made' = [made EXCEPT ![s] = @ \cup {r}]
  /\ toCentral' = [toCentral EXCEPT ![s] = @ \o Answers(s, <<c, waiting[s]>>, r)]
  /\ waiting' = [waiting EXCEPT ![s] = NoClient]

\* Mutant of HandleTokenRequest: the second takes the place of the first.
HandleTokenRequestReplaces(s) ==
  LET request == Head(toServer[s]) IN
  /\ toServer[s] # <<>>
  /\ toServer' = [toServer EXCEPT ![s] = Tail(@)]
  /\ IF request.room # NoRoom
       THEN /\ toCentral' = [toCentral EXCEPT ![s] =
                               @ \o Answers(s, <<request.client>>, request.room)]
            /\ UNCHANGED waiting
       ELSE /\ waiting' = [waiting EXCEPT ![s] = request.client]
            /\ UNCHANGED toCentral
  /\ UNCHANGED <<consoleVars, centralVars, rooms, made, queued, members, updates, left>>

\* Mutant of HandleTokenRequest: the first is answered although it has no room.
HandleTokenRequestEarly(s) ==
  LET request == Head(toServer[s]) IN
  /\ toServer[s] # <<>>
  /\ toServer' = [toServer EXCEPT ![s] = Tail(@)]
  /\ toCentral' = [toCentral EXCEPT ![s] = @ \o Answers(s, <<request.client>>, request.room)]
  /\ UNCHANGED <<consoleVars, centralVars, waiting, rooms, made, queued, members, updates, left>>

\* A room that is named is not looked up; the first of two who need a new one
\* waits for the second.
HandleTokenRequest(s) ==
  LET request == Head(toServer[s]) IN
  /\ toServer[s] # <<>>
  /\ toServer' = [toServer EXCEPT ![s] = Tail(@)]
  /\ \/ /\ request.room # NoRoom
        /\ toCentral' = [toCentral EXCEPT ![s] =
                           @ \o Answers(s, <<request.client>>, request.room)]
        /\ UNCHANGED <<waiting, rooms, made>>
     \/ /\ request.room = NoRoom /\ waiting[s] = NoClient
        /\ waiting' = [waiting EXCEPT ![s] = request.client]
        /\ UNCHANGED <<toCentral, rooms, made>>
     \/ /\ request.room = NoRoom /\ waiting[s] # NoClient
        /\ \E r \in RoomIds \ made[s] : PairUp(s, request.client, r)
  /\ UNCHANGED <<consoleVars, centralVars, queued, members, updates, left>>

ForwardUpdate(s) ==
  /\ Runs(s) /\ updates[s] # <<>>
  /\ toCentral' = [toCentral EXCEPT ![s] = Append(@, Head(updates[s]))]
  /\ rooms' = [rooms EXCEPT ![s] =
                 IF Head(updates[s]).kind = "leave" THEN @ \ {Head(updates[s]).room} ELSE @]
  /\ updates' = [updates EXCEPT ![s] = Tail(@)]
  /\ UNCHANGED <<consoleVars, centralVars, toServer, waiting, made, queued, members, left>>

\* A room starts with its second client, and from then on takes neither
\* connections nor disconnections.
Open(s, r) == Cardinality(members[s][r]) < 2

RoomJoin(s, r, c) ==
  /\ Open(s, r) /\ c \in queued[s][r]
  /\ queued' = [queued EXCEPT ![s][r] = @ \ {c}]
  /\ members' = [members EXCEPT ![s][r] = @ \cup {c}]
  /\ updates' = [updates EXCEPT ![s] =
                   Append(@, [kind |-> "join", client |-> c, room |-> r])]
  /\ UNCHANGED <<consoleVars, centralVars, toServer, toCentral, waiting, rooms, made, left>>

RoomLeave(s, r, c) ==
  /\ Open(s, r) /\ c \in members[s][r]
  /\ console[c] # "room" \/ token[c] # <<s, r>>
  /\ members' = [members EXCEPT ![s][r] = @ \ {c}]
  /\ updates' = [updates EXCEPT ![s] =
                   Append(@, [kind |-> "leave", client |-> c, room |-> r])]
  /\ left' = [left EXCEPT ![s] = @ \cup {r}]
  /\ UNCHANGED <<consoleVars, centralVars, toServer, toCentral, waiting, rooms, made, queued>>

Next ==
  \/ \E c \in Clients : \/ LogIn(c) \/ SendSearchMessage(c) \/ Leave(c) \/ JoinRoom(c)
                        \/ RequestRoom(c) \/ TaskEnds(c)
  \/ \E s \in Servers : \/ Forward(s) \/ ReceiveTokenResponse(s) \/ TakeUpdate(s)
                        \/ ReceiveClientUpdate(s) \/ EndListener(s) \/ RemoveServer(s)
                        \/ HandleTokenRequest(s) \/ ForwardUpdate(s)
                        \/ \E r \in RoomIds, c \in Clients : RoomJoin(s, r, c) \/ RoomLeave(s, r, c)

\* The tasks of both servers are scheduled; nobody has to log in, search or stay.
Spec ==
  /\ Init /\ [][Next]_vars
  /\ \A s \in Servers : /\ WF_vars(Forward(s))
                        /\ WF_vars(ReceiveTokenResponse(s) \/ TakeUpdate(s))
                        /\ WF_vars(HandleTokenRequest(s))
-------------------------------------------------------------------------------
TypeOK ==
  /\ console \in [Clients -> {"away", "WaitForSearchStart", "WaitForSearchResponse",
                              "FoundMatch", "room"}]
  /\ searches \in [Clients -> 0..MaxSearches]
  /\ search \in [Clients -> {"none", "race", "battle"}]
  /\ token \in [Clients -> (Servers \cup {NoServer}) \X (RoomIds \cup {NoRoom})]
  /\ task \in [Clients -> {"none", "reads", "awaits"}]
  /\ asked \in [Clients -> Servers \cup {NoServer}]
  /\ listener \in [Servers -> {"listens", "locks", "removes", "gone"}]
  /\ listed \in [Servers -> SUBSET RoomIds]
  /\ seen \in [Servers -> [RoomIds -> SUBSET Clients]]
  /\ channel \in [Servers -> Seq(Request)]
  /\ toServer \in [Servers -> Seq(Request)]
  /\ toCentral \in [Servers -> Seq(Message)]
  /\ waiting \in [Servers -> Clients \cup {NoClient}]
  /\ rooms \in [Servers -> SUBSET RoomIds] /\ made \in [Servers -> SUBSET RoomIds]
  /\ queued \in [Servers -> [RoomIds -> SUBSET Clients]]
  /\ members \in [Servers -> [RoomIds -> SUBSET Clients]]
  /\ updates \in [Servers -> Seq(Update)]
  /\ left \in [Servers -> SUBSET RoomIds]

\* Every task that awaits a gameserver whose listener has not ended has exactly one
\* answer coming: its request is on its way, or waits for a second one, or has been
\* answered; and nobody is answered who does not await it.  The listener may be waiting
\* for the lock that such a task holds: the answer is then there, and stays there.
Requests(queue, c) == {i \in 1..Len(queue) : queue[i].client = c}
Tokens(s, c) ==
  {i \in 1..Len(toCentral[s]) : toCentral[s][i].kind = "token" /\ toCentral[s][i].client = c}

OneAnswerComes ==
  \A s \in Servers, c \in Clients : Runs(s) =>
    Cardinality(Requests(channel[s], c)) + Cardinality(Requests(toServer[s], c))
        + Cardinality(Tokens(s, c)) + (IF waiting[s] = c THEN 1 ELSE 0)
      = IF asked[c] = s THEN 1 ELSE 0

\* What the matchmaking server takes a room to be follows the room: with the
\* updates under way it lists the members of every room that nobody has left.
Names(messages, c, r) == \E i \in 1..Len(messages) :
  messages[i].kind # "token" /\ messages[i].client = c /\ messages[i].room = r

Coming(s, r) == {c \in Clients : Names(toCentral[s], c, r) \/ Names(updates[s], c, r)}

ViewFollowsRooms ==
  \A s \in Servers : Runs(s) => \A r \in RoomIds \ left[s] :
    /\ seen[s][r] \cup Coming(s, r) = members[s][r]
    /\ r \in listed[s] <=> seen[s][r] # {}

\* Nobody waits beside somebody else: of two who await the same gameserver, one is
\* answered, unless its listener ends, or takes an update of a room first.  It then
\* waits for a lock that they hold until it answers them, for good.
NobodyWaitsInPairs ==
  \A s \in Servers, c, d \in Clients : c # d =>
    (asked[c] = s /\ asked[d] = s) ~> (asked[c] # s \/ asked[d] # s \/ listener[s] # "listens")
===============================================================================
