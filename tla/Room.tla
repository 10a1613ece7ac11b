--------------------------------- MODULE Room ---------------------------------
(***************************************************************************)
(* A room of the game server (tools/gameserver/src/room.rs, with           *)
(* handle_client of main.rs, which admits the connections).                *)
(*                                                                         *)
(* The room is one tokio task.  Every connection that joined has a task of *)
(* its own, which forwards the console's requests to the room and writes   *)
(* the room's events to the console.  They share four channels: connections*)
(* (connectRx), requests (readRx) and departures (disconnectRx) come in    *)
(* bounded queues, events go out in a broadcast channel (log, with the     *)
(* position every subscriber has reached).                                 *)
(*                                                                         *)
(* A console appears here through the two directions of its TCP stream and *)
(* by closing it; RoomClient models the console, OnlineRoom composes them. *)
(***************************************************************************)
EXTENDS Naturals, Sequences, FiniteSets

CONSTANTS
  Conns,        \* the connections made to the room, one console each
  MaxClients,   \* Room::MAX_CLIENT_COUNT (32)
  MaxPlayers,   \* Room::MAX_PLAYER_COUNT (12)
  ChannelCap,   \* capacity of the bounded queues (32)
  LogCap,       \* capacity of the broadcast channel (32)
  RoomKinds,    \* which rooms there are: TRUE for those the matchmaking server opens
  Tracks, Stages, \* courses 0x00..0x1F and 0x20..0x29
  Comments,     \* message ids; the console's menu offers valid ones only
  Gamemodes,    \* the game modes a console asks for
  Kinds,        \* the types of requests the consoles of this instance send
  MaxRequests,  \* bound: requests sent after the Joins, here by all consoles together,
                \* in RoomClient by each of them
  NoConn, NoKey, NoVote

Courses == Tracks \cup Stages
Keys == 0..(MaxClients - 1)

ASSUME RoomAssumption ==
  /\ IsFiniteSet(Conns) /\ NoConn \notin Conns
  /\ MaxClients \in Nat \ {0} /\ MaxPlayers \in Nat
  /\ ChannelCap \in Nat \ {0} /\ LogCap \in Nat \ {0}
  /\ RoomKinds \subseteq BOOLEAN
  /\ Gamemodes \subseteq Nat
  /\ MaxRequests \in Nat
  /\ NoVote \notin Courses
  /\ NoKey \notin Keys

(***************************************************************************)
(* Requests and events carry what the properties distinguish.  A player is *)
(* named by the connection its Mii came with: handle_client admits exactly *)
(* one Mii per connection.                                                 *)
(***************************************************************************)
JoinRequest == [type |-> "join"]
CommentRequest(m) == [type |-> "comment", message |-> m]
StartRequest(g) == [type |-> "start", mode |-> g]
SettingsRequest == [type |-> "settings"]
TeamSelectRequest == [type |-> "teamSelect"]
\* fits: the character and the vehicle are known and of the same weight class.
VoteRequest(crs, fits) == [type |-> "vote", course |-> crs, fits |-> fits]

Requests ==
  {r \in {CommentRequest(m) : m \in Comments}
         \cup {StartRequest(g) : g \in Gamemodes}
         \cup {SettingsRequest, TeamSelectRequest}
         \cup {VoteRequest(crs, fits) : crs \in Courses, fits \in BOOLEAN} :
     r.type \in Kinds}

JoinEvent(c) == [type |-> "join", who |-> c]
SettingsEvent(c) == [type |-> "settings", of |-> c]   \* the settings in c's Join
LeaveEvent(i) == [type |-> "leave", player |-> i]
CommentEvent(i, m) == [type |-> "comment", player |-> i, message |-> m]
StartEvent(g) == [type |-> "start", mode |-> g]
PulseEvent(i) == [type |-> "selectPulse", player |-> i]
InfoEvent(votes, i) == [type |-> "selectInfo", votes |-> votes, selected |-> i]

VARIABLES
  phase,        \* "lobby", "select", "race" (handle_race runs), "panicked"
  gamemode,     \* the argument of handle_select
  settings,     \* Room.settings: the connection they came from, or NoConn
  clients,      \* the slab: per key, the connection it holds or NoConn
  vacant,       \* the slab's free list, most recently removed key first
  isHost,       \* Client.is_host, per connection
  players,      \* sequence of [key, conn, vote]
  updates,      \* matchmaking: Update messages to the listener of main.rs
  matchmaking,  \* matchmaking_state.is_some()
  registered,   \* the room is in the map handle_client looks rooms up in
  connectRx, disconnectRx, readRx,
  log,          \* everything broadcast on write_tx so far
  task,         \* per connection: where its task stands
  key,          \* per connection: the client_key its task was given
  greeting,     \* per connection: to_write, the part not yet written
  cursor,       \* per connection: how much of log its write_rx has passed
  holding,      \* per connection: the request being forwarded
  aborted,      \* per connection: its Client was dropped, its task aborted
  toServer, toClient,  \* per connection: the requests in flight, the events sent
  closed,       \* per connection: the console closed it
  sent          \* per connection: requests sent after the Join

roomVars == <<phase, gamemode, settings, clients, vacant, isHost, players,
              updates, matchmaking, registered>>
chanVars == <<connectRx, disconnectRx, readRx, log>>
taskVars == <<task, key, greeting, cursor, holding, aborted>>
wireVars == <<toServer, toClient, closed, sent>>
vars == <<roomVars, chanVars, taskVars, wireVars>>

(***************************************************************************)
(* "none"     no connection yet         "admit"   in handle_client         *)
(* "queued"   in connectRx              "greet"   writing to_write         *)
(* "loop"     in the select!            "deliver" in read_tx.send          *)
(* "leave"    stream dropped, about to send its key on disconnect_tx       *)
(* "ended"    gone                                                         *)
(***************************************************************************)
TaskStates == {"none", "admit", "queued", "greet", "loop", "deliver", "leave", "ended"}

NoRequest == [type |-> "none"]

\* Slab::vacant_entry takes the key removed last, or the first never used.
Init ==
  /\ phase = "lobby" /\ gamemode = 0 /\ settings = NoConn
  /\ clients = [k \in Keys |-> NoConn]
  /\ vacant = [n \in 1..MaxClients |-> n - 1]
  /\ isHost = [c \in Conns |-> FALSE]
  /\ players = <<>> /\ updates = <<>>
  /\ matchmaking \in RoomKinds /\ registered = TRUE
  /\ connectRx = <<>> /\ disconnectRx = <<>> /\ readRx = <<>> /\ log = <<>>
  /\ task = [c \in Conns |-> "none"]
  /\ key = [c \in Conns |-> NoKey]
  /\ greeting = [c \in Conns |-> <<>>]
  /\ cursor = [c \in Conns |-> 0]
  /\ holding = [c \in Conns |-> NoRequest]
  /\ aborted = [c \in Conns |-> FALSE]
  /\ toServer = [c \in Conns |-> <<>>]
  /\ toClient = [c \in Conns |-> <<>>]
  /\ closed = [c \in Conns |-> FALSE]
  /\ sent = [c \in Conns |-> 0]

Occupied == {k \in Keys : clients[k] # NoConn}
InRoom(c) == \E k \in Keys : clients[k] = c
RoomAlive == phase # "panicked"

\* client_players: the indices of the players of a client.
ClientPlayers(k) == {i \in 1..Len(players) : players[i].key = k}
Lowest(S) == CHOOSE i \in S : \A j \in S : i <= j
\* The n-th element of a set of numbers, counted from the lowest or the highest.
NthLowest(S, n) == CHOOSE i \in S : Cardinality({j \in S : j < i}) = n - 1
NthHighest(S, n) == CHOOSE i \in S : Cardinality({j \in S : j > i}) = n - 1

\* One event per player of a client, in the order the loops send them.  Player
\* ids count from 0.
LeaveEvents(k) == LET S == ClientPlayers(k) IN
  [n \in 1..Cardinality(S) |-> LeaveEvent(NthHighest(S, n) - 1)]
PulseEvents(k) == LET S == ClientPlayers(k) IN
  [n \in 1..Cardinality(S) |-> PulseEvent(NthLowest(S, n) - 1)]

Update(c, joins) == [conn |-> c, isJoin |-> joins, isHost |-> isHost'[c]]
\* matchmaking_state.ws_conn.send, where there is a matchmaking server
Notify(c, joins) ==
  updates' = IF matchmaking THEN Append(updates, Update(c, joins)) ELSE updates

-------------------------------------------------------------------------------
(***************************************************************************)
(* handle_client: the first request must be a Join, which is passed to the *)
(* room through its connect channel.                                       *)
(***************************************************************************)
\* Mutant of Admit: the Join stays on the stream.
AdmitLeavesJoin(c) ==
  /\ task[c] = "admit"
  /\ toServer[c] # <<>> /\ Head(toServer[c]) = JoinRequest
  /\ registered /\ RoomAlive
  /\ Len(connectRx) < ChannelCap
  /\ connectRx' = Append(connectRx, c)
  /\ task' = [task EXCEPT ![c] = "queued"]
  /\ UNCHANGED <<roomVars, disconnectRx, readRx, log, key, greeting, cursor, holding,
                 aborted, wireVars>>

Admit(c) ==
  /\ task[c] = "admit"
  /\ toServer[c] # <<>> /\ Head(toServer[c]) = JoinRequest
  /\ registered /\ RoomAlive
  /\ Len(connectRx) < ChannelCap
  /\ connectRx' = Append(connectRx, c)
  /\ toServer' = [toServer EXCEPT ![c] = Tail(@)]
  /\ task' = [task EXCEPT ![c] = "queued"]
  /\ UNCHANGED <<roomVars, disconnectRx, readRx, log, key, greeting, cursor, holding,
                 aborted, toClient, closed, sent>>

AdmitFails(c) ==
  /\ task[c] = "admit"
  /\ \/ toServer[c] = <<>> /\ closed[c]
     \/ toServer[c] # <<>> /\ ~(registered /\ RoomAlive)
  /\ task' = [task EXCEPT ![c] = "ended"]
  /\ UNCHANGED <<roomVars, chanVars, key, greeting, cursor, holding, aborted, wireVars>>

\* The listener of main.rs: a room whose host left is taken out of the map.
HandleUpdate ==
  /\ updates # <<>>
  /\ LET u == Head(updates) IN
       registered' = (registered /\ ~(u.isHost /\ ~u.isJoin))
  /\ updates' = Tail(updates)
  /\ UNCHANGED <<phase, gamemode, settings, clients, vacant, isHost, players,
                 matchmaking, chanVars, taskVars, wireVars>>
-------------------------------------------------------------------------------
(***************************************************************************)
(* The room's task.  In the lobby select! takes whichever of the three     *)
(* queues has something, in handle_select only requests are taken.         *)
(***************************************************************************)
LobbyIsFull ==
  \/ Cardinality(Occupied) + 1 > MaxClients
  \/ Len(players) + 1 > MaxPlayers

LobbyConnectFails ==
  /\ phase = "lobby" /\ connectRx # <<>> /\ LobbyIsFull
  /\ connectRx' = Tail(connectRx)
  /\ task' = [task EXCEPT ![Head(connectRx)] = "ended"]
  /\ UNCHANGED <<roomVars, disconnectRx, readRx, log, key, greeting, cursor, holding,
                 aborted, wireVars>>

\* Mutant of FreeKey: the number of clients as the next key.
FreeKeyByCount == Cardinality(Occupied)
\* Slab::vacant_key
FreeKey == Head(vacant)

\* should_start, once the newcomer is among the players
StartsNow == matchmaking /\ Len(players) + 1 >= 2

\* handle_lobby_connect.  The newcomer is announced before its task subscribes,
\* and learns of the others from to_write; a matchmaking room starts at two.
LobbyConnect ==
  /\ phase = "lobby" /\ connectRx # <<>> /\ ~LobbyIsFull
  /\ LET c == Head(connectRx)
         k == FreeKey
         starts == StartsNow
         announced == Append(log, JoinEvent(c))
     IN
     /\ isHost' = [isHost EXCEPT ![c] = (settings = NoConn)]
     /\ Notify(c, TRUE)
     /\ clients' = [clients EXCEPT ![k] = c]
     /\ vacant' = Tail(vacant)
     /\ players' = Append(players, [key |-> k, conn |-> c, vote |-> NoVote])
     /\ greeting' = [greeting EXCEPT ![c] =
          [i \in 1..Len(players) |-> JoinEvent(players[i].conn)]
            \o <<SettingsEvent(IF settings = NoConn THEN c ELSE settings)>>]
     /\ log' = IF starts THEN Append(announced, StartEvent(0)) ELSE announced
     /\ cursor' = [cursor EXCEPT ![c] = Len(announced)]
     /\ key' = [key EXCEPT ![c] = k]
     /\ task' = [task EXCEPT ![c] = "greet"]
     /\ phase' = IF starts THEN "select" ELSE "lobby"
     /\ gamemode' = IF starts THEN 0 ELSE gamemode
     /\ connectRx' = Tail(connectRx)
     /\ UNCHANGED <<settings, matchmaking, registered, disconnectRx, readRx, holding,
                    aborted, wireVars>>

\* Unwinding drops the room: its queues, and every Client, aborting its task.
Panic ==
  /\ phase' = "panicked"
  /\ aborted' = [c \in Conns |-> aborted[c] \/ InRoom(c)]
  /\ task' = [c \in Conns |-> IF task[c] = "queued" THEN "ended" ELSE task[c]]
  /\ connectRx' = <<>> /\ disconnectRx' = <<>> /\ readRx' = <<>>
  /\ UNCHANGED <<gamemode, settings, clients, vacant, isHost, players, updates,
                 matchmaking, registered, log, key, greeting, cursor, holding, wireVars>>

\* The players that stay when a client's are removed, in their order.
PlayersWithout(k) == LET S == 1..Len(players) \ ClientPlayers(k) IN
  [n \in 1..Cardinality(S) |-> players[NthLowest(S, n)]]

\* handle_lobby_disconnect(k), for a key the slab holds: its players leave, its
\* Client is dropped.
RemoveClient(k) ==
  /\ log' = log \o LeaveEvents(k)
  /\ players' = PlayersWithout(k)
  /\ clients' = [clients EXCEPT ![k] = NoConn]
  /\ vacant' = <<k>> \o vacant
  /\ aborted' = [aborted EXCEPT ![clients[k]] = TRUE]
  /\ UNCHANGED isHost
  /\ Notify(clients[k], FALSE)
  /\ UNCHANGED <<phase, gamemode, settings, matchmaking, registered, connectRx, task,
                 key, greeting, cursor, holding, wireVars>>

LobbyDisconnect ==
  /\ phase = "lobby" /\ disconnectRx # <<>>
  /\ clients[Head(disconnectRx)] # NoConn
  /\ RemoveClient(Head(disconnectRx))
  /\ disconnectRx' = Tail(disconnectRx)
  /\ UNCHANGED readRx

\* Slab::remove panics on a vacant key.
LobbyDisconnectPanics ==
  /\ phase = "lobby" /\ disconnectRx # <<>>
  /\ clients[Head(disconnectRx)] = NoConn
  /\ Panic

\* A request whose key is vacant is skipped, in the lobby and in handle_select.
SkipRequest ==
  /\ phase \in {"lobby", "select"} /\ readRx # <<>>
  /\ clients[Head(readRx).key] = NoConn
  /\ readRx' = Tail(readRx)
  /\ UNCHANGED <<roomVars, connectRx, disconnectRx, log, taskVars, wireVars>>

\* The request recv() returns in handle_lobby or handle_select, if any.
Taken(state) ==
  {r \in {readRx[i] : i \in 1..Len(readRx)} :
     phase = state /\ r = Head(readRx) /\ clients[r.key] # NoConn}

\* Mutant of LobbyRejects: the message ids the menu offers are out of range.
LobbyRejectsComments(r) ==
  \/ r.request.type = "comment"
  \/ r.request.type = "start" /\ ~(isHost[clients[r.key]] /\ r.request.mode < 4)
  \/ r.request.type \notin {"comment", "start"}

\* What handle_lobby_request returns Err for; its sender is then disconnected.
\* FIXME in the code: four game modes pass, although the console knows three.
LobbyRejects(r) ==
  \/ r.request.type = "comment" /\ ClientPlayers(r.key) = {}
  \/ r.request.type = "start" /\ ~(isHost[clients[r.key]] /\ r.request.mode < 4)
  \/ r.request.type \notin {"comment", "start"}

LobbyRequestFails ==
  \E r \in Taken("lobby") :
    /\ LobbyRejects(r)
    /\ RemoveClient(r.key)
    /\ readRx' = Tail(readRx)
    /\ UNCHANGED disconnectRx

LobbyComment ==
  \E r \in Taken("lobby") :
    /\ ~LobbyRejects(r) /\ r.request.type = "comment"
    /\ log' = Append(log, CommentEvent(Lowest(ClientPlayers(r.key)) - 1, r.request.message))
    /\ readRx' = Tail(readRx)
    /\ UNCHANGED <<roomVars, connectRx, disconnectRx, taskVars, wireVars>>

LobbyStart ==
  \E r \in Taken("lobby") :
    /\ ~LobbyRejects(r) /\ r.request.type = "start"
    /\ log' = Append(log, StartEvent(r.request.mode))
    /\ phase' = "select"
    /\ gamemode' = r.request.mode
    /\ readRx' = Tail(readRx)
    /\ UNCHANGED <<settings, clients, vacant, isHost, players, updates, matchmaking, registered,
                   connectRx, disconnectRx, taskVars, wireVars>>

\* Mutant of VoteAccepted: a second vote of a client counts again.
VoteAcceptedAgain(r) ==
  /\ r.request.type = "vote"
  /\ r.request.fits
  /\ r.request.course \in IF gamemode = 0 THEN Tracks ELSE Stages

\* Mutant of VoteAccepted: the first vote of anybody is the only one.
VoteAcceptedOnce(r) ==
  /\ r.request.type = "vote"
  /\ \A i \in 1..Len(players) : players[i].vote = NoVote
  /\ r.request.fits
  /\ r.request.course \in IF gamemode = 0 THEN Tracks ELSE Stages

\* handle_select_request: what it accepts, and how it is answered.
VoteAccepted(r) ==
  /\ r.request.type = "vote"
  /\ \A i \in ClientPlayers(r.key) : players[i].vote = NoVote
  /\ r.request.fits
  /\ r.request.course \in IF gamemode = 0 THEN Tracks ELSE Stages

\* A comment or a start that comes too late is ignored, what is not accepted
\* is logged; neither has an effect.
SelectIgnores ==
  \E r \in Taken("select") :
    /\ ~VoteAccepted(r)
    /\ readRx' = Tail(readRx)
    /\ UNCHANGED <<roomVars, connectRx, disconnectRx, log, taskVars, wireVars>>

SomeoneStillVotes(votes) == \E i \in 1..Len(votes) : votes[i] = NoVote

\* The vote counts for all players of the client; the last one also draws the
\* player whose course is raced and ends handle_select.
SelectVote ==
  \E r \in Taken("select") :
    LET voted == [i \in 1..Len(players) |->
                    IF players[i].key = r.key
                    THEN [players[i] EXCEPT !.vote = r.request.course]
                    ELSE players[i]]
        votes == [i \in 1..Len(players) |-> voted[i].vote]
        pulsed == log \o PulseEvents(r.key)
    IN
    /\ VoteAccepted(r)
    /\ players' = voted
    /\ IF SomeoneStillVotes(votes)
       THEN log' = pulsed /\ phase' = phase
       ELSE /\ \E sel \in 1..Len(players) : log' = Append(pulsed, InfoEvent(votes, sel - 1))
            /\ phase' = "race"
    /\ readRx' = Tail(readRx)
    /\ UNCHANGED <<gamemode, settings, clients, vacant, isHost, updates, matchmaking, registered,
                   connectRx, disconnectRx, taskVars, wireVars>>

RoomStep ==
  \/ LobbyConnect \/ LobbyConnectFails
  \/ LobbyDisconnect \/ LobbyDisconnectPanics
  \/ SkipRequest \/ LobbyRequestFails \/ LobbyComment \/ LobbyStart
  \/ SelectIgnores \/ SelectVote
-------------------------------------------------------------------------------
(***************************************************************************)
(* The task of a connection, spawned by handle_lobby_connect.  A write to  *)
(* a stream the console has closed may fail.  An aborted task is dropped   *)
(* at its next await; if it was running, it gets that far first.           *)
(***************************************************************************)
Write(c, e) == toClient' = [toClient EXCEPT ![c] = Append(@, e)]

TaskGreets(c) ==
  /\ task[c] = "greet"
  /\ IF greeting[c] = <<>>
     THEN task' = [task EXCEPT ![c] = "loop"] /\ UNCHANGED <<greeting, toClient>>
     ELSE /\ Write(c, Head(greeting[c]))
          /\ greeting' = [greeting EXCEPT ![c] = Tail(@)]
          /\ UNCHANGED task
  /\ UNCHANGED <<roomVars, chanVars, key, cursor, holding, aborted, toServer, closed, sent>>

\* write_rx.recv() returned the next event
TaskWrites(c) ==
  /\ task[c] = "loop"
  /\ cursor[c] < Len(log) /\ Len(log) - cursor[c] <= LogCap
  /\ Write(c, log[cursor[c] + 1])
  /\ cursor' = [cursor EXCEPT ![c] = @ + 1]
  /\ UNCHANGED <<roomVars, chanVars, task, key, greeting, holding, aborted, toServer,
                 closed, sent>>

\* stream.read() returned the next request
TaskReads(c) ==
  /\ task[c] = "loop" /\ toServer[c] # <<>>
  /\ holding' = [holding EXCEPT ![c] = Head(toServer[c])]
  /\ toServer' = [toServer EXCEPT ![c] = Tail(@)]
  /\ task' = [task EXCEPT ![c] = "deliver"]
  /\ UNCHANGED <<roomVars, chanVars, key, greeting, cursor, aborted, toClient, closed, sent>>

\* read_tx.send(): waits while the queue is full, fails once the room is gone
TaskDelivers(c) ==
  /\ task[c] = "deliver"
  /\ IF RoomAlive
     THEN /\ Len(readRx) < ChannelCap
          /\ readRx' = Append(readRx, [key |-> key[c], conn |-> c, request |-> holding[c]])
          /\ task' = [task EXCEPT ![c] = "loop"]
     ELSE task' = [task EXCEPT ![c] = "leave"] /\ UNCHANGED readRx
  /\ holding' = [holding EXCEPT ![c] = NoRequest]
  /\ UNCHANGED <<roomVars, connectRx, disconnectRx, log, key, greeting, cursor, aborted,
                 wireVars>>

\* The loop ends: the console closed the stream, or the broadcast channel has
\* overwritten events this task had not passed yet (RecvError::Lagged).
TaskLeaves(c) ==
  /\ \/ task[c] = "loop" /\ toServer[c] = <<>> /\ closed[c]
     \/ task[c] = "greet" /\ greeting[c] # <<>> /\ closed[c]
     \/ task[c] = "loop" /\ cursor[c] < Len(log) /\ closed[c]
     \/ task[c] = "loop" /\ Len(log) - cursor[c] > LogCap
  /\ task' = [task EXCEPT ![c] = "leave"]
  /\ UNCHANGED <<roomVars, chanVars, key, greeting, cursor, holding, aborted, wireVars>>

\* Mutant of TaskEnds: the task ends without telling the room.
TaskEndsSilently(c) ==
  /\ task[c] = "leave"
  /\ task' = [task EXCEPT ![c] = "ended"]
  /\ UNCHANGED <<roomVars, chanVars, key, greeting, cursor, holding, aborted, wireVars>>

\* disconnect_tx.send()
TaskEnds(c) ==
  /\ task[c] = "leave"
  /\ IF RoomAlive
     THEN /\ Len(disconnectRx) < ChannelCap
          /\ disconnectRx' = Append(disconnectRx, key[c])
     ELSE UNCHANGED disconnectRx
  /\ task' = [task EXCEPT ![c] = "ended"]
  /\ UNCHANGED <<roomVars, connectRx, readRx, log, key, greeting, cursor, holding, aborted,
                 wireVars>>

TaskAborts(c) ==
  /\ aborted[c] /\ task[c] # "ended"
  /\ task' = [task EXCEPT ![c] = "ended"]
  /\ UNCHANGED <<roomVars, chanVars, key, greeting, cursor, holding, aborted, wireVars>>

TaskStep(c) ==
  \/ Admit(c) \/ AdmitFails(c)
  \/ TaskGreets(c) \/ TaskWrites(c) \/ TaskReads(c) \/ TaskDelivers(c)
  \/ TaskLeaves(c) \/ TaskEnds(c) \/ TaskAborts(c)
-------------------------------------------------------------------------------
(***************************************************************************)
(* The consoles, as far as the room sees them: one connects, sends its     *)
(* Join, sends requests once the greeting has reached it (a vote only      *)
(* after a Start has, the rest only from the screen of a friend room), and *)
(* closes its stream at any time.                                          *)
(***************************************************************************)
Received(c, type) == \E i \in 1..Len(toClient[c]) : toClient[c][i].type = type

Connect(c) ==
  /\ task[c] = "none"
  /\ task' = [task EXCEPT ![c] = "admit"]
  /\ toServer' = [toServer EXCEPT ![c] = <<JoinRequest>>]
  /\ UNCHANGED <<roomVars, chanVars, key, greeting, cursor, holding, aborted, toClient,
                 closed, sent>>

\* One pair per request sent: the console, and the number the request has there.
RequestsSent == {p \in Conns \X (1..MaxRequests) : p[2] <= sent[p[1]]}

Send(c, r) ==
  /\ ~closed[c] /\ Cardinality(RequestsSent) < MaxRequests
  /\ Received(c, "settings")
  /\ r.type \in {"vote", "teamSelect"} => Received(c, "start")
  /\ matchmaking => r.type \in {"vote", "teamSelect"}
  /\ toServer' = [toServer EXCEPT ![c] = Append(@, r)]
  /\ sent' = [sent EXCEPT ![c] = @ + 1]
  /\ UNCHANGED <<roomVars, chanVars, taskVars, toClient, closed>>

Close(c) ==
  /\ task[c] # "none" /\ ~closed[c]
  /\ closed' = [closed EXCEPT ![c] = TRUE]
  /\ UNCHANGED <<roomVars, chanVars, taskVars, toServer, toClient, sent>>

ConsoleStep(c) == Connect(c) \/ (\E r \in Requests : Send(c, r)) \/ Close(c)

ServerStep == RoomStep \/ HandleUpdate \/ \E c \in Conns : TaskStep(c)

Next == ServerStep \/ \E c \in Conns : ConsoleStep(c)

\* tokio polls every task that can proceed; consoles need not do anything.
Fairness ==
  /\ WF_vars(RoomStep)
  /\ WF_vars(HandleUpdate)
  /\ \A c \in Conns : WF_vars(TaskStep(c))

Spec == Init /\ [][Next]_vars /\ Fairness
-------------------------------------------------------------------------------
Events ==
  [type : {"join"}, who : Conns] \cup [type : {"settings"}, of : Conns]
    \cup [type : {"leave", "selectPulse"}, player : Nat]
    \cup [type : {"comment"}, player : Nat, message : Comments]
    \cup [type : {"start"}, mode : Gamemodes \cup {0}]
    \cup [type : {"selectInfo"}, votes : Seq(Courses), selected : Nat]

TypeOK ==
  /\ phase \in {"lobby", "select", "race", "panicked"}
  /\ gamemode \in Gamemodes \cup {0}
  /\ settings \in Conns \cup {NoConn}
  /\ clients \in [Keys -> Conns \cup {NoConn}]
  /\ vacant \in Seq(Keys)
  /\ isHost \in [Conns -> BOOLEAN]
  /\ players \in Seq([key : Keys, conn : Conns, vote : Courses \cup {NoVote}])
  /\ updates \in Seq([conn : Conns, isJoin : BOOLEAN, isHost : BOOLEAN])
  /\ {matchmaking, registered} \subseteq BOOLEAN
  /\ connectRx \in Seq(Conns) /\ disconnectRx \in Seq(Keys)
  /\ readRx \in Seq([key : Keys, conn : Conns, request : Requests])
  /\ log \in Seq(Events)
  /\ task \in [Conns -> TaskStates]
  /\ key \in [Conns -> Keys \cup {NoKey}]
  /\ greeting \in [Conns -> Seq(Events)] /\ toClient \in [Conns -> Seq(Events)]
  /\ cursor \in [Conns -> Nat] /\ sent \in [Conns -> Nat]
  /\ holding \in [Conns -> Requests \cup {NoRequest}]
  /\ aborted \in [Conns -> BOOLEAN] /\ closed \in [Conns -> BOOLEAN]
  /\ toServer \in [Conns -> Seq(Requests \cup {JoinRequest})]

\* The slab, its free list and the players never drift apart, however keys are
\* freed and reused: a key is free or holds one connection, whose one player
\* stands in the room under that key, and no player is without a client.
SlabMatchesPlayers ==
  /\ \A k \in Keys :
       IF clients[k] = NoConn
       THEN /\ ClientPlayers(k) = {}
            /\ Cardinality({n \in 1..Len(vacant) : vacant[n] = k}) = 1
       ELSE /\ Cardinality(ClientPlayers(k)) = 1
            /\ players[Lowest(ClientPlayers(k))].conn = clients[k]
            /\ \A n \in 1..Len(vacant) : vacant[n] # k
            /\ key[clients[k]] = k
  /\ \A i, j \in 1..Len(players) : players[i].conn = players[j].conn => i = j

\* handle_lobby_disconnect is never told a key the slab does not hold: the room
\* survives whatever a console sends and whenever it leaves.
NeverPanics == phase # "panicked"

\* Every player votes once, and the draw takes place once, after all of them
\* have: with one vote per player, for a course the game mode has.
DrawFollowsVotes ==
  /\ \A i, j \in 1..Len(log) :
       log[i].type = "selectPulse" /\ log[j] = log[i] => i = j
  /\ \A i \in 1..Len(log) : log[i].type = "selectInfo" =>
       /\ i = Len(log) /\ phase = "race"
       /\ log[i].selected < Len(players)
       /\ log[i].votes = [n \in 1..Len(players) |-> players[n].vote]
       /\ \A n \in 1..Len(players) :
            /\ players[n].vote \in IF gamemode = 0 THEN Tracks ELSE Stages
            /\ \E j \in 1..i : log[j] = PulseEvent(n - 1)

\* A matchmaking room starts with exactly two players: nobody waits in a lobby
\* that already has a partner for it, and nobody joins a started room.
MatchIsAPair ==
  matchmaking =>
    /\ phase = "lobby" => Len(players) <= 1
    /\ phase \in {"select", "race"} => Len(players) = 2

\* A console that closes its connection while the lobby is open disappears from
\* the room, or the room moves on.
LeaversAreRemoved ==
  \A c \in Conns : (closed[c] /\ InRoom(c) /\ phase = "lobby")
                     ~> (~InRoom(c) \/ phase # "lobby")
===============================================================================
