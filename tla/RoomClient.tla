------------------------------ MODULE RoomClient ------------------------------
(***************************************************************************)
(* The console's side of a room (payload/sp/cs/RoomClient.cc), one state   *)
(* machine per console, with what its pages call: it connects, replays the *)
(* greeting, then follows the events of the room and sends requests.       *)
(*                                                                         *)
(* calc() runs once a frame and hands each event it reads to the handler   *)
(* of its state; an event is one action here.  When it returns false the   *)
(* page destroys the instance, which closes the stream.  One player plays  *)
(* on each console (m_localPlayerCount = 1): handle_client of the server   *)
(* admits no more.  Events the server never sends have no action.          *)
(***************************************************************************)
EXTENDS Room

CONSTANTS
  TeamConns,  \* the consoles whose own settings may ask for teams
  Writers,    \* bound: the consoles whose users write comments
  Changers    \* bound: the consoles whose users change the settings

ASSUME ClientAssumption ==
  TeamConns \subseteq Conns /\ Writers \subseteq Conns /\ Changers \subseteq Conns

VARIABLES
  cstate,    \* m_state: "connect", "setup", "main", "teamSelect", "select"; "closed"
  taken,     \* how many of the events sent to it the console has read
  roster,    \* m_players, m_playerCount: the sequence of players it knows
  me,        \* m_localPlayerIds[0]
  mode,      \* m_gamemode
  rules,     \* m_settings: the console whose settings they are
  changed,   \* m_localSettingsChanged is "pending"; bound: one change per console
  role,      \* FriendRoomPage.m_roomRole, set when that page opens
  order,     \* m_votePlayerOrder: per player id, when its vote was announced
  pulses,    \* m_voteCurrentPlayerIdx
  info,      \* the outcome of the vote, once announced
  voted      \* the console has sent its vote

clientVars ==
  <<cstate, taken, roster, me, mode, rules, changed, role, order, pulses, info, voted>>

NoOrder == MaxPlayers     \* -1 in the code
NoInfo == [votes |-> <<>>, selected |-> 0]
PlayerIds == 0..(MaxPlayers - 1)

ClientInit ==
  /\ cstate = [c \in Conns |-> "connect"]
  /\ taken = [c \in Conns |-> 0]
  /\ roster = [c \in Conns |-> <<>>]
  /\ me = [c \in Conns |-> NoOrder]
  /\ mode = [c \in Conns |-> 0]
  /\ rules = [c \in Conns |-> NoConn]
  /\ changed = [c \in Conns |-> "no"]
  /\ role = [c \in Conns |-> "none"]
  /\ order = [c \in Conns |-> [i \in PlayerIds |-> NoOrder]]
  /\ pulses = [c \in Conns |-> 0]
  /\ info = [c \in Conns |-> NoInfo]
  /\ voted = [c \in Conns |-> FALSE]

Open(c) == cstate[c] \notin {"connect", "closed"}
IsPlayerLocal(c, i) == me[c] = i

\* The next event of the stream.  calcMain first sends changed settings, then reads.
HasEvent(c) ==
  /\ Open(c) /\ taken[c] < Len(toClient[c])
  /\ cstate[c] = "main" => changed[c] # "pending"
Event(c) == toClient[c][taken[c] + 1]

Reads(c, state, type) ==
  /\ cstate[c] = state /\ HasEvent(c) /\ Event(c).type = type
  /\ taken' = [taken EXCEPT ![c] = @ + 1]
-------------------------------------------------------------------------------
\* CreateInstance, the handshake, and writeJoin in onSetup.
ClientConnects(c) ==
  /\ Connect(c)
  /\ cstate' = [cstate EXCEPT ![c] = "setup"]
  /\ UNCHANGED <<taken, roster, me, mode, rules, changed, role, order, pulses, info, voted>>

\* destroyInstance
Destroy(c) ==
  /\ Close(c)
  /\ cstate' = [cstate EXCEPT ![c] = "closed"]
  /\ UNCHANGED <<taken, roster, me, mode, rules, changed, role, order, pulses, info, voted>>

\* The user leaves the room.
ClientLeaves(c) == Open(c) /\ Destroy(c)

\* poll() finds the stream closed by the server.
ClientLosesServer(c) == Open(c) /\ task[c] = "ended" /\ Destroy(c)

\* Mutant of RosterFull: off by one.
RosterFullEarly(c) == Len(roster[c]) + 1 >= MaxPlayers

\* The checks of the event handlers: what makes calc() return false.
RosterFull(c) == Len(roster[c]) = MaxPlayers
\* Mutant of Refuses: as many modes as the server accepts.
RefusesFewer(c, e) ==
  CASE cstate[c] = "setup" -> e.type \notin {"join", "settings"} \/ RosterFull(c)
    [] cstate[c] = "main" -> e.type = "start" /\ e.mode >= 4
    [] OTHER -> FALSE
Refuses(c, e) ==
  CASE cstate[c] = "setup" ->
         \/ e.type \notin {"join", "settings"}
         \/ RosterFull(c)
    [] cstate[c] = "main" ->
         \/ e.type = "join" /\ RosterFull(c)
         \/ e.type \in {"leave", "comment"} /\ e.player >= Len(roster[c])
         \/ e.type = "leave" /\ IsPlayerLocal(c, e.player)
         \/ e.type = "start" /\ e.mode >= 3
    [] cstate[c] = "select" -> e.type = "selectPulse" /\ e.player >= Len(roster[c])
    [] OTHER -> FALSE

GivesUp(c) == HasEvent(c) /\ Refuses(c, Event(c)) /\ Destroy(c)

\* onPlayerJoin, for a player already in the room or a newcomer
PlayerJoins(c) ==
  /\ \E state \in {"setup", "main"} : Reads(c, state, "join")
  /\ ~Refuses(c, Event(c))
  /\ roster' = [roster EXCEPT ![c] = Append(@, Event(c).who)]
  /\ UNCHANGED <<vars, cstate, me, mode, rules, changed, role, order, pulses, info, voted>>

\* The Settings event ends the setup: onMain adds the local player at the end.
\* The first player of a room keeps its own settings.
SetupEnds(c) ==
  /\ Reads(c, "setup", "settings")
  /\ ~Refuses(c, Event(c))
  /\ rules' = [rules EXCEPT ![c] = IF roster[c] = <<>> THEN c ELSE Event(c).of]
  /\ me' = [me EXCEPT ![c] = Len(roster[c])]
  /\ roster' = [roster EXCEPT ![c] = Append(@, c)]
  /\ cstate' = [cstate EXCEPT ![c] = "main"]
  /\ UNCHANGED <<vars, mode, changed, role, order, pulses, info, voted>>

\* Mutant of PlayerLeaves: m_localPlayerIds is not shifted.
PlayerLeavesUnshifted(c) ==
  /\ Reads(c, "main", "leave")
  /\ ~Refuses(c, Event(c))
  /\ roster' = [roster EXCEPT ![c] = SubSeq(@, 1, Event(c).player)
                                       \o SubSeq(@, Event(c).player + 2, Len(@))]
  /\ UNCHANGED <<vars, cstate, me, mode, rules, changed, role, order, pulses, info, voted>>

PlayerLeaves(c) ==
  /\ Reads(c, "main", "leave")
  /\ ~Refuses(c, Event(c))
  /\ LET i == Event(c).player IN
       /\ roster' = [roster EXCEPT ![c] = SubSeq(@, 1, i) \o SubSeq(@, i + 2, Len(@))]
       /\ me' = [me EXCEPT ![c] = IF @ > i THEN @ - 1 ELSE @]
  /\ UNCHANGED <<vars, cstate, mode, rules, changed, role, order, pulses, info, voted>>

\* onReceiveComment only tells the page.
CommentArrives(c) ==
  /\ Reads(c, "main", "comment")
  /\ ~Refuses(c, Event(c))
  /\ UNCHANGED <<vars, cstate, roster, me, mode, rules, changed, role, order, pulses, info,
                 voted>>

RoomStarts(c) ==
  /\ Reads(c, "main", "start")
  /\ ~Refuses(c, Event(c))
  /\ mode' = [mode EXCEPT ![c] = Event(c).mode]
  /\ \E state \in {"select"} \cup (IF rules[c] \in TeamConns THEN {"teamSelect"} ELSE {}) :
       cstate' = [cstate EXCEPT ![c] = state]
  /\ UNCHANGED <<vars, roster, me, rules, changed, role, order, pulses, info, voted>>

\* calcTeamSelect knows only TeamSelect events and never leaves its state.
TeamSelectIgnores(c) ==
  /\ \E type \in {"selectPulse", "selectInfo"} : Reads(c, "teamSelect", type)
  /\ UNCHANGED <<vars, cstate, roster, me, mode, rules, changed, role, order, pulses, info,
                 voted>>

\* Mutant of PulseArrives: m_voteCurrentPlayerIdx is not counted on.
PulseArrivesUncounted(c) ==
  /\ Reads(c, "select", "selectPulse")
  /\ ~Refuses(c, Event(c))
  /\ order' = [order EXCEPT ![c][Event(c).player] = pulses[c]]
  /\ UNCHANGED <<vars, cstate, roster, me, mode, rules, changed, role, pulses, info, voted>>

PulseArrives(c) ==
  /\ Reads(c, "select", "selectPulse")
  /\ ~Refuses(c, Event(c))
  /\ order' = [order EXCEPT ![c][Event(c).player] = pulses[c]]
  /\ pulses' = [pulses EXCEPT ![c] = @ + 1]
  /\ UNCHANGED <<vars, cstate, roster, me, mode, rules, changed, role, info, voted>>

InfoArrives(c) ==
  /\ Reads(c, "select", "selectInfo")
  /\ info' = [info EXCEPT ![c] = [votes |-> Event(c).votes, selected |-> Event(c).selected]]
  /\ UNCHANGED <<vars, cstate, roster, me, mode, rules, changed, role, order, pulses, voted>>

ReadsEvent(c) ==
  \/ GivesUp(c) \/ PlayerJoins(c) \/ SetupEnds(c) \/ PlayerLeaves(c) \/ CommentArrives(c)
  \/ RoomStarts(c) \/ TeamSelectIgnores(c) \/ PulseArrives(c) \/ InfoArrives(c)
-------------------------------------------------------------------------------
\* A request is queued on the socket: onto the stream.
Request(c, r) ==
  /\ toServer' = [toServer EXCEPT ![c] = Append(@, r)]
  /\ sent' = [sent EXCEPT ![c] = @ + 1]
  /\ UNCHANGED <<roomVars, chanVars, taskVars, toClient, closed>>

\* FriendRoomPage.onActivate: who may start the room is decided here.
OpenRoomPage(c) ==
  /\ cstate[c] = "main" /\ role[c] = "none" /\ ~matchmaking
  /\ role' = [role EXCEPT ![c] = IF IsPlayerLocal(c, 0) THEN "host" ELSE "player"]
  /\ UNCHANGED <<vars, cstate, taken, roster, me, mode, rules, changed, order, pulses, info,
                 voted>>

SendComment(c) ==
  /\ c \in Writers /\ role[c] # "none" /\ Open(c) /\ sent[c] < MaxRequests
  /\ \E r \in Requests : r.type = "comment" /\ Request(c, r)
  /\ UNCHANGED clientVars

StartRoom(c) ==
  /\ role[c] = "host" /\ Open(c) /\ sent[c] < MaxRequests
  /\ \E r \in Requests : r.type = "start" /\ Request(c, r)
  /\ UNCHANGED clientVars

ChangeLocalSettings(c) ==
  /\ c \in Changers /\ role[c] # "none" /\ cstate[c] = "main" /\ sent[c] < MaxRequests
  /\ SettingsRequest \in Requests /\ changed[c] = "no"
  /\ changed' = [changed EXCEPT ![c] = "pending"]
  /\ UNCHANGED <<vars, cstate, taken, roster, me, mode, rules, role, order, pulses, info, voted>>

\* The head of calcMain: only the host's settings are sent.
SettingsAreSent(c) ==
  /\ cstate[c] = "main" /\ changed[c] = "pending"
  /\ IF IsPlayerLocal(c, 0) THEN Request(c, SettingsRequest) ELSE UNCHANGED vars
  /\ changed' = [changed EXCEPT ![c] = "sent"]
  /\ UNCHANGED <<cstate, taken, roster, me, mode, rules, role, order, pulses, info, voted>>

SendTeamSelect(c) ==
  /\ cstate[c] = "teamSelect" /\ sent[c] < MaxRequests
  /\ TeamSelectRequest \in Requests
  /\ Request(c, TeamSelectRequest)
  /\ UNCHANGED clientVars

\* Mutant of SendVote: the vote does not wait for the room to start.
SendVoteEarly(c) ==
  /\ cstate[c] \in {"main", "teamSelect", "select"} /\ ~voted[c]
  /\ \E crs \in Tracks : Request(c, VoteRequest(crs, TRUE))
  /\ voted' = [voted EXCEPT ![c] = TRUE]
  /\ UNCHANGED <<cstate, taken, roster, me, mode, rules, changed, role, order, pulses, info>>

\* RoulettePage.beforeInAnim: the vote, for a course the menu of the mode offers.
SendVote(c) ==
  /\ cstate[c] \in {"teamSelect", "select"} /\ ~voted[c] /\ "vote" \in Kinds
  /\ \E crs \in IF mode[c] = 0 THEN Tracks ELSE Stages : Request(c, VoteRequest(crs, TRUE))
  /\ voted' = [voted EXCEPT ![c] = TRUE]
  /\ UNCHANGED <<cstate, taken, roster, me, mode, rules, changed, role, order, pulses, info>>

UserActs(c) ==
  \/ ClientConnects(c) \/ ClientLeaves(c)
  \/ OpenRoomPage(c) \/ SendComment(c) \/ StartRoom(c) \/ ChangeLocalSettings(c)
  \/ SendTeamSelect(c) \/ SendVote(c)

ClientStep(c) == ReadsEvent(c) \/ ClientLosesServer(c) \/ SettingsAreSent(c) \/ UserActs(c)
===============================================================================
