------------------------------ MODULE OnlineRoom ------------------------------
(***************************************************************************)
(* A room of the game server together with the consoles in it: Room with   *)
(* the state machine of RoomClient at the other end of every connection.   *)
(***************************************************************************)
EXTENDS RoomClient

allVars == <<vars, clientVars>>

OnlineInit == Init /\ ClientInit

ServerActs == ServerStep /\ UNCHANGED clientVars

OnlineNext == ServerActs \/ \E c \in Conns : ClientStep(c)

\* calc() is called every frame and the server's tasks are polled; that users
\* vote is assumed as well, nothing else they do is.
OnlineSpec ==
  /\ OnlineInit /\ [][OnlineNext]_allVars
  /\ WF_allVars(RoomStep /\ UNCHANGED clientVars)
  /\ WF_allVars(HandleUpdate /\ UNCHANGED clientVars)
  /\ \A c \in Conns :
       /\ WF_allVars(TaskStep(c) /\ UNCHANGED clientVars)
       /\ WF_allVars(ReadsEvent(c))
       /\ WF_allVars(SettingsAreSent(c))
       /\ WF_allVars(SendVote(c))
-------------------------------------------------------------------------------
ClientTypeOK ==
  /\ cstate \in [Conns -> {"connect", "setup", "main", "teamSelect", "select", "closed"}]
  /\ taken \in [Conns -> Nat]
  /\ roster \in [Conns -> Seq(Conns)]
  /\ me \in [Conns -> PlayerIds \cup {NoOrder}]
  /\ mode \in [Conns -> 0..2]
  /\ rules \in [Conns -> Conns \cup {NoConn}]
  /\ changed \in [Conns -> {"no", "pending", "sent"}] /\ voted \in [Conns -> BOOLEAN]
  /\ role \in [Conns -> {"none", "host", "player"}]
  /\ order \in [Conns -> [PlayerIds -> PlayerIds \cup {NoOrder}]]
  /\ pulses \in [Conns -> Nat]
  /\ info \in [Conns -> [votes : Seq(Courses), selected : Nat]]

\* What an event does to a roster, wherever it is on its way to console c.
Replay(c, players0, e) ==
  CASE e.type = "join" -> Append(players0, e.who)
    [] e.type = "settings" -> Append(players0, c)
    [] e.type = "leave" ->
         SubSeq(players0, 1, e.player) \o SubSeq(players0, e.player + 2, Len(players0))
    [] OTHER -> players0

Expected(c) ==
  SubSeq(toClient[c], taken[c] + 1, Len(toClient[c]))
    \o greeting[c] \o SubSeq(log, cursor[c] + 1, Len(log))

\* The roster of console c once it has read all that is on its way.
FinalRoster(c) ==
  LET known[n \in 0..Len(Expected(c))] ==
        IF n = 0 THEN roster[c] ELSE Replay(c, known[n - 1], Expected(c)[n])
  IN  known[Len(Expected(c))]

\* A console's connection is whole: it and its task are still there.
Attached(c) ==
  /\ Open(c) /\ InRoom(c) /\ task[c] \in {"greet", "loop", "deliver"}
  /\ Len(log) - cursor[c] <= LogCap

\* However joins, departures and the greeting interleave, the events still on
\* their way turn the roster a console has into the players of the room: player
\* ids mean the same at both ends when they are read.
\* And a console knows which player it is, through all departures before it.
KnowsItself ==
  \A c \in Conns : cstate[c] \in {"main", "teamSelect", "select"} =>
    me[c] < Len(roster[c]) /\ roster[c][me[c] + 1] = c

RosterFollowsRoom ==
  /\ \A c \in Conns : Attached(c) =>
       FinalRoster(c) = [i \in 1..Len(players) |-> players[i].conn]
  /\ KnowsItself

\* No event makes a console give up the room: everything the server sends, in
\* the order it arrives, is acceptable in the state the console is in.
NothingRefused == \A c \in Conns : HasEvent(c) => ~Refuses(c, Event(c))

\* Consoles that know the outcome agree on the players, on their votes and on the
\* player drawn, and each has seen every vote announced exactly once, in the same
\* order.
ConsolesAgree ==
  \A c, d \in Conns : (info[c] # NoInfo /\ info[d] # NoInfo) =>
    /\ info[c] = info[d] /\ roster[c] = roster[d] /\ order[c] = order[d]
    /\ Len(info[c].votes) = Len(roster[c])
    /\ {order[c][i] : i \in 0..(Len(roster[c]) - 1)} = 0..(Len(roster[c]) - 1)

\* A client is taken out of the room only when its own task is leaving or has ended,
\* and not by a departure that another has queued under the same key, as long as no
\* console has sent changed settings: the room answers those with a removal of its own.
EvictedOnlyWhenGone ==
  [][\A k \in Keys :
       clients[k] # NoConn /\ clients'[k] # clients[k] /\ (\A c \in Conns : changed[c] # "sent")
         => task[clients[k]] \in {"leave", "ended"}]_allVars

\* The consoles the Room module assumes are the ones that RoomClient implements.
ConsoleEnvironment ==
  INSTANCE Room WITH MaxRequests <- Cardinality(Conns) * (MaxRequests + 2)
BehavesAsRoom == ConsoleEnvironment!Init /\ [][ConsoleEnvironment!Next]_vars

\* If nobody leaves and no console is choosing teams, the vote ends, at the server
\* and then at every console.
SelectEnds ==
  (phase = "select") ~> \/ \E c \in Conns : closed[c] \/ cstate[c] = "teamSelect"
                        \/ \A c \in Conns : InRoom(c) => info[c] # NoInfo
===============================================================================
