-------------------------- MODULE FriendRoomBackPage --------------------------
(***************************************************************************)
(* The page that shows the players of a room around the globe              *)
(* (payload/game/ui/FriendRoomBackPage.cc).  Events of the room arrive     *)
(* faster than they can be shown, so they wait in m_queue; a player that   *)
(* leaves before it was shown takes its Join out of the queue again.       *)
(*                                                                         *)
(* RoomClient is seen through the handler of FriendMatchingPage, which     *)
(* calls the on... functions, opens the page when the setup is over and    *)
(* closes it when the connection ends.                                     *)
(*                                                                         *)
(* Abstracted: the slots m_indices permutes (shown is the sequence of Miis *)
(* in slots m_indices[0 .. m_playerCount - 1]) and the 90 frames of        *)
(* m_timer (busy).  In a Comment, `by` is the player the message came from:*)
(* the code has only the player id.                                        *)
(***************************************************************************)
EXTENDS Integers, Sequences, FiniteSets

CONSTANTS
  Miis,         \* the other players that may come and go
  Self,         \* the local player
  MaxPlayers,   \* 12
  MaxComments,  \* 18
  Capacity,     \* of m_queue (44)
  Faults,       \* what may happen besides, see FaultNames
  NoOne

(***************************************************************************)
(* Behaviour of players and connections that the page does not cope with;  *)
(* an instance says which of it may happen.                                *)
(*   "overlappingLeaves"  a player leaves while another's Leave is queued  *)
(*   "unspoken"           a queued Join is cancelled with a Comment behind *)
(*   "startAborts"        the connection ends while Start is being shown   *)
(***************************************************************************)
FaultNames == {"overlappingLeaves", "unspoken", "startAborts"}

ASSUME PageAssumption ==
  /\ Self \notin Miis /\ NoOne \notin Nat
  /\ MaxPlayers \in Nat \ {0} /\ MaxComments \in Nat
  /\ Capacity = 2 * MaxPlayers + MaxComments + 2
  /\ Faults \subseteq FaultNames

VARIABLES
  session,   \* the room: "none", "setup", "open" (in the lobby), "started"
  roster,    \* RoomClient's players
  queue,     \* m_queue
  shown,     \* the players on screen, in the order of their ids
  busy,      \* m_timer > 0
  globe,     \* m_globePlayerId
  facing,    \* the Mii the globe was last turned to
  started,   \* m_roomStarted
  launched,  \* prepareStartClient was called in this session
  panicked   \* an assertion failed

pageVars == <<shown, busy, globe, facing, started, launched>>
roomAndPage == <<session, roster, queue, pageVars, panicked>>

Join(m) == [type |-> "join", mii |-> m]
Leave(i) == [type |-> "leave", player |-> i]
Comment(i, m) == [type |-> "comment", player |-> i, by |-> m]
Settings == [type |-> "settings"]
Start == [type |-> "start"]

PageInit ==
  /\ session = "none" /\ roster = <<>> /\ queue = <<>> /\ shown = <<>>
  /\ busy = FALSE /\ globe = NoOne /\ facing = NoOne
  /\ started = FALSE /\ launched = FALSE /\ panicked = FALSE

Positions(type) == {n \in 1..Len(queue) : queue[n].type = type}
Without(s, i) == SubSeq(s, 1, i) \o SubSeq(s, i + 2, Len(s))  \* ids count from 0

\* The assertion each on... function begins with, then its effect on the queue.
Enqueue(q) ==
  IF Len(queue) = Capacity THEN panicked' = TRUE /\ UNCHANGED queue
                           ELSE queue' = q /\ UNCHANGED panicked

-------------------------------------------------------------------------------
(***************************************************************************)
(* onPlayerLeave.  joinPlayerId is the id made to count the players of the *)
(* queued Leaves as well; the queued Join that is reached with that many   *)
(* players before it is the one to cancel.  The last such Join is taken.   *)
(***************************************************************************)
CountAgain(e, id) == IF e.type = "leave" /\ e.player <= id THEN id + 1 ELSE id

JoinPlayerId(i) ==
  LET id[n \in 0..Len(queue)] ==   \* when the last n entries have been looked at
        IF n = 0 THEN i ELSE CountAgain(queue[Len(queue) + 1 - n], id[n - 1])
  IN  id[Len(queue)]

\* Mutant of PlayersBefore: the Join is counted before it is looked at.
PlayersUpTo(n) ==
  Len(shown) + Cardinality({k \in Positions("join") : k <= n})
             - Cardinality({k \in Positions("leave") : k < n})

\* joinPlayerCount when the loop reaches position n
PlayersBefore(n) ==
  Len(shown) + Cardinality({k \in Positions("join") : k < n})
             - Cardinality({k \in Positions("leave") : k < n})

Cancelled(i) == {n \in Positions("join") : PlayersBefore(n) = JoinPlayerId(i)}

AfterLeave(i) ==
  IF Cancelled(i) = {} THEN Append(queue, Leave(i))
  ELSE LET n == CHOOSE k \in Cancelled(i) : \A m \in Cancelled(i) : m <= k
       IN  Without(queue, n - 1)

\* Mutants of AfterComment: shown before what still waits; one too many.
AfterCommentFirst(i) ==
  IF Cardinality(Positions("comment")) < MaxComments
  THEN <<Comment(i, roster[i + 1])>> \o queue ELSE queue
AfterCommentLoose(i) ==
  IF Cardinality(Positions("comment")) <= MaxComments
  THEN Append(queue, Comment(i, roster[i + 1])) ELSE queue

AfterComment(i) ==
  IF Cardinality(Positions("comment")) < MaxComments
  THEN Append(queue, Comment(i, roster[i + 1])) ELSE queue

\* onSettingsChange: the first settings that still wait are removed.
AfterSettings ==
  IF Positions("settings") = {} THEN Append(queue, Settings)
  ELSE LET n == CHOOSE k \in Positions("settings") : \A m \in Positions("settings") : k <= m
       IN  Append(Without(queue, n - 1), Settings)
-------------------------------------------------------------------------------
\* A RoomClient is created.
Connect ==
  /\ session = "none" /\ ~panicked
  /\ session' = "setup" /\ roster' = <<>> /\ launched' = FALSE
  /\ UNCHANGED <<queue, shown, busy, globe, facing, started, panicked>>

\* onPlayerJoin, during the setup or in the lobby; the local player comes last
\* in the setup and needs a place.
PlayerJoins(m) ==
  /\ session \in {"setup", "open"} /\ ~panicked
  /\ \A n \in 1..Len(roster) : roster[n] # m
  /\ Len(roster) < IF session = "setup" THEN MaxPlayers - 1 ELSE MaxPlayers
  /\ roster' = Append(roster, m)
  /\ Enqueue(Append(queue, Join(m)))
  /\ UNCHANGED <<session, pageVars>>

\* The setup ends: onSettingsChange, then onMain opens the page, whose onActivate
\* takes in the queue, then the local player joins.
EnterRoom ==
  /\ session = "setup" /\ ~panicked
  /\ session' = "open"
  /\ roster' = Append(roster, Self)
  /\ IF Len(queue) = Capacity
     THEN panicked' = TRUE /\ UNCHANGED <<queue, shown>>
     ELSE /\ shown' = [n \in 1..Len(queue) |-> queue[n].mii]
          /\ queue' = <<Join(Self)>>
          /\ UNCHANGED panicked
  /\ globe' = NoOne /\ facing' = NoOne /\ busy' = FALSE
  /\ UNCHANGED <<started, launched>>

PlayerLeaves(i) ==
  /\ session = "open" /\ ~panicked
  /\ i < Len(roster) /\ roster[i + 1] # Self
  /\ "overlappingLeaves" \in Faults \/ Positions("leave") = {}
  /\ "unspoken" \in Faults \/ Cancelled(i) = {} \/ Positions("comment") = {}
  /\ roster' = Without(roster, i)
  /\ Enqueue(AfterLeave(i))
  /\ UNCHANGED <<session, pageVars>>

CommentArrives(i) ==
  /\ session = "open" /\ ~panicked /\ i < Len(roster)
  /\ Enqueue(AfterComment(i))
  /\ UNCHANGED <<session, roster, pageVars>>

SettingsChange ==
  /\ session = "open" /\ ~panicked
  /\ Enqueue(AfterSettings)
  /\ UNCHANGED <<session, roster, pageVars>>

\* onRoomStart: nothing that still waits is shown any more.
RoomStarts ==
  /\ session = "open" /\ ~panicked
  /\ session' = "started"
  /\ queue' = <<Start>>
  /\ UNCHANGED <<roster, pageVars, panicked>>

\* The connection ends, or the user leaves: collapse() pops the page, which
\* resets the queue.
ConnectionEnds ==
  /\ session \in {"open", "started"} /\ ~panicked
  /\ "startAborts" \in Faults \/ ~started
  /\ session' = "none"
  /\ queue' = <<>>
  /\ UNCHANGED <<roster, pageVars, panicked>>

-------------------------------------------------------------------------------
(***************************************************************************)
(* afterCalc, once a frame: counts the timer down, launches a room whose   *)
(* start has been shown, or shows the front of the queue.                  *)
(***************************************************************************)
Calc == session \in {"open", "started"} /\ ~panicked

TimerExpires ==
  /\ Calc /\ busy
  /\ busy' = FALSE
  /\ UNCHANGED <<session, roster, queue, shown, globe, facing, started, launched, panicked>>

\* The section of the races replaces this one; its pages are made anew when the
\* players come back.
NewPage ==
  /\ queue' = <<>> /\ shown' = <<>>
  /\ globe' = NoOne /\ facing' = NoOne /\ started' = FALSE

\* prepareStartClient, collapse, pop, startClient
Launch ==
  /\ Calc /\ ~busy /\ started
  /\ launched' = TRUE
  /\ session' = "none"
  /\ NewPage
  /\ UNCHANGED <<roster, busy, panicked>>

Shows(type) ==
  /\ Calc /\ ~busy /\ ~started
  /\ queue # <<>> /\ Head(queue).type = type
  /\ queue' = Tail(queue)
  /\ UNCHANGED <<session, roster, launched>>

\* Turn the globe to player i of players
TurnTo(i, players) ==
  /\ globe' = i
  /\ facing' = IF i < Len(players) THEN players[i + 1] ELSE NoOne
  /\ busy' = TRUE

ShowJoin ==
  /\ Shows("join")
  /\ IF Len(shown) < MaxPlayers
     THEN /\ shown' = Append(shown, Head(queue).mii)
          /\ TurnTo(Len(shown), shown')
          /\ UNCHANGED panicked
     ELSE panicked' = TRUE /\ UNCHANGED <<shown, globe, facing, busy>>
  /\ UNCHANGED started

\* Player i leaves the screen.
TakeAway(i) ==
  IF shown # <<>>
  THEN /\ shown' = Without(shown, i)
       /\ globe' = IF globe = NoOne \/ globe = i THEN NoOne
                   ELSE IF globe > i THEN globe - 1 ELSE globe
       /\ UNCHANGED panicked
  ELSE panicked' = TRUE /\ UNCHANGED <<shown, globe>>

\* Mutant of ShowLeave: the globe is shifted for the leaving player as well.
ShowLeaveOffByOne ==
  /\ Shows("leave")
  /\ LET i == Head(queue).player IN
       /\ shown' = Without(shown, i)
       /\ globe' = IF globe = NoOne THEN NoOne ELSE IF globe >= i THEN globe - 1 ELSE globe
  /\ UNCHANGED <<busy, facing, started, panicked>>

ShowLeave ==
  /\ Shows("leave")
  /\ TakeAway(Head(queue).player)
  /\ UNCHANGED <<busy, facing, started>>

ShowComment ==
  /\ Shows("comment")
  /\ TurnTo(Head(queue).player, shown)
  /\ UNCHANGED <<shown, started, panicked>>

ShowSettings ==
  /\ Shows("settings")
  /\ IF shown # <<>> THEN TurnTo(0, shown) /\ UNCHANGED panicked
                     ELSE panicked' = TRUE /\ UNCHANGED <<globe, facing, busy>>
  /\ UNCHANGED <<shown, started>>

\* Mutant of ShowStart: m_roomStarted is not set.
ShowStartOnly ==
  /\ Shows("start")
  /\ TurnTo(0, shown)
  /\ UNCHANGED <<shown, started, panicked>>

ShowStart ==
  /\ Shows("start")
  /\ TurnTo(0, shown)
  /\ started' = TRUE
  /\ UNCHANGED <<shown, panicked>>

AfterCalc ==
  \/ TimerExpires \/ Launch
  \/ ShowJoin \/ ShowLeave \/ ShowComment \/ ShowSettings \/ ShowStart

PageNext ==
  \/ Connect \/ EnterRoom \/ SettingsChange \/ RoomStarts \/ ConnectionEnds
  \/ \E m \in Miis : PlayerJoins(m)
  \/ \E i \in 0..(MaxPlayers - 1) : PlayerLeaves(i) \/ CommentArrives(i)
  \/ AfterCalc

\* The page is calculated every frame; nothing else has to happen.
PageSpec == PageInit /\ [][PageNext]_roomAndPage /\ WF_roomAndPage(AfterCalc)
-------------------------------------------------------------------------------
Entries ==
  [type : {"join"}, mii : Miis \cup {Self}]
    \cup [type : {"leave"}, player : 0..(MaxPlayers - 1)]
    \cup [type : {"comment"}, player : 0..(MaxPlayers - 1), by : Miis \cup {Self}]
    \cup [type : {"settings", "start"}]

PageTypeOK ==
  /\ session \in {"none", "setup", "open", "started"}
  /\ roster \in Seq(Miis \cup {Self}) /\ shown \in Seq(Miis \cup {Self})
  /\ queue \in Seq(Entries)
  /\ globe \in 0..(MaxPlayers - 1) \cup {NoOne}
  /\ facing \in Miis \cup {Self, NoOne}
  /\ {busy, started, launched, panicked} \subseteq BOOLEAN

\* The players on screen once the first n entries of the queue have been shown.
Show(e, players) ==
  IF e.type = "join" THEN Append(players, e.mii)
  ELSE IF e.type = "leave" THEN Without(players, e.player)
  ELSE players

ShownAfter(n) ==
  LET screen[k \in 0..Len(queue)] == IF k = 0 THEN shown ELSE Show(queue[k], screen[k - 1])
  IN  screen[n]

\* However arrivals and departures overtake the animation, the queue leads from
\* the players on screen to the players in the room, in the order of their ids,
\* and through every entry it refers to players that are then on screen.  While
\* the globe is turned to a player, m_globePlayerId is that player's id, also
\* after others left.
GlobeFacesItsPlayer ==
  globe # NoOne /\ shown # <<>> => globe < Len(shown) /\ shown[globe + 1] = facing

ScreenFollowsRoom ==
  /\ session = "open" =>
       /\ ShownAfter(Len(queue)) = roster
       /\ \A n \in Positions("leave") : queue[n].player < Len(ShownAfter(n - 1))
  /\ GlobeFacesItsPlayer

\* A message is shown with the Mii of the player who sent it, although the queue
\* may have changed between the two.
MessagesNameTheirSender ==
  session = "open" =>
    \A n \in Positions("comment") :
      LET then == ShownAfter(n - 1) IN
      queue[n].player < Len(then) /\ then[queue[n].player + 1] = queue[n].by

\* "Join: 12, Leave: 12, Comment: 18, Settings: 1, Start: 1": the queue holds no
\* more of a kind than its capacity was computed from, and no assertion of the
\* page fails, on the queue or on the places for players.
QueueFits ==
  /\ Cardinality(Positions("join")) <= MaxPlayers
  /\ Cardinality(Positions("leave")) <= MaxPlayers
  /\ Cardinality(Positions("comment")) <= MaxComments
  /\ Cardinality(Positions("settings")) <= 1
  /\ Cardinality(Positions("start")) <= 1
  /\ ~panicked

\* A room that has started is launched, or its connection ends.
StartIsLaunched == (session = "started") ~> (session = "none")
===============================================================================
