-------------------------------- MODULE Voting --------------------------------
(***************************************************************************)
(* The course vote on the screens of the consoles: VotingBackPage, which   *)
(* takes over the room's events from FriendMatchingPage, and RoulettePage, *)
(* which shows one row per vote, turns the roulette and starts the race.   *)
(*                                                                         *)
(* The room is what Room's handle_select promises: one SelectPulse per     *)
(* player, in the order it counts the votes, and one SelectInfo after the  *)
(* last.  RoomClient keeps the order of the pulses from the moment the     *)
(* room starts; the pages are opened later, each when its user gets there, *)
(* and show the votes one every five frames.                               *)
(***************************************************************************)
EXTENDS Naturals, Sequences, FiniteSets

CONSTANTS
  PlayerCount,   \* m_playerCount
  Screens,       \* the players whose consoles are modelled, the others just vote
  Courses,
  NoRow,         \* -1 in m_votePlayerOrder and m_playerOrder
  NoCourse,      \* menuScenario.courseId before the outcome
  NoPlayer       \* m_hoverPlayerIdx is -1: initSelectingStage was not called

Players == 0..(PlayerCount - 1)

ASSUME VotingAssumption ==
  /\ PlayerCount \in Nat \ {0}
  /\ Screens \subseteq Players
  /\ NoRow \notin Nat /\ NoPlayer \notin Players /\ NoCourse \notin Courses

VARIABLES
  vote,         \* per player: the course it votes for
  cast,         \* the players whose vote is on its way to the room, or counted
  events,       \* what the room has sent to every console
  page,         \* per screen: the page in front, and m_stage of RoulettePage
  taken,        \* per screen: how many events its RoomClient has read
  voteOrder,    \* RoomManager.m_votePlayerOrder
  nextOrder,    \* RoomManager.m_voteCurrentPlayerIdx
  selected,     \* VotingBackPage.m_selected, as a set
  courseVotes,  \* VotingBackPage.m_courseVotes
  rowOf,        \* RoulettePage.m_playerOrder
  processed,    \* RoulettePage.m_processed, as a set
  nextRow,      \* RoulettePage.m_currentPlayerIdx
  drawn,        \* RoulettePage.m_selectedPlayer
  courseId      \* RaceConfig's menuScenario().courseId

roomVars == <<vote, cast, events>>
clientVars == <<taken, voteOrder, nextOrder>>
rouletteVars == <<rowOf, processed, nextRow>>
outcomeVars == <<courseVotes, drawn, courseId>>
vars == <<roomVars, clientVars, page, selected, rouletteVars, outcomeVars>>

\* "room"     the room has started, FriendMatchingPage still reads its events
\* "voting"   VotingBackPage; the user chooses a course
\* "opened"   RoulettePage.onActivate has run, beforeInAnim has not
\* "waiting", "selecting", "selected"   RoulettePage.m_stage
\* "race"     the section of the race
Pages == {"room", "voting", "opened", "waiting", "selecting", "selected", "race"}

Pulse(p) == [type |-> "pulse", player |-> p]
Info(p) == [type |-> "info", player |-> p]     \* the votes are vote

Init ==
  /\ vote \in [Players -> Courses]
  /\ cast = Players \ Screens
  /\ events = <<>>
  /\ page = [c \in Screens |-> "room"]
  /\ taken = [c \in Screens |-> 0]
  /\ voteOrder = [c \in Screens |-> [p \in Players |-> NoRow]]
  /\ nextOrder = [c \in Screens |-> 0]
  /\ selected = [c \in Screens |-> {}]
  /\ courseVotes = [c \in Screens |-> [p \in Players |-> NoCourse]]
  /\ rowOf = [c \in Screens |-> [p \in Players |-> NoRow]]
  /\ processed = [c \in Screens |-> {}]
  /\ nextRow = [c \in Screens |-> 0]
  /\ drawn = [c \in Screens |-> NoPlayer]
  /\ courseId = [c \in Screens |-> NoCourse]

Counted == {p \in Players : \E n \in 1..Len(events) : events[n] = Pulse(p)}

\* The room counts a vote; with the last one it draws a player.
RoomCounts(p) ==
  /\ p \in cast \ Counted
  /\ IF Counted \cup {p} = Players
     THEN \E q \in Players : events' = events \o <<Pulse(p), Info(q)>>
     ELSE events' = Append(events, Pulse(p))
  /\ UNCHANGED <<vote, cast, clientVars, page, selected, rouletteVars, outcomeVars>>
-------------------------------------------------------------------------------
\* The next event the console's RoomClient reads, on whichever page.
Reads(c, type) ==
  /\ page[c] # "race" /\ taken[c] < Len(events)
  /\ events[taken[c] + 1].type = type
  /\ taken' = [taken EXCEPT ![c] = @ + 1]
Event(c) == events[taken[c] + 1]

\* RoomClient::onReceivePulse; only VotingBackPage's handler does more.
PulseArrives(c) ==
  /\ Reads(c, "pulse")
  /\ voteOrder' = [voteOrder EXCEPT ![c][Event(c).player] = nextOrder[c]]
  /\ nextOrder' = [nextOrder EXCEPT ![c] = @ + 1]
  /\ selected' = IF page[c] = "room" THEN selected
                 ELSE [selected EXCEPT ![c] = @ \cup {Event(c).player}]
  /\ UNCHANGED <<roomVars, page, rouletteVars, outcomeVars>>

\* Mutant of CourseVotes: by the rows on this screen.
CourseVotesByRow(c) ==
  [i \in Players |-> IF rowOf[c][i] \in Players THEN vote[rowOf[c][i]] ELSE courseVotes[c][i]]

\* onReceiveInfo: the course of player p goes to the index whose order is p.
CourseVotes(c) ==
  [i \in Players |->
     IF voteOrder[c][i] \in Players THEN vote[voteOrder[c][i]] ELSE courseVotes[c][i]]

\* onReceiveInfo for every player, initSelectingStage after the last.  The
\* console's own vote is counted, so RoulettePage is there.
InfoArrives(c) ==
  /\ Reads(c, "info")
  /\ page[c] \in {"waiting", "selecting", "selected"}
  /\ courseVotes' = [courseVotes EXCEPT ![c] = CourseVotes(c)]
  /\ drawn' = [drawn EXCEPT ![c] = Event(c).player]
  /\ courseId' = [courseId EXCEPT ![c] = courseVotes'[c][Event(c).player]]
  /\ UNCHANGED <<roomVars, voteOrder, nextOrder, page, selected, rouletteVars>>
-------------------------------------------------------------------------------
Turn(c, from, to) == page[c] = from /\ page' = [page EXCEPT ![c] = to]

\* Mutant of OpenVoting: what RoomClient already knows is not taken over.
OpenVotingEmpty(c) ==
  /\ Turn(c, "room", "voting")
  /\ UNCHANGED <<roomVars, clientVars, selected, rouletteVars, outcomeVars>>

\* VotingBackPage.onInit and onActivate
OpenVoting(c) ==
  /\ Turn(c, "room", "voting")
  /\ selected' = [selected EXCEPT ![c] = {p \in Players : voteOrder[c][p] # NoRow}]
  /\ UNCHANGED <<roomVars, clientVars, rouletteVars, outcomeVars>>

\* The user has chosen: onRefocus pushes RoulettePage, whose onActivate runs.
OpenRoulette(c) ==
  /\ Turn(c, "voting", "opened")
  /\ rowOf' = [rowOf EXCEPT ![c] = voteOrder[c]]
  /\ UNCHANGED <<roomVars, clientVars, selected, processed, nextRow, outcomeVars>>

\* Mutant of BeforeInAnim: the order onActivate has synced is kept.
BeforeInAnimKeepsRows(c) ==
  /\ Turn(c, "opened", "waiting")
  /\ cast' = cast \cup {c}
  /\ UNCHANGED <<vote, events, clientVars, selected, rouletteVars, outcomeVars>>

\* beforeInAnim: the rows are cleared, the vote is sent.
BeforeInAnim(c) ==
  /\ Turn(c, "opened", "waiting")
  /\ rowOf' = [rowOf EXCEPT ![c] = [p \in Players |-> NoRow]]
  /\ cast' = cast \cup {c}
  /\ UNCHANGED <<vote, events, clientVars, selected, processed, nextRow, outcomeVars>>

\* calcElements: all votes have a row and the outcome is known.
AllShown(c) == \A p \in Players : rowOf'[c][p] # NoRow
CalcElements(c) ==
  page' = [page EXCEPT ![c] =
             IF AllShown(c) /\ drawn[c] # NoPlayer THEN "selecting" ELSE "waiting"]

Lowest(S) == CHOOSE p \in S : \A q \in S : p <= q

\* beforeCalc, every fifth frame: calcPlayer gives a row to one more vote.
ShowVote(c) ==
  /\ page[c] = "waiting" /\ selected[c] \ processed[c] # {}
  /\ LET p == Lowest(selected[c] \ processed[c]) IN
       /\ rowOf' = [rowOf EXCEPT ![c][p] = IF @ = NoRow THEN nextRow[c] ELSE @]
       /\ processed' = [processed EXCEPT ![c] = @ \cup {p}]
  /\ nextRow' = [nextRow EXCEPT ![c] = @ + 1]
  /\ CalcElements(c)
  /\ UNCHANGED <<roomVars, clientVars, selected, outcomeVars>>

\* beforeCalc in any other frame
WaitForVotes(c) ==
  /\ page[c] = "waiting"
  /\ UNCHANGED rowOf
  /\ CalcElements(c)
  /\ UNCHANGED <<roomVars, clientVars, selected, processed, nextRow, outcomeVars>>

\* The roulette turns over the first nextRow rows until it slows down on the one
\* that was drawn.
Decide(c) ==
  /\ Turn(c, "selecting", "selected")
  /\ drawn[c] < nextRow[c]
  /\ UNCHANGED <<roomVars, clientVars, selected, rouletteVars, outcomeVars>>

\* m_delay has run out: changeSection
StartRace(c) ==
  /\ Turn(c, "selected", "race")
  /\ UNCHANGED <<roomVars, clientVars, selected, rouletteVars, outcomeVars>>

PageCalc(c) ==
  \/ OpenRoulette(c) \/ BeforeInAnim(c) \/ WaitForVotes(c)
  \/ Decide(c) \/ StartRace(c)

Next ==
  \/ \E p \in Players : RoomCounts(p)
  \/ \E c \in Screens :
       \/ PulseArrives(c) \/ InfoArrives(c)
       \/ OpenVoting(c) \/ PageCalc(c) \/ ShowVote(c)

\* The room counts what was sent, every frame reads events and calculates the
\* page, every fifth shows a vote; and the users choose their courses.
Spec ==
  /\ Init /\ [][Next]_vars
  /\ \A p \in Players : WF_vars(RoomCounts(p))
  /\ \A c \in Screens :
       /\ WF_vars(PulseArrives(c) \/ InfoArrives(c))
       /\ WF_vars(OpenVoting(c)) /\ WF_vars(PageCalc(c)) /\ WF_vars(ShowVote(c))
-------------------------------------------------------------------------------
Rows == Players \cup {NoRow}

TypeOK ==
  /\ vote \in [Players -> Courses] /\ cast \subseteq Players
  /\ events \in Seq([type : {"pulse", "info"}, player : Players])
  /\ page \in [Screens -> Pages]
  /\ taken \in [Screens -> 0..(PlayerCount + 1)]
  /\ voteOrder \in [Screens -> [Players -> Rows]]
  /\ nextOrder \in [Screens -> 0..PlayerCount]
  /\ {selected, processed} \subseteq [Screens -> SUBSET Players]
  /\ courseVotes \in [Screens -> [Players -> Courses \cup {NoCourse}]]
  /\ rowOf \in [Screens -> [Players -> Rows]]
  /\ nextRow \in [Screens -> 0..PlayerCount]
  /\ drawn \in [Screens -> Players \cup {NoPlayer}]
  /\ courseId \in [Screens -> Courses \cup {NoCourse}]

Turning == {"selecting", "selected", "race"}

\* Every vote has a row of its own, whether it was cast before the page was opened
\* or after, and in whatever order the votes were shown; and once the roulette
\* turns, the rows are those it turns over.
OneRowPerVote ==
  \A c \in Screens : page[c] \in {"waiting"} \cup Turning =>
    /\ \A p, q \in processed[c] : rowOf[c][p] = rowOf[c][q] => p = q
    /\ page[c] \in Turning => {rowOf[c][p] : p \in Players} = 0..(nextRow[c] - 1)

\* Consoles that know the outcome race on the same course, one that was voted for,
\* although each opened its pages at another time and shows the votes in another
\* order.
AllRaceTheSame ==
  \A c, d \in Screens : drawn[c] # NoPlayer /\ drawn[d] # NoPlayer =>
    courseId[c] = courseId[d] /\ \E p \in Players : courseId[c] = vote[p]

\* A console that has joined the vote reaches the race: no vote is missed between
\* the two handlers, so that the roulette waits for ever.
EveryoneRaces == \A c \in Screens : (page[c] = "room") ~> (page[c] = "race")
===============================================================================
