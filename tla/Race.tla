---------------------------------- MODULE Race ----------------------------------
(***************************************************************************)
(* The start and the frames of an online race: Room::handle_race, the      *)
(* RaceClient and the KartRollback of every console, and the two ways      *)
(* between console and room.                                               *)
(*                                                                         *)
(* Requests go over the secure channel, in order.  A console's requests on *)
(* their way (m_writeQueue, TCP, the task of the client, read_rx) are one  *)
(* queue of at most Backlog; the room takes them from the consoles in any  *)
(* order.  Pings and server frames are datagrams: they are lost, repeated  *)
(* and reordered.  A console has one player, whose data is abstracted to   *)
(* the race time it was sent at.                                           *)
(*                                                                         *)
(* A datagram that is lost is one that is never received, and a console    *)
(* that leaves, or that poll finds cut off, is one that takes no more      *)
(* steps: handle_race reads neither of them.                               *)
(***************************************************************************)
EXTENDS Naturals, Sequences

CONSTANTS
  Consoles,
  Backlog,      \* requests of one console that can be under way
  History,      \* entries of KartRollback::m_frames
  MaxClock,     \* bound: race time
  MaxFrames,    \* bound: frames the room sends
  NoFrame

ASSUME RaceAssumption ==
  /\ Consoles # {}
  /\ Backlog \in Nat \ {0} /\ History \in Nat \ {0}
  /\ MaxClock \in Nat /\ MaxFrames \in Nat
  /\ NoFrame \notin Nat

VARIABLES
  clock,      \* System::RaceManager::time of each console
  frame,      \* RaceClient::m_frame, as its place in sent
  history,    \* KartRollback::m_frames of each remote kart: the times of its entries
  backlog,    \* the race times of a console's requests under way
  cut,        \* a request found the write queue full: no later one is decrypted
  pings,      \* consoles with a RaceClientPing under way
  stage,      \* of handle_race: "pings", "collect", "frames"
  pending,    \* pending_clients
  playerTime, \* player_frames: of whom the room holds which frame
  sent        \* the RaceServerFrames, each broadcast once; `time` is its place

consoleVars == <<clock, frame, history>>
roomVars == <<stage, pending, playerTime, sent>>
vars == <<consoleVars, cut, backlog, pings, roomVars>>

Unsent == [player : Consoles, time : {NoFrame}]
PlayerFrame == [player : Consoles, time : Nat]
NoFrames == [c \in Consoles |-> [player |-> c, time |-> NoFrame]]

Init ==
  /\ clock = [c \in Consoles |-> 0]
  /\ frame = [c \in Consoles |-> 0]
  /\ history = [c \in Consoles |-> [p \in Consoles |-> <<>>]]
  /\ backlog = [c \in Consoles |-> <<>>]
  /\ cut = [c \in Consoles |-> FALSE]
  /\ pings = {}
  /\ stage = "pings"
  /\ pending = Consoles
  /\ playerTime = NoFrames
  /\ sent = <<>>
-------------------------------------------------------------------------------
\* RaceClient::isFrameValid, on what the room decides of a frame.
Valid(c, n) ==
  frame[c] # 0 =>
    /\ n > frame[c]
    /\ \A p \in Consoles : sent[n][p].time >= sent[frame[c]][p].time

\* calcRead: one datagram; any frame that was sent may be the next to arrive.
CalcRead(c) ==
  /\ \E n \in 1..Len(sent) :
       /\ Valid(c, n)
       /\ frame' = [frame EXCEPT ![c] = n]
  /\ UNCHANGED <<clock, history, cut, backlog, pings, roomVars>>

\* Until a frame has arrived the console keeps pinging.
Ping(c) == pings' = IF frame[c] = 0 THEN pings \cup {c} ELSE pings

\* AsyncSocket::write takes the request, unless the queue is full; then no later
\* one arrives either.
Request(c, now) ==
  IF Len(backlog[c]) < Backlog /\ ~cut[c]
    THEN /\ backlog' = [backlog EXCEPT ![c] = Append(@, now)]
         /\ UNCHANGED cut
    ELSE cut' = [cut EXCEPT ![c] = TRUE] /\ UNCHANGED backlog

\* The place the popping stops at.
First(places) == CHOOSE i \in places : \A j \in places : i <= j

\* Entries are popped from the front while they are older than time.
PopBefore(frames, time) ==
  LET kept == {i \in 1..Len(frames) : frames[i] >= time} IN
  IF kept = {} THEN <<>> ELSE SubSeq(frames, First(kept), Len(frames))

\* Mutant of HandleFuture: a full history is not looked at.
HandleFutureFull(frames, time, now) ==
  Append(PopBefore(frames, now), time)

\* A frame from ahead of our own clock is kept for when we get there.
HandleFuture(frames, time, now) ==
  LET rest == PopBefore(frames, now) IN
  IF Len(rest) < History THEN Append(rest, time) ELSE rest

\* A frame from the past corrects the entry of its time, if that is at the front
\* then, and all that follow by the same difference.
HandlePast(frames, time) == PopBefore(frames, time)

CalcEarly(c, p, now) ==
  LET time == sent[frame[c]][p].time IN
  IF frame[c] = 0 THEN history[c][p]
  ELSE IF now <= time THEN HandleFuture(history[c][p], time, now)
  ELSE HandlePast(history[c][p], time)

\* Mutant of CalcLate: the present is recorded even when a later entry exists.
CalcLateAlways(frames, now) ==
  Append(IF Len(frames) = History THEN Tail(frames) ELSE frames, now)

\* What the kart did here is recorded, unless the history is already ahead.
CalcLate(frames, now) ==
  IF frames # <<>> /\ frames[Len(frames)] >= now THEN frames
  ELSE Append(IF Len(frames) = History THEN Tail(frames) ELSE frames, now)

\* One frame of the race scene after calcRead: the clock, the remote karts, and
\* calcWrite.  The game starts the countdown, and with it the clock, once
\* m_canStartCountdown is set.
CalcWrite(c) ==
  \E now \in {clock[c]} \cup {n \in 1..MaxClock : frame[c] # 0 /\ n = clock[c] + 1} :
    /\ clock' = [clock EXCEPT ![c] = now]
    /\ history' = [history EXCEPT ![c] =
         [p \in Consoles |-> IF p = c THEN <<>> ELSE CalcLate(CalcEarly(c, p, now), now)]]
    /\ Ping(c)
    /\ Request(c, now)
    /\ UNCHANGED <<frame, roomVars>>

-------------------------------------------------------------------------------
\* The room waits for a ping of every client; a repeated one changes nothing.
ReceivePing(c) ==
  /\ stage = "pings"
  /\ c \in pings
  /\ \E again \in BOOLEAN : pings' = IF again THEN pings ELSE pings \ {c}
  /\ pending' = pending \ {c}
  /\ stage' = IF pending' = {} THEN "collect" ELSE "pings"
  /\ UNCHANGED <<consoleVars, cut, backlog, playerTime, sent>>

\* Mutant of TakesRequest: the frame goes to the player with the key's number.
TakesByKey(c) ==
  /\ backlog[c] # <<>>
  /\ backlog' = [backlog EXCEPT ![c] = Tail(@)]
  /\ \E p \in Consoles :
       playerTime' = [playerTime EXCEPT ![p] = [player |-> c, time |-> Head(backlog[c])]]

\* Mutant of TakesRequest: the newest request is taken, the others follow later.
TakesNewest(c) ==
  /\ backlog[c] # <<>>
  /\ backlog' = [backlog EXCEPT ![c] = SubSeq(@, 1, Len(@) - 1)]
  /\ playerTime' = [playerTime EXCEPT ![c] =
                      [player |-> c, time |-> backlog[c][Len(backlog[c])]]]

\* The next request of console c replaces the frame of its player.
TakesRequest(c) ==
  /\ backlog[c] # <<>>
  /\ backlog' = [backlog EXCEPT ![c] = Tail(@)]
  /\ playerTime' = [playerTime EXCEPT ![c] = [player |-> c, time |-> Head(backlog[c])]]

Collect(c) ==
  /\ stage = "collect"
  /\ TakesRequest(c)
  /\ stage' = IF \A p \in Consoles : playerTime'[p].time # NoFrame THEN "frames" ELSE stage
  /\ UNCHANGED <<consoleVars, cut, pings, pending, sent>>

Broadcast(c) ==
  /\ stage = "frames" /\ Len(sent) < MaxFrames
  /\ TakesRequest(c)
  /\ sent' = Append(sent, playerTime')
  /\ UNCHANGED <<consoleVars, cut, pings, stage, pending>>

Next ==
  \E c \in Consoles :
    CalcRead(c) \/ CalcWrite(c) \/ ReceivePing(c) \/ Collect(c) \/ Broadcast(c)

Spec == Init /\ [][Next]_vars
-------------------------------------------------------------------------------
TypeOK ==
  /\ clock \in [Consoles -> 0..MaxClock]
  /\ frame \in [Consoles -> 0..Len(sent)]
  /\ history \in [Consoles -> [Consoles -> Seq(Nat)]]
  /\ \A c, p \in Consoles : Len(history[c][p]) <= History
  /\ backlog \in [Consoles -> Seq(Nat)]
  /\ \A c \in Consoles : Len(backlog[c]) <= Backlog
  /\ cut \in [Consoles -> BOOLEAN]
  /\ pings \subseteq Consoles /\ pending \subseteq Consoles
  /\ stage \in {"pings", "collect", "frames"}
  /\ playerTime \in [Consoles -> PlayerFrame \cup Unsent]
  /\ sent \in Seq([Consoles -> PlayerFrame])

\* No console is shown a player's future, or another player in its place: a frame
\* a console holds carries of every player what that player's console has sent.
FramesAreTrue ==
  \A c, p \in Consoles : frame[c] # 0 =>
    /\ sent[frame[c]][p].player = p
    /\ sent[frame[c]][p].time <= clock[p]

\* The check of the player times never locks a console out: whatever frame it
\* holds, every newer frame of the room passes isFrameValid.
NewerIsValid ==
  \A c \in Consoles : \A n \in 1..Len(sent) : n > frame[c] => Valid(c, n)

\* The history of a remote kart is ordered by time, on which popping from its
\* front, the test of its back and the correction of all that follows rely.
HistoryInOrder ==
  \A c, p \in Consoles : \A i, j \in 1..Len(history[c][p]) :
    i <= j => history[c][p][i] <= history[c][p][j]
===============================================================================
