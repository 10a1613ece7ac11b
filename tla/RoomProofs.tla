------------------------------ MODULE RoomProofs ------------------------------
(***************************************************************************)
(* For any number of connections, any slab, queues and broadcast channel,  *)
(* and any requests: the slab and the players of a room agree, a match is  *)
(* a pair, and the draw follows all the votes.  With the consoles of       *)
(* RoomClient at the other end, the room keeps what was proved of it, the  *)
(* consoles agree on the outcome of a vote, and every roster is on its way *)
(* to the players of the room.  As long as nobody sends settings, nobody   *)
(* is evicted who has not gone and no console is sent what it refuses.     *)
(***************************************************************************)
EXTENDS OnlineRoom, FiniteSetTheorems, SequenceTheorems, WellFoundedInduction, TLAPS

Present == {"greet", "loop", "deliver", "leave"}
Before == {"none", "admit", "queued"}

\* The requests that may be on their way to the room.
Allowed == IF matchmaking THEN {r \in Requests : r.type \in {"vote", "teamSelect"}}
                          ELSE Requests

\* What is known of a connection from where its task stands.
ConnOK ==
  \A c \in Conns :
    /\ task[c] \in Before => toClient[c] = <<>> /\ ~aborted[c]
    /\ task[c] = "admit" => toServer[c] = <<JoinRequest>>
    /\ task[c] = "queued" => toServer[c] = <<>>
    /\ task[c] \in Present => key[c] \in Keys /\ toServer[c] \in Seq(Allowed)
    /\ task[c] = "deliver" => holding[c] \in Allowed

\* Who is queued waits for the room, and is queued once.
QueueOK ==
  /\ \A i \in 1..Len(connectRx) : task[connectRx[i]] = "queued"
  /\ \A i, j \in 1..Len(connectRx) : connectRx[i] = connectRx[j] => i = j
  /\ \A i \in 1..Len(readRx) : readRx[i].request \in Allowed

\* A connection the slab holds has a task that was told its key.
HeldOK ==
  \A k \in Keys : clients[k] # NoConn =>
    task[clients[k]] \in Present \cup {"ended"} /\ key[clients[k]] = k

\* The free list holds the vacant keys, each of them once.
SlabFree ==
  /\ \A k \in Keys : clients[k] = NoConn <=> \E n \in 1..Len(vacant) : vacant[n] = k
  /\ \A m, n \in 1..Len(vacant) : vacant[m] = vacant[n] => m = n

\* Players and clients correspond one to one.
PlayersOK ==
  /\ \A i \in 1..Len(players) : players[i].conn = clients[players[i].key]
  /\ \A i, j \in 1..Len(players) : players[i].key = players[j].key => i = j
  /\ \A k \in Keys : clients[k] # NoConn => \E i \in 1..Len(players) : players[i].key = k

RoomInv == TypeOK /\ ConnOK /\ QueueOK /\ HeldOK /\ SlabFree /\ PlayersOK

Player == [key : Keys, conn : Conns, vote : Courses \cup {NoVote}]
Held == [key : Keys, conn : Conns, request : Requests]
AnUpdate == [conn : Conns, isJoin : BOOLEAN, isHost : BOOLEAN]

-------------------------------------------------------------------------------
(***************************************************************************)
(* What the operators of Room return.                                      *)
(***************************************************************************)
\* The constants, as the proofs use them.
LEMMA Facts ==
  /\ MaxClients \in Nat /\ MaxClients > 0 /\ MaxPlayers \in Nat /\ MaxRequests \in Nat
  /\ ChannelCap \in Nat /\ LogCap \in Nat /\ Keys \subseteq Nat /\ IsFiniteSet(Keys)
  /\ Cardinality(Keys) = MaxClients
  /\ NoConn \notin Conns /\ NoKey \notin Keys /\ NoVote \notin Courses
  /\ IsFiniteSet(Conns) /\ Gamemodes \subseteq Nat
<1>1. MaxClients \in Nat /\ MaxClients > 0
  BY RoomAssumption
<1>2. IsFiniteSet(Keys) /\ Cardinality(Keys) = MaxClients
  BY <1>1, FS_Interval DEF Keys
<1>3. Keys \subseteq Nat
  BY <1>1 DEF Keys
<1> QED
  BY <1>1, <1>2, <1>3, RoomAssumption

\* TypeOK, one variable at a time.
LEMMA Typed ==
  ASSUME TypeOK
  PROVE  /\ clients \in [Keys -> Conns \cup {NoConn}] /\ vacant \in Seq(Keys)
         /\ players \in Seq(Player) /\ updates \in Seq(AnUpdate)
         /\ connectRx \in Seq(Conns) /\ disconnectRx \in Seq(Keys) /\ readRx \in Seq(Held)
         /\ log \in Seq(Events) /\ task \in [Conns -> TaskStates]
         /\ Len(log) \in Nat /\ Len(players) \in Nat /\ Len(vacant) \in Nat
         /\ Len(connectRx) \in Nat /\ Len(readRx) \in Nat /\ Len(disconnectRx) \in Nat
         /\ \A i \in 1..Len(players) : players[i] \in Player
         /\ \A i \in 1..Len(vacant) : vacant[i] \in Keys
         /\ \A i \in 1..Len(connectRx) : connectRx[i] \in Conns
         /\ \A i \in 1..Len(readRx) : readRx[i] \in Held
<1>1. /\ clients \in [Keys -> Conns \cup {NoConn}] /\ vacant \in Seq(Keys)
      /\ players \in Seq(Player) /\ updates \in Seq(AnUpdate)
      /\ connectRx \in Seq(Conns) /\ disconnectRx \in Seq(Keys) /\ readRx \in Seq(Held)
      /\ log \in Seq(Events) /\ task \in [Conns -> TaskStates]
  BY DEF TypeOK, Player, AnUpdate, Held
<1> QED
  BY <1>1, LenProperties, ElementOfSeq

\* The requests sent are requests.
LEMMA AllowedRequests == Allowed \subseteq Requests
BY DEF Allowed

\* A client's players are one, and its events are one event.
LEMMA OnePlayer ==
  ASSUME RoomInv, NEW k \in Keys, clients[k] # NoConn
  PROVE  \E i \in 1..Len(players) :
           /\ players[i].key = k /\ players[i].conn = clients[k]
           /\ ClientPlayers(k) = {i}
           /\ Cardinality(ClientPlayers(k)) = 1 /\ Lowest(ClientPlayers(k)) = i
           /\ LeaveEvents(k) = <<LeaveEvent(i - 1)>> /\ PulseEvents(k) = <<PulseEvent(i - 1)>>
<1>1. PICK i \in 1..Len(players) : players[i].key = k
  BY DEF RoomInv, PlayersOK
<1>2. ClientPlayers(k) = {i} /\ players[i].conn = clients[k]
  BY <1>1 DEF ClientPlayers, RoomInv, PlayersOK
<1>a. Len(players) \in Nat
  BY Typed DEF RoomInv
<1>b. Cardinality({i}) = 1 /\ Cardinality({}) = 0
  BY FS_Singleton, FS_EmptySet
<1>3. Cardinality({i}) = 1 /\ Cardinality({}) = 0 /\ i \in Nat
  BY <1>a, <1>b
<1>4. Lowest({i}) = i
  BY <1>3 DEF Lowest
<1>5. NthLowest({i}, 1) = i
  <2>1. {j \in {i} : j < i} = {}
    BY <1>3
  <2> QED
    BY <1>3, <2>1 DEF NthLowest
<1>6. NthHighest({i}, 1) = i
  <2>1. {j \in {i} : j > i} = {}
    BY <1>3
  <2> QED
    BY <1>3, <2>1 DEF NthHighest
<1>7. LeaveEvents(k) = <<LeaveEvent(i - 1)>>
  <2>1. LeaveEvents(k) = [n \in 1..1 |-> LeaveEvent(NthHighest({i}, n) - 1)]
    BY <1>2, <1>3 DEF LeaveEvents
  <2>2. LeaveEvents(k) = [n \in 1..1 |-> LeaveEvent(i - 1)]
    BY <1>6, <2>1
  <2> QED
    BY <2>2
<1>8. PulseEvents(k) = <<PulseEvent(i - 1)>>
  <2>1. PulseEvents(k) = [n \in 1..1 |-> PulseEvent(NthLowest({i}, n) - 1)]
    BY <1>2, <1>3 DEF PulseEvents
  <2>2. PulseEvents(k) = [n \in 1..1 |-> PulseEvent(i - 1)]
    BY <1>5, <2>1
  <2> QED
    BY <2>2
<1> QED
  BY <1>1, <1>2, <1>3, <1>4, <1>7, <1>8


\* Counting the numbers that are left when i is taken out of 1..m.
LEMMA CountRest ==
  ASSUME NEW m \in Nat, NEW i \in 1..m
  PROVE  Cardinality((1..m) \ {i}) = m - 1
<1>1. IsFiniteSet(1..m) /\ Cardinality(1..m) = m
  BY FS_Interval
<1> QED
  BY <1>1, FS_RemoveElement

\* The n-th lowest of what is left when one place is taken out of 1..n.
LEMMA NthOfRest ==
  ASSUME NEW m \in Nat, NEW i \in 1..m, NEW n \in 1..(m - 1)
  PROVE  NthLowest((1..m) \ {i}, n) = IF n < i THEN n ELSE n + 1
<1> DEFINE S == (1..m) \ {i}
           v == IF n < i THEN n ELSE n + 1
<1>2. ASSUME NEW j \in S
      PROVE  Cardinality({x \in S : x < j}) = IF j < i THEN j - 1 ELSE j - 2
  <2>1. {x \in S : x < j} = (1..(j - 1)) \ {i}
    OBVIOUS
  <2>2. IsFiniteSet(1..(j - 1)) /\ Cardinality(1..(j - 1)) = j - 1
    BY FS_Interval
  <2>3. Cardinality((1..(j - 1)) \ {i})
          = IF i \in 1..(j - 1) THEN (j - 1) - 1 ELSE j - 1
    BY <2>2, FS_RemoveElement
  <2>4. i \in 1..(j - 1) <=> ~(j < i)
    OBVIOUS
  <2> QED
    BY <2>1, <2>3, <2>4
<1>3. v \in S /\ Cardinality({x \in S : x < v}) = n - 1
  BY <1>2
<1>4. \A j \in S : Cardinality({x \in S : x < j}) = n - 1 => j = v
  <2>1. TAKE j \in S
  <2>2. Cardinality({x \in S : x < j}) = IF j < i THEN j - 1 ELSE j - 2
    BY <1>2
  <2>3. j \in 1..m /\ j # i
    OBVIOUS
  <2> QED
    BY <2>2, <2>3
<1> HIDE DEF v, S
<1>5. NthLowest(S, n) \in S /\ Cardinality({x \in S : x < NthLowest(S, n)}) = n - 1
  <2>1. NthLowest(S, n) = CHOOSE j \in S : Cardinality({x \in S : x < j}) = n - 1
    BY DEF NthLowest
  <2> QED
    BY <1>3, <2>1
<1>6. NthLowest(S, n) = v
  BY <1>4, <1>5
<1> QED
  BY <1>6 DEF v, S

\* When the one player of a client is removed, the others close the gap.
LEMMA Removed ==
  ASSUME TypeOK, NEW k \in Keys, NEW i \in 1..Len(players), ClientPlayers(k) = {i}
  PROVE  /\ PlayersWithout(k) \in Seq(Player)
         /\ Len(PlayersWithout(k)) = Len(players) - 1
         /\ \A n \in 1..(Len(players) - 1) :
              PlayersWithout(k)[n] = players[IF n < i THEN n ELSE n + 1]
<1> DEFINE S == (1..Len(players)) \ {i}
           q == PlayersWithout(k)
<1>1. Len(players) \in Nat /\ players \in Seq(Player)
  BY Typed
<1>2. Cardinality(S) = Len(players) - 1 /\ Len(players) - 1 \in Nat
  BY <1>1, CountRest
<1>3. q = [n \in 1..(Len(players) - 1) |-> players[NthLowest(S, n)]]
  BY <1>2 DEF PlayersWithout
<1>4. \A n \in 1..(Len(players) - 1) : q[n] = players[IF n < i THEN n ELSE n + 1]
  <2>1. TAKE n \in 1..(Len(players) - 1)
  <2>2. NthLowest(S, n) = IF n < i THEN n ELSE n + 1
    BY <1>1, NthOfRest
  <2> QED
    BY <1>3, <2>2
<1>5. \A n \in 1..(Len(players) - 1) : q[n] \in Player
  <2>1. TAKE n \in 1..(Len(players) - 1)
  <2>2. (IF n < i THEN n ELSE n + 1) \in 1..Len(players)
    BY <1>1
  <2> QED
    BY <1>1, <1>4, <2>2, ElementOfSeq
<1>6. q \in [1..(Len(players) - 1) -> Player]
  BY <1>3, <1>5
<1>7. q \in Seq(Player)
  BY <1>2, <1>6, SeqDef
<1>8. Len(q) = Len(players) - 1
  <2>1. q \in [1..Len(q) -> Player] /\ Len(q) \in Nat
    BY <1>7, LenProperties
  <2>2. 1..Len(q) = 1..(Len(players) - 1)
    BY <1>6, <2>1
  <2> QED
    BY <1>2, <2>1, <2>2
<1> QED
  BY <1>4, <1>7, <1>8

\* Where the lobby has a place, the slab has a key for it.
LEMMA FreeKeyIsVacant ==
  ASSUME RoomInv, ~LobbyIsFull
  PROVE  /\ vacant # <<>> /\ FreeKey \in Keys /\ FreeKey = vacant[1]
         /\ clients[FreeKey] = NoConn
<1>1. Occupied \subseteq Keys /\ Cardinality(Occupied) \in Nat
  BY Facts, FS_Subset, FS_CardinalityType DEF Occupied
<1>2. Cardinality(Occupied) < Cardinality(Keys)
  BY <1>1, Facts DEF LobbyIsFull
<1>3. PICK k \in Keys : clients[k] = NoConn
  BY <1>1, <1>2 DEF Occupied
<1>4. PICK n \in 1..Len(vacant) : vacant[n] = k
  BY <1>3 DEF RoomInv, SlabFree
<1>5. vacant \in Seq(Keys) /\ Len(vacant) \in Nat
  BY Typed DEF RoomInv
<1>6. vacant # <<>> /\ 1 \in 1..Len(vacant)
  BY <1>4, <1>5, EmptySeq
<1>7. FreeKey = vacant[1] /\ vacant[1] \in Keys
  BY <1>5, <1>6, HeadTailProperties, ElementOfSeq DEF FreeKey
<1> QED
  BY <1>6, <1>7 DEF RoomInv, SlabFree

-------------------------------------------------------------------------------
(***************************************************************************)
(* The invariant, through the tasks, the listener and the consoles.        *)
(***************************************************************************)
\* A step that leaves the slab and the players alone keeps them in order.
LEMMA SlabFrame ==
  ASSUME RoomInv, UNCHANGED <<clients, vacant, players>>
  PROVE  SlabFree' /\ PlayersOK'
BY DEF RoomInv, SlabFree, PlayersOK

\* What is asked of a task that moves on: it keeps its key and what it carries.
LEMMA TaskMoves ==
  ASSUME RoomInv, NEW c \in Conns, NEW state \in Present \cup {"ended"},
         task' = [task EXCEPT ![c] = state], task[c] \notin {"none", "queued"},
         state = "deliver" => holding'[c] \in Allowed,
         state \in Present => task[c] \in Present /\ toServer'[c] \in Seq(Allowed),
         \A d \in Conns \ {c} : /\ toServer'[d] = toServer[d] /\ holding'[d] = holding[d]
                                /\ toClient'[d] = toClient[d],
         UNCHANGED <<roomVars, connectRx, key, aborted>>,
         \A i \in 1..Len(readRx)' : readRx'[i].request \in Allowed
  PROVE  ConnOK' /\ QueueOK' /\ HeldOK' /\ SlabFree' /\ PlayersOK'
<1>1. UNCHANGED <<clients, vacant, players, matchmaking, connectRx, key, aborted>>
  BY DEF roomVars
<1>2. Allowed' = Allowed
  BY <1>1 DEF Allowed
<1>3. task \in [Conns -> TaskStates] /\ \A d \in Conns : task'[d] = IF d = c THEN state ELSE task[d]
  BY Typed DEF RoomInv
<1>4. \A i \in 1..Len(connectRx) : connectRx[i] \in Conns
  BY Typed DEF RoomInv
<1>5. ConnOK'
  BY <1>1, <1>2, <1>3 DEF RoomInv, ConnOK, Present, Before
<1>6. QueueOK'
  BY <1>1, <1>2, <1>3, <1>4 DEF RoomInv, QueueOK
<1>7. HeldOK'
  <2>1. \A k \in Keys : clients[k] # NoConn => clients[k] \in Conns
    BY Typed DEF RoomInv
  <2> QED
    BY <1>1, <1>3, <2>1 DEF RoomInv, HeldOK, Present
<1> QED
  BY <1>1, <1>5, <1>6, <1>7, SlabFrame

\* The tasks of the connections, action by action: handle_client,
LEMMA AdmitInv ==
  ASSUME RoomInv, NEW c \in Conns, Admit(c)
  PROVE  RoomInv'
<1>1. /\ task[c] = "admit" /\ connectRx' = Append(connectRx, c)
      /\ toServer' = [toServer EXCEPT ![c] = Tail(@)] /\ task' = [task EXCEPT ![c] = "queued"]
      /\ UNCHANGED <<phase, gamemode, settings, clients, vacant, isHost, players, updates,
                     matchmaking, registered, disconnectRx, readRx, log, key, greeting, cursor,
                     holding, aborted, toClient, closed, sent>>
  BY DEF Admit, roomVars
<1>2. /\ task \in [Conns -> TaskStates] /\ connectRx \in Seq(Conns) /\ Len(connectRx) \in Nat
      /\ toServer \in [Conns -> Seq(Requests \cup {JoinRequest})]
  BY Typed DEF RoomInv, TypeOK
<1>3. toServer[c] = <<JoinRequest>> /\ toClient[c] = <<>> /\ ~aborted[c]
  BY <1>1 DEF RoomInv, ConnOK, Before
<1>4. Tail(toServer[c]) = <<>>
  BY <1>3
<1>5. /\ \A d \in Conns : task'[d] = IF d = c THEN "queued" ELSE task[d]
      /\ \A d \in Conns : toServer'[d] = IF d = c THEN <<>> ELSE toServer[d]
  BY <1>1, <1>2, <1>4
<1>6. Allowed' = Allowed
  BY <1>1 DEF Allowed
<1>7. /\ connectRx' \in Seq(Conns) /\ Len(connectRx') = Len(connectRx) + 1
      /\ \A i \in 1..Len(connectRx) : connectRx'[i] = connectRx[i]
      /\ connectRx'[Len(connectRx) + 1] = c
  BY <1>1, <1>2, AppendProperties
<1>8. TypeOK'
  <2>1. <<>> \in Seq(Requests \cup {JoinRequest})
    BY EmptySeq
  <2>2. toServer' \in [Conns -> Seq(Requests \cup {JoinRequest})]
    BY <1>1, <1>2, <1>4, <2>1
  <2>3. task' \in [Conns -> TaskStates]
    BY <1>1, <1>2 DEF TaskStates
  <2> QED
    BY <1>1, <1>7, <2>2, <2>3 DEF RoomInv, TypeOK
<1>9. ConnOK'
  BY <1>1, <1>3, <1>5, <1>6 DEF RoomInv, ConnOK, Present, Before
<1>10. QueueOK'
  <2>1. \A i \in 1..Len(connectRx) : connectRx[i] # c /\ connectRx[i] \in Conns
    BY <1>1, Typed DEF RoomInv, QueueOK
  <2>a. \A i \in 1..Len(connectRx)' : i \in 1..Len(connectRx) \/ i = Len(connectRx) + 1
    BY <1>2, <1>7
  <2>2. \A i \in 1..Len(connectRx)' : task'[connectRx'[i]] = "queued"
    <3>1. TAKE i \in 1..Len(connectRx)'
    <3>2. CASE i \in 1..Len(connectRx)
      <4>1. task[connectRx[i]] = "queued"
        BY <3>2 DEF RoomInv, QueueOK
      <4> QED
        BY <1>5, <1>7, <2>1, <3>2, <4>1
    <3>3. CASE i = Len(connectRx) + 1
      BY <1>5, <1>7, <3>3
    <3> QED
      BY <2>a, <3>2, <3>3
  <2>b. \A i, j \in 1..Len(connectRx) : connectRx[i] = connectRx[j] => i = j
    BY DEF RoomInv, QueueOK
  <2>3. \A i, j \in 1..Len(connectRx)' : connectRx'[i] = connectRx'[j] => i = j
    <3>1. TAKE i, j \in 1..Len(connectRx)'
    <3>2. CASE i \in 1..Len(connectRx) /\ j \in 1..Len(connectRx)
      BY <1>7, <2>b, <3>2
    <3>3. CASE i = Len(connectRx) + 1 \/ j = Len(connectRx) + 1
      BY <1>7, <2>a, <2>1, <3>3
    <3> QED
      BY <2>a, <3>2, <3>3
  <2>4. \A i \in 1..Len(readRx)' : readRx'[i].request \in Allowed'
    BY <1>1, <1>6 DEF RoomInv, QueueOK
  <2> QED
    BY <2>2, <2>3, <2>4 DEF QueueOK
<1>11. HeldOK'
  <2>1. \A k \in Keys : clients[k] # NoConn => clients[k] \in Conns /\ clients[k] # c
    BY <1>1, Typed DEF RoomInv, HeldOK, Present
  <2> QED
    BY <1>1, <1>5, <2>1 DEF RoomInv, HeldOK
<1> QED
  BY <1>1, <1>8, <1>9, <1>10, <1>11, SlabFrame DEF RoomInv

\* its early returns,
LEMMA AdmitFailsInv ==
  ASSUME RoomInv, NEW c \in Conns, AdmitFails(c)
  PROVE  RoomInv'
<1>1. /\ task[c] = "admit" /\ task' = [task EXCEPT ![c] = "ended"]
      /\ UNCHANGED <<phase, gamemode, settings, clients, vacant, isHost, players, updates,
                     matchmaking, registered, connectRx, disconnectRx, readRx, log, key, greeting,
                     cursor, holding, aborted, toServer, toClient, closed, sent>>
  BY DEF AdmitFails, roomVars, chanVars, wireVars
<1>2. TypeOK'
  <2>1. task' \in [Conns -> TaskStates]
    BY <1>1, Typed DEF RoomInv, TaskStates
  <2> QED
    BY <1>1, <2>1 DEF RoomInv, TypeOK
<1>3. "ended" \in Present \cup {"ended"} /\ "ended" \notin Present /\ "ended" # "deliver"
  BY DEF Present
<1>4. \A i \in 1..Len(readRx)' : readRx'[i].request \in Allowed
  BY <1>1 DEF RoomInv, QueueOK
<1>5. UNCHANGED <<roomVars, connectRx, key, aborted>>
  BY <1>1 DEF roomVars
<1>6. ConnOK' /\ QueueOK' /\ HeldOK' /\ SlabFree' /\ PlayersOK'
  BY <1>1, <1>3, <1>4, <1>5, TaskMoves
<1> QED
  BY <1>2, <1>6 DEF RoomInv


\* to_write,
LEMMA TaskGreetsInv ==
  ASSUME RoomInv, NEW c \in Conns, TaskGreets(c)
  PROVE  RoomInv'
<1>1. /\ task[c] = "greet" /\ task' \in {task, [task EXCEPT ![c] = "loop"]}
      /\ UNCHANGED <<phase, gamemode, settings, clients, vacant, isHost, players, updates,
                     matchmaking, registered, connectRx, disconnectRx, readRx, log, key, cursor,
                     holding, aborted, toServer, closed, sent>>
  BY DEF TaskGreets, roomVars, chanVars
<1>2. /\ greeting' \in [Conns -> Seq(Events)] /\ toClient' \in [Conns -> Seq(Events)]
      /\ \A d \in Conns \ {c} : toClient'[d] = toClient[d]
  <2>1. greeting \in [Conns -> Seq(Events)] /\ toClient \in [Conns -> Seq(Events)]
    BY DEF RoomInv, TypeOK
  <2>2. CASE greeting[c] = <<>>
    BY <2>1, <2>2 DEF TaskGreets
  <2>3. CASE greeting[c] # <<>>
    <3>1. Head(greeting[c]) \in Events /\ Tail(greeting[c]) \in Seq(Events)
      BY <2>1, <2>3, HeadTailProperties
    <3>2. Append(toClient[c], Head(greeting[c])) \in Seq(Events)
      BY <2>1, <3>1, AppendProperties
    <3> QED
      BY <2>1, <2>3, <3>1, <3>2 DEF TaskGreets, Write
  <2> QED
    BY <2>2, <2>3
<1>3. task' = [task EXCEPT ![c] = task'[c]] /\ task'[c] \in {"greet", "loop"}
  BY <1>1, Typed DEF RoomInv
<1>4. TypeOK'
  <2>1. task' \in [Conns -> TaskStates]
    BY <1>1, Typed DEF RoomInv, TaskStates
  <2> QED
    BY <1>1, <1>2, <2>1 DEF RoomInv, TypeOK
<1>5. /\ task[c] \in Present /\ task'[c] \in Present \cup {"ended"} /\ toServer'[c] \in Seq(Allowed)
      /\ task'[c] # "deliver"
  BY <1>1, <1>3 DEF Present, RoomInv, ConnOK
<1>6. \A i \in 1..Len(readRx)' : readRx'[i].request \in Allowed
  BY <1>1 DEF RoomInv, QueueOK
<1>7. UNCHANGED <<roomVars, connectRx, key, aborted>>
  BY <1>1 DEF roomVars
<1>8. ConnOK' /\ QueueOK' /\ HeldOK' /\ SlabFree' /\ PlayersOK'
  BY <1>1, <1>2, <1>3, <1>5, <1>6, <1>7, TaskMoves
<1> QED
  BY <1>4, <1>8 DEF RoomInv

\* the select! of the task: an event for the console,
LEMMA TaskWritesInv ==
  ASSUME RoomInv, NEW c \in Conns, TaskWrites(c)
  PROVE  RoomInv'
<1>1. /\ task[c] = "loop" /\ cursor[c] < Len(log)
      /\ toClient' = [toClient EXCEPT ![c] = Append(@, log[cursor[c] + 1])]
      /\ cursor' = [cursor EXCEPT ![c] = @ + 1]
      /\ UNCHANGED <<phase, gamemode, settings, clients, vacant, isHost, players, updates,
                     matchmaking, registered, connectRx, disconnectRx, readRx, log, task, key,
                     greeting, holding, aborted, toServer, closed, sent>>
  BY DEF TaskWrites, Write, roomVars, chanVars
<1>2. /\ toClient \in [Conns -> Seq(Events)] /\ cursor \in [Conns -> Nat] /\ log \in Seq(Events)
      /\ Len(log) \in Nat /\ task \in [Conns -> TaskStates]
  BY Typed DEF RoomInv, TypeOK
<1>3. log[cursor[c] + 1] \in Events
  <2>1. cursor[c] + 1 \in 1..Len(log)
    BY <1>1, <1>2
  <2> QED
    BY <1>2, <2>1, ElementOfSeq
<1>4. toClient' \in [Conns -> Seq(Events)] /\ cursor' \in [Conns -> Nat]
  <2>1. Append(toClient[c], log[cursor[c] + 1]) \in Seq(Events)
    BY <1>2, <1>3, AppendProperties
  <2> QED
    BY <1>1, <1>2, <2>1
<1>5. TypeOK'
  BY <1>1, <1>4 DEF RoomInv, TypeOK
<1>6. task' = [task EXCEPT ![c] = "loop"] /\ \A d \in Conns \ {c} : toClient'[d] = toClient[d]
  BY <1>1, <1>2
<1>7. /\ task[c] \in Present /\ "loop" \in Present \cup {"ended"} /\ toServer'[c] \in Seq(Allowed)
      /\ task[c] \notin {"none", "queued"} /\ "loop" # "deliver"
  BY <1>1 DEF Present, RoomInv, ConnOK
<1>8. \A i \in 1..Len(readRx)' : readRx'[i].request \in Allowed
  BY <1>1 DEF RoomInv, QueueOK
<1>9. UNCHANGED <<roomVars, connectRx, key, aborted>>
  BY <1>1 DEF roomVars
<1>10. ConnOK' /\ QueueOK' /\ HeldOK' /\ SlabFree' /\ PlayersOK'
  BY <1>1, <1>6, <1>7, <1>8, <1>9, TaskMoves
<1> QED
  BY <1>5, <1>10 DEF RoomInv

\* a request of the console,
LEMMA TaskReadsInv ==
  ASSUME RoomInv, NEW c \in Conns, TaskReads(c)
  PROVE  RoomInv'
<1>1. /\ task[c] = "loop" /\ toServer[c] # <<>>
      /\ holding' = [holding EXCEPT ![c] = Head(toServer[c])]
      /\ toServer' = [toServer EXCEPT ![c] = Tail(@)]
      /\ task' = [task EXCEPT ![c] = "deliver"]
      /\ UNCHANGED <<phase, gamemode, settings, clients, vacant, isHost, players, updates,
                     matchmaking, registered, connectRx, disconnectRx, readRx, log, key, greeting,
                     cursor, aborted, toClient, closed, sent>>
  BY DEF TaskReads, roomVars, chanVars
<1>2. /\ holding \in [Conns -> Requests \cup {NoRequest}] /\ task \in [Conns -> TaskStates]
      /\ toServer \in [Conns -> Seq(Requests \cup {JoinRequest})]
  BY DEF RoomInv, TypeOK
<1>3. task[c] \in Present /\ toServer[c] \in Seq(Allowed)
  BY <1>1 DEF Present, RoomInv, ConnOK
<1>4. Head(toServer[c]) \in Allowed /\ Tail(toServer[c]) \in Seq(Allowed)
  BY <1>1, <1>3, HeadTailProperties
<1>5. Tail(toServer[c]) \in Seq(Requests \cup {JoinRequest})
  BY <1>1, <1>2, HeadTailProperties
<1>6. TypeOK'
  <2>1. holding' \in [Conns -> Requests \cup {NoRequest}]
    BY <1>1, <1>2, <1>4, AllowedRequests
  <2>2. toServer' \in [Conns -> Seq(Requests \cup {JoinRequest})]
    BY <1>1, <1>2, <1>5
  <2>3. task' \in [Conns -> TaskStates]
    BY <1>1, <1>2 DEF TaskStates
  <2> QED
    BY <1>1, <2>1, <2>2, <2>3 DEF RoomInv, TypeOK
<1>7. /\ holding'[c] \in Allowed /\ toServer'[c] \in Seq(Allowed)
      /\ \A d \in Conns \ {c} : toServer'[d] = toServer[d] /\ holding'[d] = holding[d]
  BY <1>1, <1>2, <1>4
<1>8. "deliver" \in Present \cup {"ended"} /\ task[c] \notin {"none", "queued"}
  BY <1>1 DEF Present
<1>9. \A i \in 1..Len(readRx)' : readRx'[i].request \in Allowed
  BY <1>1 DEF RoomInv, QueueOK
<1>10. UNCHANGED <<roomVars, connectRx, key, aborted>>
  BY <1>1 DEF roomVars
<1>11. ConnOK' /\ QueueOK' /\ HeldOK' /\ SlabFree' /\ PlayersOK'
  BY <1>1, <1>3, <1>7, <1>8, <1>9, <1>10, TaskMoves
<1> QED
  BY <1>6, <1>11 DEF RoomInv


\* its delivery to the room,
LEMMA TaskDeliversInv ==
  ASSUME RoomInv, NEW c \in Conns, TaskDelivers(c)
  PROVE  RoomInv'
<1>1. /\ task[c] = "deliver" /\ holding' = [holding EXCEPT ![c] = NoRequest]
      /\ \/ /\ readRx' = Append(readRx, [key |-> key[c], conn |-> c, request |-> holding[c]])
            /\ task' = [task EXCEPT ![c] = "loop"]
         \/ readRx' = readRx /\ task' = [task EXCEPT ![c] = "leave"]
      /\ UNCHANGED <<phase, gamemode, settings, clients, vacant, isHost, players, updates,
                     matchmaking, registered, connectRx, disconnectRx, log, key, greeting,
                     cursor, aborted, toServer, toClient, closed, sent>>
  BY DEF TaskDelivers, roomVars, wireVars
<1>2. /\ holding \in [Conns -> Requests \cup {NoRequest}] /\ task \in [Conns -> TaskStates]
      /\ readRx \in Seq(Held) /\ Len(readRx) \in Nat
  BY Typed DEF RoomInv, TypeOK
<1>3. /\ key[c] \in Keys /\ holding[c] \in Allowed /\ toServer[c] \in Seq(Allowed)
      /\ task[c] \in Present
  BY <1>1 DEF RoomInv, ConnOK, Present
<1>4. \A i \in 1..Len(readRx) : readRx[i].request \in Allowed
  BY DEF RoomInv, QueueOK
<1>5. readRx' \in Seq(Held) /\ \A i \in 1..Len(readRx)' : readRx'[i].request \in Allowed
  <2> DEFINE h == [key |-> key[c], conn |-> c, request |-> holding[c]]
  <2>1. h \in Held /\ h.request \in Allowed
    BY <1>3, AllowedRequests DEF Held
  <2>2. /\ Append(readRx, h) \in Seq(Held) /\ Len(Append(readRx, h)) = Len(readRx) + 1
        /\ \A i \in 1..Len(readRx) : Append(readRx, h)[i] = readRx[i]
        /\ Append(readRx, h)[Len(readRx) + 1] = h
    <3> HIDE DEF h
    <3> QED
      BY <1>2, <2>1, AppendProperties
  <2>3. readRx' = Append(readRx, h) \/ readRx' = readRx
    BY <1>1
  <2> HIDE DEF h
  <2>4. CASE readRx' = Append(readRx, h)
    <3>1. \A i \in 1..Len(readRx)' : i \in 1..Len(readRx) \/ i = Len(readRx) + 1
      BY <1>2, <2>2, <2>4
    <3> QED
      BY <1>4, <2>1, <2>2, <2>4, <3>1
  <2> QED
    BY <1>2, <1>4, <2>3, <2>4
<1>6. task' = [task EXCEPT ![c] = task'[c]] /\ task'[c] \in {"loop", "leave"}
  BY <1>1, <1>2
<1>7. TypeOK'
  <2>1. task' \in [Conns -> TaskStates]
    BY <1>1, <1>2 DEF TaskStates
  <2>2. holding' \in [Conns -> Requests \cup {NoRequest}]
    BY <1>1, <1>2
  <2>3. readRx' \in Seq([key : Keys, conn : Conns, request : Requests])
    BY <1>5 DEF Held
  <2> QED
    BY <1>1, <2>1, <2>2, <2>3 DEF RoomInv, TypeOK
<1>8. /\ task'[c] \in Present \cup {"ended"} /\ task[c] \notin {"none", "queued"}
      /\ task'[c] # "deliver" /\ toServer'[c] \in Seq(Allowed)
      /\ \A d \in Conns \ {c} : toServer'[d] = toServer[d] /\ holding'[d] = holding[d]
  BY <1>1, <1>2, <1>3, <1>6 DEF Present
<1>9. UNCHANGED <<roomVars, connectRx, key, aborted>>
  BY <1>1 DEF roomVars
<1>10. ConnOK' /\ QueueOK' /\ HeldOK' /\ SlabFree' /\ PlayersOK'
  BY <1>1, <1>3, <1>5, <1>6, <1>8, <1>9, TaskMoves
<1> QED
  BY <1>7, <1>10 DEF RoomInv

\* A task that stops, on its way to leave or ended.
LEMMA TaskStops ==
  ASSUME RoomInv, NEW c \in Conns, NEW state \in {"leave", "ended"},
         task' = [task EXCEPT ![c] = state], task[c] \notin {"none", "queued"},
         state = "leave" => task[c] \in Present,
         disconnectRx' \in Seq(Keys),
         UNCHANGED <<roomVars, connectRx, readRx, log, key, greeting, cursor, holding, aborted,
                     wireVars>>
  PROVE  RoomInv'
<1>1. UNCHANGED <<phase, gamemode, settings, clients, vacant, isHost, players, updates,
                  matchmaking, registered, connectRx, readRx, log, key, greeting, cursor,
                  holding, aborted, toServer, toClient, closed, sent>>
  BY DEF roomVars, wireVars
<1>2. TypeOK'
  <2>1. task' \in [Conns -> TaskStates]
    BY Typed DEF RoomInv, TaskStates
  <2> QED
    BY <1>1, <2>1 DEF RoomInv, TypeOK
<1>3. /\ state \in Present \cup {"ended"} /\ state # "deliver"
      /\ state \in Present => task[c] \in Present /\ toServer'[c] \in Seq(Allowed)
  BY <1>1 DEF Present, RoomInv, ConnOK
<1>4. \A i \in 1..Len(readRx)' : readRx'[i].request \in Allowed
  BY <1>1 DEF RoomInv, QueueOK
<1>5. ConnOK' /\ QueueOK' /\ HeldOK' /\ SlabFree' /\ PlayersOK'
  BY <1>1, <1>3, <1>4, TaskMoves
<1> QED
  BY <1>2, <1>5 DEF RoomInv

\* and the end of the task.
LEMMA TaskLeavesInv ==
  ASSUME RoomInv, NEW c \in Conns, TaskLeaves(c)
  PROVE  RoomInv'
<1>1. /\ task[c] \in {"loop", "greet"} /\ task' = [task EXCEPT ![c] = "leave"]
      /\ UNCHANGED <<roomVars, connectRx, disconnectRx, readRx, log, key, greeting, cursor,
                     holding, aborted, wireVars>>
  BY DEF TaskLeaves, chanVars
<1>2. task[c] \in Present /\ task[c] \notin {"none", "queued"} /\ disconnectRx' \in Seq(Keys)
  BY <1>1, Typed DEF Present, RoomInv
<1> QED
  BY <1>1, <1>2, TaskStops

\* The task ends without a key to give back.
LEMMA TaskEndsInv ==
  ASSUME RoomInv, NEW c \in Conns, TaskEnds(c)
  PROVE  RoomInv'
<1>1. /\ task[c] = "leave" /\ task' = [task EXCEPT ![c] = "ended"]
      /\ disconnectRx' \in {disconnectRx, Append(disconnectRx, key[c])}
      /\ UNCHANGED <<roomVars, connectRx, readRx, log, key, greeting, cursor, holding, aborted,
                     wireVars>>
  BY DEF TaskEnds
<1>2. key[c] \in Keys /\ disconnectRx \in Seq(Keys)
  BY <1>1, Typed DEF RoomInv, ConnOK, Present
<1>3. disconnectRx' \in Seq(Keys)
  BY <1>1, <1>2, AppendProperties
<1> QED
  BY <1>1, <1>3, TaskStops

\* The room dropped the Client: its task is gone.
LEMMA TaskAbortsInv ==
  ASSUME RoomInv, NEW c \in Conns, TaskAborts(c)
  PROVE  RoomInv'
<1>1. /\ aborted[c] /\ task' = [task EXCEPT ![c] = "ended"]
      /\ UNCHANGED <<roomVars, connectRx, disconnectRx, readRx, log, key, greeting, cursor,
                     holding, aborted, wireVars>>
  BY DEF TaskAborts, chanVars
<1>2. task[c] \notin {"none", "queued"} /\ disconnectRx' \in Seq(Keys)
  BY <1>1, Typed DEF RoomInv, ConnOK, Before
<1> QED
  BY <1>1, <1>2, TaskStops

\* The listener of main.rs takes a room out of its map.
LEMMA HandleUpdateInv ==
  ASSUME RoomInv, HandleUpdate
  PROVE  RoomInv'
<1>1. /\ updates # <<>> /\ updates' = Tail(updates)
      /\ registered' = (registered /\ ~(Head(updates).isHost /\ ~Head(updates).isJoin))
      /\ UNCHANGED <<phase, gamemode, settings, clients, vacant, isHost, players, matchmaking,
                     connectRx, disconnectRx, readRx, log, task, key, greeting, cursor, holding,
                     aborted, toServer, toClient, closed, sent>>
  BY DEF HandleUpdate, chanVars, taskVars, wireVars
<1>2. TypeOK'
  <2>1. updates' \in Seq([conn : Conns, isJoin : BOOLEAN, isHost : BOOLEAN])
    BY <1>1, Typed, HeadTailProperties DEF RoomInv, AnUpdate
  <2>2. registered' \in BOOLEAN
    BY <1>1
  <2> QED
    BY <1>1, <2>1, <2>2 DEF RoomInv, TypeOK
<1>3. Allowed' = Allowed
  BY <1>1 DEF Allowed
<1>4. ConnOK' /\ QueueOK' /\ HeldOK'
  BY <1>1, <1>3 DEF RoomInv, ConnOK, QueueOK, HeldOK
<1> QED
  BY <1>1, <1>2, <1>4, SlabFrame DEF RoomInv

\* The consoles: a connection and the Join on it,
LEMMA ConnectInv ==
  ASSUME RoomInv, NEW c \in Conns, Connect(c)
  PROVE  RoomInv'
<1>1. /\ task[c] = "none" /\ task' = [task EXCEPT ![c] = "admit"]
      /\ toServer' = [toServer EXCEPT ![c] = <<JoinRequest>>]
      /\ UNCHANGED <<phase, gamemode, settings, clients, vacant, isHost, players, updates,
                     matchmaking, registered, connectRx, disconnectRx, readRx, log, key, greeting,
                     cursor, holding, aborted, toClient, closed, sent>>
  BY DEF Connect, roomVars, chanVars
<1>2. task \in [Conns -> TaskStates] /\ toServer \in [Conns -> Seq(Requests \cup {JoinRequest})]
  BY DEF RoomInv, TypeOK
<1>3. /\ \A d \in Conns : task'[d] = IF d = c THEN "admit" ELSE task[d]
      /\ \A d \in Conns : toServer'[d] = IF d = c THEN <<JoinRequest>> ELSE toServer[d]
  BY <1>1, <1>2
<1>4. TypeOK'
  <2>1. <<JoinRequest>> \in Seq(Requests \cup {JoinRequest})
    OBVIOUS
  <2>2. toServer' \in [Conns -> Seq(Requests \cup {JoinRequest})]
    BY <1>1, <1>2, <2>1
  <2>3. task' \in [Conns -> TaskStates]
    BY <1>1, <1>2 DEF TaskStates
  <2> QED
    BY <1>1, <2>2, <2>3 DEF RoomInv, TypeOK
<1>5. Allowed' = Allowed
  BY <1>1 DEF Allowed
<1>6. ConnOK'
  BY <1>1, <1>3, <1>5 DEF RoomInv, ConnOK, Present, Before
<1>7. QueueOK'
  <2>1. \A i \in 1..Len(connectRx) : connectRx[i] # c /\ connectRx[i] \in Conns
    BY <1>1, Typed DEF RoomInv, QueueOK
  <2> QED
    BY <1>1, <1>3, <1>5, <2>1 DEF RoomInv, QueueOK
<1>8. HeldOK'
  <2>1. \A k \in Keys : clients[k] # NoConn => clients[k] \in Conns /\ clients[k] # c
    BY <1>1, Typed DEF RoomInv, HeldOK, Present
  <2> QED
    BY <1>1, <1>3, <2>1 DEF RoomInv, HeldOK
<1> QED
  BY <1>1, <1>4, <1>6, <1>7, <1>8, SlabFrame DEF RoomInv

\* A request is sent by a connection that has been written to.
LEMMA RequestInv ==
  ASSUME RoomInv, NEW c \in Conns, NEW r \in Allowed, Request(c, r), toClient[c] # <<>>
  PROVE  RoomInv'
<1>1. /\ toServer' = [toServer EXCEPT ![c] = Append(@, r)]
      /\ sent' = [sent EXCEPT ![c] = @ + 1]
      /\ UNCHANGED <<phase, gamemode, settings, clients, vacant, isHost, players, updates,
                     matchmaking, registered, connectRx, disconnectRx, readRx, log, task, key,
                     greeting, cursor, holding, aborted, toClient, closed>>
  BY DEF Request, roomVars, chanVars, taskVars
<1>2. /\ toServer \in [Conns -> Seq(Requests \cup {JoinRequest})] /\ sent \in [Conns -> Nat]
      /\ task[c] \notin Before
  BY DEF RoomInv, TypeOK, ConnOK
<1>3. \A d \in Conns : toServer'[d] = IF d = c THEN Append(toServer[c], r) ELSE toServer[d]
  BY <1>1, <1>2
<1>4. TypeOK'
  <2>1. Append(toServer[c], r) \in Seq(Requests \cup {JoinRequest})
    BY <1>2, AllowedRequests, AppendProperties
  <2>2. toServer' \in [Conns -> Seq(Requests \cup {JoinRequest})] /\ sent' \in [Conns -> Nat]
    BY <1>1, <1>2, <2>1
  <2> QED
    BY <1>1, <2>2 DEF RoomInv, TypeOK
<1>5. Allowed' = Allowed
  BY <1>1 DEF Allowed
<1>6. ConnOK'
  <2>1. task[c] \in Present => Append(toServer[c], r) \in Seq(Allowed)
    BY AppendProperties DEF RoomInv, ConnOK
  <2> QED
    BY <1>1, <1>2, <1>3, <1>5, <2>1 DEF RoomInv, ConnOK, Before
<1>7. QueueOK' /\ HeldOK'
  BY <1>1, <1>5 DEF RoomInv, QueueOK, HeldOK
<1> QED
  BY <1>1, <1>4, <1>6, <1>7, SlabFrame DEF RoomInv

\* a request of the console,
LEMMA SendInv ==
  ASSUME RoomInv, NEW c \in Conns, NEW r \in Requests, Send(c, r)
  PROVE  RoomInv'
<1>1. Request(c, r)
  BY DEF Send, Request
<1>2. r \in Allowed
  BY DEF Send, Allowed
<1>3. toClient[c] # <<>>
  <2>1. PICK i \in 1..Len(toClient[c]) : toClient[c][i].type = "settings"
    BY DEF Send, Received
  <2>2. Len(<<>>) = 0
    BY EmptySeq
  <2> QED
    BY <2>1, <2>2
<1> QED
  BY <1>1, <1>2, <1>3, RequestInv

\* and the end of the connection.
LEMMA CloseInv ==
  ASSUME RoomInv, NEW c \in Conns, Close(c)
  PROVE  RoomInv'
<1>1. /\ closed' = [closed EXCEPT ![c] = TRUE]
      /\ UNCHANGED <<phase, gamemode, settings, clients, vacant, isHost, players, updates,
                     matchmaking, registered, connectRx, disconnectRx, readRx, log, task, key,
                     greeting, cursor, holding, aborted, toServer, toClient, sent>>
  BY DEF Close, roomVars, chanVars, taskVars
<1>2. TypeOK'
  <2>1. closed' \in [Conns -> BOOLEAN]
    BY <1>1 DEF RoomInv, TypeOK
  <2> QED
    BY <1>1, <2>1 DEF RoomInv, TypeOK
<1>3. Allowed' = Allowed
  BY <1>1 DEF Allowed
<1>4. ConnOK' /\ QueueOK' /\ HeldOK'
  BY <1>1, <1>3 DEF RoomInv, ConnOK, QueueOK, HeldOK
<1> QED
  BY <1>1, <1>2, <1>4, SlabFrame DEF RoomInv

-------------------------------------------------------------------------------
(***************************************************************************)
(* The invariant, through the steps of the room.                           *)
(***************************************************************************)
\* A step of the room that leaves the connections' tasks alone.
LEMMA ConnFrame ==
  ASSUME RoomInv,
         UNCHANGED <<matchmaking, connectRx, task, key, holding, toServer, toClient>>,
         \A c \in Conns : aborted'[c] => aborted[c] \/ task[c] \notin Before,
         \A i \in 1..Len(readRx)' : readRx'[i].request \in Allowed,
         \A k \in Keys : clients'[k] # NoConn => clients'[k] = clients[k]
  PROVE  ConnOK' /\ QueueOK' /\ HeldOK'
<1>1. Allowed' = Allowed
  BY DEF Allowed
<1>2. ConnOK'
  BY <1>1 DEF RoomInv, ConnOK
<1>3. QueueOK'
  BY <1>1 DEF RoomInv, QueueOK
<1>4. HeldOK'
  BY DEF RoomInv, HeldOK
<1> QED
  BY <1>2, <1>3, <1>4

\* The request that is taken, and what remains.
LEMMA TakenFacts ==
  ASSUME RoomInv, readRx # <<>>
  PROVE  /\ Head(readRx) \in Held /\ Head(readRx).request \in Allowed
         /\ Head(readRx).request \in Requests /\ Head(readRx).key \in Keys
         /\ Tail(readRx) \in Seq(Held)
         /\ \A i \in 1..Len(Tail(readRx)) : Tail(readRx)[i].request \in Allowed
<1>1. readRx \in Seq(Held) /\ Len(readRx) \in Nat
  BY Typed DEF RoomInv
<1>2. 1 \in 1..Len(readRx) /\ Head(readRx) = readRx[1]
  BY <1>1, EmptySeq
<1>3. /\ Tail(readRx) \in Seq(Held) /\ Len(Tail(readRx)) = Len(readRx) - 1
      /\ \A i \in 1..Len(Tail(readRx)) : Tail(readRx)[i] = readRx[i + 1]
  BY <1>1, HeadTailProperties
<1>4. Head(readRx) \in Held
  BY <1>1, HeadTailProperties
<1>5. \A i \in 1..Len(readRx) : readRx[i].request \in Allowed
  BY DEF RoomInv, QueueOK
<1>6. \A i \in 1..Len(Tail(readRx)) : i + 1 \in 1..Len(readRx)
  BY <1>1, <1>3
<1> QED
  BY <1>2, <1>3, <1>4, <1>5, <1>6, AllowedRequests DEF Held

\* A request the room takes is the first of its queue, and its key is held.
LEMMA TakenIsHead ==
  ASSUME NEW state, NEW r \in Taken(state)
  PROVE  /\ phase = state /\ r = Head(readRx) /\ clients[r.key] # NoConn
         /\ RoomInv => readRx # <<>>
<1>1. PICK i \in 1..Len(readRx) : r = readRx[i]
  BY DEF Taken
<1>2. RoomInv => readRx # <<>>
  BY <1>1, EmptySeq
<1> QED
  BY <1>2 DEF Taken

\* The room, action by action: a connection it has no place for,
LEMMA LobbyConnectFailsInv ==
  ASSUME RoomInv, LobbyConnectFails
  PROVE  RoomInv'
<1> DEFINE c == Head(connectRx)
<1>1. /\ connectRx # <<>> /\ connectRx' = Tail(connectRx) /\ task' = [task EXCEPT ![c] = "ended"]
      /\ UNCHANGED <<phase, gamemode, settings, clients, vacant, isHost, players, updates,
                     matchmaking, registered, disconnectRx, readRx, log, key, greeting, cursor,
                     holding, aborted, toServer, toClient, closed, sent>>
  BY DEF LobbyConnectFails, roomVars, wireVars
<1>2. task \in [Conns -> TaskStates] /\ connectRx \in Seq(Conns) /\ Len(connectRx) \in Nat
  BY Typed DEF RoomInv
<1>3. /\ 1 \in 1..Len(connectRx) /\ c = connectRx[1] /\ c \in Conns
      /\ Tail(connectRx) \in Seq(Conns) /\ Len(Tail(connectRx)) = Len(connectRx) - 1
      /\ \A i \in 1..Len(Tail(connectRx)) : Tail(connectRx)[i] = connectRx[i + 1]
  BY <1>1, <1>2, EmptySeq, HeadTailProperties
<1>4. task[c] = "queued"
  BY <1>3 DEF RoomInv, QueueOK
<1> HIDE DEF c
<1>5. \A d \in Conns : task'[d] = IF d = c THEN "ended" ELSE task[d]
  BY <1>1, <1>2
<1>6. Allowed' = Allowed
  BY <1>1 DEF Allowed
<1>7. TypeOK'
  <2>1. task' \in [Conns -> TaskStates]
    BY <1>1, <1>2 DEF TaskStates
  <2> QED
    BY <1>1, <1>3, <2>1 DEF RoomInv, TypeOK
<1>8. ConnOK'
  BY <1>1, <1>5, <1>6 DEF RoomInv, ConnOK, Present, Before
<1>9. QueueOK'
  <2>1. \A i \in 1..Len(connectRx)' : /\ i + 1 \in 1..Len(connectRx) /\ i + 1 # 1
                                      /\ connectRx'[i] = connectRx[i + 1]
    BY <1>1, <1>2, <1>3
  <2>2. /\ \A i \in 1..Len(connectRx) : connectRx[i] \in Conns /\ task[connectRx[i]] = "queued"
        /\ \A i, j \in 1..Len(connectRx) : connectRx[i] = connectRx[j] => i = j
        /\ \A i \in 1..Len(readRx) : readRx[i].request \in Allowed
    BY Typed DEF RoomInv, QueueOK
  <2>3. \A i \in 1..Len(connectRx)' : connectRx'[i] # c /\ task'[connectRx'[i]] = "queued"
    BY <1>3, <1>5, <2>1, <2>2
  <2>4. \A i, j \in 1..Len(connectRx)' : connectRx'[i] = connectRx'[j] => i = j
    <3>1. TAKE i, j \in 1..Len(connectRx)'
    <3>2. HAVE connectRx'[i] = connectRx'[j]
    <3>3. i + 1 = j + 1
      BY <2>1, <2>2, <3>2
    <3> QED
      BY <1>2, <1>3, <1>1, <3>3
  <2> QED
    BY <1>1, <1>6, <2>2, <2>3, <2>4 DEF QueueOK
<1>10. HeldOK'
  <2>1. \A k \in Keys : clients[k] # NoConn => clients[k] \in Conns /\ clients[k] # c
    BY <1>4, Typed DEF RoomInv, HeldOK, Present
  <2> QED
    BY <1>1, <1>5, <2>1 DEF RoomInv, HeldOK
<1> QED
  BY <1>1, <1>7, <1>8, <1>9, <1>10, SlabFrame DEF RoomInv

\* a request under a vacant key,
LEMMA SkipRequestInv ==
  ASSUME RoomInv, SkipRequest \/ SelectIgnores
  PROVE  RoomInv'
<1>1. /\ readRx # <<>> /\ readRx' = Tail(readRx)
      /\ UNCHANGED <<phase, gamemode, settings, clients, vacant, isHost, players, updates,
                     matchmaking, registered, connectRx, disconnectRx, log, task, key, greeting,
                     cursor, holding, aborted, toServer, toClient, closed, sent>>
  BY TakenIsHead DEF SkipRequest, SelectIgnores, roomVars, taskVars, wireVars
<1>2. readRx' \in Seq(Held) /\ \A i \in 1..Len(readRx)' : readRx'[i].request \in Allowed
  BY <1>1, TakenFacts
<1>3. TypeOK'
  BY <1>1, <1>2 DEF RoomInv, TypeOK, Held
<1>4. ConnOK' /\ QueueOK' /\ HeldOK'
  BY <1>1, <1>2, ConnFrame
<1> QED
  BY <1>1, <1>3, <1>4, SlabFrame DEF RoomInv

\* What a request is, by its type.
LEMMA RequestKinds ==
  ASSUME NEW r \in Requests
  PROVE  /\ r.type = "comment" => r.message \in Comments
         /\ r.type = "start" => r.mode \in Gamemodes
         /\ r.type = "vote" => r.course \in Courses
BY DEF Requests, CommentRequest, StartRequest, SettingsRequest, TeamSelectRequest, VoteRequest

\* a comment,
LEMMA LobbyCommentInv ==
  ASSUME RoomInv, LobbyComment
  PROVE  RoomInv' /\ \E i \in 1..Len(players), m \in Comments :
                       log' = Append(log, CommentEvent(i - 1, m))
<1>1. PICK r \in Taken("lobby") :
        /\ r.request.type = "comment"
        /\ log' = Append(log, CommentEvent(Lowest(ClientPlayers(r.key)) - 1, r.request.message))
        /\ readRx' = Tail(readRx)
        /\ UNCHANGED <<phase, gamemode, settings, clients, vacant, isHost, players, updates,
                       matchmaking, registered, connectRx, disconnectRx, task, key, greeting,
                       cursor, holding, aborted, toServer, toClient, closed, sent>>
  BY DEF LobbyComment, roomVars, taskVars, wireVars
<1>2. r = Head(readRx) /\ readRx # <<>> /\ clients[r.key] # NoConn
  BY TakenIsHead
<1>3. /\ r.key \in Keys /\ r.request \in Requests /\ readRx' \in Seq(Held)
      /\ \A i \in 1..Len(readRx)' : readRx'[i].request \in Allowed
  BY <1>1, <1>2, TakenFacts
<1>4. PICK i \in 1..Len(players) : Lowest(ClientPlayers(r.key)) = i
  BY <1>2, <1>3, OnePlayer
<1>5. r.request.message \in Comments
  BY <1>1, <1>3, RequestKinds
<1>6. log' = Append(log, CommentEvent(i - 1, r.request.message))
  BY <1>1, <1>4
<1>7. log' \in Seq(Events)
  <2>1. Len(players) \in Nat /\ log \in Seq(Events)
    BY Typed DEF RoomInv
  <2>2. CommentEvent(i - 1, r.request.message) \in Events
    BY <1>5, <2>1 DEF CommentEvent, Events
  <2> QED
    BY <1>6, <2>1, <2>2, AppendProperties
<1>8. TypeOK'
  BY <1>1, <1>3, <1>7 DEF RoomInv, TypeOK, Held
<1>9. ConnOK' /\ QueueOK' /\ HeldOK'
  BY <1>1, <1>3, ConnFrame
<1> QED
  BY <1>1, <1>5, <1>6, <1>8, <1>9, SlabFrame DEF RoomInv

\* the start,
LEMMA LobbyStartInv ==
  ASSUME RoomInv, LobbyStart
  PROVE  RoomInv' /\ ~matchmaking
<1>1. PICK r \in Taken("lobby") :
        /\ r.request.type = "start" /\ log' = Append(log, StartEvent(r.request.mode))
        /\ phase' = "select" /\ gamemode' = r.request.mode /\ readRx' = Tail(readRx)
        /\ UNCHANGED <<settings, clients, vacant, isHost, players, updates, matchmaking,
                       registered, connectRx, disconnectRx, task, key, greeting, cursor,
                       holding, aborted, toServer, toClient, closed, sent>>
  BY DEF LobbyStart, LobbyRejects, taskVars, wireVars
<1>2. r = Head(readRx) /\ readRx # <<>>
  BY TakenIsHead
<1>3. /\ r.request \in Allowed /\ r.request \in Requests /\ readRx' \in Seq(Held)
      /\ \A i \in 1..Len(readRx)' : readRx'[i].request \in Allowed
  BY <1>1, <1>2, TakenFacts
<1>4. r.request.mode \in Gamemodes
  BY <1>1, <1>3, RequestKinds
<1>5. log' \in Seq(Events)
  <2>1. log \in Seq(Events)
    BY Typed DEF RoomInv
  <2>2. StartEvent(r.request.mode) \in Events
    BY <1>4 DEF StartEvent, Events
  <2> QED
    BY <1>1, <2>1, <2>2, AppendProperties
<1>6. TypeOK'
  BY <1>1, <1>3, <1>4, <1>5 DEF RoomInv, TypeOK, Held
<1>7. ConnOK' /\ QueueOK' /\ HeldOK'
  BY <1>1, <1>3, ConnFrame
<1>8. ~matchmaking
  BY <1>1, <1>3 DEF Allowed
<1> QED
  BY <1>1, <1>6, <1>7, <1>8, SlabFrame DEF RoomInv


\* the unwinding that drops the room,
LEMMA PanicInv ==
  ASSUME RoomInv, Panic
  PROVE  RoomInv'
<1>1. /\ phase' = "panicked"
      /\ aborted' = [c \in Conns |-> aborted[c] \/ InRoom(c)]
      /\ task' = [c \in Conns |-> IF task[c] = "queued" THEN "ended" ELSE task[c]]
      /\ connectRx' = <<>> /\ disconnectRx' = <<>> /\ readRx' = <<>>
      /\ UNCHANGED <<gamemode, settings, clients, vacant, isHost, players, updates, matchmaking,
                     registered, log, key, greeting, cursor, holding, toServer, toClient, closed,
                     sent>>
  BY DEF Panic, wireVars
<1>2. /\ connectRx' \in Seq(Conns) /\ disconnectRx' \in Seq(Keys)
      /\ readRx' \in Seq([key : Keys, conn : Conns, request : Requests])
      /\ Len(connectRx') = 0 /\ Len(readRx') = 0
  BY <1>1, EmptySeq
<1>3. aborted \in [Conns -> BOOLEAN] /\ task \in [Conns -> TaskStates]
  BY DEF RoomInv, TypeOK
<1>4. TypeOK'
  <2>1. aborted' \in [Conns -> BOOLEAN]
    BY <1>1, <1>3
  <2>2. task' \in [Conns -> TaskStates]
    BY <1>1, <1>3 DEF TaskStates
  <2> QED
    BY <1>1, <1>2, <2>1, <2>2 DEF RoomInv, TypeOK
<1>5. Allowed' = Allowed
  BY <1>1 DEF Allowed
<1>6. /\ \A c \in Conns : task'[c] = IF task[c] = "queued" THEN "ended" ELSE task[c]
      /\ \A c \in Conns : InRoom(c) => task[c] \notin Before
      /\ \A c \in Conns : aborted'[c] => aborted[c] \/ InRoom(c)
  <2>1. \A c \in Conns : InRoom(c) => task[c] \notin Before
    BY Facts DEF RoomInv, HeldOK, InRoom, Present, Before
  <2> QED
    BY <1>1, <2>1
<1>7. ConnOK'
  BY <1>1, <1>5, <1>6 DEF RoomInv, ConnOK, Present, Before
<1>8. QueueOK'
  <2>1. 1..Len(connectRx') = {} /\ 1..Len(readRx') = {}
    BY <1>2
  <2> QED
    BY <2>1 DEF QueueOK
<1>9. HeldOK'
  <2>1. \A k \in Keys : clients[k] # NoConn => clients[k] \in Conns
    BY Typed DEF RoomInv
  <2> QED
    BY <1>1, <1>6, <2>1 DEF RoomInv, HeldOK, Present
<1> QED
  BY <1>1, <1>4, <1>7, <1>8, <1>9, SlabFrame DEF RoomInv

\* which a departure under a vacant key sets off,
LEMMA LobbyDisconnectPanicsInv ==
  ASSUME RoomInv, LobbyDisconnectPanics
  PROVE  RoomInv'
BY PanicInv DEF LobbyDisconnectPanics

\* One client is removed: its player leaves and its key becomes vacant.
LEMMA RemoveClientInv ==
  ASSUME RoomInv, NEW k \in Keys, clients[k] # NoConn, RemoveClient(k),
         readRx' \in Seq(Held), \A i \in 1..Len(readRx)' : readRx'[i].request \in Allowed,
         disconnectRx' \in Seq(Keys)
  PROVE  /\ RoomInv' /\ Len(players)' = Len(players) - 1
         /\ \E i \in 1..Len(players) :
              /\ log' = Append(log, LeaveEvent(i - 1))
              /\ \A n \in 1..(Len(players) - 1) :
                   players'[n] = players[IF n < i THEN n ELSE n + 1]
<1>1. /\ log' = log \o LeaveEvents(k) /\ players' = PlayersWithout(k)
      /\ clients' = [clients EXCEPT ![k] = NoConn] /\ vacant' = <<k>> \o vacant
      /\ aborted' = [aborted EXCEPT ![clients[k]] = TRUE]
      /\ Notify(clients[k], FALSE)
      /\ UNCHANGED <<phase, gamemode, settings, isHost, matchmaking, registered, connectRx, task,
                     key, greeting, cursor, holding, toServer, toClient, closed, sent>>
  BY DEF RemoveClient, wireVars
<1>2. /\ clients \in [Keys -> Conns \cup {NoConn}] /\ vacant \in Seq(Keys) /\ log \in Seq(Events)
      /\ Len(vacant) \in Nat /\ Len(log) \in Nat /\ players \in Seq(Player) /\ Len(players) \in Nat
      /\ updates \in Seq(AnUpdate) /\ isHost \in [Conns -> BOOLEAN] /\ aborted \in [Conns -> BOOLEAN]
      /\ matchmaking \in BOOLEAN /\ clients[k] \in Conns
  BY Typed DEF RoomInv, TypeOK
<1>3. PICK i \in 1..Len(players) :
        /\ players[i].key = k /\ ClientPlayers(k) = {i} /\ LeaveEvents(k) = <<LeaveEvent(i - 1)>>
  BY OnePlayer
<1>4. /\ players' \in Seq(Player) /\ Len(players') = Len(players) - 1
      /\ \A n \in 1..(Len(players) - 1) : players'[n] = players[IF n < i THEN n ELSE n + 1]
  BY <1>1, <1>3, Removed DEF RoomInv
<1>5. LeaveEvent(i - 1) \in Events
  BY <1>2 DEF LeaveEvent, Events
<1>6. log' = Append(log, LeaveEvent(i - 1)) /\ log' \in Seq(Events)
  BY <1>1, <1>2, <1>3, <1>5, AppendIsConcat, AppendProperties
<1>7. /\ vacant' \in Seq(Keys) /\ Len(vacant') = Len(vacant) + 1 /\ vacant'[1] = k
      /\ \A n \in 2..(Len(vacant) + 1) : vacant'[n] = vacant[n - 1]
  <2>1. <<k>> \in Seq(Keys) /\ Len(<<k>>) = 1 /\ <<k>>[1] = k
    OBVIOUS
  <2>2. /\ <<k>> \o vacant \in Seq(Keys) /\ Len(<<k>> \o vacant) = Len(<<k>>) + Len(vacant)
        /\ \A n \in 1..(Len(<<k>>) + Len(vacant)) :
             (<<k>> \o vacant)[n] = IF n <= Len(<<k>>) THEN <<k>>[n] ELSE vacant[n - Len(<<k>>)]
    BY <1>2, <2>1, ConcatProperties
  <2> QED
    BY <1>1, <1>2, <2>1, <2>2
<1>8. updates' \in Seq(AnUpdate)
  <2>1. Update(clients[k], FALSE) \in AnUpdate
    BY <1>1, <1>2 DEF Update, AnUpdate
  <2> QED
    BY <1>1, <1>2, <2>1, AppendProperties DEF Notify
<1>9. TypeOK'
  <2>1. clients' \in [Keys -> Conns \cup {NoConn}] /\ aborted' \in [Conns -> BOOLEAN]
    BY <1>1, <1>2
  <2> QED
    BY <1>1, <1>4, <1>6, <1>7, <1>8, <2>1 DEF RoomInv, TypeOK, Held, Player, AnUpdate
<1>10. \A m \in Keys : clients'[m] = IF m = k THEN NoConn ELSE clients[m]
  BY <1>1, <1>2
<1>11. ConnOK' /\ QueueOK' /\ HeldOK'
  <2>1. task[clients[k]] \notin Before
    BY DEF RoomInv, HeldOK, Present, Before
  <2>2. \A c \in Conns : aborted'[c] => aborted[c] \/ task[c] \notin Before
    BY <1>1, <1>2, <2>1
  <2> QED
    BY <1>1, <1>10, <2>2, ConnFrame
<1>12. SlabFree'
  <2>1. /\ \A n \in 1..Len(vacant) : vacant[n] # k
        /\ \A m, n \in 1..Len(vacant) : vacant[m] = vacant[n] => m = n
        /\ \A m \in Keys : clients[m] = NoConn <=> \E n \in 1..Len(vacant) : vacant[n] = m
    BY DEF RoomInv, SlabFree
  <2>2. \A n \in 1..Len(vacant)' : n = 1 \/ (n \in 2..(Len(vacant) + 1) /\ n - 1 \in 1..Len(vacant))
    BY <1>2, <1>7
  <2>3. \A m, n \in 1..Len(vacant)' : vacant'[m] = vacant'[n] => m = n
    <3>1. TAKE m, n \in 1..Len(vacant)'
    <3>a. m \in Nat /\ n \in Nat
      BY <1>2, <1>7
    <3>b. /\ m # 1 => m - 1 \in 1..Len(vacant) /\ vacant'[m] = vacant[m - 1]
          /\ n # 1 => n - 1 \in 1..Len(vacant) /\ vacant'[n] = vacant[n - 1]
      BY <1>7, <2>2
    <3>2. CASE m = 1 \/ n = 1
      BY <1>7, <2>1, <3>b, <3>2
    <3>3. CASE m # 1 /\ n # 1
      <4>1. vacant[m - 1] = vacant[n - 1] => m - 1 = n - 1
        BY <2>1, <3>b, <3>3
      <4> QED
        BY <3>a, <3>b, <3>3, <4>1
    <3> QED
      BY <3>2, <3>3
  <2>4. \A m \in Keys : clients'[m] = NoConn => \E n \in 1..Len(vacant)' : vacant'[n] = m
    <3>1. TAKE m \in Keys
    <3>2. HAVE clients'[m] = NoConn
    <3>3. CASE m = k
      BY <1>2, <1>7, <3>3
    <3>4. CASE m # k
      <4>1. PICK n \in 1..Len(vacant) : vacant[n] = m
        BY <1>10, <2>1, <3>2, <3>4
      <4>2. n + 1 \in 1..Len(vacant)' /\ n + 1 \in 2..(Len(vacant) + 1) /\ (n + 1) - 1 = n
        BY <1>2, <1>7
      <4>3. vacant'[n + 1] = m
        BY <1>7, <4>1, <4>2
      <4> QED
        BY <4>2, <4>3
    <3> QED
      BY <3>3, <3>4
  <2>5. \A m \in Keys : (\E n \in 1..Len(vacant)' : vacant'[n] = m) => clients'[m] = NoConn
    BY <1>7, <1>10, <2>1, <2>2
  <2> QED
    BY <2>3, <2>4, <2>5 DEF SlabFree
<1>13. PlayersOK'
  <2> DEFINE Was(n) == IF n < i THEN n ELSE n + 1
  <2>1. /\ \A j \in 1..Len(players) : players[j].conn = clients[players[j].key]
        /\ \A j, l \in 1..Len(players) : players[j].key = players[l].key => j = l
        /\ \A m \in Keys : clients[m] # NoConn => \E j \in 1..Len(players) : players[j].key = m
        /\ \A j \in 1..Len(players) : players[j].key \in Keys
    <3>1. \A j \in 1..Len(players) : players[j].key \in Keys
      BY Typed DEF RoomInv, Player
    <3> QED
      BY <3>1 DEF RoomInv, PlayersOK
  <2>2. \A n \in 1..Len(players)' : Was(n) \in 1..Len(players) /\ Was(n) # i /\ players'[n] = players[Was(n)]
    BY <1>2, <1>4
  <2>3. \A n, m \in 1..Len(players)' : Was(n) = Was(m) => n = m
    BY <1>2, <1>4
  <2>4. \A j \in 1..Len(players) : j # i => \E n \in 1..Len(players)' : Was(n) = j
    <3>1. TAKE j \in 1..Len(players)
    <3>2. HAVE j # i
    <3>3. CASE j < i
      <4>1. j \in 1..Len(players)' /\ Was(j) = j
        BY <1>2, <1>4, <3>3
      <4> QED
        BY <4>1
    <3>4. CASE j > i
      <4>1. j - 1 \in 1..Len(players)' /\ Was(j - 1) = j
        BY <1>2, <1>4, <3>4
      <4> QED
        BY <4>1
    <3> QED
      BY <1>2, <3>2, <3>3, <3>4
  <2> HIDE DEF Was
  <2>5. \A n \in 1..Len(players)' : players'[n].conn = clients'[players'[n].key]
    <3>1. TAKE n \in 1..Len(players)'
    <3>2. /\ Was(n) \in 1..Len(players) /\ Was(n) # i /\ players'[n] = players[Was(n)]
          /\ players[Was(n)].conn = clients[players[Was(n)].key]
          /\ players[Was(n)].key \in Keys
      BY <2>1, <2>2
    <3>3. players[Was(n)].key # k
      BY <1>3, <2>1, <3>2
    <3> QED
      BY <1>10, <3>2, <3>3
  <2>6. \A n, m \in 1..Len(players)' : players'[n].key = players'[m].key => n = m
    <3>1. TAKE n, m \in 1..Len(players)'
    <3>2. HAVE players'[n].key = players'[m].key
    <3>3. /\ Was(n) \in 1..Len(players) /\ Was(m) \in 1..Len(players)
          /\ players[Was(n)].key = players[Was(m)].key
      BY <2>2, <3>2
    <3>4. \A j, l \in 1..Len(players) : players[j].key = players[l].key => j = l
      BY <2>1
    <3>5. Was(n) = Was(m)
      BY <3>3, <3>4
    <3> QED
      BY <2>3, <3>5
  <2>7. \A m \in Keys : clients'[m] # NoConn => \E n \in 1..Len(players)' : players'[n].key = m
    <3>1. TAKE m \in Keys
    <3>2. HAVE clients'[m] # NoConn
    <3>3. PICK j \in 1..Len(players) : players[j].key = m
      BY <1>10, <2>1, <3>2
    <3>4. j # i
      BY <1>3, <1>10, <3>2, <3>3
    <3>5. PICK n \in 1..Len(players)' : Was(n) = j
      BY <2>4, <3>4
    <3> QED
      BY <2>2, <3>3, <3>5
  <2> QED
    BY <2>5, <2>6, <2>7 DEF PlayersOK
<1> QED
  BY <1>4, <1>6, <1>9, <1>11, <1>12, <1>13 DEF RoomInv


\* Both ways to remove a client.
Removal(k) == k \in Keys /\ clients[k] # NoConn /\ RemoveClient(k) /\ phase = "lobby"

\* a departure,
LEMMA LobbyDisconnectInv ==
  ASSUME RoomInv, LobbyDisconnect
  PROVE  \E k \in Keys :
           /\ Removal(k) /\ disconnectRx' \in Seq(Keys) /\ readRx' \in Seq(Held)
           /\ \A i \in 1..Len(readRx)' : readRx'[i].request \in Allowed
<1>1. disconnectRx \in Seq(Keys) /\ disconnectRx # <<>> /\ readRx \in Seq(Held)
  BY Typed DEF RoomInv, LobbyDisconnect
<1>2. Head(disconnectRx) \in Keys /\ Tail(disconnectRx) \in Seq(Keys)
  BY <1>1, HeadTailProperties
<1>3. \A i \in 1..Len(readRx)' : readRx'[i].request \in Allowed
  BY DEF RoomInv, QueueOK, LobbyDisconnect
<1> QED
  BY <1>1, <1>2, <1>3 DEF LobbyDisconnect, Removal

\* a rejected request,
LEMMA LobbyRequestFailsInv ==
  ASSUME RoomInv, LobbyRequestFails
  PROVE  \E k \in Keys :
           /\ Removal(k) /\ disconnectRx' \in Seq(Keys) /\ readRx' \in Seq(Held)
           /\ \A i \in 1..Len(readRx)' : readRx'[i].request \in Allowed
<1>1. PICK r \in Taken("lobby") :
        RemoveClient(r.key) /\ readRx' = Tail(readRx) /\ UNCHANGED disconnectRx
  BY DEF LobbyRequestFails
<1>2. r = Head(readRx) /\ readRx # <<>> /\ clients[r.key] # NoConn /\ phase = "lobby"
  BY TakenIsHead
<1>3. /\ r.key \in Keys /\ readRx' \in Seq(Held)
      /\ \A i \in 1..Len(readRx)' : readRx'[i].request \in Allowed
  BY <1>1, <1>2, TakenFacts
<1> QED
  BY <1>1, <1>2, <1>3, Typed DEF RoomInv, Removal

\* What the greeting of a newcomer is made of.
LEMMA GreetingTyped ==
  ASSUME RoomInv, NEW c \in Conns
  PROVE  [i \in 1..Len(players) |-> JoinEvent(players[i].conn)]
           \o <<SettingsEvent(IF settings = NoConn THEN c ELSE settings)>> \in Seq(Events)
<1> DEFINE g == [i \in 1..Len(players) |-> JoinEvent(players[i].conn)]
<1>1. Len(players) \in Nat /\ settings \in Conns \cup {NoConn}
  BY Typed DEF RoomInv, TypeOK
<1>2. \A i \in 1..Len(players) : JoinEvent(players[i].conn) \in Events
  BY Typed DEF RoomInv, Player, JoinEvent, Events
<1>3. g \in [1..Len(players) -> Events]
  BY <1>2
<1>4. g \in Seq(Events)
  BY <1>1, <1>3, SeqDef
<1>5. SettingsEvent(IF settings = NoConn THEN c ELSE settings) \in Events
  BY <1>1 DEF SettingsEvent, Events
<1>6. <<SettingsEvent(IF settings = NoConn THEN c ELSE settings)>> \in Seq(Events)
  BY <1>5
<1> HIDE DEF g
<1>7. g \o <<SettingsEvent(IF settings = NoConn THEN c ELSE settings)>> \in Seq(Events)
  BY <1>4, <1>6, ConcatProperties
<1> QED
  BY <1>7 DEF g

\* What a LobbyConnect does.
LEMMA LobbyConnectFacts ==
  ASSUME RoomInv, LobbyConnect
  PROVE  \E c \in Conns, k \in Keys :
    /\ connectRx # <<>> /\ c = connectRx[1] /\ task[c] = "queued" /\ connectRx' = Tail(connectRx)
    /\ vacant # <<>> /\ k = vacant[1] /\ clients[k] = NoConn /\ vacant' = Tail(vacant)
    /\ phase = "lobby" /\ isHost' = [isHost EXCEPT ![c] = (settings = NoConn)]
    /\ Notify(c, TRUE)
    /\ clients' = [clients EXCEPT ![k] = c]
    /\ players' = Append(players, [key |-> k, conn |-> c, vote |-> NoVote])
    /\ greeting' = [greeting EXCEPT ![c] =
                      [i \in 1..Len(players) |-> JoinEvent(players[i].conn)]
                        \o <<SettingsEvent(IF settings = NoConn THEN c ELSE settings)>>]
    /\ \/ /\ StartsNow /\ log' = Append(Append(log, JoinEvent(c)), StartEvent(0))
          /\ phase' = "select" /\ gamemode' = 0
       \/ /\ ~StartsNow /\ log' = Append(log, JoinEvent(c))
          /\ phase' = "lobby" /\ gamemode' = gamemode
    /\ cursor' = [cursor EXCEPT ![c] = Len(Append(log, JoinEvent(c)))]
    /\ key' = [key EXCEPT ![c] = k]
    /\ task' = [task EXCEPT ![c] = "greet"]
    /\ UNCHANGED <<settings, matchmaking, registered, disconnectRx, readRx, holding,
                   aborted, toServer, toClient, closed, sent>>
<1>1. connectRx # <<>> /\ ~LobbyIsFull
  BY DEF LobbyConnect
<1>2. connectRx \in Seq(Conns) /\ Len(connectRx) \in Nat /\ vacant \in Seq(Keys)
  BY Typed DEF RoomInv
<1>3. 1 \in 1..Len(connectRx) /\ Head(connectRx) = connectRx[1] /\ Head(connectRx) \in Conns
  BY <1>1, <1>2, EmptySeq, HeadTailProperties
<1>4. task[Head(connectRx)] = "queued"
  BY <1>3 DEF RoomInv, QueueOK
<1>5. vacant # <<>> /\ FreeKey \in Keys /\ FreeKey = vacant[1] /\ clients[FreeKey] = NoConn
  BY <1>1, FreeKeyIsVacant
<1> QED
  BY <1>1, <1>3, <1>4, <1>5 DEF LobbyConnect, wireVars

\* a newcomer,
LEMMA LobbyConnectInv ==
  ASSUME RoomInv, LobbyConnect
  PROVE  RoomInv' /\ Len(players)' = Len(players) + 1
<1>1. PICK c \in Conns, k \in Keys :
    /\ connectRx # <<>> /\ c = connectRx[1] /\ task[c] = "queued" /\ connectRx' = Tail(connectRx)
    /\ vacant # <<>> /\ k = vacant[1] /\ clients[k] = NoConn /\ vacant' = Tail(vacant)
    /\ isHost' = [isHost EXCEPT ![c] = (settings = NoConn)]
    /\ Notify(c, TRUE)
    /\ clients' = [clients EXCEPT ![k] = c]
    /\ players' = Append(players, [key |-> k, conn |-> c, vote |-> NoVote])
    /\ greeting' = [greeting EXCEPT ![c] =
                      [i \in 1..Len(players) |-> JoinEvent(players[i].conn)]
                        \o <<SettingsEvent(IF settings = NoConn THEN c ELSE settings)>>]
    /\ \/ /\ log' = Append(Append(log, JoinEvent(c)), StartEvent(0))
          /\ phase' = "select" /\ gamemode' = 0
       \/ /\ log' = Append(log, JoinEvent(c))
          /\ phase' = "lobby" /\ gamemode' = gamemode
    /\ cursor' = [cursor EXCEPT ![c] = Len(Append(log, JoinEvent(c)))]
    /\ key' = [key EXCEPT ![c] = k]
    /\ task' = [task EXCEPT ![c] = "greet"]
    /\ UNCHANGED <<settings, matchmaking, registered, disconnectRx, readRx, holding,
                   aborted, toServer, toClient, closed, sent>>
  BY LobbyConnectFacts
<1>2. /\ clients \in [Keys -> Conns \cup {NoConn}] /\ vacant \in Seq(Keys) /\ log \in Seq(Events)
      /\ Len(vacant) \in Nat /\ Len(log) \in Nat /\ players \in Seq(Player) /\ Len(players) \in Nat
      /\ updates \in Seq(AnUpdate) /\ isHost \in [Conns -> BOOLEAN]
      /\ matchmaking \in BOOLEAN /\ task \in [Conns -> TaskStates]
      /\ key \in [Conns -> Keys \cup {NoKey}] /\ cursor \in [Conns -> Nat]
      /\ greeting \in [Conns -> Seq(Events)] /\ connectRx \in Seq(Conns) /\ Len(connectRx) \in Nat
  BY Typed DEF RoomInv, TypeOK
<1>a. task[c] = "queued" /\ c = connectRx[1] /\ clients[k] = NoConn /\ k = vacant[1]
  BY <1>1
<1>b. Len(connectRx) \in Nat /\ Len(vacant) \in Nat /\ Len(players) \in Nat /\ NoConn \notin Conns
  BY <1>2, Facts
<1> DEFINE p == [key |-> k, conn |-> c, vote |-> NoVote]
<1>3. p \in Player /\ p.key = k /\ p.conn = c
  BY DEF Player
<1> HIDE DEF p
<1>4. players' = Append(players, p)
  BY <1>1 DEF p
<1>5. /\ players' \in Seq(Player) /\ Len(players') = Len(players) + 1
      /\ \A i \in 1..Len(players) : players'[i] = players[i]
      /\ players'[Len(players) + 1] = p
  BY <1>2, <1>3, <1>4, AppendProperties
<1>6. log' \in Seq(Events) /\ Len(Append(log, JoinEvent(c))) \in Nat
  <2>1. JoinEvent(c) \in Events /\ StartEvent(0) \in Events
    BY DEF JoinEvent, StartEvent, Events
  <2>2. Append(log, JoinEvent(c)) \in Seq(Events) /\ Len(Append(log, JoinEvent(c))) \in Nat
    BY <1>2, <2>1, AppendProperties, LenProperties
  <2>3. Append(Append(log, JoinEvent(c)), StartEvent(0)) \in Seq(Events)
    BY <2>1, <2>2, AppendProperties
  <2> QED
    BY <1>1, <2>2, <2>3
<1>7. updates' \in Seq(AnUpdate)
  <2>1. isHost'[c] \in BOOLEAN
    BY <1>1, <1>2
  <2>2. Update(c, TRUE) \in AnUpdate
    BY <2>1 DEF Update, AnUpdate
  <2> QED
    BY <1>1, <1>2, <2>2, AppendProperties DEF Notify
<1>8. /\ vacant' \in Seq(Keys) /\ Len(vacant') = Len(vacant) - 1
      /\ \A n \in 1..Len(vacant') : vacant'[n] = vacant[n + 1]
  BY <1>1, <1>2, HeadTailProperties
<1>9. /\ connectRx' \in Seq(Conns) /\ Len(connectRx') = Len(connectRx) - 1
      /\ \A n \in 1..Len(connectRx') : connectRx'[n] = connectRx[n + 1]
      /\ 1 \in 1..Len(connectRx) /\ 1 \in 1..Len(vacant)
  <2>1. 1 \in 1..Len(connectRx) /\ 1 \in 1..Len(vacant)
    <3>1. connectRx # <<>> /\ vacant # <<>>
      BY <1>1
    <3>2. Len(connectRx) # 0 /\ Len(vacant) # 0
      BY <1>2, <3>1, EmptySeq
    <3> QED
      BY <1>b, <3>2
  <2>2. /\ connectRx' \in Seq(Conns) /\ Len(connectRx') = Len(connectRx) - 1
        /\ \A n \in 1..Len(connectRx') : connectRx'[n] = connectRx[n + 1]
    BY <1>1, <1>2, HeadTailProperties
  <2> QED
    BY <2>1, <2>2
<1>10. TypeOK'
  <2>1. greeting' \in [Conns -> Seq(Events)]
    BY <1>1, <1>2, GreetingTyped
  <2>2. clients' \in [Keys -> Conns \cup {NoConn}] /\ key' \in [Conns -> Keys \cup {NoKey}]
    BY <1>1, <1>2
  <2>3. cursor' \in [Conns -> Nat] /\ isHost' \in [Conns -> BOOLEAN]
    BY <1>1, <1>2, <1>6
  <2>4. task' \in [Conns -> TaskStates]
    BY <1>1, <1>2 DEF TaskStates
  <2>5. phase' \in {"lobby", "select", "race", "panicked"} /\ gamemode' \in Gamemodes \cup {0}
    BY <1>1 DEF RoomInv, TypeOK
  <2>6. UNCHANGED <<settings, matchmaking, registered, disconnectRx, readRx, holding,
                   aborted, toServer, toClient, closed, sent>>
    BY <1>1
  <2> QED
    BY <1>5, <1>6, <1>7, <1>8, <1>9, <2>1, <2>2, <2>3, <2>4, <2>5, <2>6
    DEF RoomInv, TypeOK, Player, AnUpdate
<1>11. /\ \A d \in Conns : task'[d] = IF d = c THEN "greet" ELSE task[d]
       /\ \A d \in Conns : key'[d] = IF d = c THEN k ELSE key[d]
       /\ \A m \in Keys : clients'[m] = IF m = k THEN c ELSE clients[m]
  BY <1>1, <1>2
<1>12. Allowed' = Allowed
  BY <1>1 DEF Allowed
<1>13. \A m \in Keys : clients[m] # NoConn => clients[m] \in Conns /\ clients[m] # c
  <2>1. \A m \in Keys : clients[m] # NoConn => clients[m] \in Conns
    BY <1>2
  <2>2. \A m \in Keys : clients[m] # NoConn => task[clients[m]] # "queued"
    BY DEF RoomInv, HeldOK, Present
  <2> QED
    BY <1>a, <2>1, <2>2
<1>14. ConnOK'
  <2>1. <<>> \in Seq(Allowed)
    BY EmptySeq
  <2>2. UNCHANGED <<holding, aborted, toServer, toClient>>
    BY <1>1
  <2>3. toServer[c] = <<>>
    BY <1>a DEF RoomInv, ConnOK
  <2>4. ASSUME NEW d \in Conns
        PROVE  /\ task'[d] \in Before => toClient'[d] = <<>> /\ ~aborted'[d]
               /\ task'[d] = "admit" => toServer'[d] = <<JoinRequest>>
               /\ task'[d] = "queued" => toServer'[d] = <<>>
               /\ task'[d] \in Present => key'[d] \in Keys /\ toServer'[d] \in Seq(Allowed)
               /\ task'[d] = "deliver" => holding'[d] \in Allowed
    <3>1. CASE d = c
      BY <1>11, <2>1, <2>2, <2>3, <3>1 DEF Present, Before
    <3>2. CASE d # c
      BY <1>11, <2>2, <3>2 DEF RoomInv, ConnOK
    <3> QED
      BY <3>1, <3>2
  <2> QED
    BY <1>12, <2>4 DEF ConnOK
<1>15. QueueOK'
  <2>1. \A i \in 1..Len(connectRx)' : /\ i + 1 \in 1..Len(connectRx) /\ i + 1 # 1
                                      /\ connectRx'[i] = connectRx[i + 1]
    BY <1>b, <1>9
  <2>2. /\ \A i \in 1..Len(connectRx) : connectRx[i] \in Conns /\ task[connectRx[i]] = "queued"
        /\ \A i, j \in 1..Len(connectRx) : connectRx[i] = connectRx[j] => i = j
        /\ \A i \in 1..Len(readRx) : readRx[i].request \in Allowed
    BY Typed DEF RoomInv, QueueOK
  <2>3. \A i \in 1..Len(connectRx)' : connectRx'[i] # c /\ task'[connectRx'[i]] = "queued"
    <3>1. TAKE i \in 1..Len(connectRx)'
    <3>2. connectRx[i + 1] # c
      BY <1>a, <1>9, <2>1, <2>2
    <3>3. connectRx[i + 1] \in Conns /\ task[connectRx[i + 1]] = "queued"
      BY <2>1, <2>2
    <3> QED
      BY <1>11, <2>1, <3>2, <3>3
  <2>4. \A i, j \in 1..Len(connectRx)' : connectRx'[i] = connectRx'[j] => i = j
    <3>1. TAKE i, j \in 1..Len(connectRx)'
    <3>2. HAVE connectRx'[i] = connectRx'[j]
    <3>3. i + 1 = j + 1
      BY <2>1, <2>2, <3>2
    <3> QED
      BY <1>b, <1>9, <3>3
  <2> QED
    BY <1>1, <1>12, <2>2, <2>3, <2>4 DEF QueueOK
<1>16. HeldOK'
  BY <1>11, <1>13 DEF RoomInv, HeldOK, Present
<1>17. SlabFree'
  <2>1. /\ \A m \in Keys : clients[m] = NoConn <=> \E n \in 1..Len(vacant) : vacant[n] = m
        /\ \A m, n \in 1..Len(vacant) : vacant[m] = vacant[n] => m = n
    BY DEF RoomInv, SlabFree
  <2>2. \A n \in 1..Len(vacant)' : n + 1 \in 1..Len(vacant) /\ n + 1 # 1 /\ vacant'[n] = vacant[n + 1]
    BY <1>2, <1>8
  <2>3. \A m, n \in 1..Len(vacant)' : vacant'[m] = vacant'[n] => m = n
    BY <2>1, <2>2
  <2>4. \A n \in 1..Len(vacant)' : vacant'[n] # k
    BY <1>a, <1>9, <2>1, <2>2
  <2>5. \A m \in Keys : clients'[m] = NoConn => \E n \in 1..Len(vacant)' : vacant'[n] = m
    <3>1. TAKE m \in Keys
    <3>2. HAVE clients'[m] = NoConn
    <3>3. m # k /\ clients[m] = NoConn
      BY <1>11, <3>2, Facts
    <3>4. PICK n \in 1..Len(vacant) : vacant[n] = m
      BY <2>1, <3>3
    <3>5. n # 1
      BY <1>1, <3>3, <3>4
    <3>6. n - 1 \in 1..Len(vacant)' /\ (n - 1) + 1 = n
      BY <1>2, <1>8, <3>5
    <3>7. vacant'[n - 1] = m
      BY <2>2, <3>4, <3>6
    <3> QED
      BY <3>6, <3>7
  <2>6. \A m \in Keys : (\E n \in 1..Len(vacant)' : vacant'[n] = m) => clients'[m] = NoConn
    <3>1. TAKE m \in Keys
    <3>2. HAVE \E n \in 1..Len(vacant)' : vacant'[n] = m
    <3>3. m # k /\ clients[m] = NoConn
      BY <2>1, <2>2, <2>4, <3>2
    <3> QED
      BY <1>11, <3>3
  <2> QED
    BY <2>3, <2>5, <2>6 DEF SlabFree
<1>18. PlayersOK'
  <2>1. /\ \A j \in 1..Len(players) : players[j].conn = clients[players[j].key]
        /\ \A j, l \in 1..Len(players) : players[j].key = players[l].key => j = l
        /\ \A m \in Keys : clients[m] # NoConn => \E j \in 1..Len(players) : players[j].key = m
        /\ \A j \in 1..Len(players) : players[j].key \in Keys /\ players[j].conn \in Conns
    <3>1. \A j \in 1..Len(players) : players[j].key \in Keys /\ players[j].conn \in Conns
      BY Typed DEF RoomInv, Player
    <3> QED
      BY <3>1 DEF RoomInv, PlayersOK
  <2>2. \A n \in 1..Len(players)' : \/ n \in 1..Len(players) /\ players'[n] = players[n]
                                    \/ n = Len(players) + 1 /\ players'[n] = p
    BY <1>2, <1>5
  <2>3. \A j \in 1..Len(players) : players[j].key # k
    BY <1>a, <1>b, <2>1
  <2>4. \A n \in 1..Len(players)' : players'[n].conn = clients'[players'[n].key]
    BY <1>3, <1>11, <2>1, <2>2, <2>3
  <2>5. \A n, m \in 1..Len(players)' : players'[n].key = players'[m].key => n = m
    BY <1>3, <2>1, <2>2, <2>3
  <2>6. \A m \in Keys : clients'[m] # NoConn => \E n \in 1..Len(players)' : players'[n].key = m
    <3>1. TAKE m \in Keys
    <3>2. HAVE clients'[m] # NoConn
    <3>3. CASE m = k
      <4>1. Len(players) + 1 \in 1..Len(players)'
        BY <1>2, <1>5
      <4> QED
        BY <1>3, <1>5, <3>3, <4>1
    <3>4. CASE m # k
      <4>1. PICK j \in 1..Len(players) : players[j].key = m
        BY <1>11, <2>1, <3>2, <3>4
      <4>2. j \in 1..Len(players)' /\ players'[j] = players[j]
        BY <1>2, <1>5
      <4> QED
        BY <4>1, <4>2
    <3> QED
      BY <3>3, <3>4
  <2> QED
    BY <2>4, <2>5, <2>6 DEF PlayersOK
<1> QED
  BY <1>5, <1>10, <1>14, <1>15, <1>16, <1>17, <1>18 DEF RoomInv


\* What a SelectVote does.
LEMMA SelectVoteFacts ==
  ASSUME RoomInv, SelectVote
  PROVE  \E i \in 1..Len(players), r \in Held :
    /\ phase = "select" /\ VoteAccepted(r) /\ r.request \in Requests /\ r.request.course \in Courses
    /\ players[i].vote = NoVote
    /\ players' \in Seq(Player) /\ Len(players') = Len(players)
    /\ \A n \in 1..Len(players) : /\ players'[n].key = players[n].key
                                  /\ players'[n].conn = players[n].conn
                                  /\ players'[n].vote = IF n = i THEN r.request.course
                                                        ELSE players[n].vote
    /\ \/ /\ log' = Append(log, PulseEvent(i - 1))
          /\ phase' = "select"
          /\ \E n \in 1..Len(players) : players'[n].vote = NoVote
       \/ /\ \E sel \in 1..Len(players) :
               log' = Append(Append(log, PulseEvent(i - 1)),
                        InfoEvent([n \in 1..Len(players) |-> players'[n].vote], sel - 1))
          /\ phase' = "race"
          /\ \A n \in 1..Len(players) : players'[n].vote # NoVote
    /\ readRx' \in Seq(Held) /\ \A n \in 1..Len(readRx)' : readRx'[n].request \in Allowed
    /\ UNCHANGED <<gamemode, settings, clients, vacant, isHost, updates, matchmaking, registered,
                   connectRx, disconnectRx, task, key, greeting, cursor, holding, aborted, toServer,
                   toClient, closed, sent>>
<1> DEFINE Voted(r) == [i \in 1..Len(players) |->
                          IF players[i].key = r.key
                          THEN [players[i] EXCEPT !.vote = r.request.course]
                          ELSE players[i]]
           Votes(r) == [i \in 1..Len(players) |-> Voted(r)[i].vote]
           Pulsed(r) == log \o PulseEvents(r.key)
<1>1. PICK r \in Taken("select") :
        /\ VoteAccepted(r) /\ players' = Voted(r) /\ readRx' = Tail(readRx)
        /\ IF SomeoneStillVotes(Votes(r))
           THEN log' = Pulsed(r) /\ phase' = phase
           ELSE /\ \E sel \in 1..Len(players) :
                     log' = Append(Pulsed(r), InfoEvent(Votes(r), sel - 1))
                /\ phase' = "race"
        /\ UNCHANGED <<gamemode, settings, clients, vacant, isHost, updates, matchmaking, registered,
                       connectRx, disconnectRx, task, key, greeting, cursor, holding, aborted,
                       toServer, toClient, closed, sent>>
  BY DEF SelectVote, taskVars, wireVars
<1>2. r = Head(readRx) /\ readRx # <<>> /\ clients[r.key] # NoConn /\ phase = "select"
  BY TakenIsHead
<1>3. /\ r \in Held /\ r.key \in Keys /\ r.request \in Requests /\ readRx' \in Seq(Held)
      /\ \A n \in 1..Len(readRx)' : readRx'[n].request \in Allowed
  BY <1>1, <1>2, TakenFacts
<1>4. r.request.course \in Courses
  BY <1>1, <1>3, RequestKinds DEF VoteAccepted
<1>5. PICK i \in 1..Len(players) :
        ClientPlayers(r.key) = {i} /\ PulseEvents(r.key) = <<PulseEvent(i - 1)>>
  BY <1>2, <1>3, OnePlayer
<1>6. /\ Len(players) \in Nat /\ log \in Seq(Events)
      /\ \A n \in 1..Len(players) : players[n] \in Player
  BY Typed DEF RoomInv
<1>7. \A n \in 1..Len(players) : players[n].key = r.key <=> n = i
  BY <1>5 DEF ClientPlayers
<1>8. players[i].vote = NoVote
  BY <1>1, <1>5 DEF VoteAccepted
<1>9. \A q \in Player, crs \in Courses :
        /\ [q EXCEPT !.vote = crs] \in Player
        /\ [q EXCEPT !.vote = crs].key = q.key /\ [q EXCEPT !.vote = crs].conn = q.conn
        /\ [q EXCEPT !.vote = crs].vote = crs
  BY DEF Player
<1>10. \A n \in 1..Len(players) :
         players'[n] = IF n = i THEN [players[n] EXCEPT !.vote = r.request.course] ELSE players[n]
  BY <1>1, <1>7
<1>11. \A n \in 1..Len(players) : /\ players'[n] \in Player
                                  /\ players'[n].key = players[n].key
                                  /\ players'[n].conn = players[n].conn
                                  /\ players'[n].vote = IF n = i THEN r.request.course
                                                        ELSE players[n].vote
  <2>1. TAKE n \in 1..Len(players)
  <2>2. players[n] \in Player
    BY <1>6
  <2>3. CASE n = i
    <3>1. players'[n] = [players[n] EXCEPT !.vote = r.request.course]
      BY <1>10, <2>3
    <3> QED
      BY <1>4, <1>9, <2>2, <2>3, <3>1
  <2>4. CASE n # i
    <3>1. players'[n] = players[n]
      BY <1>10, <2>4
    <3> QED
      BY <2>2, <2>4, <3>1
  <2> QED
    BY <2>3, <2>4
<1>12. players' \in [1..Len(players) -> Player]
  BY <1>1, <1>11
<1>13. players' \in Seq(Player)
  BY <1>6, <1>12, SeqDef
<1>14. Len(players') = Len(players)
  <2>1. players' \in [1..Len(players') -> Player] /\ Len(players') \in Nat
    BY <1>13, LenProperties
  <2>2. 1..Len(players') = 1..Len(players)
    BY <1>12, <2>1
  <2> QED
    BY <1>6, <2>1, <2>2
<1>15. Pulsed(r) = Append(log, PulseEvent(i - 1))
  <2>1. PulseEvent(i - 1) \in Events
    BY <1>6 DEF PulseEvent, Events
  <2> QED
    BY <1>5, <1>6, <2>1, AppendIsConcat
<1>16. Votes(r) = [n \in 1..Len(players) |-> players'[n].vote]
  BY <1>1
<1>17. SomeoneStillVotes(Votes(r)) <=> \E n \in 1..Len(players) : players'[n].vote = NoVote
  <2> DEFINE v == [n \in 1..Len(players) |-> players'[n].vote]
  <2>1. v \in Seq(Courses \cup {NoVote})
    <3>1. v \in [1..Len(players) -> Courses \cup {NoVote}]
      BY <1>11 DEF Player
    <3> QED
      BY <1>6, <3>1, SeqDef
  <2>2. Len(v) = Len(players)
    <3>1. v \in [1..Len(v) -> Courses \cup {NoVote}] /\ Len(v) \in Nat
      BY <2>1, LenProperties
    <3>2. DOMAIN v = 1..Len(players)
      OBVIOUS
    <3>3. 1..Len(v) = 1..Len(players)
      BY <3>1, <3>2
    <3> QED
      BY <1>6, <3>1, <3>3
  <2>3. \A n \in 1..Len(players) : v[n] = players'[n].vote
    OBVIOUS
  <2>4. Votes(r) = v
    BY <1>16
  <2> HIDE DEF v, Votes
  <2> QED
    BY <2>2, <2>3, <2>4 DEF SomeoneStillVotes
<1>18. \/ /\ log' = Append(log, PulseEvent(i - 1))
          /\ phase' = "select"
          /\ \E n \in 1..Len(players) : players'[n].vote = NoVote
       \/ /\ \E sel \in 1..Len(players) :
               log' = Append(Append(log, PulseEvent(i - 1)),
                        InfoEvent([n \in 1..Len(players) |-> players'[n].vote], sel - 1))
          /\ phase' = "race"
          /\ \A n \in 1..Len(players) : players'[n].vote # NoVote
  <2> HIDE DEF Voted, Votes, Pulsed
  <2>1. CASE SomeoneStillVotes(Votes(r))
    BY <1>1, <1>2, <1>15, <1>17, <2>1
  <2>2. CASE ~SomeoneStillVotes(Votes(r))
    BY <1>1, <1>15, <1>16, <1>17, <2>2
  <2> QED
    BY <2>1, <2>2
<1> HIDE DEF Voted, Votes, Pulsed
<1> QED
  BY <1>1, <1>2, <1>3, <1>4, <1>8, <1>11, <1>13, <1>14, <1>18


\* and a vote.
LEMMA SelectVoteInv ==
  ASSUME RoomInv, SelectVote
  PROVE  RoomInv' /\ Len(players)' = Len(players)
<1>1. PICK i \in 1..Len(players), r \in Held :
    /\ r.request.course \in Courses
    /\ players' \in Seq(Player) /\ Len(players') = Len(players)
    /\ \A n \in 1..Len(players) : /\ players'[n].key = players[n].key
                                  /\ players'[n].conn = players[n].conn
                                  /\ players'[n].vote = IF n = i THEN r.request.course
                                                        ELSE players[n].vote
    /\ \/ /\ log' = Append(log, PulseEvent(i - 1))
          /\ phase' = "select"
       \/ /\ \E sel \in 1..Len(players) :
               log' = Append(Append(log, PulseEvent(i - 1)),
                        InfoEvent([n \in 1..Len(players) |-> players'[n].vote], sel - 1))
          /\ phase' = "race"
          /\ \A n \in 1..Len(players) : players'[n].vote # NoVote
    /\ readRx' \in Seq(Held) /\ \A n \in 1..Len(readRx)' : readRx'[n].request \in Allowed
    /\ UNCHANGED <<gamemode, settings, clients, vacant, isHost, updates, matchmaking, registered,
                   connectRx, disconnectRx, task, key, greeting, cursor, holding, aborted, toServer,
                   toClient, closed, sent>>
  BY SelectVoteFacts
<1>2. Len(players) \in Nat /\ log \in Seq(Events)
  BY Typed DEF RoomInv
<1>3. \A n \in 1..Len(players) : players'[n] \in Player
  BY <1>1, ElementOfSeq
<1>4. log' \in Seq(Events)
  <2>1. PulseEvent(i - 1) \in Events
    BY <1>2 DEF PulseEvent, Events
  <2>2. Append(log, PulseEvent(i - 1)) \in Seq(Events)
    BY <1>2, <2>1, AppendProperties
  <2>3. ASSUME NEW sel \in 1..Len(players), \A n \in 1..Len(players) : players'[n].vote # NoVote
        PROVE  InfoEvent([n \in 1..Len(players) |-> players'[n].vote], sel - 1) \in Events
    <3>1. \A n \in 1..Len(players) : players'[n].vote \in Courses
      BY <1>3, <2>3 DEF Player
    <3>2. [n \in 1..Len(players) |-> players'[n].vote] \in [1..Len(players) -> Courses]
      BY <3>1
    <3>3. [n \in 1..Len(players) |-> players'[n].vote] \in Seq(Courses)
      BY <1>2, <3>2, SeqDef
    <3>4. sel - 1 \in Nat
      BY <1>2
    <3> QED
      BY <3>3, <3>4 DEF InfoEvent, Events
  <2>4. CASE log' = Append(log, PulseEvent(i - 1))
    BY <2>2, <2>4
  <2>5. ASSUME NEW sel \in 1..Len(players), \A n \in 1..Len(players) : players'[n].vote # NoVote,
               log' = Append(Append(log, PulseEvent(i - 1)),
                        InfoEvent([n \in 1..Len(players) |-> players'[n].vote], sel - 1))
        PROVE  log' \in Seq(Events)
    BY <2>2, <2>3, <2>5, AppendProperties
  <2> QED
    BY <1>1, <2>4, <2>5
<1>5. phase' \in {"lobby", "select", "race", "panicked"}
  BY <1>1
<1>6. UNCHANGED <<gamemode, settings, clients, vacant, isHost, updates, matchmaking, registered,
                  connectRx, disconnectRx, task, key, greeting, cursor, holding, aborted, toServer,
                  toClient, closed, sent>>
  BY <1>1
<1>7. /\ readRx' \in Seq(Held) /\ players' \in Seq(Player) /\ Len(players') = Len(players)
      /\ \A n \in 1..Len(readRx)' : readRx'[n].request \in Allowed
      /\ \A n \in 1..Len(players) : /\ players'[n].key = players[n].key
                                    /\ players'[n].conn = players[n].conn
  BY <1>1
<1>8. TypeOK'
  BY <1>4, <1>5, <1>6, <1>7 DEF RoomInv, TypeOK, Held, Player
<1>9. ConnOK' /\ QueueOK' /\ HeldOK'
  BY <1>6, <1>7, ConnFrame
<1>10. SlabFree'
  BY <1>6 DEF RoomInv, SlabFree
<1>11. PlayersOK'
  <2>1. /\ \A n \in 1..Len(players) : players[n].conn = clients[players[n].key]
        /\ \A n, m \in 1..Len(players) : players[n].key = players[m].key => n = m
        /\ \A m \in Keys : clients[m] # NoConn => \E n \in 1..Len(players) : players[n].key = m
    BY DEF RoomInv, PlayersOK
  <2>2. \A n \in 1..Len(players)' : players'[n].conn = clients'[players'[n].key]
    BY <1>6, <1>7, <2>1
  <2>3. \A n, m \in 1..Len(players)' : players'[n].key = players'[m].key => n = m
    BY <1>7, <2>1
  <2>4. \A m \in Keys : clients'[m] # NoConn => \E n \in 1..Len(players)' : players'[n].key = m
    <3>1. TAKE m \in Keys
    <3>2. HAVE clients'[m] # NoConn
    <3>3. PICK n \in 1..Len(players) : players[n].key = m
      BY <1>6, <2>1, <3>2
    <3> QED
      BY <1>7, <3>3
  <2> QED
    BY <2>2, <2>3, <2>4 DEF PlayersOK
<1> QED
  BY <1>7, <1>8, <1>9, <1>10, <1>11 DEF RoomInv


\* No step of the room breaks the invariant,
LEMMA RoomStepInv ==
  ASSUME RoomInv, RoomStep
  PROVE  RoomInv'
<1>1. CASE LobbyConnect
  BY <1>1, LobbyConnectInv
<1>2. CASE LobbyConnectFails
  BY <1>2, LobbyConnectFailsInv
<1>3. CASE LobbyDisconnect
  BY <1>3, LobbyDisconnectInv, RemoveClientInv DEF Removal
<1>4. CASE LobbyDisconnectPanics
  BY <1>4, LobbyDisconnectPanicsInv
<1>5. CASE SkipRequest \/ SelectIgnores
  BY <1>5, SkipRequestInv
<1>6. CASE LobbyRequestFails
  BY <1>6, LobbyRequestFailsInv, RemoveClientInv DEF Removal
<1>7. CASE LobbyComment
  BY <1>7, LobbyCommentInv
<1>8. CASE LobbyStart
  BY <1>8, LobbyStartInv
<1>9. CASE SelectVote
  BY <1>9, SelectVoteInv
<1> QED
  BY <1>1, <1>2, <1>3, <1>4, <1>5, <1>6, <1>7, <1>8, <1>9 DEF RoomStep

\* none of a task,
LEMMA TaskStepInv ==
  ASSUME RoomInv, NEW c \in Conns, TaskStep(c)
  PROVE  RoomInv'
BY AdmitInv, AdmitFailsInv, TaskGreetsInv, TaskWritesInv, TaskReadsInv, TaskDeliversInv,
   TaskLeavesInv, TaskEndsInv, TaskAbortsInv DEF TaskStep

\* none of the server,
LEMMA ServerStepInv ==
  ASSUME RoomInv, ServerStep
  PROVE  RoomInv'
BY RoomStepInv, TaskStepInv, HandleUpdateInv DEF ServerStep

\* and none that leaves everything as it is.
LEMMA StutterInv ==
  ASSUME RoomInv, UNCHANGED vars
  PROVE  RoomInv'
<1>1. UNCHANGED <<phase, gamemode, settings, clients, vacant, isHost, players, updates,
                  matchmaking, registered, connectRx, disconnectRx, readRx, log, task, key,
                  greeting, cursor, holding, aborted, toServer, toClient, closed, sent>>
  BY DEF vars, roomVars, chanVars, taskVars, wireVars
<1>2. Allowed' = Allowed
  BY <1>1 DEF Allowed
<1>3. TypeOK'
  BY <1>1 DEF RoomInv, TypeOK
<1>4. ConnOK' /\ QueueOK' /\ HeldOK'
  BY <1>1, <1>2 DEF RoomInv, ConnOK, QueueOK, HeldOK
<1> QED
  BY <1>1, <1>3, <1>4, SlabFrame DEF RoomInv

\* Nor does a step of a console.
LEMMA ConsoleStepInv ==
  ASSUME RoomInv, NEW c \in Conns, ConsoleStep(c)
  PROVE  RoomInv'
BY ConnectInv, SendInv, CloseInv DEF ConsoleStep

\* The invariant holds of a new room.
LEMMA InitInv == Init => RoomInv
<1> SUFFICES ASSUME Init
             PROVE  RoomInv
  OBVIOUS
<1>1. /\ vacant \in Seq(Keys) /\ Len(vacant) = MaxClients
      /\ \A n \in 1..MaxClients : vacant[n] = n - 1
  <2>1. vacant = [n \in 1..MaxClients |-> n - 1] /\ MaxClients \in Nat
    BY Facts DEF Init
  <2>2. \A n \in 1..MaxClients : n - 1 \in Keys
    BY <2>1 DEF Keys
  <2>3. vacant \in [1..MaxClients -> Keys]
    BY <2>1, <2>2
  <2>4. vacant \in Seq(Keys)
    BY <2>1, <2>3, SeqDef
  <2>5. vacant \in [1..Len(vacant) -> Keys] /\ Len(vacant) \in Nat
    BY <2>4, LenProperties
  <2>6. 1..Len(vacant) = 1..MaxClients
    BY <2>3, <2>5
  <2>7. Len(vacant) = MaxClients
    BY <2>1, <2>5, <2>6
  <2> QED
    BY <2>1, <2>4, <2>7
<1>2. \A S : <<>> \in Seq(S) /\ Len(<<>>) = 0
  BY EmptySeq
<1>3. TypeOK
  <2>1. RoomKinds \subseteq BOOLEAN /\ 0 \in Nat
    BY RoomAssumption
  <2>2. matchmaking \in BOOLEAN /\ registered \in BOOLEAN
    BY <2>1 DEF Init
  <2>3. task \in [Conns -> TaskStates]
    BY DEF Init, TaskStates
  <2>4. clients \in [Keys -> Conns \cup {NoConn}] /\ key \in [Conns -> Keys \cup {NoKey}]
    BY DEF Init
  <2>5. holding \in [Conns -> Requests \cup {NoRequest}]
    BY DEF Init
  <2>6. toServer \in [Conns -> Seq(Requests \cup {JoinRequest})]
    BY <1>2 DEF Init
  <2>7. greeting \in [Conns -> Seq(Events)] /\ toClient \in [Conns -> Seq(Events)]
    BY <1>2 DEF Init
  <2>8. /\ players \in Seq([key : Keys, conn : Conns, vote : Courses \cup {NoVote}])
        /\ updates \in Seq([conn : Conns, isJoin : BOOLEAN, isHost : BOOLEAN])
        /\ connectRx \in Seq(Conns) /\ disconnectRx \in Seq(Keys)
        /\ readRx \in Seq([key : Keys, conn : Conns, request : Requests]) /\ log \in Seq(Events)
    BY <1>2 DEF Init
  <2>9. /\ isHost \in [Conns -> BOOLEAN] /\ aborted \in [Conns -> BOOLEAN]
        /\ closed \in [Conns -> BOOLEAN] /\ cursor \in [Conns -> Nat] /\ sent \in [Conns -> Nat]
    BY DEF Init
  <2>10. /\ phase \in {"lobby", "select", "race", "panicked"} /\ gamemode \in Gamemodes \cup {0}
         /\ settings \in Conns \cup {NoConn}
    BY DEF Init
  <2> QED
    BY <1>1, <2>2, <2>3, <2>4, <2>5, <2>6, <2>7, <2>8, <2>9, <2>10 DEF TypeOK
<1>4. ConnOK
  <2>1. /\ \A c \in Conns : task[c] = "none" /\ toClient[c] = <<>> /\ ~aborted[c]
    BY DEF Init
  <2> QED
    BY <2>1 DEF ConnOK, Present
<1>5. QueueOK
  <2>1. 1..Len(connectRx) = {} /\ 1..Len(readRx) = {}
    BY <1>2 DEF Init
  <2> QED
    BY <2>1 DEF QueueOK
<1>6. \A k \in Keys : clients[k] = NoConn
  BY DEF Init
<1>7. HeldOK
  BY <1>6 DEF HeldOK
<1>8. SlabFree
  <2>1. MaxClients \in Nat
    BY Facts
  <2>2. \A k \in Keys : \E n \in 1..Len(vacant) : vacant[n] = k
    <3>1. TAKE k \in Keys
    <3>2. k + 1 \in 1..Len(vacant) /\ vacant[k + 1] = k
      BY <1>1, <2>1 DEF Keys
    <3> QED
      BY <3>2
  <2>3. \A m, n \in 1..Len(vacant) : vacant[m] = vacant[n] => m = n
    BY <1>1, <2>1
  <2> QED
    BY <1>6, <2>2, <2>3 DEF SlabFree
<1>9. PlayersOK
  <2>1. 1..Len(players) = {}
    BY <1>2 DEF Init
  <2> QED
    BY <1>6, <2>1 DEF PlayersOK
<1> QED
  BY <1>3, <1>4, <1>5, <1>7, <1>8, <1>9 DEF RoomInv

\* The invariant of the room holds, for any number of connections, any slab and
\* any queues, whatever the consoles send and whenever their tasks run.
THEOREM RoomInvariant == Spec => []RoomInv
<1>1. RoomInv /\ [Next]_vars => RoomInv'
  BY ServerStepInv, ConsoleStepInv, StutterInv DEF Next
<1> QED
  BY <1>1, InitInv, PTL DEF Spec

\* Every variable stays within its type: no key, player id or request on its way is
\* one the room does not know.
THEOREM RoomTypeCorrect == Spec => []TypeOK
<1>1. RoomInv => TypeOK
  BY DEF RoomInv
<1> QED
  BY <1>1, RoomInvariant, PTL

\* The players, the slab and its free list.
LEMMA SlabMatches == RoomInv => SlabMatchesPlayers
<1> SUFFICES ASSUME RoomInv
             PROVE  SlabMatchesPlayers
  OBVIOUS
<1>1. ASSUME NEW k \in Keys, clients[k] = NoConn
      PROVE  /\ ClientPlayers(k) = {}
             /\ Cardinality({n \in 1..Len(vacant) : vacant[n] = k}) = 1
  <2>1. \A i \in 1..Len(players) : players[i].key # k
    BY <1>1, Typed, Facts DEF RoomInv, PlayersOK, Player
  <2>2. PICK n \in 1..Len(vacant) : vacant[n] = k
    BY <1>1 DEF RoomInv, SlabFree
  <2>3. {m \in 1..Len(vacant) : vacant[m] = k} = {n}
    BY <2>2 DEF RoomInv, SlabFree
  <2>4. Cardinality({n}) = 1
    BY FS_Singleton
  <2> QED
    BY <2>1, <2>3, <2>4 DEF ClientPlayers
<1>2. ASSUME NEW k \in Keys, clients[k] # NoConn
      PROVE  /\ Cardinality(ClientPlayers(k)) = 1
             /\ players[Lowest(ClientPlayers(k))].conn = clients[k]
             /\ \A n \in 1..Len(vacant) : vacant[n] # k
             /\ key[clients[k]] = k
  <2>1. \A n \in 1..Len(vacant) : vacant[n] # k
    BY <1>2 DEF RoomInv, SlabFree
  <2>2. key[clients[k]] = k
    BY <1>2 DEF RoomInv, HeldOK
  <2> QED
    BY <1>2, <2>1, <2>2, OnePlayer
<1>3. ASSUME NEW i \in 1..Len(players), NEW j \in 1..Len(players),
             players[i].conn = players[j].conn
      PROVE  i = j
  <2>1. /\ players[i].key \in Keys /\ players[i].conn \in Conns
        /\ players[j].key \in Keys /\ players[j].conn \in Conns
    BY Typed DEF RoomInv, Player
  <2>2. clients[players[i].key] = players[i].conn /\ clients[players[j].key] = players[j].conn
    BY DEF RoomInv, PlayersOK
  <2>3. key[players[i].conn] = players[i].key /\ key[players[j].conn] = players[j].key
    BY <2>1, <2>2, Facts DEF RoomInv, HeldOK
  <2>4. players[i].key = players[j].key
    BY <1>3, <2>3
  <2> QED
    BY <2>4 DEF RoomInv, PlayersOK
<1> QED
  BY <1>1, <1>2, <1>3 DEF SlabMatchesPlayers

\* However joins, departures, evictions and reused keys interleave, the clients of
\* the slab and the players of the room are the same connections.
THEOREM SlabAndPlayersAgree == Spec => []SlabMatchesPlayers
BY SlabMatches, RoomInvariant, PTL

-------------------------------------------------------------------------------
(***************************************************************************)
(* A match is a pair.                                                      *)
(***************************************************************************)
\* The steps that are not the room's: they leave the room and its log alone.
LEMMA OtherSteps ==
  ASSUME \/ HandleUpdate \/ \E c \in Conns : TaskStep(c)
         \/ \E c \in Conns : ConsoleStep(c)
         \/ UNCHANGED vars
  PROVE  UNCHANGED <<phase, gamemode, settings, clients, players, matchmaking, log>>
<1>1. CASE HandleUpdate
  BY <1>1 DEF HandleUpdate, chanVars
<1>2. CASE \E c \in Conns : TaskStep(c)
  BY <1>2 DEF TaskStep, Admit, AdmitFails, TaskGreets, TaskWrites, TaskReads, TaskDelivers,
    TaskLeaves, TaskEnds, TaskAborts, roomVars, chanVars
<1>3. CASE \E c \in Conns : ConsoleStep(c)
  BY <1>3 DEF ConsoleStep, Connect, Send, Close, roomVars, chanVars
<1>4. CASE UNCHANGED vars
  BY <1>4 DEF vars, roomVars, chanVars
<1> QED
  BY <1>1, <1>2, <1>3, <1>4

\* A room step that only takes something from a queue.
LEMMA IdleSteps ==
  ASSUME RoomInv, LobbyConnectFails \/ SkipRequest \/ SelectIgnores
  PROVE  UNCHANGED <<phase, gamemode, settings, clients, players, matchmaking, log>>
BY DEF LobbyConnectFails, SkipRequest, SelectIgnores, roomVars

\* What a removal does to the players and to the log.
LEMMA RemovalFacts ==
  ASSUME RoomInv, LobbyDisconnect \/ LobbyRequestFails
  PROVE  /\ phase = "lobby" /\ UNCHANGED <<phase, gamemode, settings, matchmaking>>
         /\ Len(players)' = Len(players) - 1
         /\ \E i \in 1..Len(players) :
              /\ log' = Append(log, LeaveEvent(i - 1))
              /\ \A n \in 1..(Len(players) - 1) :
                   players'[n] = players[IF n < i THEN n ELSE n + 1]
<1>1. PICK k \in Keys :
         /\ Removal(k) /\ disconnectRx' \in Seq(Keys) /\ readRx' \in Seq(Held)
         /\ \A i \in 1..Len(readRx)' : readRx'[i].request \in Allowed
  BY LobbyDisconnectInv, LobbyRequestFailsInv
<1>2. phase = "lobby" /\ UNCHANGED <<phase, gamemode, settings, matchmaking>>
  BY <1>1 DEF Removal, RemoveClient
<1> QED
  BY <1>1, <1>2, RemoveClientInv DEF Removal

\* Next, as the proofs below take it apart.
LEMMA Steps ==
  ASSUME [Next]_vars
  PROVE  \/ LobbyConnect \/ LobbyDisconnectPanics \/ LobbyComment \/ LobbyStart \/ SelectVote
         \/ LobbyDisconnect \/ LobbyRequestFails
         \/ LobbyConnectFails \/ SkipRequest \/ SelectIgnores
         \/ HandleUpdate \/ (\E c \in Conns : TaskStep(c))
         \/ (\E c \in Conns : ConsoleStep(c)) \/ UNCHANGED vars
BY DEF Next, ServerStep, RoomStep

\* No step starts a match of the wrong size, or changes who plays in one.
LEMMA MatchInductive ==
  ASSUME RoomInv, MatchIsAPair, [Next]_vars
  PROVE  MatchIsAPair'
<1>1. Len(players) \in Nat
  BY Typed DEF RoomInv
<1>2. CASE LobbyConnect
  <2>1. phase = "lobby" /\ Len(players)' = Len(players) + 1 /\ matchmaking' = matchmaking
    BY <1>2, LobbyConnectInv DEF LobbyConnect
  <2>2. \/ StartsNow /\ phase' = "select"
        \/ ~StartsNow /\ phase' = "lobby"
    BY <1>2, LobbyConnectFacts
  <2> QED
    BY <1>1, <2>1, <2>2 DEF StartsNow, MatchIsAPair
<1>3. CASE LobbyDisconnect \/ LobbyRequestFails
  <2>1. /\ phase = "lobby" /\ UNCHANGED <<phase, matchmaking>>
        /\ Len(players)' = Len(players) - 1
    BY <1>3, RemovalFacts
  <2> QED
    BY <1>1, <2>1 DEF MatchIsAPair
<1>4. CASE LobbyStart
  <2>1. ~matchmaking /\ matchmaking' = matchmaking
    BY <1>4, LobbyStartInv DEF LobbyStart
  <2> QED
    BY <2>1 DEF MatchIsAPair
<1>5. CASE SelectVote
  <2>1. phase = "select" /\ Len(players)' = Len(players) /\ matchmaking' = matchmaking
    BY <1>5, SelectVoteInv, SelectVoteFacts
  <2>2. phase' \in {"select", "race"}
    BY <1>5, SelectVoteFacts
  <2> QED
    BY <2>1, <2>2 DEF MatchIsAPair
<1>6. CASE LobbyComment
  <2>1. UNCHANGED <<phase, players, matchmaking>>
    BY <1>6 DEF LobbyComment, roomVars
  <2> QED
    BY <2>1 DEF MatchIsAPair
<1>7. CASE LobbyDisconnectPanics
  BY <1>7 DEF LobbyDisconnectPanics, Panic, MatchIsAPair
<1>8. CASE UNCHANGED <<phase, gamemode, settings, clients, players, matchmaking, log>>
  BY <1>8 DEF MatchIsAPair
<1> QED
  BY <1>2, <1>3, <1>4, <1>5, <1>6, <1>7, <1>8, Steps, OtherSteps, IdleSteps

\* A room the matchmaking server opened starts with exactly two players, and both
\* are in it until it ends: select! never removes one behind the start.
THEOREM MatchesArePairs == Spec => []MatchIsAPair
<1>1. Init => MatchIsAPair
  <2>1. Len(<<>>) = 0
    BY EmptySeq
  <2> QED
    BY <2>1 DEF Init, MatchIsAPair
<1>2. RoomInv /\ MatchIsAPair /\ [Next]_vars => MatchIsAPair'
  BY MatchInductive
<1> QED
  BY <1>1, <1>2, RoomInvariant, PTL DEF Spec

-------------------------------------------------------------------------------
(***************************************************************************)
(* The votes and the draw, phase by phase: what has been announced on the  *)
(* log is what the players have voted, so that a vote is announced once,   *)
(* and the outcome only when there is nothing left to announce.            *)
(***************************************************************************)
ModeCourses == IF gamemode = 0 THEN Tracks ELSE Stages

PulsesOnce == \A i, j \in 1..Len(log) : log[i].type = "selectPulse" /\ log[j] = log[i] => i = j

NoOutcomeYet == phase # "race" => \A i \in 1..Len(log) : log[i].type # "selectInfo"

NoVotesYet ==
  /\ phase \in {"lobby", "panicked"} => \A i \in 1..Len(log) : log[i].type # "selectPulse"
  /\ phase = "lobby" => \A n \in 1..Len(players) : players[n].vote = NoVote

VotesAnnounced ==
  phase = "select" =>
    /\ \A n \in 1..Len(players) : players[n].vote # NoVote =>
         players[n].vote \in ModeCourses /\ \E j \in 1..Len(log) : log[j] = PulseEvent(n - 1)
    /\ \A j \in 1..Len(log) : log[j].type = "selectPulse" =>
         \E n \in 1..Len(players) : log[j] = PulseEvent(n - 1) /\ players[n].vote # NoVote

OutcomeStands ==
  \A i \in 1..Len(log) : log[i].type = "selectInfo" =>
    /\ i = Len(log) /\ phase = "race"
    /\ log[i].selected < Len(players)
    /\ log[i].votes = [n \in 1..Len(players) |-> players[n].vote]
    /\ \A n \in 1..Len(players) :
         players[n].vote \in ModeCourses /\ \E j \in 1..i : log[j] = PulseEvent(n - 1)

DrawInv == PulsesOnce /\ NoOutcomeYet /\ NoVotesYet /\ VotesAnnounced /\ OutcomeStands

\* A log to which an event is added.
LEMMA LogGrows ==
  ASSUME NEW l \in Seq(Events), NEW e \in Events
  PROVE  /\ Append(l, e) \in Seq(Events) /\ Len(Append(l, e)) = Len(l) + 1 /\ Len(l) \in Nat
         /\ \A i \in 1..(Len(l) + 1) : \/ i \in 1..Len(l) /\ Append(l, e)[i] = l[i]
                                       \/ i = Len(l) + 1 /\ Append(l, e)[i] = e
BY AppendProperties, LenProperties

\* An event that is about no vote leaves what is known of votes as it is.
LEMMA OtherEvents ==
  ASSUME NEW l \in Seq(Events), NEW e \in Events, e.type \notin {"selectPulse", "selectInfo"},
         \A i \in 1..Len(l) : l[i].type \notin {"selectPulse", "selectInfo"}
  PROVE  \A i \in 1..Len(Append(l, e)) :
           Append(l, e)[i].type \notin {"selectPulse", "selectInfo"}
BY LogGrows

\* Before the votes there is little to show.
LEMMA NoEventsYet ==
  ASSUME \A i \in 1..Len(log) : log[i].type \notin {"selectPulse", "selectInfo"},
         phase \in {"lobby", "select"} =>
           \A n \in 1..Len(players) : players[n].vote = NoVote
  PROVE  DrawInv
BY DEF DrawInv, PulsesOnce, NoOutcomeYet, NoVotesYet, VotesAnnounced, OutcomeStands

\* Until the first vote, a step of the lobby adds only such events.
LEMMA LobbyKeepsDraw ==
  ASSUME RoomInv, DrawInv,
         \/ LobbyConnect \/ LobbyDisconnect \/ LobbyRequestFails \/ LobbyComment \/ LobbyStart
  PROVE  DrawInv'
<1>1. /\ log \in Seq(Events) /\ Len(players) \in Nat /\ players \in Seq(Player)
      /\ gamemode \in Gamemodes \cup {0}
  BY Typed DEF RoomInv, TypeOK
<1>2. phase = "lobby"
  BY RemovalFacts, TakenIsHead DEF LobbyConnect, LobbyComment, LobbyStart
<1>3. /\ \A i \in 1..Len(log) : log[i].type \notin {"selectPulse", "selectInfo"}
      /\ \A n \in 1..Len(players) : players[n].vote = NoVote
  BY <1>2 DEF DrawInv, NoOutcomeYet, NoVotesYet
<1>4. CASE LobbyConnect
  <2>1. PICK c \in Conns, k \in Keys :
          /\ players' = Append(players, [key |-> k, conn |-> c, vote |-> NoVote])
          /\ \/ log' = Append(Append(log, JoinEvent(c)), StartEvent(0))
             \/ log' = Append(log, JoinEvent(c))
    BY <1>4, LobbyConnectFacts
  <2>2. /\ JoinEvent(c) \in Events /\ JoinEvent(c).type \notin {"selectPulse", "selectInfo"}
        /\ StartEvent(0) \in Events /\ StartEvent(0).type \notin {"selectPulse", "selectInfo"}
    BY DEF JoinEvent, StartEvent, Events
  <2>3. /\ Append(log, JoinEvent(c)) \in Seq(Events)
        /\ \A i \in 1..Len(Append(log, JoinEvent(c))) :
             Append(log, JoinEvent(c))[i].type \notin {"selectPulse", "selectInfo"}
    BY <1>1, <1>3, <2>2, OtherEvents, LogGrows
  <2>4. \A i \in 1..Len(Append(Append(log, JoinEvent(c)), StartEvent(0))) :
          Append(Append(log, JoinEvent(c)), StartEvent(0))[i].type
            \notin {"selectPulse", "selectInfo"}
    BY <2>2, <2>3, OtherEvents
  <2>5. \A i \in 1..Len(log)' : log'[i].type \notin {"selectPulse", "selectInfo"}
    BY <2>1, <2>3, <2>4
  <2>6. [key |-> k, conn |-> c, vote |-> NoVote] \in Player
    BY DEF Player
  <2>7. \A n \in 1..Len(players)' : players'[n].vote = NoVote
    BY <1>1, <1>3, <2>1, <2>6, AppendProperties
  <2> QED
    BY <2>5, <2>7 DEF DrawInv, PulsesOnce, NoOutcomeYet, NoVotesYet, VotesAnnounced,
      OutcomeStands
<1>5. CASE LobbyDisconnect \/ LobbyRequestFails
  <2>1. PICK i \in 1..Len(players) :
          /\ log' = Append(log, LeaveEvent(i - 1)) /\ Len(players)' = Len(players) - 1
          /\ \A n \in 1..(Len(players) - 1) : players'[n] = players[IF n < i THEN n ELSE n + 1]
    BY <1>5, RemovalFacts
  <2>2. /\ LeaveEvent(i - 1) \in Events
        /\ LeaveEvent(i - 1).type \notin {"selectPulse", "selectInfo"}
    BY <1>1 DEF LeaveEvent, Events
  <2>3. \A j \in 1..Len(log)' : log'[j].type \notin {"selectPulse", "selectInfo"}
    BY <1>1, <1>3, <2>1, <2>2, OtherEvents
  <2>4. \A n \in 1..Len(players)' : players'[n].vote = NoVote
    BY <1>1, <1>3, <2>1
  <2> QED
    BY <2>3, <2>4 DEF DrawInv, PulsesOnce, NoOutcomeYet, NoVotesYet, VotesAnnounced,
      OutcomeStands
<1>6. CASE LobbyComment
  <2>1. PICK i \in 1..Len(players), m \in Comments : log' = Append(log, CommentEvent(i - 1, m))
    BY <1>6, LobbyCommentInv
  <2>2. /\ CommentEvent(i - 1, m) \in Events
        /\ CommentEvent(i - 1, m).type \notin {"selectPulse", "selectInfo"}
    BY <1>1 DEF CommentEvent, Events
  <2>3. \A j \in 1..Len(log)' : log'[j].type \notin {"selectPulse", "selectInfo"}
    BY <1>1, <1>3, <2>1, <2>2, OtherEvents
  <2>4. players' = players
    BY <1>6 DEF LobbyComment, roomVars
  <2> QED
    BY <1>3, <2>3, <2>4 DEF DrawInv, PulsesOnce, NoOutcomeYet, NoVotesYet, VotesAnnounced,
      OutcomeStands
<1>7. CASE LobbyStart
  <2>1. log' = Append(log, StartEvent(gamemode')) /\ players' = players
    BY <1>7 DEF LobbyStart
  <2>2. /\ StartEvent(gamemode') \in Events
        /\ StartEvent(gamemode').type \notin {"selectPulse", "selectInfo"}
    BY <1>7, LobbyStartInv DEF RoomInv, TypeOK, StartEvent, Events
  <2>3. \A j \in 1..Len(log)' : log'[j].type \notin {"selectPulse", "selectInfo"}
    BY <1>1, <1>3, <2>1, <2>2, OtherEvents
  <2> QED
    BY <1>3, <2>1, <2>3 DEF DrawInv, PulsesOnce, NoOutcomeYet, NoVotesYet, VotesAnnounced,
      OutcomeStands
<1> QED
  BY <1>4, <1>5, <1>6, <1>7

\* A vote is announced for the first time; the last one is followed by the draw.
LEMMA VoteKeepsDraw ==
  ASSUME RoomInv, DrawInv, SelectVote
  PROVE  DrawInv'
<1>1. PICK i \in 1..Len(players), r \in Held :
    /\ phase = "select" /\ VoteAccepted(r) /\ r.request.course \in Courses
    /\ players[i].vote = NoVote /\ Len(players') = Len(players)
    /\ \A n \in 1..Len(players) :
         players'[n].vote = IF n = i THEN r.request.course ELSE players[n].vote
    /\ \/ /\ log' = Append(log, PulseEvent(i - 1))
          /\ phase' = "select"
       \/ /\ \E sel \in 1..Len(players) :
               log' = Append(Append(log, PulseEvent(i - 1)),
                        InfoEvent([n \in 1..Len(players) |-> players'[n].vote], sel - 1))
          /\ phase' = "race"
          /\ \A n \in 1..Len(players) : players'[n].vote # NoVote
    /\ UNCHANGED gamemode
  BY SelectVoteFacts
<1> DEFINE pulsed == Append(log, PulseEvent(i - 1))
<1>2. /\ log \in Seq(Events) /\ Len(log) \in Nat /\ Len(players) \in Nat /\ log' \in Seq(Events)
      /\ NoVote \notin Courses
  BY Typed, SelectVoteInv, Facts DEF RoomInv, TypeOK
<1>3. \A m, n \in 1..Len(players) : PulseEvent(m - 1) = PulseEvent(n - 1) => m = n
  <2>1. \A x, y : PulseEvent(x) = PulseEvent(y) => x = y
    <3>1. \A x : PulseEvent(x).player = x
      BY DEF PulseEvent
    <3> QED
      BY <3>1
  <2> QED
    BY <1>2, <2>1
<1>4. PulseEvent(i - 1) \in Events /\ PulseEvent(i - 1).type = "selectPulse"
  BY <1>2 DEF PulseEvent, Events
<1>5. r.request.course \in ModeCourses /\ r.request.course # NoVote
  BY <1>1, <1>2 DEF VoteAccepted, ModeCourses
<1>6. /\ pulsed \in Seq(Events) /\ Len(pulsed) = Len(log) + 1
      /\ \A j \in 1..(Len(log) + 1) : \/ j \in 1..Len(log) /\ pulsed[j] = log[j]
                                      \/ j = Len(log) + 1 /\ pulsed[j] = PulseEvent(i - 1)
  BY <1>2, <1>4, LogGrows
<1> HIDE DEF pulsed
<1>7. \A j \in 1..Len(log) : log[j] # PulseEvent(i - 1) /\ log[j].type # "selectInfo"
  <2>1. \A j \in 1..Len(log) : log[j].type # "selectInfo"
    BY <1>1 DEF DrawInv, NoOutcomeYet
  <2>2. \A j \in 1..Len(log) : log[j].type = "selectPulse" =>
          \E n \in 1..Len(players) : log[j] = PulseEvent(n - 1) /\ players[n].vote # NoVote
    BY <1>1 DEF DrawInv, VotesAnnounced
  <2> QED
    BY <1>1, <1>3, <1>4, <2>1, <2>2
<1>8. \A j, l \in 1..Len(pulsed) : pulsed[j].type = "selectPulse" /\ pulsed[l] = pulsed[j] => j = l
  BY <1>6, <1>7 DEF DrawInv, PulsesOnce
<1>9. \A n \in 1..Len(players) : players'[n].vote # NoVote =>
        /\ players'[n].vote \in ModeCourses
        /\ \E j \in 1..(Len(log) + 1) : pulsed[j] = PulseEvent(n - 1)
  <2>1. TAKE n \in 1..Len(players)
  <2>2. HAVE players'[n].vote # NoVote
  <2>3. CASE n = i
    <3>1. Len(log) + 1 \in 1..(Len(log) + 1) /\ pulsed[Len(log) + 1] = PulseEvent(i - 1)
      BY <1>2, <1>6
    <3> QED
      BY <1>1, <1>5, <2>3, <3>1
  <2>4. CASE n # i
    <3>1. players[n].vote \in ModeCourses /\ players'[n].vote = players[n].vote
      BY <1>1, <2>2, <2>4 DEF DrawInv, VotesAnnounced
    <3>2. PICK j \in 1..Len(log) : log[j] = PulseEvent(n - 1)
      BY <1>1, <2>2, <2>4 DEF DrawInv, VotesAnnounced
    <3>3. j \in 1..(Len(log) + 1) /\ pulsed[j] = log[j]
      BY <1>2, <1>6
    <3> QED
      BY <3>1, <3>2, <3>3
  <2> QED
    BY <2>3, <2>4
<1>10. \A j \in 1..(Len(log) + 1) : pulsed[j].type = "selectPulse" =>
         \E n \in 1..Len(players) : pulsed[j] = PulseEvent(n - 1) /\ players'[n].vote # NoVote
  <2>1. TAKE j \in 1..(Len(log) + 1)
  <2>2. HAVE pulsed[j].type = "selectPulse"
  <2>3. CASE j \in 1..Len(log) /\ pulsed[j] = log[j]
    <3>1. PICK n \in 1..Len(players) : log[j] = PulseEvent(n - 1) /\ players[n].vote # NoVote
      BY <1>1, <2>2, <2>3 DEF DrawInv, VotesAnnounced
    <3>2. players'[n].vote # NoVote
      BY <1>1, <3>1
    <3> QED
      BY <2>3, <3>1, <3>2
  <2>4. CASE j = Len(log) + 1 /\ pulsed[j] = PulseEvent(i - 1)
    BY <1>1, <1>5, <2>4
  <2> QED
    BY <1>6, <2>3, <2>4
<1>11. ModeCourses' = ModeCourses
  BY <1>1 DEF ModeCourses
<1>12. CASE log' = pulsed /\ phase' = "select"
  <2>1. PulsesOnce'
    BY <1>8, <1>12 DEF PulsesOnce
  <2>2. NoOutcomeYet' /\ OutcomeStands'
    BY <1>4, <1>6, <1>7, <1>12 DEF NoOutcomeYet, OutcomeStands
  <2>3. NoVotesYet'
    BY <1>12 DEF NoVotesYet
  <2>4. VotesAnnounced'
    BY <1>1, <1>6, <1>9, <1>10, <1>11, <1>12 DEF VotesAnnounced
  <2> QED
    BY <2>1, <2>2, <2>3, <2>4 DEF DrawInv
<1>13. ASSUME NEW sel \in 1..Len(players), phase' = "race",
              log' = Append(pulsed, InfoEvent([n \in 1..Len(players) |-> players'[n].vote], sel - 1)),
              \A n \in 1..Len(players) : players'[n].vote # NoVote
       PROVE  DrawInv'
  <2> DEFINE votes == [n \in 1..Len(players) |-> players'[n].vote]
             e == InfoEvent(votes, sel - 1)
  <2>1. e.type = "selectInfo" /\ e.votes = votes /\ e.selected = sel - 1
    BY DEF InfoEvent
  <2>2. e \in Events
    <3>1. \A n \in 1..Len(players) : players'[n].vote \in Courses
      BY <1>1, <1>13, SelectVoteInv, Typed DEF RoomInv, TypeOK, ModeCourses, Courses, DrawInv,
        VotesAnnounced
    <3>2. votes \in [1..Len(players) -> Courses]
      BY <3>1
    <3>3. votes \in Seq(Courses) /\ sel - 1 \in Nat
      BY <1>2, <3>2, SeqDef
    <3> QED
      BY <3>3 DEF InfoEvent, Events
  <2>3. /\ log' = Append(pulsed, e) /\ Len(log)' = Len(log) + 2
        /\ \A j \in 1..(Len(log) + 2) : \/ j \in 1..(Len(log) + 1) /\ log'[j] = pulsed[j]
                                        \/ j = Len(log) + 2 /\ log'[j] = e
    <3> HIDE DEF e
    <3>1. log' = Append(pulsed, e)
      BY <1>13 DEF e
    <3>2. /\ Len(Append(pulsed, e)) = Len(pulsed) + 1
          /\ \A j \in 1..(Len(pulsed) + 1) : \/ j \in 1..Len(pulsed) /\ Append(pulsed, e)[j] = pulsed[j]
                                             \/ j = Len(pulsed) + 1 /\ Append(pulsed, e)[j] = e
      BY <1>6, <2>2, LogGrows
    <3> QED
      BY <1>2, <1>6, <3>1, <3>2
  <2> HIDE DEF e
  <2>4. PulsesOnce'
    BY <1>2, <1>6, <1>8, <2>1, <2>3 DEF PulsesOnce
  <2>5. NoOutcomeYet' /\ NoVotesYet' /\ VotesAnnounced'
    BY <1>13 DEF NoOutcomeYet, NoVotesYet, VotesAnnounced
  <2>6. OutcomeStands'
    <3>1. SUFFICES ASSUME NEW j \in 1..Len(log)', log'[j].type = "selectInfo"
                   PROVE  /\ j = Len(log)' /\ phase' = "race"
                          /\ log'[j].selected < Len(players)'
                          /\ log'[j].votes = [n \in 1..Len(players)' |-> players'[n].vote]
                          /\ \A n \in 1..Len(players)' :
                               /\ players'[n].vote \in ModeCourses'
                               /\ \E l \in 1..j : log'[l] = PulseEvent(n - 1)
      BY DEF OutcomeStands
    <3>2. j = Len(log) + 2 /\ log'[j] = e
      BY <1>4, <1>6, <1>7, <2>3, <3>1
    <3>3. ASSUME NEW n \in 1..Len(players)
          PROVE  /\ players'[n].vote \in ModeCourses'
                 /\ \E l \in 1..j : log'[l] = PulseEvent(n - 1)
      <4>1. PICK l \in 1..(Len(log) + 1) : pulsed[l] = PulseEvent(n - 1)
        BY <1>9, <1>13
      <4>2. l \in 1..j /\ log'[l] = pulsed[l]
        BY <1>2, <2>3, <3>2
      <4> QED
        BY <1>9, <1>11, <1>13, <4>1, <4>2
    <3>4. sel - 1 < Len(players)
      BY <1>2
    <3> QED
      BY <1>1, <1>13, <2>1, <2>3, <3>2, <3>3, <3>4
  <2> QED
    BY <2>4, <2>5, <2>6 DEF DrawInv
<1> QED
  BY <1>1, <1>12, <1>13 DEF pulsed

\* The invariant of the draw survives every step.
LEMMA DrawInductive ==
  ASSUME RoomInv, DrawInv, [Next]_vars
  PROVE  DrawInv'
<1>1. CASE LobbyDisconnectPanics
  <2>1. phase = "lobby" /\ phase' = "panicked" /\ UNCHANGED <<log, players>>
    BY <1>1 DEF LobbyDisconnectPanics, Panic
  <2> QED
    BY <2>1 DEF DrawInv, PulsesOnce, NoOutcomeYet, NoVotesYet, VotesAnnounced, OutcomeStands
<1>2. CASE UNCHANGED <<phase, gamemode, settings, clients, players, matchmaking, log>>
  BY <1>2 DEF DrawInv, PulsesOnce, NoOutcomeYet, NoVotesYet, VotesAnnounced, OutcomeStands,
    ModeCourses
<1> QED
  BY <1>1, <1>2, LobbyKeepsDraw, VoteKeepsDraw, Steps, OtherSteps, IdleSteps

\* The invariant of the draw holds.
THEOREM DrawInvariant == Spec => []DrawInv
<1>1. Init => DrawInv
  <2>1. 1..Len(<<>>) = {}
    BY EmptySeq
  <2> QED
    BY <2>1, NoEventsYet DEF Init
<1>2. RoomInv /\ DrawInv /\ [Next]_vars => DrawInv'
  BY DrawInductive
<1> QED
  BY <1>1, <1>2, RoomInvariant, PTL DEF Spec

\* The outcome is announced after every vote, once, and is one of the votes: no
\* interleaving of requests, departures and skipped keys loses or repeats one.
THEOREM DrawFollowsAllVotes == Spec => []DrawFollowsVotes
<1>1. DrawInv => DrawFollowsVotes
  BY DEF DrawInv, PulsesOnce, OutcomeStands, DrawFollowsVotes, ModeCourses
<1> QED
  BY <1>1, DrawInvariant, PTL

-------------------------------------------------------------------------------
(***************************************************************************)
(* The composition: the consoles of RoomClient are consoles of Room.       *)
(***************************************************************************)
\* What a console is, by its variables that steer what it sends.
Steered ==
  /\ cstate \in [Conns -> {"connect", "setup", "main", "teamSelect", "select", "closed"}]
  /\ changed \in [Conns -> {"no", "pending", "sent"}] /\ voted \in [Conns -> BOOLEAN]
  /\ role \in [Conns -> {"none", "host", "player"}]

\* A console sends a bounded number of requests, its settings and its vote once.
SentBound ==
  \A c \in Conns : sent[c] <= MaxRequests + (IF changed[c] = "sent" THEN 1 ELSE 0)
                                          + (IF voted[c] THEN 1 ELSE 0)

\* A console knows where it stands from what it has received.
InTouch ==
  \A c \in Conns :
    /\ cstate[c] \in {"main", "teamSelect", "select"} \/ role[c] # "none" => Received(c, "settings")
    /\ cstate[c] \in {"teamSelect", "select"} => Received(c, "start")

\* The screen of a friend room is open in a friend room only.
ScreenOK ==
  \A c \in Conns : /\ role[c] # "none" => ~matchmaking
                   /\ changed[c] # "no" => role[c] # "none" /\ SettingsRequest \in Requests

\* Both ends agree on whether there is a connection.
ClosedOK ==
  \A c \in Conns : /\ closed[c] <=> cstate[c] = "closed"
                   /\ task[c] = "none" <=> cstate[c] = "connect"

\* A console reads what was sent.
TakenOK ==
  taken \in [Conns -> Nat] /\ \A c \in Conns : taken[c] <= Len(toClient[c])

ConsoleInv == Steered /\ SentBound /\ InTouch /\ ScreenOK /\ ClosedOK /\ TakenOK

\* Events reach a console one after the other.
LEMMA StreamGrows ==
  ASSUME RoomInv, NEW c \in Conns, NEW type, Received(c, type),
         \/ toClient'[c] = toClient[c]
         \/ \E e \in Events : toClient'[c] = Append(toClient[c], e)
  PROVE  Received(c, type)'
<1>1. toClient[c] \in Seq(Events)
  BY DEF RoomInv, TypeOK
<1>2. PICK i \in 1..Len(toClient[c]) : toClient[c][i].type = type
  BY DEF Received
<1>3. CASE toClient'[c] = toClient[c]
  BY <1>2, <1>3 DEF Received
<1>4. ASSUME NEW e \in Events, toClient'[c] = Append(toClient[c], e)
      PROVE  Received(c, type)'
  <2>1. i \in 1..Len(toClient[c])' /\ toClient'[c][i] = toClient[c][i]
    BY <1>1, <1>4, LogGrows
  <2> QED
    BY <1>2, <2>1 DEF Received
<1> QED
  BY <1>3, <1>4

\* What the server does, as far as a console sees it.
LEMMA ServerFacts ==
  ASSUME RoomInv, ServerStep
  PROVE  /\ UNCHANGED <<matchmaking, closed, sent>>
         /\ \A c \in Conns : \/ toClient'[c] = toClient[c]
                             \/ \E e \in Events : toClient'[c] = Append(toClient[c], e)
         /\ \A c \in Conns : Len(toClient[c]) <= Len(toClient'[c])
         /\ \A c \in Conns : task'[c] = "none" <=> task[c] = "none"
<1> DEFINE Goal == /\ UNCHANGED <<matchmaking, closed, sent>>
                   /\ \A c \in Conns : \/ toClient'[c] = toClient[c]
                                       \/ \E e \in Events : toClient'[c] = Append(toClient[c], e)
<1>1. toClient \in [Conns -> Seq(Events)] /\ greeting \in [Conns -> Seq(Events)]
      /\ log \in Seq(Events) /\ cursor \in [Conns -> Nat]
  BY DEF RoomInv, TypeOK
<1>2. ASSUME RoomStep
      PROVE  UNCHANGED <<matchmaking, closed, sent, toClient>>
  BY <1>2 DEF RoomStep, LobbyConnect, LobbyConnectFails, LobbyDisconnect, LobbyDisconnectPanics,
    SkipRequest, LobbyRequestFails, LobbyComment, LobbyStart, SelectIgnores, SelectVote,
    RemoveClient, Panic, wireVars, roomVars
<1>3. ASSUME HandleUpdate
      PROVE  UNCHANGED <<matchmaking, closed, sent, toClient>>
  BY <1>3 DEF HandleUpdate, wireVars
<1>4. ASSUME NEW c \in Conns, TaskStep(c), ~TaskGreets(c), ~TaskWrites(c)
      PROVE  UNCHANGED <<matchmaking, closed, sent, toClient>>
  BY <1>4 DEF TaskStep, Admit, AdmitFails, TaskReads, TaskDelivers, TaskLeaves, TaskEnds,
    TaskAborts, roomVars, wireVars
<1>5. ASSUME NEW c \in Conns, TaskGreets(c)
      PROVE  Goal
  <2>1. UNCHANGED <<matchmaking, closed, sent>>
    BY <1>5 DEF TaskGreets, roomVars
  <2>2. CASE greeting[c] = <<>>
    BY <1>5, <2>1, <2>2 DEF TaskGreets
  <2>3. CASE greeting[c] # <<>>
    <3>1. toClient' = [toClient EXCEPT ![c] = Append(@, Head(greeting[c]))]
      BY <1>5, <2>3 DEF TaskGreets, Write
    <3>2. Head(greeting[c]) \in Events
      BY <1>1, <2>3, HeadTailProperties
    <3> QED
      BY <1>1, <2>1, <3>1, <3>2
  <2> QED
    BY <2>2, <2>3
<1>6. ASSUME NEW c \in Conns, TaskWrites(c)
      PROVE  Goal
  <2>1. UNCHANGED <<matchmaking, closed, sent>>
    BY <1>6 DEF TaskWrites, roomVars
  <2>2. toClient' = [toClient EXCEPT ![c] = Append(@, log[cursor[c] + 1])]
    BY <1>6 DEF TaskWrites, Write
  <2>3. log[cursor[c] + 1] \in Events
    <3>1. cursor[c] + 1 \in 1..Len(log)
      BY <1>1, <1>6, LenProperties DEF TaskWrites
    <3> QED
      BY <1>1, <3>1, ElementOfSeq
  <2> QED
    BY <1>1, <2>1, <2>2, <2>3
<1>a. ASSUME UNCHANGED <<matchmaking, closed, sent, toClient>>
      PROVE  Goal
  BY <1>a
<1> HIDE DEF Goal
<1>7. Goal
  BY <1>2, <1>3, <1>4, <1>5, <1>6, <1>a DEF ServerStep
<1> USE DEF Goal
<1>8. \A c \in Conns : Len(toClient[c]) <= Len(toClient'[c])
  <2>1. ASSUME NEW c \in Conns
        PROVE  Len(toClient[c]) <= Len(toClient'[c])
    <3>1. toClient[c] \in Seq(Events) /\ Len(toClient[c]) \in Nat
      BY <1>1, LenProperties
    <3>2. \A e \in Events : Len(Append(toClient[c], e)) = Len(toClient[c]) + 1
      BY <3>1, LogGrows
    <3> QED
      BY <1>7, <3>1, <3>2
  <2> QED
    BY <2>1
<1>9. \A c \in Conns : task'[c] = "none" <=> task[c] = "none"
  <2>1. /\ task \in [Conns -> TaskStates] /\ \A i \in 1..Len(connectRx) : connectRx[i] \in Conns
        /\ \A i \in 1..Len(connectRx) : task[connectRx[i]] = "queued"
        /\ \A c \in Conns : task[c] \in Before => ~aborted[c]
    BY Typed DEF RoomInv, ConnOK, QueueOK
  <2>2. connectRx # <<>> => Head(connectRx) \in Conns /\ task[Head(connectRx)] = "queued"
    <3>1. connectRx \in Seq(Conns) /\ Len(connectRx) \in Nat
      BY Typed DEF RoomInv
    <3>2. connectRx # <<>> => 1 \in 1..Len(connectRx) /\ Head(connectRx) = connectRx[1]
      BY <3>1, EmptySeq, HeadTailProperties
    <3> QED
      BY <2>1, <3>2
  <2>3. CASE LobbyConnect \/ LobbyConnectFails
    <3>1. PICK state \in {"greet", "ended"} : task' = [task EXCEPT ![Head(connectRx)] = state]
      BY <2>3 DEF LobbyConnect, LobbyConnectFails
    <3>2. connectRx # <<>>
      BY <2>3 DEF LobbyConnect, LobbyConnectFails
    <3> QED
      BY <2>1, <2>2, <3>1, <3>2
  <2>4. CASE LobbyDisconnectPanics
    BY <2>1, <2>4 DEF LobbyDisconnectPanics, Panic
  <2>5. CASE \/ LobbyDisconnect \/ SkipRequest \/ LobbyRequestFails \/ LobbyComment \/ LobbyStart
             \/ SelectIgnores \/ SelectVote \/ HandleUpdate
    <3>1. UNCHANGED task
      BY <2>5 DEF LobbyDisconnect, SkipRequest, LobbyRequestFails, LobbyComment, LobbyStart,
        SelectIgnores, SelectVote, HandleUpdate, RemoveClient, taskVars
    <3> QED
      BY <3>1
  <2>6. ASSUME NEW c \in Conns, TaskStep(c)
        PROVE  \A d \in Conns : task'[d] = "none" <=> task[d] = "none"
    <3>1. CASE TaskGreets(c) \/ TaskWrites(c)
      BY <2>1, <3>1 DEF TaskGreets, TaskWrites
    <3>2. CASE Admit(c) \/ AdmitFails(c) \/ TaskReads(c) \/ TaskDelivers(c)
      BY <2>1, <3>2 DEF Admit, AdmitFails, TaskReads, TaskDelivers
    <3>3. CASE TaskLeaves(c) \/ TaskEnds(c) \/ TaskAborts(c)
      BY <2>1, <3>3 DEF TaskLeaves, TaskEnds, TaskAborts, Before
    <3> QED
      BY <2>6, <3>1, <3>2, <3>3 DEF TaskStep
  <2> QED
    BY <2>3, <2>4, <2>5, <2>6 DEF ServerStep, RoomStep
<1> QED
  BY <1>7, <1>8, <1>9

\* The server breaks nothing a console relies on.
LEMMA ServerConsoleInv ==
  ASSUME RoomInv, ConsoleInv, ServerActs
  PROVE  ConsoleInv'
<1>1. /\ UNCHANGED <<matchmaking, closed, sent>>
      /\ \A c \in Conns : \/ toClient'[c] = toClient[c]
                          \/ \E e \in Events : toClient'[c] = Append(toClient[c], e)
      /\ UNCHANGED <<cstate, changed, role, voted, taken>>
      /\ \A c \in Conns : task'[c] = "none" <=> task[c] = "none"
      /\ \A c \in Conns : Len(toClient[c]) <= Len(toClient'[c])
  BY ServerFacts DEF ServerActs, clientVars
<1>2. \A c \in Conns, type \in {"settings", "start"} : Received(c, type) => Received(c, type)'
  BY <1>1, StreamGrows
<1>3. Steered' /\ SentBound' /\ ScreenOK' /\ ClosedOK'
  BY <1>1 DEF ConsoleInv, Steered, SentBound, ScreenOK, ClosedOK
<1>4. InTouch'
  BY <1>1, <1>2 DEF ConsoleInv, InTouch
<1>5. TakenOK'
  <2>1. \A c \in Conns : /\ taken[c] <= Len(toClient[c]) /\ Len(toClient[c]) <= Len(toClient'[c])
                         /\ taken[c] \in Nat /\ Len(toClient[c]) \in Nat /\ Len(toClient'[c]) \in Nat
    BY <1>1, ServerStepInv, LenProperties DEF ConsoleInv, TakenOK, RoomInv, TypeOK, ServerActs
  <2> QED
    BY <1>1, <2>1 DEF ConsoleInv, TakenOK
<1> QED
  BY <1>3, <1>4, <1>5 DEF ConsoleInv

\* What a console does to the connection: it reads, it sends a request it may
\* send, it connects or it closes.
MaySend(c, r) ==
  /\ ~closed[c] /\ r \in Requests /\ Received(c, "settings")
  /\ r.type \in {"vote", "teamSelect"} => Received(c, "start")
  /\ matchmaking => r.type \in {"vote", "teamSelect"}
  /\ sent[c] < MaxRequests + 2

\* What a console may send is what the room expects of its room kind.
LEMMA MaySendIsAllowed ==
  ASSUME NEW c \in Conns, NEW r, MaySend(c, r)
  PROVE  r \in Allowed /\ toClient[c] # <<>>
<1>1. PICK i \in 1..Len(toClient[c]) : toClient[c][i].type = "settings"
  BY DEF MaySend, Received
<1>2. Len(<<>>) = 0
  BY EmptySeq
<1>3. toClient[c] # <<>>
  BY <1>1, <1>2
<1> QED
  BY <1>3 DEF MaySend, Allowed

\* The types of the requests without a payload of their own.
LEMMA RequestTypes ==
  /\ \A crs, fits : VoteRequest(crs, fits).type = "vote"
  /\ SettingsRequest.type = "settings" /\ TeamSelectRequest.type = "teamSelect"
BY DEF VoteRequest, SettingsRequest, TeamSelectRequest

\* A vote for a course is a request, where votes are sent.
LEMMA VotesAreRequests ==
  ASSUME NEW crs \in Courses, NEW fits \in BOOLEAN, "vote" \in Kinds
  PROVE  VoteRequest(crs, fits) \in Requests
<1>1. VoteRequest(crs, fits) \in {VoteRequest(x, y) : x \in Courses, y \in BOOLEAN}
  BY SMT
<1>2. VoteRequest(crs, fits).type = "vote"
  BY DEF VoteRequest
<1> QED
  BY <1>1, <1>2 DEF Requests

\* A step of a console: it reads, connects, closes, or sends what it may send.
LEMMA ClientFacts ==
  ASSUME RoomInv, ConsoleInv, NEW c \in Conns, ClientStep(c)
  PROVE  \/ UNCHANGED vars
         \/ Connect(c)
         \/ Close(c)
         \/ \E r \in Requests : MaySend(c, r) /\ Request(c, r)
<1>1. /\ sent \in [Conns -> Nat] /\ MaxRequests \in Nat /\ changed \in [Conns -> {"no", "pending", "sent"}]
      /\ voted \in [Conns -> BOOLEAN]
  BY Facts DEF RoomInv, TypeOK, ConsoleInv, Steered
<1>2. /\ cstate[c] \in {"main", "teamSelect", "select"} \/ role[c] # "none" => Received(c, "settings")
      /\ cstate[c] \in {"teamSelect", "select"} => Received(c, "start")
      /\ role[c] # "none" => ~matchmaking
      /\ changed[c] # "no" => role[c] # "none" /\ SettingsRequest \in Requests
      /\ closed[c] <=> cstate[c] = "closed"
      /\ sent[c] <= MaxRequests + (IF changed[c] = "sent" THEN 1 ELSE 0) + (IF voted[c] THEN 1 ELSE 0)
  BY DEF ConsoleInv, InTouch, ScreenOK, ClosedOK, SentBound
<1>3. CASE ReadsEvent(c)
  BY <1>3 DEF ReadsEvent, GivesUp, Destroy, PlayerJoins, SetupEnds, PlayerLeaves, CommentArrives,
    RoomStarts, TeamSelectIgnores, PulseArrives, InfoArrives
<1>4. CASE ClientLosesServer(c) \/ ClientConnects(c) \/ ClientLeaves(c)
  BY <1>4 DEF ClientLosesServer, ClientLeaves, Destroy, ClientConnects
<1>5. CASE OpenRoomPage(c) \/ ChangeLocalSettings(c)
  BY <1>5 DEF OpenRoomPage, ChangeLocalSettings
<1>6. CASE SettingsAreSent(c)
  <2>1. sent[c] < MaxRequests + 2
    BY <1>1, <1>2, <1>6 DEF SettingsAreSent
  <2>2. MaySend(c, SettingsRequest)
    BY <1>2, <1>6, <2>1, RequestTypes DEF SettingsAreSent, MaySend
  <2> QED
    BY <1>2, <1>6, <2>2 DEF SettingsAreSent
<1>7. CASE SendComment(c) \/ StartRoom(c)
  <2>1. PICK r \in Requests : r.type \in {"comment", "start"} /\ Request(c, r)
    BY <1>7 DEF SendComment, StartRoom
  <2>2. role[c] # "none" /\ Open(c) /\ sent[c] < MaxRequests
    BY <1>7 DEF SendComment, StartRoom
  <2>3. MaySend(c, r)
    BY <1>1, <1>2, <2>1, <2>2 DEF MaySend, Open
  <2> QED
    BY <2>1, <2>3
<1>8. CASE SendTeamSelect(c)
  <2>1. MaySend(c, TeamSelectRequest)
    BY <1>1, <1>2, <1>8, RequestTypes DEF SendTeamSelect, MaySend
  <2> QED
    BY <1>8, <2>1 DEF SendTeamSelect
<1>9. CASE SendVote(c)
  <2>1. PICK crs \in Courses : Request(c, VoteRequest(crs, TRUE))
    BY <1>9 DEF SendVote, Courses
  <2>2. VoteRequest(crs, TRUE) \in Requests
    BY <1>9, VotesAreRequests DEF SendVote
  <2>3. sent[c] < MaxRequests + 2
    BY <1>1, <1>2, <1>9 DEF SendVote
  <2>4. MaySend(c, VoteRequest(crs, TRUE))
    BY <1>2, <1>9, <2>2, <2>3, RequestTypes DEF SendVote, MaySend
  <2> QED
    BY <2>1, <2>2, <2>4
<1> QED
  BY <1>3, <1>4, <1>5, <1>6, <1>7, <1>8, <1>9 DEF ClientStep, UserActs

\* The steps of the composition keep the invariant of the room.
LEMMA OnlineRoomStep ==
  ASSUME RoomInv, ConsoleInv, [OnlineNext]_allVars
  PROVE  RoomInv'
<1>1. CASE ServerActs
  BY <1>1, ServerStepInv DEF ServerActs
<1>2. ASSUME NEW c \in Conns, ClientStep(c)
      PROVE  RoomInv'
  BY <1>2, ClientFacts, StutterInv, ConnectInv, CloseInv, MaySendIsAllowed, RequestInv
<1>3. CASE UNCHANGED allVars
  BY <1>3, StutterInv DEF allVars
<1> QED
  BY <1>1, <1>2, <1>3 DEF OnlineNext

\* The consoles keep their own invariant.
LEMMA ClientConsoleInv ==
  ASSUME RoomInv, ConsoleInv, NEW c \in Conns, ClientStep(c)
  PROVE  ConsoleInv'
<1>1. /\ cstate \in [Conns -> {"connect", "setup", "main", "teamSelect", "select", "closed"}]
      /\ changed \in [Conns -> {"no", "pending", "sent"}] /\ voted \in [Conns -> BOOLEAN]
      /\ role \in [Conns -> {"none", "host", "player"}] /\ sent \in [Conns -> Nat]
      /\ closed \in [Conns -> BOOLEAN] /\ MaxRequests \in Nat /\ taken \in [Conns -> Nat]
      /\ task \in [Conns -> TaskStates]
  BY Facts DEF ConsoleInv, Steered, RoomInv, TypeOK, TakenOK
<1>2. UNCHANGED <<matchmaking, toClient>>
  <2>1. \A r : Request(c, r) => UNCHANGED <<matchmaking, toClient>>
    BY DEF Request, roomVars
  <2> QED
    BY <2>1, ClientFacts DEF vars, roomVars, wireVars, Connect, Close
<1>3. \A d \in Conns : \A type : Received(d, type)' <=> Received(d, type)
  BY <1>2 DEF Received
<1> DEFINE Frame == /\ \A d \in Conns \ {c} :
                      /\ cstate'[d] = cstate[d] /\ changed'[d] = changed[d]
                      /\ voted'[d] = voted[d] /\ role'[d] = role[d]
                      /\ sent'[d] = sent[d] /\ closed'[d] = closed[d] /\ task'[d] = task[d]
                    /\ Steered'
           Mine == /\ sent'[c] <= MaxRequests + (IF changed'[c] = "sent" THEN 1 ELSE 0)
                                              + (IF voted'[c] THEN 1 ELSE 0)
                   /\ \/ cstate'[c] \in {"main", "teamSelect", "select"}
                      \/ role'[c] # "none"
                      => Received(c, "settings")
                   /\ cstate'[c] \in {"teamSelect", "select"} => Received(c, "start")
                   /\ role'[c] # "none" => ~matchmaking
                   /\ changed'[c] # "no" => role'[c] # "none" /\ SettingsRequest \in Requests
                   /\ closed'[c] <=> cstate'[c] = "closed"
                   /\ task'[c] = "none" <=> cstate'[c] = "connect"
<1>4. /\ cstate[c] \in {"main", "teamSelect", "select"} \/ role[c] # "none" => Received(c, "settings")
      /\ cstate[c] \in {"teamSelect", "select"} => Received(c, "start")
      /\ role[c] # "none" => ~matchmaking
      /\ changed[c] # "no" => role[c] # "none" /\ SettingsRequest \in Requests
      /\ closed[c] <=> cstate[c] = "closed"
      /\ task[c] = "none" <=> cstate[c] = "connect"
      /\ sent[c] <= MaxRequests + (IF changed[c] = "sent" THEN 1 ELSE 0) + (IF voted[c] THEN 1 ELSE 0)
  BY DEF ConsoleInv, InTouch, ScreenOK, ClosedOK, SentBound
<1>5. ASSUME NEW type, HasEvent(c), Event(c).type = type
      PROVE  Received(c, type)
  <2>1. taken[c] + 1 \in 1..Len(toClient[c])
    <3>1. toClient[c] \in Seq(Events)
      BY DEF RoomInv, TypeOK
    <3>2. Len(toClient[c]) \in Nat /\ taken[c] \in Nat
      BY <1>1, <3>1, LenProperties
    <3> QED
      BY <1>5, <3>2 DEF HasEvent
  <2> QED
    BY <1>5, <2>1 DEF Event, Received
<1>b. TakenOK'
  <2>1. \/ taken' = taken
        \/ HasEvent(c) /\ taken' = [taken EXCEPT ![c] = @ + 1]
    BY DEF ClientStep, ReadsEvent, UserActs, GivesUp, ClientLosesServer, ClientLeaves, Destroy,
      PlayerJoins, SetupEnds, PlayerLeaves, CommentArrives, RoomStarts, TeamSelectIgnores,
      PulseArrives, InfoArrives, Reads, ClientConnects, OpenRoomPage, SendComment, StartRoom,
      ChangeLocalSettings, SettingsAreSent, SendTeamSelect, SendVote, clientVars
  <2>2. \A d \in Conns : Len(toClient[d]) \in Nat /\ taken[d] <= Len(toClient[d])
    <3>1. \A d \in Conns : toClient[d] \in Seq(Events)
      BY DEF RoomInv, TypeOK
    <3> QED
      BY <3>1, LenProperties DEF ConsoleInv, TakenOK
  <2>3. \A d \in Conns : taken'[d] <= Len(toClient[d])
    <3>1. \A d \in Conns : \/ taken'[d] = taken[d]
                           \/ d = c /\ taken[c] < Len(toClient[c]) /\ taken'[d] = taken[d] + 1
      BY <1>1, <2>1 DEF HasEvent
    <3>2. TAKE d \in Conns
    <3>3. taken[d] \in Nat /\ Len(toClient[d]) \in Nat /\ taken[d] <= Len(toClient[d])
      BY <1>1, <2>2
    <3> QED
      BY <3>1, <3>3
  <2>4. taken' \in [Conns -> Nat]
    BY <1>1, <2>1
  <2> QED
    BY <1>2, <2>3, <2>4 DEF TakenOK
<1>6. CASE PlayerJoins(c) \/ PlayerLeaves(c) \/ CommentArrives(c) \/ TeamSelectIgnores(c)
           \/ PulseArrives(c) \/ InfoArrives(c)
  <2>1. UNCHANGED <<cstate, changed, voted, role, sent, closed, task>>
    BY <1>6 DEF PlayerJoins, PlayerLeaves, CommentArrives, TeamSelectIgnores, PulseArrives,
      InfoArrives, vars, taskVars, wireVars
  <2> QED
    BY <1>2, <1>3, <1>b, <2>1 DEF ConsoleInv, Steered, SentBound, InTouch, ScreenOK, ClosedOK
<1>7. CASE SetupEnds(c)
  <2>1. /\ cstate' = [cstate EXCEPT ![c] = "main"] /\ UNCHANGED <<changed, voted, role, sent, closed, task>>
        /\ HasEvent(c) /\ Event(c).type = "settings" /\ cstate[c] = "setup"
    BY <1>7 DEF SetupEnds, Reads, vars, taskVars, wireVars
  <2>2. Received(c, "settings")
    BY <1>5, <2>1
  <2>3. Frame /\ Mine
    BY <1>1, <1>4, <2>1, <2>2 DEF Steered
  <2> QED
    BY <1>2, <1>3, <1>b, <2>3 DEF ConsoleInv, SentBound, InTouch, ScreenOK, ClosedOK
<1>8. CASE RoomStarts(c)
  <2>1. PICK state \in {"select", "teamSelect"} :
        /\ cstate' = [cstate EXCEPT ![c] = state] /\ UNCHANGED <<changed, voted, role, sent, closed, task>>
        /\ HasEvent(c) /\ Event(c).type = "start" /\ cstate[c] = "main"
    BY <1>8 DEF RoomStarts, Reads, vars, taskVars, wireVars
  <2>2. Received(c, "start")
    BY <1>5, <2>1
  <2>3. Frame /\ Mine
    BY <1>1, <1>4, <2>1, <2>2 DEF Steered
  <2> QED
    BY <1>2, <1>3, <1>b, <2>3 DEF ConsoleInv, SentBound, InTouch, ScreenOK, ClosedOK
<1>9. CASE Destroy(c)
  <2>1. /\ cstate' = [cstate EXCEPT ![c] = "closed"] /\ UNCHANGED <<changed, voted, role, sent>>
        /\ closed' = [closed EXCEPT ![c] = TRUE] /\ task[c] # "none" /\ UNCHANGED task
    BY <1>9 DEF Destroy, Close, taskVars
  <2>2. Frame /\ Mine
    BY <1>1, <1>4, <2>1 DEF Steered
  <2> QED
    BY <1>2, <1>3, <1>b, <2>2 DEF ConsoleInv, SentBound, InTouch, ScreenOK, ClosedOK
<1>10. CASE ClientConnects(c)
  <2>1. /\ cstate' = [cstate EXCEPT ![c] = "setup"] /\ UNCHANGED <<changed, voted, role, sent, closed>>
        /\ task[c] = "none" /\ task' = [task EXCEPT ![c] = "admit"]
    BY <1>10 DEF ClientConnects, Connect
  <2>2. Frame /\ Mine
    BY <1>1, <1>4, <2>1 DEF Steered
  <2> QED
    BY <1>2, <1>3, <1>b, <2>2 DEF ConsoleInv, SentBound, InTouch, ScreenOK, ClosedOK
<1>11. CASE OpenRoomPage(c)
  <2>1. /\ cstate[c] = "main" /\ ~matchmaking /\ UNCHANGED <<cstate, changed, voted, sent, closed, task>>
        /\ role' = [role EXCEPT ![c] = IF IsPlayerLocal(c, 0) THEN "host" ELSE "player"]
    BY <1>11 DEF OpenRoomPage, vars, taskVars, wireVars
  <2>2. role' \in [Conns -> {"none", "host", "player"}] /\ \A d \in Conns \ {c} : role'[d] = role[d]
    BY <1>1, <2>1
  <2>3. Frame /\ Mine
    BY <1>1, <1>4, <2>1, <2>2 DEF Steered
  <2> QED
    BY <1>2, <1>3, <1>b, <2>3 DEF ConsoleInv, SentBound, InTouch, ScreenOK, ClosedOK
<1>12. CASE ChangeLocalSettings(c)
  <2>1. /\ role[c] # "none" /\ changed[c] = "no" /\ UNCHANGED <<cstate, role, voted, sent, closed, task>>
        /\ changed' = [changed EXCEPT ![c] = "pending"] /\ SettingsRequest \in Requests
    BY <1>12 DEF ChangeLocalSettings, vars, taskVars, wireVars
  <2>2. Frame /\ Mine
    BY <1>1, <1>4, <2>1 DEF Steered
  <2> QED
    BY <1>2, <1>3, <1>b, <2>2 DEF ConsoleInv, SentBound, InTouch, ScreenOK, ClosedOK
<1>13. CASE SettingsAreSent(c)
  <2>1. /\ changed[c] = "pending" /\ UNCHANGED <<cstate, role, voted, closed, task>>
        /\ changed' = [changed EXCEPT ![c] = "sent"]
        /\ sent' = [sent EXCEPT ![c] = @ + 1] \/ sent' = sent
    BY <1>13 DEF SettingsAreSent, Request, vars, taskVars, wireVars
  <2>2. sent'[c] <= MaxRequests + 1 + (IF voted'[c] THEN 1 ELSE 0)
    BY <1>1, <1>4, <2>1
  <2>3. Frame /\ Mine
    BY <1>1, <1>4, <2>1, <2>2 DEF Steered
  <2> QED
    BY <1>2, <1>3, <1>b, <2>3 DEF ConsoleInv, SentBound, InTouch, ScreenOK, ClosedOK
<1>14. CASE SendComment(c) \/ StartRoom(c) \/ SendTeamSelect(c)
  <2>1. /\ sent[c] < MaxRequests /\ sent' = [sent EXCEPT ![c] = @ + 1]
        /\ UNCHANGED <<cstate, role, voted, changed, closed, task>>
    BY <1>14 DEF SendComment, StartRoom, SendTeamSelect, Request, taskVars, clientVars
  <2>2. sent'[c] <= MaxRequests
    BY <1>1, <2>1
  <2>3. Frame /\ Mine
    BY <1>1, <1>4, <2>1, <2>2 DEF Steered
  <2> QED
    BY <1>2, <1>3, <1>b, <2>3 DEF ConsoleInv, SentBound, InTouch, ScreenOK, ClosedOK
<1>15. CASE SendVote(c)
  <2>1. /\ ~voted[c] /\ sent' = [sent EXCEPT ![c] = @ + 1]
        /\ voted' = [voted EXCEPT ![c] = TRUE]
        /\ UNCHANGED <<cstate, role, changed, closed, task>>
    BY <1>15 DEF SendVote, Request, taskVars
  <2>2. sent'[c] <= MaxRequests + (IF changed'[c] = "sent" THEN 1 ELSE 0) + 1
    BY <1>1, <1>4, <2>1
  <2>3. Frame /\ Mine
    BY <1>1, <1>4, <2>1, <2>2 DEF Steered
  <2> QED
    BY <1>2, <1>3, <1>b, <2>3 DEF ConsoleInv, SentBound, InTouch, ScreenOK, ClosedOK
<1> QED
  BY <1>6, <1>7, <1>8, <1>9, <1>10, <1>11, <1>12, <1>13, <1>14, <1>15
  DEF ClientStep, ReadsEvent, UserActs, GivesUp, ClientLosesServer, ClientLeaves

\* The consoles start in it.
LEMMA ConsoleInvInit == OnlineInit => ConsoleInv
<1> SUFFICES ASSUME OnlineInit
             PROVE  ConsoleInv
  OBVIOUS
<1>1. Steered
  BY DEF OnlineInit, ClientInit, Steered
<1>2. SentBound
  BY Facts DEF OnlineInit, Init, ClientInit, SentBound
<1>3. InTouch /\ ScreenOK /\ ClosedOK
  BY DEF OnlineInit, Init, ClientInit, InTouch, ScreenOK, ClosedOK
<1>4. TakenOK
  <2>1. \A c \in Conns : taken[c] = 0 /\ Len(toClient[c]) = 0
    BY EmptySeq DEF OnlineInit, Init, ClientInit
  <2>2. taken \in [Conns -> Nat]
    BY DEF OnlineInit, ClientInit
  <2> QED
    BY <2>1, <2>2 DEF TakenOK
<1> QED
  BY <1>1, <1>2, <1>3, <1>4 DEF ConsoleInv

\* Every step of the composition keeps it.
LEMMA ConsoleInductive ==
  ASSUME RoomInv, ConsoleInv, [OnlineNext]_allVars
  PROVE  ConsoleInv'
<1>1. CASE UNCHANGED allVars
  BY <1>1 DEF allVars, vars, roomVars, taskVars, wireVars, clientVars, ConsoleInv, Steered,
    SentBound, InTouch, Received, ScreenOK, ClosedOK, TakenOK
<1> QED
  BY <1>1, ServerConsoleInv, ClientConsoleInv DEF OnlineNext

\* The room keeps its invariant with the consoles of RoomClient at the other end,
\* and they keep theirs.
THEOREM OnlineInvariant == OnlineSpec => [](RoomInv /\ ConsoleInv)
<1>1. OnlineInit => RoomInv /\ ConsoleInv
  BY InitInv, ConsoleInvInit DEF OnlineInit
<1>2. RoomInv /\ ConsoleInv /\ [OnlineNext]_allVars => RoomInv' /\ ConsoleInv'
  BY OnlineRoomStep, ConsoleInductive
<1> QED
  BY <1>1, <1>2, PTL DEF OnlineSpec

-------------------------------------------------------------------------------
\* The requests of a console that may send one more, counted together with
\* those of all the others, stay below what the consoles of Room may send.
Budget == Cardinality(Conns) * (MaxRequests + 2)

\* What stays below M for each of the connections, and below it strictly for one,
\* sums up to less than M for each of them.
LEMMA PairsBelow ==
  ASSUME NEW M \in Nat, M > 0, NEW B, B = Cardinality(Conns) * M, NEW f \in [Conns -> Nat],
         \A d \in Conns : f[d] <= M, NEW c \in Conns, f[c] < M
  PROVE  Cardinality({p \in Conns \X (1..B) : p[2] <= f[p[1]]}) < B
<1> DEFINE All == Conns \X (1..M)
           top == <<c, M>>
           S == {p \in Conns \X (1..B) : p[2] <= f[p[1]]}
<1>1. IsFiniteSet(Conns)
  BY Facts
<1>2. IsFiniteSet(1..M) /\ Cardinality(1..M) = M
  BY FS_Interval
<1>3. IsFiniteSet(All) /\ Cardinality(All) = B
  BY <1>1, <1>2, FS_Product
<1>4. top \in All
  <2>1. M \in 1..M
    OBVIOUS
  <2> QED
    BY <2>1
<1>5. IsFiniteSet(All \ {top}) /\ Cardinality(All \ {top}) = B - 1
  <2> HIDE DEF All, top
  <2> QED
    BY <1>3, <1>4, FS_RemoveElement
<1>6. B \in Nat
  BY <1>3, FS_CardinalityType
<1>7. S \subseteq All \ {top}
  <2>1. ASSUME NEW x \in Conns, NEW y \in 1..B, y <= f[x]
        PROVE  <<x, y>> \in All \ {top}
    <3>1. f[x] \in Nat /\ f[x] <= M
      OBVIOUS
    <3>2. y \in 1..M
      BY <1>6, <2>1, <3>1
    <3>3. x = c => y # M
      BY <1>6, <2>1, <3>1
    <3> QED
      BY <3>2, <3>3
  <2>2. ASSUME NEW p \in S
        PROVE  p \in All \ {top}
    <3>1. p \in Conns \X (1..B) /\ p[2] <= f[p[1]]
      OBVIOUS
    <3>2. PICK x \in Conns, y \in 1..B : p = <<x, y>>
      BY <3>1
    <3>3. y <= f[x]
      BY <3>1, <3>2
    <3> HIDE DEF All, top
    <3> QED
      BY <2>1, <3>2, <3>3
  <2> QED
    BY <2>2
<1>8. Cardinality(S) <= Cardinality(All \ {top}) /\ IsFiniteSet(S)
  BY <1>5, <1>7, FS_Subset
<1>9. Cardinality(S) \in Nat
  BY <1>8, FS_CardinalityType
<1> HIDE DEF S
<1>10. Cardinality(S) < B
  BY <1>5, <1>6, <1>8, <1>9
<1> QED
  BY <1>10 DEF S

\* The instance ConsoleEnvironment differs from Room in MaxRequests only: what
\* does not depend on it is the same, operator by operator.
LEMMA SameCardinality == \A S : ConsoleEnvironment!Cardinality(S) = Cardinality(S)
BY DEF ConsoleEnvironment!Cardinality, Cardinality

\* A request a console of RoomClient may send is one the consoles of Room may.
LEMMA MaySendIsSend ==
  ASSUME RoomInv, ConsoleInv, NEW c \in Conns, NEW r \in Requests, MaySend(c, r), Request(c, r)
  PROVE  ConsoleEnvironment!Send(c, r)
<1>1. sent \in [Conns -> Nat] /\ MaxRequests \in Nat
  BY Facts DEF RoomInv, TypeOK
<1>2. \A d \in Conns : sent[d] <= MaxRequests + 2
  <2>1. TAKE d \in Conns
  <2>2. sent[d] <= MaxRequests + (IF changed[d] = "sent" THEN 1 ELSE 0) + (IF voted[d] THEN 1 ELSE 0)
    BY DEF ConsoleInv, SentBound
  <2> QED
    BY <1>1, <2>2
<1>3. Cardinality({p \in Conns \X (1..Budget) : p[2] <= sent[p[1]]}) < Budget
  <2>1. MaxRequests + 2 \in Nat /\ MaxRequests + 2 > 0 /\ sent[c] < MaxRequests + 2
    BY <1>1 DEF MaySend
  <2> QED
    BY <1>1, <1>2, <2>1, PairsBelow DEF Budget
<1>4. ConsoleEnvironment!RequestsSent = {p \in Conns \X (1..Budget) : p[2] <= sent[p[1]]}
  BY SameCardinality DEF ConsoleEnvironment!RequestsSent, Budget
<1>5. ConsoleEnvironment!Cardinality(ConsoleEnvironment!RequestsSent) < Budget
  BY <1>3, <1>4, SameCardinality
<1> QED
  BY <1>5, SameCardinality DEF MaySend, Request, ConsoleEnvironment!Send, ConsoleEnvironment!Received, Received,
    Budget, ConsoleEnvironment!roomVars, roomVars, ConsoleEnvironment!chanVars, chanVars,
    ConsoleEnvironment!taskVars, taskVars

\* The tasks.
LEMMA SameTasks ==
  ASSUME NEW c \in Conns, TaskStep(c)
  PROVE  ConsoleEnvironment!TaskStep(c)
BY DEF TaskStep, ConsoleEnvironment!TaskStep, Admit, ConsoleEnvironment!Admit, AdmitFails,
  ConsoleEnvironment!AdmitFails, TaskGreets, ConsoleEnvironment!TaskGreets, TaskWrites,
  ConsoleEnvironment!TaskWrites, TaskReads, ConsoleEnvironment!TaskReads, TaskDelivers,
  ConsoleEnvironment!TaskDelivers, TaskLeaves, ConsoleEnvironment!TaskLeaves, TaskEnds,
  ConsoleEnvironment!TaskEnds, TaskAborts, ConsoleEnvironment!TaskAborts,
  roomVars, ConsoleEnvironment!roomVars, chanVars, ConsoleEnvironment!chanVars,
  wireVars, ConsoleEnvironment!wireVars, RoomAlive, ConsoleEnvironment!RoomAlive,
  JoinRequest, ConsoleEnvironment!JoinRequest, NoRequest, ConsoleEnvironment!NoRequest,
  Write, ConsoleEnvironment!Write

\* The listener.
LEMMA SameHandleUpdate == HandleUpdate => ConsoleEnvironment!HandleUpdate
BY DEF HandleUpdate, ConsoleEnvironment!HandleUpdate, chanVars, ConsoleEnvironment!chanVars,
  taskVars, ConsoleEnvironment!taskVars, wireVars, ConsoleEnvironment!wireVars

\* The n-th of a set.
LEMMA SameNth ==
  /\ \A S, n : ConsoleEnvironment!NthLowest(S, n) = NthLowest(S, n)
  /\ \A S, n : ConsoleEnvironment!NthHighest(S, n) = NthHighest(S, n)
  /\ \A S : ConsoleEnvironment!Lowest(S) = Lowest(S)
BY DEF NthLowest, ConsoleEnvironment!NthLowest, NthHighest,
  ConsoleEnvironment!NthHighest, Lowest, ConsoleEnvironment!Lowest, Cardinality,
  ConsoleEnvironment!Cardinality

\* The players of a client.
LEMMA SameClientPlayers == \A k : ConsoleEnvironment!ClientPlayers(k) = ClientPlayers(k)
BY DEF ClientPlayers, ConsoleEnvironment!ClientPlayers

\* The events of several players.
LEMMA SameEvents ==
  \A k : /\ ConsoleEnvironment!LeaveEvents(k) = LeaveEvents(k)
         /\ ConsoleEnvironment!PulseEvents(k) = PulseEvents(k)
         /\ ConsoleEnvironment!PlayersWithout(k) = PlayersWithout(k)
BY DEF LeaveEvents, ConsoleEnvironment!LeaveEvents, PulseEvents,
  ConsoleEnvironment!PulseEvents, PlayersWithout, ConsoleEnvironment!PlayersWithout,
  LeaveEvent, ConsoleEnvironment!LeaveEvent, PulseEvent,
  ConsoleEnvironment!PulseEvent, NthLowest, ConsoleEnvironment!NthLowest, NthHighest,
  ConsoleEnvironment!NthHighest, ClientPlayers, ConsoleEnvironment!ClientPlayers,
  Cardinality, ConsoleEnvironment!Cardinality

\* The updates.
LEMMA SameNotify == \A c, joins : ConsoleEnvironment!Notify(c, joins) <=> Notify(c, joins)
BY DEF Notify, ConsoleEnvironment!Notify, Update, ConsoleEnvironment!Update

\* The checks of a newcomer.
LEMMA SameFull ==
  /\ ConsoleEnvironment!LobbyIsFull <=> LobbyIsFull
  /\ ConsoleEnvironment!StartsNow <=> StartsNow
  /\ ConsoleEnvironment!FreeKey = FreeKey
BY DEF LobbyIsFull, ConsoleEnvironment!LobbyIsFull, StartsNow,
  ConsoleEnvironment!StartsNow, FreeKey, ConsoleEnvironment!FreeKey, Occupied,
  ConsoleEnvironment!Occupied, Keys, ConsoleEnvironment!Keys, Cardinality,
  ConsoleEnvironment!Cardinality

\* A departure.
LEMMA SameRemove == \A k : RemoveClient(k) => ConsoleEnvironment!RemoveClient(k)
BY SameEvents, SameNotify DEF RemoveClient, ConsoleEnvironment!RemoveClient,
  roomVars, ConsoleEnvironment!roomVars, chanVars, ConsoleEnvironment!chanVars,
  taskVars, ConsoleEnvironment!taskVars, wireVars, ConsoleEnvironment!wireVars

\* The unwinding.
LEMMA SamePanic == Panic => ConsoleEnvironment!Panic
BY DEF Panic, ConsoleEnvironment!Panic, InRoom, ConsoleEnvironment!InRoom, Keys,
  ConsoleEnvironment!Keys, roomVars, ConsoleEnvironment!roomVars, chanVars,
  ConsoleEnvironment!chanVars, taskVars, ConsoleEnvironment!taskVars, wireVars,
  ConsoleEnvironment!wireVars

\* The request taken.
LEMMA SameTaken == \A state : ConsoleEnvironment!Taken(state) = Taken(state)
BY DEF Taken, ConsoleEnvironment!Taken

\* What the lobby rejects.
LEMMA SameRejects == \A r : ConsoleEnvironment!LobbyRejects(r) <=> LobbyRejects(r)
BY DEF LobbyRejects, ConsoleEnvironment!LobbyRejects, ClientPlayers,
  ConsoleEnvironment!ClientPlayers

\* What handle_select accepts.
LEMMA SameAccepted == \A r : ConsoleEnvironment!VoteAccepted(r) <=> VoteAccepted(r)
BY DEF VoteAccepted, ConsoleEnvironment!VoteAccepted, ClientPlayers,
  ConsoleEnvironment!ClientPlayers

\* The steps of the room.
LEMMA SameRoomStep == RoomStep => ConsoleEnvironment!RoomStep
<1>1. LobbyConnect => ConsoleEnvironment!LobbyConnect
  BY SameFull, SameNotify DEF LobbyConnect, ConsoleEnvironment!LobbyConnect, JoinEvent,
    ConsoleEnvironment!JoinEvent, SettingsEvent, ConsoleEnvironment!SettingsEvent,
    StartEvent, ConsoleEnvironment!StartEvent, roomVars, ConsoleEnvironment!roomVars,
    chanVars, ConsoleEnvironment!chanVars, taskVars, ConsoleEnvironment!taskVars,
    wireVars, ConsoleEnvironment!wireVars
<1>2. LobbyConnectFails => ConsoleEnvironment!LobbyConnectFails
  BY SameFull DEF LobbyConnectFails, ConsoleEnvironment!LobbyConnectFails, roomVars,
    ConsoleEnvironment!roomVars, chanVars, ConsoleEnvironment!chanVars, taskVars,
    ConsoleEnvironment!taskVars, wireVars, ConsoleEnvironment!wireVars
<1>3. LobbyDisconnect => ConsoleEnvironment!LobbyDisconnect
  BY SameRemove DEF LobbyDisconnect, ConsoleEnvironment!LobbyDisconnect
<1>4. LobbyDisconnectPanics => ConsoleEnvironment!LobbyDisconnectPanics
  BY SamePanic DEF LobbyDisconnectPanics, ConsoleEnvironment!LobbyDisconnectPanics
<1>5. SkipRequest => ConsoleEnvironment!SkipRequest
  BY DEF SkipRequest, ConsoleEnvironment!SkipRequest, roomVars,
    ConsoleEnvironment!roomVars, chanVars, ConsoleEnvironment!chanVars, taskVars,
    ConsoleEnvironment!taskVars, wireVars, ConsoleEnvironment!wireVars
<1>6. LobbyRequestFails => ConsoleEnvironment!LobbyRequestFails
  BY SameTaken, SameRejects, SameRemove DEF LobbyRequestFails,
    ConsoleEnvironment!LobbyRequestFails
<1>7. LobbyComment => ConsoleEnvironment!LobbyComment
  BY SameTaken, SameRejects, SameNth, SameClientPlayers DEF LobbyComment,
    ConsoleEnvironment!LobbyComment, CommentEvent, ConsoleEnvironment!CommentEvent,
    roomVars, ConsoleEnvironment!roomVars, chanVars, ConsoleEnvironment!chanVars,
    taskVars, ConsoleEnvironment!taskVars, wireVars, ConsoleEnvironment!wireVars
<1>8. LobbyStart => ConsoleEnvironment!LobbyStart
  BY SameTaken, SameRejects DEF LobbyStart, ConsoleEnvironment!LobbyStart, StartEvent,
    ConsoleEnvironment!StartEvent, roomVars, ConsoleEnvironment!roomVars, chanVars,
    ConsoleEnvironment!chanVars, taskVars, ConsoleEnvironment!taskVars, wireVars,
    ConsoleEnvironment!wireVars
<1>9. SelectIgnores => ConsoleEnvironment!SelectIgnores
  BY SameTaken, SameAccepted DEF SelectIgnores, ConsoleEnvironment!SelectIgnores,
    roomVars, ConsoleEnvironment!roomVars, chanVars, ConsoleEnvironment!chanVars,
    taskVars, ConsoleEnvironment!taskVars, wireVars, ConsoleEnvironment!wireVars
<1>10. SelectVote => ConsoleEnvironment!SelectVote
  BY SameTaken, SameAccepted, SameEvents DEF SelectVote, ConsoleEnvironment!SelectVote,
    SomeoneStillVotes, ConsoleEnvironment!SomeoneStillVotes, InfoEvent,
    ConsoleEnvironment!InfoEvent, roomVars, ConsoleEnvironment!roomVars, chanVars,
    ConsoleEnvironment!chanVars, taskVars, ConsoleEnvironment!taskVars, wireVars,
    ConsoleEnvironment!wireVars
<1> QED
  BY <1>1, <1>2, <1>3, <1>4, <1>5, <1>6, <1>7, <1>8, <1>9, <1>10
  DEF RoomStep, ConsoleEnvironment!RoomStep

\* The steps of the server.
LEMMA SameServer == ServerStep => ConsoleEnvironment!ServerStep
BY SameRoomStep, SameTasks, SameHandleUpdate DEF ServerStep, ConsoleEnvironment!ServerStep

\* The initial states.
LEMMA SameInit == Init => ConsoleEnvironment!Init
BY DEF Init, ConsoleEnvironment!Init, Keys, ConsoleEnvironment!Keys, NoRequest,
  ConsoleEnvironment!NoRequest

\* Every step of the composition is a step of Room, or leaves its variables alone.
LEMMA OnlineStepIsRoomStep ==
  ASSUME RoomInv, ConsoleInv, [OnlineNext]_allVars
  PROVE  [ConsoleEnvironment!Next]_vars
<1>1. CASE ServerActs
  BY <1>1, SameServer DEF ServerActs, ConsoleEnvironment!Next
<1>2. ASSUME NEW c \in Conns, ClientStep(c)
      PROVE  [ConsoleEnvironment!Next]_vars
  <2>1. CASE UNCHANGED vars
    BY <2>1
  <2>2. CASE Connect(c) \/ Close(c)
    <3>1. ConsoleEnvironment!Connect(c) \/ ConsoleEnvironment!Close(c)
      BY <2>2 DEF Connect, ConsoleEnvironment!Connect, Close, ConsoleEnvironment!Close,
        JoinRequest, ConsoleEnvironment!JoinRequest, roomVars, ConsoleEnvironment!roomVars,
        chanVars, ConsoleEnvironment!chanVars, taskVars, ConsoleEnvironment!taskVars,
        wireVars, ConsoleEnvironment!wireVars
    <3> QED
      BY <3>1 DEF ConsoleEnvironment!Next, ConsoleEnvironment!ConsoleStep
  <2>3. ASSUME NEW r \in Requests, MaySend(c, r), Request(c, r)
        PROVE  [ConsoleEnvironment!Next]_vars
    <3>1. ConsoleEnvironment!Send(c, r)
      BY <2>3, MaySendIsSend
    <3>2. r \in ConsoleEnvironment!Requests
      BY DEF Requests, ConsoleEnvironment!Requests, CommentRequest,
        ConsoleEnvironment!CommentRequest, StartRequest, ConsoleEnvironment!StartRequest,
        SettingsRequest, ConsoleEnvironment!SettingsRequest, TeamSelectRequest,
        ConsoleEnvironment!TeamSelectRequest, VoteRequest, ConsoleEnvironment!VoteRequest,
        Courses, ConsoleEnvironment!Courses
    <3> QED
      BY <3>1, <3>2 DEF ConsoleEnvironment!Next, ConsoleEnvironment!ConsoleStep
  <2> QED
    BY <1>2, <2>1, <2>2, <2>3, ClientFacts
<1>3. CASE UNCHANGED allVars
  BY <1>3 DEF allVars
<1> QED
  BY <1>1, <1>2, <1>3 DEF OnlineNext

\* The consoles of RoomClient are among those Room was checked and proved with: the
\* composition implements Room, so all that is proved of Room holds of it.
THEOREM ConsolesKeepToTheRoom == OnlineSpec => BehavesAsRoom
<1>1. OnlineInit => ConsoleEnvironment!Init
  BY SameInit DEF OnlineInit
<1>2. RoomInv /\ ConsoleInv /\ [OnlineNext]_allVars => [ConsoleEnvironment!Next]_vars
  BY OnlineStepIsRoomStep
<1> QED
  BY <1>1, <1>2, OnlineInvariant, PTL DEF OnlineSpec, BehavesAsRoom

-------------------------------------------------------------------------------
(***************************************************************************)
(* The history of the room: h[n] is what the first n events of the log     *)
(* tell of it, its players and the order in which their votes came.        *)
(***************************************************************************)
Roster == [i \in 1..Len(players) |-> players[i].conn]
Voters == {p \in PlayerIds : p < Len(players) /\ players[p + 1].vote # NoVote}

NoOrders == [i \in PlayerIds |-> NoOrder]
Rosters == {q \in Seq(Conns) : Len(q) <= MaxPlayers}
Story == [roster : Rosters, order : [PlayerIds -> PlayerIds \cup {NoOrder}], pulses : 0..MaxPlayers]
Beginning == [roster |-> <<>>, order |-> NoOrders, pulses |-> 0]

\* A roster once an event of the log has been applied to it.
After(q, e) ==
  CASE e.type = "join" -> Append(q, e.who)
    [] e.type = "leave" -> SubSeq(q, 1, e.player) \o SubSeq(q, e.player + 2, Len(q))
    [] OTHER -> q

\* An event of the log, between what it says of and what it makes of that.
Turns(q, e, q2) ==
  /\ q2.roster = After(q.roster, e)
  /\ IF e.type = "selectPulse"
     THEN q2.order = [q.order EXCEPT ![e.player] = q.pulses] /\ q2.pulses = q.pulses + 1
     ELSE q2.order = q.order /\ q2.pulses = q.pulses
  /\ e.type \in {"leave", "comment", "selectPulse"} => e.player < Len(q.roster)
  /\ e.type = "start" => q.order = NoOrders /\ q.pulses = 0
  /\ e.type # "settings"

Hist(l, h) ==
  /\ h[0] = Beginning
  /\ \A n \in 0..Len(l) : h[n] \in Story
  /\ \A n \in 1..Len(l) : Turns(h[n - 1], l[n], h[n])

\* What the room is now.
Now(q) ==
  /\ q.roster = Roster
  /\ q.pulses = Cardinality(Voters) /\ {q.order[p] : p \in Voters} = 0..(q.pulses - 1)
  /\ q.pulses = 0 => q.order = NoOrders

History(h) == Hist(log, h) /\ Now(h[Len(log)])

\* The log of l2 is that of l and more, the history of h2 that of h and more.
Longer(l, h, l2, h2) ==
  /\ Len(l) <= Len(l2) /\ Len(l2) \in Nat
  /\ \A n \in 1..Len(l) : l2[n] = l[n]
  /\ \A n \in 0..Len(l) : h2[n] = h[n]

\* One event more, one state more.
LEMMA HistGrows ==
  ASSUME NEW l \in Seq(Events), NEW e \in Events, NEW h, Hist(l, h),
         NEW q2 \in Story, Turns(h[Len(l)], e, q2)
  PROVE  \E h2 : /\ Hist(Append(l, e), h2) /\ Longer(l, h, Append(l, e), h2)
                 /\ h2[Len(Append(l, e))] = q2
<1> DEFINE h2 == [n \in 0..(Len(l) + 1) |-> IF n <= Len(l) THEN h[n] ELSE q2]
           l2 == Append(l, e)
<1>1. /\ Len(l2) = Len(l) + 1 /\ Len(l) \in Nat
      /\ \A i \in 1..(Len(l) + 1) : \/ i \in 1..Len(l) /\ l2[i] = l[i]
                                    \/ i = Len(l) + 1 /\ l2[i] = e
  BY LogGrows
<1>2. /\ h[0] = Beginning
      /\ \A n \in 0..Len(l) : h[n] \in Story
      /\ \A n \in 1..Len(l) : Turns(h[n - 1], l[n], h[n])
  BY DEF Hist
<1>4. \A n \in 0..Len(l) : h2[n] = h[n]
  BY <1>1
<1>5. h2[Len(l) + 1] = q2
  BY <1>1
<1>6. \A n \in 0..(Len(l) + 1) : h2[n] \in Story
  BY <1>1, <1>2
<1> HIDE DEF h2, l2
<1>7. \A n \in 1..(Len(l) + 1) : Turns(h2[n - 1], l2[n], h2[n])
  <2>1. TAKE n \in 1..(Len(l) + 1)
  <2>2. CASE n \in 1..Len(l)
    <3>1. n \in 0..Len(l) /\ n - 1 \in 0..Len(l) /\ l2[n] = l[n]
      BY <1>1, <2>2
    <3> QED
      BY <1>2, <1>4, <2>2, <3>1
  <2>3. CASE n = Len(l) + 1
    <3>1. n - 1 = Len(l) /\ Len(l) \in 0..Len(l) /\ l2[n] = e
      BY <1>1, <2>3
    <3> QED
      BY <1>4, <1>5, <2>3, <3>1
  <2> QED
    BY <1>1, <2>2, <2>3
<1>8. h2[0] = Beginning
  BY <1>1, <1>2, <1>4
<1>9. Hist(l2, h2)
  BY <1>1, <1>6, <1>7, <1>8 DEF Hist
<1>10. \A n \in 1..Len(l) : l2[n] = l[n]
  BY <1>1
<1>11. Longer(l, h, l2, h2)
  BY <1>1, <1>4, <1>10 DEF Longer
<1> QED
  BY <1>1, <1>5, <1>9, <1>11 DEF l2

\* Longer twice is longer.
LEMMA LongerTwice ==
  ASSUME NEW l, NEW h, NEW l2, NEW h2, NEW l3, NEW h3, Len(l) \in Nat,
         Longer(l, h, l2, h2), Longer(l2, h2, l3, h3)
  PROVE  Longer(l, h, l3, h3)
<1>1. Len(l) <= Len(l2) /\ Len(l2) <= Len(l3) /\ Len(l2) \in Nat /\ Len(l3) \in Nat
  BY DEF Longer
<1>2. /\ \A n \in 1..Len(l) : n \in 1..Len(l2)
      /\ \A n \in 0..Len(l) : n \in 0..Len(l2)
  BY <1>1
<1> QED
  BY <1>1, <1>2 DEF Longer

\* The players' connections.
LEMMA RosterTyped ==
  ASSUME TypeOK
  PROVE  /\ Roster \in Seq(Conns) /\ Len(Roster) = Len(players) /\ Len(players) \in Nat
         /\ \A i \in 1..Len(players) : Roster[i] = players[i].conn /\ players[i].conn \in Conns
<1>1. Len(players) \in Nat /\ \A i \in 1..Len(players) : players[i].conn \in Conns
  BY Typed DEF Player
<1>2. Roster \in [1..Len(players) -> Conns]
  BY <1>1 DEF Roster
<1>3. Roster \in Seq(Conns)
  BY <1>1, <1>2, SeqDef
<1>4. Len(Roster) = Len(players)
  <2>1. Roster \in [1..Len(Roster) -> Conns] /\ Len(Roster) \in Nat
    BY <1>3, LenProperties
  <2>2. 1..Len(Roster) = 1..Len(players)
    BY <1>2, <2>1
  <2> QED
    BY <1>1, <2>1, <2>2
<1> QED
  BY <1>1, <1>3, <1>4 DEF Roster

\* The same a step later.
LEMMA RosterTypedNext ==
  ASSUME TypeOK'
  PROVE  /\ Roster' \in Seq(Conns) /\ Len(Roster') = Len(players') /\ Len(players') \in Nat
         /\ \A i \in 1..Len(players') : Roster'[i] = players'[i].conn /\ players'[i].conn \in Conns
<1>1. (TypeOK => /\ Roster \in Seq(Conns) /\ Len(Roster) = Len(players) /\ Len(players) \in Nat
                 /\ \A i \in 1..Len(players) : Roster[i] = players[i].conn /\ players[i].conn \in Conns)'
  BY RosterTyped, PTL
<1> QED
  BY <1>1

\* In the lobby there are no votes.
LEMMA NoVotersYet ==
  ASSUME TypeOK, \A n \in 1..Len(players) : players[n].vote = NoVote
  PROVE  Voters = {} /\ Cardinality(Voters) = 0
<1>1. Len(players) \in Nat /\ PlayerIds \subseteq Nat
  BY Typed, Facts DEF PlayerIds
<1>2. \A p \in PlayerIds : p < Len(players) => p + 1 \in 1..Len(players)
  BY <1>1
<1>3. Voters = {}
  BY <1>2 DEF Voters
<1> QED
  BY <1>3, FS_EmptySet

\* The same a step later.
LEMMA NoVotersNext ==
  ASSUME TypeOK', \A n \in 1..Len(players') : players'[n].vote = NoVote
  PROVE  Voters' = {} /\ Cardinality(Voters') = 0
<1>1. (TypeOK /\ (\A n \in 1..Len(players) : players[n].vote = NoVote)
         => Voters = {} /\ Cardinality(Voters) = 0)'
  BY NoVotersYet, PTL
<1> QED
  BY <1>1

\* Nothing happens to log or players.
LEMMA HistoryStays ==
  ASSUME NEW h, History(h), UNCHANGED <<log, players>>
  PROVE  History(h)'
BY DEF History, Now, Roster, Voters

\* An event that is about no vote.
LEMMA LobbyTurn ==
  ASSUME NEW l \in Seq(Events), NEW h, Hist(l, h), NEW e \in Events, NEW q, q = h[Len(l)],
         e.type \in {"join", "leave", "comment", "start"},
         NEW r \in Rosters, r = After(q.roster, e),
         e.type \in {"leave", "comment"} => e.player < Len(q.roster),
         e.type = "start" => q.order = NoOrders /\ q.pulses = 0
  PROVE  \E h2 : /\ Hist(Append(l, e), h2) /\ Longer(l, h, Append(l, e), h2)
                 /\ h2[Len(Append(l, e))] = [roster |-> r, order |-> q.order, pulses |-> q.pulses]
<1> DEFINE q2 == [roster |-> r, order |-> q.order, pulses |-> q.pulses]
<1>1. q \in Story
  <2>1. Len(l) \in 0..Len(l)
    BY LenProperties
  <2> QED
    BY <2>1 DEF Hist
<1>2. q2 \in Story
  BY <1>1 DEF Story
<1>3. q2.roster = r /\ q2.order = q.order /\ q2.pulses = q.pulses
  OBVIOUS
<1> HIDE DEF q2
<1>4. Turns(h[Len(l)], e, q2)
  BY <1>3 DEF Turns
<1> QED
  BY <1>2, <1>4, HistGrows DEF q2

\* What is known while nobody has voted.
LEMMA NowInLobby ==
  ASSUME NEW q, Now(q), Voters = {}
  PROVE  q.roster = Roster /\ q.order = NoOrders /\ q.pulses = 0
BY FS_EmptySet DEF Now

\* Nobody has voted after a step of the lobby either.
LEMMA StillNow ==
  ASSUME NEW q, q.roster = Roster', q.order = NoOrders, q.pulses = 0, Voters' = {}
  PROVE  Now(q)'
<1>1. Cardinality(Voters') = 0 /\ {q.order[p] : p \in Voters'} = {} /\ 0..(0 - 1) = {}
  BY FS_EmptySet
<1> QED
  BY <1>1 DEF Now

\* The history in the lobby, where the last of the log stands.
LEMMA LobbyFacts ==
  ASSUME RoomInv, DrawInv, phase = "lobby", NEW h, History(h)
  PROVE  /\ h[Len(log)].roster = Roster /\ h[Len(log)].order = NoOrders /\ h[Len(log)].pulses = 0
         /\ Hist(log, h) /\ log \in Seq(Events) /\ Voters = {} /\ Len(Roster) = Len(players)
         /\ Roster \in Rosters
<1>1. TypeOK /\ \A n \in 1..Len(players) : players[n].vote = NoVote
  BY DEF RoomInv, DrawInv, NoVotesYet
<1>2. Voters = {}
  BY <1>1, NoVotersYet
<1>3. Len(log) \in 0..Len(log) /\ log \in Seq(Events)
  BY <1>1, Typed
<1>4. h[Len(log)] \in Story /\ Hist(log, h) /\ Now(h[Len(log)])
  BY <1>3 DEF History, Hist
<1>5. h[Len(log)].roster = Roster /\ h[Len(log)].order = NoOrders /\ h[Len(log)].pulses = 0
  BY <1>2, <1>4, NowInLobby
<1>6. Roster \in Rosters
  BY <1>4, <1>5 DEF Story
<1> QED
  BY <1>1, <1>2, <1>3, <1>4, <1>5, <1>6, RosterTyped

\* One event in the lobby, and the room goes on where it ends.
LEMMA LobbyGoesOn ==
  ASSUME RoomInv, DrawInv, phase = "lobby", NEW h, History(h),
         NEW e \in Events, e.type \in {"join", "leave", "comment", "start"},
         log' = Append(log, e), Roster' = After(Roster, e), Roster' \in Rosters, Voters' = {},
         e.type \in {"leave", "comment"} => e.player < Len(players)
  PROVE  \E h2 : History(h2)' /\ Longer(log, h, log', h2)
<1>1. /\ h[Len(log)].roster = Roster /\ h[Len(log)].order = NoOrders /\ h[Len(log)].pulses = 0
      /\ Hist(log, h) /\ log \in Seq(Events) /\ Voters = {} /\ Len(Roster) = Len(players)
      /\ Roster \in Rosters
  BY LobbyFacts
<1>2. PICK q : q = h[Len(log)]
  OBVIOUS
<1>3. PICK r : r = Roster'
  OBVIOUS
<1>4. /\ r \in Rosters /\ r = After(q.roster, e)
      /\ e.type \in {"leave", "comment"} => e.player < Len(q.roster)
      /\ q.order = NoOrders /\ q.pulses = 0
  BY <1>1, <1>2, <1>3
<1>5. PICK h2 : /\ Hist(Append(log, e), h2) /\ Longer(log, h, Append(log, e), h2)
                /\ h2[Len(Append(log, e))] = [roster |-> r, order |-> q.order, pulses |-> q.pulses]
  BY <1>1, <1>2, <1>4, LobbyTurn
<1>6. PICK q2 : q2 = h2[Len(log')]
  OBVIOUS
<1>7. q2.roster = Roster' /\ q2.order = NoOrders /\ q2.pulses = 0
  BY <1>3, <1>4, <1>5, <1>6
<1>8. Now(q2)'
  BY <1>7, StillNow
<1>9. Hist(log', h2) /\ Longer(log, h, log', h2)
  BY <1>5
<1> QED
  BY <1>6, <1>8, <1>9 DEF History, Now

\* A comment tells of a player of the room,
LEMMA CommentGoesOn ==
  ASSUME RoomInv, DrawInv, LobbyComment, NEW h, History(h)
  PROVE  \E h2 : History(h2)' /\ Longer(log, h, log', h2)
<1>1. phase = "lobby" /\ UNCHANGED players
  BY TakenIsHead DEF LobbyComment, roomVars
<1>2. PICK i \in 1..Len(players), m \in Comments : log' = Append(log, CommentEvent(i - 1, m))
  BY LobbyCommentInv
<1> DEFINE e == CommentEvent(i - 1, m)
<1>3. /\ Len(players) \in Nat /\ e.type = "comment" /\ e.player = i - 1 /\ log' = Append(log, e)
      /\ e.player \in Nat /\ e.player < Len(players)
  BY <1>2, Typed DEF CommentEvent, RoomInv
<1>4. e \in Events
  BY <1>3 DEF CommentEvent, Events
<1> HIDE DEF e
<1>5. Roster' = Roster /\ Voters' = Voters
  BY <1>1 DEF Roster, Voters
<1>6. Roster \in Rosters /\ Voters = {}
  BY <1>1, LobbyFacts
<1>7. Roster' = After(Roster, e)
  BY <1>3, <1>5 DEF After
<1> QED
  BY <1>1, <1>3, <1>4, <1>5, <1>6, <1>7, LobbyGoesOn

\* a start comes before the first vote,
LEMMA StartGoesOn ==
  ASSUME RoomInv, DrawInv, LobbyStart, NEW h, History(h)
  PROVE  \E h2 : History(h2)' /\ Longer(log, h, log', h2)
<1>1. PICK r \in Taken("lobby") :
        /\ log' = Append(log, StartEvent(r.request.mode)) /\ UNCHANGED players
        /\ r.request.type = "start"
  BY DEF LobbyStart
<1>2. phase = "lobby" /\ r.request \in Requests
  BY <1>1, TakenIsHead, TakenFacts
<1> DEFINE e == StartEvent(r.request.mode)
<1>3. e.type = "start" /\ log' = Append(log, e)
  BY <1>1 DEF StartEvent
<1>4. e \in Events
  <2>1. r.request.mode \in Gamemodes
    BY <1>1, <1>2, RequestKinds
  <2> QED
    BY <2>1 DEF StartEvent, Events
<1> HIDE DEF e
<1>5. Roster' = Roster /\ Voters' = Voters
  BY <1>1 DEF Roster, Voters
<1>6. Roster \in Rosters /\ Voters = {}
  BY <1>2, LobbyFacts
<1>7. Roster' = After(Roster, e)
  BY <1>3, <1>5 DEF After
<1> QED
  BY <1>2, <1>3, <1>4, <1>5, <1>6, <1>7, LobbyGoesOn

\* a departure takes a player out of the middle,
LEMMA RemovalGoesOn ==
  ASSUME RoomInv, DrawInv, LobbyDisconnect \/ LobbyRequestFails, RoomInv', NEW h, History(h)
  PROVE  \E h2 : History(h2)' /\ Longer(log, h, log', h2)
<1>1. phase = "lobby" /\ Len(players') = Len(players) - 1
  BY RemovalFacts
<1>2. PICK i \in 1..Len(players) :
        /\ log' = Append(log, LeaveEvent(i - 1))
        /\ \A n \in 1..(Len(players) - 1) : players'[n] = players[IF n < i THEN n ELSE n + 1]
  BY RemovalFacts
<1> DEFINE e == LeaveEvent(i - 1)
<1>3. /\ Len(players) \in Nat /\ e.type = "leave" /\ e.player = i - 1 /\ log' = Append(log, e)
      /\ e.player \in Nat /\ e.player < Len(players)
  BY <1>2, Typed DEF LeaveEvent, RoomInv
<1>4. e \in Events
  BY <1>3 DEF LeaveEvent, Events
<1> HIDE DEF e
<1>5. /\ Roster \in Rosters /\ Roster \in Seq(Conns) /\ Len(Roster) = Len(players)
      /\ \A n \in 1..Len(players) : players[n].vote = NoVote /\ Roster[n] = players[n].conn
  BY <1>1, LobbyFacts, RosterTyped DEF RoomInv, DrawInv, NoVotesYet
<1>6. /\ Roster' \in Seq(Conns) /\ Len(Roster') = Len(players) - 1
      /\ \A n \in 1..(Len(players) - 1) : Roster'[n] = players'[n].conn
  BY <1>1, RosterTypedNext DEF RoomInv
<1>a. /\ \A n \in 1..(Len(players) - 1) : (IF n < i THEN n ELSE n + 1) \in 1..Len(players)
      /\ MaxPlayers \in Nat
  BY <1>3, Facts
<1>7. Roster' \in Rosters
  <2>1. PICK m \in Nat : m = Len(players)
    BY <1>3
  <2>2. m <= MaxPlayers /\ m - 1 <= MaxPlayers
    BY <1>5, <1>a, <2>1 DEF Rosters
  <2>3. PICK q \in Seq(Conns) : q = Roster'
    BY <1>6
  <2>4. Len(q) <= MaxPlayers
    BY <1>6, <2>1, <2>2, <2>3
  <2> QED
    BY <2>3, <2>4 DEF Rosters
<1>8. Voters' = {}
  <2>1. \A n \in 1..Len(players') : players'[n].vote = NoVote
    BY <1>1, <1>2, <1>5, <1>a
  <2> QED
    BY <2>1, NoVotersNext DEF RoomInv
<1>9. Roster' = After(Roster, e)
  <2>1. After(Roster, e) = SubSeq(Roster, 1, i - 1) \o SubSeq(Roster, i + 1, Len(Roster))
    <3>1. (i - 1) + 2 = i + 1
      OBVIOUS
    <3> QED
      BY <1>3, <3>1 DEF After
  <2>2. PICK m \in Nat : m = Len(players)
    BY <1>3
  <2>3. /\ \A n \in 1..(i - 1) : Roster[n] \in Conns
        /\ \A n \in (i + 1)..m : Roster[n] \in Conns
    BY <1>5, <2>2, ElementOfSeq
  <2>4. PICK s : s = SubSeq(Roster, 1, i - 1)
    OBVIOUS
  <2>5. PICK t : t = SubSeq(Roster, i + 1, m)
    OBVIOUS
  <2>6. /\ s \in Seq(Conns) /\ Len(s) = i - 1
        /\ \A n \in 1..(i - 1) : s[n] = Roster[n]
    <3>1. /\ s \in Seq(Conns) /\ Len(s) = (IF 1 <= i - 1 THEN (i - 1) - 1 + 1 ELSE 0)
          /\ \A n \in 1..((i - 1) - 1 + 1) : s[n] = Roster[1 + n - 1]
      BY <2>3, <2>4, SubSeqProperties
    <3> QED
      BY <2>2, <3>1
  <2>7. /\ t \in Seq(Conns) /\ Len(t) = m - i
        /\ \A n \in 1..(m - i) : t[n] = Roster[i + n]
    <3>1. /\ t \in Seq(Conns) /\ Len(t) = (IF i + 1 <= m THEN m - (i + 1) + 1 ELSE 0)
          /\ \A n \in 1..(m - (i + 1) + 1) : t[n] = Roster[(i + 1) + n - 1]
      BY <2>2, <2>3, <2>5, SubSeqProperties
    <3>2. \A n \in Nat : (i + 1) + n - 1 = i + n
      OBVIOUS
    <3>3. m - (i + 1) + 1 = m - i /\ (~(i + 1 <= m) => m - i = 0)
      BY <2>2
    <3>4. \A n \in 1..(m - i) : n \in Nat
      BY <2>2
    <3> QED
      BY <2>2, <3>1, <3>2, <3>3, <3>4
  <2>8. /\ s \o t \in Seq(Conns) /\ Len(s \o t) = (i - 1) + (m - i)
        /\ \A n \in 1..((i - 1) + (m - i)) :
             (s \o t)[n] = IF n <= i - 1 THEN s[n] ELSE t[n - (i - 1)]
    <3>1. s \in Seq(Conns) /\ t \in Seq(Conns)
      BY <2>6, <2>7
    <3>2. /\ s \o t \in Seq(Conns) /\ Len(s \o t) = Len(s) + Len(t)
          /\ \A n \in 1..(Len(s) + Len(t)) :
               (s \o t)[n] = IF n <= Len(s) THEN s[n] ELSE t[n - Len(s)]
      BY <3>1, ConcatProperties
    <3> QED
      BY <2>6, <2>7, <3>2
  <2>9. ASSUME NEW n \in 1..(m - 1)
        PROVE  (s \o t)[n] = Roster'[n]
    <3>1. Roster'[n] = Roster[IF n < i THEN n ELSE n + 1]
      BY <1>2, <1>5, <1>6, <1>a, <2>2
    <3>2. n \in 1..((i - 1) + (m - i))
      BY <2>2
    <3>3. CASE n < i
      <4>1. n \in 1..(i - 1) /\ n <= i - 1
        BY <2>2, <3>3
      <4> QED
        BY <2>6, <2>8, <3>1, <3>2, <3>3, <4>1
    <3>4. CASE ~(n < i)
      <4>1. n - (i - 1) \in 1..(m - i) /\ ~(n <= i - 1) /\ i + (n - (i - 1)) = n + 1
        BY <2>2, <3>4
      <4>2. (s \o t)[n] = t[n - (i - 1)] /\ t[n - (i - 1)] = Roster[n + 1]
        BY <2>7, <2>8, <3>2, <4>1
      <4> QED
        BY <3>1, <3>4, <4>2
    <3> QED
      BY <3>3, <3>4
  <2>10. Len(s \o t) = m - 1 /\ Len(Roster') = m - 1
    BY <1>6, <2>2, <2>8
  <2>11. Roster' = s \o t
    <3>1. PICK r : r = Roster'
      OBVIOUS
    <3> QED
      BY <1>6, <2>8, <2>9, <2>10, <3>1, SeqEqual
  <2> QED
    BY <1>5, <2>1, <2>2, <2>4, <2>5, <2>11
<1> QED
  BY <1>1, <1>3, <1>4, <1>7, <1>8, <1>9, LobbyGoesOn

\* and a newcomer adds one at the end; two of them start a match.
LEMMA ConnectGoesOn ==
  ASSUME RoomInv, DrawInv, LobbyConnect, RoomInv', NEW h, History(h)
  PROVE  \E h2 : History(h2)' /\ Longer(log, h, log', h2)
<1>1. PICK c \in Conns, k \in Keys :
        /\ phase = "lobby"
        /\ players' = Append(players, [key |-> k, conn |-> c, vote |-> NoVote])
        /\ \/ log' = Append(Append(log, JoinEvent(c)), StartEvent(0))
           \/ log' = Append(log, JoinEvent(c))
  BY LobbyConnectFacts
<1> DEFINE e == JoinEvent(c)
           s == StartEvent(0)
<1>2. e.type = "join" /\ e.who = c /\ e \in Events
  BY DEF JoinEvent, Events
<1>3. s.type = "start" /\ s \in Events
  BY DEF StartEvent, Events
<1>4. log' = Append(log, e) \/ log' = Append(Append(log, e), s)
  BY <1>1
<1> HIDE DEF e, s
<1>5. /\ h[Len(log)].roster = Roster /\ h[Len(log)].order = NoOrders /\ h[Len(log)].pulses = 0
      /\ Hist(log, h) /\ log \in Seq(Events) /\ Len(Roster) = Len(players)
      /\ Roster \in Rosters
  BY <1>1, LobbyFacts
<1>6. /\ \A n \in 1..Len(players) : players[n].vote = NoVote /\ Roster[n] = players[n].conn
      /\ Len(players) \in Nat /\ players \in Seq(Player) /\ Roster \in Seq(Conns)
  BY <1>1, RosterTyped, Typed DEF RoomInv, DrawInv, NoVotesYet
<1> DEFINE p == [key |-> k, conn |-> c, vote |-> NoVote]
<1>7. p \in Player /\ p.conn = c /\ p.vote = NoVote
  BY DEF Player
<1> HIDE DEF p
<1>8. /\ Len(players') = Len(players) + 1 /\ players'[Len(players) + 1] = p
      /\ \A n \in 1..Len(players) : players'[n] = players[n]
  BY <1>1, <1>6, <1>7, AppendProperties DEF p
<1>9. \A n \in 1..Len(players') : n \in 1..Len(players) \/ n = Len(players) + 1
  BY <1>6, <1>8
<1>10. Voters' = {}
  <2>1. \A n \in 1..Len(players') : players'[n].vote = NoVote
    BY <1>6, <1>7, <1>8, <1>9
  <2> QED
    BY <2>1, NoVotersNext DEF RoomInv
<1>11. PICK r : r = Roster'
  OBVIOUS
<1>12. r \in Rosters
  <2>1. Len(players) + 1 <= MaxPlayers
    BY <1>6, Facts DEF LobbyConnect, LobbyIsFull
  <2>2. r \in Seq(Conns) /\ Len(r) = Len(players) + 1
    BY <1>8, <1>11, RosterTypedNext DEF RoomInv
  <2> QED
    BY <2>1, <2>2 DEF Rosters
<1>13. r = After(Roster, e)
  <2>1. /\ r \in Seq(Conns) /\ Len(r) = Len(players) + 1
        /\ \A n \in 1..(Len(players) + 1) : r[n] = players'[n].conn
    BY <1>8, <1>11, RosterTypedNext DEF RoomInv
  <2>2. /\ Append(Roster, c) \in Seq(Conns) /\ Len(Append(Roster, c)) = Len(players) + 1
        /\ \A n \in 1..Len(players) : Append(Roster, c)[n] = Roster[n]
        /\ Append(Roster, c)[Len(players) + 1] = c
    BY <1>5, <1>6, AppendProperties
  <2>3. \A n \in 1..(Len(players) + 1) : r[n] = Append(Roster, c)[n]
    BY <1>6, <1>7, <1>8, <1>9, <2>1, <2>2
  <2>4. r = Append(Roster, c)
    BY <2>1, <2>2, <2>3, SeqEqual
  <2> QED
    BY <1>2, <2>4 DEF After
<1>14. PICK q : q = h[Len(log)]
  OBVIOUS
<1>15. q.roster = Roster /\ q.order = NoOrders /\ q.pulses = 0
  BY <1>5, <1>14
<1>16. PICK h2 : /\ Hist(Append(log, e), h2) /\ Longer(log, h, Append(log, e), h2)
                 /\ h2[Len(Append(log, e))] = [roster |-> r, order |-> q.order, pulses |-> q.pulses]
  <2>1. r = After(q.roster, e)
    BY <1>13, <1>15
  <2> QED
    BY <1>2, <1>5, <1>12, <1>14, <2>1, LobbyTurn
<1>17. PICK q2 : q2 = h2[Len(Append(log, e))]
  OBVIOUS
<1>18. q2.roster = r /\ q2.order = NoOrders /\ q2.pulses = 0
  BY <1>15, <1>16, <1>17
<1>19. ASSUME NEW x, x.roster = r, x.order = NoOrders, x.pulses = 0
       PROVE  Now(x)'
  BY <1>10, <1>11, <1>19, StillNow
<1>20. CASE log' = Append(log, e)
  <2>1. Now(q2)'
    BY <1>18, <1>19
  <2>2. Hist(log', h2) /\ Longer(log, h, log', h2) /\ q2 = h2[Len(log')]
    BY <1>16, <1>17, <1>20
  <2> QED
    BY <2>1, <2>2 DEF History, Now
<1>21. CASE log' = Append(Append(log, e), s)
  <2>1. PICK l : l = Append(log, e)
    OBVIOUS
  <2>2. l \in Seq(Events) /\ Hist(l, h2) /\ q2 = h2[Len(l)] /\ Longer(log, h, l, h2)
    BY <1>2, <1>5, <1>16, <1>17, <2>1, AppendProperties
  <2>3. r = After(q2.roster, s)
    BY <1>3, <1>18 DEF After
  <2>4. PICK h3 : /\ Hist(Append(l, s), h3) /\ Longer(l, h2, Append(l, s), h3)
                  /\ h3[Len(Append(l, s))]
                       = [roster |-> r, order |-> q2.order, pulses |-> q2.pulses]
    BY <1>3, <1>12, <1>18, <2>2, <2>3, LobbyTurn
  <2>5. PICK q3 : q3 = h3[Len(Append(l, s))]
    OBVIOUS
  <2>6. Now(q3)'
    <3>1. q3.roster = r /\ q3.order = NoOrders /\ q3.pulses = 0
      BY <1>18, <2>4, <2>5
    <3> QED
      BY <1>19, <3>1
  <2>7. Len(log) \in Nat
    BY <1>5, LenProperties
  <2>8. Longer(log, h, Append(l, s), h3)
    BY <2>2, <2>4, <2>7, LongerTwice
  <2>9. Hist(log', h3) /\ Longer(log, h, log', h3) /\ q3 = h3[Len(log')]
    BY <1>21, <2>1, <2>4, <2>5, <2>8
  <2> QED
    BY <2>6, <2>9 DEF History, Now
<1> QED
  BY <1>4, <1>20, <1>21

\* The player of a new vote was none of the voters, and there was room for it.
LEMMA NewVoter ==
  ASSUME RoomInv, RoomInv', NEW h, History(h), NEW i \in 1..Len(players), players[i].vote = NoVote,
         Len(players') = Len(players),
         \A n \in 1..Len(players) : players'[n].vote # NoVote <=> n = i \/ players[n].vote # NoVote
  PROVE  /\ i - 1 \in PlayerIds /\ i - 1 \notin Voters /\ Voters' = Voters \cup {i - 1}
         /\ Cardinality(Voters') = Cardinality(Voters) + 1
         /\ Cardinality(Voters) \in PlayerIds
<1>1. /\ Len(players) \in Nat /\ Len(Roster) = Len(players) /\ MaxPlayers \in Nat
      /\ PlayerIds = 0..(MaxPlayers - 1)
  BY RosterTyped, Facts DEF RoomInv, PlayerIds
<1>2. Len(Roster) <= MaxPlayers
  <2>1. Len(log) \in 0..Len(log)
    BY Typed DEF RoomInv
  <2> QED
    BY <2>1 DEF History, Hist, Now, Story, Rosters
<1>3. i - 1 \in PlayerIds /\ (i - 1) + 1 = i
  BY <1>1, <1>2
<1>4. i - 1 \notin Voters
  BY <1>3 DEF Voters
<1>5. \A p \in PlayerIds : p < Len(players) => p + 1 \in 1..Len(players) /\ (p + 1 = i <=> p = i - 1)
  BY <1>1
<1>6. Voters' = Voters \cup {i - 1}
  <2>1. Voters' = {p \in PlayerIds : p < Len(players) /\ (p = i - 1 \/ players[p + 1].vote # NoVote)}
    BY <1>5 DEF Voters
  <2>2. i - 1 < Len(players)
    BY <1>1
  <2> QED
    BY <1>3, <2>1, <2>2 DEF Voters
<1>7. IsFiniteSet(PlayerIds) /\ Cardinality(PlayerIds) = MaxPlayers
  <2>1. IsFiniteSet(0..(MaxPlayers - 1)) /\ Cardinality(0..(MaxPlayers - 1)) =
          IF 0 > MaxPlayers - 1 THEN 0 ELSE (MaxPlayers - 1) - 0 + 1
    BY <1>1, FS_Interval
  <2> QED
    BY <1>1, <2>1
<1>8. Voters \subseteq PlayerIds /\ Voters \cup {i - 1} \subseteq PlayerIds
  BY <1>3 DEF Voters
<1>9. IsFiniteSet(Voters)
  BY <1>7, <1>8, FS_Subset
<1>10. Cardinality(Voters \cup {i - 1}) = Cardinality(Voters) + 1 /\ Cardinality(Voters) \in Nat
  BY <1>4, <1>9, FS_AddElement, FS_CardinalityType
<1>11. Cardinality(Voters \cup {i - 1}) <= MaxPlayers
  BY <1>7, <1>8, FS_Subset
<1>12. Cardinality(Voters) \in PlayerIds
  BY <1>1, <1>10, <1>11
<1> QED
  BY <1>3, <1>4, <1>6, <1>10, <1>12

\* A vote is announced, and counted in the order of the announcements.
LEMMA VoteGoesOn ==
  ASSUME RoomInv, SelectVote, RoomInv', NEW h, History(h)
  PROVE  \E h2 : History(h2)' /\ Longer(log, h, log', h2)
<1>1. PICK i \in 1..Len(players), r \in Held :
        /\ players[i].vote = NoVote /\ Len(players') = Len(players)
        /\ r.request.course \in Courses
        /\ \A n \in 1..Len(players) : /\ players'[n].conn = players[n].conn
                                      /\ players'[n].vote = IF n = i THEN r.request.course
                                                            ELSE players[n].vote
        /\ \/ log' = Append(log, PulseEvent(i - 1))
           \/ \E sel \in 1..Len(players) :
               log' = Append(Append(log, PulseEvent(i - 1)),
                        InfoEvent([n \in 1..Len(players) |-> players'[n].vote], sel - 1))
  BY SelectVoteFacts
<1>2. /\ Len(players) \in Nat /\ Len(Roster) = Len(players) /\ Roster' = Roster
      /\ log \in Seq(Events) /\ log' \in Seq(Events) /\ Len(log) \in Nat
  BY <1>1, RosterTyped, Typed DEF RoomInv, Roster, TypeOK
<1>3. /\ i - 1 \in PlayerIds /\ i - 1 \notin Voters /\ Voters' = Voters \cup {i - 1}
      /\ Cardinality(Voters') = Cardinality(Voters) + 1
      /\ Cardinality(Voters) \in PlayerIds
  <2>1. \A n \in 1..Len(players) :
          players'[n].vote # NoVote <=> n = i \/ players[n].vote # NoVote
    BY <1>1, Facts
  <2> QED
    BY <1>1, <2>1, NewVoter
<1> DEFINE e == PulseEvent(i - 1)
<1>4. e.type = "selectPulse" /\ e.player = i - 1 /\ e \in Events /\ i - 1 < Len(players)
  BY <1>2 DEF PulseEvent, Events
<1>5. PICK q : q = h[Len(log)]
  OBVIOUS
<1>6. q \in Story /\ Hist(log, h)
  BY <1>2, <1>5 DEF History, Hist
<1>7. /\ q.roster = Roster /\ q.pulses = Cardinality(Voters)
      /\ {q.order[p] : p \in Voters} = 0..(q.pulses - 1)
  BY <1>5 DEF History, Now
<1>a. PICK q2 : q2 = [roster |-> q.roster, order |-> [q.order EXCEPT ![i - 1] = q.pulses],
                      pulses |-> q.pulses + 1]
  OBVIOUS
<1>8. /\ q2.roster = q.roster /\ q2.order = [q.order EXCEPT ![i - 1] = q.pulses]
      /\ q2.pulses = q.pulses + 1
  BY <1>a
<1>9. q2 \in Story
  <2>1. /\ q.pulses \in PlayerIds /\ q.order \in [PlayerIds -> PlayerIds \cup {NoOrder}]
        /\ q.roster \in Rosters
    BY <1>3, <1>6, <1>7 DEF Story
  <2>2. q.pulses + 1 \in 0..MaxPlayers
    BY <2>1, Facts DEF PlayerIds
  <2>3. [q.order EXCEPT ![i - 1] = q.pulses] \in [PlayerIds -> PlayerIds \cup {NoOrder}]
    BY <2>1
  <2> QED
    BY <1>a, <2>1, <2>2, <2>3 DEF Story
<1> HIDE DEF e
<1>10. Turns(q, e, q2)
  <2>1. q2.roster = After(q.roster, e)
    BY <1>4, <1>8 DEF After
  <2> QED
    BY <1>2, <1>4, <1>7, <1>8, <2>1 DEF Turns
<1>11. PICK h2 : /\ Hist(Append(log, e), h2) /\ Longer(log, h, Append(log, e), h2)
                 /\ h2[Len(Append(log, e))] = q2
  BY <1>2, <1>4, <1>5, <1>6, <1>9, <1>10, HistGrows
<1>12. Now(q2)'
  <2>1. q2.roster = Roster'
    BY <1>2, <1>7, <1>8
  <2>2. q2.pulses = Cardinality(Voters')
    BY <1>3, <1>7, <1>8
  <2>3. PICK n \in Nat : q.pulses = n
    BY <1>3, <1>7 DEF PlayerIds
  <2>4. {q2.order[p] : p \in Voters'} = {q.order[p] : p \in Voters} \cup {q.pulses}
    <3>1. q.order \in [PlayerIds -> PlayerIds \cup {NoOrder}] /\ Voters \subseteq PlayerIds
      BY <1>6 DEF Story, Voters
    <3>2. q2.order[i - 1] = q.pulses /\ \A p \in Voters : q2.order[p] = q.order[p]
      BY <1>3, <1>8, <3>1
    <3> QED
      BY <1>3, <3>2
  <2>5. {q2.order[p] : p \in Voters'} = 0..(q2.pulses - 1)
    <3>1. (0..(n - 1)) \cup {n} = 0..((n + 1) - 1)
      OBVIOUS
    <3> QED
      BY <1>7, <1>8, <2>3, <2>4, <3>1
  <2>6. q2.pulses # 0
    BY <1>8, <2>3
  <2> QED
    BY <2>1, <2>2, <2>5, <2>6 DEF Now
<1>13. CASE log' = Append(log, e)
  BY <1>11, <1>12, <1>13 DEF History, Now
<1>14. ASSUME NEW sel \in 1..Len(players),
              log' = Append(Append(log, e),
                       InfoEvent([n \in 1..Len(players) |-> players'[n].vote], sel - 1))
       PROVE  \E h3 : History(h3)' /\ Longer(log, h, log', h3)
  <2>1. PICK d : d = InfoEvent([n \in 1..Len(players) |-> players'[n].vote], sel - 1)
    OBVIOUS
  <2>2. d.type = "selectInfo"
    BY <2>1 DEF InfoEvent
  <2>3. PICK l : l = Append(log, e)
    OBVIOUS
  <2>4. /\ l \in Seq(Events) /\ Hist(l, h2) /\ q2 = h2[Len(l)] /\ Longer(log, h, l, h2)
        /\ log' = Append(l, d)
    BY <1>2, <1>4, <1>11, <1>14, <2>1, <2>3, AppendProperties
  <2>5. d \in Events
    <3>1. Len(log') = Len(l) + 1 /\ log'[Len(l) + 1] = d /\ Len(l) \in Nat
      BY <2>4
    <3> QED
      BY <1>2, <3>1, ElementOfSeq
  <2>6. Turns(q2, d, q2)
    BY <2>2 DEF Turns, After
  <2>7. PICK h3 : /\ Hist(Append(l, d), h3) /\ Longer(l, h2, Append(l, d), h3)
                  /\ h3[Len(Append(l, d))] = q2
    BY <1>9, <2>4, <2>5, <2>6, HistGrows
  <2>8. Longer(log, h, Append(l, d), h3)
    BY <1>2, <2>4, <2>7, LongerTwice
  <2>9. Hist(log', h3) /\ Longer(log, h, log', h3) /\ q2 = h3[Len(log')]
    BY <2>4, <2>7, <2>8
  <2> QED
    BY <1>12, <2>9 DEF History, Now
<1> QED
  BY <1>1, <1>13, <1>14 DEF e

\* Whatever the server does, the history of the room goes on.
LEMMA HistoryGoesOn ==
  ASSUME RoomInv, DrawInv, ServerStep, NEW h, History(h)
  PROVE  \E h2 : History(h2)' /\ Longer(log, h, log', h2)
<1>1. RoomInv'
  BY ServerStepInv
<1>2. [Next]_vars
  BY DEF Next
<1>3. CASE UNCHANGED <<log, players>>
  <2>1. Longer(log, h, log', h)
    BY <1>3, Typed DEF Longer, RoomInv
  <2> QED
    BY <1>3, <2>1, HistoryStays
<1>4. CASE LobbyDisconnectPanics
  BY <1>3, <1>4 DEF LobbyDisconnectPanics, Panic
<1> QED
  BY <1>1, <1>2, <1>3, <1>4, CommentGoesOn, StartGoesOn, RemovalGoesOn, ConnectGoesOn, VoteGoesOn,
     Steps, OtherSteps, IdleSteps

-------------------------------------------------------------------------------
(***************************************************************************)
(* The streams.  b[c] is the place in the log of the Join that announced   *)
(* c: its task subscribed right after it, and its greeting says what the   *)
(* room was before.                                                        *)
(***************************************************************************)
\* The greeting is a Join for each player, and the settings.
Size(h, b) == Len(h[b - 1].roster) + 1

\* The i-th event that is sent to who was announced at b.
IsNth(l, h, b, i, e) ==
  /\ i < Size(h, b) => e = JoinEvent(h[b - 1].roster[i])
  /\ i = Size(h, b) => e.type = "settings"
  /\ i > Size(h, b) => e = l[b + i - Size(h, b)]

\* The events s are the greeting and the events of the log, up to the n-th.
Follows(l, h, b, s, n) ==
  /\ b \in 1..Len(l) /\ b <= n /\ n <= Len(l)
  /\ Len(s) = Size(h, b) + n - b
  /\ \A i \in 1..Len(s) : IsNth(l, h, b, i, s[i])

Streams(h, b) ==
  \A c \in Conns :
    /\ task[c] \in Before => key[c] = NoKey
    /\ key[c] = NoKey => toClient[c] = <<>> /\ greeting[c] = <<>>
    /\ key[c] # NoKey => /\ log[b[c]] = JoinEvent(c)
                         /\ Follows(log, h, b[c], toClient[c] \o greeting[c], cursor[c])
    /\ task[c] \in {"loop", "deliver"} => greeting[c] = <<>>

\* The size of a greeting.
LEMMA SizeOfGreeting ==
  ASSUME NEW l, NEW h, Hist(l, h), Len(l) \in Nat, NEW b \in 1..Len(l)
  PROVE  /\ Size(h, b) \in Nat /\ Size(h, b) > 0
         /\ h[b - 1].roster \in Seq(Conns) /\ Len(h[b - 1].roster) = Size(h, b) - 1
<1>1. b - 1 \in 0..Len(l)
  OBVIOUS
<1>2. h[b - 1].roster \in Seq(Conns)
  BY <1>1 DEF Hist, Story, Rosters
<1>3. Len(h[b - 1].roster) \in Nat
  BY <1>2, LenProperties
<1> QED
  BY <1>2, <1>3 DEF Size

\* What was sent stays what it is when the log grows.
LEMMA FollowsLonger ==
  ASSUME NEW l, NEW h, NEW b, NEW s, NEW n \in Nat, Hist(l, h), Len(l) \in Nat, Len(s) \in Nat,
         Follows(l, h, b, s, n), NEW l2, NEW h2, Longer(l, h, l2, h2)
  PROVE  Follows(l2, h2, b, s, n)
<1>1. /\ b \in 1..Len(l) /\ b <= n /\ n <= Len(l)
      /\ Len(s) = Size(h, b) + n - b
      /\ \A i \in 1..Len(s) : IsNth(l, h, b, i, s[i])
  BY DEF Follows
<1>2. Size(h, b) \in Nat
  BY <1>1, SizeOfGreeting
<1>3. Len(l) <= Len(l2) /\ Len(l2) \in Nat
  BY DEF Longer
<1>4. h2[b - 1] = h[b - 1] /\ b \in 1..Len(l2)
  <2>1. b - 1 \in 0..Len(l)
    BY <1>1
  <2> QED
    BY <1>1, <1>3, <2>1 DEF Longer
<1>5. Size(h2, b) = Size(h, b)
  BY <1>4 DEF Size
<1>6. ASSUME NEW i \in 1..Len(s)
      PROVE  IsNth(l2, h2, b, i, s[i])
  <2>1. i > Size(h, b) => b + i - Size(h, b) \in 1..Len(l)
    BY <1>1, <1>2
  <2>2. i > Size(h, b) => l2[b + i - Size(h, b)] = l[b + i - Size(h, b)]
    BY <2>1 DEF Longer
  <2>3. IsNth(l, h, b, i, s[i])
    BY <1>1
  <2> QED
    BY <1>4, <1>5, <2>2, <2>3 DEF IsNth
<1>7. n <= Len(l2)
  BY <1>1, <1>3
<1> QED
  BY <1>1, <1>4, <1>5, <1>6, <1>7 DEF Follows

\* One more event is sent.
LEMMA FollowsOn ==
  ASSUME NEW l \in Seq(Events), NEW h, NEW b, NEW s \in Seq(Events), NEW n \in Nat, Hist(l, h),
         Follows(l, h, b, s, n), n < Len(l)
  PROVE  Follows(l, h, b, Append(s, l[n + 1]), n + 1)
<1>1. /\ b \in 1..Len(l) /\ b <= n /\ Len(l) \in Nat /\ Len(s) \in Nat
      /\ Len(s) = Size(h, b) + n - b
      /\ \A i \in 1..Len(s) : IsNth(l, h, b, i, s[i])
  BY LenProperties DEF Follows
<1>2. Size(h, b) \in Nat
  BY <1>1, SizeOfGreeting
<1>3. l[n + 1] \in Events
  <2>1. n + 1 \in 1..Len(l)
    BY <1>1
  <2> QED
    BY <2>1, ElementOfSeq
<1>4. PICK t : t = Append(s, l[n + 1])
  OBVIOUS
<1>5. /\ Len(t) = Len(s) + 1 /\ t[Len(s) + 1] = l[n + 1]
      /\ \A i \in 1..Len(s) : t[i] = s[i]
  BY <1>3, <1>4, AppendProperties
<1>6. ASSUME NEW i \in 1..Len(t)
      PROVE  IsNth(l, h, b, i, t[i])
  <2>1. CASE i \in 1..Len(s)
    BY <1>1, <1>5, <2>1
  <2>2. CASE i = Len(s) + 1
    <3>1. b + i - Size(h, b) = n + 1 /\ i > Size(h, b)
      BY <1>1, <1>2, <2>2
    <3> QED
      BY <1>2, <1>5, <2>2, <3>1 DEF IsNth
  <2> QED
    BY <1>1, <1>5, <2>1, <2>2
<1>7. b <= n + 1 /\ n + 1 <= Len(l) /\ Len(t) = Size(h, b) + (n + 1) - b
  BY <1>1, <1>2, <1>5
<1> QED
  BY <1>1, <1>4, <1>6, <1>7 DEF Follows

\* The next part of the greeting is written.
LEMMA MovesOver ==
  ASSUME NEW s \in Seq(Events), NEW g \in Seq(Events), g # <<>>
  PROVE  Append(s, Head(g)) \o Tail(g) = s \o g
<1>1. /\ Len(s) \in Nat /\ Len(g) \in Nat /\ Len(g) # 0 /\ Head(g) = g[1]
      /\ Head(g) \in Events /\ Tail(g) \in Seq(Events) /\ Len(Tail(g)) = Len(g) - 1
      /\ \A i \in 1..Len(Tail(g)) : Tail(g)[i] = g[i + 1]
  BY EmptySeq, LenProperties, HeadTailProperties
<1>2. PICK a : a = Append(s, Head(g))
  OBVIOUS
<1>3. PICK t : t = Tail(g)
  OBVIOUS
<1>4. /\ a \in Seq(Events) /\ Len(a) = Len(s) + 1 /\ a[Len(s) + 1] = g[1]
      /\ \A i \in 1..Len(s) : a[i] = s[i]
  BY <1>1, <1>2, AppendProperties
<1>5. /\ t \in Seq(Events) /\ Len(t) = Len(g) - 1 /\ \A i \in 1..Len(t) : t[i] = g[i + 1]
  BY <1>1, <1>3
<1>6. /\ a \o t \in Seq(Events) /\ Len(a \o t) = Len(a) + Len(t)
      /\ \A i \in 1..(Len(a) + Len(t)) : (a \o t)[i] = IF i <= Len(a) THEN a[i] ELSE t[i - Len(a)]
  BY <1>4, <1>5, ConcatProperties
<1>7. /\ s \o g \in Seq(Events) /\ Len(s \o g) = Len(s) + Len(g)
      /\ \A i \in 1..(Len(s) + Len(g)) : (s \o g)[i] = IF i <= Len(s) THEN s[i] ELSE g[i - Len(s)]
  BY ConcatProperties
<1>8. Len(a) + Len(t) = Len(s) + Len(g)
  BY <1>1, <1>4, <1>5
<1>9. ASSUME NEW i \in 1..(Len(s) + Len(g))
      PROVE  (a \o t)[i] = (s \o g)[i]
  <2>1. CASE i <= Len(s)
    <3>1. i \in 1..Len(s) /\ i <= Len(a)
      BY <1>1, <1>4, <2>1
    <3> QED
      BY <1>4, <1>6, <1>7, <1>8, <2>1, <3>1
  <2>2. CASE i = Len(s) + 1
    <3>1. i <= Len(a) /\ ~(i <= Len(s)) /\ i - Len(s) = 1
      BY <1>1, <1>4, <2>2
    <3> QED
      BY <1>4, <1>6, <1>7, <1>8, <2>2, <3>1
  <2>3. CASE i > Len(s) + 1
    <3>1. /\ ~(i <= Len(a)) /\ ~(i <= Len(s)) /\ i - Len(a) \in 1..Len(t)
          /\ (i - Len(a)) + 1 = i - Len(s)
      BY <1>1, <1>4, <1>5, <2>3
    <3> QED
      BY <1>5, <1>6, <1>7, <1>8, <3>1
  <2>4. i <= Len(s) \/ i = Len(s) + 1 \/ i > Len(s) + 1
    BY <1>1
  <2> QED
    BY <2>1, <2>2, <2>3, <2>4
<1>10. a \o t = s \o g
  BY <1>6, <1>7, <1>8, <1>9, SeqEqual
<1> QED
  BY <1>2, <1>3, <1>10

\* What is said of the streams, of one connection.
StreamAt(h, b, c) ==
  /\ task[c] \in Before => key[c] = NoKey
  /\ key[c] = NoKey => toClient[c] = <<>> /\ greeting[c] = <<>>
  /\ key[c] # NoKey => /\ log[b] = JoinEvent(c)
                       /\ Follows(log, h, b, toClient[c] \o greeting[c], cursor[c])
  /\ task[c] \in {"loop", "deliver"} => greeting[c] = <<>>

\* What is typed of a stream.
LEMMA StreamTyped ==
  ASSUME RoomInv, NEW c \in Conns
  PROVE  /\ toClient[c] \in Seq(Events) /\ greeting[c] \in Seq(Events) /\ cursor[c] \in Nat
         /\ Len(toClient[c] \o greeting[c]) = Len(toClient[c]) + Len(greeting[c])
         /\ Len(toClient[c]) \in Nat /\ Len(greeting[c]) \in Nat
         /\ log \in Seq(Events) /\ Len(log) \in Nat
         /\ toClient[c] \o greeting[c] \in Seq(Events)
         /\ Len(toClient[c] \o greeting[c]) \in Nat
<1>1. /\ toClient[c] \in Seq(Events) /\ greeting[c] \in Seq(Events) /\ cursor[c] \in Nat
      /\ log \in Seq(Events)
  BY DEF RoomInv, TypeOK
<1> QED
  BY <1>1, LenProperties, ConcatProperties

\* A stream nothing happens to.
LEMMA StreamStays ==
  ASSUME RoomInv, NEW h, NEW b, NEW c \in Conns, History(h), StreamAt(h, b, c),
         NEW h2, Longer(log, h, log', h2),
         key'[c] = key[c], greeting'[c] = greeting[c], cursor'[c] = cursor[c],
         toClient'[c] = toClient[c],
         task'[c] \in Before => task[c] \in Before,
         task'[c] \in {"loop", "deliver"} => task[c] \in {"loop", "deliver"}
  PROVE  StreamAt(h2, b, c)'
<1>1. CASE key[c] # NoKey
  <2>1. Follows(log, h, b, toClient[c] \o greeting[c], cursor[c]) /\ log[b] = JoinEvent(c)
    BY <1>1 DEF StreamAt
  <2>2. PICK s : s = toClient[c] \o greeting[c]
    OBVIOUS
  <2>3. PICK n \in Nat : n = cursor[c]
    BY StreamTyped
  <2>4. PICK l : l = log'
    OBVIOUS
  <2>5. Follows(l, h2, b, s, n)
    <3>1. Len(s) \in Nat /\ Len(log) \in Nat
      BY <2>2, StreamTyped
    <3> QED
      BY <2>1, <2>2, <2>3, <2>4, <3>1, FollowsLonger DEF History
  <2>6. log'[b] = JoinEvent(c)
    <3>1. b \in 1..Len(log)
      BY <2>1 DEF Follows
    <3> QED
      BY <2>1, <3>1 DEF Longer
  <2> QED
    BY <2>2, <2>3, <2>4, <2>5, <2>6 DEF StreamAt
<1>2. CASE key[c] = NoKey
  BY <1>2 DEF StreamAt
<1> QED
  BY <1>1, <1>2

\* The task writes the greeting.
LEMMA GreetsStream ==
  ASSUME RoomInv, NEW h, NEW b, NEW c \in Conns, History(h), StreamAt(h, b, c), TaskGreets(c)
  PROVE  StreamAt(h, b, c)'
<1>1. /\ task[c] = "greet" /\ UNCHANGED <<key, cursor, log>>
      /\ key[c] # NoKey
  BY Facts DEF TaskGreets, chanVars, RoomInv, ConnOK, Present
<1>2. /\ task \in [Conns -> TaskStates] /\ greeting \in [Conns -> Seq(Events)]
      /\ toClient \in [Conns -> Seq(Events)]
  BY DEF RoomInv, TypeOK
<1>3. CASE greeting[c] = <<>>
  <2>1. task' = [task EXCEPT ![c] = "loop"] /\ UNCHANGED <<greeting, toClient>>
    BY <1>3 DEF TaskGreets
  <2>2. task'[c] = "loop"
    BY <1>2, <2>1
  <2> QED
    BY <1>1, <1>3, <2>1, <2>2 DEF StreamAt, Before
<1>4. CASE greeting[c] # <<>>
  <2>1. /\ toClient' = [toClient EXCEPT ![c] = Append(@, Head(greeting[c]))]
        /\ greeting' = [greeting EXCEPT ![c] = Tail(@)] /\ UNCHANGED task
    BY <1>4 DEF TaskGreets, Write
  <2>2. toClient'[c] = Append(toClient[c], Head(greeting[c])) /\ greeting'[c] = Tail(greeting[c])
    BY <1>2, <2>1
  <2>3. toClient[c] \in Seq(Events) /\ greeting[c] \in Seq(Events)
    BY <1>2
  <2>4. toClient'[c] \o greeting'[c] = toClient[c] \o greeting[c]
    BY <1>4, <2>2, <2>3, MovesOver
  <2> QED
    BY <1>1, <2>1, <2>4 DEF StreamAt, Before
<1> QED
  BY <1>3, <1>4

\* The task writes the next event of the log.
LEMMA WritesStream ==
  ASSUME RoomInv, NEW h, NEW b, NEW c \in Conns, History(h), StreamAt(h, b, c), TaskWrites(c)
  PROVE  StreamAt(h, b, c)'
<1>1. /\ task[c] = "loop" /\ UNCHANGED <<key, log, greeting, task>> /\ cursor[c] < Len(log)
      /\ key[c] # NoKey
  BY Facts DEF TaskWrites, chanVars, RoomInv, ConnOK, Present
<1>2. cursor \in [Conns -> Nat] /\ toClient \in [Conns -> Seq(Events)]
  BY DEF RoomInv, TypeOK
<1>3. toClient'[c] = Append(toClient[c], log[cursor[c] + 1]) /\ cursor'[c] = cursor[c] + 1
  BY <1>2 DEF TaskWrites, Write
<1>4. greeting[c] = <<>> /\ greeting'[c] = <<>>
  BY <1>1 DEF StreamAt
<1>5. PICK s \in Seq(Events) : s = toClient[c]
  BY <1>2
<1>6. PICK n \in Nat : n = cursor[c]
  BY <1>2
<1>7. s \o <<>> = s
  BY ConcatEmptySeq
<1>8. Follows(log, h, b, s, n) /\ log[b] = JoinEvent(c)
  BY <1>1, <1>4, <1>5, <1>6, <1>7 DEF StreamAt
<1>9. Follows(log, h, b, Append(s, log[n + 1]), n + 1)
  <2>1. log \in Seq(Events) /\ n < Len(log)
    BY <1>1, <1>6, StreamTyped
  <2> QED
    BY <1>8, <2>1, FollowsOn DEF History
<1>10. toClient'[c] \o greeting'[c] = Append(s, log[n + 1])
  <2>1. log[n + 1] \in Events
    <3>1. log \in Seq(Events) /\ Len(log) \in Nat
      BY StreamTyped
    <3>2. n + 1 \in 1..Len(log)
      BY <1>1, <1>6, <3>1
    <3> QED
      BY <3>1, <3>2, ElementOfSeq
  <2>2. Append(s, log[n + 1]) \in Seq(Events)
    BY <2>1, AppendProperties
  <2>3. Append(s, log[n + 1]) \o <<>> = Append(s, log[n + 1])
    BY <2>2, ConcatEmptySeq
  <2> QED
    BY <1>3, <1>4, <1>5, <1>6, <2>3
<1> QED
  BY <1>1, <1>3, <1>4, <1>6, <1>8, <1>9, <1>10 DEF StreamAt, Before

\* What joins the players that are there, and the settings.
LEMMA GreetingFollows ==
  ASSUME NEW q \in Seq(Conns), NEW x \in Events, x.type = "settings", NEW l, NEW h, NEW b,
         h[b - 1].roster = q, b \in 1..Len(l), Len(l) \in Nat
  PROVE  Follows(l, h, b, [i \in 1..Len(q) |-> JoinEvent(q[i])] \o <<x>>, b)
<1> DEFINE g == [i \in 1..Len(q) |-> JoinEvent(q[i])]
<1>1. Len(q) \in Nat
  BY LenProperties
<1>2. g \in [1..Len(q) -> Events]
  <2>1. \A i \in 1..Len(q) : JoinEvent(q[i]) \in Events
    BY ElementOfSeq DEF JoinEvent, Events
  <2> QED
    BY <2>1
<1>3. \A i \in 1..Len(q) : g[i] = JoinEvent(q[i])
  OBVIOUS
<1> HIDE DEF g
<1>4. g \in Seq(Events)
  BY <1>1, <1>2, SeqDef
<1>5. Len(g) = Len(q)
  BY <1>1, <1>2, <1>4, LenProperties
<1>6. /\ <<x>> \in Seq(Events) /\ Len(<<x>>) = 1 /\ <<x>>[1] = x
  OBVIOUS
<1>7. PICK s : s = g \o <<x>>
  OBVIOUS
<1>8. /\ Len(s) = Len(q) + 1
      /\ \A i \in 1..(Len(q) + 1) : s[i] = IF i <= Len(q) THEN g[i] ELSE x
  <2>1. PICK u : u = <<x>>
    OBVIOUS
  <2>2. u \in Seq(Events) /\ Len(u) = 1 /\ u[1] = x
    BY <1>6, <2>1
  <2>3. /\ Len(g \o u) = Len(g) + Len(u)
        /\ \A i \in 1..(Len(g) + Len(u)) : (g \o u)[i] = IF i <= Len(g) THEN g[i] ELSE u[i - Len(g)]
    BY <1>4, <2>2, ConcatProperties
  <2>4. Len(s) = Len(q) + 1
    BY <1>5, <1>7, <2>1, <2>2, <2>3
  <2>5. ASSUME NEW i \in 1..(Len(q) + 1)
        PROVE  s[i] = IF i <= Len(q) THEN g[i] ELSE x
    <3>1. s[i] = IF i <= Len(q) THEN g[i] ELSE u[i - Len(q)]
      BY <1>5, <1>7, <2>1, <2>2, <2>3
    <3>2. ~(i <= Len(q)) => i - Len(q) = 1
      BY <1>1
    <3> QED
      BY <2>2, <3>1, <3>2
  <2> QED
    BY <2>4, <2>5
<1>9. Size(h, b) = Len(q) + 1
  BY DEF Size
<1>10. ASSUME NEW i \in 1..Len(s)
       PROVE  IsNth(l, h, b, i, s[i])
  <2>1. i \in 1..(Len(q) + 1) /\ ~(i > Len(q) + 1)
    BY <1>1, <1>8
  <2>2. i < Size(h, b) => s[i] = JoinEvent(q[i])
    <3>1. i < Len(q) + 1 => i <= Len(q) /\ i \in 1..Len(q)
      BY <1>1, <2>1
    <3> QED
      BY <1>3, <1>8, <1>9, <2>1, <3>1
  <2>3. i = Size(h, b) => s[i] = x
    <3>1. i = Len(q) + 1 => ~(i <= Len(q))
      BY <1>1
    <3> QED
      BY <1>8, <1>9, <2>1, <3>1
  <2> QED
    BY <1>9, <2>1, <2>2, <2>3 DEF IsNth
<1>11. Len(s) = Size(h, b) + b - b /\ b <= b /\ b <= Len(l)
  BY <1>1, <1>8, <1>9
<1>12. Follows(l, h, b, s, b)
  BY <1>10, <1>11 DEF Follows
<1> QED
  BY <1>7, <1>12 DEF g

\* A newcomer's stream begins.
LEMMA StreamBegins ==
  ASSUME RoomInv, DrawInv, LobbyConnect, RoomInv', NEW h, NEW b, History(h), Streams(h, b),
         NEW h2, History(h2)', Longer(log, h, log', h2)
  PROVE  \E c \in Conns : \E k \in Keys : \E m \in Nat :
           /\ task[c] = "queued" /\ toClient'[c] = <<>> /\ UNCHANGED toClient
           /\ key' = [key EXCEPT ![c] = k]
           /\ \A d \in Conns \ {c} : /\ task'[d] = task[d] /\ key'[d] = key[d]
                                     /\ greeting'[d] = greeting[d] /\ cursor'[d] = cursor[d]
           /\ StreamAt(h2, m, c)'
<1>1. PICK c \in Conns, k \in Keys :
        /\ task[c] = "queued" /\ phase = "lobby"
        /\ greeting' = [greeting EXCEPT ![c] =
                          [i \in 1..Len(players) |-> JoinEvent(players[i].conn)]
                            \o <<SettingsEvent(IF settings = NoConn THEN c ELSE settings)>>]
        /\ \/ log' = Append(Append(log, JoinEvent(c)), StartEvent(0))
           \/ log' = Append(log, JoinEvent(c))
        /\ cursor' = [cursor EXCEPT ![c] = Len(Append(log, JoinEvent(c)))]
        /\ key' = [key EXCEPT ![c] = k]
        /\ task' = [task EXCEPT ![c] = "greet"]
        /\ UNCHANGED toClient
  BY LobbyConnectFacts
<1>2. /\ task \in [Conns -> TaskStates] /\ greeting \in [Conns -> Seq(Events)]
      /\ cursor \in [Conns -> Nat] /\ key \in [Conns -> Keys \cup {NoKey}]
      /\ log \in Seq(Events) /\ log' \in Seq(Events) /\ settings \in Conns \cup {NoConn}
      /\ Len(log) \in Nat /\ Len(log') \in Nat
  <2>1. /\ task \in [Conns -> TaskStates] /\ greeting \in [Conns -> Seq(Events)]
        /\ cursor \in [Conns -> Nat] /\ key \in [Conns -> Keys \cup {NoKey}]
        /\ log \in Seq(Events) /\ settings \in Conns \cup {NoConn}
    BY DEF RoomInv, TypeOK
  <2>2. log' \in Seq(Events)
    BY DEF RoomInv, TypeOK
  <2> QED
    BY <2>1, <2>2, LenProperties
<1> DEFINE x == SettingsEvent(IF settings = NoConn THEN c ELSE settings)
           e == JoinEvent(c)
<1>3. x.type = "settings" /\ x \in Events /\ e \in Events
  BY <1>2 DEF SettingsEvent, JoinEvent, Events
<1> HIDE DEF x, e
<1>4. /\ greeting'[c] = [i \in 1..Len(players) |-> JoinEvent(players[i].conn)] \o <<x>>
      /\ cursor'[c] = Len(Append(log, e)) /\ key'[c] = k /\ task'[c] = "greet"
  BY <1>1, <1>2 DEF x, e
<1>5. /\ Len(log) + 1 \in 1..Len(log') /\ log'[Len(log) + 1] = e /\ cursor'[c] = Len(log) + 1
  <2>1. PICK l : l = Append(log, e)
    OBVIOUS
  <2>2. l \in Seq(Events) /\ Len(l) = Len(log) + 1 /\ l[Len(log) + 1] = e
    BY <1>2, <1>3, <2>1, AppendProperties
  <2>3. CASE log' = l
    BY <1>2, <1>4, <2>1, <2>2, <2>3
  <2>4. ASSUME NEW s \in Events, log' = Append(l, s)
        PROVE  Len(log) + 1 \in 1..Len(log') /\ log'[Len(log) + 1] = e
    <3>1. Len(log') = Len(l) + 1 /\ \A i \in 1..Len(l) : log'[i] = l[i]
      BY <2>2, <2>4, AppendProperties
    <3>2. Len(log) + 1 \in 1..Len(l) /\ Len(log) + 1 \in 1..Len(log')
      BY <1>2, <2>2, <3>1
    <3> QED
      BY <2>2, <3>1, <3>2
  <2>5. StartEvent(0) \in Events
    BY DEF StartEvent, Events
  <2> QED
    BY <1>1, <1>4, <2>1, <2>2, <2>3, <2>4, <2>5 DEF e
<1>6. key[c] = NoKey /\ toClient[c] = <<>>
  BY <1>1 DEF Streams, Before
<1>7. PICK g : g = [i \in 1..Len(players) |-> JoinEvent(players[i].conn)] \o <<x>>
  OBVIOUS
<1>8. PICK m \in Nat : m = Len(log) + 1
  BY <1>2
<1>9. PICK q : q = Roster
  OBVIOUS
<1>10. q \in Seq(Conns) /\ Len(q) = Len(players) /\ \A i \in 1..Len(players) : q[i] = players[i].conn
  BY <1>9, RosterTyped DEF RoomInv
<1>11. g = [i \in 1..Len(q) |-> JoinEvent(q[i])] \o <<x>>
  BY <1>7, <1>10
<1>12. PICK l : l = log'
  OBVIOUS
<1>13. Follows(l, h2, m, g, m)
  <2>1. h2[Len(log)] = h[Len(log)]
    BY <1>2 DEF Longer
  <2>2. m - 1 = Len(log)
    BY <1>2, <1>8
  <2>3. h2[m - 1].roster = q
    BY <1>9, <2>1, <2>2 DEF History, Now
  <2> QED
    BY <1>2, <1>3, <1>5, <1>8, <1>10, <1>11, <1>12, <2>3, GreetingFollows
<1>14. g \in Seq(Events) /\ <<>> \o g = g
  <2>1. g \in Seq(Events)
    BY <1>7, GreetingTyped DEF x
  <2> QED
    BY <2>1, ConcatEmptySeq
<1>15. toClient'[c] = <<>> /\ greeting'[c] = g /\ cursor'[c] = m
  BY <1>1, <1>4, <1>5, <1>6, <1>7, <1>8
<1>16. StreamAt(h2, m, c)'
  <2>1. Follows(log', h2, m, toClient'[c] \o greeting'[c], cursor'[c])
    BY <1>12, <1>13, <1>14, <1>15
  <2>2. log'[m] = JoinEvent(c)
    BY <1>5, <1>8 DEF e
  <2>3. task'[c] = "greet" /\ key'[c] # NoKey
    BY <1>4, Facts
  <2> QED
    BY <2>1, <2>2, <2>3 DEF StreamAt, Before
<1>17. \A d \in Conns \ {c} : /\ task'[d] = task[d] /\ key'[d] = key[d]
                              /\ greeting'[d] = greeting[d] /\ cursor'[d] = cursor[d]
  BY <1>1, <1>2
<1> QED
  BY <1>1, <1>8, <1>15, <1>16, <1>17

\* What connections the server leaves alone, as far as their streams go.
SameStream(c) ==
  /\ key'[c] = key[c] /\ greeting'[c] = greeting[c] /\ cursor'[c] = cursor[c]
  /\ toClient'[c] = toClient[c]
  /\ task'[c] \in Before => task[c] \in Before
  /\ task'[c] \in {"loop", "deliver"} => task[c] \in {"loop", "deliver"}

\* Only newcomers and the writing tasks change a stream.
LEMMA OtherStreams ==
  ASSUME RoomInv, ServerStep, ~LobbyConnect, NEW c \in Conns, ~TaskGreets(c), ~TaskWrites(c)
  PROVE  SameStream(c)
<1>1. task \in [Conns -> TaskStates] /\ greeting \in [Conns -> Seq(Events)]
      /\ cursor \in [Conns -> Nat] /\ toClient \in [Conns -> Seq(Events)]
  BY DEF RoomInv, TypeOK
<1>2. CASE LobbyConnectFails
  BY <1>1, <1>2 DEF LobbyConnectFails, SameStream, Before, wireVars
<1>3. CASE LobbyDisconnectPanics
  BY <1>1, <1>3 DEF LobbyDisconnectPanics, Panic, SameStream, Before, wireVars
<1>4. CASE \/ LobbyDisconnect \/ SkipRequest \/ LobbyRequestFails \/ LobbyComment \/ LobbyStart
           \/ SelectIgnores \/ SelectVote \/ HandleUpdate
  <2>1. UNCHANGED <<task, key, greeting, cursor, toClient>>
    BY <1>4 DEF LobbyDisconnect, SkipRequest, LobbyRequestFails, LobbyComment, LobbyStart,
      SelectIgnores, SelectVote, HandleUpdate, RemoveClient, taskVars, wireVars
  <2> QED
    BY <2>1 DEF SameStream
<1>5. ASSUME NEW d \in Conns, Admit(d) \/ AdmitFails(d) \/ TaskReads(d) \/ TaskDelivers(d)
      PROVE  SameStream(c)
  BY <1>1, <1>5 DEF Admit, AdmitFails, TaskReads, TaskDelivers, SameStream, Before, wireVars
<1>6. ASSUME NEW d \in Conns, TaskLeaves(d) \/ TaskEnds(d) \/ TaskAborts(d)
      PROVE  SameStream(c)
  BY <1>1, <1>6 DEF TaskLeaves, TaskEnds, TaskAborts, SameStream, Before, wireVars
<1>7. ASSUME NEW d \in Conns, d # c, TaskGreets(d)
      PROVE  SameStream(c)
  <2>1. task'[c] = task[c] /\ UNCHANGED <<key, cursor>>
    BY <1>1, <1>7 DEF TaskGreets
  <2>2. greeting'[c] = greeting[c] /\ toClient'[c] = toClient[c]
    BY <1>1, <1>7 DEF TaskGreets, Write
  <2> QED
    BY <2>1, <2>2 DEF SameStream
<1>8. ASSUME NEW d \in Conns, d # c, TaskWrites(d)
      PROVE  SameStream(c)
  BY <1>1, <1>8 DEF TaskWrites, Write, SameStream
<1> QED
  BY <1>2, <1>3, <1>4, <1>5, <1>6, <1>7, <1>8 DEF ServerStep, RoomStep, TaskStep

\* Streams, one connection at a time.
LEMMA StreamByStream ==
  ASSUME NEW h, NEW b
  PROVE  Streams(h, b) <=> \A c \in Conns : StreamAt(h, b[c], c)
BY DEF Streams, StreamAt

\* The same a step later.
LEMMA StreamByStreamNext ==
  ASSUME NEW h, NEW b
  PROVE  Streams(h, b)' <=> \A c \in Conns : StreamAt(h, b[c], c)'
BY DEF Streams, StreamAt

\* Those that have a stream keep their place; whoever gets one has received nothing.
Keep(b, b2) ==
  \A c \in Conns : /\ key[c] # NoKey => b2[c] = b[c] /\ key'[c] = key[c]
                   /\ key[c] = NoKey /\ key'[c] # NoKey => toClient'[c] = <<>>

\* Whatever the server does, every stream is the greeting and the log so far.
LEMMA StreamsGoOn ==
  ASSUME RoomInv, DrawInv, ServerStep, RoomInv', NEW h, NEW b, History(h), Streams(h, b),
         NEW h2, History(h2)', Longer(log, h, log', h2)
  PROVE  \E b2 : Streams(h2, b2)' /\ Keep(b, b2)
<1>1. CASE ~LobbyConnect
  <2>1. ASSUME NEW c \in Conns
        PROVE  StreamAt(h2, b[c], c)' /\ key'[c] = key[c]
    <3>1. StreamAt(h, b[c], c)
      BY StreamByStream
    <3>2. CASE TaskGreets(c) \/ TaskWrites(c)
      <4>1. StreamAt(h, b[c], c)' /\ UNCHANGED <<log, players, key>>
        BY <3>1, <3>2, GreetsStream, WritesStream DEF TaskGreets, TaskWrites, chanVars, roomVars
      <4>2. RoomInv' /\ Longer(log, h, log', h2) /\ History(h)
        OBVIOUS
      <4>3. \A n \in 0..Len(log) : h2[n] = h[n]
        BY DEF Longer
      <4>4. Len(log) \in Nat
        BY Typed DEF RoomInv
      <4>5. ASSUME key'[c] # NoKey
            PROVE  Follows(log', h2, b[c], toClient'[c] \o greeting'[c], cursor'[c])
        <5>1. Follows(log', h, b[c], toClient'[c] \o greeting'[c], cursor'[c])
          BY <4>1, <4>5 DEF StreamAt
        <5>2. Len(toClient'[c] \o greeting'[c]) \in Nat /\ cursor'[c] \in Nat
          <6>1. toClient'[c] \in Seq(Events) /\ greeting'[c] \in Seq(Events) /\ cursor'[c] \in Nat
            BY DEF RoomInv, TypeOK
          <6>2. toClient'[c] \o greeting'[c] \in Seq(Events)
            BY <6>1, ConcatProperties
          <6> QED
            BY <6>1, <6>2, LenProperties
        <5>3. PICK l : l = log'
          OBVIOUS
        <5>4. PICK s : s = toClient'[c] \o greeting'[c]
          OBVIOUS
        <5>5. PICK n \in Nat : n = cursor'[c]
          BY <5>2
        <5>6. Hist(l, h) /\ Longer(l, h, l, h2) /\ Len(l) \in Nat /\ Follows(l, h, b[c], s, n)
              /\ Len(s) \in Nat
          BY <4>1, <4>4, <5>1, <5>2, <5>3, <5>4, <5>5 DEF History, Longer
        <5>7. Follows(l, h2, b[c], s, n)
          BY <5>6, FollowsLonger
        <5> QED
          BY <5>3, <5>4, <5>5, <5>7
      <4> QED
        BY <4>1, <4>5 DEF StreamAt
    <3>3. CASE ~TaskGreets(c) /\ ~TaskWrites(c)
      <4>1. SameStream(c)
        BY <1>1, <3>3, OtherStreams
      <4> QED
        BY <3>1, <4>1, StreamStays DEF SameStream
    <3> QED
      BY <3>2, <3>3
  <2>2. Streams(h2, b)'
    BY <2>1, StreamByStreamNext
  <2> QED
    BY <2>1, <2>2 DEF Keep
<1>2. CASE LobbyConnect
  <2>1. PICK c \in Conns, k \in Keys, m \in Nat :
           /\ task[c] = "queued" /\ toClient'[c] = <<>> /\ UNCHANGED toClient
           /\ key' = [key EXCEPT ![c] = k]
           /\ \A d \in Conns \ {c} : /\ task'[d] = task[d] /\ key'[d] = key[d]
                                     /\ greeting'[d] = greeting[d] /\ cursor'[d] = cursor[d]
           /\ StreamAt(h2, m, c)'
    BY <1>2, StreamBegins
  <2> DEFINE b2 == [d \in Conns |-> IF d = c THEN m ELSE b[d]]
  <2>2. b2[c] = m /\ \A d \in Conns \ {c} : b2[d] = b[d]
    OBVIOUS
  <2> HIDE DEF b2
  <2>3. ASSUME NEW d \in Conns \ {c}
        PROVE  StreamAt(h2, b2[d], d)'
    <3>1. StreamAt(h, b[d], d)
      BY StreamByStream
    <3>2. PICK p : p = b[d]
      OBVIOUS
    <3>3. StreamAt(h2, p, d)'
      BY <2>1, <3>1, <3>2, StreamStays
    <3> QED
      BY <2>2, <3>2, <3>3
  <2>4. \A d \in Conns : StreamAt(h2, b2[d], d)'
    BY <2>1, <2>2, <2>3
  <2>5. Streams(h2, b2)'
    BY <2>4, StreamByStreamNext
  <2>6. key[c] = NoKey
    BY <2>1 DEF Streams, Before
  <2>7. Keep(b, b2)
    BY <2>1, <2>2, <2>6 DEF Keep
  <2> QED
    BY <2>5, <2>7
<1> QED
  BY <1>1, <1>2

-------------------------------------------------------------------------------
(***************************************************************************)
(* The consoles.  One that has read t events of a stream that begins at b  *)
(* knows the players its greeting names so far, and after the greeting     *)
(* what the room was after the event of the log it has come to.            *)
(***************************************************************************)
Place(h, b, t) == b + t - Size(h, b)

Known(h, b, t) ==
  IF t < Size(h, b) THEN SubSeq(h[b - 1].roster, 1, t) ELSE h[Place(h, b, t)].roster

\* The first elements of a sequence, and one more.
LEMMA OneMore ==
  ASSUME NEW q \in Seq(Conns), NEW t \in Nat, t < Len(q)
  PROVE  SubSeq(q, 1, t + 1) = Append(SubSeq(q, 1, t), q[t + 1])
<1>1. Len(q) \in Nat /\ \A i \in 1..Len(q) : q[i] \in Conns
  BY LenProperties, ElementOfSeq
<1>2. t + 1 \in 1..Len(q) /\ \A i \in 1..(t + 1) : i \in 1..Len(q)
  BY <1>1
<1>3. PICK s : s = SubSeq(q, 1, t)
  OBVIOUS
<1>4. s \in Seq(Conns) /\ Len(s) = t /\ \A i \in 1..t : s[i] = q[i]
  <2>1. \A i \in 1..t : q[i] \in Conns
    BY <1>1, <1>2
  <2>2. /\ s \in Seq(Conns) /\ Len(s) = (IF 1 <= t THEN t - 1 + 1 ELSE 0)
        /\ \A i \in 1..(t - 1 + 1) : s[i] = q[1 + i - 1]
    BY <1>3, <2>1, SubSeqProperties
  <2> QED
    BY <2>2
<1>5. PICK u : u = SubSeq(q, 1, t + 1)
  OBVIOUS
<1>6. u \in Seq(Conns) /\ Len(u) = t + 1 /\ \A i \in 1..(t + 1) : u[i] = q[i]
  <2>1. \A i \in 1..(t + 1) : q[i] \in Conns
    BY <1>1, <1>2
  <2>2. /\ u \in Seq(Conns) /\ Len(u) = (IF 1 <= t + 1 THEN t + 1 - 1 + 1 ELSE 0)
        /\ \A i \in 1..(t + 1 - 1 + 1) : u[i] = q[1 + i - 1]
    BY <1>5, <2>1, SubSeqProperties
  <2> QED
    BY <2>2
<1>7. PICK v : v = Append(s, q[t + 1])
  OBVIOUS
<1>8. /\ v \in Seq(Conns) /\ Len(v) = t + 1 /\ v[t + 1] = q[t + 1]
      /\ \A i \in 1..t : v[i] = s[i]
  BY <1>1, <1>2, <1>4, <1>7, AppendProperties
<1>9. \A i \in 1..(t + 1) : i \in 1..t \/ i = t + 1
  OBVIOUS
<1>10. \A i \in 1..Len(u) : u[i] = v[i]
  BY <1>4, <1>6, <1>8, <1>9
<1>11. u = v
  BY <1>6, <1>8, <1>10, SeqEqual
<1> QED
  BY <1>3, <1>5, <1>7, <1>11

\* All of a sequence.
LEMMA AllOfIt ==
  ASSUME NEW q \in Seq(Conns)
  PROVE  SubSeq(q, 1, Len(q)) = q /\ SubSeq(q, 1, 0) = <<>>
<1>1. Len(q) \in Nat /\ \A i \in 1..Len(q) : q[i] \in Conns
  BY LenProperties, ElementOfSeq
<1>2. PICK s : s = SubSeq(q, 1, Len(q))
  OBVIOUS
<1>3. s \in Seq(Conns) /\ Len(s) = Len(q) /\ \A i \in 1..Len(q) : s[i] = q[i]
  <2>1. /\ s \in Seq(Conns) /\ Len(s) = (IF 1 <= Len(q) THEN Len(q) - 1 + 1 ELSE 0)
        /\ \A i \in 1..(Len(q) - 1 + 1) : s[i] = q[1 + i - 1]
    BY <1>1, <1>2, SubSeqProperties
  <2> QED
    BY <1>1, <2>1
<1>4. s = q
  BY <1>3, SeqEqual
<1>5. PICK u : u = SubSeq(q, 1, 0)
  OBVIOUS
<1>6. u = <<>>
  <2>1. \A i \in 1..0 : q[i] \in Conns
    OBVIOUS
  <2>2. u \in Seq(Conns) /\ Len(u) = (IF 1 <= 0 THEN 0 - 1 + 1 ELSE 0)
    BY <1>5, <2>1, SubSeqProperties
  <2> QED
    BY <2>2, EmptySeq
<1> QED
  BY <1>2, <1>4, <1>5, <1>6

\* Whatever event comes next, what a console then knows is what it makes of it.
LEMMA KnownOn ==
  ASSUME NEW l \in Seq(Events), NEW h, Hist(l, h), NEW b \in 1..Len(l), NEW c \in Conns,
         l[b] = JoinEvent(c), NEW t \in Nat, Place(h, b, t) < Len(l),
         NEW e, IsNth(l, h, b, t + 1, e)
  PROVE  Known(h, b, t + 1) = Replay(c, Known(h, b, t), e)
<1>1. /\ Size(h, b) \in Nat /\ Size(h, b) > 0 /\ h[b - 1].roster \in Seq(Conns)
      /\ Len(h[b - 1].roster) = Size(h, b) - 1 /\ Len(l) \in Nat
  BY SizeOfGreeting, LenProperties
<1>2. PICK S \in Nat : S = Size(h, b)
  BY <1>1
<1>3. PICK q \in Seq(Conns) : q = h[b - 1].roster
  BY <1>1
<1>4. Len(q) = S - 1 /\ S > 0 /\ b + t - S < Len(l)
  BY <1>1, <1>2, <1>3 DEF Place
<1>5. CASE t + 1 < S
  <2>1. e = JoinEvent(q[t + 1])
    BY <1>2, <1>3, <1>5 DEF IsNth
  <2>2. Known(h, b, t + 1) = SubSeq(q, 1, t + 1) /\ Known(h, b, t) = SubSeq(q, 1, t)
    BY <1>2, <1>3, <1>5 DEF Known
  <2>3. SubSeq(q, 1, t + 1) = Append(SubSeq(q, 1, t), q[t + 1])
    BY <1>4, <1>5, OneMore
  <2> QED
    BY <2>1, <2>2, <2>3 DEF JoinEvent, Replay
<1>6. CASE t + 1 = S
  <2>1. e.type = "settings"
    BY <1>2, <1>6 DEF IsNth
  <2>2. Known(h, b, t) = q
    <3>1. t < S /\ t = Len(q)
      BY <1>4, <1>6
    <3> QED
      BY <1>2, <1>3, <3>1, AllOfIt DEF Known
  <2>3. Known(h, b, t + 1) = h[b].roster
    <3>1. ~(t + 1 < S) /\ b + (t + 1) - S = b
      BY <1>6
    <3> QED
      BY <1>2, <3>1 DEF Known, Place
  <2>4. h[b].roster = Append(q, c)
    <3>1. Turns(h[b - 1], l[b], h[b])
      BY DEF Hist
    <3> QED
      BY <1>3, <3>1 DEF Turns, After, JoinEvent
  <2> QED
    BY <2>1, <2>2, <2>3, <2>4 DEF Replay
<1>7. CASE t >= S
  <2>1. PICK n \in Nat : n = b + t - S
    BY <1>7
  <2>2. /\ n + 1 \in 1..Len(l) /\ (n + 1) - 1 = n /\ b + (t + 1) - S = n + 1
        /\ ~(t < S) /\ ~(t + 1 < S) /\ t + 1 > S
    BY <1>1, <1>4, <1>7, <2>1
  <2>3. e = l[n + 1]
    BY <1>2, <2>2 DEF IsNth
  <2>4. Turns(h[n], e, h[n + 1])
    BY <2>2, <2>3 DEF Hist
  <2>5. Known(h, b, t) = h[n].roster /\ Known(h, b, t + 1) = h[n + 1].roster
    BY <1>2, <2>1, <2>2 DEF Known, Place
  <2>6. After(h[n].roster, e) = Replay(c, h[n].roster, e)
    BY <2>4 DEF After, Replay, Turns
  <2> QED
    BY <2>4, <2>5, <2>6 DEF Turns
<1> QED
  BY <1>4, <1>5, <1>6, <1>7

\* Where a console is in its stream.
LEMMA WhereItIs ==
  ASSUME RoomInv, ConsoleInv, NEW h, NEW b, NEW c \in Conns, History(h), StreamAt(h, b, c),
         key[c] # NoKey
  PROVE  /\ log \in Seq(Events) /\ Len(log) \in Nat /\ Hist(log, h)
         /\ b \in 1..Len(log) /\ log[b] = JoinEvent(c)
         /\ Size(h, b) \in Nat /\ Size(h, b) > 0 /\ h[b - 1].roster \in Rosters
         /\ Len(h[b - 1].roster) = Size(h, b) - 1
         /\ taken[c] \in Nat /\ cursor[c] \in Nat /\ cursor[c] <= Len(log)
         /\ Place(h, b, taken[c]) <= cursor[c]
         /\ taken[c] < Len(toClient[c]) => Place(h, b, taken[c]) < cursor[c]
         /\ taken[c] >= Size(h, b) => Place(h, b, taken[c]) \in b..Len(log)
         /\ \A i \in 1..Len(toClient[c]) : IsNth(log, h, b, i, toClient[c][i])
<1>1. /\ toClient[c] \in Seq(Events) /\ greeting[c] \in Seq(Events) /\ cursor[c] \in Nat
      /\ Len(toClient[c] \o greeting[c]) = Len(toClient[c]) + Len(greeting[c])
      /\ Len(toClient[c]) \in Nat /\ Len(greeting[c]) \in Nat
      /\ log \in Seq(Events) /\ Len(log) \in Nat
  BY StreamTyped
<1>2. Hist(log, h) /\ log[b] = JoinEvent(c)
  BY DEF History, StreamAt
<1>3. PICK s : s = toClient[c] \o greeting[c]
  OBVIOUS
<1>4. /\ b \in 1..Len(log) /\ b <= cursor[c] /\ cursor[c] <= Len(log)
      /\ Len(s) = Size(h, b) + cursor[c] - b
      /\ \A i \in 1..Len(s) : IsNth(log, h, b, i, s[i])
  BY <1>3 DEF StreamAt, Follows
<1>5. Size(h, b) \in Nat /\ Size(h, b) > 0 /\ Len(h[b - 1].roster) = Size(h, b) - 1
  BY <1>1, <1>2, <1>4, SizeOfGreeting
<1>6. h[b - 1].roster \in Rosters
  <2>1. b - 1 \in 0..Len(log)
    BY <1>1, <1>4
  <2> QED
    BY <1>2, <2>1 DEF Hist, Story
<1>7. taken[c] \in Nat /\ taken[c] <= Len(toClient[c])
  BY DEF ConsoleInv, TakenOK
<1>8. ASSUME NEW i \in 1..Len(toClient[c])
      PROVE  IsNth(log, h, b, i, toClient[c][i])
  <2>1. PICK m \in Nat : m = Len(toClient[c])
    BY <1>1
  <2>2. PICK k \in Nat : k = Len(greeting[c])
    BY <1>1
  <2>3. i \in 1..m /\ i \in 1..(m + k) /\ i <= m
    <3>1. i \in 1..m
      BY <2>1
    <3> QED
      BY <3>1
  <2>4. i \in 1..Len(s)
    BY <1>1, <1>3, <2>1, <2>2, <2>3
  <2>5. s[i] = toClient[c][i]
    BY <1>1, <1>3, <2>1, <2>2, <2>3, ConcatProperties
  <2> QED
    BY <1>4, <2>4, <2>5
<1>9. Len(toClient[c]) + Len(greeting[c]) = Size(h, b) + cursor[c] - b
  BY <1>1, <1>3, <1>4
<1>10. /\ Place(h, b, taken[c]) <= cursor[c]
       /\ taken[c] < Len(toClient[c]) => Place(h, b, taken[c]) < cursor[c]
       /\ taken[c] >= Size(h, b) => Place(h, b, taken[c]) \in b..Len(log)
  <2>1. PICK m \in Nat : m = Len(toClient[c])
    BY <1>1
  <2>2. PICK k \in Nat : k = Len(greeting[c])
    BY <1>1
  <2>3. PICK t \in Nat : t = taken[c]
    BY <1>7
  <2>4. PICK n \in Nat : n = cursor[c]
    BY <1>1
  <2>5. PICK S \in Nat : S = Size(h, b)
    BY <1>5
  <2>6. m + k = S + n - b /\ t <= m /\ n <= Len(log) /\ b \in 1..Len(log)
    BY <1>4, <1>7, <1>9, <2>1, <2>2, <2>3, <2>4, <2>5
  <2>7. b + t - S <= n /\ (t < m => b + t - S < n) /\ (t >= S => b + t - S \in b..Len(log))
    <3>1. PICK L \in Nat : L = Len(log)
      BY <1>1
    <3>2. m + k = S + n - b /\ t <= m /\ n <= L /\ b \in 1..L
      BY <2>6, <3>1
    <3>3. b + t - S <= n /\ (t < m => b + t - S < n) /\ (t >= S => b + t - S \in b..L)
      BY <3>2
    <3> QED
      BY <3>1, <3>3
  <2> QED
    BY <2>1, <2>3, <2>4, <2>5, <2>7 DEF Place
<1> QED
  BY <1>1, <1>2, <1>4, <1>5, <1>6, <1>7, <1>8, <1>10

Settled == {"main", "teamSelect", "select"}

\* Nothing is known of votes yet.
Blank(c) == order[c] = NoOrders /\ pulses[c] = 0 /\ info[c] = NoInfo

\* The n-th event was the outcome, and the console knows it.
Told(h, n, c) ==
  /\ n \in 1..Len(log) /\ log[n].type = "selectInfo"
  /\ info[c] = [votes |-> log[n].votes, selected |-> log[n].selected]
  /\ order[c] = h[n].order

\* What a console has made of the events it has read.
ReaderAt(h, b, c) ==
  /\ key[c] = NoKey => roster[c] = <<>> /\ Blank(c) /\ cstate[c] \notin Settled
  /\ key[c] # NoKey =>
       /\ roster[c] = Known(h, b, taken[c])
       /\ taken[c] < Size(h, b) => cstate[c] \notin Settled /\ Blank(c)
       /\ taken[c] >= Size(h, b) => cstate[c] # "setup"
  /\ cstate[c] \in {"connect", "setup", "main"} => Blank(c)
  /\ cstate[c] = "select" =>
       /\ order[c] = h[Place(h, b, taken[c])].order
       /\ pulses[c] = h[Place(h, b, taken[c])].pulses
  /\ info[c] # NoInfo => key[c] # NoKey /\ taken[c] >= Size(h, b) /\ Told(h, Place(h, b, taken[c]), c)

\* The event a console reads next.
LEMMA NextEvent ==
  ASSUME RoomInv, ConsoleInv, DrawInv, NEW h, NEW b, NEW c \in Conns, History(h),
         StreamAt(h, b, c), ReaderAt(h, b, c), HasEvent(c)
  PROVE  /\ key[c] # NoKey /\ info[c] = NoInfo /\ Event(c) \in Events
         /\ IsNth(log, h, b, taken[c] + 1, Event(c))
         /\ Place(h, b, taken[c]) < cursor[c] /\ cursor[c] <= Len(log)
         /\ Known(h, b, taken[c] + 1) = Replay(c, roster[c], Event(c))
         /\ taken[c] >= Size(h, b) =>
              /\ Place(h, b, taken[c]) + 1 \in 1..Len(log)
              /\ Place(h, b, taken[c] + 1) = Place(h, b, taken[c]) + 1
              /\ Event(c) = log[Place(h, b, taken[c]) + 1]
              /\ roster[c] = h[Place(h, b, taken[c])].roster
              /\ Turns(h[Place(h, b, taken[c])], Event(c), h[Place(h, b, taken[c]) + 1])
<1>1. /\ toClient[c] \in Seq(Events) /\ Len(toClient[c]) \in Nat
      /\ taken[c] \in Nat /\ taken[c] < Len(toClient[c])
  BY StreamTyped DEF HasEvent, ConsoleInv, TakenOK
<1>2. key[c] # NoKey
  <2>1. toClient[c] # <<>>
    BY <1>1, EmptySeq
  <2> QED
    BY <2>1 DEF StreamAt
<1>3. taken[c] + 1 \in 1..Len(toClient[c])
  BY <1>1
<1>4. /\ log \in Seq(Events) /\ Len(log) \in Nat /\ Hist(log, h)
      /\ b \in 1..Len(log) /\ log[b] = JoinEvent(c)
      /\ Size(h, b) \in Nat /\ Size(h, b) > 0
      /\ taken[c] \in Nat /\ cursor[c] \in Nat /\ cursor[c] <= Len(log)
      /\ Place(h, b, taken[c]) < cursor[c]
      /\ \A i \in 1..Len(toClient[c]) : IsNth(log, h, b, i, toClient[c][i])
      /\ taken[c] >= Size(h, b) => Place(h, b, taken[c]) \in b..Len(log)
  BY <1>1, <1>2, WhereItIs
<1>5. IsNth(log, h, b, taken[c] + 1, Event(c)) /\ Event(c) \in Events
  BY <1>1, <1>3, <1>4, ElementOfSeq DEF Event
<1>6. Place(h, b, taken[c]) < Len(log)
  BY <1>4 DEF Place
<1>7. roster[c] = Known(h, b, taken[c])
  BY <1>2 DEF ReaderAt
<1>8. Known(h, b, taken[c] + 1) = Replay(c, roster[c], Event(c))
  BY <1>4, <1>5, <1>6, <1>7, KnownOn
<1>9. info[c] = NoInfo
  <2>1. SUFFICES ASSUME info[c] # NoInfo
                 PROVE  FALSE
    OBVIOUS
  <2>2. /\ Place(h, b, taken[c]) \in 1..Len(log)
        /\ log[Place(h, b, taken[c])].type = "selectInfo"
    BY <2>1 DEF ReaderAt, Told
  <2>3. Place(h, b, taken[c]) = Len(log)
    BY <2>2 DEF DrawInv, OutcomeStands
  <2> QED
    BY <1>4, <1>6, <2>3
<1>10. ASSUME taken[c] >= Size(h, b)
       PROVE  /\ Place(h, b, taken[c]) + 1 \in 1..Len(log)
              /\ Place(h, b, taken[c] + 1) = Place(h, b, taken[c]) + 1
              /\ Event(c) = log[Place(h, b, taken[c]) + 1]
              /\ roster[c] = h[Place(h, b, taken[c])].roster
              /\ Turns(h[Place(h, b, taken[c])], Event(c), h[Place(h, b, taken[c]) + 1])
  <2>1. PICK n : n = Place(h, b, taken[c])
    OBVIOUS
  <2>2. n \in Nat /\ n + 1 \in 1..Len(log) /\ (n + 1) - 1 = n
    BY <1>4, <1>6, <1>10, <2>1
  <2>3. Place(h, b, taken[c] + 1) = n + 1 /\ b + (taken[c] + 1) - Size(h, b) = n + 1
        /\ taken[c] + 1 > Size(h, b) /\ ~(taken[c] < Size(h, b))
    BY <1>4, <1>10, <2>1 DEF Place
  <2>4. Event(c) = log[n + 1]
    BY <1>5, <2>3 DEF IsNth
  <2>5. Turns(h[n], Event(c), h[n + 1])
    BY <1>4, <2>2, <2>4 DEF Hist
  <2>6. roster[c] = h[n].roster
    BY <1>7, <2>1, <2>3 DEF Known
  <2> QED
    BY <2>1, <2>2, <2>3, <2>4, <2>5, <2>6
<1> QED
  BY <1>2, <1>4, <1>5, <1>8, <1>9, <1>10

\* What a console has read stays what it is when the log grows.
LEMMA ReaderStays ==
  ASSUME RoomInv, ConsoleInv, NEW h, NEW b, NEW c \in Conns, History(h), StreamAt(h, b, c),
         ReaderAt(h, b, c), UNCHANGED clientVars, NEW h2, Longer(log, h, log', h2),
         key'[c] = key[c]
  PROVE  ReaderAt(h2, b, c)'
<1>1. UNCHANGED <<cstate, taken, roster, order, pulses, info>>
  BY DEF clientVars
<1>2. PICK t : t = taken[c]
  OBVIOUS
<1>3. CASE key[c] = NoKey
  <2>1. roster'[c] = <<>> /\ Blank(c)' /\ cstate'[c] \notin Settled /\ key'[c] = NoKey
    BY <1>1, <1>3 DEF ReaderAt, Blank
  <2> QED
    BY <2>1 DEF ReaderAt, Blank, Settled
<1>4. CASE key[c] # NoKey
  <2>1. /\ Len(log) \in Nat /\ b \in 1..Len(log) /\ t \in Nat /\ Size(h, b) \in Nat
        /\ t >= Size(h, b) => Place(h, b, t) \in b..Len(log)
    BY <1>2, <1>4, WhereItIs
  <2>2. /\ \A n \in 1..Len(log) : log'[n] = log[n] /\ n \in 1..Len(log')
        /\ \A n \in 0..Len(log) : h2[n] = h[n]
    BY <2>1 DEF Longer
  <2>3. h2[b - 1] = h[b - 1]
    BY <2>1, <2>2
  <2>4. Size(h2, b) = Size(h, b)
    BY <2>3 DEF Size
  <2>5. Place(h2, b, t) = Place(h, b, t)
    BY <2>4 DEF Place
  <2>6. t >= Size(h, b) => Place(h, b, t) \in 1..Len(log) /\ Place(h, b, t) \in 0..Len(log)
    BY <2>1
  <2>7. t >= Size(h, b) => h2[Place(h, b, t)] = h[Place(h, b, t)]
    BY <2>2, <2>6
  <2>8. ~(t < Size(h, b)) => t >= Size(h, b)
    BY <2>1
  <2>9. Known(h2, b, t) = Known(h, b, t)
    BY <2>3, <2>4, <2>5, <2>7, <2>8 DEF Known
  <2>10. cstate[c] = "select" => t >= Size(h, b)
    BY <1>2, <1>4, <2>8 DEF ReaderAt, Settled
  <2>11. info[c] # NoInfo => t >= Size(h, b) /\ Told(h, Place(h, b, t), c)
    BY <1>2 DEF ReaderAt
  <2>12. ASSUME info[c] # NoInfo
         PROVE  Told(h2, Place(h, b, t), c)'
    <3>1. PICK n : n = Place(h, b, t)
      OBVIOUS
    <3>2. n \in 1..Len(log) /\ h2[n] = h[n] /\ Told(h, n, c)
      BY <2>6, <2>7, <2>11, <2>12, <3>1
    <3>3. log'[n] = log[n] /\ n \in 1..Len(log')
      BY <2>2, <3>2
    <3>4. Told(h2, n, c)'
      BY <1>1, <3>2, <3>3 DEF Told
    <3> QED
      BY <3>1, <3>4
  <2>13. /\ roster[c] = Known(h, b, t)
         /\ t < Size(h, b) => cstate[c] \notin Settled /\ Blank(c)
         /\ t >= Size(h, b) => cstate[c] # "setup"
         /\ cstate[c] \in {"connect", "setup", "main"} => Blank(c)
         /\ cstate[c] = "select" => /\ order[c] = h[Place(h, b, t)].order
                                    /\ pulses[c] = h[Place(h, b, t)].pulses
    BY <1>2, <1>4 DEF ReaderAt
  <2>14. Blank(c)' <=> Blank(c)
    BY <1>1 DEF Blank
  <2>15. /\ roster'[c] = Known(h2, b, t)
         /\ t < Size(h2, b) => cstate'[c] \notin Settled /\ Blank(c)'
         /\ t >= Size(h2, b) => cstate'[c] # "setup"
         /\ cstate'[c] \in {"connect", "setup", "main"} => Blank(c)'
         /\ cstate'[c] = "select" => /\ order'[c] = h2[Place(h2, b, t)].order
                                     /\ pulses'[c] = h2[Place(h2, b, t)].pulses
    BY <1>1, <2>4, <2>5, <2>7, <2>9, <2>10, <2>13, <2>14
  <2>16. info'[c] # NoInfo => t >= Size(h2, b) /\ Told(h2, Place(h2, b, t), c)'
    BY <1>1, <2>4, <2>5, <2>11, <2>12
  <2>17. taken'[c] = t /\ key'[c] # NoKey
    BY <1>1, <1>2, <1>4
  <2> QED
    BY <2>15, <2>16, <2>17 DEF ReaderAt
<1> QED
  BY <1>3, <1>4

\* One who has just been admitted has read nothing.
LEMMA ReaderBegins ==
  ASSUME NEW h, NEW b, NEW c \in Conns, key[c] = NoKey, ReaderAt(h, b, c), UNCHANGED clientVars,
         key'[c] # NoKey, toClient'[c] = <<>>, RoomInv', ConsoleInv',
         NEW h2, NEW b2, History(h2)', StreamAt(h2, b2, c)'
  PROVE  ReaderAt(h2, b2, c)'
<1>1. UNCHANGED <<cstate, taken, roster, order, pulses, info>>
  BY DEF clientVars
<1>2. roster'[c] = <<>> /\ Blank(c)' /\ cstate'[c] \notin Settled
  BY <1>1 DEF ReaderAt, Blank
<1>3. taken'[c] = 0
  <2>1. taken'[c] \in Nat /\ taken'[c] <= Len(toClient'[c])
    BY DEF ConsoleInv, TakenOK
  <2>2. Len(toClient'[c]) = 0
    BY EmptySeq
  <2> QED
    BY <2>1, <2>2
<1>4. PICK l : l = log'
  OBVIOUS
<1>5. Hist(l, h2) /\ b2 \in 1..Len(l) /\ Len(l) \in Nat
  <2>1. l \in Seq(Events)
    BY <1>4 DEF RoomInv, TypeOK
  <2> QED
    BY <1>4, <2>1, LenProperties DEF History, StreamAt, Follows
<1>6. Size(h2, b2) \in Nat /\ Size(h2, b2) > 0 /\ h2[b2 - 1].roster \in Seq(Conns)
  BY <1>5, SizeOfGreeting
<1>7. Known(h2, b2, 0) = <<>>
  BY <1>6, AllOfIt DEF Known
<1>8. ~(0 >= Size(h2, b2))
  BY <1>6
<1> QED
  BY <1>2, <1>3, <1>7, <1>8 DEF ReaderAt, Blank, Settled

\* What a console makes of an event it reads.
Digests(c) ==
  /\ HasEvent(c) /\ UNCHANGED <<log, key>> /\ taken'[c] = taken[c] + 1
  /\ roster'[c] = Replay(c, roster[c], Event(c))
  /\ \/ cstate[c] = "setup" /\ cstate'[c] = "setup" /\ Event(c).type # "settings"
     \/ cstate[c] = "setup" /\ cstate'[c] = "main" /\ Event(c).type = "settings"
     \/ cstate[c] = "main" /\ cstate'[c] = "main"
     \/ cstate[c] = "main" /\ cstate'[c] \in {"teamSelect", "select"} /\ Event(c).type = "start"
     \/ cstate[c] \in {"teamSelect", "select"} /\ cstate'[c] = cstate[c]
  /\ IF cstate[c] = "select" /\ Event(c).type = "selectPulse"
     THEN /\ order'[c] = [order[c] EXCEPT ![Event(c).player] = pulses[c]]
          /\ pulses'[c] = pulses[c] + 1
     ELSE order'[c] = order[c] /\ pulses'[c] = pulses[c]
  /\ IF cstate[c] = "select" /\ Event(c).type = "selectInfo"
     THEN info'[c] = [votes |-> Event(c).votes, selected |-> Event(c).selected]
     ELSE info'[c] = info[c]

\* An event that is read keeps what is said of the reader.
LEMMA ReaderReads ==
  ASSUME RoomInv, ConsoleInv, DrawInv, NEW h, NEW b, NEW c \in Conns, History(h),
         StreamAt(h, b, c), ReaderAt(h, b, c), Digests(c)
  PROVE  ReaderAt(h, b, c)'
<1>a. /\ HasEvent(c) /\ UNCHANGED <<log, key>> /\ taken'[c] = taken[c] + 1
      /\ roster'[c] = Replay(c, roster[c], Event(c))
  BY DEF Digests
<1>b. \/ cstate[c] = "setup" /\ cstate'[c] = "setup" /\ Event(c).type # "settings"
      \/ cstate[c] = "setup" /\ cstate'[c] = "main" /\ Event(c).type = "settings"
      \/ cstate[c] = "main" /\ cstate'[c] = "main"
      \/ cstate[c] = "main" /\ cstate'[c] \in {"teamSelect", "select"} /\ Event(c).type = "start"
      \/ cstate[c] \in {"teamSelect", "select"} /\ cstate'[c] = cstate[c]
  BY DEF Digests
<1>c. IF cstate[c] = "select" /\ Event(c).type = "selectPulse"
      THEN /\ order'[c] = [order[c] EXCEPT ![Event(c).player] = pulses[c]]
           /\ pulses'[c] = pulses[c] + 1
      ELSE order'[c] = order[c] /\ pulses'[c] = pulses[c]
  BY DEF Digests
<1>d. IF cstate[c] = "select" /\ Event(c).type = "selectInfo"
      THEN info'[c] = [votes |-> Event(c).votes, selected |-> Event(c).selected]
      ELSE info'[c] = info[c]
  BY DEF Digests
<1>1. PICK t : t = taken[c]
  OBVIOUS
<1>2. PICK e : e = Event(c)
  OBVIOUS
<1>3. PICK S : S = Size(h, b)
  OBVIOUS
<1>4. PICK n : n = Place(h, b, t)
  OBVIOUS
<1>5. /\ key[c] # NoKey /\ info[c] = NoInfo /\ e \in Events
      /\ IsNth(log, h, b, t + 1, e)
      /\ Known(h, b, t + 1) = Replay(c, roster[c], e)
      /\ t >= S => /\ n + 1 \in 1..Len(log) /\ Place(h, b, t + 1) = n + 1
                   /\ e = log[n + 1] /\ Turns(h[n], e, h[n + 1])
  BY <1>1, <1>2, <1>3, <1>4, <1>a, NextEvent
<1>6. t \in Nat /\ S \in Nat /\ S > 0
  BY <1>1, <1>3, <1>5, WhereItIs
<1>7. /\ t < S => cstate[c] \notin Settled /\ Blank(c)
      /\ t >= S => cstate[c] # "setup"
      /\ cstate[c] \in {"setup", "main"} => Blank(c)
      /\ cstate[c] = "select" => order[c] = h[n].order /\ pulses[c] = h[n].pulses
  BY <1>1, <1>3, <1>4, <1>5 DEF ReaderAt
<1>8. t + 1 = S => e.type = "settings"
  BY <1>3, <1>5 DEF IsNth
<1>9. t + 1 < S => e.type = "join"
  BY <1>3, <1>5 DEF IsNth, JoinEvent
<1>10. t + 1 < S => cstate'[c] \notin Settled
  BY <1>2, <1>6, <1>7, <1>9, <1>b DEF Settled
<1>11. t + 1 >= S => cstate'[c] # "setup"
  <2>1. t + 1 >= S => t + 1 = S \/ t >= S
    BY <1>6
  <2> QED
    BY <1>2, <1>7, <1>8, <1>b, <2>1 DEF Settled
<1>12. cstate'[c] \in {"setup", "main"} => Blank(c)'
  BY <1>7, <1>b, <1>c, <1>d DEF Blank
<1>13. ASSUME cstate'[c] = "select"
       PROVE  t >= S /\ order'[c] = h[n + 1].order /\ pulses'[c] = h[n + 1].pulses
  <2>1. cstate[c] \in Settled
    BY <1>13, <1>b DEF Settled
  <2>2. t >= S
    BY <1>6, <1>7, <2>1
  <2>3. Turns(h[n], e, h[n + 1])
    BY <1>5, <2>2
  <2>4. CASE cstate[c] = "select"
    <3>1. IF e.type = "selectPulse"
          THEN order'[c] = [order[c] EXCEPT ![e.player] = pulses[c]] /\ pulses'[c] = pulses[c] + 1
          ELSE order'[c] = order[c] /\ pulses'[c] = pulses[c]
      BY <1>2, <1>c, <2>4
    <3>2. IF e.type = "selectPulse"
          THEN /\ h[n + 1].order = [h[n].order EXCEPT ![e.player] = h[n].pulses]
               /\ h[n + 1].pulses = h[n].pulses + 1
          ELSE h[n + 1].order = h[n].order /\ h[n + 1].pulses = h[n].pulses
      BY <2>3 DEF Turns
    <3>3. order[c] = h[n].order /\ pulses[c] = h[n].pulses
      BY <1>7, <2>4
    <3>4. order'[c] = h[n + 1].order /\ pulses'[c] = h[n + 1].pulses
      BY <3>1, <3>2, <3>3
    <3> QED
      BY <2>2, <3>4
  <2>5. CASE cstate[c] = "main" /\ Event(c).type = "start"
    <3>1. order'[c] = NoOrders /\ pulses'[c] = 0
      BY <1>7, <1>c, <2>5 DEF Blank
    <3>2. h[n].order = NoOrders /\ h[n].pulses = 0 /\ h[n + 1].order = h[n].order
          /\ h[n + 1].pulses = h[n].pulses
      BY <1>2, <2>3, <2>5 DEF Turns
    <3> QED
      BY <2>2, <3>1, <3>2
  <2> QED
    BY <1>13, <1>b, <2>2, <2>4, <2>5
<1>14. ASSUME info'[c] # NoInfo
       PROVE  t >= S /\ Told(h, n + 1, c)'
  <2>1. cstate[c] = "select" /\ e.type = "selectInfo" /\ cstate'[c] = "select"
        /\ info'[c] = [votes |-> e.votes, selected |-> e.selected]
    BY <1>2, <1>5, <1>14, <1>b, <1>d
  <2>2. t >= S /\ order'[c] = h[n + 1].order
    BY <1>13, <2>1
  <2>3. n + 1 \in 1..Len(log) /\ e = log[n + 1]
    BY <1>5, <2>2
  <2> QED
    BY <1>a, <2>1, <2>2, <2>3 DEF Told
<1>16. roster'[c] = Known(h, b, t + 1) /\ taken'[c] = t + 1 /\ key'[c] # NoKey
  BY <1>1, <1>2, <1>5, <1>a
<1>17. t >= S => t + 1 >= S
  BY <1>6
<1>18. /\ cstate'[c] = "select" => /\ order'[c] = h[Place(h, b, t + 1)].order
                                  /\ pulses'[c] = h[Place(h, b, t + 1)].pulses
       /\ info'[c] # NoInfo => t + 1 >= S /\ Told(h, Place(h, b, t + 1), c)'
  <2>1. t >= S => Place(h, b, t + 1) = n + 1
    BY <1>5
  <2>2. PICK p : p = Place(h, b, t + 1)
    OBVIOUS
  <2>3. info'[c] # NoInfo => t + 1 >= S /\ Told(h, p, c)'
    BY <1>14, <1>17, <2>1, <2>2
  <2> QED
    BY <1>13, <2>1, <2>2, <2>3
<1>19. t + 1 < S => cstate'[c] \notin Settled /\ Blank(c)'
  <2>1. t + 1 < S => cstate'[c] \in {"setup", "main"}
    BY <1>2, <1>9, <1>10, <1>b DEF Settled
  <2> QED
    BY <1>10, <1>12, <2>1
<1>20. cstate'[c] # "connect"
  BY <1>b
<1> QED
  BY <1>3, <1>11, <1>12, <1>16, <1>18, <1>19, <1>20 DEF ReaderAt

\* A console reads nothing.
LEMMA ReaderIdles ==
  ASSUME NEW h, NEW b, NEW c \in Conns, ReaderAt(h, b, c), UNCHANGED <<log, key>>,
         taken'[c] = taken[c], roster'[c] = roster[c], order'[c] = order[c],
         pulses'[c] = pulses[c], info'[c] = info[c],
         \/ cstate'[c] = cstate[c]
         \/ cstate'[c] = "closed"
         \/ cstate[c] = "connect" /\ cstate'[c] = "setup" /\ key[c] = NoKey
  PROVE  ReaderAt(h, b, c)'
<1>1. Blank(c)' <=> Blank(c)
  BY DEF Blank
<1>2. \A n : Told(h, n, c)' <=> Told(h, n, c)
  BY DEF Told
<1>3. PICK n : n = Place(h, b, taken[c])
  OBVIOUS
<1>4. Place(h, b, taken'[c]) = n /\ Known(h, b, taken'[c]) = Known(h, b, taken[c])
  BY <1>3
<1>5. cstate'[c] \in Settled => cstate[c] \in Settled
  BY DEF Settled
<1>6. info[c] # NoInfo => Told(h, n, c) /\ taken[c] >= Size(h, b) /\ key[c] # NoKey
  BY <1>3 DEF ReaderAt
<1>7. info'[c] # NoInfo => Told(h, n, c)' /\ taken'[c] >= Size(h, b) /\ key'[c] # NoKey
  BY <1>2, <1>6
<1>8. CASE key[c] = NoKey
  <2>1. Blank(c) /\ cstate[c] \notin Settled /\ roster[c] = <<>> /\ info[c] = NoInfo
    BY <1>8 DEF ReaderAt, Blank
  <2> QED
    BY <1>1, <1>5, <1>8, <2>1 DEF ReaderAt, Settled
<1>9. CASE key[c] # NoKey
  <2>1. cstate'[c] = cstate[c] \/ cstate'[c] = "closed"
    BY <1>9
  <2>2. /\ roster[c] = Known(h, b, taken[c])
        /\ taken[c] < Size(h, b) => cstate[c] \notin Settled /\ Blank(c)
        /\ taken[c] >= Size(h, b) => cstate[c] # "setup"
        /\ cstate[c] \in {"connect", "setup", "main"} => Blank(c)
        /\ cstate[c] = "select" => order[c] = h[n].order /\ pulses[c] = h[n].pulses
    BY <1>3, <1>9 DEF ReaderAt
  <2>3. cstate'[c] = "select" => order'[c] = h[n].order /\ pulses'[c] = h[n].pulses
    BY <2>1, <2>2
  <2> QED
    BY <1>1, <1>3, <1>4, <1>5, <1>7, <1>9, <2>1, <2>2, <2>3 DEF ReaderAt
<1> QED
  BY <1>8, <1>9

\* Every step of a console keeps what it has made of what it has read.
LEMMA ClientReader ==
  ASSUME RoomInv, ConsoleInv, DrawInv, ClientTypeOK, NEW h, NEW b, NEW c \in Conns, History(h),
         StreamAt(h, b, c), ReaderAt(h, b, c), ClientStep(c)
  PROVE  ReaderAt(h, b, c)'
<1>1. /\ cstate \in [Conns -> {"connect", "setup", "main", "teamSelect", "select", "closed"}]
      /\ taken \in [Conns -> Nat] /\ roster \in [Conns -> Seq(Conns)]
      /\ order \in [Conns -> [PlayerIds -> PlayerIds \cup {NoOrder}]]
      /\ pulses \in [Conns -> Nat]
      /\ info \in [Conns -> [votes : Seq(Courses), selected : Nat]]
  BY DEF ClientTypeOK
<1>2. CASE Destroy(c)
  <2>1. /\ UNCHANGED <<log, key, taken, roster, order, pulses, info>>
        /\ cstate' = [cstate EXCEPT ![c] = "closed"]
    BY <1>2 DEF Destroy, Close, chanVars, taskVars
  <2> QED
    BY <1>1, <2>1, ReaderIdles
<1>3. CASE ClientConnects(c)
  <2>1. /\ UNCHANGED <<log, key, taken, roster, order, pulses, info>>
        /\ cstate' = [cstate EXCEPT ![c] = "setup"] /\ task[c] = "none"
    BY <1>3 DEF ClientConnects, Connect, chanVars, taskVars
  <2>2. cstate[c] = "connect" /\ key[c] = NoKey
    BY <2>1 DEF ConsoleInv, ClosedOK, StreamAt, Before
  <2> QED
    BY <1>1, <2>1, <2>2, ReaderIdles
<1>4. CASE OpenRoomPage(c) \/ ChangeLocalSettings(c)
  <2>1. UNCHANGED <<log, key, taken, roster, order, pulses, info, cstate>>
    BY <1>4 DEF OpenRoomPage, ChangeLocalSettings, vars, chanVars, taskVars
  <2> QED
    BY <2>1, ReaderIdles
<1>5. CASE SendComment(c) \/ StartRoom(c) \/ SendTeamSelect(c)
  <2>1. UNCHANGED <<log, key, taken, roster, order, pulses, info, cstate>>
    BY <1>5 DEF SendComment, StartRoom, SendTeamSelect, Request, chanVars, taskVars, clientVars
  <2> QED
    BY <2>1, ReaderIdles
<1>6. CASE SettingsAreSent(c) \/ SendVote(c)
  <2>1. UNCHANGED <<log, key, taken, roster, order, pulses, info, cstate>>
    BY <1>6 DEF SettingsAreSent, SendVote, Request, vars, chanVars, taskVars
  <2> QED
    BY <2>1, ReaderIdles
<1>7. ASSUME NEW state, NEW type, Reads(c, state, type), UNCHANGED vars
      PROVE  /\ HasEvent(c) /\ Event(c).type = type /\ cstate[c] = state
             /\ taken'[c] = taken[c] + 1 /\ UNCHANGED <<log, key>>
  BY <1>1, <1>7 DEF Reads, vars, chanVars, taskVars
<1>8. CASE PlayerJoins(c)
  <2>1. PICK state \in {"setup", "main"} : Reads(c, state, "join")
    BY <1>8 DEF PlayerJoins
  <2>2. roster'[c] = Append(roster[c], Event(c).who) /\ UNCHANGED <<vars, cstate, order, pulses, info>>
    BY <1>1, <1>8 DEF PlayerJoins
  <2>3. roster'[c] = Replay(c, roster[c], Event(c))
    BY <1>7, <2>1, <2>2 DEF Replay
  <2>9. Digests(c)
    BY <1>7, <2>1, <2>2, <2>3 DEF Digests
  <2> QED
    BY <2>9, ReaderReads
<1>9. CASE SetupEnds(c)
  <2>1. Reads(c, "setup", "settings") /\ UNCHANGED <<vars, order, pulses, info>>
    BY <1>9 DEF SetupEnds
  <2>2. roster'[c] = Append(roster[c], c) /\ cstate'[c] = "main"
    BY <1>1, <1>9 DEF SetupEnds
  <2>3. roster'[c] = Replay(c, roster[c], Event(c))
    BY <1>7, <2>1, <2>2 DEF Replay
  <2>9. Digests(c)
    BY <1>7, <2>1, <2>2, <2>3 DEF Digests
  <2> QED
    BY <2>9, ReaderReads
<1>10. CASE PlayerLeaves(c)
  <2>1. Reads(c, "main", "leave") /\ UNCHANGED <<vars, cstate, order, pulses, info>>
    BY <1>10 DEF PlayerLeaves
  <2>2. roster'[c] = SubSeq(roster[c], 1, Event(c).player)
                       \o SubSeq(roster[c], Event(c).player + 2, Len(roster[c]))
    BY <1>1, <1>10 DEF PlayerLeaves
  <2>3. roster'[c] = Replay(c, roster[c], Event(c))
    <3>1. Event(c).type = "leave"
      BY <1>7, <2>1
    <3>2. Replay(c, roster[c], Event(c)) = SubSeq(roster[c], 1, Event(c).player)
                                             \o SubSeq(roster[c], Event(c).player + 2, Len(roster[c]))
      BY <3>1, Zenon DEF Replay
    <3> QED
      BY <2>2, <3>2
  <2>4. /\ HasEvent(c) /\ UNCHANGED <<log, key>> /\ taken'[c] = taken[c] + 1
        /\ cstate[c] = "main" /\ cstate'[c] = "main" /\ Event(c).type = "leave"
        /\ order'[c] = order[c] /\ pulses'[c] = pulses[c] /\ info'[c] = info[c]
    BY <1>7, <2>1
  <2>9. Digests(c)
    BY <2>3, <2>4 DEF Digests
  <2> QED
    BY <2>9, ReaderReads
<1>11. CASE CommentArrives(c)
  <2>1. Reads(c, "main", "comment") /\ UNCHANGED <<vars, cstate, roster, order, pulses, info>>
    BY <1>11 DEF CommentArrives
  <2>2. roster'[c] = Replay(c, roster[c], Event(c))
    BY <1>7, <2>1 DEF Replay
  <2>9. Digests(c)
    BY <1>7, <2>1, <2>2 DEF Digests
  <2> QED
    BY <2>9, ReaderReads
<1>12. CASE RoomStarts(c)
  <2>1. Reads(c, "main", "start") /\ UNCHANGED <<vars, roster, order, pulses, info>>
    BY <1>12 DEF RoomStarts
  <2>2. cstate'[c] \in {"select", "teamSelect"}
    BY <1>1, <1>12 DEF RoomStarts
  <2>3. roster'[c] = Replay(c, roster[c], Event(c))
    BY <1>7, <2>1 DEF Replay
  <2>9. Digests(c)
    BY <1>7, <2>1, <2>2, <2>3 DEF Digests
  <2> QED
    BY <2>9, ReaderReads
<1>13. CASE TeamSelectIgnores(c)
  <2>1. PICK type \in {"selectPulse", "selectInfo"} : Reads(c, "teamSelect", type)
    BY <1>13 DEF TeamSelectIgnores
  <2>2. UNCHANGED <<vars, cstate, roster, order, pulses, info>>
    BY <1>13 DEF TeamSelectIgnores
  <2>3. roster'[c] = Replay(c, roster[c], Event(c))
    BY <1>7, <2>1, <2>2 DEF Replay
  <2>9. Digests(c)
    BY <1>7, <2>1, <2>2, <2>3 DEF Digests
  <2> QED
    BY <2>9, ReaderReads
<1>14. CASE PulseArrives(c)
  <2>1. Reads(c, "select", "selectPulse") /\ UNCHANGED <<vars, cstate, roster, info>>
    BY <1>14 DEF PulseArrives
  <2>2. order'[c] = [order[c] EXCEPT ![Event(c).player] = pulses[c]] /\ pulses'[c] = pulses[c] + 1
    BY <1>1, <1>14 DEF PulseArrives
  <2>3. roster'[c] = Replay(c, roster[c], Event(c))
    BY <1>7, <2>1 DEF Replay
  <2>9. Digests(c)
    BY <1>7, <2>1, <2>2, <2>3 DEF Digests
  <2> QED
    BY <2>9, ReaderReads
<1>15. CASE InfoArrives(c)
  <2>1. Reads(c, "select", "selectInfo") /\ UNCHANGED <<vars, cstate, roster, order, pulses>>
    BY <1>15 DEF InfoArrives
  <2>2. info'[c] = [votes |-> Event(c).votes, selected |-> Event(c).selected]
    BY <1>1, <1>15 DEF InfoArrives
  <2>3. roster'[c] = Replay(c, roster[c], Event(c))
    BY <1>7, <2>1 DEF Replay
  <2>9. Digests(c)
    BY <1>7, <2>1, <2>2, <2>3 DEF Digests
  <2> QED
    BY <2>9, ReaderReads
<1> QED
  BY <1>2, <1>3, <1>4, <1>5, <1>6, <1>8, <1>9, <1>10, <1>11, <1>12, <1>13, <1>14, <1>15
  DEF ClientStep, ReadsEvent, UserActs, GivesUp, ClientLosesServer, ClientLeaves

\* A console's step leaves the room and the streams to it as they are.
LEMMA ClientLeavesRoom ==
  ASSUME RoomInv, ConsoleInv, NEW c \in Conns, ClientStep(c)
  PROVE  /\ UNCHANGED <<roomVars, chanVars, key, greeting, cursor, holding, aborted, toClient>>
         /\ \/ UNCHANGED task
            \/ task[c] = "none" /\ task' = [task EXCEPT ![c] = "admit"]
<1>1. \A r : Request(c, r) =>
        UNCHANGED <<roomVars, chanVars, key, greeting, cursor, holding, aborted, toClient, task>>
  BY DEF Request, taskVars
<1>2. Connect(c) \/ Close(c) \/ UNCHANGED vars =>
        /\ UNCHANGED <<roomVars, chanVars, key, greeting, cursor, holding, aborted, toClient>>
        /\ \/ UNCHANGED task
           \/ task[c] = "none" /\ task' = [task EXCEPT ![c] = "admit"]
  BY DEF Connect, Close, vars, taskVars, wireVars
<1> QED
  BY <1>1, <1>2, ClientFacts

\* Another console's memory is its own.
LEMMA OwnMemory ==
  ASSUME RoomInv, ConsoleInv, ClientTypeOK, NEW c \in Conns, ClientStep(c), NEW d \in Conns \ {c}
  PROVE  /\ cstate'[d] = cstate[d] /\ taken'[d] = taken[d] /\ roster'[d] = roster[d]
         /\ me'[d] = me[d] /\ order'[d] = order[d] /\ pulses'[d] = pulses[d] /\ info'[d] = info[d]
<1>1. /\ cstate \in [Conns -> {"connect", "setup", "main", "teamSelect", "select", "closed"}]
      /\ taken \in [Conns -> Nat] /\ roster \in [Conns -> Seq(Conns)]
      /\ order \in [Conns -> [PlayerIds -> PlayerIds \cup {NoOrder}]]
      /\ pulses \in [Conns -> Nat] /\ me \in [Conns -> PlayerIds \cup {NoOrder}]
      /\ info \in [Conns -> [votes : Seq(Courses), selected : Nat]]
  BY DEF ClientTypeOK
<1>2. CASE \/ OpenRoomPage(c) \/ SendComment(c) \/ StartRoom(c) \/ ChangeLocalSettings(c)
           \/ SettingsAreSent(c) \/ SendTeamSelect(c) \/ SendVote(c)
  BY <1>2 DEF OpenRoomPage, SendComment, StartRoom, ChangeLocalSettings, SettingsAreSent,
    SendTeamSelect, SendVote, clientVars
<1>3. CASE ClientConnects(c) \/ Destroy(c)
  BY <1>1, <1>3 DEF ClientConnects, Destroy
<1>4. CASE PlayerJoins(c) \/ SetupEnds(c)
  BY <1>1, <1>4 DEF PlayerJoins, SetupEnds, Reads
<1>5. CASE CommentArrives(c) \/ RoomStarts(c) \/ TeamSelectIgnores(c)
  BY <1>1, <1>5 DEF CommentArrives, RoomStarts, TeamSelectIgnores, Reads
<1>6. CASE PulseArrives(c) \/ InfoArrives(c)
  BY <1>1, <1>6 DEF PulseArrives, InfoArrives, Reads
<1>7. CASE PlayerLeaves(c)
  BY <1>1, <1>7 DEF PlayerLeaves, Reads
<1> QED
  BY <1>2, <1>3, <1>4, <1>5, <1>6, <1>7
  DEF ClientStep, ReadsEvent, UserActs, GivesUp, ClientLosesServer, ClientLeaves

Readers(h, b) == \A c \in Conns : ReaderAt(h, b[c], c)

\* The log, the streams and what is made of them, after a step of a console,
LEMMA ClientGoesOn ==
  ASSUME RoomInv, ConsoleInv, DrawInv, ClientTypeOK, NEW h, NEW b, History(h), Streams(h, b),
         Readers(h, b), NEW c \in Conns, ClientStep(c)
  PROVE  DrawInv' /\ History(h)' /\ Streams(h, b)' /\ Readers(h, b)'
<1>1. /\ UNCHANGED <<phase, gamemode, players, log, key, greeting, cursor, toClient>>
      /\ \A d \in Conns : task'[d] = task[d] \/ (task[d] = "none" /\ task'[d] = "admit")
  BY ClientLeavesRoom DEF roomVars, chanVars, RoomInv, TypeOK
<1>2. DrawInv'
  BY <1>1 DEF DrawInv, PulsesOnce, NoOutcomeYet, NoVotesYet, VotesAnnounced, OutcomeStands,
    ModeCourses
<1>3. History(h)'
  BY <1>1, HistoryStays
<1>4. ASSUME NEW d \in Conns
      PROVE  StreamAt(h, b[d], d)' /\ ReaderAt(h, b[d], d)'
  <2>1. StreamAt(h, b[d], d) /\ ReaderAt(h, b[d], d)
    BY StreamByStream DEF Readers
  <2>2. PICK m : m = b[d]
    OBVIOUS
  <2>3. StreamAt(h, m, d)'
    BY <1>1, <2>1, <2>2 DEF StreamAt, Before
  <2>4. ReaderAt(h, m, d)'
    <3>1. CASE d = c
      BY <2>1, <2>2, <3>1, ClientReader
    <3>2. CASE d # c
      <4>1. /\ cstate'[d] = cstate[d] /\ taken'[d] = taken[d] /\ roster'[d] = roster[d]
            /\ order'[d] = order[d] /\ pulses'[d] = pulses[d] /\ info'[d] = info[d]
        BY <3>2, OwnMemory
      <4> QED
        BY <1>1, <2>1, <2>2, <4>1, ReaderIdles
    <3> QED
      BY <3>1, <3>2
  <2> QED
    BY <2>2, <2>3, <2>4
<1>5. Streams(h, b)'
  BY <1>4, StreamByStreamNext
<1>6. Readers(h, b)'
  BY <1>4 DEF Readers
<1> QED
  BY <1>2, <1>3, <1>5, <1>6

\* and after one of the server.
LEMMA ServerGoesOn ==
  ASSUME RoomInv, ConsoleInv, DrawInv, NEW h, NEW b, History(h), Streams(h, b), Readers(h, b),
         ServerStep, UNCHANGED clientVars, RoomInv', ConsoleInv'
  PROVE  \E h2, b2 : History(h2)' /\ Streams(h2, b2)' /\ Readers(h2, b2)'
<1>1. PICK h2 : History(h2)' /\ Longer(log, h, log', h2)
  BY HistoryGoesOn
<1>2. PICK b2 : Streams(h2, b2)' /\ Keep(b, b2)
  BY <1>1, StreamsGoOn
<1>3. ASSUME NEW c \in Conns
      PROVE  ReaderAt(h2, b2[c], c)'
  <2>1. StreamAt(h, b[c], c) /\ ReaderAt(h, b[c], c) /\ StreamAt(h2, b2[c], c)'
    BY <1>2, StreamByStream, StreamByStreamNext DEF Readers
  <2>2. PICK m : m = b[c]
    OBVIOUS
  <2>3. PICK m2 : m2 = b2[c]
    OBVIOUS
  <2>4. CASE key[c] # NoKey /\ key'[c] = key[c]
    <3>1. m2 = m
      BY <1>2, <2>2, <2>3, <2>4 DEF Keep
    <3> QED
      BY <1>1, <2>1, <2>2, <2>3, <2>4, <3>1, ReaderStays
  <2>5. CASE key[c] = NoKey /\ key'[c] = NoKey
    <3>1. /\ UNCHANGED <<cstate, roster, order, pulses, info>>
          /\ roster[c] = <<>> /\ Blank(c) /\ cstate[c] \notin Settled
      BY <2>1, <2>5 DEF clientVars, ReaderAt
    <3> QED
      BY <2>3, <2>5, <3>1 DEF ReaderAt, Blank, Settled
  <2>6. CASE key[c] = NoKey /\ key'[c] # NoKey
    <3>1. toClient'[c] = <<>>
      BY <1>2, <2>6 DEF Keep
    <3> QED
      BY <1>1, <2>1, <2>2, <2>3, <2>6, <3>1, ReaderBegins
  <2>7. key[c] # NoKey => key'[c] = key[c]
    BY <1>2 DEF Keep
  <2> QED
    BY <2>4, <2>5, <2>6, <2>7
<1>4. Readers(h2, b2)'
  BY <1>3 DEF Readers
<1> QED
  BY <1>1, <1>2, <1>4

\* What events carry.
LEMMA EventKinds ==
  ASSUME NEW e \in Events
  PROVE  /\ e.type = "join" => e.who \in Conns
         /\ e.type = "settings" => e.of \in Conns
         /\ e.type \in {"leave", "comment", "selectPulse"} => e.player \in Nat
         /\ e.type = "start" => e.mode \in Gamemodes \cup {0}
         /\ e.type = "selectInfo" => e.votes \in Seq(Courses) /\ e.selected \in Nat
BY SMT DEF Events

\* A sequence with one element taken out.
LEMMA CutOut ==
  ASSUME NEW q \in Seq(Conns), NEW i \in Nat, i < Len(q),
         NEW r, r = SubSeq(q, 1, i) \o SubSeq(q, i + 2, Len(q))
  PROVE  /\ r \in Seq(Conns) /\ Len(r) = Len(q) - 1
         /\ \A n \in 1..(Len(q) - 1) : r[n] = q[IF n <= i THEN n ELSE n + 1]
<1>1. PICK m \in Nat : m = Len(q)
  BY LenProperties
<1>2. \A n \in 1..m : q[n] \in Conns
  BY <1>1, ElementOfSeq
<1>3. /\ \A n \in 1..i : q[n] \in Conns
      /\ \A n \in (i + 2)..m : q[n] \in Conns
  BY <1>1, <1>2
<1>4. PICK s : s = SubSeq(q, 1, i)
  OBVIOUS
<1>5. PICK t : t = SubSeq(q, i + 2, m)
  OBVIOUS
<1>6. s \in Seq(Conns) /\ Len(s) = i /\ \A n \in 1..i : s[n] = q[n]
  <2>1. /\ s \in Seq(Conns) /\ Len(s) = (IF 1 <= i THEN i - 1 + 1 ELSE 0)
        /\ \A n \in 1..(i - 1 + 1) : s[n] = q[1 + n - 1]
    BY <1>3, <1>4, SubSeqProperties
  <2> QED
    BY <2>1
<1>7. t \in Seq(Conns) /\ Len(t) = m - i - 1 /\ \A n \in 1..(m - i - 1) : t[n] = q[i + 1 + n]
  <2>1. /\ t \in Seq(Conns) /\ Len(t) = (IF i + 2 <= m THEN m - (i + 2) + 1 ELSE 0)
        /\ \A n \in 1..(m - (i + 2) + 1) : t[n] = q[(i + 2) + n - 1]
    BY <1>1, <1>3, <1>5, SubSeqProperties
  <2>2. m - (i + 2) + 1 = m - i - 1 /\ (~(i + 2 <= m) => m - i - 1 = 0)
    BY <1>1
  <2>3. \A n \in Nat : (i + 2) + n - 1 = i + 1 + n
    OBVIOUS
  <2>4. \A n \in 1..(m - i - 1) : n \in Nat
    BY <1>1
  <2> QED
    BY <2>1, <2>2, <2>3, <2>4
<1>8. /\ r \in Seq(Conns) /\ Len(r) = i + (m - i - 1)
      /\ \A n \in 1..(i + (m - i - 1)) : r[n] = IF n <= i THEN s[n] ELSE t[n - i]
  <2>1. s \in Seq(Conns) /\ t \in Seq(Conns) /\ r = s \o t
    BY <1>1, <1>4, <1>5, <1>6, <1>7
  <2>2. /\ r \in Seq(Conns) /\ Len(r) = Len(s) + Len(t)
        /\ \A n \in 1..(Len(s) + Len(t)) : r[n] = IF n <= Len(s) THEN s[n] ELSE t[n - Len(s)]
    <3>1. /\ (s \o t) \in Seq(Conns) /\ Len(s \o t) = Len(s) + Len(t)
          /\ \A n \in 1..(Len(s) + Len(t)) :
               (s \o t)[n] = IF n <= Len(s) THEN s[n] ELSE t[n - Len(s)]
      BY <2>1, ConcatProperties
    <3> QED
      BY <2>1, <3>1
  <2> QED
    BY <1>6, <1>7, <2>2
<1>9. i + (m - i - 1) = m - 1
  BY <1>1
<1>10. ASSUME NEW n \in 1..(m - 1)
       PROVE  r[n] = q[IF n <= i THEN n ELSE n + 1]
  <2>1. CASE n <= i
    <3>1. n \in 1..i
      BY <2>1
    <3> QED
      BY <1>6, <1>8, <1>9, <2>1, <3>1
  <2>2. CASE ~(n <= i)
    <3>1. n - i \in 1..(m - i - 1) /\ i + 1 + (n - i) = n + 1
      BY <1>1, <2>2
    <3>2. r[n] = t[n - i]
      BY <1>8, <1>9, <2>2
    <3>3. t[n - i] = q[n + 1]
      BY <1>7, <3>1
    <3> QED
      BY <2>2, <3>2, <3>3
  <2> QED
    BY <2>1, <2>2
<1> QED
  BY <1>1, <1>8, <1>9, <1>10

\* A console's players fit into the room.
LEMMA RosterFits ==
  ASSUME RoomInv, ConsoleInv, NEW h, NEW b, NEW c \in Conns, History(h), StreamAt(h, b, c),
         ReaderAt(h, b, c)
  PROVE  roster[c] \in Rosters
<1>1. CASE key[c] = NoKey
  <2>1. roster[c] = <<>>
    BY <1>1 DEF ReaderAt
  <2>2. PICK q \in Seq(Conns) : q = <<>>
    BY EmptySeq
  <2>3. Len(q) = 0
    BY <2>2, EmptySeq
  <2>4. q \in Rosters
    BY <2>3, Facts DEF Rosters
  <2> QED
    BY <2>1, <2>2, <2>4
<1>2. CASE key[c] # NoKey
  <2>1. /\ Hist(log, h) /\ Len(log) \in Nat /\ b \in 1..Len(log) /\ Size(h, b) \in Nat
        /\ h[b - 1].roster \in Rosters /\ Len(h[b - 1].roster) = Size(h, b) - 1
        /\ taken[c] \in Nat
        /\ taken[c] >= Size(h, b) => Place(h, b, taken[c]) \in b..Len(log)
    BY <1>2, WhereItIs
  <2>2. roster[c] = Known(h, b, taken[c])
    BY <1>2 DEF ReaderAt
  <2>3. CASE taken[c] < Size(h, b)
    <3>1. PICK t \in Nat : t = taken[c]
      BY <2>1
    <3>2. PICK q \in Seq(Conns) : q = h[b - 1].roster
      BY <2>1 DEF Rosters
    <3>3. t <= Len(q) /\ Len(q) <= MaxPlayers /\ Len(q) \in Nat
      BY <2>1, <2>3, <3>1, <3>2, LenProperties DEF Rosters
    <3>4. PICK s : s = SubSeq(q, 1, t)
      OBVIOUS
    <3>5. \A n \in 1..t : q[n] \in Conns
      BY <3>3, ElementOfSeq
    <3>6. s \in Seq(Conns) /\ Len(s) = (IF 1 <= t THEN t - 1 + 1 ELSE 0)
      BY <3>4, <3>5, SubSeqProperties
    <3>7. s \in Rosters
      BY <3>3, <3>6, Facts DEF Rosters
    <3> QED
      BY <2>2, <2>3, <3>1, <3>2, <3>4, <3>7 DEF Known
  <2>4. CASE ~(taken[c] < Size(h, b))
    <3>1. PICK n : n = Place(h, b, taken[c])
      OBVIOUS
    <3>2. n \in 0..Len(log)
      BY <2>1, <2>4, <3>1
    <3>3. h[n].roster \in Rosters
      BY <2>1, <3>2 DEF Hist, Story
    <3> QED
      BY <2>2, <2>4, <3>1, <3>3 DEF Known
  <2> QED
    BY <2>3, <2>4
<1> QED
  BY <1>1, <1>2

\* The same of all consoles,
AllFit ==
  \A h, b : \A c \in Conns :
    RoomInv /\ ConsoleInv /\ History(h) /\ StreamAt(h, b, c) /\ ReaderAt(h, b, c)
      => roster[c] \in Rosters

\* which holds,
LEMMA RostersFit == AllFit
BY RosterFits DEF AllFit

\* a step later.
LEMMA RosterFitsNext ==
  ASSUME RoomInv', ConsoleInv', NEW h, NEW b, NEW c \in Conns, History(h)', StreamAt(h, b, c)',
         ReaderAt(h, b, c)'
  PROVE  roster'[c] \in Rosters
<1>1. AllFit'
  BY RostersFit, PTL
<1>2. (RoomInv /\ ConsoleInv /\ History(h) /\ StreamAt(h, b, c) /\ ReaderAt(h, b, c)
        => roster[c] \in Rosters)'
  BY <1>1 DEF AllFit
<1> QED
  BY <1>2 DEF Rosters

\* Player ids, and what stands for none.
LEMMA Ids == PlayerIds \subseteq Nat /\ NoOrder \in Nat /\ PlayerIds \cup {NoOrder} = 0..MaxPlayers
BY Facts DEF PlayerIds, NoOrder

\* Which player it is, is part of what a console makes of the events.
MeAt(c) == cstate[c] \in Settled => me[c] < Len(roster[c]) /\ roster[c][me[c] + 1] = c

\* A reading console knows its player.
LEMMA KnowsItStill ==
  ASSUME ClientTypeOK, NEW c \in Conns, MeAt(c), ClientStep(c), HasEvent(c) => Event(c) \in Events
  PROVE  MeAt(c)'
<1>1. /\ cstate \in [Conns -> {"connect", "setup", "main", "teamSelect", "select", "closed"}]
      /\ roster \in [Conns -> Seq(Conns)] /\ me \in [Conns -> PlayerIds \cup {NoOrder}]
  BY DEF ClientTypeOK
<1>2. CASE \/ Destroy(c) \/ ClientConnects(c)
  <2>1. cstate'[c] \notin Settled
    BY <1>1, <1>2 DEF Destroy, ClientConnects, Settled
  <2> QED
    BY <2>1 DEF MeAt
<1>3. CASE \/ OpenRoomPage(c) \/ SendComment(c) \/ StartRoom(c) \/ ChangeLocalSettings(c)
           \/ SettingsAreSent(c) \/ SendTeamSelect(c) \/ SendVote(c)
  <2>1. UNCHANGED <<cstate, roster, me>>
    BY <1>3 DEF OpenRoomPage, SendComment, StartRoom, ChangeLocalSettings, SettingsAreSent,
      SendTeamSelect, SendVote, clientVars
  <2> QED
    BY <2>1 DEF MeAt
<1>4. CASE \/ CommentArrives(c) \/ TeamSelectIgnores(c) \/ PulseArrives(c) \/ InfoArrives(c)
  <2>1. UNCHANGED <<cstate, roster, me>>
    BY <1>4 DEF CommentArrives, TeamSelectIgnores, PulseArrives, InfoArrives
  <2> QED
    BY <2>1 DEF MeAt
<1>5. CASE RoomStarts(c)
  <2>1. UNCHANGED <<roster, me>> /\ cstate[c] = "main"
    BY <1>5 DEF RoomStarts, Reads
  <2> QED
    BY <2>1 DEF MeAt, Settled
<1>6. CASE SetupEnds(c)
  <2>1. me'[c] = Len(roster[c]) /\ roster'[c] = Append(roster[c], c)
    BY <1>1, <1>6 DEF SetupEnds
  <2>2. PICK q \in Seq(Conns) : q = roster[c]
    BY <1>1
  <2>3. PICK r : r = Append(q, c)
    OBVIOUS
  <2>4. Len(r) = Len(q) + 1 /\ r[Len(q) + 1] = c /\ Len(q) \in Nat
    BY <2>3, AppendProperties, LenProperties
  <2> QED
    BY <2>1, <2>2, <2>3, <2>4 DEF MeAt
<1>7. CASE PlayerJoins(c)
  <2>1. /\ UNCHANGED <<cstate, me>> /\ roster'[c] = Append(roster[c], Event(c).who)
        /\ HasEvent(c) /\ Event(c).type = "join"
    BY <1>1, <1>7 DEF PlayerJoins, Reads
  <2>2. Event(c).who \in Conns
    BY <2>1, EventKinds
  <2>3. PICK q \in Seq(Conns) : q = roster[c]
    BY <1>1
  <2>4. PICK r : r = Append(q, Event(c).who)
    OBVIOUS
  <2>5. Len(r) = Len(q) + 1 /\ Len(q) \in Nat /\ \A n \in 1..Len(q) : r[n] = q[n]
    BY <2>2, <2>4, AppendProperties, LenProperties
  <2>6. PICK m \in Nat : m = me[c]
    BY <1>1, Ids
  <2>7. m < Len(q) => m < Len(r) /\ m + 1 \in 1..Len(q)
    BY <2>5
  <2> QED
    BY <2>1, <2>3, <2>4, <2>5, <2>6, <2>7 DEF MeAt
<1>8. CASE PlayerLeaves(c)
  <2>1. /\ UNCHANGED cstate /\ HasEvent(c) /\ Event(c).type = "leave" /\ cstate[c] = "main"
        /\ ~Refuses(c, Event(c))
    BY <1>8 DEF PlayerLeaves, Reads
  <2>2. PICK i \in Nat : i = Event(c).player
    BY <2>1, EventKinds
  <2>3. /\ roster'[c] = SubSeq(roster[c], 1, i) \o SubSeq(roster[c], i + 2, Len(roster[c]))
        /\ me'[c] = IF me[c] > i THEN me[c] - 1 ELSE me[c]
    BY <1>1, <1>8, <2>2 DEF PlayerLeaves
  <2>4. ~(i >= Len(roster[c])) /\ me[c] # i
    BY <2>1, <2>2 DEF Refuses, IsPlayerLocal
  <2>6. PICK m \in Nat : m = me[c]
    BY <1>1, Ids
  <2>7. PICK q \in Seq(Conns) : q = roster[c]
    BY <1>1
  <2>8. i < Len(q) /\ m < Len(q) /\ q[m + 1] = c /\ m # i
    <3>1. Len(q) \in Nat
      BY LenProperties
    <3> QED
      BY <2>1, <2>4, <2>6, <2>7, <3>1 DEF MeAt, Settled
  <2>9. PICK r : r = SubSeq(q, 1, i) \o SubSeq(q, i + 2, Len(q))
    OBVIOUS
  <2>10. PICK m2 : m2 = IF m > i THEN m - 1 ELSE m
    OBVIOUS
  <2>a. (m > i => m2 = m - 1) /\ (m <= i => m2 = m)
    BY <2>2, <2>10
  <2>11. m2 < Len(r) /\ r[m2 + 1] = c
    <3>1. /\ Len(r) = Len(q) - 1 /\ Len(q) \in Nat
          /\ \A n \in 1..(Len(q) - 1) : r[n] = q[IF n <= i THEN n ELSE n + 1]
      BY <2>8, <2>9, CutOut, LenProperties
    <3>2. m2 + 1 \in 1..(Len(q) - 1) /\ m2 < Len(q) - 1
      BY <2>8, <2>a, <3>1
    <3>3. (IF m2 + 1 <= i THEN m2 + 1 ELSE (m2 + 1) + 1) = m + 1
      BY <2>8, <2>a
    <3> QED
      BY <2>8, <3>1, <3>2, <3>3
  <2>12. roster'[c] = r /\ me'[c] = m2
    BY <2>3, <2>6, <2>7, <2>9, <2>10
  <2> QED
    BY <2>11, <2>12 DEF MeAt
<1> QED
  BY <1>2, <1>3, <1>4, <1>5, <1>6, <1>7, <1>8
  DEF ClientStep, ReadsEvent, UserActs, GivesUp, ClientLosesServer, ClientLeaves

\* The settings, modes and player ids of a console are such.
LEMMA OwnTypes ==
  ASSUME ClientTypeOK, NEW c \in Conns, ClientStep(c), HasEvent(c) => Event(c) \in Events,
         roster[c] \in Rosters
  PROVE  /\ rules' \in [Conns -> Conns \cup {NoConn}] /\ mode' \in [Conns -> 0..2]
         /\ me' \in [Conns -> PlayerIds \cup {NoOrder}]
<1>1. /\ rules \in [Conns -> Conns \cup {NoConn}] /\ mode \in [Conns -> 0..2]
      /\ me \in [Conns -> PlayerIds \cup {NoOrder}]
  BY DEF ClientTypeOK
<1>2. CASE RoomStarts(c)
  <2>1. /\ UNCHANGED <<rules, me>> /\ mode' = [mode EXCEPT ![c] = Event(c).mode]
        /\ HasEvent(c) /\ Event(c).type = "start" /\ cstate[c] = "main" /\ ~Refuses(c, Event(c))
    BY <1>2 DEF RoomStarts, Reads
  <2>2. Event(c).mode \in Nat
    <3>1. PICK g \in Gamemodes \cup {0} : g = Event(c).mode
      BY <2>1, EventKinds
    <3>2. Gamemodes \subseteq Nat
      BY RoomAssumption
    <3> QED
      BY <3>1, <3>2
  <2>3. ~(Event(c).mode >= 3)
    BY <2>1 DEF Refuses
  <2>4. Event(c).mode \in 0..2
    BY <2>2, <2>3
  <2> QED
    BY <1>1, <2>1, <2>4
<1>3. CASE SetupEnds(c)
  <2>1. /\ UNCHANGED mode /\ me' = [me EXCEPT ![c] = Len(roster[c])]
        /\ rules' = [rules EXCEPT ![c] = IF roster[c] = <<>> THEN c ELSE Event(c).of]
        /\ HasEvent(c) /\ Event(c).type = "settings"
    BY <1>3 DEF SetupEnds, Reads
  <2>2. Event(c).of \in Conns
    BY <2>1, EventKinds
  <2>3. Len(roster[c]) \in PlayerIds \cup {NoOrder}
    <3>1. Len(roster[c]) \in Nat /\ Len(roster[c]) <= MaxPlayers
      BY LenProperties DEF Rosters
    <3> QED
      BY <3>1, Facts, Ids
  <2> QED
    BY <1>1, <2>1, <2>2, <2>3
<1>4. CASE PlayerLeaves(c)
  <2>1. /\ UNCHANGED <<mode, rules>> /\ HasEvent(c) /\ Event(c).type = "leave"
    BY <1>4 DEF PlayerLeaves, Reads
  <2>2. PICK i \in Nat : i = Event(c).player
    BY <2>1, EventKinds
  <2>3. me' = [me EXCEPT ![c] = IF me[c] > i THEN me[c] - 1 ELSE me[c]]
    BY <1>4, <2>2 DEF PlayerLeaves
  <2>4. PICK m \in 0..MaxPlayers : m = me[c]
    BY <1>1, Ids
  <2>5. (IF m > i THEN m - 1 ELSE m) \in 0..MaxPlayers
    BY Facts
  <2>6. (IF me[c] > i THEN me[c] - 1 ELSE me[c]) \in PlayerIds \cup {NoOrder}
    BY <2>4, <2>5, Ids
  <2> QED
    BY <1>1, <2>1, <2>3, <2>6
<1>5. CASE \/ OpenRoomPage(c) \/ SendComment(c) \/ StartRoom(c) \/ ChangeLocalSettings(c)
           \/ SettingsAreSent(c) \/ SendTeamSelect(c) \/ SendVote(c) \/ Destroy(c)
           \/ ClientConnects(c)
  <2>1. UNCHANGED <<rules, mode, me>>
    BY <1>5 DEF OpenRoomPage, SendComment, StartRoom, ChangeLocalSettings, SettingsAreSent,
      SendTeamSelect, SendVote, Destroy, ClientConnects, clientVars
  <2> QED
    BY <1>1, <2>1
<1>6. CASE \/ PlayerJoins(c) \/ CommentArrives(c) \/ TeamSelectIgnores(c) \/ PulseArrives(c)
           \/ InfoArrives(c)
  <2>1. UNCHANGED <<rules, mode, me>>
    BY <1>6 DEF PlayerJoins, CommentArrives, TeamSelectIgnores, PulseArrives, InfoArrives
  <2> QED
    BY <1>1, <2>1
<1> QED
  BY <1>2, <1>3, <1>4, <1>5, <1>6
  DEF ClientStep, ReadsEvent, UserActs, GivesUp, ClientLosesServer, ClientLeaves

\* So is what it knows of the votes.
LEMMA VoteTypes ==
  ASSUME ClientTypeOK, NEW c \in Conns, ClientStep(c), HasEvent(c) => Event(c) \in Events,
         roster[c] \in Rosters, cstate[c] = "select" => pulses[c] \in 0..MaxPlayers
  PROVE  /\ order' \in [Conns -> [PlayerIds -> PlayerIds \cup {NoOrder}]]
         /\ pulses' \in [Conns -> Nat]
         /\ info' \in [Conns -> [votes : Seq(Courses), selected : Nat]]
<1>1. /\ order \in [Conns -> [PlayerIds -> PlayerIds \cup {NoOrder}]]
      /\ pulses \in [Conns -> Nat]
      /\ info \in [Conns -> [votes : Seq(Courses), selected : Nat]]
  BY DEF ClientTypeOK
<1>2. CASE PulseArrives(c)
  <2>1. /\ UNCHANGED info /\ pulses' = [pulses EXCEPT ![c] = @ + 1]
        /\ order' = [order EXCEPT ![c][Event(c).player] = pulses[c]]
        /\ cstate[c] = "select"
    BY <1>2 DEF PulseArrives, Reads
  <2>2. PICK v \in PlayerIds \cup {NoOrder} : v = pulses[c]
    BY <2>1, Ids
  <2>3. PICK p : p = Event(c).player
    OBVIOUS
  <2>4. PICK f \in [PlayerIds -> PlayerIds \cup {NoOrder}] : f = order[c]
    BY <1>1
  <2>5. [f EXCEPT ![p] = v] \in [PlayerIds -> PlayerIds \cup {NoOrder}]
    OBVIOUS
  <2>6. order' = [order EXCEPT ![c] = [f EXCEPT ![p] = v]]
    BY <2>1, <2>2, <2>3, <2>4
  <2>7. order' \in [Conns -> [PlayerIds -> PlayerIds \cup {NoOrder}]]
    BY <1>1, <2>5, <2>6
  <2> QED
    BY <1>1, <2>1, <2>7
<1>3. CASE InfoArrives(c)
  <2>1. /\ UNCHANGED <<order, pulses>> /\ HasEvent(c) /\ Event(c).type = "selectInfo"
        /\ info' = [info EXCEPT ![c] = [votes |-> Event(c).votes, selected |-> Event(c).selected]]
    BY <1>3 DEF InfoArrives, Reads
  <2>2. Event(c).votes \in Seq(Courses) /\ Event(c).selected \in Nat
    BY <2>1, EventKinds
  <2> QED
    BY <1>1, <2>1, <2>2
<1>4. CASE \/ OpenRoomPage(c) \/ SendComment(c) \/ StartRoom(c) \/ ChangeLocalSettings(c)
           \/ SettingsAreSent(c) \/ SendTeamSelect(c) \/ SendVote(c) \/ Destroy(c)
           \/ ClientConnects(c)
  <2>1. UNCHANGED <<order, pulses, info>>
    BY <1>4 DEF OpenRoomPage, SendComment, StartRoom, ChangeLocalSettings, SettingsAreSent,
      SendTeamSelect, SendVote, Destroy, ClientConnects, clientVars
  <2> QED
    BY <1>1, <2>1
<1>5. CASE \/ PlayerJoins(c) \/ SetupEnds(c) \/ PlayerLeaves(c) \/ CommentArrives(c)
           \/ RoomStarts(c) \/ TeamSelectIgnores(c)
  <2>1. UNCHANGED <<order, pulses, info>>
    BY <1>5 DEF PlayerJoins, SetupEnds, PlayerLeaves, CommentArrives, RoomStarts,
      TeamSelectIgnores
  <2> QED
    BY <1>1, <2>1
<1> QED
  BY <1>2, <1>3, <1>4, <1>5
  DEF ClientStep, ReadsEvent, UserActs, GivesUp, ClientLosesServer, ClientLeaves

\* And the roster.
LEMMA RosterTypes ==
  ASSUME ClientTypeOK, NEW c \in Conns, ClientStep(c), roster'[c] \in Rosters
  PROVE  roster' \in [Conns -> Seq(Conns)]
<1>1. roster \in [Conns -> Seq(Conns)]
  BY DEF ClientTypeOK
<1>2. CASE PlayerJoins(c) \/ SetupEnds(c) \/ PlayerLeaves(c)
  <2>1. PICK q : roster' = [roster EXCEPT ![c] = q]
    BY <1>2 DEF PlayerJoins, SetupEnds, PlayerLeaves
  <2>2. q \in Seq(Conns)
    BY <1>1, <2>1 DEF Rosters
  <2> QED
    BY <1>1, <2>1, <2>2
<1>3. CASE \/ OpenRoomPage(c) \/ SendComment(c) \/ StartRoom(c) \/ ChangeLocalSettings(c)
           \/ SettingsAreSent(c) \/ SendTeamSelect(c) \/ SendVote(c) \/ Destroy(c)
           \/ ClientConnects(c)
  <2>1. UNCHANGED roster
    BY <1>3 DEF OpenRoomPage, SendComment, StartRoom, ChangeLocalSettings, SettingsAreSent,
      SendTeamSelect, SendVote, Destroy, ClientConnects, clientVars
  <2> QED
    BY <1>1, <2>1
<1>4. CASE CommentArrives(c) \/ RoomStarts(c) \/ TeamSelectIgnores(c) \/ PulseArrives(c) \/ InfoArrives(c)
  <2>1. UNCHANGED roster
    BY <1>4 DEF CommentArrives, RoomStarts, TeamSelectIgnores, PulseArrives, InfoArrives
  <2> QED
    BY <1>1, <2>1
<1> QED
  BY <1>2, <1>3, <1>4
  DEF ClientStep, ReadsEvent, UserActs, GivesUp, ClientLosesServer, ClientLeaves

\* The room, its consoles, and what connects them.
Knowledge == \E h, b : History(h) /\ Streams(h, b) /\ Readers(h, b)

OnlineInv == RoomInv /\ ConsoleInv /\ DrawInv /\ ClientTypeOK /\ KnowsItself /\ Knowledge

\* A step of a console.
LEMMA OnlineClient ==
  ASSUME OnlineInv, RoomInv', ConsoleInv', NEW c \in Conns, ClientStep(c)
  PROVE  OnlineInv'
<1>1. RoomInv /\ ConsoleInv /\ DrawInv /\ ClientTypeOK /\ KnowsItself
  BY DEF OnlineInv
<1>2. PICK h, b : History(h) /\ Streams(h, b) /\ Readers(h, b)
  BY DEF OnlineInv, Knowledge
<1>3. DrawInv' /\ History(h)' /\ Streams(h, b)' /\ Readers(h, b)'
  BY <1>1, <1>2, ClientGoesOn
<1>4. PICK m : m = b[c]
  OBVIOUS
<1>5. StreamAt(h, m, c) /\ ReaderAt(h, m, c)
  BY <1>2, <1>4, StreamByStream DEF Readers
<1>6. HasEvent(c) => Event(c) \in Events
  BY <1>1, <1>2, <1>5, NextEvent
<1>7. roster[c] \in Rosters
  BY <1>1, <1>2, <1>5, RosterFits
<1>8. roster'[c] \in Rosters
  <2>1. StreamAt(h, m, c)' /\ ReaderAt(h, m, c)'
    BY <1>3, <1>4, StreamByStreamNext DEF Readers
  <2> QED
    BY <1>3, <2>1, RosterFitsNext
<1>9. cstate[c] = "select" => pulses[c] \in 0..MaxPlayers
  <2>1. SUFFICES ASSUME cstate[c] = "select"
                 PROVE  pulses[c] \in 0..MaxPlayers
    OBVIOUS
  <2>2. PICK n : n = Place(h, m, taken[c])
    OBVIOUS
  <2>3. key[c] # NoKey /\ pulses[c] = h[n].pulses /\ ~(taken[c] < Size(h, m))
    BY <1>5, <2>1, <2>2 DEF ReaderAt, Settled
  <2>4. n \in 0..Len(log) /\ Hist(log, h)
    <3>1. /\ Hist(log, h) /\ m \in 1..Len(log) /\ Size(h, m) \in Nat /\ taken[c] \in Nat
          /\ Len(log) \in Nat
          /\ taken[c] >= Size(h, m) => Place(h, m, taken[c]) \in m..Len(log)
      BY <1>1, <1>2, <1>5, <2>3, WhereItIs
    <3> QED
      BY <2>2, <2>3, <3>1
  <2> QED
    BY <2>3, <2>4 DEF Hist, Story
<1>10. ClientTypeOK'
  <2>1. /\ rules' \in [Conns -> Conns \cup {NoConn}] /\ mode' \in [Conns -> 0..2]
        /\ me' \in [Conns -> PlayerIds \cup {NoOrder}]
    BY <1>1, <1>6, <1>7, OwnTypes
  <2>2. /\ order' \in [Conns -> [PlayerIds -> PlayerIds \cup {NoOrder}]]
        /\ pulses' \in [Conns -> Nat]
        /\ info' \in [Conns -> [votes : Seq(Courses), selected : Nat]]
    BY <1>1, <1>6, <1>7, <1>9, VoteTypes
  <2>3. roster' \in [Conns -> Seq(Conns)]
    BY <1>1, <1>8, RosterTypes
  <2> QED
    BY <2>1, <2>2, <2>3 DEF ClientTypeOK, ConsoleInv, Steered, TakenOK
<1>11. KnowsItself'
  <2>1. \A d \in Conns : MeAt(d)
    BY <1>1 DEF KnowsItself, MeAt, Settled
  <2>2. ASSUME NEW d \in Conns
        PROVE  MeAt(d)'
    <3>1. CASE d = c
      BY <1>1, <1>6, <2>1, <3>1, KnowsItStill
    <3>2. CASE d # c
      <4>1. cstate'[d] = cstate[d] /\ roster'[d] = roster[d] /\ me'[d] = me[d]
        BY <1>1, <3>2, OwnMemory
      <4> QED
        BY <2>1, <4>1 DEF MeAt
    <3> QED
      BY <3>1, <3>2
  <2> QED
    BY <2>2 DEF KnowsItself, MeAt, Settled
<1>12. Knowledge'
  BY <1>3 DEF Knowledge
<1> QED
  BY <1>3, <1>10, <1>11, <1>12 DEF OnlineInv

\* Any step of the composition.
LEMMA OnlineInductive ==
  ASSUME OnlineInv, [OnlineNext]_allVars
  PROVE  OnlineInv'
<1>1. RoomInv /\ ConsoleInv /\ DrawInv /\ ClientTypeOK /\ KnowsItself
  BY DEF OnlineInv
<1>2. RoomInv' /\ ConsoleInv'
  BY <1>1, OnlineRoomStep, ConsoleInductive
<1>3. PICK h, b : History(h) /\ Streams(h, b) /\ Readers(h, b)
  BY DEF OnlineInv, Knowledge
<1>4. CASE ServerActs
  <2>1. ServerStep /\ UNCHANGED clientVars
    BY <1>4 DEF ServerActs
  <2>2. DrawInv'
    BY <1>1, <2>1, DrawInductive DEF Next
  <2>3. Knowledge'
    BY <1>1, <1>2, <1>3, <2>1, ServerGoesOn DEF Knowledge
  <2>4. ClientTypeOK' /\ KnowsItself'
    BY <1>1, <2>1 DEF ClientTypeOK, KnowsItself, clientVars
  <2> QED
    BY <1>2, <2>2, <2>3, <2>4 DEF OnlineInv
<1>5. CASE \E c \in Conns : ClientStep(c)
  BY <1>2, <1>5, OnlineClient
<1>6. CASE UNCHANGED allVars
  <2>1. UNCHANGED <<vars, clientVars>>
    BY <1>6 DEF allVars
  <2>2. DrawInv'
    BY <1>1, <2>1, DrawInductive
  <2>3. ClientTypeOK' /\ KnowsItself'
    BY <1>1, <2>1 DEF ClientTypeOK, KnowsItself, clientVars
  <2>4. /\ UNCHANGED <<log, players, task, key, greeting, cursor, toClient>>
        /\ UNCHANGED <<cstate, taken, roster, order, pulses, info>>
    BY <2>1 DEF vars, roomVars, chanVars, taskVars, wireVars, clientVars
  <2>5. History(h)'
    BY <1>3, <2>4, HistoryStays
  <2>6. Streams(h, b)'
    BY <1>3, <2>4 DEF Streams
  <2>7. Readers(h, b)'
    <3>1. ASSUME NEW c \in Conns
          PROVE  ReaderAt(h, b[c], c)'
      <4>1. PICK m : m = b[c]
        OBVIOUS
      <4>2. ReaderAt(h, m, c)
        BY <1>3, <4>1 DEF Readers
      <4>3. ReaderAt(h, m, c)'
        BY <2>4, <4>2, ReaderIdles
      <4> QED
        BY <4>1, <4>3
    <3> QED
      BY <3>1 DEF Readers
  <2>8. Knowledge'
    BY <2>5, <2>6, <2>7 DEF Knowledge
  <2> QED
    BY <1>2, <2>2, <2>3, <2>8 DEF OnlineInv
<1> QED
  BY <1>4, <1>5, <1>6 DEF OnlineNext

\* The composition starts in it.
LEMMA OnlineInvInit ==
  ASSUME OnlineInit
  PROVE  OnlineInv
<1>1. RoomInv /\ ConsoleInv
  BY InitInv, ConsoleInvInit DEF OnlineInit
<1>2. log = <<>> /\ players = <<>> /\ Len(log) = 0 /\ Len(players) = 0
  BY EmptySeq DEF OnlineInit, Init
<1>3. DrawInv
  BY <1>2, NoEventsYet DEF OnlineInit, Init
<1>4. ClientTypeOK
  <2>1. NoInfo \in [votes : Seq(Courses), selected : Nat]
    BY EmptySeq DEF NoInfo
  <2>2. <<>> \in Seq(Conns)
    BY EmptySeq
  <2>3. [i \in PlayerIds |-> NoOrder] \in [PlayerIds -> PlayerIds \cup {NoOrder}]
    OBVIOUS
  <2> QED
    BY <2>1, <2>2, <2>3 DEF OnlineInit, ClientInit, ClientTypeOK
<1>5. KnowsItself
  BY DEF OnlineInit, ClientInit, KnowsItself
<1> DEFINE h == [n \in {0} |-> Beginning]
           b == [c \in Conns |-> 0]
<1>6. h[0] = Beginning
  OBVIOUS
<1> HIDE DEF h, b
<1>7. Beginning \in Story
  <2>1. PICK q \in Seq(Conns) : q = <<>>
    BY EmptySeq
  <2>2. q \in Rosters
    BY <2>1, EmptySeq, Facts DEF Rosters
  <2>3. NoOrders \in [PlayerIds -> PlayerIds \cup {NoOrder}] /\ 0 \in 0..MaxPlayers
    BY Facts DEF NoOrders
  <2> QED
    BY <2>1, <2>2, <2>3 DEF Beginning, Story
<1>8. Hist(log, h)
  <2>1. \A n \in 0..Len(log) : n = 0
    BY <1>2
  <2>2. 1..Len(log) = {}
    BY <1>2
  <2> QED
    BY <1>6, <1>7, <2>1, <2>2 DEF Hist
<1>9. Voters = {} /\ Roster = <<>>
  <2>1. \A n \in 1..Len(players) : players[n].vote = NoVote
    BY <1>2
  <2>2. Roster \in Seq(Conns) /\ Len(Roster) = 0
    BY <1>1, <1>2, RosterTyped DEF RoomInv
  <2> QED
    BY <1>1, <2>1, <2>2, NoVotersYet, EmptySeq DEF RoomInv
<1>10. Now(h[0])
  <2>1. Cardinality(Voters) = 0 /\ 0..(0 - 1) = {}
    BY <1>9, FS_EmptySet
  <2> QED
    BY <1>6, <1>9, <2>1 DEF Now, Beginning
<1>11. History(h)
  BY <1>2, <1>8, <1>10 DEF History
<1>12. Streams(h, b)
  BY DEF OnlineInit, Init, Streams
<1>13. Readers(h, b)
  BY DEF OnlineInit, Init, ClientInit, Readers, ReaderAt, Blank, Settled, NoOrders
<1>14. Knowledge
  BY <1>11, <1>12, <1>13 DEF Knowledge
<1> QED
  BY <1>1, <1>3, <1>4, <1>5, <1>14 DEF OnlineInv

\* The consoles, the streams to them and the room behind them fit together, always.
THEOREM OnlineInvariantHolds == OnlineSpec => []OnlineInv
<1>1. OnlineInit => OnlineInv
  BY OnlineInvInit
<1>2. OnlineInv /\ [OnlineNext]_allVars => OnlineInv'
  BY OnlineInductive
<1> QED
  BY <1>1, <1>2, PTL DEF OnlineSpec

\* What a console keeps stays within its type, whatever it is sent.
THEOREM ConsolesTyped == OnlineSpec => []ClientTypeOK
<1>1. OnlineInv => ClientTypeOK
  BY DEF OnlineInv
<1> QED
  BY <1>1, OnlineInvariantHolds, PTL

\* Once all have voted, every player of the room is a voter.
LEMMA AllVoted ==
  ASSUME RoomInv, DrawInv, NEW n \in 1..Len(log), log[n].type = "selectInfo",
         Len(players) <= MaxPlayers
  PROVE  /\ Voters = 0..(Len(players) - 1) /\ Cardinality(Voters) = Len(players)
         /\ Len(log[n].votes) = Len(players) /\ n = Len(log)
<1>1. /\ n = Len(log)
      /\ log[n].votes = [i \in 1..Len(players) |-> players[i].vote]
      /\ \A i \in 1..Len(players) : players[i].vote \in ModeCourses
  BY DEF DrawInv, OutcomeStands
<1>2. Len(players) \in Nat
  BY Typed DEF RoomInv
<1>3. NoVote \notin ModeCourses
  BY RoomAssumption DEF ModeCourses, Courses
<1>4. Voters = 0..(Len(players) - 1)
  <2>1. \A p \in 0..(Len(players) - 1) : p \in PlayerIds /\ p + 1 \in 1..Len(players) /\ p < Len(players)
    BY <1>2, Facts DEF PlayerIds
  <2>2. \A p \in PlayerIds : p < Len(players) => p \in 0..(Len(players) - 1)
    BY <1>2, Facts DEF PlayerIds
  <2>3. \A p \in 0..(Len(players) - 1) : players[p + 1].vote # NoVote
    BY <1>1, <1>3, <2>1
  <2> QED
    BY <2>1, <2>2, <2>3 DEF Voters
<1>5. Cardinality(0..(Len(players) - 1)) = Len(players)
  <2>1. PICK m \in Nat : m = Len(players)
    BY <1>2
  <2>2. PICK k \in Int : k = m - 1
    OBVIOUS
  <2>3. Cardinality(0..k) = IF 0 > k THEN 0 ELSE k - 0 + 1
    BY FS_Interval
  <2>4. (IF 0 > k THEN 0 ELSE k - 0 + 1) = m
    BY <2>2
  <2> QED
    BY <2>1, <2>2, <2>3, <2>4
<1>6. Len(log[n].votes) = Len(players)
  <2>1. PICK f : f = log[n].votes
    OBVIOUS
  <2>2. f \in [1..Len(players) -> ModeCourses]
    BY <1>1, <2>1
  <2>3. f \in Seq(ModeCourses)
    BY <1>2, <2>2, SeqDef
  <2>4. Len(f) \in Nat /\ DOMAIN f = 1..Len(f)
    BY <2>3, LenProperties
  <2>5. 1..Len(f) = 1..Len(players)
    BY <2>2, <2>4
  <2>6. Len(f) = Len(players)
    BY <1>2, <2>4, <2>5
  <2> QED
    BY <2>1, <2>6
<1> QED
  BY <1>1, <1>4, <1>5, <1>6

\* What consoles know of the outcome is what the log says at its end.
LEMMA OutcomeKnown ==
  ASSUME OnlineInv
  PROVE  ConsolesAgree
<1>1. RoomInv /\ ConsoleInv /\ DrawInv
  BY DEF OnlineInv
<1>2. PICK h, b : History(h) /\ Streams(h, b) /\ Readers(h, b)
  BY DEF OnlineInv, Knowledge
<1>3. /\ Len(log) \in 0..Len(log) /\ Hist(log, h) /\ Now(h[Len(log)])
      /\ Len(players) \in Nat
  BY <1>1, <1>2, Typed DEF RoomInv, History
<1>4. PICK q \in Story : q = h[Len(log)]
  BY <1>3 DEF Hist
<1>5. /\ q.roster = Roster /\ q.pulses = Cardinality(Voters)
      /\ {q.order[p] : p \in Voters} = 0..(q.pulses - 1)
      /\ Len(q.roster) = Len(players) /\ Len(players) <= MaxPlayers
  <2>1. /\ q.roster = Roster /\ q.pulses = Cardinality(Voters)
        /\ {q.order[p] : p \in Voters} = 0..(q.pulses - 1)
    BY <1>3, <1>4 DEF Now
  <2>2. Len(Roster) = Len(players)
    BY <1>1, RosterTyped DEF RoomInv
  <2>3. Len(q.roster) <= MaxPlayers
    BY <1>4 DEF Story, Rosters
  <2> QED
    BY <2>1, <2>2, <2>3
<1>6. ASSUME NEW c \in Conns, info[c] # NoInfo
      PROVE  /\ info[c] = [votes |-> log[Len(log)].votes, selected |-> log[Len(log)].selected]
             /\ roster[c] = q.roster /\ order[c] = q.order
             /\ Len(info[c].votes) = Len(players) /\ Voters = 0..(Len(players) - 1)
             /\ Cardinality(Voters) = Len(players)
  <2>1. PICK m : m = b[c]
    OBVIOUS
  <2>2. PICK n : n = Place(h, m, taken[c])
    OBVIOUS
  <2>3. ReaderAt(h, m, c) /\ StreamAt(h, m, c)
    BY <1>2, <2>1, StreamByStream DEF Readers
  <2>4. key[c] # NoKey /\ taken[c] >= Size(h, m) /\ Told(h, n, c)
    BY <1>6, <2>2, <2>3 DEF ReaderAt
  <2>5. /\ n \in 1..Len(log) /\ log[n].type = "selectInfo"
        /\ info[c] = [votes |-> log[n].votes, selected |-> log[n].selected]
        /\ order[c] = h[n].order
    BY <2>4 DEF Told
  <2>6. /\ Voters = 0..(Len(players) - 1) /\ Cardinality(Voters) = Len(players)
        /\ Len(log[n].votes) = Len(players) /\ n = Len(log)
    BY <1>1, <1>5, <2>5, AllVoted
  <2>7. roster[c] = q.roster
    <3>1. Size(h, m) \in Nat /\ taken[c] \in Nat
      BY <1>1, <1>2, <2>3, <2>4, WhereItIs
    <3>2. ~(taken[c] < Size(h, m))
      BY <2>4, <3>1
    <3>3. roster[c] = h[n].roster
      BY <2>2, <2>3, <2>4, <3>2 DEF ReaderAt, Known
    <3> QED
      BY <1>4, <2>6, <3>3
  <2> QED
    BY <1>4, <2>5, <2>6, <2>7
<1> SUFFICES ASSUME NEW c \in Conns, NEW d \in Conns, info[c] # NoInfo, info[d] # NoInfo
             PROVE  /\ info[c] = info[d] /\ roster[c] = roster[d] /\ order[c] = order[d]
                    /\ Len(info[c].votes) = Len(roster[c])
                    /\ {order[c][i] : i \in 0..(Len(roster[c]) - 1)} = 0..(Len(roster[c]) - 1)
  BY DEF ConsolesAgree
<1>7. info[c] = info[d] /\ roster[c] = roster[d] /\ order[c] = order[d]
  BY <1>6
<1>8. Len(info[c].votes) = Len(roster[c]) /\ Len(roster[c]) = Len(players)
  BY <1>5, <1>6
<1>9. {order[c][i] : i \in 0..(Len(roster[c]) - 1)} = 0..(Len(roster[c]) - 1)
  BY <1>5, <1>6, <1>8
<1> QED
  BY <1>7, <1>8, <1>9

\* All consoles that know the outcome of a vote agree on it, on who the players are,
\* and on the order in which the votes were announced: whenever they joined, and
\* however far their streams are behind each other.
THEOREM OutcomeIsShared == OnlineSpec => []ConsolesAgree
BY OutcomeKnown, OnlineInvariantHolds, PTL

-------------------------------------------------------------------------------
\* Among numbers there is a least.
LEMMA HasLeast ==
  ASSUME NEW S \in SUBSET Nat, S # {}
  PROVE  \E n \in S : \A m \in S : n <= m
<1>1. PICK x \in S : TRUE
  OBVIOUS
<1>2. IsWellFoundedOn(OpToRel(<, Nat), Nat)
  BY NatLessThanWellFounded
<1>3. PICK n \in S : \A m \in S : ~(<<m, n>> \in OpToRel(<, Nat))
  BY <1>1, <1>2, WFMin
<1>4. ASSUME NEW m \in S
      PROVE  n <= m
  <2>1. ~(m < n)
    BY <1>3, <1>4 DEF OpToRel
  <2> QED
    BY <2>1
<1> QED
  BY <1>4

\* The rosters that the events of E make of the roster r, one after the other.
Replays(f, c, r, E, N) ==
  f = [n \in 0..N |-> IF n = 0 THEN r ELSE Replay(c, f[n - 1], E[n])]

\* What events make of a roster is one thing only.
LEMMA OneReplay ==
  ASSUME NEW N \in Nat, NEW E, NEW c, NEW r, NEW f, NEW g,
         Replays(f, c, r, E, N), Replays(g, c, r, E, N)
  PROVE  \A n \in 0..N : f[n] = g[n]
<1> DEFINE S == {n \in 0..N : f[n] # g[n]}
<1>1. SUFFICES ASSUME S # {}
               PROVE  FALSE
  OBVIOUS
<1>2. S \in SUBSET Nat
  OBVIOUS
<1>3. PICK n \in S : \A m \in S : n <= m
  BY <1>1, <1>2, HasLeast
<1>4. /\ f[0] = r /\ \A m \in 1..N : f[m] = Replay(c, f[m - 1], E[m])
      /\ g[0] = r /\ \A m \in 1..N : g[m] = Replay(c, g[m - 1], E[m])
  BY DEF Replays
<1>5. CASE n = 0
  BY <1>3, <1>4, <1>5
<1>6. CASE n # 0
  <2>1. n \in 1..N /\ n - 1 \in 0..N /\ ~(n <= n - 1)
    BY <1>6
  <2>2. f[n - 1] = g[n - 1]
    BY <1>3, <2>1
  <2>3. f[n] = g[n]
    BY <1>4, <2>1, <2>2
  <2> QED
    BY <2>3
<1> QED
  BY <1>5, <1>6

\* The roster a console will have, by the recursion that defines it.
LEMMA FinalIsReplayed ==
  ASSUME NEW c, NEW g, NEW E, E = Expected(c), NEW r, r = roster[c],
         Replays(g, c, r, E, Len(E))
  PROVE  \E f : Replays(f, c, r, E, Len(E)) /\ FinalRoster(c) = f[Len(E)]
<1> DEFINE K[n \in 0..Len(E)] == IF n = 0 THEN r ELSE Replay(c, K[n - 1], E[n])
<1>1. FinalRoster(c) = K[Len(E)]
  BY DEF FinalRoster
<1>2. K = [n \in 0..Len(E) |-> IF n = 0 THEN r ELSE Replay(c, K[n - 1], E[n])]
  BY DEF K, Replays
<1>3. Replays(K, c, r, E, Len(E))
  BY <1>2 DEF Replays
<1> QED
  BY <1>1, <1>3

\* A part of a sequence of events, up to its end.
LEMMA TheRest ==
  ASSUME NEW s \in Seq(Events), NEW t \in Nat, t <= Len(s)
  PROVE  LET r == SubSeq(s, t + 1, Len(s)) IN
         r \in Seq(Events) /\ Len(r) = Len(s) - t /\ \A i \in 1..(Len(s) - t) : r[i] = s[t + i]
<1>1. PICK m \in Nat : m = Len(s)
  BY LenProperties
<1>2. \A n \in (t + 1)..m : s[n] \in Events
  <2>1. \A n \in (t + 1)..m : n \in 1..m
    BY <1>1
  <2> QED
    BY <1>1, <2>1, ElementOfSeq
<1>3. PICK r : r = SubSeq(s, t + 1, m)
  OBVIOUS
<1>4. /\ r \in Seq(Events) /\ Len(r) = (IF t + 1 <= m THEN m - (t + 1) + 1 ELSE 0)
      /\ \A n \in 1..(m - (t + 1) + 1) : r[n] = s[(t + 1) + n - 1]
  BY <1>1, <1>2, <1>3, SubSeqProperties
<1>5. m - (t + 1) + 1 = m - t /\ (~(t + 1 <= m) => m - t = 0)
  BY <1>1
<1>6. \A n \in 1..(m - t) : n \in Nat
  BY <1>1
<1>7. \A n \in Nat : (t + 1) + n - 1 = t + n
  OBVIOUS
<1>8. r \in Seq(Events) /\ Len(r) = m - t /\ \A i \in 1..(m - t) : r[i] = s[t + i]
  BY <1>4, <1>5, <1>6, <1>7
<1> QED
  BY <1>1, <1>3, <1>8

\* The events on their way to a console, one after the other.
LEMMA OnTheirWay ==
  ASSUME RoomInv, ConsoleInv, NEW h, NEW b, NEW c \in Conns, History(h), StreamAt(h, b, c),
         key[c] # NoKey, NEW E, E = Expected(c)
  PROVE  /\ Len(E) = Size(h, b) + Len(log) - b - taken[c] /\ Len(E) \in Nat
         /\ \A n \in 1..Len(E) : IsNth(log, h, b, taken[c] + n, E[n])
<1>1. /\ toClient[c] \in Seq(Events) /\ greeting[c] \in Seq(Events)
      /\ log \in Seq(Events) /\ cursor[c] \in Nat /\ taken[c] \in Nat
      /\ taken[c] <= Len(toClient[c])
  BY StreamTyped DEF ConsoleInv, TakenOK
<1>2. PICK u \in Seq(Events) : u = toClient[c]
  BY <1>1
<1>3. PICK g \in Seq(Events) : g = greeting[c]
  BY <1>1
<1>4. PICK t \in Nat : t = taken[c]
  BY <1>1
<1>5. PICK k \in Nat : k = cursor[c]
  BY <1>1
<1>6. PICK S \in Nat : S = Size(h, b)
  BY WhereItIs
<1>7. PICK l \in Seq(Events) : l = log
  BY <1>1
<1>8. /\ b \in 1..Len(l) /\ b <= k /\ k <= Len(l) /\ Len(u \o g) = S + k - b
      /\ \A i \in 1..Len(u \o g) : IsNth(l, h, b, i, (u \o g)[i])
  BY <1>2, <1>3, <1>5, <1>6, <1>7 DEF StreamAt, Follows
<1>9. Len(u) \in Nat /\ Len(g) \in Nat /\ Len(l) \in Nat /\ t <= Len(u)
  BY <1>1, <1>2, <1>4, LenProperties
<1>10. PICK x : x = SubSeq(u, t + 1, Len(u))
  OBVIOUS
<1>11. PICK y : y = SubSeq(l, k + 1, Len(l))
  OBVIOUS
<1>12. x \in Seq(Events) /\ Len(x) = Len(u) - t /\ \A i \in 1..(Len(u) - t) : x[i] = u[t + i]
  BY <1>9, <1>10, TheRest
<1>13. y \in Seq(Events) /\ Len(y) = Len(l) - k /\ \A i \in 1..(Len(l) - k) : y[i] = l[k + i]
  BY <1>8, <1>11, TheRest
<1>14. /\ Len(u \o g) = Len(u) + Len(g)
       /\ \A i \in 1..(Len(u) + Len(g)) : (u \o g)[i] = IF i <= Len(u) THEN u[i] ELSE g[i - Len(u)]
  BY ConcatProperties
<1>15. PICK v : v = x \o g
  OBVIOUS
<1>16. /\ v \in Seq(Events) /\ Len(v) = Len(u) - t + Len(g)
       /\ \A i \in 1..(Len(u) - t + Len(g)) :
            v[i] = IF i <= Len(u) - t THEN x[i] ELSE g[i - (Len(u) - t)]
  <2>1. /\ v \in Seq(Events) /\ Len(v) = Len(x) + Len(g)
        /\ \A i \in 1..(Len(x) + Len(g)) : v[i] = IF i <= Len(x) THEN x[i] ELSE g[i - Len(x)]
    BY <1>12, <1>15, ConcatProperties
  <2> QED
    BY <1>12, <2>1
<1>17. /\ Len(E) = (Len(u) - t + Len(g)) + (Len(l) - k)
       /\ \A i \in 1..((Len(u) - t + Len(g)) + (Len(l) - k)) :
            E[i] = IF i <= Len(u) - t + Len(g) THEN v[i] ELSE y[i - (Len(u) - t + Len(g))]
  <2>1. E = v \o y
    BY <1>2, <1>3, <1>4, <1>5, <1>7, <1>10, <1>11, <1>15 DEF Expected
  <2>2. /\ Len(E) = Len(v) + Len(y)
        /\ \A i \in 1..(Len(v) + Len(y)) : E[i] = IF i <= Len(v) THEN v[i] ELSE y[i - Len(v)]
    <3>1. v \in Seq(Events) /\ y \in Seq(Events)
      BY <1>13, <1>16
    <3> QED
      BY <2>1, <3>1, ConcatProperties
  <2> QED
    BY <1>13, <1>16, <2>2
<1>18. PICK m \in Nat : m = Len(u) - t
  <2>1. PICK j \in Nat : j = Len(u)
    BY <1>9
  <2>2. t <= j
    BY <1>9, <2>1
  <2>3. j - t \in Nat
    BY <2>2
  <2> QED
    BY <2>1, <2>3
<1>19. PICK w \in Nat : w = Len(g)
  BY <1>9
<1>20. PICK L \in Nat : L = Len(l)
  BY <1>9
<1>21. t + m + w = S + k - b /\ k <= L /\ b <= k /\ b \in 1..L
  <2>1. PICK j \in Nat : j = Len(u)
    BY <1>9
  <2>2. j + w = S + k - b
    BY <1>8, <1>14, <1>19, <2>1
  <2>3. b \in 1..L /\ b <= k /\ k <= L
    BY <1>8, <1>20
  <2>4. m = j - t
    BY <1>18, <2>1
  <2> QED
    BY <2>2, <2>3, <2>4
<1>22. Len(E) = S + L - b - t /\ Len(E) = (m + w) + (L - k) /\ Len(E) \in Nat
  <2>1. Len(E) = (Len(u) - t + Len(g)) + (Len(l) - k)
    BY <1>17
  <2>2. Len(E) = (m + w) + (L - k)
    BY <2>1, <1>18, <1>19, <1>20
  <2>3. (m + w) + (L - k) \in Nat
    BY <1>21
  <2>4. (m + w) + (L - k) = S + L - b - t
    <3>1. b \in Int
      BY <1>21
    <3> QED
      BY <3>1, <1>21
  <2> QED
    BY <2>2, <2>3, <2>4
<1>23. ASSUME NEW n \in 1..Len(E)
       PROVE  IsNth(l, h, b, t + n, E[n])
  <2>1. n \in 1..((m + w) + (L - k)) /\ n \in Nat
    BY <1>22
  <2>2. CASE n <= m
    <3>1. n \in 1..m /\ n \in 1..(m + w) /\ t + n \in 1..(t + m) /\ t + n \in 1..(t + m + w)
      BY <2>1, <2>2
    <3>2. E[n] = u[t + n]
      BY <1>12, <1>16, <1>17, <1>18, <1>19, <1>20, <2>1, <2>2, <3>1
    <3>3. Len(u) = t + m /\ Len(u) + Len(g) = t + m + w
      BY <1>9, <1>18, <1>19
    <3>4. (u \o g)[t + n] = u[t + n]
      BY <1>14, <3>1, <3>3
    <3> QED
      BY <1>8, <1>14, <3>1, <3>2, <3>3, <3>4
  <2>3. CASE ~(n <= m) /\ n <= m + w
    <3>1. /\ n \in 1..(m + w) /\ t + n \in 1..(t + m + w) /\ ~(t + n <= t + m)
          /\ n - m = (t + n) - (t + m)
      BY <2>1, <2>3
    <3>2. E[n] = g[n - m]
      BY <1>16, <1>17, <1>18, <1>19, <1>20, <2>1, <2>3, <3>1
    <3>3. Len(u) = t + m /\ Len(u) + Len(g) = t + m + w
      BY <1>9, <1>18, <1>19
    <3>4. (u \o g)[t + n] = g[n - m]
      BY <1>14, <3>1, <3>3
    <3> QED
      BY <1>8, <1>14, <3>1, <3>2, <3>3, <3>4
  <2>4. CASE ~(n <= m + w)
    <3>1. n - (m + w) \in 1..(L - k)
      BY <1>21, <2>1, <2>4
    <3>2. E[n] = y[n - (m + w)]
      BY <1>17, <1>18, <1>19, <1>20, <2>1, <2>4
    <3>3. y[n - (m + w)] = l[k + (n - (m + w))]
      BY <1>13, <1>20, <3>1
    <3>4. k + (n - (m + w)) = b + (t + n) - S /\ t + n > S
      BY <1>21, <2>1, <2>4
    <3> QED
      BY <1>6, <3>2, <3>3, <3>4 DEF IsNth
  <2> QED
    BY <2>2, <2>3, <2>4
<1> QED
  BY <1>4, <1>6, <1>7, <1>20, <1>22, <1>23

\* A console's connection is in the room under a key of its own.
LEMMA HasItsKey ==
  ASSUME RoomInv, NEW c \in Conns, InRoom(c)
  PROVE  key[c] # NoKey
BY Facts DEF RoomInv, HeldOK, InRoom

\* What the server knows of the room, replayed: each event on its way to a console
\* takes what the console knows one further along the history.
LEMMA RosterIsReplayed ==
  ASSUME RoomInv, ConsoleInv, NEW h, NEW b, NEW c \in Conns, History(h), StreamAt(h, b, c),
         ReaderAt(h, b, c), key[c] # NoKey
  PROVE  FinalRoster(c) = Roster
<1>1. PICK E : E = Expected(c)
  OBVIOUS
<1>2. PICK t \in Nat : t = taken[c]
  BY DEF ConsoleInv, TakenOK
<1>3. /\ log \in Seq(Events) /\ Hist(log, h) /\ b \in 1..Len(log) /\ log[b] = JoinEvent(c)
      /\ Size(h, b) \in Nat /\ Size(h, b) > 0 /\ Len(log) \in Nat
      /\ Place(h, b, t) <= Len(log)
  BY <1>2, WhereItIs DEF Place
<1>4. PICK S \in Nat : S = Size(h, b)
  BY <1>3
<1>5. PICK L \in Nat : L = Len(log)
  BY <1>3
<1>6. /\ Len(E) = S + L - b - t /\ Len(E) \in Nat
      /\ \A n \in 1..Len(E) : IsNth(log, h, b, t + n, E[n])
  BY <1>1, <1>2, <1>4, <1>5, OnTheirWay
<1>7. PICK N \in Nat : N = Len(E)
  BY <1>6
<1>8. PICK g : g = [n \in 0..N |-> Known(h, b, t + n)]
  OBVIOUS
<1>9. PICK r : r = roster[c]
  OBVIOUS
<1>10. g[0] = r
  <2>1. r = Known(h, b, t)
    BY <1>2, <1>9 DEF ReaderAt
  <2>2. t + 0 = t /\ 0 \in 0..N
    OBVIOUS
  <2>3. g[0] = Known(h, b, t + 0)
    BY <1>8, <2>2
  <2> QED
    BY <2>1, <2>2, <2>3
<1>11. ASSUME NEW n \in 1..N
       PROVE  g[n] = Replay(c, g[n - 1], E[n])
  <2>1. PICK i \in Nat : i = t + (n - 1)
    OBVIOUS
  <2>2. i + 1 = t + n /\ n \in 0..N /\ n - 1 \in 0..N
    BY <2>1
  <2>3. g[n] = Known(h, b, i + 1) /\ g[n - 1] = Known(h, b, i)
    <3>1. g[n] = Known(h, b, t + n) /\ g[n - 1] = Known(h, b, t + (n - 1))
      BY <1>8, <2>2
    <3> QED
      BY <2>1, <2>2, <3>1
  <2>4. IsNth(log, h, b, i + 1, E[n])
    BY <1>6, <1>7, <2>2
  <2>5. Place(h, b, i) < Len(log)
    <3>1. b + i - S < L
      BY <1>3, <1>5, <1>6, <1>7, <2>1
    <3> QED
      BY <1>4, <1>5, <3>1 DEF Place
  <2> QED
    BY <1>3, <2>3, <2>4, <2>5, KnownOn
<1>12. Replays(g, c, r, E, N)
  <2> DEFINE G(n) == IF n = 0 THEN r ELSE Replay(c, g[n - 1], E[n])
  <2>1. \A n \in 0..N : g[n] = G(n)
    BY <1>10, <1>11
  <2>2. g = [n \in 0..N |-> g[n]]
    BY <1>8
  <2> QED
    BY <2>1, <2>2 DEF Replays
<1>13. PICK f : Replays(f, c, r, E, N) /\ FinalRoster(c) = f[N]
  BY <1>1, <1>7, <1>9, <1>12, FinalIsReplayed
<1>14. f[N] = g[N]
  BY <1>12, <1>13, OneReplay
<1>15. g[N] = Known(h, b, t + N)
  BY <1>8
<1>16. t + N >= S /\ b + (t + N) - S = L
  BY <1>3, <1>5, <1>6, <1>7
<1>17. Known(h, b, t + N) = h[L].roster
  BY <1>4, <1>16 DEF Known, Place
<1>18. h[L].roster = Roster
  BY <1>5 DEF History, Now
<1> QED
  BY <1>13, <1>14, <1>15, <1>17, <1>18

\* What the inductive invariant says of rosters.
LEMMA RosterKnown == OnlineInv => RosterFollowsRoom
<1>1. SUFFICES ASSUME OnlineInv
               PROVE  RosterFollowsRoom
  OBVIOUS
<1>2. PICK h, b : History(h) /\ Streams(h, b) /\ Readers(h, b)
  BY <1>1 DEF OnlineInv, Knowledge
<1>3. ASSUME NEW c \in Conns, Attached(c)
      PROVE  FinalRoster(c) = Roster
  <2>1. key[c] # NoKey
    BY <1>1, <1>3, HasItsKey DEF OnlineInv, Attached
  <2>2. StreamAt(h, b[c], c) /\ ReaderAt(h, b[c], c)
    BY <1>2 DEF Streams, StreamAt, Readers
  <2> QED
    BY <1>1, <1>2, <2>1, <2>2, RosterIsReplayed DEF OnlineInv
<1> QED
  BY <1>1, <1>3 DEF RosterFollowsRoom, Roster, OnlineInv

\* Whatever joins and departures are on their way to a console, and however many of
\* its greeting: once it has read them its roster is the players of the room, and it
\* knows which of them it is itself.
THEOREM RostersFollow == OnlineSpec => []RosterFollowsRoom
BY RosterKnown, OnlineInvariantHolds, PTL

-------------------------------------------------------------------------------
(***************************************************************************)
(* A room whose consoles send it no settings.  Nothing they send in the    *)
(* lobby is refused, so whoever is removed has gone, and its key has not   *)
(* been given to another before the room is told.                          *)
(***************************************************************************)
NoChange == \A c \in Conns : changed[c] # "sent"

\* A removal can only be asked for by the task of the client, at its end.
Departures ==
  /\ \A i \in 1..Len(disconnectRx) :
       clients[disconnectRx[i]] # NoConn /\ task[clients[disconnectRx[i]]] = "ended"
  /\ \A i, j \in 1..Len(disconnectRx) : disconnectRx[i] = disconnectRx[j] => i = j
  /\ \A c \in Conns : task[c] \in Present => clients[key[c]] = c
  /\ \A c \in Conns : aborted[c] => task[c] = "ended"

\* Room.settings is never assigned, so every client is a host.
Hosts == settings = NoConn /\ \A k \in Keys : clients[k] # NoConn => isHost[clients[k]]

LobbyTypes == {"none", "join", "comment", "start"}

\* What is on its way to the room while its lobby is open, and what is not.
LobbyQuiet ==
  phase = "lobby" =>
    /\ \A c \in Conns :
         /\ \A i \in 1..Len(toServer[c]) : toServer[c][i].type \in LobbyTypes
         /\ holding[c].type \in LobbyTypes
         /\ cstate[c] \notin {"teamSelect", "select"}
    /\ \A i \in 1..Len(readRx) : readRx[i].request.type \in LobbyTypes
    /\ \A i \in 1..Len(log) : log[i].type # "start"

Calm == phase # "panicked" /\ Departures /\ Hosts /\ LobbyQuiet

\* Tasks that go on, in a step that removes nobody and announces no departure.
LEMMA DeparturesStay ==
  ASSUME RoomInv, Departures, UNCHANGED <<clients, disconnectRx, aborted>>,
         \A c \in Conns : /\ task[c] = "ended" => task'[c] = "ended"
                          /\ task'[c] \in Present => task[c] \in Present /\ key'[c] = key[c]
  PROVE  Departures'
<1>1. \A i \in 1..Len(disconnectRx) : disconnectRx[i] \in Keys
  <2>1. disconnectRx \in Seq(Keys)
    BY Typed DEF RoomInv
  <2> QED
    BY <2>1, ElementOfSeq
<1>2. \A k \in Keys : clients[k] \in Conns \cup {NoConn}
  BY Typed DEF RoomInv
<1> QED
  BY <1>1, <1>2 DEF Departures

\* A task that tells the room of its end has been told nothing before.
LEMMA DeparturesEnd ==
  ASSUME RoomInv, Departures, NEW c \in Conns, TaskEnds(c), phase # "panicked"
  PROVE  Departures'
<1>1. /\ task[c] = "leave" /\ task' = [task EXCEPT ![c] = "ended"]
      /\ disconnectRx' = Append(disconnectRx, key[c])
      /\ UNCHANGED <<clients, key, aborted>>
  BY DEF TaskEnds, RoomAlive, roomVars
<1>2. disconnectRx \in Seq(Keys) /\ Len(disconnectRx) \in Nat /\ task \in [Conns -> TaskStates]
  BY Typed DEF RoomInv
<1>3. \A i \in 1..Len(disconnectRx) : disconnectRx[i] \in Keys
  BY <1>2, ElementOfSeq
<1>4. key[c] \in Keys /\ clients[key[c]] = c
  BY <1>1 DEF Present, RoomInv, ConnOK, Departures
<1>5. PICK k \in Keys : k = key[c]
  BY <1>4
<1>6. PICK m \in Nat : m = Len(disconnectRx)
  BY <1>2
<1>7. /\ Len(disconnectRx)' = m + 1
      /\ \A i \in 1..m : disconnectRx'[i] = disconnectRx[i]
      /\ disconnectRx'[m + 1] = k
  BY <1>1, <1>2, <1>5, <1>6, AppendProperties
<1>8. \A d \in Conns : task'[d] = IF d = c THEN "ended" ELSE task[d]
  BY <1>1, <1>2
<1>9. c # NoConn /\ \A j \in Keys : clients[j] # NoConn => clients[j] \in Conns
  BY Facts, Typed DEF RoomInv
<1>10. \A i \in 1..m : disconnectRx[i] # k
  BY <1>1, <1>4, <1>5, <1>6 DEF Departures
<1>11. \A i \in 1..(m + 1) : i = m + 1 \/ i \in 1..m
  BY <1>6
<1>12. \A i \in 1..(m + 1) :
         clients[disconnectRx'[i]] # NoConn /\ task'[clients[disconnectRx'[i]]] = "ended"
  BY <1>3, <1>4, <1>5, <1>6, <1>7, <1>8, <1>9, <1>11 DEF Departures
<1>13. \A i, j \in 1..(m + 1) : disconnectRx'[i] = disconnectRx'[j] => i = j
  BY <1>6, <1>7, <1>10, <1>11 DEF Departures
<1>14. \A d \in Conns : /\ task'[d] \in Present => clients[key[d]] = d
                        /\ aborted[d] => task'[d] = "ended"
  BY <1>8 DEF Departures, Present
<1> QED
  BY <1>1, <1>7, <1>12, <1>13, <1>14 DEF Departures

\* A newcomer is given a key of which no departure is under way.
LEMMA DeparturesJoin ==
  ASSUME RoomInv, Departures, LobbyConnect
  PROVE  Departures'
<1>1. PICK c \in Conns, k \in Keys :
        /\ task[c] = "queued" /\ clients[k] = NoConn
        /\ clients' = [clients EXCEPT ![k] = c]
        /\ key' = [key EXCEPT ![c] = k] /\ task' = [task EXCEPT ![c] = "greet"]
        /\ UNCHANGED <<disconnectRx, aborted>>
  BY LobbyConnectFacts
<1>2. /\ task \in [Conns -> TaskStates] /\ clients \in [Keys -> Conns \cup {NoConn}]
      /\ disconnectRx \in Seq(Keys) /\ key \in [Conns -> Keys \cup {NoKey}]
  BY Typed DEF RoomInv, TypeOK
<1>3. \A i \in 1..Len(disconnectRx) : disconnectRx[i] \in Keys
  BY <1>2, ElementOfSeq
<1>4. /\ \A d \in Conns : task'[d] = IF d = c THEN "greet" ELSE task[d]
      /\ \A d \in Conns : key'[d] = IF d = c THEN k ELSE key[d]
      /\ \A j \in Keys : clients'[j] = IF j = k THEN c ELSE clients[j]
  BY <1>1, <1>2
<1>5. \A i \in 1..Len(disconnectRx) :
        clients'[disconnectRx[i]] # NoConn /\ task'[clients'[disconnectRx[i]]] = "ended"
  <2>1. SUFFICES ASSUME NEW i \in 1..Len(disconnectRx)
                 PROVE  clients'[disconnectRx[i]] # NoConn /\ task'[clients'[disconnectRx[i]]] = "ended"
    OBVIOUS
  <2>2. PICK j \in Keys : j = disconnectRx[i]
    BY <1>3
  <2>3. clients[j] # NoConn /\ task[clients[j]] = "ended" /\ clients[j] \in Conns
    BY <1>2, <2>2 DEF Departures
  <2>4. j # k /\ clients[j] # c
    BY <1>1, <2>3
  <2> QED
    BY <1>4, <2>2, <2>3, <2>4
<1>6. ASSUME NEW d \in Conns
      PROVE  /\ task'[d] \in Present => clients'[key'[d]] = d
             /\ aborted[d] => task'[d] = "ended"
  <2>1. CASE d = c
    <3>1. ~aborted[c]
      BY <1>1 DEF Departures
    <3> QED
      BY <1>4, <2>1, <3>1
  <2>2. CASE d # c
    <3>1. SUFFICES ASSUME task[d] \in Present
                   PROVE  clients'[key[d]] = d
      BY <1>4, <2>2 DEF Departures
    <3>2. clients[key[d]] = d /\ key[d] \in Keys /\ d # NoConn
      BY <3>1, Facts DEF Departures, RoomInv, ConnOK
    <3> QED
      BY <1>1, <1>4, <3>2
  <2> QED
    BY <2>1, <2>2
<1> QED
  BY <1>1, <1>5, <1>6 DEF Departures

\* A removal takes the only departure of its key off the queue.
LEMMA DeparturesLeave ==
  ASSUME RoomInv, Departures, LobbyDisconnect
  PROVE  Departures' /\ \E k \in Keys : /\ clients[k] # NoConn /\ task[clients[k]] = "ended"
                                        /\ clients' = [clients EXCEPT ![k] = NoConn]
<1>1. disconnectRx \in Seq(Keys) /\ disconnectRx # <<>> /\ Len(disconnectRx) \in Nat
  BY Typed DEF RoomInv, LobbyDisconnect
<1>2. PICK q \in Seq(Keys) : q = disconnectRx
  BY <1>1
<1>3. q # <<>> /\ Len(q) \in Nat
  BY <1>1, <1>2
<1>4. /\ 1 \in 1..Len(q) /\ Head(q) = q[1] /\ Tail(q) \in Seq(Keys) /\ Len(Tail(q)) = Len(q) - 1
      /\ \A i \in 1..Len(Tail(q)) : Tail(q)[i] = q[i + 1]
  BY <1>3, EmptySeq, HeadTailProperties
<1>5. PICK k \in Keys : k = q[1]
  BY <1>4, ElementOfSeq
<1>6. /\ clients' = [clients EXCEPT ![k] = NoConn]
      /\ aborted' = [aborted EXCEPT ![clients[k]] = TRUE]
      /\ disconnectRx' = Tail(q) /\ UNCHANGED <<task, key>>
  BY <1>2, <1>4, <1>5 DEF LobbyDisconnect, RemoveClient
<1>7. clients[k] # NoConn /\ task[clients[k]] = "ended"
  BY <1>2, <1>4, <1>5 DEF Departures
<1>8. /\ clients \in [Keys -> Conns \cup {NoConn}] /\ aborted \in [Conns -> BOOLEAN]
      /\ \A j \in Keys : clients'[j] = IF j = k THEN NoConn ELSE clients[j]
      /\ \A d \in Conns : aborted'[d] = (aborted[d] \/ d = clients[k])
  <2>1. clients \in [Keys -> Conns \cup {NoConn}] /\ aborted \in [Conns -> BOOLEAN]
    BY DEF RoomInv, TypeOK
  <2>2. clients[k] \in Conns
    BY <1>7, <2>1
  <2> QED
    BY <1>6, <2>1, <2>2
<1>9. PICK m \in Nat : m = Len(Tail(q)) /\ m + 1 = Len(q)
  <2>1. PICK n \in Nat : n = Len(q)
    BY <1>3
  <2>2. n > 0
    BY <1>4, <2>1
  <2>3. PICK m \in Nat : m = n - 1
    BY <2>2
  <2>4. m = Len(Tail(q))
    BY <1>4, <2>1, <2>3
  <2>5. m + 1 = Len(q)
    BY <2>1, <2>3
  <2> QED
    BY <2>4, <2>5
<1>10. \A i \in 1..m : /\ i + 1 \in 1..(m + 1) /\ i + 1 # 1 /\ Tail(q)[i] = q[i + 1]
                       /\ q[i + 1] \in Keys
  BY <1>4, <1>9, ElementOfSeq
<1>11. \A i \in 1..m : q[i + 1] # k
  BY <1>2, <1>4, <1>5, <1>9, <1>10 DEF Departures
<1>12. \A i \in 1..m : /\ clients'[Tail(q)[i]] # NoConn
                       /\ task[clients'[Tail(q)[i]]] = "ended"
  BY <1>2, <1>8, <1>9, <1>10, <1>11 DEF Departures
<1>13. \A i, j \in 1..m : Tail(q)[i] = Tail(q)[j] => i = j
  <2>1. SUFFICES ASSUME NEW i \in 1..m, NEW j \in 1..m, Tail(q)[i] = Tail(q)[j]
                 PROVE  i = j
    OBVIOUS
  <2>2. i + 1 = j + 1
    BY <1>2, <1>9, <1>10, <2>1 DEF Departures
  <2> QED
    BY <2>2
<1>14. ASSUME NEW d \in Conns
       PROVE  /\ task[d] \in Present => clients'[key[d]] = d
              /\ aborted'[d] => task[d] = "ended"
  <2>1. task[d] \in Present => key[d] \in Keys /\ clients[key[d]] = d /\ d # clients[k]
    BY <1>7 DEF Departures, RoomInv, ConnOK, Present
  <2> QED
    BY <1>7, <1>8, <2>1 DEF Departures
<1> QED
  BY <1>6, <1>7, <1>9, <1>12, <1>13, <1>14 DEF Departures

\* Elements of a sequence that is added to, or loses its head.
LEMMA ItemsOf ==
  ASSUME NEW S, NEW s \in Seq(S), NEW x \in S
  PROVE  /\ \A i \in 1..Len(Append(s, x)) :
              Append(s, x)[i] = x \/ \E j \in 1..Len(s) : Append(s, x)[i] = s[j]
         /\ s # <<>> => /\ \E j \in 1..Len(s) : Head(s) = s[j]
                        /\ \A i \in 1..Len(Tail(s)) : \E j \in 1..Len(s) : Tail(s)[i] = s[j]
<1>1. Len(s) \in Nat
  BY LenProperties
<1>2. PICK m \in Nat : m = Len(s)
  BY <1>1
<1>3. /\ Len(Append(s, x)) = m + 1 /\ Append(s, x)[m + 1] = x
      /\ \A i \in 1..m : Append(s, x)[i] = s[i]
  BY <1>2, AppendProperties
<1>4. \A i \in 1..(m + 1) : i = m + 1 \/ i \in 1..m
  OBVIOUS
<1>5. \A i \in 1..Len(Append(s, x)) :
        Append(s, x)[i] = x \/ \E j \in 1..Len(s) : Append(s, x)[i] = s[j]
  BY <1>2, <1>3, <1>4
<1>6. ASSUME s # <<>>
      PROVE  /\ \E j \in 1..Len(s) : Head(s) = s[j]
             /\ \A i \in 1..Len(Tail(s)) : \E j \in 1..Len(s) : Tail(s)[i] = s[j]
  <2>1. /\ 1 \in 1..Len(s) /\ Head(s) = s[1] /\ Len(Tail(s)) = Len(s) - 1
        /\ \A i \in 1..Len(Tail(s)) : Tail(s)[i] = s[i + 1]
    BY <1>1, <1>6, EmptySeq, HeadTailProperties
  <2>2. \A i \in 1..Len(Tail(s)) : i + 1 \in 1..Len(s)
    BY <1>1, <2>1
  <2> QED
    BY <2>1, <2>2
<1> QED
  BY <1>5, <1>6

\* The lobby's quiet, where nothing is sent, forwarded or announced.
LEMMA QuietStays ==
  ASSUME LobbyQuiet, phase' = "lobby" => phase = "lobby",
         UNCHANGED <<cstate, toServer, holding, readRx, log>>
  PROVE  LobbyQuiet'
BY DEF LobbyQuiet

\* The steps of the tasks only pass on what was sent.
LEMMA TaskQuiet ==
  ASSUME RoomInv, LobbyQuiet, NEW c \in Conns, TaskStep(c), UNCHANGED cstate
  PROVE  LobbyQuiet'
<1>1. UNCHANGED <<phase, log>>
  BY OtherSteps
<1>2. SUFFICES ASSUME phase = "lobby"
               PROVE  LobbyQuiet'
  BY <1>1 DEF LobbyQuiet
<1>3. /\ \A d \in Conns : /\ \A i \in 1..Len(toServer[d]) : toServer[d][i].type \in LobbyTypes
                          /\ holding[d].type \in LobbyTypes
                          /\ cstate[d] \notin {"teamSelect", "select"}
      /\ \A i \in 1..Len(readRx) : readRx[i].request.type \in LobbyTypes
      /\ \A i \in 1..Len(log) : log[i].type # "start"
  BY <1>2 DEF LobbyQuiet
<1>4. /\ toServer \in [Conns -> Seq(Requests \cup {JoinRequest})]
      /\ holding \in [Conns -> Requests \cup {NoRequest}] /\ readRx \in Seq(Held)
  BY Typed DEF RoomInv, TypeOK
<1>5. CASE Admit(c)
  <2>1. /\ toServer[c] # <<>> /\ toServer' = [toServer EXCEPT ![c] = Tail(toServer[c])]
        /\ UNCHANGED <<holding, readRx>>
    BY <1>5 DEF Admit
  <2>2. \A d \in Conns : toServer'[d] = IF d = c THEN Tail(toServer[c]) ELSE toServer[d]
    BY <1>4, <2>1
  <2>3. \A i \in 1..Len(Tail(toServer[c])) :
          \E j \in 1..Len(toServer[c]) : Tail(toServer[c])[i] = toServer[c][j]
    <3>1. toServer[c] \in Seq(Requests \cup {JoinRequest})
      BY <1>4
    <3> QED
      BY <2>1, <3>1, ItemsOf
  <2>4. \A i \in 1..Len(Tail(toServer[c])) : Tail(toServer[c])[i].type \in LobbyTypes
    BY <1>3, <2>3
  <2> QED
    BY <1>1, <1>3, <2>1, <2>2, <2>4 DEF LobbyQuiet
<1>6. CASE TaskReads(c)
  <2>1. /\ toServer[c] # <<>> /\ toServer' = [toServer EXCEPT ![c] = Tail(toServer[c])]
        /\ holding' = [holding EXCEPT ![c] = Head(toServer[c])] /\ UNCHANGED readRx
    BY <1>6 DEF TaskReads, chanVars
  <2>2. \A d \in Conns : /\ toServer'[d] = IF d = c THEN Tail(toServer[c]) ELSE toServer[d]
                         /\ holding'[d] = IF d = c THEN Head(toServer[c]) ELSE holding[d]
    BY <1>4, <2>1
  <2>3. /\ \E j \in 1..Len(toServer[c]) : Head(toServer[c]) = toServer[c][j]
        /\ \A i \in 1..Len(Tail(toServer[c])) :
             \E j \in 1..Len(toServer[c]) : Tail(toServer[c])[i] = toServer[c][j]
    <3>1. toServer[c] \in Seq(Requests \cup {JoinRequest})
      BY <1>4
    <3> QED
      BY <2>1, <3>1, ItemsOf
  <2>4. /\ \A i \in 1..Len(Tail(toServer[c])) : Tail(toServer[c])[i].type \in LobbyTypes
        /\ Head(toServer[c]).type \in LobbyTypes
    BY <1>3, <2>3
  <2> QED
    BY <1>1, <1>3, <2>1, <2>2, <2>4 DEF LobbyQuiet
<1>7. CASE TaskDelivers(c)
  <2> DEFINE x == [key |-> key[c], conn |-> c, request |-> holding[c]]
  <2>1. /\ task[c] = "deliver" /\ holding' = [holding EXCEPT ![c] = NoRequest]
        /\ readRx' = Append(readRx, x) \/ UNCHANGED readRx
        /\ UNCHANGED toServer
    BY <1>7 DEF TaskDelivers, wireVars
  <2>2. \A d \in Conns : holding'[d] = IF d = c THEN NoRequest ELSE holding[d]
    BY <1>4, <2>1
  <2>3. NoRequest.type \in LobbyTypes
    BY DEF NoRequest, LobbyTypes
  <2>4. x \in Held /\ x.request.type \in LobbyTypes
    <3>1. key[c] \in Keys /\ holding[c] \in Requests
      BY <2>1, AllowedRequests DEF RoomInv, ConnOK, Present
    <3> QED
      BY <1>3, <3>1 DEF Held
  <2> HIDE DEF x
  <2>5. \A i \in 1..Len(readRx') : readRx'[i].request.type \in LobbyTypes
    <3>1. \A i \in 1..Len(Append(readRx, x)) :
            Append(readRx, x)[i] = x \/ \E j \in 1..Len(readRx) : Append(readRx, x)[i] = readRx[j]
      BY <1>4, <2>4, ItemsOf
    <3> QED
      BY <1>3, <2>1, <2>4, <3>1
  <2> QED
    BY <1>1, <1>3, <2>1, <2>2, <2>3, <2>5 DEF LobbyQuiet
<1>8. CASE AdmitFails(c) \/ TaskGreets(c) \/ TaskWrites(c) \/ TaskLeaves(c) \/ TaskEnds(c) \/ TaskAborts(c)
  <2>1. UNCHANGED <<toServer, holding, readRx>>
    BY <1>8 DEF AdmitFails, TaskGreets, TaskWrites, TaskLeaves, TaskEnds, TaskAborts, chanVars, wireVars
  <2> QED
    BY <1>1, <2>1, QuietStays
<1> QED
  BY <1>5, <1>6, <1>7, <1>8 DEF TaskStep

\* The room takes requests and announces joins, departures and comments.
LEMMA RoomQuiet ==
  ASSUME RoomInv, LobbyQuiet, RoomStep, UNCHANGED cstate
  PROVE  LobbyQuiet'
<1>1. UNCHANGED <<toServer, holding>>
  BY DEF RoomStep, LobbyConnect, LobbyConnectFails, LobbyDisconnect, LobbyDisconnectPanics,
    SkipRequest, LobbyRequestFails, LobbyComment, LobbyStart, SelectIgnores, SelectVote,
    RemoveClient, Panic, wireVars, taskVars
<1>2. SUFFICES ASSUME phase' = "lobby"
               PROVE  LobbyQuiet'
  BY DEF LobbyQuiet
<1>3. phase = "lobby"
  BY <1>2 DEF RoomStep, LobbyConnect, LobbyConnectFails, LobbyDisconnect, LobbyDisconnectPanics,
    SkipRequest, LobbyRequestFails, LobbyComment, LobbyStart, SelectIgnores, SelectVote,
    RemoveClient, Panic, roomVars
<1>4. /\ \A d \in Conns : /\ \A i \in 1..Len(toServer[d]) : toServer[d][i].type \in LobbyTypes
                          /\ holding[d].type \in LobbyTypes
                          /\ cstate[d] \notin {"teamSelect", "select"}
      /\ \A i \in 1..Len(readRx) : readRx[i].request.type \in LobbyTypes
      /\ \A i \in 1..Len(log) : log[i].type # "start"
  BY <1>3 DEF LobbyQuiet
<1>5. readRx \in Seq(Held) /\ log \in Seq(Events) /\ Len(log) \in Nat
  BY Typed DEF RoomInv
<1>6. readRx' = readRx \/ (readRx # <<>> /\ readRx' = Tail(readRx))
  <2>1. \A state : Taken(state) # {} => readRx # <<>>
    BY TakenIsHead
  <2> QED
    BY <1>2, <2>1 DEF RoomStep, LobbyConnect, LobbyConnectFails, LobbyDisconnect, LobbyDisconnectPanics,
      SkipRequest, LobbyRequestFails, LobbyComment, LobbyStart, SelectIgnores, SelectVote, Panic
<1>7. \A i \in 1..Len(readRx') : readRx'[i].request.type \in LobbyTypes
  <2>1. CASE readRx # <<>> /\ readRx' = Tail(readRx)
    <3>1. readRx[1] \in Held
      BY <1>5, <2>1, EmptySeq, HeadTailProperties, LenProperties, ElementOfSeq
    <3>2. \A i \in 1..Len(Tail(readRx)) : \E j \in 1..Len(readRx) : Tail(readRx)[i] = readRx[j]
      BY <1>5, <2>1, <3>1, ItemsOf
    <3> QED
      BY <1>4, <2>1, <3>2
  <2> QED
    BY <1>4, <1>6, <2>1
<1>8. log' = log \/ \E e \in Events : e.type # "start" /\ log' = Append(log, e)
  <2>1. CASE LobbyConnect
    <3>1. PICK c \in Conns : log' = Append(log, JoinEvent(c))
      BY <1>2, <2>1, LobbyConnectFacts
    <3>2. JoinEvent(c) \in Events /\ JoinEvent(c).type = "join"
      BY DEF JoinEvent, Events
    <3> QED
      BY <3>1, <3>2
  <2>2. CASE LobbyDisconnect \/ LobbyRequestFails
    <3>1. PICK i \in 1..Len(players) : log' = Append(log, LeaveEvent(i - 1))
      BY <2>2, RemovalFacts
    <3>2. Len(players) \in Nat
      BY Typed DEF RoomInv
    <3>3. LeaveEvent(i - 1) \in Events /\ LeaveEvent(i - 1).type = "leave"
      BY <3>2 DEF LeaveEvent, Events
    <3> QED
      BY <3>1, <3>3
  <2>3. CASE LobbyComment
    <3>1. PICK i \in 1..Len(players), m \in Comments : log' = Append(log, CommentEvent(i - 1, m))
      BY <2>3, LobbyCommentInv
    <3>2. Len(players) \in Nat
      BY Typed DEF RoomInv
    <3>3. CommentEvent(i - 1, m) \in Events /\ CommentEvent(i - 1, m).type = "comment"
      BY <3>2 DEF CommentEvent, Events
    <3> QED
      BY <3>1, <3>3
  <2>4. CASE LobbyConnectFails \/ SkipRequest \/ SelectIgnores
    BY <2>4, IdleSteps
  <2>5. ~LobbyDisconnectPanics /\ ~LobbyStart /\ ~SelectVote
    <3>1. ~LobbyDisconnectPanics /\ ~LobbyStart
      BY <1>2 DEF LobbyDisconnectPanics, Panic, LobbyStart
    <3>2. SelectVote => phase = "select"
      BY SelectVoteFacts
    <3> QED
      BY <1>3, <3>1, <3>2
  <2> QED
    BY <2>1, <2>2, <2>3, <2>4, <2>5 DEF RoomStep
<1>9. \A i \in 1..Len(log') : log'[i].type # "start"
  <2>1. CASE log' = log
    BY <1>4, <2>1
  <2>2. ASSUME NEW e \in Events, e.type # "start", log' = Append(log, e)
        PROVE  \A i \in 1..Len(log') : log'[i].type # "start"
    <3>1. \A i \in 1..Len(Append(log, e)) :
            Append(log, e)[i] = e \/ \E j \in 1..Len(log) : Append(log, e)[i] = log[j]
      BY <1>5, ItemsOf
    <3> QED
      BY <1>4, <2>2, <3>1
  <2> QED
    BY <1>8, <2>1, <2>2
<1> QED
  BY <1>1, <1>4, <1>7, <1>9 DEF LobbyQuiet

\* A console in the lobby sends nothing but comments and starts, and its settings.
LEMMA LobbyRequests ==
  ASSUME RoomInv, ConsoleInv, LobbyQuiet, phase = "lobby", NEW c \in Conns, ClientStep(c),
         NoChange'
  PROVE  \/ UNCHANGED toServer
         \/ Connect(c)
         \/ \E r \in Requests : r.type \in LobbyTypes /\ Request(c, r)
<1>1. cstate[c] \notin {"teamSelect", "select"}
  BY DEF LobbyQuiet
<1>2. changed \in [Conns -> {"no", "pending", "sent"}]
  BY DEF ConsoleInv, Steered
<1>3. CASE ReadsEvent(c)
  BY <1>3 DEF ReadsEvent, GivesUp, Destroy, Close, PlayerJoins, SetupEnds, PlayerLeaves,
    CommentArrives, RoomStarts, TeamSelectIgnores, PulseArrives, InfoArrives, vars, wireVars
<1>4. CASE ClientLosesServer(c) \/ ClientConnects(c) \/ ClientLeaves(c)
  BY <1>4 DEF ClientLosesServer, ClientLeaves, Destroy, Close, ClientConnects
<1>5. CASE OpenRoomPage(c) \/ ChangeLocalSettings(c)
  BY <1>5 DEF OpenRoomPage, ChangeLocalSettings, vars, wireVars
<1>6. ~SettingsAreSent(c)
  BY <1>2 DEF SettingsAreSent, NoChange
<1>7. CASE SendComment(c) \/ StartRoom(c)
  BY <1>7 DEF SendComment, StartRoom, LobbyTypes
<1>8. ~SendTeamSelect(c) /\ ~SendVote(c)
  BY <1>1 DEF SendTeamSelect, SendVote
<1> QED
  BY <1>3, <1>4, <1>5, <1>6, <1>7, <1>8 DEF ClientStep, UserActs

\* No console has read that the room starts while the lobby is open.
LEMMA NobodyStarts ==
  ASSUME OnlineInv, LobbyQuiet, phase = "lobby", NEW c \in Conns, HasEvent(c)
  PROVE  Event(c).type # "start"
<1>1. PICK h, b : History(h) /\ Streams(h, b) /\ Readers(h, b)
  BY DEF OnlineInv, Knowledge
<1>2. PICK m : m = b[c]
  OBVIOUS
<1>3. StreamAt(h, m, c) /\ ReaderAt(h, m, c)
  BY <1>1, <1>2, StreamByStream DEF Readers
<1>4. /\ IsNth(log, h, m, taken[c] + 1, Event(c)) /\ key[c] # NoKey
      /\ taken[c] >= Size(h, m) => /\ Place(h, m, taken[c]) + 1 \in 1..Len(log)
                                   /\ Event(c) = log[Place(h, m, taken[c]) + 1]
  BY <1>1, <1>3, NextEvent DEF OnlineInv
<1>5. Size(h, m) \in Nat /\ taken[c] \in Nat
  BY <1>1, <1>3, <1>4, WhereItIs DEF OnlineInv
<1>6. CASE taken[c] >= Size(h, m)
  BY <1>4, <1>6 DEF LobbyQuiet
<1>7. CASE taken[c] + 1 = Size(h, m)
  BY <1>4, <1>7 DEF IsNth
<1>8. CASE taken[c] + 1 < Size(h, m)
  BY <1>4, <1>8 DEF IsNth, JoinEvent
<1> QED
  BY <1>5, <1>6, <1>7, <1>8

\* The screens of the vote are closed while the lobby is open.
LEMMA ScreensStayClosed ==
  ASSUME OnlineInv, LobbyQuiet, phase = "lobby", NEW c \in Conns, ClientStep(c)
  PROVE  \A d \in Conns : cstate'[d] \notin {"teamSelect", "select"}
<1>1. /\ \A d \in Conns : cstate[d] \notin {"teamSelect", "select"}
      /\ cstate \in [Conns -> {"connect", "setup", "main", "teamSelect", "select", "closed"}]
  BY DEF LobbyQuiet, OnlineInv, ConsoleInv, Steered
<1>2. ~RoomStarts(c)
  BY NobodyStarts DEF RoomStarts, Reads
<1>3. UNCHANGED cstate \/ \E state \in {"setup", "closed", "main"} : cstate' = [cstate EXCEPT ![c] = state]
  BY <1>2 DEF ClientStep, ReadsEvent, UserActs, GivesUp, PlayerJoins, SetupEnds, PlayerLeaves,
    CommentArrives, TeamSelectIgnores, PulseArrives, InfoArrives, ClientLosesServer,
    ClientConnects, ClientLeaves, Destroy, OpenRoomPage, SendComment, StartRoom,
    ChangeLocalSettings, SettingsAreSent, SendTeamSelect, SendVote, clientVars
<1> QED
  BY <1>1, <1>3

\* What the consoles do in the lobby leaves it quiet.
LEMMA ClientQuiet ==
  ASSUME OnlineInv, LobbyQuiet, NEW c \in Conns, ClientStep(c), NoChange'
  PROVE  LobbyQuiet'
<1>1. RoomInv /\ ConsoleInv
  BY DEF OnlineInv
<1>2. UNCHANGED <<phase, log, readRx, holding>>
  BY <1>1, ClientFacts DEF vars, Connect, Close, Request, roomVars, chanVars, taskVars
<1>3. SUFFICES ASSUME phase = "lobby"
               PROVE  LobbyQuiet'
  BY <1>2 DEF LobbyQuiet
<1>4. \A d \in Conns : cstate'[d] \notin {"teamSelect", "select"}
  BY <1>3, ScreensStayClosed
<1>5. toServer \in [Conns -> Seq(Requests \cup {JoinRequest})]
  BY <1>1 DEF RoomInv, TypeOK
<1>6. \A d \in Conns : \A i \in 1..Len(toServer'[d]) : toServer'[d][i].type \in LobbyTypes
  <2>1. \A d \in Conns : \A i \in 1..Len(toServer[d]) : toServer[d][i].type \in LobbyTypes
    BY <1>3 DEF LobbyQuiet
  <2>2. CASE UNCHANGED toServer
    BY <2>1, <2>2
  <2>3. CASE Connect(c)
    <3>1. \A d \in Conns : toServer'[d] = IF d = c THEN <<JoinRequest>> ELSE toServer[d]
      BY <1>5, <2>3 DEF Connect
    <3>2. PICK q : q = <<JoinRequest>>
      OBVIOUS
    <3>3. \A i \in 1..Len(q) : q[i].type \in LobbyTypes
      <4>1. JoinRequest.type \in LobbyTypes
        BY DEF JoinRequest, LobbyTypes
      <4>2. Len(q) = 1 /\ q[1] = JoinRequest
        BY <3>2
      <4> QED
        BY <4>1, <4>2
    <3> QED
      BY <2>1, <3>1, <3>2, <3>3
  <2>4. ASSUME NEW r \in Requests, r.type \in LobbyTypes, Request(c, r)
        PROVE  \A d \in Conns : \A i \in 1..Len(toServer'[d]) : toServer'[d][i].type \in LobbyTypes
    <3>1. \A d \in Conns : toServer'[d] = IF d = c THEN Append(toServer[c], r) ELSE toServer[d]
      BY <1>5, <2>4 DEF Request
    <3>2. toServer[c] \in Seq(Requests \cup {JoinRequest})
      BY <1>5
    <3>3. \A i \in 1..Len(Append(toServer[c], r)) :
            \/ Append(toServer[c], r)[i] = r
            \/ \E j \in 1..Len(toServer[c]) : Append(toServer[c], r)[i] = toServer[c][j]
      BY <3>2, ItemsOf
    <3> QED
      BY <2>1, <2>4, <3>1, <3>3
  <2> QED
    BY <1>1, <1>3, <2>2, <2>3, <2>4, LobbyRequests
<1> QED
  BY <1>2, <1>3, <1>4, <1>6 DEF LobbyQuiet

\* In the quiet no request is refused.
LEMMA NothingRejected ==
  ASSUME RoomInv, Hosts, LobbyQuiet, Gamemodes \subseteq 0..3
  PROVE  ~LobbyRequestFails
<1>1. SUFFICES ASSUME NEW r \in Taken("lobby"), LobbyRejects(r)
               PROVE  FALSE
  BY DEF LobbyRequestFails
<1>2. phase = "lobby" /\ r = Head(readRx) /\ clients[r.key] # NoConn /\ readRx # <<>>
  BY TakenIsHead
<1>3. r.key \in Keys /\ r.request \in Requests
  BY <1>2, TakenFacts
<1>4. r.request.type \in LobbyTypes
  <2>1. PICK i \in 1..Len(readRx) : r = readRx[i]
    BY DEF Taken
  <2> QED
    BY <1>2, <2>1 DEF LobbyQuiet
<1>5. r.request.type \in {"comment", "start"}
  BY <1>3, <1>4 DEF LobbyTypes, Requests, CommentRequest, StartRequest, SettingsRequest,
    TeamSelectRequest, VoteRequest
<1>6. ClientPlayers(r.key) # {}
  <2>1. PICK i \in 1..Len(players) : players[i].key = r.key
    BY <1>2, <1>3 DEF RoomInv, PlayersOK
  <2> QED
    BY <2>1 DEF ClientPlayers
<1>7. isHost[clients[r.key]]
  BY <1>2, <1>3 DEF Hosts
<1>8. r.request.type = "start" => r.request.mode < 4
  <2>1. r.request.type = "start" => r.request.mode \in 0..3
    BY <1>3, RequestKinds
  <2>2. \A g \in 0..3 : g < 4
    OBVIOUS
  <2> QED
    BY <2>1, <2>2
<1> QED
  BY <1>1, <1>5, <1>6, <1>7, <1>8 DEF LobbyRejects

\* Every client is a host.
LEMMA HostsStay ==
  ASSUME RoomInv, Hosts, ServerStep
  PROVE  Hosts'
<1>1. CASE LobbyConnect
  <2>1. PICK c \in Conns, k \in Keys :
          /\ clients' = [clients EXCEPT ![k] = c]
          /\ isHost' = [isHost EXCEPT ![c] = (settings = NoConn)] /\ UNCHANGED settings
    BY <1>1, LobbyConnectFacts
  <2>2. clients \in [Keys -> Conns \cup {NoConn}] /\ isHost \in [Conns -> BOOLEAN]
    BY DEF RoomInv, TypeOK
  <2>3. /\ \A j \in Keys : clients'[j] = IF j = k THEN c ELSE clients[j]
        /\ \A d \in Conns : isHost'[d] = IF d = c THEN TRUE ELSE isHost[d]
    BY <2>1, <2>2 DEF Hosts
  <2>4. \A j \in Keys : clients[j] \in Conns \cup {NoConn}
    BY <2>2
  <2>5. ASSUME NEW j \in Keys, clients'[j] # NoConn
        PROVE  isHost'[clients'[j]]
    <3>1. CASE j = k
      BY <2>3, <3>1
    <3>2. CASE j # k
      <4>1. PICK d \in Conns : d = clients[j]
        BY <2>3, <2>4, <2>5, <3>2
      <4>2. clients'[j] = d /\ d # NoConn
        BY <2>3, <2>5, <3>2, <4>1
      <4>3. isHost[d]
        BY <4>1, <4>2 DEF Hosts
      <4>4. isHost'[d] = IF d = c THEN TRUE ELSE isHost[d]
        BY <2>3
      <4> QED
        BY <4>2, <4>3, <4>4
    <3> QED
      BY <3>1, <3>2
  <2> QED
    BY <2>1, <2>5 DEF Hosts
<1>2. CASE ~LobbyConnect
  <2>1. UNCHANGED <<settings, isHost>>
    BY <1>2, OtherSteps DEF ServerStep, RoomStep, LobbyConnectFails, LobbyDisconnect,
      LobbyDisconnectPanics, SkipRequest, LobbyRequestFails, LobbyComment, LobbyStart,
      SelectIgnores, SelectVote, RemoveClient, Panic, roomVars, HandleUpdate, TaskStep, Admit,
      AdmitFails, TaskGreets, TaskWrites, TaskReads, TaskDelivers, TaskLeaves, TaskEnds, TaskAborts
  <2>2. UNCHANGED clients \/ \E k \in Keys : clients' = [clients EXCEPT ![k] = NoConn]
    <3>1. CASE LobbyDisconnect \/ LobbyRequestFails
      <4>1. PICK k \in Keys : Removal(k)
        BY <3>1, LobbyDisconnectInv, LobbyRequestFailsInv
      <4> QED
        BY <4>1 DEF Removal, RemoveClient
    <3>2. CASE ~(LobbyDisconnect \/ LobbyRequestFails)
      BY <1>2, <3>2, OtherSteps DEF ServerStep, RoomStep, LobbyConnectFails,
        LobbyDisconnectPanics, SkipRequest, LobbyComment, LobbyStart,
        SelectIgnores, SelectVote, Panic, roomVars
    <3> QED
      BY <3>1, <3>2
  <2>3. clients \in [Keys -> Conns \cup {NoConn}]
    BY DEF RoomInv, TypeOK
  <2> QED
    BY <2>1, <2>2, <2>3 DEF Hosts
<1> QED
  BY <1>1, <1>2

\* Nobody is removed but those that have gone.
OnlyTheGone ==
  \A k \in Keys : clients[k] # NoConn /\ clients'[k] # clients[k] =>
    task[clients[k]] \in {"leave", "ended"}

\* What becomes of a task whose end is not announced.
TaskGoesOn ==
  \/ UNCHANGED task
  \/ \E c \in Conns : /\ task[c] # "ended"
                      /\ \/ task' = [task EXCEPT ![c] = "queued"] /\ task[c] = "admit"
                         \/ task' = [task EXCEPT ![c] = "ended"]
                         \/ /\ task[c] \in Present
                            /\ \E state \in Present : task' = [task EXCEPT ![c] = state]

\* A server's step in the calm.
LEMMA ServerCalm ==
  ASSUME OnlineInv, Calm, Gamemodes \subseteq 0..3, ServerStep, UNCHANGED clientVars
  PROVE  Calm' /\ OnlyTheGone
<1>1. RoomInv /\ phase # "panicked" /\ Departures /\ Hosts /\ LobbyQuiet
  BY DEF OnlineInv, Calm
<1>2. Hosts'
  BY <1>1, HostsStay
<1>3. LobbyQuiet'
  <2>1. UNCHANGED cstate
    BY DEF clientVars
  <2>2. HandleUpdate => UNCHANGED <<phase, toServer, holding, readRx, log>>
    BY DEF HandleUpdate, chanVars, taskVars, wireVars
  <2> QED
    BY <1>1, <2>1, <2>2, RoomQuiet, TaskQuiet, QuietStays DEF ServerStep
<1>4. ~LobbyRequestFails /\ ~LobbyDisconnectPanics
  <2>1. ~LobbyRequestFails
    BY <1>1, NothingRejected
  <2>2. SUFFICES ASSUME LobbyDisconnectPanics
                 PROVE  FALSE
    BY <2>1
  <2>3. disconnectRx \in Seq(Keys) /\ disconnectRx # <<>> /\ Len(disconnectRx) \in Nat
        /\ clients[Head(disconnectRx)] = NoConn
    BY <1>1, <2>2, Typed DEF RoomInv, LobbyDisconnectPanics
  <2>4. 1 \in 1..Len(disconnectRx) /\ Head(disconnectRx) = disconnectRx[1]
    BY <2>3, EmptySeq, HeadTailProperties
  <2> QED
    BY <1>1, <2>3, <2>4 DEF Departures
<1>5. phase' # "panicked"
  BY <1>1, <1>4, OtherSteps DEF ServerStep, RoomStep, LobbyConnect, LobbyConnectFails,
    LobbyDisconnect, SkipRequest, LobbyComment, LobbyStart, SelectIgnores, SelectVote,
    RemoveClient, roomVars
<1>6. CASE LobbyConnect
  <2>1. OnlyTheGone
    <3>1. PICK c \in Conns, k \in Keys : clients[k] = NoConn /\ clients' = [clients EXCEPT ![k] = c]
      BY <1>1, <1>6, LobbyConnectFacts
    <3>2. clients \in [Keys -> Conns \cup {NoConn}]
      BY <1>1 DEF RoomInv, TypeOK
    <3> QED
      BY <3>1, <3>2 DEF OnlyTheGone
  <2> QED
    BY <1>1, <1>2, <1>3, <1>5, <1>6, <2>1, DeparturesJoin DEF Calm
<1>7. CASE LobbyDisconnect
  <2>1. PICK k \in Keys : /\ clients[k] # NoConn /\ task[clients[k]] = "ended"
                          /\ clients' = [clients EXCEPT ![k] = NoConn]
    BY <1>1, <1>7, DeparturesLeave
  <2>2. clients \in [Keys -> Conns \cup {NoConn}]
    BY <1>1 DEF RoomInv, TypeOK
  <2>3. OnlyTheGone
    BY <2>1, <2>2 DEF OnlyTheGone
  <2> QED
    BY <1>1, <1>2, <1>3, <1>5, <1>7, <2>3, DeparturesLeave DEF Calm
<1>8. CASE ~LobbyConnect /\ ~LobbyDisconnect
  <2>1. UNCHANGED clients
    BY <1>4, <1>8, OtherSteps DEF ServerStep, RoomStep, LobbyConnectFails, SkipRequest,
      LobbyComment, LobbyStart, SelectIgnores, SelectVote, roomVars
  <2>2. OnlyTheGone
    BY <2>1 DEF OnlyTheGone
  <2>3. CASE \E c \in Conns : TaskEnds(c)
    BY <1>1, <1>2, <1>3, <1>5, <2>2, <2>3, DeparturesEnd DEF Calm
  <2>4. CASE ~\E c \in Conns : TaskEnds(c)
    <3>1. UNCHANGED <<disconnectRx, aborted, key>>
      BY <1>4, <1>8, <2>4 DEF ServerStep, RoomStep, LobbyConnectFails, SkipRequest,
        LobbyComment, LobbyStart, SelectIgnores, SelectVote, HandleUpdate, TaskStep, Admit,
        AdmitFails, TaskGreets, TaskWrites, TaskReads, TaskDelivers, TaskLeaves, TaskAborts,
        chanVars, taskVars
    <3>2. task \in [Conns -> TaskStates] /\ \A c \in Conns : task[c] = "queued" => task[c] \notin Present
      BY <1>1 DEF RoomInv, TypeOK, Present
    <3>3. TaskGoesOn
      <4>1. CASE RoomStep \/ HandleUpdate
        <5>1. CASE LobbyConnectFails
          <6>1. /\ task' = [task EXCEPT ![Head(connectRx)] = "ended"]
                /\ connectRx # <<>> /\ connectRx \in Seq(Conns) /\ Len(connectRx) \in Nat
            BY <1>1, <5>1, Typed DEF RoomInv, LobbyConnectFails
          <6>2. 1 \in 1..Len(connectRx) /\ Head(connectRx) = connectRx[1] /\ Head(connectRx) \in Conns
            BY <6>1, EmptySeq, HeadTailProperties
          <6>3. task[Head(connectRx)] = "queued"
            BY <1>1, <6>2 DEF RoomInv, QueueOK
          <6> QED
            BY <6>1, <6>2, <6>3 DEF TaskGoesOn
        <5>2. CASE ~LobbyConnectFails
          BY <1>4, <1>8, <4>1, <5>2 DEF RoomStep, SkipRequest, LobbyComment, LobbyStart,
            SelectIgnores, SelectVote, HandleUpdate, taskVars, TaskGoesOn
        <5> QED
          BY <5>1, <5>2
      <4>2. ASSUME NEW c \in Conns, TaskStep(c)
            PROVE  TaskGoesOn
        BY <2>4, <4>2 DEF TaskStep, Admit, AdmitFails, TaskGreets, TaskWrites, TaskReads,
          TaskDelivers, TaskLeaves, TaskAborts, Present, TaskGoesOn
      <4> QED
        BY <4>1, <4>2 DEF ServerStep
    <3>4. \A c \in Conns : /\ task[c] = "ended" => task'[c] = "ended"
                           /\ task'[c] \in Present => task[c] \in Present
      BY <3>2, <3>3 DEF Present, TaskGoesOn
    <3>5. Departures'
      BY <1>1, <2>1, <3>1, <3>4, DeparturesStay
    <3> QED
      BY <1>2, <1>3, <1>5, <2>2, <3>5 DEF Calm
  <2> QED
    BY <2>3, <2>4
<1> QED
  BY <1>6, <1>7, <1>8

\* A console's step in the calm.
LEMMA ClientCalm ==
  ASSUME OnlineInv, Calm, NEW c \in Conns, ClientStep(c), NoChange'
  PROVE  Calm' /\ UNCHANGED clients
<1>1. RoomInv /\ ConsoleInv
  BY DEF OnlineInv
<1>2. UNCHANGED <<phase, settings, isHost, clients, disconnectRx, aborted, key>>
  BY <1>1, ClientLeavesRoom DEF roomVars, chanVars
<1>3. LobbyQuiet'
  BY ClientQuiet DEF Calm
<1>4. Departures'
  <2>1. \/ UNCHANGED task
        \/ task[c] = "none" /\ task' = [task EXCEPT ![c] = "admit"]
    BY <1>1, ClientLeavesRoom
  <2>2. task \in [Conns -> TaskStates]
    BY <1>1 DEF RoomInv, TypeOK
  <2>3. \A d \in Conns : /\ task[d] = "ended" => task'[d] = "ended"
                         /\ task'[d] \in Present => task[d] \in Present
    BY <2>1, <2>2 DEF Present
  <2> QED
    BY <1>1, <1>2, <2>3, DeparturesStay DEF Calm
<1>5. Hosts'
  BY <1>2 DEF Calm, Hosts
<1> QED
  BY <1>2, <1>3, <1>4, <1>5 DEF Calm

\* Settings that were sent stay sent.
LEMMA ChangesStay ==
  ASSUME ConsoleInv, [OnlineNext]_allVars, NoChange'
  PROVE  NoChange
<1>1. changed \in [Conns -> {"no", "pending", "sent"}]
  BY DEF ConsoleInv, Steered
<1>2. CASE UNCHANGED clientVars
  BY <1>2 DEF NoChange, clientVars
<1>3. ASSUME NEW c \in Conns, ClientStep(c)
      PROVE  NoChange
  <2>1. \/ UNCHANGED changed
        \/ changed[c] # "sent" /\ \E s : changed' = [changed EXCEPT ![c] = s]
    BY <1>3 DEF ClientStep, ReadsEvent, UserActs, GivesUp, PlayerJoins, SetupEnds, PlayerLeaves,
      CommentArrives, RoomStarts, TeamSelectIgnores, PulseArrives, InfoArrives, ClientLosesServer,
      ClientConnects, ClientLeaves, Destroy, OpenRoomPage, SendComment, StartRoom,
      ChangeLocalSettings, SettingsAreSent, SendTeamSelect, SendVote, clientVars
  <2> QED
    BY <1>1, <2>1 DEF NoChange
<1> QED
  BY <1>2, <1>3 DEF OnlineNext, ServerActs, allVars

CalmUnlessChanged == NoChange => Calm

\* The calm begins,
LEMMA CalmInit ==
  ASSUME OnlineInit
  PROVE  CalmUnlessChanged
<1>1. /\ disconnectRx = <<>> /\ readRx = <<>> /\ log = <<>> /\ toServer = [c \in Conns |-> <<>>]
      /\ phase = "lobby" /\ settings = NoConn /\ clients = [k \in Keys |-> NoConn]
      /\ task = [c \in Conns |-> "none"] /\ aborted = [c \in Conns |-> FALSE]
      /\ holding = [c \in Conns |-> NoRequest] /\ cstate = [c \in Conns |-> "connect"]
  BY DEF OnlineInit, Init, ClientInit
<1>2. PICK q : q = <<>>
  OBVIOUS
<1>3. 1..Len(q) = {}
  BY <1>2, EmptySeq
<1>4. Departures
  BY <1>1, <1>2, <1>3 DEF Departures, Present
<1>5. Hosts
  BY <1>1 DEF Hosts
<1>6. LobbyQuiet
  <2>1. NoRequest.type \in LobbyTypes
    BY DEF NoRequest, LobbyTypes
  <2> QED
    BY <1>1, <1>2, <1>3, <2>1 DEF LobbyQuiet
<1> QED
  BY <1>1, <1>4, <1>5, <1>6 DEF CalmUnlessChanged, Calm

\* and is kept by every step.
LEMMA CalmGoesOn ==
  ASSUME OnlineInv, CalmUnlessChanged, Gamemodes \subseteq 0..3, [OnlineNext]_allVars
  PROVE  CalmUnlessChanged' /\ (NoChange => OnlyTheGone)
<1>1. ConsoleInv
  BY DEF OnlineInv
<1>2. CASE ServerActs
  <2>1. ServerStep /\ UNCHANGED clientVars
    BY <1>2 DEF ServerActs
  <2>2. NoChange' <=> NoChange
    BY <2>1 DEF clientVars, NoChange
  <2> QED
    BY <2>1, <2>2, ServerCalm DEF CalmUnlessChanged
<1>3. ASSUME NEW c \in Conns, ClientStep(c)
      PROVE  CalmUnlessChanged' /\ OnlyTheGone
  <2>1. UNCHANGED clients
    BY <1>1, <1>3, ClientLeavesRoom DEF OnlineInv, roomVars
  <2> QED
    BY <1>1, <1>3, <2>1, ChangesStay, ClientCalm DEF CalmUnlessChanged, OnlyTheGone
<1>4. CASE UNCHANGED allVars
  <2>1. UNCHANGED <<phase, settings, isHost, clients, disconnectRx, aborted, key, task, toServer,
                    holding, readRx, log, cstate, changed>>
    BY <1>4 DEF allVars, vars, roomVars, chanVars, taskVars, wireVars, clientVars
  <2> QED
    BY <2>1 DEF CalmUnlessChanged, NoChange, Calm, Departures, Hosts, LobbyQuiet, OnlyTheGone
<1> QED
  BY <1>2, <1>3, <1>4 DEF OnlineNext

\* The calm lasts until somebody sends settings.
THEOREM CalmHolds ==
  ASSUME Gamemodes \subseteq 0..3
  PROVE  OnlineSpec => []CalmUnlessChanged
<1>1. OnlineInit => CalmUnlessChanged
  BY CalmInit
<1>2. OnlineInv /\ CalmUnlessChanged /\ [OnlineNext]_allVars => CalmUnlessChanged'
  BY CalmGoesOn
<1> QED
  BY <1>1, <1>2, OnlineInvariantHolds, PTL DEF OnlineSpec

\* As long as no console has sent changed settings, a client is taken out of the slab
\* only when its own task is leaving or has ended (its console may be there still, if the
\* task has lagged, room.rs:327), and not by a departure that another has queued under
\* the key.  The console's menu has four modes.
THEOREM NobodyIsEvicted ==
  ASSUME Gamemodes \subseteq 0..3
  PROVE  OnlineSpec => EvictedOnlyWhenGone
<1>1. OnlineInv /\ CalmUnlessChanged /\ [OnlineNext]_allVars => (NoChange => OnlyTheGone)
  BY CalmGoesOn
<1>2. (NoChange => OnlyTheGone) =>
        [\A k \in Keys :
           clients[k] # NoConn /\ clients'[k] # clients[k] /\ (\A c \in Conns : changed[c] # "sent")
             => task[clients[k]] \in {"leave", "ended"}]_allVars
  BY DEF NoChange, OnlyTheGone
<1> QED
  BY <1>1, <1>2, OnlineInvariantHolds, CalmHolds, PTL DEF OnlineSpec, EvictedOnlyWhenGone

\* As long as no console has sent changed settings, whatever else the consoles send and
\* whenever they leave, no key is removed from the slab twice (the panic of room.rs:405).
THEOREM PanicNeedsSettings ==
  ASSUME Gamemodes \subseteq 0..3
  PROVE  OnlineSpec => [](NoChange => NeverPanics)
<1>1. CalmUnlessChanged => (NoChange => NeverPanics)
  BY DEF CalmUnlessChanged, Calm, NeverPanics
<1> QED
  BY <1>1, CalmHolds, PTL

-------------------------------------------------------------------------------
(***************************************************************************)
(* No event is refused.  The one that must not reach a console is its own  *)
(* departure: the log tells of it only once the console's task has ended.  *)
(***************************************************************************)
Leaves(l, h, n, c) == l[n].type = "leave" /\ h[n - 1].roster[l[n].player + 1] = c

NotPast ==
  \A h : Hist(log, h) =>
    \A n \in 1..Len(log) : \A c \in Conns :
      Leaves(log, h, n, c) => cursor[c] < n /\ task[c] = "ended"

\* A log has one history of rosters.
LEMMA SameRosters ==
  ASSUME NEW l, Len(l) \in Nat, NEW h, NEW g, Hist(l, h), Hist(l, g)
  PROVE  \A n \in 0..Len(l) : h[n].roster = g[n].roster
<1> DEFINE S == {n \in 0..Len(l) : h[n].roster # g[n].roster}
<1>1. SUFFICES ASSUME S # {}
               PROVE  FALSE
  OBVIOUS
<1>2. PICK n \in S : \A m \in S : n <= m
  <2>1. S \subseteq Nat
    OBVIOUS
  <2> QED
    BY <1>1, <2>1, HasLeast
<1>3. n # 0 /\ n \in 0..Len(l)
  BY <1>2 DEF Hist
<1>4. n \in 1..Len(l) /\ n - 1 \in 0..Len(l) /\ ~(n <= n - 1)
  BY <1>3
<1>5. h[n - 1].roster = g[n - 1].roster
  BY <1>2, <1>4
<1>6. /\ h[n].roster = After(h[n - 1].roster, l[n])
      /\ g[n].roster = After(g[n - 1].roster, l[n])
  BY <1>4 DEF Hist, Turns
<1> QED
  BY <1>2, <1>5, <1>6

\* The history of a longer log is one of the shorter.
LEMMA ShorterHist ==
  ASSUME NEW l, NEW l2, NEW g, Hist(l2, g), Len(l) \in Nat, Len(l2) \in Nat, Len(l) <= Len(l2),
         \A n \in 1..Len(l) : l2[n] = l[n]
  PROVE  Hist(l, g)
<1>1. /\ \A n \in 0..Len(l) : n \in 0..Len(l2)
      /\ \A n \in 1..Len(l) : n \in 1..Len(l2)
  OBVIOUS
<1> QED
  BY <1>1 DEF Hist

\* What a task has passed, when the log grows.
LEMMA NotPastGrows ==
  ASSUME NotPast, NEW l2, l2 = log', Len(log) \in Nat, Len(l2) \in Nat, Len(log) <= Len(l2),
         \A n \in 1..Len(log) : l2[n] = log[n],
         \A c \in Conns : task[c] = "ended" => task'[c] = "ended" /\ cursor'[c] = cursor[c],
         \A h : Hist(log, h) =>
           \A n \in (Len(log) + 1)..Len(l2) : \A c \in Conns :
             Leaves(l2, h, n, c) => cursor'[c] < n /\ task'[c] = "ended"
  PROVE  NotPast'
<1>1. SUFFICES ASSUME NEW h, Hist(l2, h), NEW n \in 1..Len(l2), NEW c \in Conns,
                      Leaves(l2, h, n, c)
               PROVE  cursor'[c] < n /\ task'[c] = "ended"
  BY DEF NotPast
<1>2. Hist(log, h)
  BY <1>1, ShorterHist
<1>3. CASE n \in 1..Len(log)
  <2>1. Leaves(log, h, n, c)
    BY <1>1, <1>3 DEF Leaves
  <2> QED
    BY <1>2, <1>3, <2>1 DEF NotPast
<1>4. CASE n \in (Len(log) + 1)..Len(l2)
  BY <1>1, <1>2, <1>4
<1>5. n \in 1..Len(log) \/ n \in (Len(log) + 1)..Len(l2)
  OBVIOUS
<1> QED
  BY <1>3, <1>4, <1>5

\* An ended task passes nothing on.
LEMMA EndedStays ==
  ASSUME RoomInv, ServerStep, NEW c \in Conns, task[c] = "ended"
  PROVE  task'[c] = "ended" /\ cursor'[c] = cursor[c]
<1>1. task \in [Conns -> TaskStates] /\ cursor \in [Conns -> Nat]
  BY DEF RoomInv, TypeOK
<1>2. CASE LobbyConnect
  <2>1. PICK d \in Conns : /\ task[d] = "queued" /\ task' = [task EXCEPT ![d] = "greet"]
                           /\ cursor' = [cursor EXCEPT ![d] = Len(Append(log, JoinEvent(d)))]
    BY <1>2, LobbyConnectFacts
  <2> QED
    BY <1>1, <2>1
<1>3. CASE LobbyDisconnectPanics
  BY <1>3 DEF LobbyDisconnectPanics, Panic
<1>4. CASE LobbyConnectFails
  <2>1. UNCHANGED cursor /\ task' = [task EXCEPT ![Head(connectRx)] = "ended"]
    BY <1>4 DEF LobbyConnectFails
  <2> QED
    BY <1>1, <2>1
<1>5. CASE \E d \in Conns : TaskStep(d)
  <2>1. PICK d \in Conns : TaskStep(d)
    BY <1>5
  <2>2. /\ UNCHANGED task \/ \E state : task' = [task EXCEPT ![d] = state]
        /\ task[d] = "ended" => UNCHANGED task
        /\ UNCHANGED cursor \/ (task[d] = "loop" /\ cursor' = [cursor EXCEPT ![d] = @ + 1])
    BY <2>1 DEF TaskStep, Admit, AdmitFails, TaskGreets, TaskWrites, TaskReads, TaskDelivers,
      TaskLeaves, TaskEnds, TaskAborts
  <2> QED
    BY <1>1, <2>2
<1>6. CASE \/ LobbyDisconnect \/ SkipRequest \/ LobbyRequestFails \/ LobbyComment \/ LobbyStart
           \/ SelectIgnores \/ SelectVote \/ HandleUpdate
  BY <1>6 DEF LobbyDisconnect, SkipRequest, LobbyRequestFails, LobbyComment, LobbyStart,
    SelectIgnores, SelectVote, HandleUpdate, RemoveClient, taskVars
<1> QED
  BY <1>2, <1>3, <1>4, <1>5, <1>6 DEF ServerStep, RoomStep

\* The events that tell of no departure.
Stays(e) == e \in Events /\ e.type # "leave"

\* What the log says after a step in the calm.
LEMMA Announced ==
  ASSUME OnlineInv, Calm, Gamemodes \subseteq 0..3, ServerStep
  PROVE  \/ log' = log
         \/ \E e : Stays(e) /\ log' = Append(log, e)
         \/ \E e, f : Stays(e) /\ Stays(f) /\ log' = Append(Append(log, e), f)
         \/ \E i \in 1..Len(players) : /\ phase = "lobby" /\ log' = Append(log, LeaveEvent(i - 1))
                                       /\ task[players[i].conn] = "ended"
<1>1. RoomInv /\ Departures /\ Hosts /\ LobbyQuiet /\ phase # "panicked"
  BY DEF OnlineInv, Calm
<1>2. Len(players) \in Nat /\ log' \in Seq(Events) /\ log \in Seq(Events)
  <2>1. RoomInv'
    BY <1>1, ServerStepInv
  <2> QED
    BY <1>1, <2>1, Typed DEF RoomInv, TypeOK
<1>3. CASE LobbyConnect
  <2>1. PICK c \in Conns : \/ log' = Append(Append(log, JoinEvent(c)), StartEvent(0))
                           \/ log' = Append(log, JoinEvent(c))
    BY <1>1, <1>3, LobbyConnectFacts
  <2>2. Stays(JoinEvent(c)) /\ Stays(StartEvent(0))
    BY DEF JoinEvent, StartEvent, Events, Stays
  <2> QED
    BY <2>1, <2>2
<1>4. CASE LobbyDisconnect
  <2>1. PICK k \in Keys : /\ clients[k] # NoConn /\ task[clients[k]] = "ended"
                          /\ clients' = [clients EXCEPT ![k] = NoConn]
    BY <1>1, <1>4, DeparturesLeave
  <2>2. PICK j \in Keys : Removal(j)
    BY <1>1, <1>4, LobbyDisconnectInv
  <2>3. /\ clients[j] # NoConn /\ phase = "lobby" /\ log' = log \o LeaveEvents(j)
        /\ clients' = [clients EXCEPT ![j] = NoConn]
    BY <2>2 DEF Removal, RemoveClient
  <2>4. j = k
    <3>1. clients \in [Keys -> Conns \cup {NoConn}]
      BY <1>1 DEF RoomInv, TypeOK
    <3> QED
      BY <2>1, <2>3, <3>1
  <2>5. PICK i \in 1..Len(players) :
          players[i].conn = clients[j] /\ LeaveEvents(j) = <<LeaveEvent(i - 1)>>
    BY <1>1, <2>3, OnePlayer
  <2>6. log' = Append(log, LeaveEvent(i - 1))
    <3>1. PICK e \in Events : e = LeaveEvent(i - 1)
      <4>1. i - 1 \in Nat
        BY <1>2
      <4> QED
        BY <4>1 DEF LeaveEvent, Events
    <3>2. log \o <<e>> = Append(log, e)
      BY <1>2, <3>1, AppendIsConcat
    <3> QED
      BY <2>3, <2>5, <3>1, <3>2
  <2> QED
    BY <2>1, <2>3, <2>4, <2>5, <2>6
<1>5. CASE LobbyComment
  <2>1. PICK i \in 1..Len(players), m \in Comments : log' = Append(log, CommentEvent(i - 1, m))
    BY <1>1, <1>5, LobbyCommentInv
  <2>2. Stays(CommentEvent(i - 1, m))
    BY <1>2, <2>1 DEF CommentEvent, Events, Stays
  <2> QED
    BY <2>1, <2>2
<1>6. CASE LobbyStart
  <2>1. PICK r \in Taken("lobby") : /\ log' = Append(log, StartEvent(r.request.mode))
                                    /\ r.request.type = "start"
    BY <1>6 DEF LobbyStart
  <2>2. r.request.mode \in Gamemodes
    <3>1. r.request \in Requests
      BY <1>1, <2>1, TakenIsHead, TakenFacts
    <3> QED
      BY <2>1, <3>1, RequestKinds
  <2>3. Stays(StartEvent(r.request.mode))
    BY <2>2 DEF StartEvent, Events, Stays
  <2> QED
    BY <2>1, <2>3
<1>7. CASE SelectVote
  <2>1. PICK i \in 1..Len(players), r \in Held :
        \/ log' = Append(log, PulseEvent(i - 1))
        \/ \E sel \in 1..Len(players) :
             log' = Append(Append(log, PulseEvent(i - 1)),
                      InfoEvent([n \in 1..Len(players) |-> players'[n].vote], sel - 1))
    BY <1>1, <1>7, SelectVoteFacts
  <2>2. Stays(PulseEvent(i - 1))
    BY <1>2 DEF PulseEvent, Events, Stays
  <2>3. ASSUME NEW d, d.type = "selectInfo", log' = Append(Append(log, PulseEvent(i - 1)), d)
        PROVE  Stays(d)
    <3>1. PICK l \in Seq(Events) : l = Append(log, PulseEvent(i - 1))
      BY <1>2, <2>2, AppendProperties DEF Stays
    <3>2. Len(log') = Len(l) + 1 /\ log'[Len(l) + 1] = d /\ Len(l) \in Nat
      BY <2>3, <3>1
    <3>3. Len(l) + 1 \in 1..Len(log')
      BY <3>2
    <3> QED
      BY <1>2, <2>3, <3>2, <3>3, ElementOfSeq DEF Stays
  <2>4. \A votes, s : InfoEvent(votes, s).type = "selectInfo"
    BY DEF InfoEvent
  <2> QED
    BY <2>1, <2>2, <2>3, <2>4
<1>8. CASE \/ LobbyConnectFails \/ SkipRequest \/ SelectIgnores \/ HandleUpdate
           \/ \E c \in Conns : TaskStep(c)
  BY <1>1, <1>8, IdleSteps, OtherSteps
<1>9. ~LobbyRequestFails
  BY <1>1, NothingRejected
<1>10. CASE LobbyDisconnectPanics
  BY <1>10 DEF LobbyDisconnectPanics, Panic
<1> QED
  BY <1>3, <1>4, <1>5, <1>6, <1>7, <1>8, <1>9, <1>10 DEF ServerStep, RoomStep

\* In the calm no task passes the departure of its own console.
LEMMA ServerNotPast ==
  ASSUME OnlineInv, Calm, Gamemodes \subseteq 0..3, NotPast, ServerStep
  PROVE  NotPast'
<1>1. RoomInv /\ ConsoleInv /\ DrawInv
  BY DEF OnlineInv
<1>2. PICK g : History(g) /\ \E b : Streams(g, b)
  BY DEF OnlineInv, Knowledge
<1>3. PICK g2 : Longer(log, g, log', g2)
  BY <1>1, <1>2, HistoryGoesOn
<1>4. PICK l2 : l2 = log'
  OBVIOUS
<1>5. /\ Len(log) \in Nat /\ Len(l2) \in Nat /\ Len(log) <= Len(l2) /\ log \in Seq(Events)
      /\ \A n \in 1..Len(log) : l2[n] = log[n]
  BY <1>1, <1>3, <1>4, Typed DEF Longer, RoomInv
<1>6. \A c \in Conns : task[c] = "ended" => task'[c] = "ended" /\ cursor'[c] = cursor[c]
  BY <1>1, EndedStays
<1>7. SUFFICES ASSUME NEW h, Hist(log, h), NEW n \in (Len(log) + 1)..Len(l2), NEW c \in Conns,
                      Leaves(l2, h, n, c)
               PROVE  cursor'[c] < n /\ task'[c] = "ended"
  BY <1>4, <1>5, <1>6, NotPastGrows
<1>8. l2[n].type = "leave"
  BY <1>7 DEF Leaves
<1>9. l2 # log
  BY <1>5, <1>7
<1>10. ASSUME NEW e, Stays(e), l2 = Append(log, e)
       PROVE  FALSE
  <2>1. l2[n] = e
    BY <1>5, <1>7, <1>10, LogGrows DEF Stays
  <2> QED
    BY <1>8, <1>10, <2>1 DEF Stays
<1>11. ASSUME NEW e, NEW f, Stays(e), Stays(f), l2 = Append(Append(log, e), f)
       PROVE  FALSE
  <2>1. PICK l : l = Append(log, e)
    OBVIOUS
  <2>2. /\ l \in Seq(Events) /\ Len(l) = Len(log) + 1
        /\ l[Len(log) + 1] = e
    BY <1>5, <1>11, <2>1, LogGrows DEF Stays
  <2>3. /\ Len(l2) = Len(l) + 1 /\ l2[Len(l) + 1] = f /\ l2[Len(log) + 1] = l[Len(log) + 1]
    BY <1>5, <1>11, <2>1, <2>2, LogGrows DEF Stays
  <2>4. n = Len(log) + 1 \/ n = Len(l) + 1
    BY <1>5, <1>7, <2>2, <2>3
  <2> QED
    BY <1>8, <1>11, <2>2, <2>3, <2>4 DEF Stays
<1>12. ASSUME NEW i \in 1..Len(players), phase = "lobby", l2 = Append(log, LeaveEvent(i - 1)),
              task[players[i].conn] = "ended"
       PROVE  cursor'[c] < n /\ task'[c] = "ended"
  <2>1. Len(players) \in Nat /\ players[i].conn \in Conns
    BY <1>1, RosterTyped DEF RoomInv
  <2>2. PICK e \in Events : e = LeaveEvent(i - 1)
    <3>1. i - 1 \in Nat
      BY <2>1
    <3> QED
      BY <3>1 DEF LeaveEvent, Events
  <2>3. e.player = i - 1 /\ e.player + 1 = i
    BY <2>1, <2>2 DEF LeaveEvent
  <2>4. Len(l2) = Len(log) + 1 /\ l2[Len(log) + 1] = e
    BY <1>5, <1>12, <2>2, LogGrows
  <2>5. n = Len(log) + 1 /\ n - 1 = Len(log) /\ l2[n] = e
    BY <1>5, <1>7, <2>4
  <2>6. h[Len(log)].roster = g[Len(log)].roster
    <3>1. Hist(log, g) /\ Len(log) \in 0..Len(log)
      BY <1>2, <1>5 DEF History
    <3> QED
      BY <1>5, <1>7, <3>1, SameRosters
  <2>7. g[Len(log)].roster = Roster /\ Roster[i] = players[i].conn
    BY <1>1, <1>2, RosterTyped DEF History, Now, RoomInv
  <2>8. c = players[i].conn
    BY <1>7, <2>3, <2>5, <2>6, <2>7 DEF Leaves
  <2>9. cursor[c] \in Nat /\ cursor[c] <= Len(log)
    <3>1. PICK b : StreamAt(g, b[c], c)
      BY <1>2, StreamByStream
    <3>2. key[c] # NoKey
      <4>1. players[i].key \in Keys /\ clients[players[i].key] = c
        BY <1>1, <2>8, Typed DEF RoomInv, PlayersOK, Player
      <4> QED
        BY <1>1, <4>1, HasItsKey DEF InRoom
    <3>3. PICK m : m = b[c]
      OBVIOUS
    <3> QED
      BY <1>1, <1>2, <3>1, <3>2, <3>3, WhereItIs
  <2> QED
    BY <1>5, <1>6, <1>12, <2>5, <2>8, <2>9
<1> QED
  BY <1>4, <1>9, <1>10, <1>11, <1>12, <1>1, Announced

NotPastUnlessChanged == NoChange => NotPast

\* Nothing has been passed at the start,
LEMMA NotPastInit ==
  ASSUME OnlineInit
  PROVE  NotPastUnlessChanged
<1>1. 1..Len(log) = {}
  <2>1. PICK q : q = <<>>
    OBVIOUS
  <2> QED
    BY <2>1, EmptySeq DEF OnlineInit, Init
<1> QED
  BY <1>1 DEF NotPast, NotPastUnlessChanged

\* and nothing too far as long as nobody sends settings.
LEMMA NotPastGoesOn ==
  ASSUME OnlineInv, CalmUnlessChanged, NotPastUnlessChanged, Gamemodes \subseteq 0..3,
         [OnlineNext]_allVars
  PROVE  NotPastUnlessChanged'
<1>1. RoomInv /\ ConsoleInv
  BY DEF OnlineInv
<1>2. SUFFICES ASSUME NoChange'
               PROVE  NotPast'
  BY DEF NotPastUnlessChanged
<1>3. Calm /\ NotPast
  BY <1>1, <1>2, ChangesStay DEF CalmUnlessChanged, NotPastUnlessChanged
<1>4. CASE ServerActs
  BY <1>3, <1>4, ServerNotPast DEF ServerActs
<1>5. CASE UNCHANGED <<log, cursor>> /\ \A c \in Conns : task[c] = "ended" => task'[c] = "ended"
  BY <1>3, <1>5 DEF NotPast, Leaves
<1>6. ASSUME NEW c \in Conns, ClientStep(c)
      PROVE  NotPast'
  <2>1. /\ UNCHANGED <<log, cursor>>
        /\ UNCHANGED task \/ (task[c] = "none" /\ task' = [task EXCEPT ![c] = "admit"])
    BY <1>1, <1>6, ClientLeavesRoom DEF chanVars
  <2>2. task \in [Conns -> TaskStates]
    BY <1>1 DEF RoomInv, TypeOK
  <2> QED
    BY <1>5, <2>1, <2>2
<1>7. CASE UNCHANGED allVars
  <2>1. UNCHANGED <<log, cursor, task>>
    BY <1>7 DEF allVars, vars, chanVars, taskVars
  <2> QED
    BY <1>5, <2>1
<1> QED
  BY <1>4, <1>6, <1>7 DEF OnlineNext

\* What arrives during the setup, and that there is a place for it.
LEMMA SetupAccepts ==
  ASSUME OnlineInv, NEW c \in Conns, HasEvent(c), cstate[c] = "setup"
  PROVE  ~Refuses(c, Event(c))
<1>1. RoomInv /\ ConsoleInv /\ DrawInv
  BY DEF OnlineInv
<1>2. PICK h, b : History(h) /\ Streams(h, b) /\ Readers(h, b)
  BY DEF OnlineInv, Knowledge
<1>3. PICK m : m = b[c]
  OBVIOUS
<1>4. StreamAt(h, m, c) /\ ReaderAt(h, m, c)
  BY <1>2, <1>3, StreamByStream DEF Readers
<1>5. IsNth(log, h, m, taken[c] + 1, Event(c)) /\ key[c] # NoKey
  BY <1>1, <1>2, <1>4, NextEvent
<1>6. /\ log \in Seq(Events) /\ Hist(log, h) /\ Len(log) \in Nat
      /\ m \in 1..Len(log) /\ log[m] = JoinEvent(c)
      /\ Size(h, m) \in Nat /\ taken[c] \in Nat /\ h[m - 1].roster \in Rosters
      /\ Len(h[m - 1].roster) = Size(h, m) - 1
  BY <1>1, <1>2, <1>4, <1>5, WhereItIs
<1>7. taken[c] < Size(h, m)
  BY <1>4, <1>5, <1>6 DEF ReaderAt
<1>8. Event(c).type \in {"join", "settings"}
  <2>1. CASE taken[c] + 1 < Size(h, m)
    BY <1>5, <2>1 DEF IsNth, JoinEvent
  <2>2. CASE taken[c] + 1 = Size(h, m)
    BY <1>5, <2>2 DEF IsNth
  <2> QED
    BY <1>6, <1>7, <2>1, <2>2
<1>9. PICK q \in Seq(Conns) : q = h[m - 1].roster
  BY <1>6 DEF Rosters
<1>10. Len(q) + 1 <= MaxPlayers
  <2>1. m \in 0..Len(log) /\ Turns(h[m - 1], log[m], h[m])
    BY <1>6 DEF Hist
  <2>2. h[m].roster = Append(q, c)
    BY <1>6, <1>9, <2>1 DEF Turns, After, JoinEvent
  <2>3. h[m].roster \in Rosters
    BY <1>6, <2>1 DEF Hist, Story
  <2>4. Len(Append(q, c)) = Len(q) + 1
    BY AppendProperties
  <2> QED
    BY <2>2, <2>3, <2>4 DEF Rosters
<1>11. roster[c] = SubSeq(q, 1, taken[c])
  BY <1>4, <1>5, <1>7, <1>9 DEF ReaderAt, Known
<1>12. Len(roster[c]) = taken[c]
  <2>1. PICK t \in Nat : t = taken[c]
    BY <1>6
  <2>2. PICK j \in Nat : j = Len(q)
    BY LenProperties
  <2>3. t <= j
    BY <1>6, <1>7, <1>9, <2>1, <2>2
  <2>4. \A i \in 1..t : i \in 1..Len(q)
    BY <2>2, <2>3
  <2>5. \A i \in 1..t : q[i] \in Conns
    BY <2>4, ElementOfSeq
  <2>6. Len(SubSeq(q, 1, t)) = IF 1 <= t THEN t - 1 + 1 ELSE 0
    BY <2>5, SubSeqProperties
  <2> QED
    BY <1>11, <2>1, <2>6
<1>13. ~RosterFull(c)
  <2>1. MaxPlayers \in Nat /\ Len(q) \in Nat
    BY Facts, LenProperties
  <2> QED
    BY <1>6, <1>7, <1>9, <1>10, <1>12, <2>1 DEF RosterFull
<1> QED
  BY <1>8, <1>13 DEF Refuses

\* What arrives after it: there is a place for who joins, a player for what is told
\* of one, and it is not the console itself that leaves.
LEMMA SettledAccepts ==
  ASSUME OnlineInv, NotPast, Gamemodes \subseteq 0..2, NEW c \in Conns, HasEvent(c),
         cstate[c] \in Settled
  PROVE  ~Refuses(c, Event(c))
<1>1. RoomInv /\ ConsoleInv /\ DrawInv /\ ClientTypeOK /\ KnowsItself
  BY DEF OnlineInv
<1>2. PICK h, b : History(h) /\ Streams(h, b) /\ Readers(h, b)
  BY DEF OnlineInv, Knowledge
<1>3. PICK m : m = b[c]
  OBVIOUS
<1>4. StreamAt(h, m, c) /\ ReaderAt(h, m, c)
  BY <1>2, <1>3, StreamByStream DEF Readers
<1>5. PICK n : n = Place(h, m, taken[c])
  OBVIOUS
<1>6. PICK e \in Events : e = Event(c)
  BY <1>1, <1>2, <1>4, NextEvent
<1>7. /\ key[c] # NoKey /\ n < cursor[c] /\ cursor[c] <= Len(log)
      /\ taken[c] >= Size(h, m) =>
           /\ n + 1 \in 1..Len(log) /\ e = log[n + 1] /\ roster[c] = h[n].roster
           /\ Turns(h[n], e, h[n + 1])
  BY <1>1, <1>2, <1>4, <1>5, <1>6, NextEvent
<1>8. /\ Hist(log, h) /\ Len(log) \in Nat /\ Size(h, m) \in Nat /\ taken[c] \in Nat
      /\ cursor[c] \in Nat /\ m \in 1..Len(log)
      /\ taken[c] >= Size(h, m) => n \in m..Len(log)
  BY <1>1, <1>2, <1>4, <1>5, <1>7, WhereItIs
<1>9. taken[c] >= Size(h, m)
  <2>1. ~(taken[c] < Size(h, m))
    BY <1>4, <1>7 DEF ReaderAt
  <2> QED
    BY <1>8, <2>1
<1>10. /\ n + 1 \in 1..Len(log) /\ e = log[n + 1] /\ roster[c] = h[n].roster
       /\ Turns(h[n], e, h[n + 1]) /\ n \in Nat /\ (n + 1) - 1 = n /\ n + 1 \in 0..Len(log)
       /\ n \in 0..Len(log)
  BY <1>7, <1>8, <1>9
<1>11. h[n].roster \in Rosters /\ h[n + 1].roster \in Rosters
  BY <1>8, <1>10 DEF Hist, Story
<1>12. PICK q \in Seq(Conns) : q = roster[c]
  BY <1>10, <1>11 DEF Rosters
<1>13. Len(q) \in Nat /\ MaxPlayers \in Nat
  BY LenProperties, Facts
<1>14. e.type = "join" => ~RosterFull(c)
  <2>1. SUFFICES ASSUME e.type = "join"
                 PROVE  ~RosterFull(c)
    OBVIOUS
  <2>2. e.who \in Conns
    BY <2>1, EventKinds
  <2>3. h[n + 1].roster = Append(q, e.who)
    BY <1>10, <1>12, <2>1 DEF Turns, After
  <2>4. Len(Append(q, e.who)) = Len(q) + 1
    BY <2>2, AppendProperties
  <2>5. Len(q) + 1 <= MaxPlayers
    BY <1>11, <2>3, <2>4 DEF Rosters
  <2> QED
    BY <1>12, <1>13, <2>5 DEF RosterFull
<1>15. e.type \in {"leave", "comment", "selectPulse"} => ~(e.player >= Len(roster[c]))
  <2>1. SUFFICES ASSUME e.type \in {"leave", "comment", "selectPulse"}
                 PROVE  ~(e.player >= Len(q))
    BY <1>12
  <2>2. e.player \in Nat /\ e.player < Len(q)
    BY <1>10, <1>12, <2>1, EventKinds DEF Turns
  <2> QED
    BY <1>13, <2>2
<1>16. e.type = "leave" => ~IsPlayerLocal(c, e.player)
  <2>1. SUFFICES ASSUME e.type = "leave", me[c] = e.player
                 PROVE  FALSE
    BY DEF IsPlayerLocal
  <2>2. roster[c][me[c] + 1] = c
    BY <1>1 DEF KnowsItself, Settled
  <2>3. Leaves(log, h, n + 1, c)
    BY <1>10, <2>1, <2>2 DEF Leaves
  <2>4. cursor[c] < n + 1
    BY <1>8, <1>10, <2>3 DEF NotPast
  <2> QED
    BY <1>7, <1>8, <1>10, <2>4
<1>17. e.type = "start" => ~(e.mode >= 3)
  <2>1. e.type = "start" => e.mode \in 0..2
    <3>1. e.type = "start" => e.mode \in Gamemodes \cup {0}
      BY EventKinds
    <3>2. \A g \in Gamemodes \cup {0} : g \in 0..2
      OBVIOUS
    <3> QED
      BY <3>1, <3>2
  <2>2. \A g \in 0..2 : ~(g >= 3)
    OBVIOUS
  <2> QED
    BY <2>1, <2>2
<1> QED
  BY <1>6, <1>14, <1>15, <1>16, <1>17 DEF Refuses, Settled

\* So nothing is refused,
LEMMA AllAccepted ==
  ASSUME OnlineInv, NotPast, Gamemodes \subseteq 0..2
  PROVE  NothingRefused
<1>1. \A c \in Conns : cstate[c] \in {"connect", "setup", "main", "teamSelect", "select", "closed"}
  BY DEF OnlineInv, ClientTypeOK
<1>2. \A c \in Conns : HasEvent(c) => cstate[c] = "setup" \/ cstate[c] \in Settled
  BY <1>1 DEF HasEvent, Open, Settled
<1> QED
  BY <1>2, SetupAccepts, SettledAccepts DEF NothingRefused

\* As long as no console sends changed settings, no event makes a console give up the
\* room: what it sends, in the order it arrives, suits the state the console is in.  Three
\* of the modes are the console's (the fourth that the room lets pass is not).
THEOREM NothingIsRefused ==
  ASSUME Gamemodes \subseteq 0..2
  PROVE  OnlineSpec => [](NoChange => NothingRefused)
<1>1. Gamemodes \subseteq 0..3
  OBVIOUS
<1>2. OnlineInit => NotPastUnlessChanged
  BY NotPastInit
<1>3. OnlineInv /\ CalmUnlessChanged /\ NotPastUnlessChanged /\ [OnlineNext]_allVars
        => NotPastUnlessChanged'
  BY <1>1, NotPastGoesOn
<1>4. OnlineInv /\ NotPastUnlessChanged => (NoChange => NothingRefused)
  BY AllAccepted DEF NotPastUnlessChanged
<1>5. OnlineSpec => []CalmUnlessChanged
  BY <1>1, CalmHolds
<1> QED
  BY <1>2, <1>3, <1>4, <1>5, OnlineInvariantHolds, PTL DEF OnlineSpec

\* No console has changed its settings.
NobodyChanges == \A c \in Conns : changed[c] = "no"

\* In a room where no user changes the settings, nothing is refused at all.
THEOREM NothingIsRefusedUnchanged ==
  ASSUME Gamemodes \subseteq 0..2, Changers = {}
  PROVE  OnlineSpec => []NothingRefused
<1>1. OnlineInit => NobodyChanges
  BY DEF OnlineInit, ClientInit, NobodyChanges
<1>2. NobodyChanges /\ [OnlineNext]_allVars => NobodyChanges'
  <2>1. SUFFICES ASSUME NobodyChanges, [OnlineNext]_allVars
                 PROVE  NobodyChanges'
    OBVIOUS
  <2>2. CASE UNCHANGED clientVars \/ UNCHANGED allVars
    BY <2>1, <2>2 DEF NobodyChanges, clientVars, allVars
  <2>3. ASSUME NEW c \in Conns, ClientStep(c)
        PROVE  NobodyChanges'
    <3>1. ~ChangeLocalSettings(c) /\ ~SettingsAreSent(c)
      BY <2>1 DEF ChangeLocalSettings, SettingsAreSent, NobodyChanges
    <3>2. UNCHANGED changed
      BY <2>3, <3>1 DEF ClientStep, ReadsEvent, UserActs, GivesUp, PlayerJoins, SetupEnds,
        PlayerLeaves, CommentArrives, RoomStarts, TeamSelectIgnores, PulseArrives, InfoArrives,
        ClientLosesServer, ClientConnects, ClientLeaves, Destroy, OpenRoomPage, SendComment,
        StartRoom, SendTeamSelect, SendVote, clientVars
    <3> QED
      BY <2>1, <3>2 DEF NobodyChanges
  <2> QED
    BY <2>1, <2>2, <2>3 DEF OnlineNext, ServerActs
<1>3. NobodyChanges => NoChange
  BY DEF NobodyChanges, NoChange
<1> QED
  BY <1>1, <1>2, <1>3, NothingIsRefused, PTL DEF OnlineSpec
===============================================================================
