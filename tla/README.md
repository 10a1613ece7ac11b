# MKW-SP in TLA+

A verification development for [MKW-SP](../src/README.md), the service pack for
Mario Kart Wii: a C++ payload that patches the game, and Rust servers that
replace its online service. The modules here are translations of the source;
TLC checks them on small instances and TLAPS proves part of what it finds for
every instance. `PROJECT.json` is the index: for each definition the lines it
models, for each property the run that checks it and a plausible bug (a
*mutant*) that would break it.

Run inside this directory, for example

    tlc -workers 2 -config MCRoom.cfg MCRoom
    tlapm ExchangeProofs.tla

## 1. The system

### Components, their state and operations

| Component | Where | State | Operations |
|---|---|---|---|
| Exchange | `payload/sp/Exchange.hh` | two mutexes, two optionals, two thread queues | `left`, `right` |
| Decompressing loader | `payload/sp/storage/DecompLoader.cc` | two static buffers, two exchanges, a thread | `Load`, `Handle`, `Read` |
| Room | `tools/gameserver/src/room.rs`, `main.rs` | slab of clients, players with votes, four channels, one task per connection | joins, departures, requests in lobby and selection, `handle_client`, race |
| RoomClient | `payload/sp/cs/RoomClient.cc`, `RoomManager.hh` | state machine, known players, local id, settings, vote order | `calc` with a handler per event, the `send...` functions |
| Friend room screen | `FriendMatchingPage.cc`, `FriendRoomBackPage.cc`, `FriendRoomPage.cc` | animation queue of 44 entries, players on screen, globe, role | `on...` handlers, `afterCalc` |
| Voting screens | `VotingBackPage.cc`, `RoulettePage.cc` | who has voted, rows, votes by index, stage | `onReceivePulse`, `onReceiveInfo`, `calcPlayer`, `calcElements` |
| Secure channel | `AsyncSocket.cc`, `async_stream.rs` | handshake state, message ids, partial buffers, queues of 32 messages | connect, `poll`, `read`, `write` on both ends |
| Race | `room.rs` `handle_race`, `RaceClient.cc`, `KartRollback.cc`, `unreliable_socket.rs` | queued frames of each client, last frame taken, rollback history | ping, collect, broadcast, `calcRead`, `calcWrite`, `calcEarly`, `calcLate` |
| Log file | `LogFile.cc` | two buffers swapped by a thread | `VPrintf`, `Run` |
| Save files | `SaveManager.cc`, `Storage::WriteFile` | licenses in memory, a file per slot with `.new` and `.old` | start, migrate, create, change, erase, save |
| Matchmaking | `tools/matchmaking`, `central_listener` of `tools/gameserver`, `OnlineConnectionManagerPage.cc`, `RandomMatchingPage.cc` | waiting clients, game servers and their rooms, the client that waits for a second | log in, search, request a room, pair up, report joins and departures |
| Network storage, file systems, decoders, updater, loader, patches to the game | see `PROJECT.json` | tables of handles, formats | |

### How they interact

* A thread that loads an archive calls `DecompLoader::Load`; it meets the
  loader thread in `startExchange` once and in `updateExchange` for every
  chunk.
* A console opens a stream to the game server. `handle_client` takes its Join,
  looks up the room and passes stream and Join on `connect_tx`. The room's task
  makes the connection a client with a task of its own; that task forwards
  requests (`read_tx`) and the end of the connection (`disconnect_tx`), and
  writes what the room broadcasts (`write_tx`). Everything the room and its
  connections know of each other passes through these four channels, and a
  client is named in them by its slab key.
* On the console `RoomClient::calc` is called once a frame by whichever page is
  in charge: `FriendMatchingPage` in the lobby, `VotingBackPage` during the
  vote. It hands each event to that page's handler. The pages queue what they
  cannot show at once.
* A room opened by the matchmaking server reports joins and departures to a
  listener in `main.rs`, which takes the room off its map when a host leaves and
  forwards the report over a websocket to the matchmaking server. That server
  sends searching consoles to a listed room, or asks a game server for a new
  one, which it opens as soon as two have asked.
* Every stream between a console and a server is an `AsyncSocket` at one end and
  an `AsyncStream` at the other. `Room`, `RoomClient` and `Matchmaking` assume
  that it delivers whole messages in order or ends; `SecureChannel` is about
  that.
* After the vote `handle_race` and `RaceClient` exchange datagrams;
  `KartRollback` corrects the karts by what comes back.

### What is hard

* **Interleaving**: threads inside an exchange; the room task with the tasks of
  the connections, in the order tokio picks; pages opened at any time while
  events arrive.
* **Stale names**: slab keys that are reused while requests and departures with
  the old key are still queued; player ids that shift with each departure, at
  the server, in each console and on each screen at different times.
* **Partial failure**: a read error in mid-file, early returns that owe the
  other side an answer, a refused request whose sender is removed twice, a
  connection lost while its page is being opened.
* **Crashes**: the power goes between any two calls of a save; a game server is
  lost while consoles wait for its answer.
* **A lock held across an await**: `request_room` keeps its game server's entry,
  and the lock it is behind, until the listener of that game server has answered;
  the same listener needs the lock for every update of a room.
* **Unreliable delivery**: TCP cuts messages anywhere; datagrams of the race are
  lost, repeated and reordered.
* **Limits**: 12 players, 32 queued messages, 44 entries waiting to be shown, 32
  broadcast events before a slow connection is dropped.
* **Termination**: lost wakeups, a vote that never ends, a roulette that waits
  for a vote it was told of before it existed.

`PROJECT.json` lists each as a hazard at its line, with the properties aimed at
it, or why there is none yet.

## 2. The modules

| Module | Models | Notes |
|---|---|---|
| `Rendezvous` | the promise of `Exchange<T, U>` | abstract specification: a call of either side is paired in one instant |
| `Exchange` | `Exchange.hh` | one action per stretch between points where the scheduler may switch; `left` and `right` are one text, parameterised by the side |
| `ExchangeProofs` | | theorems about `Exchange` |
| `DecompLoader` | `DecompLoader.cc` | a meeting in an exchange is one action, justified by the refinement above |
| `DecompLoaderProofs` | | theorems about `DecompLoader` |
| `Room` | `room.rs`, admission of `main.rs` | the room task, connection tasks, channels; consoles as far as the room sees them |
| `RoomClient` | `RoomClient.cc` and the calls its pages make | EXTENDS `Room`: one state machine at the other end of each stream |
| `OnlineRoom` | the composition | its properties relate server and consoles; also checks that these consoles are ones `Room` allows (`BehavesAsRoom`) |
| `RoomProofs` | | theorems about `Room` and `OnlineRoom` |
| `FriendRoomBackPage` | the friend room screen | queue, cancellation of queued Joins, animation |
| `Voting` | the voting screens | several consoles showing the same vote at their own pace |
| `PageProofs` | | theorems about `FriendRoomBackPage` and `Voting` |
| `SecureChannel` | `AsyncSocket.cc`, `async_stream.rs` | one console, one server, the bytes of both directions |
| `SecureChannelProofs` | | theorems about `SecureChannel` |
| `Race` | `handle_race`, `RaceClient.cc`, `KartRollback.cc` | datagrams may be taken late, again, or never |
| `RaceProofs` | | theorems about `Race` |
| `SaveFiles` | `Storage::WriteFile`, the licenses of `SaveManager.cc` | every storage call is a step, a power loss may come before each |
| `SaveFilesProofs` | | theorems about `SaveFiles` |
| `Matchmaking` | both servers' listeners and the searching console | a room is who is queued at it and who is in it |
| `MatchmakingProofs` | | theorems about `Matchmaking` |
| `MCRoom`, `MCOnlineRoom` | | symmetry of the connections, for TLC |

### Correspondence worth knowing

* **Exchange.** The code runs with interrupts disabled; on one core a thread
  gives up the processor only in `OSLockMutex`, `OSSleepThread`, at
  `OSWakeupThread` if the woken thread has a higher priority, or where the
  `NoInterrupts` scope ends. Each of the `pc` values stands at one such point.
  A wakeup readies every thread asleep in the queue.
* **DecompLoader.** `srcs[b]` holds `<<load, chunk>>`, or `Torn` while the
  loader fills it. The decoder may report any outcome after any chunk, reads
  and the opening of the file may fail.
* **Room.** `phase` is where `handle` stands, `vacant` is the free list of the
  `Slab`, so keys are reused exactly as the crate reuses them. `log` with a
  `cursor` per task is the broadcast channel. A task is at one of its awaits;
  aborting (`Client::drop`) takes effect at its next await, so an aborted task
  may still complete the send it has started. `Panic` is what unwinding does:
  queues and clients are dropped. In a matchmaking room nobody sends a Start
  (`RandomMatchingPage` has no such button); who sends what is stated in `Send`.
* **RoomClient.** `toClient[c]` holds all events ever sent to `c` and `taken`
  how many it read. A handler that returns false is `GivesUp`. One player plays
  on each console: `handle_client` admits no more. A write of a request that fails
  (`RoomClient.cc:45-51`) is left out, as a console may close at any other step, and
  so is the track id above 96 that `room.rs:427` refuses of a comment: the menu
  offers none. The lookup of a room and the passing on of the stream
  (`main.rs:262`, `286`) are one step, `Admit`. A console plays one session, so that
  `OpenRoomPage` has no role to reset.
* **FriendRoomBackPage.** The 90 frames of the timer are the flag `busy`. A
  Comment carries its sender in the model only, so that the property can
  compare it with the Mii shown. `Faults` names three situations the page does
  not cope with; the run excludes them and section 4 says what happens in them.
  A connection that is lost in its setup is left out for the same reason. `Launch`
  is both what prepares the start and the refocusing of the page that follows it.
* **Voting.** The room is reduced to what `DrawFollowsVotes` checks of it:
  pulses in the order of counting, then the outcome. `Screens` are the players
  whose pages are modelled.
* **SecureChannel.** A byte says which packet it is of, its place there and the
  id it was encrypted with; decryption works exactly on a whole body with the
  id the reader has reached. TCP holds `Wire` bytes in each direction and cuts
  them anywhere. A console whose queue is full gives up in the step that finds it
  full; the code notes the error and stops polling at its next `calc`. Messages are of
  one size, within what both ends accept.
* **Race.** Time is the frame count of the game, bounded by `MaxClock` and
  `MaxFrames`. A console that leaves takes no more steps. The clock may stand:
  the game's binary, which is not in the repository, decides when it runs.
* **SaveFiles.** A license is the Mii it was made for and its last edit. `disk`
  is what survives a power loss, and each call is atomic on it. A file opened for
  writing is empty until it has been closed, since `f_close` writes the last
  sector and the size; an empty file is read without complaint as a license nobody
  has set anything of (`Blank`). `Close` is the destructor of the file, which does not
  say whether it failed: the save goes on either way, and `cut` remembers it. `saved`
  is what the last save reported Ok for. `kept` are the licenses ever loaded or reported
  saved, and not erased since, over all sessions; `exposed` those of them that the last
  start did not find, or whose file was not closed, until they are saved again. Both
  are history variables: no action reads them to decide what to do. The menus are
  blocked while a save is in progress, so nothing is edited then.
* **Matchmaking.** Room ids are drawn at random until one is free; the model
  does not use one twice, so a token never opens a later room of the same id.
  A guest gets a new id at each login (`ids.rs:42-44`) and is a client like any
  other. The database, ratings and friends are left out. A task that `awaits` holds
  the `Ref` of its game server (`main.rs:118-123`), and with it the lock of one of
  the `Shards` of the DashMap; `Locked` is that the lock cannot be had for writing.
  `listener` says where `gameserver_listener` stands: it `listens`; `locks`, waiting
  in `get_mut` (`main.rs:201`) with an update in its hand; `removes`, ended and waiting
  in `remove` (`ws_forward.rs:56`); or is `gone`. Only after that is the game server no
  key of `gameservers` any more (`online`). `channel` is what `request_room` has sent
  and the listener has not taken; it ends with the listener (`Runs`), and a later
  search that chooses this key fails (`main.rs:121`). Simplified: a blocked `get_mut`
  holds a worker thread of tokio, and there are enough of them; the choice of a game
  server and the `get` of it are one step; no two game servers connect with one id.

## 3. The runs

| Run | Instance | What it shows |
|---|---|---|
| `exchange` | 2 threads and 2 values per side | the sides stay in step, refinement of `Rendezvous`, no lost wakeup |
| `decomp_loader` | 2 callers, files of 0 to 3 chunks | each decodes its own chunks, success means a whole file, accepted loads return |
| `room` | 3 connections, 2 slots, queues of 1, both kinds of rooms, 2 requests of any kind, valid and not | slab, free list and players agree; one vote each, then the draw |
| `room_panic` | 1 connection that changes its settings | a violation, see section 4 |
| `online_vote` | 2 consoles, one that may ask for teams; comment, settings, start of a known and an unknown mode, team requests, vote | nobody is removed by another's departure before settings are changed, leavers are removed, both see one outcome, an undisturbed vote ends; a console only plays modes it knows; these consoles are ones `Room` allows |
| `online_roster` | 3 consoles that join and leave | player ids mean the same at both ends when they are read, whatever is on its way; no event is refused |
| `back_page` | 3 other players, 3 places, 2 messages, 10 entries | queue leads from screen to room, the globe faces its player, messages keep their sender; the queue fits; a started room is launched |
| `voting` | 3 players, 2 screens, 2 courses | no pulse is lost between handlers, one row each, all race the same course |
| `secure_channel` | key exchange packets of 2 bytes, messages of 8, 8 bytes under way, queues of 1, 3 messages | messages arrive once and in order, an end gives up only for a reason the code names, and what was written arrives unless one does |
| `race` | 2 consoles, queues of 2, histories of 3, 3 frames | the frames a console takes are true, never lock it out of newer ones, and the history stays in order |
| `save_files` | 2 slots, 3 edits, 1 failing call per session, any number of power losses | what was ever loaded or saved is in some file, unless a start missed it or its file was not closed; a start misses nothing but where a slot was being replaced; a save reported Ok is what the next start loads, but for files that were not closed |
| `matchmaking` | 3 players, 1 game server that may be lost, 1 room, 1 search each | as long as the listener has not ended, each task that awaits it has exactly one answer coming, and the list of rooms follows the rooms; of two who await it one is answered, unless the listener ends or goes for the lock |

The type invariants of `Exchange`, `DecompLoader`, `Voting` and `SecureChannel`
and two invariants that serve their proofs (`LoaderInStep`,
`SlotFilledOnResume`) are proved for every instance and not part of a run.

Bounds, and why they suffice. Two threads per side give an exchange a caller
that waits behind each of the two held mutexes. Three chunks use each buffer
twice or more. Three connections on two slots make a refusal, an immediate
reuse of a key and a join during another's departure; a queue of one is full as
soon as it is used, so every wait on a full queue occurs. `MaxRequests` bounds
only what consoles send: two requests in a `room`, the least with which one
votes twice or two vote, and one of each console in `online_vote`.
`RoomClient`'s users change their settings at most once per session. The vote
of a console is not counted against `MaxRequests`, so that fairness can ask for
it. `LogCap` (4) is reached by two joins and two departures, so tasks that lag
are disconnected in the runs with requests. For the page three players are the
least for which one can leave between two others; the capacity is computed from
the other bounds as the code's comment does (`PageAssumption`). `Writers` and
`Changers` let one console of `online_vote` write and the other change its
settings; either may be the host, since either may come first.

A message of two bytes of size and six of body can be cut within its size, after
it, and in several places of its body; eight bytes under way hold one message,
so senders wait. A queue of 1 is full at once. Queues of 2 and histories of 3
overflow within three frames of a race. Two slots are the least for a license
that moves up. The licenses a card begins with count as edits, so `MaxEdits = 3`
leaves one to make or change, over all sessions; erasing and saving are not
bounded. A second failing call is outside what the code copes with (section 4). Three
searchers are a pair and one who finds their room, and a single game server makes
each of them depend on the others; with one game server one shard is all there is.
The properties of `matchmaking` were also found to hold for two clients with two
searches each and two rooms (2.8 million states), and for two game servers behind
one lock (33,599 states), which is where an update of one waits for the answer of
the other.

Deadlock is checked for `exchange`, `decomp_loader` and `save_files`. The other systems
really stop: every console may close its connection, and a model has no second
session (`CHECK_DEADLOCK FALSE`).

Fairness, all of it weak: a ready thread is scheduled (`Exchange`,
`DecompLoader`: storage and decoder answer); tokio polls the room task, the
listener and each connection task (`Room`); every console calls `calc` once a
frame (`OnlineRoom`, `Voting`, `FriendRoomBackPage`). `OnlineRoom` and `Voting`
also assume that users vote, because a vote nobody casts is not the program's
to end; no other action of a user is assumed. Both ends of a `SecureChannel`
are polled and its sockets report an end of the network. In `Matchmaking`
the listener of each game server is polled, both for what it is sent (`Forward`) and
for what arrives (`ReceiveTokenResponse`, `TakeUpdate`), and so is the game server
(`HandleTokenRequest`); nothing is assumed of who gets the lock of a shard, since the
listener may wait for it for ever, and nobody has to log in, search or stay. `Race`
and `SaveFiles` have no fairness and no liveness: whether the last ping comes
before a queue overflows is a matter of seconds, and a save may fail. Nothing is assumed of the order
in which `select!` or `startExchange` serve those who wait.

## 4. Where the code differs from what it says

One run ends in a violation of what the code says:

* `room_panic`: a refused lobby request removes the client at once
  (`room.rs:125`) and the room means to go on; its task may still send its key,
  and the second `Slab::remove` panics (`room.rs:405`).

Met while modelling, but not the subject of a run:

* Rooms. "You are not the host, thus your room settings will be ignored."
  (`MenuSP_U.bmg.json5:418`): `Room.settings` is never assigned, so each console
  is sent its own settings back (`room.rs:285`); for the same reason every
  client is a host (`room.rs:249`), and the check at `room.rs:448` never refuses
  anybody. A host can start the fourth mode of its menu, which the server
  accepts and each console answers by leaving (`RoomClient.cc:487`; `room.rs:450`
  has a FIXME). A room whose selection somebody leaves never ends it, because
  `handle_select` takes requests only. A console in team selection ignores the
  vote (`calcTeamSelect`).
* Voting screens. The course raced is looked up with the drawn player's id in an
  array indexed through the vote order (`VotingBackPage.cc:118-122`), so all
  consoles agree on it, but it need not be the drawn player's vote. The order
  that `RoulettePage::onActivate` syncs is cleared by `beforeInAnim`, so the
  branch "Initialized before page activation" is dead and rows follow player ids
  (leaving the order in place would not do either: the mutant
  `BeforeInAnimKeepsRows` shows two votes in one row).
* Channel. The console receives a body while `offset < size - 2`
  (`AsyncSocket.cc:224`), but its offset counts the two bytes of the size: if
  the first part of a body leaves four bytes or less to come, the rest is never
  read, and nothing after it. The server reads a second piece of a body to
  `2..size` instead of `read_offset..size` (`async_stream.rs:104`), which ends
  the connection. `AsyncSocket::write` takes a message id before it looks
  whether the queue is full (lines 270-275); `RaceClient` ignores that result,
  and the next message cannot be decrypted.
* Race. While `handle_race` waits for the last ping it takes no requests; the
  queue of a console that is early overflows and the console is cut off. A
  client that left before its ping keeps the others from starting.
  `PadRollback::serverFrame` (`InputManager.cc:152`) uses the time of the room
  where `KartRollback` uses that of the player.
* Saves. A crash between the two renames of `WriteFile` leaves the license in
  `.new` and `.old`, which nothing reads; the next start does not see it, nor
  any slot behind it (`initSPSave` stops at the first it cannot read). The next save,
  with no call failing, then removes the slots not in use, and with them licenses the
  player never erased (`SaveManager.cc:258-262`). `~FileHandle` drops the result of
  `close` (`Storage.cc:30-34`), which is where FatFs writes the last sector and the
  size: `WriteFile` then renames an empty file into the slot, removes `.old` and
  reports success, and the entry of the file in the table of 32 stays taken. The
  properties of `SaveFiles` except both, and name them (`exposed`, `cut`). The test
  of `m_spCanSave` (`SaveManager.cc:226-231`) lacks its return, so saving goes
  on after a failure: with `MaxFaults = 2` TLC finds a license lost for good,
  when two renames fail and the next save truncates `.new`.
* Matchmaking. The comment on `request_room` (`main.rs:65-67`) promises the game
  server with the least rooms; the comparison at line 96 keeps the one with the
  most. `request_room` holds the `Ref` of the game server while it awaits the answer
  (lines 118-123). If an update of a room comes first, the listener that would bring
  the answer waits in `get_mut` (line 201) for the lock the asker holds: a player
  who searches alone, one update, and everybody who asks that game server from
  then on, or who adds or removes one in that shard, waits for ever. When a game
  server is lost, the tasks that wait for it wait for ever
  (`waiting_clients` keeps their senders) and their players are refused as
  "already logged in"; their lock also keeps the dead game server in `gameservers`
  (`ws_forward.rs:56`), where later searches choose it and fail (line 121). A searcher that leaves is not noticed and is paired with
  the next. A room that has started stays listed and takes every later searcher,
  who is queued and never handled. `is_battle` is never set, so battles never
  find a room, and `waiting_client` pairs searchers of different modes. A second
  game server under the same id takes the place of the first, and when one of
  them goes, an update from the other panics (`main.rs:201`).
* Room screen. A connection lost in its setup does not pop the page
  (`FriendMatchingPage.cc:55-63`), and nothing resets its queue; the Joins of
  the next room then overfill its places, and the assertion at
  `FriendRoomBackPage.cc:108` fails.

The three `Faults` of the room screen: with two departures
waiting the wrong Join may be cancelled and the queue may outgrow
the shares its size is computed from; a Join that is cancelled leaves a Comment
of that player behind; and a connection that ends while Start is shown leaves
`m_roomStarted` set.

## 5. The proofs

`ExchangeProofs` proves for any sets of threads and values, from
`ExchangeAssumption` (sides disjoint, the null values are not values):

* `TypeCorrect`, `SidesInStep`: `Spec => []TypeOK`, `Spec => []InStep`;
* `ResumeIsSafe`: `Spec => []SlotFilledOnResume`, no empty optional is read;
* `ImplementsRendezvous`: `Spec => AbstractSpec`, the refinement.

The argument. `SlotFilledOnResume` is not inductive: that a resumed thread finds
a value depends on who holds the other mutex and on what that holder still waits
for. `InStep` is the strengthening, in four parts: the mutex is held exactly
inside the call (`MutexHeld`); a call in progress has an argument (`ArgGiven`);
a full slot belongs to the holder of its side, who is waiting or not yet
acknowledged, and then the other side's holder is the thread about to take it
(`SlotOwned`); a sleeper's value is in its slot and a resumed thread's
counterpart does not wait (`SleeperFound`). `TypeOK /\ InStep` is preserved by
each action, one lemma for types and one for each part of `InStep`. The
refinement follows step by step from this invariant: the action that finds the
other side waiting is the abstract `Match`, the unlock is `Return`, all others
stutter or are `Call`.

`DecompLoaderProofs` proves for any number of callers and files of any length,
from `DecompAssumption` (`MaxChunks` is a natural number, `NoCaller` not a
caller): `TypeCorrect`, `LoaderStaysInStep`, `DecodesOwnChunks` and
`SuccessMeansWhole`, all safety properties of the run `decomp_loader`.

The argument. `DecodesItsChunk` says what is in the caller's buffer now; that
it stays there while the loader runs ahead depends on which buffer the loader
fills. The invariant `Inv` therefore adds where `Read`'s loop stands
(`LoaderAt`: chunk `k` goes to buffer `i`, and the end is announced only after
the last chunk) and where each load stands against it (`CallerAt`: one chunk
behind, in the other buffer, while it decodes; level with the loader while it
waits). `LoaderInStep` makes the two refer to the same load. A step of one
caller leaves the others alone because `LoaderInStep` allows only one load to be
served at a time.

`PageProofs` proves of `FriendRoomBackPage`, for any number of players and places,
any number of messages and any number of events while one is shown, from
`PageAssumption` (the capacity is computed from the sizes as the code does, the local
player is none of the others):
`PageInvariant`, `PageTypeCorrect`, `ScreenFollows` (`ScreenFollowsRoom`),
`SendersKept` (`MessagesNameTheirSender`) and `QueueIsLargeEnough` (`QueueFits`), all
safety properties of the run `back_page`. Their hypothesis is `Faults \subseteq
{"startAborts"}`: two departures in the queue, or a message behind a cancelled Join,
do break them (section 4); a connection that ends while the start is shown does not.
`QueueIsLargeEnough` is thus no proof that 44 entries are enough for whatever a room
sends: it says that only those two situations can outgrow them. That `panicked` stays
false, which `QueueFits` contains, is likewise said of these behaviours only; the
assertion that fails after a connection was lost in its setup is outside the model.

The argument. A queue leads from the screen through a sequence of screens `f`
(`Leads`), the last of which shows the room. The invariant says that there is such an
`f`, that none of its screens is too large, and that each entry means on its screen
what it meant when it was queued (`Meant`: who leaves is there, who wrote is at its
place, the local player is there when settings are shown). What the code does to the
queue is of three kinds: an entry is appended (`LobbyMore`), the first is shown
(`LobbyLess`), or one is removed. Removing settings changes no screen; removing the
Join of a player who leaves takes that player out of every later screen, because a
departure commutes with the arrivals behind it (`WithoutAppend`) and nobody else's
waits (`JoinCancelled`). That the loop of `onPlayerLeave` finds this Join, and only
this, is `PlayersCounted` (it counts the players of the screen at that place) with
`CancelledOnce`; that it finds one whenever the player is not on screen is
`JoinIsQueued`. The same count bounds the queue (`Sizes`): as many joins wait as
players are missing on screen, and one more if a departure waits, which only happens
with somebody on screen. `ShownAfter` and `JoinPlayerId` are recursive functions;
their value is found through one solution of their equation and the least place at
which another would differ (`ShownIsScreen`, `IdIsJoinId`).

Of `Voting` it proves for any number of players, screens and courses, from
`VotingAssumption` (at least one player, screens are players' screens, the null
values are no values): `VotingTypeCorrect`, `OneRowEach` and `SameRace`, all safety
properties of the run `voting`.

The argument. The consoles agree because they read one sequence: `EventsAt`
says the room's events are one pulse per counted vote and the outcome after all
of them, `OrderRead` that the order kept by a console is the position of each
pulse it has read. A console that knows the outcome has read every event
(`Reading`), hence knows the same order as the others, and `Outcome` fixes the
course from that order. For the rows, `RowsGiven` says the rows given so far
are the first `nextRow`, one per processed vote; that a row never runs past the
last needs the cardinality of the processed votes, and that `ShowVote` finds a
vote to show needs the least element of a set of players (`LowestExists`, from
the well-foundedness of inclusion on finite sets).

`SecureChannelProofs` proves for any sizes of packets, queues and buffers and
any number of messages, from `SizesAssumption` (each size is at least one byte):
`TypeCorrect` and `DeliversInOrder` (`Spec => []InOrder`).

The argument. `InOrder` speaks of calls, the receivers of ids. The invariant
adds that wherever a byte of a message is (queued, under way, in a buffer), the
id it carries is one less than the number of its write call, because a call
takes an id whether or not it is queued (`Streams`), and that each reader's id
is the number of messages it has decoded (`Counters`). A body that decrypts
therefore is the call after the last one decoded; one that does not closes the
connection, which leaves `InOrder` alone. Nothing need be said of the order of
the bytes under way: an id that is not the expected one is never decoded.

It also proves `ClosesOnlyForAReason`. That a reader meets only bytes it expects
does depend on their order: `Whole` says that the bytes the reader holds, those
under way and those the writer has yet to send follow one another without a gap
(`Run`: each byte is the one `After` the last, of its packet or of the next),
and begin with the packet the reader's state waits for, unless the network was
cut, a write was dropped or a body came in two pieces.

`RaceProofs` proves for any number of consoles, any backlog, any length of
history and any number of frames, from `RaceAssumption` (there is a console, the
capacities are positive, `NoFrame` is no time): `TypeCorrect`, `FramesTrue`,
`NewerPasses` and `HistoriesOrdered`, all properties of the run `race`.

The argument. A frame can be compared with a later one only by way of the frame
the room holds of each player, `playerTime`. `QueuesInOrder` says that a console's
requests under way are in order and of its past; `HeldIsTrue` that the frame held
is older than all of them, so that the next one taken moves it forward;
`SentIsTrue` that no broadcast frame is ahead of the frame held and none behind an
earlier one. A player's times therefore rise along the broadcast frames, whichever of
them arrive. `Histories` adds that an entry of a history is of the console's past
or no later than the frame it holds: that is why a frame from the future may be
put at the back. Popping is a suffix of the history from its first entry that
is not old (`FirstIsLeast`, from the well-foundedness of inclusion on finite
sets); the lemmas `PopFacts` and `AppendFacts` say what it and appending leave.

`SaveFilesProofs` proves for any number of slots, edits and failing calls, from
`SaveAssumption` (there is a slot; no file and no save are not licenses):
`TypeCorrect` and `SavedIsLoaded` (`Spec => LoadsWhatWasSaved`); and, for sessions
in which at most one call fails, `NothingIsLost` (`Spec => []NothingLost`) and
`StartFindsThem` (`Spec => StartsFindLicenses`).

The argument. What the next start loads is settled slot by slot during the save.
`SaveAt` says the slots before the present one are as they shall be, those in
use and those removed, and that the new file holds what it shall (the license, or
nothing of it if its slot is in `cut`) from its closing until it has become the slot;
a save that reaches its last slot has therefore made the whole card so, and one that
fails leaves no `saved`. `CardIsSaved` keeps that through power losses and starts:
nothing but the migration writes then, and it takes only slots that are empty, which
lie behind those saved, and only files that were never edited (`OldAreOld`).
`ReadSoFar` says that a start which has come to a slot holds those before it. What is
proved of a file that failed to close is that its license is loaded empty, and that
the others are not touched.

`NothingIsLost` and `StartFindsThem` have the hypothesis `MaxFaults <= 1`: two failing
calls without a save that succeeds between them can lose a license, which is why the
run has that bound too. They are about `kept`, which no start resets, and except
`exposed`, which is where the code does lose licenses (section 4). The argument is
where the copies of a license are (`Held`): as
long as the session runs, memory has it, and the card has it too, in this edit
or a later one: in its slot if the save has passed it, in one of the three files
of the slot being written, or else in a slot not before its place, since erasing
others only moves it up. A rename that failed may have left a slot only in its
`.old` file (`Plain`); that this has happened at most once is what `MaxFaults`
adds. When the power goes, `Held` leaves a copy (`OnCard`) in a `.old` or `.new`, or in
a slot before which none is void, that is without any of its three files (`Reached`):
a start then either reaches it or stops at a slot that was being replaced. These are the
cases `StartsFindLicenses` names; whatever the start does not find becomes `exposed`,
so that the rest is held again.

`RoomProofs` proves, for any number of connections, any slab, capacities and
requests, from `RoomAssumption` (finitely many connections, at least one key,
positive capacities, the null values are no values): `RoomInvariant`,
`RoomTypeCorrect`, `SlabAndPlayersAgree` and `DrawFollowsAllVotes`, which are the
properties of the run `room`, and `MatchesArePairs` (a matchmaking room starts with
two players), which no run checks; and for the composition `OnlineInvariant`, `ConsolesKeepToTheRoom`
(`OnlineSpec => BehavesAsRoom`), `OnlineInvariantHolds`, `ConsolesTyped`,
`OutcomeIsShared` (`ConsolesAgree`), `RostersFollow` (`RosterFollowsRoom`),
`NobodyIsEvicted` (`EvictedOnlyWhenGone`), `PanicNeedsSettings`, `NothingIsRefused`
and `NothingIsRefusedUnchanged` (`NothingRefused`).

The argument. `SlabMatchesPlayers` speaks of counts and the lowest index; the
invariant `RoomInv` says it pointwise: the free list holds each vacant key once
(`SlabFree`), players and clients correspond one to one (`PlayersOK`), a client's
task was told the client's key (`HeldOK`). That a connection never enters the slab
twice needs the queue to hold each connection once, and only while its task waits
there (`QueueOK`); that no request but those of a started room is under way in a
matchmaking room, and so nobody is evicted from a pair, is `ConnOK`. Removing a
client takes one player out (`OnePlayer`, `Removed`), which is where the
cardinalities of `PlayersWithout` are reckoned with. `DrawInv` adds what the log
says while the votes are collected: exactly the players whose vote is set have been
announced.

The refinement `ConsolesKeepToTheRoom` says that what is proved of `Room` holds with
the consoles of `RoomClient`: each of their steps is one a console of `Room` may take.
That needs to be known of a console when it sends (`ConsoleInv`): it is on a
screen that sends this request only if it has received the event that opens it
(`InTouch`), and all of them together have sent fewer requests than `Room` allows
(`SentBound`, and `PairsBelow` for the sum over the connections).

The two ends of a stream are compared through what the room was in the past, which
no variable holds. `Knowledge` says that there is a history `h` of the room, one
state for each prefix of the log (`Hist`), whose last is the room as it is (`Now`):
its players, and the order in which their votes came; and that for each connection
there is a place `b[c]` in the log, its own join, where its stream begins. The
stream is the greeting, which names the players before `b[c]`, and then the log from
there on (`Streams`). A console that has read `t` events therefore knows the
players the greeting names so far, or what the room was after event
`Place(h, b, t)` of the log (`Known`); so does its order of votes
(`Readers`). History and places are bound by a quantifier: a step of the room
extends the history by what the event it broadcasts makes of it (`HistGrows`,
`ConnectGoesOn`, `RemovalGoesOn`, `VoteGoesOn`), a greeting chooses a place, and no
other step touches them. `ConsolesAgree` follows because the draw comes once all
votes are in: two consoles that know it stand behind it in the log, where the history
has one roster and one order. `RosterFollowsRoom` follows by replaying the events
on the way, each of which takes the console from one place of the history to the
next (`KnownOn`), the last of them to the room as it is; that a function defined by
recursion is the only one to satisfy its equation is shown by the least number at
which two differ (`OneReplay`).

The last four speak of rooms whose settings nobody has changed (`NoChange`): the
room answers a change with a removal of its own (`room.rs:121-125`), beside the
departure that the console's task may still queue under the same key. What the
theorems say until then is no more than this. `NobodyIsEvicted`: whenever a client
is taken out of the slab, its own task is leaving or has ended, so no departure
another has queued under the key does it. It does not say that its console has
closed, since a task that lagged behind the log also leaves (`room.rs:327`).
`PanicNeedsSettings`: no key is removed from the slab a second time, the panic of
`room.rs:405` that the run `room_panic` shows after a change. `NothingIsRefused`: no
event makes a console give up the room. They assume of the mode a room is made with
that it is one of the menu's four (`0 .. 3`), and for what a console accepts that it
is one of the three it knows (`0 .. 2`); `NothingIsRefusedUnchanged` assumes that no
console changes the settings (`Changers = {}`), as in the run `online_roster`. The
argument is that until then only the tasks of consoles that have ended leave: the requests of
a console that is in the room are such that the room answers each without closing
(`Calm`), since every client of a friend room is a host while its players are
unchanged and a console in the lobby has sent nothing yet. So when a departure
stands in the log, its console has ended and has read all it ever will: it never
reads of its own (`NotPast`, stated for every history of the log; that two
histories have the same rosters is `SameRosters`, by the least place at which they
differ). What it does read it accepts: a join, because the roster after it is one
the room had and so fits (`SetupAccepts`); a leave or a vote, because the player is
in the roster of that place (`SettledAccepts`, with the turns of the votes to bound
the players).

`MatchmakingProofs` proves for any number of players, gameservers, rooms, shards and
searches, any `RoomSize` and losses, from `MatchmakingAssumption`:
`MatchmakingTypeCorrect`, `OneAnswerAlwaysComes` and `TheViewFollowsRooms`, all
safety properties of the run `matchmaking`. The last two speak of gameservers whose
listener has not ended. An answer that is coming need not be taken: the listener
may wait for ever for the lock with the answer behind it, and neither theorem says
otherwise.

The argument. `OneAnswerComes` is inductive once it is known that a task that
awaits nothing has asked nobody (`IdleAsksNobody`), and that a listener which waits
for the lock has an update before it and no answer (`LockedHasUpdate`), so that the
step it takes with the lock removes none; the work is in counting the messages of the
three queues as they grow by one or two and lose their head (`CountAppend`,
`CountTail`), for the sum of which `Due` stands. For the list of rooms
(`ViewFollowsRooms`), a room that was left must not come back through a message still
under way: `LeavesAreKnown` says that whoever reads of a departure reads of a room in
`left`, so that for the others only joins are under way, and applying them in any
order gives the members.

Only model-checked is all
liveness (`SleepersWake`, `AcceptedLoadReturns`, `SelectEnds`, `LeaversAreRemoved`,
`StartIsLaunched`, `EveryoneRaces`, `AllArrives`, `NobodyWaitsInPairs`), which
the prover cannot reach. `NeverPanics` is refuted in its run.

## 6. Not modelled

`PROJECT.json` names every component left out and why. Of the modelled ones:
the Mii, location and settings data of a player; wording and layout of the
pages; the error pages of the vote; more than one player per console; the
prediction of buttons (`PadRollback`); ghosts and course hashes of the save, and
the table of 32 open files; the database, ratings and friends of the matchmaking server. Encryption is an id
check. Rooms that start a second race, or whose id is used again, are not
modelled: `Room` ends with the draw, and `Race` with its last frame.

## 7. Plan

Modules in the order they are to be written, with the property each is for:

1. `LogFile`: the two buffers of the log thread; no line is lost or torn
   unless the buffer was full.
2. `NetStorage`: requests and replies on one stream; a failed reply must not
   be taken for that of the next request.
3. `Net::Restart` and the updater, as far as they have state; ghosts and
   screenshots, which share the card with the saves.

Proofs: the refinement of `SecureChannel` by a pair of queues of messages; the
properties of each module of the list above.
