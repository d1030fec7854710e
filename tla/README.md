# tinrpc in TLA+

tinrpc is a small RPC framework in C++ (epoll loop, framed connections, stubs)
with a game server on top of it: accounts and sessions, rooms, matchmaking, frame
synchronisation, a shared world, state kept in MongoDB. This directory models the
parts of it whose correctness depends on the order of events, checks them with TLC
on small instances and proves some of the results for every instance with TLAPS.

`PROJECT.json` lists the components, the runs, the definitions with the lines they
model (`map`), the mutants, the findings, the hazards and the theorems.

    tlc -config MCMatchmaking.cfg MCMatchmaking   # any run of PROJECT.json
    tlapm RoomManagerProofs.tla                   # any proof module

## 1. Inventory

| Component | State | Operations | Module |
|---|---|---|---|
| Connection, EventLoop, Buffer | read and write buffer, registered events, `handlers_` | `Run`, `OnRead`, `OnWrite`, `Send`, `OnClose`, `UpdateEvents` | `Connection`, `ByteStream` |
| GameService (sessions) | `active_conns_`, `fd_to_player_`, `player_conns_` | Login, Register, world requests, disconnect callback | `GameService`; with rooms and queue in `Matchmaking` |
| DbWorker, ThreadPool | task queue, stop flag, workers | `Post` (`Enqueue`), worker loop, `Stop` (`Shutdown`) | `WorkerQueue`, `TaskQueue` |
| GameService (shutdown) | the loop, the worker, the scene | `Stop` | `ServerStop` (on `WorkerQueue`) |
| Stores | accounts, players, scene in Mongo | `Load`, `Upsert` | in `GameService` and `World` (what is stored, and failures) |
| WorldService | players in the world, what they own, voxels, buildings | `EnterWithState`, `Leave`, moves, gathering, building, crafting | `World`, with the logins that load a player; in `GameService` who is in it and a counter for what they own |
| RoomManager, GameRoom, RoomServiceImpl | `rooms_`, `player_room_`, room state, timer | Create, Join, Leave, Start, Stop, `RemoveRoom`, `CheckRoomTimeout` | `RoomManager` |
| MatchQueue, MatchService | sorted queue, match timers | Enter, Cancel, `TryMatch`, `OnMatchFound`, timeout | `Matchmaking` (on `RoomManager`) |
| FrameSyncManager, InputBuffer | frame counter, inputs by frame, history | `SendInput`, `Tick`, `Start`, `Stop`, `GetCatchUpFrames` | `FrameSync` |
| TimerManager | heap of one-shot timers | `Schedule`, `Cancel`, `Tick` | each timer in the module of what it does |
| RpcClient | pending calls by request id, the fd, the loop thread | `Connect`, `Call`, response, `CloseFd`, destructor | `RpcClient` |
| bench_game_client | the clients of a mode, the metrics client | six modes, the reporter | `GameClient` (on `RpcClient`) |
| Serializer, protocol frame, dispatch, broadcast | none after start | encode, decode, look up | frames as units in `Connection`; else not modelled |
| SnapshotManager, GameState | ring of snapshots, positions | `tickLogic`, `SaveSnapshot`, `RestoreFromSnapshot`, `CompareStates`, `ReconcileState` | `Replay` (on `FrameSync`) |
| ELO, metrics, SessionManager | counters; a skeleton | | not modelled |

How they interact. One IO thread runs the `EventLoop`: it calls a `Connection` for
its socket, the `Connection` calls the frame handler of `GameService` for each
complete frame, and that handler calls rooms, matchmaking and the world directly.
All game state belongs to this thread. The database thread of `DbWorker` runs tasks
in order; a task that has an answer posts it with `RunInLoop`, and the loop runs it
later. The two threads share the two queues only. A closed `Connection` calls the
disconnect callback, which takes the player out of world, room and queue, and then
deletes itself. Timers are polled by whoever owns them. `GameService::Stop` runs on a
thread of its own. An `RpcClient` has a loop and a thread of its own and is used by other
threads: by one, but for the metrics client of the load generator's mode `steady`, on
which the reporter thread calls while the main thread still connects and logs in with it.
The clients of a process share its fds. The load generator makes, uses and deletes many
of them, some modes on one thread, some on many.

What is hard, and what would make each part correct:

* **Connection.** Edge-triggered epoll announces a change once, while the peer goes
  on; `send` takes any part of a frame; `OnRead`, `OnWrite` and `OnClose` may delete
  the object in the middle of the dispatch. Correct: bytes go out once and in order,
  no edge is lost, the disconnect callback is called exactly once, everything that
  can be sent or handled is, and a deleted object is not used.
* **Sessions.** A login travels to the database thread and back, and finds its
  connection again by fd, which the kernel may have given to somebody else; three
  maps and the world have to agree after every close, login and re-login. Correct: no
  dangling pointer, maps that lead back to each other, the world holds the registered
  players, what a player had is saved when they leave and is there when they return.
* **Rooms.** The list of a room and `player_room_` are updated separately by five
  operations, and the room timer, where somebody ticks it, fires once at any moment.
  Correct: both say the same, nobody is listed twice, rooms are neither overfull nor
  reopened.
* **Matchmaking.** A pair leaves the queue before their room exists, a timer may undo
  the match much later. A connection may log in as somebody else, and requests name
  their player themselves. Correct: sorted queue, nobody in it twice, no ghosts but those
  that a login as somebody else leaves, a matched pair meets.
* **Frame synchronisation.** Inputs come early, late or twice around a tick, the
  buffer and the history are bounded, a stop races the scheduled tick. Correct: an
  input in time is played once, in its frame, with its last value; no frame after the
  stop; catch-up without a gap.
* **World and persistence.** A request changes the player and the scene and queues a
  save of each; the process is killed, never stopped (`main.cpp` does not call
  `Stop`), between any two of them. A login reads the record on the database thread and
  puts it into the world later. Correct: all that changed is stored or queued and
  nothing older overwrites it, materials are neither made nor lost but by the rules,
  ids stay unique after a restart.
* **Workers and shutdown.** A queue, a flag and a condition variable, set and tested in
  different critical sections; `Stop` writes the scene itself while older writes wait.
  Correct: what was taken is done, once, when `Stop` returns, `Stop` does return, and
  the last scene is the one that stays.
* **RPC client.** Two threads per client; an answer meets a call that gave up, a server
  that goes closes an fd under the owner, `CloseFd` one under the loop; the reporter calls
  on a client that main may delete. Correct: a call
  gets its own answer or none, nobody uses another one's socket, nothing stays open, and
  a mode comes to its end.
* **Coming back into a game.** A snapshot, the missing frames and `tickLogic` must add up
  to the state of the server, at the edge of two bounded buffers. Correct: exactly that
  state, and a correction never makes it worse.

The hazards, each with its line and the properties that watch over it, are in
`PROJECT.json`.

## 2. The modules

An action is one handler, callback or task run to completion, which is what the
threads really interleave; in `Connection`, where the peer moves between the calls
of one dispatch, it is one call. A request the code refuses changes nothing and is
left out. Definitions named `...Too`, `...Only`, `...Anyway` and the like, marked
`Mutant:`, are plausible bugs; nothing uses them. Replacing a definition by its
mutant makes TLC report the property the mutant belongs to.

**`RoomManager`** - `rooms` is `rooms_`: a function from live ids to rooms with the
player list, the capacity, the state, whether the room's one-shot timer is armed,
and the phase of its frame synchronisation. `player_room` is `player_room_`.
`CheckRoomTimeout(k)` is one poll in which the timers of the rooms up to `k` are due
(all rooms wait equally long, so timers come due in the order of creation), followed
by the erasure of destroyed rooms that the same call makes. `RemoveRoom` is what a
match timeout does.

**`Matchmaking`** extends it with the queue, the match timers and the two connection maps
(`fd_to_player`, `player_conns`, a `Connection` being its fd). `Login(f, p)` is the
callback of a login that succeeded: any connection may log in as anybody at any time. A
connection that stood for somebody else drops them from the maps; their place in the queue
and their room stay, as in the code. `Disconnect(f)` is `OnPlayerDisconnected`. A request
names its player and the server does not compare the name with the connection, so requests
come for anybody. The history `strays` holds who waits or sits in a room with no
connection registered, because of a login as somebody else or of such a request.
`EnterMatch` is the request with the `TryMatch` that follows it, `OnMatchFound`
folded over all pairs in the order the callback is called. `std::sort` leaves the
order of equal scores open, so does `Sorts`. Waiting time counts up to `MaxWait`,
where the accepted range stops growing. `ticking` is chosen at the start: `GameService`
schedules match timers and never ticks them (nor the room timers, nor frames), while
`MatchService` has an owner that does, and no sessions.

**`GameService`** - a `Connection` is a pair of its fd and a generation; pairs, like
heap addresses, may be used again. `handlers` says which one owns an fd. `q` is the
queue of the database thread, `pending_callbacks` that of the loop; running the swapped
batch of callbacks in one go is the same as taking them one at a time. What a player
owns is a counter of the changes to it, in the world (`owned`) and in Mongo (`stored`);
a read or a write may fail. Three histories, on which no action depends: the field
`asker` of a login says who asked, `twice` holds the players who logged in while they
were online or about to be, `failed` those whom the database failed. `HandleGather`
stands for the requests that change and save the player, `HandleMove` for those that
change without saving.

**`Connection`** - the epoll loop as a program counter over `epoll_wait`, the
dispatch of one event, `OnRead`, the frames of that read and `OnWrite`, against a
peer and a kernel that move at any time (external: modelled from how the code uses
them). The ready list of an edge-triggered epoll is the Boolean `ready`: set by a
change or an `EPOLL_CTL_MOD` that finds an event true, cleared by `epoll_wait`. Input
comes in order and is a number of units; output is kept unit by unit, since its order
is what the properties are about. A damaged frame (`Corrupt`) stays at the front of
the buffer; a frame that `Decode` does not understand is dropped without an answer.
Handlers of other fds in the same batch may push to this connection before its own
dispatch. Nothing follows a use of the deleted object.

**`ByteStream`** - what `Send` promises: units go out in order, each once.

**`FrameSync`** - one room's input buffer, counter, history and the tick in the
timer queue. `broadcasts` and `sent` are histories.

**`Replay`** extends it with the game state of the room's owner, who runs `tickLogic` and
`SaveSnapshot` after every tick as the header of the snapshot manager describes; nothing
under `src/` does so yet, and that the owner does is taken from there and from the tests.
`MCReplay` adds the symmetry of the players. Positions are integers; `alpha` is in tenths.
Who comes back is not an actor: the properties replay, for every frame a client may have
stopped at.

**`WorkerQueue`** - `DbWorker` and `ThreadPool`, whose code is the same but for the number
of threads (`Pools`). A critical section is an action; between it and its `notify` others
may run. `waiting` are the threads asleep in `cv_.wait`, which may also wake for no
reason. **`TaskQueue`** is what both promise, and `Tasks` the refinement mapping: the queue
is closed when `Stop` has returned. **`ServerStop`** adds `GameService::Stop`: the scene is
the number of its changes, the task of a change writes the scene as it was then.

**`RpcClient`** - the clients of one process, the fds they share, and the loop thread of
each. `fdtable` says which socket is behind a number, and a closed number is given to the
next socket (the lowest free one, as the kernel does). `SendRequest`, `OnRead` and `Close`
work on numbers, so they may hit the socket of another client: the history `crossed`
remembers it. `torn` is a socket on which a part of a frame was sent. The numbers that
epoll and eventfd take are left out, and so are answers the server makes of a torn stream.

**`GameClient`** - the modes of `bench_game_client` as scripts: steps in phases, with what
a failure leads to (go on, leave the loop, delete the client), and the phases that run on
the main thread. `does` is where the thread of a client is inside a step. The loops of
the code end when time is up, here at any point. `reporter` is the thread of
`StatsReporterLoop` in the mode `steady`: it wakes up, finds `g_metrics_client` set
(`Checks`), uses it (`Queries`, `Transmits`) and waits for the answer (`Reports`), while
the main thread connects, logs in and, if that fails, resets the pointer. If the client
goes between the check and the end of the call the process dies (`"dead"`): of the use of
a deleted object, or of the broken promise that nobody catches.

**`World`** - what players own (`players`), the scene (`scene`: resources, buildings,
the next building id, voxel edits), both as they are stored, and the queue of saves. An
action is a request that succeeds with the saves it posts, in the order of the handler:
gathering and building save the player first, a voxel edit the scene first. Positions
are abstracted: a client stands where its request needs it, `Place` is where a building
snaps to, a `Cell` is one block of one room. A login is three steps: `Login` queues the
read, `Load` is the worker's, `EnterWithState` the callback on the loop, which
overwrites what a player who is online already has; `ForgetLogin` is a callback that
finds its connection gone or a wrong password. A connection that logs in as somebody
else saves the one it stood for and takes them out. The worker may fail to read a
player, who then looks like a newcomer, or to write one; `mishaps` counts, for each
player, these failures and the logins made while another of the same player was under
way or done (a history). The scene may fail to be written, or to be read: then
`Restart`, a kill and the next start (the queue is lost, the scene is loaded), seeds the
default one. The field `mined` of the scene is a history and no action depends on it; it
lives in the scene so that a restart takes it back with the edits it counts.

## 3. The runs

| Run | Module, configuration | Distinct states | Shows |
|---|---|---|---|
| `sessions` | `MCGameService` | 1.1 million | `NoDanglingConn`, `ConnLeadsToPlayer`, `OnlineIsRegistered` for all; `FdMapExact`, `LeavesWithOwnConnection` for who never had two sessions; `LeaversSaved`, `RestoredOnLogin` for those of them whom the database did not fail |
| `matchmaking` | `MCMatchmaking` | 464 293 | of the rooms `TypeOK`, `MapMatchesRooms` (map and lists agree), `ListedOnce`, `FramesFollowGame`, `NeverReopens`; `QueueInOrder`, `NoGhosts` (while no timer is ticked), `MatchedMeet` |
| `connection` | `Connection` | 42 846 | `AllKept`, `NoEdgeLost`, `StreamSpec` (refinement of `ByteStream`); `EverythingSent`, `FramesHandled`, `PeerNoticed` |
| `frames` | `MCReplay` | 902 656 | `PlayedAsSent`, `StoppedIsStill`, `ReplayExact`, `ReconcileNears` |
| `world` | `MCWorld` | 785 578 | `NothingUnsaved`, `Conserved`, `MinedOnce`, `BuildingsApart` with logins in flight, and a restart and a failure or a second login at any moment |
| `workers` | `ServerStop` | 9 778 | `TasksSpec` (refinement of `TaskQueue`), `StopReturns`, `SceneSaved` |
| `game_client` | `GameClient` | 321 107 | `AnswersMatch`, `OwnSocketOnly`, `NoSocketLeft`, `ReporterKeepsClient`, `ModeEnds` in all six modes, with the reporter |
| `catch_up_at_most_two` | `CatchUpAtMostTwo.cfg` | violation | finding, below |
| `session_asker` | `SessionLoginBindsItsAsker.cfg` | violation | finding, below |
| `connection_use_after_delete` | `ConnectionUseAfterDelete.cfg` | violation | finding, below |
| `client_stop_is_heard` | `ClientStopIsHeard.cfg` | violation | finding, below |
| `client_safely_cleaned` | `ClientSafelyCleaned.cfg` | violation | finding, below |

Bounds, and why they are enough:

* Rooms, checked within `matchmaking`: two players and two rooms of one or two places, so
  that a room fills, a player is refused by one and moves to another. The theorems about
  rooms have no such bound.
* Sessions: two fds and two players, so an fd changes hands while its former owner's
  login is in flight and a player logs in twice; one generation, so that the new
  connection on an fd has the address of the old one, the harder case (with two, 9.6
  million states, the same holds). Two pieces of queued work.
* Matchmaking: two players and two fds, so that a player has two connections, a connection
  stands for one player after the other, and somebody is left behind; two scores that fit
  only after waiting. Two players make one pair: what several pairs of one `TryMatch` do to
  each other is in the theorem only. Capacity 2 is what `OnMatchFound` creates.
* Connection: frames of two units and room for three in the kernel, so `send` splits
  frames in the middle; three requests, of which the third is damaged, and two pushes.
* Frames: buffer of two, clients at most two ahead, six frames, two players, two
  directions, three inputs in all. Four frames of history and five snapshots: both evict,
  and a client may be up to four frames behind, which takes two answers, of three records
  and of one, with the oldest record at the edge of the history. The run of the finding
  has one player and four frames.
* World: two players at one rock and one block, two places, two buildings; the campfire
  costs exactly the stone a newcomer has, so that exactly enough, more (after gathering
  or mining) and not enough all occur; the first tool needs no scene. Block types 3 (can
  be placed) and 5 (cannot). Three pieces of queued work and logins, so that one
  request's pair meets another's save or a login under way; three changes; one restart
  and one mishap (a failure, or a second login at a time), in any order.
* Workers: one and two threads, three tasks: more tasks than threads, and a thread asleep
  while another works.
* Game client: two clients, so that a number changes hands; one fault (`MaxFaults`) of any
  kind at any moment; four requests before a loop ends (`MaxCalls`), which takes each
  loop around. The server leaves in the mode `single` only, where one client lives at a
  time (`Leaving`). In `steady` the last of the two is the metrics client. One chaos round
  instead of five, and one message to warm up.
* Deadlock is not checked for `Connection`, `FrameSync`, `MCReplay`, `ServerStop` and
  `GameClient`: a closed connection, a game whose frames are used up, a stopped server
  and a mode that is over rest. All other runs check it.

Symmetry (players, fds) is used only in runs without liveness properties.

Fairness:

* `Connection`: the IO thread runs on (`WF` of the loop's steps: `Run` blocks nowhere
  else than in `epoll_wait`) and the peer reads what arrives. Nothing is assumed about
  what the peer sends or when it goes.
* `ServerStop`: the workers run, a poster reaches its `notify_one`, and a `Stop` that was
  called goes on. Nobody has to post or to call `Stop`; no spurious wakeup is assumed.
* `GameClient`: every thread runs on (`wait_for` returns after its timeout at the latest,
  `epoll_wait` when there is something), the reporter too, and the server answers what it
  got.

Nothing is assumed of the timers of rooms, matches and frames: `GameService` schedules them
and never ticks them, `main` neither, and only the tests and `MatchService` have an owner
that does. So there is no liveness property about them: in the server as built a waiting
room waits, a match is not undone, and no frame is played. The safety properties hold for
an owner that ticks, whenever it does.

## 4. Findings

* `session_asker`: the callback of a login finds its connection by fd
  (`game_service.cpp:388`). If the asker closed and another connection got the fd and
  sent a frame, that one is logged in with the asker's account. The plan for accounts
  says to cancel the login "if fd disconnected before callback".
* `connection_use_after_delete`: the peer closes between `epoll_wait` and `recv`:
  `OnRead` deletes the `Connection`, and if the event carried `EPOLLOUT` too, `Run`
  calls `OnWrite` on it (`event_loop.cpp:84`).
* `client_stop_is_heard`: `Run` sets `running_` itself (`event_loop.cpp:39`). A client that
  is deleted before its thread got there is joined for ever: the `Stop` is forgotten,
  though `event_loop.h` says that `Run` blocks until `Stop` is called, from any thread.
* `client_safely_cleaned`: `CloseFd` closes the number, the `Connection` in `handlers_`
  keeps it and closes it again in the destructor, which the header calls the safe cleaning
  up. In between another thread's client may have got it (`rpc_client.cpp:130`); in the
  mode `ramp` two clients suffice. On one thread nothing is opened in between, which is
  `OwnSocketOnly`.
* `catch_up_at_most_two`: `GetCatchUpFrames` answers the frames from `client + 1` to
  `client + 3`, three of them (`frame_sync.cpp:89`). The comment on that line, the header
  (`frame_sync.h:86`), `docs/reconnect-design.md` and the assertions of
  `tests/test_frame_sync.cpp:325` say two. `ReplayExact` holds with three.

Behaviours met while modelling that differ from a document and are modelled as the
code has them; the properties allow them:

* A room whose timer fired during the game stays `FINISHED` for good; `StopGame` looks
  at no state and turns a `DESTROYED` room into a `FINISHED` one; an owner may start
  alone (`docs/game-room-state-machine.md` says otherwise on all three).
* After a second login of an online player the fd of the first stays in
  `fd_to_player_` when it closes, and the close removes the player's second session. A
  login checked before the last save brings the older state back. The properties about
  single sessions leave out who did so (`twice`).
* In the world the second login overwrites what the player did since the record was read
  (`world_service.cpp:125`): a player who gathered a stone and built with it has the stone
  again, and the building stands. No crash is needed. `NothingUnsaved` and `Conserved`
  are about players with one login at a time (`mishaps`); without this condition TLC finds
  both violated within a few steps.
* A login as somebody else on the same connection takes the player before out of the world
  and the maps; their place in the queue and their room they keep, until they log in and
  disconnect once more. A request that names a player without a connection has the same
  effect. `NoGhosts` says that there are no other ghosts (`strays`).
* The reporter of the mode `steady` uses the metrics client as soon as the pointer is set
  (`bench_game_client.cpp:628`, `778`). If its `Connect` or `Login` fails, `reset()` deletes
  it under a call (`783`). `ReporterKeepsClient` says that this is the only way: the
  clean-up at the end joins the reporter first. `ModeEnds` allows for the death.
* `SendInput` takes any frame number (`room_service.cpp:345`). A client that is further
  ahead than the input buffer is long pushes out inputs that are still to be played;
  `PlayedAsSent` is about clients that are not (`Ahead <= MaxFrames`).
* A record that cannot be read looks like a new player, a scene that cannot be read like
  none; the next save overwrites what was there (`failed`).
* A player who sits in a room can be matched. They leave the queue, the room is not
  created or not joined, and the opponent is left without a match
  (`game_service.cpp:565`); `match_service.h` promises both a room. `MatchedMeet` says
  what holds: pairs that were free meet, the others stay where they are.
* The match timer returns the players of a game that was played and stopped to the
  queue. If timers are ticked, a player who disconnected is queued again too, which is
  why `NoGhosts` is about a server that does not tick.
* `ReconcileState` truncates toward zero: a client nearer to the origin than the server by
  less than `1/alpha` stays there however often it reconciles, one further out arrives.
* Requests handled while `GameService::Stop` has stopped the worker and not yet the loop
  are answered, and their saves are dropped.
* A client whose server went away keeps the number of the closed fd and may send to whoever
  has it now (`rpc_client.cpp:116`). `AnswersMatch` and `OwnSocketOnly` exclude that.
* After a damaged header the connection stays open and handles nothing more. A peer
  that sends requests and closes at once loses those that were not read.

## 5. Proofs

All constants are arbitrary, subject to the `ASSUME` of the module (natural numbers
where the code has sizes, "no connection" is not a connection). Every inductive
invariant below was checked with TLC on the instance of its run before it was proved;
of `BalanceInv`, whose way from the stores to the world is some sequence of states, that
the balance holds in each state the queued saves lead through.

Induction over numbers is done by the least counterexample (`Least`, `AllNumbers`), with
the theorems on well-founded relations. A fold or a sum is known to satisfy its equation
only after it was shown that there is such a function (`FoldExists`, `PartUpTo`,
`FoldOfThree`); filters are written as picks by index, which the prover can expand.

* **`RoomManagerProofs`** - `PlacesInv`: types, ids not given out yet belong to no room
  (`FreshIds`), `MapMatchesRooms`, `ListedOnce`, `WithinCapacity`. They need one
  another: leaving removes one occurrence, so the map stays right only if there is one.
  One lemma per operation; joining and leaving share `MovePlaces`, the two erasures
  share `ErasePlaces`. From it `RoomTypeCorrect`, `PlacesAgree`, `ListsSound`.
  `GamesInv` adds what holds of every single room (`GameOK`): each step of the manager
  is a step of each room (`EveryRoomSteps`), and a room's step keeps it in order and
  only leads onward (`RoomStepOK`). From it `GamesSound` and the action property
  `RoomsNeverReopen`.
* **`GameServiceProofs`** - `SessionInv`: types, a handler is registered under its own
  fd (`HandlersByFd`), `NoDanglingConn`, `ConnLeadsToPlayer`, `OnlineIsRegistered`. The
  first alone is not inductive: a closing connection is erased from `player_conns_`
  only because its fd leads to the player it is registered for. Theorems `TypeCorrect`,
  `NoDangling`, `RegisteredIsFound`, `NoGhostsInWorld`, for every number of fds,
  connections and players, whatever the database does and however often a player logs
  in. `LoginInv` adds what holds of players with single sessions: one login of theirs is
  in flight at most, as a task or as a callback, and none while they are in the world
  (`OneLogin`); with it `FdMapExact` is inductive. Of those whom the database did not
  fail, the last queued save holds what they left with, no save of theirs is behind their
  login, and what a callback brings back is what they own (`KeptFor`). From it
  `FdsAreCurrent`, `LeaversAreSaved` and the action properties `ComesBackUnharmed`,
  `LeavesByOwnConnection`.
* **`MatchmakingProofs`** - `MatchInv`: the invariant of the rooms (`PlacesInv`), types,
  `QueueInOrder` and, while nobody ticks the timers, that queue and rooms hold only who
  is registered or among the strays (`Connected`): whoever loses the registration loses
  queue and room with it, or becomes a stray. The walk of `TryMatch` takes neighbours
  and never the same entry twice (`FirstOfPair` has no two indices next to each other),
  so what is left of a queue in order is in order. The callbacks are a fold over the
  pairs; `MatchedMeet` needs what holds between two of them: each opens a room of its
  own or leaves all rooms alone, and changes nothing for the players of the other pairs.
  From these `QueueAlwaysInOrder`, `NoGhostsEver` and `PairsMeet`; `MatchInvariance` is
  `MatchInv` itself.
* **`ConnectionProofs`** - `TypeOK /\ AllKept` is inductive (`NothingLost`): `AllKept`
  says where each unit is, so every part `send` takes is the next part of the stream.
  With it every step is a step of `ByteStream` or leaves it alone
  (`ImplementsStream`), for every frame length and kernel buffer. `EdgeInv` says where an
  edge is kept until it is served: in the ready list or, between `epoll_wait` and the
  handler, among the events taken (`InputSeen`, `PeerSeen`, `OutputSeen`), `EPOLLOUT`
  being registered while output waits (`OutputAsked`). `NoEdgeLost` is its case between
  two `epoll_wait`s (`EdgesAreKept`).
* **`ServerStopProofs`** - `WorkInv`: a task that was taken is queued, in the hands of one
  worker or done, and never in two of these places (`OnePlace`); a worker that has ended
  left an empty queue behind a set flag (`EndedLast`). With it every step maps to a step
  of `TaskQueue` or to none (`ImplementsTaskQueue`), for any number of workers and tasks.
  `SceneSaved` needs the order too: a single worker does the tasks as they were posted
  (`InOrder`), so that the scene that is written last is the last one (`LastWrite`); from
  it `StopSavesTheScene`.
* **`WorldProofs`** - a restart makes the stored scene the current one, and the stored
  one was queued before. So `WorldInv` says of every scene, the current, the stored and
  each queued one, that its buildings stand apart and that it was mined no more often
  than edited; nobody owes a material. `OnTheWay` says that the last queued save of the
  scene, and of each player, holds what is current, and where none is queued the store
  does. For a player this takes `OneLogin`: while a login is under way they are offline,
  its read is behind all their saves, and once it has read none is left to be written,
  so that what `EnterWithState` brings is what they left with. A mishap ends both for
  its player. From these `BuildingsStandApart`, `TerrainGivesOnce`, `WorldTypeCorrect`
  and `EverythingOnTheWay`. `BalanceInv` is about the states a restart may come back to:
  the queued saves, written one after the other, lead from the stores to the world
  (`Leads`), a request queues its two saves together, and between the two the balance is
  off by the three units at most that the request moved. A restart ends the way
  somewhere on it, so it may keep those three for good and no more. With it, and how a
  sum moves with one player, one block or one building (`OwnedChanges`, `LeftChanges`,
  `BuiltChanges`, `PlacedChanges`), `NothingFromNothing`.
* **`GameClientProofs`** - four invariants, for any number of clients, faults and calls.
  `ClientInv`: owners are at a step of their script, and an open socket is reached from
  the client that opened it, through `server_fd_` during `connect` and through its
  `Connection` after it (`Kept`); that each of the six scripts leads from any failure to a
  later step, and back to none that connects, is a lemma per mode. `AnswersInv`: ids on a
  socket were given out by its owner, and one that is awaited belongs to the awaited
  request (`IdsMatch`), though the reporter takes ids of the same client in between (`OwnIds`).
  `SocketInv`: a number that was closed and is still kept by a
  `Connection` was not given away before that closes it again, since in the mode `single`
  one client follows the other (`Alone`), and in the other modes on one thread nobody is
  left to connect (`Apart`). That `connect` finds a free number at all is the pigeonhole
  principle. `KeptByReporter`: while the reporter is about, its client is connecting or
  logging in, or lies between two steps. From these `SocketsAreReached`, `DeletedCloseAll`,
  `AnswersToOwnCalls`, `TouchOwnSocket`, `MetricsClientKept`.
* **`ReplayProofs`** - `PlayedInv`: what the buffer has for the frames to come is what was
  sent for them (`AsSent`). The buffer drops frames, but the lowest ones, and of those to
  come there are never more than `Ahead` (`NothingDropped`). From it `PlayedAsItWasSent`,
  for clients that run ahead no further than the buffer is long. `StatesInv`: later
  states know whom earlier ones knew, and positions are integers; with the lemma that
  the truncation in `ReconcileState` leads past neither end of the way (`NearerNears`)
  it gives `ReconcilingComesNearer`, for every alpha and all positions. `ExactInv`:
  history and snapshots hold the last frames played without a gap, as many as they may,
  and each state is the one before it with the record of its frame played on it. The
  answer of `GetCatchUpFrames` is then the next three frames or all that are left
  (`CatchUpIs`), and playing it is a walk along the states: `WhoComesBackIsExact`.
  `StoppedGameIsStill` follows from the actions alone.

Only model-checked:

* All liveness (`EverythingSent`, `FramesHandled`, `PeerNoticed`, `ModeEnds`,
  `StopReturns`): fairness and ENABLED are out of
  this prover's reach. Every safety property a passing run checks is proved.
* The five runs that expect a violation, whose counterexamples are the result.

## 6. Not modelled, and the plan

Not modelled: serialization and dispatch (data, or fixed after start), ELO (two
formulas), metrics and the statistics of the benchmarks (nothing reads them back),
`SessionManager` (a skeleton with stubs), `bench_client`, `bench_server` and
`bench_serialize` (measurements around calls that are modelled), the Godot client and
scripts. Within modelled parts: `FindMatch`, `ClearUpTo` and `Clear`, which only tests
call, the read-only queries, the movement allowance, the heap inside `TimerManager`, the
data race on `handlers_` in `RpcClient::Connect`, a failing write in `GameService::Stop`,
and what happens after a deleted `Connection` or client was used.

Hazards that no property watches are listed as such in `PROJECT.json`, with the reason: where
the code itself does the damage (a stopped game that was destroyed, a record that could not
be read, a second login, a peer that hangs up at once, a client that runs too far ahead, a
reset scene, a number used after its fd was closed), the model has it, a condition of the
properties names it, and section 4 describes it.

The modules were ordered by how much of the server rests on them: rooms, sessions,
matchmaking on rooms, connection, frames, the world with its saves, then the workers,
the client and its use, and the replay. What follows:

1. `Movement`: the allowance of `TryMove`: nobody walks further than the initial allowance
   and the speed times the time that passed.
2. `TimerHeap` as an algorithm against a reference definition.
