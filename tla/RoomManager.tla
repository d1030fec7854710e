---------------------------- MODULE RoomManager ----------------------------
(***************************************************************************)
(* The rooms of the game server: GameRoom (player list, state, one-shot    *)
(* room timer, frame synchronisation), RoomManager (rooms_, player_room_,  *)
(* CheckRoomTimeout) and the handlers of RoomServiceImpl that change them. *)
(* Every handler runs to completion on the IO thread, so one handler is    *)
(* one action; a call the code refuses changes nothing and is no action.   *)
(***************************************************************************)
EXTENDS Integers, Sequences, SequencesExt

CONSTANTS
    Player,       \* player ids a request can carry
    Capacities,   \* values Config::max_players can take
    MaxRooms      \* bound of the model: rooms ever created

ASSUME RoomConstants ==
    /\ Capacities \subseteq Nat \ {0}
    /\ MaxRooms \in Nat

NoRoom == 0
RoomId == 1 .. MaxRooms
RoomState == {"WAITING", "PLAYING", "FINISHED", "DESTROYED"}
Room == [owner : Player, players : Seq(Player), max : Capacities,
         state : RoomState, timer : BOOLEAN, sync : {"none", "running", "stopped"}]

VARIABLES
    rooms,             \* rooms_: the live rooms, by id
    player_room,       \* player_room_: NoRoom where the map has no entry
    room_id_counter    \* room_id_counter_

vars == <<rooms, player_room, room_id_counter>>

\* Mutant: the first id is the one that stands for no room.
InitFromZero ==
    /\ rooms = <<>>
    /\ player_room = [p \in Player |-> NoRoom]
    /\ room_id_counter = 0

Init ==
    /\ rooms = <<>>
    /\ player_room = [p \in Player |-> NoRoom]
    /\ room_id_counter = 1

Live == DOMAIN rooms
Members(room) == ToSet(room.players)

-----------------------------------------------------------------------------
(* GameRoom *)

\* Mutants: AddPlayer without one of its refusals
CanAddTwice(room, p) == room.state = "WAITING" /\ Len(room.players) < room.max
CanAddLate(room, p) == Len(room.players) < room.max /\ p \notin Members(room)

\* AddPlayer's three refusals, in any order: none of them has an effect.
CanAdd(room, p) ==
    /\ room.state = "WAITING"
    /\ Len(room.players) < room.max
    /\ p \notin Members(room)

\* RemovePlayer erases the first match and destroys a room it empties.
RemovePlayer(room, p) ==
    LET left == RemoveFirst(room.players, p)
    IN  [room EXCEPT !.players = left,
                     !.state = IF left = <<>> THEN "DESTROYED" ELSE @]

\* The callback CreateRoom schedules: a game in progress is left alone, and the
\* timer is not armed again.
TimerFired(room) ==
    [room EXCEPT !.timer = FALSE,
                 !.state = IF @ = "PLAYING" THEN @ ELSE "DESTROYED"]

-----------------------------------------------------------------------------
(* RoomManager and RoomServiceImpl *)

\* A room is created IDLE and opened to others (WAITING) before the handler
\* returns; its five-minute timer is armed.
NewRoom(p, max) ==
    [owner |-> p, players |-> <<p>>, max |-> max,
     state |-> "WAITING", timer |-> TRUE, sync |-> "none"]

CreateRoom(p, max) ==
    /\ player_room[p] = NoRoom
    /\ room_id_counter <= MaxRooms
    /\ rooms' = [r \in Live \cup {room_id_counter} |->
                    IF r = room_id_counter THEN NewRoom(p, max) ELSE rooms[r]]
    /\ player_room' = [player_room EXCEPT ![p] = room_id_counter]
    /\ room_id_counter' = room_id_counter + 1

\* Mutant: nobody looks whether the player is in another room.
JoinRoomToo(r, p) ==
    /\ r \in Live
    /\ CanAdd(rooms[r], p)
    /\ rooms' = [rooms EXCEPT ![r].players = Append(@, p)]
    /\ player_room' = [player_room EXCEPT ![p] = r]
    /\ UNCHANGED room_id_counter

JoinRoom(r, p) ==
    /\ r \in Live
    /\ player_room[p] \in {NoRoom, r}
    /\ CanAdd(rooms[r], p)
    /\ rooms' = [rooms EXCEPT ![r].players = Append(@, p)]
    /\ player_room' = [player_room EXCEPT ![p] = r]
    /\ UNCHANGED room_id_counter

\* Also what the disconnect callback does, with r = player_room[p].
LeaveRoom(r, p) ==
    /\ r \in Live
    /\ p \in Members(rooms[r])
    /\ rooms' = [rooms EXCEPT ![r] = RemovePlayer(@, p)]
    /\ player_room' = [player_room EXCEPT ![p] = NoRoom]
    /\ UNCHANGED room_id_counter

\* The owner is compared with the one who created the room, who may have left it.
StartGame(r, p) ==
    /\ r \in Live
    /\ p = rooms[r].owner
    /\ rooms[r].state = "WAITING"
    /\ rooms' = [rooms EXCEPT ![r].state = "PLAYING", ![r].sync = "running"]
    /\ UNCHANGED <<player_room, room_id_counter>>

\* Mutant: the game is over and frames go on.
StopGameOnly(r) ==
    /\ r \in Live
    /\ rooms' = [rooms EXCEPT ![r].state = "FINISHED"]
    /\ UNCHANGED <<player_room, room_id_counter>>

\* No check of who asks, nor of the state the room is in.
StopGame(r) ==
    /\ r \in Live
    /\ rooms' = [rooms EXCEPT ![r].state = "FINISHED",
                              ![r].sync = IF @ = "none" THEN @ ELSE "stopped"]
    /\ UNCHANGED <<player_room, room_id_counter>>

\* player_room_ once the players of the rooms in gone are cleared from it
Cleared(rs, gone) ==
    [p \in Player |-> IF \E r \in gone : p \in Members(rs[r])
                      THEN NoRoom ELSE player_room[p]]

\* Called when a match nobody started times out.
RemoveRoom(r) ==
    /\ r \in Live
    /\ rooms[r].state # "PLAYING"
    /\ rooms' = [q \in Live \ {r} |-> rooms[q]]
    /\ player_room' = Cleared(rooms, {r})
    /\ UNCHANGED room_id_counter

\* The room timers that are due expire: every room waits equally long, so those
\* of the rooms created up to k. Destroyed rooms are then erased.
CheckRoomTimeout(k) ==
    LET ticked == [r \in Live |-> IF r <= k /\ rooms[r].timer
                                  THEN TimerFired(rooms[r]) ELSE rooms[r]]
        gone   == {r \in Live : ticked[r].state = "DESTROYED"}
    IN  /\ rooms' = [r \in Live \ gone |-> ticked[r]]
        /\ player_room' = Cleared(rooms, gone)
        /\ UNCHANGED room_id_counter

-----------------------------------------------------------------------------
Next ==
    \/ \E p \in Player, max \in Capacities : CreateRoom(p, max)
    \/ \E r \in Live, p \in Player : JoinRoom(r, p)
    \/ \E r \in Live, p \in Player : LeaveRoom(r, p)
    \/ \E r \in Live, p \in Player : StartGame(r, p)
    \/ \E r \in Live : StopGame(r)
    \/ \E r \in Live : RemoveRoom(r)
    \/ \E k \in 0 .. room_id_counter - 1 : CheckRoomTimeout(k)

Spec == Init /\ [][Next]_vars

-----------------------------------------------------------------------------
(* Properties *)

TypeOK ==
    /\ Live \subseteq RoomId
    /\ rooms \in [Live -> Room]
    /\ player_room \in [Player -> RoomId \cup {NoRoom}]
    /\ room_id_counter \in 1 .. MaxRooms + 1

\* player_room_ and the rooms' player lists say the same: a player is mapped to
\* a room exactly when that room lists it, so nobody is in two rooms, and
\* whoever is mapped can leave. JoinRoom, LeaveRoom, RemoveRoom and
\* CleanupDestroyed each update the two separately.
MapMatchesRooms ==
    \A p \in Player, r \in RoomId :
        player_room[p] = r <=> r \in Live /\ p \in Members(rooms[r])

\* A room lists a player once: LeaveRoom erases one occurrence, a second one
\* would stay behind (AddPlayer, RemovePlayer).
ListedOnce ==
    \A r \in Live : \A i, j \in DOMAIN rooms[r].players :
        rooms[r].players[i] = rooms[r].players[j] => i = j

\* Frames are produced for every game in progress, and otherwise only for a
\* room that emptied while playing and waits to be erased (StartGame, StopGame,
\* TimerFired).
FramesFollowGame ==
    \A r \in Live :
        /\ rooms[r].state = "PLAYING" => rooms[r].sync = "running"
        /\ rooms[r].sync = "running" => rooms[r].state \in {"PLAYING", "DESTROYED"}

\* Once a room left WAITING it gains no player, does not wait again and, once
\* the game is over, is not played again; its id is never given to another room.
NeverReopens ==
    [][\A r \in Live' :
          IF r \in Live
          THEN rooms[r].state # "WAITING" =>
                  /\ rooms'[r].state # "WAITING"
                  /\ rooms'[r].state = "PLAYING" => rooms[r].state = "PLAYING"
                  /\ Members(rooms'[r]) \subseteq Members(rooms[r])
          ELSE r >= room_id_counter]_vars

=============================================================================
