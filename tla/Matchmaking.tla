---------------------------- MODULE Matchmaking ----------------------------
(***************************************************************************)
(* MatchQueue composed with the rooms: players wait sorted by score, two   *)
(* who fit get a room (OnMatchFound), and a match that nobody starts is    *)
(* undone when its timer fires. Everything runs on the IO thread.          *)
(*                                                                         *)
(* A request names its player and nobody compares the name with the        *)
(* connection it came by; only the logins and the disconnect callback of   *)
(* GameService relate the two. fd_to_player_ and player_conns_ are here    *)
(* for that; how a login comes about is in GameService.tla. The login is   *)
(* its callback, for any connection and any player. A closed fd goes to a  *)
(* later connection, which changes nothing here: every fd may log in.      *)
(*                                                                         *)
(* GameService schedules the match timers and ticks none of its timers;    *)
(* MatchService, which does the same for an owner of its own and has no    *)
(* sessions, has them ticked.                                              *)
(***************************************************************************)
EXTENDS RoomManager

CONSTANTS
    Fd, NoFd, NoPlayer,                 \* fds of connections; no entry in a map
    Score,                              \* ELO scores
    RangeInit, RangePerSec, MaxWait     \* the MatchQueue's parameters

ASSUME MatchConstants ==
    /\ 2 \in Capacities                 \* the room OnMatchFound creates
    /\ NoFd \notin Fd
    /\ NoPlayer \notin Player
    /\ Score \subseteq Nat
    /\ {RangeInit, RangePerSec, MaxWait} \subseteq Nat

VARIABLES
    queue,      \* MatchQueue::queue_
    matches,    \* the match timers scheduled, in the order they will fire
    fd_to_player,   \* fd_to_player_
    player_conns,   \* player_conns_: of each Connection its fd
    strays,     \* history: who waits or plays though no connection is registered
                \* for them, because of a login as somebody else or of a request
    ticking     \* whether the owner ticks its timers

sessions == <<fd_to_player, player_conns>>
matchVars == <<rooms, player_room, room_id_counter, queue, matches, sessions, strays, ticking>>

MatchInit ==
    /\ Init
    /\ queue = <<>>
    /\ matches = <<>>
    /\ fd_to_player = [f \in Fd |-> NoPlayer]
    /\ player_conns = [p \in Player |-> NoFd]
    /\ strays = {}
    /\ ticking \in BOOLEAN

Queued == {queue[i].player : i \in DOMAIN queue}
Registered == {p \in Player : player_conns[p] # NoFd}

\* Who waits for a match or sits in a room
Around == Queued \cup {p \in Player : player_room[p] # NoRoom}

-----------------------------------------------------------------------------
(* MatchQueue *)

Distance(a, b) == IF a.score > b.score THEN a.score - b.score ELSE b.score - a.score

\* waited is in seconds; it stops counting where the range stops growing.
CurrentEloRange(e) == RangeInit + RangePerSec * e.waited

Sorted(entries) == \A i, j \in DOMAIN entries : i < j => entries[i].score <= entries[j].score

\* std::sort leaves the order of equal scores open.
Sorts(entries) ==
    {t \in {[i \in DOMAIN entries |-> entries[f[i]]] :
             f \in Bijection(DOMAIN entries, DOMAIN entries)} : Sorted(t)}

\* Where FindIndex looks for a player
Here(entries, p) == {i \in DOMAIN entries : entries[i].player = p}

\* std::lower_bound in a queue that is sorted
LowerBound(entries, s) ==
    Min({i \in DOMAIN entries : entries[i].score >= s} \cup {Len(entries) + 1})

NewEntry(p, s) == [player |-> p, score |-> s, waited |-> 0]

\* Mutant: a new score does not move the entry.
EnterQueueUnsorted(entries, p, s) ==
    IF Here(entries, p) # {}
    THEN {[entries EXCEPT ![Min(Here(entries, p))].score = s]}
    ELSE {InsertAt(entries, LowerBound(entries, s), NewEntry(p, s))}

\* Who is in the queue gets another score and keeps waiting; a new entry goes
\* before the first that is not smaller.
EnterQueue(entries, p, s) ==
    IF Here(entries, p) # {}
    THEN Sorts([entries EXCEPT ![Min(Here(entries, p))].score = s])
    ELSE {InsertAt(entries, LowerBound(entries, s), NewEntry(p, s))}

\* Without the first entry of p, if there is one (CancelMatch)
Cancelled(entries, p) ==
    IF Here(entries, p) = {} THEN entries ELSE RemoveAt(entries, Min(Here(entries, p)))

\* TryMatch walks through the neighbours once, from the lowest score on; i is
\* the first of a pair if both accept the distance and i is not in a pair yet.
FirstOfPair(entries) ==
    LET first[i \in 0 .. Len(entries)] ==
            /\ i > 0
            /\ i < Len(entries)
            /\ ~first[i - 1]
            /\ LET d == Distance(entries[i], entries[i + 1])
               IN  d <= CurrentEloRange(entries[i]) /\ d <= CurrentEloRange(entries[i + 1])
    IN  {i \in DOMAIN entries : first[i]}

\* Indices in their order: the n-th of I, and the entries at all of them
Nth(I, n) == CHOOSE i \in I : Cardinality({j \in I : j <= i}) = n
Picked(entries, I) == [n \in 1 .. Cardinality(I) |-> entries[Nth(I, n)]]

Pair(entries, i) == <<entries[i], entries[i + 1]>>
Pairs(entries) ==
    [n \in 1 .. Cardinality(FirstOfPair(entries)) |-> Pair(entries, Nth(FirstOfPair(entries), n))]

\* Mutant: the second of a pair stays in the queue.
WithoutFirsts(entries) == Picked(entries, DOMAIN entries \ FirstOfPair(entries))

Unpaired(entries) ==
    LET first == FirstOfPair(entries)
    IN  Picked(entries, DOMAIN entries \ (first \cup {i + 1 : i \in first}))

-----------------------------------------------------------------------------
(* OnMatchFound *)

\* The check of player_room_ in CreateRoom and in the JoinRoom of a new room
Free(st, p) == st.player_room[p] = NoRoom

\* On a record of what it changes: the first player gets a room for two, unless
\* they have one, and the second joins it, unless they are in another. A timer
\* nobody ticks is not kept.
OnMatchFound(st, pair) ==
    LET one  == pair[1].player
        two  == pair[2].player
        r    == st.room_id_counter
        new  == NewRoom(one, 2)
        both == Free(st, two)
        room == IF both THEN [new EXCEPT !.players = Append(@, two)] ELSE new
    IN  IF ~Free(st, one) THEN st
        ELSE [rooms |-> [x \in DOMAIN st.rooms \cup {r} |-> IF x = r THEN room ELSE st.rooms[x]],
              player_room |-> [p \in Player |->
                  IF p = one \/ (p = two /\ both) THEN r ELSE st.player_room[p]],
              room_id_counter |-> r + 1,
              matches |-> IF ticking
                          THEN Append(st.matches, [room |-> r, p1 |-> one, s1 |-> pair[1].score,
                                                   p2 |-> two, s2 |-> pair[2].score])
                          ELSE st.matches]

\* The pairs leave the queue first, then the callback runs for one after the other.
MatchUp(entries, pairs) ==
    LET st == FoldLeft(OnMatchFound,
                       [rooms |-> rooms, player_room |-> player_room,
                        room_id_counter |-> room_id_counter, matches |-> matches],
                       pairs)
    IN  /\ room_id_counter + Len(pairs) <= MaxRooms + 1
        /\ queue' = entries
        /\ rooms' = st.rooms
        /\ player_room' = st.player_room
        /\ room_id_counter' = st.room_id_counter
        /\ matches' = st.matches

-----------------------------------------------------------------------------
(* Requests *)

\* A request for p may come when no connection is registered for p.
Asked(p) ==
    strays' = (strays \cup {x \in {p} : ~ticking /\ player_conns[x] = NoFd}) \cap Around'

\* A request to enter the queue also runs TryMatch, the only place where it runs.
EnterMatch(p, s) ==
    /\ \E entries \in EnterQueue(queue, p, s) : MatchUp(Unpaired(entries), Pairs(entries))
    /\ Asked(p)
    /\ UNCHANGED <<sessions, ticking>>

CancelMatch(p) ==
    /\ p \in Queued
    /\ queue' = Cancelled(queue, p)
    /\ UNCHANGED <<rooms, player_room, room_id_counter, matches, sessions, ticking>>
    /\ Asked(p)

\* The requests about rooms. StopGame asks for nobody's sake.
RoomRequest ==
    /\ \/ \E p \in Player :
             /\ \/ \E max \in Capacities : CreateRoom(p, max)
                \/ \E r \in Live : JoinRoom(r, p)
                \/ \E r \in Live : LeaveRoom(r, p)
                \/ \E r \in Live : StartGame(r, p)
             /\ UNCHANGED queue
             /\ Asked(p)
       \/ \E r \in Live : StopGame(r) /\ UNCHANGED <<queue, strays>>
    /\ UNCHANGED <<matches, sessions, ticking>>

-----------------------------------------------------------------------------
(* Sessions *)

\* UnregisterPlayerConn: fd_to_player_ loses the fd of the connection that p is
\* registered with, which need not be the one at hand.
FdsWithout(p) ==
    IF player_conns[p] # NoFd THEN [fd_to_player EXCEPT ![player_conns[p]] = NoPlayer]
    ELSE fd_to_player
ConnsWithout(p) == [player_conns EXCEPT ![p] = NoFd]

\* The callback of a login that succeeded. A connection that stood for somebody
\* else no longer does; they stay in the queue and in their room.
Login(f, p) ==
    LET old   == fd_to_player[f]
        other == old \notin {p, NoPlayer}
    IN  /\ ~ticking
        /\ fd_to_player' = [(IF other THEN FdsWithout(old) ELSE fd_to_player) EXCEPT ![f] = p]
        /\ player_conns' = [(IF other THEN ConnsWithout(old) ELSE player_conns) EXCEPT ![p] = f]
        /\ strays' = (strays \cup ({old} \cap Around)) \ {p}
        /\ UNCHANGED <<rooms, player_room, room_id_counter, queue, matches, ticking>>

\* What OnPlayerDisconnected does to the rooms
LeaveIfHoused(p) ==
    IF player_room[p] # NoRoom
    THEN LeaveRoom(player_room[p], p)
    ELSE UNCHANGED <<rooms, player_room, room_id_counter>>

\* Mutant: the disconnect callback forgets the queue.
DisconnectRoomOnly(f) ==
    LET p == fd_to_player[f]
    IN  /\ ~ticking
        /\ p # NoPlayer
        /\ LeaveIfHoused(p)
        /\ fd_to_player' = FdsWithout(p)
        /\ player_conns' = ConnsWithout(p)
        /\ strays' = strays \ {p}
        /\ UNCHANGED <<queue, matches, ticking>>

\* OnPlayerDisconnected(fd)
Disconnect(f) ==
    LET p == fd_to_player[f]
    IN  /\ ~ticking
        /\ p # NoPlayer
        /\ LeaveIfHoused(p)
        /\ queue' = Cancelled(queue, p)
        /\ fd_to_player' = FdsWithout(p)
        /\ player_conns' = ConnsWithout(p)
        /\ strays' = strays \ {p}
        /\ UNCHANGED <<matches, ticking>>

-----------------------------------------------------------------------------
(* Time *)

\* Time passes for everybody in the queue.
Wait ==
    /\ \E i \in DOMAIN queue : queue[i].waited < MaxWait
    /\ queue' = [i \in DOMAIN queue |->
                   [queue[i] EXCEPT !.waited = IF @ < MaxWait THEN @ + 1 ELSE @]]
    /\ UNCHANGED <<rooms, player_room, room_id_counter, matches, sessions, strays, ticking>>

\* The timer of a match fires: unless the room is gone or the game is on, the
\* room is removed and the two are back in the queue, with the score they had.
MatchTimeout ==
    /\ ticking
    /\ matches # <<>>
    /\ LET m == Head(matches)
       IN  IF m.room \in Live /\ rooms[m.room].state # "PLAYING"
           THEN /\ RemoveRoom(m.room)
                /\ \E entries \in EnterQueue(queue, m.p1, m.s1) :
                      queue' \in EnterQueue(entries, m.p2, m.s2)
           ELSE UNCHANGED <<rooms, player_room, room_id_counter, queue>>
    /\ matches' = Tail(matches)
    /\ UNCHANGED <<sessions, strays, ticking>>

\* The owner polls the rooms' timers.
Poll ==
    /\ ticking
    /\ \E k \in 0 .. room_id_counter - 1 : CheckRoomTimeout(k)
    /\ UNCHANGED <<queue, matches, sessions, strays, ticking>>

MatchNext ==
    \/ \E p \in Player, s \in Score : EnterMatch(p, s)
    \/ \E p \in Player : CancelMatch(p)
    \/ RoomRequest
    \/ \E f \in Fd, p \in Player : Login(f, p)
    \/ \E f \in Fd : Disconnect(f)
    \/ Wait
    \/ MatchTimeout
    \/ Poll

MatchSpec == MatchInit /\ [][MatchNext]_matchVars

-----------------------------------------------------------------------------
(* Properties *)

\* The queue is sorted and holds a player once: lower_bound and the walk through
\* the neighbours in TryMatch rely on the order, CancelMatch on the single entry.
QueueInOrder ==
    /\ Sorted(queue)
    /\ \A i, j \in DOMAIN queue : queue[i].player = queue[j].player => i = j

\* Whoever waits for a match or sits in a room is registered with a connection,
\* so the end of that connection takes them out of both (OnPlayerDisconnected),
\* unless a login as somebody else left them behind or a request came for them
\* while no connection was registered: those are all the ghosts there are, and
\* the next login and disconnect of theirs remove them. This is the server as
\* built, which ticks no timer.
NoGhosts ==
    ~ticking => /\ Queued \subseteq Registered \cup strays
                /\ \A r \in Live : Members(rooms[r]) \subseteq Registered \cup strays

\* Two whom TryMatch takes out of the queue meet in a room of their own that
\* waits for them, if both were in no room; whoever was in one stays there, and
\* the match is lost for the other.
MatchedMeet ==
    [][\A p \in Player, s \in Score : Len(queue') < Len(queue) /\ EnterMatch(p, s) =>
          LET gone == (Queued \cup {p}) \ Queued'
          IN  \A x \in gone :
                 IF player_room[x] # NoRoom THEN player_room'[x] = player_room[x]
                 ELSE \E y \in gone \ {x} :
                         \/ player_room[y] # NoRoom
                         \/ /\ player_room'[x] = player_room'[y]
                            /\ player_room'[x] \in Live' \ Live
                            /\ Members(rooms'[player_room'[x]]) = {x, y}
                            /\ rooms'[player_room'[x]].state = "WAITING"]_matchVars
=============================================================================
