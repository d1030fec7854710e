------------------------- MODULE RoomManagerProofs -------------------------
(***************************************************************************)
(* For every set of players, of capacities and any number of rooms: the    *)
(* two records of who is where agree, lists have no duplicates and no more *)
(* players than the room was created for, games and frames go together,    *)
(* and no room opens again.                                                *)
(***************************************************************************)
EXTENDS RoomManager, SequenceTheorems, TLAPS

NoDuplicates(s) == \A i, j \in DOMAIN s : s[i] = s[j] => i = j

\* Erasing at an index (RemoveAt)
LEMMA WithoutAt ==
    ASSUME NEW S, NEW s \in Seq(S), NEW k \in 1 .. Len(s)
    PROVE  /\ RemoveAt(s, k) \in Seq(S)
           /\ Len(RemoveAt(s, k)) = Len(s) - 1
           /\ \A i \in 1 .. Len(s) - 1 : RemoveAt(s, k)[i] = IF i < k THEN s[i] ELSE s[i + 1]
<1> DEFINE before == SubSeq(s, 1, k - 1)
           after  == SubSeq(s, k + 1, Len(s))
           t      == before \o after
<1>1. /\ before \in Seq(S) /\ Len(before) = k - 1
      /\ \A i \in 1 .. k - 1 : before[i] = s[i]
  <2>1. \A i \in 1 .. k - 1 : s[i] \in S
    OBVIOUS
  <2>2. QED
    BY <2>1, SubSeqProperties
<1>2. /\ after \in Seq(S) /\ Len(after) = Len(s) - k
      /\ \A i \in 1 .. Len(s) - k : after[i] = s[k + i]
  <2>1. \A i \in k + 1 .. Len(s) : s[i] \in S
    OBVIOUS
  <2>2. /\ after \in Seq(S)
        /\ Len(after) = IF k + 1 <= Len(s) THEN Len(s) - (k + 1) + 1 ELSE 0
        /\ \A i \in 1 .. Len(s) - (k + 1) + 1 : after[i] = s[k + 1 + i - 1]
    BY <2>1, SubSeqProperties
  <2>3. QED
    BY <2>2
<1>3. /\ t \in Seq(S)
      /\ Len(t) = Len(before) + Len(after)
      /\ \A i \in 1 .. Len(before) + Len(after) : t[i] =
            IF i <= Len(before) THEN before[i] ELSE after[i - Len(before)]
  BY <1>1, <1>2, ConcatProperties
<1>4. Len(s) \in Nat
  BY LenProperties
<1>5. RemoveAt(s, k) = t
  BY DEF RemoveAt
<1> HIDE DEF t, before, after
<1>6. ASSUME NEW i \in 1 .. Len(s) - 1
      PROVE  t[i] = IF i < k THEN s[i] ELSE s[i + 1]
  <2>1. t[i] = IF i <= k - 1 THEN before[i] ELSE after[i - (k - 1)]
    BY <1>1, <1>2, <1>3, <1>4
  <2>2. CASE i < k
    BY <1>1, <1>4, <2>1, <2>2
  <2>3. CASE i >= k
    <3>1. i - (k - 1) \in 1 .. Len(s) - k /\ k + (i - (k - 1)) = i + 1
      BY <1>4, <2>3
    <3>2. after[i - (k - 1)] = s[k + (i - (k - 1))]
      BY <1>2, <3>1
    <3>3. QED
      BY <1>4, <2>1, <2>3, <3>1, <3>2
  <2>4. QED
    BY <1>4, <2>2, <2>3
<1>7. Len(t) = Len(s) - 1
  BY <1>1, <1>2, <1>3, <1>4
<1>8. QED
  BY <1>3, <1>5, <1>6, <1>7

\* Erasing the only occurrence of a player from a room's list (RemovePlayer):
\* everybody else stays, once.
LEMMA RemoveFirstOnly ==
    ASSUME NEW S, NEW s \in Seq(S), NEW e \in ToSet(s), NoDuplicates(s)
    PROVE  /\ RemoveFirst(s, e) \in Seq(S)
           /\ Len(RemoveFirst(s, e)) = Len(s) - 1
           /\ ToSet(RemoveFirst(s, e)) = ToSet(s) \ {e}
           /\ NoDuplicates(RemoveFirst(s, e))
<1> DEFINE I == {i \in 1 .. Len(s) : s[i] = e}
<1>1. PICK k \in 1 .. Len(s) : s[k] = e
  BY DEF ToSet
<1>2. I = {k}
  BY <1>1 DEF NoDuplicates
<1>3. SelectInSeq(s, LAMBDA v : v = e) = k
  <2>1. SelectInSeq(s, LAMBDA v : v = e) = IF I # {} THEN Min(I) ELSE 0
    BY DEF SelectInSeq
  <2>2. Min({k}) = k
    BY DEF Min
  <2>3. QED
    BY <1>2, <2>1, <2>2
<1> DEFINE t == RemoveAt(s, k)
<1>4. RemoveFirst(s, e) = t
  BY <1>1, <1>3 DEF RemoveFirst
<1>5. /\ t \in Seq(S)
      /\ Len(t) = Len(s) - 1
      /\ \A i \in 1 .. Len(s) - 1 : t[i] = IF i < k THEN s[i] ELSE s[i + 1]
  BY WithoutAt
<1> HIDE DEF t
<1>6. NoDuplicates(t)
  <2> SUFFICES ASSUME NEW i \in 1 .. Len(s) - 1, NEW j \in 1 .. Len(s) - 1, t[i] = t[j]
               PROVE  i = j
    BY <1>5, LenProperties DEF NoDuplicates
  <2> DEFINE was(n) == IF n < k THEN n ELSE n + 1
  <2>1. was(i) \in DOMAIN s /\ was(j) \in DOMAIN s
    BY LenProperties
  <2>2. s[was(i)] = s[was(j)]
    BY <1>5
  <2>3. was(i) = was(j)
    BY <2>1, <2>2 DEF NoDuplicates
  <2>4. QED
    BY <2>3
<1>7. ToSet(t) = ToSet(s) \ {e}
  <2>1. ASSUME NEW i \in DOMAIN t
        PROVE  t[i] \in ToSet(s) \ {e}
    BY <1>1, <1>5 DEF NoDuplicates, ToSet
  <2>2. ASSUME NEW j \in DOMAIN s, s[j] # e
        PROVE  \E i \in DOMAIN t : t[i] = s[j]
    <3>1. CASE j < k
      <4>1. j \in DOMAIN t /\ t[j] = s[j]
        BY <1>1, <1>5, <3>1
      <4>2. QED
        BY <4>1
    <3>2. CASE j > k
      <4>1. j - 1 \in DOMAIN t /\ t[j - 1] = s[j]
        BY <1>1, <1>5, <3>2
      <4>2. QED
        BY <4>1
    <3>3. QED
      BY <1>1, <2>2, <3>1, <3>2
  <2>3. QED
    BY <2>1, <2>2 DEF ToSet
<1>8. QED
  BY <1>4, <1>5, <1>6, <1>7

\* A player who joins a list they are not on (AddPlayer)
LEMMA AppendNew ==
    ASSUME NEW S, NEW s \in Seq(S), NEW e \in S, e \notin ToSet(s), NoDuplicates(s)
    PROVE  /\ Append(s, e) \in Seq(S)
           /\ Len(Append(s, e)) = Len(s) + 1
           /\ ToSet(Append(s, e)) = ToSet(s) \cup {e}
           /\ NoDuplicates(Append(s, e))
<1>1. /\ Append(s, e) \in Seq(S)
      /\ Len(Append(s, e)) = Len(s) + 1
      /\ \A i \in 1 .. Len(s) : Append(s, e)[i] = s[i]
      /\ Append(s, e)[Len(s) + 1] = e
  OBVIOUS
<1>2. ToSet(Append(s, e)) = ToSet(s) \cup {e}
  BY <1>1 DEF ToSet
<1>3. NoDuplicates(Append(s, e))
  BY <1>1 DEF NoDuplicates, ToSet
<1>4. QED
  BY <1>1, <1>2, <1>3

-----------------------------------------------------------------------------
(* Who is where *)

\* GenerateRoomId has not given out the ids to come.
FreshIds == \A r \in Live : r < room_id_counter

\* No room ever holds more players than it was created for (is_full).
WithinCapacity == \A r \in Live : Len(rooms[r].players) <= rooms[r].max

PlacesInv == TypeOK /\ FreshIds /\ MapMatchesRooms /\ ListedOnce /\ WithinCapacity

\* Of the properties, the two about each list
ListOK(room) == NoDuplicates(room.players) /\ Len(room.players) <= room.max

\* ListedOnce and WithinCapacity say that of every list.
LEMMA ListsOK == ListedOnce /\ WithinCapacity <=> \A r \in Live : ListOK(rooms[r])
BY DEF ListedOnce, WithinCapacity, ListOK, NoDuplicates

\* The manager starts without rooms.
LEMMA InitPlaces == Init => PlacesInv
<1> SUFFICES ASSUME Init
             PROVE  PlacesInv
  OBVIOUS
<1>1. Live = {} /\ rooms \in [Live -> Room]
  BY DEF Init, Live
<1>2. TypeOK
  BY <1>1, RoomConstants DEF Init, TypeOK, NoRoom
<1>3. MapMatchesRooms
  BY <1>1 DEF Init, MapMatchesRooms, NoRoom, RoomId
<1>4. QED
  BY <1>1, <1>2, <1>3 DEF PlacesInv, FreshIds, ListedOnce, WithinCapacity

\* A player's list entry and the map entry of a new room appear together.
LEMMA CreateRoomPlaces ==
    ASSUME PlacesInv, NEW p \in Player, NEW max \in Capacities, CreateRoom(p, max)
    PROVE  PlacesInv'
<1> DEFINE n   == room_id_counter
           new == NewRoom(p, max)
<1>1. /\ n \in RoomId
      /\ n \notin Live
      /\ \A r \in Live : r \in RoomId
  BY RoomConstants DEF PlacesInv, TypeOK, FreshIds, RoomId, CreateRoom
<1>2. new \in Room /\ Members(new) = {p} /\ ListOK(new)
  <2>1. <<p>> \in Seq(Player) /\ Len(<<p>>) = 1 /\ <<p>>[1] = p
    OBVIOUS
  <2>2. Members(new) = {p} /\ NoDuplicates(new.players)
    BY <2>1 DEF NewRoom, Members, ToSet, NoDuplicates
  <2>3. new \in Room
    BY <2>1 DEF NewRoom, Room, RoomState
  <2>4. ListOK(new)
    <3>1. max \in Nat /\ 1 <= max
      BY RoomConstants
    <3>2. Len(new.players) = 1 /\ new.max = max
      BY <2>1 DEF NewRoom
    <3>3. QED
      BY <2>2, <3>1, <3>2 DEF ListOK
  <2>5. QED
    BY <2>2, <2>3, <2>4
<1>3. /\ Live' = Live \cup {n}
      /\ rooms' = [r \in Live \cup {n} |-> IF r = n THEN new ELSE rooms[r]]
      /\ \A r \in Live' : rooms'[r] = IF r = n THEN new ELSE rooms[r]
  BY DEF CreateRoom, Live
<1>4. TypeOK'
  BY <1>1, <1>2, <1>3, RoomConstants DEF PlacesInv, TypeOK, CreateRoom, RoomId
<1>5. FreshIds'
  BY <1>1, <1>3 DEF PlacesInv, TypeOK, FreshIds, CreateRoom, RoomId
<1>6. MapMatchesRooms'
  <2> SUFFICES ASSUME NEW x \in Player, NEW r \in RoomId
               PROVE  player_room'[x] = r <=> r \in Live' /\ x \in Members(rooms'[r])
    BY DEF MapMatchesRooms
  <2>1. player_room[x] = r <=> r \in Live /\ x \in Members(rooms[r])
    BY DEF PlacesInv, MapMatchesRooms
  <2>2. player_room'[x] = IF x = p THEN n ELSE player_room[x]
    BY DEF PlacesInv, TypeOK, CreateRoom
  <2>3. x = p => player_room[x] # r
    BY DEF CreateRoom, NoRoom, RoomId
  <2>4. QED
    BY <1>1, <1>2, <1>3, <2>1, <2>2, <2>3
<1>7. \A r \in Live' : ListOK(rooms'[r])
  BY <1>2, <1>3, ListsOK DEF PlacesInv
<1>8. (ListedOnce /\ WithinCapacity)'
  BY <1>7 DEF ListedOnce, WithinCapacity, ListOK, NoDuplicates
<1>9. QED
  BY <1>4, <1>5, <1>6, <1>8 DEF PlacesInv

\* One room gets a new list and one player's map entry follows: what JoinRoom and
\* LeaveRoom have in common.
LEMMA MovePlaces ==
    ASSUME PlacesInv,
           NEW r \in Live, NEW p \in Player, NEW room \in Room, NEW to \in {r, NoRoom},
           ListOK(room),
           player_room[p] \in {r, NoRoom},
           Members(room) = IF to = r THEN Members(rooms[r]) \cup {p}
                                     ELSE Members(rooms[r]) \ {p},
           rooms' = [rooms EXCEPT ![r] = room],
           player_room' = [player_room EXCEPT ![p] = to],
           UNCHANGED room_id_counter
    PROVE  PlacesInv'
<1>1. /\ Live' = Live
      /\ r \in RoomId /\ r # NoRoom
      /\ \A x \in Live : rooms'[x] = IF x = r THEN room ELSE rooms[x]
  BY RoomConstants DEF PlacesInv, TypeOK, Live, RoomId, NoRoom
<1>2. TypeOK'
  BY <1>1 DEF PlacesInv, TypeOK, Live
<1>3. FreshIds'
  BY <1>1 DEF PlacesInv, FreshIds
<1>4. MapMatchesRooms'
  <2> SUFFICES ASSUME NEW x \in Player, NEW y \in RoomId
               PROVE  player_room'[x] = y <=> y \in Live' /\ x \in Members(rooms'[y])
    BY DEF MapMatchesRooms
  <2>1. player_room[x] = y <=> y \in Live /\ x \in Members(rooms[y])
    BY DEF PlacesInv, MapMatchesRooms
  <2>2. player_room'[x] = IF x = p THEN to ELSE player_room[x]
    BY DEF PlacesInv, TypeOK
  <2>3. y # NoRoom
    BY DEF NoRoom, RoomId
  <2>4. CASE y = r
    BY <1>1, <2>1, <2>2, <2>4
  <2>5. CASE y # r
    BY <1>1, <2>1, <2>2, <2>3, <2>5
  <2>6. QED
    BY <2>4, <2>5
<1>5. \A x \in Live' : ListOK(rooms'[x])
  BY <1>1, ListsOK DEF PlacesInv
<1>6. (ListedOnce /\ WithinCapacity)'
  BY <1>5 DEF ListedOnce, WithinCapacity, ListOK, NoDuplicates
<1>7. QED
  BY <1>2, <1>3, <1>4, <1>6 DEF PlacesInv

\* JoinRoom: AddPlayer refuses whoever is on the list, or one too many.
LEMMA JoinRoomPlaces ==
    ASSUME PlacesInv, NEW r \in Live, NEW p \in Player, JoinRoom(r, p)
    PROVE  PlacesInv'
<1> DEFINE old  == rooms[r]
           room == [old EXCEPT !.players = Append(@, p)]
<1>1. old \in Room /\ old.players \in Seq(Player) /\ old.max \in Nat
  BY RoomConstants DEF PlacesInv, TypeOK, Room
<1>2. NoDuplicates(old.players) /\ p \notin ToSet(old.players) /\ Len(old.players) < old.max
  BY ListsOK DEF PlacesInv, ListOK, JoinRoom, CanAdd, Members
<1>3. /\ Append(old.players, p) \in Seq(Player)
      /\ Len(Append(old.players, p)) = Len(old.players) + 1
      /\ ToSet(Append(old.players, p)) = ToSet(old.players) \cup {p}
      /\ NoDuplicates(Append(old.players, p))
  BY <1>1, <1>2, AppendNew
<1>4. room \in Room /\ room.players = Append(old.players, p) /\ room.max = old.max
  BY <1>1, <1>3 DEF Room
<1>5. ListOK(room) /\ Members(room) = Members(old) \cup {p}
  <2>1. Len(old.players) \in Nat
    BY <1>1, LenProperties
  <2>2. QED
    BY <1>1, <1>2, <1>3, <1>4, <2>1 DEF ListOK, Members
<1>6. /\ rooms' = [rooms EXCEPT ![r] = room]
      /\ player_room' = [player_room EXCEPT ![p] = r]
      /\ player_room[p] \in {r, NoRoom}
      /\ UNCHANGED room_id_counter
  BY DEF JoinRoom, PlacesInv, TypeOK
<1> HIDE DEF room
<1>7. QED
  BY <1>4, <1>5, <1>6, MovePlaces

\* LeaveRoom: a list holds a player once, so erasing the first match is enough.
LEMMA LeaveRoomPlaces ==
    ASSUME PlacesInv, NEW r \in Live, NEW p \in Player, LeaveRoom(r, p)
    PROVE  PlacesInv'
<1> DEFINE old  == rooms[r]
           room == RemovePlayer(old, p)
           left == RemoveFirst(old.players, p)
<1>1. old \in Room /\ old.players \in Seq(Player) /\ old.max \in Nat
  BY RoomConstants DEF PlacesInv, TypeOK, Room
<1>2. NoDuplicates(old.players) /\ p \in ToSet(old.players) /\ Len(old.players) <= old.max
  BY ListsOK DEF PlacesInv, ListOK, LeaveRoom, Members
<1>3. /\ left \in Seq(Player)
      /\ Len(left) = Len(old.players) - 1
      /\ ToSet(left) = ToSet(old.players) \ {p}
      /\ NoDuplicates(left)
  BY <1>1, <1>2, RemoveFirstOnly
<1>4. room \in Room /\ room.players = left /\ room.max = old.max
  <2> HIDE DEF left
  <2>1. room = [old EXCEPT !.players = left,
                           !.state = IF left = <<>> THEN "DESTROYED" ELSE @]
    BY DEF RemovePlayer, left
  <2>2. QED
    BY <1>1, <1>3, <2>1 DEF Room, RoomState
<1>5. ListOK(room) /\ Members(room) = Members(old) \ {p}
  <2>1. Len(old.players) \in Nat
    BY <1>1, LenProperties
  <2>2. QED
    BY <1>1, <1>2, <1>3, <1>4, <2>1 DEF ListOK, Members
<1>6. player_room[p] = r
  BY DEF PlacesInv, TypeOK, MapMatchesRooms, LeaveRoom
<1>7. /\ rooms' = [rooms EXCEPT ![r] = room]
      /\ player_room' = [player_room EXCEPT ![p] = NoRoom]
      /\ UNCHANGED room_id_counter
  BY DEF LeaveRoom
<1>8. r # NoRoom
  BY DEF PlacesInv, TypeOK, RoomId, NoRoom
<1> HIDE DEF room
<1>9. QED
  BY <1>4, <1>5, <1>6, <1>7, <1>8, MovePlaces

\* Lists stay as they are, rooms may go: what the other operations have in common.
LEMMA ErasePlaces ==
    ASSUME PlacesInv, NEW gone \in SUBSET Live,
           rooms' \in [Live \ gone -> Room],
           \A r \in Live \ gone : /\ rooms'[r].players = rooms[r].players
                                  /\ rooms'[r].max = rooms[r].max,
           player_room' = Cleared(rooms, gone),
           UNCHANGED room_id_counter
    PROVE  PlacesInv'
<1>1. Live' = Live \ gone
  BY DEF Live
<1>2. TypeOK'
  BY <1>1 DEF PlacesInv, TypeOK, Cleared
<1>3. FreshIds'
  BY <1>1 DEF PlacesInv, FreshIds
<1>4. MapMatchesRooms'
  <2> SUFFICES ASSUME NEW x \in Player, NEW y \in RoomId
               PROVE  player_room'[x] = y <=> y \in Live' /\ x \in Members(rooms'[y])
    BY DEF MapMatchesRooms
  <2>1. \A r \in RoomId : player_room[x] = r <=> r \in Live /\ x \in Members(rooms[r])
    BY DEF PlacesInv, MapMatchesRooms
  <2>2. y \in Live' => Members(rooms'[y]) = Members(rooms[y])
    BY <1>1 DEF Members
  <2>3. y # NoRoom /\ Live \subseteq RoomId
    BY DEF PlacesInv, TypeOK, NoRoom, RoomId
  <2>4. CASE \E r \in gone : x \in Members(rooms[r])
    <3>1. player_room'[x] = NoRoom
      BY <2>4 DEF Cleared
    <3>2. y \in Live \ gone => x \notin Members(rooms[y])
      BY <2>1, <2>3, <2>4
    <3>3. QED
      BY <1>1, <2>2, <2>3, <3>1, <3>2
  <2>5. CASE ~ \E r \in gone : x \in Members(rooms[r])
    <3>1. player_room'[x] = player_room[x]
      BY <2>5 DEF Cleared
    <3>2. QED
      BY <1>1, <2>1, <2>2, <2>5, <3>1
  <2>6. QED
    BY <2>4, <2>5
<1>5. \A r \in Live' : ListOK(rooms'[r])
  BY <1>1, ListsOK DEF PlacesInv, ListOK
<1>6. (ListedOnce /\ WithinCapacity)'
  BY <1>5 DEF ListedOnce, WithinCapacity, ListOK, NoDuplicates
<1>7. QED
  BY <1>2, <1>3, <1>4, <1>6 DEF PlacesInv

\* Nothing is cleared when no room goes.
LEMMA NothingCleared == TypeOK => Cleared(rooms, {}) = player_room
BY DEF TypeOK, Cleared

\* The operations on games and timers leave the lists alone.
LEMMA GamePlaces ==
    ASSUME PlacesInv,
           \/ \E r \in Live, p \in Player : StartGame(r, p)
           \/ \E r \in Live : StopGame(r)
           \/ \E r \in Live : RemoveRoom(r)
           \/ \E k \in 0 .. room_id_counter - 1 : CheckRoomTimeout(k)
    PROVE  PlacesInv'
<1> USE DEF TypeOK, Live
<1>1. ASSUME NEW r \in Live, NEW p \in Player, StartGame(r, p)
      PROVE  PlacesInv'
  <2>1. /\ rooms' \in [Live \ {} -> Room]
        /\ \A x \in Live \ {} : /\ rooms'[x].players = rooms[x].players
                                /\ rooms'[x].max = rooms[x].max
    BY <1>1 DEF PlacesInv, StartGame, Room, RoomState
  <2>2. player_room' = Cleared(rooms, {}) /\ UNCHANGED room_id_counter
    BY <1>1, NothingCleared DEF PlacesInv, StartGame
  <2>3. QED
    BY <2>1, <2>2, ErasePlaces
<1>2. ASSUME NEW r \in Live, StopGame(r)
      PROVE  PlacesInv'
  <2> DEFINE over == [rooms[r] EXCEPT !.state = "FINISHED",
                                      !.sync = IF @ = "none" THEN @ ELSE "stopped"]
  <2>1. rooms[r] \in Room
    BY DEF PlacesInv
  <2>2. /\ over \in Room
        /\ over.players = rooms[r].players
        /\ over.max = rooms[r].max
    BY <2>1 DEF Room, RoomState
  <2>3. rooms' = [rooms EXCEPT ![r] = over]
    BY <1>2, <2>1 DEF PlacesInv, StopGame, Room
  <2> HIDE DEF over
  <2>4. /\ rooms' \in [Live \ {} -> Room]
        /\ \A x \in Live \ {} : /\ rooms'[x].players = rooms[x].players
                                /\ rooms'[x].max = rooms[x].max
    BY <2>2, <2>3 DEF PlacesInv
  <2>5. player_room' = Cleared(rooms, {}) /\ UNCHANGED room_id_counter
    BY <1>2, NothingCleared DEF PlacesInv, StopGame
  <2>6. QED
    BY <2>4, <2>5, ErasePlaces
<1>3. ASSUME NEW r \in Live, RemoveRoom(r)
      PROVE  PlacesInv'
  <2>1. /\ rooms' \in [Live \ {r} -> Room]
        /\ \A x \in Live \ {r} : rooms'[x] = rooms[x]
        /\ player_room' = Cleared(rooms, {r}) /\ UNCHANGED room_id_counter
    BY <1>3 DEF PlacesInv, RemoveRoom
  <2>2. QED
    BY <2>1, ErasePlaces
<1>4. ASSUME NEW k \in 0 .. room_id_counter - 1, CheckRoomTimeout(k)
      PROVE  PlacesInv'
  <2> DEFINE ticked == [r \in Live |-> IF r <= k /\ rooms[r].timer
                                       THEN TimerFired(rooms[r]) ELSE rooms[r]]
             gone   == {r \in Live : ticked[r].state = "DESTROYED"}
  <2>1. ASSUME NEW r \in Live
        PROVE  /\ ticked[r] \in Room
               /\ ticked[r].players = rooms[r].players
               /\ ticked[r].max = rooms[r].max
    BY DEF PlacesInv, TimerFired, Room, RoomState
  <2>2. /\ rooms' = [r \in Live \ gone |-> ticked[r]]
        /\ player_room' = Cleared(rooms, gone)
        /\ UNCHANGED room_id_counter
    BY <1>4 DEF CheckRoomTimeout
  <2>3. gone \in SUBSET Live
    OBVIOUS
  <2> HIDE DEF ticked, gone
  <2>4. /\ rooms' \in [Live \ gone -> Room]
        /\ \A r \in Live \ gone : /\ rooms'[r].players = rooms[r].players
                                  /\ rooms'[r].max = rooms[r].max
    BY <2>1, <2>2
  <2>5. QED
    BY <2>2, <2>3, <2>4, ErasePlaces
<1>5. QED
  BY <1>1, <1>2, <1>3, <1>4

\* Every handler and every poll keeps the invariant.
LEMMA NextPlaces == PlacesInv /\ [Next]_vars => PlacesInv'
<1> SUFFICES ASSUME PlacesInv, [Next]_vars
             PROVE  PlacesInv'
  OBVIOUS
<1>1. ASSUME NEW p \in Player, NEW max \in Capacities, CreateRoom(p, max)
      PROVE  PlacesInv'
  BY <1>1, CreateRoomPlaces
<1>2. ASSUME NEW r \in Live, NEW p \in Player, JoinRoom(r, p)
      PROVE  PlacesInv'
  BY <1>2, JoinRoomPlaces
<1>3. ASSUME NEW r \in Live, NEW p \in Player, LeaveRoom(r, p)
      PROVE  PlacesInv'
  BY <1>3, LeaveRoomPlaces
<1>4. CASE UNCHANGED vars
  BY <1>4 DEF vars, PlacesInv, TypeOK, FreshIds, MapMatchesRooms, ListedOnce, WithinCapacity,
              Live, Members
<1>5. QED
  BY <1>1, <1>2, <1>3, <1>4, GamePlaces DEF Next

-----------------------------------------------------------------------------
(* The life of one room *)

\* What a step can do to a room that is there before and after it
RoomStep(a, b) ==
    \/ b = a
    \/ \E p \in Player : CanAdd(a, p) /\ b = [a EXCEPT !.players = Append(@, p)]
    \/ \E p \in Members(a) : b = RemovePlayer(a, p)
    \/ a.state = "WAITING" /\ b = [a EXCEPT !.state = "PLAYING", !.sync = "running"]
    \/ b = [a EXCEPT !.state = "FINISHED", !.sync = IF @ = "none" THEN @ ELSE "stopped"]
    \/ b = TimerFired(a)

\* A room that lost its last player is over: it cannot be joined or started
\* (RemovePlayer; StopGame may turn it from DESTROYED into FINISHED).
EmptyRoomsOver ==
    \A r \in Live : rooms[r].players = <<>> => rooms[r].state \in {"DESTROYED", "FINISHED"}

\* A room that waits for players still has its timer (CreateRoom).
WaitingRoomsArmed == \A r \in Live : rooms[r].state = "WAITING" => rooms[r].timer

\* What EmptyRoomsOver, FramesFollowGame and WaitingRoomsArmed say of one room
GameOK(room) ==
    /\ room.players = <<>> => room.state \in {"DESTROYED", "FINISHED"}
    /\ room.state = "PLAYING" => room.sync = "running"
    /\ room.sync = "running" => room.state \in {"PLAYING", "DESTROYED"}
    /\ room.state = "WAITING" => room.timer

\* What NeverReopens says of one room
Onward(a, b) ==
    a.state # "WAITING" =>
        /\ b.state # "WAITING"
        /\ b.state = "PLAYING" => a.state = "PLAYING"
        /\ Members(b) \subseteq Members(a)

\* A room that is in order stays so and never opens again.
LEMMA RoomStepOK ==
    ASSUME NEW a \in Room, NEW b, ListOK(a), GameOK(a), RoomStep(a, b)
    PROVE  GameOK(b) /\ Onward(a, b)
<1> USE DEF Onward
<1>1. CASE b = a
  BY <1>1
<1>2. ASSUME NEW p \in Player, CanAdd(a, p), b = [a EXCEPT !.players = Append(@, p)]
      PROVE  GameOK(b) /\ Onward(a, b)
  <2>1. /\ b.players = Append(a.players, p)
        /\ b.state = a.state /\ b.sync = a.sync /\ b.timer = a.timer
        /\ a.players \in Seq(Player)
    BY <1>2 DEF Room
  <2>2. Append(a.players, p) # <<>>
    <3>1. Len(a.players) \in Nat /\ Len(Append(a.players, p)) = Len(a.players) + 1
      BY <2>1, LenProperties
    <3>2. QED
      BY <3>1, EmptySeq
  <2>3. QED
    BY <1>2, <2>1, <2>2 DEF GameOK, CanAdd
<1>3. ASSUME NEW p \in Members(a), b = RemovePlayer(a, p)
      PROVE  GameOK(b) /\ Onward(a, b)
  <2> DEFINE left == RemoveFirst(a.players, p)
  <2>1. ToSet(left) = ToSet(a.players) \ {p}
    BY RemoveFirstOnly DEF Room, Members, ListOK
  <2>2. /\ b.players = left
        /\ b.state = IF left = <<>> THEN "DESTROYED" ELSE a.state
        /\ b.sync = a.sync /\ b.timer = a.timer
    BY <1>3 DEF RemovePlayer, Room
  <2> HIDE DEF left
  <2>3. Members(b) \subseteq Members(a)
    BY <2>1, <2>2 DEF Members
  <2>4. QED
    BY <2>2, <2>3 DEF GameOK
<1>4. CASE a.state = "WAITING" /\ b = [a EXCEPT !.state = "PLAYING", !.sync = "running"]
  <2>1. b.players = a.players /\ b.state = "PLAYING" /\ b.sync = "running"
    BY <1>4 DEF Room
  <2>2. QED
    BY <1>4, <2>1 DEF GameOK
<1>5. CASE b = [a EXCEPT !.state = "FINISHED", !.sync = IF @ = "none" THEN @ ELSE "stopped"]
  <2>1. b.players = a.players /\ b.state = "FINISHED" /\ b.sync # "running"
    BY <1>5 DEF Room
  <2>2. QED
    BY <2>1 DEF GameOK, Members
<1>6. CASE b = TimerFired(a)
  <2>1. /\ b.players = a.players /\ b.sync = a.sync
        /\ b.state = IF a.state = "PLAYING" THEN a.state ELSE "DESTROYED"
    BY <1>6 DEF TimerFired, Room
  <2>2. QED
    BY <2>1 DEF GameOK, Members
<1>7. QED
  BY <1>1, <1>2, <1>3, <1>4, <1>5, <1>6 DEF RoomStep

\* A room there after a step is a new one, or took a step of a room's life.
LEMMA EveryRoomSteps ==
    ASSUME PlacesInv, [Next]_vars, NEW r \in Live'
    PROVE  IF r \in Live
           THEN RoomStep(rooms[r], rooms'[r])
           ELSE r = room_id_counter /\ GameOK(rooms'[r])
<1> DEFINE Steps == IF r \in Live THEN RoomStep(rooms[r], rooms'[r])
                    ELSE r = room_id_counter /\ GameOK(rooms'[r])
<1> SUFFICES Steps
  OBVIOUS
<1> USE DEF Live
<1>1. rooms \in [Live -> Room]
  BY DEF PlacesInv, TypeOK
<1>2. ASSUME NEW p \in Player, NEW max \in Capacities, CreateRoom(p, max)
      PROVE  Steps
  <2>1. CASE r = room_id_counter
    <3>1. /\ rooms'[r].players = <<p>> /\ rooms'[r].state = "WAITING"
          /\ rooms'[r].timer /\ rooms'[r].sync = "none"
      BY <1>2, <2>1 DEF CreateRoom, NewRoom
    <3>2. r \notin Live
      BY <1>2, <2>1 DEF PlacesInv, FreshIds, TypeOK
    <3>3. <<p>> # <<>>
      OBVIOUS
    <3>4. QED
      BY <2>1, <3>1, <3>2, <3>3 DEF GameOK
  <2>2. CASE r # room_id_counter
    BY <1>2, <2>2 DEF CreateRoom, RoomStep
  <2>3. QED
    BY <2>1, <2>2
<1>3. ASSUME NEW x \in Live, NEW p \in Player, JoinRoom(x, p)
      PROVE  Steps
  <2>1. CanAdd(rooms[x], p) /\ rooms'[x] = [rooms[x] EXCEPT !.players = Append(@, p)]
    BY <1>1, <1>3 DEF JoinRoom
  <2>2. r \in Live /\ (r # x => rooms'[r] = rooms[r])
    BY <1>1, <1>3 DEF JoinRoom
  <2>3. QED
    BY <2>1, <2>2 DEF RoomStep
<1>4. ASSUME NEW x \in Live, NEW p \in Player, LeaveRoom(x, p)
      PROVE  Steps
  <2>1. p \in Members(rooms[x]) /\ rooms'[x] = RemovePlayer(rooms[x], p)
    BY <1>1, <1>4 DEF LeaveRoom
  <2>2. r \in Live /\ (r # x => rooms'[r] = rooms[r])
    BY <1>1, <1>4 DEF LeaveRoom
  <2>3. QED
    BY <2>1, <2>2 DEF RoomStep
<1>5. ASSUME NEW x \in Live, NEW p \in Player, StartGame(x, p)
      PROVE  Steps
  <2>1. /\ rooms[x].state = "WAITING"
        /\ rooms'[x] = [rooms[x] EXCEPT !.state = "PLAYING", !.sync = "running"]
    BY <1>1, <1>5 DEF StartGame, Room
  <2>2. r \in Live /\ (r # x => rooms'[r] = rooms[r])
    BY <1>1, <1>5 DEF StartGame
  <2>3. QED
    BY <2>1, <2>2 DEF RoomStep
<1>6. ASSUME NEW x \in Live, StopGame(x)
      PROVE  Steps
  <2>1. rooms'[x] = [rooms[x] EXCEPT !.state = "FINISHED",
                                     !.sync = IF @ = "none" THEN @ ELSE "stopped"]
    BY <1>1, <1>6 DEF StopGame, Room
  <2>2. r \in Live /\ (r # x => rooms'[r] = rooms[r])
    BY <1>1, <1>6 DEF StopGame
  <2>3. QED
    BY <2>1, <2>2 DEF RoomStep
<1>7. ASSUME NEW x \in Live, RemoveRoom(x)
      PROVE  Steps
  BY <1>7 DEF RemoveRoom, RoomStep
<1>8. ASSUME NEW k \in 0 .. room_id_counter - 1, CheckRoomTimeout(k)
      PROVE  Steps
  <2>1. r \in Live /\ rooms'[r] \in {rooms[r], TimerFired(rooms[r])}
    BY <1>8 DEF CheckRoomTimeout
  <2>2. QED
    BY <2>1 DEF RoomStep
<1>9. CASE UNCHANGED vars
  BY <1>9 DEF vars, RoomStep
<1>10. QED
  BY <1>2, <1>3, <1>4, <1>5, <1>6, <1>7, <1>8, <1>9 DEF Next

GamesInv == PlacesInv /\ \A r \in Live : GameOK(rooms[r])

\* A step keeps every room in order, and reopens none.
LEMMA NextGames ==
    GamesInv /\ [Next]_vars =>
        /\ GamesInv'
        /\ \A r \in Live' : IF r \in Live THEN Onward(rooms[r], rooms'[r])
                            ELSE r >= room_id_counter
<1> SUFFICES ASSUME GamesInv, [Next]_vars
             PROVE  /\ GamesInv'
                    /\ \A r \in Live' : IF r \in Live THEN Onward(rooms[r], rooms'[r])
                                        ELSE r >= room_id_counter
  OBVIOUS
<1>1. PlacesInv /\ PlacesInv'
  BY NextPlaces DEF GamesInv
<1>2. \A r \in Live : rooms[r] \in Room /\ ListOK(rooms[r]) /\ GameOK(rooms[r])
  BY <1>1, ListsOK DEF PlacesInv, TypeOK, GamesInv
<1>3. ASSUME NEW r \in Live'
      PROVE  /\ GameOK(rooms'[r])
             /\ IF r \in Live THEN Onward(rooms[r], rooms'[r]) ELSE r >= room_id_counter
  <2>1. CASE r \in Live
    BY <1>1, <1>2, <2>1, EveryRoomSteps, RoomStepOK
  <2>2. CASE r \notin Live
    BY <1>1, <2>2, EveryRoomSteps DEF PlacesInv, TypeOK
  <2>3. QED
    BY <2>1, <2>2
<1>4. QED
  BY <1>1, <1>3 DEF GamesInv

-----------------------------------------------------------------------------
\* The lists and the map keep the invariant in every reachable state.
THEOREM PlacesInvariance == Spec => []PlacesInv
BY InitPlaces, NextPlaces, PTL DEF Spec

\* Rooms, the map and the id counter keep their types.
THEOREM RoomTypeCorrect == Spec => []TypeOK
<1>1. PlacesInv => TypeOK
  BY DEF PlacesInv
<1>2. QED
  BY <1>1, PlacesInvariance, PTL

\* player_room_ maps a player to a room exactly when that room lists them.
THEOREM PlacesAgree == Spec => []MapMatchesRooms
<1>1. PlacesInv => MapMatchesRooms
  BY DEF PlacesInv
<1>2. QED
  BY <1>1, PlacesInvariance, PTL

\* No list holds a player twice, or more players than the room was created for.
THEOREM ListsSound == Spec => [](ListedOnce /\ WithinCapacity)
<1>1. PlacesInv => ListedOnce /\ WithinCapacity
  BY DEF PlacesInv
<1>2. QED
  BY <1>1, PlacesInvariance, PTL

\* Every room is in order in every reachable state.
THEOREM GamesInvariance == Spec => []GamesInv
<1>1. Init => GamesInv
  <2>1. Init => Live = {}
    BY DEF Init, Live
  <2>2. QED
    BY <2>1, InitPlaces DEF GamesInv
<1>2. GamesInv /\ [Next]_vars => GamesInv'
  BY NextGames
<1>3. QED
  BY <1>1, <1>2, PTL DEF Spec

\* An empty room is over, frames are produced for the games in progress, and a
\* room that waits has a timer (RemovePlayer, StartGame, StopGame, CreateRoom).
THEOREM GamesSound == Spec => [](EmptyRoomsOver /\ FramesFollowGame /\ WaitingRoomsArmed)
<1>1. GamesInv => EmptyRoomsOver /\ FramesFollowGame /\ WaitingRoomsArmed
  BY DEF GamesInv, GameOK, EmptyRoomsOver, FramesFollowGame, WaitingRoomsArmed
<1>2. QED
  BY <1>1, GamesInvariance, PTL

\* No step opens a room again, replays a finished game, lets anybody into a room
\* that is not waiting, or gives a room's id to another.
THEOREM RoomsNeverReopen == Spec => NeverReopens
<1>1. GamesInv /\ [Next]_vars =>
        [\A r \in Live' :
            IF r \in Live
            THEN rooms[r].state # "WAITING" =>
                    /\ rooms'[r].state # "WAITING"
                    /\ rooms'[r].state = "PLAYING" => rooms[r].state = "PLAYING"
                    /\ Members(rooms'[r]) \subseteq Members(rooms[r])
            ELSE r >= room_id_counter]_vars
  BY NextGames DEF Onward
<1>2. QED
  BY <1>1, GamesInvariance, PTL DEF Spec, NeverReopens
=============================================================================
