------------------------------- MODULE World -------------------------------
(***************************************************************************)
(* What the players own and what lies in the world: WorldService, the      *)
(* GameService handlers that change it and save the change, the logins,    *)
(* the database worker that reads and writes for them one after the other, *)
(* and a process that is killed and started again (main never calls Stop). *)
(*                                                                         *)
(* Where a player stands and in which room is up to the client, who moves  *)
(* first: a request out of reach changes nothing and is no action. A cell  *)
(* is a block of a room. Which connection stands for which player is in    *)
(* GameService: here anybody online may leave, or be the one a connection  *)
(* stood for before it logged in as somebody else.                         *)
(***************************************************************************)
EXTENDS Integers, Sequences, FiniteSets, Functions

CONSTANTS
    Player,
    Trees, Rocks,   \* ids of the resources: wood and stone
    Amount,         \* what a resource starts with
    Place,          \* where a building can stand, after rounding
    Cell,           \* blocks of the voxel terrain
    BlockType,      \* block types the clients name
    Building,       \* building types they ask for
    Recipe,         \* recipes they ask for
    MaxChanges,     \* bound of the model: requests that succeed
    MaxQueue,       \* bound of the model: saves queued and logins under way
    MaxCrashes,     \* bound of the model
    MaxMishaps      \* bound of the model: second logins at a time, failures

ASSUME WorldConstants ==
    /\ IsFiniteSet(Player) /\ IsFiniteSet(Trees) /\ IsFiniteSet(Rocks) /\ IsFiniteSet(Cell)
    /\ Trees \cap Rocks = {}
    /\ Trees \cup Rocks # {}
    /\ BlockType \subseteq 0 .. 5
    /\ Building \subseteq {"FLOOR", "WALL", "CAMPFIRE"}
    /\ Recipe \subseteq 1 .. 3
    /\ {Amount, MaxChanges, MaxQueue, MaxCrashes, MaxMishaps} \subseteq Nat

Resource == Trees \cup Rocks
Material == {"wood", "stone", "dirt", "copper"}

VARIABLES
    online,             \* the players in players_
    players,            \* what each owns; of one who left, what they had
    scene,              \* resources_, buildings_, next_building_id_, voxel_edits_
    stored_players,     \* the players collection in Mongo
    stored_scene,       \* the scenes collection
    q,                  \* DbWorker::q_
    logins,             \* the loaded players, on their way back to the loop
    changes,            \* history: requests that succeeded
    crashes,            \* history: restarts
    failed,             \* history: the scene was not read, or not written, once
    mishaps             \* history: how often a player logged in twice at a time, or
                        \* their record was not read, or not written

stores == <<stored_players, stored_scene>>
histories == <<changes, crashes, failed, mishaps>>
vars == <<online, players, scene, stored_players, stored_scene, q, logins, changes, crashes,
          failed, mishaps>>

State == [has : [Material -> Nat], tool : 0 .. 3]
Edit == [action : {"none", "removed", "placed"}, type : 0 .. 5]
BuildingState == [id : Nat \ {0}, owner : Player, type : Building, at : Place]

\* mined is a history: the materials the terrain itself gave. It is kept in the
\* scene so that a restart takes it back together with the edits.
Scene == [resources : [Resource -> Nat], buildings : Seq(BuildingState),
          next_building_id : Nat \ {0}, voxel_edits : [Cell -> Edit],
          mined : [Material -> Nat]]

PlayerTask == [kind : {"player"}, player : Player, state : State]
SceneTask == [kind : {"scene"}, scene : Scene]
LoadTask == [kind : {"load"}, player : Player]
LoginDone == [player : Player, state : State]

-----------------------------------------------------------------------------
(* Players and the scene at the start *)

Nothing == [m \in Material |-> 0]

\* The defaults of PlayerState, also for a player without a record
Newcomer ==
    [has |-> [m \in Material |-> CASE m = "wood" -> 6 [] m = "stone" -> 3
                                   [] m = "dirt" -> 12 [] m = "copper" -> 0],
     tool |-> 0]

SeedDefaultScene ==
    [resources |-> [r \in Resource |-> Amount], buildings |-> <<>>, next_building_id |-> 1,
     voxel_edits |-> [c \in Cell |-> [action |-> "none", type |-> 0]], mined |-> Nothing]

\* The first start finds no scene, seeds one and writes it before anything else.
Init ==
    /\ online = {}
    /\ players = [p \in Player |-> Newcomer]
    /\ scene = SeedDefaultScene
    /\ stored_players = [p \in Player |-> Newcomer]
    /\ stored_scene = SeedDefaultScene
    /\ q = <<>>
    /\ logins = <<>>
    /\ changes = 0
    /\ crashes = 0
    /\ failed = FALSE
    /\ mishaps = [p \in Player |-> 0]

-----------------------------------------------------------------------------
(* Materials *)

One(m) == [x \in Material |-> IF x = m THEN 1 ELSE 0]
Add(has, gain) == [m \in Material |-> has[m] + gain[m]]
Take(has, cost) == [m \in Material |-> has[m] - cost[m]]
Enough(has, cost) == \A m \in Material : has[m] >= cost[m]

ResourceGives(r) == IF r \in Trees THEN One("wood") ELSE One("stone")

BuildingCost(type) ==
    [m \in Material |-> CASE type = "FLOOR" /\ m = "wood" -> 2
                          [] type = "WALL" /\ m = "wood" -> 3
                          [] type = "CAMPFIRE" /\ m = "stone" -> 3
                          [] OTHER -> 0]

RecipeCost(recipe) ==
    [m \in Material |-> CASE m = "wood" -> 2
                          [] recipe = 2 /\ m = "stone" -> 5
                          [] recipe = 3 /\ m = "copper" -> 5
                          [] OTHER -> 0]

\* What a block of a type gives when it is removed; type 0 gives nothing.
BlockGives(type) ==
    CASE type \in {1, 2} -> One("dirt")
      [] type = 3 -> One("stone")
      [] type = 4 -> One("wood")
      [] type = 5 -> One("copper")
      [] OTHER -> Nothing

-----------------------------------------------------------------------------
(* Saving *)

SavePlayer(p, state) == [kind |-> "player", player |-> p, state |-> state]
SaveScene(sc) == [kind |-> "scene", scene |-> sc]

\* A handler's request succeeded: the new states, and the saves it posts.
Apply(p, state, sc, saves) ==
    /\ p \in online
    /\ Len(q) + Len(saves) <= MaxQueue
    /\ players' = [players EXCEPT ![p] = state]
    /\ scene' = sc
    /\ q' = q \o saves
    /\ changes < MaxChanges
    /\ changes' = changes + 1
    /\ UNCHANGED <<online, stores, logins, crashes, failed, mishaps>>

-----------------------------------------------------------------------------
(* Requests *)

Gather(p, r) ==
    LET state == [players[p] EXCEPT !.has = Add(@, ResourceGives(r))]
        sc    == [scene EXCEPT !.resources[r] = @ - 1]
    IN  /\ scene.resources[r] > 0
        /\ Apply(p, state, sc, <<SavePlayer(p, state), SaveScene(sc)>>)

\* Mutant: what stands there already is not looked at.
PlaceBuildingOver(p, type, at) ==
    LET state == [players[p] EXCEPT !.has = Take(@, BuildingCost(type))]
        new   == [id |-> scene.next_building_id, owner |-> p, type |-> type, at |-> at]
        sc    == [scene EXCEPT !.buildings = Append(@, new), !.next_building_id = @ + 1]
    IN  /\ Enough(players[p].has, BuildingCost(type))
        /\ Apply(p, state, sc, <<SavePlayer(p, state), SaveScene(sc)>>)

PlaceBuilding(p, type, at) ==
    LET state == [players[p] EXCEPT !.has = Take(@, BuildingCost(type))]
        new   == [id |-> scene.next_building_id, owner |-> p, type |-> type, at |-> at]
        sc    == [scene EXCEPT !.buildings = Append(@, new), !.next_building_id = @ + 1]
    IN  /\ Enough(players[p].has, BuildingCost(type))
        /\ \A i \in DOMAIN scene.buildings : scene.buildings[i].at # at
        /\ Apply(p, state, sc, <<SavePlayer(p, state), SaveScene(sc)>>)

\* The tools come one after the other; the scene is not concerned.
Craft(p, recipe) ==
    LET state == [has |-> Take(players[p].has, RecipeCost(recipe)), tool |-> recipe]
    IN  /\ players[p].tool < recipe
        /\ players[p].tool >= recipe - 1
        /\ Enough(players[p].has, RecipeCost(recipe))
        /\ Apply(p, state, scene, <<SavePlayer(p, state)>>)

\* Mutants: the client says what a placed block was; a block is removed again.
RemoveBlockAsTold(p, c, type) ==
    LET old     == scene.voxel_edits[c]
        state   == [players[p] EXCEPT !.has = Add(@, BlockGives(type))]
        sc      == [scene EXCEPT !.voxel_edits[c] = [action |-> "removed", type |-> type],
                                 !.mined = IF old.action = "placed" THEN @
                                           ELSE Add(@, BlockGives(type))]
    IN  /\ old.action # "removed"
        /\ Apply(p, state, sc, <<SaveScene(sc), SavePlayer(p, state)>>)
RemoveBlockAgain(p, c, type) ==
    LET old     == scene.voxel_edits[c]
        removed == IF old.action = "placed" THEN old.type ELSE type
        state   == [players[p] EXCEPT !.has = Add(@, BlockGives(removed))]
        sc      == [scene EXCEPT !.voxel_edits[c] = [action |-> "removed", type |-> removed],
                                 !.mined = IF old.action = "placed" THEN @
                                           ELSE Add(@, BlockGives(removed))]
    IN  Apply(p, state, sc, <<SaveScene(sc), SavePlayer(p, state)>>)

\* A block that somebody placed gives what it was made of; of the terrain itself
\* the server knows nothing and believes the client.
RemoveBlock(p, c, type) ==
    LET old     == scene.voxel_edits[c]
        removed == IF old.action = "placed" THEN old.type ELSE type
        state   == [players[p] EXCEPT !.has = Add(@, BlockGives(removed))]
        sc      == [scene EXCEPT !.voxel_edits[c] = [action |-> "removed", type |-> removed],
                                 !.mined = IF old.action = "placed" THEN @
                                           ELSE Add(@, BlockGives(removed))]
    IN  /\ old.action # "removed"
        /\ Apply(p, state, sc, <<SaveScene(sc), SavePlayer(p, state)>>)

\* Only dirt, stone and wood can be placed.
PlaceBlock(p, c, type) ==
    LET state == [players[p] EXCEPT !.has = Take(@, BlockGives(type))]
        sc    == [scene EXCEPT !.voxel_edits[c] = [action |-> "placed", type |-> type]]
    IN  /\ scene.voxel_edits[c].action # "placed"
        /\ type \in 2 .. 4
        /\ Enough(players[p].has, BlockGives(type))
        /\ Apply(p, state, sc, <<SaveScene(sc), SavePlayer(p, state)>>)

-----------------------------------------------------------------------------
(* Players come and go, the worker reads and writes, the process dies *)

SavesOf(p) == {i \in DOMAIN q : q[i].kind = "player" /\ q[i].player = p}
LoadsOf(p) == {i \in DOMAIN q : q[i].kind = "load" /\ q[i].player = p}
LoginsOf(p) == {i \in DOMAIN logins : logins[i].player = p}

\* Load reads back what Upsert wrote: every field, and of the lists what has an id,
\* which everything has.
LoadedPlayer(p) == stored_players[p]
LoadedScene == stored_scene

MishapsLeft == SumFunction(mishaps) + (IF failed THEN 1 ELSE 0) < MaxMishaps

\* A read or a write of the scene fails, which is logged at most.
SceneFails ==
    /\ MishapsLeft
    /\ failed' = TRUE

\* A player logs in twice at a time, or a read or a write of their record fails.
Mishap(p) ==
    /\ MishapsLeft
    /\ mishaps' = [mishaps EXCEPT ![p] = @ + 1]

\* Mutant: the handler reads the record itself, ahead of the saves in the queue.
LoginAtOnce(p) ==
    /\ Len(q) + Len(logins) < MaxQueue
    /\ logins' = Append(logins, [player |-> p, state |-> LoadedPlayer(p)])
    /\ IF p \in online \/ LoginsOf(p) # {} THEN Mishap(p) ELSE UNCHANGED mishaps
    /\ UNCHANGED <<online, players, scene, stores, q, changes, crashes, failed>>

\* A login asks for the record behind what is queued. Nothing stops a second one
\* while the player is online, or while the first is under way.
Login(p) ==
    /\ Len(q) + Len(logins) < MaxQueue
    /\ q' = Append(q, [kind |-> "load", player |-> p])
    /\ IF p \in online \/ LoadsOf(p) # {} \/ LoginsOf(p) # {}
       THEN Mishap(p) ELSE UNCHANGED mishaps
    /\ UNCHANGED <<online, players, scene, stores, logins, changes, crashes, failed>>

\* The worker reads the record, as it is now, and posts the rest to the loop. A
\* record that cannot be read looks like none: the player is taken for a newcomer.
Load ==
    /\ q # <<>>
    /\ Head(q).kind = "load"
    /\ LET p == Head(q).player
           Done(state) == logins' = Append(logins, [player |-> p, state |-> state])
       IN  \/ Done(LoadedPlayer(p)) /\ UNCHANGED mishaps
           \/ Done(Newcomer) /\ Mishap(p)
    /\ q' = Tail(q)
    /\ UNCHANGED <<online, players, scene, stores, changes, crashes, failed>>

\* The player is in the world with the state that was read, also one who is there
\* already and has changed since. A connection that stood for somebody else before
\* saves them and takes them out.
EnterWithState ==
    /\ logins # <<>>
    /\ LET p == Head(logins).player
       IN  /\ players' = [players EXCEPT ![p] = Head(logins).state]
           /\ \/ online' = online \cup {p} /\ UNCHANGED q
              \/ \E old \in online \ {p} :
                    /\ Len(q) < MaxQueue
                    /\ online' = (online \ {old}) \cup {p}
                    /\ q' = Append(q, SavePlayer(old, players[old]))
    /\ logins' = Tail(logins)
    /\ UNCHANGED <<scene, stores, histories>>

\* The password was wrong, or the connection is gone by now.
ForgetLogin ==
    /\ logins # <<>>
    /\ logins' = Tail(logins)
    /\ UNCHANGED <<online, players, scene, stores, q, histories>>

\* OnPlayerDisconnected: the snapshot is taken before the player leaves.
Leave(p) ==
    /\ p \in online
    /\ Len(q) < MaxQueue
    /\ online' = online \ {p}
    /\ q' = Append(q, SavePlayer(p, players[p]))
    /\ UNCHANGED <<players, scene, stores, logins, histories>>

\* The worker takes the oldest save and replaces the whole document, if it can.
WritePlayer ==
    /\ q # <<>>
    /\ Head(q).kind = "player"
    /\ LET p == Head(q).player
       IN  \/ /\ stored_players' = [stored_players EXCEPT ![p] = Head(q).state]
              /\ UNCHANGED mishaps
           \/ UNCHANGED stored_players /\ Mishap(p)
    /\ q' = Tail(q)
    /\ UNCHANGED <<online, players, scene, stored_scene, logins, changes, crashes, failed>>

WriteScene ==
    /\ q # <<>>
    /\ Head(q).kind = "scene"
    /\ \/ stored_scene' = Head(q).scene /\ UNCHANGED failed
       \/ SceneFails /\ UNCHANGED stored_scene
    /\ q' = Tail(q)
    /\ UNCHANGED <<online, players, scene, stored_players, logins, changes, crashes, mishaps>>

\* The process is killed, the queue and the logins under way are lost; the next
\* one loads the scene, which is there and has resources, and the players when
\* they log in. A scene that cannot be read looks like none: the default one is
\* seeded and, if the database works again, written over it.
Restart ==
    /\ crashes < MaxCrashes
    /\ crashes' = crashes + 1
    /\ online' = {}
    /\ players' = [p \in Player |-> LoadedPlayer(p)]
    /\ \/ scene' = LoadedScene /\ UNCHANGED <<stored_scene, failed>>
       \/ /\ SceneFails
          /\ scene' = SeedDefaultScene
          /\ stored_scene' \in {SeedDefaultScene, stored_scene}
    /\ q' = <<>>
    /\ logins' = <<>>
    /\ UNCHANGED <<stored_players, changes, mishaps>>

-----------------------------------------------------------------------------
Next ==
    \/ \E p \in Player, r \in Resource : Gather(p, r)
    \/ \E p \in Player, type \in Building, at \in Place : PlaceBuilding(p, type, at)
    \/ \E p \in Player, recipe \in Recipe : Craft(p, recipe)
    \/ \E p \in Player, c \in Cell, type \in BlockType : RemoveBlock(p, c, type)
    \/ \E p \in Player, c \in Cell, type \in BlockType : PlaceBlock(p, c, type)
    \/ \E p \in Player : Login(p)
    \/ Load
    \/ EnterWithState
    \/ ForgetLogin
    \/ \E p \in Player : Leave(p)
    \/ WritePlayer
    \/ WriteScene
    \/ Restart

Spec == Init /\ [][Next]_vars

-----------------------------------------------------------------------------
(* Properties *)

\* What the collections will hold when the queue is written
Last(I) == CHOOSE i \in I : \A j \in I : j <= i
FinalPlayer(p) == IF SavesOf(p) = {} THEN stored_players[p] ELSE q[Last(SavesOf(p))].state
SceneSaves == {i \in DOMAIN q : q[i].kind = "scene"}
FinalScene == IF SceneSaves = {} THEN stored_scene ELSE q[Last(SceneSaves)].scene

\* Everything is stored or on its way, and nothing older will overwrite it: when
\* the queue is written Mongo holds the world as it is, so only what was queued
\* can be lost (SavePlayerAsync and SaveSceneAsync after each change). This is so
\* for the scene as long as the database did not fail with it, and for a player
\* who logs in one login at a time and whom the database did not fail: then what
\* EnterWithState puts into the world is what the player left with, however long
\* the login took. A second login at a time brings an older state back.
NothingUnsaved ==
    /\ ~failed => scene = FinalScene
    /\ \A p \in Player : mishaps[p] = 0 => players[p] = FinalPlayer(p)

\* What a player owns of a material, also what went into the tools
Worth(state, m) == state.has[m] + SumFunction([t \in 1 .. state.tool |-> RecipeCost(t)[m]])
Owned(ps, m) == SumFunction([p \in Player |-> Worth(ps[p], m)])

\* What there is of it in a scene: left in the resources, built, or placed
Left(sc, m) ==
    SumFunction([r \in Resource |-> IF ResourceGives(r)[m] = 1 THEN sc.resources[r] ELSE 0])
Built(sc, m) ==
    SumFunction([i \in DOMAIN sc.buildings |-> BuildingCost(sc.buildings[i].type)[m]])
InBlock(edit, m) == IF edit.action = "placed" THEN BlockGives(edit.type)[m] ELSE 0
Placed(sc, m) == SumFunction([c \in Cell |-> InBlock(sc.voxel_edits[c], m)])

\* All that came into the world: starter kits, resources, the terrain
Supply(sc, m) ==
    Cardinality(Player) * Newcomer.has[m]
        + Amount * Cardinality({r \in Resource : ResourceGives(r)[m] = 1})
        + sc.mined[m]

Balance(ps, sc, m) ==
    Owned(ps, m) + Left(sc, m) + Built(sc, m) + Placed(sc, m) - Supply(sc, m)

\* Nothing is made of nothing and nothing vanishes, as long as the database did
\* not fail and nobody logs in twice at a time. A restart between the two saves of
\* one request may double or lose what that request moved, three units at most, and
\* no more than that. Nobody ever owes anything, whatever was loaded: every cost is
\* checked before it is taken.
Conserved ==
    /\ ~failed /\ (\A p \in Player : mishaps[p] = 0) =>
          \A m \in Material : Balance(players, scene, m) \in -3 * crashes .. 3 * crashes
    /\ \A p \in Player, m \in Material : players[p].has[m] >= 0

\* The terrain gives a block once: removing and placing in turn is no mine.
MinedOnce ==
    scene.mined["wood"] + scene.mined["stone"] + scene.mined["dirt"] + scene.mined["copper"]
        <= Cardinality({c \in Cell : scene.voxel_edits[c].action # "none"})

\* Buildings have ids of their own and stand apart, also after a restart, which
\* takes next_building_id_ back together with the buildings, whatever was read.
BuildingsApart ==
    \A i, j \in DOMAIN scene.buildings :
        /\ scene.buildings[i].id < scene.next_building_id
        /\ i # j => /\ scene.buildings[i].id # scene.buildings[j].id
                    /\ scene.buildings[i].at # scene.buildings[j].at
=============================================================================
