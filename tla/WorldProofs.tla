----------------------------- MODULE WorldProofs -----------------------------
(***************************************************************************)
(* The world, proved for every set of players, resources, cells, places    *)
(* and requests, every length of the queue and every number of restarts:   *)
(* buildings stand apart, the terrain gives a block once, and everything   *)
(* that is not stored is in the queue, with nothing older behind it, and   *)
(* of every material there is as much as came into the world.              *)
(*                                                                         *)
(* A restart makes the stored scene the current one, and the stored one    *)
(* was queued before. So what is to hold of the scene has to hold of every *)
(* scene there is, the stored and the queued ones too (WorldInv). And the  *)
(* balance has to hold, but for what one request moves, after each of the  *)
(* saves on the way from the stores to the world (BalanceInv).             *)
(*                                                                         *)
(* A login reads the store on the worker and puts what it read into the    *)
(* world later. That this is what the player left with takes OneLogin: the *)
(* load is behind all the player's saves, and none is made until the login *)
(* is done. A second login at a time breaks it, and so may the database.   *)
(***************************************************************************)
EXTENDS World, FiniteSetTheorems, SequenceTheorems, WellFoundedInduction, TLAPS

\* BuildingsApart and MinedOnce, of any one scene
Apart(sc) ==
    \A i, j \in DOMAIN sc.buildings :
        /\ sc.buildings[i].id < sc.next_building_id
        /\ i # j => /\ sc.buildings[i].id # sc.buildings[j].id
                    /\ sc.buildings[i].at # sc.buildings[j].at

Edited(sc) == {c \in Cell : sc.voxel_edits[c].action # "none"}

Mined(sc) == sc.mined["wood"] + sc.mined["stone"] + sc.mined["dirt"] + sc.mined["copper"]

GoodScene == {sc \in Scene : Apart(sc) /\ Mined(sc) <= Cardinality(Edited(sc))}

Task == PlayerTask \cup [kind : {"scene"}, scene : GoodScene] \cup LoadTask

\* The types, with GoodScene for every scene there is
WorldInv ==
    /\ online \subseteq Player
    /\ players \in [Player -> State]
    /\ scene \in GoodScene
    /\ stored_players \in [Player -> State]
    /\ stored_scene \in GoodScene
    /\ q \in Seq(Task)
    /\ logins \in Seq(LoginDone)
    /\ crashes \in Nat
    /\ mishaps \in [Player -> Nat]

\* NothingUnsaved without a choice of the last save: one that no other follows
\* holds what is current, and where there is none the store does.
SceneOnTheWay ==
    /\ SceneSaves = {} => stored_scene = scene
    /\ \A i \in SceneSaves : (\A j \in SceneSaves : j <= i) => q[i].scene = scene

PlayerOnTheWay(p) ==
    /\ SavesOf(p) = {} => stored_players[p] = players[p]
    /\ \A i \in SavesOf(p) : (\A j \in SavesOf(p) : j <= i) => q[i].state = players[p]

\* One login at a time: while it is under way the player is offline, its load is
\* behind all their saves, and once it has read nothing is left to be written.
OneLogin(p) ==
    /\ p \in online => LoadsOf(p) = {} /\ LoginsOf(p) = {}
    /\ LoadsOf(p) # {} => LoginsOf(p) = {}
    /\ \A i, j \in LoadsOf(p) : i = j
    /\ \A i, j \in LoginsOf(p) : i = j
    /\ \A i \in LoadsOf(p), j \in SavesOf(p) : j < i
    /\ \A i \in LoginsOf(p) : SavesOf(p) = {} /\ logins[i].state = stored_players[p]

PlayerInOrder(p) == mishaps[p] = 0 => PlayerOnTheWay(p) /\ OneLogin(p)

OnTheWay ==
    /\ ~failed => SceneOnTheWay
    /\ \A p \in Player : PlayerInOrder(p)

UnsavedInv == WorldInv /\ OnTheWay

-----------------------------------------------------------------------------
(* Materials *)

\* What a block gives is one unit of one material, or nothing.
LEMMA GivesOne ==
    ASSUME NEW type
    PROVE  LET g == BlockGives(type)
           IN  /\ g \in [Material -> 0 .. 1]
               /\ g["wood"] + g["stone"] + g["dirt"] + g["copper"] <= 1
<1>1. /\ Nothing \in [Material -> 0 .. 1]
      /\ Nothing["wood"] + Nothing["stone"] + Nothing["dirt"] + Nothing["copper"] <= 1
  BY DEF Nothing, Material
<1>2. ASSUME NEW m \in Material
      PROVE  LET g == One(m)
             IN  /\ g \in [Material -> 0 .. 1]
                 /\ g["wood"] + g["stone"] + g["dirt"] + g["copper"] <= 1
  BY DEF One, Material
<1>3. "wood" \in Material /\ "stone" \in Material /\ "dirt" \in Material /\ "copper" \in Material
  BY DEF Material
<1>4. \/ BlockGives(type) = Nothing
      \/ \E m \in Material : BlockGives(type) = One(m)
  BY <1>3 DEF BlockGives
<1> QED  BY <1>1, <1>2, <1>4

\* What is added to natural numbers, or taken where there is enough, leaves such.
LEMMA Amounts ==
    ASSUME NEW has \in [Material -> Nat], NEW d \in [Material -> Nat]
    PROVE  /\ Add(has, d) \in [Material -> Nat]
           /\ Enough(has, d) => Take(has, d) \in [Material -> Nat]
BY DEF Add, Enough, Take

\* The costs are natural numbers.
LEMMA Costs ==
    ASSUME NEW x
    PROVE  /\ BuildingCost(x) \in [Material -> Nat]
           /\ RecipeCost(x) \in [Material -> Nat]
           /\ BlockGives(x) \in [Material -> Nat]
           /\ ResourceGives(x) \in [Material -> Nat]
<1>1. BuildingCost(x) \in [Material -> Nat]
  BY DEF BuildingCost
<1>2. RecipeCost(x) \in [Material -> Nat]
  BY DEF RecipeCost
<1>3. BlockGives(x) \in [Material -> Nat]
  <2>1. BlockGives(x) \in [Material -> 0 .. 1]
    BY GivesOne
  <2> QED  BY <2>1
<1>4. ResourceGives(x) \in [Material -> Nat]
  BY DEF ResourceGives, One
<1> QED  BY <1>1, <1>2, <1>3, <1>4

-----------------------------------------------------------------------------
(* Scenes *)

\* The cells that were edited are finitely many.
LEMMA EditedFinite ==
    ASSUME NEW sc
    PROVE  IsFiniteSet(Edited(sc)) /\ Cardinality(Edited(sc)) \in Nat
<1>1. Edited(sc) \in SUBSET Cell
  BY DEF Edited
<1> QED  BY <1>1, WorldConstants, FS_Subset, FS_CardinalityType

\* The default scene is a good one.
LEMMA DefaultIsGood == SeedDefaultScene \in GoodScene
<1> DEFINE sc == SeedDefaultScene
<1>1. sc \in Scene
  <2>1. sc.buildings \in Seq(BuildingState)
    BY DEF SeedDefaultScene
  <2>2. sc.mined \in [Material -> Nat]
    BY DEF SeedDefaultScene, Nothing
  <2>3. sc.voxel_edits \in [Cell -> Edit]
    BY DEF SeedDefaultScene, Edit
  <2>4. sc.resources \in [Resource -> Nat]
    BY WorldConstants DEF SeedDefaultScene
  <2> QED  BY <2>1, <2>2, <2>3, <2>4 DEF Scene, SeedDefaultScene
<1>2. Apart(sc)
  BY DEF Apart, SeedDefaultScene
<1>3. Mined(sc) = 0
  BY DEF Mined, SeedDefaultScene, Nothing, Material
<1>4. Cardinality(Edited(sc)) \in Nat
  BY EditedFinite
<1> HIDE DEF sc
<1>5. sc \in GoodScene
  BY <1>1, <1>2, <1>3, <1>4 DEF GoodScene
<1> QED  BY <1>5 DEF sc

\* A resource with something left gives one unit.
LEMMA GatherIsGood ==
    ASSUME NEW s \in GoodScene, NEW r \in Resource, s.resources[r] > 0
    PROVE  [s EXCEPT !.resources[r] = @ - 1] \in GoodScene
<1> DEFINE sc == [s EXCEPT !.resources[r] = @ - 1]
<1>1. s \in Scene
  BY DEF GoodScene
<1>2. sc \in Scene
  <2> DEFINE resources == [s.resources EXCEPT ![r] = s.resources[r] - 1]
  <2>1. sc = [s EXCEPT !.resources = resources]
    BY <1>1 DEF Scene
  <2>2. resources \in [Resource -> Nat]
    BY <1>1 DEF Scene
  <2> HIDE DEF sc, resources
  <2> QED  BY <1>1, <2>1, <2>2 DEF Scene
<1>3. /\ sc.buildings = s.buildings /\ sc.next_building_id = s.next_building_id
      /\ sc.voxel_edits = s.voxel_edits /\ sc.mined = s.mined
  BY <1>1 DEF Scene
<1> HIDE DEF sc
<1>4. Apart(sc)
  BY <1>3 DEF Apart, GoodScene
<1>5. Mined(sc) = Mined(s) /\ Edited(sc) = Edited(s)
  BY <1>3 DEF Mined, Edited
<1>6. sc \in GoodScene
  BY <1>2, <1>4, <1>5 DEF GoodScene
<1> QED  BY <1>6 DEF sc

\* A new building has the next id, and nothing stands where it is put.
LEMMA BuildingIsGood ==
    ASSUME NEW s \in GoodScene, NEW new \in BuildingState, new.id = s.next_building_id,
           \A i \in DOMAIN s.buildings : s.buildings[i].at # new.at
    PROVE  [s EXCEPT !.buildings = Append(@, new), !.next_building_id = @ + 1] \in GoodScene
<1> DEFINE sc == [s EXCEPT !.buildings = Append(@, new), !.next_building_id = @ + 1]
           n == Len(s.buildings)
<1>1. s \in Scene /\ s.buildings \in Seq(BuildingState) /\ n \in Nat
      /\ s.next_building_id \in Nat \ {0}
  BY DEF GoodScene, Scene
<1>2. /\ sc.buildings = Append(s.buildings, new)
      /\ sc.next_building_id = s.next_building_id + 1
      /\ sc.voxel_edits = s.voxel_edits /\ sc.mined = s.mined
  BY <1>1 DEF Scene
<1>3. /\ Append(s.buildings, new) \in Seq(BuildingState)
      /\ DOMAIN Append(s.buildings, new) = 1 .. n + 1
      /\ DOMAIN s.buildings = 1 .. n
      /\ \A i \in 1 .. n : Append(s.buildings, new)[i] = s.buildings[i]
      /\ Append(s.buildings, new)[n + 1] = new
  BY <1>1
<1>4. sc \in Scene
  <2> DEFINE buildings == Append(s.buildings, new)
             next == s.next_building_id + 1
  <2>1. buildings \in Seq(BuildingState) /\ next \in Nat \ {0}
    BY <1>1, <1>3
  <2>2. sc = [s EXCEPT !.buildings = buildings, !.next_building_id = next]
    OBVIOUS
  <2> HIDE DEF sc, buildings, next
  <2> QED  BY <1>1, <2>1, <2>2 DEF Scene
<1> HIDE DEF sc, n
<1>5. Apart(sc)
  <2> SUFFICES ASSUME NEW i \in 1 .. n + 1, NEW j \in 1 .. n + 1
               PROVE  /\ sc.buildings[i].id < sc.next_building_id
                      /\ i # j => /\ sc.buildings[i].id # sc.buildings[j].id
                                  /\ sc.buildings[i].at # sc.buildings[j].at
    <3>1. DOMAIN sc.buildings = 1 .. n + 1
      BY <1>2, <1>3
    <3> QED  BY <3>1 DEF Apart
  <2>1. \A k \in 1 .. n : /\ s.buildings[k].id < s.next_building_id
                          /\ s.buildings[k].id \in Nat
                          /\ s.buildings[k].at # new.at
    <3> TAKE k \in 1 .. n
    <3>1. s.buildings[k] \in BuildingState
      BY <1>1, ElementOfSeq DEF n
    <3>2. s.buildings[k].id < s.next_building_id
      BY <1>3 DEF GoodScene, Apart
    <3>3. s.buildings[k].id \in Nat
      BY <3>1 DEF BuildingState
    <3> QED  BY <1>3, <3>2, <3>3
  <2>2. new.id = s.next_building_id
    OBVIOUS
  <2>3. sc.buildings[i].id < sc.next_building_id
    BY <1>1, <1>2, <1>3, <2>1, <2>2
  <2>4. ASSUME i # j
        PROVE  /\ sc.buildings[i].id # sc.buildings[j].id
               /\ sc.buildings[i].at # sc.buildings[j].at
    <3>1. CASE i \in 1 .. n /\ j \in 1 .. n
      <4>1. i \in DOMAIN s.buildings /\ j \in DOMAIN s.buildings /\ i # j /\ Apart(s)
        BY <1>3, <2>4, <3>1 DEF GoodScene
      <4>2. /\ s.buildings[i].id # s.buildings[j].id
            /\ s.buildings[i].at # s.buildings[j].at
        BY <4>1 DEF Apart
      <4> QED  BY <1>2, <1>3, <3>1, <4>2
    <3>2. CASE i = n + 1 /\ j \in 1 .. n
      BY <1>1, <1>2, <1>3, <2>1, <2>2, <3>2
    <3>3. CASE j = n + 1 /\ i \in 1 .. n
      BY <1>1, <1>2, <1>3, <2>1, <2>2, <3>3
    <3> QED  BY <1>1, <2>4, <3>1, <3>2, <3>3
  <2> QED  BY <2>3, <2>4
<1>6. Mined(sc) = Mined(s) /\ Edited(sc) = Edited(s)
  BY <1>2 DEF Mined, Edited
<1>7. sc \in GoodScene
  BY <1>4, <1>5, <1>6 DEF GoodScene
<1> QED  BY <1>7 DEF sc

\* A cell is edited; if the terrain gave something, it is the cell's first edit.
LEMMA EditIsGood ==
    ASSUME NEW s \in GoodScene, NEW c \in Cell, NEW e \in Edit, e.action # "none",
           NEW mined \in [Material -> Nat],
           \/ mined = s.mined
           \/ /\ s.voxel_edits[c].action = "none"
              /\ \E type : mined = Add(s.mined, BlockGives(type)),
           NEW sc \in Scene, sc.buildings = s.buildings,
           sc.next_building_id = s.next_building_id,
           sc.voxel_edits = [s.voxel_edits EXCEPT ![c] = e], sc.mined = mined
    PROVE  sc \in GoodScene
<1>1. s \in Scene /\ s.voxel_edits \in [Cell -> Edit] /\ s.mined \in [Material -> Nat]
  BY DEF GoodScene, Scene
<1>3. Apart(sc)
  BY DEF Apart, GoodScene
<1>4. Edited(sc) = Edited(s) \cup {c}
  BY <1>1 DEF Edited
<1>5. /\ IsFiniteSet(Edited(s))
      /\ Cardinality(Edited(s)) \in Nat
      /\ Cardinality(Edited(s) \cup {c}) =
            IF c \in Edited(s) THEN Cardinality(Edited(s)) ELSE Cardinality(Edited(s)) + 1
  BY EditedFinite, FS_AddElement
<1>5a. /\ Cardinality(Edited(sc)) >= Cardinality(Edited(s))
       /\ c \notin Edited(s) => Cardinality(Edited(sc)) = Cardinality(Edited(s)) + 1
       /\ Cardinality(Edited(sc)) \in Nat
  <2>1. Cardinality(Edited(sc)) = Cardinality(Edited(s) \cup {c})
    BY <1>4
  <2> DEFINE k == Cardinality(Edited(s))
             l == Cardinality(Edited(s) \cup {c})
  <2>2. k \in Nat /\ l = IF c \in Edited(s) THEN k ELSE k + 1
    BY <1>5
  <2> HIDE DEF k, l
  <2>3. l >= k /\ (c \notin Edited(s) => l = k + 1) /\ l \in Nat
    BY <2>2
  <2> QED  BY <2>1, <2>3 DEF k, l
<1>6. /\ \A m \in Material : s.mined[m] \in Nat /\ mined[m] \in Nat
      /\ Mined(s) <= Cardinality(Edited(s))
  BY <1>1 DEF GoodScene
<1>6a. "wood" \in Material /\ "stone" \in Material /\ "dirt" \in Material /\ "copper" \in Material
  BY DEF Material
<1>7. CASE mined = s.mined
  <2>1. Mined(sc) = Mined(s) /\ Mined(s) \in Nat
    BY <1>6, <1>6a, <1>7 DEF Mined
  <2>2. Mined(sc) <= Cardinality(Edited(sc))
    BY <1>5, <1>5a, <1>6, <2>1
  <2> QED  BY <1>3, <2>2 DEF GoodScene
<1>8. CASE s.voxel_edits[c].action = "none" /\ \E type : mined = Add(s.mined, BlockGives(type))
  <2>1. PICK type : mined = Add(s.mined, BlockGives(type))
    BY <1>8
  <2> DEFINE g == BlockGives(type)
  <2>2. /\ g \in [Material -> 0 .. 1]
        /\ g["wood"] + g["stone"] + g["dirt"] + g["copper"] <= 1
    BY GivesOne
  <2>3. \A m \in Material : mined[m] = s.mined[m] + g[m] /\ g[m] \in 0 .. 1
    BY <2>1, <2>2 DEF Add
  <2> HIDE DEF g
  <2>4. Mined(sc) <= Mined(s) + 1 /\ Mined(s) \in Nat /\ Mined(sc) \in Nat
    BY <1>6, <1>6a, <2>2, <2>3 DEF Mined
  <2>5. c \notin Edited(s)
    BY <1>8 DEF Edited
  <2>6. Mined(sc) <= Cardinality(Edited(sc))
    BY <1>5, <1>5a, <1>6, <2>4, <2>5
  <2> QED  BY <1>3, <2>6 DEF GoodScene
<1> QED  BY <1>7, <1>8

-----------------------------------------------------------------------------
(* Sums *)

\* Every set of natural numbers has a least one.
LEMMA Least ==
    ASSUME NEW T \in SUBSET Nat, T # {}
    PROVE  \E x \in T : \A y \in T : x <= y
<1> DEFINE R == OpToRel(<, Nat)
<1>1. IsWellFoundedOn(R, Nat)
  BY NatLessThanWellFounded
<1>2. \A x, y \in Nat : y < x => <<y, x>> \in R
  BY DEF OpToRel
<1> HIDE DEF R
<1>3. PICK x \in T : \A y \in T : ~ (<<y, x>> \in R)
  BY <1>1, WFMin
<1>4. \A y \in T : y \in Nat /\ x \in Nat /\ ~(y < x)
  BY <1>2, <1>3
<1> QED  BY <1>4

\* A set of numbers with zero and with the next of each of its members has them all.
LEMMA AllNumbers ==
    ASSUME NEW K \in SUBSET Nat, 0 \in K, \A m \in K : m + 1 \in K
    PROVE  K = Nat
<1> SUFFICES ASSUME Nat \ K # {} PROVE FALSE
  OBVIOUS
<1>1. PICK n \in Nat \ K : \A y \in Nat \ K : n <= y
  <2>1. Nat \ K \in SUBSET Nat
    OBVIOUS
  <2> QED  BY <2>1, Least
<1>2. n \in Nat /\ n # 0
  OBVIOUS
<1>3. n - 1 \in Nat /\ ~(n <= n - 1)
  BY <1>2
<1>4. n - 1 \in K
  BY <1>1, <1>3
<1>5. n - 1 + 1 \in K
  BY <1>4
<1> QED  BY <1>2, <1>5

Chosen(T) == CHOOSE x \in T : TRUE

\* What the sum of f adds up for each set of places
Part(f) ==
    CHOOSE g : g = [T \in SUBSET DOMAIN f |->
                      IF T = {} THEN 0
                      ELSE LET x == CHOOSE x \in T : TRUE IN f[x] + g[T \ {x}]]

\* The sum of a function is that of all its places.
LEMMA SumIs ==
    ASSUME NEW f
    PROVE  SumFunction(f) = Part(f)[DOMAIN f]
BY DEF SumFunction, SumFunctionOnSet, FoldFunctionOnSet, MapThenFoldSet, Part

\* A set loses one when one of its members goes.
LEMMA OneLess ==
    ASSUME NEW T, IsFiniteSet(T), NEW x \in T
    PROVE  /\ IsFiniteSet(T \ {x})
           /\ Cardinality(T) \in Nat /\ Cardinality(T) > 0
           /\ Cardinality(T \ {x}) = Cardinality(T) - 1
<1>1. IsFiniteSet(T \ {x}) /\ Cardinality(T \ {x}) = Cardinality(T) - 1
  BY FS_RemoveElement
<1>2. Cardinality(T) \in Nat /\ Cardinality(T \ {x}) \in Nat
  BY <1>1, FS_CardinalityType
<1> QED  BY <1>1, <1>2

\* g adds up f for every set of Ts; SizedUpTo(D, n) are the subsets of D up to a size.
AddsUp(f, Ts, g) ==
    g = [T \in Ts |-> IF T = {} THEN 0 ELSE f[Chosen(T)] + g[T \ {Chosen(T)}]]
SizedUpTo(D, n) == {T \in SUBSET D : Cardinality(T) <= n}

\* There are sums of the sets up to a size.
LEMMA PartUpTo ==
    ASSUME NEW D, IsFiniteSet(D), NEW f \in [D -> Int], NEW n \in Nat
    PROVE  \E g : AddsUp(f, SizedUpTo(D, n), g)
<1> DEFINE Sets(k) == SizedUpTo(D, k)
           K == {k \in Nat : \E g : AddsUp(f, Sets(k), g)}
<1>1. \A T \in SUBSET D : /\ Cardinality(T) \in Nat
                          /\ T # {} => /\ Chosen(T) \in T /\ Cardinality(T) > 0
                                       /\ Cardinality(T \ {Chosen(T)}) = Cardinality(T) - 1
  <2> TAKE T \in SUBSET D
  <2>1. IsFiniteSet(T)
    BY FS_Subset
  <2>2. Cardinality(T) \in Nat
    BY <2>1, FS_CardinalityType
  <2>3. ASSUME T # {}
        PROVE  Chosen(T) \in T /\ Cardinality(T) > 0
               /\ Cardinality(T \ {Chosen(T)}) = Cardinality(T) - 1
    <3>1. Chosen(T) \in T
      BY <2>3 DEF Chosen
    <3> QED  BY <2>1, <3>1, OneLess
  <2> QED  BY <2>2, <2>3
<1>2. 0 \in K
  <2>1. ASSUME NEW T \in Sets(0) PROVE T = {}
    <3>1. T \in SUBSET D /\ Cardinality(T) <= 0
      BY DEF SizedUpTo
    <3>2. Cardinality(T) \in Nat /\ (T # {} => Cardinality(T) > 0)
      BY <1>1, <3>1
    <3> QED  BY <3>1, <3>2
  <2>2. AddsUp(f, Sets(0), [T \in Sets(0) |-> 0])
    BY <2>1 DEF AddsUp
  <2> QED  BY <2>2
<1>3. ASSUME NEW k \in K PROVE k + 1 \in K
  <2>1. PICK g : AddsUp(f, Sets(k), g)
    OBVIOUS
  <2> DEFINE h == [T \in Sets(k + 1) |->
                     IF T \in Sets(k) THEN g[T] ELSE f[Chosen(T)] + g[T \ {Chosen(T)}]]
  <2>2. k \in Nat
    OBVIOUS
  <2>3. ASSUME NEW T \in Sets(k + 1), T # {} PROVE T \ {Chosen(T)} \in Sets(k)
    <3>1. T \in SUBSET D /\ Cardinality(T) <= k + 1
      BY DEF SizedUpTo
    <3>2. Cardinality(T) \in Nat /\ Cardinality(T \ {Chosen(T)}) = Cardinality(T) - 1
      BY <1>1, <2>3, <3>1
    <3> QED  BY <2>2, <3>1, <3>2 DEF SizedUpTo
  <2>4. ASSUME NEW T \in Sets(k) PROVE T \in Sets(k + 1)
    <3>1. T \in SUBSET D /\ Cardinality(T) <= k
      BY DEF SizedUpTo
    <3>2. Cardinality(T) \in Nat
      BY <1>1, <3>1
    <3> QED  BY <2>2, <3>1, <3>2 DEF SizedUpTo
  <2>5. \A T \in Sets(k) : g[T] = IF T = {} THEN 0 ELSE f[Chosen(T)] + g[T \ {Chosen(T)}]
    BY <2>1 DEF AddsUp
  <2>5a. {} \in Sets(k)
    BY <2>2, FS_EmptySet DEF SizedUpTo
  <2> HIDE DEF Sets
  <2>6. \A T \in Sets(k) : h[T] = g[T]
    BY <2>4
  <2>7. ASSUME NEW T \in Sets(k + 1)
        PROVE  h[T] = IF T = {} THEN 0 ELSE f[Chosen(T)] + h[T \ {Chosen(T)}]
    <3>1. CASE T = {}
      BY <2>5, <2>5a, <2>6, <3>1
    <3>2. CASE T # {} /\ T \in Sets(k)
      <4>1. h[T \ {Chosen(T)}] = g[T \ {Chosen(T)}]
        BY <2>3, <2>6, <3>2
      <4> QED  BY <2>5, <2>6, <3>2, <4>1
    <3>3. CASE T # {} /\ T \notin Sets(k)
      <4>1. h[T \ {Chosen(T)}] = g[T \ {Chosen(T)}]
        BY <2>3, <2>6, <3>3
      <4>2. h[T] = f[Chosen(T)] + g[T \ {Chosen(T)}]
        BY <3>3
      <4> QED  BY <3>3, <4>1, <4>2
    <3> QED  BY <3>1, <3>2, <3>3
  <2>8. h = [T \in Sets(k + 1) |-> h[T]]
    OBVIOUS
  <2> HIDE DEF h
  <2>9. AddsUp(f, Sets(k + 1), h)
    BY <2>7, <2>8 DEF AddsUp
  <2> QED  BY <2>2, <2>9
<1> HIDE DEF K
<1>4. K = Nat
  <2>1. K \in SUBSET Nat
    BY DEF K
  <2> QED  BY <1>2, <1>3, <2>1, AllNumbers
<1> QED  BY <1>4 DEF K

\* The sum of a set is that of the set without one, and that one.
LEMMA PartStep ==
    ASSUME NEW D, IsFiniteSet(D), NEW f \in [D -> Int]
    PROVE  /\ Part(f)[{}] = 0
           /\ \A T \in SUBSET D : T # {} =>
                 Part(f)[T] = f[Chosen(T)] + Part(f)[T \ {Chosen(T)}]
<1> DEFINE g == Part(f)
           n == Cardinality(D)
<1>1. n \in Nat
  BY FS_CardinalityType
<1>2. SUBSET D = SizedUpTo(D, n)
  <2>1. \A T \in SUBSET D : Cardinality(T) <= n
    BY FS_Subset
  <2> QED  BY <2>1 DEF SizedUpTo
<1> HIDE DEF n
<1>3. \E h : AddsUp(f, SUBSET D, h)
  <2>1. \E h : AddsUp(f, SizedUpTo(D, n), h)
    BY <1>1, PartUpTo
  <2> QED  BY <1>2, <2>1, Zenon
<1>4. DOMAIN f = D
  OBVIOUS
<1>5. AddsUp(f, SUBSET D, g)
  <2>1. g = CHOOSE h : AddsUp(f, SUBSET D, h)
    BY <1>4 DEF Part, AddsUp, Chosen
  <2> HIDE DEF g
  <2> QED  BY <1>3, <2>1
<1> HIDE DEF g
<1>6. /\ g[{}] = 0
      /\ \A T \in SUBSET D : T # {} => g[T] = f[Chosen(T)] + g[T \ {Chosen(T)}]
  BY <1>5 DEF AddsUp
<1> QED  BY <1>6 DEF g

\* Sums of integers are integers.
LEMMA PartInt ==
    ASSUME NEW D, IsFiniteSet(D), NEW f \in [D -> Int]
    PROVE  \A T \in SUBSET D : Part(f)[T] \in Int
<1> DEFINE g == Part(f)
           K == {n \in Nat : \A T \in SUBSET D : Cardinality(T) = n => g[T] \in Int}
<1>1. /\ g[{}] = 0
      /\ \A T \in SUBSET D : T # {} => g[T] = f[Chosen(T)] + g[T \ {Chosen(T)}]
  BY PartStep
<1>2. \A T \in SUBSET D : IsFiniteSet(T) /\ Cardinality(T) \in Nat
  BY FS_Subset, FS_CardinalityType
<1> HIDE DEF g
<1>3. 0 \in K
  <2>1. \A T \in SUBSET D : Cardinality(T) = 0 => T = {}
    BY <1>2, FS_EmptySet
  <2>2. ASSUME NEW T \in SUBSET D, Cardinality(T) = 0 PROVE g[T] \in Int
    <3>1. T = {} /\ g[{}] \in Int
      BY <1>1, <2>1, <2>2
    <3> QED  BY <3>1
  <2> QED  BY <2>2
<1>4. ASSUME NEW n \in K PROVE n + 1 \in K
  <2>1. n \in Nat /\ \A T \in SUBSET D : Cardinality(T) = n => g[T] \in Int
    OBVIOUS
  <2>2. ASSUME NEW T \in SUBSET D, Cardinality(T) = n + 1 PROVE g[T] \in Int
    <3> DEFINE y == Chosen(T)
    <3>1. T # {} /\ y \in T
      <4>1. Cardinality({}) = 0 /\ n + 1 # 0
        BY <2>1, FS_EmptySet
      <4>2. T # {}
        BY <2>2, <4>1
      <4> QED  BY <4>2 DEF Chosen
    <3>1a. g[T] = f[y] + g[T \ {y}]
      BY <1>1, <3>1
    <3> HIDE DEF y
    <3>2. Cardinality(T \ {y}) = n /\ T \ {y} \in SUBSET D
      BY <1>2, <2>1, <2>2, <3>1, OneLess
    <3>3. g[T \ {y}] \in Int /\ f[y] \in Int
      BY <2>1, <3>1, <3>2
    <3> QED  BY <3>1a, <3>3
  <2> QED  BY <2>1, <2>2
<1> HIDE DEF K
<1>5. K = Nat
  <2>1. K \in SUBSET Nat
    BY DEF K
  <2> QED  BY <1>3, <1>4, <2>1, AllNumbers
<1>6. ASSUME NEW T \in SUBSET D PROVE g[T] \in Int
  <2>1. Cardinality(T) \in K
    BY <1>2, <1>5
  <2> QED  BY <2>1 DEF K
<1> QED  BY <1>6 DEF g

\* A sum adds up its numbers in any order: each of them may be the last.
LEMMA PartWithout ==
    ASSUME NEW D, IsFiniteSet(D), NEW f \in [D -> Int]
    PROVE  \A T \in SUBSET D : \A x \in T : Part(f)[T] = f[x] + Part(f)[T \ {x}]
<1> DEFINE g == Part(f)
           Holds(T) == \A x \in T : g[T] = f[x] + g[T \ {x}]
           K == {n \in Nat : \A T \in SUBSET D : Cardinality(T) = n => Holds(T)}
<1>1. \A T \in SUBSET D : T # {} => g[T] = f[Chosen(T)] + g[T \ {Chosen(T)}]
  BY PartStep
<1>2. \A T \in SUBSET D : IsFiniteSet(T) /\ Cardinality(T) \in Nat /\ g[T] \in Int
  BY FS_Subset, FS_CardinalityType, PartInt
<1> HIDE DEF g
<1>3. 0 \in K
  <2>1. \A T \in SUBSET D : Cardinality(T) = 0 => T = {}
    BY <1>2, FS_EmptySet
  <2> QED  BY <2>1
<1>4. ASSUME NEW n \in K PROVE n + 1 \in K
  <2>1. n \in Nat /\ \A T \in SUBSET D : Cardinality(T) = n => Holds(T)
    OBVIOUS
  <2>2. ASSUME NEW T \in SUBSET D, Cardinality(T) = n + 1, NEW x \in T
        PROVE  g[T] = f[x] + g[T \ {x}]
    <3> DEFINE y == Chosen(T)
               U == T \ {x}
               V == T \ {y}
               W == V \ {x}
    <3>1. y \in T
      BY DEF Chosen
    <3>2. g[T] = f[y] + g[V]
      BY <1>1
    <3>3. U \in SUBSET D /\ V \in SUBSET D /\ W \in SUBSET D
      OBVIOUS
    <3>4. CASE x = y
      BY <3>2, <3>4
    <3>5. CASE x # y
      <4>1. x \in V /\ y \in U /\ U \ {y} = W
        BY <3>1, <3>5
      <4> HIDE DEF y
      <4>2. Cardinality(U) = n /\ Cardinality(V) = n
        BY <1>2, <2>1, <2>2, <3>1, OneLess
      <4>3. Holds(U) /\ Holds(V)
        BY <2>1, <3>3, <4>2
      <4> HIDE DEF U, V
      <4>4. g[V] = f[x] + g[W] /\ g[U] = f[y] + g[W]
        BY <4>1, <4>3
      <4>5. f[x] \in Int /\ f[y] \in Int /\ g[U] \in Int /\ g[V] \in Int /\ g[W] \in Int
        BY <1>2, <3>1, <3>3
      <4>6. g[T] = f[x] + g[U]
        BY <3>2, <4>4, <4>5
      <4> QED  BY <4>6 DEF U
    <3> QED  BY <3>4, <3>5
  <2> QED  BY <2>1, <2>2
<1> HIDE DEF K
<1>5. K = Nat
  <2>1. K \in SUBSET Nat
    BY DEF K
  <2> QED  BY <1>3, <1>4, <2>1, AllNumbers
<1>6. ASSUME NEW T \in SUBSET D PROVE Holds(T)
  <2>1. Cardinality(T) \in K
    BY <1>2, <1>5
  <2> QED  BY <2>1 DEF K
<1> QED  BY <1>6 DEF g

\* Two functions that agree on a set have the same sum there.
LEMMA PartSame ==
    ASSUME NEW D, IsFiniteSet(D), NEW f \in [D -> Int],
           NEW E, IsFiniteSet(E), NEW h \in [E -> Int],
           NEW T \in SUBSET (D \cap E), \A x \in T : f[x] = h[x]
    PROVE  Part(f)[T] = Part(h)[T]
<1> DEFINE K == {n \in Nat : \A U \in SUBSET T : Cardinality(U) = n => Part(f)[U] = Part(h)[U]}
<1>1. \A U \in SUBSET T : IsFiniteSet(U) /\ Cardinality(U) \in Nat
  BY FS_Subset, FS_CardinalityType
<1>2. Part(f)[{}] = 0 /\ Part(h)[{}] = 0
  BY PartStep
<1>3. \A U \in SUBSET T : U # {} =>
          /\ Part(f)[U] = f[Chosen(U)] + Part(f)[U \ {Chosen(U)}]
          /\ Part(h)[U] = h[Chosen(U)] + Part(h)[U \ {Chosen(U)}]
          /\ Chosen(U) \in U
  <2> TAKE U \in SUBSET T
  <2>1. U \in SUBSET D /\ U \in SUBSET E
    OBVIOUS
  <2>2. U # {} => Chosen(U) \in U
    BY DEF Chosen
  <2>3. U # {} => Part(f)[U] = f[Chosen(U)] + Part(f)[U \ {Chosen(U)}]
    BY <2>1, PartStep
  <2>4. U # {} => Part(h)[U] = h[Chosen(U)] + Part(h)[U \ {Chosen(U)}]
    BY <2>1, PartStep
  <2> QED  BY <2>2, <2>3, <2>4
<1>4. 0 \in K
  <2>1. \A U \in SUBSET T : Cardinality(U) = 0 => U = {}
    BY <1>1, FS_EmptySet
  <2> QED  BY <1>2, <2>1
<1>5. ASSUME NEW n \in K PROVE n + 1 \in K
  <2>1. n \in Nat /\ \A U \in SUBSET T : Cardinality(U) = n => Part(f)[U] = Part(h)[U]
    OBVIOUS
  <2>2. ASSUME NEW U \in SUBSET T, Cardinality(U) = n + 1 PROVE Part(f)[U] = Part(h)[U]
    <3> DEFINE y == Chosen(U)
    <3>1. U # {}
      BY <2>1, <2>2, FS_EmptySet
    <3>2. /\ Part(f)[U] = f[y] + Part(f)[U \ {y}]
          /\ Part(h)[U] = h[y] + Part(h)[U \ {y}]
          /\ y \in U
      BY <1>3, <3>1
    <3> HIDE DEF y
    <3>3. Cardinality(U \ {y}) = n /\ U \ {y} \in SUBSET T
      BY <1>1, <2>1, <2>2, <3>2, OneLess
    <3>4. Part(f)[U \ {y}] = Part(h)[U \ {y}] /\ f[y] = h[y]
      BY <2>1, <3>2, <3>3
    <3> QED  BY <3>2, <3>4
  <2> QED  BY <2>1, <2>2
<1> HIDE DEF K
<1>6. K = Nat
  <2>1. K \in SUBSET Nat
    BY DEF K
  <2> QED  BY <1>4, <1>5, <2>1, AllNumbers
<1>7. Cardinality(T) \in K
  BY <1>1, <1>6
<1> QED  BY <1>7 DEF K

\* A sum of integers is one.
LEMMA SumInt ==
    ASSUME NEW D, IsFiniteSet(D), NEW f \in [D -> Int]
    PROVE  SumFunction(f) \in Int
<1>1. DOMAIN f = D
  OBVIOUS
<1> QED  BY <1>1, SumIs, PartInt

\* One number changes, and the sum changes by as much.
LEMMA SumChanged ==
    ASSUME NEW D, IsFiniteSet(D), NEW f \in [D -> Int], NEW h \in [D -> Int], NEW x \in D,
           \A y \in D : y # x => h[y] = f[y]
    PROVE  SumFunction(h) = SumFunction(f) + (h[x] - f[x])
<1> DEFINE T == D \ {x}
<1>1. SumFunction(f) = Part(f)[D] /\ SumFunction(h) = Part(h)[D]
  BY SumIs
<1>2. Part(f)[D] = f[x] + Part(f)[T] /\ Part(h)[D] = h[x] + Part(h)[T]
  BY PartWithout
<1>3. Part(f)[T] = Part(h)[T] /\ Part(f)[T] \in Int
  <2>1. T \in SUBSET (D \cap D) /\ T \in SUBSET D /\ \A y \in T : f[y] = h[y]
    OBVIOUS
  <2> HIDE DEF T
  <2> QED  BY <2>1, PartSame, PartInt
<1>4. f[x] \in Int /\ h[x] \in Int
  OBVIOUS
<1> HIDE DEF T
<1> QED  BY <1>1, <1>2, <1>3, <1>4

\* A sum is that of one number less, and that number.
LEMMA SumWithout ==
    ASSUME NEW D, IsFiniteSet(D), NEW f \in [D -> Int], NEW x \in D,
           NEW E, NEW h \in [E -> Int],
           \A y \in E : y \in D /\ y # x /\ h[y] = f[y],
           \A y \in D : y # x => y \in E
    PROVE  SumFunction(f) = SumFunction(h) + f[x]
<1>0. E = D \ {x}
  OBVIOUS
<1>1. IsFiniteSet(E)
  BY <1>0, FS_Subset
<1>2. SumFunction(f) = Part(f)[D] /\ SumFunction(h) = Part(h)[E]
  BY SumIs
<1>3. Part(f)[D] = f[x] + Part(f)[E]
  BY <1>0, PartWithout
<1>4. Part(f)[E] = Part(h)[E] /\ Part(f)[E] \in Int
  <2>1. E \in SUBSET (D \cap E) /\ E \in SUBSET D /\ \A y \in E : f[y] = h[y]
    OBVIOUS
  <2> QED  BY <1>1, <2>1, PartSame, PartInt
<1>5. f[x] \in Int
  OBVIOUS
<1> QED  BY <1>2, <1>3, <1>4, <1>5

\* The sum of a number that is there for some places, and zero for the others
LEMMA SumSome ==
    ASSUME NEW D, IsFiniteSet(D), NEW A \in SUBSET D, NEW c \in Int,
           NEW f \in [D -> Int], \A x \in D : f[x] = IF x \in A THEN c ELSE 0
    PROVE  SumFunction(f) = c * Cardinality(A)
<1> DEFINE g == Part(f)
           Holds(T) == g[T] = c * Cardinality(T \cap A)
           K == {n \in Nat : \A T \in SUBSET D : Cardinality(T) = n => Holds(T)}
<1>1. \A T \in SUBSET D : /\ IsFiniteSet(T) /\ Cardinality(T) \in Nat
                          /\ IsFiniteSet(T \cap A) /\ Cardinality(T \cap A) \in Nat
                          /\ g[T] \in Int
  BY FS_Subset, FS_CardinalityType, PartInt
<1>2. g[{}] = 0 /\ \A T \in SUBSET D : \A x \in T : g[T] = f[x] + g[T \ {x}]
  BY PartStep, PartWithout
<1> HIDE DEF g
<1>3. 0 \in K
  <2>1. \A T \in SUBSET D : Cardinality(T) = 0 => T = {}
    BY <1>1, FS_EmptySet
  <2>2. Holds({})
    <3>1. Cardinality({} \cap A) = 0
      BY FS_EmptySet
    <3> QED  BY <1>2, <3>1
  <2> QED  BY <2>1, <2>2
<1>4. ASSUME NEW n \in K PROVE n + 1 \in K
  <2>1. n \in Nat /\ \A T \in SUBSET D : Cardinality(T) = n => Holds(T)
    OBVIOUS
  <2>2. ASSUME NEW T \in SUBSET D, Cardinality(T) = n + 1 PROVE Holds(T)
    <3>1. PICK x : x \in T
      <4>1. Cardinality({}) = 0 /\ n + 1 # 0
        BY <2>1, FS_EmptySet
      <4> QED  BY <2>2, <4>1
    <3> DEFINE U == T \ {x}
               a == Cardinality(U \cap A)
    <3>2. Cardinality(U) = n /\ U \in SUBSET D
      <4>1. IsFiniteSet(T)
        BY <1>1
      <4>2. Cardinality(U) = (n + 1) - 1
        BY <2>2, <3>1, <4>1, OneLess
      <4> QED  BY <2>1, <4>2
    <3>3. g[T] = f[x] + g[U] /\ g[U] = c * a /\ a \in Nat
      BY <1>1, <1>2, <2>1, <3>1, <3>2
    <3>4. CASE x \in A
      <4>1. (T \cap A) \ {x} = U \cap A /\ x \in T \cap A /\ IsFiniteSet(T \cap A)
        BY <1>1, <3>1, <3>4
      <4>2. Cardinality(T \cap A) = a + 1
        <5>1. /\ Cardinality((T \cap A) \ {x}) = Cardinality(T \cap A) - 1
              /\ Cardinality(T \cap A) \in Nat
          BY <4>1, OneLess
        <5>2. a = Cardinality(T \cap A) - 1
          BY <4>1, <5>1
        <5> HIDE DEF a
        <5> QED  BY <3>3, <5>1, <5>2
      <4>3. f[x] = c
        BY <3>1, <3>4
      <4> HIDE DEF a, U
      <4>4. c * (a + 1) = c + c * a
        BY <3>3
      <4> QED  BY <3>3, <4>2, <4>3, <4>4
    <3>5. CASE x \notin A
      <4>1. T \cap A = U \cap A
        BY <3>5
      <4>2. f[x] = 0
        BY <3>1, <3>5
      <4>3. g[U] \in Int
        BY <1>1, <3>2
      <4>4. g[T] = g[U]
        BY <3>3, <4>2, <4>3
      <4> QED  BY <3>3, <4>1, <4>4
    <3> QED  BY <3>4, <3>5
  <2> QED  BY <2>1, <2>2
<1> HIDE DEF K
<1>5. K = Nat
  <2>1. K \in SUBSET Nat
    BY DEF K
  <2> QED  BY <1>3, <1>4, <2>1, AllNumbers
<1>6. Cardinality(D) \in K /\ D \in SUBSET D
  BY <1>1, <1>5
<1>7. Holds(D)
  BY <1>6 DEF K
<1>8. D \cap A = A /\ DOMAIN f = D
  OBVIOUS
<1> QED  BY <1>7, <1>8, SumIs DEF g

-----------------------------------------------------------------------------
(* Balances *)

\* The amounts are integers.
LEMMA AmountsAreInts ==
    ASSUME NEW m \in Material
    PROVE  /\ \A x : /\ BuildingCost(x)[m] \in Nat
                     /\ RecipeCost(x)[m] \in Nat
                     /\ BlockGives(x)[m] \in 0 .. 1
                     /\ ResourceGives(x)[m] \in 0 .. 1
           /\ \A x : BuildingCost(x)[m] <= 3
           /\ Newcomer.has[m] \in Nat
<1>1. ASSUME NEW x
      PROVE  /\ BuildingCost(x)[m] \in Nat /\ BuildingCost(x)[m] <= 3
             /\ RecipeCost(x)[m] \in Nat
             /\ BlockGives(x)[m] \in 0 .. 1
             /\ ResourceGives(x)[m] \in 0 .. 1
  <2>1. BuildingCost(x)[m] \in Nat /\ BuildingCost(x)[m] <= 3
    BY DEF BuildingCost
  <2>2. RecipeCost(x)[m] \in Nat
    BY Costs
  <2>3. BlockGives(x)[m] \in 0 .. 1
    BY GivesOne
  <2>4. ResourceGives(x)[m] \in 0 .. 1
    BY DEF ResourceGives, One
  <2> QED  BY <2>1, <2>2, <2>3, <2>4
<1>2. Newcomer.has[m] \in Nat
  BY DEF Newcomer, Material
<1> QED  BY <1>1, <1>2

\* Intervals are finite.
LEMMA UpToFinite ==
    ASSUME NEW n \in Nat
    PROVE  IsFiniteSet(1 .. n)
BY FS_Interval

Tools(n, m) == [t \in 1 .. n |-> RecipeCost(t)[m]]

\* What a player owns is an integer.
LEMMA WorthIs ==
    ASSUME NEW st \in State, NEW m \in Material
    PROVE  /\ Worth(st, m) = st.has[m] + SumFunction(Tools(st.tool, m))
           /\ SumFunction(Tools(st.tool, m)) \in Int
           /\ st.has[m] \in Nat
           /\ Worth(st, m) \in Int
<1>1. st.has[m] \in Nat /\ st.tool \in Nat
  BY DEF State
<1> DEFINE D == 1 .. st.tool
           f == Tools(st.tool, m)
<1>2. f \in [D -> Int] /\ IsFiniteSet(D)
  <2>1. f \in [D -> Int]
    BY AmountsAreInts DEF Tools
  <2>2. IsFiniteSet(D)
    BY <1>1, UpToFinite
  <2> QED  BY <2>1, <2>2
<1>3. SumFunction(f) \in Int
  <2> HIDE DEF D, f
  <2> QED  BY <1>2, SumInt
<1>4. Worth(st, m) = st.has[m] + SumFunction(Tools(st.tool, m))
  BY DEF Worth, Tools
<1> QED  BY <1>1, <1>3, <1>4

\* Materials change hands.
LEMMA WorthOfHas ==
    ASSUME NEW st \in State, NEW has \in [Material -> Nat], NEW m \in Material
    PROVE  Worth([st EXCEPT !.has = has], m) = Worth(st, m) + (has[m] - st.has[m])
<1> DEFINE new == [st EXCEPT !.has = has]
<1>1. new \in State /\ new.has = has /\ new.tool = st.tool
  BY DEF State
<1> HIDE DEF new
<1>2. /\ Worth(new, m) = has[m] + SumFunction(Tools(st.tool, m))
      /\ Worth(st, m) = st.has[m] + SumFunction(Tools(st.tool, m))
      /\ SumFunction(Tools(st.tool, m)) \in Int /\ st.has[m] \in Nat /\ has[m] \in Nat
  BY <1>1, WorthIs
<1>3. Worth(new, m) = Worth(st, m) + (has[m] - st.has[m])
  BY <1>2
<1> QED  BY <1>3 DEF new

\* A tool is worth what it took.
LEMMA WorthOfTool ==
    ASSUME NEW st \in State, NEW recipe \in 1 .. 3, st.tool = recipe - 1,
           Enough(st.has, RecipeCost(recipe)), NEW m \in Material
    PROVE  Worth([has |-> Take(st.has, RecipeCost(recipe)), tool |-> recipe], m) = Worth(st, m)
<1> DEFINE cost == RecipeCost(recipe)
           new  == [has |-> Take(st.has, cost), tool |-> recipe]
           f    == Tools(st.tool, m)
           h    == Tools(recipe, m)
<1>1. st.has \in [Material -> Nat] /\ cost \in [Material -> Nat] /\ st.tool \in Nat
  BY Costs DEF State
<1>2. Take(st.has, cost) \in [Material -> Nat] /\ Take(st.has, cost)[m] = st.has[m] - cost[m]
  BY <1>1, Amounts DEF Take
<1>3. new \in State /\ new.has[m] = st.has[m] - cost[m] /\ new.tool = recipe
  BY <1>2 DEF State
<1>4. SumFunction(h) = SumFunction(f) + h[recipe]
  <2> DEFINE D == 1 .. recipe
             E == 1 .. st.tool
             x == recipe
  <2>1. /\ \A y \in E : y \in D /\ y # x
        /\ \A y \in D : y # x => y \in E
        /\ x \in D
    BY <1>1
  <2>2. f \in [E -> Int] /\ h \in [D -> Int] /\ IsFiniteSet(D)
    <3>1. IsFiniteSet(D)
      BY UpToFinite
    <3> QED  BY <3>1, AmountsAreInts DEF Tools
  <2>3. \A t \in E : f[t] = h[t]
    BY <2>1 DEF Tools
  <2> HIDE DEF f, h, D, E, x
  <2>4. SumFunction(h) = SumFunction(f) + h[x]
    BY <2>1, <2>2, <2>3, SumWithout
  <2> QED  BY <2>4 DEF x
<1>5. h[recipe] = cost[m]
  BY DEF Tools
<1>6. Worth(new, m) = new.has[m] + SumFunction(h)
  BY <1>3, WorthIs
<1>7. Worth(st, m) = st.has[m] + SumFunction(f) /\ SumFunction(f) \in Int /\ st.has[m] \in Nat
  BY WorthIs
<1>8. cost[m] \in Nat
  BY <1>1
<1> HIDE DEF new, f, h, cost
<1>9. Worth(new, m) = Worth(st, m)
  BY <1>3, <1>4, <1>5, <1>6, <1>7, <1>8
<1> QED  BY <1>9 DEF new, cost

\* What the players own changes by what one of them gains.
LEMMA OwnedChanges ==
    ASSUME NEW ps \in [Player -> State], NEW p \in Player, NEW st \in State, NEW m \in Material
    PROVE  /\ Owned(ps, m) \in Int
           /\ Owned([ps EXCEPT ![p] = st], m) = Owned(ps, m) + (Worth(st, m) - Worth(ps[p], m))
<1> DEFINE new == [ps EXCEPT ![p] = st]
           f == [x \in Player |-> Worth(ps[x], m)]
           h == [x \in Player |-> Worth(new[x], m)]
<1>1. new \in [Player -> State] /\ new[p] = st /\ \A x \in Player : x # p => new[x] = ps[x]
  OBVIOUS
<1> HIDE DEF new
<1>2. f \in [Player -> Int] /\ h \in [Player -> Int]
  BY <1>1, WorthIs
<1>3. h[p] = Worth(st, m) /\ f[p] = Worth(ps[p], m) /\ \A x \in Player : x # p => h[x] = f[x]
  BY <1>1
<1>4. Owned(ps, m) = SumFunction(f) /\ Owned(new, m) = SumFunction(h)
  BY DEF Owned
<1> HIDE DEF f, h
<1>5. SumFunction(f) \in Int /\ SumFunction(h) = SumFunction(f) + (h[p] - f[p])
  BY <1>2, <1>3, WorldConstants, SumInt, SumChanged
<1>6. /\ Owned(ps, m) \in Int
      /\ Owned(new, m) = Owned(ps, m) + (Worth(st, m) - Worth(ps[p], m))
  BY <1>3, <1>4, <1>5
<1> QED  BY <1>6 DEF new

\* The sums over a scene, as sums of functions of integers
LeftOf(sc, m) == [r \in Resource |-> IF ResourceGives(r)[m] = 1 THEN sc.resources[r] ELSE 0]
BuiltOf(sc, m) == [i \in DOMAIN sc.buildings |-> BuildingCost(sc.buildings[i].type)[m]]
PlacedOf(sc, m) == [c \in Cell |-> InBlock(sc.voxel_edits[c], m)]

\* They are integers.
LEMMA SceneSums ==
    ASSUME NEW sc \in Scene, NEW m \in Material
    PROVE  /\ LeftOf(sc, m) \in [Resource -> Int] /\ IsFiniteSet(Resource)
           /\ Left(sc, m) = SumFunction(LeftOf(sc, m)) /\ Left(sc, m) \in Int
           /\ BuiltOf(sc, m) \in [DOMAIN sc.buildings -> Int] /\ IsFiniteSet(DOMAIN sc.buildings)
           /\ Built(sc, m) = SumFunction(BuiltOf(sc, m)) /\ Built(sc, m) \in Int
           /\ PlacedOf(sc, m) \in [Cell -> Int] /\ IsFiniteSet(Cell)
           /\ Placed(sc, m) = SumFunction(PlacedOf(sc, m)) /\ Placed(sc, m) \in Int
<1>1. /\ sc.resources \in [Resource -> Nat] /\ sc.buildings \in Seq(BuildingState)
      /\ sc.voxel_edits \in [Cell -> Edit]
  BY DEF Scene
<1>2. LeftOf(sc, m) \in [Resource -> Int] /\ IsFiniteSet(Resource)
  <2>1. IsFiniteSet(Resource)
    BY WorldConstants, FS_Union DEF Resource
  <2> QED  BY <1>1, <2>1 DEF LeftOf
<1>3. BuiltOf(sc, m) \in [DOMAIN sc.buildings -> Int] /\ IsFiniteSet(DOMAIN sc.buildings)
  <2>1. Len(sc.buildings) \in Nat /\ DOMAIN sc.buildings = 1 .. Len(sc.buildings)
    BY <1>1
  <2>2. IsFiniteSet(DOMAIN sc.buildings)
    BY <2>1, FS_Interval
  <2> QED  BY <2>2, AmountsAreInts DEF BuiltOf
<1>4. PlacedOf(sc, m) \in [Cell -> Int] /\ IsFiniteSet(Cell)
  BY WorldConstants, AmountsAreInts DEF PlacedOf, InBlock
<1>5. /\ Left(sc, m) = SumFunction(LeftOf(sc, m))
      /\ Built(sc, m) = SumFunction(BuiltOf(sc, m))
      /\ Placed(sc, m) = SumFunction(PlacedOf(sc, m))
  BY DEF Left, LeftOf, Built, BuiltOf, Placed, PlacedOf
<1>6. Left(sc, m) \in Int
  BY <1>2, <1>5, SumInt
<1>7. Built(sc, m) \in Int
  BY <1>3, <1>5, SumInt
<1>8. Placed(sc, m) \in Int
  BY <1>4, <1>5, SumInt
<1> QED  BY <1>2, <1>3, <1>4, <1>5, <1>6, <1>7, <1>8

\* A unit is taken from a resource.
LEMMA LeftChanges ==
    ASSUME NEW sc \in Scene, NEW new \in Scene, NEW r \in Resource, NEW m \in Material,
           new.resources = [sc.resources EXCEPT ![r] = sc.resources[r] - 1]
    PROVE  Left(new, m) = Left(sc, m) - ResourceGives(r)[m]
<1> DEFINE f == LeftOf(sc, m)
           h == LeftOf(new, m)
<1>1. /\ f \in [Resource -> Int] /\ h \in [Resource -> Int] /\ IsFiniteSet(Resource)
      /\ Left(sc, m) = SumFunction(f) /\ Left(new, m) = SumFunction(h) /\ Left(sc, m) \in Int
  BY SceneSums
<1>2. \A x \in Resource : x # r => h[x] = f[x]
  BY DEF LeftOf, Scene
<1>3. h[r] = f[r] - ResourceGives(r)[m]
  <2>1. sc.resources[r] \in Nat /\ new.resources[r] = sc.resources[r] - 1
    BY DEF Scene
  <2>2. ResourceGives(r)[m] \in 0 .. 1
    BY AmountsAreInts
  <2>3. CASE ResourceGives(r)[m] = 1
    <3>1. f[r] = sc.resources[r] /\ h[r] = new.resources[r]
      BY <2>3 DEF LeftOf
    <3> QED  BY <2>1, <2>3, <3>1
  <2>4. CASE ResourceGives(r)[m] = 0
    <3>1. ResourceGives(r)[m] # 1
      BY <2>4
    <3>2. f[r] = 0 /\ h[r] = 0
      BY <3>1 DEF LeftOf
    <3> QED  BY <2>4, <3>2
  <2> QED  BY <2>2, <2>3, <2>4
<1>4. ResourceGives(r)[m] \in Int /\ f[r] \in Int /\ h[r] \in Int
  BY <1>1, AmountsAreInts
<1> HIDE DEF f, h
<1>5. SumFunction(h) = SumFunction(f) + (h[r] - f[r])
  BY <1>1, <1>2, SumChanged
<1> QED  BY <1>1, <1>3, <1>4, <1>5

\* A building is added.
LEMMA BuiltChanges ==
    ASSUME NEW sc \in Scene, NEW new \in Scene, NEW b, NEW m \in Material,
           new.buildings = Append(sc.buildings, b)
    PROVE  Built(new, m) = Built(sc, m) + BuildingCost(b.type)[m]
<1> DEFINE f == BuiltOf(sc, m)
           h == BuiltOf(new, m)
           D == DOMAIN new.buildings
           E == DOMAIN sc.buildings
           n == Len(sc.buildings) + 1
<1>1. /\ f \in [E -> Int] /\ h \in [D -> Int] /\ IsFiniteSet(D)
      /\ Built(sc, m) = SumFunction(f) /\ Built(new, m) = SumFunction(h)
  BY SceneSums
<1>2. sc.buildings \in Seq(BuildingState) /\ Len(sc.buildings) \in Nat /\ E = 1 .. Len(sc.buildings)
  BY DEF Scene
<1>3. /\ \A i \in E : i \in D /\ i # n
      /\ \A i \in D : i # n => i \in E
      /\ n \in D
  BY <1>2
<1>4. \A i \in E : new.buildings[i] = sc.buildings[i]
  BY <1>2
<1>5. new.buildings[n] = b
  BY <1>2
<1>6. \A i \in E : f[i] = h[i]
  BY <1>3, <1>4 DEF BuiltOf
<1>7. h[n] = BuildingCost(b.type)[m]
  BY <1>3, <1>5 DEF BuiltOf
<1> HIDE DEF f, h, D, E, n
<1>8. SumFunction(h) = SumFunction(f) + h[n]
  BY <1>1, <1>3, <1>6, SumWithout
<1> QED  BY <1>1, <1>7, <1>8

\* A cell is edited.
LEMMA PlacedChanges ==
    ASSUME NEW sc \in Scene, NEW new \in Scene, NEW c \in Cell, NEW e \in Edit,
           NEW m \in Material, new.voxel_edits = [sc.voxel_edits EXCEPT ![c] = e]
    PROVE  Placed(new, m) = Placed(sc, m) + (InBlock(e, m) - InBlock(sc.voxel_edits[c], m))
<1> DEFINE f == PlacedOf(sc, m)
           h == PlacedOf(new, m)
<1>1. /\ f \in [Cell -> Int] /\ h \in [Cell -> Int] /\ IsFiniteSet(Cell)
      /\ Placed(sc, m) = SumFunction(f) /\ Placed(new, m) = SumFunction(h)
  BY SceneSums
<1>2. sc.voxel_edits \in [Cell -> Edit]
  BY DEF Scene
<1>3. \A x \in Cell : x # c => h[x] = f[x]
  BY <1>2 DEF PlacedOf
<1>4. h[c] = InBlock(e, m) /\ f[c] = InBlock(sc.voxel_edits[c], m)
  BY <1>2 DEF PlacedOf
<1> HIDE DEF f, h
<1> QED  BY <1>1, <1>3, <1>4, SumChanged

\* What is in a scene, and not of the terrain
Held(sc, m) == Left(sc, m) + Built(sc, m) + Placed(sc, m) - sc.mined[m]

\* It is an integer, as its parts are.
LEMMA HeldIs ==
    ASSUME NEW sc \in Scene, NEW m \in Material
    PROVE  /\ Left(sc, m) \in Int /\ Built(sc, m) \in Int /\ Placed(sc, m) \in Int
           /\ sc.mined[m] \in Int /\ Held(sc, m) \in Int
<1>1. Left(sc, m) \in Int /\ Built(sc, m) \in Int /\ Placed(sc, m) \in Int
  BY SceneSums
<1>2. sc.mined[m] \in Int
  BY DEF Scene
<1> QED  BY <1>1, <1>2 DEF Held

\* It changes as its parts do.
LEMMA HeldMoves ==
    ASSUME NEW sc \in Scene, NEW new \in Scene, NEW m \in Material, NEW d \in Int,
           (Left(new, m) - Left(sc, m)) + (Built(new, m) - Built(sc, m))
              + (Placed(new, m) - Placed(sc, m)) - (new.mined[m] - sc.mined[m]) = d
    PROVE  Held(new, m) = Held(sc, m) + d
<1>1. /\ Left(sc, m) \in Int /\ Built(sc, m) \in Int /\ Placed(sc, m) \in Int
      /\ sc.mined[m] \in Int
  BY HeldIs
<1>2. /\ Left(new, m) \in Int /\ Built(new, m) \in Int /\ Placed(new, m) \in Int
      /\ new.mined[m] \in Int
  BY HeldIs
<1> QED  BY <1>1, <1>2 DEF Held

\* The balance changes by what the players gain and by what the scene does.
LEMMA BalanceMoves ==
    ASSUME NEW ps \in [Player -> State], NEW sc \in Scene,
           NEW ps2 \in [Player -> State], NEW sc2 \in Scene, NEW m \in Material
    PROVE  /\ Balance(ps, sc, m) \in Int
           /\ Balance(ps2, sc2, m) = Balance(ps, sc, m) + (Owned(ps2, m) - Owned(ps, m))
                                                        + (Held(sc2, m) - Held(sc, m))
           /\ Held(sc, m) \in Int /\ Held(sc2, m) \in Int
<1> DEFINE start == Cardinality(Player) * Newcomer.has[m]
                       + Amount * Cardinality({r \in Resource : ResourceGives(r)[m] = 1})
<1>1. start \in Int
  <2> DEFINE S == {r \in Resource : ResourceGives(r)[m] = 1}
  <2>1. IsFiniteSet(Resource)
    BY WorldConstants, FS_Union DEF Resource
  <2>2. IsFiniteSet(S)
    BY <2>1, FS_Subset
  <2>3. Cardinality(S) \in Nat /\ Cardinality(Player) \in Nat
    BY <2>2, WorldConstants, FS_CardinalityType
  <2>4. Amount \in Nat /\ Newcomer.has[m] \in Nat
    BY WorldConstants, AmountsAreInts
  <2> HIDE DEF S
  <2>5. Cardinality(Player) * Newcomer.has[m] + Amount * Cardinality(S) \in Int
    BY <2>3, <2>4
  <2> QED  BY <2>5 DEF S
<1>2. \A p \in [Player -> State], s \in Scene :
          /\ s.mined[m] \in Nat
          /\ Balance(p, s, m) = Owned(p, m) + Left(s, m) + Built(s, m) + Placed(s, m)
                                   - (start + s.mined[m])
  BY DEF Balance, Supply, Scene
<1> HIDE DEF start
<1>3. \A s \in Scene : Left(s, m) \in Int /\ Built(s, m) \in Int /\ Placed(s, m) \in Int
  BY SceneSums
<1>4. \A p \in [Player -> State] : Owned(p, m) \in Int
  <2> TAKE p \in [Player -> State]
  <2> DEFINE f == [x \in Player |-> Worth(p[x], m)]
  <2>1. f \in [Player -> Int]
    BY WorthIs
  <2>2. Owned(p, m) = SumFunction(f)
    BY DEF Owned
  <2> HIDE DEF f
  <2> QED  BY <2>1, <2>2, WorldConstants, SumInt
<1>5. Held(sc, m) \in Int /\ Held(sc2, m) \in Int
  BY <1>2, <1>3 DEF Held
<1>6. Balance(ps, sc, m) = Owned(ps, m) + Held(sc, m) - start
  BY <1>1, <1>2, <1>3, <1>4 DEF Held
<1>7. Balance(ps2, sc2, m) = Owned(ps2, m) + Held(sc2, m) - start
  BY <1>1, <1>2, <1>3, <1>4 DEF Held
<1>8. Owned(ps, m) \in Int /\ Owned(ps2, m) \in Int
  BY <1>4
<1> QED  BY <1>1, <1>5, <1>6, <1>7, <1>8

\* Nothing adds up to nothing.
LEMMA SumOfNothing ==
    ASSUME NEW D, IsFiniteSet(D), NEW f \in [D -> Int], \A x \in D : f[x] = 0
    PROVE  SumFunction(f) = 0
<1>1. {} \in SUBSET D /\ Cardinality({}) = 0 /\ \A x \in D : f[x] = IF x \in {} THEN 0 ELSE 0
  BY FS_EmptySet
<1>2. SumFunction(f) = 0 * Cardinality({})
  BY <1>1, SumSome
<1> QED  BY <1>1, <1>2

\* At the start there is what came into the world.
LEMMA BalanceAtStart ==
    ASSUME NEW m \in Material
    PROVE  Balance([p \in Player |-> Newcomer], SeedDefaultScene, m) = 0
<1> DEFINE sc == SeedDefaultScene
           has == Newcomer.has[m]
           S == {r \in Resource : ResourceGives(r)[m] = 1}
<1>1. sc \in Scene
  BY DefaultIsGood DEF GoodScene
<1>2. has \in Int /\ Amount \in Int
  BY WorldConstants, AmountsAreInts
<1>3. Owned([p \in Player |-> Newcomer], m) = has * Cardinality(Player)
  <2> DEFINE f == [p \in Player |-> Worth([x \in Player |-> Newcomer][p], m)]
  <2>1. Worth(Newcomer, m) = has
    <3> DEFINE D == 1 .. 0
               g == [t \in D |-> RecipeCost(t)[m]]
    <3>1. Newcomer.tool = 0
      BY DEF Newcomer
    <3>2. g \in [D -> Int] /\ IsFiniteSet(D) /\ \A x \in D : g[x] = 0
      BY FS_EmptySet
    <3>3. SumFunction(g) = 0
      <4> HIDE DEF g, D
      <4> QED  BY <3>2, SumOfNothing
    <3> QED  BY <1>2, <3>1, <3>3 DEF Worth
  <2>2. f \in [Player -> Int] /\ \A p \in Player : f[p] = has
    BY <1>2, <2>1
  <2>3. Owned([p \in Player |-> Newcomer], m) = SumFunction(f)
    BY DEF Owned
  <2> HIDE DEF f, has
  <2>4. Player \in SUBSET Player /\ \A p \in Player : f[p] = IF p \in Player THEN has ELSE 0
    BY <2>2
  <2> QED  BY <1>2, <2>2, <2>3, <2>4, WorldConstants, SumSome
<1>4. Left(sc, m) = Amount * Cardinality(S)
  <2> DEFINE f == LeftOf(sc, m)
  <2>1. f \in [Resource -> Int] /\ IsFiniteSet(Resource) /\ Left(sc, m) = SumFunction(f)
    BY <1>1, SceneSums
  <2>2. S \in SUBSET Resource /\ \A r \in Resource : f[r] = IF r \in S THEN Amount ELSE 0
    BY DEF LeftOf, SeedDefaultScene
  <2> HIDE DEF f, S, sc
  <2> QED  BY <1>2, <2>1, <2>2, SumSome
<1>5. Built(sc, m) = 0
  <2> DEFINE f == BuiltOf(sc, m)
             D == DOMAIN sc.buildings
  <2>1. f \in [D -> Int] /\ IsFiniteSet(D) /\ Built(sc, m) = SumFunction(f)
    BY <1>1, SceneSums
  <2>2. \A i \in D : f[i] = 0
    BY DEF SeedDefaultScene
  <2> HIDE DEF f, D, sc
  <2> QED  BY <2>1, <2>2, SumOfNothing
<1>6. Placed(sc, m) = 0
  <2> DEFINE f == PlacedOf(sc, m)
  <2>1. f \in [Cell -> Int] /\ IsFiniteSet(Cell) /\ Placed(sc, m) = SumFunction(f)
    BY <1>1, SceneSums
  <2>2. \A c \in Cell : f[c] = 0
    BY DEF PlacedOf, InBlock, SeedDefaultScene
  <2> HIDE DEF f, sc
  <2> QED  BY <2>1, <2>2, SumOfNothing
<1>7. sc.mined[m] = 0
  BY DEF SeedDefaultScene, Nothing
<1>8. Supply(sc, m) = Cardinality(Player) * has + Amount * Cardinality(S) + 0
  BY <1>7 DEF Supply
<1>9. Cardinality(Player) \in Nat /\ Cardinality(S) \in Nat
  <2>1. IsFiniteSet(Resource) /\ S \in SUBSET Resource
    BY WorldConstants, FS_Union DEF Resource
  <2> HIDE DEF S
  <2> QED  BY <2>1, WorldConstants, FS_Subset, FS_CardinalityType
<1> DEFINE a == Cardinality(Player) * has
           b == Amount * Cardinality(S)
<1>10. a \in Int /\ b \in Int /\ has * Cardinality(Player) = a
  <2> HIDE DEF has, S
  <2> QED  BY <1>2, <1>9
<1> HIDE DEF sc, has, S
<1>11. /\ Owned([p \in Player |-> Newcomer], m) = a /\ Left(sc, m) = b
       /\ Supply(sc, m) = a + b + 0
  BY <1>3, <1>4, <1>8, <1>10
<1> HIDE DEF a, b
<1>12. Balance([p \in Player |-> Newcomer], sc, m) = 0
  BY <1>5, <1>6, <1>10, <1>11 DEF Balance
<1> QED  BY <1>12 DEF sc

-----------------------------------------------------------------------------
(* The queue *)

\* What a newcomer has is a state.
LEMMA NewcomerIsState == Newcomer \in State
<1>1. Newcomer.has \in [Material -> Nat]
  BY DEF Newcomer, Material
<1>2. Newcomer = [has |-> Newcomer.has, tool |-> 0]
  BY DEF Newcomer
<1> QED  BY <1>1, <1>2 DEF State

\* At the start the stores hold the world.
LEMMA UnsavedInit == Init => UnsavedInv
<1> SUFFICES ASSUME Init PROVE UnsavedInv
  OBVIOUS
<1>1. Newcomer \in State
  BY NewcomerIsState
<1>2. WorldInv
  <2>1. /\ q \in Seq(Task) /\ logins \in Seq(LoginDone)
        /\ crashes \in Nat /\ online \subseteq Player /\ mishaps \in [Player -> Nat]
    BY DEF Init
  <2>2. players \in [Player -> State] /\ stored_players \in [Player -> State]
    BY <1>1 DEF Init
  <2>3. scene \in GoodScene /\ stored_scene \in GoodScene
    BY DefaultIsGood DEF Init
  <2> QED  BY <2>1, <2>2, <2>3 DEF WorldInv
<1>3. SceneSaves = {} /\ \A p \in Player : SavesOf(p) = {} /\ LoadsOf(p) = {} /\ LoginsOf(p) = {}
  BY DEF Init, SceneSaves, SavesOf, LoadsOf, LoginsOf
<1>4. scene = stored_scene /\ players = stored_players
  BY DEF Init
<1>5. ASSUME NEW p \in Player PROVE PlayerInOrder(p)
  BY <1>3, <1>4 DEF PlayerInOrder, PlayerOnTheWay, OneLogin
<1> QED  BY <1>2, <1>3, <1>4, <1>5 DEF UnsavedInv, OnTheWay, SceneOnTheWay

\* A request that succeeds posts what it changed, and changes nothing else: its
\* saves of the player hold the new state, those of the scene the new scene, and
\* there is one of the scene unless that is the same.
LEMMA ApplyKeeps ==
    ASSUME UnsavedInv, NEW p \in Player, NEW state \in State, NEW sc \in GoodScene,
           NEW saves \in Seq(Task), Apply(p, state, sc, saves),
           \A i \in 1 .. Len(saves) :
              /\ saves[i].kind # "load"
              /\ saves[i].kind = "player" => saves[i].player = p /\ saves[i].state = state
              /\ saves[i].kind = "scene" => saves[i].scene = sc,
           \E i \in 1 .. Len(saves) : saves[i].kind = "player",
           sc = scene \/ \E i \in 1 .. Len(saves) : saves[i].kind = "scene"
    PROVE  UnsavedInv'
<1> DEFINE n == Len(q)
<1>1. /\ q \in Seq(Task) /\ n \in Nat /\ Len(saves) \in Nat /\ players \in [Player -> State]
      /\ DOMAIN q = 1 .. n
  BY DEF UnsavedInv, WorldInv
<1>2. /\ q' = q \o saves /\ scene' = sc /\ players' = [players EXCEPT ![p] = state]
      /\ UNCHANGED <<online, stored_players, stored_scene, logins, crashes, failed, mishaps>>
      /\ p \in online
  BY DEF Apply, stores
<1>3. /\ q' \in Seq(Task) /\ DOMAIN q' = 1 .. n + Len(saves)
      /\ \A i \in 1 .. n : q'[i] = q[i]
      /\ \A i \in 1 .. Len(saves) : n + i \in DOMAIN q' /\ q'[n + i] = saves[i]
  <2>1. /\ q \o saves \in Seq(Task)
        /\ Len(q \o saves) = Len(q) + Len(saves)
        /\ \A i \in 1 .. Len(q) + Len(saves) :
              (q \o saves)[i] = IF i <= Len(q) THEN q[i] ELSE saves[i - Len(q)]
    BY <1>1, ConcatProperties
  <2>2. DOMAIN (q \o saves) = 1 .. n + Len(saves)
    BY <2>1, LenProperties
  <2>3. \A i \in 1 .. n : i \in 1 .. n + Len(saves) /\ i <= n
    BY <1>1
  <2>4. \A i \in 1 .. Len(saves) : n + i \in 1 .. n + Len(saves) /\ ~(n + i <= n) /\ (n + i) - n = i
    BY <1>1
  <2> QED  BY <1>2, <2>1, <2>2, <2>3, <2>4
<1>4. \A i \in DOMAIN q' : i \in 1 .. n \/ (i - n \in 1 .. Len(saves) /\ n + (i - n) = i /\ i > n)
  BY <1>1, <1>3
<1>4a. DOMAIN q \subseteq DOMAIN q'
  BY <1>1, <1>3
<1> HIDE DEF n
<1>5. WorldInv'
  <2>1. players' \in [Player -> State]
    BY <1>1, <1>2
  <2> QED  BY <1>2, <1>3, <2>1 DEF UnsavedInv, WorldInv
<1>6. (~failed => SceneOnTheWay)'
  <2> SUFFICES ASSUME ~failed PROVE SceneOnTheWay'
    BY <1>2
  <2>1. SceneOnTheWay
    BY DEF UnsavedInv, OnTheWay
  <2>2. CASE \E k \in 1 .. Len(saves) : saves[k].kind = "scene"
    <3>1. PICK k \in 1 .. Len(saves) : saves[k].kind = "scene"
      BY <2>2
    <3>2. n + k \in SceneSaves'
      BY <1>3, <3>1 DEF SceneSaves
    <3>3. ASSUME NEW i \in SceneSaves', \A j \in SceneSaves' : j <= i
          PROVE  q'[i].scene = scene'
      <4>1. n + k <= i /\ i \in DOMAIN q' /\ q'[i].kind = "scene"
        BY <3>2, <3>3 DEF SceneSaves
      <4>2. i - n \in 1 .. Len(saves) /\ n + (i - n) = i
        BY <1>1, <1>4, <4>1
      <4>3. q'[i] = saves[i - n]
        BY <1>3, <4>2
      <4> QED  BY <1>2, <4>1, <4>2, <4>3
    <3> QED  BY <3>2, <3>3 DEF SceneOnTheWay
  <2>3. CASE ~ \E k \in 1 .. Len(saves) : saves[k].kind = "scene"
    <3>1. scene' = scene
      BY <1>2, <2>3
    <3>2. \A i \in SceneSaves' : i \in SceneSaves /\ q'[i] = q[i]
      <4> TAKE i \in SceneSaves'
      <4>1. i \in DOMAIN q' /\ q'[i].kind = "scene"
        BY DEF SceneSaves
      <4>2. i \in 1 .. n
        BY <1>3, <1>4, <2>3, <4>1
      <4> QED  BY <1>1, <1>3, <4>1, <4>2 DEF SceneSaves
    <3>3. \A i \in SceneSaves : i \in SceneSaves'
      BY <1>1, <1>3, <1>4a DEF SceneSaves
    <3> QED  BY <1>2, <2>1, <3>1, <3>2, <3>3 DEF SceneOnTheWay
  <2> QED  BY <2>2, <2>3
<1>6a. ASSUME NEW x \in Player
       PROVE  LoadsOf(x)' = LoadsOf(x) /\ LoginsOf(x)' = LoginsOf(x)
  <2>1. \A i \in LoadsOf(x)' : i \in LoadsOf(x)
    <3> TAKE i \in LoadsOf(x)'
    <3>1. i \in DOMAIN q' /\ q'[i].kind = "load" /\ q'[i].player = x
      BY DEF LoadsOf
    <3>2. i \in 1 .. n
      BY <1>3, <1>4, <3>1
    <3> QED  BY <1>1, <1>3, <3>1, <3>2 DEF LoadsOf
  <2>2. \A i \in LoadsOf(x) : i \in LoadsOf(x)'
    BY <1>1, <1>3, <1>4a DEF LoadsOf
  <2>3. LoginsOf(x)' = LoginsOf(x)
    BY <1>2 DEF LoginsOf
  <2> QED  BY <2>1, <2>2, <2>3
<1>7. ASSUME NEW x \in Player, mishaps[x] = 0 PROVE (PlayerOnTheWay(x) /\ OneLogin(x))'
  <2>1. PlayerOnTheWay(x) /\ OneLogin(x)
    BY <1>7 DEF UnsavedInv, OnTheWay, PlayerInOrder
  <2>2. CASE x = p
    <3>1. PICK k \in 1 .. Len(saves) : saves[k].kind = "player"
      OBVIOUS
    <3>2. n + k \in SavesOf(x)'
      BY <1>3, <2>2, <3>1 DEF SavesOf
    <3>3. ASSUME NEW i \in SavesOf(x)', \A j \in SavesOf(x)' : j <= i
          PROVE  q'[i].state = players'[x]
      <4>1. n + k <= i /\ i \in DOMAIN q' /\ q'[i].kind = "player"
        BY <3>2, <3>3 DEF SavesOf
      <4>2. i - n \in 1 .. Len(saves) /\ n + (i - n) = i
        BY <1>1, <1>4, <4>1
      <4>3. q'[i] = saves[i - n]
        BY <1>3, <4>2
      <4>4. players'[x] = state
        BY <1>1, <1>2, <2>2
      <4> QED  BY <4>1, <4>2, <4>3, <4>4
    <3>4. LoadsOf(x)' = {} /\ LoginsOf(x)' = {}
      BY <1>2, <1>6a, <2>1, <2>2 DEF OneLogin
    <3> QED  BY <3>2, <3>3, <3>4 DEF PlayerOnTheWay, OneLogin
  <2>3. CASE x # p
    <3>1. players'[x] = players[x]
      BY <1>1, <1>2, <2>3
    <3>2. \A i \in SavesOf(x)' : i \in SavesOf(x) /\ q'[i] = q[i]
      <4> TAKE i \in SavesOf(x)'
      <4>1. i \in DOMAIN q' /\ q'[i].kind = "player" /\ q'[i].player = x
        BY DEF SavesOf
      <4>2. i \in 1 .. n
        BY <1>3, <1>4, <2>3, <4>1
      <4> QED  BY <1>1, <1>3, <4>1, <4>2 DEF SavesOf
    <3>3. \A i \in SavesOf(x) : i \in SavesOf(x)'
      BY <1>1, <1>3, <1>4a DEF SavesOf
    <3>4. PlayerOnTheWay(x)'
      BY <1>2, <2>1, <3>1, <3>2, <3>3 DEF PlayerOnTheWay
    <3>5. SavesOf(x)' = SavesOf(x)
      BY <3>2, <3>3
    <3>6. OneLogin(x)'
      BY <1>2, <1>6a, <2>1, <3>5 DEF OneLogin
    <3> QED  BY <3>4, <3>6
  <2> QED  BY <2>2, <2>3
<1> QED  BY <1>2, <1>5, <1>6, <1>7 DEF UnsavedInv, OnTheWay, PlayerInOrder

\* The saves a handler posts are of the kinds the queue holds.
LEMMA Saves ==
    ASSUME NEW p \in Player, NEW state \in State, NEW sc \in GoodScene
    PROVE  SavePlayer(p, state) \in Task /\ SaveScene(sc) \in Task
<1>1. SavePlayer(p, state) \in Task
  BY DEF SavePlayer, Task, PlayerTask
<1>2. SaveScene(sc) \in Task
  BY DEF SaveScene, Task
<1> QED  BY <1>1, <1>2

\* What a handler does whose request succeeds: it posts the player, and the scene
\* if that is another, in either order.
Posts(p, state, sc) ==
    \/ Apply(p, state, sc, <<SavePlayer(p, state), SaveScene(sc)>>)
    \/ Apply(p, state, sc, <<SaveScene(sc), SavePlayer(p, state)>>)
    \/ sc = scene /\ Apply(p, state, sc, <<SavePlayer(p, state)>>)

\* Everything is on its way again.
LEMMA PostsKeeps ==
    ASSUME UnsavedInv, NEW p \in Player, NEW state \in State, NEW sc \in GoodScene,
           Posts(p, state, sc)
    PROVE  UnsavedInv'
<1> DEFINE a == SavePlayer(p, state)
           b == SaveScene(sc)
<1>1. /\ a \in Task /\ a.kind = "player" /\ a.player = p /\ a.state = state
      /\ b \in Task /\ b.kind = "scene" /\ b.scene = sc
  BY Saves DEF SavePlayer, SaveScene
<1> HIDE DEF a, b
<1>2. CASE Apply(p, state, sc, <<a, b>>)
  <2> DEFINE saves == <<a, b>>
  <2>1. saves \in Seq(Task) /\ Len(saves) = 2 /\ saves[1] = a /\ saves[2] = b
    BY <1>1
  <2>2. Apply(p, state, sc, saves)
    BY <1>2
  <2> HIDE DEF saves
  <2>3. \A i \in 1 .. Len(saves) :
              /\ saves[i].kind # "load"
              /\ saves[i].kind = "player" => saves[i].player = p /\ saves[i].state = state
              /\ saves[i].kind = "scene" => saves[i].scene = sc
    BY <1>1, <2>1
  <2>4. 1 \in 1 .. Len(saves) /\ 2 \in 1 .. Len(saves)
    BY <2>1
  <2> QED  BY <1>1, <2>1, <2>2, <2>3, <2>4, ApplyKeeps
<1>3. CASE Apply(p, state, sc, <<b, a>>)
  <2> DEFINE saves == <<b, a>>
  <2>1. saves \in Seq(Task) /\ Len(saves) = 2 /\ saves[1] = b /\ saves[2] = a
    BY <1>1
  <2>2. Apply(p, state, sc, saves)
    BY <1>3
  <2> HIDE DEF saves
  <2>3. \A i \in 1 .. Len(saves) :
              /\ saves[i].kind # "load"
              /\ saves[i].kind = "player" => saves[i].player = p /\ saves[i].state = state
              /\ saves[i].kind = "scene" => saves[i].scene = sc
    BY <1>1, <2>1
  <2>4. 1 \in 1 .. Len(saves) /\ 2 \in 1 .. Len(saves)
    BY <2>1
  <2> QED  BY <1>1, <2>1, <2>2, <2>3, <2>4, ApplyKeeps
<1>4. CASE sc = scene /\ Apply(p, state, sc, <<a>>)
  <2> DEFINE saves == <<a>>
  <2>1. saves \in Seq(Task) /\ Len(saves) = 1 /\ saves[1] = a
    BY <1>1
  <2>2. Apply(p, state, sc, saves)
    BY <1>4
  <2> HIDE DEF saves
  <2>3. \A i \in 1 .. Len(saves) :
              /\ saves[i].kind # "load"
              /\ saves[i].kind = "player" => saves[i].player = p /\ saves[i].state = state
              /\ saves[i].kind = "scene" => saves[i].scene = sc
    BY <1>1, <2>1
  <2>4. 1 \in 1 .. Len(saves)
    BY <2>1
  <2> QED  BY <1>1, <1>4, <2>1, <2>2, <2>3, <2>4, ApplyKeeps
<1> QED  BY <1>2, <1>3, <1>4 DEF Posts, a, b

\* What the player gains the scene loses, and it is not much.
Fair(p, state, sc) ==
    \A m \in Material : \E gain \in -3 .. 3 :
        /\ Worth(state, m) = Worth(players[p], m) + gain
        /\ Held(sc, m) = Held(scene, m) - gain

\* Every request that succeeds is of this form.
Requested ==
    \E p \in Player, state \in State, sc \in GoodScene : Posts(p, state, sc) /\ Fair(p, state, sc)

-----------------------------------------------------------------------------
(* The requests *)

\* The state of a player, with other materials.
LEMMA OtherHas ==
    ASSUME NEW st \in State, NEW has \in [Material -> Nat]
    PROVE  [st EXCEPT !.has = has] \in State
BY DEF State

\* A resource is gathered.
LEMMA GatherRequested ==
    ASSUME UnsavedInv, NEW p \in Player, NEW r \in Resource, Gather(p, r)
    PROVE  Requested
<1>1. players[p] \in State /\ players[p].has \in [Material -> Nat]
  BY DEF UnsavedInv, WorldInv, State
<1>2. Add(players[p].has, ResourceGives(r)) \in [Material -> Nat]
  BY <1>1, Amounts, Costs
<1> DEFINE state == [players[p] EXCEPT !.has = Add(@, ResourceGives(r))]
           sc    == [scene EXCEPT !.resources[r] = @ - 1]
<1>3. state \in State
  BY <1>1, <1>2, OtherHas
<1>4. sc \in GoodScene
  BY GatherIsGood DEF Gather, UnsavedInv, WorldInv
<1>5. Apply(p, state, sc, <<SavePlayer(p, state), SaveScene(sc)>>)
  BY Zenon DEF Gather
<1>6. ASSUME NEW m \in Material
      PROVE  \E gain \in -3 .. 3 : /\ Worth(state, m) = Worth(players[p], m) + gain
                                   /\ Held(sc, m) = Held(scene, m) - gain
  <2> DEFINE gain == ResourceGives(r)[m]
             has  == Add(players[p].has, ResourceGives(r))
  <2>1. gain \in 0 .. 1
    BY AmountsAreInts
  <2>2. Worth(state, m) = Worth(players[p], m) + (has[m] - players[p].has[m])
    BY <1>1, <1>2, WorthOfHas
  <2>3. has[m] = players[p].has[m] + gain /\ players[p].has[m] \in Nat
    BY <1>1 DEF Add
  <2>4. scene \in Scene /\ sc \in Scene
    BY <1>4 DEF GoodScene, UnsavedInv, WorldInv
  <2>5. /\ sc.buildings = scene.buildings /\ sc.voxel_edits = scene.voxel_edits
        /\ sc.mined = scene.mined
        /\ sc.resources = [scene.resources EXCEPT ![r] = scene.resources[r] - 1]
    BY <2>4 DEF Scene
  <2> HIDE DEF state, sc, has
  <2>6. Left(sc, m) = Left(scene, m) - gain
    BY <2>4, <2>5, LeftChanges
  <2>7. Built(sc, m) = Built(scene, m) /\ Placed(sc, m) = Placed(scene, m)
    BY <2>5 DEF Built, Placed
  <2>8. Worth(players[p], m) \in Int
    BY <1>1, WorthIs
  <2> HIDE DEF gain
  <2>9. Worth(state, m) = Worth(players[p], m) + gain
    BY <2>1, <2>2, <2>3, <2>8
  <2>10. sc.mined[m] = scene.mined[m]
    BY <2>5
  <2>11. (Left(sc, m) - Left(scene, m)) + (Built(sc, m) - Built(scene, m))
           + (Placed(sc, m) - Placed(scene, m)) - (sc.mined[m] - scene.mined[m]) = (-gain)
    <3>1. /\ Left(scene, m) \in Int /\ Built(scene, m) \in Int /\ Placed(scene, m) \in Int
          /\ scene.mined[m] \in Int
      BY <2>4, HeldIs
    <3> QED  BY <2>1, <3>1, <2>6, <2>7, <2>10
  <2>12. (-gain) \in -3 .. 3 /\ (-gain) \in Int
    BY <2>1
  <2>13. Held(sc, m) = Held(scene, m) + (-gain) /\ Held(scene, m) \in Int
    BY <2>4, <2>11, <2>12, HeldMoves, HeldIs
  <2>14. gain \in -3 .. 3 /\ Held(sc, m) = Held(scene, m) - gain
    BY <2>1, <2>13
  <2> QED  BY <2>9, <2>14
<1> HIDE DEF state, sc
<1> QED  BY <1>3, <1>4, <1>5, <1>6 DEF Requested, Posts, Fair

\* A building is placed.
LEMMA PlaceBuildingRequested ==
    ASSUME UnsavedInv, NEW p \in Player, NEW type \in Building, NEW at \in Place,
           PlaceBuilding(p, type, at)
    PROVE  Requested
<1>1. players[p] \in State /\ players[p].has \in [Material -> Nat]
  BY DEF UnsavedInv, WorldInv, State
<1>2. Take(players[p].has, BuildingCost(type)) \in [Material -> Nat]
  BY <1>1, Amounts, Costs DEF PlaceBuilding
<1> DEFINE state == [players[p] EXCEPT !.has = Take(@, BuildingCost(type))]
           new   == [id |-> scene.next_building_id, owner |-> p, type |-> type, at |-> at]
           sc    == [scene EXCEPT !.buildings = Append(@, new), !.next_building_id = @ + 1]
<1>3. state \in State
  BY <1>1, <1>2, OtherHas
<1>4. scene \in GoodScene /\ scene.next_building_id \in Nat \ {0}
  BY DEF UnsavedInv, WorldInv, GoodScene, Scene
<1>5. new \in BuildingState /\ new.id = scene.next_building_id
      /\ \A i \in DOMAIN scene.buildings : scene.buildings[i].at # new.at
  BY <1>4 DEF BuildingState, PlaceBuilding
<1>6. Apply(p, state, sc, <<SavePlayer(p, state), SaveScene(sc)>>)
  BY Zenon DEF PlaceBuilding
<1>6a. new.type = type
  OBVIOUS
<1> HIDE DEF new
<1>7. sc \in GoodScene
  BY <1>4, <1>5, BuildingIsGood
<1>8. ASSUME NEW m \in Material
      PROVE  \E gain \in -3 .. 3 : /\ Worth(state, m) = Worth(players[p], m) + gain
                                   /\ Held(sc, m) = Held(scene, m) - gain
  <2> DEFINE cost == BuildingCost(type)[m]
             has  == Take(players[p].has, BuildingCost(type))
  <2>1. cost \in Nat /\ cost <= 3
    BY AmountsAreInts
  <2>2. Worth(state, m) = Worth(players[p], m) + (has[m] - players[p].has[m])
    BY <1>1, <1>2, WorthOfHas
  <2>3. has[m] = players[p].has[m] - cost /\ players[p].has[m] \in Nat
    BY <1>1 DEF Take
  <2>4. scene \in Scene /\ sc \in Scene
    BY <1>4, <1>7 DEF GoodScene
  <2>5. /\ sc.buildings = Append(scene.buildings, new) /\ sc.voxel_edits = scene.voxel_edits
        /\ sc.mined = scene.mined /\ sc.resources = scene.resources
    BY <2>4 DEF Scene
  <2> HIDE DEF state, sc, has
  <2>6. Built(sc, m) = Built(scene, m) + cost
    BY <1>6a, <2>4, <2>5, BuiltChanges
  <2>7. Left(sc, m) = Left(scene, m) /\ Placed(sc, m) = Placed(scene, m)
    BY <2>5 DEF Left, Placed
  <2>8. Worth(players[p], m) \in Int
    BY <1>1, WorthIs
  <2> HIDE DEF cost
  <2>9. Worth(state, m) = Worth(players[p], m) + (-cost)
    BY <2>1, <2>2, <2>3, <2>8
  <2>10. sc.mined[m] = scene.mined[m]
    BY <2>5
  <2>11. (Left(sc, m) - Left(scene, m)) + (Built(sc, m) - Built(scene, m))
           + (Placed(sc, m) - Placed(scene, m)) - (sc.mined[m] - scene.mined[m]) = cost
    <3>1. /\ Left(scene, m) \in Int /\ Built(scene, m) \in Int /\ Placed(scene, m) \in Int
          /\ scene.mined[m] \in Int
      BY <2>4, HeldIs
    <3> QED  BY <2>1, <3>1, <2>6, <2>7, <2>10
  <2>12. cost \in -3 .. 3 /\ cost \in Int
    BY <2>1
  <2>13. Held(sc, m) = Held(scene, m) + cost /\ Held(scene, m) \in Int
    BY <2>4, <2>11, <2>12, HeldMoves, HeldIs
  <2>14. -cost \in -3 .. 3 /\ Held(sc, m) = Held(scene, m) - (-cost)
    BY <2>1, <2>13
  <2> QED  BY <2>9, <2>14
<1> HIDE DEF state, sc
<1> QED  BY <1>3, <1>6, <1>7, <1>8 DEF Requested, Posts, Fair

\* A tool is made; the scene stays as it is.
LEMMA CraftRequested ==
    ASSUME UnsavedInv, NEW p \in Player, NEW recipe \in Recipe, Craft(p, recipe)
    PROVE  Requested
<1>1. players[p] \in State /\ players[p].has \in [Material -> Nat]
  BY DEF UnsavedInv, WorldInv, State
<1>2. Take(players[p].has, RecipeCost(recipe)) \in [Material -> Nat] /\ recipe \in 0 .. 3
  BY <1>1, Amounts, Costs, WorldConstants DEF Craft
<1> DEFINE state == [has |-> Take(players[p].has, RecipeCost(recipe)), tool |-> recipe]
<1>3. state \in State
  BY <1>2 DEF State
<1>4. scene \in GoodScene /\ scene \in Scene
  BY DEF UnsavedInv, WorldInv, GoodScene
<1>5. Apply(p, state, scene, <<SavePlayer(p, state)>>)
  BY Zenon DEF Craft
<1>6. recipe \in 1 .. 3 /\ players[p].tool = recipe - 1 /\ Enough(players[p].has, RecipeCost(recipe))
  <2>1. players[p].tool \in Int /\ recipe \in 1 .. 3
    BY <1>1, WorldConstants DEF State
  <2> QED  BY <2>1 DEF Craft
<1>7. ASSUME NEW m \in Material
      PROVE  \E gain \in -3 .. 3 : /\ Worth(state, m) = Worth(players[p], m) + gain
                                   /\ Held(scene, m) = Held(scene, m) - gain
  <2>1. Worth(state, m) = Worth(players[p], m)
    BY <1>1, <1>6, WorthOfTool
  <2>2. Worth(players[p], m) \in Int
    BY <1>1, WorthIs
  <2>3. Held(scene, m) \in Int
    BY <1>4, HeldIs
  <2> HIDE DEF state
  <2>4. 0 \in -3 .. 3 /\ Worth(state, m) = Worth(players[p], m) + 0
        /\ Held(scene, m) = Held(scene, m) - 0
    BY <2>1, <2>2, <2>3
  <2> QED  BY <2>4
<1> HIDE DEF state
<1> QED  BY <1>3, <1>4, <1>5, <1>7 DEF Requested, Posts, Fair

\* A block is removed: of the terrain only where nothing was edited yet.
LEMMA RemoveBlockRequested ==
    ASSUME UnsavedInv, NEW p \in Player, NEW c \in Cell, NEW type \in BlockType,
           RemoveBlock(p, c, type)
    PROVE  Requested
<1> DEFINE old     == scene.voxel_edits[c]
           removed == IF old.action = "placed" THEN old.type ELSE type
           has     == Add(players[p].has, BlockGives(removed))
           mined   == IF old.action = "placed" THEN scene.mined
                      ELSE Add(scene.mined, BlockGives(removed))
           e       == [action |-> "removed", type |-> removed]
           state   == [players[p] EXCEPT !.has = has]
           sc      == [scene EXCEPT !.voxel_edits[c] = e, !.mined = mined]
<1>1. players[p] \in State /\ players[p].has \in [Material -> Nat]
  BY DEF UnsavedInv, WorldInv, State
<1>2. /\ scene \in GoodScene /\ scene \in Scene
      /\ scene.voxel_edits \in [Cell -> Edit] /\ scene.mined \in [Material -> Nat]
  BY DEF UnsavedInv, WorldInv, GoodScene, Scene
<1>3. old.action \in {"none", "removed", "placed"} /\ old.type \in 0 .. 5
  <2>1. old \in Edit
    BY <1>2
  <2> QED  BY <2>1 DEF Edit
<1>4. Apply(p, state, sc, <<SaveScene(sc), SavePlayer(p, state)>>) /\ old.action # "removed"
  BY Zenon DEF RemoveBlock
<1>5. e \in Edit /\ e.action # "none"
  BY <1>3, WorldConstants DEF Edit
<1> HIDE DEF removed
<1>6. has \in [Material -> Nat]
  BY <1>1, Amounts, Costs
<1>7. mined \in [Material -> Nat]
  <2>1. Add(scene.mined, BlockGives(removed)) \in [Material -> Nat]
    BY <1>2, Amounts, Costs
  <2> QED  BY <1>2, <2>1
<1>8. \/ mined = scene.mined
      \/ /\ scene.voxel_edits[c].action = "none"
         /\ \E t : mined = Add(scene.mined, BlockGives(t))
  BY <1>3, <1>4
<1> HIDE DEF mined, e, has
<1>9. state \in State
  BY <1>1, <1>6, OtherHas
<1>10. /\ sc \in Scene /\ sc.buildings = scene.buildings
       /\ sc.next_building_id = scene.next_building_id
       /\ sc.voxel_edits = [scene.voxel_edits EXCEPT ![c] = e] /\ sc.mined = mined
  <2> DEFINE edits == [scene.voxel_edits EXCEPT ![c] = e]
  <2>1. edits \in [Cell -> Edit]
    BY <1>2, <1>5
  <2>2. sc = [scene EXCEPT !.voxel_edits = edits, !.mined = mined]
    BY <1>2 DEF Scene
  <2> HIDE DEF edits, sc
  <2>3. /\ sc \in Scene /\ sc.buildings = scene.buildings
        /\ sc.next_building_id = scene.next_building_id
        /\ sc.voxel_edits = edits /\ sc.mined = mined
    BY <1>2, <1>7, <2>1, <2>2 DEF Scene
  <2> QED  BY <2>3 DEF edits
<1>10a. sc.resources = scene.resources
  BY <1>2 DEF Scene
<1>10b. state = [players[p] EXCEPT !.has = has]
  OBVIOUS
<1> HIDE DEF state, sc
<1>11. sc \in GoodScene
  BY <1>2, <1>5, <1>7, <1>8, <1>10, EditIsGood
<1>12. ASSUME NEW m \in Material
      PROVE  \E gain \in -3 .. 3 : /\ Worth(state, m) = Worth(players[p], m) + gain
                                   /\ Held(sc, m) = Held(scene, m) - gain
  <2> DEFINE gain == BlockGives(removed)[m]
  <2>1. gain \in 0 .. 1
    BY AmountsAreInts
  <2>2. Worth(state, m) = Worth(players[p], m) + (has[m] - players[p].has[m])
    BY <1>1, <1>6, <1>10b, WorthOfHas
  <2>3. has[m] = players[p].has[m] + gain /\ players[p].has[m] \in Nat
    BY <1>1 DEF Add, has
  <2>4. Placed(sc, m) = Placed(scene, m) + (InBlock(e, m) - InBlock(old, m))
    BY <1>2, <1>5, <1>10, PlacedChanges
  <2>5. InBlock(e, m) = 0
    BY DEF InBlock, e
  <2>6. Left(sc, m) = Left(scene, m) /\ Built(sc, m) = Built(scene, m)
    BY <1>10, <1>10a DEF Left, Built
  <2>7. Worth(players[p], m) \in Int /\ scene.mined[m] \in Int
    BY <1>1, <1>2, WorthIs
  <2>8. InBlock(old, m) - gain = scene.mined[m] - sc.mined[m]
    <3>1. CASE old.action = "placed"
      <4>1. InBlock(old, m) = gain
        BY <3>1 DEF InBlock, removed
      <4>2. sc.mined[m] = scene.mined[m]
        BY <1>10, <3>1 DEF mined
      <4> HIDE DEF gain
      <4> QED  BY <2>1, <2>7, <4>1, <4>2
    <3>2. CASE old.action # "placed"
      <4>1. InBlock(old, m) = 0
        BY <3>2 DEF InBlock
      <4>2. sc.mined[m] = scene.mined[m] + gain
        BY <1>10, <3>2 DEF mined, Add
      <4> HIDE DEF gain
      <4> QED  BY <2>1, <2>7, <4>1, <4>2
    <3> QED  BY <3>1, <3>2
  <2>9. InBlock(old, m) \in Int /\ sc.mined[m] \in Int
    BY <1>7, <1>10, AmountsAreInts DEF InBlock
  <2> HIDE DEF gain, old
  <2>10. Worth(state, m) = Worth(players[p], m) + gain
    BY <2>1, <2>2, <2>3, <2>7
  <2>11. (Left(sc, m) - Left(scene, m)) + (Built(sc, m) - Built(scene, m))
           + (Placed(sc, m) - Placed(scene, m)) - (sc.mined[m] - scene.mined[m]) = (-gain)
    <3>1. /\ Left(scene, m) \in Int /\ Built(scene, m) \in Int /\ Placed(scene, m) \in Int
          /\ scene.mined[m] \in Int
      BY <1>2, <1>10, HeldIs
    <3> QED  BY <2>1, <3>1, <2>4, <2>5, <2>6, <2>8, <2>9
  <2>12. (-gain) \in -3 .. 3 /\ (-gain) \in Int
    BY <2>1
  <2>13. Held(sc, m) = Held(scene, m) + (-gain) /\ Held(scene, m) \in Int
    BY <1>2, <1>10, <2>11, <2>12, HeldMoves, HeldIs
  <2>14. gain \in -3 .. 3 /\ Held(sc, m) = Held(scene, m) - gain
    BY <2>1, <2>13
  <2> QED  BY <2>10, <2>14
<1> QED  BY <1>4, <1>9, <1>11, <1>12 DEF Requested, Posts, Fair

\* A block is placed.
LEMMA PlaceBlockRequested ==
    ASSUME UnsavedInv, NEW p \in Player, NEW c \in Cell, NEW type \in BlockType,
           PlaceBlock(p, c, type)
    PROVE  Requested
<1> DEFINE has   == Take(players[p].has, BlockGives(type))
           e     == [action |-> "placed", type |-> type]
           state == [players[p] EXCEPT !.has = has]
           sc    == [scene EXCEPT !.voxel_edits[c] = e]
<1>1. players[p] \in State /\ players[p].has \in [Material -> Nat]
  BY DEF UnsavedInv, WorldInv, State
<1>2. /\ scene \in GoodScene /\ scene \in Scene
      /\ scene.voxel_edits \in [Cell -> Edit] /\ scene.mined \in [Material -> Nat]
  BY DEF UnsavedInv, WorldInv, GoodScene, Scene
<1>3. Apply(p, state, sc, <<SaveScene(sc), SavePlayer(p, state)>>)
      /\ Enough(players[p].has, BlockGives(type))
  BY Zenon DEF PlaceBlock
<1>4. e \in Edit /\ e.action # "none"
  BY WorldConstants DEF Edit
<1>5. has \in [Material -> Nat]
  BY <1>1, <1>3, Amounts, Costs
<1> HIDE DEF e, has
<1>6. state \in State
  BY <1>1, <1>5, OtherHas
<1>7. /\ sc \in Scene /\ sc.buildings = scene.buildings
      /\ sc.next_building_id = scene.next_building_id
      /\ sc.voxel_edits = [scene.voxel_edits EXCEPT ![c] = e] /\ sc.mined = scene.mined
  <2> DEFINE edits == [scene.voxel_edits EXCEPT ![c] = e]
  <2>1. edits \in [Cell -> Edit]
    BY <1>2, <1>4
  <2>2. sc = [scene EXCEPT !.voxel_edits = edits]
    BY <1>2 DEF Scene
  <2> HIDE DEF edits, sc
  <2>3. /\ sc \in Scene /\ sc.buildings = scene.buildings
        /\ sc.next_building_id = scene.next_building_id
        /\ sc.voxel_edits = edits /\ sc.mined = scene.mined
    BY <1>2, <2>1, <2>2 DEF Scene
  <2> QED  BY <2>3 DEF edits
<1>7a. sc.resources = scene.resources
  BY <1>2 DEF Scene
<1>7b. state = [players[p] EXCEPT !.has = has]
  OBVIOUS
<1> HIDE DEF state, sc
<1>8. sc \in GoodScene
  BY <1>2, <1>4, <1>7, EditIsGood
<1>9. ASSUME NEW m \in Material
      PROVE  \E gain \in -3 .. 3 : /\ Worth(state, m) = Worth(players[p], m) + gain
                                   /\ Held(sc, m) = Held(scene, m) - gain
  <2> DEFINE cost == BlockGives(type)[m]
             old  == scene.voxel_edits[c]
  <2>1. cost \in 0 .. 1
    BY AmountsAreInts
  <2>2. Worth(state, m) = Worth(players[p], m) + (has[m] - players[p].has[m])
    BY <1>1, <1>5, <1>7b, WorthOfHas
  <2>3. has[m] = players[p].has[m] - cost /\ players[p].has[m] \in Nat
    BY <1>1 DEF Take, has
  <2>4. Placed(sc, m) = Placed(scene, m) + (InBlock(e, m) - InBlock(old, m))
    BY <1>2, <1>4, <1>7, PlacedChanges
  <2>5. InBlock(e, m) = cost /\ InBlock(old, m) = 0
    <3>1. old.action # "placed"
      BY DEF PlaceBlock
    <3> QED  BY <3>1 DEF InBlock, e
  <2>6. Left(sc, m) = Left(scene, m) /\ Built(sc, m) = Built(scene, m)
    BY <1>7, <1>7a DEF Left, Built
  <2>7. Worth(players[p], m) \in Int /\ sc.mined[m] = scene.mined[m]
    BY <1>1, <1>7, WorthIs
  <2> HIDE DEF cost, old
  <2>8. Worth(state, m) = Worth(players[p], m) + (-cost)
    BY <2>1, <2>2, <2>3, <2>7
  <2>9. (Left(sc, m) - Left(scene, m)) + (Built(sc, m) - Built(scene, m))
           + (Placed(sc, m) - Placed(scene, m)) - (sc.mined[m] - scene.mined[m]) = cost
    <3>1. /\ Left(scene, m) \in Int /\ Built(scene, m) \in Int /\ Placed(scene, m) \in Int
          /\ scene.mined[m] \in Int
      BY <1>2, <1>7, HeldIs
    <3> QED  BY <2>1, <3>1, <2>4, <2>5, <2>6, <2>7
  <2>10. cost \in -3 .. 3 /\ cost \in Int
    BY <2>1
  <2>11. Held(sc, m) = Held(scene, m) + cost /\ Held(scene, m) \in Int
    BY <1>2, <1>7, <2>9, <2>10, HeldMoves, HeldIs
  <2>12. -cost \in -3 .. 3 /\ Held(sc, m) = Held(scene, m) - (-cost)
    BY <2>1, <2>11
  <2> QED  BY <2>8, <2>12
<1> QED  BY <1>3, <1>6, <1>8, <1>9 DEF Requested, Posts, Fair

AnyRequest ==
    \/ \E p \in Player, r \in Resource : Gather(p, r)
    \/ \E p \in Player, type \in Building, at \in Place : PlaceBuilding(p, type, at)
    \/ \E p \in Player, recipe \in Recipe : Craft(p, recipe)
    \/ \E p \in Player, c \in Cell, type \in BlockType : RemoveBlock(p, c, type)
    \/ \E p \in Player, c \in Cell, type \in BlockType : PlaceBlock(p, c, type)

\* Each of the five is of the form of a request that succeeds.
LEMMA RequestIs == UnsavedInv /\ AnyRequest => Requested
BY GatherRequested, PlaceBuildingRequested, CraftRequested, RemoveBlockRequested,
   PlaceBlockRequested, Zenon DEF AnyRequest

\* A request is granted.
LEMMA RequestKeeps == UnsavedInv /\ AnyRequest => UnsavedInv'
BY RequestIs, PostsKeeps, Zenon DEF Requested

-----------------------------------------------------------------------------
(* Players come and go, the worker writes, the process dies *)

\* A login asks for the record. If it is the only one of the player, its load is
\* behind all their saves.
LEMMA LoginKeeps ==
    ASSUME UnsavedInv, NEW p \in Player, Login(p)
    PROVE  UnsavedInv'
<1> DEFINE n == Len(q)
           a == [kind |-> "load", player |-> p]
<1>1. /\ q \in Seq(Task) /\ n \in Nat /\ DOMAIN q = 1 .. n /\ mishaps \in [Player -> Nat]
  BY DEF UnsavedInv, WorldInv
<1>2. /\ q' = Append(q, a)
      /\ UNCHANGED <<online, players, scene, stored_players, stored_scene, logins, crashes, failed>>
      /\ \/ /\ mishaps' = mishaps
            /\ p \notin online /\ LoadsOf(p) = {} /\ LoginsOf(p) = {}
         \/ mishaps' = [mishaps EXCEPT ![p] = mishaps[p] + 1]
  BY DEF Login, Mishap, stores
<1>3. a \in Task /\ a.kind = "load" /\ a.player = p
  BY DEF Task, LoadTask
<1> HIDE DEF a
<1>4. /\ q' \in Seq(Task) /\ DOMAIN q' = 1 .. n + 1
      /\ \A i \in 1 .. n : q'[i] = q[i]
      /\ q'[n + 1] = a
  BY <1>1, <1>2, <1>3
<1>5. /\ \A i \in DOMAIN q' : i \in DOMAIN q \/ i = n + 1
      /\ \A i \in DOMAIN q : i \in DOMAIN q' /\ q'[i] = q[i] /\ i < n + 1
      /\ n + 1 \in DOMAIN q'
  BY <1>1, <1>4
<1>6. WorldInv'
  <2>1. mishaps' \in [Player -> Nat]
    BY <1>1, <1>2
  <2> QED  BY <1>2, <1>4, <2>1 DEF UnsavedInv, WorldInv
<1>7. (~failed => SceneOnTheWay)'
  <2>1. SceneSaves' = SceneSaves
    BY <1>3, <1>4, <1>5 DEF SceneSaves
  <2>2. \A i \in SceneSaves : q'[i] = q[i]
    BY <1>5 DEF SceneSaves
  <2> QED  BY <1>2, <2>1, <2>2 DEF UnsavedInv, OnTheWay, SceneOnTheWay
<1>8. ASSUME NEW x \in Player, mishaps'[x] = 0 PROVE (PlayerOnTheWay(x) /\ OneLogin(x))'
  <2>1. mishaps[x] = 0 /\ (x = p => mishaps' = mishaps)
    BY <1>1, <1>2, <1>8
  <2>2. PlayerOnTheWay(x) /\ OneLogin(x)
    BY <2>1 DEF UnsavedInv, OnTheWay, PlayerInOrder
  <2>3. SavesOf(x)' = SavesOf(x) /\ LoginsOf(x)' = LoginsOf(x)
    <3>1. SavesOf(x)' = SavesOf(x)
      BY <1>3, <1>4, <1>5 DEF SavesOf
    <3> QED  BY <1>2, <3>1 DEF LoginsOf
  <2>4. \A i \in SavesOf(x) : q'[i] = q[i] /\ i < n + 1
    BY <1>5 DEF SavesOf
  <2>5. PlayerOnTheWay(x)'
    BY <1>2, <2>2, <2>3, <2>4 DEF PlayerOnTheWay
  <2>6. CASE x = p
    <3>1. p \notin online /\ LoadsOf(p) = {} /\ LoginsOf(p) = {}
      <4>1. mishaps # [mishaps EXCEPT ![p] = mishaps[p] + 1]
        BY <1>1
      <4> QED  BY <1>2, <2>1, <2>6, <4>1
    <3>2. \A i \in LoadsOf(x)' : i = n + 1
      <4> TAKE i \in LoadsOf(x)'
      <4>1. i \in DOMAIN q' /\ q'[i].kind = "load" /\ q'[i].player = x
        BY DEF LoadsOf
      <4>2. i \notin DOMAIN q
        BY <1>5, <2>6, <3>1, <4>1 DEF LoadsOf
      <4> QED  BY <1>5, <4>1, <4>2
    <3> QED  BY <1>2, <2>3, <2>4, <2>5, <2>6, <3>1, <3>2 DEF OneLogin
  <2>7. CASE x # p
    <3>1. LoadsOf(x)' = LoadsOf(x)
      BY <1>3, <1>4, <1>5, <2>7 DEF LoadsOf
    <3> QED  BY <1>2, <2>2, <2>3, <2>5, <3>1 DEF OneLogin
  <2> QED  BY <2>6, <2>7
<1> QED  BY <1>6, <1>7, <1>8 DEF UnsavedInv, OnTheWay, PlayerInOrder

\* A player's state is posted as it is: nothing is less on its way than before.
LEMMA SavedAsIs ==
    ASSUME WorldInv, NEW p \in Player, q' = Append(q, SavePlayer(p, players[p]))
    PROVE  /\ q' \in Seq(Task)
           /\ SceneSaves' = SceneSaves /\ \A i \in SceneSaves : q'[i] = q[i]
           /\ \A x \in Player : LoadsOf(x)' = LoadsOf(x)
           /\ \A x \in Player : x # p => /\ SavesOf(x)' = SavesOf(x)
                                         /\ \A i \in SavesOf(x) : q'[i] = q[i]
           /\ players'[p] = players[p] => PlayerOnTheWay(p)'
<1> DEFINE n == Len(q)
           a == SavePlayer(p, players[p])
<1>1. /\ q \in Seq(Task) /\ n \in Nat /\ DOMAIN q = 1 .. n /\ players \in [Player -> State]
      /\ scene \in GoodScene
  BY DEF WorldInv
<1>2. q' = Append(q, a)
  OBVIOUS
<1>3. a \in Task /\ a.kind = "player" /\ a.player = p /\ a.state = players[p]
  BY <1>1, Saves DEF SavePlayer
<1> HIDE DEF a
<1>4. /\ q' \in Seq(Task) /\ DOMAIN q' = 1 .. n + 1
      /\ \A i \in 1 .. n : q'[i] = q[i]
      /\ q'[n + 1] = a
  BY <1>1, <1>2, <1>3
<1>5. /\ \A i \in DOMAIN q' : i \in DOMAIN q \/ i = n + 1
      /\ \A i \in DOMAIN q : i \in DOMAIN q' /\ q'[i] = q[i] /\ i <= n + 1
      /\ n + 1 \in DOMAIN q'
  BY <1>1, <1>4
<1>6. SceneSaves' = SceneSaves /\ \A i \in SceneSaves : q'[i] = q[i]
  BY <1>3, <1>4, <1>5 DEF SceneSaves
<1>7. \A x \in Player : LoadsOf(x)' = LoadsOf(x)
  BY <1>3, <1>4, <1>5 DEF LoadsOf
<1>8. ASSUME NEW x \in Player, x # p
      PROVE  SavesOf(x)' = SavesOf(x) /\ \A i \in SavesOf(x) : q'[i] = q[i]
  BY <1>3, <1>4, <1>5, <1>8 DEF SavesOf
<1>9. ASSUME players'[p] = players[p] PROVE PlayerOnTheWay(p)'
  <2>1. n + 1 \in SavesOf(p)'
    BY <1>3, <1>4, <1>5 DEF SavesOf
  <2>2. ASSUME NEW i \in SavesOf(p)', \A j \in SavesOf(p)' : j <= i
        PROVE  i = n + 1
    <3>1. n + 1 <= i /\ i \in DOMAIN q'
      BY <2>1, <2>2 DEF SavesOf
    <3> QED  BY <1>1, <1>4, <3>1
  <2> QED  BY <1>3, <1>4, <1>9, <2>1, <2>2 DEF PlayerOnTheWay
<1> QED  BY <1>4, <1>6, <1>7, <1>8, <1>9

\* Who leaves is saved as they are.
LEMMA LeaveKeeps ==
    ASSUME UnsavedInv, NEW p \in Player, Leave(p)
    PROVE  UnsavedInv'
<1>1. /\ q' = Append(q, SavePlayer(p, players[p])) /\ online' = online \ {p} /\ p \in online
      /\ UNCHANGED <<players, scene, stored_players, stored_scene, logins, crashes, failed, mishaps>>
  BY DEF Leave, stores, histories
<1>2. WorldInv
  BY DEF UnsavedInv
<1>3. /\ q' \in Seq(Task)
      /\ SceneSaves' = SceneSaves /\ \A i \in SceneSaves : q'[i] = q[i]
      /\ \A x \in Player : LoadsOf(x)' = LoadsOf(x)
      /\ \A x \in Player : x # p => /\ SavesOf(x)' = SavesOf(x)
                                    /\ \A i \in SavesOf(x) : q'[i] = q[i]
      /\ PlayerOnTheWay(p)'
  BY <1>1, <1>2, SavedAsIs
<1>4. WorldInv'
  BY <1>1, <1>2, <1>3 DEF WorldInv
<1>5. (~failed => SceneOnTheWay)'
  BY <1>1, <1>3 DEF UnsavedInv, OnTheWay, SceneOnTheWay
<1>6. ASSUME NEW x \in Player, mishaps[x] = 0 PROVE (PlayerOnTheWay(x) /\ OneLogin(x))'
  <2>1. PlayerOnTheWay(x) /\ OneLogin(x)
    BY <1>6 DEF UnsavedInv, OnTheWay, PlayerInOrder
  <2>2. LoginsOf(x)' = LoginsOf(x)
    BY <1>1 DEF LoginsOf
  <2>3. CASE x = p
    BY <1>1, <1>3, <2>1, <2>2, <2>3 DEF OneLogin
  <2>4. CASE x # p
    <3>1. PlayerOnTheWay(x)'
      BY <1>1, <1>3, <2>1, <2>4 DEF PlayerOnTheWay
    <3>2. OneLogin(x)'
      BY <1>1, <1>3, <2>1, <2>2, <2>4 DEF OneLogin
    <3> QED  BY <3>1, <3>2
  <2> QED  BY <2>3, <2>4
<1> QED  BY <1>1, <1>4, <1>5, <1>6 DEF UnsavedInv, OnTheWay, PlayerInOrder

\* The first of the logins goes, the others move up by one.
LEMMA LoginsMoveUp ==
    ASSUME WorldInv, logins # <<>>, logins' = Tail(logins)
    PROVE  /\ Head(logins) = logins[1] /\ logins[1] \in LoginDone /\ 1 \in DOMAIN logins
           /\ logins' \in Seq(LoginDone)
           /\ \A i \in DOMAIN logins' : /\ i \in Nat /\ i + 1 \in DOMAIN logins
                                        /\ logins'[i] = logins[i + 1]
<1>1. /\ logins \in Seq(LoginDone) /\ Len(logins) \in Nat /\ Len(logins) > 0
      /\ DOMAIN logins = 1 .. Len(logins)
  BY DEF WorldInv
<1>2. /\ Tail(logins) \in Seq(LoginDone) /\ Len(Tail(logins)) = Len(logins) - 1
      /\ \A i \in 1 .. Len(Tail(logins)) : Tail(logins)[i] = logins[i + 1]
  BY <1>1, HeadTailProperties
<1>3. DOMAIN logins' = 1 .. Len(logins) - 1
  BY <1>1, <1>2
<1>4. Head(logins) = logins[1] /\ logins[1] \in LoginDone /\ 1 \in DOMAIN logins
  BY <1>1, ElementOfSeq
<1>5. \A i \in DOMAIN logins' : /\ i \in Nat /\ i + 1 \in DOMAIN logins
                                /\ logins'[i] = logins[i + 1]
  BY <1>1, <1>2, <1>3
<1> QED  BY <1>2, <1>4, <1>5

\* What is left of a player's one login when the first of the logins goes
LEMMA OneLoginLess ==
    ASSUME WorldInv, logins # <<>>, logins' = Tail(logins), NEW x \in Player, OneLogin(x)
    PROVE  /\ LoginsOf(x) = {} => LoginsOf(x)' = {}
           /\ logins[1].player = x => LoginsOf(x)' = {}
           /\ \A i, j \in LoginsOf(x)' : i = j
           /\ \A i \in LoginsOf(x)' : logins'[i].state = stored_players[x]
<1>1. \A i \in LoginsOf(x)' : i \in Nat /\ i + 1 \in LoginsOf(x) /\ logins'[i] = logins[i + 1]
  BY LoginsMoveUp DEF LoginsOf
<1>2. \A i, j \in LoginsOf(x) : i = j
  BY DEF OneLogin
<1>3. ASSUME logins[1].player = x PROVE LoginsOf(x)' = {}
  <2>1. 1 \in LoginsOf(x)
    BY <1>3, LoginsMoveUp DEF LoginsOf
  <2>2. ASSUME NEW i \in LoginsOf(x)' PROVE FALSE
    <3>1. i \in Nat /\ i + 1 = 1 /\ i # 0
      <4>1. i \in DOMAIN logins' /\ i + 1 \in LoginsOf(x)
        BY <1>1 DEF LoginsOf
      <4>2. DOMAIN logins' = 1 .. Len(logins')
        BY LoginsMoveUp
      <4> QED  BY <1>1, <1>2, <2>1, <4>1, <4>2
    <3> QED  BY <3>1
  <2> QED  BY <2>2
<1>4. ASSUME NEW i \in LoginsOf(x)', NEW j \in LoginsOf(x)' PROVE i = j
  <2>1. i + 1 = j + 1 /\ i \in Nat /\ j \in Nat
    BY <1>1, <1>2
  <2> QED  BY <2>1
<1>5. \A i \in LoginsOf(x)' : logins'[i].state = stored_players[x]
  BY <1>1 DEF OneLogin
<1> QED  BY <1>1, <1>3, <1>4, <1>5

\* The login is forgotten.
LEMMA ForgetLoginKeeps == UnsavedInv /\ ForgetLogin => UnsavedInv'
<1> SUFFICES ASSUME UnsavedInv, ForgetLogin PROVE UnsavedInv'
  OBVIOUS
<1>1. /\ logins # <<>> /\ logins' = Tail(logins) /\ WorldInv
      /\ UNCHANGED <<online, players, scene, stored_players, stored_scene, q, crashes, failed,
                     mishaps>>
  BY DEF ForgetLogin, stores, histories, UnsavedInv
<1>2. WorldInv'
  BY <1>1, LoginsMoveUp DEF WorldInv
<1>3. /\ SceneSaves' = SceneSaves
      /\ \A x \in Player : SavesOf(x)' = SavesOf(x) /\ LoadsOf(x)' = LoadsOf(x)
  BY <1>1 DEF SceneSaves, SavesOf, LoadsOf
<1>4. (~failed => SceneOnTheWay)'
  BY <1>1, <1>3 DEF UnsavedInv, OnTheWay, SceneOnTheWay
<1>5. ASSUME NEW x \in Player, mishaps[x] = 0 PROVE (PlayerOnTheWay(x) /\ OneLogin(x))'
  <2>1. PlayerOnTheWay(x) /\ OneLogin(x)
    BY <1>5 DEF UnsavedInv, OnTheWay, PlayerInOrder
  <2>2. PlayerOnTheWay(x)'
    BY <1>1, <1>3, <2>1 DEF PlayerOnTheWay
  <2>3. /\ LoginsOf(x) = {} => LoginsOf(x)' = {}
        /\ \A i, j \in LoginsOf(x)' : i = j
        /\ \A i \in LoginsOf(x)' : logins'[i].state = stored_players[x]
    BY <1>1, <2>1, OneLoginLess
  <2>4. OneLogin(x)'
    BY <1>1, <1>3, <2>1, <2>3 DEF OneLogin
  <2> QED  BY <2>2, <2>4
<1> QED  BY <1>1, <1>2, <1>4, <1>5 DEF UnsavedInv, OnTheWay, PlayerInOrder

\* Who has one login at a time enters with the state they left with.
LEMMA EntersAsLeft ==
    ASSUME UnsavedInv, logins # <<>>, mishaps[Head(logins).player] = 0
    PROVE  LET p == Head(logins).player
           IN  /\ p \in Player /\ Head(logins).state = players[p]
               /\ SavesOf(p) = {} /\ LoadsOf(p) = {} /\ p \notin online
<1>1. /\ logins \in Seq(LoginDone) /\ 1 \in DOMAIN logins /\ Head(logins) = logins[1]
      /\ logins[1] \in LoginDone
  BY ElementOfSeq DEF UnsavedInv, WorldInv
<1> DEFINE p == Head(logins).player
<1>2. p \in Player /\ p = logins[1].player
  BY <1>1 DEF LoginDone
<1>3. PlayerOnTheWay(p) /\ OneLogin(p)
  BY <1>2 DEF UnsavedInv, OnTheWay, PlayerInOrder
<1>4. 1 \in LoginsOf(p)
  BY <1>1, <1>2 DEF LoginsOf
<1> HIDE DEF p
<1>5. /\ SavesOf(p) = {} /\ logins[1].state = stored_players[p]
      /\ LoadsOf(p) = {} /\ p \notin online
  BY <1>3, <1>4 DEF OneLogin
<1>6. stored_players[p] = players[p]
  BY <1>3, <1>5 DEF PlayerOnTheWay
<1> QED  BY <1>1, <1>2, <1>5, <1>6 DEF p

\* The rest of a login: the player is in the world, somebody else may be out of it.
LEMMA EnterKeeps == UnsavedInv /\ EnterWithState => UnsavedInv'
<1> SUFFICES ASSUME UnsavedInv, EnterWithState PROVE UnsavedInv'
  OBVIOUS
<1> DEFINE p == Head(logins).player
           st == Head(logins).state
<1>1. /\ logins # <<>> /\ logins' = Tail(logins) /\ WorldInv
      /\ players' = [players EXCEPT ![p] = st]
      /\ UNCHANGED <<scene, stored_players, stored_scene, crashes, failed, mishaps>>
      /\ \/ online' = online \cup {p} /\ q' = q
         \/ \E old \in online \ {p} : /\ online' = (online \ {old}) \cup {p}
                                      /\ q' = Append(q, SavePlayer(old, players[old]))
  BY DEF EnterWithState, stores, histories, UnsavedInv
<1>2. Head(logins) = logins[1] /\ logins[1] \in LoginDone /\ logins' \in Seq(LoginDone)
  BY <1>1, LoginsMoveUp
<1>3. p \in Player /\ st \in State /\ p = logins[1].player /\ online \subseteq Player
      /\ players \in [Player -> State]
  BY <1>1, <1>2 DEF LoginDone, WorldInv
<1>4. mishaps[p] = 0 => /\ st = players[p] /\ SavesOf(p) = {} /\ LoadsOf(p) = {}
                        /\ p \notin online
  BY <1>1, EntersAsLeft
<1> HIDE DEF p, st
<1>5. ASSUME NEW old \in online \ {p}, q' = Append(q, SavePlayer(old, players[old]))
      PROVE  /\ q' \in Seq(Task)
             /\ SceneSaves' = SceneSaves /\ \A i \in SceneSaves : q'[i] = q[i]
             /\ \A x \in Player : LoadsOf(x)' = LoadsOf(x)
             /\ \A x \in Player : x # old => /\ SavesOf(x)' = SavesOf(x)
                                             /\ \A i \in SavesOf(x) : q'[i] = q[i]
             /\ PlayerOnTheWay(old)'
  <2>1. old \in Player /\ players'[old] = players[old]
    BY <1>1, <1>3
  <2> QED  BY <1>1, <1>5, <2>1, SavedAsIs
<1>6. /\ q' \in Seq(Task) /\ online' \subseteq Player
      /\ SceneSaves' = SceneSaves /\ \A i \in SceneSaves : q'[i] = q[i]
      /\ \A x \in Player : LoadsOf(x)' = LoadsOf(x)
  <2>1. CASE online' = online \cup {p} /\ q' = q
    BY <1>1, <1>3, <2>1 DEF WorldInv, SceneSaves, LoadsOf
  <2>2. ASSUME NEW old \in online \ {p}, online' = (online \ {old}) \cup {p},
               q' = Append(q, SavePlayer(old, players[old]))
        PROVE  /\ q' \in Seq(Task) /\ online' \subseteq Player
               /\ SceneSaves' = SceneSaves /\ \A i \in SceneSaves : q'[i] = q[i]
               /\ \A x \in Player : LoadsOf(x)' = LoadsOf(x)
    BY <1>3, <1>5, <2>2
  <2> QED  BY <1>1, <2>1, <2>2
<1>7. WorldInv'
  <2>1. players' \in [Player -> State]
    BY <1>1, <1>3
  <2> QED  BY <1>1, <1>2, <1>6, <2>1 DEF WorldInv
<1>8. (~failed => SceneOnTheWay)'
  BY <1>1, <1>6 DEF UnsavedInv, OnTheWay, SceneOnTheWay
<1>9. ASSUME NEW x \in Player, mishaps[x] = 0 PROVE (PlayerOnTheWay(x) /\ OneLogin(x))'
  <2>1. PlayerOnTheWay(x) /\ OneLogin(x)
    BY <1>9 DEF UnsavedInv, OnTheWay, PlayerInOrder
  <2>2. players'[x] = players[x]
    BY <1>1, <1>3, <1>4, <1>9
  <2>3. /\ LoginsOf(x) = {} => LoginsOf(x)' = {}
        /\ x = p => LoginsOf(x)' = {}
        /\ \A i, j \in LoginsOf(x)' : i = j
        /\ \A i \in LoginsOf(x)' : logins'[i].state = stored_players[x]
    BY <1>1, <1>3, <2>1, OneLoginLess
  <2>4. CASE q' = q /\ online' = online \cup {p}
    <3>1. SavesOf(x)' = SavesOf(x)
      BY <2>4 DEF SavesOf
    <3>2. PlayerOnTheWay(x)'
      BY <1>1, <2>1, <2>2, <2>4, <3>1 DEF PlayerOnTheWay
    <3>3. OneLogin(x)'
      BY <1>1, <1>4, <1>6, <1>9, <2>1, <2>3, <2>4, <3>1 DEF OneLogin
    <3> QED  BY <3>2, <3>3
  <2>5. ASSUME NEW old \in online \ {p}, online' = (online \ {old}) \cup {p},
               q' = Append(q, SavePlayer(old, players[old]))
        PROVE  (PlayerOnTheWay(x) /\ OneLogin(x))'
    <3>1. CASE x = old
      <4>1. PlayerOnTheWay(x)'
        BY <1>5, <2>5, <3>1
      <4>2. LoadsOf(x)' = {} /\ LoginsOf(x)' = {}
        BY <1>6, <2>1, <2>3, <2>5, <3>1 DEF OneLogin
      <4> QED  BY <4>1, <4>2 DEF OneLogin
    <3>2. CASE x # old
      <4>1. SavesOf(x)' = SavesOf(x) /\ \A i \in SavesOf(x) : q'[i] = q[i]
        BY <1>5, <2>5, <3>2
      <4>2. PlayerOnTheWay(x)'
        BY <1>1, <2>1, <2>2, <4>1 DEF PlayerOnTheWay
      <4>3. OneLogin(x)'
        BY <1>1, <1>4, <1>6, <1>9, <2>1, <2>3, <2>5, <4>1 DEF OneLogin
      <4> QED  BY <4>2, <4>3
    <3> QED  BY <3>1, <3>2
  <2> QED  BY <1>1, <2>4, <2>5
<1> QED  BY <1>1, <1>7, <1>8, <1>9 DEF UnsavedInv, OnTheWay, PlayerInOrder

\* The head of the queue goes, the others move up by one.
LEMMA QueueMovesUp ==
    ASSUME WorldInv, q # <<>>, q' = Tail(q)
    PROVE  /\ Head(q) = q[1] /\ q[1] \in Task /\ 1 \in DOMAIN q
           /\ q' \in Seq(Task)
           /\ \A i \in DOMAIN q' : i \in Nat /\ i + 1 \in DOMAIN q /\ q'[i] = q[i + 1]
           /\ \A i \in DOMAIN q : i \in Nat /\ i >= 1
           /\ \A i \in DOMAIN q : i # 1 => i - 1 \in DOMAIN q' /\ q'[i - 1] = q[i]
<1>1. q \in Seq(Task) /\ Len(q) \in Nat /\ Len(q) > 0 /\ DOMAIN q = 1 .. Len(q)
  BY DEF WorldInv
<1>2. /\ Tail(q) \in Seq(Task) /\ Len(Tail(q)) = Len(q) - 1
      /\ \A i \in 1 .. Len(Tail(q)) : Tail(q)[i] = q[i + 1]
  BY <1>1, HeadTailProperties
<1>3. DOMAIN q' = 1 .. Len(q) - 1
  BY <1>1, <1>2
<1>4. Head(q) = q[1] /\ q[1] \in Task /\ 1 \in DOMAIN q
  BY <1>1, ElementOfSeq
<1>5. \A i \in DOMAIN q' : i \in Nat /\ i + 1 \in DOMAIN q /\ q'[i] = q[i + 1]
  BY <1>1, <1>2, <1>3
<1>6. \A i \in DOMAIN q : i \in Nat /\ i >= 1
  BY <1>1
<1>7. ASSUME NEW i \in DOMAIN q, i # 1
      PROVE  i - 1 \in DOMAIN q' /\ q'[i - 1] = q[i]
  <2>1. i - 1 \in DOMAIN q' /\ (i - 1) + 1 = i
    BY <1>1, <1>3, <1>7
  <2> QED  BY <1>5, <2>1
<1> QED  BY <1>2, <1>4, <1>5, <1>6, <1>7

\* What the store of the scene and its saves say when the head goes. If it is a
\* save of the scene that is written, or not of the scene, all is as before.
LEMMA SceneMovesUp ==
    ASSUME WorldInv, SceneOnTheWay, q # <<>>, q' = Tail(q), scene' = scene,
           \/ q[1].kind # "scene" /\ stored_scene' = stored_scene
           \/ q[1].kind = "scene" /\ stored_scene' = q[1].scene
    PROVE  SceneOnTheWay'
<1>1. \A i \in SceneSaves' : i \in Nat /\ i + 1 \in SceneSaves /\ q'[i] = q[i + 1]
  BY QueueMovesUp DEF SceneSaves
<1>2. \A i \in SceneSaves : i # 1 => i - 1 \in SceneSaves'
  BY QueueMovesUp DEF SceneSaves
<1>3. \A i \in SceneSaves : i \in Nat /\ i >= 1
  BY QueueMovesUp DEF SceneSaves
<1>4. ASSUME NEW i \in SceneSaves', \A j \in SceneSaves' : j <= i
      PROVE  q'[i].scene = scene'
  <2>1. ASSUME NEW j \in SceneSaves PROVE j <= i + 1
    <3>1. CASE j = 1
      BY <1>1, <3>1
    <3>2. CASE j # 1
      <4>1. j - 1 \in SceneSaves' /\ j \in Nat
        BY <1>2, <1>3, <3>2
      <4>2. j - 1 <= i
        BY <1>4, <4>1
      <4> QED  BY <1>1, <4>1, <4>2
    <3> QED  BY <3>1, <3>2
  <2> QED  BY <1>1, <2>1 DEF SceneOnTheWay
<1>5. ASSUME SceneSaves' = {} PROVE stored_scene' = scene'
  <2>1. \A i \in SceneSaves : i = 1
    BY <1>2, <1>5
  <2>2. CASE q[1].kind # "scene"
    <3>1. SceneSaves = {}
      BY <2>1, <2>2 DEF SceneSaves
    <3> QED  BY <2>2, <3>1 DEF SceneOnTheWay
  <2>3. CASE q[1].kind = "scene"
    <3>1. 1 \in SceneSaves
      BY <2>3, QueueMovesUp DEF SceneSaves
    <3>2. \A j \in SceneSaves : j <= 1
      BY <2>1
    <3> QED  BY <2>3, <3>1, <3>2 DEF SceneOnTheWay
  <2> QED  BY <2>2, <2>3
<1> QED  BY <1>4, <1>5 DEF SceneOnTheWay

\* The same for the record of a player.
LEMMA PlayerMovesUp ==
    ASSUME WorldInv, NEW x \in Player, PlayerOnTheWay(x), q # <<>>, q' = Tail(q),
           players' = players,
           \/ ~(q[1].kind = "player" /\ q[1].player = x) /\ stored_players'[x] = stored_players[x]
           \/ /\ q[1].kind = "player" /\ q[1].player = x
              /\ stored_players'[x] = q[1].state
    PROVE  PlayerOnTheWay(x)'
<1>1. \A i \in SavesOf(x)' : i \in Nat /\ i + 1 \in SavesOf(x) /\ q'[i] = q[i + 1]
  BY QueueMovesUp DEF SavesOf
<1>2. \A i \in SavesOf(x) : i # 1 => i - 1 \in SavesOf(x)'
  BY QueueMovesUp DEF SavesOf
<1>3. \A i \in SavesOf(x) : i \in Nat /\ i >= 1
  BY QueueMovesUp DEF SavesOf
<1>4. ASSUME NEW i \in SavesOf(x)', \A j \in SavesOf(x)' : j <= i
      PROVE  q'[i].state = players'[x]
  <2>1. ASSUME NEW j \in SavesOf(x) PROVE j <= i + 1
    <3>1. CASE j = 1
      BY <1>1, <3>1
    <3>2. CASE j # 1
      <4>1. j - 1 \in SavesOf(x)' /\ j \in Nat
        BY <1>2, <1>3, <3>2
      <4>2. j - 1 <= i
        BY <1>4, <4>1
      <4> QED  BY <1>1, <4>1, <4>2
    <3> QED  BY <3>1, <3>2
  <2> QED  BY <1>1, <2>1 DEF PlayerOnTheWay
<1>5. ASSUME SavesOf(x)' = {} PROVE stored_players'[x] = players'[x]
  <2>1. \A i \in SavesOf(x) : i = 1
    BY <1>2, <1>5
  <2>2. CASE ~(q[1].kind = "player" /\ q[1].player = x)
    <3>1. SavesOf(x) = {}
      BY <2>1, <2>2 DEF SavesOf
    <3> QED  BY <2>2, <3>1 DEF PlayerOnTheWay
  <2>3. CASE q[1].kind = "player" /\ q[1].player = x
    <3>1. 1 \in SavesOf(x)
      BY <2>3, QueueMovesUp DEF SavesOf
    <3>2. \A j \in SavesOf(x) : j <= 1
      BY <2>1
    <3> QED  BY <2>3, <3>1, <3>2 DEF PlayerOnTheWay
  <2> QED  BY <2>2, <2>3
<1> QED  BY <1>4, <1>5 DEF PlayerOnTheWay

\* What is left of a player's one login when the head of the queue goes, if that
\* does not change a record that was read already
LEMMA OneLoginMovesUp ==
    ASSUME WorldInv, NEW x \in Player, OneLogin(x), q # <<>>, q' = Tail(q),
           online' = online, logins' = logins,
           LoginsOf(x) # {} /\ SavesOf(x) = {} => stored_players'[x] = stored_players[x]
    PROVE  OneLogin(x)'
<1>1. \A i \in SavesOf(x)' : i \in Nat /\ i + 1 \in SavesOf(x)
  BY QueueMovesUp DEF SavesOf
<1>2. \A i \in LoadsOf(x)' : i \in Nat /\ i + 1 \in LoadsOf(x)
  BY QueueMovesUp DEF LoadsOf
<1>3. LoginsOf(x)' = LoginsOf(x)
  BY DEF LoginsOf
<1>4. ASSUME NEW i \in LoadsOf(x)', NEW j \in LoadsOf(x)' PROVE i = j
  <2>1. i + 1 = j + 1 /\ i \in Nat /\ j \in Nat
    BY <1>2 DEF OneLogin
  <2> QED  BY <2>1
<1>5. ASSUME NEW i \in LoadsOf(x)', NEW j \in SavesOf(x)' PROVE j < i
  <2>1. j + 1 < i + 1 /\ i \in Nat /\ j \in Nat
    BY <1>1, <1>2 DEF OneLogin
  <2> QED  BY <2>1
<1>6. LoadsOf(x) = {} => LoadsOf(x)' = {}
  BY <1>2
<1>7. SavesOf(x) = {} => SavesOf(x)' = {}
  BY <1>1
<1> QED  BY <1>3, <1>4, <1>5, <1>6, <1>7 DEF OneLogin

\* The worker reads the record of the one login: everything before it is written.
LEMMA LoadKeeps == UnsavedInv /\ Load => UnsavedInv'
<1> SUFFICES ASSUME UnsavedInv, Load PROVE UnsavedInv'
  OBVIOUS
<1> DEFINE p == Head(q).player
           m == Len(logins)
<1>1. /\ WorldInv /\ stored_players \in [Player -> State] /\ mishaps \in [Player -> Nat]
      /\ logins \in Seq(LoginDone) /\ m \in Nat /\ DOMAIN logins = 1 .. m
  BY DEF UnsavedInv, WorldInv
<1>2. /\ q # <<>> /\ q' = Tail(q) /\ Head(q) = q[1] /\ q[1] \in Task /\ q[1].kind = "load"
      /\ 1 \in DOMAIN q /\ q' \in Seq(Task)
      /\ UNCHANGED <<online, players, scene, stored_players, stored_scene, crashes, failed>>
  BY <1>1, QueueMovesUp DEF Load, stores
<1>3. p \in Player /\ p = q[1].player
  BY <1>2 DEF Task, PlayerTask, LoadTask
<1>4. PICK st \in State :
         /\ logins' = Append(logins, [player |-> p, state |-> st])
         /\ \/ st = stored_players[p] /\ mishaps' = mishaps
            \/ mishaps' = [mishaps EXCEPT ![p] = mishaps[p] + 1]
  <2>1. Newcomer \in State
    BY NewcomerIsState
  <2>2. stored_players[p] \in State
    BY <1>1, <1>3
  <2>3. \/ logins' = Append(logins, [player |-> p, state |-> stored_players[p]]) /\ mishaps' = mishaps
        \/ /\ logins' = Append(logins, [player |-> p, state |-> Newcomer])
           /\ mishaps' = [mishaps EXCEPT ![p] = mishaps[p] + 1]
    BY DEF Load, LoadedPlayer, Mishap
  <2> QED  BY <2>1, <2>2, <2>3
<1> DEFINE a == [player |-> p, state |-> st]
<1>5. a \in LoginDone /\ a.player = p /\ a.state = st
  BY <1>3 DEF LoginDone
<1> HIDE DEF p, a, m
<1>6. /\ logins' \in Seq(LoginDone) /\ DOMAIN logins' = 1 .. m + 1
      /\ \A i \in 1 .. m : logins'[i] = logins[i]
      /\ logins'[m + 1] = a
  BY <1>1, <1>4, <1>5 DEF a, m
<1>7. WorldInv'
  <2>1. mishaps' \in [Player -> Nat]
    BY <1>1, <1>4
  <2> QED  BY <1>1, <1>2, <1>6, <2>1 DEF WorldInv
<1>8. (~failed => SceneOnTheWay)'
  BY <1>1, <1>2, SceneMovesUp DEF UnsavedInv, OnTheWay
<1>9. ASSUME NEW x \in Player, mishaps'[x] = 0 PROVE (PlayerOnTheWay(x) /\ OneLogin(x))'
  <2>1. mishaps[x] = 0 /\ (x = p => st = stored_players[p])
    BY <1>1, <1>4, <1>9
  <2>2. PlayerOnTheWay(x) /\ OneLogin(x)
    BY <2>1 DEF UnsavedInv, OnTheWay, PlayerInOrder
  <2>3. PlayerOnTheWay(x)'
    BY <1>1, <1>2, <2>2, PlayerMovesUp
  <2>4. \A i \in SavesOf(x)' : i \in Nat /\ i + 1 \in SavesOf(x)
    BY <1>1, <1>2, QueueMovesUp DEF SavesOf
  <2>5. \A i \in LoadsOf(x)' : i \in Nat /\ i >= 1 /\ i + 1 \in LoadsOf(x)
    <3>1. \A i \in DOMAIN q' : i >= 1
      BY <1>2
    <3> QED  BY <1>1, <1>2, <3>1, QueueMovesUp DEF LoadsOf
  <2>6. CASE x = p
    <3>1. 1 \in LoadsOf(x)
      BY <1>2, <1>3, <2>6 DEF LoadsOf
    <3>2. SavesOf(x)' = {}
      <4>1. SavesOf(x) = {}
        <5>1. \A j \in SavesOf(x) : j < 1 /\ j \in DOMAIN q
          BY <2>2, <3>1 DEF OneLogin, SavesOf
        <5>2. \A j \in DOMAIN q : j >= 1 /\ j \in Nat
          BY <1>1, <1>2, QueueMovesUp
        <5> QED  BY <5>1, <5>2
      <4> QED  BY <2>4, <4>1
    <3>3. LoadsOf(x)' = {}
      <4>1. \A i \in LoadsOf(x)' : i + 1 = 1 /\ i \in Nat /\ i >= 1
        BY <2>2, <2>5, <3>1 DEF OneLogin
      <4> QED  BY <4>1
    <3>4. LoginsOf(x) = {} /\ x \notin online
      BY <2>2, <3>1 DEF OneLogin
    <3>5. \A i \in LoginsOf(x)' : i = m + 1
      <4> TAKE i \in LoginsOf(x)'
      <4>1. i \in 1 .. m + 1 /\ logins'[i].player = x
        BY <1>6 DEF LoginsOf
      <4>2. i \notin 1 .. m
        BY <1>1, <1>6, <3>4, <4>1 DEF LoginsOf
      <4> QED  BY <1>1, <4>1, <4>2 DEF m
    <3> QED  BY <1>2, <1>5, <1>6, <2>1, <2>3, <2>6, <3>2, <3>3, <3>4, <3>5 DEF OneLogin
  <2>7. CASE x # p
    <3>1. LoginsOf(x)' = LoginsOf(x) /\ \A i \in LoginsOf(x) : logins'[i] = logins[i]
      <4>1. \A i \in 1 .. m + 1 : i \in 1 .. m \/ i = m + 1
        BY <1>1 DEF m
      <4>2. \A i \in 1 .. m : i \in 1 .. m + 1
        BY <1>1 DEF m
      <4> QED  BY <1>1, <1>5, <1>6, <2>7, <4>1, <4>2 DEF LoginsOf
    <3>2. ASSUME NEW i \in LoadsOf(x)', NEW j \in LoadsOf(x)' PROVE i = j
      <4>1. i + 1 = j + 1 /\ i \in Nat /\ j \in Nat
        BY <2>2, <2>5 DEF OneLogin
      <4> QED  BY <4>1
    <3>3. ASSUME NEW i \in LoadsOf(x)', NEW j \in SavesOf(x)' PROVE j < i
      <4>1. j + 1 < i + 1 /\ i \in Nat /\ j \in Nat
        BY <2>2, <2>4, <2>5 DEF OneLogin
      <4> QED  BY <4>1
    <3>4. /\ LoadsOf(x) = {} => LoadsOf(x)' = {}
          /\ SavesOf(x) = {} => SavesOf(x)' = {}
      BY <2>4, <2>5
    <3>5. OneLogin(x)'
      BY <1>2, <2>2, <3>1, <3>2, <3>3, <3>4 DEF OneLogin
    <3> QED  BY <2>3, <3>5
  <2> QED  BY <2>6, <2>7
<1> QED  BY <1>7, <1>8, <1>9 DEF UnsavedInv, OnTheWay, PlayerInOrder

\* A save of a player is written, or the write fails.
LEMMA WritePlayerKeeps == UnsavedInv /\ WritePlayer => UnsavedInv'
<1> SUFFICES ASSUME UnsavedInv, WritePlayer PROVE UnsavedInv'
  OBVIOUS
<1>1. WorldInv /\ stored_players \in [Player -> State] /\ mishaps \in [Player -> Nat]
  BY DEF UnsavedInv, WorldInv
<1>2. /\ q # <<>> /\ q' = Tail(q) /\ Head(q) = q[1] /\ q[1] \in Task /\ q[1].kind = "player"
      /\ 1 \in DOMAIN q /\ q' \in Seq(Task)
      /\ UNCHANGED <<online, players, scene, stored_scene, logins, crashes, failed>>
      /\ \/ /\ stored_players' = [stored_players EXCEPT ![q[1].player] = q[1].state]
            /\ mishaps' = mishaps
         \/ /\ stored_players' = stored_players
            /\ mishaps' = [mishaps EXCEPT ![q[1].player] = mishaps[q[1].player] + 1]
  BY <1>1, QueueMovesUp DEF WritePlayer, Mishap
<1>3. q[1].player \in Player /\ q[1].state \in State
  BY <1>2 DEF Task, PlayerTask, LoadTask
<1>4. WorldInv'
  <2>1. stored_players' \in [Player -> State] /\ mishaps' \in [Player -> Nat]
    BY <1>1, <1>2, <1>3
  <2> QED  BY <1>1, <1>2, <2>1 DEF WorldInv
<1>5. (~failed => SceneOnTheWay)'
  BY <1>1, <1>2, SceneMovesUp DEF UnsavedInv, OnTheWay
<1>6. ASSUME NEW x \in Player, mishaps'[x] = 0 PROVE (PlayerOnTheWay(x) /\ OneLogin(x))'
  <2>1. mishaps[x] = 0 /\ (x = q[1].player => mishaps' = mishaps)
    BY <1>1, <1>2, <1>3, <1>6
  <2>2. PlayerOnTheWay(x) /\ OneLogin(x)
    BY <2>1 DEF UnsavedInv, OnTheWay, PlayerInOrder
  <2>3. stored_players'[x] = IF x = q[1].player THEN q[1].state ELSE stored_players[x]
    <3>1. CASE x = q[1].player
      <4>1. mishaps # [mishaps EXCEPT ![q[1].player] = mishaps[q[1].player] + 1]
        BY <1>1, <1>3
      <4> QED  BY <1>1, <1>2, <1>3, <2>1, <3>1, <4>1
    <3>2. CASE x # q[1].player
      BY <1>1, <1>2, <1>3, <3>2
    <3> QED  BY <3>1, <3>2
  <2>4. PlayerOnTheWay(x)'
    BY <1>1, <1>2, <2>2, <2>3, PlayerMovesUp
  <2>5. x = q[1].player => 1 \in SavesOf(x)
    BY <1>2 DEF SavesOf
  <2>6. OneLogin(x)'
    BY <1>1, <1>2, <2>2, <2>3, <2>5, OneLoginMovesUp
  <2> QED  BY <2>4, <2>6
<1> QED  BY <1>4, <1>5, <1>6 DEF UnsavedInv, OnTheWay, PlayerInOrder

\* A save of the scene is written, or the write fails.
LEMMA WriteSceneKeeps == UnsavedInv /\ WriteScene => UnsavedInv'
<1> SUFFICES ASSUME UnsavedInv, WriteScene PROVE UnsavedInv'
  OBVIOUS
<1>1. WorldInv
  BY DEF UnsavedInv
<1>2. /\ q # <<>> /\ q' = Tail(q) /\ Head(q) = q[1] /\ q[1] \in Task /\ q[1].kind = "scene"
      /\ UNCHANGED <<online, players, scene, stored_players, logins, crashes, mishaps>>
      /\ q' \in Seq(Task)
  BY <1>1, QueueMovesUp DEF WriteScene
<1>3. q[1].scene \in GoodScene
  BY <1>2 DEF Task, PlayerTask, LoadTask
<1>4. \/ stored_scene' = q[1].scene /\ failed' = failed
      \/ stored_scene' = stored_scene /\ failed'
  BY <1>2 DEF WriteScene, SceneFails
<1>5. WorldInv'
  BY <1>1, <1>2, <1>3, <1>4 DEF WorldInv
<1>6. (~failed => SceneOnTheWay)'
  <2> SUFFICES ASSUME ~failed' PROVE SceneOnTheWay'
    OBVIOUS
  <2>1. stored_scene' = q[1].scene /\ SceneOnTheWay
    BY <1>4 DEF UnsavedInv, OnTheWay
  <2> QED  BY <1>1, <1>2, <2>1, SceneMovesUp
<1>7. ASSUME NEW x \in Player, mishaps[x] = 0 PROVE (PlayerOnTheWay(x) /\ OneLogin(x))'
  <2>1. PlayerOnTheWay(x) /\ OneLogin(x)
    BY <1>7 DEF UnsavedInv, OnTheWay, PlayerInOrder
  <2>2. PlayerOnTheWay(x)'
    BY <1>1, <1>2, <2>1, PlayerMovesUp
  <2>3. OneLogin(x)'
    BY <1>1, <1>2, <2>1, OneLoginMovesUp
  <2> QED  BY <2>2, <2>3
<1> QED  BY <1>2, <1>5, <1>6, <1>7 DEF UnsavedInv, OnTheWay, PlayerInOrder

\* The process is killed: what was stored is what there is.
LEMMA RestartKeeps == UnsavedInv /\ Restart => UnsavedInv'
<1> SUFFICES ASSUME UnsavedInv, Restart PROVE UnsavedInv'
  OBVIOUS
<1>1. WorldInv
  BY DEF UnsavedInv
<1>2. /\ q' = <<>> /\ logins' = <<>> /\ online' = {} /\ crashes' = crashes + 1
      /\ stored_players' = stored_players /\ mishaps' = mishaps
      /\ players' = [p \in Player |-> stored_players[p]]
  BY DEF Restart, LoadedPlayer
<1>3. \/ scene' = stored_scene /\ stored_scene' = stored_scene
      \/ /\ failed' /\ scene' = SeedDefaultScene
         /\ stored_scene' \in {SeedDefaultScene, stored_scene}
  BY DEF Restart, LoadedScene, SceneFails
<1>4. WorldInv'
  <2>1. /\ q' \in Seq(Task) /\ logins' \in Seq(LoginDone) /\ crashes' \in Nat
        /\ online' \subseteq Player /\ mishaps' \in [Player -> Nat]
    BY <1>1, <1>2 DEF WorldInv
  <2>2. players' \in [Player -> State] /\ stored_players' \in [Player -> State]
    BY <1>1, <1>2 DEF WorldInv
  <2>3. scene' \in GoodScene /\ stored_scene' \in GoodScene
    BY <1>1, <1>3, DefaultIsGood DEF WorldInv
  <2> QED  BY <2>1, <2>2, <2>3 DEF WorldInv
<1>5. /\ SceneSaves' = {}
      /\ \A x \in Player : SavesOf(x)' = {} /\ LoadsOf(x)' = {} /\ LoginsOf(x)' = {}
  BY <1>2 DEF SceneSaves, SavesOf, LoadsOf, LoginsOf
<1>6. (~failed => SceneOnTheWay)'
  BY <1>3, <1>5 DEF SceneOnTheWay
<1>7. \A x \in Player : (PlayerOnTheWay(x) /\ OneLogin(x))'
  BY <1>2, <1>5 DEF PlayerOnTheWay, OneLogin
<1> QED  BY <1>4, <1>6, <1>7 DEF UnsavedInv, OnTheWay, PlayerInOrder

\* Every step keeps the invariant.
LEMMA UnsavedStep == UnsavedInv /\ [Next]_vars => UnsavedInv'
<1> SUFFICES ASSUME UnsavedInv, [Next]_vars PROVE UnsavedInv'
  OBVIOUS
<1>1. CASE UNCHANGED vars
  <2>1. WorldInv'
    BY <1>1 DEF UnsavedInv, WorldInv, vars
  <2>2. OnTheWay'
    BY <1>1 DEF UnsavedInv, OnTheWay, SceneOnTheWay, PlayerInOrder, PlayerOnTheWay, OneLogin,
                SceneSaves, SavesOf, LoadsOf, LoginsOf, vars
  <2> QED  BY <2>1, <2>2 DEF UnsavedInv
<1>2. CASE Next
  BY <1>2, RequestKeeps, LoginKeeps, LoadKeeps, EnterKeeps, ForgetLoginKeeps, LeaveKeeps,
     WritePlayerKeeps, WriteSceneKeeps, RestartKeeps, Zenon DEF Next, AnyRequest
<1> QED  BY <1>1, <1>2

\* The invariant holds.
LEMMA UnsavedAlways == Spec => []UnsavedInv
<1>1. Init => UnsavedInv
  BY UnsavedInit
<1>2. UnsavedInv /\ [Next]_vars => UnsavedInv'
  BY UnsavedStep
<1> QED  BY <1>1, <1>2, PTL DEF Spec
-----------------------------------------------------------------------------
(* The way from what is stored to what there is *)

\* What a save makes of the stores
Written(ps, sc, save, ps2, sc2) ==
    \/ /\ save.kind = "player"
       /\ ps2 = [ps EXCEPT ![save.player] = save.state] /\ sc2 = sc
    \/ /\ save.kind = "scene"
       /\ ps2 = ps /\ sc2 = save.scene
    \/ /\ save.kind = "load"
       /\ ps2 = ps /\ sc2 = sc

Within(ps, sc, b) == \A m \in Material : Balance(ps, sc, m) \in -b .. b

\* The stores before the first save is written (0) and after each of them
Way(saves, P, S, b) ==
    /\ P \in [0 .. Len(saves) -> [Player -> State]]
    /\ S \in [0 .. Len(saves) -> GoodScene]
    /\ \A k \in 1 .. Len(saves) : Written(P[k - 1], S[k - 1], saves[k], P[k], S[k])
    /\ \A k \in 0 .. Len(saves) : Within(P[k], S[k], b)

Leads(ps, sc, saves, ps2, sc2, b) ==
    \E P, S : /\ Way(saves, P, S, b)
              /\ P[0] = ps /\ S[0] = sc
              /\ P[Len(saves)] = ps2 /\ S[Len(saves)] = sc2

\* Without saves it ends where it begins.
LEMMA LeadsNowhere ==
    ASSUME NEW ps \in [Player -> State], NEW sc \in GoodScene, NEW b, Within(ps, sc, b)
    PROVE  Leads(ps, sc, <<>>, ps, sc, b)
<1> DEFINE P == [k \in 0 .. 0 |-> ps]
           S == [k \in 0 .. 0 |-> sc]
<1>1. Len(<<>>) = 0 /\ 0 \in 0 .. 0
  OBVIOUS
<1>2. P \in [0 .. 0 -> [Player -> State]] /\ S \in [0 .. 0 -> GoodScene]
  OBVIOUS
<1>3. P[0] = ps /\ S[0] = sc /\ \A k \in 0 .. 0 : P[k] = ps /\ S[k] = sc
  OBVIOUS
<1> HIDE DEF P, S
<1>4. Way(<<>>, P, S, b)
  BY <1>1, <1>2, <1>3 DEF Way
<1> QED  BY <1>1, <1>3, <1>4 DEF Leads

\* What it leads over is within the bound.
LEMMA LeadsWithin ==
    ASSUME NEW ps, NEW sc, NEW saves \in Seq(Task), NEW ps2, NEW sc2, NEW b,
           Leads(ps, sc, saves, ps2, sc2, b)
    PROVE  /\ ps \in [Player -> State] /\ sc \in GoodScene /\ Within(ps, sc, b)
           /\ ps2 \in [Player -> State] /\ sc2 \in GoodScene /\ Within(ps2, sc2, b)
<1>1. PICK P, S : /\ Way(saves, P, S, b) /\ P[0] = ps /\ S[0] = sc
                  /\ P[Len(saves)] = ps2 /\ S[Len(saves)] = sc2
  BY DEF Leads
<1>2. Len(saves) \in Nat /\ 0 \in 0 .. Len(saves) /\ Len(saves) \in 0 .. Len(saves)
  <2>1. Len(saves) \in Nat
    OBVIOUS
  <2> QED  BY <2>1
<1> QED  BY <1>1, <1>2 DEF Way

\* One more save, and what it makes of the stores
LEMMA LeadsOn ==
    ASSUME NEW ps, NEW sc, NEW saves \in Seq(Task), NEW ps2, NEW sc2, NEW b,
           Leads(ps, sc, saves, ps2, sc2, b),
           NEW save \in Task, NEW ps3 \in [Player -> State], NEW sc3 \in GoodScene,
           Written(ps2, sc2, save, ps3, sc3), Within(ps3, sc3, b)
    PROVE  Leads(ps, sc, Append(saves, save), ps3, sc3, b)
<1> DEFINE n == Len(saves)
           more == Append(saves, save)
<1>1. PICK P, S : Way(saves, P, S, b) /\ P[0] = ps /\ S[0] = sc /\ P[n] = ps2 /\ S[n] = sc2
  BY DEF Leads
<1>2. n \in Nat /\ Len(more) = n + 1 /\ more[n + 1] = save /\ \A k \in 1 .. n : more[k] = saves[k]
  OBVIOUS
<1> HIDE DEF n, more
<1> DEFINE R == [k \in 0 .. n + 1 |-> IF k = n + 1 THEN ps3 ELSE P[k]]
           T == [k \in 0 .. n + 1 |-> IF k = n + 1 THEN sc3 ELSE S[k]]
<1>3. \A k \in 0 .. n + 1 : k = n + 1 \/ k \in 0 .. n
  BY <1>2
<1>4. /\ P \in [0 .. n -> [Player -> State]] /\ S \in [0 .. n -> GoodScene]
      /\ \A k \in 1 .. n : Written(P[k - 1], S[k - 1], saves[k], P[k], S[k])
      /\ \A k \in 0 .. n : Within(P[k], S[k], b)
  BY <1>1 DEF Way, n
<1>5. R \in [0 .. n + 1 -> [Player -> State]] /\ T \in [0 .. n + 1 -> GoodScene]
  BY <1>3, <1>4
<1>6. R[n + 1] = ps3 /\ T[n + 1] = sc3 /\ \A k \in 0 .. n : R[k] = P[k] /\ T[k] = S[k]
  BY <1>2
<1> HIDE DEF R, T
<1>7. ASSUME NEW k \in 1 .. n + 1
      PROVE  Written(R[k - 1], T[k - 1], more[k], R[k], T[k])
  <2>1. CASE k = n + 1
    <3>1. k - 1 = n /\ n \in 0 .. n
      BY <1>2, <2>1
    <3> QED  BY <1>1, <1>2, <1>6, <2>1, <3>1
  <2>2. CASE k # n + 1
    <3>1. k \in 1 .. n /\ k \in 0 .. n /\ k - 1 \in 0 .. n
      BY <1>2, <2>2
    <3> QED  BY <1>2, <1>4, <1>6, <3>1
  <2> QED  BY <2>1, <2>2
<1>8. \A k \in 0 .. n + 1 : Within(R[k], T[k], b)
  BY <1>3, <1>4, <1>6
<1>9. R[0] = ps /\ T[0] = sc
  BY <1>1, <1>2, <1>6
<1>10. Way(more, R, T, b)
  BY <1>2, <1>5, <1>7, <1>8 DEF Way
<1> QED  BY <1>2, <1>6, <1>9, <1>10 DEF Leads, more

\* The first save is written, and the rest of the way remains.
LEMMA LeadsFromNext ==
    ASSUME NEW ps, NEW sc, NEW saves \in Seq(Task), saves # <<>>, NEW ps2, NEW sc2, NEW b,
           Leads(ps, sc, saves, ps2, sc2, b), NEW ps1, NEW sc1,
           Written(ps, sc, saves[1], ps1, sc1)
    PROVE  Leads(ps1, sc1, Tail(saves), ps2, sc2, b)
<1> DEFINE n == Len(saves)
           rest == Tail(saves)
<1>1. PICK P, S : Way(saves, P, S, b) /\ P[0] = ps /\ S[0] = sc /\ P[n] = ps2 /\ S[n] = sc2
  BY DEF Leads
<1>2. n \in Nat /\ n > 0 /\ Len(rest) = n - 1 /\ \A k \in 1 .. n - 1 : rest[k] = saves[k + 1]
  <2>1. Len(rest) = Len(saves) - 1 /\ \A k \in 1 .. Len(rest) : rest[k] = saves[k + 1]
    BY HeadTailProperties
  <2>2. n \in Nat /\ n > 0
    BY EmptySeq
  <2> QED  BY <2>1, <2>2
<1> HIDE DEF n, rest
<1> DEFINE R == [k \in 0 .. n - 1 |-> P[k + 1]]
           T == [k \in 0 .. n - 1 |-> S[k + 1]]
<1>3. /\ P \in [0 .. n -> [Player -> State]] /\ S \in [0 .. n -> GoodScene]
      /\ \A k \in 1 .. n : Written(P[k - 1], S[k - 1], saves[k], P[k], S[k])
      /\ \A k \in 0 .. n : Within(P[k], S[k], b)
  BY <1>1 DEF Way, n
<1>4. \A k \in 0 .. n - 1 : k + 1 \in 0 .. n /\ R[k] = P[k + 1] /\ T[k] = S[k + 1]
  BY <1>2
<1>5. R \in [0 .. n - 1 -> [Player -> State]] /\ T \in [0 .. n - 1 -> GoodScene]
  BY <1>3, <1>4
<1> HIDE DEF R, T
<1>6. ASSUME NEW k \in 1 .. n - 1
      PROVE  Written(R[k - 1], T[k - 1], rest[k], R[k], T[k])
  <2>1. /\ k + 1 \in 1 .. n /\ (k + 1) - 1 = k /\ k \in 0 .. n - 1
        /\ k - 1 \in 0 .. n - 1 /\ (k - 1) + 1 = k
    BY <1>2
  <2>2. Written(P[k], S[k], saves[k + 1], P[k + 1], S[k + 1])
    BY <1>3, <2>1
  <2>3. R[k] = P[k + 1] /\ T[k] = S[k + 1] /\ R[k - 1] = P[k] /\ T[k - 1] = S[k]
    BY <1>4, <2>1
  <2> QED  BY <1>2, <2>2, <2>3
<1>7. \A k \in 0 .. n - 1 : Within(R[k], T[k], b)
  BY <1>3, <1>4
<1>8. R[0] = ps1 /\ T[0] = sc1
  <2>1. 1 \in 1 .. n /\ 0 \in 0 .. n - 1
    BY <1>2
  <2>2. Written(P[0], S[0], saves[1], P[1], S[1])
    BY <1>3, <2>1
  <2>3. P[1] = ps1 /\ S[1] = sc1
    BY <1>1, <2>2 DEF Written
  <2> QED  BY <1>4, <2>1, <2>3
<1>9. R[n - 1] = ps2 /\ T[n - 1] = sc2
  <2>1. n - 1 \in 0 .. n - 1 /\ (n - 1) + 1 = n
    BY <1>2
  <2> QED  BY <1>1, <1>4, <2>1
<1>10. Way(rest, R, T, b)
  BY <1>2, <1>5, <1>6, <1>7 DEF Way
<1> QED  BY <1>2, <1>8, <1>9, <1>10 DEF Leads, rest

\* The database did not fail and nobody logged in twice at a time.
Clean ==
    /\ ~failed
    /\ \A p \in Player : mishaps[p] = 0

\* On the way from the stores to the world no unit is lost or doubled but the
\* three at most that one request moves, between its two saves; every restart so
\* far may have stopped there.
BalanceInv ==
    Clean => /\ Leads(stored_players, stored_scene, q, players, scene, 3 * crashes + 3)
             /\ Within(players, scene, 3 * crashes)

\* What is within a bound is within a greater one.
LEMMA WithinMore ==
    ASSUME NEW ps, NEW sc, NEW b \in Int, NEW c \in Int, b <= c, Within(ps, sc, b)
    PROVE  Within(ps, sc, c)
BY DEF Within

\* At the start the balance is even.
LEMMA BalanceInit == Init => BalanceInv
<1> SUFFICES ASSUME Init PROVE BalanceInv
  OBVIOUS
<1>1. /\ players = [p \in Player |-> Newcomer] /\ stored_players = players
      /\ scene = SeedDefaultScene /\ stored_scene = scene /\ q = <<>> /\ crashes = 0
  BY DEF Init
<1>2. players \in [Player -> State] /\ scene \in GoodScene
  BY UnsavedInit DEF UnsavedInv, WorldInv
<1>3. \A m \in Material : Balance(players, scene, m) = 0
  BY <1>1, BalanceAtStart
<1>4. Within(players, scene, 0) /\ Within(players, scene, 3)
  BY <1>3 DEF Within
<1>5. Leads(players, scene, <<>>, players, scene, 3)
  BY <1>2, <1>4, LeadsNowhere
<1>6. 3 * crashes = 0 /\ 3 * crashes + 3 = 3
  BY <1>1
<1> QED  BY <1>1, <1>4, <1>5, <1>6 DEF BalanceInv

\* A fair request posted: between its saves the balance is off by what it moves,
\* after them it is what it was.
LEMMA PostsBalances ==
    ASSUME UnsavedInv, BalanceInv, NEW p \in Player, NEW state \in State,
           NEW sc \in GoodScene, Posts(p, state, sc), Fair(p, state, sc)
    PROVE  BalanceInv'
<1> DEFINE ps == [players EXCEPT ![p] = state]
           a  == SavePlayer(p, state)
           b  == SaveScene(sc)
           n  == 3 * crashes
<1>1. /\ players' = ps /\ scene' = sc
      /\ UNCHANGED <<stored_players, stored_scene, crashes, failed, mishaps>>
  BY DEF Posts, Apply, stores
<1> SUFFICES ASSUME Clean
             PROVE  /\ Leads(stored_players, stored_scene, q', ps, sc, n + 3)
                    /\ Within(ps, sc, n)
  BY <1>1 DEF BalanceInv, Clean
<1>2. /\ players \in [Player -> State] /\ scene \in GoodScene /\ scene \in Scene
      /\ sc \in Scene /\ q \in Seq(Task) /\ crashes \in Nat /\ ps \in [Player -> State]
  BY DEF UnsavedInv, WorldInv, GoodScene
<1>3. n \in Nat
  BY <1>2
<1>4. a \in Task /\ b \in Task
  BY Saves
<1>5. Leads(stored_players, stored_scene, q, players, scene, n + 3) /\ Within(players, scene, n)
  BY DEF BalanceInv
<1>6. /\ Written(players, scene, a, ps, scene) /\ Written(players, sc, a, ps, sc)
      /\ Written(players, scene, b, players, sc) /\ Written(ps, scene, b, ps, sc)
  BY DEF Written, SavePlayer, SaveScene
<1> HIDE DEF n
<1>7. ASSUME NEW m \in Material
      PROVE  /\ Balance(ps, sc, m) \in -n .. n
             /\ Balance(ps, scene, m) \in -(n + 3) .. n + 3
             /\ Balance(players, sc, m) \in -(n + 3) .. n + 3
  <2>1. PICK gain \in -3 .. 3 : /\ Worth(state, m) = Worth(players[p], m) + gain
                                /\ Held(sc, m) = Held(scene, m) - gain
    BY DEF Fair
  <2>2. /\ Owned(players, m) \in Int
        /\ Owned(ps, m) = Owned(players, m) + (Worth(state, m) - Worth(players[p], m))
    BY <1>2, OwnedChanges
  <2>3. players[p] \in State
    BY <1>2
  <2>4. Worth(players[p], m) \in Int
    BY <2>3, WorthIs
  <2> HIDE DEF ps
  <2>5. Owned(ps, m) - Owned(players, m) = gain
    BY <2>1, <2>2, <2>4
  <2>6. Held(scene, m) \in Int
    BY <1>2, HeldIs
  <2>7. Held(sc, m) - Held(scene, m) = -gain
    BY <2>1, <2>6
  <2>8. /\ Balance(players, scene, m) \in Int
        /\ Balance(ps, sc, m) = Balance(players, scene, m)
              + (Owned(ps, m) - Owned(players, m)) + (Held(sc, m) - Held(scene, m))
    BY <1>2, BalanceMoves
  <2>9. Balance(ps, scene, m) = Balance(players, scene, m)
              + (Owned(ps, m) - Owned(players, m)) + (Held(scene, m) - Held(scene, m))
    BY <1>2, BalanceMoves
  <2>10. Balance(players, sc, m) = Balance(players, scene, m)
              + (Owned(players, m) - Owned(players, m)) + (Held(sc, m) - Held(scene, m))
    BY <1>2, BalanceMoves
  <2>11. Balance(players, scene, m) \in -n .. n
    BY <1>5 DEF Within
  <2> DEFINE x == Balance(players, scene, m)
  <2>12. /\ Balance(ps, sc, m) = x + gain + (-gain)
         /\ Balance(ps, scene, m) = x + gain + 0
         /\ Balance(players, sc, m) = x + 0 + (-gain)
    BY <2>2, <2>5, <2>6, <2>7, <2>8, <2>9, <2>10
  <2> HIDE DEF x
  <2>13. /\ x + gain + (-gain) \in -n .. n
         /\ x + gain + 0 \in -(n + 3) .. n + 3
         /\ x + 0 + (-gain) \in -(n + 3) .. n + 3
    BY <1>3, <2>11 DEF x
  <2> QED  BY <2>12, <2>13
<1>8. /\ Within(ps, sc, n) /\ Within(ps, scene, n + 3) /\ Within(players, sc, n + 3)
  BY <1>7 DEF Within
<1>9. Within(ps, sc, n + 3)
  BY <1>3, <1>8, WithinMore
<1> HIDE DEF ps, a, b
<1>10. CASE q' = q \o <<a, b>>
  <2>1. Leads(stored_players, stored_scene, Append(q, a), ps, scene, n + 3)
    BY <1>2, <1>4, <1>5, <1>6, <1>8, LeadsOn
  <2>2. Append(q, a) \in Seq(Task)
    BY <1>2, <1>4
  <2>3. Leads(stored_players, stored_scene, Append(Append(q, a), b), ps, sc, n + 3)
    BY <1>2, <1>4, <1>6, <1>9, <2>1, <2>2, LeadsOn
  <2>4. q \o <<a, b>> = Append(Append(q, a), b)
    BY <1>2, <1>4
  <2> QED  BY <1>8, <1>10, <2>3, <2>4
<1>11. CASE q' = q \o <<b, a>>
  <2>1. Leads(stored_players, stored_scene, Append(q, b), players, sc, n + 3)
    BY <1>2, <1>4, <1>5, <1>6, <1>8, LeadsOn
  <2>2. Append(q, b) \in Seq(Task)
    BY <1>2, <1>4
  <2>3. Leads(stored_players, stored_scene, Append(Append(q, b), a), ps, sc, n + 3)
    BY <1>2, <1>4, <1>6, <1>9, <2>1, <2>2, LeadsOn
  <2>4. q \o <<b, a>> = Append(Append(q, b), a)
    BY <1>2, <1>4
  <2> QED  BY <1>8, <1>11, <2>3, <2>4
<1>12. CASE sc = scene /\ q' = q \o <<a>>
  <2>1. Leads(stored_players, stored_scene, Append(q, a), ps, scene, n + 3)
    BY <1>2, <1>4, <1>5, <1>6, <1>8, LeadsOn
  <2>2. q \o <<a>> = Append(q, a)
    BY <1>2, <1>4
  <2> QED  BY <1>8, <1>12, <2>1, <2>2
<1> QED  BY <1>10, <1>11, <1>12 DEF Posts, Apply, a, b

\* A task that makes nothing else of the world as it is
LEMMA NoWriteBalances ==
    ASSUME UnsavedInv, BalanceInv, Clean, NEW a \in Task, Written(players, scene, a, players, scene),
           q' = Append(q, a),
           UNCHANGED <<players, scene, stored_players, stored_scene, crashes>>
    PROVE  BalanceInv'
<1> DEFINE n == 3 * crashes
<1>1. /\ players \in [Player -> State] /\ scene \in GoodScene /\ q \in Seq(Task) /\ crashes \in Nat
  BY DEF UnsavedInv, WorldInv
<1>2. Leads(stored_players, stored_scene, q, players, scene, n + 3) /\ Within(players, scene, n)
  BY DEF BalanceInv
<1>3. n \in Nat
  BY <1>1
<1> HIDE DEF n
<1>4. Within(players, scene, n + 3)
  BY <1>2, <1>3, WithinMore
<1>5. Leads(stored_players, stored_scene, Append(q, a), players, scene, n + 3)
  BY <1>1, <1>2, <1>4, LeadsOn
<1> QED  BY <1>2, <1>5 DEF BalanceInv, n

\* A player is saved as they are.
LEMMA SavedBalances ==
    ASSUME UnsavedInv, BalanceInv, Clean, NEW p \in Player,
           q' = Append(q, SavePlayer(p, players[p])),
           UNCHANGED <<players, scene, stored_players, stored_scene, crashes>>
    PROVE  BalanceInv'
<1> DEFINE a == SavePlayer(p, players[p])
<1>1. players \in [Player -> State] /\ scene \in GoodScene
  BY DEF UnsavedInv, WorldInv
<1>2. a \in Task
  BY <1>1, Saves
<1>3. Written(players, scene, a, players, scene)
  BY <1>1 DEF Written, SavePlayer
<1>4. q' = Append(q, a)
  OBVIOUS
<1> HIDE DEF a
<1> QED  BY <1>2, <1>3, <1>4, NoWriteBalances

\* Who enters gets what they left with, and who goes for it is saved: either
\* changes nothing.
LEMMA EnterBalances ==
    ASSUME UnsavedInv, BalanceInv, EnterWithState
    PROVE  BalanceInv'
<1> SUFFICES ASSUME Clean' PROVE BalanceInv'
  BY DEF BalanceInv
<1> DEFINE p == Head(logins).player
<1>1. /\ logins # <<>> /\ players' = [players EXCEPT ![p] = Head(logins).state]
      /\ UNCHANGED <<scene, stored_players, stored_scene, crashes, failed, mishaps>>
      /\ \/ q' = q
         \/ \E old \in online : q' = Append(q, SavePlayer(old, players[old]))
  BY DEF EnterWithState, stores, histories
<1>2. Clean
  BY <1>1 DEF Clean
<1>3. /\ logins \in Seq(LoginDone) /\ online \subseteq Player /\ players \in [Player -> State]
  BY DEF UnsavedInv, WorldInv
<1>4. p \in Player
  <2>1. Head(logins) \in LoginDone
    BY <1>1, <1>3
  <2> QED  BY <2>1 DEF LoginDone
<1>5. Head(logins).state = players[p]
  BY <1>1, <1>2, <1>4, EntersAsLeft DEF Clean
<1>6. players' = players
  BY <1>1, <1>3, <1>5
<1>7. CASE q' = q
  BY <1>1, <1>2, <1>6, <1>7 DEF BalanceInv
<1>8. ASSUME NEW old \in online, q' = Append(q, SavePlayer(old, players[old]))
      PROVE  BalanceInv'
  BY <1>1, <1>2, <1>3, <1>6, <1>8, SavedBalances
<1> QED  BY <1>1, <1>7, <1>8

\* A login asks for the record: a load is no write.
LEMMA LoginBalances ==
    ASSUME UnsavedInv, BalanceInv, NEW p \in Player, Login(p)
    PROVE  BalanceInv'
<1> SUFFICES ASSUME Clean' PROVE BalanceInv'
  BY DEF BalanceInv
<1> DEFINE a == [kind |-> "load", player |-> p]
<1>1. /\ q' = Append(q, a)
      /\ UNCHANGED <<players, scene, stored_players, stored_scene, crashes, failed>>
      /\ mishaps' = mishaps \/ mishaps' = [mishaps EXCEPT ![p] = mishaps[p] + 1]
  BY DEF Login, Mishap, stores
<1>2. /\ players \in [Player -> State] /\ scene \in GoodScene /\ q \in Seq(Task) /\ crashes \in Nat
      /\ mishaps \in [Player -> Nat]
  BY DEF UnsavedInv, WorldInv
<1>3. Clean
  BY <1>1, <1>2 DEF Clean
<1>4. a \in Task /\ Written(players, scene, a, players, scene)
  BY DEF Task, LoadTask, Written
<1> HIDE DEF a
<1>5. BalanceInv'
  BY <1>1, <1>2, <1>3, <1>4, NoWriteBalances
<1> QED  BY <1>5

\* Who leaves is saved, which changes nothing.
LEMMA LeaveBalances ==
    ASSUME UnsavedInv, BalanceInv, NEW p \in Player, Leave(p)
    PROVE  BalanceInv'
<1> SUFFICES ASSUME Clean' PROVE BalanceInv'
  BY DEF BalanceInv
<1>1. /\ q' = Append(q, SavePlayer(p, players[p]))
      /\ UNCHANGED <<players, scene, stored_players, stored_scene, crashes, failed, mishaps>>
  BY DEF Leave, stores, histories
<1>2. Clean
  BY <1>1 DEF Clean
<1> QED  BY <1>1, <1>2, SavedBalances

\* The worker takes the next step of the way.
LEMMA WorkerBalances ==
    ASSUME UnsavedInv, BalanceInv, Load \/ WritePlayer \/ WriteScene
    PROVE  BalanceInv'
<1> SUFFICES ASSUME Clean' PROVE BalanceInv'
  BY DEF BalanceInv
<1>0. WorldInv /\ mishaps \in [Player -> Nat]
  BY DEF UnsavedInv, WorldInv
<1>1. q # <<>> /\ q' = Tail(q) /\ UNCHANGED <<players, scene, crashes>>
  BY DEF Load, WritePlayer, WriteScene
<1>2. Head(q) = q[1] /\ q[1] \in Task /\ q \in Seq(Task)
  BY <1>0, <1>1, QueueMovesUp DEF WorldInv
<1>3. ASSUME NEW x \in Player PROVE ~ mishaps' = [mishaps EXCEPT ![x] = mishaps[x] + 1]
  <2>1. mishaps'[x] = 0
    BY DEF Clean
  <2> QED  BY <1>0, <2>1
<1>4. Clean /\ Written(stored_players, stored_scene, q[1], stored_players', stored_scene')
  <2>1. CASE Load
    <3>1. q[1].kind = "load" /\ q[1].player \in Player
      BY <1>2, <2>1 DEF Load, Task, LoadTask, PlayerTask
    <3>2. UNCHANGED <<failed, mishaps, stored_players, stored_scene>>
      BY <1>2, <1>3, <2>1, <3>1 DEF Load, Mishap, stores
    <3> QED  BY <3>1, <3>2 DEF Clean, Written
  <2>2. CASE WritePlayer
    <3>1. q[1].kind = "player" /\ q[1].player \in Player
      BY <1>2, <2>2 DEF WritePlayer, Task, LoadTask, PlayerTask
    <3>2. /\ UNCHANGED <<failed, mishaps, stored_scene>>
          /\ stored_players' = [stored_players EXCEPT ![q[1].player] = q[1].state]
      BY <1>2, <1>3, <2>2, <3>1 DEF WritePlayer, Mishap
    <3> QED  BY <3>1, <3>2 DEF Clean, Written
  <2>3. CASE WriteScene
    <3>1. ~failed'
      BY DEF Clean
    <3>2. /\ q[1].kind = "scene" /\ UNCHANGED <<failed, mishaps, stored_players>>
          /\ stored_scene' = q[1].scene
      BY <1>2, <2>3, <3>1 DEF WriteScene, SceneFails
    <3> QED  BY <3>2 DEF Clean, Written
  <2> QED  BY <2>1, <2>2, <2>3
<1>5. Leads(stored_players, stored_scene, q, players, scene, 3 * crashes + 3)
      /\ Within(players, scene, 3 * crashes)
  BY <1>4 DEF BalanceInv
<1>6. Leads(stored_players', stored_scene', Tail(q), players, scene, 3 * crashes + 3)
  BY <1>1, <1>2, <1>4, <1>5, LeadsFromNext
<1> QED  BY <1>1, <1>5, <1>6 DEF BalanceInv

\* A restart goes back to the stores, which may be where one request stopped.
LEMMA RestartBalances ==
    ASSUME UnsavedInv, BalanceInv, Restart
    PROVE  BalanceInv'
<1> SUFFICES ASSUME Clean' PROVE BalanceInv'
  BY DEF BalanceInv
<1>1. /\ q' = <<>> /\ crashes' = crashes + 1 /\ stored_players' = stored_players
      /\ players' = [p \in Player |-> stored_players[p]]
      /\ scene' = stored_scene /\ stored_scene' = stored_scene /\ Clean
  <2>1. ~failed'
    BY DEF Clean
  <2> QED  BY <2>1 DEF Restart, LoadedPlayer, LoadedScene, SceneFails, Clean
<1>2. /\ stored_players \in [Player -> State] /\ stored_scene \in GoodScene
      /\ q \in Seq(Task) /\ crashes \in Nat
  BY DEF UnsavedInv, WorldInv
<1>3. players' = stored_players
  BY <1>1, <1>2
<1> DEFINE n == 3 * crashes + 3
           k == 3 * (crashes + 1)
<1>4. Within(stored_players, stored_scene, n)
  BY <1>1, <1>2, LeadsWithin DEF BalanceInv
<1>5. k = n /\ n \in Nat
  BY <1>2
<1> HIDE DEF n
<1>6. Within(stored_players, stored_scene, n + 3)
  BY <1>4, <1>5, WithinMore
<1>7. Leads(stored_players, stored_scene, <<>>, stored_players, stored_scene, n + 3)
  BY <1>2, <1>6, LeadsNowhere
<1>8. 3 * crashes' = n
  BY <1>1, <1>5
<1> HIDE DEF k
<1> QED  BY <1>1, <1>3, <1>4, <1>7, <1>8 DEF BalanceInv

\* Every step keeps the balance.
LEMMA BalanceStep == UnsavedInv /\ BalanceInv /\ [Next]_vars => BalanceInv'
<1> SUFFICES ASSUME UnsavedInv, BalanceInv, [Next]_vars PROVE BalanceInv'
  OBVIOUS
<1>1. CASE UNCHANGED vars
  BY <1>1 DEF BalanceInv, Clean, vars, stores
<1>2. CASE AnyRequest
  BY <1>2, RequestIs, PostsBalances, Zenon DEF Requested
<1>3. CASE \E p \in Player : Login(p)
  BY <1>3, LoginBalances
<1>4. CASE Load \/ WritePlayer \/ WriteScene
  BY <1>4, WorkerBalances
<1>5. CASE EnterWithState
  BY <1>5, EnterBalances
<1>6. CASE ForgetLogin
  BY <1>6 DEF ForgetLogin, stores, histories, BalanceInv, Clean
<1>7. CASE \E p \in Player : Leave(p)
  BY <1>7, LeaveBalances
<1>8. CASE Restart
  BY <1>8, RestartBalances
<1> QED  BY <1>1, <1>2, <1>3, <1>4, <1>5, <1>6, <1>7, <1>8, Zenon DEF Next, AnyRequest

-----------------------------------------------------------------------------
(* What the world promises *)

\* Every set of indices has a greatest one.
LEMMA Greatest ==
    ASSUME NEW n \in Nat, NEW I \in SUBSET (1 .. n), I # {}
    PROVE  Last(I) \in I /\ \A j \in I : j <= Last(I)
<1> DEFINE T == {m \in 0 .. n : n - m \in I}
<1>1. T \in SUBSET Nat
  OBVIOUS
<1>2. \A j \in I : n - j \in T
  OBVIOUS
<1>3. PICK x \in T : \A y \in T : x <= y
  BY <1>1, <1>2, Least
<1>4. n - x \in I /\ \A j \in I : j <= n - x
  BY <1>2, <1>3
<1> QED  BY <1>4 DEF Last

\* Each change is saved after it is made, the saves are written in order, and a
\* login reads behind them: when the queue is written Mongo holds the world as it
\* is, whatever was requested, by whom, however long the logins took and however
\* often the process was killed. Of a player this is said as long as they log in
\* one login at a time and the database does not fail with their record.
THEOREM EverythingOnTheWay == Spec => []NothingUnsaved
<1>1. UnsavedInv => NothingUnsaved
  <2> SUFFICES ASSUME UnsavedInv PROVE NothingUnsaved
    OBVIOUS
  <2>1. Len(q) \in Nat /\ DOMAIN q = 1 .. Len(q)
    BY DEF UnsavedInv, WorldInv
  <2>2. ASSUME ~failed PROVE scene = FinalScene
    <3>1. SceneOnTheWay
      BY <2>2 DEF UnsavedInv, OnTheWay
    <3>2. CASE SceneSaves = {}
      BY <3>1, <3>2 DEF SceneOnTheWay, FinalScene
    <3>3. CASE SceneSaves # {}
      <4>1. SceneSaves \in SUBSET (1 .. Len(q))
        BY <2>1 DEF SceneSaves
      <4>2. Last(SceneSaves) \in SceneSaves /\ \A j \in SceneSaves : j <= Last(SceneSaves)
        BY <2>1, <3>3, <4>1, Greatest
      <4> QED  BY <3>1, <3>3, <4>2 DEF SceneOnTheWay, FinalScene
    <3> QED  BY <3>2, <3>3
  <2>3. ASSUME NEW p \in Player, mishaps[p] = 0 PROVE players[p] = FinalPlayer(p)
    <3>1. PlayerOnTheWay(p)
      BY <2>3 DEF UnsavedInv, OnTheWay, PlayerInOrder
    <3>2. CASE SavesOf(p) = {}
      BY <3>1, <3>2 DEF PlayerOnTheWay, FinalPlayer
    <3>3. CASE SavesOf(p) # {}
      <4>1. SavesOf(p) \in SUBSET (1 .. Len(q))
        BY <2>1 DEF SavesOf
      <4>2. Last(SavesOf(p)) \in SavesOf(p) /\ \A j \in SavesOf(p) : j <= Last(SavesOf(p))
        BY <2>1, <3>3, <4>1, Greatest
      <4> QED  BY <3>1, <3>3, <4>2 DEF PlayerOnTheWay, FinalPlayer
    <3> QED  BY <3>2, <3>3
  <2> QED  BY <2>2, <2>3 DEF NothingUnsaved
<1> QED  BY <1>1, UnsavedAlways, PTL

\* No two buildings share an id or a place, and no id is ahead of the counter,
\* though a restart takes both back to some earlier scene.
THEOREM BuildingsStandApart == Spec => []BuildingsApart
<1>1. UnsavedInv => BuildingsApart
  BY DEF UnsavedInv, WorldInv, GoodScene, Apart, BuildingsApart
<1> QED  BY <1>1, UnsavedAlways, PTL

\* The terrain gives at most one unit for each cell that was ever edited, in any
\* scene that a restart can bring back.
THEOREM TerrainGivesOnce == Spec => []MinedOnce
<1>1. UnsavedInv => MinedOnce
  BY DEF UnsavedInv, WorldInv, GoodScene, Mined, Edited, MinedOnce
<1> QED  BY <1>1, UnsavedAlways, PTL

\* Every scene and every player's state, current, stored or queued, is well formed:
\* in particular nobody ever owes a material, every cost is checked before.
THEOREM WorldTypeCorrect == Spec => []WorldInv
<1>1. UnsavedInv => WorldInv
  BY DEF UnsavedInv
<1> QED  BY <1>1, UnsavedAlways, PTL

\* Nothing is made of nothing and nothing vanishes: what the players own, what is
\* built, placed and left is what came into the world, up to the three units for
\* each restart that fell between the two saves of a request, as long as nobody logs
\* in twice at a time and the database does not fail.
THEOREM NothingFromNothing == Spec => []Conserved
<1>1. UnsavedInv /\ BalanceInv => Conserved
  <2> SUFFICES ASSUME UnsavedInv, BalanceInv PROVE Conserved
    OBVIOUS
  <2>1. ASSUME Clean, NEW m \in Material
        PROVE  Balance(players, scene, m) \in -3 * crashes .. 3 * crashes
    <3>1. crashes \in Nat
      BY DEF UnsavedInv, WorldInv
    <3>2. -3 * crashes = -(3 * crashes)
      BY <3>1
    <3>3. Balance(players, scene, m) \in -(3 * crashes) .. 3 * crashes
      BY <2>1 DEF BalanceInv, Within
    <3> QED  BY <3>2, <3>3
  <2>2. ASSUME NEW p \in Player, NEW m \in Material
        PROVE  players[p].has[m] >= 0
    <3>1. players[p] \in State
      BY DEF UnsavedInv, WorldInv
    <3>2. players[p].has[m] \in Nat
      BY <3>1 DEF State
    <3> QED  BY <3>2
  <2> QED  BY <2>1, <2>2 DEF Conserved, Clean
<1>2. Init => BalanceInv
  BY BalanceInit
<1>3. UnsavedInv /\ BalanceInv /\ [Next]_vars => BalanceInv'
  BY BalanceStep
<1> QED  BY <1>1, <1>2, <1>3, UnsavedAlways, PTL DEF Spec
=============================================================================
