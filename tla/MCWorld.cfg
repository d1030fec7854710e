SPECIFICATION Spec
CONSTANTS
    Player = {p1, p2}
    Trees = {}
    Rocks = {k1}
    Amount = 1
    Place = {a1, a2}
    Cell = {c1}
    BlockType = {3, 5}
    Building = {"CAMPFIRE"}
    Recipe = {1}
    MaxChanges = 3
    MaxQueue = 3
    MaxCrashes = 1
    MaxMishaps = 1
SYMMETRY Symmetry
INVARIANTS NothingUnsaved Conserved MinedOnce BuildingsApart
