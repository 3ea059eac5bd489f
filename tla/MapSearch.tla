------------------------------ MODULE MapSearch ------------------------------
(***************************************************************************)
(* What a search of the map finds (property/src/properties): the area it   *)
(* is widened to, the cells its cached answer depends on, the filter, and  *)
(* the same filter as saved searches put it to the database.               *)
(*                                                                         *)
(* Latitude and longitude are treated alike: one number stands for both.   *)
(* Kinds of listing are filtered as keywords are, and left out.            *)
(***************************************************************************)
EXTENDS Integers, FiniteSets

CONSTANTS
    Positions,  \* where a listing can be
    GridStep,   \* maps are widened to multiples of it
    CellSize,   \* GRID_STEPS_PER_DEGREE / CELLS_PER_DEGREE steps
    MaxCells,   \* MAX_CELLS_PER_MAP
    None

ASSUME MapSearchAssumption ==
    /\ Positions \subseteq Int /\ None \notin Positions
    /\ GridStep \in Nat \ {0} /\ CellSize \in Nat \ {0} /\ MaxCells \in Nat \ {0}
    /\ CellSize % GridStep = 0

(* Two types stand for the seven; listings from before may have others.    *)
Types == {"Land", "House", "other"}
Fields == {"landSize", "buildingSize"}
FieldsOf == [Land |-> {"landSize"}, House |-> Fields, other |-> Fields]
SizeField == [Land |-> "landSize", House |-> "buildingSize"]

WidenToGrid(box) == [min |-> (box.min \div GridStep) * GridStep,
                     max |-> -((-box.max) \div GridStep) * GridStep]
InBox(x, box) == x # None /\ x >= box.min /\ x <= box.max

CellOf(x) == IF x = None THEN {} ELSE {x \div CellSize}

CellsIn(box) == (box.min \div CellSize)..(box.max \div CellSize)
IsWide(box) == Cardinality(CellsIn(box)) > MaxCells

(* A bound of 0 is none.                                                   *)
InRange(value, min, max) == (min # 0 => value >= min) /\ (max # 0 => value <= max)

MapFilterWhere(listing, filter) ==
    /\ filter.type # None => listing.type = filter.type
    /\ InRange(listing.price, filter.minPrice, filter.maxPrice)
    /\ filter.minSize # 0 \/ filter.maxSize # 0 =>
         \E type \in DOMAIN SizeField :
           /\ listing.type = type
           /\ listing[SizeField[type]] > 0
           /\ InRange(listing[SizeField[type]], filter.minSize, filter.maxSize)
    /\ filter.keywords \subseteq listing.keywords

(* A fault: the land, whatever the type.                                   *)
CardSizeOfLand(listing) == listing.landSize

CardSize(listing) ==
    IF listing.type \in DOMAIN SizeField THEN listing[SizeField[listing.type]] ELSE 0

(* The same in SQL, where a missing size passes no bound.                  *)
MatchesSearch(listing, search) ==
    LET size == CardSize(listing)
    IN  /\ InBox(listing.place, search)
        /\ search.type # None => search.type = listing.type
        /\ InRange(listing.price, search.minPrice, search.maxPrice)
        /\ search.minSize # 0 => size # 0 /\ size >= search.minSize
        /\ search.maxSize # 0 => size # 0 /\ size <= search.maxSize
        /\ search.keywords \subseteq listing.keywords

(* What the app shows of the map of a search: the map's answer is wider.   *)
OnMapOf(listing, search) ==
    /\ InBox(listing.place, search) /\ InBox(listing.place, WidenToGrid(search))
    /\ MapFilterWhere(listing, search)

=============================================================================
