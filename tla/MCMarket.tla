------------------------------- MODULE MCMarket -------------------------------
EXTENDS Market, TLC

CONSTANTS r1, r2, r3, o, u, v, s1, s2

(* Which operations meet.                                                  *)
MCMixes == {{"create", "move"}, {"create", "price"}, {"settle", "move", "pair"}, {"park", "settle"},
            {"publish", "unpublish", "move"}, {"relist", "unpublish"}, {"remove", "boundary"},
            {"price", "unpublish"}, {"type", "size"},
            {"look", "move", "publish", "pair"}, {"look", "move", "pair"}, {"look", "text", "unpublish"}, {"look", "settle"},
            {"look", "hide", "publish"}, {"look", "redis", "text"}, {"look", "photos", "pair"},
            {"photos", "erase"}, {"photos", "backfill"},
            {"engage", "price"}, {"engage", "sell"}, {"publish", "fail"},
            {"publish", "match", "once"}, {"publish", "save"}, {"publish", "unsave"}}

MCPositions == {1, 4, 9}
MCBoxes == {[min |-> 1, max |-> 3], [min |-> 1, max |-> 9]}

Row(status, place, date, type, land, building, tags) ==
    [status |-> status, place |-> place, text |-> None, date |-> date, price |-> 2, was |-> 0,
     type |-> type, landSize |-> land, buildingSize |-> building, keywords |-> tags]

(* The app creates a listing and gives it its place afterwards.            *)
MCFirstListings ==
    [m \in MCMixes |->
       IF "create" \in m THEN {Row("New", None, None, "House", 0, 0, {})}
       ELSE IF "match" \in m
       THEN {Row("Draft", x, None, t, a, b, k) :
               x \in {1}, t \in {"House", "other"}, a \in 0..1, b \in 0..2, k \in SUBSET {"pool"}}
       ELSE IF "settle" \in m THEN {Row("Pending", x, d, "House", 1, 1, {}) :
                                      x \in {None, 1}, d \in {None, "first"}}
       ELSE {Row(s, 1, "first", "House", 1, 1, {}) :
               s \in IF "relist" \in m THEN {"Sold", "Expired"} ELSE {"Draft", "Active"}}]

Wants(user, min, max, type, price, size, tags) ==
    [user |-> user, min |-> min, max |-> max, type |-> type, minPrice |-> price, maxPrice |-> 0,
     minSize |-> size, maxSize |-> 0, keywords |-> tags]

MCFirstSearches ==
    [m \in MCMixes |->
       IF "match" \in m
       THEN {[s \in Searches |-> IF s = s1 THEN Wants(u, 1, 3, t, p, z, k) ELSE Wants(o, 0, 9, None, 0, 0, {})] :
               t \in {None, "House"}, p \in {0, 2, 3}, z \in 0..2, k \in SUBSET {"pool"}}
       ELSE {[s \in Searches |-> IF s = s1 THEN Wants(u, 1, 3, None, 0, 0, {})
                                 ELSE Wants(u, 3, 9, None, 0, 0, {})]}]

Symmetry == Permutations(Requests)
=============================================================================
