---------------------------- MODULE MarketProofs ----------------------------
(***************************************************************************)
(* Proofs about Market: a listing, its photos and the alerts it causes.    *)
(***************************************************************************)
EXTENDS Market, FiniteSetTheorems, TLAPS

-----------------------------------------------------------------------------
(* What the operators on rows do.                                          *)

Columns == {"status", "place", "text", "date", "price", "was", "type",
            "landSize", "buildingSize", "keywords"}

LEMMA PricesAre == Prices \subseteq Nat /\ 0 \notin Prices /\ Owner \in People
<1>1. Prices \subseteq Nat \ {0} /\ Owner \in People
  BY Zenon, ListingsAssumption
<1> QED
  BY <1>1

(* Columns of a row, with values that they can have.                       *)
Fits(d) ==
    /\ DOMAIN d \subseteq Columns
    /\ "status" \in DOMAIN d => d["status"] \in Statuses
    /\ "place" \in DOMAIN d => d["place"] \in Positions \cup {None}
    /\ "text" \in DOMAIN d => d["text"] \in Requests \cup {None}
    /\ "date" \in DOMAIN d => d["date"] \in Requests \cup {None, "first"}
    /\ "price" \in DOMAIN d => d["price"] \in Prices
    /\ "was" \in DOMAIN d => d["was"] \in Prices \cup {0}
    /\ "type" \in DOMAIN d => d["type"] \in Types
    /\ "landSize" \in DOMAIN d => d["landSize"] \in Nat
    /\ "buildingSize" \in DOMAIN d => d["buildingSize"] \in Nat
    /\ "keywords" \notin DOMAIN d

LEMMA OverAt ==
    ASSUME NEW d, DOMAIN d \subseteq Columns, NEW row \in Listing
    PROVE  LET new == Over(d, row)
           IN  /\ new = [c \in Columns |-> new[c]]
               /\ new.status = IF "status" \in DOMAIN d THEN d["status"] ELSE row.status
               /\ new.place = IF "place" \in DOMAIN d THEN d["place"] ELSE row.place
               /\ new.text = IF "text" \in DOMAIN d THEN d["text"] ELSE row.text
               /\ new.date = IF "date" \in DOMAIN d THEN d["date"] ELSE row.date
               /\ new.price = IF "price" \in DOMAIN d THEN d["price"] ELSE row.price
               /\ new.was = IF "was" \in DOMAIN d THEN d["was"] ELSE row.was
               /\ new.type = IF "type" \in DOMAIN d THEN d["type"] ELSE row.type
               /\ new.landSize = IF "landSize" \in DOMAIN d THEN d["landSize"] ELSE row.landSize
               /\ new.buildingSize = IF "buildingSize" \in DOMAIN d THEN d["buildingSize"] ELSE row.buildingSize
               /\ new.keywords = IF "keywords" \in DOMAIN d THEN d["keywords"] ELSE row.keywords
<1>1. DOMAIN row = Columns
  BY DEF Listing, Columns
<1>2. Over(d, row) = [c \in Columns |-> IF c \in DOMAIN d THEN d[c] ELSE row[c]]
  BY <1>1 DEF Over
<1> HIDE DEF Over
<1> QED
  BY <1>2 DEF Columns

LEMMA OverFits ==
    ASSUME NEW d, Fits(d), NEW row \in Listing
    PROVE  Over(d, row) \in Listing
<1> DEFINE new == Over(d, row)
<1>1. /\ new = [c \in Columns |-> new[c]]
      /\ new.status \in Statuses /\ new.place \in Positions \cup {None}
      /\ new.text \in Requests \cup {None} /\ new.date \in Requests \cup {None, "first"}
      /\ new.price \in Prices /\ new.was \in Prices \cup {0} /\ new.type \in Types
      /\ new.landSize \in Nat /\ new.buildingSize \in Nat /\ new.keywords \in SUBSET {"pool"}
  BY OverAt DEF Fits, Listing
<1> HIDE DEF new
<1>2. new \in Listing
  BY <1>1 DEF Columns, Listing
<1> QED
  BY <1>2 DEF new

(* A photo shown or taken off is told apart by the text alone.             *)
LEMMA TextAside ==
    ASSUME NEW row \in Listing, NEW t \in Requests, NEW other,
           other = [row EXCEPT !.text = t]
    PROVE  /\ other \in Listing
           /\ other.status = row.status /\ other.place = row.place /\ other.date = row.date
           /\ other.price = row.price /\ other.was = row.was /\ other.type = row.type
           /\ other.landSize = row.landSize /\ other.buildingSize = row.buildingSize
           /\ IsConsistent(other) <=> IsConsistent(row)
  BY DEF Listing, IsConsistent, Fields

(* What the columns a request writes do to any row.                        *)
Writes(op, data, before) ==
    /\ \A row \in Listing :
         LET new == Over(data, row)
         IN  /\ new \in Listing
             /\ new.place # row.place => op = "move" /\ new.place # None
             /\ new.status # row.status =>
                  op \in {"create", "publish", "relist", "unpublish", "sell", "remove", "park"}
             /\ new.status = "Active" /\ row.status # "Active" =>
                  op \in {"create", "publish", "relist"}
             /\ op = "park" => new.status = "Pending"
             /\ new.status = "New" => row.status = "New" /\ new.date = row.date
    /\ op = "create" => before.status = "New"
    /\ op \in {"publish", "park"} => CanPublish(before.status)
    /\ op = "relist" => CanRelist(before.status)
    /\ op = "sell" => CanMarkSold(before.status)

(* What they do to the row they were worked out from.                      *)
WritesSoundly(data, row) ==
    /\ IsConsistent(Over(data, row))
    /\ Over(data, row).date # row.date => row.date = None \/ DatesAnew(row.status)

LEMMA OverText ==
    ASSUME NEW d, NEW row \in Listing, NEW other \in Listing, Fits(d), WritesSoundly(d, row),
           other.status = row.status, other.date = row.date, other.price = row.price,
           other.was = row.was, other.type = row.type,
           other.landSize = row.landSize, other.buildingSize = row.buildingSize
    PROVE  WritesSoundly(d, other)
<1> DEFINE new == Over(d, other)
           old == Over(d, row)
<1>2. /\ new.date = old.date /\ new.price = old.price /\ new.was = old.was /\ new.type = old.type
      /\ new.landSize = old.landSize /\ new.buildingSize = old.buildingSize
  <2>1. DOMAIN d \subseteq Columns
    BY DEF Fits
  <2>2. /\ new.date = IF "date" \in DOMAIN d THEN d["date"] ELSE other.date
        /\ new.price = IF "price" \in DOMAIN d THEN d["price"] ELSE other.price
        /\ new.was = IF "was" \in DOMAIN d THEN d["was"] ELSE other.was
        /\ new.type = IF "type" \in DOMAIN d THEN d["type"] ELSE other.type
        /\ new.landSize = IF "landSize" \in DOMAIN d THEN d["landSize"] ELSE other.landSize
        /\ new.buildingSize = IF "buildingSize" \in DOMAIN d THEN d["buildingSize"] ELSE other.buildingSize
    BY <2>1, OverAt
  <2>3. /\ old.date = IF "date" \in DOMAIN d THEN d["date"] ELSE row.date
        /\ old.price = IF "price" \in DOMAIN d THEN d["price"] ELSE row.price
        /\ old.was = IF "was" \in DOMAIN d THEN d["was"] ELSE row.was
        /\ old.type = IF "type" \in DOMAIN d THEN d["type"] ELSE row.type
        /\ old.landSize = IF "landSize" \in DOMAIN d THEN d["landSize"] ELSE row.landSize
        /\ old.buildingSize = IF "buildingSize" \in DOMAIN d THEN d["buildingSize"] ELSE row.buildingSize
    BY <2>1, OverAt
  <2> HIDE DEF new, old
  <2> QED
    BY <2>2, <2>3
<1>3. new \in Listing /\ old \in Listing
  BY OverFits
<1> HIDE DEF new, old
<1>4. IsConsistent(old) => IsConsistent(new)
  BY <1>2, <1>3 DEF IsConsistent, Fields
<1> QED
  BY <1>2, <1>4 DEF WritesSoundly, new, old

LEMMA ClearedIs ==
    ASSUME NEW type \in Types
    PROVE  /\ DOMAIN ClearedFieldsFor(type) = Fields \ FieldsOf[type]
           /\ \A c \in DOMAIN ClearedFieldsFor(type) : ClearedFieldsFor(type)[c] = 0
           /\ FieldsOf[type] \subseteq Fields
  BY DEF ClearedFieldsFor, Types, FieldsOf, Fields

(* The columns worked out by the owner's requests.                         *)
LEMMA SetsDetails ==
    ASSUME NEW row \in Listing, NEW d, Fits(d), NEW op \in {"text", "size", "boundary"},
           DOMAIN d \subseteq {"text"} \cup Fields,
           \A c \in Fields \ FieldsOf[row.type] : c \in DOMAIN d => d[c] = 0
    PROVE  Writes(op, d, row) /\ (IsConsistent(row) => WritesSoundly(d, row))
<1>1. ASSUME NEW l \in Listing
      PROVE  LET new == Over(d, l)
             IN  /\ new \in Listing /\ new.status = l.status /\ new.place = l.place
                 /\ new.date = l.date /\ new.price = l.price /\ new.was = l.was /\ new.type = l.type
  BY OverAt, OverFits DEF Fields, Fits
<1>2. Writes(op, d, row)
  BY <1>1 DEF Writes
<1>3. ASSUME IsConsistent(row) PROVE WritesSoundly(d, row)
  <2> DEFINE new == Over(d, row)
  <2>1. /\ new.landSize = IF "landSize" \in DOMAIN d THEN d["landSize"] ELSE row.landSize
        /\ new.buildingSize = IF "buildingSize" \in DOMAIN d THEN d["buildingSize"] ELSE row.buildingSize
    BY OverAt DEF Fits
  <2>2. /\ new \in Listing /\ new.date = row.date /\ new.price = row.price /\ new.was = row.was
        /\ new.type = row.type
    BY <1>1
  <2> HIDE DEF new
  <2>3. \A f \in Fields \ FieldsOf[new.type] : new[f] = 0
    BY <1>3, <2>1, <2>2 DEF IsConsistent, Fields
  <2> QED
    BY <1>3, <2>2, <2>3 DEF IsConsistent, WritesSoundly, new
<1> QED
  BY <1>2, <1>3

(* A price, with what it does to the mark of a drop.                       *)
LEMMA SetsPrice ==
    ASSUME NEW row \in Listing, NEW p \in Prices, NEW d,
           d = Over([price |-> p], PriceDropColumns(row, p))
    PROVE  /\ Fits(d) /\ Writes("price", d, row)
           /\ IsConsistent(row) => WritesSoundly(d, row)
<1>1. /\ DOMAIN d \subseteq {"price", "was"} /\ "price" \in DOMAIN d /\ d["price"] = p
      /\ "was" \in DOMAIN d => d["was"] \in {0, row.price}
      /\ "was" \in DOMAIN d /\ d["was"] # 0 => p < row.price
      /\ "was" \notin DOMAIN d => row.was = 0 \/ p < row.was
  <2> DEFINE e == PriceDropColumns(row, p)
  <2>1. \/ e = [was |-> row.price] /\ p < row.price
        \/ e = [was |-> 0]
        \/ e = <<>> /\ (row.was = 0 \/ ~(p >= row.was))
    BY DEF PriceDropColumns
  <2>2. row.was \in Nat \cup {0} /\ row.price \in Nat /\ p \in Nat
    <3>1. row.was \in Prices \cup {0} /\ row.price \in Prices
      BY DEF Listing
    <3> QED
      BY Zenon, <3>1, PricesAre
  <2> HIDE DEF e
  <2>3. d = Over([price |-> p], e)
    BY DEF e
  <2>4. CASE e = <<>> /\ (row.was = 0 \/ ~(p >= row.was))
    <3>1. DOMAIN e = {}
      BY <2>4
    <3>2. DOMAIN d = {"price"} /\ d["price"] = p
      BY <2>3, <3>1 DEF Over
    <3> QED
      BY <2>2, <2>4, <3>2
  <2>5. CASE e = [was |-> 0]
    BY <2>3, <2>5 DEF Over
  <2>6. CASE e = [was |-> row.price] /\ p < row.price
    BY <2>3, <2>6 DEF Over
  <2> QED
    BY <2>1, <2>4, <2>5, <2>6
<1>2. Fits(d)
  BY <1>1 DEF Fits, Columns, Listing
<1>3. ASSUME NEW l \in Listing
      PROVE  LET new == Over(d, l)
             IN  /\ new \in Listing /\ new.status = l.status /\ new.place = l.place
                 /\ new.date = l.date /\ new.type = l.type
                 /\ new.landSize = l.landSize /\ new.buildingSize = l.buildingSize
                 /\ new.price = p /\ new.was = IF "was" \in DOMAIN d THEN d["was"] ELSE l.was
  BY <1>1, <1>2, OverAt, OverFits DEF Fits
<1>4. Writes("price", d, row)
  BY <1>3 DEF Writes
<1>5. ASSUME IsConsistent(row) PROVE WritesSoundly(d, row)
  <2> DEFINE new == Over(d, row)
  <2>1. /\ new \in Listing /\ new.date = row.date /\ new.type = row.type
        /\ new.landSize = row.landSize /\ new.buildingSize = row.buildingSize
        /\ new.price = p /\ new.was = IF "was" \in DOMAIN d THEN d["was"] ELSE row.was
    BY <1>3
  <2> HIDE DEF new
  <2>2. new.was # 0 => new.price < new.was
    BY <1>1, <2>1
  <2>3. \A f \in Fields \ FieldsOf[new.type] : new[f] = 0
    BY <1>5, <2>1 DEF IsConsistent, Fields
  <2> QED
    BY <2>1, <2>2, <2>3 DEF IsConsistent, WritesSoundly, new
<1> QED
  BY <1>2, <1>4, <1>5

LEMMA SetsType ==
    ASSUME NEW row \in Listing, NEW t \in Types, NEW d,
           d = Over([type |-> t], ClearedFieldsFor(t))
    PROVE  /\ Fits(d) /\ Writes("type", d, row)
           /\ IsConsistent(row) => WritesSoundly(d, row)
<1>1. /\ DOMAIN d = {"type"} \cup (Fields \ FieldsOf[t]) /\ d["type"] = t
      /\ \A c \in Fields \ FieldsOf[t] : d[c] = 0
  BY ClearedIs DEF Over, Fields
<1>2. Fits(d)
  BY <1>1 DEF Fits, Columns, Fields
<1>3. ASSUME NEW l \in Listing
      PROVE  LET new == Over(d, l)
             IN  /\ new \in Listing /\ new.status = l.status /\ new.place = l.place
                 /\ new.date = l.date /\ new.price = l.price /\ new.was = l.was /\ new.type = t
                 /\ new.landSize = IF "landSize" \in DOMAIN d THEN d["landSize"] ELSE l.landSize
                 /\ new.buildingSize = IF "buildingSize" \in DOMAIN d THEN d["buildingSize"] ELSE l.buildingSize
  <2>1. DOMAIN d \subseteq Columns /\ "type" \in DOMAIN d /\ "status" \notin DOMAIN d
        /\ "place" \notin DOMAIN d /\ "date" \notin DOMAIN d /\ "price" \notin DOMAIN d
        /\ "was" \notin DOMAIN d
    BY <1>1, <1>2 DEF Fits, Fields
  <2> QED
    BY <1>1, <1>2, <2>1, OverAt, OverFits
<1>4. Writes("type", d, row)
  BY <1>3 DEF Writes
<1>5. ASSUME IsConsistent(row) PROVE WritesSoundly(d, row)
  <2> DEFINE new == Over(d, row)
  <2>1. /\ new \in Listing /\ new.date = row.date /\ new.price = row.price /\ new.was = row.was
        /\ new.type = t
        /\ new.landSize = IF "landSize" \in DOMAIN d THEN d["landSize"] ELSE row.landSize
        /\ new.buildingSize = IF "buildingSize" \in DOMAIN d THEN d["buildingSize"] ELSE row.buildingSize
    BY <1>3
  <2> HIDE DEF new
  <2>2. \A f \in Fields \ FieldsOf[new.type] : new[f] = 0
    BY <1>1, <2>1 DEF Fields
  <2> QED
    BY <1>5, <2>1, <2>2 DEF IsConsistent, WritesSoundly, new
<1> QED
  BY <1>2, <1>4, <1>5

LEMMA SetsPlace ==
    ASSUME NEW row \in Listing, NEW x \in Positions, NEW d, d = [place |-> x]
    PROVE  /\ Fits(d) /\ Writes("move", d, row)
           /\ IsConsistent(row) => WritesSoundly(d, row)
<1>1. Fits(d)
  BY DEF Fits, Columns
<1>2. ASSUME NEW l \in Listing
      PROVE  LET new == Over(d, l)
             IN  /\ new \in Listing /\ new.status = l.status /\ new.place = x
                 /\ new.date = l.date /\ new.price = l.price /\ new.was = l.was /\ new.type = l.type
                 /\ new.landSize = l.landSize /\ new.buildingSize = l.buildingSize
  BY <1>1, OverAt, OverFits DEF Fits
<1>3. Writes("move", d, row)
  BY <1>2, MapSearchAssumption DEF Writes
<1>4. ASSUME IsConsistent(row) PROVE WritesSoundly(d, row)
  <2> DEFINE new == Over(d, row)
  <2>1. /\ new \in Listing /\ new.date = row.date /\ new.price = row.price /\ new.was = row.was
        /\ new.type = row.type /\ new.landSize = row.landSize /\ new.buildingSize = row.buildingSize
    BY <1>2
  <2> HIDE DEF new
  <2>2. \A f \in Fields \ FieldsOf[new.type] : new[f] = 0
    BY <1>4, <2>1 DEF IsConsistent, Fields
  <2> QED
    BY <1>4, <2>1, <2>2 DEF IsConsistent, WritesSoundly, new
<1> QED
  BY <1>1, <1>3, <1>4

(* A status, dated or not, and the details that the type does not have.    *)
LEMMA SetsStatus ==
    ASSUME NEW row \in Listing, NEW op \in {"create", "publish", "relist", "unpublish", "sell",
                                            "remove", "park"},
           NEW d, Fits(d), DOMAIN d \subseteq {"status", "date"} \cup Fields, "status" \in DOMAIN d,
           \A c \in Fields \cap DOMAIN d : d[c] = 0,
           d["status"] # "New", d["status"] = "Active" => op \in {"create", "publish", "relist"},
           op = "park" => d["status"] = "Pending",
           "date" \in DOMAIN d /\ d["date"] # row.date => row.date = None \/ DatesAnew(row.status),
           op = "create" => row.status = "New",
           op \in {"publish", "park"} => CanPublish(row.status),
           op = "relist" => CanRelist(row.status), op = "sell" => CanMarkSold(row.status)
    PROVE  /\ Writes(op, d, row)
           /\ IsConsistent(row) => WritesSoundly(d, row)
<1>1. ASSUME NEW l \in Listing
      PROVE  LET new == Over(d, l)
             IN  /\ new \in Listing /\ new.status = d["status"] /\ new.place = l.place
                 /\ new.date = (IF "date" \in DOMAIN d THEN d["date"] ELSE l.date)
                 /\ new.price = l.price /\ new.was = l.was /\ new.type = l.type
                 /\ new.landSize \in {l.landSize, 0} /\ new.buildingSize \in {l.buildingSize, 0}
  BY OverAt, OverFits DEF Fits, Fields
<1>2. Writes(op, d, row)
  BY <1>1 DEF Writes
<1>3. ASSUME IsConsistent(row) PROVE WritesSoundly(d, row)
  <2> DEFINE new == Over(d, row)
  <2>1. /\ new \in Listing /\ new.price = row.price /\ new.was = row.was /\ new.type = row.type
        /\ new.date = (IF "date" \in DOMAIN d THEN d["date"] ELSE row.date)
        /\ new.landSize \in {row.landSize, 0} /\ new.buildingSize \in {row.buildingSize, 0}
    BY <1>1
  <2> HIDE DEF new
  <2>2. \A f \in Fields \ FieldsOf[new.type] : new[f] = 0
    BY <1>3, <2>1 DEF IsConsistent, Fields
  <2> QED
    BY <1>3, <2>1, <2>2 DEF IsConsistent, WritesSoundly, new
<1> QED
  BY <1>2, <1>3

-----------------------------------------------------------------------------
(* Requests.                                                               *)

Known(op, step) ==
    \/ /\ op \in {"create", "text", "price", "type", "size", "move", "boundary", "remove",
                  "unpublish", "publish", "sell", "relist", "park"}
       /\ step \in {"write", "after"}
    \/ op = "settle" /\ step \in {"second", "row", "after"}
    \/ op = "account" /\ step \in {"row", "after"}
    \/ op \in Kinds /\ step = "engage"
    \/ op = "confirm" /\ step \in {"thumb", "insert", "after"}
    \/ op = "takeOff" /\ step \in {"takeOff", "after", "still", "files"}
    \/ op = "erase" /\ step \in {"shared", "erase"}
    \/ op = "backfill" /\ step \in {"thumb", "insert"}

OnFile == [shelf : Shelves, file : Files, small : BOOLEAN]
OnFiles == [file : {None}, gone : SUBSET Files]

IsRequest(q) ==
    /\ q = [op |-> q.op, step |-> q.step, who |-> q.who, data |-> q.data,
            before |-> q.before, after |-> q.after, stale |-> q.stale]
    /\ Known(q.op, q.step)
    /\ q.who \in People /\ q.before \in Listing /\ q.after \in Listing /\ q.stale \in BOOLEAN
    /\ q.step = "write" => Fits(q.data) /\ Writes(q.op, q.data, q.before)
    /\ q.op \in {"confirm", "takeOff", "backfill"} => q.data \in OnFile
    /\ q.op = "erase" => q.data \in OnFiles
    /\ q.op \in {"confirm", "takeOff"} => q.after = q.before

(* What a request that is not stale read is still so.                      *)
IsFresh(q, row, c) ==
    q.step \in Unwritten /\ ~q.stale =>
        /\ q.before.status = row.status /\ q.before.place = row.place
        /\ q.step = "write" /\ ~c => WritesSoundly(q.data, row)

(* The requests and the row.                                               *)
RowInv ==
    /\ listing \in Listing /\ hidden \in BOOLEAN /\ crossed \in BOOLEAN
    /\ RowIsConsistent
    /\ listing.status = "New" => listing.date = None
    /\ \A r \in Requests : req[r] \in {Unused, Done} \/ IsRequest(req[r])
    /\ \A r \in Requests : IsFresh(req[r], listing, crossed)
    /\ req = [r \in Requests |-> req[r]]

(* A step that moves a request on keeps all that it is.                    *)
LEMMA StepOn ==
    ASSUME NEW q, IsRequest(q), NEW step, Known(q.op, step), step # "write",
           NEW p, p = [q EXCEPT !.step = step]
    PROVE  /\ IsRequest(p) /\ p.op = q.op /\ p.step = step /\ p.who = q.who /\ p.data = q.data
           /\ p.before = q.before /\ p.after = q.after /\ p.stale = q.stale
<1>1. /\ p.op = q.op /\ p.step = step /\ p.who = q.who /\ p.data = q.data
      /\ p.before = q.before /\ p.after = q.after /\ p.stale = q.stale
      /\ p = [op |-> p.op, step |-> p.step, who |-> p.who, data |-> p.data,
              before |-> p.before, after |-> p.after, stale |-> p.stale]
  BY DEF IsRequest
<1> QED
  BY <1>1 DEF IsRequest

LEMMA MadeStale ==
    ASSUME NEW q, IsRequest(q), NEW p, p = [q EXCEPT !.stale = TRUE]
    PROVE  /\ IsRequest(p) /\ p.op = q.op /\ p.step = q.step /\ p.who = q.who /\ p.data = q.data
           /\ p.before = q.before /\ p.after = q.after /\ p.stale
<1>1. /\ p.op = q.op /\ p.step = q.step /\ p.who = q.who /\ p.data = q.data
      /\ p.before = q.before /\ p.after = q.after /\ p.stale = TRUE
      /\ p = [op |-> p.op, step |-> p.step, who |-> p.who, data |-> p.data,
              before |-> p.before, after |-> p.after, stale |-> p.stale]
  BY DEF IsRequest
<1> QED
  BY <1>1 DEF IsRequest

LEMMA AskedIs ==
    ASSUME RowInv, NEW op, NEW step, NEW who \in People, NEW data, Known(op, step),
           step = "write" => Fits(data) /\ Writes(op, data, listing),
           step = "write" /\ ~crossed => WritesSoundly(data, listing),
           op \in {"confirm", "takeOff", "backfill"} => data \in OnFile,
           op = "erase" => data \in OnFiles
    PROVE  LET q == Asked(op, step, who, data)
           IN  /\ IsRequest(q) /\ q.op = op /\ q.step = step /\ q.who = who /\ q.data = data
               /\ q.before = listing /\ q.after = listing /\ q.stale = FALSE
               /\ IsFresh(q, listing, crossed)
<1> DEFINE q == Asked(op, step, who, data)
<1>1. /\ q.op = op /\ q.step = step /\ q.who = who /\ q.data = data
      /\ q.before = listing /\ q.after = listing /\ q.stale = FALSE
      /\ q = [op |-> q.op, step |-> q.step, who |-> q.who, data |-> q.data,
              before |-> q.before, after |-> q.after, stale |-> q.stale]
  BY DEF Asked
<1> HIDE DEF q
<1>2. IsRequest(q) /\ IsFresh(q, listing, crossed)
  BY <1>1 DEF IsRequest, IsFresh, RowInv
<1> QED
  BY <1>1, <1>2 DEF q

-----------------------------------------------------------------------------
(* How a step changes the requests: one of them, or one with the row.      *)

LEMMA OneRequestChanges ==
    ASSUME RowInv, NEW r \in Requests, NEW q, req' = [req EXCEPT ![r] = q],
           q \in {Unused, Done} \/ IsRequest(q), IsFresh(q, listing', crossed'),
           hidden' \in BOOLEAN, crossed' \in BOOLEAN, crossed => crossed',
           listing' = listing \/ \E t \in Requests : listing' = [listing EXCEPT !.text = t]
    PROVE  RowInv' /\ listing'.date = listing.date
<1>1. /\ listing' \in Listing
      /\ listing'.status = listing.status /\ listing'.place = listing.place
      /\ listing'.date = listing.date
      /\ listing'.price = listing.price /\ listing'.was = listing.was /\ listing'.type = listing.type
      /\ listing'.landSize = listing.landSize /\ listing'.buildingSize = listing.buildingSize
      /\ IsConsistent(listing') <=> IsConsistent(listing)
  BY TextAside DEF RowInv
<1>2. /\ req'[r] = q /\ \A p \in Requests \ {r} : req'[p] = req[p]
      /\ req' = [p \in Requests |-> req'[p]]
  BY DEF RowInv
<1>3. ASSUME NEW p \in Requests
      PROVE  (req'[p] \in {Unused, Done} \/ IsRequest(req'[p])) /\ IsFresh(req'[p], listing', crossed')
  <2>1. CASE p = r
    BY <1>2, <2>1
  <2>2. CASE p # r
    <3>1. /\ req'[p] = req[p] /\ (req[p] \in {Unused, Done} \/ IsRequest(req[p]))
          /\ IsFresh(req[p], listing, crossed)
      BY <1>2, <2>2 DEF RowInv
    <3>2. CASE req[p] \in {Unused, Done}
      BY <3>1, <3>2 DEF IsFresh, Unused, Done, Unwritten
    <3>3. CASE IsRequest(req[p])
      <4>1. ASSUME req[p].step = "write", WritesSoundly(req[p].data, listing)
            PROVE  WritesSoundly(req[p].data, listing')
        <5>1. Fits(req[p].data) /\ listing \in Listing
          BY <3>3, <4>1 DEF IsRequest, RowInv
        <5> QED
          BY <1>1, <4>1, <5>1, OverText
      <4> QED
        BY <1>1, <3>1, <3>3, <4>1 DEF IsFresh
    <3> QED
      BY <3>1, <3>2, <3>3
  <2> QED
    BY <2>1, <2>2
<1>4. RowIsConsistent' /\ (listing'.status = "New" => listing'.date = None)
  BY <1>1 DEF RowInv, RowIsConsistent
<1>5. /\ \A p \in Requests : (req[p] \in {Unused, Done} \/ IsRequest(req[p]))'
      /\ \A p \in Requests : IsFresh(req[p], listing, crossed)'
  BY <1>3
<1> QED
  BY <1>1, <1>2, <1>4, <1>5 DEF RowInv

LEMMA RowChanges ==
    ASSUME RowInv, NEW r \in Requests, NEW q, NEW row \in Listing, listing' = row,
           req' = Others(r, q), q = Done \/ (IsRequest(q) /\ q.step \notin Unwritten),
           hidden' \in BOOLEAN, crossed' \in BOOLEAN, crossed => crossed',
           ~crossed' => IsConsistent(row), row.status = "New" => row.date = None
    PROVE  /\ RowInv' /\ req'[r] = q
           /\ \A p \in Requests \ {r} : req'[p] \in {req[p], [req[p] EXCEPT !.stale = TRUE]}
<1>1. /\ req'[r] = q /\ req' = [p \in Requests |-> req'[p]]
      /\ \A p \in Requests \ {r} :
           req'[p] = IF req[p].step \in Unwritten THEN [req[p] EXCEPT !.stale = TRUE] ELSE req[p]
  BY DEF Others
<1>2. ASSUME NEW p \in Requests
      PROVE  /\ req'[p] \in {Unused, Done} \/ IsRequest(req'[p])
             /\ req'[p].step \in Unwritten => req'[p].stale
  <2>1. CASE p = r
    BY <1>1, <2>1 DEF Done, Unwritten
  <2>2. CASE p # r
    <3>1. req[p] \in {Unused, Done} \/ IsRequest(req[p])
      BY DEF RowInv
    <3>2. CASE req[p] \in {Unused, Done}
      BY <1>1, <2>2, <3>2 DEF Unused, Done, Unwritten
    <3>3. CASE IsRequest(req[p]) /\ req[p].step \in Unwritten
      BY <1>1, <2>2, <3>3, MadeStale
    <3>4. CASE IsRequest(req[p]) /\ req[p].step \notin Unwritten
      BY <1>1, <2>2, <3>4
    <3> QED
      BY <3>1, <3>2, <3>3, <3>4
  <2> QED
    BY <2>1, <2>2
<1>3. /\ \A p \in Requests : (req[p] \in {Unused, Done} \/ IsRequest(req[p]))'
      /\ \A p \in Requests : IsFresh(req[p], listing, crossed)'
  BY <1>2 DEF IsFresh
<1>4. RowInv'
  BY <1>1, <1>3 DEF RowInv, RowIsConsistent
<1> QED
  BY <1>1, <1>4

-----------------------------------------------------------------------------
(* What the owner asks for.                                                *)

(* A request that will write its columns to the row.                       *)
Begins(r, op, data) ==
    /\ req[r] = Unused
    /\ req' = [req EXCEPT ![r] = Asked(op, "write", Owner, data)]
    /\ Known(op, "write") /\ Fits(data) /\ Writes(op, data, listing)
    /\ ~crossed => WritesSoundly(data, listing)
    /\ UNCHANGED <<listing, hidden, cacheVars, engaged, events, mix, history>>

LEMMA TheyBegin ==
    ASSUME RowInv, NEW r \in Requests,
           Create(r) \/ Update(r) \/ Move(r) \/ SetStatus(r) \/ BeginPublish(r)
    PROVE  \E op, data : Begins(r, op, data)
<1> DEFINE Sound(d) == ~crossed => WritesSoundly(d, listing)
<1>0. /\ listing \in Listing /\ (~crossed => IsConsistent(listing)) /\ listing.type \in Types
      /\ listing.status = "New" => listing.date = None
  BY DEF RowInv, RowIsConsistent, Listing
<1>1. ASSUME NEW op, NEW data, Begin(r, op, data), Known(op, "write"), Fits(data),
             Writes(op, data, listing), Sound(data)
      PROVE  \E o, d : Begins(r, o, d)
  BY <1>1 DEF Begin, Begins, Free
<1>2. ASSUME Create(r) PROVE \E op, data : Begins(r, op, data)
  <2>1. PICK data \in {[status |-> "Draft"], [status |-> "Active", date |-> r]} :
          req' = [req EXCEPT ![r] = Asked("create", "write", Owner, Over(data, ClearedFieldsFor(listing.type)))]
    BY <1>2 DEF Create
  <2> DEFINE d == Over(data, ClearedFieldsFor(listing.type))
  <2>2. /\ DOMAIN d = DOMAIN data \cup (Fields \ FieldsOf[listing.type])
        /\ \A c \in DOMAIN data : d[c] = data[c]
        /\ \A c \in Fields \ FieldsOf[listing.type] : c \notin DOMAIN data => d[c] = 0
    BY <1>0, ClearedIs DEF Over
  <2>3. /\ DOMAIN data \subseteq {"status", "date"} /\ "status" \in DOMAIN data
        /\ data["status"] \in {"Draft", "Active"} /\ ("date" \in DOMAIN data => data["date"] = r)
    BY <2>1
  <2> HIDE DEF d
  <2>4. Fits(d)
    BY <2>2, <2>3 DEF Fits, Fields, Columns, Statuses
  <2>5. DOMAIN d \subseteq {"status", "date"} \cup Fields /\ "status" \in DOMAIN d
        /\ d["status"] \in {"Draft", "Active"} /\ \A c \in Fields \cap DOMAIN d : d[c] = 0
    BY <2>2, <2>3 DEF Fields
  <2>6. listing.status = "New" /\ listing.date = None
    BY <1>0, <1>2 DEF Create
  <2>7. Writes("create", d, listing) /\ Sound(d)
    BY <1>0, <2>4, <2>5, <2>6, SetsStatus
  <2> QED
    BY <1>2, <2>1, <2>4, <2>7 DEF Create, Begins, Known, Free, d
<1>3. ASSUME Update(r) PROVE \E op, data : Begins(r, op, data)
  <2>1. CASE Begin(r, "text", Over([text |-> r], ClearedFieldsFor(listing.type)))
    <3> DEFINE d == Over([text |-> r], ClearedFieldsFor(listing.type))
    <3>1. /\ DOMAIN d = {"text"} \cup (Fields \ FieldsOf[listing.type]) /\ d["text"] = r
          /\ \A c \in Fields \ FieldsOf[listing.type] : d[c] = 0
      BY <1>0, ClearedIs DEF Over, Fields
    <3> HIDE DEF d
    <3>2. Fits(d)
      BY <3>1 DEF Fits, Fields, Columns
    <3>3. Writes("text", d, listing) /\ Sound(d)
      BY <1>0, <3>1, <3>2, SetsDetails
    <3> QED
      BY <1>1, <2>1, <3>2, <3>3 DEF Known, d
  <2>2. ASSUME NEW p \in Prices, Begin(r, "price", Over([price |-> p], PriceDropColumns(listing, p)))
        PROVE  \E op, data : Begins(r, op, data)
    BY <1>0, <1>1, <2>2, SetsPrice DEF Known
  <2>3. ASSUME NEW t \in Types, Begin(r, "type", Over([type |-> t], ClearedFieldsFor(t)))
        PROVE  \E op, data : Begins(r, op, data)
    BY <1>0, <1>1, <2>3, SetsType DEF Known
  <2>4. CASE Begin(r, "size", Over(ClearedFieldsFor(listing.type), [buildingSize |-> 2]))
    <3> DEFINE d == Over(ClearedFieldsFor(listing.type), [buildingSize |-> 2])
    <3>1. /\ DOMAIN d = {"buildingSize"} \cup (Fields \ FieldsOf[listing.type])
          /\ \A c \in Fields \ FieldsOf[listing.type] : d[c] = 0
          /\ d["buildingSize"] \in {0, 2}
      BY <1>0, ClearedIs DEF Over, Fields
    <3> HIDE DEF d
    <3>2. Fits(d)
      BY <3>1 DEF Fits, Fields, Columns
    <3>3. Writes("size", d, listing) /\ Sound(d)
      BY <1>0, <3>1, <3>2, SetsDetails DEF Fields
    <3> QED
      BY <1>1, <2>4, <3>2, <3>3 DEF Known, d
  <2> QED
    BY <1>3, <2>1, <2>2, <2>3, <2>4 DEF Update
<1>4. ASSUME Move(r) PROVE \E op, data : Begins(r, op, data)
  <2>1. ASSUME NEW x \in Positions, Begin(r, "move", [place |-> x])
        PROVE  \E op, data : Begins(r, op, data)
    BY <1>0, <1>1, <2>1, SetsPlace DEF Known
  <2>2. CASE Begin(r, "boundary", [text |-> r])
    <3> DEFINE d == [text |-> r]
    <3>1. Fits(d) /\ DOMAIN d = {"text"}
      BY DEF Fits, Columns
    <3>2. Writes("boundary", d, listing) /\ Sound(d)
      BY <1>0, <3>1, SetsDetails DEF Fields
    <3> QED
      BY <1>1, <2>2, <3>1, <3>2 DEF Known
  <2> QED
    BY <1>4, <2>1, <2>2 DEF Move
<1>5. ASSUME SetStatus(r) \/ BeginPublish(r) PROVE \E op, data : Begins(r, op, data)
  <2>1. ASSUME NEW op \in {"publish", "relist", "unpublish", "sell", "remove", "park"},
               NEW d, Begin(r, op, d), DOMAIN d \subseteq {"status", "date"}, "status" \in DOMAIN d,
               d["status"] \in Statuses \ {"New"},
               d["status"] = "Active" => op \in {"publish", "relist"},
               op = "park" => d["status"] = "Pending",
               "date" \in DOMAIN d => d["date"] \in Requests \cup {None, "first"},
               "date" \in DOMAIN d /\ d["date"] # listing.date =>
                 listing.date = None \/ DatesAnew(listing.status),
               op \in {"publish", "park"} => CanPublish(listing.status),
               op = "relist" => CanRelist(listing.status), op = "sell" => CanMarkSold(listing.status)
        PROVE  \E o, e : Begins(r, o, e)
    <3>1. Fits(d) /\ Fields \cap DOMAIN d = {}
      BY <2>1 DEF Fits, Columns, Fields
    <3>2. Writes(op, d, listing) /\ Sound(d)
      BY <1>0, <2>1, <3>1, SetsStatus
    <3>3. Known(op, "write")
      BY <2>1 DEF Known
    <3> QED
      BY <1>1, <2>1, <3>1, <3>2, <3>3
  <2>2. CASE Begin(r, "remove", [status |-> "Deleted"])
    BY <2>1, <2>2 DEF Statuses
  <2>3. CASE Begin(r, "unpublish", [status |-> "Draft"])
    BY <2>1, <2>3 DEF Statuses
  <2>4. CASE CanMarkSold(listing.status) /\ Begin(r, "sell", [status |-> "Sold"])
    BY <2>1, <2>4 DEF Statuses
  <2>5. ASSUME NEW op \in {"publish", "relist"}, Begin(r, op, GoesActive(r)),
               op = "publish" => CanPublish(listing.status), op = "relist" => CanRelist(listing.status)
        PROVE  \E o, e : Begins(r, o, e)
    <3> DEFINE d == GoesActive(r)
    <3>1. DOMAIN d = {"status", "date"} /\ d["status"] = "Active"
          /\ d["date"] = PublishedAtGoingLive(r, listing)
      BY DEF GoesActive
    <3>2. /\ PublishedAtGoingLive(r, listing) \in Requests \cup {None, "first"}
          /\ PublishedAtGoingLive(r, listing) # listing.date =>
               listing.date = None \/ DatesAnew(listing.status)
      BY <1>0 DEF PublishedAtGoingLive, Listing
    <3> HIDE DEF d
    <3> QED
      BY <2>1, <2>5, <3>1, <3>2 DEF Statuses, d
  <2>6. ASSUME BeginPublish(r) PROVE \E o, e : Begins(r, o, e)
    <3>1. CASE DatesAnew(listing.status) /\ Begin(r, "park", [status |-> "Pending", date |-> None])
      BY <2>1, <2>6, <3>1 DEF Statuses, BeginPublish
    <3>2. CASE Begin(r, "park", [status |-> "Pending"])
      BY <2>1, <2>6, <3>2 DEF Statuses, BeginPublish
    <3> QED
      BY <2>6, <3>1, <3>2 DEF BeginPublish
  <2> QED
    BY <1>5, <2>2, <2>3, <2>4, <2>5, <2>6 DEF SetStatus
<1> QED
  BY <1>2, <1>3, <1>4, <1>5

-----------------------------------------------------------------------------
(* The row agrees with itself after every step.                            *)

LEMMA RequestIs ==
    ASSUME RowInv, NEW r \in Requests, NEW step, step \notin {"unused", "done"}, At(r, step)
    PROVE  IsRequest(req[r]) /\ req[r].step = step
  BY DEF RowInv, At, Unused, Done

(* What a request has written, and what it goes on with.                   *)
Wrote(q, row) == [q EXCEPT !.step = "after", !.after = row, !.data = <<>>, !.stale = FALSE]

LEMMA WroteIs ==
    ASSUME NEW q, IsRequest(q), q.step = "write", NEW row \in Listing
    PROVE  LET p == Wrote(q, row)
           IN  /\ IsRequest(p) /\ p.op = q.op /\ p.step = "after" /\ p.who = q.who
               /\ p.before = q.before /\ p.after = row /\ p.stale = FALSE
<1> PICK p : p = Wrote(q, row)
  OBVIOUS
<1>1. /\ p.op = q.op /\ p.step = "after" /\ p.who = q.who
      /\ p.before = q.before /\ p.after = row /\ p.stale = FALSE
      /\ p = [op |-> p.op, step |-> p.step, who |-> p.who, data |-> p.data,
              before |-> p.before, after |-> p.after, stale |-> p.stale]
  BY DEF IsRequest, Wrote
<1>2. Known(p.op, "after") /\ p.op \notin {"confirm", "takeOff", "backfill", "erase"}
  BY <1>1 DEF IsRequest, Known, Kinds
<1>3. IsRequest(p)
  BY <1>1, <1>2 DEF IsRequest
<1> QED
  BY <1>1, <1>3

LEMMA WriteIs ==
    ASSUME RowInv, NEW r \in Requests, Write(r)
    PROVE  /\ IsRequest(req[r]) /\ req[r].step = "write"
           /\ listing' \in Listing /\ listing' = Over(req[r].data, listing)
           /\ req' = Others(r, IF req[r].op = "park" THEN Done ELSE Wrote(req[r], listing'))
           /\ crossed' = (crossed \/ req[r].stale) /\ crossed' \in BOOLEAN
           /\ crossed' \/ (~req[r].stale /\ WritesSoundly(req[r].data, listing))
           /\ Writes(req[r].op, req[r].data, req[r].before)
           /\ owed' = (IsOnMap(listing') /\ (owed \/ ~IsOnMap(listing)))
           /\ UNCHANGED <<hidden, cacheVars, engaged, events, mix, lost, late>>
           /\ misread' = (misread \/ SawAnother(req[r]))
<1>1. IsRequest(req[r]) /\ req[r].step = "write" /\ req[r].stale \in BOOLEAN
  BY RequestIs DEF Write, IsRequest
<1>2. Fits(req[r].data) /\ Writes(req[r].op, req[r].data, req[r].before) /\ listing \in Listing
      /\ crossed \in BOOLEAN
  BY <1>1 DEF IsRequest, RowInv
<1>3. Over(req[r].data, listing) \in Listing
  BY <1>2, OverFits
<1>4. ~crossed /\ ~req[r].stale => WritesSoundly(req[r].data, listing)
  BY <1>1 DEF RowInv, IsFresh, Unwritten
<1> QED
  BY <1>1, <1>2, <1>3, <1>4 DEF Write, Changes, Wrote

LEMMA WriteKeepsRow ==
    ASSUME RowInv, NEW r \in Requests, Write(r)
    PROVE  RowInv' /\ DateStands
<1>1. /\ IsRequest(req[r]) /\ req[r].step = "write" /\ listing \in Listing
      /\ listing' \in Listing /\ listing' = Over(req[r].data, listing)
      /\ req' = Others(r, IF req[r].op = "park" THEN Done ELSE Wrote(req[r], listing'))
      /\ crossed' = (crossed \/ req[r].stale) /\ crossed' \in BOOLEAN
      /\ crossed' \/ WritesSoundly(req[r].data, listing)
      /\ Writes(req[r].op, req[r].data, req[r].before)
      /\ hidden' = hidden
  BY WriteIs DEF RowInv
<1> DEFINE q == IF req[r].op = "park" THEN Done ELSE Wrote(req[r], listing')
<1>2. q = Done \/ (IsRequest(q) /\ q.step = "after")
  <2>1. CASE req[r].op = "park"
    BY <2>1
  <2>2. CASE req[r].op # "park"
    <3>1. IsRequest(Wrote(req[r], listing')) /\ Wrote(req[r], listing').step = "after"
      BY <1>1, WroteIs
    <3> QED
      BY <2>2, <3>1
  <2> QED
    BY <2>1, <2>2
<1>3. ~crossed' => IsConsistent(listing')
  BY <1>1 DEF WritesSoundly
<1>4. listing'.status = "New" => listing'.date = None
  BY <1>1 DEF Writes, RowInv
<1>5. DateStands
  BY <1>1 DEF DateStands, WritesSoundly
<1>6. hidden' \in BOOLEAN /\ (crossed => crossed') /\ "after" \notin Unwritten
  BY <1>1 DEF RowInv, Unwritten
<1> HIDE DEF q
<1>7. req' = Others(r, q)
  BY <1>1 DEF q
<1> QED
  BY <1>1, <1>2, <1>3, <1>4, <1>5, <1>6, <1>7, RowChanges

(* A payment settles: the listing goes live.                               *)
LEMMA GoesLive ==
    ASSUME RowInv, NEW r \in Requests, NEW row, NEW q, IsRequest(q), q.step = "row",
           \/ row = [listing EXCEPT !.status = "Active"]
           \/ listing.date = None /\ row = [listing EXCEPT !.status = "Active", !.date = r],
           Changes(row, FALSE), req' = Others(r, q), hidden' = hidden
    PROVE  RowInv' /\ DateStands /\ listing' \in Listing /\ listing'.status = "Active"
           /\ listing'.place = listing.place /\ crossed' = crossed
<1>1. /\ row \in Listing /\ row.status = "Active" /\ row.place = listing.place
      /\ IsConsistent(row) <=> IsConsistent(listing)
      /\ row.date = listing.date \/ listing.date = None
  BY DEF Listing, IsConsistent, Fields, RowInv, Statuses
<1>2. /\ listing' = row /\ crossed' = crossed /\ crossed \in BOOLEAN /\ hidden \in BOOLEAN
      /\ ~crossed => IsConsistent(listing)
  BY DEF Changes, RowInv, RowIsConsistent
<1>3. "row" \notin Unwritten
  BY DEF Unwritten
<1>4. RowInv'
  BY <1>1, <1>2, <1>3, RowChanges
<1> QED
  BY <1>1, <1>2, <1>4 DEF DateStands

LEMMA SettleKeepsRow ==
    ASSUME RowInv, NEW r \in Requests, SettlePublish(r)
    PROVE  RowInv' /\ DateStands
<1>1. /\ Known("settle", "row") /\ Known("settle", "second") /\ Owner \in People
      /\ hidden' = hidden /\ hidden \in BOOLEAN /\ crossed \in BOOLEAN
  BY PricesAre DEF Known, SettlePublish, RowInv
<1>0. ASSUME NEW step \in {"row", "second"}
      PROVE  LET q == Asked("settle", step, Owner, <<>>)
             IN  IsRequest(q) /\ q.step = step /\ IsFresh(q, listing, crossed)
  <2>1. Known("settle", step) /\ step # "write"
    BY <1>1
  <2>2. /\ IsRequest(Asked("settle", step, Owner, <<>>))
        /\ IsFresh(Asked("settle", step, Owner, <<>>), listing, crossed)
    BY <1>1, <2>1, AskedIs
  <2>3. Asked("settle", step, Owner, <<>>).step = step
    BY DEF Asked
  <2> QED
    BY <2>2, <2>3
<1>2. CASE listing.status = "Pending" /\ listing.date = None
  <2> DEFINE q == Asked("settle", "row", Owner, <<>>)
             row == [listing EXCEPT !.status = "Active", !.date = r]
  <2>1. IsRequest(q) /\ q.step = "row"
    BY <1>0
  <2>2. Changes(row, FALSE) /\ req' = Others(r, q)
    BY <1>2 DEF SettlePublish
  <2> HIDE DEF q
  <2> QED
    BY <1>1, <1>2, <2>1, <2>2, GoesLive
<1>3. CASE ~(listing.status = "Pending" /\ listing.date = None)
  <2> DEFINE q == Asked("settle", "second", Owner, <<>>)
  <2>1. IsRequest(q) /\ IsFresh(q, listing, crossed)
    BY <1>0
  <2>2. req' = [req EXCEPT ![r] = q] /\ listing' = listing /\ crossed' = crossed
    BY <1>3 DEF SettlePublish
  <2> HIDE DEF q
  <2> QED
    BY <1>1, <2>1, <2>2, OneRequestChanges DEF DateStands
<1> QED
  BY <1>2, <1>3

LEMMA GoLiveKeepsRow ==
    ASSUME RowInv, NEW r \in Requests, GoLive(r)
    PROVE  RowInv' /\ DateStands
<1>1. /\ IsRequest(req[r]) /\ req[r].step = "second" /\ req[r].op = "settle"
      /\ hidden' = hidden /\ hidden \in BOOLEAN /\ crossed \in BOOLEAN
  BY RequestIs DEF GoLive, IsRequest, Known, RowInv
<1>2. CASE listing.status = "Pending"
  <2> DEFINE q == [req[r] EXCEPT !.step = "row"]
             row == [listing EXCEPT !.status = "Active"]
  <2>1. IsRequest(q) /\ q.step = "row"
    BY <1>1, StepOn DEF Known
  <2>2. Changes(row, FALSE) /\ req' = Others(r, q)
    BY <1>2 DEF GoLive
  <2> HIDE DEF q
  <2> QED
    BY <1>1, <2>1, <2>2, GoesLive
<1>3. CASE listing.status # "Pending"
  <2>1. req' = [req EXCEPT ![r] = Done] /\ listing' = listing /\ crossed' = crossed
    BY <1>3 DEF GoLive
  <2>2. IsFresh(Done, listing, crossed)
    BY DEF IsFresh, Done, Unwritten
  <2> QED
    BY <1>1, <2>1, <2>2, OneRequestChanges DEF DateStands
<1> QED
  BY <1>2, <1>3

LEMMA ReleaseKeepsRow ==
    ASSUME RowInv, NEW r \in Requests, ReleasePending(r)
    PROVE  /\ RowInv' /\ DateStands
           /\ listing.status = "Pending" /\ listing' \in Listing /\ listing'.status \in {"Draft", "Expired"}
           /\ listing'.place = listing.place /\ crossed' = crossed
<1>1. PICK status \in {"Draft", "Expired"} : Changes([listing EXCEPT !.status = status], FALSE)
  BY DEF ReleasePending
<1> DEFINE row == [listing EXCEPT !.status = status]
<1>2. /\ row \in Listing /\ row.status = status /\ row.place = listing.place /\ row.date = listing.date
      /\ IsConsistent(row) <=> IsConsistent(listing)
  BY DEF Listing, IsConsistent, Fields, RowInv, Statuses
<1>3. /\ listing' = row /\ crossed' = crossed /\ crossed \in BOOLEAN /\ hidden \in BOOLEAN
      /\ hidden' = hidden /\ (~crossed => IsConsistent(listing))
  BY <1>1 DEF Changes, RowInv, RowIsConsistent, ReleasePending
<1>4. req' = Others(r, Done) /\ listing.status = "Pending"
  BY DEF ReleasePending
<1> HIDE DEF row
<1>5. RowInv'
  BY <1>2, <1>3, <1>4, RowChanges
<1> QED
  BY <1>2, <1>3, <1>4, <1>5 DEF DateStands

(* A request is made, or goes on, and the row is left as it is.            *)
LEMMA RequestKeepsRow ==
    ASSUME RowInv, NEW r \in Requests, NEW q, req' = [req EXCEPT ![r] = q],
           q \in {Unused, Done} \/ (IsRequest(q) /\ (q.step \notin Unwritten \/ IsFresh(q, listing, crossed))),
           hidden' \in BOOLEAN, UNCHANGED <<listing, crossed>>
    PROVE  RowInv' /\ DateStands
<1>1. /\ IsFresh(q, listing', crossed') /\ listing' = listing /\ crossed' = crossed /\ crossed \in BOOLEAN
      /\ q \in {Unused, Done} \/ IsRequest(q)
  BY DEF IsFresh, Unused, Done, Unwritten, RowInv
<1>2. crossed' \in BOOLEAN /\ (crossed => crossed')
  BY <1>1
<1>3. listing' = listing \/ \E t \in Requests : listing' = [listing EXCEPT !.text = t]
  BY <1>1
<1>4. RowInv'
  BY Zenon, <1>1, <1>2, <1>3, OneRequestChanges
<1> QED
  BY <1>1, <1>4 DEF DateStands

LEMMA StillFresh ==
    ASSUME RowInv, NEW r \in Requests, IsRequest(req[r]), req[r].step \in Unwritten,
           NEW q, q.step # "write", q.before = req[r].before, q.stale = req[r].stale
    PROVE  IsFresh(q, listing, crossed)
  BY DEF RowInv, IsFresh

LEMMA OthersKeepRow ==
    ASSUME RowInv, NEW r \in Requests,
           \/ VisibilityChanged(r) \/ ReadRow(r) \/ Announce(r) \/ Insert(r)
           \/ \E who \in People, kind \in Kinds : VisibleOwnerId(r, who, kind)
    PROVE  RowInv' /\ DateStands
<1>0. hidden \in BOOLEAN /\ listing \in Listing /\ Owner \in People
  BY PricesAre DEF RowInv
<1>1. CASE VisibilityChanged(r)
  <2>1. IsRequest(Asked("account", "row", Owner, <<>>)) /\ Asked("account", "row", Owner, <<>>).step = "row"
    <3>1. IsRequest(Asked("account", "row", Owner, <<>>))
      BY <1>0, AskedIs DEF Known
    <3> QED
      BY <3>1 DEF Asked
  <2>2. /\ req' = [req EXCEPT ![r] = Asked("account", "row", Owner, <<>>)]
        /\ hidden' \in BOOLEAN /\ UNCHANGED <<listing, crossed>>
    BY <1>0, <1>1 DEF VisibilityChanged, history
  <2> QED
    BY <2>1, <2>2, RequestKeepsRow DEF Unwritten
<1>2. CASE ReadRow(r)
  <2>1. IsRequest(req[r]) /\ req[r].step = "row" /\ req[r].op \in {"account", "settle"}
    BY <1>2, RequestIs DEF ReadRow, IsRequest, Known, Kinds
  <2> PICK q : q = [req[r] EXCEPT !.step = "after", !.before = listing, !.after = listing]
    OBVIOUS
  <2>2. /\ q.op = req[r].op /\ q.step = "after" /\ q.who = req[r].who
        /\ q.before = listing /\ q.after = listing /\ q.stale = req[r].stale
        /\ q = [op |-> q.op, step |-> q.step, who |-> q.who, data |-> q.data,
                before |-> q.before, after |-> q.after, stale |-> q.stale]
    BY <2>1 DEF IsRequest
  <2>3. Known(q.op, "after") /\ q.op \notin {"confirm", "takeOff", "backfill", "erase"}
    BY <2>1, <2>2 DEF Known
  <2>4. IsRequest(q)
    BY <1>0, <2>1, <2>2, <2>3 DEF IsRequest
  <2>5. /\ req' = [req EXCEPT ![r] = q] \/ req' = [req EXCEPT ![r] = Done]
        /\ hidden' \in BOOLEAN /\ UNCHANGED <<listing, crossed>>
    BY <1>0, <1>2 DEF ReadRow, history
  <2> QED
    BY <2>2, <2>4, <2>5, RequestKeepsRow DEF Unwritten
<1>3. CASE Announce(r)
  <2>1. IsRequest(req[r]) /\ req[r].step = "after"
    BY <1>3, RequestIs DEF Announce
  <2>2. /\ hidden' \in BOOLEAN /\ UNCHANGED <<listing, crossed>>
        /\ req' = [req EXCEPT ![r] = IF req[r].op = "takeOff" THEN [req[r] EXCEPT !.step = "still"] ELSE Done]
    BY <1>0, <1>3 DEF Announce
  <2>3. CASE req[r].op = "takeOff"
    <3>1. /\ IsRequest([req[r] EXCEPT !.step = "still"])
          /\ [req[r] EXCEPT !.step = "still"].step = "still"
      BY <2>1, <2>3, StepOn DEF Known
    <3> QED
      BY <2>2, <2>3, <3>1, RequestKeepsRow DEF Unwritten
  <2>4. CASE req[r].op # "takeOff"
    BY <2>2, <2>4, RequestKeepsRow
  <2> QED
    BY <2>3, <2>4
<1>4. CASE Insert(r)
  BY <1>0, <1>4, RequestKeepsRow DEF Insert, history
<1>5. ASSUME NEW who \in People, NEW kind \in Kinds, VisibleOwnerId(r, who, kind)
      PROVE  RowInv' /\ DateStands
  <2>1. IsRequest(Asked(kind, "engage", who, <<>>)) /\ Asked(kind, "engage", who, <<>>).step = "engage"
    <3>1. kind \notin {"confirm", "takeOff", "backfill", "erase"} /\ Known(kind, "engage")
      BY DEF Known, Kinds
    <3>2. IsRequest(Asked(kind, "engage", who, <<>>))
      BY <3>1, AskedIs
    <3> QED
      BY <3>2 DEF Asked
  <2>2. /\ req' = [req EXCEPT ![r] = Asked(kind, "engage", who, <<>>)]
        /\ hidden' \in BOOLEAN /\ UNCHANGED <<listing, crossed>>
    BY <1>0, <1>5 DEF VisibleOwnerId, history
  <2> QED
    BY <2>1, <2>2, RequestKeepsRow DEF Unwritten
<1> QED
  BY <1>1, <1>2, <1>3, <1>4, <1>5

LEMMA BeginKeepsRow ==
    ASSUME RowInv, NEW r \in Requests, NEW op, NEW data, Begins(r, op, data)
    PROVE  RowInv' /\ DateStands
<1>1. /\ IsRequest(Asked(op, "write", Owner, data))
      /\ IsFresh(Asked(op, "write", Owner, data), listing, crossed)
  <2>1. op \notin {"confirm", "takeOff", "backfill", "erase"}
    BY DEF Begins, Known, Kinds
  <2> QED
    BY <2>1, PricesAre, AskedIs DEF Begins
<1> QED
  BY <1>1, RequestKeepsRow DEF Begins, history, RowInv

-----------------------------------------------------------------------------
(* Photos, as far as the row goes.                                         *)

(* A photo appears or goes: the public sees another listing.               *)
Showing(q) == [q EXCEPT !.step = "after", !.stale = FALSE]

LEMMA ShowingIs ==
    ASSUME NEW q, IsRequest(q), q.op \in {"confirm", "takeOff"}
    PROVE  LET p == Showing(q)
           IN  /\ IsRequest(p) /\ p.op = q.op /\ p.step = "after" /\ p.who = q.who /\ p.data = q.data
               /\ p.before = q.before /\ p.after = q.after /\ p.stale = FALSE
<1> PICK p : p = Showing(q)
  OBVIOUS
<1>1. /\ p.op = q.op /\ p.step = "after" /\ p.who = q.who /\ p.data = q.data
      /\ p.before = q.before /\ p.after = q.after /\ p.stale = FALSE
      /\ p = [op |-> p.op, step |-> p.step, who |-> p.who, data |-> p.data,
              before |-> p.before, after |-> p.after, stale |-> p.stale]
  BY DEF IsRequest, Showing
<1>2. Known(p.op, "after")
  BY <1>1 DEF Known
<1>3. IsRequest(p)
  BY <1>1, <1>2 DEF IsRequest
<1> QED
  BY <1>1, <1>3

LEMMA ShowsOtherIs ==
    ASSUME RowInv, NEW r \in Requests, IsRequest(req[r]), req[r].op \in {"confirm", "takeOff"},
           NEW next, next = Done \/ (IsRequest(next) /\ next.step = "still"), ShowsOther(r, next)
    PROVE  /\ listing' = [listing EXCEPT !.text = r] /\ listing' \in Listing
           /\ listing'.status = listing.status /\ listing'.place = listing.place
           /\ crossed' = (crossed \/ req[r].stale) /\ crossed' \in BOOLEAN
           /\ req' = [req EXCEPT ![r] = IF req[r].before.status # "Active" THEN next
                                        ELSE Showing(req[r])]
           /\ IsRequest(Showing(req[r])) /\ Showing(req[r]).step = "after"
           /\ misread' = (misread \/ SawAnother(req[r]))
<1>1. /\ listing' = [listing EXCEPT !.text = r] /\ listing \in Listing
      /\ misread' = (misread \/ SawAnother(req[r]))
      /\ crossed' = (crossed \/ req[r].stale) /\ crossed \in BOOLEAN /\ req[r].stale \in BOOLEAN
      /\ req' = [req EXCEPT ![r] = IF req[r].before.status # "Active" THEN next
                                   ELSE Showing(req[r])]
  BY DEF ShowsOther, Showing, RowInv, IsRequest
<1>2. listing' \in Listing /\ listing'.status = listing.status /\ listing'.place = listing.place
  BY <1>1, TextAside
<1>3. IsRequest(Showing(req[r])) /\ Showing(req[r]).step = "after"
  BY <1>2, ShowingIs
<1> QED
  BY <1>1, <1>2, <1>3

LEMMA ShowingKeepsRow ==
    ASSUME RowInv, NEW r \in Requests, IsRequest(req[r]), req[r].op \in {"confirm", "takeOff"},
           NEW next, next = Done \/ (IsRequest(next) /\ next.step = "still"), ShowsOther(r, next),
           hidden' = hidden
    PROVE  RowInv' /\ DateStands
<1> DEFINE q == IF req[r].before.status # "Active" THEN next ELSE Showing(req[r])
<1>1. /\ listing' = [listing EXCEPT !.text = r] /\ listing \in Listing
      /\ crossed' = (crossed \/ req[r].stale) /\ crossed' \in BOOLEAN /\ hidden' \in BOOLEAN
      /\ req' = [req EXCEPT ![r] = q]
      /\ IsRequest(Showing(req[r])) /\ Showing(req[r]).step = "after"
  BY ShowsOtherIs DEF RowInv
<1>2. q = Done \/ (IsRequest(q) /\ q.step \in {"still", "after"})
  <2>1. CASE req[r].before.status # "Active"
    BY <2>1
  <2>2. CASE ~(req[r].before.status # "Active")
    BY <1>1, <2>2
  <2> QED
    BY <2>1, <2>2
<1> HIDE DEF q
<1>3. IsFresh(q, listing', crossed')
  BY <1>2 DEF IsFresh, Unwritten, Done
<1>4. RowInv' /\ listing'.date = listing.date
  BY <1>1, <1>2, <1>3, OneRequestChanges
<1> QED
  BY <1>4 DEF DateStands

(* A request about a file, as it is made.                                  *)
LEMMA PhotoAskedIs ==
    ASSUME RowInv, NEW r \in Requests, NEW op \in {"confirm", "takeOff", "backfill"}, NEW step,
           Known(op, step), NEW shelf \in Shelves, NEW f \in Files
    PROVE  LET q == Asked(op, step, Owner, [shelf |-> shelf, file |-> f, small |-> FALSE])
           IN  /\ PhotoAsked(r, op, step, shelf, f) = [req EXCEPT ![r] = q]
               /\ IsRequest(q) /\ IsFresh(q, listing, crossed)
               /\ q.op = op /\ q.step = step /\ q.data = [shelf |-> shelf, file |-> f, small |-> FALSE]
               /\ q.before = listing /\ q.after = listing
<1> DEFINE d == [shelf |-> shelf, file |-> f, small |-> FALSE]
<1>1. d \in OnFile /\ step # "write" /\ Owner \in People
  BY PricesAre DEF OnFile, Known, Kinds
<1>2. PhotoAsked(r, op, step, shelf, f) = [req EXCEPT ![r] = Asked(op, step, Owner, d)]
  BY DEF PhotoAsked
<1> HIDE DEF d
<1>3. op # "erase"
  OBVIOUS
<1>4. IsRequest(Asked(op, step, Owner, d)) /\ IsFresh(Asked(op, step, Owner, d), listing, crossed)
  BY <1>1, <1>3, AskedIs
<1>5. LET q == Asked(op, step, Owner, d)
      IN  q.op = op /\ q.step = step /\ q.data = d /\ q.before = listing /\ q.after = listing
  BY DEF Asked
<1> QED
  BY <1>2, <1>4, <1>5 DEF d

(* The thumbnail is made.                                                  *)
Made(q) == [q EXCEPT !.step = "insert", !.data.small = TRUE]

LEMMA MadeIs ==
    ASSUME NEW q, IsRequest(q), q.step = "thumb"
    PROVE  LET p == Made(q)
           IN  /\ IsRequest(p) /\ p.op = q.op /\ p.step = "insert" /\ p.who = q.who
               /\ p.data = [shelf |-> q.data.shelf, file |-> q.data.file, small |-> TRUE]
               /\ p.before = q.before /\ p.after = q.after /\ p.stale = q.stale
<1> PICK p : p = Made(q)
  OBVIOUS
<1>1. q.op \in {"confirm", "backfill"} /\ q.data \in OnFile
  BY DEF IsRequest, Known, Kinds
<1>2. /\ p.op = q.op /\ p.step = "insert" /\ p.who = q.who
      /\ p.data = [q.data EXCEPT !.small = TRUE]
      /\ p.before = q.before /\ p.after = q.after /\ p.stale = q.stale
      /\ p = [op |-> p.op, step |-> p.step, who |-> p.who, data |-> p.data,
              before |-> p.before, after |-> p.after, stale |-> p.stale]
  BY DEF IsRequest, Made
<1>3. p.data = [shelf |-> q.data.shelf, file |-> q.data.file, small |-> TRUE]
  BY <1>1, <1>2 DEF OnFile
<1>4. p.data \in OnFile /\ Known(p.op, "insert")
  BY <1>1, <1>2, <1>3 DEF OnFile, Known
<1>5. IsRequest(p)
  BY <1>1, <1>2, <1>4 DEF IsRequest
<1> QED
  BY <1>2, <1>3, <1>5

(* Those of its files that nobody else shows.                              *)
Kept(q, theirs) == [q EXCEPT !.step = "erase", !.data.gone = {f \in q.data.gone : theirs[f] = 0}]

LEMMA KeptIs ==
    ASSUME NEW q, IsRequest(q), q.step = "shared", NEW theirs
    PROVE  LET p == Kept(q, theirs)
           IN  /\ IsRequest(p) /\ p.op = "erase" /\ p.step = "erase" /\ p.who = q.who
               /\ p.data \in OnFiles
               /\ \A f \in Files : f \in p.data.gone <=> f \in q.data.gone /\ theirs[f] = 0
               /\ p.before = q.before /\ p.after = q.after /\ p.stale = q.stale
<1> DEFINE alone == {f \in q.data.gone : theirs[f] = 0}
<1> PICK p : p = Kept(q, theirs)
  OBVIOUS
<1>1. q.op = "erase" /\ q.data \in OnFiles
  BY DEF IsRequest, Known, Kinds
<1>2. /\ p.op = q.op /\ p.step = "erase" /\ p.who = q.who
      /\ p.data = [q.data EXCEPT !.gone = alone]
      /\ p.before = q.before /\ p.after = q.after /\ p.stale = q.stale
      /\ p = [op |-> p.op, step |-> p.step, who |-> p.who, data |-> p.data,
              before |-> p.before, after |-> p.after, stale |-> p.stale]
  BY DEF IsRequest, Kept
<1>3. p.data = [file |-> None, gone |-> alone]
  BY <1>1, <1>2 DEF OnFiles
<1>4. p.data \in OnFiles /\ Known(p.op, "erase")
  BY <1>1, <1>2, <1>3 DEF OnFiles, Known
<1>5. IsRequest(p)
  BY <1>1, <1>2, <1>4 DEF IsRequest
<1> QED
  BY <1>1, <1>2, <1>3, <1>4, <1>5

LEMMA PhotosKeepRow ==
    ASSUME RowInv, NEW r \in Requests,
           \/ TryCreate(r) \/ InsertRows(r) \/ DeleteRows(r) \/ FindStillShown(r)
           \/ DeleteFilesQuietly(r) \/ FindOwnImages(r) \/ FindShared(r) \/ RemoveAllOwnedBy(r)
           \/ UpdateRows(r)
           \/ \E f \in Files : \/ ConfirmUploads(r, f) \/ Backfill(r, f)
                               \/ \E s \in Shelves : RemoveImages(r, s, f)
    PROVE  RowInv' /\ DateStands
<1>0. hidden \in BOOLEAN /\ listing \in Listing /\ Owner \in People
  BY PricesAre DEF RowInv
<1>1. ASSUME NEW f \in Files, NEW s \in Shelves,
             ConfirmUploads(r, f) \/ Backfill(r, f) \/ RemoveImages(r, s, f)
      PROVE  RowInv' /\ DateStands
  <2>1. Known("confirm", "thumb") /\ Known("backfill", "thumb") /\ Known("takeOff", "takeOff")
        /\ "mine" \in Shelves
    BY DEF Known, Shelves
  <2>2. /\ UNCHANGED <<listing, hidden, crossed>>
        /\ \/ req' = PhotoAsked(r, "confirm", "thumb", "mine", f)
           \/ req' = PhotoAsked(r, "backfill", "thumb", "mine", f)
           \/ req' = PhotoAsked(r, "takeOff", "takeOff", s, f)
    BY <1>1 DEF ConfirmUploads, Backfill, RemoveImages, Unphotographed
  <2>3. PICK op \in {"confirm", "takeOff", "backfill"}, step \in {"thumb", "takeOff"}, t \in Shelves :
          Known(op, step) /\ req' = PhotoAsked(r, op, step, t, f)
    BY <2>1, <2>2
  <2> DEFINE q == Asked(op, step, Owner, [shelf |-> t, file |-> f, small |-> FALSE])
  <2>4. req' = [req EXCEPT ![r] = q] /\ IsRequest(q) /\ IsFresh(q, listing, crossed)
    BY <2>3, PhotoAskedIs
  <2> HIDE DEF q
  <2> QED
    BY <1>0, <2>2, <2>4, RequestKeepsRow
<1>2. CASE TryCreate(r)
  <2>1. IsRequest(req[r]) /\ req[r].step = "thumb" /\ req[r].op \in {"confirm", "backfill"}
    BY <1>2, RequestIs DEF TryCreate, IsRequest, Known, Kinds
  <2>2. /\ IsRequest(Made(req[r])) /\ IsFresh(Made(req[r]), listing, crossed)
    BY <2>1, MadeIs, StillFresh DEF Unwritten
  <2>3. req[r].op = "confirm" =>
          IsRequest([req[r] EXCEPT !.step = "insert"]) /\ IsFresh([req[r] EXCEPT !.step = "insert"], listing, crossed)
    BY <2>1, StepOn, StillFresh DEF Unwritten, Known
  <2>4. /\ UNCHANGED <<listing, hidden, crossed>>
        /\ \/ req' = [req EXCEPT ![r] = Made(req[r])]
           \/ req' = [req EXCEPT ![r] = Done]
           \/ req[r].op = "confirm" /\ req' = [req EXCEPT ![r] = [req[r] EXCEPT !.step = "insert"]]
    BY <1>2, <2>1 DEF TryCreate, Made, Unphotographed
  <2> QED
    BY <1>0, <2>2, <2>3, <2>4, RequestKeepsRow
<1>3. CASE InsertRows(r)
  <2>1. IsRequest(req[r]) /\ req[r].op = "confirm" /\ ShowsOther(r, Done) /\ hidden' = hidden
    BY <1>3, RequestIs DEF InsertRows, Unphotographed
  <2> QED
    BY <2>1, ShowingKeepsRow
<1>4. CASE DeleteRows(r)
  <2> DEFINE still == [req[r] EXCEPT !.step = "still"]
  <2>1. IsRequest(req[r]) /\ req[r].step = "takeOff" /\ req[r].op = "takeOff"
    BY <1>4, RequestIs DEF DeleteRows, IsRequest, Known, Kinds
  <2>2. IsRequest(still) /\ still.step = "still" /\ "still" \notin Unwritten
    BY <2>1, StepOn DEF Known, Unwritten
  <2>3. /\ hidden' = hidden
        /\ \/ ShowsOther(r, still)
           \/ req' = [req EXCEPT ![r] = still] /\ UNCHANGED <<listing, crossed>>
    BY <1>4 DEF DeleteRows, Unphotographed
  <2> HIDE DEF still
  <2> QED
    BY <1>0, <2>1, <2>2, <2>3, ShowingKeepsRow, RequestKeepsRow
<1>5. CASE FindStillShown(r)
  <2>1. IsRequest(req[r]) /\ req[r].step = "still" /\ req[r].op = "takeOff"
    BY <1>5, RequestIs DEF FindStillShown, IsRequest, Known, Kinds
  <2>2. IsRequest([req[r] EXCEPT !.step = "files"]) /\ [req[r] EXCEPT !.step = "files"].step = "files"
    BY <2>1, StepOn DEF Known
  <2>3. /\ UNCHANGED <<listing, hidden, crossed>>
        /\ \/ req' = [req EXCEPT ![r] = [req[r] EXCEPT !.step = "files"]]
           \/ req' = [req EXCEPT ![r] = Done]
    BY <1>5 DEF FindStillShown, Unphotographed
  <2> QED
    BY <1>0, <2>2, <2>3, RequestKeepsRow DEF Unwritten
<1>6. CASE DeleteFilesQuietly(r) \/ RemoveAllOwnedBy(r) \/ UpdateRows(r)
  <2>1. req' = [req EXCEPT ![r] = Done] /\ UNCHANGED <<listing, hidden, crossed>>
    BY <1>6 DEF DeleteFilesQuietly, RemoveAllOwnedBy, UpdateRows, Unphotographed
  <2> QED
    BY <1>0, <2>1, RequestKeepsRow
<1>7. CASE FindOwnImages(r)
  <2> DEFINE q == Asked("erase", "shared", Owner, [file |-> None, gone |-> Mine])
  <2>1. Known("erase", "shared")
    BY DEF Known
  <2>2. IsRequest(q) /\ IsFresh(q, listing, crossed)
    <3> DEFINE d == [file |-> None, gone |-> Mine]
    <3>1. d \in OnFiles
      BY DEF OnFiles, Mine
    <3> HIDE DEF d
    <3>2. LET p == Asked("erase", "shared", Owner, d) IN IsRequest(p) /\ IsFresh(p, listing, crossed)
      BY <1>0, <2>1, <3>1, AskedIs
    <3> QED
      BY <3>2 DEF d
  <2>3. req' = [req EXCEPT ![r] = q] /\ UNCHANGED <<listing, hidden, crossed>>
    BY <1>7 DEF FindOwnImages, Unphotographed
  <2> HIDE DEF q
  <2> QED
    BY <1>0, <2>2, <2>3, RequestKeepsRow
<1>8. CASE FindShared(r)
  <2>1. IsRequest(req[r]) /\ req[r].step = "shared"
    BY <1>8, RequestIs DEF FindShared
  <2>2. IsRequest(Kept(req[r], rows["theirs"])) /\ Kept(req[r], rows["theirs"]).step = "erase"
    BY <2>1, KeptIs
  <2>3. req' = [req EXCEPT ![r] = Kept(req[r], rows["theirs"])] /\ UNCHANGED <<listing, hidden, crossed>>
    <3>1. req' = [req EXCEPT ![r] = Kept(req[r], rows["theirs"])]
      BY <1>8 DEF FindShared, Kept
    <3> QED
      BY <1>8, <3>1 DEF FindShared, Unphotographed
  <2> QED
    BY <1>0, <2>2, <2>3, RequestKeepsRow DEF Unwritten
<1> QED
  BY <1>1, <1>2, <1>3, <1>4, <1>5, <1>6, <1>7, <1>8 DEF Shelves

(* Readers, those who take a like back, an upload and the listeners leave  *)
(* the row and the requests alone.                                         *)
Reads(d) == Miss(d) \/ Load(d) \/ Store(d)

Listens(e) ==
    \/ ClaimFollowers(e) \/ TellFollowers(e)
    \/ ReadListing(e) \/ MatchingSearches(e) \/ ClaimNew(e) \/ PushMatches(e)
    \/ ClaimDrop(e) \/ TellSavers(e) \/ Breaks(e)

Saves(s) == CountSearches(s) \/ SaveSearch(s) \/ SwitchAlerts(s) \/ RemoveSearch(s)

LEMMA ListenersAreQuiet ==
    ASSUME AlertsNext
    PROVE  UNCHANGED <<listing, hidden, crossed, req>>
<1>1. ASSUME NEW e \in events, Listens(e)
      PROVE  UNCHANGED <<listing, hidden, crossed, req>>
  <2>1. UNCHANGED Unlistened
    BY Zenon, <1>1 DEF Listens, ClaimFollowers, TellFollowers, ReadListing, MatchingSearches,
                       ClaimNew, PushMatches, ClaimDrop, TellSavers, Breaks
  <2> QED
    BY <2>1 DEF Unlistened, history
<1>2. ASSUME NEW s \in Searches, Saves(s)
      PROVE  UNCHANGED <<listing, hidden, crossed, req>>
  BY <1>2 DEF Saves, CountSearches, SaveSearch, SwitchAlerts, RemoveSearch, Unlistened, history
<1>3. CASE DayPasses
  BY <1>3 DEF DayPasses, Unlistened, history
<1> QED
  BY <1>1, <1>2, <1>3 DEF AlertsNext, Listens, Saves

LEMMA QuietKeepsRow ==
    ASSUME RowInv, UNCHANGED <<listing, hidden, crossed, req>>
    PROVE  RowInv' /\ DateStands
  BY DEF RowInv, RowIsConsistent, DateStands

LEMMA RowStarts ==
    ASSUME Init
    PROVE  RowInv
<1>1. /\ listing \in Listing /\ IsConsistent(listing) /\ (listing.status = "New" => listing.date = None)
      /\ hidden = FALSE /\ crossed = FALSE /\ req = [r \in Requests |-> Unused]
  BY ListingsAssumption DEF Init, ListingsInit
<1>2. \A r \in Requests : IsFresh(req[r], listing, crossed)
  BY <1>1 DEF IsFresh, Unused, Unwritten
<1> QED
  BY <1>1, <1>2 DEF RowInv, RowIsConsistent

LEMMA RowStep ==
    ASSUME RowInv, [Next]_vars
    PROVE  RowInv' /\ DateStands
<1>1. ASSUME NEW r \in Requests, Create(r) \/ Update(r) \/ Move(r) \/ SetStatus(r) \/ BeginPublish(r)
      PROVE  RowInv' /\ DateStands
  BY <1>1, TheyBegin, BeginKeepsRow
<1>2. ASSUME NEW d \in Readers, Reads(d)
      PROVE  RowInv' /\ DateStands
  <2>1. UNCHANGED <<listing, hidden, crossed, req>>
    BY <1>2 DEF Reads, Miss, Load, Store, history
  <2> QED
    BY <2>1, QuietKeepsRow
<1>3. ASSUME NEW who \in People, NEW kind \in Kinds, TakeBack(who, kind)
      PROVE  RowInv' /\ DateStands
  <2>1. UNCHANGED <<listing, hidden, crossed, req>>
    BY <1>3 DEF TakeBack, history
  <2> QED
    BY <2>1, QuietKeepsRow
<1>4. ASSUME ListingsNext
      PROVE  RowInv' /\ DateStands
  BY <1>1, <1>2, <1>3, <1>4, WriteKeepsRow, SettleKeepsRow, GoLiveKeepsRow, ReleaseKeepsRow,
     OthersKeepRow DEF ListingsNext, Reads
<1>5. ASSUME PhotosNext
      PROVE  RowInv' /\ DateStands
  <2>1. ASSUME NEW f \in Files, Upload(f)
        PROVE  RowInv' /\ DateStands
    <3>1. UNCHANGED <<listing, hidden, crossed, req>>
      BY <2>1 DEF Upload, listingVars, history
    <3> QED
      BY <3>1, QuietKeepsRow
  <2> QED
    BY <1>5, <2>1, PhotosKeepRow DEF PhotosNext
<1>6. ASSUME AlertsNext \/ UNCHANGED vars
      PROVE  RowInv' /\ DateStands
  <2>1. UNCHANGED <<listing, hidden, crossed, req>>
    BY <1>6, ListenersAreQuiet DEF vars, listingVars, history
  <2> QED
    BY <2>1, QuietKeepsRow
<1> QED
  BY <1>4, <1>5, <1>6 DEF Next

LEMMA RowAlways == Spec => []RowInv
<1>1. Init => RowInv
  BY RowStarts
<1>2. RowInv /\ [Next]_vars => RowInv'
  BY RowStep
<1> QED
  BY <1>1, <1>2, PTL DEF Spec

(* What a listing says of itself is right after every step: its date       *)
(* stands while it is on the market, a marked drop is one, and it has no   *)
(* details of another type (published-at.ts, priceDropColumns,             *)
(* clearedFieldsFor), if no request wrote over another.                    *)
THEOREM ListingIsSound == Spec => ListingStaysSound
<1>1. RowInv /\ [Next]_vars => [RowIsConsistent' /\ DateStands]_listingVars
  <2> SUFFICES ASSUME RowInv, [Next]_vars
               PROVE  RowIsConsistent' /\ DateStands
    OBVIOUS
  <2> QED
    BY RowStep DEF RowInv
<1> QED
  BY <1>1, RowAlways, PTL DEF Spec, ListingStaysSound

-----------------------------------------------------------------------------
(* Who is told, and how often.                                             *)

(* What an event is at each step.                                          *)
EventsAreSound ==
    \A e \in events :
      /\ e.about \in IF e.to = "savers" THEN {"drop", "sold"} ELSE {"new"}
      /\ \A s \in e.hits : search[s].user # Owner
      /\ e.step = "push" => e.to = "searches" /\ e.hits \subseteq matched

(* One event at most goes on to the followers, of whom nobody was told.    *)
IsTelling(e) == e.to = "followers" /\ e.step = "tell"

FollowersCounted ==
    /\ \A e \in events : IsTelling(e) =>
         /\ followed /\ \A u \in People : told["new"][u] = 0
         /\ \A f \in events : IsTelling(f) => f = e
    /\ ~followed => \A u \in People : told["new"][u] = 0
    /\ FollowersToldOnce

(* Each push is of other searches, and stands for a search of that person. *)
PushedTo == {s \in matched : \A e \in events : e.step = "push" => s \notin e.hits}
PushedToOf(u) == {s \in PushedTo : search[s].user = u}

SearchesCounted ==
    /\ \A e, f \in events : e.step = "push" /\ f.step = "push" /\ e # f => e.hits \cap f.hits = {}
    /\ \A u \in People : told["match"][u] <= Cardinality(PushedToOf(u))

DropsCounted == drops \in {0, 1} /\ (~dropRecent => drops = 0)

AlertInv ==
    AlertsTypeOK /\ EventsAreSound /\ FollowersCounted /\ SearchesCounted /\ DropsCounted
      /\ OwnerIsNeverTold

LEMMA Cardinalities ==
    ASSUME NEW S \in SUBSET Searches
    PROVE  /\ IsFiniteSet(S) /\ Cardinality(S) \in Nat
           /\ \A T \in SUBSET S : Cardinality(T) <= Cardinality(S)
           /\ \A T \in SUBSET S : T # S => Cardinality(T) + 1 <= Cardinality(S)
<1>1. IsFiniteSet(Searches)
  BY Zenon, AlertsAssumption
<1>2. IsFiniteSet(S) /\ Cardinality(S) \in Nat
  BY <1>1, FS_Subset, FS_CardinalityType
<1>3. ASSUME NEW T \in SUBSET S
      PROVE  Cardinality(T) <= Cardinality(S) /\ (T # S => Cardinality(T) + 1 <= Cardinality(S))
  <2>1. /\ IsFiniteSet(T) /\ Cardinality(T) \in Nat
        /\ Cardinality(T) <= Cardinality(S) /\ (Cardinality(S) = Cardinality(T) => S = T)
    BY <1>2, FS_Subset, FS_CardinalityType
  <2> QED
    BY <1>2, <2>1
<1> QED
  BY <1>2, <1>3

(* Pushes that are sent.                                                   *)
SentTo(about, sent) ==
    /\ told' \in [About -> [People -> Nat]]
    /\ \A a \in About \ {about} : told'[a] = told[a]
    /\ \A u \in People : told'[about][u] = told[about][u] + IF u \in sent THEN 1 ELSE 0

LEMMA PushIs ==
    ASSUME told \in [About -> [People -> Nat]], NEW about \in About, NEW users, Push(about, users)
    PROVE  \E sent \in SUBSET users : SentTo(about, sent) /\ failed' = (failed \/ sent # users)
<1>1. PICK sent \in SUBSET users :
        /\ told' = [told EXCEPT ![about] = [u \in People |-> told[about][u] + IF u \in sent THEN 1 ELSE 0]]
        /\ failed' = (failed \/ sent # users)
  BY DEF Push
<1>2. [u \in People |-> told[about][u] + IF u \in sent THEN 1 ELSE 0] \in [People -> Nat]
  OBVIOUS
<1> QED
  BY <1>1, <1>2 DEF SentTo

(* An event that goes on, with what it read or found.                      *)
GoneOn(e, step) == [e EXCEPT !.step = step]
HasRead(e, row) == [e EXCEPT !.step = "match", !.row = row]
HasFound(e, hits) == [e EXCEPT !.step = "claim", !.row = None, !.hits = hits]
HasClaimed(e, hits) == [e EXCEPT !.step = "push", !.hits = hits]

LEMMA GoesOn ==
    ASSUME NEW e \in Happening, NEW step \in {"tell", "match", "claim", "push"}, NEW g,
           NEW row \in Listing \cup {None}, NEW hits \in SUBSET Searches,
           g.to = e.to, g.about = e.about, g.by = e.by, g.step = step, g.row = row, g.hits = hits,
           g = [to |-> g.to, about |-> g.about, by |-> g.by, step |-> g.step, row |-> g.row, hits |-> g.hits]
    PROVE  g \in Happening
<1>1. /\ e.to \in {"followers", "searches", "savers"} /\ e.about \in About /\ e.by \in Requests
  BY DEF Happening
<1> QED
  BY <1>1 DEF Happening

LEMMA GoneOnIs ==
    ASSUME NEW e \in Happening, NEW step \in {"tell", "match", "claim", "push"}
    PROVE  LET g == GoneOn(e, step)
           IN  g \in Happening /\ g.to = e.to /\ g.about = e.about /\ g.by = e.by
               /\ g.step = step /\ g.row = e.row /\ g.hits = e.hits
<1> PICK g : g = GoneOn(e, step)
  OBVIOUS
<1>1. /\ g.to = e.to /\ g.about = e.about /\ g.by = e.by
      /\ g.step = step /\ g.row = e.row /\ g.hits = e.hits
      /\ g = [to |-> g.to, about |-> g.about, by |-> g.by, step |-> g.step, row |-> g.row, hits |-> g.hits]
      /\ e.row \in Listing \cup {None} /\ e.hits \in SUBSET Searches
  BY DEF Happening, GoneOn
<1> QED
  BY <1>1, GoesOn

LEMMA HasReadIs ==
    ASSUME NEW e \in Happening, NEW row \in Listing
    PROVE  LET g == HasRead(e, row)
           IN  g \in Happening /\ g.to = e.to /\ g.about = e.about /\ g.by = e.by
               /\ g.step = "match" /\ g.row = row /\ g.hits = e.hits
<1> PICK g : g = HasRead(e, row)
  OBVIOUS
<1>1. /\ g.to = e.to /\ g.about = e.about /\ g.by = e.by
      /\ g.step = "match" /\ g.row = row /\ g.hits = e.hits
      /\ g = [to |-> g.to, about |-> g.about, by |-> g.by, step |-> g.step, row |-> g.row, hits |-> g.hits]
      /\ e.hits \in SUBSET Searches
  BY DEF Happening, HasRead
<1> QED
  BY <1>1, GoesOn

LEMMA HasFoundIs ==
    ASSUME NEW e \in Happening, NEW hits \in SUBSET Searches
    PROVE  LET g == HasFound(e, hits)
           IN  g \in Happening /\ g.to = e.to /\ g.about = e.about /\ g.by = e.by
               /\ g.step = "claim" /\ g.row = None /\ g.hits = hits
<1> PICK g : g = HasFound(e, hits)
  OBVIOUS
<1>1. /\ g.to = e.to /\ g.about = e.about /\ g.by = e.by
      /\ g.step = "claim" /\ g.row = None /\ g.hits = hits
      /\ g = [to |-> g.to, about |-> g.about, by |-> g.by, step |-> g.step, row |-> g.row, hits |-> g.hits]
  BY DEF Happening, HasFound
<1> QED
  BY <1>1, GoesOn

LEMMA HasClaimedIs ==
    ASSUME NEW e \in Happening, NEW hits \in SUBSET Searches
    PROVE  LET g == HasClaimed(e, hits)
           IN  g \in Happening /\ g.to = e.to /\ g.about = e.about /\ g.by = e.by
               /\ g.step = "push" /\ g.row = e.row /\ g.hits = hits
<1> PICK g : g = HasClaimed(e, hits)
  OBVIOUS
<1>1. /\ g.to = e.to /\ g.about = e.about /\ g.by = e.by
      /\ g.step = "push" /\ g.row = e.row /\ g.hits = hits
      /\ g = [to |-> g.to, about |-> g.about, by |-> g.by, step |-> g.step, row |-> g.row, hits |-> g.hits]
      /\ e.row \in Listing \cup {None}
  BY DEF Happening, HasClaimed
<1> QED
  BY <1>1, GoesOn

LEMMA EmittedIs ==
    ASSUME NEW r \in Requests, NEW e \in Emitted(r)
    PROVE  /\ e \in Happening /\ e.step = "new" /\ e.hits = {} /\ e.row = None /\ e.by = r
           /\ e.about \in IF e.to = "savers" THEN {"drop", "sold"} ELSE {"new"}
           /\ e.to # "savers" => IsNews(req[r])
<1>1. \E to \in {"followers", "searches", "savers"}, about \in About :
        /\ e = Event(r, to, about) /\ about \in IF to = "savers" THEN {"drop", "sold"} ELSE {"new"}
        /\ to # "savers" => IsNews(req[r])
  BY DEF Emitted, About
<1> QED
  BY <1>1 DEF Event, Happening

-----------------------------------------------------------------------------
(* The parts that a step leaves as they are.                               *)

LEMMA OthersCounted ==
    ASSUME AlertInv, told'["new"] = told["new"], followed' = followed,
           \A e \in events' : IsTelling(e) => e \in events
    PROVE  FollowersCounted'
  BY DEF AlertInv, FollowersCounted, FollowersToldOnce, IsTelling

LEMMA OtherPushes ==
    ASSUME AlertInv, told'["match"] = told["match"], UNCHANGED <<matched, search>>,
           \A e \in events' : e.step = "push" => e \in events
    PROVE  SearchesCounted'
<1>1. \A e, f \in events' : e.step = "push" /\ f.step = "push" /\ e # f => e.hits \cap f.hits = {}
  BY DEF AlertInv, SearchesCounted
<1>2. ASSUME NEW u \in People
      PROVE  told'["match"][u] <= Cardinality(PushedToOf(u)')
  <2>1. PushedToOf(u) \subseteq PushedToOf(u)' /\ PushedToOf(u)' \subseteq Searches
    BY DEF PushedTo, PushedToOf, AlertInv, AlertsTypeOK
  <2>2. /\ told["match"][u] \in Nat /\ told["match"][u] <= Cardinality(PushedToOf(u))
    BY DEF AlertInv, SearchesCounted, AlertsTypeOK, About
  <2>3. /\ Cardinality(PushedToOf(u)) <= Cardinality(PushedToOf(u)')
        /\ Cardinality(PushedToOf(u)) \in Nat /\ Cardinality(PushedToOf(u)') \in Nat
    BY <2>1, Cardinalities
  <2> QED
    BY <2>2, <2>3
<1> QED
  BY <1>1, <1>2 DEF SearchesCounted

(* Steps that send no pushes and claim nothing.                            *)
LEMMA QuietAlerts ==
    ASSUME AlertInv, AlertsTypeOK', UNCHANGED <<search, matched, followed, dropRecent, told, drops>>,
           \A e \in events' \ events :
             /\ e.about \in IF e.to = "savers" THEN {"drop", "sold"} ELSE {"new"}
             /\ \A s \in e.hits : search[s].user # Owner
             /\ e.step # "push" /\ ~IsTelling(e)
    PROVE  AlertInv'
<1>1. FollowersCounted'
  BY OthersCounted
<1>2. SearchesCounted'
  BY OtherPushes
<1>3. EventsAreSound'
  BY DEF AlertInv, EventsAreSound
<1>4. DropsCounted' /\ OwnerIsNeverTold'
  BY DEF AlertInv, DropsCounted, OwnerIsNeverTold
<1> QED
  BY <1>1, <1>2, <1>3, <1>4 DEF AlertInv

LEMMA AnnounceKeepsAlerts ==
    ASSUME RowInv, AlertInv, NEW r \in Requests, Announce(r),
           UNCHANGED <<searchVars, claims, told, drops, failed>>
    PROVE  AlertInv'
<1>1. \A e \in Emitted(r) :
        /\ e \in Happening /\ e.step = "new" /\ e.hits = {}
        /\ e.about \in IF e.to = "savers" THEN {"drop", "sold"} ELSE {"new"}
  BY EmittedIs
<1>2. events' = events \cup Emitted(r)
  BY DEF Announce
<1>3. AlertsTypeOK'
  BY <1>1, <1>2 DEF AlertInv, AlertsTypeOK, searchVars, claims
<1> QED
  BY <1>1, <1>2, <1>3, QuietAlerts DEF IsTelling, searchVars, claims

LEMMA ClaimFollowersKeepsAlerts ==
    ASSUME AlertInv, NEW e \in events, ClaimFollowers(e)
    PROVE  AlertInv'
<1>1. /\ e \in Happening /\ e.to = "followers" /\ e.step = "new" /\ e.about = "new"
      /\ \A s \in e.hits : search[s].user # Owner
      /\ e.row \in Listing \cup {None} /\ e.hits \in SUBSET Searches
  BY DEF AlertInv, AlertsTypeOK, EventsAreSound, ClaimFollowers, Happening
<1>2. UNCHANGED <<search, saved, used, alerting, saving, matched, dropRecent, told, drops, failed>>
  BY DEF ClaimFollowers, searchVars, alertHistory
<1>3. CASE Claimable(e)
  <2> DEFINE g == GoneOn(e, "tell")
  <2>1. followed' = TRUE /\ ~followed /\ events' = (events \ {e}) \cup {g}
    BY <1>3 DEF ClaimFollowers, Claimable, Goes, GoneOn
  <2>2. g \in Happening /\ g.to = e.to /\ g.about = e.about /\ g.step = "tell" /\ g.hits = e.hits
    BY <1>1, GoneOnIs
  <2> HIDE DEF g
  <2>3. AlertsTypeOK'
    BY <1>2, <2>1, <2>2 DEF AlertInv, AlertsTypeOK
  <2>4. EventsAreSound' /\ DropsCounted' /\ OwnerIsNeverTold'
    BY <1>1, <1>2, <2>1, <2>2 DEF AlertInv, EventsAreSound, DropsCounted, OwnerIsNeverTold
  <2>5. SearchesCounted'
    BY <1>2, <2>1, <2>2, OtherPushes
  <2>6. FollowersCounted'
    BY <1>2, <2>1 DEF AlertInv, FollowersCounted, FollowersToldOnce, IsTelling
  <2> QED
    BY <2>3, <2>4, <2>5, <2>6 DEF AlertInv
<1>4. CASE ~Claimable(e)
  <2>1. followed' = followed /\ events' \subseteq events
    BY <1>4 DEF ClaimFollowers, Drop
  <2>2. AlertsTypeOK'
    BY <1>2, <2>1 DEF AlertInv, AlertsTypeOK
  <2> QED
    BY <1>2, <2>1, <2>2, QuietAlerts
<1> QED
  BY <1>3, <1>4

LEMMA TellFollowersKeepsAlerts ==
    ASSUME AlertInv, NEW e \in events, TellFollowers(e)
    PROVE  AlertInv'
<1>1. /\ IsTelling(e) /\ events' = events \ {e} /\ Push("new", Followers) /\ "new" \in About
      /\ UNCHANGED <<search, saved, used, alerting, saving, matched, followed, dropRecent, drops>>
  BY DEF TellFollowers, IsTelling, Drop, searchVars, claims, About
<1>2. told \in [About -> [People -> Nat]]
  BY DEF AlertInv, AlertsTypeOK
<1>3. PICK sent \in SUBSET Followers :
        /\ told' \in [About -> [People -> Nat]]
        /\ \A a \in About \ {"new"} : told'[a] = told[a]
        /\ \A u \in People : told'["new"][u] = told["new"][u] + IF u \in sent THEN 1 ELSE 0
  <2>1. PICK sent \in SUBSET Followers : SentTo("new", sent)
    BY Zenon, <1>1, <1>2, PushIs
  <2> QED
    BY <2>1 DEF SentTo
<1>4. Owner \notin sent /\ Owner \in People
  BY AlertsAssumption, PricesAre
<1>5. /\ followed /\ \A u \in People : told["new"][u] = 0
      /\ \A f \in events : IsTelling(f) => f = e
  BY <1>1 DEF AlertInv, FollowersCounted
<1>6. AlertsTypeOK' /\ EventsAreSound' /\ DropsCounted'
  BY <1>1, <1>3 DEF AlertInv, AlertsTypeOK, EventsAreSound, DropsCounted
<1>7. OwnerIsNeverTold'
  <2>1. ASSUME NEW a \in About PROVE told'[a][Owner] = 0
    BY <1>3, <1>4, <1>5 DEF AlertInv, OwnerIsNeverTold
  <2> QED
    BY <2>1 DEF OwnerIsNeverTold
<1>8. SearchesCounted'
  BY <1>1, <1>3, OtherPushes DEF About
<1>9. FollowersCounted'
  <2>1. \A u \in People : told'["new"][u] <= 1
    BY <1>3, <1>5
  <2>2. \A f \in events' : ~IsTelling(f)
    BY <1>1, <1>5
  <2> QED
    BY <1>1, <1>5, <2>1, <2>2 DEF FollowersCounted, FollowersToldOnce, IsTelling
<1> QED
  BY <1>6, <1>7, <1>8, <1>9 DEF AlertInv

(* A listener reads the listing and the searches.                          *)
LEMMA ReadingKeepsAlerts ==
    ASSUME RowInv, AlertInv, NEW e \in events, ReadListing(e) \/ MatchingSearches(e)
    PROVE  AlertInv'
<1>1. /\ e \in Happening /\ e.to = "searches" /\ e.step \in {"new", "match"} /\ e.about = "new"
      /\ e.row \in Listing \cup {None} /\ e.hits \in SUBSET Searches
      /\ \A s \in e.hits : search[s].user # Owner
  <2>1. /\ e.to = "searches" /\ e.step \in {"new", "match"}
    BY Zenon DEF ReadListing, MatchingSearches
  <2> QED
    BY <2>1 DEF AlertInv, AlertsTypeOK, EventsAreSound, Happening
<1>2. UNCHANGED <<search, saved, used, alerting, saving, matched, followed, dropRecent, told, drops>>
  <2>1. UNCHANGED alertVars
    BY Zenon DEF ReadListing, MatchingSearches
  <2> QED
    BY <2>1 DEF alertVars, searchVars, claims, alertHistory
<1>3. \/ events' = events \ {e}
      \/ \E g \in Happening : /\ events' = (events \ {e}) \cup {g}
                              /\ g.to = "searches" /\ g.about = "new" /\ g.step \in {"match", "claim"}
                              /\ \A s \in g.hits : search[s].user # Owner
  <2>1. CASE ReadListing(e)
    <3> DEFINE g == HasRead(e, listing)
    <3>1. events' = events \ {e} \/ events' = (events \ {e}) \cup {g}
      BY <2>1 DEF ReadListing, Drop, HasRead
    <3>2. listing \in Listing
      BY DEF RowInv
    <3>3. g \in Happening /\ g.to = e.to /\ g.about = e.about /\ g.step = "match" /\ g.hits = e.hits
      BY <1>1, <3>2, HasReadIs
    <3> HIDE DEF g
    <3> QED
      BY <1>1, <3>1, <3>3
  <2>2. CASE MatchingSearches(e)
    <3> DEFINE hits == {s \in alerting : search[s].user # Owner /\ MatchesSearch(e.row, search[s])}
               g == HasFound(e, hits)
    <3>1. events' = events \ {e} \/ events' = (events \ {e}) \cup {g}
      BY Zenon, <2>2 DEF MatchingSearches, Drop, HasFound
    <3>2. hits \in SUBSET Searches /\ \A s \in hits : search[s].user # Owner
      BY DEF AlertInv, AlertsTypeOK
    <3> HIDE DEF hits
    <3>3. g \in Happening /\ g.to = e.to /\ g.about = e.about /\ g.step = "claim" /\ g.hits = hits
      BY <1>1, <3>2, HasFoundIs
    <3> HIDE DEF g
    <3> QED
      BY <1>1, <3>1, <3>2, <3>3
  <2> QED
    BY <2>1, <2>2
<1>4. AlertsTypeOK'
  BY <1>2, <1>3 DEF AlertInv, AlertsTypeOK
<1> QED
  BY <1>2, <1>3, <1>4, QuietAlerts DEF IsTelling

(* Searches are claimed that were not yet: they are pushed once.           *)
LEMMA ClaimNewKeepsAlerts ==
    ASSUME AlertInv, NEW e \in events, ClaimNew(e)
    PROVE  AlertInv'
<1>1. /\ e \in Happening /\ e.to = "searches" /\ e.step = "claim" /\ e.about = "new"
      /\ e.row \in Listing \cup {None} /\ e.hits \in SUBSET Searches
      /\ \A s \in e.hits : search[s].user # Owner
      /\ UNCHANGED <<search, saved, used, alerting, saving, followed, dropRecent, told, drops>>
  BY DEF AlertInv, AlertsTypeOK, EventsAreSound, ClaimNew, Happening, searchVars
<1>2. CASE ~(e.hits \subseteq saved)
  <2>1. events' = events \ {e} /\ matched' = matched
    BY <1>2 DEF ClaimNew, Drop
  <2>2. AlertsTypeOK'
    BY <1>1, <2>1 DEF AlertInv, AlertsTypeOK
  <2> QED
    BY <1>1, <2>1, <2>2, QuietAlerts
<1>3. CASE e.hits \subseteq saved
  <2> DEFINE fresh == e.hits \ matched
             g == HasClaimed(e, fresh)
  <2>1. matched' = matched \cup e.hits /\ events' = (events \ {e}) \cup {g}
    BY <1>3 DEF ClaimNew, HasClaimed, Fresh
  <2>2. g \in Happening /\ g.to = e.to /\ g.about = e.about /\ g.step = "push" /\ g.hits = fresh
    BY <1>1, HasClaimedIs
  <2> HIDE DEF g
  <2>3. AlertsTypeOK'
    BY <1>1, <1>3, <2>1, <2>2 DEF AlertInv, AlertsTypeOK
  <2>4. EventsAreSound' /\ DropsCounted' /\ OwnerIsNeverTold'
    BY <1>1, <2>1, <2>2 DEF AlertInv, EventsAreSound, DropsCounted, OwnerIsNeverTold
  <2>5. FollowersCounted'
    BY <1>1, <2>1, <2>2, OthersCounted DEF IsTelling
  <2>6. \A f \in events : f.step = "push" => f.hits \subseteq matched /\ f # e
    BY <1>1 DEF AlertInv, EventsAreSound
  <2>7. \A f, h \in events' : f.step = "push" /\ h.step = "push" /\ f # h => f.hits \cap h.hits = {}
    BY <2>1, <2>2, <2>6 DEF AlertInv, SearchesCounted
  <2>8. PushedTo' = PushedTo
    BY <1>1, <2>1, <2>2, <2>6 DEF PushedTo
  <2>9. SearchesCounted'
    BY <1>1, <2>7, <2>8 DEF AlertInv, SearchesCounted, PushedToOf
  <2> QED
    BY <2>3, <2>4, <2>5, <2>9 DEF AlertInv
<1> QED
  BY <1>2, <1>3

(* Their owners are told, once each.                                       *)
LEMMA PushMatchesKeepsAlerts ==
    ASSUME AlertInv, NEW e \in events, PushMatches(e)
    PROVE  AlertInv'
<1> DEFINE users == {search[s].user : s \in e.hits}
<1>1. /\ e \in Happening /\ e.to = "searches" /\ e.step = "push" /\ e.hits \subseteq matched
      /\ matched \subseteq Searches /\ search \in [Searches -> Filter]
      /\ \A s \in e.hits : search[s].user # Owner
  BY DEF AlertInv, AlertsTypeOK, EventsAreSound, PushMatches
<1>2. /\ events' = events \ {e} /\ Push("match", users) /\ "match" \in About
      /\ UNCHANGED <<search, saved, used, alerting, saving, matched, followed, dropRecent, drops>>
  BY DEF PushMatches, Drop, searchVars, claims, About
<1>3. told \in [About -> [People -> Nat]]
  BY DEF AlertInv, AlertsTypeOK
<1>4. PICK sent \in SUBSET users : SentTo("match", sent)
  BY Zenon, <1>2, <1>3, PushIs
<1>5. /\ told' \in [About -> [People -> Nat]]
      /\ \A a \in About \ {"match"} : told'[a] = told[a]
      /\ \A u \in People : told'["match"][u] = told["match"][u] + IF u \in sent THEN 1 ELSE 0
  BY <1>4 DEF SentTo
<1>6. Owner \notin sent /\ Owner \in People
  BY <1>1, PricesAre
<1>7. AlertsTypeOK' /\ EventsAreSound' /\ DropsCounted'
  BY <1>2, <1>5 DEF AlertInv, AlertsTypeOK, EventsAreSound, DropsCounted
<1>8. OwnerIsNeverTold'
  <2>1. told["match"][Owner] = 0 /\ \A a \in About : told[a][Owner] = 0
    BY <1>2 DEF AlertInv, OwnerIsNeverTold
  <2>2. ASSUME NEW a \in About PROVE told'[a][Owner] = 0
    BY <1>5, <1>6, <2>1
  <2> QED
    BY <2>2 DEF OwnerIsNeverTold
<1>9. FollowersCounted'
  BY <1>2, <1>5, OthersCounted DEF About
<1>10. \A f, g \in events' : f.step = "push" /\ g.step = "push" /\ f # g => f.hits \cap g.hits = {}
  BY <1>2 DEF AlertInv, SearchesCounted
<1>11. ASSUME NEW u \in People
       PROVE  told'["match"][u] <= Cardinality(PushedToOf(u)')
  <2>1. /\ PushedToOf(u) \subseteq PushedToOf(u)' /\ PushedToOf(u)' \subseteq Searches
        /\ \A s \in e.hits : search[s].user = u => s \in PushedToOf(u)' /\ s \notin PushedToOf(u)
    <3>1. \A f \in events : f.step = "push" /\ f # e => f.hits \cap e.hits = {}
      BY <1>1 DEF AlertInv, SearchesCounted
    <3> QED
      BY <1>1, <1>2, <3>1 DEF PushedTo, PushedToOf
  <2>2. /\ Cardinality(PushedToOf(u)) <= Cardinality(PushedToOf(u)')
        /\ u \in users => Cardinality(PushedToOf(u)) + 1 <= Cardinality(PushedToOf(u)')
        /\ Cardinality(PushedToOf(u)) \in Nat /\ Cardinality(PushedToOf(u)') \in Nat
    <3>1. u \in users => PushedToOf(u) # PushedToOf(u)'
      BY <2>1
    <3>2. PushedToOf(u)' \in SUBSET Searches /\ PushedToOf(u) \in SUBSET Searches
          /\ PushedToOf(u) \in SUBSET (PushedToOf(u)')
      BY <2>1
    <3> HIDE DEF users
    <3> QED
      BY <3>1, <3>2, Cardinalities
  <2>3. /\ told["match"][u] \in Nat /\ told["match"][u] <= Cardinality(PushedToOf(u))
    BY <1>2, <1>3 DEF AlertInv, SearchesCounted
  <2>4. told'["match"][u] = told["match"][u] \/ (u \in users /\ told'["match"][u] = told["match"][u] + 1)
    BY <1>5, <2>3
  <2> HIDE DEF users
  <2> QED
    BY <2>2, <2>3, <2>4
<1> QED
  BY <1>7, <1>8, <1>9, <1>10, <1>11 DEF AlertInv, SearchesCounted

LEMMA ClaimDropKeepsAlerts ==
    ASSUME AlertInv, NEW e \in events, ClaimDrop(e)
    PROVE  AlertInv'
<1>1. /\ e \in Happening /\ e.to = "savers" /\ e.step = "new" /\ e.about = "drop"
      /\ e.row \in Listing \cup {None} /\ e.hits \in SUBSET Searches
      /\ \A s \in e.hits : search[s].user # Owner
      /\ UNCHANGED <<search, saved, used, alerting, saving, matched, followed, told>>
  BY DEF AlertInv, AlertsTypeOK, EventsAreSound, ClaimDrop, Happening, searchVars
<1>2. CASE ~DropClaimable
  <2>1. events' = events \ {e} /\ UNCHANGED <<dropRecent, drops>>
    BY <1>2 DEF ClaimDrop, Drop
  <2>2. AlertsTypeOK'
    BY <1>1, <2>1 DEF AlertInv, AlertsTypeOK
  <2> QED
    BY <1>1, <2>1, <2>2, QuietAlerts
<1>3. CASE DropClaimable
  <2> DEFINE g == GoneOn(e, "tell")
  <2>1. ~dropRecent /\ dropRecent' = TRUE /\ drops' = drops + 1 /\ events' = (events \ {e}) \cup {g}
    BY <1>3 DEF ClaimDrop, DropClaimable, Goes, GoneOn
  <2>2. g \in Happening /\ g.to = e.to /\ g.about = e.about /\ g.step = "tell" /\ g.hits = e.hits
    BY <1>1, GoneOnIs
  <2> HIDE DEF g
  <2>3. AlertsTypeOK'
    BY <1>1, <2>1, <2>2 DEF AlertInv, AlertsTypeOK
  <2>4. EventsAreSound' /\ DropsCounted' /\ OwnerIsNeverTold'
    BY <1>1, <2>1, <2>2 DEF AlertInv, EventsAreSound, DropsCounted, OwnerIsNeverTold
  <2>5. FollowersCounted' /\ SearchesCounted'
    BY <1>1, <2>1, <2>2, OthersCounted, OtherPushes DEF IsTelling
  <2> QED
    BY <2>3, <2>4, <2>5 DEF AlertInv
<1> QED
  BY <1>2, <1>3

LEMMA TellSaversKeepsAlerts ==
    ASSUME AlertInv, NEW e \in events, TellSavers(e)
    PROVE  AlertInv'
<1>1. /\ e.about \in {"drop", "sold"} /\ e.about \in About
      /\ events' = events \ {e} /\ Push(e.about, Savers)
      /\ UNCHANGED <<search, saved, used, alerting, saving, matched, followed, dropRecent, drops>>
  BY DEF AlertInv, EventsAreSound, TellSavers, Drop, searchVars, claims, About
<1>2. told \in [About -> [People -> Nat]]
  BY DEF AlertInv, AlertsTypeOK
<1>3. PICK sent \in SUBSET Savers : SentTo(e.about, sent)
  BY Zenon, <1>1, <1>2, PushIs
<1>4. /\ told' \in [About -> [People -> Nat]]
      /\ \A a \in About \ {e.about} : told'[a] = told[a]
      /\ \A u \in People : told'[e.about][u] = told[e.about][u] + IF u \in sent THEN 1 ELSE 0
  BY <1>3 DEF SentTo
<1>5. Owner \notin sent /\ Owner \in People
  BY PricesAre DEF Savers
<1>6. AlertsTypeOK' /\ EventsAreSound' /\ DropsCounted'
  BY <1>1, <1>4 DEF AlertInv, AlertsTypeOK, EventsAreSound, DropsCounted
<1>7. OwnerIsNeverTold'
  <2>1. ASSUME NEW a \in About PROVE told'[a][Owner] = 0
    <3>1. told[a][Owner] = 0
      BY DEF AlertInv, OwnerIsNeverTold
    <3>2. CASE a = e.about
      BY <1>1, <1>4, <1>5, <3>1, <3>2
    <3>3. CASE a # e.about
      BY <1>4, <3>1, <3>3
    <3> QED
      BY <3>2, <3>3
  <2> QED
    BY <2>1 DEF OwnerIsNeverTold
<1>8. FollowersCounted' /\ SearchesCounted'
  BY <1>1, <1>4, OthersCounted, OtherPushes DEF About
<1> QED
  BY <1>6, <1>7, <1>8 DEF AlertInv

LEMMA SavesKeepsAlerts ==
    ASSUME AlertInv, NEW s \in Searches, Saves(s)
    PROVE  AlertInv'
<1>1. /\ UNCHANGED <<search, events, matched, followed, dropRecent, told, drops>>
      /\ saving' \subseteq used' \ saved' /\ alerting' \subseteq saved'
      /\ saved' \subseteq used' /\ used' \subseteq Searches /\ matched \subseteq used'
  <2>1. CASE CountSearches(s)
    BY <2>1 DEF CountSearches, claims, alertHistory, AlertInv, AlertsTypeOK
  <2>2. CASE SaveSearch(s)
    BY <2>2 DEF SaveSearch, claims, AlertInv, AlertsTypeOK
  <2>3. CASE SwitchAlerts(s)
    BY <2>3 DEF SwitchAlerts, claims, AlertInv, AlertsTypeOK
  <2>4. CASE RemoveSearch(s)
    BY <2>4 DEF RemoveSearch, claims, AlertInv, AlertsTypeOK
  <2> QED
    BY <2>1, <2>2, <2>3, <2>4 DEF Saves
<1>2. AlertsTypeOK'
  BY <1>1 DEF AlertInv, AlertsTypeOK
<1> QED
  BY <1>1, <1>2, QuietAlerts

LEMMA BreaksKeepsAlerts ==
    ASSUME AlertInv, NEW e \in events, Breaks(e)
    PROVE  AlertInv'
<1>1. /\ events' = events \ {e}
      /\ UNCHANGED <<search, saved, used, alerting, saving, matched, followed, dropRecent, told, drops>>
  BY DEF Breaks, Drop, searchVars, claims
<1>2. AlertsTypeOK'
  BY <1>1 DEF AlertInv, AlertsTypeOK
<1> QED
  BY <1>1, <1>2, QuietAlerts

LEMMA DayPassesKeepsAlerts ==
    ASSUME AlertInv, DayPasses
    PROVE  AlertInv'
<1>1. /\ dropRecent' = FALSE /\ drops' = 0
      /\ UNCHANGED <<events, search, saved, used, alerting, saving, matched, followed, told>>
  BY DEF DayPasses, searchVars
<1>2. AlertsTypeOK' /\ EventsAreSound' /\ DropsCounted' /\ OwnerIsNeverTold'
  BY <1>1 DEF AlertInv, AlertsTypeOK, EventsAreSound, DropsCounted, OwnerIsNeverTold
<1>3. FollowersCounted' /\ SearchesCounted'
  BY <1>1, OthersCounted, OtherPushes
<1> QED
  BY <1>2, <1>3 DEF AlertInv

LEMMA SameAlerts ==
    ASSUME AlertInv, UNCHANGED <<events, searchVars, claims, told, drops>>
    PROVE  AlertInv'
<1>1. AlertsTypeOK'
  BY DEF AlertInv, AlertsTypeOK, searchVars, claims
<1> QED
  BY <1>1, QuietAlerts DEF searchVars, claims

(* Only an announcement gives off events.                                  *)
LEMMA EventsStay ==
    ASSUME RowInv, NEW r \in Requests,
           \/ Create(r) \/ Update(r) \/ Move(r) \/ SetStatus(r) \/ Write(r)
           \/ BeginPublish(r) \/ SettlePublish(r) \/ GoLive(r) \/ ReleasePending(r)
           \/ VisibilityChanged(r) \/ ReadRow(r) \/ Insert(r)
           \/ \E who \in People, kind \in Kinds : VisibleOwnerId(r, who, kind)
    PROVE  events' = events
<1>1. CASE Create(r) \/ Update(r) \/ Move(r) \/ SetStatus(r) \/ BeginPublish(r)
  <2>1. PICK op, data : Begins(r, op, data)
    BY <1>1, TheyBegin
  <2> QED
    BY <2>1 DEF Begins
<1>2. CASE \/ Write(r) \/ SettlePublish(r) \/ GoLive(r) \/ ReleasePending(r)
           \/ VisibilityChanged(r) \/ ReadRow(r) \/ Insert(r)
           \/ \E who \in People, kind \in Kinds : VisibleOwnerId(r, who, kind)
  BY Zenon, <1>2 DEF Write, SettlePublish, GoLive, ReleasePending, VisibilityChanged, ReadRow,
                     Insert, VisibleOwnerId
<1> QED
  BY <1>1, <1>2

LEMMA AlertsStart ==
    ASSUME Init
    PROVE  AlertInv
<1>1. /\ search \in [Searches -> Filter] /\ saved \subseteq Searches
      /\ used = saved /\ alerting = saved /\ saving = {} /\ matched = {}
      /\ followed \in BOOLEAN /\ dropRecent = FALSE /\ drops = 0 /\ events = {}
  <2>1. search \in FirstSearches[mix] /\ mix \in Mixes
    BY DEF Init, AlertsInit, ListingsInit
  <2>2. FirstSearches[mix] \subseteq [Searches -> Filter]
    BY Zenon, <2>1, AlertsAssumption
  <2> QED
    BY <2>1, <2>2 DEF Init, AlertsInit, ListingsInit, IsOnMap
<1>2. /\ told \in [About -> [People -> Nat]]
      /\ \A a \in About, u \in People :
           told[a][u] = IF a = "new" /\ followed /\ u \in Followers THEN 1 ELSE 0
  BY DEF Init, AlertsInit
<1>3. Owner \in People /\ Owner \notin Followers
  BY AlertsAssumption, PricesAre
<1>4. AlertsTypeOK /\ EventsAreSound /\ DropsCounted /\ OwnerIsNeverTold
  BY <1>1, <1>2, <1>3 DEF AlertsTypeOK, EventsAreSound, DropsCounted, OwnerIsNeverTold
<1>5. FollowersCounted
  <2>1. "new" \in About
    BY DEF About
  <2> QED
    BY <1>1, <1>2, <2>1 DEF FollowersCounted, FollowersToldOnce
<1>6. SearchesCounted
  <2>1. ASSUME NEW u \in People PROVE told["match"][u] <= Cardinality(PushedToOf(u))
    <3>1. PushedToOf(u) \in SUBSET Searches /\ told["match"][u] = 0
      BY <1>1, <1>2 DEF PushedToOf, PushedTo, About
    <3>2. Cardinality(PushedToOf(u)) \in Nat
      BY <3>1, Cardinalities
    <3> QED
      BY <3>1, <3>2
  <2> QED
    BY <1>1, <2>1 DEF SearchesCounted
<1> QED
  BY <1>4, <1>5, <1>6 DEF AlertInv

LEMMA AlertsStep ==
    ASSUME RowInv, AlertInv, [Next]_vars
    PROVE  AlertInv'
<1>1. CASE ListingsNext /\ UNCHANGED <<searchVars, claims, told, drops, failed>>
  <2>1. ASSUME NEW r \in Requests, Announce(r)
        PROVE  AlertInv'
    BY <1>1, <2>1, AnnounceKeepsAlerts
  <2>2. CASE events' = events
    BY <1>1, <2>2, SameAlerts
  <2>3. ASSUME NEW d \in Readers, Reads(d)
        PROVE  events' = events
    BY <2>3 DEF Reads, Miss, Load, Store
  <2>4. ASSUME NEW who \in People, NEW kind \in Kinds, TakeBack(who, kind)
        PROVE  events' = events
    BY <2>4 DEF TakeBack
  <2> QED
    BY <1>1, <2>1, <2>2, <2>3, <2>4, EventsStay DEF ListingsNext, Reads
<1>2. CASE PhotosNext /\ UNCHANGED <<searchVars, claims, told, drops, failed>>
  <2>1. ASSUME NEW f \in Files, Upload(f)
        PROVE  events' = events
    BY <2>1 DEF Upload, listingVars
  <2>2. ASSUME NEW r \in Requests,
               \/ TryCreate(r) \/ InsertRows(r) \/ DeleteRows(r) \/ FindStillShown(r)
               \/ DeleteFilesQuietly(r) \/ FindOwnImages(r) \/ FindShared(r) \/ RemoveAllOwnedBy(r)
               \/ UpdateRows(r)
               \/ \E f \in Files : \/ ConfirmUploads(r, f) \/ Backfill(r, f)
                                   \/ \E s \in Shelves : RemoveImages(r, s, f)
        PROVE  events' = events
    <3>1. UNCHANGED Unphotographed
      BY Zenon, <2>2 DEF TryCreate, InsertRows, DeleteRows, FindStillShown, DeleteFilesQuietly,
                         FindOwnImages, FindShared, RemoveAllOwnedBy, UpdateRows, ConfirmUploads,
                         Backfill, RemoveImages
    <3> QED
      BY <3>1 DEF Unphotographed
  <2>3. events' = events
    BY <1>2, <2>1, <2>2 DEF PhotosNext
  <2> QED
    BY <1>2, <2>3, SameAlerts
<1>3. CASE AlertsNext
  <2>1. ASSUME NEW e \in events, Listens(e)
        PROVE  AlertInv'
    BY <2>1, ClaimFollowersKeepsAlerts, TellFollowersKeepsAlerts, ReadingKeepsAlerts,
       ClaimNewKeepsAlerts, PushMatchesKeepsAlerts, ClaimDropKeepsAlerts, TellSaversKeepsAlerts,
       BreaksKeepsAlerts DEF Listens
  <2> QED
    BY <1>3, <2>1, SavesKeepsAlerts, DayPassesKeepsAlerts DEF AlertsNext, Listens, Saves
<1>4. CASE UNCHANGED vars
  <2>1. UNCHANGED <<events, searchVars, claims, told, drops>>
    BY <1>4 DEF vars, listingVars, alertVars, alertHistory
  <2> QED
    BY <2>1, SameAlerts
<1> QED
  BY <1>1, <1>2, <1>3, <1>4 DEF Next

LEMMA AlertsAlways == Spec => []AlertInv
<1>1. Init => AlertInv
  BY AlertsStart
<1>2. RowInv /\ AlertInv /\ [Next]_vars => AlertInv'
  BY AlertsStep
<1> QED
  BY <1>1, <1>2, RowAlways, PTL DEF Spec

LEMMA MatchedAreSearches ==
    ASSUME AlertInv
    PROVE  EachSearchOnce
<1>1. ASSUME NEW u \in People
      PROVE  told["match"][u] <= Cardinality({s \in matched : search[s].user = u})
  <2>1. /\ PushedToOf(u) \subseteq {s \in matched : search[s].user = u}
        /\ {s \in matched : search[s].user = u} \in SUBSET Searches
    BY DEF PushedToOf, PushedTo, AlertInv, AlertsTypeOK
  <2>2. /\ told["match"][u] \in Nat /\ told["match"][u] <= Cardinality(PushedToOf(u))
    BY DEF AlertInv, SearchesCounted, AlertsTypeOK, About
  <2>3. /\ Cardinality(PushedToOf(u)) \in Nat
        /\ Cardinality({s \in matched : search[s].user = u}) \in Nat
        /\ Cardinality(PushedToOf(u)) <= Cardinality({s \in matched : search[s].user = u})
    BY <2>1, Cardinalities
  <2> QED
    BY <2>2, <2>3
<1> QED
  BY <1>1 DEF EachSearchOnce

(* However often a listing goes live and whichever listeners meet,         *)
(* followers are told of it once, each saved search alerts once, a price   *)
(* drop is told once a day, the owner never (FollowerAlerts,               *)
(* SavedSearchMatcher, SavedListingAlerts).  Who has two searches may be   *)
(* told by each, and a sale is told each time.                             *)
THEOREM AlertsComeOnce == Spec => []NoAlertTwice
<1>1. AlertInv => NoAlertTwice
  <2> SUFFICES ASSUME AlertInv PROVE NoAlertTwice
    OBVIOUS
  <2>1. EachSearchOnce
    BY MatchedAreSearches
  <2>2. FollowersToldOnce /\ OneDropADay /\ OwnerIsNeverTold
    BY DEF AlertInv, FollowersCounted, DropsCounted, OneDropADay
  <2> QED
    BY <2>1, <2>2 DEF NoAlertTwice
<1> QED
  BY <1>1, AlertsAlways, PTL

-----------------------------------------------------------------------------
(* Photos: rows, files and who works on them.                              *)

Does(p, op, f) ==
    req[p].step \notin {"unused", "done"} /\ req[p].op = op /\ req[p].data.file = f
Inserts(p, f) == Does(p, "confirm", f) /\ req[p].step \in {"thumb", "insert"}

(* Only rows have thumbnails.                                              *)
SmallAreShown == \A s \in Shelves, f \in Files : <<s, f>> \in small => rows[s][f] > 0

(* A file is confirmed and taken off at once only if it met.               *)
NotBoth ==
    \A f \in Files \ met, p, q \in Requests : ~(Does(p, "confirm", f) /\ Does(q, "takeOff", f))

(* What is confirmed is stored.                                            *)
ConfirmedIsStored ==
    \A f \in Files \ met, p \in Requests : Inserts(p, f) /\ ~erased => f \in files

(* What goes is not shown any more, nor again.                             *)
GoneIsUnshown ==
    \A f \in Files, p \in Requests :
      Does(p, "takeOff", f) /\ req[p].step = "files" =>
        rows["theirs"][f] = 0 /\ (f \notin met => rows["mine"][f] = 0)

(* A thumbnail that was made goes with its file.                           *)
ThumbIsMade ==
    \A f \in Files, op \in {"confirm", "backfill"}, p \in Requests :
      Does(p, op, f) =>
        /\ req[p].step = "thumb" => ~req[p].data.small
        /\ req[p].data.small => f \in uploaded /\ (f \in files => f \in thumbs)
        /\ req[p].step = "insert" /\ op = "backfill" => req[p].data.small

(* A deleted account takes its own files.                                  *)
ErasedAreMine ==
    \A p \in Requests : req[p].step \notin {"unused", "done"} /\ req[p].op = "erase" =>
      /\ erased
      /\ req[p].step = "erase" => \A f \in Files : f \in req[p].data.gone => rows["theirs"][f] = 0

(* Where nothing met, one request confirms at a time, and has room.        *)
OneConfirms ==
    met = {} =>
      /\ \A f, g \in Files, p, q \in Requests : Does(p, "confirm", f) /\ Does(q, "confirm", g) => p = q
      /\ \A f \in Files, p \in Requests :
           Inserts(p, f) => rows["mine"][f] = 0 /\ Cardinality(Mine) < MaxImages

JobsAreSound ==
    NotBoth /\ ConfirmedIsStored /\ GoneIsUnshown /\ ThumbIsMade /\ ErasedAreMine

PhotoInv ==
    PhotosTypeOK /\ PhotoHasFile /\ PhotosFit /\ SmallAreShown /\ JobsAreSound /\ OneConfirms

LEMMA MineIsFinite ==
    ASSUME NEW S \in SUBSET Files
    PROVE  /\ IsFiniteSet(S) /\ Cardinality(S) \in Nat
           /\ \A T \in SUBSET S : Cardinality(T) <= Cardinality(S)
           /\ \A f \in Files : Cardinality(S \cup {f}) <= Cardinality(S) + 1
<1>1. IsFiniteSet(Files)
  BY Zenon, PhotosAssumption
<1>2. IsFiniteSet(S) /\ Cardinality(S) \in Nat
  BY <1>1, FS_Subset, FS_CardinalityType
<1>3. \A T \in SUBSET S : Cardinality(T) <= Cardinality(S)
  BY <1>2, FS_Subset
<1>4. \A f \in Files : Cardinality(S \cup {f}) <= Cardinality(S) + 1
  BY <1>2, FS_AddElement
<1> QED
  BY <1>2, <1>3, <1>4

LEMMA ShelvesAre == Shelves = {"mine", "theirs"} /\ MaxImages \in Nat
<1>1. MaxImages \in Nat
  BY Zenon, PhotosAssumption
<1> QED
  BY <1>1 DEF Shelves

(* Requests that do not come near a photo, or only make known that one     *)
(* went.                                                                   *)
Stays(p) ==
    req'[p].step \notin {"unused", "done"}
      /\ req'[p].op \in {"confirm", "takeOff", "backfill", "erase"} =>
        /\ req[p].step \notin {"unused", "done"}
        /\ req'[p].op = req[p].op /\ req'[p].data = req[p].data
        /\ req'[p].step = req[p].step \/ req'[p].step = "still"

LEMMA JobsStay ==
    ASSUME PhotoInv, UNCHANGED photoVars, \A p \in Requests : Stays(p)
    PROVE  PhotoInv'
<1>1. UNCHANGED <<rows, small, files, thumbs, uploaded, erased, met>> /\ UNCHANGED Mine
  BY DEF photoVars, stored, Mine
<1>2. \A p \in Requests, op \in {"confirm", "takeOff", "backfill", "erase"}, f \in Files :
        Does(p, op, f)' => /\ Does(p, op, f)
                           /\ req'[p].step = req[p].step \/ req'[p].step = "still"
                           /\ req'[p].data = req[p].data
  BY DEF Does, Stays
<1>3. \A p \in Requests, f \in Files : Inserts(p, f)' => Inserts(p, f)
  BY <1>2 DEF Inserts
<1>4. PhotosTypeOK' /\ PhotoHasFile' /\ PhotosFit' /\ SmallAreShown'
  BY <1>1 DEF PhotoInv, PhotosTypeOK, PhotoHasFile, PhotosFit, SmallAreShown
<1>5. NotBoth' /\ ConfirmedIsStored'
  BY <1>1, <1>2, <1>3 DEF PhotoInv, JobsAreSound, NotBoth, ConfirmedIsStored
<1>6. GoneIsUnshown' /\ ThumbIsMade'
  BY <1>1, <1>2 DEF PhotoInv, JobsAreSound, GoneIsUnshown, ThumbIsMade
<1>7. ErasedAreMine'
  BY <1>1 DEF PhotoInv, JobsAreSound, ErasedAreMine, Stays
<1>8. OneConfirms'
  BY <1>1, <1>2, <1>3 DEF PhotoInv, OneConfirms
<1> QED
  BY <1>4, <1>5, <1>6, <1>7, <1>8 DEF PhotoInv, JobsAreSound

PhotoOps == {"confirm", "takeOff", "backfill", "erase"}

LEMMA OneStays ==
    ASSUME RowInv, NEW r \in Requests, NEW q, q = Done \/ q.op \notin PhotoOps,
           req' = [req EXCEPT ![r] = q] \/ req' = Others(r, q)
    PROVE  \A p \in Requests : Stays(p)
<1>1. ASSUME NEW p \in Requests
      PROVE  Stays(p)
  <2>1. CASE p = r
    <3>1. req'[p] = q
      BY <2>1 DEF RowInv, Others
    <3> QED
      BY <3>1 DEF Stays, Done, PhotoOps
  <2>2. CASE p # r
    <3>1. req'[p] = req[p] \/ (req[p].step \in Unwritten /\ req'[p] = [req[p] EXCEPT !.stale = TRUE])
      BY <2>2 DEF RowInv, Others
    <3>2. CASE req'[p] = req[p]
      BY <3>2 DEF Stays
    <3>3. CASE req[p].step \in Unwritten /\ req'[p] = [req[p] EXCEPT !.stale = TRUE]
      <4>1. IsRequest(req[p])
        BY <3>3 DEF RowInv, Unused, Done, Unwritten
      <4>2. req'[p].op = req[p].op /\ req'[p].step = req[p].step /\ req'[p].data = req[p].data
        BY <3>3, <4>1, MadeStale
      <4> QED
        BY <4>2 DEF Stays
    <3> QED
      BY <3>1, <3>2, <3>3
  <2> QED
    BY <2>1, <2>2
<1> QED
  BY <1>1

LEMMA ListingsStay ==
    ASSUME RowInv, NEW r \in Requests,
           \/ Create(r) \/ Update(r) \/ Move(r) \/ SetStatus(r) \/ Write(r)
           \/ BeginPublish(r) \/ SettlePublish(r) \/ GoLive(r) \/ ReleasePending(r)
           \/ VisibilityChanged(r) \/ ReadRow(r) \/ Announce(r) \/ Insert(r)
           \/ \E who \in People, kind \in Kinds : VisibleOwnerId(r, who, kind)
    PROVE  \A p \in Requests : Stays(p)
<1>1. CASE Create(r) \/ Update(r) \/ Move(r) \/ SetStatus(r) \/ BeginPublish(r)
  <2>1. PICK op, data : Begins(r, op, data)
    BY <1>1, TheyBegin
  <2>2. Asked(op, "write", Owner, data).op = op /\ op \notin PhotoOps
    BY <2>1 DEF Begins, Known, Asked, PhotoOps, Kinds
  <2> QED
    BY <2>1, <2>2, OneStays DEF Begins
<1>2. CASE Write(r)
  <2>1. /\ IsRequest(req[r]) /\ req[r].step = "write" /\ listing' \in Listing
        /\ req' = Others(r, IF req[r].op = "park" THEN Done ELSE Wrote(req[r], listing'))
    BY <1>2, WriteIs
  <2>2. Wrote(req[r], listing').op = req[r].op /\ req[r].op \notin PhotoOps
    <3>1. Wrote(req[r], listing').op = req[r].op
      BY <2>1, WroteIs
    <3>2. req[r].op \notin PhotoOps
      BY <2>1 DEF IsRequest, Known, PhotoOps, Kinds
    <3> QED
      BY <3>1, <3>2
  <2>3. CASE req[r].op = "park"
    BY <2>1, <2>3, OneStays
  <2>4. CASE req[r].op # "park"
    BY <2>1, <2>2, <2>4, OneStays
  <2> QED
    BY <2>3, <2>4
<1>3. CASE SettlePublish(r)
  <2>1. \A step : Asked("settle", step, Owner, <<>>).op = "settle"
    BY DEF Asked
  <2>2. \/ req' = Others(r, Asked("settle", "row", Owner, <<>>))
        \/ req' = [req EXCEPT ![r] = Asked("settle", "second", Owner, <<>>)]
    BY <1>3 DEF SettlePublish
  <2> QED
    BY <2>1, <2>2, OneStays DEF PhotoOps
<1>4. CASE GoLive(r)
  <2>1. IsRequest(req[r]) /\ req[r].step = "second" /\ req[r].op = "settle"
    BY <1>4, RequestIs DEF GoLive, IsRequest, Known
  <2>2. [req[r] EXCEPT !.step = "row"].op = "settle"
    BY <2>1, StepOn DEF Known
  <2>3. req' = Others(r, [req[r] EXCEPT !.step = "row"]) \/ req' = [req EXCEPT ![r] = Done]
    BY <1>4 DEF GoLive
  <2> QED
    BY <2>2, <2>3, OneStays DEF PhotoOps
<1>5. CASE ReleasePending(r)
  BY <1>5, OneStays DEF ReleasePending
<1>6. CASE VisibilityChanged(r)
  <2>1. Asked("account", "row", Owner, <<>>).op = "account"
    BY DEF Asked
  <2> QED
    BY <1>6, <2>1, OneStays DEF VisibilityChanged, PhotoOps
<1>7. CASE ReadRow(r)
  <2>1. IsRequest(req[r]) /\ req[r].step = "row" /\ req[r].op \in {"account", "settle"}
    BY <1>7, RequestIs DEF ReadRow, IsRequest, Known, Kinds
  <2>2. [req[r] EXCEPT !.step = "after", !.before = listing, !.after = listing].op = req[r].op
    BY <2>1 DEF IsRequest
  <2>3. \/ req' = [req EXCEPT ![r] = Done]
        \/ req' = [req EXCEPT ![r] = [req[r] EXCEPT !.step = "after", !.before = listing, !.after = listing]]
    BY <1>7 DEF ReadRow
  <2> QED
    BY <2>1, <2>2, <2>3, OneStays DEF PhotoOps
<1>8. CASE Announce(r)
  <2>1. IsRequest(req[r]) /\ req[r].step = "after"
    BY <1>8, RequestIs DEF Announce
  <2>2. req' = [req EXCEPT ![r] = IF req[r].op = "takeOff" THEN [req[r] EXCEPT !.step = "still"] ELSE Done]
    BY <1>8 DEF Announce
  <2>3. CASE req[r].op = "takeOff"
    <3>1. /\ [req[r] EXCEPT !.step = "still"].op = "takeOff"
          /\ [req[r] EXCEPT !.step = "still"].data = req[r].data
          /\ [req[r] EXCEPT !.step = "still"].step = "still"
      BY <2>1, <2>3, StepOn DEF Known
    <3>2. ASSUME NEW p \in Requests PROVE Stays(p)
      <4>1. req'[p] = IF p = r THEN [req[r] EXCEPT !.step = "still"] ELSE req[p]
        BY <2>2, <2>3 DEF RowInv
      <4> QED
        BY <2>1, <2>3, <3>1, <4>1 DEF Stays
    <3> QED
      BY <3>2
  <2>4. CASE req[r].op # "takeOff"
    BY <2>2, <2>4, OneStays
  <2> QED
    BY <2>3, <2>4
<1>9. CASE Insert(r)
  BY <1>9, OneStays DEF Insert
<1>10. ASSUME NEW who \in People, NEW kind \in Kinds, VisibleOwnerId(r, who, kind)
       PROVE  \A p \in Requests : Stays(p)
  <2>1. Asked(kind, "engage", who, <<>>).op = kind /\ kind \notin PhotoOps
    BY DEF Asked, Kinds, PhotoOps
  <2> QED
    <3> DEFINE q == Asked(kind, "engage", who, <<>>)
    <3>1. req' = [req EXCEPT ![r] = q]
      BY <1>10 DEF VisibleOwnerId
    <3> HIDE DEF q
    <3>2. q.op \notin PhotoOps
      BY <2>1 DEF q
    <3> QED
      BY <3>1, <3>2, OneStays
<1> QED
  BY <1>1, <1>2, <1>3, <1>4, <1>5, <1>6, <1>7, <1>8, <1>9, <1>10

-----------------------------------------------------------------------------
(* What a request about a file is at each step.                            *)

LEMMA PhotoRequestIs ==
    ASSUME RowInv, NEW r \in Requests, NEW step \in {"thumb", "insert", "takeOff", "still", "files"},
           At(r, step)
    PROVE  /\ IsRequest(req[r]) /\ req[r].step = step /\ req[r].data \in OnFile
           /\ req[r].data.file \in Files /\ req[r].data.shelf \in Shelves
           /\ req[r].data.small \in BOOLEAN
           /\ step \in {"thumb", "insert"} => req[r].op \in {"confirm", "backfill"}
           /\ step \notin {"thumb", "insert"} => req[r].op = "takeOff"
           /\ Does(r, req[r].op, req[r].data.file)
<1>1. IsRequest(req[r]) /\ req[r].step = step
  BY RequestIs
<1>2. /\ step \in {"thumb", "insert"} => req[r].op \in {"confirm", "backfill"}
      /\ step \notin {"thumb", "insert"} => req[r].op = "takeOff"
  BY <1>1 DEF IsRequest, Known, Kinds
<1>3. req[r].data \in OnFile
  BY <1>1, <1>2 DEF IsRequest
<1> QED
  BY <1>1, <1>2, <1>3 DEF OnFile, Does

(* Only the request itself goes on.                                        *)
LEMMA OtherJobs ==
    ASSUME RowInv, NEW r \in Requests, NEW q, req' = [req EXCEPT ![r] = q]
    PROVE  /\ req'[r] = q /\ \A p \in Requests : p # r => req'[p] = req[p]
           /\ \A p \in Requests : \A op, f : p # r => (Does(p, op, f)' <=> Does(p, op, f))
           /\ \A p \in Requests : \A f : p # r => (Inserts(p, f)' <=> Inserts(p, f))
<1>1. req'[r] = q /\ \A p \in Requests : p # r => req'[p] = req[p]
  BY DEF RowInv
<1>2. \A p \in Requests : \A op, f : p # r => (Does(p, op, f)' <=> Does(p, op, f))
  BY <1>1 DEF Does
<1> QED
  BY <1>1, <1>2 DEF Inserts

LEMMA UploadKeepsPhotos ==
    ASSUME PhotoInv, NEW f \in Files, Upload(f)
    PROVE  PhotoInv'
<1>1. /\ f \notin uploaded /\ files' = files \cup {f} /\ uploaded' = uploaded \cup {f}
      /\ UNCHANGED <<req, rows, small, thumbs, erased, met>> /\ UNCHANGED Mine
  BY DEF Upload, listingVars, Mine
<1>2. /\ \A p, op, g : Does(p, op, g)' <=> Does(p, op, g)
      /\ \A p, g : Inserts(p, g)' <=> Inserts(p, g)
  BY <1>1 DEF Does, Inserts
<1>3. PhotosTypeOK' /\ PhotoHasFile' /\ PhotosFit' /\ SmallAreShown'
  BY <1>1 DEF PhotoInv, PhotosTypeOK, PhotoHasFile, PhotosFit, SmallAreShown
<1>4. NotBoth' /\ ConfirmedIsStored'
  BY <1>1, <1>2 DEF PhotoInv, JobsAreSound, NotBoth, ConfirmedIsStored
<1>5. GoneIsUnshown' /\ ThumbIsMade'
  BY <1>1, <1>2 DEF PhotoInv, PhotosTypeOK, JobsAreSound, GoneIsUnshown, ThumbIsMade
<1>6. ErasedAreMine' /\ OneConfirms'
  BY <1>1, <1>2 DEF PhotoInv, JobsAreSound, ErasedAreMine, OneConfirms
<1> QED
  BY <1>3, <1>4, <1>5, <1>6 DEF PhotoInv, JobsAreSound

LEMMA ConfirmKeepsPhotos ==
    ASSUME RowInv, PhotoInv, NEW r \in Requests, NEW f \in Files, ConfirmUploads(r, f)
    PROVE  PhotoInv'
<1> DEFINE q == Asked("confirm", "thumb", Owner, [shelf |-> "mine", file |-> f, small |-> FALSE])
<1>1. /\ req' = [req EXCEPT ![r] = q] /\ q.op = "confirm" /\ q.step = "thumb"
      /\ q.data = [shelf |-> "mine", file |-> f, small |-> FALSE]
  <2>1. Known("confirm", "thumb") /\ "mine" \in Shelves /\ "confirm" \in {"confirm", "takeOff", "backfill"}
    BY DEF Known, Shelves
  <2>2. /\ PhotoAsked(r, "confirm", "thumb", "mine", f) = [req EXCEPT ![r] = q]
        /\ q.op = "confirm" /\ q.step = "thumb" /\ q.data = [shelf |-> "mine", file |-> f, small |-> FALSE]
    BY <2>1, PhotoAskedIs
  <2> QED
    BY <2>2 DEF ConfirmUploads
<1> HIDE DEF q
<1>2. /\ ~erased /\ rows["mine"][f] = 0 /\ Cardinality(Mine) < MaxImages /\ req[r] = Unused
      /\ UNCHANGED <<rows, small, files, thumbs, uploaded, erased>> /\ UNCHANGED Mine
  BY DEF ConfirmUploads, Attachable, RowsOfMine, Free, stored, Mine
<1>3. /\ met \subseteq met' /\ met' \subseteq Files
      /\ \A p \in Requests, g \in Files : Does(p, "confirm", g) => f \in met'
      /\ \A p \in Requests : Does(p, "takeOff", f) => f \in met'
      /\ f \in met' \/ f \in files
  <2>1. /\ met' = met \cup {g \in Files : WorkingOn(g, {"confirm"})}
                      \cup {g \in {f} : \/ \E h \in Files : WorkingOn(h, {"confirm"})
                                        \/ WorkingOn(f, {"takeOff"}) \/ f \notin files}
        /\ met \subseteq Files
    BY DEF ConfirmUploads, PhotoInv, PhotosTypeOK
  <2>2. \A p \in Requests : \A op, g : Does(p, op, g) => WorkingOn(g, {op})
    BY DEF Does, WorkingOn, InFlight
  <2> QED
    BY <2>1, <2>2
<1>4. /\ req'[r] = q
      /\ \A p \in Requests : p # r => req'[p] = req[p]
      /\ \A p \in Requests : \A op, g : p # r => (Does(p, op, g)' <=> Does(p, op, g))
      /\ \A p \in Requests : \A g : p # r => (Inserts(p, g)' <=> Inserts(p, g))
  BY <1>1, OtherJobs
<1>5. /\ \A op, g : Does(r, op, g)' <=> op = "confirm" /\ g = f
      /\ \A g : Inserts(r, g)' <=> g = f
  BY <1>1, <1>4 DEF Does, Inserts
<1>6. PhotosTypeOK' /\ PhotoHasFile' /\ PhotosFit' /\ SmallAreShown'
  BY <1>2, <1>3 DEF PhotoInv, PhotosTypeOK, PhotoHasFile, PhotosFit, SmallAreShown
<1>7. NotBoth'
  BY <1>3, <1>4, <1>5 DEF PhotoInv, JobsAreSound, NotBoth
<1>8. ConfirmedIsStored'
  BY <1>2, <1>3, <1>4, <1>5 DEF PhotoInv, JobsAreSound, ConfirmedIsStored
<1>9. GoneIsUnshown'
  BY <1>2, <1>3, <1>4, <1>5 DEF PhotoInv, JobsAreSound, GoneIsUnshown
<1>10. ThumbIsMade'
  BY <1>1, <1>2, <1>4, <1>5 DEF PhotoInv, JobsAreSound, ThumbIsMade
<1>11. ErasedAreMine'
  BY <1>1, <1>2, <1>4 DEF PhotoInv, JobsAreSound, ErasedAreMine
<1>12. OneConfirms'
  BY <1>2, <1>3, <1>4, <1>5 DEF PhotoInv, OneConfirms
<1> QED
  BY <1>6, <1>7, <1>8, <1>9, <1>10, <1>11, <1>12 DEF PhotoInv, JobsAreSound

LEMMA TryCreateKeepsPhotos ==
    ASSUME RowInv, PhotoInv, NEW r \in Requests, TryCreate(r)
    PROVE  PhotoInv'
<1> DEFINE f == req[r].data.file
<1>1. /\ IsRequest(req[r]) /\ req[r].step = "thumb" /\ req[r].data \in OnFile /\ f \in Files
      /\ req[r].op \in {"confirm", "backfill"}
  BY PhotoRequestIs DEF TryCreate
<1>0. Does(r, req[r].op, f)
  BY PhotoRequestIs DEF TryCreate
<1>2. PICK q : /\ req' = [req EXCEPT ![r] = q]
               /\ q = Done \/ /\ q.op = req[r].op /\ q.step = "insert" /\ q.data.file = f
                              /\ q.data.small => f \in files /\ f \in thumbs'
                              /\ q.op = "backfill" => q.data.small
  <2>1. CASE req' = [req EXCEPT ![r] = Made(req[r])] /\ f \in files /\ thumbs' = thumbs \cup {f}
    <3>1. Made(req[r]).op = req[r].op /\ Made(req[r]).step = "insert"
          /\ Made(req[r]).data = [shelf |-> req[r].data.shelf, file |-> f, small |-> TRUE]
      BY <1>1, MadeIs
    <3> DEFINE q == Made(req[r])
    <3>2. req' = [req EXCEPT ![r] = q] /\ q.op = req[r].op /\ q.step = "insert"
          /\ q.data.file = f /\ f \in files /\ f \in thumbs' /\ q.data.small
      BY <2>1, <3>1
    <3> HIDE DEF q, f
    <3> QED
      BY <3>2
  <2>2. CASE req' = [req EXCEPT ![r] = Done]
    BY <2>2
  <2>3. CASE req[r].op = "confirm" /\ req' = [req EXCEPT ![r] = [req[r] EXCEPT !.step = "insert"]]
    <3> DEFINE q == [req[r] EXCEPT !.step = "insert"]
    <3>1. q.op = req[r].op /\ q.step = "insert" /\ q.data = req[r].data
      BY <1>1, <2>3, StepOn DEF Known
    <3>2. ~req[r].data.small
      BY <1>0, <1>1 DEF PhotoInv, JobsAreSound, ThumbIsMade
    <3> HIDE DEF q
    <3>3. q.op = req[r].op /\ q.step = "insert" /\ q.data.file = f /\ ~q.data.small /\ q.op # "backfill"
      BY <2>3, <3>1, <3>2
    <3>4. req' = [req EXCEPT ![r] = q]
      BY <2>3 DEF q
    <3> QED
      BY <3>3, <3>4
  <2> QED
    BY <1>1, <2>1, <2>2, <2>3 DEF TryCreate, Made
<1>3. /\ UNCHANGED <<rows, small, files, uploaded, erased, met>> /\ UNCHANGED Mine
      /\ thumbs' = thumbs \/ (f \in files /\ thumbs' = thumbs \cup {f})
  BY <1>1 DEF TryCreate, Mine
<1>4. /\ req'[r] = q
      /\ \A p \in Requests : p # r => req'[p] = req[p]
      /\ \A p \in Requests : \A op, g : p # r => (Does(p, op, g)' <=> Does(p, op, g))
      /\ \A p \in Requests : \A g : p # r => (Inserts(p, g)' <=> Inserts(p, g))
  BY <1>2, OtherJobs
<1>5. /\ \A op, g : Does(r, op, g)' => q # Done /\ op = req[r].op /\ g = f /\ Does(r, op, g)
      /\ \A g : Inserts(r, g)' => Inserts(r, g)
  BY <1>0, <1>1, <1>2, <1>4 DEF Does, Inserts, Done
<1> HIDE DEF f
<1>6. PhotosTypeOK' /\ PhotoHasFile' /\ PhotosFit' /\ SmallAreShown'
  BY <1>3 DEF PhotoInv, PhotosTypeOK, PhotoHasFile, PhotosFit, SmallAreShown
<1>7. NotBoth' /\ ConfirmedIsStored'
  BY <1>3, <1>4, <1>5 DEF PhotoInv, JobsAreSound, NotBoth, ConfirmedIsStored
<1>8. GoneIsUnshown'
  BY <1>1, <1>3, <1>4, <1>5 DEF PhotoInv, JobsAreSound, GoneIsUnshown
<1>9. ThumbIsMade'
  BY <1>1, <1>2, <1>3, <1>4, <1>5 DEF PhotoInv, PhotosTypeOK, JobsAreSound, ThumbIsMade
<1>10. ErasedAreMine'
  BY <1>1, <1>2, <1>3, <1>4 DEF PhotoInv, JobsAreSound, ErasedAreMine, Done
<1>11. OneConfirms'
  BY <1>3, <1>4, <1>5 DEF PhotoInv, OneConfirms
<1> QED
  BY <1>6, <1>7, <1>8, <1>9, <1>10, <1>11 DEF PhotoInv, JobsAreSound

(* A photo that is shown or goes is made known, or the request is done.    *)
LEMMA ShowsOn ==
    ASSUME RowInv, NEW r \in Requests, IsRequest(req[r]), req[r].op \in {"confirm", "takeOff"},
           NEW next, next = Done \/ (IsRequest(next) /\ next.step = "still"), ShowsOther(r, next)
    PROVE  \E q : /\ req' = [req EXCEPT ![r] = q]
                  /\ q = next \/ /\ q.op = req[r].op /\ q.data = req[r].data /\ q.step = "after"
<1>1. /\ req' = [req EXCEPT ![r] = IF req[r].before.status # "Active" THEN next
                                   ELSE Showing(req[r])]
      /\ listing' \in Listing
  BY ShowsOtherIs
<1>2. LET p == Showing(req[r])
      IN  p.op = req[r].op /\ p.data = req[r].data /\ p.step = "after"
  BY <1>1, ShowingIs
<1>3. CASE req[r].before.status # "Active"
  BY <1>1, <1>3
<1>4. CASE ~(req[r].before.status # "Active")
  BY <1>1, <1>2, <1>4
<1> QED
  BY <1>3, <1>4

LEMMA InsertKeepsPhotos ==
    ASSUME RowInv, PhotoInv, NEW r \in Requests, InsertRows(r)
    PROVE  PhotoInv'
<1> DEFINE f == req[r].data.file
<1>1. /\ IsRequest(req[r]) /\ req[r].step = "insert" /\ f \in Files /\ req[r].op = "confirm"
      /\ Does(r, "confirm", f) /\ Inserts(r, f)
  <2>1. At(r, "insert") /\ req[r].op = "confirm"
    BY DEF InsertRows
  <2> QED
    BY <2>1, PhotoRequestIs DEF Inserts
<1>2. PICK q : /\ req' = [req EXCEPT ![r] = q]
               /\ q = Done \/ /\ q.op = "confirm" /\ q.data = req[r].data /\ q.step = "after"
  BY <1>1, ShowsOn DEF InsertRows
<1>3. /\ rows' = [rows EXCEPT !["mine"][f] = @ + 1]
      /\ small' = (IF req[r].data.small THEN small \cup {<<"mine", f>>} ELSE small)
      /\ UNCHANGED <<files, thumbs, uploaded, erased, met>>
  BY DEF InsertRows, stored
<1>4. /\ req'[r] = q
      /\ \A p \in Requests : p # r => req'[p] = req[p]
      /\ \A p \in Requests : \A op, g : p # r => (Does(p, op, g)' <=> Does(p, op, g))
      /\ \A p \in Requests : \A g : p # r => (Inserts(p, g)' <=> Inserts(p, g))
  BY <1>2, OtherJobs
<1>5. /\ \A op, g : Does(r, op, g)' => op = "confirm" /\ g = f /\ q.step = "after" /\ q.data = req[r].data
      /\ \A g : ~Inserts(r, g)'
  BY <1>2, <1>4 DEF Does, Inserts, Done
<1>6. /\ rows \in [Shelves -> [Files -> Nat]] /\ rows' \in [Shelves -> [Files -> Nat]]
      /\ rows'["theirs"] = rows["theirs"] /\ rows'["mine"][f] = rows["mine"][f] + 1
      /\ \A g \in Files : g # f => rows'["mine"][g] = rows["mine"][g]
      /\ Mine' = Mine \cup {f} /\ Mine \in SUBSET Files
  <2>1. rows \in [Shelves -> [Files -> Nat]]
    BY DEF PhotoInv, PhotosTypeOK
  <2>2. /\ rows' \in [Shelves -> [Files -> Nat]]
        /\ rows'["theirs"] = rows["theirs"] /\ rows'["mine"][f] = rows["mine"][f] + 1
        /\ \A g \in Files : g # f => rows'["mine"][g] = rows["mine"][g]
    BY <1>1, <1>3, <2>1, ShelvesAre
  <2>3. \A g \in Files : rows["mine"][g] \in Nat /\ rows'["mine"][g] \in Nat
    BY <2>1, <2>2, ShelvesAre
  <2> QED
    BY <1>1, <2>1, <2>2, <2>3 DEF Mine
<1>7. f \notin met /\ ~erased => f \in files /\ (<<"mine", f>> \in small' => f \in thumbs)
  <2>1. f \notin met /\ ~erased => f \in files
    BY <1>1 DEF PhotoInv, JobsAreSound, ConfirmedIsStored
  <2>2. req[r].data.small /\ f \in files => f \in thumbs
    BY <1>1 DEF PhotoInv, JobsAreSound, ThumbIsMade
  <2>3. <<"mine", f>> \in small /\ f \notin met /\ ~erased => f \in thumbs
    BY <1>1, ShelvesAre DEF PhotoInv, SmallAreShown, PhotoHasFile
  <2> QED
    BY <1>3, <2>1, <2>2, <2>3
<1> HIDE DEF f
<1>8. PhotosTypeOK' /\ SmallAreShown'
  <2>1. \A s \in Shelves, g \in Files : <<s, g>> \in small' => <<s, g>> \in small \/ (s = "mine" /\ g = f)
    BY <1>3
  <2>2. \A g \in Files : rows["mine"][g] \in Nat /\ rows["theirs"][g] \in Nat
    BY <1>6, ShelvesAre
  <2>3. SmallAreShown'
    BY <1>1, <1>6, <2>1, <2>2, ShelvesAre DEF PhotoInv, SmallAreShown
  <2>4. PhotosTypeOK'
    BY <1>1, <1>3, <1>6, ShelvesAre DEF PhotoInv, PhotosTypeOK
  <2> QED
    BY <2>3, <2>4
<1>9. PhotoHasFile'
  <2>1. \A s \in Shelves, g \in Files : <<s, g>> \in small' => <<s, g>> \in small \/ (s = "mine" /\ g = f)
    BY <1>3
  <2>2. ASSUME NEW s \in Shelves, NEW g \in Files \ met', rows'[s][g] > 0, ~(s = "mine" /\ erased')
        PROVE  g \in files' /\ (<<s, g>> \in small' => g \in thumbs')
    <3>1. CASE s = "mine" /\ g = f
      BY <1>3, <1>7, <2>2, <3>1
    <3>2. CASE ~(s = "mine" /\ g = f)
      <4>1. rows[s][g] > 0 /\ g \in Files \ met /\ ~(s = "mine" /\ erased)
        BY <1>3, <1>6, <2>2, <3>2, ShelvesAre
      <4> QED
        BY <1>3, <2>1, <3>2, <4>1 DEF PhotoInv, PhotoHasFile
    <3> QED
      BY <3>1, <3>2
  <2> QED
    BY <2>2 DEF PhotoHasFile
<1>10. PhotosFit'
  <2>1. met = {} => rows["mine"][f] = 0 /\ Cardinality(Mine) < MaxImages
    BY <1>1 DEF PhotoInv, OneConfirms
  <2>2. /\ Cardinality(Mine) \in Nat /\ Cardinality(Mine \cup {f}) \in Nat
        /\ Cardinality(Mine \cup {f}) <= Cardinality(Mine) + 1
    BY <1>1, <1>6, MineIsFinite
  <2>3. met = {} => Cardinality(Mine') <= MaxImages
    BY <1>6, <2>1, <2>2, ShelvesAre
  <2>4. ASSUME met = {}, NEW g \in Files PROVE rows'["mine"][g] <= 1
    <3>1. rows["mine"][g] <= 1
      BY <2>4 DEF PhotoInv, PhotosFit
    <3> QED
      BY <1>6, <2>1, <2>4, <3>1
  <2> QED
    BY <1>3, <2>3, <2>4 DEF PhotosFit
<1>11. NotBoth' /\ ConfirmedIsStored'
  BY <1>1, <1>3, <1>4, <1>5 DEF PhotoInv, JobsAreSound, NotBoth, ConfirmedIsStored
<1>12. GoneIsUnshown'
  <2>1. ASSUME NEW g \in Files, NEW p \in Requests, Does(p, "takeOff", g)', req'[p].step = "files"
        PROVE  rows'["theirs"][g] = 0 /\ (g \notin met' => rows'["mine"][g] = 0)
    <3>1. p # r /\ Does(p, "takeOff", g) /\ req[p].step = "files"
      BY <1>4, <1>5, <2>1
    <3>2. rows["theirs"][g] = 0 /\ (g \notin met => rows["mine"][g] = 0 /\ g # f)
      BY <1>1, <3>1 DEF PhotoInv, JobsAreSound, GoneIsUnshown, NotBoth
    <3> QED
      BY <1>3, <1>6, <3>2
  <2> QED
    BY <2>1 DEF GoneIsUnshown
<1>13. ThumbIsMade'
  BY <1>1, <1>3, <1>4, <1>5 DEF PhotoInv, JobsAreSound, ThumbIsMade
<1>14. ErasedAreMine'
  BY <1>2, <1>3, <1>4, <1>6 DEF PhotoInv, JobsAreSound, ErasedAreMine, Done
<1>15. OneConfirms'
  <2>1. ASSUME met = {}, NEW g \in Files, NEW p \in Requests, Inserts(p, g)'
        PROVE  FALSE
    <3>1. p # r /\ Does(p, "confirm", g)
      BY <1>4, <1>5, <2>1 DEF Inserts
    <3> QED
      BY <1>1, <2>1, <3>1 DEF PhotoInv, OneConfirms
  <2>2. \A g, h \in Files, p, o \in Requests :
          met = {} /\ Does(p, "confirm", g)' /\ Does(o, "confirm", h)' => p = o
    <3>2. \A g, h \in Files, p, o \in Requests :
            met = {} /\ Does(p, "confirm", g) /\ Does(o, "confirm", h) => p = o
      BY DEF PhotoInv, OneConfirms
    <3>1. \A g \in Files, p \in Requests : Does(p, "confirm", g)' => Does(p, "confirm", g)
      BY <1>1, <1>4, <1>5
    <3> QED
      BY <3>1, <3>2
  <2> QED
    BY <1>3, <2>1, <2>2 DEF OneConfirms
<1> QED
  BY <1>8, <1>9, <1>10, <1>11, <1>12, <1>13, <1>14, <1>15 DEF PhotoInv, JobsAreSound

LEMMA RemoveKeepsPhotos ==
    ASSUME RowInv, PhotoInv, NEW r \in Requests, NEW s \in Shelves, NEW f \in Files,
           RemoveImages(r, s, f)
    PROVE  PhotoInv'
<1> DEFINE q == Asked("takeOff", "takeOff", Owner, [shelf |-> s, file |-> f, small |-> FALSE])
<1>1. /\ req' = [req EXCEPT ![r] = q] /\ q.op = "takeOff" /\ q.step = "takeOff"
      /\ q.data = [shelf |-> s, file |-> f, small |-> FALSE]
  <2>1. Known("takeOff", "takeOff") /\ "takeOff" \in {"confirm", "takeOff", "backfill"}
    BY DEF Known
  <2>2. /\ PhotoAsked(r, "takeOff", "takeOff", s, f) = [req EXCEPT ![r] = q]
        /\ q.op = "takeOff" /\ q.step = "takeOff" /\ q.data = [shelf |-> s, file |-> f, small |-> FALSE]
    BY <2>1, PhotoAskedIs
  <2> QED
    BY <2>2 DEF RemoveImages
<1> HIDE DEF q
<1>2. UNCHANGED <<rows, small, files, thumbs, uploaded, erased>> /\ UNCHANGED Mine
  BY DEF RemoveImages, stored, Mine
<1>3. /\ met \subseteq met' /\ met' \subseteq Files
      /\ \A p \in Requests : Does(p, "confirm", f) => f \in met'
  BY DEF RemoveImages, Does, WorkingOn, InFlight, PhotoInv, PhotosTypeOK
<1>4. /\ req'[r] = q
      /\ \A p \in Requests : p # r => req'[p] = req[p]
      /\ \A p \in Requests : \A op, g : p # r => (Does(p, op, g)' <=> Does(p, op, g))
      /\ \A p \in Requests : \A g : p # r => (Inserts(p, g)' <=> Inserts(p, g))
  BY <1>1, OtherJobs
<1>5. /\ \A op, g : Does(r, op, g)' <=> op = "takeOff" /\ g = f
      /\ \A g : ~Inserts(r, g)'
  BY <1>1, <1>4 DEF Does, Inserts
<1>6. PhotosTypeOK' /\ PhotoHasFile' /\ PhotosFit' /\ SmallAreShown'
  BY <1>2, <1>3 DEF PhotoInv, PhotosTypeOK, PhotoHasFile, PhotosFit, SmallAreShown
<1>7. NotBoth'
  BY <1>3, <1>4, <1>5 DEF PhotoInv, JobsAreSound, NotBoth
<1>8. ConfirmedIsStored'
  BY <1>2, <1>3, <1>4, <1>5 DEF PhotoInv, JobsAreSound, ConfirmedIsStored
<1>9. GoneIsUnshown'
  BY <1>1, <1>2, <1>3, <1>4, <1>5 DEF PhotoInv, JobsAreSound, GoneIsUnshown
<1>10. ThumbIsMade'
  BY <1>1, <1>2, <1>4, <1>5 DEF PhotoInv, JobsAreSound, ThumbIsMade
<1>11. ErasedAreMine'
  BY <1>1, <1>2, <1>4 DEF PhotoInv, JobsAreSound, ErasedAreMine
<1>12. OneConfirms'
  BY <1>2, <1>3, <1>4, <1>5 DEF PhotoInv, OneConfirms
<1> QED
  BY <1>6, <1>7, <1>8, <1>9, <1>10, <1>11, <1>12 DEF PhotoInv, JobsAreSound

LEMMA DeleteKeepsPhotos ==
    ASSUME RowInv, PhotoInv, NEW r \in Requests, DeleteRows(r)
    PROVE  PhotoInv'
<1> DEFINE f == req[r].data.file
           t == req[r].data.shelf
<1>1. /\ IsRequest(req[r]) /\ req[r].step = "takeOff" /\ f \in Files /\ t \in Shelves
      /\ req[r].op = "takeOff" /\ Does(r, "takeOff", f)
  BY PhotoRequestIs DEF DeleteRows
<1>2. PICK q : /\ req' = [req EXCEPT ![r] = q]
               /\ q.op = "takeOff" /\ q.data = req[r].data /\ q.step \in {"after", "still"}
  <2> DEFINE still == [req[r] EXCEPT !.step = "still"]
  <2>1. IsRequest(still) /\ still.step = "still" /\ still.op = "takeOff" /\ still.data = req[r].data
    BY <1>1, StepOn DEF Known
  <2>2. ShowsOther(r, still) \/ req' = [req EXCEPT ![r] = still]
    BY DEF DeleteRows
  <2> HIDE DEF still
  <2>3. CASE ShowsOther(r, still)
    <3>1. PICK q : /\ req' = [req EXCEPT ![r] = q]
                   /\ q = still \/ /\ q.op = req[r].op /\ q.data = req[r].data /\ q.step = "after"
      BY <1>1, <2>1, <2>3, ShowsOn
    <3> QED
      BY <1>1, <2>1, <3>1
  <2> QED
    BY <2>1, <2>2, <2>3
<1>3. /\ rows' = [rows EXCEPT ![t][f] = 0] /\ small' = small \ {<<t, f>>}
      /\ UNCHANGED <<files, thumbs, uploaded, erased, met>>
  BY DEF DeleteRows, stored
<1>4. /\ req'[r] = q
      /\ \A p \in Requests : p # r => req'[p] = req[p]
      /\ \A p \in Requests : \A op, g : p # r => (Does(p, op, g)' <=> Does(p, op, g))
      /\ \A p \in Requests : \A g : p # r => (Inserts(p, g)' <=> Inserts(p, g))
  BY <1>2, OtherJobs
<1>5. /\ \A op, g : Does(r, op, g)' => op = "takeOff" /\ Does(r, op, g)
      /\ \A g : ~Inserts(r, g)' /\ q.step # "files"
  BY <1>1, <1>2, <1>4 DEF Does, Inserts
<1>6. /\ rows' \in [Shelves -> [Files -> Nat]] /\ Mine' \in SUBSET Mine /\ Mine \in SUBSET Files
      /\ \A s \in Shelves, g \in Files :
           rows[s][g] \in Nat /\ rows'[s][g] = IF s = t /\ g = f THEN 0 ELSE rows[s][g]
  <2>1. rows \in [Shelves -> [Files -> Nat]]
    BY DEF PhotoInv, PhotosTypeOK
  <2>2. \A s \in Shelves, g \in Files :
           rows[s][g] \in Nat /\ rows'[s][g] = IF s = t /\ g = f THEN 0 ELSE rows[s][g]
    BY <1>1, <1>3, <2>1
  <2>3. rows' \in [Shelves -> [Files -> Nat]]
    BY <1>1, <1>3, <2>1
  <2> HIDE DEF f, t
  <2> QED
    BY <2>2, <2>3, ShelvesAre DEF Mine
<1>7. \A s \in Shelves, g \in Files : <<s, g>> \in small' <=> <<s, g>> \in small /\ ~(s = t /\ g = f)
  BY <1>3
<1> HIDE DEF f, t
<1>8. PhotosTypeOK' /\ SmallAreShown' /\ PhotoHasFile'
  BY <1>3, <1>6, <1>7 DEF PhotoInv, PhotosTypeOK, SmallAreShown, PhotoHasFile
<1>9. PhotosFit'
  <2>1. Cardinality(Mine') <= Cardinality(Mine) /\ Cardinality(Mine) \in Nat /\ Cardinality(Mine') \in Nat
    BY <1>6, MineIsFinite
  <2>2. \A g \in Files : rows'["mine"][g] \in {0, rows["mine"][g]}
    BY <1>6, ShelvesAre
  <2>3. MaxImages \in Nat
    BY ShelvesAre
  <2> QED
    BY <1>3, <2>1, <2>2, <2>3 DEF PhotoInv, PhotosFit
<1>10. NotBoth' /\ ConfirmedIsStored'
  BY <1>3, <1>4, <1>5 DEF PhotoInv, JobsAreSound, NotBoth, ConfirmedIsStored
<1>11. GoneIsUnshown'
  BY <1>3, <1>4, <1>5, <1>6, ShelvesAre DEF PhotoInv, JobsAreSound, GoneIsUnshown
<1>12. ThumbIsMade'
  BY <1>3, <1>4, <1>5 DEF PhotoInv, JobsAreSound, ThumbIsMade
<1>13. ErasedAreMine'
  <2>1. \A g \in Files : rows["theirs"][g] = 0 => rows'["theirs"][g] = 0
    BY <1>6, ShelvesAre
  <2> QED
    BY <1>2, <1>3, <1>4, <2>1 DEF PhotoInv, JobsAreSound, ErasedAreMine
<1>14. OneConfirms'
  <2>1. Cardinality(Mine') <= Cardinality(Mine) /\ Cardinality(Mine) \in Nat /\ Cardinality(Mine') \in Nat
    BY <1>6, MineIsFinite
  <2>2. \A g \in Files : rows["mine"][g] = 0 => rows'["mine"][g] = 0
    BY <1>6, ShelvesAre
  <2>3. \A p \in Requests, g \in Files : /\ Inserts(p, g)' => Inserts(p, g)
                                         /\ Does(p, "confirm", g)' => Does(p, "confirm", g)
    BY <1>4, <1>5
  <2>4. MaxImages \in Nat
    BY ShelvesAre
  <2> QED
    BY <1>3, <2>1, <2>2, <2>3, <2>4 DEF PhotoInv, OneConfirms
<1> QED
  BY <1>8, <1>9, <1>10, <1>11, <1>12, <1>13, <1>14 DEF PhotoInv, JobsAreSound

LEMMA StillShownKeepsPhotos ==
    ASSUME RowInv, PhotoInv, NEW r \in Requests, FindStillShown(r)
    PROVE  PhotoInv'
<1> DEFINE f == req[r].data.file
           files1 == [req[r] EXCEPT !.step = "files"]
<1>1. /\ IsRequest(req[r]) /\ req[r].step = "still" /\ f \in Files /\ req[r].data.shelf \in Shelves
      /\ req[r].op = "takeOff" /\ Does(r, "takeOff", f)
  BY PhotoRequestIs DEF FindStillShown
<1>2. files1.step = "files" /\ files1.op = "takeOff" /\ files1.data = req[r].data
  BY <1>1, StepOn DEF Known
<1> HIDE DEF files1
<1>3. /\ UNCHANGED <<rows, small, files, thumbs, uploaded, erased, met>> /\ UNCHANGED Mine
      /\ \/ req' = [req EXCEPT ![r] = Done]
         \/ req' = [req EXCEPT ![r] = files1] /\ \A s \in Shelves : ~(rows[s][f] > 0)
  BY DEF FindStillShown, StillShown, photoVars, stored, Mine, files1
<1>4. CASE req' = [req EXCEPT ![r] = Done]
  <2>1. \A p \in Requests : Stays(p)
    BY <1>4, OneStays
  <2> QED
    BY <1>3, <2>1, JobsStay DEF photoVars, stored
<1>5. CASE req' = [req EXCEPT ![r] = files1] /\ \A s \in Shelves : ~(rows[s][f] > 0)
  <2>1. /\ req'[r] = files1
        /\ \A p \in Requests : p # r => req'[p] = req[p]
        /\ \A p \in Requests : \A op, g : p # r => (Does(p, op, g)' <=> Does(p, op, g))
        /\ \A p \in Requests : \A g : p # r => (Inserts(p, g)' <=> Inserts(p, g))
    BY <1>5, OtherJobs
  <2>2. /\ \A op, g : Does(r, op, g)' => op = "takeOff" /\ g = f /\ Does(r, op, g)
        /\ \A g : ~Inserts(r, g)'
    BY <1>1, <1>2, <2>1 DEF Does, Inserts
  <2>3. rows["mine"][f] = 0 /\ rows["theirs"][f] = 0
    <3>1. rows["mine"][f] \in Nat /\ rows["theirs"][f] \in Nat
      BY <1>1, ShelvesAre DEF PhotoInv, PhotosTypeOK
    <3> QED
      BY <1>5, <3>1, ShelvesAre
  <2> HIDE DEF f
  <2>4. PhotosTypeOK' /\ PhotoHasFile' /\ PhotosFit' /\ SmallAreShown'
    BY <1>3 DEF PhotoInv, PhotosTypeOK, PhotoHasFile, PhotosFit, SmallAreShown
  <2>5. NotBoth' /\ ConfirmedIsStored'
    BY <1>3, <2>1, <2>2 DEF PhotoInv, JobsAreSound, NotBoth, ConfirmedIsStored
  <2>6. GoneIsUnshown'
    BY <1>3, <2>1, <2>2, <2>3 DEF PhotoInv, JobsAreSound, GoneIsUnshown
  <2>7. ThumbIsMade' /\ ErasedAreMine'
    BY <1>2, <1>3, <2>1, <2>2 DEF PhotoInv, JobsAreSound, ThumbIsMade, ErasedAreMine
  <2>8. OneConfirms'
    BY <1>3, <2>1, <2>2 DEF PhotoInv, OneConfirms
  <2> QED
    BY <2>4, <2>5, <2>6, <2>7, <2>8 DEF PhotoInv, JobsAreSound
<1> QED
  BY <1>3, <1>4, <1>5

(* Files go that nobody shows, or whose owner leaves.                      *)
LEMMA FilesGo ==
    ASSUME RowInv, PhotoInv, NEW r \in Requests, NEW gone, RemoveUploadedFiles(gone),
           req' = [req EXCEPT ![r] = Done], UNCHANGED <<rows, small, erased, met>>,
           \A g \in Files : g \in gone =>
             /\ rows["theirs"][g] = 0
             /\ rows["mine"][g] = 0 \/ erased \/ g \in met
             /\ erased \/ g \in met \/ \A p \in Requests : ~Inserts(p, g)
    PROVE  PhotoInv'
<1>1. /\ files' \subseteq files /\ thumbs' \subseteq thumbs /\ uploaded' = uploaded
      /\ \A g \in Files : g \in files' /\ g \in thumbs => g \in thumbs'
      /\ \A g \in Files : g \in files \/ g \in thumbs =>
           g \in gone \/ ((g \in files' <=> g \in files) /\ (g \in thumbs' <=> g \in thumbs))
      /\ UNCHANGED Mine
  BY DEF RemoveUploadedFiles, stored, Mine
<1>2. /\ req'[r] = Done
      /\ \A p \in Requests : p # r => req'[p] = req[p]
      /\ \A p \in Requests : \A op, g : p # r => (Does(p, op, g)' <=> Does(p, op, g))
      /\ \A p \in Requests : \A g : p # r => (Inserts(p, g)' <=> Inserts(p, g))
  BY OtherJobs
<1>3. (\A op, g : ~Does(r, op, g)') /\ (\A g : ~Inserts(r, g)')
  BY <1>2 DEF Does, Inserts, Done
<1>4. PhotosTypeOK' /\ PhotosFit' /\ SmallAreShown'
  BY <1>1 DEF PhotoInv, PhotosTypeOK, PhotosFit, SmallAreShown
<1>5. PhotoHasFile'
  <2>1. ASSUME NEW s \in Shelves, NEW g \in Files \ met, rows[s][g] > 0, ~(s = "mine" /\ erased)
        PROVE  g \in files' /\ (<<s, g>> \in small => g \in thumbs')
    <3>1. g \notin gone
      BY <2>1, ShelvesAre
    <3>2. g \in files /\ (<<s, g>> \in small => g \in thumbs)
      BY <2>1 DEF PhotoInv, PhotoHasFile
    <3> QED
      BY <1>1, <3>1, <3>2
  <2> QED
    BY <2>1 DEF PhotoHasFile
<1>6. NotBoth'
  BY <1>2, <1>3 DEF PhotoInv, JobsAreSound, NotBoth
<1>7. ConfirmedIsStored'
  <2>1. ASSUME NEW g \in Files \ met, NEW p \in Requests, Inserts(p, g)', ~erased
        PROVE  g \in files'
    <3>1. Inserts(p, g) /\ g \in files
      BY <1>2, <1>3, <2>1 DEF PhotoInv, JobsAreSound, ConfirmedIsStored
    <3>2. g \notin gone
      BY <2>1, <3>1
    <3> QED
      BY <1>1, <3>1, <3>2
  <2> QED
    BY <2>1 DEF ConfirmedIsStored
<1>8. GoneIsUnshown' /\ ThumbIsMade' /\ ErasedAreMine'
  BY <1>1, <1>2, <1>3 DEF PhotoInv, JobsAreSound, GoneIsUnshown, ThumbIsMade, ErasedAreMine, Done
<1>9. OneConfirms'
  BY <1>1, <1>2, <1>3 DEF PhotoInv, OneConfirms
<1> QED
  BY <1>4, <1>5, <1>6, <1>7, <1>8, <1>9 DEF PhotoInv, JobsAreSound

LEMMA DeleteFilesKeepsPhotos ==
    ASSUME RowInv, PhotoInv, NEW r \in Requests, DeleteFilesQuietly(r)
    PROVE  PhotoInv'
<1> DEFINE f == req[r].data.file
<1>1. /\ req[r].step = "files" /\ f \in Files /\ Does(r, "takeOff", f)
  <2>1. At(r, "files")
    BY DEF DeleteFilesQuietly
  <2> QED
    BY <2>1, PhotoRequestIs
<1>2. /\ RemoveUploadedFiles({f}) /\ req' = [req EXCEPT ![r] = Done]
      /\ UNCHANGED <<rows, small, erased, met>>
  BY DEF DeleteFilesQuietly
<1>3. rows["theirs"][f] = 0 /\ (f \notin met => rows["mine"][f] = 0)
  BY <1>1 DEF PhotoInv, JobsAreSound, GoneIsUnshown
<1>4. f \notin met => \A p \in Requests : ~Inserts(p, f)
  BY <1>1 DEF PhotoInv, JobsAreSound, NotBoth, Inserts
<1> HIDE DEF f
<1> QED
  BY <1>2, <1>3, <1>4, FilesGo

LEMMA ErasureIs ==
    ASSUME RowInv, NEW r \in Requests, NEW step \in {"shared", "erase"}, At(r, step)
    PROVE  /\ IsRequest(req[r]) /\ req[r].step = step /\ req[r].op = "erase"
           /\ req[r].data \in OnFiles /\ req[r].data.gone \subseteq Files
<1>1. IsRequest(req[r]) /\ req[r].step = step
  BY RequestIs
<1>2. req[r].op = "erase"
  BY <1>1 DEF IsRequest, Known, Kinds
<1>3. req[r].data \in OnFiles
  BY <1>1, <1>2 DEF IsRequest
<1> QED
  BY <1>1, <1>2, <1>3 DEF OnFiles

LEMMA EraseKeepsPhotos ==
    ASSUME RowInv, PhotoInv, NEW r \in Requests, RemoveAllOwnedBy(r)
    PROVE  PhotoInv'
<1>1. req[r].step = "erase" /\ req[r].op = "erase"
  BY ErasureIs DEF RemoveAllOwnedBy
<1>2. /\ RemoveUploadedFiles(req[r].data.gone) /\ req' = [req EXCEPT ![r] = Done]
      /\ UNCHANGED <<rows, small, erased, met>>
  BY DEF RemoveAllOwnedBy
<1>3. erased /\ \A g \in Files : g \in req[r].data.gone => rows["theirs"][g] = 0
  BY <1>1 DEF PhotoInv, JobsAreSound, ErasedAreMine
<1> QED
  BY <1>2, <1>3, FilesGo

LEMMA FindOwnKeepsPhotos ==
    ASSUME RowInv, PhotoInv, NEW r \in Requests, FindOwnImages(r)
    PROVE  PhotoInv'
<1> DEFINE q == Asked("erase", "shared", Owner, [file |-> None, gone |-> Mine])
<1>1. q.op = "erase" /\ q.step = "shared"
  BY DEF Asked
<1>2. /\ req' = [req EXCEPT ![r] = q] /\ erased' = TRUE
      /\ UNCHANGED <<rows, small, files, thumbs, uploaded, met>> /\ UNCHANGED Mine
  BY DEF FindOwnImages, stored, Mine
<1> HIDE DEF q
<1>3. /\ req'[r] = q
      /\ \A p \in Requests : p # r => req'[p] = req[p]
      /\ \A p \in Requests : \A op, g : p # r => (Does(p, op, g)' <=> Does(p, op, g))
      /\ \A p \in Requests : \A g : p # r => (Inserts(p, g)' <=> Inserts(p, g))
  BY <1>2, OtherJobs
<1>4. (\A op, g : Does(r, op, g)' => op = "erase") /\ (\A g : ~Inserts(r, g)')
  BY <1>1, <1>3 DEF Does, Inserts
<1>5. PhotosTypeOK' /\ PhotosFit' /\ SmallAreShown' /\ PhotoHasFile'
  BY <1>2 DEF PhotoInv, PhotosTypeOK, PhotosFit, SmallAreShown, PhotoHasFile
<1>6. NotBoth' /\ ConfirmedIsStored' /\ GoneIsUnshown' /\ ThumbIsMade'
  BY <1>2, <1>3, <1>4
  DEF PhotoInv, JobsAreSound, NotBoth, ConfirmedIsStored, GoneIsUnshown, ThumbIsMade
<1>7. ErasedAreMine'
  BY <1>1, <1>2, <1>3 DEF PhotoInv, JobsAreSound, ErasedAreMine
<1>8. OneConfirms'
  BY <1>2, <1>3, <1>4 DEF PhotoInv, OneConfirms
<1> QED
  BY <1>5, <1>6, <1>7, <1>8 DEF PhotoInv, JobsAreSound

LEMMA FindSharedKeepsPhotos ==
    ASSUME RowInv, PhotoInv, NEW r \in Requests, FindShared(r)
    PROVE  PhotoInv'
<1> DEFINE q == Kept(req[r], rows["theirs"])
<1>1. /\ IsRequest(req[r]) /\ req[r].step = "shared" /\ req[r].op = "erase"
      /\ req[r].data \in OnFiles
  BY ErasureIs DEF FindShared
<1>2. /\ q.op = "erase" /\ q.step = "erase"
      /\ \A g \in Files : g \in q.data.gone => rows["theirs"][g] = 0
  BY <1>1, KeptIs
<1>3. /\ req' = [req EXCEPT ![r] = q]
      /\ UNCHANGED <<rows, small, files, thumbs, uploaded, erased, met>> /\ UNCHANGED Mine
  BY DEF FindShared, Kept, photoVars, stored, Mine
<1> HIDE DEF q
<1>4. /\ req'[r] = q
      /\ \A p \in Requests : p # r => req'[p] = req[p]
      /\ \A p \in Requests : \A op, g : p # r => (Does(p, op, g)' <=> Does(p, op, g))
      /\ \A p \in Requests : \A g : p # r => (Inserts(p, g)' <=> Inserts(p, g))
  BY <1>3, OtherJobs
<1>5. (\A op, g : Does(r, op, g)' => op = "erase") /\ (\A g : ~Inserts(r, g)')
  BY <1>2, <1>4 DEF Does, Inserts
<1>6. PhotosTypeOK' /\ PhotosFit' /\ SmallAreShown' /\ PhotoHasFile'
  BY <1>3 DEF PhotoInv, PhotosTypeOK, PhotosFit, SmallAreShown, PhotoHasFile
<1>7. NotBoth' /\ ConfirmedIsStored' /\ GoneIsUnshown' /\ ThumbIsMade'
  BY <1>3, <1>4, <1>5
  DEF PhotoInv, JobsAreSound, NotBoth, ConfirmedIsStored, GoneIsUnshown, ThumbIsMade
<1>8. ErasedAreMine'
  BY <1>1, <1>2, <1>3, <1>4 DEF PhotoInv, JobsAreSound, ErasedAreMine
<1>9. OneConfirms'
  BY <1>3, <1>4, <1>5 DEF PhotoInv, OneConfirms
<1> QED
  BY <1>6, <1>7, <1>8, <1>9 DEF PhotoInv, JobsAreSound

LEMMA BackfillKeepsPhotos ==
    ASSUME RowInv, PhotoInv, NEW r \in Requests, NEW f \in Files, Backfill(r, f)
    PROVE  PhotoInv'
<1> DEFINE q == Asked("backfill", "thumb", Owner, [shelf |-> "mine", file |-> f, small |-> FALSE])
<1>1. /\ req' = [req EXCEPT ![r] = q] /\ q.op = "backfill" /\ q.step = "thumb"
      /\ q.data = [shelf |-> "mine", file |-> f, small |-> FALSE]
  <2>1. Known("backfill", "thumb") /\ "mine" \in Shelves /\ "backfill" \in {"confirm", "takeOff", "backfill"}
    BY DEF Known, Shelves
  <2>2. /\ PhotoAsked(r, "backfill", "thumb", "mine", f) = [req EXCEPT ![r] = q]
        /\ q.op = "backfill" /\ q.step = "thumb" /\ q.data = [shelf |-> "mine", file |-> f, small |-> FALSE]
    BY <2>1, PhotoAskedIs
  <2> QED
    BY <2>2 DEF Backfill
<1> HIDE DEF q
<1>2. UNCHANGED <<rows, small, files, thumbs, uploaded, erased, met>> /\ UNCHANGED Mine
  BY DEF Backfill, photoVars, stored, Mine
<1>3. /\ req'[r] = q
      /\ \A p \in Requests : p # r => req'[p] = req[p]
      /\ \A p \in Requests : \A op, g : p # r => (Does(p, op, g)' <=> Does(p, op, g))
      /\ \A p \in Requests : \A g : p # r => (Inserts(p, g)' <=> Inserts(p, g))
  BY <1>1, OtherJobs
<1>4. (\A op, g : Does(r, op, g)' => op = "backfill") /\ (\A g : ~Inserts(r, g)')
  BY <1>1, <1>3 DEF Does, Inserts
<1>5. PhotosTypeOK' /\ PhotosFit' /\ SmallAreShown' /\ PhotoHasFile'
  BY <1>2 DEF PhotoInv, PhotosTypeOK, PhotosFit, SmallAreShown, PhotoHasFile
<1>6. NotBoth' /\ ConfirmedIsStored' /\ GoneIsUnshown'
  BY <1>2, <1>3, <1>4 DEF PhotoInv, JobsAreSound, NotBoth, ConfirmedIsStored, GoneIsUnshown
<1>7. ThumbIsMade' /\ ErasedAreMine'
  BY <1>1, <1>2, <1>3, <1>4 DEF PhotoInv, JobsAreSound, ThumbIsMade, ErasedAreMine
<1>8. OneConfirms'
  BY <1>2, <1>3, <1>4 DEF PhotoInv, OneConfirms
<1> QED
  BY <1>5, <1>6, <1>7, <1>8 DEF PhotoInv, JobsAreSound

LEMMA UpdateKeepsPhotos ==
    ASSUME RowInv, PhotoInv, NEW r \in Requests, UpdateRows(r)
    PROVE  PhotoInv'
<1> DEFINE f == req[r].data.file
<1>1. /\ req[r].step = "insert" /\ req[r].op = "backfill" /\ f \in Files
      /\ Does(r, "backfill", f)
  <2>1. At(r, "insert") /\ req[r].op = "backfill"
    BY DEF UpdateRows
  <2> QED
    BY <2>1, PhotoRequestIs
<1>2. /\ small' = small \cup {x \in Shelves \X {f} : rows[x[1]][x[2]] > 0}
      /\ req' = [req EXCEPT ![r] = Done]
      /\ UNCHANGED <<rows, files, thumbs, uploaded, erased, met>> /\ UNCHANGED Mine
  BY DEF UpdateRows, stored, Mine
<1>3. f \in files => f \in thumbs
  BY <1>1 DEF PhotoInv, JobsAreSound, ThumbIsMade
<1>4. /\ small' \subseteq Shelves \X Files
      /\ \A s \in Shelves, g \in Files :
           <<s, g>> \in small' <=> <<s, g>> \in small \/ (g = f /\ rows[s][g] > 0)
  BY <1>1, <1>2 DEF PhotoInv, PhotosTypeOK
<1>5. /\ req'[r] = Done
      /\ \A p \in Requests : p # r => req'[p] = req[p]
      /\ \A p \in Requests : \A op, g : p # r => (Does(p, op, g)' <=> Does(p, op, g))
      /\ \A p \in Requests : \A g : p # r => (Inserts(p, g)' <=> Inserts(p, g))
  BY <1>2, OtherJobs
<1>6. (\A op, g : ~Does(r, op, g)') /\ (\A g : ~Inserts(r, g)')
  BY <1>5 DEF Does, Inserts, Done
<1> HIDE DEF f
<1>7. PhotosTypeOK' /\ PhotosFit' /\ SmallAreShown' /\ PhotoHasFile'
  BY <1>2, <1>3, <1>4 DEF PhotoInv, PhotosTypeOK, PhotosFit, SmallAreShown, PhotoHasFile
<1>8. NotBoth' /\ ConfirmedIsStored' /\ GoneIsUnshown' /\ ThumbIsMade' /\ ErasedAreMine'
  BY <1>2, <1>5, <1>6
  DEF PhotoInv, JobsAreSound, NotBoth, ConfirmedIsStored, GoneIsUnshown, ThumbIsMade, ErasedAreMine, Done
<1>9. OneConfirms'
  BY <1>2, <1>5, <1>6 DEF PhotoInv, OneConfirms
<1> QED
  BY <1>7, <1>8, <1>9 DEF PhotoInv, JobsAreSound

LEMMA PhotosStart ==
    ASSUME Init
    PROVE  PhotoInv
<1>1. /\ rows \in [Shelves -> [Files -> 0..1]]
      /\ \A s \in Shelves, f \in Files : rows[s][f] = 1 <=> "photos" \in mix /\ f \in Legacy
      /\ files = Mine /\ uploaded = files
      /\ small = {} /\ thumbs = {} /\ erased = FALSE /\ met = {}
      /\ req = [r \in Requests |-> Unused]
  <2>1. rows \in [Shelves -> [Files -> 0..1]] /\ files = {f \in Files : rows["mine"][f] = 1}
    BY DEF Init, PhotosInit
  <2>2. \A f \in Files : rows["mine"][f] \in 0..1
    BY <2>1, ShelvesAre
  <2>3. files = Mine
    BY <2>1, <2>2 DEF Mine
  <2> QED
    BY <2>3 DEF Init, PhotosInit, ListingsInit
<1>2. \A s \in Shelves, f \in Files : rows[s][f] \in {0, 1} /\ rows[s][f] = rows["mine"][f]
  <2>1. \A s \in Shelves, f \in Files : rows[s][f] \in 0..1
    BY <1>1
  <2> QED
    BY <1>1, <2>1, ShelvesAre
<1>3. Mine \subseteq Legacy /\ Legacy \in SUBSET Files /\ Cardinality(Legacy) <= MaxImages
  <2>1. Legacy \in SUBSET Files /\ Cardinality(Legacy) <= MaxImages
    BY Zenon, PhotosAssumption
  <2>2. \A f \in Files : rows["mine"][f] > 0 => rows["mine"][f] = 1
    BY <1>2, ShelvesAre
  <2> QED
    BY <1>1, <2>1, <2>2, ShelvesAre DEF Mine
<1>4. Cardinality(Mine) <= MaxImages
  <2>1. /\ Cardinality(Mine) <= Cardinality(Legacy)
        /\ Cardinality(Legacy) \in Nat /\ Cardinality(Mine) \in Nat
    BY <1>3, MineIsFinite
  <2> QED
    BY <1>3, <2>1, ShelvesAre
<1>5. PhotosTypeOK /\ SmallAreShown
  <2>1. \A s \in Shelves : rows[s] \in [Files -> Nat]
    BY <1>1
  <2>2. rows \in [Shelves -> [Files -> Nat]]
    BY <1>1, <2>1
  <2> QED
    BY <1>1, <1>3, <2>2 DEF PhotosTypeOK, SmallAreShown, Mine
<1>6. PhotoHasFile
  BY <1>1, <1>2 DEF PhotoHasFile, Mine
<1>7. PhotosFit
  BY <1>2, <1>4, ShelvesAre DEF PhotosFit
<1>8. \A p \in Requests : (\A op, f : ~Does(p, op, f)) /\ (\A f : ~Inserts(p, f))
  BY <1>1 DEF Does, Inserts, Unused
<1>9. NotBoth /\ ConfirmedIsStored /\ GoneIsUnshown /\ ThumbIsMade /\ ErasedAreMine
  BY <1>1, <1>8 DEF NotBoth, ConfirmedIsStored, GoneIsUnshown, ThumbIsMade, ErasedAreMine, Unused
<1>10. OneConfirms
  BY <1>8 DEF OneConfirms
<1> QED
  BY <1>5, <1>6, <1>7, <1>9, <1>10 DEF PhotoInv, JobsAreSound

LEMMA PhotosStep ==
    ASSUME RowInv, PhotoInv, [Next]_vars
    PROVE  PhotoInv'
<1>1. CASE ListingsNext /\ UNCHANGED photoVars
  <2>1. ASSUME NEW d \in Readers, Reads(d)
        PROVE  req' = req
    BY <2>1 DEF Reads, Miss, Load, Store
  <2>2. ASSUME NEW who \in People, NEW kind \in Kinds, TakeBack(who, kind)
        PROVE  req' = req
    BY <2>2 DEF TakeBack
  <2>3. req' = req => \A p \in Requests : Stays(p)
    BY DEF Stays
  <2>4. \A p \in Requests : Stays(p)
    BY <1>1, <2>1, <2>2, <2>3, ListingsStay DEF ListingsNext, Reads
  <2> QED
    BY <1>1, <2>4, JobsStay
<1>2. CASE PhotosNext
  BY <1>2, UploadKeepsPhotos, TryCreateKeepsPhotos, InsertKeepsPhotos, DeleteKeepsPhotos,
     StillShownKeepsPhotos, DeleteFilesKeepsPhotos, FindOwnKeepsPhotos, FindSharedKeepsPhotos,
     EraseKeepsPhotos, UpdateKeepsPhotos, ConfirmKeepsPhotos, BackfillKeepsPhotos,
     RemoveKeepsPhotos DEF PhotosNext
<1>3. CASE (AlertsNext /\ UNCHANGED photoVars) \/ UNCHANGED vars
  <2>1. UNCHANGED photoVars /\ req' = req
    BY <1>3, ListenersAreQuiet DEF vars, listingVars
  <2>2. \A p \in Requests : Stays(p)
    BY <2>1 DEF Stays
  <2> QED
    BY <2>1, <2>2, JobsStay
<1> QED
  BY <1>1, <1>2, <1>3 DEF Next

LEMMA PhotosAlways == Spec => []PhotoInv
<1>1. Init => PhotoInv
  BY PhotosStart
<1>2. RowInv /\ PhotoInv /\ [Next]_vars => PhotoInv'
  BY PhotosStep
<1> QED
  BY <1>1, <1>2, RowAlways, PTL DEF Spec

(* A photo that is shown has its file and the thumbnail its row names,     *)
(* whatever was removed by whom, but for files that were confirmed before  *)
(* they were stored or while they were taken off, and the owner's own once *)
(* the account's files were erased; with no such file, and no two requests *)
(* that confirmed at once, photos are shown once and within the limit      *)
(* (removeImages, confirmUploads, removeAllOwnedBy).                       *)
THEOREM PhotosStaySound == Spec => []PhotosAreSound
<1>1. PhotoInv => PhotosAreSound
  BY DEF PhotoInv, PhotosAreSound
<1> QED
  BY <1>1, PhotosAlways, PTL

-----------------------------------------------------------------------------
(* What the public reads, and what others do.                              *)

ViewOK ==
    /\ looked \in Keys /\ cached \in Face \cup {None}
    /\ reading \in [Readers -> Reader \cup {None}]
    /\ engaged \in [Kinds -> SUBSET People]

LEMMA NowIsFace ==
    ASSUME RowInv
    PROVE  Now(looked) \in Face /\ Absent \in Face
<1>1. Shown \in Face /\ Absent \in Face
  BY DEF RowInv, Listing, Shown, Absent, Face
<1>2. Now(looked) \in {Shown, Absent}
  <2>1. Now(looked) = Shown \/ Now(looked) = Absent
    BY Zenon DEF Now
  <2> QED
    BY <2>1
<1> QED
  BY <1>1, <1>2

(* An outdated answer is not stored by those who are reading.              *)
Overtaken(x) == [x EXCEPT !.current = FALSE]

LEMMA OvertakenIs ==
    ASSUME NEW x \in Reader
    PROVE  Overtaken(x) \in Reader /\ Overtaken(x).step = x.step /\ ~Overtaken(x).current
  BY DEF Overtaken, Reader

(* The page's own readers are not overtaken.                               *)
AfterOutdate(x, page) == IF x = None \/ page THEN x ELSE Overtaken(x)

LEMMA AfterOutdateIs ==
    ASSUME NEW x, NEW page \in BOOLEAN
    PROVE  \/ (x = None \/ page) /\ AfterOutdate(x, page) = x
           \/ x # None /\ ~page /\ AfterOutdate(x, page) = Overtaken(x)
  BY DEF AfterOutdate

LateStores ==
    \E d \in Readers : /\ looked.of = "page" /\ reading[d] # None
                       /\ reading[d].step = "store" /\ reading[d].value # Now(looked)

LEMMA OutdateIs ==
    ASSUME RowInv, ViewOK, NEW r \in Requests, Outdate(r)
    PROVE  /\ cached' \in {cached, None} /\ reading' \in [Readers -> Reader \cup {None}]
           /\ \A d \in Readers :
                reading'[d] = reading[d] \/ (reading[d] # None /\ reading'[d] = Overtaken(reading[d]))
           /\ \/ /\ Outdates(req[r]) /\ cached' = None /\ late' = LateStores
                 /\ \A d \in Readers :
                      reading'[d] = AfterOutdate(reading[d], looked.of = "page")
              \/ Outdates(req[r]) /\ lost'
              \/ ~Outdates(req[r]) /\ UNCHANGED <<cached, reading, misread, lost, late>>
<1> DEFINE new(d) == AfterOutdate(reading[d], looked.of = "page")
<1>1. \/ /\ Outdates(req[r]) /\ cached' = None /\ late' = LateStores
         /\ reading' = [d \in Readers |-> new(d)]
      \/ Outdates(req[r]) /\ lost' /\ cached' = cached /\ reading' = reading
      \/ ~Outdates(req[r]) /\ UNCHANGED <<cached, reading, misread, lost, late>>
  BY DEF Outdate, Overtaken, AfterOutdate, LateStores
<1>2. \A d \in Readers : new(d) = reading[d] \/ (reading[d] # None /\ new(d) = Overtaken(reading[d]))
  BY AfterOutdateIs
<1>3. \A d \in Readers : new(d) \in Reader \cup {None}
  BY <1>2, OvertakenIs DEF ViewOK
<1>4. reading' \in [Readers -> Reader \cup {None}] /\ cached' \in {cached, None}
  BY <1>1, <1>3 DEF ViewOK
<1>5. \/ \A d \in Readers : reading'[d] = new(d)
      \/ \A d \in Readers : reading'[d] = reading[d]
  BY <1>1
<1>6. \A d \in Readers :
        reading'[d] = reading[d] \/ (reading[d] # None /\ reading'[d] = Overtaken(reading[d]))
  BY <1>2, <1>5
<1>7. \/ /\ Outdates(req[r]) /\ cached' = None /\ late' = LateStores
         /\ \A d \in Readers : reading'[d] = new(d)
      \/ Outdates(req[r]) /\ lost'
      \/ ~Outdates(req[r]) /\ UNCHANGED <<cached, reading, misread, lost, late>>
  BY <1>1
<1> QED
  BY <1>4, <1>6, <1>7

(* The cache changes with an announcement, and by reading.                 *)
LEMMA CacheStays ==
    ASSUME RowInv, NEW r \in Requests,
           \/ Create(r) \/ Update(r) \/ Move(r) \/ SetStatus(r) \/ Write(r)
           \/ BeginPublish(r) \/ SettlePublish(r) \/ GoLive(r) \/ ReleasePending(r)
           \/ VisibilityChanged(r) \/ ReadRow(r)
           \/ \E who \in People, kind \in Kinds : VisibleOwnerId(r, who, kind)
    PROVE  UNCHANGED <<cacheVars, engaged, lost, late>> /\ (Write(r) \/ misread' = misread)
<1>1. CASE Create(r) \/ Update(r) \/ Move(r) \/ SetStatus(r) \/ BeginPublish(r)
  <2>1. PICK op, data : Begins(r, op, data)
    BY <1>1, TheyBegin
  <2> QED
    BY <2>1 DEF Begins, history
<1>2. CASE Write(r) \/ SettlePublish(r) \/ GoLive(r) \/ ReleasePending(r)
  BY Zenon, <1>2 DEF Write, SettlePublish, GoLive, ReleasePending
<1>3. CASE VisibilityChanged(r) \/ ReadRow(r) \/ \E who \in People, kind \in Kinds : VisibleOwnerId(r, who, kind)
  <2>1. UNCHANGED cacheVars /\ UNCHANGED engaged /\ UNCHANGED history
    BY Zenon, <1>3 DEF VisibilityChanged, ReadRow, VisibleOwnerId
  <2> QED
    BY <2>1 DEF history
<1> QED
  BY <1>1, <1>2, <1>3

LEMMA PhotosLeaveTheRest ==
    ASSUME PhotosNext
    PROVE  UNCHANGED Unphotographed
<1>1. ASSUME NEW f \in Files, Upload(f)
      PROVE  UNCHANGED Unphotographed
  BY <1>1 DEF Upload, listingVars, history, Unphotographed
<1>2. ASSUME NEW r \in Requests,
             \/ TryCreate(r) \/ InsertRows(r) \/ DeleteRows(r) \/ FindStillShown(r)
             \/ DeleteFilesQuietly(r) \/ FindOwnImages(r) \/ FindShared(r) \/ RemoveAllOwnedBy(r)
             \/ UpdateRows(r)
             \/ \E f \in Files : \/ ConfirmUploads(r, f) \/ Backfill(r, f)
                                 \/ \E s \in Shelves : RemoveImages(r, s, f)
      PROVE  UNCHANGED Unphotographed
  BY Zenon, <1>2 DEF TryCreate, InsertRows, DeleteRows, FindStillShown, DeleteFilesQuietly,
                     FindOwnImages, FindShared, RemoveAllOwnedBy, UpdateRows, ConfirmUploads,
                     Backfill, RemoveImages
<1> QED
  BY <1>1, <1>2 DEF PhotosNext

LEMMA ListenersLeaveTheRest ==
    ASSUME AlertsNext
    PROVE  UNCHANGED Unlistened
<1>1. ASSUME NEW e \in events, Listens(e)
      PROVE  UNCHANGED Unlistened
  BY Zenon, <1>1 DEF Listens, ClaimFollowers, TellFollowers, ReadListing, MatchingSearches,
                     ClaimNew, PushMatches, ClaimDrop, TellSavers, Breaks
<1>2. ASSUME NEW s \in Searches, Saves(s)
      PROVE  UNCHANGED Unlistened
  BY Zenon, <1>2 DEF Saves, CountSearches, SaveSearch, SwitchAlerts, RemoveSearch
<1>3. CASE DayPasses
  BY <1>3 DEF DayPasses
<1> QED
  BY <1>1, <1>2, <1>3 DEF AlertsNext, Listens, Saves

LEMMA ReadersKeepView ==
    ASSUME RowInv, ViewOK, NEW d \in Readers, Reads(d)
    PROVE  ViewOK'
<1>1. Now(looked) \in Face /\ Absent \in Face
  BY NowIsFace
<1>2. looked' = looked /\ engaged' = engaged
  BY DEF Reads, Miss, Load, Store
<1>3. CASE Miss(d)
  BY <1>1, <1>2, <1>3 DEF Miss, ViewOK, Reader
<1>4. CASE Load(d)
  <2> DEFINE x == [reading[d] EXCEPT !.step = "store", !.value = Now(looked)]
  <2>1. reading[d] \in Reader
    BY <1>4 DEF Load, ViewOK
  <2>2. x \in Reader
    BY <1>1, <2>1 DEF Reader
  <2>3. cached' = cached /\ (reading' = [reading EXCEPT ![d] = None] \/ reading' = [reading EXCEPT ![d] = x])
    BY <1>4 DEF Load
  <2> HIDE DEF x
  <2> QED
    BY <1>2, <2>2, <2>3 DEF ViewOK
<1>5. CASE Store(d)
  <2>1. reading[d] \in Reader
    BY <1>5 DEF Store, ViewOK
  <2>2. cached' \in Face \cup {None} /\ reading' \in [Readers -> Reader \cup {None}]
    BY <1>5, <2>1 DEF Store, ViewOK, Reader
  <2> QED
    BY <1>2, <2>2 DEF ViewOK
<1> QED
  BY <1>3, <1>4, <1>5 DEF Reads

LEMMA ViewStep ==
    ASSUME RowInv, ViewOK, [Next]_vars
    PROVE  ViewOK'
<1>1. ASSUME UNCHANGED <<cacheVars, engaged>> PROVE ViewOK'
  BY <1>1 DEF ViewOK, cacheVars
<1>2. CASE ListingsNext
  <2>1. ASSUME NEW r \in Requests, Announce(r) PROVE ViewOK'
    <3>1. Outdate(r) /\ looked' = looked /\ engaged' = engaged
      BY <2>1 DEF Announce
    <3>2. cached' \in {cached, None} /\ reading' \in [Readers -> Reader \cup {None}]
      BY <3>1, OutdateIs
    <3> QED
      BY <3>1, <3>2 DEF ViewOK
  <2>2. ASSUME NEW r \in Requests, Insert(r) PROVE ViewOK'
    <3>1. IsRequest(req[r]) /\ req[r].step = "engage"
      BY <2>2, RequestIs DEF Insert
    <3>2. req[r].op \in Kinds /\ req[r].who \in People
      BY <3>1 DEF IsRequest, Known
    <3>3. engaged' \in [Kinds -> SUBSET People] /\ UNCHANGED <<looked, cached, reading>>
      BY <2>2, <3>2 DEF Insert, ViewOK, cacheVars
    <3> QED
      BY <3>3 DEF ViewOK
  <2>3. ASSUME NEW who \in People, NEW kind \in Kinds, TakeBack(who, kind) PROVE ViewOK'
    <3>1. engaged' \in [Kinds -> SUBSET People] /\ UNCHANGED <<looked, cached, reading>>
      BY <2>3 DEF TakeBack, ViewOK, cacheVars
    <3> QED
      BY <3>1 DEF ViewOK
  <2> QED
    BY <1>1, <1>2, <2>1, <2>2, <2>3, ReadersKeepView, CacheStays DEF ListingsNext, Reads
<1>3. CASE PhotosNext
  BY <1>1, <1>3, PhotosLeaveTheRest DEF Unphotographed
<1>4. CASE AlertsNext
  BY <1>1, <1>4, ListenersLeaveTheRest DEF Unlistened
<1>5. CASE UNCHANGED vars
  BY <1>1, <1>5 DEF vars, listingVars
<1> QED
  BY <1>2, <1>3, <1>4, <1>5 DEF Next

LEMMA ViewAlways == Spec => []ViewOK
<1>1. Init => ViewOK
  BY DEF Init, ListingsInit, ViewOK
<1>2. RowInv /\ ViewOK /\ [Next]_vars => ViewOK'
  BY ViewStep
<1> QED
  BY <1>1, <1>2, RowAlways, PTL DEF Spec

(* Everything has its type: rows, requests, answers, photos, searches and  *)
(* events.                                                                 *)
THEOREM TypeInvariant == Spec => []TypeOK
<1>1. RowInv /\ ViewOK => ListingsTypeOK
  BY DEF RowInv, ViewOK, ListingsTypeOK, InFlight, IsRequest, Unused, Done
<1>2. PhotoInv => PhotosTypeOK
  BY DEF PhotoInv
<1>3. AlertInv => AlertsTypeOK
  BY DEF AlertInv
<1> QED
  BY <1>1, <1>2, <1>3, RowAlways, ViewAlways, PhotosAlways, AlertsAlways, PTL DEF TypeOK

-----------------------------------------------------------------------------
(* What the public reads is what is stored.                                *)

(* A change of a listing at a place concerns the answer that is looked at. *)
Covers(place) ==
    looked.of = "map" /\ ~IsWide(looked.box) => CellOf(place) \cap CellsIn(looked.box) # {}

MayShow == listing.status = "Active" /\ Covers(listing.place)

(* Somebody has yet to outdate the answer.                                 *)
Outdating(p) == req[p].step = "after" /\ Outdates(req[p])
ToOutdate ==
    \/ \E p \in Requests : Outdating(p)
    \/ MayShow /\ \E p \in Requests : req[p].step = "row"

(* An answer that says something else, or will, is about to be outdated.   *)
CacheInv ==
    ~misread /\ ~lost /\ ~late =>
      /\ cached \notin {None, Now(looked)} => ToOutdate
      /\ \A k \in Readers :
           /\ reading[k] # None /\ reading[k].step = "store" /\ reading[k].current
           /\ reading[k].value # Now(looked)
           => ToOutdate

(* Who is on the map is in one of its cells.                               *)
LEMMA DivisionGrows ==
    ASSUME NEW a \in Int, NEW b \in Int, a <= b, NEW c \in Nat \ {0}
    PROVE  a \div c <= b \div c
<1> DEFINE p == a \div c
           q == b \div c
<1>1. p \in Int /\ q \in Int /\ c * p <= a /\ b < c * q + c
  OBVIOUS
<1> HIDE DEF p, q
<1>2. ASSUME q + 1 <= p PROVE FALSE
  <2>1. c * (q + 1) <= c * p
    BY <1>1, <1>2
  <2>2. c * (q + 1) = c * q + c
    BY <1>1
  <2> QED
    BY <1>1, <2>1, <2>2
<1>3. p <= q
  BY <1>1, <1>2
<1> QED
  BY <1>3 DEF p, q

LEMMA MapsAre ==
    ASSUME ViewOK, looked.of = "map"
    PROVE  looked.box.min \in Int /\ looked.box.max \in Int
<1>1. PICK b \in Boxes : looked = [of |-> "map", box |-> WidenToGrid(b)]
  BY DEF ViewOK, Keys
<1>2. b.min \in Int /\ b.max \in Int /\ GridStep \in Int /\ GridStep > 0
  BY MapSearchAssumption, ListingsAssumption
<1>3. WidenToGrid(b).min \in Int /\ WidenToGrid(b).max \in Int
  BY <1>2 DEF WidenToGrid
<1> QED
  BY <1>1, <1>3

LEMMA OnMapIsCovered ==
    ASSUME ViewOK, NEW x \in Positions \cup {None},
           looked.of = "map" => InBox(x, looked.box)
    PROVE  Covers(x)
<1> SUFFICES ASSUME looked.of = "map" PROVE CellOf(x) \cap CellsIn(looked.box) # {}
  BY DEF Covers
<1>1. /\ x \in Int /\ x # None /\ CellSize \in Nat \ {0}
      /\ x >= looked.box.min /\ x <= looked.box.max
      /\ looked.box.min \in Int /\ looked.box.max \in Int
  BY MapSearchAssumption, MapsAre DEF InBox
<1>2. looked.box.min \div CellSize <= x \div CellSize /\ x \div CellSize <= looked.box.max \div CellSize
  BY <1>1, DivisionGrows
<1>3. x \div CellSize \in Int /\ looked.box.min \div CellSize \in Int /\ looked.box.max \div CellSize \in Int
  BY <1>1
<1>4. x \div CellSize \in CellOf(x) /\ x \div CellSize \in CellsIn(looked.box)
  BY <1>1, <1>2, <1>3 DEF CellOf, CellsIn
<1> QED
  BY <1>4

LEMMA ShownMayShow ==
    ASSUME ViewOK, RowInv
    PROVE  MayShow \/ Now(looked) = Absent
<1> SUFFICES ASSUME Now(looked) # Absent PROVE MayShow
  OBVIOUS
<1>1. /\ listing.status = "Active" /\ listing.place \in Positions \cup {None}
      /\ looked.of = "map" => InBox(listing.place, looked.box)
  BY DEF Now, Published, RowInv, Listing
<1> QED
  BY <1>1, OnMapIsCovered DEF MayShow

LEMMA WillMayShow ==
    ASSUME ViewOK, looked' = looked, RowInv'
    PROVE  MayShow' \/ Now(looked)' = Absent
<1> SUFFICES ASSUME Now(looked)' # Absent PROVE MayShow'
  OBVIOUS
<1>1. /\ listing'.status = "Active" /\ listing'.place \in Positions \cup {None}
      /\ looked.of = "map" => InBox(listing'.place, looked.box)
  BY DEF Now, Published, RowInv, Listing
<1>2. Covers(listing'.place)
  BY <1>1, OnMapIsCovered
<1> QED
  BY <1>1, <1>2 DEF MayShow, Covers

(* Who has yet to outdate the answer will, until it does.                  *)
LEMMA SameOutdates ==
    ASSUME NEW p \in Requests, req'[p] = req[p], looked' = looked
    PROVE  Outdating(p)' <=> Outdating(p)
<1>1. Outdates(req[p])' <=> Outdates(req[p])
  BY DEF Outdates
<1> QED
  BY <1>1 DEF Outdating

(* A step that does not touch the answer keeps this if nobody forgets to   *)
(* outdate, and whoever changes what may be shown sees to it.              *)
LEMMA CacheKept ==
    ASSUME RowInv, ViewOK, RowInv', CacheInv, UNCHANGED <<looked, cached, reading, lost, late>>,
           ~misread' => /\ ~misread
                        /\ \A p \in Requests : Outdating(p) => req'[p] = req[p]
                        /\ \/ /\ UNCHANGED <<listing, hidden>>
                              /\ \A p \in Requests : req[p].step = "row" => req'[p] = req[p]
                           \/ MayShow \/ MayShow' => ToOutdate'
    PROVE  CacheInv'
<1> SUFFICES ASSUME ~misread', ~lost', ~late'
             PROVE  /\ cached' \notin {None, Now(looked)'} => ToOutdate'
                    /\ \A k \in Readers :
                         /\ reading'[k] # None /\ reading'[k].step = "store" /\ reading'[k].current
                         /\ reading'[k].value # Now(looked)'
                         => ToOutdate'
  BY DEF CacheInv
<1>1. /\ ~misread /\ ~lost /\ ~late
      /\ \A p \in Requests : Outdating(p) => req'[p] = req[p]
  OBVIOUS
<1>2. (\E p \in Requests : Outdating(p)) => ToOutdate'
  <2> SUFFICES ASSUME NEW p \in Requests, Outdating(p) PROVE Outdating(p)'
    BY DEF ToOutdate
  <2> QED
    BY <1>1, SameOutdates DEF Outdating
<1>3. ToOutdate' \/ (Now(looked)' = Now(looked) /\ ~ToOutdate)
  <2>1. CASE /\ UNCHANGED <<listing, hidden>>
             /\ \A p \in Requests : req[p].step = "row" => req'[p] = req[p]
    <3>1. Now(looked)' = Now(looked)
      BY <2>1 DEF Now, Published, Shown
    <3>2. MayShow' <=> MayShow
      BY <2>1 DEF MayShow, Covers
    <3> QED
      BY <1>2, <2>1, <3>1, <3>2 DEF ToOutdate
  <2>2. CASE (MayShow \/ MayShow') /\ ToOutdate'
    BY <2>2
  <2>3. CASE ~MayShow /\ ~MayShow'
    <3>1. Now(looked) = Absent /\ Now(looked)' = Absent
      BY <2>3, ShownMayShow, WillMayShow
    <3> QED
      BY <1>2, <2>3, <3>1 DEF ToOutdate
  <2> QED
    BY <2>1, <2>2, <2>3
<1> QED
  BY <1>1, <1>3 DEF CacheInv

(* Whoever writes the row outdates where it was and where it is.           *)
LEMMA OutdatesBoth ==
    ASSUME NEW p \in Requests, looked' = looked,
           req'[p].step = "after", "Active" \in StatusesOf(req'[p]),
           NEW place, Covers(place), CellOf(place) \subseteq CellsOf(req'[p])
    PROVE  ToOutdate'
<1>1. Outdates(req[p])'
  BY DEF Outdates, Covers
<1> QED
  BY <1>1 DEF ToOutdate, Outdating

LEMMA WriteKeepsCache ==
    ASSUME RowInv, ViewOK, CacheInv, NEW r \in Requests, Write(r)
    PROVE  CacheInv'
<1>1. /\ IsRequest(req[r]) /\ req[r].step = "write"
      /\ listing \in Listing /\ listing' \in Listing /\ listing' = Over(req[r].data, listing)
      /\ req' = Others(r, IF req[r].op = "park" THEN Done ELSE Wrote(req[r], listing'))
      /\ misread' = (misread \/ SawAnother(req[r]))
      /\ Writes(req[r].op, req[r].data, req[r].before)
      /\ UNCHANGED <<looked, cached, reading, lost, late>>
  BY WriteIs DEF RowInv, IsRequest, cacheVars
<1>2. RowInv'
  BY WriteKeepsRow
<1>3. \A p \in Requests : req[p].step = "after" => req'[p] = req[p]
  BY <1>1 DEF Others, Unwritten
<1>4. ASSUME ~misread', MayShow \/ MayShow'
      PROVE  ToOutdate'
  <2> DEFINE q == Wrote(req[r], listing')
             op == req[r].op
  <2>1. req[r].before.status = listing.status /\ req[r].before.place = listing.place
    BY <1>1, <1>4 DEF SawAnother
  <2>2. /\ listing'.place # listing.place => op = "move"
        /\ listing'.status = "Active" /\ listing.status # "Active" => op \in {"create", "publish", "relist"}
        /\ op = "park" => listing'.status = "Pending" /\ CanPublish(listing.status)
    BY <1>1, <2>1 DEF Writes
  <2>3. op # "park"
    BY <1>4, <2>2 DEF MayShow, CanPublish
  <2>4. /\ q.op = op /\ q.step = "after" /\ q.before = req[r].before /\ q.after = listing'
        /\ req'[r] = q
    BY <1>1, <2>3, WroteIs DEF Others
  <2> HIDE DEF q
  <2>5. "Active" \in StatusesOf(q)
    <3>1. q.op \notin {"settle", "account"}
      BY <1>1, <2>4 DEF IsRequest, Known, Kinds
    <3>2. q.before.status \in StatusesOf(q)
      BY <3>1 DEF StatusesOf
    <3>3. op \in {"create", "publish", "relist"} => q.after.status \in StatusesOf(q)
      BY <2>4 DEF StatusesOf
    <3> QED
      BY <1>4, <2>1, <2>2, <2>4, <3>2, <3>3 DEF MayShow
  <2>6. CellOf(listing'.place) \subseteq CellsOf(q) /\ CellOf(listing.place) \subseteq CellsOf(q)
    BY <2>1, <2>2, <2>4 DEF CellsOf
  <2>7. Covers(listing.place) \/ Covers(listing'.place)
    BY <1>1, <1>4 DEF MayShow, Covers
  <2> QED
    BY <1>1, <2>4, <2>5, <2>6, <2>7, OutdatesBoth
<1> QED
  BY <1>1, <1>2, <1>3, <1>4, CacheKept DEF Outdating

(* A request that is not yet, or no longer, about to outdate goes on.      *)
LEMMA QuietKeepsCache ==
    ASSUME RowInv, RowInv', ViewOK, CacheInv,
           UNCHANGED <<listing, hidden, looked, cached, reading, misread, lost, late>>,
           req' = req \/ \E r \in Requests : /\ \E q : req' = [req EXCEPT ![r] = q]
                                             /\ req[r].step \notin {"after", "row"}
    PROVE  CacheInv'
<1>1. \A p \in Requests : req[p].step \in {"after", "row"} => req'[p] = req[p]
  BY DEF RowInv
<1> QED
  BY <1>1, CacheKept DEF Outdating

(* Who puts it on the market, or shows its owner, will read the row.       *)
LEMMA MarketKeepsCache ==
    ASSUME RowInv, RowInv', ViewOK, CacheInv, NEW r \in Requests,
           SettlePublish(r) \/ GoLive(r) \/ ReleasePending(r) \/ VisibilityChanged(r)
    PROVE  CacheInv'
<1>1. UNCHANGED <<looked, cached, reading, lost, late>>
  BY CacheStays DEF cacheVars
<1>2. req[r].step \in {"unused", "second"}
  <2>1. Free(r) \/ At(r, "second")
    BY Zenon DEF SettlePublish, GoLive, ReleasePending, VisibilityChanged
  <2> QED
    BY <2>1 DEF Free, At, Unused
<1>0. misread' = misread
  <2>1. ~Write(r)
    BY <1>2 DEF Write, At
  <2> QED
    BY <2>1, CacheStays
<1>3. ASSUME listing.status = "Pending", NEW row, Changes(row, FALSE), NEW q, req' = Others(r, q),
             row.status = "Active" => q.step = "row"
      PROVE  CacheInv'
  <2>1. /\ misread' = misread /\ listing' = row
        /\ \A p \in Requests : req[p].step = "after" => req'[p] = req[p]
        /\ req'[r] = q
    BY <1>0, <1>2, <1>3 DEF Changes, Others, Unwritten, RowInv
  <2>2. MayShow \/ MayShow' => ToOutdate'
    BY <1>3, <2>1 DEF MayShow, ToOutdate
  <2> QED
    BY <1>1, <2>1, <2>2, CacheKept DEF Outdating
<1>4. listing \in Listing /\ (req[r].step = "second" => IsRequest(req[r]))
  BY DEF RowInv, Unused, Done
<1>5. CASE SettlePublish(r)
  <2>1. CASE listing.status = "Pending" /\ listing.date = None
    <3> DEFINE row == [listing EXCEPT !.status = "Active", !.date = r]
               q == Asked("settle", "row", Owner, <<>>)
    <3>1. Changes(row, FALSE) /\ req' = Others(r, q)
      BY <1>5, <2>1 DEF SettlePublish
    <3>2. q.step = "row"
      BY DEF Asked
    <3> HIDE DEF row, q
    <3> QED
      BY <1>3, <2>1, <3>1, <3>2
  <2>2. CASE ~(listing.status = "Pending" /\ listing.date = None)
    <3>1. /\ req' = [req EXCEPT ![r] = Asked("settle", "second", Owner, <<>>)]
          /\ UNCHANGED <<listing, hidden, misread>>
      BY <1>0, <1>5, <2>2 DEF SettlePublish
    <3> QED
      BY <1>1, <1>2, <3>1, QuietKeepsCache
  <2> QED
    BY <2>1, <2>2
<1>6. CASE GoLive(r)
  <2>1. CASE listing.status = "Pending"
    <3> DEFINE row == [listing EXCEPT !.status = "Active"]
               q == [req[r] EXCEPT !.step = "row"]
    <3>1. Changes(row, FALSE) /\ req' = Others(r, q)
      BY <1>6, <2>1 DEF GoLive
    <3>2. q.step = "row"
      BY <1>4, <1>6 DEF GoLive, At, IsRequest
    <3> HIDE DEF row, q
    <3> QED
      BY <1>3, <2>1, <3>1, <3>2
  <2>2. CASE listing.status # "Pending"
    <3>1. req' = [req EXCEPT ![r] = Done] /\ UNCHANGED <<listing, hidden, misread>>
      BY <1>0, <1>6, <2>2 DEF GoLive
    <3> QED
      BY <1>1, <1>2, <3>1, QuietKeepsCache
  <2> QED
    BY <2>1, <2>2
<1>7. CASE ReleasePending(r)
  <2>1. PICK status \in {"Draft", "Expired"} : Changes([listing EXCEPT !.status = status], FALSE)
    BY <1>7 DEF ReleasePending
  <2> DEFINE row == [listing EXCEPT !.status = status]
  <2>2. row.status # "Active" /\ Changes(row, FALSE)
    BY <1>4, <2>1 DEF Listing
  <2>3. req' = Others(r, Done) /\ listing.status = "Pending"
    BY <1>7 DEF ReleasePending
  <2> HIDE DEF row
  <2> QED
    BY <1>3, <2>2, <2>3
<1>8. CASE VisibilityChanged(r)
  <2> DEFINE q == Asked("account", "row", Owner, <<>>)
  <2>1. req' = [req EXCEPT ![r] = q] /\ UNCHANGED <<listing, misread>>
    BY <1>8 DEF VisibilityChanged, history
  <2>2. q.step = "row"
    BY DEF Asked
  <2> HIDE DEF q
  <2>3. /\ req'[r].step = "row" /\ (MayShow' <=> MayShow)
        /\ \A p \in Requests : req[p].step = "after" => req'[p] = req[p]
    BY <1>1, <1>2, <2>1, <2>2 DEF RowInv, MayShow, Covers
  <2>4. MayShow \/ MayShow' => ToOutdate'
    BY <2>3 DEF ToOutdate
  <2> QED
    BY <1>1, <2>1, <2>3, <2>4, CacheKept DEF Outdating
<1> QED
  BY <1>5, <1>6, <1>7, <1>8

(* Who has read the row will outdate it.                                   *)
LEMMA ReadRowKeepsCache ==
    ASSUME RowInv, RowInv', ViewOK, CacheInv, NEW r \in Requests, ReadRow(r)
    PROVE  CacheInv'
<1>1. /\ UNCHANGED <<looked, cached, reading, lost, late>> /\ UNCHANGED <<listing, hidden, misread>>
  BY CacheStays DEF cacheVars, ReadRow, history
<1>2. IsRequest(req[r]) /\ req[r].step = "row" /\ req[r].op \in {"settle", "account"}
  BY RequestIs DEF ReadRow, IsRequest, Known, Kinds
<1> DEFINE q == [req[r] EXCEPT !.step = "after", !.before = listing, !.after = listing]
<1>3. q.op = req[r].op /\ q.step = "after" /\ q.after = listing
  BY <1>2 DEF IsRequest
<1>4. req' = [req EXCEPT ![r] = IF req[r].op = "account" /\ listing.status # "Active" THEN Done ELSE q]
  BY DEF ReadRow
<1> HIDE DEF q
<1>5. /\ \A p \in Requests : req[p].step = "after" => req'[p] = req[p]
      /\ listing.status = "Active" => req'[r] = q
  BY <1>2, <1>4 DEF RowInv
<1>6. MayShow \/ MayShow' => ToOutdate'
  <2> SUFFICES ASSUME MayShow PROVE ToOutdate'
    BY <1>1 DEF MayShow, Covers
  <2>1. req'[r] = q
    BY <1>5 DEF MayShow
  <2>2. "Active" \in StatusesOf(q) /\ CellOf(listing.place) \subseteq CellsOf(q)
    BY <1>2, <1>3 DEF StatusesOf, CellsOf
  <2> QED
    BY <1>1, <1>3, <2>1, <2>2, OutdatesBoth DEF MayShow
<1> QED
  BY <1>1, <1>5, <1>6, CacheKept DEF Outdating

(* An announcement leaves nothing that would be stored later.              *)
LEMMA AnnounceKeepsCache ==
    ASSUME RowInv, RowInv', ViewOK, CacheInv, NEW r \in Requests, Announce(r)
    PROVE  CacheInv'
<1>1. /\ UNCHANGED <<listing, hidden, looked>> /\ Outdate(r)
      /\ Now(looked)' = Now(looked) /\ (MayShow' <=> MayShow)
      /\ req[r].step = "after"
      /\ \A p \in Requests : p # r => req'[p] = req[p]
  BY DEF Announce, At, Now, Published, Shown, MayShow, Covers, RowInv
<1>2. CASE /\ cached' = None /\ late' = LateStores
           /\ \A d \in Readers : reading'[d] = AfterOutdate(reading[d], looked.of = "page")
  <2> SUFFICES ASSUME ~late', NEW k \in Readers, reading'[k] # None, reading'[k].step = "store",
                      reading'[k].current
               PROVE  reading'[k].value = Now(looked)'
    BY <1>2 DEF CacheInv
  <2>1. CASE reading'[k] = reading[k] /\ (reading[k] = None \/ looked.of = "page")
    BY <1>1, <1>2, <2>1 DEF LateStores
  <2>2. CASE reading[k] # None /\ reading'[k] = Overtaken(reading[k])
    BY <2>2, OvertakenIs DEF ViewOK
  <2> QED
    BY <1>2, <2>1, <2>2, AfterOutdateIs
<1>3. CASE lost'
  BY <1>3 DEF CacheInv
<1>4. CASE ~Outdates(req[r]) /\ UNCHANGED <<cached, reading, misread, lost, late>>
  <2>1. \A p \in Requests : /\ req[p].step = "after" /\ Outdates(req[p]) => req'[p] = req[p]
                            /\ req[p].step = "row" => req'[p] = req[p]
    BY <1>1, <1>4
  <2> QED
    BY <1>1, <1>4, <2>1, CacheKept DEF Outdating
<1> QED
  BY <1>1, <1>2, <1>3, <1>4, OutdateIs

(* Readers store what they have read.                                      *)
LEMMA ReadersKeepCache ==
    ASSUME RowInv, ViewOK, CacheInv, NEW d \in Readers, Reads(d)
    PROVE  CacheInv'
<1>1. /\ UNCHANGED <<listing, hidden, looked, req, misread, lost, late>>
      /\ Now(looked)' = Now(looked)
  BY DEF Reads, Miss, Load, Store, Now, Published, Shown, history
<1>2. ToOutdate' <=> ToOutdate
  BY <1>1 DEF ToOutdate, Outdating, Outdates, MayShow, Covers
<1>3. ASSUME NEW x, x \in Reader \cup {None},
             x # None /\ x.step = "store" => x.value = Now(looked),
             reading' = [reading EXCEPT ![d] = x], cached' = cached
      PROVE  CacheInv'
  <2>1. reading'[d] = x /\ \A k \in Readers : k # d => reading'[k] = reading[k]
    BY <1>3 DEF ViewOK
  <2> QED
    BY <1>1, <1>2, <1>3, <2>1 DEF CacheInv
<1>4. CASE Miss(d)
  <2> DEFINE x == [step |-> "load", value |-> Absent, current |-> TRUE]
  <2>1. x \in Reader /\ x.step = "load"
    BY NowIsFace DEF Reader
  <2>2. reading' = [reading EXCEPT ![d] = x] /\ cached' = cached
    BY <1>4 DEF Miss
  <2> HIDE DEF x
  <2> QED
    BY <1>3, <2>1, <2>2
<1>5. CASE Load(d)
  <2> DEFINE x == [reading[d] EXCEPT !.step = "store", !.value = Now(looked)]
  <2>1. reading[d] \in Reader
    BY <1>5 DEF Load, ViewOK
  <2>2. x \in Reader /\ x.value = Now(looked)
    BY <2>1, NowIsFace DEF Reader
  <2>3. /\ reading' = [reading EXCEPT ![d] = None] \/ reading' = [reading EXCEPT ![d] = x]
        /\ cached' = cached
    BY <1>5 DEF Load
  <2> HIDE DEF x
  <2> QED
    BY <1>3, <2>2, <2>3
<1>6. CASE Store(d)
  <2>1. /\ reading[d] # None /\ reading[d].step = "store"
        /\ cached' = IF reading[d].current THEN reading[d].value ELSE cached
        /\ reading'[d] = None /\ \A k \in Readers : k # d => reading'[k] = reading[k]
    BY <1>6 DEF Store, ViewOK
  <2>2. CASE reading[d].current
    BY <1>1, <1>2, <2>1, <2>2 DEF CacheInv
  <2>3. CASE ~reading[d].current
    BY <1>1, <1>2, <2>1, <2>3 DEF CacheInv
  <2> QED
    BY <2>2, <2>3
<1> QED
  BY <1>4, <1>5, <1>6 DEF Reads

(* A photo that appears or goes is announced, if the listing is shown.     *)
LEMMA ShowingKeepsCache ==
    ASSUME RowInv, RowInv', ViewOK, CacheInv, UNCHANGED Unphotographed,
           NEW r \in Requests, IsRequest(req[r]), req[r].op \in {"confirm", "takeOff"},
           req[r].step \in {"insert", "takeOff"},
           NEW next, next = Done \/ (IsRequest(next) /\ next.step = "still"), ShowsOther(r, next)
    PROVE  CacheInv'
<1>1. UNCHANGED <<hidden, looked, cached, reading, lost, late>>
  BY DEF Unphotographed, cacheVars
<1>2. /\ listing \in Listing /\ listing' \in Listing
      /\ listing'.status = listing.status /\ listing'.place = listing.place
      /\ misread' = (misread \/ SawAnother(req[r]))
      /\ req' = [req EXCEPT ![r] = IF req[r].before.status # "Active" THEN next
                                   ELSE Showing(req[r])]
  BY ShowsOtherIs DEF RowInv, IsRequest
<1>3. \A p \in Requests : req[p].step = "after" => req'[p] = req[p]
  BY <1>2 DEF RowInv
<1>4. ASSUME ~misread', MayShow \/ MayShow'
      PROVE  ToOutdate'
  <2>1. MayShow
    BY <1>1, <1>2, <1>4 DEF MayShow, Covers
  <2>2. req[r].before.status = "Active"
    BY <1>2, <1>4, <2>1 DEF SawAnother, MayShow
  <2> DEFINE q == Showing(req[r])
  <2>3. /\ q.op = req[r].op /\ q.step = "after" /\ q.before = req[r].before
        /\ q.after.place = listing.place
    <3>1. q.op = req[r].op /\ q.step = "after" /\ q.before = req[r].before /\ q.after = req[r].after
      BY ShowingIs
    <3>2. req[r].after = req[r].before /\ req[r].before.place = listing.place
      BY <1>2, <1>4 DEF IsRequest, SawAnother
    <3> QED
      BY <3>1, <3>2
  <2> HIDE DEF q
  <2>4. req'[r] = q
    BY <1>2, <2>2 DEF q, RowInv
  <2>5. "Active" \in StatusesOf(q) /\ CellOf(listing.place) \subseteq CellsOf(q)
    BY <1>2, <2>2, <2>3 DEF StatusesOf, CellsOf
  <2> QED
    BY <1>1, <2>1, <2>3, <2>4, <2>5, OutdatesBoth DEF MayShow
<1> QED
  BY <1>1, <1>2, <1>3, <1>4, CacheKept DEF Outdating

LEMMA NotMadeYet ==
    ASSUME NEW r \in Requests, req[r] = Unused
    PROVE  req[r].step = "unused"
<1>1. Unused.step = "unused"
  BY DEF Unused
<1> QED
  BY <1>1

LEMMA PhotosKeepCache ==
    ASSUME RowInv, RowInv', ViewOK, CacheInv, PhotosNext
    PROVE  CacheInv'
<1>0. UNCHANGED Unphotographed /\ UNCHANGED <<hidden, looked, cached, reading, lost, late>>
  BY PhotosLeaveTheRest DEF Unphotographed, cacheVars
<1>1. ASSUME UNCHANGED <<listing, misread, req>> PROVE CacheInv'
  BY <1>0, <1>1, QuietKeepsCache
<1>2. ASSUME NEW r \in Requests, NEW q, req' = [req EXCEPT ![r] = q],
             UNCHANGED <<listing, misread>>, req[r].step \notin {"after", "row"}
      PROVE  CacheInv'
  BY <1>0, <1>2, QuietKeepsCache
<1>3. ASSUME NEW f \in Files, Upload(f) PROVE CacheInv'
  BY <1>1, <1>3 DEF Upload, listingVars, history
<1>4. ASSUME NEW r \in Requests, TryCreate(r) \/ FindStillShown(r) \/ FindShared(r) PROVE CacheInv'
  <2>1. /\ \E q : req' = [req EXCEPT ![r] = q]
        /\ UNCHANGED <<listing, misread>>
        /\ req[r].step \in {"thumb", "still", "shared"}
    BY <1>4 DEF TryCreate, FindStillShown, FindShared, At
  <2> QED
    BY <1>2, <2>1
<1>5. ASSUME NEW r \in Requests, DeleteFilesQuietly(r) \/ RemoveAllOwnedBy(r) \/ UpdateRows(r)
      PROVE  CacheInv'
  <2>1. req' = [req EXCEPT ![r] = Done] /\ UNCHANGED <<listing, misread>>
        /\ req[r].step \in {"files", "erase", "insert"}
    BY <1>5 DEF DeleteFilesQuietly, RemoveAllOwnedBy, UpdateRows, At
  <2> QED
    BY <1>2, <2>1
<1>6. ASSUME NEW r \in Requests, NEW f \in Files, NEW s \in Shelves,
             ConfirmUploads(r, f) \/ Backfill(r, f) \/ RemoveImages(r, s, f)
      PROVE  CacheInv'
  <2>1. /\ req[r] = Unused /\ UNCHANGED <<listing, misread>>
        /\ \E q : req' = [req EXCEPT ![r] = q]
    BY <1>6 DEF ConfirmUploads, Backfill, RemoveImages, PhotoAsked, Free
  <2> QED
    BY <1>2, <2>1, NotMadeYet
<1>7. ASSUME NEW r \in Requests, InsertRows(r) PROVE CacheInv'
  <2>1. /\ IsRequest(req[r]) /\ req[r].op = "confirm" /\ req[r].step = "insert"
        /\ ShowsOther(r, Done)
    BY <1>7, RequestIs DEF InsertRows
  <2> QED
    BY <1>0, <2>1, ShowingKeepsCache
<1>8. ASSUME NEW r \in Requests, DeleteRows(r) PROVE CacheInv'
  <2> DEFINE still == [req[r] EXCEPT !.step = "still"]
  <2>1. IsRequest(req[r]) /\ req[r].op = "takeOff" /\ req[r].step = "takeOff"
    BY <1>8, RequestIs DEF DeleteRows, IsRequest, Known, Kinds
  <2>2. IsRequest(still) /\ still.step = "still"
    BY <2>1, StepOn DEF Known
  <2>3. \/ ShowsOther(r, still)
        \/ req' = [req EXCEPT ![r] = still] /\ UNCHANGED <<listing, misread>>
    BY <1>8 DEF DeleteRows
  <2> HIDE DEF still
  <2> QED
    BY <1>0, <1>2, <2>1, <2>2, <2>3, ShowingKeepsCache
<1>9. ASSUME NEW r \in Requests, FindOwnImages(r) PROVE CacheInv'
  <2>1. /\ req[r] = Unused /\ UNCHANGED <<listing, misread>>
        /\ \E q : req' = [req EXCEPT ![r] = q]
    BY <1>9 DEF FindOwnImages, Free
  <2> QED
    BY <1>2, <2>1, NotMadeYet
<1> QED
  BY <1>3, <1>4, <1>5, <1>6, <1>7, <1>8, <1>9 DEF PhotosNext, Shelves

LEMMA CacheStep ==
    ASSUME RowInv, RowInv', ViewOK, CacheInv, [Next]_vars
    PROVE  CacheInv'
<1>1. ASSUME UNCHANGED <<listing, hidden, looked, cached, reading, misread, lost, late, req>>
      PROVE  CacheInv'
  BY <1>1, QuietKeepsCache
<1>2. CASE ListingsNext
  <2>1. ASSUME NEW r \in Requests,
               Create(r) \/ Update(r) \/ Move(r) \/ SetStatus(r) \/ BeginPublish(r)
        PROVE  CacheInv'
    <3>1. PICK op, data : Begins(r, op, data)
      BY <2>1, TheyBegin
    <3>2. /\ req[r] = Unused /\ \E q : req' = [req EXCEPT ![r] = q]
          /\ UNCHANGED <<listing, hidden, looked, cached, reading, misread, lost, late>>
      BY <3>1 DEF Begins, cacheVars, history
    <3> QED
      BY <3>2, QuietKeepsCache, NotMadeYet
  <2>2. ASSUME NEW r \in Requests, NEW who \in People, NEW kind \in Kinds, VisibleOwnerId(r, who, kind)
        PROVE  CacheInv'
    <3>1. /\ req[r] = Unused /\ \E q : req' = [req EXCEPT ![r] = q]
          /\ UNCHANGED <<listing, hidden, looked, cached, reading, misread, lost, late>>
      BY <2>2 DEF VisibleOwnerId, Free, cacheVars, history
    <3> QED
      BY <3>1, QuietKeepsCache, NotMadeYet
  <2>3. ASSUME NEW r \in Requests, Insert(r) PROVE CacheInv'
    <3>1. /\ req[r].step = "engage" /\ req' = [req EXCEPT ![r] = Done]
          /\ UNCHANGED <<listing, hidden, looked, cached, reading, misread, lost, late>>
      BY <2>3 DEF Insert, At, cacheVars, history
    <3> QED
      BY <3>1, QuietKeepsCache
  <2>4. ASSUME NEW who \in People, NEW kind \in Kinds, TakeBack(who, kind) PROVE CacheInv'
    BY <1>1, <2>4 DEF TakeBack, cacheVars, history
  <2> QED
    BY <1>2, <2>1, <2>2, <2>3, <2>4, WriteKeepsCache, MarketKeepsCache, ReadRowKeepsCache,
       AnnounceKeepsCache, ReadersKeepCache DEF ListingsNext, Reads
<1>3. CASE PhotosNext
  BY <1>3, PhotosKeepCache
<1>4. CASE AlertsNext
  BY <1>1, <1>4, ListenersLeaveTheRest DEF Unlistened, cacheVars, history
<1>5. CASE UNCHANGED vars
  BY <1>1, <1>5 DEF vars, listingVars, cacheVars, history
<1> QED
  BY <1>2, <1>3, <1>4, <1>5 DEF Next

LEMMA CacheAlways == Spec => []CacheInv
<1>1. Init => CacheInv
  BY DEF Init, ListingsInit, CacheInv
<1>2. RowInv /\ RowInv' /\ ViewOK /\ CacheInv /\ [Next]_vars => CacheInv'
  BY CacheStep
<1> QED
  BY <1>1, <1>2, RowAlways, ViewAlways, PTL DEF Spec

(* An answer under the current version says what is stored, with every     *)
(* change made known (PublicPropertyCache.changed), whichever cells a map  *)
(* shows and whatever requests overlap; unless, since it was last          *)
(* outdated, a request wrote that had read another status or place, or     *)
(* Redis failed, or the page was cached by who had read it before.         *)
THEOREM AnswersAreCurrent == Spec => []CachedIsCurrent
<1>1. CacheInv => CachedIsCurrent
  BY DEF CacheInv, CachedIsCurrent, AllKnown, ToOutdate, Outdating, InFlight
<1> QED
  BY <1>1, CacheAlways, PTL
-----------------------------------------------------------------------------
(* Whoever puts the listing on the map announces it.                       *)

Announcing(p) ==
    \/ req[p].step = "after" /\ IsNews(req[p])
    \/ req[p].step = "row" /\ req[p].op = "settle"

(* Only a move sets the place, and it is never unset: who read one will    *)
(* not bring the listing on the map by moving it.                          *)
OwedInv ==
    /\ owed => IsOnMap(listing) /\ \E p \in Requests : Announcing(p)
    /\ \A p \in Requests :
         req[p].step = "write" /\ req[p].before.place # None => listing.place # None

LEMMA OwedKept ==
    ASSUME RowInv, OwedInv, owed' \in {owed, FALSE},
           listing'.status = listing.status, listing'.place = listing.place,
           owed' => \A p \in Requests : Announcing(p) => req'[p] = req[p],
           \A p \in Requests : \/ req'[p] = req[p] \/ req'[p].step # "write"
                               \/ req'[p].before = listing
    PROVE  OwedInv'
<1>1. IsOnMap(listing)' <=> IsOnMap(listing)
  BY DEF IsOnMap
<1>2. ASSUME NEW p \in Requests, req'[p] = req[p] PROVE Announcing(p)' <=> Announcing(p)
  BY <1>2 DEF Announcing
<1>3. owed' => IsOnMap(listing)' /\ \E p \in Requests : Announcing(p)'
  <2> SUFFICES ASSUME owed' PROVE \E p \in Requests : Announcing(p)'
    BY <1>1 DEF OwedInv
  <2>1. PICK p \in Requests : Announcing(p)
    BY DEF OwedInv
  <2> QED
    BY <1>2, <2>1
<1>4. ASSUME NEW p \in Requests, req'[p].step = "write", req'[p].before.place # None
      PROVE  listing'.place # None
  BY <1>4 DEF OwedInv
<1> QED
  BY <1>3, <1>4 DEF OwedInv

LEMMA QuietKeepsOwed ==
    ASSUME RowInv, OwedInv, UNCHANGED owed,
           listing'.status = listing.status, listing'.place = listing.place,
           NEW r \in Requests, NEW q, req' = [req EXCEPT ![r] = q],
           req[r].step \notin {"after", "row"}, q.step # "write" \/ q.before = listing
    PROVE  OwedInv'
<1>1. req'[r] = q /\ \A p \in Requests : p # r => req'[p] = req[p]
  BY DEF RowInv
<1>2. ~Announcing(r)
  BY DEF Announcing
<1> QED
  BY <1>1, <1>2, OwedKept

(* Whoever writes the row.                                                 *)
LEMMA RowKeepsOwed ==
    ASSUME RowInv, RowInv', OwedInv, NEW r \in Requests, NEW q, NEW row, NEW stale,
           Changes(row, stale), req' = Others(r, q), q.step # "write",
           req[r].step \notin {"after", "row"},
           row.place = listing.place \/ row.place # None,
           IsOnMap(row) /\ ~IsOnMap(listing) =>
             (q.step = "row" /\ q.op = "settle") \/ (q.step = "after" /\ IsNews(q))
    PROVE  OwedInv'
<1>1. /\ listing' = row /\ owed' = (IsOnMap(row) /\ (owed \/ ~IsOnMap(listing)))
      /\ req'[r] = q
      /\ \A p \in Requests : p # r =>
           req'[p] = IF req[p].step \in Unwritten THEN [req[p] EXCEPT !.stale = TRUE] ELSE req[p]
  BY DEF Changes, Others
<1>2. ASSUME NEW p \in Requests, p # r
      PROVE  /\ Announcing(p) => Announcing(p)'
             /\ req'[p].step = "write" => req[p].step = "write" /\ req'[p].before = req[p].before
  <2>1. CASE req[p].step \in Unwritten
    <3>1. IsRequest(req[p])
      BY <2>1 DEF RowInv, Unused, Done, Unwritten
    <3>2. req'[p] = [req[p] EXCEPT !.stale = TRUE]
      BY <1>1, <1>2, <2>1
    <3>3. req'[p].step = req[p].step /\ req'[p].before = req[p].before
      BY <3>1, <3>2, MadeStale
    <3> QED
      BY <2>1, <3>3 DEF Announcing, Unwritten
  <2>2. CASE req[p].step \notin Unwritten
    BY <1>1, <1>2, <2>2 DEF Announcing
  <2> QED
    BY <2>1, <2>2
<1>3. ~Announcing(r) /\ (IsOnMap(row) /\ ~IsOnMap(listing) => Announcing(r)')
  BY <1>1 DEF Announcing
<1>4. \A p \in Requests : req'[p].step = "write" /\ req'[p].before.place # None => listing'.place # None
  BY <1>1, <1>2 DEF OwedInv
<1>5. owed' => IsOnMap(listing') /\ \E p \in Requests : Announcing(p)'
  BY <1>1, <1>2, <1>3 DEF OwedInv
<1> QED
  BY <1>4, <1>5 DEF OwedInv

LEMMA WriteKeepsOwed ==
    ASSUME RowInv, RowInv', OwedInv, NEW r \in Requests, Write(r)
    PROVE  OwedInv'
<1> DEFINE op == req[r].op
           row == Over(req[r].data, listing)
           q == IF op = "park" THEN Done ELSE Wrote(req[r], row)
<1>0. Changes(row, req[r].stale) /\ listing' = row
  BY DEF Write, Changes
<1>1. /\ IsRequest(req[r]) /\ req[r].step = "write" /\ listing \in Listing /\ row \in Listing
      /\ req' = Others(r, q) /\ Changes(row, req[r].stale)
      /\ Writes(op, req[r].data, req[r].before)
  BY <1>0, WriteIs DEF RowInv
<1> HIDE DEF row
<1>2. op # "park" => /\ q.step = "after" /\ q.op = op /\ q.before = req[r].before /\ q.after = row
  BY <1>1, WroteIs
<1>3. q.step # "write"
  BY <1>2 DEF Done
<1> HIDE DEF q
<1>4. /\ row.place # listing.place => op = "move" /\ row.place # None
      /\ row.status = "Active" /\ listing.status # "Active" => op \in {"create", "publish", "relist"}
      /\ op = "create" => req[r].before.status = "New"
      /\ op = "publish" => CanPublish(req[r].before.status)
      /\ op = "relist" => CanRelist(req[r].before.status)
  BY <1>1 DEF Writes, row
<1>5. ASSUME IsOnMap(row), ~IsOnMap(listing)
      PROVE  q.step = "after" /\ IsNews(q)
  <2>1. CASE op \in {"create", "publish", "relist"}
    <3>1. ~IsOnMap(req[r].before)
      BY <1>4, <2>1 DEF IsOnMap, CanPublish, CanRelist
    <3> QED
      BY <1>2, <1>5, <2>1, <3>1 DEF IsNews, CameOnMap
  <2>2. CASE op = "move" /\ listing.place = None
    <3>1. ~IsOnMap(req[r].before)
      BY <1>1, <2>2 DEF OwedInv, IsOnMap
    <3> QED
      BY <1>2, <1>5, <2>2, <3>1 DEF IsNews, CameOnMap
  <2> QED
    BY <1>4, <1>5, <2>1, <2>2 DEF IsOnMap
<1> QED
  BY <1>1, <1>3, <1>4, <1>5, RowKeepsOwed

LEMMA MarketKeepsOwed ==
    ASSUME RowInv, RowInv', OwedInv, NEW r \in Requests,
           SettlePublish(r) \/ GoLive(r) \/ ReleasePending(r)
    PROVE  OwedInv'
<1>1. req[r].step \in {"unused", "second"} /\ req[r].step \notin {"after", "row"}
  <2>1. Free(r) \/ At(r, "second")
    BY Zenon DEF SettlePublish, GoLive, ReleasePending
  <2>2. At(r, "second") => req[r].step = "second"
    BY DEF At
  <2> QED
    BY <2>1, <2>2, NotMadeYet DEF Free
<1>2. listing \in Listing /\ (req[r].step = "second" => IsRequest(req[r]) /\ req[r].op = "settle")
  BY DEF RowInv, Unused, Done, IsRequest, Known, Kinds
<1>3. CASE SettlePublish(r)
  <2>1. CASE listing.status = "Pending" /\ listing.date = None
    <3> DEFINE row == [listing EXCEPT !.status = "Active", !.date = r]
               q == Asked("settle", "row", Owner, <<>>)
    <3>1. Changes(row, FALSE) /\ req' = Others(r, q)
      BY <1>3, <2>1 DEF SettlePublish
    <3>2. q.step = "row" /\ q.op = "settle" /\ row.place = listing.place
      BY <1>2 DEF Asked, Listing
    <3> HIDE DEF row, q
    <3> QED
      BY <1>1, <3>1, <3>2, RowKeepsOwed
  <2>2. CASE ~(listing.status = "Pending" /\ listing.date = None)
    <3> DEFINE q == Asked("settle", "second", Owner, <<>>)
    <3>1. req' = [req EXCEPT ![r] = q] /\ UNCHANGED <<listing, owed>>
      BY <1>3, <2>2 DEF SettlePublish
    <3>2. q.step # "write"
      BY DEF Asked
    <3> HIDE DEF q
    <3> QED
      BY <1>1, <3>1, <3>2, QuietKeepsOwed
  <2> QED
    BY <2>1, <2>2
<1>4. CASE GoLive(r)
  <2>0. IsRequest(req[r]) /\ req[r].op = "settle"
    BY <1>2, <1>4 DEF GoLive, At
  <2>1. CASE listing.status = "Pending"
    <3> DEFINE row == [listing EXCEPT !.status = "Active"]
               q == [req[r] EXCEPT !.step = "row"]
    <3>1. Changes(row, FALSE) /\ req' = Others(r, q)
      BY <1>4, <2>1 DEF GoLive
    <3>2. q.step = "row" /\ q.op = "settle"
      BY <2>0 DEF IsRequest
    <3>3. row.place = listing.place
      BY <1>2 DEF Listing
    <3> HIDE DEF row, q
    <3> QED
      BY <1>1, <3>1, <3>2, <3>3, RowKeepsOwed
  <2>2. CASE listing.status # "Pending"
    <3>1. req' = [req EXCEPT ![r] = Done] /\ UNCHANGED <<listing, owed>> /\ Done.step = "done"
      BY <1>4, <2>2 DEF GoLive, Done
    <3> QED
      BY <1>1, <3>1, QuietKeepsOwed
  <2> QED
    BY <2>1, <2>2
<1>5. CASE ReleasePending(r)
  <2>1. PICK status \in {"Draft", "Expired"} : Changes([listing EXCEPT !.status = status], FALSE)
    BY <1>5 DEF ReleasePending
  <2> DEFINE row == [listing EXCEPT !.status = status]
  <2>2. row.status # "Active" /\ row.place = listing.place
    BY <1>2, <2>1 DEF Listing
  <2>3. Changes(row, FALSE)
    BY <2>1
  <2>4. req' = Others(r, Done) /\ Done.step = "done"
    BY <1>5 DEF ReleasePending, Done
  <2> HIDE DEF row
  <2> QED
    BY <1>1, <2>2, <2>3, <2>4, RowKeepsOwed DEF IsOnMap
<1> QED
  BY <1>3, <1>4, <1>5

(* A settled payment's request announces once it has read the row, and     *)
(* what is announced is owed no more.                                      *)
LEMMA OthersKeepOwed ==
    ASSUME RowInv, RowInv', OwedInv, NEW r \in Requests,
           \/ VisibilityChanged(r) \/ ReadRow(r) \/ Announce(r) \/ Insert(r)
           \/ \E who \in People, kind \in Kinds : VisibleOwnerId(r, who, kind)
    PROVE  OwedInv'
<1>1. CASE VisibilityChanged(r)
  <2> DEFINE q == Asked("account", "row", Owner, <<>>)
  <2>1. req[r] = Unused /\ req' = [req EXCEPT ![r] = q] /\ UNCHANGED <<listing, owed>>
    BY <1>1 DEF VisibilityChanged, Free, history
  <2>2. q.step # "write"
    BY DEF Asked
  <2> HIDE DEF q
  <2> QED
    BY <2>1, <2>2, NotMadeYet, QuietKeepsOwed
<1>2. CASE ReadRow(r)
  <2> DEFINE q == [req[r] EXCEPT !.step = "after", !.before = listing, !.after = listing]
  <2>1. IsRequest(req[r]) /\ req[r].step = "row" /\ req[r].op \in {"settle", "account"}
    BY <1>2, RequestIs DEF ReadRow, IsRequest, Known, Kinds
  <2>2. q.op = req[r].op /\ q.step = "after"
    BY <2>1 DEF IsRequest
  <2>3. /\ req' = [req EXCEPT ![r] = IF req[r].op = "account" /\ listing.status # "Active" THEN Done ELSE q]
        /\ UNCHANGED <<listing, owed>>
    BY <1>2 DEF ReadRow, history
  <2> HIDE DEF q
  <2>4. /\ \A p \in Requests : p # r => req'[p] = req[p]
        /\ req'[r] = q \/ (req'[r] = Done /\ req[r].op = "account")
    BY <2>3 DEF RowInv
  <2>5. req'[r].step # "write"
    BY <2>2, <2>4 DEF Done
  <2>6. CASE req[r].op = "account"
    <3>1. ~Announcing(r)
      BY <2>1, <2>6 DEF Announcing
    <3> QED
      BY <2>3, <2>4, <2>5, <3>1, OwedKept
  <2>7. CASE req[r].op = "settle"
    <3>1. Announcing(r)'
      BY <2>2, <2>4, <2>7 DEF Announcing, IsNews
    <3>2. \A p \in Requests : req'[p].step = "write" => req'[p] = req[p]
      BY <2>4, <2>5
    <3> QED
      BY <2>3, <3>1, <3>2 DEF OwedInv, IsOnMap
  <2> QED
    BY <2>1, <2>6, <2>7
<1>3. CASE Announce(r)
  <2>1. /\ IsRequest(req[r]) /\ req[r].step = "after"
        /\ listing' = listing /\ owed' = (owed /\ ~IsNews(req[r]))
    BY <1>3, RequestIs DEF Announce
  <2>2. \A p \in Requests : p # r => req'[p] = req[p]
    BY <1>3 DEF Announce, RowInv
  <2>3. req'[r].step # "write"
    <3>1. req' = [req EXCEPT ![r] = IF req[r].op = "takeOff" THEN GoneOn(req[r], "still") ELSE Done]
      BY <1>3 DEF Announce, GoneOn
    <3>2. GoneOn(req[r], "still").step = "still" /\ Done.step = "done"
      BY <2>1 DEF GoneOn, IsRequest, Done
    <3>3. req'[r] \in {GoneOn(req[r], "still"), Done}
      BY <3>1 DEF RowInv
    <3> QED
      BY <3>2, <3>3
  <2>4. owed' => ~Announcing(r)
    BY <2>1 DEF Announcing
  <2>5. owed' \in {owed, FALSE}
    BY <2>1
  <2> QED
    BY <2>1, <2>2, <2>3, <2>4, <2>5, OwedKept
<1>4. CASE Insert(r)
  <2>1. req[r].step = "engage" /\ req' = [req EXCEPT ![r] = Done] /\ UNCHANGED <<listing, owed>>
    BY <1>4 DEF Insert, At, history
  <2>2. Done.step = "done"
    BY DEF Done
  <2> QED
    BY <2>1, <2>2, QuietKeepsOwed
<1>5. ASSUME NEW who \in People, NEW kind \in Kinds, VisibleOwnerId(r, who, kind)
      PROVE  OwedInv'
  <2> DEFINE q == Asked(kind, "engage", who, <<>>)
  <2>1. req[r] = Unused /\ req' = [req EXCEPT ![r] = q] /\ UNCHANGED <<listing, owed>>
    BY <1>5 DEF VisibleOwnerId, Free, history
  <2>2. q.step # "write"
    BY DEF Asked
  <2> HIDE DEF q
  <2> QED
    BY <2>1, <2>2, NotMadeYet, QuietKeepsOwed
<1> QED
  BY <1>1, <1>2, <1>3, <1>4, <1>5

LEMMA PhotosKeepOwed ==
    ASSUME RowInv, RowInv', OwedInv, PhotosNext
    PROVE  OwedInv'
<1>0. owed' = owed /\ listing \in Listing
  BY PhotosLeaveTheRest DEF Unphotographed, RowInv
<1>1. ASSUME NEW r \in Requests, NEW q, req' = [req EXCEPT ![r] = q], q.step # "write",
             listing' = listing, req[r].step \notin {"after", "row"}
      PROVE  OwedInv'
  BY <1>0, <1>1, QuietKeepsOwed
<1>2. Done.step = "done"
  BY DEF Done
<1>3. ASSUME NEW f \in Files, Upload(f) PROVE OwedInv'
  BY <1>3, OwedKept DEF Upload, listingVars, history
<1>4. ASSUME NEW r \in Requests, TryCreate(r) PROVE OwedInv'
  <2>1. IsRequest(req[r]) /\ req[r].step = "thumb"
    BY <1>4, RequestIs DEF TryCreate
  <2>2. Made(req[r]).step = "insert" /\ GoneOn(req[r], "insert").step = "insert"
    BY <2>1, MadeIs DEF GoneOn, IsRequest
  <2>3. /\ listing' = listing
        /\ \E q \in {Made(req[r]), GoneOn(req[r], "insert"), Done} : req' = [req EXCEPT ![r] = q]
    BY <1>4 DEF TryCreate, Made, GoneOn
  <2> QED
    BY <1>1, <1>2, <2>1, <2>2, <2>3
<1>5. ASSUME NEW r \in Requests, FindStillShown(r) PROVE OwedInv'
  <2>1. IsRequest(req[r]) /\ req[r].step = "still"
    BY <1>5, RequestIs DEF FindStillShown
  <2>2. GoneOn(req[r], "files").step = "files"
    BY <2>1 DEF GoneOn, IsRequest
  <2>3. /\ listing' = listing
        /\ \E q \in {GoneOn(req[r], "files"), Done} : req' = [req EXCEPT ![r] = q]
    BY <1>5 DEF FindStillShown, GoneOn
  <2> QED
    BY <1>1, <1>2, <2>1, <2>2, <2>3
<1>6. ASSUME NEW r \in Requests, FindShared(r) PROVE OwedInv'
  <2>1. IsRequest(req[r]) /\ req[r].step = "shared"
    BY <1>6, RequestIs DEF FindShared
  <2>2. Kept(req[r], rows["theirs"]).step = "erase"
    BY <2>1, KeptIs
  <2>3. listing' = listing /\ req' = [req EXCEPT ![r] = Kept(req[r], rows["theirs"])]
    BY <1>6 DEF FindShared, Kept
  <2> QED
    BY <1>1, <2>1, <2>2, <2>3
<1>7. ASSUME NEW r \in Requests, DeleteFilesQuietly(r) \/ RemoveAllOwnedBy(r) \/ UpdateRows(r)
      PROVE  OwedInv'
  <2>1. req' = [req EXCEPT ![r] = Done] /\ listing' = listing /\ req[r].step \in {"files", "erase", "insert"}
    BY <1>7 DEF DeleteFilesQuietly, RemoveAllOwnedBy, UpdateRows, At
  <2> QED
    BY <1>1, <1>2, <2>1
<1>8. ASSUME NEW r \in Requests, NEW f \in Files, NEW s \in Shelves,
             ConfirmUploads(r, f) \/ Backfill(r, f) \/ RemoveImages(r, s, f)
      PROVE  OwedInv'
  <2>1. PICK op, step, d :
          /\ req[r] = Unused /\ listing' = listing /\ step \in {"thumb", "takeOff"}
          /\ req' = [req EXCEPT ![r] = Asked(op, step, Owner, d)]
    BY <1>8 DEF ConfirmUploads, Backfill, RemoveImages, PhotoAsked, Free
  <2>2. Asked(op, step, Owner, d).step # "write"
    BY <2>1 DEF Asked
  <2>3. req[r].step = "unused"
    BY <2>1, NotMadeYet
  <2> QED
    BY <1>1, <2>1, <2>2, <2>3
<1>9. ASSUME NEW r \in Requests, FindOwnImages(r) PROVE OwedInv'
  <2> DEFINE q == Asked("erase", "shared", Owner, [file |-> None, gone |-> Mine])
  <2>1. req[r] = Unused /\ listing' = listing /\ req' = [req EXCEPT ![r] = q]
    BY <1>9 DEF FindOwnImages, Free
  <2>2. q.step = "shared"
    BY DEF Asked
  <2> HIDE DEF q
  <2> QED
    BY <1>1, <2>1, <2>2, NotMadeYet
<1>10. ASSUME NEW r \in Requests, InsertRows(r) \/ DeleteRows(r) PROVE OwedInv'
  <2> DEFINE still == [req[r] EXCEPT !.step = "still"]
  <2>1. /\ IsRequest(req[r]) /\ req[r].op \in {"confirm", "takeOff"}
        /\ req[r].step \in {"insert", "takeOff"}
    BY <1>10, RequestIs DEF InsertRows, DeleteRows, IsRequest, Known, Kinds
  <2>2. req[r].op = "takeOff" => IsRequest(still) /\ still.step = "still"
    BY <2>1, StepOn DEF Known
  <2>3. \/ ShowsOther(r, Done)
        \/ req[r].op = "takeOff" /\ ShowsOther(r, still)
        \/ req[r].op = "takeOff" /\ req' = [req EXCEPT ![r] = still] /\ listing' = listing
    BY <1>10, <2>1 DEF InsertRows, DeleteRows, At, IsRequest, Known, Kinds
  <2> HIDE DEF still
  <2>4. ASSUME NEW next, next = Done \/ (IsRequest(next) /\ next.step = "still"), ShowsOther(r, next)
        PROVE  OwedInv'
    <3>1. /\ listing'.status = listing.status /\ listing'.place = listing.place
          /\ \E q \in {next, Showing(req[r])} : req' = [req EXCEPT ![r] = q]
          /\ Showing(req[r]).step = "after"
      BY <2>1, <2>4, ShowsOtherIs
    <3> QED
      BY <1>0, <1>2, <2>1, <2>4, <3>1, QuietKeepsOwed
  <2> QED
    BY <1>1, <2>1, <2>2, <2>3, <2>4
<1> QED
  BY <1>3, <1>4, <1>5, <1>6, <1>7, <1>8, <1>9, <1>10 DEF PhotosNext, Shelves

LEMMA OwedStep ==
    ASSUME RowInv, RowInv', OwedInv, [Next]_vars
    PROVE  OwedInv'
<1>1. ASSUME UNCHANGED <<listing, owed, req>> PROVE OwedInv'
  BY <1>1, OwedKept
<1>2. CASE ListingsNext
  <2>1. ASSUME NEW r \in Requests,
               Create(r) \/ Update(r) \/ Move(r) \/ SetStatus(r) \/ BeginPublish(r)
        PROVE  OwedInv'
    <3>1. PICK op, data : Begins(r, op, data)
      BY <2>1, TheyBegin
    <3> DEFINE q == Asked(op, "write", Owner, data)
    <3>2. req[r] = Unused /\ req' = [req EXCEPT ![r] = q] /\ UNCHANGED <<listing, owed>>
      BY <3>1 DEF Begins, history
    <3>3. q.before = listing
      BY DEF Asked
    <3> HIDE DEF q
    <3> QED
      BY <3>2, <3>3, NotMadeYet, QuietKeepsOwed
  <2>2. ASSUME NEW d \in Readers, Reads(d) PROVE OwedInv'
    BY <1>1, <2>2 DEF Reads, Miss, Load, Store, history
  <2>3. ASSUME NEW who \in People, NEW kind \in Kinds, TakeBack(who, kind) PROVE OwedInv'
    BY <1>1, <2>3 DEF TakeBack, history
  <2> QED
    BY <1>2, <2>1, <2>2, <2>3, WriteKeepsOwed, MarketKeepsOwed, OthersKeepOwed DEF ListingsNext, Reads
<1>3. CASE PhotosNext
  BY <1>3, PhotosKeepOwed
<1>4. CASE AlertsNext
  BY <1>1, <1>4, ListenersLeaveTheRest DEF Unlistened, history
<1>5. CASE UNCHANGED vars
  BY <1>1, <1>5 DEF vars, listingVars, history
<1> QED
  BY <1>2, <1>3, <1>4, <1>5 DEF Next

LEMMA OwedAlways == Spec => []OwedInv
<1>1. Init => OwedInv
  BY DEF Init, ListingsInit, OwedInv, Unused
<1>2. RowInv /\ RowInv' /\ OwedInv /\ [Next]_vars => OwedInv'
  BY OwedStep
<1> QED
  BY <1>1, <1>2, RowAlways, PTL DEF Spec

-----------------------------------------------------------------------------
(* Followers are told when it does.                                        *)

(* A listing on the map whose followers were not told will be announced to *)
(* them, and once a listener has claimed to tell them it does.             *)
FollowersInv ==
    /\ "hide" \notin mix => ~hidden
    /\ IsOnMap(listing) /\ ~followed /\ "hide" \notin mix =>
         owed \/ \E e \in events : e.to = "followers" /\ e.step = "new"
    /\ followed /\ ~failed =>
         (\A u \in Followers : told["new"][u] = 1) \/ \E e \in events : IsTelling(e)

(* What comes on the map is owed an announcement, which is an event.       *)
ComesOnMap ==
    /\ mix' = mix /\ events \subseteq events' /\ ("hide" \notin mix => hidden' = hidden)
    /\ IsOnMap(listing)' =>
         \/ owed' \/ (IsOnMap(listing) /\ ~owed)
         \/ \E e \in events' : e.to = "followers" /\ e.step = "new"

LEMMA SameOnMap ==
    ASSUME UNCHANGED <<hidden, mix, events, owed>>,
           listing'.status = listing.status, listing'.place = listing.place
    PROVE  ComesOnMap
  BY DEF ComesOnMap, IsOnMap

LEMMA ChangedOnMap ==
    ASSUME UNCHANGED <<hidden, mix, events>>, NEW row, NEW stale, Changes(row, stale)
    PROVE  ComesOnMap
  BY DEF ComesOnMap, Changes

LEMMA ListingsOnMap ==
    ASSUME RowInv, ListingsNext
    PROVE  ComesOnMap
<1>1. ASSUME NEW r \in Requests,
             Create(r) \/ Update(r) \/ Move(r) \/ SetStatus(r) \/ BeginPublish(r)
      PROVE  ComesOnMap
  <2>1. PICK op, data : Begins(r, op, data)
    BY <1>1, TheyBegin
  <2>2. UNCHANGED <<listing, hidden, mix, events, owed>>
    BY <2>1 DEF Begins, history
  <2> QED
    BY <2>2, SameOnMap
<1>2. ASSUME NEW r \in Requests, Write(r) PROVE ComesOnMap
  <2>1. UNCHANGED <<hidden, mix, events>> /\ \E row, stale : Changes(row, stale)
    BY <1>2 DEF Write
  <2> QED
    BY <2>1, ChangedOnMap
<1>3. ASSUME NEW r \in Requests, SettlePublish(r) \/ GoLive(r) \/ ReleasePending(r)
      PROVE  ComesOnMap
  <2>1. UNCHANGED <<hidden, mix, events>>
    BY Zenon, <1>3 DEF SettlePublish, GoLive, ReleasePending
  <2>2. UNCHANGED <<listing, owed>> \/ \E row, stale : Changes(row, stale)
    <3>1. CASE SettlePublish(r)
      BY <3>1 DEF SettlePublish
    <3>2. CASE GoLive(r)
      BY <3>2 DEF GoLive
    <3>3. CASE ReleasePending(r)
      BY <3>3 DEF ReleasePending
    <3> QED
      BY <1>3, <3>1, <3>2, <3>3
  <2> QED
    BY <2>1, <2>2, SameOnMap, ChangedOnMap
<1>4. ASSUME NEW r \in Requests, VisibilityChanged(r) PROVE ComesOnMap
  BY <1>4 DEF VisibilityChanged, ComesOnMap, IsOnMap, history
<1>5. ASSUME NEW r \in Requests,
             ReadRow(r) \/ Insert(r) \/ \E who \in People, kind \in Kinds : VisibleOwnerId(r, who, kind)
      PROVE  ComesOnMap
  <2>1. UNCHANGED <<listing, hidden, mix, events>> /\ UNCHANGED history
    BY Zenon, <1>5 DEF ReadRow, Insert, VisibleOwnerId
  <2> QED
    BY <2>1, SameOnMap DEF history
<1>6. ASSUME NEW r \in Requests, Announce(r) PROVE ComesOnMap
  <2>1. /\ UNCHANGED <<listing, hidden, mix>> /\ events' = events \cup Emitted(r)
        /\ owed' = (owed /\ ~IsNews(req[r]))
    BY <1>6 DEF Announce
  <2>2. ASSUME IsNews(req[r]) PROVE \E e \in Emitted(r) : e.to = "followers" /\ e.step = "new"
    <3>1. Event(r, "followers", "new") \in Emitted(r)
      BY <2>2 DEF Emitted
    <3>2. Event(r, "followers", "new").to = "followers" /\ Event(r, "followers", "new").step = "new"
      BY DEF Event
    <3> QED
      BY <3>1, <3>2
  <2> QED
    BY <2>1, <2>2 DEF ComesOnMap, IsOnMap
<1>7. ASSUME NEW d \in Readers, Reads(d) PROVE ComesOnMap
  <2>1. UNCHANGED <<listing, hidden, mix, events>> /\ UNCHANGED history
    BY Zenon, <1>7 DEF Reads, Miss, Load, Store
  <2> QED
    BY <2>1, SameOnMap DEF history
<1>8. ASSUME NEW who \in People, NEW kind \in Kinds, TakeBack(who, kind) PROVE ComesOnMap
  BY <1>8, SameOnMap DEF TakeBack, history
<1> QED
  BY <1>1, <1>2, <1>3, <1>4, <1>5, <1>6, <1>7, <1>8 DEF ListingsNext, Reads

LEMMA PhotosOnMap ==
    ASSUME RowInv, PhotosNext
    PROVE  ComesOnMap
<1>1. UNCHANGED <<hidden, mix, events, owed>>
  BY PhotosLeaveTheRest DEF Unphotographed
<1>2. listing'.status = listing.status /\ listing'.place = listing.place
  <2>1. ASSUME NEW r \in Requests, NEW next, ShowsOther(r, next)
        PROVE  listing'.status = listing.status /\ listing'.place = listing.place
    BY <2>1, TextAside DEF ShowsOther, RowInv
  <2>2. ASSUME NEW r \in Requests, InsertRows(r) \/ DeleteRows(r)
        PROVE  listing'.status = listing.status /\ listing'.place = listing.place
    <3>1. listing' = listing \/ \E next : ShowsOther(r, next)
      BY <2>2 DEF InsertRows, DeleteRows
    <3> QED
      BY <2>1, <3>1
  <2>3. ASSUME NEW f \in Files, Upload(f) PROVE listing' = listing
    BY <2>3 DEF Upload, listingVars
  <2>4. ASSUME NEW r \in Requests,
               \/ TryCreate(r) \/ FindStillShown(r)
               \/ DeleteFilesQuietly(r) \/ FindOwnImages(r) \/ FindShared(r) \/ RemoveAllOwnedBy(r)
               \/ UpdateRows(r)
               \/ \E f \in Files : \/ ConfirmUploads(r, f) \/ Backfill(r, f)
                                   \/ \E s \in Shelves : RemoveImages(r, s, f)
        PROVE  listing' = listing
    BY Zenon, <2>4 DEF TryCreate, FindStillShown, DeleteFilesQuietly,
                       FindOwnImages, FindShared, RemoveAllOwnedBy, UpdateRows, ConfirmUploads,
                       Backfill, RemoveImages
  <2> QED
    BY <2>2, <2>3, <2>4 DEF PhotosNext
<1> QED
  BY <1>1, <1>2, SameOnMap

LEMMA FollowersKept ==
    ASSUME FollowersInv, UNCHANGED <<listing, hidden, mix, owed, followed>>,
           \A u \in Followers : told'["new"][u] = told["new"][u], failed => failed',
           \A e \in events : e.to = "followers" /\ (e.step = "new" \/ ~failed') => e \in events'
    PROVE  FollowersInv'
<1>1. IsOnMap(listing)' <=> IsOnMap(listing)
  BY DEF IsOnMap
<1>2. \A e \in events : IsTelling(e) /\ ~failed' => e \in events'
  BY DEF IsTelling
<1> QED
  BY <1>1, <1>2 DEF FollowersInv

LEMMA ListenersKeepFollowers ==
    ASSUME RowInv, AlertInv, FollowersInv, NEW e \in events, Listens(e)
    PROVE  FollowersInv'
<1>0. UNCHANGED <<listing, hidden, mix, owed>>
  <2>1. UNCHANGED Unlistened
    BY Zenon DEF Listens, ClaimFollowers, TellFollowers, ReadListing, MatchingSearches,
                 ClaimNew, PushMatches, ClaimDrop, TellSavers, Breaks
  <2> QED
    BY <2>1 DEF Unlistened, history
<1>1. e \in Happening /\ e.about \in IF e.to = "savers" THEN {"drop", "sold"} ELSE {"new"}
  BY DEF AlertInv, AlertsTypeOK, EventsAreSound
<1>2. CASE ClaimFollowers(e)
  <2>1. e.to = "followers" /\ e.step = "new" /\ UNCHANGED <<told, failed>>
    BY <1>2 DEF ClaimFollowers, alertHistory
  <2>2. CASE Claimable(e)
    <3> DEFINE g == GoneOn(e, "tell")
    <3>1. followed' = TRUE /\ events' = (events \ {e}) \cup {g}
      BY <1>2, <2>2 DEF ClaimFollowers, Goes, GoneOn
    <3>2. IsTelling(g)
      BY <1>1, <2>1, GoneOnIs DEF IsTelling
    <3> HIDE DEF g
    <3> QED
      BY <1>0, <3>1, <3>2 DEF FollowersInv
  <2>3. CASE ~Claimable(e)
    <3>1. followed' = followed /\ events' = events \ {e}
      BY <1>2, <2>3 DEF ClaimFollowers, Drop
    <3>2. ~(IsOnMap(listing) /\ ~followed /\ "hide" \notin mix)
      BY <2>3 DEF Claimable, Published, IsOnMap, FollowersInv
    <3>3. \A f \in events : IsTelling(f) => f \in events'
      BY <2>1, <3>1 DEF IsTelling
    <3>4. IsOnMap(listing)' <=> IsOnMap(listing)
      BY <1>0 DEF IsOnMap
    <3> QED
      BY <1>0, <2>1, <3>1, <3>2, <3>3, <3>4 DEF FollowersInv
  <2> QED
    BY <2>2, <2>3
<1>3. CASE TellFollowers(e)
  <2>1. /\ IsTelling(e) /\ Push("new", Followers) /\ followed' = followed
        /\ told \in [About -> [People -> Nat]] /\ "new" \in About
    BY <1>3 DEF TellFollowers, IsTelling, claims, AlertInv, AlertsTypeOK, About
  <2>2. PICK sent \in SUBSET Followers : SentTo("new", sent) /\ failed' = (failed \/ sent # Followers)
    BY <2>1, PushIs
  <2>3. followed /\ \A u \in People : told["new"][u] = 0
    BY <2>1 DEF AlertInv, FollowersCounted
  <2>4. Followers \subseteq People
    BY Zenon, AlertsAssumption
  <2>5. ~failed' => \A u \in Followers : told'["new"][u] = 1
    <3>1. ~failed' => sent = Followers
      BY Zenon, <2>2
    <3>2. \A u \in Followers : told'["new"][u] = 0 + IF u \in sent THEN 1 ELSE 0
      BY <2>2, <2>3, <2>4 DEF SentTo
    <3> QED
      BY <3>1, <3>2
  <2> QED
    BY <1>0, <2>1, <2>3, <2>5 DEF FollowersInv
<1>4. ASSUME e.to # "followers", UNCHANGED followed, events \ {e} \subseteq events',
             failed => failed', \A u \in Followers : told'["new"][u] = told["new"][u]
      PROVE  FollowersInv'
  BY <1>0, <1>4, FollowersKept
<1>5. CASE ReadListing(e) \/ MatchingSearches(e)
  <2>1. e.to = "searches" /\ UNCHANGED alertVars
    BY Zenon, <1>5 DEF ReadListing, MatchingSearches
  <2>2. events' = events \ {e} \/ \E g : events' = (events \ {e}) \cup {g}
    <3>1. CASE ReadListing(e)
      BY <3>1 DEF ReadListing, Drop
    <3>2. CASE MatchingSearches(e)
      <4> DEFINE g == HasFound(e, {s \in alerting : search[s].user # Owner
                                                   /\ MatchesSearch(e.row, search[s])})
      <4>1. events' = events \ {e} \/ events' = (events \ {e}) \cup {g}
        BY Zenon, <3>2 DEF MatchingSearches, Drop, HasFound
      <4> QED
        BY <4>1
    <3> QED
      BY <1>5, <3>1, <3>2
  <2> QED
    BY <1>4, <2>1, <2>2 DEF alertVars, claims, alertHistory
<1>6. CASE ClaimNew(e)
  <2>1. e.to = "searches" /\ UNCHANGED <<followed, told>> /\ events \ {e} \subseteq events'
        /\ (failed => failed')
    BY <1>6 DEF ClaimNew, Drop
  <2> QED
    BY <1>4, <2>1
<1>7. ASSUME NEW about \in {"match", "drop", "sold"}, NEW users, Push(about, users)
      PROVE  (failed => failed') /\ told'["new"] = told["new"]
  <2>1. told \in [About -> [People -> Nat]] /\ about \in About /\ "new" \in About \ {about}
    BY DEF AlertInv, AlertsTypeOK, About
  <2>2. PICK sent \in SUBSET users : SentTo(about, sent) /\ failed' = (failed \/ sent # users)
    BY <1>7, <2>1, PushIs
  <2> QED
    BY <2>1, <2>2 DEF SentTo
<1>8. CASE PushMatches(e)
  <2>1. /\ e.to = "searches" /\ UNCHANGED claims /\ events' = events \ {e}
        /\ Push("match", {search[s].user : s \in e.hits})
    BY <1>8 DEF PushMatches, Drop
  <2> DEFINE users == {search[s].user : s \in e.hits}
  <2>2. Push("match", users)
    BY <2>1
  <2> HIDE DEF users
  <2> QED
    BY <1>4, <1>7, <2>1, <2>2 DEF claims
<1>9. CASE TellSavers(e)
  <2>1. e.to = "savers" /\ UNCHANGED claims /\ events' = events \ {e} /\ Push(e.about, Savers)
    BY <1>9 DEF TellSavers, Drop
  <2> QED
    BY <1>1, <1>4, <1>7, <2>1 DEF claims
<1>10. CASE ClaimDrop(e)
  <2>1. e.to # "followers" /\ UNCHANGED <<followed, told, failed>> /\ events \ {e} \subseteq events'
    BY <1>1, <1>10 DEF ClaimDrop, Goes, Drop
  <2> QED
    BY <1>4, <2>1
<1>11. CASE Breaks(e)
  <2>1. e.step # "new" /\ failed' = TRUE /\ events' = events \ {e} /\ UNCHANGED <<followed, told>>
    BY <1>11 DEF Breaks, Drop, claims
  <2> QED
    BY <1>0, <2>1, FollowersKept
<1> QED
  BY <1>2, <1>3, <1>5, <1>6, <1>8, <1>9, <1>10, <1>11 DEF Listens

LEMMA FollowersStep ==
    ASSUME RowInv, AlertInv, FollowersInv, [Next]_vars
    PROVE  FollowersInv'
<1>1. ASSUME ComesOnMap, UNCHANGED <<claims, told, failed>> PROVE FollowersInv'
  BY <1>1 DEF ComesOnMap, FollowersInv, claims
<1>2. ASSUME UNCHANGED <<listing, hidden, mix, owed, followed, told, failed, events>>
      PROVE  FollowersInv'
  BY <1>2, FollowersKept
<1>3. CASE ListingsNext /\ UNCHANGED <<searchVars, claims, told, drops, failed>>
  BY <1>1, <1>3, ListingsOnMap
<1>4. CASE PhotosNext /\ UNCHANGED <<searchVars, claims, told, drops, failed>>
  BY <1>1, <1>4, PhotosOnMap
<1>5. CASE AlertsNext
  <2>1. UNCHANGED <<listing, hidden, mix, owed>>
    BY <1>5, ListenersLeaveTheRest DEF Unlistened, history
  <2>2. ASSUME NEW s \in Searches, Saves(s) PROVE FollowersInv'
    <3>1. UNCHANGED <<followed, told, failed, events>>
      BY <2>2 DEF Saves, CountSearches, SaveSearch, SwitchAlerts, RemoveSearch, claims, alertHistory
    <3> QED
      BY <1>2, <2>1, <3>1
  <2>3. CASE DayPasses
    BY <1>2, <2>1, <2>3 DEF DayPasses
  <2> QED
    BY <1>5, <2>2, <2>3, ListenersKeepFollowers DEF AlertsNext, Listens, Saves
<1>6. CASE UNCHANGED vars
  BY <1>2, <1>6 DEF vars, listingVars, alertVars, claims, alertHistory, history
<1> QED
  BY <1>3, <1>4, <1>5, <1>6 DEF Next

LEMMA FollowersAlways == Spec => []FollowersInv
<1>1. Init => FollowersInv
  <2> SUFFICES ASSUME Init PROVE FollowersInv
    OBVIOUS
  <2>1. hidden = FALSE /\ followed = IsOnMap(listing)
    BY DEF Init, ListingsInit, AlertsInit
  <2>2. followed => \A u \in Followers : told["new"][u] = 1
    BY AlertsAssumption DEF Init, AlertsInit, About
  <2> QED
    BY <2>1, <2>2 DEF FollowersInv
<1>2. RowInv /\ AlertInv /\ FollowersInv /\ [Next]_vars => FollowersInv'
  BY FollowersStep
<1> QED
  BY <1>1, <1>2, RowAlways, AlertsAlways, PTL DEF Spec

-----------------------------------------------------------------------------
(* The searches alerted are those whose map shows the listing.             *)

LEMMA GridHolds ==
    ASSUME NEW a \in Int
    PROVE  (a \div GridStep) * GridStep <= a /\ a <= -((-a) \div GridStep) * GridStep
<1>1. GridStep \in Nat \ {0}
  BY Zenon, MapSearchAssumption
<1>2. ASSUME NEW b \in Int PROVE (b \div GridStep) * GridStep <= b
  <2> DEFINE q == b \div GridStep
  <2>1. q \in Int /\ GridStep * q <= b
    BY <1>1
  <2> HIDE DEF q
  <2>2. q * GridStep = GridStep * q
    BY <1>1, <2>1
  <2>3. q * GridStep <= b
    BY <2>1, <2>2
  <2> QED
    BY <2>3 DEF q
<1> DEFINE p == (-a) \div GridStep
<1>3. p \in Int
  BY <1>1
<1>4. p * GridStep <= -a
  BY <1>2
<1> HIDE DEF p
<1>5. a <= -p * GridStep
  <2>1. p * GridStep \in Int /\ -p * GridStep = -(p * GridStep)
    BY <1>1, <1>3
  <2> QED
    BY <1>4, <2>1
<1> QED
  BY <1>2, <1>5 DEF p

(* Two filters, two languages, one answer: what the database says of a     *)
(* saved search is what the map of that search shows.                      *)
LEMMA MatchesAsShown ==
    ASSUME NEW row \in Listing, NEW f \in Filter
    PROVE  MatchesSearch(row, f) <=> OnMapOf(row, f)
<1>1. /\ f.min \in Int /\ f.max \in Int /\ f.minSize \in Nat /\ f.maxSize \in Nat
  BY DEF Filter
<1>2. /\ row.place \in Positions \cup {None} /\ row.type \in Types
      /\ row.landSize \in Nat /\ row.buildingSize \in Nat
  BY DEF Listing
<1>3. InBox(row.place, f) => InBox(row.place, WidenToGrid(f))
  <2> SUFFICES ASSUME InBox(row.place, f) PROVE InBox(row.place, WidenToGrid(f))
    OBVIOUS
  <2> DEFINE low == (f.min \div GridStep) * GridStep
             high == -((-f.max) \div GridStep) * GridStep
  <2>1. WidenToGrid(f).min = low /\ WidenToGrid(f).max = high
    BY DEF WidenToGrid
  <2>2. low \in Int /\ high \in Int
    BY <1>1, MapSearchAssumption
  <2>3. low <= f.min /\ f.max <= high
    BY <1>1, GridHolds
  <2> HIDE DEF low, high
  <2>4. row.place \in Int /\ row.place # None /\ row.place >= f.min /\ row.place <= f.max
    BY <1>2, MapSearchAssumption DEF InBox
  <2> QED
    BY <1>1, <2>1, <2>2, <2>3, <2>4 DEF InBox
<1>4. (f.type # None => f.type = row.type) <=> (f.type # None => row.type = f.type)
  OBVIOUS
<1> DEFINE size == CardSize(row)
           fits == /\ f.minSize # 0 => size # 0 /\ size >= f.minSize
                   /\ f.maxSize # 0 => size # 0 /\ size <= f.maxSize
<1>5. fits <=> (f.minSize # 0 \/ f.maxSize # 0 =>
                  \E type \in DOMAIN SizeField :
                    /\ row.type = type
                    /\ row[SizeField[type]] > 0
                    /\ InRange(row[SizeField[type]], f.minSize, f.maxSize))
  <2>1. DOMAIN SizeField = {"Land", "House"} /\ SizeField["Land"] = "landSize"
        /\ SizeField["House"] = "buildingSize"
    BY DEF SizeField
  <2>2. CASE row.type = "Land"
    <3>1. size = row["landSize"]
      BY <2>1, <2>2 DEF CardSize
    <3> HIDE DEF size
    <3> QED
      BY <1>1, <1>2, <2>1, <2>2, <3>1 DEF InRange
  <2>3. CASE row.type = "House"
    <3>1. size = row["buildingSize"]
      BY <2>1, <2>3 DEF CardSize
    <3> HIDE DEF size
    <3> QED
      BY <1>1, <1>2, <2>1, <2>3, <3>1 DEF InRange
  <2>4. CASE row.type = "other"
    <3>1. size = 0
      BY <2>1, <2>4 DEF CardSize
    <3> HIDE DEF size
    <3> QED
      BY <1>1, <2>1, <2>4, <3>1
  <2> QED
    BY <1>2, <2>2, <2>3, <2>4 DEF Types
<1> QED
  BY <1>3, <1>4, <1>5 DEF MatchesSearch, OnMapOf, MapFilterWhere

(* What the searches to alert are, while nothing changes.                  *)
IsExpected(s) == Published /\ search[s].user # Owner /\ OnMapOf(listing, search[s])

ForSearches(e) == e.to = "searches"
IsWanted(e) == \A s \in alerting : s \in e.hits <=> IsExpected(s)
WasFound == \A s \in alerting \ asOf : s \in matched <=> IsExpected(s)

(* An announcement that meets no other is looked at by one listener, who   *)
(* sees the listing as it is and finds who is to be alerted; when it is    *)
(* done with that they are matched.                                        *)
MatchInv ==
    /\ "match" \notin mix => asOf = None
    /\ asOf # None /\ ~failed =>
         /\ \A e, k \in events : ForSearches(e) /\ ForSearches(k) => e = k
         /\ \A e \in events : ForSearches(e) =>
              /\ e.step \in {"new", "match", "claim"} => matched = asOf
              /\ e.step = "match" => Published /\ e.row = listing
              /\ e.step = "claim" => IsWanted(e)
         /\ (\A e \in events : ForSearches(e) => e.step = "push") => WasFound

LEMMA StillExpected ==
    ASSUME UNCHANGED <<listing, hidden, search, alerting>>
    PROVE  (Published' <=> Published) /\ \A s \in Searches : IsExpected(s)' <=> IsExpected(s)
  BY DEF IsExpected, Published

(* The step leaves the listing, the searches and who looks at it alone.    *)
LEMMA MatchKept ==
    ASSUME AlertsTypeOK, MatchInv, UNCHANGED <<listing, hidden, mix, search, alerting, matched, asOf>>,
           failed => failed', \A e : ForSearches(e) => (e \in events <=> e \in events')
    PROVE  MatchInv'
<1>1. Published' <=> Published
  BY StillExpected
<1>2. \A e : IsWanted(e) => IsWanted(e)'
  BY StillExpected DEF IsWanted, AlertsTypeOK
<1>3. WasFound => WasFound'
  BY StillExpected DEF WasFound, AlertsTypeOK
<1>4. "match" \notin mix' => asOf' = None
  BY DEF MatchInv
<1> SUFFICES ASSUME asOf # None, ~failed
             PROVE  /\ \A e, k \in events' : ForSearches(e) /\ ForSearches(k) => e = k
                    /\ \A e \in events' : ForSearches(e) =>
                         /\ e.step \in {"new", "match", "claim"} => matched' = asOf'
                         /\ e.step = "match" => Published' /\ e.row = listing'
                         /\ e.step = "claim" => IsWanted(e)'
                    /\ (\A e \in events' : ForSearches(e) => e.step = "push") => WasFound'
  BY <1>4 DEF MatchInv, ForSearches
<1>5. /\ \A e, k \in events : ForSearches(e) /\ ForSearches(k) => e = k
      /\ \A e \in events : ForSearches(e) =>
           /\ e.step \in {"new", "match", "claim"} => matched = asOf
           /\ e.step = "match" => Published /\ e.row = listing
           /\ e.step = "claim" => IsWanted(e)
      /\ (\A e \in events : ForSearches(e) => e.step = "push") => WasFound
  BY DEF MatchInv
<1>6. /\ \A e, k \in events' : ForSearches(e) /\ ForSearches(k) => e = k
      /\ (\A e \in events' : ForSearches(e) => e.step = "push") => WasFound'
  BY <1>3, <1>5
<1>7. ASSUME NEW e \in events', ForSearches(e)
      PROVE  /\ e.step \in {"new", "match", "claim"} => matched' = asOf'
             /\ e.step = "match" => Published' /\ e.row = listing'
             /\ e.step = "claim" => IsWanted(e)'
  BY <1>1, <1>2, <1>5, <1>7
<1> QED
  BY <1>6, <1>7

(* Only an announcement gives off events, one to those with saved searches. *)
Announces ==
    /\ mix' = mix /\ events \subseteq events'
    /\ \A e, k \in events' \ events : ForSearches(e) /\ ForSearches(k) => e = k
    /\ \A e \in events' \ events : e.step = "new"

LEMMA ListingsAnnounce ==
    ASSUME RowInv, ListingsNext
    PROVE  Announces
<1>1. mix' = mix
  BY ListingsOnMap DEF ComesOnMap
<1>2. ASSUME events' = events PROVE Announces
  BY <1>1, <1>2 DEF Announces
<1>3. ASSUME NEW r \in Requests, Announce(r) PROVE Announces
  <2>1. events' = events \cup Emitted(r)
    BY <1>3 DEF Announce
  <2>2. \A e \in Emitted(r) : e.step = "new" /\ (ForSearches(e) => e = Event(r, "searches", "new"))
    BY DEF Emitted, Event, ForSearches
  <2> QED
    BY <1>1, <2>1, <2>2 DEF Announces
<1>4. ASSUME NEW d \in Readers, Reads(d) PROVE Announces
  BY <1>2, <1>4 DEF Reads, Miss, Load, Store
<1>5. ASSUME NEW who \in People, NEW kind \in Kinds, TakeBack(who, kind) PROVE Announces
  BY <1>2, <1>5 DEF TakeBack
<1> QED
  BY <1>2, <1>3, <1>4, <1>5, EventsStay DEF ListingsNext, Reads

LEMMA PhotosAnnounce ==
    ASSUME RowInv, PhotosNext
    PROVE  Announces
<1>1. mix' = mix /\ events' = events
  BY PhotosLeaveTheRest DEF Unphotographed
<1> QED
  BY <1>1 DEF Announces

LEMMA RememberKeepsMatch ==
    ASSUME AlertsTypeOK, MatchInv, Announces, Remember, UNCHANGED <<search, alerting, matched, failed>>
    PROVE  MatchInv'
<1> DEFINE Of(some) == \E e \in some : ForSearches(e)
<1>1. asOf' = IF listing' # listing \/ hidden' # hidden THEN None
              ELSE IF "match" \in mix /\ Of(events' \ events)
              THEN (IF Of(events) THEN None ELSE matched)
              ELSE asOf
  BY Zenon DEF Remember, ForSearches
<1>2. ASSUME asOf' = None PROVE MatchInv'
  BY <1>2 DEF MatchInv
<1>3. CASE listing' # listing \/ hidden' # hidden
  BY <1>1, <1>2, <1>3
<1>4. CASE /\ ~(listing' # listing \/ hidden' # hidden)
           /\ "match" \in mix /\ Of(events' \ events)
  <2>1. CASE Of(events)
    BY <1>1, <1>2, <1>4, <2>1
  <2>2. CASE ~Of(events)
    <3>1. asOf' = matched' /\ "match" \in mix'
      BY <1>1, <1>4, <2>2 DEF Announces
    <3>2. \A e, k \in events' : ForSearches(e) /\ ForSearches(k) => e = k
      BY <2>2 DEF Announces
    <3>3. \A e \in events' : ForSearches(e) => e.step = "new"
      BY <2>2 DEF Announces
    <3>4. \E e \in events' : ForSearches(e)
      BY <1>4
    <3>5. /\ \A e \in events' : ForSearches(e) =>
               /\ e.step \in {"new", "match", "claim"} => matched' = asOf'
               /\ e.step = "match" => Published' /\ e.row = listing'
               /\ e.step = "claim" => IsWanted(e)'
          /\ ~ \A e \in events' : ForSearches(e) => e.step = "push"
      BY <3>1, <3>3, <3>4
    <3> QED
      BY <3>1, <3>2, <3>5 DEF MatchInv, ForSearches
  <2> QED
    BY <2>1, <2>2
<1>5. CASE /\ ~(listing' # listing \/ hidden' # hidden)
           /\ ~("match" \in mix /\ Of(events' \ events))
  <2>1. asOf' = asOf
    BY <1>1, <1>5
  <2>2. CASE "match" \notin mix
    <3>1. asOf = None
      BY <2>2 DEF MatchInv
    <3> QED
      BY <1>2, <2>1, <3>1
  <2>3. CASE ~Of(events' \ events)
    <3>1. \A e : ForSearches(e) => (e \in events <=> e \in events')
      BY <2>3 DEF Announces
    <3> QED
      BY <1>5, <2>1, <3>1, MatchKept DEF Announces
  <2> QED
    BY <1>5, <2>2, <2>3
<1> QED
  BY <1>3, <1>4, <1>5

(* A listener that looked is done, or goes on with what it found.          *)
LEMMA ListenerEnds ==
    ASSUME AlertsTypeOK, MatchInv, UNCHANGED <<listing, hidden, mix, search, alerting, matched, asOf>>,
           failed => failed', NEW e \in events, ForSearches(e), events' = events \ {e},
           asOf # None /\ ~failed => \/ e.step = "push"
                                     \/ matched = asOf /\ \A s \in alerting : ~IsExpected(s)
    PROVE  MatchInv'
<1>1. "match" \notin mix' => asOf' = None
  BY DEF MatchInv
<1>2. ASSUME asOf # None, ~failed
      PROVE  (\A k \in events' : ~ForSearches(k)) /\ WasFound'
  <2>1. \A k \in events : ForSearches(k) => k = e
    BY <1>2 DEF MatchInv
  <2>2. WasFound
    <3>1. CASE e.step = "push"
      BY <1>2, <2>1, <3>1 DEF MatchInv
    <3>2. CASE matched = asOf /\ \A s \in alerting : ~IsExpected(s)
      BY <3>2 DEF WasFound
    <3> QED
      BY <1>2, <3>1, <3>2
  <2>3. WasFound'
    BY <2>2, StillExpected DEF WasFound, AlertsTypeOK
  <2> QED
    BY <2>1, <2>3
<1> QED
  BY <1>1, <1>2 DEF MatchInv, ForSearches

LEMMA ListenerGoesOn ==
    ASSUME AlertsTypeOK, MatchInv, UNCHANGED <<listing, hidden, mix, search, alerting, matched, asOf>>,
           failed' = failed, NEW e \in events, ForSearches(e), e.step \in {"new", "match"},
           NEW g, ForSearches(g), g.step \in {"match", "claim"}, events' = (events \ {e}) \cup {g},
           asOf # None /\ ~failed => /\ g.step = "match" => Published /\ g.row = listing
                                     /\ g.step = "claim" => IsWanted(g)
    PROVE  MatchInv'
<1>1. "match" \notin mix' => asOf' = None
  BY DEF MatchInv
<1>2. ASSUME asOf # None, ~failed
      PROVE  /\ matched = asOf /\ \A k \in events' : ForSearches(k) => k = g
             /\ g.step = "match" => Published' /\ g.row = listing'
             /\ g.step = "claim" => IsWanted(g)'
  <2>1. matched = asOf /\ \A k \in events : ForSearches(k) => k = e
    BY <1>2 DEF MatchInv
  <2>2. IsWanted(g) => IsWanted(g)'
    BY StillExpected DEF IsWanted, AlertsTypeOK
  <2> QED
    BY <1>2, <2>1, <2>2, StillExpected
<1>3. ASSUME asOf # None, ~failed
      PROVE  /\ \A k, l \in events' : ForSearches(k) /\ ForSearches(l) => k = l
             /\ \A k \in events' : ForSearches(k) =>
                  /\ k.step \in {"new", "match", "claim"} => matched' = asOf'
                  /\ k.step = "match" => Published' /\ k.row = listing'
                  /\ k.step = "claim" => IsWanted(k)'
             /\ ~ \A k \in events' : ForSearches(k) => k.step = "push"
  <2>1. \A k \in events' : ForSearches(k) => k = g
    BY <1>2, <1>3
  <2>2. g \in events' /\ g.step # "push"
    OBVIOUS
  <2> QED
    BY <1>2, <1>3, <2>1, <2>2
<1> QED
  BY <1>1, <1>3 DEF MatchInv, ForSearches

LEMMA ReadListingKeepsMatch ==
    ASSUME RowInv, AlertInv, MatchInv, NEW e \in events, ReadListing(e)
    PROVE  MatchInv'
<1>1. /\ ForSearches(e) /\ e.step = "new" /\ e \in Happening /\ AlertsTypeOK
      /\ UNCHANGED <<listing, hidden, mix, search, alerting, matched, asOf, failed>>
  BY DEF ReadListing, ForSearches, AlertInv, AlertsTypeOK, Unlistened, alertVars, searchVars,
         claims, alertHistory
<1>2. CASE Published /\ listing.place # None
  <2> DEFINE g == HasRead(e, listing)
  <2>1. events' = (events \ {e}) \cup {g}
    BY <1>2 DEF ReadListing, HasRead
  <2>2. g.to = e.to /\ g.step = "match" /\ g.row = listing
    BY <1>1, HasReadIs DEF RowInv
  <2> HIDE DEF g
  <2>3. ForSearches(g)
    BY <1>1, <2>2 DEF ForSearches
  <2> QED
    BY <1>1, <1>2, <2>1, <2>2, <2>3, ListenerGoesOn
<1>3. CASE ~(Published /\ listing.place # None)
  <2>1. events' = events \ {e}
    BY <1>3 DEF ReadListing, Drop
  <2>2. \A s \in alerting : ~IsExpected(s)
    BY <1>3 DEF IsExpected, OnMapOf, InBox
  <2>3. asOf # None /\ ~failed => matched = asOf
    BY <1>1 DEF MatchInv
  <2> QED
    BY <1>1, <2>1, <2>2, <2>3, ListenerEnds
<1> QED
  BY <1>2, <1>3

LEMMA MatchingKeepsMatch ==
    ASSUME RowInv, AlertInv, MatchInv, NEW e \in events, MatchingSearches(e)
    PROVE  MatchInv'
<1> DEFINE hits == {s \in alerting : search[s].user # Owner /\ MatchesSearch(e.row, search[s])}
           g == HasFound(e, hits)
<1>1. /\ ForSearches(e) /\ e.step = "match" /\ e \in Happening /\ AlertsTypeOK
      /\ UNCHANGED <<Unlistened, alertVars>>
  BY Zenon DEF MatchingSearches, ForSearches, AlertInv, AlertsTypeOK
<1>2. UNCHANGED <<listing, hidden, mix, search, alerting, matched, asOf, failed>>
  BY <1>1 DEF Unlistened, alertVars, searchVars, claims, alertHistory
<1>3. IF hits = {} THEN events' = events \ {e} ELSE events' = (events \ {e}) \cup {g}
  BY Zenon DEF MatchingSearches, Drop, HasFound
<1>4. asOf # None /\ ~failed => matched = asOf /\ \A s \in alerting : s \in hits <=> IsExpected(s)
  <2> SUFFICES ASSUME asOf # None, ~failed
               PROVE  matched = asOf /\ \A s \in alerting : s \in hits <=> IsExpected(s)
    OBVIOUS
  <2>1. matched = asOf /\ Published /\ e.row = listing
    BY <1>1 DEF MatchInv
  <2>2. ASSUME NEW s \in alerting PROVE MatchesSearch(listing, search[s]) <=> OnMapOf(listing, search[s])
    BY <1>1, MatchesAsShown DEF AlertsTypeOK, RowInv
  <2> QED
    BY <2>1, <2>2 DEF IsExpected
<1>5. hits \in SUBSET Searches
  BY <1>1 DEF AlertsTypeOK
<1> HIDE DEF hits
<1>6. g.to = e.to /\ g.step = "claim" /\ g.hits = hits
  BY <1>1, <1>5, HasFoundIs
<1> HIDE DEF g
<1>7. CASE hits = {}
  BY <1>1, <1>2, <1>3, <1>4, <1>7, ListenerEnds
<1>8. CASE hits # {}
  <2>1. ForSearches(g)
    BY <1>1, <1>6 DEF ForSearches
  <2>2. asOf # None /\ ~failed => IsWanted(g)
    BY <1>4, <1>6 DEF IsWanted
  <2> QED
    BY <1>1, <1>2, <1>3, <1>6, <1>8, <2>1, <2>2, ListenerGoesOn
<1> QED
  BY <1>7, <1>8

LEMMA ClaimNewKeepsMatch ==
    ASSUME AlertInv, MatchInv, NEW e \in events, ClaimNew(e)
    PROVE  MatchInv'
<1>1. /\ ForSearches(e) /\ e.step = "claim" /\ e \in Happening /\ AlertsTypeOK
      /\ UNCHANGED <<listing, hidden, mix, search, alerting, asOf>>
  BY DEF ClaimNew, ForSearches, AlertInv, AlertsTypeOK, Unlistened, searchVars
<1>2. "match" \notin mix' => asOf' = None
  BY <1>1 DEF MatchInv
<1>3. CASE ~(e.hits \subseteq saved)
  BY <1>2, <1>3 DEF ClaimNew, MatchInv
<1>4. CASE e.hits \subseteq saved
  <2> DEFINE g == HasClaimed(e, e.hits \ matched)
  <2>1. matched' = matched \cup e.hits /\ events' = (events \ {e}) \cup {g} /\ failed' = failed
    BY <1>4 DEF ClaimNew, HasClaimed, Fresh
  <2>2. g.step = "push" /\ e.hits \in SUBSET Searches
    <3>1. e.hits \in SUBSET Searches
      BY <1>1 DEF Happening
    <3> QED
      BY <1>1, <3>1, HasClaimedIs
  <2> HIDE DEF g
  <2>3. ASSUME asOf # None, ~failed
        PROVE  (\A k \in events' : ForSearches(k) => k = g) /\ WasFound'
    <3>1. (\A k \in events : ForSearches(k) => k = e) /\ matched = asOf /\ IsWanted(e)
      BY <1>1, <2>3 DEF MatchInv
    <3>2. \A s \in alerting' : IsExpected(s)' <=> IsExpected(s)
      BY <1>1, StillExpected DEF AlertsTypeOK
    <3>3. ASSUME NEW s \in alerting' \ asOf' PROVE s \in matched' <=> IsExpected(s)'
      <4>1. s \in alerting /\ s \notin asOf
        BY <1>1, <3>3
      <4>2. s \in matched' <=> s \in e.hits
        BY <2>1, <3>1, <4>1
      <4> QED
        BY <3>1, <3>2, <4>1, <4>2 DEF IsWanted
    <3> QED
      BY <2>1, <3>1, <3>3 DEF WasFound
  <2>4. ASSUME asOf # None, ~failed
        PROVE  /\ \A k, l \in events' : ForSearches(k) /\ ForSearches(l) => k = l
               /\ \A k \in events' : ForSearches(k) => k.step = "push"
               /\ WasFound'
    BY <2>2, <2>3, <2>4
  <2> QED
    BY <1>1, <1>2, <2>1, <2>4 DEF MatchInv, ForSearches
<1> QED
  BY <1>3, <1>4

LEMMA ListenersKeepMatch ==
    ASSUME RowInv, AlertInv, MatchInv, NEW e \in events, Listens(e)
    PROVE  MatchInv'
<1>1. e \in Happening /\ AlertsTypeOK
  BY DEF AlertInv, AlertsTypeOK
<1>2. UNCHANGED <<listing, hidden, mix>>
  <2>1. UNCHANGED Unlistened
    BY Zenon DEF Listens, ClaimFollowers, TellFollowers, ReadListing, MatchingSearches,
                 ClaimNew, PushMatches, ClaimDrop, TellSavers, Breaks
  <2> QED
    BY <2>1 DEF Unlistened
<1>3. ASSUME ~ForSearches(e), UNCHANGED <<search, alerting, matched, asOf>>, failed => failed',
             NEW g, ~ForSearches(g), events' = events \ {e} \/ events' = (events \ {e}) \cup {g}
      PROVE  MatchInv'
  BY <1>1, <1>2, <1>3, MatchKept
<1>4. ASSUME NEW about, NEW users, Push(about, users) PROVE failed => failed'
  BY <1>4 DEF Push
<1>5. CASE ClaimFollowers(e) \/ ClaimDrop(e)
  <2>1. /\ ~ForSearches(e) /\ UNCHANGED <<search, alerting, matched, asOf, failed>>
        /\ events' = events \ {e} \/ events' = (events \ {e}) \cup {GoneOn(e, "tell")}
    <3>1. CASE ClaimFollowers(e)
      BY <3>1 DEF ClaimFollowers, ForSearches, searchVars, alertHistory, Goes, Drop, GoneOn
    <3>2. CASE ClaimDrop(e)
      <4>1. ~ForSearches(e)
        BY <3>2 DEF ClaimDrop, AlertInv, EventsAreSound, ForSearches
      <4> QED
        BY <3>2, <4>1 DEF ClaimDrop, searchVars, Goes, Drop, GoneOn
    <3> QED
      BY <1>5, <3>1, <3>2
  <2>2. ~ForSearches(GoneOn(e, "tell"))
    BY <1>1, <2>1, GoneOnIs DEF ForSearches
  <2> QED
    BY <1>3, <2>1, <2>2
<1>6. CASE TellFollowers(e)
  <2>1. /\ ~ForSearches(e) /\ UNCHANGED <<search, alerting, matched, asOf>> /\ events' = events \ {e}
        /\ Push("new", Followers)
    BY <1>6 DEF TellFollowers, ForSearches, searchVars, claims, Drop
  <2> QED
    BY <1>3, <1>4, <2>1
<1>7. CASE TellSavers(e)
  <2>1. /\ ~ForSearches(e) /\ UNCHANGED <<search, alerting, matched, asOf>> /\ events' = events \ {e}
        /\ Push(e.about, Savers)
    BY <1>7 DEF TellSavers, ForSearches, searchVars, claims, Drop
  <2> QED
    BY <1>3, <1>4, <2>1
<1>8. CASE PushMatches(e)
  <2> DEFINE users == {search[s].user : s \in e.hits}
  <2>1. /\ ForSearches(e) /\ e.step = "push" /\ UNCHANGED <<search, alerting, matched, asOf>>
        /\ events' = events \ {e} /\ Push("match", users)
    BY <1>8 DEF PushMatches, ForSearches, searchVars, claims, Drop
  <2> HIDE DEF users
  <2>2. failed => failed'
    BY <1>4, <2>1
  <2> QED
    BY <1>1, <1>2, <2>1, <2>2, ListenerEnds
<1>9. CASE Breaks(e)
  <2>1. failed' = TRUE /\ UNCHANGED <<mix, asOf>>
    BY <1>2, <1>9 DEF Breaks
  <2> QED
    BY <2>1 DEF MatchInv
<1> QED
  BY <1>5, <1>6, <1>7, <1>8, <1>9, ReadListingKeepsMatch, MatchingKeepsMatch, ClaimNewKeepsMatch
  DEF Listens

LEMMA MatchStep ==
    ASSUME RowInv, AlertInv, MatchInv, [Next]_vars
    PROVE  MatchInv'
<1>1. AlertsTypeOK
  BY DEF AlertInv
<1>2. ASSUME UNCHANGED <<listing, hidden, mix, search, alerting, matched, asOf, failed, events>>
      PROVE  MatchInv'
  BY <1>1, <1>2, MatchKept
<1>3. CASE /\ ListingsNext \/ PhotosNext
           /\ Remember /\ UNCHANGED <<searchVars, claims, told, drops, failed>>
  <2>1. Announces
    BY <1>3, ListingsAnnounce, PhotosAnnounce
  <2> QED
    BY <1>1, <1>3, <2>1, RememberKeepsMatch DEF searchVars, claims
<1>4. CASE AlertsNext
  <2>1. UNCHANGED <<listing, hidden, mix>>
    BY <1>4, ListenersLeaveTheRest DEF Unlistened
  <2>2. ASSUME NEW s \in Searches, Saves(s) PROVE MatchInv'
    <3>1. CASE CountSearches(s)
      BY <1>2, <2>1, <3>1 DEF CountSearches, claims, alertHistory
    <3>2. CASE SaveSearch(s) \/ SwitchAlerts(s) \/ RemoveSearch(s)
      <4>1. asOf' = None
        BY Zenon, <3>2 DEF SaveSearch, SwitchAlerts, RemoveSearch
      <4> QED
        BY <4>1 DEF MatchInv
    <3> QED
      BY <2>2, <3>1, <3>2 DEF Saves
  <2>3. CASE DayPasses
    BY <1>2, <2>1, <2>3 DEF DayPasses, searchVars
  <2> QED
    BY <1>4, <2>2, <2>3, ListenersKeepMatch DEF AlertsNext, Listens, Saves
<1>5. CASE UNCHANGED vars
  BY <1>2, <1>5 DEF vars, listingVars, alertVars, searchVars, claims, alertHistory
<1> QED
  BY <1>3, <1>4, <1>5 DEF Next

LEMMA MatchAlways == Spec => []MatchInv
<1>1. Init => MatchInv
  BY DEF Init, AlertsInit, MatchInv
<1>2. RowInv /\ AlertInv /\ MatchInv /\ [Next]_vars => MatchInv'
  BY MatchStep
<1> QED
  BY <1>1, <1>2, RowAlways, AlertsAlways, PTL DEF Spec

(* "Tells everyone": what came on the map was announced when all is done,  *)
(* the owner's followers were told of it, and the searches alerted are     *)
(* those whose map shows it, whatever the requests and listeners meet.     *)
THEOREM WaitersHear == Spec => []OnTheMapIsHeard
<1>1. OwedInv => OnTheMapIsAnnounced
  <2> SUFFICES ASSUME OwedInv, InFlight = {}, owed PROVE FALSE
    BY DEF OnTheMapIsAnnounced
  <2>1. PICK p \in Requests : Announcing(p)
    BY DEF OwedInv
  <2>2. p \in InFlight
    BY <2>1 DEF Announcing, InFlight
  <2> QED
    BY <2>2
<1>2. OwedInv /\ FollowersInv => FollowersHear
  <2> SUFFICES ASSUME OwedInv, FollowersInv, InFlight = {}, events = {},
                      IsOnMap(listing), "hide" \notin mix, ~failed
               PROVE  \A u \in Followers : told["new"][u] = 1
    BY DEF FollowersHear
  <2>1. ~owed
    BY <1>1 DEF OnTheMapIsAnnounced
  <2>2. followed
    BY <2>1 DEF FollowersInv
  <2> QED
    BY <2>2 DEF FollowersInv
<1>3. MatchInv => AlertedAsOnMap
  BY DEF MatchInv, AlertedAsOnMap, WasFound, IsExpected
<1>4. OwedInv /\ FollowersInv /\ MatchInv => OnTheMapIsHeard
  BY <1>1, <1>2, <1>3 DEF OnTheMapIsHeard
<1> QED
  BY <1>4, OwedAlways, FollowersAlways, MatchAlways, PTL
=============================================================================
