-------------------------------- MODULE Quadtree --------------------------------
(***************************************************************************)
(* Quadtree (QUADTREE/Quadtree.h): regions with data in a tree of quadrants.*)
(*                                                                         *)
(* A region is <<xLow, xHigh, yLow, yHigh>>.  A node is the sequence of     *)
(* quadrants that leads to it from the root, <<>>; stored has the vector of *)
(* data of each region in the map of a node, which may be empty.  size_ is  *)
(* left out: nothing reads it, and the 1 of remove for a region with many   *)
(* data or none makes it wrong.                                             *)
(***************************************************************************)
EXTENDS Integers, FiniteSets, Sequences, SequencesExt

CONSTANTS Bounds,      \* of the tree
          Edges,       \* of the regions inserted, as the constructor gets them
          QueryEdges,  \* of those asked for
          Data,
          MaxRegions   \* most data in the tree

VARIABLES nodes, stored,
          ret   \* what the last call returned, 0 for insert

vars == <<nodes, stored, ret>>

(* The constructor puts the two edges of each axis in order. *)
Region(e) ==
    << IF e[1] < e[2] THEN e[1] ELSE e[2], IF e[1] < e[2] THEN e[2] ELSE e[1],
       IF e[3] < e[4] THEN e[3] ELSE e[4], IF e[3] < e[4] THEN e[4] ELSE e[3] >>

Regions == {Region(e) : e \in Edges}
Queries == {Region(e) : e \in QueryEdges}

within(r, s) == r[1] >= s[1] /\ r[2] <= s[2] /\ r[3] >= s[3] /\ r[4] <= s[4]
intersect(r, s) == r[1] <= s[2] /\ r[2] >= s[1] /\ r[3] <= s[4] /\ r[4] >= s[3]

Mid(low, high) == low + (high - low) \div 2
xMid(r) == Mid(r[1], r[2])
yMid(r) == Mid(r[3], r[4])

Left(r, s) == r[2] < xMid(s)
Right(r, s) == r[1] > xMid(s)
Top(r, s) == r[4] < yMid(s)
Bottom(r, s) == r[3] > yMid(s)
Strictly(r, s) == r[1] > s[1] /\ r[2] < s[2] /\ r[3] > s[3] /\ r[4] < s[4]

(* withinQuadrant: the quadrants of s that r is in, one or none.  QT_MULT   *)
(* and QT_OUT end every loop alike.                                         *)
QuadrantsOf(r, s) ==
    IF ~Strictly(r, s) THEN {}
    ELSE {q \in 0 .. 3 : /\ IF q \in {0, 1} THEN Top(r, s) ELSE Bottom(r, s)
                         /\ IF q \in {0, 2} THEN Left(r, s) ELSE Right(r, s)}

(* Mutant: columns and rows are mixed up. *)
getQuadrantTurned(s, q) ==
    << IF q \in {0, 1} THEN s[1] ELSE xMid(s), IF q \in {0, 1} THEN xMid(s) ELSE s[2],
       IF q \in {0, 2} THEN s[3] ELSE yMid(s), IF q \in {0, 2} THEN yMid(s) ELSE s[4] >>

getQuadrant(s, q) ==
    << IF q \in {0, 2} THEN s[1] ELSE xMid(s), IF q \in {0, 2} THEN xMid(s) ELSE s[2],
       IF q \in {0, 1} THEN s[3] ELSE yMid(s), IF q \in {0, 1} THEN yMid(s) ELSE s[4] >>

quadrantBounds(node) == FoldLeft(getQuadrant, Bounds, node)

(* Where r goes from a node on, through the nodes of a set only if there is *)
(* one: insert makes those that are missing, getContainingNode stops.       *)
RECURSIVE Home(_, _)
Home(r, node) ==
    LET q == QuadrantsOf(r, quadrantBounds(node))
    IN IF q = {} THEN node ELSE Home(r, Append(node, CHOOSE x \in q : TRUE))

Above(node) == {SubSeq(node, 1, n) : n \in 0 .. Len(node)}
getContainingNode(r) ==
    LET there == Above(Home(r, <<>>)) \cap nodes
    IN CHOOSE n \in there : \A m \in there : Len(m) <= Len(n)

(* The data of r in the map of a node. *)
At(node, r) == IF <<node, r>> \in DOMAIN stored THEN stored[<<node, r>>] ELSE <<>>
Put(node, r, data) == [e \in DOMAIN stored \cup {<<node, r>>} |->
                         IF e = <<node, r>> THEN data ELSE stored[e]]

Number == FoldSet(LAMBDA e, n : n + Len(stored[e]), 0, DOMAIN stored)

Init == /\ nodes = { <<>> }
        /\ stored = [e \in {} |-> <<>>]
        /\ ret = 0

insert(r, d) ==
    /\ Number < MaxRegions
    /\ LET home == Home(r, <<>>)
       IN /\ nodes' = nodes \cup Above(home)
          /\ stored' = Put(home, r, Append(At(home, r), d))
    /\ ret' = 0

(* Mutant: only the first equal data is removed. *)
WithoutFirst(data, d) == IF d \in ToSet(data) THEN RemoveAt(data, SelectInSeq(data, LAMBDA x : x = d))
                         ELSE data

Without(data, d) == SelectSeq(data, LAMBDA x : x # d)

(* The map gets an entry for r, if it had none. *)
removeData(r, d) ==
    LET c == getContainingNode(r)
        left == Without(At(c, r), d)
    IN /\ stored' = Put(c, r, left)
       /\ ret' = Len(At(c, r)) - Len(left)
       /\ UNCHANGED nodes

(* erase gives 1 for an entry, however many data it has. *)
remove(r) ==
    LET e == <<getContainingNode(r), r>>
    IN /\ ret' = IF e \in DOMAIN stored THEN 1 ELSE 0
       /\ stored' = Restrict(stored, DOMAIN stored \ {e})
       /\ UNCHANGED nodes

Next == \E r \in Regions : remove(r) \/ \E d \in Data : insert(r, d) \/ removeData(r, d)

Spec == Init /\ [][Next]_vars
-----------------------------------------------------------------------------
(* The walks go down from a node while its bounds meet the query, and take  *)
(* the regions of the nodes they come to.                                   *)
Walked(top, q) ==
    {n \in nodes : /\ top \in Above(n)
                   /\ \A m \in (Above(n) \ Above(top)) \cup {top} : intersect(quadrantBounds(m), q)}

Entries == {e \in DOMAIN stored : stored[e] # <<>>}

getRegionsWithin(q) ==
    {e \in Entries : e[1] \in Walked(getContainingNode(q), q) /\ within(e[2], q)}
getRegionsIntersect(q) ==
    {e \in Entries : e[1] \in Walked(<<>>, q) /\ intersect(e[2], q)}

(* A query that meets the bounds of the tree finds every region that lies   *)
(* in it or meets it, those outside the bounds and on the edges of          *)
(* quadrants too.  One beyond the bounds finds none: insert keeps regions   *)
(* there in the root, whose bounds the walks test first (Quadtree.h:357,    *)
(* :384).                                                                   *)
QueriesFindAll ==
    \A q \in Queries :
       LET reached == IF intersect(Bounds, q) THEN Entries ELSE {}
       IN /\ getRegionsWithin(q) = {e \in reached : within(e[2], q)}
          /\ getRegionsIntersect(q) = {e \in reached : intersect(e[2], q)}

Contents ==
    [e \in Regions \X Data |->
       Cardinality({<<n, i>> \in nodes \X (1 .. MaxRegions) :
                      i <= Len(At(n, e[1])) /\ At(n, e[1])[i] = e[2]})]
Bag == INSTANCE RegionBag WITH items <- Contents

(* The tree keeps regions and their data as often as they were inserted,    *)
(* and a removal finds all of them, whatever nodes were made since; it      *)
(* counts them if their data was given, and tells if there were any         *)
(* otherwise.                                                               *)
ImplementsBag == Bag!FoundSpec

(* "returns the number of regions removed" (Quadtree.h:305) *)
RemoveCounts == Bag!Spec
=============================================================================
