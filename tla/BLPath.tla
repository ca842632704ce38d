--------------------------------- MODULE BLPath ---------------------------------
(***************************************************************************)
(* bl_path_arr_basic (BL_PATH/bl_path.c): a way through a field of open and *)
(* blocked cells, of which each goes to its eight neighbours.               *)
(*                                                                         *)
(* A round of the searching loop is a step: the cell the round is about     *)
(* moves straight towards the end, or spreads to its other neighbours and   *)
(* leaves the list.  What a cell remembers, visited, is the direction it    *)
(* was entered from, and the way is rebuilt along these from the end.       *)
(* (x, y) never leaves the field, so the branch for an invalid (x, y) is    *)
(* not here; that the cell moved to does not either is DirectInField.       *)
(***************************************************************************)
EXTENDS Integers, FiniteSets, Sequences, SequencesExt, ListOps

CONSTANTS FieldX, FieldY,   \* the size of the field
          MinOpen, MaxOpen, \* fewest and most open cells of the fields considered
          FIND_OPTIMAL,     \* the switch of bl_path.h
          None

ASSUME FieldAssumption == /\ FieldX \in Nat \ {0} /\ FieldY \in Nat \ {0}
                         /\ FIND_OPTIMAL \in BOOLEAN
                         /\ None \notin 0 .. 7

Coord == (0 .. FieldX - 1) \X (0 .. FieldY - 1)
Dir == 0 .. 7

VARIABLES open, start, end,
          at,        \* "search", "rebuild", "done", or "spinning"
          visited,   \* of each cell, the direction back, or None
          split,     \* of each cell, the directions it has spread to
          list, cur, \* the cells to go on from; the place of the next, 0 for NULL
          moves      \* from the start to each visited cell (auxiliary)

given == <<open, start, end>>
path == <<open, start, end, at, visited, split, list, cur, moves>>

dirx == <<0, 1, 1, 1, 0, -1, -1, -1>>
diry == <<1, 1, 0, -1, -1, -1, 0, 1>>
split_offset == <<4, 5, 3, 6, 2, 7, 1>>

(* Mutant: three quarters of a turn. *)
OppositeAskew(d) == (d + 6) % 8

Opposite(d) == (d + 4) % 8
Toward(c, d) == <<c[1] + dirx[d + 1], c[2] + diry[d + 1]>>

Abs(n) == IF n < 0 THEN -n ELSE n

(* get_chxy_direction: straight or diagonal, by the slope of the way to go, *)
(* the limits being 0.414 and 2.414.                                        *)
OnlyX(rise, run) == 1000 * Abs(rise) < 414 * Abs(run)
OnlyY(rise, run) == 1000 * Abs(rise) > 2414 * Abs(run)

(* Mutant: a column to go is not recognised by its run. *)
OnlyYSteeply(rise, run) == run # 0 /\ 1000 * Abs(rise) > 2414 * Abs(run)

DirectFrom ==
    [way \in Coord \X Coord |->
       LET rise == way[2][2] - way[1][2]
           run == way[2][1] - way[1][1]
       IN IF way[1] = way[2] THEN None
          ELSE CHOOSE d \in Dir :
                  /\ dirx[d + 1] = IF OnlyY(rise, run) THEN 0
                                   ELSE IF run < 0 THEN -1 ELSE 1
                  /\ diry[d + 1] = IF OnlyX(rise, run) THEN 0 ELSE IF rise < 0 THEN -1 ELSE 1]

PathInit ==
    /\ open \in {S \in SUBSET Coord : Cardinality(S) \in MinOpen .. MaxOpen}
    /\ start \in open
    /\ end \in open
    /\ at = "search"
    /\ visited = [c \in Coord |-> IF c = start THEN 0 ELSE None]
    /\ split = [c \in Coord |-> {}]
    /\ list = <<start>>
    /\ cur = 1
    /\ moves = [c \in Coord |-> 0]

Place == IF cur = 0 THEN 1 ELSE cur
Here == list[Place]
Direct == DirectFrom[<<Here, end>>]
Ahead == Toward(Here, Direct)
(* The place after n, or NULL, in a list of that length. *)
PlaceAfter(n, length) == IF n < length THEN n + 1 ELSE 0

Searching == at = "search" /\ list # <<>> /\ Here # end
CanProceed == Ahead \in open /\ visited[Ahead] = None

(* Mutant: the cell gone to does not remember where from. *)
ProceedBlindly ==
    /\ Searching
    /\ CanProceed
    /\ split' = [split EXCEPT ![Here] = @ \cup {Direct}]
    /\ list' = [list EXCEPT ![Place] = Ahead]
    /\ cur' = PlaceAfter(Place, Len(list))
    /\ UNCHANGED <<given, at, visited, moves>>

(* The cell of this round goes the most direct way. *)
Proceed ==
    /\ Searching
    /\ CanProceed
    /\ split' = [split EXCEPT ![Here] = @ \cup {Direct}]
    /\ visited' = [visited EXCEPT ![Ahead] = Opposite(Direct)]
    /\ moves' = [moves EXCEPT ![Ahead] = moves[Here] + 1]
    /\ list' = [list EXCEPT ![Place] = Ahead]
    /\ cur' = PlaceAfter(Place, Len(list))
    /\ UNCHANGED <<given, at>>

(* Mutant: the last of the other directions is forgotten. *)
OthersButOne == [i \in 1 .. 6 |-> (Direct + split_offset[i]) % 8]

(* The other directions, in the order they are tried; those not spread to   *)
(* before; those that lead to an open cell.                                 *)
Others == [i \in 1 .. 7 |-> (Direct + split_offset[i]) % 8]
Untried == Among(Others, Dir \ split[Here])
Useful == {d \in Dir : Toward(Here, d) \in open}

(* Without FIND_OPTIMAL the first useful one ends the loop. *)
Tried == LET useful == {i \in DOMAIN Untried : Untried[i] \in Useful}
         IN IF FIND_OPTIMAL \/ useful = {} THEN Untried
            ELSE SubSeq(Untried, 1, Min(useful))

(* What was tried is bound by quantifiers, for TLC to work it out once.     *)
Spread ==
    /\ Searching
    /\ ~CanProceed
    /\ \E tried \in {Tried} : \E ds \in {Among(tried, Useful)} :
       LET reached == {d \in ToSet(ds) : visited[Toward(Here, d)] = None}
           new == {Toward(Here, d) : d \in reached}
           Back(c) == Opposite(CHOOSE d \in reached : Toward(Here, d) = c)
       IN /\ visited' = [c \in Coord |-> IF c \in new THEN Back(c) ELSE visited[c]]
          /\ moves' = [c \in Coord |-> IF c \in new THEN moves[Here] + 1 ELSE moves[c]]
          /\ split' = [split EXCEPT ![Here] = @ \cup ToSet(tried) \cup {Direct}]
          /\ list' = Reverse([i \in DOMAIN ds |-> Toward(Here, ds[i])]) \o RemoveAt(list, Place)
          /\ cur' = PlaceAfter(Len(ds) + Place - 1, Len(ds) + Len(list) - 1)
    /\ UNCHANGED <<given, at>>

(* The end is in the list, or nothing is. *)
EndSearch ==
    /\ at = "search"
    /\ list = <<>> \/ (list # <<>> /\ Here = end)
    /\ at' = "rebuild"
    /\ list' = <<end>>
    /\ cur' = 0
    /\ UNCHANGED <<given, visited, split, moves>>

BackUp ==
    /\ at = "rebuild"
    /\ list[1] # start
    /\ visited[list[1]] # None
    /\ list' = <<Toward(list[1], visited[list[1]])>> \o list
    /\ UNCHANGED <<given, at, visited, split, cur, moves>>

(* The loop that looks for the bit of a direction finds none.               *)
Spin ==
    /\ at = "rebuild"
    /\ list[1] # start
    /\ visited[list[1]] = None
    /\ at' = "spinning"
    /\ UNCHANGED <<given, visited, split, list, cur, moves>>

Finish ==
    /\ at = "rebuild"
    /\ list[1] = start
    /\ at' = "done"
    /\ UNCHANGED <<given, visited, split, list, cur, moves>>

PathNext == Proceed \/ Spread \/ EndSearch \/ BackUp \/ Spin \/ Finish

PathSpec == PathInit /\ [][PathNext]_path
-----------------------------------------------------------------------------
Adjacent(c, d) == c # d /\ Abs(c[1] - d[1]) <= 1 /\ Abs(c[2] - d[2]) <= 1

(* The open cells at n moves at most from the start. *)
Within[n \in Nat] ==
    IF n = 0 THEN {start}
    ELSE LET near == Within[n - 1] IN near \cup {d \in open : \E c \in near : Adjacent(c, d)}
Reachable == Within[Cardinality(open)]

(* field[chx][chy] and nodeField[chx][chy] are read before anything has     *)
(* tested chx and chy (line 81 tests x and y).  They are in the field: a    *)
(* cell in the list never leaves it, and neither does the way to the end.   *)
DirectInField ==
    /\ \A i \in 1 .. Len(list) : list[i] \in Coord
    /\ Searching => Ahead \in Coord

(* "should avoid inf loops when rebuilding, CHECK" (line 98): every cell   *)
(* that was visited leads back to one that was visited a move earlier, and  *)
(* the start alone is at no move.                                           *)
VisitedLeadBack ==
    \A c \in Coord \ {start} :
       visited[c] # None =>
          LET from == Toward(c, visited[c])
          IN /\ c \in open /\ from \in open
             /\ visited[from] # None
             /\ moves[c] = moves[from] + 1

(* A cell that went straight on has left directions untried and is in the   *)
(* list no more; it has to come back when the straight way was a dead end.  *)
(* The search ends without the end only if there is no way.                 *)
FoundIfReachable ==
    at = "rebuild" /\ list = <<end>> => (visited[end] # None <=> end \in Reachable)

(* What is rebuilt is a way from start to end through neighbouring open     *)
(* cells, and comes to no cell twice.                                       *)
WayIsWalkable ==
    at = "done" =>
       /\ list[1] = start /\ list[Len(list)] = end
       /\ \A i \in 1 .. Len(list) : list[i] \in open
       /\ \A i \in 1 .. Len(list) - 1 : Adjacent(list[i], list[i + 1])
       /\ \A i, j \in 1 .. Len(list) : list[i] = list[j] => i = j

(* The search comes to its end, and the way is rebuilt unless the end was    *)
(* never reached: then the rebuilding is caught at its first cell.          *)
SearchEnded == at = "done" \/ (at = "spinning" /\ list = <<end>>)

(* "if yes(1), finds the optimal path" (bl_path.h:10): no way has fewer     *)
(* moves.                                                                   *)
FindsOptimal == at = "done" /\ Len(list) > 2 => end \notin Within[Len(list) - 2]
=============================================================================
