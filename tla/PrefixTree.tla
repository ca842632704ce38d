------------------------------- MODULE PrefixTree -------------------------------
(***************************************************************************)
(* PrefixTree (PREFIXTREE/PrefixTree.cpp): words in a tree whose nodes each *)
(* hold a piece of them and have children in the order of their first       *)
(* characters.                                                              *)
(*                                                                         *)
(* A word is a sequence of characters; the character 0, which str[len] is,  *)
(* is in none.  The tree is the value of its root; sequences begin at 1, so *)
(* positions are one more than the indexes of the code.                     *)
(***************************************************************************)
EXTENDS Integers, FiniteSets, Sequences, SequencesExt

CONSTANTS Word,       \* the words inserted and asked for
          MaxWords    \* most words in the tree

VARIABLES root,
          ret     \* what contains returned

vars == <<root, ret>>

WordEnd(prefix) == [prefix |-> prefix, endpoint |-> TRUE, children |-> <<>>]

Init == /\ root = [prefix |-> <<>>, endpoint |-> FALSE, children |-> <<>>]
        /\ ret = FALSE

(* How many characters two words begin with have in common. *)
split(s, t) == Len(LongestCommonPrefix({s, t}))
From(s, n) == SubSeq(s, n + 1, Len(s))

After(mid) == mid + 1

(* childSearch: whether a child begins with the key, and its place or the   *)
(* place of a new child.                                                    *)
RECURSIVE SearchIn(_, _, _, _)
SearchIn(children, key, left, right) ==
    LET mid == left + (right - left) \div 2
        midChar == children[mid].prefix[1]
    IN IF left >= right THEN <<FALSE, mid>>
       ELSE IF key < midChar THEN SearchIn(children, key, left, mid)
       ELSE IF key > midChar THEN SearchIn(children, key, After(mid), right)
       ELSE <<TRUE, mid>>
childSearch(children, key) == SearchIn(children, key, 1, Len(children) + 1)

(* Mutant: the node split in two stays the end of a word. *)
insertInNodeEnds(cur, n, rest) ==
    LET splitRight == [cur EXCEPT !.prefix = From(@, n)]
        strRight == WordEnd(rest)
    IN [prefix |-> SubSeq(cur.prefix, 1, n), endpoint |-> cur.endpoint \/ rest = <<>>,
        children |-> IF rest = <<>> THEN <<splitRight>>
                     ELSE IF rest[1] > splitRight.prefix[1] THEN <<splitRight, strRight>>
                     ELSE <<strRight, splitRight>>]

(* The node is split after n characters of its prefix, what it was goes to  *)
(* a node below, and what is left of the word, if anything, to another.     *)
insertInNode(cur, n, rest) ==
    LET splitRight == [cur EXCEPT !.prefix = From(@, n)]
        strRight == WordEnd(rest)
    IN [prefix |-> SubSeq(cur.prefix, 1, n), endpoint |-> rest = <<>>,
        children |-> IF rest = <<>> THEN <<splitRight>>
                     ELSE IF rest[1] > splitRight.prefix[1] THEN <<splitRight, strRight>>
                     ELSE <<strRight, splitRight>>]

insertAfterNode(cur, pos, rest) == [cur EXCEPT !.children = InsertAt(@, pos, WordEnd(rest))]

(* The node once what is left of the word is inserted there or below. *)
RECURSIVE Inserted(_, _)
Inserted(cur, str) ==
    LET n == split(cur.prefix, str)
        rest == From(str, n)
        found == childSearch(cur.children, rest[1])
    IN IF n < Len(cur.prefix) THEN insertInNode(cur, n, rest)
       ELSE IF rest = <<>> THEN [cur EXCEPT !.endpoint = TRUE]
       ELSE IF found[1] THEN [cur EXCEPT !.children[found[2]] = Inserted(@, rest)]
       ELSE insertAfterNode(cur, found[2], rest)

(* A child that begins with str[len] is never found. *)
RECURSIVE find(_, _)
find(cur, str) ==
    LET n == split(cur.prefix, str)
        rest == From(str, n)
        found == childSearch(cur.children, IF rest = <<>> THEN 0 ELSE rest[1])
    IN IF n < Len(cur.prefix) THEN FALSE
       ELSE IF found[1] THEN find(cur.children[found[2]], rest)
       ELSE rest = <<>> /\ cur.endpoint
-----------------------------------------------------------------------------
(* The words of the tree: what is read on the way to an endpoint. *)
RECURSIVE WordsBelow(_)
WordsBelow(cur) ==
    LET below == (IF cur.endpoint THEN {<<>>} ELSE {})
                   \cup UNION {WordsBelow(c) : c \in ToSet(cur.children)}
    IN {cur.prefix \o w : w \in below}
Words == WordsBelow(root)

insert(str) == /\ Cardinality(Words \cup {str}) <= MaxWords
               /\ root' = Inserted(root, str)
               /\ UNCHANGED ret

contains(str) == ret' = find(root, str) /\ UNCHANGED root

Next == \E str \in Word : insert(str) \/ contains(str)

Spec == Init /\ [][Next]_vars
-----------------------------------------------------------------------------
(* The tree is a set of words: a word is found if and only if it was        *)
(* inserted, whatever the tree was split into by the others.                *)
Set == INSTANCE WordSet WITH words <- Words
ImplementsSet == Set!Spec
=============================================================================
