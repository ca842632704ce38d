--------------------------- MODULE MCThreadQSortFine ---------------------------
(* ThreadQSortFine for TLC: two workers on five elements, the least with    *)
(* which both partition at the same time.                                   *)
EXTENDS ThreadQSortFine

Inputs == { [i \in Index |-> a[p[i]]] :
              p \in Coarse!Shuffles(Index),
              a \in {[i \in Index |-> i], [i \in Index |-> (i + 1) \div 2]} }

MCInit == Init /\ arr \in Inputs

MCFairSpec == MCInit /\ [][Next]_vars /\ Fairness
=============================================================================
