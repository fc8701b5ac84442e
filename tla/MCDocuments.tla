---------------------------- MODULE MCDocuments ----------------------------
(* Documents for TLC: a place in a public directory, one in a private one  *)
(* and one in the inbox, with INDEX.md beside them.                        *)
EXTENDS Documents, TLC

CONSTANTS d1, d2, n1

Places == {[dir |-> 10, name |-> 1],
           [dir |-> 90, name |-> 1], [dir |-> 99, name |-> 1]}
PlacesInScope == {p \in Places : p.dir # 99}
Scores == d1 :> 2 @@ d2 :> 1 @@ n1 :> 0
Sizes  == d1 :> 3 @@ d2 :> 1 @@ n1 :> 1
SumOfSizes(hits) == MapThenSumSet(LAMBDA h : Sizes[h.doc], hits)
=============================================================================
