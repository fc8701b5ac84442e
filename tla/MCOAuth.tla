------------------------------ MODULE MCOAuth ------------------------------
(* OAuth for TLC.                                                          *)
EXTENDS OAuth, TLC

CONSTANTS LastTime

Clock == 0 .. LastTime

Symmetry == Permutations(Callers) \cup Permutations(Clients)
              \cup Permutations(Families) \cup Permutations(Tokens)
=============================================================================
