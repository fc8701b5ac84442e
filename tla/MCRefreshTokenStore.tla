------------------------ MODULE MCRefreshTokenStore ------------------------
(* RefreshTokenStore for TLC: two requests at a time, a few families and   *)
(* tokens, a clock that reaches past the expiry of what is created first.  *)
EXTENDS RefreshTokenStore, TLC

CONSTANTS LastTime

Clock == 0 .. LastTime

Symmetry == Permutations(Callers) \cup Permutations(Families) \cup Permutations(Tokens)
=============================================================================
