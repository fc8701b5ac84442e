------------------------------ MODULE MCInbox ------------------------------
(* Inbox for TLC.  The slugs are those of "Note" and "Note 2": a retried   *)
(* name of the first is the name of the second.                            *)
EXTENDS Inbox, TLC

NoteSlugs == {<<"note">>, <<"note", 2>>}

Symmetry == Permutations(Writers)
=============================================================================
