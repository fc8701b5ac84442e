---------------------------- MODULE ScopeGrant ----------------------------
(***************************************************************************)
(* struct ScopeGrant of src/src/oauth.rs: which scopes a registration, an  *)
(* approval or a token carries, and which requests one of them covers.     *)
(***************************************************************************)

Scopes == {"kb:tech", "kb:private"}

\* What a client may write in its registration: scopes this server defines
\* and one word that stands for all the others.
Words == Scopes \cup {"unknown"}

\* is_valid: not empty, only defined scopes.  ScopeGrant::parse returns these.
Grants == (SUBSET Scopes) \ {{}}

DefaultForNewClient == Scopes

\* The slip: words the server does not define are kept.
ParseLenientKeepingWords(words) ==
  IF words = {} THEN DefaultForNewClient ELSE words

\* parse_lenient: unknown words are dropped; with none left, the default.
ParseLenient(words) ==
  LET known == words \cap Scopes
  IN IF known = {} THEN DefaultForNewClient ELSE known

\* kb:private covers kb:tech, never the other way round.
Allows(grant, requested) ==
  \A s \in requested :
    s \in grant \/ (s = "kb:tech" /\ "kb:private" \in grant)

\* What a grant opens: the tech directories, or the private ones as well.
AccessScope(grant) ==
  IF "kb:private" \in grant THEN "Private" ELSE "Tech"
=============================================================================
