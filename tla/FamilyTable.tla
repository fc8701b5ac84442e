---------------------------- MODULE FamilyTable ----------------------------
(***************************************************************************)
(* The table of refresh-token families and the three questions the store   *)
(* in src/src/oauth.rs answers about it, as pure operators: given a table  *)
(* and a request, Outcome is the table the code would leave and the answer *)
(* it would give.  How that table is locked, written to disk and recovered *)
(* is the subject of FamilyStore (the promise) and RefreshTokenStore (the  *)
(* code); both take the decisions from here.                               *)
(***************************************************************************)
EXTENDS Naturals

CONSTANTS
  Families,   \* family ids, "rf_" and 32 random bytes: never drawn twice
  Tokens,     \* refresh-token ids, "rti_" and 32 random bytes: never drawn twice
  NoToken,    \* the token of a key that is not in the table
  TTL,        \* refresh_token_ttl_seconds
  Times       \* the clock readings (now_unix) considered

ASSUME NoTokenAssumption == NoToken \notin Tokens
ASSUME TimeAssumption == TTL \in Nat \ {0} /\ Times \subseteq Nat /\ 0 \in Times

\* RefreshTokenFamily { active_token_hash, expires_at, revoked }.  The HashMap
\* is a total function: status "absent" stands for a key it does not contain.
Absent == [status |-> "absent", token |-> NoToken, expires |-> 0]

Entry == [status : {"active", "revoked"}, token : Tokens, expires : Nat] \cup {Absent}

Table == [Families -> Entry]

EmptyTable == [f \in Families |-> Absent]

\* The entry of a family whose one token is the one signed for request r, and
\* what becomes of an entry when its family is revoked.
Issued(r) == [status |-> "active", token |-> r.next, expires |-> r.now + TTL]
Revoked(entry) == [status |-> "revoked", token |-> entry.token, expires |-> entry.expires]

\* The arguments of create_family, rotate and is_active.  `now` is the clock
\* reading the caller took before it asked for the lock; create and rotate
\* give the family the expiry now + TTL that the signed token carries.
Request ==
  [op : {"create"}, family : Families, presented : {NoToken}, next : Tokens, now : Times]
    \cup
  [op : {"rotate"}, family : Families, presented : Tokens, next : Tokens, now : Times]
    \cup
  [op : {"is_active"}, family : Families, presented : {NoToken}, next : {NoToken}, now : Times]

Answer == {"ok", "entropy", "invalid_grant", "true", "false", "internal"}

----------------------------------------------------------------------------
(* The decisions.  A definition named after what it gets wrong is not the  *)
(* code's: it is a slip the properties are shown to catch.                 *)

PrunedTooEarly(table, n) ==
  [f \in Families |-> IF table[f].expires > n + 1 THEN table[f] ELSE Absent]

\* next.families.retain(|_, family| family.expires_at > now)
Pruned(table, n) ==
  [f \in Families |-> IF table[f].expires > n THEN table[f] ELSE Absent]

\* Stores the wrong one of the two tokens it was given.
CreateWithoutToken(table, r) ==
  [table |-> [Pruned(table, r.now) EXCEPT ![r.family] =
                [status |-> "active", token |-> r.presented, expires |-> r.now + TTL]],
   answer |-> "ok"]

CreateOutcome(table, r) ==
  LET kept == Pruned(table, r.now)
  IN IF kept[r.family].status # "absent"
     THEN [table |-> table, answer |-> "entropy"]
     ELSE [table |-> [kept EXCEPT ![r.family] = Issued(r)], answer |-> "ok"]

\* Refuses a superseded token and forgets to revoke its family.
RotateWithoutRevoking(table, r) ==
  LET kept == Pruned(table, r.now)
  IN IF kept[r.family].status = "active" /\ kept[r.family].token = r.presented
     THEN [table |-> [kept EXCEPT ![r.family] = Issued(r)], answer |-> "ok"]
     ELSE [table |-> kept, answer |-> "invalid_grant"]

\* Looks at the family alone, so that any of its tokens rotates it.
RotateAnyToken(table, r) ==
  LET kept == Pruned(table, r.now)
  IN IF kept[r.family].status = "active"
     THEN [table |-> [kept EXCEPT ![r.family] = Issued(r)], answer |-> "ok"]
     ELSE [table |-> kept, answer |-> "invalid_grant"]

\* Takes the family's last token even after the family was revoked.
RotateRevoked(table, r) ==
  LET kept == Pruned(table, r.now)
  IN IF kept[r.family].status # "absent" /\ kept[r.family].token = r.presented
     THEN [table |-> [kept EXCEPT ![r.family] = Issued(r)], answer |-> "ok"]
     ELSE IF kept[r.family].status = "absent"
     THEN [table |-> kept, answer |-> "invalid_grant"]
     ELSE [table |-> [kept EXCEPT ![r.family] = Revoked(kept[r.family])],
           answer |-> "invalid_grant"]

\* A token that is not the family's active one revokes the family; a family
\* that is unknown, expired or already revoked is refused as it stands.
RotateOutcome(table, r) ==
  LET kept == Pruned(table, r.now)
      entry == kept[r.family]
  IN IF entry.status = "absent"
     THEN [table |-> kept, answer |-> "invalid_grant"]
     ELSE IF entry.status = "active" /\ entry.token = r.presented
     THEN [table |-> [kept EXCEPT ![r.family] = Issued(r)], answer |-> "ok"]
     ELSE [table |-> [kept EXCEPT ![r.family] = Revoked(kept[r.family])],
           answer |-> "invalid_grant"]

IsActiveOutcome(table, r) ==
  [table |-> table,
   answer |-> IF /\ table[r.family].status = "active"
                 /\ table[r.family].expires > r.now
              THEN "true" ELSE "false"]

Outcome(table, r) ==
  IF r.op = "create" THEN CreateOutcome(table, r)
  ELSE IF r.op = "rotate" THEN RotateOutcome(table, r)
  ELSE IsActiveOutcome(table, r)

\* The calls that reach persist: every success of create_family and rotate,
\* and the refusals of rotate that pruned or revoked something (`changed`).
MustSave(table, r) ==
  Outcome(table, r).answer = "ok" \/ Outcome(table, r).table # table
=============================================================================
