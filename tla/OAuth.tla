------------------------------- MODULE OAuth -------------------------------
(***************************************************************************)
(* The authorization server of src/src/oauth.rs: registration, the owner's *)
(* approval, the exchange of an authorization code, the refresh of a       *)
(* token and the check of a bearer token, for several requests at a time.  *)
(*                                                                         *)
(* The server keeps two things: the codes it has issued, in memory, and    *)
(* the refresh-token families, in the store (FamilyStore).  Registrations, *)
(* approval pages and tokens are signed values that clients bring back;    *)
(* the sets of them below are what clients hold, and never shrink.         *)
(***************************************************************************)
EXTENDS FamilyStore, ScopeGrant, FiniteSets

CONSTANTS
  Clients,      \* client ids: each a signed registration
  Codes,        \* authorization codes, never drawn twice
  NoClient, NoCode,
  ApprovalTTL,  \* APPROVAL_REQUEST_TTL_SECONDS
  CodeTTL,      \* authorization_code_ttl_seconds
  AccessTTL,    \* access_token_ttl_seconds
  MaxPages      \* bound: approval pages rendered

ASSUME OAuthAssumption ==
  /\ NoClient \notin Clients /\ NoCode \notin Codes
  /\ {ApprovalTTL, CodeTTL, AccessTTL, MaxPages} \subseteq Nat

VARIABLES
  now,           \* the clock
  cap,           \* scopes signed into each client id; {} is not registered
  pages,         \* approval pages, each with its signed request
  codes,         \* authorization_codes
  job,           \* what each request being served goes on with
  refreshTokens, \* refresh tokens clients hold, with their claims
  accessTokens,  \* access tokens clients hold, with their claims
  approved,      \* the owner's decisions: what each code was issued for
  refused,       \* families a refresh of which was answered invalid_grant
  drawn          \* family and token ids generated so far

serviceVars == <<now, cap, pages, codes, job, refreshTokens, accessTokens,
                 approved, refused, drawn>>

vars == <<storeVars, serviceVars>>

\* origin, the code it all began with, is in no token: it is what the
\* properties need to know.
RefreshClaims == [token : Tokens, family : Families, client : Clients,
                  scopes : Grants, expires : Nat,
                  parent : Tokens \cup {NoToken}, origin : Codes]

AccessClaims == [family : Families, scopes : Grants, expires : Nat, origin : Codes]

Job == [kind : {"code", "refresh", "bearer"}, client : Clients \cup {NoClient},
        scopes : Grants, accessUntil : Nat, origin : Codes, late : BOOLEAN]

NoJob == [kind |-> "none", client |-> NoClient, scopes |-> {}, accessUntil |-> 0,
          origin |-> NoCode, late |-> FALSE]

\* Why a refresh was refused: by the store, or by the checks before it.
Refusal == [family : Families, by : {"store", "claims"}]

TypeOK ==
  /\ StoreTypeOK
  /\ now \in Times
  /\ cap \in [Clients -> SUBSET Scopes]
  /\ pages \subseteq [client : Clients, requested : Grants, expires : Nat]
  /\ codes \subseteq [code : Codes, client : Clients, scopes : Grants, expires : Nat]
  /\ job \in [Callers -> Job \cup {NoJob}]
  /\ refreshTokens \subseteq RefreshClaims
  /\ accessTokens \subseteq AccessClaims
  /\ approved \subseteq [code : Codes, client : Clients, scopes : Grants]
  /\ refused \subseteq Refusal
  /\ drawn \subseteq Families \cup Tokens

Init ==
  /\ StoreInit
  /\ now = 0
  /\ cap = [k \in Clients |-> {}]
  /\ pages = {} /\ codes = {}
  /\ job = [c \in Callers |-> NoJob]
  /\ refreshTokens = {} /\ accessTokens = {}
  /\ approved = {} /\ refused = {} /\ drawn = {}

----------------------------------------------------------------------------
(* Registration and the owner's approval.                                  *)

RegisterClient(k) ==
  /\ cap[k] = {}
  /\ \E words \in SUBSET Words : cap' = [cap EXCEPT ![k] = ParseLenient(words)]
  /\ UNCHANGED <<storeVars, now, pages, codes, job, refreshTokens,
                 accessTokens, approved, refused, drawn>>

\* A client that names no scope asks for all it is registered for.
BeginAuthorization(k) ==
  /\ cap[k] # {}
  /\ Cardinality(pages) < MaxPages
  /\ \E requested \in Grants \cup {cap[k]} :
       /\ Allows(cap[k], requested)
       /\ pages' = pages \cup {[client |-> k, requested |-> requested,
                                expires |-> now + ApprovalTTL]}
  /\ UNCHANGED <<storeVars, now, cap, codes, job, refreshTokens, accessTokens,
                 approved, refused, drawn>>

\* The owner approves a page, with the right secret, for some of what it asks.
\* Nothing marks a page as used: it can be approved again until it expires.
CompleteAuthorization(page) ==
  /\ page.expires > now
  /\ Allows(cap[page.client], page.requested)
  /\ \E granted \in Grants, a \in Codes \ {d.code : d \in approved} :
       /\ granted \subseteq page.requested
       /\ Allows(cap[page.client], granted)
       /\ codes' = {r \in codes : r.expires > now} \cup
                   {[code |-> a, client |-> page.client, scopes |-> granted,
                     expires |-> now + CodeTTL]}
       /\ approved' = approved \cup {[code |-> a, client |-> page.client,
                                      scopes |-> granted]}
  /\ UNCHANGED <<storeVars, now, cap, pages, job, refreshTokens, accessTokens,
                 refused, drawn>>

----------------------------------------------------------------------------
(* POST /oauth/token.  Client k has authenticated.                         *)

\* issue_token_pair up to create_family.
IssueTokenPair(c, k, r) ==
  \E f \in Families \ drawn, t \in Tokens \ drawn :
    /\ Call(c, [op |-> "create", family |-> f, presented |-> NoToken,
                next |-> t, now |-> now])
    /\ job' = [job EXCEPT ![c] =
                 [kind |-> "code", client |-> k, scopes |-> r.scopes,
                  accessUntil |-> now + AccessTTL, origin |-> r.code,
                  late |-> FALSE]]
    /\ drawn' = drawn \cup {f, t}

\* `proof` is whether the redirect_uri and the PKCE verifier match the record.
Redeemable(r, k, proof) == r.expires > now /\ r.client = k /\ proof

\* The slip: the code is looked up and left where it is.
ExchangeCodeKeepingIt(c, k) ==
  \E r \in codes, proof \in BOOLEAN :
    /\ stage[c] = "idle"
    /\ Redeemable(r, k, proof)
    /\ IssueTokenPair(c, k, r)
    /\ UNCHANGED <<now, cap, codes, pages, refreshTokens, accessTokens,
                   approved, refused>>

\* The code is removed before anything about it is checked.
ExchangeCode(c, k) ==
  \E r \in codes, proof \in BOOLEAN :
    /\ stage[c] = "idle"
    /\ codes' = codes \ {r}
    /\ IF Redeemable(r, k, proof)
       THEN IssueTokenPair(c, k, r)
       ELSE UNCHANGED <<storeVars, job, drawn>>
    /\ UNCHANGED <<now, cap, pages, refreshTokens, accessTokens, approved, refused>>

\* The slip: the client binding of the token is not compared.
AcceptsAnyClient(h, k) == h.expires > now

\* The claims a refresh token must carry to reach the store.
AcceptsClaims(h, k) == h.expires > now /\ h.client = k

\* The slip: the scope a refresh names is signed as it comes.
ExchangeRefreshTokenUnscoped(c, k) ==
  \E h \in refreshTokens, t \in Tokens \ drawn, scopes \in Grants :
    /\ AcceptsClaims(h, k)
    /\ Call(c, [op |-> "rotate", family |-> h.family, presented |-> h.token,
                next |-> t, now |-> now])
    /\ job' = [job EXCEPT ![c] =
                 [kind |-> "refresh", client |-> k, scopes |-> scopes,
                  accessUntil |-> now + AccessTTL, origin |-> h.origin,
                  late |-> FALSE]]
    /\ drawn' = drawn \cup {t}
    /\ UNCHANGED <<now, cap, pages, codes, refreshTokens, accessTokens,
                   approved, refused>>

\* exchange_refresh_token up to rotate.  A client that names no scope keeps
\* the token's; a narrower one is signed into the next token for good.
ExchangeRefreshToken(c, k) ==
  \E h \in refreshTokens, t \in Tokens \ drawn :
    \E scopes \in Grants \cup {h.scopes} :
      /\ AcceptsClaims(h, k)
      /\ Allows(h.scopes, scopes)
      /\ Call(c, [op |-> "rotate", family |-> h.family, presented |-> h.token,
                  next |-> t, now |-> now])
      /\ job' = [job EXCEPT ![c] =
                   [kind |-> "refresh", client |-> k, scopes |-> scopes,
                    accessUntil |-> now + AccessTTL, origin |-> h.origin,
                    late |-> FALSE]]
      /\ drawn' = drawn \cup {t}
      /\ UNCHANGED <<now, cap, pages, codes, refreshTokens, accessTokens,
                     approved, refused>>

\* A token that was already exchanged, its claims in order or not.
Superseded(h) == \E g \in refreshTokens : g.parent = h.token

\* The checks before rotate answer invalid_grant: nothing is changed.
RefuseRefreshToken(k) ==
  \E h \in refreshTokens :
    /\ ~AcceptsClaims(h, k)
    /\ Superseded(h)
    /\ refused' = refused \cup {[family |-> h.family, by |-> "claims"]}
    /\ UNCHANGED <<storeVars, now, cap, pages, codes, job, refreshTokens,
                   accessTokens, approved, drawn>>

\* The store has answered: hand out the pair of tokens or report the error.
AnswerTokenRequest(c) ==
  /\ stage[c] = "done" /\ job[c].kind \in {"code", "refresh"}
  /\ LET r == request[c]
         j == job[c]
     IN /\ refreshTokens' =
             IF answer[c] = "ok"
             THEN refreshTokens \cup
                  {[token |-> r.next, family |-> r.family, client |-> j.client,
                    scopes |-> j.scopes, expires |-> r.now + TTL,
                    parent |-> r.presented, origin |-> j.origin]}
             ELSE refreshTokens
        /\ accessTokens' =
             IF answer[c] = "ok"
             THEN accessTokens \cup
                  {[family |-> r.family, scopes |-> j.scopes,
                    expires |-> j.accessUntil, origin |-> j.origin]}
             ELSE accessTokens
        /\ refused' = IF answer[c] = "invalid_grant"
                      THEN refused \cup {[family |-> r.family, by |-> "store"]}
                      ELSE refused
  /\ Return(c)
  /\ job' = [job EXCEPT ![c] = NoJob]
  /\ UNCHANGED <<now, cap, pages, codes, approved, drawn>>

----------------------------------------------------------------------------
(* A bearer token presented to the resource.                               *)

\* A client has been told by the store that the family is gone.
ToldDead(f) == [family |-> f, by |-> "store"] \in refused

\* authenticate_bearer up to is_active.  `late` notes that some client had
\* already been told that the family is gone.
AuthenticateBearer(c) ==
  \E a \in accessTokens :
    /\ a.expires > now
    /\ Call(c, [op |-> "is_active", family |-> a.family, presented |-> NoToken,
                next |-> NoToken, now |-> now])
    /\ job' = [job EXCEPT ![c] =
                 [kind |-> "bearer", client |-> NoClient, scopes |-> a.scopes,
                  accessUntil |-> a.expires, origin |-> a.origin,
                  late |-> ToldDead(a.family)]]
    /\ UNCHANGED <<now, cap, pages, codes, refreshTokens, accessTokens,
                   approved, refused, drawn>>

\* is_active has answered: the request is served or refused.
AnswerBearer(c) ==
  /\ stage[c] = "done" /\ job[c].kind = "bearer"
  /\ Return(c)
  /\ job' = [job EXCEPT ![c] = NoJob]
  /\ UNCHANGED <<now, cap, pages, codes, refreshTokens, accessTokens, approved,
                 refused, drawn>>

Admitted(c) == stage[c] = "done" /\ job[c].kind = "bearer" /\ answer[c] = "true"

----------------------------------------------------------------------------
(* The store, the process and the clock.                                   *)

StoreApplies(c) == Apply(c) /\ UNCHANGED serviceVars
StoreFails(c)   == Fail(c)  /\ UNCHANGED serviceVars

\* The codes live in memory only.
Restart ==
  /\ CallersLost
  /\ codes' = {}
  /\ job' = [c \in Callers |-> NoJob]
  /\ UNCHANGED <<now, cap, pages, refreshTokens, accessTokens, approved,
                 refused, drawn>>

\* As in RefreshTokenStore, the clock is not set back.  issue_access_token reads
\* it once more, before the store is asked: here that is the same reading.
Tick ==
  /\ now + 1 \in Times
  /\ now' = now + 1
  /\ UNCHANGED <<storeVars, cap, pages, codes, job, refreshTokens,
                 accessTokens, approved, refused, drawn>>

Next ==
  \/ \E k \in Clients :
       \/ RegisterClient(k) \/ BeginAuthorization(k) \/ RefuseRefreshToken(k)
       \/ \E c \in Callers : ExchangeCode(c, k) \/ ExchangeRefreshToken(c, k)
  \/ \E page \in pages : CompleteAuthorization(page)
  \/ \E c \in Callers :
       \/ AuthenticateBearer(c) \/ AnswerTokenRequest(c) \/ AnswerBearer(c)
       \/ StoreApplies(c) \/ StoreFails(c)
  \/ Restart
  \/ Tick

Spec == Init /\ [][Next]_vars

----------------------------------------------------------------------------
(* Properties.                                                             *)

\* No refresh, however many and with whatever scopes, gives a token more than
\* the owner approved for the code it all began with, or more than the client
\* was registered for.
WithinApproval ==
  \A t \in refreshTokens \cup accessTokens :
    \E d \in approved : /\ d.code = t.origin
                        /\ Allows(d.scopes, t.scopes)
                        /\ Allows(cap[d.client], t.scopes)

\* A code is worth one pair of tokens: two exchanges of it at the same time,
\* or again after an error or a restart, never start two families.
OneFamilyPerCode ==
  \A g, h \in refreshTokens : g.origin = h.origin => g.family = h.family

\* A refresh token is worth one successor.
OneSuccessor ==
  \A g, h \in refreshTokens : g.parent = h.parent /\ g.parent # NoToken => g = h

\* All the tokens of a family belong to the client whose page was approved.
BoundToClient ==
  \A h \in refreshTokens :
    \E d \in approved : d.code = h.origin /\ d.client = h.client

\* A request that comes after a refresh of its family was refused by the store
\* is not served, whatever its access token says.
DeadFamilyAdmitsNobody == \A c \in Callers : Admitted(c) => ~job[c].late

\* What README.md says of reusing an old refresh token: a token that was
\* already exchanged, presented again and refused, leaves no live family.
ReplayRevokes ==
  \A x \in refused : ~(/\ families[x.family].status = "active"
                       /\ families[x.family].expires > now)
=============================================================================
