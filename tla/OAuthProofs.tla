---------------------------- MODULE OAuthProofs ----------------------------
(***************************************************************************)
(* Theorems about OAuth for every set of clients, codes, families, tokens, *)
(* requests in progress and clock readings: its type, and the six things   *)
(* its runs check of every state.                                          *)
(***************************************************************************)
EXTENDS OAuth, FamilyTableProofs

----------------------------------------------------------------------------
(* The inductive invariant.                                                *)

\* The service seen as a history of tokens: its table is the store's.
View == [table |-> families, stage |-> stage, request |-> request,
         answer |-> answer, handed |-> refreshTokens,
         refused |-> {f \in Families : ToldDead(f)}, drawn |-> drawn, now |-> now]

\* A request in progress that will hand out tokens.
Issuing(c) == stage[c] # "idle" /\ job[c].kind \in {"code", "refresh"}

\* What a request goes on with fits what it asked the store.
JobsFit ==
  \A c \in Callers :
    stage[c] # "idle" =>
      /\ request[c] \in Request /\ job[c] \in Job
      /\ job[c].kind = "bearer" <=> request[c].op = "is_active"
      /\ job[c].kind # "bearer" => job[c].client \in Clients

\* The owner decided once for each code, within the client's registration.
DecidedOnce ==
  /\ \A d, e \in approved : d.code = e.code => d = e
  /\ \A d \in approved : Allows(cap[d.client], d.scopes)

\* Scopes for a client come from the decision that issued the code.
Granted(decisions, a, k, scopes) ==
  \E d \in decisions : d.code = a /\ d.client = k /\ Allows(d.scopes, scopes)

GrantedOnly ==
  /\ \A r \in codes : Granted(approved, r.code, r.client, r.scopes)
  /\ \A h \in refreshTokens : Granted(approved, h.origin, h.client, h.scopes)
  /\ \A t \in accessTokens : \E k \in Clients : Granted(approved, t.origin, k, t.scopes)
  /\ \A c \in Callers : Issuing(c) => Granted(approved, job[c].origin, job[c].client, job[c].scopes)

\* A code that can be exchanged has not been: nothing comes from it yet.
CodesUnspent ==
  /\ \A r, s \in codes : r.code = s.code => r = s
  /\ \A r \in codes :
       /\ \A h \in refreshTokens : h.origin # r.code
       /\ \A c \in Callers : Issuing(c) => job[c].origin # r.code

\* What comes from one code, handed out or in progress, is of one family.
OneFamily ==
  \A c \in Callers : Issuing(c) =>
    /\ \A h \in refreshTokens : h.origin = job[c].origin => h.family = request[c].family
    /\ \A d \in Callers : Issuing(d) /\ job[d].origin = job[c].origin =>
         request[d].family = request[c].family

\* A bearer check that came after the refusal of its family fails.
LateFails ==
  \A c \in Callers : stage[c] # "idle" /\ job[c].late =>
    /\ ToldDead(request[c].family)
    /\ stage[c] = "done" => answer[c] # "true"

\* An access token is handed out with a refresh token of its family.
FamilyKnown ==
  \A t \in accessTokens : \E h \in refreshTokens : h.family = t.family

IInv ==
  /\ TypeOK /\ History(Callers, View) /\ JobsFit /\ DecidedOnce /\ GrantedOnly
  /\ FamilyKnown
  /\ CodesUnspent /\ OneFamily /\ OneFamilyPerCode /\ LateFails

----------------------------------------------------------------------------
(* Scopes.                                                                 *)

\* A grant covers what is covered by something it covers.
LEMMA AllowsTransitive ==
  ASSUME NEW a, NEW b, NEW c, Allows(a, b), Allows(b, c)
  PROVE  Allows(a, c)
  BY DEF Allows

\* Nothing is covered by the empty grant, so an unregistered client has none.
LEMMA AllowsNothing ==
  ASSUME NEW g \in Grants
  PROVE  ~Allows({}, g) /\ Allows(g, g) /\ g \subseteq Scopes /\ g # {}
  BY DEF Allows, Grants

\* Whatever words a client writes, it is registered for defined scopes.
LEMMA ParseLenientType ==
  ASSUME NEW words
  PROVE  ParseLenient(words) \in SUBSET Scopes
  BY DEF ParseLenient, DefaultForNewClient

----------------------------------------------------------------------------
(* The view of the service and its steps.                                  *)

\* The fields of the view, now and after the step.
LEMMA ViewFields ==
  /\ View.table = families /\ View.stage = stage /\ View.request = request
  /\ View.answer = answer /\ View.handed = refreshTokens
  /\ View.refused = {f \in Families : ToldDead(f)}
  /\ View.drawn = drawn /\ View.now = now
  /\ View'.table = families' /\ View'.stage = stage' /\ View'.request = request'
  /\ View'.answer = answer' /\ View'.handed = refreshTokens'
  /\ View'.refused = {f \in Families : ToldDead(f)'}
  /\ View'.drawn = drawn' /\ View'.now = now'
  BY DEF View

\* EmptyTable, with which the store starts, is a table of absent entries.
LEMMA EmptyTableFacts ==
  EmptyTable \in Table /\ \A f \in Families : EmptyTable[f] = Absent
  BY DEF EmptyTable, Table, Entry

\* The service starts in the invariant.
LEMMA InitIInv == Init => IInv
<1> SUFFICES ASSUME Init PROVE IInv
  OBVIOUS
<1> USE DEF Init, StoreInit
<1>1. TypeOK
  BY EmptyTableFacts, TimeAssumption DEF TypeOK, StoreTypeOK
<1>2. \A c \in Callers : View.stage[c] = "idle"
  BY ViewFields
<1>3. /\ View.table = EmptyTable /\ View.handed = {} /\ View.now = 0
      /\ View.refused = {}
  BY ViewFields DEF ToldDead
<1>4. WellTyped(Callers, View)
  BY <1>2, <1>3, EmptyTableFacts DEF WellTyped, InCall, Answered
<1>5. InUseWereDrawn(Callers, View)
  BY <1>2, <1>3, EmptyTableFacts, EntryFields DEF InUseWereDrawn, InCall
<1>6. TokensApart(Callers, View)
  BY <1>2, <1>3, EmptyTableFacts, EntryFields DEF TokensApart, InCall
<1>7. FamiliesApart(Callers, View) /\ PresentedWereHanded(Callers, View)
  BY <1>2, <1>3 DEF FamiliesApart, PresentedWereHanded, InCall, Pending
<1>8. /\ Exchanged(Callers, View) /\ LivesWithinFamily(Callers, View)
      /\ RefusedAreDead(Callers, View)
  BY <1>2, <1>3 DEF Exchanged, LivesWithinFamily, RefusedAreDead, Answered
<1>9. JobsFit /\ DecidedOnce /\ GrantedOnly /\ CodesUnspent
  BY DEF JobsFit, DecidedOnce, GrantedOnly, CodesUnspent, Issuing
<1>10. OneFamily /\ OneFamilyPerCode /\ LateFails /\ FamilyKnown
  BY DEF FamilyKnown, OneFamily, OneFamilyPerCode, LateFails, Issuing
<1> QED
  BY <1>1, <1>4, <1>5, <1>6, <1>7, <1>8, <1>9, <1>10 DEF IInv, History

\* A call of the store, whatever for, is a call of the view.
LEMMA CallView ==
  ASSUME IInv, NEW c \in Callers, NEW r \in Request, Call(c, r),
         Arises(View, r), UNCHANGED <<now, refreshTokens, refused>>,
         drawn \subseteq drawn', r.op = "create" => r.family \in drawn',
         Draws(r) => r.next \in drawn'
  PROVE  CallStep(Callers, View, View', c, r)
<1>1. r.family \in drawn'
  BY ViewFields DEF IInv, History, InUseWereDrawn, Arises
<1>2. /\ View.stage[c] = "idle" /\ View'.stage[c] = "called"
      /\ View'.request[c] = r
      /\ OthersStay(Callers, View, View', c)
  BY ViewFields DEF Call, IInv, TypeOK, StoreTypeOK, OthersStay
<1>3. ClientsStay(View, View') /\ View'.table = View.table
  BY ViewFields DEF Call, ClientsStay, ToldDead
<1>4. /\ View.drawn \subseteq View'.drawn /\ r.family \in View'.drawn
      /\ Draws(r) => r.next \in View'.drawn
  BY <1>1, ViewFields
<1> QED
  BY <1>2, <1>3, <1>4 DEF CallStep

\* issue_token_pair asks for a family and a token that nobody has.
LEMMA CreateCall ==
  ASSUME IInv, NEW c \in Callers, NEW k \in Clients, NEW r \in codes,
         IssueTokenPair(c, k, r), UNCHANGED <<now, refreshTokens, refused>>
  PROVE  \E q \in Request :
           /\ Call(c, q) /\ q.op = "create"
           /\ CallStep(Callers, View, View', c, q)
           /\ drawn' \subseteq Families \cup Tokens
<1>1. PICK f \in Families \ drawn, t \in Tokens \ drawn :
        /\ Call(c, [op |-> "create", family |-> f, presented |-> NoToken,
                    next |-> t, now |-> now])
        /\ drawn' = drawn \cup {f, t}
  BY DEF IssueTokenPair
<1> DEFINE q == [op |-> "create", family |-> f, presented |-> NoToken,
                 next |-> t, now |-> now]
<1>2. q \in Request /\ q.op = "create" /\ q.family = f /\ q.next = t /\ q.now = now
  BY DEF Request, IInv, TypeOK
<1>3. drawn' \subseteq Families \cup Tokens
  BY <1>1 DEF IInv, TypeOK
<1> HIDE DEF q
<1>4. Arises(View, q)
  BY <1>2, ViewFields DEF Arises, Draws
<1>5. CallStep(Callers, View, View', c, q)
  BY <1>1, <1>2, <1>4, CallView DEF Draws, q
<1> QED
  BY <1>1, <1>2, <1>3, <1>5 DEF q

\* A decision is never taken back, and a client's registration never changes
\* once it is made.
LEMMA GrantedStays ==
  ASSUME NEW before, NEW after, before \subseteq after,
         NEW a, NEW k, NEW g, Granted(before, a, k, g)
  PROVE  Granted(after, a, k, g)
  BY DEF Granted

----------------------------------------------------------------------------
(* Every action keeps the invariant.                                       *)

\* A token request reaches the store, with scopes the owner has granted and in
\* the family of all that came of its code, if anything did.
LEMMA IssuingCallIInv ==
  ASSUME IInv, NEW c \in Callers, NEW q \in Request, NEW j \in Job,
         Call(c, q), CallStep(Callers, View, View', c, q),
         job' = [job EXCEPT ![c] = j],
         j.kind \in {"code", "refresh"}, j.client \in Clients, ~j.late,
         q.op # "is_active", Granted(approved, j.origin, j.client, j.scopes),
         \A h \in refreshTokens : h.origin = j.origin => h.family = q.family,
         \A d \in Callers : Issuing(d) /\ job[d].origin = j.origin =>
           request[d].family = q.family,
         codes' \subseteq codes, \A r \in codes' : r.code # j.origin,
         drawn' \subseteq Families \cup Tokens,
         UNCHANGED <<now, cap, pages, refreshTokens, accessTokens, approved, refused>>
  PROVE  IInv'
<1> USE DEF IInv
<1>1. TypeOK'
  BY DEF TypeOK, StoreTypeOK, Call
<1>2. History(Callers, View)'
  BY CallHistory
<1>3. /\ stage[c] = "idle" /\ stage'[c] = "called" /\ request'[c] = q /\ job'[c] = j
      /\ \A d \in Callers \ {c} : /\ stage'[d] = stage[d] /\ request'[d] = request[d]
                                 /\ answer'[d] = answer[d] /\ job'[d] = job[d]
  BY DEF TypeOK, StoreTypeOK, Call
<1>4. JobsFit'
  BY <1>3 DEF JobsFit
<1>5. DecidedOnce'
  BY DEF DecidedOnce
<1>6. GrantedOnly'
  <2>1. \A a, k, g : Granted(approved, a, k, g) => Granted(approved', a, k, g)
    BY GrantedStays
  <2>2. \A d \in Callers : Issuing(d)' =>
          Granted(approved', job'[d].origin, job'[d].client, job'[d].scopes)
    BY <1>3, <2>1 DEF GrantedOnly, Issuing
  <2> QED
    BY <2>1, <2>2 DEF GrantedOnly
<1>7. CodesUnspent'
  BY <1>3 DEF CodesUnspent, Issuing
<1>8. OneFamily' /\ OneFamilyPerCode' /\ FamilyKnown'
  BY <1>3 DEF FamilyKnown, OneFamily, OneFamilyPerCode, Issuing
<1>9. LateFails'
  BY <1>3 DEF LateFails, ToldDead
<1> QED
  BY <1>1, <1>2, <1>4, <1>5, <1>6, <1>7, <1>8, <1>9

\* What only the clients, the owner and the codes see: no caller moves, no
\* token is handed out, and the store's refusals are what they were.
LEMMA OutsideIInv ==
  ASSUME IInv, TypeOK', DecidedOnce', approved \subseteq approved',
         UNCHANGED <<storeVars, job, refreshTokens, accessTokens, drawn>>,
         \A f : ToldDead(f)' <=> ToldDead(f),
         now \in Nat, now' \in Nat, now <= now',
         \A r \in codes' : Granted(approved', r.code, r.client, r.scopes),
         \A r, s \in codes' : r.code = s.code => r = s,
         \A r \in codes' : \/ r \in codes
                          \/ \A d \in approved : d.code # r.code
  PROVE  IInv'
<1> USE DEF IInv
<1>1. QuietStep(Callers, View, View')
  BY ViewFields DEF QuietStep, storeVars
<1>2. History(Callers, View)'
  BY <1>1, QuietHistory
<1>3. \A c \in Callers : Issuing(c)' <=> Issuing(c)
  BY DEF Issuing, storeVars
<1>4. GrantedOnly'
  <2>1. \A a, k, g : Granted(approved, a, k, g) => Granted(approved', a, k, g)
    BY GrantedStays
  <2>2. \A h \in refreshTokens' : Granted(approved', h.origin, h.client, h.scopes)
    BY <2>1 DEF GrantedOnly
  <2>3. \A t \in accessTokens' : \E k \in Clients : Granted(approved', t.origin, k, t.scopes)
    BY <2>1 DEF GrantedOnly
  <2>4. \A c \in Callers : Issuing(c)' =>
          Granted(approved', job'[c].origin, job'[c].client, job'[c].scopes)
    BY <1>3, <2>1 DEF GrantedOnly
  <2> QED
    BY <2>2, <2>3, <2>4 DEF GrantedOnly
<1>5. CodesUnspent'
  <2>1. ASSUME NEW r \in codes'
        PROVE  /\ \A h \in refreshTokens : h.origin # r.code
               /\ \A c \in Callers : Issuing(c) => job[c].origin # r.code
    BY <2>1 DEF CodesUnspent, GrantedOnly, Granted
  <2> QED
    BY <1>3, <2>1 DEF CodesUnspent
<1>6. JobsFit' /\ OneFamily' /\ OneFamilyPerCode' /\ LateFails' /\ FamilyKnown'
  BY <1>3 DEF FamilyKnown, JobsFit, OneFamily, OneFamilyPerCode, LateFails, storeVars
<1> QED
  BY <1>2, <1>4, <1>5, <1>6

\* A client registers once: no decision was taken for it yet.
LEMMA RegisterIInv ==
  ASSUME IInv, NEW k \in Clients, RegisterClient(k)
  PROVE  IInv'
<1> USE DEF IInv
<1>1. PICK words \in SUBSET Words : cap' = [cap EXCEPT ![k] = ParseLenient(words)]
  BY DEF RegisterClient
<1>2. /\ cap[k] = {}
      /\ UNCHANGED <<storeVars, now, pages, codes, job, refreshTokens,
                     accessTokens, approved, refused, drawn>>
  BY DEF RegisterClient
<1>3. TypeOK'
  <2>1. cap' \in [Clients -> SUBSET Scopes]
    BY <1>1, ParseLenientType DEF TypeOK
  <2> QED
    BY <1>2, <2>1 DEF TypeOK, StoreTypeOK, storeVars
<1>4. ASSUME NEW d \in approved
      PROVE  d.client # k /\ d.client \in Clients
  <2>1. d.scopes \in Grants /\ d.client \in Clients
    BY DEF TypeOK
  <2>2. Allows(cap[d.client], d.scopes)
    BY DEF DecidedOnce
  <2> QED
    BY <1>2, <2>1, <2>2, AllowsNothing
<1>5. DecidedOnce'
  BY <1>1, <1>2, <1>4 DEF DecidedOnce, TypeOK
<1>6. \A f : ToldDead(f)' <=> ToldDead(f)
  BY <1>2 DEF ToldDead
<1> QED
  BY <1>2, <1>3, <1>5, <1>6, TimeAssumption, OutsideIInv
     DEF TypeOK, GrantedOnly, CodesUnspent

\* Asking for an approval, and the clock.
LEMMA PagesIInv ==
  ASSUME IInv, (\E k \in Clients : BeginAuthorization(k)) \/ Tick
  PROVE  IInv'
<1> USE DEF IInv
<1>1. UNCHANGED <<storeVars, cap, codes, job, refreshTokens, accessTokens,
                  approved, refused, drawn>>
  BY DEF BeginAuthorization, Tick
<1>2. /\ now' \in Times /\ now \in Nat /\ now' \in Nat /\ now <= now'
      /\ pages' \subseteq [client : Clients, requested : Grants, expires : Nat]
  <2>1. CASE Tick
    BY <2>1, TimeAssumption DEF Tick, TypeOK
  <2>2. ASSUME NEW k \in Clients, BeginAuthorization(k)
        PROVE  /\ now' = now
               /\ pages' \subseteq [client : Clients, requested : Grants, expires : Nat]
    <3>1. PICK g \in Grants \cup {cap[k]} :
            pages' = pages \cup {[client |-> k, requested |-> g,
                                  expires |-> now + ApprovalTTL]}
      BY <2>2 DEF BeginAuthorization
    <3>2. g \in Grants
      BY <2>2 DEF BeginAuthorization, TypeOK, Grants
    <3>3. now + ApprovalTTL \in Nat
      BY TimeAssumption, OAuthAssumption DEF TypeOK
    <3> QED
      BY <2>2, <3>1, <3>2, <3>3 DEF BeginAuthorization, TypeOK
  <2> QED
    BY <2>1, <2>2, TimeAssumption DEF TypeOK
<1>3. TypeOK'
  BY <1>1, <1>2 DEF TypeOK, StoreTypeOK, storeVars
<1>4. DecidedOnce' /\ \A f : ToldDead(f)' <=> ToldDead(f)
  BY <1>1 DEF DecidedOnce, ToldDead
<1> QED
  BY <1>1, <1>2, <1>3, <1>4, OutsideIInv DEF GrantedOnly, CodesUnspent

\* The owner's decision covers what the new code carries, and is the first
\* about it.
LEMMA ApproveIInv ==
  ASSUME IInv, NEW page \in pages, CompleteAuthorization(page)
  PROVE  IInv'
<1> USE DEF IInv
<1>1. PICK g \in Grants, a \in Codes \ {d.code : d \in approved} :
        /\ Allows(cap[page.client], g)
        /\ codes' = {r \in codes : r.expires > now} \cup
                    {[code |-> a, client |-> page.client, scopes |-> g,
                      expires |-> now + CodeTTL]}
        /\ approved' = approved \cup {[code |-> a, client |-> page.client,
                                       scopes |-> g]}
  BY DEF CompleteAuthorization
<1>2. UNCHANGED <<storeVars, now, cap, pages, job, refreshTokens, accessTokens,
                  refused, drawn>>
  BY DEF CompleteAuthorization
<1>3. /\ page.client \in Clients /\ now \in Nat /\ now + CodeTTL \in Nat
      /\ \A d \in approved : d.code # a
  BY <1>1, TimeAssumption, OAuthAssumption DEF TypeOK
<1>4. TypeOK'
  <2>1. [code |-> a, client |-> page.client, scopes |-> g, expires |-> now + CodeTTL]
          \in [code : Codes, client : Clients, scopes : Grants, expires : Nat]
    BY <1>3
  <2>2. [code |-> a, client |-> page.client, scopes |-> g]
          \in [code : Codes, client : Clients, scopes : Grants]
    BY <1>3
  <2>3. /\ codes' \subseteq [code : Codes, client : Clients, scopes : Grants, expires : Nat]
        /\ approved' \subseteq [code : Codes, client : Clients, scopes : Grants]
    BY <1>1, <2>1, <2>2 DEF TypeOK
  <2> QED
    BY <1>2, <2>3 DEF TypeOK, StoreTypeOK, storeVars
<1>5. DecidedOnce'
  BY <1>1, <1>2, <1>3 DEF DecidedOnce
<1>6. \A f : ToldDead(f)' <=> ToldDead(f)
  BY <1>2 DEF ToldDead
<1>7. \A r \in codes' : Granted(approved', r.code, r.client, r.scopes)
  <2>1. \A r \in codes : Granted(approved', r.code, r.client, r.scopes)
    BY <1>1, GrantedStays DEF GrantedOnly
  <2>2. Granted(approved', a, page.client, g)
    <3> DEFINE d == [code |-> a, client |-> page.client, scopes |-> g]
    <3>1. d.code = a /\ d.client = page.client /\ d.scopes = g /\ d \in approved'
      BY <1>1
    <3> HIDE DEF d
    <3> QED
      BY <3>1, AllowsNothing DEF Granted
  <2>3. ASSUME NEW r \in codes'
        PROVE  \/ r \in codes
               \/ r.code = a /\ r.client = page.client /\ r.scopes = g
    BY <1>1
  <2> QED
    BY <2>1, <2>2, <2>3
<1>8. /\ \A r \in codes' : r \in codes \/ \A d \in approved : d.code # r.code
      /\ \A r \in codes : r.code # a
  BY <1>1, <1>3 DEF GrantedOnly, Granted
<1>9. \A r, s \in codes' : r.code = s.code => r = s
  BY <1>1, <1>8 DEF CodesUnspent
<1>10. approved \subseteq approved' /\ now' \in Nat /\ now <= now'
  BY <1>1, <1>2, <1>3
<1> QED
  BY <1>10, <1>2, <1>3, <1>4, <1>5, <1>6, <1>7, <1>8, <1>9, OutsideIInv

\* A refusal by the checks before the store says nothing about the family.
LEMMA RefuseIInv ==
  ASSUME IInv, NEW k \in Clients, RefuseRefreshToken(k)
  PROVE  IInv'
<1> USE DEF IInv
<1>1. PICK h \in refreshTokens :
        refused' = refused \cup {[family |-> h.family, by |-> "claims"]}
  BY DEF RefuseRefreshToken
<1>2. UNCHANGED <<storeVars, now, cap, pages, codes, job, refreshTokens,
                  accessTokens, approved, drawn>>
  BY DEF RefuseRefreshToken
<1>3. TypeOK'
  BY <1>1, <1>2 DEF TypeOK, StoreTypeOK, storeVars, Refusal, RefreshClaims
<1>4. DecidedOnce'
  BY <1>2 DEF DecidedOnce
<1>5. \A f : ToldDead(f)' <=> ToldDead(f)
  BY <1>1 DEF ToldDead
<1> QED
  BY <1>2, <1>3, <1>4, <1>5, TimeAssumption, OutsideIInv
     DEF TypeOK, GrantedOnly, CodesUnspent

\* The code is gone when its exchange goes to the store, or when it fails.
LEMMA ExchangeCodeIInv ==
  ASSUME IInv, NEW c \in Callers, NEW k \in Clients, ExchangeCode(c, k)
  PROVE  IInv'
<1> USE DEF IInv
<1>1. PICK r \in codes, proof \in BOOLEAN :
        /\ codes' = codes \ {r}
        /\ IF Redeemable(r, k, proof)
           THEN IssueTokenPair(c, k, r)
           ELSE UNCHANGED <<storeVars, job, drawn>>
  BY DEF ExchangeCode
<1>2. UNCHANGED <<now, cap, pages, refreshTokens, accessTokens, approved, refused>>
  BY DEF ExchangeCode
<1>3. /\ r \in [code : Codes, client : Clients, scopes : Grants, expires : Nat]
      /\ now \in Nat /\ now + AccessTTL \in Nat
  BY TimeAssumption, OAuthAssumption DEF TypeOK
<1>4. CASE Redeemable(r, k, proof)
  <2> DEFINE j == [kind |-> "code", client |-> k, scopes |-> r.scopes,
                   accessUntil |-> now + AccessTTL, origin |-> r.code, late |-> FALSE]
  <2>1. PICK q \in Request :
          /\ Call(c, q) /\ q.op = "create"
          /\ CallStep(Callers, View, View', c, q)
          /\ drawn' \subseteq Families \cup Tokens
    BY <1>1, <1>2, <1>4, CreateCall
  <2>2. job' = [job EXCEPT ![c] = j]
    BY <1>1, <1>4 DEF IssueTokenPair
  <2>3. /\ j \in Job /\ j.kind = "code" /\ j.client = k /\ ~j.late
        /\ j.origin = r.code /\ j.scopes = r.scopes
    BY <1>3 DEF Job
  <2> HIDE DEF j
  <2>4. Granted(approved, j.origin, j.client, j.scopes)
    BY <1>4, <2>3 DEF GrantedOnly, Redeemable
  <2>5. /\ \A h \in refreshTokens : h.origin # j.origin
        /\ \A d \in Callers : Issuing(d) => job[d].origin # j.origin
        /\ codes' \subseteq codes /\ \A s \in codes' : s.code # j.origin
    BY <1>1, <2>3 DEF CodesUnspent
  <2> QED
    BY <1>2, <2>1, <2>2, <2>3, <2>4, <2>5, IssuingCallIInv
<1>5. CASE ~Redeemable(r, k, proof)
  <2>1. UNCHANGED <<storeVars, job, drawn>> /\ codes' \subseteq codes
    BY <1>1, <1>5
  <2>2. TypeOK'
    BY <1>2, <2>1 DEF TypeOK, StoreTypeOK, storeVars
  <2>3. DecidedOnce' /\ \A f : ToldDead(f)' <=> ToldDead(f)
    BY <1>2 DEF DecidedOnce, ToldDead
  <2> QED
    BY <1>2, <1>3, <2>1, <2>2, <2>3, OutsideIInv DEF GrantedOnly, CodesUnspent
<1> QED
  BY <1>4, <1>5

\* A refresh asks for scopes its token covers, for the family of its token.
LEMMA ExchangeRefreshTokenIInv ==
  ASSUME IInv, NEW c \in Callers, NEW k \in Clients, ExchangeRefreshToken(c, k)
  PROVE  IInv'
<1> USE DEF IInv
<1>1. PICK h \in refreshTokens, t \in Tokens \ drawn :
        \E scopes \in Grants \cup {h.scopes} :
          /\ h.client = k
          /\ Allows(h.scopes, scopes)
          /\ Call(c, [op |-> "rotate", family |-> h.family, presented |-> h.token,
                      next |-> t, now |-> now])
          /\ job' = [job EXCEPT ![c] =
                       [kind |-> "refresh", client |-> k, scopes |-> scopes,
                        accessUntil |-> now + AccessTTL, origin |-> h.origin,
                        late |-> FALSE]]
          /\ drawn' = drawn \cup {t}
          /\ UNCHANGED <<now, cap, pages, codes, refreshTokens, accessTokens,
                         approved, refused>>
  BY DEF ExchangeRefreshToken, AcceptsClaims
<1>2. h \in RefreshClaims
  BY DEF TypeOK
<1>3. PICK g \in Grants :
          /\ h.client = k
          /\ Allows(h.scopes, g)
          /\ Call(c, [op |-> "rotate", family |-> h.family, presented |-> h.token,
                      next |-> t, now |-> now])
          /\ job' = [job EXCEPT ![c] =
                       [kind |-> "refresh", client |-> k, scopes |-> g,
                        accessUntil |-> now + AccessTTL, origin |-> h.origin,
                        late |-> FALSE]]
          /\ drawn' = drawn \cup {t}
          /\ UNCHANGED <<now, cap, pages, codes, refreshTokens, accessTokens,
                         approved, refused>>
  BY <1>1, <1>2 DEF RefreshClaims
<1> DEFINE q == [op |-> "rotate", family |-> h.family, presented |-> h.token,
                 next |-> t, now |-> now]
           j == [kind |-> "refresh", client |-> k, scopes |-> g,
                 accessUntil |-> now + AccessTTL, origin |-> h.origin, late |-> FALSE]
<1>4. /\ q \in Request /\ q.op = "rotate" /\ q.family = h.family
      /\ q.presented = h.token /\ q.next = t /\ q.now = now
  BY <1>2 DEF Request, RefreshClaims, TypeOK
<1>5. Call(c, q) /\ job' = [job EXCEPT ![c] = j]
  BY <1>3
<1>6. /\ j \in Job /\ j.kind = "refresh" /\ j.client = k /\ ~j.late
      /\ j.origin = h.origin /\ j.scopes = g
  <2>1. now + AccessTTL \in Nat
    BY TimeAssumption, OAuthAssumption DEF TypeOK
  <2> QED
    BY <1>2, <2>1 DEF Job, RefreshClaims
<1> HIDE DEF q, j
<1>7. drawn' \subseteq Families \cup Tokens /\ drawn \subseteq drawn'
  BY <1>3 DEF TypeOK
<1>8. Arises(View, q)
  BY <1>4, ViewFields DEF Arises, Draws
<1>9. CallStep(Callers, View, View', c, q)
  BY <1>3, <1>4, <1>5, <1>7, <1>8, CallView DEF Draws
<1>10. Granted(approved, j.origin, j.client, j.scopes)
  <2>1. PICK d \in approved :
          d.code = h.origin /\ d.client = h.client /\ Allows(d.scopes, h.scopes)
    BY DEF GrantedOnly, Granted
  <2>2. Allows(d.scopes, g)
    BY <1>3, <2>1, AllowsTransitive
  <2> QED
    BY <1>3, <1>6, <2>1, <2>2 DEF Granted
<1>11. /\ \A i \in refreshTokens : i.origin = j.origin => i.family = q.family
       /\ \A d \in Callers : Issuing(d) /\ job[d].origin = j.origin =>
            request[d].family = q.family
  BY <1>4, <1>6 DEF OneFamilyPerCode, OneFamily
<1>12. codes' \subseteq codes /\ \A r \in codes' : r.code # j.origin
  BY <1>3, <1>6 DEF CodesUnspent
<1>13. /\ UNCHANGED <<now, cap, pages, refreshTokens, accessTokens, approved, refused>>
       /\ q.op # "is_active" /\ j.kind \in {"code", "refresh"} /\ j.client \in Clients
  BY <1>3, <1>4, <1>6
<1> QED
  BY <1>4, <1>5, <1>6, <1>7, <1>9, <1>10, <1>11, <1>12, <1>13, IssuingCallIInv

\* A bearer check remembers whether it came late, and hands out nothing.
LEMMA AuthenticateIInv ==
  ASSUME IInv, NEW c \in Callers, AuthenticateBearer(c)
  PROVE  IInv'
<1> USE DEF IInv
<1>1. PICK a \in accessTokens :
        /\ Call(c, [op |-> "is_active", family |-> a.family, presented |-> NoToken,
                    next |-> NoToken, now |-> now])
        /\ job' = [job EXCEPT ![c] =
                     [kind |-> "bearer", client |-> NoClient, scopes |-> a.scopes,
                      accessUntil |-> a.expires, origin |-> a.origin,
                      late |-> ToldDead(a.family)]]
  BY DEF AuthenticateBearer
<1>2. UNCHANGED <<now, cap, pages, codes, refreshTokens, accessTokens, approved,
                  refused, drawn>>
  BY DEF AuthenticateBearer
<1> DEFINE q == [op |-> "is_active", family |-> a.family, presented |-> NoToken,
                 next |-> NoToken, now |-> now]
           j == [kind |-> "bearer", client |-> NoClient, scopes |-> a.scopes,
                 accessUntil |-> a.expires, origin |-> a.origin,
                 late |-> ToldDead(a.family)]
<1>3. a \in AccessClaims
  BY DEF TypeOK
<1>4. q \in Request /\ q.op = "is_active" /\ q.family = a.family /\ q.now = now
  BY <1>3 DEF Request, AccessClaims, TypeOK
<1>5. /\ j \in Job /\ j.kind = "bearer" /\ (j.late => ToldDead(a.family))
  <2>1. ToldDead(a.family) \in BOOLEAN
    BY DEF ToldDead
  <2> QED
    BY <1>3, <2>1 DEF Job, AccessClaims
<1>6. Call(c, q) /\ job' = [job EXCEPT ![c] = j]
  BY <1>1
<1> HIDE DEF q, j
<1>7. \E h \in refreshTokens : h.family = a.family
  BY DEF FamilyKnown
<1>8. CallStep(Callers, View, View', c, q)
  <2>1. Arises(View, q)
    BY <1>4, <1>7, ViewFields DEF Arises, Draws
  <2> QED
    BY <1>2, <1>4, <1>6, <2>1, CallView DEF Draws
<1>9. History(Callers, View)'
  BY <1>4, <1>8, CallHistory
<1>10. /\ stage[c] = "idle" /\ stage'[c] = "called" /\ request'[c] = q /\ job'[c] = j
       /\ \A d \in Callers \ {c} : /\ stage'[d] = stage[d] /\ request'[d] = request[d]
                                  /\ answer'[d] = answer[d] /\ job'[d] = job[d]
       /\ \A d \in Callers : Issuing(d)' <=> Issuing(d) /\ d # c
       /\ \A f : ToldDead(f)' <=> ToldDead(f)
  BY <1>2, <1>5, <1>6 DEF TypeOK, StoreTypeOK, Call, Issuing, ToldDead
<1>11. TypeOK'
  BY <1>2, <1>4, <1>5, <1>6 DEF TypeOK, StoreTypeOK, Call
<1>12. JobsFit' /\ DecidedOnce'
  BY <1>2, <1>4, <1>5, <1>10 DEF JobsFit, DecidedOnce
<1>13. GrantedOnly' /\ CodesUnspent'
  BY <1>2, <1>10 DEF GrantedOnly, CodesUnspent
<1>14. OneFamily' /\ OneFamilyPerCode' /\ FamilyKnown'
  BY <1>2, <1>10 DEF FamilyKnown, OneFamily, OneFamilyPerCode
<1>15. LateFails'
  BY <1>2, <1>4, <1>5, <1>10 DEF LateFails
<1> QED
  BY <1>9, <1>11, <1>12, <1>13, <1>14, <1>15

\* The store decides: a check that came late finds its family dead.
LEMMA StoreIInv ==
  ASSUME IInv, NEW c \in Callers, StoreApplies(c) \/ StoreFails(c)
  PROVE  IInv'
<1> USE DEF IInv
<1> DEFINE o == Outcome(families, request[c])
<1>1. /\ UNCHANGED <<request, now, cap, pages, codes, job, refreshTokens, accessTokens,
                     approved, refused, drawn>>
      /\ stage[c] = "called" /\ stage' = [stage EXCEPT ![c] = "done"]
  BY DEF StoreApplies, StoreFails, Apply, Fail, serviceVars
<1>2. \/ families' = o.table /\ answer' = [answer EXCEPT ![c] = o.answer]
      \/ families' = families /\ answer' = [answer EXCEPT ![c] = "internal"]
  BY DEF StoreApplies, StoreFails, Apply, Fail
<1>3. request[c] \in Request /\ families \in Table
  BY <1>1 DEF JobsFit, TypeOK, StoreTypeOK
<1>4. o.table \in Table /\ o.answer \in Answer /\ "internal" \in Answer
  BY <1>3, OutcomeType DEF Answer
<1>5. o.answer = "true" => families[request[c].family].status = "active"
  BY <1>3, OutcomeAnswer
<1> HIDE DEF o
<1>6. TypeOK'
  BY <1>1, <1>2, <1>4 DEF TypeOK, StoreTypeOK
<1>7. /\ stage'[c] = "done" /\ answer'[c] \in {o.answer, "internal"}
      /\ \A d \in Callers \ {c} : stage'[d] = stage[d] /\ answer'[d] = answer[d]
      /\ \A d \in Callers : Issuing(d)' <=> Issuing(d)
      /\ \A f : ToldDead(f)' <=> ToldDead(f)
  BY <1>1, <1>2 DEF TypeOK, StoreTypeOK, Issuing, ToldDead
<1>8. History(Callers, View)'
  <2>1. OthersStay(Callers, View, View', c) /\ ClientsStay(View, View')
    BY <1>1, <1>7, ViewFields DEF OthersStay, ClientsStay
  <2>2. CASE families' = o.table /\ answer' = [answer EXCEPT ![c] = o.answer]
    <3>1. answer'[c] = o.answer
      BY <2>2 DEF TypeOK, StoreTypeOK
    <3>2. ApplyStep(Callers, View, View', c)
      BY <1>1, <1>7, <2>1, <2>2, <3>1, ViewFields DEF ApplyStep, o
    <3> QED
      BY <3>2, ApplyHistory
  <2>3. CASE families' = families /\ answer' = [answer EXCEPT ![c] = "internal"]
    <3>1. answer'[c] = "internal"
      BY <2>3 DEF TypeOK, StoreTypeOK
    <3>2. FailStep(Callers, View, View', c)
      BY <1>1, <1>7, <2>1, <2>3, <3>1, ViewFields DEF FailStep
    <3> QED
      BY <3>2, FailHistory
  <2> QED
    BY <1>2, <2>2, <2>3
<1>9. JobsFit' /\ DecidedOnce' /\ GrantedOnly' /\ FamilyKnown'
  BY <1>1, <1>7 DEF JobsFit, DecidedOnce, GrantedOnly, FamilyKnown
<1>10. CodesUnspent' /\ OneFamily' /\ OneFamilyPerCode'
  BY <1>1, <1>7 DEF CodesUnspent, OneFamily, OneFamilyPerCode
<1>11. LateFails'
  <2>1. ASSUME job[c].late
        PROVE  ToldDead(request[c].family) /\ answer'[c] # "true"
    <3>1. ToldDead(request[c].family)
      BY <1>1, <2>1 DEF LateFails
    <3>2. request[c].family \in Families
      BY <1>3, RequestType
    <3>3. families[request[c].family].status # "active"
      BY <3>1, <3>2, ViewFields DEF History, RefusedAreDead
    <3> QED
      BY <1>5, <1>7, <3>1, <3>3
  <2> QED
    BY <1>1, <1>7, <2>1 DEF LateFails
<1> QED
  BY <1>6, <1>8, <1>9, <1>10, <1>11

\* The pair of tokens carries what the owner granted, in its code's family.
LEMMA AnswerTokenIInv ==
  ASSUME IInv, NEW c \in Callers, AnswerTokenRequest(c)
  PROVE  IInv'
<1> USE DEF IInv
<1> DEFINE r == request[c]
           j == job[c]
           x == [token |-> r.next, family |-> r.family, client |-> j.client,
                 scopes |-> j.scopes, expires |-> r.now + TTL,
                 parent |-> r.presented, origin |-> j.origin]
           y == [family |-> r.family, scopes |-> j.scopes,
                 expires |-> j.accessUntil, origin |-> j.origin]
<1>1. /\ stage[c] = "done" /\ j.kind \in {"code", "refresh"}
      /\ UNCHANGED <<families, now, cap, pages, codes, approved, drawn>>
      /\ stage' = [stage EXCEPT ![c] = "idle"]
      /\ request' = [request EXCEPT ![c] = NoRequest]
      /\ answer' = [answer EXCEPT ![c] = "none"]
      /\ job' = [job EXCEPT ![c] = NoJob]
  BY DEF AnswerTokenRequest, Return
<1>2. /\ refreshTokens' = IF answer[c] = "ok" THEN refreshTokens \cup {x} ELSE refreshTokens
      /\ accessTokens' = IF answer[c] = "ok" THEN accessTokens \cup {y} ELSE accessTokens
  BY DEF AnswerTokenRequest
<1>3. refused' = IF answer[c] = "invalid_grant"
                 THEN refused \cup {[family |-> r.family, by |-> "store"]}
                 ELSE refused
  BY DEF AnswerTokenRequest
<1>4. /\ Issuing(c) /\ r \in Request /\ j \in Job /\ j.client \in Clients
      /\ r.family \in Families /\ r.now + TTL \in Nat
      /\ r.presented \in Tokens \cup {NoToken}
      /\ answer[c] = "ok" => r.next \in Tokens
  <2>1. Issuing(c) /\ r \in Request /\ j \in Job /\ j.client \in Clients
    BY <1>1 DEF JobsFit, Issuing
  <2>2. r.presented \in Tokens \cup {NoToken}
    BY <2>1 DEF Request
  <2>3. answer[c] = "ok" => Draws(r)
    BY <1>1, ViewFields DEF History, WellTyped, Answered
  <2> QED
    BY <2>1, <2>2, <2>3, RequestType DEF Draws
<1>5. /\ x.token = r.next /\ x.family = r.family /\ x.client = j.client
      /\ x.scopes = j.scopes /\ x.expires = r.now + TTL /\ x.parent = r.presented
      /\ x.origin = j.origin
      /\ answer[c] = "ok" => x \in RefreshClaims
      /\ y.family = r.family /\ y.scopes = j.scopes /\ y.origin = j.origin
      /\ y \in AccessClaims
  BY <1>4 DEF RefreshClaims, AccessClaims, Job
<1> HIDE DEF x, y
<1>6. TypeOK'
  <2>1. refreshTokens' \subseteq RefreshClaims /\ accessTokens' \subseteq AccessClaims
    BY <1>2, <1>5 DEF TypeOK
  <2>2. refused' \subseteq Refusal
    BY <1>3, <1>4 DEF TypeOK, Refusal
  <2> QED
    BY <1>1, <2>1, <2>2 DEF TypeOK, StoreTypeOK
<1>7. /\ stage'[c] = "idle"
      /\ \A d \in Callers \ {c} : /\ stage'[d] = stage[d] /\ request'[d] = request[d]
                                 /\ answer'[d] = answer[d] /\ job'[d] = job[d]
      /\ \A d \in Callers : Issuing(d)' <=> Issuing(d) /\ d # c
  BY <1>1 DEF TypeOK, StoreTypeOK, Issuing
<1>8. /\ \A f : ToldDead(f) => ToldDead(f)'
      /\ \A f : ToldDead(f)' => \/ ToldDead(f)
                                \/ answer[c] = "invalid_grant" /\ f = r.family
  BY <1>3 DEF ToldDead
<1>9. History(Callers, View)'
  <2>1. OthersStay(Callers, View, View', c)
    BY <1>7, ViewFields DEF OthersStay
  <2>2. /\ \A h \in View'.handed : h \in View.handed \/
             /\ View.answer[c] = "ok"
             /\ h.token = View.request[c].next /\ h.family = View.request[c].family
             /\ h.expires = View.request[c].now + TTL
             /\ h.parent = View.request[c].presented
        /\ \A g, h \in View'.handed : g \notin View.handed /\ h \notin View.handed => g = h
        /\ View.handed \subseteq View'.handed
    BY <1>2, <1>5, ViewFields
  <2>3. \A f \in View'.refused : f \in View.refused \/
          (View.answer[c] = "invalid_grant" /\ f = View.request[c].family)
    BY <1>8, ViewFields
  <2>4. ReturnStep(Callers, View, View', c)
    BY <1>1, <1>7, <2>1, <2>2, <2>3, ViewFields DEF ReturnStep
  <2> QED
    BY <2>4, ReturnHistory
<1>10. JobsFit' /\ DecidedOnce'
  BY <1>1, <1>7 DEF JobsFit, DecidedOnce
<1>11. GrantedOnly' /\ FamilyKnown'
  <2>1. Granted(approved, j.origin, j.client, j.scopes)
    BY <1>4 DEF GrantedOnly
  <2>2. \A h \in refreshTokens' : Granted(approved, h.origin, h.client, h.scopes)
    BY <1>2, <1>5, <2>1 DEF GrantedOnly
  <2>3. \A t \in accessTokens' : \E k \in Clients : Granted(approved, t.origin, k, t.scopes)
    BY <1>2, <1>4, <1>5, <2>1 DEF GrantedOnly
  <2>4. FamilyKnown'
    BY <1>2, <1>5 DEF FamilyKnown
  <2> QED
    BY <1>1, <1>7, <2>2, <2>3, <2>4 DEF GrantedOnly
<1>12. CodesUnspent'
  BY <1>1, <1>2, <1>4, <1>5, <1>7 DEF CodesUnspent
<1>13. OneFamily'
  BY <1>1, <1>2, <1>4, <1>5, <1>7 DEF OneFamily
<1>14. OneFamilyPerCode'
  BY <1>2, <1>4, <1>5 DEF OneFamily, OneFamilyPerCode
<1>15. LateFails'
  BY <1>7, <1>8 DEF LateFails
<1> QED
  BY <1>6, <1>9, <1>10, <1>11, <1>12, <1>13, <1>14, <1>15

\* A bearer check ends, and a restart ends everything in progress.
LEMMA EndIInv ==
  ASSUME IInv, (\E c \in Callers : AnswerBearer(c)) \/ Restart \/ UNCHANGED vars
  PROVE  IInv'
<1> USE DEF IInv
<1>1. /\ UNCHANGED <<families, now, cap, pages, refreshTokens, accessTokens, approved,
                     refused, drawn>>
      /\ codes' \subseteq codes
  BY DEF AnswerBearer, Return, Restart, CallersLost, vars, storeVars, serviceVars
<1>2. /\ stage' \in [Callers -> {"idle", "called", "done"}]
      /\ request' \in [Callers -> Request \cup {NoRequest}]
      /\ answer' \in [Callers -> Answer \cup {"none"}]
      /\ job' \in [Callers -> Job \cup {NoJob}]
      /\ \A d \in Callers : stage'[d] # "idle" =>
           /\ stage'[d] = stage[d] /\ request'[d] = request[d]
           /\ answer'[d] = answer[d] /\ job'[d] = job[d]
  <2>1. CASE \E c \in Callers : AnswerBearer(c)
    BY <2>1 DEF AnswerBearer, Return, TypeOK, StoreTypeOK
  <2>2. CASE Restart
    BY <2>2 DEF Restart, CallersLost
  <2>3. CASE UNCHANGED vars
    BY <2>3 DEF vars, storeVars, serviceVars, TypeOK, StoreTypeOK
  <2> QED
    BY <2>1, <2>2, <2>3
<1>3. TypeOK'
  BY <1>1, <1>2 DEF TypeOK, StoreTypeOK
<1>4. /\ \A d \in Callers : Issuing(d)' => Issuing(d) /\ stage'[d] # "idle"
      /\ \A f : ToldDead(f)' <=> ToldDead(f)
  BY <1>1, <1>2 DEF Issuing, ToldDead
<1>5. History(Callers, View)'
  <2>1. QuietStep(Callers, View, View')
    BY <1>1, <1>2, <1>4, ViewFields, TimeAssumption DEF QuietStep, TypeOK
  <2> QED
    BY <2>1, QuietHistory
<1>6. JobsFit' /\ DecidedOnce'
  BY <1>1, <1>2 DEF JobsFit, DecidedOnce
<1>7. GrantedOnly' /\ FamilyKnown'
  BY <1>1, <1>2, <1>4 DEF GrantedOnly, FamilyKnown
<1>8. CodesUnspent'
  BY <1>1, <1>2, <1>4 DEF CodesUnspent
<1>9. OneFamily' /\ OneFamilyPerCode'
  BY <1>1, <1>2, <1>4 DEF OneFamily, OneFamilyPerCode
<1>10. LateFails'
  BY <1>2, <1>4 DEF LateFails
<1> QED
  BY <1>3, <1>5, <1>6, <1>7, <1>8, <1>9, <1>10

\* The invariant is inductive.
LEMMA NextIInv == IInv /\ [Next]_vars => IInv'
<1> SUFFICES ASSUME IInv, [Next]_vars PROVE IInv'
  OBVIOUS
<1>1. ASSUME NEW k \in Clients,
             \/ RegisterClient(k) \/ BeginAuthorization(k) \/ RefuseRefreshToken(k)
             \/ \E c \in Callers : ExchangeCode(c, k) \/ ExchangeRefreshToken(c, k)
      PROVE  IInv'
  BY <1>1, RegisterIInv, PagesIInv, RefuseIInv, ExchangeCodeIInv, ExchangeRefreshTokenIInv
<1>2. ASSUME NEW c \in Callers,
             \/ AuthenticateBearer(c) \/ AnswerTokenRequest(c) \/ AnswerBearer(c)
             \/ StoreApplies(c) \/ StoreFails(c)
      PROVE  IInv'
  BY <1>2, AuthenticateIInv, AnswerTokenIInv, EndIInv, StoreIInv
<1>3. ASSUME NEW page \in pages, CompleteAuthorization(page)
      PROVE  IInv'
  BY <1>3, ApproveIInv
<1>4. CASE Restart \/ Tick \/ UNCHANGED vars
  BY <1>4, EndIInv, PagesIInv
<1> QED
  BY <1>1, <1>2, <1>3, <1>4 DEF Next

\* The invariant holds in every behaviour of the service.
LEMMA Invariance == Spec => []IInv
  BY InitIInv, NextIInv, PTL DEF Spec

----------------------------------------------------------------------------
(* The theorems.                                                           *)

\* TypeOK holds for every set of clients, codes, families, tokens and requests.
THEOREM TypeCorrectness == Spec => []TypeOK
<1>1. IInv => TypeOK
  BY DEF IInv
<1> QED
  BY <1>1, Invariance, PTL

\* However a client chains refreshes and narrows scopes, and however requests,
\* failures and restarts interleave, every token it is given is within what
\* the owner approved for its code and within the client's registration.
THEOREM TokensWithinApproval == Spec => []WithinApproval
<1>1. IInv => WithinApproval
  <2> SUFFICES ASSUME IInv, NEW t \in refreshTokens \cup accessTokens
               PROVE  \E d \in approved : /\ d.code = t.origin
                                          /\ Allows(d.scopes, t.scopes)
                                          /\ Allows(cap[d.client], t.scopes)
    BY DEF WithinApproval
  <2>1. PICK k : Granted(approved, t.origin, k, t.scopes)
    BY DEF IInv, GrantedOnly
  <2>2. PICK d \in approved : d.code = t.origin /\ Allows(d.scopes, t.scopes)
    BY <2>1 DEF Granted
  <2>3. Allows(cap[d.client], d.scopes)
    BY DEF IInv, DecidedOnce
  <2> QED
    BY <2>2, <2>3, AllowsTransitive
<1> QED
  BY <1>1, Invariance, PTL

\* Two exchanges of a code at the same time, or one after an error or a
\* restart, never start two families: exchange_code takes the code out of the
\* map before it checks anything about it.
THEOREM CodesStartOneFamily == Spec => []OneFamilyPerCode
<1>1. IInv => OneFamilyPerCode
  BY DEF IInv
<1> QED
  BY <1>1, Invariance, PTL

\* However many requests present a refresh token, it has at most one
\* successor: rotate compares and replaces under the lock of the store.
THEOREM RefreshTokensHaveOneSuccessor == Spec => []OneSuccessor
<1>1. IInv => OneSuccessor
  BY ViewFields DEF IInv, History, Exchanged, OneSuccessor
<1> QED
  BY <1>1, Invariance, PTL

\* A refresh token stays with the client whose approval it began with.
THEOREM TokensBoundToClient == Spec => []BoundToClient
<1>1. IInv => BoundToClient
  BY DEF IInv, GrantedOnly, Granted, BoundToClient
<1> QED
  BY <1>1, Invariance, PTL

\* Once a client has been told by the store that its family is gone, no
\* access token of the family is admitted in a request that comes later.
THEOREM DeadFamiliesAdmitNobody == Spec => []DeadFamilyAdmitsNobody
<1>1. IInv => DeadFamilyAdmitsNobody
  BY DEF IInv, LateFails, DeadFamilyAdmitsNobody, Admitted
<1> QED
  BY <1>1, Invariance, PTL
=============================================================================
