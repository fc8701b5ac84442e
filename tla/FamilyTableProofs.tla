------------------------- MODULE FamilyTableProofs -------------------------
(***************************************************************************)
(* What the operators of FamilyTable return and preserve, for every table  *)
(* and request, and that each step of a view keeps its History.            *)
(***************************************************************************)
EXTENDS TokenHistory, TLAPS

\* Pruning a table leaves a table.
LEMMA PrunedType ==
  ASSUME NEW table \in Table, NEW n \in Nat
  PROVE  Pruned(table, n) \in Table
  BY DEF Pruned, Table, Entry, Absent

\* The parts of a request and the entries it can write are well typed.
LEMMA RequestType ==
  ASSUME NEW r \in Request
  PROVE  /\ r.op \in {"create", "rotate", "is_active"}
         /\ r.family \in Families /\ r.now \in Nat /\ r.now + TTL \in Nat
         /\ r.op # "is_active" => r.next \in Tokens /\ Issued(r) \in Entry
<1>1. /\ r.op \in {"create", "rotate", "is_active"}
      /\ r.family \in Families /\ r.now \in Nat
      /\ r.op # "is_active" => r.next \in Tokens
  BY TimeAssumption DEF Request
<1>2. r.now + TTL \in Nat
  BY <1>1, TimeAssumption
<1>3. r.op # "is_active" => Issued(r) \in Entry
  BY <1>1, <1>2 DEF Issued, Entry
<1> QED
  BY <1>1, <1>2, <1>3

\* create_family leaves a table and gives an answer.
LEMMA CreateType ==
  ASSUME NEW table \in Table, NEW r \in Request, r.op = "create"
  PROVE  /\ CreateOutcome(table, r).table \in Table
         /\ CreateOutcome(table, r).answer \in Answer
<1> DEFINE kept == Pruned(table, r.now)
<1>1. r.family \in Families /\ Issued(r) \in Entry /\ kept \in Table
  BY RequestType, PrunedType
<1> HIDE DEF kept
<1>2. [kept EXCEPT ![r.family] = Issued(r)] \in Table
  BY <1>1 DEF Table
<1> QED
  BY <1>2 DEF CreateOutcome, Answer, kept

\* rotate leaves a table and gives an answer.
LEMMA RotateType ==
  ASSUME NEW table \in Table, NEW r \in Request, r.op = "rotate"
  PROVE  /\ RotateOutcome(table, r).table \in Table
         /\ RotateOutcome(table, r).answer \in Answer
<1> DEFINE kept == Pruned(table, r.now)
           entry == kept[r.family]
           rotated == [kept EXCEPT ![r.family] = Issued(r)]
           revoked == [kept EXCEPT ![r.family] = Revoked(entry)]
<1>1. r.family \in Families /\ Issued(r) \in Entry /\ kept \in Table
  BY RequestType, PrunedType
<1>2. \/ RotateOutcome(table, r) = [table |-> kept, answer |-> "invalid_grant"]
      \/ RotateOutcome(table, r) = [table |-> rotated, answer |-> "ok"]
      \/ /\ entry.status # "absent"
         /\ RotateOutcome(table, r) = [table |-> revoked, answer |-> "invalid_grant"]
  BY DEF RotateOutcome
<1> HIDE DEF kept
<1>3. rotated \in Table
  BY <1>1 DEF Table
<1>4. ASSUME entry.status # "absent"
      PROVE  revoked \in Table
  <2>1. entry \in [status : {"active", "revoked"}, token : Tokens, expires : Nat]
    BY <1>1, <1>4 DEF Table, Entry, Absent
  <2>2. Revoked(entry) \in Entry
    BY <2>1 DEF Revoked, Entry
  <2> QED
    BY <1>1, <2>2 DEF Table
<1> HIDE DEF entry, rotated, revoked
<1> QED
  BY <1>1, <1>2, <1>3, <1>4 DEF Answer

\* Whatever is asked, the outcome is a table and an answer.
LEMMA OutcomeType ==
  ASSUME NEW table \in Table, NEW r \in Request
  PROVE  Outcome(table, r).table \in Table /\ Outcome(table, r).answer \in Answer
<1>1. r.op \in {"create", "rotate", "is_active"}
  BY RequestType
<1>2. CASE r.op = "create"
  BY <1>2, CreateType DEF Outcome
<1>3. CASE r.op = "rotate"
  BY <1>3, RotateType DEF Outcome
<1>4. CASE r.op = "is_active"
  BY <1>4 DEF Outcome, IsActiveOutcome, Answer
<1> QED
  BY <1>1, <1>2, <1>3, <1>4

----------------------------------------------------------------------------
(* What a request does to each entry of the table.                         *)

\* An entry that is absent is Absent, and one that is not has a token.
LEMMA EntryFacts ==
  ASSUME NEW table \in Table, NEW f \in Families
  PROVE  /\ table[f].status \in {"absent", "active", "revoked"}
         /\ table[f].expires \in Nat
         /\ table[f].status = "absent" => table[f] = Absent
         /\ table[f].status = "absent" <=> table[f].token = NoToken
         /\ table[f].status # "absent" => table[f].token \in Tokens
  BY NoTokenAssumption DEF Table, Entry, Absent

\* Pruning keeps an entry or drops one that has expired.
LEMMA PrunedEntry ==
  ASSUME NEW table \in Table, NEW n \in Nat, NEW f \in Families
  PROVE  \/ Pruned(table, n)[f] = table[f] /\ table[f].expires > n
         \/ Pruned(table, n)[f] = Absent /\ table[f].expires <= n
  BY EntryFacts DEF Pruned

\* The fields of the entries that are written.
LEMMA EntryFields ==
  /\ Absent.status = "absent" /\ Absent.token = NoToken /\ Absent.expires = 0
  /\ \A r : /\ Issued(r).status = "active" /\ Issued(r).token = r.next
            /\ Issued(r).expires = r.now + TTL
  /\ \A e : /\ Revoked(e).status = "revoked" /\ Revoked(e).token = e.token
            /\ Revoked(e).expires = e.expires
  BY DEF Absent, Issued, Revoked

\* What create_family, rotate and is_active make of an entry: nothing, its
\* removal once it has expired, a new one for the token just drawn, or its
\* revocation.
LEMMA OutcomeEntry ==
  ASSUME NEW table \in Table, NEW r \in Request, NEW f \in Families
  PROVE  LET o == Outcome(table, r)
         IN \/ o.table[f] = table[f]
            \/ o.table[f] = Absent /\ table[f].expires <= r.now
            \/ /\ f = r.family /\ r.op = "create" /\ o.answer = "ok"
               /\ o.table[f] = Issued(r)
            \/ /\ f = r.family /\ r.op = "rotate" /\ o.answer = "ok"
               /\ table[f].status = "active" /\ table[f].token = r.presented
               /\ o.table[f] = Issued(r)
            \/ /\ f = r.family /\ r.op = "rotate" /\ o.answer = "invalid_grant"
               /\ table[f].status # "absent"
               /\ o.table[f] = Revoked(table[f])
<1> DEFINE kept == Pruned(table, r.now)
<1>1. /\ r.op \in {"create", "rotate", "is_active"}
      /\ r.family \in Families /\ r.now \in Nat
  BY RequestType
<1>2. kept \in [Families -> Entry]
  BY <1>1, PrunedType DEF Table
<1>3. \/ kept[f] = table[f]
      \/ kept[f] = Absent /\ table[f].expires <= r.now
  BY <1>1, PrunedEntry
<1> HIDE DEF kept
<1>4. CASE r.op = "create"
  BY <1>1, <1>2, <1>3, <1>4 DEF Outcome, CreateOutcome, kept
<1>5. CASE r.op = "rotate"
  <2>1. CASE kept[r.family].status = "absent"
    BY <1>3, <1>5, <2>1 DEF Outcome, RotateOutcome, kept
  <2>2. CASE kept[r.family].status = "active" /\ kept[r.family].token = r.presented
    BY <1>1, <1>2, <1>3, <1>5, <2>2 DEF Outcome, RotateOutcome, kept, Absent
  <2>3. CASE /\ kept[r.family].status # "absent"
             /\ ~(kept[r.family].status = "active" /\ kept[r.family].token = r.presented)
    BY <1>1, <1>2, <1>3, <1>5, <2>3 DEF Outcome, RotateOutcome, kept, Absent
  <2> QED
    BY <2>1, <2>2, <2>3
<1>6. CASE r.op = "is_active"
  BY <1>6 DEF Outcome, IsActiveOutcome
<1> QED
  BY <1>1, <1>4, <1>5, <1>6

\* What the answers say of the entry asked about.
LEMMA OutcomeAnswer ==
  ASSUME NEW table \in Table, NEW r \in Request
  PROVE  LET o == Outcome(table, r)
         IN /\ o.answer = "ok" =>
                 /\ r.op # "is_active"
                 /\ o.table[r.family] = Issued(r)
                 /\ r.op = "rotate" => /\ table[r.family].status = "active"
                                       /\ table[r.family].token = r.presented
            /\ o.answer = "invalid_grant" =>
                 r.op = "rotate" /\ o.table[r.family].status # "active"
            /\ o.answer = "true" => table[r.family].status = "active"
            /\ r.op = "is_active" => o.table = table
            /\ o.answer \notin {"internal", "none"}
<1> DEFINE kept == Pruned(table, r.now)
<1>1. /\ r.op \in {"create", "rotate", "is_active"}
      /\ r.family \in Families /\ r.now \in Nat
  BY RequestType
<1>2. kept \in [Families -> Entry]
  BY <1>1, PrunedType DEF Table
<1>3. \/ kept[r.family] = table[r.family]
      \/ kept[r.family] = Absent /\ table[r.family].expires <= r.now
  BY <1>1, PrunedEntry
<1> HIDE DEF kept
<1>4. CASE r.op = "create"
  BY <1>1, <1>2, <1>4 DEF Outcome, CreateOutcome, kept
<1>5. CASE r.op = "rotate"
  <2>1. CASE kept[r.family].status = "absent"
    BY <1>5, <2>1 DEF Outcome, RotateOutcome, kept
  <2>2. CASE kept[r.family].status = "active" /\ kept[r.family].token = r.presented
    BY <1>1, <1>2, <1>3, <1>5, <2>2 DEF Outcome, RotateOutcome, kept, Absent
  <2>3. CASE /\ kept[r.family].status # "absent"
             /\ ~(kept[r.family].status = "active" /\ kept[r.family].token = r.presented)
    BY <1>1, <1>2, <1>3, <1>5, <2>3 DEF Outcome, RotateOutcome, kept, Absent, Revoked
  <2> QED
    BY <2>1, <2>2, <2>3
<1>6. CASE r.op = "is_active"
  BY <1>6 DEF Outcome, IsActiveOutcome
<1> QED
  BY <1>1, <1>4, <1>5, <1>6

----------------------------------------------------------------------------
(* Every step of a view keeps its history.                                 *)

\* The numbers and ids of a caller's request are what they should be.
LEMMA CallerFacts ==
  ASSUME NEW C, NEW v, WellTyped(C, v), NEW c \in C, InCall(v, c)
  PROVE  /\ v.request[c] \in Request
         /\ v.request[c].family \in Families
         /\ v.request[c].now \in Nat /\ v.request[c].now + TTL \in Nat
         /\ Draws(v.request[c]) => v.request[c].next \in Tokens
         /\ v.request[c].op = "rotate" => v.request[c].presented \in Tokens
<1>1. v.request[c] \in Request
  BY DEF WellTyped
<1>2. v.request[c].op = "rotate" => v.request[c].presented \in Tokens
  BY <1>1 DEF Request
<1> QED
  BY <1>1, <1>2, RequestType DEF Draws

\* Losing the callers or letting time pass keeps the history.
LEMMA QuietHistory ==
  ASSUME NEW C, NEW v, NEW w, History(C, v), QuietStep(C, v, w)
  PROVE  History(C, w)
<1> USE DEF History, InCall, Pending, Answered
<1>1. /\ \A c \in C : w.stage[c] # "idle" =>
           /\ w.stage[c] = v.stage[c] /\ w.request[c] = v.request[c]
           /\ w.answer[c] = v.answer[c]
      /\ w.table = v.table /\ w.handed = v.handed /\ w.refused = v.refused
      /\ w.drawn = v.drawn /\ w.now \in Nat /\ v.now <= w.now
  BY DEF QuietStep
<1>2. WellTyped(C, w)
  BY <1>1 DEF WellTyped
<1>3. InUseWereDrawn(C, w)
  BY <1>1 DEF InUseWereDrawn
<1>4. TokensApart(C, w)
  BY <1>1 DEF TokensApart
<1>5. FamiliesApart(C, w)
  BY <1>1 DEF FamiliesApart
<1>6. PresentedWereHanded(C, w)
  <2>1. \A h \in w.handed : h.expires <= w.now + TTL
    BY <1>1, TimeAssumption DEF PresentedWereHanded, WellTyped
  <2>2. ASSUME NEW c \in C, w.stage[c] # "idle"
        PROVE  w.request[c].now <= w.now
    <3>1. v.request[c].now \in Nat /\ v.request[c].now <= v.now
      BY <1>1, <2>2, CallerFacts DEF PresentedWereHanded
    <3> QED
      BY <1>1, <2>2, <3>1 DEF WellTyped
  <2> QED
    BY <1>1, <2>1, <2>2 DEF PresentedWereHanded
<1>7. Exchanged(C, w)
  BY <1>1 DEF Exchanged
<1>8. LivesWithinFamily(C, w)
  <2>1. ASSUME NEW token, NEW f, NEW e \in Nat, Lives(v, token, f, e)
        PROVE  Lives(w, token, f, e)
    BY <1>1, <2>1 DEF Lives, WellTyped
  <2>2. \A h \in w.handed : Lives(w, h.token, h.family, h.expires)
    BY <1>1, <2>1 DEF LivesWithinFamily, WellTyped
  <2>3. ASSUME NEW c \in C, w.stage[c] = "done", w.answer[c] = "ok"
        PROVE  Lives(w, w.request[c].next, w.request[c].family, w.request[c].now + TTL)
    <3>1. v.request[c].now + TTL \in Nat
      BY <1>1, <2>3, CallerFacts
    <3> QED
      BY <1>1, <2>1, <2>3, <3>1 DEF LivesWithinFamily
  <2> QED
    BY <2>2, <2>3 DEF LivesWithinFamily
<1>9. RefusedAreDead(C, w)
  BY <1>1 DEF RefusedAreDead
<1> QED
  BY <1>2, <1>3, <1>4, <1>5, <1>6, <1>7, <1>8, <1>9

\* A new call draws ids nobody has, and presents what was handed out.
LEMMA CallHistory ==
  ASSUME NEW C, NEW v, NEW w, NEW c \in C, NEW r \in Request,
         History(C, v), CallStep(C, v, w, c, r)
  PROVE  History(C, w)
<1> USE DEF History, InCall, Pending, Answered
<1>1. /\ v.stage[c] = "idle" /\ w.stage[c] = "called" /\ w.request[c] = r
      /\ \A d \in C \ {c} : /\ w.stage[d] = v.stage[d]
                           /\ w.request[d] = v.request[d] /\ w.answer[d] = v.answer[d]
      /\ w.handed = v.handed /\ w.refused = v.refused /\ w.now = v.now
      /\ w.table = v.table /\ v.drawn \subseteq w.drawn
  BY DEF CallStep, OthersStay, ClientsStay
<1>2. /\ r.family \in w.drawn /\ (Draws(r) => r.next \in w.drawn)
      /\ r.now = v.now /\ (Draws(r) => r.next \notin v.drawn)
      /\ r.op = "create" => r.family \notin v.drawn
      /\ r.op # "create" =>
           \E h \in v.handed : /\ h.family = r.family
                               /\ r.op = "rotate" => h.token = r.presented
  BY DEF CallStep, Arises
<1>3. /\ r.family \in Families /\ (Draws(r) => r.next \in Tokens)
      /\ r.op = "rotate" => Draws(r)
  BY RequestType DEF Draws
<1>4. WellTyped(C, w)
  BY <1>1 DEF WellTyped
<1>5. InUseWereDrawn(C, w)
  BY <1>1, <1>2 DEF InUseWereDrawn
<1>6. TokensApart(C, w)
  <2>1. Draws(r) => \A h \in v.handed : h.token # r.next
    BY <1>2 DEF InUseWereDrawn
  <2>2. Draws(r) => \A f \in Families : v.table[f].token # r.next
    <3>1. v.table \in Table
      BY DEF WellTyped
    <3> QED
      BY <1>2, <1>3, <3>1, EntryFacts, NoTokenAssumption DEF InUseWereDrawn
  <2>3. ~Draws(r) => r.next = NoToken
    BY DEF Draws, Request
  <2>4. ASSUME NEW d \in C \ {c}, v.stage[d] # "idle"
        PROVE  /\ Draws(r) => v.request[d].next # r.next
               /\ Draws(v.request[d]) => v.request[d].next # r.next
    <3>1. v.request[d] \in Request
      BY <2>4 DEF WellTyped
    <3>2. IF Draws(v.request[d])
          THEN v.request[d].next \in Tokens /\ v.request[d].next \in v.drawn
          ELSE v.request[d].next = NoToken
      BY <2>4, <3>1 DEF InUseWereDrawn, Draws, Request
    <3> QED
      BY <1>2, <1>3, <2>3, <3>2, NoTokenAssumption
  <2> QED
    BY <1>1, <2>1, <2>2, <2>4 DEF TokensApart
<1>7. FamiliesApart(C, w)
  <2>1. r.op = "create" =>
          /\ v.table[r.family].status = "absent"
          /\ \A h \in v.handed : h.family # r.family
          /\ r.family \notin v.refused
          /\ \A d \in C \ {c} : v.stage[d] # "idle" => v.request[d].family # r.family
    BY <1>2, <1>3 DEF InUseWereDrawn
  <2>2. ASSUME NEW d \in C \ {c}, v.stage[d] = "called", v.request[d].op = "create"
        PROVE  v.request[d].family # r.family
    BY <1>2, <2>1, <2>2 DEF FamiliesApart
  <2>3. ASSUME NEW d \in C \ {c}, w.stage[d] = "called", w.request[d].op = "create"
        PROVE  /\ w.table[w.request[d].family].status = "absent"
               /\ \A h \in w.handed : h.family # w.request[d].family
               /\ w.request[d].family \notin w.refused
               /\ \A e \in C \ {d} : w.stage[e] # "idle" =>
                    w.request[e].family # w.request[d].family
    BY <1>1, <2>2, <2>3 DEF FamiliesApart
  <2> QED
    BY <1>1, <2>1, <2>3 DEF FamiliesApart
<1>8. PresentedWereHanded(C, w)
  <2>1. r.now <= v.now
    BY <1>2 DEF WellTyped
  <2>2. r.op = "rotate" =>
          \E h \in v.handed : /\ h.token = r.presented /\ h.family = r.family
                              /\ h.expires <= r.now + TTL
    BY <1>2 DEF PresentedWereHanded
  <2>3. \A d \in C \ {c} : w.stage[d] # "idle" =>
          /\ w.request[d].now <= w.now
          /\ w.request[d].op = "rotate" =>
               \E h \in w.handed : /\ h.token = w.request[d].presented
                                   /\ h.family = w.request[d].family
                                   /\ h.expires <= w.request[d].now + TTL
    BY <1>1 DEF PresentedWereHanded
  <2> QED
    BY <1>1, <2>1, <2>2, <2>3 DEF PresentedWereHanded
<1>9. Exchanged(C, w)
  BY <1>1 DEF Exchanged
<1>10. LivesWithinFamily(C, w)
  BY <1>1 DEF LivesWithinFamily, Lives
<1>11. RefusedAreDead(C, w)
  BY <1>1 DEF RefusedAreDead
<1> QED
  BY <1>4, <1>5, <1>6, <1>7, <1>8, <1>9, <1>10, <1>11

\* A failed request has no effect on what is handed out, drawn or stored.
LEMMA FailHistory ==
  ASSUME NEW C, NEW v, NEW w, NEW c \in C, History(C, v), FailStep(C, v, w, c)
  PROVE  History(C, w)
<1> USE DEF History, InCall, Pending, Answered
<1>1. /\ v.stage[c] = "called" /\ w.stage[c] = "done" /\ w.answer[c] = "internal"
      /\ \A d \in C : w.request[d] = v.request[d]
      /\ \A d \in C \ {c} : w.stage[d] = v.stage[d] /\ w.answer[d] = v.answer[d]
      /\ w.handed = v.handed /\ w.refused = v.refused /\ w.now = v.now
      /\ w.table = v.table /\ w.drawn = v.drawn
  BY DEF FailStep, OthersStay, ClientsStay
<1>2. WellTyped(C, w)
  BY <1>1 DEF WellTyped
<1>3. InUseWereDrawn(C, w)
  BY <1>1 DEF InUseWereDrawn
<1>4. TokensApart(C, w)
  BY <1>1 DEF TokensApart
<1>5. FamiliesApart(C, w)
  BY <1>1 DEF FamiliesApart
<1>6. PresentedWereHanded(C, w)
  BY <1>1 DEF PresentedWereHanded
<1>7. Exchanged(C, w)
  BY <1>1 DEF Exchanged
<1>8. LivesWithinFamily(C, w)
  BY <1>1 DEF LivesWithinFamily, Lives
<1>9. RefusedAreDead(C, w)
  BY <1>1 DEF RefusedAreDead
<1> QED
  BY <1>2, <1>3, <1>4, <1>5, <1>6, <1>7, <1>8, <1>9

\* A client that is given its token holds one that nobody else holds.
LEMMA ReturnHistory ==
  ASSUME NEW C, NEW v, NEW w, NEW c \in C, History(C, v), ReturnStep(C, v, w, c)
  PROVE  History(C, w)
<1> USE DEF History, InCall, Pending, Answered
<1> DEFINE r == v.request[c]
           Given(h) == /\ v.answer[c] = "ok"
                       /\ h.token = r.next /\ h.family = r.family
                       /\ h.expires = r.now + TTL /\ h.parent = r.presented
<1>1. /\ v.stage[c] = "done" /\ w.stage[c] = "idle"
      /\ \A d \in C \ {c} : /\ w.stage[d] = v.stage[d]
                           /\ w.request[d] = v.request[d] /\ w.answer[d] = v.answer[d]
      /\ w.table = v.table /\ w.drawn = v.drawn /\ w.now = v.now
      /\ \A g, h \in w.handed : g \notin v.handed /\ h \notin v.handed => g = h
      /\ v.handed \subseteq w.handed
      /\ \A f \in w.refused : \/ f \in v.refused
                              \/ v.answer[c] = "invalid_grant" /\ f = r.family
  BY DEF ReturnStep, OthersStay
<1>2. \A h \in w.handed : h \in v.handed \/ Given(h)
  BY DEF ReturnStep
<1>3. /\ r \in Request /\ r.family \in Families /\ r.family \in v.drawn
      /\ r.now \in Nat /\ r.now + TTL \in Nat /\ r.now <= v.now
      /\ r.presented \in Tokens \cup {NoToken}
      /\ r.presented # NoToken => r.op = "rotate"
  <2>1. r \in Request
    BY <1>1 DEF WellTyped
  <2>2. /\ r.presented \in Tokens \cup {NoToken}
        /\ r.presented # NoToken => r.op = "rotate"
    BY <2>1 DEF Request
  <2> QED
    BY <1>1, <2>1, <2>2, CallerFacts DEF InUseWereDrawn, PresentedWereHanded
<1>4. v.answer[c] = "ok" => Draws(r) /\ r.next \in Tokens /\ r.next \in v.drawn
  BY <1>1, CallerFacts DEF WellTyped, InUseWereDrawn
<1>5. WellTyped(C, w)
  BY <1>1, <1>2, <1>3, <1>4 DEF WellTyped
<1>6. InUseWereDrawn(C, w)
  BY <1>1, <1>2, <1>3, <1>4 DEF InUseWereDrawn
<1>7. TokensApart(C, w)
  <2>1. \A g, h \in w.handed : g.token = h.token => g = h
    BY <1>1, <1>2, <1>4 DEF TokensApart
  <2>2. ASSUME NEW d \in C, w.stage[d] # "idle", Draws(w.request[d]), NEW h \in w.handed
        PROVE  h.token # w.request[d].next
    BY <1>1, <1>2, <1>4, <2>2 DEF TokensApart
  <2> QED
    BY <1>1, <2>1, <2>2 DEF TokensApart
<1>8. FamiliesApart(C, w)
  <2>1. ASSUME NEW d \in C, w.stage[d] = "called", w.request[d].op = "create"
        PROVE  /\ r.family # w.request[d].family
               /\ \A h \in w.handed : h.family # w.request[d].family
               /\ w.request[d].family \notin w.refused
    BY <1>1, <1>2, <2>1 DEF FamiliesApart
  <2> QED
    BY <1>1, <2>1 DEF FamiliesApart
<1>9. PresentedWereHanded(C, w)
  <2>1. \A h \in w.handed :
          /\ h.expires <= w.now + TTL
          /\ h.parent # NoToken => \E g \in w.handed : g.token = h.parent
    <3>1. r.now + TTL <= v.now + TTL
      BY <1>3, TimeAssumption DEF WellTyped
    <3> QED
      BY <1>1, <1>2, <1>3, <3>1 DEF PresentedWereHanded
  <2> QED
    BY <1>1, <2>1 DEF PresentedWereHanded
<1>10. Exchanged(C, w)
  <2>1. \A g, h \in w.handed : g.parent = h.parent /\ g.parent # NoToken => g = h
    BY <1>1, <1>2, <1>3 DEF Exchanged
  <2>2. \A h \in w.handed, f \in Families : h.parent # NoToken => w.table[f].token # h.parent
    BY <1>1, <1>2, <1>3 DEF Exchanged
  <2>3. ASSUME NEW d \in C, w.stage[d] = "done", w.answer[d] = "ok",
               w.request[d].op = "rotate", NEW h \in w.handed
        PROVE  h.parent # w.request[d].presented
    BY <1>1, <1>2, <1>3, <2>3 DEF Exchanged
  <2> QED
    BY <1>1, <2>1, <2>2, <2>3 DEF Exchanged
<1>11. LivesWithinFamily(C, w)
  BY <1>1, <1>2 DEF LivesWithinFamily, Lives
<1>12. RefusedAreDead(C, w)
  BY <1>1 DEF RefusedAreDead
<1> QED
  BY <1>5, <1>6, <1>7, <1>8, <1>9, <1>10, <1>11, <1>12

\* The decision of the store, entry by entry, keeps the history: a token goes
\* into a family once, leaves it for good when it is exchanged, and a family
\* that was refused stays refused.
LEMMA ApplyHistory ==
  ASSUME NEW C, NEW v, NEW w, NEW c \in C, History(C, v), ApplyStep(C, v, w, c)
  PROVE  History(C, w)
<1> USE DEF History, InCall, Pending, Answered
<1> DEFINE r == v.request[c]
           o == Outcome(v.table, r)
<1>1. /\ v.stage[c] = "called" /\ w.stage[c] = "done"
      /\ \A d \in C : w.request[d] = v.request[d]
      /\ \A d \in C \ {c} : w.stage[d] = v.stage[d] /\ w.answer[d] = v.answer[d]
      /\ w.handed = v.handed /\ w.refused = v.refused /\ w.now = v.now
      /\ w.drawn = v.drawn
      /\ w.table = o.table /\ w.answer[c] = o.answer
  BY DEF ApplyStep, OthersStay, ClientsStay
<1>2. /\ r \in Request /\ r.family \in Families /\ r.family \in v.drawn
      /\ r.now \in Nat /\ r.now + TTL \in Nat /\ r.now <= v.now /\ v.now \in Nat
      /\ Draws(r) => r.next \in Tokens /\ r.next \in v.drawn
      /\ r.op = "rotate" => Draws(r) /\ r.presented \in Tokens
      /\ r.op = "create" => Draws(r)
  BY <1>1, CallerFacts DEF WellTyped, InUseWereDrawn, PresentedWereHanded, Draws
<1>3. v.table \in Table /\ w.table \in Table
  BY <1>1, <1>2, OutcomeType DEF WellTyped
<1>4. /\ o.answer = "ok" =>
           /\ r.op # "is_active"
           /\ w.table[r.family] = Issued(r)
           /\ r.op = "rotate" => /\ v.table[r.family].status = "active"
                                 /\ v.table[r.family].token = r.presented
      /\ o.answer = "invalid_grant" => w.table[r.family].status # "active"
  BY <1>1, <1>2, <1>3, OutcomeAnswer
<1>5. ASSUME NEW f \in Families
      PROVE  \/ w.table[f] = v.table[f]
             \/ w.table[f] = Absent /\ v.table[f].expires <= r.now
             \/ /\ f = r.family /\ r.op = "create" /\ o.answer = "ok"
                /\ w.table[f] = Issued(r)
             \/ /\ f = r.family /\ r.op = "rotate" /\ o.answer = "ok"
                /\ v.table[f].status = "active" /\ v.table[f].token = r.presented
                /\ w.table[f] = Issued(r)
             \/ /\ f = r.family /\ v.table[f].status # "absent"
                /\ w.table[f] = Revoked(v.table[f])
  BY <1>1, <1>2, <1>3, OutcomeEntry
<1> HIDE DEF o
<1>6. WellTyped(C, w)
  BY <1>1, <1>3, <1>4 DEF WellTyped, Draws
\* The token of an entry is the one it had, none, or the one just drawn.
<1>7. ASSUME NEW f \in Families
      PROVE  \/ w.table[f].token = v.table[f].token /\ v.table[f].token \in Tokens
             \/ w.table[f].token = NoToken
             \/ /\ f = r.family /\ Draws(r) /\ o.answer = "ok"
                /\ w.table[f].token = r.next
                /\ r.op = "rotate" => v.table[f].token = r.presented
  <2>1. CASE w.table[f] = v.table[f]
    BY <1>3, <2>1, EntryFacts
  <2>2. CASE w.table[f] = Absent
    BY <2>2, EntryFields
  <2>3. CASE /\ f = r.family /\ Draws(r) /\ o.answer = "ok"
             /\ r.op = "rotate" => v.table[f].token = r.presented
             /\ w.table[f] = Issued(r)
    BY <2>3, EntryFields
  <2>4. CASE v.table[f].status # "absent" /\ w.table[f] = Revoked(v.table[f])
    BY <1>3, <2>4, EntryFacts, EntryFields
  <2> QED
    BY <1>2, <1>5, <2>1, <2>2, <2>3, <2>4
<1>8. /\ Draws(r) => \A f \in Families : v.table[f].token # r.next
      /\ Draws(r) => \A h \in v.handed : h.token # r.next
      /\ Draws(r) => \A d \in C \ {c} : v.stage[d] # "idle" => v.request[d].next # r.next
  BY <1>1 DEF TokensApart
<1>9. InUseWereDrawn(C, w)
  <2>1. ASSUME NEW f \in Families, w.table[f].status # "absent"
        PROVE  f \in w.drawn /\ w.table[f].token \in w.drawn
    <3>1. w.table[f].token # NoToken
      BY <1>3, <2>1, EntryFacts
    <3>2. CASE w.table[f].token = v.table[f].token
      BY <1>1, <1>3, <3>1, <3>2, EntryFacts DEF InUseWereDrawn
    <3>3. CASE f = r.family /\ Draws(r) /\ w.table[f].token = r.next
      BY <1>1, <1>2, <3>3
    <3> QED
      BY <1>7, <3>1, <3>2, <3>3
  <2> QED
    BY <1>1, <2>1 DEF InUseWereDrawn
<1>10. TokensApart(C, w)
  <2>1. ASSUME NEW f \in Families, NEW g \in Families,
               w.table[f].status # "absent", w.table[f].token = w.table[g].token
        PROVE  f = g
    <3>1. w.table[f].token # NoToken
      BY <1>3, <2>1, EntryFacts
    <3>2. CASE w.table[f].token = r.next /\ Draws(r)
      BY <1>7, <1>8, <2>1, <3>1, <3>2
    <3>3. CASE ~(w.table[f].token = r.next /\ Draws(r))
      <4>1. w.table[f].token = v.table[f].token /\ v.table[g].token = v.table[f].token
        BY <1>7, <2>1, <3>1, <3>3
      <4>2. v.table[f].status # "absent"
        BY <1>3, <3>1, <4>1, EntryFacts
      <4> QED
        BY <4>1, <4>2 DEF TokensApart
    <3> QED
      BY <3>2, <3>3
  <2>2. ASSUME NEW d \in C, w.stage[d] = "called", Draws(w.request[d]), NEW f \in Families
        PROVE  w.table[f].token # w.request[d].next
    <3>1. d # c /\ v.stage[d] = "called" /\ w.request[d] = v.request[d]
      BY <1>1, <2>2
    <3>2. v.request[d].next \in Tokens /\ v.table[f].token # v.request[d].next
      BY <2>2, <3>1, CallerFacts DEF TokensApart
    <3> QED
      BY <1>7, <1>8, <3>1, <3>2, NoTokenAssumption
  <2>3. \A g, h \in w.handed : g.token = h.token => g = h
    BY <1>1 DEF TokensApart
  <2>4. ASSUME NEW d \in C, w.stage[d] # "idle", Draws(w.request[d])
        PROVE  /\ \A h \in w.handed : h.token # w.request[d].next
               /\ \A e \in C \ {d} : w.stage[e] # "idle" => w.request[e].next # w.request[d].next
    BY <1>1, <2>4 DEF TokensApart
  <2> QED
    BY <2>1, <2>2, <2>3, <2>4 DEF TokensApart
<1>11. FamiliesApart(C, w)
  <2>1. ASSUME NEW d \in C, w.stage[d] = "called", w.request[d].op = "create"
        PROVE  w.table[w.request[d].family].status = "absent"
    <3>1. d # c /\ v.stage[d] = "called" /\ w.request[d] = v.request[d]
      BY <1>1, <2>1
    <3>2. v.request[d].family \in Families
      BY <3>1, CallerFacts
    <3>3. /\ v.table[v.request[d].family].status = "absent"
          /\ r.family # v.request[d].family
      BY <1>1, <2>1, <3>1 DEF FamiliesApart
    <3> QED
      BY <1>5, <3>1, <3>2, <3>3 DEF Absent
  <2> QED
    BY <1>1, <2>1 DEF FamiliesApart
<1>12. PresentedWereHanded(C, w)
  BY <1>1 DEF PresentedWereHanded
<1>13. Exchanged(C, w)
  <2>1. ASSUME NEW p \in Tokens, NEW f \in Families,
               \A g \in Families : v.table[g].token # p, \E h \in v.handed : h.token = p
        PROVE  w.table[f].token # p
    BY <1>7, <1>8, <2>1, NoTokenAssumption
  <2>2. ASSUME NEW h \in v.handed, h.parent # NoToken, NEW f \in Families
        PROVE  w.table[f].token # h.parent
    BY <2>1, <2>2 DEF Exchanged, PresentedWereHanded, WellTyped
  <2>3. ASSUME NEW d \in C \ {c}, v.stage[d] = "done", v.answer[d] = "ok",
               v.request[d].op = "rotate", NEW f \in Families
        PROVE  w.table[f].token # v.request[d].presented
    <3>1. /\ v.request[d].presented \in Tokens
          /\ \E h \in v.handed : h.token = v.request[d].presented
      BY <2>3, CallerFacts DEF PresentedWereHanded
    <3> QED
      BY <2>1, <2>3, <3>1 DEF Exchanged
  <2>4. ASSUME o.answer = "ok", r.op = "rotate"
        PROVE  /\ v.table[r.family].status = "active"
               /\ v.table[r.family].token = r.presented /\ r.presented \in Tokens
               /\ \A f \in Families : w.table[f].token # r.presented
               /\ \A h \in v.handed : h.parent # r.presented
    <3>1. /\ v.table[r.family].status = "active"
          /\ v.table[r.family].token = r.presented /\ r.presented \in Tokens
      BY <1>2, <1>4, <2>4
    <3>2. r.presented # r.next
      BY <1>2, <1>8, <2>4, <3>1
    <3>3. ASSUME NEW f \in Families
          PROVE  w.table[f].token # r.presented
      <4>1. CASE f = r.family
        BY <1>4, <2>4, <3>2, <4>1 DEF Issued
      <4>2. CASE f # r.family
        BY <1>2, <1>7, <3>1, <4>2, NoTokenAssumption DEF TokensApart
      <4> QED
        BY <4>1, <4>2
    <3>4. \A h \in v.handed : h.parent # r.presented
      BY <1>2, <3>1, NoTokenAssumption DEF Exchanged
    <3> QED
      BY <3>1, <3>3, <3>4
  <2>5. ASSUME NEW d \in C \ {c}, v.stage[d] = "done", v.answer[d] = "ok",
               o.answer = "ok", r.op = "rotate"
        PROVE  v.request[d].presented # r.presented
    <3>1. v.request[d] \in Request /\ Draws(v.request[d])
      BY <2>5 DEF WellTyped
    <3>2. CASE v.request[d].op = "rotate"
      BY <1>2, <2>4, <2>5, <3>2 DEF Exchanged
    <3>3. CASE v.request[d].op # "rotate"
      BY <2>4, <2>5, <3>1, <3>3, NoTokenAssumption DEF Request
    <3> QED
      BY <3>2, <3>3
  <2>6. ASSUME NEW d \in C \ {c}, v.stage[d] = "done", v.answer[d] = "ok",
               v.request[d].op = "rotate", o.answer = "ok"
        PROVE  r.presented # v.request[d].presented
    <3>1. CASE r.op = "rotate"
      BY <2>5, <2>6, <3>1
    <3>2. CASE r.op # "rotate"
      BY <1>2, <2>6, <3>2, CallerFacts, NoTokenAssumption DEF Request
    <3> QED
      BY <3>1, <3>2
  <2>7. \A g, h \in w.handed : g.parent = h.parent /\ g.parent # NoToken => g = h
    BY <1>1 DEF Exchanged
  <2>8. ASSUME NEW d \in C, w.stage[d] = "done", w.answer[d] = "ok",
               w.request[d].op = "rotate"
        PROVE  /\ \A f \in Families : w.table[f].token # w.request[d].presented
               /\ \A h \in w.handed : h.parent # w.request[d].presented
               /\ \A e \in C \ {d} : w.stage[e] = "done" /\ w.answer[e] = "ok" =>
                    w.request[e].presented # w.request[d].presented
    <3>1. CASE d = c
      BY <1>1, <2>4, <2>5, <2>8, <3>1
    <3>2. CASE d # c
      BY <1>1, <2>3, <2>6, <2>8, <3>2 DEF Exchanged
    <3> QED
      BY <3>1, <3>2
  <2> QED
    BY <1>1, <2>2, <2>7, <2>8 DEF Exchanged
<1>14. LivesWithinFamily(C, w)
  \* What the rotated family's token is worth, its family is worth.
  <2>1. ASSUME r.op = "rotate", v.table[r.family].token = r.presented
        PROVE  v.table[r.family].expires <= r.now + TTL
    BY <1>1, <2>1 DEF PresentedWereHanded, LivesWithinFamily, Lives
  <2>2. ASSUME NEW token \in Tokens, NEW f \in Families, NEW e \in Nat,
               Lives(v, token, f, e), Draws(r) => token # r.next,
               r.op = "create" => f # r.family
        PROVE  Lives(w, token, f, e)
    <3>1. v.table[f].expires \in Nat
      BY <1>3, EntryFacts
    <3>2. CASE w.table[f] = v.table[f]
      BY <1>1, <2>2, <3>2 DEF Lives
    <3>3. CASE w.table[f] = Absent /\ v.table[f].expires <= r.now
      BY <1>1, <1>2, <2>2, <3>1, <3>3, NoTokenAssumption DEF Lives, Absent
    <3>4. CASE /\ f = r.family /\ r.op = "rotate" /\ v.table[f].token = r.presented
               /\ w.table[f] = Issued(r)
      BY <1>1, <1>2, <2>1, <2>2, <3>1, <3>4 DEF Lives, Issued
    <3>5. CASE w.table[f] = Revoked(v.table[f])
      BY <1>1, <2>2, <3>5 DEF Lives, Revoked
    <3> QED
      BY <1>5, <2>2, <3>2, <3>3, <3>4, <3>5
  <2>3. ASSUME NEW h \in w.handed
        PROVE  Lives(w, h.token, h.family, h.expires)
    <3>1. /\ h.token \in Tokens /\ h.family \in Families /\ h.expires \in Nat
          /\ Lives(v, h.token, h.family, h.expires)
          /\ r.op = "create" => h.family # r.family
      BY <1>1, <2>3 DEF WellTyped, LivesWithinFamily, FamiliesApart
    <3> QED
      BY <1>1, <1>8, <2>2, <2>3, <3>1
  <2>4. ASSUME NEW d \in C, w.stage[d] = "done", w.answer[d] = "ok"
        PROVE  Lives(w, w.request[d].next, w.request[d].family, w.request[d].now + TTL)
    <3>1. CASE d = c
      BY <1>1, <1>2, <1>4, <2>4, <3>1 DEF Lives, Issued
    <3>2. CASE d # c
      <4>1. /\ v.stage[d] = "done" /\ v.answer[d] = "ok" /\ w.request[d] = v.request[d]
            /\ v.stage[d] # "idle"
        BY <1>1, <2>4, <3>2
      <4>2. /\ v.request[d].next \in Tokens /\ v.request[d].family \in Families
            /\ v.request[d].now + TTL \in Nat
        BY <4>1, CallerFacts DEF WellTyped
      <4>3. /\ Lives(v, v.request[d].next, v.request[d].family, v.request[d].now + TTL)
            /\ r.op = "create" => v.request[d].family # r.family
        BY <1>1, <3>2, <4>1 DEF LivesWithinFamily, FamiliesApart
      <4> QED
        BY <1>8, <2>2, <3>2, <4>1, <4>2, <4>3
    <3> QED
      BY <3>1, <3>2
  <2> QED
    BY <2>3, <2>4 DEF LivesWithinFamily
<1>15. RefusedAreDead(C, w)
  <2>1. ASSUME NEW f \in Families, v.table[f].status # "active",
               r.op = "create" => f # r.family
        PROVE  w.table[f].status # "active"
    BY <1>5, <2>1, EntryFields
  <2>2. \A f \in w.refused : w.table[f].status # "active"
    BY <1>1, <2>1 DEF RefusedAreDead, FamiliesApart, WellTyped
  <2>3. ASSUME NEW d \in C, w.stage[d] = "done", w.answer[d] = "invalid_grant"
        PROVE  w.table[w.request[d].family].status # "active"
    <3>1. CASE d = c
      BY <1>1, <1>4, <2>3, <3>1
    <3>2. CASE d # c
      <4>1. /\ v.stage[d] = "done" /\ v.answer[d] = "invalid_grant"
            /\ w.request[d] = v.request[d]
        BY <1>1, <2>3, <3>2
      <4>2. /\ v.request[d].family \in Families
            /\ v.table[v.request[d].family].status # "active"
            /\ r.op = "create" => v.request[d].family # r.family
        BY <1>1, <3>2, <4>1, CallerFacts DEF RefusedAreDead, FamiliesApart
      <4> QED
        BY <2>1, <4>1, <4>2
    <3> QED
      BY <3>1, <3>2
  <2> QED
    BY <2>2, <2>3 DEF RefusedAreDead
<1> QED
  BY <1>6, <1>9, <1>10, <1>11, <1>12, <1>13, <1>14, <1>15

\* What a request that takes effect does to an entry, now that what is
\* presented and what is drawn are known: an absent entry is filled, the token
\* of an active one replaced by another that lives as long or longer, an
\* active one revoked as it stands, or an expired one dropped.
LEMMA ApplyEntry ==
  ASSUME NEW C, NEW v, NEW w, NEW c \in C, NEW f \in Families,
         History(C, v), ApplyStep(C, v, w, c)
  PROVE  \/ w.table[f] = v.table[f]
         \/ v.table[f].status = "absent" /\ w.table[f].status = "active"
         \/ /\ v.table[f].status = "active" /\ w.table[f].status = "active"
            /\ v.table[f].token # w.table[f].token
            /\ w.table[f].expires >= v.table[f].expires
         \/ v.table[f].status = "active" /\ w.table[f] = Revoked(v.table[f])
         \/ w.table[f].status = "absent" /\ v.table[f].expires <= v.now
<1> USE DEF History, InCall, Pending, Answered
<1> DEFINE r == v.request[c]
<1>1. /\ v.stage[c] = "called" /\ w.table = Outcome(v.table, r).table
      /\ v.table \in Table /\ r \in Request
  BY DEF ApplyStep, WellTyped
<1>2. /\ r.family \in Families /\ r.now \in Nat /\ r.now + TTL \in Nat
      /\ r.now <= v.now /\ v.now \in Nat
      /\ r.op = "rotate" => Draws(r)
  BY <1>1, CallerFacts DEF WellTyped, PresentedWereHanded, Draws
<1>3. /\ v.table[f].status \in {"absent", "active", "revoked"}
      /\ v.table[f].expires \in Nat
  BY <1>1, EntryFacts
<1>4. CASE w.table[f] = Absent /\ v.table[f].expires <= r.now
  BY <1>2, <1>3, <1>4, EntryFields
<1>5. CASE f = r.family /\ r.op = "create" /\ w.table[f] = Issued(r)
  BY <1>1, <1>5, EntryFields DEF FamiliesApart
<1>6. CASE /\ f = r.family /\ r.op = "rotate"
           /\ v.table[f].status = "active" /\ v.table[f].token = r.presented
           /\ w.table[f] = Issued(r)
  <2>1. v.table[f].token # r.next
    BY <1>1, <1>2, <1>6 DEF TokensApart
  <2>2. v.table[f].expires <= r.now + TTL
    BY <1>1, <1>6 DEF PresentedWereHanded, LivesWithinFamily, Lives
  <2> QED
    BY <1>2, <1>3, <1>6, <2>1, <2>2, EntryFields
<1>7. CASE v.table[f].status # "absent" /\ w.table[f] = Revoked(v.table[f])
  <2>1. CASE v.table[f].status = "active"
    BY <1>7, <2>1
  <2>2. CASE v.table[f].status = "revoked"
    <3>1. v.table[f] \in [status : {"active", "revoked"}, token : Tokens, expires : Nat]
      BY <1>1, <2>2 DEF Table, Entry, Absent
    <3>2. Revoked(v.table[f]) = v.table[f]
      BY <2>2, <3>1 DEF Revoked
    <3> QED
      BY <1>7, <3>2
  <2> QED
    BY <1>3, <1>7, <2>1, <2>2
<1> QED
  BY <1>1, <1>4, <1>5, <1>6, <1>7, OutcomeEntry
=============================================================================
