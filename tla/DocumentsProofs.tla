-------------------------- MODULE DocumentsProofs --------------------------
(***************************************************************************)
(* Theorems about Documents for any directories, files, contents, scores   *)
(* and limits, and for any number of changes by the owner: its type, what  *)
(* a call may show and fail for, that notes stay unread in an inbox apart, *)
(* and that the best results are shown.                                    *)
(***************************************************************************)
EXTENDS Documents, FiniteSetTheorems, WellFoundedInduction, TLAPS

----------------------------------------------------------------------------
(* The inductive invariants.                                               *)

Served == call.phase # "idle"

\* A search goes from listing to reading: it has read nothing while it lists,
\* and reads nothing twice.
Stages ==
  /\ call.roots \subseteq Roots(call.scope)
  /\ call.phase \in {"opening", "walking"} => call.at \in Roots(call.scope)
  /\ call.hits # {} => call.phase = "listing" /\ call.roots = {}
  /\ \A h \in call.hits : h.path \notin call.ids
  /\ call.phase # "done" => call.result = "none"
  /\ ~Served => call.hits = {} /\ call.shown = {}

\* What is in the scope, or wrong in it, has been seen as long as a call is
\* served, and so has what the call has found.
SeenAll ==
  Served =>
    /\ Offered \subseteq saw.offered
    /\ Fault => saw.fault
    /\ FaultBehindLink => saw.behind
    /\ \A h \in call.hits \cup call.shown : h.doc \in saw.offered
    /\ call.result = "internal_error" => saw.fault \/ saw.behind

IInv == TypeOK /\ Stages /\ SeenAll

\* A note is in the inbox, unless the owner has sorted it.
NotesInInbox ==
  \A p \in Paths : kb[p].doc \in Notes /\ p.dir # InboxDir => kb[p].doc \in sorted

\* A note that a call has found has been sorted.
HitsSorted == \A h \in call.hits \cup call.shown : h.doc \in Notes => h.doc \in sorted

----------------------------------------------------------------------------
(* Places and contents.                                                    *)

\* The knowledge base as typed, apart from the call.
World ==
  /\ kb \in [Paths -> Entries]
  /\ state \in [Dirs -> {"there", "gone", "closed"}]
  /\ linked \in [Dirs -> Dirs]
  /\ inboxAt \in Dirs

\* INDEX.md lies in no directory of a scope, and every other file lies in one
\* directory; a scope covers directories of the knowledge base only.
LEMMA Places ==
  /\ Paths \subseteq [dir : Nat, name : Nat] /\ Index \in Paths /\ Files \subseteq Paths
  /\ Index.dir = IndexDir /\ IndexDir \notin Dirs /\ IndexDir \in Nat
  /\ \A p \in Files : p.dir \in Dirs
  /\ \A scope : Roots(scope) \subseteq Public \cup Private
  /\ Public \cup Private \subseteq Dirs /\ Dirs \subseteq Nat
BY DirectoryAssumption DEF Paths, Index, Dirs, Roots

\* An entry is of one kind, and one that can be read holds contents.
LEMMA EntryKinds ==
  ASSUME NEW e \in Entries
  PROVE  /\ e.doc \in Docs \cup Notes \cup {NoDoc}
         /\ Readable(e) => e.doc \in Docs \cup Notes
<1>1. CASE e = Gone
  BY <1>1 DEF Gone, Readable
<1>2. CASE e = [Gone EXCEPT !.kind = "faulty"] \/ e = [Gone EXCEPT !.kind = "misnamed"]
  BY <1>2 DEF Gone, Readable
<1>3. CASE \E d \in Docs \cup Notes : e = Text(d)
  BY <1>3 DEF Gone, Text
<1>4. CASE \E d \in Docs : e = [Text(d) EXCEPT !.kind = "ignored"]
  BY <1>4 DEF Gone, Text
<1>5. CASE \E p \in Files : e = [Gone EXCEPT !.kind = "link", !.to = p]
  BY <1>5 DEF Gone, Readable
<1> QED
  BY <1>1, <1>2, <1>3, <1>4, <1>5 DEF Entries, OwnerEntries

\* The owner writes no notes.
LEMMA OwnerWritesDocs ==
  ASSUME NEW e \in OwnerEntries
  PROVE  e \in Entries /\ e.doc \in Docs \cup {NoDoc}
<1>1. e \in Entries
  BY DEF Entries
<1> SUFFICES e.doc \in Docs \cup {NoDoc}
  BY <1>1
<1>2. CASE e = Gone \/ e = [Gone EXCEPT !.kind = "faulty"] \/ e = [Gone EXCEPT !.kind = "misnamed"]
  BY <1>2 DEF Gone
<1>3. CASE \E d \in Docs : e = Text(d) \/ e = [Text(d) EXCEPT !.kind = "ignored"]
  BY <1>3 DEF Gone, Text
<1>4. CASE \E p \in Files : e = [Gone EXCEPT !.kind = "link", !.to = p]
  BY <1>4 DEF Gone
<1> QED
  BY <1>2, <1>3, <1>4 DEF OwnerEntries

\* What every text is, and a place with nothing in it.
LEMMA TextFields ==
  /\ Gone \in Entries /\ Gone.kind = "gone" /\ Gone.doc = NoDoc
  /\ \A d \in Docs \cup Notes : /\ Text(d) \in Entries
                                /\ Text(d).kind = "text" /\ Text(d).doc = d
BY DEF Gone, Text, Entries, OwnerEntries

\* A file that opens beneath the root is the one at that path, in a directory
\* no link leads to; it holds contents.
LEMMA FoundIsThere ==
  ASSUME World, NEW p, Readable(Found(p))
  PROVE  /\ p \in Paths /\ Real(p) /\ Found(p) = kb[p]
         /\ kb[p].doc \in Docs \cup Notes
<1>1. p \in Paths /\ Real(p)
  BY DEF Found, Readable, Gone
<1>2. Found(p) = kb[p]
  BY <1>1 DEF Found, Readable, Gone
<1>3. kb[p] \in Entries
  BY <1>1 DEF World
<1> QED
  BY <1>1, <1>2, <1>3, EntryKinds

\* What can be read in the scope of the call is offered there, and what cannot
\* be is a fault there.
ReadsAreSeen ==
  \A p : LET e == Read(call.scope, p)
         IN /\ Readable(e) => p \in Paths /\ e.doc \in Offered
            /\ e.kind = "faulty" => Fault

\* The types of what the properties keep.
SightTyped ==
  /\ Offered \subseteq Docs \cup Notes
  /\ Listed \subseteq Hits
  /\ Fault \in BOOLEAN /\ FaultBehindLink \in BOOLEAN

\* Both hold of any knowledge base.
LEMMA Sight == World => ReadsAreSeen /\ SightTyped
<1> SUFFICES ASSUME World PROVE ReadsAreSeen /\ SightTyped
  OBVIOUS
<1>1. ASSUME NEW p, Readable(Read(call.scope, p))
      PROVE  p \in Paths /\ Read(call.scope, p).doc \in Offered
  <2>1. Allowed(call.scope, p) /\ Read(call.scope, p) = Found(p)
    BY <1>1 DEF Read, Readable, Gone
  <2>2. p \in Paths
    BY <1>1, <2>1, FoundIsThere
  <2> QED
    BY <1>1, <2>1, <2>2 DEF Offered
<1>2. ASSUME NEW p, Read(call.scope, p).kind = "faulty"
      PROVE  Fault
  <2>1. Allowed(call.scope, p) /\ Found(p).kind = "faulty"
    BY <1>2 DEF Read, Gone
  <2>2. p \in Paths /\ Real(p)
    BY <2>1 DEF Found, Gone
  <2>3. CASE p = Index
    <3>1. kb[p].kind = "faulty"
      BY <2>1, <2>2, <2>3 DEF Found
    <3> QED
      BY <3>1, <2>2, <2>3 DEF Fault
  <2>4. CASE p # Index
    <3>1. p.dir \in Roots(call.scope) /\ linked[p.dir] = p.dir
      BY <2>1, <2>2, <2>4 DEF Allowed, Real
    <3>2. state[p.dir] # "there" \/ kb[p].kind = "faulty"
      BY <2>1, <2>2, <2>4 DEF Found
    <3>3. p \in Files
      BY <2>2, <2>4 DEF Paths
    <3> QED
      BY <3>1, <3>2, <3>3 DEF Fault, Broken
  <2> QED
    BY <2>3, <2>4
<1>3. Offered \subseteq Docs \cup Notes
  BY FoundIsThere DEF Offered
<1>4. Listed \subseteq Hits
  <2> SUFFICES ASSUME NEW q \in Paths, Found(q).kind = "text"
               PROVE  [path |-> q, doc |-> kb[q].doc] \in Hits
    BY DEF Listed
  <2>1. kb[q].doc \in Docs \cup Notes
    BY FoundIsThere DEF Readable
  <2> QED
    BY <2>1 DEF Hits
<1>5. Fault \in BOOLEAN /\ FaultBehindLink \in BOOLEAN
  BY DEF Fault, FaultBehindLink, Broken
<1> QED
  BY <1>1, <1>2, <1>3, <1>4, <1>5 DEF ReadsAreSeen, SightTyped

\* The first of a set of numbers is in it.
LEMMA Least ==
  ASSUME NEW S \in SUBSET Nat, S # {}
  PROVE  Min(S) \in S
<1> DEFINE R == OpToRel(<, Nat)
<1>1. IsWellFoundedOn(R, Nat)
  BY NatLessThanWellFounded
<1> HIDE DEF R
<1>2. PICK x \in S : \A y \in S : <<y, x>> \notin R
  BY <1>1, WFMin
<1>3. \A y \in Nat : y < x => <<y, x>> \in R
  BY DEF R, OpToRel
<1>4. \A y \in S : x <= y
  <2> TAKE y \in S
  <2>1. y \in Nat /\ x \in Nat /\ ~(y < x)
    BY <1>2, <1>3
  <2> QED
    BY <2>1
<1> QED
  BY <1>4 DEF Min

----------------------------------------------------------------------------
(* What the steps leave seen.                                              *)

Sights ==
  [offered : SUBSET (Docs \cup Notes), steady : SUBSET Hits, fault : BOOLEAN, behind : BOOLEAN]

\* All that is in the scope, or wrong in it, has been seen.
AllSeen ==
  /\ Offered \subseteq saw.offered
  /\ Fault => saw.fault
  /\ FaultBehindLink => saw.behind

\* A call begins with a look at the knowledge base.
LEMMA LookSees ==
  ASSUME World', Look
  PROVE  saw' \in Sights /\ AllSeen'
<1>1. SightTyped'
  BY Sight, PTL
<1>2. saw'.offered = Offered' /\ saw'.fault = Fault' /\ saw'.behind = FaultBehindLink'
  BY DEF Look
<1>3. saw' \in Sights
  BY <1>1 DEF Look, SightTyped, Sights
<1> QED
  BY <1>2, <1>3 DEF AllSeen

\* Every change is seen while a call is served, and nothing seen is forgotten.
LEMMA WatchSees ==
  ASSUME TypeOK, Served, World', Watch
  PROVE  /\ saw' \in Sights /\ AllSeen'
         /\ saw.offered \subseteq saw'.offered
         /\ (saw.fault => saw'.fault) /\ (saw.behind => saw'.behind)
<1>1. SightTyped'
  BY Sight, PTL
<1>2. saw \in Sights
  BY DEF TypeOK, Sights
<1>3. saw' = [offered |-> saw.offered \cup Offered', steady |-> saw.steady \cap Listed',
              fault |-> saw.fault \/ Fault', behind |-> saw.behind \/ FaultBehindLink']
  BY DEF Watch, Served
<1>4. /\ saw'.offered = saw.offered \cup Offered'
      /\ saw'.fault = (saw.fault \/ Fault')
      /\ saw'.behind = (saw.behind \/ FaultBehindLink')
  BY <1>3
<1>5. saw' \in Sights
  BY <1>1, <1>2, <1>3 DEF SightTyped, Sights
<1>7. /\ Fault' \/ saw.fault => saw'.fault
      /\ FaultBehindLink' \/ saw.behind => saw'.behind
  BY <1>4
<1> QED
  BY <1>4, <1>5, <1>7 DEF AllSeen

\* A step of the call itself, which changes nothing else.
Still == UNCHANGED <<kb, state, linked, inboxAt, edits, sorted, saw>>

\* Directories the scope of the call leads to.
Reached == {linked[d] : d \in Roots(call.scope)}

\* What is in the scope, or wrong in it, is the same after it.
LEMMA StillSeen ==
  ASSUME AllSeen, Still, call'.scope = call.scope,
         \A p \in call'.due : p \in call.due \/ p.dir \in Reached
  PROVE  AllSeen'
<1>1. Offered' = Offered
  BY DEF Still, Offered, Found, Allowed, Readable, Real
<1>2. Fault' = Fault
  BY DEF Still, Fault, Broken
<1>3. ASSUME FaultBehindLink' PROVE FaultBehindLink
  <2>1. {linked'[d] : d \in Roots(call'.scope)} \cup {p.dir : p \in call'.due}
          \subseteq Reached \cup {p.dir : p \in call.due}
    BY DEF Still, Reached
  <2> QED
    BY <1>3, <2>1 DEF FaultBehindLink, Broken, Still, Reached
<1> QED
  BY <1>1, <1>2, <1>3 DEF AllSeen, Still

\* A step of the call keeps the invariant if it leaves the call typed, in its
\* stages, with hits that are matches and contents that have been seen.
LEMMA CallStep ==
  ASSUME IInv, Served, Still, call' \in Calls, Stages',
         call'.scope = call.scope,
         \A p \in call'.due : p \in call.due \/ p.dir \in Reached,
         \A h \in call'.hits : ScoreOf[h.doc] > 0,
         \A g, h \in call'.hits : g.path = h.path => g = h,
         call'.result # "ok" => call'.shown = {},
         \A h \in call'.hits \cup call'.shown : h.doc \in saw.offered,
         call'.result = "internal_error" => saw.fault \/ saw.behind
  PROVE  IInv'
<1>1. AllSeen
  BY DEF IInv, SeenAll, AllSeen
<1>2. AllSeen'
  BY <1>1, StillSeen
<1>3. SeenAll'
  BY <1>2 DEF AllSeen, SeenAll, Still
<1>4. TypeOK'
  BY DEF IInv, TypeOK, Still
<1> QED
  BY <1>3, <1>4 DEF IInv

----------------------------------------------------------------------------
(* The steps of a call.                                                    *)

\* A call that begins.
LEMMA BeginKeeps ==
  ASSUME IInv, NEW scope \in Scopes, NEW limit \in Limits, BeginSearch(scope, limit)
  PROVE  IInv'
<1>1. /\ call'.phase = "listing" /\ call'.scope = scope
      /\ call'.roots = Roots(scope) /\ call'.ids \subseteq {Index}
      /\ call'.hits = {} /\ call'.shown = {} /\ call'.result = "none"
  BY DEF BeginSearch, NoCall
<1>2. call' \in Calls
  <2>1. Roots(scope) \subseteq Dirs /\ Index \in [dir : Nat, name : Nat]
    BY Places
  <2> QED
    BY <2>1 DEF BeginSearch, NoCall, Calls, Scopes
<1>3. World'
  BY DEF IInv, TypeOK, World, BeginSearch
<1>4. saw' \in Sights /\ AllSeen'
  BY <1>3, LookSees DEF BeginSearch
<1>5. TypeOK'
  BY <1>1, <1>2, <1>4 DEF IInv, TypeOK, BeginSearch, Sights
<1>6. Stages'
  BY <1>1 DEF Stages, Served
<1>7. SeenAll'
  BY <1>1, <1>4 DEF SeenAll, AllSeen
<1> QED
  BY <1>5, <1>6, <1>7 DEF IInv

\* fetch shows what is offered in its scope, or fails for a fault there.
LEMMA FetchKeeps ==
  ASSUME IInv, NEW scope \in Scopes, NEW p \in Paths, Fetch(scope, p)
  PROVE  IInv'
<1> DEFINE e == Read(scope, p)
<1>1. World' /\ World
  BY DEF IInv, TypeOK, World, Fetch
<1>2. saw' \in Sights /\ AllSeen'
  BY <1>1, LookSees DEF Fetch
<1>3. /\ call'.phase = "done" /\ call'.scope = scope /\ call'.roots = {}
      /\ call'.ids = {} /\ call'.hits = {} /\ call'.due = {}
      /\ call'.shown = IF Readable(e) THEN {[path |-> p, doc |-> e.doc]} ELSE {}
      /\ Readable(e) => call'.result = "ok"
      /\ ~Readable(e) /\ e.kind = "faulty" => call'.result = "internal_error"
      /\ ~Readable(e) /\ e.kind # "faulty" => call'.result = "not_found"
  BY DEF Fetch, NoCall
<1>4. Readable(e) => e.doc \in Offered' /\ e.doc \in Docs \cup Notes
  <2>1. ReadsAreSeen' /\ SightTyped'
    BY <1>1, Sight, PTL
  <2>2. Read(call.scope, p)' = e
    BY <1>3 DEF Fetch, Read, Allowed, Found, Real
  <2> QED
    BY <2>1, <2>2 DEF ReadsAreSeen, SightTyped, Readable
<1>5. e.kind = "faulty" => Fault'
  <2>1. ReadsAreSeen'
    BY <1>1, Sight, PTL
  <2>2. Read(call.scope, p)' = e
    BY <1>3 DEF Fetch, Read, Allowed, Found, Real
  <2> QED
    BY <2>1, <2>2 DEF ReadsAreSeen
<1>6. call' \in Calls
  <2>2. call'.shown \subseteq Hits
    BY <1>3, <1>4 DEF Hits
  <2> HIDE DEF e
  <2>3. call' = [NoCall EXCEPT !.phase = "done", !.scope = scope,
                               !.result = call'.result, !.shown = call'.shown]
    BY DEF Fetch, e, NoCall
  <2>4. call'.result \in {"ok", "internal_error", "not_found"}
    BY <1>3
  <2> QED
    BY <2>2, <2>3, <2>4 DEF NoCall, Calls, Scopes
<1> HIDE DEF e
<1>7. TypeOK'
  BY <1>2, <1>3, <1>6 DEF IInv, TypeOK, Fetch, Sights
<1>8. Stages'
  BY <1>3 DEF Stages, Served
<1>9. SeenAll'
  BY <1>2, <1>3, <1>4, <1>5 DEF SeenAll, AllSeen
<1> QED
  BY <1>7, <1>8, <1>9 DEF IInv

\* The next directory to list is one of those left, and so in the scope.
LEMMA NextRootKeeps ==
  ASSUME IInv, NextRoot
  PROVE  IInv'
<1> DEFINE public == call.roots \cap Public
           d == IF public # {} THEN Min(public) ELSE Min(call.roots)
<1>1. call \in Calls /\ Stages /\ Served /\ Still /\ call.phase = "listing"
  BY DEF IInv, TypeOK, NextRoot, Served, Still
<1>2. d \in call.roots
  <2>1. call.roots \in SUBSET Nat /\ public \in SUBSET Nat
    BY <1>1, Places DEF Calls
  <2> QED
    BY <2>1, Least DEF NextRoot
<1>3. call' = [call EXCEPT !.roots = @ \ {d},
                           !.at = IF state[linked[d]] = "gone" THEN @ ELSE d,
                           !.phase = IF state[linked[d]] = "gone" THEN "listing" ELSE "opening"]
  BY DEF NextRoot
<1> HIDE DEF d
<1>4. call.roots \subseteq Roots(call.scope) /\ call.roots \subseteq Dirs
  BY <1>1 DEF Stages, Calls
<1>5. /\ call' \in Calls
      /\ call'.roots = call.roots \ {d}
      /\ call'.phase \in {"listing", "opening"} /\ (call'.phase = "opening" => call'.at = d)
      /\ call'.scope = call.scope /\ call'.due = call.due /\ call'.ids = call.ids
      /\ call'.hits = call.hits /\ call'.shown = call.shown /\ call'.result = call.result
  BY <1>1, <1>2, <1>3, <1>4 DEF Calls
<1>6. call.hits = {}
  BY <1>1 DEF Stages, NextRoot
<1>7. Stages'
  BY <1>1, <1>2, <1>4, <1>5, <1>6 DEF Stages, Served, Still
<1> QED
  BY <1>1, <1>5, <1>6, <1>7, CallStep DEF IInv, TypeOK, SeenAll

\* A failed search has met a fault of its own, or behind a link of its own.
LEMMA FailKeeps ==
  ASSUME IInv, Served, Still, Fails, Fault \/ FaultBehindLink
  PROVE  IInv'
<1>1. call \in Calls
  BY DEF IInv, TypeOK
<1>2. /\ call'.phase = "done" /\ call'.scope = call.scope /\ call'.roots = {}
      /\ call'.ids = {} /\ call'.hits = {} /\ call'.due = {} /\ call'.shown = {}
      /\ call'.result = "internal_error"
  BY DEF Fails, Answered, NoCall
<1>3. call' \in Calls
  BY <1>1 DEF Fails, Answered, NoCall, Calls
<1>4. Stages'
  BY <1>2 DEF Stages, Served
<1>5. saw.fault \/ saw.behind
  BY DEF IInv, SeenAll
<1> QED
  BY <1>2, <1>3, <1>4, <1>5, CallStep

\* A directory is listed from where its name leads.
LEMMA OpenKeeps ==
  ASSUME IInv, OpenDirectory
  PROVE  IInv'
<1> DEFINE d == linked[call.at]
           entries == {p \in Files : p.dir = d}
<1>1. call \in Calls /\ Stages /\ Served /\ Still /\ call.phase = "opening"
  BY DEF IInv, TypeOK, OpenDirectory, Served, Still
<1>2. call.at \in Roots(call.scope) /\ d \in Reached
  BY <1>1 DEF Stages, Reached
<1>3. CASE state[d] = "there"
  <2>1. call' = [call EXCEPT !.due = entries,
                             !.phase = IF entries = {} THEN "listing" ELSE "walking"]
    BY <1>3 DEF OpenDirectory
  <2>2. entries \subseteq Files /\ \A p \in entries : p.dir \in Reached
    BY <1>2
  <2> HIDE DEF entries
  <2>3. /\ call' \in Calls
        /\ call'.due = entries
        /\ call'.phase \in {"listing", "walking"}
        /\ call'.at = call.at /\ call'.roots = call.roots
        /\ call'.scope = call.scope /\ call'.ids = call.ids
        /\ call'.hits = call.hits /\ call'.shown = call.shown /\ call'.result = call.result
    BY <1>1, <2>1, <2>2 DEF Calls
  <2>4. call.hits = {}
    BY <1>1 DEF Stages
  <2>5. Stages'
    BY <1>1, <1>2, <2>3, <2>4 DEF Stages, Served
  <2> QED
    BY <1>1, <2>2, <2>3, <2>4, <2>5, CallStep DEF IInv, TypeOK, SeenAll
<1>4. CASE state[d] # "there"
  <2>1. Fails
    BY <1>4 DEF OpenDirectory
  <2>2. Fault \/ FaultBehindLink
    BY <1>2, <1>4 DEF Fault, FaultBehindLink, Broken, Reached
  <2> QED
    BY <1>1, <2>1, <2>2, FailKeeps
<1> QED
  BY <1>3, <1>4

\* An entry that is due is passed over, kept for reading, or a fault.
LEMMA WalkKeeps ==
  ASSUME IInv, WalkEntry
  PROVE  IInv'
<1>1. call \in Calls /\ Stages /\ Served /\ Still /\ call.phase = "walking"
  BY DEF IInv, TypeOK, WalkEntry, Served, Still
<1> DEFINE Kinds(p) == {kb[p].kind} \cup (IF state[p.dir] = "gone" THEN {"gone"} ELSE {})
           Walk(p, kind) ==
             IF kind = "misnamed" THEN Fails
             ELSE call' = [call EXCEPT !.due = @ \ {p},
                                       !.phase = IF call.due = {p} THEN "listing" ELSE @,
                                       !.ids = IF kind \in {"text", "faulty"}
                                               THEN @ \cup {[dir |-> call.at, name |-> p.name]}
                                               ELSE @]
<1>2. PICK p \in call.due : \E kind \in Kinds(p) : Walk(p, kind)
  BY DEF WalkEntry
<1>3. PICK kind \in Kinds(p) : Walk(p, kind)
  BY <1>2
<1>4. p \in Files /\ p \in Paths /\ p \in [dir : Nat, name : Nat]
  BY <1>1, Places DEF Calls
<1>5. CASE kind = "misnamed"
  <2>1. kb[p].kind = "misnamed"
    BY <1>3, <1>5
  <2>2. Fault \/ FaultBehindLink
    BY <2>1, <1>3, <1>4 DEF Fault, FaultBehindLink, Broken
  <2> QED
    BY <1>1, <1>3, <1>5, <2>2, FailKeeps
<1>6. CASE kind # "misnamed"
  <2>1. call.at \in Roots(call.scope) /\ call.at \in Nat
    BY <1>1, Places DEF Stages
  <2> DEFINE entry == [dir |-> call.at, name |-> p.name]
             ids == IF kind \in {"text", "faulty"} THEN call.ids \cup {entry} ELSE call.ids
  <2>2. ids \subseteq [dir : Nat, name : Nat]
    BY <1>1, <1>4, <2>1 DEF Calls
  <2>3. call' = [call EXCEPT !.due = @ \ {p},
                             !.phase = IF call.due = {p} THEN "listing" ELSE @,
                             !.ids = ids]
    BY <1>1, <1>3, <1>6 DEF Calls
  <2> HIDE DEF ids
  <2>4. /\ call' \in Calls
        /\ call'.due = call.due \ {p} /\ call'.ids = ids
        /\ call'.phase \in {"listing", "walking"}
        /\ call'.at = call.at /\ call'.roots = call.roots /\ call'.scope = call.scope
        /\ call'.hits = call.hits /\ call'.shown = call.shown /\ call'.result = call.result
    BY <1>1, <2>2, <2>3 DEF Calls
  <2>5. call.hits = {}
    BY <1>1 DEF Stages
  <2>6. Stages'
    BY <1>1, <2>1, <2>4, <2>5 DEF Stages, Served
  <2> QED
    BY <1>1, <2>4, <2>5, <2>6, CallStep DEF IInv, TypeOK, SeenAll
<1> QED
  BY <1>5, <1>6

\* A file that is read is a hit if it matches; what it holds is on offer.
LEMMA ReadKeeps ==
  ASSUME IInv, ReadNext
  PROVE  IInv'
<1>1. call \in Calls /\ Stages /\ Served /\ Still /\ World
      /\ call.phase = "listing" /\ call.roots = {}
  BY DEF IInv, TypeOK, ReadNext, Reading, Served, Still, World
<1>2. PICK p \in call.ids :
        LET e == Read(call.scope, p)
        IN IF e.kind = "faulty" THEN Fails
           ELSE call' = [call EXCEPT !.ids = @ \ {p},
                                     !.hits = IF Readable(e) THEN @ \cup Score(p, e) ELSE @]
  BY DEF ReadNext
<1> DEFINE e == Read(call.scope, p)
           new == IF Readable(e) THEN Score(p, e) ELSE {}
<1>3. /\ Readable(e) => e.doc \in Offered /\ e.doc \in Docs \cup Notes /\ p \in Paths
      /\ e.kind = "faulty" => Fault
  BY <1>1, Sight DEF ReadsAreSeen, SightTyped
<1>4. CASE e.kind = "faulty"
  BY <1>1, <1>2, <1>3, <1>4, FailKeeps
<1>5. CASE e.kind # "faulty"
  <2>2. /\ new \subseteq Hits
        /\ \A h \in new : h.path = p /\ ScoreOf[h.doc] > 0 /\ h.doc \in saw.offered
        /\ \A g, h \in new : g = h
    <3>1. CASE new = {}
      BY <3>1
    <3>2. CASE new = {[path |-> p, doc |-> e.doc]} /\ Readable(e) /\ ScoreOf[e.doc] > 0
      <4>1. e.doc \in saw.offered
        BY <1>1, <1>3, <3>2 DEF IInv, SeenAll
      <4> HIDE DEF e
      <4> QED
        BY <3>2, <4>1, <1>3 DEF Hits
    <3> QED
      BY <3>1, <3>2 DEF Score
  <2>3. call' = [call EXCEPT !.ids = @ \ {p}, !.hits = @ \cup new]
    BY <1>1, <1>2, <1>5 DEF Calls
  <2> HIDE DEF new
  <2>4. /\ call' \in Calls
        /\ call'.ids = call.ids \ {p} /\ call'.hits = call.hits \cup new
        /\ call'.phase = "listing" /\ call'.due = call.due
        /\ call'.at = call.at /\ call'.roots = call.roots /\ call'.scope = call.scope
        /\ call'.shown = call.shown /\ call'.result = call.result
    BY <1>1, <2>2, <2>3 DEF Calls
  <2>5. Stages'
    BY <1>1, <2>2, <2>4 DEF Stages, Served
  <2>6. \A g, h \in call'.hits : g.path = h.path => g = h
    <3>1. \A h \in call.hits : h.path # p
      BY <1>1 DEF Stages
    <3>2. \A g, h \in call.hits : g.path = h.path => g = h
      BY DEF IInv, TypeOK
    <3> QED
      BY <3>1, <3>2, <2>2, <2>4
  <2> QED
    BY <1>1, <2>2, <2>4, <2>5, <2>6, CallStep DEF IInv, TypeOK, SeenAll
<1> QED
  BY <1>4, <1>5

\* The answer shows hits only.
LEMMA AnswerKeeps ==
  ASSUME IInv, AnswerSearch
  PROVE  IInv'
<1> DEFINE shown == {h \in call.hits : Fits(call.hits, h, call.limit)}
<1>1. call \in Calls /\ Stages /\ Served /\ Still /\ call.phase = "listing"
  BY DEF IInv, TypeOK, AnswerSearch, Reading, Served, Still
<1>2. Answered("ok", shown, shown # call.hits) /\ shown \subseteq call.hits
  BY DEF AnswerSearch
<1> HIDE DEF shown
<1>3. /\ call'.phase = "done" /\ call'.scope = call.scope /\ call'.roots = {}
      /\ call'.ids = {} /\ call'.hits = {} /\ call'.due = {} /\ call'.shown = shown
      /\ call'.result = "ok"
  BY <1>2 DEF Answered, NoCall
<1>4. call' \in Calls
  BY <1>1, <1>2 DEF Answered, NoCall, Calls
<1>5. Stages'
  BY <1>3 DEF Stages, Served
<1> QED
  BY <1>1, <1>2, <1>3, <1>4, <1>5, CallStep DEF IInv, SeenAll

\* Nothing is served after the answer.
LEMMA ReturnKeeps ==
  ASSUME IInv, Return
  PROVE  IInv'
<1>1. /\ call'.phase = "idle" /\ call'.roots = {} /\ call'.hits = {} /\ call'.shown = {}
      /\ call'.result = "none"
  BY DEF Return, NoCall
<1>2. call' \in Calls
  BY DEF Return, NoCall, Calls, Scopes
<1>3. TypeOK'
  BY <1>1, <1>2 DEF IInv, TypeOK, Return, NothingSeen
<1>4. Stages'
  BY <1>1 DEF Stages, Served
<1>5. SeenAll'
  BY <1>1 DEF SeenAll, Served
<1> QED
  BY <1>3, <1>4, <1>5 DEF IInv

----------------------------------------------------------------------------
(* The owner and append_note.                                              *)

\* A change to the knowledge base keeps the invariant if it is typed.
LEMMA ChangeKeeps ==
  ASSUME IInv, UNCHANGED call, Watch, World', kb'[Index].kind # "misnamed",
         edits' \in 0 .. MaxEdits, sorted' \subseteq Notes
  PROVE  IInv'
<1>1. Stages'
  BY DEF IInv, Stages, Served
<1>2. CASE Served
  <2>1. /\ saw' \in Sights /\ AllSeen' /\ saw.offered \subseteq saw'.offered
        /\ (saw.fault => saw'.fault) /\ (saw.behind => saw'.behind)
    BY <1>2, WatchSees DEF IInv
  <2>2. TypeOK'
    BY <2>1 DEF IInv, TypeOK, World, Sights
  <2>3. SeenAll'
    BY <1>2, <2>1 DEF IInv, SeenAll, AllSeen
  <2> QED
    BY <1>1, <2>2, <2>3 DEF IInv
<1>3. CASE ~Served
  <2>1. UNCHANGED saw
    BY <1>3 DEF Watch, Served
  <2>2. TypeOK'
    BY <2>1 DEF IInv, TypeOK, World
  <2>3. SeenAll'
    BY <1>3 DEF SeenAll, Served
  <2> QED
    BY <1>1, <2>2, <2>3 DEF IInv
<1> QED
  BY <1>2, <1>3

\* The owner writes a file.
LEMMA PutKeeps ==
  ASSUME IInv, NEW p \in Paths, OwnerPuts(p)
  PROVE  IInv'
<1>1. PICK e \in OwnerEntries : /\ p = Index => e.kind # "misnamed"
                                /\ kb' = [kb EXCEPT ![p] = e]
  BY DEF OwnerPuts
<1>2. e \in Entries
  BY OwnerWritesDocs
<1>3. World' /\ kb'[Index].kind # "misnamed"
  BY <1>1, <1>2, Places DEF IInv, TypeOK, World, OwnerPuts
<1>4. edits' \in 0 .. MaxEdits
  BY ContentAssumption DEF IInv, TypeOK, OwnerPuts, Edit
<1> QED
  BY <1>3, <1>4, ChangeKeeps DEF IInv, TypeOK, OwnerPuts

\* The owner moves a file.
LEMMA MoveKeeps ==
  ASSUME IInv, NEW p \in Paths, NEW q \in Paths, OwnerMoves(p, q)
  PROVE  IInv'
<1>1. kb' = [kb EXCEPT ![q] = kb[p], ![p] = Gone] /\ Readable(kb[p])
  BY DEF OwnerMoves
<1>2. kb \in [Paths -> Entries] /\ kb[Index].kind # "misnamed"
  BY DEF IInv, TypeOK
<1>3. World'
  BY <1>1, <1>2, TextFields DEF IInv, TypeOK, World, OwnerMoves
<1>4. kb'[Index].kind # "misnamed"
  BY <1>1, <1>2, TextFields, Places DEF Readable
<1>5. edits' \in 0 .. MaxEdits
  BY ContentAssumption DEF IInv, TypeOK, OwnerMoves, Edit
<1>6. sorted' \subseteq Notes
  BY DEF IInv, TypeOK, OwnerMoves
<1> QED
  BY <1>3, <1>4, <1>5, <1>6, ChangeKeeps DEF OwnerMoves

\* The owner changes a directory.
LEMMA DirectoryKeeps ==
  ASSUME IInv, NEW d \in Dirs, OwnerChangesDirectory(d)
  PROVE  IInv'
<1>1. World' /\ UNCHANGED <<kb, sorted, call>> /\ Watch
  BY DEF IInv, TypeOK, World, OwnerChangesDirectory
<1>2. edits' \in 0 .. MaxEdits
  BY ContentAssumption DEF IInv, TypeOK, OwnerChangesDirectory, Edit
<1> QED
  BY <1>1, <1>2, ChangeKeeps DEF IInv, TypeOK

\* A note is filed.
LEMMA FileKeeps ==
  ASSUME IInv, NEW p \in Paths, FileNote(p)
  PROVE  IInv'
<1>1. PICK d \in Notes :
        /\ kb' = [kb EXCEPT ![p] = Text(d)]
        /\ sorted' = IF inboxAt = InboxDir THEN sorted ELSE sorted \cup {d}
  BY DEF FileNote
<1>2. World'
  BY <1>1, TextFields DEF IInv, TypeOK, World, FileNote
<1>3. kb'[Index].kind # "misnamed"
  BY <1>1, TextFields, Places DEF IInv, TypeOK
<1>4. sorted' \subseteq Notes
  BY <1>1 DEF IInv, TypeOK
<1> QED
  BY <1>2, <1>3, <1>4, ChangeKeeps DEF IInv, TypeOK, FileNote

\* The inbox is renamed.
LEMMA MoveInboxKeeps ==
  ASSUME IInv, NEW d \in Dirs, OwnerMovesInbox(d)
  PROVE  IInv'
<1>1. kb \in [Paths -> Entries] /\ kb[Index].kind # "misnamed"
  BY DEF IInv, TypeOK
<1>2. kb' \in [Paths -> Entries]
  BY <1>1, TextFields, Places DEF OwnerMovesInbox
<1>3. kb'[Index] = kb[Index]
  BY Places DEF OwnerMovesInbox, Dirs
<1>4. World'
  BY <1>2 DEF IInv, TypeOK, World, OwnerMovesInbox
<1>5. edits' \in 0 .. MaxEdits
  BY ContentAssumption DEF IInv, TypeOK, OwnerMovesInbox, Edit
<1>6. sorted' \subseteq Notes
  BY DEF IInv, TypeOK, OwnerMovesInbox, NotesIn
<1> QED
  BY <1>1, <1>3, <1>4, <1>5, <1>6, ChangeKeeps DEF OwnerMovesInbox

----------------------------------------------------------------------------
(* Every step.                                                             *)

\* Of a knowledge base of documents, with nothing served.
LEMMA InitHolds == Init => IInv
<1> SUFFICES ASSUME Init PROVE IInv
  OBVIOUS
<1>1. kb[Index].kind # "misnamed"
  BY TextFields, Places DEF Init
<1>2. kb \in [Paths -> Entries]
  BY TextFields DEF Init
<1>3. call \in Calls /\ saw \in Sights
  BY DEF Init, NoCall, Calls, Scopes, NothingSeen, Sights
<1>4. /\ call.phase = "idle" /\ call.roots = {} /\ call.hits = {} /\ call.shown = {}
      /\ call.result = "none"
  BY DEF Init, NoCall
<1>5. inboxAt \in Dirs
  BY DEF Init, Dirs
<1>6. TypeOK
  BY <1>1, <1>2, <1>3, <1>4, <1>5, ContentAssumption DEF Init, TypeOK, Sights
<1> QED
  BY <1>4, <1>6 DEF IInv, Stages, SeenAll, Served

\* Every step keeps it.
LEMMA NextKeeps ==
  ASSUME IInv, [Next]_vars
  PROVE  IInv'
<1>1. CASE UNCHANGED vars
  BY <1>1 DEF vars, IInv, TypeOK, Stages, SeenAll, Served, Offered, Fault, FaultBehindLink,
              Broken, Found, Allowed, Readable, Real
<1>2. CASE Next
  BY <1>2, BeginKeeps, FetchKeeps, NextRootKeeps, OpenKeeps, WalkKeeps, ReadKeeps,
     AnswerKeeps, ReturnKeeps, PutKeeps, FileKeeps, MoveKeeps, DirectoryKeeps,
     MoveInboxKeeps DEF Next
<1> QED
  BY <1>1, <1>2

\* The invariant holds throughout.
LEMMA Invariance == Spec => []IInv
  BY InitHolds, NextKeeps, PTL DEF Spec

\* The knowledge base, the call and what has been seen keep their types,
\* whatever the owner changes while candidate_ids walks and the files are read.
THEOREM TypeCorrectness == Spec => []TypeOK
<1>1. IInv => TypeOK
  BY DEF IInv
<1> QED
  BY <1>1, Invariance, PTL

\* What search and fetch show lay in the scope of the call, not behind a link,
\* while it was served: read_limited opens each file beneath the root and in
\* the scope again, whatever the listing found.
THEOREM ShownIsInScope == Spec => []Confined
<1>1. IInv => Confined
  BY DEF IInv, SeenAll, Served, Confined
<1> QED
  BY <1>1, Invariance, PTL

\* A call answers internal_error only for something wrong in a directory of its
\* scope, or in one that a link in the place of such a directory leads to:
\* candidate_ids begins no walk anywhere else, and read_limited follows no link.
THEOREM ScopesFailApart == Spec => []FailsForItsOwn
<1>1. IInv => FailsForItsOwn
  BY DEF IInv, SeenAll, Served, FailsForItsOwn
<1> QED
  BY <1>1, Invariance, PTL

----------------------------------------------------------------------------
(* Notes.                                                                  *)

\* What INBOX_ROOT is for: it leads to no directory of a scope.
InboxApart == InboxDir \notin Public \cup Private

NInv == NotesInInbox /\ HitsSorted

\* What a call reads in its scope is no note, unless it has been sorted.
LEMMA NotesOutOfReach ==
  ASSUME InboxApart, World, NotesInInbox, NEW scope, NEW p, Readable(Read(scope, p)),
         Read(scope, p).doc \in Notes
  PROVE  Read(scope, p).doc \in sorted
<1>1. Allowed(scope, p) /\ Read(scope, p) = Found(p)
  BY DEF Read, Readable, Gone
<1>2. p \in Paths /\ Found(p) = kb[p]
  BY <1>1, FoundIsThere
<1>3. p.dir # InboxDir
  BY <1>1, Places DEF Allowed, InboxApart, Dirs
<1> QED
  BY <1>1, <1>2, <1>3 DEF NotesInInbox

\* Notes leave the inbox by the owner's hand only, who has then sorted them.
LEMMA NotesStayInInbox ==
  ASSUME TypeOK, NotesInInbox, [Next]_vars
  PROVE  NotesInInbox' /\ sorted \subseteq sorted'
<1>1. CASE UNCHANGED <<kb, sorted>>
  BY <1>1 DEF NotesInInbox
<1>2. ASSUME NEW p \in Paths, OwnerPuts(p)
      PROVE  NotesInInbox' /\ sorted \subseteq sorted'
  <2>1. PICK e \in OwnerEntries : kb' = [kb EXCEPT ![p] = e]
    BY <1>2 DEF OwnerPuts
  <2>2. e.doc \notin Notes
    BY OwnerWritesDocs, ContentAssumption
  <2> QED
    BY <1>2, <2>1, <2>2 DEF OwnerPuts, NotesInInbox, TypeOK
<1>3. ASSUME NEW p \in Paths, FileNote(p)
      PROVE  NotesInInbox' /\ sorted \subseteq sorted'
  <2>1. PICK d \in Notes :
          /\ kb' = [kb EXCEPT ![p] = Text(d)]
          /\ sorted' = IF inboxAt = InboxDir THEN sorted ELSE sorted \cup {d}
    BY <1>3 DEF FileNote
  <2>2. p.dir # InboxDir => d \in sorted'
    BY <1>3, <2>1 DEF FileNote
  <2>3. kb'[p].doc = d /\ \A q \in Paths \ {p} : kb'[q] = kb[q]
    BY <2>1, TextFields DEF TypeOK
  <2> QED
    BY <2>1, <2>2, <2>3 DEF NotesInInbox
<1>4. ASSUME NEW p \in Paths, NEW q \in Paths, OwnerMoves(p, q)
      PROVE  NotesInInbox' /\ sorted \subseteq sorted'
  <2>1. kb' = [kb EXCEPT ![q] = kb[p], ![p] = Gone] /\ p # q /\ Gone.doc \notin Notes
    BY <1>4, TextFields, ContentAssumption DEF OwnerMoves
  <2>2. /\ sorted \subseteq sorted'
        /\ kb[p].doc \in Notes /\ q.dir # InboxDir => kb[p].doc \in sorted'
    BY <1>4 DEF OwnerMoves
  <2>3. kb'[q] = kb[p] /\ kb'[p] = Gone /\ \A r \in Paths \ {p, q} : kb'[r] = kb[r]
    BY <2>1 DEF TypeOK
  <2> QED
    BY <2>1, <2>2, <2>3 DEF NotesInInbox
<1>5. ASSUME NEW d \in Dirs, OwnerChangesDirectory(d)
      PROVE  UNCHANGED <<kb, sorted>>
  BY <1>5 DEF OwnerChangesDirectory
<1>6. ASSUME NEW d \in Dirs, OwnerMovesInbox(d)
      PROVE  NotesInInbox' /\ sorted \subseteq sorted'
  <2>1. sorted' = sorted \cup NotesIn(InboxDir)
    BY <1>6 DEF OwnerMovesInbox
  <2>2. ASSUME NEW p \in Paths, kb'[p].doc \in Notes, p.dir # InboxDir
        PROVE  kb'[p].doc \in sorted'
    <3>1. CASE p.dir # d
      <4>1. kb'[p] = kb[p]
        BY <1>6, <2>2, <3>1 DEF OwnerMovesInbox
      <4> QED
        BY <2>1, <2>2, <4>1 DEF NotesInInbox
    <3>2. CASE p.dir = d
      <4>1. Gone.doc \notin Notes
        BY TextFields, ContentAssumption
      <4>2. /\ Beside(p, InboxDir) \in Files
            /\ kb'[p] = kb[Beside(p, InboxDir)]
        BY <1>6, <2>2, <3>2, <4>1 DEF OwnerMovesInbox
      <4>3. Beside(p, InboxDir).dir = InboxDir
        BY DEF Beside
      <4> QED
        BY <2>1, <2>2, <4>2, <4>3 DEF NotesIn
    <3> QED
      BY <3>1, <3>2
  <2> QED
    BY <2>1, <2>2 DEF NotesInInbox
<1> QED
  BY <1>1, <1>2, <1>3, <1>4, <1>5, <1>6 DEF Next, vars, BeginSearch, Fetch, NextRoot,
     OpenDirectory, WalkEntry, ReadNext, AnswerSearch, Return

\* A call finds what it reads, and shows what it has found.
LEMMA HitsStaySorted ==
  ASSUME InboxApart, TypeOK, NInv, [Next]_vars
  PROVE  HitsSorted'
<1>1. World /\ call \in Calls /\ sorted \subseteq sorted'
  BY NotesStayInInbox DEF TypeOK, World, NInv
<1>2. ASSUME call'.hits \cup call'.shown \subseteq call.hits \cup call.shown
      PROVE  HitsSorted'
  BY <1>1, <1>2 DEF NInv, HitsSorted
<1>3. ASSUME call'.hits = {}, call'.shown = {}
      PROVE  HitsSorted'
  BY <1>3 DEF HitsSorted
<1>4. ASSUME NEW scope, NEW limit, BeginSearch(scope, limit)
      PROVE  call'.hits = {} /\ call'.shown = {}
  BY <1>4 DEF BeginSearch, NoCall
<1>5. /\ Return => call'.hits = {} /\ call'.shown = {}
      /\ Fails => call'.hits = {} /\ call'.shown = {}
  <2>1. Return => call'.hits = {} /\ call'.shown = {}
    BY DEF Return, NoCall
  <2>2. Fails => call'.hits = {} /\ call'.shown = {}
    BY DEF Fails, Answered, NoCall
  <2> QED
    BY <2>1, <2>2
<1>6. ASSUME NEW scope, NEW p, Fetch(scope, p)
      PROVE  HitsSorted'
  <2>1. call'.hits = {} /\ call'.shown = IF Readable(Read(scope, p))
                                         THEN {[path |-> p, doc |-> Read(scope, p).doc]} ELSE {}
    BY <1>6 DEF Fetch, NoCall
  <2>2. Readable(Read(scope, p)) /\ Read(scope, p).doc \in Notes => Read(scope, p).doc \in sorted
    BY <1>1, NotesOutOfReach DEF NInv
  <2> QED
    BY <1>1, <2>1, <2>2 DEF HitsSorted
<1>7. NextRoot => UNCHANGED <<call.hits, call.shown>>
  BY <1>1 DEF NextRoot, Calls
<1>8. OpenDirectory => UNCHANGED <<call.hits, call.shown>> \/ Fails
  BY <1>1 DEF OpenDirectory, Calls
<1>9. WalkEntry => UNCHANGED <<call.hits, call.shown>> \/ Fails
  BY <1>1 DEF WalkEntry, Calls
<1>10. ASSUME ReadNext PROVE HitsSorted'
  <2>1. PICK p \in call.ids :
          LET e == Read(call.scope, p)
          IN IF e.kind = "faulty" THEN Fails
             ELSE call' = [call EXCEPT !.ids = @ \ {p},
                                       !.hits = IF Readable(e) THEN @ \cup Score(p, e) ELSE @]
    BY <1>10 DEF ReadNext
  <2> DEFINE e == Read(call.scope, p)
  <2>2. CASE e.kind = "faulty"
    BY <2>1, <2>2, <1>3, <1>5
  <2>3. CASE e.kind # "faulty" /\ ~Readable(e)
    <3>1. UNCHANGED <<call.hits, call.shown>>
      BY <1>1, <2>1, <2>3 DEF Calls
    <3> QED
      BY <3>1, <1>2
  <2>4. CASE e.kind # "faulty" /\ Readable(e)
    <3>1. call'.shown = call.shown /\ call'.hits = call.hits \cup Score(p, e)
      BY <1>1, <2>1, <2>4 DEF Calls
    <3>2. e.doc \in Notes => e.doc \in sorted
      BY <1>1, <2>4, NotesOutOfReach DEF NInv
    <3>3. \A h \in Score(p, e) : h.doc = e.doc
      BY DEF Score
    <3> HIDE DEF e
    <3> QED
      BY <1>1, <3>1, <3>2, <3>3 DEF NInv, HitsSorted
  <2> QED
    BY <2>2, <2>3, <2>4
<1>11. AnswerSearch => call'.hits \cup call'.shown \subseteq call.hits
  <2> SUFFICES ASSUME AnswerSearch PROVE call'.hits \cup call'.shown \subseteq call.hits
    OBVIOUS
  <2>1. PICK shown : Answered("ok", shown, shown # call.hits) /\ shown \subseteq call.hits
    BY DEF AnswerSearch
  <2> QED
    BY <2>1 DEF Answered, NoCall
<1>12. ASSUME UNCHANGED call PROVE HitsSorted'
  BY <1>2, <1>12
<1> QED
  BY <1>2, <1>3, <1>4, <1>5, <1>6, <1>7, <1>8, <1>9, <1>10, <1>11, <1>12
     DEF Next, vars, OwnerPuts, FileNote, OwnerMoves, OwnerChangesDirectory, OwnerMovesInbox

\* No note is shown by search or fetch before the owner has sorted it, as long
\* as INBOX_ROOT leads to none of the directories that hold documents: what
\* append_note promises its caller.
THEOREM NotesStayUnread == InboxApart => (Spec => []NotesUnread)
<1> SUFFICES ASSUME InboxApart PROVE Spec => []NotesUnread
  OBVIOUS
<1>1. Init => NInv
  <2> SUFFICES ASSUME Init PROVE NInv
    OBVIOUS
  <2>1. \A p \in Paths : kb[p].doc \notin Notes
    BY TextFields, ContentAssumption DEF Init
  <2>2. call.hits = {} /\ call.shown = {}
    BY DEF Init, NoCall
  <2> QED
    BY <2>1, <2>2 DEF NInv, NotesInInbox, HitsSorted
<1>2. TypeOK /\ NInv /\ [Next]_vars => NInv'
  BY NotesStayInInbox, HitsStaySorted DEF NInv
<1>3. NInv => NotesUnread
  BY DEF NInv, HitsSorted, NotesUnread
<1> QED
  BY <1>1, <1>2, <1>3, TypeCorrectness, PTL DEF Spec

----------------------------------------------------------------------------
(* Order and size of the results.                                          *)

\* Results are in one order, by score and then by id.
LEMMA BetterIsAnOrder ==
  ASSUME NEW g \in Hits, NEW h \in Hits, NEW k \in Hits
  PROVE  /\ g.path # h.path => Better(g, h) \/ Better(h, g)
         /\ Better(g, h) /\ Better(h, k) => Better(g, k)
<1>1. \A a \in Hits : /\ ScoreOf[a.doc] \in Nat /\ a.path.dir \in Nat /\ a.path.name \in Nat
                      /\ a.path = [dir |-> a.path.dir, name |-> a.path.name]
  BY Places, ContentAssumption DEF Hits
<1>2. PICK sg \in Nat, sh \in Nat, sk \in Nat :
        sg = ScoreOf[g.doc] /\ sh = ScoreOf[h.doc] /\ sk = ScoreOf[k.doc]
  BY <1>1
<1>3. PICK dg \in Nat, dh \in Nat, dk \in Nat, ng \in Nat, nh \in Nat, nk \in Nat :
        /\ dg = g.path.dir /\ dh = h.path.dir /\ dk = k.path.dir
        /\ ng = g.path.name /\ nh = h.path.name /\ nk = k.path.name
  BY <1>1
<1>4. g.path # h.path => dg # dh \/ ng # nh
  BY <1>1, <1>3
<1> QED
  BY <1>2, <1>3, <1>4 DEF Better, Before

\* A response with more results is no smaller.
LEMMA ResponseGrows ==
  ASSUME NEW hits \in SUBSET Hits, IsFiniteSet(hits), NEW S \in SUBSET hits
  PROVE  ResponseSize(S) <= ResponseSize(hits)
<1> DEFINE Wrong == {T \in SUBSET hits : S \subseteq T /\ ~(ResponseSize(S) <= ResponseSize(T))}
           R == StrictSubsetOrdering(hits)
<1>1. IsWellFoundedOn(R, SUBSET hits)
  <2>1. IsWellFoundedOn(R, FiniteSubsetsOf(hits))
    BY FS_StrictSubsetOrderingWellFounded
  <2>2. FiniteSubsetsOf(hits) = SUBSET hits
    BY FS_FiniteSubsetsOfFinite
  <2> QED
    BY <2>1, <2>2
<1>2. \A T, U \in SUBSET hits : T \subseteq U /\ T # U => <<T, U>> \in R
  BY DEF StrictSubsetOrdering
<1> HIDE DEF R
<1>3. Wrong = {}
  <2> SUFFICES ASSUME Wrong # {} PROVE FALSE
    OBVIOUS
  <2>1. Wrong \subseteq SUBSET hits
    OBVIOUS
  <2> HIDE DEF Wrong
  <2>2. PICK T \in Wrong : \A U \in Wrong : <<U, T>> \notin R
    BY <1>1, <2>1, WFMin
  <2>3. T \in SUBSET hits /\ S \subseteq T /\ ~(ResponseSize(S) <= ResponseSize(T))
    BY DEF Wrong
  <2>4. ResponseSize(S) \in Nat /\ ResponseSize(T) \in Nat
    BY <2>3, ResponseAssumption
  <2>5. PICK h \in T : h \notin S
    BY <2>3, <2>4
  <2>6. T \ {h} \in SUBSET hits /\ S \subseteq T \ {h} /\ T \ {h} # T
    BY <2>3, <2>5
  <2>7. T \ {h} \notin Wrong
    BY <1>2, <2>2, <2>3, <2>6
  <2>8. ResponseSize(S) <= ResponseSize(T \ {h})
    BY <2>6, <2>7 DEF Wrong
  <2>9. ResponseSize(T \ {h}) <= ResponseSize(T) /\ ResponseSize(T \ {h}) \in Nat
    BY <2>3, <2>5, <2>6, ResponseAssumption
  <2> QED
    BY <2>3, <2>4, <2>8, <2>9
<1>4. hits \notin Wrong
  BY <1>3
<1> QED
  BY <1>4

\* A result that fits lets in all better ones.
LEMMA BetterFitsToo ==
  ASSUME NEW hits \in SUBSET Hits, IsFiniteSet(hits), NEW limit \in Nat,
         NEW g \in hits, NEW h \in hits, Better(h, g), Fits(hits, g, limit)
  PROVE  Fits(hits, h, limit)
<1>1. UpTo(hits, h) \subseteq UpTo(hits, g) /\ UpTo(hits, g) \subseteq hits
  BY BetterIsAnOrder DEF UpTo
<1>2. IsFiniteSet(UpTo(hits, g)) /\ IsFiniteSet(UpTo(hits, h))
  BY <1>1, FS_Subset
<1>3. Cardinality(UpTo(hits, h)) <= Cardinality(UpTo(hits, g))
  BY <1>1, <1>2, FS_Subset
<1>4. Cardinality(UpTo(hits, h)) \in Nat /\ Cardinality(UpTo(hits, g)) \in Nat
  BY <1>2, FS_CardinalityType
<1>5. ResponseSize(UpTo(hits, h)) <= ResponseSize(UpTo(hits, g))
  BY <1>1, <1>2, ResponseGrows
<1>6. /\ ResponseSize(UpTo(hits, h)) \in Nat /\ ResponseSize(UpTo(hits, g)) \in Nat
      /\ MaxResponse \in Nat
  BY <1>1, ResponseAssumption, ContentAssumption
<1> QED
  BY <1>3, <1>4, <1>5, <1>6 DEF Fits

----------------------------------------------------------------------------
(* What a search leaves out.                                               *)

\* A match on its way into the answer: its directory is still to be listed, or
\* opened, or walked; or it is to be read, or has been.
OnItsWay(hit) ==
  \/ hit.path.dir \in call.roots
  \/ call.phase = "opening" /\ call.at = hit.path.dir
  \/ call.phase = "walking" /\ call.at = hit.path.dir /\ hit.path \in call.due
  \/ hit.path \in call.ids
  \/ hit \in call.hits

\* No match that has stayed where it was is lost by a search.
NoneLost ==
  call.phase \in {"listing", "opening", "walking"} =>
    \A hit \in saw.steady : ScoreOf[hit.doc] > 0 => OnItsWay(hit)

SteadyListed == Served => saw.steady \subseteq Listed

LInv == SteadyListed /\ NoneLost /\ IsFiniteSet(call.hits) /\ NothingBetterLeftOut

\* What is listed is a text that opens, in a directory of the scope.
LEMMA ListedFacts ==
  ASSUME World, NEW hit \in Listed
  PROVE  /\ hit \in Hits /\ hit = [path |-> hit.path, doc |-> kb[hit.path].doc]
         /\ Allowed(call.scope, hit.path) /\ Found(hit.path) = kb[hit.path]
         /\ kb[hit.path].kind = "text"
         /\ hit.path # Index => /\ hit.path \in Files
                                /\ hit.path.dir \in Roots(call.scope)
                                /\ linked[hit.path.dir] = hit.path.dir
                                /\ state[hit.path.dir] = "there"
<1>1. hit \in Hits
  BY Sight DEF SightTyped
<1>2. PICK p \in Paths : /\ hit = [path |-> p, doc |-> kb[p].doc]
                         /\ Allowed(call.scope, p) /\ Found(p).kind = "text"
  BY DEF Listed
<1>3. hit.path = p
  BY <1>2
<1>4. Real(p) /\ Found(p) = kb[p]
  BY <1>2, FoundIsThere DEF Readable
<1>5. p # Index => /\ p \in Files /\ p.dir \in Roots(call.scope)
                   /\ linked[p.dir] = p.dir /\ state[p.dir] = "there"
  BY <1>2, <1>4 DEF Paths, Allowed, Real, Found, Gone
<1> QED
  BY <1>1, <1>2, <1>3, <1>4, <1>5

\* The same of all that is listed.
ListedInScope ==
  \A hit \in Listed : Allowed(call.scope, hit.path) /\ kb[hit.path].kind = "text"

\* It holds of any knowledge base.
LEMMA ListedLiesInScope == World => ListedInScope
  BY ListedFacts DEF ListedInScope

\* What has stayed where it was is listed now.
LEMMA SteadyStaysListed ==
  ASSUME TypeOK, SteadyListed, [Next]_vars
  PROVE  SteadyListed'
<1>1. ASSUME Look PROVE SteadyListed'
  BY <1>1 DEF Look, SteadyListed
<1>2. ASSUME Watch, UNCHANGED call PROVE SteadyListed'
  <2>1. CASE Served
    <3>1. saw' = [offered |-> saw.offered \cup Offered', steady |-> saw.steady \cap Listed',
                  fault |-> saw.fault \/ Fault', behind |-> saw.behind \/ FaultBehindLink']
      BY <1>2, <2>1 DEF Watch, Served
    <3>2. saw'.steady = saw.steady \cap Listed'
      BY <3>1
    <3> QED
      BY <3>2 DEF SteadyListed
  <2>2. CASE ~Served
    BY <1>2, <2>2 DEF SteadyListed, Served
  <2> QED
    BY <2>1, <2>2
<1>3. ASSUME Still, Served, call'.scope = call.scope PROVE SteadyListed'
  <2>1. Listed' = Listed
    BY <1>3 DEF Still, Listed, Found, Allowed, Real
  <2> QED
    BY <2>1, <1>3 DEF SteadyListed, Still
<1>4. ASSUME Return PROVE SteadyListed'
  BY <1>4 DEF Return, NoCall, SteadyListed, Served
<1>5. CASE UNCHANGED vars
  BY <1>5 DEF vars, SteadyListed, Served, Listed, Found, Allowed, Real
<1>6. call \in Calls
  BY DEF TypeOK
<1>7. ASSUME NextRoot \/ OpenDirectory \/ WalkEntry \/ ReadNext \/ AnswerSearch
      PROVE  Still /\ Served /\ call'.scope = call.scope
  <2>1. Still /\ Served
    BY <1>7 DEF NextRoot, OpenDirectory, WalkEntry, ReadNext, AnswerSearch, Reading, Still, Served
  <2>2. \A result, shown, truncated : Answered(result, shown, truncated) => call'.scope = call.scope
    BY DEF Answered, NoCall
  <2>3. Fails => call'.scope = call.scope
    BY <2>2 DEF Fails
  <2>4. NextRoot => call'.scope = call.scope
    BY <1>6 DEF NextRoot, Calls
  <2>5. OpenDirectory => call'.scope = call.scope
    BY <1>6, <2>3 DEF OpenDirectory, Calls
  <2>6. WalkEntry => call'.scope = call.scope
    BY <1>6, <2>3 DEF WalkEntry, Calls
  <2>7. ReadNext => call'.scope = call.scope
    BY <1>6, <2>3 DEF ReadNext, Calls
  <2>8. AnswerSearch => call'.scope = call.scope
    BY <2>2 DEF AnswerSearch
  <2> QED
    BY <1>7, <2>1, <2>4, <2>5, <2>6, <2>7, <2>8
<1> QED
  BY <1>1, <1>2, <1>3, <1>4, <1>5, <1>7 DEF Next, BeginSearch, Fetch, OwnerPuts, FileNote,
     OwnerMoves, OwnerChangesDirectory, OwnerMovesInbox

\* A search begins with the directories of its scope and INDEX.md before it.
LEMMA NoneLostAtFirst ==
  ASSUME World', NEW scope, NEW limit, BeginSearch(scope, limit)
  PROVE  NoneLost' /\ call'.hits = {} /\ call'.phase = "listing"
<1>1. /\ call'.phase = "listing" /\ call'.scope = scope /\ call'.roots = Roots(scope)
      /\ call'.ids = IF IndexIsFile THEN {Index} ELSE {}
      /\ call'.hits = {}
  BY DEF BeginSearch, NoCall
<1>2. saw'.steady = Listed'
  BY DEF BeginSearch, Look
<1>3. ASSUME NEW hit \in Listed'
      PROVE  hit.path.dir \in call'.roots \/ hit.path \in call'.ids
  <2>1. (World => ListedInScope)'
    BY ListedLiesInScope, PTL
  <2>2. Allowed(call'.scope, hit.path) /\ kb'[hit.path].kind = "text"
    BY <2>1, <1>3 DEF ListedInScope, Allowed
  <2>3. CASE hit.path = Index
    <3>1. kb[Index].kind = "text"
      BY <2>2, <2>3 DEF BeginSearch
    <3> QED
      BY <1>1, <2>3, <3>1 DEF IndexIsFile
  <2>4. CASE hit.path # Index
    BY <1>1, <2>2, <2>4 DEF Allowed
  <2> QED
    BY <2>3, <2>4
<1> QED
  BY <1>1, <1>2, <1>3 DEF NoneLost, OnItsWay

\* A step of a search from one stage to the next, which leaves the hits.
Onward ==
  /\ call.phase \in {"listing", "opening", "walking"}
  /\ call'.hits = call.hits /\ call.ids \subseteq call'.ids
  /\ UNCHANGED saw

\* A directory that is listed is opened, unless it is gone.
LEMMA NextRootLosesNone ==
  ASSUME IInv, LInv, NextRoot
  PROVE  NoneLost' /\ Onward /\ call'.phase # "done"
<1> DEFINE public == call.roots \cap Public
           d == IF public # {} THEN Min(public) ELSE Min(call.roots)
<1>1. call \in Calls /\ World /\ Served
  BY DEF IInv, TypeOK, World, Served, NextRoot
<1>2. call' = [call EXCEPT !.roots = @ \ {d},
                           !.at = IF state[linked[d]] = "gone" THEN @ ELSE d,
                           !.phase = IF state[linked[d]] = "gone" THEN "listing" ELSE "opening"]
  BY DEF NextRoot
<1> HIDE DEF d
<1>3. /\ call'.roots = call.roots \ {d} /\ call'.ids = call.ids /\ call'.hits = call.hits
      /\ state[linked[d]] # "gone" => call'.phase = "opening" /\ call'.at = d
      /\ call'.phase \in {"listing", "opening"}
  BY <1>1, <1>2 DEF Calls
<1>4. call.phase = "listing" /\ UNCHANGED saw
  BY DEF NextRoot
<1>5. ASSUME NEW hit \in saw.steady, ScoreOf[hit.doc] > 0 PROVE OnItsWay(hit)'
  <2>1. OnItsWay(hit) /\ hit \in Listed
    BY <1>1, <1>4, <1>5 DEF LInv, NoneLost, SteadyListed
  <2>2. CASE hit.path.dir = d /\ hit.path # Index
    <3>1. state[linked[d]] = "there"
      BY <1>1, <2>1, <2>2, ListedFacts
    <3> QED
      BY <1>3, <2>2, <3>1 DEF OnItsWay
  <2>3. CASE hit.path.dir = d /\ hit.path = Index
    <3>1. d \notin call.roots
      BY <1>1, <2>3, Places DEF Calls
    <3> QED
      BY <1>3, <1>4, <2>1, <2>3, <3>1 DEF OnItsWay
  <2>4. CASE hit.path.dir # d
    BY <1>3, <1>4, <2>1, <2>4 DEF OnItsWay
  <2> QED
    BY <2>2, <2>3, <2>4
<1> QED
  BY <1>3, <1>4, <1>5 DEF NoneLost, Onward

\* A directory that is opened is walked.
LEMMA OpenLosesNone ==
  ASSUME IInv, LInv, OpenDirectory, ~Fails
  PROVE  NoneLost' /\ Onward /\ call'.phase # "done"
<1> DEFINE d == linked[call.at]
           entries == {p \in Files : p.dir = d}
<1>1. call \in Calls /\ World /\ Served /\ call.phase = "opening" /\ UNCHANGED saw
  BY DEF IInv, TypeOK, World, Served, OpenDirectory
<1>2. call' = [call EXCEPT !.due = entries,
                           !.phase = IF entries = {} THEN "listing" ELSE "walking"]
  BY DEF OpenDirectory
<1> HIDE DEF entries
<1>3. /\ call'.roots = call.roots /\ call'.ids = call.ids /\ call'.hits = call.hits
      /\ call'.due = entries /\ call'.at = call.at
      /\ entries # {} => call'.phase = "walking"
      /\ call'.phase \in {"listing", "walking"}
  BY <1>1, <1>2 DEF Calls
<1>4. ASSUME NEW hit \in saw.steady, ScoreOf[hit.doc] > 0 PROVE OnItsWay(hit)'
  <2>1. OnItsWay(hit) /\ hit \in Listed
    BY <1>1, <1>4 DEF LInv, NoneLost, SteadyListed
  <2>2. CASE call.at = hit.path.dir
    <3>1. hit.path # Index
      BY <1>1, <2>2, Places DEF IInv, Stages
    <3>2. hit.path \in entries
      BY <1>1, <2>1, <2>2, <3>1, ListedFacts DEF entries
    <3> QED
      BY <1>3, <2>2, <3>2 DEF OnItsWay
  <2>3. CASE call.at # hit.path.dir
    BY <1>1, <1>3, <2>1, <2>3 DEF OnItsWay
  <2> QED
    BY <2>2, <2>3
<1> QED
  BY <1>1, <1>3, <1>4 DEF NoneLost, Onward

\* An entry that is a text is put down for reading.
LEMMA WalkLosesNone ==
  ASSUME IInv, LInv, WalkEntry, ~Fails
  PROVE  NoneLost' /\ Onward /\ call'.phase # "done"
<1>1. call \in Calls /\ World /\ Served /\ call.phase = "walking" /\ UNCHANGED saw
  BY DEF IInv, TypeOK, World, Served, WalkEntry
<1> DEFINE Kinds(p) == {kb[p].kind} \cup (IF state[p.dir] = "gone" THEN {"gone"} ELSE {})
           Walk(p, kind) ==
             call' = [call EXCEPT !.due = @ \ {p},
                                  !.phase = IF call.due = {p} THEN "listing" ELSE @,
                                  !.ids = IF kind \in {"text", "faulty"}
                                          THEN @ \cup {[dir |-> call.at, name |-> p.name]}
                                          ELSE @]
<1>2. PICK p \in call.due : \E kind \in Kinds(p) : Walk(p, kind)
  BY DEF WalkEntry
<1>3. PICK kind \in Kinds(p) : Walk(p, kind)
  BY <1>2
<1>4. /\ call'.roots = call.roots /\ call'.hits = call.hits
      /\ call'.due = call.due \ {p} /\ call'.at = call.at
      /\ call'.phase = IF call.due = {p} THEN "listing" ELSE "walking"
      /\ call.ids \subseteq call'.ids
      /\ kind = "text" => [dir |-> call.at, name |-> p.name] \in call'.ids
  BY <1>1, <1>3 DEF Calls
<1>5. ASSUME NEW hit \in saw.steady, ScoreOf[hit.doc] > 0 PROVE OnItsWay(hit)'
  <2>1. OnItsWay(hit) /\ hit \in Listed
    BY <1>1, <1>5 DEF LInv, NoneLost, SteadyListed
  <2>2. CASE hit.path = p /\ call.at = p.dir
    <3>1. p \in Files
      BY <1>1 DEF Calls
    <3>2. p # Index
      BY <3>1, Places
    <3>3. kind = "text"
      BY <1>1, <1>3, <2>1, <2>2, <3>2, ListedFacts
    <3>4. p = [dir |-> p.dir, name |-> p.name]
      BY <3>1, Places
    <3> QED
      BY <1>4, <2>2, <3>3, <3>4 DEF OnItsWay
  <2>3. CASE ~(hit.path = p /\ call.at = p.dir)
    BY <1>1, <1>4, <2>1, <2>3 DEF OnItsWay
  <2> QED
    BY <2>2, <2>3
<1> QED
  BY <1>1, <1>4, <1>5 DEF NoneLost, Onward

\* A text that is read and matches is a hit.
LEMMA ReadLosesNone ==
  ASSUME IInv, LInv, ReadNext, ~Fails
  PROVE  NoneLost' /\ IsFiniteSet(call'.hits) /\ call'.phase # "done"
<1>1. call \in Calls /\ World /\ Served /\ call.phase = "listing" /\ UNCHANGED saw
  BY DEF IInv, TypeOK, World, Served, ReadNext, Reading
<1> DEFINE e(p) == Read(call.scope, p)
           new(p) == IF Readable(e(p)) THEN Score(p, e(p)) ELSE {}
<1>2. PICK p \in call.ids :
        call' = [call EXCEPT !.ids = @ \ {p},
                             !.hits = IF Readable(e(p)) THEN @ \cup Score(p, e(p)) ELSE @]
  BY DEF ReadNext
<1>3. /\ call'.roots = call.roots /\ call'.hits = call.hits \cup new(p)
      /\ call'.ids = call.ids \ {p} /\ call'.phase = "listing"
  BY <1>1, <1>2 DEF Calls
<1>4. IsFiniteSet(call'.hits)
  <2>1. new(p) = {} \/ new(p) = {[path |-> p, doc |-> e(p).doc]}
    BY DEF Score
  <2>2. IsFiniteSet(call.hits)
    BY DEF LInv
  <2> HIDE DEF new
  <2>3. CASE new(p) = {}
    <3>1. call'.hits = call.hits
      BY <1>3, <2>3
    <3> QED
      BY <3>1, <2>2
  <2>4. CASE new(p) = {[path |-> p, doc |-> e(p).doc]}
    <3>1. IsFiniteSet(call.hits \cup {[path |-> p, doc |-> e(p).doc]})
      BY <2>2, FS_AddElement
    <3> QED
      BY <1>3, <2>4, <3>1
  <2> QED
    BY <2>1, <2>3, <2>4
<1>5. ASSUME NEW hit \in saw.steady, ScoreOf[hit.doc] > 0 PROVE OnItsWay(hit)'
  <2>1. OnItsWay(hit) /\ hit \in Listed
    BY <1>1, <1>5 DEF LInv, NoneLost, SteadyListed
  <2>2. CASE hit.path = p
    <3>1. /\ hit = [path |-> p, doc |-> kb[p].doc]
          /\ Allowed(call.scope, p) /\ Found(p) = kb[p] /\ kb[p].kind = "text"
      BY <1>1, <2>1, <2>2, ListedFacts
    <3>2. e(p) = kb[p] /\ Readable(e(p))
      BY <3>1 DEF Read, Readable
    <3>3. hit.doc = kb[p].doc
      BY <3>1
    <3>4. hit \in new(p)
      BY <1>5, <3>1, <3>2, <3>3 DEF Score
    <3> QED
      BY <1>3, <3>4 DEF OnItsWay
  <2>3. CASE hit.path # p
    BY <1>1, <1>3, <2>1, <2>3 DEF OnItsWay
  <2> QED
    BY <2>2, <2>3
<1> QED
  BY <1>1, <1>3, <1>4, <1>5 DEF NoneLost

\* When all has been read, what is left out is worse than what is shown.
LEMMA AnswerShowsTheBest ==
  ASSUME IInv, LInv, AnswerSearch
  PROVE  NothingBetterLeftOut' /\ call'.hits = {} /\ call'.phase = "done"
<1> DEFINE shown == {h \in call.hits : Fits(call.hits, h, call.limit)}
<1>1. /\ call \in Calls /\ Served /\ UNCHANGED saw
      /\ call.phase = "listing" /\ call.roots = {} /\ call.ids = {}
  BY DEF IInv, TypeOK, Served, AnswerSearch, Reading
<1>2. Answered("ok", shown, shown # call.hits)
  BY DEF AnswerSearch
<1>3. \A g \in shown : \A h \in call.hits : Better(h, g) => h \in shown
  <2>1. call.hits \in SUBSET Hits /\ call.limit \in Limits \cup {0}
    BY <1>1 DEF Calls
  <2>2. Limits \subseteq Nat
    BY ContentAssumption
  <2>3. call.limit \in Nat /\ IsFiniteSet(call.hits)
    BY <2>1, <2>2 DEF LInv
  <2> QED
    BY <2>1, <2>3, BetterFitsToo
<1>4. shown \subseteq call.hits
  OBVIOUS
<1> HIDE DEF shown
<1>5. /\ call'.phase = "done" /\ call'.hits = {} /\ call'.shown = shown
      /\ call'.truncated = (shown # call.hits)
  BY <1>2 DEF Answered, NoCall
<1>6. ASSUME NEW hit \in saw.steady, ScoreOf[hit.doc] > 0, hit \notin shown
      PROVE  shown # call.hits /\ \A g \in shown : Better(g, hit)
  <2>1. hit \in call.hits
    BY <1>1, <1>6 DEF LInv, NoneLost, OnItsWay
  <2>2. ASSUME NEW g \in shown PROVE Better(g, hit)
    <3>1. g \in call.hits /\ g # hit /\ call.hits \subseteq Hits
      BY <1>1, <1>4, <1>6 DEF Calls
    <3>2. g.path # hit.path
      BY <2>1, <3>1 DEF IInv, TypeOK
    <3>3. ~Better(hit, g)
      BY <1>3, <1>6, <2>1
    <3> QED
      BY <2>1, <3>1, <3>2, <3>3, BetterIsAnOrder
  <2> QED
    BY <1>6, <2>1, <2>2
<1>7. NothingBetterLeftOut'
  BY <1>1, <1>5, <1>6 DEF NothingBetterLeftOut, Better
<1> QED
  BY <1>5, <1>7

\* fetch asks for one document and leaves nothing out.
LEMMA FetchLeavesNothingOut ==
  ASSUME NEW scope, NEW p, Fetch(scope, p)
  PROVE  call'.phase = "done" /\ call'.limit = 0 /\ call'.hits = {}
  BY DEF Fetch, NoCall

\* Every step loses none of the matches that stay where they are.
LEMMA StepLosesNone ==
  ASSUME IInv, LInv, [Next]_vars
  PROVE  LInv'
<1>1. SteadyListed'
  BY SteadyStaysListed DEF IInv, LInv
<1> SUFFICES NoneLost' /\ IsFiniteSet(call'.hits) /\ NothingBetterLeftOut'
  BY <1>1 DEF LInv
<1>2. call \in Calls /\ saw \in Sights
  BY DEF IInv, TypeOK, Sights
<1>3. call'.phase # "done" => NothingBetterLeftOut'
  BY DEF NothingBetterLeftOut
<1>4. call'.phase \notin {"listing", "opening", "walking"} => NoneLost'
  BY DEF NoneLost
<1>5. IsFiniteSet({}) /\ IsFiniteSet(call.hits)
  BY FS_EmptySet DEF LInv
<1>6. ASSUME Fails PROVE NoneLost' /\ IsFiniteSet(call'.hits) /\ NothingBetterLeftOut'
  <2>1. call'.phase = "done" /\ call'.hits = {} /\ call'.result = "internal_error"
    BY <1>6 DEF Fails, Answered, NoCall
  <2>2. NothingBetterLeftOut'
    BY <2>1 DEF NothingBetterLeftOut
  <2> QED
    BY <1>4, <1>5, <2>1, <2>2
<1>7. ASSUME NEW scope \in Scopes, NEW limit \in Limits, BeginSearch(scope, limit)
      PROVE  NoneLost' /\ IsFiniteSet(call'.hits) /\ NothingBetterLeftOut'
  <2>1. World'
    BY <1>7 DEF IInv, TypeOK, World, BeginSearch
  <2> QED
    BY <1>3, <1>5, <1>7, <2>1, NoneLostAtFirst
<1>8. ASSUME NEW scope \in Scopes, NEW p \in Paths, Fetch(scope, p)
      PROVE  NoneLost' /\ IsFiniteSet(call'.hits) /\ NothingBetterLeftOut'
  <2>1. call'.phase = "done" /\ ~(call'.limit > 0) /\ call'.hits = {}
    BY <1>8, FetchLeavesNothingOut
  <2>2. NothingBetterLeftOut'
    BY <2>1 DEF NothingBetterLeftOut
  <2> QED
    BY <1>4, <1>5, <2>1, <2>2
<1>9. CASE NextRoot
  BY <1>3, <1>5, <1>9, NextRootLosesNone DEF Onward
<1>10. CASE OpenDirectory
  BY <1>3, <1>5, <1>6, <1>10, OpenLosesNone DEF Onward
<1>11. CASE WalkEntry
  BY <1>3, <1>5, <1>6, <1>11, WalkLosesNone DEF Onward
<1>12. CASE ReadNext
  BY <1>3, <1>6, <1>12, ReadLosesNone
<1>13. CASE AnswerSearch
  BY <1>4, <1>5, <1>13, AnswerShowsTheBest
<1>14. CASE Return
  <2>1. call'.phase = "idle" /\ call'.hits = {}
    BY <1>14 DEF Return, NoCall
  <2> QED
    BY <1>3, <1>4, <1>5, <2>1
<1>15. ASSUME UNCHANGED call, call.phase # "done", Watch
       PROVE  NoneLost' /\ IsFiniteSet(call'.hits) /\ NothingBetterLeftOut'
  <2>1. call.phase # "idle" => saw'.steady \subseteq saw.steady
    <3>1. CASE call.phase = "idle"
      BY <3>1
    <3>2. CASE call.phase # "idle"
      <4>1. saw' = [offered |-> saw.offered \cup Offered', steady |-> saw.steady \cap Listed',
                    fault |-> saw.fault \/ Fault', behind |-> saw.behind \/ FaultBehindLink']
        BY <1>15, <3>2 DEF Watch
      <4>2. saw'.steady = saw.steady \cap Listed'
        BY <4>1
      <4> QED
        BY <4>2
    <3> QED
      BY <3>1, <3>2
  <2>2. NoneLost'
    BY <1>15, <2>1 DEF LInv, NoneLost, OnItsWay
  <2> QED
    BY <1>3, <1>5, <1>15, <2>2
<1>16. ASSUME NEW p \in Paths, OwnerPuts(p) \/ FileNote(p) \/ \E q \in Paths : OwnerMoves(p, q)
       PROVE  UNCHANGED call /\ call.phase # "done" /\ Watch
  BY <1>16 DEF OwnerPuts, FileNote, OwnerMoves, Edit
<1>17. ASSUME NEW d \in Dirs, OwnerChangesDirectory(d) \/ OwnerMovesInbox(d)
       PROVE  UNCHANGED call /\ call.phase # "done" /\ Watch
  BY <1>17 DEF OwnerChangesDirectory, OwnerMovesInbox, Edit
<1>18. CASE UNCHANGED vars
  BY <1>18 DEF vars, LInv, NoneLost, OnItsWay, NothingBetterLeftOut, Better
<1> QED
  BY <1>7, <1>8, <1>9, <1>10, <1>11, <1>12, <1>13, <1>14, <1>15, <1>16, <1>17, <1>18 DEF Next

\* A match that stays where it is throughout a search is in the answer, or the
\* answer is marked as truncated and everything in it is better: whatever moves
\* between candidate_ids' walk and the reading, and wherever the loop over the
\* sorted results stops.
THEOREM BestAreShown == Spec => []NothingBetterLeftOut
<1>1. Init => LInv
  <2> SUFFICES ASSUME Init PROVE LInv
    OBVIOUS
  <2>1. call.phase = "idle" /\ call.hits = {}
    BY DEF Init, NoCall
  <2> QED
    BY <2>1, FS_EmptySet DEF LInv, SteadyListed, NoneLost, NothingBetterLeftOut, Served
<1>2. IInv /\ LInv /\ [Next]_vars => LInv'
  BY StepLosesNone
<1>3. LInv => NothingBetterLeftOut
  BY DEF LInv
<1> QED
  BY <1>1, <1>2, <1>3, Invariance, PTL DEF Spec
=============================================================================
