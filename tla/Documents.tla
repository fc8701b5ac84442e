----------------------------- MODULE Documents -----------------------------
(***************************************************************************)
(* fetch and search (src/src/document.rs, src/src/search.rs) on a          *)
(* knowledge base that changes under them.  A search lists the directories *)
(* of its scope, entry by entry, then opens and reads each listed file,    *)
(* and then ranks and cuts what matched.  Nothing is locked: the owner     *)
(* edits, moves and links files and directories meanwhile, and append_note *)
(* files notes in the inbox.  Searches share nothing, so there is one.     *)
(*                                                                         *)
(* append_note keeps the inbox open, wherever its directory is moved.      *)
(*                                                                         *)
(* Directories and names are numbered in the order of their spelling.      *)
(***************************************************************************)
EXTENDS Integers, FiniteSets, FiniteSetsExt

CONSTANTS
  Public, Private,  \* ScopeDirectories
  InboxDir,         \* the directory of the knowledge base INBOX_ROOT names
  IndexDir,         \* stands for the root, which holds INDEX.md
  Files,            \* places for files in directories, [dir, name]
  Docs, Notes,      \* contents the owner writes; contents append_note writes
  NoDoc,
  ScoreOf,          \* how well contents match the query; 0 is no match
  ResponseSize(_),  \* bytes of the response with these results
  MaxResponse,      \* max_response_bytes
  Limits,           \* limits asked for
  MaxEdits          \* bound: changes the owner makes

Dirs == Public \cup Private \cup {InboxDir}
Index == [dir |-> IndexDir, name |-> 0]
Paths == Files \cup {Index}

\* What ScopeDirectories::new accepts.  It compares names: InboxDir, where
\* INBOX_ROOT leads, may be any directory of the knowledge base.
ASSUME DirectoryAssumption ==
  /\ Dirs \subseteq Nat /\ IndexDir \in Nat \ Dirs
  /\ Public # {} /\ Private # {} /\ Public \cap Private = {}
  /\ Files \subseteq [dir : Dirs, name : Nat] /\ IsFiniteSet(Files)

ASSUME ContentAssumption ==
  /\ Docs \cap Notes = {} /\ NoDoc \notin Docs \cup Notes
  /\ ScoreOf \in [Docs \cup Notes -> Nat]
  /\ Limits \subseteq Nat \ {0} /\ {MaxResponse, MaxEdits} \subseteq Nat

Hits == [path : Paths, doc : Docs \cup Notes]

\* A result more makes the response no smaller.
ASSUME ResponseAssumption ==
  /\ \A hits \in SUBSET Hits : ResponseSize(hits) \in Nat
  /\ \A hits \in SUBSET Hits : \A h \in hits : ResponseSize(hits \ {h}) <= ResponseSize(hits)

VARIABLES
  kb,      \* what is at each path
  state,   \* of each directory: "there", "gone" or "closed" (no permission)
  linked,  \* the directory a directory's name leads to: itself, or by a link
  inboxAt, \* where the directory lies that append_note has open
  edits,   \* changes the owner has made
  sorted,  \* notes the owner has put elsewhere, alone or with the inbox
  call,    \* the call being served
  saw      \* what has been so since it began, for the properties

vars == <<kb, state, linked, inboxAt, edits, sorted, call, saw>>

\* "faulty" is not UTF-8 or may not be opened; "misnamed" is a file whose name
\* is no document id; "ignored" is named in a .gitignore; a link leads to a path.
Gone == [kind |-> "gone", doc |-> NoDoc, to |-> Index]
Text(d) == [Gone EXCEPT !.kind = "text", !.doc = d]
OwnerEntries ==
  {Gone, [Gone EXCEPT !.kind = "faulty"], [Gone EXCEPT !.kind = "misnamed"]}
    \cup {Text(d) : d \in Docs}
    \cup {[Text(d) EXCEPT !.kind = "ignored"] : d \in Docs}
    \cup {[Gone EXCEPT !.kind = "link", !.to = p] : p \in Files}
Entries == OwnerEntries \cup {Text(d) : d \in Notes}

Scopes == {"Tech", "Private"}
Roots(scope) == Public \cup (IF scope = "Private" THEN Private ELSE {})

\* The slip: the private scope reads whatever there is.
AllowedPrivateAll(scope, p) ==
  p = Index \/ p.dir \in Roots(scope) \/ scope = "Private"

\* DocumentStore::is_allowed
Allowed(scope, p) == p = Index \/ p.dir \in Roots(scope)

NoCall == [phase |-> "idle", scope |-> "Tech", limit |-> 0, roots |-> {},
           at |-> IndexDir, due |-> {}, ids |-> {}, hits |-> {}, result |-> "none",
           shown |-> {}, truncated |-> FALSE]

Calls ==
  [phase : {"idle", "listing", "opening", "walking", "done"},
   scope : Scopes, limit : Limits \cup {0},
   roots : SUBSET Dirs, at : Dirs \cup {IndexDir},
   due : SUBSET Files, ids : SUBSET [dir : Nat, name : Nat], hits : SUBSET Hits,
   result : {"none", "ok", "not_found", "internal_error"},
   shown : SUBSET Hits, truncated : BOOLEAN]

TypeOK ==
  /\ kb \in [Paths -> Entries] /\ kb[Index].kind # "misnamed"
  /\ state \in [Dirs -> {"there", "gone", "closed"}]
  /\ linked \in [Dirs -> Dirs]
  /\ inboxAt \in Dirs
  /\ edits \in 0 .. MaxEdits /\ sorted \subseteq Notes
  /\ call \in Calls
  /\ \A h \in call.hits : ScoreOf[h.doc] > 0
  /\ \A g, h \in call.hits : g.path = h.path => g = h
  /\ call.result # "ok" => call.shown = {}
  /\ saw \in [offered : SUBSET (Docs \cup Notes), steady : SUBSET Hits,
              fault : BOOLEAN, behind : BOOLEAN]

----------------------------------------------------------------------------
(* What is in reach, and the witnesses the properties need.                *)

\* A path that leads to its file without a link.
Real(p) == p = Index \/ (p.dir \in Dirs /\ linked[p.dir] = p.dir)

\* openat2 beneath the root without following links: the file at an id.
Found(p) ==
  IF p \notin Paths \/ ~Real(p) THEN Gone
  ELSE IF p = Index \/ state[p.dir] = "there" THEN kb[p]
  ELSE IF state[p.dir] = "closed" THEN [Gone EXCEPT !.kind = "faulty"] ELSE Gone

Readable(e) == e.kind \in {"text", "ignored"}

\* Contents that lie in the scope of the call, and what a search can list.
Offered == {Found(p).doc : p \in {q \in Paths : Allowed(call.scope, q) /\ Readable(Found(q))}}
Listed ==
  {[path |-> p, doc |-> kb[p].doc] :
     p \in {q \in Paths : Allowed(call.scope, q) /\ Found(q).kind = "text"}}

\* Something is wrong with a directory, or with a file in it.
Broken(d) ==
  \/ state[d] # "there"
  \/ \E p \in Files : p.dir = d /\ kb[p].kind \in {"faulty", "misnamed"}

\* Something is wrong in the directories of the call's scope, or with INDEX.md.
Fault == kb[Index].kind = "faulty" \/ \E d \in Roots(call.scope) : Broken(d)

\* Something is wrong in a directory of no concern to the scope, to which a
\* link in the place of one of its directories leads, or led the walk.
FaultBehindLink ==
  \E d \in ({linked[e] : e \in Roots(call.scope)} \cup {p.dir : p \in call.due})
            \ Roots(call.scope) : Broken(d)

NothingSeen == [offered |-> {}, steady |-> {}, fault |-> FALSE, behind |-> FALSE]

\* A call begins.
Look == saw' = [offered |-> Offered', steady |-> Listed',
                fault |-> Fault', behind |-> FaultBehindLink']

\* The knowledge base changes while a call is served.
Watch ==
  saw' = IF call.phase = "idle" THEN saw
         ELSE [offered |-> saw.offered \cup Offered',
               steady  |-> saw.steady \cap Listed',
               fault   |-> saw.fault \/ Fault',
               behind  |-> saw.behind \/ FaultBehindLink']

Init ==
  /\ kb \in [Paths -> {Gone} \cup {Text(d) : d \in Docs}]
  /\ \A d \in Docs : Cardinality({p \in Paths : kb[p] = Text(d)}) = 1
  /\ state = [d \in Dirs |-> "there"]
  /\ linked = [d \in Dirs |-> d]
  /\ inboxAt = InboxDir
  /\ edits = 0 /\ sorted = {}
  /\ call = NoCall
  /\ saw = NothingSeen

----------------------------------------------------------------------------
(* search                                                                  *)

\* DocumentStore::candidate_ids looks for INDEX.md first, through a link too
\* (the read that follows does not follow the link, wherever it leads).
IndexIsFile ==
  LET e == kb[Index]
      end == IF e.kind = "link" THEN kb[e.to] ELSE e
  IN end.kind \in {"text", "ignored", "faulty"}

\* The slip: the walk covers every directory and leaves the rest to is_allowed.
BeginSearchEverywhere(scope, limit) ==
  /\ call.phase = "idle"
  /\ call' = [NoCall EXCEPT !.phase = "listing", !.scope = scope, !.limit = limit,
                            !.roots = Public \cup Private,
                            !.ids = IF IndexIsFile THEN {Index} ELSE {}]
  /\ UNCHANGED <<kb, state, linked, inboxAt, edits, sorted>>
  /\ Look

BeginSearch(scope, limit) ==
  /\ call.phase = "idle"
  /\ call' = [NoCall EXCEPT !.phase = "listing", !.scope = scope, !.limit = limit,
                            !.roots = Roots(scope),
                            !.ids = IF IndexIsFile THEN {Index} ELSE {}]
  /\ UNCHANGED <<kb, state, linked, inboxAt, edits, sorted>>
  /\ Look

Answered(result, shown, truncated) ==
  call' = [NoCall EXCEPT !.phase = "done", !.scope = call.scope, !.limit = call.limit,
                         !.result = result, !.shown = shown, !.truncated = truncated]

Fails == Answered("internal_error", {}, FALSE)

\* directory.exists(): the public ones first, then the private ones.
NextRoot ==
  /\ call.phase = "listing" /\ call.roots # {}
  /\ LET public == call.roots \cap Public
         d == IF public # {} THEN Min(public) ELSE Min(call.roots)
     IN call' = [call EXCEPT !.roots = @ \ {d},
                             !.at = IF state[linked[d]] = "gone" THEN @ ELSE d,
                             !.phase = IF state[linked[d]] = "gone" THEN "listing" ELSE "opening"]
  /\ UNCHANGED <<kb, state, linked, inboxAt, edits, sorted, saw>>

\* The walk opens the directory, which a link may lead to.
OpenDirectory ==
  /\ call.phase = "opening"
  /\ LET d == linked[call.at]
         entries == {p \in Files : p.dir = d}
     IN IF state[d] = "there"
        THEN call' = [call EXCEPT !.due = entries,
                                  !.phase = IF entries = {} THEN "listing" ELSE "walking"]
        ELSE Fails
  /\ UNCHANGED <<kb, state, linked, inboxAt, edits, sorted, saw>>

\* One entry of the directory, which is open: if it is moved away or locked it
\* is listed all the same; if it is deleted it has no entries any more.  Links
\* are not followed and .gitignore is obeyed; a name that is no document id ends
\* the whole search.
WalkEntry ==
  /\ call.phase = "walking"
  /\ \E p \in call.due :
       \E kind \in {kb[p].kind} \cup (IF state[p.dir] = "gone" THEN {"gone"} ELSE {}) :
         IF kind = "misnamed" THEN Fails
         ELSE call' = [call EXCEPT !.due = @ \ {p},
                                   !.phase = IF call.due = {p} THEN "listing" ELSE @,
                                   !.ids = IF kind \in {"text", "faulty"}
                                           THEN @ \cup {[dir |-> call.at, name |-> p.name]}
                                           ELSE @]
  /\ UNCHANGED <<kb, state, linked, inboxAt, edits, sorted, saw>>

\* Every directory has been listed: the files are read.
Reading == call.phase = "listing" /\ call.roots = {}

Before(p, q) == p.dir < q.dir \/ (p.dir = q.dir /\ p.name < q.name)

\* The slip: files are opened by name, links and all.
ReadThroughLinks(scope, p) ==
  IF ~Allowed(scope, p) \/ p \notin Paths THEN Gone
  ELSE IF kb[p].kind = "link" THEN kb[kb[p].to] ELSE kb[p]

\* read_limited: what the call finds at p; out of scope there is nothing.
Read(scope, p) == IF Allowed(scope, p) THEN Found(p) ELSE Gone

\* The slip: a document that does not match is kept.
ScoreKeepingMisses(p, e) == {[path |-> p, doc |-> e.doc]}

\* score_document
Score(p, e) == IF ScoreOf[e.doc] > 0 THEN {[path |-> p, doc |-> e.doc]} ELSE {}

\* The listed files are read in the order of their ids; one that is not there
\* any more is passed over, one that cannot be read ends the search.
ReadNext ==
  /\ Reading
  /\ \E p \in call.ids :
       /\ \A q \in call.ids \ {p} : Before(p, q)
       /\ LET e == Read(call.scope, p)
          IN IF e.kind = "faulty" THEN Fails
             ELSE call' = [call EXCEPT !.ids = @ \ {p},
                                       !.hits = IF Readable(e) THEN @ \cup Score(p, e) ELSE @]
  /\ UNCHANGED <<kb, state, linked, inboxAt, edits, sorted, saw>>

\* By score, then by id.
Better(g, h) ==
  \/ ScoreOf[g.doc] > ScoreOf[h.doc]
  \/ ScoreOf[g.doc] = ScoreOf[h.doc] /\ Before(g.path, h.path)

UpTo(hits, h) == {g \in hits : g = h \/ Better(g, h)}

\* The slip: a result that does not fit is skipped, and smaller ones after it
\* are let in.
FitsByItself(hits, h, limit) ==
  /\ Cardinality(UpTo(hits, h)) <= limit
  /\ ResponseSize({h}) <= MaxResponse

\* The loop pushes results until one is over the limit or makes the response
\* too large: h is kept if all up to it fit.
Fits(hits, h, limit) ==
  /\ Cardinality(UpTo(hits, h)) <= limit
  /\ ResponseSize(UpTo(hits, h)) <= MaxResponse

AnswerSearch ==
  /\ Reading /\ call.ids = {}
  /\ LET shown == {h \in call.hits : Fits(call.hits, h, call.limit)}
     IN Answered("ok", shown, shown # call.hits)
  /\ UNCHANGED <<kb, state, linked, inboxAt, edits, sorted, saw>>

----------------------------------------------------------------------------
(* fetch, and the end of a call.                                           *)

Fetch(scope, p) ==
  /\ call.phase = "idle"
  /\ LET e == Read(scope, p)
     IN call' = [NoCall EXCEPT
                   !.phase = "done", !.scope = scope,
                   !.result = IF Readable(e) THEN "ok"
                              ELSE IF e.kind = "faulty" THEN "internal_error"
                              ELSE "not_found",
                   !.shown = IF Readable(e) THEN {[path |-> p, doc |-> e.doc]} ELSE {}]
  /\ UNCHANGED <<kb, state, linked, inboxAt, edits, sorted>>
  /\ Look

Return ==
  /\ call.phase = "done"
  /\ call' = NoCall /\ saw' = NothingSeen
  /\ UNCHANGED <<kb, state, linked, inboxAt, edits, sorted>>

----------------------------------------------------------------------------
(* The owner, and append_note.                                             *)

\* "done" is the instant of the answer: what is changed then might as well be
\* changed after Return.
Edit ==
  /\ call.phase # "done"
  /\ edits < MaxEdits /\ edits' = edits + 1

\* A file is written, spoilt, linked or deleted.
OwnerPuts(p) ==
  /\ Edit
  /\ \E e \in OwnerEntries \ {kb[p]} :
       /\ p = Index => e.kind # "misnamed"
       /\ kb' = [kb EXCEPT ![p] = e]
  /\ UNCHANGED <<state, linked, inboxAt, sorted, call>>
  /\ Watch

\* A file is moved; a note that leaves the inbox has been sorted.
OwnerMoves(p, q) ==
  /\ Edit
  /\ Readable(kb[p]) /\ p # q
  /\ kb' = [kb EXCEPT ![q] = kb[p], ![p] = Gone]
  /\ sorted' = IF kb[p].doc \in Notes /\ q.dir # InboxDir
               THEN sorted \cup {kb[p].doc} ELSE sorted
  /\ UNCHANGED <<state, linked, inboxAt, call>>
  /\ Watch

\* A directory is moved away or removed, locked, brought back, or replaced by a
\* link.
OwnerChangesDirectory(d) ==
  /\ Edit
  /\ \/ \E s \in {"there", "gone", "closed"} \ {state[d]} :
          state' = [state EXCEPT ![d] = s] /\ UNCHANGED linked
     \/ \E e \in Dirs \ {linked[d]} :
          linked' = [linked EXCEPT ![d] = e] /\ UNCHANGED state
  /\ UNCHANGED <<kb, inboxAt, sorted, call>>
  /\ Watch

NotesIn(d) == {kb[p].doc : p \in {q \in Files : q.dir = d}} \cap Notes

Beside(p, d) == [dir |-> d, name |-> p.name]

\* The directory of the inbox is renamed: d is what it is called now, with all
\* that is in it.  Bounds: once, to a name that is free and has places for all,
\* and not while a walk is in one of the two.
OwnerMovesInbox(d) ==
  /\ Edit
  /\ inboxAt = InboxDir /\ state[InboxDir] = "there" /\ linked[InboxDir] = InboxDir
  /\ d # InboxDir /\ state[d] = "gone" /\ linked[d] = d
  /\ \A p \in Files : p.dir = InboxDir /\ kb[p] # Gone => Beside(p, d) \in Files
  /\ \A p \in call.due : p.dir \notin {InboxDir, d}
  /\ inboxAt' = d
  /\ state' = [state EXCEPT ![d] = "there", ![InboxDir] = "gone"]
  /\ kb' = [p \in Paths |->
             IF p.dir = InboxDir THEN Gone
             ELSE IF p.dir # d THEN kb[p]
             ELSE IF Beside(p, InboxDir) \in Files THEN kb[Beside(p, InboxDir)] ELSE Gone]
  /\ sorted' = sorted \cup NotesIn(InboxDir)
  /\ UNCHANGED <<linked, call>>
  /\ Watch

\* append_note: a new file in the directory it has open, whatever its name leads
\* to now, and even if it has been moved away.
FileNote(p) ==
  /\ call.phase # "done"
  /\ p.dir = inboxAt /\ state[inboxAt] # "closed" /\ kb[p] = Gone
  /\ \E d \in Notes :
       /\ \A q \in Paths : kb[q].doc # d
       /\ d \notin sorted
       /\ kb' = [kb EXCEPT ![p] = Text(d)]
       /\ sorted' = IF inboxAt = InboxDir THEN sorted ELSE sorted \cup {d}
  /\ UNCHANGED <<state, linked, inboxAt, edits, call>>
  /\ Watch

Next ==
  \/ \E scope \in Scopes :
       \/ \E limit \in Limits : BeginSearch(scope, limit)
       \/ \E p \in Paths : Fetch(scope, p)
  \/ NextRoot \/ OpenDirectory \/ WalkEntry
  \/ ReadNext \/ AnswerSearch \/ Return
  \/ \E p \in Paths : OwnerPuts(p) \/ FileNote(p) \/ \E q \in Paths : OwnerMoves(p, q)
  \/ \E d \in Dirs : OwnerChangesDirectory(d) \/ OwnerMovesInbox(d)

Spec == Init /\ [][Next]_vars

----------------------------------------------------------------------------
(* Properties.                                                             *)

\* What a call shows lay in the directories of its scope, not behind a link,
\* at some instant while it was served: no order of edits between listing,
\* opening and answering brings out anything else.
Confined ==
  call.phase = "done" => \A h \in call.shown : h.doc \in saw.offered

\* A match that stayed where it was throughout a search is in the answer, or
\* the answer says that it is truncated and shows only better ones.
NothingBetterLeftOut ==
  call.phase = "done" /\ call.result = "ok" /\ call.limit > 0 =>
    \A hit \in saw.steady :
      ScoreOf[hit.doc] > 0 =>
        \/ hit \in call.shown
        \/ call.truncated /\ \A g \in call.shown : Better(g, hit)

\* A call fails only for something wrong in the directories of its scope, or in
\* one to which a link in the place of one of them leads: a fault anywhere else,
\* among the private files above all, neither breaks a kb:tech call nor shows
\* through it.
FailsForItsOwn ==
  call.phase = "done" /\ call.result = "internal_error" => saw.fault \/ saw.behind

\* "search does not enumerate out-of-scope directories": it fails for nothing
\* that is wrong in one.  The walk, however, follows the link it starts at.
OthersNeverListed ==
  call.phase = "done" /\ call.result = "internal_error" => saw.fault

\* What append_note promises: a note cannot be read back with search or fetch,
\* unless the owner has sorted it, or has moved the inbox itself to where
\* documents are.
NotesUnread == \A h \in call.shown : h.doc \in Notes => h.doc \in sorted
=============================================================================
