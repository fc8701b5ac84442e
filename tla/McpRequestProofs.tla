-------------------------- MODULE McpRequestProofs --------------------------
(***************************************************************************)
(* Theorems about McpRequest for any number of requests, credentials,      *)
(* permits and budgets: its type and what its run checks of every state.   *)
(***************************************************************************)
EXTENDS McpRequest, FiniteSetTheorems, SequenceTheorems, TLAPS

----------------------------------------------------------------------------
(* The inductive invariant.                                                *)

Active(r) == req[r].phase \notin {"new", "over"}

\* Requests that have been numbered.
Numbered == {r \in Requests : req[r].phase # "new"}

\* Each number was given to one request, and the counter says how many.
NumbersApart ==
  /\ counter <= Cardinality(Numbered)
  /\ \A r \in Requests : req[r].id <= counter
  /\ \A r, q \in Requests : Active(r) /\ Active(q) /\ req[r].id = req[q].id => r = q
  /\ \A m \in log : m.id <= counter
  /\ \A n \in notes : n.id <= counter
  /\ up = "down" => counter = 0 /\ \A r \in Requests : req[r] = Over

\* A request has a credential once it is known, and no other does.
SubjectsKnown ==
  \A r \in Requests :
    IF Active(r) /\ req[r].phase # "arrived" THEN req[r].subject \in Credentials
    ELSE req[r].subject = "nobody"

\* Nothing is recorded with the number of a request before its tool is done,
\* then only what is of its credential.
RecordsFollow ==
  \A r \in Requests : Active(r) =>
    \A m \in log : m.id = req[r].id =>
      /\ req[r].phase = "responding"
      /\ m.subject = req[r].subject /\ m.event # "rejected"

\* The note of this request.
NoteOf(r) == [id |-> req[r].id, subject |-> req[r].subject]

\* No note has the number of a request that has filed none.
NotesFollow ==
  \A r \in Requests :
    /\ Active(r) => \A n \in notes : n.id = req[r].id =>
         \/ req[r].phase = "responding"
         \/ req[r].phase = "filed" /\ req[r].reply = "filed" /\ n = NoteOf(r)
    /\ req[r].phase = "filed" =>
         \/ req[r].reply = "filed" /\ NoteOf(r) \in notes
         \/ req[r].reply = "not filed"

\* Only a call that was read goes on without its client.
ToolsGoOn == \A r \in Requests : req[r].left => req[r].phase \in {"called"} \cup InTool

IInv ==
  /\ TypeOK /\ NumbersApart /\ SubjectsKnown /\ RecordsFollow /\ NotesFollow /\ ToolsGoOn
  /\ NoteToolHidden /\ PermitsConserved /\ NotesAudited /\ OneRequestPerId
  /\ DeadTokensServeNoLater

----------------------------------------------------------------------------
(* Types.                                                                  *)

RequestRecord == [phase : Phases, id : Ids, subject : Credentials \cup {"nobody"},
                  call : Calls \cup {"none"}, reply : Replies \cup {"none"},
                  left : BOOLEAN]

LogRecord == [event : {"rejected", "tool", "append_note", "http"}, id : Ids,
              subject : Credentials \cup {"nobody"},
              outcome : {"unauthorized", "rate limited", "filed", "not filed", "done"}]

Note == [id : Ids, subject : Credentials]

\* What every step needs of a request, and of one that is over or new.
LEMMA RequestFields ==
  ASSUME TypeOK
  PROVE  /\ \A r \in Requests :
              /\ req[r] \in RequestRecord /\ req[r].id \in Nat /\ req[r].id \in Ids
              /\ req[r].phase \in Phases /\ req[r].left \in BOOLEAN
              /\ req[r].subject \in Credentials \cup {"nobody"}
         /\ counter \in Nat /\ 0 \in Ids
         /\ Over \in RequestRecord /\ Fresh \in RequestRecord
         /\ Over.phase = "over" /\ Over.id = 0 /\ Over.subject = "nobody" /\ ~Over.left
         /\ Over.call = "none" /\ Over.reply = "none"
         /\ Fresh.phase = "new" /\ Fresh.id = 0 /\ Fresh.subject = "nobody"
         /\ ~Fresh.left /\ Fresh.call = "none" /\ Fresh.reply = "none"
<1>1. Cardinality(Requests) \in Nat
  BY FS_CardinalityType, McpAssumption
<1>2. 0 \in Ids /\ Ids \subseteq Nat
  BY <1>1 DEF Ids
<1>3. Fresh \in RequestRecord /\ Over \in RequestRecord
  BY <1>2 DEF Fresh, Over, Unknown, RequestRecord, Phases
<1>6. req \in [Requests -> RequestRecord] /\ counter \in Ids
  BY DEF TypeOK, RequestRecord
<1>7. \A x \in RequestRecord : /\ x.id \in Ids /\ x.phase \in Phases /\ x.left \in BOOLEAN
                               /\ x.subject \in Credentials \cup {"nobody"}
  BY DEF RequestRecord
<1>8. \A r \in Requests : req[r] \in RequestRecord
  BY <1>6
<1>9. /\ Fresh.phase = "new" /\ Fresh.id = 0 /\ Fresh.subject = "nobody"
      /\ ~Fresh.left /\ Fresh.call = "none" /\ Fresh.reply = "none"
      /\ Over.phase = "over" /\ Over.id = 0 /\ Over.subject = "nobody" /\ ~Over.left
      /\ Over.call = "none" /\ Over.reply = "none"
  BY DEF Fresh, Over, Unknown
<1> QED
  BY <1>2, <1>3, <1>6, <1>7, <1>8, <1>9

\* No credential is called "nobody".
LEMMA Somebody == "nobody" \notin Credentials
  BY McpAssumption DEF Credentials

----------------------------------------------------------------------------
(* What one step does for a request that has been numbered.                *)

\* It keeps its number, and its credential once it has one.
GoesOn(r) ==
  /\ req'[r].id = req[r].id
  /\ req'[r].phase \notin {"new", "over", "arrived"}
  /\ \/ req[r].phase # "arrived" /\ req'[r].subject = req[r].subject
     \/ /\ req[r].phase = "arrived" /\ req'[r].phase = "known"
        /\ req'[r].subject \in Credentials
        /\ \A t \in Tokens : Dead(t) => req'[r].subject # t

\* The record m is of the request and is its last but for that of its answer.
Records(r, m) ==
  /\ m \in LogRecord /\ m.id = req[r].id
  /\ req'[r].phase \in {"responding", "over"}
  /\ req[r].phase = "responding" \/ req'[r].phase = "responding" =>
       m.subject = req[r].subject /\ m.event # "rejected"
  /\ m.event = "append_note" /\ m.outcome = "filed" =>
       req[r].phase = "filed" /\ req[r].reply = "filed"
  /\ req[r].phase = "filed" =>
       /\ m.subject = req[r].subject
       /\ m.event = "append_note" /\ m.outcome = req[r].reply

\* It files its note, or not; when it is done with that, it says so.
Files(r) ==
  \/ /\ req[r].phase = "filing" /\ req'[r].phase = "filed" /\ log' = log
     /\ \/ req'[r].reply = "filed" /\ notes' = notes \cup {NoteOf(r)}
        \/ req'[r].reply = "not filed" /\ notes' = notes
  \/ /\ req[r].phase = "filed" /\ req'[r].phase = "filed"
     /\ req'[r].reply = req[r].reply /\ notes' = notes /\ log' = log
  \/ /\ req'[r].phase # "filed" /\ notes' = notes
     /\ \/ log' = log /\ req[r].phase # "filed"
        \/ \E m : log' = log \cup {m} /\ Records(r, m)

Served(r) ==
  /\ Active(r) /\ req'[r] \in RequestRecord
  /\ req' = [req EXCEPT ![r] = req'[r]]
  /\ req'[r] = Over \/ (GoesOn(r) /\ req[r].phase # "responding")
  /\ Files(r)
  /\ UNCHANGED <<up, inbox, lingering, diedAt, counter>>

\* The same, taken apart.
LEMMA ServedFacts ==
  ASSUME IInv, NEW r \in Requests, Served(r)
  PROVE  /\ \A q \in Requests \ {r} : req'[q] = req[q] /\ NoteOf(q)' = NoteOf(q)
         /\ Active(r) /\ req[r].phase \notin {"new", "over"}
         /\ Active(r)' => GoesOn(r) /\ req[r].phase # "responding"
         /\ ~Active(r)' => req'[r] = Over
         /\ Active(r)' => req'[r].id = req[r].id
         /\ Active(r)' /\ req[r].phase # "arrived" => NoteOf(r)' = NoteOf(r)
         /\ \A m \in log' : m \in log \/ Records(r, m)
         /\ log' = log \/ \E m : log' = log \cup {m} /\ Records(r, m)
         /\ notes' = notes \/ (req[r].phase = "filing" /\ notes' = notes \cup {NoteOf(r)})
         /\ \A n \in notes' : n \in notes \/ n = NoteOf(r)
         /\ \A n \in notes' : n \in notes \/ n.id = req[r].id
<1>1. \A q \in Requests \ {r} : req'[q] = req[q] /\ NoteOf(q)' = NoteOf(q)
  BY DEF Served, IInv, TypeOK, NoteOf
<1>2. /\ Active(r) /\ req[r].phase \notin {"new", "over"}
      /\ Active(r)' => GoesOn(r) /\ req[r].phase # "responding"
      /\ ~Active(r)' => req'[r] = Over
  BY RequestFields DEF Served, IInv, Active, GoesOn
<1>3. Active(r)' => req'[r].id = req[r].id
  BY <1>2 DEF GoesOn
<1>4. Active(r)' /\ req[r].phase # "arrived" => NoteOf(r)' = NoteOf(r)
  BY <1>2 DEF GoesOn, NoteOf
<1>5. log' = log \/ \E m : log' = log \cup {m} /\ Records(r, m)
  BY DEF Served, Files
<1>6. \A m \in log' : m \in log \/ Records(r, m)
  BY <1>5
<1>7. notes' = notes \/ (req[r].phase = "filing" /\ notes' = notes \cup {NoteOf(r)})
  BY DEF Served, Files
<1>8. \A n \in notes' : n \in notes \/ n = NoteOf(r)
  BY <1>7
<1>9. NoteOf(r).id = req[r].id
  BY DEF NoteOf
<1> QED
  BY <1>1, <1>2, <1>3, <1>4, <1>5, <1>6, <1>7, <1>8, <1>9

\* Numbers, credentials and records stay apart.
LEMMA ServedApart ==
  ASSUME IInv, NEW r \in Requests, Served(r)
  PROVE  NumbersApart' /\ SubjectsKnown' /\ OneRequestPerId'
<1>1. /\ \A q \in Requests \ {r} : req'[q] = req[q]
      /\ req'[r].id \in {0, req[r].id} /\ req'[r].phase # "new"
      /\ req'[r].phase # "over" => req'[r].id = req[r].id
      /\ req'[r].phase = "over" => req'[r].subject = "nobody"
      /\ Active(r)
  BY RequestFields DEF Served, IInv, TypeOK, GoesOn
<1>2. /\ log' = log \/ \E m : log' = log \cup {m} /\ Records(r, m)
      /\ notes' = notes \/ notes' = notes \cup {NoteOf(r)}
      /\ counter' = counter /\ up' = up
  BY DEF Served, Files
<1>3. NumbersApart'
  <2>1. Numbered' = Numbered
    BY <1>1 DEF Numbered, Active
  <2>2. \A q \in Requests : req'[q].id <= counter
    BY <1>1, RequestFields DEF IInv, NumbersApart
  <2>3. \A q \in Requests : Active(q)' => Active(q) /\ req'[q].id = req[q].id
    BY <1>1 DEF Active
  <2>4. \A m \in log' : m.id <= counter
    BY <1>2 DEF Records, IInv, NumbersApart
  <2>5. \A n \in notes' : n.id <= counter
    BY <1>2 DEF NoteOf, IInv, NumbersApart
  <2>6. up # "down"
    BY <1>1, RequestFields DEF IInv, NumbersApart, Active
  <2> QED
    BY <1>2, <2>1, <2>2, <2>3, <2>4, <2>5, <2>6 DEF IInv, NumbersApart
<1>4. SubjectsKnown'
  <2>1. Active(r)' => req'[r].phase # "arrived" /\ req'[r].subject \in Credentials
    BY <1>1, RequestFields DEF Served, GoesOn, Active, IInv, SubjectsKnown
  <2>2. ~Active(r)' => req'[r].subject = "nobody"
    BY <1>1 DEF Active
  <2> QED
    BY <1>1, <2>1, <2>2 DEF IInv, SubjectsKnown, Active
<1>5. OneRequestPerId'
  <2>1. CASE log' = log
    BY <2>1 DEF IInv, OneRequestPerId
  <2>2. ASSUME NEW m, log' = log \cup {m}, Records(r, m) PROVE OneRequestPerId'
    <3>1. \A b \in log : b.id = m.id =>
            /\ b.subject = m.subject /\ b.event # "rejected" /\ m.event # "rejected"
      BY <1>1, <2>2 DEF Records, IInv, RecordsFollow
    <3> QED
      BY <2>2, <3>1 DEF IInv, OneRequestPerId
  <2> QED
    BY <1>2, <2>1, <2>2
<1> QED
  BY <1>3, <1>4, <1>5

\* What is recorded and filed follows the requests.
LEMMA ServedFollow ==
  ASSUME IInv, NEW r \in Requests, Served(r)
  PROVE  RecordsFollow' /\ NotesFollow'
<1>1. /\ \A q \in Requests \ {r} : req'[q] = req[q]
      /\ Active(r)' => GoesOn(r) /\ req[r].phase # "responding"
      /\ Active(r)
  BY RequestFields DEF Served, IInv, TypeOK, Active
<1>2. \A q \in Requests \ {r} : Active(q)' => Active(q) /\ req[q].id # req[r].id
  BY <1>1 DEF IInv, NumbersApart, Active
<1>3. RecordsFollow'
  <2> SUFFICES ASSUME NEW q \in Requests, Active(q)', NEW m \in log', m.id = req'[q].id
               PROVE  /\ req'[q].phase = "responding"
                      /\ m.subject = req'[q].subject /\ m.event # "rejected"
    BY DEF RecordsFollow
  <2>1. CASE q # r
    <3>1. m \in log
      BY <1>1, <1>2, <2>1, ServedFacts DEF Records
    <3> QED
      BY <1>1, <1>2, <2>1, <3>1 DEF IInv, RecordsFollow
  <2>2. CASE q = r
    <3>1. req'[r].id = req[r].id
      BY <1>1, <2>2 DEF GoesOn
    <3>2. CASE m \in log
      BY <1>1, <2>2, <3>1, <3>2 DEF IInv, RecordsFollow
    <3>3. CASE m \notin log
      <4>1. Records(r, m)
        BY <3>3 DEF Served, Files
      <4> QED
        BY <1>1, <2>2, <4>1 DEF Records, GoesOn, Active
    <3> QED
      BY <3>2, <3>3
  <2> QED
    BY <2>1, <2>2
<1>4. NotesFollow'
  <2> SUFFICES ASSUME NEW q \in Requests
               PROVE  /\ Active(q)' => \A n \in notes' : n.id = req'[q].id =>
                           \/ req'[q].phase = "responding"
                           \/ /\ req'[q].phase = "filed" /\ req'[q].reply = "filed"
                              /\ n = NoteOf(q)'
                      /\ req'[q].phase = "filed" =>
                           \/ req'[q].reply = "filed" /\ NoteOf(q)' \in notes'
                           \/ req'[q].reply = "not filed"
    BY DEF NotesFollow
  <2>1. CASE q # r
    <3>1. NoteOf(q)' = NoteOf(q) /\ notes \subseteq notes'
      BY <1>1, <2>1 DEF NoteOf, Served, Files
    <3>2. \A n \in notes' : n \in notes \/ n.id = req[r].id
      BY ServedFacts
    <3> QED
      BY <1>1, <1>2, <2>1, <3>1, <3>2 DEF IInv, NotesFollow
  <2>2. CASE q = r
    <3>1. ASSUME Active(r)'
          PROVE  /\ req'[r].id = req[r].id
                 /\ req[r].phase # "arrived" => NoteOf(r)' = NoteOf(r)
                 /\ req[r].phase \notin {"responding", "filed"} =>
                      \A n \in notes : n.id # req[r].id
      BY <1>1, <3>1 DEF GoesOn, NoteOf, IInv, NotesFollow
    <3>2. CASE req[r].phase = "filing" /\ req'[r].phase = "filed"
      <4>1. Active(r)' /\ NoteOf(r)' = NoteOf(r)
        BY <3>1, <3>2 DEF Active
      <4> QED
        BY <2>2, <3>1, <3>2, <4>1 DEF Served, Files, NoteOf
    <3>3. CASE req[r].phase = "filed" /\ req'[r].phase = "filed"
      <4>1. Active(r)' /\ NoteOf(r)' = NoteOf(r)
        BY <3>1, <3>3 DEF Active
      <4>2. req'[r].reply = req[r].reply /\ notes' = notes
        BY <3>3 DEF Served, Files
      <4> QED
        BY <1>1, <2>2, <3>1, <3>3, <4>1, <4>2 DEF IInv, NotesFollow
    <3>4. CASE req'[r].phase # "filed" /\ notes' = notes
      <4>1. CASE req[r].phase # "filed"
        BY <1>1, <2>2, <3>1, <3>4, <4>1 DEF IInv, NotesFollow
      <4>2. CASE req[r].phase = "filed"
        <5>1. req'[r].phase \in {"responding", "over"}
          BY <4>2, <3>4 DEF Served, Files, Records
        <5> QED
          BY <2>2, <3>4, <5>1 DEF Active
      <4> QED
        BY <4>1, <4>2
    <3> QED
      BY <3>2, <3>3, <3>4 DEF Served, Files
  <2> QED
    BY <2>1, <2>2
<1> QED
  BY <1>3, <1>4

\* The record of a note is written when its request is done with it.
LEMMA ServedAudited ==
  ASSUME IInv, NEW r \in Requests, Served(r)
  PROVE  NotesAudited'
<1> DEFINE audited == {[id |-> m.id, subject |-> m.subject] :
                         m \in {m \in log : m.event = "append_note" /\ m.outcome = "filed"}}
           open == {NoteOf(q) : q \in {q \in Requests : req[q].phase = "filed"}}
<1>1. /\ NotesAudited <=> audited = notes \ open
      /\ NotesAudited' <=> audited' = notes' \ open'
  BY DEF NotesAudited, NoteOf
<1>2. /\ \A q \in Requests \ {r} : req'[q] = req[q] /\ NoteOf(q)' = NoteOf(q)
      /\ Active(r)
  BY RequestFields DEF Served, IInv, TypeOK, NoteOf
<1>3. \A q \in Requests \ {r} : req[q].phase = "filed" => NoteOf(q) # NoteOf(r)
  BY <1>2 DEF IInv, NumbersApart, NoteOf, Active
<1>4. CASE req[r].phase = "filing" /\ req'[r].phase = "filed"
  <2>1. NoteOf(r)' = NoteOf(r) /\ log' = log
    BY <1>4, ServedFacts DEF Active, Served, Files
  <2>2. open' = open \cup {NoteOf(r)}
    BY <1>2, <1>4, <2>1
  <2>3. NoteOf(r) \notin notes /\ audited' = audited
    BY <1>2, <1>4, <2>1 DEF IInv, NotesFollow, NoteOf
  <2>4. notes' = notes \/ notes' = notes \cup {NoteOf(r)}
    BY DEF Served, Files
  <2> HIDE DEF audited, open
  <2> QED
    BY <1>1, <2>2, <2>3, <2>4 DEF IInv
<1>5. CASE req[r].phase = "filed" /\ req'[r].phase = "filed"
  <2>1. NoteOf(r)' = NoteOf(r) /\ log' = log /\ notes' = notes
    BY <1>5, ServedFacts DEF Active, Served, Files
  <2>2. open' = open
    BY <1>2, <1>5, <2>1
  <2>3. audited' = audited
    BY <2>1
  <2> HIDE DEF audited, open
  <2> QED
    BY <1>1, <2>1, <2>2, <2>3 DEF IInv
<1>6. CASE req[r].phase # "filed" /\ req'[r].phase # "filed"
  <2>1. open' = open
    BY <1>2, <1>6
  <2>3. notes' = notes
    BY <1>6 DEF Served, Files
  <2>2. audited' = audited
    BY <1>6, ServedFacts DEF Records
  <2> HIDE DEF audited, open
  <2> QED
    BY <1>1, <2>1, <2>2, <2>3 DEF IInv
<1>7. CASE req[r].phase = "filed" /\ req'[r].phase # "filed"
  <2>1. PICK m : log' = log \cup {m} /\ Records(r, m) /\ notes' = notes
    BY <1>7 DEF Served, Files
  <2>2. open = open' \cup {NoteOf(r)} /\ NoteOf(r) \notin open'
    BY <1>2, <1>3, <1>7
  <2>3. CASE req[r].reply = "filed"
    <3>1. NoteOf(r) \in notes
      BY <1>7, <2>3 DEF IInv, NotesFollow
    <3>2. /\ m.event = "append_note" /\ m.outcome = "filed"
          /\ [id |-> m.id, subject |-> m.subject] = NoteOf(r)
      BY <1>7, <2>1, <2>3 DEF Records, NoteOf
    <3>3. audited' = audited \cup {NoteOf(r)}
      BY <2>1, <3>2
    <3> HIDE DEF audited, open
    <3> QED
      BY <1>1, <2>1, <2>2, <3>1, <3>3 DEF IInv
  <2>4. CASE req[r].reply = "not filed"
    <3>1. audited' = audited /\ NoteOf(r) \notin notes
      BY <1>2, <1>7, <2>1, <2>4 DEF Records, NoteOf, IInv, NotesFollow
    <3> HIDE DEF audited, open
    <3> QED
      BY <1>1, <2>1, <2>2, <3>1 DEF IInv
  <2> QED
    BY <1>7, <2>3, <2>4 DEF IInv, NotesFollow
<1> QED
  BY <1>4, <1>5, <1>6, <1>7 DEF Served, Files

\* A dead token gets nothing new.
LEMMA ServedDead ==
  ASSUME IInv, NEW r \in Requests, Served(r)
  PROVE  DeadTokensServeNoLater'
<1> SUFFICES ASSUME NEW t \in Tokens, Dead(t)
             PROVE  /\ \A q \in Requests : req'[q].subject = t => req'[q].id <= diedAt[t]
                    /\ \A n \in notes' : n.subject = t => n.id <= diedAt[t]
  BY DEF DeadTokensServeNoLater, Served, Dead
<1>1. /\ \A q \in Requests : req[q].subject = t => req[q].id <= diedAt[t]
      /\ \A n \in notes : n.subject = t => n.id <= diedAt[t]
  BY DEF IInv, DeadTokensServeNoLater
<1>2. /\ \A q \in Requests \ {r} : req'[q] = req[q]
      /\ req'[r].subject = t => req[r].subject = t /\ req'[r].id = req[r].id
  BY RequestFields, Somebody DEF Served, IInv, TypeOK, GoesOn, Credentials
<1>3. \A n \in notes' : n \in notes \/ (n.id = req[r].id /\ n.subject = req[r].subject)
  <2>1. NoteOf(r).id = req[r].id /\ NoteOf(r).subject = req[r].subject
    BY DEF NoteOf
  <2> QED
    BY <2>1, ServedFacts
<1> QED
  BY <1>1, <1>2, <1>3

----------------------------------------------------------------------------
(* Permits and the line.                                                   *)

Holds(r) == req[r].phase \in Holding /\ ~req[r].left

Waiting == {r \in Requests : req[r].phase = "queued"}

\* The line is made of these, once each.
LineOf(q, S) == IsInjective(q) /\ {q[i] : i \in DOMAIN q} = S

\* Whoever gets in line is last.
LEMMA AppendToLine ==
  ASSUME NEW q \in Seq(Requests), NEW S, LineOf(q, S), NEW r \in Requests, r \notin S
  PROVE  Append(q, r) \in Seq(Requests) /\ LineOf(Append(q, r), S \cup {r})
<1> DEFINE p == Append(q, r)
<1>1. /\ p \in Seq(Requests) /\ Len(q) \in Nat /\ DOMAIN q = 1 .. Len(q)
      /\ DOMAIN p = 1 .. (Len(q) + 1)
      /\ \A i \in DOMAIN q : p[i] = q[i]
      /\ p[Len(q) + 1] = r
  OBVIOUS
<1>2. \A i \in DOMAIN q : q[i] # r
  BY DEF LineOf
<1>3. \A i \in DOMAIN p : i \in DOMAIN q \/ i = Len(q) + 1
  BY <1>1
<1> HIDE DEF p
<1>4. IsInjective(p)
  BY <1>1, <1>2, <1>3 DEF LineOf, IsInjective
<1>5. {p[i] : i \in DOMAIN p} = S \cup {r}
  <2>1. DOMAIN q \subseteq DOMAIN p /\ Len(q) + 1 \in DOMAIN p
    BY <1>1
  <2> QED
    BY <1>1, <1>3, <2>1 DEF LineOf
<1> QED
  BY <1>1, <1>4, <1>5 DEF LineOf, p

\* When the j-th leaves the line, those behind it move up.
LEMMA LineCloses ==
  ASSUME NEW q \in Seq(Requests), NEW S, LineOf(q, S), NEW j \in DOMAIN q,
         NEW p \in Seq(Requests), Len(p) = Len(q) - 1,
         \A i \in DOMAIN p : p[i] = IF i < j THEN q[i] ELSE q[i + 1]
  PROVE  LineOf(p, S \ {q[j]})
<1> DEFINE n == Len(q)
           at(i) == IF i < j THEN i ELSE i + 1
<1>1. n \in Nat /\ DOMAIN q = 1 .. n /\ j \in 1 .. n /\ DOMAIN p = 1 .. (n - 1)
  OBVIOUS
<1>2. \A i \in DOMAIN p : at(i) \in DOMAIN q /\ at(i) # j /\ p[i] = q[at(i)]
  BY <1>1
<1>3. \A a, b \in DOMAIN p : at(a) = at(b) => a = b
  BY <1>1
<1>4. \A a, b \in DOMAIN q : q[a] = q[b] => a = b
  BY DEF LineOf, IsInjective
<1> HIDE DEF n, at
<1>5. IsInjective(p)
  BY <1>2, <1>3, <1>4 DEF IsInjective
<1>6. {p[i] : i \in DOMAIN p} = S \ {q[j]}
  <2>1. ASSUME NEW i \in DOMAIN p PROVE p[i] \in S \ {q[j]}
    <3>1. at(i) \in DOMAIN q /\ at(i) # j /\ p[i] = q[at(i)]
      BY <1>2
    <3> QED
      BY <1>4, <3>1 DEF LineOf
  <2>2. ASSUME NEW r \in S \ {q[j]} PROVE \E i \in DOMAIN p : p[i] = r
    <3>1. PICK k \in DOMAIN q : q[k] = r
      BY DEF LineOf
    <3>2. \E i \in DOMAIN p : at(i) = k
      <4>1. CASE k < j
        <5>1. k \in DOMAIN p /\ at(k) = k
          BY <1>1, <3>1, <4>1 DEF at
        <5> QED
          BY <5>1
      <4>2. CASE k > j
        <5>1. k - 1 \in DOMAIN p /\ at(k - 1) = k
          BY <1>1, <3>1, <4>2 DEF at
        <5> QED
          BY <5>1
      <4> QED
        BY <1>1, <3>1, <4>1, <4>2
    <3> QED
      BY <1>2, <3>1, <3>2
  <2> QED
    BY <2>1, <2>2
<1> QED
  BY <1>5, <1>6 DEF LineOf

\* Whoever leaves the line, from its head or from anywhere, leaves the others.
LEMMA RemoveFromLine ==
  ASSUME NEW q \in Seq(Requests), NEW S, LineOf(q, S), NEW j \in DOMAIN q
  PROVE  RemoveAt(q, j) \in Seq(Requests) /\ LineOf(RemoveAt(q, j), S \ {q[j]})
<1> DEFINE n == Len(q)
           a == SubSeq(q, 1, j - 1)
           b == SubSeq(q, j + 1, n)
<1>1. n \in Nat /\ DOMAIN q = 1 .. n /\ j \in 1 .. n
  OBVIOUS
<1>2. a \in Seq(Requests) /\ Len(a) = j - 1 /\ \A i \in 1 .. (j - 1) : a[i] = q[i]
  BY <1>1
<1>3. b \in Seq(Requests) /\ Len(b) = n - j /\ \A i \in 1 .. (n - j) : b[i] = q[i + j]
  BY <1>1
<1>4. RemoveAt(q, j) = a \o b
  BY DEF RemoveAt
<1> HIDE DEF a, b, n
<1>5. /\ a \o b \in Seq(Requests) /\ Len(a \o b) = n - 1
      /\ \A i \in 1 .. (n - 1) : (a \o b)[i] = IF i < j THEN q[i] ELSE q[i + 1]
  <2>0. a \o b \in Seq(Requests) /\ Len(a \o b) = Len(a) + Len(b)
    BY <1>2, <1>3, ConcatProperties
  <2>1. Len(a \o b) = n - 1
    BY <1>1, <1>2, <1>3, <2>0
  <2>2. ASSUME NEW i \in 1 .. (n - 1), i < j PROVE (a \o b)[i] = q[i]
    BY <1>1, <1>2, <1>3, <2>2
  <2>3. ASSUME NEW i \in 1 .. (n - 1), ~(i < j) PROVE (a \o b)[i] = q[i + 1]
    BY <1>1, <1>2, <1>3, <2>3
  <2> QED
    BY <2>0, <2>1, <2>2, <2>3
<1> DEFINE p == a \o b
<1>6. p \in Seq(Requests) /\ Len(p) = Len(q) - 1 /\ DOMAIN p = 1 .. (n - 1)
  <2>1. p \in Seq(Requests) /\ Len(p) = n - 1
    BY <1>5
  <2> QED
    BY <1>1, <2>1, LenProperties DEF n
<1>7. \A i \in DOMAIN p : p[i] = IF i < j THEN q[i] ELSE q[i + 1]
  BY <1>5, <1>6
<1>8. RemoveAt(q, j) = p
  BY <1>4
<1> HIDE DEF p
<1> QED
  BY <1>6, <1>7, <1>8, LineCloses

\* The same of whoever is at the head.
LEMMA TailOfLine ==
  ASSUME NEW q \in Seq(Requests), NEW S, LineOf(q, S), q # <<>>
  PROVE  Tail(q) \in Seq(Requests) /\ LineOf(Tail(q), S \ {Head(q)})
<1>1. /\ Tail(q) \in Seq(Requests) /\ Len(Tail(q)) = Len(q) - 1
      /\ 1 \in DOMAIN q /\ Head(q) = q[1]
      /\ \A i \in DOMAIN Tail(q) : i \in Nat /\ ~(i < 1) /\ Tail(q)[i] = q[i + 1]
  OBVIOUS
<1> QED
  BY <1>1, LineCloses

\* The request takes a permit, gives one back or neither.
PermitMoves(r) ==
  \/ free' = free /\ r \in Holders /\ r \in Holders'
  \/ free' = free /\ r \notin Holders /\ r \notin Holders'
  \/ free > 0 /\ free' = free - 1 /\ r \notin Holders /\ r \in Holders'
  \/ free' = free + 1 /\ r \in Holders /\ r \notin Holders'

\* Of any request, at any time.
LEMMA HoldersFinite ==
  ASSUME NEW S \in SUBSET Requests
  PROVE  IsFiniteSet(S) /\ Cardinality(S) \in Nat
BY FS_Subset, FS_CardinalityType, McpAssumption

\* No permit is lost or made.
LEMMA PermitStep ==
  ASSUME IInv, NEW r \in Requests, Served(r), PermitMoves(r)
  PROVE  free' \in 0 .. MaxPermits /\ free' + Cardinality(Holders') = MaxPermits
<1>1. \A q \in Requests \ {r} : req'[q] = req[q]
  BY DEF Served, IInv, TypeOK
<1>2. \A q \in Requests \ {r} : q \in Holders' <=> q \in Holders
  BY <1>1 DEF Holders
<1>3. Holders \subseteq Requests /\ Holders' \subseteq Requests
  BY DEF Holders
<1>4. /\ free \in Nat /\ MaxPermits \in Nat /\ free + Cardinality(Holders) = MaxPermits
      /\ IsFiniteSet(Holders) /\ Cardinality(Holders) \in Nat /\ Cardinality(Holders') \in Nat
  <2>1. free + Cardinality(Holders) = MaxPermits
    BY DEF IInv, PermitsConserved
  <2>2. free \in Nat /\ MaxPermits \in Nat
    <3>1. MaxPermits \in Nat
      BY McpAssumption
    <3>2. free \in 0 .. MaxPermits
      BY DEF IInv, TypeOK
    <3> QED
      BY <3>1, <3>2
  <2>3. IsFiniteSet(Holders) /\ Cardinality(Holders) \in Nat /\ Cardinality(Holders') \in Nat
    BY <1>3, HoldersFinite
  <2> QED
    BY <2>1, <2>2, <2>3
<1>5. CASE \/ free' = free /\ r \in Holders /\ r \in Holders'
           \/ free' = free /\ r \notin Holders /\ r \notin Holders'
  <2>1. Holders' = Holders
    BY <1>2, <1>3, <1>5
  <2> QED
    BY <1>4, <1>5, <2>1
<1>6. CASE free > 0 /\ free' = free - 1 /\ r \notin Holders /\ r \in Holders'
  <2>1. Holders' = Holders \cup {r}
    BY <1>2, <1>3, <1>6
  <2>2. Cardinality(Holders') = Cardinality(Holders) + 1
    BY <1>4, <1>6, <2>1, FS_AddElement
  <2> QED
    BY <1>4, <1>6, <2>2
<1>7. CASE free' = free + 1 /\ r \in Holders /\ r \notin Holders'
  <2>1. Holders' = Holders \ {r}
    BY <1>2, <1>3, <1>7
  <2>2. Cardinality(Holders') = Cardinality(Holders) - 1
    BY <1>4, <1>7, <2>1, FS_RemoveElement
  <2> QED
    BY <1>4, <1>7, <2>2
<1> QED
  BY <1>5, <1>6, <1>7 DEF PermitMoves

\* The request gets in line, leaves it or neither.
LineMoves(r) ==
  \/ queue' = queue /\ r \notin Waiting /\ r \notin Waiting'
  \/ queue' = Append(queue, r) /\ r \notin Waiting /\ r \in Waiting'
  \/ /\ queue # <<>> /\ Head(queue) = r /\ queue' = Tail(queue)
     /\ r \notin Waiting'
  \/ \E i \in DOMAIN queue :
       queue[i] = r /\ queue' = RemoveAt(queue, i) /\ r \notin Waiting'

\* The line is made of those that wait.
LEMMA LineStep ==
  ASSUME IInv, NEW r \in Requests, Served(r), LineMoves(r)
  PROVE  queue' \in Seq(Requests) /\ LineOf(queue', Waiting')
<1>1. \A q \in Requests \ {r} : req'[q] = req[q]
  BY DEF Served, IInv, TypeOK
<1>2. \A q \in Requests \ {r} : q \in Waiting' <=> q \in Waiting
  BY <1>1 DEF Waiting
<1>3. Waiting \subseteq Requests /\ Waiting' \subseteq Requests
  BY DEF Waiting
<1>4. queue \in Seq(Requests) /\ LineOf(queue, Waiting)
  BY DEF IInv, TypeOK, PermitsConserved, LineOf, Waiting
<1>5. CASE queue' = queue /\ r \notin Waiting /\ r \notin Waiting'
  <2>1. Waiting' = Waiting
    BY <1>2, <1>3, <1>5
  <2> QED
    BY <1>4, <1>5, <2>1
<1>6. CASE queue' = Append(queue, r) /\ r \notin Waiting /\ r \in Waiting'
  <2>1. Waiting' = Waiting \cup {r}
    BY <1>2, <1>3, <1>6
  <2> QED
    BY <1>4, <1>6, <2>1, AppendToLine
<1>7. ASSUME r \notin Waiting' PROVE Waiting' = Waiting \ {r}
  BY <1>2, <1>3, <1>7
<1>8. CASE /\ queue # <<>> /\ Head(queue) = r /\ queue' = Tail(queue)
           /\ r \notin Waiting'
  BY <1>4, <1>7, <1>8, TailOfLine
<1>9. CASE \E i \in DOMAIN queue :
             queue[i] = r /\ queue' = RemoveAt(queue, i) /\ r \notin Waiting'
  BY <1>4, <1>7, <1>9, RemoveFromLine
<1> QED
  BY <1>5, <1>6, <1>8, <1>9 DEF LineMoves

----------------------------------------------------------------------------
(* One step for a request.                                                 *)

\* Unless it may see append_note, it is not in the tool and its answer is
\* that of a server without an inbox.
Hides(r) ==
  ~Visible(r)' =>
    /\ req'[r].phase \notin InTool
    /\ req'[r].phase = "responding" => req'[r].reply \in WithoutInbox(req'[r].call)

\* Without a client there is only its tool.
Leaves(r) == req'[r].left => req'[r].phase \in {"called"} \cup InTool

Step(r) ==
  /\ Served(r) /\ PermitMoves(r) /\ LineMoves(r) /\ Hides(r) /\ Leaves(r)
  /\ budget' \in [Credentials -> 0 .. Burst] /\ writeBudget' \in 0 .. WritesPerHour

\* Such a step keeps the invariant.
LEMMA StepKeeps ==
  ASSUME IInv, NEW r \in Requests, Step(r)
  PROVE  IInv'
<1>1. /\ Served(r) /\ PermitMoves(r) /\ LineMoves(r) /\ Hides(r) /\ Leaves(r)
      /\ budget' \in [Credentials -> 0 .. Burst] /\ writeBudget' \in 0 .. WritesPerHour
  BY DEF Step
<1>2. /\ NumbersApart' /\ SubjectsKnown' /\ OneRequestPerId' /\ RecordsFollow'
      /\ NotesFollow' /\ NotesAudited' /\ DeadTokensServeNoLater'
  BY <1>1, ServedApart, ServedFollow, ServedAudited, ServedDead
<1>3. TypeOK'
  <2>1. req' \in [Requests -> RequestRecord]
    BY <1>1 DEF Served, IInv, TypeOK, RequestRecord
  <2>2. log' \subseteq LogRecord
    BY <1>1, ServedFacts DEF Records, IInv, TypeOK, LogRecord
  <2>3. notes' \subseteq Note
    <3>1. req[r].phase = "filing" => NoteOf(r) \in Note
      BY RequestFields DEF IInv, SubjectsKnown, Active, NoteOf, Note
    <3> QED
      BY <1>1, <3>1, ServedFacts DEF IInv, TypeOK, Note
  <2>4. free' \in 0 .. MaxPermits /\ queue' \in Seq(Requests)
    BY <1>1, PermitStep, LineStep
  <2> QED
    BY <1>1, <2>1, <2>2, <2>3, <2>4 DEF Served, IInv, TypeOK, RequestRecord, LogRecord, Note,
      Ids, Alive
<1>4. PermitsConserved'
  BY <1>1, PermitStep, LineStep DEF PermitsConserved, LineOf, Waiting
<1>5. NoteToolHidden'
  <2>1. \A q \in Requests \ {r} : req'[q] = req[q]
    BY <1>1 DEF Served, IInv, TypeOK
  <2>2. ASSUME NEW q \in Requests, q # r, ~Visible(q)'
        PROVE  /\ req'[q].phase \notin InTool
               /\ req'[q].phase = "responding" => req'[q].reply \in WithoutInbox(req'[q].call)
    BY <1>1, <2>1, <2>2 DEF Visible, Served, IInv, NoteToolHidden
  <2> QED
    BY <1>1, <2>2 DEF Hides, NoteToolHidden
<1>6. ToolsGoOn'
  BY <1>1 DEF Leaves, ToolsGoOn, Served, IInv, TypeOK
<1> QED
  BY <1>2, <1>3, <1>4, <1>5, <1>6 DEF IInv

----------------------------------------------------------------------------
(* Each action for a request is such a step.                               *)

\* What is needed to see that.
LEMMA Before ==
  ASSUME IInv, NEW r \in Requests
  PROVE  /\ req[r] \in RequestRecord /\ req[r].id \in Ids /\ req \in [Requests -> RequestRecord]
         /\ req[r].phase \notin {"new", "over", "arrived"} => req[r].subject \in Credentials
         /\ req[r].left => req[r].phase \in {"called"} \cup InTool
         /\ Over \in RequestRecord /\ Over.phase = "over" /\ ~Over.left
         /\ ~Visible(r) =>
              /\ req[r].phase \notin InTool
              /\ req[r].phase = "responding" => req[r].reply \in WithoutInbox(req[r].call)
         /\ budget \in [Credentials -> 0 .. Burst] /\ writeBudget \in 0 .. WritesPerHour
<1>1. req \in [Requests -> RequestRecord]
  BY DEF IInv, TypeOK, RequestRecord
<1> QED
  BY <1>1, RequestFields DEF IInv, TypeOK, SubjectsKnown, Active, NoteToolHidden,
    ToolsGoOn

\* The body arrives.
LEMMA DeliverStep ==
  ASSUME IInv, NEW r \in Requests, Deliver(r)
  PROVE  Step(r)
<1>1. PICK call \in Calls : req' = [req EXCEPT ![r].phase = "called", ![r].call = call]
  BY DEF Deliver
<1>2. /\ req'[r] \in RequestRecord /\ req'[r].phase = "called" /\ req'[r].id = req[r].id
      /\ req'[r].subject = req[r].subject /\ req'[r].left = req[r].left
      /\ req' = [req EXCEPT ![r] = req'[r]]
  BY <1>1, Before DEF RequestRecord, Phases, Holding
<1>3. Served(r)
  BY <1>2 DEF Deliver, Served, Active, GoesOn, Files, environment
<1>4. PermitMoves(r) /\ LineMoves(r)
  BY <1>2 DEF Deliver, PermitMoves, LineMoves, Holders, Holding, Waiting
<1>5. Hides(r) /\ Leaves(r)
  BY <1>2 DEF Hides, Leaves, InTool
<1> QED
  BY <1>3, <1>4, <1>5, Before DEF Step, Deliver

\* A request is known by its credential, which is no dead token, or refused.
LEMMA AuthenticateStep ==
  ASSUME IInv, NEW r \in Requests, Authenticate(r)
  PROVE  Step(r)
<1>0. /\ req[r].phase = "arrived" /\ UNCHANGED <<queue, free, notes, budget, writeBudget>>
      /\ UNCHANGED <<up, inbox, lingering, diedAt, counter>>
  BY DEF Authenticate, environment
<1>1. CASE log' = log \cup {Record("rejected", r, "unauthorized")}
           /\ req' = [req EXCEPT ![r] = Over]
  <2>1. req'[r] = Over /\ req' = [req EXCEPT ![r] = req'[r]]
    BY <1>1, Before
  <2>2. Records(r, Record("rejected", r, "unauthorized"))
    BY <1>0, <2>1, Before, RequestFields DEF IInv, Records, Record, LogRecord
  <2>3. Served(r)
    BY <1>0, <1>1, <2>1, <2>2, Before DEF Served, Active, Files
  <2>4. PermitMoves(r) /\ LineMoves(r) /\ Hides(r) /\ Leaves(r)
    BY <1>0, <2>1, Before DEF PermitMoves, LineMoves, Holders, Holding, Waiting, Hides,
      Leaves, InTool
  <2> QED
    BY <1>0, <2>3, <2>4, Before DEF Step
<1>2. ASSUME NEW c \in Credentials, \A t \in Tokens : Dead(t) => c # t, log' = log,
             req' = [req EXCEPT ![r].phase = "known", ![r].subject = c]
      PROVE  Step(r)
  <2>1. /\ req'[r] \in RequestRecord /\ req'[r].phase = "known" /\ req'[r].id = req[r].id
        /\ req'[r].subject = c /\ req'[r].left = req[r].left
        /\ req' = [req EXCEPT ![r] = req'[r]]
    BY <1>2, Before DEF RequestRecord, Phases, Straight
  <2>2. Served(r)
    BY <1>0, <1>2, <2>1 DEF Served, Active, GoesOn, Files
  <2>3. PermitMoves(r) /\ LineMoves(r) /\ Hides(r) /\ Leaves(r)
    BY <1>0, <2>1, Before DEF PermitMoves, LineMoves, Holders, Holding, Waiting, Hides,
      Leaves, InTool
  <2> QED
    BY <1>0, <2>2, <2>3, Before DEF Step
<1>3. PICK authorization \in {"absent", "malformed"} \cup Tokens,
           apiKey \in {"absent", "wrong"} \cup ApiKeys :
        LET subject == AuthenticateHeaders(authorization, apiKey)
        IN IF subject = "nobody"
           THEN /\ Write(Record("rejected", r, "unauthorized"))
                /\ req' = [req EXCEPT ![r] = Over]
           ELSE /\ req' = [req EXCEPT ![r].phase = "known", ![r].subject = subject]
                /\ UNCHANGED log
  BY DEF Authenticate
<1> DEFINE c == AuthenticateHeaders(authorization, apiKey)
<1>4. c # "nobody" => c \in Credentials /\ \A t \in Tokens : Dead(t) => c # t
  BY McpAssumption DEF AuthenticateHeaders, Credentials
<1> HIDE DEF c
<1>5. CASE c = "nobody"
  BY <1>1, <1>3, <1>5 DEF c, Write
<1>6. CASE c # "nobody"
  <2>1. req' = [req EXCEPT ![r].phase = "known", ![r].subject = c] /\ log' = log
    BY <1>3, <1>6 DEF c
  <2> QED
    BY <1>2, <1>4, <1>6, <2>1
<1> QED
  BY <1>5, <1>6

\* A request is charged to its credential, or refused.
LEMMA CheckRateStep ==
  ASSUME IInv, NEW r \in Requests, CheckRate(r)
  PROVE  Step(r)
<1>0. /\ req[r].phase = "known" /\ UNCHANGED <<queue, free, notes, writeBudget>>
      /\ UNCHANGED <<up, inbox, lingering, diedAt, counter>>
  BY DEF CheckRate, environment
<1> DEFINE m == [Record("rejected", r, "rate limited") EXCEPT !.subject = "nobody"]
<1>1. CASE log' = log \cup {m} /\ req' = [req EXCEPT ![r] = Over] /\ budget' = budget
  <2>1. req'[r] = Over /\ req' = [req EXCEPT ![r] = req'[r]]
    BY <1>1, Before
  <2>2. Records(r, m)
    BY <1>0, <2>1, Before, RequestFields DEF IInv, Records, Record, LogRecord
  <2>3. Served(r)
    BY <1>0, <1>1, <2>1, <2>2, Before DEF Served, Active, Files
  <2>4. PermitMoves(r) /\ LineMoves(r) /\ Hides(r) /\ Leaves(r)
    BY <1>0, <2>1, Before DEF PermitMoves, LineMoves, Holders, Holding, Waiting, Hides,
      Leaves, InTool
  <2> QED
    BY <1>0, <1>1, <2>3, <2>4, Before DEF Step
<1>2. CASE /\ \E n \in Paid(budget[req[r].subject], Burst) :
                budget' = [budget EXCEPT ![req[r].subject] = n]
           /\ req' = [req EXCEPT ![r].phase = "admitted"] /\ log' = log
  <2>0. req' = [req EXCEPT ![r].phase = "admitted"] /\ "admitted" \in Phases
    BY <1>2 DEF Phases, Straight
  <2>1. /\ req'[r] \in RequestRecord /\ req'[r].phase = "admitted" /\ req'[r].id = req[r].id
        /\ req'[r].subject = req[r].subject /\ req'[r].left = req[r].left
        /\ req' = [req EXCEPT ![r] = req'[r]]
    BY <2>0, Before DEF RequestRecord
  <2>2. Served(r)
    BY <1>0, <1>2, <2>1 DEF Served, Active, GoesOn, Files
  <2>3. PermitMoves(r) /\ LineMoves(r) /\ Hides(r) /\ Leaves(r)
    BY <1>0, <2>1, Before DEF PermitMoves, LineMoves, Holders, Holding, Waiting, Hides,
      Leaves, InTool
  <2>4. budget' \in [Credentials -> 0 .. Burst]
    <3>1. req[r].subject \in Credentials
      BY <1>0, Before
    <3>2. Paid(budget[req[r].subject], Burst) \subseteq 0 .. Burst
      BY <3>1, Before, McpAssumption DEF Paid
    <3> QED
      BY <1>2, <3>1, <3>2, Before
  <2> QED
    BY <1>0, <2>2, <2>3, <2>4, Before DEF Step
<1> QED
  BY <1>1, <1>2 DEF CheckRate, Write

\* A request gets in line, or is answered at once.
LEMMA EnqueueStep ==
  ASSUME IInv, NEW r \in Requests, Enqueue(r)
  PROVE  Step(r)
<1>0. /\ req[r].phase = "admitted" /\ UNCHANGED <<free, notes, budget, writeBudget>>
      /\ UNCHANGED <<up, inbox, lingering, diedAt, counter>>
  BY DEF Enqueue, environment
<1>1. CASE log' = log \cup {Record("http", r, "done")} /\ req' = [req EXCEPT ![r] = Over]
           /\ queue' = queue
  <2>1. req'[r] = Over /\ req' = [req EXCEPT ![r] = req'[r]]
    BY <1>1, Before
  <2>2. Records(r, Record("http", r, "done"))
    BY <1>0, <2>1, Before DEF Records, Record, LogRecord
  <2>3. Served(r)
    BY <1>0, <1>1, <2>1, <2>2, Before DEF Served, Active, Files
  <2>4. PermitMoves(r) /\ LineMoves(r) /\ Hides(r) /\ Leaves(r)
    BY <1>0, <1>1, <2>1, Before DEF PermitMoves, LineMoves, Holders, Holding, Waiting, Hides,
      Leaves, InTool
  <2> QED
    BY <1>0, <2>3, <2>4, Before DEF Step
<1>2. CASE log' = log /\ req' = [req EXCEPT ![r].phase = "queued"] /\ queue' = Append(queue, r)
  <2>0. req' = [req EXCEPT ![r].phase = "queued"] /\ "queued" \in Phases
    BY <1>2 DEF Phases
  <2>1. /\ req'[r] \in RequestRecord /\ req'[r].phase = "queued" /\ req'[r].id = req[r].id
        /\ req'[r].subject = req[r].subject /\ req'[r].left = req[r].left
        /\ req' = [req EXCEPT ![r] = req'[r]]
    BY <2>0, Before DEF RequestRecord
  <2>2. Served(r)
    BY <1>0, <1>2, <2>1 DEF Served, Active, GoesOn, Files
  <2>3. PermitMoves(r) /\ LineMoves(r) /\ Hides(r) /\ Leaves(r)
    BY <1>0, <1>2, <2>1, Before DEF PermitMoves, LineMoves, Holders, Holding, Waiting, Hides,
      Leaves, InTool
  <2> QED
    BY <1>0, <2>2, <2>3, Before DEF Step
<1> QED
  BY <1>1, <1>2 DEF Enqueue, Write

\* The first in line gets a permit.
LEMMA AcquireStep ==
  ASSUME IInv, NEW r \in Requests, Acquire(r)
  PROVE  Step(r)
<1>0. /\ free > 0 /\ queue # <<>> /\ Head(queue) = r /\ free' = free - 1
      /\ queue' = Tail(queue) /\ req' = [req EXCEPT ![r].phase = "reading"]
      /\ UNCHANGED <<log, notes, budget, writeBudget>>
      /\ UNCHANGED <<up, inbox, lingering, diedAt, counter>>
  BY DEF Acquire, environment
<1>1. req[r].phase = "queued"
  <2>0. queue \in Seq(Requests) /\ queue # <<>> /\ Head(queue) = r
    BY <1>0 DEF IInv, TypeOK
  <2>1. 1 \in DOMAIN queue /\ queue[1] = r
    BY <2>0
  <2> QED
    BY <2>1 DEF IInv, PermitsConserved
<1>2. "reading" \in Phases
  BY DEF Phases, Holding
<1>3. /\ req'[r] \in RequestRecord /\ req'[r].phase = "reading" /\ req'[r].id = req[r].id
      /\ req'[r].subject = req[r].subject /\ req'[r].left = req[r].left
      /\ req' = [req EXCEPT ![r] = req'[r]]
  BY <1>0, <1>2, Before DEF RequestRecord
<1>4. Served(r)
  BY <1>0, <1>1, <1>3 DEF Served, Active, GoesOn, Files
<1>5. LineMoves(r) /\ Hides(r) /\ Leaves(r)
  BY <1>0, <1>1, <1>3, Before DEF LineMoves, Waiting, Hides, Leaves, InTool
<1>6. PermitMoves(r)
  BY <1>0, <1>1, <1>3, Before DEF PermitMoves, Holders, Holding, InTool
<1> QED
  BY <1>0, <1>4, <1>5, <1>6, Before DEF Step

\* The answer leaves and gives the permit back.
LEMMA RespondStep ==
  ASSUME IInv, NEW r \in Requests, Respond(r)
  PROVE  Step(r)
<1>0. /\ req[r].phase = "responding" /\ free' = free + 1
      /\ log' = log \cup {Record("http", r, "done")} /\ req' = [req EXCEPT ![r] = Over]
      /\ UNCHANGED <<queue, notes, budget, writeBudget>>
      /\ UNCHANGED <<up, inbox, lingering, diedAt, counter>>
  BY DEF Respond, Write, environment
<1>1. req'[r] = Over /\ req' = [req EXCEPT ![r] = req'[r]]
  BY <1>0, Before
<1>2. Records(r, Record("http", r, "done"))
  BY <1>0, <1>1, Before DEF Records, Record, LogRecord
<1>3. Served(r)
  BY <1>0, <1>1, <1>2, Before DEF Served, Active, Files
<1>4. PermitMoves(r)
  BY <1>0, <1>1, Before DEF PermitMoves, Holders, Holding, InTool
<1>5. LineMoves(r) /\ Hides(r) /\ Leaves(r)
  BY <1>0, <1>1, Before DEF LineMoves, Waiting, Hides, Leaves, InTool
<1> QED
  BY <1>0, <1>3, <1>4, <1>5, Before DEF Step

\* A call whose client has left is not begun.
LEMMA AbandonStep ==
  ASSUME IInv, NEW r \in Requests, Abandon(r)
  PROVE  Step(r)
<1>1. /\ req[r].phase = "called" /\ req[r].left /\ req' = [req EXCEPT ![r] = Over]
      /\ UNCHANGED <<queue, free, log, notes, budget, writeBudget>>
      /\ UNCHANGED <<up, inbox, lingering, diedAt, counter>>
  BY DEF Abandon, environment
<1>2. req'[r] = Over /\ req' = [req EXCEPT ![r] = req'[r]]
  BY <1>1, Before
<1>3. Served(r)
  BY <1>1, <1>2, Before DEF Served, Active, Files
<1>4. PermitMoves(r) /\ LineMoves(r) /\ Hides(r) /\ Leaves(r)
  BY <1>1, <1>2, Before DEF PermitMoves, LineMoves, Holders, Holding, Waiting, Hides,
      Leaves, InTool
<1> QED
  BY <1>1, <1>3, <1>4, Before DEF Step

\* A client leaves: its permit goes with it, its tool does not.
LEMMA DisconnectStep ==
  ASSUME IInv, NEW r \in Requests, Disconnect(r)
  PROVE  Step(r)
<1>1. /\ req[r].phase = "queued" \/ r \in Holders
      /\ LeaveLine(r) /\ free' = (IF r \in Holders THEN free + 1 ELSE free)
      /\ req' = [req EXCEPT ![r] = Dropped(r)]
      /\ UNCHANGED <<log, notes, budget, writeBudget>>
      /\ UNCHANGED <<up, inbox, lingering, diedAt, counter>>
  BY DEF Disconnect, CanLeave, environment
<1>2. req[r].phase \in {"queued"} \cup Holding
  BY <1>1 DEF Holders
<1>3. LineMoves(r) /\ r \notin Waiting'
  <2>1. req'[r].phase # "queued"
    BY <1>1, Before DEF Dropped, RequestRecord, InTool
  <2> QED
    BY <1>1, <2>1 DEF LineMoves, LeaveLine, Waiting
<1>4. CASE req[r].phase \in {"called"} \cup InTool
  <2>1. /\ req'[r] \in RequestRecord /\ req'[r].phase = req[r].phase
        /\ req'[r].id = req[r].id /\ req'[r].subject = req[r].subject
        /\ req'[r].reply = req[r].reply /\ req'[r].left
        /\ req' = [req EXCEPT ![r] = req'[r]]
    BY <1>1, <1>4, Before DEF Dropped, RequestRecord
  <2>2. Served(r)
    BY <1>1, <1>4, <2>1 DEF Served, Active, GoesOn, Files, InTool
  <2>3. PermitMoves(r)
    BY <1>1, <1>2, <1>4, <2>1 DEF PermitMoves, Holders, Holding, InTool
  <2>4. Hides(r) /\ Leaves(r)
    BY <1>1, <1>4, <2>1, Before DEF Hides, Leaves, Visible, InTool
  <2> QED
    BY <1>1, <1>3, <2>2, <2>3, <2>4, Before DEF Step
<1>5. CASE req[r].phase \notin {"called"} \cup InTool
  <2>1. req'[r] = Over /\ req' = [req EXCEPT ![r] = req'[r]]
    BY <1>1, <1>5, Before DEF Dropped
  <2>2. Served(r)
    BY <1>1, <1>2, <1>5, <2>1, Before DEF Served, Active, Files, Holding, InTool
  <2>3. PermitMoves(r) /\ Hides(r) /\ Leaves(r)
    BY <1>1, <2>1, Before DEF PermitMoves, Holders, Holding, Hides, Leaves, InTool
  <2> QED
    BY <1>1, <1>3, <2>2, <2>3, Before DEF Step
<1> QED
  BY <1>4, <1>5

\* An answer in the place of the call: it may go nowhere.
LEMMA AnswerStep ==
  ASSUME IInv, NEW r \in Requests, req[r].phase \in {"called", "appending", "filed"},
         NEW reply \in Replies, Answered(r, reply),
         ~Visible(r) => reply \in WithoutInbox(req[r].call),
         \/ log' = log /\ req[r].phase # "filed"
         \/ \E m \in LogRecord :
              /\ log' = log \cup {m}
              /\ m.id = req[r].id /\ m.subject = req[r].subject /\ m.event # "rejected"
              /\ m.event = "append_note" /\ m.outcome = "filed" =>
                   req[r].phase = "filed" /\ req[r].reply = "filed"
              /\ req[r].phase = "filed" =>
                   m.event = "append_note" /\ m.outcome = req[r].reply,
         writeBudget' \in 0 .. WritesPerHour,
         UNCHANGED <<environment, counter, free, queue, budget, notes>>
  PROVE  Step(r)
<1>0. UNCHANGED <<up, inbox, lingering, diedAt, counter>>
  BY DEF environment
<1>1. \/ req[r].left /\ req'[r] = Over
      \/ /\ ~req[r].left /\ req'[r].phase = "responding" /\ req'[r].reply = reply
         /\ req'[r].id = req[r].id /\ req'[r].subject = req[r].subject
         /\ req'[r].call = req[r].call /\ ~req'[r].left
         /\ req'[r] \in RequestRecord
  <2>1. CASE req[r].left
    BY <2>1, Before DEF Answered
  <2>2. CASE ~req[r].left
    <3>1. req'[r] = [req[r] EXCEPT !.phase = "responding", !.reply = reply]
      BY <2>2, Before DEF Answered
    <3>2. "responding" \in Phases
      BY DEF Phases, Holding
    <3> QED
      BY <2>2, <3>1, <3>2, Before DEF RequestRecord
  <2> QED
    BY <2>1, <2>2
<1>2. req' = [req EXCEPT ![r] = req'[r]] /\ req'[r] \in RequestRecord
  BY <1>1, Before DEF Answered
<1>3. Files(r)
  BY <1>1, Before DEF Files, Records
<1>4. Served(r)
  BY <1>0, <1>1, <1>2, <1>3 DEF Served, Active, GoesOn
<1>5. PermitMoves(r)
  BY <1>1, Before DEF PermitMoves, Holders, Holding
<1>6. LineMoves(r)
  BY <1>1, Before DEF LineMoves, Waiting
<1>7. Hides(r) /\ Leaves(r)
  BY <1>0, <1>1, Before DEF Hides, Leaves, Visible, InTool
<1> QED
  BY <1>4, <1>5, <1>6, <1>7, Before DEF Step

\* list_tools, call_tool and the tools that read.
LEMMA DispatchStep ==
  ASSUME IInv, NEW r \in Requests, Dispatch(r)
  PROVE  Step(r)
<1>0. /\ req[r].phase = "called" /\ UNCHANGED <<queue, free, notes, budget, writeBudget>>
      /\ UNCHANGED <<up, inbox, lingering, diedAt, counter>> /\ UNCHANGED environment
      /\ writeBudget' \in 0 .. WritesPerHour
      /\ UNCHANGED <<environment, counter, free, queue, budget, notes>>
  BY Before DEF Dispatch, environment
<1>1. CASE ListTools(r)
  <2> DEFINE reply == IF Visible(r) THEN "search, fetch, append_note" ELSE "search, fetch"
  <2>1. /\ reply \in Replies /\ Answered(r, reply) /\ log' = log
        /\ ~Visible(r) => reply \in WithoutInbox(req[r].call)
    BY <1>1 DEF ListTools, Replies, WithoutInbox
  <2> HIDE DEF reply
  <2> QED
    BY <1>0, <2>1, AnswerStep
<1>2. CASE ReadTool(r)
  <2>1. PICK reply \in {"document", "invalid params"} :
           Answered(r, reply) /\ log' \in {log, log \cup {Record("tool", r, "done")}}
    BY <1>2 DEF ReadTool, Write
  <2>2. reply \in Replies /\ reply \in WithoutInbox(req[r].call)
    BY <1>2 DEF ReadTool, Replies, WithoutInbox
  <2>3. /\ Record("tool", r, "done") \in LogRecord
        /\ Record("tool", r, "done").id = req[r].id
        /\ Record("tool", r, "done").subject = req[r].subject
        /\ Record("tool", r, "done").event = "tool"
    BY Before DEF Record, LogRecord, RequestRecord
  <2> QED
    BY <1>0, <2>1, <2>2, <2>3, AnswerStep
<1>3. CASE Refuse(r)
  <2>1. CASE req[r].call = "refused" /\ Answered(r, "refused") /\ UNCHANGED log
    <3>1. "refused" \in Replies /\ "refused" \in WithoutInbox(req[r].call)
      BY <2>1 DEF Replies, WithoutInbox
    <3> QED
      BY <1>0, <2>1, <3>1, AnswerStep
  <2>2. CASE req[r].call = "unknown" /\ Answered(r, "tool not found") /\ UNCHANGED log
    <3>1. "tool not found" \in Replies /\ "tool not found" \in WithoutInbox(req[r].call)
      BY <2>2 DEF Replies, WithoutInbox
    <3> QED
      BY <1>0, <2>2, <3>1, AnswerStep
  <2> QED
    BY <1>3, <2>1, <2>2 DEF Refuse
<1>4. CASE AppendTool(r)
  <2>0. req[r].call \in {"append", "malformed"} /\ log' = log
    BY <1>4 DEF AppendTool
  <2>1. CASE ~Visible(r) /\ Answered(r, "tool not found")
    <3>1. "tool not found" \in Replies /\ "tool not found" \in WithoutInbox(req[r].call)
      BY <2>0 DEF Replies, WithoutInbox
    <3> QED
      BY <1>0, <2>0, <2>1, <3>1, AnswerStep
  <2>2. CASE Visible(r) /\ Answered(r, "invalid params")
    <3>1. "invalid params" \in Replies
      BY DEF Replies
    <3> QED
      BY <1>0, <2>0, <2>2, <3>1, AnswerStep
  <2>3. CASE Visible(r) /\ req' = [req EXCEPT ![r].phase = "appending"]
    <3>0. "appending" \in Phases
      BY DEF Phases, Holding
    <3>1. /\ req'[r] \in RequestRecord /\ req'[r].phase = "appending" /\ req'[r].id = req[r].id
          /\ req'[r].subject = req[r].subject /\ req'[r].left = req[r].left
          /\ req' = [req EXCEPT ![r] = req'[r]]
      BY <2>3, <3>0, Before DEF RequestRecord
    <3>2. Served(r)
      BY <1>0, <2>0, <3>1 DEF Served, Active, GoesOn, Files
    <3>3. PermitMoves(r) /\ LineMoves(r)
      BY <1>0, <3>1, Before DEF PermitMoves, LineMoves, Holders, Holding, Waiting
    <3>4. Hides(r) /\ Leaves(r)
      BY <1>0, <2>3, <3>1 DEF Hides, Leaves, Visible, InTool
    <3> QED
      BY <1>0, <3>2, <3>3, <3>4, Before DEF Step
  <2> QED
    BY <1>4, <2>1, <2>2, <2>3 DEF AppendTool
<1>5. CASE Initialize(r)
  <2>1. /\ Answered(r, "instructions") /\ log' = log /\ "instructions" \in Replies
        /\ "instructions" \in WithoutInbox(req[r].call)
    BY <1>5 DEF Initialize, Replies, WithoutInbox
  <2> QED
    BY <1>0, <2>1, AnswerStep
<1> QED
  BY <1>1, <1>2, <1>3, <1>4, <1>5 DEF Dispatch

\* append_note is charged for, or refused with a record.
LEMMA CheckWritesStep ==
  ASSUME IInv, NEW r \in Requests, CheckWrites(r)
  PROVE  Step(r)
<1>0. /\ req[r].phase = "appending" /\ UNCHANGED <<queue, free, notes, budget>>
      /\ UNCHANGED <<up, inbox, lingering, diedAt, counter>>
      /\ UNCHANGED <<environment, counter, free, queue, budget, notes>>
      /\ Visible(r)
  BY Before DEF CheckWrites, environment, InTool
<1>1. CASE /\ \E n \in Paid(writeBudget, WritesPerHour) : writeBudget' = n
           /\ req' = [req EXCEPT ![r].phase = "filing"] /\ log' = log
  <2>0. "filing" \in Phases /\ req' = [req EXCEPT ![r].phase = "filing"]
    BY <1>1 DEF Phases, Holding
  <2>1. /\ req'[r] \in RequestRecord /\ req'[r].phase = "filing" /\ req'[r].id = req[r].id
        /\ req'[r].subject = req[r].subject /\ req'[r].left = req[r].left
        /\ req' = [req EXCEPT ![r] = req'[r]]
    BY <2>0, Before DEF RequestRecord
  <2>2. Served(r)
    BY <1>0, <1>1, <2>1 DEF Served, Active, GoesOn, Files
  <2>3. PermitMoves(r) /\ LineMoves(r)
    BY <1>0, <2>1, Before DEF PermitMoves, LineMoves, Holders, Holding, Waiting
  <2>4. Hides(r) /\ Leaves(r)
    BY <1>0, <2>1 DEF Hides, Leaves, Visible, InTool
  <2>5. writeBudget' \in 0 .. WritesPerHour
    BY <1>1, Before, McpAssumption DEF Paid
  <2> QED
    BY <1>0, <2>2, <2>3, <2>4, <2>5, Before DEF Step
<1>2. CASE /\ log' = log \cup {Record("append_note", r, "rate limited")}
           /\ Answered(r, "rate limited") /\ writeBudget' = writeBudget
  <2> DEFINE m == Record("append_note", r, "rate limited")
  <2>1. /\ m \in LogRecord /\ m.id = req[r].id /\ m.subject = req[r].subject
        /\ m.event = "append_note" /\ m.outcome = "rate limited"
    BY Before DEF Record, LogRecord, RequestRecord
  <2>2. "rate limited" \in Replies /\ writeBudget' \in 0 .. WritesPerHour
    BY <1>2, Before DEF Replies
  <2>3. log' = log \cup {m} /\ Answered(r, "rate limited")
    BY <1>2
  <2> HIDE DEF m
  <2> QED
    BY <1>0, <2>1, <2>2, <2>3, AnswerStep
<1> QED
  BY <1>1, <1>2 DEF CheckWrites, Write

\* A note is filed, or not.
LEMMA CreateNoteStep ==
  ASSUME IInv, NEW r \in Requests, CreateNote(r)
  PROVE  Step(r)
<1>0. /\ req[r].phase = "filing" /\ UNCHANGED <<queue, free, log, budget, writeBudget>>
      /\ UNCHANGED <<up, inbox, lingering, diedAt, counter>>
      /\ Visible(r)
  BY Before DEF CreateNote, environment, InTool
<1>1. PICK reply \in {"filed", "not filed"} :
        /\ req' = [req EXCEPT ![r].phase = "filed", ![r].reply = reply]
        /\ notes' = IF reply = "filed" THEN notes \cup {NoteOf(r)} ELSE notes
  BY DEF CreateNote, NoteOf
<1>2. "filed" \in Phases /\ reply \in Replies
  BY DEF Phases, Holding, Replies
<1>3. /\ req'[r] \in RequestRecord /\ req'[r].phase = "filed" /\ req'[r].id = req[r].id
      /\ req'[r].subject = req[r].subject /\ req'[r].left = req[r].left
      /\ req'[r].reply = reply
      /\ req' = [req EXCEPT ![r] = req'[r]]
  BY <1>1, <1>2, Before DEF RequestRecord
<1>4. Served(r)
  BY <1>0, <1>1, <1>3 DEF Served, Active, GoesOn, Files
<1>5. PermitMoves(r) /\ LineMoves(r)
  BY <1>0, <1>3, Before DEF PermitMoves, LineMoves, Holders, Holding, Waiting
<1>6. Hides(r) /\ Leaves(r)
  BY <1>0, <1>3 DEF Hides, Leaves, Visible, InTool
<1> QED
  BY <1>0, <1>4, <1>5, <1>6, Before DEF Step

\* The record of it is written.
LEMMA AuditWriteStep ==
  ASSUME IInv, NEW r \in Requests, AuditWrite(r)
  PROVE  Step(r)
<1>0. /\ req[r].phase = "filed" /\ writeBudget' \in 0 .. WritesPerHour
      /\ UNCHANGED <<environment, counter, free, queue, budget, notes>>
      /\ Visible(r) /\ Answered(r, req[r].reply)
  BY Before DEF AuditWrite, InTool
<1> DEFINE m == Record("append_note", r, req[r].reply)
<1>1. req[r].reply \in {"filed", "not filed"}
  BY <1>0 DEF IInv, NotesFollow
<1>2. /\ m \in LogRecord /\ m.id = req[r].id /\ m.subject = req[r].subject
      /\ m.event = "append_note" /\ m.outcome = req[r].reply
  BY <1>1, Before DEF Record, LogRecord, RequestRecord
<1>3. req[r].reply \in Replies /\ log' = log \cup {m}
  BY <1>1 DEF Replies, AuditWrite, Write
<1> HIDE DEF m
<1> QED
  BY <1>0, <1>1, <1>2, <1>3, AnswerStep

----------------------------------------------------------------------------
(* The other actions.                                                      *)

\* Who neither holds a permit nor waits changes nothing of this.
LEMMA PermitsUnmoved ==
  ASSUME IInv, Holders' = Holders, Waiting' = Waiting, UNCHANGED <<free, queue>>
  PROVE  PermitsConserved'
<1>1. free + Cardinality(Holders) = MaxPermits /\ LineOf(queue, Waiting)
  BY DEF IInv, PermitsConserved, LineOf, Waiting
<1>2. free' + Cardinality(Holders') = MaxPermits /\ LineOf(queue', Waiting')
  BY <1>1
<1> QED
  BY <1>2 DEF PermitsConserved, LineOf, Waiting

\* What is of the requests and of what they have left only.
LEMMA RequestsUnmoved ==
  ASSUME IInv, UNCHANGED <<counter, req, notes, log>>, up' = up \/ up' # "down"
  PROVE  /\ NumbersApart' /\ SubjectsKnown' /\ RecordsFollow' /\ NotesFollow' /\ ToolsGoOn'
         /\ NotesAudited' /\ OneRequestPerId'
<1>0. counter' = counter /\ req' = req /\ notes' = notes /\ log' = log
  OBVIOUS
<1>1. NumbersApart'
  <2>1. Numbered' = Numbered
    BY <1>0 DEF Numbered
  <2> QED
    BY <1>0, <2>1 DEF IInv, NumbersApart, Active
<1>2. SubjectsKnown' /\ ToolsGoOn'
  BY <1>0 DEF IInv, SubjectsKnown, ToolsGoOn, Active
<1>3. RecordsFollow'
  BY <1>0 DEF IInv, RecordsFollow, Active
<1>4. NotesFollow'
  BY <1>0 DEF IInv, NotesFollow, NoteOf, Active
<1>5. NotesAudited' /\ OneRequestPerId'
  BY <1>0 DEF IInv, NotesAudited, OneRequestPerId
<1> QED
  BY <1>1, <1>2, <1>3, <1>4, <1>5

\* A number is given to one request only.
LEMMA ArriveKeeps ==
  ASSUME IInv, NEW r \in Requests, Arrive(r)
  PROVE  IInv'
<1>0. /\ up = "running" /\ req[r].phase = "new" /\ counter' = counter + 1
      /\ req' = [req EXCEPT ![r].phase = "arrived", ![r].id = counter + 1]
      /\ UNCHANGED <<up, inbox, lingering, diedAt, free, queue, budget, writeBudget, notes, log>>
  BY DEF Arrive, environment
<1>1. counter + 1 <= Cardinality(Numbered') /\ Cardinality(Numbered') <= Cardinality(Requests)
  <2>1. Numbered' = Numbered \cup {r} /\ r \notin Numbered
    BY <1>0, Before DEF Numbered
  <2>2. IsFiniteSet(Numbered) /\ Cardinality(Numbered) \in Nat
    BY HoldersFinite DEF Numbered
  <2>3. Cardinality(Numbered') = Cardinality(Numbered) + 1
    BY <2>1, <2>2, FS_AddElement
  <2>4. counter <= Cardinality(Numbered) /\ counter \in Nat
    BY RequestFields DEF IInv, NumbersApart
  <2>5. Numbered' \subseteq Requests
    BY DEF Numbered
  <2>6. Cardinality(Numbered') <= Cardinality(Requests)
    BY <2>5, FS_Subset, McpAssumption
  <2> QED
    BY <2>2, <2>3, <2>4, <2>6
<1>2. counter + 1 \in Ids /\ counter \in Nat /\ counter + 1 > counter
  <2>1. counter \in Nat /\ Cardinality(Requests) \in Nat /\ Cardinality(Numbered') \in Nat
    BY RequestFields, HoldersFinite DEF IInv, Numbered
  <2> QED
    BY <1>1, <2>1 DEF Ids
<1>3. /\ req'[r] \in RequestRecord /\ req'[r].phase = "arrived" /\ req'[r].id = counter + 1
      /\ req'[r].subject = req[r].subject /\ req'[r].left = req[r].left
      /\ req' = [req EXCEPT ![r] = req'[r]]
      /\ \A q \in Requests \ {r} : req'[q] = req[q]
  <2>1. "arrived" \in Phases
    BY DEF Phases, Straight
  <2> QED
    BY <1>0, <1>2, <2>1, Before DEF RequestRecord
<1>4. TypeOK'
  <2>1. req' \in [Requests -> RequestRecord]
    BY <1>3, Before
  <2> QED
    BY <1>0, <1>2, <2>1 DEF IInv, TypeOK, RequestRecord, Ids, Alive
<1>5. /\ \A q \in Requests : req[q].id <= counter /\ req[q].id \in Nat
      /\ \A m \in log : m.id <= counter /\ m.id \in Nat
      /\ \A n \in notes : n.id <= counter /\ n.id \in Nat
  <2>1. Ids \subseteq Nat
    BY RequestFields, HoldersFinite DEF Ids
  <2>2. \A m \in log : m.id \in Ids
    BY DEF IInv, TypeOK
  <2>3. \A n \in notes : n.id \in Ids
    BY DEF IInv, TypeOK
  <2> QED
    BY <2>1, <2>2, <2>3, RequestFields DEF IInv, NumbersApart
<1>6. /\ \A q \in Requests : req[q].id # counter + 1
      /\ \A m \in log : m.id # counter + 1
      /\ \A n \in notes : n.id # counter + 1
  BY <1>2, <1>5
<1>7. NumbersApart'
  <2>1. \A q \in Requests : req'[q].id <= counter + 1
    BY <1>2, <1>3, <1>5
  <2>2. /\ \A m \in log : m.id <= counter + 1
        /\ \A n \in notes : n.id <= counter + 1
    BY <1>2, <1>5
  <2>3. \A q, p \in Requests : Active(q)' /\ Active(p)' /\ req'[q].id = req'[p].id => q = p
    BY <1>3, <1>6 DEF IInv, NumbersApart, Active
  <2> QED
    BY <1>0, <1>1, <2>1, <2>2, <2>3 DEF NumbersApart
<1>8. SubjectsKnown'
  <2>1. req[r].subject = "nobody"
    BY <1>0 DEF IInv, SubjectsKnown, Active
  <2> QED
    BY <1>3, <2>1 DEF IInv, SubjectsKnown, Active
<1>9. RecordsFollow' /\ NotesFollow'
  <2>0. \A q \in Requests : q # r => req'[q] = req[q] /\ (Active(q)' => Active(q))
    BY <1>3 DEF Active
  <2>1. RecordsFollow'
    <3>1. \A m \in log' : m.id # req'[r].id
      BY <1>0, <1>3, <1>6
    <3>2. \A q \in Requests : q # r /\ Active(q)' => \A m \in log' : m.id = req'[q].id =>
            /\ req'[q].phase = "responding"
            /\ m.subject = req'[q].subject /\ m.event # "rejected"
      <4> SUFFICES ASSUME NEW q \in Requests, q # r, Active(q)', NEW m \in log',
                          m.id = req'[q].id
                   PROVE  /\ req'[q].phase = "responding"
                          /\ m.subject = req'[q].subject /\ m.event # "rejected"
        OBVIOUS
      <4>1. Active(q) /\ req'[q] = req[q] /\ m \in log
        BY <1>0, <2>0
      <4> QED
        BY <4>1 DEF IInv, RecordsFollow
    <3> QED
      BY <3>1, <3>2 DEF RecordsFollow
  <2>2. \A q \in Requests \ {r} : NoteOf(q)' = NoteOf(q)
    BY <1>3 DEF NoteOf
  <2>3. NotesFollow'
    <3>1. (\A n \in notes' : n.id # req'[r].id) /\ req'[r].phase # "filed"
      BY <1>0, <1>3, <1>6
    <3>2. \A q \in Requests : q # r =>
            /\ Active(q)' => \A n \in notes' : n.id = req'[q].id =>
                 \/ req'[q].phase = "responding"
                 \/ req'[q].phase = "filed" /\ req'[q].reply = "filed" /\ n = NoteOf(q)'
            /\ req'[q].phase = "filed" =>
                 \/ req'[q].reply = "filed" /\ NoteOf(q)' \in notes'
                 \/ req'[q].reply = "not filed"
      BY <1>0, <2>0, <2>2 DEF IInv, NotesFollow
    <3> QED
      BY <3>1, <3>2 DEF NotesFollow
  <2> QED
    BY <2>1, <2>3
<1>10. NotesAudited'
  <2>1. /\ {q \in Requests : req'[q].phase = "filed"} = {q \in Requests : req[q].phase = "filed"}
        /\ \A q \in Requests : req[q].phase = "filed" => req'[q] = req[q]
    BY <1>0, <1>3
  <2>2. {[id |-> req'[q].id, subject |-> req'[q].subject] :
           q \in {q \in Requests : req'[q].phase = "filed"}}
        = {[id |-> req[q].id, subject |-> req[q].subject] :
             q \in {q \in Requests : req[q].phase = "filed"}}
    BY <2>1
  <2> QED
    BY <1>0, <2>2 DEF IInv, NotesAudited
<1>11. PermitsConserved'
  <2>1. Holders' = Holders
    BY <1>0, <1>3 DEF Holders, Holding
  <2>2. Waiting' = Waiting
    BY <1>0, <1>3 DEF Waiting
  <2> QED
    BY <1>0, <2>1, <2>2, PermitsUnmoved
<1>12. NoteToolHidden' /\ ToolsGoOn'
  <2>1. ToolsGoOn'
    BY <1>0, <1>3, Before DEF IInv, ToolsGoOn, InTool
  <2>2. \A q \in Requests \ {r} : Visible(q)' = Visible(q)
    BY <1>0, <1>3 DEF Visible
  <2>3. NoteToolHidden'
    BY <1>0, <1>3, <2>2 DEF IInv, NoteToolHidden, InTool
  <2> QED
    BY <2>1, <2>3
<1>13. OneRequestPerId' /\ DeadTokensServeNoLater'
  <2>1. OneRequestPerId'
    BY <1>0 DEF IInv, OneRequestPerId
  <2>2. req[r].subject = "nobody"
    BY <1>0 DEF IInv, SubjectsKnown, Active
  <2>3. \A t \in Tokens : t # "nobody"
    BY McpAssumption
  <2>4. DeadTokensServeNoLater'
    <3>1. \A t \in Tokens : (Dead(t)' <=> Dead(t)) /\ diedAt'[t] = diedAt[t]
      BY <1>0 DEF Dead, Alive
    <3>2. \A t \in Tokens, q \in Requests :
            req'[q].subject = t => q # r /\ req'[q] = req[q]
      BY <1>3, <2>2, <2>3
    <3> QED
      BY <1>0, <3>1, <3>2 DEF IInv, DeadTokensServeNoLater
  <2> QED
    BY <2>1, <2>4
<1> QED
  BY <1>4, <1>7, <1>8, <1>9, <1>10, <1>11, <1>12, <1>13 DEF IInv

\* Whatever has arrived by then may still be served with the token.
LEMMA DieKeeps ==
  ASSUME IInv, NEW t \in Tokens, Die(t)
  PROVE  IInv'
<1>0. /\ diedAt' = [diedAt EXCEPT ![t] = counter]
      /\ UNCHANGED <<up, inbox, lingering, counter, req, free, queue, budget, writeBudget,
                     notes, log>>
  BY DEF Die
<1>1. TypeOK'
  BY <1>0 DEF IInv, TypeOK, Ids, Alive
<1>2. /\ NumbersApart' /\ SubjectsKnown' /\ RecordsFollow' /\ NotesFollow' /\ ToolsGoOn'
      /\ PermitsConserved' /\ NotesAudited' /\ OneRequestPerId'
  <2>1. /\ NumbersApart' /\ SubjectsKnown' /\ RecordsFollow' /\ NotesFollow' /\ ToolsGoOn'
        /\ NotesAudited' /\ OneRequestPerId'
    BY <1>0, RequestsUnmoved
  <2>2. Holders' = Holders /\ Waiting' = Waiting
    BY <1>0 DEF Holders, Waiting
  <2> QED
    BY <1>0, <2>1, <2>2, PermitsUnmoved
<1>3. NoteToolHidden'
  BY <1>0 DEF IInv, NoteToolHidden, Visible
<1>4. DeadTokensServeNoLater'
  <2>1. /\ \A q \in Requests : req[q].id <= counter
        /\ \A n \in notes : n.id <= counter
    BY DEF IInv, NumbersApart
  <2>2. diedAt'[t] = counter /\ \A x \in Tokens \ {t} : diedAt'[x] = diedAt[x]
    BY <1>0 DEF IInv, TypeOK
  <2> QED
    BY <1>0, <2>1, <2>2 DEF IInv, DeadTokensServeNoLater, Dead, Alive
<1> QED
  BY <1>1, <1>2, <1>3, <1>4 DEF IInv

\* Being told to stop changes nothing of this.
LEMMA ShutdownKeeps ==
  ASSUME IInv, Shutdown
  PROVE  IInv'
<1>0. /\ up' = "draining"
      /\ UNCHANGED <<inbox, lingering, counter, req, free, queue, budget, writeBudget, diedAt,
                     notes, log>>
  BY DEF Shutdown
<1>1. TypeOK'
  BY <1>0 DEF IInv, TypeOK, Ids, Alive
<1>2. /\ NumbersApart' /\ SubjectsKnown' /\ RecordsFollow' /\ NotesFollow' /\ ToolsGoOn'
      /\ PermitsConserved' /\ NotesAudited' /\ OneRequestPerId'
  <2>1. /\ NumbersApart' /\ SubjectsKnown' /\ RecordsFollow' /\ NotesFollow' /\ ToolsGoOn'
        /\ NotesAudited' /\ OneRequestPerId'
    BY <1>0, RequestsUnmoved
  <2>2. Holders' = Holders /\ Waiting' = Waiting
    BY <1>0 DEF Holders, Waiting
  <2> QED
    BY <1>0, <2>1, <2>2, PermitsUnmoved
<1>3. NoteToolHidden' /\ DeadTokensServeNoLater'
  BY <1>0 DEF IInv, NoteToolHidden, Visible, DeadTokensServeNoLater, Dead, Alive
<1> QED
  BY <1>1, <1>2, <1>3 DEF IInv

\* Neither do the other connections, nor a step in which nothing happens.
LEMMA OthersKeep ==
  ASSUME IInv, UNCHANGED other, lingering' \in BOOLEAN
  PROVE  IInv'
<1>0. UNCHANGED <<up, inbox, counter, req, free, queue, budget, writeBudget, diedAt, notes, log>>
  BY DEF other
<1>1. /\ NumbersApart' /\ SubjectsKnown' /\ RecordsFollow' /\ NotesFollow' /\ ToolsGoOn'
      /\ NotesAudited' /\ OneRequestPerId'
  BY <1>0, RequestsUnmoved
<1>2. TypeOK' /\ NoteToolHidden' /\ DeadTokensServeNoLater'
  BY <1>0 DEF IInv, TypeOK, Ids, NoteToolHidden, Visible, DeadTokensServeNoLater, Dead, Alive
<1>3. PermitsConserved'
  <2>1. Holders' = Holders /\ Waiting' = Waiting
    BY <1>0 DEF Holders, Waiting
  <2> QED
    BY <1>0, <2>1, PermitsUnmoved
<1> QED
  BY <1>1, <1>2, <1>3 DEF IInv

\* Nobody is served and nothing is recorded: the whole invariant is of that.
Quiet ==
  /\ TypeOK /\ counter = 0
  /\ \/ req = [r \in Requests |-> Over]
     \/ req = [r \in Requests |-> Fresh] /\ up # "down"
  /\ queue = <<>> /\ free = MaxPermits /\ notes = {} /\ log = {}

\* A process that serves nothing is as the invariant wants it: at the start, and
\* after every end.
LEMMA NothingServed == Quiet => IInv
<1> SUFFICES ASSUME Quiet PROVE IInv
  OBVIOUS
<1> USE DEF Quiet
<1>1. \A r \in Requests : req[r] = Over \/ (req[r] = Fresh /\ up # "down")
  OBVIOUS
<1>2. \A r \in Requests :
        /\ req[r].phase \in {"new", "over"} /\ req[r].id = 0 /\ req[r].subject = "nobody"
        /\ ~req[r].left /\ ~Active(r)
  BY <1>1, RequestFields DEF Active
<1>3. NumbersApart
  <2>1. counter = 0 /\ 0 <= Cardinality(Numbered)
    BY HoldersFinite DEF Numbered
  <2>2. up = "down" => \A r \in Requests : req[r] = Over
    BY <1>1
  <2> QED
    BY <1>2, <2>1, <2>2 DEF NumbersApart
<1>4. SubjectsKnown /\ RecordsFollow /\ NotesFollow /\ ToolsGoOn
  BY <1>2 DEF SubjectsKnown, RecordsFollow, NotesFollow, ToolsGoOn
<1>5. NoteToolHidden /\ OneRequestPerId
  BY <1>2 DEF NoteToolHidden, InTool, OneRequestPerId
<1>6. PermitsConserved
  <2>1. Holders = {}
    BY <1>2 DEF Holders, Holding
  <2>2. free + Cardinality(Holders) = MaxPermits
    BY <2>1, FS_EmptySet, McpAssumption
  <2>3. /\ IsInjective(queue)
        /\ {queue[i] : i \in DOMAIN queue} = {r \in Requests : req[r].phase = "queued"}
    <3>1. DOMAIN queue = {}
      OBVIOUS
    <3> QED
      BY <1>2, <3>1 DEF IsInjective
  <2> QED
    BY <2>2, <2>3 DEF PermitsConserved
<1>7. NotesAudited
  <2>1. {m \in log : m.event = "append_note" /\ m.outcome = "filed"} = {}
    OBVIOUS
  <2> QED
    BY <2>1 DEF NotesAudited
<1>8. DeadTokensServeNoLater
  BY <1>2, McpAssumption DEF DeadTokensServeNoLater
<1> QED
  BY <1>3, <1>4, <1>5, <1>6, <1>7, <1>8 DEF IInv

\* A process that has just been started has served nobody.
LEMMA InitIInv == Init => IInv
<1> SUFFICES ASSUME Init PROVE IInv
  OBVIOUS
<1>1. TypeOK
  <2>1. Cardinality(Requests) \in Nat
    BY FS_CardinalityType, McpAssumption
  <2>2. Fresh \in RequestRecord /\ 0 \in Ids
    BY <2>1 DEF Fresh, Unknown, RequestRecord, Phases, Ids
  <2>3. /\ MaxPermits \in 0 .. MaxPermits /\ Burst \in 0 .. Burst
        /\ WritesPerHour \in 0 .. WritesPerHour
    BY McpAssumption
  <2>4. inbox \in BOOLEAN /\ lingering \in BOOLEAN
    BY DEF Init
  <2>5. /\ up \in {"running", "draining", "down"} /\ counter \in Ids
        /\ req \in [Requests -> RequestRecord] /\ queue \in Seq(Requests)
        /\ free \in 0 .. MaxPermits /\ budget \in [Credentials -> 0 .. Burst]
        /\ writeBudget \in 0 .. WritesPerHour /\ diedAt \in [Tokens -> Ids \cup {Alive}]
        /\ notes = {} /\ log = {}
    BY <2>2, <2>3 DEF Init
  <2> QED
    BY <2>4, <2>5 DEF TypeOK, RequestRecord
<1> QED
  BY <1>1, NothingServed DEF Init, Quiet

\* A process that ends keeps nothing.
LEMMA DownKeeps ==
  ASSUME IInv, Down
  PROVE  IInv'
<1>1. /\ req' = [r \in Requests |-> Over] /\ counter' = 0 /\ queue' = <<>>
      /\ free' = MaxPermits /\ notes' = {} /\ log' = {}
  BY DEF Down
<1>2. TypeOK'
  <2>1. Over \in RequestRecord /\ 0 \in Ids
    BY RequestFields DEF IInv
  <2>3. /\ MaxPermits \in 0 .. MaxPermits /\ Burst \in 0 .. Burst
        /\ WritesPerHour \in 0 .. WritesPerHour
    BY McpAssumption
  <2>4. req' \in [Requests -> RequestRecord] /\ diedAt' \in [Tokens -> Ids \cup {Alive}]
    BY <2>1 DEF Down
  <2>5. /\ up' = "down" /\ inbox' \in BOOLEAN /\ lingering' \in BOOLEAN
        /\ writeBudget' = WritesPerHour
        /\ budget' = [c \in Credentials |-> Burst]
    BY DEF Down, IInv, TypeOK
  <2>6. queue' \in Seq(Requests) /\ budget' \in [Credentials -> 0 .. Burst]
    BY <1>1, <2>3, <2>5
  <2> QED
    BY <1>1, <2>1, <2>3, <2>4, <2>5, <2>6 DEF TypeOK, RequestRecord, Ids, Alive
<1>3. Quiet'
  BY <1>1, <1>2 DEF Quiet
<1>4. (Quiet => IInv)'
  BY NothingServed, PTL
<1> QED
  BY <1>3, <1>4

\* The next one finds nothing, dead tokens apart.
LEMMA StartKeeps ==
  ASSUME IInv, Start
  PROVE  IInv'
<1>0. /\ up = "down" /\ up' = "running" /\ inbox' \in BOOLEAN
      /\ req' = [r \in Requests |-> Fresh]
      /\ UNCHANGED <<lingering, diedAt, counter, free, queue, budget, writeBudget, notes, log>>
  BY DEF Start
<1>1. /\ counter = 0 /\ counter' = 0
      /\ \A r \in Requests : req[r] = Over /\ req[r].phase = "over"
  BY <1>0, RequestFields DEF IInv, NumbersApart
<1>2. \A r \in Requests :
        /\ req'[r].phase = "new" /\ req'[r].id = 0 /\ req'[r].subject = "nobody"
        /\ ~req'[r].left /\ ~Active(r)'
  BY <1>0, RequestFields DEF IInv, Active
<1>3. TypeOK'
  <2>1. req' \in [Requests -> RequestRecord]
    BY <1>0, RequestFields DEF IInv
  <2> QED
    BY <1>0, <2>1 DEF IInv, TypeOK, RequestRecord, Ids, Alive
<1>4. NumbersApart'
  <2>1. 0 <= Cardinality(Numbered')
    BY HoldersFinite DEF Numbered
  <2> QED
    BY <1>0, <1>1, <1>2, <2>1 DEF IInv, NumbersApart
<1>5. SubjectsKnown' /\ RecordsFollow' /\ NotesFollow' /\ ToolsGoOn'
  BY <1>2 DEF SubjectsKnown, RecordsFollow, NotesFollow, ToolsGoOn
<1>6. NoteToolHidden' /\ OneRequestPerId'
  BY <1>0, <1>2 DEF IInv, NoteToolHidden, InTool, OneRequestPerId
<1>7. PermitsConserved'
  <2>1. Holders' = Holders
    BY <1>1, <1>2 DEF Holders, Holding
  <2>2. Waiting' = Waiting
    BY <1>1, <1>2 DEF Waiting
  <2> QED
    BY <1>0, <2>1, <2>2, PermitsUnmoved
<1>8. NotesAudited'
  <2>1. {r \in Requests : req'[r].phase = "filed"} = {r \in Requests : req[r].phase = "filed"}
    BY <1>1, <1>2
  <2>2. {r \in Requests : req[r].phase = "filed"} = {}
    BY <1>1
  <2> QED
    BY <1>0, <2>1, <2>2 DEF IInv, NotesAudited
<1>9. DeadTokensServeNoLater'
  <2>1. \A t \in Tokens : t # "nobody"
    BY McpAssumption
  <2> QED
    BY <1>0, <1>2, <2>1 DEF IInv, DeadTokensServeNoLater, Dead, Alive
<1> QED
  BY <1>3, <1>4, <1>5, <1>6, <1>7, <1>8, <1>9 DEF IInv

----------------------------------------------------------------------------
(* Theorems.                                                               *)

\* IInv is inductive.
LEMMA NextIInv == IInv /\ [Next]_vars => IInv'
<1> SUFFICES ASSUME IInv, [Next]_vars PROVE IInv'
  OBVIOUS
<1>1. ASSUME NEW r \in Requests, Arrive(r) PROVE IInv'
  BY <1>1, ArriveKeeps
<1>2. ASSUME NEW r \in Requests, Authenticate(r) PROVE IInv'
  BY <1>2, AuthenticateStep, StepKeeps
<1>3. ASSUME NEW r \in Requests, CheckRate(r) PROVE IInv'
  BY <1>3, CheckRateStep, StepKeeps
<1>4. ASSUME NEW r \in Requests, Enqueue(r) PROVE IInv'
  BY <1>4, EnqueueStep, StepKeeps
<1>5. ASSUME NEW r \in Requests, Acquire(r) PROVE IInv'
  BY <1>5, AcquireStep, StepKeeps
<1>6. ASSUME NEW r \in Requests, Deliver(r) PROVE IInv'
  BY <1>6, DeliverStep, StepKeeps
<1>7. ASSUME NEW r \in Requests, Dispatch(r) PROVE IInv'
  BY <1>7, DispatchStep, StepKeeps
<1>8. ASSUME NEW r \in Requests, CheckWrites(r) PROVE IInv'
  BY <1>8, CheckWritesStep, StepKeeps
<1>9. ASSUME NEW r \in Requests, CreateNote(r) PROVE IInv'
  BY <1>9, CreateNoteStep, StepKeeps
<1>10. ASSUME NEW r \in Requests, AuditWrite(r) PROVE IInv'
  BY <1>10, AuditWriteStep, StepKeeps
<1>11. ASSUME NEW r \in Requests, Respond(r) PROVE IInv'
  BY <1>11, RespondStep, StepKeeps
<1>12. ASSUME NEW r \in Requests, Disconnect(r) PROVE IInv'
  BY <1>12, DisconnectStep, StepKeeps
<1>13. ASSUME NEW r \in Requests, Abandon(r) PROVE IInv'
  BY <1>13, AbandonStep, StepKeeps
<1>14. ASSUME NEW t \in Tokens, Die(t) PROVE IInv'
  BY <1>14, DieKeeps
<1>15. CASE Shutdown
  BY <1>15, ShutdownKeeps
<1>16. CASE Exit \/ Crash
  BY <1>16, DownKeeps DEF Exit, Crash
<1>17. CASE Start
  BY <1>17, StartKeeps
<1>18. CASE Linger \/ Finish \/ UNCHANGED vars
  <2>1. UNCHANGED other /\ lingering' \in BOOLEAN
    BY <1>18 DEF Linger, Finish, vars, other, IInv, TypeOK
  <2> QED
    BY <2>1, OthersKeep
<1> QED
  BY <1>1, <1>2, <1>3, <1>4, <1>5, <1>6, <1>7, <1>8, <1>9, <1>10, <1>11, <1>12, <1>13, <1>14,
    <1>15, <1>16, <1>17, <1>18 DEF Next

\* IInv is an invariant.
LEMMA Invariance == Spec => []IInv
BY InitIInv, NextIInv, PTL DEF Spec

\* The middleware, the tools and the process keep every part of the state in
\* the range the code gives it.
THEOREM TypeCorrectness == Spec => []TypeOK
<1>1. IInv => TypeOK
  BY DEF IInv
<1> QED
  BY <1>1, Invariance, PTL

\* Whoever may not see append_note gets no answer of initialize, list_tools and
\* call_tool that a server without an inbox would not say, whatever the arguments.
THEOREM NoteToolStaysHidden == Spec => []NoteToolHidden
<1>1. IInv => NoteToolHidden
  BY DEF IInv
<1> QED
  BY <1>1, Invariance, PTL

\* For any number of permits and requests the concurrency limit loses none and
\* makes none, and its line is made of those that wait, whenever clients leave.
THEOREM PermitsAreConserved == Spec => []PermitsConserved
<1>1. IInv => PermitsConserved
  BY DEF IInv
<1> QED
  BY <1>1, Invariance, PTL

\* tool_write records each note that create_note files, though its client has
\* left, unless its tool is not done with it.
THEOREM NotesAreAudited == Spec => []NotesAudited
<1>1. IInv => NotesAudited
  BY DEF IInv
<1> QED
  BY <1>1, Invariance, PTL

\* Records that carry one number of request_counter are of one request.
THEOREM NumbersAreUnique == Spec => []OneRequestPerId
<1>1. IInv => OneRequestPerId
  BY DEF IInv
<1> QED
  BY <1>1, Invariance, PTL

\* authenticate_headers is asked once, before a request waits in line: a token
\* that has died serves the requests that had arrived by then and no other.
THEOREM DeadTokensStayDead == Spec => []DeadTokensServeNoLater
<1>1. IInv => DeadTokensServeNoLater
  BY DEF IInv
<1> QED
  BY <1>1, Invariance, PTL

=============================================================================
