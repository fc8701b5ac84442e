---------------------------- MODULE InboxProofs ----------------------------
(***************************************************************************)
(* Theorems about Inbox for any number of calls, any titles, sizes, limits *)
(* and clock: its type, that a note whose id was returned stays as it is   *)
(* until the owner takes it, that no call writes to another's file, and by *)
(* how much calls that overlap can overshoot the quota.                    *)
(***************************************************************************)
EXTENDS Inbox, FiniteSetTheorems, WellFoundedInduction, TLAPS

----------------------------------------------------------------------------
(* The inductive invariant.                                                *)

FileNames == {Name(at, slug, attempt) : at \in 0 .. LastSecond, slug \in Slugs,
                                        attempt \in 0 .. MaxNameAttempts}

File == [note : Nat, size : Nat, whole : BOOLEAN]

CallRecord == [note : Nat, at : 0 .. LastSecond, slug : Slugs \cup {<<>>},
               size : Sizes \cup {0}, due : SUBSET FileNames,
               seen : SUBSET FileNames, used : Nat, attempt : 0 .. MaxNameAttempts]

\* The fields of calls and files, whose names come from the calls.
FieldsTyped ==
  /\ call \in [Writers -> CallRecord]
  /\ \A w \in Writers : pc[w] # "idle" => call[w].slug \in Slugs /\ call[w].size \in Sizes
  /\ DOMAIN dir \subseteq FileNames
  /\ dir \in [DOMAIN dir -> File]

\* A call that has made its file still has it, unless the owner took it away;
\* when it comes to answer, the whole note is there.
Keeps(w) ==
  \/ call[w].note \in sorted
  \/ MyFile(w) /\ (pc[w] = "written" => dir[NameOf(w)].whole)

MadeFilesKept == \A w \in Writers : pc[w] \in {"created", "written"} => Keeps(w)

IInv == TypeOK /\ FieldsTyped /\ MadeFilesKept /\ AckedNotesKept

----------------------------------------------------------------------------
(* The steps.                                                              *)

\* The service starts in the invariant.
LEMMA InitIInv == Init => IInv
<1> SUFFICES ASSUME Init PROVE IInv
  OBVIOUS
<1> USE DEF Init
<1>1. DOMAIN dir = {}
  OBVIOUS
<1>2. NoCall \in CallRecord
  BY InboxAssumption DEF NoCall, CallRecord
<1>3. TypeOK
  BY <1>1, InboxAssumption DEF TypeOK, Stages
<1>4. FieldsTyped
  BY <1>1, <1>2 DEF FieldsTyped
<1>5. MadeFilesKept /\ AckedNotesKept
  BY DEF MadeFilesKept, AckedNotesKept
<1> QED
  BY <1>3, <1>4, <1>5 DEF IInv

\* A call that works with a note has the fields of one that runs.
LEMMA CallFields ==
  ASSUME IInv, NEW w \in Writers
  PROVE  /\ call[w] \in CallRecord /\ call[w].note \in Nat
         /\ NoCall \in CallRecord /\ NoCall.note = 0
         /\ pc[w] # "idle" => /\ call[w].note \in 1 .. notes
                              /\ call[w].attempt < MaxNameAttempts
                              /\ call[w].slug \in Slugs /\ call[w].size \in Sizes
                              /\ NameOf(w) \in FileNames
<1>1. call[w] \in CallRecord /\ NoCall \in CallRecord
  BY InboxAssumption DEF IInv, FieldsTyped, NoCall, CallRecord
<1>2. ASSUME pc[w] # "idle"
      PROVE  /\ call[w].note \in 1 .. notes /\ call[w].attempt < MaxNameAttempts
             /\ call[w].slug \in Slugs /\ call[w].size \in Sizes
  BY <1>2 DEF IInv, FieldsTyped, TypeOK
<1>3. ASSUME pc[w] # "idle" PROVE NameOf(w) \in FileNames
  BY <1>1, <1>2, <1>3 DEF NameOf, FileNames, CallRecord
<1> QED
  BY <1>1, <1>2, <1>3 DEF CallRecord, NoCall

\* A call that returns, whatever the reason, has only its note to leave.
LEMMA FinishIInv ==
  ASSUME IInv, NEW w \in Writers, pc[w] # "idle", Finish(w),
         UNCHANGED <<second, budget, dir, notes, sorted>>,
         \/ acked' = acked
         \/ /\ pc[w] = "written"
            /\ acked' = acked \cup {[note |-> call[w].note, name |-> NameOf(w)]}
  PROVE  IInv'
<1> USE DEF Finish
<1>1. /\ pc' \in [Writers -> Stages] /\ call' \in [Writers -> CallRecord]
      /\ pc'[w] = "idle" /\ call'[w] = NoCall
      /\ \A v \in Writers \ {w} : pc'[v] = pc[v] /\ call'[v] = call[v]
  BY CallFields DEF IInv, TypeOK, FieldsTyped, Stages
<1>2. TypeOK'
  <2>1. \A a \in acked' : a.note \in 1 .. notes
    BY CallFields DEF IInv, TypeOK
  <2> QED
    BY <1>1, <2>1 DEF IInv, TypeOK
<1>3. FieldsTyped'
  BY <1>1 DEF IInv, FieldsTyped
<1>4. MadeFilesKept'
  BY <1>1 DEF IInv, MadeFilesKept, Keeps, MyFile, NameOf
<1>5. AckedNotesKept'
  BY DEF IInv, AckedNotesKept, MadeFilesKept, Keeps, MyFile
<1> QED
  BY <1>2, <1>3, <1>4, <1>5 DEF IInv

\* A call on its way to a name changes only what it works with.
LEMMA OnTheWayIInv ==
  ASSUME IInv, NEW w \in Writers, NEW r \in CallRecord,
         call' = [call EXCEPT ![w] = r],
         r.note = call[w].note, r.slug = call[w].slug, r.size = call[w].size,
         r.attempt < MaxNameAttempts,
         pc[w] \in {"scanning", "naming"},
         pc' = pc \/ pc' = [pc EXCEPT ![w] = "naming"],
         UNCHANGED <<second, budget, dir, notes, acked, sorted>>
  PROVE  IInv'
<1>1. /\ pc' \in [Writers -> Stages] /\ call' \in [Writers -> CallRecord]
      /\ pc'[w] \in {"scanning", "naming"} /\ call'[w] = r
      /\ \A v \in Writers \ {w} : pc'[v] = pc[v] /\ call'[v] = call[v]
  BY DEF IInv, TypeOK, FieldsTyped, Stages
<1>2. r # NoCall
  BY CallFields DEF IInv
<1>3. TypeOK'
  BY <1>1, <1>2, CallFields DEF IInv, TypeOK
<1>4. FieldsTyped'
  BY <1>1, CallFields DEF IInv, FieldsTyped
<1>5. MadeFilesKept' /\ AckedNotesKept'
  BY <1>1 DEF IInv, MadeFilesKept, Keeps, MyFile, NameOf, AckedNotesKept
<1> QED
  BY <1>3, <1>4, <1>5 DEF IInv

\* Up to its name a call reads the inbox and goes on, or returns.
LEMMA LookingIInv ==
  ASSUME IInv, NEW w \in Writers, StatEntry(w) \/ CheckQuota(w) \/ NameTaken(w)
  PROVE  IInv'
<1> DEFINE c == call[w]
<1>1. c \in CallRecord /\ c.attempt < MaxNameAttempts /\ pc[w] # "idle"
  BY CallFields DEF StatEntry, CheckQuota, NameTaken
<1>2. CASE StatEntry(w)
  <2>1. PICK n \in (DOMAIN dir \cup c.due) \ c.seen :
          \/ /\ n \in DOMAIN dir
             /\ call' = [call EXCEPT ![w].seen = @ \cup {n},
                                     ![w].used = @ + dir[n].size]
             /\ UNCHANGED pc
          \/ call' = [call EXCEPT ![w].due = @ \ {n}] /\ UNCHANGED pc
          \/ Finish(w)
    BY <1>2 DEF StatEntry
  <2>2. CASE /\ n \in DOMAIN dir
             /\ call' = [call EXCEPT ![w].seen = @ \cup {n}, ![w].used = @ + dir[n].size]
             /\ UNCHANGED pc
    <3> DEFINE r == [c EXCEPT !.seen = @ \cup {n}, !.used = @ + dir[n].size]
    <3>1. n \in FileNames /\ dir[n].size \in Nat
      BY <2>2 DEF IInv, FieldsTyped, File
    <3>2. /\ r \in CallRecord
          /\ r.note = c.note /\ r.slug = c.slug /\ r.size = c.size /\ r.attempt = c.attempt
      <4>1. c.seen \cup {n} \in SUBSET FileNames /\ c.used + dir[n].size \in Nat
        BY <1>1, <3>1 DEF CallRecord
      <4> QED
        BY <1>1, <4>1 DEF CallRecord
    <3>3. call' = [call EXCEPT ![w] = r] /\ pc' = pc
      BY <2>1, <2>2 DEF IInv, FieldsTyped
    <3> HIDE DEF r
    <3> QED
      BY <1>1, <1>2, <3>2, <3>3, OnTheWayIInv DEF StatEntry
  <2>3. CASE call' = [call EXCEPT ![w].due = @ \ {n}] /\ UNCHANGED pc
    <3> DEFINE r == [c EXCEPT !.due = @ \ {n}]
    <3>1. /\ r \in CallRecord
          /\ r.note = c.note /\ r.slug = c.slug /\ r.size = c.size /\ r.attempt = c.attempt
      BY <1>1 DEF CallRecord
    <3>2. call' = [call EXCEPT ![w] = r] /\ pc' = pc
      BY <2>3 DEF IInv, FieldsTyped
    <3> HIDE DEF r
    <3> QED
      BY <1>1, <1>2, <3>1, <3>2, OnTheWayIInv DEF StatEntry
  <2>4. CASE Finish(w)
    BY <1>1, <1>2, <2>4, FinishIInv DEF StatEntry
  <2> QED
    BY <2>1, <2>2, <2>3, <2>4
<1>3. CASE CheckQuota(w)
  <2>1. CASE Finish(w)
    BY <1>1, <1>3, <2>1, FinishIInv DEF CheckQuota
  <2>2. CASE /\ pc' = [pc EXCEPT ![w] = "naming"]
             /\ call' = [call EXCEPT ![w].due = {}, ![w].seen = {}]
    <3> DEFINE r == [c EXCEPT !.due = {}, !.seen = {}]
    <3>1. /\ r \in CallRecord
          /\ r.note = c.note /\ r.slug = c.slug /\ r.size = c.size /\ r.attempt = c.attempt
      BY <1>1 DEF CallRecord
    <3>2. call' = [call EXCEPT ![w] = r]
      BY <2>2 DEF IInv, FieldsTyped
    <3> HIDE DEF r
    <3> QED
      BY <1>1, <1>3, <2>2, <3>1, <3>2, OnTheWayIInv DEF CheckQuota
  <2> QED
    BY <1>3, <2>1, <2>2 DEF CheckQuota
<1>4. CASE NameTaken(w)
  <2>1. CASE Finish(w)
    BY <1>1, <1>4, <2>1, FinishIInv DEF NameTaken
  <2>2. CASE /\ c.attempt + 1 < MaxNameAttempts
             /\ call' = [call EXCEPT ![w].attempt = @ + 1] /\ pc' = pc
    <3> DEFINE r == [c EXCEPT !.attempt = @ + 1]
    <3>1. /\ r \in CallRecord /\ r.attempt = c.attempt + 1
          /\ r.note = c.note /\ r.slug = c.slug /\ r.size = c.size
      <4>1. c.attempt + 1 \in 0 .. MaxNameAttempts
        BY <1>1, <2>2, InboxAssumption DEF CallRecord
      <4> QED
        BY <1>1, <4>1 DEF CallRecord
    <3>2. call' = [call EXCEPT ![w] = r]
      BY <2>2 DEF IInv, FieldsTyped
    <3>3. r.attempt < MaxNameAttempts
      BY <2>2, <3>1
    <3> HIDE DEF r
    <3> QED
      BY <1>1, <1>4, <2>2, <3>1, <3>2, <3>3, OnTheWayIInv DEF NameTaken
  <2> QED
    BY <1>4, <2>1, <2>2 DEF NameTaken
<1> QED
  BY <1>2, <1>3, <1>4

\* A new file is under a name nobody has: no file of another call is touched.
LEMMA CreateIInv ==
  ASSUME IInv, NEW w \in Writers, CreateExclusive(w)
  PROVE  IInv'
<1> DEFINE N == NameOf(w)
<1>1. /\ pc[w] = "naming" /\ N \notin DOMAIN dir
      /\ pc' = [pc EXCEPT ![w] = "created"]
      /\ UNCHANGED <<second, budget, call, notes, acked, sorted>>
  BY DEF CreateExclusive
<1>2. /\ dir' = [n \in DOMAIN dir \cup {N} |-> IF n = N THEN NewFile(w) ELSE dir[n]]
      /\ DOMAIN dir' = DOMAIN dir \cup {N} /\ dir'[N] = NewFile(w)
      /\ \A n \in DOMAIN dir : dir'[n] = dir[n]
  BY <1>1 DEF CreateExclusive, WithNewFile
<1>3. /\ NewFile(w) \in File /\ NewFile(w).note = call[w].note
      /\ NewFile(w).size = 0 /\ ~NewFile(w).whole
      /\ call[w].note \in 1 .. notes /\ N \in FileNames
  BY <1>1, CallFields DEF NewFile, File
<1>4. TypeOK'
  BY <1>1, <1>2, <1>3 DEF IInv, TypeOK, Stages
<1>5. FieldsTyped'
  <2>1. dir' \in [DOMAIN dir' -> File] /\ DOMAIN dir' \subseteq FileNames
    BY <1>2, <1>3 DEF IInv, FieldsTyped
  <2>2. \A v \in Writers : pc'[v] # "idle" => pc[v] # "idle"
    BY <1>1 DEF IInv, TypeOK
  <2> QED
    BY <1>1, <2>1, <2>2 DEF IInv, FieldsTyped
<1>6. MadeFilesKept'
  <2> SUFFICES ASSUME NEW v \in Writers, pc'[v] \in {"created", "written"} PROVE Keeps(v)'
    BY DEF MadeFilesKept
  <2>1. CASE v = w
    BY <2>1, <1>1, <1>2, <1>3 DEF Keeps, MyFile, NameOf, IInv, TypeOK
  <2>2. CASE v # w
    BY <2>2, <1>1, <1>2 DEF Keeps, MyFile, NameOf, MadeFilesKept, IInv, TypeOK
  <2> QED
    BY <2>1, <2>2
<1>7. AckedNotesKept'
  BY <1>1, <1>2 DEF IInv, AckedNotesKept
<1> QED
  BY <1>4, <1>5, <1>6, <1>7 DEF IInv

\* What a write makes of a file: it is whole, and is whose it was.
LEMMA WriteEffect ==
  ASSUME IInv, NEW w \in Writers, WriteNote(w)
  PROVE  /\ DOMAIN dir' = DOMAIN dir /\ dir' \in [DOMAIN dir -> File]
         /\ \A n \in DOMAIN dir :
              \/ dir'[n] = dir[n]
              \/ /\ n = NameOf(w) /\ MyFile(w)
                 /\ dir'[n].note = dir[n].note /\ dir'[n].whole
                 /\ dir'[n].size = call[w].size
         /\ MyFile(w) => dir'[NameOf(w)].whole
<1>1. call[w].size \in Sizes /\ call[w].size \in Nat
  BY CallFields, InboxAssumption DEF WriteNote
<1>2. CASE ~MyFile(w)
  BY <1>2 DEF WriteNote, IInv, FieldsTyped
<1>3. CASE MyFile(w)
  <2>1. dir' = [dir EXCEPT ![NameOf(w)] =
                  [dir[NameOf(w)] EXCEPT !.size = call[w].size, !.whole = TRUE]]
    BY <1>3 DEF WriteNote, IInv, FieldsTyped
  <2>2. NameOf(w) \in DOMAIN dir /\ dir[NameOf(w)] \in File
    BY <1>3 DEF MyFile, IInv, FieldsTyped
  <2> DEFINE f == [dir[NameOf(w)] EXCEPT !.size = call[w].size, !.whole = TRUE]
  <2>3. f \in File /\ f.note = dir[NameOf(w)].note /\ f.whole /\ f.size = call[w].size
    BY <1>1, <2>2 DEF File
  <2> HIDE DEF f
  <2> QED
    BY <1>3, <2>1, <2>2, <2>3 DEF f, IInv, FieldsTyped
<1> QED
  BY <1>2, <1>3

\* A call writes its own file and no other.
LEMMA WriteIInv ==
  ASSUME IInv, NEW w \in Writers, WriteNote(w)
  PROVE  IInv'
<1>1. /\ pc[w] = "created" /\ pc' = [pc EXCEPT ![w] = "written"]
      /\ UNCHANGED <<second, budget, call, notes, acked, sorted>>
  BY DEF WriteNote
<1>2. /\ DOMAIN dir' = DOMAIN dir
      /\ \A n \in DOMAIN dir : /\ dir'[n].note = dir[n].note
                               /\ dir[n].whole => dir'[n].whole
      /\ MyFile(w) => dir'[NameOf(w)].whole
  BY WriteEffect
<1>3. TypeOK'
  <2>1. call[w].size \in Sizes /\ call[w].size # 0
    BY <1>1, CallFields, InboxAssumption
  <2>2. \A n \in DOMAIN dir' : /\ dir'[n].note \in 1 .. notes
                               /\ dir'[n].size \in Sizes \cup {0}
                               /\ dir'[n].whole => dir'[n].size # 0
    BY <2>1, WriteEffect DEF IInv, TypeOK
  <2> QED
    BY <1>1, <2>2 DEF IInv, TypeOK, Stages
<1>4. FieldsTyped'
  <2>1. dir' \in [DOMAIN dir' -> File]
    BY WriteEffect
  <2>2. \A v \in Writers : pc'[v] # "idle" => pc[v] # "idle"
    BY <1>1 DEF IInv, TypeOK
  <2> QED
    BY <1>1, <1>2, <2>1, <2>2 DEF IInv, FieldsTyped
<1>5. MadeFilesKept'
  <2> SUFFICES ASSUME NEW v \in Writers, pc'[v] \in {"created", "written"} PROVE Keeps(v)'
    BY DEF MadeFilesKept
  <2>1. Keeps(v)
    BY <1>1 DEF IInv, MadeFilesKept, TypeOK
  <2>2. NameOf(v)' = NameOf(v) /\ call'[v] = call[v] /\ sorted' = sorted
    BY <1>1 DEF NameOf
  <2>3. CASE v = w
    BY <2>1, <2>2, <2>3, <1>2 DEF Keeps, MyFile
  <2>4. CASE v # w
    BY <2>1, <2>2, <2>4, <1>1, <1>2 DEF Keeps, MyFile, IInv, TypeOK
  <2> QED
    BY <2>3, <2>4
<1>6. AckedNotesKept'
  BY <1>1, <1>2 DEF IInv, AckedNotesKept
<1> QED
  BY <1>3, <1>4, <1>5, <1>6 DEF IInv

\* A call that begins works with a note of its own.
LEMMA AppendIInv ==
  ASSUME IInv, NEW w \in Writers, AppendInvalid(w) \/ AppendNote(w)
  PROVE  IInv'
<1>1. CASE AppendInvalid(w)
  <2>1. budget' \in 0 .. WritesPerHour
    BY <1>1, InboxAssumption DEF AppendInvalid, IInv, TypeOK
  <2> QED
    BY <1>1, <2>1 DEF AppendInvalid, IInv, TypeOK, FieldsTyped, MadeFilesKept, Keeps,
                      MyFile, NameOf, AckedNotesKept
<1>2. CASE AppendNote(w)
  <2>1. PICK slug \in Slugs, size \in Sizes :
          call' = [call EXCEPT ![w] =
                     [note |-> notes + 1, at |-> second, slug |-> slug, size |-> size,
                      due |-> DOMAIN dir, seen |-> {}, used |-> 0, attempt |-> 0]]
    BY <1>2 DEF AppendNote
  <2> DEFINE r == [note |-> notes + 1, at |-> second, slug |-> slug, size |-> size,
                   due |-> DOMAIN dir, seen |-> {}, used |-> 0, attempt |-> 0]
  <2>2. /\ r \in CallRecord /\ r.note = notes + 1 /\ r.slug = slug /\ r.size = size
        /\ r.attempt = 0
    <3>1. /\ notes + 1 \in Nat /\ second \in 0 .. LastSecond
          /\ DOMAIN dir \in SUBSET FileNames
      BY DEF IInv, TypeOK, FieldsTyped
    <3>3. 0 \in 0 .. MaxNameAttempts
      BY InboxAssumption
    <3> QED
      BY <3>1, <3>3 DEF CallRecord
  <2>3. r # NoCall
    <3>1. notes \in Nat /\ NoCall.note = 0
      BY CallFields DEF IInv, TypeOK
    <3> QED
      BY <2>2, <3>1
  <2>4. call' = [call EXCEPT ![w] = r]
    BY <2>1
  <2> HIDE DEF r
  <2>5. /\ pc' \in [Writers -> Stages] /\ call' \in [Writers -> CallRecord]
        /\ pc'[w] = "scanning" /\ call'[w] = r
        /\ \A v \in Writers \ {w} : pc'[v] = pc[v] /\ call'[v] = call[v]
    BY <1>2, <2>2, <2>4 DEF AppendNote, IInv, TypeOK, FieldsTyped, Stages
  <2>6. /\ notes' = notes + 1 /\ notes' \in 0 .. MaxNotes /\ 1 .. notes \subseteq 1 .. notes'
        /\ notes + 1 \in 1 .. notes'
        /\ budget' \in 0 .. WritesPerHour
    <3>1. /\ notes \in 0 .. MaxNotes /\ notes < MaxNotes /\ notes' = notes + 1
          /\ budget \in 0 .. WritesPerHour /\ budget > 0 /\ budget' = budget - 1
      BY <1>2 DEF AppendNote, IInv, TypeOK
    <3>2. MaxNotes \in Nat /\ WritesPerHour \in Nat
      BY InboxAssumption
    <3> QED
      BY <3>1, <3>2
  <2>7. UNCHANGED <<second, dir, acked, sorted>>
    BY <1>2 DEF AppendNote
  <2>8. TypeOK'
    <3>1. \A v \in Writers :
            /\ pc'[v] = "idle" <=> call'[v] = NoCall
            /\ pc'[v] # "idle" => /\ call'[v].note \in 1 .. notes'
                                  /\ call'[v].attempt < MaxNameAttempts
      <4> SUFFICES ASSUME NEW v \in Writers
                   PROVE  /\ pc'[v] = "idle" <=> call'[v] = NoCall
                          /\ pc'[v] # "idle" => /\ call'[v].note \in 1 .. notes'
                                                /\ call'[v].attempt < MaxNameAttempts
        OBVIOUS
      <4>1. CASE v = w
        BY <4>1, <2>2, <2>3, <2>5, <2>6, InboxAssumption
      <4>2. CASE v # w
        BY <4>2, <2>5, <2>6 DEF IInv, TypeOK
      <4> QED
        BY <4>1, <4>2
    <3> QED
      BY <2>5, <2>6, <2>7, <3>1 DEF IInv, TypeOK
  <2>9. FieldsTyped'
    BY <2>2, <2>5, <2>7 DEF IInv, FieldsTyped
  <2>10. MadeFilesKept' /\ AckedNotesKept'
    BY <2>5, <2>7 DEF IInv, MadeFilesKept, Keeps, MyFile, NameOf, AckedNotesKept
  <2> QED
    BY <2>8, <2>9, <2>10 DEF IInv
<1> QED
  BY <1>1, <1>2

\* A file the owner takes counts as sorted; the others stay.
LEMMA OwnerIInv ==
  ASSUME IInv, NEW n \in DOMAIN dir, OwnerTakes(n)
  PROVE  IInv'
<1>1. /\ DOMAIN dir' = DOMAIN dir \ {n} /\ \A m \in DOMAIN dir \ {n} : dir'[m] = dir[m]
      /\ dir' \in [DOMAIN dir' -> File]
      /\ sorted' = sorted \cup {dir[n].note}
      /\ UNCHANGED <<second, budget, pc, call, notes, acked>>
  BY DEF OwnerTakes, IInv, FieldsTyped
<1>2. TypeOK' /\ FieldsTyped'
  BY <1>1 DEF IInv, TypeOK, FieldsTyped
<1>3. MadeFilesKept'
  BY <1>1 DEF IInv, MadeFilesKept, Keeps, MyFile, NameOf
<1>4. AckedNotesKept'
  BY <1>1 DEF IInv, AckedNotesKept
<1> QED
  BY <1>2, <1>3, <1>4 DEF IInv

\* A restart loses the calls, never a file; the clock and the budget touch
\* nothing else.
LEMMA AroundIInv ==
  ASSUME IInv, Restart \/ Tick \/ Refill \/ UNCHANGED vars
  PROVE  IInv'
<1>1. CASE Restart
  <2>1. NoCall \in CallRecord
    BY InboxAssumption DEF NoCall, CallRecord
  <2>2. TypeOK' /\ FieldsTyped'
    BY <1>1, <2>1, InboxAssumption DEF Restart, IInv, TypeOK, FieldsTyped, Stages
  <2> QED
    BY <1>1, <2>2 DEF Restart, IInv, MadeFilesKept, AckedNotesKept
<1>2. CASE Tick \/ Refill \/ UNCHANGED vars
  <2>1. second' \in 0 .. LastSecond /\ budget' \in 0 .. WritesPerHour
    BY <1>2, InboxAssumption DEF Tick, Refill, vars, IInv, TypeOK
  <2>2. UNCHANGED <<pc, call, dir, notes, acked, sorted>>
    BY <1>2 DEF Tick, Refill, vars
  <2>3. TypeOK' /\ FieldsTyped'
    BY <2>1, <2>2 DEF IInv, TypeOK, FieldsTyped
  <2> QED
    BY <2>2, <2>3 DEF IInv, MadeFilesKept, Keeps, MyFile, NameOf, AckedNotesKept
<1> QED
  BY <1>1, <1>2

\* The invariant is inductive.
LEMMA NextIInv == IInv /\ [Next]_vars => IInv'
<1> SUFFICES ASSUME IInv, [Next]_vars PROVE IInv'
  OBVIOUS
<1>1. ASSUME NEW w \in Writers, Answer(w) \/ CallFails(w)
      PROVE  IInv'
  BY <1>1, FinishIInv DEF Answer, CallFails
<1>2. ASSUME NEW w \in Writers,
             \/ AppendInvalid(w) \/ AppendNote(w) \/ StatEntry(w) \/ CheckQuota(w)
             \/ CreateExclusive(w) \/ NameTaken(w) \/ WriteNote(w)
      PROVE  IInv'
  BY <1>2, AppendIInv, LookingIInv, CreateIInv, WriteIInv
<1>3. ASSUME NEW n \in DOMAIN dir, OwnerTakes(n)
      PROVE  IInv'
  BY <1>3, OwnerIInv
<1>4. CASE Restart \/ Tick \/ Refill \/ UNCHANGED vars
  BY <1>4, AroundIInv
<1> QED
  BY <1>1, <1>2, <1>3, <1>4 DEF Next

\* The invariant holds in every behaviour of the inbox.
LEMMA Invariance == Spec => []IInv
  BY InitIInv, NextIInv, PTL DEF Spec

----------------------------------------------------------------------------
(* The theorems.                                                           *)

\* TypeOK holds for any number of calls, any slugs, sizes and limits.
THEOREM TypeCorrectness == Spec => []TypeOK
<1>1. IInv => TypeOK
  BY DEF IInv
<1> QED
  BY <1>1, Invariance, PTL

\* create_note answers only when its note is on the disk under the id it
\* returns, and O_EXCL keeps every later call away from it: no interleaving,
\* failure or restart changes or loses it before the owner takes it.
THEOREM AnsweredNotesStay == Spec => []AckedNotesKept
<1>1. IInv => AckedNotesKept
  BY DEF IInv
<1> QED
  BY <1>1, Invariance, PTL

\* A step that changes a file is the write of the call that made it.
THEOREM FilesAreNeverOverwritten == Spec => NeverOverwritten
<1>1. IInv /\ [Next]_vars => [WritesItsOwn]_vars
  <2> SUFFICES ASSUME IInv, [Next]_vars PROVE [WritesItsOwn]_vars
    OBVIOUS
  <2>1. CASE UNCHANGED dir
    BY <2>1 DEF WritesItsOwn
  <2>2. ASSUME NEW w \in Writers, CreateExclusive(w) PROVE WritesItsOwn
    BY <2>2 DEF CreateExclusive, WithNewFile, WritesItsOwn
  <2>3. ASSUME NEW w \in Writers, WriteNote(w) PROVE WritesItsOwn
    <3>1. pc[w] = "created"
      BY <2>3 DEF WriteNote
    <3>2. \A n \in DOMAIN dir :
            \/ dir'[n] = dir[n]
            \/ n = NameOf(w) /\ MyFile(w) /\ dir'[n].note = dir[n].note
      BY <2>3, WriteEffect
    <3> QED
      BY <3>1, <3>2 DEF MyFile, WritesItsOwn
  <2>4. ASSUME NEW n \in DOMAIN dir, OwnerTakes(n) PROVE WritesItsOwn
    BY <2>4 DEF OwnerTakes, WritesItsOwn
  <2> QED
    BY <2>1, <2>2, <2>3, <2>4
    DEF Next, AppendInvalid, AppendNote, StatEntry, CheckQuota, NameTaken, Answer,
        CallFails, Restart, Tick, Refill, vars
<1> QED
  BY <1>1, Invariance, PTL DEF Spec, NeverOverwritten

----------------------------------------------------------------------------
(* What files weigh: a sum over a finite set, in any order.                *)

\* The name that is taken first.
First(s) == CHOOSE x \in s : TRUE

\* f adds up the files of every set of names in S.
IsSum(files, S, f) ==
  f = [s \in SUBSET S |-> IF s = {} THEN 0 ELSE files[First(s)].size + f[s \ {First(s)}]]

\* Of some sets of names one is smallest.
LEMMA Smallest ==
  ASSUME NEW S, IsFiniteSet(S), NEW Some \in SUBSET SUBSET S, Some # {}
  PROVE  \E T \in Some : \A U \in Some : U \subseteq T => U = T
<1> DEFINE R == StrictSubsetOrdering(S)
<1>1. IsWellFoundedOn(R, SUBSET S)
  <2>1. IsWellFoundedOn(R, FiniteSubsetsOf(S))
    BY FS_StrictSubsetOrderingWellFounded
  <2>2. FiniteSubsetsOf(S) = SUBSET S
    BY FS_FiniteSubsetsOfFinite
  <2> QED
    BY <2>1, <2>2
<1>2. \A T, U \in SUBSET S : T \subseteq U /\ T # U => <<T, U>> \in R
  BY DEF StrictSubsetOrdering
<1> HIDE DEF R
<1>3. PICK T \in Some : \A U \in Some : <<U, T>> \notin R
  BY <1>1, WFMin
<1> QED
  BY <1>2, <1>3

\* The additions of a set and of a larger one agree.
LEMMA SumsAgree ==
  ASSUME NEW files, NEW T, IsFiniteSet(T), NEW S \in SUBSET T,
         NEW f, NEW g, IsSum(files, S, f), IsSum(files, T, g)
  PROVE  \A s \in SUBSET S : f[s] = g[s]
<1> DEFINE Wrong == {s \in SUBSET S : f[s] # g[s]}
<1> SUFFICES ASSUME Wrong # {} PROVE FALSE
  OBVIOUS
<1>1. Wrong \in SUBSET SUBSET S /\ IsFiniteSet(S)
  BY FS_Subset
<1>2. PICK s \in Wrong : \A u \in Wrong : u \subseteq s => u = s
  <2> HIDE DEF Wrong
  <2> QED
    BY <1>1, Smallest
<1>3. s \in SUBSET S /\ s \in SUBSET T /\ f[s] # g[s]
  OBVIOUS
<1>4. /\ f[s] = IF s = {} THEN 0 ELSE files[First(s)].size + f[s \ {First(s)}]
      /\ g[s] = IF s = {} THEN 0 ELSE files[First(s)].size + g[s \ {First(s)}]
  BY <1>3, Zenon DEF IsSum
<1>5. s # {}
  BY <1>3, <1>4
<1>6. First(s) \in s
  BY <1>5 DEF First
<1>7. f[s \ {First(s)}] = g[s \ {First(s)}]
  BY <1>2, <1>3, <1>6
<1> QED
  BY <1>3, <1>4, <1>5, <1>7

\* Bytes is what such an addition gives for the whole set.
LEMMA BytesIsSum ==
  ASSUME NEW files, NEW S
  PROVE  Bytes(files, S) = (CHOOSE f : IsSum(files, S, f))[S]
BY Zenon DEF Bytes, MapThenSumSet, MapThenFoldSet, IsSum, First

\* A finite set can be added up.
LEMMA SumExists ==
  ASSUME NEW files, NEW S, IsFiniteSet(S)
  PROVE  \E f : IsSum(files, S, f)
<1> DEFINE Wrong == {T \in SUBSET S : ~\E f : IsSum(files, T, f)}
<1> SUFFICES ASSUME Wrong # {} PROVE FALSE
  OBVIOUS
<1>1. Wrong \in SUBSET SUBSET S
  OBVIOUS
<1>2. PICK T \in Wrong : \A U \in Wrong : U \subseteq T => U = T
  <2> HIDE DEF Wrong
  <2> QED
    BY <1>1, Smallest
<1>3. T \in SUBSET S /\ IsFiniteSet(T) /\ ~\E f : IsSum(files, T, f)
  BY FS_Subset
<1>4. \A U \in SUBSET T : U # T => \E f : IsSum(files, U, f)
  BY <1>2, <1>3
<1> HIDE DEF Wrong
<1> DEFINE fun(U) == CHOOSE f : IsSum(files, U, f)
           val(U) == fun(U)[U]
<1>5. \A U \in SUBSET T : U # T => IsSum(files, U, fun(U))
  BY <1>4
<1>6. ASSUME NEW U \in SUBSET T, U # T
      PROVE  val(U) = IF U = {} THEN 0 ELSE files[First(U)].size + val(U \ {First(U)})
  <2>1. IsSum(files, U, fun(U))
    BY <1>5, <1>6
  <2>2. U \in SUBSET U
    OBVIOUS
  <2> HIDE DEF fun
  <2>3. val(U) = IF U = {} THEN 0 ELSE files[First(U)].size + fun(U)[U \ {First(U)}]
    BY <2>1, <2>2, Zenon DEF IsSum
  <2>4. CASE U = {}
    BY <2>3, <2>4
  <2>5. CASE U # {}
    <3> DEFINE W == U \ {First(U)}
    <3>1. First(U) \in U
      BY <2>5 DEF First
    <3>2. W \in SUBSET U /\ W \in SUBSET T /\ W # T /\ W \in SUBSET W
      BY <3>1
    <3>3. IsSum(files, W, fun(W)) /\ IsFiniteSet(U)
      BY <1>3, <1>5, <3>2, FS_Subset DEF fun
    <3>4. fun(W)[W] = fun(U)[W]
      BY <2>1, <3>2, <3>3, SumsAgree
    <3> QED
      BY <2>3, <2>5, <3>4
  <2> QED
    BY <2>4, <2>5
<1> HIDE DEF fun, val
<1> DEFINE f == [s \in SUBSET T |-> IF s = {} THEN 0 ELSE files[First(s)].size + val(s \ {First(s)})]
<1>7. ASSUME NEW s \in SUBSET T, s # {}
      PROVE  f[s \ {First(s)}] = val(s \ {First(s)})
  <2> DEFINE u == s \ {First(s)}
  <2>1. First(s) \in s
    BY <1>7 DEF First
  <2>2. u \in SUBSET T /\ u # T
    BY <2>1
  <2>3. f[u] = IF u = {} THEN 0 ELSE files[First(u)].size + val(u \ {First(u)})
    BY <2>2
  <2> QED
    BY <1>6, <2>2, <2>3
<1>8. f = [s \in SUBSET T |-> IF s = {} THEN 0 ELSE files[First(s)].size + f[s \ {First(s)}]]
  BY <1>7
<1> HIDE DEF f
<1>9. IsSum(files, T, f)
  BY <1>8 DEF IsSum
<1> QED
  BY <1>3, <1>9

\* Adding up takes the first name and goes on with the others.
LEMMA BytesByFirst ==
  ASSUME NEW files, NEW S, IsFiniteSet(S)
  PROVE  Bytes(files, S) = IF S = {} THEN 0
                           ELSE files[First(S)].size + Bytes(files, S \ {First(S)})
<1> DEFINE fun(U) == CHOOSE f : IsSum(files, U, f)
           W == S \ {First(S)}
<1>1. IsFiniteSet(W)
  BY FS_Subset
<1>2. IsSum(files, S, fun(S)) /\ IsSum(files, W, fun(W))
  BY <1>1, SumExists
<1>3. Bytes(files, S) = fun(S)[S] /\ Bytes(files, W) = fun(W)[W]
  BY BytesIsSum
<1> HIDE DEF fun
<1>4. W \in SUBSET S /\ W \in SUBSET W /\ S \in SUBSET S
  OBVIOUS
<1>5. fun(W)[W] = fun(S)[W]
  BY <1>2, <1>4, SumsAgree
<1>6. fun(S)[S] = IF S = {} THEN 0 ELSE files[First(S)].size + fun(S)[W]
  BY <1>2, <1>4, Zenon DEF IsSum
<1> HIDE DEF W
<1>7. Bytes(files, S) = IF S = {} THEN 0 ELSE files[First(S)].size + Bytes(files, W)
  BY <1>3, <1>5, <1>6
<1> QED
  BY <1>7 DEF W

\* A sum of sizes is a number, and the order does not matter.
LEMMA BytesByAny ==
  ASSUME NEW files, NEW S, IsFiniteSet(S), \A n \in S : files[n].size \in Nat
  PROVE  /\ Bytes(files, {}) = 0
         /\ Bytes(files, S) \in Nat
         /\ \A n \in S : Bytes(files, S) = files[n].size + Bytes(files, S \ {n})
<1>1. Bytes(files, {}) = 0
  BY FS_EmptySet, BytesByFirst
<1> DEFINE B(T) == Bytes(files, T)
           Good(T) == B(T) \in Nat /\ \A n \in T : B(T) = files[n].size + B(T \ {n})
           Wrong == {T \in SUBSET S : ~Good(T)}
<1>2. Wrong = {}
  <2> SUFFICES ASSUME Wrong # {} PROVE FALSE
    OBVIOUS
  <2>1. Wrong \in SUBSET SUBSET S
    OBVIOUS
  <2>2. PICK T \in Wrong : \A U \in Wrong : U \subseteq T => U = T
    <3> HIDE DEF Wrong
    <3> QED
      BY <2>1, Smallest
  <2>3. T \in SUBSET S /\ IsFiniteSet(T) /\ ~Good(T)
    BY FS_Subset
  <2>4. \A n \in T : Good(T \ {n})
    <3> TAKE n \in T
    <3>1. T \ {n} \notin Wrong
      BY <2>2
    <3> HIDE DEF Good
    <3> QED
      BY <2>3, <3>1
  <2> HIDE DEF Wrong
  <2>5. CASE T = {}
    <3>1. Good(T)
      BY <1>1, <2>5
    <3> HIDE DEF Good
    <3> QED
      BY <2>3, <3>1
  <2>6. CASE T # {}
    <3> DEFINE c == First(T)
    <3>1. c \in T
      BY <2>6 DEF First
    <3> HIDE DEF c
    <3>2. B(T) = files[c].size + B(T \ {c})
      BY <2>3, <2>6, BytesByFirst DEF c
    <3> HIDE DEF B
    <3>3. files[c].size \in Nat /\ B(T \ {c}) \in Nat
      BY <2>3, <2>4, <3>1
    <3>4. B(T) \in Nat
      BY <3>2, <3>3
    <3>5. ASSUME NEW n \in T PROVE B(T) = files[n].size + B(T \ {n})
      <4>1. CASE n = c
        BY <3>2, <4>1
      <4>2. CASE n # c
        <5>1. B(T \ {c}) = files[n].size + B((T \ {c}) \ {n})
          BY <2>4, <3>1, <4>2
        <5>2. B(T \ {n}) = files[c].size + B((T \ {n}) \ {c})
          BY <2>4, <3>1, <4>2
        <5>3. (T \ {c}) \ {n} = (T \ {n}) \ {c}
          OBVIOUS
        <5>4. B((T \ {n}) \ {c}) \in Nat
          <6>1. c \in T \ {n}
            BY <3>1, <4>2
          <6>2. T \ {n} \in SUBSET S /\ T \ {n} # T
            BY <2>3
          <6>3. (T \ {n}) \ {c} \notin Wrong
            BY <2>2, <3>1
          <6>4. Good((T \ {n}) \ {c})
            BY <6>3, <2>3 DEF Wrong
          <6> QED
            BY <6>4
        <5>5. files[n].size \in Nat /\ files[c].size \in Nat
          BY <2>3, <3>1
        <5>6. PICK a, b, rest \in Nat :
                a = files[n].size /\ b = files[c].size /\ rest = B((T \ {n}) \ {c})
          BY <5>4, <5>5
        <5>7. B(T \ {c}) = a + rest /\ B(T \ {n}) = b + rest
          BY <5>1, <5>2, <5>3, <5>6
        <5>8. B(T) = b + (a + rest)
          BY <3>2, <5>6, <5>7
        <5>9. a + (b + rest) = b + (a + rest)
          BY <5>6
        <5> QED
          BY <5>6, <5>7, <5>8, <5>9
      <4> QED
        BY <4>1, <4>2
    <3> QED
      BY <2>3, <3>4, <3>5
  <2> QED
    BY <2>5, <2>6
<1>3. Good(S)
  <2>1. S \notin Wrong
    BY <1>2
  <2> HIDE DEF Good
  <2> QED
    BY <2>1
<1> QED
  BY <1>1, <1>3

\* Only the sizes in the set count.
LEMMA BytesSame ==
  ASSUME NEW files, NEW others, NEW S, IsFiniteSet(S),
         \A n \in S : files[n].size = others[n].size
  PROVE  Bytes(files, S) = Bytes(others, S)
<1> DEFINE Wrong == {T \in SUBSET S : Bytes(files, T) # Bytes(others, T)}
<1>1. Wrong = {}
  <2> SUFFICES ASSUME Wrong # {} PROVE FALSE
    OBVIOUS
  <2>1. Wrong \in SUBSET SUBSET S
    OBVIOUS
  <2>2. PICK T \in Wrong : \A U \in Wrong : U \subseteq T => U = T
    <3> HIDE DEF Wrong
    <3> QED
      BY <2>1, Smallest
  <2>3. T \in SUBSET S /\ IsFiniteSet(T) /\ Bytes(files, T) # Bytes(others, T)
    BY FS_Subset
  <2>4. T # {}
    BY <2>3, FS_EmptySet, BytesByFirst
  <2>5. First(T) \in T
    BY <2>4 DEF First
  <2>6. Bytes(files, T \ {First(T)}) = Bytes(others, T \ {First(T)})
    BY <2>2, <2>3, <2>5
  <2> HIDE DEF Wrong
  <2>7. files[First(T)].size = others[First(T)].size
    BY <2>3, <2>5
  <2> QED
    BY <2>3, <2>4, <2>6, <2>7, BytesByFirst
<1>2. S \notin Wrong
  BY <1>1
<1> QED
  BY <1>2

----------------------------------------------------------------------------
(* The quota.                                                              *)

\* Calls that have not written yet.
Flight == {w \in Writers : pc[w] \in {"scanning", "naming", "created"}}

\* The least a call will have counted when its scan ends.
Due(w) == (call[w].due \ call[w].seen) \cap DOMAIN dir
Count(w) == call[w].used + Bytes(dir, Due(w))

\* A note for each of the other calls.
Margin(S) == Cardinality(Writers \ S) * Max(Sizes)

\* If all of S may still write, either there is room for them, or the files are
\* counted by one of them, up to notes of the calls outside S.
Within(S) ==
  \/ Total + Max(Sizes) <= MaxTotal + Margin(S)
  \/ \E w \in S : Total <= Margin(S) + Count(w)

Room == \A S \in SUBSET Flight : Within(S)

\* A call that has passed the check had room for its note when it counted.
Passed ==
  \A w \in Writers : pc[w] \in {"naming", "created"} =>
    call[w].due = {} /\ call[w].used + call[w].size <= MaxTotal

QInv == IsFiniteSet(DOMAIN dir) /\ Passed /\ Room

\* The largest note.
LEMMA LargestNote ==
  /\ Max(Sizes) \in Nat \ {0}
  /\ \A size \in Sizes : size <= Max(Sizes)
<1> DEFINE Largest(S, x) == x \in S /\ \A y \in S : x >= y
           Some == {S \in SUBSET Sizes : S # {} /\ ~\E x \in S : Largest(S, x)}
<1>1. Some = {}
  <2> SUFFICES ASSUME Some # {} PROVE FALSE
    OBVIOUS
  <2>1. Some \in SUBSET SUBSET Sizes /\ IsFiniteSet(Sizes)
    BY InboxAssumption
  <2>2. PICK S \in Some : \A U \in Some : U \subseteq S => U = S
    <3> HIDE DEF Some
    <3> QED
      BY <2>1, Smallest
  <2>3. PICK x : x \in S
    OBVIOUS
  <2>4. S \subseteq Nat /\ x \in Nat
    BY <2>3, InboxAssumption
  <2>5. CASE S = {x}
    BY <2>4, <2>5
  <2>6. CASE S # {x}
    <3>1. PICK y \in S \ {x} : Largest(S \ {x}, y)
      <4>1. S \ {x} \notin Some /\ S \ {x} # {} /\ S \in SUBSET Sizes
        BY <2>2, <2>3, <2>6
      <4>2. \E y \in S \ {x} : Largest(S \ {x}, y)
        BY <4>1
      <4> HIDE DEF Largest
      <4> QED
        BY <4>2
    <3>2. x >= y \/ y >= x
      BY <2>4, <3>1
    <3>3. x >= y => Largest(S, x)
      BY <2>3, <2>4, <3>1
    <3>4. y >= x => Largest(S, y)
      BY <2>3, <2>4, <3>1
    <3> QED
      BY <2>3, <3>1, <3>2, <3>3, <3>4
  <2> QED
    BY <2>5, <2>6
<1>2. \E x \in Sizes : Largest(Sizes, x)
  BY <1>1, InboxAssumption
<1>3. Max(Sizes) \in Sizes /\ \A y \in Sizes : Max(Sizes) >= y
  BY <1>2 DEF Max
<1> QED
  BY <1>3, InboxAssumption

\* With one call less there is room for one note more.
LEMMA MarginFacts ==
  ASSUME NEW S \in SUBSET Writers
  PROVE  /\ Margin(S) \in Nat
         /\ \A w \in S : Margin(S \ {w}) = Margin(S) + Max(Sizes)
         /\ Margin({}) = Cardinality(Writers) * Max(Sizes)
<1> DEFINE m == Max(Sizes)
<1>1. m \in Nat
  BY LargestNote
<1>2. IsFiniteSet(Writers \ S) /\ Cardinality(Writers \ S) \in Nat
  BY InboxAssumption, FS_Subset, FS_CardinalityType
<1>3. ASSUME NEW w \in S PROVE Margin(S \ {w}) = Margin(S) + m
  <2>1. Writers \ (S \ {w}) = (Writers \ S) \cup {w} /\ w \notin Writers \ S
    OBVIOUS
  <2>2. Cardinality(Writers \ (S \ {w})) = Cardinality(Writers \ S) + 1
    BY <1>2, <2>1, FS_AddElement
  <2> HIDE DEF m
  <2>3. \A k \in Nat : (k + 1) * m = k * m + m
    BY <1>1
  <2> QED
    BY <1>2, <2>2, <2>3 DEF Margin, m
<1>4. Writers \ {} = Writers
  OBVIOUS
<1>5. Margin(S) \in Nat
  <2> HIDE DEF m
  <2>1. \A k \in Nat : k * m \in Nat
    BY <1>1
  <2> QED
    BY <1>2, <2>1 DEF Margin, m
<1> QED
  BY <1>3, <1>4, <1>5 DEF Margin

\* The sums are numbers.
Weighed ==
  /\ \A n \in DOMAIN dir : dir[n].size \in Nat
  /\ Total \in Nat
  /\ \A w \in Writers : /\ IsFiniteSet(Due(w)) /\ Bytes(dir, Due(w)) \in Nat
                        /\ call[w].used \in Nat /\ Count(w) \in Nat

\* They are, of the files in the inbox.
LEMMA Weights == IInv /\ IsFiniteSet(DOMAIN dir) => Weighed
<1> SUFFICES ASSUME IInv, IsFiniteSet(DOMAIN dir) PROVE Weighed
  OBVIOUS
<1>1. \A n \in DOMAIN dir : dir[n].size \in Nat
  BY DEF IInv, FieldsTyped, File
<1>2. Total \in Nat
  BY <1>1, BytesByAny DEF Total
<1>3. ASSUME NEW w \in Writers
      PROVE  /\ IsFiniteSet(Due(w)) /\ Bytes(dir, Due(w)) \in Nat
             /\ call[w].used \in Nat /\ Count(w) \in Nat
  <2>1. Due(w) \subseteq DOMAIN dir /\ IsFiniteSet(Due(w))
    BY FS_Subset DEF Due
  <2>2. Bytes(dir, Due(w)) \in Nat
    BY <1>1, <2>1, BytesByAny
  <2>3. call[w].used \in Nat
    BY DEF IInv, FieldsTyped, CallRecord
  <2> QED
    BY <2>1, <2>2, <2>3 DEF Count
<1> QED
  BY <1>1, <1>2, <1>3 DEF Weighed

\* There is room as long as no call joins or writes, and the files grow no more
\* than what each call will count.
LEMMA RoomStays ==
  ASSUME Room, Flight' \subseteq Flight,
         Total \in Nat, Total' \in Nat, Total' <= Total,
         \A w \in Flight' : /\ Count(w) \in Nat /\ Count(w)' \in Nat
                            /\ Total' + Count(w) <= Total + Count(w)'
  PROVE  Room'
<1> SUFFICES ASSUME NEW S \in SUBSET Flight' PROVE Within(S)'
  BY DEF Room
<1>1. Margin(S)' = Margin(S) /\ Margin(S) \in Nat /\ Max(Sizes) \in Nat /\ MaxTotal \in Nat
  BY MarginFacts, LargestNote, InboxAssumption DEF Margin, Flight
<1>2. Within(S)
  BY DEF Room
<1>3. CASE Total + Max(Sizes) <= MaxTotal + Margin(S)
  <2>1. Total' + Max(Sizes) <= MaxTotal + Margin(S)
    BY <1>1, <1>3
  <2> QED
    BY <1>1, <2>1 DEF Within
<1>4. ASSUME NEW w \in S, Total <= Margin(S) + Count(w)
      PROVE  Within(S)'
  <2>1. PICK a \in Nat, b \in Nat, c \in Nat, d \in Nat, k \in Nat :
          a = Total /\ b = Total' /\ c = Count(w) /\ d = Count(w)' /\ k = Margin(S)
    BY <1>1
  <2>2. b + c <= a + d /\ a <= k + c
    BY <1>4, <2>1
  <2>3. b <= k + d
    BY <2>1, <2>2
  <2> QED
    BY <1>1, <2>1, <2>3 DEF Within
<1> QED
  BY <1>2, <1>3, <1>4 DEF Within

\* The inbox holds finitely many files.
LEMMA FilesStayFinite ==
  ASSUME IInv, IsFiniteSet(DOMAIN dir), [Next]_vars
  PROVE  IsFiniteSet(DOMAIN dir')
<1>1. ASSUME NEW w \in Writers, CreateExclusive(w) PROVE IsFiniteSet(DOMAIN dir')
  <2>1. DOMAIN dir' = DOMAIN dir \cup {NameOf(w)}
    BY <1>1 DEF CreateExclusive, WithNewFile
  <2> QED
    BY <2>1, FS_AddElement
<1>2. ASSUME NEW w \in Writers, WriteNote(w) PROVE IsFiniteSet(DOMAIN dir')
  BY <1>2, WriteEffect
<1>3. ASSUME NEW n \in DOMAIN dir, OwnerTakes(n) PROVE IsFiniteSet(DOMAIN dir')
  <2>1. DOMAIN dir' = DOMAIN dir \ {n}
    BY <1>3 DEF OwnerTakes
  <2> QED
    BY <2>1, FS_RemoveElement
<1>4. CASE UNCHANGED dir
  BY <1>4
<1> QED
  BY <1>1, <1>2, <1>3, <1>4
  DEF Next, AppendInvalid, AppendNote, StatEntry, CheckQuota, NameTaken, Answer,
      CallFails, Restart, Tick, Refill, vars

\* What a step of call w may do to the room while no file changes: it returns,
\* or counts at least what it would have counted.
LEMMA CountingKeepsRoom ==
  ASSUME IInv, QInv, Weighed, Weighed', UNCHANGED dir, NEW w \in Writers,
         \A v \in Writers \ {w} : pc'[v] = pc[v] /\ call'[v] = call[v],
         \/ pc'[w] \notin {"scanning", "naming", "created"}
         \/ w \in Flight /\ Count(w) <= Count(w)'
  PROVE  Room'
<1>1. Flight' \subseteq Flight
  BY DEF Flight
<1>2. Total' = Total /\ Total \in Nat
  BY DEF Total, Weighed
<1>3. ASSUME NEW v \in Flight' PROVE Count(v) <= Count(v)'
  <2>1. CASE v = w
    BY <2>1, <1>3 DEF Flight
  <2>2. CASE v # w
    <3>1. v \in Writers
      BY <1>3 DEF Flight
    <3>2. Count(v)' = Count(v) /\ Count(v) \in Nat
      BY <2>2, <3>1 DEF Count, Due, Weighed
    <3> QED
      BY <3>2
  <2> QED
    BY <2>1, <2>2
<1>4. \A v \in Flight' : Count(v) \in Nat /\ Count(v)' \in Nat
  BY DEF Weighed, Flight
<1>5. \A v \in Flight' : Total' + Count(v) <= Total + Count(v)'
  BY <1>2, <1>3, <1>4
<1> QED
  BY <1>1, <1>2, <1>4, <1>5, RoomStays DEF QInv

\* A call that returns leaves the room there is.
LEMMA FinishKeepsRoom ==
  ASSUME IInv, QInv, Weighed, Weighed', UNCHANGED dir, NEW w \in Writers, Finish(w)
  PROVE  Passed' /\ Room'
<1>1. /\ pc'[w] = "idle"
      /\ \A v \in Writers \ {w} : pc'[v] = pc[v] /\ call'[v] = call[v]
  BY DEF Finish, IInv, TypeOK, FieldsTyped
<1>2. Room'
  BY <1>1, CountingKeepsRoom
<1>3. Passed'
  BY <1>1 DEF Passed, QInv
<1> QED
  BY <1>2, <1>3

\* An entry that is counted was due or is counted besides; one that is not
\* returned any more has no bytes.
LEMMA StatKeepsRoom ==
  ASSUME IInv, QInv, Weighed, Weighed', NEW w \in Writers, StatEntry(w)
  PROVE  Passed' /\ Room'
<1>1. PICK n \in (DOMAIN dir \cup call[w].due) \ call[w].seen :
        \/ /\ n \in DOMAIN dir
           /\ call' = [call EXCEPT ![w].seen = @ \cup {n}, ![w].used = @ + dir[n].size]
           /\ UNCHANGED pc
        \/ n \notin DOMAIN dir /\ call' = [call EXCEPT ![w].due = @ \ {n}] /\ UNCHANGED pc
        \/ Finish(w)
  BY DEF StatEntry
<1>2. UNCHANGED dir /\ pc[w] = "scanning"
  BY DEF StatEntry
<1>3. CASE Finish(w)
  BY <1>2, <1>3, FinishKeepsRoom
<1>4. CASE /\ n \in DOMAIN dir
           /\ call' = [call EXCEPT ![w].seen = @ \cup {n}, ![w].used = @ + dir[n].size]
           /\ UNCHANGED pc
  <2>1. /\ call'[w].seen = call[w].seen \cup {n} /\ call'[w].due = call[w].due
        /\ call'[w].used = call[w].used + dir[n].size
        /\ \A v \in Writers \ {w} : pc'[v] = pc[v] /\ call'[v] = call[v]
        /\ pc' = pc
    BY <1>1, <1>4 DEF IInv, FieldsTyped, CallRecord
  <2>2. Due(w)' = Due(w) \ {n}
    BY <1>2, <2>1 DEF Due
  <2>3. PICK s, u, b, rest \in Nat :
          /\ s = dir[n].size /\ u = call[w].used /\ b = Bytes(dir, Due(w))
          /\ rest = Bytes(dir, Due(w) \ {n})
    <3>1. Bytes(dir, Due(w) \ {n}) \in Nat
      BY <1>2, <2>2 DEF Weighed
    <3> QED
      BY <1>4, <3>1 DEF Weighed
  <2>4. b <= s + rest
    <3>1. CASE n \in Due(w)
      <4>1. \A x \in Due(w) : dir[x].size \in Nat
        BY DEF Weighed, Due
      <4>2. IsFiniteSet(Due(w))
        BY DEF Weighed
      <4>3. b = s + rest
        BY <2>3, <3>1, <4>1, <4>2, BytesByAny
      <4> QED
        BY <2>3, <4>3
    <3>2. CASE n \notin Due(w)
      <4>1. Due(w) \ {n} = Due(w)
        BY <3>2
      <4>2. b = rest
        BY <2>3, <4>1
      <4> QED
        BY <2>3, <4>2
    <3> QED
      BY <3>1, <3>2
  <2>5. Count(w) = u + b /\ Count(w)' = (u + s) + rest
    BY <1>2, <2>1, <2>2, <2>3 DEF Count
  <2>6. Count(w) <= Count(w)'
    BY <2>3, <2>4, <2>5
  <2>7. w \in Flight
    BY <1>2 DEF Flight
  <2>8. Room'
    BY <1>2, <2>1, <2>6, <2>7, CountingKeepsRoom
  <2>9. Passed'
    BY <1>2, <2>1 DEF QInv, Passed
  <2> QED
    BY <2>8, <2>9
<1>5. CASE /\ n \notin DOMAIN dir
           /\ call' = [call EXCEPT ![w].due = @ \ {n}] /\ UNCHANGED pc
  <2>1. /\ call'[w].due = call[w].due \ {n} /\ call'[w].seen = call[w].seen
        /\ call'[w].used = call[w].used
        /\ \A v \in Writers \ {w} : pc'[v] = pc[v] /\ call'[v] = call[v]
        /\ pc' = pc
    BY <1>5 DEF IInv, FieldsTyped, CallRecord
  <2>2. Due(w)' = Due(w)
    BY <1>2, <1>5, <2>1 DEF Due
  <2>3. Count(w)' = Count(w) /\ Count(w) \in Nat
    BY <1>2, <2>1, <2>2 DEF Count, Weighed
  <2>4. w \in Flight /\ Count(w) <= Count(w)'
    BY <1>2, <2>3 DEF Flight
  <2>5. Room'
    BY <1>2, <2>1, <2>4, CountingKeepsRoom
  <2>6. Passed'
    BY <1>2, <2>1 DEF QInv, Passed
  <2> QED
    BY <2>5, <2>6
<1> QED
  BY <1>1, <1>3, <1>4, <1>5

\* The check leaves a call with what it has counted.
LEMMA CheckKeepsRoom ==
  ASSUME IInv, QInv, Weighed, Weighed', NEW w \in Writers, CheckQuota(w)
  PROVE  Passed' /\ Room'
<1>1. UNCHANGED dir /\ pc[w] = "scanning" /\ call[w].due \subseteq call[w].seen
  BY DEF CheckQuota
<1>2. CASE Finish(w)
  BY <1>1, <1>2, FinishKeepsRoom
<1>3. CASE /\ ~(call[w].used + call[w].size > MaxTotal)
           /\ pc' = [pc EXCEPT ![w] = "naming"]
           /\ call' = [call EXCEPT ![w].due = {}, ![w].seen = {}]
  <2>1. /\ call'[w].due = {} /\ call'[w].seen = {}
        /\ call'[w].used = call[w].used /\ call'[w].size = call[w].size
        /\ \A v \in Writers \ {w} : pc'[v] = pc[v] /\ call'[v] = call[v]
        /\ pc'[w] = "naming"
    BY <1>3 DEF IInv, TypeOK, FieldsTyped, CallRecord
  <2>2. Due(w)' = {} /\ Due(w) = {}
    BY <1>1, <2>1 DEF Due
  <2>3. Count(w)' = Count(w) /\ Count(w) \in Nat
    BY <1>1, <2>1, <2>2 DEF Count, Weighed
  <2>4. Count(w) <= Count(w)'
    BY <2>3
  <2>5. w \in Flight
    BY <1>1 DEF Flight
  <2>6. Room'
    BY <1>1, <2>1, <2>4, <2>5, CountingKeepsRoom
  <2>7. call[w].used + call[w].size <= MaxTotal
    <3>1. call[w].used \in Nat /\ call[w].size \in Nat /\ MaxTotal \in Nat
      BY <1>1, CallFields, InboxAssumption DEF Weighed
    <3> QED
      BY <1>3, <3>1
  <2>8. Passed'
    BY <2>1, <2>7 DEF QInv, Passed
  <2> QED
    BY <2>6, <2>8
<1> QED
  BY <1>2, <1>3 DEF CheckQuota

\* Looking for a name counts nothing.
LEMMA NameKeepsRoom ==
  ASSUME IInv, QInv, Weighed, Weighed', NEW w \in Writers, NameTaken(w)
  PROVE  Passed' /\ Room'
<1>1. UNCHANGED dir /\ pc[w] = "naming"
  BY DEF NameTaken
<1>2. CASE Finish(w)
  BY <1>1, <1>2, FinishKeepsRoom
<1>3. CASE call' = [call EXCEPT ![w].attempt = @ + 1] /\ UNCHANGED pc
  <2>1. /\ call'[w].due = call[w].due /\ call'[w].seen = call[w].seen
        /\ call'[w].used = call[w].used /\ call'[w].size = call[w].size
        /\ \A v \in Writers \ {w} : pc'[v] = pc[v] /\ call'[v] = call[v]
    BY <1>3 DEF IInv, TypeOK, FieldsTyped, CallRecord
  <2>2. Count(w)' = Count(w) /\ Count(w) \in Nat
    BY <1>1, <2>1 DEF Count, Due, Weighed
  <2>3. Count(w) <= Count(w)' /\ w \in Flight
    BY <1>1, <2>2 DEF Flight
  <2>4. Room'
    BY <1>1, <2>1, <2>3, CountingKeepsRoom
  <2>5. Passed'
    BY <1>3, <2>1 DEF QInv, Passed
  <2> QED
    BY <2>4, <2>5
<1> QED
  BY <1>2, <1>3 DEF NameTaken

\* A file that has just been made weighs nothing.
LEMMA CreateKeepsRoom ==
  ASSUME IInv, QInv, Weighed, Weighed', IsFiniteSet(DOMAIN dir'),
         NEW w \in Writers, CreateExclusive(w)
  PROVE  Passed' /\ Room'
<1> DEFINE N == NameOf(w)
<1>1. /\ pc[w] = "naming" /\ N \notin DOMAIN dir
      /\ pc' = [pc EXCEPT ![w] = "created"]
      /\ UNCHANGED <<second, budget, call, notes, acked, sorted>>
  BY DEF CreateExclusive
<1>2. /\ DOMAIN dir' = DOMAIN dir \cup {N} /\ dir'[N].size = 0
      /\ \A n \in DOMAIN dir : dir'[n] = dir[n]
  BY <1>1 DEF CreateExclusive, WithNewFile, NewFile
<1> HIDE DEF N
<1>3. ASSUME NEW names \in SUBSET DOMAIN dir
      PROVE  /\ Bytes(dir', names) = Bytes(dir, names)
             /\ Bytes(dir', names \cup {N}) = Bytes(dir, names)
  <2>1. IsFiniteSet(names) /\ IsFiniteSet(names \cup {N})
    BY FS_Subset, FS_AddElement DEF QInv
  <2>2. \A n \in names \cup {N} : dir'[n].size \in Nat
    BY <1>2 DEF Weighed
  <2>3. Bytes(dir', names) = Bytes(dir, names)
    BY <1>2, <2>1, BytesSame
  <2>4. (names \cup {N}) \ {N} = names
    BY <1>1
  <2>5. Bytes(dir', names \cup {N}) = 0 + Bytes(dir', names)
    BY <1>2, <2>1, <2>2, <2>4, BytesByAny
  <2>6. Bytes(dir', names) \in Nat
    BY <2>1, <2>2, BytesByAny
  <2> QED
    BY <2>3, <2>5, <2>6
<1>4. Total' = Total
  BY <1>2, <1>3 DEF Total
<1>5. ASSUME NEW v \in Writers PROVE Count(v)' = Count(v)
  <2>1. Due(v) \subseteq DOMAIN dir /\ (Due(v)' = Due(v) \/ Due(v)' = Due(v) \cup {N})
    BY <1>1, <1>2 DEF Due
  <2> QED
    BY <1>1, <1>3, <2>1 DEF Count
<1>6. Flight' \subseteq Flight
  BY <1>1 DEF Flight, IInv, TypeOK
<1>7. Room'
  <2>1. Total \in Nat /\ Total' \in Nat /\ Total' <= Total
    BY <1>4 DEF Weighed
  <2>2. \A v \in Flight' : /\ Count(v) \in Nat /\ Count(v)' \in Nat
                           /\ Total' + Count(v) <= Total + Count(v)'
    BY <1>4, <1>5, <2>1 DEF Weighed, Flight
  <2> QED
    BY <1>6, <2>1, <2>2, RoomStays DEF QInv
<1>8. Passed'
  BY <1>1 DEF QInv, Passed, IInv, TypeOK
<1> QED
  BY <1>7, <1>8

\* What the owner takes away leaves the inbox and what is still to be counted.
LEMMA OwnerKeepsRoom ==
  ASSUME IInv, QInv, Weighed, Weighed', NEW n \in DOMAIN dir, OwnerTakes(n)
  PROVE  Passed' /\ Room'
<1>1. /\ DOMAIN dir' = DOMAIN dir \ {n} /\ \A x \in DOMAIN dir' : dir'[x] = dir[x]
      /\ UNCHANGED <<pc, call>>
  BY DEF OwnerTakes
<1>2. ASSUME NEW names \in SUBSET DOMAIN dir
      PROVE  /\ Bytes(dir, names) \in Nat
             /\ n \notin names => Bytes(dir', names) = Bytes(dir, names)
             /\ n \in names => Bytes(dir, names) = dir[n].size + Bytes(dir', names \ {n})
  <2>1. IsFiniteSet(names) /\ IsFiniteSet(names \ {n})
    BY FS_Subset DEF QInv
  <2>2. \A x \in names : dir[x].size \in Nat
    BY DEF Weighed
  <2>3. Bytes(dir', names \ {n}) = Bytes(dir, names \ {n})
    BY <1>1, <2>1, BytesSame
  <2>4. n \notin names => names \ {n} = names
    OBVIOUS
  <2>5. /\ Bytes(dir, names) \in Nat
        /\ n \in names => Bytes(dir, names) = dir[n].size + Bytes(dir, names \ {n})
    BY <2>1, <2>2, BytesByAny
  <2> QED
    BY <2>3, <2>4, <2>5
<1>3. Total = dir[n].size + Total'
  BY <1>1, <1>2 DEF Total
<1>4. PICK a, b, s \in Nat : a = Total /\ b = Total' /\ s = dir[n].size
  BY DEF Weighed
<1>5. ASSUME NEW v \in Writers
      PROVE  /\ Count(v) \in Nat /\ Count(v)' \in Nat
             /\ Total' + Count(v) <= Total + Count(v)'
  <2>1. Due(v) \subseteq DOMAIN dir /\ Due(v)' = Due(v) \ {n}
    BY <1>1 DEF Due
  <2>2. PICK u, x, y \in Nat : /\ u = call[v].used /\ x = Bytes(dir, Due(v))
                               /\ y = Bytes(dir, Due(v))'
    <3>1. call[v].used \in Nat /\ Bytes(dir, Due(v)) \in Nat /\ Bytes(dir, Due(v))' \in Nat
      BY DEF Weighed
    <3> QED
      BY <3>1
  <2>3. x <= s + y
    <3>1. CASE n \in Due(v)
      BY <1>2, <1>4, <2>1, <2>2, <3>1
    <3>2. CASE n \notin Due(v)
      <4>1. Due(v)' = Due(v)
        BY <2>1, <3>2
      <4>2. y = x
        BY <1>2, <2>1, <2>2, <3>2, <4>1
      <4> QED
        BY <2>2, <4>2, <1>4
    <3> QED
      BY <3>1, <3>2
  <2>4. Count(v) = u + x /\ Count(v)' = u + y
    BY <1>1, <2>2 DEF Count
  <2>5. b + (u + x) <= a + (u + y)
    BY <1>3, <1>4, <2>2, <2>3
  <2> QED
    BY <1>4, <2>2, <2>4, <2>5
<1>6. Flight' = Flight
  BY <1>1 DEF Flight
<1>7. Total' <= Total /\ Total \in Nat /\ Total' \in Nat
  BY <1>3, <1>4
<1>8. Room'
  BY <1>5, <1>6, <1>7, RoomStays DEF QInv, Flight
<1>9. Passed'
  BY <1>1 DEF QInv, Passed
<1> QED
  BY <1>8, <1>9

\* A call that begins counts all that is there.
LEMMA AppendKeepsRoom ==
  ASSUME IInv, QInv, Weighed, Weighed', NEW w \in Writers, AppendNote(w)
  PROVE  Passed' /\ Room'
<1>1. UNCHANGED dir /\ pc' = [pc EXCEPT ![w] = "scanning"]
  BY DEF AppendNote
<1>2. /\ call'[w].due = DOMAIN dir /\ call'[w].seen = {} /\ call'[w].used = 0
      /\ \A v \in Writers \ {w} : pc'[v] = pc[v] /\ call'[v] = call[v]
      /\ pc'[w] = "scanning"
  <2>1. PICK slug \in Slugs, size \in Sizes :
          call' = [call EXCEPT ![w] =
                     [note |-> notes + 1, at |-> second, slug |-> slug, size |-> size,
                      due |-> DOMAIN dir, seen |-> {}, used |-> 0, attempt |-> 0]]
    BY DEF AppendNote
  <2> QED
    BY <1>1, <2>1 DEF IInv, TypeOK, FieldsTyped
<1>3. Total' = Total /\ Total \in Nat
  BY <1>1 DEF Total, Weighed
<1>4. Count(w)' = Total
  <2>1. Due(w)' = DOMAIN dir
    BY <1>1, <1>2 DEF Due
  <2> QED
    BY <1>1, <1>2, <1>3, <2>1 DEF Count, Total
<1>5. \A v \in Writers \ {w} : Count(v)' = Count(v)
  BY <1>1, <1>2 DEF Count, Due
<1>6. ASSUME NEW S \in SUBSET Flight' PROVE Within(S)'
  <2>1. Margin(S)' = Margin(S) /\ Margin(S) \in Nat
    BY MarginFacts DEF Margin, Flight
  <2>2. CASE w \in S
    <3>1. Total <= Margin(S) + Total
      BY <1>3, <2>1
    <3> QED
      BY <1>3, <1>4, <2>1, <2>2, <3>1 DEF Within
  <2>3. CASE w \notin S
    <3>1. S \in SUBSET Flight /\ S \subseteq Writers \ {w}
      BY <1>2, <2>3 DEF Flight
    <3>2. Within(S)
      BY <3>1 DEF QInv, Room
    <3> QED
      BY <1>3, <1>5, <2>1, <3>1, <3>2 DEF Within
  <2> QED
    BY <2>2, <2>3
<1>7. Passed'
  BY <1>2 DEF QInv, Passed
<1> QED
  BY <1>6, <1>7 DEF Room

\* What a write adds is what its call had room for.
LEMMA WriteAdds ==
  ASSUME IInv, QInv, Weighed, Weighed', NEW w \in Writers, WriteNote(w)
  PROVE  /\ Total' <= Total + call[w].size
         /\ \A v \in Writers : \/ Count(v)' = Count(v)
                               \/ Total' + Count(v) = Total + Count(v)'
<1> DEFINE n == NameOf(w)
<1>1. UNCHANGED call /\ pc[w] = "created" /\ call[w].size \in Nat
  BY CallFields, InboxAssumption DEF WriteNote
<1>2. Total \in Nat /\ Total' \in Nat
  BY DEF Weighed
<1>3. CASE UNCHANGED dir
  <2>1. Total' = Total /\ \A v \in Writers : Count(v)' = Count(v)
    BY <1>1, <1>3 DEF Total, Count, Due
  <2> QED
    BY <1>1, <1>2, <2>1
<1>4. CASE /\ n \in DOMAIN dir /\ DOMAIN dir' = DOMAIN dir
           /\ dir'[n].size = call[w].size
           /\ \A x \in DOMAIN dir \ {n} : dir'[x] = dir[x]
  <2>1. PICK o, s \in Nat : o = dir[n].size /\ s = call[w].size
    BY <1>1, <1>4 DEF Weighed
  <2>2. ASSUME NEW names \in SUBSET DOMAIN dir, n \in names
        PROVE  /\ Bytes(dir, names \ {n}) \in Nat
               /\ Bytes(dir, names) = o + Bytes(dir, names \ {n})
               /\ Bytes(dir', names) = s + Bytes(dir, names \ {n})
    <3>1. IsFiniteSet(names) /\ IsFiniteSet(names \ {n})
      BY FS_Subset DEF QInv
    <3>2. \A x \in names : dir[x].size \in Nat /\ dir'[x].size \in Nat
      BY <1>4 DEF Weighed
    <3>3. Bytes(dir', names \ {n}) = Bytes(dir, names \ {n})
      BY <1>4, <3>1, BytesSame
    <3>4. Bytes(dir, names \ {n}) \in Nat /\ Bytes(dir, names) = o + Bytes(dir, names \ {n})
      BY <2>1, <2>2, <3>1, <3>2, BytesByAny
    <3>5. Bytes(dir', names) = s + Bytes(dir', names \ {n})
      BY <1>4, <2>1, <2>2, <3>1, <3>2, BytesByAny
    <3> QED
      BY <3>3, <3>4, <3>5
  <2>3. PICK rest \in Nat : Total = o + rest /\ Total' = s + rest
    BY <1>4, <2>2 DEF Total
  <2>4. ASSUME NEW v \in Writers
        PROVE  \/ Count(v)' = Count(v)
               \/ Total' + Count(v) = Total + Count(v)'
    <3>1. Due(v) \subseteq DOMAIN dir /\ Due(v)' = Due(v)
      BY <1>1, <1>4 DEF Due
    <3>2. CASE n \in Due(v)
      <4>1. PICK few \in Nat : /\ Bytes(dir, Due(v)) = o + few
                               /\ Bytes(dir', Due(v)) = s + few
        BY <2>2, <3>1, <3>2
      <4>2. PICK u \in Nat : u = call[v].used
        BY DEF Weighed
      <4>3. Count(v) = u + (o + few) /\ Count(v)' = u + (s + few)
        BY <1>1, <3>1, <4>1, <4>2 DEF Count
      <4>4. (s + rest) + (u + (o + few)) = (o + rest) + (u + (s + few))
        BY <2>1, <2>3, <4>1, <4>2
      <4> QED
        BY <2>3, <4>3, <4>4
    <3>3. CASE n \notin Due(v)
      <4>1. IsFiniteSet(Due(v)) /\ \A x \in Due(v) : dir'[x].size = dir[x].size
        BY <1>4, <3>1, <3>3 DEF Weighed
      <4>2. Bytes(dir', Due(v)) = Bytes(dir, Due(v))
        BY <4>1, BytesSame
      <4> QED
        BY <1>1, <3>1, <4>2 DEF Count
    <3> QED
      BY <3>2, <3>3
  <2>5. Total' <= Total + call[w].size
    BY <2>1, <2>3
  <2> QED
    BY <2>4, <2>5
<1>5. CASE MyFile(w)
  <2>1. dir' = [dir EXCEPT ![n] = [dir[n] EXCEPT !.size = call[w].size, !.whole = TRUE]]
        /\ n \in DOMAIN dir /\ dir[n] \in File
    BY <1>5 DEF WriteNote, MyFile, IInv, FieldsTyped
  <2>2. dir'[n].size = call[w].size
    BY <2>1 DEF File
  <2> QED
    BY <1>4, <2>1, <2>2
<1>6. CASE ~MyFile(w)
  BY <1>3, <1>6 DEF WriteNote
<1> QED
  BY <1>5, <1>6

\* A write uses the room of its call.
LEMMA WriteKeepsRoom ==
  ASSUME IInv, QInv, Weighed, Weighed', NEW w \in Writers, WriteNote(w)
  PROVE  Passed' /\ Room'
<1>1. /\ pc[w] = "created" /\ UNCHANGED call /\ pc'[w] = "written"
      /\ \A v \in Writers \ {w} : pc'[v] = pc[v]
  BY DEF WriteNote, IInv, TypeOK
<1>2. /\ Total' <= Total + call[w].size
      /\ \A v \in Writers : \/ Count(v)' = Count(v)
                            \/ Total' + Count(v) = Total + Count(v)'
  BY WriteAdds
<1>3. ASSUME NEW S \in SUBSET Flight' PROVE Within(S)'
  <2> DEFINE all == S \cup {w}
  <2>1. w \notin S /\ all \in SUBSET Flight /\ all \in SUBSET Writers /\ S \in SUBSET Writers
    BY <1>1, <1>3 DEF Flight
  <2>2. all \ {w} = S
    BY <2>1
  <2>3. Within(all)
    BY <2>1 DEF QInv, Room
  <2>4. Margin(S) = Margin(all) + Max(Sizes) /\ Margin(all) \in Nat /\ Margin(S) \in Nat
    BY <2>1, <2>2, MarginFacts
  <2>5. PICK a, b, k, m, s, top \in Nat :
          /\ a = Total /\ b = Total' /\ k = Margin(all) /\ m = Max(Sizes)
          /\ s = call[w].size /\ top = MaxTotal
    <3>1. call[w].size \in Nat
      BY <1>1, CallFields, InboxAssumption
    <3>2. Max(Sizes) \in Nat /\ MaxTotal \in Nat
      BY LargestNote, InboxAssumption
    <3> QED
      BY <2>4, <3>1, <3>2 DEF Weighed
  <2>6. s <= m
    BY <1>1, <2>5, CallFields, LargestNote
  <2>7. b <= a + s
    BY <1>2, <2>5
  <2>8. Margin(S)' = k + m
    BY <2>4, <2>5 DEF Margin
  <2>9. CASE a + m <= top + k
    <3>1. b + m <= top + (k + m)
      BY <2>5, <2>6, <2>7, <2>9
    <3> QED
      BY <2>5, <2>8, <3>1 DEF Within
  <2>10. CASE a <= k + Count(w)
    <3>1. Count(w) = call[w].used /\ call[w].used + call[w].size <= MaxTotal
      <4>1. Due(w) = {} /\ call[w].used + call[w].size <= MaxTotal
        BY <1>1 DEF Due, QInv, Passed
      <4>2. Bytes(dir, {}) = 0 /\ call[w].used \in Nat
        BY FS_EmptySet, BytesByFirst DEF Weighed
      <4> QED
        BY <4>1, <4>2 DEF Count
    <3>2. PICK u \in Nat : u = call[w].used
      BY DEF Weighed
    <3>3. u + s <= top /\ a <= k + u
      BY <2>5, <2>10, <3>1, <3>2
    <3>4. b + m <= top + (k + m)
      BY <2>5, <2>7, <3>2, <3>3
    <3> QED
      BY <2>5, <2>8, <3>4 DEF Within
  <2>11. ASSUME NEW v \in S, a <= k + Count(v)
         PROVE  Within(S)'
    <3>1. v \in Writers
      BY <2>1
    <3>2. PICK c, d \in Nat : c = Count(v) /\ d = Count(v)'
      BY <3>1 DEF Weighed
    <3>3. d = c \/ b + c = a + d
      BY <1>2, <2>5, <3>1, <3>2
    <3>4. b <= (k + m) + d
      BY <2>5, <2>6, <2>7, <2>11, <3>2, <3>3
    <3> QED
      BY <2>5, <2>8, <3>2, <3>4 DEF Within
  <2> QED
    BY <2>3, <2>5, <2>9, <2>10, <2>11 DEF Within
<1>4. Passed'
  BY <1>1 DEF QInv, Passed
<1> QED
  BY <1>3, <1>4 DEF Room

\* Every step keeps the room.
LEMMA NextKeepsRoom ==
  ASSUME IInv, IInv', QInv, [Next]_vars
  PROVE  QInv'
<1>1. IsFiniteSet(DOMAIN dir')
  BY FilesStayFinite DEF QInv
<1>2. Weighed
  BY Weights DEF QInv
<1>3. Weighed'
  <2>1. (IInv /\ IsFiniteSet(DOMAIN dir) => Weighed)'
    BY Weights, PTL
  <2> QED
    BY <1>1, <2>1
<1> SUFFICES Passed' /\ Room'
  BY <1>1 DEF QInv
<1>4. CASE UNCHANGED <<pc, call, dir>>
  <2>1. Passed'
    BY <1>4 DEF QInv, Passed
  <2>2. Room'
    BY <1>4 DEF QInv, Room, Flight, Within, Total, Count, Due, Margin
  <2> QED
    BY <2>1, <2>2
<1>5. ASSUME NEW w \in Writers, Answer(w) \/ CallFails(w) PROVE Passed' /\ Room'
  BY <1>2, <1>3, <1>5, FinishKeepsRoom DEF Answer, CallFails
<1>6. CASE Restart
  <2>1. UNCHANGED dir /\ \A w \in Writers : pc'[w] = "idle"
    BY <1>6 DEF Restart
  <2>2. Flight' = {}
    BY <2>1 DEF Flight
  <2>3. Passed'
    BY <2>1 DEF Passed
  <2>4. Total' = Total /\ Total \in Nat
    BY <1>2, <2>1 DEF Total, Weighed
  <2>5. Room'
    BY <2>2, <2>4, RoomStays DEF QInv
  <2> QED
    BY <2>3, <2>5
<1> QED
  BY <1>1, <1>2, <1>3, <1>4, <1>5, <1>6, AppendKeepsRoom, StatKeepsRoom, CheckKeepsRoom,
     CreateKeepsRoom, NameKeepsRoom, WriteKeepsRoom, OwnerKeepsRoom
  DEF Next, AppendInvalid, Tick, Refill, vars

\* used_bytes adds up the inbox without a lock, so calls that run at the same
\* time can each find room for their note; the quota is exceeded by no more than
\* one largest note for every call but one, however files come and go meanwhile.
THEOREM OvershootIsBounded == Spec => []QuotaOvershoot
<1>1. Init => QInv
  <2> SUFFICES ASSUME Init PROVE QInv
    OBVIOUS
  <2>1. DOMAIN dir = {} /\ \A w \in Writers : pc[w] = "idle"
    BY DEF Init
  <2>2. IsFiniteSet(DOMAIN dir) /\ Passed
    BY <2>1, FS_EmptySet DEF Passed
  <2>3. Flight = {}
    BY <2>1 DEF Flight
  <2>4. Total = 0
    BY <2>1, FS_EmptySet, BytesByFirst DEF Total
  <2>5. Within({})
    <3>1. Cardinality(Writers) \in Nat /\ Cardinality(Writers) # 0
      BY InboxAssumption, FS_EmptySet, FS_CardinalityType
    <3>2. PICK w : w \in Writers
      BY InboxAssumption
    <3>3. ({w}) \ {w} = {}
      OBVIOUS
    <3>4. Margin({}) = Margin({w}) + Max(Sizes) /\ Margin({w}) \in Nat
      BY <3>2, <3>3, MarginFacts
    <3>5. Max(Sizes) \in Nat /\ MaxTotal \in Nat
      BY LargestNote, InboxAssumption
    <3> QED
      BY <2>4, <3>4, <3>5 DEF Within
  <2> QED
    BY <2>2, <2>3, <2>5 DEF QInv, Room
<1>2. IInv /\ IInv' /\ QInv /\ [Next]_vars => QInv'
  BY NextKeepsRoom
<1>3. IInv /\ QInv => QuotaOvershoot
  <2> SUFFICES ASSUME IInv, QInv PROVE QuotaOvershoot
    OBVIOUS
  <2>1. Within({})
    BY DEF QInv, Room
  <2>2. Total + Max(Sizes) <= MaxTotal + Cardinality(Writers) * Max(Sizes)
    BY <2>1, MarginFacts DEF Within
  <2>3. PICK a, c, m, top \in Nat :
          /\ a = Total /\ c = Cardinality(Writers) /\ m = Max(Sizes) /\ top = MaxTotal
    BY Weights, LargestNote, InboxAssumption, FS_CardinalityType DEF QInv, Weighed
  <2>4. (c - 1) * m = c * m - m /\ c * m \in Nat
    BY <2>3
  <2>5. a <= top + (c - 1) * m
    BY <2>2, <2>3, <2>4
  <2> QED
    BY <2>3, <2>5 DEF QuotaOvershoot
<1> QED
  BY <1>1, <1>2, <1>3, Invariance, PTL DEF Spec
=============================================================================
