------------------------------- MODULE Inbox -------------------------------
(***************************************************************************)
(* append_note (src/src/server.rs) and InboxStore::create_note             *)
(* (src/src/inbox.rs): several calls at a time, each of which takes one    *)
(* token of the shared write budget, adds up the sizes of the files in the *)
(* inbox, looks for a free name with O_EXCL, writes and syncs the file and *)
(* answers.  Nothing is locked.  The owner takes notes away meanwhile, a   *)
(* write can fail half-way, and the server can die and start again.        *)
(*                                                                         *)
(* A file name is the second it is made in and a sequence of words: the    *)
(* slug's, and the number a taken name is retried with.  A note is a       *)
(* serial number and a size.                                               *)
(***************************************************************************)
EXTENDS Naturals, Sequences, FiniteSets, FiniteSetsExt

CONSTANTS
  Writers,          \* append_note calls running at the same time
  Slugs,            \* what titles are turned into: sequences of words
  Sizes,            \* sizes of a rendered note
  MaxTotal,         \* INBOX_MAX_TOTAL_BYTES
  WritesPerHour,    \* INBOX_WRITES_PER_HOUR: capacity of the write budget
  MaxNameAttempts,  \* MAX_NAME_ATTEMPTS
  MaxNotes,         \* bound: calls that get past validation
  LastSecond        \* bound: the clock

ASSUME InboxAssumption ==
  /\ Sizes \subseteq Nat \ {0} /\ Sizes # {} /\ IsFiniteSet(Sizes)
  /\ IsFiniteSet(Writers) /\ Writers # {}
  /\ {MaxTotal, WritesPerHour, MaxNotes, LastSecond} \subseteq Nat
  /\ MaxNameAttempts \in Nat \ {0}

VARIABLES
  second,  \* the clock
  budget,  \* whole tokens in the write budget
  pc,      \* how far each call is
  call,    \* what it works with
  dir,     \* the inbox: file name -> file
  notes,   \* calls that got past validation so far: the last serial number
  acked,   \* notes whose id a caller was given
  sorted   \* notes the owner has taken out of the inbox

vars == <<second, budget, pc, call, dir, notes, acked, sorted>>

Name(at, slug, attempt) ==
  <<at>> \o (IF attempt = 0 THEN slug ELSE Append(slug, attempt + 1))

\* What files with these names weigh.
Bytes(files, names) == MapThenSumSet(LAMBDA n : files[n].size, names)

Total == Bytes(dir, DOMAIN dir)

NoCall == [note |-> 0, at |-> 0, slug |-> <<>>, size |-> 0, due |-> {},
           seen |-> {}, used |-> 0, attempt |-> 0]

Stages == {"idle", "scanning", "naming", "created", "written"}

TypeOK ==
  /\ second \in 0 .. LastSecond
  /\ budget \in 0 .. WritesPerHour
  /\ notes \in 0 .. MaxNotes
  /\ pc \in [Writers -> Stages]
  /\ \A w \in Writers :
       /\ pc[w] = "idle" <=> call[w] = NoCall
       /\ pc[w] # "idle" => /\ call[w].note \in 1 .. notes
                            /\ call[w].attempt < MaxNameAttempts
  /\ \A n \in DOMAIN dir : /\ dir[n].note \in 1 .. notes
                           /\ dir[n].size \in Sizes \cup {0}
                           /\ dir[n].whole => dir[n].size # 0
  /\ \A a \in acked : a.note \in 1 .. notes
  /\ sorted \subseteq 1 .. notes

Init ==
  /\ second = 0
  /\ budget = WritesPerHour
  /\ pc = [w \in Writers |-> "idle"]
  /\ call = [w \in Writers |-> NoCall]
  /\ dir = <<>>
  /\ notes = 0
  /\ acked = {} /\ sorted = {}

----------------------------------------------------------------------------
(* One call.                                                               *)

Finish(w) ==
  /\ pc' = [pc EXCEPT ![w] = "idle"]
  /\ call' = [call EXCEPT ![w] = NoCall]

\* The budget is taken before the arguments are looked at: a title, body or
\* date that is refused has cost a token too.
AppendInvalid(w) ==
  /\ pc[w] = "idle"
  /\ budget > 0
  /\ budget' = budget - 1
  /\ UNCHANGED <<second, pc, call, dir, notes, acked, sorted>>

\* A valid note: its name and its `created` come from the clock now, and the
\* directory is opened to be added up.
AppendNote(w) ==
  /\ pc[w] = "idle"
  /\ budget > 0 /\ notes < MaxNotes
  /\ budget' = budget - 1
  /\ notes' = notes + 1
  /\ pc' = [pc EXCEPT ![w] = "scanning"]
  /\ \E slug \in Slugs, size \in Sizes :
       call' = [call EXCEPT ![w] =
                  [note |-> notes + 1, at |-> second, slug |-> slug, size |-> size,
                   due |-> DOMAIN dir, seen |-> {}, used |-> 0, attempt |-> 0]]
  /\ UNCHANGED <<second, dir, acked, sorted>>

\* used_bytes: the entries are looked at one by one.  Those that are there from
\* the start on are all returned; those made or taken meanwhile may be or not.
StatEntry(w) ==
  /\ pc[w] = "scanning"
  /\ \E n \in (DOMAIN dir \cup call[w].due) \ call[w].seen :
       \/ /\ n \in DOMAIN dir
          /\ call' = [call EXCEPT ![w].seen = @ \cup {n},
                                  ![w].used = @ + dir[n].size]
          /\ UNCHANGED pc
       \/ /\ n \notin DOMAIN dir
          /\ call' = [call EXCEPT ![w].due = @ \ {n}] /\ UNCHANGED pc
       \/ n \notin DOMAIN dir /\ Finish(w)   \* gone since it was listed: InboxError::Io
  /\ UNCHANGED <<second, budget, dir, notes, acked, sorted>>

\* The slip: the note is written if the inbox is not full yet.
CheckQuotaWithoutNote(w) ==
  /\ pc[w] = "scanning" /\ call[w].due \subseteq call[w].seen
  /\ IF call[w].used > MaxTotal
     THEN Finish(w)
     ELSE /\ pc' = [pc EXCEPT ![w] = "naming"]
          /\ call' = [call EXCEPT ![w].due = {}, ![w].seen = {}]
  /\ UNCHANGED <<second, budget, dir, notes, acked, sorted>>

\* QuotaExceeded, or on to the name.
CheckQuota(w) ==
  /\ pc[w] = "scanning" /\ call[w].due \subseteq call[w].seen
  /\ IF call[w].used + call[w].size > MaxTotal
     THEN Finish(w)
     ELSE /\ pc' = [pc EXCEPT ![w] = "naming"]
          /\ call' = [call EXCEPT ![w].due = {}, ![w].seen = {}]
  /\ UNCHANGED <<second, budget, dir, notes, acked, sorted>>

NameOf(w) == Name(call[w].at, call[w].slug, call[w].attempt)

NewFile(w) == [note |-> call[w].note, size |-> 0, whole |-> FALSE]

\* The inbox once the file of this call is made.
WithNewFile(w) ==
  [n \in DOMAIN dir \cup {NameOf(w)} |-> IF n = NameOf(w) THEN NewFile(w) ELSE dir[n]]

\* The slip: O_TRUNC in the place of O_EXCL.
CreateTruncating(w) ==
  /\ pc[w] = "naming"
  /\ dir' = WithNewFile(w)
  /\ pc' = [pc EXCEPT ![w] = "created"]
  /\ UNCHANGED <<second, budget, call, notes, acked, sorted>>

\* openat2(O_CREAT | O_EXCL): the name is free and is ours from here on.
CreateExclusive(w) ==
  /\ pc[w] = "naming" /\ NameOf(w) \notin DOMAIN dir
  /\ dir' = WithNewFile(w)
  /\ pc' = [pc EXCEPT ![w] = "created"]
  /\ UNCHANGED <<second, budget, call, notes, acked, sorted>>

\* The slip: one attempt too many.
NameTakenOnceMore(w) ==
  /\ pc[w] = "naming" /\ NameOf(w) \in DOMAIN dir
  /\ IF call[w].attempt < MaxNameAttempts
     THEN call' = [call EXCEPT ![w].attempt = @ + 1] /\ UNCHANGED pc
     ELSE Finish(w)
  /\ UNCHANGED <<second, budget, dir, notes, acked, sorted>>

\* The slip: the same name again and again.
NameTakenSameAgain(w) ==
  /\ pc[w] = "naming" /\ NameOf(w) \in DOMAIN dir
  /\ UNCHANGED vars

\* The name is taken: try the next, or give up with NameExhausted.
NameTaken(w) ==
  /\ pc[w] = "naming" /\ NameOf(w) \in DOMAIN dir
  /\ IF call[w].attempt + 1 < MaxNameAttempts
     THEN call' = [call EXCEPT ![w].attempt = @ + 1] /\ UNCHANGED pc
     ELSE Finish(w)
  /\ UNCHANGED <<second, budget, dir, notes, acked, sorted>>

\* The descriptor is still open if the owner has moved the file away.
MyFile(w) == NameOf(w) \in DOMAIN dir /\ dir[NameOf(w)].note = call[w].note

\* write_all
WriteNote(w) ==
  /\ pc[w] = "created"
  /\ dir' = IF MyFile(w)
            THEN [dir EXCEPT ![NameOf(w)].size = call[w].size,
                             ![NameOf(w)].whole = TRUE]
            ELSE dir
  /\ pc' = [pc EXCEPT ![w] = "written"]
  /\ UNCHANGED <<second, budget, call, notes, acked, sorted>>

\* The slip: the id is returned as soon as the name is taken.
AnswerEarly(w) ==
  /\ pc[w] \in {"created", "written"}
  /\ acked' = acked \cup {[note |-> call[w].note, name |-> NameOf(w)]}
  /\ Finish(w)
  /\ UNCHANGED <<second, budget, dir, notes, sorted>>

\* sync_all, then the id goes to the caller.
Answer(w) ==
  /\ pc[w] = "written"
  /\ acked' = acked \cup {[note |-> call[w].note, name |-> NameOf(w)]}
  /\ Finish(w)
  /\ UNCHANGED <<second, budget, dir, notes, sorted>>

\* A read of the directory, openat2, write_all or sync_all fails.  What was
\* made of the file stays.
CallFails(w) ==
  /\ pc[w] # "idle"
  /\ Finish(w)
  /\ UNCHANGED <<second, budget, dir, notes, acked, sorted>>

----------------------------------------------------------------------------
(* The owner, the process and the clock.                                   *)

\* The owner sorts the inbox: a file leaves it.
OwnerTakes(n) ==
  /\ dir' = [m \in DOMAIN dir \ {n} |-> dir[m]]
  /\ sorted' = sorted \cup {dir[n].note}
  /\ UNCHANGED <<second, budget, pc, call, notes, acked>>

\* The calls are lost and the budget starts full again.
Restart ==
  /\ pc' = [w \in Writers |-> "idle"]
  /\ call' = [w \in Writers |-> NoCall]
  /\ budget' = WritesPerHour
  /\ UNCHANGED <<second, dir, notes, acked, sorted>>

Tick ==
  /\ second < LastSecond
  /\ second' = second + 1
  /\ UNCHANGED <<budget, pc, call, dir, notes, acked, sorted>>

Refill ==
  /\ budget < WritesPerHour
  /\ budget' = budget + 1
  /\ UNCHANGED <<second, pc, call, dir, notes, acked, sorted>>

WriterStep(w) ==
  \/ StatEntry(w) \/ CheckQuota(w) \/ CreateExclusive(w) \/ NameTaken(w)
  \/ WriteNote(w) \/ Answer(w)

Next ==
  \/ \E w \in Writers :
       \/ AppendInvalid(w) \/ AppendNote(w) \/ StatEntry(w) \/ CheckQuota(w)
       \/ CreateExclusive(w) \/ NameTaken(w) \/ WriteNote(w) \/ Answer(w)
       \/ CallFails(w)
  \/ \E n \in DOMAIN dir : OwnerTakes(n)
  \/ Restart
  \/ Tick
  \/ Refill

Spec == Init /\ [][Next]_vars

\* A call that has begun runs on a thread of its own until it returns: it waits
\* for nothing but file operations.
Fairness == \A w \in Writers : WF_vars(WriterStep(w))

FairSpec == Spec /\ Fairness

----------------------------------------------------------------------------
(* Properties.                                                             *)

\* A note whose id was returned is in the inbox, whole and under that id,
\* until the owner takes it: no later call, failure or restart touches it.
AckedNotesKept ==
  \A a \in acked :
    \/ a.note \in sorted
    \/ /\ a.name \in DOMAIN dir
       /\ dir[a.name].note = a.note /\ dir[a.name].whole

\* A step writes only to the file that its call has made.
WritesItsOwn ==
  \A n \in DOMAIN dir \cap DOMAIN dir' :
    \/ dir'[n] = dir[n]
    \/ /\ dir'[n].note = dir[n].note
       /\ \E w \in Writers : pc[w] = "created" /\ call[w].note = dir[n].note

\* A file the server has made is only ever written by the call that made it.
NeverOverwritten == [][WritesItsOwn]_vars

\* Every call returns, however many files come and go while it looks for a name.
CallsReturn == \A w \in Writers : pc[w] # "idle" ~> pc[w] = "idle"

\* What the scan without a lock can cost: each of the other calls running at
\* the same time can add one note that was not counted.
QuotaOvershoot ==
  Total <= MaxTotal + (Cardinality(Writers) - 1) * Max(Sizes)

\* What the comment on used_bytes says: the write rate limit keeps the
\* overshoot to one note.
OvershootOfOneNote == Total <= MaxTotal + Max(Sizes)
=============================================================================
