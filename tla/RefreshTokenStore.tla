------------------------- MODULE RefreshTokenStore -------------------------
(***************************************************************************)
(* struct RefreshTokenStore of src/src/oauth.rs with the threads that call *)
(* it.  A call takes the mutex, works on a clone of the table in memory,   *)
(* writes the clone to a temporary file, renames that file over the state  *)
(* file, and only then replaces the table in memory and unlocks.  Writing  *)
(* can fail at every step and the process can die between any two; open    *)
(* then starts again from the state file.                                  *)
(*                                                                         *)
(* A caller is one request being served: issue_token_pair calling          *)
(* create_family, exchange_refresh_token calling rotate or                 *)
(* authenticate_bearer calling is_active.  What it presents comes from the *)
(* tokens handed out so far.                                               *)
(***************************************************************************)
EXTENDS FamilyTable

CONSTANTS
  Callers,
  NoCaller    \* the holder of a free mutex

ASSUME NoCallerAssumption == NoCaller \notin Callers

VARIABLES
  now,        \* the clock
  up,         \* the process is running
  pc,         \* how far each caller is in its call
  request,    \* what it asked, clock reading included
  answer,     \* what it was told
  holder,     \* the caller in the critical section
  mem,        \* *state: the table behind the mutex
  draft,      \* next: the clone the holder works on
  file,       \* refresh-token-families-v1.json
  tmp,        \* refresh-token-families-v1.json.tmp
  handed,     \* refresh tokens handed to clients, with what their claims say
  refused,    \* families of which a client was told invalid_grant
  drawn       \* family and token ids generated so far

vars == <<now, up, pc, request, answer, holder, mem, draft, file, tmp,
          handed, refused, drawn>>

NoRequest == [op |-> "none", family |-> "none", presented |-> NoToken,
              next |-> NoToken, now |-> 0]

\* The signed claims of a refresh token, and the token it was exchanged for.
Claims == [token : Tokens, family : Families, expires : Nat,
           parent : Tokens \cup {NoToken}]

\* A file is whole when it holds one complete serialisation of a table.
Contents == [whole : BOOLEAN, table : Table]
Torn == [whole |-> FALSE, table |-> EmptyTable]
Whole(table) == [whole |-> TRUE, table |-> table]

Stages == {"idle", "waiting", "locked", "writing", "written", "renamed",
           "answered"}

TypeOK ==
  /\ now \in Times
  /\ up \in BOOLEAN
  /\ pc \in [Callers -> Stages]
  /\ request \in [Callers -> Request \cup {NoRequest}]
  /\ answer \in [Callers -> Answer \cup {"none"}]
  /\ holder \in Callers \cup {NoCaller}
  /\ mem \in Table /\ draft \in Table
  /\ file \in Contents /\ tmp \in Contents
  /\ handed \subseteq Claims
  /\ refused \subseteq Families
  /\ drawn \subseteq Families \cup Tokens

\* open on an empty state directory: no file, the default table.
Init ==
  /\ now = 0
  /\ up = TRUE
  /\ pc = [c \in Callers |-> "idle"]
  /\ request = [c \in Callers |-> NoRequest]
  /\ answer = [c \in Callers |-> "none"]
  /\ holder = NoCaller
  /\ mem = EmptyTable /\ draft = EmptyTable
  /\ file = Whole(EmptyTable) /\ tmp = Whole(EmptyTable)
  /\ handed = {} /\ refused = {} /\ drawn = {}

----------------------------------------------------------------------------
(* The callers.  `now` is read here, before the mutex is asked for.        *)

Send(c, r) ==
  /\ up /\ pc[c] = "idle"
  /\ pc' = [pc EXCEPT ![c] = "waiting"]
  /\ request' = [request EXCEPT ![c] = r]
  /\ UNCHANGED <<now, up, answer, holder, mem, draft, file, tmp, handed, refused>>

\* issue_token_pair: fresh ids, then create_family.
CallCreate(c) ==
  \E f \in Families \ drawn, t \in Tokens \ drawn :
    /\ Send(c, [op |-> "create", family |-> f, presented |-> NoToken,
                next |-> t, now |-> now])
    /\ drawn' = drawn \cup {f, t}

\* exchange_refresh_token: a token whose claims have not expired, a fresh
\* successor, then rotate.  A client may present a token more than once.
CallRotate(c) ==
  \E h \in handed, t \in Tokens \ drawn :
    /\ h.expires > now
    /\ Send(c, [op |-> "rotate", family |-> h.family, presented |-> h.token,
                next |-> t, now |-> now])
    /\ drawn' = drawn \cup {t}

\* authenticate_bearer: is the family of an access token still active?
CallIsActive(c) ==
  \E h \in handed :
    /\ Send(c, [op |-> "is_active", family |-> h.family, presented |-> NoToken,
                next |-> NoToken, now |-> now])
    /\ UNCHANGED drawn

\* The call returns.  The answer may be lost on its way to the client, who
\* then goes on with the tokens it had: any token of handed can be presented.
Return(c) ==
  /\ pc[c] = "answered"
  /\ LET r == request[c]
     IN /\ handed' = IF answer[c] = "ok"
                     THEN handed \cup {[token |-> r.next, family |-> r.family,
                                        expires |-> r.now + TTL,
                                        parent |-> r.presented]}
                     ELSE handed
        /\ refused' = IF answer[c] = "invalid_grant"
                      THEN refused \cup {r.family} ELSE refused
  /\ pc' = [pc EXCEPT ![c] = "idle"]
  /\ request' = [request EXCEPT ![c] = NoRequest]
  /\ answer' = [answer EXCEPT ![c] = "none"]
  /\ UNCHANGED <<now, up, holder, mem, draft, file, tmp, drawn>>

----------------------------------------------------------------------------
(* The critical section.                                                   *)

\* Nothing to save: lock, look, unlock.
LookUp(c) ==
  /\ pc[c] = "waiting" /\ holder = NoCaller
  /\ ~MustSave(mem, request[c])
  /\ pc' = [pc EXCEPT ![c] = "answered"]
  /\ answer' = [answer EXCEPT ![c] = Outcome(mem, request[c]).answer]
  /\ UNCHANGED <<now, up, request, holder, mem, draft, file, tmp, handed,
                 refused, drawn>>

\* The slip: the table in memory is replaced before the file is written.
LockAssigningFirst(c) ==
  /\ pc[c] = "waiting" /\ holder = NoCaller
  /\ MustSave(mem, request[c])
  /\ pc' = [pc EXCEPT ![c] = "locked"]
  /\ holder' = c
  /\ draft' = Outcome(mem, request[c]).table
  /\ mem' = draft'
  /\ UNCHANGED <<now, up, request, answer, file, tmp, handed, refused, drawn>>

\* Lock, clone and change the clone.
Lock(c) ==
  /\ pc[c] = "waiting" /\ holder = NoCaller
  /\ MustSave(mem, request[c])
  /\ pc' = [pc EXCEPT ![c] = "locked"]
  /\ holder' = c
  /\ draft' = Outcome(mem, request[c]).table
  /\ UNCHANGED <<now, up, request, answer, mem, file, tmp, handed, refused, drawn>>

\* persist: open(create, truncate) leaves an empty temporary file ...
OpenTmp(c) ==
  /\ pc[c] = "locked"
  /\ pc' = [pc EXCEPT ![c] = "writing"]
  /\ tmp' = Torn
  /\ UNCHANGED <<now, up, request, answer, holder, mem, draft, file, handed,
                 refused, drawn>>

\* ... write_all and sync_all complete it ...
WriteTmp(c) ==
  /\ pc[c] = "writing"
  /\ pc' = [pc EXCEPT ![c] = "written"]
  /\ tmp' = Whole(draft)
  /\ UNCHANGED <<now, up, request, answer, holder, mem, draft, file, handed,
                 refused, drawn>>

\* ... and rename puts it in the place of the state file.
RenameTmp(c) ==
  /\ pc[c] = "written"
  /\ pc' = [pc EXCEPT ![c] = "renamed"]
  /\ file' = tmp
  /\ UNCHANGED <<now, up, request, answer, holder, mem, draft, tmp, handed,
                 refused, drawn>>

\* The slip: the answer is given and the table in memory left as it was.
PublishWithoutAssigning(c) ==
  /\ pc[c] = "renamed"
  /\ pc' = [pc EXCEPT ![c] = "answered"]
  /\ draft' = EmptyTable
  /\ holder' = NoCaller
  /\ answer' = [answer EXCEPT ![c] = Outcome(mem, request[c]).answer]
  /\ UNCHANGED <<now, up, request, mem, file, tmp, handed, refused, drawn>>

\* *state = next, unlock, answer.
Publish(c) ==
  /\ pc[c] = "renamed"
  /\ pc' = [pc EXCEPT ![c] = "answered"]
  /\ mem' = draft
  /\ draft' = EmptyTable
  /\ holder' = NoCaller
  /\ answer' = [answer EXCEPT ![c] = Outcome(mem, request[c]).answer]
  /\ UNCHANGED <<now, up, request, file, tmp, handed, refused, drawn>>

\* Any step of persist fails: `?` drops the clone and the guard.
PersistFails(c) ==
  /\ pc[c] \in {"locked", "writing", "written"}
  /\ pc' = [pc EXCEPT ![c] = "answered"]
  /\ answer' = [answer EXCEPT ![c] = "internal"]
  /\ draft' = EmptyTable
  /\ holder' = NoCaller
  /\ UNCHANGED <<now, up, request, mem, file, tmp, handed, refused, drawn>>

----------------------------------------------------------------------------
(* The process and the clock.                                              *)

Crash ==
  /\ up
  /\ up' = FALSE
  /\ pc' = [c \in Callers |-> "idle"]
  /\ request' = [c \in Callers |-> NoRequest]
  /\ answer' = [c \in Callers |-> "none"]
  /\ holder' = NoCaller
  /\ mem' = EmptyTable /\ draft' = EmptyTable
  /\ UNCHANGED <<now, file, tmp, handed, refused, drawn>>

\* RefreshTokenStore::open refuses a file it cannot parse.
Open ==
  /\ ~up /\ file.whole
  /\ up' = TRUE
  /\ mem' = file.table
  /\ UNCHANGED <<now, pc, request, answer, holder, draft, file, tmp, handed,
                 refused, drawn>>

\* The clock is taken to be set forward only; now_unix would follow one that is
\* set back.
Tick ==
  /\ now + 1 \in Times
  /\ now' = now + 1
  /\ UNCHANGED <<up, pc, request, answer, holder, mem, draft, file, tmp,
                 handed, refused, drawn>>

Next ==
  \/ \E c \in Callers :
       \/ CallCreate(c) \/ CallRotate(c) \/ CallIsActive(c) \/ Return(c)
       \/ LookUp(c) \/ Lock(c) \/ OpenTmp(c) \/ WriteTmp(c) \/ RenameTmp(c)
       \/ Publish(c) \/ PersistFails(c)
  \/ Crash
  \/ Open
  \/ Tick

Spec == Init /\ [][Next]_vars

----------------------------------------------------------------------------
(* Properties.                                                             *)

\* Whenever the mutex is free the table in memory is the one on disk, and at
\* no instant is the state file one that open would refuse: a caller that was
\* answered has been answered from what a restart will find.
MemoryMatchesFile ==
  /\ file.whole
  /\ (up /\ holder = NoCaller) => mem = file.table

\* A refresh token is exchanged at most once, whatever two clients present at
\* the same time, whichever write fails and wherever the process dies.
SingleUse ==
  \A g, h \in handed : g.parent = h.parent /\ g.parent # NoToken => g = h

\* Once a client has been told invalid_grant for a family, no table, in memory
\* or on disk, ever holds the family active again.
RefusedForGood ==
  \A f \in refused :
    mem[f].status # "active" /\ file.table[f].status # "active"

\* The one token a family can be rotated with expires when the family does: a
\* family is never forgotten while a token that could revoke it is accepted.
TokensExpireFirst ==
  \A h \in handed :
    /\ h.expires <= now \/ file.table[h.family].status # "absent"
    /\ file.table[h.family].token = h.token => h.expires = file.table[h.family].expires

\* What may happen to an entry of the state file: it appears, its token is
\* replaced without shortening its life, it is revoked as it stands, or it is
\* dropped once it has expired.  Revocation is never taken back.
EntryStep(a, b) ==
  \/ a.status = "absent" /\ b.status = "active"
  \/ a.status = "active" /\ b.status = "active" /\ a.token # b.token
       /\ b.expires >= a.expires
  \/ a.status = "active" /\ b = [a EXCEPT !.status = "revoked"]
  \/ b.status = "absent" /\ a.expires <= now

EntriesAge ==
  \A f \in Families : \/ file'.table[f] = file.table[f]
                      \/ EntryStep(file.table[f], file'.table[f])

EntryLifecycle == [][EntriesAge]_vars

----------------------------------------------------------------------------
(* The store implements FamilyStore: its table is the state file, and a    *)
(* request takes effect at the rename.                                     *)

Stage == [c \in Callers |->
            IF pc[c] = "idle" THEN "idle"
            ELSE IF pc[c] \in {"renamed", "answered"} THEN "done" ELSE "called"]

Told == [c \in Callers |->
           IF pc[c] = "renamed" THEN Outcome(mem, request[c]).answer ELSE answer[c]]

FS == INSTANCE FamilyStore WITH
        families <- file.table, stage <- Stage, answer <- Told

Linearizable == FS!StoreSpec
=============================================================================
