# A TLA+ model of engram-mcp

engram-mcp (Rust) serves one owner's Markdown knowledge base over MCP. It is its
own OAuth authorization server, it reads documents by scope, and it can file
notes in an inbox. This directory holds TLA+ modules that model it, the TLC
configurations that check them and TLAPS proofs about them. Line numbers are
those of the files under `src/`.

## The system

| Component | State | Operations | Reached from |
| --- | --- | --- | --- |
| Refresh-token store (`oauth.rs` 369-503) | a table of families behind a mutex; `refresh-token-families-v1.json` and its `.tmp` | `open`, `create_family`, `rotate`, `is_active`, `persist` | the authorization service, bearer authentication |
| Authorization service (`oauth.rs` 705-1180) | `authorization_codes`, in memory; everything else is in signed values that clients bring back | `register_client`, `begin_authorization`, `complete_authorization`, `exchange_token` | HTTP |
| Bearer authentication (`oauth.rs` 526-557) | none | `authenticate_bearer` | the MCP middleware |
| Scope grants (`oauth.rs` 284-367) | none | `parse`, `parse_lenient`, `allows`, `is_subset_of` | the two above |
| API keys (`auth.rs` 50-165) | none | `authenticate_headers`, `authenticate_key` | the MCP middleware |
| Rate limiters (`auth.rs` 197-299) | a bucket per credential; one bucket for writes | `check` | the MCP middleware; `append_note` |
| HTTP router and middleware (`http.rs`) | a request counter, and permits: 16 for each route and method, `/mcp` and those of OAuth | `authenticate_mcp_request` and the routes | clients |
| MCP tool server (`server.rs`) | none | `search`, `fetch`, `append_note`, `list_tools`, `call_tool` | the router |
| Inbox (`inbox.rs`) | files in one flat directory | `open`, `create_note` | `append_note` |
| Documents (`document.rs`) and search (`search.rs`) | files of the knowledge base, which the owner edits | `candidate_ids`, `read`, `search` | the tool server |
| Configuration (`config.rs`) | none | `from_lookup`, `ScopeDirectories::new` | start |
| Audit (`audit.rs`) | the log | `rejected`, `completed`, `tool`, `tool_write` | the middleware, the tools |
| Start and shutdown (`main.rs`) | whether there is an inbox | `main`, `inbox`, `shutdown_signal` | the operator |
| Deployment files | none | none | the operator |

Requests run at the same time on a thread pool. They share the table of
families and its two files, the map of codes, the buckets, and the inbox
directory. The table, the codes and the buckets have a mutex each; the inbox has
nothing but `O_EXCL`. What makes the code hard:

- a rotation must be durable before it is answered, a failed write must change
  nothing, and a crash may fall between any two of: open the temporary file,
  write it, rename it, assign the table;
- clocks are read before the mutex is taken (`oauth.rs` 934, 591; `auth.rs` 244, 291);
- clients lose answers, retry, present a token twice, share it, come back after
  it expired;
- quota, name search and write of a note are separate steps of calls that
  overlap, while the owner moves files away;
- a client may leave while its request waits for a permit, sends its body or
  runs a tool: the future is dropped, but a tool that has begun goes on;
- a token is checked before its request waits in line, and not again;
- nothing has a deadline: a client that does not finish keeps its permit, and a
  shutdown waiting;
- whether a caller may know of `append_note` is decided in three places;
- a search lists directories, then opens the files, then answers, with nothing
  held still in between, and one bad entry decides the outcome of the whole.

What makes each component correct: a refresh token is exchanged once and a
revocation is final, on disk too; tokens stay within the owner's approval and
with their client; an acknowledged note is whole and never overwritten, the
quota is overshot by a known amount at most; a limiter lets through no more than
it was given; a search shows a scope only its own directories; permits come back,
a line moves on, every note that is filed is in the log under the right request,
and to the tech scope `append_note` does not exist; a date is the date.

## Modules

| Module | What it models |
| --- | --- |
| `FamilyTable` | the decisions of `create_family`, `rotate` and `is_active` as pure operators: a table and a request give the next table and the answer (`Outcome`) |
| `FamilyStore` | the abstract store: a durable table on which each request takes effect at one instant between call and return, or fails without effect; a crash loses the callers only |
| `RefreshTokenStore` | the code of the store: mutex, clone, temporary file, rename, assignment, every error path, crash and `open` |
| `ScopeGrant` | `struct ScopeGrant` |
| `OAuth` | registration, approval, code exchange, refresh and bearer checks; extends `FamilyStore` and calls it through its `Call`, `Apply`, `Fail`, `Return` |
| `Inbox` | `append_note` with `create_note`, one action per file operation |
| `Budget` | what a limiter promises: whole tokens, one for each request let through |
| `RateLimiter` | both limiters: reading the clock and taking the mutex are two steps; implements `Budget` |
| `McpRequest` | requests to `/mcp` from arrival to answer, the clients that leave, and the process from start to stop |
| `Calendar`, `NoteName` | the date of a day number, the time of a second, the slug of a title |
| `Documents` | `search` and `fetch`, entry by entry and file by file, on a knowledge base the owner edits |
| `TokenHistory` | for the proofs: what tokens and families go through, over any system with a table, callers and clients; no code of its own |
| `FamilyTableProofs`, `RefreshTokenStoreProofs`, `OAuthProofs`, `RateLimiterProofs`, `InboxProofs`, `McpRequestProofs`, `NoteNameProofs`, `DocumentsProofs` | lemmas and theorems |
| `MC...` | bounds, symmetry and the values a `.cfg` cannot write |

### How state and actions correspond to the code

*RefreshTokenStore.* `mem` is `*state`, `draft` the clone `next`, `file` and
`tmp` the two files (`whole` is FALSE from the truncating open to the end of the
write), `holder` the owner of the mutex, `pc` how far a call is. `Call...`
stand for the callers up to the lock, clock reading included. `LookUp` is a
call that saves nothing; it is one step because nothing else can see the mutex
taken. `Lock` clones and changes the clone; `OpenTmp`, `WriteTmp` and
`RenameTmp` are `persist`; `Publish` is `*state = next` with the unlock and
the answer; `PersistFails` is any `?` of `persist`. An answer may be lost: what
a client presents next is any token handed out so far. `handed`, `refused` and
`drawn` are what clients and the random generator know.

*OAuth.* `codes` is `authorization_codes`. `cap`, `pages`, `refreshTokens` and
`accessTokens` are the signed values clients hold: a forged or altered one
does not verify, so only issued values are presented. `job` holds a request's
local variables across its call of the store. `issue_access_token` reads the clock once
more (`oauth.rs:568`); in the model both readings are one. A redirect URI or PKCE verifier
matches or does not (`proof`). `origin`, `parent`, `late`, `approved` and
`refused` are there for the properties only. Registering at most once per
client id is no loss, since the id is the signed registration. Ids are 32
random bytes and so never drawn twice.

*Inbox.* A file name is the second and a sequence of words, so that a slug that
ends in `2` and a retry with suffix 2 do collide. `due` and `seen` are the
directory listing in progress: an entry that was taken away meanwhile fails the call, or
is not returned any more. `budget` is the whole tokens of the write budget;
`Refill` may come at any time. `OwnerTakes` is the owner at work.

*RateLimiter.* A token is `Period` units and an instant brings `Rate` units, so
that fractions are whole numbers. `granted`, `passed` and `undone` record how many requests
that had read the clock by each instant were let through, how many in all, and how far
`updated_at` was moved back.

The tokens of `Budget` are the whole tokens in a bucket, `asking` the callers
between clock and mutex. `McpRequest` and `Inbox`
take their limiters to be like `Budget`.

*McpRequest.* `req` holds the connection of each request: how far it is
(`phase`), its number, its credential, what its body asks for and how it is
answered. What a request sends is chosen when the server looks at it: the headers
in `Authenticate`, the call in `Deliver`. `free` and `queue` are the semaphore
of `ConcurrencyLimitLayer`, which is fair. Three stretches of code have no await
and so cannot be dropped: the middleware up to `next.run`, a tool once begun,
and the end of the middleware. At every other point `Disconnect` may drop
the future: the permit or the place in the line comes back. The call runs in a task of its own (rmcp spawns it), so it goes on without its client
(`left`), holding no permit, or is never begun (`Abandon`). A read is one step; its files are
in `Documents`. The answer to `initialize` is the same for everyone. `CreateNote` files a note or not, for whatever reason `Inbox` has; a lost
inbox is one of them. `notes` and `log` are those of one process, and ids of
requests too, since the counter starts at 0 with each process. `lingering` says that
`axum::serve` waits for some other connection: one of OAuth, one whose head or body does not
end, or one whose answer is not read; clients begin and end that as they like (`Linger`,
`Finish`). `Exit` is the end of a graceful shutdown, when no connection is open and no tool is
running; `Crash` is any other end. `diedAt` is there for a property only.

*Calendar* and *NoteName.* `CivilFromDays`, `UtcParts` and `Slug` are
`civil_from_days`, `utc_parts` and `slug`; `Quotient` is Rust's division,
which rounds towards zero where TLA+'s rounds down. A walk takes a day number and its date, in the
calendar everyone knows (`DayAfter`), from day to day. A title is of two letters
and one character that no slug keeps, lower-cased; an empty slug stands for the fallback `note`.

*Documents.* `kb` says what is at each path, `state` and `linked` what has become
of each directory. `call` is the one call being served: `NextRoot`,
`OpenDirectory` and `WalkEntry` are the loops of `candidate_ids`, `ReadNext` an
iteration of the `filter_map` in `search`, `AnswerSearch` the sort and the loop
that fills the response. The public directories come first, then the private ones,
as in the code; the entries of a directory come in any order. Calls share no state, so a second
one would add nothing. Directories are flat, and a file is read at one instant. A score
belongs to contents, not to where they lie. What falls short of a readable file is one of:
gone, `faulty` (not UTF-8, or may not be opened), `misnamed` (an `.md` file whose path
`DocumentId::parse` refuses), `ignored` (by `.gitignore`: fetched but not
found), a link. `saw` records what lay in the scope while the call was served, for
the properties only. A directory that the walk has open is listed to its end whatever
becomes of its name, unless it is deleted; the walk starts at the path of a scope directory and
follows a link there (`document.rs:205-217`), which the reads do not. `InboxDir` is where
`INBOX_ROOT` leads at the start and `inboxAt` where the directory lies that `InboxStore`
opened then: the owner may rename it (`OwnerMovesInbox`), and notes are filed in it all the
same (`inbox.rs` 117, 217). `ResponseSize` gives the bytes
of a response, of which only one thing is assumed: a result more makes it no smaller.

Definitions introduced by "The slip:" (and those in `FamilyTable` named after
what they get wrong) are not the code's. Each is a plausible bug that replaces a
definition of the code, and the property that is listed with it in
`PROJECT.json` is then violated.

## Runs

| Run | Bounds | What it shows |
| --- | --- | --- |
| `store` | 2 callers, 2 families, 4 tokens, TTL 2, clock 0..2 | `TypeOK`, `MemoryMatchesFile`, `SingleUse`, `RefusedForGood`, `TokensExpireFirst`, `EntryLifecycle`, and `Linearizable`: the store implements `FamilyStore` |
| `oauth` | 2 clients, 2 requests, 1 code, 2 families, 3 tokens, clock 0..2 | `WithinApproval`, `OneFamilyPerCode`, `OneSuccessor`, `BoundToClient`, `DeadFamilyAdmitsNobody` |
| `inbox` | 2 calls, 3 notes, 2 name attempts, quota of one note | `AckedNotesKept`, `NeverOverwritten`, `QuotaOvershoot`, `CallsReturn` |
| `limiter` | 2 callers, 2 buckets, capacity 2, 2 tokens in 3 instants, clock 0..3 | `PaidFor`, and `KeepsBudget`: the limiter implements `Budget` |
| `mcp` | 2 requests to a process, 1 permit, a tech API key and a private token, capacities 1 | `NoteToolHidden`, `PermitsConserved`, `NotesAudited`, `OneRequestPerId`, `DeadTokensServeNoLater`, and under fairness `LineMovesOn`, `ShutdownEnds` |
| `note_name` | each day from 1600 into 2038, and of the years -1 to 1; 4 times of day; titles of up to 8 characters, slugs of 4 | `CalendarRight`, `StampRight`, `SlugRight` |
| `documents` | 3 places in a public, a private and the inbox directory, and `INDEX.md`; 2 documents, 1 note, 2 changes by the owner, limits 1 and 2 | `Confined`, `NothingBetterLeftOut`, `FailsForItsOwn`, `NotesUnread` |
| `oauth_replay` | 1 client, 1 request | violated: a finding |
| `inbox_overshoot` | 3 calls, budget 3 | violated: a finding |
| `limiter_hour` | 1 caller | violated: a finding |
| `documents_notes` | the inbox is a served directory, no changes by the owner | violated: a finding |
| `documents_linked` | as `documents` | violated: a finding |

Why these bounds are enough to be interesting. Two callers give every
interleaving of two critical sections; four tokens give a family, two
rotations and a competing one, so that a superseded token is presented while
its successor is live, in flight or revoked. TTL 2 within a clock of three
readings lets a first token expire while a rotated family lives on, and lets a
request that read the clock early meet a table written with a later time. The
inbox has two slugs one of which is the other with the suffix of a retry, a
quota of one note so that the second call is at the limit, and a budget of one so that it
binds. The limiter's clock passes a full refill of the bucket. Two changes
by the owner are enough to hide a file and show it elsewhere, to spoil one
and link to it, to spoil a private file and put a link to its directory in the place of
a public one, or to make way for the inbox and move it there; of the two documents the better one alone exceeds the response, so that the
size and the limit each cut an answer. One code is
enough for `OneFamilyPerCode`, which compares the tokens of one code; two codes
multiply the states beyond what a run can hold.

With one permit, one of two requests holds it while the other is in line or is
an orphan whose tool goes on, which are all the relations two requests can have; either may
leave, and the process may end, at every step. A whole era of 400 years
has every combination of leap days, centuries and the era boundary; the years
around year 0 have the negative eras. Seconds are looked at up to 24,854 days
from the epoch on both sides, from December 1901 to January 2038, because TLC's integers have
32 bits.
A title of eight characters passes the cut of a slug of four with every pattern of
letters and gaps.

Where a caller may have drawn all ids, or the clock is at its last reading, the
process can still restart, or a request return, and a call for documents can always be made: no run stops, and TLC checks for
deadlock in all of them but `note_name`, where a walk and a title come to
the end of their bounds.

Fairness. `CallsReturn` assumes weak fairness of the thread of each call, which waits for
nothing but file operations, and those return with a result or an error. `FairSpec` of
`McpRequest` assumes that tokio goes on with each request that can go on, and `main` with its
shutdown once every connection is done with. Clients are not assumed to do anything, and
the code has no timeout: a body that is never finished keeps its permit for ever, and any
connection that is kept open, of OAuth too, or an answer that is not read, keeps a shutdown
waiting. So the two properties that need clients say so in their premises: `LineMovesOn` that the
bodies arrive or those who do not send them leave (`BodiesArrive`), and
`ShutdownEnds` also that again and again no other connection is waiting for its client
(`ClientsFinish`).

Of the clock it is assumed, in `RefreshTokenStore` and `OAuth`, that it is not set back, though
readings reach the mutex in any order. `now_unix` is a wall clock (`oauth.rs:1275-1280`): if it is
set back, an entry that has been pruned is gone before its token, by the new reading, has expired,
and a rotation can give a family an earlier expiry, so that `TokensExpireFirst` and
`EntryLifecycle` do not hold as they stand. A token without an entry is refused. The limiters read
a clock that the system keeps from going back (`Instant`). Of crashes nothing is assumed.

## What the code does and its documents do not say

1. *Replay of an expired token* (`ReplayRevokes`). `README.md:54-55` and
   `227-228` say that reuse of an old refresh token revokes its family. A token that
   has expired, or that another client presents, is refused before the store
   is asked (`oauth.rs:935-945`), and the family, kept alive by later rotations,
   stays active.
2. *Overshoot of the inbox quota* (`OvershootOfOneNote`). The comment at
   `inbox.rs:178-180` bounds the overshoot by one note; `writes_per_hour` calls
   fit in one burst of the budget and may all see the same total. What holds
   is `QuotaOvershoot`: one note for each other call running at the same time.
3. *Writes in an hour* (`HourlyBudget`). `README.md:208-209` names a
   10-per-hour budget; a full bucket and an hour's refill let through nearly
   twice that. What holds is `PaidFor`.
4. *Reading notes back* (`NotesUnread`). `config.rs:56-59` and `server.rs:305`
   say that a note cannot be read back through search or fetch. The
   configuration refuses a scope directory of the name `99_inbox`, and
   `InboxStore::open` an inbox that contains the knowledge base; nothing compares
   `INBOX_ROOT` with the served directories, and an inbox within one of them is
   served. With the inbox outside the served directories, as the
   documentation asks for, the promise holds (run `documents`), until the owner moves the
   inbox itself to a served name: then it is the owner who has sorted the notes.
5. *Links in the place of a directory* (`OthersNeverListed`). `README.md:36-37` says
   that `search` does not enumerate out-of-scope directories. If a public directory is
   replaced by a link to a private one, the walk of a `kb:tech` search follows it
   (`document.rs:205-217`): the private directory is listed, and a misnamed file or a
   closed directory there ends the search with an internal error. What holds is
   `FailsForItsOwn`, in which such a directory counts, and `Confined`: contents are not
   shown, since `openat2` refuses the link.

Noted, without a run: the comment at `server.rs:300-302` says that a client of the tech scope
must not be told that `append_note` exists, and the instructions it stands over name the tool to
everyone, with and without an inbox (`NoteToolHidden` says that they are the same for all). `README.md:212-214` says that a server whose inbox cannot
be used does not list `append_note`. That is decided once, at the start
(`http.rs:129-153`): an inbox that is lost later stays listed, and a call of
`append_note` is answered with an internal error. And `validate_occurred` takes 31 as a day of any month,
though the comment at `inbox.rs:288-289` says that the field can be trusted.

## Theorems

All are for any sets of callers, clients, families, tokens, requests, keys,
directories and files, and any limits and clock bounds: whatever the constants may be under
the assumptions that the modules name. Those say that "nobody" is none of the callers
and "no token" no token, that sizes, times and bounds are natural numbers (the TTL, the
permits and the like positive), and what the configuration enforces of directories. TLC
evaluates them in each run. Of the properties of the passing runs these are proved:

| Module | Theorems, of `Spec` |
| --- | --- |
| `RefreshTokenStoreProofs` | `TypeCorrectness`; `MemoryAndFileAgree` (`MemoryMatchesFile`); `TokensAreSingleUse` (`SingleUse`); `RefusalIsFinal` (`RefusedForGood`); `FamiliesOutliveTokens` (`TokensExpireFirst`); `EntriesAgeOneWay` (`EntryLifecycle`); `Refinement` (`Linearizable`: the store implements `FamilyStore`) |
| `OAuthProofs` | `TypeCorrectness`; `TokensWithinApproval` (`WithinApproval`); `CodesStartOneFamily` (`OneFamilyPerCode`); `RefreshTokensHaveOneSuccessor` (`OneSuccessor`); `TokensBoundToClient` (`BoundToClient`); `DeadFamiliesAdmitNobody` (`DeadFamilyAdmitsNobody`) |
| `RateLimiterProofs` | `TypeCorrectness`; `RequestsArePaidFor` (`PaidFor`); `Refinement` (`KeepsBudget`: the limiters implement `Budget`) |
| `InboxProofs` | `TypeCorrectness`; `AnsweredNotesStay` (`AckedNotesKept`); `FilesAreNeverOverwritten` (`NeverOverwritten`); `OvershootIsBounded` (`QuotaOvershoot`) |
| `McpRequestProofs` | `TypeCorrectness`; `NoteToolStaysHidden` (`NoteToolHidden`); `PermitsAreConserved` (`PermitsConserved`); `NotesAreAudited` (`NotesAudited`); `NumbersAreUnique` (`OneRequestPerId`); `DeadTokensStayDead` (`DeadTokensServeNoLater`) |
| `DocumentsProofs` | `TypeCorrectness`; `ShownIsInScope` (`Confined`); `ScopesFailApart` (`FailsForItsOwn`); `NotesStayUnread` (`NotesUnread`, of an inbox that is no served directory); `BestAreShown` (`NothingBetterLeftOut`) |
| `NoteNameProofs` | `EpochIsRight`; `NextDayIsRight`; `CalendarIsRight` (`CalendarRight`); `StampIsRight` (`StampRight`); `SlugIsRight` (`SlugRight`); `TypeCorrectness` |

Every inductive invariant below was first checked by TLC on the bounds of a run, and has
a lemma for each action, or for what actions have in common.

*The store.* `MemoryMatchesFile` is not inductive: that the rename leaves a whole file with
the right table depends on what the holder is doing. `IInv` adds `Mutex` (the
holder is the one caller inside), `Asked` (whoever is in a call has asked
something) and `Clone` (the holder's clone is the outcome of its request on the
table in memory, which is the file's until the rename and the draft's after
it). The refinement uses `IInv` in each step: the rename is `Apply`, because the file
then becomes the outcome of the request on the old file; a look-up is
`Apply` because memory and file agree; everything else of the critical section
is a stutter.

*Tokens and families.* That no token is exchanged twice rests on the whole history of
tokens: where they are in use, which were drawn, what was presented and how long they
live. The store and the service share that history, so it is stated once. A view
(`TokenHistory`) is a record of a table, the callers of the store and what clients know;
`History` says that ids are used once and only after they were drawn (`InUseWereDrawn`,
`TokensApart`, `FamiliesApart`), that what is presented was handed out by a call that read the
clock earlier (`PresentedWereHanded`), that an exchanged token is in no family
(`Exchanged`), that tokens live within their families (`LivesWithinFamily`) and that refused
families are not active (`RefusedAreDead`). `FamilyTableProofs` shows that each kind of step
keeps it. The invariant of the store, `HInv`, is `IInv`, the `History` of the view whose
table is the state file, and `MemoryRefuses`: between rename and `Publish` the memory
is behind the file, and does not hold a refused family active then either. In
`OAuthProofs` the view is the service on the abstract store: `IInv` is its `History` with what
the service adds, that scopes go back to the owner's one decision on a code
(`DecidedOnce`, `GrantedOnly`), that a code that can be exchanged has not been
(`CodesUnspent`, `OneFamily`), and that a bearer check that came after a refusal fails
(`LateFails`). As the store implements `FamilyStore`, what is proved of `OAuth` is of the
service on the real store, but for what liveness would add.

*Limiters.* `TypeOK` is inductive as it stands. For the refinement: a check sees at
least the units the bucket had and at most a full bucket, whichever way the clock
readings fall (`UnitsBounds`), and dividing by the period keeps that order
(`MoreUnits`, `OneLess`, `NoToken`). So `Check` is `Pass` or `Refuse`, the reading of the
clock is `Ask`, a restart is `StartAgain` and a tick a stutter. `PaidFor` needs to
know of each stretch of time how it lies to `updated_at`: if it begins before,
what was let through and what is left in the bucket together were paid for up to
`updated_at`; if it begins after, they were paid for when it begins (`EachPaid`). An older reading
moves `updated_at` back, which `undone` makes up for.

*Inbox.* `IInv` says that a call that has made its file still has it unless the owner took
it, and that the whole note is in it when the call comes to answer. For the quota, `QInv` has
`Room`: for every set of calls that have not written yet, either there is room for one note
more, or one of the set has counted, or will, all that is there and be turned away or stay
within the quota; both up to a note for each call outside the set. All sets are needed: when a
note is written, its call leaves every set it is in. The bytes of a directory are a fold over a finite
set, and an induction theorem with an operator as its parameter is out of reach; the
lemmas on sums (`SumExists`, `BytesByAny`, `BytesSame`) take a smallest set for which they would
fail instead, since strict inclusion of finite sets is well founded.

*Requests.* That the notes are audited under the right request needs numbers that no two
requests share (`NumbersApart`), credentials that stay (`SubjectsKnown`), and that nothing is
recorded, or filed, under a number before its request gets there (`RecordsFollow`,
`NotesFollow`). Permits are counted by cardinalities of finite sets; the line is an injective
sequence, so that a client that leaves from its middle leaves one place. The
hiding of `append_note` is inductive only with `ToolsGoOn`: a request without its client is
one whose tool has begun.

*Documents.* While a call is served, all that lies in its scope, and every fault in it, is
in `saw` (`SeenAll`), and a search goes from listing to reading and reads nothing twice (`Stages`). That
carries `Confined` and `FailsForItsOwn`, where a fault is one of the scope's own directories or,
told apart from it, of a directory behind a link in the place of one. `NotesUnread` is proved under `InboxApart`, that
the inbox is not among the served directories; the run `documents_notes` shows what
happens without it. For `NothingBetterLeftOut`, a match that stays where it is
is somewhere on its way into the answer: in a directory still to be opened, due, listed or found
(`NoneLost`); and since the ranking is a strict order (`BetterIsAnOrder`) and a response grows with
its results (`ResponseGrows`), whatever is better than a result that fits fits too
(`BetterFitsToo`).

*Calendar.* Every day has an era and is a day of it, on both sides of year 0
(`DayHasEra`, `EraOfDay`). `YearOfEra` finds the one year of the era in which a
day lies (`YearBounds`, `YearUnique`), and the years, from March to February, are
as long as leap years make them (`YearLengths`). Within such a year a day is
followed by the next of its month or by the first of the next month
(`MonthStep`), which gives the next date within a year (`SameYear`), at its end
(`NewYear`) and at the end of an era (`NextDayOfEra`). From that, and from the right dates
that walks begin at (`StartsAssumption`, which `EpochIsRight` meets for the epoch), come
`CalendarIsRight`, for walks of any length, and `StampIsRight`, for every time of day.
Integers are unbounded here; in the code a day is a count of seconds in 64 bits, divided by
86,400, and does not overflow.

*Slugs.* `Slug` and the reference `Joined` are folds, over the characters of a title and over
its pieces, and what a fold does with one more character is again beyond an induction theorem with
an operator as its parameter. `ScanExists` and `JoinExists` take the shortest part of the sequence for which
the fold would not be defined (`LeastNumber`); with `ScansAgree` and `JoinsAgree`, that two folds agree where their
sequences do, they give `ScannedByOne` and `JoinedByOne`. A title is typed character by
character, so the rest is an invariant of `Type`: the scan has the words so far, cut off; until
it is full it has them all, and it knows whether a word has ended (`Has`, `ScanFollows`). The hyphen that
is set before a word and then leaves no room for it is the one that `slug` takes off at the end.

Only model-checked: liveness, which this prover does not treat (`CallsReturn`,
`LineMovesOn`, `ShutdownEnds`); and of course the five properties that are violated.

## What is not modelled

- Cryptography (HMAC, PKCE, signatures), parsing and formatting: a value
  verifies or it does not.
- The 1 MiB limit of `open` on the state file, which `persist` does not
  observe: some 7,000 live families are needed to reach it.
- Loss of a rename after a power failure (the directory is not synced).
- A wall clock that is set back (see Fairness).
- Rounding of `f64` tokens; growth of the map of buckets.
- In `Documents`: subdirectories, cutting a long file off at a byte limit, front
  matter, terms and snippets, edits within the reading of one file.
- In `McpRequest`: the routes of OAuth (their handlers are in `OAuth`; each route and method waits
  for permits of its own, and is here a connection that may linger), `/healthz` and the metadata, response headers,
  protocol versions and tool schemas. A record of the log is never lost.
- In `Documents`: what else becomes of a renamed inbox than one move, while no walk is in
  it, to a name that is free.
- In `NoteName`: fractions of a second before 1970, which `unix_seconds` cuts off towards
  the epoch (`inbox.rs:415-420`), the formatting of a name, and the front matter of a note.
- Parsing of the environment, and deployment.

## Plan

1. `FamilyTable`, `FamilyStore`, `RefreshTokenStore`, `ScopeGrant`, `OAuth`,
   `Inbox`, `RateLimiter`, `Documents`, and the proofs about the store: done.
2. `Budget` and the refinement, `McpRequest`, `Calendar` and `NoteName` with their
   proofs: done.
3. Proofs of the safety properties of the store, the service, the limiters, the inbox,
   requests, documents, the calendar and the slug: done, see Theorems.
4. Left: that `McpRequest` and `Inbox` keep their limiters to `Budget`, as a refinement.
