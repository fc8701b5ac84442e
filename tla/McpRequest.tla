----------------------------- MODULE McpRequest -----------------------------
(***************************************************************************)
(* A request to /mcp from its arrival to its answer (src/src/http.rs,      *)
(* auth.rs, server.rs, audit.rs), several at a time, in a process that is  *)
(* started, told to stop and killed (main.rs).                             *)
(*                                                                         *)
(* A request is numbered, authenticated and charged to its credential.     *)
(* Then it waits in line for one of the permits, its body is read, and the *)
(* call in it is dispatched by the scope of its credential.  Its client    *)
(* may leave at any await: the future of the request is dropped, and with  *)
(* it the permit or the place in the line.  A tool that has begun has no   *)
(* await in it and goes on without its client.                             *)
(*                                                                         *)
(* Tokens, documents, buckets and files have modules of their own; here    *)
(* a token dies at some instant (OAuth), a read is one step (Documents), a *)
(* bucket lets one through for each whole token and is refilled at any     *)
(* time (Budget), and a note is filed or not (Inbox).                      *)
(***************************************************************************)
EXTENDS Naturals, Sequences, FiniteSets, SequencesExt

CONSTANTS
  Requests,       \* requests sent to one process
  ApiKeys,        \* API keys clients have: of "KeyA" and "KeyB"
  Tokens,         \* OAuth access tokens
  PrivateTokens,  \* those that carry kb:private
  MaxPermits,     \* MAX_CONCURRENT_REQUESTS
  Burst,          \* RATE_LIMIT_BURST
  WritesPerHour   \* INBOX_WRITES_PER_HOUR

ASSUME McpAssumption ==
  /\ IsFiniteSet(Requests)
  /\ ApiKeys \subseteq {"KeyA", "KeyB"}
  /\ PrivateTokens \subseteq Tokens
  /\ Tokens \cap {"KeyA", "KeyB", "absent", "malformed", "nobody"} = {}
  /\ {MaxPermits, Burst, WritesPerHour} \subseteq Nat \ {0}

VARIABLES
  up,           \* the process: "running", "draining" or "down"
  inbox,        \* KnowledgeBaseServer.inbox is Some
  lingering,    \* axum::serve has another connection that waits for its client
  counter,      \* request_counter
  req,          \* the requests
  free,         \* permits of the ConcurrencyLimitLayer
  queue,        \* requests waiting for one, in order
  budget,       \* whole tokens in the bucket of each credential
  writeBudget,  \* whole tokens in the bucket for writes
  diedAt,       \* the value of the counter when a token expired or was revoked
  notes,        \* notes this process has filed
  log           \* audit records this process has written

vars == <<up, inbox, lingering, counter, req, free, queue, budget, writeBudget,
          diedAt, notes, log>>

Credentials == ApiKeys \cup Tokens

Scope(c) == IF c = "KeyB" \/ c \in PrivateTokens THEN "Private" ELSE "Tech"

\* The connection of a request is before the middleware, in code without an
\* await, at an await, or done with.
Straight == {"arrived", "known", "admitted"}
Holding == {"reading", "called", "appending", "filing", "filed", "responding"}
InTool == {"appending", "filing", "filed"}
Phases == {"new", "queued", "over"} \cup Straight \cup Holding

\* What a body asks for.  "refused": the transport refuses it (host, origin,
\* JSON).  "malformed": append_note with arguments that do not parse.
Calls == {"refused", "initialize", "list", "read", "unknown", "append", "malformed"}

Replies == {"refused", "instructions", "search, fetch", "search, fetch, append_note", "document",
            "tool not found", "invalid params", "rate limited", "filed", "not filed"}

\* A request that the process knows nothing of: yet, or any more.
Unknown(phase) == [phase |-> phase, id |-> 0, subject |-> "nobody", call |-> "none",
                   reply |-> "none", left |-> FALSE]
Fresh == Unknown("new")
Over == Unknown("over")

Ids == 0 .. Cardinality(Requests)

\* Later than any request.
Alive == Cardinality(Requests) + 1
Dead(t) == diedAt[t] # Alive

TypeOK ==
  /\ up \in {"running", "draining", "down"}
  /\ inbox \in BOOLEAN /\ lingering \in BOOLEAN
  /\ counter \in Ids
  /\ req \in [Requests -> [phase : Phases, id : Ids,
                           subject : Credentials \cup {"nobody"},
                           call : Calls \cup {"none"},
                           reply : Replies \cup {"none"}, left : BOOLEAN]]
  /\ free \in 0 .. MaxPermits
  /\ queue \in Seq(Requests)
  /\ budget \in [Credentials -> 0 .. Burst]
  /\ writeBudget \in 0 .. WritesPerHour
  /\ diedAt \in [Tokens -> Ids \cup {Alive}]
  /\ notes \subseteq [id : Ids, subject : Credentials]
  /\ log \subseteq [event : {"rejected", "tool", "append_note", "http"}, id : Ids,
                    subject : Credentials \cup {"nobody"},
                    outcome : {"unauthorized", "rate limited", "filed", "not filed",
                               "done"}]

Init ==
  /\ up = "running"
  /\ inbox \in BOOLEAN /\ lingering = FALSE
  /\ diedAt = [t \in Tokens |-> Alive]
  /\ counter = 0
  /\ req = [r \in Requests |-> Fresh]
  /\ free = MaxPermits /\ queue = <<>>
  /\ budget = [c \in Credentials |-> Burst] /\ writeBudget = WritesPerHour
  /\ notes = {} /\ log = {}

----------------------------------------------------------------------------
(* The middleware: authenticate_mcp_request.                               *)

environment == <<up, inbox, lingering, diedAt>>

Record(event, r, outcome) ==
  [event |-> event, id |-> req[r].id, subject |-> req[r].subject, outcome |-> outcome]

Write(record) == log' = log \cup {record}

\* The slip: the counter is read and written in two steps.
ArriveRacing(r) ==
  /\ up = "running"
  /\ \/ /\ req[r].phase = "new"
        /\ req' = [req EXCEPT ![r].phase = "loaded", ![r].id = counter + 1]
        /\ UNCHANGED counter
     \/ /\ req[r].phase = "loaded"
        /\ req' = [req EXCEPT ![r].phase = "arrived"]
        /\ counter' = req[r].id
  /\ UNCHANGED <<environment, free, queue, budget, writeBudget, notes, log>>

\* request_counter.fetch_add(1) + 1
Arrive(r) ==
  /\ up = "running" /\ req[r].phase = "new"
  /\ counter' = counter + 1
  /\ req' = [req EXCEPT ![r].phase = "arrived", ![r].id = counter + 1]
  /\ UNCHANGED <<environment, free, queue, budget, writeBudget, notes, log>>

\* The slip: a token that was good once is not looked up again.
AuthenticateHeadersCached(authorization, apiKey) ==
  IF authorization # "absent"
  THEN IF /\ authorization \in Tokens
          /\ \/ ~Dead(authorization)
             \/ \E record \in log : record.subject = authorization
       THEN authorization ELSE "nobody"
  ELSE IF apiKey \in ApiKeys THEN apiKey ELSE "nobody"

\* Authenticator::authenticate_headers: an Authorization header decides alone.
AuthenticateHeaders(authorization, apiKey) ==
  IF authorization # "absent"
  THEN IF authorization \in Tokens /\ ~Dead(authorization)
       THEN authorization ELSE "nobody"
  ELSE IF apiKey \in ApiKeys THEN apiKey ELSE "nobody"

Authenticate(r) ==
  /\ req[r].phase = "arrived"
  /\ \E authorization \in {"absent", "malformed"} \cup Tokens,
        apiKey \in {"absent", "wrong"} \cup ApiKeys :
       LET subject == AuthenticateHeaders(authorization, apiKey)
       IN IF subject = "nobody"
          THEN /\ Write(Record("rejected", r, "unauthorized"))
               /\ req' = [req EXCEPT ![r] = Over]
          ELSE /\ req' = [req EXCEPT ![r].phase = "known", ![r].subject = subject]
               /\ UNCHANGED log
  /\ UNCHANGED <<environment, counter, free, queue, budget, writeBudget, notes>>

\* What a bucket of n tokens may hold after a refill and a token taken.
Paid(n, capacity) == {m - 1 : m \in (n .. capacity) \ {0}}

\* rate_limiter.check(subject): the record of a refusal names no credential.
CheckRate(r) ==
  /\ req[r].phase = "known"
  /\ LET c == req[r].subject
     IN \/ /\ \E n \in Paid(budget[c], Burst) : budget' = [budget EXCEPT ![c] = n]
           /\ req' = [req EXCEPT ![r].phase = "admitted"]
           /\ UNCHANGED log
        \/ /\ budget[c] = 0
           /\ Write([Record("rejected", r, "rate limited") EXCEPT !.subject = "nobody"])
           /\ req' = [req EXCEPT ![r] = Over]
           /\ UNCHANGED budget
  /\ UNCHANGED <<environment, counter, free, queue, writeBudget, notes>>

\* The body limit answers 413 by itself; any other request gets in line.
Enqueue(r) ==
  /\ req[r].phase = "admitted"
  /\ \/ /\ Write(Record("http", r, "done"))
        /\ req' = [req EXCEPT ![r] = Over]
        /\ UNCHANGED queue
     \/ /\ queue' = Append(queue, r)
        /\ req' = [req EXCEPT ![r].phase = "queued"]
        /\ UNCHANGED log
  /\ UNCHANGED <<environment, counter, free, budget, writeBudget, notes>>

\* The semaphore is fair: the first in line gets the permit.
Acquire(r) ==
  /\ free > 0 /\ queue # <<>> /\ Head(queue) = r
  /\ free' = free - 1
  /\ queue' = Tail(queue)
  /\ req' = [req EXCEPT ![r].phase = "reading"]
  /\ UNCHANGED <<environment, counter, budget, writeBudget, notes, log>>

\* The client sends the last of the body, whatever it asks for.
Deliver(r) ==
  /\ req[r].phase = "reading"
  /\ \E call \in Calls :
       req' = [req EXCEPT ![r].phase = "called", ![r].call = call]
  /\ UNCHANGED <<environment, counter, free, queue, budget, writeBudget, notes, log>>

\* The answer is ready: the permit is given back and the request recorded.  To
\* be read by the client is the connection's affair (Linger).
Respond(r) ==
  /\ req[r].phase = "responding"
  /\ Write(Record("http", r, "done"))
  /\ free' = free + 1
  /\ req' = [req EXCEPT ![r] = Over]
  /\ UNCHANGED <<environment, counter, queue, budget, writeBudget, notes>>

----------------------------------------------------------------------------
(* The tool server: list_tools, call_tool and the tools.                   *)

Visible(r) == inbox /\ Scope(req[r].subject) = "Private"

\* An answer whose client has left goes nowhere.
Answered(r, reply) ==
  req' = [req EXCEPT ![r] = IF @.left THEN Over
                            ELSE [@ EXCEPT !.phase = "responding", !.reply = reply]]

ListTools(r) ==
  /\ req[r].call = "list"
  /\ Answered(r, IF Visible(r) THEN "search, fetch, append_note" ELSE "search, fetch")
  /\ UNCHANGED log

\* search and fetch; "document" is any answer of theirs that is no error of the
\* protocol.  Arguments that do not parse, and an id that is none, are refused
\* without a record; a query that is none is refused with one.
ReadTool(r) ==
  /\ req[r].call = "read"
  /\ \/ /\ \E reply \in {"document", "invalid params"} : Answered(r, reply)
        /\ Write(Record("tool", r, "done"))
     \/ Answered(r, "invalid params") /\ UNCHANGED log

\* initialize: the instructions are the same for everyone.
Initialize(r) ==
  /\ req[r].call = "initialize"
  /\ Answered(r, "instructions")
  /\ UNCHANGED log

Refuse(r) ==
  \/ req[r].call = "refused" /\ Answered(r, "refused") /\ UNCHANGED log
  \/ req[r].call = "unknown" /\ Answered(r, "tool not found") /\ UNCHANGED log

\* The slip: the arguments are parsed before the scope is looked at.
AppendToolParsingFirst(r) ==
  /\ req[r].call \in {"append", "malformed"}
  /\ \/ /\ req[r].call = "append" /\ Visible(r)
        /\ req' = [req EXCEPT ![r].phase = "appending"]
     \/ req[r].call = "append" /\ ~Visible(r) /\ Answered(r, "tool not found")
     \/ req[r].call = "malformed" /\ Answered(r, "invalid params")
  /\ UNCHANGED log

\* call_tool refuses before the arguments are parsed.
AppendTool(r) ==
  /\ req[r].call \in {"append", "malformed"}
  /\ \/ ~Visible(r) /\ Answered(r, "tool not found")
     \/ /\ Visible(r) /\ req[r].call = "append"
        /\ req' = [req EXCEPT ![r].phase = "appending"]
     \/ Visible(r) /\ req[r].call = "malformed" /\ Answered(r, "invalid params")
  /\ UNCHANGED log

Dispatch(r) ==
  /\ req[r].phase = "called"
  /\ Initialize(r) \/ ListTools(r) \/ ReadTool(r) \/ Refuse(r) \/ AppendTool(r)
  /\ UNCHANGED <<environment, counter, free, queue, budget, writeBudget, notes>>

\* append_note: limiter.check(), the scope having been checked once more.
CheckWrites(r) ==
  /\ req[r].phase = "appending"
  /\ \/ /\ \E n \in Paid(writeBudget, WritesPerHour) : writeBudget' = n
        /\ req' = [req EXCEPT ![r].phase = "filing"]
        /\ UNCHANGED log
     \/ /\ writeBudget = 0
        /\ Write(Record("append_note", r, "rate limited"))
        /\ Answered(r, "rate limited")
        /\ UNCHANGED writeBudget
  /\ UNCHANGED <<environment, counter, free, queue, budget, notes>>

\* create_note: what fails it is the note itself, the quota, the disk, or an
\* inbox that has been lost since the start.
CreateNote(r) ==
  /\ req[r].phase = "filing"
  /\ \/ /\ notes' = notes \cup {[id |-> req[r].id, subject |-> req[r].subject]}
        /\ req' = [req EXCEPT ![r].phase = "filed", ![r].reply = "filed"]
     \/ /\ req' = [req EXCEPT ![r].phase = "filed", ![r].reply = "not filed"]
        /\ UNCHANGED notes
  /\ UNCHANGED <<environment, counter, free, queue, budget, writeBudget, log>>

\* audit::tool_write, then the answer.
AuditWrite(r) ==
  /\ req[r].phase = "filed"
  /\ Write(Record("append_note", r, req[r].reply))
  /\ Answered(r, req[r].reply)
  /\ UNCHANGED <<environment, counter, free, queue, budget, writeBudget, notes>>

----------------------------------------------------------------------------
(* Clients that leave, and what happens outside.                           *)

Holders == {r \in Requests : req[r].phase \in Holding /\ ~req[r].left}

\* The slip: the tool stops where it is.
DroppedWithTool(r) == Over

\* What becomes of a request whose client leaves: its tool goes on.
Dropped(r) ==
  IF req[r].phase \in {"called"} \cup InTool
  THEN [req[r] EXCEPT !.left = TRUE] ELSE Over

CanLeave(r) == req[r].phase = "queued" \/ r \in Holders

\* Whoever waits in line leaves it.
LeaveLine(r) ==
  IF req[r].phase = "queued"
  THEN \E i \in DOMAIN queue : queue[i] = r /\ queue' = RemoveAt(queue, i)
  ELSE UNCHANGED queue

\* The slip: only what is dropped from the line gives its place back.
DisconnectKeepingPermit(r) ==
  /\ CanLeave(r)
  /\ LeaveLine(r)
  /\ req' = [req EXCEPT ![r] = Dropped(r)]
  /\ UNCHANGED <<environment, counter, free, budget, writeBudget, notes, log>>

\* The slip: a permit is given back that was never had.
DisconnectFreeing(r) ==
  /\ CanLeave(r)
  /\ LeaveLine(r)
  /\ free' = free + 1
  /\ req' = [req EXCEPT ![r] = Dropped(r)]
  /\ UNCHANGED <<environment, counter, budget, writeBudget, notes, log>>

\* The client leaves: the future is dropped with what it holds, and no `http`
\* record is written.
Disconnect(r) ==
  /\ CanLeave(r)
  /\ LeaveLine(r)
  /\ free' = IF r \in Holders THEN free + 1 ELSE free
  /\ req' = [req EXCEPT ![r] = Dropped(r)]
  /\ UNCHANGED <<environment, counter, budget, writeBudget, notes, log>>

\* The spawned call of a client that has left need not be begun.
Abandon(r) ==
  /\ req[r].phase = "called" /\ req[r].left
  /\ req' = [req EXCEPT ![r] = Over]
  /\ UNCHANGED <<environment, counter, free, queue, budget, writeBudget, notes, log>>

\* A token expires or its family is revoked.
Die(t) ==
  /\ up # "down" /\ ~Dead(t)
  /\ diedAt' = [diedAt EXCEPT ![t] = counter]
  /\ UNCHANGED <<up, inbox, lingering, counter, req, free, queue, budget, writeBudget,
                 notes, log>>

other == <<up, inbox, counter, req, free, queue, budget, writeBudget, diedAt, notes, log>>

\* A client keeps a connection: of another route, with a head or a body that it
\* does not finish, or with an answer that it does not read.
Linger ==
  /\ ~lingering
  /\ up = "running" \/ \E r \in Requests : req[r].phase \notin {"new", "over"} /\ ~req[r].left
  /\ lingering' = TRUE
  /\ UNCHANGED other

\* No client keeps one any more.
Finish ==
  /\ lingering /\ lingering' = FALSE
  /\ UNCHANGED other

----------------------------------------------------------------------------
(* The process: main.                                                      *)

\* SIGTERM or Ctrl+C: nothing new is accepted.
Shutdown ==
  /\ up = "running"
  /\ up' = "draining"
  /\ UNCHANGED <<inbox, lingering, counter, req, free, queue, budget, writeBudget,
                 diedAt, notes, log>>

\* All that the process held is gone; router() will make it anew.
Down ==
  /\ up' = "down" /\ lingering' = FALSE
  /\ counter' = 0
  /\ req' = [r \in Requests |-> Over]
  /\ free' = MaxPermits /\ queue' = <<>>
  /\ budget' = [c \in Credentials |-> Burst] /\ writeBudget' = WritesPerHour
  /\ notes' = {} /\ log' = {}
  /\ diedAt' = [t \in Tokens |-> IF Dead(t) THEN 0 ELSE Alive]
  /\ UNCHANGED inbox

\* axum::serve returns when every connection is done with, and the runtime
\* stops when no tool is running.
Exit ==
  /\ up = "draining" /\ ~lingering
  /\ \A r \in Requests :
       IF req[r].left THEN req[r].phase \notin InTool
       ELSE req[r].phase \in {"new", "over"}
  /\ Down

Crash == up # "down" /\ Down

\* main, once more: the inbox is opened or done without.
Start ==
  /\ up = "down"
  /\ up' = "running"
  /\ inbox' \in BOOLEAN
  /\ req' = [r \in Requests |-> Fresh]
  /\ UNCHANGED <<lingering, diedAt, counter, free, queue, budget, writeBudget, notes, log>>

\* What the server does for a request by itself.
ServerStep(r) ==
  \/ Authenticate(r) \/ CheckRate(r) \/ Enqueue(r) \/ Acquire(r) \/ Dispatch(r)
  \/ CheckWrites(r) \/ CreateNote(r) \/ AuditWrite(r) \/ Respond(r)

Next ==
  \/ \E r \in Requests :
       \/ Arrive(r) \/ Authenticate(r) \/ CheckRate(r) \/ Enqueue(r) \/ Acquire(r)
       \/ Deliver(r) \/ Dispatch(r) \/ CheckWrites(r) \/ CreateNote(r)
       \/ AuditWrite(r) \/ Respond(r) \/ Disconnect(r) \/ Abandon(r)
  \/ \E t \in Tokens : Die(t)
  \/ Linger \/ Finish \/ Shutdown \/ Exit \/ Crash \/ Start

Spec == Init /\ [][Next]_vars

\* tokio runs every task that can go on, and main its shutdown.  Of clients
\* nothing is assumed here: they need not send their bodies, nor finish, and
\* nothing in the code stops waiting for them.
Fairness == WF_vars(Exit) /\ \A r \in Requests : WF_vars(ServerStep(r))

FairSpec == Spec /\ Fairness

----------------------------------------------------------------------------
(* Properties.                                                             *)

\* What a server without an inbox answers.
WithoutInbox(call) ==
  CASE call = "initialize" -> {"instructions"}
    [] call = "list" -> {"search, fetch"}
    [] call = "read" -> {"document", "invalid params"}
    [] call = "refused" -> {"refused"}
    [] OTHER -> {"tool not found"}

\* To a caller without the private scope, and to everyone when the process has
\* no inbox, the server answers as one that has no inbox, whatever the call and
\* its arguments.
NoteToolHidden ==
  \A r \in Requests :
    ~Visible(r) =>
      /\ req[r].phase \notin InTool
      /\ req[r].phase = "responding" => req[r].reply \in WithoutInbox(req[r].call)

\* However clients leave, each permit is free or held by one request that is
\* being served, and the line is made of those that wait.
PermitsConserved ==
  /\ free + Cardinality(Holders) = MaxPermits
  /\ IsInjective(queue)
  /\ {queue[i] : i \in DOMAIN queue} = {r \in Requests : req[r].phase = "queued"}

\* A note that is filed is recorded with the number and the credential of its
\* request, client or not, and nothing else is recorded as filed.
NotesAudited ==
  {[id |-> record.id, subject |-> record.subject] :
     record \in {m \in log : m.event = "append_note" /\ m.outcome = "filed"}}
  = notes \ {[id |-> req[r].id, subject |-> req[r].subject] :
               r \in {q \in Requests : req[q].phase = "filed"}}

\* The records with one number are of one request: one credential, and nothing
\* besides the refusal of a request that was rejected.
OneRequestPerId ==
  \A a, b \in log :
    a.id = b.id => /\ a.subject = b.subject
                   /\ a.event = "rejected" => b = a

\* A token that has died serves only what had arrived by then: requests in line
\* go on, and may file a note.
DeadTokensServeNoLater ==
  \A t \in Tokens :
    Dead(t) => /\ \A r \in Requests : req[r].subject = t => req[r].id <= diedAt[t]
               /\ \A n \in notes : n.subject = t => n.id <= diedAt[t]

\* No client keeps its body back for ever without leaving.
BodiesArrive == \A r \in Requests : []<>(req[r].phase # "reading")

\* Again and again no other connection waits for its client.
ClientsFinish == []<>~lingering

\* As long as bodies arrive, whoever is in line is served or has left, whoever
\* else leaves.
LineMovesOn ==
  BodiesArrive => \A r \in Requests : req[r].phase = "queued" ~> req[r].phase = "over"

\* As long as bodies arrive and the other clients finish, a process told to stop
\* comes to its end: no permit, place in the line or tool that a client has left
\* behind keeps it.
ShutdownEnds ==
  BodiesArrive /\ ClientsFinish => (up = "draining" ~> up = "down")
=============================================================================
