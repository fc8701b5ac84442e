---------------------------- MODULE RateLimiter ----------------------------
(***************************************************************************)
(* The token buckets of src/src/auth.rs, called by several requests at a   *)
(* time.  RateLimiter has a bucket per credential, made full when the      *)
(* credential is first seen; WriteRateLimiter has one bucket for the whole *)
(* server, made full at the start.                                         *)
(*                                                                         *)
(* check() reads the clock before it takes the mutex: the bucket may have  *)
(* been updated in between with a later reading.                           *)
(*                                                                         *)
(* A token is Period units; a bucket gains Rate units per instant.  The    *)
(* code's f64 fractions become whole numbers and rounding is left out.     *)
(***************************************************************************)
EXTENDS Integers

CONSTANTS
  Callers,      \* requests being checked at the same time
  Keys,         \* credentials, and the write budget
  Shared,       \* the key of the write budget
  Capacity,     \* burst, or writes_per_hour: tokens in a full bucket
  Rate,         \* requests_per_minute, or writes_per_hour
  Period,       \* a minute, or an hour
  LastInstant   \* bound: the clock

ASSUME LimiterAssumption ==
  /\ Shared \in Keys
  /\ {Capacity, Rate, LastInstant} \subseteq Nat /\ Period \in Nat \ {0}

VARIABLES
  now,      \* the clock
  pc,       \* each caller: "idle", or "read" between the clock and the mutex
  reading,  \* Instant::now() as it read it
  bucket,   \* the buckets
  granted,  \* per key and instant: how many requests that had read the clock by
            \* then were let through
  passed,   \* per key: how many in all
  undone    \* per key: by how much updated_at has been moved back, in all

vars == <<now, pc, reading, bucket, granted, passed, undone>>

Instants == 0 .. LastInstant

Full == Capacity * Period

\* A HashMap entry that is not there yet has made = FALSE.
Bucket == [made : BOOLEAN, units : 0 .. Full, updatedAt : Instants]

NoBucket == [made |-> FALSE, units |-> 0, updatedAt |-> 0]
FullBucket(t) == [made |-> TRUE, units |-> Full, updatedAt |-> t]

TypeOK ==
  /\ now \in Instants
  /\ pc \in [Callers -> {"idle", "read"}]
  /\ reading \in [Callers -> Instants]
  /\ \A c \in Callers : reading[c] <= now
  /\ bucket \in [Keys -> Bucket]
  /\ granted \in [Keys -> [Instants -> Nat]]
  /\ passed \in [Keys -> Nat]
  /\ undone \in [Keys -> Nat]

Init ==
  /\ now = 0
  /\ pc = [c \in Callers |-> "idle"]
  /\ reading = [c \in Callers |-> 0]
  /\ bucket = [k \in Keys |-> IF k = Shared THEN FullBucket(0) ELSE NoBucket]
  /\ granted = [k \in Keys |-> [t \in Instants |-> 0]]
  /\ passed = [k \in Keys |-> 0]
  /\ undone = [k \in Keys |-> 0]

----------------------------------------------------------------------------

\* let now = Instant::now();
ReadClock(c) ==
  /\ pc[c] = "idle"
  /\ pc' = [pc EXCEPT ![c] = "read"]
  /\ reading' = [reading EXCEPT ![c] = now]
  /\ UNCHANGED <<now, bucket, granted, passed, undone>>

Least(a, b) == IF a <= b THEN a ELSE b

\* duration_since is zero for a reading older than updated_at.
Elapsed(from, to) == IF to >= from THEN to - from ELSE 0

\* The slip: what was gained is not capped.
UncappedAt(b, t) == b.units + Elapsed(b.updatedAt, t) * Rate

\* The units a bucket holds at reading t, before a token is taken.
UnitsAt(b, t) == Least(b.units + Elapsed(b.updatedAt, t) * Rate, Full)

\* The slip: a refusal returns before updated_at is assigned.
TakeForgettingRefusals(b, t) ==
  LET units == UnitsAt(b, t)
  IN IF units < Period
     THEN [b EXCEPT !.units = units]
     ELSE [b EXCEPT !.units = units - Period, !.updatedAt = t]

\* Bucket::take: what is left in the bucket.
Take(b, t) ==
  LET units == UnitsAt(b, t)
  IN [b EXCEPT !.units = IF units < Period THEN units ELSE units - Period,
               !.updatedAt = t]

\* entry(..).or_insert_with(Bucket::full)
Open(k, t) == IF bucket[k].made THEN bucket[k] ELSE FullBucket(t)

\* One more request is let through, which read the clock at t.
OneMore(count, t) ==
  [u \in Instants |-> IF u < t THEN count[u] ELSE count[u] + 1]

\* The mutex is taken, the bucket asked and the mutex given back.
Check(c, k) ==
  /\ pc[c] = "read"
  /\ LET t == reading[c]
         b == Open(k, t)
     IN /\ bucket' = [bucket EXCEPT ![k] = Take(b, t)]
        /\ IF UnitsAt(b, t) >= Period
           THEN /\ granted' = [granted EXCEPT ![k] = OneMore(@, t)]
                /\ passed' = [passed EXCEPT ![k] = @ + 1]
           ELSE UNCHANGED <<granted, passed>>
        /\ undone' = [undone EXCEPT ![k] = @ + Elapsed(t, b.updatedAt)]
  /\ pc' = [pc EXCEPT ![c] = "idle"]
  /\ UNCHANGED <<now, reading>>

\* A new process starts with full buckets and no credentials.
Restart ==
  /\ pc' = [c \in Callers |-> "idle"]
  /\ reading' = [c \in Callers |-> 0]
  /\ bucket' = [k \in Keys |-> IF k = Shared THEN FullBucket(now) ELSE NoBucket]
  /\ granted' = [k \in Keys |-> [t \in Instants |-> 0]]
  /\ passed' = [k \in Keys |-> 0]
  /\ undone' = [k \in Keys |-> 0]
  /\ UNCHANGED now

Tick ==
  /\ now < LastInstant
  /\ now' = now + 1
  /\ UNCHANGED <<pc, reading, bucket, granted, passed, undone>>

Next ==
  \/ \E c \in Callers : ReadClock(c) \/ \E k \in Keys : Check(c, k)
  \/ Restart
  \/ Tick

Spec == Init /\ [][Next]_vars

----------------------------------------------------------------------------
(* Properties.                                                             *)

\* Requests let through that read the clock between two instants.
Granted(k, from, to) ==
  granted[k][to] - (IF from = 0 THEN 0 ELSE granted[k][from - 1])

\* No request goes unpaid: what a bucket has let through, in any stretch of
\* readings, was in a full bucket, or came in at Rate during that stretch, or
\* during time that an older reading put back on the bucket's clock.
PaidFor ==
  \A k \in Keys : \A from, to \in Instants :
    from <= to =>
      Granted(k, from, to) * Period <= Full + (to - from + undone[k]) * Rate

\* The clock, the fractions and the older readings come to this: a whole token
\* for each request let through, a refusal only when none is left, and never
\* more than a full bucket.
Abstract == INSTANCE Budget WITH
  tokens <- [k \in Keys |-> IF bucket[k].made THEN bucket[k].units \div Period
                            ELSE Capacity],
  asking <- {c \in Callers : pc[c] = "read"}

KeepsBudget == Abstract!BudgetSpec

\* What README.md says of the write budget: as many writes an hour as its
\* capacity.
HourlyBudget ==
  \A from, to \in Instants :
    from <= to /\ to - from < Period => Granted(Shared, from, to) <= Capacity
=============================================================================
