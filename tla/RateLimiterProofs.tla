------------------------- MODULE RateLimiterProofs -------------------------
(***************************************************************************)
(* The token buckets of RateLimiter implement Budget, and let through in   *)
(* any stretch of time no more than they were given in it, for all callers *)
(* and keys, any capacity, rate and period, and any clock.                 *)
(***************************************************************************)
EXTENDS RateLimiter, TLAPS

----------------------------------------------------------------------------
(* Whole tokens.                                                           *)

\* What \div gives, without \div.
LEMMA Division ==
  ASSUME NEW u \in Nat, NEW p \in Nat \ {0}
  PROVE  /\ u \div p \in Nat
         /\ p * (u \div p) <= u /\ u < p * (u \div p) + p
BY SMT

\* More units are no fewer tokens.
LEMMA MoreUnits ==
  ASSUME NEW u \in Nat, NEW v \in Nat, NEW p \in Nat \ {0}, u <= v
  PROVE  u \div p <= v \div p
BY SMT

\* A token taken is one less.
LEMMA OneLess ==
  ASSUME NEW u \in Nat, NEW p \in Nat \ {0}, p <= u
  PROVE  (u - p) \div p = u \div p - 1
BY SMT

\* Too few units for a token are no token.
LEMMA NoToken ==
  ASSUME NEW u \in Nat, NEW p \in Nat \ {0}, u < p
  PROVE  u \div p = 0
BY SMT

\* A full bucket has Capacity tokens.
LEMMA FullIsCapacity == Full \div Period = Capacity
BY LimiterAssumption, SMT DEF Full

----------------------------------------------------------------------------
(* Types.                                                                  *)

\* A full bucket is some number of units.
LEMMA FullIsNat == Full \in Nat
BY LimiterAssumption DEF Full

\* The clock counts from 0.
LEMMA InstantsAreNat == \A t \in Instants : t \in Nat
BY LimiterAssumption DEF Instants

\* Time never runs backwards between two readings, whichever is older.
LEMMA ElapsedIsNat ==
  ASSUME NEW from \in Instants, NEW to \in Instants
  PROVE  Elapsed(from, to) \in Nat
BY InstantsAreNat DEF Elapsed

\* Between the refill and the token taken: no less than before, no more than a
\* full bucket.
LEMMA UnitsBounds ==
  ASSUME NEW b \in Bucket, NEW t \in Instants
  PROVE  /\ UnitsAt(b, t) \in Nat
         /\ b.units <= UnitsAt(b, t) /\ UnitsAt(b, t) <= Full
<1> DEFINE e == Elapsed(b.updatedAt, t)
<1>1. e \in Nat
  BY ElapsedIsNat DEF Bucket
<1>2. e * Rate \in Nat
  BY <1>1, LimiterAssumption
<1>3. b.units \in Nat /\ b.units <= Full
  BY FullIsNat DEF Bucket
<1>. HIDE DEF e
<1>. QED
  BY <1>2, <1>3, FullIsNat DEF UnitsAt, Least, e

\* A check leaves a bucket that holds nothing below zero and no more than full.
LEMMA TakeType ==
  ASSUME NEW b \in Bucket, NEW t \in Instants
  PROVE  Take(b, t) \in Bucket
<1>1. /\ UnitsAt(b, t) \in Nat /\ UnitsAt(b, t) <= Full
      /\ Period \in Nat /\ Full \in Nat
  BY UnitsBounds, FullIsNat, LimiterAssumption
<1>2. (IF UnitsAt(b, t) < Period THEN UnitsAt(b, t) ELSE UnitsAt(b, t) - Period)
      \in 0 .. Full
  BY <1>1
<1>. QED
  BY <1>2 DEF Take, Bucket

\* What is left once a token is taken, or not.
LEMMA Taken ==
  ASSUME NEW b \in Bucket, NEW t \in Instants
  PROVE  /\ Take(b, t).made = b.made
         /\ Take(b, t).units = IF UnitsAt(b, t) < Period THEN UnitsAt(b, t)
                               ELSE UnitsAt(b, t) - Period
BY DEF Take, Bucket

\* The bucket a check works on, made if need be.
LEMMA OpenType ==
  ASSUME TypeOK, NEW k \in Keys, NEW t \in Instants
  PROVE  Open(k, t) \in Bucket
BY FullIsNat DEF TypeOK, Open, FullBucket, Bucket

\* The buckets never hold more than a full one, whatever order readings come in.
THEOREM TypeCorrectness == Spec => []TypeOK
<1>1. Init => TypeOK
  BY FullIsNat, LimiterAssumption
  DEF Init, TypeOK, Instants, Bucket, FullBucket, NoBucket
<1>2. TypeOK /\ [Next]_vars => TypeOK'
  <2>. SUFFICES ASSUME TypeOK, [Next]_vars PROVE TypeOK'
    OBVIOUS
  <2>. USE DEF TypeOK
  <2>1. ASSUME NEW c \in Callers, ReadClock(c) PROVE TypeOK'
    <3>1. reading' = [reading EXCEPT ![c] = now] /\ pc' = [pc EXCEPT ![c] = "read"]
      BY <2>1 DEF ReadClock
    <3>2. \A d \in Callers : reading'[d] <= now
      BY <3>1, InstantsAreNat
    <3>. QED
      BY <2>1, <3>1, <3>2 DEF ReadClock
  <2>2. ASSUME NEW c \in Callers, NEW k \in Keys, Check(c, k) PROVE TypeOK'
    <3> DEFINE t == reading[c]
               b == Open(k, t)
    <3>1. t \in Instants /\ b \in Bucket
      BY OpenType
    <3>2. /\ bucket' = [bucket EXCEPT ![k] = Take(b, t)]
          /\ \/ /\ granted' = [granted EXCEPT ![k] = OneMore(@, t)]
                /\ passed' = [passed EXCEPT ![k] = @ + 1]
             \/ UNCHANGED <<granted, passed>>
          /\ undone' = [undone EXCEPT ![k] = @ + Elapsed(t, b.updatedAt)]
          /\ pc' = [pc EXCEPT ![c] = "idle"]
          /\ UNCHANGED <<now, reading>>
      BY <2>2 DEF Check
    <3>3. Take(b, t) \in Bucket
      BY <3>1, TakeType
    <3>4. Elapsed(t, b.updatedAt) \in Nat
      <4>1. b.updatedAt \in Instants
        BY <3>1 DEF Bucket
      <4>. QED
        BY <3>1, <4>1, ElapsedIsNat
    <3>. HIDE DEF b
    <3>5. bucket' \in [Keys -> Bucket]
      BY <3>2, <3>3
    <3>6. granted' \in [Keys -> [Instants -> Nat]] /\ passed' \in [Keys -> Nat]
      <4>1. CASE UNCHANGED <<granted, passed>>
        BY <4>1
      <4>2. CASE /\ granted' = [granted EXCEPT ![k] = OneMore(@, t)]
                 /\ passed' = [passed EXCEPT ![k] = @ + 1]
        <5>1. granted[k] \in [Instants -> Nat]
          OBVIOUS
        <5>2. OneMore(granted[k], t) \in [Instants -> Nat]
          BY <5>1 DEF OneMore
        <5>3. passed[k] + 1 \in Nat
          OBVIOUS
        <5>. QED
          BY <4>2, <5>2, <5>3
      <4>. QED
        BY <3>2, <4>1, <4>2
    <3>7. undone' \in [Keys -> Nat]
      BY <3>2, <3>4
    <3>8. /\ now' \in Instants
          /\ pc' \in [Callers -> {"idle", "read"}]
          /\ reading' \in [Callers -> Instants]
          /\ \A d \in Callers : reading'[d] <= now'
      BY <3>2
    <3>. QED
      BY <3>5, <3>6, <3>7, <3>8
  <2>3. CASE Restart
    BY <2>3, FullIsNat, LimiterAssumption
    DEF Restart, Instants, Bucket, FullBucket, NoBucket
  <2>4. CASE Tick
    BY <2>4, LimiterAssumption DEF Tick, Instants
  <2>5. CASE UNCHANGED vars
    BY <2>5 DEF vars
  <2>. QED
    BY <2>1, <2>2, <2>3, <2>4, <2>5 DEF Next
<1>. QED
  BY <1>1, <1>2, PTL DEF Spec

----------------------------------------------------------------------------
(* The refinement.                                                         *)

\* The tokens of the bucket of k.
Whole(k) == IF bucket[k].made THEN bucket[k].units \div Period ELSE Capacity

Asking == {c \in Callers : pc[c] = "read"}

\* Whole is what the refinement mapping says of a bucket.
LEMMA WholeTokens ==
  [k \in Keys |-> IF bucket[k].made THEN bucket[k].units \div Period ELSE Capacity]
  = [k \in Keys |-> Whole(k)]
BY DEF Whole

\* A check that finds a token lets the request through in Budget.
LEMMA CheckPasses ==
  ASSUME TypeOK, NEW c \in Callers, NEW k \in Keys, Check(c, k),
         UnitsAt(Open(k, reading[c]), reading[c]) >= Period
  PROVE  Abstract!Pass(c, k)
<1> DEFINE t == reading[c]
           b == Open(k, t)
           w == UnitsAt(b, t)
<1>1. t \in Instants /\ b \in Bucket
  BY OpenType DEF TypeOK
<1>2. w \in Nat /\ b.units <= w /\ w <= Full /\ Period <= w
  BY <1>1, UnitsBounds, LimiterAssumption
<1>3. b.units \in Nat /\ Period \in Nat \ {0} /\ Full \in Nat
  BY <1>1, FullIsNat, LimiterAssumption DEF Bucket
<1>4. b.made /\ Whole(k) = b.units \div Period
  BY FullIsCapacity DEF Open, FullBucket, Whole
<1>5. Whole(k) <= w \div Period /\ w \div Period <= Capacity
  BY <1>2, <1>3, <1>4, MoreUnits, FullIsCapacity
<1>6. (w - Period) \div Period = w \div Period - 1
  BY <1>2, <1>3, OneLess
<1>7. Whole(k) \in Nat /\ w \div Period \in Nat /\ w \div Period > 0
  <2>1. Period \div Period = 1
    BY <1>3, SMT
  <2>. QED
    BY <2>1, <1>2, <1>3, <1>4, MoreUnits, Division
<1>8. Take(b, t).made = b.made /\ Take(b, t).units = w - Period
  BY <1>1, <1>2, <1>3, Taken
<1>9. /\ bucket' = [bucket EXCEPT ![k] = Take(b, t)]
      /\ passed' = [passed EXCEPT ![k] = @ + 1]
      /\ pc[c] = "read" /\ pc' = [pc EXCEPT ![c] = "idle"]
  BY DEF Check
<1>10. bucket'[k].made /\ bucket'[k].units = w - Period
  BY <1>1, <1>4, <1>8, <1>9 DEF TypeOK, Bucket
<1>11. Whole(k)' = w \div Period - 1
  BY <1>6, <1>10 DEF Whole
<1>12. \A l \in Keys \ {k} : Whole(l)' = Whole(l)
  BY <1>9 DEF Whole, TypeOK
<1>13. [l \in Keys |-> Whole(l)]'
       = [[l \in Keys |-> Whole(l)] EXCEPT ![k] = w \div Period - 1]
  BY <1>11, <1>12
<1>14. Asking' = Asking \ {c} /\ c \in Asking
  BY <1>9 DEF Asking, TypeOK
<1>15. w \div Period \in Whole(k) .. Capacity
  BY <1>5, <1>7, LimiterAssumption
<1>. QED
  BY <1>7, <1>9, <1>13, <1>14, <1>15, WholeTokens DEF Abstract!Pass, Asking, Whole

\* A check that finds none refuses it, and Budget has none for it either.
LEMMA CheckRefuses ==
  ASSUME TypeOK, NEW c \in Callers, NEW k \in Keys, Check(c, k),
         UnitsAt(Open(k, reading[c]), reading[c]) < Period
  PROVE  Abstract!Refuse(c, k)
<1> DEFINE t == reading[c]
           b == Open(k, t)
           w == UnitsAt(b, t)
<1>1. t \in Instants /\ b \in Bucket
  BY OpenType DEF TypeOK
<1>2. w \in Nat /\ b.units <= w /\ w < Period
  BY <1>1, UnitsBounds
<1>3. b.units \in Nat /\ Period \in Nat \ {0} /\ b.units < Period
  BY <1>1, <1>2, FullIsNat, LimiterAssumption DEF Bucket
<1>4. b.made /\ Whole(k) = b.units \div Period
  BY FullIsCapacity DEF Open, FullBucket, Whole
<1>5. Whole(k) = 0 /\ w \div Period = 0
  BY <1>2, <1>3, <1>4, NoToken
<1>6. Take(b, t).made = b.made /\ Take(b, t).units = w
  BY <1>1, <1>2, Taken
<1>7. /\ bucket' = [bucket EXCEPT ![k] = Take(b, t)]
      /\ pc[c] = "read" /\ pc' = [pc EXCEPT ![c] = "idle"]
      /\ passed' = passed
  BY <1>2, <1>3 DEF Check
<1>8. Whole(k)' = Whole(k)
  BY <1>4, <1>5, <1>6, <1>7 DEF Whole, TypeOK
<1>9. \A l \in Keys \ {k} : Whole(l)' = Whole(l)
  BY <1>7 DEF Whole, TypeOK
<1>10. [l \in Keys |-> Whole(l)]' = [l \in Keys |-> Whole(l)]
  BY <1>8, <1>9
<1>11. Asking' = Asking \ {c} /\ c \in Asking
  BY <1>7 DEF Asking, TypeOK
<1>. QED
  BY <1>5, <1>7, <1>10, <1>11, WholeTokens DEF Abstract!Refuse, Asking, Whole

\* Fresh buckets, and those not made yet, are full.
LEMMA AllFull ==
  ASSUME NEW t,
         bucket = [k \in Keys |-> IF k = Shared THEN FullBucket(t) ELSE NoBucket]
  PROVE  [k \in Keys |-> Whole(k)] = [k \in Keys |-> Capacity]
BY FullIsCapacity DEF Whole, FullBucket, NoBucket

\* The limiters implement Budget: late clock readings, fractions and the mutex
\* let nothing through without a whole token and refuse nothing that has one.
THEOREM Refinement == Spec => KeepsBudget
<1>1. Init => Abstract!BudgetInit
  <2>. SUFFICES ASSUME Init PROVE Abstract!BudgetInit
    OBVIOUS
  <2>1. [k \in Keys |-> Whole(k)] = [k \in Keys |-> Capacity]
    BY AllFull DEF Init
  <2>2. Asking = {}
    BY DEF Init, Asking
  <2>. QED
    BY <2>1, <2>2, WholeTokens DEF Init, Abstract!BudgetInit, Asking
<1>2. TypeOK /\ [Next]_vars => [Abstract!BudgetNext]_Abstract!budgetVars
  <2>. SUFFICES ASSUME TypeOK, [Next]_vars
                PROVE  Abstract!BudgetNext \/ UNCHANGED Abstract!budgetVars
    OBVIOUS
  <2>1. ASSUME NEW c \in Callers, ReadClock(c) PROVE Abstract!Ask(c)
    <3>1. Asking' = Asking \cup {c} /\ c \notin Asking
      BY <2>1 DEF ReadClock, Asking, TypeOK
    <3>. QED
      BY <2>1, <3>1 DEF ReadClock, Abstract!Ask, Asking
  <2>2. ASSUME NEW c \in Callers, NEW k \in Keys, Check(c, k)
        PROVE  Abstract!Pass(c, k) \/ Abstract!Refuse(c, k)
    <3>1. UnitsAt(Open(k, reading[c]), reading[c]) \in Nat /\ Period \in Nat
      BY OpenType, UnitsBounds, LimiterAssumption DEF TypeOK
    <3>2. CASE UnitsAt(Open(k, reading[c]), reading[c]) >= Period
      BY <2>2, <3>2, CheckPasses
    <3>3. CASE UnitsAt(Open(k, reading[c]), reading[c]) < Period
      BY <2>2, <3>3, CheckRefuses
    <3>. QED
      BY <3>1, <3>2, <3>3
  <2>3. ASSUME Restart PROVE Abstract!StartAgain
    <3>1. [k \in Keys |-> Whole(k)]' = [k \in Keys |-> Capacity]
      BY <2>3, FullIsCapacity DEF Restart, Whole, FullBucket, NoBucket
    <3>2. Asking' = {}
      BY <2>3 DEF Restart, Asking
    <3>. QED
      BY <2>3, <3>1, <3>2, WholeTokens DEF Restart, Abstract!StartAgain, Asking, Whole
  <2>4. ASSUME Tick \/ UNCHANGED vars PROVE UNCHANGED Abstract!budgetVars
    BY <2>4 DEF Tick, vars, Abstract!budgetVars
  <2>. QED
    BY <2>1, <2>2, <2>3, <2>4 DEF Next, Abstract!BudgetNext
<1>3. Spec => []TypeOK
  BY TypeCorrectness
<1>. QED
  BY <1>1, <1>2, <1>3, PTL DEF Spec, KeepsBudget, Abstract!BudgetSpec

----------------------------------------------------------------------------
(* What was let through was paid for.                                      *)

\* What PaidFor says of a stretch in which n requests were let through, by a
\* bucket whose clock was put back by u in all, and what the bucket still has.
\* Its clock is in the stretch, after it, or before it: then what it will have
\* gained when the stretch begins counts.
Paid(b, n, u, from, to) ==
  /\ n * Period <= Full + (to - from + u) * Rate
  /\ from <= b.updatedAt => n * Period + b.units <= Full + (b.updatedAt - from + u) * Rate
  /\ b.updatedAt <= from => n * Period + UnitsAt(b, from) <= Full + u * Rate

\* What a bucket has let through was paid for; one not yet made, nothing.
EachPaid ==
  \A k \in Keys : \A from, to \in Instants : from <= to =>
    IF bucket[k].made THEN Paid(bucket[k], Granted(k, from, to), undone[k], from, to)
    ELSE Granted(k, from, to) = 0 /\ undone[k] = 0

\* Time is worth units in proportion, and more time is worth no less.
LEMMA Worth ==
  ASSUME NEW x \in Int, NEW y \in Int
  PROVE  /\ (x + y) * Rate = x * Rate + y * Rate
         /\ x * Rate \in Int
         /\ x <= y => x * Rate <= y * Rate
<1>1. Rate \in Nat
  BY LimiterAssumption
<1>2. (x + y) * Rate = x * Rate + y * Rate /\ x * Rate \in Int
  BY <1>1, SMT
<1>3. ASSUME x <= y PROVE x * Rate <= y * Rate
  <2>1. y - x \in Nat /\ (y - x) * Rate >= 0
    BY <1>1, <1>3, SMT
  <2>2. y * Rate = x * Rate + (y - x) * Rate
    BY <1>1, SMT
  <2>3. (y - x) * Rate \in Int /\ y * Rate \in Int
    BY <1>1, SMT
  <2>. QED
    BY <1>2, <2>1, <2>2, <2>3
<1>. QED
  BY <1>2, <1>3

\* A request that is let through, or not, at any reading, leaves what it had
\* paid: the three cases are where the clock of the bucket was and is.
LEMMA TakePays ==
  ASSUME NEW b \in Bucket, NEW t \in Instants, NEW n \in Int, NEW m \in Int,
         NEW u \in Nat, NEW from \in Instants, NEW to \in Instants, from <= to,
         Paid(b, n, u, from, to),
         m = n \/ (m = n + 1 /\ UnitsAt(b, t) >= Period /\ from <= t /\ t <= to)
  PROVE  Paid(Take(b, t), m, u + Elapsed(t, b.updatedAt), from, to)
<1> DEFINE P == b.updatedAt
           B == b.units
           w == UnitsAt(b, t)
           v == UnitsAt(b, from)
           C == Take(b, t).units
           X == UnitsAt(Take(b, t), from)
           F(x) == x * Rate
           N == n * Period
           M == m * Period
           z == u + Elapsed(t, P)
<1>1. /\ P \in Int /\ t \in Int /\ from \in Int /\ to \in Int /\ u \in Int
      /\ 0 <= P /\ 0 <= u /\ u \in Nat /\ Rate \in Nat
  BY InstantsAreNat, LimiterAssumption DEF Bucket
<1>2. /\ B \in Nat /\ w \in Nat /\ v \in Nat /\ Full \in Nat /\ B <= Full
      /\ w <= Full /\ v <= Full /\ B <= w
  BY UnitsBounds, FullIsNat DEF Bucket
<1>3. /\ Take(b, t) \in Bucket /\ Take(b, t).updatedAt = t
      /\ C \in Nat /\ C <= w /\ C <= Full /\ X \in Nat /\ X <= Full
  <2>1. Take(b, t) \in Bucket
    BY TakeType
  <2>2. Take(b, t).updatedAt = t
    BY DEF Take, Bucket
  <2>3. C \in Nat /\ C <= w /\ C <= Full
    BY <1>2, Taken, LimiterAssumption
  <2>. QED
    BY <2>1, <2>2, <2>3, UnitsBounds
<1>4. /\ N \in Int /\ M \in Int
      /\ M + C <= N + w
      /\ t < from \/ t > to => M = N
  <2>1. N \in Int /\ M \in Int /\ Period \in Nat /\ (m = n + 1 => M = N + Period)
    BY LimiterAssumption, SMT
  <2>2. C = IF w < Period THEN w ELSE w - Period
    BY Taken
  <2>. HIDE DEF N, M, w, C
  <2>3. CASE m = n
    <3>1. M = N
      BY <2>3 DEF N, M
    <3>. QED
      BY <3>1, <2>1, <1>2, <1>3
  <2>4. CASE m = n + 1 /\ UnitsAt(b, t) >= Period /\ from <= t /\ t <= to
    <3>1. w >= Period
      BY <2>4 DEF w
    <3>. QED
      BY <3>1, <2>1, <2>2, <2>4, <1>1, <1>2
  <2>. QED
    BY <2>3, <2>4
<1>5. /\ w = Least(B + F(Elapsed(P, t)), Full)
      /\ v = Least(B + F(Elapsed(P, from)), Full)
      /\ X = Least(C + F(Elapsed(t, from)), Full)
  BY <1>3 DEF UnitsAt
<1>6. /\ N <= Full + F(to - from + u)
      /\ from <= P => N + B <= Full + F(P - from + u)
      /\ P <= from => N + v <= Full + F(u)
  BY DEF Paid
<1>7. /\ \A x, y \in Int : /\ F(x + y) = F(x) + F(y)
                           /\ x <= y => F(x) <= F(y)
      /\ \A x \in Int : F(x) \in Int
      /\ \A x \in Int : 0 <= x => 0 <= F(x)
      /\ F(0) = 0
  <2>1. \A x, y \in Int : /\ F(x + y) = F(x) + F(y) /\ F(x) \in Int
                          /\ x <= y => F(x) <= F(y)
    BY Worth
  <2>2. F(0) = 0
    BY LimiterAssumption
  <2>. HIDE DEF F
  <2>3. \A x \in Int : F(x) \in Int
    <3>. TAKE x \in Int
    <3>1. F(x + x) = F(x) + F(x) /\ F(x) \in Int
      BY <2>1
    <3>. QED
      BY <3>1
  <2>4. \A x \in Int : 0 <= x => F(0) <= F(x)
    BY <2>1
  <2>. QED
    BY <2>1, <2>2, <2>3, <2>4
<1>8. /\ M <= Full + F(to - from + z)
      /\ from <= t => M + C <= Full + F(t - from + z)
      /\ t <= from => M + X <= Full + F(z)
  <2>. HIDE DEF N, M, w, v, C, X, B, P, z
  <2>1. CASE P <= t
    <3>1. z = u
      BY <2>1, <1>1 DEF z, Elapsed
    <3>2. w <= B + F(t - P)
      BY <2>1, <1>1, <1>2, <1>5, <1>7 DEF Elapsed, Least
    <3>3. ASSUME from <= t PROVE M + C <= Full + F(t - from + u)
      <4>1. CASE from <= P
        <5>1. F((t - P) + (P - from + u)) = F(t - P) + F(P - from + u)
          BY <1>1, <1>7
        <5>2. (t - P) + (P - from + u) = t - from + u
          BY <1>1
        <5>3. F(t - P) \in Int /\ F(P - from + u) \in Int
          BY <1>1, <1>7
        <5>. QED
          BY <5>1, <5>2, <5>3, <4>1, <3>2, <1>2, <1>3, <1>4, <1>6
      <4>2. CASE P <= from
        <5>1. F((from - P) + (t - from)) = F(from - P) + F(t - from)
          BY <1>1, <1>7
        <5>2. (from - P) + (t - from) = t - P
          BY <1>1
        <5>3. F(u + (t - from)) = F(u) + F(t - from) /\ u + (t - from) = t - from + u
          BY <1>1, <1>7
        <5>4. F(from - P) \in Int /\ F(t - from) \in Int /\ F(u) \in Int /\ F(t - from) >= 0
          BY <3>3, <1>1, <1>7
        <5>5. v = Least(B + F(from - P), Full)
          BY <4>2, <1>1, <1>5 DEF Elapsed
        <5>6. w <= v + F(t - from)
          BY <5>1, <5>2, <5>4, <5>5, <3>2, <1>2 DEF Least
        <5>. QED
          BY <5>3, <5>4, <5>6, <4>2, <1>2, <1>3, <1>4, <1>6
      <4>. QED
        BY <4>1, <4>2, <1>1
    <3>4. ASSUME t <= from PROVE M + X <= Full + F(u)
      <4>1. X = Least(C + F(from - t), Full) /\ v = Least(B + F(from - P), Full)
        BY <3>4, <2>1, <1>1, <1>5 DEF Elapsed
      <4>2. F((from - t) + (t - P)) = F(from - t) + F(t - P)
        BY <1>1, <1>7
      <4>3. (from - t) + (t - P) = from - P
        BY <1>1
      <4>4. F(from - t) \in Int /\ F(t - P) \in Int /\ F(u) \in Int
        BY <1>1, <1>7
      <4>5. w + F(from - t) <= B + F(from - P)
        BY <4>2, <4>3, <4>4, <3>2, <1>2
      <4>6. N + v <= Full + F(u)
        BY <1>6, <3>4, <2>1, <1>1
      <4>7. CASE t < from
        <5>1. M = N
          BY <4>7, <1>4
        <5>2. X <= v
          BY <4>1, <4>4, <4>5, <1>2, <1>3, <4>3 DEF Least
        <5>. QED
          BY <5>1, <5>2, <4>4, <4>6, <1>2, <1>3, <1>4
      <4>8. CASE t = from
        <5>1. from - t = 0
          BY <4>8, <1>1
        <5>2. X <= C
          BY <5>1, <4>1, <1>1, <1>3 DEF Least
        <5>3. w <= v
          BY <5>1, <4>1, <4>5, <4>4, <1>1, <1>2 DEF Least
        <5>. QED
          BY <5>2, <5>3, <4>4, <4>6, <1>2, <1>3, <1>4
      <4>. QED
        BY <4>7, <4>8, <3>4, <1>1
    <3>5. M <= Full + F(to - from + u)
      <4>1. CASE M = N
        BY <4>1, <1>6
      <4>2. CASE from <= t /\ t <= to
        <5>1. F(t - from + u) <= F(to - from + u)
          BY <4>2, <1>1, <1>7
        <5>2. F(t - from + u) \in Int /\ F(to - from + u) \in Int
          BY <1>1, <1>7
        <5>. QED
          BY <5>1, <5>2, <4>2, <3>3, <1>2, <1>3, <1>4
      <4>. QED
        BY <4>1, <4>2, <1>4, <1>1
    <3>. QED
      BY <3>1, <3>3, <3>4, <3>5
  <2>2. CASE t < P
    <3>1. z = u + (P - t)
      BY <2>2, <1>1 DEF z, Elapsed
    <3>2. w = B
      BY <2>2, <1>1, <1>2, <1>5 DEF Elapsed, Least
    <3>3. ASSUME from <= t PROVE M + C <= Full + F(t - from + z)
      <4>1. t - from + z = P - from + u
        BY <3>1, <1>1
      <4>2. F(P - from + u) \in Int
        BY <1>1, <1>7
      <4>. QED
        BY <4>1, <4>2, <3>2, <3>3, <2>2, <1>1, <1>2, <1>3, <1>4, <1>6
    <3>4. ASSUME t <= from PROVE M + X <= Full + F(z)
      <4>1. X <= C + F(from - t)
        BY <3>4, <1>1, <1>3, <1>5, <1>7, <1>2 DEF Elapsed, Least
      <4>2. CASE from <= P
        <5>1. F((P - from + u) + (from - t)) = F(P - from + u) + F(from - t)
          BY <1>1, <1>7
        <5>2. (P - from + u) + (from - t) = z
          BY <3>1, <1>1
        <5>3. F(P - from + u) \in Int /\ F(from - t) \in Int
          BY <1>1, <1>7
        <5>. QED
          BY <5>1, <5>2, <5>3, <4>1, <4>2, <3>2, <1>2, <1>3, <1>4, <1>6
      <4>3. CASE P < from
        <5>1. M = N
          BY <4>3, <2>2, <1>1, <1>4
        <5>2. v = Least(B + F(from - P), Full) /\ N + v <= Full + F(u)
          BY <4>3, <1>1, <1>5, <1>6 DEF Elapsed
        <5>3. F((from - P) + (P - t)) = F(from - P) + F(P - t)
          BY <1>1, <1>7
        <5>4. (from - P) + (P - t) = from - t
          BY <1>1
        <5>5. F(u + (P - t)) = F(u) + F(P - t)
          BY <1>1, <1>7
        <5>6. /\ F(from - P) \in Int /\ F(P - t) \in Int /\ F(u) \in Int
              /\ F(P - t) >= 0
          BY <2>2, <1>1, <1>7
        <5>7. X <= v + F(P - t)
          BY <5>2, <5>3, <5>4, <5>6, <4>1, <3>2, <1>2, <1>3 DEF Least
        <5>. QED
          BY <5>1, <5>2, <5>5, <5>6, <5>7, <3>1, <1>2, <1>3, <1>4
      <4>. QED
        BY <4>2, <4>3, <1>1
    <3>5. M <= Full + F(to - from + z)
      <4>1. F(to - from + u) <= F(to - from + z)
        BY <3>1, <2>2, <1>1, <1>7
      <4>2. F(t - from + z) <= F(to - from + z) \/ t > to
        BY <3>1, <1>1, <1>7
      <4>3. z \in Int
        BY <3>1, <1>1
      <4>4. /\ F(t - from + z) \in Int /\ F(to - from + z) \in Int
            /\ F(to - from + u) \in Int
        BY <4>3, <1>1, <1>7
      <4>5. CASE M = N
        BY <4>1, <4>4, <4>5, <1>2, <1>4, <1>6
      <4>6. CASE from <= t /\ t <= to
        BY <4>2, <4>4, <4>6, <3>3, <1>1, <1>2, <1>3, <1>4
      <4>. QED
        BY <4>5, <4>6, <1>4, <1>1
    <3>. QED
      BY <3>3, <3>4, <3>5
  <2>. QED
    BY <2>1, <2>2, <1>1
<1>. QED
  BY <1>3, <1>8 DEF Paid

\* A bucket that is made for a request is full, and nothing was let through.
LEMMA NewPays ==
  ASSUME NEW t \in Instants, NEW from \in Instants, NEW to \in Instants, from <= to
  PROVE  Paid(FullBucket(t), 0, 0, from, to)
<1>1. FullBucket(t) \in Bucket
  BY FullIsNat DEF FullBucket, Bucket
<1>2. /\ FullBucket(t).units = Full /\ FullBucket(t).updatedAt = t
      /\ UnitsAt(FullBucket(t), from) <= Full
      /\ UnitsAt(FullBucket(t), from) \in Nat
  BY <1>1, UnitsBounds DEF FullBucket
<1>3. /\ from \in Int /\ to \in Int /\ t \in Int /\ Full \in Nat /\ Rate \in Nat
  BY InstantsAreNat, FullIsNat, LimiterAssumption
<1>4. \A x \in Int : 0 <= x => 0 <= x * Rate /\ x * Rate \in Int
  BY Worth, <1>3
<1>5. 0 <= (to - from + 0) * Rate /\ (from <= t => 0 <= (t - from + 0) * Rate)
  BY <1>3, <1>4
<1>6. 0 * Period = 0 /\ 0 * Rate = 0
  BY LimiterAssumption
<1>. QED
  BY <1>2, <1>3, <1>5, <1>6 DEF Paid

\* One more request that read the clock at t counts in the stretches t is in.
LEMMA CountedOnce ==
  ASSUME NEW count \in [Instants -> Nat], NEW t \in Instants,
         NEW from \in Instants, NEW to \in Instants, from <= to
  PROVE  OneMore(count, t)[to] - (IF from = 0 THEN 0 ELSE OneMore(count, t)[from - 1])
         = count[to] - (IF from = 0 THEN 0 ELSE count[from - 1])
           + (IF from <= t /\ t <= to THEN 1 ELSE 0)
<1>1. from = 0 \/ from - 1 \in Instants
  BY LimiterAssumption DEF Instants
<1>2. /\ t \in Int /\ from \in Int /\ to \in Int /\ 0 <= t
      /\ count[to] \in Nat /\ (from # 0 => count[from - 1] \in Nat)
  BY <1>1, InstantsAreNat
<1>3. /\ OneMore(count, t)[to] = IF to < t THEN count[to] ELSE count[to] + 1
      /\ from # 0 => OneMore(count, t)[from - 1] =
           IF from - 1 < t THEN count[from - 1] ELSE count[from - 1] + 1
  BY <1>1 DEF OneMore
<1>. QED
  BY <1>2, <1>3

\* A check by one caller leaves every bucket with what it let through paid for.
LEMMA CheckEachPaid ==
  ASSUME TypeOK, EachPaid, NEW c \in Callers, NEW k \in Keys, Check(c, k)
  PROVE  EachPaid'
<1> DEFINE t == reading[c]
           b == Open(k, t)
<1>1. t \in Instants /\ b \in Bucket /\ b.made
  BY OpenType DEF TypeOK, Open, FullBucket
<1>2. /\ bucket' = [bucket EXCEPT ![k] = Take(b, t)]
      /\ \/ granted' = [granted EXCEPT ![k] = OneMore(@, t)] /\ UnitsAt(b, t) >= Period
         \/ granted' = granted
      /\ undone' = [undone EXCEPT ![k] = @ + Elapsed(t, b.updatedAt)]
  BY DEF Check
<1>3. \A l \in Keys \ {k} : /\ bucket'[l] = bucket[l] /\ undone'[l] = undone[l]
                            /\ granted'[l] = granted[l]
  BY <1>2 DEF TypeOK
<1>4. /\ bucket'[k] = Take(b, t) /\ bucket'[k].made
      /\ undone'[k] = undone[k] + Elapsed(t, b.updatedAt)
  BY <1>1, <1>2, Taken DEF TypeOK
<1>. SUFFICES ASSUME NEW l \in Keys, NEW from \in Instants, NEW to \in Instants, from <= to
              PROVE  IF bucket'[l].made
                     THEN Paid(bucket'[l], Granted(l, from, to)', undone'[l], from, to)
                     ELSE Granted(l, from, to)' = 0 /\ undone'[l] = 0
  BY DEF EachPaid
<1>5. CASE l # k
  <2>1. Granted(l, from, to)' = Granted(l, from, to)
    BY <1>3, <1>5 DEF Granted
  <2>. QED
    BY <2>1, <1>3, <1>5 DEF EachPaid
<1>6. CASE l = k
  <2>1. granted[k] \in [Instants -> Nat] /\ undone[k] \in Nat
    BY DEF TypeOK
  <2>2. Granted(k, from, to) \in Int
    <3>1. from = 0 \/ from - 1 \in Instants
      BY LimiterAssumption DEF Instants
    <3>. QED
      BY <2>1, <3>1 DEF Granted
  <2>3. \/ Granted(k, from, to)' = Granted(k, from, to)
        \/ /\ Granted(k, from, to)' = Granted(k, from, to) + 1
           /\ UnitsAt(b, t) >= Period /\ from <= t /\ t <= to
    <3>1. CASE granted' = granted
      BY <3>1 DEF Granted
    <3>2. CASE granted' = [granted EXCEPT ![k] = OneMore(@, t)] /\ UnitsAt(b, t) >= Period
      <4>1. granted'[k] = OneMore(granted[k], t)
        BY <3>2 DEF TypeOK
      <4>2. Granted(k, from, to)'
            = Granted(k, from, to) + (IF from <= t /\ t <= to THEN 1 ELSE 0)
        BY <4>1, <2>1, <1>1, CountedOnce DEF Granted
      <4>. HIDE DEF t, b
      <4>. QED
        BY <4>2, <3>2, <2>2
    <3>. QED
      BY <3>1, <3>2, <1>2
  <2>4. Granted(k, from, to)' \in Int
    BY <2>2, <2>3
  <2>5. Paid(b, Granted(k, from, to), undone[k], from, to)
    <3>1. CASE bucket[k].made
      BY <3>1 DEF EachPaid, Open
    <3>2. CASE ~bucket[k].made
      <4>1. b = FullBucket(t) /\ Granted(k, from, to) = 0 /\ undone[k] = 0
        BY <3>2 DEF EachPaid, Open
      <4>2. Paid(b, 0, 0, from, to)
        BY <4>1, <1>1, NewPays
      <4>. QED
        BY <4>1, <4>2
    <3>. QED
      BY <3>1, <3>2
  <2>6. Paid(Take(b, t), Granted(k, from, to)', undone[k] + Elapsed(t, b.updatedAt),
             from, to)
    <3>. HIDE DEF t, b
    <3>. QED
      BY <1>1, <2>1, <2>2, <2>3, <2>4, <2>5, TakePays
  <2>. QED
    BY <2>6, <1>4, <1>6
<1>. QED
  BY <1>5, <1>6

\* All that was let through, in any stretch of readings, by any bucket, was
\* paid for, in whatever order the readings reach the mutex.
THEOREM RequestsArePaidFor == Spec => []PaidFor
<1>1. Init => EachPaid
  <2>. SUFFICES ASSUME Init, NEW k \in Keys, NEW from \in Instants, NEW to \in Instants,
                       from <= to
                PROVE  IF bucket[k].made
                       THEN Paid(bucket[k], Granted(k, from, to), undone[k], from, to)
                       ELSE Granted(k, from, to) = 0 /\ undone[k] = 0
    BY DEF EachPaid
  <2>1. Granted(k, from, to) = 0 /\ undone[k] = 0 /\ 0 \in Instants
    BY LimiterAssumption DEF Init, Granted, Instants
  <2>2. bucket[k].made => bucket[k] = FullBucket(0)
    BY DEF Init, NoBucket
  <2>. QED
    BY <2>1, <2>2, NewPays
<1>2. TypeOK /\ TypeOK' /\ EachPaid /\ [Next]_vars => EachPaid'
  <2>. SUFFICES ASSUME TypeOK, TypeOK', EachPaid, [Next]_vars PROVE EachPaid'
    OBVIOUS
  <2>1. ASSUME NEW c \in Callers, NEW k \in Keys, Check(c, k) PROVE EachPaid'
    BY <2>1, CheckEachPaid
  <2>2. CASE Restart
    <3>. SUFFICES ASSUME NEW k \in Keys, NEW from \in Instants, NEW to \in Instants,
                         from <= to
                  PROVE  IF bucket'[k].made
                         THEN Paid(bucket'[k], Granted(k, from, to)', undone'[k], from, to)
                         ELSE Granted(k, from, to)' = 0 /\ undone'[k] = 0
      BY DEF EachPaid
    <3>1. Granted(k, from, to)' = 0 /\ undone'[k] = 0 /\ now \in Instants
      BY <2>2, LimiterAssumption DEF Restart, Granted, Instants, TypeOK
    <3>2. bucket'[k].made => bucket'[k] = FullBucket(now)
      BY <2>2 DEF Restart, NoBucket
    <3>. QED
      BY <3>1, <3>2, NewPays
  <2>3. CASE UNCHANGED <<bucket, granted, undone>>
    BY <2>3 DEF EachPaid, Granted
  <2>. QED
    BY <2>1, <2>2, <2>3 DEF Next, ReadClock, Tick, vars
<1>3. EachPaid /\ TypeOK => PaidFor
  <2>. SUFFICES ASSUME EachPaid, TypeOK, NEW k \in Keys, NEW from \in Instants,
                       NEW to \in Instants, from <= to
                PROVE  Granted(k, from, to) * Period <= Full + (to - from + undone[k]) * Rate
    BY DEF PaidFor
  <2>1. CASE bucket[k].made
    BY <2>1 DEF EachPaid, Paid
  <2>2. CASE ~bucket[k].made
    <3>1. Paid(FullBucket(to), 0, 0, from, to) /\ Granted(k, from, to) = 0 /\ undone[k] = 0
      BY <2>2, NewPays DEF EachPaid
    <3>. QED
      BY <3>1 DEF Paid
  <2>. QED
    BY <2>1, <2>2
<1>. QED
  BY <1>1, <1>2, <1>3, TypeCorrectness, PTL DEF Spec
=============================================================================
